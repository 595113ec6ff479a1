----------------------------- MODULE MCChannels -----------------------------
(* Channels for TLC: the bounds of the configurations.                     *)
EXTENDS Channels

(* Beside a producer thread only the last channel, whose drain task is the *)
(* one that loses races, gets more than one item; beside get() none does.  *)
Bounds ==
  \A c \in Chan : sent[c] <= IF "thread" \in scene /\ c = NumChan THEN MaxPut ELSE 1

=============================================================================
