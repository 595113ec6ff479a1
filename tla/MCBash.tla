------------------------------- MODULE MCBash -------------------------------
(* BashSession for TLC.                                                    *)
EXTENDS BashSession

(* Once callers have met a start, or one was cancelled, only two callers   *)
(* are followed further, up to the first reset.                            *)
Bounds ==
  disturbed => /\ lock = 0 /\ ~inInit /\ queue = <<>>
               /\ \E c \in Call : call[c].pc = "idle"

=============================================================================
