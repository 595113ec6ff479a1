---------------------------- MODULE ChannelSpec -----------------------------
(***************************************************************************)
(* What the channels of a QueueManager promise a single dispatcher: each   *)
(* is a FIFO queue; whatever tasks, futures and cancellations serve them,  *)
(* an item is consumed once, in the order of the puts, unless it is        *)
(* discarded, and only items not yet consumed are discarded.               *)
(***************************************************************************)
EXTENDS Naturals, Sequences

CONSTANTS
  Channel,    \* the channels of the manager
  Item        \* what can be put on one

VARIABLES
  queue,      \* the items put and neither consumed nor discarded
  got         \* the items consumed, in the order of consumption

Init == /\ queue = [c \in Channel |-> <<>>]
        /\ got   = [c \in Channel |-> <<>>]

Put(c) == /\ \E n \in Item : queue' = [queue EXCEPT ![c] = Append(@, n)]
          /\ UNCHANGED got

(* The consumer gets the oldest items: one (race), or all (drain).         *)
Take(c) == \E k \in 1..Len(queue[c]) :
             /\ got'   = [got EXCEPT ![c] = @ \o SubSeq(queue[c], 1, k)]
             /\ queue' = [queue EXCEPT ![c] = SubSeq(@, k + 1, Len(@))]

(* pop_last and flush take from the end; what a race holds stays.          *)
Discard(c) == /\ \E k \in 0..(Len(queue[c]) - 1) :
                   queue' = [queue EXCEPT ![c] = SubSeq(@, 1, k)]
              /\ UNCHANGED got

Next == \E c \in Channel : Put(c) \/ Take(c) \/ Discard(c)

vars == <<queue, got>>

Spec == Init /\ [][Next]_vars

=============================================================================
