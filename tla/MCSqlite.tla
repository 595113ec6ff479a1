------------------------------ MODULE MCSqlite ------------------------------
(* SqliteEvents for TLC.                                                   *)
EXTENDS SqliteEvents

MaxRemovals   == 1
MaxTagFaulty  == 3

(* With faults, three events and one deletion between two clears are       *)
(* followed; without them, all MaxTag events and any deletions.            *)
Bounds == faulty => next <= MaxTagFaulty + 1 /\ Cardinality(removed) <= MaxRemovals

=============================================================================
