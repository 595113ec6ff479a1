----------------------------- MODULE MCSandbox ------------------------------
(* SandboxExecutor for TLC: the environments and bounds of the             *)
(* configurations.                                                         *)
EXTENDS SandboxExecutor

With(recovery, deaths, cancels, stragglers) ==
  [recovery |-> recovery, deaths |-> deaths, cancels |-> cancels, stragglers |-> stragglers]

\* Deadlines, workers that die in a cell, brokered calls and threads left
\* behind; and callers cancelled at every await, workers dying at any moment.
Both == {With("restart_empty", {"cell"}, FALSE, TRUE),
         With("disabled", {"cell", "idle", "send"}, TRUE, FALSE)}

Cancelled  == {With("disabled", {"cell", "idle", "send"}, TRUE, FALSE)}
CancelOnly == {With("restart_empty", {}, TRUE, FALSE)}
Disabled   == {With("disabled", {"idle"}, FALSE, FALSE)}
Idling     == {With("restart_empty", {"idle"}, FALSE, FALSE)}
Sending    == {With("restart_empty", {"send"}, FALSE, FALSE)}
Threads    == {With("restart_empty", {}, FALSE, TRUE)}

\* With cancellations one cell less is run, and a worker makes one call.
Bounds ==
  env.cancels => /\ Cardinality({c \in Cell : run[c] # "idle"}) < Cardinality(Cell)
                 /\ calls < MaxCalls
=============================================================================
