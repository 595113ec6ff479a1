----------------------------- MODULE MCCodeAct ------------------------------
(* CodeAct for TLC: the configurations of the sessions.                    *)
EXTENDS CodeAct

Base == [maxIter |-> 2, maxRetries |-> 2, maxText |-> 2, mode |-> "return_result",
         none |-> FALSE, sandbox |-> FALSE, prefill |-> 0, faults |-> {}]

Commenting == [Base EXCEPT !.mode = "synthetic_comment"]
Faulty     == [Base EXCEPT !.sandbox = TRUE, !.prefill = 1, !.faults = {"raise", "cancel"}]

All == {Base, [Base EXCEPT !.none = TRUE], [Commenting EXCEPT !.maxIter = 3], Faulty}

Plain    == {Base}
Comments == {Commenting}
Raising  == {[Base EXCEPT !.faults = {"raise"}]}
Cancels  == {[Base EXCEPT !.faults = {"cancel"}, !.sandbox = TRUE]}
Long     == {[Base EXCEPT !.maxIter = 4]}
(* Two sessions on one log are followed for MaxLog events, one alone to    *)
(* its end.                                                                *)
MaxLog == 8
Bounds == st[2].pc = "idle" \/ Len(log) <= MaxLog

=============================================================================
