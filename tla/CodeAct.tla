------------------------------- MODULE CodeAct -------------------------------
(***************************************************************************)
(* The CodeAct generation loop (strategies/codeact.py): sessions that ask  *)
(* the LLM for tool calls, run its code cells, validate its answer and     *)
(* record all of it in the event log of their agent.  A cell may call      *)
(* another generated method, which opens a nested session on the same log  *)
(* and may outlive the cell.                                               *)
(*                                                                         *)
(* What the LLM sends, how a cell ends and whether a value fits the return *)
(* type are choices.  Sessions are coroutines of one loop: in the stages   *)
(* of Going a session goes on without an await, and no other one moves.    *)
(***************************************************************************)
EXTENDS Naturals, Sequences, FiniteSets

CONSTANTS
  NumSession,   \* generation sessions, numbered in the order they begin
  Configs,   \* the CodeActConfig values considered
  MaxCalls   \* bound: tool calls in one response

(* max_iterations (0 for None), max_retries, max_consecutive_text_only,    *)
(* text_only_stop_behavior, a method annotated -> None, the sandbox, the   *)
(* prefill steps, and what may go wrong: "raise" for exceptions that are   *)
(* no validation errors, "cancel" for a cancelled task.                    *)
Config == [maxIter : Nat, maxRetries : Nat, maxText : Nat,
           mode : {"return_result", "synthetic_comment"}, none : BOOLEAN,
           sandbox : BOOLEAN, prefill : Nat, faults : SUBSET {"raise", "cancel"}]

ASSUME ConstantsAssumption ==
  /\ NumSession \in Nat
  /\ Configs \subseteq Config
  /\ MaxCalls \in Nat

Session == 1..NumSession
Nobody  == 0

VARIABLES
  conf,    \* the configuration of this behaviour
  st,      \* Session -> its CodeActSession and where it is
  log      \* the recorded events, oldest first

vars == <<conf, st, log>>

Fresh == [pc |-> "idle", parent |-> Nobody, iter |-> 0, errs |-> 0, text |-> 0,
          turn |-> 0, after |-> 0, todo |-> 0, at |-> 0, seen |-> 0,
          box |-> "none", outcome |-> "none"]

Init ==
  /\ conf \in Configs
  /\ st = [s \in Session |-> Fresh]
  /\ log = <<>>

-----------------------------------------------------------------------------
(* Events.  A result is that of a ToolCallEvent, with the position of the  *)
(* call for a PythonOutput; the LLMOutput of a response is removed in the  *)
(* step that adds what replaces it, and never seen.                        *)

Event(s, kind, name, result) ==
  [by |-> s, kind |-> kind, name |-> name, result |-> result, ref |-> 0,
   turn |-> st[s].turn, count |-> st[s].iter, recovered |-> FALSE]
Note(s)           == Event(s, "note", "-", "-")        \* Task, Error, correction
Call(s, name, rs) == Event(s, "call", name, rs)      \* ToolCallEvent
Text(s)           == Event(s, "text", "-", "-")        \* TextOnlyReply
Output(s, k, rs)  == [Event(s, "output", "python", rs) EXCEPT !.ref = k]

Settle(l, k, rs) == [l EXCEPT ![k].result = rs]

(* The call at which the session waits gets its status and its output.     *)
Unshown(s, rs) == Settle(log, st[s].at, rs)      \* slip: no PythonOutput
Cell(s, rs)    == Append(Settle(log, st[s].at, rs), Output(s, st[s].at, rs))

Shown(l) == Cardinality({i \in DOMAIN l : l[i].kind # "text"})

(* _mark_text_only_recovered: back from the end of the log to the first    *)
(* reply already marked.                                                   *)
TextsOf(l)   == {i \in DOMAIN l : l[i].kind = "text"}
Recovered(l) ==
  [i \in DOMAIN l |->
     IF i \in TextsOf(l) /\ \A j \in TextsOf(l) : j >= i => ~l[j].recovered
     THEN [l[i] EXCEPT !.recovered = TRUE] ELSE l[i]]

-----------------------------------------------------------------------------
(* The session.                                                            *)

Going     == {"loop", "calls"}
Moves(s)  == \A t \in Session \ {s} : st[t].pc \notin Going
At(s, pc) == st[s].pc = pc /\ Moves(s)

Become(s, r) == st' = [st EXCEPT ![s] = r] /\ UNCHANGED conf

(* is_exhausted.                                                           *)
Exhausted(r) == \/ conf.maxIter # 0 /\ r.iter >= conf.maxIter
                \/ r.errs >= conf.maxRetries

Erred(r)      == [r EXCEPT !.errs = @ + 1]
Iterated(r)   == [r EXCEPT !.iter = @ + 1]
TurnOver(r)   == [r EXCEPT !.pc = "loop", !.todo = 0, !.after = @ + 1]

(* The session leaves its loop inside a turn; execute()'s finally closes   *)
(* the sandbox.                                                            *)
OnReturn(r, outcome) == IF r.box = "open" /\ outcome = "value" THEN "closing" ELSE "done"  \* slip
Teardown(r, outcome) == IF r.box = "open" THEN "closing" ELSE "done"
Ended(r, outcome)    == [r EXCEPT !.pc = Teardown(r, outcome), !.todo = 0, !.outcome = outcome]
Finished(r, outcome) == [Ended(r, outcome) EXCEPT !.after = @ + 1]

(* A session begins: at the top, when no other one is open there, or in a  *)
(* cell of another one.                                                    *)
Begin(s, p) ==
  /\ At(s, "idle") /\ \A t \in 1..(s - 1) : st[t].pc # "idle"
  /\ IF p = Nobody THEN \A t \in Session : st[t].pc \in {"idle", "done"}
     ELSE st[p].pc \in {"prefill", "exec"}
  /\ log' = Append(log, Note(s))
  /\ LET r == [Fresh EXCEPT !.pc = "loop", !.parent = p, !.todo = conf.prefill,
                            !.box = IF conf.sandbox THEN "open" ELSE "none"]
     IN \/ Become(s, r)
        \/ "raise" \in conf.faults /\ Become(s, Ended(r, "raised"))   \* a precondition

(* _run_prefill: each step is a synthetic call.                            *)
Prefill(s) ==
  /\ At(s, "loop") /\ st[s].turn = 0 /\ st[s].todo > 0
  /\ log' = Append(log, Call(s, "python", "executing"))
  /\ Become(s, [st[s] EXCEPT !.pc = "prefill", !.todo = @ - 1, !.at = Len(log) + 1])

PrefillEnds(s) ==
  /\ At(s, "prefill")
  /\ \E rs \in {"complete", "error"} :
       log' = Cell(s, rs)
  /\ Become(s, [st[s] EXCEPT !.pc = "loop"])

(* "Prefill error (continuing)".                                           *)
PrefillRaises(s) ==
  /\ At(s, "prefill") /\ "raise" \in conf.faults
  /\ log' = Append(log, Note(s))
  /\ Become(s, [st[s] EXCEPT !.pc = "loop", !.todo = 0])

(* BeforeTurn, and a prompt built from the log.                            *)
Turn(s) ==
  /\ At(s, "loop") /\ st[s].todo = 0
  /\ ~Exhausted(st[s])
  /\ Become(s, [st[s] EXCEPT !.pc = "generate", !.turn = @ + 1, !.seen = Shown(log)])
  /\ UNCHANGED log

(* "Loop exhausted without success": one more AfterTurn.                   *)
LoopExhausted(s) ==
  /\ At(s, "loop") /\ st[s].todo = 0
  /\ Exhausted(st[s])
  /\ Become(s, Finished(st[s], "failed"))
  /\ UNCHANGED log

-----------------------------------------------------------------------------
(* What generate() brings.                                                 *)

ToolCalls(s) ==
  /\ At(s, "generate")
  /\ \E n \in 1..MaxCalls :
       Become(s, [Iterated(st[s]) EXCEPT !.pc = "calls", !.todo = n, !.text = 0])
  /\ log' = IF st[s].text > 0 THEN Recovered(log) ELSE log

(* After text_only has been counted: the backstop.                         *)
NoBackstop(r)  == TurnOver([r EXCEPT !.text = @ + 1])        \* slip
TextCounted(r) ==
  LET n == r.text + 1
  IN IF conf.maxText > 0 /\ n >= conf.maxText
     THEN Finished([r EXCEPT !.text = n], "failed")
     ELSE TurnOver([r EXCEPT !.text = n])

(* Route A: a stop without a tool call is taken as return_result.  One     *)
(* iteration is recorded here and one in _process_tool_calls.              *)
TextTwice(s) == Iterated(Iterated(st[s]))

TextAccepted(s) ==
  /\ At(s, "generate") /\ conf.mode = "return_result"
  /\ log' = log \o <<[Text(s) EXCEPT !.recovered = TRUE], Call(s, "answer", "complete")>>
  /\ Become(s, Finished(TextTwice(s), "value"))

TextRejected(s) ==
  /\ At(s, "generate") /\ conf.mode = "return_result"
  /\ LET r == IF conf.none THEN TextTwice(s) ELSE Erred(TextTwice(s))
     IN IF ~conf.none /\ Exhausted(r)
        THEN /\ log' = log \o <<Text(s), Call(s, "answer", "error")>>
             /\ Become(s, Finished(r, "failed"))
        ELSE /\ log' = log \o <<Text(s), Call(s, "answer", "error"), Note(s)>>
             /\ Become(s, TextCounted(r))

TextRaises(s) ==
  /\ At(s, "generate") /\ conf.mode = "return_result" /\ "raise" \in conf.faults
  /\ log' = log \o <<Text(s), Call(s, "answer", "none")>>
  /\ Become(s, Finished(TextTwice(s), "raised"))

(* Route B: the text becomes a comment.                                    *)
TextCommented(s) ==
  /\ At(s, "generate")
  /\ log' = log \o <<Text(s), Call(s, "python", "complete"), Output(s, Len(log) + 2, "complete")>>
  /\ Become(s, TextCounted(Iterated(st[s])))

EmptySilently(s) ==      \* slip: the model is not told
  /\ At(s, "generate")
  /\ Become(s, TurnOver(Erred(st[s]))) /\ UNCHANGED log
EmptyReply(s) ==
  /\ At(s, "generate")
  /\ \/ log' = Append(log, Note(s)) /\ Become(s, TurnOver(Erred(st[s])))
     \/ UNCHANGED log /\ Become(s, Finished(Erred(st[s]), "failed"))     \* out of tokens

ApiError(s) ==
  /\ At(s, "generate")
  /\ log' = Append(log, Note(s))
  /\ LET r == Erred(st[s])
     IN Become(s, IF Exhausted(r) THEN Finished(r, "failed") ELSE TurnOver(r))

(* A context block of the LLM's does not parse: an iteration, no error.    *)
BlockErrorFree(s) ==     \* slip: neither
  /\ At(s, "generate")
  /\ log' = Append(log, Note(s))
  /\ Become(s, TurnOver(st[s]))
BlockError(s) ==
  /\ At(s, "generate")
  /\ log' = Append(log, Note(s))
  /\ Become(s, TurnOver(Iterated(st[s])))

-----------------------------------------------------------------------------
(* _process_tool_calls: in order, up to the first error.                   *)

NextCall(s) == At(s, "calls") /\ st[s].todo > 0

CallsDone(s) ==
  /\ At(s, "calls") /\ st[s].todo = 0
  /\ Become(s, TurnOver(st[s]))
  /\ UNCHANGED log

BadArguments(s) ==
  /\ NextCall(s)
  /\ log' = Append(log, Note(s))
  /\ Become(s, TurnOver(Erred(st[s])))

UnknownGoesOn(s) ==      \* slip: the remaining calls are processed
  /\ NextCall(s)
  /\ log' = Append(log, Call(s, "other", "error"))
  /\ Become(s, [Erred(st[s]) EXCEPT !.todo = @ - 1])
UnknownTool(s) ==
  /\ NextCall(s)
  /\ log' = Append(log, Call(s, "other", "error"))
  /\ Become(s, TurnOver(Erred(st[s])))

EmptyCode(s) ==
  /\ NextCall(s)
  /\ log' = log \o <<Call(s, "python", "error"), Output(s, Len(log) + 1, "error")>>
  /\ Become(s, TurnOver(Erred(st[s])))

(* execute_python, or another tool translated into it: the status is       *)
(* written before the cell runs.                                           *)
ExecuteLate(s) ==        \* slip: the result is written when the cell has run
  /\ NextCall(s)
  /\ log' = Append(log, Call(s, "python", "none"))
  /\ Become(s, [st[s] EXCEPT !.pc = "exec", !.todo = @ - 1, !.at = Len(log) + 1])
Execute(s) ==
  /\ NextCall(s)
  /\ log' = Append(log, Call(s, "python", "executing"))
  /\ Become(s, [st[s] EXCEPT !.pc = "exec", !.todo = @ - 1, !.at = Len(log) + 1])

ResultAccepted(s) ==
  /\ NextCall(s)
  /\ log' = Append(log, Call(s, "answer", "complete"))
  /\ Become(s, Finished(st[s], "value"))

(* For a method annotated -> None a wrong result counts as no error.       *)
ResultRejected(s) ==
  /\ NextCall(s)
  /\ log' = Append(log, Call(s, "answer", "error"))
  /\ LET r == IF conf.none THEN st[s] ELSE Erred(st[s])
     IN Become(s, IF ~conf.none /\ Exhausted(r) THEN Finished(r, "failed") ELSE TurnOver(r))

(* A postcondition raises something else than a validation error.          *)
ResultRaises(s) ==
  /\ NextCall(s) /\ "raise" \in conf.faults
  /\ log' = Append(log, Call(s, "answer", "none"))
  /\ Become(s, Finished(st[s], "raised"))

-----------------------------------------------------------------------------
(* The cell is over.                                                       *)

CellWorks(s) ==
  /\ At(s, "exec")
  /\ log' = Cell(s, "complete")
  /\ Become(s, [st[s] EXCEPT !.pc = "calls"])

CellFails(s) ==
  /\ At(s, "exec")
  /\ log' = Cell(s, "error")
  /\ Become(s, TurnOver(st[s]))

(* return_result() in the cell, or a return statement with a fitting value.*)
Unseen(s) == <<>>                                \* slip: no trace of the answer
InlineReturn(s) == <<Call(s, "answer", "complete")>>
CellReturns(s) ==
  /\ At(s, "exec")
  /\ log' = Cell(s, "complete") \o InlineReturn(s)
  /\ Become(s, Finished(st[s], "value"))

CellReturnsBadly(s) ==
  /\ At(s, "exec")
  /\ LET r == IF conf.none THEN st[s] ELSE Erred(st[s])
     IN IF ~conf.none /\ Exhausted(r)
        THEN log' = Settle(log, st[s].at, "error") /\ Become(s, Finished(r, "failed"))
        ELSE log' = Cell(s, "error") /\ Become(s, TurnOver(r))

(* execute_code itself raises, or a postcondition does.                    *)
CellRaises(s) ==
  /\ At(s, "exec") /\ "raise" \in conf.faults
  /\ log' \in {log, Settle(log, st[s].at, "complete")}
  /\ Become(s, Finished(st[s], "raised"))

-----------------------------------------------------------------------------
(* aclose() returns.                                                       *)
Close(s) ==
  /\ At(s, "closing")
  /\ Become(s, [st[s] EXCEPT !.pc = "done", !.box = "closed"])
  /\ UNCHANGED log

(* CancelledError, at an await; a turn that is open still gets AfterTurn.  *)
Cancel(s) ==
  /\ Moves(s) /\ "cancel" \in conf.faults
  /\ \/ st[s].pc = "prefill" /\ Become(s, Ended(st[s], "cancelled"))
     \/ st[s].pc \in {"generate", "exec"} /\ Become(s, Finished(st[s], "cancelled"))
  /\ UNCHANGED log

(* A second cancellation, while the sandbox is torn down.                  *)
CancelClose(s) ==
  /\ At(s, "closing") /\ "cancel" \in conf.faults
  /\ Become(s, [st[s] EXCEPT !.pc = "done", !.outcome = "cancelled"])
  /\ UNCHANGED log

Response(s) == \/ ToolCalls(s) \/ TextAccepted(s) \/ TextRejected(s) \/ TextRaises(s) \/ TextCommented(s)
               \/ EmptyReply(s) \/ ApiError(s) \/ BlockError(s)
CallStep(s) == \/ CallsDone(s) \/ BadArguments(s) \/ UnknownTool(s) \/ EmptyCode(s)
               \/ Execute(s) \/ ResultAccepted(s) \/ ResultRejected(s) \/ ResultRaises(s)
CellStep(s) == CellWorks(s) \/ CellFails(s) \/ CellReturns(s) \/ CellReturnsBadly(s) \/ CellRaises(s)
Step(s)     == \/ Prefill(s) \/ PrefillEnds(s) \/ PrefillRaises(s) \/ Turn(s) \/ LoopExhausted(s)
               \/ Response(s) \/ CallStep(s) \/ CellStep(s) \/ Close(s)

Next == \E s \in Session : \/ \E p \in Session \cup {Nobody} : Begin(s, p)
                           \/ Step(s) \/ Cancel(s) \/ CancelClose(s)

Spec == Init /\ [][Next]_vars

-----------------------------------------------------------------------------
(* Properties.                                                             *)

Own(s)    == {i \in DOMAIN log : log[i].by = s}
Calls     == {i \in DOMAIN log : log[i].kind = "call"}
Prompting(s) == st[s].pc = "generate"

(* Types of the sessions; a session that waits for a cell waits at the     *)
(* call it recorded for it.                                                *)
TypeOK ==
  /\ conf \in Configs
  /\ \A s \in Session :
       /\ st[s].pc \in {"idle", "loop", "prefill", "generate", "calls", "exec", "closing", "done"}
       /\ st[s].outcome \in {"none", "value", "failed", "raised", "cancelled"}
       /\ st[s].box \in {"none", "open", "closed"}
       /\ st[s].pc \in {"prefill", "exec"} =>
            st[s].at \in Calls \cap Own(s) /\ log[st[s].at].result = "executing"

(* "ensures tool result is nested in ToolCallEvent even when nested agent  *)
(* calls occur during execution": no prompt, of whichever session, is      *)
(* built from a tool call without a result.                                *)
PromptAnswered ==
  "raise" \notin conf.faults =>
    \A s \in Session : Prompting(s) => \A i \in Calls : log[i].result # "none"

(* Every cell of a session has its final status and one PythonOutput when  *)
(* the session asks the LLM again, whatever nested sessions recorded in    *)
(* between and however the cell ended.                                     *)
OutputsFollow ==
  \A s \in Session : Prompting(s) =>
    \A i \in Calls \cap Own(s) : log[i].name = "python" /\ log[i].turn > 0 =>
      /\ log[i].result \in {"complete", "error"}
      /\ Cardinality({j \in Own(s) : log[j].kind = "output" /\ log[j].ref = i}) = 1

(* "Executes tool calls sequentially, stopping at the first error."        *)
FirstErrorStops ==
  \A i, j \in Calls : /\ i < j /\ log[i].by = log[j].by
                      /\ log[i].turn = log[j].turn /\ log[i].turn > 0
                      => log[i].result = "complete"

(* What the LLM is shown of a session is in order: tool calls are answered, *)
(* cells have their output, and nothing ran after an error.                *)
LogInOrder == PromptAnswered /\ OutputsFollow /\ FirstErrorStops

(* The counters of is_exhausted stay within the configured limits in every *)
(* path that raises them: errors never pass max_retries, iterations pass   *)
(* max_iterations by one at most (a text reply counts twice).              *)
Budgets ==
  \A s \in Session : /\ st[s].errs <= conf.maxRetries
                     /\ conf.maxIter > 0 => st[s].iter <= conf.maxIter + 1

(* The LLM is not asked again after max_consecutive_text_only text replies *)
(* in a row, by whichever route each of them was handled.                  *)
TextBackstop ==
  \A s \in Session : Prompting(s) /\ conf.maxText > 0 => st[s].text < conf.maxText

(* A session that returned a value has recorded one accepted return_result *)
(* as its last event, also for an answer given inside a cell; one that     *)
(* failed has recorded none.                                               *)
Accepted(s) == {i \in Calls \cap Own(s) : log[i].name = "answer" /\ log[i].result = "complete"}
AnswerLogged ==
  \A s \in Session :
    /\ st[s].outcome = "value" => \E i \in Own(s) : Accepted(s) = {i} /\ \A j \in Own(s) : j <= i
    /\ st[s].outcome \in {"none", "failed", "raised"} => Accepted(s) = {}

(* "Guarantee the sandbox worker is torn down on EVERY exit": unless its   *)
(* teardown is itself cancelled.                                           *)
BoxClosed ==
  \A s \in Session : st[s].pc = "done" /\ st[s].box = "open" => st[s].outcome = "cancelled"

(* However a session ends (a value, exhaustion, an exception, cancellation) *)
(* its answer and its sandbox have come to their end with it.              *)
SessionEnds == AnswerLogged /\ BoxClosed

(* Without the exception for a cancelled teardown.                         *)
ClosedOnEveryExit == \A s \in Session : st[s].pc = "done" => st[s].box # "open"

(* "events added in prior iterations change what the LLM sees": no session *)
(* sends a prompt it has sent before.                                      *)
PromptMoves ==
  [][\A s \in Session : st'[s].turn > st[s].turn => st'[s].seen > st[s].seen]_vars

(* Every turn uses up an iteration or an error of the budget, so that with *)
(* max_iterations set no sequence of responses keeps a session asking.     *)
EveryTurnCosts ==
  \A s \in Session : /\ st[s].turn <= st[s].iter + st[s].errs + 1
                     /\ st[s].pc = "loop" => st[s].turn <= st[s].iter + st[s].errs

(* No sequence of responses keeps a session going: is_exhausted and the    *)
(* text-only backstop end it, and every turn brings it nearer to that.     *)
Bounded == Budgets /\ EveryTurnCosts /\ TextBackstop

(* AfterTurn is "Symmetric with BeforeTurn".                               *)
TurnsSymmetric == \A s \in Session : st[s].after <= st[s].turn

(* TextOnlyReply.recovered tells "benign, self-corrected replies from ones *)
(* that needed an abort".                                                  *)
AbortedStayUnrecovered ==
  \A s \in Session : conf.maxText > 0 /\ st[s].text >= conf.maxText =>
    \E i \in Own(s) : log[i].kind = "text" /\ ~log[i].recovered

(* A ToolCallEvent is "never left with result=None".                       *)
NeverLeftNone == \A i \in Calls : log[i].result # "none"

(* "Out[n] returns the actual Python object from execution n": in a cell,  *)
(* Out[n] is an output of the session that runs it, if it has one.         *)
Out(n) == {i \in DOMAIN log : log[i].kind = "output" /\ log[i].result = "complete" /\ log[i].count = n}
OutIsOwn ==
  \A s \in Session : st[s].pc = "exec" =>
    \A i \in Own(s) : i \in Out(log[i].count) /\ log[i].turn > 0 =>
      log[CHOOSE j \in Out(log[i].count) : \A k \in Out(log[i].count) : j <= k].by = s

=============================================================================
