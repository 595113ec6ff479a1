----------------------------- MODULE Summarizer -----------------------------
(***************************************************************************)
(* Summarizers (agents/summarization.py) at work on the event log of       *)
(* EventManager, beside the runtime that archives events when the provider *)
(* refuses a prompt (runtime/actor.py, _archive_on_context_error).         *)
(*                                                                         *)
(* After a turn a summarizer may render a range of the log and hand it to  *)
(* a background task; before a later turn it collapses that range with the *)
(* text the task produced.  Between the two the log goes on.  A text is    *)
(* modelled by the numbers of the events it was written from.  Turns of    *)
(* nested and concurrent calls interleave, so either handler may run at    *)
(* any point of the event loop.                                            *)
(***************************************************************************)
EXTENDS EventManager

CONSTANTS
  Summarizers,    \* the installed summarizers
  RefusedPending, \* whether a prompt may also be refused while a summary is pending
  MaxForgotten    \* bound: remove() calls

ASSUME SummarizerAssumption == RefusedPending \in BOOLEAN /\ MaxForgotten \in Nat

VARIABLES
  running,          \* background tasks not yet over
  pendingTask,      \* [Summarizers -> _pending_task]
  pendingRange,     \* [Summarizers -> _pending_range]
  pendingSummary,   \* [Summarizers -> _pending_summary]: {} is None
  writing,          \* the text of the collapse in progress
  told              \* history: Summary tag -> the events its text was written from

mine  == <<running, pendingTask, pendingRange, pendingSummary>>
svars == <<vars, mine, writing, told>>

NoRange == [s |-> 1, e |-> 0]
NoTask  == [by |-> "none", range |-> NoRange, source |-> {}]

(* The events of tags i..j of the view.                                    *)
OneTooMany(i, j) ==      \* slip: the end of the range is off by one
  UNION {Nums([active[k] EXCEPT !.hi = @ + 1]) : k \in i..j}
Rendered(i, j) == UNION {Nums(active[k]) : k \in i..j}

SInit ==
  /\ Init
  /\ running = {}
  /\ pendingTask    = [p \in Summarizers |-> NoTask]
  /\ pendingRange   = [p \in Summarizers |-> NoRange]
  /\ pendingSummary = [p \in Summarizers |-> {}]
  /\ writing = {}
  /\ told = [t \in {} |-> {}]

-----------------------------------------------------------------------------
(* _handle_after_turn with a policy that wants tags i..j: nothing while a  *)
(* task is pending, be it running or done; else render and start a task.   *)
NotRunning(p) == pendingTask[p] \notin running       \* slip: a summary that waits is lost
AnyTime(p) == TRUE                                   \* slip: no guard at all
NonePending(p) == pendingTask[p] = NoTask

AfterTurn(p, i, j) ==
  /\ op.phase = "idle" /\ NonePending(p)
  /\ LET range == [s |-> active[i].lo, e |-> active[j].hi]
         task  == [by |-> p, range |-> range, source |-> Rendered(i, j)]
     IN /\ pendingRange' = [pendingRange EXCEPT ![p] = range]
        /\ pendingTask'  = [pendingTask EXCEPT ![p] = task]
        /\ running'      = running \cup {task}
  /\ UNCHANGED <<vars, pendingSummary, writing, told>>

(* _run_summarization ends with a text, or with an exception it swallows.  *)
Summarized(task, text) ==
  /\ op.phase = "idle" /\ task \in running
  /\ running' = running \ {task}
  /\ pendingSummary' = [pendingSummary EXCEPT ![task.by] = text]
  /\ UNCHANGED <<vars, pendingTask, pendingRange, writing, told>>

Finish(task) == Summarized(task, task.source) \/ Summarized(task, {})

Unpend(p) ==
  /\ pendingTask'    = [pendingTask EXCEPT ![p] = NoTask]
  /\ pendingRange'   = [pendingRange EXCEPT ![p] = NoRange]
  /\ pendingSummary' = [pendingSummary EXCEPT ![p] = {}]

KeepFailed(p) ==         \* slip: without a text the pending task stays
  IF pendingSummary[p] = {} THEN UNCHANGED <<pendingTask, pendingRange, pendingSummary>>
  ELSE Unpend(p)
Unpended(p) == Unpend(p)

(* _handle_before_turn: collapse the pending range with its text.  collapse()*)
(* raises when no active tag is in range; without a text it is not called. *)
BeforeTurn(p) ==
  /\ op.phase = "idle"
  /\ pendingTask[p] # NoTask /\ pendingTask[p] \notin running
  /\ LET r == pendingRange[p]
     IN \/ /\ pendingSummary[p] # {}
           /\ Collapse(r.s, r.e)
           /\ writing' = pendingSummary[p]
        \/ /\ pendingSummary[p] = {} \/ \A t \in Listed : ~Overlaps(t, r.s, r.e)
           /\ UNCHANGED <<vars, writing>>
  /\ Unpended(p)
  /\ UNCHANGED <<running, told>>

(* _archive_on_context_error, _collapse_oldest: the n oldest tags of the   *)
(* view give way to a Summary whose text only says that they did.          *)
Archive(n) ==
  /\ RefusedPending \/ \A p \in Summarizers : pendingTask[p] = NoTask
  /\ n \in DOMAIN active
  /\ Collapse(active[1].lo, active[n].hi)
  /\ writing' = {}
  /\ UNCHANGED <<mine, told>>

(* The backend calls of a collapse; the Summary gets its text with store().*)
CollapseOn ==
  /\ CollapseStep
  /\ told' = IF StoreSummary /\ writing # {}
             THEN [t \in DOMAIN told \cup {op'.sum} |-> IF t = op'.sum THEN writing ELSE told[t]]
             ELSE [t \in DOMAIN told \ (IF StoreSummary THEN {op'.sum} ELSE {}) |-> told[t]]
  /\ UNCHANGED <<mine, writing>>

(* remove() on the stored tag.                                             *)
Forget(t) ==
  /\ Cardinality(removed) < MaxForgotten
  /\ Remove(t)
  /\ told' = [u \in DOMAIN told \ {t} |-> told[u]]
  /\ UNCHANGED <<mine, writing>>

Turns ==
  \/ \E p \in Summarizers, i, j \in DOMAIN active : i <= j /\ AfterTurn(p, i, j)
  \/ \E p \in Summarizers : BeforeTurn(p)

SNext ==
  \/ Add /\ UNCHANGED <<mine, writing, told>>
  \/ \E t \in Tag : Forget(t)
  \/ CollapseOn
  \/ Turns
  \/ \E task \in running : Finish(task)
  \/ \E n \in DOMAIN active : Archive(n)

(* The agent goes on taking turns, its event loop goes on, and a call of   *)
(* the summarizer's LLM returns or fails.  Strong fairness, as the steps   *)
(* of other collapses, one block in the code, disable these in between.    *)
Fairness ==
  /\ WF_svars(CollapseOn)
  /\ \A p \in Summarizers :
       SF_svars(BeforeTurn(p)) /\ SF_svars(\E task \in running : task.by = p /\ Finish(task))

SSpec == SInit /\ [][SNext]_svars /\ Fairness

-----------------------------------------------------------------------------
(* Properties.                                                             *)

(* Types of the pending state and of the texts.                            *)
STypeOK ==
  /\ running \subseteq [by : Summarizers, range : [s : Number, e : Number],
                        source : SUBSET Number]
  /\ \A p \in Summarizers : pendingTask[p] = NoTask \/ pendingTask[p].by = p
  /\ pendingSummary \in [Summarizers -> SUBSET Number]
  /\ writing \subseteq Number
  /\ told \in [DOMAIN told -> SUBSET Number] /\ DOMAIN told \subseteq Tag

(* events.py: "summary_text="..." -> LLM-generated summary of collapsed    *)
(* events".  The text of a Summary was written from every event it hides,  *)
(* although it was written before it hid them.                             *)
SummaryTellsAll ==
  \A t \in DOMAIN told : UNION {Nums(c) : c \in byTag[t].children} \subseteq told[t]

(* A done but unapplied summary is never overwritten (the dedup guard of   *)
(* _handle_after_turn): what a summarizer holds was written for the range  *)
(* it is going to collapse, and of its own kind.                           *)
PendingFits ==
  /\ STypeOK
  /\ \A p \in Summarizers :
       /\ Cardinality({task \in running : task.by = p}) <= 1
       /\ pendingSummary[p] # {} =>
            /\ pendingTask[p].source = pendingSummary[p]
            /\ pendingTask[p].range = pendingRange[p]

(* Summarization is best effort but never ends: whatever becomes of a task *)
(* or of its range, the summarizer is free again in the end.               *)
PendingClears ==
  \A p \in Summarizers : pendingTask[p] # NoTask ~> pendingTask[p] = NoTask

=============================================================================
