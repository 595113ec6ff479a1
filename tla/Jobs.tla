-------------------------------- MODULE Jobs --------------------------------
(***************************************************************************)
(* Background jobs of a QueueManager (runtime/channels.py): spawn, the     *)
(* task that runs the job, JobHandle.cancel, QueueManager.cancel,          *)
(* remove_channel and shutdown, called by several tasks of the loop.       *)
(*                                                                         *)
(* A job is any coroutine or async generator: after each await it may      *)
(* await again, yield a value, return, or raise; when it is cancelled it   *)
(* may do one more round of cleanup, with all of these outcomes.           *)
(*                                                                         *)
(* Names that every module has are prefixed (JobsInit, JobsNext), so that  *)
(* RuntimeProofs can extend this module beside ActorRuntime.               *)
(***************************************************************************)
EXTENDS Naturals, Sequences

CONSTANTS
  MaxJob,     \* bound: jobs spawned
  Channel,    \* the channels the jobs feed
  Caller,     \* tasks that cancel jobs
  MaxYield    \* bound: items buffered on a channel when a generator yields

Job == 1..MaxJob

ASSUME ConstantsAssumption == MaxJob \in Nat /\ MaxYield \in Nat /\ Channel # {}

VARIABLES
  registered, \* QueueManager._channels
  handles,    \* QueueManager._handles, in the order of the spawns: of the numbers
  chan,       \* the channel a job was spawned for
  state,      \* JobHandle.state
  place,      \* where the job's task is
  cancel,     \* task.cancel() called and not yet delivered
  unwinding,  \* the job has got a CancelledError and is cleaning up
  items,      \* the items buffered on a channel, named by their jobs
  streamEnd,  \* StreamEnd events of a job in the event log
  call,       \* what each caller is doing: operation, handles left to cancel
  stopped,    \* history: jobs whose JobHandle.cancel() has returned
  promised    \* history: jobs outstanding when an operation that has returned began

taskVars == <<chan, state, place, cancel, unwinding, streamEnd>>
queueVars == <<registered, handles, taskVars, items, call, stopped, promised>>

Idle == [op |-> "idle", left |-> {}, chan |-> CHOOSE c \in Channel : TRUE, due |-> {}]

Earliest(js) == CHOOSE j \in js : \A i \in js : j <= i
Latest(js)   == CHOOSE j \in js : \A i \in js : i <= j
Elements(s) == {s[i] : i \in DOMAIN s}
Outstanding == {j \in Job : place[j] \in {"ready", "run"}}

JobsInit ==
  /\ registered = Channel
  /\ handles   = {}
  /\ chan      = [j \in Job |-> CHOOSE c \in Channel : TRUE]
  /\ state     = [j \in Job |-> "none"]
  /\ place     = [j \in Job |-> "none"]
  /\ cancel    = [j \in Job |-> FALSE]
  /\ unwinding = [j \in Job |-> FALSE]
  /\ items     = [c \in Channel |-> <<>>]
  /\ streamEnd = [j \in Job |-> 0]
  /\ call      = [u \in Caller |-> Idle]
  /\ stopped   = {}
  /\ promised  = [cancel |-> {}, shutdown |-> {}]

-----------------------------------------------------------------------------
(* spawn(): the task is scheduled, the handle registered.                  *)
SpawnJob(j, c) ==
  /\ c \in registered
  /\ place[j] = "none" /\ \A i \in 1..(j - 1) : place[i] # "none"
  /\ place'   = [place EXCEPT ![j] = "ready"]
  /\ state'   = [state EXCEPT ![j] = "running"]
  /\ chan'    = [chan EXCEPT ![j] = c]
  /\ cancel'  = [cancel EXCEPT ![j] = FALSE]
  /\ handles' = handles \cup {j}
  /\ UNCHANGED <<registered, unwinding, items, streamEnd, call, stopped, promised>>

(* The task of a job runs until its next await; a cancellation reaches it  *)
(* there, unless the task has never run.                                   *)
Runs(j) == j \in Outstanding /\ ~(place[j] = "ready" /\ cancel[j])

GoOn(j) ==
  /\ Runs(j) /\ ~unwinding[j]
  /\ place'     = [place EXCEPT ![j] = "run"]
  /\ unwinding' = [unwinding EXCEPT ![j] = cancel[j]]
  /\ cancel'    = [cancel EXCEPT ![j] = FALSE]
  /\ UNCHANGED <<registered, handles, chan, state, streamEnd, call, stopped, promised>>

Await(j) == GoOn(j) /\ UNCHANGED items

Yield(j) == /\ GoOn(j)
            /\ Len(items[chan[j]]) < MaxYield
            /\ items' = [items EXCEPT ![chan[j]] = Append(@, j)]

(* The job is over: the state it ends in, what it puts last, and, in the   *)
(* finally block, StreamEnd.                                               *)
EmitStreamEnd(j) == streamEnd' = [streamEnd EXCEPT ![j] = @ + 1]

Finish(j, s, last) ==
  /\ Runs(j)
  /\ place'  = [place EXCEPT ![j] = "ended"]
  /\ cancel' = [cancel EXCEPT ![j] = FALSE]
  /\ state'  = [state EXCEPT ![j] = s]
  /\ items'  = [items EXCEPT ![chan[j]] = @ \o last]
  /\ EmitStreamEnd(j)
  /\ UNCHANGED <<registered, handles, chan, unwinding, call, stopped, promised>>

(* A coroutine puts its result, an exhausted generator nothing.            *)
Return(j)  == \E last \in {<<>>, <<j>>} : Finish(j, "done", last)
(* A JobError goes to the event log and to the data channel.               *)
Fail(j)    == Finish(j, "failed", <<j>>)
(* CancelledError: the job's own, or of something it awaited.              *)
Unwound(j) == Finish(j, "cancelled", <<>>)

(* Cancelled before its first step: _run never runs, not even its finally. *)
NeverRan(j) ==
  /\ place[j] = "ready" /\ cancel[j]
  /\ place'  = [place EXCEPT ![j] = "ended"]
  /\ cancel' = [cancel EXCEPT ![j] = FALSE]
  /\ UNCHANGED <<registered, handles, chan, state, unwinding, items, streamEnd, call, stopped, promised>>

-----------------------------------------------------------------------------
(* JobHandle.cancel for each handle of a list, one after the other: one    *)
(* whose task is done is passed over, the first other one is cancelled and *)
(* awaited.  After the last, the operation returns; cancel(channel)        *)
(* flushes the channel first.                                              *)
Unended(js) == {j \in js : \E i \in js : i <= j /\ place[i] # "ended"}

FlushIf(op, c) == items' = IF op = "cancel" /\ c \in registered
                           THEN [items EXCEPT ![c] = <<>>] ELSE items
Returned(u, op, due) ==
  /\ call'     = [call EXCEPT ![u] = Idle]
  /\ promised' = [o \in DOMAIN promised |-> IF o = op THEN promised[o] \cup due ELSE promised[o]]
Waits(u, op, js, c, due) ==
  /\ call' = [call EXCEPT ![u] = [op |-> op, left |-> Unended(js), chan |-> c, due |-> due]]
  /\ UNCHANGED promised

Unawaited(u, op, js, c, due) ==     \* slip: task.cancel() and nothing more
  /\ stopped' = stopped \cup js
  /\ cancel'  = [j \in Job |-> cancel[j] \/ (j \in js /\ place[j] # "ended")]
  /\ FlushIf(op, c) /\ Returned(u, op, due)
FlushFirst(u, op, js, c, due) ==    \* slip: the channel is flushed before the job is over
  /\ stopped' = stopped \cup (js \ Unended(js))
  /\ IF Unended(js) = {}
     THEN Returned(u, op, due) /\ UNCHANGED <<cancel, items>>
     ELSE /\ cancel' = [cancel EXCEPT ![Earliest(Unended(js))] = TRUE]
          /\ Waits(u, op, js, c, due) /\ FlushIf(op, c)
AwaitOnly(u, op, js, c, due) ==     \* slip: awaits the task without cancelling it
  /\ stopped' = stopped \cup (js \ Unended(js))
  /\ IF Unended(js) = {}
     THEN Returned(u, op, due) /\ FlushIf(op, c)
     ELSE Waits(u, op, js, c, due) /\ UNCHANGED items
  /\ UNCHANGED cancel
CancelHandles(u, op, js, c, due) ==
  /\ stopped' = stopped \cup (js \ Unended(js))
  /\ IF Unended(js) = {}
     THEN Returned(u, op, due) /\ FlushIf(op, c) /\ UNCHANGED cancel
     ELSE /\ cancel' = [cancel EXCEPT ![Earliest(Unended(js))] = TRUE]
          /\ Waits(u, op, js, c, due) /\ UNCHANGED items

(* handle.cancel() by whoever spawned the job.                             *)
HandleCancel(u, j) ==
  /\ call[u] = Idle /\ place[j] # "none"
  /\ CancelHandles(u, "handle", {j}, chan[j], {})
  /\ UNCHANGED <<registered, handles, chan, state, place, unwinding, streamEnd>>

(* cancel(channel): the most recent handle of the channel.                 *)
MostRecent(c) == Latest({j \in handles : chan[j] = c})
CancelChannel(u, c) ==
  /\ call[u] = Idle /\ \E j \in handles : chan[j] = c
  /\ CancelHandles(u, "cancel", {MostRecent(c)}, c, {j \in Outstanding : chan[j] = c})
  /\ UNCHANGED <<registered, handles, chan, state, place, unwinding, streamEnd>>

(* shutdown(): the list is emptied before the first await.                 *)
Shutdown(u) ==
  /\ call[u] = Idle
  /\ handles' = {}
  /\ CancelHandles(u, "shutdown", handles, Idle.chan, Outstanding)
  /\ UNCHANGED <<registered, chan, state, place, unwinding, streamEnd>>

(* The awaited task is over; its exception, if any, is swallowed.          *)
StateUnsettled(j) == UNCHANGED state     \* slip: a task that never ran stays "running"
StateSettled(j)   == state' = [state EXCEPT ![j] = IF @ = "running" THEN "cancelled" ELSE @]

Resume(u) ==
  /\ call[u] # Idle
  /\ LET k == call[u]
         j == Earliest(k.left)
     IN /\ place[j] = "ended"
        /\ StateSettled(j)
        /\ CancelHandles(u, k.op, k.left, k.chan, k.due)
  /\ UNCHANGED <<registered, handles, chan, place, unwinding, streamEnd>>

(* The caller's own task is cancelled: asyncio passes it on to the task it *)
(* awaits, and cancel() swallows what comes back.                          *)
CallerCancelled(u) ==
  /\ call[u] # Idle
  /\ LET j == Earliest(call[u].left)
     IN place[j] # "ended" /\ cancel' = [cancel EXCEPT ![j] = TRUE]
  /\ UNCHANGED <<registered, handles, chan, state, place, unwinding, items, streamEnd, call, stopped, promised>>

KeepHandles(c) == handles' = handles      \* slip: the handles stay registered
ForgetHandles(c) == handles' = {j \in handles : chan[j] # c}

(* remove_channel(): flush, request the cancellation of the channel's jobs *)
(* and forget their handles.                                               *)
RemoveChannel(c) ==
  /\ c \in registered
  /\ registered' = registered \ {c}
  /\ items' = [items EXCEPT ![c] = <<>>]
  /\ LET its == {j \in handles : chan[j] = c}
     IN /\ cancel'  = [j \in Job |-> cancel[j] \/ (j \in its /\ place[j] # "ended")]
        /\ state'   = [j \in Job |-> IF j \in its /\ state[j] = "running"
                                     THEN "cancelled" ELSE state[j]]
  /\ ForgetHandles(c)
  /\ UNCHANGED <<chan, place, unwinding, streamEnd, call, stopped, promised>>

(* A consumer of the channel (module Channels).                            *)
Consume(c) ==
  /\ items[c] # <<>>
  /\ items' = [items EXCEPT ![c] = Tail(@)]
  /\ UNCHANGED <<registered, handles, taskVars, call, stopped, promised>>

-----------------------------------------------------------------------------
JobStep(j) == Await(j) \/ Yield(j) \/ Return(j) \/ Fail(j) \/ Unwound(j) \/ NeverRan(j)

JobsNext ==
  \/ \E j \in Job : JobStep(j) \/ \E c \in Channel : SpawnJob(j, c)
  \/ \E u \in Caller : \/ Shutdown(u) \/ Resume(u) \/ CallerCancelled(u)
                       \/ \E j \in Job : HandleCancel(u, j)
                       \/ \E c \in Channel : CancelChannel(u, c)
  \/ \E c \in Channel : RemoveChannel(c) \/ Consume(c)

JobsSpec == JobsInit /\ [][JobsNext]_queueVars

(* The loop runs every job's task and resumes every caller.                *)
FairJobs == /\ JobsSpec
            /\ \A j \in Job : WF_queueVars(JobStep(j))
            /\ \A u \in Caller : WF_queueVars(Resume(u))

-----------------------------------------------------------------------------
(* Types; StreamEnd is emitted at most once.                               *)
JobsTypeOK ==
  /\ registered \subseteq Channel
  /\ handles \subseteq Job
  /\ chan \in [Job -> Channel]
  /\ state \in [Job -> {"none", "running", "done", "failed", "cancelled"}]
  /\ place \in [Job -> {"none", "ready", "run", "ended"}]
  /\ cancel \in [Job -> BOOLEAN]
  /\ unwinding \in [Job -> BOOLEAN]
  /\ items \in [Channel -> Seq(Job)]
  /\ streamEnd \in [Job -> 0..1]
  /\ call \in [Caller -> [op : {"idle", "handle", "cancel", "shutdown"}, left : SUBSET Job,
                          chan : Channel, due : SUBSET Job]]
  /\ stopped \subseteq Job
  /\ promised \in [cancel : SUBSET Job, shutdown : SUBSET Job]

(* A job whose task is over is not shown as running (running_handles,      *)
(* status), except to a caller of cancel() that is about to mark it, even  *)
(* when the task was cancelled before it ever ran.                         *)
StateSettles ==
  \A j \in Job : place[j] = "ended" /\ state[j] = "running" =>
    \E u \in Caller : call[u] # Idle /\ Earliest(call[u].left) = j

(* status() hides no job that still runs: while a handle is registered,    *)
(* "running" means just that.                                              *)
StatusHonest ==
  \A j \in handles : place[j] # "ended" => state[j] = "running"

(* "cancel() awaits cleanup so generator finally blocks run before the     *)
(* call returns", also when the caller is cancelled in the meantime.       *)
CancelAwaits == \A j \in stopped : place[j] = "ended"

(* What the handles say, and what cancel() returned for, is true of the    *)
(* tasks behind them.                                                      *)
HandlesTell == StateSettles /\ StatusHonest /\ CancelAwaits

(* cancel(channel) leaves nothing of the job it cancelled in the channel,  *)
(* whatever the job puts while it unwinds.                                 *)
CancelFlushes ==
  [][\A u \in Caller :
       call[u].op = "cancel" /\ call'[u] = Idle /\ call[u].chan \in registered
         => Earliest(call[u].left) \notin Elements(items'[call[u].chan])]_queueVars

(* cancel() and shutdown() return, when the jobs' cleanup does.            *)
CancelsReturn == \A u \in Caller : call[u] # Idle ~> call[u] = Idle

(* "emit StreamEnd on close": of every job that is over.                   *)
StreamEndAlways == \A j \in Job : place[j] = "ended" => streamEnd[j] = 1

(* "Cancel and await all outstanding spawned jobs": when shutdown()        *)
(* returns, every job that was outstanding when it was called is over.     *)
ShutdownAwaitsAll == \A j \in promised.shutdown : place[j] = "ended"

(* "Cancel the job on the named channel": when cancel(channel) returns, no *)
(* job that was feeding the channel still runs.                            *)
CancelStops == \A j \in promised.cancel : place[j] = "ended"

=============================================================================
