---------------------------- MODULE ActorRuntime ----------------------------
(***************************************************************************)
(* Calls of agent methods (src/nooa/runtime/method_wrapper.py) and the     *)
(* generation sessions they open (src/nooa/runtime/actor.py:               *)
(* _call_plan, _execute_task, _execute_with_generation, execute_nested).   *)
(*                                                                         *)
(* A call is wrapped: it pushes its id on the call stack, announces itself *)
(* and then either runs the method's own code, or, for a generated method, *)
(* opens a generation session.  Outside every session a new asyncio task   *)
(* is created which takes the agent's generation lock first; inside one    *)
(* the session is opened inline, without the lock.  Where a task stands is *)
(* told by context variables, which a new task copies from its creator:    *)
(*   session  _in_generation_session                                       *)
(*   stack    the agent call stack                                         *)
(*   gens     the generation id stack (a session is named by its call)     *)
(*   agent    _parent_agent_var                                            *)
(*                                                                         *)
(* The task's own Python frames are kept as the sequence "frames": a       *)
(* wrapper, a session, or a strategy nested in a session, each with what   *)
(* its finally clause will restore.  The body of the innermost frame is    *)
(* arbitrary: it may call the methods there are, create tasks, nest a      *)
(* strategy, return or raise.  "env" says which methods there are and what *)
(* else may happen in a behaviour: "cancel" (a task is cancelled), "straggler" (a frame may     *)
(* end while tasks it created still run) and "restart" (the event loop     *)
(* dies with all its tasks and another one is started).                    *)
(***************************************************************************)
EXTENDS Integers, FiniteSets, SequencesExt

CONSTANTS
    Agents,        \* the agents
    NumTask,       \* bound: asyncio tasks created in a behaviour
    NumCall,       \* bound: calls of agent methods in a behaviour
    NumRoot,       \* bound: tasks started by the program itself
    MaxDepth,      \* ExecutionConfig.max_nesting_depth
    Envs           \* the environments to explore: the faults there are, the methods
                   \* that are called (each <<agent, kind>>) and how many calls

MethodKinds == {"code", "generated", "template"}
Faults == {"cancel", "straggler", "restart"}

ASSUME ActorAssumption ==
    /\ {NumTask, NumCall, NumRoot, MaxDepth} \subseteq Nat
    /\ Envs \subseteq [faults: SUBSET Faults, methods: SUBSET (Agents \X MethodKinds),
                         calls: 0..NumCall]
    /\ 0 \notin Agents

VARIABLES
    env,       \* what may happen in this behaviour
    tasks,     \* task -> its state, context variables and frames
    calls,     \* call -> what was announced and how it ended
    lock,      \* agent -> _generation_lock: the holder, then the waiters
    lockLoop,  \* agent -> _generation_lock_loop, 0 for None
    loop       \* the running event loop

vars == <<env, tasks, calls, lock, lockLoop, loop>>

Nobody == 0
Task == 1..NumTask
Call == 1..NumCall

Context == [session: BOOLEAN, stack: Seq(Call), gens: Seq(Call),
            agent: Agents \cup {Nobody}]
Outside == [session |-> FALSE, stack |-> <<>>, gens |-> <<>>, agent |-> Nobody]

Outcome == {"open", "returned", "raised", "cancelled"}
Frame == [kind: {"wrapper", "session", "nested"}, call: Call, out: Outcome,
          session: BOOLEAN, agent: Agents \cup {Nobody}, locked: BOOLEAN,
          nested: BOOLEAN]   \* a strategy has been nested in it; bound: once

Fresh == [st |-> "free", ctx |-> Outside, base |-> Outside, frames |-> <<>>,
          owner |-> Nobody, level |-> 0, plan |-> Nobody, cancel |-> FALSE]
NoCall == [agent |-> Nobody, kind |-> "none", task |-> Nobody, top |-> FALSE,
           success |-> "none", out |-> "open"]

Top(t) == Last(tasks[t].frames)
Alive(t) == tasks[t].st \in {"new", "run", "wait", "lock"}

\* The body of the innermost frame of t, or the task's own code, is running.
InBody(t) ==
    /\ tasks[t].st = "run"
    /\ tasks[t].frames # <<>> => Top(t).out = "open"

FreeTask(u) == tasks[u].st = "free" /\ \A v \in 1..u - 1 : tasks[v].st # "free"
FreeCall(c) ==
    /\ c <= env.calls
    /\ calls[c].task = Nobody
    /\ \A d \in 1..c - 1 : calls[d].task # Nobody

\* Tasks the innermost frame of t created and that have not ended.
Children(t) == {u \in Task : /\ Alive(u)
                             /\ tasks[u].owner = t
                             /\ tasks[u].level = Len(tasks[t].frames)}

-----------------------------------------------------------------------------
(* Context variables and frames.                                           *)

WrapperFrame(c, ctx) ==
    [kind |-> "wrapper", call |-> c, out |-> "open", session |-> ctx.session,
     agent |-> ctx.agent, locked |-> FALSE, nested |-> FALSE]

SessionFrame(c, ctx, locked) ==
    [kind |-> "session", call |-> c, out |-> "open", session |-> ctx.session,
     agent |-> ctx.agent, locked |-> locked, nested |-> FALSE]

NestedFrame(c, ctx) == [SessionFrame(c, ctx, FALSE) EXCEPT !.kind = "nested"]

\* What a wrapper sets before it dispatches.
Entered(ctx, c, a) == [ctx EXCEPT !.stack = Append(@, c), !.agent = a]

\* Slip: the session is not marked.
Unmarked(ctx, c) == [ctx EXCEPT !.gens = Append(@, c)]

\* What _execute_with_generation sets before the strategy runs.
InSession(ctx, c) == [ctx EXCEPT !.session = TRUE, !.gens = Append(@, c)]

\* Slips in the finally clauses: a nested strategy's id stays, the agent stays,
\* the call's id stays.
NestedStays(ctx, f) ==
    CASE f.kind = "wrapper" -> [ctx EXCEPT !.agent = f.agent, !.stack = Front(@)]
      [] f.kind = "session" -> [ctx EXCEPT !.session = f.session, !.gens = Front(@)]
      [] f.kind = "nested"  -> ctx
AgentStays(ctx, f) ==
    CASE f.kind = "wrapper" -> [ctx EXCEPT !.stack = Front(@)]
      [] f.kind = "session" -> [ctx EXCEPT !.session = f.session, !.gens = Front(@)]
      [] f.kind = "nested"  -> [ctx EXCEPT !.gens = Front(@)]
IdStays(ctx, f) ==
    CASE f.kind = "wrapper" -> [ctx EXCEPT !.agent = f.agent]
      [] f.kind = "session" -> [ctx EXCEPT !.session = f.session, !.gens = Front(@)]
      [] f.kind = "nested"  -> [ctx EXCEPT !.gens = Front(@)]

\* What the finally clause of frame f restores.
Restored(ctx, f) ==
    CASE f.kind = "wrapper" -> [ctx EXCEPT !.agent = f.agent, !.stack = Front(@)]
      [] f.kind = "session" -> [ctx EXCEPT !.session = f.session, !.gens = Front(@)]
      [] f.kind = "nested"  -> [ctx EXCEPT !.gens = Front(@)]

Push(r, f, ctx) == [r EXCEPT !.frames = Append(@, f), !.ctx = ctx]
Pop(r) == [r EXCEPT !.frames = Front(@), !.ctx = Restored(@, Last(r.frames))]

\* The innermost frame's body is over with outcome o.
Settled(r, o) == [r EXCEPT !.frames[Len(r.frames)].out = o]

NewTask(t, st, ctx, plan) ==
    [Fresh EXCEPT !.st = st, !.ctx = ctx, !.base = ctx, !.owner = t,
                  !.level = IF t = Nobody THEN 0 ELSE Len(tasks[t].frames), !.plan = plan]

-----------------------------------------------------------------------------
(* Calls.                                                                  *)

Init ==
    /\ env \in Envs
    /\ tasks = [t \in Task |-> Fresh]
    /\ calls = [c \in Call |-> NoCall]
    /\ lock = [a \in Agents |-> <<>>]
    /\ lockLoop = [a \in Agents |-> 0]
    /\ loop = 1

\* The program starts a task of its own.
Arrive(u) ==
    /\ FreeTask(u)
    /\ Cardinality({v \in Task : tasks[v].st # "free" /\ tasks[v].owner = Nobody}) < NumRoot
    /\ tasks' = [tasks EXCEPT ![u] = NewTask(Nobody, "run", Outside, Nobody)]
    /\ UNCHANGED <<env, calls, lock, lockLoop, loop>>

\* The body of t calls method kind k of agent a; at the depth limit it gets an
\* error instead, and nothing changes.
Announce(t, c, a, k) ==
    /\ InBody(t)
    /\ ~tasks[t].cancel
    /\ FreeCall(c)
    /\ Len(tasks[t].ctx.stack) < MaxDepth
    /\ calls' = [calls EXCEPT ![c] = [NoCall EXCEPT !.agent = a, !.kind = k, !.task = t,
                                                    !.top = tasks[t].ctx.agent = Nobody]]
    /\ UNCHANGED <<env, lock, lockLoop, loop>>

\* A method with a body of its own: the wrapper awaits it.
CallCode(t, c, a, k) ==
    /\ k = "code"
    /\ Announce(t, c, a, k)
    /\ LET ctx == tasks[t].ctx
       IN tasks' = [tasks EXCEPT ![t] = Push(@, WrapperFrame(c, ctx), Entered(ctx, c, a))]

\* A generated method called inside a session: _execute_task runs inline.
CallInline(t, c, a, k) ==
    /\ k # "code"
    /\ tasks[t].ctx.session
    /\ Announce(t, c, a, k)
    /\ LET ctx == tasks[t].ctx
           in == Entered(ctx, c, a)
       IN tasks' = [tasks EXCEPT ![t] =
              Push(Push(@, WrapperFrame(c, ctx), in), SessionFrame(c, in, FALSE), InSession(in, c))]

\* A generated method called outside every session: _call_plan creates a task
\* with a copy of the context, and the wrapper awaits it.
CallPlan(t, u, c, a, k) ==
    /\ k # "code"
    /\ ~tasks[t].ctx.session
    /\ FreeTask(u)
    /\ Announce(t, c, a, k)
    /\ LET ctx == tasks[t].ctx
           in == Entered(ctx, c, a)
           r == Push(tasks[t], WrapperFrame(c, ctx), in)
       IN tasks' = [tasks EXCEPT
              ![t] = [r EXCEPT !.st = "wait"],
              ![u] = [NewTask(t, "new", in, c) EXCEPT !.level = Len(r.frames)]]

-----------------------------------------------------------------------------
(* The planned task.                                                       *)

Opened(u, locked) ==
    LET c == tasks[u].plan
        r == Push(tasks[u], SessionFrame(c, tasks[u].ctx, locked), InSession(tasks[u].ctx, c))
    IN [tasks EXCEPT ![u] = [r EXCEPT !.st = "run"]]

\* Slips: the lock is never recreated; the test for the loop is inverted.
OldLock(a) == lock[a]
Inverted(a) == IF lockLoop[a] = loop THEN <<>> ELSE lock[a]

\* _ensure_generation_lock_on_current_loop: the lock to use now.
CurrentLock(a) == IF lockLoop[a] \in {0, loop} THEN lock[a] ELSE <<>>

\* A strategy that needs no lock.
StartFree(u) ==
    /\ tasks[u].st = "new"
    /\ ~tasks[u].cancel
    /\ calls[tasks[u].plan].kind = "template"
    /\ tasks' = Opened(u, FALSE)
    /\ UNCHANGED <<env, calls, lock, lockLoop, loop>>

\* _execute_task outside a session: take the agent's lock, or queue for it.
StartLocked(u) ==
    /\ tasks[u].st = "new"
    /\ ~tasks[u].cancel
    /\ calls[tasks[u].plan].kind = "generated"
    /\ LET a == calls[tasks[u].plan].agent
       IN /\ lockLoop' = [lockLoop EXCEPT ![a] = loop]
          /\ lock' = [lock EXCEPT ![a] = Append(CurrentLock(a), u)]
          /\ tasks' = IF CurrentLock(a) = <<>> THEN Opened(u, TRUE)
                      ELSE [tasks EXCEPT ![u].st = "lock"]
    /\ UNCHANGED <<env, calls, loop>>

\* The lock was released to u.
Granted(u) ==
    /\ tasks[u].st = "lock"
    /\ ~tasks[u].cancel
    /\ Head(lock[calls[tasks[u].plan].agent]) = u
    /\ tasks' = Opened(u, TRUE)
    /\ UNCHANGED <<env, calls, lock, lockLoop, loop>>

\* The planned task u is over: the wrapper in its owner wakes up with o.
Answered(rs, u, o) ==
    LET t == rs[u].owner
    IN [rs EXCEPT ![u] = [@ EXCEPT !.st = "done", !.ctx = Outside, !.base = Outside],
                  ![t] = IF @.st = "wait" THEN [Settled(@, o) EXCEPT !.st = "run"] ELSE @]


\* u, who holds the lock or waits for it, leaves the queue.
Unlocked(a, u) == [lock EXCEPT ![a] = RemoveAt(@, CHOOSE i \in DOMAIN @ : @[i] = u)]

\* Cancelled before it began, or while it waited for the lock.
PlanCancelled(u) ==
    /\ tasks[u].st \in {"new", "lock"}
    /\ tasks[u].cancel
    /\ tasks' = Answered(tasks, u, "cancelled")
    /\ lock' = IF tasks[u].st = "lock" THEN Unlocked(calls[tasks[u].plan].agent, u) ELSE lock
    /\ UNCHANGED <<env, calls, lockLoop, loop>>

-----------------------------------------------------------------------------
(* Bodies.                                                                 *)

\* The body of t creates a task, which copies the context.
Spawn(t, u) ==
    /\ InBody(t)
    /\ ~tasks[t].cancel
    /\ tasks[t].frames # <<>>
    /\ FreeTask(u)
    /\ tasks' = [tasks EXCEPT ![u] = NewTask(t, "run", tasks[t].ctx, Nobody)]
    /\ UNCHANGED <<env, calls, lock, lockLoop, loop>>

\* execute_nested: a composite strategy runs another one in its session.
NestStrategy(t) ==
    /\ InBody(t)
    /\ ~tasks[t].cancel
    /\ tasks[t].frames # <<>>
    /\ Top(t).kind = "session"
    /\ ~Top(t).nested
    /\ LET ctx == tasks[t].ctx
           c == Top(t).call
           r == [tasks[t] EXCEPT !.frames[Len(tasks[t].frames)].nested = TRUE]
       IN tasks' = [tasks EXCEPT ![t] =
              Push(r, NestedFrame(c, ctx), [ctx EXCEPT !.gens = Append(@, c)])]
    /\ UNCHANGED <<env, calls, lock, lockLoop, loop>>

\* What a body that is over may end with: a cancelled task raises CancelledError.
MayEnd(t, o) ==
    /\ InBody(t)
    /\ tasks[t].frames # <<>>
    /\ "straggler" \notin env.faults => Children(t) = {}
    /\ o \in IF tasks[t].cancel THEN {"cancelled"} ELSE {"returned", "raised"}

\* The method's own code ends.
CodeEnds(t, o) ==
    /\ MayEnd(t, o)
    /\ Top(t).kind = "wrapper"
    /\ tasks' = [tasks EXCEPT ![t] = Settled(@, o)]
    /\ UNCHANGED <<env, calls, lock, lockLoop, loop>>

\* The nested strategy ends; the strategy around it goes on, or raises too.
NestedEnds(t, o) ==
    /\ MayEnd(t, o)
    /\ Top(t).kind = "nested"
    /\ tasks' = [tasks EXCEPT ![t] = Pop(@)]
    /\ UNCHANGED <<env, calls, lock, lockLoop, loop>>

\* strategy.execute ends: the finally clause of _execute_with_generation, then
\* the lock is released and the wrapper gets the outcome.
SessionEnds(t, o) ==
    /\ MayEnd(t, o)
    /\ Top(t).kind = "session"
    /\ LET f == Top(t)
           r == Pop(tasks[t])
       IN /\ tasks' = IF r.frames = <<>>
                      THEN Answered([tasks EXCEPT ![t] = r], t, o)
                      ELSE [tasks EXCEPT ![t] = Settled(r, o)]
          /\ lock' = IF f.locked THEN Unlocked(calls[f.call].agent, t) ELSE lock
    /\ UNCHANGED <<env, calls, lockLoop, loop>>

\* The end of the wrapper: after a result the journal is flushed, where the
\* task may still be cancelled; then AfterAgentCall and the context restored.
\* Only an Exception counts as a failure.
Close(t) ==
    /\ tasks[t].st = "run"
    /\ tasks[t].frames # <<>>
    /\ Top(t).out # "open"
    /\ LET o == IF tasks[t].cancel THEN "cancelled" ELSE Top(t).out
       IN calls' = [calls EXCEPT ![Top(t).call].out = o,
                                 ![Top(t).call].success =
                                     IF o = "raised" THEN "failed" ELSE "ok"]
    /\ tasks' = [tasks EXCEPT ![t] = Pop(@)]
    /\ UNCHANGED <<env, lock, lockLoop, loop>>

\* A task of the program, or one a body created, ends.
EndTask(t) ==
    /\ tasks[t].st = "run"
    /\ tasks[t].frames = <<>>
    /\ tasks' = [tasks EXCEPT ![t] = [@ EXCEPT !.st = "done", !.ctx = Outside, !.base = Outside]]
    /\ UNCHANGED <<env, calls, lock, lockLoop, loop>>

-----------------------------------------------------------------------------
(* Faults.                                                                 *)

\* The tasks t awaits, and those they await: a frame that keeps its tasks to
\* itself gathers them.
Awaited(t) ==
    LET under[u \in Task] ==
            \/ u = t
            \/ /\ tasks[u].owner \in 1..u - 1
               /\ tasks[u].plan # Nobody \/ "straggler" \notin env.faults
               /\ under[tasks[u].owner]
    IN {u \in Task : Alive(u) /\ under[u]}

\* Task.cancel(): it reaches what the task awaits.
Cancel(t) ==
    /\ "cancel" \in env.faults
    /\ Alive(t)
    /\ tasks[t].plan = Nobody
    /\ ~tasks[t].cancel
    /\ LET hit == Awaited(t)
       IN tasks' = [u \in Task |-> IF u \in hit THEN [tasks[u] EXCEPT !.cancel = TRUE]
                                   ELSE tasks[u]]
    /\ UNCHANGED <<env, calls, lock, lockLoop, loop>>

\* The event loop dies, its tasks with it: no finally clause runs.  Another
\* loop is started.  Bound: once.
Restart ==
    /\ "restart" \in env.faults
    /\ loop = 1
    /\ loop' = 2
    /\ tasks' = [t \in Task |-> IF Alive(t) THEN [tasks[t] EXCEPT !.st = "dead"] ELSE tasks[t]]
    /\ UNCHANGED <<env, calls, lock, lockLoop>>

Step(t) ==
    \/ StartFree(t) \/ StartLocked(t) \/ Granted(t) \/ PlanCancelled(t)
    \/ \E o \in Outcome : CodeEnds(t, o) \/ NestedEnds(t, o) \/ SessionEnds(t, o)
    \/ Close(t) \/ EndTask(t)

Next ==
    \/ \E t \in Task :
          \/ Arrive(t) \/ Step(t) \/ NestStrategy(t) \/ Cancel(t)
          \/ \E u \in Task : Spawn(t, u)
          \/ \E c \in Call, m \in env.methods :
                \/ CallCode(t, c, m[1], m[2])
                \/ CallInline(t, c, m[1], m[2])
                \/ \E u \in Task : CallPlan(t, u, c, m[1], m[2])
    \/ Restart

\* asyncio runs every task that is ready, and bodies end.
Fairness == \A t \in Task : WF_vars(Step(t))

Spec == Init /\ [][Next]_vars /\ Fairness

-----------------------------------------------------------------------------
(* Properties.                                                             *)

\* Every variable keeps its type, and the call stack its configured depth.
TypeOK ==
    /\ env \in Envs
    /\ \A t \in Task :
          LET r == tasks[t]
          IN /\ r.st \in {"free", "new", "run", "wait", "lock", "done", "dead"}
             /\ r.ctx \in Context /\ r.base \in Context
             /\ r.frames \in Seq(Frame)
             /\ r.owner \in Task \cup {Nobody} /\ r.level \in Nat
             /\ r.plan \in Call \cup {Nobody} /\ r.cancel \in BOOLEAN
             /\ Len(r.ctx.stack) <= MaxDepth
    /\ \A c \in Call :
          /\ calls[c].agent \in Agents \cup {Nobody}
          /\ calls[c].task \in Task \cup {Nobody}
          /\ calls[c].out \in Outcome
          /\ calls[c].success \in {"none", "ok", "failed"}
    /\ \A a \in Agents : lock[a] \in Seq(Task) /\ lockLoop[a] \in 0..loop
    /\ loop \in 1..2

Holds(t, a) ==
    /\ Alive(t)
    /\ \E i \in DOMAIN tasks[t].frames :
          LET f == tasks[t].frames[i] IN f.locked /\ calls[f.call].agent = a

\* Sessions opened from outside every session are serialised: at most one live
\* task runs an agent's session under its lock, through cancellation at every
\* point, and when the loop and with it the lock were replaced.
OneRootSession ==
    \A a \in Agents, t, u \in Task : Holds(t, a) /\ Holds(u, a) => t = u

\* "This prevents deadlock when generated code calls other @strategy methods":
\* a task that waits for a lock waits for a live one, and neither it nor
\* whoever awaits it holds a lock.
NoWaitCycle ==
    \A t \in Task :
        tasks[t].st = "lock" =>
            /\ Alive(Head(lock[calls[tasks[t].plan].agent]))
            /\ \A u \in Task, a \in Agents : t \in Awaited(u) => ~Holds(u, a)

\* What an open frame adds to the context around it.
Added(ctx, f) ==
    IF f.kind = "wrapper"
    THEN [ctx EXCEPT !.stack = Append(@, f.call), !.agent = calls[f.call].agent]
    ELSE [ctx EXCEPT !.gens = Append(@, f.call), !.session = TRUE]

\* The context variables of a task always tell where it stands: those it was
\* created with, and what its open calls and sessions add, whatever ended them.
ContextFollows ==
    \A t \in Task :
        Alive(t) =>
            LET fs == tasks[t].frames
                within[i \in 0..Len(fs)] ==
                    IF i = 0 THEN tasks[t].base ELSE Added(within[i - 1], fs[i])
            IN tasks[t].ctx = within[Len(fs)]

\* A call is top-level exactly when no call is around it: is_top_level, read
\* from _parent_agent_var, agrees with the call stack.
TopLevelOutermost ==
    \A t \in Task :
        Alive(t) => \A i \in DOMAIN tasks[t].ctx.stack :
                        calls[tasks[t].ctx.stack[i]].top <=> i = 1

\* The five context variables as the wrapper and the sessions set and restore
\* them agree with each other and with the calls that are open.
ContextKept == ContextFollows /\ TopLevelOutermost

\* While no task outlives the frame that created it, every id on a live task's
\* call stack is a call still open (events are filed under it), and a task
\* that is done has no call open.
StackIsOpen ==
    \A t \in Task :
        /\ Alive(t) /\ "straggler" \notin env.faults =>
              \A i \in DOMAIN tasks[t].ctx.stack : calls[tasks[t].ctx.stack[i]].out = "open"
        /\ tasks[t].st = "done" => \A c \in Call : calls[c].task = t => calls[c].out # "open"

\* Every call returns, unless the loop dies under it.
CallsReturn ==
    \A c \in Call :
        (calls[c].task # Nobody /\ calls[c].out = "open")
            ~> (calls[c].out # "open" \/ \E t \in Task : t = calls[c].task /\ tasks[t].st = "dead")

\* "success: True if the method returned normally" (events.py).
SuccessMeansReturned == \A c \in Call : calls[c].success = "ok" => calls[c].out = "returned"

\* "One generation session at a time per agent (serialized)" (actor.py): two
\* sessions of one agent are open together only inside one outermost session.
OneSessionAtATime ==
    \A t, u \in Task :
        Alive(t) /\ Alive(u) =>
            \A i \in DOMAIN tasks[t].frames, j \in DOMAIN tasks[u].frames :
                LET f == tasks[t].frames[i]
                    g == tasks[u].frames[j]
                IN /\ f.kind = "session" /\ calls[f.call].kind = "generated"
                   /\ g.kind = "session" /\ calls[g.call].kind = "generated"
                   /\ calls[f.call].agent = calls[g.call].agent
                   => tasks[t].ctx.gens[1] = tasks[u].ctx.gens[1]
=============================================================================
