-------------------------- MODULE SandboxExecutor --------------------------
(***************************************************************************)
(* runtime/sandbox/executor.py and the worker loop of sandbox/worker.py:   *)
(* cells run one at a time in a forked worker; the parent sends a request  *)
(* down one socket pair and a reader thread waits for the answer, serving  *)
(* the self.* calls the cell brokers back meanwhile.  A deadline, a dead   *)
(* worker or a stuck brokered call kills the worker, and a fresh one with  *)
(* an empty namespace (a new generation) replaces it.                      *)
(*                                                                         *)
(* The executor lives on one event loop, so code between two awaits is one *)
(* step; reader threads and the worker process interleave with it freely.  *)
(* Time is a choice: a deadline may pass whenever the code looks at it.    *)
(***************************************************************************)
EXTENDS Naturals, Sequences, FiniteSets

Dropped(s, i) == SubSeq(s, 1, i - 1) \o SubSeq(s, i + 1, Len(s))

CONSTANTS
    Cell,         \* the run_cell calls; a cell also stands for its request id
                  \* ("none": no request)
    Closer,       \* the task that calls aclose
    Envs,         \* the configurations and environments considered
    MaxCalls      \* bound: brokered calls one worker makes

\* SandboxConfig.recovery, when the worker may be killed from outside, whether
\* callers may be cancelled, whether a cell may leave a thread behind it.
Env == [recovery : {"restart_empty", "disabled"}, deaths : SUBSET {"cell", "idle", "send"},
        cancels : BOOLEAN, stragglers : BOOLEAN]

ASSUME ExecutorAssumption ==
    /\ Closer \notin Cell /\ "none" \notin Cell
    /\ Envs \subseteq Env
    /\ MaxCalls \in Nat

VARIABLES
    env,        \* the one of this behaviour
    run,        \* [Cell -> phase of the run_cell call]
    result,     \* [Cell -> "none", "ok", "died", "oom", "timeout", "closed"]
    answer,     \* [Cell -> the cell whose result was handed back, or "none"]
    reader,     \* [Cell -> the thread in _recv_until_result]
    lock,       \* queue of the asyncio.Lock: the head holds it
    closing,    \* the aclose call
    closed, disabled,
    conn,       \* _conn and _proc: the generation they reach, 0 for None
    gen,        \* workers started so far
    alive, exit,\* whether the newest worker runs, and _proc's exit code
    main,       \* its main thread: [at, cell, call]
    stray,      \* a thread some cell left behind: [left, call]
    calls,      \* ChildBroker._n: brokered calls this worker has made
    down, up,   \* the pipe's two directions: to the worker, to the parent
    repl,       \* generation holding the names the caller relies on, 0 if none
    crossed     \* what went to the wrong hands: "request", "answer", "served"

parent == <<env, run, result, answer, lock, closing, closed, disabled>>
worker == <<alive, exit, main, stray, calls>>
child == <<conn, gen, worker, down, up>>
flags == <<env, closing, closed, disabled>>
seen == <<answer, down, up, crossed>>
vars == <<env, run, result, answer, reader, lock, closing, closed, disabled, conn, gen,
          alive, exit, main, stray, calls, down, up, repl, crossed>>

Idle == [at |-> "idle", cell |-> "none", call |-> 0]
Booting == [Idle EXCEPT !.at = "boot"]
NoStray == [left |-> FALSE, call |-> 0]
NoThread == [at |-> "none", gen |-> 0, call |-> 0]
Ended == {"got", "timeout", "died"}

Init ==
    /\ env \in Envs
    /\ run = [c \in Cell |-> "idle"]
    /\ result = [c \in Cell |-> "none"] /\ answer = [c \in Cell |-> "none"]
    /\ reader = [c \in Cell |-> NoThread]
    /\ lock = <<>> /\ closing = "no" /\ closed = FALSE /\ disabled = FALSE
    /\ conn = 0 /\ gen = 0 /\ alive = FALSE /\ exit = "none"
    /\ main = Idle /\ stray = NoStray /\ calls = 0
    /\ down = <<>> /\ up = <<>>
    /\ repl = 0 /\ crossed = {}

---------------------------------------------------------------------------
(* Worker lifecycle.                                                       *)

\* _start_worker with request r already in its pipe.
StartWorker(r) ==
    /\ gen' = gen + 1 /\ conn' = gen + 1
    /\ alive' = TRUE /\ exit' = "none" /\ main' = Booting /\ stray' = NoStray /\ calls' = 0
    /\ down' = r /\ up' = <<>>

\* _detach_worker and the kill: the pipe is closed and the process is gone.
KillWorker ==
    /\ conn' = 0 /\ alive' = FALSE /\ exit' = "none" /\ main' = Idle /\ stray' = NoStray
    /\ down' = <<>> /\ up' = <<>>
    /\ UNCHANGED <<gen, calls>>

\* What _restart_worker does once the old process is reaped.
Restarted ==
    \/ /\ env.recovery = "disabled"
       /\ disabled' = TRUE
       /\ KillWorker
    \/ /\ env.recovery = "restart_empty"
       /\ StartWorker(<<>>)
       /\ UNCHANGED disabled

Release == lock' = Tail(lock)

\* run_cell hands back an error: the caller no longer relies on any name.
Fail(c, error) ==
    /\ run' = [run EXCEPT ![c] = "done"]
    /\ result' = [result EXCEPT ![c] = error]
    /\ repl' = 0
    /\ UNCHANGED answer

---------------------------------------------------------------------------
(* run_cell.                                                               *)

\* slip: the closed flag is not looked at.
CallAnyway(c) ==
    /\ run[c] = "idle"
    /\ run' = [run EXCEPT ![c] = "lock"]
    /\ lock' = Append(lock, c)
    /\ UNCHANGED <<result, answer, repl, reader, flags, child, crossed>>

Call(c) ==
    /\ run[c] = "idle"
    /\ IF closed
       THEN Fail(c, "closed") /\ UNCHANGED lock
       ELSE /\ run' = [run EXCEPT ![c] = "lock"]
            /\ lock' = Append(lock, c)
            /\ UNCHANGED <<result, answer, repl>>
    /\ UNCHANGED <<reader, flags, child, crossed>>

Holds(c) == lock # <<>> /\ Head(lock) = c

StartDisabled(c) ==
    /\ run[c] = "lock" /\ Holds(c) /\ disabled
    /\ Fail(c, "died") /\ Release
    /\ UNCHANGED <<reader, flags, child, crossed>>

EveryCell == TRUE        \* slip: a fresh worker for every cell

NeedsWorker == conn = 0 \/ ~alive

\* _ensure_worker starts a worker when there is none or it is dead (nothing
\* to wait for then); the request is sent and the thread begins.
Start(c) ==
    /\ run[c] = "lock" /\ Holds(c) /\ ~disabled
    /\ IF NeedsWorker
       THEN StartWorker(<<[op |-> "run", cell |-> c, call |-> 0, gen |-> gen + 1]>>)
       ELSE /\ down' = Append(down, [op |-> "run", cell |-> c, call |-> 0, gen |-> gen])
            /\ UNCHANGED <<conn, gen, worker, up>>
    /\ run' = [run EXCEPT ![c] = "read"]
    /\ reader' = [reader EXCEPT ![c] = [at |-> "poll", gen |-> 0, call |-> 0]]
    /\ UNCHANGED <<result, answer, lock, flags, repl, crossed>>

\* _classify_worker_death, from the exit code of _proc ("none" without one).
Classified(code) == IF code = "oom" THEN "oom" ELSE "died"

\* The worker is killed for memory between _ensure_worker and the send: the
\* send fails, the worker is replaced and only then is its death classified,
\* by the exit code of the worker that replaced it.
StartBroken(c) ==
    /\ "send" \in env.deaths
    /\ run[c] = "lock" /\ Holds(c) /\ ~disabled
    /\ conn # 0 /\ alive
    /\ Restarted
    /\ Fail(c, Classified(exit'))
    /\ Release
    /\ UNCHANGED <<env, reader, closing, closed, crossed>>

\* The thread's outcome reaches the coroutine.
ReturnOk(c) ==
    /\ run[c] = "read" /\ Holds(c) /\ reader[c].at = "got"
    /\ run' = [run EXCEPT ![c] = "done"]
    /\ result' = [result EXCEPT ![c] = "ok"]
    /\ repl' = gen
    /\ Release
    /\ UNCHANGED <<answer, reader, flags, child, crossed>>

\* slip: the worker is left alone after a timeout.
ReturnFailedOnly(c) ==
    /\ run[c] = "read" /\ Holds(c) /\ reader[c].at \in {"timeout", "died"}
    /\ Fail(c, reader[c].at) /\ Release
    /\ UNCHANGED <<reader, flags, child, crossed>>

\* A failed cell: the worker is detached and killed.  A dead one is replaced
\* at once, a live one after the joins (Restart).
ReturnFailed(c) ==
    /\ run[c] = "read" /\ Holds(c) /\ reader[c].at \in {"timeout", "died"}
    /\ LET error == IF reader[c].at = "timeout" THEN "timeout" ELSE Classified(exit)
       IN IF conn = 0 \/ ~alive
          THEN Restarted /\ Fail(c, error) /\ Release
          ELSE /\ KillWorker
               /\ run' = [run EXCEPT ![c] = "restart"]
               /\ result' = [result EXCEPT ![c] = error]
               /\ UNCHANGED <<answer, lock, disabled, repl>>
    /\ UNCHANGED <<env, reader, closing, closed, crossed>>

Restart(c) ==
    /\ run[c] = "restart"
    /\ Restarted /\ Fail(c, result[c]) /\ Release
    /\ UNCHANGED <<env, reader, closing, closed, crossed>>

\* Task cancellation at any await of run_cell: the lock is released, but the
\* thread cannot be cancelled and reads on.
Cancel(c) ==
    /\ env.cancels
    /\ run[c] \in {"lock", "read", "restart"}
    /\ run' = [run EXCEPT ![c] = "cancelled"]
    /\ \E i \in 1 .. Len(lock) : lock[i] = c /\ lock' = Dropped(lock, i)
    /\ UNCHANGED <<result, answer, reader, flags, child, repl, crossed>>

---------------------------------------------------------------------------
(* aclose.                                                                 *)

Close ==
    /\ ~closed
    /\ closed' = TRUE /\ closing' = "lock" /\ lock' = Append(lock, Closer)
    /\ UNCHANGED <<env, run, result, answer, reader, disabled, child, repl, crossed>>

\* A live worker is asked to leave and joined for a moment.
CloseAsk ==
    /\ closing = "lock" /\ Holds(Closer)
    /\ closing' = "join"
    /\ down' = IF conn # 0 /\ alive
               THEN Append(down, [op |-> "shutdown", cell |-> "none", call |-> 0, gen |-> gen])
               ELSE down
    /\ UNCHANGED <<env, run, result, answer, reader, lock, closed, disabled, conn, gen, worker, up, repl, crossed>>

CloseKill ==
    /\ closing = "join"
    /\ closing' = "done" /\ KillWorker /\ Release
    /\ UNCHANGED <<env, run, result, answer, reader, closed, disabled, repl, crossed>>

---------------------------------------------------------------------------
(* _recv_until_result: one thread per started cell, over whatever _conn is *)
(* at each turn of its loop.                                               *)

Thread(c, t) ==
    /\ reader' = [reader EXCEPT ![c] = t]
    /\ UNCHANGED <<run, result, lock, flags, conn, gen, worker, repl>>

Over(c, outcome) == Thread(c, [NoThread EXCEPT !.at = outcome])

\* slip: the deadline is looked at only when a message is there.
ExpireOnMessage(c) ==
    /\ reader[c].at = "poll" /\ conn # 0 /\ up # <<>>
    /\ Over(c, "timeout") /\ UNCHANGED seen

Expire(c) ==
    /\ reader[c].at = "poll" /\ conn # 0
    /\ Over(c, "timeout") /\ UNCHANGED seen

\* No connection, or poll was empty and then the process is seen dead.
FindDead(c) ==
    /\ reader[c].at = "poll" /\ (conn = 0 \/ ~alive)
    /\ Over(c, "died") /\ UNCHANGED seen

\* poll saw a message or the end of file.
Poll(c) ==
    /\ reader[c].at = "poll" /\ conn # 0 /\ (up # <<>> \/ ~alive)
    /\ Thread(c, [at |-> "recv", gen |-> conn, call |-> 0])
    /\ UNCHANGED seen

AnyResponse(msg, c) == msg.type = "response"        \* slip: any response will do

Mine(msg, c) == msg.type = "response" /\ msg.cell = c

\* recv blocks while a live worker's pipe is empty: the message poll saw may
\* have gone to another thread.
Recv(c) ==
    /\ reader[c].at = "recv"
    /\ IF reader[c].gen # conn \/ (up = <<>> /\ ~alive)
       THEN Over(c, "died") /\ UNCHANGED seen
       ELSE /\ up # <<>>
            /\ up' = Tail(up)
            /\ LET msg == Head(up) IN
               \/ /\ msg.type = "tool_call"
                  /\ Thread(c, [at |-> "serve", gen |-> msg.gen, call |-> msg.call])
                  /\ crossed' = IF msg.cell \in {c, "none"} THEN crossed
                                ELSE crossed \union {"served"}
                  /\ UNCHANGED <<answer, down>>
               \/ /\ msg.type = "fatal"
                  /\ Over(c, "died")
                  /\ UNCHANGED <<answer, down, crossed>>
               \/ /\ Mine(msg, c)
                  /\ Over(c, "got")
                  /\ answer' = [answer EXCEPT ![c] = msg.cell]
                  /\ UNCHANGED <<down, crossed>>
               \/ /\ msg.type = "response" /\ ~Mine(msg, c)
                  /\ Thread(c, [NoThread EXCEPT !.at = "poll"])
                  /\ UNCHANGED <<answer, down, crossed>>

\* _service_tool_call: the call ran on the event loop; its result goes down
\* the connection of the moment, numbered as the caller numbered it.
Serve(c) ==
    /\ reader[c].at = "serve"
    /\ IF conn # 0 /\ ~alive
       THEN Over(c, "died") /\ UNCHANGED down
       ELSE /\ Thread(c, [NoThread EXCEPT !.at = "poll"])
            /\ down' = IF conn = 0 THEN down
                       ELSE Append(down, [op |-> "tool_result", cell |-> "none",
                                          call |-> reader[c].call, gen |-> reader[c].gen])
    /\ UNCHANGED <<answer, up, crossed>>

ServeExpires(c) ==
    /\ reader[c].at = "serve" /\ Over(c, "timeout") /\ UNCHANGED seen

---------------------------------------------------------------------------
(* The worker process; none of its steps touches the parent's state.       *)

Send(kind, c, n) == up' = Append(up, [type |-> kind, cell |-> c, call |-> n, gen |-> gen])

Take == alive /\ down # <<>> /\ down' = Tail(down)

Dies(code) ==
    /\ alive' = FALSE /\ exit' = code /\ main' = Idle /\ stray' = NoStray
    /\ UNCHANGED calls

Boot ==
    /\ main.at = "boot" /\ alive
    /\ \/ main' = Idle /\ UNCHANGED <<alive, exit, stray, calls, up>>
       \/ Send("fatal", "none", 0) /\ Dies("other")
    /\ UNCHANGED down

\* The op loop of worker_main.
TakeRequest ==
    /\ main.at = "idle" /\ Take
    /\ LET msg == Head(down) IN
       \/ /\ msg.op = "run"
          /\ main' = [at |-> "run", cell |-> msg.cell, call |-> 0]
          /\ UNCHANGED <<alive, exit, stray, calls, up>>
       \/ msg.op = "shutdown" /\ Dies("other") /\ UNCHANGED up
       \/ /\ msg.op = "tool_result" /\ Send("response", "none", 0)
          /\ UNCHANGED worker

FinishCell ==
    /\ main.at = "run" /\ alive
    /\ Send("response", main.cell, 0)
    /\ main' = Idle
    /\ stray' \in IF env.stragglers THEN {stray, [stray EXCEPT !.left = TRUE]} ELSE {stray}
    /\ UNCHANGED <<alive, exit, calls, down>>

\* _rpc by the cell, or by a thread an earlier cell left; the send lock, held
\* across send and recv, keeps the two apart, but not the op loop.
CellCall ==
    /\ main.at = "run" /\ alive /\ stray.call = 0 /\ calls < MaxCalls
    /\ calls' = calls + 1
    /\ main' = [main EXCEPT !.at = "rpc", !.call = calls + 1]
    /\ Send("tool_call", main.cell, calls + 1)
    /\ UNCHANGED <<alive, exit, stray, down>>

StrayCall ==
    /\ stray.left /\ stray.call = 0 /\ main.at # "rpc" /\ alive /\ calls < MaxCalls
    /\ calls' = calls + 1
    /\ stray' = [left |-> FALSE, call |-> calls + 1]
    /\ Send("tool_call", "none", calls + 1)
    /\ UNCHANGED <<alive, exit, main, down>>

\* The message _rpc reads is its answer or an error raised in the cell; a
\* request read this way is gone.
Misread(msg, n) ==
    IF msg.op = "tool_result" /\ msg.call = n
    THEN IF msg.gen = gen THEN {} ELSE {"answer"}
    ELSE IF msg.op = "run" THEN {"request"} ELSE {}

CellAnswer ==
    /\ main.at = "rpc" /\ Take
    /\ main' = [main EXCEPT !.at = "run", !.call = 0]
    /\ crossed' = crossed \union Misread(Head(down), main.call)
    /\ UNCHANGED <<alive, exit, stray, calls, up>>

StrayAnswer ==
    /\ stray.call # 0 /\ Take
    /\ stray' = NoStray
    /\ crossed' = crossed \union Misread(Head(down), stray.call)
    /\ UNCHANGED <<alive, exit, main, calls, up>>

\* Killed from outside (memory) or by its own cell.
Die ==
    /\ alive
    /\ \/ main.at \in {"run", "rpc"} /\ "cell" \in env.deaths
       \/ main.at = "idle" /\ down = <<>> /\ "idle" \in env.deaths
    /\ \E code \in {"oom", "other"} : Dies(code)
    /\ UNCHANGED <<down, up>>

Worker ==
    /\ \/ (Boot \/ TakeRequest \/ FinishCell \/ CellCall \/ StrayCall \/ Die)
          /\ UNCHANGED crossed
       \/ CellAnswer \/ StrayAnswer
    /\ UNCHANGED <<parent, reader, conn, gen, repl>>

Loop(c) == Start(c) \/ StartDisabled(c) \/ ReturnOk(c) \/ ReturnFailed(c) \/ Restart(c)
Reader(c) == Expire(c) \/ FindDead(c) \/ Poll(c) \/ Recv(c) \/ Serve(c) \/ ServeExpires(c)

Next ==
    \/ \E c \in Cell : Call(c) \/ Loop(c) \/ StartBroken(c) \/ Cancel(c) \/ Reader(c)
    \/ Close \/ CloseAsk \/ CloseKill
    \/ Worker

\* The event loop and the reader threads go on; a deadline that may pass
\* passes in the end (cell_timeout and broker_timeout_s are set; by default
\* only the latter is).  The cell, the brokered method and the worker owe nothing.
Fairness ==
    /\ \A c \in Cell : WF_vars(Loop(c)) /\ WF_vars(Reader(c)) /\ WF_vars(ServeExpires(c))
                         /\ SF_vars(Expire(c))
    /\ WF_vars(CloseAsk) /\ WF_vars(CloseKill)

Spec == Init /\ [][Next]_vars /\ Fairness

---------------------------------------------------------------------------

Message == [op : {"run", "shutdown", "tool_result"}, cell : Cell \union {"none"},
            call : Nat, gen : Nat]
Reply == [type : {"tool_call", "response", "fatal"}, cell : Cell \union {"none"},
          call : Nat, gen : Nat]

\* The executor's own fields, the threads', the worker's and the pipe's.
TypeOK ==
    /\ env \in Envs
    /\ run \in [Cell -> {"idle", "lock", "read", "restart", "done", "cancelled"}]
    /\ result \in [Cell -> {"none", "ok", "died", "oom", "timeout", "closed"}]
    /\ answer \in [Cell -> Cell \union {"none"}]
    /\ reader \in [Cell -> [at : {"none", "poll", "recv", "serve"} \union Ended,
                            gen : Nat, call : Nat]]
    /\ lock \in Seq(Cell \union {Closer})
    /\ closing \in {"no", "lock", "join", "done"}
    /\ closed \in BOOLEAN /\ disabled \in BOOLEAN
    /\ gen \in Nat /\ conn \in {0, gen}
    /\ alive \in BOOLEAN /\ exit \in {"none", "oom", "other"}
    /\ main \in [at : {"boot", "idle", "run", "rpc"}, cell : Cell \union {"none"}, call : Nat]
    /\ stray \in [left : BOOLEAN, call : Nat] /\ calls \in Nat
    /\ down \in Seq(Message) /\ up \in Seq(Reply)
    /\ repl \in 0 .. gen /\ crossed \subseteq {"request", "answer", "served"}

\* run_cell hands a caller the result of its own cell, even when the answer to
\* a cancelled cell is still in the pipe (the id test of _recv_until_result).
OwnResult == \A c \in Cell : result[c] = "ok" => answer[c] = c

\* No caller is cancelled, and workers die only while they run a cell.
Orderly == ~env.cancels /\ env.deaths \subseteq {"cell"}

\* A caller that was never told of a failure finds its earlier names: a cell
\* succeeds only in the worker where the cells before it did, back to the last
\* error a caller was given (the persistent namespace, executor.py:5-8, and
\* the restarts of run_cell and _ensure_worker).
NamesStay == \A c \in Cell : ReturnOk(c) => repl \in {0, gen}
NamespaceKept == [][Orderly => NamesStay]_vars
NeverWithoutAWord == [][NamesStay]_vars     \* with workers that die while idle, too

\* The brokered calls of a cell that was given up do not reach the agent
\* through the reader of a later cell (every failure of run_cell replaces the
\* worker and its pipe).
ServedForOwnCell == Orderly => "served" \notin crossed

\* Nothing of one cell reaches another one's caller: neither its result nor its
\* brokered calls.
OwnCell == OwnResult /\ ServedForOwnCell

\* The answer _rpc accepts belongs to its call (worker.py: the id test that
\* ends in "sandbox broker got an unexpected response").
AnswersOwnCall == "answer" \notin crossed

\* A request sent to the worker is read by its op loop, never by a brokered
\* call (worker.py: the send lock held across each request and response).
RequestsReachTheLoop == "request" \notin crossed

\* Once aclose has returned no worker runs, whatever calls were queued or cut
\* off before it (the closed flag, the fair lock).
ClosedForGood == closing = "done" => ~alive /\ conn = 0

\* recovery="disabled": no worker is started after one has been killed
\* (_restart_worker and _ensure_worker).
NoResurrection == env.recovery = "disabled" => gen <= 1

\* A worker killed for memory while it had a cell to run is reported as that
\* (_classify_worker_death, on both of its paths in run_cell).
MemoryIsReported ==
    [][\A c \in Cell : StartBroken(c) => result'[c] = "oom"]_vars

\* Every call of run_cell returns, whatever its cell does (the deadline).
Returned(c) == run[c] \in {"done", "cancelled"}
CallsReturn == \A c \in Cell : run[c] = "lock" /\ ~env.cancels ~> Returned(c)
ReturnsBesideCancelled == \A c \in Cell : run[c] = "lock" ~> Returned(c)
=============================================================================
