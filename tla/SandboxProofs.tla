--------------------------- MODULE SandboxProofs ---------------------------
(***************************************************************************)
(* Proofs about the sandbox executor, for any set of cells, any number of  *)
(* brokered calls and every environment: the type invariant; a caller is   *)
(* given the answer to its own cell, and its cell's brokered calls are     *)
(* served for it; after aclose no worker runs; and, where callers are not  *)
(* cancelled, the namespace a caller relies on is kept.                    *)
(***************************************************************************)
EXTENDS SandboxExecutor, SequenceTheorems, TLAPS

ThreadRec == [at : {"none", "poll", "recv", "serve"} \union Ended, gen : Nat, call : Nat]
MainRec == [at : {"boot", "idle", "run", "rpc"}, cell : Cell \union {"none"}, call : Nat]

\* The parts of TypeOK: the calls of the parent, its threads, the child.
ParentOK ==
    /\ env \in Envs
    /\ run \in [Cell -> {"idle", "lock", "read", "restart", "done", "cancelled"}]
    /\ result \in [Cell -> {"none", "ok", "died", "oom", "timeout", "closed"}]
    /\ lock \in Seq(Cell \union {Closer})
    /\ closing \in {"no", "lock", "join", "done"}
    /\ closed \in BOOLEAN /\ disabled \in BOOLEAN

ReaderOK ==
    /\ reader \in [Cell -> ThreadRec]
    /\ answer \in [Cell -> Cell \union {"none"}]
    /\ crossed \subseteq {"request", "answer", "served"}

ProcessOK ==
    /\ gen \in Nat /\ conn \in {0, gen}
    /\ alive \in BOOLEAN /\ exit \in {"none", "oom", "other"}
    /\ main \in MainRec
    /\ stray \in [left : BOOLEAN, call : Nat] /\ calls \in Nat

PipeOK == down \in Seq(Message) /\ up \in Seq(Reply)

NamesOK == repl \in 0 .. gen

LEMMA Parts == TypeOK <=> ParentOK /\ ReaderOK /\ ProcessOK /\ PipeOK /\ NamesOK
BY DEF TypeOK, ParentOK, ReaderOK, ProcessOK, PipeOK, NamesOK, ThreadRec, MainRec

LEMMA PartsNext == TypeOK' <=> ParentOK' /\ ReaderOK' /\ ProcessOK' /\ PipeOK' /\ NamesOK'
BY DEF TypeOK, ParentOK, ReaderOK, ProcessOK, PipeOK, NamesOK, ThreadRec, MainRec

-----------------------------------------------------------------------------
(* Types of the pieces.                                                    *)

LEMMA Records ==
    ASSUME TypeOK
    PROVE  /\ Idle \in MainRec /\ Booting \in MainRec
           /\ NoStray \in [left : BOOLEAN, call : Nat]
           /\ NoThread \in ThreadRec
           /\ \A a \in {"none", "poll", "recv", "serve"} \union Ended :
                 [NoThread EXCEPT !.at = a] \in ThreadRec
BY DEF Idle, Booting, NoStray, NoThread, MainRec, ThreadRec

LEMMA MessageType ==
    ASSUME NEW o \in {"run", "shutdown", "tool_result"}, NEW c \in Cell \union {"none"},
           NEW n \in Nat, NEW g \in Nat
    PROVE  [op |-> o, cell |-> c, call |-> n, gen |-> g] \in Message
BY DEF Message

LEMMA ReplyType ==
    ASSUME NEW k \in {"tool_call", "response", "fatal"}, NEW c \in Cell \union {"none"},
           NEW n \in Nat, NEW g \in Nat
    PROVE  [type |-> k, cell |-> c, call |-> n, gen |-> g] \in Reply
BY DEF Reply

LEMMA StartWorkerType ==
    ASSUME TypeOK, NEW r \in Seq(Message), StartWorker(r)
    PROVE  ProcessOK' /\ PipeOK' /\ gen' = gen + 1
<1>1. gen \in Nat
  BY Parts DEF ProcessOK
<1>2. <<>> \in Seq(Reply)
  OBVIOUS
<1>3. QED
  BY <1>1, <1>2, Records DEF ProcessOK, PipeOK, StartWorker

LEMMA KillWorkerType ==
    ASSUME TypeOK, KillWorker
    PROVE  ProcessOK' /\ PipeOK' /\ gen' = gen
<1>1. gen \in Nat /\ calls \in Nat
  BY Parts DEF ProcessOK
<1>2. <<>> \in Seq(Reply) /\ <<>> \in Seq(Message)
  OBVIOUS
<1>3. QED
  BY <1>1, <1>2, Records DEF ProcessOK, PipeOK, KillWorker

LEMMA RestartedType ==
    ASSUME TypeOK, Restarted
    PROVE  ProcessOK' /\ PipeOK' /\ gen' \in Nat /\ disabled' \in BOOLEAN
<1>1. <<>> \in Seq(Message) /\ disabled \in BOOLEAN /\ gen \in Nat
  BY Parts DEF ParentOK, ProcessOK
<1>2. CASE StartWorker(<<>>) /\ disabled' = disabled
  <2>1. ProcessOK' /\ PipeOK' /\ gen' = gen + 1
    BY <1>1, <1>2, StartWorkerType
  <2>2. QED
    BY <1>1, <1>2, <2>1
<1>3. CASE KillWorker /\ disabled' = TRUE
  <2>1. ProcessOK' /\ PipeOK' /\ gen' = gen
    BY <1>3, KillWorkerType
  <2>2. QED
    BY <1>1, <1>3, <2>1
<1>4. QED
  BY <1>2, <1>3 DEF Restarted

\* What is taken from the queue of the lock stays a queue.
LEMMA TailType ==
    ASSUME NEW S, NEW s \in Seq(S), s # <<>>
    PROVE  /\ Tail(s) \in Seq(S) /\ Len(Tail(s)) = Len(s) - 1
           /\ \A i \in 1 .. Len(Tail(s)) : Tail(s)[i] = s[i + 1]
BY HeadTailProperties

LEMMA DroppedFacts ==
    ASSUME NEW S, NEW s \in Seq(S), NEW i \in 1 .. Len(s)
    PROVE  /\ Dropped(s, i) \in Seq(S) /\ Len(Dropped(s, i)) = Len(s) - 1
           /\ \A j \in 1 .. Len(s) - 1 : Dropped(s, i)[j] = IF j < i THEN s[j] ELSE s[j + 1]
<1> DEFINE a == SubSeq(s, 1, i - 1)
           b == SubSeq(s, i + 1, Len(s))
<1>1. Len(s) \in Nat /\ i \in Nat /\ \A j \in 1 .. Len(s) : s[j] \in S
  OBVIOUS
<1>2. a \in Seq(S) /\ Len(a) = i - 1 /\ \A j \in 1 .. i - 1 : a[j] = s[j]
  <2>1. \A j \in 1 .. i - 1 : s[j] \in S
    BY <1>1
  <2>2. 1 \in Int /\ i - 1 \in Int
    BY <1>1
  <2>3. /\ a \in Seq(S) /\ Len(a) = IF 1 <= i - 1 THEN i - 1 - 1 + 1 ELSE 0
        /\ \A j \in 1 .. i - 1 - 1 + 1 : a[j] = s[1 + j - 1]
    BY <2>1, <2>2, SubSeqProperties
  <2>4. QED
    BY <1>1, <2>3
<1>3. b \in Seq(S) /\ Len(b) = Len(s) - i /\ \A j \in 1 .. Len(s) - i : b[j] = s[i + j]
  <2>1. \A j \in i + 1 .. Len(s) : s[j] \in S
    BY <1>1
  <2>2. i + 1 \in Int /\ Len(s) \in Int
    BY <1>1
  <2>3. /\ b \in Seq(S) /\ Len(b) = IF i + 1 <= Len(s) THEN Len(s) - (i + 1) + 1 ELSE 0
        /\ \A j \in 1 .. Len(s) - (i + 1) + 1 : b[j] = s[(i + 1) + j - 1]
    BY <2>1, <2>2, SubSeqProperties
  <2>4. QED
    BY <1>1, <2>3
<1> HIDE DEF a, b
<1>4. /\ a \o b \in Seq(S) /\ Len(a \o b) = Len(a) + Len(b)
      /\ \A j \in 1 .. Len(a) + Len(b) : (a \o b)[j] = IF j <= Len(a) THEN a[j] ELSE b[j - Len(a)]
  BY <1>2, <1>3, ConcatProperties
<1>5. \A j \in 1 .. Len(s) - 1 : (a \o b)[j] = IF j < i THEN s[j] ELSE s[j + 1]
  <2> SUFFICES ASSUME NEW j \in 1 .. Len(s) - 1
               PROVE  (a \o b)[j] = IF j < i THEN s[j] ELSE s[j + 1]
    OBVIOUS
  <2>1. j \in 1 .. Len(a) + Len(b) /\ (j < i <=> j <= Len(a))
    BY <1>1, <1>2, <1>3
  <2>2. CASE j < i
    <3>1. (a \o b)[j] = a[j] /\ j \in 1 .. i - 1
      BY <1>1, <1>4, <2>1, <2>2
    <3>2. QED
      BY <1>2, <2>2, <3>1
  <2>3. CASE ~(j < i)
    <3>1. (a \o b)[j] = b[j - (i - 1)] /\ j - (i - 1) \in 1 .. Len(s) - i
      BY <1>1, <1>2, <1>4, <2>1, <2>3
    <3>2. b[j - (i - 1)] = s[i + (j - (i - 1))] /\ i + (j - (i - 1)) = j + 1
      BY <1>1, <1>3, <3>1
    <3>3. QED
      BY <2>3, <3>1, <3>2
  <2>4. QED
    BY <2>2, <2>3
<1>6. Dropped(s, i) = a \o b
  BY DEF Dropped, a, b
<1>7. Len(a) + Len(b) = Len(s) - 1
  BY <1>1, <1>2, <1>3
<1>8. a \o b \in Seq(S) /\ Len(a \o b) = Len(s) - 1
  BY <1>4, <1>7
<1>9. QED
  BY <1>5, <1>6, <1>8, Zenon
-----------------------------------------------------------------------------
(* Every step keeps the types: the calls.                                  *)

RunType == [Cell -> {"idle", "lock", "read", "restart", "done", "cancelled"}]
ResultType == [Cell -> {"none", "ok", "died", "oom", "timeout", "closed"}]

LEMMA FailType ==
    ASSUME TypeOK, NEW c \in Cell, NEW error \in {"none", "ok", "died", "oom", "timeout", "closed"},
           Fail(c, error)
    PROVE  run' \in RunType /\ result' \in ResultType /\ repl' = 0 /\ UNCHANGED answer
BY Parts DEF ParentOK, Fail, RunType, ResultType

LEMMA HeldFacts ==
    ASSUME TypeOK, NEW c, Holds(c)
    PROVE  lock # <<>> /\ Tail(lock) \in Seq(Cell \union {Closer})
BY Parts, TailType DEF ParentOK, Holds

LEMMA CallType == ASSUME TypeOK, NEW c \in Cell, Call(c) PROVE TypeOK'
<1>1. /\ ReaderOK /\ ProcessOK /\ PipeOK /\ NamesOK /\ ParentOK
      /\ UNCHANGED <<reader, env, closing, closed, disabled, crossed>>
      /\ UNCHANGED <<conn, gen, alive, exit, main, stray, calls, down, up>>
  BY Parts DEF Call, flags, child, worker
<1>2. ProcessOK' /\ PipeOK'
  BY <1>1 DEF ProcessOK, PipeOK
<1>3. CASE closed
  <2>1. Fail(c, "closed") /\ UNCHANGED lock
    BY <1>3 DEF Call
  <2>2. run' \in RunType /\ result' \in ResultType /\ repl' = 0 /\ UNCHANGED answer
    BY <2>1, FailType
  <2>3. QED
    BY <1>1, <1>2, <2>1, <2>2, PartsNext DEF ParentOK, ReaderOK, ProcessOK, NamesOK, RunType, ResultType
<1>4. CASE ~closed
  <2>1. run' = [run EXCEPT ![c] = "lock"] /\ lock' = Append(lock, c) /\ UNCHANGED <<result, answer, repl>>
    BY <1>4 DEF Call
  <2>2. QED
    BY <1>1, <1>2, <2>1, PartsNext DEF ParentOK, ReaderOK, NamesOK
<1>5. QED
  BY <1>3, <1>4

LEMMA StartDisabledType == ASSUME TypeOK, NEW c \in Cell, StartDisabled(c) PROVE TypeOK'
<1>1. /\ ReaderOK /\ ProcessOK /\ PipeOK /\ NamesOK /\ ParentOK
      /\ UNCHANGED <<reader, env, closing, closed, disabled, crossed>>
      /\ UNCHANGED <<conn, gen, alive, exit, main, stray, calls, down, up>>
      /\ Fail(c, "died") /\ Holds(c) /\ lock' = Tail(lock)
  BY Parts DEF StartDisabled, flags, child, worker, Release
<1>2. run' \in RunType /\ result' \in ResultType /\ repl' = 0 /\ UNCHANGED answer
  BY <1>1, FailType
<1>3. QED
  BY <1>1, <1>2, HeldFacts, PartsNext
     DEF ParentOK, ReaderOK, ProcessOK, PipeOK, NamesOK, RunType, ResultType

LEMMA StartType == ASSUME TypeOK, NEW c \in Cell, Start(c) PROVE TypeOK'
<1>1. /\ ReaderOK /\ ProcessOK /\ PipeOK /\ NamesOK /\ ParentOK
      /\ run' = [run EXCEPT ![c] = "read"]
      /\ reader' = [reader EXCEPT ![c] = [at |-> "poll", gen |-> 0, call |-> 0]]
      /\ UNCHANGED <<result, answer, lock, env, closing, closed, disabled, repl, crossed>>
  BY Parts DEF Start, flags
<1>2. ParentOK'
  BY <1>1 DEF ParentOK
<1>3. ReaderOK'
  <2>1. [at |-> "poll", gen |-> 0, call |-> 0] \in ThreadRec
    BY DEF ThreadRec
  <2>2. QED
    BY <1>1, <2>1 DEF ReaderOK
<1>4. gen \in Nat /\ gen + 1 \in Nat
  BY <1>1 DEF ProcessOK
<1>5. CASE NeedsWorker
  <2> DEFINE m == [op |-> "run", cell |-> c, call |-> 0, gen |-> gen + 1]
  <2>1. StartWorker(<<m>>)
    BY <1>5 DEF Start
  <2>2. m \in Message
    BY <1>4, MessageType
  <2> HIDE DEF m
  <2>3. <<m>> \in Seq(Message)
    BY <2>2
  <2>4. ProcessOK' /\ PipeOK' /\ gen' = gen + 1
    BY <2>1, <2>3, StartWorkerType
  <2>5. NamesOK'
    BY <1>1, <1>4, <2>4 DEF NamesOK
  <2>6. QED
    BY <1>2, <1>3, <2>4, <2>5, PartsNext
<1>6. CASE ~NeedsWorker
  <2> DEFINE m == [op |-> "run", cell |-> c, call |-> 0, gen |-> gen]
  <2>1. /\ down' = Append(down, m)
        /\ UNCHANGED <<conn, gen, alive, exit, main, stray, calls, up>>
    BY <1>6 DEF Start, worker
  <2>2. m \in Message
    BY <1>4, MessageType
  <2> HIDE DEF m
  <2>3. PipeOK'
    BY <1>1, <2>1, <2>2 DEF PipeOK
  <2>4. ProcessOK' /\ NamesOK'
    BY <1>1, <2>1 DEF ProcessOK, NamesOK
  <2>5. QED
    BY <1>2, <1>3, <2>3, <2>4, PartsNext
<1>7. QED
  BY <1>5, <1>6

LEMMA ClassifiedType == ASSUME NEW code PROVE Classified(code) \in {"oom", "died"}
BY DEF Classified

\* The steps that replace the worker and end a call, in two parts.
LEMMA RestartingType ==
    ASSUME TypeOK, NEW c \in Cell, NEW error \in {"none", "ok", "died", "oom", "timeout", "closed"},
           Restarted, Fail(c, error), Holds(c), Release,
           UNCHANGED <<env, reader, closing, closed, crossed>>
    PROVE  TypeOK'
<1>1. run' \in RunType /\ result' \in ResultType /\ repl' = 0 /\ UNCHANGED answer
  BY FailType
<1>2. ProcessOK' /\ PipeOK' /\ gen' \in Nat /\ disabled' \in BOOLEAN
  BY RestartedType
<1>3. lock' \in Seq(Cell \union {Closer})
  BY HeldFacts DEF Release
<1>4. NamesOK'
  BY <1>1, <1>2 DEF NamesOK
<1>5. QED
  BY <1>1, <1>2, <1>3, <1>4, Parts, PartsNext DEF ParentOK, ReaderOK, RunType, ResultType

LEMMA StartBrokenType == ASSUME TypeOK, NEW c \in Cell, StartBroken(c) PROVE TypeOK'
<1>1. Classified(exit') \in {"none", "ok", "died", "oom", "timeout", "closed"}
  BY ClassifiedType
<1>2. QED
  BY <1>1, RestartingType DEF StartBroken

LEMMA ReturnOkType == ASSUME TypeOK, NEW c \in Cell, ReturnOk(c) PROVE TypeOK'
<1>1. /\ ReaderOK /\ ProcessOK /\ PipeOK /\ NamesOK /\ ParentOK
      /\ UNCHANGED <<reader, answer, env, closing, closed, disabled, crossed>>
      /\ UNCHANGED <<conn, gen, alive, exit, main, stray, calls, down, up>>
      /\ run' = [run EXCEPT ![c] = "done"] /\ result' = [result EXCEPT ![c] = "ok"]
      /\ repl' = gen /\ Holds(c) /\ lock' = Tail(lock)
  BY Parts DEF ReturnOk, flags, child, worker, Release
<1>2. NamesOK'
  BY <1>1 DEF ProcessOK, NamesOK
<1>3. QED
  BY <1>1, <1>2, HeldFacts, PartsNext DEF ParentOK, ReaderOK, ProcessOK, PipeOK

LEMMA ReturnFailedType == ASSUME TypeOK, NEW c \in Cell, ReturnFailed(c) PROVE TypeOK'
<1> DEFINE error == IF reader[c].at = "timeout" THEN "timeout" ELSE Classified(exit)
<1>1. error \in {"none", "ok", "died", "oom", "timeout", "closed"}
  BY ClassifiedType
<1>2. Holds(c) /\ UNCHANGED <<env, reader, closing, closed, crossed>>
  BY DEF ReturnFailed
<1>3. CASE conn = 0 \/ ~alive
  <2>1. Restarted /\ Fail(c, error) /\ Release
    BY <1>3 DEF ReturnFailed
  <2> HIDE DEF error
  <2>2. QED
    BY <1>1, <1>2, <2>1, RestartingType
<1>4. CASE ~(conn = 0 \/ ~alive)
  <2>1. /\ KillWorker
        /\ run' = [run EXCEPT ![c] = "restart"]
        /\ result' = [result EXCEPT ![c] = error]
        /\ UNCHANGED <<answer, lock, disabled, repl>>
    BY <1>4 DEF ReturnFailed
  <2> HIDE DEF error
  <2>2. ProcessOK' /\ PipeOK' /\ gen' = gen
    BY <2>1, KillWorkerType
  <2>3. QED
    BY <1>1, <1>2, <2>1, <2>2, Parts, PartsNext DEF ParentOK, ReaderOK, NamesOK
<1>5. QED
  BY <1>3, <1>4

LEMMA RestartType == ASSUME TypeOK, NEW c \in Cell, Restart(c), Holds(c) PROVE TypeOK'
<1>1. result[c] \in {"none", "ok", "died", "oom", "timeout", "closed"}
  BY Parts DEF ParentOK
<1>2. QED
  BY <1>1, RestartingType DEF Restart

LEMMA CancelType == ASSUME TypeOK, NEW c \in Cell, Cancel(c) PROVE TypeOK'
<1>1. /\ ReaderOK /\ ProcessOK /\ PipeOK /\ NamesOK /\ ParentOK
      /\ run' = [run EXCEPT ![c] = "cancelled"]
      /\ UNCHANGED <<result, answer, reader, env, closing, closed, disabled, repl, crossed>>
      /\ UNCHANGED <<conn, gen, alive, exit, main, stray, calls, down, up>>
  BY Parts DEF Cancel, flags, child, worker
<1>2. lock' \in Seq(Cell \union {Closer})
  <2>1. PICK i \in 1 .. Len(lock) : lock' = Dropped(lock, i)
    BY DEF Cancel
  <2>2. QED
    BY <1>1, <2>1, DroppedFacts DEF ParentOK
<1>3. QED
  BY <1>1, <1>2, PartsNext DEF ParentOK, ReaderOK, ProcessOK, PipeOK, NamesOK

LEMMA CloseType == ASSUME TypeOK, Close \/ CloseAsk \/ CloseKill, closing = "join" => lock # <<>>
                   PROVE TypeOK'
<1>0. ReaderOK /\ ProcessOK /\ PipeOK /\ NamesOK /\ ParentOK
  BY Parts
<1>1. CASE Close
  <2>1. /\ closed' = TRUE /\ closing' = "lock" /\ lock' = Append(lock, Closer)
        /\ UNCHANGED <<env, run, result, answer, reader, disabled, repl, crossed>>
        /\ UNCHANGED <<conn, gen, alive, exit, main, stray, calls, down, up>>
    BY <1>1 DEF Close, child, worker
  <2>2. QED
    BY <1>0, <2>1, PartsNext DEF ParentOK, ReaderOK, ProcessOK, PipeOK, NamesOK
<1>2. CASE CloseAsk
  <2> DEFINE m == [op |-> "shutdown", cell |-> "none", call |-> 0, gen |-> gen]
  <2>1. /\ closing' = "join" /\ down' = IF conn # 0 /\ alive THEN Append(down, m) ELSE down
        /\ UNCHANGED <<env, run, result, answer, reader, lock, closed, disabled, repl, crossed>>
        /\ UNCHANGED <<conn, gen, alive, exit, main, stray, calls, up>>
    BY <1>2 DEF CloseAsk, worker
  <2>2. m \in Message
    BY <1>0, MessageType DEF ProcessOK
  <2> HIDE DEF m
  <2>3. QED
    BY <1>0, <2>1, <2>2, PartsNext DEF ParentOK, ReaderOK, ProcessOK, PipeOK, NamesOK
<1>3. CASE CloseKill
  <2>1. /\ closing' = "done" /\ KillWorker /\ lock' = Tail(lock) /\ lock # <<>>
        /\ UNCHANGED <<env, run, result, answer, reader, closed, disabled, repl, crossed>>
    BY <1>3 DEF CloseKill, Release
  <2>2. ProcessOK' /\ PipeOK' /\ gen' = gen
    BY <2>1, KillWorkerType
  <2>3. lock' \in Seq(Cell \union {Closer})
    BY <1>0, <2>1, TailType DEF ParentOK
  <2>4. QED
    BY <1>0, <2>1, <2>2, <2>3, PartsNext DEF ParentOK, ReaderOK, NamesOK
<1>4. QED
  BY <1>1, <1>2, <1>3

-----------------------------------------------------------------------------
(* Types: the threads and the worker.                                      *)

\* A thread's step moves the thread, the pipe, its answer, and what it saw.
LEMMA ThreadType ==
    ASSUME TypeOK, NEW c \in Cell, NEW t \in ThreadRec, Thread(c, t),
           PipeOK', answer' \in [Cell -> Cell \union {"none"}],
           crossed' \subseteq {"request", "answer", "served"}
    PROVE  TypeOK'
<1>1. /\ ReaderOK /\ ProcessOK /\ NamesOK /\ ParentOK
      /\ reader' = [reader EXCEPT ![c] = t]
      /\ UNCHANGED <<run, result, lock, env, closing, closed, disabled, repl>>
      /\ UNCHANGED <<conn, gen, alive, exit, main, stray, calls>>
  BY Parts DEF Thread, flags, worker
<1>2. QED
  BY <1>1, PartsNext DEF ParentOK, ReaderOK, ProcessOK, NamesOK

LEMMA OverType ==
    ASSUME TypeOK, NEW c \in Cell, NEW a \in {"none", "poll", "recv", "serve"} \union Ended,
           Over(c, a) \/ Thread(c, [NoThread EXCEPT !.at = a]),
           UNCHANGED answer, PipeOK', crossed' \subseteq {"request", "answer", "served"}
    PROVE  TypeOK'
<1> DEFINE t == [NoThread EXCEPT !.at = a]
<1>1. t \in ThreadRec /\ Thread(c, t)
  BY Records DEF Over
<1> HIDE DEF t
<1>2. answer' \in [Cell -> Cell \union {"none"}]
  BY Parts DEF ReaderOK
<1>3. QED
  BY <1>1, <1>2, ThreadType

LEMMA ReaderFacts ==
    ASSUME TypeOK, NEW c \in Cell
    PROVE  /\ reader[c] \in ThreadRec /\ gen \in Nat /\ conn \in Nat /\ PipeOK
           /\ crossed \subseteq {"request", "answer", "served"}
           /\ answer \in [Cell -> Cell \union {"none"}]
BY Parts DEF ReaderOK, ProcessOK

LEMMA ServeType == ASSUME TypeOK, NEW c \in Cell, Serve(c) PROVE TypeOK'
<1>1. CASE conn # 0 /\ ~alive
  <2>1. Over(c, "died") /\ UNCHANGED <<down, answer, up, crossed>>
    BY <1>1 DEF Serve
  <2>2. QED
    BY <2>1, ReaderFacts, OverType DEF Ended, PipeOK
<1>2. CASE ~(conn # 0 /\ ~alive)
  <2> DEFINE m == [op |-> "tool_result", cell |-> "none", call |-> reader[c].call, gen |-> reader[c].gen]
  <2>1. /\ Thread(c, [NoThread EXCEPT !.at = "poll"])
        /\ down' = IF conn = 0 THEN down ELSE Append(down, m)
        /\ UNCHANGED <<answer, up, crossed>>
    BY <1>2 DEF Serve
  <2>2. reader[c].call \in Nat /\ reader[c].gen \in Nat
    BY ReaderFacts DEF ThreadRec
  <2>3. m \in Message
    BY <2>2, MessageType
  <2> HIDE DEF m
  <2>4. PipeOK'
    BY <2>1, <2>3, ReaderFacts DEF PipeOK
  <2>5. QED
    BY <2>1, <2>4, ReaderFacts, OverType
<1>3. QED
  BY <1>1, <1>2

LEMMA ReceivedFacts ==
    ASSUME TypeOK, up # <<>>
    PROVE  Head(up) \in Reply /\ Tail(up) \in Seq(Reply)
BY Parts, HeadTailProperties DEF PipeOK

LEMMA RecvType == ASSUME TypeOK, NEW c \in Cell, Recv(c) PROVE TypeOK'
<1>1. CASE reader[c].gen # conn \/ (up = <<>> /\ ~alive)
  <2>1. Over(c, "died") /\ UNCHANGED seen
    BY <1>1 DEF Recv
  <2>2. QED
    BY <2>1, ReaderFacts, OverType DEF Ended, PipeOK, seen
<1>2. CASE ~(reader[c].gen # conn \/ (up = <<>> /\ ~alive))
  <2> DEFINE msg == Head(up)
  <2>1. up # <<>> /\ up' = Tail(up)
    BY <1>2 DEF Recv
  <2>2. /\ msg \in Reply /\ up' \in Seq(Reply) /\ down \in Seq(Message)
        /\ msg.gen \in Nat /\ msg.call \in Nat
    BY <2>1, ReceivedFacts, ReaderFacts DEF PipeOK, Reply
  <2>3. \/ /\ msg.type = "tool_call"
           /\ Thread(c, [at |-> "serve", gen |-> msg.gen, call |-> msg.call])
           /\ crossed' = IF msg.cell \in {c, "none"} THEN crossed ELSE crossed \union {"served"}
           /\ UNCHANGED <<answer, down>>
        \/ Over(c, "died") /\ UNCHANGED <<answer, down, crossed>>
        \/ /\ Mine(msg, c) /\ Over(c, "got")
           /\ answer' = [answer EXCEPT ![c] = msg.cell]
           /\ UNCHANGED <<down, crossed>>
        \/ /\ Thread(c, [NoThread EXCEPT !.at = "poll"])
           /\ UNCHANGED <<answer, down, crossed>>
    BY <1>2 DEF Recv
  <2> HIDE DEF msg
  <2>4. CASE /\ Thread(c, [at |-> "serve", gen |-> msg.gen, call |-> msg.call])
             /\ crossed' = IF msg.cell \in {c, "none"} THEN crossed ELSE crossed \union {"served"}
             /\ UNCHANGED <<answer, down>>
    <3> DEFINE t == [at |-> "serve", gen |-> msg.gen, call |-> msg.call]
    <3>1. t \in ThreadRec /\ Thread(c, t)
      BY <2>2, <2>4 DEF ThreadRec
    <3> HIDE DEF t
    <3>2. PipeOK'
      BY <2>2, <2>4 DEF PipeOK
    <3>3. crossed' \subseteq {"request", "answer", "served"} /\ answer' \in [Cell -> Cell \union {"none"}]
      BY <2>4, ReaderFacts
    <3>4. QED
      BY <3>1, <3>2, <3>3, ThreadType
  <2>5. CASE Over(c, "died") /\ UNCHANGED <<answer, down, crossed>>
    <3>1. PipeOK' /\ crossed' \subseteq {"request", "answer", "served"}
      BY <2>2, <2>5, ReaderFacts DEF PipeOK
    <3>2. QED
      BY <2>5, <3>1, OverType DEF Ended
  <2>6. CASE /\ Mine(msg, c) /\ Over(c, "got")
             /\ answer' = [answer EXCEPT ![c] = msg.cell]
             /\ UNCHANGED <<down, crossed>>
    <3> DEFINE t == [NoThread EXCEPT !.at = "got"]
    <3>1. t \in ThreadRec /\ Thread(c, t)
      BY <2>6, Records DEF Over, Ended
    <3> HIDE DEF t
    <3>2. PipeOK' /\ crossed' \subseteq {"request", "answer", "served"}
      BY <2>2, <2>6, ReaderFacts DEF PipeOK
    <3>3. answer' \in [Cell -> Cell \union {"none"}]
      BY <2>6, ReaderFacts DEF Mine
    <3>4. QED
      BY <3>1, <3>2, <3>3, ThreadType
  <2>7. CASE /\ Thread(c, [NoThread EXCEPT !.at = "poll"])
             /\ UNCHANGED <<answer, down, crossed>>
    <3>1. PipeOK' /\ crossed' \subseteq {"request", "answer", "served"}
      BY <2>2, <2>7, ReaderFacts DEF PipeOK
    <3>2. QED
      BY <2>7, <3>1, OverType
  <2>8. QED
    BY <2>3, <2>4, <2>5, <2>6, <2>7
<1>3. QED
  BY <1>1, <1>2

LEMMA ReaderType == ASSUME TypeOK, NEW c \in Cell, Reader(c) PROVE TypeOK'
<1>1. CASE Expire(c) \/ FindDead(c) \/ ServeExpires(c)
  <2>1. PICK a \in {"timeout", "died"} : Over(c, a)
    BY <1>1 DEF Expire, FindDead, ServeExpires
  <2>2. UNCHANGED <<answer, down, up, crossed>>
    BY <1>1 DEF Expire, FindDead, ServeExpires, seen
  <2>3. PipeOK' /\ crossed' \subseteq {"request", "answer", "served"}
    BY <2>2, ReaderFacts DEF PipeOK
  <2>4. QED
    BY <2>1, <2>2, <2>3, OverType DEF Ended
<1>2. CASE Poll(c)
  <2> DEFINE t == [at |-> "recv", gen |-> conn, call |-> 0]
  <2>1. Thread(c, t) /\ UNCHANGED <<answer, down, up, crossed>>
    BY <1>2 DEF Poll, seen
  <2>2. t \in ThreadRec
    BY ReaderFacts DEF ThreadRec
  <2> HIDE DEF t
  <2>3. PipeOK' /\ crossed' \subseteq {"request", "answer", "served"} /\ answer' \in [Cell -> Cell \union {"none"}]
    BY <2>1, ReaderFacts DEF PipeOK
  <2>4. QED
    BY <2>1, <2>2, <2>3, ThreadType
<1>3. QED
  BY <1>1, <1>2, RecvType, ServeType DEF Reader

LEMMA TakeFacts ==
    ASSUME TypeOK, Take
    PROVE  /\ alive /\ down # <<>> /\ Head(down) \in Message /\ down' = Tail(down)
           /\ down' \in Seq(Message)
BY Parts, HeadTailProperties DEF PipeOK, Take

LEMMA SendType ==
    ASSUME TypeOK, NEW k \in {"tool_call", "response", "fatal"}, NEW c \in Cell \union {"none"},
           NEW n \in Nat, Send(k, c, n)
    PROVE  up' \in Seq(Reply)
<1>1. [type |-> k, cell |-> c, call |-> n, gen |-> gen] \in Reply
  BY Parts, ReplyType DEF ProcessOK
<1>2. QED
  BY <1>1, Parts DEF Send, PipeOK

LEMMA DiesType ==
    ASSUME TypeOK, NEW code \in {"oom", "other"}, Dies(code)
    PROVE  /\ alive' = FALSE /\ exit' \in {"none", "oom", "other"} /\ main' \in MainRec
           /\ stray' \in [left : BOOLEAN, call : Nat] /\ calls' \in Nat
BY Parts, Records DEF Dies, ProcessOK

\* What a step of the worker may change.
WorkerOK ==
    /\ alive \in BOOLEAN /\ exit \in {"none", "oom", "other"} /\ main \in MainRec
    /\ stray \in [left : BOOLEAN, call : Nat] /\ calls \in Nat
    /\ PipeOK /\ crossed \subseteq {"request", "answer", "served"}

LEMMA WorkerFacts == TypeOK => WorkerOK
BY Parts DEF WorkerOK, ProcessOK, ReaderOK

LEMMA BootType == ASSUME TypeOK, Boot, UNCHANGED crossed PROVE WorkerOK'
<1>1. CASE main' = Idle /\ UNCHANGED <<alive, exit, stray, calls, up, down>>
  BY <1>1, WorkerFacts, Records DEF WorkerOK, PipeOK
<1>2. CASE Send("fatal", "none", 0) /\ Dies("other") /\ UNCHANGED down
  BY <1>2, WorkerFacts, SendType, DiesType DEF WorkerOK, PipeOK
<1>3. QED
  BY <1>1, <1>2 DEF Boot

LEMMA TakeRequestType == ASSUME TypeOK, TakeRequest, UNCHANGED crossed PROVE WorkerOK'
<1> DEFINE msg == Head(down)
<1>1. /\ msg \in Message /\ down' \in Seq(Message)
      /\ msg.cell \in Cell \union {"none"}
  BY TakeFacts DEF TakeRequest, Message
<1>2. \/ /\ main' = [at |-> "run", cell |-> msg.cell, call |-> 0]
         /\ UNCHANGED <<alive, exit, stray, calls, up>>
      \/ Dies("other") /\ UNCHANGED up
      \/ Send("response", "none", 0) /\ UNCHANGED <<alive, exit, main, stray, calls>>
  BY DEF TakeRequest, worker
<1> HIDE DEF msg
<1>3. CASE /\ main' = [at |-> "run", cell |-> msg.cell, call |-> 0]
           /\ UNCHANGED <<alive, exit, stray, calls, up>>
  <2>1. main' \in MainRec
    BY <1>1, <1>3 DEF MainRec
  <2>2. QED
    BY <1>1, <1>3, <2>1, WorkerFacts DEF WorkerOK, PipeOK
<1>4. CASE Dies("other") /\ UNCHANGED up
  BY <1>1, <1>4, DiesType, WorkerFacts DEF WorkerOK, PipeOK
<1>5. CASE Send("response", "none", 0) /\ UNCHANGED <<alive, exit, main, stray, calls>>
  BY <1>1, <1>5, SendType, WorkerFacts DEF WorkerOK, PipeOK
<1>6. QED
  BY <1>2, <1>3, <1>4, <1>5

LEMMA FinishCellType == ASSUME TypeOK, FinishCell, UNCHANGED crossed PROVE WorkerOK'
<1>1. /\ Send("response", main.cell, 0) /\ main' = Idle /\ UNCHANGED <<alive, exit, calls, down>>
      /\ stray' = stray \/ stray' = [stray EXCEPT !.left = TRUE]
  BY DEF FinishCell
<1>2. main.cell \in Cell \union {"none"} /\ [stray EXCEPT !.left = TRUE] \in [left : BOOLEAN, call : Nat]
  BY WorkerFacts DEF WorkerOK, MainRec
<1>3. QED
  BY <1>1, <1>2, SendType, Records, WorkerFacts DEF WorkerOK, PipeOK

LEMMA BrokeredType == ASSUME TypeOK, CellCall \/ StrayCall, UNCHANGED crossed PROVE WorkerOK'
<1>1. calls + 1 \in Nat /\ main.cell \in Cell \union {"none"}
  BY WorkerFacts DEF WorkerOK, MainRec
<1>2. CASE CellCall
  <2>1. /\ calls' = calls + 1 /\ main' = [main EXCEPT !.at = "rpc", !.call = calls + 1]
        /\ Send("tool_call", main.cell, calls + 1)
        /\ UNCHANGED <<alive, exit, stray, down>>
    BY <1>2 DEF CellCall
  <2>2. main' \in MainRec
    BY <1>1, <2>1, WorkerFacts DEF WorkerOK, MainRec
  <2>3. QED
    BY <1>1, <2>1, <2>2, SendType, WorkerFacts DEF WorkerOK, PipeOK
<1>3. CASE StrayCall
  <2>1. /\ calls' = calls + 1 /\ stray' = [left |-> FALSE, call |-> calls + 1]
        /\ Send("tool_call", "none", calls + 1)
        /\ UNCHANGED <<alive, exit, main, down>>
    BY <1>3 DEF StrayCall
  <2>2. stray' \in [left : BOOLEAN, call : Nat]
    BY <1>1, <2>1
  <2>3. QED
    BY <1>1, <2>1, <2>2, SendType, WorkerFacts DEF WorkerOK, PipeOK
<1>4. QED
  BY <1>2, <1>3

LEMMA AnswerType == ASSUME TypeOK, CellAnswer \/ StrayAnswer PROVE WorkerOK'
<1>1. down' \in Seq(Message)
  BY TakeFacts DEF CellAnswer, StrayAnswer
<1>2. crossed' \subseteq {"request", "answer", "served"}
  BY WorkerFacts DEF WorkerOK, CellAnswer, StrayAnswer, Misread
<1>3. CASE CellAnswer
  <2>1. main' = [main EXCEPT !.at = "run", !.call = 0] /\ UNCHANGED <<alive, exit, stray, calls, up>>
    BY <1>3 DEF CellAnswer
  <2>2. main' \in MainRec
    BY <2>1, WorkerFacts DEF WorkerOK, MainRec
  <2>3. QED
    BY <1>1, <1>2, <2>1, <2>2, WorkerFacts DEF WorkerOK, PipeOK
<1>4. CASE StrayAnswer
  <2>1. stray' = NoStray /\ UNCHANGED <<alive, exit, main, calls, up>>
    BY <1>4 DEF StrayAnswer
  <2>2. QED
    BY <1>1, <1>2, <2>1, Records, WorkerFacts DEF WorkerOK, PipeOK
<1>5. QED
  BY <1>3, <1>4

LEMMA DieType == ASSUME TypeOK, Die, UNCHANGED crossed PROVE WorkerOK'
<1>1. PICK code \in {"oom", "other"} : Dies(code) /\ UNCHANGED <<down, up>>
  BY DEF Die
<1>2. QED
  BY <1>1, DiesType, WorkerFacts DEF WorkerOK, PipeOK

LEMMA WorkerType == ASSUME TypeOK, Worker PROVE TypeOK'
<1>1. WorkerOK'
  BY BootType, TakeRequestType, FinishCellType, BrokeredType, AnswerType, DieType DEF Worker
<1>2. /\ ReaderOK /\ ProcessOK /\ NamesOK /\ ParentOK
      /\ UNCHANGED <<env, run, result, answer, lock, closing, closed, disabled, reader, conn, gen, repl>>
  BY Parts DEF Worker, parent
<1>3. QED
  BY <1>1, <1>2, PartsNext DEF WorkerOK, ParentOK, ReaderOK, ProcessOK, NamesOK

-----------------------------------------------------------------------------
(* The queue of the lock.  A call that has its worker holds the lock; once *)
(* aclose is in the queue nobody comes behind it, so when it is served the *)
(* queue is empty and stays empty.                                         *)

InHand == \A c \in Cell : run[c] \in {"read", "restart"} => Holds(c)

CloserLast ==
    closing \in {"lock", "join"} =>
        /\ lock # <<>> /\ lock[Len(lock)] = Closer
        /\ \A i \in 1 .. Len(lock) : lock[i] = Closer => i = Len(lock)

CloserOut == closing \in {"no", "done"} => \A i \in 1 .. Len(lock) : lock[i] # Closer

CloserHolds == closing = "join" => Holds(Closer)

FlagSet == closed <=> closing # "no"

Queue == InHand /\ CloserLast /\ CloserOut /\ CloserHolds /\ FlagSet

Gone == closing = "done" => lock = <<>> /\ ~alive /\ conn = 0

\* The answer a thread has brought back, and the one a call has returned.
OwnAnswer == \A c \in Cell : reader[c].at = "got" \/ result[c] = "ok" => answer[c] = c

Inv == TypeOK /\ Queue /\ Gone /\ OwnAnswer

LEMMA LockIsQueue == TypeOK => lock \in Seq(Cell \union {Closer}) /\ run \in RunType
BY Parts DEF ParentOK, RunType

LEMMA ReleasedQueue ==
    ASSUME Inv, NEW c \in Cell, Holds(c), Release, run' \in RunType,
           \A d \in Cell : d # c => run'[d] = run[d],
           run'[c] \in {"done", "cancelled"}, UNCHANGED <<closing, closed>>
    PROVE  Queue' /\ closing' # "done"
<1>1. /\ lock \in Seq(Cell \union {Closer}) /\ lock # <<>> /\ lock[1] = c /\ c # Closer
      /\ lock' = Tail(lock) /\ Len(lock) \in Nat \ {0}
  BY LockIsQueue, ExecutorAssumption DEF Inv, Holds, Release
<1>2. Len(lock') = Len(lock) - 1 /\ \A i \in 1 .. Len(lock) - 1 : lock'[i] = lock[i + 1]
  BY <1>1, TailType
<1>3. lock' \in Seq(Cell \union {Closer})
  BY <1>1, TailType
<1>4. InHand'
  <2>1. \A d \in Cell : run[d] \in {"read", "restart"} => d = c
    BY DEF Inv, Queue, InHand, Holds
  <2>2. QED
    BY <2>1 DEF InHand
<1>5. CloserLast'
  <2> SUFFICES ASSUME closing \in {"lock", "join"}
               PROVE  /\ lock' # <<>> /\ lock'[Len(lock')] = Closer
                      /\ \A i \in 1 .. Len(lock') : lock'[i] = Closer => i = Len(lock')
    BY DEF CloserLast
  <2>1. /\ lock[Len(lock)] = Closer
        /\ \A i \in 1 .. Len(lock) : lock[i] = Closer => i = Len(lock)
    BY DEF Inv, Queue, CloserLast
  <2>2. Len(lock) # 1
    BY <1>1, <2>1
  <2>3. Len(lock') \in Nat \ {0} /\ Len(lock') = Len(lock) - 1
    BY <1>1, <1>2, <2>2
  <2>4. lock'[Len(lock')] = lock[Len(lock)]
    BY <1>2, <2>3
  <2>5. \A i \in 1 .. Len(lock') : lock'[i] = Closer => i = Len(lock')
    <3> SUFFICES ASSUME NEW i \in 1 .. Len(lock'), lock'[i] = Closer PROVE i = Len(lock')
      OBVIOUS
    <3>1. i + 1 \in 1 .. Len(lock) /\ lock[i + 1] = Closer
      BY <1>2, <2>3
    <3>2. i + 1 = Len(lock)
      BY <2>1, <3>1
    <3>3. QED
      BY <2>3, <3>2
  <2>6. QED
    BY <1>3, <2>1, <2>3, <2>4, <2>5
<1>6. CloserOut'
  <2> SUFFICES ASSUME closing \in {"no", "done"}, NEW i \in 1 .. Len(lock') PROVE lock'[i] # Closer
    BY DEF CloserOut
  <2>1. i + 1 \in 1 .. Len(lock) /\ lock'[i] = lock[i + 1]
    BY <1>1, <1>2
  <2>2. QED
    BY <2>1 DEF Inv, Queue, CloserOut
<1>7. CloserHolds' /\ FlagSet'
  BY <1>1 DEF Inv, Queue, CloserHolds, FlagSet, Holds
<1>8. closing # "done"
  BY <1>1 DEF Inv, Gone
<1>9. QED
  BY <1>4, <1>5, <1>6, <1>7, <1>8 DEF Queue

\* A step of the call that holds the lock, which goes on holding it.
LEMMA HeldQueue ==
    ASSUME Inv, NEW c \in Cell, Holds(c), UNCHANGED <<lock, closing, closed>>, run' \in RunType,
           \A d \in Cell : d # c => run'[d] = run[d]
    PROVE  Queue' /\ closing' # "done"
<1>1. InHand'
  BY DEF Inv, Queue, InHand, Holds
<1>2. CloserLast' /\ CloserOut' /\ CloserHolds' /\ FlagSet'
  BY DEF Inv, Queue, CloserLast, CloserOut, CloserHolds, FlagSet, Holds
<1>3. closing # "done"
  BY DEF Inv, Gone, Holds
<1>4. QED
  BY <1>1, <1>2, <1>3 DEF Queue

LEMMA FailRun ==
    ASSUME TypeOK, NEW c \in Cell, NEW error, Fail(c, error)
    PROVE  /\ run' \in RunType /\ run'[c] = "done" /\ \A d \in Cell : d # c => run'[d] = run[d]
BY LockIsQueue DEF Fail, RunType

LEMMA CallQueue == ASSUME Inv, NEW c \in Cell, Call(c) PROVE Queue' /\ Gone'
<1>1. /\ lock \in Seq(Cell \union {Closer}) /\ run \in RunType /\ c # Closer
      /\ UNCHANGED <<closing, closed, alive, conn>>
  BY LockIsQueue, ExecutorAssumption DEF Inv, Call, flags, child, worker
<1>2. CASE closed
  <2>1. Fail(c, "closed") /\ UNCHANGED lock /\ run[c] = "idle"
    BY <1>2 DEF Call
  <2>2. /\ run' \in RunType /\ run'[c] = "done" /\ \A d \in Cell : d # c => run'[d] = run[d]
    BY <2>1, FailRun DEF Inv
  <2>3. QED
    BY <1>1, <2>1, <2>2
       DEF Inv, Queue, InHand, CloserLast, CloserOut, CloserHolds, FlagSet, Holds, Gone
<1>3. CASE ~closed
  <2>1. lock' = Append(lock, c) /\ run' = [run EXCEPT ![c] = "lock"]
    BY <1>3 DEF Call
  <2>2. closing = "no" /\ \A i \in 1 .. Len(lock) : lock[i] # Closer
    BY <1>3 DEF Inv, Queue, FlagSet, CloserOut
  <2>3. /\ Len(lock') = Len(lock) + 1
        /\ \A i \in 1 .. Len(lock) + 1 : lock'[i] = IF i = Len(lock) + 1 THEN c ELSE lock[i]
    BY <1>1, <2>1
  <2>4. \A d : Holds(d) => Holds(d)'
    BY <1>1, <2>1, <2>3 DEF Holds
  <2>5. \A d \in Cell : run'[d] \in {"read", "restart"} => run[d] \in {"read", "restart"}
    BY <1>1, <2>1 DEF RunType
  <2>6. InHand'
    BY <2>4, <2>5 DEF Inv, Queue, InHand
  <2>7. \A i \in 1 .. Len(lock') : lock'[i] # Closer
    BY <1>1, <2>2, <2>3
  <2>8. QED
    BY <1>1, <2>2, <2>6, <2>7
       DEF Inv, Queue, CloserLast, CloserOut, CloserHolds, FlagSet, Gone
<1>4. QED
  BY <1>2, <1>3

LEMMA CancelQueue == ASSUME Inv, NEW c \in Cell, Cancel(c) PROVE Queue' /\ Gone'
<1>1. /\ lock \in Seq(Cell \union {Closer}) /\ run \in RunType /\ c # Closer
      /\ UNCHANGED <<closing, closed, alive, conn>> /\ run' = [run EXCEPT ![c] = "cancelled"]
  BY LockIsQueue, ExecutorAssumption DEF Inv, Cancel, flags, child, worker
<1>2. PICK i \in 1 .. Len(lock) : lock[i] = c /\ lock' = Dropped(lock, i)
  BY DEF Cancel
<1>3. /\ lock' \in Seq(Cell \union {Closer}) /\ Len(lock') = Len(lock) - 1
      /\ \A j \in 1 .. Len(lock) - 1 : lock'[j] = IF j < i THEN lock[j] ELSE lock[j + 1]
  BY <1>1, <1>2, DroppedFacts
<1>4. Len(lock) \in Nat \ {0} /\ i \in Nat \ {0} /\ i <= Len(lock)
  BY <1>1, <1>2
<1>5. closing # "done"
  BY <1>2, <1>4 DEF Inv, Gone
<1>6. \A d : d # c /\ Holds(d) => Holds(d)'
  <2> SUFFICES ASSUME NEW d, d # c, Holds(d) PROVE Holds(d)'
    OBVIOUS
  <2>1. lock[1] = d
    BY <1>1 DEF Holds
  <2>2. i # 1 /\ Len(lock) - 1 \in Nat \ {0} /\ 1 < i
    BY <1>2, <1>4, <2>1
  <2>3. lock'[1] = lock[1] /\ lock' # <<>>
    BY <1>3, <2>2
  <2>4. QED
    BY <1>3, <2>1, <2>3 DEF Holds
<1>7. InHand'
  BY <1>1, <1>6 DEF Inv, Queue, InHand, RunType
<1>8. CloserHolds' /\ FlagSet'
  BY <1>1, <1>6 DEF Inv, Queue, CloserHolds, FlagSet
<1>9. CloserLast'
  <2> SUFFICES ASSUME closing \in {"lock", "join"}
               PROVE  /\ lock' # <<>> /\ lock'[Len(lock')] = Closer
                      /\ \A j \in 1 .. Len(lock') : lock'[j] = Closer => j = Len(lock')
    BY <1>1 DEF CloserLast
  <2>1. /\ lock[Len(lock)] = Closer
        /\ \A j \in 1 .. Len(lock) : lock[j] = Closer => j = Len(lock)
    BY DEF Inv, Queue, CloserLast
  <2>2. i < Len(lock)
    BY <1>1, <1>2, <1>4, <2>1
  <2>3. Len(lock') = Len(lock) - 1 /\ Len(lock') \in Nat \ {0}
    BY <1>3, <1>4, <2>2
  <2>4. lock'[Len(lock')] = lock[Len(lock)]
    BY <1>3, <1>4, <2>2, <2>3
  <2>5. ASSUME NEW j \in 1 .. Len(lock'), lock'[j] = Closer PROVE j = Len(lock')
    <3>1. CASE j < i
      BY <1>3, <1>4, <2>1, <2>2, <2>3, <2>5, <3>1
    <3>2. CASE ~(j < i)
      <4>1. j + 1 \in 1 .. Len(lock) /\ lock[j + 1] = Closer
        BY <1>3, <1>4, <2>3, <2>5, <3>2
      <4>2. QED
        BY <2>1, <2>3, <4>1
    <3>3. QED
      BY <3>1, <3>2
  <2>6. QED
    BY <1>3, <2>1, <2>3, <2>4, <2>5
<1>10. CloserOut'
  <2> SUFFICES ASSUME closing \in {"no", "done"}, NEW j \in 1 .. Len(lock') PROVE lock'[j] # Closer
    BY <1>1 DEF CloserOut
  <2>1. \E k \in 1 .. Len(lock) : lock'[j] = lock[k]
    <3>1. j \in 1 .. Len(lock) /\ j + 1 \in 1 .. Len(lock) /\ j \in 1 .. Len(lock) - 1
      BY <1>3, <1>4
    <3>2. QED
      BY <1>3, <3>1
  <2>2. QED
    BY <2>1 DEF Inv, Queue, CloserOut
<1>11. QED
  BY <1>1, <1>5, <1>7, <1>8, <1>9, <1>10 DEF Queue, Gone

LEMMA CloseQueue == ASSUME Inv, Close \/ CloseAsk \/ CloseKill PROVE Queue' /\ Gone'
<1>1. /\ lock \in Seq(Cell \union {Closer}) /\ run \in RunType
      /\ \A c \in Cell : c # Closer
  BY LockIsQueue, ExecutorAssumption DEF Inv
<1>2. CASE Close
  <2>1. /\ closed' = TRUE /\ closing' = "lock" /\ lock' = Append(lock, Closer)
        /\ closing = "no" /\ UNCHANGED run
    BY <1>2 DEF Close, Inv, Queue, FlagSet
  <2>2. /\ Len(lock') = Len(lock) + 1
        /\ \A i \in 1 .. Len(lock) + 1 : lock'[i] = IF i = Len(lock) + 1 THEN Closer ELSE lock[i]
    BY <1>1, <2>1
  <2>3. \A d : Holds(d) => Holds(d)'
    BY <1>1, <2>1, <2>2 DEF Holds
  <2>4. CloserLast'
    BY <1>1, <2>1, <2>2 DEF Inv, Queue, CloserOut, CloserLast
  <2>5. QED
    BY <2>1, <2>3, <2>4 DEF Inv, Queue, InHand, CloserOut, CloserHolds, FlagSet, Gone
<1>3. CASE CloseAsk
  <2>1. closing = "lock" /\ Holds(Closer) /\ closing' = "join" /\ UNCHANGED <<lock, run, closed>>
    BY <1>3 DEF CloseAsk
  <2>2. QED
    BY <2>1 DEF Inv, Queue, InHand, CloserLast, CloserOut, CloserHolds, FlagSet, Gone, Holds
<1>4. CASE CloseKill
  <2>1. /\ closing = "join" /\ closing' = "done" /\ KillWorker /\ lock' = Tail(lock)
        /\ UNCHANGED <<run, closed>>
    BY <1>4 DEF CloseKill, Release
  <2>2. /\ lock # <<>> /\ lock[1] = Closer
        /\ \A i \in 1 .. Len(lock) : lock[i] = Closer => i = Len(lock)
    BY <1>1, <2>1 DEF Inv, Queue, CloserHolds, CloserLast, Holds
  <2>3. Len(lock) = 1
    <3>1. Len(lock) \in Nat \ {0}
      BY <1>1, <2>2
    <3>2. 1 \in 1 .. Len(lock)
      BY <3>1
    <3>3. QED
      BY <2>2, <3>2
  <2>4. lock' = <<>>
    BY <1>1, <2>1, <2>2, <2>3, TailType
  <2>5. \A c \in Cell : run[c] \notin {"read", "restart"}
    BY <1>1, <2>2 DEF Inv, Queue, InHand, Holds
  <2>6. Gone'
    BY <2>1, <2>4 DEF Gone, KillWorker
  <2>7. QED
    <3>1. \A i \in 1 .. Len(lock') : FALSE
      BY <2>4
    <3>5. FlagSet'
      BY <2>1 DEF Inv, Queue, FlagSet
    <3>2. InHand' /\ CloserOut'
      BY <2>1, <2>5, <3>1 DEF InHand, CloserOut
    <3>3. CloserLast' /\ CloserHolds'
      BY <2>1, <3>1 DEF CloserLast, CloserHolds
    <3>4. QED
      BY <2>6, <3>2, <3>3, <3>5 DEF Queue
<1>5. QED
  BY <1>2, <1>3, <1>4

\* The steps of the call that holds the lock.
LEMMA LoopQueue ==
    ASSUME Inv, NEW c \in Cell, Loop(c) \/ StartBroken(c)
    PROVE  Holds(c) /\ Queue' /\ closing' # "done"
<1>0. run \in RunType /\ TypeOK
  BY LockIsQueue DEF Inv
<1>1. Holds(c)
  BY DEF Loop, Start, StartDisabled, StartBroken, ReturnOk, ReturnFailed, Restart, Inv, Queue, InHand
<1>2. UNCHANGED <<closing, closed>>
  BY DEF Loop, Start, StartDisabled, StartBroken, ReturnOk, ReturnFailed, Restart, flags
<1>3. CASE Start(c)
  <2>1. run' = [run EXCEPT ![c] = "read"] /\ UNCHANGED lock
    BY <1>3 DEF Start
  <2>2. run' \in RunType /\ \A d \in Cell : d # c => run'[d] = run[d]
    BY <1>0, <2>1 DEF RunType
  <2>3. QED
    BY <1>1, <1>2, <2>1, <2>2, HeldQueue
<1>4. CASE ReturnFailed(c) /\ ~(conn = 0 \/ ~alive)
  <2>1. run' = [run EXCEPT ![c] = "restart"] /\ UNCHANGED lock
    BY <1>4 DEF ReturnFailed
  <2>2. run' \in RunType /\ \A d \in Cell : d # c => run'[d] = run[d]
    BY <1>0, <2>1 DEF RunType
  <2>3. QED
    BY <1>1, <1>2, <2>1, <2>2, HeldQueue
<1>5. CASE ReturnOk(c)
  <2>1. run' = [run EXCEPT ![c] = "done"] /\ Release
    BY <1>5 DEF ReturnOk
  <2>2. run' \in RunType /\ run'[c] = "done" /\ \A d \in Cell : d # c => run'[d] = run[d]
    BY <1>0, <2>1 DEF RunType
  <2>3. QED
    BY <1>1, <1>2, <2>1, <2>2, ReleasedQueue
<1>6. CASE \/ StartDisabled(c) \/ StartBroken(c) \/ Restart(c)
           \/ ReturnFailed(c) /\ (conn = 0 \/ ~alive)
  <2>1. Release /\ \E error : Fail(c, error)
    BY <1>6 DEF StartDisabled, StartBroken, Restart, ReturnFailed
  <2>2. run' \in RunType /\ run'[c] = "done" /\ \A d \in Cell : d # c => run'[d] = run[d]
    BY <1>0, <2>1, FailRun
  <2>3. QED
    BY <1>1, <1>2, <2>1, <2>2, ReleasedQueue
<1>7. QED
  BY <1>3, <1>4, <1>5, <1>6 DEF Loop

\* The steps of threads and of the worker start no worker and leave the queue.
LEMMA OthersQueue ==
    ASSUME Inv, (\E c \in Cell : Reader(c)) \/ Worker
    PROVE  Queue' /\ Gone'
<1>1. /\ UNCHANGED <<run, lock, closing, closed, conn>>
      /\ alive' => alive
  <2>1. CASE \E c \in Cell : Reader(c)
    BY <2>1 DEF Reader, Expire, FindDead, Poll, Recv, Serve, ServeExpires, Over, Thread, flags, worker
  <2>2. CASE Worker
    BY <2>2 DEF Worker, parent, Boot, TakeRequest, FinishCell, CellCall, StrayCall, Die,
                CellAnswer, StrayAnswer, Dies, Take, worker
  <2>3. QED
    BY <2>1, <2>2
<1>2. QED
  BY <1>1 DEF Inv, Queue, InHand, CloserLast, CloserOut, CloserHolds, FlagSet, Gone, Holds, TypeOK

-----------------------------------------------------------------------------
(* Answers.                                                                *)

LEMMA Domains ==
    TypeOK => /\ reader \in [Cell -> ThreadRec] /\ answer \in [Cell -> Cell \union {"none"}]
              /\ result \in ResultType
BY Parts DEF ParentOK, ReaderOK, ResultType

LEMMA FailAnswer ==
    ASSUME Inv, NEW c \in Cell, NEW error, error # "ok" \/ error = result[c], Fail(c, error),
           \A d \in Cell : reader'[d].at = "got" => reader[d].at = "got"
    PROVE  OwnAnswer'
<1>1. result' = [result EXCEPT ![c] = error] /\ UNCHANGED answer
  BY DEF Fail
<1>2. QED
  BY <1>1, Domains DEF Inv, OwnAnswer, ResultType

LEMMA CallAnswer ==
    ASSUME Inv, NEW c \in Cell, Call(c) \/ Loop(c) \/ StartBroken(c) \/ Cancel(c)
    PROVE  OwnAnswer'
<1>1. CASE StartDisabled(c) \/ (Call(c) /\ closed) \/ StartBroken(c) \/ Restart(c)
           \/ (ReturnFailed(c) /\ (conn = 0 \/ ~alive))
  <2>1. UNCHANGED reader
    BY <1>1 DEF StartDisabled, Call, StartBroken, Restart, ReturnFailed
  <2>2. \E error : Fail(c, error) /\ (error # "ok" \/ error = result[c])
    BY <1>1, ClassifiedType DEF StartDisabled, Call, StartBroken, Restart, ReturnFailed
  <2>3. QED
    BY <2>1, <2>2, FailAnswer
<1>2. CASE (Call(c) /\ ~closed) \/ Cancel(c)
  <2>1. UNCHANGED <<reader, answer, result>>
    BY <1>2 DEF Call, Cancel
  <2>2. QED
    BY <2>1 DEF Inv, OwnAnswer
<1>3. CASE Start(c)
  <2>1. reader' = [reader EXCEPT ![c] = [at |-> "poll", gen |-> 0, call |-> 0]] /\ UNCHANGED <<answer, result>>
    BY <1>3 DEF Start
  <2>2. \A d \in Cell : reader'[d].at = "got" => reader[d].at = "got"
    BY <2>1, Domains DEF Inv
  <2>3. QED
    BY <2>1, <2>2 DEF Inv, OwnAnswer
<1>4. CASE ReturnOk(c)
  <2>1. reader[c].at = "got" /\ result' = [result EXCEPT ![c] = "ok"] /\ UNCHANGED <<answer, reader>>
    BY <1>4 DEF ReturnOk
  <2>2. QED
    BY <2>1, Domains DEF Inv, OwnAnswer, ResultType
<1>5. CASE ReturnFailed(c) /\ ~(conn = 0 \/ ~alive)
  <2> DEFINE error == IF reader[c].at = "timeout" THEN "timeout" ELSE Classified(exit)
  <2>1. result' = [result EXCEPT ![c] = error] /\ UNCHANGED <<answer, reader>>
    BY <1>5 DEF ReturnFailed
  <2>2. error # "ok"
    BY ClassifiedType
  <2> HIDE DEF error
  <2>3. QED
    BY <2>1, <2>2, Domains DEF Inv, OwnAnswer, ResultType
<1>6. QED
  BY <1>1, <1>2, <1>3, <1>4, <1>5 DEF Loop

\* The thread that keeps a response has seen the id of its own call in it.
LEMMA ReaderAnswer == ASSUME Inv, NEW c \in Cell, Reader(c) PROVE OwnAnswer'
<1>1. CASE /\ Over(c, "got") /\ answer' = [answer EXCEPT ![c] = c]
  <2>1. reader' = [reader EXCEPT ![c] = [NoThread EXCEPT !.at = "got"]] /\ UNCHANGED result
    BY <1>1 DEF Over, Thread
  <2>2. \A d \in Cell : d # c => reader'[d] = reader[d] /\ answer'[d] = answer[d]
    BY <1>1, <2>1, Domains DEF Inv
  <2>3. answer'[c] = c
    BY <1>1, Domains DEF Inv
  <2>4. QED
    BY <2>1, <2>2, <2>3 DEF Inv, OwnAnswer
<1>2. CASE \E t \in ThreadRec : t.at # "got" /\ Thread(c, t) /\ UNCHANGED answer
  <2>1. PICK t \in ThreadRec : t.at # "got" /\ Thread(c, t) /\ UNCHANGED answer
    BY <1>2
  <2>2. reader' = [reader EXCEPT ![c] = t] /\ UNCHANGED <<result, answer>>
    BY <2>1 DEF Thread
  <2>3. \A d \in Cell : reader'[d].at = "got" => reader[d].at = "got"
    BY <2>1, <2>2, Domains DEF Inv
  <2>4. QED
    BY <2>2, <2>3 DEF Inv, OwnAnswer
<1>3. \A a \in {"poll", "timeout", "died"} :
         [NoThread EXCEPT !.at = a] \in ThreadRec /\ [NoThread EXCEPT !.at = a].at # "got"
  BY DEF NoThread, ThreadRec, Ended
<1>4. CASE Expire(c) \/ FindDead(c) \/ ServeExpires(c) \/ Serve(c)
  <2>1. UNCHANGED answer
    BY <1>4 DEF Expire, FindDead, ServeExpires, Serve, seen
  <2>2. \E a \in {"poll", "timeout", "died"} : Thread(c, [NoThread EXCEPT !.at = a])
    BY <1>4 DEF Expire, FindDead, ServeExpires, Serve, Over
  <2>3. QED
    BY <1>2, <1>3, <2>1, <2>2
<1>5. CASE Poll(c)
  <2> DEFINE t == [at |-> "recv", gen |-> conn, call |-> 0]
  <2>1. Thread(c, t) /\ UNCHANGED answer
    BY <1>5 DEF Poll, seen
  <2>2. t \in ThreadRec /\ t.at # "got"
    BY ReaderFacts DEF ThreadRec, Inv
  <2> HIDE DEF t
  <2>3. QED
    BY <1>2, <2>1, <2>2
<1>6. CASE Recv(c)
  <2> DEFINE msg == Head(up)
             t == [at |-> "serve", gen |-> msg.gen, call |-> msg.call]
  <2>1. CASE Over(c, "died") /\ UNCHANGED answer
    BY <1>2, <1>3, <2>1 DEF Over
  <2>2. CASE up # <<>> /\ Thread(c, t) /\ UNCHANGED answer
    <3>1. msg \in Reply
      BY <2>2, ReceivedFacts DEF Inv
    <3>2. t \in ThreadRec /\ t.at # "got"
      BY <3>1 DEF ThreadRec, Reply
    <3> HIDE DEF t
    <3>3. QED
      BY <1>2, <2>2, <3>2
  <2>3. CASE Mine(msg, c) /\ Over(c, "got") /\ answer' = [answer EXCEPT ![c] = msg.cell]
    BY <1>1, <2>3 DEF Mine
  <2>4. CASE Thread(c, [NoThread EXCEPT !.at = "poll"]) /\ UNCHANGED answer
    BY <1>2, <1>3, <2>4
  <2>5. QED
    BY <1>6, <2>1, <2>2, <2>3, <2>4 DEF Recv, seen
<1>7. QED
  BY <1>4, <1>5, <1>6 DEF Reader

LEMMA OtherAnswer == ASSUME Inv, Close \/ CloseAsk \/ CloseKill \/ Worker PROVE OwnAnswer'
<1>1. UNCHANGED <<answer, result, reader>>
  BY DEF Close, CloseAsk, CloseKill, Worker, parent
<1>2. QED
  BY <1>1 DEF Inv, OwnAnswer

-----------------------------------------------------------------------------
LEMMA InitInv == Init => Inv
<1> SUFFICES ASSUME Init PROVE Inv
  OBVIOUS
<1>1. /\ env \in Envs /\ run \in RunType /\ result \in ResultType
      /\ answer \in [Cell -> Cell \union {"none"}]
  BY DEF Init, RunType, ResultType
<1>2. NoThread \in ThreadRec /\ Idle \in MainRec /\ NoStray \in [left : BOOLEAN, call : Nat]
  BY DEF NoThread, ThreadRec, Idle, MainRec, NoStray
<1>9. /\ <<>> \in Seq(Cell \union {Closer}) /\ <<>> \in Seq(Message) /\ <<>> \in Seq(Reply)
  OBVIOUS
<1>3. ParentOK
  BY <1>1, <1>9 DEF Init, ParentOK, RunType, ResultType
<1>4. ReaderOK
  BY <1>1, <1>2 DEF Init, ReaderOK
<1>5. ProcessOK /\ PipeOK /\ NamesOK
  <2>1. PipeOK
    BY <1>9 DEF Init, PipeOK
  <2>2. 0 \in 0 .. 0
    OBVIOUS
  <2>3. ProcessOK /\ NamesOK
    BY <1>2, <2>2 DEF Init, ProcessOK, NamesOK
  <2>4. QED
    BY <2>1, <2>3
<1>6. Queue /\ Gone
  BY DEF Init, Queue, InHand, CloserLast, CloserOut, CloserHolds, FlagSet, Gone
<1>7. OwnAnswer
  BY DEF Init, OwnAnswer, NoThread
<1>8. QED
  BY <1>3, <1>4, <1>5, <1>6, <1>7, Parts DEF Inv

LEMMA StepInv == Inv /\ [Next]_vars => Inv'
<1> SUFFICES ASSUME Inv, [Next]_vars PROVE Inv'
  OBVIOUS
<1>1. CASE UNCHANGED vars
  BY <1>1 DEF vars, Inv, TypeOK, Queue, InHand, CloserLast, CloserOut, CloserHolds, FlagSet,
              Gone, OwnAnswer, Holds
<1>2. ASSUME NEW c \in Cell, Call(c) PROVE Inv'
  BY <1>2, CallType, CallQueue, CallAnswer DEF Inv
<1>3. ASSUME NEW c \in Cell, Loop(c) \/ StartBroken(c) PROVE Inv'
  <2>1. Holds(c) /\ Queue' /\ closing' # "done" /\ OwnAnswer'
    BY <1>3, LoopQueue, CallAnswer
  <2>2. TypeOK'
    BY <1>3, <2>1, StartType, StartDisabledType, StartBrokenType, ReturnOkType, ReturnFailedType,
       RestartType DEF Loop, Inv
  <2>3. QED
    BY <2>1, <2>2 DEF Inv, Gone
<1>4. ASSUME NEW c \in Cell, Cancel(c) PROVE Inv'
  BY <1>4, CancelType, CancelQueue, CallAnswer DEF Inv
<1>5. ASSUME NEW c \in Cell, Reader(c) PROVE Inv'
  BY <1>5, ReaderType, OthersQueue, ReaderAnswer DEF Inv
<1>6. CASE Close \/ CloseAsk \/ CloseKill
  <2>1. closing = "join" => lock # <<>>
    BY DEF Inv, Queue, CloserHolds, Holds
  <2>2. QED
    BY <1>6, <2>1, CloseType, CloseQueue, OtherAnswer DEF Inv
<1>7. CASE Worker
  BY <1>7, WorkerType, OthersQueue, OtherAnswer DEF Inv
<1>8. QED
  BY <1>1, <1>2, <1>3, <1>4, <1>5, <1>6, <1>7 DEF Next

LEMMA SpecInv == Spec => []Inv
<1>1. QED
  BY InitInv, StepInv, PTL DEF Spec

\* Every field keeps its type: in particular the pipe holds messages of the
\* protocol only, whoever dies, is cancelled or replaced (executor.py, worker.py).
THEOREM TypesHold == Spec => []TypeOK
<1>1. Inv => TypeOK
  BY DEF Inv
<1>2. QED
  BY <1>1, SpecInv, PTL

\* run_cell gives a caller the result of its own cell (the id test of
\* _recv_until_result): threads of cancelled calls read the same pipe, and
\* their answers may still be in it.
THEOREM ResultIsOwn == Spec => []OwnResult
<1>1. Inv => OwnResult
  BY DEF Inv, OwnAnswer, OwnResult
<1>2. QED
  BY <1>1, SpecInv, PTL

\* When aclose has returned no worker runs and none is started again, though
\* calls were queued behind the lock, cancelled or restarting a worker
\* (the closed flag and the order of the lock's queue).
THEOREM ClosedStaysClosed == Spec => []ClosedForGood
<1>1. Inv => ClosedForGood
  BY DEF Inv, Gone, ClosedForGood
<1>2. QED
  BY <1>1, SpecInv, PTL


-----------------------------------------------------------------------------
(* What the pipes hold of a call: its request, its brokered calls, its     *)
(* response.                                                               *)

IsRequest(m, d) == m.op = "run" /\ m.cell = d
IsResponse(m, d) == m.type = "response" /\ m.cell = d

AskedIn(s, d) == \E i \in 1 .. Len(s) : IsRequest(s[i], d)
NamedIn(s, d) == \E i \in 1 .. Len(s) : s[i].cell = d
RepliedIn(s, d) == \E i \in 1 .. Len(s) : IsResponse(s[i], d)
AskedOnce(s, d) == \A i, j \in 1 .. Len(s) : IsRequest(s[i], d) /\ IsRequest(s[j], d) => i = j
RepliedLast(s, d) == \A i, j \in 1 .. Len(s) : IsResponse(s[i], d) /\ s[j].cell = d => j <= i

LEMMA AppendElements ==
    ASSUME NEW S, NEW s \in Seq(S), NEW m \in S
    PROVE  /\ Len(Append(s, m)) = Len(s) + 1 /\ Len(s) \in Nat
           /\ Append(s, m)[Len(s) + 1] = m
           /\ \A i \in 1 .. Len(s) : Append(s, m)[i] = s[i]
OBVIOUS

LEMMA TailElements ==
    ASSUME NEW S, NEW s \in Seq(S), s # <<>>
    PROVE  /\ Len(Tail(s)) = Len(s) - 1 /\ Len(s) \in Nat \ {0} /\ Head(s) = s[1]
           /\ \A i \in 1 .. Len(s) - 1 : Tail(s)[i] = s[i + 1]
<1>1. Tail(s) \in Seq(S) /\ Len(Tail(s)) = Len(s) - 1 /\ \A i \in 1 .. Len(Tail(s)) : Tail(s)[i] = s[i + 1]
  BY TailType
<1>2. QED
  BY <1>1

LEMMA AppendRequests ==
    ASSUME NEW S, NEW s \in Seq(S), NEW m \in S, NEW d
    PROVE  /\ AskedIn(Append(s, m), d) <=> AskedIn(s, d) \/ IsRequest(m, d)
           /\ AskedOnce(s, d) /\ (IsRequest(m, d) => ~AskedIn(s, d)) => AskedOnce(Append(s, m), d)
<1> DEFINE t == Append(s, m)
<1>1. /\ Len(t) = Len(s) + 1 /\ Len(s) \in Nat /\ t[Len(s) + 1] = m
      /\ \A i \in 1 .. Len(s) : t[i] = s[i]
  BY AppendElements
<1> HIDE DEF t
<1>2. \A i \in 1 .. Len(t) : i = Len(s) + 1 \/ i \in 1 .. Len(s)
  BY <1>1
<1>3. \A i \in 1 .. Len(s) : i \in 1 .. Len(t)
  BY <1>1
<1>4. Len(s) + 1 \in 1 .. Len(t)
  BY <1>1
<1>5. AskedIn(t, d) <=> AskedIn(s, d) \/ IsRequest(m, d)
  BY <1>1, <1>2, <1>3, <1>4, Zenon DEF AskedIn
<1>6. ASSUME AskedOnce(s, d), IsRequest(m, d) => ~AskedIn(s, d) PROVE AskedOnce(t, d)
  BY <1>1, <1>2, <1>6, Zenon DEF AskedOnce, AskedIn
<1>7. QED
  BY <1>5, <1>6 DEF t

LEMMA TailRequests ==
    ASSUME NEW S, NEW s \in Seq(S), s # <<>>, NEW d
    PROVE  /\ AskedIn(s, d) <=> AskedIn(Tail(s), d) \/ IsRequest(Head(s), d)
           /\ AskedOnce(s, d) => /\ AskedOnce(Tail(s), d)
                                 /\ IsRequest(Head(s), d) => ~AskedIn(Tail(s), d)
<1> DEFINE t == Tail(s)
<1>1. /\ Len(t) = Len(s) - 1 /\ Len(s) \in Nat \ {0} /\ Head(s) = s[1]
      /\ \A i \in 1 .. Len(s) - 1 : t[i] = s[i + 1]
  BY TailElements
<1> HIDE DEF t
<1>2. \A i \in 1 .. Len(t) : i + 1 \in 1 .. Len(s) /\ t[i] = s[i + 1] /\ i + 1 # 1
  BY <1>1
<1>3. \A i \in 1 .. Len(s) : i = 1 \/ \E j \in 1 .. Len(t) : i = j + 1
  <2> SUFFICES ASSUME NEW i \in 1 .. Len(s), i # 1 PROVE \E j \in 1 .. Len(t) : i = j + 1
    OBVIOUS
  <2>1. i - 1 \in 1 .. Len(t) /\ i = (i - 1) + 1
    BY <1>1
  <2>2. QED
    BY <2>1
<1>4. 1 \in 1 .. Len(s)
  BY <1>1
<1>5. AskedIn(s, d) <=> AskedIn(t, d) \/ IsRequest(Head(s), d)
  BY <1>1, <1>2, <1>3, <1>4, Zenon DEF AskedIn
<1>6. ASSUME AskedOnce(s, d) PROVE AskedOnce(t, d)
  <2> SUFFICES ASSUME NEW i \in 1 .. Len(t), NEW j \in 1 .. Len(t),
                      IsRequest(t[i], d), IsRequest(t[j], d)
               PROVE  i = j
    BY DEF AskedOnce
  <2>1. i + 1 = j + 1
    BY <1>2, <1>6 DEF AskedOnce
  <2>2. QED
    BY <2>1
<1>7. ASSUME AskedOnce(s, d), IsRequest(Head(s), d) PROVE ~AskedIn(t, d)
  BY <1>1, <1>2, <1>4, <1>7, Zenon DEF AskedOnce, AskedIn
<1>8. QED
  BY <1>5, <1>6, <1>7 DEF t

LEMMA AppendReplies ==
    ASSUME NEW S, NEW s \in Seq(S), NEW m \in S, NEW d
    PROVE  /\ NamedIn(Append(s, m), d) <=> NamedIn(s, d) \/ m.cell = d
           /\ RepliedIn(Append(s, m), d) <=> RepliedIn(s, d) \/ IsResponse(m, d)
           /\ RepliedLast(s, d) /\ (m.cell = d => ~RepliedIn(s, d)) => RepliedLast(Append(s, m), d)
<1> DEFINE t == Append(s, m)
<1>1. /\ Len(t) = Len(s) + 1 /\ Len(s) \in Nat /\ t[Len(s) + 1] = m
      /\ \A i \in 1 .. Len(s) : t[i] = s[i]
  BY AppendElements
<1> HIDE DEF t
<1>2. \A i \in 1 .. Len(t) : i = Len(s) + 1 \/ i \in 1 .. Len(s)
  BY <1>1
<1>3. \A i \in 1 .. Len(s) : i \in 1 .. Len(t)
  BY <1>1
<1>4. Len(s) + 1 \in 1 .. Len(t)
  BY <1>1
<1>5. NamedIn(t, d) <=> NamedIn(s, d) \/ m.cell = d
  BY <1>1, <1>2, <1>3, <1>4, Zenon DEF NamedIn
<1>6. RepliedIn(t, d) <=> RepliedIn(s, d) \/ IsResponse(m, d)
  BY <1>1, <1>2, <1>3, <1>4, Zenon DEF RepliedIn
<1>7. ASSUME RepliedLast(s, d), m.cell = d => ~RepliedIn(s, d) PROVE RepliedLast(t, d)
  <2> SUFFICES ASSUME NEW i \in 1 .. Len(t), NEW j \in 1 .. Len(t),
                      IsResponse(t[i], d), t[j].cell = d
               PROVE  j <= i
    BY DEF RepliedLast
  <2>1. CASE i = Len(s) + 1
    BY <1>1, <2>1
  <2>2. CASE i \in 1 .. Len(s) /\ j \in 1 .. Len(s)
    BY <1>1, <1>7, <2>2 DEF RepliedLast
  <2>3. CASE i \in 1 .. Len(s) /\ j = Len(s) + 1
    BY <1>1, <1>7, <2>3, Zenon DEF RepliedIn
  <2>4. QED
    BY <1>2, <2>1, <2>2, <2>3
<1>8. QED
  BY <1>5, <1>6, <1>7 DEF t

LEMMA TailReplies ==
    ASSUME NEW S, NEW s \in Seq(S), s # <<>>, NEW d
    PROVE  /\ NamedIn(s, d) <=> NamedIn(Tail(s), d) \/ Head(s).cell = d
           /\ RepliedIn(s, d) <=> RepliedIn(Tail(s), d) \/ IsResponse(Head(s), d)
           /\ RepliedLast(s, d) => /\ RepliedLast(Tail(s), d)
                                   /\ IsResponse(Head(s), d) => ~NamedIn(Tail(s), d)
<1> DEFINE t == Tail(s)
<1>1. /\ Len(t) = Len(s) - 1 /\ Len(s) \in Nat \ {0} /\ Head(s) = s[1]
      /\ \A i \in 1 .. Len(s) - 1 : t[i] = s[i + 1]
  BY TailElements
<1> HIDE DEF t
<1>2. \A i \in 1 .. Len(t) : i + 1 \in 1 .. Len(s) /\ t[i] = s[i + 1] /\ ~(i + 1 <= 1)
  BY <1>1
<1>3. \A i \in 1 .. Len(s) : i = 1 \/ \E j \in 1 .. Len(t) : i = j + 1
  <2> SUFFICES ASSUME NEW i \in 1 .. Len(s), i # 1 PROVE \E j \in 1 .. Len(t) : i = j + 1
    OBVIOUS
  <2>1. i - 1 \in 1 .. Len(t) /\ i = (i - 1) + 1
    BY <1>1
  <2>2. QED
    BY <2>1
<1>4. 1 \in 1 .. Len(s)
  BY <1>1
<1>5. NamedIn(s, d) <=> NamedIn(t, d) \/ Head(s).cell = d
  BY <1>1, <1>2, <1>3, <1>4, Zenon DEF NamedIn
<1>6. RepliedIn(s, d) <=> RepliedIn(t, d) \/ IsResponse(Head(s), d)
  BY <1>1, <1>2, <1>3, <1>4, Zenon DEF RepliedIn
<1>7. ASSUME RepliedLast(s, d) PROVE RepliedLast(t, d)
  <2> SUFFICES ASSUME NEW i \in 1 .. Len(t), NEW j \in 1 .. Len(t),
                      IsResponse(t[i], d), t[j].cell = d
               PROVE  j <= i
    BY DEF RepliedLast
  <2>1. j + 1 <= i + 1
    BY <1>2, <1>7 DEF RepliedLast
  <2>2. QED
    BY <2>1
<1>8. ASSUME RepliedLast(s, d), IsResponse(Head(s), d) PROVE ~NamedIn(t, d)
  BY <1>1, <1>2, <1>4, <1>8, Zenon DEF RepliedLast, NamedIn
<1>9. QED
  BY <1>5, <1>6, <1>7, <1>8 DEF t

LEMMA NothingIn ==
    ASSUME NEW d
    PROVE  /\ ~AskedIn(<<>>, d) /\ ~NamedIn(<<>>, d) /\ ~RepliedIn(<<>>, d)
           /\ AskedOnce(<<>>, d) /\ RepliedLast(<<>>, d)
BY DEF AskedIn, NamedIn, RepliedIn, AskedOnce, RepliedLast

LEMMA OneIn ==
    ASSUME NEW m, NEW d
    PROVE  (AskedIn(<<m>>, d) <=> IsRequest(m, d)) /\ AskedOnce(<<m>>, d)
BY DEF AskedIn, AskedOnce

LEMMA RepliedIsNamed == ASSUME NEW s, NEW d, RepliedIn(s, d) PROVE NamedIn(s, d)
BY DEF RepliedIn, NamedIn, IsResponse

-----------------------------------------------------------------------------
(* A cell's brokered calls reach its own reader.  Where no caller is       *)
(* cancelled, what the worker and its pipe still hold of a cell belongs to *)
(* the call that has the lock and waits: a request is followed by its      *)
(* brokered calls and those by the response, each at most one at a time.   *)

Busy == {"poll", "recv", "serve"}

Listening == \A c \in Cell : reader[c].at \in Busy => run[c] = "read"

\* Something of cell d is with the worker or on its way.
OnWay(d) == main.cell = d \/ AskedIn(down, d) \/ NamedIn(up, d)

\* The order of what is with the worker or on its way.
InOrder(d) ==
    /\ AskedIn(down, d) => main.cell # d /\ ~NamedIn(up, d)
    /\ AskedOnce(down, d)
    /\ RepliedIn(up, d) => main.cell # d
    /\ RepliedLast(up, d)

Waited(d) == OnWay(d) => run[d] = "read" /\ reader[d].at # "got"

Own == Listening /\ (\A d \in Cell : Waited(d) /\ InOrder(d)) /\ "served" \notin crossed

LEMMA OwnTypes ==
    TypeOK => /\ reader \in [Cell -> ThreadRec] /\ run \in RunType /\ main \in MainRec
              /\ down \in Seq(Message) /\ up \in Seq(Reply)
BY Parts DEF ParentOK, ReaderOK, ProcessOK, PipeOK, RunType

LEMMA NoneIsNoCell == "none" \notin Cell
BY ExecutorAssumption

\* The call that reads is the one that holds the lock.
LEMMA OneReads ==
    ASSUME Inv, NEW c \in Cell, NEW d \in Cell, Holds(c) \/ run[c] = "read", run[d] = "read"
    PROVE  c = d
BY DEF Inv, Queue, InHand, Holds

\* Steps of the parent that touch neither the pipe nor a thread.
LEMMA ParentOwn ==
    ASSUME Inv, Own, UNCHANGED <<reader, main, down, up, crossed>>,
           \A d \in Cell : \/ run'[d] = run[d]
                           \/ run[d] # "read"
                           \/ ~OnWay(d) /\ reader[d].at \notin Busy
    PROVE  Own'
<1> SUFFICES ASSUME NEW d \in Cell
             PROVE  /\ reader'[d].at \in Busy => run'[d] = "read"
                    /\ Waited(d)' /\ InOrder(d)'
  BY DEF Own, Listening
<1>1. InOrder(d)' /\ (OnWay(d)' <=> OnWay(d))
  BY DEF Own, InOrder, OnWay
<1>2. CASE run'[d] = run[d]
  BY <1>1, <1>2 DEF Own, Listening, Waited
<1>3. CASE run[d] # "read"
  BY <1>1, <1>3 DEF Own, Listening, Waited
<1>4. CASE ~OnWay(d) /\ reader[d].at \notin Busy
  BY <1>1, <1>4 DEF Own, Waited
<1>5. QED
  BY <1>2, <1>3, <1>4

\* A new worker, or none: nothing of any cell is left.
LEMMA ClearedOwn ==
    ASSUME Inv, Own, main' \in {Idle, Booting}, down' = <<>>, up' = <<>>, UNCHANGED <<reader, crossed>>,
           \A d \in Cell : reader[d].at \in Busy => run'[d] = "read"
    PROVE  Own'
<1> SUFFICES ASSUME NEW d \in Cell PROVE Waited(d)' /\ InOrder(d)'
  BY DEF Own, Listening
<1>1. main'.cell # d
  BY NoneIsNoCell DEF Idle, Booting
<1>2. ~AskedIn(down', d) /\ ~NamedIn(up', d) /\ ~RepliedIn(up', d) /\ AskedOnce(down', d) /\ RepliedLast(up', d)
  BY NothingIn
<1>3. QED
  BY <1>1, <1>2 DEF Waited, OnWay, InOrder

LEMMA RestartedClears ==
    ASSUME Restarted \/ KillWorker
    PROVE  main' \in {Idle, Booting} /\ down' = <<>> /\ up' = <<>>
BY DEF Restarted, KillWorker, StartWorker

LEMMA StartOwn == ASSUME Inv, Own, NEW c \in Cell, Start(c) PROVE Own'
<1>1. /\ run[c] = "lock" /\ Holds(c) /\ run' = [run EXCEPT ![c] = "read"]
      /\ reader' = [reader EXCEPT ![c] = [at |-> "poll", gen |-> 0, call |-> 0]]
      /\ UNCHANGED crossed
  BY DEF Start
<1>2. /\ run'[c] = "read" /\ reader'[c].at = "poll"
      /\ \A d \in Cell : d # c => run'[d] = run[d] /\ reader'[d] = reader[d]
  BY <1>1, OwnTypes DEF Inv, RunType
<1>3. Listening'
  BY <1>2 DEF Own, Listening
<1>4. \A d \in Cell : run[d] # "read"
  BY <1>1, OneReads
<1>5. \A d \in Cell : ~OnWay(d)
  BY <1>4 DEF Own, Waited
<1>6. PICK g : \/ /\ main' = Booting /\ up' = <<>>
                  /\ down' = <<[op |-> "run", cell |-> c, call |-> 0, gen |-> g]>>
               \/ /\ UNCHANGED <<main, up>> /\ g = gen
                  /\ down' = Append(down, [op |-> "run", cell |-> c, call |-> 0, gen |-> g])
  BY DEF Start, StartWorker, worker
<1> DEFINE m == [op |-> "run", cell |-> c, call |-> 0, gen |-> g]
<1>7. \A d \in Cell : IsRequest(m, d) <=> d = c
  BY DEF IsRequest
<1>8. g = gen => m \in Message
  BY OwnTypes, MessageType, Parts DEF Inv, ProcessOK
<1> HIDE DEF m
<1>9. ASSUME NEW d \in Cell
      PROVE  /\ main'.cell # d /\ ~NamedIn(up', d) /\ ~RepliedIn(up', d) /\ RepliedLast(up', d)
             /\ (AskedIn(down', d) <=> d = c) /\ AskedOnce(down', d)
  <2>1. CASE main' = Booting /\ up' = <<>> /\ down' = <<m>>
    <3>1. main'.cell # d
      BY <2>1, NoneIsNoCell DEF Idle, Booting
    <3>2. QED
      BY <1>7, <2>1, <3>1, NothingIn, OneIn
  <2>2. CASE UNCHANGED <<main, up>> /\ down' = Append(down, m) /\ g = gen
    <3>1. main.cell # d /\ ~AskedIn(down, d) /\ ~NamedIn(up, d) /\ AskedOnce(down, d) /\ RepliedLast(up, d)
      BY <1>5 DEF OnWay, Own, InOrder
    <3>2. AskedIn(down', d) <=> d = c
      BY <1>7, <1>8, <2>2, <3>1, OwnTypes, AppendRequests DEF Inv
    <3>3. AskedOnce(down', d)
      BY <1>8, <2>2, <3>1, OwnTypes, AppendRequests DEF Inv
    <3>4. QED
      BY <2>2, <3>1, <3>2, <3>3, RepliedIsNamed
  <2>3. QED
    BY <1>6, <2>1, <2>2 DEF m
<1>10. \A d \in Cell : Waited(d)' /\ InOrder(d)'
  BY <1>2, <1>9 DEF Waited, OnWay, InOrder
<1>11. QED
  BY <1>1, <1>3, <1>10 DEF Own

LEMMA LoopOwn ==
    ASSUME Inv, Orderly, Own, NEW c \in Cell, Call(c) \/ Loop(c) \/ StartBroken(c) \/ Cancel(c)
    PROVE  Own'
<1>0. run \in RunType /\ TypeOK
  BY OwnTypes DEF Inv
<1>1. CASE Call(c) \/ StartDisabled(c)
  <2>1. /\ run[c] # "read" /\ UNCHANGED <<reader, main, down, up, crossed>>
        /\ \E p : run' = [run EXCEPT ![c] = p]
    BY <1>1 DEF Call, StartDisabled, Fail, child, worker
  <2>2. \A d \in Cell : d # c => run'[d] = run[d]
    BY <1>0, <2>1 DEF RunType
  <2>3. QED
    BY <2>1, <2>2, ParentOwn
<1>2. CASE ReturnOk(c)
  <2>1. /\ reader[c].at = "got" /\ run' = [run EXCEPT ![c] = "done"]
        /\ UNCHANGED <<reader, main, down, up, crossed>>
    BY <1>2 DEF ReturnOk, child, worker
  <2>2. ~OnWay(c) /\ reader[c].at \notin Busy
    BY <2>1 DEF Own, Waited, Busy
  <2>3. \A d \in Cell : d # c => run'[d] = run[d]
    BY <1>0, <2>1 DEF RunType
  <2>4. QED
    BY <2>1, <2>2, <2>3, ParentOwn
<1>3. CASE ReturnFailed(c) \/ Restart(c)
  <2>1. /\ Restarted \/ KillWorker
        /\ UNCHANGED <<reader, crossed>>
    BY <1>3 DEF ReturnFailed, Restart
  <2>2. \E p : run' = [run EXCEPT ![c] = p]
    BY <1>3 DEF ReturnFailed, Restart, Fail
  <2>3. reader[c].at \notin Busy
    BY <1>3 DEF ReturnFailed, Restart, Own, Listening, Busy
  <2>4. \A d \in Cell : d # c => run'[d] = run[d]
    BY <1>0, <2>2 DEF RunType
  <2>5. \A d \in Cell : reader[d].at \in Busy => run'[d] = "read"
    BY <2>3, <2>4 DEF Own, Listening
  <2>6. QED
    BY <2>1, <2>5, RestartedClears, ClearedOwn
<1>4. ~StartBroken(c) /\ ~Cancel(c)
  BY DEF Orderly, StartBroken, Cancel
<1>5. QED
  BY <1>1, <1>2, <1>3, <1>4, StartOwn DEF Loop

\* A message that is no request goes down.
LEMMA SentOwn ==
    ASSUME Inv, Own,
           \/ down' = down
           \/ \E m \in Message : m.op # "run" /\ down' = Append(down, m),
           UNCHANGED <<run, main, up, crossed>>, reader' \in [Cell -> ThreadRec],
           \A d \in Cell : reader'[d].at \in Busy => reader[d].at \in Busy,
           \A d \in Cell : reader'[d].at = "got" => reader[d].at = "got"
    PROVE  Own'
<1> SUFFICES ASSUME NEW d \in Cell PROVE Waited(d)' /\ InOrder(d)'
  BY DEF Own, Listening
<1>1. (AskedIn(down', d) <=> AskedIn(down, d)) /\ (AskedOnce(down, d) => AskedOnce(down', d))
  <2>1. ASSUME NEW m \in Message, m.op # "run", down' = Append(down, m)
        PROVE  (AskedIn(down', d) <=> AskedIn(down, d)) /\ (AskedOnce(down, d) => AskedOnce(down', d))
    BY <2>1, OwnTypes, AppendRequests DEF Inv, IsRequest
  <2>2. QED
    BY <2>1
<1>2. QED
  BY <1>1 DEF Own, Waited, OnWay, InOrder

LEMMA CloseOwn == ASSUME Inv, Own, Close \/ CloseAsk \/ CloseKill PROVE Own'
<1>1. CASE Close
  <2>1. UNCHANGED <<run, reader, main, down, up, crossed>>
    BY <1>1 DEF Close, child, worker
  <2>2. QED
    BY <2>1, ParentOwn
<1>2. CASE CloseKill
  <2>1. KillWorker /\ UNCHANGED <<run, reader, crossed>>
    BY <1>2 DEF CloseKill
  <2>2. QED
    BY <2>1, RestartedClears, ClearedOwn DEF Own, Listening
<1>3. CASE CloseAsk
  <2> DEFINE m == [op |-> "shutdown", cell |-> "none", call |-> 0, gen |-> gen]
  <2>1. UNCHANGED <<run, reader, main, up, crossed>> /\ (down' = down \/ down' = Append(down, m))
    BY <1>3 DEF CloseAsk, worker
  <2>2. m \in Message
    BY MessageType, Parts DEF Inv, ProcessOK
  <2>3. m.op # "run"
    OBVIOUS
  <2> HIDE DEF m
  <2>4. reader' \in [Cell -> ThreadRec]
    BY <2>1, OwnTypes DEF Inv
  <2>5. QED
    BY <2>1, <2>2, <2>3, <2>4, SentOwn
<1>4. QED
  BY <1>1, <1>2, <1>3

\* A thread moves on without a message.
LEMMA ThreadOwn ==
    ASSUME Inv, Own, NEW c \in Cell, NEW t \in ThreadRec, Thread(c, t), UNCHANGED <<up, crossed>>,
           \/ down' = down
           \/ \E m \in Message : m.op # "run" /\ down' = Append(down, m),
           reader[c].at \in Busy, t.at # "got"
    PROVE  Own'
<1>1. reader' = [reader EXCEPT ![c] = t] /\ UNCHANGED <<run, main>>
  BY DEF Thread, worker
<1>2. /\ reader' \in [Cell -> ThreadRec] /\ reader'[c] = t
      /\ \A d \in Cell : d # c => reader'[d] = reader[d]
  BY <1>1, OwnTypes DEF Inv
<1>3. QED
  BY <1>1, <1>2, SentOwn

\* The thread of c takes the next message, which is of c or of no cell.
LEMMA RecvOwn == ASSUME Inv, Own, NEW c \in Cell, Recv(c) PROVE Own'
<1> DEFINE msg == Head(up)
<1>1. reader[c].at \in Busy /\ run[c] = "read"
  BY DEF Recv, Busy, Own, Listening
<1>2. UNCHANGED <<run, main, down>>
  BY DEF Recv, Over, Thread, worker, seen
<1>3. CASE reader[c].gen # conn \/ (up = <<>> /\ ~alive)
  <2>1. Thread(c, [NoThread EXCEPT !.at = "died"]) /\ UNCHANGED <<up, crossed>>
    BY <1>3 DEF Recv, Over, seen
  <2>2. [NoThread EXCEPT !.at = "died"] \in ThreadRec /\ [NoThread EXCEPT !.at = "died"].at # "got"
    BY DEF NoThread, ThreadRec, Ended
  <2>3. QED
    BY <1>1, <1>2, <2>1, <2>2, ThreadOwn
<1>4. CASE ~(reader[c].gen # conn \/ (up = <<>> /\ ~alive))
  <2>1. up # <<>> /\ up' = Tail(up)
    BY <1>4 DEF Recv
  <2>2. msg \in Reply
    BY <2>1, ReceivedFacts DEF Inv
  <2>3. PICK t : /\ reader' = [reader EXCEPT ![c] = t]
                 /\ t.at = "got" => IsResponse(msg, c)
                 /\ crossed' = crossed \/ (crossed' = crossed \union {"served"} /\ msg.cell \notin {c, "none"})
    <3>1. \/ /\ Thread(c, [at |-> "serve", gen |-> msg.gen, call |-> msg.call])
             /\ crossed' = IF msg.cell \in {c, "none"} THEN crossed ELSE crossed \union {"served"}
          \/ Thread(c, [NoThread EXCEPT !.at = "died"]) /\ UNCHANGED crossed
          \/ Thread(c, [NoThread EXCEPT !.at = "got"]) /\ IsResponse(msg, c) /\ UNCHANGED crossed
          \/ Thread(c, [NoThread EXCEPT !.at = "poll"]) /\ UNCHANGED crossed
      BY <1>4 DEF Recv, Over, Mine, IsResponse
    <3>2. \A a \in {"died", "poll"} : [NoThread EXCEPT !.at = a].at # "got"
      BY DEF NoThread
    <3> HIDE DEF msg
    <3>3. QED
      BY <3>1, <3>2 DEF Thread
  <2>4. reader'[c] = t /\ \A d \in Cell : d # c => reader'[d] = reader[d]
    BY <2>3, OwnTypes DEF Inv
  <2>5. ASSUME NEW d \in Cell
        PROVE  /\ NamedIn(up, d) <=> NamedIn(up', d) \/ msg.cell = d
               /\ RepliedIn(up, d) <=> RepliedIn(up', d) \/ IsResponse(msg, d)
               /\ RepliedLast(up', d) /\ (IsResponse(msg, d) => ~NamedIn(up', d))
    BY <2>1, OwnTypes, TailReplies DEF Inv, Own, InOrder
  <2>6. \A d \in Cell : InOrder(d)' /\ (OnWay(d)' => OnWay(d))
    BY <1>2, <2>5 DEF Own, InOrder, OnWay
  <2>7. IsResponse(msg, c) => ~OnWay(c)'
    BY <1>2, <2>5 DEF Own, InOrder, OnWay, IsResponse
  <2>8. ASSUME NEW d \in Cell PROVE Waited(d)'
    <3>1. CASE d = c
      BY <1>2, <2>3, <2>4, <2>6, <2>7, <3>1 DEF Own, Waited
    <3>2. CASE d # c
      BY <1>2, <2>4, <2>6, <3>2 DEF Own, Waited
    <3>3. QED
      BY <3>1, <3>2
  <2>9. msg.cell \in {c, "none"}
    <3>1. msg.cell \in Cell \union {"none"}
      BY <2>2 DEF Reply
    <3>2. ASSUME NEW d \in Cell, msg.cell = d PROVE d = c
      <4>1. run[d] = "read"
        BY <2>5, <3>2 DEF Own, Waited, OnWay
      <4>2. QED
        BY <1>1, <4>1, OneReads
    <3>3. QED
      BY <3>1, <3>2
  <2>10. Listening'
    BY <1>1, <1>2, <2>4 DEF Own, Listening
  <2>11. QED
    BY <2>3, <2>6, <2>8, <2>9, <2>10 DEF Own
<1>5. QED
  BY <1>3, <1>4

LEMMA ReaderOwn == ASSUME Inv, Own, NEW c \in Cell, Reader(c) PROVE Own'
<1>1. \A a \in {"poll", "timeout", "died"} :
         [NoThread EXCEPT !.at = a] \in ThreadRec /\ [NoThread EXCEPT !.at = a].at # "got"
  BY DEF NoThread, ThreadRec, Ended
<1>2. CASE Expire(c) \/ FindDead(c) \/ ServeExpires(c)
  <2>1. reader[c].at \in Busy /\ UNCHANGED <<up, down, crossed>>
    BY <1>2 DEF Expire, FindDead, ServeExpires, seen, Busy
  <2>2. \E a \in {"poll", "timeout", "died"} : Thread(c, [NoThread EXCEPT !.at = a])
    BY <1>2 DEF Expire, FindDead, ServeExpires, Over
  <2>3. QED
    BY <1>1, <2>1, <2>2, ThreadOwn
<1>3. CASE Poll(c)
  <2> DEFINE t == [at |-> "recv", gen |-> conn, call |-> 0]
  <2>1. Thread(c, t) /\ UNCHANGED <<down, up, crossed>> /\ reader[c].at \in Busy
    BY <1>3 DEF Poll, seen, Busy
  <2>2. t \in ThreadRec /\ t.at # "got"
    BY ReaderFacts DEF ThreadRec, Inv
  <2> HIDE DEF t
  <2>3. QED
    BY <2>1, <2>2, ThreadOwn
<1>4. CASE Serve(c)
  <2> DEFINE m == [op |-> "tool_result", cell |-> "none", call |-> reader[c].call, gen |-> reader[c].gen]
  <2>1. /\ reader[c].at \in Busy /\ UNCHANGED <<up, crossed>>
        /\ down' = down \/ down' = Append(down, m)
        /\ \E a \in {"poll", "timeout", "died"} : Thread(c, [NoThread EXCEPT !.at = a])
    BY <1>4 DEF Serve, Over, Busy
  <2>2. reader[c].call \in Nat /\ reader[c].gen \in Nat
    BY ReaderFacts DEF ThreadRec, Inv
  <2>3. m \in Message /\ m.op # "run"
    BY <2>2, MessageType
  <2> HIDE DEF m
  <2>4. PICK a \in {"poll", "timeout", "died"} : Thread(c, [NoThread EXCEPT !.at = a])
    BY <2>1
  <2>5. [NoThread EXCEPT !.at = a] \in ThreadRec /\ [NoThread EXCEPT !.at = a].at # "got"
    BY <1>1
  <2>6. QED
    BY <2>1, <2>3, <2>4, <2>5, ThreadOwn
<1>5. QED
  BY <1>2, <1>3, <1>4, RecvOwn DEF Reader

\* What the worker sends and takes.
LEMMA SendFacts ==
    ASSUME TypeOK, NEW k \in {"tool_call", "response", "fatal"}, NEW x \in Cell \union {"none"},
           NEW n \in Nat, Send(k, x, n), NEW d \in Cell
    PROVE  /\ NamedIn(up', d) <=> NamedIn(up, d) \/ x = d
           /\ RepliedIn(up', d) <=> RepliedIn(up, d) \/ (k = "response" /\ x = d)
           /\ RepliedLast(up, d) /\ (x = d => ~RepliedIn(up, d)) => RepliedLast(up', d)
<1> DEFINE m == [type |-> k, cell |-> x, call |-> n, gen |-> gen]
<1>1. m \in Reply
  BY Parts, ReplyType DEF ProcessOK
<1>2. m.cell = x /\ (IsResponse(m, d) <=> k = "response" /\ x = d)
  BY DEF IsResponse
<1>3. up' = Append(up, m)
  BY DEF Send
<1> HIDE DEF m
<1>4. QED
  BY <1>1, <1>2, <1>3, OwnTypes, AppendReplies

LEMMA TakenFacts ==
    ASSUME TypeOK, Take, NEW d
    PROVE  /\ AskedIn(down, d) <=> AskedIn(down', d) \/ IsRequest(Head(down), d)
           /\ AskedOnce(down, d) => /\ AskedOnce(down', d)
                                    /\ IsRequest(Head(down), d) => ~AskedIn(down', d)
BY OwnTypes, TailRequests DEF Take

\* It is enough to look at each cell's share of the worker and its pipe.
LEMMA WorkerKeeps ==
    ASSUME Own, UNCHANGED <<run, reader>>, "served" \notin crossed',
           \A d \in Cell : InOrder(d)' /\ (OnWay(d)' => OnWay(d))
    PROVE  Own'
BY DEF Own, Listening, Waited

LEMMA BootOwn ==
    ASSUME Inv, Own, Boot, NEW d \in Cell
    PROVE  InOrder(d)' /\ (OnWay(d)' => OnWay(d))
<1>1. main' = Idle /\ UNCHANGED down
  BY DEF Boot, Dies
<1>2. main'.cell # d
  BY <1>1, NoneIsNoCell DEF Idle
<1>3. CASE UNCHANGED up
  BY <1>1, <1>2, <1>3 DEF Own, InOrder, OnWay
<1>4. CASE Send("fatal", "none", 0)
  <2>1. (NamedIn(up', d) <=> NamedIn(up, d)) /\ (RepliedIn(up', d) <=> RepliedIn(up, d))
        /\ (RepliedLast(up, d) => RepliedLast(up', d))
    BY <1>4, SendFacts, NoneIsNoCell DEF Inv
  <2>2. QED
    BY <1>1, <1>2, <2>1 DEF Own, InOrder, OnWay
<1>5. QED
  BY <1>3, <1>4 DEF Boot

LEMMA TakeRequestOwn ==
    ASSUME Inv, Own, TakeRequest, NEW d \in Cell
    PROVE  InOrder(d)' /\ (OnWay(d)' => OnWay(d))
<1> DEFINE msg == Head(down)
<1>1. Take /\ msg \in Message
  BY TakeFacts DEF TakeRequest, Inv
<1>2. /\ AskedIn(down, d) <=> AskedIn(down', d) \/ IsRequest(msg, d)
      /\ AskedOnce(down', d) /\ (IsRequest(msg, d) => ~AskedIn(down', d))
  BY <1>1, TakenFacts DEF Own, InOrder, Inv
<1>3. CASE /\ msg.op = "run" /\ main' = [at |-> "run", cell |-> msg.cell, call |-> 0]
           /\ UNCHANGED up
  <2>1. main'.cell = d <=> IsRequest(msg, d)
    BY <1>3 DEF IsRequest
  <2>2. RepliedIn(up, d) => NamedIn(up, d)
    BY RepliedIsNamed
  <2>3. QED
    BY <1>2, <1>3, <2>1, <2>2 DEF Own, InOrder, OnWay
<1>4. CASE Dies("other") /\ UNCHANGED up
  <2>1. main'.cell # d
    BY <1>4, NoneIsNoCell DEF Dies, Idle
  <2>2. QED
    BY <1>2, <1>4, <2>1 DEF Own, InOrder, OnWay
<1>5. CASE Send("response", "none", 0) /\ UNCHANGED main
  <2>1. (NamedIn(up', d) <=> NamedIn(up, d)) /\ (RepliedIn(up', d) <=> RepliedIn(up, d))
        /\ (RepliedLast(up, d) => RepliedLast(up', d))
    BY <1>5, SendFacts, NoneIsNoCell DEF Inv
  <2>2. QED
    BY <1>2, <1>5, <2>1 DEF Own, InOrder, OnWay
<1>6. QED
  BY <1>3, <1>4, <1>5 DEF TakeRequest, worker

LEMMA CellSendsOwn ==
    ASSUME Inv, Own, FinishCell \/ CellCall \/ StrayCall, NEW d \in Cell
    PROVE  InOrder(d)' /\ (OnWay(d)' => OnWay(d))
<1>1. UNCHANGED down
  BY DEF FinishCell, CellCall, StrayCall
<1>2. main \in MainRec /\ main.cell \in Cell \union {"none"} /\ calls \in Nat /\ calls + 1 \in Nat
  BY WorkerFacts DEF WorkerOK, MainRec, Inv
<1>3. CASE FinishCell
  <2>1. Send("response", main.cell, 0) /\ main' = Idle
    BY <1>3 DEF FinishCell
  <2>2. main'.cell # d
    BY <2>1, NoneIsNoCell DEF Idle
  <2>3. /\ NamedIn(up', d) <=> NamedIn(up, d) \/ main.cell = d
        /\ RepliedLast(up, d) /\ (main.cell = d => ~RepliedIn(up, d)) => RepliedLast(up', d)
    BY <1>2, <2>1, SendFacts DEF Inv
  <2>4. QED
    BY <1>1, <2>2, <2>3 DEF Own, InOrder, OnWay
<1>4. CASE CellCall
  <2>1. Send("tool_call", main.cell, calls + 1) /\ main' = [main EXCEPT !.at = "rpc", !.call = calls + 1]
    BY <1>4 DEF CellCall
  <2>2. main'.cell = main.cell
    BY <1>2, <2>1 DEF MainRec
  <2>3. /\ NamedIn(up', d) <=> NamedIn(up, d) \/ main.cell = d
        /\ RepliedIn(up', d) <=> RepliedIn(up, d)
        /\ RepliedLast(up, d) /\ (main.cell = d => ~RepliedIn(up, d)) => RepliedLast(up', d)
    BY <1>2, <2>1, SendFacts DEF Inv
  <2>4. QED
    BY <1>1, <2>2, <2>3 DEF Own, InOrder, OnWay
<1>5. CASE StrayCall
  <2>1. Send("tool_call", "none", calls + 1) /\ UNCHANGED main
    BY <1>5 DEF StrayCall
  <2>2. /\ NamedIn(up', d) <=> NamedIn(up, d)
        /\ RepliedIn(up', d) <=> RepliedIn(up, d)
        /\ RepliedLast(up, d) => RepliedLast(up', d)
    BY <1>2, <2>1, SendFacts, NoneIsNoCell DEF Inv
  <2>3. QED
    BY <1>1, <2>1, <2>2 DEF Own, InOrder, OnWay
<1>6. QED
  BY <1>3, <1>4, <1>5

LEMMA AnswerOwn ==
    ASSUME Inv, Own, CellAnswer \/ StrayAnswer \/ Die, NEW d \in Cell
    PROVE  InOrder(d)' /\ (OnWay(d)' => OnWay(d))
<1>1. CASE CellAnswer \/ StrayAnswer
  <2>1. Take /\ UNCHANGED up /\ (main' = main \/ main' = [main EXCEPT !.at = "run", !.call = 0])
    BY <1>1 DEF CellAnswer, StrayAnswer
  <2>2. main'.cell = main.cell
    BY <2>1, OwnTypes DEF MainRec, Inv
  <2>3. (AskedIn(down', d) => AskedIn(down, d)) /\ AskedOnce(down', d)
    BY <2>1, TakenFacts DEF Own, InOrder, Inv
  <2>4. QED
    BY <2>1, <2>2, <2>3 DEF Own, InOrder, OnWay
<1>2. CASE Die
  <2>1. main' = Idle /\ UNCHANGED <<down, up>>
    BY <1>2 DEF Die, Dies
  <2>2. main'.cell # d
    BY <2>1, NoneIsNoCell DEF Idle
  <2>3. QED
    BY <2>1, <2>2 DEF Own, InOrder, OnWay
<1>3. QED
  BY <1>1, <1>2

LEMMA WorkerOwn == ASSUME Inv, Own, Worker PROVE Own'
<1>1. UNCHANGED <<run, reader>>
  BY DEF Worker, parent
<1>2. "served" \notin crossed'
  BY DEF Worker, CellAnswer, StrayAnswer, Misread, Own
<1>3. \A d \in Cell : InOrder(d)' /\ (OnWay(d)' => OnWay(d))
  BY BootOwn, TakeRequestOwn, CellSendsOwn, AnswerOwn DEF Worker
<1>4. QED
  BY <1>1, <1>2, <1>3, WorkerKeeps

LEMMA InitOwn == ASSUME Init PROVE Own
<1>1. \A d \in Cell : ~AskedIn(<<>>, d) /\ ~NamedIn(<<>>, d) /\ ~RepliedIn(<<>>, d)
                      /\ AskedOnce(<<>>, d) /\ RepliedLast(<<>>, d)
  BY NothingIn
<1>2. \A d \in Cell : Idle.cell # d
  BY NoneIsNoCell DEF Idle
<1>3. \A d \in Cell : reader[d].at \notin Busy
  BY DEF Init, NoThread, Busy
<1>4. main = Idle /\ down = <<>> /\ up = <<>> /\ crossed = {}
  BY DEF Init
<1>5. QED
  BY <1>1, <1>2, <1>3, <1>4 DEF Own, Listening, Waited, OnWay, InOrder

LEMMA OrderlyStays == [Next]_vars => env' = env
BY DEF Next, vars, Call, Loop, Start, StartDisabled, StartBroken, ReturnOk, ReturnFailed, Restart,
       Cancel, Reader, Expire, FindDead, Poll, Recv, Serve, ServeExpires, Over, Thread, Close,
       CloseAsk, CloseKill, Worker, parent, flags

LEMMA StepOwn == ASSUME Inv, Orderly, Own, [Next]_vars PROVE Own'
<1>1. CASE UNCHANGED vars
  BY <1>1 DEF vars, Own, Listening, Waited, OnWay, InOrder
<1>2. CASE Next
  BY <1>2, LoopOwn, ReaderOwn, CloseOwn, WorkerOwn DEF Next
<1>3. QED
  BY <1>1, <1>2

LEMMA SpecOwn == Spec => [](Orderly => Own)
<1>1. Init => (Orderly => Own)
  BY InitOwn
<1>2. Inv /\ (Orderly => Own) /\ [Next]_vars => (Orderly => Own)'
  <2>1. [Next]_vars => (Orderly' <=> Orderly)
    BY OrderlyStays DEF Orderly
  <2>2. QED
    BY <2>1, StepOwn
<1>3. QED
  BY <1>1, <1>2, SpecInv, PTL DEF Spec

\* Nothing of one cell reaches the caller of another: the result run_cell hands
\* back is its own cell's, and, where no caller was cancelled, the brokered
\* calls its thread serves are its own cell's or of a thread some cell left
\* behind (the id test of _recv_until_result; the worker and its pipe are
\* replaced whenever run_cell fails).
THEOREM CellsAreApart == Spec => []OwnCell
<1>1. Inv => OwnResult
  BY DEF Inv, OwnAnswer, OwnResult
<1>2. (Orderly => Own) => ServedForOwnCell
  BY DEF Own, ServedForOwnCell
<1>3. Inv /\ (Orderly => Own) => OwnCell
  BY <1>1, <1>2 DEF OwnCell
<1>4. QED
  BY <1>3, SpecInv, SpecOwn, PTL

-----------------------------------------------------------------------------
(* The persistent namespace.  The names a caller relies on are those of    *)
(* the newest worker; when that one is gone or going, a cell that will     *)
(* fail, or aclose, holds the lock.                                        *)

Answered(c) == run[c] = "read" /\ (reader[c].at = "got" \/ RepliedIn(up, c))

ShutIn(s) == \E i \in 1 .. Len(s) : s[i].op = "shutdown"

\* A live worker can be reached, and the names are the newest worker's.
Newest == repl \in {0, gen} /\ (alive => conn # 0)

WillFail(c) == run[c] = "restart" \/ (run[c] = "read" /\ ~Answered(c))

Relied == repl # 0 => alive \/ closing \in {"join", "done"} \/ \E c \in Cell : WillFail(c)

AnswersLive == \A c \in Cell : Answered(c) => alive

Unused == main.at = "boot" => repl = 0 /\ \A c \in Cell : ~Answered(c)

Asked ==
    /\ ShutIn(down) => closing = "join"
    /\ ~AskedIn(down, "none")
    /\ main.at \in {"run", "rpc"} => main.cell # "none"

Names == Newest /\ Relied /\ AnswersLive /\ Unused /\ Asked

LEMMA AppendShut ==
    ASSUME NEW S, NEW s \in Seq(S), NEW m \in S
    PROVE  ShutIn(Append(s, m)) => ShutIn(s) \/ m.op = "shutdown"
<1> DEFINE t == Append(s, m)
<1>1. /\ Len(t) = Len(s) + 1 /\ Len(s) \in Nat /\ t[Len(s) + 1] = m
      /\ \A i \in 1 .. Len(s) : t[i] = s[i]
  BY AppendElements
<1> HIDE DEF t
<1>2. \A i \in 1 .. Len(t) : i = Len(s) + 1 \/ i \in 1 .. Len(s)
  BY <1>1
<1>3. ShutIn(t) => ShutIn(s) \/ m.op = "shutdown"
  BY <1>1, <1>2, Zenon DEF ShutIn
<1>4. QED
  BY <1>3 DEF t

LEMMA TailShut ==
    ASSUME NEW S, NEW s \in Seq(S), s # <<>>
    PROVE  ShutIn(Tail(s)) \/ Head(s).op = "shutdown" => ShutIn(s)
<1>1. /\ Len(Tail(s)) = Len(s) - 1 /\ Len(s) \in Nat \ {0} /\ Head(s) = s[1]
      /\ \A i \in 1 .. Len(s) - 1 : Tail(s)[i] = s[i + 1]
  BY TailElements
<1>2. \A i \in 1 .. Len(Tail(s)) : i + 1 \in 1 .. Len(s) /\ Tail(s)[i] = s[i + 1]
  BY <1>1
<1>3. 1 \in 1 .. Len(s)
  BY <1>1
<1>4. QED
  BY <1>1, <1>2, <1>3, Zenon DEF ShutIn

LEMMA TypesOfNames ==
    TypeOK => /\ gen \in Nat /\ conn \in {0, gen} /\ repl \in 0 .. gen
              /\ alive \in BOOLEAN /\ result \in ResultType
BY Parts DEF ProcessOK, NamesOK, ParentOK, ResultType

\* A step that changes only calls that neither read nor restart.
LEMMA ParentNames ==
    ASSUME Names, UNCHANGED <<reader, main, down, up, conn, gen, alive>>,
           repl' \in {0, repl}, closing' = closing \/ (closing' = "lock" /\ closing = "no"),
           \A d \in Cell : \/ run'[d] = run[d]
                           \/ run[d] \notin {"read", "restart"} /\ run'[d] \notin {"read", "restart"}
    PROVE  Names'
<1>1. \A d \in Cell : (Answered(d)' <=> Answered(d)) /\ (WillFail(d)' <=> WillFail(d))
  BY DEF Answered, WillFail
<1>2. Newest' /\ AnswersLive' /\ Unused'
  BY <1>1 DEF Names, Newest, AnswersLive, Unused
<1>3. Relied'
  BY <1>1 DEF Names, Relied
<1>4. Asked'
  BY DEF Names, Asked
<1>5. QED
  BY <1>2, <1>3, <1>4 DEF Names

\* The worker is replaced or gone, and no cell reads.
LEMMA ClearedNames ==
    ASSUME Names, main' \in {Idle, Booting}, down' = <<>>, up' = <<>>, UNCHANGED reader,
           alive' => conn' # 0, \A d \in Cell : run'[d] # "read",
           \/ repl' = 0
           \/ /\ repl' = repl /\ gen' = gen /\ main' = Idle
              /\ closing' \in {"join", "done"} \/ \E d \in Cell : run'[d] = "restart"
    PROVE  Names'
<1>1. \A d \in Cell : ~Answered(d)'
  BY DEF Answered
<1>2. Newest' /\ AnswersLive'
  BY <1>1 DEF Names, Newest, AnswersLive
<1>3. Relied'
  BY DEF Relied, WillFail
<1>4. main'.at = "boot" => main' = Booting
  BY DEF Idle, Booting
<1>5. Idle # Booting
  BY DEF Idle, Booting
<1>6. Unused'
  BY <1>1, <1>4, <1>5 DEF Unused
<1>7. main'.at \notin {"run", "rpc"}
  BY DEF Idle, Booting
<1>8. Asked'
  <2>1. ~ShutIn(<<>>)
    BY DEF ShutIn
  <2>2. QED
    BY <1>7, <2>1, NothingIn DEF Asked
<1>9. QED
  BY <1>2, <1>3, <1>6, <1>8 DEF Names

LEMMA StartNames == ASSUME Inv, Own, Names, NEW c \in Cell, Start(c) PROVE Names'
<1>1. /\ run[c] = "lock" /\ Holds(c) /\ run' = [run EXCEPT ![c] = "read"]
      /\ reader' = [reader EXCEPT ![c] = [at |-> "poll", gen |-> 0, call |-> 0]]
      /\ UNCHANGED <<repl, closing>>
  BY DEF Start, flags
<1>2. /\ run'[c] = "read" /\ reader'[c].at = "poll"
      /\ \A d \in Cell : d # c => run'[d] = run[d] /\ reader'[d] = reader[d]
  BY <1>1, OwnTypes DEF Inv, RunType
<1>3. \A d \in Cell : run[d] \notin {"read", "restart"}
  BY <1>1 DEF Inv, Queue, InHand, Holds
<1>4. ~RepliedIn(up, c)
  BY <1>3, RepliedIsNamed DEF Own, Waited, OnWay
<1>5. closing \notin {"join", "done"}
  BY <1>1, ExecutorAssumption DEF Inv, Queue, CloserHolds, Gone, Holds
<1>6. repl # 0 => alive /\ conn # 0
  BY <1>3, <1>5 DEF Names, Relied, WillFail, Newest
<1>7. ASSUME NEW m \in Message, m.op = "run", m.cell = c,
             \/ NeedsWorker /\ StartWorker(<<m>>)
             \/ ~NeedsWorker /\ down' = Append(down, m) /\ UNCHANGED <<conn, gen, worker, up>>
      PROVE  Names'
  <2>0. UNCHANGED <<repl, closing>> /\ c # "none" /\ ~IsRequest(m, "none") /\ m.op # "shutdown"
    BY <1>1, <1>7, NoneIsNoCell DEF IsRequest
  <2>1. CASE NeedsWorker /\ StartWorker(<<m>>)
    <3>1. /\ gen' = gen + 1 /\ conn' = gen + 1 /\ alive' = TRUE /\ main' = Booting
          /\ down' = <<m>> /\ up' = <<>> /\ repl = 0
      BY <1>6, <2>1 DEF StartWorker, NeedsWorker
    <3>2. ~RepliedIn(up', c)
      BY <3>1, NothingIn
    <3>3. \A d \in Cell : ~Answered(d)'
      BY <1>2, <1>3, <3>2 DEF Answered
    <3>4. Newest'
      BY <2>0, <3>1, TypesOfNames DEF Newest, Inv
    <3>5. Relied' /\ AnswersLive' /\ Unused'
      BY <2>0, <3>1, <3>3 DEF Relied, AnswersLive, Unused
    <3>6. ~ShutIn(<<m>>) /\ ~AskedIn(<<m>>, "none")
      BY <2>0, OneIn DEF ShutIn
    <3>7. main'.at = "boot"
      BY <3>1 DEF Idle, Booting
    <3>8. Asked'
      BY <3>1, <3>6, <3>7 DEF Asked
    <3>9. QED
      BY <3>4, <3>5, <3>8 DEF Names
  <2>2. CASE ~NeedsWorker /\ down' = Append(down, m) /\ UNCHANGED <<conn, gen, worker, up>>
    <3>1. UNCHANGED <<conn, gen, alive, main, up>> /\ alive
      BY <2>2 DEF worker, NeedsWorker
    <3>2. main.at # "boot" \/ repl = 0
      BY DEF Names, Unused
    <3>3. \A d \in Cell : ~Answered(d)'
      BY <1>2, <1>3, <1>4, <3>1 DEF Answered
    <3>4. Newest' /\ Relied' /\ AnswersLive' /\ Unused'
      BY <2>0, <3>1, <3>2, <3>3 DEF Newest, Relied, AnswersLive, Unused, Names
    <3>5. (ShutIn(down') => ShutIn(down)) /\ (AskedIn(down', "none") => AskedIn(down, "none"))
      BY <2>0, <2>2, OwnTypes, AppendShut, AppendRequests DEF Inv
    <3>6. Asked'
      BY <2>0, <3>1, <3>5 DEF Asked, Names
    <3>7. QED
      BY <3>4, <3>6 DEF Names
  <2>3. QED
    BY <1>7, <2>1, <2>2
<1>8. \E m \in Message : /\ m.op = "run" /\ m.cell = c
                         /\ \/ NeedsWorker /\ StartWorker(<<m>>)
                            \/ ~NeedsWorker /\ down' = Append(down, m) /\ UNCHANGED <<conn, gen, worker, up>>
  <2>1. gen \in Nat /\ gen + 1 \in Nat
    BY TypesOfNames DEF Inv
  <2>2. \A g \in Nat : [op |-> "run", cell |-> c, call |-> 0, gen |-> g] \in Message
    BY MessageType
  <2>3. QED
    BY <2>1, <2>2 DEF Start
<1>9. QED
  BY <1>7, <1>8

LEMMA LoopNames ==
    ASSUME Inv, Orderly, Own, Names, NEW c \in Cell, Call(c) \/ Loop(c) \/ StartBroken(c) \/ Cancel(c)
    PROVE  Names'
<1>0. run \in RunType /\ TypeOK
  BY OwnTypes DEF Inv
<1>1. CASE Call(c) \/ StartDisabled(c)
  <2>1. /\ run[c] \in {"idle", "lock"} /\ UNCHANGED <<reader, main, down, up, conn, gen, alive, closing>>
        /\ \E p \in {"lock", "done"} : run' = [run EXCEPT ![c] = p]
        /\ repl' \in {0, repl}
    BY <1>1 DEF Call, StartDisabled, Fail, child, worker, flags
  <2>2. run'[c] \in {"lock", "done"} /\ \A d \in Cell : d # c => run'[d] = run[d]
    BY <1>0, <2>1 DEF RunType
  <2>3. QED
    BY <2>1, <2>2, ParentNames
<1>2. CASE ReturnOk(c)
  <2>1. /\ reader[c].at = "got" /\ run[c] = "read" /\ run' = [run EXCEPT ![c] = "done"] /\ repl' = gen
        /\ UNCHANGED <<reader, main, down, up, conn, gen, alive, closing>>
    BY <1>2 DEF ReturnOk, child, worker, flags
  <2>2. run'[c] = "done" /\ \A d \in Cell : d # c => run'[d] = run[d]
    BY <1>0, <2>1 DEF RunType
  <2>3. alive /\ main.at # "boot"
    BY <2>1 DEF Names, AnswersLive, Unused, Answered
  <2>4. \A d \in Cell : Answered(d)' => Answered(d)
    BY <2>1, <2>2 DEF Answered
  <2>5. QED
    BY <2>1, <2>3, <2>4 DEF Names, Newest, Relied, AnswersLive, Unused, Asked
<1>3. CASE ReturnFailed(c) \/ Restart(c)
  <2>1. Holds(c) /\ UNCHANGED <<reader, closing>>
    BY <1>3 DEF ReturnFailed, Restart, Inv, Queue, InHand
  <2>2. \A d \in Cell : d # c => run[d] # "read"
    BY <2>1, OneReads
  <2>3. CASE Restarted /\ \E error : Fail(c, error)
    <3>1. run' = [run EXCEPT ![c] = "done"] /\ repl' = 0
      BY <2>3 DEF Fail
    <3>2. alive' => conn' # 0
      BY <1>0, <2>3, TypesOfNames DEF Restarted, StartWorker, KillWorker
    <3>3. \A d \in Cell : run'[d] # "read"
      BY <1>0, <2>2, <3>1 DEF RunType
    <3>4. QED
      BY <2>1, <2>3, <3>1, <3>2, <3>3, RestartedClears, ClearedNames
  <2>4. CASE KillWorker /\ run' = [run EXCEPT ![c] = "restart"] /\ UNCHANGED repl
    <3>1. ~alive' /\ main' = Idle /\ gen' = gen /\ down' = <<>> /\ up' = <<>>
      BY <2>4 DEF KillWorker
    <3>2. run'[c] = "restart" /\ \A d \in Cell : run'[d] # "read"
      BY <1>0, <2>2, <2>4 DEF RunType
    <3>3. QED
      BY <2>1, <2>4, <3>1, <3>2, ClearedNames
  <2>5. QED
    BY <1>3, <2>3, <2>4 DEF ReturnFailed, Restart
<1>4. ~StartBroken(c) /\ ~Cancel(c)
  BY DEF Orderly, StartBroken, Cancel
<1>5. QED
  BY <1>1, <1>2, <1>3, <1>4, StartNames DEF Loop

LEMMA CloseNames == ASSUME Inv, Own, Names, Close \/ CloseAsk \/ CloseKill PROVE Names'
<1>1. CASE Close
  <2>1. /\ UNCHANGED <<run, reader, main, down, up, conn, gen, alive, repl>>
        /\ closing' = "lock" /\ closing = "no"
    BY <1>1 DEF Close, child, worker, Inv, Queue, FlagSet
  <2>2. QED
    BY <2>1, ParentNames
<1>2. CASE CloseKill
  <2>1. KillWorker /\ UNCHANGED <<run, reader, repl>> /\ closing = "join" /\ closing' = "done"
    BY <1>2 DEF CloseKill
  <2>2. ~alive' /\ main' = Idle /\ gen' = gen /\ down' = <<>> /\ up' = <<>>
    BY <2>1 DEF KillWorker
  <2>3. \A d \in Cell : run[d] # "read"
    BY <2>1, ExecutorAssumption DEF Inv, Queue, InHand, CloserHolds, Holds
  <2>4. QED
    BY <2>1, <2>2, <2>3, ClearedNames
<1>3. CASE CloseAsk
  <2> DEFINE m == [op |-> "shutdown", cell |-> "none", call |-> 0, gen |-> gen]
  <2>1. /\ UNCHANGED <<run, reader, main, up, conn, gen, alive, repl>> /\ closing' = "join"
        /\ (down' = down \/ down' = Append(down, m))
    BY <1>3 DEF CloseAsk, worker
  <2>2. m \in Message /\ ~IsRequest(m, "none")
    BY MessageType, TypesOfNames DEF Inv, IsRequest
  <2> HIDE DEF m
  <2>3. AskedIn(down', "none") => AskedIn(down, "none")
    BY <2>1, <2>2, OwnTypes, AppendRequests DEF Inv
  <2>4. \A d \in Cell : Answered(d)' <=> Answered(d)
    BY <2>1 DEF Answered
  <2>5. QED
    BY <2>1, <2>3, <2>4 DEF Names, Newest, Relied, AnswersLive, Unused, Asked
<1>4. QED
  BY <1>1, <1>2, <1>3

\* A thread answers nobody new: what it brings back was in the pipe.
LEMMA ReaderNames == ASSUME Inv, Own, Names, NEW c \in Cell, Reader(c) PROVE Names'
<1>1. UNCHANGED <<run, closing, conn, gen, alive, main, repl>>
  BY DEF Reader, Expire, FindDead, Poll, Recv, Serve, ServeExpires, Over, Thread, flags, worker
<1>2. up' = up \/ (up # <<>> /\ up' = Tail(up))
  BY DEF Reader, Expire, FindDead, Poll, Recv, Serve, ServeExpires, seen
<1>3. \A d \in Cell : RepliedIn(up', d) => RepliedIn(up, d)
  BY <1>2, OwnTypes, TailReplies DEF Inv
<1>4. \E t : /\ reader' = [reader EXCEPT ![c] = t]
             /\ t.at = "got" => RepliedIn(up, c) /\ run[c] = "read"
  <2>1. CASE Recv(c)
    <3>1. CASE up # <<>> /\ Mine(Head(up), c) /\ Over(c, "got")
      <4>1. RepliedIn(up, c)
        BY <3>1, OwnTypes, TailReplies DEF Inv, Mine, IsResponse
      <4>2. run[c] = "read"
        BY <2>1 DEF Recv, Own, Listening, Busy
      <4>3. QED
        BY <3>1, <4>1, <4>2 DEF Over, Thread
    <3>2. CASE \/ Over(c, "died")
               \/ Thread(c, [NoThread EXCEPT !.at = "poll"])
               \/ Thread(c, [at |-> "serve", gen |-> Head(up).gen, call |-> Head(up).call])
      BY <3>2 DEF Over, Thread, NoThread
    <3>3. QED
      BY <2>1, <3>1, <3>2 DEF Recv
  <2>2. CASE Expire(c) \/ FindDead(c) \/ Poll(c) \/ Serve(c) \/ ServeExpires(c)
    BY <2>2 DEF Expire, FindDead, Poll, Serve, ServeExpires, Over, Thread, NoThread
  <2>3. QED
    BY <2>1, <2>2 DEF Reader
<1>5. PICK t : /\ reader' = [reader EXCEPT ![c] = t]
               /\ t.at = "got" => RepliedIn(up, c) /\ run[c] = "read"
  BY <1>4
<1>6. reader'[c] = t /\ \A d \in Cell : d # c => reader'[d] = reader[d]
  BY <1>5, OwnTypes DEF Inv
<1>7. \A d \in Cell : Answered(d)' => Answered(d)
  BY <1>1, <1>3, <1>5, <1>6 DEF Answered
<1>8. (ShutIn(down') => ShutIn(down)) /\ (AskedIn(down', "none") => AskedIn(down, "none"))
  <2>1. CASE UNCHANGED down
    BY <2>1
  <2>2. CASE \E m \in Message : m.op = "tool_result" /\ down' = Append(down, m)
    <3>1. PICK m \in Message : m.op = "tool_result" /\ down' = Append(down, m)
      BY <2>2
    <3>2. ~IsRequest(m, "none") /\ m.op # "shutdown"
      BY <3>1 DEF IsRequest
    <3>3. QED
      BY <3>1, <3>2, OwnTypes, AppendShut, AppendRequests DEF Inv
  <2>3. Serve(c) => UNCHANGED down \/ \E m \in Message : m.op = "tool_result" /\ down' = Append(down, m)
    <3>1. reader[c].call \in Nat /\ reader[c].gen \in Nat
      BY ReaderFacts DEF ThreadRec, Inv
    <3>2. [op |-> "tool_result", cell |-> "none", call |-> reader[c].call, gen |-> reader[c].gen] \in Message
      BY <3>1, MessageType
    <3>3. QED
      BY <3>2 DEF Serve
  <2>4. QED
    BY <2>1, <2>2, <2>3 DEF Reader, Expire, FindDead, Poll, Recv, ServeExpires, seen
<1>9. Newest' /\ AnswersLive' /\ Unused' /\ Asked'
  BY <1>1, <1>7, <1>8 DEF Names, Newest, AnswersLive, Unused, Asked
<1>10. Relied'
  BY <1>1, <1>7 DEF Names, Relied, WillFail
<1>11. QED
  BY <1>9, <1>10 DEF Names

\* What a step of the worker leaves alone.
LEMMA WorkerLeaves ==
    ASSUME Worker
    PROVE  UNCHANGED <<run, reader, closing, conn, gen, repl>>
BY DEF Worker, parent

\* A worker that goes on: the answer it may send is the live worker's.
LEMMA WorkingNames ==
    ASSUME Inv, Names, UNCHANGED <<run, reader, closing, conn, gen, repl>>, alive, alive',
           main'.at # "boot", Asked'
    PROVE  Names'
BY DEF Names, Newest, Relied, AnswersLive, Unused

\* A worker that dies leaves a cell that will fail, or was told to go.
LEMMA DyingNames ==
    ASSUME Inv, Names, UNCHANGED <<run, reader, closing, conn, gen, repl>>, ~alive',
           main' = Idle, Asked', \A d \in Cell : ~Answered(d)', repl # 0 => Relied'
    PROVE  Names'
<1>1. main'.at # "boot"
  BY DEF Idle
<1>2. QED
  BY <1>1 DEF Names, Newest, Relied, AnswersLive, Unused

LEMMA TakenNames ==
    ASSUME Inv, Names, Take
    PROVE  /\ ShutIn(down') \/ Head(down).op = "shutdown" => closing = "join"
           /\ ~AskedIn(down', "none") /\ ~IsRequest(Head(down), "none")
BY OwnTypes, TailShut, TakenFacts DEF Take, Inv, Names, Asked

LEMMA WorkerNames == ASSUME Inv, Orderly, Own, Names, Worker PROVE Names'
<1>0. UNCHANGED <<run, reader, closing, conn, gen, repl>>
  BY WorkerLeaves
<1>1. CASE Boot
  <2>1. main.at = "boot" /\ alive /\ UNCHANGED down /\ main' = Idle
    BY <1>1 DEF Boot, Dies
  <2>2. Asked' /\ main'.at # "boot"
    BY <1>0, <2>1 DEF Names, Asked, Idle
  <2>3. CASE UNCHANGED alive
    BY <1>0, <2>1, <2>2, <2>3, WorkingNames
  <2>4. CASE Send("fatal", "none", 0) /\ Dies("other")
    <3>1. \A d \in Cell : RepliedIn(up', d) <=> RepliedIn(up, d)
      BY <2>4, SendFacts DEF Inv
    <3>2. repl = 0 /\ \A d \in Cell : ~Answered(d)'
      BY <1>0, <2>1, <3>1 DEF Names, Unused, Answered
    <3>3. ~alive'
      BY <2>4 DEF Dies
    <3>4. QED
      BY <1>0, <2>1, <2>2, <3>2, <3>3, DyingNames
  <2>5. QED
    BY <1>1, <2>3, <2>4 DEF Boot
<1>2. CASE TakeRequest
  <2> DEFINE msg == Head(down)
  <2>1. Take /\ alive /\ main.at = "idle"
    BY <1>2 DEF TakeRequest, Take
  <2>2. /\ ShutIn(down') \/ msg.op = "shutdown" => closing = "join"
        /\ ~AskedIn(down', "none") /\ ~IsRequest(msg, "none")
    BY <2>1, TakenNames
  <2>3. CASE msg.op = "run" /\ main' = [at |-> "run", cell |-> msg.cell, call |-> 0] /\ UNCHANGED alive
    <3>1. main'.at = "run" /\ main'.cell # "none"
      BY <2>2, <2>3 DEF IsRequest
    <3>2. Asked'
      BY <1>0, <2>2, <3>1 DEF Asked
    <3>3. QED
      BY <1>0, <2>1, <2>3, <3>1, <3>2, WorkingNames
  <2>4. CASE msg.op = "shutdown" /\ Dies("other") /\ UNCHANGED up
    <3>1. closing = "join" /\ ~alive' /\ main' = Idle
      BY <2>2, <2>4 DEF Dies
    <3>2. \A d \in Cell : run[d] # "read"
      BY <3>1, ExecutorAssumption DEF Inv, Queue, InHand, CloserHolds, Holds
    <3>3. \A d \in Cell : ~Answered(d)'
      BY <1>0, <3>2 DEF Answered
    <3>4. Asked' /\ Relied'
      BY <1>0, <2>2, <3>1 DEF Asked, Relied, Idle
    <3>5. QED
      BY <1>0, <3>1, <3>3, <3>4, DyingNames
  <2>5. CASE msg.op = "tool_result" /\ UNCHANGED worker
    <3>1. UNCHANGED <<main, alive>> /\ main'.at # "boot"
      BY <2>1, <2>5 DEF worker
    <3>2. Asked'
      BY <1>0, <2>2, <3>1 DEF Asked, Names
    <3>3. QED
      BY <1>0, <2>1, <3>1, <3>2, WorkingNames
  <2>6. QED
    BY <1>2, <2>3, <2>4, <2>5 DEF TakeRequest
<1>3. CASE FinishCell \/ CellCall \/ StrayCall
  <2>1. /\ alive /\ alive' /\ UNCHANGED down
        /\ \/ main' = Idle
           \/ main' = [main EXCEPT !.at = "rpc", !.call = calls + 1] /\ main.at = "run"
           \/ main' = main
    BY <1>3 DEF FinishCell, CellCall, StrayCall
  <2>2. CASE main' = Idle \/ (main' = [main EXCEPT !.at = "rpc", !.call = calls + 1] /\ main.at = "run")
    <3>1. /\ main'.at # "boot"
          /\ main'.at \in {"run", "rpc"} => main.at = "run" /\ main'.cell = main.cell
      <4>1. CASE main' = Idle
        BY <4>1 DEF Idle
      <4>2. CASE main' = [main EXCEPT !.at = "rpc", !.call = calls + 1] /\ main.at = "run"
        BY <4>2, OwnTypes DEF MainRec, Inv
      <4>3. QED
        BY <2>2, <4>1, <4>2
    <3>2. Asked'
      BY <1>0, <2>1, <3>1 DEF Asked, Names
    <3>3. QED
      BY <1>0, <2>1, <3>1, <3>2, WorkingNames
  <2>3. CASE main' = main /\ StrayCall
    <3>1. \A d \in Cell : RepliedIn(up', d) <=> RepliedIn(up, d)
      <4>1. Send("tool_call", "none", calls + 1) /\ calls + 1 \in Nat
        BY <2>3, WorkerFacts DEF StrayCall, WorkerOK, Inv
      <4>2. QED
        BY <4>1, SendFacts DEF Inv
    <3>2. \A d \in Cell : Answered(d)' <=> Answered(d)
      BY <1>0, <3>1 DEF Answered
    <3>3. QED
      BY <1>0, <2>1, <2>3, <3>2 DEF Names, Newest, Relied, AnswersLive, Unused, Asked
  <2>4. QED
    BY <1>3, <2>1, <2>2, <2>3 DEF FinishCell, CellCall
<1>4. CASE CellAnswer \/ StrayAnswer
  <2>1. /\ Take /\ alive /\ UNCHANGED <<alive, up>>
        /\ (main' = [main EXCEPT !.at = "run", !.call = 0] /\ main.at = "rpc") \/ main' = main
    BY <1>4 DEF CellAnswer, StrayAnswer, Take
  <2>2. /\ main'.at = "boot" => main.at = "boot"
        /\ main'.at \in {"run", "rpc"} => main.at \in {"run", "rpc"} /\ main'.cell = main.cell
    BY <2>1, OwnTypes DEF MainRec, Inv
  <2>3. Asked'
    BY <1>0, <2>1, <2>2, TakenNames DEF Asked, Names
  <2>4. \A d \in Cell : Answered(d)' <=> Answered(d)
    BY <1>0, <2>1 DEF Answered
  <2>5. QED
    BY <1>0, <2>1, <2>2, <2>3, <2>4 DEF Names, Newest, Relied, AnswersLive, Unused
<1>5. CASE Die
  <2>1. /\ main.at \in {"run", "rpc"} /\ ~alive' /\ main' = Idle /\ UNCHANGED <<down, up>>
    BY <1>5 DEF Die, Dies, Orderly
  <2>2. main.cell \in Cell
    BY <2>1, OwnTypes DEF Names, Asked, MainRec, Inv
  <2>3. run[main.cell] = "read" /\ reader[main.cell].at # "got" /\ ~RepliedIn(up, main.cell)
    BY <2>2 DEF Own, Waited, OnWay, InOrder
  <2>4. \A d \in Cell : ~Answered(d)'
    <3>1. \A d \in Cell : run[d] = "read" => d = main.cell
      BY <2>2, <2>3, OneReads
    <3>2. QED
      BY <1>0, <2>1, <2>3, <3>1 DEF Answered
  <2>5. Relied'
    BY <1>0, <2>2, <2>3, <2>4 DEF Relied, WillFail
  <2>6. Asked'
    BY <1>0, <2>1 DEF Asked, Names, Idle
  <2>7. QED
    BY <1>0, <2>1, <2>4, <2>5, <2>6, DyingNames
<1>6. QED
  BY <1>1, <1>2, <1>3, <1>4, <1>5 DEF Worker

LEMMA InitNames == ASSUME Init PROVE Names
<1>1. main.at = "idle" /\ repl = 0 /\ gen = 0 /\ ~alive /\ down = <<>> /\ up = <<>>
  BY DEF Init, Idle
<1>2. \A c \in Cell : ~Answered(c)
  BY DEF Init, Answered
<1>3. ~ShutIn(<<>>) /\ ~AskedIn(<<>>, "none")
  BY NothingIn DEF ShutIn
<1>4. QED
  BY <1>1, <1>2, <1>3 DEF Names, Newest, Relied, AnswersLive, Unused, Asked

LEMMA StepNames == ASSUME Inv, Orderly, Own, Names, [Next]_vars PROVE Names'
<1>1. CASE UNCHANGED vars
  <2>1. \A c \in Cell : Answered(c)' <=> Answered(c)
    BY <1>1 DEF vars, Answered
  <2>2. QED
    BY <1>1, <2>1 DEF vars, Names, Newest, Relied, WillFail, AnswersLive, Unused, Asked
<1>2. CASE Next
  BY <1>2, LoopNames, ReaderNames, CloseNames, WorkerNames DEF Next
<1>3. QED
  BY <1>1, <1>2

LEMMA SpecNames == Spec => [](Orderly => Names)
<1>1. Init => (Orderly => Names)
  BY InitNames
<1>2. Inv /\ (Orderly => Own) /\ (Orderly => Names) /\ [Next]_vars => (Orderly => Names)'
  <2>1. [Next]_vars => (Orderly' <=> Orderly)
    BY OrderlyStays DEF Orderly
  <2>2. QED
    BY <2>1, StepNames
<1>3. QED
  BY <1>1, <1>2, SpecInv, SpecOwn, PTL DEF Spec

\* A caller that was never told of a failure finds its earlier names: where no
\* caller is cancelled and workers die only in a cell, a cell succeeds in the
\* worker of the cells that succeeded since the last error (the persistent
\* namespace of executor.py, the restarts of run_cell and _ensure_worker).
THEOREM NamesPersist == Spec => NamespaceKept
<1>1. (Orderly => Names) => (Orderly => NamesStay)
  BY DEF Names, Newest, NamesStay
<1>2. QED
  BY <1>1, SpecNames, PTL DEF NamespaceKept

=============================================================================
