--------------------------- MODULE ChannelsProofs ---------------------------
(***************************************************************************)
(* Proofs about channels and race(), for any number of channels, items and *)
(* getters: the type invariant; that no item is lost or duplicated, nor    *)
(* left in a task; that race() does not sleep beside an item; that, seen   *)
(* by its single dispatcher, every channel is a FIFO queue; and that with  *)
(* all producers on the loop no get() sleeps beside an item.               *)
(***************************************************************************)
EXTENDS Channels, FiniteSetTheorems, SequenceTheorems, WellFoundedInduction, TLAPS

-----------------------------------------------------------------------------
(* Types.                                                                  *)
FutState == {"none", "pending", "set", "cancelled"}
Races    == [phase : {"turn", "waiting", "reaping", "unwinding"}, done : SUBSET Chan, asked : BOOLEAN]
Notices  == [event : BOOLEAN, task : {"none", "ready", "wait", "woken", "done"}]
Posts    == [wake : SUBSET Task, set : BOOLEAN]
Threads  == [at : {"out", "appended", "woke"}, chan : Chan]

LEMMA LeastExists ==
    ASSUME NEW S, S \subseteq Nat, S # {}
    PROVE  \E n \in S : \A m \in S : n <= m
<1>1. IsWellFoundedOn(OpToRel(<, Nat), Nat)
  BY NatLessThanWellFounded
<1>2. PICK n \in S : \A m \in S : ~(<<m, n>> \in OpToRel(<, Nat))
  BY <1>1, WFMin
<1>3. ASSUME NEW m \in S PROVE n <= m
  <2>1. m \in Nat /\ n \in Nat
    OBVIOUS
  <2>2. ASSUME m < n PROVE <<m, n>> \in OpToRel(<, Nat)
    BY <2>1, <2>2 DEF OpToRel
  <2>3. ~(<<m, n>> \in OpToRel(<, Nat))
    BY <1>2
  <2>4. ~(m < n)
    BY <2>2, <2>3, Zenon
  <2>5. QED
    BY <2>1, <2>4
<1>4. QED
  BY <1>3

LEMMA FirstFacts ==
    ASSUME NEW S, S \subseteq Nat, S # {}
    PROVE  First(S) \in S /\ \A m \in S : First(S) <= m
BY LeastExists DEF First

LEMMA StillWaitingType ==
    ASSUME NEW ws \in Seq(Task), NEW f
    PROVE  StillWaiting(ws, f) \in Seq(Task)
<1>1. CASE Live(ws, f) = {}
  <2>1. <<>> \in Seq(Task)
    OBVIOUS
  <2> QED
    BY <1>1, <2>1 DEF StillWaiting
<1>2. CASE Live(ws, f) # {}
  <2>1. Live(ws, f) \subseteq 1..Len(ws) /\ Len(ws) \in Nat
    BY DEF Live
  <2>2. FirstLive(ws, f) \in 1..Len(ws)
    BY <1>2, <2>1, FirstFacts DEF FirstLive
  <2>3. SubSeq(ws, FirstLive(ws, f) + 1, Len(ws)) \in Seq(Task)
    BY <2>1, <2>2
  <2> QED
    BY <1>2, <2>3 DEF StillWaiting
<1>3. QED
  BY <1>1, <1>2

LEMMA WithoutType ==
    ASSUME NEW ws \in Seq(Task), NEW t
    PROVE  Without(ws, t) \in Seq(Task)
<1> DEFINE I == {i \in DOMAIN ws : ws[i] = t}
<1>1. CASE I = {}
  BY <1>1 DEF Without
<1>2. CASE I # {}
  <2>1. I \subseteq 1..Len(ws) /\ I \subseteq Nat /\ Len(ws) \in Nat
    OBVIOUS
  <2>2. First(I) \in I
    <3> HIDE DEF I
    <3> QED
      BY <1>2, <2>1, FirstFacts
  <2> DEFINE n == Len(ws) - 1
  <2>3. n \in Nat /\ \A k \in 1..n : ws[IF k < First(I) THEN k ELSE k + 1] \in Task
    <3>1. First(I) \in Nat /\ First(I) >= 1 /\ First(I) <= Len(ws) /\ Len(ws) \in Nat
      BY <2>1, <2>2
    <3> HIDE DEF I
    <3>2. ASSUME NEW k \in 1..n PROVE ws[IF k < First(I) THEN k ELSE k + 1] \in Task
      <4>1. (IF k < First(I) THEN k ELSE k + 1) \in 1..Len(ws)
        BY <3>1
      <4> QED
        BY <4>1
    <3> QED
      BY <3>1, <3>2
  <2>4. [k \in 1..n |-> ws[IF k < First(I) THEN k ELSE k + 1]] \in Seq(Task)
    <3> HIDE DEF n, I
    <3> QED
      BY <2>3
  <2> QED
    BY <1>2, <2>4 DEF Without
<1>3. QED
  BY <1>1, <1>2

LEMMA SetFutType ==
    ASSUME TypeOK, NEW T, NEW v \in FutState
    PROVE  SetFut(T, v) \in [Task -> FutState]
BY DEF TypeOK, SetFut, FutState

LEMMA SignalledType == ASSUME TypeOK PROVE Signalled \in Notices
BY DEF TypeOK, Signalled, Notices

LEMMA ChanTask == Chan \subseteq Task /\ Getter \subseteq Task /\ Task \ Chan = Getter
BY ConstantsAssumption DEF Task

\* The parts of the state a step changes keep their types.
ChanTypes == /\ items \in [Chan -> Seq(1..MaxPut)] /\ waiters \in [Chan -> Seq(Task)]
             /\ registered \subseteq Chan
             /\ sent \in [Chan -> 0..MaxPut] /\ got \in [Chan -> Seq(1..MaxPut)]
             /\ dropped \in [Chan -> SUBSET (1..MaxPut)]
TaskTypes == /\ pc \in [Task -> Place] /\ on \in [Task -> Chan] /\ fut \in [Task -> FutState]
             /\ cancel \in [Task -> BOOLEAN] /\ held \in [Chan -> 0..MaxPut]
LoopTypes == /\ race \in Races /\ notify \in Notices /\ posted \in Posts /\ thread \in Threads
             /\ unseen \in BOOLEAN /\ scene \in Scenes

LEMMA TypeParts == TypeOK <=> ChanTypes /\ TaskTypes /\ LoopTypes
BY DEF TypeOK, ChanTypes, TaskTypes, LoopTypes, Races, Notices, Posts, Threads, FutState

LEMMA TypePartsNext == TypeOK' <=> ChanTypes' /\ TaskTypes' /\ LoopTypes'
BY DEF TypeOK, ChanTypes, TaskTypes, LoopTypes, Races, Notices, Posts, Threads, FutState

LEMMA HeadTail ==
    ASSUME NEW S, NEW s \in Seq(S), s # <<>>
    PROVE  /\ Head(s) \in S /\ Tail(s) \in Seq(S) /\ Len(s) \in Nat \ {0}
           /\ SubSeq(s, 1, Len(s) - 1) \in Seq(S) /\ s[Len(s)] \in S
OBVIOUS

LEMMA ElementTypes ==
    ASSUME NEW S, NEW s \in Seq(S)
    PROVE  {s[i] : i \in DOMAIN s} \subseteq S
OBVIOUS

LEMMA CancelTasksTypes ==
    ASSUME TypeOK, NEW T, CancelTasks(T)
    PROVE  /\ cancel' \in [Task -> BOOLEAN] /\ fut' \in [Task -> FutState] /\ posted' \in Posts
           /\ posted'.set = posted.set
<1>1. fut' \in [Task -> FutState]
  BY SetFutType DEF CancelTasks, FutState
<1>2. cancel' \in [Task -> BOOLEAN]
  BY DEF CancelTasks
<1>3. posted' \in Posts /\ posted'.set = posted.set
  BY DEF CancelTasks, TypeOK, Posts
<1>4. QED
  BY <1>1, <1>2, <1>3

LEMMA RestoreTypes ==
    ASSUME TypeOK, NEW L \in SUBSET Chan, \A c \in L : held[c] # 0, RestoreFront(L)
    PROVE  /\ items' \in [Chan -> Seq(1..MaxPut)] /\ waiters' \in [Chan -> Seq(Task)]
           /\ fut' \in [Task -> FutState]
<1>1. fut' \in [Task -> FutState]
  BY SetFutType DEF RestoreFront, FutState
<1>2. ASSUME NEW c \in Chan PROVE StillWaiting(waiters[c], fut) \in Seq(Task)
  BY StillWaitingType DEF TypeOK
<1>3. waiters' \in [Chan -> Seq(Task)]
  BY <1>2 DEF RestoreFront, TypeOK
<1>4. ASSUME NEW c \in L PROVE <<held[c]>> \o items[c] \in Seq(1..MaxPut)
  <2>1. held[c] \in 1..MaxPut /\ items[c] \in Seq(1..MaxPut)
    BY <1>4, ConstantsAssumption DEF TypeOK
  <2> QED
    BY <2>1
<1>5. items' \in [Chan -> Seq(1..MaxPut)]
  BY <1>4 DEF RestoreFront, TypeOK
<1>6. QED
  BY <1>1, <1>3, <1>5

LEMMA FlushedTypes ==
    ASSUME TypeOK, NEW c \in Chan, Flushed(c)
    PROVE  /\ items' \in [Chan -> Seq(1..MaxPut)] /\ waiters' \in [Chan -> Seq(Task)]
           /\ dropped' \in [Chan -> SUBSET (1..MaxPut)] /\ fut' \in [Task -> FutState]
<1>1. fut' \in [Task -> FutState]
  BY SetFutType DEF Flushed, FutState
<1>2. <<>> \in Seq(1..MaxPut) /\ <<>> \in Seq(Task)
  OBVIOUS
<1>3. items[c] \in Seq(1..MaxPut)
  BY DEF TypeOK
<1>4. {items[c][i] : i \in DOMAIN items[c]} \subseteq 1..MaxPut
  BY <1>3, ElementTypes
<1>5. dropped' \in [Chan -> SUBSET (1..MaxPut)]
  BY <1>4 DEF Flushed, TypeOK
<1>6. QED
  BY <1>1, <1>2, <1>5 DEF Flushed, TypeOK

-----------------------------------------------------------------------------
(* Where the drain tasks and the race are.                                 *)

\* A drain task serves its own channel and holds an item when it is done.
Hands == \A c \in Chan : on[c] = c /\ (held[c] # 0 <=> pc[c] = "done")

\* Drain tasks live only while race() does.
Drains == race.phase = "turn" => \A c \in Chan : pc[c] = "idle"

\* While race() reaps, what was done stays done, and the rest is cancelled.
Reaping == race.phase = "reaping" =>
             /\ \A c \in race.done : pc[c] \in {"done", "cancelled"}
             /\ \A c \in Chan : pc[c] = "done" => c \in race.done
             /\ \A c \in Chan : pc[c] \in {"ready", "saw_empty", "wait"} => cancel[c]

\* Getters act only in their scene.
NoGetters == "getters" \notin scene => \A g \in Getter : pc[g] = "idle"

\* Beside an item of a registered channel, the sentinel of a waiting race
\* is woken, or will be by a put in progress.
Noticed ==
  race.phase = "waiting" =>
    /\ notify.task # "none"
    /\ \/ \A c \in registered : items[c] = <<>>
       \/ notify.task \in {"woken", "done"}
       \/ notify.task = "ready" /\ notify.event
       \/ posted.set
       \/ thread.at # "out"

LInv == TypeOK /\ Hands /\ Drains /\ Reaping /\ NoGetters /\ Noticed

LEMMA LInitial == Init => LInv
<1> SUFFICES ASSUME Init PROVE LInv
  OBVIOUS
<1>0. <<>> \in Seq(1..MaxPut) /\ <<>> \in Seq(Task) /\ 1 \in Chan /\ Chan \subseteq Task
      /\ Getter \cap Chan = {}
  BY ConstantsAssumption, ChanTask DEF Chan
<1>1. ChanTypes
  BY <1>0, ConstantsAssumption DEF Init, ChanTypes
<1>2. TaskTypes
  BY <1>0, ConstantsAssumption DEF Init, TaskTypes, FutState, Place
<1>3. LoopTypes
  BY <1>0 DEF Init, LoopTypes, Races, Notices, Posts, Threads
<1>4. Hands /\ Drains /\ Reaping /\ NoGetters /\ Noticed
  BY <1>0, ChanTask DEF Init, Hands, Drains, Reaping, NoGetters, Noticed
<1>5. QED
  BY <1>1, <1>2, <1>3, <1>4, TypeParts DEF LInv

LEMMA LPut ==
    ASSUME LInv, NEW c \in Chan, Put(c)
    PROVE  LInv'
<1>1. ChanTypes /\ TaskTypes /\ LoopTypes
  BY TypeParts DEF LInv
<1>2. sent[c] + 1 \in 0..MaxPut /\ sent[c] + 1 \in 1..MaxPut
  BY <1>1, ConstantsAssumption DEF Put, ChanTypes
<1>3. fut' \in [Task -> FutState] /\ notify' \in Notices
  BY SetFutType, SignalledType DEF LInv, Put, FutState
<1>4. ChanTypes'
  <2>1. StillWaiting(waiters[c], fut) \in Seq(Task)
    BY <1>1, StillWaitingType DEF ChanTypes
  <2>2. items' \in [Chan -> Seq(1..MaxPut)]
    BY <1>1, <1>2 DEF Put, ChanTypes
  <2> QED
    BY <1>1, <1>2, <2>1, <2>2 DEF Put, ChanTypes
<1>5. TaskTypes' /\ LoopTypes'
  BY <1>1, <1>3 DEF Put, TaskTypes, LoopTypes
<1>6. Hands' /\ Drains' /\ Reaping' /\ NoGetters'
  BY DEF Put, LInv, Hands, Drains, Reaping, NoGetters
<1>7. Noticed'
  BY <1>1 DEF Put, Signalled, LInv, Noticed, LoopTypes, Notices
<1>8. QED
  BY <1>4, <1>5, <1>6, <1>7, TypePartsNext DEF LInv

LEMMA LThread ==
    ASSUME LInv, \/ \E c \in Chan : ThreadAppend(c)
                 \/ ThreadWake \/ ThreadNotify
    PROVE  LInv'
<1>1. ChanTypes /\ TaskTypes /\ LoopTypes
  BY TypeParts DEF LInv
<1>2. ASSUME NEW c \in Chan, ThreadAppend(c) PROVE LInv'
  <2>1. sent[c] + 1 \in 0..MaxPut /\ sent[c] + 1 \in 1..MaxPut
    BY <1>1, <1>2, ConstantsAssumption DEF ThreadAppend, ChanTypes
  <2>2. items' \in [Chan -> Seq(1..MaxPut)]
    BY <1>1, <1>2, <2>1 DEF ThreadAppend, ChanTypes
  <2>3. ChanTypes' /\ TaskTypes'
    BY <1>1, <1>2, <2>1, <2>2 DEF ThreadAppend, ChanTypes, TaskTypes, taskVars
  <2>4. LoopTypes' /\ thread'.at = "appended"
    BY <1>1, <1>2 DEF ThreadAppend, LoopTypes, Threads
  <2>5. Hands' /\ Drains' /\ Reaping' /\ NoGetters'
    BY <1>2 DEF ThreadAppend, taskVars, LInv, Hands, Drains, Reaping, NoGetters
  <2>6. Noticed'
    BY <1>2, <2>4 DEF ThreadAppend, LInv, Noticed
  <2> QED
    BY <2>3, <2>4, <2>5, <2>6, TypePartsNext DEF LInv
<1>3. CASE ThreadWake
  <2> DEFINE c == thread.chan
  <2>1. c \in Chan
    BY <1>1 DEF LoopTypes, Threads
  <2>2. StillWaiting(waiters[c], fut) \in Seq(Task)
    BY <1>1, <2>1, StillWaitingType DEF ChanTypes
  <2>3. Woken(waiters[c], fut) \subseteq Task
    <3>1. waiters[c] \in Seq(Task)
      BY <1>1, <2>1 DEF ChanTypes
    <3>2. CASE Live(waiters[c], fut) = {}
      BY <3>2 DEF Woken
    <3>3. CASE Live(waiters[c], fut) # {}
      <4>1. Live(waiters[c], fut) \subseteq DOMAIN waiters[c] /\ Live(waiters[c], fut) \subseteq Nat
        BY <3>1 DEF Live
      <4>2. FirstLive(waiters[c], fut) \in DOMAIN waiters[c]
        BY <3>3, <4>1, FirstFacts DEF FirstLive
      <4> QED
        BY <3>1, <3>3, <4>2 DEF Woken
    <3> QED
      BY <3>2, <3>3
  <2>4. /\ waiters' = [waiters EXCEPT ![c] = StillWaiting(@, fut)]
        /\ posted' = [posted EXCEPT !.wake = @ \cup Woken(waiters[c], fut)]
        /\ thread' = [thread EXCEPT !.at = "woke"]
    BY <1>3 DEF ThreadWake
  <2>5. UNCHANGED <<items, registered, taskVars, race, notify, unseen, scene, history>>
    BY <1>3 DEF ThreadWake
  <2> HIDE DEF c
  <2>6. ChanTypes' /\ TaskTypes'
    BY <1>1, <2>1, <2>2, <2>4, <2>5 DEF ChanTypes, TaskTypes, taskVars, history
  <2>7. LoopTypes' /\ thread'.at = "woke"
    BY <1>1, <2>3, <2>4, <2>5 DEF LoopTypes, Posts, Threads
  <2>8. Hands' /\ Drains' /\ Reaping' /\ NoGetters'
    BY <2>5 DEF taskVars, LInv, Hands, Drains, Reaping, NoGetters
  <2>9. Noticed'
    BY <2>5, <2>7 DEF LInv, Noticed
  <2> QED
    BY <2>6, <2>7, <2>8, <2>9, TypePartsNext DEF LInv
<1>4. CASE ThreadNotify
  <2>1. ChanTypes' /\ TaskTypes'
    BY <1>1, <1>4 DEF ThreadNotify, ChanTypes, TaskTypes, chanVars, taskVars, history
  <2>2. LoopTypes' /\ posted'.set
    BY <1>1, <1>4 DEF ThreadNotify, LoopTypes, Posts, Threads
  <2>3. Hands' /\ Drains' /\ Reaping' /\ NoGetters'
    BY <1>4 DEF ThreadNotify, taskVars, LInv, Hands, Drains, Reaping, NoGetters
  <2>4. Noticed'
    BY <1>4, <2>2 DEF ThreadNotify, LInv, Noticed
  <2> QED
    BY <2>1, <2>2, <2>3, <2>4, TypePartsNext DEF LInv
<1>5. QED
  BY <1>2, <1>3, <1>4

\* Callbacks of the loop, events and the sentinel: no channel changes.
LEMMA LLoop ==
    ASSUME LInv, RunSet \/ PutEvent \/ Prompt \/ RaceCancel \/ Sentinel
                 \/ \E t \in Task : RunWake(t)
    PROVE  LInv'
<1>1. ChanTypes /\ TaskTypes /\ LoopTypes /\ Signalled \in Notices
  BY TypeParts, SignalledType DEF LInv
<1>2. ASSUME NEW t \in Task, RunWake(t) PROVE LInv'
  <2>1. fut' \in [Task -> FutState]
    BY <1>2, SetFutType DEF LInv, RunWake, FutState
  <2>2. ChanTypes' /\ TaskTypes'
    BY <1>1, <1>2, <2>1 DEF RunWake, ChanTypes, TaskTypes, chanVars, history
  <2>3. LoopTypes' /\ posted'.set = posted.set
    BY <1>1, <1>2 DEF RunWake, LoopTypes, Posts
  <2>4. Hands' /\ Drains' /\ Reaping' /\ NoGetters' /\ Noticed'
    BY <1>2, <2>3 DEF RunWake, chanVars, LInv, Hands, Drains, Reaping, NoGetters, Noticed
  <2> QED
    BY <2>2, <2>3, <2>4, TypePartsNext DEF LInv
<1>3. CASE RunSet
  <2>1. ChanTypes' /\ TaskTypes'
    BY <1>1, <1>3 DEF RunSet, ChanTypes, TaskTypes, chanVars, taskVars, history
  <2>2. LoopTypes'
    BY <1>1, <1>3 DEF RunSet, LoopTypes, Posts
  <2>3. Hands' /\ Drains' /\ Reaping' /\ NoGetters'
    BY <1>3 DEF RunSet, taskVars, LInv, Hands, Drains, Reaping, NoGetters
  <2>4. Noticed'
    BY <1>1, <1>3 DEF RunSet, Signalled, chanVars, LInv, Noticed, LoopTypes, Notices
  <2> QED
    BY <2>1, <2>2, <2>3, <2>4, TypePartsNext DEF LInv
<1>4. CASE PutEvent
  <2>1. ChanTypes' /\ TaskTypes'
    BY <1>1, <1>4 DEF PutEvent, ChanTypes, TaskTypes, chanVars, taskVars, history
  <2>2. LoopTypes'
    BY <1>1, <1>4 DEF PutEvent, LoopTypes
  <2>3. Hands' /\ Drains' /\ Reaping' /\ NoGetters'
    BY <1>4 DEF PutEvent, taskVars, LInv, Hands, Drains, Reaping, NoGetters
  <2>4. Noticed'
    BY <1>1, <1>4 DEF PutEvent, Signalled, chanVars, LInv, Noticed, LoopTypes, Notices
  <2> QED
    BY <2>1, <2>2, <2>3, <2>4, TypePartsNext DEF LInv
<1>5. CASE Prompt
  <2>1. ChanTypes' /\ TaskTypes' /\ LoopTypes'
    BY <1>1, <1>5 DEF Prompt, ChanTypes, TaskTypes, LoopTypes, chanVars, taskVars, history
  <2>2. Hands' /\ Drains' /\ Reaping' /\ NoGetters' /\ Noticed'
    BY <1>5 DEF Prompt, taskVars, chanVars, LInv, Hands, Drains, Reaping, NoGetters, Noticed
  <2> QED
    BY <2>1, <2>2, TypePartsNext DEF LInv
<1>6. CASE RaceCancel
  <2>1. ChanTypes' /\ TaskTypes'
    BY <1>1, <1>6 DEF RaceCancel, ChanTypes, TaskTypes, chanVars, taskVars, history
  <2>2. LoopTypes' /\ race'.phase = race.phase /\ race'.done = race.done
    BY <1>1, <1>6 DEF RaceCancel, LoopTypes, Races
  <2>3. Hands' /\ Drains' /\ Reaping' /\ NoGetters' /\ Noticed'
    BY <1>6, <2>2 DEF RaceCancel, taskVars, chanVars, LInv, Hands, Drains, Reaping, NoGetters, Noticed
  <2> QED
    BY <2>1, <2>2, <2>3, TypePartsNext DEF LInv
<1>7. CASE Sentinel
  <2>1. ChanTypes' /\ TaskTypes'
    BY <1>1, <1>7 DEF Sentinel, ChanTypes, TaskTypes, chanVars, taskVars, history
  <2>2. LoopTypes'
    BY <1>1, <1>7 DEF Sentinel, LoopTypes, Notices
  <2>3. Hands' /\ Drains' /\ Reaping' /\ NoGetters'
    BY <1>7 DEF Sentinel, taskVars, LInv, Hands, Drains, Reaping, NoGetters
  <2>4. Noticed'
    BY <1>1, <1>7 DEF Sentinel, chanVars, LInv, Noticed, LoopTypes, Notices
  <2> QED
    BY <2>1, <2>2, <2>3, <2>4, TypePartsNext DEF LInv
<1>8. QED
  BY <1>2, <1>3, <1>4, <1>5, <1>6, <1>7

\* What a consumer task does changes neither race() nor its sentinel.
LEMMA LGetStart ==
    ASSUME LInv, NEW g \in Getter, NEW c \in Chan, GetStart(g, c)
    PROVE  LInv'
<1>1. ChanTypes /\ TaskTypes /\ LoopTypes /\ g \in Task /\ g \notin Chan
  BY TypeParts, ChanTask, ConstantsAssumption DEF LInv
<1>2. UNCHANGED <<waiters, registered, fut, cancel, held, race, notify, posted, thread, unseen, scene, sent, dropped>>
  BY DEF GetStart
<1>3. /\ on' = [on EXCEPT ![g] = c]
      /\ pc' = pc \/ pc' = [pc EXCEPT ![g] = "saw_empty"]
      /\ items' # items => items' = [items EXCEPT ![c] = Tail(@)] /\ items[c] # <<>>
      /\ got' # got => got' = [got EXCEPT ![c] = Append(@, Head(items[c]))] /\ items[c] # <<>>
  BY DEF GetStart, Consume
<1>4. items[c] # <<>> => Head(items[c]) \in 1..MaxPut /\ Tail(items[c]) \in Seq(1..MaxPut)
  BY <1>1, HeadTail DEF ChanTypes
<1>5. items' \in [Chan -> Seq(1..MaxPut)] /\ got' \in [Chan -> Seq(1..MaxPut)]
  <2>1. CASE items[c] = <<>>
    BY <1>1, <1>3, <2>1 DEF ChanTypes
  <2>2. CASE items[c] # <<>>
    <3>1. Append(got[c], Head(items[c])) \in Seq(1..MaxPut)
      BY <1>1, <1>4, <2>2 DEF ChanTypes
    <3> QED
      BY <1>1, <1>3, <1>4, <2>2, <3>1 DEF ChanTypes
  <2> QED
    BY <2>1, <2>2
<1>6. ChanTypes' /\ TaskTypes' /\ LoopTypes'
  BY <1>1, <1>2, <1>3, <1>5 DEF ChanTypes, TaskTypes, LoopTypes, Place
<1>7. Hands' /\ Drains' /\ Reaping'
  <2>1. \A d \in Chan : d # g /\ d \in Task
    BY <1>1, ChanTask
  <2>2. on \in [Task -> Chan] /\ pc \in [Task -> Place]
    BY <1>1 DEF TaskTypes
  <2>3. \A d \in Chan : pc'[d] = pc[d]
    BY <1>3, <2>1, <2>2
  <2>4. \A d \in Chan : on'[d] = on[d]
    BY <1>3, <2>1, <2>2
  <2> QED
    BY <1>1, <1>2, <2>3, <2>4 DEF LInv, Hands, Drains, Reaping, LoopTypes, Races
<1>8. NoGetters'
  BY <1>2 DEF GetStart, NoGetters
<1>9. Noticed'
  <2>1. ASSUME NEW d \in registered, items[d] = <<>> PROVE items'[d] = <<>>
    BY <1>1, <1>3, <2>1 DEF ChanTypes
  <2> QED
    BY <1>2, <2>1 DEF LInv, Noticed
<1>10. QED
  BY <1>6, <1>7, <1>8, <1>9, TypePartsNext DEF LInv

LEMMA LTake ==
    ASSUME LInv, NEW t \in Task, Take(t)
    PROVE  LInv'
<1>1. ChanTypes /\ TaskTypes /\ LoopTypes
  BY TypeParts DEF LInv
<1>2. on[t] \in Chan /\ items[on[t]] # <<>> /\ (t \in Chan => on[t] = t)
  BY <1>1 DEF Take, TaskTypes, LInv, Hands
<1>3. Head(items[on[t]]) \in 1..MaxPut /\ Tail(items[on[t]]) \in Seq(1..MaxPut)
  BY <1>1, <1>2, HeadTail DEF ChanTypes
<1>4. items' \in [Chan -> Seq(1..MaxPut)] /\ fut' \in [Task -> FutState]
  BY <1>1, <1>3, SetFutType DEF LInv, Take, ChanTypes, FutState
<1>5. UNCHANGED <<waiters, registered, on, cancel, race, notify, posted, thread, unseen, scene, sent, dropped>>
  BY DEF Take
<1>6. pc[t] \in {"ready", "wait"} /\ ~cancel[t]
  BY DEF Take, Runnable
<1>7. Noticed'
  <2>1. items' = [items EXCEPT ![on[t]] = Tail(@)]
    BY DEF Take
  <2>2. ASSUME NEW d \in registered, items[d] = <<>> PROVE items'[d] = <<>>
    BY <1>1, <1>2, <2>1, <2>2 DEF ChanTypes
  <2> QED
    BY <1>5, <2>2 DEF LInv, Noticed
<1>8. CASE t \in Chan
  <2>1. /\ pc' = [pc EXCEPT ![t] = "done"]
        /\ held' = [held EXCEPT ![t] = Head(items[t])] /\ got' = got
    BY <1>8 DEF Take
  <2>2. Head(items[t]) \in 1..MaxPut
    BY <1>2, <1>3, <1>8
  <2>3. ChanTypes' /\ TaskTypes' /\ LoopTypes'
    <3>1. held' \in [Chan -> 0..MaxPut]
      BY <1>1, <1>8, <2>1, <2>2 DEF TaskTypes
    <3>2. pc' \in [Task -> Place]
      BY <1>1, <2>1 DEF TaskTypes, Place
    <3> QED
      BY <1>1, <1>4, <1>5, <2>1, <3>1, <3>2 DEF ChanTypes, TaskTypes, LoopTypes
  <2>4. Hands'
    BY <1>1, <1>5, <1>8, <2>1, <2>2, ConstantsAssumption DEF LInv, Hands, TaskTypes, ChanTypes
  <2>5. Drains' /\ Reaping' /\ NoGetters'
    BY <1>1, <1>5, <1>6, <1>8, <2>1, ChanTask, ConstantsAssumption DEF LInv, Drains, Reaping, NoGetters, TaskTypes
  <2> QED
    BY <1>7, <2>3, <2>4, <2>5, TypePartsNext DEF LInv
<1>9. CASE t \notin Chan
  <2>1. /\ pc' = [pc EXCEPT ![t] = "idle"] /\ held' = held
        /\ got' = [got EXCEPT ![on[t]] = Append(@, Head(items[on[t]]))]
    BY <1>9 DEF Take, Consume
  <2>2. got' \in [Chan -> Seq(1..MaxPut)]
    BY <1>1, <1>2, <1>3, <2>1 DEF ChanTypes
  <2>3. ChanTypes' /\ TaskTypes' /\ LoopTypes'
    BY <1>1, <1>4, <1>5, <2>1, <2>2 DEF ChanTypes, TaskTypes, LoopTypes, Place
  <2>4. Hands' /\ Drains' /\ Reaping' /\ NoGetters'
    <3>1. \A d \in Chan : pc'[d] = pc[d]
      BY <1>1, <1>9, <2>1, ChanTask DEF TaskTypes
    <3>2. \A g \in Getter : pc[g] = "idle" => pc'[g] = "idle"
      BY <1>1, <2>1, ChanTask DEF TaskTypes
    <3>3. Hands' /\ Drains' /\ Reaping'
      BY <1>1, <1>5, <2>1, <3>1 DEF LInv, Hands, Drains, Reaping, LoopTypes, Races
    <3>4. NoGetters'
      BY <1>5, <3>2 DEF LInv, NoGetters
    <3> QED
      BY <3>3, <3>4
  <2> QED
    BY <1>7, <2>3, <2>4, TypePartsNext DEF LInv
<1>10. QED
  BY <1>8, <1>9

\* A consumer that awaits, or stops: it moves between these places and its
\* channel keeps its items.
LEMMA LMoves ==
    ASSUME LInv, NEW t \in Task,
           UNCHANGED <<items, registered, on, held, race, notify, thread, unseen, scene, sent, got, dropped>>,
           waiters' \in [Chan -> Seq(Task)], fut' \in [Task -> FutState],
           posted' \in Posts, posted'.set = posted.set,
           cancel' \in [Task -> BOOLEAN],
           \A u \in Task \ {t} : cancel[u] => cancel'[u],
           NEW p \in Place, pc' = [pc EXCEPT ![t] = p], p # "done",
           pc[t] \in {"ready", "saw_empty", "wait"},
           p \in {"ready", "saw_empty", "wait"} => (cancel[t] => cancel'[t])
    PROVE  LInv'
<1>1. ChanTypes /\ TaskTypes /\ LoopTypes
  BY TypeParts DEF LInv
<1>2. ChanTypes' /\ LoopTypes'
  BY <1>1 DEF ChanTypes, LoopTypes
<1>3. TaskTypes'
  BY <1>1 DEF TaskTypes
<1>4. Hands'
  BY <1>1 DEF LInv, Hands, TaskTypes
<1>5. Drains'
  BY <1>1, ChanTask DEF LInv, Drains, TaskTypes
<1>6. NoGetters'
  BY <1>1, ChanTask DEF LInv, NoGetters, TaskTypes
<1>7. Noticed'
  BY DEF LInv, Noticed
<1>8. Reaping'
  <2>1. pc \in [Task -> Place] /\ race.done \subseteq Chan /\ Chan \subseteq Task
    BY <1>1, ChanTask DEF TaskTypes, LoopTypes, Races
  <2>2. \A c \in Chan : pc'[c] = IF c = t THEN p ELSE pc[c]
    BY <2>1
  <2>3. ASSUME race.phase = "reaping" PROVE \A c \in race.done : pc'[c] \in {"done", "cancelled"}
    BY <2>1, <2>2, <2>3 DEF LInv, Reaping, Place
  <2>4. ASSUME race.phase = "reaping" PROVE \A c \in Chan : pc'[c] = "done" => c \in race.done
    BY <2>1, <2>2, <2>4 DEF LInv, Reaping
  <2>5. ASSUME race.phase = "reaping", NEW c \in Chan, pc'[c] \in {"ready", "saw_empty", "wait"}
        PROVE  cancel'[c]
    BY <2>1, <2>2, <2>5 DEF LInv, Reaping
  <2> QED
    BY <2>3, <2>4, <2>5 DEF Reaping
<1>9. QED
  BY <1>2, <1>3, <1>4, <1>5, <1>6, <1>7, <1>8, TypePartsNext DEF LInv

LEMMA LAwait ==
    ASSUME LInv, NEW t \in Task, SeeEmpty(t) \/ Register(t)
    PROVE  LInv'
<1>1. ChanTypes /\ TaskTypes /\ LoopTypes
  BY TypeParts DEF LInv
<1>2. fut' \in [Task -> FutState]
  BY SetFutType DEF LInv, SeeEmpty, Register, FutState
<1>3. waiters' \in [Chan -> Seq(Task)]
  <2>1. on[t] \in Chan /\ waiters \in [Chan -> Seq(Task)]
    BY <1>1 DEF ChanTypes, TaskTypes
  <2>2. Append(waiters[on[t]], t) \in Seq(Task)
    BY <2>1
  <2>3. waiters' = waiters \/ waiters' = [waiters EXCEPT ![on[t]] = Append(@, t)]
    BY DEF SeeEmpty, Register, chanVars
  <2> QED
    BY <2>1, <2>2, <2>3
<1>4. UNCHANGED <<items, registered, on, cancel, held, race, notify, posted, thread, unseen, scene, sent, got, dropped>>
  BY DEF SeeEmpty, Register, chanVars, history
<1>5. posted' \in Posts /\ cancel' \in [Task -> BOOLEAN]
  BY <1>1, <1>4 DEF LoopTypes, TaskTypes
<1>6. CASE SeeEmpty(t)
  <2>1. pc' = [pc EXCEPT ![t] = "saw_empty"] /\ pc[t] \in {"ready", "wait"}
    BY <1>6 DEF SeeEmpty, Runnable
  <2>2. "saw_empty" \in Place
    BY DEF Place
  <2> QED
    BY <1>2, <1>3, <1>4, <1>5, <2>1, <2>2, LMoves
<1>7. CASE Register(t)
  <2>1. pc' = [pc EXCEPT ![t] = "wait"] /\ pc[t] = "saw_empty"
    BY <1>7 DEF Register
  <2>2. "wait" \in Place
    BY DEF Place
  <2> QED
    BY <1>2, <1>3, <1>4, <1>5, <2>1, <2>2, LMoves
<1>8. QED
  BY <1>6, <1>7

LEMMA LeaveTypes ==
    ASSUME TypeOK, NEW t \in Task, LeaveWaiters(t)
    PROVE  waiters' \in [Chan -> Seq(Task)] /\ fut' \in [Task -> FutState]
<1> DEFINE ws == Without(waiters[on[t]], t)
<1>1. on[t] \in Chan /\ waiters[on[t]] \in Seq(Task)
  BY DEF TypeOK
<1>2. ws \in Seq(Task)
  BY <1>1, WithoutType
<1>3. StillWaiting(ws, fut) \in Seq(Task)
  <2> HIDE DEF ws
  <2> QED
    BY <1>2, StillWaitingType
<1>4. waiters' \in [Chan -> Seq(Task)]
  <2>1. waiters' = [waiters EXCEPT ![on[t]] = StillWaiting(ws, fut)] \/ waiters' = [waiters EXCEPT ![on[t]] = ws]
    BY DEF LeaveWaiters
  <2> HIDE DEF ws
  <2> QED
    BY <1>1, <1>2, <1>3, <2>1 DEF TypeOK
<1>5. fut' \in [Task -> FutState]
  <2>1. SetFut(Woken(ws, fut), "set") \in [Task -> FutState] /\ SetFut({t}, "none") \in [Task -> FutState]
    BY SetFutType DEF FutState
  <2>2. \/ fut' = [SetFut(Woken(ws, fut), "set") EXCEPT ![t] = "none"]
        \/ fut' = SetFut({t}, "none")
    BY DEF LeaveWaiters
  <2> HIDE DEF ws
  <2> QED
    BY <2>1, <2>2 DEF FutState
<1>6. QED
  BY <1>4, <1>5

LEMMA LStops ==
    ASSUME LInv, NEW t \in Task, Cancelled(t) \/ NeverRan(t)
    PROVE  LInv'
<1>1. ChanTypes /\ TaskTypes /\ LoopTypes
  BY TypeParts DEF LInv
<1>2. fut' \in [Task -> FutState] /\ waiters' \in [Chan -> Seq(Task)]
  BY <1>1, LeaveTypes DEF LInv, Cancelled, NeverRan, chanVars, ChanTypes, TaskTypes
<1>3. UNCHANGED <<items, registered, on, held, race, notify, posted, thread, unseen, scene, sent, got, dropped>>
  BY DEF Cancelled, NeverRan, chanVars, history
<1>4. cancel' = [cancel EXCEPT ![t] = FALSE]
  BY DEF Cancelled, NeverRan
<1>5. posted' \in Posts /\ cancel' \in [Task -> BOOLEAN] /\ \A u \in Task \ {t} : cancel[u] => cancel'[u]
  BY <1>1, <1>3, <1>4 DEF LoopTypes, TaskTypes
<1>6. \E p \in {"cancelled", "idle"} : pc' = [pc EXCEPT ![t] = p]
  BY DEF Cancelled, NeverRan
<1>7. PICK p \in {"cancelled", "idle"} : pc' = [pc EXCEPT ![t] = p]
  BY <1>6
<1>8. pc[t] \in {"wait", "ready"} /\ p \in Place
  BY DEF Cancelled, NeverRan, Place
<1>9. QED
  BY <1>2, <1>3, <1>5, <1>7, <1>8, LMoves

LEMMA LCancelGet ==
    ASSUME LInv, NEW g \in Getter, CancelGet(g)
    PROVE  LInv'
<1>1. ChanTypes /\ TaskTypes /\ LoopTypes
  BY TypeParts DEF LInv
<1>2. UNCHANGED <<chanVars, pc, on, held, race, notify, thread, unseen, scene, history>>
  BY DEF CancelGet
<1>3. /\ cancel' \in [Task -> BOOLEAN] /\ fut' \in [Task -> FutState] /\ posted' \in Posts
      /\ posted'.set = posted.set
  BY CancelTasksTypes DEF LInv, CancelGet
<1>4. \A c \in Chan : cancel[c] => cancel'[c]
  BY ChanTask DEF CancelGet, CancelTasks
<1>5. ChanTypes' /\ TaskTypes' /\ LoopTypes'
  BY <1>1, <1>2, <1>3 DEF ChanTypes, TaskTypes, LoopTypes, chanVars, history
<1>6. Hands' /\ Drains' /\ Reaping' /\ NoGetters' /\ Noticed'
  BY <1>2, <1>3, <1>4 DEF LInv, Hands, Drains, Reaping, NoGetters, Noticed, chanVars
<1>7. QED
  BY <1>5, <1>6, TypePartsNext DEF LInv

\* Items leave a channel, and no task moves.
LEMMA LEmptied ==
    ASSUME LInv, UNCHANGED <<pc, on, held, cancel, race, posted, thread, scene>>,
           ChanTypes', fut' \in [Task -> FutState], notify' \in Notices, unseen' \in BOOLEAN,
           race.phase = "waiting" => notify' = notify,
           \A c \in Chan : items[c] = <<>> => items'[c] = <<>>,
           registered' \subseteq registered
    PROVE  LInv'
<1>1. ChanTypes /\ TaskTypes /\ LoopTypes
  BY TypeParts DEF LInv
<1>2. TaskTypes' /\ LoopTypes'
  BY <1>1 DEF TaskTypes, LoopTypes
<1>3. Hands' /\ Drains' /\ Reaping' /\ NoGetters'
  BY DEF LInv, Hands, Drains, Reaping, NoGetters
<1>4. Noticed'
  BY <1>1 DEF LInv, Noticed, ChanTypes
<1>5. QED
  BY <1>2, <1>3, <1>4, TypePartsNext DEF LInv

LEMMA LTaken ==
    ASSUME LInv, NEW c \in Chan, Drain(c) \/ PopLast(c) \/ Flush(c) \/ RemoveChannel(c)
    PROVE  LInv'
<1>1. ChanTypes /\ TaskTypes /\ LoopTypes
  BY TypeParts DEF LInv
<1>2. items[c] \in Seq(1..MaxPut) /\ got[c] \in Seq(1..MaxPut) /\ <<>> \in Seq(1..MaxPut)
  BY <1>1 DEF ChanTypes
<1>3. UNCHANGED <<pc, on, held, cancel, race, notify, posted, thread, unseen, scene>>
  BY DEF Drain, PopLast, Flush, RemoveChannel, taskVars
<1>4. notify' \in Notices /\ unseen' \in BOOLEAN
  BY <1>1, <1>3 DEF LoopTypes
<1>5. CASE Drain(c)
  <2>1. ChanTypes'
    <3>1. got[c] \o items[c] \in Seq(1..MaxPut)
      BY <1>2
    <3> QED
      BY <1>1, <1>2, <1>5, <3>1 DEF Drain, ChanTypes
  <2>2. /\ fut' \in [Task -> FutState] /\ registered' \subseteq registered
        /\ \A d \in Chan : items[d] = <<>> => items'[d] = <<>>
    BY <1>1, <1>5 DEF Drain, taskVars, TaskTypes, ChanTypes
  <2> QED
    BY <1>3, <1>4, <2>1, <2>2, LEmptied
<1>6. CASE PopLast(c)
  <2>1. items[c] # <<>>
    BY <1>6 DEF PopLast
  <2>2. items[c][Len(items[c])] \in 1..MaxPut /\ SubSeq(items[c], 1, Len(items[c]) - 1) \in Seq(1..MaxPut)
    BY <1>2, <2>1, HeadTail
  <2>3. ChanTypes'
    BY <1>1, <1>6, <2>2 DEF PopLast, ChanTypes
  <2>4. /\ fut' \in [Task -> FutState] /\ registered' \subseteq registered
        /\ \A d \in Chan : items[d] = <<>> => items'[d] = <<>>
    BY <1>1, <1>6, <2>1 DEF PopLast, taskVars, TaskTypes, ChanTypes
  <2> QED
    BY <1>3, <1>4, <2>3, <2>4, LEmptied
<1>7. CASE Flush(c) \/ RemoveChannel(c)
  <2>1. Flushed(c) /\ registered' \subseteq registered /\ UNCHANGED <<sent, got>>
    BY <1>7 DEF Flush, RemoveChannel
  <2>2. /\ items' \in [Chan -> Seq(1..MaxPut)] /\ waiters' \in [Chan -> Seq(Task)]
        /\ dropped' \in [Chan -> SUBSET (1..MaxPut)] /\ fut' \in [Task -> FutState]
    BY <2>1, FlushedTypes DEF LInv
  <2>3. ChanTypes'
    BY <1>1, <2>1, <2>2 DEF ChanTypes
  <2>4. \A d \in Chan : items[d] = <<>> => items'[d] = <<>>
    BY <1>1, <2>1 DEF Flushed, ChanTypes
  <2> QED
    BY <1>3, <1>4, <2>1, <2>2, <2>3, <2>4, LEmptied
<1>8. QED
  BY <1>5, <1>6, <1>7

LEMMA LRaceFast == ASSUME LInv, RaceFast PROVE LInv'
<1>1. ChanTypes /\ TaskTypes /\ LoopTypes
  BY TypeParts DEF LInv
<1> DEFINE c == First(Buffered)
<1>2. Buffered \subseteq Chan /\ Buffered \subseteq Nat /\ Buffered # {}
  BY <1>1, ConstantsAssumption DEF RaceFast, Buffered, ChanTypes, Chan
<1>3. c \in Buffered
  BY <1>2, FirstFacts
<1>4. c \in Chan /\ items[c] # <<>>
  BY <1>2, <1>3 DEF Buffered
<1>5. /\ got' = [got EXCEPT ![c] = Append(@, Head(items[c]))]
      /\ items' = [items EXCEPT ![c] = Tail(@)]
  BY DEF RaceFast, Consume
<1> HIDE DEF c
<1>6. Head(items[c]) \in 1..MaxPut /\ Tail(items[c]) \in Seq(1..MaxPut)
  BY <1>1, <1>4, HeadTail DEF ChanTypes
<1>7. Append(got[c], Head(items[c])) \in Seq(1..MaxPut)
  BY <1>1, <1>4, <1>6 DEF ChanTypes
<1>8. UNCHANGED <<waiters, registered, taskVars, race, posted, thread, scene, sent, dropped>>
  BY DEF RaceFast
<1>9. ChanTypes'
  BY <1>1, <1>4, <1>5, <1>6, <1>7, <1>8 DEF ChanTypes
<1>10. race.phase # "waiting" /\ notify' \in Notices /\ unseen' \in BOOLEAN
  BY <1>1 DEF RaceFast, LoopTypes, Notices
<1>11. fut' \in [Task -> FutState] /\ \A d \in Chan : items[d] = <<>> => items'[d] = <<>>
  BY <1>1, <1>4, <1>5, <1>8 DEF TaskTypes, ChanTypes, taskVars
<1>12. QED
  BY <1>8, <1>9, <1>10, <1>11, LEmptied DEF taskVars

-----------------------------------------------------------------------------
(* The steps of race().                                                    *)

LEMMA LRaceStart == ASSUME LInv, RaceStart PROVE LInv'
<1>1. ChanTypes /\ TaskTypes /\ LoopTypes
  BY TypeParts DEF LInv
<1>2. ChanTypes'
  BY <1>1 DEF RaceStart, ChanTypes, chanVars, history
<1>3. TaskTypes'
  BY <1>1 DEF RaceStart, TaskTypes, Place
<1>4. LoopTypes' /\ race'.phase = "waiting" /\ notify'.task = "ready"
  BY <1>1 DEF RaceStart, LoopTypes, Races, Notices
<1>5. Hands'
  BY <1>1, ChanTask DEF RaceStart, LInv, Hands, Drains, TaskTypes
<1>6. Drains' /\ Reaping'
  BY <1>4 DEF Drains, Reaping
<1>7. NoGetters'
  BY <1>1, ChanTask, ConstantsAssumption DEF RaceStart, LInv, NoGetters, ChanTypes
<1>8. Noticed'
  BY <1>1, <1>4 DEF RaceStart, Buffered, Noticed, chanVars, ChanTypes
<1>9. QED
  BY <1>2, <1>3, <1>4, <1>5, <1>6, <1>7, <1>8, TypePartsNext DEF LInv

\* race() ends its drains: none of them moves yet.
LEMMA LEnds ==
    ASSUME LInv, RaceWake \/ RaceRaise
    PROVE  LInv'
<1>1. ChanTypes /\ TaskTypes /\ LoopTypes
  BY TypeParts DEF LInv
<1>2. UNCHANGED <<chanVars, pc, on, held, thread, unseen, scene, history>> /\ CancelTasks(InFlight)
  BY DEF RaceWake, RaceRaise
<1>3. /\ cancel' \in [Task -> BOOLEAN] /\ fut' \in [Task -> FutState] /\ posted' \in Posts
  BY <1>2, CancelTasksTypes DEF LInv
<1>4. Ended \subseteq Chan
  BY DEF Ended
<1>5. notify' \in Notices /\ race' \in Races /\ race'.phase \in {"reaping", "unwinding"}
  BY <1>1, <1>4 DEF RaceWake, RaceRaise, LoopTypes, Races, Notices
<1>6. ChanTypes' /\ TaskTypes' /\ LoopTypes'
  BY <1>1, <1>2, <1>3, <1>5 DEF ChanTypes, TaskTypes, LoopTypes, chanVars, history
<1>7. Hands' /\ Drains' /\ NoGetters' /\ Noticed'
  BY <1>2, <1>5 DEF LInv, Hands, Drains, NoGetters, Noticed
<1>8. Reaping'
  <2>1. CASE RaceWake
    <3>1. race'.done = Ended /\ pc' = pc
      BY <1>1, <2>1 DEF RaceWake, LoopTypes, Races
    <3>2. \A c \in InFlight : cancel'[c]
      BY <1>2, ChanTask DEF CancelTasks, InFlight
    <3> QED
      BY <3>1, <3>2 DEF Reaping, Ended, InFlight
  <2>2. CASE RaceRaise
    BY <1>1, <2>2 DEF RaceRaise, Reaping, LoopTypes, Races
  <2> QED
    BY <2>1, <2>2
<1>9. QED
  BY <1>6, <1>7, <1>8, TypePartsNext DEF LInv

LEMMA LRaceEmpty == ASSUME LInv, RaceEmpty PROVE LInv'
<1>1. ChanTypes /\ TaskTypes /\ LoopTypes
  BY TypeParts DEF LInv
<1>2. ChanTypes'
  BY <1>1 DEF RaceEmpty, ChanTypes, chanVars, history
<1>3. TaskTypes'
  BY <1>1 DEF RaceEmpty, TaskTypes, Place
<1>4. LoopTypes' /\ race'.phase = "turn"
  BY <1>1 DEF RaceEmpty, LoopTypes, Races, Notices
<1>5. Hands'
  BY <1>1, ChanTask DEF RaceEmpty, Reaped, LInv, Hands, Reaping, TaskTypes
<1>6. Drains' /\ Reaping' /\ Noticed'
  BY <1>4, ChanTask DEF RaceEmpty, Drains, Reaping, Noticed
<1>7. NoGetters'
  BY <1>1, ChanTask DEF RaceEmpty, LInv, NoGetters
<1>8. QED
  BY <1>2, <1>3, <1>4, <1>5, <1>6, <1>7, TypePartsNext DEF LInv

\* The winner of a reaped race, and the others that have an item.
LEMMA WinFacts ==
    ASSUME LInv, RaceWin
    PROVE  LET w == First(race.done)
               L == {c \in race.done \ {w} : pc[c] = "done"}
           IN /\ w \in Chan /\ held[w] \in 1..MaxPut
              /\ L \in SUBSET Chan /\ \A c \in L : held[c] # 0
              /\ w \notin L
              /\ \A c \in Chan : held[c] # 0 => c = w \/ c \in L
<1> DEFINE w == First(race.done)
           L == {c \in race.done \ {w} : pc[c] = "done"}
<1>1. ChanTypes /\ TaskTypes /\ LoopTypes
  BY TypeParts DEF LInv
<1>2. race.done \subseteq Chan /\ race.done # {} /\ race.done \subseteq Nat
  BY <1>1 DEF RaceWin, LoopTypes, Races, Chan
<1>3. w \in race.done
  BY <1>2, FirstFacts
<1>4. pc[w] = "done" /\ race.phase = "reaping"
  BY DEF RaceWin, Reaped
<1>5. w \in Chan /\ held[w] # 0
  BY <1>2, <1>3, <1>4 DEF LInv, Hands
<1>6. held[w] \in 1..MaxPut
  BY <1>1, <1>5, ConstantsAssumption DEF TaskTypes
<1>7. L \in SUBSET Chan /\ \A c \in L : held[c] # 0
  BY <1>2 DEF LInv, Hands
<1>8. \A c \in Chan : held[c] # 0 => c = w \/ c \in L
  BY <1>4 DEF LInv, Hands, Reaping
<1>9. QED
  BY <1>5, <1>6, <1>7, <1>8

LEMMA LRaceWin == ASSUME LInv, RaceWin PROVE LInv'
<1>1. ChanTypes /\ TaskTypes /\ LoopTypes
  BY TypeParts DEF LInv
<1> DEFINE w == First(race.done)
           L == {c \in race.done \ {w} : pc[c] = "done"}
<1>2. /\ w \in Chan /\ held[w] \in 1..MaxPut
      /\ L \in SUBSET Chan /\ \A c \in L : held[c] # 0
  BY WinFacts
<1>3. RestoreFront(L) /\ got' = [got EXCEPT ![w] = Append(@, held[w])]
  BY DEF RaceWin, Consume
<1> HIDE DEF w, L
<1>4. /\ items' \in [Chan -> Seq(1..MaxPut)] /\ waiters' \in [Chan -> Seq(Task)]
      /\ fut' \in [Task -> FutState]
  BY <1>2, <1>3, RestoreTypes DEF LInv
<1>5. Append(got[w], held[w]) \in Seq(1..MaxPut)
  BY <1>1, <1>2 DEF ChanTypes
<1>6. ChanTypes'
  BY <1>1, <1>2, <1>3, <1>4, <1>5 DEF ChanTypes, RaceWin
<1>7. TaskTypes'
  BY <1>1, <1>4, ConstantsAssumption DEF TaskTypes, RaceWin, Place
<1>8. LoopTypes' /\ race'.phase = "turn"
  BY <1>1 DEF RaceWin, LoopTypes, Races, Notices
<1>9. Hands'
  BY <1>1, ChanTask DEF RaceWin, LInv, Hands
<1>10. Drains' /\ Reaping' /\ Noticed'
  BY <1>8, ChanTask DEF RaceWin, Drains, Reaping, Noticed
<1>11. NoGetters'
  BY <1>1, ChanTask DEF RaceWin, LInv, NoGetters
<1>12. QED
  BY <1>6, <1>7, <1>8, <1>9, <1>10, <1>11, TypePartsNext DEF LInv

LEMMA LUnwind == ASSUME LInv, NEW c \in Chan, Unwind(c) PROVE LInv'
<1>1. ChanTypes /\ TaskTypes /\ LoopTypes
  BY TypeParts DEF LInv
<1> DEFINE L == {c} \cap {d \in Chan : pc[d] = "done"}
<1>2. L \in SUBSET Chan /\ \A d \in L : held[d] # 0
  BY DEF LInv, Hands
<1>3. RestoreFront(L)
  BY DEF Unwind
<1> HIDE DEF L
<1>4. /\ items' \in [Chan -> Seq(1..MaxPut)] /\ waiters' \in [Chan -> Seq(Task)]
      /\ fut' \in [Task -> FutState]
  BY <1>2, <1>3, RestoreTypes DEF LInv
<1>5. /\ pc' = [pc EXCEPT ![c] = "idle"] /\ held' = [held EXCEPT ![c] = 0]
      /\ UNCHANGED <<registered, on, cancel, race, posted, thread, unseen, scene, history>>
      /\ race.phase = "unwinding" /\ notify' \in {notify, Signalled}
  BY DEF Unwind
<1>6. ChanTypes' /\ TaskTypes'
  <2>1. ChanTypes'
    BY <1>1, <1>4, <1>5 DEF ChanTypes, history
  <2>2. pc \in [Task -> Place] /\ held \in [Chan -> 0..MaxPut] /\ "idle" \in Place /\ 0 \in 0..MaxPut
    BY <1>1, ConstantsAssumption DEF TaskTypes, Place
  <2>3. pc' \in [Task -> Place]
    BY <1>5, <2>2
  <2>4. held' \in [Chan -> 0..MaxPut]
    BY <1>5, <2>2
  <2> QED
    BY <1>1, <1>4, <1>5, <2>1, <2>3, <2>4 DEF TaskTypes
<1>7. LoopTypes'
  BY <1>1, <1>5, SignalledType DEF LInv, LoopTypes
<1>8. Hands'
  BY <1>1, <1>5, ChanTask DEF LInv, Hands, TaskTypes
<1>9. Drains' /\ Reaping' /\ Noticed'
  BY <1>5 DEF Drains, Reaping, Noticed
<1>10. NoGetters'
  BY <1>1, <1>5, ChanTask DEF LInv, NoGetters, TaskTypes
<1>11. QED
  BY <1>6, <1>7, <1>8, <1>9, <1>10, TypePartsNext DEF LInv

LEMMA LRaceRaised == ASSUME LInv, RaceRaised PROVE LInv'
<1>1. ChanTypes /\ TaskTypes /\ LoopTypes
  BY TypeParts DEF LInv
<1>2. ChanTypes' /\ TaskTypes'
  BY <1>1 DEF RaceRaised, ChanTypes, TaskTypes, chanVars, taskVars, history
<1>3. LoopTypes' /\ race'.phase = "turn"
  BY <1>1 DEF RaceRaised, LoopTypes, Races
<1>4. Hands' /\ Drains' /\ Reaping' /\ NoGetters' /\ Noticed'
  BY <1>3 DEF RaceRaised, taskVars, LInv, Hands, Drains, Reaping, NoGetters, Noticed
<1>5. QED
  BY <1>2, <1>3, <1>4, TypePartsNext DEF LInv

LEMMA LStep == LInv /\ [Next]_vars => LInv'
<1> SUFFICES ASSUME LInv, [Next]_vars PROVE LInv'
  OBVIOUS
<1>1. CASE Environment
  BY <1>1, LLoop, LPut, LThread, LTaken, LCancelGet, LGetStart DEF Environment
<1>2. CASE RaceStep
  BY <1>2, LRaceFast, LRaceStart, LLoop, LEnds, LRaceEmpty, LRaceWin, LRaceRaised, LUnwind DEF RaceStep
<1>3. CASE LoopCallback
  BY <1>3, LLoop DEF LoopCallback
<1>4. CASE ThreadStep
  BY <1>4, LThread DEF ThreadStep
<1>5. ASSUME NEW t \in Task, TaskStep(t) PROVE LInv'
  BY <1>5, LTake, LAwait, LStops DEF TaskStep
<1>6. CASE UNCHANGED vars
  <2>1. ChanTypes' /\ TaskTypes' /\ LoopTypes'
    BY <1>6, TypeParts DEF LInv, vars, chanVars, taskVars, history, ChanTypes, TaskTypes, LoopTypes
  <2>2. Hands' /\ Drains' /\ Reaping' /\ NoGetters' /\ Noticed'
    BY <1>6 DEF LInv, vars, chanVars, taskVars, Hands, Drains, Reaping, NoGetters, Noticed
  <2> QED
    BY <2>1, <2>2, TypePartsNext DEF LInv
<1>7. QED
  BY <1>1, <1>2, <1>3, <1>4, <1>5, <1>6 DEF Next

-----------------------------------------------------------------------------
(* Types hold in every reachable state.                                    *)
THEOREM TypesHold == Spec => []TypeOK
<1>1. LInv => TypeOK
  BY DEF LInv
<1>2. QED
  BY LInitial, LStep, <1>1, PTL DEF Spec

(* However race() ends, no item stays in one of its drain tasks.           *)
THEOREM HandsAreEmpty == Spec => []NothingLeftInHand
<1>1. LInv => NothingLeftInHand
  BY DEF LInv, Hands, Drains, NothingLeftInHand
<1>2. QED
  BY LInitial, LStep, <1>1, PTL DEF Spec

(* No lost wakeup: a dispatcher that waits in race() while nothing else is *)
(* about to run has no buffered item on a registered channel.              *)
THEOREM RaceIsWoken == Spec => []RaceNotStranded
<1>1. LInv => RaceNotStranded
  BY DEF LInv, Noticed, Quiescent, RaceNotStranded
<1>2. QED
  BY LInitial, LStep, <1>1, PTL DEF Spec

-----------------------------------------------------------------------------
(* Items: where the items of a channel are, as sets and without repetition. *)

Distinct(s) == \A i, j \in DOMAIN s : s[i] = s[j] => i = j

LEMMA ElementsFacts ==
    ASSUME NEW S, NEW s \in Seq(S)
    PROVE  /\ Elements(s) \subseteq S
           /\ \A x : x \in Elements(s) <=> \E i \in 1..Len(s) : s[i] = x
           /\ Len(s) \in Nat /\ DOMAIN s = 1..Len(s)
BY DEF Elements

LEMMA AddLast ==
    ASSUME NEW S, NEW s \in Seq(S), NEW x \in S, x \notin Elements(s), Distinct(s)
    PROVE  /\ Elements(Append(s, x)) = Elements(s) \cup {x}
           /\ Distinct(Append(s, x))
<1> DEFINE r == Append(s, x)
<1>1. /\ r \in Seq(S) /\ Len(r) = Len(s) + 1 /\ Len(s) \in Nat
      /\ r[Len(s) + 1] = x /\ \A i \in 1..Len(s) : r[i] = s[i]
      /\ DOMAIN r = 1..(Len(s) + 1) /\ DOMAIN s = 1..Len(s)
  OBVIOUS
<1> HIDE DEF r
<1>2. ASSUME NEW y PROVE y \in Elements(r) <=> y \in Elements(s) \cup {x}
  BY <1>1 DEF Elements
<1>3. \A i \in 1..Len(s) : s[i] # x
  BY <1>1 DEF Elements
<1>4. Distinct(r)
  BY <1>1, <1>3 DEF Distinct
<1>5. QED
  BY <1>2, <1>4 DEF r

LEMMA AddFirst ==
    ASSUME NEW S, NEW s \in Seq(S), NEW x \in S, x \notin Elements(s), Distinct(s)
    PROVE  /\ Elements(<<x>> \o s) = Elements(s) \cup {x}
           /\ Distinct(<<x>> \o s)
<1> DEFINE r == <<x>> \o s
<1>1. /\ r \in Seq(S) /\ Len(s) \in Nat /\ Len(r) = Len(s) + 1
      /\ r[1] = x /\ \A i \in 1..Len(s) : r[i + 1] = s[i]
      /\ DOMAIN r = 1..(Len(s) + 1) /\ DOMAIN s = 1..Len(s)
  OBVIOUS
<1> HIDE DEF r
<1>2. \A i \in 2..(Len(s) + 1) : i - 1 \in 1..Len(s) /\ r[i] = s[i - 1]
  <2>1. ASSUME NEW i \in 2..(Len(s) + 1) PROVE i - 1 \in 1..Len(s) /\ (i - 1) + 1 = i
    BY <1>1
  <2> QED
    BY <1>1, <2>1
<1>3. ASSUME NEW y \in Elements(r) PROVE y \in Elements(s) \cup {x}
  <2>1. PICK i \in 1..(Len(s) + 1) : r[i] = y
    BY <1>1 DEF Elements
  <2>2. i = 1 \/ i \in 2..(Len(s) + 1)
    BY <1>1
  <2> QED
    BY <1>1, <1>2, <2>1, <2>2 DEF Elements
<1>4. ASSUME NEW y \in Elements(s) \cup {x} PROVE y \in Elements(r)
  <2>1. CASE y = x
    BY <1>1, <2>1 DEF Elements
  <2>2. CASE y \in Elements(s)
    <3>1. PICK i \in 1..Len(s) : s[i] = y
      BY <1>1, <2>2 DEF Elements
    <3>2. i + 1 \in DOMAIN r /\ r[i + 1] = y
      BY <1>1, <3>1
    <3> QED
      BY <3>2 DEF Elements
  <2> QED
    BY <2>1, <2>2
<1>5. \A i \in 1..Len(s) : s[i] # x
  BY <1>1 DEF Elements
<1>6. ASSUME NEW i \in DOMAIN r, NEW j \in DOMAIN r, r[i] = r[j] PROVE i = j
  <2>1. (i = 1 \/ i \in 2..(Len(s) + 1)) /\ (j = 1 \/ j \in 2..(Len(s) + 1))
    BY <1>1
  <2>2. CASE i = 1 \/ j = 1
    BY <1>1, <1>2, <1>5, <1>6, <2>1, <2>2
  <2>3. CASE i \in 2..(Len(s) + 1) /\ j \in 2..(Len(s) + 1)
    <3>1. s[i - 1] = s[j - 1] /\ i - 1 \in 1..Len(s) /\ j - 1 \in 1..Len(s)
      BY <1>2, <1>6, <2>3
    <3>2. i - 1 = j - 1
      BY <1>1, <3>1 DEF Distinct
    <3> QED
      BY <1>1, <3>2
  <2> QED
    BY <2>1, <2>2, <2>3
<1>7. QED
  BY <1>3, <1>4, <1>6 DEF Distinct, r

LEMMA TakeFirst ==
    ASSUME NEW S, NEW s \in Seq(S), s # <<>>, Distinct(s)
    PROVE  /\ Head(s) \in Elements(s)
           /\ Elements(Tail(s)) = Elements(s) \ {Head(s)}
           /\ Distinct(Tail(s))
<1> DEFINE r == Tail(s)
<1>1. /\ r \in Seq(S) /\ Len(s) \in Nat \ {0} /\ Len(r) = Len(s) - 1
      /\ Head(s) = s[1] /\ \A i \in 1..(Len(s) - 1) : r[i] = s[i + 1]
      /\ DOMAIN r = 1..(Len(s) - 1) /\ DOMAIN s = 1..Len(s)
  OBVIOUS
<1> HIDE DEF r
<1>2. Head(s) \in Elements(s)
  BY <1>1 DEF Elements
<1>3. ASSUME NEW y \in Elements(r) PROVE y \in Elements(s) \ {Head(s)}
  <2>1. PICK i \in 1..(Len(s) - 1) : r[i] = y
    BY <1>1 DEF Elements
  <2>2. i + 1 \in 1..Len(s) /\ i + 1 # 1 /\ s[i + 1] = y
    BY <1>1, <2>1
  <2>3. y # s[1]
    BY <1>1, <2>2 DEF Distinct
  <2> QED
    BY <1>1, <2>2, <2>3 DEF Elements
<1>4. ASSUME NEW y \in Elements(s) \ {Head(s)} PROVE y \in Elements(r)
  <2>1. PICK i \in 1..Len(s) : s[i] = y
    BY <1>1 DEF Elements
  <2>2. i # 1
    BY <1>1, <1>4, <2>1
  <2>3. i - 1 \in 1..(Len(s) - 1) /\ (i - 1) + 1 = i
    BY <1>1, <2>2
  <2>4. r[i - 1] = y
    BY <1>1, <2>1, <2>3
  <2> QED
    BY <1>1, <2>3, <2>4 DEF Elements
<1>5. ASSUME NEW i \in DOMAIN r, NEW j \in DOMAIN r, r[i] = r[j] PROVE i = j
  <2>1. i + 1 \in 1..Len(s) /\ j + 1 \in 1..Len(s) /\ s[i + 1] = s[j + 1]
    BY <1>1, <1>5
  <2>2. i + 1 = j + 1
    BY <1>1, <2>1 DEF Distinct
  <2> QED
    BY <1>1, <2>2
<1>6. QED
  BY <1>2, <1>3, <1>4, <1>5 DEF Distinct, r

LEMMA TakeLast ==
    ASSUME NEW S, NEW s \in Seq(S), s # <<>>, Distinct(s)
    PROVE  LET r == SubSeq(s, 1, Len(s) - 1)
           IN /\ s[Len(s)] \in Elements(s)
              /\ Elements(r) = Elements(s) \ {s[Len(s)]}
              /\ Distinct(r)
<1> DEFINE r == SubSeq(s, 1, Len(s) - 1)
<1>1. /\ r \in Seq(S) /\ Len(s) \in Nat \ {0} /\ Len(r) = Len(s) - 1
      /\ \A i \in 1..(Len(s) - 1) : r[i] = s[i]
      /\ DOMAIN r = 1..(Len(s) - 1) /\ DOMAIN s = 1..Len(s)
  <2>1. Len(s) \in Nat \ {0} /\ DOMAIN s = 1..Len(s)
    OBVIOUS
  <2>2. /\ r \in Seq(S) /\ Len(r) = Len(s) - 1
        /\ \A i \in 1..(Len(s) - 1) : r[i] = s[1 + i - 1]
    BY <2>1
  <2> HIDE DEF r
  <2> QED
    BY <2>1, <2>2
<1> HIDE DEF r
<1>2. s[Len(s)] \in Elements(s)
  BY <1>1 DEF Elements
<1>3. ASSUME NEW y \in Elements(r) PROVE y \in Elements(s) \ {s[Len(s)]}
  <2>1. PICK i \in 1..(Len(s) - 1) : r[i] = y
    BY <1>1 DEF Elements
  <2>2. i \in 1..Len(s) /\ i # Len(s) /\ s[i] = y
    BY <1>1, <2>1
  <2> QED
    BY <1>1, <2>2 DEF Elements, Distinct
<1>4. ASSUME NEW y \in Elements(s) \ {s[Len(s)]} PROVE y \in Elements(r)
  <2>1. PICK i \in 1..Len(s) : s[i] = y
    BY <1>1 DEF Elements
  <2>2. i \in 1..(Len(s) - 1)
    BY <1>1, <1>4, <2>1
  <2> QED
    BY <1>1, <2>1, <2>2 DEF Elements
<1>5. Distinct(r)
  BY <1>1 DEF Distinct
<1>6. QED
  BY <1>2, <1>3, <1>4, <1>5 DEF r

LEMMA Joined ==
    ASSUME NEW S, NEW s \in Seq(S), NEW u \in Seq(S), Distinct(s), Distinct(u),
           Elements(s) \cap Elements(u) = {}
    PROVE  /\ Elements(s \o u) = Elements(s) \cup Elements(u)
           /\ Distinct(s \o u)
<1> DEFINE r == s \o u
<1>1. /\ r \in Seq(S) /\ Len(s) \in Nat /\ Len(u) \in Nat /\ Len(r) = Len(s) + Len(u)
      /\ \A i \in 1..(Len(s) + Len(u)) : r[i] = IF i <= Len(s) THEN s[i] ELSE u[i - Len(s)]
      /\ DOMAIN r = 1..(Len(s) + Len(u)) /\ DOMAIN s = 1..Len(s) /\ DOMAIN u = 1..Len(u)
  OBVIOUS
<1> HIDE DEF r
<1>2. ASSUME NEW i \in DOMAIN r
      PROVE  \/ i \in DOMAIN s /\ r[i] = s[i]
             \/ i \notin DOMAIN s /\ i - Len(s) \in DOMAIN u /\ r[i] = u[i - Len(s)]
  BY <1>1
<1>3. ASSUME NEW y \in Elements(r) PROVE y \in Elements(s) \cup Elements(u)
  BY <1>2 DEF Elements
<1>4. ASSUME NEW y \in Elements(s) \cup Elements(u) PROVE y \in Elements(r)
  <2>1. CASE y \in Elements(s)
    <3>1. PICK i \in 1..Len(s) : s[i] = y
      BY <1>1, <2>1 DEF Elements
    <3>2. i \in DOMAIN r /\ r[i] = y
      BY <1>1, <3>1
    <3> QED
      BY <3>2 DEF Elements
  <2>2. CASE y \in Elements(u)
    <3>1. PICK i \in 1..Len(u) : u[i] = y
      BY <1>1, <2>2 DEF Elements
    <3>2. i + Len(s) \in DOMAIN r /\ (i + Len(s)) - Len(s) = i /\ ~(i + Len(s) <= Len(s))
      BY <1>1, <3>1
    <3>3. r[i + Len(s)] = y
      BY <1>1, <3>1, <3>2
    <3> QED
      BY <3>2, <3>3 DEF Elements
  <2> QED
    BY <2>1, <2>2
<1>5. ASSUME NEW i \in DOMAIN r, NEW j \in DOMAIN r, r[i] = r[j] PROVE i = j
  <2>1. CASE i \in DOMAIN s /\ j \in DOMAIN s
    BY <1>2, <1>5, <2>1 DEF Distinct
  <2>2. CASE i \notin DOMAIN s /\ j \notin DOMAIN s
    <3>1. i - Len(s) = j - Len(s)
      BY <1>2, <1>5, <2>2 DEF Distinct
    <3> QED
      BY <1>1, <3>1
  <2>3. CASE ~(i \in DOMAIN s <=> j \in DOMAIN s)
    BY <1>2, <1>5, <2>3 DEF Elements
  <2> QED
    BY <2>1, <2>2, <2>3
<1>6. QED
  BY <1>3, <1>4, <1>5 DEF Distinct, r

LEMMA DistinctCount ==
    ASSUME NEW S, NEW s \in Seq(S), Distinct(s)
    PROVE  IsFiniteSet(Elements(s)) /\ Cardinality(Elements(s)) = Len(s)
<1>1. Len(s) \in Nat /\ DOMAIN s = 1..Len(s) /\ s \in [1..Len(s) -> Elements(s)]
  BY DEF Elements
<1>2. IsFiniteSet(1..Len(s)) /\ Cardinality(1..Len(s)) = Len(s)
  BY <1>1, FS_Interval
<1>3. s \in Bijection(1..Len(s), Elements(s))
  <2>1. s \in Injection(1..Len(s), Elements(s))
    BY <1>1 DEF Injection, IsInjective, Distinct
  <2>2. s \in Surjection(1..Len(s), Elements(s))
    BY <1>1 DEF Surjection, Elements
  <2> QED
    BY <2>1, <2>2 DEF Bijection
<1>4. ExistsBijection(1..Len(s), Elements(s))
  BY <1>3 DEF ExistsBijection
<1>5. QED
  BY <1>2, <1>4, FS_Bijection

\* The items 1..n of a channel: s in its deque, h in hand, g consumed, d
\* discarded.
Apart(s, h, g, d) == /\ Distinct(s) /\ Distinct(g)
                     /\ Elements(s) \cap ({h} \ {0}) = {} /\ Elements(s) \cap Elements(g) = {}
                     /\ Elements(s) \cap d = {} /\ Elements(g) \cap d = {}
                     /\ ({h} \ {0}) \cap Elements(g) = {} /\ ({h} \ {0}) \cap d = {}
Parted(s, h, g, d, n) == /\ Apart(s, h, g, d)
                         /\ Elements(s) \cup ({h} \ {0}) \cup Elements(g) \cup d = 1..n

Whole(c) == Parted(items[c], held[c], got[c], dropped[c], sent[c])

Item == 1..MaxPut

LEMMA PutParts ==
    ASSUME NEW s \in Seq(Item), NEW h, NEW g, NEW d, NEW n \in Nat, n + 1 \in Item, Parted(s, h, g, d, n)
    PROVE  Parted(Append(s, n + 1), h, g, d, n + 1)
<1>1. n + 1 \notin 1..n /\ 1..(n + 1) = (1..n) \cup {n + 1}
  OBVIOUS
<1>2. n + 1 \notin Elements(s)
  BY <1>1 DEF Parted
<1>3. Elements(Append(s, n + 1)) = Elements(s) \cup {n + 1} /\ Distinct(Append(s, n + 1))
  BY <1>2, AddLast DEF Parted, Apart
<1>4. Apart(Append(s, n + 1), h, g, d)
  BY <1>1, <1>3 DEF Parted, Apart
<1>5. QED
  BY <1>1, <1>3, <1>4 DEF Parted

LEMMA GetParts ==
    ASSUME NEW s \in Seq(Item), NEW h, NEW g \in Seq(Item), NEW d, NEW n, s # <<>>, Parted(s, h, g, d, n)
    PROVE  Parted(Tail(s), h, Append(g, Head(s)), d, n)
<1>1. Head(s) \in Elements(s) /\ Elements(Tail(s)) = Elements(s) \ {Head(s)} /\ Distinct(Tail(s))
  BY TakeFirst DEF Parted, Apart
<1>2. Head(s) \in Item /\ Head(s) \notin Elements(g)
  BY <1>1, ElementsFacts DEF Parted, Apart
<1>3. Elements(Append(g, Head(s))) = Elements(g) \cup {Head(s)} /\ Distinct(Append(g, Head(s)))
  BY <1>2, AddLast DEF Parted, Apart
<1>4. QED
  BY <1>1, <1>3 DEF Parted, Apart

LEMMA HoldParts ==
    ASSUME NEW s \in Seq(Item), NEW g, NEW d, NEW n, s # <<>>, Parted(s, 0, g, d, n)
    PROVE  Parted(Tail(s), Head(s), g, d, n)
<1>1. Head(s) \in Elements(s) /\ Elements(Tail(s)) = Elements(s) \ {Head(s)} /\ Distinct(Tail(s))
  BY TakeFirst DEF Parted, Apart
<1>2. Head(s) # 0
  <2>1. Elements(s) \subseteq Item
    BY ElementsFacts
  <2> QED
    BY <1>1, <2>1 DEF Item
<1>3. QED
  BY <1>1, <1>2 DEF Parted, Apart

LEMMA RestoreParts ==
    ASSUME NEW s \in Seq(Item), NEW h \in Item, NEW g, NEW d, NEW n, Parted(s, h, g, d, n)
    PROVE  Parted(<<h>> \o s, 0, g, d, n)
<1>1. h # 0
  BY DEF Item
<1>2. h \notin Elements(s)
  BY <1>1 DEF Parted, Apart
<1>3. Elements(<<h>> \o s) = Elements(s) \cup {h} /\ Distinct(<<h>> \o s)
  BY <1>2, AddFirst DEF Parted, Apart
<1>4. QED
  BY <1>1, <1>3 DEF Parted, Apart

LEMMA WinParts ==
    ASSUME NEW s, NEW h \in Item, NEW g \in Seq(Item), NEW d, NEW n, Parted(s, h, g, d, n)
    PROVE  Parted(s, 0, Append(g, h), d, n)
<1>1. h # 0
  BY DEF Item
<1>2. h \notin Elements(g)
  BY <1>1 DEF Parted, Apart
<1>3. Elements(Append(g, h)) = Elements(g) \cup {h} /\ Distinct(Append(g, h))
  BY <1>2, AddLast DEF Parted, Apart
<1>4. QED
  BY <1>1, <1>3 DEF Parted, Apart

LEMMA NoneParts == Elements(<<>>) = {} /\ Distinct(<<>>)
BY DEF Elements, Distinct

LEMMA DrainParts ==
    ASSUME NEW s \in Seq(Item), NEW h, NEW g \in Seq(Item), NEW d, NEW n, Parted(s, h, g, d, n)
    PROVE  Parted(<<>>, h, g \o s, d, n)
<1>1. Elements(g \o s) = Elements(g) \cup Elements(s) /\ Distinct(g \o s)
  BY Joined DEF Parted, Apart
<1>2. QED
  BY <1>1, NoneParts DEF Parted, Apart

LEMMA PopParts ==
    ASSUME NEW s \in Seq(Item), NEW h, NEW g, NEW d, NEW n, s # <<>>, Parted(s, h, g, d, n)
    PROVE  Parted(SubSeq(s, 1, Len(s) - 1), h, g, d \cup {s[Len(s)]}, n)
<1> DEFINE r == SubSeq(s, 1, Len(s) - 1)
           x == s[Len(s)]
<1>1. x \in Elements(s) /\ Elements(r) = Elements(s) \ {x} /\ Distinct(r)
  BY TakeLast DEF Parted, Apart
<1> HIDE DEF r, x
<1>2. Parted(r, h, g, d \cup {x}, n)
  BY <1>1 DEF Parted, Apart
<1>3. QED
  BY <1>2 DEF r, x

LEMMA FlushParts ==
    ASSUME NEW s, NEW h, NEW g, NEW d, NEW n, Parted(s, h, g, d, n)
    PROVE  Parted(<<>>, h, g, d \cup Elements(s), n)
BY NoneParts DEF Parted, Apart

LEMMA DisjointCount ==
    ASSUME NEW A, NEW B, IsFiniteSet(A), IsFiniteSet(B), A \cap B = {}
    PROVE  IsFiniteSet(A \cup B) /\ Cardinality(A \cup B) = Cardinality(A) + Cardinality(B)
<1>1. /\ IsFiniteSet(A \cup B)
      /\ Cardinality(A \cup B) = Cardinality(A) + Cardinality(B) - Cardinality(A \cap B)
  BY FS_Union
<1>2. Cardinality(A \cap B) = 0
  BY FS_EmptySet
<1>3. Cardinality(A) \in Nat /\ Cardinality(B) \in Nat
  BY FS_CardinalityType
<1>4. QED
  BY <1>1, <1>2, <1>3

LEMMA Counted ==
    ASSUME NEW s \in Seq(Item), NEW h, NEW g \in Seq(Item), NEW d, NEW n \in Nat, Parted(s, h, g, d, n)
    PROVE  Len(s) + Cardinality({h} \ {0}) + Len(g) + Cardinality(d) = n
<1> DEFINE H == {h} \ {0}
<1>1. /\ IsFiniteSet(Elements(s)) /\ Cardinality(Elements(s)) = Len(s)
      /\ IsFiniteSet(Elements(g)) /\ Cardinality(Elements(g)) = Len(g)
  BY DistinctCount DEF Parted, Apart
<1>2. IsFiniteSet(1..n) /\ Cardinality(1..n) = n
  BY FS_Interval
<1>3. d \subseteq 1..n /\ H \subseteq 1..n
  BY DEF Parted
<1>4. IsFiniteSet(d) /\ IsFiniteSet(H)
  BY <1>2, <1>3, FS_Subset
<1> DEFINE A == Elements(s) \cup H
           B == A \cup Elements(g)
<1>5. Elements(s) \cap H = {} /\ A \cap Elements(g) = {} /\ B \cap d = {} /\ B \cup d = 1..n
  BY DEF Parted, Apart
<1> HIDE DEF H
<1>6. Len(s) \in Nat /\ Len(g) \in Nat /\ Cardinality(H) \in Nat /\ Cardinality(d) \in Nat
  BY <1>4, FS_CardinalityType
<1>7. IsFiniteSet(A) /\ Cardinality(A) = Len(s) + Cardinality(H)
  BY <1>1, <1>4, <1>5, DisjointCount
<1> HIDE DEF A
<1>8. IsFiniteSet(B) /\ Cardinality(B) = Len(s) + Cardinality(H) + Len(g)
  <2>1. A \cap Elements(g) = {}
    BY <1>5
  <2>2. IsFiniteSet(A \cup Elements(g))
        /\ Cardinality(A \cup Elements(g)) = Cardinality(A) + Cardinality(Elements(g))
    BY <1>1, <1>7, <2>1, DisjointCount
  <2> QED
    BY <1>1, <1>7, <2>2
<1> HIDE DEF B
<1>9. Cardinality(B \cup d) = Cardinality(B) + Cardinality(d)
  BY <1>4, <1>5, <1>8, DisjointCount
<1>10. QED
  BY <1>2, <1>5, <1>6, <1>8, <1>9 DEF H

-----------------------------------------------------------------------------
(* Every step keeps the items of every channel apart and complete.         *)

CInv == LInv /\ \A c \in Chan : Whole(c)

LEMMA CInitial == Init => \A c \in Chan : Whole(c)
<1> SUFFICES ASSUME Init, NEW c \in Chan PROVE Whole(c)
  OBVIOUS
<1>1. items[c] = <<>> /\ held[c] = 0 /\ got[c] = <<>> /\ dropped[c] = {} /\ sent[c] = 0
  BY DEF Init
<1>2. QED
  BY <1>1, NoneParts DEF Whole, Parted, Apart

\* The types these steps need.
LEMMA ItemTypes ==
    ASSUME TypeOK, NEW c \in Chan
    PROVE  /\ items[c] \in Seq(Item) /\ got[c] \in Seq(Item) /\ sent[c] \in Nat
           /\ held[c] # 0 => held[c] \in Item
BY ConstantsAssumption DEF TypeOK, Item

LEMMA CPut ==
    ASSUME TypeOK, NEW c \in Chan, Put(c) \/ ThreadAppend(c), NEW d \in Chan, Whole(d)
    PROVE  Whole(d)'
<1>1. /\ sent' = [sent EXCEPT ![c] = @ + 1] /\ items' = [items EXCEPT ![c] = Append(@, sent[c] + 1)]
      /\ UNCHANGED <<held, got, dropped>> /\ sent[c] < MaxPut
  BY DEF Put, ThreadAppend, taskVars
<1>2. items[c] \in Seq(Item) /\ sent[c] \in Nat /\ sent[c] + 1 \in Item
  BY <1>1, ItemTypes, ConstantsAssumption DEF Item
<1>3. CASE d = c
  <2>1. Parted(Append(items[c], sent[c] + 1), held[c], got[c], dropped[c], sent[c] + 1)
    BY <1>2, <1>3, PutParts DEF Whole
  <2> QED
    BY <1>1, <1>3, <2>1 DEF Whole, TypeOK
<1>4. CASE d # c
  BY <1>1, <1>4 DEF Whole, TypeOK
<1>5. QED
  BY <1>3, <1>4

\* The first item of channel c is consumed.
LEMMA CGet ==
    ASSUME TypeOK, NEW c \in Chan, items[c] # <<>>,
           items' = [items EXCEPT ![c] = Tail(@)], got' = [got EXCEPT ![c] = Append(@, Head(items[c]))],
           UNCHANGED <<held, dropped, sent>>, NEW d \in Chan, Whole(d)
    PROVE  Whole(d)'
<1>1. CASE d = c
  <2>1. items[c] \in Seq(Item) /\ got[c] \in Seq(Item)
    BY ItemTypes
  <2>2. Parted(Tail(items[c]), held[c], Append(got[c], Head(items[c])), dropped[c], sent[c])
    BY <1>1, <2>1, GetParts DEF Whole
  <2> QED
    BY <1>1, <2>2 DEF Whole, TypeOK
<1>2. CASE d # c
  BY <1>2 DEF Whole, TypeOK
<1>3. QED
  BY <1>1, <1>2

LEMMA CTake ==
    ASSUME LInv, NEW t \in Task, Take(t), NEW d \in Chan, Whole(d)
    PROVE  Whole(d)'
<1>0. on[t] \in Chan /\ items[on[t]] # <<>> /\ TypeOK /\ items' = [items EXCEPT ![on[t]] = Tail(@)]
      /\ UNCHANGED <<sent, dropped>>
  BY DEF Take, TypeOK, LInv
<1>1. CASE t \notin Chan
  BY <1>0, <1>1, CGet DEF Take, Consume
<1>2. CASE t \in Chan
  <2>1. on[t] = t /\ held[t] = 0
    BY <1>2 DEF Take, Runnable, LInv, Hands
  <2>2. held' = [held EXCEPT ![t] = Head(items[t])] /\ got' = got
    BY <1>2 DEF Take
  <2>3. CASE d = t
    <3>1. items[t] \in Seq(Item) /\ items[t] # <<>>
      BY <1>0, <1>2, <2>1, ItemTypes
    <3>2. Parted(items[t], 0, got[t], dropped[t], sent[t])
      BY <2>1, <2>3 DEF Whole
    <3>3. Parted(Tail(items[t]), Head(items[t]), got[t], dropped[t], sent[t])
      BY <3>1, <3>2, HoldParts
    <3> QED
      BY <1>0, <2>1, <2>2, <2>3, <3>3 DEF Whole, TypeOK
  <2>4. CASE d # t
    BY <1>0, <2>1, <2>2, <2>4 DEF Whole, TypeOK
  <2> QED
    BY <2>3, <2>4
<1>3. QED
  BY <1>1, <1>2

LEMMA CGone ==
    ASSUME TypeOK, NEW c \in Chan, Drain(c) \/ PopLast(c) \/ Flush(c) \/ RemoveChannel(c),
           NEW d \in Chan, Whole(d)
    PROVE  Whole(d)'
<1>0. items[c] \in Seq(Item) /\ got[c] \in Seq(Item)
  BY ItemTypes
<1>1. UNCHANGED <<held, sent>>
  BY DEF Drain, PopLast, Flush, RemoveChannel, taskVars
<1>2. CASE Drain(c)
  <2>1. items' = [items EXCEPT ![c] = <<>>] /\ got' = [got EXCEPT ![c] = @ \o items[c]] /\ dropped' = dropped
    BY <1>2 DEF Drain
  <2>2. d = c => Parted(<<>>, held[c], got[c] \o items[c], dropped[c], sent[c])
    BY <1>0, DrainParts DEF Whole
  <2> QED
    BY <1>1, <2>1, <2>2 DEF Whole, TypeOK
<1>3. CASE PopLast(c)
  <2>1. /\ items' = [items EXCEPT ![c] = SubSeq(@, 1, Len(@) - 1)] /\ got' = got /\ items[c] # <<>>
        /\ dropped' = [dropped EXCEPT ![c] = @ \cup {items[c][Len(items[c])]}]
    BY <1>3 DEF PopLast
  <2>2. d = c => Parted(SubSeq(items[c], 1, Len(items[c]) - 1), held[c], got[c],
                        dropped[c] \cup {items[c][Len(items[c])]}, sent[c])
    BY <1>0, <2>1, PopParts DEF Whole
  <2> QED
    BY <1>1, <2>1, <2>2 DEF Whole, TypeOK
<1>4. CASE Flush(c) \/ RemoveChannel(c)
  <2>1. /\ items' = [items EXCEPT ![c] = <<>>] /\ got' = got
        /\ dropped' = [dropped EXCEPT ![c] = @ \cup Elements(items[c])]
    BY <1>4 DEF Flush, RemoveChannel, Flushed, Elements
  <2>2. d = c => Parted(<<>>, held[c], got[c], dropped[c] \cup Elements(items[c]), sent[c])
    BY FlushParts DEF Whole
  <2> QED
    BY <1>1, <2>1, <2>2 DEF Whole, TypeOK
<1>5. QED
  BY <1>2, <1>3, <1>4

LEMMA CWin ==
    ASSUME LInv, RaceWin, NEW d \in Chan, Whole(d)
    PROVE  Whole(d)'
<1> DEFINE w == First(race.done)
           L == {c \in race.done \ {w} : pc[c] = "done"}
<1>1. /\ w \in Chan /\ held[w] \in 1..MaxPut /\ w \notin L
      /\ L \in SUBSET Chan /\ \A c \in L : held[c] # 0
      /\ \A c \in Chan : held[c] # 0 => c = w \/ c \in L
  BY WinFacts
<1>2. /\ items' = [c \in Chan |-> IF c \in L THEN <<held[c]>> \o items[c] ELSE items[c]]
      /\ got' = [got EXCEPT ![w] = Append(@, held[w])]
      /\ held' = [c \in Chan |-> 0] /\ UNCHANGED <<sent, dropped>>
  BY DEF RaceWin, Consume, RestoreFront
<1> HIDE DEF w, L
<1>3. /\ TypeOK /\ items[d] \in Seq(Item) /\ got[d] \in Seq(Item)
      /\ held[d] # 0 => held[d] \in Item
  BY ItemTypes DEF LInv
<1>4. Parted(items[d], held[d], got[d], dropped[d], sent[d])
  BY DEF Whole
<1>5. CASE d = w
  <2>1. Parted(items[d], 0, Append(got[d], held[d]), dropped[d], sent[d])
    BY <1>1, <1>3, <1>4, <1>5, WinParts DEF Item
  <2> QED
    BY <1>1, <1>2, <1>3, <1>5, <2>1 DEF Whole, TypeOK
<1>6. CASE d \in L
  <2>1. Parted(<<held[d]>> \o items[d], 0, got[d], dropped[d], sent[d])
    BY <1>1, <1>3, <1>4, <1>6, RestoreParts
  <2> QED
    BY <1>1, <1>2, <1>3, <1>6, <2>1 DEF Whole, TypeOK
<1>7. CASE d # w /\ d \notin L
  BY <1>1, <1>2, <1>3, <1>4, <1>7 DEF Whole, TypeOK
<1>8. QED
  BY <1>5, <1>6, <1>7

LEMMA CUnwind ==
    ASSUME LInv, NEW c \in Chan, Unwind(c), NEW d \in Chan, Whole(d)
    PROVE  Whole(d)'
<1>1. /\ TypeOK /\ items[d] \in Seq(Item) /\ (held[d] # 0 => held[d] \in Item)
      /\ held[d] # 0 <=> pc[d] = "done"
  BY ItemTypes DEF LInv, Hands
<1>2. /\ items' = [b \in Chan |-> IF b = c /\ pc[b] = "done" THEN <<held[b]>> \o items[b] ELSE items[b]]
      /\ held' = [held EXCEPT ![c] = 0] /\ UNCHANGED <<sent, got, dropped>>
  BY DEF Unwind, RestoreFront, history
<1>3. CASE d = c /\ pc[d] = "done"
  <2>1. Parted(<<held[d]>> \o items[d], 0, got[d], dropped[d], sent[d])
    BY <1>1, <1>3, RestoreParts DEF Whole
  <2> QED
    BY <1>1, <1>2, <1>3, <2>1 DEF Whole, TypeOK
<1>4. CASE ~(d = c /\ pc[d] = "done")
  <2>1. items'[d] = items[d] /\ held'[d] = held[d]
    BY <1>1, <1>2, <1>4 DEF TypeOK
  <2> QED
    BY <1>2, <2>1 DEF Whole
<1>5. QED
  BY <1>3, <1>4

LEMMA CRaceFast ==
    ASSUME LInv, RaceFast, NEW d \in Chan, Whole(d)
    PROVE  Whole(d)'
<1> DEFINE c == First(Buffered)
<1>1. Buffered \subseteq Chan /\ Buffered \subseteq Nat /\ Buffered # {}
  <2>1. registered \subseteq Chan /\ Buffered # {}
    BY DEF RaceFast, LInv, TypeOK
  <2>2. Buffered \subseteq Chan
    BY <2>1 DEF Buffered
  <2>3. Chan \subseteq Nat
    BY ConstantsAssumption DEF Chan
  <2> QED
    BY <2>1, <2>2, <2>3
<1>2. c \in Chan /\ items[c] # <<>>
  BY <1>1, FirstFacts DEF Buffered
<1>3. /\ got' = [got EXCEPT ![c] = Append(@, Head(items[c]))]
      /\ items' = [items EXCEPT ![c] = Tail(@)] /\ UNCHANGED <<held, dropped, sent>>
  BY DEF RaceFast, Consume, taskVars
<1> HIDE DEF c
<1>4. QED
  BY <1>2, <1>3, CGet DEF LInv

LEMMA CStep == CInv /\ [Next]_vars => CInv'
<1> SUFFICES ASSUME CInv, [Next]_vars PROVE CInv'
  OBVIOUS
<1>1. LInv /\ LInv' /\ TypeOK /\ \A d \in Chan : Whole(d)
  BY LStep DEF CInv, LInv
<1>2. ASSUME UNCHANGED <<items, held, history>> PROVE \A d \in Chan : Whole(d)'
  BY <1>1, <1>2 DEF Whole, history
<1>3. ASSUME NEW c \in Chan, NEW g \in Getter, GetStart(g, c) PROVE \A d \in Chan : Whole(d)'
  <2>1. CASE items[c] = <<>>
    <3>1. UNCHANGED <<items, held, history>>
      BY <1>3, <2>1 DEF GetStart, history
    <3> QED
      BY <1>2, <3>1
  <2>2. CASE items[c] # <<>>
    <3>1. /\ items' = [items EXCEPT ![c] = Tail(@)] /\ got' = [got EXCEPT ![c] = Append(@, Head(items[c]))]
          /\ UNCHANGED <<held, dropped, sent>>
      BY <1>3, <2>2 DEF GetStart, Consume
    <3> QED
      BY <1>1, <2>2, <3>1, CGet
  <2> QED
    BY <2>1, <2>2
<1>4. CASE Environment
  <2>1. CASE PutEvent \/ RaceCancel \/ Prompt
    <3>1. UNCHANGED <<items, held, history>>
      BY <2>1 DEF PutEvent, RaceCancel, Prompt, chanVars, taskVars
    <3> QED
      BY <1>1, <1>2, <3>1 DEF CInv
  <2>2. ASSUME NEW c \in Chan, Put(c) \/ ThreadAppend(c) PROVE CInv'
    BY <1>1, <2>2, CPut DEF CInv
  <2>3. ASSUME NEW c \in Chan, Drain(c) \/ PopLast(c) \/ Flush(c) \/ RemoveChannel(c) PROVE CInv'
    BY <1>1, <2>3, CGone DEF CInv
  <2>4. ASSUME NEW g \in Getter, CancelGet(g) PROVE CInv'
    <3>1. UNCHANGED <<items, held, history>>
      BY <2>4 DEF CancelGet, chanVars
    <3> QED
      BY <1>1, <1>2, <3>1 DEF CInv
  <2>5. ASSUME NEW g \in Getter, NEW c \in Chan, GetStart(g, c) PROVE CInv'
    BY <1>1, <1>3, <2>5 DEF CInv
  <2> QED
    BY <1>4, <2>1, <2>2, <2>3, <2>4, <2>5 DEF Environment
<1>5. CASE RaceStep
  <2>1. CASE RaceStart \/ Sentinel \/ RaceWake \/ RaceEmpty \/ RaceRaise \/ RaceRaised
    <3>1. UNCHANGED <<items, held, history>>
      BY <2>1 DEF RaceStart, Sentinel, RaceWake, RaceEmpty, RaceRaise, RaceRaised, chanVars, taskVars
    <3> QED
      BY <1>1, <1>2, <3>1 DEF CInv
  <2>2. CASE RaceFast \/ RaceWin
    BY <1>1, <2>2, CRaceFast, CWin DEF CInv
  <2>3. ASSUME NEW c \in Chan, Unwind(c) PROVE CInv'
    BY <1>1, <2>3, CUnwind DEF CInv
  <2> QED
    BY <1>5, <2>1, <2>2, <2>3 DEF RaceStep
<1>6. CASE LoopCallback \/ ThreadStep \/ UNCHANGED vars
  <2>1. UNCHANGED <<items, held, history>>
    BY <1>6 DEF LoopCallback, ThreadStep, RunSet, RunWake, ThreadWake, ThreadNotify, chanVars, taskVars, vars
  <2> QED
    BY <1>1, <1>2, <2>1 DEF CInv
<1>7. ASSUME NEW t \in Task, TaskStep(t) PROVE CInv'
  <2>1. CASE Take(t)
    BY <1>1, <2>1, CTake DEF CInv
  <2>2. CASE SeeEmpty(t) \/ Register(t) \/ Cancelled(t) \/ NeverRan(t)
    <3>1. UNCHANGED <<items, held, history>>
      BY <2>2 DEF SeeEmpty, Register, Cancelled, NeverRan, chanVars, history
    <3> QED
      BY <1>1, <1>2, <3>1 DEF CInv
  <2> QED
    BY <1>7, <2>1, <2>2 DEF TaskStep
<1>8. QED
  BY <1>4, <1>5, <1>6, <1>7 DEF Next

(* Every item put is buffered, in one hand, consumed or discarded, and     *)
(* only one of them: none is lost and none delivered twice.                *)
THEOREM NothingIsLost == Spec => []ItemsConserved
<1>1. CInv => ItemsConserved
  <2> SUFFICES ASSUME CInv, NEW c \in Chan
               PROVE  /\ Elements(items[c]) \cup InHand(c) \cup Elements(got[c]) \cup dropped[c] = 1..sent[c]
                      /\ Len(items[c]) + Cardinality(InHand(c)) + Len(got[c]) + Cardinality(dropped[c]) = sent[c]
    BY DEF ItemsConserved
  <2>1. items[c] \in Seq(Item) /\ got[c] \in Seq(Item) /\ sent[c] \in Nat
    BY ItemTypes DEF CInv, LInv
  <2>2. Parted(items[c], held[c], got[c], dropped[c], sent[c])
    BY DEF CInv, Whole
  <2>3. Len(items[c]) + Cardinality({held[c]} \ {0}) + Len(got[c]) + Cardinality(dropped[c]) = sent[c]
    BY <2>1, <2>2, Counted
  <2> QED
    BY <2>2, <2>3 DEF Parted, InHand
<1>2. Init => CInv
  BY LInitial, CInitial DEF CInv
<1>3. QED
  BY <1>1, <1>2, CStep, PTL DEF Spec

-----------------------------------------------------------------------------
(* Seen by the dispatcher alone, a channel is a queue: what a drain task    *)
(* holds is the head of it.                                                *)

Hand(c)  == IF held[c] # 0 THEN <<held[c]>> ELSE <<>>
Queue(c) == Hand(c) \o items[c]
queueFn  == [c \in Chan |-> Queue(c)]

\* The steps of ChannelSpec on channel c.
PutQ(c)     == /\ \E n \in Item : queueFn' = [queueFn EXCEPT ![c] = Append(@, n)]
               /\ got' = got
TakeQ(c)    == \E k \in 1..Len(Queue(c)) :
                 /\ got' = [got EXCEPT ![c] = @ \o SubSeq(Queue(c), 1, k)]
                 /\ queueFn' = [queueFn EXCEPT ![c] = SubSeq(@, k + 1, Len(@))]
DiscardQ(c) == /\ \E k \in 0..(Len(Queue(c)) - 1) : queueFn' = [queueFn EXCEPT ![c] = SubSeq(@, 1, k)]
               /\ got' = got
NextQ == \/ UNCHANGED <<queueFn, got>>
         \/ \E c \in Chan : PutQ(c) \/ TakeQ(c) \/ DiscardQ(c)

LEMMA SameSeq ==
    ASSUME NEW S, NEW s \in Seq(S), NEW u \in Seq(S), Len(s) = Len(u),
           \A i \in 1..Len(s) : s[i] = u[i]
    PROVE  s = u
BY SeqEqual

LEMMA JoinLast ==
    ASSUME NEW S, NEW h \in Seq(S), NEW s \in Seq(S), NEW x \in S
    PROVE  h \o Append(s, x) = Append(h \o s, x)
<1>1. /\ h \o Append(s, x) \in Seq(S) /\ Append(h \o s, x) \in Seq(S)
      /\ Len(h \o Append(s, x)) = Len(Append(h \o s, x))
  OBVIOUS
<1>2. \A i \in 1..Len(h \o Append(s, x)) : (h \o Append(s, x))[i] = Append(h \o s, x)[i]
  OBVIOUS
<1>3. QED
  BY <1>1, <1>2, SameSeq

LEMMA JoinFront ==
    ASSUME NEW S, NEW h \in Seq(S), NEW s \in Seq(S), NEW k \in 0..Len(s)
    PROVE  /\ h \o SubSeq(s, 1, k) = SubSeq(h \o s, 1, Len(h) + k)
           /\ Len(h \o s) = Len(h) + Len(s) /\ Len(h) \in Nat /\ Len(s) \in Nat
<1>1. /\ Len(h) \in Nat /\ Len(s) \in Nat /\ h \o s \in Seq(S) /\ Len(h \o s) = Len(h) + Len(s)
      /\ \A i \in 1..(Len(h) + Len(s)) : (h \o s)[i] = IF i <= Len(h) THEN h[i] ELSE s[i - Len(h)]
  OBVIOUS
<1> DEFINE r == SubSeq(s, 1, k)
           a == h \o r
           b == SubSeq(h \o s, 1, Len(h) + k)
<1>2. r \in Seq(S) /\ Len(r) = k /\ \A i \in 1..k : r[i] = s[i]
  OBVIOUS
<1> HIDE DEF r
<1>3. /\ a \in Seq(S) /\ Len(a) = Len(h) + k
      /\ \A i \in 1..(Len(h) + k) : a[i] = IF i <= Len(h) THEN h[i] ELSE r[i - Len(h)]
  BY <1>1, <1>2
<1>4. Len(h) + k \in Nat /\ Len(h) + k <= Len(h \o s)
  BY <1>1
<1>5. /\ b \in Seq(S) /\ Len(b) = Len(h) + k
      /\ \A i \in 1..(Len(h) + k) : b[i] = (h \o s)[i]
  BY <1>1, <1>4
<1> HIDE DEF a, b
<1>6. ASSUME NEW i \in 1..(Len(h) + k) PROVE a[i] = b[i]
  <2>1. i \in 1..(Len(h) + Len(s)) /\ (~(i <= Len(h)) => i - Len(h) \in 1..k)
    BY <1>1
  <2> QED
    BY <1>1, <1>2, <1>3, <1>5, <2>1
<1>7. a = b
  BY <1>3, <1>5, <1>6, SameSeq
<1>8. QED
  BY <1>1, <1>7 DEF a, b, r

LEMMA SplitHead ==
    ASSUME NEW S, NEW s \in Seq(S), s # <<>>
    PROVE  /\ <<Head(s)>> \o Tail(s) = s /\ <<>> \o s = s
           /\ SubSeq(s, 1, 1) = <<Head(s)>> /\ SubSeq(s, 1 + 1, Len(s)) = Tail(s)
           /\ Head(s) \in S /\ Tail(s) \in Seq(S) /\ 1 \in 1..Len(s)
<1>1. Len(s) \in Nat \ {0} /\ Head(s) = s[1] /\ Head(s) \in S /\ Tail(s) \in Seq(S)
  OBVIOUS
<1>2. <<Head(s)>> \o Tail(s) = s
  <2>1. 1 \in 1..Len(s) /\ Len(s) \in 1..Len(s)
    BY <1>1
  <2>2. SubSeq(s, 1, Len(s)) = <<s[1]>> \o SubSeq(s, 1 + 1, Len(s))
    BY <2>1, SubSeqRecursiveFirst
  <2>3. SubSeq(s, 1, Len(s)) = s /\ Tail(s) = SubSeq(s, 2, Len(s))
    BY SubSeqFull, TailIsSubSeq
  <2> QED
    BY <1>1, <2>2, <2>3
<1>3. <<>> \o s = s
  BY ConcatEmptySeq
<1>4. SubSeq(s, 1, 1) = <<Head(s)>>
  <2>1. 1 \in 1..Len(s) /\ 1 \in 1..1
    BY <1>1
  <2>2. SubSeq(s, 1, 1) = <<s[1]>> \o SubSeq(s, 1 + 1, 1)
    BY <2>1, SubSeqRecursiveFirst
  <2>3. SubSeq(s, 1 + 1, 1) = <<>>
    BY SubSeqEmpty
  <2>4. <<s[1]>> \o <<>> = <<s[1]>>
    BY <1>1, ConcatEmptySeq
  <2> QED
    BY <1>1, <2>2, <2>3, <2>4
<1>5. SubSeq(s, 1 + 1, Len(s)) = Tail(s)
  BY TailIsSubSeq
<1>6. QED
  BY <1>1, <1>2, <1>3, <1>4, <1>5

\* The queue of every channel, where its parts are of their types.
LEMMA QueueTypes ==
    ASSUME TypeOK, NEW c \in Chan
    PROVE  /\ Hand(c) \in Seq(Item) /\ items[c] \in Seq(Item) /\ got[c] \in Seq(Item)
           /\ Queue(c) \in Seq(Item) /\ (held[c] = 0 => Hand(c) = <<>> /\ Queue(c) = items[c])
<1>1. items[c] \in Seq(Item) /\ got[c] \in Seq(Item) /\ (held[c] # 0 => held[c] \in Item)
  BY ItemTypes
<1>2. <<>> \in Seq(Item)
  OBVIOUS
<1>3. Hand(c) \in Seq(Item) /\ (held[c] = 0 => Hand(c) = <<>>)
  BY <1>1, <1>2 DEF Hand
<1>4. <<>> \o items[c] = items[c]
  BY <1>1, ConcatEmptySeq
<1>5. QED
  BY <1>1, <1>3, <1>4 DEF Queue

LEMMA QSame ==
    ASSUME UNCHANGED <<items, held, got>>
    PROVE  UNCHANGED <<queueFn, got>>
BY DEF queueFn, Queue, Hand

LEMMA QPut ==
    ASSUME TypeOK, NEW c \in Chan, Put(c) \/ ThreadAppend(c)
    PROVE  PutQ(c)
<1>1. /\ items' = [items EXCEPT ![c] = Append(@, sent[c] + 1)] /\ UNCHANGED <<held, got>>
      /\ sent[c] < MaxPut
  BY DEF Put, ThreadAppend, taskVars
<1>2. sent[c] + 1 \in Item
  BY <1>1, ItemTypes, ConstantsAssumption DEF Item
<1>3. Hand(c) \in Seq(Item) /\ items[c] \in Seq(Item)
  BY QueueTypes
<1>4. Hand(c) \o Append(items[c], sent[c] + 1) = Append(Queue(c), sent[c] + 1)
  BY <1>2, <1>3, JoinLast DEF Queue
<1>5. Queue(c)' = Append(Queue(c), sent[c] + 1)
  BY <1>1, <1>4 DEF Queue, Hand, TypeOK
<1>6. \A d \in Chan \ {c} : Queue(d)' = Queue(d)
  BY <1>1 DEF Queue, Hand, TypeOK
<1>7. queueFn' = [queueFn EXCEPT ![c] = Append(@, sent[c] + 1)]
  BY <1>5, <1>6 DEF queueFn
<1>8. QED
  BY <1>1, <1>2, <1>7 DEF PutQ

LEMMA QTake ==
    ASSUME LInv, NEW t \in Task, Take(t), t \in Chan
    PROVE  UNCHANGED <<queueFn, got>>
<1>1. on[t] = t /\ held[t] = 0 /\ TypeOK
  BY DEF Take, Runnable, LInv, Hands
<1>2. /\ items' = [items EXCEPT ![t] = Tail(@)] /\ held' = [held EXCEPT ![t] = Head(items[t])]
      /\ got' = got /\ items[t] # <<>>
  BY <1>1 DEF Take
<1>3. items[t] \in Seq(Item) /\ Queue(t) = items[t]
  BY <1>1, QueueTypes
<1>4. <<Head(items[t])>> \o Tail(items[t]) = items[t] /\ Head(items[t]) \in Item
  BY <1>2, <1>3, SplitHead
<1>5. Head(items[t]) # 0
  BY <1>4 DEF Item
<1>6. Queue(t)' = Queue(t)
  BY <1>1, <1>2, <1>3, <1>4, <1>5 DEF Queue, Hand, TypeOK
<1>7. \A d \in Chan \ {t} : Queue(d)' = Queue(d)
  BY <1>1, <1>2 DEF Queue, Hand, TypeOK
<1>8. QED
  BY <1>2, <1>6, <1>7 DEF queueFn

LEMMA QDrain ==
    ASSUME LInv, NEW c \in Chan, Drain(c)
    PROVE  TakeQ(c)
<1>1. /\ TypeOK /\ held[c] = 0 /\ items[c] # <<>> /\ UNCHANGED held
      /\ items' = [items EXCEPT ![c] = <<>>] /\ got' = [got EXCEPT ![c] = @ \o items[c]]
  BY DEF Drain, taskVars, LInv, Hands, Drains
<1>2. Queue(c) = items[c] /\ items[c] \in Seq(Item)
  BY <1>1, QueueTypes
<1> DEFINE k == Len(Queue(c))
<1>3. k \in 1..Len(Queue(c)) /\ k \in Nat
  BY <1>1, <1>2
<1>4. SubSeq(Queue(c), 1, k) = items[c]
  BY <1>2, SubSeqFull
<1>5. SubSeq(Queue(c), k + 1, k) = <<>>
  BY <1>3, SubSeqEmpty
<1>6. Queue(c)' = <<>>
  BY <1>1 DEF Queue, Hand, TypeOK
<1>7. \A d \in Chan \ {c} : Queue(d)' = Queue(d)
  BY <1>1 DEF Queue, Hand, TypeOK
<1>8. queueFn' = [queueFn EXCEPT ![c] = SubSeq(@, k + 1, Len(@))]
  BY <1>5, <1>6, <1>7 DEF queueFn
<1>9. QED
  BY <1>1, <1>3, <1>4, <1>8 DEF TakeQ

LEMMA QPop ==
    ASSUME TypeOK, NEW c \in Chan, PopLast(c) \/ Flush(c) \/ RemoveChannel(c)
    PROVE  DiscardQ(c) \/ UNCHANGED <<queueFn, got>>
<1>1. UNCHANGED <<held, got>>
  BY DEF PopLast, Flush, RemoveChannel, taskVars
<1>2. Hand(c) \in Seq(Item) /\ items[c] \in Seq(Item)
  BY QueueTypes
<1>3. CASE items[c] = <<>>
  <2>1. items' = items
    BY <1>3 DEF PopLast, Flush, RemoveChannel, Flushed, TypeOK
  <2> QED
    BY <1>1, <2>1, QSame
<1>4. ASSUME NEW k \in 0..Len(items[c]), k # Len(items[c]),
             items' = [items EXCEPT ![c] = SubSeq(@, 1, k)]
      PROVE  DiscardQ(c)
  <2>1. /\ Hand(c) \o SubSeq(items[c], 1, k) = SubSeq(Queue(c), 1, Len(Hand(c)) + k)
        /\ Len(Queue(c)) = Len(Hand(c)) + Len(items[c])
        /\ Len(Hand(c)) \in Nat /\ Len(items[c]) \in Nat
    BY <1>2, JoinFront DEF Queue
  <2>2. Len(Hand(c)) + k \in 0..(Len(Queue(c)) - 1)
    BY <1>4, <2>1
  <2>3. Queue(c)' = SubSeq(Queue(c), 1, Len(Hand(c)) + k)
    BY <1>1, <1>4, <2>1 DEF Queue, Hand, TypeOK
  <2>4. \A d \in Chan \ {c} : Queue(d)' = Queue(d)
    BY <1>1, <1>4 DEF Queue, Hand, TypeOK
  <2>5. queueFn' = [queueFn EXCEPT ![c] = SubSeq(@, 1, Len(Hand(c)) + k)]
    BY <2>3, <2>4 DEF queueFn
  <2> QED
    BY <1>1, <2>2, <2>5 DEF DiscardQ
<1>5. CASE items[c] # <<>>
  <2>1. Len(items[c]) \in Nat \ {0}
    BY <1>2, <1>5
  <2>2. CASE PopLast(c)
    <3>1. items' = [items EXCEPT ![c] = SubSeq(@, 1, Len(items[c]) - 1)]
      BY <2>2 DEF PopLast, TypeOK
    <3>2. Len(items[c]) - 1 \in 0..Len(items[c]) /\ Len(items[c]) - 1 # Len(items[c])
      BY <2>1
    <3> QED
      BY <1>4, <3>1, <3>2
  <2>3. CASE Flush(c) \/ RemoveChannel(c)
    <3>1. SubSeq(items[c], 1, 0) = <<>>
      BY SubSeqEmpty
    <3>2. items' = [items EXCEPT ![c] = SubSeq(@, 1, 0)]
      BY <2>3, <3>1 DEF Flush, RemoveChannel, Flushed, TypeOK
    <3>3. 0 \in 0..Len(items[c]) /\ 0 # Len(items[c])
      BY <2>1
    <3> QED
      BY <1>4, <3>2, <3>3
  <2> QED
    BY <2>2, <2>3
<1>6. QED
  BY <1>3, <1>5

LEMMA QFast ==
    ASSUME LInv, RaceFast
    PROVE  \E c \in Chan : TakeQ(c)
<1>1. PICK c \in Chan : c = First(Buffered) /\ items[c] # <<>>
  <2>1. registered \subseteq Chan /\ Buffered # {}
    BY DEF RaceFast, LInv, TypeOK
  <2>2. Buffered \subseteq Chan
    BY <2>1 DEF Buffered
  <2>3. Chan \subseteq Nat
    BY ConstantsAssumption DEF Chan
  <2>4. Buffered \subseteq Nat
    BY <2>2, <2>3
  <2> QED
    BY <2>1, <2>2, <2>4, FirstFacts DEF Buffered
<1>2. /\ got' = [got EXCEPT ![c] = Append(@, Head(items[c]))]
      /\ items' = [items EXCEPT ![c] = Tail(@)] /\ UNCHANGED held /\ race.phase = "turn"
  BY <1>1 DEF RaceFast, Consume, taskVars
<1>3. TypeOK /\ held[c] = 0
  BY <1>1, <1>2 DEF LInv, Hands, Drains
<1>4. Queue(c) = items[c] /\ items[c] \in Seq(Item) /\ got[c] \in Seq(Item)
  BY <1>1, <1>3, QueueTypes
<1>5. /\ SubSeq(Queue(c), 1, 1) = <<Head(items[c])>> /\ SubSeq(Queue(c), 1 + 1, Len(Queue(c))) = Tail(items[c])
      /\ 1 \in 1..Len(Queue(c)) /\ Head(items[c]) \in Item /\ Tail(items[c]) \in Seq(Item)
  BY <1>1, <1>4, SplitHead
<1>6. Append(got[c], Head(items[c])) = got[c] \o SubSeq(Queue(c), 1, 1)
  BY <1>4, <1>5, AppendIsConcat
<1>7. <<>> \o Tail(items[c]) = Tail(items[c])
  BY <1>5, ConcatEmptySeq
<1>8. Queue(c)' = Tail(items[c])
  BY <1>1, <1>2, <1>3, <1>7 DEF Queue, Hand, TypeOK
<1>9. \A d \in Chan \ {c} : Queue(d)' = Queue(d)
  BY <1>2, <1>3 DEF Queue, Hand, TypeOK
<1>10. queueFn' = [queueFn EXCEPT ![c] = SubSeq(@, 1 + 1, Len(@))]
  BY <1>1, <1>5, <1>8, <1>9 DEF queueFn
<1>11. got' = [got EXCEPT ![c] = @ \o SubSeq(Queue(c), 1, 1)]
  BY <1>2, <1>6
<1>12. TakeQ(c)
  BY <1>5, <1>10, <1>11 DEF TakeQ
<1>13. QED
  BY <1>1, <1>12

\* Putting an item back is no step of the queue.
LEMMA QRestored ==
    ASSUME TypeOK, NEW d \in Chan, held[d] # 0, held'[d] = 0,
           items'[d] = <<held[d]>> \o items[d]
    PROVE  Queue(d)' = Queue(d)
<1>1. <<held[d]>> \o items[d] \in Seq(Item)
  <2>1. <<held[d]>> \in Seq(Item) /\ items[d] \in Seq(Item)
    BY ItemTypes
  <2> QED
    BY <2>1
<1>2. <<>> \o (<<held[d]>> \o items[d]) = <<held[d]>> \o items[d]
  BY <1>1, ConcatEmptySeq
<1>3. Queue(d) = <<held[d]>> \o items[d]
  BY DEF Queue, Hand
<1>4. Queue(d)' = <<>> \o (<<held[d]>> \o items[d])
  BY DEF Queue, Hand
<1>5. QED
  BY <1>2, <1>3, <1>4

LEMMA QWin ==
    ASSUME LInv, RaceWin
    PROVE  \E c \in Chan : TakeQ(c)
<1>0. PICK w \in Chan : w = First(race.done)
  BY WinFacts
<1> DEFINE L == {c \in race.done \ {w} : pc[c] = "done"}
<1>1. /\ w \in Chan /\ held[w] \in 1..MaxPut /\ w \notin L
      /\ L \in SUBSET Chan /\ \A c \in L : held[c] # 0
      /\ \A c \in Chan : held[c] # 0 => c = w \/ c \in L
  BY <1>0, WinFacts
<1>2. /\ items' = [c \in Chan |-> IF c \in L THEN <<held[c]>> \o items[c] ELSE items[c]]
      /\ got' = [got EXCEPT ![w] = Append(@, held[w])]
      /\ held' = [c \in Chan |-> 0]
  BY <1>0 DEF RaceWin, Consume, RestoreFront
<1> HIDE DEF L
<1>3. TypeOK /\ items[w] \in Seq(Item) /\ got[w] \in Seq(Item) /\ held[w] \in Item /\ held[w] # 0
  BY <1>1, ItemTypes DEF LInv, Item
<1> DEFINE q == <<held[w]>> \o items[w]
<1>4. Queue(w) = q
  BY <1>3 DEF Queue, Hand
<1>5. q \in Seq(Item) /\ q # <<>> /\ Head(q) = held[w] /\ Tail(q) = items[w]
  <2>1. <<held[w]>> \in Seq(Item)
    BY <1>3
  <2>2. q \in Seq(Item) /\ Len(q) = 1 + Len(items[w]) /\ Len(items[w]) \in Nat /\ q[1] = held[w]
    BY <1>3, <2>1
  <2>3. q # <<>>
    BY <2>2, EmptySeq
  <2>4. \A i \in 1..Len(items[w]) : q[i + 1] = items[w][i]
    BY <1>3, <2>1
  <2> HIDE DEF q
  <2>5. /\ Head(q) = held[w] /\ Tail(q) \in Seq(Item) /\ Len(Tail(q)) = Len(items[w])
        /\ \A i \in 1..Len(items[w]) : Tail(q)[i] = q[i + 1]
    BY <2>2, <2>3, HeadTailProperties
  <2>6. Tail(q) = items[w]
    BY <1>3, <2>4, <2>5, SameSeq
  <2> QED
    BY <2>2, <2>3, <2>5, <2>6
<1> HIDE DEF q
<1>6. /\ SubSeq(Queue(w), 1, 1) = <<held[w]>> /\ SubSeq(Queue(w), 1 + 1, Len(Queue(w))) = items[w]
      /\ 1 \in 1..Len(Queue(w))
  BY <1>4, <1>5, SplitHead
<1>7. got' = [got EXCEPT ![w] = @ \o SubSeq(Queue(w), 1, 1)]
  <2>1. Append(got[w], held[w]) = got[w] \o <<held[w]>>
    BY <1>3, AppendIsConcat
  <2> QED
    BY <1>2, <1>6, <2>1
<1>8. Queue(w)' = items[w]
  <2>1. <<>> \o items[w] = items[w]
    BY <1>3, ConcatEmptySeq
  <2>2. items'[w] = items[w] /\ held'[w] = 0
    BY <1>1, <1>2
  <2> QED
    BY <2>1, <2>2 DEF Queue, Hand
<1>9. ASSUME NEW d \in Chan \ {w} PROVE Queue(d)' = Queue(d)
  <2>1. CASE d \in L
    BY <1>1, <1>2, <1>3, <2>1, QRestored
  <2>2. CASE d \notin L
    <3>1. items'[d] = items[d] /\ held'[d] = held[d]
      BY <1>1, <1>2, <2>2
    <3> QED
      BY <3>1 DEF Queue, Hand
  <2> QED
    BY <2>1, <2>2
<1>10. queueFn' = [queueFn EXCEPT ![w] = SubSeq(@, 1 + 1, Len(@))]
  BY <1>1, <1>6, <1>8, <1>9 DEF queueFn
<1>11. TakeQ(w)
  BY <1>6, <1>7, <1>10 DEF TakeQ
<1>12. QED
  BY <1>1, <1>11

LEMMA QUnwind ==
    ASSUME LInv, NEW c \in Chan, Unwind(c)
    PROVE  UNCHANGED <<queueFn, got>>
<1>1. /\ items' = [b \in Chan |-> IF b = c /\ pc[b] = "done" THEN <<held[b]>> \o items[b] ELSE items[b]]
      /\ held' = [held EXCEPT ![c] = 0] /\ got' = got
  BY DEF Unwind, RestoreFront, history
<1>2. TypeOK /\ \A d \in Chan : held[d] # 0 <=> pc[d] = "done"
  BY DEF LInv, Hands
<1>3. ASSUME NEW d \in Chan PROVE Queue(d)' = Queue(d)
  <2>1. CASE d = c /\ pc[d] = "done"
    <3>1. held[d] # 0 /\ held'[d] = 0 /\ items'[d] = <<held[d]>> \o items[d]
      BY <1>1, <1>2, <2>1 DEF TypeOK
    <3> QED
      BY <1>2, <3>1, QRestored
  <2>2. CASE ~(d = c /\ pc[d] = "done")
    <3>1. items'[d] = items[d] /\ held'[d] = held[d]
      BY <1>1, <1>2, <2>2 DEF TypeOK
    <3> QED
      BY <3>1 DEF Queue, Hand
  <2> QED
    BY <2>1, <2>2
<1>4. QED
  BY <1>1, <1>3 DEF queueFn

LEMMA QStep ==
    ASSUME LInv, [Next]_vars, scene \subseteq {"thread"}
    PROVE  NextQ
<1>1. "getters" \notin scene /\ TypeOK /\ \A g \in Getter : pc[g] = "idle"
  BY DEF LInv, NoGetters
<1>2. CASE Environment
  <2>1. CASE PutEvent \/ RaceCancel \/ Prompt \/ \E g \in Getter : CancelGet(g)
    <3>1. UNCHANGED <<items, held, got>>
      BY <2>1 DEF PutEvent, RaceCancel, Prompt, CancelGet, chanVars, taskVars, history
    <3> QED
      BY <3>1, QSame DEF NextQ
  <2>2. ASSUME NEW c \in Chan, Put(c) \/ ThreadAppend(c) \/ Drain(c) \/ PopLast(c) \/ Flush(c) \/ RemoveChannel(c)
        PROVE  NextQ
    BY <1>1, <2>2, QPut, QDrain, QPop DEF NextQ
  <2>3. ASSUME NEW g \in Getter, NEW c \in Chan, GetStart(g, c) PROVE NextQ
    BY <1>1, <2>3 DEF GetStart
  <2> QED
    BY <1>2, <2>1, <2>2, <2>3 DEF Environment
<1>3. CASE RaceStep
  <2>1. CASE RaceStart \/ Sentinel \/ RaceWake \/ RaceEmpty \/ RaceRaise \/ RaceRaised
    <3>1. UNCHANGED <<items, held, got>>
      BY <2>1 DEF RaceStart, Sentinel, RaceWake, RaceEmpty, RaceRaise, RaceRaised, chanVars, taskVars, history
    <3> QED
      BY <3>1, QSame DEF NextQ
  <2>2. CASE RaceFast \/ RaceWin
    BY <2>2, QFast, QWin DEF NextQ
  <2>3. ASSUME NEW c \in Chan, Unwind(c) PROVE NextQ
    BY <2>3, QUnwind DEF NextQ
  <2> QED
    BY <1>3, <2>1, <2>2, <2>3 DEF RaceStep
<1>4. CASE LoopCallback \/ ThreadStep \/ UNCHANGED vars
  <2>1. UNCHANGED <<items, held, got>>
    BY <1>4 DEF LoopCallback, ThreadStep, RunSet, RunWake, ThreadWake, ThreadNotify, chanVars, taskVars, history, vars
  <2> QED
    BY <2>1, QSame DEF NextQ
<1>5. ASSUME NEW t \in Task, TaskStep(t) PROVE NextQ
  <2>1. CASE Take(t)
    <3>1. t \in Chan
      BY <1>1, <2>1, ChanTask DEF Take, Runnable
    <3> QED
      BY <2>1, <3>1, QTake DEF NextQ
  <2>2. CASE SeeEmpty(t) \/ Register(t) \/ Cancelled(t) \/ NeverRan(t)
    <3>1. UNCHANGED <<items, held, got>>
      BY <2>2 DEF SeeEmpty, Register, Cancelled, NeverRan, chanVars, history
    <3> QED
      BY <3>1, QSame DEF NextQ
  <2> QED
    BY <1>5, <2>1, <2>2 DEF TaskStep
<1>6. QED
  BY <1>2, <1>3, <1>4, <1>5 DEF Next

(* Seen by its single dispatcher, with producers on the loop and on        *)
(* another thread, every channel is a FIFO queue.                          *)
THEOREM ChannelsAreQueues == Spec => ImplementsQueues
<1>1. Init => Queues!Init
  <2> SUFFICES ASSUME Init PROVE Queues!Init
    OBVIOUS
  <2>1. \A c \in Chan : Queue(c) = <<>>
    BY DEF Init, Queue, Hand
  <2> QED
    BY <2>1 DEF Init, Queues!Init, Queue, Hand
<1>2. ASSUME LInv, [Next]_vars
      PROVE  [scene \subseteq {"thread"} => Queues!Next]_(Queues!vars)
  <2> SUFFICES ASSUME scene \subseteq {"thread"} PROVE [Queues!Next]_(Queues!vars)
    OBVIOUS
  <2>1. NextQ
    BY <1>2, QStep
  <2>2. QED
    BY <2>1 DEF NextQ, PutQ, TakeQ, DiscardQ, queueFn, Queue, Hand, Item, Queues!Next, Queues!Put, Queues!Take,
                Queues!Discard, Queues!vars
<1>3. QED
  BY LInitial, LStep, <1>1, <1>2, PTL DEF Spec, ImplementsQueues

-----------------------------------------------------------------------------
(* No lost wakeup in get(): with every put() on the loop, as many waiters  *)
(* of a channel are woken as it has items, or nobody sleeps there.         *)

\* The waiters of a channel are tasks that wait on it, each once, and whose
\* future nobody has set.
Lined(c) ==
  /\ Distinct(waiters[c])
  /\ \A t \in Elements(waiters[c]) : on[t] = c /\ pc[t] = "wait" /\ fut[t] \in {"pending", "cancelled"}

\* Those woken on channel c, and those still asleep.
Roused(c)  == {t \in Task : on[t] = c /\ pc[t] = "wait" /\ fut[t] = "set"}
Sleeping(c) == {t \in Task : on[t] = c /\ fut[t] = "pending"}

\* While a task sleeps beside items, as many are woken as there are items.
Enough(c) == /\ IsFiniteSet(Roused(c))
             /\ Sleeping(c) # {} => Len(items[c]) <= Cardinality(Roused(c))

AInv ==
  /\ thread.at = "out" /\ posted.wake = {}
  /\ \A t \in Task : pc[t] = "saw_empty" => items[on[t]] = <<>>
  /\ \A t \in Task : fut[t] = "pending" => pc[t] = "wait" /\ t \in Elements(waiters[on[t]])
  /\ \A c \in Chan : Lined(c) /\ Enough(c)

Awake == "thread" \notin scene => AInv

\* Waking the first live waiter of ws: who is woken, and who stays.
LEMMA WakeFacts ==
  ASSUME NEW ws \in Seq(Task), NEW f, Distinct(ws)
  PROVE  LET W == Woken(ws, f)
             S == StillWaiting(ws, f)
         IN  /\ S \in Seq(Task) /\ Distinct(S) /\ Elements(S) \subseteq Elements(ws) \ W
             /\ W \subseteq Elements(ws) /\ \A t \in W : f[t] = "pending"
             /\ \/ \E t \in Task : W = {t}
                \/ W = {} /\ \A u \in Elements(ws) : f[u] # "pending"
             /\ \A u \in Elements(ws) : f[u] = "pending" /\ u \notin W => u \in Elements(S)
<1> DEFINE n == Len(ws)
           k == FirstLive(ws, f)
           S == StillWaiting(ws, f)
<1>1. n \in Nat /\ DOMAIN ws = 1..n /\ Live(ws, f) \subseteq 1..n /\ Live(ws, f) \subseteq Nat
      /\ \A i \in 1..n : ws[i] \in Task
  BY DEF Live
<1>2. CASE Live(ws, f) = {}
  <2>1. Woken(ws, f) = {} /\ S = <<>> /\ Elements(S) = {} /\ S \in Seq(Task) /\ Distinct(S)
    BY <1>2 DEF Woken, StillWaiting, Elements, Distinct
  <2>2. \A u \in Elements(ws) : f[u] # "pending"
    BY <1>2 DEF Live, Elements
  <2>3. QED
    BY <2>1, <2>2
<1>3. CASE Live(ws, f) # {}
  <2>1. k \in 1..n /\ f[ws[k]] = "pending" /\ \A i \in Live(ws, f) : k <= i
    <3>1. k \in Live(ws, f) /\ \A i \in Live(ws, f) : k <= i
      BY <1>1, <1>3, FirstFacts DEF FirstLive
    <3>2. QED
      BY <1>1, <3>1 DEF Live
  <2>2. Woken(ws, f) = {ws[k]} /\ S = SubSeq(ws, k + 1, n)
    BY <1>3 DEF Woken, StillWaiting
  <2>3. S \in Seq(Task)
    BY StillWaitingType
  <2> HIDE DEF k, S, n
  <2>4. Len(S) = n - k /\ \A i \in 1..(n - k) : S[i] = ws[i + k] /\ i + k \in 1..n /\ i + k # k
    <3>1. n - k \in Nat /\ k + 1 \in Nat /\ k \in Nat /\ k <= n
      BY <1>1, <2>1
    <3>2. \A i \in (k + 1)..n : ws[i] \in Task
      BY <1>1, <2>1, <3>1
    <3>3. /\ Len(SubSeq(ws, k + 1, n)) = n - k
          /\ \A i \in 1..(n - k) : SubSeq(ws, k + 1, n)[i] = ws[i + k]
      <4> DEFINE q == SubSeq(ws, k + 1, n)
      <4>1. k + 1 \in Int /\ n \in Int /\ n - (k + 1) + 1 = n - k
        BY <1>1, <3>1
      <4>2. /\ Len(q) = IF k + 1 <= n THEN n - k ELSE 0
            /\ \A i \in 1..(n - k) : q[i] = ws[(k + 1) + i - 1]
        <5>1. /\ Len(q) = IF k + 1 <= n THEN n - (k + 1) + 1 ELSE 0
              /\ \A i \in 1..(n - (k + 1) + 1) : q[i] = ws[(k + 1) + i - 1]
          BY <3>2, <4>1, SubSeqProperties
        <5> HIDE DEF q
        <5>2. QED
          BY <4>1, <5>1
      <4> HIDE DEF q
      <4>3. Len(q) = n - k
        BY <1>1, <3>1, <4>2
      <4>4. \A i \in 1..(n - k) : (k + 1) + i - 1 = i + k
        BY <3>1
      <4>5. QED
        BY <4>2, <4>3, <4>4 DEF q
    <3>4. \A i \in 1..(n - k) : i + k \in 1..n /\ i + k # k
      BY <1>1, <2>1, <3>1
    <3>5. QED
      BY <2>2, <3>3, <3>4
  <2>5. DOMAIN S = 1..(n - k)
    BY <2>3, <2>4
  <2>6. ASSUME NEW i \in DOMAIN S, NEW j \in DOMAIN S, S[i] = S[j] PROVE i = j
    <3>1. i + k \in 1..n /\ j + k \in 1..n /\ ws[i + k] = ws[j + k] /\ i \in Nat /\ j \in Nat
      BY <2>4, <2>5, <2>6
    <3>2. i + k = j + k
      BY <1>1, <3>1 DEF Distinct
    <3>3. QED
      BY <2>1, <3>1, <3>2
  <2>7. Elements(S) \subseteq Elements(ws) \ {ws[k]}
    <3> SUFFICES ASSUME NEW i \in 1..(n - k) PROVE S[i] \in Elements(ws) /\ S[i] # ws[k]
      BY <2>5 DEF Elements
    <3>1. i + k \in 1..n /\ i + k # k /\ S[i] = ws[i + k]
      BY <2>4
    <3>2. ws[i + k] # ws[k]
      BY <1>1, <2>1, <3>1 DEF Distinct
    <3>3. QED
      BY <1>1, <3>1, <3>2 DEF Elements
  <2>8. ASSUME NEW u \in Elements(ws), f[u] = "pending", u # ws[k] PROVE u \in Elements(S)
    <3>1. PICK j \in 1..n : ws[j] = u
      BY <1>1 DEF Elements
    <3>2. j \in Live(ws, f) /\ j # k
      BY <1>1, <2>8, <3>1 DEF Live
    <3>3. j - k \in 1..(n - k) /\ (j - k) + k = j
      BY <1>1, <2>1, <3>1, <3>2
    <3>4. S[j - k] = u
      BY <2>4, <3>1, <3>3
    <3>5. QED
      BY <2>5, <3>3, <3>4 DEF Elements
  <2>9. ws[k] \in Elements(ws) /\ ws[k] \in Task
    BY <1>1, <2>1 DEF Elements
  <2>10. QED
    BY <2>1, <2>2, <2>3, <2>6, <2>7, <2>8, <2>9 DEF Distinct, S
<1>4. QED
  BY <1>2, <1>3

\* Leaving a queue in which every task waits once.
LEMMA WithoutFacts ==
  ASSUME NEW ws \in Seq(Task), NEW t, Distinct(ws)
  PROVE  /\ Without(ws, t) \in Seq(Task) /\ Distinct(Without(ws, t))
         /\ Elements(Without(ws, t)) = Elements(ws) \ {t}
<1> DEFINE I == {i \in DOMAIN ws : ws[i] = t}
           n == Len(ws)
           p == First(I)
           S == Without(ws, t)
           to(i) == IF i < p THEN i ELSE i + 1
<1>1. n \in Nat /\ DOMAIN ws = 1..n /\ I \subseteq 1..n /\ I \subseteq Nat
  OBVIOUS
<1>2. S \in Seq(Task)
  BY WithoutType
<1>3. CASE I = {}
  <2>1. S = ws
    BY <1>3 DEF Without
  <2>2. t \notin Elements(ws)
    BY <1>3 DEF Elements
  <2>3. QED
    BY <1>2, <2>1, <2>2
<1>4. CASE I # {}
  <2>1. S = [i \in 1..(n - 1) |-> ws[to(i)]]
    BY <1>4 DEF Without
  <2>2. p \in I
    <3> HIDE DEF I
    <3>1. QED
      BY <1>1, <1>4, FirstFacts
  <2>3. p \in 1..n /\ ws[p] = t
    BY <2>2
  <2> HIDE DEF I, p, S, n
  <2>4. DOMAIN S = 1..(n - 1) /\ \A i \in 1..(n - 1) : S[i] = ws[to(i)]
    BY <2>1
  <2>5. /\ \A i \in 1..(n - 1) : to(i) \in 1..n /\ to(i) # p
        /\ \A i, j \in 1..(n - 1) : to(i) = to(j) => i = j
    BY <1>1, <2>3
  <2>6. \A j \in 1..n : j # p => \E i \in 1..(n - 1) : to(i) = j
    <3> SUFFICES ASSUME NEW j \in 1..n, j # p PROVE \E i \in 1..(n - 1) : to(i) = j
      OBVIOUS
    <3>1. CASE j < p
      <4>1. j \in 1..(n - 1) /\ to(j) = j
        BY <1>1, <2>3, <3>1
      <4>2. QED
        BY <4>1
    <3>2. CASE ~(j < p)
      <4>1. j - 1 \in 1..(n - 1) /\ to(j - 1) = j
        BY <1>1, <2>3, <3>2
      <4>2. QED
        BY <4>1
    <3>3. QED
      BY <3>1, <3>2
  <2> HIDE DEF to
  <2>7. \A i \in 1..n : ws[i] = t => i = p
    BY <1>1, <2>3 DEF Distinct
  <2>8. Distinct(S)
    <3> SUFFICES ASSUME NEW i \in 1..(n - 1), NEW j \in 1..(n - 1), S[i] = S[j] PROVE i = j
      BY <2>4 DEF Distinct
    <3>1. ws[to(i)] = ws[to(j)] /\ to(i) \in 1..n /\ to(j) \in 1..n
      BY <2>4, <2>5
    <3>2. to(i) = to(j)
      BY <1>1, <3>1 DEF Distinct
    <3>3. QED
      BY <2>5, <3>2
  <2>9. ASSUME NEW x PROVE x \in Elements(S) <=> x \in Elements(ws) \ {t}
    <3>1. x \in Elements(S) <=> \E i \in 1..(n - 1) : S[i] = x
      BY <2>4 DEF Elements
    <3>2. x \in Elements(ws) <=> \E j \in 1..n : ws[j] = x
      BY <1>1 DEF Elements
    <3>3. ASSUME NEW i \in 1..(n - 1), S[i] = x PROVE x \in Elements(ws) \ {t}
      BY <2>4, <2>5, <2>7, <3>2, <3>3
    <3>4. ASSUME NEW j \in 1..n, ws[j] = x, x # t PROVE x \in Elements(S)
      <4>1. PICK i \in 1..(n - 1) : to(i) = j
        BY <2>3, <2>6, <3>4
      <4>2. QED
        BY <2>4, <3>1, <3>4, <4>1
    <3>5. QED
      BY <3>1, <3>2, <3>3, <3>4
  <2>10. QED
    BY <1>2, <2>8, <2>9 DEF S
<1>5. QED
  BY <1>3, <1>4

(* What a step does to the waiters, by its kind.                           *)

LEMMA ATypes ==
  ASSUME LInv
  PROVE  /\ \A c \in Chan : waiters[c] \in Seq(Task) /\ Len(items[c]) \in Nat /\ (Len(items[c]) = 0 <=> items[c] = <<>>)
         /\ pc \in [Task -> Place] /\ on \in [Task -> Chan] /\ fut \in [Task -> FutState]
         /\ items \in [Chan -> Seq(1..MaxPut)] /\ waiters \in [Chan -> Seq(Task)]
<1>1. ChanTypes /\ TaskTypes
  BY TypeParts DEF LInv
<1>2. \A c \in Chan : items[c] \in Seq(1..MaxPut) /\ waiters[c] \in Seq(Task)
  BY <1>1 DEF ChanTypes
<1>3. \A c \in Chan : Len(items[c]) \in Nat /\ (Len(items[c]) = 0 <=> items[c] = <<>>)
  <2> SUFFICES ASSUME NEW c \in Chan PROVE Len(items[c]) \in Nat /\ (Len(items[c]) = 0 <=> items[c] = <<>>)
    OBVIOUS
  <2>1. items[c] \in Seq(1..MaxPut)
    BY <1>2
  <2>2. QED
    BY <2>1, EmptySeq
<1>4. QED
  BY <1>1, <1>2, <1>3 DEF ChanTypes, TaskTypes

\* Who waits stays as he was, and no channel has more items.
LEMMA AShrink ==
  ASSUME LInv, AInv, thread' = thread, posted'.wake = {}, waiters' = waiters, fut' = fut,
         \A t \in Task : /\ pc'[t] = "wait" <=> pc[t] = "wait"
                         /\ pc[t] = "wait" => on'[t] = on[t]
                         /\ pc'[t] = "saw_empty" => items'[on'[t]] = <<>>,
         \A c \in Chan : Len(items'[c]) \in Nat /\ Len(items'[c]) <= Len(items[c])
  PROVE  AInv'
<1>1. \A c \in Chan : Roused(c)' = Roused(c)
  BY DEF Roused
<1>2. \A c \in Chan : Sleeping(c)' = Sleeping(c)
  BY DEF Sleeping, AInv
<1>3. ASSUME NEW c \in Chan PROVE Enough(c)'
  <2>1. IsFiniteSet(Roused(c)) /\ (Sleeping(c) # {} => Len(items[c]) <= Cardinality(Roused(c)))
    BY DEF AInv, Enough
  <2>2. Cardinality(Roused(c)) \in Nat /\ Len(items[c]) \in Nat
    BY <2>1, ATypes, FS_CardinalityType
  <2>3. Sleeping(c) # {} => Len(items'[c]) <= Cardinality(Roused(c))
    BY <2>1, <2>2
  <2>4. QED
    BY <1>1, <1>2, <2>1, <2>3 DEF Enough
<1>4. ASSUME NEW c \in Chan PROVE Lined(c)'
  <2>1. Lined(c) /\ waiters[c] \in Seq(Task)
    BY ATypes DEF AInv
  <2>2. Elements(waiters[c]) \subseteq Task
    BY <2>1, ElementsFacts
  <2>3. \A t \in Elements(waiters[c]) : on[t] = c /\ pc[t] = "wait" /\ fut[t] \in {"pending", "cancelled"}
    BY <2>1 DEF Lined
  <2>4. \A t \in Elements(waiters[c]) : on'[t] = c /\ pc'[t] = "wait" /\ fut'[t] \in {"pending", "cancelled"}
    BY <2>2, <2>3
  <2>5. Distinct(waiters[c]')
    BY <2>1 DEF Lined
  <2>6. QED
    BY <2>4, <2>5 DEF Lined
<1>5. \A t \in Task : fut'[t] = "pending" => pc'[t] = "wait" /\ t \in Elements(waiters'[on'[t]])
  BY DEF AInv
<1>6. QED
  BY <1>3, <1>4, <1>5 DEF AInv

LEMMA ACancel ==
  ASSUME LInv, AInv, NEW T, CancelTasks(T), UNCHANGED <<items, waiters, pc, on, thread>>
  PROVE  AInv'
<1>1. \A t \in Task : \/ fut'[t] = fut[t]
                      \/ fut[t] = "pending" /\ fut'[t] = "cancelled"
  BY DEF CancelTasks, SetFut
<1>2. \A c \in Chan : Roused(c)' = Roused(c)
  <2> SUFFICES ASSUME NEW c \in Chan PROVE Roused(c)' = Roused(c)
    OBVIOUS
  <2>1. \A t \in Task : fut'[t] = "set" <=> fut[t] = "set"
    BY <1>1
  <2>2. QED
    BY <2>1 DEF Roused
<1>3. \A c \in Chan : Sleeping(c)' \subseteq Sleeping(c)
  BY <1>1 DEF Sleeping
<1>4. posted'.wake = {}
  <2>1. posted \in Posts
    BY TypeParts DEF LInv, LoopTypes
  <2>2. posted'.wake = posted.wake \ T
    BY <2>1 DEF CancelTasks, Posts
  <2>3. QED
    BY <2>2 DEF AInv
<1>5. ASSUME NEW c \in Chan PROVE Enough(c)'
  BY <1>2, <1>3 DEF AInv, Enough
<1>6. ASSUME NEW c \in Chan PROVE Lined(c)'
  <2>1. Lined(c) /\ waiters[c] \in Seq(Task)
    BY ATypes DEF AInv
  <2>2. Elements(waiters[c]) \subseteq Task
    BY <2>1, ElementsFacts
  <2>3. \A t \in Elements(waiters[c]) : on'[t] = c /\ pc'[t] = "wait" /\ fut'[t] \in {"pending", "cancelled"}
    BY <1>1, <2>1, <2>2 DEF Lined
  <2>4. QED
    BY <2>1, <2>3 DEF Lined
<1>7. \A t \in Task : fut'[t] = "pending" => pc'[t] = "wait" /\ t \in Elements(waiters'[on'[t]])
  BY <1>1 DEF AInv
<1>8. QED
  BY <1>4, <1>5, <1>6, <1>7 DEF AInv

LEMMA AFlush ==
  ASSUME LInv, AInv, NEW c \in Chan, Flushed(c), UNCHANGED <<pc, on, posted, thread>>
  PROVE  AInv'
<1>0. waiters[c] \in Seq(Task)
  BY ATypes
<1>1. \A t \in Task : fut'[t] = IF fut[t] = "pending" /\ t \in Elements(waiters[c]) THEN "cancelled" ELSE fut[t]
  BY DEF Flushed, SetFut, Elements
<1>2. /\ items' = [items EXCEPT ![c] = <<>>] /\ waiters' = [waiters EXCEPT ![c] = <<>>]
  BY DEF Flushed
<1>3. /\ items'[c] = <<>> /\ waiters'[c] = <<>> /\ Len(items'[c]) = 0
      /\ \A d \in Chan \ {c} : items'[d] = items[d] /\ waiters'[d] = waiters[d]
  BY <1>2, ATypes
<1>4. \A d \in Chan : Roused(d)' = Roused(d)
  <2> SUFFICES ASSUME NEW d \in Chan PROVE Roused(d)' = Roused(d)
    OBVIOUS
  <2>1. \A t \in Task : fut'[t] = "set" <=> fut[t] = "set"
    BY <1>1
  <2>2. QED
    BY <2>1 DEF Roused
<1>5. \A d \in Chan : Sleeping(d)' \subseteq Sleeping(d)
  BY <1>1 DEF Sleeping
<1>6. ASSUME NEW d \in Chan PROVE Enough(d)'
  <2>1. IsFiniteSet(Roused(d)) /\ Cardinality(Roused(d)) \in Nat
    BY FS_CardinalityType DEF AInv, Enough
  <2>2. CASE d = c
    <3>1. Len(items'[d]) <= Cardinality(Roused(d))
      BY <1>3, <2>1, <2>2
    <3>2. QED
      BY <1>4, <2>1, <3>1 DEF Enough
  <2>3. CASE d # c
    BY <1>3, <1>4, <1>5, <2>3 DEF AInv, Enough
  <2>4. QED
    BY <2>2, <2>3
<1>7. ASSUME NEW d \in Chan PROVE Lined(d)'
  <2>1. CASE d = c
    <3>1. Distinct(waiters'[d]) /\ Elements(waiters'[d]) = {}
      BY <1>3, <2>1 DEF Distinct, Elements
    <3>2. QED
      BY <3>1 DEF Lined
  <2>2. CASE d # c
    <3>1. Lined(d) /\ waiters[d] \in Seq(Task) /\ waiters'[d] = waiters[d]
      BY <1>3, <2>2, ATypes DEF AInv
    <3>2. Elements(waiters[d]) \subseteq Task
      BY <3>1, ElementsFacts
    <3>3. \A t \in Elements(waiters[d]) : on'[t] = d /\ pc'[t] = "wait" /\ fut'[t] \in {"pending", "cancelled"}
      BY <1>1, <3>1, <3>2 DEF Lined
    <3>4. QED
      BY <3>1, <3>3 DEF Lined
  <2>3. QED
    BY <2>1, <2>2
<1>8. ASSUME NEW t \in Task, fut'[t] = "pending"
      PROVE  pc'[t] = "wait" /\ t \in Elements(waiters'[on'[t]])
  <2>1. fut[t] = "pending" /\ t \notin Elements(waiters[c])
    BY <1>1, <1>8
  <2>2. pc[t] = "wait" /\ t \in Elements(waiters[on[t]]) /\ on[t] \in Chan
    BY <2>1, ATypes DEF AInv
  <2>3. on[t] # c
    BY <2>1, <2>2
  <2>4. QED
    BY <1>3, <2>2, <2>3
<1>9. ASSUME NEW t \in Task, pc'[t] = "saw_empty" PROVE items'[on'[t]] = <<>>
  <2>1. items[on[t]] = <<>> /\ on[t] \in Chan
    BY <1>9, ATypes DEF AInv
  <2>2. QED
    BY <1>3, <2>1
<1>10. QED
  BY <1>6, <1>7, <1>8, <1>9 DEF AInv

\* An item more on each channel of L, and its first live waiter woken.
LEMMA AWake ==
  ASSUME LInv, AInv, NEW L \in SUBSET Chan,
         fut' = SetFut(UNION {Woken(waiters[c], fut) : c \in L}, "set"),
         \A c \in Chan : waiters'[c] = IF c \in L THEN StillWaiting(waiters[c], fut) ELSE waiters[c],
         \A c \in Chan : Len(items'[c]) \in Nat /\ Len(items'[c]) <= Len(items[c]) + 1,
         \A c \in Chan \ L : items'[c] = items[c],
         \A t \in Task : (pc'[t] = "wait" <=> pc[t] = "wait") /\ pc'[t] # "saw_empty",
         on' = on, thread' = thread, posted' = posted
  PROVE  AInv'
<1> DEFINE U == UNION {Woken(waiters[c], fut) : c \in L}
<1>1. \A c \in Chan : waiters[c] \in Seq(Task) /\ Lined(c) /\ Distinct(waiters[c])
      /\ Elements(waiters[c]) \subseteq Task
  <2> SUFFICES ASSUME NEW c \in Chan
               PROVE waiters[c] \in Seq(Task) /\ Lined(c) /\ Distinct(waiters[c]) /\ Elements(waiters[c]) \subseteq Task
    OBVIOUS
  <2>1. waiters[c] \in Seq(Task) /\ Lined(c)
    BY ATypes DEF AInv
  <2>2. QED
    BY <2>1, ElementsFacts DEF Lined
<1>2. \A c \in Chan : \A t \in Elements(waiters[c]) :
         t \in Task /\ on[t] = c /\ pc[t] = "wait" /\ fut[t] \in {"pending", "cancelled"}
  BY <1>1 DEF Lined
<1>3. ASSUME NEW c \in Chan
      PROVE  LET W == Woken(waiters[c], fut)
                 S == StillWaiting(waiters[c], fut)
             IN  /\ Distinct(S) /\ Elements(S) \subseteq Elements(waiters[c]) \ W
                 /\ W \subseteq Elements(waiters[c]) /\ \A t \in W : fut[t] = "pending"
                 /\ \/ \E t \in Task : W = {t}
                    \/ W = {} /\ \A u \in Elements(waiters[c]) : fut[u] # "pending"
                 /\ \A u \in Elements(waiters[c]) : fut[u] = "pending" /\ u \notin W => u \in Elements(S)
  BY <1>1, WakeFacts
<1>4. \A t \in U : t \in Task /\ fut[t] = "pending" /\ on[t] \in L /\ t \in Woken(waiters[on[t]], fut) /\ pc[t] = "wait"
  <2> SUFFICES ASSUME NEW c \in L, NEW t \in Woken(waiters[c], fut)
               PROVE t \in Task /\ fut[t] = "pending" /\ on[t] = c /\ pc[t] = "wait"
    OBVIOUS
  <2>1. c \in Chan
    OBVIOUS
  <2>2. t \in Elements(waiters[c]) /\ fut[t] = "pending"
    BY <1>3, <2>1
  <2>3. QED
    BY <1>2, <2>1, <2>2
<1>5. \A c \in L : \A t \in Woken(waiters[c], fut) : t \in U
  OBVIOUS
<1>6. \A t \in Task : fut'[t] = IF t \in U THEN "set" ELSE fut[t]
  BY DEF SetFut
<1> HIDE DEF U
<1>7. ASSUME NEW c \in Chan PROVE Lined(c)'
  <2>1. CASE c \in L
    <3> DEFINE S == StillWaiting(waiters[c], fut)
    <3>1. Distinct(S) /\ Elements(S) \subseteq Elements(waiters[c]) \ Woken(waiters[c], fut) /\ waiters'[c] = S
      BY <1>3, <2>1
    <3> HIDE DEF S
    <3>2. \A t \in Elements(S) : t \notin U
      BY <1>2, <1>4, <3>1
    <3>3. \A t \in Elements(S) : on'[t] = c /\ pc'[t] = "wait" /\ fut'[t] \in {"pending", "cancelled"}
      BY <1>2, <1>6, <3>1, <3>2
    <3>4. QED
      BY <3>1, <3>3 DEF Lined
  <2>2. CASE c \notin L
    <3>1. waiters'[c] = waiters[c] /\ \A t \in Elements(waiters[c]) : t \notin U
      BY <1>2, <1>4, <2>2
    <3>2. \A t \in Elements(waiters[c]) : on'[t] = c /\ pc'[t] = "wait" /\ fut'[t] \in {"pending", "cancelled"}
      BY <1>2, <1>6, <3>1
    <3>3. QED
      BY <1>1, <3>1, <3>2 DEF Lined
  <2>3. QED
    BY <2>1, <2>2
<1>8. ASSUME NEW c \in Chan PROVE Sleeping(c)' \subseteq Sleeping(c) /\ \A t \in Sleeping(c)' : t \notin U
  BY <1>6 DEF Sleeping
<1>9. ASSUME NEW c \in Chan PROVE Enough(c)'
  <2>1. /\ IsFiniteSet(Roused(c)) /\ (Sleeping(c) # {} => Len(items[c]) <= Cardinality(Roused(c)))
        /\ Cardinality(Roused(c)) \in Nat /\ Len(items[c]) \in Nat
    BY FS_CardinalityType, ATypes DEF AInv, Enough
  <2>2. CASE c \in L
    <3> DEFINE W == Woken(waiters[c], fut)
    <3>1. ASSUME NEW t PROVE t \in Roused(c)' <=> t \in Roused(c) \cup W
      <4>0. W \subseteq Elements(waiters[c]) /\ (t \in W => t \in U)
        BY <1>3, <1>5, <2>2
      <4> HIDE DEF W
      <4>1. CASE t \notin Task
        BY <1>2, <4>0, <4>1 DEF Roused
      <4>2. CASE t \in Task /\ t \in U
        <5>1. fut[t] = "pending" /\ t \in Woken(waiters[on[t]], fut) /\ pc[t] = "wait" /\ fut'[t] = "set"
          BY <1>4, <1>6, <4>2
        <5>2. t \notin Roused(c) /\ (t \in Roused(c)' <=> on[t] = c)
          BY <4>2, <5>1 DEF Roused
        <5>3. on[t] = c <=> t \in W
          BY <1>2, <4>0, <5>1 DEF W
        <5>4. QED
          BY <5>2, <5>3
      <4>3. CASE t \in Task /\ t \notin U
        BY <1>6, <4>0, <4>3 DEF Roused
      <4>4. QED
        BY <4>1, <4>2, <4>3
    <3>2. Roused(c)' = Roused(c) \cup W
      BY <3>1
    <3>3. \A t \in W : t \notin Roused(c)
      BY <1>3 DEF Roused
    <3>4. CASE \E t \in Task : W = {t}
      <4>1. PICK t \in Task : W = {t}
        BY <3>4
      <4>2. t \notin Roused(c)
        BY <3>3, <4>1
      <4>3. IsFiniteSet(Roused(c) \cup {t}) /\ Cardinality(Roused(c) \cup {t}) = Cardinality(Roused(c)) + 1
        BY <2>1, <4>2, FS_AddElement
      <4>4. Sleeping(c)' # {} => Len(items'[c]) <= Cardinality(Roused(c)) + 1
        BY <1>8, <2>1
      <4>5. QED
        BY <3>2, <4>1, <4>3, <4>4 DEF Enough
    <3>5. CASE W = {} /\ \A u \in Elements(waiters[c]) : fut[u] # "pending"
      <4>1. Sleeping(c) = {}
        BY <3>5 DEF AInv, Sleeping
      <4>2. Sleeping(c)' = {} /\ Roused(c)' = Roused(c)
        BY <1>8, <3>2, <3>5, <4>1
      <4>3. QED
        BY <2>1, <4>2 DEF Enough
    <3>6. QED
      BY <1>3, <3>4, <3>5
  <2>3. CASE c \notin L
    <3>1. \A t \in Task : on[t] = c => t \notin U
      BY <1>4, <2>3
    <3>2. Roused(c)' = Roused(c)
      BY <1>6, <3>1 DEF Roused
    <3>3. items'[c] = items[c]
      BY <2>3
    <3>4. QED
      BY <1>8, <2>1, <3>2, <3>3 DEF Enough
  <2>4. QED
    BY <2>2, <2>3
<1>10. ASSUME NEW t \in Task, fut'[t] = "pending" PROVE pc'[t] = "wait" /\ t \in Elements(waiters'[on'[t]])
  <2>1. fut[t] = "pending" /\ t \notin U
    BY <1>6, <1>10
  <2>2. pc[t] = "wait" /\ t \in Elements(waiters[on[t]]) /\ on[t] \in Chan
    BY <2>1, ATypes DEF AInv
  <2>3. CASE on[t] \in L
    <3>1. t \notin Woken(waiters[on[t]], fut)
      BY <1>5, <2>1, <2>3
    <3>2. t \in Elements(StillWaiting(waiters[on[t]], fut))
      BY <1>3, <2>1, <2>2, <3>1
    <3>3. QED
      BY <2>2, <2>3, <3>2
  <2>4. CASE on[t] \notin L
    BY <2>2, <2>4
  <2>5. QED
    BY <2>3, <2>4
<1>11. QED
  BY <1>7, <1>9, <1>10 DEF AInv

\* A runnable task takes an item, or sees that there is none.
LEMMA ALeave ==
  ASSUME LInv, AInv, LoopFree, NEW t \in Task, Runnable(t), NEW p, p # "wait",
         pc' = [pc EXCEPT ![t] = p], fut' = SetFut({t}, "none"),
         UNCHANGED <<waiters, on, thread, posted>>,
         p = "saw_empty" => items'[on[t]] = <<>>,
         \A c \in Chan : c # on[t] => items'[c] = items[c],
         Len(items'[on[t]]) \in Nat,
         Len(items'[on[t]]) = 0 \/ Len(items'[on[t]]) + 1 <= Len(items[on[t]])
  PROVE  AInv'
<1>0. /\ \A u \in Task : u # t => pc'[u] = pc[u] /\ fut'[u] = fut[u]
      /\ pc'[t] = p /\ fut'[t] = "none" /\ on[t] \in Chan
  BY ATypes DEF SetFut
<1>1. fut[t] # "pending" /\ (pc[t] = "wait" => fut[t] = "set")
  BY DEF AInv, Runnable
<1>2. ASSUME NEW c \in Chan PROVE Lined(c)'
  <2>1. Lined(c) /\ waiters[c] \in Seq(Task)
    BY ATypes DEF AInv
  <2>2. Elements(waiters[c]) \subseteq Task
    BY <2>1, ElementsFacts
  <2>3. t \notin Elements(waiters[c])
    BY <1>1, <2>1 DEF Lined
  <2>4. \A u \in Elements(waiters[c]) : on'[u] = c /\ pc'[u] = "wait" /\ fut'[u] \in {"pending", "cancelled"}
    BY <1>0, <2>1, <2>2, <2>3 DEF Lined
  <2>5. QED
    BY <2>1, <2>4 DEF Lined
<1>3. ASSUME NEW c \in Chan PROVE Roused(c)' = Roused(c) \ {t} /\ Sleeping(c)' = Sleeping(c)
  <2>1. \A u : u \in Roused(c)' <=> u \in Roused(c) \ {t}
    BY <1>0 DEF Roused
  <2>2. \A u : u \in Sleeping(c)' <=> u \in Sleeping(c)
    BY <1>0, <1>1 DEF Sleeping
  <2>3. QED
    BY <2>1, <2>2
<1>4. ASSUME NEW c \in Chan PROVE Enough(c)'
  <2>1. /\ IsFiniteSet(Roused(c)) /\ (Sleeping(c) # {} => Len(items[c]) <= Cardinality(Roused(c)))
        /\ Cardinality(Roused(c)) \in Nat /\ Len(items[c]) \in Nat
    BY FS_CardinalityType, ATypes DEF AInv, Enough
  <2>2. /\ IsFiniteSet(Roused(c) \ {t})
        /\ Cardinality(Roused(c) \ {t}) = IF t \in Roused(c) THEN Cardinality(Roused(c)) - 1 ELSE Cardinality(Roused(c))
    BY <2>1, FS_RemoveElement
  <2>3. Cardinality(Roused(c) \ {t}) \in Nat
    BY <2>2, FS_CardinalityType
  <2>4. CASE c # on[t]
    <3>1. t \notin Roused(c) /\ items'[c] = items[c]
      BY <2>4 DEF Roused
    <3>2. Roused(c)' = Roused(c) /\ Sleeping(c)' = Sleeping(c)
      BY <1>3, <3>1
    <3>3. QED
      BY <2>1, <3>1, <3>2 DEF Enough
  <2>5. CASE c = on[t]
    <3>1. Sleeping(c) # {} => Len(items'[c]) <= Cardinality(Roused(c) \ {t})
      BY <2>1, <2>2, <2>3, <2>5
    <3>2. QED
      BY <1>3, <2>2, <3>1 DEF Enough
  <2>6. QED
    BY <2>4, <2>5
<1>5. \A u \in Task : fut'[u] = "pending" => pc'[u] = "wait" /\ u \in Elements(waiters'[on'[u]])
  BY <1>0 DEF AInv
<1>6. \A u \in Task : pc'[u] = "saw_empty" => items'[on'[u]] = <<>>
  BY <1>0 DEF LoopFree
<1>7. QED
  BY <1>2, <1>4, <1>5, <1>6 DEF AInv

\* Between seeing the deque empty and waiting, nobody puts on it.
LEMMA ARegister == ASSUME LInv, AInv, NEW t \in Task, Register(t) PROVE AInv'
<1> DEFINE d == on[t]
<1>0. /\ \A u \in Task : u # t => pc'[u] = pc[u] /\ fut'[u] = fut[u]
      /\ pc'[t] = "wait" /\ fut'[t] = "pending" /\ d \in Chan /\ pc[t] = "saw_empty"
      /\ waiters'[d] = Append(waiters[d], t) /\ \A c \in Chan : c # d => waiters'[c] = waiters[c]
      /\ UNCHANGED <<items, on, thread, posted>>
  BY ATypes DEF SetFut, Register
<1>1. fut[t] # "pending"
  BY <1>0 DEF AInv
<1>2. \A c \in Chan : waiters[c] \in Seq(Task) /\ Lined(c)
  BY ATypes DEF AInv
<1>3. \A c \in Chan : t \notin Elements(waiters[c]) /\ Elements(waiters[c]) \subseteq Task
  BY <1>0, <1>2, ElementsFacts DEF Lined
<1>4. Elements(Append(waiters[d], t)) = Elements(waiters[d]) \cup {t} /\ Distinct(Append(waiters[d], t))
  BY <1>0, <1>2, <1>3, AddLast DEF Lined
<1>5. ASSUME NEW c \in Chan PROVE Lined(c)'
  <2>1. Distinct(waiters'[c]) /\ Elements(waiters'[c]) \subseteq Elements(waiters[c]) \cup (IF c = d THEN {t} ELSE {})
    <3>1. CASE c = d
      BY <1>0, <1>4, <3>1
    <3>2. CASE c # d
      BY <1>0, <1>2, <3>2 DEF Lined
    <3>3. QED
      BY <3>1, <3>2
  <2>2. \A u \in Elements(waiters[c]) : u \in Task /\ u # t
                                        /\ on[u] = c /\ pc[u] = "wait" /\ fut[u] \in {"pending", "cancelled"}
    BY <1>2, <1>3 DEF Lined
  <2>3. \A u \in Elements(waiters'[c]) : on'[u] = c /\ pc'[u] = "wait" /\ fut'[u] \in {"pending", "cancelled"}
    <3> SUFFICES ASSUME NEW u \in Elements(waiters'[c])
                 PROVE  on'[u] = c /\ pc'[u] = "wait" /\ fut'[u] \in {"pending", "cancelled"}
      OBVIOUS
    <3>1. CASE u \in Elements(waiters[c])
      <4>1. u \in Task /\ u # t /\ on[u] = c /\ pc[u] = "wait" /\ fut[u] \in {"pending", "cancelled"}
        BY <2>2, <3>1
      <4>2. QED
        BY <1>0, <4>1
    <3>2. CASE u = t /\ c = d
      BY <1>0, <3>2
    <3>3. QED
      BY <2>1, <3>1, <3>2
  <2>4. QED
    BY <2>1, <2>3 DEF Lined
<1>6. ASSUME NEW c \in Chan PROVE Enough(c)'
  <2>1. /\ IsFiniteSet(Roused(c)) /\ (Sleeping(c) # {} => Len(items[c]) <= Cardinality(Roused(c)))
        /\ Cardinality(Roused(c)) \in Nat /\ Len(items[c]) \in Nat
    BY FS_CardinalityType, ATypes DEF AInv, Enough
  <2>2. Roused(c)' = Roused(c)
    <3>1. \A u : u \in Roused(c)' <=> u \in Roused(c)
      BY <1>0 DEF Roused
    <3>2. QED
      BY <3>1
  <2>3. CASE c = d
    <3>1. items[c] = <<>> /\ items'[c] = <<>>
      BY <1>0, <2>3 DEF AInv
    <3>2. Len(items'[c]) <= Cardinality(Roused(c))
      BY <2>1, <3>1
    <3>3. QED
      BY <2>1, <2>2, <3>2 DEF Enough
  <2>4. CASE c # d
    <3>1. \A u : u \in Sleeping(c)' <=> u \in Sleeping(c)
      BY <1>0, <2>4 DEF Sleeping
    <3>2. Sleeping(c)' = Sleeping(c)
      BY <3>1
    <3>3. QED
      BY <1>0, <2>1, <2>2, <3>2 DEF Enough
  <2>5. QED
    BY <2>3, <2>4
<1>7. ASSUME NEW u \in Task, fut'[u] = "pending" PROVE pc'[u] = "wait" /\ u \in Elements(waiters'[on'[u]])
  <2>1. CASE u = t
    BY <1>0, <1>4, <2>1
  <2>2. CASE u # t
    <3>1. pc[u] = "wait" /\ u \in Elements(waiters[on[u]]) /\ on[u] \in Chan
      BY <1>0, <1>7, <2>2, ATypes DEF AInv
    <3>2. CASE on[u] = d
      BY <1>0, <1>4, <2>2, <3>1, <3>2
    <3>3. CASE on[u] # d
      BY <1>0, <2>2, <3>1, <3>3
    <3>4. QED
      BY <3>2, <3>3
  <2>3. QED
    BY <2>1, <2>2
<1>8. \A u \in Task : pc'[u] = "saw_empty" => items'[on'[u]] = <<>>
  BY <1>0 DEF AInv
<1>9. QED
  BY <1>0, <1>5, <1>6, <1>7, <1>8 DEF AInv

\* A task that leaves the waiters of d takes at most one wakeup with it, and
\* while there is an item another task is woken in its place.
LEMMA LeaveFacts ==
  ASSUME LInv, AInv, NEW t \in Task, LeaveWaiters(t)
  PROVE  LET d == on[t] IN
         \E W \in SUBSET Task, q \in Seq(Task) :
           /\ \A u \in Task : fut'[u] = IF u = t THEN "none" ELSE IF u \in W THEN "set" ELSE fut[u]
           /\ waiters'[d] = q /\ \A c \in Chan : c # d => waiters'[c] = waiters[c]
           /\ Distinct(q) /\ Elements(q) \subseteq Elements(waiters[d]) \ ({t} \cup W)
           /\ W \subseteq Elements(waiters[d]) \ {t} /\ \A u \in W : fut[u] = "pending"
           /\ \/ items[d] = <<>> /\ W = {}
              \/ \E u \in Task : W = {u}
              \/ W = {} /\ \A u \in Elements(waiters[d]) \ {t} : fut[u] # "pending"
           /\ \A u \in Elements(waiters[d]) \ {t} : fut[u] = "pending" /\ u \notin W => u \in Elements(q)
<1> DEFINE d == on[t]
           ws == Without(waiters[d], t)
           W == Woken(ws, fut)
           S == StillWaiting(ws, fut)
<1>1. d \in Chan /\ waiters \in [Chan -> Seq(Task)] /\ fut \in [Task -> FutState]
      /\ waiters[d] \in Seq(Task) /\ Distinct(waiters[d])
  BY ATypes DEF AInv, Lined
<1>2. ws \in Seq(Task) /\ Distinct(ws) /\ Elements(ws) = Elements(waiters[d]) \ {t}
  BY <1>1, WithoutFacts
<1>3. Elements(ws) \subseteq Task
  BY <1>2, ElementsFacts
<1>4. CASE items[d] = <<>>
  <2>1. waiters' = [waiters EXCEPT ![d] = ws] /\ fut' = SetFut({t}, "none")
    BY <1>4 DEF LeaveWaiters
  <2> HIDE DEF ws
  <2>2. waiters'[d] = ws /\ \A c \in Chan : c # d => waiters'[c] = waiters[c]
    BY <1>1, <2>1
  <2> DEFINE N == {}
  <2>3. /\ \A u \in Task : fut'[u] = IF u = t THEN "none" ELSE IF u \in N THEN "set" ELSE fut[u]
        /\ N = {} /\ N \in SUBSET Task /\ N \subseteq Elements(waiters[d]) \ {t} /\ \A u \in N : fut[u] = "pending"
    BY <2>1 DEF SetFut
  <2> HIDE DEF N
  <2>4. /\ Elements(ws) \subseteq Elements(waiters[d]) \ ({t} \cup N)
        /\ \A u \in Elements(waiters[d]) \ {t} : fut[u] = "pending" /\ u \notin N => u \in Elements(ws)
    BY <1>2, <2>3
  <2>5. QED
    BY <1>2, <1>4, <2>2, <2>3, <2>4
<1>5. CASE items[d] # <<>>
  <2>1. waiters' = [waiters EXCEPT ![d] = S] /\ fut' = [SetFut(W, "set") EXCEPT ![t] = "none"]
    BY <1>5 DEF LeaveWaiters
  <2> HIDE DEF ws
  <2>2. /\ S \in Seq(Task) /\ Distinct(S) /\ Elements(S) \subseteq Elements(ws) \ W
        /\ W \subseteq Elements(ws) /\ \A u \in W : fut[u] = "pending"
        /\ \/ \E u \in Task : W = {u}
           \/ W = {} /\ \A u \in Elements(ws) : fut[u] # "pending"
        /\ \A u \in Elements(ws) : fut[u] = "pending" /\ u \notin W => u \in Elements(S)
    BY <1>2, WakeFacts
  <2> HIDE DEF W, S
  <2>3. waiters'[d] = S /\ \A c \in Chan : c # d => waiters'[c] = waiters[c]
    BY <1>1, <2>1
  <2>4. \A u \in Task : fut'[u] = IF u = t THEN "none" ELSE IF u \in W THEN "set" ELSE fut[u]
    BY <2>1 DEF SetFut
  <2>5. W \in SUBSET Task
    BY <1>3, <2>2
  <2>6. QED
    BY <1>2, <2>2, <2>3, <2>4, <2>5
<1>6. QED
  BY <1>4, <1>5

LEMMA ACancelled == ASSUME LInv, AInv, NEW t \in Task, Cancelled(t) PROVE AInv'
<1> DEFINE d == on[t]
<1>0. /\ \A u \in Task : u # t => pc'[u] = pc[u]
      /\ pc'[t] # "wait" /\ pc'[t] # "saw_empty" /\ d \in Chan
      /\ UNCHANGED <<items, on, thread, posted>> /\ LoopFree /\ LeaveWaiters(t)
  BY ATypes DEF Cancelled
<1>1. PICK W \in SUBSET Task, q \in Seq(Task) :
           /\ \A u \in Task : fut'[u] = IF u = t THEN "none" ELSE IF u \in W THEN "set" ELSE fut[u]
           /\ waiters'[d] = q /\ \A c \in Chan : c # d => waiters'[c] = waiters[c]
           /\ Distinct(q) /\ Elements(q) \subseteq Elements(waiters[d]) \ ({t} \cup W)
           /\ W \subseteq Elements(waiters[d]) \ {t} /\ \A u \in W : fut[u] = "pending"
           /\ \/ items[d] = <<>> /\ W = {}
              \/ \E u \in Task : W = {u}
              \/ W = {} /\ \A u \in Elements(waiters[d]) \ {t} : fut[u] # "pending"
           /\ \A u \in Elements(waiters[d]) \ {t} : fut[u] = "pending" /\ u \notin W => u \in Elements(q)
  BY <1>0, LeaveFacts
<1>2. \A c \in Chan : waiters[c] \in Seq(Task) /\ Lined(c) /\ Elements(waiters[c]) \subseteq Task
  <2>1. \A c \in Chan : waiters[c] \in Seq(Task) /\ Lined(c)
    BY ATypes DEF AInv
  <2>2. QED
    BY <2>1, ElementsFacts
<1>3. \A c \in Chan : \A u \in Elements(waiters[c]) :
         u \in Task /\ on[u] = c /\ pc[u] = "wait" /\ fut[u] \in {"pending", "cancelled"}
  BY <1>2 DEF Lined
<1>4. \A u \in W : u \in Task /\ u # t /\ on[u] = d /\ pc[u] = "wait" /\ fut[u] = "pending"
  BY <1>0, <1>1, <1>3
<1>5. ASSUME NEW c \in Chan PROVE Lined(c)'
  <2>1. CASE c = d
    <3>1. \A u \in Elements(q) : on'[u] = c /\ pc'[u] = "wait" /\ fut'[u] \in {"pending", "cancelled"}
      <4> SUFFICES ASSUME NEW u \in Elements(q)
                   PROVE  on'[u] = c /\ pc'[u] = "wait" /\ fut'[u] \in {"pending", "cancelled"}
        OBVIOUS
      <4>1. u \in Elements(waiters[d]) /\ u # t /\ u \notin W
        BY <1>1
      <4>2. u \in Task /\ on[u] = d /\ pc[u] = "wait" /\ fut[u] \in {"pending", "cancelled"}
        BY <1>0, <1>3, <4>1
      <4>3. fut'[u] = fut[u]
        BY <1>1, <4>1, <4>2
      <4>4. QED
        BY <1>0, <2>1, <4>1, <4>2, <4>3
    <3>2. QED
      BY <1>1, <2>1, <3>1 DEF Lined
  <2>2. CASE c # d
    <3>1. waiters'[c] = waiters[c]
      BY <1>1, <2>2
    <3>2. \A u \in Elements(waiters[c]) : on'[u] = c /\ pc'[u] = "wait" /\ fut'[u] \in {"pending", "cancelled"}
      <4> SUFFICES ASSUME NEW u \in Elements(waiters[c])
                   PROVE  on'[u] = c /\ pc'[u] = "wait" /\ fut'[u] \in {"pending", "cancelled"}
        OBVIOUS
      <4>1. u \in Task /\ on[u] = c /\ pc[u] = "wait" /\ fut[u] \in {"pending", "cancelled"}
        BY <1>3
      <4>2. u # t /\ u \notin W
        BY <1>4, <2>2, <4>1
      <4>3. fut'[u] = fut[u]
        BY <1>1, <4>1, <4>2
      <4>4. QED
        BY <1>0, <4>1, <4>2, <4>3
    <3>3. QED
      BY <1>2, <3>1, <3>2 DEF Lined
  <2>3. QED
    BY <2>1, <2>2
<1>6. ASSUME NEW c \in Chan
      PROVE  /\ \A u \in Sleeping(c)' : u \in Sleeping(c) /\ u # t /\ u \notin W
             /\ \A u : u \in Roused(c)' <=> u \in (Roused(c) \ {t}) \cup (IF c = d THEN W ELSE {})
  <2>1. \A u \in Sleeping(c)' : u \in Sleeping(c) /\ u # t /\ u \notin W
    BY <1>0, <1>1 DEF Sleeping
  <2>2. ASSUME NEW u PROVE u \in Roused(c)' <=> u \in (Roused(c) \ {t}) \cup (IF c = d THEN W ELSE {})
    <3>1. CASE u \notin Task
      BY <1>4, <3>1 DEF Roused
    <3>2. CASE u = t
      BY <1>0, <1>4, <3>2 DEF Roused
    <3>3. CASE u \in W
      <4>1. u \in Task /\ u # t /\ on[u] = d /\ pc[u] = "wait" /\ fut'[u] = "set" /\ fut[u] = "pending"
        BY <1>1, <1>4, <3>3
      <4>2. u \notin Roused(c) /\ (u \in Roused(c)' <=> c = d)
        BY <1>0, <4>1 DEF Roused
      <4>3. QED
        BY <3>3, <4>2
    <3>4. CASE u \in Task /\ u # t /\ u \notin W
      BY <1>0, <1>1, <3>4 DEF Roused
    <3>5. QED
      BY <3>1, <3>2, <3>3, <3>4
  <2>3. QED
    BY <2>1, <2>2
<1>7. ASSUME NEW c \in Chan PROVE Enough(c)'
  <2> DEFINE R == Roused(c)
             n == Cardinality(R)
             L == Len(items[c])
  <2>1. /\ IsFiniteSet(R) /\ (Sleeping(c) # {} => L <= n)
        /\ n \in Nat /\ L \in Nat /\ items'[c] = items[c]
    BY <1>0, FS_CardinalityType, ATypes DEF AInv, Enough
  <2>2. /\ IsFiniteSet(R \ {t})
        /\ Cardinality(R \ {t}) = IF t \in R THEN n - 1 ELSE n
    BY <2>1, FS_RemoveElement
  <2>3. Sleeping(c)' # {} => Sleeping(c) # {}
    BY <1>6
  <2>4. CASE c # d
    <3>1. t \notin R
      BY <2>4 DEF Roused
    <3>2. Roused(c)' = R
      BY <1>6, <2>4, <3>1
    <3>3. QED
      BY <2>1, <2>3, <3>2 DEF Enough
  <2>5. CASE c = d /\ items[d] = <<>> /\ W = {}
    <3>1. L = 0 /\ Roused(c)' = R \ {t}
      BY <1>6, <2>5, ATypes
    <3>2. Cardinality(R \ {t}) \in Nat
      BY <2>2, FS_CardinalityType
    <3>3. L <= Cardinality(R \ {t})
      BY <3>1, <3>2
    <3>4. QED
      BY <2>1, <2>2, <3>1, <3>3 DEF Enough
  <2>6. CASE c = d /\ \E u \in Task : W = {u}
    <3>1. PICK u \in Task : W = {u}
      BY <2>6
    <3>2. u \notin R
      BY <1>4, <3>1 DEF Roused
    <3>3. Roused(c)' = (R \ {t}) \cup {u}
      BY <1>6, <2>6, <3>1
    <3>4. /\ IsFiniteSet((R \ {t}) \cup {u})
          /\ Cardinality((R \ {t}) \cup {u}) = Cardinality(R \ {t}) + 1
      BY <2>2, <3>2, FS_AddElement
    <3>5. Sleeping(c) # {} => L <= Cardinality((R \ {t}) \cup {u})
      BY <2>1, <2>2, <3>4
    <3>6. QED
      BY <2>1, <2>3, <3>3, <3>4, <3>5 DEF Enough
  <2>7. CASE c = d /\ W = {} /\ \A u \in Elements(waiters[d]) \ {t} : fut[u] # "pending"
    <3>1. Sleeping(c)' = {}
      <4> SUFFICES ASSUME NEW u \in Sleeping(c)' PROVE FALSE
        OBVIOUS
      <4>1. u \in Sleeping(c) /\ u # t
        BY <1>6
      <4>2. u \in Task /\ on[u] = d /\ fut[u] = "pending"
        BY <2>7, <4>1 DEF Sleeping
      <4>3. u \in Elements(waiters[d])
        BY <4>2 DEF AInv
      <4>4. QED
        BY <2>7, <4>1, <4>2, <4>3
    <3>2. Roused(c)' = R \ {t}
      BY <1>6, <2>7
    <3>3. QED
      BY <2>2, <3>1, <3>2 DEF Enough
  <2>8. QED
    BY <1>1, <2>4, <2>5, <2>6, <2>7
<1>8. ASSUME NEW u \in Task, fut'[u] = "pending" PROVE pc'[u] = "wait" /\ u \in Elements(waiters'[on'[u]])
  <2>1. u # t /\ u \notin W /\ fut[u] = "pending"
    BY <1>1, <1>8
  <2>2. pc[u] = "wait" /\ u \in Elements(waiters[on[u]]) /\ on[u] \in Chan
    BY <2>1, ATypes DEF AInv
  <2>3. CASE on[u] = d
    BY <1>0, <1>1, <2>1, <2>2, <2>3
  <2>4. CASE on[u] # d
    BY <1>0, <1>1, <2>1, <2>2, <2>4
  <2>5. QED
    BY <2>3, <2>4
<1>9. \A u \in Task : pc'[u] # "saw_empty"
  BY <1>0 DEF LoopFree
<1>10. QED
  BY <1>0, <1>5, <1>7, <1>8, <1>9 DEF AInv

LEMMA InitAwake == Init => Awake
<1> SUFFICES ASSUME Init PROVE AInv
  BY DEF Awake
<1>1. \A c \in Chan : waiters[c] = <<>> /\ items[c] = <<>>
  BY DEF Init
<1>2. \A t \in Task : pc[t] = "idle" /\ fut[t] = "none"
  BY DEF Init
<1>3. thread.at = "out" /\ posted.wake = {}
  BY DEF Init
<1>4. ASSUME NEW c \in Chan PROVE Lined(c) /\ Enough(c)
  <2>1. Elements(waiters[c]) = {} /\ Distinct(waiters[c])
    BY <1>1 DEF Elements, Distinct
  <2>2. Roused(c) = {} /\ Sleeping(c) = {}
    BY <1>2 DEF Roused, Sleeping
  <2>3. QED
    BY <2>1, <2>2, FS_EmptySet DEF Lined, Enough
<1>5. QED
  BY <1>2, <1>3, <1>4 DEF AInv

\* What a task takes from a channel, and what race() puts back.
LEMMA Shorter ==
  ASSUME NEW s \in Seq(1..MaxPut), s # <<>>
  PROVE  /\ Len(Tail(s)) \in Nat /\ Len(Tail(s)) + 1 = Len(s)
         /\ Len(SubSeq(s, 1, Len(s) - 1)) \in Nat /\ Len(SubSeq(s, 1, Len(s) - 1)) <= Len(s)
<1> DEFINE n == Len(s)
<1>1. n \in Nat /\ n # 0
  BY EmptySeq
<1>2. Len(Tail(s)) = n - 1
  OBVIOUS
<1>3. Len(SubSeq(s, 1, n - 1)) = n - 1
  <2> DEFINE q == SubSeq(s, 1, n - 1)
  <2>1. \A i \in 1..n : s[i] \in 1..MaxPut
    BY ElementsFacts, ElementTypes
  <2> HIDE DEF n
  <2>2. n - 1 \in Int /\ 1 \in Int /\ \A i \in 1..(n - 1) : s[i] \in 1..MaxPut
    BY <1>1, <2>1
  <2>3. Len(q) = IF 1 <= n - 1 THEN (n - 1) - 1 + 1 ELSE 0
    BY <2>2, SubSeqProperties
  <2> HIDE DEF q
  <2>4. Len(q) = n - 1
    BY <1>1, <2>3
  <2>5. QED
    BY <2>4 DEF q
<1> HIDE DEF n
<1>4. QED
  BY <1>1, <1>2, <1>3 DEF n

LEMMA ARestore ==
  ASSUME LInv, AInv, LoopFree, NEW L \in SUBSET Chan, \A c \in L : held[c] # 0, RestoreFront(L),
         \A t \in Task : (pc'[t] = "wait" <=> pc[t] = "wait") /\ pc'[t] # "saw_empty",
         UNCHANGED <<on, thread, posted>>
  PROVE  AInv'
<1>1. /\ fut' = SetFut(UNION {Woken(waiters[c], fut) : c \in L}, "set")
      /\ \A c \in Chan : waiters'[c] = IF c \in L THEN StillWaiting(waiters[c], fut) ELSE waiters[c]
      /\ \A c \in Chan : items'[c] = IF c \in L THEN <<held[c]>> \o items[c] ELSE items[c]
  BY DEF RestoreFront
<1>2. \A c \in Chan : held[c] \in 0..MaxPut /\ items[c] \in Seq(1..MaxPut) /\ Len(items[c]) \in Nat
  <2>1. TaskTypes
    BY TypeParts DEF LInv
  <2>2. QED
    BY <2>1, ATypes DEF TaskTypes
<1>3. ASSUME NEW c \in Chan PROVE Len(items'[c]) \in Nat /\ Len(items'[c]) <= Len(items[c]) + 1
  <2>1. CASE c \in L
    <3>1. held[c] \in 1..MaxPut
      BY <1>2, <2>1, ConstantsAssumption
    <3>2. <<held[c]>> \in Seq(1..MaxPut) /\ Len(<<held[c]>>) = 1
      BY <3>1
    <3>3. Len(<<held[c]>> \o items[c]) = 1 + Len(items[c])
      <4>1. items[c] \in Seq(1..MaxPut)
        BY <1>2
      <4>2. QED
        BY <3>2, <4>1, ConcatProperties
    <3>4. items'[c] = <<held[c]>> \o items[c]
      BY <1>1, <2>1
    <3>5. Len(items'[c]) = 1 + Len(items[c]) /\ Len(items[c]) \in Nat
      BY <1>2, <3>3, <3>4
    <3> DEFINE a == Len(items'[c])
               b == Len(items[c])
    <3>6. a = 1 + b /\ b \in Nat
      BY <3>5
    <3> HIDE DEF a, b
    <3>7. a \in Nat /\ a <= b + 1
      BY <3>6
    <3>8. QED
      BY <3>7 DEF a, b
  <2>2. CASE c \notin L
    <3>1. items'[c] = items[c] /\ Len(items[c]) \in Nat
      BY <1>1, <1>2, <2>2
    <3> DEFINE b == Len(items[c])
    <3>2. b \in Nat /\ Len(items'[c]) = b
      BY <3>1
    <3> HIDE DEF b
    <3>3. b <= b + 1
      BY <3>2
    <3>4. QED
      BY <3>2, <3>3 DEF b
  <2>3. QED
    BY <2>1, <2>2
<1>4. \A c \in Chan \ L : items'[c] = items[c]
  BY <1>1
<1>5. QED
  BY <1>1, <1>3, <1>4, AWake

\* Steps that leave every consumer where it is.
LEMMA AStays ==
  ASSUME LInv, AInv,
         UNCHANGED <<waiters, fut, pc, on, thread>>, posted'.wake = posted.wake,
         \A c \in Chan : Len(items'[c]) \in Nat /\ Len(items'[c]) <= Len(items[c]),
         LoopFree \/ items' = items
  PROVE  AInv'
<1>1. \A t \in Task : pc'[t] = "saw_empty" => items'[on'[t]] = <<>>
  BY DEF AInv, LoopFree
<1>2. posted'.wake = {}
  BY DEF AInv
<1>3. QED
  BY <1>1, <1>2, AShrink

LEMMA AKeeps ==
  ASSUME LInv, AInv, UNCHANGED <<items, waiters, fut, pc, on, thread>>, posted'.wake = posted.wake
  PROVE  AInv'
<1>1. ASSUME NEW c \in Chan PROVE Len(items'[c]) \in Nat /\ Len(items'[c]) <= Len(items[c])
  <2> DEFINE n == Len(items[c])
  <2>1. n \in Nat /\ Len(items'[c]) = n
    BY ATypes
  <2> HIDE DEF n
  <2>2. n <= n
    BY <2>1
  <2>3. QED
    BY <2>1, <2>2 DEF n
<1>2. QED
  BY <1>1, AStays

LEMMA AQuiet ==
  ASSUME LInv, AInv, PutEvent \/ Prompt \/ RaceCancel \/ Sentinel \/ RaceRaised \/ RunSet \/ UNCHANGED vars
  PROVE  AInv'
<1>1. UNCHANGED <<items, waiters, fut, pc, on, thread>>
  BY DEF PutEvent, Prompt, RaceCancel, Sentinel, RaceRaised, RunSet, vars, chanVars, taskVars
<1>2. posted'.wake = posted.wake
  <2>1. CASE RunSet
    <3>1. posted \in Posts
      BY TypeParts DEF LInv, LoopTypes
    <3>2. QED
      BY <2>1, <3>1 DEF RunSet, Posts
  <2>2. CASE ~RunSet
    BY <2>2 DEF PutEvent, Prompt, RaceCancel, Sentinel, RaceRaised, vars
  <2>3. QED
    BY <2>1, <2>2
<1>3. QED
  BY <1>1, <1>2, AKeeps

\* One channel's deque shrinks.
LEMMA AOneLess ==
  ASSUME LInv, NEW c \in Chan, NEW s, items' = [items EXCEPT ![c] = s],
         Len(s) \in Nat, Len(s) <= Len(items[c])
  PROVE  \A d \in Chan : Len(items'[d]) \in Nat /\ Len(items'[d]) <= Len(items[d])
<1> SUFFICES ASSUME NEW d \in Chan PROVE Len(items'[d]) \in Nat /\ Len(items'[d]) <= Len(items[d])
  OBVIOUS
<1>1. items \in [Chan -> Seq(1..MaxPut)]
  BY ATypes
<1>2. CASE d = c
  BY <1>1, <1>2
<1>3. CASE d # c
  <2> DEFINE n == Len(items[d])
  <2>1. n \in Nat /\ Len(items'[d]) = n
    BY <1>1, <1>3, ATypes
  <2> HIDE DEF n
  <2>2. n <= n
    BY <2>1
  <2>3. QED
    BY <2>1, <2>2 DEF n
<1>4. QED
  BY <1>2, <1>3

LEMMA ATaken ==
  ASSUME LInv, AInv, NEW c \in Chan, Drain(c) \/ PopLast(c) PROVE AInv'
<1>1. /\ UNCHANGED <<waiters, fut, pc, on, thread, posted>> /\ LoopFree
      /\ items[c] # <<>> /\ items[c] \in Seq(1..MaxPut)
  BY ATypes DEF Drain, PopLast, taskVars
<1>2. \A d \in Chan : Len(items'[d]) \in Nat /\ Len(items'[d]) <= Len(items[d])
  <2>1. CASE Drain(c)
    <3> DEFINE n == Len(items[c])
    <3>1. Len(<<>>) \in Nat /\ Len(<<>>) = 0 /\ n \in Nat
      BY <1>1, ATypes
    <3> HIDE DEF n
    <3>2. Len(<<>>) <= n
      BY <3>1
    <3>3. items' = [items EXCEPT ![c] = <<>>]
      BY <2>1 DEF Drain
    <3>4. QED
      BY <3>1, <3>2, <3>3, AOneLess DEF n
  <2>2. CASE PopLast(c)
    <3> DEFINE s == SubSeq(items[c], 1, Len(items[c]) - 1)
    <3>1. Len(s) \in Nat /\ Len(s) <= Len(items[c])
      BY <1>1, Shorter
    <3>2. items' = [items EXCEPT ![c] = s]
      BY <2>2 DEF PopLast
    <3> HIDE DEF s
    <3>3. QED
      BY <3>1, <3>2, AOneLess
  <2>3. QED
    BY <2>1, <2>2
<1>3. QED
  BY <1>1, <1>2, AStays

LEMMA ATail ==
  ASSUME LInv, NEW c \in Chan, items[c] # <<>>, items' = [items EXCEPT ![c] = Tail(@)]
  PROVE  /\ \A d \in Chan : Len(items'[d]) \in Nat /\ Len(items'[d]) <= Len(items[d])
         /\ \A d \in Chan : d # c => items'[d] = items[d]
         /\ Len(items'[c]) + 1 = Len(items[c])
<1> DEFINE s == Tail(items[c])
<1>1. items[c] \in Seq(1..MaxPut) /\ items \in [Chan -> Seq(1..MaxPut)]
  BY ATypes
<1>2. Len(s) \in Nat /\ Len(s) + 1 = Len(items[c]) /\ Len(items[c]) \in Nat
  BY <1>1, Shorter, ATypes
<1> DEFINE m == Len(s)
           n == Len(items[c])
<1>3. m \in Nat /\ m + 1 = n /\ n \in Nat
  BY <1>2
<1>4. m <= n
  <2> HIDE DEF m, n
  <2>1. QED
    BY <1>3
<1>5. items' = [items EXCEPT ![c] = s]
  OBVIOUS
<1>6. Len(s) <= Len(items[c])
  BY <1>4
<1> HIDE DEF s, m, n
<1>7. \A d \in Chan : Len(items'[d]) \in Nat /\ Len(items'[d]) <= Len(items[d])
  BY <1>2, <1>5, <1>6, AOneLess
<1>8. items'[c] = s /\ \A d \in Chan : d # c => items'[d] = items[d]
  BY <1>1, <1>5
<1>9. QED
  BY <1>2, <1>7, <1>8

LEMMA AFast == ASSUME LInv, AInv, RaceFast PROVE AInv'
<1> DEFINE c == First(Buffered)
<1>1. Buffered \subseteq Chan /\ Buffered # {} /\ Buffered \subseteq Nat
  <2>1. registered \subseteq Chan
    BY TypeParts DEF LInv, ChanTypes
  <2>2. QED
    BY <2>1 DEF Buffered, RaceFast, Chan
<1>2. c \in Chan /\ items[c] # <<>>
  <2>1. c \in Buffered
    BY <1>1, FirstFacts
  <2>2. QED
    BY <1>1, <2>1 DEF Buffered
<1>3. items' = [items EXCEPT ![c] = Tail(@)] /\ LoopFree /\ UNCHANGED <<waiters, fut, pc, on, thread, posted>>
  BY DEF RaceFast, taskVars
<1> HIDE DEF c
<1>4. \A d \in Chan : Len(items'[d]) \in Nat /\ Len(items'[d]) <= Len(items[d])
  BY <1>2, <1>3, ATail
<1>5. QED
  BY <1>3, <1>4, AStays

LEMMA AGetStart ==
  ASSUME LInv, AInv, NEW g \in Getter, NEW c \in Chan, GetStart(g, c) PROVE AInv'
<1>0. g \in Task /\ pc \in [Task -> Place] /\ on \in [Task -> Chan]
  BY ChanTask, ATypes
<1>1. /\ LoopFree /\ pc[g] = "idle" /\ on' = [on EXCEPT ![g] = c]
      /\ UNCHANGED <<waiters, fut, posted, thread>>
  BY DEF GetStart
<1>2. /\ on'[g] = c /\ \A t \in Task : t # g => on'[t] = on[t]
      /\ posted'.wake = {}
  BY <1>0, <1>1 DEF AInv
<1>3. CASE items[c] # <<>>
  <2>1. items' = [items EXCEPT ![c] = Tail(@)] /\ pc' = pc
    BY <1>3 DEF GetStart
  <2>2. \A d \in Chan : Len(items'[d]) \in Nat /\ Len(items'[d]) <= Len(items[d])
    BY <1>3, <2>1, ATail
  <2>3. \A t \in Task : /\ pc'[t] = "wait" <=> pc[t] = "wait"
                        /\ pc[t] = "wait" => on'[t] = on[t]
                        /\ pc'[t] = "saw_empty" => items'[on'[t]] = <<>>
    BY <1>1, <1>2, <2>1 DEF LoopFree
  <2>4. QED
    BY <1>1, <1>2, <2>2, <2>3, AShrink
<1>4. CASE items[c] = <<>>
  <2>1. items' = items /\ pc' = [pc EXCEPT ![g] = "saw_empty"]
    BY <1>4 DEF GetStart
  <2>2. ASSUME NEW d \in Chan PROVE Len(items'[d]) \in Nat /\ Len(items'[d]) <= Len(items[d])
    <3> DEFINE n == Len(items[d])
    <3>1. n \in Nat /\ Len(items'[d]) = n
      BY <2>1, ATypes
    <3> HIDE DEF n
    <3>2. n <= n
      BY <3>1
    <3>3. QED
      BY <3>1, <3>2 DEF n
  <2>3. \A t \in Task : /\ pc'[t] = "wait" <=> pc[t] = "wait"
                        /\ pc[t] = "wait" => on'[t] = on[t]
                        /\ pc'[t] = "saw_empty" => items'[on'[t]] = <<>>
    BY <1>0, <1>1, <1>2, <1>4, <2>1 DEF LoopFree
  <2>4. QED
    BY <1>1, <1>2, <2>2, <2>3, AShrink
<1>5. QED
  BY <1>3, <1>4

LEMMA ATakes == ASSUME LInv, AInv, NEW t \in Task, Take(t) PROVE AInv'
<1>1. /\ LoopFree /\ Runnable(t) /\ items[on[t]] # <<>>
      /\ items' = [items EXCEPT ![on[t]] = Tail(@)] /\ fut' = SetFut({t}, "none")
      /\ UNCHANGED <<waiters, on, thread, posted>> /\ on[t] \in Chan
      /\ \E p \in {"done", "idle"} : pc' = [pc EXCEPT ![t] = p]
  BY ATypes DEF Take
<1>2. PICK p \in {"done", "idle"} : pc' = [pc EXCEPT ![t] = p]
  BY <1>1
<1> DEFINE m == Len(items'[on[t]])
           n == Len(items[on[t]])
<1>3. \A d \in Chan : d # on[t] => items'[d] = items[d]
  BY <1>1, ATail
<1>4. m \in Nat /\ m + 1 = n /\ n \in Nat
  BY <1>1, ATail, ATypes
<1>5. m + 1 <= n
  <2> HIDE DEF m, n
  <2>1. QED
    BY <1>4
<1>6. QED
  BY <1>1, <1>2, <1>3, <1>4, <1>5, ALeave

LEMMA ASeeEmpty == ASSUME LInv, AInv, NEW t \in Task, SeeEmpty(t) PROVE AInv'
<1>1. /\ LoopFree /\ Runnable(t) /\ items[on[t]] = <<>>
      /\ pc' = [pc EXCEPT ![t] = "saw_empty"] /\ fut' = SetFut({t}, "none")
      /\ UNCHANGED <<items, waiters, on, thread, posted>>
  BY DEF SeeEmpty, chanVars
<1>2. Len(items'[on[t]]) = 0 /\ Len(items'[on[t]]) \in Nat
  BY <1>1
<1>3. QED
  BY <1>1, <1>2, ALeave

\* The drain tasks come and go only when none of them waits.
LEMMA ADrainTasks ==
  ASSUME LInv, AInv, LoopFree, UNCHANGED <<items, waiters, on, fut, posted, thread>>,
         \A t \in Task : pc'[t] = pc[t] \/ (pc[t] # "wait" /\ pc'[t] \notin {"wait", "saw_empty"})
  PROVE  AInv'
<1>1. ASSUME NEW c \in Chan PROVE Len(items'[c]) \in Nat /\ Len(items'[c]) <= Len(items[c])
  <2> DEFINE n == Len(items[c])
  <2>1. n \in Nat /\ Len(items'[c]) = n
    BY ATypes
  <2> HIDE DEF n
  <2>2. n <= n
    BY <2>1
  <2>3. QED
    BY <2>1, <2>2 DEF n
<1>2. \A t \in Task : /\ pc'[t] = "wait" <=> pc[t] = "wait"
                      /\ pc[t] = "wait" => on'[t] = on[t]
                      /\ pc'[t] = "saw_empty" => items'[on'[t]] = <<>>
  BY DEF LoopFree
<1>3. posted'.wake = {}
  BY DEF AInv
<1>4. QED
  BY <1>1, <1>2, <1>3, AShrink

LEMMA ADrains ==
  ASSUME LInv, AInv, RaceStart \/ RaceEmpty \/ \E t \in Task : NeverRan(t) PROVE AInv'
<1>1. LoopFree /\ UNCHANGED <<items, waiters, on, fut, posted, thread>>
  BY DEF RaceStart, RaceEmpty, NeverRan, chanVars
<1>2. \A t \in Task : pc'[t] = pc[t] \/ (pc[t] # "wait" /\ pc'[t] \notin {"wait", "saw_empty"})
  <2>1. CASE RaceStart
    <3>1. registered \subseteq Chan
      BY TypeParts DEF LInv, ChanTypes
    <3>2. \A c \in Chan : pc[c] = "idle"
      BY <2>1 DEF RaceStart, LInv, Drains
    <3>3. QED
      BY <2>1, <3>1, <3>2 DEF RaceStart
  <2>2. CASE RaceEmpty
    <3>1. \A c \in Chan : pc[c] # "wait"
      BY <2>2 DEF RaceEmpty, Reaped, InFlight
    <3>2. QED
      BY <2>2, <3>1 DEF RaceEmpty
  <2>3. ASSUME NEW u \in Task, NeverRan(u)
        PROVE  \A t \in Task : pc'[t] = pc[t] \/ (pc[t] # "wait" /\ pc'[t] \notin {"wait", "saw_empty"})
    BY <2>3, ATypes DEF NeverRan
  <2>4. QED
    BY <2>1, <2>2, <2>3
<1>3. QED
  BY <1>1, <1>2, ADrainTasks

LEMMA ACancels ==
  ASSUME LInv, AInv, RaceWake \/ RaceRaise \/ \E g \in Getter : CancelGet(g) PROVE AInv'
<1>1. UNCHANGED <<items, waiters, pc, on, thread>>
  BY DEF RaceWake, RaceRaise, CancelGet, chanVars
<1>2. \E T : CancelTasks(T)
  BY DEF RaceWake, RaceRaise, CancelGet
<1>3. QED
  BY <1>1, <1>2, ACancel

LEMMA AFlushes == ASSUME LInv, AInv, NEW c \in Chan, Flush(c) \/ RemoveChannel(c) PROVE AInv'
<1>1. Flushed(c) /\ UNCHANGED <<pc, on, posted, thread>>
  BY DEF Flush, RemoveChannel
<1>2. QED
  BY <1>1, AFlush

LEMMA APut == ASSUME LInv, AInv, NEW c \in Chan, Put(c) PROVE AInv'
<1> DEFINE x == sent[c] + 1
<1>1. /\ items' = [items EXCEPT ![c] = Append(@, x)]
      /\ fut' = SetFut(Woken(waiters[c], fut), "set")
      /\ waiters' = [waiters EXCEPT ![c] = StillWaiting(@, fut)]
      /\ LoopFree /\ UNCHANGED <<pc, on, thread, posted>>
  BY DEF Put
<1> HIDE DEF x
<1>2. UNION {Woken(waiters[d], fut) : d \in {c}} = Woken(waiters[c], fut)
  OBVIOUS
<1>3. \A d \in Chan : waiters'[d] = IF d \in {c} THEN StillWaiting(waiters[d], fut) ELSE waiters[d]
  BY <1>1, ATypes
<1>4. items'[c] = Append(items[c], x) /\ \A d \in Chan : d # c => items'[d] = items[d]
  BY <1>1, ATypes
<1>5. ASSUME NEW d \in Chan PROVE Len(items'[d]) \in Nat /\ Len(items'[d]) <= Len(items[d]) + 1
  <2> DEFINE n == Len(items[d])
  <2>1. n \in Nat /\ (Len(items'[d]) = n + 1 \/ Len(items'[d]) = n)
    <3>1. n \in Nat /\ items[d] \in Seq(1..MaxPut)
      BY ATypes
    <3>2. CASE d = c
      <4>1. Len(Append(items[d], x)) = Len(items[d]) + 1
        BY <3>1
      <4>2. QED
        BY <1>4, <3>1, <3>2, <4>1
    <3>3. CASE d # c
      BY <1>4, <3>1, <3>3
    <3>4. QED
      BY <3>2, <3>3
  <2> HIDE DEF n
  <2>2. n <= n + 1 /\ n + 1 \in Nat /\ n + 1 <= n + 1
    BY <2>1
  <2>3. QED
    BY <2>1, <2>2 DEF n
<1>6. \A d \in Chan \ {c} : items'[d] = items[d]
  BY <1>4
<1>7. fut' = SetFut(UNION {Woken(waiters[d], fut) : d \in {c}}, "set")
  BY <1>1, <1>2
<1>8. \A t \in Task : (pc'[t] = "wait" <=> pc[t] = "wait") /\ pc'[t] # "saw_empty"
  BY <1>1 DEF LoopFree
<1>9. {c} \in SUBSET Chan
  OBVIOUS
<1>10. QED
  BY <1>1, <1>3, <1>5, <1>6, <1>7, <1>8, <1>9, AWake

LEMMA AWins == ASSUME LInv, AInv, RaceWin PROVE AInv'
<1> DEFINE w == First(race.done)
           L == {c \in race.done \ {w} : pc[c] = "done"}
<1>1. L \in SUBSET Chan /\ \A c \in L : held[c] # 0
  BY WinFacts
<1>2. RestoreFront(L) /\ LoopFree /\ UNCHANGED <<on, thread, posted>>
  BY DEF RaceWin
<1> HIDE DEF L, w
<1>3. \A c \in Chan : pc[c] # "wait"
  BY DEF RaceWin, Reaped, InFlight
<1>4. \A t \in Task : (pc'[t] = "wait" <=> pc[t] = "wait") /\ pc'[t] # "saw_empty"
  BY <1>3 DEF RaceWin, LoopFree
<1>5. QED
  BY <1>1, <1>2, <1>4, ARestore

LEMMA AUnwinds == ASSUME LInv, AInv, NEW c \in Chan, Unwind(c) PROVE AInv'
<1> DEFINE L == {c} \cap {d \in Chan : pc[d] = "done"}
<1>1. L \in SUBSET Chan /\ \A d \in L : held[d] # 0
  BY DEF LInv, Hands
<1>2. RestoreFront(L) /\ LoopFree /\ UNCHANGED <<on, thread, posted>>
  BY DEF Unwind
<1> HIDE DEF L
<1>3. pc[c] # "wait" /\ pc' = [pc EXCEPT ![c] = "idle"]
  BY DEF Unwind, Ended
<1>4. \A t \in Task : (pc'[t] = "wait" <=> pc[t] = "wait") /\ pc'[t] # "saw_empty"
  BY <1>2, <1>3, ATypes DEF LoopFree
<1>5. QED
  BY <1>1, <1>2, <1>4, ARestore

\* The thread's steps, and those of its callbacks, need the thread.
LEMMA AStep == LInv /\ Awake /\ [Next]_vars => Awake'
<1> SUFFICES ASSUME LInv, Awake, [Next]_vars, "thread" \notin scene' PROVE AInv'
  BY DEF Awake
<1>0. scene' = scene
  BY DEF Next, Environment, RaceStep, LoopCallback, ThreadStep, TaskStep, vars, PutEvent, RaceCancel, Prompt,
         Put, ThreadAppend, Drain, PopLast, Flush, RemoveChannel, CancelGet, GetStart, RaceFast, RaceStart,
         Sentinel, RaceWake, RaceEmpty, RaceWin, RaceRaise, RaceRaised, Unwind, RunSet, RunWake, ThreadWake,
         ThreadNotify, Take, SeeEmpty, Register, Cancelled, NeverRan
<1>1. AInv /\ thread.at = "out" /\ posted.wake = {} /\ "thread" \notin scene
  BY <1>0 DEF Awake, AInv
<1>2. CASE Environment
  <2>1. ASSUME NEW c \in Chan, ThreadAppend(c) PROVE FALSE
    BY <1>1, <2>1 DEF ThreadAppend
  <2>2. QED
    BY <1>1, <1>2, <2>1, AQuiet, APut, ATaken, AFlushes, ACancels, AGetStart DEF Environment
<1>3. CASE RaceStep
  BY <1>1, <1>3, AFast, ADrains, AQuiet, ACancels, AWins, AUnwinds DEF RaceStep
<1>4. CASE LoopCallback
  <2>1. ASSUME NEW t \in Task, RunWake(t) PROVE FALSE
    BY <1>1, <2>1 DEF RunWake
  <2>2. QED
    BY <1>1, <1>4, <2>1, AQuiet DEF LoopCallback
<1>5. CASE ThreadStep
  BY <1>1, <1>5 DEF ThreadStep, ThreadWake, ThreadNotify
<1>6. ASSUME NEW t \in Task, TaskStep(t) PROVE AInv'
  BY <1>1, <1>6, ATakes, ASeeEmpty, ARegister, ACancelled, ADrains DEF TaskStep
<1>7. CASE UNCHANGED vars
  BY <1>1, <1>7, AQuiet
<1>8. QED
  BY <1>2, <1>3, <1>4, <1>5, <1>6, <1>7 DEF Next

(* No lost wakeup in get(), as long as nobody puts from another thread: a  *)
(* get() that waits while nothing else is about to run has no item on its  *)
(* channel.                                                                *)
THEOREM GetsAreWoken == Spec => []GetNotStranded
<1>1. ASSUME LInv, Awake PROVE GetNotStranded
  <2> SUFFICES ASSUME "thread" \notin scene, Quiescent, NEW g \in Getter, pc[g] = "wait"
               PROVE  items[on[g]] = <<>>
    BY DEF GetNotStranded, GetWakes
  <2> DEFINE c == on[g]
  <2>1. AInv
    BY <1>1 DEF Awake
  <2>2. g \in Task /\ c \in Chan
    BY <1>1, ATypes, ChanTask
  <2>3. fut[g] = "pending" /\ \A t \in Task : pc[t] = "wait" => fut[t] # "set"
    BY <2>2 DEF Quiescent
  <2>4. g \in Sleeping(c) /\ Roused(c) = {}
    BY <2>2, <2>3 DEF Sleeping, Roused
  <2>5. Len(items[c]) <= Cardinality({}) /\ Cardinality({}) = 0
    BY <2>1, <2>2, <2>4, FS_EmptySet DEF AInv, Enough
  <2>6. Len(items[c]) = 0
    <3> DEFINE n == Len(items[c])
    <3>1. n \in Nat /\ n <= 0
      BY <1>1, <2>2, <2>5, ATypes
    <3> HIDE DEF n
    <3>2. n = 0
      BY <3>1
    <3>3. QED
      BY <3>2 DEF n
  <2>7. QED
    BY <1>1, <2>2, <2>6, ATypes
<1>2. QED
  BY LInitial, LStep, InitAwake, AStep, <1>1, PTL DEF Spec

=============================================================================
