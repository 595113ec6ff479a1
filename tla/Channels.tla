------------------------------ MODULE Channels ------------------------------
(***************************************************************************)
(* Channel and QueueManager.race() (runtime/channels.py): queue-mode       *)
(* channels with waiters, the dispatcher's race over all of them, agent    *)
(* code that calls get() beside it, and producers on the loop and on       *)
(* another thread.                                                         *)
(*                                                                         *)
(* Code between two awaits runs without another task of the loop in        *)
(* between, so such a stretch is one action; the stretch of _drain_one     *)
(* between seeing an empty deque and appending its waiter is two, because  *)
(* a producer thread can run there.  The event loop may run any runnable   *)
(* task next.                                                              *)
(***************************************************************************)
EXTENDS Naturals, Sequences, FiniteSets

CONSTANTS
  NumChan,    \* queue-mode channels, numbered in registration order
  Getter,     \* agent tasks that call get()
  MaxPut,     \* bound: items put on one channel
  Scenes      \* who may act beside the dispatcher and the loop's producers

Chan == 1..NumChan

ASSUME ConstantsAssumption == /\ NumChan \in Nat \ {0} /\ MaxPut \in Nat
                              /\ Getter \cap Chan = {}
                              /\ Scenes \subseteq SUBSET {"thread", "getters"}

Task == Getter \cup Chan      \* task c \in Chan is race()'s _drain_one on c

VARIABLES
  items,      \* Channel._items, the n-th item put on a channel being n
  waiters,    \* Channel._waiters, a future being named by its only task
  registered, \* QueueManager._channels
  pc,         \* where each consumer task is
  on,         \* the channel a consumer task reads
  fut,        \* the future the task awaits
  cancel,     \* task.cancel() called and not yet delivered
  held,       \* the result of a finished drain task, 0 for none
  race,       \* race(): phase, the drains found done, cancellation asked
  notify,     \* the _notify event and the sentinel task that awaits it
  posted,     \* call_soon_threadsafe callbacks: futures to wake, event.set
  thread,     \* the producer thread inside put()
  unseen,     \* an event-mode put no prompt has shown yet
  scene,      \* this behaviour's: a producer thread, agent code that gets
  sent, got, dropped   \* history: items put, consumed (on_get), discarded

chanVars == <<items, waiters, registered>>
taskVars == <<pc, on, fut, cancel, held>>
history  == <<sent, got, dropped>>
vars == <<chanVars, taskVars, race, notify, posted, thread, unseen, scene, history>>

-----------------------------------------------------------------------------
First(C) == CHOOSE c \in C : \A d \in C : c <= d

(* _wake_next_waiter: drop done futures from the front, wake the first     *)
(* live one.                                                               *)
Live(ws, f)   == {k \in DOMAIN ws : f[ws[k]] = "pending"}
FirstLive(ws, f) == First(Live(ws, f))
Woken(ws, f)  == IF Live(ws, f) = {} THEN {} ELSE {ws[FirstLive(ws, f)]}
StillWaiting(ws, f) ==
  IF Live(ws, f) = {} THEN <<>> ELSE SubSeq(ws, FirstLive(ws, f) + 1, Len(ws))

(* waiters.remove: the first occurrence, if there is one.                  *)
Without(ws, t) ==
  LET I == {i \in DOMAIN ws : ws[i] = t}
  IN IF I = {} THEN ws
     ELSE [k \in 1..(Len(ws) - 1) |-> ws[IF k < First(I) THEN k ELSE k + 1]]
SetFut(T, v)   == [t \in Task |-> IF t \in T THEN v ELSE fut[t]]

(* event.set(): the sentinel wakes even if the event is cleared first.     *)
Signalled == [event |-> TRUE,
              task  |-> IF notify.task = "wait" THEN "woken" ELSE notify.task]

LoopFree == \A t \in Task : pc[t] # "saw_empty"

-----------------------------------------------------------------------------
Init ==
  /\ items      = [c \in Chan |-> <<>>]
  /\ waiters    = [c \in Chan |-> <<>>]
  /\ registered = Chan
  /\ pc     = [t \in Task |-> "idle"]
  /\ on     = [t \in Task |-> IF t \in Chan THEN t ELSE 1]
  /\ fut    = [t \in Task |-> "none"]
  /\ cancel = [t \in Task |-> FALSE]
  /\ held   = [c \in Chan |-> 0]
  /\ race   = [phase |-> "turn", done |-> {}, asked |-> FALSE]
  /\ notify = [event |-> FALSE, task |-> "none"]
  /\ posted = [wake |-> {}, set |-> FALSE]
  /\ thread = [at |-> "out", chan |-> 1]
  /\ unseen = FALSE
  /\ scene \in Scenes
  /\ sent    = [c \in Chan |-> 0]
  /\ got     = [c \in Chan |-> <<>>]
  /\ dropped = [c \in Chan |-> {}]

(* The on_get transition: item n of channel c reaches its consumer.        *)
Consume(c, n) == got' = [got EXCEPT ![c] = Append(@, n)]

-----------------------------------------------------------------------------
(* Producers.                                                              *)

(* put() on the loop: append, wake one waiter, set the notify event.       *)
Put(c) ==
  /\ LoopFree
  /\ c \in registered /\ sent[c] < MaxPut
  /\ sent'    = [sent EXCEPT ![c] = @ + 1]
  /\ items'   = [items EXCEPT ![c] = Append(@, sent[c] + 1)]
  /\ fut'     = SetFut(Woken(waiters[c], fut), "set")
  /\ waiters' = [waiters EXCEPT ![c] = StillWaiting(@, fut)]
  /\ notify'  = Signalled
  /\ UNCHANGED <<registered, pc, on, cancel, held, race, posted, thread, unseen, scene, got, dropped>>

(* put() on another thread, between whose calls the loop may run.          *)
ThreadAppend(c) ==
  /\ "thread" \in scene /\ thread.at = "out"
  /\ c \in registered /\ sent[c] < MaxPut
  /\ sent'   = [sent EXCEPT ![c] = @ + 1]
  /\ items'  = [items EXCEPT ![c] = Append(@, sent[c] + 1)]
  /\ thread' = [at |-> "appended", chan |-> c]
  /\ UNCHANGED <<waiters, registered, taskVars, race, notify, posted, unseen, scene, got, dropped>>

ThreadWake ==
  /\ thread.at = "appended"
  /\ LET c == thread.chan
     IN /\ posted'  = [posted EXCEPT !.wake = @ \cup Woken(waiters[c], fut)]
        /\ waiters' = [waiters EXCEPT ![c] = StillWaiting(@, fut)]
  /\ thread' = [thread EXCEPT !.at = "woke"]
  /\ UNCHANGED <<items, registered, taskVars, race, notify, unseen, scene, history>>

ThreadSilent ==         \* slip: no on_put from another thread
  /\ thread.at = "woke" /\ thread' = [thread EXCEPT !.at = "out"]
  /\ UNCHANGED <<chanVars, taskVars, race, notify, posted, unseen, scene, history>>
ThreadNotify ==
  /\ thread.at = "woke"
  /\ posted' = [posted EXCEPT !.set = TRUE]
  /\ thread' = [thread EXCEPT !.at = "out"]
  /\ UNCHANGED <<chanVars, taskVars, race, notify, unseen, scene, history>>

(* The loop runs a posted callback: _safe_wake, or event.set.              *)
RunWake(t) ==
  /\ LoopFree
  /\ t \in posted.wake
  /\ fut'    = SetFut({t} \cap {u \in Task : fut[u] = "pending"}, "set")
  /\ posted' = [posted EXCEPT !.wake = @ \ {t}]
  /\ UNCHANGED <<chanVars, pc, on, cancel, held, race, notify, thread, unseen, scene, history>>

RunSet ==
  /\ LoopFree
  /\ posted.set
  /\ notify' = Signalled
  /\ posted' = [posted EXCEPT !.set = FALSE]
  /\ UNCHANGED <<chanVars, taskVars, race, thread, unseen, scene, history>>

(* An event-mode put: a QueueOutput in the event log, and the notify event.*)
PutEvent ==
  /\ LoopFree
  /\ unseen' = TRUE
  /\ notify' = Signalled
  /\ UNCHANGED <<chanVars, taskVars, race, posted, thread, scene, history>>

-----------------------------------------------------------------------------
(* Consumers: get() in agent code, _drain_one in a task of race().         *)

(* get() looks at the deque at once; only if it is empty does it wait.     *)
GetStart(g, c) ==
  /\ LoopFree
  /\ "getters" \in scene
  /\ pc[g] = "idle" /\ c \in registered
  /\ on' = [on EXCEPT ![g] = c]
  /\ IF items[c] # <<>>
     THEN /\ items' = [items EXCEPT ![c] = Tail(@)]
          /\ Consume(c, Head(items[c]))
          /\ UNCHANGED pc
     ELSE /\ pc' = [pc EXCEPT ![g] = "saw_empty"]
          /\ UNCHANGED <<items, got>>
  /\ UNCHANGED <<waiters, registered, fut, cancel, held, race, notify, posted, thread, unseen, scene, sent, dropped>>

Runnable(t) == /\ ~cancel[t]
               /\ pc[t] = "ready" \/ (pc[t] = "wait" /\ fut[t] = "set")

(* The deque has an item: the drain task returns it to race(); get() fires *)
(* on_get and returns it.                                                  *)
Take(t) ==
  /\ LoopFree
  /\ Runnable(t) /\ items[on[t]] # <<>>
  /\ items' = [items EXCEPT ![on[t]] = Tail(@)]
  /\ fut'   = SetFut({t}, "none")
  /\ IF t \in Chan
     THEN /\ pc'   = [pc EXCEPT ![t] = "done"]
          /\ held' = [held EXCEPT ![t] = Head(items[t])]
          /\ UNCHANGED got
     ELSE /\ pc' = [pc EXCEPT ![t] = "idle"]
          /\ Consume(on[t], Head(items[on[t]]))
          /\ UNCHANGED held
  /\ UNCHANGED <<waiters, registered, on, cancel, race, notify, posted, thread, unseen, scene, sent, dropped>>

SeeEmpty(t) ==
  /\ LoopFree
  /\ Runnable(t) /\ items[on[t]] = <<>>
  /\ pc'  = [pc EXCEPT ![t] = "saw_empty"]
  /\ fut' = SetFut({t}, "none")
  /\ UNCHANGED <<chanVars, on, cancel, held, race, notify, posted, thread, unseen, scene, history>>

Register(t) ==
  /\ pc[t] = "saw_empty"
  /\ pc'      = [pc EXCEPT ![t] = "wait"]
  /\ fut'     = SetFut({t}, "pending")
  /\ waiters' = [waiters EXCEPT ![on[t]] = Append(@, t)]
  /\ UNCHANGED <<items, registered, on, cancel, held, race, notify, posted, thread, unseen, scene, history>>

(* task.cancel(): a pending future is cancelled at once.                   *)
CancelTasks(T) ==
  /\ cancel' = [t \in Task |-> cancel[t] \/ t \in T]
  /\ fut'    = SetFut({t \in T : fut[t] = "pending"}, "cancelled")
  /\ posted' = [posted EXCEPT !.wake = @ \ T]

(* A timeout or a cancelled turn cancels a get().                          *)
CancelGet(g) ==
  /\ LoopFree
  /\ pc[g] = "wait" /\ ~cancel[g]
  /\ CancelTasks({g})
  /\ UNCHANGED <<chanVars, pc, on, held, race, notify, thread, unseen, scene, history>>

(* CancelledError reaches a task that awaits its future, by cancel() or by *)
(* flush(): leave the waiters and, if an item is there, wake the next one, *)
(* as the wakeup may have been for this task.                              *)
NoRewake(t) ==          \* slip: the wakeup dies with the task
  /\ waiters' = [waiters EXCEPT ![on[t]] = Without(@, t)]
  /\ fut'     = SetFut({t}, "none")
LeaveWaiters(t) ==
  LET ws == Without(waiters[on[t]], t)
  IN IF items[on[t]] # <<>>
     THEN /\ waiters' = [waiters EXCEPT ![on[t]] = StillWaiting(ws, fut)]
          /\ fut'     = [SetFut(Woken(ws, fut), "set") EXCEPT ![t] = "none"]
     ELSE /\ waiters' = [waiters EXCEPT ![on[t]] = ws]
          /\ fut'     = SetFut({t}, "none")

Cancelled(t) ==
  /\ LoopFree
  /\ pc[t] = "wait" /\ (cancel[t] \/ fut[t] = "cancelled")
  /\ LeaveWaiters(t)
  /\ pc'     = [pc EXCEPT ![t] = IF t \in Chan THEN "cancelled" ELSE "idle"]
  /\ cancel' = [cancel EXCEPT ![t] = FALSE]
  /\ UNCHANGED <<items, registered, on, held, race, notify, posted, thread, unseen, scene, history>>

(* A drain task cancelled before its first step never runs.                *)
NeverRan(t) ==
  /\ LoopFree
  /\ pc[t] = "ready" /\ cancel[t]
  /\ pc'     = [pc EXCEPT ![t] = "cancelled"]
  /\ cancel' = [cancel EXCEPT ![t] = FALSE]
  /\ UNCHANGED <<chanVars, on, fut, held, race, notify, posted, thread, unseen, scene, history>>

(* drain(): the dispatcher consumes everything buffered when a turn wakes. *)
Drain(c) ==
  /\ LoopFree
  /\ race.phase = "turn"
  /\ c \in registered /\ items[c] # <<>>
  /\ got'   = [got EXCEPT ![c] = @ \o items[c]]
  /\ items' = [items EXCEPT ![c] = <<>>]
  /\ UNCHANGED <<waiters, registered, taskVars, race, notify, posted, thread, unseen, scene, sent, dropped>>

(* pop_last(): the user takes the last message back.  clear() takes all.   *)
PopLast(c) ==
  /\ LoopFree
  /\ c \in registered /\ items[c] # <<>>
  /\ dropped' = [dropped EXCEPT ![c] = @ \cup {items[c][Len(items[c])]}]
  /\ items'   = [items EXCEPT ![c] = SubSeq(@, 1, Len(@) - 1)]
  /\ UNCHANGED <<waiters, registered, taskVars, race, notify, posted, thread, unseen, scene, sent, got>>

(* flush(): discard the items and cancel the registered waiters.           *)
Flushed(c) ==
  /\ dropped' = [dropped EXCEPT ![c] = @ \cup {items[c][i] : i \in DOMAIN items[c]}]
  /\ items'   = [items EXCEPT ![c] = <<>>]
  /\ fut'     = SetFut({t \in Task : /\ fut[t] = "pending"
                                     /\ \E i \in DOMAIN waiters[c] : waiters[c][i] = t},
                       "cancelled")
  /\ waiters' = [waiters EXCEPT ![c] = <<>>]

Flush(c) ==
  /\ LoopFree
  /\ c \in registered
  /\ Flushed(c)
  /\ UNCHANGED <<registered, pc, on, cancel, held, race, notify, posted, thread, unseen, scene, sent, got>>

(* remove_channel(): out of the registry, and flushed.                     *)
RemoveChannel(c) ==
  /\ LoopFree
  /\ c \in registered
  /\ registered' = registered \ {c}
  /\ Flushed(c)
  /\ UNCHANGED <<pc, on, cancel, held, race, notify, posted, thread, unseen, scene, sent, got>>

-----------------------------------------------------------------------------
(* race().  A queue-mode channel whose deque is not empty is served        *)
(* without a task; otherwise one drain task per channel and a sentinel on  *)
(* the notify event are waited for.                                        *)

Buffered == {c \in registered : items[c] # <<>>}
Ended    == {c \in Chan : pc[c] \in {"done", "cancelled"}}
InFlight == {c \in Chan : pc[c] \in {"ready", "saw_empty", "wait"}}

RaceFast ==
  /\ LoopFree
  /\ race.phase = "turn" /\ Buffered # {}
  /\ LET c == First(Buffered)
     IN /\ Consume(c, Head(items[c]))
        /\ items' = [items EXCEPT ![c] = Tail(@)]
  /\ notify' = [notify EXCEPT !.event = FALSE]
  /\ unseen' = FALSE                      \* the turn renders the event log
  /\ UNCHANGED <<waiters, registered, taskVars, race, posted, thread, scene, sent, dropped>>

RaceStart ==
  /\ LoopFree
  /\ race.phase = "turn" /\ Buffered = {}
  /\ pc'     = [t \in Task |-> IF t \in registered THEN "ready" ELSE pc[t]]
  /\ race'   = [phase |-> "waiting", done |-> {}, asked |-> FALSE]
  /\ notify' = [event |-> FALSE, task |-> "ready"]
  /\ UNCHANGED <<chanVars, on, fut, cancel, held, posted, thread, unseen, scene, history>>

(* The sentinel task: notify_event.wait().                                 *)
Sentinel ==
  /\ LoopFree
  /\ notify.task \in {"ready", "woken"}
  /\ notify' = [notify EXCEPT !.task = IF @ = "ready" /\ ~notify.event THEN "wait" ELSE "done"]
  /\ UNCHANGED <<chanVars, taskVars, race, posted, thread, unseen, scene, history>>

(* asyncio.wait returns what is done by now; the rest is cancelled.        *)
RaceWake ==
  /\ LoopFree
  /\ race.phase = "waiting" /\ ~race.asked
  /\ Ended # {} \/ notify.task = "done"
  /\ race'   = [race EXCEPT !.phase = "reaping", !.done = Ended]
  /\ notify' = [notify EXCEPT !.task = "none"]
  /\ CancelTasks(InFlight)
  /\ UNCHANGED <<chanVars, pc, on, held, thread, unseen, scene, history>>

(* _restore_front of the results of the drains in L.                       *)
DropLosers(L) ==        \* slip: the losers' items are not put back
  UNCHANGED <<items, waiters, fut>>
RestoreBack(L) ==       \* slip: put back at the end
  /\ items'   = [c \in Chan |-> IF c \in L THEN Append(items[c], held[c]) ELSE items[c]]
  /\ fut'     = SetFut(UNION {Woken(waiters[c], fut) : c \in L}, "set")
  /\ waiters' = [c \in Chan |-> IF c \in L THEN StillWaiting(waiters[c], fut) ELSE waiters[c]]
RestoreFront(L) ==
  /\ items'   = [c \in Chan |-> IF c \in L THEN <<held[c]>> \o items[c] ELSE items[c]]
  /\ fut'     = SetFut(UNION {Woken(waiters[c], fut) : c \in L}, "set")
  /\ waiters' = [c \in Chan |-> IF c \in L THEN StillWaiting(waiters[c], fut) ELSE waiters[c]]

Reaped == race.phase = "reaping" /\ InFlight = {}

(* Only the sentinel fired: an event-mode put, or an item somebody else    *)
(* took.                                                                   *)
RaceEmpty ==
  /\ LoopFree
  /\ Reaped /\ race.done = {}
  /\ pc'     = [t \in Task |-> IF t \in Chan THEN "idle" ELSE pc[t]]
  /\ race'   = [race EXCEPT !.phase = "turn"]
  /\ notify' = [notify EXCEPT !.event = FALSE]
  /\ unseen' = FALSE
  /\ UNCHANGED <<chanVars, on, fut, cancel, held, posted, thread, scene, history>>

(* The first drain in registration order wins; on_get fires for it; the    *)
(* others' items go back to the heads of their channels.                   *)
RaceWin ==
  /\ LoopFree
  /\ Reaped /\ race.done # {}
  /\ LET w == First(race.done)
     IN /\ pc[w] = "done"
        /\ Consume(w, held[w])
        /\ RestoreFront({c \in race.done \ {w} : pc[c] = "done"})
  /\ pc'     = [t \in Task |-> IF t \in Chan THEN "idle" ELSE pc[t]]
  /\ held'   = [c \in Chan |-> 0]
  /\ race'   = [race EXCEPT !.phase = "turn", !.done = {}]
  /\ notify' = [notify EXCEPT !.event = FALSE]
  /\ unseen' = FALSE
  /\ UNCHANGED <<registered, on, cancel, posted, thread, scene, sent, dropped>>

(* winner_task.result() of a drain that flush() cancelled raises, and the  *)
(* cancellation of race() itself is raised out of asyncio.wait: either     *)
(* way every drain is ended and race() raises CancelledError.              *)
RaceRaise ==
  /\ LoopFree
  /\ \/ race.phase = "waiting" /\ race.asked
     \/ Reaped /\ race.done # {} /\ pc[First(race.done)] = "cancelled"
  /\ race'   = [race EXCEPT !.phase = "unwinding", !.done = {}]
  /\ notify' = [notify EXCEPT !.task = "none"]
  /\ CancelTasks(InFlight)
  /\ UNCHANGED <<chanVars, pc, on, held, thread, unseen, scene, history>>

(* The next drain, in registration order, is awaited and its result, if    *)
(* it has one, restored.                                                   *)
Unwind(c) ==
  /\ LoopFree
  /\ race.phase = "unwinding"
  /\ c \in Ended /\ \A d \in Chan : pc[d] # "idle" => c <= d
  /\ RestoreFront({c} \cap {d \in Chan : pc[d] = "done"})
  /\ notify' = IF pc[c] = "done" THEN Signalled ELSE notify
  /\ pc'     = [pc EXCEPT ![c] = "idle"]
  /\ held'   = [held EXCEPT ![c] = 0]
  /\ UNCHANGED <<registered, on, cancel, race, posted, thread, unseen, scene, history>>

RaceRaised ==
  /\ LoopFree
  /\ race.phase = "unwinding" /\ \A c \in Chan : pc[c] = "idle"
  /\ race' = [phase |-> "turn", done |-> {}, asked |-> FALSE]
  /\ UNCHANGED <<chanVars, taskVars, notify, posted, thread, unseen, scene, history>>

(* Somebody cancels the task that awaits race().  While race() reaps, the  *)
(* CancelledError lands in its `await t' and is swallowed there.           *)
RaceCancel ==
  /\ LoopFree
  /\ race.phase # "turn" /\ ~race.asked
  /\ race.phase = "reaping" => InFlight # {}     \* else it awaits nothing
  /\ race' = [race EXCEPT !.asked = TRUE]
  /\ UNCHANGED <<chanVars, taskVars, notify, posted, thread, unseen, scene, history>>

(* A later prompt of the same turn shows the events added meanwhile.       *)
Prompt ==
  /\ LoopFree
  /\ race.phase = "turn" /\ unseen
  /\ unseen' = FALSE
  /\ UNCHANGED <<chanVars, taskVars, race, notify, posted, thread, scene, history>>

-----------------------------------------------------------------------------
TaskStep(t) == Take(t) \/ SeeEmpty(t) \/ Register(t) \/ Cancelled(t) \/ NeverRan(t)

RaceStep == \/ RaceFast \/ RaceStart \/ Sentinel \/ RaceWake \/ RaceEmpty \/ RaceWin
            \/ RaceRaise \/ RaceRaised
            \/ \E c \in Chan : Unwind(c)

LoopCallback == RunSet \/ \E t \in Task : RunWake(t)

ThreadStep == ThreadWake \/ ThreadNotify

Environment ==
  \/ PutEvent \/ RaceCancel \/ Prompt
  \/ \E c \in Chan : \/ Put(c) \/ ThreadAppend(c) \/ Drain(c) \/ PopLast(c)
                     \/ Flush(c) \/ RemoveChannel(c)
  \/ \E g \in Getter : CancelGet(g) \/ \E c \in Chan : GetStart(g, c)

Next == Environment \/ RaceStep \/ LoopCallback \/ ThreadStep \/ \E t \in Task : TaskStep(t)

Spec == Init /\ [][Next]_vars

-----------------------------------------------------------------------------
(* Properties.                                                             *)

Place == {"idle", "ready", "saw_empty", "wait", "done", "cancelled"}

(* Types of the channels, the consumer tasks and the race.                 *)
TypeOK ==
  /\ items \in [Chan -> Seq(1..MaxPut)]
  /\ waiters \in [Chan -> Seq(Task)]
  /\ registered \subseteq Chan
  /\ pc \in [Task -> Place]
  /\ on \in [Task -> Chan]
  /\ fut \in [Task -> {"none", "pending", "set", "cancelled"}]
  /\ cancel \in [Task -> BOOLEAN]
  /\ held \in [Chan -> 0..MaxPut]
  /\ race \in [phase : {"turn", "waiting", "reaping", "unwinding"},
               done : SUBSET Chan, asked : BOOLEAN]
  /\ notify \in [event : BOOLEAN, task : {"none", "ready", "wait", "woken", "done"}]
  /\ posted \in [wake : SUBSET Task, set : BOOLEAN]
  /\ thread \in [at : {"out", "appended", "woke"}, chan : Chan]
  /\ unseen \in BOOLEAN
  /\ scene \in Scenes
  /\ sent \in [Chan -> 0..MaxPut]
  /\ got \in [Chan -> Seq(1..MaxPut)]
  /\ dropped \in [Chan -> SUBSET (1..MaxPut)]

Elements(s) == {s[i] : i \in DOMAIN s}
InHand(c)   == {held[c]} \ {0}

(* "No item is silently dropped", and none is delivered twice: every item  *)
(* put on a channel is buffered, in the hand of one finished drain task,   *)
(* consumed (on_get fired) or deliberately discarded, and only one of      *)
(* them, whatever races, cancellations and flushes happen.                 *)
ItemsConserved ==
  \A c \in Chan :
    /\ Elements(items[c]) \cup InHand(c) \cup Elements(got[c]) \cup dropped[c] = 1..sent[c]
    /\ Len(items[c]) + Cardinality(InHand(c)) + Len(got[c]) + Cardinality(dropped[c]) = sent[c]

(* No item stays in a task once race() is over, however it ended.          *)
NothingLeftInHand == race.phase = "turn" => \A c \in Chan : held[c] = 0

(* Seen by its single dispatcher (no get() beside it), each channel is a   *)
(* FIFO queue: an item in the hand of a drain task still counts as the     *)
(* head of its queue, and putting it back is no step at all.  (A get()     *)
(* beside race() can overtake an item that is then restored.)              *)
Queues == INSTANCE ChannelSpec
  WITH Channel <- Chan, Item <- 1..MaxPut,
       queue   <- [c \in Chan |-> (IF held[c] # 0 THEN <<held[c]>> ELSE <<>>) \o items[c]],
       got     <- got

ImplementsQueues ==
  /\ Queues!Init
  /\ [][scene \subseteq {"thread"} => Queues!Next]_(Queues!vars)

(* Nothing in the loop and no producer has a step to take: everybody       *)
(* waits.                                                                  *)
Quiescent ==
  /\ thread.at = "out" /\ posted.wake = {} /\ ~posted.set
  /\ \A t \in Task : pc[t] = "idle" \/ (pc[t] = "wait" /\ fut[t] = "pending" /\ ~cancel[t])
  /\ \/ race.phase = "turn"
     \/ race.phase = "waiting" /\ ~race.asked /\ notify.task = "wait"

(* No lost wakeup in race(): the dispatcher does not sleep while a         *)
(* registered channel has an item.                                         *)
RaceNotStranded ==
  Quiescent /\ race.phase = "waiting" => \A c \in registered : items[c] = <<>>

(* No lost wakeup in get(): "Block until an item arrives, then return it". *)
GetWakes ==
  Quiescent => \A g \in Getter : pc[g] = "wait" => items[on[g]] = <<>>

(* With every put() on the loop, a get() never sleeps beside its item,     *)
(* whatever flushes, cancellations and races happen meanwhile.             *)
GetNotStranded == "thread" \notin scene => GetWakes

(* "Pending get() waiters are cancelled so they raise CancelledError       *)
(* rather than hanging forever on a channel that has been flushed": nobody *)
(* waits on a channel that was removed.                                    *)
RemovedReleases ==
  Quiescent => \A g \in Getter : pc[g] = "wait" => on[g] \in registered

(* "Both queue-mode and event-mode puts wake race()": the dispatcher does  *)
(* not sleep while an event has been put that no prompt has shown.         *)
EventNoticed == Quiescent /\ race.phase = "waiting" => ~unseen

(* "Propagates outer cancellation": race() does not return normally after  *)
(* its task was asked to cancel.                                           *)
CancelHonoured == race.phase = "turn" => ~race.asked

-----------------------------------------------------------------------------
(* The loop runs every callback and every runnable task in turn, the       *)
(* producer thread finishes its put, and the dispatcher calls race() again.*)
Fairness ==
  /\ \A t \in Task : WF_vars(TaskStep(t))
  /\ \A t \in Task : WF_vars(RunWake(t))
  /\ WF_vars(RunSet)
  /\ WF_vars(ThreadStep)
  /\ WF_vars(Sentinel)
  /\ WF_vars(RaceWake \/ RaceEmpty \/ RaceWin \/ RaceRaise \/ RaceRaised \/ \E c \in Chan : Unwind(c))
  /\ WF_vars(RaceFast \/ RaceStart)

FairSpec == Spec /\ Fairness

(* Every item put is consumed in the end, unless it is discarded or its    *)
(* channel removed, also when the producer is on another thread.           *)
Delivered ==
  \A c \in Chan : \A n \in 1..MaxPut :
    sent[c] >= n ~> \/ n \in Elements(got[c]) \cup dropped[c]
                    \/ c \notin registered

=============================================================================
