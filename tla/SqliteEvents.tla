---------------------------- MODULE SqliteEvents ----------------------------
(***************************************************************************)
(* EventManager over SQLiteEventBackend (storage/sqlite.py).  The active   *)
(* list is a table of rows (position, tag), the tag unique; events is a    *)
(* table keyed by tag.  Every backend call commits a transaction of its    *)
(* own, so a crash, or a disk I/O error in a call that is not retried, may *)
(* fall between any two calls of a collapse.  The tag counter is in memory *)
(* and is computed from the table when the process starts.                 *)
(***************************************************************************)
EXTENDS Integers, Sequences, FiniteSets

CONSTANTS
  MaxTag,     \* bound: the highest event number a run hands out
  Faulty,     \* the values faulty may have
  FrontOnly   \* whether collapses start at the oldest active tag and never meet one Summary
              \* alone, in the absence of faults

ASSUME ConstantsAssumption == /\ MaxTag \in Nat \ {0}
                              /\ Faulty \subseteq BOOLEAN /\ FrontOnly \in BOOLEAN

VARIABLES
  position,   \* table active_tags: tag -> position
  events,     \* table events: tag -> [status, children]
  next,       \* _next_tag_num
  op,         \* the collapse() in progress, as in EventManager
  marked,     \* the tag set_status archived and remove_active_tag still lists
  removed,    \* history: the tags remove() deleted
  hidden,     \* history: the numbers that left the view with a removed tag
  added,      \* history: the numbers of the events added
  faulty      \* whether, in this behaviour, the process may crash and calls may fail

history == <<removed, hidden, added, faulty>>
vars == <<position, events, next, op, marked, history>>

Listed == DOMAIN position

(* active_tags(): ORDER BY position.                                       *)
Order == [i \in 1..Cardinality(Listed) |->
            CHOOSE t \in Listed :
              Cardinality({u \in Listed : position[u] < position[t]}) = i - 1]

(* The in-memory event log these tables stand for.  A tag that is marked   *)
(* but still listed is half-way through one step of the log.               *)
Log == INSTANCE EventManager
  WITH active <- Order,
       byTag  <- [t \in DOMAIN events |->
                    IF t \in marked THEN [events[t] EXCEPT !.status = "active"]
                    ELSE events[t]]

NoEvents == [t \in {} |-> [status |-> "active", children |-> {}]]
Without(f, t) == [u \in DOMAIN f \ {t} |-> f[u]]
With(f, t, v) == [u \in DOMAIN f \cup {t} |-> IF u = t THEN v ELSE f[u]]

(* The greatest of a set of numbers, d if there is none.                   *)
Greatest(S, d) == IF S = {} THEN d ELSE CHOOSE m \in S : \A n \in S : n <= m

NewPosition  == Greatest({position[t] : t \in Listed}, -1) + 1

(* max_tag_num(): the number after ".." of a range tag.                    *)
MaxFirstNum == Greatest({t.lo : t \in DOMAIN events}, 0)    \* slip: CAST("2..40") is 2
MaxTagNum   == Greatest({t.hi : t \in DOMAIN events}, 0)

-----------------------------------------------------------------------------
Init ==
  /\ position = [t \in {} |-> 0]
  /\ events   = NoEvents
  /\ next     = 1
  /\ op       = Log!Idle
  /\ marked   = {}
  /\ removed  = {}
  /\ hidden   = {}
  /\ added    = {}
  /\ faulty \in Faulty

(* add(): allocate_next_tag, then store(), one transaction for both rows.  *)
(* A tag already in the table is an IntegrityError.                        *)
Add ==
  /\ op.phase = "idle"
  /\ next <= MaxTag
  /\ next' = next + 1
  /\ IF Log!Leaf(next) \in DOMAIN events
     THEN UNCHANGED <<events, position, added>>
     ELSE /\ events'   = With(events, Log!Leaf(next), [status |-> "active", children |-> {}])
          /\ position' = With(position, Log!Leaf(next), NewPosition)
          /\ added'    = added \cup {next}
  /\ UNCHANGED <<op, marked, removed, hidden, faulty>>

Collapse(s, e) ==
  /\ op.phase = "idle"
  /\ LET tags == {t \in Listed : Log!Overlaps(t, s, e)}
     IN /\ FrontOnly /\ ~faulty => /\ Order # <<>> /\ Order[1] \in tags
                                     /\ \A t \in tags : t.range => tags # {t}
        /\ \E k \in DOMAIN Order :
             /\ Log!IsFirst(Order, tags, k)
             /\ op' = [Log!Idle EXCEPT !.phase = "archiving", !.tags = tags,
                                       !.todo = tags, !.first = Order[k].lo]
  /\ UNCHANGED <<position, events, next, marked, history>>

(* set_status(tag, ARCHIVED).                                              *)
MarkRow(t) == events' = [events EXCEPT ![t].status = "archived"]

Mark ==
  /\ op.phase = "archiving" /\ marked = {}
  /\ \E k \in DOMAIN Order :
       /\ Log!IsFirst(Order, op.todo, k)
       /\ MarkRow(Order[k])
       /\ marked' = {Order[k]}
  /\ UNCHANGED <<position, next, op, history>>

(* remove_active_tag(tag).                                                 *)
DeleteBoth(t) == events' = Without(events, t) /\ position' = Without(position, t)   \* slip
DeleteRow(t)  == position' = Without(position, t) /\ UNCHANGED events

UnlistMarked ==
  /\ \E t \in marked : DeleteRow(t) /\ op' = [op EXCEPT !.todo = @ \ {t}]
  /\ marked' = {}
  /\ UNCHANGED <<next, history>>

(* store() of the Summary.  Where its tag is already in the table the      *)
(* IntegrityError leaves collapse(), everything archived and unlisted.     *)
StoreSummary ==
  /\ op.phase = "archiving" /\ op.todo = {}
  /\ \E lo \in Log!Number, hi \in Log!Number, k \in 0..Cardinality(Listed) :
       /\ Log!IsHull(op.tags, lo, hi)
       /\ Log!InsertIndex(k)
       /\ LET sum == [lo |-> lo, hi |-> hi, range |-> TRUE]
          IN IF sum \in DOMAIN events
             THEN /\ op' = Log!Idle
                  /\ UNCHANGED <<events, position, next>>
             ELSE /\ events'   = With(events, sum, [status |-> "active", children |-> op.tags])
                  /\ position' = With(position, sum, NewPosition)
                  /\ next'     = Greatest({next, hi + 1}, 1)
                  /\ op'       = [op EXCEPT !.phase = "stored", !.at = k, !.sum = sum]
  /\ UNCHANGED <<marked, history>>

UnlistSummary ==
  /\ op.phase = "stored"
  /\ position' = Without(position, op.sum)
  /\ op'       = [op EXCEPT !.phase = "placing"]
  /\ UNCHANGED <<events, next, marked, history>>

(* insert_active_tag(tag, index): the rows at or after position index move *)
(* one up.                                                                 *)
ShiftAfter(index) ==    \* slip: position > index
  [t \in Listed |-> IF position[t] > index THEN position[t] + 1 ELSE position[t]]
Shifted(index) ==
  [t \in Listed |-> IF position[t] >= index THEN position[t] + 1 ELSE position[t]]

PlaceSummary ==
  /\ op.phase = "placing"
  /\ position' = With(Shifted(op.at), op.sum, op.at)
  /\ op'       = Log!Idle
  /\ UNCHANGED <<events, next, marked, history>>

UnlistNothing(t) == UNCHANGED position  \* slip: DELETE FROM events only
UnlistRow(t)     == position' = Without(position, t)

Remove(t) ==
  /\ op.phase = "idle"
  /\ t \in DOMAIN events
  /\ events'  = Without(events, t)
  /\ UnlistRow(t)
  /\ removed' = removed \cup {t}
  /\ hidden'  = IF t \in Listed THEN hidden \cup Log!Nums(t) ELSE hidden
  /\ UNCHANGED <<next, op, marked, added, faulty>>

Clear ==
  /\ op.phase = "idle"
  /\ position' = [t \in {} |-> 0]
  /\ events'   = NoEvents
  /\ next'     = 1
  /\ removed'  = {} /\ hidden' = {} /\ added' = {}
  /\ UNCHANGED <<op, marked, faulty>>

(* The process ends and another one opens the database.                    *)
Crash ==
  /\ faulty
  /\ next'   = MaxTagNum + 1
  /\ op'     = Log!Idle
  /\ marked' = {}
  /\ UNCHANGED <<position, events, history>>

(* A disk I/O error in remove_active_tag or insert_active_tag, which are   *)
(* not retried: the exception ends collapse().                             *)
CallFails ==
  /\ faulty
  /\ marked # {} \/ op.phase \in {"stored", "placing"}
  /\ op'     = Log!Idle
  /\ marked' = {}
  /\ UNCHANGED <<position, events, next, history>>

CollapseStep == Mark \/ UnlistMarked \/ StoreSummary \/ UnlistSummary \/ PlaceSummary

Next ==
  \/ Add
  \/ \E s \in Log!Number, e \in Log!Number : Collapse(s, e)
  \/ CollapseStep
  \/ \E t \in Log!Tag : Remove(t)
  \/ Clear
  \/ Crash
  \/ CallFails

Spec == Init /\ [][Next]_vars

-----------------------------------------------------------------------------
(* Properties.                                                             *)

(* Types of the tables and of the collapse in progress.                    *)
TypeOK ==
  /\ Listed \subseteq Log!Tag /\ position \in [Listed -> Nat]
  /\ DOMAIN events \subseteq Log!Tag /\ events \in [DOMAIN events -> Log!Event]
  /\ next \in 1..(MaxTag + 1)
  /\ op.phase \in {"idle", "archiving", "stored", "placing"}
  /\ op.tags \subseteq Log!Tag /\ op.todo \subseteq op.tags /\ op.sum \in Log!Tag
  /\ marked \subseteq op.todo /\ Cardinality(marked) <= 1
  /\ removed \subseteq Log!Tag
  /\ hidden \subseteq Log!Number /\ added \subseteq Log!Number

(* No two rows have the same position, so that ORDER BY position is an     *)
(* order, whatever was removed, shifted and interrupted before.            *)
PositionsUnique == \A t, u \in Listed : position[t] = position[u] => t = u

(* Every listed tag can be read, after any crash: the prompt is built from *)
(* the active list, and a tag without an event would be a KeyError there.  *)
ListedStored == Listed \subseteq DOMAIN events

(* The counter is ahead of every stored tag, also after a restart, when it *)
(* is computed from the table: add() never meets an IntegrityError.        *)
CounterAhead == \A t \in DOMAIN events : t.hi < next

(* Every event added can be read by its number until it is removed,        *)
(* through collapses, failures and restarts.                               *)
EventsKept == \A n \in added : Log!Leaf(n) \in DOMAIN events \cup removed

(* Whatever was interrupted, the two tables fit each other and lost        *)
(* nothing.                                                                *)
TablesWhole == PositionsUnique /\ ListedStored /\ EventsKept

(* While every collapse starts at the oldest active event, as those of     *)
(* TokenBudgetSummarizer and of the context-error recovery do, and does    *)
(* not meet a single Summary only, the tables implement the in-memory log: *)
(* position and list index then agree where it matters.                    *)
ImplementsLog == (~faulty => Log!Init) /\ [][~faulty => Log!Next]_(Log!vars)

(* insert_active_tag's "position in the active list": the active tags are  *)
(* in chronological order, as collapse() and EventsApi.keys() expect.      *)
OrderKept == op.phase = "idle" => Log!Sorted(Order)

(* _collapse_oldest "returns the number of events actually archived", 0    *)
(* when collapse() raises: a collapse that fails hides nothing.            *)
FailureHidesNothing ==
  [][StoreSummary /\ op'.phase = "idle" => op.tags \subseteq Listed']_vars

=============================================================================
