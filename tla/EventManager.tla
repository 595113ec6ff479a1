---------------------------- MODULE EventManager ----------------------------
(***************************************************************************)
(* The agent's event log: EventManager (runtime/event_manager.py) over     *)
(* InMemoryBackend (runtime/event_backend.py).                             *)
(*                                                                         *)
(* A recorded event gets the next number as its tag ("5").  collapse()     *)
(* archives every active event whose range meets the requested one and     *)
(* puts a Summary, tagged with the hull of their ranges ("2..40"), in      *)
(* their place; the archived events stay in the store.                     *)
(*                                                                         *)
(* collapse() is a sequence of backend calls.  Each call is a step here,   *)
(* driven by op: under asyncio nothing runs between them, which is why     *)
(* every other action waits for op to be idle.  The SQLite backend commits *)
(* each of these calls on its own.                                         *)
(***************************************************************************)
EXTENDS Naturals, Sequences, FiniteSets

CONSTANT MaxTag         \* bound: the highest event number a run hands out

ASSUME MaxTagAssumption == MaxTag \in Nat \ {0}

VARIABLES
  active,     \* _active_tags: the tags the LLM sees, in display order
  byTag,      \* _tag_to_event: tag -> [status, children]
  next,       \* _next_tag_num
  op,         \* the collapse() in progress
  removed,    \* history: the tags remove() deleted from the store
  hidden      \* history: the numbers that left the view with a removed tag

vars == <<active, byTag, next, op, removed, hidden>>

-----------------------------------------------------------------------------
(* Tags.  "5" and "5..5" are different strings for the same range.         *)

Number == 1..MaxTag
Tag    == [lo : Number, hi : Number, range : BOOLEAN]

Leaf(n)   == [lo |-> n, hi |-> n, range |-> FALSE]
Nums(t)   == t.lo .. t.hi

(* The test of collapse(): does tag t meet the range s..e?                 *)
Overlaps(t, s, e) == t.lo <= e /\ t.hi >= s

Event == [status : {"active", "archived"}, children : SUBSET Tag]

(* The active list and Python's list operations on it.                     *)
Listed == {active[i] : i \in DOMAIN active}

RemoveIndex(s, k) == [i \in 1..(Len(s) - 1) |-> IF i < k THEN s[i] ELSE s[i + 1]]

(* insert(index, x) with a 0-based index: k elements stay before x.        *)
InsertAfter(s, k, x) ==
  [i \in 1..(Len(s) + 1) |-> IF i <= k THEN s[i] ELSE IF i = k + 1 THEN x ELSE s[i - 1]]

(* k is the place in s of its first element from T.                        *)
IsFirst(s, T, k) == /\ k \in DOMAIN s
                    /\ s[k] \in T
                    /\ \A j \in 1..(k - 1) : s[j] \notin T

(* s with the first occurrence of t taken out (remove_active_tag).         *)
Unlist(s, t) ==
  IF \E k \in DOMAIN s : s[k] = t
  THEN RemoveIndex(s, CHOOSE k \in DOMAIN s : IsFirst(s, {t}, k))
  ELSE s

Sorted(s) == \A i, j \in DOMAIN s : i < j => s[i].hi < s[j].lo

IsLeast(S, m)    == m \in S /\ \A n \in S : m <= n
IsGreatest(S, m) == m \in S /\ \A n \in S : n <= m

(* lo..hi is the smallest range that holds the ranges of all the tags.     *)
HullOfStarts(tags, lo, hi) ==   \* slip: nested summaries not flattened
  IsLeast({t.lo : t \in tags}, lo) /\ IsGreatest({t.lo : t \in tags}, hi)
IsHull(tags, lo, hi) ==
  IsLeast({t.lo : t \in tags}, lo) /\ IsGreatest({t.hi : t \in tags}, hi)

(* The store after set_status(t, ARCHIVED).                                *)
ArchivedByDeleting(t) == [u \in DOMAIN byTag \ {t} |-> byTag[u]]   \* slip
Archived(t) == [u \in DOMAIN byTag |->
                  IF u = t THEN [byTag[u] EXCEPT !.status = "archived"] ELSE byTag[u]]

-----------------------------------------------------------------------------
Idle == [phase |-> "idle", tags |-> {}, todo |-> {}, first |-> 0, at |-> 0, sum |-> Leaf(1)]

Init ==
  /\ active  = <<>>
  /\ byTag   = [t \in {} |-> [status |-> "active", children |-> {}]]
  /\ next    = 1
  /\ op      = Idle
  /\ removed = {}
  /\ hidden  = {}

(* add(event, record=True): the backend allocates the tag and stores.      *)
Add ==
  /\ op.phase = "idle"
  /\ next <= MaxTag
  /\ byTag'  = [t \in DOMAIN byTag \cup {Leaf(next)} |->
                  IF t = Leaf(next) THEN [status |-> "active", children |-> {}]
                  ELSE byTag[t]]
  /\ active' = Append(active, Leaf(next))
  /\ next'   = next + 1
  /\ UNCHANGED <<op, removed, hidden>>

(* collapse(start_tag, end_tag): s is the start number of the first tag    *)
(* and e the end number of the second.  No active tag in range is a        *)
(* ValueError that changes nothing.                                        *)
Collapse(s, e) ==
  /\ op.phase = "idle"
  /\ LET tags == {t \in Listed : Overlaps(t, s, e)}
     IN \E k \in DOMAIN active :
          /\ IsFirst(active, tags, k)
          /\ op' = [Idle EXCEPT !.phase = "archiving", !.tags = tags,
                                !.todo = tags, !.first = active[k].lo]
  /\ UNCHANGED <<active, byTag, next, removed, hidden>>

(* One turn of the archiving loop, in list order: set_status(ARCHIVED) and *)
(* remove_active_tag.                                                      *)
ArchiveNext ==
  /\ op.phase = "archiving"
  /\ \E k \in DOMAIN active :
       /\ IsFirst(active, op.todo, k)
       /\ byTag'  = Archived(active[k])
       /\ active' = RemoveIndex(active, k)
       /\ op'     = [op EXCEPT !.todo = @ \ {active[k]}]
  /\ UNCHANGED <<next, removed, hidden>>

(* The insertion index: how many active tags come before the first one     *)
(* that starts after the first collapsed tag did.                          *)
InsertAtEnd(k) == k = Len(active)         \* slip: the Summary is appended
InsertIndex(k) ==
  \/ /\ k + 1 \in DOMAIN active
     /\ active[k + 1].lo > op.first
     /\ \A j \in 1..k : active[j].lo <= op.first
  \/ /\ k = Len(active)
     /\ \A j \in DOMAIN active : active[j].lo <= op.first

(* The loop is over: compute the Summary's tag and place, and store() it,  *)
(* which also appends its tag to the active list.  A tag already in use    *)
(* is overwritten.                                                         *)
StoreSummary ==
  /\ op.phase = "archiving" /\ op.todo = {}
  /\ \E lo \in Number, hi \in Number, k \in 0..Len(active) :
       /\ IsHull(op.tags, lo, hi)
       /\ InsertIndex(k)
       /\ LET sum == [lo |-> lo, hi |-> hi, range |-> TRUE]
          IN /\ byTag'  = [t \in DOMAIN byTag \cup {sum} |->
                             IF t = sum THEN [status |-> "active", children |-> op.tags]
                             ELSE byTag[t]]
             /\ active' = Append(active, sum)
             /\ next'   = IF next > hi THEN next ELSE hi + 1
             /\ op'     = [op EXCEPT !.phase = "stored", !.at = k, !.sum = sum]
  /\ UNCHANGED <<removed, hidden>>

(* remove_active_tag(summary_tag): store() put it at the end.              *)
UnlistSummary ==
  /\ op.phase = "stored"
  /\ active' = Unlist(active, op.sum)
  /\ op'     = [op EXCEPT !.phase = "placing"]
  /\ UNCHANGED <<byTag, next, removed, hidden>>

(* insert_active_tag(summary_tag, insert_idx); collapse() returns.         *)
PlaceSummary ==
  /\ op.phase = "placing"
  /\ active' = InsertAfter(active, op.at, op.sum)
  /\ op'     = Idle
  /\ UNCHANGED <<byTag, next, removed, hidden>>

(* remove(tag): from the store and, where it is listed, from the view.     *)
Remove(t) ==
  /\ op.phase = "idle"
  /\ t \in DOMAIN byTag
  /\ byTag'   = [u \in DOMAIN byTag \ {t} |-> byTag[u]]
  /\ active'  = Unlist(active, t)
  /\ removed' = removed \cup {t}
  /\ hidden'  = IF t \in Listed THEN hidden \cup Nums(t) ELSE hidden
  /\ UNCHANGED <<next, op>>

Clear ==
  /\ op.phase = "idle"
  /\ active'  = <<>>
  /\ byTag'   = [t \in {} |-> [status |-> "active", children |-> {}]]
  /\ next'    = 1
  /\ removed' = {}
  /\ hidden'  = {}
  /\ UNCHANGED op

CollapseStep == ArchiveNext \/ StoreSummary \/ UnlistSummary \/ PlaceSummary

Next ==
  \/ Add
  \/ \E s \in Number, e \in Number : Collapse(s, e)
  \/ CollapseStep
  \/ \E t \in Tag : Remove(t)
  \/ Clear

Spec == Init /\ [][Next]_vars

-----------------------------------------------------------------------------
(* Expanding a Summary.                                                    *)

NothingBelow == [t \in DOMAIN byTag |-> {}]

(* One call of _all_originals(t), whose recursive calls return below[c]: a *)
(* tag without a range is the event itself, and a child that is not stored *)
(* is skipped.                                                             *)
Expansion(below) ==
  [t \in DOMAIN byTag |->
     IF ~t.range THEN {t}
     ELSE UNION {below[c] : c \in byTag[t].children \cap DOMAIN byTag}]

(* _all_originals, cut off after d levels of recursion.  Ranges shrink on  *)
(* the way down, so MaxTag + 1 levels reach every leaf of a well-founded   *)
(* tree.                                                                   *)
Originals[d \in 0..(MaxTag + 1)] ==
  Expansion(IF d = 0 THEN NothingBelow ELSE Originals[d - 1])

AllOriginals(t) == Originals[MaxTag + 1][t]
OriginalsOf(t)  == {Leaf(n) : n \in Nums(t)}

-----------------------------------------------------------------------------
(* Properties.                                                             *)

(* Types of the log, of the store and of the collapse in progress.         *)
TypeOK ==
  /\ active \in Seq(Tag)
  /\ DOMAIN byTag \subseteq Tag
  /\ byTag \in [DOMAIN byTag -> Event]
  /\ next \in 1..(MaxTag + 1)
  /\ op \in [phase : {"idle", "archiving", "stored", "placing"},
             tags : SUBSET Tag, todo : SUBSET Tag, first : Nat, at : Nat, sum : Tag]
  /\ removed \subseteq Tag
  /\ hidden \subseteq Number

(* Active tags are in chronological order and never meet, also between the *)
(* backend calls of a collapse: what EventsApi.keys() promises the LLM,    *)
(* and what collapse() needs for its insertion index.  (Right after the    *)
(* Summary is stored its tag is at the end, before it is moved.)           *)
ActiveSorted ==
  op.phase # "stored" => Sorted(active)

(* When no collapse is in progress every number handed out is shown by    *)
(* an active tag, or was shown by one that remove() deleted: collapse()    *)
(* loses no event from the LLM's view, however it nests or overlaps.       *)
ViewComplete ==
  op.phase = "idle" =>
    \A n \in Number : n < next =>
      n \in hidden \/ \E t \in Listed : n \in Nums(t)

(* "manager["5"] always returns event 5, even after summarization": every  *)
(* event added stays in the store until remove() takes it out.             *)
LeafAccessible ==
  \A n \in Number : n < next => Leaf(n) \in DOMAIN byTag \cup removed

(* A listed tag is stored and active, and whatever is stored but not       *)
(* listed is archived, whenever no collapse is in progress.                *)
StatusMatchesView ==
  op.phase = "idle" =>
    /\ Listed \subseteq DOMAIN byTag
    /\ \A t \in DOMAIN byTag : (byTag[t].status = "active") <=> (t \in Listed)

(* A Summary that collapse() made from itself.                             *)
SelfCollapsed == \E t \in DOMAIN byTag : t \in byTag[t].children

(* Short of a Summary that is its own child, expanding any stored Summary  *)
(* (_all_originals) gives exactly the events whose numbers its tag spans,  *)
(* and each of them once, however often ranges were collapsed over each    *)
(* other.                                                                  *)
SummaryExpands ==
  removed = {} /\ ~SelfCollapsed =>
    \A t \in DOMAIN byTag :
      /\ AllOriginals(t) = OriginalsOf(t)
      /\ \A c, d \in byTag[t].children :
           c # d => AllOriginals(c) \cap AllOriginals(d) = {}

=============================================================================
