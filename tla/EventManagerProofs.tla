------------------------- MODULE EventManagerProofs -------------------------
(***************************************************************************)
(* Proofs about the event log, for every number of events: its types, the  *)
(* order and the completeness of the view, the stability of the leaf tags, *)
(* the agreement of status and view, the expansion of Summaries; and about *)
(* the summarizers that collapse it: what is pending fits its range, and a *)
(* text tells all that its Summary hides.                                  *)
(***************************************************************************)
EXTENDS Summarizer, SequenceTheorems, FiniteSetTheorems, WellFoundedInduction, TLAPS

-----------------------------------------------------------------------------
(* Python's list operations on a sequence.                                 *)

(* A sequence is as long as its domain says.                               *)
LEMMA LenOfDomain ==
  ASSUME NEW S, NEW s \in Seq(S), NEW n \in Nat, DOMAIN s = 1..n
  PROVE  Len(s) = n
<1>1. Len(s) \in Nat /\ DOMAIN s = 1..Len(s)
  OBVIOUS
<1>2. Len(s) \in 1..n \/ Len(s) = 0
  BY <1>1
<1>3. n \in 1..Len(s) \/ n = 0
  BY <1>1
<1> QED
  BY <1>1, <1>2, <1>3

(* list.pop(k) drops one element and moves the rest down.                  *)
LEMMA RemoveIndexFacts ==
  ASSUME NEW s \in Seq(Tag), NEW k \in 1..Len(s)
  PROVE  /\ RemoveIndex(s, k) \in Seq(Tag)
         /\ Len(RemoveIndex(s, k)) = Len(s) - 1
         /\ DOMAIN RemoveIndex(s, k) = 1..(Len(s) - 1)
         /\ \A i \in 1..(Len(s) - 1) :
              RemoveIndex(s, k)[i] = IF i < k THEN s[i] ELSE s[i + 1]
<1> DEFINE r == RemoveIndex(s, k)
<1>1. Len(s) \in Nat /\ Len(s) - 1 \in Nat /\ DOMAIN s = 1..Len(s)
  OBVIOUS
<1>2. \A i \in 1..(Len(s) - 1) : (IF i < k THEN s[i] ELSE s[i + 1]) \in Tag
  BY <1>1
<1>3. r \in [1..(Len(s) - 1) -> Tag]
  BY <1>2 DEF RemoveIndex
<1>4. r \in Seq(Tag)
  BY <1>1, <1>3, IsASeq DEF RemoveIndex
<1>5. Len(r) = Len(s) - 1
  <2>1. DOMAIN r = 1..(Len(s) - 1)
    BY <1>3
  <2> QED
    BY <1>1, <1>4, <2>1, LenOfDomain
<1> QED
  BY <1>1, <1>3, <1>4, <1>5 DEF RemoveIndex

(* list.insert(k, x) puts x after the first k elements.                    *)
LEMMA InsertAfterFacts ==
  ASSUME NEW s \in Seq(Tag), NEW k \in 0..Len(s), NEW x \in Tag
  PROVE  /\ InsertAfter(s, k, x) \in Seq(Tag)
         /\ Len(InsertAfter(s, k, x)) = Len(s) + 1
         /\ DOMAIN InsertAfter(s, k, x) = 1..(Len(s) + 1)
         /\ \A i \in 1..(Len(s) + 1) :
              InsertAfter(s, k, x)[i] =
                IF i <= k THEN s[i] ELSE IF i = k + 1 THEN x ELSE s[i - 1]
<1> DEFINE r == InsertAfter(s, k, x)
<1>1. Len(s) \in Nat /\ Len(s) + 1 \in Nat /\ DOMAIN s = 1..Len(s)
  OBVIOUS
<1>2. \A i \in 1..(Len(s) + 1) :
        (IF i <= k THEN s[i] ELSE IF i = k + 1 THEN x ELSE s[i - 1]) \in Tag
  BY <1>1
<1>3. r \in [1..(Len(s) + 1) -> Tag]
  BY <1>2 DEF InsertAfter
<1>4. r \in Seq(Tag)
  BY <1>1, <1>3, IsASeq DEF InsertAfter
<1>5. Len(r) = Len(s) + 1
  <2>1. DOMAIN r = 1..(Len(s) + 1)
    BY <1>3
  <2> QED
    BY <1>1, <1>4, <2>1, LenOfDomain
<1> QED
  BY <1>3, <1>4, <1>5 DEF InsertAfter

(* The elements of a sequence.                                             *)
Elems(s) == {s[i] : i \in DOMAIN s}

(* A list of tags: its places are numbered, its tags are ranges of numbers. *)
LEMMA TagListFacts ==
  ASSUME NEW s \in Seq(Tag)
  PROVE  /\ Len(s) \in Nat /\ DOMAIN s = 1..Len(s) /\ DOMAIN s \subseteq Nat
         /\ \A i \in DOMAIN s : s[i] \in Tag /\ s[i].lo \in Nat /\ s[i].hi \in Nat
<1>1. Len(s) \in Nat /\ DOMAIN s = 1..Len(s) /\ DOMAIN s \subseteq Nat
  OBVIOUS
<1>2. \A i \in DOMAIN s : s[i] \in Tag
  OBVIOUS
<1>3. \A t \in Tag : t.lo \in Nat /\ t.hi \in Nat
  BY MaxTagAssumption DEF Tag, Number
<1> QED
  BY <1>1, <1>2, <1>3

(* Taking one tag out of a sorted list leaves it sorted and takes nothing  *)
(* else out.                                                               *)
LEMMA SortedRemove ==
  ASSUME NEW s \in Seq(Tag), Sorted(s), \A i \in DOMAIN s : s[i].lo <= s[i].hi,
         NEW k \in DOMAIN s
  PROVE  /\ RemoveIndex(s, k) \in Seq(Tag)
         /\ Sorted(RemoveIndex(s, k))
         /\ Elems(RemoveIndex(s, k)) = Elems(s) \ {s[k]}
<1> DEFINE r == RemoveIndex(s, k)
<1> HIDE DEF r
<1>1. /\ Len(s) \in Nat /\ DOMAIN s = 1..Len(s) /\ k \in 1..Len(s)
      /\ \A i \in DOMAIN s : s[i] \in Tag /\ s[i].lo \in Nat /\ s[i].hi \in Nat
  BY TagListFacts
<1>2. /\ r \in Seq(Tag) /\ DOMAIN r = 1..(Len(s) - 1)
      /\ \A i \in 1..(Len(s) - 1) : r[i] = IF i < k THEN s[i] ELSE s[i + 1]
  BY <1>1, RemoveIndexFacts DEF r
<1>3. Sorted(r)
  <2> SUFFICES ASSUME NEW i \in DOMAIN r, NEW j \in DOMAIN r, i < j
               PROVE  r[i].hi < r[j].lo
    BY DEF Sorted
  <2> DEFINE a == IF i < k THEN i ELSE i + 1
             b == IF j < k THEN j ELSE j + 1
  <2>1. a \in DOMAIN s /\ b \in DOMAIN s /\ a < b
    BY <1>1, <1>2
  <2>2. r[i] = s[a] /\ r[j] = s[b]
    BY <1>2
  <2> QED
    BY <2>1, <2>2 DEF Sorted
<1>4. \A i, j \in DOMAIN s : i < j => s[i] # s[j]
  BY <1>1 DEF Sorted
<1>5. \A i \in DOMAIN r : \E j \in DOMAIN s : j # k /\ r[i] = s[j]
  <2> SUFFICES ASSUME NEW i \in DOMAIN r
               PROVE  \E j \in DOMAIN s : j # k /\ r[i] = s[j]
    OBVIOUS
  <2>1. CASE i < k
    BY <2>1, <1>1, <1>2
  <2>2. CASE ~(i < k)
    <3>1. i + 1 \in DOMAIN s /\ i + 1 # k /\ r[i] = s[i + 1]
      BY <2>2, <1>1, <1>2
    <3> QED
      BY <3>1
  <2> QED
    BY <2>1, <2>2
<1>6. \A j \in DOMAIN s : j # k => \E i \in DOMAIN r : r[i] = s[j]
  <2> SUFFICES ASSUME NEW j \in DOMAIN s, j # k PROVE \E i \in DOMAIN r : r[i] = s[j]
    OBVIOUS
  <2>1. CASE j < k
    BY <2>1, <1>1, <1>2
  <2>2. CASE j > k
    <3>1. j - 1 \in DOMAIN r /\ ~(j - 1 < k) /\ (j - 1) + 1 = j
      BY <2>2, <1>1, <1>2
    <3> QED
      BY <3>1, <1>2
  <2> QED
    BY <2>1, <2>2, <1>1
<1>7. \A j \in DOMAIN s : j # k => s[j] # s[k]
  BY <1>1, <1>4
<1>8. Elems(r) \subseteq Elems(s) \ {s[k]}
  BY <1>5, <1>7 DEF Elems
<1>9. Elems(s) \ {s[k]} \subseteq Elems(r)
  BY <1>6 DEF Elems
<1> QED
  BY <1>2, <1>3, <1>8, <1>9 DEF r

(* remove_active_tag takes out the only place a tag has.                   *)
LEMMA UnlistFacts ==
  ASSUME NEW s \in Seq(Tag), NEW k \in DOMAIN s, \A j \in DOMAIN s : s[j] = s[k] => j = k
  PROVE  Unlist(s, s[k]) = RemoveIndex(s, k)
<1>1. IsFirst(s, {s[k]}, k)
  <2>1. \A j \in 1..(k - 1) : j \in DOMAIN s /\ j # k
    BY TagListFacts
  <2> QED
    BY <2>1 DEF IsFirst
<1>2. \A j : IsFirst(s, {s[k]}, j) => j = k
  BY DEF IsFirst
<1>3. (CHOOSE j \in DOMAIN s : IsFirst(s, {s[k]}, j)) = k
  BY <1>1, <1>2
<1> QED
  BY <1>3 DEF Unlist

(* Unlist on a sorted list: sorted, and without the tag.                   *)
LEMMA SortedUnlist ==
  ASSUME NEW s \in Seq(Tag), Sorted(s), \A i \in DOMAIN s : s[i].lo <= s[i].hi, NEW t \in Tag
  PROVE  /\ Unlist(s, t) \in Seq(Tag)
         /\ Sorted(Unlist(s, t))
         /\ Elems(Unlist(s, t)) = Elems(s) \ {t}
<1>1. CASE \E k \in DOMAIN s : s[k] = t
  <2>1. PICK k \in DOMAIN s : s[k] = t
    BY <1>1
  <2>2. /\ DOMAIN s = 1..Len(s) /\ DOMAIN s \subseteq Nat
        /\ \A i \in DOMAIN s : s[i].lo \in Nat /\ s[i].hi \in Nat
    BY TagListFacts
  <2>3. \A j \in DOMAIN s : s[j] = s[k] => j = k
    <3>1. \A i, j \in DOMAIN s : i < j => s[i] # s[j]
      BY <2>2 DEF Sorted
    <3> QED
      BY <3>1, <2>2
  <2>4. Unlist(s, t) = RemoveIndex(s, k)
    BY <2>1, <2>2, <2>3, UnlistFacts
  <2> QED
    BY <2>1, <2>4, SortedRemove
<1>2. CASE ~\E k \in DOMAIN s : s[k] = t
  BY <1>2 DEF Unlist, Elems
<1> QED
  BY <1>1, <1>2

-----------------------------------------------------------------------------
(* The inductive invariant.                                                *)

(* Stored tags are ranges of numbers already handed out.                   *)
WellFormed == \A t \in DOMAIN byTag : t.lo <= t.hi /\ t.hi < next

ListedStored == Listed \subseteq DOMAIN byTag

(* While collapse() archives: it still has to take out exactly the         *)
(* selected tags that are listed, and every other tag lies before all of   *)
(* the selected ones or after all of them.                                 *)
Selected ==
  op.phase = "archiving" =>
    /\ op.tags # {}
    /\ op.tags \subseteq DOMAIN byTag
    /\ op.todo = op.tags \cap Listed
    /\ IsLeast({t.lo : t \in op.tags}, op.first)
    /\ \A t \in Listed \ op.tags : \/ \A u \in op.tags : t.hi < u.lo
                                   \/ \A u \in op.tags : u.hi < t.lo

(* The places of the active list other than the Summary's own.             *)
Others == IF op.phase = "stored" THEN 1..(Len(active) - 1) ELSE DOMAIN active

(* Once the Summary is stored, the computed index is right for it: it      *)
(* splits the rest of the list into what comes before and after it.        *)
Placed ==
  op.phase \in {"stored", "placing"} =>
    /\ op.sum \in DOMAIN byTag
    /\ op.phase = "stored" => Len(active) > 0 /\ active[Len(active)] = op.sum
    /\ op.at <= (IF op.phase = "stored" THEN Len(active) - 1 ELSE Len(active))
    /\ \A i, j \in Others : i < j => active[i].hi < active[j].lo
    /\ \A i \in Others : /\ i <= op.at => active[i].hi < op.sum.lo
                         /\ op.at < i  => op.sum.hi < active[i].lo

(* The tags that stand for numbers in the view, those a collapse has in    *)
(* hand included.                                                          *)
Shown == Listed \cup (IF op.phase = "archiving" THEN op.tags ELSE {})
                \cup (IF op.phase \in {"stored", "placing"} THEN {op.sum} ELSE {})

Complete ==
  \A n \in Number : n < next => n \in hidden \/ \E t \in Shown : n \in Nums(t)

Status ==
  \A t \in DOMAIN byTag :
    (byTag[t].status = "active") <=>
       (t \in Listed \/ (op.phase = "placing" /\ t = op.sum))

IInv == /\ TypeOK
        /\ WellFormed
        /\ ListedStored
        /\ ActiveSorted
        /\ Selected
        /\ Placed
        /\ Complete
        /\ Status
        /\ LeafAccessible

-----------------------------------------------------------------------------
(* Appending and inserting, as sets of tags.                               *)
LEMMA AppendTagFacts ==
  ASSUME NEW s \in Seq(Tag), NEW t \in Tag
  PROVE  /\ Append(s, t) \in Seq(Tag)
         /\ DOMAIN Append(s, t) = 1..(Len(s) + 1) /\ Len(Append(s, t)) = Len(s) + 1
         /\ \A i \in 1..Len(s) : Append(s, t)[i] = s[i]
         /\ Append(s, t)[Len(s) + 1] = t
         /\ Elems(Append(s, t)) = Elems(s) \cup {t}
<1>1. /\ Append(s, t) \in Seq(Tag)
      /\ DOMAIN Append(s, t) = 1..(Len(s) + 1) /\ Len(Append(s, t)) = Len(s) + 1
      /\ \A i \in 1..Len(s) : Append(s, t)[i] = s[i]
      /\ Append(s, t)[Len(s) + 1] = t
  BY AppendProperties
<1>2. Len(s) \in Nat /\ DOMAIN s = 1..Len(s)
  BY TagListFacts
<1>3. Elems(Append(s, t)) \subseteq Elems(s) \cup {t}
  BY <1>1, <1>2 DEF Elems
<1>4. Elems(s) \cup {t} \subseteq Elems(Append(s, t))
  <2>1. Elems(s) \subseteq Elems(Append(s, t))
    <3> SUFFICES ASSUME NEW i \in DOMAIN s
                 PROVE  \E j \in DOMAIN Append(s, t) : Append(s, t)[j] = s[i]
      BY DEF Elems
    <3>1. i \in DOMAIN Append(s, t) /\ Append(s, t)[i] = s[i]
      BY <1>1, <1>2
    <3> QED
      BY <3>1
  <2>2. t \in Elems(Append(s, t))
    <3>1. Len(s) + 1 \in DOMAIN Append(s, t)
      BY <1>1, <1>2
    <3> QED
      BY <3>1, <1>1 DEF Elems
  <2> QED
    BY <2>1, <2>2
<1> QED
  BY <1>1, <1>3, <1>4

LEMMA InsertTagFacts ==
  ASSUME NEW s \in Seq(Tag), NEW k \in 0..Len(s), NEW t \in Tag
  PROVE  Elems(InsertAfter(s, k, t)) = Elems(s) \cup {t}
<1> DEFINE r == InsertAfter(s, k, t)
<1> HIDE DEF r
<1>1. /\ DOMAIN r = 1..(Len(s) + 1)
      /\ \A i \in 1..(Len(s) + 1) :
           r[i] = IF i <= k THEN s[i] ELSE IF i = k + 1 THEN t ELSE s[i - 1]
  BY InsertAfterFacts DEF r
<1>2. Len(s) \in Nat /\ DOMAIN s = 1..Len(s)
  BY TagListFacts
<1>3. Elems(r) \subseteq Elems(s) \cup {t}
  <2> SUFFICES ASSUME NEW i \in 1..(Len(s) + 1) PROVE r[i] \in Elems(s) \cup {t}
    BY <1>1 DEF Elems
  <2>1. CASE i <= k
    <3>1. i \in DOMAIN s /\ r[i] = s[i]
      BY <2>1, <1>1, <1>2
    <3> QED
      BY <3>1 DEF Elems
  <2>2. CASE i = k + 1
    BY <2>2, <1>1
  <2>3. CASE i > k + 1
    <3>1. i - 1 \in DOMAIN s /\ r[i] = s[i - 1]
      BY <2>3, <1>1, <1>2
    <3> QED
      BY <3>1 DEF Elems
  <2> QED
    BY <2>1, <2>2, <2>3
<1>4. Elems(s) \subseteq Elems(r)
  <2> SUFFICES ASSUME NEW i \in DOMAIN s PROVE \E j \in DOMAIN r : r[j] = s[i]
    BY DEF Elems
  <2>1. CASE i <= k
    <3>1. i \in DOMAIN r /\ r[i] = s[i]
      BY <2>1, <1>1, <1>2
    <3> QED
      BY <3>1
  <2>2. CASE i > k
    <3>1. i + 1 \in DOMAIN r /\ r[i + 1] = s[i]
      BY <2>2, <1>1, <1>2
    <3> QED
      BY <3>1
  <2> QED
    BY <2>1, <2>2, <1>2
<1>5. t \in Elems(r)
  <2>1. k + 1 \in DOMAIN r /\ r[k + 1] = t
    BY <1>1, <1>2
  <2> QED
    BY <2>1 DEF Elems
<1> QED
  BY <1>3, <1>4, <1>5 DEF r

-----------------------------------------------------------------------------
(* The invariant holds initially and every action keeps it.                *)
LEMMA InitIInv == Init => IInv
<1> SUFFICES ASSUME Init PROVE IInv
  OBVIOUS
<1> USE DEF Init, Idle
<1>1. Leaf(1) \in Tag
  BY MaxTagAssumption DEF Leaf, Tag, Number
<1>2. active \in Seq(Tag) /\ DOMAIN active = {} /\ DOMAIN byTag = {}
  OBVIOUS
<1>3. TypeOK
  BY <1>1, <1>2, MaxTagAssumption DEF TypeOK
<1>4. \A n \in Number : ~(n < next)
  BY DEF Number
<1> QED
  BY <1>2, <1>3, <1>4
  DEF IInv, WellFormed, ListedStored, ActiveSorted, Sorted, Selected, Placed, Complete,
      Status, LeafAccessible, Listed

LEMMA AddIInv == IInv /\ Add => IInv'
<1> SUFFICES ASSUME IInv, Add PROVE IInv'
  OBVIOUS
<1> DEFINE new == Leaf(next)
<1>1. /\ active \in Seq(Tag) /\ next \in Nat /\ next <= MaxTag /\ op.phase = "idle"
      /\ \A i \in DOMAIN active : active[i] \in DOMAIN byTag
  BY DEF IInv, TypeOK, ListedStored, Listed, Add
<1>2. new \in Tag /\ new.lo = next /\ new.hi = next /\ ~new.range
  BY <1>1 DEF Leaf, Tag, Number, IInv, TypeOK
<1>3. new \notin DOMAIN byTag
  BY <1>1, <1>2 DEF IInv, WellFormed
<1>4. /\ DOMAIN byTag' = DOMAIN byTag \cup {new}
      /\ byTag'[new] = [status |-> "active", children |-> {}]
      /\ \A t \in DOMAIN byTag : byTag'[t] = byTag[t]
  BY <1>3 DEF Add
<1>5. /\ active' \in Seq(Tag) /\ Listed' = Listed \cup {new}
      /\ DOMAIN active' = 1..(Len(active) + 1)
      /\ \A i \in 1..Len(active) : active'[i] = active[i]
      /\ active'[Len(active) + 1] = new
  BY <1>1, <1>2, AppendTagFacts DEF Add, Listed, Elems
<1>6. next' = next + 1 /\ UNCHANGED <<op, removed, hidden>>
  BY DEF Add
<1>7. TypeOK'
  <2>1. byTag'[new] \in Event
    BY <1>4 DEF Event
  <2>2. byTag' \in [DOMAIN byTag' -> Event] /\ DOMAIN byTag' \subseteq Tag
    BY <2>1, <1>2, <1>4 DEF IInv, TypeOK, Add
  <2>3. next' \in 1..(MaxTag + 1)
    BY <1>1, <1>6, MaxTagAssumption DEF IInv, TypeOK
  <2> QED
    BY <2>2, <2>3, <1>5, <1>6 DEF IInv, TypeOK
<1>8. WellFormed'
  BY <1>1, <1>2, <1>4, <1>6 DEF IInv, WellFormed, TypeOK, Tag, Number
<1>9. ListedStored'
  BY <1>4, <1>5 DEF IInv, ListedStored
<1>10. ActiveSorted'
  <2>1. Len(active) \in Nat /\ DOMAIN active = 1..Len(active)
    BY <1>1, TagListFacts
  <2>2. \A i \in DOMAIN active : active[i].hi < next
    BY <1>1 DEF IInv, WellFormed
  <2> QED
    BY <2>1, <2>2, <1>1, <1>2, <1>5 DEF IInv, ActiveSorted, Sorted
<1>11. Selected' /\ Placed'
  BY <1>1, <1>6 DEF Selected, Placed
<1>12. Complete'
  <2> SUFFICES ASSUME NEW n \in Number, n < next + 1
               PROVE  n \in hidden' \/ \E t \in Shown' : n \in Nums(t)
    BY <1>6 DEF Complete
  <2>1. Shown' = Shown \cup {new}
    BY <1>5, <1>6 DEF Shown
  <2>2. CASE n = next
    BY <2>1, <2>2, <1>1, <1>2 DEF Nums
  <2>3. CASE n < next
    BY <2>1, <2>3, <1>6 DEF IInv, Complete
  <2> QED
    BY <2>2, <2>3, <1>1 DEF Number
<1>13. Status'
  BY <1>1, <1>3, <1>4, <1>5, <1>6 DEF IInv, Status, ListedStored
<1>14. LeafAccessible'
  BY <1>1, <1>4, <1>6 DEF IInv, LeafAccessible, Number
<1> QED
  BY <1>7, <1>8, <1>9, <1>10, <1>11, <1>12, <1>13, <1>14 DEF IInv

(* A listed tag is well formed.                                            *)
LEMMA ListedFacts ==
  ASSUME IInv
  PROVE  /\ active \in Seq(Tag) /\ Len(active) \in Nat /\ DOMAIN active = 1..Len(active)
         /\ Listed = Elems(active)
         /\ \A i \in DOMAIN active : /\ active[i] \in Listed /\ active[i] \in DOMAIN byTag
                                     /\ active[i] \in Tag /\ active[i].lo \in Nat
                                     /\ active[i].hi \in Nat /\ active[i].lo <= active[i].hi
<1>1. /\ active \in Seq(Tag) /\ Len(active) \in Nat /\ DOMAIN active = 1..Len(active)
      /\ \A i \in DOMAIN active : active[i] \in Tag /\ active[i].lo \in Nat /\ active[i].hi \in Nat
  BY TagListFacts DEF IInv, TypeOK
<1>2. Listed = Elems(active)
  BY DEF Listed, Elems
<1>3. \A i \in DOMAIN active : active[i] \in Listed /\ active[i] \in DOMAIN byTag
  BY DEF Listed, IInv, ListedStored
<1> QED
  BY <1>1, <1>2, <1>3 DEF IInv, WellFormed

LEMMA CollapseIInv ==
  ASSUME IInv, NEW s \in Number, NEW e \in Number, Collapse(s, e)
  PROVE  IInv'
<1> DEFINE tags == {t \in Listed : Overlaps(t, s, e)}
<1>1. PICK k \in DOMAIN active :
        /\ IsFirst(active, tags, k)
        /\ op' = [Idle EXCEPT !.phase = "archiving", !.tags = tags,
                              !.todo = tags, !.first = active[k].lo]
  BY DEF Collapse
<1>2. UNCHANGED <<active, byTag, next, removed, hidden>> /\ op.phase = "idle"
  BY DEF Collapse
<1>3. /\ op'.phase = "archiving" /\ op'.tags = tags /\ op'.todo = tags
      /\ op'.first = active[k].lo /\ op'.at = 0 /\ op'.sum = Leaf(1)
  BY <1>1 DEF Idle
<1>4. active \in Seq(Tag) /\ DOMAIN active = 1..Len(active) /\ Len(active) \in Nat
  BY ListedFacts
<1>5. \A i \in DOMAIN active : /\ active[i] \in DOMAIN byTag /\ active[i] \in Tag
                               /\ active[i].lo \in Nat /\ active[i].hi \in Nat
                               /\ active[i].lo <= active[i].hi
  BY ListedFacts
<1>6. s \in Nat /\ e \in Nat
  BY DEF Number
<1>7. Sorted(active)
  BY <1>2 DEF IInv, ActiveSorted
<1>8. tags \subseteq Listed /\ Listed \subseteq DOMAIN byTag /\ DOMAIN byTag \subseteq Tag
  BY DEF IInv, ListedStored, TypeOK
<1>9. TypeOK'
  <2>1. Leaf(1) \in Tag
    BY MaxTagAssumption DEF Leaf, Tag, Number
  <2>2. op' \in [phase : {"idle", "archiving", "stored", "placing"},
                 tags : SUBSET Tag, todo : SUBSET Tag, first : Nat, at : Nat, sum : Tag]
    BY <1>1, <1>5, <1>8, <2>1 DEF Idle
  <2> QED
    BY <2>2, <1>2 DEF IInv, TypeOK
<1>10. active[k] \in tags /\ \A j \in 1..(k - 1) : active[j] \notin tags
  BY <1>1 DEF IsFirst
<1>11. Selected'
  <2>1. op'.todo = op'.tags \cap Listed'
    BY <1>2, <1>3 DEF Listed
  <2>2. IsLeast({t.lo : t \in tags}, active[k].lo)
    <3> SUFFICES ASSUME NEW j \in DOMAIN active, active[j] \in tags
                 PROVE  active[k].lo <= active[j].lo
      BY <1>10 DEF IsLeast, Listed
    <3>1. k <= j
      BY <1>4, <1>10
    <3>2. CASE k = j
      BY <3>2, <1>5
    <3>3. CASE k < j
      BY <3>3, <1>5, <1>7 DEF Sorted
    <3> QED
      BY <3>1, <3>2, <3>3, <1>4
  <2>3. ASSUME NEW t \in Listed \ tags
        PROVE  (\A u \in tags : t.hi < u.lo) \/ (\A u \in tags : u.hi < t.lo)
    <3>1. PICK i \in DOMAIN active : active[i] = t
      BY <2>3 DEF Listed
    <3>2. \/ t.lo > e
          \/ t.hi < s
      BY <3>1, <2>3, <1>5, <1>6 DEF Overlaps
    <3>3. \A j \in DOMAIN active : active[j] \in tags => active[j].lo <= e /\ s <= active[j].hi
      BY <1>5, <1>6 DEF Overlaps
    <3>4. CASE t.lo > e
      <4> SUFFICES ASSUME NEW j \in DOMAIN active, active[j] \in tags
                   PROVE  active[j].hi < t.lo
        BY DEF Listed
      <4>1. ~(i < j)
        BY <3>1, <3>3, <3>4, <1>5, <1>6, <1>7 DEF Sorted
      <4>2. i # j
        BY <3>1, <2>3
      <4> QED
        BY <4>1, <4>2, <3>1, <1>4, <1>7 DEF Sorted
    <3>5. CASE t.hi < s
      <4> SUFFICES ASSUME NEW j \in DOMAIN active, active[j] \in tags
                   PROVE  t.hi < active[j].lo
        BY DEF Listed
      <4>1. ~(j < i)
        BY <3>1, <3>3, <3>5, <1>5, <1>6, <1>7 DEF Sorted
      <4>2. i # j
        BY <3>1, <2>3
      <4> QED
        BY <4>1, <4>2, <3>1, <1>4, <1>7 DEF Sorted
    <3> QED
      BY <3>2, <3>4, <3>5
  <2>4. tags # {} /\ tags \subseteq DOMAIN byTag
    BY <1>8, <1>10
  <2>5. Listed' = Listed
    BY <1>2 DEF Listed
  <2> HIDE DEF tags
  <2> QED
    BY <2>1, <2>2, <2>3, <2>4, <2>5, <1>2, <1>3 DEF Selected
<1>12. Listed' = Listed
  BY <1>2 DEF Listed
<1>13. WellFormed' /\ ListedStored' /\ ActiveSorted' /\ LeafAccessible'
  BY <1>2, <1>3, <1>12
  DEF IInv, WellFormed, ListedStored, ActiveSorted, Sorted, LeafAccessible
<1>14. Placed'
  BY <1>3 DEF Placed
<1>15. Complete'
  <2>1. Shown \subseteq Shown'
    BY <1>2, <1>12 DEF Shown
  <2> QED
    BY <2>1, <1>2 DEF IInv, Complete
<1>16. Status'
  BY <1>2, <1>3, <1>12 DEF IInv, Status
<1> QED
  BY <1>9, <1>11, <1>13, <1>14, <1>15, <1>16 DEF IInv

LEMMA ArchiveIInv == IInv /\ ArchiveNext => IInv'
<1> SUFFICES ASSUME IInv, ArchiveNext PROVE IInv'
  OBVIOUS
<1>1. PICK k \in DOMAIN active :
        /\ IsFirst(active, op.todo, k)
        /\ byTag'  = Archived(active[k])
        /\ active' = RemoveIndex(active, k)
        /\ op'     = [op EXCEPT !.todo = @ \ {active[k]}]
  BY DEF ArchiveNext
<1> DEFINE t == active[k]
<1>2. op.phase = "archiving" /\ UNCHANGED <<next, removed, hidden>>
  BY DEF ArchiveNext
<1>3. /\ op'.phase = "archiving" /\ op'.tags = op.tags /\ op'.todo = op.todo \ {t}
      /\ op'.first = op.first /\ op'.sum = op.sum /\ op'.at = op.at
  BY <1>1, <1>2 DEF IInv, TypeOK
<1>4. t \in op.todo /\ t \in op.tags /\ t \in Listed /\ t \in DOMAIN byTag /\ t \in Tag
  <2>1. t \in op.todo
    BY <1>1 DEF IsFirst
  <2> QED
    BY <2>1, <1>2, ListedFacts DEF IInv, Selected
<1>5. /\ active' \in Seq(Tag) /\ Sorted(active') /\ Listed' = Listed \ {t}
  <2>1. active \in Seq(Tag) /\ Sorted(active) /\ \A i \in DOMAIN active : active[i].lo <= active[i].hi
    BY ListedFacts, <1>2 DEF IInv, ActiveSorted
  <2> QED
    BY <2>1, <1>1, SortedRemove DEF Listed, Elems
<1>6. /\ DOMAIN byTag' = DOMAIN byTag
      /\ byTag'[t] = [byTag[t] EXCEPT !.status = "archived"]
      /\ \A u \in DOMAIN byTag : u # t => byTag'[u] = byTag[u]
      /\ byTag' = [u \in DOMAIN byTag |-> byTag'[u]]
  BY <1>1, <1>4 DEF Archived
<1>7. TypeOK'
  <2>1. \A u \in DOMAIN byTag : byTag[u] \in Event
    BY DEF IInv, TypeOK
  <2>2. byTag'[t] \in Event /\ byTag'[t].status = "archived"
    BY <1>4, <1>6, <2>1 DEF Event
  <2>3. byTag' \in [DOMAIN byTag' -> Event]
    BY <2>1, <2>2, <1>6
  <2>4. op' \in [phase : {"idle", "archiving", "stored", "placing"},
                 tags : SUBSET Tag, todo : SUBSET Tag, first : Nat, at : Nat, sum : Tag]
    BY <1>1 DEF IInv, TypeOK
  <2> QED
    BY <2>3, <2>4, <1>2, <1>5, <1>6 DEF IInv, TypeOK
<1>8. WellFormed' /\ LeafAccessible' /\ ListedStored' /\ ActiveSorted'
  BY <1>2, <1>5, <1>6
  DEF IInv, WellFormed, LeafAccessible, ListedStored, ActiveSorted
<1>9. Selected'
  <2>1. Listed' \ op.tags \subseteq Listed \ op.tags /\ op.todo \ {t} = op.tags \cap Listed'
    BY <1>2, <1>5 DEF IInv, Selected
  <2> QED
    BY <2>1, <1>2, <1>3, <1>6 DEF IInv, Selected
<1>10. Placed'
  BY <1>3 DEF Placed
<1>11. Complete'
  <2>1. Shown \subseteq Shown'
    BY <1>2, <1>3, <1>4, <1>5 DEF Shown
  <2> QED
    BY <2>1, <1>2 DEF IInv, Complete
<1>12. Status'
  <2> SUFFICES ASSUME NEW u \in DOMAIN byTag
               PROVE  (byTag'[u].status = "active") <=> u \in Listed'
    BY <1>3, <1>6 DEF Status
  <2>1. CASE u = t
    <3>1. byTag'[u].status = "archived"
      BY <2>1, <1>4, <1>6 DEF IInv, TypeOK, Event
    <3> QED
      BY <3>1, <2>1, <1>5
  <2>2. CASE u # t
    BY <2>2, <1>2, <1>5, <1>6 DEF IInv, Status
  <2> QED
    BY <2>1, <2>2
<1> QED
  BY <1>7, <1>8, <1>9, <1>10, <1>11, <1>12 DEF IInv

LEMMA StoreIInv == IInv /\ StoreSummary => IInv'
<1> SUFFICES ASSUME IInv, StoreSummary PROVE IInv'
  OBVIOUS
<1>1. PICK lo \in Number, hi \in Number, k \in 0..Len(active) :
        /\ IsHull(op.tags, lo, hi)
        /\ InsertIndex(k)
        /\ LET sum == [lo |-> lo, hi |-> hi, range |-> TRUE]
           IN /\ byTag'  = [t \in DOMAIN byTag \cup {sum} |->
                              IF t = sum THEN [status |-> "active", children |-> op.tags]
                              ELSE byTag[t]]
              /\ active' = Append(active, sum)
              /\ next'   = IF next > hi THEN next ELSE hi + 1
              /\ op'     = [op EXCEPT !.phase = "stored", !.at = k, !.sum = sum]
  BY DEF StoreSummary
<1> DEFINE sum == [lo |-> lo, hi |-> hi, range |-> TRUE]
<1>2. op.phase = "archiving" /\ op.todo = {} /\ UNCHANGED <<removed, hidden>>
  BY DEF StoreSummary
<1>3. /\ op'.phase = "stored" /\ op'.tags = op.tags /\ op'.todo = op.todo
      /\ op'.first = op.first /\ op'.sum = sum /\ op'.at = k
  BY <1>1, <1>2 DEF IInv, TypeOK
<1>4. /\ op.tags # {} /\ op.tags \subseteq DOMAIN byTag /\ op.tags \cap Listed = {}
      /\ IsLeast({t.lo : t \in op.tags}, op.first)
      /\ \A t \in Listed : \/ \A u \in op.tags : t.hi < u.lo
                           \/ \A u \in op.tags : u.hi < t.lo
  BY <1>2 DEF IInv, Selected
<1>5. \A u \in op.tags : u \in Tag /\ u.lo \in Nat /\ u.hi \in Nat /\ u.lo <= u.hi /\ u.hi < next
  BY <1>4, MaxTagAssumption DEF IInv, TypeOK, WellFormed, Tag, Number
<1>6. /\ \E u \in op.tags : u.lo = lo
      /\ \E u \in op.tags : u.hi = hi
      /\ \A u \in op.tags : lo <= u.lo /\ u.hi <= hi
      /\ lo \in Nat /\ hi \in Nat /\ lo <= hi /\ hi < next /\ op.first = lo
  <2>1. /\ \E u \in op.tags : u.lo = lo
        /\ \E u \in op.tags : u.hi = hi
        /\ \A u \in op.tags : lo <= u.lo /\ u.hi <= hi
    BY <1>1 DEF IsHull, IsLeast, IsGreatest
  <2>2. lo \in Nat /\ hi \in Nat
    BY DEF Number
  <2>3. op.first \in Nat /\ (\E u \in op.tags : u.lo = op.first)
        /\ \A u \in op.tags : op.first <= u.lo
    BY <1>4 DEF IsLeast, IInv, TypeOK
  <2> QED
    BY <2>1, <2>2, <2>3, <1>5
<1>7. sum \in Tag /\ sum.lo = lo /\ sum.hi = hi
  BY DEF Tag
<1>8. next' = next
  BY <1>1, <1>6 DEF IInv, TypeOK
<1>9. /\ DOMAIN byTag' = DOMAIN byTag \cup {sum}
      /\ byTag'[sum] = [status |-> "active", children |-> op.tags]
      /\ \A t \in DOMAIN byTag : t # sum => byTag'[t] = byTag[t]
      /\ byTag' = [t \in DOMAIN byTag' |-> byTag'[t]]
  BY <1>1
<1>10. /\ active \in Seq(Tag) /\ Len(active) \in Nat /\ DOMAIN active = 1..Len(active)
       /\ \A i \in DOMAIN active : /\ active[i] \in Listed
                                   /\ active[i].lo \in Nat /\ active[i].hi \in Nat
                                   /\ active[i].lo <= active[i].hi
       /\ Sorted(active)
  BY ListedFacts, <1>2 DEF IInv, ActiveSorted
<1>11. /\ active' \in Seq(Tag) /\ Listed' = Listed \cup {sum}
       /\ DOMAIN active' = 1..(Len(active) + 1) /\ Len(active') = Len(active) + 1
       /\ \A i \in 1..Len(active) : active'[i] = active[i]
       /\ active'[Len(active) + 1] = sum
  BY <1>1, <1>7, <1>10, AppendTagFacts DEF Listed, Elems
<1>12. TypeOK'
  <2>1. byTag'[sum] \in Event
    BY <1>4, <1>9 DEF Event, IInv, TypeOK
  <2>2. \A t \in DOMAIN byTag : byTag[t] \in Event
    BY DEF IInv, TypeOK
  <2>3. byTag' \in [DOMAIN byTag' -> Event] /\ DOMAIN byTag' \subseteq Tag
    BY <2>1, <2>2, <1>7, <1>9 DEF IInv, TypeOK
  <2>4. op' \in [phase : {"idle", "archiving", "stored", "placing"},
                 tags : SUBSET Tag, todo : SUBSET Tag, first : Nat, at : Nat, sum : Tag]
    <3>1. op' = [op EXCEPT !.phase = "stored", !.at = k, !.sum = sum]
      BY <1>1
    <3>2. k \in Nat
      BY <1>10
    <3> HIDE DEF sum
    <3> QED
      BY <3>1, <3>2, <1>7 DEF IInv, TypeOK
  <2> QED
    BY <2>3, <2>4, <1>2, <1>8, <1>11 DEF IInv, TypeOK
<1>13. WellFormed' /\ LeafAccessible' /\ ListedStored'
  BY <1>2, <1>6, <1>7, <1>8, <1>9, <1>11 DEF IInv, WellFormed, LeafAccessible, ListedStored
<1>14. ActiveSorted' /\ Selected'
  BY <1>3 DEF ActiveSorted, Selected
<1>15. \A i \in DOMAIN active : /\ i <= k => active[i].hi < lo
                                /\ k < i => hi < active[i].lo
  <2> SUFFICES ASSUME NEW i \in DOMAIN active
               PROVE  /\ i <= k => active[i].hi < lo
                      /\ k < i => hi < active[i].lo
    OBVIOUS
  <2>1. \/ active[i].hi < lo
        \/ hi < active[i].lo
    BY <1>4, <1>6, <1>10
  <2>2. i <= k => active[i].lo <= lo
    BY <1>1, <1>6, <1>10 DEF InsertIndex
  <2>3. k < i => active[i].lo > lo
    <3> SUFFICES ASSUME k < i PROVE active[i].lo > lo
      OBVIOUS
    <3>1. k + 1 \in DOMAIN active /\ active[k + 1].lo > lo
      BY <1>1, <1>6, <1>10 DEF InsertIndex
    <3>2. CASE i = k + 1
      BY <3>1, <3>2
    <3>3. CASE k + 1 < i
      BY <3>1, <3>3, <1>6, <1>10 DEF Sorted
    <3> QED
      BY <3>2, <3>3, <1>10
  <2> QED
    BY <2>1, <2>2, <2>3, <1>6, <1>10
<1>16. Placed'
  <2>1. Others' = DOMAIN active
    BY <1>3, <1>10, <1>11 DEF Others
  <2>2. \A i, j \in DOMAIN active : i < j => active'[i].hi < active'[j].lo
    BY <1>10, <1>11 DEF Sorted
  <2>3. \A i \in DOMAIN active : /\ i <= k => active'[i].hi < lo
                                 /\ k < i => hi < active'[i].lo
    BY <1>10, <1>11, <1>15
  <2>4. op'.phase = "stored" => Len(active') > 0 /\ active'[Len(active')] = sum
    BY <1>10, <1>11
  <2>5. k <= Len(active') - 1
    BY <1>10, <1>11
  <2> HIDE DEF sum
  <2> QED
    BY <2>1, <2>2, <2>3, <2>4, <2>5, <1>3, <1>7, <1>9 DEF Placed
<1>17. Complete'
  <2> SUFFICES ASSUME NEW n \in Number, n < next
               PROVE  n \in hidden \/ \E t \in Shown' : n \in Nums(t)
    BY <1>2, <1>8 DEF Complete
  <2>1. n \in hidden \/ \E t \in Listed \cup op.tags : n \in Nums(t)
    BY <1>2 DEF IInv, Complete, Shown
  <2>2. Shown' = Listed \cup {sum}
    BY <1>3, <1>11 DEF Shown
  <2>3. \A t \in op.tags : n \in Nums(t) => n \in Nums(sum)
    BY <1>5, <1>6, <1>7 DEF Nums
  <2> QED
    BY <2>1, <2>2, <2>3
<1>18. Status'
  <2> SUFFICES ASSUME NEW t \in DOMAIN byTag'
               PROVE  (byTag'[t].status = "active") <=> t \in Listed'
    BY <1>3 DEF Status
  <2>1. CASE t = sum
    <3>1. byTag'[t].status = "active" /\ t \in Listed'
      BY <2>1, <1>9, <1>11
    <3> QED
      BY <3>1
  <2>2. CASE t # sum
    <3> HIDE DEF sum
    <3>1. t \in DOMAIN byTag /\ byTag'[t] = byTag[t]
      BY <2>2, <1>9
    <3> QED
      BY <3>1, <2>2, <1>2, <1>11 DEF IInv, Status
  <2> QED
    BY <2>1, <2>2
<1> QED
  BY <1>12, <1>13, <1>14, <1>16, <1>17, <1>18 DEF IInv

(* The Summary was stored at the end of the list, and nowhere else.        *)
LEMMA UnlistIInv == IInv /\ UnlistSummary => IInv'
<1> SUFFICES ASSUME IInv, UnlistSummary PROVE IInv'
  OBVIOUS
<1>1. /\ op.phase = "stored" /\ active' = Unlist(active, op.sum)
      /\ op' = [op EXCEPT !.phase = "placing"]
      /\ UNCHANGED <<byTag, next, removed, hidden>>
  BY DEF UnlistSummary
<1>2. /\ op'.phase = "placing" /\ op'.sum = op.sum /\ op'.at = op.at
  BY <1>1 DEF IInv, TypeOK
<1>3. /\ active \in Seq(Tag) /\ Len(active) \in Nat /\ DOMAIN active = 1..Len(active)
      /\ \A i \in DOMAIN active : /\ active[i].lo \in Nat /\ active[i].hi \in Nat
                                  /\ active[i].lo <= active[i].hi
  BY ListedFacts
<1> DEFINE n == Len(active)
<1>4. /\ n > 0 /\ active[n] = op.sum /\ op.sum \in DOMAIN byTag /\ op.at <= n - 1
      /\ \A i, j \in 1..(n - 1) : i < j => active[i].hi < active[j].lo
      /\ \A i \in 1..(n - 1) : /\ i <= op.at => active[i].hi < op.sum.lo
                               /\ op.at < i  => op.sum.hi < active[i].lo
  BY <1>1 DEF IInv, Placed, Others
<1>5. op.sum \in Tag /\ op.sum.lo \in Nat /\ op.sum.hi \in Nat /\ op.sum.lo <= op.sum.hi
  BY <1>3, <1>4 DEF IInv, TypeOK
<1>6. op.at \in Nat
  BY DEF IInv, TypeOK
<1>7. \A i \in 1..(n - 1) : active[i] # op.sum
  BY <1>3, <1>4, <1>5, <1>6
<1>8. active' = RemoveIndex(active, n)
  <2>1. n \in DOMAIN active /\ \A j \in DOMAIN active : active[j] = active[n] => j = n
    BY <1>3, <1>4, <1>7
  <2> QED
    BY <2>1, <1>1, <1>3, <1>4, UnlistFacts
<1>9. /\ active' \in Seq(Tag) /\ Len(active') = n - 1 /\ DOMAIN active' = 1..(n - 1)
      /\ \A i \in 1..(n - 1) : active'[i] = active[i]
  <2>1. n \in 1..Len(active)
    BY <1>3, <1>4
  <2>2. /\ RemoveIndex(active, n) \in Seq(Tag)
        /\ Len(RemoveIndex(active, n)) = Len(active) - 1
        /\ DOMAIN RemoveIndex(active, n) = 1..(Len(active) - 1)
        /\ \A i \in 1..(Len(active) - 1) :
             RemoveIndex(active, n)[i] = IF i < n THEN active[i] ELSE active[i + 1]
    BY <2>1, <1>3, RemoveIndexFacts
  <2> QED
    BY <2>2, <1>3, <1>8
<1>10. Listed' = Listed \ {op.sum} /\ op.sum \in Listed
  <2>1. /\ DOMAIN active = 1..(n - 1) \cup {n}
        /\ n \in DOMAIN active
    BY <1>3, <1>4
  <2>2. Listed = {active[i] : i \in 1..(n - 1)} \cup {op.sum}
    BY <2>1, <1>4 DEF Listed
  <2>3. Listed' = {active[i] : i \in 1..(n - 1)}
    BY <1>9 DEF Listed
  <2>4. op.sum \notin {active[i] : i \in 1..(n - 1)}
    BY <1>7
  <2> HIDE DEF n
  <2> QED
    BY <2>2, <2>3, <2>4
<1>11. TypeOK'
  BY <1>1, <1>9 DEF IInv, TypeOK
<1>12. WellFormed' /\ LeafAccessible' /\ ListedStored'
  BY <1>1, <1>10 DEF IInv, WellFormed, LeafAccessible, ListedStored
<1>13. ActiveSorted'
  BY <1>4, <1>9 DEF ActiveSorted, Sorted
<1>14. Selected'
  BY <1>2 DEF Selected
<1>15. Placed'
  <2>1. Others' = 1..(n - 1)
    BY <1>2, <1>9 DEF Others
  <2> QED
    BY <2>1, <1>1, <1>2, <1>4, <1>9 DEF Placed
<1>16. Complete'
  <2>1. Shown' = Shown
    BY <1>1, <1>2, <1>10 DEF Shown
  <2> QED
    BY <2>1, <1>1 DEF IInv, Complete
<1>17. Status'
  BY <1>1, <1>2, <1>10 DEF IInv, Status
<1> QED
  BY <1>11, <1>12, <1>13, <1>14, <1>15, <1>16, <1>17 DEF IInv

LEMMA PlaceIInv == IInv /\ PlaceSummary => IInv'
<1> SUFFICES ASSUME IInv, PlaceSummary PROVE IInv'
  OBVIOUS
<1>1. /\ op.phase = "placing" /\ active' = InsertAfter(active, op.at, op.sum)
      /\ op' = Idle /\ UNCHANGED <<byTag, next, removed, hidden>>
  BY DEF PlaceSummary
<1>2. op'.phase = "idle"
  BY <1>1 DEF Idle
<1>3. /\ active \in Seq(Tag) /\ Len(active) \in Nat /\ DOMAIN active = 1..Len(active)
      /\ \A i \in DOMAIN active : /\ active[i].lo \in Nat /\ active[i].hi \in Nat
                                  /\ active[i].lo <= active[i].hi
  BY ListedFacts
<1>4. /\ op.sum \in DOMAIN byTag /\ op.at \in 0..Len(active)
      /\ \A i, j \in DOMAIN active : i < j => active[i].hi < active[j].lo
      /\ \A i \in DOMAIN active : /\ i <= op.at => active[i].hi < op.sum.lo
                                  /\ op.at < i  => op.sum.hi < active[i].lo
  BY <1>1, <1>3 DEF IInv, Placed, Others, TypeOK
<1>5. op.sum \in Tag /\ op.sum.lo \in Nat /\ op.sum.hi \in Nat
  <2>1. op.sum \in Tag
    BY <1>4 DEF IInv, TypeOK
  <2> QED
    BY <2>1, MaxTagAssumption DEF Tag, Number
<1>6. /\ active' \in Seq(Tag) /\ DOMAIN active' = 1..(Len(active) + 1)
      /\ \A i \in 1..(Len(active) + 1) :
           active'[i] = IF i <= op.at THEN active[i]
                        ELSE IF i = op.at + 1 THEN op.sum ELSE active[i - 1]
  <2> DEFINE at == op.at
             sum == op.sum
  <2>1. at \in 0..Len(active) /\ sum \in Tag /\ active \in Seq(Tag)
    BY <1>3, <1>4, <1>5
  <2>2. active' = InsertAfter(active, at, sum)
    BY <1>1
  <2> HIDE DEF at, sum
  <2>3. /\ InsertAfter(active, at, sum) \in Seq(Tag)
        /\ DOMAIN InsertAfter(active, at, sum) = 1..(Len(active) + 1)
        /\ \A i \in 1..(Len(active) + 1) :
             InsertAfter(active, at, sum)[i] =
               IF i <= at THEN active[i] ELSE IF i = at + 1 THEN sum ELSE active[i - 1]
    BY <2>1, InsertAfterFacts
  <2> QED
    BY <2>2, <2>3 DEF at, sum
<1>7. Listed' = Listed \cup {op.sum}
  <2>1. Elems(InsertAfter(active, op.at, op.sum)) = Elems(active) \cup {op.sum}
    <3> DEFINE at == op.at
               sum == op.sum
    <3>1. at \in 0..Len(active) /\ sum \in Tag /\ active \in Seq(Tag)
      BY <1>3, <1>4, <1>5
    <3> HIDE DEF at, sum
    <3>2. Elems(InsertAfter(active, at, sum)) = Elems(active) \cup {sum}
      BY <3>1, InsertTagFacts
    <3> QED
      BY <3>2 DEF at, sum
  <2> QED
    BY <2>1, <1>1 DEF Listed, Elems
<1>8. TypeOK'
  <2>1. Leaf(1) \in Tag
    BY MaxTagAssumption DEF Leaf, Tag, Number
  <2>2. op' \in [phase : {"idle", "archiving", "stored", "placing"},
                 tags : SUBSET Tag, todo : SUBSET Tag, first : Nat, at : Nat, sum : Tag]
    BY <1>1, <2>1 DEF Idle
  <2> QED
    BY <2>2, <1>1, <1>6 DEF IInv, TypeOK
<1>9. WellFormed' /\ LeafAccessible' /\ ListedStored'
  BY <1>1, <1>4, <1>7 DEF IInv, WellFormed, LeafAccessible, ListedStored
<1>10. ActiveSorted'
  <2> SUFFICES ASSUME NEW i \in 1..(Len(active) + 1), NEW j \in 1..(Len(active) + 1), i < j
               PROVE  active'[i].hi < active'[j].lo
    BY <1>6 DEF ActiveSorted, Sorted
  <2>1. CASE j <= op.at
    <3>1. /\ i \in DOMAIN active /\ j \in DOMAIN active
          /\ active'[i] = active[i] /\ active'[j] = active[j]
      BY <2>1, <1>3, <1>4, <1>6
    <3> QED
      BY <3>1, <1>4
  <2>2. CASE j = op.at + 1
    <3>1. i \in DOMAIN active /\ i <= op.at /\ active'[i] = active[i] /\ active'[j] = op.sum
      BY <2>2, <1>3, <1>4, <1>6
    <3> QED
      BY <3>1, <1>4
  <2>3. CASE j > op.at + 1
    <3>1. j - 1 \in DOMAIN active /\ op.at < j - 1 /\ active'[j] = active[j - 1]
      BY <2>3, <1>3, <1>4, <1>6
    <3>2. CASE i <= op.at
      <4>1. i \in DOMAIN active /\ i < j - 1 /\ active'[i] = active[i]
        BY <2>3, <3>2, <1>3, <1>4, <1>6
      <4> QED
        BY <3>1, <4>1, <1>4
    <3>3. CASE i = op.at + 1
      <4>1. active'[i] = op.sum
        BY <3>3, <1>4, <1>6
      <4> QED
        BY <3>1, <4>1, <1>4
    <3>4. CASE i > op.at + 1
      <4>1. i - 1 \in DOMAIN active /\ i - 1 < j - 1 /\ active'[i] = active[i - 1]
        BY <3>4, <1>3, <1>4, <1>6
      <4> QED
        BY <3>1, <4>1, <1>4
    <3> QED
      BY <3>2, <3>3, <3>4, <1>4
  <2> QED
    BY <2>1, <2>2, <2>3, <1>4
<1>11. Selected' /\ Placed'
  BY <1>2 DEF Selected, Placed
<1>12. Complete'
  <2>1. Shown' = Shown
    BY <1>1, <1>2, <1>7 DEF Shown
  <2> QED
    BY <2>1, <1>1 DEF IInv, Complete
<1>13. Status'
  BY <1>1, <1>2, <1>7 DEF IInv, Status
<1> QED
  BY <1>8, <1>9, <1>10, <1>11, <1>12, <1>13 DEF IInv

LEMMA RemoveIInv ==
  ASSUME IInv, NEW t \in Tag, Remove(t)
  PROVE  IInv'
<1>1. /\ op.phase = "idle" /\ t \in DOMAIN byTag
      /\ byTag'   = [u \in DOMAIN byTag \ {t} |-> byTag[u]]
      /\ active'  = Unlist(active, t)
      /\ removed' = removed \cup {t}
      /\ hidden'  = IF t \in Listed THEN hidden \cup Nums(t) ELSE hidden
      /\ UNCHANGED <<next, op>>
  BY DEF Remove
<1>2. active' \in Seq(Tag) /\ Sorted(active') /\ Listed' = Listed \ {t}
  <2>1. active \in Seq(Tag) /\ Sorted(active) /\ \A i \in DOMAIN active : active[i].lo <= active[i].hi
    BY <1>1, ListedFacts DEF IInv, ActiveSorted
  <2> QED
    BY <2>1, <1>1, SortedUnlist DEF Listed, Elems
<1>3. Nums(t) \subseteq Number
  BY MaxTagAssumption DEF Nums, Tag, Number
<1>4. TypeOK'
  <2>1. byTag' \in [DOMAIN byTag' -> Event] /\ DOMAIN byTag' \subseteq Tag
    BY <1>1 DEF IInv, TypeOK
  <2>2. removed' \subseteq Tag /\ hidden' \subseteq Number
    BY <1>1, <1>3 DEF IInv, TypeOK
  <2> QED
    BY <2>1, <2>2, <1>1, <1>2 DEF IInv, TypeOK
<1>5. WellFormed' /\ LeafAccessible' /\ ListedStored' /\ ActiveSorted'
  BY <1>1, <1>2
  DEF IInv, WellFormed, LeafAccessible, ListedStored, ActiveSorted
<1>6. Selected' /\ Placed'
  BY <1>1 DEF Selected, Placed
<1>7. Complete'
  <2> SUFFICES ASSUME NEW n \in Number, n < next
               PROVE  n \in hidden' \/ \E u \in Listed' : n \in Nums(u)
    BY <1>1 DEF Complete, Shown
  <2>1. n \in hidden \/ \E u \in Listed : n \in Nums(u)
    BY <1>1 DEF IInv, Complete, Shown
  <2> QED
    BY <2>1, <1>1, <1>2
<1>8. Status'
  BY <1>1, <1>2 DEF IInv, Status
<1> QED
  BY <1>4, <1>5, <1>6, <1>7, <1>8 DEF IInv

LEMMA ClearIInv == IInv /\ Clear => IInv'
<1> SUFFICES ASSUME IInv, Clear PROVE IInv'
  OBVIOUS
<1>1. /\ op.phase = "idle" /\ op' = op /\ active' = <<>> /\ DOMAIN byTag' = {} /\ next' = 1
      /\ removed' = {} /\ hidden' = {}
  BY DEF Clear
<1>2. active' \in Seq(Tag) /\ DOMAIN active' = {} /\ Listed' = {}
  BY <1>1 DEF Listed
<1>3. TypeOK'
  <2>1. byTag' \in [DOMAIN byTag' -> Event]
    BY <1>1 DEF Clear
  <2> QED
    BY <2>1, <1>1, <1>2, MaxTagAssumption DEF IInv, TypeOK
<1>4. \A n \in Number : ~(n < next')
  BY <1>1 DEF Number
<1> QED
  BY <1>1, <1>2, <1>3, <1>4
  DEF IInv, WellFormed, ListedStored, ActiveSorted, Sorted, Selected, Placed, Complete,
      Status, LeafAccessible

LEMMA StepIInv == IInv /\ [Next]_vars => IInv'
<1> SUFFICES ASSUME IInv, [Next]_vars PROVE IInv'
  OBVIOUS
<1>1. CASE Add
  BY <1>1, AddIInv
<1>2. ASSUME NEW s \in Number, NEW e \in Number, Collapse(s, e) PROVE IInv'
  BY <1>2, CollapseIInv
<1>3. CASE CollapseStep
  BY <1>3, ArchiveIInv, StoreIInv, UnlistIInv, PlaceIInv DEF CollapseStep
<1>4. ASSUME NEW t \in Tag, Remove(t) PROVE IInv'
  BY <1>4, RemoveIInv
<1>5. CASE Clear
  BY <1>5, ClearIInv
<1>6. CASE UNCHANGED vars
  BY <1>6
  DEF vars, IInv, TypeOK, WellFormed, ListedStored, ActiveSorted, Sorted, Selected, Placed,
      Others, Complete, Shown, Status, LeafAccessible, Listed
<1> QED
  BY <1>1, <1>2, <1>3, <1>4, <1>5, <1>6 DEF Next

-----------------------------------------------------------------------------
(* The theorems.                                                           *)

(* The inductive invariant holds in every reachable state of the log.      *)
THEOREM Invariance == Spec => []IInv
<1> QED
  BY InitIInv, StepIInv, PTL DEF Spec

(* The log, the store and the collapse in progress stay well typed.        *)
THEOREM TypeCorrect == Spec => []TypeOK
<1>1. IInv => TypeOK
  BY DEF IInv
<1> QED
  BY <1>1, Invariance, PTL

(* However ranges are collapsed over each other, the tags the LLM sees are *)
(* in chronological order and do not meet (keys()).                        *)
THEOREM ViewIsSorted == Spec => []ActiveSorted
<1>1. IInv => ActiveSorted
  BY DEF IInv
<1> QED
  BY <1>1, Invariance, PTL

(* No collapse drops an event from the view: every number handed out is    *)
(* covered by a listed tag, or by one that remove() took out.              *)
THEOREM ViewIsComplete == Spec => []ViewComplete
<1>1. IInv => ViewComplete
  BY DEF IInv, Complete, Shown, ViewComplete
<1> QED
  BY <1>1, Invariance, PTL

(* manager["5"] is found as long as nobody removed event 5.                *)
THEOREM LeavesStay == Spec => []LeafAccessible
<1>1. IInv => LeafAccessible
  BY DEF IInv
<1> QED
  BY <1>1, Invariance, PTL

(* Between operations the status of a stored event says whether it is in   *)
(* the view.                                                               *)
THEOREM StatusIsView == Spec => []StatusMatchesView
<1>1. IInv => StatusMatchesView
  BY DEF IInv, ListedStored, Status, StatusMatchesView
<1> QED
  BY <1>1, Invariance, PTL

-----------------------------------------------------------------------------
(* Expanding Summaries.                                                    *)

(* Tags that share no number.                                              *)
Apart(tags) == \A c, d \in tags : c # d => c.hi < d.lo \/ d.hi < c.lo

(* The tags of a collapse under way lie apart.                             *)
Chosen == op.phase = "archiving" => Apart(op.tags)

(* The tags a Summary hides are stored, lie apart, and span the numbers    *)
(* that its own tag spans.                                                 *)
Spans(t, tags, stored) ==
  /\ tags \subseteq stored
  /\ Apart(tags)
  /\ \A n \in Nat : n \in Nums(t) <=> \E c \in tags : n \in Nums(c)

(* As long as nothing was removed, no number has left the view, and each   *)
(* stored tag is a leaf or spans what its children span.                   *)
Trees ==
  removed = {} =>
    /\ hidden = {}
    /\ \A t \in DOMAIN byTag : IF t.range THEN Spans(t, byTag[t].children, DOMAIN byTag)
                               ELSE t = Leaf(t.lo) /\ byTag[t].children = {}

(* Tags taken from the view lie apart.                                     *)
LEMMA ListedApart ==
  ASSUME IInv, op.phase # "stored"
  PROVE  Apart(Listed)
<1>1. Sorted(active)
  BY DEF IInv, ActiveSorted
<1>2. /\ DOMAIN active = 1..Len(active) /\ Len(active) \in Nat
      /\ \A i \in DOMAIN active : active[i].lo \in Nat /\ active[i].hi \in Nat
  BY ListedFacts
<1>3. ASSUME NEW i \in DOMAIN active, NEW j \in DOMAIN active, active[i] # active[j]
      PROVE  active[i].hi < active[j].lo \/ active[j].hi < active[i].lo
  <2>1. i < j \/ j < i
    BY <1>2, <1>3
  <2> QED
    BY <2>1, <1>1 DEF Sorted
<1> QED
  BY <1>3 DEF Apart, Listed

LEMMA InitChosen == Init => Chosen
BY DEF Init, Idle, Chosen

LEMMA StepChosen == ASSUME IInv, Chosen, [Next]_vars PROVE Chosen'
<1>1. ASSUME NEW s \in Number, NEW e \in Number, Collapse(s, e) PROVE Chosen'
  <2>1. op'.tags \subseteq Listed /\ op.phase = "idle"
    BY <1>1 DEF Collapse, Idle
  <2> QED
    BY <2>1, ListedApart DEF Apart, Chosen
<1>2. CASE ArchiveNext
  <2>1. op'.tags = op.tags /\ op.phase = "archiving"
    BY <1>2 DEF ArchiveNext, IInv, TypeOK
  <2> QED
    BY <2>1 DEF Chosen
<1>3. CASE StoreSummary
  <2>1. op'.phase = "stored"
    BY <1>3 DEF StoreSummary, IInv, TypeOK
  <2> QED
    BY <2>1 DEF Chosen
<1>4. CASE UnlistSummary
  <2>1. op'.phase = "placing"
    BY <1>4 DEF UnlistSummary, IInv, TypeOK
  <2> QED
    BY <2>1 DEF Chosen
<1>5. CASE PlaceSummary
  BY <1>5 DEF PlaceSummary, Idle, Chosen
<1>6. CASE UNCHANGED op
  BY <1>6 DEF Chosen
<1> QED
  BY <1>1, <1>2, <1>3, <1>4, <1>5, <1>6 DEF Next, CollapseStep, Add, Remove, Clear, vars

LEMMA InitTrees == Init => Trees
BY DEF Init, Trees

LEMMA AddTrees == ASSUME IInv, Trees, Add PROVE Trees'
<1> SUFFICES ASSUME removed = {}
             PROVE  /\ hidden' = {}
                    /\ \A t \in DOMAIN byTag' :
                         IF t.range THEN Spans(t, byTag'[t].children, DOMAIN byTag')
                         ELSE t = Leaf(t.lo) /\ byTag'[t].children = {}
  BY DEF Trees, Add
<1>1. /\ hidden' = {}
      /\ DOMAIN byTag' = DOMAIN byTag \cup {Leaf(next)}
      /\ byTag'[Leaf(next)] = [status |-> "active", children |-> {}]
      /\ \A t \in DOMAIN byTag : t # Leaf(next) => byTag'[t] = byTag[t]
  BY DEF Add, Trees
<1>2. ~Leaf(next).range /\ Leaf(next).lo = next
  BY DEF Leaf
<1>3. ASSUME NEW t \in DOMAIN byTag', t # Leaf(next)
      PROVE  IF t.range THEN Spans(t, byTag'[t].children, DOMAIN byTag')
             ELSE t = Leaf(t.lo) /\ byTag'[t].children = {}
  <2>1. t \in DOMAIN byTag /\ byTag'[t] = byTag[t]
    BY <1>1, <1>3
  <2>2. IF t.range THEN Spans(t, byTag[t].children, DOMAIN byTag)
        ELSE t = Leaf(t.lo) /\ byTag[t].children = {}
    BY <2>1 DEF Trees
  <2>3. CASE t.range
    BY <2>1, <2>2, <2>3, <1>1 DEF Spans
  <2>4. CASE ~t.range
    BY <2>1, <2>2, <2>4
  <2> QED
    BY <2>3, <2>4
<1>4. ASSUME NEW t \in DOMAIN byTag', t = Leaf(next)
      PROVE  ~t.range /\ t = Leaf(t.lo) /\ byTag'[t].children = {}
  <2>1. byTag'[t].children = {}
    BY <1>1, <1>4
  <2> QED
    BY <2>1, <1>2, <1>4
<1> QED
  BY <1>1, <1>3, <1>4

(* set_status() changes no children.                                       *)
LEMMA ArchiveTrees == ASSUME IInv, Trees, ArchiveNext PROVE Trees'
<1>1. PICK k \in DOMAIN active :
        byTag' = Archived(active[k]) /\ UNCHANGED <<removed, hidden>>
  BY DEF ArchiveNext
<1>2. DOMAIN byTag' = DOMAIN byTag
  BY <1>1 DEF Archived
<1>3. ASSUME NEW t \in DOMAIN byTag PROVE byTag'[t].children = byTag[t].children
  <2>1. byTag[t] \in Event
    BY DEF IInv, TypeOK
  <2> QED
    BY <1>1, <2>1 DEF Archived, Event
<1>4. ASSUME removed = {}, NEW t \in DOMAIN byTag, t.range
      PROVE  Spans(t, byTag'[t].children, DOMAIN byTag')
  <2>1. Spans(t, byTag[t].children, DOMAIN byTag)
    BY <1>4 DEF Trees
  <2> QED
    BY <2>1, <1>2, <1>3 DEF Spans
<1> QED
  BY <1>1, <1>2, <1>3, <1>4 DEF Trees

(* The collapsed tags span the hull of their ranges: what lies between two *)
(* of them is in the view, and no tag of the view lies among them.         *)
LEMMA StoreTrees == ASSUME IInv, Chosen, Trees, StoreSummary PROVE Trees'
<1>1. PICK lo \in Number, hi \in Number :
        /\ IsHull(op.tags, lo, hi)
        /\ LET sum == [lo |-> lo, hi |-> hi, range |-> TRUE]
           IN byTag'  = [t \in DOMAIN byTag \cup {sum} |->
                              IF t = sum THEN [status |-> "active", children |-> op.tags]
                              ELSE byTag[t]]
        /\ op.phase = "archiving" /\ op.todo = {} /\ UNCHANGED <<removed, hidden>>
  BY DEF StoreSummary
<1> DEFINE sum == [lo |-> lo, hi |-> hi, range |-> TRUE]
<1>2. /\ op.tags # {} /\ op.tags \subseteq DOMAIN byTag /\ op.tags \cap Listed = {}
      /\ \A t \in Listed : \/ \A u \in op.tags : t.hi < u.lo
                           \/ \A u \in op.tags : u.hi < t.lo
  BY <1>1 DEF IInv, Selected
<1>3. /\ \A u \in op.tags : u.lo \in Nat /\ u.hi \in Nat /\ u.lo <= u.hi /\ u.hi < next
      /\ \A u \in Listed  : u.lo \in Nat /\ u.hi \in Nat /\ u.lo <= u.hi /\ u.hi < next
      /\ next \in Nat
  BY <1>2, MaxTagAssumption DEF IInv, ListedStored, TypeOK, WellFormed, Tag, Number
<1>4. /\ \E u \in op.tags : u.lo = lo
      /\ \E u \in op.tags : u.hi = hi
      /\ \A u \in op.tags : lo <= u.lo /\ u.hi <= hi
      /\ lo \in Nat /\ hi \in Nat
  BY <1>1 DEF IsHull, IsLeast, IsGreatest, Number
<1>5. /\ DOMAIN byTag' = DOMAIN byTag \cup {sum}
      /\ byTag'[sum].children = op.tags
      /\ \A t \in DOMAIN byTag : t # sum => byTag'[t] = byTag[t]
  BY <1>1
<1>6. sum.lo = lo /\ sum.hi = hi /\ sum.range
  OBVIOUS
<1> HIDE DEF sum
<1> SUFFICES ASSUME removed = {} PROVE Trees'
  BY <1>1 DEF Trees
<1>7. hidden' = {} /\ Apart(op.tags)
  BY <1>1 DEF Trees, Chosen
<1>8. ASSUME NEW n \in Nat
      PROVE  n \in Nums(sum) <=> \E c \in op.tags : n \in Nums(c)
  <2>1. ASSUME n \in Nums(sum) PROVE \E c \in op.tags : n \in Nums(c)
    <3>1. lo <= n /\ n <= hi /\ n < next /\ n \in Number
      BY <2>1, <1>3, <1>4, <1>6, MaxTagAssumption DEF Nums, Number
    <3>2. PICK t \in Listed \cup op.tags : n \in Nums(t)
      BY <3>1, <1>1, <1>7 DEF IInv, Complete, Shown
    <3>3. ASSUME t \in Listed PROVE FALSE
      <4>1. t.lo <= n /\ n <= t.hi
        BY <3>2, <3>3, <1>3 DEF Nums
      <4> QED
        BY <3>1, <3>3, <4>1, <1>2, <1>3, <1>4
    <3> QED
      BY <3>2, <3>3
  <2>2. ASSUME NEW c \in op.tags, n \in Nums(c) PROVE n \in Nums(sum)
    BY <2>2, <1>3, <1>4, <1>6 DEF Nums
  <2> QED
    BY <2>1, <2>2
<1>9. Spans(sum, byTag'[sum].children, DOMAIN byTag')
  BY <1>2, <1>5, <1>7, <1>8 DEF Spans
<1>10. ASSUME NEW t \in DOMAIN byTag, t # sum, t.range PROVE Spans(t, byTag'[t].children, DOMAIN byTag')
  <2>1. Spans(t, byTag[t].children, DOMAIN byTag)
    BY <1>10 DEF Trees
  <2> QED
    BY <2>1, <1>5, <1>10 DEF Spans
<1>11. ASSUME NEW t \in DOMAIN byTag, t # sum, ~t.range
       PROVE  t = Leaf(t.lo) /\ byTag'[t].children = {}
  BY <1>5, <1>11 DEF Trees
<1> QED
  BY <1>1, <1>5, <1>6, <1>7, <1>9, <1>10, <1>11 DEF Trees

LEMMA RemoveTrees == ASSUME NEW t \in Tag, Remove(t) PROVE Trees'
BY DEF Remove, Trees

LEMMA ClearTrees == ASSUME Clear PROVE Trees'
BY DEF Clear, Trees

LEMMA StepTrees == ASSUME IInv, Chosen, Trees, [Next]_vars PROVE Trees'
<1>1. CASE Add
  BY <1>1, AddTrees
<1>2. CASE ArchiveNext
  BY <1>2, ArchiveTrees
<1>3. CASE StoreSummary
  BY <1>3, StoreTrees
<1>4. ASSUME NEW t \in Tag, Remove(t) PROVE Trees'
  BY <1>4, RemoveTrees
<1>5. CASE Clear
  BY <1>5, ClearTrees
<1>6. CASE UNCHANGED <<byTag, removed, hidden>>
  BY <1>6 DEF Trees, Spans
<1> QED
  BY <1>1, <1>2, <1>3, <1>4, <1>5, <1>6
  DEF Next, CollapseStep, Collapse, UnlistSummary, PlaceSummary, vars

(* The least of a set of numbers.                                          *)
LEMMA LeastLevel ==
  ASSUME NEW S, S \subseteq Nat, S # {}
  PROVE  \E m \in S : \A n \in S : m <= n
<1>1. IsWellFoundedOn(OpToRel(<, Nat), Nat)
  BY NatLessThanWellFounded
<1>2. PICK m \in S : \A y \in S : ~ (<<y, m>> \in OpToRel(<, Nat))
  BY <1>1, WFMin
<1>3. ASSUME NEW y \in S PROVE m <= y
  <2>1. m \in Nat /\ y \in Nat
    OBVIOUS
  <2>2. ASSUME y < m PROVE <<y, m>> \in OpToRel(<, Nat)
    BY <2>1, <2>2 DEF OpToRel
  <2>3. ~ (<<y, m>> \in OpToRel(<, Nat))
    BY <1>2
  <2>4. ~(y < m)
    BY <2>2, <2>3, Zenon
  <2> QED
    BY <2>1, <2>4
<1> QED
  BY <1>3

(* What level d of a function of levels is computed from.                  *)
Below(f, d) == IF d = 0 THEN NothingBelow ELSE f[d - 1]

(* The recursion of Originals has a solution, however many its levels.     *)
LEMMA LevelsExist ==
  ASSUME NEW n \in Nat
  PROVE  \E f : f = [d \in 0..n |-> Expansion(Below(f, d))]
<1> DEFINE G(k) == \E f : f = [d \in 0..k |-> Expansion(Below(f, d))]
           S == {k \in Nat : ~G(k)}
<1>1. ASSUME S # {} PROVE FALSE
  <2>1. S \subseteq Nat
    OBVIOUS
  <2> HIDE DEF S
  <2>2. PICK m \in S : \A k \in S : m <= k
    BY <2>1, <1>1, LeastLevel, Zenon
  <2>3. m \in Nat /\ ~G(m)
    BY <2>2 DEF S
  <2>4. CASE m = 0
    <3> DEFINE f == [d \in 0..0 |-> Expansion(NothingBelow)]
    <3>1. \A d \in 0..0 : Below(f, d) = NothingBelow
      BY DEF Below
    <3> HIDE DEF f
    <3>2. [d \in 0..0 |-> Expansion(Below(f, d))] = [d \in 0..0 |-> Expansion(NothingBelow)]
      BY <3>1
    <3>3. f = [d \in 0..0 |-> Expansion(Below(f, d))]
      BY <3>2 DEF f
    <3> QED
      BY <3>3, <2>3, <2>4
  <2>5. CASE m # 0
    <3>1. m - 1 \in Nat /\ ~(m <= m - 1)
      BY <2>3, <2>5
    <3>2. G(m - 1)
      BY <3>1, <2>2 DEF S
    <3>3. PICK f : f = [d \in 0..m - 1 |-> Expansion(Below(f, d))]
      BY <3>2
    <3> DEFINE g == [d \in 0..m |-> Expansion(Below(f, d))]
    <3>4. ASSUME NEW d \in 0..m - 1 PROVE g[d] = f[d]
      <4>1. d \in 0..m
        BY <3>1, <2>3
      <4>2. f[d] = Expansion(Below(f, d))
        BY <3>3
      <4> QED
        BY <4>1, <4>2
    <3> HIDE DEF g
    <3>5. ASSUME NEW d \in 0..m PROVE Below(g, d) = Below(f, d)
      <4>1. CASE d = 0
        BY <4>1 DEF Below
      <4>2. CASE d # 0
        <5>1. d - 1 \in 0..m - 1
          BY <4>2, <2>3
        <5> QED
          BY <5>1, <4>2, <3>4 DEF Below
      <4> QED
        BY <4>1, <4>2
    <3>6. [d \in 0..m |-> Expansion(Below(g, d))] = [d \in 0..m |-> Expansion(Below(f, d))]
      BY <3>5
    <3>7. g = [d \in 0..m |-> Expansion(Below(g, d))]
      BY <3>6 DEF g
    <3> QED
      BY <3>7, <2>3
  <2> QED
    BY <2>4, <2>5
<1>2. ~(n \in S)
  BY <1>1
<1> HIDE DEF G
<1>3. G(n)
  BY <1>2
<1> QED
  BY <1>3 DEF G

LEMMA OriginalsLevels ==
  \A d \in 0..(MaxTag + 1) : Originals[d] = Expansion(Below(Originals, d))
<1>1. MaxTag + 1 \in Nat
  BY MaxTagAssumption
<1>2. \E f : f = [d \in 0..(MaxTag + 1) |-> Expansion(Below(f, d))]
  BY <1>1, LevelsExist
<1>3. \E f : f = [d \in 0..(MaxTag + 1) |->
                    Expansion(IF d = 0 THEN NothingBelow ELSE f[d - 1])]
  BY <1>2 DEF Below
<1>4. Originals = [d \in 0..(MaxTag + 1) |->
                     Expansion(IF d = 0 THEN NothingBelow ELSE Originals[d - 1])]
  BY <1>3, Zenon DEF Originals
<1> QED
  BY <1>4 DEF Below

(* Without a Summary among its own children, d + 1 levels expand every     *)
(* range of at most d + 1 numbers.                                         *)
LEMMA LevelExpands ==
  ASSUME IInv, Trees, removed = {}, ~SelfCollapsed, NEW d \in 0..(MaxTag + 1)
  PROVE  \A t \in DOMAIN byTag :
           (t.range => t.hi - t.lo < d) => Originals[d][t] = OriginalsOf(t)
<1> DEFINE Good(k) == \A t \in DOMAIN byTag :
                        (t.range => t.hi - t.lo < k) => Originals[k][t] = OriginalsOf(t)
           S == {k \in 0..(MaxTag + 1) : ~Good(k)}
<1>0. MaxTag \in Nat
  BY MaxTagAssumption
<1>1. \A t \in DOMAIN byTag : t.lo \in Nat /\ t.hi \in Nat /\ t.lo <= t.hi
  BY MaxTagAssumption DEF IInv, TypeOK, WellFormed, Tag, Number
<1>2. ASSUME NEW t \in DOMAIN byTag, ~t.range, NEW k \in 0..(MaxTag + 1)
      PROVE  Originals[k][t] = OriginalsOf(t)
  <2>1. Originals[k] = Expansion(Below(Originals, k))
    BY OriginalsLevels
  <2>2. Originals[k][t] = {t}
    BY <2>1, <1>2 DEF Expansion
  <2>3. t = Leaf(t.lo) /\ t.lo \in Nat
    BY <1>1, <1>2 DEF Trees
  <2>4. Nums(t) = {t.lo}
    <3>1. t.hi = t.lo
      BY <2>3 DEF Leaf
    <3> QED
      BY <3>1, <2>3 DEF Nums
  <2>5. OriginalsOf(t) = {Leaf(t.lo)}
    BY <2>4 DEF OriginalsOf
  <2> QED
    BY <2>2, <2>3, <2>5
<1>3. ASSUME S # {} PROVE FALSE
  <2>1. S \subseteq Nat
    OBVIOUS
  <2> HIDE DEF S
  <2>2. PICK m \in S : \A k \in S : m <= k
    BY <2>1, <1>3, LeastLevel, Zenon
  <2>3. m \in 0..(MaxTag + 1) /\ ~Good(m)
    BY <2>2 DEF S
  <2>4. PICK t \in DOMAIN byTag : /\ t.range => t.hi - t.lo < m
                                  /\ Originals[m][t] # OriginalsOf(t)
    BY <2>3
  <2>5. t.range /\ t.hi - t.lo < m
    BY <2>3, <2>4, <1>2
  <2>6. m # 0 /\ m \in Nat /\ m - 1 \in 0..(MaxTag + 1) /\ ~(m <= m - 1)
    BY <2>3, <2>5, <1>0, <1>1
  <2>7. Good(m - 1)
    BY <2>2, <2>6 DEF S
  <2> HIDE DEF Good
  <2> DEFINE kids == byTag[t].children
             below == Originals[m - 1]
  <2>8. /\ kids \subseteq DOMAIN byTag /\ t \notin kids
        /\ \A n \in Nat : n \in Nums(t) <=> \E c \in kids : n \in Nums(c)
    BY <2>5 DEF Trees, Spans, SelfCollapsed
  <2>9. Originals[m] = Expansion(below)
    BY <2>3, <2>6, OriginalsLevels DEF Below
  <2>10. Originals[m][t] = UNION {below[c] : c \in kids}
    <3>1. Originals[m][t] = UNION {below[c] : c \in kids \cap DOMAIN byTag}
      BY <2>9, <2>5 DEF Expansion
    <3>2. kids \cap DOMAIN byTag = kids
      BY <2>8
    <3> QED
      BY <3>1, <3>2
  <2> HIDE DEF kids, below
  <2>11. ASSUME NEW c \in kids PROVE below[c] = OriginalsOf(c)
    <3>1. c \in DOMAIN byTag /\ c # t
      BY <2>8, <2>11
    <3>2. ASSUME c.range PROVE c.hi - c.lo < m - 1
      <4>1. c.lo \in Nums(c) /\ c.hi \in Nums(c) /\ c.lo \in Nat /\ c.hi \in Nat
        BY <3>1, <1>1 DEF Nums
      <4>2. c.lo \in Nums(t) /\ c.hi \in Nums(t)
        BY <4>1, <2>8, <2>11
      <4>3. t.lo <= c.lo /\ c.hi <= t.hi
        BY <4>1, <4>2, <1>1 DEF Nums
      <4>4. c.lo # t.lo \/ c.hi # t.hi
        <5>1. c \in Tag /\ t \in Tag
          BY <3>1 DEF IInv, TypeOK
        <5> QED
          BY <5>1, <3>1, <3>2, <2>5 DEF Tag
      <4> QED
        BY <4>1, <4>3, <4>4, <3>1, <2>5, <2>6, <1>1
    <3> QED
      BY <3>1, <3>2, <2>7 DEF Good, below
  <2>12. UNION {below[c] : c \in kids} = UNION {OriginalsOf(c) : c \in kids}
    BY <2>11
  <2>13. UNION {OriginalsOf(c) : c \in kids} = OriginalsOf(t)
    <3>1. ASSUME NEW x \in UNION {OriginalsOf(c) : c \in kids} PROVE x \in OriginalsOf(t)
      <4>1. PICK c \in kids : x \in OriginalsOf(c)
        BY <3>1
      <4>2. PICK n \in Nums(c) : x = Leaf(n)
        BY <4>1 DEF OriginalsOf
      <4>3. n \in Nat
        BY <4>2, <2>8, <1>1 DEF Nums
      <4>4. n \in Nums(t)
        BY <4>2, <4>3, <2>8
      <4> QED
        BY <4>2, <4>4 DEF OriginalsOf
    <3>2. ASSUME NEW x \in OriginalsOf(t) PROVE x \in UNION {OriginalsOf(c) : c \in kids}
      <4>1. PICK n \in Nums(t) : x = Leaf(n)
        BY <3>2 DEF OriginalsOf
      <4>2. n \in Nat
        BY <1>1 DEF Nums
      <4>3. PICK c \in kids : n \in Nums(c)
        BY <4>1, <4>2, <2>8
      <4>4. x \in OriginalsOf(c)
        BY <4>1, <4>3 DEF OriginalsOf
      <4> QED
        BY <4>4
    <3> QED
      BY <3>1, <3>2
  <2> QED
    BY <2>4, <2>10, <2>12, <2>13
<1>4. ~(d \in S)
  BY <1>3
<1> HIDE DEF Good
<1>5. Good(d)
  BY <1>4
<1> QED
  BY <1>5 DEF Good

LEMMA TreesExpand == ASSUME IInv, Trees PROVE SummaryExpands
<1> SUFFICES ASSUME removed = {}, ~SelfCollapsed, NEW t \in DOMAIN byTag
             PROVE  /\ AllOriginals(t) = OriginalsOf(t)
                    /\ \A c, d \in byTag[t].children :
                         c # d => AllOriginals(c) \cap AllOriginals(d) = {}
  BY DEF SummaryExpands
<1>1. MaxTag \in Nat /\ MaxTag + 1 \in 0..(MaxTag + 1)
  BY MaxTagAssumption
<1>2. ASSUME NEW u \in DOMAIN byTag PROVE AllOriginals(u) = OriginalsOf(u)
  <2>1. u.lo \in 1..MaxTag /\ u.hi \in 1..MaxTag
    BY DEF IInv, TypeOK, Tag, Number
  <2>2. u.hi - u.lo < MaxTag + 1
    BY <2>1, <1>1
  <2> QED
    BY <2>2, <1>1, LevelExpands DEF AllOriginals
<1>3. /\ byTag[t].children \subseteq DOMAIN byTag
      /\ Apart(byTag[t].children)
  <2>1. CASE t.range
    BY <2>1 DEF Trees, Spans
  <2>2. CASE ~t.range
    BY <2>2 DEF Trees, Apart
  <2> QED
    BY <2>1, <2>2
<1>4. ASSUME NEW c \in byTag[t].children, NEW d \in byTag[t].children, c # d
      PROVE  OriginalsOf(c) \cap OriginalsOf(d) = {}
  <2>1. c.hi < d.lo \/ d.hi < c.lo
    BY <1>3, <1>4 DEF Apart
  <2>2. c.lo \in Nat /\ c.hi \in Nat /\ d.lo \in Nat /\ d.hi \in Nat
    BY <1>3, <1>4, MaxTagAssumption DEF IInv, TypeOK, Tag, Number
  <2>3. \A n \in Nums(c), m \in Nums(d) : n # m
    BY <2>1, <2>2 DEF Nums
  <2>4. \A n, m : Leaf(n) = Leaf(m) => n = m
    <3>1. \A n : Leaf(n).lo = n
      BY DEF Leaf
    <3> QED
      BY <3>1
  <2> QED
    BY <2>3, <2>4 DEF OriginalsOf
<1> QED
  BY <1>2, <1>3, <1>4

(* As long as nothing was removed, and no collapse took a Summary into     *)
(* itself, _all_originals() returns every event of a Summary's range       *)
(* and each of them once, at any depth of Summaries of Summaries.          *)
THEOREM SummariesExpand == Spec => []SummaryExpands
<1>1. IInv /\ Chosen /\ Trees /\ [Next]_vars => Chosen' /\ Trees'
  BY StepChosen, StepTrees
<1>2. IInv /\ Trees => SummaryExpands
  BY TreesExpand
<1> QED
  BY <1>1, <1>2, InitChosen, InitTrees, Invariance, PTL DEF Spec

(* A Summary becomes its own child only when it is all that the range of a *)
(* collapse met.                                                           *)
SelfOnlyAlone ==
  \A t \in DOMAIN byTag' :
    t \in byTag'[t].children =>
      \/ t \in DOMAIN byTag /\ t \in byTag[t].children
      \/ StoreSummary /\ t.range /\ op.tags = {t}

LEMMA StoreSelf == ASSUME IInv, Chosen, StoreSummary PROVE SelfOnlyAlone
<1>1. PICK lo \in Number, hi \in Number :
        /\ IsHull(op.tags, lo, hi)
        /\ LET sum == [lo |-> lo, hi |-> hi, range |-> TRUE]
           IN byTag'  = [t \in DOMAIN byTag \cup {sum} |->
                              IF t = sum THEN [status |-> "active", children |-> op.tags]
                              ELSE byTag[t]]
        /\ op.phase = "archiving"
  BY DEF StoreSummary
<1> DEFINE sum == [lo |-> lo, hi |-> hi, range |-> TRUE]
<1>2. /\ DOMAIN byTag' = DOMAIN byTag \cup {sum}
      /\ byTag'[sum].children = op.tags
      /\ \A t \in DOMAIN byTag : t # sum => byTag'[t] = byTag[t]
      /\ sum.lo = lo /\ sum.hi = hi /\ sum.range
  BY <1>1
<1> HIDE DEF sum
<1>3. ASSUME sum \in op.tags, NEW c \in op.tags, c # sum PROVE FALSE
  <2>1. /\ lo <= c.lo /\ c.hi <= hi /\ lo \in Nat /\ hi \in Nat
    BY <1>1 DEF IsHull, IsLeast, IsGreatest, Number
  <2>2. c.lo \in Nat /\ c.hi \in Nat /\ c.lo <= c.hi
    BY <1>1, MaxTagAssumption DEF IInv, Selected, TypeOK, WellFormed, Tag, Number
  <2>3. c.hi < lo \/ hi < c.lo
    BY <1>1, <1>2, <1>3 DEF Chosen, Apart
  <2> QED
    BY <2>1, <2>2, <2>3
<1>4. ASSUME sum \in op.tags PROVE op.tags = {sum}
  BY <1>3, <1>4
<1> QED
  BY <1>2, <1>4 DEF SelfOnlyAlone

LEMMA StepSelf == ASSUME IInv, Chosen, [Next]_vars PROVE SelfOnlyAlone
<1>1. CASE Add
  <2>1. \A t \in DOMAIN byTag' : \/ byTag'[t].children = {}
                                 \/ t \in DOMAIN byTag /\ byTag'[t] = byTag[t]
    BY <1>1 DEF Add
  <2> QED
    BY <2>1 DEF SelfOnlyAlone
<1>2. CASE ArchiveNext
  <2>1. PICK k \in DOMAIN active : byTag' = Archived(active[k])
    BY <1>2 DEF ArchiveNext
  <2>2. DOMAIN byTag' = DOMAIN byTag
    BY <2>1 DEF Archived
  <2>3. ASSUME NEW t \in DOMAIN byTag PROVE byTag'[t].children = byTag[t].children
    <3>1. byTag[t] \in Event
      BY DEF IInv, TypeOK
    <3> QED
      BY <2>1, <3>1 DEF Archived, Event
  <2> QED
    BY <2>2, <2>3 DEF SelfOnlyAlone
<1>3. CASE StoreSummary
  BY <1>3, StoreSelf
<1>4. CASE UNCHANGED byTag
  BY <1>4 DEF SelfOnlyAlone
<1>5. ASSUME NEW t \in Tag, Remove(t) PROVE SelfOnlyAlone
  <2>1. /\ DOMAIN byTag' \subseteq DOMAIN byTag
        /\ \A u \in DOMAIN byTag' : byTag'[u] = byTag[u]
    BY <1>5 DEF Remove
  <2> QED
    BY <2>1 DEF SelfOnlyAlone
<1>6. CASE Clear
  BY <1>6 DEF Clear, SelfOnlyAlone
<1> QED
  BY <1>1, <1>2, <1>3, <1>4, <1>5, <1>6
  DEF Next, CollapseStep, Collapse, UnlistSummary, PlaceSummary, vars

(* The exception SummaryExpands makes is narrow: a collapse that met any   *)
(* other tag beside a Summary never makes that Summary its own child.      *)
THEOREM SelfCollapseIsAlone == Spec => [][SelfOnlyAlone]_vars
<1>1. IInv /\ Chosen /\ [Next]_vars => Chosen' /\ [SelfOnlyAlone]_vars
  BY StepChosen, StepSelf
<1> QED
  BY <1>1, InitChosen, Invariance, PTL DEF Spec

-----------------------------------------------------------------------------
(* A collapse comes to its end.                                            *)

(* The steps a collapse still has to take.                                 *)
Left == CASE op.phase = "archiving" -> Cardinality(op.todo) + 3
          [] op.phase = "stored"    -> 2
          [] op.phase = "placing"   -> 1
          [] OTHER                  -> 0

(* What the loops of collapse() look for is there: the next tag to archive;*)
(* then the hull of the collapsed tags and one insertion index.            *)
StepIsThere ==
  op.phase = "archiving" =>
    /\ op.todo # {} => \E k \in DOMAIN active : IsFirst(active, op.todo, k)
    /\ \E lo, hi \in Number : IsHull(op.tags, lo, hi)
    /\ \E k \in 0..Len(active) : InsertIndex(k) /\ \A j \in 0..Len(active) : InsertIndex(j) => j = k

(* A bounded set of numbers has a greatest one.                            *)
LEMMA GreatestExists ==
  ASSUME NEW S, NEW b \in Nat, S \subseteq 0..b, S # {}
  PROVE  \E m \in S : \A n \in S : n <= m
<1> DEFINE D == {d \in Nat : b - d \in S}
<1>1. D \subseteq Nat
  OBVIOUS
<1>2. D # {}
  <2>1. PICK x \in S : TRUE
    OBVIOUS
  <2>2. x \in Nat /\ x <= b
    BY <2>1
  <2>3. b - x \in Nat /\ b - (b - x) = x
    BY <2>2
  <2>4. b - x \in D
    BY <2>1, <2>3
  <2> QED
    BY <2>4
<1>3. PICK d \in D : \A e \in D : d <= e
  <2> HIDE DEF D
  <2> QED
    BY <1>1, <1>2, LeastLevel
<1>4. d \in Nat /\ b - d \in S
  OBVIOUS
<1>5. ASSUME NEW n \in S PROVE n <= b - d
  <2>1. n \in Nat /\ n <= b
    OBVIOUS
  <2>2. b - n \in Nat /\ b - (b - n) = n
    BY <2>1
  <2>3. b - n \in D
    BY <2>2
  <2>4. d <= b - n
    BY <1>3, <2>3
  <2> QED
    BY <2>1, <2>4, <1>4
<1> QED
  BY <1>4, <1>5

LEMMA HullExists ==
  ASSUME NEW tags \in SUBSET Tag, tags # {}
  PROVE  \E lo, hi \in Number : IsHull(tags, lo, hi)
<1> DEFINE L == {t.lo : t \in tags}
           H == {t.hi : t \in tags}
<1>1. L \subseteq Number /\ H \subseteq Number /\ L # {} /\ H # {}
  BY DEF Tag
<1>2. MaxTag \in Nat /\ Number \subseteq Nat /\ Number \subseteq 0..MaxTag
  BY MaxTagAssumption DEF Number
<1> HIDE DEF L, H
<1>4. PICK lo \in L : \A n \in L : lo <= n
  <2>1. L \subseteq Nat
    BY <1>1, <1>2
  <2> QED
    BY <2>1, <1>1, LeastLevel
<1>5. PICK hi \in H : \A n \in H : n <= hi
  <2>1. H \subseteq 0..MaxTag
    BY <1>1, <1>2
  <2> QED
    BY <2>1, <1>1, <1>2, GreatestExists
<1>6. IsHull(tags, lo, hi)
  BY <1>4, <1>5 DEF IsHull, IsLeast, IsGreatest, L, H
<1> QED
  BY <1>1, <1>6

LEMMA IndexExists ==
  ASSUME IInv, op.phase = "archiving"
  PROVE  \E k \in 0..Len(active) :
           InsertIndex(k) /\ \A j \in 0..Len(active) : InsertIndex(j) => j = k
<1>1. /\ Len(active) \in Nat /\ DOMAIN active = 1..Len(active)
      /\ \A i \in DOMAIN active : active[i].lo \in Nat
  BY ListedFacts
<1>2. op.first \in Nat
  BY DEF IInv, TypeOK
<1> DEFINE n == Len(active)
           P == {i \in 1..n : active[i].lo > op.first}
<1>3. n \in Nat /\ DOMAIN active = 1..n
  BY <1>1
<1>4. \A i \in 1..n : i \in P <=> active[i].lo > op.first
  OBVIOUS
<1>5. P \subseteq 1..n
  OBVIOUS
<1>6. \A j \in 0..n : InsertIndex(j) <=> \/ j + 1 \in P /\ \A i \in 1..j : i \notin P
                                         \/ j = n /\ P = {}
  <2> SUFFICES ASSUME NEW j \in 0..n
               PROVE  InsertIndex(j) <=> \/ j + 1 \in P /\ \A i \in 1..j : i \notin P
                                         \/ j = n /\ P = {}
    OBVIOUS
  <2>1. \A i \in 1..n : active[i].lo <= op.first <=> i \notin P
    BY <1>1, <1>2, <1>3, <1>4
  <2>2. (\A i \in DOMAIN active : active[i].lo <= op.first) <=> P = {}
    BY <2>1, <1>3, <1>5
  <2>3. \A i \in 1..j : i \in 1..n
    BY <1>3
  <2>4. (\A i \in 1..j : active[i].lo <= op.first) <=> (\A i \in 1..j : i \notin P)
    BY <2>1, <2>3
  <2>5. (j + 1 \in DOMAIN active /\ active[j + 1].lo > op.first) <=> j + 1 \in P
    BY <1>3, <1>4, <1>5
  <2> HIDE DEF P
  <2> QED
    BY <2>2, <2>4, <2>5 DEF InsertIndex
<1> HIDE DEF n, P
<1>7. CASE P = {}
  <2>1. n \in 0..n
    BY <1>3
  <2> QED
    BY <2>1, <1>6, <1>7 DEF n
<1>8. CASE P # {}
  <2>1. PICK k \in P : \A j \in P : k <= j
    <3>1. P \subseteq Nat
      BY <1>3, <1>5
    <3> QED
      BY <3>1, <1>8, LeastLevel
  <2>2. k \in 1..n /\ k - 1 \in 0..n /\ k - 1 + 1 = k
    BY <2>1, <1>3, <1>5
  <2>3. \A i \in 1..(k - 1) : i \notin P
    BY <2>1, <2>2, <1>3
  <2>4. InsertIndex(k - 1)
    BY <2>1, <2>2, <2>3, <1>6
  <2>5. ASSUME NEW j \in 0..n, InsertIndex(j) PROVE j = k - 1
    <3>1. j + 1 \in P /\ \A i \in 1..j : i \notin P
      BY <2>5, <1>6, <1>8
    <3>2. k <= j + 1
      BY <2>1, <3>1
    <3>3. ~(k <= j)
      BY <2>1, <2>2, <3>1
    <3> QED
      BY <2>2, <3>2, <3>3
  <2> QED
    BY <2>2, <2>4, <2>5 DEF n
<1> QED
  BY <1>7, <1>8

LEMMA NextTagExists ==
  ASSUME IInv, op.phase = "archiving", op.todo # {}
  PROVE  \E k \in DOMAIN active : IsFirst(active, op.todo, k)
<1> DEFINE P == {i \in DOMAIN active : active[i] \in op.todo}
<1>1. DOMAIN active = 1..Len(active) /\ Len(active) \in Nat
  BY ListedFacts
<1>2. P # {}
  BY DEF IInv, Selected, Listed
<1>3. P \subseteq Nat
  BY <1>1
<1>4. \A i \in DOMAIN active : i \in P <=> active[i] \in op.todo
  OBVIOUS
<1>5. P \subseteq DOMAIN active
  OBVIOUS
<1> HIDE DEF P
<1>6. PICK k \in P : \A j \in P : k <= j
  BY <1>2, <1>3, LeastLevel
<1>7. ASSUME NEW j \in 1..(k - 1) PROVE active[j] \notin op.todo
  <2>1. k \in 1..Len(active)
    BY <1>1, <1>5
  <2>2. j \in DOMAIN active /\ ~(k <= j)
    BY <2>1, <1>1
  <2> QED
    BY <2>2, <1>4, <1>6
<1> QED
  BY <1>4, <1>5, <1>6, <1>7 DEF IsFirst

LEMMA StepsAreThere == ASSUME IInv PROVE StepIsThere
<1> SUFFICES ASSUME op.phase = "archiving"
             PROVE  /\ op.todo # {} => \E k \in DOMAIN active : IsFirst(active, op.todo, k)
                    /\ \E lo, hi \in Number : IsHull(op.tags, lo, hi)
                    /\ \E k \in 0..Len(active) :
                         InsertIndex(k) /\ \A j \in 0..Len(active) : InsertIndex(j) => j = k
  BY DEF StepIsThere
<1>1. op.tags \in SUBSET Tag /\ op.tags # {}
  BY DEF IInv, TypeOK, Selected
<1> QED
  BY <1>1, NextTagExists, HullExists, IndexExists

LEMMA TodoFinite == ASSUME IInv PROVE IsFiniteSet(op.todo) /\ Cardinality(op.todo) \in Nat
<1>1. MaxTag \in Nat
  BY MaxTagAssumption
<1>2. IsFiniteSet(Number)
  BY <1>1, FS_Interval DEF Number
<1> DEFINE T == (Number \X Number) \X BOOLEAN
           f == [t \in Tag |-> <<<<t.lo, t.hi>>, t.range>>]
<1>3. IsFiniteSet(T)
  <2>1. IsFiniteSet(BOOLEAN)
    <3>1. BOOLEAN = {TRUE} \cup {FALSE}
      OBVIOUS
    <3>2. IsFiniteSet({TRUE})
      BY FS_Singleton
    <3> QED
      BY <3>1, <3>2, FS_AddElement
  <2>2. IsFiniteSet(Number \X Number)
    BY <1>2, FS_Product
  <2> QED
    BY <2>1, <2>2, FS_Product
<1>4. f \in Injection(Tag, T)
  <2>1. f \in [Tag -> T]
    BY DEF Tag
  <2>2. ASSUME NEW t \in Tag, NEW u \in Tag, f[t] = f[u] PROVE t = u
    BY <2>2 DEF Tag
  <2> HIDE DEF f, T
  <2> QED
    BY <2>1, <2>2 DEF Injection, IsInjective
<1>5. IsFiniteSet(Tag)
  <2> HIDE DEF f, T
  <2> QED
    BY <1>3, <1>4, FS_Injection
<1>6. op.todo \subseteq Tag
  BY DEF IInv, TypeOK
<1> QED
  BY <1>5, <1>6, FS_Subset, FS_CardinalityType

LEMMA StepShrinks == ASSUME IInv, CollapseStep PROVE Left' < Left /\ Left' \in Nat /\ Left \in Nat
<1>1. IsFiniteSet(op.todo) /\ Cardinality(op.todo) \in Nat
  BY TodoFinite
<1>2. CASE ArchiveNext
  <2>1. PICK k \in DOMAIN active :
          /\ IsFirst(active, op.todo, k)
          /\ op' = [op EXCEPT !.todo = @ \ {active[k]}]
          /\ op.phase = "archiving"
    BY <1>2 DEF ArchiveNext
  <2>2. op'.todo = op.todo \ {active[k]} /\ op'.phase = "archiving" /\ active[k] \in op.todo
    BY <2>1 DEF IInv, TypeOK, IsFirst
  <2>3. Cardinality(op'.todo) = Cardinality(op.todo) - 1 /\ Cardinality(op'.todo) \in Nat
    BY <2>2, <1>1, FS_RemoveElement, FS_CardinalityType
  <2> QED
    BY <2>1, <2>2, <2>3, <1>1 DEF Left
<1>3. CASE StoreSummary
  <2>1. op.phase = "archiving" /\ op'.phase = "stored"
    BY <1>3 DEF StoreSummary, IInv, TypeOK
  <2> QED
    BY <2>1, <1>1 DEF Left
<1>4. CASE UnlistSummary
  <2>1. op.phase = "stored" /\ op'.phase = "placing"
    BY <1>4 DEF UnlistSummary, IInv, TypeOK
  <2> QED
    BY <2>1 DEF Left
<1>5. CASE PlaceSummary
  <2>1. op.phase = "placing" /\ op'.phase = "idle"
    BY <1>5 DEF PlaceSummary, Idle
  <2> QED
    BY <2>1 DEF Left
<1> QED
  BY <1>2, <1>3, <1>4, <1>5 DEF CollapseStep

(* A collapse that has begun always has a next step, none of its loops     *)
(* looking for what is not there, its insertion index is one index only,   *)
(* and each step leaves fewer to take: what is left of "collapse() returns"*)
(* is that its block is executed.                                          *)
THEOREM CollapseEnds == Spec => []StepIsThere /\ [][CollapseStep => Left' < Left]_vars
<1>1. IInv => StepIsThere
  BY StepsAreThere
<1>2. IInv /\ [Next]_vars => [CollapseStep => Left' < Left]_vars
  BY StepShrinks
<1> QED
  BY <1>1, <1>2, Invariance, PTL DEF Spec
-----------------------------------------------------------------------------
(* Summarizers at work on the log (module Summarizer).                     *)

Ranges   == [s : Number, e : Number]
SumTasks == [by : Summarizers, range : Ranges, source : SUBSET Number]

(* A task that runs is its summarizer's pending one; what is pending was   *)
(* written for the range it waits for.                                     *)
Pending ==
  /\ running \subseteq SumTasks
  /\ pendingTask \in [Summarizers -> SumTasks \cup {NoTask}]
  /\ pendingRange \in [Summarizers -> Ranges \cup {NoRange}]
  /\ pendingSummary \in [Summarizers -> SUBSET Number]
  /\ \A task \in running : pendingTask[task.by] = task
  /\ \A p \in Summarizers : pendingTask[p] # NoTask =>
       pendingTask[p].by = p /\ pendingTask[p].range = pendingRange[p]
  /\ \A p \in Summarizers : pendingSummary[p] # {} =>
       pendingTask[p] # NoTask /\ pendingTask[p].source = pendingSummary[p]

(* Texts belong to stored Summaries.                                       *)
Texts ==
  /\ writing \subseteq Number
  /\ told \in [DOMAIN told -> SUBSET Number]
  /\ DOMAIN told \subseteq DOMAIN byTag

SInv == IInv /\ Pending /\ Texts

LEMMA NoTaskIsNone == NoTask \notin SumTasks
<1>1. NoTask.range.e \notin Number
  BY MaxTagAssumption DEF NoTask, NoRange, Number
<1>2. \A task \in SumTasks : task.range.e \in Number
  BY DEF SumTasks, Ranges
<1> QED
  BY <1>1, <1>2

LEMMA InitSInv == SInit => SInv
<1> SUFFICES ASSUME SInit PROVE SInv
  OBVIOUS
<1>1. IInv
  BY InitIInv DEF SInit
<1>2. Pending
  BY DEF SInit, Pending
<1>3. Texts
  BY DEF SInit, Texts
<1> QED
  BY <1>1, <1>2, <1>3 DEF SInv

-----------------------------------------------------------------------------
(* What a summarizer does to the log.                                      *)

LEMMA RenderedFacts ==
  ASSUME IInv, NEW i \in DOMAIN active, NEW j \in DOMAIN active
  PROVE  /\ Rendered(i, j) \subseteq Number
         /\ [s |-> active[i].lo, e |-> active[j].hi] \in Ranges
<1>1. active \in Seq(Tag)
  BY DEF IInv, TypeOK
<1>2. Len(active) \in Nat /\ DOMAIN active = 1..Len(active)
  BY <1>1
<1>3. \A k \in i..j : active[k] \in Tag
  BY <1>1, <1>2
<1>4. \A t \in Tag : Nums(t) \subseteq Number
  BY MaxTagAssumption DEF Tag, Number, Nums
<1>5. Rendered(i, j) \subseteq Number
  BY <1>3, <1>4 DEF Rendered
<1>6. active[i] \in Tag /\ active[j] \in Tag
  BY <1>1
<1> QED
  BY <1>5, <1>6 DEF Tag, Ranges

LEMMA StepOfLog == ASSUME SInv, SNext PROVE [Next]_vars
<1>1. CASE Add
  BY <1>1 DEF Next
<1>2. ASSUME NEW t \in Tag, Forget(t) PROVE [Next]_vars
  BY <1>2 DEF Forget, Next
<1>3. CASE CollapseOn
  BY <1>3 DEF CollapseOn, Next
<1>4. ASSUME NEW p \in Summarizers, NEW i \in DOMAIN active, NEW j \in DOMAIN active, AfterTurn(p, i, j)
      PROVE  [Next]_vars
  BY <1>4 DEF AfterTurn
<1>5. ASSUME NEW p \in Summarizers, BeforeTurn(p) PROVE [Next]_vars
  <2>1. CASE pendingSummary[p] # {} /\ Collapse(pendingRange[p].s, pendingRange[p].e)
    <3>1. pendingTask[p] \in SumTasks /\ pendingTask[p].range = pendingRange[p]
      BY <1>5 DEF BeforeTurn, SInv, Pending
    <3>2. pendingRange[p].s \in Number /\ pendingRange[p].e \in Number
      BY <3>1 DEF SumTasks, Ranges
    <3> QED
      BY <2>1, <3>2 DEF Next
  <2>2. CASE UNCHANGED vars
    BY <2>2
  <2> QED
    BY <1>5, <2>1, <2>2 DEF BeforeTurn
<1>6. ASSUME NEW task \in running, Finish(task) PROVE [Next]_vars
  BY <1>6 DEF Finish, Summarized
<1>7. ASSUME NEW n \in DOMAIN active, Archive(n) PROVE [Next]_vars
  <2>1. active \in Seq(Tag)
    BY DEF SInv, IInv, TypeOK
  <2>2. 1 \in DOMAIN active
    BY <2>1
  <2>3. active[1] \in Tag /\ active[n] \in Tag
    BY <2>1, <2>2
  <2>4. active[1].lo \in Number /\ active[n].hi \in Number
    BY <2>3 DEF Tag
  <2> QED
    BY <1>7, <2>4 DEF Archive, Next
<1> QED
  BY <1>1, <1>2, <1>3, <1>4, <1>5, <1>6, <1>7 DEF SNext, Turns

-----------------------------------------------------------------------------
(* The pending state.                                                      *)

LEMMA AfterTurnPending ==
  ASSUME SInv, NEW p \in Summarizers, NEW i \in DOMAIN active, NEW j \in DOMAIN active,
         AfterTurn(p, i, j)
  PROVE  Pending'
<1> DEFINE range == [s |-> active[i].lo, e |-> active[j].hi]
           task  == [by |-> p, range |-> range, source |-> Rendered(i, j)]
<1>1. /\ pendingTask[p] = NoTask
      /\ pendingRange' = [pendingRange EXCEPT ![p] = range]
      /\ pendingTask'  = [pendingTask EXCEPT ![p] = task]
      /\ running'      = running \cup {task}
      /\ pendingSummary' = pendingSummary
  BY DEF AfterTurn, NonePending
<1>2. range \in Ranges /\ task \in SumTasks
  <2>1. range \in Ranges /\ Rendered(i, j) \subseteq Number
    BY RenderedFacts DEF SInv
  <2> HIDE DEF range
  <2> QED
    BY <2>1 DEF SumTasks
<1>3. task.by = p /\ task.range = range
  OBVIOUS
<1> HIDE DEF range, task
<1>4. \A r \in running : r.by # p
  <2>1. \A r \in running : pendingTask[r.by] = r /\ r # NoTask
    BY NoTaskIsNone DEF SInv, Pending
  <2> QED
    BY <1>1, <2>1
<1>5. task # NoTask
  BY <1>2, NoTaskIsNone
<1>6. \A q \in Summarizers \ {p} : pendingTask'[q] = pendingTask[q] /\ pendingRange'[q] = pendingRange[q]
  BY <1>1 DEF SInv, Pending
<1>7. pendingTask'[p] = task /\ pendingRange'[p] = range
  BY <1>1 DEF SInv, Pending
<1>8. /\ running' \subseteq SumTasks
      /\ pendingTask' \in [Summarizers -> SumTasks \cup {NoTask}]
      /\ pendingRange' \in [Summarizers -> Ranges \cup {NoRange}]
      /\ pendingSummary' \in [Summarizers -> SUBSET Number]
  BY <1>1, <1>2 DEF SInv, Pending
<1>9. \A r \in running' : pendingTask'[r.by] = r
  <2> SUFFICES ASSUME NEW r \in running' PROVE pendingTask'[r.by] = r
    OBVIOUS
  <2>1. CASE r = task
    BY <1>3, <1>7, <2>1
  <2>2. CASE r \in running
    <3>1. r.by \in Summarizers \ {p} /\ pendingTask[r.by] = r
      BY <1>4, <2>2 DEF SInv, Pending, SumTasks
    <3> QED
      BY <1>6, <3>1
  <2> QED
    BY <1>1, <2>1, <2>2
<1>10. \A q \in Summarizers : pendingTask'[q] # NoTask =>
         pendingTask'[q].by = q /\ pendingTask'[q].range = pendingRange'[q]
  BY <1>3, <1>6, <1>7 DEF SInv, Pending
<1>11. \A q \in Summarizers : pendingSummary'[q] # {} =>
         pendingTask'[q] # NoTask /\ pendingTask'[q].source = pendingSummary'[q]
  BY <1>1, <1>6, <1>7 DEF SInv, Pending
<1> QED
  BY <1>8, <1>9, <1>10, <1>11 DEF Pending

LEMMA FinishPending ==
  ASSUME SInv, NEW task \in running, Finish(task)
  PROVE  Pending'
<1>1. PICK text \in {task.source, {}} :
        /\ running' = running \ {task}
        /\ pendingSummary' = [pendingSummary EXCEPT ![task.by] = text]
        /\ UNCHANGED <<pendingTask, pendingRange>>
  BY DEF Finish, Summarized
<1>2. task \in SumTasks /\ pendingTask[task.by] = task /\ task # NoTask
  BY NoTaskIsNone DEF SInv, Pending
<1>3. task.by \in Summarizers /\ task.source \in SUBSET Number
  BY <1>2 DEF SumTasks
<1>4. pendingSummary' \in [Summarizers -> SUBSET Number]
  BY <1>1, <1>3 DEF SInv, Pending
<1>5. \A q \in Summarizers : pendingSummary'[q] # {} =>
         pendingTask'[q] # NoTask /\ pendingTask'[q].source = pendingSummary'[q]
  <2> SUFFICES ASSUME NEW q \in Summarizers, pendingSummary'[q] # {}
               PROVE  pendingTask'[q] # NoTask /\ pendingTask'[q].source = pendingSummary'[q]
    OBVIOUS
  <2>1. CASE q = task.by
    BY <1>1, <1>2, <1>3, <2>1 DEF SInv, Pending
  <2>2. CASE q # task.by
    BY <1>1, <2>2 DEF SInv, Pending
  <2> QED
    BY <2>1, <2>2
<1> QED
  BY <1>1, <1>4, <1>5 DEF SInv, Pending

LEMMA BeforeTurnPending ==
  ASSUME SInv, NEW p \in Summarizers, BeforeTurn(p)
  PROVE  Pending'
<1>1. /\ pendingTask[p] \notin running
      /\ pendingTask'    = [pendingTask EXCEPT ![p] = NoTask]
      /\ pendingRange'   = [pendingRange EXCEPT ![p] = NoRange]
      /\ pendingSummary' = [pendingSummary EXCEPT ![p] = {}]
      /\ running' = running
  BY DEF BeforeTurn, Unpended, Unpend
<1>2. \A r \in running : r.by # p /\ r.by \in Summarizers
  BY <1>1 DEF SInv, Pending, SumTasks
<1>3. \A q \in Summarizers \ {p} : /\ pendingTask'[q] = pendingTask[q]
                                   /\ pendingRange'[q] = pendingRange[q]
                                   /\ pendingSummary'[q] = pendingSummary[q]
  BY <1>1 DEF SInv, Pending
<1>4. pendingTask'[p] = NoTask /\ pendingSummary'[p] = {}
  BY <1>1 DEF SInv, Pending
<1>5. /\ pendingTask' \in [Summarizers -> SumTasks \cup {NoTask}]
      /\ pendingRange' \in [Summarizers -> Ranges \cup {NoRange}]
      /\ pendingSummary' \in [Summarizers -> SUBSET Number]
  BY <1>1 DEF SInv, Pending
<1>6. \A r \in running' : pendingTask'[r.by] = r
  BY <1>1, <1>2, <1>3 DEF SInv, Pending
<1>7. \A q \in Summarizers : pendingTask'[q] # NoTask =>
         pendingTask'[q].by = q /\ pendingTask'[q].range = pendingRange'[q]
  BY <1>3, <1>4 DEF SInv, Pending
<1>8. \A q \in Summarizers : pendingSummary'[q] # {} =>
         pendingTask'[q] # NoTask /\ pendingTask'[q].source = pendingSummary'[q]
  BY <1>3, <1>4 DEF SInv, Pending
<1> QED
  BY <1>1, <1>5, <1>6, <1>7, <1>8 DEF SInv, Pending

LEMMA PendingStep == ASSUME SInv, SNext PROVE Pending'
<1>1. ASSUME UNCHANGED mine PROVE Pending'
  BY <1>1 DEF SInv, Pending, mine
<1>2. CASE Add /\ UNCHANGED <<mine, writing, told>>
  BY <1>1, <1>2
<1>3. ASSUME NEW t \in Tag, Forget(t) PROVE Pending'
  BY <1>1, <1>3 DEF Forget
<1>4. CASE CollapseOn
  BY <1>1, <1>4 DEF CollapseOn
<1>5. CASE Turns
  BY <1>5, AfterTurnPending, BeforeTurnPending DEF Turns
<1>6. ASSUME NEW task \in running, Finish(task) PROVE Pending'
  BY <1>6, FinishPending
<1>7. ASSUME NEW n \in DOMAIN active, Archive(n) PROVE Pending'
  BY <1>1, <1>7 DEF Archive
<1> QED
  BY <1>2, <1>3, <1>4, <1>5, <1>6, <1>7 DEF SNext

-----------------------------------------------------------------------------
(* The texts.                                                              *)

\* What a collapse in progress does to the store and the texts.
LEMMA CollapseOnFacts ==
  ASSUME SInv, CollapseOn
  PROVE  \/ /\ StoreSummary /\ writing # {}
            /\ told' = [t \in DOMAIN told \cup {op'.sum} |-> IF t = op'.sum THEN writing ELSE told[t]]
         \/ /\ StoreSummary
            /\ told' = [t \in DOMAIN told \ {op'.sum} |-> told[t]]
         \/ /\ ~StoreSummary
            /\ ArchiveNext \/ UnlistSummary \/ PlaceSummary
            /\ told' = told
<1>1. told = [t \in DOMAIN told |-> told[t]]
  BY DEF SInv, Texts
<1>2. CASE StoreSummary
  BY <1>2 DEF CollapseOn
<1>3. CASE ~StoreSummary
  <2>1. told' = [t \in DOMAIN told \ {} |-> told[t]]
    BY <1>3 DEF CollapseOn
  <2>2. DOMAIN told \ {} = DOMAIN told
    OBVIOUS
  <2>3. told' = told
    BY <1>1, <2>1, <2>2
  <2> QED
    BY <1>3, <2>3 DEF CollapseOn, CollapseStep
<1> QED
  BY <1>2, <1>3

\* store() of the Summary; nothing else is changed in the store.
LEMMA StoreSummaryFacts ==
  ASSUME SInv, StoreSummary
  PROVE  /\ op.phase = "archiving"
         /\ DOMAIN byTag' = DOMAIN byTag \cup {op'.sum}
         /\ byTag'[op'.sum].children = op.tags
         /\ \A t \in DOMAIN byTag : t # op'.sum => byTag'[t] = byTag[t]
         /\ op'.phase = "stored"
<1>1. PICK lo \in Number, hi \in Number, k \in 0..Len(active) :
        LET sum == [lo |-> lo, hi |-> hi, range |-> TRUE]
        IN /\ byTag'  = [t \in DOMAIN byTag \cup {sum} |->
                           IF t = sum THEN [status |-> "active", children |-> op.tags]
                           ELSE byTag[t]]
           /\ op' = [op EXCEPT !.phase = "stored", !.at = k, !.sum = sum]
  BY DEF StoreSummary
<1> DEFINE sum == [lo |-> lo, hi |-> hi, range |-> TRUE]
<1>2. op'.sum = sum /\ op'.phase = "stored"
  BY <1>1 DEF SInv, IInv, TypeOK
<1>3. byTag'  = [t \in DOMAIN byTag \cup {sum} |->
                           IF t = sum THEN [status |-> "active", children |-> op.tags]
                           ELSE byTag[t]]
  BY <1>1
<1> HIDE DEF sum
<1>4. op.phase = "archiving"
  BY DEF StoreSummary
<1> QED
  BY <1>2, <1>3, <1>4

\* The other backend calls store nothing and change the children of nothing.
LEMMA OtherCallsFacts ==
  ASSUME SInv, ArchiveNext \/ UnlistSummary \/ PlaceSummary
  PROVE  /\ op.phase # "idle"
         /\ DOMAIN byTag' = DOMAIN byTag
         /\ \A t \in DOMAIN byTag : byTag'[t].children = byTag[t].children
         /\ op'.phase = "archiving" => op.phase = "archiving" /\ op'.tags = op.tags
<1>1. CASE ArchiveNext
  <2>1. PICK k \in DOMAIN active :
          byTag' = Archived(active[k]) /\ op' = [op EXCEPT !.todo = @ \ {active[k]}]
    BY <1>1 DEF ArchiveNext
  <2>2. op.phase = "archiving" /\ op'.tags = op.tags
    BY <1>1, <2>1 DEF ArchiveNext, SInv, IInv, TypeOK
  <2>3. /\ DOMAIN byTag' = DOMAIN byTag
        /\ \A t \in DOMAIN byTag :
             byTag'[t] = IF t = active[k] THEN [byTag[t] EXCEPT !.status = "archived"] ELSE byTag[t]
    BY <2>1 DEF Archived
  <2>4. \A t \in DOMAIN byTag : byTag[t] \in Event
    BY DEF SInv, IInv, TypeOK
  <2>5. \A t \in DOMAIN byTag : byTag'[t].children = byTag[t].children
    BY <2>3, <2>4 DEF Event
  <2> QED
    BY <2>2, <2>3, <2>5
<1>2. CASE UnlistSummary
  BY <1>2 DEF UnlistSummary, SInv, IInv, TypeOK
<1>3. CASE PlaceSummary
  BY <1>3 DEF PlaceSummary, Idle
<1> QED
  BY <1>1, <1>2, <1>3

LEMMA TextsStep == ASSUME SInv, SNext PROVE Texts'
<1>0. [Next]_vars /\ IInv'
  BY StepOfLog, StepIInv DEF SInv
<1>1. CASE Add /\ UNCHANGED <<mine, writing, told>>
  BY <1>1 DEF SInv, Texts, Add
<1>2. ASSUME NEW t \in Tag, Forget(t) PROVE Texts'
  <2>1. /\ told' = [u \in DOMAIN told \ {t} |-> told[u]] /\ writing' = writing
        /\ DOMAIN byTag' = DOMAIN byTag \ {t}
    BY <1>2 DEF Forget, Remove
  <2> QED
    BY <2>1 DEF SInv, Texts
<1>3. CASE CollapseOn
  <2>1. writing' = writing /\ writing \in SUBSET Number
    BY <1>3 DEF CollapseOn, SInv, Texts
  <2>2. CASE StoreSummary
    <3>1. DOMAIN byTag' = DOMAIN byTag \cup {op'.sum}
      BY <2>2, StoreSummaryFacts
    <3>2. CASE told' = [t \in DOMAIN told \cup {op'.sum} |-> IF t = op'.sum THEN writing ELSE told[t]]
      BY <2>1, <3>1, <3>2 DEF SInv, Texts
    <3>3. CASE told' = [t \in DOMAIN told \ {op'.sum} |-> told[t]]
      BY <2>1, <3>1, <3>3 DEF SInv, Texts
    <3> QED
      BY <1>3, <2>2, <3>2, <3>3, CollapseOnFacts
  <2>3. CASE ~StoreSummary
    <3>1. told' = told /\ DOMAIN byTag' = DOMAIN byTag
      BY <1>3, <2>3, CollapseOnFacts, OtherCallsFacts
    <3> QED
      BY <2>1, <3>1 DEF SInv, Texts
  <2> QED
    BY <2>2, <2>3
<1>4. ASSUME NEW p \in Summarizers, NEW i \in DOMAIN active, NEW j \in DOMAIN active, AfterTurn(p, i, j)
      PROVE  Texts'
  BY <1>4 DEF AfterTurn, vars, SInv, Texts
<1>5. ASSUME NEW p \in Summarizers, BeforeTurn(p) PROVE Texts'
  <2>1. told' = told /\ byTag' = byTag /\ (writing' = writing \/ writing' = pendingSummary[p])
    BY <1>5 DEF BeforeTurn, Collapse, vars
  <2>2. pendingSummary[p] \subseteq Number
    BY DEF SInv, Pending
  <2> QED
    BY <2>1, <2>2 DEF SInv, Texts
<1>6. ASSUME NEW task \in running, Finish(task) PROVE Texts'
  BY <1>6 DEF Finish, Summarized, vars, SInv, Texts
<1>7. ASSUME NEW n \in DOMAIN active, Archive(n) PROVE Texts'
  BY <1>7 DEF Archive, Collapse, SInv, Texts
<1> QED
  BY <1>1, <1>2, <1>3, <1>4, <1>5, <1>6, <1>7 DEF SNext, Turns

LEMMA StepSInv == ASSUME SInv, [SNext]_svars PROVE SInv'
<1>1. CASE SNext
  BY <1>1, StepOfLog, StepIInv, PendingStep, TextsStep DEF SInv
<1>2. CASE UNCHANGED svars
  <2>1. UNCHANGED vars
    BY <1>2 DEF svars
  <2>2. IInv'
    BY <2>1, StepIInv DEF SInv
  <2>3. Pending' /\ Texts'
    BY <1>2 DEF svars, mine, vars, SInv, Pending, Texts
  <2> QED
    BY <2>2, <2>3 DEF SInv
<1> QED
  BY <1>1, <1>2

-----------------------------------------------------------------------------
(* One summarizer, and no prompt refused while it has a summary pending.   *)

Alone == ~RefusedPending /\ \A p, q \in Summarizers : p = q

\* Whoever will be hidden by the pending range was rendered for it.
Foreseen ==
  \A p \in Summarizers : pendingTask[p] # NoTask =>
    /\ op.phase = "idle"
    /\ pendingRange[p].e < next
    /\ \A t \in Listed : Overlaps(t, pendingRange[p].s, pendingRange[p].e) =>
                            Nums(t) \subseteq pendingTask[p].source

\* The same of the collapse in progress, and of what is hidden already.
Covered  == op.phase = "archiving" /\ writing # {} => \A t \in op.tags : Nums(t) \subseteq writing
Telling  == \A t \in DOMAIN told : \A c \in byTag[t].children : Nums(c) \subseteq told[t]

TInv == SInv /\ Foreseen /\ Covered /\ Telling

LEMMA InitTInv == SInit => TInv
<1> SUFFICES ASSUME SInit PROVE TInv
  OBVIOUS
<1>1. SInv
  BY InitSInv
<1>2. Foreseen /\ Telling
  BY DEF SInit, Foreseen, Telling
<1>3. Covered
  BY DEF SInit, Covered
<1> QED
  BY <1>1, <1>2, <1>3 DEF TInv

\* The tags of a sorted view that meet the range from its i-th to its j-th tag
\* are the ones between.
LEMMA MeetBetween ==
  ASSUME SInv, op.phase = "idle", NEW i \in DOMAIN active, NEW j \in DOMAIN active,
         NEW t \in Listed, Overlaps(t, active[i].lo, active[j].hi)
  PROVE  Nums(t) \subseteq Rendered(i, j)
<1>1. PICK k \in DOMAIN active : t = active[k]
  BY DEF Listed
<1>2. active \in Seq(Tag) /\ Sorted(active)
  BY DEF SInv, IInv, TypeOK, ActiveSorted
<1>3. /\ i \in Nat /\ j \in Nat /\ k \in Nat
      /\ \A m \in DOMAIN active : active[m].lo \in Nat /\ active[m].hi \in Nat
  BY <1>2, TagListFacts
<1>4. \A m \in DOMAIN active : active[m].lo <= active[m].hi
  BY DEF SInv, IInv, WellFormed, ListedStored, Listed
<1>5. active[k].lo <= active[j].hi /\ active[k].hi >= active[i].lo
  BY <1>1 DEF Overlaps
<1>6. ~(k < i)
  <2>1. k < i => active[k].hi < active[i].lo
    BY <1>2 DEF Sorted
  <2> QED
    BY <2>1, <1>3, <1>5
<1>7. ~(j < k)
  <2>1. j < k => active[j].hi < active[k].lo
    BY <1>2 DEF Sorted
  <2> QED
    BY <2>1, <1>3, <1>5
<1>8. k \in i..j
  BY <1>3, <1>6, <1>7
<1> QED
  BY <1>1, <1>8 DEF Rendered

\* The children of what is stored are known to the texts.
LEMMA TellingKept ==
  ASSUME SInv, Telling, told' = told,
         \A t \in DOMAIN byTag : byTag'[t].children = byTag[t].children
  PROVE  Telling'
BY DEF SInv, Texts, Telling

LEMMA CollapseFacts ==
  ASSUME SInv, NEW s, NEW e, Collapse(s, e)
  PROVE  /\ op'.phase = "archiving" /\ op'.tags = {t \in Listed : Overlaps(t, s, e)}
         /\ UNCHANGED <<active, byTag, next>>
<1>1. UNCHANGED <<active, byTag, next>>
  BY DEF Collapse
<1>2. PICK k \in DOMAIN active :
        op' = [Idle EXCEPT !.phase = "archiving", !.tags = {t \in Listed : Overlaps(t, s, e)},
                           !.todo = {t \in Listed : Overlaps(t, s, e)}, !.first = active[k].lo]
  BY DEF Collapse
<1> DEFINE T == {t \in Listed : Overlaps(t, s, e)}
<1>3. \E x : op' = [Idle EXCEPT !.phase = "archiving", !.tags = T, !.todo = T, !.first = x]
  BY <1>2
<1> HIDE DEF T
<1>4. op'.phase = "archiving" /\ op'.tags = T
  BY <1>3 DEF Idle
<1> QED
  BY <1>1, <1>4 DEF T

LEMMA AfterTurnTInv ==
  ASSUME TInv, Alone, NEW p \in Summarizers, NEW i \in DOMAIN active, NEW j \in DOMAIN active,
         AfterTurn(p, i, j)
  PROVE  Foreseen' /\ Covered' /\ Telling'
<1>1. UNCHANGED <<active, byTag, next, op, writing, told>> /\ op.phase = "idle"
  BY DEF AfterTurn, vars
<1>2. SInv
  BY DEF TInv
<1>3. /\ pendingRange'[p] = [s |-> active[i].lo, e |-> active[j].hi]
      /\ pendingTask'[p].source = Rendered(i, j)
  BY <1>2 DEF AfterTurn, SInv, Pending
<1>4. active[j].hi < next
  BY <1>2 DEF SInv, IInv, WellFormed, ListedStored, Listed
<1>5. \A t \in Listed : Overlaps(t, active[i].lo, active[j].hi) => Nums(t) \subseteq Rendered(i, j)
  BY <1>1, <1>2, MeetBetween
<1>6. Listed' = Listed
  BY <1>1 DEF Listed
<1>7. Foreseen'
  <2> SUFFICES ASSUME NEW q \in Summarizers
               PROVE  /\ op'.phase = "idle" /\ pendingRange'[q].e < next'
                      /\ \A t \in Listed' : Overlaps(t, pendingRange'[q].s, pendingRange'[q].e) =>
                                              Nums(t) \subseteq pendingTask'[q].source
    BY DEF Foreseen
  <2>1. q = p
    BY DEF Alone
  <2> QED
    BY <1>1, <1>3, <1>4, <1>5, <1>6, <2>1
<1>8. Covered' /\ Telling'
  BY <1>1 DEF TInv, Covered, Telling
<1> QED
  BY <1>7, <1>8

LEMMA BeforeTurnTInv ==
  ASSUME TInv, Alone, NEW p \in Summarizers, BeforeTurn(p)
  PROVE  Foreseen' /\ Covered' /\ Telling'
<1>1. SInv
  BY DEF TInv
<1>2. pendingTask'[p] = NoTask
  BY <1>1 DEF BeforeTurn, Unpended, Unpend, SInv, Pending
<1>3. Foreseen'
  <2>1. \A q \in Summarizers : pendingTask'[q] = NoTask
    BY <1>2 DEF Alone
  <2> QED
    BY <2>1 DEF Foreseen
<1>4. told' = told /\ byTag' = byTag
  BY DEF BeforeTurn, Collapse, vars
<1>5. Telling'
  BY <1>4 DEF TInv, Telling
<1>6. Covered'
  <2>1. CASE UNCHANGED <<vars, writing>>
    BY <2>1 DEF vars, TInv, Covered
  <2>2. CASE /\ pendingSummary[p] # {} /\ writing' = pendingSummary[p]
             /\ Collapse(pendingRange[p].s, pendingRange[p].e)
    <3>1. op'.tags = {t \in Listed : Overlaps(t, pendingRange[p].s, pendingRange[p].e)}
      BY <1>1, <2>2, CollapseFacts
    <3>2. pendingTask[p] # NoTask /\ pendingTask[p].source = pendingSummary[p]
      BY <1>1, <2>2 DEF SInv, Pending
    <3>3. \A t \in op'.tags : Nums(t) \subseteq pendingTask[p].source
      BY <3>1, <3>2 DEF TInv, Foreseen
    <3> QED
      BY <2>2, <3>2, <3>3 DEF Covered
  <2> QED
    BY <2>1, <2>2 DEF BeforeTurn
<1> QED
  BY <1>3, <1>5, <1>6

LEMMA ArchiveTInv ==
  ASSUME TInv, Alone, NEW n \in DOMAIN active, Archive(n)
  PROVE  Foreseen' /\ Covered' /\ Telling'
<1>1. /\ \A p \in Summarizers : pendingTask[p] = NoTask
      /\ writing' = {} /\ told' = told /\ pendingTask' = pendingTask /\ byTag' = byTag
  BY DEF Archive, Alone, Collapse, mine
<1> QED
  BY <1>1 DEF TInv, Foreseen, Covered, Telling

LEMMA CollapseOnTInv ==
  ASSUME TInv, CollapseOn
  PROVE  Foreseen' /\ Covered' /\ Telling'
<1>1. SInv /\ Texts
  BY DEF TInv, SInv
<1>2. pendingTask' = pendingTask /\ writing' = writing
  BY DEF CollapseOn, mine
<1>3. CASE StoreSummary
  <2>1. /\ op.phase = "archiving"
        /\ DOMAIN byTag' = DOMAIN byTag \cup {op'.sum}
        /\ byTag'[op'.sum].children = op.tags
        /\ \A t \in DOMAIN byTag : t # op'.sum => byTag'[t] = byTag[t]
        /\ op'.phase = "stored"
    BY <1>1, <1>3, StoreSummaryFacts
  <2>2. Foreseen' /\ Covered'
    BY <1>2, <2>1 DEF TInv, Foreseen, Covered
  <2>3. CASE writing # {} /\
             told' = [t \in DOMAIN told \cup {op'.sum} |-> IF t = op'.sum THEN writing ELSE told[t]]
    <3> SUFFICES ASSUME NEW t \in DOMAIN told', NEW c \in byTag'[t].children
                 PROVE  Nums(c) \subseteq told'[t]
      BY <2>2 DEF Telling
    <3>1. CASE t = op'.sum
      BY <2>1, <2>3, <3>1 DEF TInv, Covered
    <3>2. CASE t # op'.sum
      <4>1. t \in DOMAIN told /\ told'[t] = told[t] /\ byTag'[t] = byTag[t]
        BY <1>1, <2>1, <2>3, <3>2 DEF Texts
      <4> QED
        BY <4>1 DEF TInv, Telling
    <3> QED
      BY <3>1, <3>2
  <2>4. CASE told' = [t \in DOMAIN told \ {op'.sum} |-> told[t]]
    <3> SUFFICES ASSUME NEW t \in DOMAIN told', NEW c \in byTag'[t].children
                 PROVE  Nums(c) \subseteq told'[t]
      BY <2>2 DEF Telling
    <3>1. t \in DOMAIN told /\ told'[t] = told[t] /\ byTag'[t] = byTag[t]
      BY <1>1, <2>1, <2>4 DEF Texts
    <3> QED
      BY <3>1 DEF TInv, Telling
  <2> QED
    BY <1>1, <1>3, <2>3, <2>4, CollapseOnFacts
<1>4. CASE ~StoreSummary
  <2>1. /\ ArchiveNext \/ UnlistSummary \/ PlaceSummary
        /\ told' = told
    BY <1>1, <1>4, CollapseOnFacts
  <2>2. /\ op.phase # "idle"
        /\ \A t \in DOMAIN byTag : byTag'[t].children = byTag[t].children
        /\ op'.phase = "archiving" => op.phase = "archiving" /\ op'.tags = op.tags
    BY <1>1, <2>1, OtherCallsFacts
  <2>3. Foreseen' /\ Covered'
    BY <1>2, <2>2 DEF TInv, Foreseen, Covered
  <2>4. Telling'
    BY <1>1, <2>1, <2>2, TellingKept DEF TInv
  <2> QED
    BY <2>3, <2>4
<1> QED
  BY <1>3, <1>4

LEMMA AddTInv ==
  ASSUME TInv, Add, UNCHANGED <<mine, writing, told>>
  PROVE  Foreseen' /\ Covered' /\ Telling'
<1>1. SInv
  BY DEF TInv
<1>2. /\ op' = op /\ op.phase = "idle" /\ next' = next + 1 /\ next \in Nat
      /\ Leaf(next).lo = next /\ Leaf(next).hi = next
  BY <1>1 DEF Add, SInv, IInv, TypeOK, Leaf
<1>3. Listed' \subseteq Listed \cup {Leaf(next)}
  <2>1. active' = Append(active, Leaf(next)) /\ active \in Seq(Tag)
    BY <1>1 DEF Add, SInv, IInv, TypeOK
  <2> QED
    BY <2>1 DEF Listed
<1>4. Foreseen'
  <2> SUFFICES ASSUME NEW p \in Summarizers, pendingTask[p] # NoTask
               PROVE  /\ op'.phase = "idle" /\ pendingRange[p].e < next'
                      /\ \A t \in Listed' : Overlaps(t, pendingRange[p].s, pendingRange[p].e) =>
                                              Nums(t) \subseteq pendingTask[p].source
    BY DEF Foreseen, mine
  <2>1. /\ pendingRange[p].e < next
        /\ \A t \in Listed : Overlaps(t, pendingRange[p].s, pendingRange[p].e) =>
                               Nums(t) \subseteq pendingTask[p].source
    BY DEF TInv, Foreseen
  <2>2. pendingTask[p] \in SumTasks /\ pendingTask[p].range = pendingRange[p]
    BY <1>1 DEF SInv, Pending
  <2>3. pendingRange[p].e \in Nat
    BY <2>2 DEF SumTasks, Ranges, Number
  <2>4. ~Overlaps(Leaf(next), pendingRange[p].s, pendingRange[p].e)
    BY <1>2, <2>1, <2>3 DEF Overlaps
  <2> QED
    BY <1>2, <1>3, <2>1, <2>3, <2>4
<1>5. Covered'
  BY <1>2 DEF Covered
<1>6. Telling'
  <2>1. \A t \in DOMAIN byTag : byTag'[t].children = byTag[t].children
    <3>1. \A t \in DOMAIN byTag : t.hi < next
      BY <1>1 DEF SInv, IInv, WellFormed
    <3>2. \A t \in DOMAIN byTag : t # Leaf(next)
      BY <1>2, <3>1
    <3> QED
      BY <3>2 DEF Add
  <2> QED
    BY <1>1, <2>1, TellingKept DEF TInv
<1> QED
  BY <1>4, <1>5, <1>6

LEMMA ForgetTInv ==
  ASSUME TInv, NEW t \in Tag, Forget(t)
  PROVE  Foreseen' /\ Covered' /\ Telling'
<1>1. SInv /\ Texts
  BY DEF TInv, SInv
<1>2. /\ op.phase = "idle" /\ op' = op /\ next' = next
      /\ byTag' = [u \in DOMAIN byTag \ {t} |-> byTag[u]]
      /\ active' = Unlist(active, t)
      /\ told' = [u \in DOMAIN told \ {t} |-> told[u]]
      /\ UNCHANGED <<mine, writing>>
  BY DEF Forget, Remove
<1>3. Listed' \subseteq Listed
  <2>1. Elems(Unlist(active, t)) \subseteq Elems(active)
    BY <1>1, <1>2, SortedUnlist DEF SInv, IInv, TypeOK, ActiveSorted, WellFormed, ListedStored, Listed
  <2> QED
    BY <1>2, <2>1 DEF Elems, Listed
<1>4. Foreseen'
  BY <1>2, <1>3 DEF mine, TInv, Foreseen
<1>5. Covered'
  BY <1>2 DEF Covered
<1>6. Telling'
  BY <1>1, <1>2 DEF TInv, Telling, Texts
<1> QED
  BY <1>4, <1>5, <1>6

LEMMA StepTInv == ASSUME TInv, Alone, [SNext]_svars PROVE TInv'
<1>1. SInv'
  BY StepSInv DEF TInv
<1>2. CASE SNext
  <2>1. ASSUME NEW task \in running, Finish(task) PROVE Foreseen' /\ Covered' /\ Telling'
    BY <2>1 DEF Finish, Summarized, vars, TInv, Foreseen, Covered, Telling, Listed
  <2> QED
    BY <1>1, <1>2, <2>1, AddTInv, ForgetTInv, CollapseOnTInv, AfterTurnTInv, BeforeTurnTInv, ArchiveTInv
    DEF SNext, Turns, TInv
<1>3. CASE UNCHANGED svars
  BY <1>1, <1>3 DEF svars, vars, mine, TInv, Foreseen, Covered, Telling, Listed
<1> QED
  BY <1>2, <1>3

-----------------------------------------------------------------------------
(* The theorems about summarizers.                                         *)

(* Whatever summarizers and the archiving runtime do, the log behaves like *)
(* an event log: they reach it through add, remove and collapse only.      *)
THEOREM LogIsEventLog == SSpec => Spec
<1>1. SInit => Init
  BY DEF SInit
<1>2. SInv /\ [SNext]_svars => [Next]_vars
  BY StepOfLog DEF svars
<1>3. SInit => SInv
  BY InitSInv
<1>4. SInv /\ [SNext]_svars => SInv'
  BY StepSInv
<1> QED
  BY <1>1, <1>2, <1>3, <1>4, PTL DEF SSpec, Spec

(* What a summarizer holds was written for the range it is going to        *)
(* collapse, and it has one task at most (_handle_after_turn's guard).     *)
THEOREM PendingIsFit == SSpec => []PendingFits
<1>1. SInit => SInv
  BY InitSInv
<1>2. SInv /\ [SNext]_svars => SInv'
  BY StepSInv
<1>3. ASSUME SInv PROVE PendingFits
  <2>1. Pending /\ Texts /\ TypeOK
    BY <1>3 DEF SInv, IInv
  <2>2. STypeOK
    <3>1. \A p \in Summarizers : pendingTask[p] = NoTask \/ pendingTask[p].by = p
      BY <2>1 DEF Pending
    <3> QED
      BY <2>1, <3>1 DEF STypeOK, Pending, Texts, TypeOK, SumTasks, Ranges
  <2>3. ASSUME NEW p \in Summarizers
        PROVE  Cardinality({task \in running : task.by = p}) <= 1
    <3> DEFINE R == {task \in running : task.by = p}
    <3>1. R \subseteq {pendingTask[p]}
      BY <2>1 DEF Pending
    <3>2. IsFiniteSet({pendingTask[p]}) /\ Cardinality({pendingTask[p]}) = 1
      BY FS_Singleton
    <3> HIDE DEF R
    <3>3. Cardinality(R) <= Cardinality({pendingTask[p]})
      BY <3>1, <3>2, FS_Subset
    <3> QED
      BY <3>2, <3>3 DEF R
  <2> QED
    BY <2>1, <2>2, <2>3 DEF PendingFits, Pending
<1> QED
  BY <1>1, <1>2, <1>3, PTL DEF SSpec

(* One summarizer, and no prompt refused while it has a summary pending:   *)
(* the text of a Summary was written from every event the Summary hides,   *)
(* although the log went on between (_apply_pending_summary).              *)
THEOREM TextsTellAll ==
  ASSUME ~RefusedPending, \A p, q \in Summarizers : p = q
  PROVE  SSpec => []SummaryTellsAll
<1>1. SInit => TInv
  BY InitTInv
<1>2. TInv /\ [SNext]_svars => TInv'
  BY StepTInv DEF Alone
<1>3. TInv => SummaryTellsAll
  BY DEF TInv, Telling, SummaryTellsAll
<1> QED
  BY <1>1, <1>2, <1>3, PTL DEF SSpec

=============================================================================
