---------------------------- MODULE SqliteProofs ----------------------------
(***************************************************************************)
(* Proofs about the SQLite backend of the event log, for any number of     *)
(* events, crashes and failed calls: what is listed is stored, positions   *)
(* are unique, the counter is ahead of every tag, no event is lost; and,   *)
(* without faults, the tables implement the in-memory log and keep all     *)
(* that is proved of it.                                                   *)
(***************************************************************************)
EXTENDS SqliteEvents, FiniteSetTheorems, WellFoundedInduction, TLAPS

-----------------------------------------------------------------------------
(* The greatest of a set of numbers.                                       *)

LEMMA LeastExists ==
  ASSUME NEW S, S \subseteq Nat, S # {}
  PROVE  \E m \in S : \A n \in S : m <= n
<1>1. IsWellFoundedOn(OpToRel(<, Nat), Nat)
  BY NatLessThanWellFounded
<1>2. PICK m \in S : \A y \in S : ~ (<<y, m>> \in OpToRel(<, Nat))
  BY <1>1, WFMin
<1>3. ASSUME NEW y \in S PROVE m <= y
  <2>1. m \in Nat /\ y \in Nat
    OBVIOUS
  <2>2. ASSUME y < m PROVE <<y, m>> \in OpToRel(<, Nat)
    BY <2>1, <2>2 DEF OpToRel
  <2>3. ~(y < m)
    <3>1. ~ (<<y, m>> \in OpToRel(<, Nat))
      BY <1>2
    <3>2. QED
      BY <3>1, <2>2, Zenon
  <2>4. QED
    BY <2>1, <2>3
<1>4. QED
  BY <1>3

LEMMA GreatestExists ==
  ASSUME NEW N \in Nat, NEW S, S \subseteq 0..N, S # {}
  PROVE  \E m \in S : \A n \in S : n <= m
<1> DEFINE T == {N - n : n \in S}
<1>1. \A n \in S : n \in Nat /\ N - n \in Nat
  OBVIOUS
<1>2. T \subseteq Nat /\ T # {}
  BY <1>1
<1>3. PICK m \in T : \A n \in T : m <= n
  <2> HIDE DEF T
  <2> QED
    BY <1>2, LeastExists
<1>4. PICK k \in S : m = N - k
  OBVIOUS
<1>5. ASSUME NEW n \in S PROVE n <= k
  <2>1. N - n \in T
    OBVIOUS
  <2>2. N - k <= N - n
    BY <1>3, <1>4, <2>1
  <2> QED
    BY <1>1, <2>2
<1> QED
  BY <1>5

(* Greatest is an upper bound, and a member or the default.                *)
LEMMA GreatestFacts ==
  ASSUME NEW N \in Nat, NEW S, S \subseteq 0..N, NEW d \in Int
  PROVE  /\ \A n \in S : n <= Greatest(S, d)
         /\ Greatest(S, d) \in S \cup {d}
<1>1. CASE S = {}
  BY <1>1 DEF Greatest
<1>2. CASE S # {}
  <2>1. \E m \in S : \A n \in S : n <= m
    BY <1>2, GreatestExists
  <2>2. Greatest(S, d) = CHOOSE m \in S : \A n \in S : n <= m
    BY <1>2 DEF Greatest
  <2> QED
    BY <2>1, <2>2
<1> QED
  BY <1>1, <1>2

-----------------------------------------------------------------------------
(* The inductive invariant.                                                *)

OpRecord == [phase : {"idle", "archiving", "stored", "placing"}, tags : SUBSET Log!Tag,
             todo : SUBSET Log!Tag, first : Int, at : Nat, sum : Log!Tag]

(* A finite table of positions, which are bounded.                         *)
RowsOK(q) == /\ DOMAIN q \subseteq Log!Tag /\ q \in [DOMAIN q -> Nat]
             /\ IsFiniteSet(DOMAIN q)
             /\ \E M \in Nat : \A u \in DOMAIN q : q[u] <= M

(* What TypeOK leaves open: op is a record, the table is finite.           *)
Tables ==
  /\ TypeOK
  /\ op \in OpRecord
  /\ RowsOK(position)

(* Only the archiving loop marks; a Summary being placed is stored.        *)
MarkedWhileArchiving == op.phase # "archiving" => marked = {}
SummaryStored == op.phase \in {"stored", "placing"} => op.sum \in DOMAIN events

Inv == Tables /\ PositionsUnique /\ ListedStored /\ MarkedWhileArchiving /\ SummaryStored
       /\ CounterAhead /\ EventsKept

USE DEF Listed

(* A row at the end of the list.                                           *)
LEMMA NewPositionFacts ==
  ASSUME Tables
  PROVE  NewPosition \in Nat /\ \A t \in Listed : position[t] < NewPosition
<1>1. PICK N \in Nat : \A t \in Listed : position[t] <= N
  BY DEF Tables, RowsOK
<1> DEFINE S == {position[t] : t \in Listed}
<1>2. S \subseteq 0..N /\ \A t \in Listed : position[t] \in S /\ position[t] \in Nat
  BY <1>1 DEF Tables, TypeOK
<1>3. /\ \A n \in S : n <= Greatest(S, -1)
      /\ Greatest(S, -1) \in S \cup {-1}
  <2>1. S \subseteq 0..N /\ -1 \in Int
    BY <1>2
  <2> HIDE DEF S
  <2> QED
    BY <2>1, GreatestFacts
<1>4. NewPosition = Greatest(S, -1) + 1
  BY DEF NewPosition
<1> HIDE DEF S
<1>5. Greatest(S, -1) \in Int /\ Greatest(S, -1) >= -1
  <2>1. \A n \in S \cup {-1} : n \in Int /\ n >= -1
    BY <1>2
  <2> QED
    BY <1>3, <2>1
<1> QED
  BY <1>2, <1>3, <1>4, <1>5

(* A row more, a row less.                                                 *)
LEMMA RowAdded ==
  ASSUME NEW p, RowsOK(p), NEW t \in Log!Tag, NEW n \in Nat
  PROVE  /\ RowsOK(With(p, t, n)) /\ DOMAIN With(p, t, n) = DOMAIN p \cup {t}
         /\ \A u \in DOMAIN p \cup {t} : With(p, t, n)[u] = IF u = t THEN n ELSE p[u]
<1> DEFINE q == With(p, t, n)
<1>1. DOMAIN q = DOMAIN p \cup {t} /\ \A u \in DOMAIN q : q[u] = IF u = t THEN n ELSE p[u]
  BY DEF With
<1>2. DOMAIN q \subseteq Log!Tag
  BY <1>1 DEF RowsOK
<1>3. IsFiniteSet(DOMAIN q)
  BY <1>1, FS_AddElement DEF RowsOK
<1>4. \A u \in DOMAIN q : q[u] \in Nat
  BY <1>1 DEF RowsOK
<1>5. q \in [DOMAIN q -> Nat]
  BY <1>4 DEF With
<1>6. PICK N \in Nat : \A u \in DOMAIN p : p[u] <= N
  BY DEF RowsOK
<1>7. \A u \in DOMAIN q : q[u] <= N + n
  BY <1>1, <1>6 DEF RowsOK
<1>8. N + n \in Nat
  BY <1>6
<1> HIDE DEF q
<1>9. RowsOK(q) /\ DOMAIN q = DOMAIN p \cup {t} /\ \A u \in DOMAIN p \cup {t} : q[u] = IF u = t THEN n ELSE p[u]
  BY <1>1, <1>2, <1>3, <1>5, <1>7, <1>8 DEF RowsOK
<1> QED
  BY <1>9 DEF q

LEMMA RowRemoved ==
  ASSUME NEW p, RowsOK(p), NEW t
  PROVE  /\ RowsOK(Without(p, t)) /\ DOMAIN Without(p, t) = DOMAIN p \ {t}
         /\ \A u \in DOMAIN p \ {t} : Without(p, t)[u] = p[u]
<1> DEFINE q == Without(p, t)
<1>1. DOMAIN q = DOMAIN p \ {t} /\ \A u \in DOMAIN q : q[u] = p[u]
  BY DEF Without
<1>2. IsFiniteSet(DOMAIN q)
  BY <1>1, FS_Subset DEF RowsOK
<1>3. q \in [DOMAIN q -> Nat]
  BY <1>1 DEF Without, RowsOK
<1> HIDE DEF q
<1>4. RowsOK(q) /\ DOMAIN q = DOMAIN p \ {t} /\ \A u \in DOMAIN p \ {t} : q[u] = p[u]
  BY <1>1, <1>2, <1>3 DEF RowsOK
<1> QED
  BY <1>4 DEF q

(* store() puts a row at the end.                                          *)
LEMMA NewRow ==
  ASSUME Tables, NEW tag \in Log!Tag
  PROVE  LET q == With(position, tag, NewPosition)
         IN /\ RowsOK(q) /\ DOMAIN q = Listed \cup {tag}
            /\ \A u \in Listed \cup {tag} : q[u] = IF u = tag THEN NewPosition ELSE position[u]
<1> DEFINE place == NewPosition
           rows == position
<1>1. RowsOK(rows) /\ place \in Nat /\ DOMAIN rows = Listed
  BY NewPositionFacts DEF Tables
<1> HIDE DEF place, rows
<1>2. RowsOK(With(rows, tag, place)) /\ DOMAIN With(rows, tag, place) = DOMAIN rows \cup {tag}
  BY <1>1, RowAdded
<1>3. \A u \in DOMAIN rows \cup {tag} : With(rows, tag, place)[u] = IF u = tag THEN place ELSE rows[u]
  BY DEF With
<1> QED
  BY <1>1, <1>2, <1>3 DEF rows, place

(* An event stored under a tag of numbers below next.                      *)
LEMMA EventStored ==
  ASSUME Tables, NEW t \in Log!Tag, NEW v \in Log!Event
  PROVE  /\ DOMAIN With(events, t, v) = DOMAIN events \cup {t}
         /\ DOMAIN With(events, t, v) \subseteq Log!Tag
         /\ With(events, t, v) \in [DOMAIN With(events, t, v) -> Log!Event]
BY DEF With, Tables, TypeOK

(* max_tag_num() is the end of the highest tag.                            *)
LEMMA MaxTagNumFacts ==
  ASSUME Tables
  PROVE  MaxTagNum \in 0..MaxTag /\ \A t \in DOMAIN events : t.hi <= MaxTagNum
<1> DEFINE S == {t.hi : t \in DOMAIN events}
<1>1. /\ MaxTag \in Nat /\ S \subseteq 0..MaxTag /\ \A t \in DOMAIN events : t.hi \in S
  BY ConstantsAssumption DEF Tables, TypeOK, Log!Tag, Log!Number
<1>2. MaxTagNum = Greatest(S, 0)
  BY DEF MaxTagNum
<1>3. 0 \in Int
  OBVIOUS
<1> HIDE DEF S
<1>4. MaxTag \in Nat /\ S \subseteq 0..MaxTag
  BY <1>1
<1>5. /\ \A n \in S : n <= Greatest(S, 0)
      /\ Greatest(S, 0) \in S \cup {0}
  BY <1>3, <1>4, GreatestFacts
<1>6. Greatest(S, 0) \in 0..MaxTag
  <2>1. S \cup {0} \subseteq 0..MaxTag
    BY <1>4
  <2> QED
    BY <1>5, <2>1
<1> QED
  BY <1>1, <1>2, <1>5, <1>6

(* The greater of two numbers.                                             *)
LEMMA GreaterFacts ==
  ASSUME NEW a \in Nat, NEW b \in Nat
  PROVE  Greatest({a, b}, 1) \in {a, b} /\ a <= Greatest({a, b}, 1) /\ b <= Greatest({a, b}, 1)
<1>1. {a, b} \subseteq 0..(a + b) /\ a + b \in Nat /\ {a, b} # {}
  OBVIOUS
<1>2. PICK m \in {a, b} : \A n \in {a, b} : n <= m
  BY <1>1, GreatestExists
<1>3. Greatest({a, b}, 1) = CHOOSE k \in {a, b} : \A n \in {a, b} : n <= k
  BY DEF Greatest
<1> QED
  BY <1>2, <1>3

-----------------------------------------------------------------------------
LEMMA InitInv == Init => Inv
<1> SUFFICES ASSUME Init PROVE Inv
  OBVIOUS
<1>1. Log!Leaf(1) \in Log!Tag
  BY ConstantsAssumption DEF Log!Leaf, Log!Tag, Log!Number
<1>2. op \in OpRecord
  BY <1>1 DEF Init, Log!Idle, OpRecord
<1>3. DOMAIN position = {} /\ DOMAIN events = {} /\ op.phase = "idle"
  BY DEF Init, NoEvents, Log!Idle
<1>4. RowsOK(position)
  BY <1>3, FS_EmptySet DEF RowsOK, Init
<1>5. TypeOK
  BY <1>1, <1>2, <1>3, FS_EmptySet, ConstantsAssumption DEF TypeOK, Init, OpRecord, NoEvents, Log!Idle
<1> QED
  BY <1>2, <1>3, <1>4, <1>5
     DEF Inv, Tables, PositionsUnique, ListedStored, MarkedWhileArchiving, SummaryStored, CounterAhead, EventsKept, Init

LEMMA AddInv == ASSUME Inv, Add PROVE Inv'
<1> USE DEF Inv, Tables
<1>1. next \in 1..MaxTag /\ next' = next + 1 /\ UNCHANGED <<op, marked, removed, hidden, faulty>>
  BY DEF Add, TypeOK
<1>2. next' \in 1..(MaxTag + 1) /\ Log!Leaf(next) \in Log!Tag /\ Log!Leaf(next).hi = next /\ next \in Log!Number
  BY <1>1, ConstantsAssumption DEF Log!Leaf, Log!Tag, Log!Number
<1>3. CASE Log!Leaf(next) \in DOMAIN events
  <2>1. UNCHANGED <<events, position, added>>
    BY <1>3 DEF Add
  <2>2. CounterAhead'
    BY <1>1, <2>1 DEF CounterAhead, TypeOK, Log!Tag, Log!Number
  <2> QED
    BY <1>1, <1>2, <2>1, <2>2 DEF TypeOK, RowsOK, PositionsUnique, ListedStored, MarkedWhileArchiving, SummaryStored, EventsKept
<1>4. CASE Log!Leaf(next) \notin DOMAIN events
  <2> DEFINE t == Log!Leaf(next)
             v == [status |-> "active", children |-> {}]
  <2>1. events' = With(events, t, v) /\ position' = With(position, t, NewPosition) /\ added' = added \cup {next}
    BY <1>4 DEF Add
  <2>2. t \in Log!Tag /\ t.hi = next /\ t \notin DOMAIN events /\ v \in Log!Event
    BY <1>2, <1>4 DEF Log!Event
  <2>3. /\ RowsOK(position') /\ DOMAIN position' = Listed \cup {t}
        /\ \A u \in DOMAIN position' : position'[u] = IF u = t THEN NewPosition ELSE position[u]
    <3> DEFINE q == With(position, t, NewPosition)
    <3>1. /\ RowsOK(q) /\ DOMAIN q = Listed \cup {t}
          /\ \A u \in Listed \cup {t} : q[u] = IF u = t THEN NewPosition ELSE position[u]
      BY <2>2, NewRow
    <3>2. position' = q
      BY <2>1
    <3> HIDE DEF q
    <3> QED
      BY <3>1, <3>2
  <2>4. /\ DOMAIN events' = DOMAIN events \cup {t} /\ DOMAIN events' \subseteq Log!Tag
        /\ events' \in [DOMAIN events' -> Log!Event]
    BY <2>1, <2>2, EventStored
  <2> HIDE DEF t, v
  <2>5. PositionsUnique'
    BY <2>3, NewPositionFacts DEF PositionsUnique, TypeOK
  <2>6. ListedStored'
    BY <2>3, <2>4 DEF ListedStored
  <2>7. CounterAhead'
    BY <1>1, <2>2, <2>4 DEF CounterAhead, TypeOK, Log!Tag, Log!Number
  <2>8. EventsKept'
    BY <1>1, <2>1, <2>4 DEF EventsKept, t
  <2>9. TypeOK'
    BY <1>1, <1>2, <2>1, <2>3, <2>4 DEF TypeOK, RowsOK
  <2> QED
    BY <1>1, <2>3, <2>4, <2>5, <2>6, <2>7, <2>8, <2>9 DEF MarkedWhileArchiving, SummaryStored
<1> QED
  BY <1>3, <1>4

LEMMA CollapseInv == ASSUME Inv, NEW s \in Log!Number, NEW e \in Log!Number, Collapse(s, e) PROVE Inv'
<1> USE DEF Inv, Tables
<1> DEFINE tags == {t \in Listed : Log!Overlaps(t, s, e)}
<1>1. PICK k \in DOMAIN Order :
         /\ Log!IsFirst(Order, tags, k)
         /\ op' = [Log!Idle EXCEPT !.phase = "archiving", !.tags = tags, !.todo = tags, !.first = Order[k].lo]
  BY DEF Collapse
<1>2. UNCHANGED <<position, events, next, marked, history>> /\ op.phase = "idle"
  BY DEF Collapse
<1>3. Order[k] \in Log!Tag /\ tags \subseteq Log!Tag
  BY <1>1 DEF Log!IsFirst, TypeOK
<1>4. Order[k].lo \in Int /\ Log!Leaf(1) \in Log!Tag
  BY <1>3, ConstantsAssumption DEF Log!Tag, Log!Number, Log!Leaf
<1>5. op' = [phase |-> "archiving", tags |-> tags, todo |-> tags, first |-> Order[k].lo, at |-> 0, sum |-> Log!Leaf(1)]
  BY <1>1 DEF Log!Idle
<1> HIDE DEF tags
<1>6. op' \in OpRecord /\ op'.phase = "archiving" /\ op'.todo = op'.tags
  BY <1>3, <1>4, <1>5 DEF OpRecord
<1>7. marked = {}
  BY <1>2 DEF MarkedWhileArchiving
<1> QED
  BY <1>2, <1>6, <1>7
     DEF TypeOK, RowsOK, OpRecord, PositionsUnique, ListedStored, MarkedWhileArchiving, SummaryStored, CounterAhead, EventsKept, history

LEMMA MarkInv == ASSUME Inv, Mark PROVE Inv'
<1> USE DEF Inv, Tables
<1>1. PICK k \in DOMAIN Order :
        Log!IsFirst(Order, op.todo, k) /\ MarkRow(Order[k]) /\ marked' = {Order[k]}
  BY DEF Mark
<1> DEFINE t == Order[k]
<1>2. UNCHANGED <<position, next, op, history>> /\ op.phase = "archiving"
  BY DEF Mark
<1>3. t \in op.todo /\ marked' = {t} /\ events' = [events EXCEPT ![t].status = "archived"]
  BY <1>1 DEF Log!IsFirst, MarkRow
<1> HIDE DEF t
<1>4. \A v \in Log!Event : [v EXCEPT !.status = "archived"] \in Log!Event
  BY DEF Log!Event
<1>5. DOMAIN events' = DOMAIN events /\ events' \in [DOMAIN events -> Log!Event]
  BY <1>3, <1>4 DEF TypeOK
<1>6. Cardinality(marked') <= 1
  BY <1>3, FS_Singleton
<1>7. TypeOK'
  BY <1>2, <1>3, <1>5, <1>6 DEF TypeOK, history
<1> QED
  BY <1>2, <1>5, <1>7
     DEF RowsOK, PositionsUnique, ListedStored, MarkedWhileArchiving, SummaryStored, CounterAhead, EventsKept, history

LEMMA UnlistMarkedInv == ASSUME Inv, UnlistMarked PROVE Inv'
<1> USE DEF Inv, Tables
<1>1. PICK t \in marked : /\ position' = Without(position, t) /\ events' = events
                          /\ op' = [op EXCEPT !.todo = @ \ {t}]
  BY DEF UnlistMarked, DeleteRow
<1>2. marked' = {} /\ UNCHANGED <<next, history>> /\ op.phase = "archiving"
  BY DEF UnlistMarked, MarkedWhileArchiving
<1>3. /\ RowsOK(position') /\ DOMAIN position' = Listed \ {t}
      /\ \A u \in DOMAIN position' : position'[u] = position[u]
  <2>1. RowsOK(position)
    OBVIOUS
  <2>2. /\ RowsOK(Without(position, t)) /\ DOMAIN Without(position, t) = Listed \ {t}
        /\ \A u \in Listed \ {t} : Without(position, t)[u] = position[u]
    BY <2>1, RowRemoved
  <2> QED
    BY <1>1, <2>2
<1>4. op' \in OpRecord /\ op'.phase = "archiving" /\ op'.todo \subseteq op'.tags
  BY <1>1, <1>2 DEF OpRecord, TypeOK
<1>5. TypeOK'
  BY <1>1, <1>2, <1>3, <1>4, FS_EmptySet DEF TypeOK, RowsOK, OpRecord, history
<1> QED
  BY <1>1, <1>2, <1>3, <1>4, <1>5
     DEF PositionsUnique, ListedStored, MarkedWhileArchiving, SummaryStored, CounterAhead, EventsKept, history

LEMMA IdleOp == Log!Idle \in OpRecord /\ Log!Idle.phase = "idle" /\ Log!Idle.todo = {} /\ Log!Idle.tags = {}
<1>1. Log!Leaf(1) \in Log!Tag
  BY ConstantsAssumption DEF Log!Leaf, Log!Tag, Log!Number
<1> QED
  BY <1>1 DEF Log!Idle, OpRecord

(* collapse() is left: op is idle again and nothing else changes but next. *)
LEMMA GiveUpInv ==
  ASSUME Inv, op' = Log!Idle, marked' = {}, UNCHANGED <<position, events, history>>,
         next' \in 1..(MaxTag + 1), \A t \in DOMAIN events : t.hi < next'
  PROVE  Inv'
<1> USE DEF Inv, Tables
<1>1. op' \in OpRecord /\ op'.phase = "idle" /\ op'.todo = {} /\ op'.tags = {}
  BY IdleOp
<1>2. TypeOK'
  BY <1>1, FS_EmptySet DEF TypeOK, OpRecord, history
<1> QED
  BY <1>1, <1>2
     DEF RowsOK, PositionsUnique, ListedStored, MarkedWhileArchiving, SummaryStored, CounterAhead, EventsKept, history

LEMMA StoreSummaryInv == ASSUME Inv, StoreSummary PROVE Inv'
<1> USE DEF Inv, Tables
<1>1. PICK lo \in Log!Number, hi \in Log!Number, k \in 0..Cardinality(Listed) :
        /\ Log!InsertIndex(k)
        /\ LET sum == [lo |-> lo, hi |-> hi, range |-> TRUE]
           IN IF sum \in DOMAIN events
              THEN /\ op' = Log!Idle
                   /\ UNCHANGED <<events, position, next>>
              ELSE /\ events'   = With(events, sum, [status |-> "active", children |-> op.tags])
                   /\ position' = With(position, sum, NewPosition)
                   /\ next'     = Greatest({next, hi + 1}, 1)
                   /\ op'       = [op EXCEPT !.phase = "stored", !.at = k, !.sum = sum]
  BY DEF StoreSummary
<1> DEFINE sum == [lo |-> lo, hi |-> hi, range |-> TRUE]
           v == [status |-> "active", children |-> op.tags]
<1>2. UNCHANGED <<marked, history>> /\ op.phase = "archiving" /\ marked = {}
  BY DEF StoreSummary, TypeOK
<1>3. CASE sum \in DOMAIN events
  <2>1. op' = Log!Idle /\ UNCHANGED <<events, position, next>>
    BY <1>1, <1>3
  <2> QED
    BY <1>2, <2>1, GiveUpInv DEF TypeOK, CounterAhead
<1>4. CASE sum \notin DOMAIN events
  <2>1. /\ events'   = With(events, sum, v)
        /\ position' = With(position, sum, NewPosition)
        /\ next'     = Greatest({next, hi + 1}, 1)
        /\ op'       = [op EXCEPT !.phase = "stored", !.at = k, !.sum = sum]
    BY <1>1, <1>4
  <2>2. sum \in Log!Tag /\ sum.hi = hi /\ v \in Log!Event
    BY DEF Log!Tag, Log!Event, TypeOK
  <2>3. RowsOK(position) /\ NewPosition \in Nat /\ Cardinality(Listed) \in Nat
    BY NewPositionFacts, FS_CardinalityType DEF RowsOK
  <2>4. k \in Nat
    BY <2>3
  <2>5. next \in Nat /\ hi + 1 \in Nat /\ next \in 1..(MaxTag + 1) /\ hi + 1 \in 1..(MaxTag + 1)
    BY ConstantsAssumption DEF TypeOK, Log!Number
  <2>6. next' \in 1..(MaxTag + 1) /\ next <= next' /\ hi < next'
    <3>1. /\ Greatest({next, hi + 1}, 1) \in {next, hi + 1}
          /\ next <= Greatest({next, hi + 1}, 1) /\ hi + 1 <= Greatest({next, hi + 1}, 1)
      BY <2>5, GreaterFacts
    <3>2. hi \in Nat
      BY DEF Log!Number
    <3> QED
      BY <2>1, <2>5, <3>1, <3>2
  <2> HIDE DEF sum, v
  <2>7. /\ RowsOK(position') /\ DOMAIN position' = Listed \cup {sum}
        /\ \A u \in DOMAIN position' : position'[u] = IF u = sum THEN NewPosition ELSE position[u]
    <3> DEFINE q == With(position, sum, NewPosition)
    <3>1. /\ RowsOK(q) /\ DOMAIN q = Listed \cup {sum}
          /\ \A u \in Listed \cup {sum} : q[u] = IF u = sum THEN NewPosition ELSE position[u]
      BY <2>2, NewRow
    <3>2. position' = q
      BY <2>1
    <3> HIDE DEF q
    <3> QED
      BY <3>1, <3>2
  <2>8. /\ DOMAIN events' = DOMAIN events \cup {sum} /\ DOMAIN events' \subseteq Log!Tag
        /\ events' \in [DOMAIN events' -> Log!Event]
    BY <2>1, <2>2, EventStored
  <2>9. op' \in OpRecord /\ op'.phase = "stored" /\ op'.sum = sum /\ op'.todo = op.todo /\ op'.tags = op.tags
    BY <2>1, <2>2, <2>4 DEF OpRecord
  <2>10. TypeOK'
    BY <1>2, <2>6, <2>7, <2>8, <2>9 DEF TypeOK, RowsOK, OpRecord, history
  <2>11. PositionsUnique'
    BY <2>7, NewPositionFacts DEF PositionsUnique, TypeOK
  <2>12. CounterAhead'
    BY <2>2, <2>5, <2>6, <2>8 DEF CounterAhead, TypeOK, Log!Tag, Log!Number
  <2>13. EventsKept'
    BY <1>2, <2>8 DEF EventsKept, history
  <2> QED
    BY <1>2, <2>7, <2>8, <2>9, <2>10, <2>11, <2>12, <2>13 DEF ListedStored, MarkedWhileArchiving, SummaryStored
<1> QED
  BY <1>3, <1>4

LEMMA UnlistSummaryInv == ASSUME Inv, UnlistSummary PROVE Inv'
<1> USE DEF Inv, Tables
<1>1. /\ position' = Without(position, op.sum) /\ op.phase = "stored"
      /\ op' = [op EXCEPT !.phase = "placing"] /\ UNCHANGED <<events, next, marked, history>>
  BY DEF UnlistSummary
<1>2. /\ RowsOK(position') /\ DOMAIN position' = Listed \ {op.sum}
      /\ \A u \in DOMAIN position' : position'[u] = position[u]
  <2>1. RowsOK(position)
    OBVIOUS
  <2>2. /\ RowsOK(Without(position, op.sum)) /\ DOMAIN Without(position, op.sum) = Listed \ {op.sum}
        /\ \A u \in Listed \ {op.sum} : Without(position, op.sum)[u] = position[u]
    BY <2>1, RowRemoved
  <2> QED
    BY <1>1, <2>2
<1>3. op' \in OpRecord /\ op'.phase = "placing" /\ op'.sum = op.sum /\ op'.todo = op.todo /\ op'.tags = op.tags
  BY <1>1 DEF OpRecord
<1>4. TypeOK'
  BY <1>1, <1>2, <1>3 DEF TypeOK, RowsOK, OpRecord, history
<1> QED
  BY <1>1, <1>2, <1>3, <1>4
     DEF PositionsUnique, ListedStored, MarkedWhileArchiving, SummaryStored, CounterAhead, EventsKept, history

(* Room is made at a position.                                             *)
LEMMA ShiftedFacts ==
  ASSUME Inv, NEW i \in Nat, NEW p, p = Shifted(i)
  PROVE  /\ RowsOK(p) /\ DOMAIN p = Listed
         /\ \A t \in Listed : p[t] # i
         /\ \A t, u \in Listed : p[t] = p[u] => t = u
<1>1. DOMAIN p = Listed /\ \A t \in Listed : p[t] = IF position[t] >= i THEN position[t] + 1 ELSE position[t]
  BY DEF Shifted
<1>2. \A t \in Listed : position[t] \in Nat /\ p[t] \in Nat
  BY <1>1 DEF Inv, Tables, TypeOK
<1>3. PICK N \in Nat : \A t \in Listed : position[t] <= N
  BY DEF Inv, Tables, RowsOK
<1>4. \A t \in Listed : p[t] <= N + 1
  BY <1>1, <1>2, <1>3
<1>5. p \in [Listed -> Nat]
  BY <1>1, <1>2 DEF Shifted
<1>6. RowsOK(p)
  BY <1>1, <1>3, <1>4, <1>5 DEF Inv, Tables, RowsOK
<1>7. \A t, u \in Listed : p[t] = p[u] => position[t] = position[u]
  BY <1>1, <1>2
<1> QED
  BY <1>1, <1>2, <1>6, <1>7 DEF Inv, PositionsUnique

LEMMA PlaceSummaryInv == ASSUME Inv, PlaceSummary PROVE Inv'
<1> DEFINE p == Shifted(op.at)
<1>1. /\ position' = With(p, op.sum, op.at) /\ op.phase = "placing"
      /\ op' = Log!Idle /\ UNCHANGED <<events, next, marked, history>>
  BY DEF PlaceSummary
<1>2. op.at \in Nat /\ op.sum \in Log!Tag /\ marked = {} /\ op.sum \in DOMAIN events
  BY <1>1 DEF Inv, Tables, OpRecord, MarkedWhileArchiving, SummaryStored
<1>3. /\ RowsOK(p) /\ DOMAIN p = Listed
      /\ \A t \in Listed : p[t] # op.at
      /\ \A t, u \in Listed : p[t] = p[u] => t = u
  BY <1>2, ShiftedFacts
<1> HIDE DEF p
<1>4. /\ RowsOK(position') /\ DOMAIN position' = Listed \cup {op.sum}
      /\ \A u \in DOMAIN position' : position'[u] = IF u = op.sum THEN op.at ELSE p[u]
  <2>1. /\ RowsOK(With(p, op.sum, op.at)) /\ DOMAIN With(p, op.sum, op.at) = DOMAIN p \cup {op.sum}
        /\ \A u \in DOMAIN p \cup {op.sum} : With(p, op.sum, op.at)[u] = IF u = op.sum THEN op.at ELSE p[u]
    BY <1>2, <1>3, RowAdded
  <2> QED
    BY <1>1, <1>3, <2>1
<1>5. PositionsUnique'
  BY <1>3, <1>4 DEF PositionsUnique
<1>6. op' \in OpRecord /\ op'.phase = "idle" /\ op'.todo = {} /\ op'.tags = {}
  BY <1>1, IdleOp
<1>7. TypeOK'
  BY <1>1, <1>2, <1>4, <1>6 DEF Inv, Tables, TypeOK, RowsOK, OpRecord, history
<1> QED
  BY <1>1, <1>2, <1>4, <1>5, <1>6, <1>7
     DEF Inv, Tables, ListedStored, MarkedWhileArchiving, SummaryStored, CounterAhead, EventsKept, history

LEMMA RemoveInv == ASSUME Inv, NEW t \in Log!Tag, Remove(t) PROVE Inv'
<1> USE DEF Inv, Tables
<1>1. /\ op.phase = "idle" /\ events' = Without(events, t) /\ position' = Without(position, t)
      /\ removed' = removed \cup {t} /\ UNCHANGED <<next, op, marked, added, faulty>>
      /\ hidden' = IF t \in Listed THEN hidden \cup Log!Nums(t) ELSE hidden
  BY DEF Remove, UnlistRow
<1>2. /\ RowsOK(position') /\ DOMAIN position' = Listed \ {t}
      /\ \A u \in DOMAIN position' : position'[u] = position[u]
  <2>1. RowsOK(position)
    OBVIOUS
  <2>2. /\ RowsOK(Without(position, t)) /\ DOMAIN Without(position, t) = Listed \ {t}
        /\ \A u \in Listed \ {t} : Without(position, t)[u] = position[u]
    BY <2>1, RowRemoved
  <2> QED
    BY <1>1, <2>2
<1>3. DOMAIN events' = DOMAIN events \ {t} /\ events' \in [DOMAIN events' -> Log!Event]
  BY <1>1 DEF Without, TypeOK
<1>4. Log!Nums(t) \subseteq Log!Number
  BY ConstantsAssumption DEF Log!Nums, Log!Tag, Log!Number
<1>5. TypeOK'
  BY <1>1, <1>2, <1>3, <1>4 DEF TypeOK, RowsOK
<1> QED
  BY <1>1, <1>2, <1>3, <1>5
     DEF PositionsUnique, ListedStored, MarkedWhileArchiving, SummaryStored, CounterAhead, EventsKept

LEMMA ClearInv == ASSUME Inv, Clear PROVE Inv'
<1>1. DOMAIN position' = {} /\ DOMAIN events' = {} /\ next' = 1 /\ removed' = {} /\ hidden' = {} /\ added' = {}
      /\ UNCHANGED <<op, marked, faulty>> /\ op.phase = "idle"
  BY DEF Clear, NoEvents
<1>2. RowsOK(position')
  BY <1>1, FS_EmptySet DEF RowsOK, Clear
<1>3. TypeOK'
  BY <1>1, ConstantsAssumption DEF Inv, Tables, TypeOK, Clear, NoEvents
<1> QED
  BY <1>1, <1>2, <1>3
     DEF Inv, Tables, PositionsUnique, ListedStored, MarkedWhileArchiving, SummaryStored, CounterAhead, EventsKept

LEMMA StepInv == Inv /\ [Next]_vars => Inv'
<1> SUFFICES ASSUME Inv, [Next]_vars PROVE Inv'
  OBVIOUS
<1>1. ASSUME Crash PROVE Inv'
  <2>1. MaxTagNum \in 0..MaxTag /\ \A t \in DOMAIN events : t.hi <= MaxTagNum /\ t.hi \in Nat
    BY MaxTagNumFacts DEF Inv, Tables, TypeOK, Log!Tag, Log!Number
  <2> QED
    BY <1>1, <2>1, GiveUpInv, ConstantsAssumption DEF Crash
<1>2. ASSUME CallFails PROVE Inv'
  BY <1>2, GiveUpInv DEF CallFails, Inv, Tables, TypeOK, CounterAhead
<1>3. CASE UNCHANGED vars
  BY <1>3 DEF vars, history, Inv, Tables, RowsOK, TypeOK, PositionsUnique, ListedStored, MarkedWhileArchiving, SummaryStored,
              CounterAhead, EventsKept
<1> QED
  BY <1>1, <1>2, <1>3, AddInv, CollapseInv, MarkInv, UnlistMarkedInv, StoreSummaryInv, UnlistSummaryInv,
     PlaceSummaryInv, RemoveInv, ClearInv DEF Next, CollapseStep

LEMMA Invariant == Spec => []Inv
BY InitInv, StepInv, PTL DEF Spec

(***************************************************************************)
(* The tables and the collapse in progress keep their types.               *)
(***************************************************************************)
THEOREM TypesHold == Spec => []TypeOK
<1>1. Inv => TypeOK
  BY DEF Inv, Tables
<1> QED
  BY <1>1, Invariant, PTL

(***************************************************************************)
(* No tag without an event is listed, wherever a collapse was interrupted. *)
(***************************************************************************)
THEOREM ListedAreStored == Spec => []ListedStored
<1>1. Inv => ListedStored
  BY DEF Inv
<1> QED
  BY <1>1, Invariant, PTL

(***************************************************************************)
(* ORDER BY position is a total order of the active list.                  *)
(***************************************************************************)
THEOREM PositionsAreUnique == Spec => []PositionsUnique
<1>1. Inv => PositionsUnique
  BY DEF Inv
<1> QED
  BY <1>1, Invariant, PTL

(***************************************************************************)
(* add() never meets a tag that is already in the table, also not after a  *)
(* restart.                                                                *)
(***************************************************************************)
THEOREM CounterIsAhead == Spec => []CounterAhead
<1>1. Inv => CounterAhead
  BY DEF Inv
<1> QED
  BY <1>1, Invariant, PTL

(***************************************************************************)
(* An event that was added can be read until it is removed.                *)
(***************************************************************************)
THEOREM EventsAreKept == Spec => []EventsKept
<1>1. Inv => EventsKept
  BY DEF Inv
<1> QED
  BY <1>1, Invariant, PTL

(***************************************************************************)
(* After any crash and any failed call the two tables fit together: the    *)
(* rows of active_tags have an order, each names a stored event, and no    *)
(* stored event is lost (SqliteEventBackend, one transaction per call).    *)
(***************************************************************************)
THEOREM TablesAreWhole == Spec => []TablesWhole
<1> QED
  BY PositionsAreUnique, ListedAreStored, EventsAreKept, PTL DEF TablesWhole

-----------------------------------------------------------------------------
(* Without faults, and with collapses at the front, the tables implement   *)
(* the in-memory log.  First, the active list as a sequence.               *)

\* s lists the rows of table p by position.
Ranks(p, s) ==
  /\ s \in Seq(DOMAIN p)
  /\ \A t \in DOMAIN p : \E i \in DOMAIN s : s[i] = t
  /\ \A i, j \in DOMAIN s : i < j => p[s[i]] < p[s[j]]

OrderOf(p) == [i \in 1..Cardinality(DOMAIN p) |->
                 CHOOSE t \in DOMAIN p : Cardinality({u \in DOMAIN p : p[u] < p[t]}) = i - 1]

LEMMA RanksFacts ==
  ASSUME NEW p, RowsOK(p), NEW s, Ranks(p, s)
  PROVE  /\ Len(s) \in Nat /\ DOMAIN s = 1..Len(s) /\ s \in [1..Len(s) -> DOMAIN p]
         /\ \A t \in DOMAIN p : p[t] \in Nat
         /\ \A i, j \in 1..Len(s) : p[s[i]] < p[s[j]] <=> i < j
         /\ \A i, j \in 1..Len(s) : s[i] = s[j] => i = j
         /\ \A t \in DOMAIN p : \E i \in 1..Len(s) : s[i] = t
<1>1. Len(s) \in Nat /\ DOMAIN s = 1..Len(s) /\ s \in [1..Len(s) -> DOMAIN p]
  BY DEF Ranks
<1>2. \A t \in DOMAIN p : p[t] \in Nat
  BY DEF RowsOK
<1>3. \A i \in 1..Len(s) : s[i] \in DOMAIN p /\ p[s[i]] \in Nat /\ i \in Nat
  BY <1>1, <1>2
<1>4. \A i, j \in 1..Len(s) : i < j => p[s[i]] < p[s[j]]
  BY <1>1 DEF Ranks
<1>5. ASSUME NEW i \in 1..Len(s), NEW j \in 1..Len(s)
      PROVE  /\ p[s[i]] < p[s[j]] <=> i < j
             /\ s[i] = s[j] => i = j
  <2>1. p[s[i]] \in Nat /\ p[s[j]] \in Nat /\ i \in Nat /\ j \in Nat
    BY <1>3
  <2>2. i < j => p[s[i]] < p[s[j]]
    BY <1>4
  <2>3. j < i => p[s[j]] < p[s[i]]
    BY <1>4
  <2> QED
    BY <2>1, <2>2, <2>3
<1>6. \A t \in DOMAIN p : \E i \in 1..Len(s) : s[i] = t
  BY <1>1 DEF Ranks
<1> QED
  BY <1>1, <1>2, <1>5, <1>6

\* As many elements as indices.
Firsts(s, k) == {s[j] : j \in 1..k}

LEMMA ImageCard ==
  ASSUME NEW n \in Nat, NEW D, NEW s \in [1..n -> D], \A i, j \in 1..n : s[i] = s[j] => i = j,
         NEW k \in 0..n
  PROVE  Cardinality(Firsts(s, k)) = k
<1> DEFINE T == {s[j] : j \in 1..k}
           f == [j \in 1..k |-> s[j]]
<1>1. k \in Nat /\ \A j \in 1..k : j \in 1..n
  OBVIOUS
<1>2. f \in Bijection(1..k, T)
  <2>1. f \in [1..k -> T]
    OBVIOUS
  <2>2. \A i, j \in 1..k : f[i] = f[j] => i = j
    BY <1>1
  <2>3. \A t \in T : \E j \in 1..k : f[j] = t
    OBVIOUS
  <2> HIDE DEF f, T
  <2> QED
    BY <2>1, <2>2, <2>3 DEF Bijection, Injection, Surjection, IsInjective
<1> HIDE DEF f, T
<1>3. ExistsBijection(1..k, T)
  BY <1>2 DEF ExistsBijection
<1>4. IsFiniteSet(1..k) /\ Cardinality(1..k) = k
  BY <1>1, FS_Interval
<1>5. Cardinality(T) = k
  BY <1>3, <1>4, FS_Bijection
<1> QED
  BY <1>5 DEF T, Firsts

\* There is only one such list.
LEMMA RanksOrder ==
  ASSUME NEW p, RowsOK(p), NEW s, Ranks(p, s)
  PROVE  s = OrderOf(p) /\ Len(s) = Cardinality(DOMAIN p)
<1> DEFINE n == Len(s)
           D == DOMAIN p
           Lower(t) == {u \in D : p[u] < p[t]}
<1>1. /\ n \in Nat /\ DOMAIN s = 1..n /\ s \in [1..n -> D]
      /\ \A i, j \in 1..n : p[s[i]] < p[s[j]] <=> i < j
      /\ \A i, j \in 1..n : s[i] = s[j] => i = j
      /\ \A t \in D : \E i \in 1..n : s[i] = t
  BY RanksFacts
<1> HIDE DEF n, D
<1>2. ASSUME NEW k \in 0..n PROVE Cardinality(Firsts(s, k)) = k
  <2>1. n \in Nat /\ s \in [1..n -> D] /\ \A i, j \in 1..n : s[i] = s[j] => i = j
    BY <1>1
  <2> QED
    BY <2>1, ImageCard
<1>3. D = Firsts(s, n)
  BY <1>1 DEF Firsts
<1>4. Cardinality(D) = n
  BY <1>1, <1>2, <1>3
<1>5. ASSUME NEW i \in 1..n PROVE Cardinality(Lower(s[i])) = i - 1
  <2>1. i - 1 \in 0..n /\ \A j \in 1..n : j \in 1..(i - 1) <=> j < i
    BY <1>1
  <2>2. \A u : u \in Lower(s[i]) <=> u \in Firsts(s, i - 1)
    <3>1. ASSUME NEW u \in Lower(s[i]) PROVE u \in Firsts(s, i - 1)
      <4>1. PICK j \in 1..n : s[j] = u
        BY <1>1
      <4>2. j < i
        BY <1>1, <4>1
      <4> QED
        BY <2>1, <4>1, <4>2 DEF Firsts
    <3>2. ASSUME NEW j \in 1..(i - 1) PROVE s[j] \in Lower(s[i])
      <4>1. j \in 1..n /\ j < i
        BY <1>1, <2>1
      <4>2. s[j] \in D /\ p[s[j]] < p[s[i]]
        BY <1>1, <4>1
      <4> QED
        BY <4>2
    <3> QED
      BY <3>1, <3>2 DEF Firsts
  <2>3. Lower(s[i]) = Firsts(s, i - 1)
    BY <2>2
  <2> QED
    BY <1>2, <2>1, <2>3
<1> HIDE DEF Lower
<1>6. ASSUME NEW i \in 1..n PROVE s[i] = CHOOSE t \in D : Cardinality(Lower(t)) = i - 1
  <2>1. s[i] \in D /\ Cardinality(Lower(s[i])) = i - 1
    BY <1>1, <1>5
  <2>2. ASSUME NEW t \in D, Cardinality(Lower(t)) = i - 1 PROVE t = s[i]
    <3>1. PICK j \in 1..n : s[j] = t
      BY <1>1
    <3>2. Cardinality(Lower(t)) = j - 1
      BY <1>5, <3>1
    <3>3. j = i
      BY <1>1, <2>2, <3>2
    <3> QED
      BY <3>1, <3>3
  <2> QED
    BY <2>1, <2>2
<1>7. s = [i \in 1..n |-> CHOOSE t \in D : Cardinality(Lower(t)) = i - 1]
  BY <1>1, <1>6
<1> QED
  BY <1>4, <1>7 DEF OrderOf, Lower, D, n

LEMMA OrderIs ==
  ASSUME NEW s, RowsOK(position), Ranks(position, s)
  PROVE  Order = s
<1>1. s = OrderOf(position)
  BY RanksOrder
<1>2. Order = OrderOf(position)
  BY DEF Order, OrderOf, Listed
<1> QED
  BY <1>1, <1>2

\* A row at the end.
LEMMA RanksAppend ==
  ASSUME NEW p, RowsOK(p), NEW s, Ranks(p, s), NEW t, t \notin DOMAIN p, NEW n \in Nat,
         \A u \in DOMAIN p : p[u] < n,
         NEW q, DOMAIN q = DOMAIN p \cup {t}, q[t] = n, \A u \in DOMAIN p : q[u] = p[u]
  PROVE  Ranks(q, Append(s, t))
<1> DEFINE m == Len(s)
           r == Append(s, t)
<1>1. /\ m \in Nat /\ DOMAIN s = 1..m /\ s \in [1..m -> DOMAIN p]
      /\ \A i, j \in 1..m : p[s[i]] < p[s[j]] <=> i < j
      /\ \A u \in DOMAIN p : \E i \in 1..m : s[i] = u
  BY RanksFacts
<1>2. r \in Seq(DOMAIN q) /\ DOMAIN r = 1..(m + 1) /\ r[m + 1] = t /\ \A i \in 1..m : r[i] = s[i]
  <2>1. s \in Seq(DOMAIN q)
    BY <1>1
  <2> QED
    BY <1>1, <2>1
<1> HIDE DEF m, r
<1>3. \A u \in DOMAIN q : \E i \in DOMAIN r : r[i] = u
  BY <1>1, <1>2
<1>4. ASSUME NEW i \in DOMAIN r, NEW j \in DOMAIN r, i < j PROVE q[r[i]] < q[r[j]]
  <2>1. i \in 1..m /\ s[i] \in DOMAIN p /\ r[i] = s[i] /\ q[r[i]] = p[s[i]]
    BY <1>1, <1>2, <1>4
  <2>2. CASE j = m + 1
    BY <1>2, <2>1, <2>2
  <2>3. CASE j \in 1..m
    BY <1>1, <1>2, <1>4, <2>1, <2>3
  <2> QED
    BY <1>1, <1>2, <2>2, <2>3
<1>5. Ranks(q, r)
  BY <1>2, <1>3, <1>4 DEF Ranks
<1> QED
  BY <1>5 DEF r

Skipping(i, k) == IF i < k THEN i ELSE i + 1

LEMMA RemoveIndexFacts ==
  ASSUME NEW D, NEW s, NEW n \in Nat, NEW k \in 1..n, Len(s) = n,
         \A i \in 1..n : i # k => s[i] \in D
  PROVE  /\ Log!RemoveIndex(s, k) \in Seq(D) /\ DOMAIN Log!RemoveIndex(s, k) = 1..(n - 1)
         /\ \A i \in 1..(n - 1) : Log!RemoveIndex(s, k)[i] = s[Skipping(i, k)]
<1> DEFINE r == Log!RemoveIndex(s, k)
<1>1. n - 1 \in Nat /\ k \in Nat
  OBVIOUS
<1>2. r = [i \in 1..(n - 1) |-> IF i < k THEN s[i] ELSE s[i + 1]]
  BY DEF Log!RemoveIndex
<1> HIDE DEF r
<1>3. ASSUME NEW i \in 1..(n - 1) PROVE r[i] = s[Skipping(i, k)] /\ r[i] \in D
  <2>1. i \in 1..n /\ i + 1 \in 1..n /\ i \in Nat
    BY <1>1
  <2>2. CASE i < k
    BY <1>2, <2>1, <2>2 DEF Skipping
  <2>3. CASE ~(i < k)
    BY <1>1, <1>2, <2>1, <2>3 DEF Skipping
  <2> QED
    BY <2>2, <2>3
<1>4. r \in [1..(n - 1) -> D]
  BY <1>2, <1>3
<1>5. r \in Seq(D)
  BY <1>1, <1>4
<1>6. DOMAIN r = 1..(n - 1)
  BY <1>2
<1> QED
  BY <1>3, <1>5, <1>6 DEF r

\* One row less.
LEMMA RanksRemove ==
  ASSUME NEW p, RowsOK(p), NEW s, Ranks(p, s), NEW k \in DOMAIN s,
         NEW q, DOMAIN q = DOMAIN p \ {s[k]}, \A u \in DOMAIN q : q[u] = p[u]
  PROVE  Ranks(q, Log!RemoveIndex(s, k))
<1> DEFINE n == Len(s)
           r == Log!RemoveIndex(s, k)
           at(i) == Skipping(i, k)
<1>1. /\ n \in Nat /\ DOMAIN s = 1..n /\ s \in [1..n -> DOMAIN p]
      /\ \A i, j \in 1..n : p[s[i]] < p[s[j]] <=> i < j
      /\ \A i, j \in 1..n : s[i] = s[j] => i = j
      /\ \A u \in DOMAIN p : \E i \in 1..n : s[i] = u
  BY RanksFacts
<1>2. n \in Nat /\ k \in 1..n /\ k \in Nat /\ n - 1 \in Nat /\ Len(s) = n
  BY <1>1
<1>3. \A i \in 1..n : i # k => s[i] \in DOMAIN q
  BY <1>1, <1>2
<1> HIDE DEF n
<1>4. /\ r \in Seq(DOMAIN q) /\ DOMAIN r = 1..(n - 1)
      /\ \A i \in 1..(n - 1) : r[i] = s[at(i)]
  <2>1. /\ Log!RemoveIndex(s, k) \in Seq(DOMAIN q) /\ DOMAIN Log!RemoveIndex(s, k) = 1..(n - 1)
        /\ \A i \in 1..(n - 1) : Log!RemoveIndex(s, k)[i] = s[Skipping(i, k)]
    <3> DEFINE D == DOMAIN q
    <3>1. /\ n \in Nat /\ k \in 1..n /\ Len(s) = n
          /\ \A i \in 1..n : i # k => s[i] \in D
      BY <1>2, <1>3
    <3> HIDE DEF D
    <3>2. /\ Log!RemoveIndex(s, k) \in Seq(D) /\ DOMAIN Log!RemoveIndex(s, k) = 1..(n - 1)
          /\ \A i \in 1..(n - 1) : Log!RemoveIndex(s, k)[i] = s[Skipping(i, k)]
      BY ONLY <3>1, RemoveIndexFacts
    <3> QED
      BY <3>2 DEF D
  <2> QED
    BY <2>1 DEF r, at
<1> HIDE DEF r
<1>5. \A i \in 1..(n - 1) : at(i) \in 1..n /\ at(i) # k /\ r[i] = s[at(i)]
  <2>1. \A i \in 1..(n - 1) : at(i) \in 1..n /\ at(i) # k
    BY <1>2 DEF Skipping
  <2> QED
    BY <1>4, <2>1
<1>6. \A i, j \in 1..(n - 1) : i < j => at(i) < at(j)
  BY <1>2 DEF Skipping
<1>7. ASSUME NEW u \in DOMAIN q PROVE \E i \in 1..(n - 1) : r[i] = u
  <2>1. PICK j \in 1..n : s[j] = u
    BY <1>1
  <2>2. j # k /\ j \in Nat
    BY <2>1
  <2>3. \E i \in 1..(n - 1) : at(i) = j
    <3>1. CASE j < k
      <4>1. j \in 1..(n - 1) /\ at(j) = j
        BY <1>2, <2>2, <3>1 DEF Skipping
      <4> QED
        BY <4>1
    <3>2. CASE j > k
      <4>1. j - 1 \in 1..(n - 1) /\ at(j - 1) = j
        BY <1>2, <2>2, <3>2 DEF Skipping
      <4> QED
        BY <4>1
    <3> QED
      BY <1>2, <2>2, <3>1, <3>2
  <2> QED
    BY <1>4, <2>1, <2>3
<1> HIDE DEF at
<1>8. ASSUME NEW i \in 1..(n - 1), NEW j \in 1..(n - 1), i < j PROVE q[r[i]] < q[r[j]]
  <2>1. p[s[at(i)]] < p[s[at(j)]]
    BY <1>1, <1>5, <1>6, <1>8
  <2>2. r[i] \in DOMAIN q /\ r[j] \in DOMAIN q /\ r[i] = s[at(i)] /\ r[j] = s[at(j)]
    BY <1>3, <1>5
  <2> QED
    BY <2>1, <2>2
<1>9. Ranks(q, r)
  BY <1>4, <1>7, <1>8 DEF Ranks
<1> QED
  BY <1>9 DEF r

\* A row at the front, the others one further.
LEMMA RanksFront ==
  ASSUME NEW p, RowsOK(p), NEW s, Ranks(p, s), NEW t, t \notin DOMAIN p,
         NEW q, DOMAIN q = DOMAIN p \cup {t}, q[t] = 0, \A u \in DOMAIN p : q[u] = p[u] + 1
  PROVE  Ranks(q, Log!InsertAfter(s, 0, t))
<1> DEFINE n == Len(s)
           r == Log!InsertAfter(s, 0, t)
<1>1. /\ n \in Nat /\ DOMAIN s = 1..n /\ s \in [1..n -> DOMAIN p]
      /\ \A u \in DOMAIN p : p[u] \in Nat
      /\ \A i, j \in 1..n : p[s[i]] < p[s[j]] <=> i < j
      /\ \A u \in DOMAIN p : \E i \in 1..n : s[i] = u
  BY RanksFacts
<1>2. r = [i \in 1..(n + 1) |-> IF i <= 0 THEN s[i] ELSE IF i = 0 + 1 THEN t ELSE s[i - 1]]
  BY DEF Log!InsertAfter
<1> HIDE DEF n, r
<1>3. DOMAIN r = 1..(n + 1) /\ r[1] = t /\ \A i \in 1..n : r[i + 1] = s[i]
  <2>1. 1 \in 1..(n + 1) /\ r[1] = t
    BY <1>1, <1>2
  <2>2. ASSUME NEW i \in 1..n PROVE r[i + 1] = s[i]
    <3>1. i + 1 \in 1..(n + 1) /\ ~(i + 1 <= 0) /\ i + 1 # 0 + 1 /\ (i + 1) - 1 = i
      BY <1>1
    <3> QED
      BY <1>2, <3>1
  <2> QED
    BY <1>2, <2>1, <2>2
<1>4. \A i \in 1..(n + 1) : i = 1 \/ (i - 1 \in 1..n /\ r[i] = s[i - 1])
  <2> SUFFICES ASSUME NEW i \in 1..(n + 1), i # 1 PROVE i - 1 \in 1..n /\ r[i] = s[i - 1]
    OBVIOUS
  <2>1. i - 1 \in 1..n /\ (i - 1) + 1 = i
    BY <1>1
  <2> QED
    BY <1>3, <2>1
<1>5. r \in Seq(DOMAIN q)
  <2>1. \A i \in 1..(n + 1) : r[i] \in DOMAIN q
    BY <1>1, <1>3, <1>4
  <2>2. r \in [1..(n + 1) -> DOMAIN q]
    BY <1>2, <2>1
  <2>3. n + 1 \in Nat
    BY <1>1
  <2> QED
    BY <2>2, <2>3
<1>6. ASSUME NEW u \in DOMAIN q PROVE \E i \in 1..(n + 1) : r[i] = u
  <2>1. CASE u = t
    BY <1>1, <1>3, <2>1
  <2>2. CASE u \in DOMAIN p
    <3>1. PICK i \in 1..n : s[i] = u
      BY <1>1, <2>2
    <3>2. i + 1 \in 1..(n + 1) /\ r[i + 1] = u
      BY <1>1, <1>3, <3>1
    <3> QED
      BY <3>2
  <2> QED
    BY <2>1, <2>2
<1>7. ASSUME NEW i \in 1..(n + 1), NEW j \in 1..(n + 1), i < j PROVE q[r[i]] < q[r[j]]
  <2>1. j - 1 \in 1..n /\ r[j] = s[j - 1] /\ s[j - 1] \in DOMAIN p
    BY <1>1, <1>4, <1>7
  <2>2. q[r[j]] = p[s[j - 1]] + 1 /\ p[s[j - 1]] \in Nat
    BY <1>1, <2>1
  <2>3. CASE i = 1
    BY <1>3, <2>2, <2>3
  <2>4. CASE i # 1
    <3>1. i - 1 \in 1..n /\ r[i] = s[i - 1] /\ s[i - 1] \in DOMAIN p /\ i - 1 < j - 1
      BY <1>1, <1>4, <1>7, <2>4
    <3>2. q[r[i]] = p[s[i - 1]] + 1 /\ p[s[i - 1]] \in Nat
      BY <1>1, <3>1
    <3>3. p[s[i - 1]] < p[s[j - 1]]
      BY <1>1, <2>1, <3>1
    <3> QED
      BY <2>2, <3>2, <3>3
  <2> QED
    BY <2>3, <2>4
<1>8. Ranks(q, r)
  BY <1>3, <1>5, <1>6, <1>7 DEF Ranks
<1> QED
  BY <1>8 DEF r

\* Ranges of numbers: one ends before the other begins, one holds the other.
Before(t, u) == t.hi < u.lo
Apart(t, u)  == Before(t, u) \/ Before(u, t)
Covers(u, t) == u.lo <= t.lo /\ t.hi <= u.hi /\ (u.lo < t.lo \/ t.hi < u.hi)

\* E holds the stored tags and V those the LLM sees.  The seen ones do not
\* meet; a stored Summary is seen, under a longer one that is seen, or alone.
Filed(V, E) ==
  /\ E \subseteq Log!Tag /\ V \subseteq E
  /\ \A t \in E : t.lo <= t.hi
  /\ \A t, u \in V : t # u => Apart(t, u)
  /\ \A r \in E : r.range => \/ r \in V
                             \/ \E u \in V : Covers(u, r)
                             \/ \A u \in V : Apart(r, u)

\* sum is what a collapse of T would store.
Hull(T, sum) ==
  /\ sum \in Log!Tag /\ sum.range
  /\ \A t \in T : sum.lo <= t.lo /\ t.hi <= sum.hi
  /\ (\E t \in T : t.lo = sum.lo) /\ (\E t \in T : t.hi = sum.hi)

LEMMA TagNumbers == \A t \in Log!Tag : t.lo \in Nat /\ t.hi \in Nat /\ t.range \in BOOLEAN
BY DEF Log!Tag, Log!Number

LEMMA FiledAdd ==
  ASSUME NEW V, NEW E, Filed(V, E), NEW t \in Log!Tag, t.lo <= t.hi, ~t.range,
         \A r \in E : Before(r, t)
  PROVE  Filed(V \cup {t}, E \cup {t})
<1>1. \A u \in V : Before(u, t)
  BY DEF Filed
<1>2. \A a, b \in V \cup {t} : a # b => Apart(a, b)
  BY <1>1 DEF Filed, Apart
<1>3. ASSUME NEW r \in E \cup {t}, r.range
      PROVE  r \in V \cup {t} \/ (\E u \in V \cup {t} : Covers(u, r)) \/ \A u \in V \cup {t} : Apart(r, u)
  <2>1. r \in E /\ Before(r, t)
    BY <1>3
  <2>2. r \in V \/ (\E u \in V : Covers(u, r)) \/ \A u \in V : Apart(r, u)
    BY <1>3, <2>1 DEF Filed
  <2>3. CASE \A u \in V : Apart(r, u)
    BY <2>1, <2>3 DEF Apart
  <2> QED
    BY <2>2, <2>3
<1> QED
  BY <1>2, <1>3 DEF Filed

LEMMA FiledRemove ==
  ASSUME NEW V, NEW E, Filed(V, E), NEW t
  PROVE  Filed(V \ {t}, E \ {t})
<1>1. ASSUME NEW r \in E \ {t}, r.range
      PROVE  r \in V \ {t} \/ (\E u \in V \ {t} : Covers(u, r)) \/ \A u \in V \ {t} : Apart(r, u)
  <2>1. r \in V \/ (\E u \in V : Covers(u, r)) \/ \A u \in V : Apart(r, u)
    BY <1>1 DEF Filed
  <2>2. ASSUME NEW u \in V, Covers(u, r)
        PROVE  (\E w \in V \ {t} : Covers(w, r)) \/ \A w \in V \ {t} : Apart(r, w)
    <3>1. CASE u # t
      BY <2>2, <3>1
    <3>2. CASE u = t
      <4> SUFFICES ASSUME NEW w \in V \ {t} PROVE Apart(r, w)
        OBVIOUS
      <4>1. Apart(u, w) /\ u \in Log!Tag /\ w \in Log!Tag /\ r \in Log!Tag
        BY <3>2 DEF Filed
      <4> QED
        BY <2>2, <4>1, TagNumbers DEF Apart, Before, Covers
    <3> QED
      BY <3>1, <3>2
  <2> QED
    BY <1>1, <2>1, <2>2
<1> QED
  BY <1>1 DEF Filed

\* Where the tags seen before the Summary are among those it stands for.
Together(T, V) == T \subseteq V /\ \A t \in T : t.range => T # {t}

LEMMA SumIsNew ==
  ASSUME NEW V, NEW E, Filed(V, E), NEW T, Together(T, V), NEW sum, Hull(T, sum)
  PROVE  sum \notin E
<1> SUFFICES ASSUME sum \in E PROVE FALSE
  OBVIOUS
<1>1. PICK a \in T : a.lo = sum.lo
  BY DEF Hull
<1>2. T \subseteq V /\ V \subseteq E /\ E \subseteq Log!Tag /\ sum.range /\ \A t \in E : t.lo <= t.hi
  BY DEF Hull, Together, Filed
<1>3. a.lo \in Nat /\ a.hi \in Nat /\ sum.lo \in Nat /\ sum.hi \in Nat /\ a.lo <= a.hi /\ a \in V
      /\ sum.lo <= a.lo /\ a.hi <= sum.hi
  BY <1>2, TagNumbers DEF Hull
<1>4. ~Apart(sum, a)
  BY <1>1, <1>3 DEF Apart, Before
<1>5. ASSUME sum \in V PROVE FALSE
  <2>1. a = sum
    BY <1>3, <1>4, <1>5 DEF Filed
  <2>2. PICK b \in T : b # sum
    BY <1>2, <2>1 DEF Together
  <2>3. b.lo \in Nat /\ b.hi \in Nat /\ b.lo <= b.hi /\ sum.lo <= b.lo /\ b.hi <= sum.hi
    BY <1>2, TagNumbers DEF Hull
  <2>4. Apart(b, sum)
    BY <1>2, <1>5, <2>2 DEF Filed
  <2> QED
    BY <1>3, <2>3, <2>4 DEF Apart, Before
<1>6. ASSUME NEW u \in V, Covers(u, sum) PROVE FALSE
  <2>1. u.lo \in Nat /\ u.hi \in Nat
    BY <1>2, TagNumbers
  <2>2. CASE u = a
    BY <1>3, <1>6, <2>1, <2>2 DEF Covers
  <2>3. CASE u # a
    <3>1. Apart(u, a)
      BY <1>3, <2>3 DEF Filed
    <3> QED
      BY <1>3, <1>6, <2>1, <3>1 DEF Covers, Apart, Before
  <2> QED
    BY <2>2, <2>3
<1>7. sum \in V \/ (\E u \in V : Covers(u, sum)) \/ \A u \in V : Apart(sum, u)
  BY <1>2 DEF Filed
<1> QED
  BY <1>3, <1>4, <1>5, <1>6, <1>7

LEMMA FiledCollapse ==
  ASSUME NEW V, NEW E, Filed(V, E), NEW T, Together(T, V), NEW sum, Hull(T, sum),
         NEW R, V = R \cup T, \A t \in T, u \in R : Before(t, u)
  PROVE  Filed(R \cup {sum}, E \cup {sum})
<1>1. PICK a \in T : a.lo = sum.lo
  BY DEF Hull
<1>2. PICK b \in T : b.hi = sum.hi
  BY DEF Hull
<1>3. T \subseteq V /\ V \subseteq E /\ E \subseteq Log!Tag /\ sum \in Log!Tag /\ \A t \in E : t.lo <= t.hi
  BY DEF Hull, Together, Filed
<1>4. \A t \in E \cup {sum} : t \in Log!Tag /\ t.lo \in Nat /\ t.hi \in Nat
  BY <1>3, TagNumbers
<1>5. \A t \in T : sum.lo <= t.lo /\ t.hi <= sum.hi
  BY DEF Hull
<1>6. a \in E /\ b \in E /\ sum.lo <= sum.hi
  <2>1. a \in E /\ b \in E /\ a.lo <= a.hi /\ a.hi <= sum.hi
    BY <1>3, <1>5
  <2> QED
    BY <1>1, <1>4, <2>1
<1>7. \A u \in R : Before(sum, u)
  BY <1>2 DEF Before
<1>8. \A t, u \in R \cup {sum} : t # u => Apart(t, u)
  BY <1>7 DEF Filed, Apart
<1>9. ASSUME NEW r \in E, r.range
      PROVE  r \in R \cup {sum} \/ (\E u \in R \cup {sum} : Covers(u, r)) \/ \A u \in R \cup {sum} : Apart(r, u)
  <2>1. r \in V \/ (\E u \in V : Covers(u, r)) \/ \A u \in V : Apart(r, u)
    BY <1>9 DEF Filed
  <2>2. r.lo \in Nat /\ r.hi \in Nat /\ r.lo <= r.hi
    BY <1>3, <1>4
  <2>3. CASE r \in T
    <3>1. PICK t \in T : t # r
      BY <1>9, <2>3 DEF Together
    <3>2. Apart(t, r) /\ t.lo \in Nat /\ t.hi \in Nat /\ t.lo <= t.hi
      BY <1>3, <1>4, <2>3, <3>1 DEF Filed
    <3>3. sum.lo <= t.lo /\ t.hi <= sum.hi /\ sum.lo <= r.lo /\ r.hi <= sum.hi /\ sum.lo \in Nat /\ sum.hi \in Nat
      BY <1>4, <1>5, <2>3
    <3>4. Covers(sum, r)
      BY <2>2, <3>2, <3>3 DEF Apart, Before, Covers
    <3> QED
      BY <3>4
  <2>4. CASE r \in R
    BY <2>4
  <2>5. ASSUME NEW u \in T, Covers(u, r) PROVE Covers(sum, r)
    <3>1. u.lo \in Nat /\ u.hi \in Nat /\ sum.lo <= u.lo /\ u.hi <= sum.hi /\ sum.lo \in Nat /\ sum.hi \in Nat
      BY <1>3, <1>4, <1>5
    <3> QED
      BY <2>2, <2>5, <3>1 DEF Covers
  <2>6. CASE \A u \in V : Apart(r, u)
    <3>1. Apart(r, a) /\ Apart(r, b)
      BY <1>3, <2>6
    <3>2. /\ a.hi \in Nat /\ b.lo \in Nat /\ sum.lo \in Nat /\ sum.hi \in Nat
          /\ a.lo = sum.lo /\ b.hi = sum.hi /\ a.lo <= a.hi /\ b.lo <= b.hi
      BY <1>1, <1>2, <1>3, <1>4, <1>6
    <3>3. Apart(r, sum) \/ Covers(sum, r)
      BY <2>2, <3>1, <3>2 DEF Apart, Before, Covers
    <3> QED
      BY <2>6, <3>3
  <2> QED
    BY <2>1, <2>3, <2>4, <2>5, <2>6
<1> QED
  BY <1>3, <1>6, <1>8, <1>9 DEF Filed

\* What the LLM sees, with what a collapse has taken from the list so far.
View == Listed \cup (IF op.phase = "archiving" THEN op.tags
                     ELSE IF op.phase \in {"stored", "placing"} THEN {op.sum} ELSE {})

\* Positions follow the numbers, but for a Summary that is not in place yet.
InTime == \A t, u \in Listed : position[t] < position[u] => Before(t, u) \/ (op.phase = "stored" /\ u = op.sum)

StatusShown == \A t \in Listed : events[t].status = IF t \in marked THEN "archived" ELSE "active"

\* The tags a collapse takes are before all that stay.
Archiving == op.phase = "archiving" =>
  /\ Listed \cap op.tags = op.todo
  /\ \A t \in op.tags, u \in Listed \ op.todo : Before(t, u)
  /\ \E t \in op.tags : t.lo = op.first
  /\ \A t \in op.tags : t.range => op.tags # {t}
  /\ \A t \in marked, u \in op.todo : u # t => position[t] < position[u]

\* So is the Summary, which is why its place is the first.
Placing == op.phase \in {"stored", "placing"} =>
  /\ op.at = 0 /\ \A u \in Listed \ {op.sum} : Before(op.sum, u)
  /\ op.phase = "stored" <=> op.sum \in Listed
  /\ events[op.sum].status = "active"

Plain == /\ Ranks(position, Order) /\ Filed(View, DOMAIN events)
         /\ InTime /\ StatusShown /\ Archiving /\ Placing

\* byTag of the log the tables stand for.
Store == [t \in DOMAIN events |->
            IF t \in marked THEN [events[t] EXCEPT !.status = "active"] ELSE events[t]]

LEMMA NextOrder ==
  ASSUME NEW s, Inv', Ranks(position', s)
  PROVE  Order' = s /\ Ranks(position', Order')
<1>1. RowsOK(position')
  BY DEF Inv, Tables
<1>2. s = OrderOf(position')
  BY <1>1, RanksOrder
<1>3. Order' = OrderOf(position')
  BY DEF Order, OrderOf
<1> QED
  BY <1>2, <1>3

\* The active list holds the listed tags, each once.
LEMMA OrderFacts ==
  ASSUME Inv, Plain
  PROVE  /\ DOMAIN Order = 1..Len(Order) /\ Len(Order) \in Nat /\ Len(Order) = Cardinality(Listed)
         /\ Log!Listed = Listed /\ Order \in Seq(Listed)
         /\ \A i \in DOMAIN Order : Order[i] \in Listed
         /\ \A i, j \in DOMAIN Order : position[Order[i]] < position[Order[j]] <=> i < j
         /\ \A i, j \in DOMAIN Order : Order[i] = Order[j] => i = j
         /\ \A t \in Listed : \E i \in DOMAIN Order : Order[i] = t
         /\ \A t \in Listed : position[t] \in Nat
<1>1. RowsOK(position) /\ Ranks(position, Order)
  BY DEF Inv, Tables, Plain
<1> DEFINE s == Order
           p == position
<1> HIDE DEF s, p
<1>2. RowsOK(p) /\ Ranks(p, s)
  BY <1>1 DEF s, p
<1>3. /\ Len(s) \in Nat /\ DOMAIN s = 1..Len(s) /\ s \in [1..Len(s) -> DOMAIN p]
      /\ \A t \in DOMAIN p : p[t] \in Nat
      /\ \A i, j \in 1..Len(s) : p[s[i]] < p[s[j]] <=> i < j
      /\ \A i, j \in 1..Len(s) : s[i] = s[j] => i = j
      /\ \A t \in DOMAIN p : \E i \in 1..Len(s) : s[i] = t
  BY <1>2, RanksFacts
<1>4. Len(s) = Cardinality(DOMAIN p)
  BY <1>2, RanksOrder
<1>5. s \in Seq(DOMAIN p)
  BY <1>2 DEF Ranks
<1>6. {s[i] : i \in DOMAIN s} = DOMAIN p
  <2> DEFINE A == {s[i] : i \in DOMAIN s}
  <2>1. \A t : t \in A => t \in DOMAIN p
    BY <1>3
  <2>2. \A t : t \in DOMAIN p => t \in A
    BY <1>3
  <2> HIDE DEF A
  <2>3. A = DOMAIN p
    BY <2>1, <2>2
  <2> QED
    BY <2>3 DEF A
<1>7. Log!Listed = Listed
  BY <1>6 DEF Log!Listed, s, p
<1> QED
  BY <1>3, <1>4, <1>5, <1>7 DEF s, p

LEMMA AddFits ==
  ASSUME Inv, Plain, Add PROVE Plain' /\ Log!Add
<1> DEFINE t == Log!Leaf(next)
           v == [status |-> "active", children |-> {}]
<1>1. Inv' /\ op.phase = "idle" /\ marked = {} /\ next \in 1..MaxTag
  BY AddInv DEF Add, Inv, MarkedWhileArchiving, Tables, TypeOK
<1>2. next' = next + 1 /\ UNCHANGED <<op, marked, removed, hidden, faulty>>
  BY DEF Add
<1>3. t \in Log!Tag /\ t.lo = next /\ t.hi = next /\ t.range = FALSE /\ next \in Nat
  BY <1>1 DEF Log!Leaf, Log!Tag, Log!Number
<1>4. \A r \in DOMAIN events : Before(r, t)
  BY <1>3 DEF Inv, CounterAhead, Before
<1>5. t \notin DOMAIN events /\ t \notin Listed
  <2>1. ~Before(t, t)
    BY <1>3 DEF Before
  <2> QED
    BY <1>4, <2>1 DEF Inv, ListedStored
<1>6. events' = With(events, t, v) /\ position' = With(position, t, NewPosition)
  BY <1>5 DEF Add
<1> HIDE DEF t, v
<1>7. /\ DOMAIN position' = Listed \cup {t} /\ position'[t] = NewPosition
      /\ \A u \in Listed : position'[u] = position[u]
  BY <1>5, <1>6 DEF With
<1>8. DOMAIN events' = DOMAIN events \cup {t} /\ events'[t] = v /\ \A u \in DOMAIN events : events'[u] = events[u]
  BY <1>5, <1>6 DEF With
<1>9. NewPosition \in Nat /\ \A u \in Listed : position[u] < NewPosition
  BY NewPositionFacts DEF Inv
<1>10. Order' = Append(Order, t) /\ Ranks(position', Order')
  <2>1. RowsOK(position) /\ Ranks(position, Order)
    BY DEF Inv, Tables, Plain
  <2>2. Ranks(position', Append(Order, t))
    BY <1>5, <1>7, <1>9, <2>1, RanksAppend
  <2> QED
    BY <1>1, <2>2, NextOrder
<1>11. Filed(View', DOMAIN events')
  <2>1. View = Listed /\ View' = Listed \cup {t}
    BY <1>1, <1>2, <1>7 DEF View
  <2>2. Filed(View \cup {t}, DOMAIN events \cup {t})
    BY <1>3, <1>4, FiledAdd DEF Plain
  <2> QED
    BY <1>8, <2>1, <2>2
<1>12. InTime'
  <2> SUFFICES ASSUME NEW a \in DOMAIN position', NEW b \in DOMAIN position', position'[a] < position'[b]
               PROVE  Before(a, b)
    BY DEF InTime
  <2>1. CASE b = t
    <3>1. a # t
      BY <1>7, <1>9, <2>1
    <3> QED
      BY <1>4, <1>7, <2>1, <3>1 DEF Inv, ListedStored
  <2>2. CASE b # t
    <3>1. b \in Listed /\ position'[b] = position[b] /\ position[b] < NewPosition /\ position[b] \in Nat
      BY <1>7, <1>9, <2>2 DEF Inv, Tables, TypeOK
    <3>2. a # t
      BY <1>7, <1>9, <3>1
    <3> QED
      BY <1>1, <1>7, <3>1, <3>2 DEF Plain, InTime
  <2> QED
    BY <2>1, <2>2
<1>13. StatusShown'
  BY <1>1, <1>2, <1>7, <1>8 DEF StatusShown, Plain, Inv, ListedStored, v
<1>14. Archiving' /\ Placing'
  BY <1>1, <1>2 DEF Archiving, Placing
<1>15. Log!Add
  <2>1. Store' = [u \in DOMAIN Store \cup {t} |-> IF u = t THEN v ELSE Store[u]]
    BY <1>1, <1>2, <1>5, <1>8 DEF Store
  <2> QED
    BY <1>1, <1>2, <1>10, <2>1 DEF Log!Add, Store, t, v
<1> QED
  BY <1>10, <1>11, <1>12, <1>13, <1>14, <1>15 DEF Plain

LEMMA CollapseFits ==
  ASSUME Inv, Plain, FrontOnly, ~faulty, NEW s \in Log!Number, NEW e \in Log!Number, Collapse(s, e)
  PROVE  Plain' /\ Log!Collapse(s, e)
<1> DEFINE tags == {t \in Listed : Log!Overlaps(t, s, e)}
           a == Order[1]
<1>1. /\ Inv' /\ op.phase = "idle" /\ UNCHANGED <<position, events, next, marked, history>> /\ marked = {}
      /\ Order # <<>> /\ a \in tags /\ \A t \in tags : t.range => tags # {t}
  BY CollapseInv DEF Collapse, Inv, MarkedWhileArchiving
<1>2. PICK k \in DOMAIN Order :
         /\ Log!IsFirst(Order, tags, k)
         /\ op' = [Log!Idle EXCEPT !.phase = "archiving", !.tags = tags, !.todo = tags, !.first = Order[k].lo]
  BY DEF Collapse
<1>3. op'.phase = "archiving" /\ op'.tags = tags /\ op'.todo = tags /\ op'.first = Order[k].lo
  BY <1>2 DEF Log!Idle
<1>4. Order' = Order /\ View' = View /\ View = Listed /\ tags \subseteq Listed
  <2>1. Order' = Order
    BY <1>1 DEF Order
  <2>2. View' = Listed \cup tags /\ View = Listed
    BY <1>1, <1>3 DEF View
  <2> QED
    BY <2>1, <2>2
<1>5. ASSUME NEW t \in tags, NEW u \in Listed \ tags PROVE Before(t, u)
  <2>1. /\ t \in Log!Tag /\ u \in Log!Tag /\ a \in Log!Tag /\ u.lo <= u.hi /\ a.lo <= a.hi /\ t # u /\ a # u
        /\ a \in Listed
    BY <1>1, <1>4, <1>5 DEF Plain, Filed
  <2>2. /\ t.lo \in Nat /\ t.hi \in Nat /\ u.lo \in Nat /\ u.hi \in Nat /\ a.lo \in Nat /\ a.hi \in Nat
        /\ s \in Nat /\ e \in Nat
    BY <2>1, TagNumbers DEF Log!Number
  <2>3. Apart(t, u)
    BY <1>4, <2>1 DEF Plain, Filed
  <2>4. Before(a, u)
    <3>1. PICK j \in DOMAIN Order : Order[j] = u
      BY OrderFacts
    <3>2. 1 \in DOMAIN Order /\ 1 < j
      <4>1. DOMAIN Order = 1..Len(Order) /\ Len(Order) \in Nat
        BY OrderFacts
      <4>2. j # 1
        BY <2>1, <3>1
      <4> QED
        BY <4>1, <4>2
    <3>3. position[a] < position[u]
      BY <3>1, <3>2, OrderFacts
    <3> QED
      BY <1>1, <2>1, <3>3 DEF Plain, InTime
  <2>5. t.lo <= e /\ a.hi >= s /\ ~(u.lo <= e /\ u.hi >= s)
    BY <1>1, <1>5 DEF Log!Overlaps
  <2> QED
    BY <2>1, <2>2, <2>3, <2>4, <2>5 DEF Apart, Before
<1>6. Order[k] \in tags
  BY <1>2 DEF Log!IsFirst
<1> HIDE DEF tags
<1>7. Archiving'
  BY <1>1, <1>3, <1>4, <1>5, <1>6 DEF Archiving
<1>8. InTime' /\ StatusShown' /\ Placing'
  BY <1>1, <1>3 DEF InTime, StatusShown, Placing, Plain
<1>9. Ranks(position', Order') /\ Filed(View', DOMAIN events')
  BY <1>1, <1>4 DEF Plain
<1>10. Log!Collapse(s, e)
  <2>1. tags = {t \in Log!Listed : Log!Overlaps(t, s, e)}
    BY OrderFacts DEF tags
  <2>2. Store' = Store
    BY <1>1 DEF Store
  <2> QED
    BY <1>1, <1>2, <1>4, <2>1, <2>2 DEF Log!Collapse, Store, history
<1> QED
  BY <1>7, <1>8, <1>9, <1>10 DEF Plain

\* A status set is nothing in the log until the tag is taken from the list.
LEMMA MarkFits ==
  ASSUME Inv, Plain, Mark
  PROVE  Plain' /\ UNCHANGED <<Order, Store, next, op, removed, hidden>>
<1>1. PICK k \in DOMAIN Order :
        Log!IsFirst(Order, op.todo, k) /\ MarkRow(Order[k]) /\ marked' = {Order[k]}
  BY DEF Mark
<1> DEFINE t == Order[k]
<1>2. UNCHANGED <<position, next, op, history>> /\ op.phase = "archiving" /\ marked = {}
  BY DEF Mark
<1>3. /\ t \in op.todo /\ marked' = {t} /\ events' = [events EXCEPT ![t].status = "archived"]
      /\ \A j \in 1..(k - 1) : Order[j] \notin op.todo
  BY <1>1 DEF Log!IsFirst, MarkRow
<1>4. /\ t \in Listed /\ op.todo \subseteq Listed /\ t \in DOMAIN events /\ events[t] \in Log!Event
      /\ events[t].status = "active"
  <2>1. t \in Listed /\ op.todo \subseteq Listed
    BY <1>2, <1>3 DEF Plain, Archiving
  <2>2. t \in DOMAIN events /\ events[t] \in Log!Event
    BY <2>1 DEF Inv, Tables, TypeOK, ListedStored
  <2> QED
    BY <1>2, <2>1, <2>2 DEF Plain, StatusShown
<1>5. \A u \in op.todo : u # t => position[t] < position[u]
  <2> SUFFICES ASSUME NEW u \in op.todo, u # t PROVE position[t] < position[u]
    OBVIOUS
  <2>1. PICK j \in DOMAIN Order : Order[j] = u
    BY <1>4, OrderFacts
  <2>2. j \notin 1..(k - 1) /\ j # k
    BY <1>3, <2>1
  <2>3. DOMAIN Order = 1..Len(Order) /\ Len(Order) \in Nat
    BY OrderFacts
  <2>4. k < j
    BY <2>2, <2>3
  <2> QED
    BY <2>1, <2>4, OrderFacts
<1> HIDE DEF t
<1>6. Order' = Order
  BY <1>2 DEF Order
<1>7. /\ DOMAIN events' = DOMAIN events /\ \A u \in DOMAIN events : u # t => events'[u] = events[u]
      /\ events'[t] = [events[t] EXCEPT !.status = "archived"]
  BY <1>3, <1>4
<1>8. events'[t].status = "archived" /\ [events'[t] EXCEPT !.status = "active"] = events[t]
  BY <1>4, <1>7 DEF Log!Event
<1>9. Store' = Store
  <2>1. \A u \in DOMAIN events :
           (IF u \in marked' THEN [events'[u] EXCEPT !.status = "active"] ELSE events'[u])
         = (IF u \in marked THEN [events[u] EXCEPT !.status = "active"] ELSE events[u])
    BY <1>2, <1>3, <1>7, <1>8
  <2> QED
    BY <1>7, <2>1 DEF Store
<1>10. StatusShown'
  BY <1>2, <1>3, <1>7, <1>8 DEF StatusShown, Plain, Inv, ListedStored
<1>11. View' = View
  BY <1>2 DEF View
<1>12. Archiving'
  BY <1>2, <1>3, <1>5 DEF Archiving, Plain
<1>13. InTime' /\ Placing'
  BY <1>2 DEF InTime, Placing, Plain
<1> QED
  BY <1>2, <1>6, <1>7, <1>9, <1>10, <1>11, <1>12, <1>13 DEF Plain, history

LEMMA UnlistMarkedFits ==
  ASSUME Inv, Plain, UnlistMarked
  PROVE  Plain' /\ Log!ArchiveNext
<1>1. PICK t \in marked : /\ position' = Without(position, t) /\ events' = events
                          /\ op' = [op EXCEPT !.todo = @ \ {t}]
  BY DEF UnlistMarked, DeleteRow
<1>2. Inv' /\ marked' = {} /\ UNCHANGED <<next, history>> /\ op.phase = "archiving"
  BY UnlistMarkedInv DEF UnlistMarked, Inv, MarkedWhileArchiving
<1>3. /\ op'.phase = "archiving" /\ op'.todo = op.todo \ {t} /\ op'.tags = op.tags /\ op'.first = op.first
  BY <1>1, <1>2 DEF Inv, Tables, OpRecord
<1>4. /\ t \in op.todo /\ Listed \cap op.tags = op.todo
      /\ \A m \in marked, u \in op.todo : u # m => position[m] < position[u]
      /\ \A u \in op.tags, w \in Listed \ op.todo : Before(u, w)
      /\ \E u \in op.tags : u.lo = op.first
      /\ \A u \in op.tags : u.range => op.tags # {u}
  BY <1>2 DEF Plain, Archiving, Inv, Tables, TypeOK
<1>5. t \in Listed /\ t \in DOMAIN events /\ events[t] \in Log!Event /\ events[t].status = "archived"
  BY <1>4 DEF Plain, StatusShown, Inv, ListedStored, Tables, TypeOK
<1>6. marked = {t}
  <2> SUFFICES ASSUME NEW m \in marked PROVE m = t
    OBVIOUS
  <2>1. m \in op.todo /\ m \in Listed
    BY <1>4 DEF Inv, Tables, TypeOK
  <2>2. position[m] \in Nat /\ position[t] \in Nat
    BY <1>5, <2>1, OrderFacts
  <2> QED
    BY <1>4, <2>1, <2>2
<1>7. DOMAIN position' = Listed \ {t} /\ \A u \in DOMAIN position' : position'[u] = position[u]
  BY <1>1 DEF Without
<1>8. PICK k \in DOMAIN Order : Order[k] = t
  BY <1>5, OrderFacts
<1>9. Log!IsFirst(Order, op.todo, k)
  <2> SUFFICES ASSUME NEW j \in 1..(k - 1), Order[j] \in op.todo PROVE FALSE
    BY <1>4, <1>8 DEF Log!IsFirst
  <2>1. DOMAIN Order = 1..Len(Order) /\ Len(Order) \in Nat
    BY OrderFacts
  <2>2. j \in DOMAIN Order /\ j < k
    BY <2>1
  <2>3. position[Order[j]] < position[t] /\ position[t] \in Nat /\ position[Order[j]] \in Nat
    BY <1>5, <1>8, <2>2, OrderFacts
  <2>4. Order[j] # t
    BY <2>3
  <2> QED
    BY <1>4, <2>3, <2>4
<1>10. Order' = Log!RemoveIndex(Order, k) /\ Ranks(position', Order')
  <2>1. RowsOK(position) /\ Ranks(position, Order)
    BY DEF Inv, Tables, Plain
  <2>2. DOMAIN position' = DOMAIN position \ {Order[k]}
    BY <1>7, <1>8
  <2>3. Ranks(position', Log!RemoveIndex(Order, k))
    BY <1>7, <2>1, <2>2, RanksRemove
  <2> QED
    BY <1>2, <2>3, NextOrder
<1>11. Store' = Log!Archived(t)
  <2>1. [[events[t] EXCEPT !.status = "active"] EXCEPT !.status = "archived"] = events[t]
    BY <1>5 DEF Log!Event
  <2>2. Store[t] = [events[t] EXCEPT !.status = "active"]
    BY <1>5, <1>6 DEF Store
  <2>3. \A u \in DOMAIN events :
          (IF u = t THEN [Store[u] EXCEPT !.status = "archived"] ELSE Store[u]) = events[u]
    <3>1. \A u \in DOMAIN events : u # t => Store[u] = events[u]
      BY <1>6 DEF Store
    <3> QED
      BY <2>1, <2>2, <3>1
  <2>4. DOMAIN Store = DOMAIN events
    BY DEF Store
  <2>5. Store' = [u \in DOMAIN events |-> events[u]]
    BY <1>1, <1>2 DEF Store
  <2>6. Store' = [u \in DOMAIN Store |-> IF u = t THEN [Store[u] EXCEPT !.status = "archived"] ELSE Store[u]]
    BY <2>3, <2>4, <2>5
  <2> QED
    BY <2>6 DEF Log!Archived, Store
<1>12. Log!ArchiveNext
  BY <1>1, <1>2, <1>8, <1>9, <1>10, <1>11 DEF Log!ArchiveNext, Store, history
<1>13. View' = View
  BY <1>2, <1>3, <1>4, <1>7 DEF View
<1>14. InTime' /\ StatusShown' /\ Placing'
  BY <1>1, <1>2, <1>3, <1>6, <1>7 DEF InTime, StatusShown, Placing, Plain
<1>15. Archiving'
  BY <1>2, <1>3, <1>4, <1>7 DEF Archiving
<1> QED
  BY <1>1, <1>10, <1>12, <1>13, <1>14, <1>15 DEF Plain

\* The Summary of tags that are before all others goes to the front.
LEMMA FrontIndex ==
  ASSUME Inv, Plain, op.phase = "archiving", op.todo = {}, NEW k \in 0..Len(Order), Log!InsertIndex(k)
  PROVE  k = 0
<1> SUFFICES ASSUME k # 0 PROVE FALSE
  OBVIOUS
<1>1. DOMAIN Order = 1..Len(Order) /\ Len(Order) \in Nat /\ \A i \in DOMAIN Order : Order[i] \in Listed
  BY OrderFacts
<1>2. 1 \in 1..k /\ 1 \in DOMAIN Order
  BY <1>1
<1>3. Order[1].lo <= op.first
  BY <1>2 DEF Log!InsertIndex
<1>4. PICK t \in op.tags : t.lo = op.first
  BY DEF Plain, Archiving
<1>5. Before(t, Order[1])
  BY <1>1, <1>2 DEF Plain, Archiving
<1>6. t \in View /\ Order[1] \in View
  BY <1>1, <1>2 DEF View
<1>7. t \in Log!Tag /\ Order[1] \in Log!Tag /\ t.lo <= t.hi
  BY <1>6 DEF Plain, Filed
<1> QED
  BY <1>3, <1>4, <1>5, <1>7, TagNumbers DEF Before

LEMMA StoreSummaryFits ==
  ASSUME Inv, Plain, StoreSummary
  PROVE  Plain' /\ Log!StoreSummary
<1>1. PICK lo \in Log!Number, hi \in Log!Number, k \in 0..Cardinality(Listed) :
        /\ Log!IsHull(op.tags, lo, hi)
        /\ Log!InsertIndex(k)
        /\ LET sum == [lo |-> lo, hi |-> hi, range |-> TRUE]
           IN IF sum \in DOMAIN events
              THEN /\ op' = Log!Idle
                   /\ UNCHANGED <<events, position, next>>
              ELSE /\ events'   = With(events, sum, [status |-> "active", children |-> op.tags])
                   /\ position' = With(position, sum, NewPosition)
                   /\ next'     = Greatest({next, hi + 1}, 1)
                   /\ op'       = [op EXCEPT !.phase = "stored", !.at = k, !.sum = sum]
  BY DEF StoreSummary
<1> DEFINE sum == [lo |-> lo, hi |-> hi, range |-> TRUE]
           v == [status |-> "active", children |-> op.tags]
           n == NewPosition
<1>2. Inv' /\ UNCHANGED <<marked, history>> /\ op.phase = "archiving" /\ op.todo = {} /\ marked = {}
  BY StoreSummaryInv DEF StoreSummary, Inv, Tables, TypeOK
<1>3. sum \in Log!Tag /\ sum.lo = lo /\ sum.hi = hi /\ sum.range
  BY DEF Log!Tag
<1>4. Hull(op.tags, sum)
  BY <1>1, <1>3 DEF Hull, Log!IsHull, Log!IsLeast, Log!IsGreatest
<1>5. /\ View = Listed \cup op.tags /\ Together(op.tags, View) /\ Filed(View, DOMAIN events)
      /\ \A t \in op.tags, u \in Listed : Before(t, u)
  BY <1>2 DEF View, Together, Plain, Archiving
<1> HIDE DEF v, n
<1>6. sum \notin DOMAIN events /\ sum \notin Listed
  <2> HIDE DEF sum
  <2>1. sum \notin DOMAIN events
    BY <1>4, <1>5, SumIsNew
  <2> QED
    BY <2>1 DEF Inv, ListedStored
<1>7. /\ events' = With(events, sum, v) /\ position' = With(position, sum, n)
      /\ next' = Greatest({next, hi + 1}, 1)
      /\ op' = [op EXCEPT !.phase = "stored", !.at = k, !.sum = sum]
  BY <1>1, <1>6 DEF v, n
<1>8. k = 0 /\ k \in 0..Len(Order)
  <2>1. k \in 0..Len(Order)
    BY OrderFacts
  <2> QED
    BY <1>1, <1>2, <2>1, FrontIndex
<1> HIDE DEF sum
<1>9. op'.phase = "stored" /\ op'.at = 0 /\ op'.sum = sum
  BY <1>7, <1>8 DEF Inv, Tables, OpRecord
<1>10. DOMAIN position' = Listed \cup {sum} /\ position'[sum] = n /\ \A u \in Listed : position'[u] = position[u]
  BY <1>6, <1>7 DEF With
<1>11. DOMAIN events' = DOMAIN events \cup {sum} /\ events'[sum] = v /\ \A u \in DOMAIN events : events'[u] = events[u]
  BY <1>6, <1>7 DEF With
<1>12. n \in Nat /\ \A u \in Listed : position[u] < n /\ position[u] \in Nat
  BY NewPositionFacts, OrderFacts DEF Inv, n
<1>13. Order' = Append(Order, sum) /\ Ranks(position', Order')
  <2>1. RowsOK(position) /\ Ranks(position, Order)
    BY DEF Inv, Tables, Plain
  <2>2. Ranks(position', Append(Order, sum))
    BY <1>6, <1>10, <1>12, <2>1, RanksAppend
  <2> QED
    BY <1>2, <2>2, NextOrder
<1>14. Filed(View', DOMAIN events')
  <2>1. View' = Listed \cup {sum}
    BY <1>9, <1>10 DEF View
  <2>2. Filed(Listed \cup {sum}, DOMAIN events \cup {sum})
    BY <1>4, <1>5, FiledCollapse
  <2> QED
    BY <1>11, <2>1, <2>2
<1>15. InTime'
  <2> SUFFICES ASSUME NEW a \in DOMAIN position', NEW b \in DOMAIN position', position'[a] < position'[b], b # sum
               PROVE  Before(a, b)
    BY <1>9 DEF InTime
  <2>1. b \in Listed /\ position'[b] = position[b] /\ position[b] < n /\ position[b] \in Nat
    BY <1>10, <1>12
  <2>2. a # sum
    BY <1>10, <1>12, <2>1
  <2> QED
    BY <1>2, <1>10, <2>1, <2>2 DEF Plain, InTime
<1>16. StatusShown'
  BY <1>2, <1>10, <1>11 DEF StatusShown, Plain, Inv, ListedStored, v
<1>17. Placing'
  <2>1. \A u \in Listed : Before(sum, u)
    BY <1>4, <1>5 DEF Hull, Before
  <2>2. events'[sum].status = "active"
    BY <1>11 DEF v
  <2> QED
    BY <1>9, <1>10, <2>1, <2>2 DEF Placing
<1>18. Archiving'
  BY <1>9 DEF Archiving
<1>19. next' = IF next > hi THEN next ELSE hi + 1
  <2> DEFINE g == Greatest({next, hi + 1}, 1)
  <2>1. next \in Nat /\ hi \in Nat /\ hi + 1 \in Nat
    BY DEF Inv, Tables, TypeOK, Log!Number
  <2>2. g \in {next, hi + 1} /\ next <= g /\ hi + 1 <= g
    BY <2>1, GreaterFacts
  <2> HIDE DEF g
  <2>3. g = IF next > hi THEN next ELSE hi + 1
    BY <2>1, <2>2
  <2> QED
    BY <1>7, <2>3 DEF g
<1>20. Store' = [t \in DOMAIN Store \cup {sum} |-> IF t = sum THEN v ELSE Store[t]]
  BY <1>2, <1>6, <1>11 DEF Store
<1>21. Log!StoreSummary
  BY <1>1, <1>2, <1>7, <1>8, <1>13, <1>19, <1>20 DEF Log!StoreSummary, Store, history, sum, v
<1> QED
  BY <1>13, <1>14, <1>15, <1>16, <1>17, <1>18, <1>21 DEF Plain

\* A tag taken from the list, if it is there.
LEMMA UnlistOrder ==
  ASSUME Inv, Plain, Inv', NEW t, position' = Without(position, t)
  PROVE  Order' = Log!Unlist(Order, t) /\ Ranks(position', Order')
<1>1. RowsOK(position) /\ Ranks(position, Order) /\ position \in [Listed -> Nat]
  BY DEF Inv, Tables, RowsOK, Plain
<1>2. CASE t \in Listed
  <2>1. PICK k \in DOMAIN Order : Order[k] = t
    BY <1>2, OrderFacts
  <2>2. \A i \in DOMAIN Order : Order[i] = t => i = k
    BY <2>1, OrderFacts
  <2>3. k \notin 1..(k - 1) /\ \A i \in 1..(k - 1) : i \in DOMAIN Order
    <3>1. DOMAIN Order = 1..Len(Order) /\ Len(Order) \in Nat
      BY OrderFacts
    <3> QED
      BY <3>1
  <2>4. Log!IsFirst(Order, {t}, k) /\ \A i \in DOMAIN Order : Log!IsFirst(Order, {t}, i) => i = k
    BY <2>1, <2>2, <2>3 DEF Log!IsFirst
  <2>5. (CHOOSE i \in DOMAIN Order : Log!IsFirst(Order, {t}, i)) = k
    BY <2>4
  <2>6. Log!Unlist(Order, t) = Log!RemoveIndex(Order, k)
    BY <2>1, <2>5 DEF Log!Unlist
  <2>7. DOMAIN position' = DOMAIN position \ {Order[k]} /\ \A u \in DOMAIN position' : position'[u] = position[u]
    BY <2>1 DEF Without
  <2>8. Ranks(position', Log!RemoveIndex(Order, k))
    BY <1>1, <2>7, RanksRemove
  <2> QED
    BY <2>6, <2>8, NextOrder
<1>3. CASE t \notin Listed
  <2>1. position' = position
    BY <1>1, <1>3 DEF Without
  <2>2. ~ \E k \in DOMAIN Order : Order[k] = t
    BY <1>3, OrderFacts
  <2>3. Log!Unlist(Order, t) = Order
    BY <2>2 DEF Log!Unlist
  <2>4. Ranks(position', Order)
    BY <1>1, <2>1
  <2> QED
    BY <2>3, <2>4, NextOrder
<1> QED
  BY <1>2, <1>3

LEMMA UnlistSummaryFits ==
  ASSUME Inv, Plain, UnlistSummary
  PROVE  Plain' /\ Log!UnlistSummary
<1>1. /\ position' = Without(position, op.sum) /\ op.phase = "stored" /\ Inv'
      /\ op' = [op EXCEPT !.phase = "placing"] /\ UNCHANGED <<events, next, marked, history>>
  BY UnlistSummaryInv DEF UnlistSummary
<1>2. op'.phase = "placing" /\ op'.sum = op.sum /\ op'.at = op.at
  BY <1>1 DEF Inv, Tables, OpRecord
<1>3. DOMAIN position' = Listed \ {op.sum} /\ \A u \in DOMAIN position' : position'[u] = position[u]
  BY <1>1 DEF Without
<1>4. /\ op.at = 0 /\ \A u \in Listed \ {op.sum} : Before(op.sum, u)
      /\ op.sum \in Listed /\ events[op.sum].status = "active"
  BY <1>1 DEF Plain, Placing
<1>5. Order' = Log!Unlist(Order, op.sum) /\ Ranks(position', Order')
  BY <1>1, UnlistOrder
<1>6. View' = View
  BY <1>1, <1>2, <1>3 DEF View
<1>7. InTime' /\ StatusShown'
  BY <1>1, <1>3 DEF InTime, StatusShown, Plain
<1>8. Archiving' /\ Placing'
  BY <1>1, <1>2, <1>3, <1>4 DEF Archiving, Placing
<1>9. Store' = Store
  BY <1>1 DEF Store
<1>10. Log!UnlistSummary
  BY <1>1, <1>5, <1>9 DEF Log!UnlistSummary, Store, history
<1> QED
  BY <1>1, <1>5, <1>6, <1>7, <1>8, <1>10 DEF Plain

LEMMA PlaceSummaryFits ==
  ASSUME Inv, Plain, PlaceSummary
  PROVE  Plain' /\ Log!PlaceSummary
<1>1. /\ position' = With(Shifted(op.at), op.sum, op.at) /\ op.phase = "placing" /\ Inv'
      /\ op' = Log!Idle /\ UNCHANGED <<events, next, marked, history>> /\ marked = {}
  BY PlaceSummaryInv DEF PlaceSummary, Inv, MarkedWhileArchiving
<1>2. /\ op.at = 0 /\ op.sum \notin Listed /\ events[op.sum].status = "active"
      /\ \A u \in Listed : Before(op.sum, u)
  BY <1>1 DEF Plain, Placing
<1>3. \A u \in Listed : position[u] \in Nat /\ position[u] + 1 \in Nat
  BY OrderFacts
<1>4. DOMAIN Shifted(0) = Listed /\ \A u \in Listed : Shifted(0)[u] = position[u] + 1
  BY <1>3 DEF Shifted
<1>5. /\ DOMAIN position' = Listed \cup {op.sum} /\ position'[op.sum] = 0
      /\ \A u \in Listed : position'[u] = position[u] + 1
  BY <1>1, <1>2, <1>4 DEF With
<1>6. Order' = Log!InsertAfter(Order, 0, op.sum) /\ Ranks(position', Order')
  <2>1. RowsOK(position) /\ Ranks(position, Order)
    BY DEF Inv, Tables, Plain
  <2>2. Ranks(position', Log!InsertAfter(Order, 0, op.sum))
    BY <1>2, <1>5, <2>1, RanksFront
  <2> QED
    BY <1>1, <2>2, NextOrder
<1>7. op'.phase = "idle"
  BY <1>1, IdleOp
<1>8. View' = View
  BY <1>1, <1>5, <1>7 DEF View
<1>9. InTime'
  <2> SUFFICES ASSUME NEW a \in DOMAIN position', NEW b \in DOMAIN position', position'[a] < position'[b]
               PROVE  Before(a, b)
    BY DEF InTime
  <2>1. b # op.sum
    BY <1>3, <1>5
  <2>2. CASE a = op.sum
    BY <1>2, <1>5, <2>1, <2>2
  <2>3. CASE a # op.sum
    <3>1. a \in Listed /\ b \in Listed /\ position[a] < position[b]
      BY <1>3, <1>5, <2>1, <2>3
    <3> QED
      BY <1>1, <3>1 DEF Plain, InTime
  <2> QED
    BY <2>2, <2>3
<1>10. StatusShown'
  BY <1>1, <1>2, <1>5 DEF StatusShown, Plain
<1>11. Archiving' /\ Placing'
  BY <1>7 DEF Archiving, Placing
<1>12. Store' = Store
  BY <1>1 DEF Store
<1>13. Log!PlaceSummary
  BY <1>1, <1>2, <1>6, <1>12 DEF Log!PlaceSummary, Store, history
<1> QED
  BY <1>1, <1>6, <1>8, <1>9, <1>10, <1>11, <1>13 DEF Plain

LEMMA RemoveFits ==
  ASSUME Inv, Plain, NEW t \in Log!Tag, Remove(t)
  PROVE  Plain' /\ Log!Remove(t)
<1>1. /\ op.phase = "idle" /\ t \in DOMAIN events /\ events' = Without(events, t) /\ position' = Without(position, t)
      /\ removed' = removed \cup {t} /\ UNCHANGED <<next, op, marked, added, faulty>>
      /\ hidden' = IF t \in Listed THEN hidden \cup Log!Nums(t) ELSE hidden
      /\ marked = {} /\ Inv'
  BY RemoveInv DEF Remove, UnlistRow, Inv, MarkedWhileArchiving
<1>2. DOMAIN position' = Listed \ {t} /\ \A u \in DOMAIN position' : position'[u] = position[u]
  BY <1>1 DEF Without
<1>3. DOMAIN events' = DOMAIN events \ {t} /\ \A u \in DOMAIN events' : events'[u] = events[u]
  BY <1>1 DEF Without
<1>4. Order' = Log!Unlist(Order, t) /\ Ranks(position', Order')
  BY <1>1, UnlistOrder
<1>5. Filed(View', DOMAIN events')
  <2>1. View' = View \ {t}
    BY <1>1, <1>2 DEF View
  <2>2. Filed(View \ {t}, DOMAIN events \ {t})
    BY FiledRemove DEF Plain
  <2> QED
    BY <1>3, <2>1, <2>2
<1>6. InTime'
  BY <1>1, <1>2 DEF InTime, Plain
<1>7. StatusShown'
  BY <1>1, <1>2, <1>3 DEF StatusShown, Plain, Inv, ListedStored
<1>8. Archiving' /\ Placing'
  BY <1>1 DEF Archiving, Placing
<1>9. Store' = [u \in DOMAIN Store \ {t} |-> Store[u]] /\ DOMAIN Store = DOMAIN events
  BY <1>1, <1>3 DEF Store
<1>10. Log!Remove(t)
  BY <1>1, <1>4, <1>9, OrderFacts DEF Log!Remove, Store
<1> QED
  BY <1>4, <1>5, <1>6, <1>7, <1>8, <1>10 DEF Plain

\* Two empty tables.
LEMMA Empty ==
  /\ \A p : DOMAIN p = {} => Ranks(p, <<>>)
  /\ Filed({}, {})
<1>1. ASSUME NEW p, DOMAIN p = {} PROVE Ranks(p, <<>>)
  <2>1. <<>> \in Seq(DOMAIN p) /\ DOMAIN <<>> = {}
    OBVIOUS
  <2> QED
    BY <1>1, <2>1 DEF Ranks
<1> QED
  BY <1>1 DEF Filed

LEMMA ClearFits ==
  ASSUME Inv, Plain, Clear
  PROVE  Plain' /\ Log!Clear
<1>1. /\ Inv' /\ op.phase = "idle" /\ marked = {} /\ DOMAIN position' = {} /\ events' = NoEvents
      /\ next' = 1 /\ removed' = {} /\ hidden' = {} /\ UNCHANGED <<op, marked, faulty>>
  BY ClearInv DEF Clear, Inv, MarkedWhileArchiving
<1>2. Order' = <<>> /\ Ranks(position', Order')
  BY <1>1, Empty, NextOrder
<1>3. DOMAIN events' = {}
  BY <1>1 DEF NoEvents
<1>4. View' = {}
  BY <1>1 DEF View
<1>5. Filed(View', DOMAIN events')
  BY <1>3, <1>4, Empty
<1>6. InTime' /\ StatusShown' /\ Archiving' /\ Placing'
  BY <1>1 DEF InTime, StatusShown, Archiving, Placing
<1>7. Store' = [t \in {} |-> [status |-> "active", children |-> {}]]
  BY <1>3 DEF Store
<1>8. Log!Clear
  BY <1>1, <1>2, <1>7 DEF Log!Clear, Store
<1> QED
  BY <1>2, <1>5, <1>6, <1>8 DEF Plain

LEMMA InitFits ==
  ASSUME Init
  PROVE  Plain /\ Log!Init
<1>1. /\ DOMAIN position = {} /\ events = NoEvents /\ next = 1 /\ op = Log!Idle /\ marked = {}
      /\ removed = {} /\ hidden = {} /\ op.phase = "idle" /\ RowsOK(position)
  BY InitInv, IdleOp DEF Init, Inv, Tables
<1>2. Order = <<>> /\ Ranks(position, Order)
  BY <1>1, Empty, OrderIs
<1>3. DOMAIN events = {}
  BY <1>1 DEF NoEvents
<1>4. View = {}
  BY <1>1 DEF View
<1>5. Filed(View, DOMAIN events)
  BY <1>3, <1>4, Empty
<1>6. InTime /\ StatusShown /\ Archiving /\ Placing
  BY <1>1 DEF InTime, StatusShown, Archiving, Placing
<1>7. Store = [t \in {} |-> [status |-> "active", children |-> {}]]
  BY <1>3 DEF Store
<1>8. Log!Init
  BY <1>1, <1>2, <1>7 DEF Log!Init, Store
<1> QED
  BY <1>2, <1>5, <1>6, <1>8 DEF Plain

\* Every step is the step of the log that has its name, or none.
LEMMA StepFits ==
  ASSUME FrontOnly, Inv, ~faulty, Plain, [Next]_vars
  PROVE  Plain' /\ [Log!Next]_<<Order, Store, next, op, removed, hidden>>
<1>1. CASE Add
  BY <1>1, AddFits DEF Log!Next
<1>2. ASSUME NEW s \in Log!Number, NEW e \in Log!Number, Collapse(s, e)
      PROVE  Plain' /\ [Log!Next]_<<Order, Store, next, op, removed, hidden>>
  BY <1>2, CollapseFits DEF Log!Next
<1>3. CASE Mark
  BY <1>3, MarkFits
<1>4. CASE UnlistMarked
  BY <1>4, UnlistMarkedFits DEF Log!Next, Log!CollapseStep
<1>5. CASE StoreSummary
  BY <1>5, StoreSummaryFits DEF Log!Next, Log!CollapseStep
<1>6. CASE UnlistSummary
  BY <1>6, UnlistSummaryFits DEF Log!Next, Log!CollapseStep
<1>7. CASE PlaceSummary
  BY <1>7, PlaceSummaryFits DEF Log!Next, Log!CollapseStep
<1>8. ASSUME NEW t \in Log!Tag, Remove(t)
      PROVE  Plain' /\ [Log!Next]_<<Order, Store, next, op, removed, hidden>>
  BY <1>8, RemoveFits DEF Log!Next
<1>9. CASE Clear
  BY <1>9, ClearFits DEF Log!Next
<1>10. ~Crash /\ ~CallFails
  BY DEF Crash, CallFails
<1>11. CASE UNCHANGED vars
  <2>1. Order' = Order /\ Store' = Store /\ View' = View
    BY <1>11 DEF vars, history, Order, Store, View
  <2> QED
    BY <1>11, <2>1 DEF vars, history, Plain, InTime, StatusShown, Archiving, Placing
<1> QED
  BY <1>1, <1>2, <1>3, <1>4, <1>5, <1>6, <1>7, <1>8, <1>9, <1>10, <1>11 DEF Next, CollapseStep

LEMMA FaultySame == [Next]_vars => faulty' = faulty
BY DEF Next, Add, Collapse, CollapseStep, Mark, UnlistMarked, StoreSummary, UnlistSummary, PlaceSummary,
       Remove, Clear, Crash, CallFails, vars, history

LEMMA PlainInvariant == FrontOnly => (Spec => [](~faulty => Plain))
<1> SUFFICES ASSUME FrontOnly PROVE Spec => [](~faulty => Plain)
  OBVIOUS
<1>1. Init => (~faulty => Plain)
  BY InitFits
<1>2. Inv /\ (~faulty => Plain) /\ [Next]_vars => (~faulty => Plain)'
  BY FaultySame, StepFits
<1> QED
  BY InitInv, StepInv, <1>1, <1>2, PTL DEF Spec

(***************************************************************************)
(* Where every collapse starts at the oldest active event and never meets  *)
(* one Summary alone, and without crashes and failed calls, the two tables *)
(* behave as the in-memory log does: each backend call is the call of that *)
(* name on the list and the dictionary, although its rows are ordered by   *)
(* position and shifted instead of indexed (SQLiteEventBackend).           *)
(***************************************************************************)
THEOREM TablesAreLog == FrontOnly => (Spec => ImplementsLog)
<1> SUFFICES ASSUME FrontOnly PROVE Spec => ImplementsLog
  OBVIOUS
<1>1. Init => (~faulty => Log!Init)
  BY InitFits
<1>2. Spec => []Inv /\ [](~faulty => Plain)
  BY Invariant, PlainInvariant, PTL
<1>3. Inv /\ (~faulty => Plain) /\ [Next]_vars => [~faulty => Log!Next]_(Log!vars)
  <2> SUFFICES ASSUME Inv, Plain, [Next]_vars, ~faulty PROVE [Log!Next]_(Log!vars)
    BY DEF Log!vars
  <2>1. [Log!Next]_<<Order, Store, next, op, removed, hidden>>
    BY StepFits
  <2> QED
    BY <2>1 DEF Log!vars, Store
<1> QED
  BY <1>1, <1>2, <1>3, PTL DEF Spec, ImplementsLog

(***************************************************************************)
(* The active list is then in chronological order whenever no collapse is  *)
(* in progress: insert_active_tag's use of an index as a position, which   *)
(* misplaces a Summary elsewhere, does no harm at the front.               *)
(***************************************************************************)
THEOREM OrderIsKept == FrontOnly => (Spec => [](~faulty => OrderKept))
<1> SUFFICES ASSUME FrontOnly PROVE Spec => [](~faulty => OrderKept)
  OBVIOUS
<1>1. Inv /\ Plain => OrderKept
  <2> SUFFICES ASSUME Inv, Plain, op.phase = "idle", NEW i \in DOMAIN Order, NEW j \in DOMAIN Order, i < j
               PROVE  Order[i].hi < Order[j].lo
    BY DEF OrderKept, Log!Sorted
  <2>1. Order[i] \in Listed /\ Order[j] \in Listed /\ position[Order[i]] < position[Order[j]]
    BY OrderFacts
  <2> QED
    BY <2>1 DEF Plain, InTime, Before
<1> QED
  BY Invariant, PlainInvariant, <1>1, PTL

-----------------------------------------------------------------------------
(***************************************************************************)
(* What is proved of the in-memory log holds of the tables.  Kept is that  *)
(* log and its proofs, on the rows in place of the list and the dictionary,*)
(* with no summarizer at work.                                             *)
(***************************************************************************)
Kept == INSTANCE EventManagerProofs
  WITH active <- Order, byTag <- Store,
       Summarizers <- {}, RefusedPending <- FALSE, MaxForgotten <- 0,
       running <- {}, pendingTask <- <<>>, pendingRange <- <<>>, pendingSummary <- <<>>,
       writing <- {}, told <- <<>>

\* Log is declared with SqliteEvents and Kept here: two instances of one module.
LEMMA SameInit == Log!Init => Kept!Init
BY Zenon DEF Log!Init, Kept!Init, Store, Log!Idle, Kept!Idle, Log!Leaf, Kept!Leaf

LEMMA SameSelection ==
  ASSUME NEW s, NEW e, Log!Collapse(s, e)
  PROVE  Kept!Collapse(s, e)
BY Zenon DEF Log!Collapse, Kept!Collapse, Store, Log!Listed, Kept!Listed, Log!Overlaps,
     Kept!Overlaps, Log!IsFirst, Kept!IsFirst, Log!Idle, Kept!Idle, Log!Leaf, Kept!Leaf

LEMMA SameCollapseStep == Log!CollapseStep => Kept!CollapseStep
<1>1. Log!ArchiveNext => Kept!ArchiveNext
  BY Zenon DEF Log!ArchiveNext, Kept!ArchiveNext, Store, Log!IsFirst, Kept!IsFirst,
       Log!Archived, Kept!Archived, Log!RemoveIndex, Kept!RemoveIndex
<1>2. Log!StoreSummary => Kept!StoreSummary
  BY Zenon DEF Log!StoreSummary, Kept!StoreSummary, Store, Log!Number, Kept!Number,
       Log!IsHull, Kept!IsHull, Log!IsLeast, Kept!IsLeast, Log!IsGreatest, Kept!IsGreatest,
       Log!InsertIndex, Kept!InsertIndex
<1>3. Log!UnlistSummary => Kept!UnlistSummary
  BY Zenon DEF Log!UnlistSummary, Kept!UnlistSummary, Store, Log!Unlist, Kept!Unlist,
       Log!IsFirst, Kept!IsFirst, Log!RemoveIndex, Kept!RemoveIndex
<1>4. Log!PlaceSummary => Kept!PlaceSummary
  BY Zenon DEF Log!PlaceSummary, Kept!PlaceSummary, Store, Log!InsertAfter, Kept!InsertAfter,
       Log!Idle, Kept!Idle, Log!Leaf, Kept!Leaf
<1> QED
  BY <1>1, <1>2, <1>3, <1>4, Zenon DEF Log!CollapseStep, Kept!CollapseStep

LEMMA SameNext ==
  ASSUME [Log!Next]_<<Order, Store, next, op, removed, hidden>>
  PROVE  [Kept!Next]_(Kept!vars)
<1>1. Log!Add => Kept!Add
  BY Zenon DEF Log!Add, Kept!Add, Store, Log!Leaf, Kept!Leaf
<1>2. ASSUME NEW t \in Log!Tag, Log!Remove(t) PROVE Kept!Remove(t)
  BY <1>2, Zenon DEF Log!Remove, Kept!Remove, Store, Log!Unlist, Kept!Unlist, Log!IsFirst,
       Kept!IsFirst, Log!RemoveIndex, Kept!RemoveIndex, Log!Listed, Kept!Listed, Log!Nums, Kept!Nums
<1>3. Log!Clear => Kept!Clear
  BY Zenon DEF Log!Clear, Kept!Clear, Store
<1>4. Log!Number = Kept!Number /\ Log!Tag = Kept!Tag
  BY DEF Log!Number, Kept!Number, Log!Tag, Kept!Tag
<1>5. Log!Next => Kept!Next
  BY <1>1, <1>2, <1>3, <1>4, SameSelection, SameCollapseStep, Zenon DEF Log!Next, Kept!Next
<1> QED
  BY <1>5 DEF Kept!vars

\* The inductive invariant of the log and its trees of Summaries; and no
\* Summary has become its own child.
Intact == Kept!IInv /\ Kept!Chosen /\ Kept!Trees /\ ~Kept!SelfCollapsed

LEMMA InitIntact == ASSUME Init PROVE Intact
<1>1. Kept!Init
  BY InitFits, SameInit
<1>2. Kept!IInv
  BY <1>1, Kept!InitIInv, ConstantsAssumption DEF Kept!MaxTagAssumption, Kept!SummarizerAssumption
<1>3. Kept!Chosen
  BY <1>1, Kept!InitChosen, ConstantsAssumption DEF Kept!MaxTagAssumption, Kept!SummarizerAssumption
<1>4. Kept!Trees
  BY <1>1, Kept!InitTrees, ConstantsAssumption DEF Kept!MaxTagAssumption, Kept!SummarizerAssumption
<1>5. ~Kept!SelfCollapsed
  BY <1>1 DEF Kept!Init, Kept!SelfCollapsed
<1> QED
  BY <1>2, <1>3, <1>4, <1>5 DEF Intact

LEMMA StepIntact ==
  ASSUME FrontOnly, Inv, ~faulty, Plain, [Next]_vars, Intact
  PROVE  Intact'
<1>1. [Kept!Next]_(Kept!vars)
  BY StepFits, SameNext
<1>2. Kept!IInv'
  BY <1>1, Kept!StepIInv, ConstantsAssumption
  DEF Intact, Kept!MaxTagAssumption, Kept!SummarizerAssumption
<1>3. Kept!Chosen'
  BY <1>1, Kept!StepChosen, ConstantsAssumption
  DEF Intact, Kept!MaxTagAssumption, Kept!SummarizerAssumption
<1>4. Kept!Trees'
  BY <1>1, Kept!StepTrees, ConstantsAssumption
  DEF Intact, Kept!MaxTagAssumption, Kept!SummarizerAssumption
<1>5. Kept!SelfOnlyAlone
  BY <1>1, Kept!StepSelf, ConstantsAssumption
  DEF Intact, Kept!MaxTagAssumption, Kept!SummarizerAssumption
<1>6. ASSUME NEW t, Kept!StoreSummary, t.range, op.tags = {t} PROVE FALSE
  BY <1>6 DEF Kept!StoreSummary, Plain, Archiving
<1>7. ~Kept!SelfCollapsed'
  BY <1>5, <1>6 DEF Intact, Kept!SelfOnlyAlone, Kept!SelfCollapsed
<1> QED
  BY <1>2, <1>3, <1>4, <1>7 DEF Intact

\* What the log promises, told of the tables.
Promises ==
  /\ Log!ViewComplete /\ Log!LeafAccessible /\ Log!StatusMatchesView
  /\ Log!SummaryExpands /\ ~Log!SelfCollapsed

LEMMA IntactPromises == ASSUME Intact PROVE Promises
<1>1. Kept!SummaryExpands
  BY Kept!TreesExpand, ConstantsAssumption
  DEF Intact, Kept!MaxTagAssumption, Kept!SummarizerAssumption
<1>2. Log!SummaryExpands
  BY <1>1, Zenon
  DEF Kept!SummaryExpands, Log!SummaryExpands, Store, Kept!SelfCollapsed, Log!SelfCollapsed,
      Kept!AllOriginals, Log!AllOriginals, Kept!OriginalsOf, Log!OriginalsOf, Kept!Originals,
      Log!Originals, Kept!Expansion, Log!Expansion, Kept!NothingBelow, Log!NothingBelow,
      Kept!Leaf, Log!Leaf, Kept!Nums, Log!Nums
<1>3. ~Log!SelfCollapsed
  BY Zenon DEF Intact, Kept!SelfCollapsed, Log!SelfCollapsed, Store
<1>4. Kept!ViewComplete /\ Kept!LeafAccessible /\ Kept!StatusMatchesView
  BY DEF Intact, Kept!IInv, Kept!Complete, Kept!Shown, Kept!ViewComplete, Kept!ListedStored,
         Kept!Status, Kept!StatusMatchesView
<1>5. Log!ViewComplete
  BY <1>4, Zenon DEF Kept!ViewComplete, Log!ViewComplete, Kept!Listed, Log!Listed, Kept!Nums,
                     Log!Nums, Kept!Number, Log!Number
<1>6. Log!LeafAccessible
  BY <1>4, Zenon DEF Kept!LeafAccessible, Log!LeafAccessible, Kept!Leaf, Log!Leaf,
                     Kept!Number, Log!Number, Store
<1>7. Log!StatusMatchesView
  BY <1>4, Zenon DEF Kept!StatusMatchesView, Log!StatusMatchesView, Kept!Listed, Log!Listed, Store
<1> QED
  BY <1>2, <1>3, <1>5, <1>6, <1>7 DEF Promises

(***************************************************************************)
(* Where collapses start at the oldest event and never take one Summary    *)
(* alone, and without faults, the database keeps the promises of the log:  *)
(* no event is lost from the view, event 5 is found under "5", the status  *)
(* column says what is in the view, and every Summary expands into all the *)
(* events of its range, no Summary being its own child.                    *)
(***************************************************************************)
THEOREM TablesKeepPromises == FrontOnly => (Spec => [](~faulty => Promises))
<1> SUFFICES ASSUME FrontOnly PROVE Spec => [](~faulty => Promises)
  OBVIOUS
<1>1. Init => (~faulty => Plain /\ Intact)
  BY InitFits, InitIntact
<1>2. Inv /\ (~faulty => Plain /\ Intact) /\ [Next]_vars => (~faulty => Plain /\ Intact)'
  BY FaultySame, StepFits, StepIntact
<1>3. (~faulty => Plain /\ Intact) => (~faulty => Promises)
  BY IntactPromises
<1> QED
  BY Invariant, <1>1, <1>2, <1>3, PTL DEF Spec

=============================================================================
