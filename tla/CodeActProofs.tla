--------------------------- MODULE CodeActProofs ----------------------------
(***************************************************************************)
(* Proofs about the generation loop, for any number of sessions and any    *)
(* configuration: the counters stay within the budget, every turn uses up  *)
(* some of it, the backstop for text replies holds, the answer a session   *)
(* returns is in the log, its sandbox is closed, what the LLM is shown of  *)
(* it is in order, and it sends no prompt twice.                           *)
(***************************************************************************)
EXTENDS CodeAct, FiniteSetTheorems, SequenceTheorems, TLAPS

Running == {"loop", "prefill", "generate", "calls", "exec"}
Outcomes == {"none", "value", "failed", "raised", "cancelled"}

StRec == [pc : {"idle", "closing", "done"} \cup Running, parent : Nat, iter : Nat, errs : Nat,
          text : Nat, turn : Nat, after : Nat, todo : Nat, at : Nat, seen : Nat,
          box : {"none", "open", "closed"}, outcome : Outcomes]

Limited(r) == r.errs <= conf.maxRetries /\ (conf.maxIter > 0 => r.iter <= conf.maxIter + 1)

\* A turn is paid for: the iterations and errors recorded cover the turns.
Paid(r) == r.turn <= r.iter + r.errs

TextBelow(r) == conf.maxText > 0 => r.text < conf.maxText

\* Within a turn the budget was not used up when the turn began: one error
\* is left, and before the response an iteration.
InTurn(r) ==
  /\ r.pc \in {"generate", "calls", "exec"} =>
       r.errs < conf.maxRetries /\ (conf.maxIter > 0 => r.iter <= conf.maxIter)
  /\ r.pc = "generate" => (conf.maxIter > 0 => r.iter < conf.maxIter)

Sound(r) ==
  /\ r \in StRec /\ Limited(r) /\ InTurn(r)
  /\ r.turn <= r.iter + r.errs + 1
  /\ r.pc \in Running \ {"generate"} => Paid(r)
  /\ r.pc \in Running => TextBelow(r)
  /\ r.pc \notin {"closing", "done"} => r.outcome = "none"
  /\ r.pc = "done" /\ r.box = "open" => r.outcome = "cancelled"

EventRec == [by : Session, kind : {"note", "call", "text", "output"},
             name : {"-", "python", "answer", "other"},
             result : {"-", "none", "executing", "complete", "error"},
             ref : Nat, turn : Nat, count : Nat, recovered : BOOLEAN]

\* A session that waits for a cell waits at its own call.
Waits(s, r, l) ==
  r.pc \in {"prefill", "exec"} =>
    /\ r.at \in 1..Len(l) /\ l[r.at].by = s /\ l[r.at].kind = "call"
    /\ l[r.at].name = "python" /\ l[r.at].result = "executing"

IsAnswer(e, s) == e.by = s /\ e.kind = "call" /\ e.name = "answer" /\ e.result = "complete"
AnswersIn(l, s) == {i \in 1..Len(l) : IsAnswer(l[i], s)}

LogSound(s) ==
  /\ st[s].outcome = "value" => /\ AnswersIn(log, s) # {}
                                /\ \A i \in AnswersIn(log, s) : \A j \in 1..Len(log) :
                                     log[j].by = s => j <= i
  /\ st[s].outcome \in {"none", "failed", "raised"} => AnswersIn(log, s) = {}

Inv ==
  /\ conf \in Configs
  /\ st \in [Session -> StRec] /\ \A s \in Session : Sound(st[s])
  /\ log \in Seq(EventRec)
  /\ \A s \in Session : Waits(s, st[s], log) /\ LogSound(s)

ConfRec == conf.maxIter \in Nat /\ conf.maxRetries \in Nat /\ conf.maxText \in Nat /\ conf.prefill \in Nat

LEMMA ConfFacts == ASSUME conf \in Configs PROVE ConfRec
BY ConstantsAssumption DEF Config, ConfRec

-----------------------------------------------------------------------------
(* The operators on a session.                                             *)

LEMMA ErredFacts ==
  ASSUME NEW r \in StRec
  PROVE  /\ Erred(r) \in StRec /\ Erred(r).errs = r.errs + 1 /\ Erred(r).iter = r.iter
         /\ Erred(r).turn = r.turn /\ Erred(r).text = r.text /\ Erred(r).outcome = r.outcome
BY DEF Erred, StRec

LEMMA IteratedFacts ==
  ASSUME NEW r \in StRec
  PROVE  /\ Iterated(r) \in StRec /\ Iterated(r).iter = r.iter + 1 /\ Iterated(r).errs = r.errs
         /\ Iterated(r).turn = r.turn /\ Iterated(r).text = r.text
         /\ Iterated(r).outcome = r.outcome
BY DEF Iterated, StRec

LEMMA TurnOverSound ==
  ASSUME NEW r \in StRec, Limited(r), Paid(r), TextBelow(r), r.outcome = "none"
  PROVE  Sound(TurnOver(r)) /\ TurnOver(r).pc = "loop" /\ TurnOver(r).outcome = "none"
<1> DEFINE q == TurnOver(r)
<1>1. /\ q \in StRec /\ q.pc = "loop" /\ q.errs = r.errs /\ q.iter = r.iter
      /\ q.turn = r.turn /\ q.text = r.text /\ q.outcome = "none"
  <2>1. r.after + 1 \in Nat /\ "loop" \in {"idle", "closing", "done"} \cup Running
    BY DEF StRec, Running
  <2>2. QED
    BY <2>1 DEF TurnOver, StRec
<1>2. r.turn \in Nat /\ r.iter \in Nat /\ r.errs \in Nat
  BY DEF StRec
<1> HIDE DEF q
<1>3. Sound(q)
  BY <1>1, <1>2 DEF Sound, Limited, InTurn, Paid, TextBelow
<1>4. QED
  BY <1>1, <1>3 DEF q

LEMMA EndedSound ==
  ASSUME NEW r \in StRec, NEW o \in Outcomes, Limited(r), r.turn <= r.iter + r.errs + 1
  PROVE  /\ Sound(Ended(r, o)) /\ Ended(r, o).pc \in {"closing", "done"} /\ Ended(r, o).outcome = o
         /\ Sound(Finished(r, o)) /\ Finished(r, o).pc \in {"closing", "done"} /\ Finished(r, o).outcome = o
<1> DEFINE q == Ended(r, o)
           f == Finished(r, o)
<1>1. Teardown(r, o) \in {"closing", "done"} /\ (Teardown(r, o) = "done" => r.box # "open")
  BY DEF Teardown
<1>2. /\ q \in StRec /\ q.pc = Teardown(r, o) /\ q.errs = r.errs /\ q.iter = r.iter
      /\ q.turn = r.turn /\ q.box = r.box /\ q.outcome = o
  BY <1>1 DEF Ended, StRec, Running
<1>3. /\ f \in StRec /\ f.pc = Teardown(r, o) /\ f.errs = r.errs /\ f.iter = r.iter
      /\ f.turn = r.turn /\ f.box = r.box /\ f.outcome = o
  BY <1>1, <1>2 DEF Finished, StRec
<1> HIDE DEF q, f
<1>4. Sound(q)
  BY <1>1, <1>2 DEF Sound, Limited, InTurn, Running
<1>5. Sound(f)
  BY <1>1, <1>3 DEF Sound, Limited, InTurn, Running
<1>6. QED
  BY <1>1, <1>2, <1>3, <1>4, <1>5 DEF q, f

LEMMA TextCountedSound ==
  ASSUME ConfRec, NEW r \in StRec, Limited(r), Paid(r), r.outcome = "none"
  PROVE  /\ Sound(TextCounted(r)) /\ TextCounted(r).pc \in {"loop", "closing", "done"}
         /\ TextCounted(r).outcome \in {"none", "failed"}
<1> DEFINE q == [r EXCEPT !.text = r.text + 1]
<1>1. /\ q \in StRec /\ q.errs = r.errs /\ q.iter = r.iter /\ q.turn = r.turn /\ q.text = r.text + 1
      /\ q.outcome = "none"
  BY DEF StRec
<1>2. r.turn \in Nat /\ r.iter \in Nat /\ r.errs \in Nat /\ r.text \in Nat
  BY DEF StRec
<1>3. TextCounted(r) = IF conf.maxText > 0 /\ r.text + 1 >= conf.maxText
                       THEN Finished(q, "failed") ELSE TurnOver(q)
  BY DEF TextCounted
<1> HIDE DEF q
<1>4. Limited(q) /\ Paid(q) /\ q.turn <= q.iter + q.errs + 1
  BY <1>1, <1>2 DEF Limited, Paid
<1>5. "failed" \in Outcomes
  BY DEF Outcomes
<1>6. CASE conf.maxText > 0 /\ r.text + 1 >= conf.maxText
  BY <1>1, <1>3, <1>4, <1>5, <1>6, EndedSound
<1>7. CASE ~(conf.maxText > 0 /\ r.text + 1 >= conf.maxText)
  <2>1. conf.maxText > 0 => r.text + 1 < conf.maxText
    BY <1>2, <1>7 DEF ConfRec
  <2>2. TextBelow(q)
    BY <1>1, <2>1 DEF TextBelow
  <2>3. QED
    BY <1>1, <1>3, <1>4, <1>7, <2>2, TurnOverSound
<1>8. QED
  BY <1>6, <1>7
-----------------------------------------------------------------------------
(* What a session does to the log, whatever it holds: it adds events of    *)
(* its own, and settles its own calls.                                     *)

Keeps(s, l, m) ==
  /\ m \in Seq(EventRec) /\ Len(l) <= Len(m)
  /\ \A i \in 1..Len(l) : /\ m[i].by = l[i].by /\ m[i].kind = l[i].kind /\ m[i].name = l[i].name
                          /\ m[i].ref = l[i].ref /\ m[i].turn = l[i].turn
                          /\ l[i].by # s => m[i].result = l[i].result
  /\ \A i \in 1..Len(m) : i > Len(l) => m[i].by = s

\* ... without an accepted answer, or with one at the end.
Silent(s, l, m) == Keeps(s, l, m) /\ AnswersIn(m, s) \subseteq AnswersIn(l, s)
Spoken(s, l, m) ==
  /\ Keeps(s, l, m) /\ Len(m) > 0 /\ Len(m) \in AnswersIn(m, s)
  /\ AnswersIn(m, s) \subseteq AnswersIn(l, s) \cup {Len(m)}

LEMMA AppendFacts ==
  ASSUME NEW l \in Seq(EventRec), NEW e \in EventRec
  PROVE  /\ Append(l, e) \in Seq(EventRec) /\ Len(Append(l, e)) = Len(l) + 1 /\ Len(l) \in Nat
         /\ \A i \in 1..Len(l) + 1 : Append(l, e)[i] = IF i = Len(l) + 1 THEN e ELSE l[i]
  OBVIOUS

LEMMA AppendKeeps ==
  ASSUME NEW s \in Session, NEW l \in Seq(EventRec), NEW e \in EventRec, e.by = s
  PROVE  /\ Keeps(s, l, Append(l, e))
         /\ ~IsAnswer(e, s) => Silent(s, l, Append(l, e))
         /\ IsAnswer(e, s) => Spoken(s, l, Append(l, e))
<1> DEFINE m == Append(l, e)
<1>1. /\ m \in Seq(EventRec) /\ Len(m) = Len(l) + 1 /\ Len(l) \in Nat
      /\ \A i \in 1..Len(l) + 1 : m[i] = IF i = Len(l) + 1 THEN e ELSE l[i]
  BY AppendFacts
<1> HIDE DEF m
<1>2. \A i \in 1..Len(l) : m[i] = l[i]
  BY <1>1
<1>3. m[Len(l) + 1] = e
  BY <1>1
<1>4. Keeps(s, l, m)
  BY <1>1, <1>2, <1>3 DEF Keeps
<1>5. AnswersIn(m, s) \subseteq AnswersIn(l, s) \cup {Len(m)}
  BY <1>1, <1>2 DEF AnswersIn
<1>6. Len(m) \in AnswersIn(m, s) <=> IsAnswer(e, s)
  BY <1>1, <1>3 DEF AnswersIn
<1>7. QED
  BY <1>1, <1>4, <1>5, <1>6 DEF Silent, Spoken, m

LEMMA SilentThen ==
  ASSUME NEW s \in Session, NEW l \in Seq(EventRec), NEW m, NEW n, Silent(s, l, m)
  PROVE  /\ Silent(s, m, n) => Silent(s, l, n)
         /\ Spoken(s, m, n) => Spoken(s, l, n)
<1>1. Keeps(s, m, n) => Keeps(s, l, n)
  <2> SUFFICES ASSUME Keeps(s, m, n) PROVE Keeps(s, l, n)
    OBVIOUS
  <2>1. /\ Len(l) \in Nat /\ Len(m) \in Nat /\ Len(n) \in Nat /\ Len(l) <= Len(m) /\ Len(m) <= Len(n)
        /\ n \in Seq(EventRec)
    BY DEF Silent, Keeps
  <2>2. \A i \in 1..Len(l) :
           /\ n[i].by = l[i].by /\ n[i].kind = l[i].kind /\ n[i].name = l[i].name
           /\ n[i].ref = l[i].ref /\ n[i].turn = l[i].turn
           /\ l[i].by # s => n[i].result = l[i].result
    <3> SUFFICES ASSUME NEW i \in 1..Len(l)
                 PROVE  /\ n[i].by = l[i].by /\ n[i].kind = l[i].kind /\ n[i].name = l[i].name
                        /\ n[i].ref = l[i].ref /\ n[i].turn = l[i].turn
                        /\ l[i].by # s => n[i].result = l[i].result
      OBVIOUS
    <3>1. i \in 1..Len(m)
      BY <2>1
    <3>2. /\ m[i].by = l[i].by /\ m[i].kind = l[i].kind /\ m[i].name = l[i].name
          /\ m[i].ref = l[i].ref /\ m[i].turn = l[i].turn
          /\ l[i].by # s => m[i].result = l[i].result
      BY DEF Silent, Keeps
    <3>3. /\ n[i].by = m[i].by /\ n[i].kind = m[i].kind /\ n[i].name = m[i].name
          /\ n[i].ref = m[i].ref /\ n[i].turn = m[i].turn
          /\ m[i].by # s => n[i].result = m[i].result
      BY <3>1 DEF Keeps
    <3>4. QED
      BY <3>2, <3>3
  <2>3. \A i \in 1..Len(n) : i > Len(l) => n[i].by = s
    <3> SUFFICES ASSUME NEW i \in 1..Len(n), i > Len(l) PROVE n[i].by = s
      OBVIOUS
    <3>1. CASE i > Len(m)
      BY <3>1 DEF Keeps
    <3>2. CASE ~(i > Len(m))
      <4>1. i \in 1..Len(m)
        BY <2>1, <3>2
      <4>2. m[i].by = s /\ n[i].by = m[i].by
        BY <4>1 DEF Silent, Keeps
      <4>3. QED
        BY <4>2
    <3>3. QED
      BY <3>1, <3>2
  <2>4. QED
    BY <2>1, <2>2, <2>3 DEF Keeps
<1>2. QED
  BY <1>1 DEF Silent, Spoken

LEMMA SilentSame ==
  ASSUME NEW s \in Session, NEW l \in Seq(EventRec) PROVE Silent(s, l, l)
<1>1. Len(l) \in Nat
  OBVIOUS
<1>2. QED
  BY <1>1 DEF Silent, Keeps

LEMMA ExceptFacts ==
  ASSUME NEW l \in Seq(EventRec), NEW k \in 1..Len(l), NEW v \in EventRec
  PROVE  /\ [l EXCEPT ![k] = v] \in Seq(EventRec) /\ Len([l EXCEPT ![k] = v]) = Len(l)
         /\ Len(l) \in Nat /\ l[k] \in EventRec
         /\ \A i \in 1..Len(l) : [l EXCEPT ![k] = v][i] = IF i = k THEN v ELSE l[i]
BY ExceptSeq, ElementOfSeq, LenProperties

LEMMA SettleSilent ==
  ASSUME NEW s \in Session, NEW l \in Seq(EventRec), NEW k \in 1..Len(l),
         l[k].by = s, l[k].name = "python",
         NEW rs \in {"-", "none", "executing", "complete", "error"}
  PROVE  Silent(s, l, Settle(l, k, rs)) /\ Len(Settle(l, k, rs)) = Len(l)
<1>0. l[k] \in EventRec
  BY ElementOfSeq
<1> DEFINE m == Settle(l, k, rs)
           v == [l[k] EXCEPT !.result = rs]
<1>1. /\ v \in EventRec /\ v.by = s /\ v.kind = l[k].kind /\ v.name = "python"
      /\ v.ref = l[k].ref /\ v.turn = l[k].turn
  BY <1>0 DEF EventRec
<1>2. m = [l EXCEPT ![k] = v]
  BY DEF Settle
<1> HIDE DEF m, v
<1>3. /\ m \in Seq(EventRec) /\ Len(m) = Len(l) /\ Len(l) \in Nat
      /\ \A i \in 1..Len(l) : m[i] = IF i = k THEN v ELSE l[i]
  BY <1>1, <1>2, ExceptFacts
<1>4. Keeps(s, l, m)
  <2>1. \A i \in 1..Len(l) : /\ m[i].by = l[i].by /\ m[i].kind = l[i].kind /\ m[i].name = l[i].name
                             /\ m[i].ref = l[i].ref /\ m[i].turn = l[i].turn
                             /\ l[i].by # s => m[i].result = l[i].result
    BY <1>1, <1>3
  <2>2. \A i \in 1..Len(m) : i > Len(l) => m[i].by = s
    BY <1>3
  <2>3. QED
    BY <1>3, <2>1, <2>2 DEF Keeps
<1>5. AnswersIn(m, s) \subseteq AnswersIn(l, s)
  BY <1>1, <1>3 DEF AnswersIn, IsAnswer
<1>6. QED
  BY <1>3, <1>4, <1>5 DEF Silent, m

\* Marking the text replies changes nothing else.
LEMMA RecoveredFacts ==
  ASSUME NEW l \in Seq(EventRec)
  PROVE  /\ Recovered(l) \in Seq(EventRec) /\ Len(Recovered(l)) = Len(l)
         /\ \A i \in 1..Len(l) :
              /\ Recovered(l)[i].by = l[i].by /\ Recovered(l)[i].kind = l[i].kind
              /\ Recovered(l)[i].name = l[i].name /\ Recovered(l)[i].result = l[i].result
              /\ Recovered(l)[i].ref = l[i].ref /\ Recovered(l)[i].turn = l[i].turn
<1> DEFINE m == Recovered(l)
           Back(i) == i \in TextsOf(l) /\ \A j \in TextsOf(l) : j >= i => ~l[j].recovered
           Like(v, w) == /\ v \in EventRec /\ v.by = w.by /\ v.kind = w.kind /\ v.name = w.name
                         /\ v.result = w.result /\ v.ref = w.ref /\ v.turn = w.turn
<1>1. Len(l) \in Nat /\ DOMAIN l = 1..Len(l) /\ \A i \in 1..Len(l) : l[i] \in EventRec
  OBVIOUS
<1>2. \A i \in 1..Len(l) : Like([l[i] EXCEPT !.recovered = TRUE], l[i]) /\ Like(l[i], l[i])
  BY <1>1 DEF EventRec
<1>3. m = [i \in 1..Len(l) |-> IF Back(i) THEN [l[i] EXCEPT !.recovered = TRUE] ELSE l[i]]
  BY <1>1 DEF Recovered
<1> HIDE DEF Back
<1>4. \A i \in 1..Len(l) : m[i] = IF Back(i) THEN [l[i] EXCEPT !.recovered = TRUE] ELSE l[i]
  BY <1>3
<1> HIDE DEF Like
<1>5. \A i \in 1..Len(l) : Like(m[i], l[i])
  BY <1>2, <1>4
<1>6. m \in Seq(EventRec) /\ Len(m) = Len(l)
  <2>1. m = [i \in 1..Len(l) |-> m[i]]
    BY <1>3
  <2>2. \A i \in 1..Len(l) : m[i] \in EventRec
    BY <1>5 DEF Like
  <2>3. QED
    BY <1>1, <2>1, <2>2, LenProperties
<1>7. QED
  BY <1>5, <1>6 DEF Like

LEMMA RecoveredSilent ==
  ASSUME NEW s \in Session, NEW l \in Seq(EventRec)
  PROVE  Silent(s, l, Recovered(l))
<1> DEFINE m == Recovered(l)
<1>1. /\ m \in Seq(EventRec) /\ Len(m) = Len(l) /\ Len(l) \in Nat
      /\ \A i \in 1..Len(l) : /\ m[i].by = l[i].by /\ m[i].kind = l[i].kind /\ m[i].name = l[i].name
                              /\ m[i].result = l[i].result /\ m[i].ref = l[i].ref
                              /\ m[i].turn = l[i].turn
  BY RecoveredFacts
<1> HIDE DEF m
<1>2. Keeps(s, l, m)
  BY <1>1 DEF Keeps
<1>3. AnswersIn(m, s) \subseteq AnswersIn(l, s)
  BY <1>1 DEF AnswersIn, IsAnswer
<1>4. QED
  BY <1>2, <1>3 DEF Silent, m

-----------------------------------------------------------------------------
(* What one step of session s makes of it and of the log.                  *)

Good(s, r) ==
  /\ Become(s, r) /\ Sound(r) /\ Waits(s, r, log')
  /\ \/ Silent(s, log, log') /\ r.outcome # "value"
     \/ Spoken(s, log, log') /\ r.outcome = "value"

Results == {"-", "none", "executing", "complete", "error"}
Names == {"-", "python", "answer", "other"}

LEMMA EventFacts ==
  ASSUME Inv, NEW s \in Session
  PROVE  /\ Note(s) \in EventRec /\ Note(s).by = s /\ ~IsAnswer(Note(s), s)
         /\ Text(s) \in EventRec /\ Text(s).by = s /\ ~IsAnswer(Text(s), s)
         /\ \A n \in Names, rs \in Results :
               /\ Call(s, n, rs) \in EventRec /\ Call(s, n, rs).by = s
               /\ Call(s, n, rs).kind = "call" /\ Call(s, n, rs).name = n /\ Call(s, n, rs).result = rs
         /\ \A k \in Nat, rs \in Results :
               /\ Output(s, k, rs) \in EventRec /\ Output(s, k, rs).by = s /\ ~IsAnswer(Output(s, k, rs), s)
<1>1. st[s].turn \in Nat /\ st[s].iter \in Nat
  BY DEF Inv, StRec
<1>2. QED
  BY <1>1 DEF Note, Text, Call, Output, Event, EventRec, IsAnswer, Results, Names

LEMMA RecoveredText ==
  ASSUME Inv, NEW s \in Session
  PROVE  /\ [Text(s) EXCEPT !.recovered = TRUE] \in EventRec
         /\ [Text(s) EXCEPT !.recovered = TRUE].by = s
         /\ ~IsAnswer([Text(s) EXCEPT !.recovered = TRUE], s)
<1>1. st[s].turn \in Nat /\ st[s].iter \in Nat
  BY DEF Inv, StRec
<1>2. QED
  BY <1>1 DEF Text, Event, EventRec, IsAnswer

LEMMA Plus ==
  ASSUME Inv, NEW s \in Session, NEW l, Silent(s, log, l), NEW e \in EventRec, e.by = s
  PROVE  /\ ~IsAnswer(e, s) => Silent(s, log, Append(l, e))
         /\ IsAnswer(e, s) => Spoken(s, log, Append(l, e))
<1>1. l \in Seq(EventRec) /\ log \in Seq(EventRec)
  BY DEF Silent, Keeps, Inv
<1>2. QED
  BY <1>1, AppendKeeps, SilentThen

LEMMA Appends ==
  ASSUME NEW l \in Seq(EventRec), NEW a \in EventRec, NEW b \in EventRec
  PROVE  /\ l \o <<a>> = Append(l, a)
         /\ l \o <<a, b>> = Append(Append(l, a), b)
  OBVIOUS

LEMMA AppendsThree ==
  ASSUME NEW l \in Seq(EventRec), NEW a \in EventRec, NEW b \in EventRec, NEW c \in EventRec
  PROVE  l \o <<a, b, c>> = Append(Append(Append(l, a), b), c)
  OBVIOUS

LEMMA LogGrows ==
  ASSUME Inv, NEW s \in Session
  PROVE  /\ Silent(s, log, log) /\ Silent(s, log, Append(log, Note(s)))
         /\ Silent(s, log, Recovered(log))
         /\ \A n \in Names, rs \in Results : n # "answer" \/ rs # "complete" =>
               Silent(s, log, Append(log, Call(s, n, rs)))
         /\ Spoken(s, log, Append(log, Call(s, "answer", "complete")))
         /\ \A n \in Names, rs \in Results : n # "answer" \/ rs # "complete" =>
               /\ Silent(s, log, log \o <<Text(s), Call(s, n, rs)>>)
               /\ Silent(s, log, log \o <<Text(s), Call(s, n, rs), Note(s)>>)
               /\ \A k \in Nat, os \in Results :
                     /\ Silent(s, log, log \o <<Text(s), Call(s, n, rs), Output(s, k, os)>>)
                     /\ Silent(s, log, log \o <<Call(s, n, rs), Output(s, k, os)>>)
         /\ Spoken(s, log, log \o <<[Text(s) EXCEPT !.recovered = TRUE], Call(s, "answer", "complete")>>)
<1>1. log \in Seq(EventRec)
  BY DEF Inv
<1>2. Silent(s, log, log) /\ Silent(s, log, Recovered(log))
  BY <1>1, SilentSame, RecoveredSilent
<1>3. /\ Silent(s, log, Append(log, Note(s)))
      /\ Silent(s, log, Append(log, Text(s)))
      /\ Silent(s, log, Append(log, [Text(s) EXCEPT !.recovered = TRUE]))
  BY <1>2, EventFacts, RecoveredText, Plus
<1>4. \A n \in Names, rs \in Results : Call(s, n, rs) \in EventRec /\ Call(s, n, rs).by = s
                                       /\ (IsAnswer(Call(s, n, rs), s) <=> n = "answer" /\ rs = "complete")
  BY EventFacts DEF IsAnswer
<1>5. "answer" \in Names /\ "complete" \in Results
  BY DEF Names, Results
<1>6. /\ Spoken(s, log, Append(log, Call(s, "answer", "complete")))
      /\ Spoken(s, log, Append(Append(log, [Text(s) EXCEPT !.recovered = TRUE]), Call(s, "answer", "complete")))
  BY <1>2, <1>3, <1>4, <1>5, Plus
<1>7. Spoken(s, log, log \o <<[Text(s) EXCEPT !.recovered = TRUE], Call(s, "answer", "complete")>>)
  BY <1>1, <1>4, <1>5, <1>6, RecoveredText, Appends
<1>8. ASSUME NEW n \in Names, NEW rs \in Results, n # "answer" \/ rs # "complete"
      PROVE  /\ Silent(s, log, Append(log, Call(s, n, rs)))
             /\ Silent(s, log, log \o <<Text(s), Call(s, n, rs)>>)
             /\ Silent(s, log, log \o <<Text(s), Call(s, n, rs), Note(s)>>)
             /\ \A k \in Nat, os \in Results :
                   /\ Silent(s, log, log \o <<Text(s), Call(s, n, rs), Output(s, k, os)>>)
                   /\ Silent(s, log, log \o <<Call(s, n, rs), Output(s, k, os)>>)
  <2> DEFINE e == Call(s, n, rs)
             t == Text(s)
             d == Note(s)
  <2>1. e \in EventRec /\ e.by = s /\ ~IsAnswer(e, s)
    BY <1>4, <1>8
  <2>2. t \in EventRec /\ t.by = s /\ d \in EventRec /\ d.by = s /\ ~IsAnswer(d, s)
    BY EventFacts
  <2>3. Silent(s, log, Append(log, t))
    BY <1>3
  <2> HIDE DEF e, t, d
  <2>4. Silent(s, log, Append(log, e)) /\ Silent(s, log, Append(Append(log, t), e))
    BY <1>2, <2>1, <2>3, Plus
  <2>5. Silent(s, log, Append(Append(Append(log, t), e), d))
    BY <2>2, <2>4, Plus
  <2>6. Silent(s, log, log \o <<t, e>>) /\ Silent(s, log, log \o <<t, e, d>>)
    <3>1. log \o <<t, e>> = Append(Append(log, t), e)
      BY <1>1, <2>1, <2>2, Appends
    <3>2. log \o <<t, e, d>> = Append(Append(Append(log, t), e), d)
      BY <1>1, <2>1, <2>2, AppendsThree
    <3>3. QED
      BY <2>4, <2>5, <3>1, <3>2
  <2>7. ASSUME NEW k \in Nat, NEW os \in Results
        PROVE  /\ Silent(s, log, log \o <<t, e, Output(s, k, os)>>)
               /\ Silent(s, log, log \o <<e, Output(s, k, os)>>)
    <3> DEFINE o == Output(s, k, os)
    <3>1. o \in EventRec /\ o.by = s /\ ~IsAnswer(o, s)
      BY EventFacts
    <3> HIDE DEF o
    <3>2. Silent(s, log, Append(Append(Append(log, t), e), o)) /\ Silent(s, log, Append(Append(log, e), o))
      BY <2>4, <3>1, Plus
    <3>3. Silent(s, log, log \o <<t, e, o>>) /\ Silent(s, log, log \o <<e, o>>)
      <4>1. log \o <<e, o>> = Append(Append(log, e), o)
        BY <1>1, <2>1, <3>1, Appends
      <4>2. log \o <<t, e, o>> = Append(Append(Append(log, t), e), o)
        BY <1>1, <2>1, <2>2, <3>1, AppendsThree
      <4>3. QED
        BY <3>2, <4>1, <4>2
    <3>4. QED
      BY <3>3 DEF o
  <2>8. QED
    BY <2>4, <2>6, <2>7 DEF e, t, d
<1>9. QED
  BY <1>2, <1>3, <1>6, <1>7, <1>8

\* The end of a cell settles the call the session waits at.
LEMMA CellGrows ==
  ASSUME Inv, NEW s \in Session, st[s].pc \in {"prefill", "exec"}
  PROVE  /\ \A rs \in Results : Silent(s, log, Settle(log, st[s].at, rs)) /\ Silent(s, log, Cell(s, rs))
         /\ Spoken(s, log, Cell(s, "complete") \o InlineReturn(s))
<1>1. /\ log \in Seq(EventRec) /\ st[s].at \in 1..Len(log) /\ st[s].at \in Nat
      /\ log[st[s].at].by = s /\ log[st[s].at].name = "python"
  BY DEF Inv, Waits, StRec
<1>2. \A rs \in Results : Silent(s, log, Settle(log, st[s].at, rs)) /\ Silent(s, log, Cell(s, rs))
  <2> SUFFICES ASSUME NEW rs \in Results
               PROVE  Silent(s, log, Settle(log, st[s].at, rs)) /\ Silent(s, log, Cell(s, rs))
    OBVIOUS
  <2>1. Silent(s, log, Settle(log, st[s].at, rs))
    BY <1>1, SettleSilent DEF Results
  <2>2. /\ Output(s, st[s].at, rs) \in EventRec /\ Output(s, st[s].at, rs).by = s
        /\ ~IsAnswer(Output(s, st[s].at, rs), s)
    BY <1>1, EventFacts
  <2>3. QED
    BY <2>1, <2>2, Plus DEF Cell
<1>3. "complete" \in Results /\ "answer" \in Names
  BY DEF Results, Names
<1> DEFINE e == Call(s, "answer", "complete")
           l == Cell(s, "complete")
<1>4. e \in EventRec /\ e.by = s /\ IsAnswer(e, s)
  BY <1>3, EventFacts DEF IsAnswer
<1>5. Silent(s, log, l) /\ l \in Seq(EventRec)
  BY <1>2, <1>3 DEF Silent, Keeps
<1> HIDE DEF e, l
<1>6. Spoken(s, log, Append(l, e)) /\ l \o <<e>> = Append(l, e)
  BY <1>4, <1>5, Plus, Appends
<1>7. QED
  BY <1>2, <1>6 DEF InlineReturn, e, l

-----------------------------------------------------------------------------
(* Steps that end the turn, or the loop.                                   *)

\* A session that a turn can be ended with.
Ready(r) == r \in StRec /\ Limited(r) /\ Paid(r) /\ r.outcome = "none"

LEMMA OverGood ==
  ASSUME Inv, NEW s \in Session, NEW r, Ready(r), TextBelow(r), Become(s, TurnOver(r)),
         Silent(s, log, log')
  PROVE  Good(s, TurnOver(r))
BY TurnOverSound DEF Good, Ready, Waits

LEMMA FinishedGood ==
  ASSUME Inv, NEW s \in Session, NEW r \in StRec, Limited(r), r.turn <= r.iter + r.errs + 1,
         NEW o \in Outcomes, Become(s, Finished(r, o)) \/ Become(s, Ended(r, o)),
         \/ Silent(s, log, log') /\ o # "value"
         \/ Spoken(s, log, log') /\ o = "value"
  PROVE  \E q : Good(s, q)
<1>1. CASE Become(s, Finished(r, o))
  BY <1>1, EndedSound DEF Good, Waits
<1>2. CASE Become(s, Ended(r, o))
  BY <1>2, EndedSound DEF Good, Waits
<1>3. QED
  BY <1>1, <1>2

LEMMA ReadyEnds ==
  ASSUME NEW r, Ready(r)
  PROVE  r \in StRec /\ Limited(r) /\ r.turn <= r.iter + r.errs + 1
BY DEF Ready, Paid, StRec

LEMMA FailedGood ==
  ASSUME Inv, NEW s \in Session, NEW r, Ready(r), NEW o \in Outcomes \ {"value"},
         Become(s, Finished(r, o)), Silent(s, log, log')
  PROVE  \E q : Good(s, q)
BY ReadyEnds, FinishedGood

LEMMA TextGood ==
  ASSUME Inv, NEW s \in Session, NEW r, Ready(r), Become(s, TextCounted(r)), Silent(s, log, log')
  PROVE  \E q : Good(s, q)
<1>1. ConfRec
  BY ConfFacts DEF Inv
<1>2. /\ Sound(TextCounted(r)) /\ TextCounted(r).pc \in {"loop", "closing", "done"}
      /\ TextCounted(r).outcome # "value"
  BY <1>1, TextCountedSound DEF Ready
<1>3. QED
  BY <1>2 DEF Good, Waits

LEMMA Current ==
  ASSUME Inv, NEW s \in Session
  PROVE  /\ st[s] \in StRec /\ Sound(st[s]) /\ ConfRec
         /\ st[s].iter \in Nat /\ st[s].errs \in Nat /\ st[s].turn \in Nat /\ st[s].text \in Nat
BY ConfFacts DEF Inv, StRec

\* The session of a turn, and what recording an error or iterations makes of it.
LEMMA TurnFacts ==
  ASSUME Inv, NEW s \in Session, st[s].pc \in {"generate", "calls", "exec"}
  PROVE  /\ TextBelow(st[s]) /\ Ready(Erred(st[s])) /\ TextBelow(Erred(st[s]))
         /\ Limited(st[s]) /\ st[s].turn <= st[s].iter + st[s].errs + 1 /\ st[s].outcome = "none"
         /\ st[s].pc # "generate" => Ready(st[s])
         /\ st[s].pc = "generate" =>
              /\ Ready(Iterated(st[s])) /\ TextBelow(Iterated(st[s]))
              /\ Ready(TextTwice(s)) /\ Ready(Erred(TextTwice(s)))
<1> DEFINE r == st[s]
           i == Iterated(r)
           t == Iterated(i)
<1>1. r \in StRec /\ Sound(r) /\ ConfRec /\ r.iter \in Nat /\ r.errs \in Nat /\ r.turn \in Nat
      /\ r.pc \in {"generate", "calls", "exec"}
  BY Current
<1>2. /\ Erred(r) \in StRec /\ Erred(r).errs = r.errs + 1 /\ Erred(r).iter = r.iter
      /\ Erred(r).turn = r.turn /\ Erred(r).text = r.text /\ Erred(r).outcome = r.outcome
  BY <1>1, ErredFacts
<1>3. /\ i \in StRec /\ i.iter = r.iter + 1 /\ i.errs = r.errs /\ i.turn = r.turn /\ i.text = r.text
      /\ i.outcome = r.outcome
  BY <1>1, IteratedFacts
<1>4. TextTwice(s) = t
  BY DEF TextTwice
<1> HIDE DEF r, i
<1>5. /\ t \in StRec /\ t.iter = r.iter + 2 /\ t.errs = r.errs /\ t.turn = r.turn /\ t.outcome = r.outcome
  BY <1>1, <1>3, IteratedFacts
<1> HIDE DEF t
<1>6. /\ Erred(t) \in StRec /\ Erred(t).errs = r.errs + 1 /\ Erred(t).iter = r.iter + 2
      /\ Erred(t).turn = r.turn /\ Erred(t).outcome = r.outcome
  BY <1>5, ErredFacts
<1>7. /\ TextBelow(r) /\ Limited(r) /\ r.turn <= r.iter + r.errs + 1 /\ r.outcome = "none"
      /\ r.errs < conf.maxRetries /\ (conf.maxIter > 0 => r.iter <= conf.maxIter)
      /\ r.pc # "generate" => Paid(r)
      /\ r.pc = "generate" => (conf.maxIter > 0 => r.iter < conf.maxIter)
  BY <1>1 DEF Sound, InTurn, Running
<1>8. Ready(Erred(r)) /\ TextBelow(Erred(r))
  BY <1>1, <1>2, <1>7 DEF Ready, Limited, Paid, TextBelow, ConfRec
<1>9. r.pc # "generate" => Ready(r)
  BY <1>1, <1>7 DEF Ready
<1>10. r.pc = "generate" => Ready(i) /\ TextBelow(i)
  BY <1>1, <1>3, <1>7 DEF Ready, Limited, Paid, TextBelow, ConfRec
<1>11. r.pc = "generate" => Ready(t)
  BY <1>1, <1>5, <1>7 DEF Ready, Limited, Paid, ConfRec
<1>12. r.pc = "generate" => Ready(Erred(t))
  BY <1>1, <1>6, <1>7 DEF Ready, Limited, Paid, ConfRec
<1>13. QED
  BY <1>4, <1>7, <1>8, <1>9, <1>10, <1>11, <1>12 DEF r, i

-----------------------------------------------------------------------------
(* Every step of a session but Close is good.                              *)

\* The new call that the session waits at, after Append(log, Call(..)).
LEMMA WaitsAtNew ==
  ASSUME Inv, NEW s \in Session, NEW r, r.at = Len(log) + 1,
         log' = Append(log, Call(s, "python", "executing"))
  PROVE  Waits(s, r, log') /\ Silent(s, log, log') /\ Len(log) + 1 \in Nat
<1>1. "python" \in Names /\ "executing" \in Results
  BY DEF Names, Results
<1> DEFINE e == Call(s, "python", "executing")
<1>2. /\ e \in EventRec /\ e.by = s /\ e.kind = "call" /\ e.name = "python" /\ e.result = "executing"
  BY <1>1, EventFacts
<1> HIDE DEF e
<1>3. log' = Append(log, e) /\ log \in Seq(EventRec)
  BY DEF e, Inv
<1>4. Len(log') = Len(log) + 1 /\ Len(log) + 1 \in 1..Len(log') /\ log'[Len(log) + 1] = e /\ Len(log) + 1 \in Nat
  BY <1>2, <1>3
<1>5. Silent(s, log, log')
  BY <1>1, LogGrows
<1>6. QED
  BY <1>2, <1>4, <1>5 DEF Waits

LEMMA BeginGood == ASSUME Inv, NEW s \in Session, NEW p \in Session \cup {Nobody}, Begin(s, p)
                   PROVE \E q : Good(s, q)
<1> DEFINE r == [Fresh EXCEPT !.pc = "loop", !.parent = p, !.todo = conf.prefill,
                              !.box = IF conf.sandbox THEN "open" ELSE "none"]
<1>1. ConfRec
  BY Current
<1>2. p \in Nat
  BY ConstantsAssumption DEF Session, Nobody
<1>3. /\ r \in StRec /\ r.pc = "loop" /\ r.errs = 0 /\ r.iter = 0 /\ r.turn = 0 /\ r.text = 0
      /\ r.outcome = "none"
  BY <1>1, <1>2 DEF ConfRec, Fresh, StRec, Running, Outcomes, Nobody
<1>4. Silent(s, log, log')
  BY LogGrows DEF Begin
<1>5. Become(s, r) \/ Become(s, Ended(r, "raised"))
  BY DEF Begin
<1> HIDE DEF r
<1>6. Limited(r) /\ Paid(r) /\ TextBelow(r) /\ r.turn <= r.iter + r.errs + 1 /\ InTurn(r)
  BY <1>1, <1>3 DEF Limited, Paid, TextBelow, ConfRec, InTurn
<1>7. Sound(r)
  BY <1>3, <1>6 DEF Sound, Running
<1>8. CASE Become(s, r)
  BY <1>3, <1>4, <1>7, <1>8 DEF Good, Waits
<1>9. CASE Become(s, Ended(r, "raised"))
  <2>1. "raised" \in Outcomes
    BY DEF Outcomes
  <2>2. QED
    BY <1>3, <1>4, <1>6, <1>9, <2>1, FinishedGood
<1>10. QED
  BY <1>5, <1>8, <1>9

LEMMA PrefillGood ==
  ASSUME Inv, NEW s \in Session, Prefill(s) \/ PrefillEnds(s) \/ PrefillRaises(s)
  PROVE  \E q : Good(s, q)
<1>1. /\ st[s] \in StRec /\ Sound(st[s]) /\ st[s].turn \in Nat
  BY Current
<1>2. CASE Prefill(s)
  <2> DEFINE r == [st[s] EXCEPT !.pc = "prefill", !.todo = @ - 1, !.at = Len(log) + 1]
  <2>1. Become(s, r) /\ log' = Append(log, Call(s, "python", "executing"))
        /\ st[s].pc = "loop" /\ st[s].todo > 0
    BY <1>2 DEF Prefill, At
  <2>2. st[s].todo - 1 \in Nat /\ Len(log) + 1 \in Nat
    BY <1>1, <2>1 DEF StRec, Inv
  <2>3. /\ r \in StRec /\ r.pc = "prefill" /\ r.at = Len(log) + 1 /\ r.errs = st[s].errs
        /\ r.iter = st[s].iter /\ r.turn = st[s].turn /\ r.text = st[s].text /\ r.outcome = st[s].outcome
    BY <1>1, <2>2 DEF StRec, Running
  <2> HIDE DEF r
  <2>4. Sound(r)
    BY <1>1, <2>1, <2>3 DEF Sound, Limited, InTurn, Paid, TextBelow, Running
  <2>5. Waits(s, r, log') /\ Silent(s, log, log')
    BY <2>1, <2>3, WaitsAtNew
  <2>6. r.outcome # "value"
    BY <1>1, <2>1, <2>3 DEF Sound
  <2>7. QED
    BY <2>1, <2>4, <2>5, <2>6 DEF Good
<1>3. CASE PrefillEnds(s) \/ PrefillRaises(s)
  <2>1. /\ st[s].pc = "prefill"
        /\ Become(s, [st[s] EXCEPT !.pc = "loop"]) \/ Become(s, [st[s] EXCEPT !.pc = "loop", !.todo = 0])
    BY <1>3 DEF PrefillEnds, PrefillRaises, At
  <2>2. PICK r : Become(s, r) /\ r \in {[st[s] EXCEPT !.pc = "loop"], [st[s] EXCEPT !.pc = "loop", !.todo = 0]}
    BY <2>1
  <2>3. /\ r \in StRec /\ r.pc = "loop" /\ r.errs = st[s].errs /\ r.outcome = st[s].outcome
        /\ r.iter = st[s].iter /\ r.turn = st[s].turn /\ r.text = st[s].text
    <3>1. CASE r = [st[s] EXCEPT !.pc = "loop"]
      BY <1>1, <3>1 DEF StRec, Running
    <3>2. CASE r = [st[s] EXCEPT !.pc = "loop", !.todo = 0]
      BY <1>1, <3>2 DEF StRec, Running
    <3>3. QED
      BY <2>2, <3>1, <3>2
  <2>4. Sound(r) /\ r.outcome # "value"
    BY <1>1, <2>1, <2>3 DEF Sound, Limited, InTurn, Paid, TextBelow, Running
  <2>5. Silent(s, log, log')
    BY <1>3, <2>1, LogGrows, CellGrows DEF PrefillEnds, PrefillRaises, Results
  <2>6. QED
    BY <2>2, <2>3, <2>4, <2>5 DEF Good, Waits
<1>4. QED
  BY <1>2, <1>3

LEMMA ShownType == ASSUME Inv PROVE Shown(log) \in Nat
<1>1. DOMAIN log = 1..Len(log) /\ Len(log) \in Nat
  BY DEF Inv
<1>2. IsFiniteSet(DOMAIN log)
  BY <1>1, FS_Interval
<1>3. IsFiniteSet({i \in DOMAIN log : log[i].kind # "text"})
  BY <1>2, FS_Subset
<1>4. QED
  BY <1>3, FS_CardinalityType DEF Shown

LEMMA TurnGood == ASSUME Inv, NEW s \in Session, Turn(s) \/ LoopExhausted(s) PROVE \E q : Good(s, q)
<1>1. /\ st[s] \in StRec /\ Sound(st[s]) /\ ConfRec
      /\ st[s].iter \in Nat /\ st[s].errs \in Nat /\ st[s].turn \in Nat /\ st[s].text \in Nat
  BY Current
<1>2. st[s].pc = "loop" /\ UNCHANGED log /\ Silent(s, log, log')
  BY LogGrows DEF Turn, LoopExhausted, At
<1>3. /\ Paid(st[s]) /\ TextBelow(st[s]) /\ Limited(st[s]) /\ st[s].outcome = "none"
  BY <1>1, <1>2 DEF Sound, Running
<1>4. CASE Turn(s)
  <2> DEFINE r == [st[s] EXCEPT !.pc = "generate", !.turn = @ + 1, !.seen = Shown(log)]
  <2>1. Become(s, r) /\ ~Exhausted(st[s])
    BY <1>4 DEF Turn
  <2>2. st[s].turn + 1 \in Nat
    BY <1>1
  <2>3. /\ r \in StRec /\ r.pc = "generate" /\ r.errs = st[s].errs /\ r.outcome = st[s].outcome
        /\ r.iter = st[s].iter /\ r.turn = st[s].turn + 1 /\ r.text = st[s].text
    BY <1>1, <2>2, ShownType DEF StRec, Running
  <2> HIDE DEF r
  <2>4. st[s].errs < conf.maxRetries /\ (conf.maxIter > 0 => st[s].iter < conf.maxIter)
    BY <1>1, <2>1 DEF Exhausted, ConfRec
  <2>5. Sound(r)
    BY <1>1, <1>3, <2>3, <2>4 DEF Sound, Limited, InTurn, Paid, TextBelow, Running, ConfRec
  <2>6. QED
    BY <1>2, <1>3, <2>1, <2>3, <2>5 DEF Good, Waits
<1>5. CASE LoopExhausted(s)
  <2>1. Ready(st[s]) /\ Become(s, Finished(st[s], "failed")) /\ "failed" \in Outcomes \ {"value"}
    BY <1>1, <1>3, <1>5 DEF Ready, LoopExhausted, Outcomes
  <2>2. QED
    BY <1>2, <2>1, FailedGood
<1>6. QED
  BY <1>4, <1>5

LEMMA Kinds == /\ {"python", "answer", "other", "-"} = Names
               /\ {"complete", "error", "none", "executing"} \subseteq Results
               /\ {"failed", "raised", "cancelled"} \subseteq Outcomes \ {"value"}
               /\ "value" \in Outcomes
BY DEF Names, Results, Outcomes

LEMMA ToolCallsGood == ASSUME Inv, NEW s \in Session, ToolCalls(s) PROVE \E q : Good(s, q)
<1>1. /\ st[s] \in StRec /\ Sound(st[s]) /\ ConfRec
      /\ st[s].iter \in Nat /\ st[s].errs \in Nat /\ st[s].turn \in Nat /\ st[s].text \in Nat
      /\ st[s].pc = "generate"
  BY Current DEF ToolCalls, At
<1>2. PICK n \in 1..MaxCalls :
         Become(s, [Iterated(st[s]) EXCEPT !.pc = "calls", !.todo = n, !.text = 0])
  BY DEF ToolCalls
<1> DEFINE i == Iterated(st[s])
           r == [i EXCEPT !.pc = "calls", !.todo = n, !.text = 0]
<1>3. Ready(i) /\ i.iter = st[s].iter + 1 /\ i.errs = st[s].errs
  BY <1>1, TurnFacts, IteratedFacts
<1>4. n \in Nat /\ Become(s, r)
  BY <1>2, ConstantsAssumption
<1> HIDE DEF i
<1>5. /\ r \in StRec /\ r.pc = "calls" /\ r.text = 0 /\ r.errs = i.errs /\ r.iter = i.iter
      /\ r.turn = i.turn /\ r.outcome = "none"
  BY <1>3, <1>4 DEF StRec, Running, Ready
<1> HIDE DEF r
<1>6. InTurn(r)
  BY <1>1, <1>3, <1>5 DEF InTurn, Sound, ConfRec
<1>7. Limited(r) /\ Paid(r) /\ TextBelow(r) /\ r.turn <= r.iter + r.errs + 1
  BY <1>1, <1>3, <1>5 DEF Ready, Limited, Paid, TextBelow, StRec, ConfRec
<1>8. Sound(r)
  BY <1>5, <1>6, <1>7 DEF Sound
<1>9. Silent(s, log, log')
  BY LogGrows DEF ToolCalls
<1>10. QED
  BY <1>4, <1>5, <1>8, <1>9 DEF Good, Waits

LEMMA TextAnswerGood ==
  ASSUME Inv, NEW s \in Session, TextAccepted(s) \/ TextRejected(s) \/ TextRaises(s)
  PROVE  \E q : Good(s, q)
<1>1. st[s].pc = "generate"
  BY DEF TextAccepted, TextRejected, TextRaises, At
<1>2. Ready(TextTwice(s)) /\ Ready(Erred(TextTwice(s)))
  BY <1>1, TurnFacts
<1>3. CASE TextAccepted(s)
  <2>1. Become(s, Finished(TextTwice(s), "value")) /\ Spoken(s, log, log')
    BY <1>3, LogGrows DEF TextAccepted
  <2>2. QED
    BY <1>2, <2>1, ReadyEnds, FinishedGood, Kinds
<1>4. CASE TextRejected(s)
  <2>1. Silent(s, log, log')
    BY <1>4, LogGrows, Kinds DEF TextRejected
  <2>2. \E r : Ready(r) /\ (Become(s, Finished(r, "failed")) \/ Become(s, TextCounted(r)))
    BY <1>2, <1>4 DEF TextRejected
  <2>3. QED
    BY <2>1, <2>2, FailedGood, TextGood, Kinds
<1>5. CASE TextRaises(s)
  <2>1. Become(s, Finished(TextTwice(s), "raised")) /\ Silent(s, log, log')
    BY <1>5, LogGrows, Kinds DEF TextRaises
  <2>2. QED
    BY <1>2, <2>1, FailedGood, Kinds
<1>6. QED
  BY <1>3, <1>4, <1>5

LEMMA ReplyGood ==
  ASSUME Inv, NEW s \in Session, TextCommented(s) \/ EmptyReply(s) \/ ApiError(s) \/ BlockError(s)
  PROVE  \E q : Good(s, q)
<1>1. st[s].pc = "generate"
  BY DEF TextCommented, EmptyReply, ApiError, BlockError, At
<1>2. /\ Ready(Iterated(st[s])) /\ TextBelow(Iterated(st[s]))
      /\ Ready(Erred(st[s])) /\ TextBelow(Erred(st[s]))
  BY <1>1, TurnFacts
<1>3. CASE TextCommented(s)
  <2>1. Len(log) + 2 \in Nat
    BY DEF Inv
  <2>2. Silent(s, log, log') /\ Become(s, TextCounted(Iterated(st[s])))
    BY <1>3, <2>1, LogGrows, Kinds DEF TextCommented
  <2>3. QED
    BY <1>2, <2>2, TextGood
<1>4. CASE EmptyReply(s) \/ ApiError(s)
  <2>1. Silent(s, log, log')
    BY <1>4, LogGrows DEF EmptyReply, ApiError
  <2>2. Become(s, TurnOver(Erred(st[s]))) \/ Become(s, Finished(Erred(st[s]), "failed"))
    BY <1>4 DEF EmptyReply, ApiError
  <2>3. QED
    BY <1>2, <2>1, <2>2, OverGood, FailedGood, Kinds
<1>5. CASE BlockError(s)
  <2>1. Silent(s, log, log') /\ Become(s, TurnOver(Iterated(st[s])))
    BY <1>5, LogGrows DEF BlockError
  <2>2. QED
    BY <1>2, <2>1, OverGood
<1>6. QED
  BY <1>3, <1>4, <1>5

LEMMA ExecuteGood == ASSUME Inv, NEW s \in Session, Execute(s) PROVE \E q : Good(s, q)
<1> DEFINE r == [st[s] EXCEPT !.pc = "exec", !.todo = @ - 1, !.at = Len(log) + 1]
<1>1. /\ st[s] \in StRec /\ Sound(st[s]) /\ st[s].pc = "calls" /\ st[s].todo > 0
      /\ Become(s, r) /\ log' = Append(log, Call(s, "python", "executing"))
  BY Current DEF Execute, NextCall, At
<1>2. st[s].todo - 1 \in Nat /\ Len(log) + 1 \in Nat
  BY <1>1 DEF StRec, Inv
<1>3. /\ r \in StRec /\ r.pc = "exec" /\ r.at = Len(log) + 1 /\ r.errs = st[s].errs
      /\ r.iter = st[s].iter /\ r.turn = st[s].turn /\ r.text = st[s].text /\ r.outcome = st[s].outcome
  BY <1>1, <1>2 DEF StRec, Running
<1> HIDE DEF r
<1>4. Sound(r) /\ r.outcome # "value"
  BY <1>1, <1>3 DEF Sound, Limited, InTurn, Paid, TextBelow, Running
<1>5. Waits(s, r, log') /\ Silent(s, log, log')
  BY <1>1, <1>3, WaitsAtNew
<1>6. QED
  BY <1>1, <1>4, <1>5 DEF Good

LEMMA CallGood ==
  ASSUME Inv, NEW s \in Session,
         CallsDone(s) \/ BadArguments(s) \/ UnknownTool(s) \/ EmptyCode(s)
         \/ ResultAccepted(s) \/ ResultRejected(s) \/ ResultRaises(s)
  PROVE  \E q : Good(s, q)
<1>1. st[s].pc = "calls"
  BY DEF CallsDone, BadArguments, UnknownTool, EmptyCode, ResultAccepted, ResultRejected,
         ResultRaises, NextCall, At
<1>2. Ready(st[s]) /\ TextBelow(st[s]) /\ Ready(Erred(st[s])) /\ TextBelow(Erred(st[s]))
  BY <1>1, TurnFacts
<1>3. CASE CallsDone(s) \/ BadArguments(s) \/ UnknownTool(s) \/ EmptyCode(s)
  <2>1. Len(log) + 1 \in Nat
    BY DEF Inv
  <2>2. Silent(s, log, log')
    BY <1>3, <2>1, LogGrows, Kinds DEF CallsDone, BadArguments, UnknownTool, EmptyCode
  <2>3. Become(s, TurnOver(st[s])) \/ Become(s, TurnOver(Erred(st[s])))
    BY <1>3 DEF CallsDone, BadArguments, UnknownTool, EmptyCode
  <2>4. QED
    BY <1>2, <2>2, <2>3, OverGood
<1>4. CASE ResultAccepted(s)
  <2>1. Become(s, Finished(st[s], "value")) /\ Spoken(s, log, log')
    BY <1>4, LogGrows DEF ResultAccepted
  <2>2. QED
    BY <1>2, <2>1, ReadyEnds, FinishedGood, Kinds
<1>5. CASE ResultRejected(s)
  <2>1. Silent(s, log, log')
    BY <1>5, LogGrows, Kinds DEF ResultRejected
  <2>2. \E r : Ready(r) /\ TextBelow(r) /\ (Become(s, Finished(r, "failed")) \/ Become(s, TurnOver(r)))
    BY <1>2, <1>5 DEF ResultRejected
  <2>3. QED
    BY <2>1, <2>2, OverGood, FailedGood, Kinds
<1>6. CASE ResultRaises(s)
  <2>1. Silent(s, log, log') /\ Become(s, Finished(st[s], "raised"))
    BY <1>6, LogGrows, Kinds DEF ResultRaises
  <2>2. QED
    BY <1>2, <2>1, FailedGood, Kinds
<1>7. QED
  BY <1>3, <1>4, <1>5, <1>6

LEMMA CellGood == ASSUME Inv, NEW s \in Session, CellStep(s) PROVE \E q : Good(s, q)
<1>1. st[s].pc = "exec"
  BY DEF CellStep, CellWorks, CellFails, CellReturns, CellReturnsBadly, CellRaises, At
<1>2. /\ Ready(st[s]) /\ TextBelow(st[s]) /\ Ready(Erred(st[s])) /\ TextBelow(Erred(st[s]))
      /\ st[s] \in StRec /\ Sound(st[s])
  BY <1>1, TurnFacts, Current
<1>3. /\ \A rs \in Results : Silent(s, log, Settle(log, st[s].at, rs)) /\ Silent(s, log, Cell(s, rs))
      /\ Spoken(s, log, Cell(s, "complete") \o InlineReturn(s)) /\ Silent(s, log, log)
  BY <1>1, CellGrows, LogGrows
<1>4. CASE CellWorks(s)
  <2> DEFINE r == [st[s] EXCEPT !.pc = "calls"]
  <2>1. Become(s, r) /\ Silent(s, log, log')
    BY <1>3, <1>4, Kinds DEF CellWorks
  <2>2. /\ r \in StRec /\ r.pc = "calls" /\ r.errs = st[s].errs
        /\ r.iter = st[s].iter /\ r.turn = st[s].turn /\ r.text = st[s].text /\ r.outcome = st[s].outcome
    BY <1>2 DEF StRec, Running
  <2> HIDE DEF r
  <2>3. Sound(r) /\ r.outcome # "value"
    BY <1>1, <1>2, <2>2 DEF Sound, Limited, InTurn, Paid, TextBelow, Running
  <2>4. QED
    BY <2>1, <2>2, <2>3 DEF Good, Waits
<1>5. CASE CellFails(s)
  <2>1. Become(s, TurnOver(st[s])) /\ Silent(s, log, log')
    BY <1>3, <1>5, Kinds DEF CellFails
  <2>2. QED
    BY <1>2, <2>1, OverGood
<1>6. CASE CellReturns(s)
  <2>1. Become(s, Finished(st[s], "value")) /\ Spoken(s, log, log')
    BY <1>3, <1>6 DEF CellReturns
  <2>2. QED
    BY <1>2, <2>1, ReadyEnds, FinishedGood, Kinds
<1>7. CASE CellReturnsBadly(s)
  <2>1. Silent(s, log, log')
    BY <1>3, <1>7, Kinds DEF CellReturnsBadly
  <2>2. \E r : Ready(r) /\ TextBelow(r) /\ (Become(s, Finished(r, "failed")) \/ Become(s, TurnOver(r)))
    BY <1>2, <1>7 DEF CellReturnsBadly
  <2>3. QED
    BY <2>1, <2>2, OverGood, FailedGood, Kinds
<1>8. CASE CellRaises(s)
  <2>1. Silent(s, log, log') /\ Become(s, Finished(st[s], "raised"))
    BY <1>3, <1>8, Kinds DEF CellRaises
  <2>2. QED
    BY <1>2, <2>1, FailedGood, Kinds
<1>9. QED
  BY <1>4, <1>5, <1>6, <1>7, <1>8 DEF CellStep

LEMMA CancelGood ==
  ASSUME Inv, NEW s \in Session, Cancel(s) \/ CancelClose(s) PROVE \E q : Good(s, q)
<1>1. /\ st[s] \in StRec /\ Sound(st[s]) /\ UNCHANGED log /\ Silent(s, log, log')
      /\ "cancelled" \in Outcomes /\ "cancelled" # "value"
  BY Current, LogGrows, Kinds DEF Cancel, CancelClose
<1>2. CASE Cancel(s)
  <2>1. Limited(st[s]) /\ st[s].turn <= st[s].iter + st[s].errs + 1
    BY <1>1 DEF Sound
  <2>2. Become(s, Finished(st[s], "cancelled")) \/ Become(s, Ended(st[s], "cancelled"))
    BY <1>2 DEF Cancel
  <2>3. QED
    BY <1>1, <2>1, <2>2, FinishedGood
<1>3. CASE CancelClose(s)
  <2> DEFINE r == [st[s] EXCEPT !.pc = "done", !.outcome = "cancelled"]
  <2>1. Become(s, r)
    BY <1>3 DEF CancelClose
  <2>2. /\ r \in StRec /\ r.pc = "done" /\ r.errs = st[s].errs /\ r.outcome = "cancelled"
        /\ r.iter = st[s].iter /\ r.turn = st[s].turn /\ r.text = st[s].text
    BY <1>1 DEF StRec, Running
  <2> HIDE DEF r
  <2>3. Sound(r)
    BY <1>1, <2>2 DEF Sound, Limited, InTurn, Running
  <2>4. QED
    BY <1>1, <2>1, <2>2, <2>3 DEF Good, Waits
<1>4. QED
  BY <1>2, <1>3

-----------------------------------------------------------------------------
(* Good steps keep the invariant: what the other sessions rely on is kept. *)

LEMMA GoodInv ==
  ASSUME Inv, NEW s \in Session, NEW r, Good(s, r),
         st[s].outcome = "none" \/ r.outcome = "cancelled"
  PROVE  Inv'
<1>1. /\ st' = [st EXCEPT ![s] = r] /\ UNCHANGED conf /\ Sound(r) /\ r \in StRec
      /\ Keeps(s, log, log')
  BY DEF Good, Become, Sound, Silent, Spoken
<1>2. /\ st' \in [Session -> StRec] /\ st'[s] = r /\ \A t \in Session \ {s} : st'[t] = st[t]
  BY <1>1 DEF Inv
<1>3. \A t \in Session : Sound(st'[t])
  BY <1>1, <1>2 DEF Inv
<1>4. (\A t \in Session : Sound(st[t]))'
  BY <1>1, <1>2, <1>3 DEF Sound, Limited, InTurn, Paid, TextBelow
<1>5. log' \in Seq(EventRec) /\ log \in Seq(EventRec) /\ Len(log) \in Nat /\ Len(log') \in Nat
      /\ Len(log) <= Len(log')
  BY <1>1 DEF Keeps, Inv
<1>6. ASSUME NEW t \in Session \ {s}
      PROVE  Waits(t, st'[t], log') /\ LogSound(t)'
  <2>1. Waits(t, st[t], log) /\ LogSound(t) /\ st'[t] = st[t]
    BY <1>2 DEF Inv
  <2>2. Waits(t, st[t], log')
    <3> SUFFICES ASSUME st[t].pc \in {"prefill", "exec"}
                 PROVE  /\ st[t].at \in 1..Len(log') /\ log'[st[t].at].by = t
                        /\ log'[st[t].at].kind = "call" /\ log'[st[t].at].name = "python"
                        /\ log'[st[t].at].result = "executing"
      BY DEF Waits
    <3>1. st[t].at \in 1..Len(log) /\ log[st[t].at].by = t /\ t # s
      BY <2>1 DEF Waits
    <3>2. st[t].at \in 1..Len(log')
      BY <1>5, <3>1
    <3>3. QED
      BY <1>1, <2>1, <3>1, <3>2 DEF Waits, Keeps
  <2>3. AnswersIn(log', t) = AnswersIn(log, t)
    <3>1. ASSUME NEW i \in AnswersIn(log', t) PROVE i \in AnswersIn(log, t)
      <4>1. i \in 1..Len(log') /\ IsAnswer(log'[i], t) /\ t # s
        BY DEF AnswersIn
      <4>2. ~(i > Len(log))
        BY <1>1, <4>1 DEF Keeps, IsAnswer
      <4>3. i \in 1..Len(log)
        BY <1>5, <4>1, <4>2
      <4>4. QED
        BY <1>1, <4>1, <4>3 DEF Keeps, IsAnswer, AnswersIn
    <3>2. ASSUME NEW i \in AnswersIn(log, t) PROVE i \in AnswersIn(log', t)
      <4>1. i \in 1..Len(log) /\ IsAnswer(log[i], t) /\ t # s /\ i \in 1..Len(log')
        BY <1>5 DEF AnswersIn
      <4>2. QED
        BY <1>1, <4>1 DEF Keeps, IsAnswer, AnswersIn
    <3>3. QED
      BY <3>1, <3>2
  <2>4. \A j \in 1..Len(log') : log'[j].by = t => j \in 1..Len(log) /\ log[j].by = t
    <3> SUFFICES ASSUME NEW j \in 1..Len(log'), log'[j].by = t PROVE j \in 1..Len(log) /\ log[j].by = t
      OBVIOUS
    <3>1. ~(j > Len(log))
      BY <1>1 DEF Keeps
    <3>2. j \in 1..Len(log)
      BY <1>5, <3>1
    <3>3. QED
      BY <1>1, <3>2 DEF Keeps
  <2>5. LogSound(t)'
    BY <2>1, <2>3, <2>4 DEF LogSound
  <2>6. QED
    BY <2>1, <2>2, <2>5
<1>7. Waits(s, st'[s], log')
  BY <1>2 DEF Good
<1>8. LogSound(s)'
  <2>1. CASE r.outcome = "cancelled"
    BY <1>2, <2>1 DEF LogSound
  <2>2. CASE r.outcome # "cancelled"
    <3>1. AnswersIn(log, s) = {}
      BY <2>2 DEF Inv, LogSound
    <3>2. CASE Silent(s, log, log') /\ r.outcome # "value"
      BY <1>2, <3>1, <3>2 DEF LogSound, Silent
    <3>3. CASE Spoken(s, log, log') /\ r.outcome = "value"
      <4>1. AnswersIn(log', s) = {Len(log')}
        BY <3>1, <3>3 DEF Spoken
      <4>2. \A j \in 1..Len(log') : j <= Len(log')
        BY <1>5
      <4>3. QED
        BY <1>2, <3>3, <4>1, <4>2 DEF LogSound
    <3>4. QED
      BY <3>2, <3>3 DEF Good
  <2>3. QED
    BY <2>1, <2>2
<1>9. \A t \in Session : Waits(t, st'[t], log') /\ LogSound(t)'
  BY <1>6, <1>7, <1>8
<1>10. QED
  BY <1>1, <1>2, <1>4, <1>5, <1>9 DEF Inv, Waits

LEMMA CloseInv == ASSUME Inv, NEW s \in Session, Close(s) PROVE Inv'
<1> DEFINE r == [st[s] EXCEPT !.pc = "done", !.box = "closed"]
<1>1. /\ st[s] \in StRec /\ Sound(st[s]) /\ UNCHANGED <<log, conf>>
      /\ st' = [st EXCEPT ![s] = r]
  BY Current DEF Close, Become
<1>2. /\ r \in StRec /\ r.pc = "done" /\ r.errs = st[s].errs /\ r.outcome = st[s].outcome
      /\ r.iter = st[s].iter /\ r.turn = st[s].turn /\ r.text = st[s].text /\ r.box = "closed"
  BY <1>1 DEF StRec, Running
<1> HIDE DEF r
<1>3. Sound(r)
  BY <1>1, <1>2 DEF Sound, Limited, InTurn, Running
<1>4. /\ st' \in [Session -> StRec] /\ st'[s] = r /\ \A t \in Session \ {s} : st'[t] = st[t]
  BY <1>1, <1>2 DEF Inv
<1>5. \A t \in Session : Sound(st'[t]) /\ Waits(t, st'[t], log) /\ st'[t].outcome = st[t].outcome
  BY <1>2, <1>3, <1>4 DEF Inv, Waits
<1>6. (\A t \in Session : Sound(st[t]))'
  BY <1>1, <1>5 DEF Sound, Limited, InTurn, Paid, TextBelow
<1>7. \A t \in Session : LogSound(t)'
  BY <1>1, <1>5 DEF Inv, LogSound
<1>8. QED
  BY <1>1, <1>4, <1>5, <1>6, <1>7 DEF Inv, Waits

LEMMA InitInv == Init => Inv
<1> SUFFICES ASSUME Init PROVE Inv
  OBVIOUS
<1>1. conf \in Configs /\ st = [s \in Session |-> Fresh] /\ log = <<>>
  BY DEF Init
<1>2. ConfRec
  BY <1>1, ConfFacts
<1>3. Fresh \in StRec /\ Fresh.pc = "idle" /\ Fresh.outcome = "none" /\ Fresh.errs = 0
      /\ Fresh.iter = 0 /\ Fresh.turn = 0
  BY DEF Fresh, StRec, Outcomes, Nobody
<1>4. Sound(Fresh)
  BY <1>2, <1>3 DEF Sound, Limited, InTurn, Running, ConfRec
<1>5. log \in Seq(EventRec) /\ \A s \in Session : AnswersIn(log, s) = {}
  BY <1>1 DEF AnswersIn
<1>6. \A s \in Session : st[s] = Fresh
  BY <1>1
<1>7. \A s \in Session : Waits(s, st[s], log) /\ LogSound(s)
  BY <1>3, <1>5, <1>6 DEF Waits, LogSound
<1>8. QED
  BY <1>1, <1>3, <1>4, <1>5, <1>6, <1>7 DEF Inv

LEMMA StepInv == Inv /\ [Next]_vars => Inv'
<1> SUFFICES ASSUME Inv, [Next]_vars PROVE Inv'
  OBVIOUS
<1>1. CASE UNCHANGED vars
  BY <1>1 DEF vars, Inv, Sound, Limited, InTurn, Paid, TextBelow, Waits, LogSound, AnswersIn
<1>2. ASSUME NEW s \in Session, NEW p \in Session \cup {Nobody}, Begin(s, p) PROVE Inv'
  <2>1. st[s].outcome = "none"
    BY <1>2, Current DEF Begin, At, Sound
  <2>2. QED
    BY <1>2, <2>1, BeginGood, GoodInv
<1>3. ASSUME NEW s \in Session, Step(s) PROVE Inv'
  <2>1. CASE Close(s)
    BY <2>1, CloseInv
  <2>2. CASE ~Close(s)
    <3>1. \E q : Good(s, q)
      BY <1>3, <2>2, PrefillGood, TurnGood, ToolCallsGood, TextAnswerGood, ReplyGood, ExecuteGood,
         CallGood, CellGood DEF Step, Response, CallStep
    <3>2. st[s].pc \in Running
      BY <1>3, <2>2 DEF Step, Prefill, PrefillEnds, PrefillRaises, Turn, LoopExhausted,
         Response, ToolCalls, TextAccepted, TextRejected, TextRaises, TextCommented, EmptyReply,
         ApiError, BlockError, CallStep, CallsDone, BadArguments, UnknownTool, EmptyCode, Execute,
         ResultAccepted, ResultRejected, ResultRaises, NextCall, CellStep, CellWorks, CellFails,
         CellReturns, CellReturnsBadly, CellRaises, At, Running
    <3>3. st[s].outcome = "none"
      BY <3>2, Current DEF Sound, Running
    <3>4. QED
      BY <3>1, <3>3, GoodInv
  <2>3. QED
    BY <2>1, <2>2
<1>4. ASSUME NEW s \in Session, Cancel(s) \/ CancelClose(s) PROVE Inv'
  <2>1. PICK q : Good(s, q)
    BY <1>4, CancelGood
  <2>2. st' = [st EXCEPT ![s] = q] /\ st'[s] = q /\ st[s] \in StRec
    BY <2>1 DEF Good, Become, Inv
  <2>3. CASE CancelClose(s)
    <3>1. st' = [st EXCEPT ![s] = [st[s] EXCEPT !.pc = "done", !.outcome = "cancelled"]]
      BY <2>3 DEF CancelClose, Become
    <3>2. st'[s] = [st[s] EXCEPT !.pc = "done", !.outcome = "cancelled"]
      BY <3>1 DEF Inv
    <3>3. q.outcome = "cancelled"
      BY <2>2, <3>2 DEF StRec
    <3>4. QED
      BY <2>1, <3>3, GoodInv
  <2>4. CASE Cancel(s)
    <3>1. st[s].outcome = "none"
      BY <2>4, Current DEF Cancel, Sound
    <3>2. QED
      BY <2>1, <3>1, GoodInv
  <2>5. QED
    BY <1>4, <2>3, <2>4
<1>5. QED
  BY <1>1, <1>2, <1>3, <1>4 DEF Next

LEMMA SpecInv == Spec => []Inv
<1>1. QED
  BY InitInv, StepInv, PTL DEF Spec

\* A session that waits for its cell waits at the call it recorded for it,
\* whatever nested sessions have added to the log since (codeact.py:
\* tool_call_event kept across the await of execute_code).
THEOREM TypesHold == Spec => []TypeOK
<1>1. Inv => TypeOK
  <2> SUFFICES ASSUME Inv PROVE TypeOK
    OBVIOUS
  <2>1. ASSUME NEW s \in Session, st[s].pc \in {"prefill", "exec"}
        PROVE  st[s].at \in Calls \cap Own(s) /\ log[st[s].at].result = "executing"
    BY <2>1 DEF Inv, Waits, Calls, Own
  <2>2. \A s \in Session : st[s] \in StRec
    BY DEF Inv
  <2>3. QED
    BY <2>1, <2>2 DEF Inv, TypeOK, StRec, Running, Outcomes
<1>2. QED
  BY <1>1, SpecInv, PTL

\* is_exhausted ends a session before its counters pass the limits, on every
\* path that raises them (record_iteration, record_error).
THEOREM BudgetsHold == Spec => []Budgets
<1>1. Inv => Budgets
  BY DEF Inv, Sound, Limited, Budgets
<1>2. QED
  BY <1>1, SpecInv, PTL

\* Every turn of the loop records an iteration or an error, so the number of
\* requests to the LLM is bounded by max_iterations and max_retries.
THEOREM TurnsArePaid == Spec => []EveryTurnCosts
<1>1. Inv => EveryTurnCosts
  BY DEF Inv, Sound, Paid, EveryTurnCosts, Running
<1>2. QED
  BY <1>1, SpecInv, PTL

\* max_consecutive_text_only replies without a tool call end the session
\* before the LLM is asked again (_check_text_only_backstop).
THEOREM BackstopHolds == Spec => []TextBackstop
<1>1. Inv => TextBackstop
  BY DEF Inv, Sound, TextBelow, TextBackstop, Prompting, Running
<1>2. QED
  BY <1>1, SpecInv, PTL

\* A value is returned if and only if an accepted return_result was recorded,
\* once and as the session's last event; also with nested sessions on the log.
THEOREM AnswersAreLogged == Spec => []AnswerLogged
<1>1. Inv => AnswerLogged
  <2> SUFFICES ASSUME Inv, NEW s \in Session
               PROVE  /\ st[s].outcome = "value" =>
                           \E i \in Own(s) : Accepted(s) = {i} /\ \A j \in Own(s) : j <= i
                      /\ st[s].outcome \in {"none", "failed", "raised"} => Accepted(s) = {}
    BY DEF AnswerLogged
  <2>1. DOMAIN log = 1..Len(log) /\ Len(log) \in Nat
    BY DEF Inv
  <2>2. Accepted(s) = AnswersIn(log, s)
    BY <2>1 DEF Accepted, Calls, Own, AnswersIn, IsAnswer
  <2>3. CASE st[s].outcome = "value"
    <3>1. PICK i : i \in AnswersIn(log, s)
      BY <2>3 DEF Inv, LogSound
    <3>2. i \in Own(s) /\ AnswersIn(log, s) \subseteq Own(s)
      BY <2>1, <3>1 DEF AnswersIn, IsAnswer, Own
    <3>3. \A k \in AnswersIn(log, s) : \A j \in Own(s) : j <= k
      BY <2>1, <2>3 DEF Inv, LogSound, Own
    <3>4. \A k \in AnswersIn(log, s) : k = i
      BY <2>1, <3>1, <3>2, <3>3 DEF Own
    <3>5. QED
      BY <2>2, <2>3, <3>1, <3>2, <3>3, <3>4
  <2>4. CASE st[s].outcome # "value"
    BY <2>2, <2>4 DEF Inv, LogSound
  <2>5. QED
    BY <2>3, <2>4
<1>2. QED
  BY <1>1, SpecInv, PTL

\* A session is over only when its sandbox is closed, whichever way it left
\* the loop, unless the closing itself was cancelled (the finally of execute).
THEOREM BoxesAreClosed == Spec => []BoxClosed
<1>1. Inv => BoxClosed
  BY DEF Inv, Sound, BoxClosed
<1>2. QED
  BY <1>1, SpecInv, PTL

\* The loop of execute costs what its configuration allows: retries and
\* iterations, some for each turn, and few text replies in a row.
THEOREM SessionsAreBounded == Spec => []Bounded
<1> QED
  BY BudgetsHold, TurnsArePaid, BackstopHolds, PTL DEF Bounded

\* However a session ends, a value it returned is that of one logged answer
\* and its worker is gone.
THEOREM SessionsEndWell == Spec => []SessionEnds
<1> QED
  BY AnswersAreLogged, BoxesAreClosed, PTL DEF SessionEnds

-----------------------------------------------------------------------------
(* What the LLM is shown of a session is in order.                         *)

\* What a session has recorded, by kind of event.
Has(l, s, i, kind) == i \in 1..Len(l) /\ l[i].by = s /\ l[i].kind = kind
OutputsIn(l, s, i) == {j \in 1..Len(l) : Has(l, s, j, "output") /\ l[j].ref = i}

\* Nothing ran after an error in the same turn.
Ordered(l, s) ==
  \A i, j \in 1..Len(l) :
    /\ Has(l, s, i, "call") /\ Has(l, s, j, "call") /\ i < j
    /\ l[i].turn = l[j].turn /\ l[i].turn > 0
    => l[i].result = "complete"

\* The cell of call i has its status and its one output.
Told(l, s, i) == l[i].result \in {"complete", "error"} /\ \E x : OutputsIn(l, s, i) = {x}

\* Up to turn t every cell but that of call k is told; an output follows
\* the call it is of.
Kept(l, s, t, k) ==
  /\ \A i \in 1..Len(l) : l[i].by = s => l[i].turn <= t
  /\ \A i \in 1..Len(l) : Has(l, s, i, "output") => l[i].ref < i
  /\ \A i \in 1..Len(l) : Has(l, s, i, "call") /\ l[i].name = "python" /\ l[i].turn > 0 /\ i # k
                          => Told(l, s, i)

\* The calls of turn t worked, up to call k if there is one.
Worked(l, s, t, k) ==
  \A i \in 1..Len(l) : Has(l, s, i, "call") /\ l[i].turn = t /\ i # k =>
    l[i].result = "complete" /\ (k # 0 => i < k)

Unasked(l, s, t) == \A i \in 1..Len(l) : Has(l, s, i, "call") => l[i].turn # t

Neat(s, r, l) ==
  /\ Ordered(l, s)
  /\ r.pc \in {"idle", "loop", "prefill", "generate", "calls"} => Kept(l, s, r.turn, 0)
  /\ r.pc \in {"idle", "prefill"} => r.turn = 0
  /\ r.pc \in {"generate", "calls", "exec"} => r.turn > 0
  /\ r.pc = "generate" => Unasked(l, s, r.turn)
  /\ r.pc = "calls" => Worked(l, s, r.turn, 0)
  /\ r.pc = "exec" => /\ Kept(l, s, r.turn, r.at) /\ Worked(l, s, r.turn, r.at)
                      /\ OutputsIn(l, s, r.at) = {} /\ l[r.at].turn = r.turn

\* The session between two calls, with room for another one, and in a cell.
Calm(l, s, t)    == Ordered(l, s) /\ Kept(l, s, t, 0)
Free(l, s, t)    == Calm(l, s, t) /\ (t > 0 => Worked(l, s, t, 0))
Busy(l, s, t, k) == /\ Ordered(l, s) /\ Kept(l, s, t, k) /\ (t > 0 => Worked(l, s, t, k))
                    /\ k \in 1..Len(l) /\ Has(l, s, k, "call") /\ l[k].turn = t
                    /\ t > 0 => OutputsIn(l, s, k) = {}

\* To session s two logs are alike: the second one has more of others.
Alike(s, l, m) ==
  /\ Len(l) <= Len(m)
  /\ \A i \in 1..Len(l) :
       /\ m[i].by = l[i].by
       /\ l[i].by = s => /\ m[i].kind = l[i].kind /\ m[i].name = l[i].name /\ m[i].ref = l[i].ref
                         /\ m[i].turn = l[i].turn /\ m[i].result = l[i].result
  /\ \A i \in 1..Len(m) : i > Len(l) => m[i].by # s

LEMMA AlikeHas ==
  ASSUME NEW s \in Session, NEW l \in Seq(EventRec), NEW m \in Seq(EventRec), Alike(s, l, m)
  PROVE  /\ \A i, k : Has(m, s, i, k) <=> Has(l, s, i, k)
         /\ \A i : OutputsIn(m, s, i) = OutputsIn(l, s, i)
<1>1. Len(l) \in Nat /\ Len(m) \in Nat /\ Len(l) <= Len(m)
  BY DEF Alike
<1>2. ASSUME NEW i, NEW k, Has(m, s, i, k) PROVE Has(l, s, i, k)
  <2>1. i \in 1..Len(m) /\ m[i].by = s /\ m[i].kind = k
    BY <1>2 DEF Has
  <2>2. ~(i > Len(l))
    BY <2>1 DEF Alike
  <2>3. i \in 1..Len(l)
    BY <1>1, <2>1, <2>2
  <2>4. QED
    BY <2>1, <2>3 DEF Alike, Has
<1>3. ASSUME NEW i, NEW k, Has(l, s, i, k) PROVE Has(m, s, i, k)
  <2>1. i \in 1..Len(l) /\ l[i].by = s /\ l[i].kind = k
    BY <1>3 DEF Has
  <2>2. i \in 1..Len(m)
    BY <1>1, <2>1
  <2>3. QED
    BY <2>1, <2>2 DEF Alike, Has
<1>4. \A i, k : Has(m, s, i, k) <=> Has(l, s, i, k)
  BY <1>2, <1>3
<1>5. \A j : Has(l, s, j, "output") => j \in 1..Len(l) /\ j \in 1..Len(m) /\ m[j].ref = l[j].ref
  BY <1>1 DEF Alike, Has
<1>6. \A i : OutputsIn(m, s, i) = OutputsIn(l, s, i)
  BY <1>4, <1>5 DEF OutputsIn
<1>7. QED
  BY <1>4, <1>6

LEMMA AlikeNeat ==
  ASSUME NEW s \in Session, NEW l \in Seq(EventRec), NEW m \in Seq(EventRec), Alike(s, l, m)
  PROVE  /\ Ordered(l, s) => Ordered(m, s)
         /\ \A t, k : Kept(l, s, t, k) => Kept(m, s, t, k)
         /\ \A t, k : Worked(l, s, t, k) => Worked(m, s, t, k)
         /\ \A t : Unasked(l, s, t) => Unasked(m, s, t)
<1>1. /\ \A i, k : Has(m, s, i, k) <=> Has(l, s, i, k)
      /\ \A i : OutputsIn(m, s, i) = OutputsIn(l, s, i)
  BY AlikeHas
<1>2. \A i, k : Has(l, s, i, k) =>
         /\ m[i].kind = l[i].kind /\ m[i].name = l[i].name /\ m[i].ref = l[i].ref
         /\ m[i].turn = l[i].turn /\ m[i].result = l[i].result /\ i \in 1..Len(l)
  BY DEF Alike, Has
<1>3. Ordered(l, s) => Ordered(m, s)
  BY <1>1, <1>2 DEF Ordered
<1>4. ASSUME NEW t, NEW k, Kept(l, s, t, k) PROVE Kept(m, s, t, k)
  <2>1. \A i \in 1..Len(m) : m[i].by = s => m[i].turn <= t
    <3> SUFFICES ASSUME NEW i \in 1..Len(m), m[i].by = s PROVE m[i].turn <= t
      OBVIOUS
    <3>1. Has(l, s, i, m[i].kind)
      BY <1>1 DEF Has
    <3>2. QED
      BY <1>2, <1>4, <3>1 DEF Kept, Has
  <2>2. \A i \in 1..Len(m) : Has(m, s, i, "output") => m[i].ref < i
    BY <1>1, <1>2, <1>4 DEF Kept
  <2>3. \A i \in 1..Len(m) : Has(m, s, i, "call") /\ m[i].name = "python" /\ m[i].turn > 0 /\ i # k
                             => Told(m, s, i)
    <3> SUFFICES ASSUME NEW i \in 1..Len(m), Has(m, s, i, "call"), m[i].name = "python",
                        m[i].turn > 0, i # k
                 PROVE  Told(m, s, i)
      OBVIOUS
    <3>1. Has(l, s, i, "call") /\ OutputsIn(m, s, i) = OutputsIn(l, s, i)
      BY <1>1
    <3>2. i \in 1..Len(l) /\ l[i].name = "python" /\ l[i].turn > 0 /\ m[i].result = l[i].result
      BY <1>2, <3>1
    <3>3. Told(l, s, i)
      BY <1>4, <3>1, <3>2 DEF Kept
    <3>4. QED
      BY <3>1, <3>2, <3>3 DEF Told
  <2>4. QED
    BY <2>1, <2>2, <2>3 DEF Kept
<1>5. \A t, k : Worked(l, s, t, k) => Worked(m, s, t, k)
  BY <1>1, <1>2 DEF Worked
<1>6. \A t : Unasked(l, s, t) => Unasked(m, s, t)
  BY <1>1, <1>2 DEF Unasked
<1>7. QED
  BY <1>3, <1>4, <1>5, <1>6

\* A session whose own events are as they were is as neat as it was.
LEMMA OthersNeat ==
  ASSUME NEW s \in Session, NEW l \in Seq(EventRec), NEW m \in Seq(EventRec), Alike(s, l, m),
         NEW r, Waits(s, r, l), Neat(s, r, l)
  PROVE  Neat(s, r, m)
<1>1. r.pc = "exec" => OutputsIn(m, s, r.at) = {} /\ m[r.at].turn = r.turn
  <2> SUFFICES ASSUME r.pc = "exec" PROVE OutputsIn(m, s, r.at) = {} /\ m[r.at].turn = r.turn
    OBVIOUS
  <2>1. r.at \in 1..Len(l) /\ l[r.at].by = s
    BY DEF Waits
  <2>2. m[r.at].turn = l[r.at].turn
    BY <2>1 DEF Alike
  <2>3. QED
    BY <2>2, AlikeHas DEF Neat
<1>2. QED
  BY <1>1, AlikeNeat DEF Neat

-----------------------------------------------------------------------------
(* Events the session itself adds.                                         *)

LEMMA AppendHas ==
  ASSUME NEW s \in Session, NEW l \in Seq(EventRec), NEW e \in EventRec, e.by = s
  PROVE  LET m == Append(l, e)
             n == Len(l) + 1
         IN  /\ m \in Seq(EventRec) /\ Len(m) = n /\ n \in 1..n /\ Len(l) \in Nat /\ m[n] = e
             /\ \A i \in 1..Len(l) : i \in 1..n /\ i # n /\ i < n /\ m[i] = l[i]
             /\ \A i \in 1..n : i = n \/ i \in 1..Len(l)
             /\ \A i, k : Has(m, s, i, k) <=> Has(l, s, i, k) \/ (i = n /\ e.kind = k)
             /\ \A i, k : Has(l, s, i, k) => i \in 1..Len(l) /\ i < n /\ m[i] = l[i]
             /\ e.kind # "output" => \A i : OutputsIn(m, s, i) = OutputsIn(l, s, i)
             /\ e.kind = "output" => \A i : OutputsIn(m, s, i) =
                                       IF i = e.ref THEN OutputsIn(l, s, i) \cup {n} ELSE OutputsIn(l, s, i)
<1> DEFINE m == Append(l, e)
           n == Len(l) + 1
<1>1. /\ m \in Seq(EventRec) /\ Len(m) = n /\ Len(l) \in Nat
      /\ \A i \in 1..n : m[i] = IF i = n THEN e ELSE l[i]
  BY AppendFacts
<1>2. n \in 1..n /\ (\A i \in 1..Len(l) : i \in 1..n /\ i # n /\ i < n) /\ \A i \in 1..n : i = n \/ i \in 1..Len(l)
  BY <1>1
<1> HIDE DEF m, n
<1>3. m[n] = e /\ \A i \in 1..Len(l) : m[i] = l[i]
  BY <1>1, <1>2
<1>4. ASSUME NEW i, NEW k PROVE Has(m, s, i, k) <=> Has(l, s, i, k) \/ (i = n /\ e.kind = k)
  <2>1. CASE i \in 1..Len(l)
    BY <1>1, <1>2, <1>3, <2>1 DEF Has
  <2>2. CASE i = n
    BY <1>1, <1>2, <1>3, <2>2 DEF Has
  <2>3. CASE i \notin 1..n
    BY <1>1, <1>2, <2>3 DEF Has
  <2>4. QED
    BY <1>2, <2>1, <2>2, <2>3
<1>5. \A i, k : Has(l, s, i, k) => i \in 1..Len(l) /\ i < n /\ m[i] = l[i]
  BY <1>2, <1>3 DEF Has
<1>6. ASSUME e.kind # "output", NEW i PROVE OutputsIn(m, s, i) = OutputsIn(l, s, i)
  <2>1. \A j : Has(m, s, j, "output") <=> Has(l, s, j, "output")
    BY <1>4, <1>6
  <2>2. \A j : Has(l, s, j, "output") => m[j].ref = l[j].ref /\ j \in 1..Len(l) /\ j \in 1..n
    BY <1>2, <1>5
  <2>3. QED
    BY <1>1, <2>1, <2>2 DEF OutputsIn
<1>7. ASSUME e.kind = "output", NEW i
      PROVE  OutputsIn(m, s, i) = IF i = e.ref THEN OutputsIn(l, s, i) \cup {n} ELSE OutputsIn(l, s, i)
  <2>1. \A j : Has(m, s, j, "output") <=> Has(l, s, j, "output") \/ j = n
    BY <1>4, <1>7
  <2>2. \A j : Has(l, s, j, "output") => m[j].ref = l[j].ref /\ j \in 1..Len(l) /\ j \in 1..n
    BY <1>2, <1>5
  <2>3. n \in OutputsIn(m, s, i) <=> i = e.ref
    BY <1>1, <1>2, <1>3, <2>1 DEF OutputsIn
  <2>4. \A j : j # n => (j \in OutputsIn(m, s, i) <=> j \in OutputsIn(l, s, i))
    BY <1>1, <2>1, <2>2 DEF OutputsIn
  <2>5. n \notin OutputsIn(l, s, i)
    BY <1>2 DEF OutputsIn
  <2>6. CASE i = e.ref
    BY <2>3, <2>4, <2>6
  <2>7. CASE i # e.ref
    <3>1. \A j : j \in OutputsIn(m, s, i) <=> j \in OutputsIn(l, s, i)
      BY <2>3, <2>4, <2>5, <2>7
    <3>2. OutputsIn(m, s, i) = OutputsIn(l, s, i)
      BY <3>1
    <3>3. QED
      BY <2>7, <3>2
  <2>8. QED
    BY <2>6, <2>7
<1>8. QED
  BY <1>1, <1>2, <1>3, <1>4, <1>5, <1>6, <1>7 DEF m, n

\* Notes and text replies disturb nothing.
LEMMA NoteNeat ==
  ASSUME NEW s \in Session, NEW l \in Seq(EventRec), NEW e \in EventRec, e.by = s,
         e.kind \notin {"call", "output"}, NEW t \in Nat, e.turn <= t
  PROVE  /\ Ordered(l, s) => Ordered(Append(l, e), s)
         /\ Calm(l, s, t) => Calm(Append(l, e), s, t)
         /\ Free(l, s, t) => Free(Append(l, e), s, t)
<1> DEFINE m == Append(l, e)
           n == Len(l) + 1
<1>1. /\ m \in Seq(EventRec) /\ Len(m) = n /\ m[n] = e
      /\ \A i \in 1..n : i = n \/ i \in 1..Len(l)
      /\ \A i \in 1..Len(l) : m[i] = l[i]
      /\ \A i, k : Has(m, s, i, k) <=> Has(l, s, i, k) \/ (i = n /\ e.kind = k)
      /\ \A i, k : Has(l, s, i, k) => i \in 1..Len(l) /\ i < n /\ m[i] = l[i]
      /\ e.kind # "output" => \A i : OutputsIn(m, s, i) = OutputsIn(l, s, i)
  BY AppendHas
<1> HIDE DEF m, n
<1>2. /\ \A i : Has(m, s, i, "call") <=> Has(l, s, i, "call")
      /\ \A i : Has(m, s, i, "output") <=> Has(l, s, i, "output")
      /\ \A i : OutputsIn(m, s, i) = OutputsIn(l, s, i)
  BY <1>1
<1>3. Ordered(l, s) => Ordered(m, s)
  BY <1>1, <1>2 DEF Ordered
<1>4. ASSUME Kept(l, s, t, 0) PROVE Kept(m, s, t, 0)
  <2>1. \A i \in 1..Len(m) : m[i].by = s => m[i].turn <= t
    BY <1>1, <1>4 DEF Kept
  <2>2. \A i \in 1..Len(m) : Has(m, s, i, "output") => m[i].ref < i
    BY <1>1, <1>2, <1>4 DEF Kept
  <2>3. \A i \in 1..Len(m) : Has(m, s, i, "call") /\ m[i].name = "python" /\ m[i].turn > 0 /\ i # 0
                             => Told(m, s, i)
    BY <1>1, <1>2, <1>4 DEF Kept, Told
  <2>4. QED
    BY <2>1, <2>2, <2>3 DEF Kept
<1>5. Worked(l, s, t, 0) => Worked(m, s, t, 0)
  BY <1>1, <1>2 DEF Worked
<1>6. QED
  BY <1>3, <1>4, <1>5 DEF Calm, Free, m

\* A call that is added is the one the session is busy with.
LEMMA CallNeat ==
  ASSUME NEW s \in Session, NEW l \in Seq(EventRec), NEW e \in EventRec, e.by = s,
         e.kind = "call", NEW t \in Nat, e.turn = t, Free(l, s, t)
  PROVE  /\ Busy(Append(l, e), s, t, Len(l) + 1)
         /\ Append(l, e)[Len(l) + 1] = e
         /\ Ordered(Append(l, e), s)
         /\ e.name # "python" => Calm(Append(l, e), s, t)
         /\ e.name # "python" /\ e.result = "complete" => Free(Append(l, e), s, t)
<1> DEFINE m == Append(l, e)
           n == Len(l) + 1
<1>1. /\ m \in Seq(EventRec) /\ Len(m) = n /\ n \in 1..n /\ m[n] = e /\ Len(l) \in Nat
      /\ \A i \in 1..n : i = n \/ i \in 1..Len(l)
      /\ \A i \in 1..Len(l) : m[i] = l[i] /\ i < n
      /\ \A i, k : Has(m, s, i, k) <=> Has(l, s, i, k) \/ (i = n /\ e.kind = k)
      /\ \A i, k : Has(l, s, i, k) => i \in 1..Len(l) /\ i < n /\ m[i] = l[i]
      /\ e.kind # "output" => \A i : OutputsIn(m, s, i) = OutputsIn(l, s, i)
  BY AppendHas
<1>0. n \in Nat /\ n # 0
  BY <1>1
<1> HIDE DEF m, n
<1>2. /\ \A i : Has(m, s, i, "call") <=> Has(l, s, i, "call") \/ i = n
      /\ \A i : Has(m, s, i, "output") <=> Has(l, s, i, "output")
      /\ \A i : OutputsIn(m, s, i) = OutputsIn(l, s, i)
  BY <1>1
<1>3. Ordered(m, s)
  <2> SUFFICES ASSUME NEW i \in 1..Len(m), NEW j \in 1..Len(m), Has(m, s, i, "call"),
                      Has(m, s, j, "call"), i < j, m[i].turn = m[j].turn, m[i].turn > 0
               PROVE  m[i].result = "complete"
    BY DEF Ordered
  <2>1. i # n
    <3>1. j <= n /\ i <= n
      BY <1>0, <1>1
    <3>2. QED
      BY <1>0, <1>1, <3>1
  <2>2. Has(l, s, i, "call") /\ m[i] = l[i] /\ i \in 1..Len(l)
    BY <1>1, <1>2, <2>1
  <2>3. CASE j = n
    <3>1. l[i].turn = t /\ t > 0
      BY <1>1, <2>2, <2>3
    <3>2. i # 0
      BY <2>2
    <3>3. QED
      BY <2>2, <3>1, <3>2 DEF Free, Worked
  <2>4. CASE j # n
    <3>1. Has(l, s, j, "call") /\ m[j] = l[j] /\ j \in 1..Len(l)
      BY <1>1, <1>2, <2>4
    <3>2. QED
      BY <2>2, <3>1 DEF Free, Calm, Ordered
  <2>5. QED
    BY <2>3, <2>4
<1>4. \A i \in 1..Len(m) : m[i].by = s => m[i].turn <= t
  BY <1>1 DEF Free, Calm, Kept
<1>5. \A i \in 1..Len(m) : Has(m, s, i, "output") => m[i].ref < i
  BY <1>1, <1>2 DEF Free, Calm, Kept
<1>6. ASSUME NEW i \in 1..Len(m), Has(m, s, i, "call"), m[i].name = "python", m[i].turn > 0, i # n
      PROVE  Told(m, s, i)
  <2>1. Has(l, s, i, "call") /\ m[i] = l[i] /\ i \in 1..Len(l) /\ i # 0
    BY <1>1, <1>2, <1>6
  <2>2. Told(l, s, i)
    BY <1>6, <2>1 DEF Free, Calm, Kept
  <2>3. QED
    BY <1>2, <2>1, <2>2 DEF Told
<1>7. Kept(m, s, t, n)
  BY <1>4, <1>5, <1>6 DEF Kept
<1>8. ASSUME t > 0 PROVE Worked(m, s, t, n)
  <2> SUFFICES ASSUME NEW i \in 1..Len(m), Has(m, s, i, "call"), m[i].turn = t, i # n
               PROVE  m[i].result = "complete" /\ i < n
    BY DEF Worked
  <2>1. Has(l, s, i, "call") /\ m[i] = l[i] /\ i \in 1..Len(l) /\ i # 0 /\ i < n
    BY <1>1, <1>2
  <2>2. QED
    BY <1>8, <2>1 DEF Free, Worked
<1>9. ASSUME t > 0 PROVE OutputsIn(m, s, n) = {}
  <2>1. \A j \in 1..Len(l) : Has(l, s, j, "output") => l[j].ref < n
    <3> SUFFICES ASSUME NEW j \in 1..Len(l), Has(l, s, j, "output") PROVE l[j].ref < n
      OBVIOUS
    <3>1. l[j].ref < j /\ l[j] \in EventRec
      BY ElementOfSeq DEF Free, Calm, Kept
    <3>2. l[j].ref \in Nat /\ j < n /\ j \in Nat
      <4>1. l[j].ref \in Nat
        BY <3>1 DEF EventRec
      <4>2. \A i \in 1..Len(l) : i < n
        BY <1>1
      <4>3. j < n
        BY <4>2
      <4>4. QED
        BY <4>1, <4>3
    <3>3. QED
      BY <1>0, <3>1, <3>2
  <2>2. \A j \in 1..Len(l) : Has(l, s, j, "output") => l[j].ref # n
    BY <1>0, <2>1
  <2>3. OutputsIn(l, s, n) = {}
    BY <2>2 DEF OutputsIn
  <2>4. QED
    BY <1>2, <2>3
<1>10. Has(m, s, n, "call") /\ m[n].turn = t /\ n \in 1..Len(m)
  BY <1>1, <1>2
<1>11. Busy(m, s, t, n)
  BY <1>3, <1>7, <1>8, <1>9, <1>10 DEF Busy
<1>12. e.name # "python" => Kept(m, s, t, 0)
  BY <1>1, <1>4, <1>5, <1>6 DEF Kept
<1>13. e.result = "complete" /\ t > 0 => Worked(m, s, t, 0)
  BY <1>1, <1>8 DEF Worked
<1>14. QED
  BY <1>1, <1>3, <1>11, <1>12, <1>13 DEF Calm, Free, m, n

\* The output of the call the session was busy with.
LEMMA OutputNeat ==
  ASSUME NEW s \in Session, NEW l \in Seq(EventRec), NEW e \in EventRec, e.by = s,
         e.kind = "output", NEW t \in Nat, e.turn <= t, Busy(l, s, t, e.ref),
         l[e.ref].result \in {"complete", "error"}
  PROVE  /\ Calm(Append(l, e), s, t)
         /\ l[e.ref].result = "complete" => Free(Append(l, e), s, t)
<1> DEFINE m == Append(l, e)
           n == Len(l) + 1
           k == e.ref
<1>1. /\ m \in Seq(EventRec) /\ Len(m) = n /\ n \in 1..n /\ m[n] = e /\ Len(l) \in Nat
      /\ \A i \in 1..n : i = n \/ i \in 1..Len(l)
      /\ \A i \in 1..Len(l) : m[i] = l[i] /\ i < n
      /\ \A i, q : Has(m, s, i, q) <=> Has(l, s, i, q) \/ (i = n /\ e.kind = q)
      /\ \A i, q : Has(l, s, i, q) => i \in 1..Len(l) /\ i < n /\ m[i] = l[i]
      /\ e.kind = "output" => \A i : OutputsIn(m, s, i) =
                                IF i = e.ref THEN OutputsIn(l, s, i) \cup {n} ELSE OutputsIn(l, s, i)
  BY AppendHas
<1> HIDE DEF m, n
<1>2. /\ \A i : Has(m, s, i, "call") <=> Has(l, s, i, "call")
      /\ \A i : Has(m, s, i, "output") <=> Has(l, s, i, "output") \/ i = n
      /\ \A i : i # k => OutputsIn(m, s, i) = OutputsIn(l, s, i)
      /\ OutputsIn(m, s, k) = OutputsIn(l, s, k) \cup {n}
  BY <1>1
<1>3. /\ Ordered(l, s) /\ Kept(l, s, t, k) /\ (t > 0 => Worked(l, s, t, k))
      /\ k \in 1..Len(l) /\ Has(l, s, k, "call") /\ l[k].turn = t
      /\ t > 0 => OutputsIn(l, s, k) = {}
      /\ l[k].result \in {"complete", "error"}
  BY DEF Busy
<1> HIDE DEF k
<1>4. Ordered(m, s)
  BY <1>1, <1>2, <1>3 DEF Ordered
<1>5. \A i \in 1..Len(m) : m[i].by = s => m[i].turn <= t
  BY <1>1, <1>3 DEF Kept
<1>6. \A i \in 1..Len(m) : Has(m, s, i, "output") => m[i].ref < i
  <2> SUFFICES ASSUME NEW i \in 1..Len(m), Has(m, s, i, "output") PROVE m[i].ref < i
    OBVIOUS
  <2>1. CASE i = n
    BY <1>1, <1>3, <2>1 DEF k
  <2>2. CASE i # n
    BY <1>1, <1>2, <1>3, <2>2 DEF Kept
  <2>3. QED
    BY <2>1, <2>2
<1>7. ASSUME NEW i \in 1..Len(m), Has(m, s, i, "call"), m[i].name = "python", m[i].turn > 0
      PROVE  Told(m, s, i)
  <2>1. Has(l, s, i, "call") /\ m[i] = l[i] /\ i \in 1..Len(l)
    BY <1>1, <1>2, <1>7
  <2>2. CASE i = k
    <3>1. OutputsIn(m, s, i) = {n}
      BY <1>2, <1>3, <1>7, <2>1, <2>2
    <3>2. QED
      BY <1>3, <2>1, <2>2, <3>1 DEF Told
  <2>3. CASE i # k
    <3>1. Told(l, s, i)
      BY <1>3, <1>7, <2>1, <2>3 DEF Kept
    <3>2. QED
      BY <1>2, <2>1, <2>3, <3>1 DEF Told
  <2>4. QED
    BY <2>2, <2>3
<1>8. Calm(m, s, t)
  BY <1>4, <1>5, <1>6, <1>7 DEF Calm, Kept
<1>9. l[k].result = "complete" /\ t > 0 => Worked(m, s, t, 0)
  BY <1>1, <1>2, <1>3 DEF Worked
<1>10. QED
  BY <1>8, <1>9 DEF Free, m, k

\* The status of the call the session is busy with.
LEMMA SettleNeat ==
  ASSUME NEW s \in Session, NEW l \in Seq(EventRec), NEW t \in Nat, NEW k \in 1..Len(l),
         Busy(l, s, t, k), NEW rs \in Results
  PROVE  /\ Settle(l, k, rs) \in Seq(EventRec) /\ Busy(Settle(l, k, rs), s, t, k)
         /\ Settle(l, k, rs)[k].result = rs /\ Len(Settle(l, k, rs)) = Len(l)
         /\ \A i \in 1..Len(l) : i # k => Settle(l, k, rs)[i] = l[i]
<1>0. l[k] \in EventRec
  BY ElementOfSeq
<1> DEFINE m == Settle(l, k, rs)
           v == [l[k] EXCEPT !.result = rs]
<1>1. /\ v \in EventRec /\ v.by = l[k].by /\ v.kind = l[k].kind /\ v.name = l[k].name
      /\ v.ref = l[k].ref /\ v.turn = l[k].turn /\ v.result = rs
  BY <1>0 DEF EventRec, Results
<1>2. m = [l EXCEPT ![k] = v]
  BY DEF Settle
<1> HIDE DEF m, v
<1>3. /\ m \in Seq(EventRec) /\ Len(m) = Len(l) /\ Len(l) \in Nat
      /\ \A i \in 1..Len(l) : m[i] = IF i = k THEN v ELSE l[i]
  BY <1>1, <1>2, ExceptFacts
<1>4. \A i \in 1..Len(l) : /\ m[i].by = l[i].by /\ m[i].kind = l[i].kind /\ m[i].name = l[i].name
                           /\ m[i].ref = l[i].ref /\ m[i].turn = l[i].turn
                           /\ i # k => m[i] = l[i]
  BY <1>1, <1>3
<1>5. m[k].result = rs
  BY <1>1, <1>3
<1>6. \A i, q : Has(m, s, i, q) <=> Has(l, s, i, q)
  BY <1>3, <1>4 DEF Has
<1>7. \A i, q : Has(l, s, i, q) => i \in 1..Len(l)
  BY DEF Has
<1>8. \A i : OutputsIn(m, s, i) = OutputsIn(l, s, i)
  BY <1>3, <1>4, <1>6 DEF OutputsIn
<1>9. /\ Ordered(l, s) /\ Kept(l, s, t, k) /\ (t > 0 => Worked(l, s, t, k))
      /\ k \in 1..Len(l) /\ Has(l, s, k, "call") /\ l[k].turn = t
      /\ t > 0 => OutputsIn(l, s, k) = {}
  BY DEF Busy
<1>10. Ordered(m, s)
  <2> SUFFICES ASSUME NEW i \in 1..Len(m), NEW j \in 1..Len(m), Has(m, s, i, "call"),
                      Has(m, s, j, "call"), i < j, m[i].turn = m[j].turn, m[i].turn > 0
               PROVE  m[i].result = "complete"
    BY DEF Ordered
  <2>1. /\ i \in 1..Len(l) /\ j \in 1..Len(l) /\ Has(l, s, i, "call") /\ Has(l, s, j, "call")
        /\ l[i].turn = l[j].turn /\ l[i].turn > 0
    BY <1>3, <1>4, <1>6
  <2>2. l[i].result = "complete"
    BY <1>9, <2>1 DEF Ordered
  <2>3. i # k
    <3> SUFFICES ASSUME i = k PROVE FALSE
      OBVIOUS
    <3>1. l[j].turn = t /\ t > 0 /\ j # k
      BY <1>9, <2>1
    <3>2. j < k
      BY <1>9, <2>1, <3>1 DEF Worked
    <3>3. QED
      BY <2>1, <3>2
  <2>4. QED
    BY <1>4, <2>1, <2>2, <2>3
<1>11. Kept(m, s, t, k)
  <2>1. \A i \in 1..Len(m) : m[i].by = s => m[i].turn <= t
    BY <1>3, <1>4, <1>9 DEF Kept
  <2>2. \A i \in 1..Len(m) : Has(m, s, i, "output") => m[i].ref < i
    BY <1>3, <1>4, <1>6, <1>9 DEF Kept
  <2>3. \A i \in 1..Len(m) : Has(m, s, i, "call") /\ m[i].name = "python" /\ m[i].turn > 0 /\ i # k
                             => Told(m, s, i)
    BY <1>3, <1>4, <1>6, <1>8, <1>9 DEF Kept, Told
  <2>4. QED
    BY <2>1, <2>2, <2>3 DEF Kept
<1>12. t > 0 => Worked(m, s, t, k)
  BY <1>3, <1>4, <1>6, <1>9 DEF Worked
<1>13. Busy(m, s, t, k)
  BY <1>3, <1>4, <1>6, <1>8, <1>9, <1>10, <1>11, <1>12 DEF Busy
<1>14. QED
  BY <1>3, <1>4, <1>5, <1>13 DEF m

-----------------------------------------------------------------------------
(* What a step of session s makes of its own events.                       *)

AllAnswered(l) == \A i \in 1..Len(l) : l[i].result # "none"

Nice(s, r) ==
  /\ Become(s, r) /\ Neat(s, r, log')
  /\ "raise" \notin conf.faults /\ AllAnswered(log) => AllAnswered(log')

LEMMA EventTurns ==
  ASSUME Inv, NEW s \in Session
  PROVE  /\ Note(s).kind = "note" /\ Note(s).turn = st[s].turn /\ Note(s).result = "-"
         /\ Text(s).kind = "text" /\ Text(s).turn = st[s].turn /\ Text(s).result = "-"
         /\ [Text(s) EXCEPT !.recovered = TRUE].kind = "text"
         /\ [Text(s) EXCEPT !.recovered = TRUE].turn = st[s].turn
         /\ [Text(s) EXCEPT !.recovered = TRUE].result = "-"
         /\ \A n, rs : Call(s, n, rs).turn = st[s].turn
         /\ \A k, rs : /\ Output(s, k, rs).kind = "output" /\ Output(s, k, rs).turn = st[s].turn
                       /\ Output(s, k, rs).ref = k /\ Output(s, k, rs).result = rs
<1>1. QED
  BY DEF Note, Text, Call, Output, Event

LEMMA AnsweredMore ==
  ASSUME NEW l \in Seq(EventRec), NEW e \in EventRec, AllAnswered(l), e.result # "none"
  PROVE  AllAnswered(Append(l, e))
<1> DEFINE m == Append(l, e)
<1>1. Len(m) = Len(l) + 1 /\ Len(l) \in Nat /\ \A i \in 1..Len(l) + 1 : m[i] = IF i = Len(l) + 1 THEN e ELSE l[i]
  BY AppendFacts
<1> HIDE DEF m
<1>2. \A i \in 1..Len(m) : i = Len(l) + 1 \/ i \in 1..Len(l)
  BY <1>1
<1>3. AllAnswered(m)
  BY <1>1, <1>2 DEF AllAnswered
<1>4. QED
  BY <1>3 DEF m

LEMMA RestNeat ==
  ASSUME NEW s \in Session, NEW l, NEW r,
         \/ r.pc \in {"closing", "done"} /\ Ordered(l, s)
         \/ r.pc = "loop" /\ Calm(l, s, r.turn)
  PROVE  Neat(s, r, l)
BY DEF Neat, Calm

LEMMA OverNeat ==
  ASSUME NEW s \in Session, NEW l, NEW r \in StRec, Calm(l, s, r.turn)
  PROVE  Neat(s, TurnOver(r), l) /\ Neat(s, TextCounted(r), l)
<1>1. ASSUME NEW q \in StRec, q.turn = r.turn
      PROVE  /\ TurnOver(q).pc = "loop" /\ TurnOver(q).turn = r.turn
             /\ Finished(q, "failed").pc \in {"closing", "done"}
  BY <1>1 DEF TurnOver, Finished, Ended, Teardown, StRec
<1>2. Neat(s, TurnOver(r), l)
  BY <1>1, RestNeat
<1> DEFINE q == [r EXCEPT !.text = r.text + 1]
<1>3. q \in StRec /\ q.turn = r.turn
  BY DEF StRec
<1>4. TextCounted(r) = TurnOver(q) \/ TextCounted(r) = Finished(q, "failed")
  BY DEF TextCounted
<1> HIDE DEF q
<1>5. Neat(s, TurnOver(q), l) /\ Neat(s, Finished(q, "failed"), l)
  BY <1>1, <1>3, RestNeat DEF Calm
<1>6. QED
  BY <1>2, <1>4, <1>5

LEMMA EndNeat ==
  ASSUME NEW s \in Session, NEW l, NEW r \in StRec, NEW o, Ordered(l, s)
  PROVE  Neat(s, Finished(r, o), l) /\ Neat(s, Ended(r, o), l)
<1>1. Finished(r, o).pc \in {"closing", "done"} /\ Ended(r, o).pc \in {"closing", "done"}
  BY DEF Finished, Ended, Teardown, StRec
<1>2. QED
  BY <1>1, RestNeat

\* The session's log as its stage finds it.
LEMMA StageFacts ==
  ASSUME Inv, NEW s \in Session, Neat(s, st[s], log)
  PROVE  LET t == st[s].turn
         IN  /\ t \in Nat /\ Ordered(log, s)
             /\ st[s].pc \in {"idle", "loop", "prefill", "generate", "calls"} => Calm(log, s, t)
             /\ st[s].pc \in {"idle", "prefill"} => t = 0
             /\ st[s].pc \in {"generate", "calls", "exec"} => t > 0
             /\ st[s].pc \in {"generate", "calls"} => Free(log, s, t)
             /\ st[s].pc \in {"prefill", "exec"} => Busy(log, s, t, st[s].at)
<1> DEFINE t == st[s].turn
<1>1. t \in Nat /\ Ordered(log, s)
  BY DEF Inv, StRec, Neat
<1>2. st[s].pc = "generate" => Worked(log, s, t, 0)
  BY DEF Neat, Unasked, Worked
<1>3. st[s].pc = "prefill" => Busy(log, s, t, st[s].at)
  <2> SUFFICES ASSUME st[s].pc = "prefill" PROVE Busy(log, s, t, st[s].at)
    OBVIOUS
  <2>1. st[s].at \in 1..Len(log) /\ Has(log, s, st[s].at, "call")
    BY DEF Inv, Waits, Has
  <2>2. t = 0 /\ Kept(log, s, t, 0)
    BY DEF Neat
  <2>3. log[st[s].at] \in EventRec
    BY <2>1, ElementOfSeq DEF Inv
  <2>4. log[st[s].at].turn <= 0 /\ log[st[s].at].turn \in Nat
    BY <2>1, <2>2, <2>3 DEF Kept, EventRec, Has
  <2>5. log[st[s].at].turn = t
    BY <2>2, <2>4
  <2>6. Kept(log, s, t, st[s].at)
    <3>1. \A i \in 1..Len(log) : i # 0
      BY DEF Inv
    <3>2. QED
      BY <2>2, <3>1 DEF Kept
  <2>7. QED
    BY <1>1, <2>1, <2>2, <2>5, <2>6 DEF Busy
<1>4. st[s].pc = "exec" => Busy(log, s, t, st[s].at)
  BY <1>1 DEF Neat, Inv, Waits, Busy, Has
<1>5. QED
  BY <1>1, <1>2, <1>3, <1>4 DEF Neat, Calm, Free

LEMMA TurnlessKept ==
  ASSUME NEW s \in Session, NEW l \in Seq(EventRec), NEW k, Kept(l, s, 0, k)
  PROVE  Kept(l, s, 0, 0)
<1>1. \A i \in 1..Len(l) : l[i].turn \in Nat
  <2>1. \A i \in 1..Len(l) : l[i] \in EventRec
    BY ElementOfSeq
  <2>2. QED
    BY <2>1 DEF EventRec
<1>2. \A i \in 1..Len(l) : l[i].by = s => ~(l[i].turn > 0)
  BY <1>1 DEF Kept
<1>3. QED
  BY <1>2 DEF Kept, Has

\* A note more.
LEMMA NoteMore ==
  ASSUME Inv, NEW s \in Session, NEW l \in Seq(EventRec)
  PROVE  /\ Ordered(l, s) => Ordered(Append(l, Note(s)), s)
         /\ Calm(l, s, st[s].turn) => Calm(Append(l, Note(s)), s, st[s].turn)
         /\ AllAnswered(l) => AllAnswered(Append(l, Note(s)))
<1>1. st[s].turn \in Nat
  BY Current
<1>2. /\ Note(s) \in EventRec /\ Note(s).by = s /\ Note(s).kind \notin {"call", "output"}
      /\ Note(s).turn <= st[s].turn /\ Note(s).result # "none"
  BY <1>1, EventFacts, EventTurns
<1>3. QED
  BY <1>1, <1>2, NoteNeat, AnsweredMore

LEMMA TextMore ==
  ASSUME Inv, NEW s \in Session, NEW e \in {Text(s), [Text(s) EXCEPT !.recovered = TRUE]},
         Free(log, s, st[s].turn)
  PROVE  /\ Append(log, e) \in Seq(EventRec) /\ e \in EventRec
         /\ Len(Append(log, e)) + 1 = Len(log) + 2
         /\ Free(Append(log, e), s, st[s].turn)
         /\ AllAnswered(log) => AllAnswered(Append(log, e))
<1>1. st[s].turn \in Nat /\ log \in Seq(EventRec)
  BY Current DEF Inv
<1>2. e \in EventRec /\ e.by = s /\ e.kind = "text" /\ e.turn = st[s].turn /\ e.result = "-"
  <2>1. CASE e = Text(s)
    BY <2>1, EventFacts, EventTurns
  <2>2. CASE e = [Text(s) EXCEPT !.recovered = TRUE]
    BY <2>2, RecoveredText, EventTurns
  <2>3. QED
    BY <2>1, <2>2
<1>3. Append(log, e) \in Seq(EventRec) /\ Len(Append(log, e)) = Len(log) + 1 /\ Len(log) \in Nat
  BY <1>1, <1>2, AppendFacts
<1>4. e.turn <= st[s].turn /\ e.kind \notin {"call", "output"} /\ e.result # "none"
  BY <1>1, <1>2
<1>5. Free(Append(log, e), s, st[s].turn)
  BY <1>1, <1>2, <1>4, NoteNeat
<1>6. AllAnswered(log) => AllAnswered(Append(log, e))
  BY <1>1, <1>2, <1>4, AnsweredMore
<1>7. QED
  BY <1>2, <1>3, <1>5, <1>6

LEMMA CallMore ==
  ASSUME Inv, NEW s \in Session, NEW l \in Seq(EventRec), Free(l, s, st[s].turn),
         NEW n \in Names, NEW rs \in Results
  PROVE  LET e == Call(s, n, rs)
             m == Append(l, e)
         IN  /\ m \in Seq(EventRec) /\ e \in EventRec /\ Busy(m, s, st[s].turn, Len(l) + 1) /\ m[Len(l) + 1] = e
             /\ Ordered(m, s) /\ e.result = rs
             /\ n # "python" => Calm(m, s, st[s].turn)
             /\ rs # "none" /\ AllAnswered(l) => AllAnswered(m)
<1> DEFINE e == Call(s, n, rs)
           m == Append(l, e)
<1>1. st[s].turn \in Nat
  BY Current
<1>2. e \in EventRec /\ e.by = s /\ e.kind = "call" /\ e.name = n /\ e.result = rs /\ e.turn = st[s].turn
  BY EventFacts, EventTurns
<1> HIDE DEF e
<1>3. m \in Seq(EventRec)
  BY <1>2, AppendFacts
<1>4. /\ Busy(m, s, st[s].turn, Len(l) + 1) /\ m[Len(l) + 1] = e /\ Ordered(m, s)
      /\ n # "python" => Calm(m, s, st[s].turn)
  BY <1>1, <1>2, CallNeat
<1>5. rs # "none" /\ AllAnswered(l) => AllAnswered(m)
  BY <1>2, AnsweredMore
<1>6. QED
  BY <1>2, <1>3, <1>4, <1>5 DEF e

LEMMA OutputMore ==
  ASSUME Inv, NEW s \in Session, NEW l \in Seq(EventRec), NEW k \in Nat, Busy(l, s, st[s].turn, k),
         NEW rs \in {"complete", "error"}, l[k].result \in {"complete", "error"}
  PROVE  LET m == Append(l, Output(s, k, rs))
         IN  /\ m \in Seq(EventRec) /\ Output(s, k, rs) \in EventRec /\ Calm(m, s, st[s].turn)
             /\ l[k].result = "complete" => Free(m, s, st[s].turn)
             /\ AllAnswered(l) => AllAnswered(m)
<1> DEFINE e == Output(s, k, rs)
<1>1. st[s].turn \in Nat /\ rs \in Results
  BY Current, Kinds
<1>2. /\ e \in EventRec /\ e.by = s /\ e.kind = "output" /\ e.ref = k /\ e.turn = st[s].turn
      /\ e.result = rs
  BY <1>1, EventFacts, EventTurns
<1> HIDE DEF e
<1>3. e.turn <= st[s].turn /\ e.result # "none"
  BY <1>1, <1>2
<1>4. Append(l, e) \in Seq(EventRec)
  BY <1>2, AppendFacts
<1>5. /\ Calm(Append(l, e), s, st[s].turn)
      /\ l[k].result = "complete" => Free(Append(l, e), s, st[s].turn)
  BY <1>1, <1>2, <1>3, OutputNeat
<1>6. AllAnswered(l) => AllAnswered(Append(l, e))
  BY <1>2, <1>3, AnsweredMore
<1>7. QED
  BY <1>2, <1>4, <1>5, <1>6 DEF e

\* A cell that is over: its call is settled, and has its output.
LEMMA CellMore ==
  ASSUME Inv, NEW s \in Session, Neat(s, st[s], log), st[s].pc \in {"prefill", "exec"},
         NEW rs \in {"complete", "error"}
  PROVE  LET l == Settle(log, st[s].at, rs)
             m == Cell(s, rs)
         IN  /\ l \in Seq(EventRec) /\ m \in Seq(EventRec) /\ Ordered(l, s) /\ Calm(m, s, st[s].turn)
             /\ rs = "complete" => Free(m, s, st[s].turn)
             /\ AllAnswered(log) => AllAnswered(l) /\ AllAnswered(m)
<1> DEFINE k == st[s].at
           l == Settle(log, k, rs)
<1>1. /\ st[s].turn \in Nat /\ rs \in Results /\ k \in Nat /\ k \in 1..Len(log)
      /\ Busy(log, s, st[s].turn, k) /\ log \in Seq(EventRec)
  BY Current, Kinds, StageFacts DEF Busy, Inv, StRec
<1> HIDE DEF k
<1>2. /\ l \in Seq(EventRec) /\ Busy(l, s, st[s].turn, k) /\ l[k].result = rs
      /\ Len(l) = Len(log) /\ \A i \in 1..Len(log) : i # k => l[i] = log[i]
  BY <1>1, SettleNeat
<1>3. AllAnswered(log) => AllAnswered(l)
  BY <1>2 DEF AllAnswered
<1>4. Cell(s, rs) = Append(l, Output(s, k, rs))
  BY DEF Cell, k
<1>5. Ordered(l, s)
  BY <1>2 DEF Busy
<1> HIDE DEF l
<1>6. QED
  BY <1>1, <1>2, <1>3, <1>4, <1>5, OutputMore DEF l, k

-----------------------------------------------------------------------------
(* The steps, one by one.                                                  *)

LEMMA BeginNice ==
  ASSUME Inv, NEW s \in Session, Neat(s, st[s], log), NEW p \in Session \cup {Nobody}, Begin(s, p)
  PROVE  \E q : Nice(s, q)
<1> DEFINE r == [Fresh EXCEPT !.pc = "loop", !.parent = p, !.todo = conf.prefill,
                              !.box = IF conf.sandbox THEN "open" ELSE "none"]
<1>1. ConfRec /\ p \in Nat
  BY Current, ConstantsAssumption DEF Session, Nobody
<1>2. r \in StRec /\ r.pc = "loop" /\ r.turn = 0
  BY <1>1 DEF ConfRec, Fresh, StRec, Running, Outcomes, Nobody
<1>3. Become(s, r) \/ Become(s, Ended(r, "raised"))
  BY DEF Begin
<1> HIDE DEF r
<1>4. st[s].pc = "idle" /\ log' = Append(log, Note(s)) /\ log \in Seq(EventRec)
  BY DEF Begin, At, Inv
<1>5. st[s].turn = 0 /\ Calm(log, s, 0)
  BY <1>4, StageFacts
<1>6. Calm(log', s, 0) /\ Ordered(log', s) /\ (AllAnswered(log) => AllAnswered(log'))
  BY <1>4, <1>5, NoteMore DEF Calm
<1>7. Neat(s, r, log') /\ Neat(s, Ended(r, "raised"), log')
  BY <1>2, <1>6, RestNeat, EndNeat
<1>8. QED
  BY <1>3, <1>6, <1>7 DEF Nice

LEMMA PrefillNice ==
  ASSUME Inv, NEW s \in Session, Neat(s, st[s], log), Prefill(s) \/ PrefillEnds(s) \/ PrefillRaises(s)
  PROVE  \E q : Nice(s, q)
<1>1. st[s] \in StRec /\ log \in Seq(EventRec)
  BY Current DEF Inv
<1>2. CASE Prefill(s)
  <2> DEFINE r == [st[s] EXCEPT !.pc = "prefill", !.todo = @ - 1, !.at = Len(log) + 1]
  <2>1. /\ Become(s, r) /\ log' = Append(log, Call(s, "python", "executing"))
        /\ st[s].pc = "loop" /\ st[s].turn = 0
    BY <1>2 DEF Prefill, At
  <2>2. r.pc = "prefill" /\ r.turn = 0
    BY <1>1, <2>1 DEF StRec
  <2> HIDE DEF r
  <2>3. Free(log, s, 0)
    BY <2>1, StageFacts DEF Free
  <2>4. /\ log' \in Seq(EventRec) /\ Busy(log', s, 0, Len(log) + 1) /\ Ordered(log', s)
        /\ AllAnswered(log) => AllAnswered(log')
    BY <1>1, <2>1, <2>3, CallMore, Kinds
  <2>5. Kept(log', s, 0, 0)
    BY <2>4, TurnlessKept DEF Busy
  <2>6. Neat(s, r, log')
    BY <2>2, <2>4, <2>5 DEF Neat
  <2>7. QED
    BY <2>1, <2>4, <2>6 DEF Nice
<1>3. CASE PrefillEnds(s) \/ PrefillRaises(s)
  <2>1. PICK r : /\ st[s].pc = "prefill" /\ Become(s, r)
                 /\ r \in {[st[s] EXCEPT !.pc = "loop"], [st[s] EXCEPT !.pc = "loop", !.todo = 0]}
    BY <1>3 DEF PrefillEnds, PrefillRaises, At
  <2>2. r.pc = "loop" /\ r.turn = st[s].turn
    BY <1>1, <2>1 DEF StRec
  <2>3. Calm(log', s, st[s].turn) /\ (AllAnswered(log) => AllAnswered(log'))
    <3>1. CASE PrefillEnds(s)
      BY <2>1, <3>1, CellMore DEF PrefillEnds
    <3>2. CASE PrefillRaises(s)
      <4>1. Calm(log, s, st[s].turn) /\ log' = Append(log, Note(s))
        BY <2>1, <3>2, StageFacts DEF PrefillRaises
      <4>2. QED
        BY <1>1, <4>1, NoteMore
    <3>3. QED
      BY <1>3, <3>1, <3>2
  <2>4. QED
    BY <2>1, <2>2, <2>3, RestNeat DEF Nice
<1>4. QED
  BY <1>2, <1>3

LEMMA TurnNice ==
  ASSUME Inv, NEW s \in Session, Neat(s, st[s], log), Turn(s) \/ LoopExhausted(s)
  PROVE  \E q : Nice(s, q)
<1>1. /\ st[s] \in StRec /\ log \in Seq(EventRec) /\ st[s].turn \in Nat /\ st[s].pc = "loop"
      /\ log' = log
  BY Current DEF Inv, Turn, LoopExhausted, At
<1>2. Ordered(log, s) /\ Calm(log, s, st[s].turn)
  BY <1>1, StageFacts
<1>3. CASE Turn(s)
  <2> DEFINE r == [st[s] EXCEPT !.pc = "generate", !.turn = @ + 1, !.seen = Shown(log)]
             t == st[s].turn
  <2>1. Become(s, r) /\ r.pc = "generate" /\ r.turn = t + 1
    BY <1>1, <1>3 DEF Turn, StRec
  <2> HIDE DEF r
  <2>2. \A i \in 1..Len(log) : log[i].turn \in Nat
    <3>1. \A i \in 1..Len(log) : log[i] \in EventRec
      BY <1>1, ElementOfSeq
    <3>2. QED
      BY <3>1 DEF EventRec
  <2>3. t \in Nat /\ Kept(log, s, t, 0)
    BY <1>1, <1>2 DEF Calm
  <2> HIDE DEF t
  <2>4. \A i \in 1..Len(log) : log[i].by = s => log[i].turn <= t + 1 /\ log[i].turn # t + 1
    BY <2>2, <2>3 DEF Kept
  <2>5. Kept(log, s, t + 1, 0) /\ Unasked(log, s, t + 1)
    BY <2>3, <2>4 DEF Kept, Unasked, Has
  <2>6. Neat(s, r, log')
    BY <1>1, <1>2, <2>1, <2>3, <2>5 DEF Neat
  <2>7. QED
    BY <1>1, <2>1, <2>6 DEF Nice
<1>4. CASE LoopExhausted(s)
  <2>1. Become(s, Finished(st[s], "failed"))
    BY <1>4 DEF LoopExhausted
  <2>2. QED
    BY <1>1, <1>2, <2>1, EndNeat DEF Nice
<1>5. QED
  BY <1>3, <1>4

LEMMA ToolCallsNice ==
  ASSUME Inv, NEW s \in Session, Neat(s, st[s], log), ToolCalls(s)
  PROVE  \E q : Nice(s, q)
<1>1. st[s] \in StRec /\ log \in Seq(EventRec) /\ st[s].pc = "generate"
  BY Current DEF Inv, ToolCalls, At
<1>2. PICK n \in 1..MaxCalls : Become(s, [Iterated(st[s]) EXCEPT !.pc = "calls", !.todo = n, !.text = 0])
  BY DEF ToolCalls
<1> DEFINE r == [Iterated(st[s]) EXCEPT !.pc = "calls", !.todo = n, !.text = 0]
<1>3. Become(s, r) /\ r.pc = "calls" /\ r.turn = st[s].turn
  BY <1>1, <1>2 DEF Iterated, StRec
<1> HIDE DEF r
<1>4. /\ log' \in Seq(EventRec) /\ Len(log') = Len(log)
      /\ \A i \in 1..Len(log) :
           /\ log'[i].by = log[i].by /\ log'[i].kind = log[i].kind /\ log'[i].name = log[i].name
           /\ log'[i].ref = log[i].ref /\ log'[i].turn = log[i].turn /\ log'[i].result = log[i].result
  <2>1. CASE log' = log
    BY <1>1, <2>1
  <2>2. CASE log' = Recovered(log)
    BY <1>1, <2>2, RecoveredFacts
  <2>3. QED
    BY <2>1, <2>2 DEF ToolCalls
<1>5. Alike(s, log, log')
  <2>1. Len(log) \in Nat
    BY <1>1
  <2>2. QED
    BY <1>4, <2>1 DEF Alike
<1>6. /\ Ordered(log, s) /\ Kept(log, s, st[s].turn, 0) /\ Worked(log, s, st[s].turn, 0)
      /\ st[s].turn > 0
  BY <1>1, StageFacts DEF Free, Calm
<1>7. Ordered(log', s) /\ Kept(log', s, st[s].turn, 0) /\ Worked(log', s, st[s].turn, 0)
  BY <1>1, <1>4, <1>5, <1>6, AlikeNeat
<1>8. Neat(s, r, log')
  BY <1>3, <1>6, <1>7 DEF Neat
<1>9. AllAnswered(log) => AllAnswered(log')
  BY <1>4 DEF AllAnswered
<1>10. QED
  BY <1>3, <1>8, <1>9 DEF Nice

\* A text reply and the call it is turned into.
LEMMA TextCall ==
  ASSUME Inv, NEW s \in Session, Free(log, s, st[s].turn), NEW rs \in Results,
         NEW e \in {Text(s), [Text(s) EXCEPT !.recovered = TRUE]}
  PROVE  LET m == log \o <<e, Call(s, "answer", rs)>>
             d == log \o <<e, Call(s, "answer", rs), Note(s)>>
         IN  /\ Ordered(m, s) /\ Calm(d, s, st[s].turn)
             /\ AllAnswered(log) /\ rs # "none" => AllAnswered(m) /\ AllAnswered(d)
<1> DEFINE c == Call(s, "answer", rs)
           l == Append(log, e)
<1>1. /\ log \in Seq(EventRec) /\ l \in Seq(EventRec) /\ e \in EventRec /\ Free(l, s, st[s].turn)
      /\ AllAnswered(log) => AllAnswered(l)
  BY TextMore DEF Inv
<1>2. "answer" \in Names /\ "answer" # "python"
  BY DEF Names
<1> HIDE DEF l
<1>3. /\ c \in EventRec /\ Append(l, c) \in Seq(EventRec) /\ Ordered(Append(l, c), s)
      /\ Calm(Append(l, c), s, st[s].turn)
      /\ rs # "none" /\ AllAnswered(l) => AllAnswered(Append(l, c))
  BY <1>1, <1>2, CallMore
<1>4. Note(s) \in EventRec
  BY EventFacts
<1> HIDE DEF c
<1>5. /\ Calm(Append(Append(l, c), Note(s)), s, st[s].turn)
      /\ AllAnswered(Append(l, c)) => AllAnswered(Append(Append(l, c), Note(s)))
  BY <1>3, NoteMore
<1>6. log \o <<e, c>> = Append(l, c)
  BY <1>1, <1>3, Appends DEF l
<1>7. log \o <<e, c, Note(s)>> = Append(Append(l, c), Note(s))
  BY <1>1, <1>3, <1>4, AppendsThree DEF l
<1>8. QED
  BY <1>1, <1>3, <1>5, <1>6, <1>7 DEF c

\* A cell that does not run: the call and its output.
LEMMA CallOutput ==
  ASSUME Inv, NEW s \in Session, NEW l \in Seq(EventRec), Free(l, s, st[s].turn),
         NEW rs \in {"complete", "error"}
  PROVE  LET m == Append(Append(l, Call(s, "python", rs)), Output(s, Len(l) + 1, rs))
         IN  /\ Calm(m, s, st[s].turn) /\ (AllAnswered(l) => AllAnswered(m))
             /\ Call(s, "python", rs) \in EventRec /\ Output(s, Len(l) + 1, rs) \in EventRec
<1> DEFINE c == Call(s, "python", rs)
           k == Len(l) + 1
           m == Append(l, c)
<1>1. k \in Nat /\ rs \in Results /\ "python" \in Names /\ rs # "none"
  BY Kinds DEF Names
<1>2. /\ c \in EventRec /\ m \in Seq(EventRec) /\ Busy(m, s, st[s].turn, k) /\ m[k] = c /\ c.result = rs
      /\ rs # "none" /\ AllAnswered(l) => AllAnswered(m)
  BY <1>1, CallMore
<1> HIDE DEF c, k, m
<1>3. m[k].result \in {"complete", "error"}
  BY <1>2
<1>4. /\ Output(s, k, rs) \in EventRec /\ Calm(Append(m, Output(s, k, rs)), s, st[s].turn)
      /\ AllAnswered(m) => AllAnswered(Append(m, Output(s, k, rs)))
  BY <1>1, <1>2, <1>3, OutputMore
<1>5. QED
  BY <1>1, <1>2, <1>4 DEF c, k, m

\* A session record in the turns of which one step counts what it counts.
LEMMA Counted ==
  ASSUME Inv, NEW s \in Session
  PROVE  LET t == st[s].turn
         IN  /\ st[s] \in StRec /\ Erred(st[s]) \in StRec /\ Erred(st[s]).turn = t
             /\ Iterated(st[s]) \in StRec /\ Iterated(st[s]).turn = t
             /\ TextTwice(s) \in StRec /\ TextTwice(s).turn = t
             /\ Erred(TextTwice(s)) \in StRec /\ Erred(TextTwice(s)).turn = t
<1>1. st[s] \in StRec
  BY Current
<1> DEFINE i == Iterated(st[s])
<1>2. i \in StRec /\ i.turn = st[s].turn
  BY <1>1, IteratedFacts
<1>3. TextTwice(s) = Iterated(i)
  BY DEF TextTwice
<1> HIDE DEF i
<1>4. Iterated(i) \in StRec /\ Iterated(i).turn = st[s].turn
  BY <1>2, IteratedFacts
<1>5. QED
  BY <1>1, <1>2, <1>3, <1>4, ErredFacts DEF i

LEMMA TextAnswerNice ==
  ASSUME Inv, NEW s \in Session, Neat(s, st[s], log),
         TextAccepted(s) \/ TextRejected(s) \/ TextRaises(s)
  PROVE  \E q : Nice(s, q)
<1>1. st[s].pc = "generate"
  BY DEF TextAccepted, TextRejected, TextRaises, At
<1>2. Free(log, s, st[s].turn)
  BY <1>1, StageFacts
<1> DEFINE r == TextTwice(s)
<1>3. r \in StRec /\ r.turn = st[s].turn /\ Erred(r) \in StRec /\ Erred(r).turn = st[s].turn
  BY Counted
<1>4. CASE TextAccepted(s)
  <2>1. Become(s, Finished(r, "value")) /\ Ordered(log', s) /\ (AllAnswered(log) => AllAnswered(log'))
    BY <1>2, <1>4, TextCall, Kinds DEF TextAccepted
  <2>2. QED
    BY <1>3, <2>1, EndNeat DEF Nice
<1>5. CASE TextRejected(s)
  <2>1. /\ Ordered(log \o <<Text(s), Call(s, "answer", "error")>>, s)
        /\ Calm(log \o <<Text(s), Call(s, "answer", "error"), Note(s)>>, s, st[s].turn)
        /\ AllAnswered(log) => /\ AllAnswered(log \o <<Text(s), Call(s, "answer", "error")>>)
                               /\ AllAnswered(log \o <<Text(s), Call(s, "answer", "error"), Note(s)>>)
    BY <1>2, TextCall, Kinds
  <2>2. PICK q : /\ q \in StRec /\ q.turn = st[s].turn
                 /\ \/ log' = log \o <<Text(s), Call(s, "answer", "error")>> /\ Become(s, Finished(q, "failed"))
                    \/ /\ log' = log \o <<Text(s), Call(s, "answer", "error"), Note(s)>>
                       /\ Become(s, TextCounted(q))
    BY <1>3, <1>5 DEF TextRejected
  <2>3. CASE log' = log \o <<Text(s), Call(s, "answer", "error")>> /\ Become(s, Finished(q, "failed"))
    BY <2>1, <2>2, <2>3, EndNeat DEF Nice
  <2>4. CASE /\ log' = log \o <<Text(s), Call(s, "answer", "error"), Note(s)>>
             /\ Become(s, TextCounted(q))
    BY <2>1, <2>2, <2>4, OverNeat DEF Nice
  <2>5. QED
    BY <2>2, <2>3, <2>4
<1>6. CASE TextRaises(s)
  <2>1. Become(s, Finished(r, "raised")) /\ Ordered(log', s) /\ "raise" \in conf.faults
    BY <1>2, <1>6, TextCall, Kinds DEF TextRaises
  <2>2. QED
    BY <1>3, <2>1, EndNeat DEF Nice
<1>7. QED
  BY <1>4, <1>5, <1>6

LEMMA ReplyNice ==
  ASSUME Inv, NEW s \in Session, Neat(s, st[s], log),
         TextCommented(s) \/ EmptyReply(s) \/ ApiError(s) \/ BlockError(s)
  PROVE  \E q : Nice(s, q)
<1>1. st[s].pc = "generate" /\ log \in Seq(EventRec)
  BY DEF TextCommented, EmptyReply, ApiError, BlockError, At, Inv
<1>2. Free(log, s, st[s].turn) /\ Calm(log, s, st[s].turn) /\ Ordered(log, s)
  BY <1>1, StageFacts
<1>3. /\ Erred(st[s]) \in StRec /\ Erred(st[s]).turn = st[s].turn
      /\ Iterated(st[s]) \in StRec /\ Iterated(st[s]).turn = st[s].turn
  BY Counted
<1>4. CASE TextCommented(s)
  <2> DEFINE l == Append(log, Text(s))
             c == Call(s, "python", "complete")
             o == Output(s, Len(log) + 2, "complete")
  <2>1. /\ l \in Seq(EventRec) /\ Text(s) \in EventRec /\ Len(l) + 1 = Len(log) + 2
        /\ Free(l, s, st[s].turn) /\ (AllAnswered(log) => AllAnswered(l))
    BY <1>2, TextMore
  <2>2. o = Output(s, Len(l) + 1, "complete")
    BY <2>1
  <2> HIDE DEF l
  <2>3. /\ Calm(Append(Append(l, c), o), s, st[s].turn) /\ c \in EventRec /\ o \in EventRec
        /\ AllAnswered(l) => AllAnswered(Append(Append(l, c), o))
    <3> HIDE DEF o
    <3>1. QED
      BY <2>1, <2>2, CallOutput
  <2>4. Become(s, TextCounted(Iterated(st[s]))) /\ log' = log \o <<Text(s), c, o>>
    BY <1>4 DEF TextCommented
  <2> HIDE DEF c, o
  <2>5. log' = Append(Append(l, c), o)
    BY <1>1, <2>1, <2>3, <2>4, AppendsThree DEF l
  <2>6. Calm(log', s, st[s].turn) /\ (AllAnswered(log) => AllAnswered(log'))
    BY <2>1, <2>3, <2>5
  <2>7. QED
    BY <1>3, <2>4, <2>6, OverNeat DEF Nice
<1>5. CASE EmptyReply(s) \/ ApiError(s) \/ BlockError(s)
  <2>1. log' = log \/ log' = Append(log, Note(s))
    BY <1>5 DEF EmptyReply, ApiError, BlockError
  <2>2. Calm(log', s, st[s].turn) /\ Ordered(log', s) /\ (AllAnswered(log) => AllAnswered(log'))
    BY <1>1, <1>2, <2>1, NoteMore
  <2>3. \E q : /\ q \in StRec /\ q.turn = st[s].turn
               /\ Become(s, TurnOver(q)) \/ Become(s, Finished(q, "failed"))
    BY <1>3, <1>5 DEF EmptyReply, ApiError, BlockError
  <2>4. QED
    BY <2>2, <2>3, OverNeat, EndNeat DEF Nice
<1>6. QED
  BY <1>4, <1>5

LEMMA ExecuteNice ==
  ASSUME Inv, NEW s \in Session, Neat(s, st[s], log), Execute(s) PROVE \E q : Nice(s, q)
<1> DEFINE r == [st[s] EXCEPT !.pc = "exec", !.todo = @ - 1, !.at = Len(log) + 1]
           c == Call(s, "python", "executing")
<1>1. /\ st[s] \in StRec /\ st[s].pc = "calls" /\ log \in Seq(EventRec)
      /\ Become(s, r) /\ log' = Append(log, c)
  BY Current DEF Execute, NextCall, At, Inv
<1>2. r.pc = "exec" /\ r.turn = st[s].turn /\ r.at = Len(log) + 1
  BY <1>1 DEF StRec
<1> HIDE DEF r
<1>3. Free(log, s, st[s].turn) /\ st[s].turn > 0
  BY <1>1, StageFacts
<1>4. "python" \in Names /\ "executing" \in Results /\ "executing" # "none"
  BY DEF Names, Results
<1>5. /\ Busy(log', s, st[s].turn, Len(log) + 1) /\ Ordered(log', s)
      /\ AllAnswered(log) => AllAnswered(log')
  BY <1>1, <1>3, <1>4, CallMore
<1>6. Neat(s, r, log')
  BY <1>2, <1>3, <1>5 DEF Neat, Busy
<1>7. QED
  BY <1>1, <1>5, <1>6 DEF Nice

LEMMA CallNice ==
  ASSUME Inv, NEW s \in Session, Neat(s, st[s], log),
         CallsDone(s) \/ BadArguments(s) \/ UnknownTool(s) \/ EmptyCode(s)
         \/ ResultAccepted(s) \/ ResultRejected(s) \/ ResultRaises(s)
  PROVE  \E q : Nice(s, q)
<1>1. st[s].pc = "calls" /\ log \in Seq(EventRec)
  BY DEF CallsDone, BadArguments, UnknownTool, EmptyCode, ResultAccepted, ResultRejected,
         ResultRaises, NextCall, At, Inv
<1>2. Free(log, s, st[s].turn) /\ Calm(log, s, st[s].turn)
  BY <1>1, StageFacts
<1>3. st[s] \in StRec /\ Erred(st[s]) \in StRec /\ Erred(st[s]).turn = st[s].turn
  BY Counted
<1>4. CASE CallsDone(s) \/ BadArguments(s)
  <2>1. log' = log \/ log' = Append(log, Note(s))
    BY <1>4 DEF CallsDone, BadArguments
  <2>2. Calm(log', s, st[s].turn) /\ (AllAnswered(log) => AllAnswered(log'))
    BY <1>1, <1>2, <2>1, NoteMore
  <2>3. Become(s, TurnOver(st[s])) \/ Become(s, TurnOver(Erred(st[s])))
    BY <1>4 DEF CallsDone, BadArguments
  <2>4. QED
    BY <1>3, <2>2, <2>3, OverNeat DEF Nice
<1>5. CASE UnknownTool(s)
  <2>1. Become(s, TurnOver(Erred(st[s]))) /\ log' = Append(log, Call(s, "other", "error"))
    BY <1>5 DEF UnknownTool
  <2>2. "other" \in Names /\ "error" \in Results /\ "other" # "python"
    BY DEF Names, Results
  <2>3. Calm(log', s, st[s].turn) /\ (AllAnswered(log) => AllAnswered(log'))
    BY <1>1, <1>2, <2>1, <2>2, CallMore
  <2>4. QED
    BY <1>3, <2>1, <2>3, OverNeat DEF Nice
<1>6. CASE EmptyCode(s)
  <2> DEFINE c == Call(s, "python", "error")
             o == Output(s, Len(log) + 1, "error")
  <2>1. Become(s, TurnOver(Erred(st[s]))) /\ log' = log \o <<c, o>>
    BY <1>6 DEF EmptyCode
  <2>2. /\ Calm(Append(Append(log, c), o), s, st[s].turn) /\ c \in EventRec /\ o \in EventRec
        /\ AllAnswered(log) => AllAnswered(Append(Append(log, c), o))
    BY <1>1, <1>2, CallOutput
  <2> HIDE DEF c, o
  <2>3. log' = Append(Append(log, c), o)
    BY <1>1, <2>1, <2>2, Appends
  <2>4. Calm(log', s, st[s].turn) /\ (AllAnswered(log) => AllAnswered(log'))
    BY <2>2, <2>3
  <2>5. QED
    BY <1>3, <2>1, <2>4, OverNeat DEF Nice
<1>7. CASE ResultAccepted(s) \/ ResultRejected(s)
  <2>1. PICK rs \in {"complete", "error"} : log' = Append(log, Call(s, "answer", rs))
    BY <1>7 DEF ResultAccepted, ResultRejected
  <2>2. "answer" \in Names /\ rs \in Results /\ "answer" # "python" /\ rs # "none"
    BY DEF Names, Results
  <2>3. /\ Calm(log', s, st[s].turn) /\ Ordered(log', s)
        /\ AllAnswered(log) => AllAnswered(log')
    BY <1>1, <1>2, <2>1, <2>2, CallMore
  <2>4. \E q, o : /\ q \in StRec /\ q.turn = st[s].turn
                  /\ Become(s, TurnOver(q)) \/ Become(s, Finished(q, o))
    BY <1>3, <1>7 DEF ResultAccepted, ResultRejected
  <2>5. QED
    BY <2>3, <2>4, OverNeat, EndNeat DEF Nice
<1>8. CASE ResultRaises(s)
  <2>1. /\ Become(s, Finished(st[s], "raised")) /\ "raise" \in conf.faults
        /\ log' = Append(log, Call(s, "answer", "none"))
    BY <1>8 DEF ResultRaises
  <2>2. "answer" \in Names /\ "none" \in Results
    BY DEF Names, Results
  <2>3. Ordered(log', s)
    BY <1>1, <1>2, <2>1, <2>2, CallMore
  <2>4. QED
    BY <1>3, <2>1, <2>3, EndNeat DEF Nice
<1>9. QED
  BY <1>4, <1>5, <1>6, <1>7, <1>8

LEMMA CellNice ==
  ASSUME Inv, NEW s \in Session, Neat(s, st[s], log), CellStep(s) PROVE \E q : Nice(s, q)
<1>1. st[s].pc = "exec" /\ log \in Seq(EventRec)
  BY DEF CellStep, CellWorks, CellFails, CellReturns, CellReturnsBadly, CellRaises, At, Inv
<1>2. st[s] \in StRec /\ Erred(st[s]) \in StRec /\ Erred(st[s]).turn = st[s].turn
  BY Counted
<1>3. \A rs \in {"complete", "error"} :
         /\ Cell(s, rs) \in Seq(EventRec)
         /\ Ordered(Settle(log, st[s].at, rs), s) /\ Calm(Cell(s, rs), s, st[s].turn)
         /\ rs = "complete" => Free(Cell(s, rs), s, st[s].turn)
         /\ AllAnswered(log) => AllAnswered(Settle(log, st[s].at, rs)) /\ AllAnswered(Cell(s, rs))
  BY <1>1, CellMore
<1>4. Ordered(log, s) /\ st[s].turn > 0
  BY <1>1, StageFacts
<1>5. CASE CellWorks(s)
  <2> DEFINE r == [st[s] EXCEPT !.pc = "calls"]
  <2>1. Become(s, r) /\ log' = Cell(s, "complete")
    BY <1>5 DEF CellWorks
  <2>2. r.pc = "calls" /\ r.turn = st[s].turn
    BY <1>2 DEF StRec
  <2> HIDE DEF r
  <2>3. /\ Ordered(log', s) /\ Kept(log', s, st[s].turn, 0) /\ Worked(log', s, st[s].turn, 0)
        /\ AllAnswered(log) => AllAnswered(log')
    BY <1>3, <1>4, <2>1 DEF Free, Calm
  <2>4. Neat(s, r, log')
    BY <1>4, <2>2, <2>3 DEF Neat
  <2>5. QED
    BY <2>1, <2>3, <2>4 DEF Nice
<1>6. CASE CellFails(s)
  <2>1. Become(s, TurnOver(st[s])) /\ log' = Cell(s, "error")
    BY <1>6 DEF CellFails
  <2>2. QED
    BY <1>2, <1>3, <2>1, OverNeat DEF Nice
<1>7. CASE CellReturns(s)
  <2> DEFINE l == Cell(s, "complete")
             c == Call(s, "answer", "complete")
  <2>1. Become(s, Finished(st[s], "value")) /\ log' = l \o <<c>>
    BY <1>7 DEF CellReturns, InlineReturn
  <2>2. "answer" \in Names /\ "complete" \in Results /\ "complete" # "none"
    BY DEF Names, Results
  <2>3. l \in Seq(EventRec) /\ Free(l, s, st[s].turn) /\ (AllAnswered(log) => AllAnswered(l))
    BY <1>3
  <2> HIDE DEF l
  <2>4. c \in EventRec /\ Ordered(Append(l, c), s) /\ (AllAnswered(l) => AllAnswered(Append(l, c)))
    BY <2>2, <2>3, CallMore
  <2> HIDE DEF c
  <2>5. log' = Append(l, c)
    BY <2>1, <2>3, <2>4, Appends
  <2>6. Ordered(log', s) /\ (AllAnswered(log) => AllAnswered(log'))
    BY <2>3, <2>4, <2>5
  <2>7. QED
    BY <1>2, <2>1, <2>6, EndNeat DEF Nice
<1>8. CASE CellReturnsBadly(s)
  <2>1. \E q : /\ q \in StRec /\ q.turn = st[s].turn
               /\ \/ log' = Settle(log, st[s].at, "error") /\ Become(s, Finished(q, "failed"))
                  \/ log' = Cell(s, "error") /\ Become(s, TurnOver(q))
    BY <1>2, <1>8 DEF CellReturnsBadly
  <2>2. QED
    BY <1>3, <2>1, OverNeat, EndNeat DEF Nice
<1>9. CASE CellRaises(s)
  <2>1. /\ Become(s, Finished(st[s], "raised")) /\ "raise" \in conf.faults
        /\ log' = log \/ log' = Settle(log, st[s].at, "complete")
    BY <1>9 DEF CellRaises
  <2>2. Ordered(log', s)
    BY <1>3, <1>4, <2>1
  <2>3. QED
    BY <1>2, <2>1, <2>2, EndNeat DEF Nice
<1>10. QED
  BY <1>5, <1>6, <1>7, <1>8, <1>9 DEF CellStep

LEMMA EndNice ==
  ASSUME Inv, NEW s \in Session, Neat(s, st[s], log), Close(s) \/ Cancel(s) \/ CancelClose(s)
  PROVE  \E q : Nice(s, q)
<1>1. st[s] \in StRec /\ log' = log /\ Ordered(log, s)
  BY Current, StageFacts DEF Close, Cancel, CancelClose
<1>2. CASE Cancel(s)
  <2>1. Become(s, Ended(st[s], "cancelled")) \/ Become(s, Finished(st[s], "cancelled"))
    BY <1>2 DEF Cancel
  <2>2. QED
    BY <1>1, <2>1, EndNeat DEF Nice
<1>3. CASE Close(s) \/ CancelClose(s)
  <2>1. PICK r : /\ Become(s, r)
                 /\ r \in {[st[s] EXCEPT !.pc = "done", !.box = "closed"],
                           [st[s] EXCEPT !.pc = "done", !.outcome = "cancelled"]}
    BY <1>3 DEF Close, CancelClose
  <2>2. r.pc = "done"
    BY <1>1, <2>1 DEF StRec
  <2>3. QED
    BY <1>1, <2>1, <2>2, RestNeat DEF Nice
<1>4. QED
  BY <1>2, <1>3

-----------------------------------------------------------------------------
(* Every session keeps its own events in order, and leaves those of the    *)
(* other ones alone.                                                       *)

Tidy == /\ \A s \in Session : Neat(s, st[s], log)
        /\ "raise" \notin conf.faults => AllAnswered(log)

LEMMA InitTidy == Init => Tidy
<1> SUFFICES ASSUME Init PROVE Tidy
  OBVIOUS
<1>1. st = [s \in Session |-> Fresh] /\ log = <<>> /\ Fresh.pc = "idle" /\ Fresh.turn = 0
  BY DEF Init, Fresh
<1>2. 1..Len(log) = {}
  BY <1>1
<1>3. AllAnswered(log)
  BY <1>2 DEF AllAnswered
<1>4. ASSUME NEW s \in Session PROVE Neat(s, st[s], log)
  <2>1. Ordered(log, s) /\ Kept(log, s, 0, 0)
    BY <1>2 DEF Ordered, Kept
  <2>2. st[s].pc = "idle" /\ st[s].turn = 0
    BY <1>1
  <2>3. QED
    BY <2>1, <2>2 DEF Neat
<1>5. QED
  BY <1>3, <1>4 DEF Tidy

LEMMA NiceTidy ==
  ASSUME Inv, Tidy, NEW s \in Session, NEW q, Nice(s, q), Keeps(s, log, log') PROVE Tidy'
<1>1. /\ st' = [st EXCEPT ![s] = q] /\ UNCHANGED conf /\ Neat(s, q, log')
      /\ "raise" \notin conf.faults /\ AllAnswered(log) => AllAnswered(log')
  BY DEF Nice, Become
<1>2. st'[s] = q /\ \A t \in Session \ {s} : st'[t] = st[t]
  BY <1>1 DEF Inv
<1>3. log \in Seq(EventRec) /\ log' \in Seq(EventRec)
  BY DEF Inv, Keeps
<1>4. ASSUME NEW t \in Session \ {s} PROVE Neat(t, st'[t], log')
  <2>1. Alike(t, log, log')
    BY DEF Keeps, Alike
  <2>2. Neat(t, st[t], log) /\ Waits(t, st[t], log)
    BY DEF Inv, Tidy
  <2>3. Neat(t, st[t], log')
    BY <1>3, <2>1, <2>2, OthersNeat
  <2>4. QED
    BY <1>2, <2>3
<1>5. \A t \in Session : Neat(t, st'[t], log')
  BY <1>1, <1>2, <1>4
<1>6. "raise" \notin conf'.faults => AllAnswered(log')
  BY <1>1 DEF Tidy
<1>7. Tidy' <=> /\ \A t \in Session : Neat(t, st'[t], log')
                /\ "raise" \notin conf'.faults => AllAnswered(log')
  BY DEF Tidy, Neat, Ordered, Kept, Worked, Unasked, Told, OutputsIn, Has, AllAnswered
<1>8. QED
  BY <1>5, <1>6, <1>7

LEMMA StepTidy == Inv /\ Tidy /\ [Next]_vars => Tidy'
<1> SUFFICES ASSUME Inv, Tidy, [Next]_vars PROVE Tidy'
  OBVIOUS
<1>0. \A s \in Session : Neat(s, st[s], log)
  BY DEF Tidy
<1>1. CASE UNCHANGED vars
  <2>1. st' = st /\ log' = log /\ conf' = conf
    BY <1>1 DEF vars
  <2>2. Tidy' <=> /\ \A t \in Session : Neat(t, st'[t], log')
                  /\ "raise" \notin conf'.faults => AllAnswered(log')
    BY DEF Tidy, Neat, Ordered, Kept, Worked, Unasked, Told, OutputsIn, Has, AllAnswered
  <2>3. QED
    BY <2>1, <2>2 DEF Tidy
<1>2. ASSUME NEW s \in Session, NEW r, Good(s, r) PROVE Keeps(s, log, log')
  BY <1>2 DEF Good, Silent, Spoken
<1>3. ASSUME NEW s \in Session, NEW p \in Session \cup {Nobody}, Begin(s, p) PROVE Tidy'
  <2>1. Neat(s, st[s], log)
    BY <1>0
  <2>2. (\E q : Nice(s, q)) /\ \E r : Good(s, r)
    BY <1>3, <2>1, BeginNice, BeginGood
  <2>3. QED
    BY <1>2, <2>2, NiceTidy
<1>4. ASSUME NEW s \in Session, Step(s) \/ Cancel(s) \/ CancelClose(s) PROVE Tidy'
  <2>1. Neat(s, st[s], log)
    BY <1>0
  <2>2. \E q : Nice(s, q)
    BY <1>4, <2>1, PrefillNice, TurnNice, ToolCallsNice, TextAnswerNice, ReplyNice, ExecuteNice,
       CallNice, CellNice, EndNice DEF Step, Response, CallStep
  <2>3. Keeps(s, log, log')
    <3>1. CASE Close(s)
      <4>1. log' = log /\ log \in Seq(EventRec)
        BY <3>1 DEF Close, Inv
      <4>2. QED
        BY <4>1, SilentSame DEF Silent
    <3>2. CASE ~Close(s)
      <4>1. \E r : Good(s, r)
        BY <1>4, <3>2, PrefillGood, TurnGood, ToolCallsGood, TextAnswerGood, ReplyGood, ExecuteGood,
           CallGood, CellGood, CancelGood DEF Step, Response, CallStep
      <4>2. QED
        BY <1>2, <4>1
    <3>3. QED
      BY <3>1, <3>2
  <2>4. QED
    BY <2>2, <2>3, NiceTidy
<1>5. QED
  BY <1>1, <1>3, <1>4 DEF Next

LEMMA SpecTidy == Spec => [](Inv /\ Tidy)
<1>1. Init => Inv /\ Tidy
  BY InitInv, InitTidy
<1>2. (Inv /\ Tidy) /\ [Next]_vars => (Inv /\ Tidy)'
  BY StepInv, StepTidy
<1>3. QED
  BY <1>1, <1>2, PTL DEF Spec

\* The prompt that execute() builds shows the session's tool calls in order:
\* each cell answered and with its one PythonOutput, whatever nested sessions
\* have recorded between the two, and no call after one that failed
\* (_process_tool_calls stops at the first error).
THEOREM LogIsOrdered == Spec => []LogInOrder
<1>1. Inv /\ Tidy => LogInOrder
  <2> SUFFICES ASSUME Inv, Tidy PROVE LogInOrder
    OBVIOUS
  <2>1. DOMAIN log = 1..Len(log) /\ Len(log) \in Nat
    BY DEF Inv
  <2>2. PromptAnswered
    BY <2>1 DEF Tidy, AllAnswered, PromptAnswered, Calls
  <2>3. OutputsFollow
    <3> SUFFICES ASSUME NEW s \in Session, st[s].pc = "generate", NEW i \in Calls \cap Own(s),
                        log[i].name = "python", log[i].turn > 0
                 PROVE  /\ log[i].result \in {"complete", "error"}
                        /\ Cardinality({j \in Own(s) : log[j].kind = "output" /\ log[j].ref = i}) = 1
      BY DEF OutputsFollow, Prompting
    <3>1. Kept(log, s, st[s].turn, 0)
      BY DEF Tidy, Neat
    <3>2. i \in 1..Len(log) /\ Has(log, s, i, "call") /\ i # 0
      BY <2>1 DEF Calls, Own, Has
    <3>3. Told(log, s, i)
      BY <3>1, <3>2 DEF Kept
    <3>4. PICK x : OutputsIn(log, s, i) = {x}
      BY <3>3 DEF Told
    <3>5. {j \in Own(s) : log[j].kind = "output" /\ log[j].ref = i} = OutputsIn(log, s, i)
      BY <2>1 DEF OutputsIn, Has, Own
    <3>6. QED
      BY <3>3, <3>4, <3>5, FS_Singleton DEF Told
  <2>4. FirstErrorStops
    <3> SUFFICES ASSUME NEW i \in Calls, NEW j \in Calls, i < j, log[i].by = log[j].by,
                        log[i].turn = log[j].turn, log[i].turn > 0
                 PROVE  log[i].result = "complete"
      BY DEF FirstErrorStops
    <3>1. i \in 1..Len(log) /\ j \in 1..Len(log) /\ log[i] \in EventRec
      BY <2>1, ElementOfSeq DEF Calls, Inv
    <3>2. log[i].by \in Session
      BY <3>1 DEF EventRec
    <3>3. Ordered(log, log[i].by)
      BY <3>2 DEF Tidy, Neat
    <3>4. Has(log, log[i].by, i, "call") /\ Has(log, log[i].by, j, "call")
      BY <3>1 DEF Has, Calls
    <3>5. QED
      BY <3>1, <3>3, <3>4 DEF Ordered
  <2>5. QED
    BY <2>2, <2>3, <2>4 DEF LogInOrder
<1>2. QED
  BY <1>1, SpecTidy, PTL

-----------------------------------------------------------------------------
(* What the LLM is shown grows: no session sends a prompt twice.           *)

ShownIn(l) == {i \in 1..Len(l) : l[i].kind # "text"}

LEMMA ShownFacts ==
  ASSUME NEW l \in Seq(EventRec)
  PROVE  /\ Len(l) \in Nat /\ IsFiniteSet(ShownIn(l)) /\ Shown(l) = Cardinality(ShownIn(l)) /\ Shown(l) \in Nat
<1>1. DOMAIN l = 1..Len(l) /\ Len(l) \in Nat
  OBVIOUS
<1>2. IsFiniteSet(1..Len(l))
  BY <1>1, FS_Interval
<1>3. IsFiniteSet(ShownIn(l))
  BY <1>2, FS_Subset DEF ShownIn
<1>4. Shown(l) = Cardinality(ShownIn(l))
  BY <1>1 DEF Shown, ShownIn
<1>5. QED
  BY <1>1, <1>3, <1>4, FS_CardinalityType

LEMMA ShownAppend ==
  ASSUME NEW l \in Seq(EventRec), NEW e \in EventRec
  PROVE  /\ Append(l, e) \in Seq(EventRec) /\ Shown(l) \in Nat
         /\ Shown(Append(l, e)) = IF e.kind = "text" THEN Shown(l) ELSE Shown(l) + 1
<1> DEFINE m == Append(l, e)
           k == Len(l) + 1
<1>1. /\ m \in Seq(EventRec) /\ Len(m) = k /\ Len(l) \in Nat
      /\ \A i \in 1..k : m[i] = IF i = k THEN e ELSE l[i]
  BY AppendFacts
<1>2. /\ IsFiniteSet(ShownIn(l)) /\ Shown(l) = Cardinality(ShownIn(l)) /\ Shown(l) \in Nat
      /\ Shown(m) = Cardinality(ShownIn(m))
  BY <1>1, ShownFacts
<1> HIDE DEF m
<1>3. k \notin ShownIn(l)
  BY <1>1 DEF ShownIn
<1>4. CASE e.kind = "text"
  <2>1. \A i : i \in ShownIn(m) <=> i \in ShownIn(l)
    BY <1>1, <1>4 DEF ShownIn
  <2>2. ShownIn(m) = ShownIn(l)
    BY <2>1
  <2>3. QED
    BY <1>1, <1>2, <1>4, <2>2 DEF m
<1>5. CASE e.kind # "text"
  <2>1. \A i : i \in ShownIn(m) <=> i \in ShownIn(l) \cup {k}
    BY <1>1, <1>5 DEF ShownIn
  <2>2. ShownIn(m) = ShownIn(l) \cup {k}
    BY <2>1
  <2>3. Cardinality(ShownIn(l) \cup {k}) = Cardinality(ShownIn(l)) + 1
    BY <1>2, <1>3, FS_AddElement
  <2>4. QED
    BY <1>1, <1>2, <1>5, <2>2, <2>3 DEF m
<1>6. QED
  BY <1>4, <1>5

LEMMA ShownSame ==
  ASSUME NEW l \in Seq(EventRec), NEW m \in Seq(EventRec), Len(m) = Len(l),
         \A i \in 1..Len(l) : m[i].kind = l[i].kind
  PROVE  Shown(m) = Shown(l)
<1>1. \A i : i \in ShownIn(m) <=> i \in ShownIn(l)
  BY DEF ShownIn
<1>2. ShownIn(m) = ShownIn(l)
  BY <1>1
<1>3. QED
  BY <1>2, ShownFacts

\* Each of the logs a step of session s may leave behind.
LEMMA ShownMore ==
  ASSUME Inv, NEW s \in Session
  PROVE  /\ Shown(log) \in Nat
         /\ Shown(Recovered(log)) = Shown(log)
         /\ Shown(Append(log, Note(s))) = Shown(log) + 1
         /\ \A n \in Names, rs \in Results :
               /\ Shown(Append(log, Call(s, n, rs))) = Shown(log) + 1
               /\ Shown(log \o <<[Text(s) EXCEPT !.recovered = TRUE], Call(s, n, rs)>>) = Shown(log) + 1
               /\ Shown(log \o <<Text(s), Call(s, n, rs)>>) = Shown(log) + 1
               /\ Shown(log \o <<Text(s), Call(s, n, rs), Note(s)>>) = Shown(log) + 2
               /\ \A k \in Nat, os \in Results :
                     /\ Shown(log \o <<Text(s), Call(s, n, rs), Output(s, k, os)>>) = Shown(log) + 2
                     /\ Shown(log \o <<Call(s, n, rs), Output(s, k, os)>>) = Shown(log) + 2
<1>1. log \in Seq(EventRec)
  BY DEF Inv
<1>2. Shown(log) \in Nat
  BY <1>1, ShownFacts
<1>3. Shown(Recovered(log)) = Shown(log)
  BY <1>1, RecoveredFacts, ShownSame
<1>4. Note(s) \in EventRec /\ Note(s).kind # "text"
  BY EventFacts, EventTurns
<1>5. Shown(Append(log, Note(s))) = Shown(log) + 1
  BY <1>1, <1>4, ShownAppend
<1>6. ASSUME NEW n \in Names, NEW rs \in Results
      PROVE  /\ Shown(Append(log, Call(s, n, rs))) = Shown(log) + 1
             /\ Shown(log \o <<[Text(s) EXCEPT !.recovered = TRUE], Call(s, n, rs)>>) = Shown(log) + 1
             /\ Shown(log \o <<Text(s), Call(s, n, rs)>>) = Shown(log) + 1
             /\ Shown(log \o <<Text(s), Call(s, n, rs), Note(s)>>) = Shown(log) + 2
             /\ \A k \in Nat, os \in Results :
                   /\ Shown(log \o <<Text(s), Call(s, n, rs), Output(s, k, os)>>) = Shown(log) + 2
                   /\ Shown(log \o <<Call(s, n, rs), Output(s, k, os)>>) = Shown(log) + 2
  <2> DEFINE e == Call(s, n, rs)
             t == Text(s)
             u == [Text(s) EXCEPT !.recovered = TRUE]
             d == Note(s)
  <2>1. e \in EventRec /\ e.kind = "call"
    BY EventFacts
  <2>2. t \in EventRec /\ t.kind = "text" /\ u \in EventRec /\ u.kind = "text"
    BY EventFacts, EventTurns, RecoveredText
  <2>3. d \in EventRec /\ d.kind # "text"
    BY <1>4
  <2> HIDE DEF e, t, u, d
  <2>4. Append(log, e) \in Seq(EventRec) /\ Shown(Append(log, e)) = Shown(log) + 1
    BY <1>1, <2>1, ShownAppend
  <2>5. /\ Append(log, t) \in Seq(EventRec) /\ Shown(Append(log, t)) = Shown(log)
        /\ Append(log, u) \in Seq(EventRec) /\ Shown(Append(log, u)) = Shown(log)
    BY <1>1, <2>2, ShownAppend
  <2>6. /\ Append(Append(log, t), e) \in Seq(EventRec) /\ Shown(Append(Append(log, t), e)) = Shown(log) + 1
        /\ Shown(Append(Append(log, u), e)) = Shown(log) + 1
    BY <2>1, <2>5, ShownAppend
  <2>7. log \o <<t, e>> = Append(Append(log, t), e) /\ log \o <<u, e>> = Append(Append(log, u), e)
    BY <1>1, <2>1, <2>2, Appends
  <2>8. ASSUME NEW o \in EventRec, o.kind # "text"
        PROVE  Shown(log \o <<t, e, o>>) = Shown(log) + 2 /\ Shown(log \o <<e, o>>) = Shown(log) + 2
    <3>1. Shown(Append(Append(Append(log, t), e), o)) = (Shown(log) + 1) + 1
      BY <2>6, <2>8, ShownAppend
    <3>2. Shown(Append(Append(log, e), o)) = (Shown(log) + 1) + 1
      BY <2>4, <2>8, ShownAppend
    <3>3. log \o <<t, e, o>> = Append(Append(Append(log, t), e), o)
      BY <1>1, <2>1, <2>2, AppendsThree
    <3>4. log \o <<e, o>> = Append(Append(log, e), o)
      BY <1>1, <2>1, Appends
    <3>5. (Shown(log) + 1) + 1 = Shown(log) + 2
      BY <1>2
    <3>6. QED
      BY <3>1, <3>2, <3>3, <3>4, <3>5
  <2>9. ASSUME NEW k \in Nat, NEW os \in Results
        PROVE  /\ Shown(log \o <<t, e, Output(s, k, os)>>) = Shown(log) + 2
               /\ Shown(log \o <<e, Output(s, k, os)>>) = Shown(log) + 2
    <3>1. Output(s, k, os) \in EventRec /\ Output(s, k, os).kind # "text"
      BY EventFacts, EventTurns
    <3>2. QED
      BY <2>8, <3>1
  <2>10. Shown(log \o <<t, e, d>>) = Shown(log) + 2
    BY <2>3, <2>8
  <2>11. QED
    BY <2>4, <2>6, <2>7, <2>9, <2>10 DEF e, t, u, d
<1>7. QED
  BY <1>2, <1>3, <1>5, <1>6

LEMMA ShownCell ==
  ASSUME Inv, NEW s \in Session, st[s].pc \in {"prefill", "exec"}, NEW rs \in {"complete", "error"}
  PROVE  /\ Shown(Settle(log, st[s].at, rs)) = Shown(log)
         /\ Shown(Cell(s, rs)) = Shown(log) + 1
         /\ Shown(Cell(s, rs) \o InlineReturn(s)) = Shown(log) + 2
<1> DEFINE k == st[s].at
           l == Settle(log, k, rs)
           o == Output(s, k, rs)
           e == Call(s, "answer", "complete")
           n == Shown(log)
<1>1. log \in Seq(EventRec) /\ k \in 1..Len(log) /\ k \in Nat /\ log[k].by = s /\ log[k].name = "python"
  BY DEF Inv, Waits, StRec
<1>2. rs \in Results /\ "complete" \in Results /\ "answer" \in Names
  BY DEF Results, Names
<1>3. l \in Seq(EventRec) /\ Len(l) = Len(log) /\ \A i \in 1..Len(log) : l[i].kind = log[i].kind
  BY <1>1, <1>2, SettleSilent DEF Silent, Keeps, Results
<1>4. o \in EventRec /\ o.kind # "text" /\ e \in EventRec /\ e.kind # "text"
  BY <1>1, <1>2, EventFacts, EventTurns
<1>5. Cell(s, rs) = Append(l, o) /\ InlineReturn(s) = <<e>>
  BY DEF Cell, InlineReturn
<1> HIDE DEF l, o, e, n
<1>6. n \in Nat /\ Shown(l) = n
  BY <1>1, <1>3, ShownSame, ShownFacts DEF n
<1>7. Append(l, o) \in Seq(EventRec) /\ Shown(Append(l, o)) = n + 1
  BY <1>3, <1>4, <1>6, ShownAppend
<1>8. Shown(Append(Append(l, o), e)) = (n + 1) + 1
  BY <1>4, <1>7, ShownAppend
<1>9. Append(l, o) \o <<e>> = Append(Append(l, o), e)
  BY <1>4, <1>7, Appends
<1>10. (n + 1) + 1 = n + 2
  BY <1>6
<1>11. QED
  BY <1>5, <1>6, <1>7, <1>8, <1>9, <1>10 DEF l, n

\* A session that goes on has something to show since its last prompt.
Moved(r, n) ==
  /\ r.seen <= n
  /\ r.pc \in {"loop", "prefill", "exec"} \/ (r.pc = "calls" /\ r.todo = 0) => r.seen < n

Moving == \A s \in Session : Moved(st[s], Shown(log))

\* One step of session s.
Shifts(s, r) ==
  /\ Become(s, r) /\ Shown(log') \in Nat /\ Shown(log) <= Shown(log') /\ Moved(r, Shown(log'))
  /\ r.turn > st[s].turn => r.seen > st[s].seen

\* The sessions a turn ends with differ from the present one in counters.
Same(s, q) == q \in StRec /\ q.turn = st[s].turn /\ q.seen = st[s].seen

LEMMA Sames ==
  ASSUME Inv, NEW s \in Session
  PROVE  /\ Same(s, st[s]) /\ Same(s, Erred(st[s])) /\ Same(s, Iterated(st[s]))
         /\ Same(s, TextTwice(s)) /\ Same(s, Erred(TextTwice(s)))
<1>1. ASSUME NEW r, Same(s, r) PROVE Same(s, Erred(r)) /\ Same(s, Iterated(r))
  BY <1>1 DEF Same, Erred, Iterated, StRec
<1>2. Same(s, st[s])
  BY Current DEF Same
<1>3. QED
  BY <1>1, <1>2 DEF TextTwice

LEMMA Leaves ==
  ASSUME Inv, NEW s \in Session, NEW q, Same(s, q)
  PROVE  /\ TurnOver(q).turn = st[s].turn /\ TurnOver(q).seen = st[s].seen
         /\ \A o : /\ Finished(q, o).turn = st[s].turn /\ Finished(q, o).seen = st[s].seen
                   /\ Finished(q, o).pc \in {"closing", "done"}
                   /\ Ended(q, o).turn = st[s].turn /\ Ended(q, o).seen = st[s].seen
                   /\ Ended(q, o).pc \in {"closing", "done"}
         /\ TextCounted(q).turn = st[s].turn /\ TextCounted(q).seen = st[s].seen
<1>1. ASSUME NEW r \in StRec, r.turn = st[s].turn, r.seen = st[s].seen
      PROVE  /\ TurnOver(r).turn = st[s].turn /\ TurnOver(r).seen = st[s].seen
             /\ \A o : /\ Finished(r, o).turn = st[s].turn /\ Finished(r, o).seen = st[s].seen
                       /\ Finished(r, o).pc \in {"closing", "done"}
                       /\ Ended(r, o).turn = st[s].turn /\ Ended(r, o).seen = st[s].seen
                       /\ Ended(r, o).pc \in {"closing", "done"}
  BY <1>1 DEF TurnOver, Finished, Ended, Teardown, StRec
<1> DEFINE r == [q EXCEPT !.text = q.text + 1]
<1>2. r \in StRec /\ r.turn = st[s].turn /\ r.seen = st[s].seen
  BY DEF Same, StRec
<1>3. TextCounted(q) = TurnOver(r) \/ TextCounted(q) = Finished(r, "failed")
  BY DEF TextCounted
<1> HIDE DEF r
<1>4. TextCounted(q).turn = st[s].turn /\ TextCounted(q).seen = st[s].seen
  BY <1>1, <1>2, <1>3
<1>5. QED
  BY <1>1, <1>4 DEF Same

\* The turn is over, or the session.
LEMMA OverShifts ==
  ASSUME Inv, Moving, NEW s \in Session, NEW q, Same(s, q),
         \/ Become(s, TurnOver(q)) \/ Become(s, TextCounted(q))
         \/ \E o : Become(s, Finished(q, o)) \/ Become(s, Ended(q, o)),
         Shown(log') \in {Shown(log) + 1, Shown(log) + 2}
  PROVE  \E r : Shifts(s, r)
<1>1. st[s].seen \in Nat /\ st[s].turn \in Nat /\ Shown(log) \in Nat /\ st[s].seen <= Shown(log)
  BY Current, ShownMore DEF StRec, Moving, Moved
<1>2. Shown(log') \in Nat /\ Shown(log) <= Shown(log') /\ st[s].seen < Shown(log')
  BY <1>1
<1>3. ASSUME NEW r, r.seen = st[s].seen, r.turn = st[s].turn, Become(s, r) PROVE Shifts(s, r)
  BY <1>1, <1>2, <1>3 DEF Shifts, Moved
<1>4. QED
  BY <1>3, Leaves

\* The session ends, whatever it records.
LEMMA EndShifts ==
  ASSUME Inv, Moving, NEW s \in Session, NEW q, Same(s, q),
         \E o : Become(s, Finished(q, o)) \/ Become(s, Ended(q, o)),
         Shown(log') \in {Shown(log), Shown(log) + 1, Shown(log) + 2}
  PROVE  \E r : Shifts(s, r)
<1>1. st[s].seen \in Nat /\ st[s].turn \in Nat /\ Shown(log) \in Nat /\ st[s].seen <= Shown(log)
  BY Current, ShownMore DEF StRec, Moving, Moved
<1>2. Shown(log') \in Nat /\ Shown(log) <= Shown(log') /\ st[s].seen <= Shown(log')
  BY <1>1
<1>3. ASSUME NEW r, r.seen = st[s].seen, r.turn = st[s].turn, r.pc \in {"closing", "done"}, Become(s, r)
      PROVE Shifts(s, r)
  BY <1>1, <1>2, <1>3 DEF Shifts, Moved
<1>4. PICK o : Become(s, Finished(q, o)) \/ Become(s, Ended(q, o))
  OBVIOUS
<1>5. QED
  BY <1>3, <1>4, Leaves

LEMMA BeginShifts ==
  ASSUME Inv, Moving, NEW s \in Session, NEW p \in Session \cup {Nobody}, Begin(s, p)
  PROVE  \E r : Shifts(s, r)
<1> DEFINE r == [Fresh EXCEPT !.pc = "loop", !.parent = p, !.todo = conf.prefill,
                              !.box = IF conf.sandbox THEN "open" ELSE "none"]
<1>1. Shown(log) \in Nat /\ Shown(log') = Shown(log) + 1 /\ st[s].turn \in Nat
  BY ShownMore, Current DEF Begin
<1>2. r.seen = 0 /\ r.turn = 0
  BY DEF Fresh
<1>3. Ended(r, "raised").seen = 0 /\ Ended(r, "raised").turn = 0
  BY DEF Fresh, Ended
<1>4. Become(s, r) \/ Become(s, Ended(r, "raised"))
  BY DEF Begin
<1> HIDE DEF r
<1>5. ASSUME NEW q, q.seen = 0, q.turn = 0, Become(s, q) PROVE Shifts(s, q)
  BY <1>1, <1>5 DEF Shifts, Moved
<1>6. QED
  BY <1>2, <1>3, <1>4, <1>5

LEMMA PrefillShifts ==
  ASSUME Inv, Moving, NEW s \in Session, Prefill(s) \/ PrefillEnds(s) \/ PrefillRaises(s)
  PROVE  \E r : Shifts(s, r)
<1>1. st[s] \in StRec /\ st[s].seen \in Nat /\ st[s].turn \in Nat /\ Shown(log) \in Nat
      /\ st[s].seen < Shown(log)
  BY Current, ShownMore DEF StRec, Moving, Moved, Prefill, PrefillEnds, PrefillRaises, At
<1>2. Shown(log') = Shown(log) + 1
  <2>1. CASE Prefill(s)
    BY <2>1, ShownMore, Kinds DEF Prefill
  <2>2. CASE PrefillEnds(s)
    BY <2>2, ShownCell DEF PrefillEnds, At
  <2>3. CASE PrefillRaises(s)
    BY <2>3, ShownMore DEF PrefillRaises
  <2>4. QED
    BY <2>1, <2>2, <2>3
<1>3. \E r : r.seen = st[s].seen /\ r.turn = st[s].turn /\ Become(s, r)
  <2>1. CASE Prefill(s)
    <3> DEFINE r == [st[s] EXCEPT !.pc = "prefill", !.todo = @ - 1, !.at = Len(log) + 1]
    <3>1. r.seen = st[s].seen /\ r.turn = st[s].turn /\ Become(s, r)
      BY <1>1, <2>1 DEF Prefill, StRec
    <3>2. QED
      BY <3>1
  <2>2. CASE PrefillEnds(s)
    <3> DEFINE r == [st[s] EXCEPT !.pc = "loop"]
    <3>1. r.seen = st[s].seen /\ r.turn = st[s].turn /\ Become(s, r)
      BY <1>1, <2>2 DEF PrefillEnds, StRec
    <3>2. QED
      BY <3>1
  <2>3. CASE PrefillRaises(s)
    <3> DEFINE r == [st[s] EXCEPT !.pc = "loop", !.todo = 0]
    <3>1. r.seen = st[s].seen /\ r.turn = st[s].turn /\ Become(s, r)
      BY <1>1, <2>3 DEF PrefillRaises, StRec
    <3>2. QED
      BY <3>1
  <2>4. QED
    BY <2>1, <2>2, <2>3
<1>4. PICK r : r.seen = st[s].seen /\ r.turn = st[s].turn /\ Become(s, r)
  BY <1>3
<1>5. Shifts(s, r)
  BY <1>1, <1>2, <1>4 DEF Shifts, Moved
<1>6. QED
  BY <1>5

\* The prompt: what is shown now is more than it was last time.
LEMMA TurnShifts ==
  ASSUME Inv, Moving, NEW s \in Session, Turn(s) PROVE \E r : Shifts(s, r)
<1> DEFINE r == [st[s] EXCEPT !.pc = "generate", !.turn = @ + 1, !.seen = Shown(log)]
<1>1. st[s] \in StRec /\ st[s].seen \in Nat /\ Shown(log) \in Nat /\ st[s].seen < Shown(log)
  BY Current, ShownMore DEF StRec, Moving, Moved, Turn, At
<1>2. Become(s, r) /\ log' = log
  BY DEF Turn
<1>3. r.seen = Shown(log) /\ r.pc = "generate"
  BY <1>1 DEF StRec
<1> HIDE DEF r
<1>4. Shifts(s, r)
  BY <1>1, <1>2, <1>3 DEF Shifts, Moved
<1>5. QED
  BY <1>4

LEMMA ToolCallsShifts ==
  ASSUME Inv, Moving, NEW s \in Session, ToolCalls(s) PROVE \E r : Shifts(s, r)
<1>1. PICK n \in 1..MaxCalls :
         Become(s, [Iterated(st[s]) EXCEPT !.pc = "calls", !.todo = n, !.text = 0])
  BY DEF ToolCalls
<1> DEFINE i == Iterated(st[s])
           r == [i EXCEPT !.pc = "calls", !.todo = n, !.text = 0]
<1>2. Same(s, i)
  BY Sames
<1> HIDE DEF i
<1>3. r.pc = "calls" /\ r.todo = n /\ r.seen = st[s].seen /\ r.turn = st[s].turn /\ Become(s, r)
  BY <1>1, <1>2 DEF Same, StRec, i
<1> HIDE DEF r
<1>4. Shown(log') = Shown(log) /\ Shown(log) \in Nat
  BY ShownMore DEF ToolCalls
<1>5. st[s].seen \in Nat /\ st[s].turn \in Nat /\ st[s].seen <= Shown(log) /\ n # 0
  BY Current, ConstantsAssumption DEF StRec, Moving, Moved
<1>6. Shifts(s, r)
  BY <1>3, <1>4, <1>5 DEF Shifts, Moved
<1>7. QED
  BY <1>6

LEMMA TextShifts ==
  ASSUME Inv, Moving, NEW s \in Session, TextAccepted(s) \/ TextRejected(s) \/ TextRaises(s) \/ TextCommented(s)
  PROVE  \E r : Shifts(s, r)
<1>1. Same(s, TextTwice(s)) /\ Same(s, Erred(TextTwice(s))) /\ Same(s, Iterated(st[s]))
  BY Sames
<1>2. "python" \in Names /\ "answer" \in Names /\ {"complete", "error", "none"} \subseteq Results
  BY Kinds
<1>3. CASE TextAccepted(s)
  <2>1. Shown(log') = Shown(log) + 1 /\ Become(s, Finished(TextTwice(s), "value"))
    BY <1>2, <1>3, ShownMore DEF TextAccepted
  <2>2. QED
    BY <1>1, <2>1, EndShifts
<1>4. CASE TextRejected(s)
  <2> DEFINE q == IF conf.none THEN TextTwice(s) ELSE Erred(TextTwice(s))
  <2>1. Same(s, q)
    BY <1>1
  <2>2. /\ Become(s, Finished(q, "failed")) \/ Become(s, TextCounted(q))
        /\ \/ log' = log \o <<Text(s), Call(s, "answer", "error")>>
           \/ log' = log \o <<Text(s), Call(s, "answer", "error"), Note(s)>>
    BY <1>4 DEF TextRejected
  <2>3. Shown(log') \in {Shown(log) + 1, Shown(log) + 2}
    <3>1. /\ Shown(log \o <<Text(s), Call(s, "answer", "error")>>) = Shown(log) + 1
          /\ Shown(log \o <<Text(s), Call(s, "answer", "error"), Note(s)>>) = Shown(log) + 2
      BY <1>2, ShownMore
    <3>2. QED
      BY <2>2, <3>1
  <2> HIDE DEF q
  <2>4. QED
    BY <2>1, <2>2, <2>3, OverShifts
<1>5. CASE TextRaises(s)
  <2>1. Shown(log') = Shown(log) + 1 /\ Become(s, Finished(TextTwice(s), "raised"))
    BY <1>2, <1>5, ShownMore DEF TextRaises
  <2>2. QED
    BY <1>1, <2>1, EndShifts
<1>6. CASE TextCommented(s)
  <2>1. Len(log) + 2 \in Nat
    BY DEF Inv
  <2>2. Shown(log') = Shown(log) + 2 /\ Become(s, TextCounted(Iterated(st[s])))
    BY <1>2, <1>6, <2>1, ShownMore DEF TextCommented
  <2>3. QED
    BY <1>1, <2>2, OverShifts
<1>7. QED
  BY <1>3, <1>4, <1>5, <1>6

LEMMA ReplyShifts ==
  ASSUME Inv, Moving, NEW s \in Session, EmptyReply(s) \/ ApiError(s) \/ BlockError(s)
  PROVE  \E r : Shifts(s, r)
<1>1. Same(s, Erred(st[s])) /\ Same(s, Iterated(st[s]))
  BY Sames
<1>2. CASE log' = Append(log, Note(s))
  <2>1. Shown(log') = Shown(log) + 1
    BY <1>2, ShownMore
  <2>2. \/ \E o : Become(s, Finished(Erred(st[s]), o))
        \/ Become(s, TurnOver(Erred(st[s])))
        \/ Become(s, TurnOver(Iterated(st[s])))
    BY DEF EmptyReply, ApiError, BlockError
  <2>3. QED
    BY <1>1, <2>1, <2>2, OverShifts
<1>3. CASE UNCHANGED log /\ Become(s, Finished(Erred(st[s]), "failed"))
  <2>1. Shown(log') = Shown(log)
    BY <1>3
  <2>2. QED
    BY <1>1, <1>3, <2>1, EndShifts
<1>4. QED
  BY <1>2, <1>3 DEF EmptyReply, ApiError, BlockError

LEMMA CallShifts ==
  ASSUME Inv, Moving, NEW s \in Session, CallStep(s) PROVE \E r : Shifts(s, r)
<1>1. Same(s, st[s]) /\ Same(s, Erred(st[s]))
  BY Sames
<1>2. {"python", "answer", "other"} \subseteq Names /\ {"complete", "error", "none", "executing"} \subseteq Results
  BY Kinds
<1>3. /\ st[s] \in StRec /\ st[s].seen \in Nat /\ st[s].turn \in Nat /\ Shown(log) \in Nat
      /\ st[s].seen <= Shown(log) /\ Len(log) + 1 \in Nat
  <2>1. st[s] \in StRec
    BY Current
  <2>2. st[s].seen \in Nat /\ st[s].turn \in Nat
    BY <2>1 DEF StRec
  <2>3. Shown(log) \in Nat
    BY ShownMore
  <2>4. st[s].seen <= Shown(log)
    BY DEF Moving, Moved
  <2>5. log \in Seq(EventRec)
    BY DEF Inv
  <2>6. Len(log) + 1 \in Nat
    BY <2>5
  <2>7. QED
    BY <2>1, <2>2, <2>3, <2>4, <2>6
<1>4. CASE CallsDone(s)
  <2>1. st[s].seen < Shown(log) /\ Become(s, TurnOver(st[s])) /\ log' = log
    BY <1>4 DEF CallsDone, At, Moving, Moved
  <2>2. TurnOver(st[s]).turn = st[s].turn /\ TurnOver(st[s]).seen = st[s].seen
    BY <1>1, Leaves
  <2> DEFINE r == TurnOver(st[s])
  <2> HIDE DEF r
  <2>3. Shifts(s, r)
    BY <1>3, <2>1, <2>2 DEF Shifts, Moved, r
  <2>4. QED
    BY <2>3
<1>5. CASE BadArguments(s) \/ UnknownTool(s) \/ EmptyCode(s)
  <2>1. Become(s, TurnOver(Erred(st[s])))
    BY <1>5 DEF BadArguments, UnknownTool, EmptyCode
  <2>2. Shown(log') \in {Shown(log) + 1, Shown(log) + 2}
    <3> DEFINE e(n, rs) == Append(log, Call(s, n, rs))
               p(n, rs, k, os) == log \o <<Call(s, n, rs), Output(s, k, os)>>
    <3>a. /\ Shown(Append(log, Note(s))) = Shown(log) + 1
          /\ \A n \in Names, rs \in Results :
                /\ Shown(e(n, rs)) = Shown(log) + 1
                /\ \A k \in Nat, os \in Results : Shown(p(n, rs, k, os)) = Shown(log) + 2
      BY ShownMore
    <3>b. "python" \in Names /\ "other" \in Names /\ "error" \in Results
      BY <1>2
    <3> HIDE DEF e, p
    <3>c. Shown(e("other", "error")) = Shown(log) + 1 /\ Shown(p("python", "error", Len(log) + 1, "error")) = Shown(log) + 2
      BY <1>3, <3>a, <3>b
    <3>1. /\ Shown(Append(log, Note(s))) = Shown(log) + 1
          /\ Shown(Append(log, Call(s, "other", "error"))) = Shown(log) + 1
          /\ Shown(log \o <<Call(s, "python", "error"), Output(s, Len(log) + 1, "error")>>) = Shown(log) + 2
      BY <3>a, <3>c DEF e, p
    <3>2. \/ log' = Append(log, Note(s)) \/ log' = Append(log, Call(s, "other", "error"))
          \/ log' = log \o <<Call(s, "python", "error"), Output(s, Len(log) + 1, "error")>>
      BY <1>5 DEF BadArguments, UnknownTool, EmptyCode
    <3>3. QED
      BY <3>1, <3>2
  <2>3. QED
    BY <1>1, <2>1, <2>2, OverShifts
<1>6. CASE Execute(s)
  <2> DEFINE r == [st[s] EXCEPT !.pc = "exec", !.todo = @ - 1, !.at = Len(log) + 1]
  <2>1. r.seen = st[s].seen /\ r.turn = st[s].turn /\ Become(s, r)
    BY <1>3, <1>6 DEF Execute, StRec
  <2>2. Shown(log') = Shown(log) + 1
    BY <1>2, <1>6, ShownMore DEF Execute
  <2> HIDE DEF r
  <2>3. Shifts(s, r)
    BY <1>3, <2>1, <2>2 DEF Shifts, Moved
  <2>4. QED
    BY <2>3
<1>7. CASE ResultAccepted(s) \/ ResultRejected(s) \/ ResultRaises(s)
  <2>1. Shown(log') = Shown(log) + 1
    <3>0. \/ log' = Append(log, Call(s, "answer", "complete")) \/ log' = Append(log, Call(s, "answer", "error"))
          \/ log' = Append(log, Call(s, "answer", "none"))
      BY <1>7 DEF ResultAccepted, ResultRejected, ResultRaises
    <3> DEFINE e(rs) == Append(log, Call(s, "answer", rs))
    <3> HIDE DEF e
    <3>1. \E rs \in {"complete", "error", "none"} : log' = e(rs)
      BY <3>0 DEF e
    <3>a. "answer" \in Names /\ \A rs \in {"complete", "error", "none"} : rs \in Results
      BY <1>2
    <3>b. \A n \in Names, rs \in Results : Shown(Append(log, Call(s, n, rs))) = Shown(log) + 1
      BY ShownMore
    <3>c. \A rs \in Results : Shown(e(rs)) = Shown(log) + 1
      BY <3>a, <3>b DEF e
    <3>2. \A rs \in {"complete", "error", "none"} : Shown(e(rs)) = Shown(log) + 1
      BY <3>a, <3>c
    <3>3. QED
      BY <3>1, <3>2
  <2>2. \E q \in {st[s], Erred(st[s])} : Become(s, TurnOver(q)) \/ \E o : Become(s, Finished(q, o))
    BY <1>7 DEF ResultAccepted, ResultRejected, ResultRaises
  <2>3. QED
    BY <1>1, <2>1, <2>2, OverShifts
<1>8. QED
  BY <1>4, <1>5, <1>6, <1>7 DEF CallStep

LEMMA CellShifts ==
  ASSUME Inv, Moving, NEW s \in Session, CellStep(s) PROVE \E r : Shifts(s, r)
<1>1. Same(s, st[s]) /\ Same(s, Erred(st[s])) /\ st[s].pc = "exec"
  BY Sames DEF CellStep, CellWorks, CellFails, CellReturns, CellReturnsBadly, CellRaises, At
<1>2. /\ st[s] \in StRec /\ st[s].seen \in Nat /\ st[s].turn \in Nat /\ Shown(log) \in Nat
      /\ st[s].seen < Shown(log)
  BY <1>1, Current, ShownMore DEF StRec, Moving, Moved
<1>3. CASE CellWorks(s)
  <2> DEFINE r == [st[s] EXCEPT !.pc = "calls"]
  <2>1. r.seen = st[s].seen /\ r.turn = st[s].turn /\ Become(s, r)
    BY <1>2, <1>3 DEF CellWorks, StRec
  <2>2. Shown(log') = Shown(log) + 1
    BY <1>1, <1>3, ShownCell DEF CellWorks
  <2> HIDE DEF r
  <2>3. Shifts(s, r)
    BY <1>2, <2>1, <2>2 DEF Shifts, Moved
  <2>4. QED
    BY <2>3
<1>4. CASE CellFails(s)
  <2>1. Shown(log') = Shown(log) + 1 /\ Become(s, TurnOver(st[s]))
    BY <1>1, <1>4, ShownCell DEF CellFails
  <2>2. QED
    BY <1>1, <2>1, OverShifts
<1>5. CASE CellReturns(s)
  <2>1. Shown(log') = Shown(log) + 2 /\ Become(s, Finished(st[s], "value"))
    BY <1>1, <1>5, ShownCell DEF CellReturns
  <2>2. QED
    BY <1>1, <2>1, EndShifts
<1>6. CASE CellReturnsBadly(s)
  <2> DEFINE q == IF conf.none THEN st[s] ELSE Erred(st[s])
  <2>1. Same(s, q)
    BY <1>1
  <2>2. \/ log' = Settle(log, st[s].at, "error") /\ Become(s, Finished(q, "failed"))
        \/ log' = Cell(s, "error") /\ Become(s, TurnOver(q))
    BY <1>6 DEF CellReturnsBadly
  <2> HIDE DEF q
  <2>3. CASE log' = Settle(log, st[s].at, "error") /\ Become(s, Finished(q, "failed"))
    <3>1. Shown(log') = Shown(log)
      BY <1>1, <2>3, ShownCell
    <3>2. QED
      BY <2>1, <2>3, <3>1, EndShifts
  <2>4. CASE log' = Cell(s, "error") /\ Become(s, TurnOver(q))
    <3>1. Shown(log') = Shown(log) + 1
      BY <1>1, <2>4, ShownCell
    <3>2. QED
      BY <2>1, <2>4, <3>1, OverShifts
  <2>5. QED
    BY <2>2, <2>3, <2>4
<1>7. CASE CellRaises(s)
  <2>1. Shown(log') = Shown(log) /\ Become(s, Finished(st[s], "raised"))
    BY <1>1, <1>7, ShownCell DEF CellRaises
  <2>2. QED
    BY <1>1, <2>1, EndShifts
<1>8. QED
  BY <1>3, <1>4, <1>5, <1>6, <1>7 DEF CellStep

LEMMA EndsShift ==
  ASSUME Inv, Moving, NEW s \in Session, LoopExhausted(s) \/ Close(s) \/ Cancel(s) \/ CancelClose(s)
  PROVE  \E r : Shifts(s, r)
<1>1. Same(s, st[s]) /\ st[s] \in StRec /\ Shown(log) \in Nat /\ log' = log
  BY Sames, Current, ShownMore DEF LoopExhausted, Close, Cancel, CancelClose
<1>2. CASE LoopExhausted(s) \/ Cancel(s)
  <2>1. \E o : Become(s, Finished(st[s], o)) \/ Become(s, Ended(st[s], o))
    BY <1>2 DEF LoopExhausted, Cancel
  <2>2. Shown(log') = Shown(log)
    BY <1>1
  <2>3. QED
    BY <1>1, <2>1, <2>2, EndShifts
<1>3. CASE Close(s) \/ CancelClose(s)
  <2>1. PICK r \in {[st[s] EXCEPT !.pc = "done", !.box = "closed"],
                    [st[s] EXCEPT !.pc = "done", !.outcome = "cancelled"]} : Become(s, r)
    BY <1>3 DEF Close, CancelClose
  <2>2. r.pc = "done" /\ r.seen = st[s].seen /\ r.turn = st[s].turn
    BY <1>1, <2>1 DEF StRec
  <2>3. st[s].seen \in Nat /\ st[s].turn \in Nat /\ st[s].seen <= Shown(log)
    BY <1>1 DEF StRec, Moving, Moved
  <2>4. Shifts(s, r)
    BY <1>1, <2>1, <2>2, <2>3 DEF Shifts, Moved
  <2>5. QED
    BY <2>4
<1>4. QED
  BY <1>2, <1>3

LEMMA NextShifts ==
  ASSUME Inv, Moving, Next PROVE \E s \in Session : \E r : Shifts(s, r)
<1>1. PICK s \in Session : \/ \E p \in Session \cup {Nobody} : Begin(s, p)
                           \/ Step(s) \/ Cancel(s) \/ CancelClose(s)
  BY DEF Next
<1>2. \E r : Shifts(s, r)
  BY <1>1, BeginShifts, PrefillShifts, TurnShifts, ToolCallsShifts, TextShifts, ReplyShifts, CallShifts,
     CellShifts, EndsShift DEF Step, Response
<1>3. QED
  BY <1>2

LEMMA StepMoving ==
  ASSUME Inv, Moving, [Next]_vars
  PROVE  /\ Moving'
         /\ \A s \in Session : st'[s].turn > st[s].turn => st'[s].seen > st[s].seen
<1>0. \A s \in Session : st[s] \in StRec /\ st[s].seen \in Nat /\ st[s].turn \in Nat
  BY DEF Inv, StRec
<1>1. CASE Next
  <2>1. PICK s \in Session : \E r : Shifts(s, r)
    BY <1>1, NextShifts
  <2>2. PICK r : Shifts(s, r)
    BY <2>1
  <2>3. /\ st'[s] = r /\ \A t \in Session : t # s => st'[t] = st[t]
    BY <2>2 DEF Shifts, Become, Inv
  <2>4. ASSUME NEW t \in Session, t # s
        PROVE  Moved(st'[t], Shown(log')) /\ ~(st'[t].turn > st[t].turn)
    <3>1. Moved(st[t], Shown(log)) /\ st'[t] = st[t] /\ Shown(log) \in Nat
      BY <2>3, <2>4, ShownMore DEF Moving
    <3>2. Shown(log') \in Nat /\ Shown(log) <= Shown(log')
      BY <2>2 DEF Shifts
    <3>3. QED
      BY <1>0, <3>1, <3>2 DEF Moved
  <2>5. Moved(st'[s], Shown(log')) /\ (st'[s].turn > st[s].turn => st'[s].seen > st[s].seen)
    BY <2>2, <2>3 DEF Shifts
  <2>6. QED
    BY <2>4, <2>5 DEF Moving
<1>2. CASE UNCHANGED vars
  <2>1. Shown(log') = Shown(log) /\ st' = st
    BY <1>2 DEF vars
  <2>2. QED
    BY <1>0, <2>1 DEF Moving
<1>3. QED
  BY <1>1, <1>2

LEMMA InitMoving == Init => Moving
<1> SUFFICES ASSUME Init PROVE Moving
  OBVIOUS
<1>1. Shown(log) \in Nat
  <2>1. log \in Seq(EventRec)
    BY DEF Init
  <2>2. QED
    BY <2>1, ShownFacts
<1>2. \A s \in Session : st[s].seen = 0 /\ st[s].pc = "idle"
  BY DEF Init, Fresh
<1>3. QED
  BY <1>1, <1>2 DEF Moving, Moved

(* No session sends a prompt twice: between two prompts something that the *)
(* LLM is shown was added to the log, by whichever path the turn ended     *)
(* (codeact.py: events added in prior iterations change what the LLM sees).*)
THEOREM PromptsMove == Spec => PromptMoves
<1>1. Inv /\ Moving /\ [Next]_vars => Moving'
  BY StepMoving
<1>2. Inv /\ Moving /\ [Next]_vars
      => [\A s \in Session : st'[s].turn > st[s].turn => st'[s].seen > st[s].seen]_vars
  BY StepMoving
<1>3. QED
  BY InitInv, StepInv, InitMoving, <1>1, <1>2, PTL DEF Spec, PromptMoves

=============================================================================
