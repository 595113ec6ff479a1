----------------------------- MODULE BashProofs -----------------------------
(***************************************************************************)
(* Proofs about the persistent shell, for any number of calls and shells:  *)
(* the types; that a command is written to a shell at most once; and that, *)
(* unless a start or a reset meets another call, the calls take turns, no  *)
(* shell is left behind, a call returns what its own command reported, and *)
(* no command is left running.                                             *)
(***************************************************************************)
EXTENDS BashSession, TLAPS

-----------------------------------------------------------------------------
(* Types.                                                                  *)
Whats   == {"user", "startup", "init", "lock"}
Tries   == {"none", "check", "write", "last", "over"}
LineSet == [call : Call, what : Whats, part : {"code", "cwd", "end"}]
Frames  == [what : Whats, try : Tries, lines : Seq(LineSet), timedOut : BOOLEAN]
CallRec == [pc : Stages, stack : Seq(Frames), at : Nat, lock : Nat]
Scripts == [call : Call, what : Whats]
Kinds   == {"none", "raised", "withdrawn", "cancelled", "timeout", "died", "status"}
Results == [kind : Kinds, of : Call \cup {Nobody}]

Working == {"send", "reset", "closing", "spawn", "wire", "read", "drain", "return"}

World ==
  /\ process \in 0..shells /\ ctrl \in 0..shells /\ shells \in 0..MaxShell
  /\ alive \subseteq 1..shells /\ closed \subseteq 1..shells
  /\ started \in BOOLEAN /\ inInit \in BOOLEAN /\ lock \in Nat
  /\ stdin \in [Shell -> Seq(Scripts)] /\ fd3 \in [Shell -> Seq(LineSet)]
  /\ result \in [Call -> Results] /\ disturbed \in BOOLEAN

-----------------------------------------------------------------------------
(* The frames of a call: at the bottom the command or the lock, above it   *)
(* only the sentinels of starting shells and init commands.                *)
Good(s) == /\ s \in Seq(Frames) /\ s # <<>>
           /\ \A i \in 1..Len(s) : i = Len(s) <=> s[i].what \in {"user", "lock"}
Bottom(s) == s[Len(s)]

LEMMA GoodLen == ASSUME NEW s, Good(s)
                 PROVE  /\ Len(s) \in Nat \ {0} /\ Head(s) = s[1] /\ 1 \in 1..Len(s) /\ DOMAIN s = 1..Len(s)
                        /\ Bottom(s) \in Frames /\ s[1] \in Frames /\ Bottom(s).what \in {"user", "lock"}
                        /\ Len(s) \in 1..Len(s)
<1>1. s \in Seq(Frames) /\ s # <<>>
  BY DEF Good
<1>2. Len(s) \in Nat \ {0} /\ Head(s) = s[1] /\ DOMAIN s = 1..Len(s)
  BY <1>1
<1>3. 1 \in 1..Len(s) /\ Len(s) \in 1..Len(s)
  BY <1>2
<1>4. s[Len(s)] \in Frames /\ s[1] \in Frames
  BY <1>1, <1>3
<1>5. QED
  BY <1>2, <1>3, <1>4 DEF Good, Bottom

\* The frame on top is written to.
LEMMA GoodTouch ==
    ASSUME NEW s, Good(s), NEW f \in Frames, f.what = s[1].what
    PROVE  LET r == [s EXCEPT ![1] = f]
           IN Good(r) /\ Len(r) = Len(s) /\ Bottom(r) = IF Len(s) = 1 THEN f ELSE Bottom(s)
<1> DEFINE r == [s EXCEPT ![1] = f]
<1>1. s \in Seq(Frames) /\ Len(s) \in Nat \ {0} /\ DOMAIN s = 1..Len(s)
  BY GoodLen DEF Good
<1>2. r \in Seq(Frames) /\ Len(r) = Len(s) /\ \A i \in 1..Len(s) : r[i] = IF i = 1 THEN f ELSE s[i]
  BY <1>1
<1>3. r # <<>>
  BY <1>1, <1>2
<1> HIDE DEF r
<1>4. Good(r)
  BY <1>1, <1>2, <1>3 DEF Good
<1>5. Bottom(r) = IF Len(s) = 1 THEN f ELSE Bottom(s)
  BY <1>1, <1>2 DEF Bottom
<1>6. QED
  BY <1>2, <1>4, <1>5 DEF r

\* A frame is put on top.
LEMMA GoodPush ==
    ASSUME NEW s, Good(s), NEW f \in Frames, f.what \in {"startup", "init"}
    PROVE  LET r == <<f>> \o s
           IN Good(r) /\ Len(r) = Len(s) + 1 /\ Bottom(r) = Bottom(s)
<1> DEFINE r == <<f>> \o s
<1>1. s \in Seq(Frames) /\ Len(s) \in Nat \ {0} /\ DOMAIN s = 1..Len(s)
  BY GoodLen DEF Good
<1>2. r \in Seq(Frames) /\ Len(r) = Len(s) + 1 /\ r[1] = f /\ \A i \in 1..Len(s) : r[i + 1] = s[i]
  BY <1>1
<1>3. r # <<>>
  BY <1>1, <1>2
<1> HIDE DEF r
<1>4. ASSUME NEW i \in 1..Len(r) PROVE i = Len(r) <=> r[i].what \in {"user", "lock"}
  <2>1. CASE i = 1
    BY <1>1, <1>2, <2>1
  <2>2. CASE i # 1
    <3>1. i - 1 \in 1..Len(s) /\ (i - 1) + 1 = i
      BY <1>1, <1>2, <2>2
    <3>2. r[i] = s[i - 1] /\ (i = Len(r) <=> i - 1 = Len(s))
      BY <1>1, <1>2, <3>1
    <3> QED
      BY <3>1, <3>2 DEF Good
  <2> QED
    BY <2>1, <2>2
<1>5. Bottom(r) = Bottom(s)
  BY <1>1, <1>2 DEF Bottom
<1>6. QED
  BY <1>2, <1>3, <1>4, <1>5 DEF Good, r

\* The frame on top is left, and there is one below it.
LEMMA GoodPop ==
    ASSUME NEW s, Good(s), s[1].what \in {"startup", "init"}
    PROVE  LET r == Tail(s)
           IN /\ Good(r) /\ Len(r) = Len(s) - 1 /\ Bottom(r) = Bottom(s) /\ Len(s) \in Nat
<1> DEFINE r == Tail(s)
<1>1. s \in Seq(Frames) /\ Len(s) \in Nat \ {0} /\ DOMAIN s = 1..Len(s) /\ s # <<>>
  BY GoodLen DEF Good
<1>2. r \in Seq(Frames) /\ Len(r) = Len(s) - 1 /\ \A i \in 1..(Len(s) - 1) : r[i] = s[i + 1]
  BY <1>1
<1> HIDE DEF r
<1>3. Len(s) # 1
  <2>1. s[1].what \notin {"user", "lock"} /\ 1 \in 1..Len(s)
    BY GoodLen
  <2> QED
    BY <2>1 DEF Good
<1>4. r # <<>> /\ Len(r) \in Nat \ {0}
  BY <1>1, <1>2, <1>3
<1>5. ASSUME NEW i \in 1..Len(r) PROVE i = Len(r) <=> r[i].what \in {"user", "lock"}
  <2>1. i + 1 \in 1..Len(s) /\ r[i] = s[i + 1] /\ (i = Len(r) <=> i + 1 = Len(s))
    BY <1>1, <1>2
  <2> QED
    BY <2>1 DEF Good
<1>6. Bottom(r) = Bottom(s)
  BY <1>1, <1>2, <1>4 DEF Bottom
<1>7. QED
  BY <1>1, <1>2, <1>4, <1>5, <1>6 DEF Good, r

LEMMA GoodOne ==
    ASSUME NEW f \in Frames, f.what \in {"user", "lock"}
    PROVE  Good(<<f>>) /\ Len(<<f>>) = 1 /\ Bottom(<<f>>) = f
<1>1. <<f>> \in Seq(Frames) /\ Len(<<f>>) = 1 /\ <<f>>[1] = f /\ <<f>> # <<>>
  OBVIOUS
<1>2. QED
  BY <1>1 DEF Good, Bottom

LEMMA FrameType ==
    ASSUME NEW what \in Whats, NEW try \in Tries
    PROVE  /\ Frame(what, try) \in Frames
           /\ Frame(what, try).what = what /\ Frame(what, try).try = try
<1>1. <<>> \in Seq(LineSet)
  OBVIOUS
<1>2. QED
  BY <1>1 DEF Frame, Frames

-----------------------------------------------------------------------------
(* The record of a call: its frames fit its place; n is the number of      *)
(* shells started.                                                         *)
RecOK(r, n) ==
  /\ r \in CallRec /\ r.at \in 0..n
  /\ r.pc \in Working => Good(r.stack)
  /\ r.pc \in {"idle", "queued", "enter", "done"} => r.stack = <<>>
  /\ r.pc = "lock" => r.stack = <<>> \/ (Good(r.stack) /\ Bottom(r.stack).what = "lock")
  /\ r.pc \in {"wire", "read", "drain"} => r.at # None

\* The command of the call has been written: it is being read, it is not
\* to be tried again, or the call is over.
Sent(r) ==
  \/ r.pc = "done"
  \/ /\ r.pc \in Working /\ Bottom(r.stack).what = "user" /\ Bottom(r.stack).try = "over"
     /\ Len(r.stack) = 1 => r.pc \in {"reset", "closing", "spawn", "wire", "return"}
  \/ /\ r.pc \in {"read", "drain", "return"}
     /\ Bottom(r.stack).what = "user" /\ Len(r.stack) = 1

\* The call holds its lock.
Has(r) == r.pc = "enter" \/ (r.pc \in Working /\ Bottom(r.stack).what = "user")

LEMMA HoldsIff ==
    ASSUME NEW c, RecOK(call[c], shells)
    PROVE  Holds(c) <=> Has(call[c])
<1>1. call[c].pc \in Stages
  BY DEF RecOK, CallRec
<1>2. CASE call[c].pc \in Working
  <2>1. Good(call[c].stack)
    BY <1>2 DEF RecOK
  <2> QED
    BY <1>2, <2>1, GoodLen DEF Holds, Inside, Has, Good, Bottom, Working
<1>3. CASE call[c].pc \notin Working
  BY <1>1, <1>3 DEF Holds, Inside, Has, Working, Stages
<1>4. QED
  BY <1>2, <1>3

\* One step of one call: its record stays fit, it does not forget that its
\* command was written, nor does it gain a lock or wait for one.
Goes1(r, q, n) == /\ RecOK(q, n) /\ q.pc # "queued"
                  /\ Sent(r) => Sent(q)
                  /\ Has(q) => Has(r) /\ q.lock = r.lock

-----------------------------------------------------------------------------
(* What the steps of a call do to its record.                              *)

Recs == call \in [Call -> CallRec] /\ \A c \in Call : RecOK(call[c], shells)

\* Only the record of c changes, and not against Goes1.
Step(c) == /\ call' \in [Call -> CallRec]
           /\ \A d \in Call \ {c} : call'[d] = call[d]
           /\ Goes1(call[c], call'[c], shells')

LEMMA Places == Working \subseteq Stages /\ "lock" \in Stages
BY DEF Working, Stages

LEMMA RecordMoves ==
    ASSUME NEW r \in CallRec, NEW p \in Stages, NEW a \in Nat, NEW s \in Seq(Frames)
    PROVE  /\ [r EXCEPT !.pc = p, !.at = a] \in CallRec
           /\ [r EXCEPT !.pc = p, !.stack = s] \in CallRec
           /\ [r EXCEPT !.stack = s, !.pc = p] \in CallRec
           /\ [r EXCEPT !.pc = p, !.at = a, !.stack = s] \in CallRec
BY DEF CallRec

\* It moves to another place, its frames unchanged.
LEMMA MovesOn ==
    ASSUME NEW r, NEW n \in Nat, RecOK(r, n), NEW p \in Working, NEW a \in 0..n,
           r.pc \in Working, p \in {"wire", "read", "drain"} => a # None,
           \/ p = "return" /\ r.pc \in {"read", "drain"}
           \/ p = r.pc
           \/ p \in {"closing", "spawn", "wire"} /\ r.pc \in {"reset", "closing", "spawn"}
           \/ p = "read" /\ r.pc = "send"
           \/ p = "drain" /\ r.pc = "read"
    PROVE  Goes1(r, [r EXCEPT !.pc = p, !.at = a], n)
<1> DEFINE q == [r EXCEPT !.pc = p, !.at = a]
<1>1. r \in CallRec /\ Good(r.stack)
  BY DEF RecOK
<1>2. /\ q \in CallRec /\ q.stack = r.stack /\ q.pc = p /\ q.at = a /\ q.lock = r.lock
  <2>1. p \in Stages /\ a \in Nat /\ r.stack \in Seq(Frames)
    BY <1>1, Places DEF Good
  <2>2. q \in CallRec
    BY <1>1, <2>1, RecordMoves
  <2> QED
    BY <1>1, <2>2 DEF CallRec
<1> HIDE DEF q
<1>3. RecOK(q, n)
  BY <1>1, <1>2 DEF RecOK, Working
<1>4. Sent(r) => Sent(q)
  BY <1>2 DEF Sent, Working
<1>5. Has(q) => Has(r) /\ q.lock = r.lock
  BY <1>2 DEF Has, Working
<1>6. q.pc # "queued"
  BY <1>2 DEF Working
<1>7. QED
  BY <1>3, <1>4, <1>5, <1>6 DEF Goes1, q

\* The frame on top changes too: the shell is to be started anew, or what
\* is read is noted.
LEMMA Touches ==
    ASSUME NEW r, NEW n \in Nat, RecOK(r, n), NEW p \in Working, NEW a \in 0..n, NEW f \in Frames,
           r.pc \in Working, p \in {"wire", "read", "drain"} => a # None,
           f.what = r.stack[1].what,
           \/ p = "reset" /\ r.pc = "send"
           \/ p = "reset" /\ r.pc = "drain" /\ f.try = "over"
           \/ p = "read" /\ r.pc = "read" /\ f.try = r.stack[1].try
           \/ p \in {"return", "drain"} /\ r.pc = "read" /\ f.try = r.stack[1].try
    PROVE  Goes1(r, [r EXCEPT !.pc = p, !.at = a, !.stack = [r.stack EXCEPT ![1] = f]], n)
<1> DEFINE s == [r.stack EXCEPT ![1] = f]
           q == [r EXCEPT !.pc = p, !.at = a, !.stack = s]
<1>1. r \in CallRec /\ Good(r.stack)
  BY DEF RecOK
<1>2. Good(s) /\ Len(s) = Len(r.stack) /\ Bottom(s) = IF Len(r.stack) = 1 THEN f ELSE Bottom(r.stack)
  BY <1>1, GoodTouch
<1> HIDE DEF s
<1>3. /\ q \in CallRec /\ q.stack = s /\ q.pc = p /\ q.at = a /\ q.lock = r.lock
  <2>1. p \in Stages /\ a \in Nat /\ s \in Seq(Frames)
    BY <1>2, Places DEF Good
  <2>2. q \in CallRec
    BY <1>1, <2>1, RecordMoves
  <2> QED
    BY <1>1, <2>2 DEF CallRec
<1> HIDE DEF q
<1>4. RecOK(q, n)
  BY <1>2, <1>3 DEF RecOK, Working
<1>5. Len(r.stack) = 1 => Bottom(r.stack) = r.stack[1]
  BY DEF Bottom
<1>6. Bottom(s).what = Bottom(r.stack).what
  BY <1>2, <1>5
<1>7. Sent(r) => Sent(q)
  BY <1>2, <1>3, <1>5, <1>6 DEF Sent, Working
<1>8. Has(q) => Has(r) /\ q.lock = r.lock
  BY <1>3, <1>6 DEF Has, Working
<1>9. QED
  BY <1>4, <1>7, <1>8 DEF Goes1, q, s

\* A sentinel or an init command is put on top.
LEMMA Pushes ==
    ASSUME NEW r, NEW n \in Nat, RecOK(r, n), NEW p \in Working, NEW f \in Frames,
           f.what \in {"startup", "init"}, NEW s, Good(s), Bottom(s) = Bottom(r.stack),
           \/ p = "read" /\ r.pc = "wire" /\ s = r.stack
           \/ p = "send" /\ r.pc = "return" /\ Len(s) = Len(r.stack) - 1
    PROVE  Goes1(r, [r EXCEPT !.pc = p, !.stack = <<f>> \o s], n)
<1> DEFINE u == <<f>> \o s
           q == [r EXCEPT !.pc = p, !.stack = u]
<1>1. r \in CallRec /\ Good(r.stack) /\ (p = "read" => r.at # None)
  BY DEF RecOK, Working
<1>2. Good(u) /\ Len(u) = Len(s) + 1 /\ Bottom(u) = Bottom(r.stack) /\ Len(s) \in Nat \ {0}
  BY GoodPush, GoodLen
<1>3. Len(u) # 1 /\ Len(r.stack) \in Nat
  BY <1>1, <1>2, GoodLen
<1> HIDE DEF u
<1>4. /\ q \in CallRec /\ q.stack = u /\ q.pc = p /\ q.at = r.at /\ q.lock = r.lock
  BY <1>1, <1>2 DEF CallRec, Working, Stages, Good
<1> HIDE DEF q
<1>5. RecOK(q, n)
  BY <1>1, <1>2, <1>4 DEF RecOK, Working
<1>6. Sent(r) => Sent(q)
  <2>1. CASE p = "read"
    BY <1>1, <1>2, <1>3, <1>4, <2>1 DEF Sent, Working
  <2>2. CASE p = "send"
    <3>0. Len(s) = Len(r.stack) - 1 /\ r.pc = "return"
      BY <2>2
    <3>1. Len(r.stack) # 1 /\ r.pc = "return"
      BY <1>2, <1>3, <3>0
    <3> QED
      BY <1>2, <1>3, <1>4, <2>2, <3>1 DEF Sent, Working
  <2> QED
    BY <2>1, <2>2
<1>7. Has(q) => Has(r) /\ q.lock = r.lock
  BY <1>2, <1>4 DEF Has, Working
<1>8. QED
  BY <1>5, <1>6, <1>7 DEF Goes1, q, u

\* The read below the top frame goes on.
LEMMA Pops ==
    ASSUME NEW r, NEW n \in Nat, RecOK(r, n), r.pc = "return", r.stack[1].what \in {"startup", "init"}
    PROVE  LET s == Tail(r.stack)
               p == IF Head(s).what = "lock" THEN "lock"
                    ELSE IF Head(s).try = "over" THEN "return" ELSE "send"
           IN Goes1(r, [r EXCEPT !.stack = s, !.pc = p], n)
<1> DEFINE s == Tail(r.stack)
           p == IF Head(s).what = "lock" THEN "lock"
                ELSE IF Head(s).try = "over" THEN "return" ELSE "send"
           q == [r EXCEPT !.stack = s, !.pc = p]
<1>1. r \in CallRec /\ Good(r.stack)
  BY DEF RecOK, Working
<1>2. Good(s) /\ Len(s) = Len(r.stack) - 1 /\ Bottom(s) = Bottom(r.stack) /\ Len(r.stack) \in Nat
  BY <1>1, GoodPop
<1> HIDE DEF s
<1>3. Head(s) = s[1] /\ 1 \in 1..Len(s) /\ Len(s) \in Nat \ {0}
  BY <1>2, GoodLen
<1>4. s[1].what \in {"user", "lock"} => Len(s) = 1
  BY <1>2, <1>3 DEF Good
<1>5. p \in {"lock", "return", "send"}
  OBVIOUS
<1>6. /\ q \in CallRec /\ q.stack = s /\ q.pc = p /\ q.at = r.at /\ q.lock = r.lock
  BY <1>1, <1>2, <1>5 DEF CallRec, Stages, Good
<1>7. Len(s) = 1 => Bottom(s) = s[1]
  BY DEF Bottom
<1>8. p = "lock" => Bottom(s).what = "lock"
  BY <1>3, <1>4, <1>7
<1>9. Bottom(s).what = "user" => p # "lock"
  BY <1>8
<1>10. Bottom(s).try = "over" /\ Len(s) = 1 /\ p # "lock" => p = "return"
  BY <1>3, <1>7
<1> HIDE DEF p, q
<1>11. RecOK(q, n)
  BY <1>1, <1>2, <1>5, <1>6, <1>8 DEF RecOK, Working
<1>12. Sent(r) => Sent(q)
  <2>1. Len(r.stack) # 1
    BY <1>2, <1>3
  <2> SUFFICES ASSUME Sent(r) PROVE Sent(q)
    OBVIOUS
  <2>2. Bottom(s).what = "user" /\ Bottom(s).try = "over"
    BY <1>2, <2>1 DEF Sent
  <2>3. p \in {"return", "send"} /\ (Len(s) = 1 => p = "return")
    BY <1>5, <1>9, <1>10, <2>2
  <2> QED
    BY <1>6, <2>2, <2>3 DEF Sent, Working
<1>13. Has(q) => Has(r) /\ q.lock = r.lock
  BY <1>2, <1>5, <1>6 DEF Has, Working
<1>14. q.pc # "queued"
  BY <1>5, <1>6
<1>15. QED
  BY <1>11, <1>12, <1>13, <1>14 DEF Goes1, q, p, s

LEMMA Fresh1 ==
    ASSUME NEW r, NEW n \in Nat
    PROVE  Goes1(r, Fresh("done"), n)
<1>1. <<>> \in Seq(Frames)
  OBVIOUS
<1>2. QED
  BY <1>1 DEF Goes1, Fresh, RecOK, CallRec, Stages, None, Sent, Has, Working

-----------------------------------------------------------------------------
(* The steps of the calls.                                                 *)

\* An update of one call, in the form the lemmas above have.
LEMMA StepFrom ==
    ASSUME World, Recs, NEW c \in Call, NEW q, Goes1(call[c], q, shells'),
           call' = [call EXCEPT ![c] = q]
    PROVE  Step(c)
<1>1. q \in CallRec
  BY DEF Goes1, RecOK
<1>2. QED
  BY <1>1 DEF Step, Recs

LEMMA TopFacts ==
    ASSUME Recs, NEW c \in Call, call[c].pc \in Working
    PROVE  /\ call[c] \in CallRec /\ RecOK(call[c], shells) /\ Good(call[c].stack)
           /\ Top(c) = call[c].stack[1] /\ call[c].stack[1] \in Frames /\ 1 \in DOMAIN call[c].stack
BY GoodLen DEF Recs, RecOK, Top, Good

LEMMA TriesReset ==
    ASSUME World, Recs, NEW c \in Call, NEW try \in Tries, call' = SetTry(c, try), shells' = shells,
           \/ call[c].pc = "send"
           \/ call[c].pc = "drain" /\ try = "over"
    PROVE  Step(c)
<1> DEFINE r == call[c]
           f == [r.stack[1] EXCEPT !.try = try]
           q == [r EXCEPT !.pc = "reset", !.at = r.at, !.stack = [r.stack EXCEPT ![1] = f]]
<1>1. r.pc \in Working /\ "reset" \in Working
  BY DEF Working
<1>2. r \in CallRec /\ RecOK(r, shells) /\ Top(c) = r.stack[1] /\ r.stack[1] \in Frames
  BY <1>1, TopFacts
<1>3. f \in Frames /\ f.what = r.stack[1].what /\ f.try = try
  BY <1>2 DEF Frames
<1>4. call' = [call EXCEPT ![c] = q]
  BY <1>2 DEF SetTry, CallRec
<1>5. r.at \in 0..shells /\ shells \in Nat
  BY <1>2 DEF RecOK, World
<1> HIDE DEF f
<1>6. Goes1(r, q, shells)
  BY <1>1, <1>2, <1>3, <1>5, Touches
<1>7. QED
  BY <1>4, <1>6, StepFrom

LEMMA GoesTo ==
    ASSUME World, Recs, NEW c \in Call, NEW p \in Working, NEW a \in 0..shells', shells' \in {shells, shells + 1},
           call[c].pc \in Working, p \in {"wire", "read", "drain"} => a # None,
           \/ p = "return" /\ call[c].pc \in {"read", "drain"}
           \/ p = call[c].pc
           \/ p \in {"closing", "spawn", "wire"} /\ call[c].pc \in {"reset", "closing", "spawn"}
           \/ p = "read" /\ call[c].pc = "send"
           \/ p = "drain" /\ call[c].pc = "read",
           call' = [call EXCEPT ![c].pc = p, ![c].at = a]
    PROVE  Step(c)
<1> DEFINE r == call[c]
           q == [r EXCEPT !.pc = p, !.at = a]
<1>1. r \in CallRec /\ RecOK(r, shells') /\ shells' \in Nat
  BY TopFacts DEF RecOK, World
<1>2. call' = [call EXCEPT ![c] = q]
  OBVIOUS
<1>3. Goes1(r, q, shells')
  BY <1>1, MovesOn
<1>4. QED
  BY <1>2, <1>3, StepFrom

\* The same where only the place changes.
LEMMA GoesOn ==
    ASSUME World, Recs, NEW c \in Call, NEW p \in Working, shells' = shells,
           call[c].pc \in Working, p \in {"wire", "read", "drain"} => call[c].at # None,
           \/ p = "return" /\ call[c].pc \in {"read", "drain"}
           \/ p = call[c].pc
           \/ p \in {"closing", "spawn"} /\ call[c].pc \in {"reset", "closing"},
           Goto(c, p)
    PROVE  Step(c)
<1>1. call[c] \in CallRec /\ call[c].at \in 0..shells
  BY TopFacts DEF RecOK
<1>2. call' = [call EXCEPT ![c].pc = p, ![c].at = call[c].at]
  BY <1>1 DEF Goto, CallRec
<1>3. QED
  BY <1>1, <1>2, GoesTo

LEMMA Stops ==
    ASSUME World, Recs, NEW c \in Call, call' = [call EXCEPT ![c] = Fresh("done")], shells' = shells
    PROVE  Step(c)
<1>1. shells \in Nat
  BY DEF World
<1>2. QED
  BY <1>1, Fresh1, StepFrom

LEMMA BeginStep == ASSUME World, Recs, NEW c \in Call, Begin(c) PROVE Step(c)
<1> DEFINE r == call[c]
<1>1. r \in CallRec /\ RecOK(r, shells) /\ r.pc = "idle" /\ r.stack = <<>> /\ shells' = shells /\ shells \in Nat
  BY DEF Recs, RecOK, Begin, At, world, World
<1>2. CASE started
  <2> DEFINE q == [r EXCEPT !.pc = "lock"]
  <2>1. call' = [call EXCEPT ![c] = q]
    BY <1>2 DEF Begin, Goto
  <2>2. q \in CallRec /\ q.pc = "lock" /\ q.stack = <<>> /\ q.at = r.at
    BY <1>1, Places DEF CallRec
  <2> HIDE DEF q
  <2>3. Goes1(r, q, shells)
    BY <1>1, <2>2 DEF Goes1, RecOK, Sent, Has, Working
  <2> QED
    BY <1>1, <2>1, <2>3, StepFrom
<1>3. CASE ~started
  <2> DEFINE f == Frame("lock", "none")
             q == [r EXCEPT !.pc = "spawn", !.stack = <<f>>]
  <2>1. call' = [call EXCEPT ![c] = q]
    BY <1>3 DEF Begin
  <2>2. Good(<<f>>) /\ Bottom(<<f>>) = f /\ f.what = "lock"
    BY FrameType, GoodOne DEF Whats, Tries
  <2> HIDE DEF f
  <2>3. q \in CallRec /\ q.pc = "spawn" /\ q.stack = <<f>> /\ q.at = r.at
    BY <1>1, <2>2, Places DEF CallRec, Good, Working
  <2> HIDE DEF q
  <2>4. Goes1(r, q, shells)
    BY <1>1, <2>2, <2>3 DEF Goes1, RecOK, Sent, Has, Working
  <2> QED
    BY <1>1, <2>1, <2>4, StepFrom
<1>4. QED
  BY <1>2, <1>3

LEMMA EnterStep == ASSUME World, Recs, NEW c \in Call, Enter(c) PROVE Step(c)
<1> DEFINE r == call[c]
           f == Frame("user", "check")
           p == IF started THEN "send" ELSE "spawn"
           q == [r EXCEPT !.pc = p, !.stack = <<f>>]
<1>1. r \in CallRec /\ RecOK(r, shells) /\ r.pc = "enter" /\ r.stack = <<>> /\ shells' = shells /\ shells \in Nat
  BY DEF Recs, RecOK, Enter, At, world, World
<1>2. call' = [call EXCEPT ![c] = q]
  BY DEF Enter
<1>3. Good(<<f>>) /\ Bottom(<<f>>) = f /\ f.what = "user"
  BY FrameType, GoodOne DEF Whats, Tries
<1>4. p \in {"send", "spawn"}
  OBVIOUS
<1> HIDE DEF f, p
<1>5. q \in CallRec /\ q.pc = p /\ q.stack = <<f>> /\ q.at = r.at /\ q.lock = r.lock
  BY <1>1, <1>3, <1>4, Places DEF CallRec, Good, Working
<1> HIDE DEF q
<1>6. Goes1(r, q, shells)
  BY <1>1, <1>3, <1>4, <1>5 DEF Goes1, RecOK, Sent, Has, Working
<1>7. QED
  BY <1>1, <1>2, <1>6, StepFrom

LEMMA LeaveStep ==
    ASSUME World, Recs, NEW c \in Call, NEW kind, Leave(c, kind), shells' = shells
    PROVE  Step(c)
BY Stops DEF Leave

LEMMA SendStep ==
    ASSUME World, Recs, NEW c \in Call,
           SendFindsDead(c) \/ Write(c) \/ WriteBroken(c) \/ WriteLost(c) \/ SendGivesUp(c)
    PROVE  Step(c)
<1>1. call[c].pc = "send" /\ shells' = shells /\ "send" \in Working /\ "read" \in Working
  BY DEF SendFindsDead, Write, WriteBroken, WriteLost, SendGivesUp, Raise, At, world, Working
<1>2. CASE SendFindsDead(c) \/ WriteBroken(c)
  BY <1>1, <1>2, TriesReset DEF SendFindsDead, WriteBroken, Tries
<1>3. CASE Write(c) \/ WriteLost(c)
  <2>1. call' = [call EXCEPT ![c].pc = "read", ![c].at = ctrl] /\ ctrl # None /\ ctrl \in 0..shells
    BY <1>3 DEF Write, WriteLost, Missing, World
  <2> QED
    BY <1>1, <2>1, GoesTo
<1>4. CASE SendGivesUp(c)
  BY <1>1, <1>4, LeaveStep DEF SendGivesUp, Raise
<1>5. QED
  BY <1>2, <1>3, <1>4

LEMMA StartStep ==
    ASSUME World, Recs, NEW c \in Call, Reset(c) \/ CloseEnds(c) \/ Spawn(c) \/ SpawnFails(c)
    PROVE  Step(c)
<1>1. call[c].pc \in {"reset", "closing", "spawn"} /\ {"reset", "closing", "spawn", "wire"} \subseteq Working
  BY DEF Reset, CloseEnds, Spawn, SpawnFails, At, Working
<1>2. CASE Reset(c)
  <2>1. call[c].pc = "reset" /\ shells' = shells /\ \E p \in {"closing", "spawn"} : Goto(c, p)
    BY <1>2 DEF Reset, At
  <2> QED
    BY <1>1, <2>1, GoesOn
<1>3. CASE CloseEnds(c)
  <2>1. call[c].pc = "closing" /\ shells' = shells /\ Goto(c, "spawn")
    BY <1>3 DEF CloseEnds, At, world
  <2> QED
    BY <1>1, <2>1, GoesOn
<1>4. CASE Spawn(c)
  <2>1. /\ call[c].pc = "spawn" /\ shells' = shells + 1
        /\ call' = [call EXCEPT ![c].pc = "wire", ![c].at = shells + 1]
        /\ shells + 1 \in 0..shells' /\ shells + 1 # None
    BY <1>4 DEF Spawn, At, World, None
  <2> QED
    BY <1>1, <2>1, GoesTo
<1>5. CASE SpawnFails(c)
  BY <1>5, LeaveStep DEF SpawnFails, Raise, world
<1>6. QED
  BY <1>2, <1>3, <1>4, <1>5

LEMMA WireStep == ASSUME World, Recs, NEW c \in Call, Wire(c) PROVE Step(c)
<1> DEFINE r == call[c]
           f == Frame("startup", "none")
           q == [r EXCEPT !.pc = "read", !.stack = <<f>> \o r.stack]
<1>1. r.pc = "wire" /\ shells' = shells /\ shells \in Nat /\ r.pc \in Working /\ "read" \in Working
  BY DEF Wire, At, Working, World
<1>2. r \in CallRec /\ RecOK(r, shells) /\ Good(r.stack)
  BY <1>1, TopFacts
<1>3. call' = [call EXCEPT ![c] = q] \/ \E k \in Kinds : Leave(c, k)
  BY DEF Wire, Kinds
<1>4. f \in Frames /\ f.what = "startup"
  BY FrameType DEF Whats, Tries
<1> HIDE DEF f
<1>5. Goes1(r, q, shells)
  BY <1>1, <1>2, <1>4, Pushes
<1>6. QED
  BY <1>1, <1>3, <1>5, StepFrom, LeaveStep

LEMMA LinesType ==
    ASSUME World, Recs, NEW c \in Call, call[c].pc \in {"read", "drain"}
    PROVE  call[c].at \in Shell /\ Lines(c) \in Seq(LineSet)
<1>1. call[c].at \in 0..shells /\ call[c].at # None /\ shells \in 0..MaxShell
  BY DEF Recs, RecOK, World
<1>2. call[c].at \in Shell
  BY <1>1, ConstantsAssumption DEF Shell, None
<1>3. QED
  BY <1>2 DEF World, Lines

LEMMA ReadStep ==
    ASSUME World, Recs, NEW c \in Call,
           ReadLine(c) \/ ReadEnds(c) \/ Collide(c) \/ Timeout(c) \/ DrainLine(c) \/ GiveUp(c)
    PROVE  Step(c)
<1> DEFINE r == call[c]
<1>1. /\ r.pc \in {"read", "drain"} /\ shells' = shells /\ shells \in Nat
      /\ {"read", "drain", "return", "reset"} \subseteq Working
  BY DEF ReadLine, ReadEnds, Collide, Timeout, DrainLine, GiveUp, At, Working, World, world, Raise
<1>2. /\ r \in CallRec /\ RecOK(r, shells) /\ Good(r.stack) /\ r.stack[1] \in Frames /\ 1 \in DOMAIN r.stack
      /\ r.at # None /\ r.at \in 0..shells
  BY <1>1, TopFacts DEF RecOK
<1>3. CASE ReadLine(c)
  <2>1. r.pc = "read" /\ Lines(c) # <<>>
    BY <1>3 DEF ReadLine, At
  <2>2. CASE Goto(c, "return")
    BY <1>1, <2>1, <2>2, GoesOn
  <2>3. CASE ~Own(c, Head(Lines(c)))
    <3> DEFINE x == Head(Lines(c))
               f == [r.stack[1] EXCEPT !.lines = IF Len(@) < 2 THEN Append(@, x) ELSE @]
               q == [r EXCEPT !.pc = "read", !.at = r.at, !.stack = [r.stack EXCEPT ![1] = f]]
    <3>1. x \in LineSet
      BY <1>1, <2>1, LinesType
    <3>2. call' = [call EXCEPT ![c].stack[1].lines = IF Len(@) < 2 THEN Append(@, x) ELSE @]
      BY <1>3, <2>3 DEF ReadLine
    <3> HIDE DEF x
    <3>3. f \in Frames /\ f.what = r.stack[1].what /\ f.try = r.stack[1].try
      <4>1. r.stack[1].lines \in Seq(LineSet)
        BY <1>2 DEF Frames
      <4>2. Append(r.stack[1].lines, x) \in Seq(LineSet)
        BY <3>1, <4>1
      <4> QED
        BY <1>2, <4>1, <4>2 DEF Frames
    <3>4. call' = [call EXCEPT ![c] = q]
      BY <1>2, <2>1, <3>2 DEF CallRec
    <3> HIDE DEF f
    <3>5. Goes1(r, q, shells)
      BY <1>1, <1>2, <2>1, <3>3, Touches
    <3> QED
      BY <1>1, <3>4, <3>5, StepFrom
  <2> QED
    BY <1>3, <2>2, <2>3 DEF ReadLine
<1>4. CASE ReadEnds(c)
  <2>1. r.pc = "read" /\ Goto(c, "return")
    BY <1>4 DEF ReadEnds, At
  <2> QED
    BY <1>1, <2>1, GoesOn
<1>5. CASE Collide(c)
  BY <1>1, <1>5, LeaveStep DEF Collide, Raise
<1>6. CASE Timeout(c)
  <2>1. CASE Raise(c)
    BY <1>1, <2>1, LeaveStep DEF Raise
  <2>2. CASE ~(process # None /\ ctrl = None)
    <3> DEFINE p == IF process = None THEN "return" ELSE "drain"
               a == IF process = None THEN r.at ELSE ctrl
               f == [r.stack[1] EXCEPT !.timedOut = TRUE]
               q == [r EXCEPT !.pc = p, !.at = a, !.stack = [r.stack EXCEPT ![1] = f]]
    <3>1. call' = [call EXCEPT ![c] = q]
      <4>1. call' = [call EXCEPT ![c].pc = p, ![c].stack[1].timedOut = TRUE,
                                 ![c].at = IF process = None THEN @ ELSE ctrl]
        BY <1>6, <2>2 DEF Timeout
      <4>2. CASE process = None
        BY <1>2, <4>1, <4>2 DEF CallRec
      <4>3. CASE process # None
        BY <1>2, <4>1, <4>3 DEF CallRec
      <4> QED
        BY <4>2, <4>3
    <3>2. f \in Frames /\ f.what = r.stack[1].what /\ f.try = r.stack[1].try
      BY <1>2 DEF Frames
    <3>3. p \in {"return", "drain"} /\ a \in 0..shells /\ a # None /\ r.pc = "read"
      BY <1>2, <1>6, <2>2 DEF World, Timeout, At
    <3> HIDE DEF p, a, f
    <3>4. Goes1(r, q, shells)
      BY <1>1, <1>2, <3>2, <3>3, Touches
    <3> QED
      BY <1>1, <3>1, <3>4, StepFrom
  <2> QED
    BY <1>6, <2>1, <2>2 DEF Timeout
<1>7. CASE DrainLine(c)
  <2>1. r.pc = "drain" /\ \E p \in {"return", "drain"} : Goto(c, p)
    BY <1>7 DEF DrainLine, At
  <2> QED
    BY <1>1, <1>2, <2>1, GoesOn
<1>8. CASE GiveUp(c)
  BY <1>1, <1>8, TriesReset DEF GiveUp, At, Tries
<1>9. QED
  BY <1>3, <1>4, <1>5, <1>6, <1>7, <1>8

LEMMA ResumeStep ==
    ASSUME World, Recs, NEW c \in Call, shells' = shells, call[c].pc = "return",
           Top(c).what \in {"startup", "init"}, Resume(c, Under(c))
    PROVE  Step(c)
<1> DEFINE r == call[c]
           s == Tail(r.stack)
           p == IF Head(s).what = "lock" THEN "lock"
                ELSE IF Head(s).try = "over" THEN "return" ELSE "send"
           q == [r EXCEPT !.stack = s, !.pc = p]
<1>1. RecOK(r, shells) /\ Top(c) = r.stack[1] /\ shells \in Nat
  BY TopFacts DEF Working, World
<1>2. call' = [call EXCEPT ![c] = q]
  BY DEF Resume, Under
<1>3. Goes1(r, q, shells)
  BY <1>1, Pops
<1>4. QED
  BY <1>2, <1>3, StepFrom

LEMMA ReturnStep ==
    ASSUME World, Recs, NEW c \in Call, ReturnStartup(c) \/ ReturnInit(c) \/ ReturnUser(c)
    PROVE  Step(c)
<1> DEFINE r == call[c]
<1>1. r.pc = "return" /\ shells' = shells /\ shells \in Nat /\ r.pc \in Working /\ "send" \in Working
  BY DEF ReturnStartup, ReturnInit, ReturnUser, At, world, Working, World
<1>2. RecOK(r, shells) /\ Good(r.stack) /\ Top(c) = r.stack[1]
  BY <1>1, TopFacts
<1>3. CASE ReturnStartup(c)
  <2>1. Top(c).what = "startup"
    BY <1>3 DEF ReturnStartup
  <2>2. CASE Resume(c, Under(c))
    BY <1>1, <2>1, <2>2, ResumeStep
  <2>3. CASE call' = [call EXCEPT ![c].pc = "send", ![c].stack = <<Frame("init", "check")>> \o Under(c)]
    <3> DEFINE f == Frame("init", "check")
               s == Tail(r.stack)
               q == [r EXCEPT !.pc = "send", !.stack = <<f>> \o s]
    <3>1. call' = [call EXCEPT ![c] = q]
      BY <2>3 DEF Under
    <3>2. f \in Frames /\ f.what = "init"
      BY FrameType DEF Whats, Tries
    <3>3. Good(s) /\ Len(s) = Len(r.stack) - 1 /\ Bottom(s) = Bottom(r.stack)
      BY <1>2, <2>1, GoodPop
    <3> HIDE DEF f, s
    <3>4. Goes1(r, q, shells)
      BY <1>1, <1>2, <3>2, <3>3, Pushes
    <3> QED
      BY <1>1, <3>1, <3>4, StepFrom
  <2> QED
    BY <1>3, <2>2, <2>3 DEF ReturnStartup
<1>4. CASE ReturnInit(c)
  BY <1>1, <1>4, ResumeStep DEF ReturnInit
<1>5. CASE ReturnUser(c)
  BY <1>1, <1>5, Stops DEF ReturnUser
<1>6. QED
  BY <1>3, <1>4, <1>5

LEMMA CancelStep == ASSUME World, Recs, NEW c \in Call, Cancel(c) PROVE Step(c)
<1>1. shells' = shells /\ \E k \in Kinds : Leave(c, k)
  BY DEF Cancel, world, Kinds
<1>2. QED
  BY <1>1, LeaveStep

-----------------------------------------------------------------------------
(* The queue of the lock.                                                  *)

Distinct(s) == \A i, j \in DOMAIN s : s[i] = s[j] => i = j

Row == /\ queue \in Seq(Call) /\ Distinct(queue)
       /\ Queued = {c \in Call : call[c].pc = "queued"}

LEMMA Removal ==
    ASSUME queue \in Seq(Call), Distinct(queue), NEW i \in DOMAIN queue
    PROVE  LET r == WithoutAt(i)
           IN r \in Seq(Call) /\ Distinct(r) /\ {r[k] : k \in DOMAIN r} = Queued \ {queue[i]}
<1> DEFINE r == WithoutAt(i)
           n == Len(queue)
           Old(k) == IF k < i THEN k ELSE k + 1
<1>1. n \in Nat /\ DOMAIN queue = 1..n /\ i \in 1..n /\ n - 1 \in Nat
  OBVIOUS
<1>2. \A k \in 1..(n - 1) : Old(k) \in 1..n /\ Old(k) # i
  BY <1>1
<1>3. \A k \in 1..n : k # i => \E j \in 1..(n - 1) : Old(j) = k
  <2> SUFFICES ASSUME NEW k \in 1..n, k # i PROVE \E j \in 1..(n - 1) : Old(j) = k
    OBVIOUS
  <2>1. CASE k < i
    <3>1. k \in 1..(n - 1) /\ Old(k) = k
      BY <1>1, <2>1
    <3> QED
      BY <3>1
  <2>2. CASE ~(k < i)
    <3>1. k - 1 \in 1..(n - 1) /\ ~(k - 1 < i) /\ (k - 1) + 1 = k
      BY <1>1, <2>2
    <3>2. Old(k - 1) = k
      BY <3>1
    <3> QED
      BY <3>1, <3>2
  <2> QED
    BY <2>1, <2>2
<1>4. \A k, j \in 1..(n - 1) : Old(k) = Old(j) => k = j
  BY <1>1
<1>5. r = [k \in 1..(n - 1) |-> queue[Old(k)]]
  BY DEF WithoutAt
<1> HIDE DEF r, Old
<1>6. \A k \in 1..(n - 1) : queue[Old(k)] \in Call
  BY <1>1, <1>2
<1>7. r \in Seq(Call) /\ DOMAIN r = 1..(n - 1)
  BY <1>1, <1>5, <1>6
<1>8. Distinct(r)
  BY <1>1, <1>2, <1>4, <1>5, <1>7 DEF Distinct
<1>9. ASSUME NEW x PROVE x \in {r[k] : k \in DOMAIN r} <=> x \in Queued \ {queue[i]}
  <2>1. ASSUME x \in {r[k] : k \in DOMAIN r} PROVE x \in Queued \ {queue[i]}
    BY <1>1, <1>2, <1>5, <1>7, <2>1 DEF Queued, Distinct
  <2>2. ASSUME x \in Queued \ {queue[i]} PROVE x \in {r[k] : k \in DOMAIN r}
    <3>1. PICK k \in 1..n : queue[k] = x
      BY <1>1, <2>2 DEF Queued
    <3>2. k # i
      BY <2>2, <3>1
    <3>3. PICK j \in 1..(n - 1) : Old(j) = k
      BY <1>3, <3>1, <3>2
    <3> QED
      BY <1>5, <1>7, <3>1, <3>3
  <2> QED
    BY <2>1, <2>2
<1>10. QED
  BY <1>7, <1>8, <1>9 DEF r

LEMMA RowKept ==
    ASSUME Recs, Row, NEW c \in Call, Step(c), queue' = queue, call[c].pc # "queued"
    PROVE  Row'
<1>1. \A d \in Call : call'[d].pc = "queued" <=> call[d].pc = "queued"
  BY DEF Step, Goes1
<1>2. QED
  BY <1>1 DEF Row, Queued

LEMMA RowCancel ==
    ASSUME Recs, Row, NEW c \in Call, Cancel(c), Step(c)
    PROVE  Row'
<1>1. \A d \in Call : call'[d].pc = "queued" <=> call[d].pc = "queued" /\ d # c
  BY DEF Step, Goes1
<1>2. queue' = Withdrawn(c)
  BY DEF Cancel
<1>3. CASE c \in Queued
  <2> DEFINE i == CHOOSE k \in DOMAIN queue : queue[k] = c
  <2>1. i \in DOMAIN queue /\ queue[i] = c
    BY <1>3 DEF Queued
  <2>2. queue' = WithoutAt(i)
    BY <1>2, <1>3 DEF Withdrawn
  <2> HIDE DEF i
  <2>3. queue' \in Seq(Call) /\ Distinct(queue') /\ {queue'[k] : k \in DOMAIN queue'} = Queued \ {c}
    BY <2>1, <2>2, Removal DEF Row
  <2> QED
    BY <1>1, <2>3 DEF Row, Queued
<1>4. CASE c \notin Queued
  BY <1>1, <1>2, <1>4 DEF Withdrawn, Row, Queued
<1>5. QED
  BY <1>3, <1>4

-----------------------------------------------------------------------------
(* Taking the lock.                                                        *)

\* No two calls hold one lock.
Apart == \A c, d \in Call : c # d /\ Has(call[c]) /\ Has(call[d]) => call[c].lock # call[d].lock

\* A command that was written is not waiting to be.
Sends == given \in [Call -> {0, 1}] /\ \A c \in Call : given[c] = 1 => Sent(call[c])

\* A call takes a lock nobody holds, or waits for one.
Takes(c) ==
  LET q == call'[c]
  IN /\ call' \in [Call -> CallRec]
     /\ \A d \in Call \ {c} : call'[d] = call[d]
     /\ RecOK(q, shells) /\ ~Sent(call[c]) /\ q.pc \in {"enter", "queued"}
     /\ q.pc = "enter" => \A d \in Call \ {c} : Has(call[d]) => call[d].lock # q.lock

LEMMA FreeMeans == ASSUME Recs, NEW l, Free(l)
                   PROVE  \A d \in Call : Has(call[d]) => call[d].lock # l
BY HoldsIff DEF Recs, Free

LEMMA LockStep == ASSUME World, Recs, Row, NEW c \in Call, Lock(c) PROVE Takes(c) /\ Row'
<1> DEFINE now == Free(lock) /\ \A d \in Queued : call[d].lock # lock
           q == [pc |-> IF now THEN "enter" ELSE "queued", stack |-> <<>>, at |-> None, lock |-> lock]
<1>1. /\ call' = [call EXCEPT ![c] = q] /\ queue' = IF now THEN queue ELSE Append(queue, c)
      /\ call[c].pc = "lock"
  BY DEF Lock, At
<1>2. RecOK(call[c], shells) /\ shells \in Nat /\ lock \in Nat
  BY DEF Recs, World
<1>3. now => \A d \in Call : Has(call[d]) => call[d].lock # lock
  BY FreeMeans
<1>4. q.pc \in {"enter", "queued"} /\ q.stack = <<>> /\ q.at = 0 /\ q.lock = lock /\ (q.pc = "enter" <=> now)
  BY DEF None
<1>5. q \in CallRec
  <2>1. <<>> \in Seq(Frames)
    OBVIOUS
  <2> QED
    BY <1>2, <2>1 DEF CallRec, Stages, None
<1> HIDE DEF now, q
<1>6. call' \in [Call -> CallRec] /\ call'[c] = q /\ \A d \in Call \ {c} : call'[d] = call[d]
  BY <1>1, <1>5 DEF Recs
<1>7. RecOK(q, shells)
  BY <1>2, <1>4, <1>5 DEF RecOK, Working
<1>8. ~Sent(call[c])
  BY <1>1 DEF Sent, Working
<1>9. Takes(c)
  BY <1>3, <1>4, <1>6, <1>7, <1>8 DEF Takes
<1>10. Row'
  <2>1. CASE now
    <3>1. \A d \in Call : call'[d].pc = "queued" <=> call[d].pc = "queued"
      BY <1>1, <1>4, <1>6, <2>1
    <3> QED
      BY <1>1, <2>1, <3>1 DEF Row, Queued
  <2>2. CASE ~now
    <3>1. \A d \in Call : call'[d].pc = "queued" <=> call[d].pc = "queued" \/ d = c
      BY <1>1, <1>4, <1>6, <2>2
    <3>2. queue \in Seq(Call) /\ c \notin Queued /\ queue' = Append(queue, c) /\ Distinct(queue)
      BY <1>1, <2>2 DEF Row
    <3>3. /\ queue' \in Seq(Call) /\ DOMAIN queue' = 1..(Len(queue) + 1) /\ Len(queue) \in Nat
          /\ DOMAIN queue = 1..Len(queue)
          /\ \A i \in 1..Len(queue) : queue'[i] = queue[i] /\ queue'[Len(queue) + 1] = c
      BY <3>2
    <3>4. queue'[Len(queue) + 1] = c /\ \A i \in 1..Len(queue) : queue[i] # c
      BY <3>2, <3>3 DEF Queued
    <3>5. Distinct(queue')
      BY <3>2, <3>3, <3>4 DEF Distinct
    <3>6. \A x : x \in Queued' <=> x \in Queued \/ x = c
      BY <3>3, <3>4 DEF Queued
    <3> QED
      BY <3>1, <3>3, <3>5, <3>6 DEF Row
  <2> QED
    BY <2>1, <2>2
<1>11. QED
  BY <1>9, <1>10

LEMMA GrantedStep == ASSUME World, Recs, Row, NEW c \in Call, Granted(c) PROVE Takes(c) /\ Row'
<1> DEFINE r == call[c]
           q == [r EXCEPT !.pc = "enter"]
<1>1. call' = [call EXCEPT ![c] = q] /\ r.pc = "queued" /\ Free(r.lock)
  BY DEF Granted, Goto, At
<1>2. r \in CallRec /\ RecOK(r, shells)
  BY DEF Recs
<1>3. q \in CallRec /\ q.pc = "enter" /\ q.stack = <<>> /\ q.at = r.at /\ q.lock = r.lock
  BY <1>1, <1>2 DEF CallRec, Stages, RecOK
<1> HIDE DEF q
<1>4. call' \in [Call -> CallRec] /\ call'[c] = q /\ \A d \in Call \ {c} : call'[d] = call[d]
  BY <1>1, <1>3 DEF Recs
<1>5. RecOK(q, shells) /\ ~Sent(r)
  BY <1>1, <1>2, <1>3 DEF RecOK, Working, Sent
<1>6. Takes(c)
  BY <1>1, <1>3, <1>4, <1>5, FreeMeans DEF Takes
<1>7. PICK i \in DOMAIN queue : queue[i] = c /\ queue' = WithoutAt(i)
  BY DEF Granted
<1>8. queue' \in Seq(Call) /\ Distinct(queue') /\ {queue'[k] : k \in DOMAIN queue'} = Queued \ {c}
  BY <1>7, Removal DEF Row
<1>9. \A d \in Call : call'[d].pc = "queued" <=> call[d].pc = "queued" /\ d # c
  BY <1>3, <1>4
<1>10. Row'
  BY <1>8, <1>9 DEF Row, Queued
<1>11. QED
  BY <1>6, <1>10

\* Either way records fit, locks are held by one call each, and a command
\* is not sent again.
LEMMA Kept ==
    ASSUME World, Recs, Apart, Sends, NEW c \in Call, shells' \in {shells, shells + 1},
           \/ Step(c)
           \/ Takes(c) /\ shells' = shells
    PROVE  /\ Recs' /\ Apart'
           /\ given' = given => Sends'
<1>1. call' \in [Call -> CallRec] /\ \A d \in Call \ {c} : call'[d] = call[d]
  BY DEF Step, Takes
<1>2. RecOK(call'[c], shells')
  BY DEF Step, Takes, Goes1
<1>3. \A d \in Call : RecOK(call'[d], shells')
  <2>1. shells \in Nat /\ shells <= shells' /\ shells' \in Nat
    BY DEF World
  <2>2. \A d \in Call : RecOK(call[d], shells) => RecOK(call[d], shells')
    BY <2>1 DEF RecOK
  <2> QED
    BY <1>1, <1>2, <2>2 DEF Recs
<1>4. Recs'
  BY <1>1, <1>3 DEF Recs
<1>5. Apart'
  <2>1. CASE Step(c)
    BY <1>1, <2>1 DEF Apart, Step, Goes1
  <2>2. CASE Takes(c)
    <3>1. call'[c].pc = "queued" => ~Has(call'[c])
      BY DEF Has, Working
    <3>2. call'[c].pc \in {"enter", "queued"}
      BY <2>2 DEF Takes
    <3>3. \A d \in Call \ {c} : Has(call'[c]) /\ Has(call'[d]) => call'[c].lock # call'[d].lock
      BY <1>1, <2>2, <3>1, <3>2 DEF Takes
    <3> QED
      BY <1>1, <3>3 DEF Apart
  <2> QED
    BY <2>1, <2>2
<1>6. given' = given => Sends'
  BY <1>1 DEF Sends, Step, Takes, Goes1
<1>7. QED
  BY <1>4, <1>5, <1>6

\* A script is written for a command that was not written before.
LEMMA WriteSends ==
    ASSUME World, Recs, Sends, NEW c \in Call, Write(c), Step(c)
    PROVE  Sends'
<1>1. /\ call[c].pc = "send" /\ call' = [call EXCEPT ![c].pc = "read", ![c].at = ctrl]
      /\ given' = IF Top(c).what = "user" THEN [given EXCEPT ![c] = @ + 1] ELSE given
  BY DEF Write, At
<1>2. CASE Top(c).what # "user"
  BY <1>1, <1>2 DEF Sends, Step, Goes1
<1>3. CASE Top(c).what = "user"
  <2>1. Good(call[c].stack) /\ Top(c) = call[c].stack[1] /\ call[c] \in CallRec
    BY <1>1, TopFacts DEF Working
  <2>2. Len(call[c].stack) = 1 /\ Bottom(call[c].stack).what = "user"
    BY <1>3, <2>1, GoodLen DEF Good, Bottom
  <2>3. ~Sent(call[c])
    <3> DEFINE r == call[c]
    <3>1. r.pc = "send" /\ Len(r.stack) = 1
      BY <1>1, <2>2
    <3> HIDE DEF r
    <3>2. ~Sent(r)
      BY <3>1 DEF Sent
    <3> QED
      BY <3>2 DEF r
  <2>4. given[c] = 0
    BY <2>3 DEF Sends
  <2>5. given' = [given EXCEPT ![c] = 1]
    BY <1>1, <1>3, <2>4 DEF Sends
  <2>6. call'[c].pc = "read" /\ call'[c].stack = call[c].stack
    BY <1>1, <2>1 DEF Recs, CallRec
  <2>7. Sent(call'[c])
    BY <2>2, <2>6 DEF Sent
  <2> QED
    BY <2>4, <2>5, <2>7 DEF Sends, Step, Goes1
<1>4. QED
  BY <1>2, <1>3
-----------------------------------------------------------------------------
(* The session, the shells and the results keep their types.               *)

LEMMA Watched == ASSUME Watch PROVE disturbed' \in BOOLEAN /\ (Clash' => disturbed') /\ (disturbed => disturbed')
BY DEF Watch

LEMMA SameWorld ==
    ASSUME World, UNCHANGED <<process, ctrl, started, lock>>, UNCHANGED world, Watch,
           inInit' \in BOOLEAN, result' \in [Call -> Results]
    PROVE  World'
<1>1. disturbed' \in BOOLEAN
  BY Watched
<1>2. QED
  BY <1>1 DEF World, world

LEMMA LeaveTypes ==
    ASSUME World, NEW c \in Call, NEW k \in Kinds, Leave(c, k)
    PROVE  inInit' \in BOOLEAN /\ result' \in [Call -> Results]
<1>1. Result(k, Nobody) \in Results
  BY DEF Result, Results
<1>2. QED
  BY <1>1 DEF World, Leave, InitOver

LEMMA RaiseWorld == ASSUME World, NEW c \in Call, Raise(c) PROVE World'
<1>1. inInit' \in BOOLEAN /\ result' \in [Call -> Results]
  BY LeaveTypes DEF Raise, Kinds
<1>2. QED
  BY <1>1, SameWorld DEF Raise

LEMMA CancelWorld == ASSUME World, NEW c \in Call, Cancel(c) PROVE World'
<1>1. \E k \in Kinds : Leave(c, k)
  BY DEF Cancel, Kinds
<1>2. inInit' \in BOOLEAN /\ result' \in [Call -> Results]
  BY <1>1, LeaveTypes
<1>3. QED
  BY <1>2, SameWorld DEF Cancel

LEMMA QuietWorld ==
    ASSUME World, UNCHANGED <<process, ctrl, started, lock, inInit, result>>, UNCHANGED world, Watch
    PROVE  World'
<1>1. inInit' \in BOOLEAN /\ result' \in [Call -> Results]
  BY DEF World
<1>2. QED
  BY <1>1, SameWorld

LEMMA OutcomeType == ASSUME NEW f \in Frames PROVE Outcome(f) \in Results
<1>1. CASE f.timedOut \/ f.lines = <<>>
  BY <1>1 DEF Outcome, Result, Results, Kinds
<1>2. CASE ~f.timedOut /\ f.lines # <<>>
  <2>1. f.lines[1] \in LineSet
    BY <1>2 DEF Frames
  <2>2. f.lines[1].call \in Call
    BY <2>1 DEF LineSet
  <2> QED
    BY <1>2, <2>2 DEF Outcome, Result, Results, Kinds
<1>3. QED
  BY <1>1, <1>2

LEMMA ReportType == ASSUME NEW s \in Scripts PROVE Report(s) \in Seq(LineSet)
<1>1. /\ Line(s.call, s.what, "code") \in LineSet /\ Line(s.call, s.what, "cwd") \in LineSet
      /\ Line(s.call, s.what, "end") \in LineSet
  BY DEF Line, LineSet, Scripts
<1>2. QED
  BY <1>1 DEF Report

LEMMA ShellRange == ASSUME World PROVE 1..shells \subseteq Shell /\ shells \in Nat
BY ConstantsAssumption DEF World, Shell

\* The scripts of a shell: one more, one less, none.
LEMMA Script ==
    ASSUME World, NEW c \in Call, NEW w \in Whats, NEW s \in Shell
    PROVE  [stdin EXCEPT ![s] = Append(@, [call |-> c, what |-> w])] \in [Shell -> Seq(Scripts)]
<1>1. [call |-> c, what |-> w] \in Scripts
  BY DEF Scripts
<1>2. Append(stdin[s], [call |-> c, what |-> w]) \in Seq(Scripts)
  BY <1>1 DEF World
<1>3. QED
  BY <1>2 DEF World

LEMMA NoScript ==
    ASSUME World, NEW s
    PROVE  /\ [t \in Shell |-> IF t = s THEN <<>> ELSE stdin[t]] \in [Shell -> Seq(Scripts)]
           /\ [stdin EXCEPT ![s] = <<>>] \in [Shell -> Seq(Scripts)]
<1>1. <<>> \in Seq(Scripts)
  OBVIOUS
<1>2. QED
  BY <1>1 DEF World

LEMMA WriteWorld == ASSUME World, Recs, NEW c \in Call, Write(c) PROVE World'
<1>1. call[c].pc \in Working /\ process \in Shell
  BY ShellRange DEF Write, At, World, Working
<1>2. Top(c).what \in Whats
  BY <1>1, TopFacts DEF Frames
<1>3. stdin' \in [Shell -> Seq(Scripts)]
  BY <1>1, <1>2, Script DEF Write
<1>4. disturbed' \in BOOLEAN
  BY Watched DEF Write
<1>5. QED
  BY <1>3, <1>4 DEF World, Write, session

LEMMA ClosedTypes ==
    ASSUME World, Closed
    PROVE  process' \in 0..shells /\ started' \in BOOLEAN /\ lock' \in Nat
<1>1. shells \in Nat /\ lock \in Nat
  BY ShellRange DEF World
<1>2. process' = 0 /\ lock' = lock + 1
  BY DEF Closed, None
<1>3. started' \in BOOLEAN
  BY DEF Closed
<1>4. QED
  BY <1>1, <1>2, <1>3

LEMMA ResetWorld == ASSUME World, NEW c \in Call, Reset(c) PROVE World'
<1>1. stdin' \in [Shell -> Seq(Scripts)]
  BY NoScript DEF Reset
<1>2. disturbed' \in BOOLEAN
  BY Watched DEF Reset
<1>3. shells' = shells /\ fd3' = fd3 /\ inInit' = inInit /\ result' = result
  BY DEF Reset
<1>4. process' \in 0..shells /\ started' \in BOOLEAN /\ lock' \in Nat
  <2>1. Closed \/ UNCHANGED <<process, started, lock>>
    BY DEF Reset
  <2> QED
    BY <2>1, ClosedTypes DEF World
<1>5. ctrl' = 0 /\ alive' \subseteq alive /\ closed' = closed \cup ({ctrl} \ {0})
  BY DEF Reset, None, Killed
<1>6. closed' \subseteq 1..shells /\ ctrl' \in 0..shells
  BY <1>5 DEF World
<1>7. QED
  BY <1>1, <1>2, <1>3, <1>4, <1>5, <1>6 DEF World

LEMMA CloseWorld == ASSUME World, NEW c \in Call, CloseEnds(c) PROVE World'
<1>1. process' \in 0..shells /\ started' \in BOOLEAN /\ lock' \in Nat
  BY ClosedTypes DEF CloseEnds
<1>2. disturbed' \in BOOLEAN
  BY Watched DEF CloseEnds
<1>3. QED
  BY <1>1, <1>2 DEF World, CloseEnds, world

LEMMA SpawnWorld == ASSUME World, NEW c \in Call, Spawn(c) PROVE World'
<1>1. shells \in Nat /\ shells < MaxShell /\ shells' = shells + 1 /\ process' = shells + 1 /\ alive' = alive \cup {shells + 1}
  BY DEF World, Spawn
<1>2. shells' \in 0..MaxShell /\ process' \in 0..shells' /\ 0..shells \subseteq 0..shells' /\ 1..shells \subseteq 1..shells'
  BY <1>1, ConstantsAssumption
<1>3. alive' \subseteq 1..shells'
  BY <1>1, <1>2 DEF World
<1>4. disturbed' \in BOOLEAN
  BY Watched DEF Spawn
<1>5. QED
  BY <1>2, <1>3, <1>4 DEF World, Spawn

LEMMA WireWorld == ASSUME World, Recs, NEW c \in Call, Wire(c) PROVE World'
<1>1. ctrl' \in 0..shells /\ started' \in BOOLEAN
  BY DEF Wire, Recs, RecOK
<1>2. disturbed' \in BOOLEAN
  BY Watched DEF Wire
<1>3. stdin' \in [Shell -> Seq(Scripts)]
  <2>1. CASE stdin' = stdin
    BY <2>1 DEF World
  <2>2. CASE process \in alive /\ stdin' = [stdin EXCEPT ![process] = Append(@, [call |-> c, what |-> "startup"])]
    <3>1. process \in Shell /\ "startup" \in Whats
      BY <2>2, ShellRange DEF World, Whats
    <3> QED
      BY <2>2, <3>1, Script
  <2> QED
    BY <2>1, <2>2 DEF Wire
<1>4. inInit' \in BOOLEAN /\ result' \in [Call -> Results]
  <2>1. UNCHANGED <<inInit, result>> \/ \E k \in Kinds : Leave(c, k)
    BY DEF Wire, Kinds
  <2> QED
    BY <2>1, LeaveTypes DEF World
<1>5. QED
  BY <1>1, <1>2, <1>3, <1>4 DEF World, Wire

LEMMA TakeWorld == ASSUME World, Recs, NEW c \in Call, ReadLine(c) \/ DrainLine(c) PROVE World'
<1>1. call[c].pc \in {"read", "drain"} /\ Lines(c) # <<>> /\ Take(c)
  BY DEF ReadLine, DrainLine, At
<1>2. call[c].at \in Shell /\ Lines(c) \in Seq(LineSet)
  BY <1>1, LinesType
<1>3. Tail(Lines(c)) \in Seq(LineSet)
  BY <1>1, <1>2
<1>4. fd3' \in [Shell -> Seq(LineSet)]
  BY <1>1, <1>2, <1>3 DEF Take, Lines, World
<1>5. disturbed' \in BOOLEAN
  BY Watched DEF ReadLine, DrainLine
<1>6. QED
  BY <1>4, <1>5 DEF World, ReadLine, DrainLine, session

LEMMA ReturnWorld ==
    ASSUME World, Recs, NEW c \in Call, ReturnStartup(c) \/ ReturnInit(c) \/ ReturnUser(c)
    PROVE  World'
<1>1. CASE ReturnStartup(c) \/ ReturnInit(c)
  <2>1. inInit' \in BOOLEAN /\ result' \in [Call -> Results]
    BY <1>1 DEF ReturnStartup, ReturnInit, World
  <2> QED
    BY <1>1, <2>1, SameWorld DEF ReturnStartup, ReturnInit
<1>2. CASE ReturnUser(c)
  <2>1. Top(c) \in Frames
    BY <1>2, TopFacts DEF ReturnUser, At, Working
  <2>2. result' \in [Call -> Results] /\ inInit' \in BOOLEAN
    BY <1>2, <2>1, OutcomeType DEF ReturnUser, World, session
  <2> QED
    BY <1>2, <2>2, SameWorld DEF ReturnUser, session
<1>3. QED
  BY <1>1, <1>2
-----------------------------------------------------------------------------
(* The invariant of the turns, the writes and the shells.  What is on the  *)
(* pipes is the matter of Pipe, further below.                             *)

\* What the history notes has been noted.
Seen == Clash => disturbed

\* Whoever is about to start a shell finds none alive, and so does whoever
\* finds the session not started; else the only one is the session's.
Sole == ~disturbed => /\ alive \subseteq {process}
                      /\ \A c \in Call : call[c].pc \in {"closing", "spawn"} => alive = {}
                      /\ ~started /\ (\A c \in Call : call[c].pc # "wire") => alive = {}

Inv == World /\ Recs /\ Sends /\ Apart /\ Row /\ Seen /\ Sole

\* A start beside another call disturbs.
LEMMA Alone ==
    ASSUME Watch, NEW c \in Call, NEW d \in Call, c # d,
           call'[c].pc \in {"reset", "closing", "spawn", "wire"}, call'[d].pc \notin {"idle", "done"}
    PROVE  disturbed'
<1>1. Clash'
  BY DEF Clash, Starting, Active
<1>2. QED
  BY <1>1, Watched

\* A step of c that starts no shell.
LEMMA SoleQuiet ==
    ASSUME World, Recs, Sole, Watch, NEW c \in Call, alive' = alive, process' = process, started' = started,
           \A d \in Call \ {c} : call'[d] = call[d], call'[c].pc \notin {"closing", "spawn"},
           call[c].pc # "wire" \/ disturbed'
    PROVE  Sole'
<1> SUFFICES ASSUME ~disturbed'
             PROVE  /\ alive' \subseteq {process'}
                    /\ \A d \in Call : call'[d].pc \in {"closing", "spawn"} => alive' = {}
                    /\ ~started' /\ (\A d \in Call : call'[d].pc # "wire") => alive' = {}
  BY DEF Sole
<1>1. ~disturbed
  BY Watched
<1>2. \A d \in Call : call[d].pc = "wire" => call'[d].pc = "wire"
  OBVIOUS
<1>3. \A d \in Call : call'[d].pc \in {"closing", "spawn"} => call[d].pc \in {"closing", "spawn"}
  OBVIOUS
<1>4. QED
  BY <1>1, <1>2, <1>3 DEF Sole

\* A step of c that finds the session not started, and starts a shell.
LEMMA SoleStarts ==
    ASSUME World, Recs, Sole, Watch, NEW c \in Call, alive' = alive, process' = process, started' = started,
           \A d \in Call \ {c} : call'[d] = call[d], call'[c].pc = "spawn", ~started, call[c].pc # "wire"
    PROVE  Sole'
<1> SUFFICES ASSUME ~disturbed' PROVE alive' = {}
  BY DEF Sole
<1>1. ~disturbed
  BY Watched
<1>2. \A d \in Call \ {c} : call'[d].pc \in {"idle", "done"}
  BY Alone
<1>3. \A d \in Call : call[d].pc # "wire"
  BY <1>2
<1>4. QED
  BY <1>1, <1>3 DEF Sole

\* A shell is killed, or one is started where there was none.
LEMMA SoleReset == ASSUME World, Recs, Sole, NEW c \in Call, Reset(c) \/ CloseEnds(c) PROVE Sole'
<1> SUFFICES ASSUME ~disturbed' PROVE alive' = {}
  BY DEF Sole
<1>1. ~disturbed
  BY Watched DEF Reset, CloseEnds
<1>2. CASE Reset(c)
  BY <1>1, <1>2 DEF Sole, Reset, Killed
<1>3. CASE CloseEnds(c)
  BY <1>1, <1>3 DEF Sole, CloseEnds, At, world
<1>4. QED
  BY <1>2, <1>3

LEMMA SoleSpawn == ASSUME World, Recs, Sole, NEW c \in Call, Spawn(c), Step(c) PROVE Sole'
<1> SUFFICES ASSUME ~disturbed'
             PROVE  /\ alive' \subseteq {process'}
                    /\ \A d \in Call : call'[d].pc \in {"closing", "spawn"} => alive' = {}
                    /\ ~started' /\ (\A d \in Call : call'[d].pc # "wire") => alive' = {}
  BY DEF Sole
<1>1. ~disturbed /\ call[c].pc = "spawn" /\ Watch
  BY Watched DEF Spawn, At
<1>2. call'[c].pc = "wire"
  BY DEF Spawn, Recs, CallRec
<1>3. \A d \in Call \ {c} : call'[d].pc \in {"idle", "done"}
  BY <1>1, <1>2, Alone
<1>4. alive = {} /\ alive' = {process'}
  BY <1>1 DEF Sole, Spawn
<1>5. QED
  BY <1>2, <1>3, <1>4

LEMMA SoleWire == ASSUME World, Recs, Sole, NEW c \in Call, Wire(c), Step(c) PROVE Sole'
<1> SUFFICES ASSUME ~disturbed'
             PROVE  /\ alive' \subseteq {process'}
                    /\ \A d \in Call : call'[d].pc \in {"closing", "spawn"} => alive' = {}
                    /\ ~started' /\ (\A d \in Call : call'[d].pc # "wire") => alive' = {}
  BY DEF Sole
<1>1. ~disturbed /\ alive' = alive /\ process' = process /\ started'
  BY Watched DEF Wire
<1>2. call'[c].pc \in {"read", "done"}
  BY DEF Wire, Leave, Fresh, Recs, CallRec
<1>3. \A d \in Call : call'[d].pc \in {"closing", "spawn"} => call[d].pc \in {"closing", "spawn"}
  BY <1>2 DEF Step
<1>4. QED
  BY <1>1, <1>3 DEF Sole

\* Where a step of c leads.
Quiet(c) == \/ SendFindsDead(c) \/ Write(c) \/ WriteBroken(c) \/ WriteLost(c) \/ SendGivesUp(c)
            \/ SpawnFails(c) \/ ReadLine(c) \/ ReadEnds(c) \/ Collide(c) \/ Timeout(c)
            \/ DrainLine(c) \/ GiveUp(c) \/ ReturnStartup(c) \/ ReturnInit(c) \/ ReturnUser(c)

LEMMA QuietStep == ASSUME World, Recs, NEW c \in Call, Quiet(c)
                   PROVE  /\ Step(c) /\ World' /\ queue' = queue /\ call[c].pc \notin {"queued", "wire"}
                          /\ Watch /\ shells' = shells
                          /\ alive' = alive /\ process' = process /\ started' = started
<1>1. CASE SendFindsDead(c) \/ Write(c) \/ WriteBroken(c) \/ WriteLost(c) \/ SendGivesUp(c)
  <2>1. Step(c)
    BY <1>1, SendStep
  <2>2. World'
    <3>1. CASE Write(c)
      BY <3>1, WriteWorld
    <3>2. CASE SendGivesUp(c)
      BY <3>2, RaiseWorld DEF SendGivesUp
    <3>3. CASE SendFindsDead(c) \/ WriteBroken(c) \/ WriteLost(c)
      BY <3>3, QuietWorld DEF SendFindsDead, WriteBroken, WriteLost, session
    <3> QED
      BY <1>1, <3>1, <3>2, <3>3
  <2> QED
    BY <1>1, <2>1, <2>2 DEF SendFindsDead, Write, WriteBroken, WriteLost, SendGivesUp, Raise, At, session, world
<1>2. CASE SpawnFails(c)
  BY <1>2, StartStep, RaiseWorld DEF SpawnFails, At, Raise, session, world
<1>3. CASE ReadLine(c) \/ DrainLine(c)
  <2>1. Step(c) /\ World'
    BY <1>3, ReadStep, TakeWorld
  <2> QED
    BY <1>3, <2>1 DEF ReadLine, DrainLine, At, session
<1>4. CASE ReadEnds(c) \/ Collide(c) \/ Timeout(c) \/ GiveUp(c)
  <2>1. Step(c)
    BY <1>4, ReadStep
  <2>2. World'
    <3>1. CASE Raise(c)
      BY <3>1, RaiseWorld
    <3>2. CASE ~Raise(c)
      BY <1>4, <3>2, QuietWorld DEF ReadEnds, Collide, Timeout, GiveUp, session
    <3> QED
      BY <3>1, <3>2
  <2> QED
    BY <1>4, <2>1, <2>2 DEF ReadEnds, Collide, Timeout, GiveUp, Raise, At, session, world
<1>5. CASE ReturnStartup(c) \/ ReturnInit(c) \/ ReturnUser(c)
  <2>1. Step(c) /\ World'
    BY <1>5, ReturnStep, ReturnWorld
  <2> QED
    BY <1>5, <2>1 DEF ReturnStartup, ReturnInit, ReturnUser, At, session, world
<1>6. QED
  BY <1>1, <1>2, <1>3, <1>4, <1>5 DEF Quiet
LEMMA QuietPlace == ASSUME World, Recs, NEW c \in Call, Quiet(c) PROVE call'[c].pc \notin {"closing", "spawn"}
<1>1. call[c] \in CallRec /\ call \in [Call -> CallRec]
  BY DEF Recs
<1>2. CASE \E try : call' = SetTry(c, try)
  BY <1>1, <1>2 DEF SetTry, CallRec
<1>3. CASE \E p \in {"return", "drain"} : Goto(c, p)
  BY <1>1, <1>3 DEF Goto, CallRec
<1>4. CASE call' = [call EXCEPT ![c] = Fresh("done")]
  BY <1>1, <1>4 DEF Fresh
<1>5. CASE Write(c) \/ WriteLost(c)
  BY <1>1, <1>5 DEF Write, WriteLost, CallRec
<1>6. CASE ReadLine(c)
  <2>1. /\ call[c].pc = "read"
        /\ \/ Goto(c, "return")
           \/ call' = [call EXCEPT ![c].stack[1].lines = IF Len(@) < 2 THEN Append(@, Head(Lines(c))) ELSE @]
    BY <1>6 DEF ReadLine, At
  <2>2. CASE Goto(c, "return")
    BY <1>3, <2>2
  <2>3. CASE ~Goto(c, "return")
    <3> DEFINE s == [call[c].stack EXCEPT ![1].lines = IF Len(@) < 2 THEN Append(@, Head(Lines(c))) ELSE @]
    <3>1. call' = [call EXCEPT ![c] = [call[c] EXCEPT !.stack = s]]
      BY <2>1, <2>3
    <3> HIDE DEF s
    <3>2. [call[c] EXCEPT !.stack = s].pc = call[c].pc
      BY <1>1 DEF CallRec
    <3>3. call'[c] = [call[c] EXCEPT !.stack = s]
      BY <1>1, <3>1
    <3>4. call[c].pc = "read"
      BY <2>1
    <3> QED
      BY <3>2, <3>3, <3>4
  <2> QED
    BY <2>2, <2>3
<1>7. CASE Timeout(c)
  <2>1. CASE Raise(c)
    BY <1>4, <2>1 DEF Raise, Leave
  <2>2. CASE ~Raise(c)
    BY <1>1, <1>7, <2>2 DEF Timeout, CallRec
  <2> QED
    BY <2>1, <2>2
<1>8. CASE ReturnStartup(c) \/ ReturnInit(c)
  <2>1. CASE Resume(c, Under(c))
    BY <1>1, <2>1 DEF Resume, CallRec
  <2>2. CASE ~Resume(c, Under(c))
    BY <1>1, <1>8, <2>2 DEF ReturnStartup, ReturnInit, CallRec
  <2> QED
    BY <2>1, <2>2
<1>9. QED
  BY <1>2, <1>3, <1>4, <1>5, <1>6, <1>7, <1>8
     DEF Quiet, SendFindsDead, WriteBroken, SendGivesUp, SpawnFails, ReadEnds, Collide,
         DrainLine, GiveUp, ReturnUser, Raise, Leave

-----------------------------------------------------------------------------
(* Every step keeps the invariant.                                         *)

LEMMA SeenKept == ASSUME Watch PROVE Seen'
BY Watched DEF Seen

LEMMA QuietKeeps == ASSUME Inv, NEW c \in Call, Quiet(c) PROVE Inv'
<1>1. /\ Step(c) /\ World' /\ queue' = queue /\ call[c].pc \notin {"queued", "wire"}
      /\ Watch /\ shells' = shells /\ alive' = alive /\ process' = process /\ started' = started
  BY QuietStep DEF Inv
<1>2. Recs' /\ Apart' /\ (given' = given => Sends')
  BY <1>1, Kept DEF Inv
<1>3. Sends'
  <2>1. CASE Write(c)
    BY <1>1, <2>1, WriteSends DEF Inv
  <2>2. CASE ~Write(c)
    <3>1. given' = given
      BY <2>2 DEF Quiet, SendFindsDead, WriteBroken, WriteLost, SendGivesUp, SpawnFails, ReadLine, ReadEnds,
                  Collide, Timeout, DrainLine, GiveUp, ReturnStartup, ReturnInit, ReturnUser, Raise, history
    <3> QED
      BY <1>2, <3>1
  <2> QED
    BY <2>1, <2>2
<1>4. Row'
  BY <1>1, RowKept DEF Inv
<1>5. Sole'
  <2>1. call'[c].pc \notin {"closing", "spawn"}
    BY <1>1, QuietPlace DEF Inv
  <2> QED
    BY <1>1, <2>1, SoleQuiet DEF Inv, Step
<1>6. QED
  BY <1>1, <1>2, <1>3, <1>4, <1>5, SeenKept DEF Inv

LEMMA BeginKeeps == ASSUME Inv, NEW c \in Call, Begin(c) \/ Enter(c) PROVE Inv'
<1>1. /\ Step(c) /\ queue' = queue /\ given' = given /\ Watch /\ shells' = shells
      /\ call[c].pc \in {"idle", "enter"} /\ World'
      /\ alive' = alive /\ process' = process /\ started' = started
  <2>1. Step(c)
    BY BeginStep, EnterStep DEF Inv
  <2>2. World'
    BY QuietWorld DEF Inv, Begin, Enter, session
  <2> QED
    BY <2>1, <2>2 DEF Begin, Enter, At, session, world, history
<1>2. Recs' /\ Apart' /\ Sends' /\ Row'
  BY <1>1, Kept, RowKept DEF Inv
<1>3. Sole'
  <2>1. call[c] \in CallRec
    BY DEF Inv, Recs
  <2>2. CASE started
    <3>1. call'[c].pc \in {"lock", "send"}
      BY <2>1, <2>2 DEF Begin, Enter, Goto, Inv, Recs, CallRec
    <3> QED
      BY <1>1, <3>1, SoleQuiet DEF Inv, Step
  <2>3. CASE ~started
    <3>1. call'[c].pc = "spawn"
      BY <2>1, <2>3 DEF Begin, Enter, Goto, Inv, Recs, CallRec
    <3> QED
      BY <1>1, <2>3, <3>1, SoleStarts DEF Inv, Step
  <2> QED
    BY <2>2, <2>3
<1>4. QED
  BY <1>1, <1>2, <1>3, SeenKept DEF Inv

LEMMA TakeKeeps == ASSUME Inv, NEW c \in Call, Lock(c) \/ Granted(c) PROVE Inv'
<1>1. Takes(c) /\ Row'
  BY LockStep, GrantedStep DEF Inv
<1>2. /\ given' = given /\ Watch /\ shells' = shells /\ World' /\ call[c].pc \in {"lock", "queued"}
      /\ alive' = alive /\ process' = process /\ started' = started
  <2>1. World'
    BY QuietWorld DEF Inv, Lock, Granted
  <2> QED
    BY <2>1 DEF Lock, Granted, At, world, history
<1>3. Recs' /\ Apart' /\ Sends'
  BY <1>1, <1>2, Kept DEF Inv
<1>4. call'[c].pc \in {"enter", "queued"} /\ \A d \in Call \ {c} : call'[d] = call[d]
  BY <1>1 DEF Takes
<1>5. Sole'
  BY <1>2, <1>4, SoleQuiet DEF Inv
<1>6. QED
  BY <1>1, <1>2, <1>3, <1>5, SeenKept DEF Inv

LEMMA StartKeeps == ASSUME Inv, NEW c \in Call, Reset(c) \/ CloseEnds(c) \/ Spawn(c) \/ Wire(c) PROVE Inv'
<1>1. Step(c)
  BY StartStep, WireStep DEF Inv
<1>2. World'
  BY ResetWorld, CloseWorld, SpawnWorld, WireWorld DEF Inv
<1>3. /\ given' = given /\ Watch /\ shells' \in {shells, shells + 1} /\ queue' = queue
      /\ call[c].pc # "queued"
  BY DEF Reset, CloseEnds, Spawn, Wire, At, world, history
<1>4. Recs' /\ Apart' /\ Sends' /\ Row'
  BY <1>1, <1>3, Kept, RowKept DEF Inv
<1>5. Sole'
  BY <1>1, SoleReset, SoleSpawn, SoleWire DEF Inv
<1>6. QED
  BY <1>2, <1>3, <1>4, <1>5, SeenKept DEF Inv

LEMMA CancelKeeps == ASSUME Inv, NEW c \in Call, Cancel(c) PROVE Inv'
<1>1. Step(c) /\ World'
  BY CancelStep, CancelWorld DEF Inv
<1>2. /\ given' = given /\ Watch /\ shells' = shells /\ call'[c].pc = "done"
      /\ alive' = alive /\ process' = process /\ started' = started
  BY DEF Cancel, Leave, Fresh, world, history, Inv, Recs
<1>3. Recs' /\ Apart' /\ Sends' /\ Row'
  BY <1>1, <1>2, Kept, RowCancel DEF Inv
<1>4. call[c].pc # "wire" \/ disturbed'
  <2>1. CASE call[c].pc = "wire"
    <3>1. result'[c].kind = "cancelled"
      BY <2>1 DEF Cancel, Leave, Result, Inv, World
    <3>2. Clash'
      BY <3>1 DEF Clash
    <3> QED
      BY <1>2, <3>2, Watched
  <2> QED
    BY <2>1
<1>5. Sole'
  BY <1>1, <1>2, <1>4, SoleQuiet DEF Inv, Step
<1>6. QED
  BY <1>1, <1>2, <1>3, <1>5, SeenKept DEF Inv

\* bash finishes a script, or dies.
LEMMA ShellKeeps == ASSUME Inv, NEW s \in Shell, Finish(s) \/ Die(s) PROVE Inv'
<1>1. UNCHANGED <<session, call, result, shells, closed, given>> /\ alive' \subseteq alive /\ Watch
  BY DEF Finish, Die, history
<1>2. stdin' \in [Shell -> Seq(Scripts)]
  <2>1. CASE Finish(s)
    <3>1. Tail(stdin[s]) \in Seq(Scripts)
      BY <2>1 DEF Finish, Inv, World
    <3> QED
      BY <2>1, <3>1 DEF Finish, Inv, World
  <2>2. CASE Die(s)
    BY <2>2, NoScript DEF Die, Inv
  <2> QED
    BY <2>1, <2>2
<1>3. fd3' \in [Shell -> Seq(LineSet)]
  <2>1. fd3 \in [Shell -> Seq(LineSet)] /\ stdin[s] \in Seq(Scripts)
    BY DEF Inv, World
  <2>2. CASE fd3' = fd3
    BY <2>1, <2>2
  <2>3. CASE fd3' # fd3
    <3>1. stdin[s] # <<>>
      BY <2>3 DEF Finish, Die
    <3>2. Report(Head(stdin[s])) \in Seq(LineSet)
      BY <2>1, <3>1, ReportType
    <3> DEFINE R == Report(Head(stdin[s]))
    <3>3. \A n \in 0..Len(R) : SubSeq(R, 1, n) \in Seq(LineSet)
      <4> HIDE DEF R
      <4>1. R \in Seq(LineSet)
        BY <3>2 DEF R
      <4> QED
        BY <4>1
    <3>4. PICK t \in Seq(LineSet) : fd3' = [fd3 EXCEPT ![s] = @ \o t]
      BY <2>3, <3>2, <3>3 DEF Finish, Die
    <3>5. fd3[s] \o t \in Seq(LineSet)
      BY <2>1, <3>4
    <3> QED
      BY <2>1, <3>4, <3>5
  <2> QED
    BY <2>2, <2>3
<1>4. World'
  BY <1>1, <1>2, <1>3, Watched DEF Inv, World, session
<1>5. Recs' /\ Apart' /\ Sends' /\ Row'
  BY <1>1 DEF Inv, Recs, Apart, Sends, Row, Queued, session
<1>6. Sole'
  BY <1>1, Watched DEF Inv, Sole, session
<1>7. QED
  BY <1>1, <1>4, <1>5, <1>6, SeenKept DEF Inv

LEMMA StutterKeeps == ASSUME Inv, UNCHANGED vars PROVE Inv'
<1>1. World'
  BY DEF Inv, World, vars, session, world
<1>2. Recs' /\ Sends' /\ Apart'
  BY DEF Inv, Recs, Sends, Apart, vars, session, world, history
<1>3. Row' /\ Sole'
  BY DEF Inv, Row, Queued, Sole, vars, session, world
<1>4. Seen'
  BY DEF Inv, Seen, Clash, Starting, Active, Inside, vars, session
<1>5. QED
  BY <1>1, <1>2, <1>3, <1>4 DEF Inv

LEMMA Inductive == ASSUME Inv, [Next]_vars PROVE Inv'
<1>1. ASSUME NEW c \in Call, Begin(c) \/ Goes(c) \/ Cancel(c) PROVE Inv'
  <2>1. \/ Begin(c) \/ Enter(c) \/ Lock(c) \/ Granted(c) \/ Cancel(c) \/ Quiet(c)
        \/ Reset(c) \/ CloseEnds(c) \/ Spawn(c) \/ Wire(c)
    BY <1>1 DEF Goes, Quiet
  <2> QED
    BY <2>1, BeginKeeps, TakeKeeps, CancelKeeps, QuietKeeps, StartKeeps
<1>2. QED
  BY <1>1, ShellKeeps, StutterKeeps DEF Next

LEMMA Initially == ASSUME Init PROVE Inv
<1>1. World
  <2>1. <<>> \in Seq(Scripts) /\ <<>> \in Seq(LineSet) /\ Pending \in Results
    BY DEF Pending, Result, Results, Kinds
  <2>2. MaxShell \in Nat
    BY ConstantsAssumption
  <2>3. started \in BOOLEAN /\ inInit \in BOOLEAN /\ disturbed \in BOOLEAN
    BY DEF Init
  <2>4. process = 0 /\ ctrl = 0 /\ shells = 0 /\ lock = 0 /\ alive = {} /\ closed = {}
    BY DEF Init, None
  <2>5. stdin \in [Shell -> Seq(Scripts)] /\ fd3 \in [Shell -> Seq(LineSet)] /\ result \in [Call -> Results]
    BY <2>1 DEF Init
  <2> QED
    BY <2>2, <2>3, <2>4, <2>5 DEF World
<1>2. Recs /\ Apart
  <2>1. <<>> \in Seq(Frames)
    OBVIOUS
  <2>2. Fresh("idle") \in CallRec /\ RecOK(Fresh("idle"), 0) /\ ~Has(Fresh("idle"))
    BY <2>1 DEF Fresh, CallRec, RecOK, Stages, Working, None, Has
  <2> QED
    BY <2>2 DEF Init, Recs, Apart
<1>3. Sends
  BY DEF Init, Sends
<1>4. Row
  <2>1. queue = <<>> /\ \A c \in Call : call[c].pc = "idle"
    BY DEF Init, Fresh
  <2> QED
    BY <2>1 DEF Row, Queued, Distinct
<1>5. Seen
  <2>1. \A c \in Call : call[c].pc = "idle" /\ result[c].kind = "none"
    BY DEF Init, Fresh, Pending, Result
  <2> QED
    BY <2>1 DEF Seen, Clash, Active, Inside
<1>6. Sole
  BY DEF Init, Sole
<1>7. QED
  BY <1>1, <1>2, <1>3, <1>4, <1>5, <1>6 DEF Inv

THEOREM Invariance == Spec => []Inv
<1>1. Init => Inv
  BY Initially
<1>2. Inv /\ [Next]_vars => Inv'
  BY Inductive
<1>3. QED
  BY <1>1, <1>2, PTL DEF Spec

(* Types of the session and its callers; the queue of the lock holds the   *)
(* callers that wait for it, once each (run: async with self._lock).       *)
THEOREM TypesHold == Spec => []TypeOK
<1>1. Inv => TypeOK
  BY DEF Inv, World, Recs, RecOK, CallRec, Row, TypeOK
<1>2. QED
  BY <1>1, Invariance, PTL

(* A command is written to a shell at most once, however often             *)
(* _send_and_wait writes, shells die and callers overlap.                  *)
THEOREM CommandsAreSentOnce == Spec => []AtMostOnce
<1>1. Inv => \A c \in Call : given[c] \in {0, 1}
  BY DEF Inv, Sends
<1>2. \A n \in {0, 1} : n <= 1
  OBVIOUS
<1>3. Inv => AtMostOnce
  BY <1>1, <1>2 DEF AtMostOnce
<1>4. QED
  BY <1>3, Invariance, PTL

(* Calls of run() execute one at a time, unless a start or a reset meets   *)
(* another call.                                                           *)
THEOREM CallsTakeTurns == Spec => []OrderlyTurns
<1>1. ASSUME Inv, ~disturbed, NEW c \in Call, NEW d \in Call, Inside(c), Inside(d), c # d PROVE FALSE
  <2>1. ~Clash
    BY <1>1 DEF Inv, Seen
  <2>2. Active(c) /\ Active(d)
    BY <1>1 DEF Active, Inside
  <2>3. call[c].lock = lock /\ call[d].lock = lock
    BY <1>1, <2>1, <2>2 DEF Clash
  <2>4. Has(call[c]) /\ Has(call[d])
    BY <1>1, HoldsIff DEF Inv, Recs, Holds
  <2> QED
    BY <1>1, <2>3, <2>4 DEF Inv, Apart
<1>2. Inv => OrderlyTurns
  BY <1>1 DEF OrderlyTurns, OneAtATime
<1>3. QED
  BY <1>2, Invariance, PTL

(* reset() and start() leave no bash process behind.                       *)
THEOREM NoShellIsLeft == Spec => []OneShell
<1>1. Inv => OneShell
  BY DEF Inv, Sole, OneShell
<1>2. QED
  BY <1>1, Invariance, PTL

-----------------------------------------------------------------------------
(* What a call reads.  The lines on the control pipe, and the lines a      *)
(* frame has noted, are parts of what its script reports.                  *)

\* q is what R has after its first k lines, or the beginning of it.
Part(q, R, k) == k + Len(q) <= Len(R) /\ \A i \in 1..Len(q) : q[i] = R[k + i]

LEMMA PartTail ==
    ASSUME NEW S, NEW q \in Seq(S), NEW R \in Seq(S), NEW k \in Nat, Part(q, R, k), q # <<>>
    PROVE  /\ Head(q) = R[k + 1] /\ k + 1 \in 1..Len(R) /\ Part(Tail(q), R, k + 1)
           /\ k + 1 = Len(R) => Tail(q) = <<>>
<1>1. Len(q) \in Nat \ {0} /\ Len(R) \in Nat /\ Head(q) = q[1] /\ 1 \in 1..Len(q)
  OBVIOUS
<1>2. k + 1 <= Len(R) /\ Head(q) = R[k + 1]
  BY <1>1 DEF Part
<1>3. /\ Tail(q) \in Seq(S) /\ Len(Tail(q)) = Len(q) - 1
      /\ \A i \in 1..(Len(q) - 1) : Tail(q)[i] = q[i + 1]
  BY <1>1
<1>4. ASSUME NEW i \in 1..(Len(q) - 1) PROVE Tail(q)[i] = R[(k + 1) + i]
  <2>1. i + 1 \in 1..Len(q) /\ k + (i + 1) = (k + 1) + i
    BY <1>1
  <2> QED
    BY <1>3, <2>1 DEF Part
<1>5. (k + 1) + (Len(q) - 1) <= Len(R)
  BY <1>1 DEF Part
<1>6. Part(Tail(q), R, k + 1)
  BY <1>3, <1>4, <1>5 DEF Part
<1>7. k + 1 = Len(R) => Tail(q) = <<>>
  <2> DEFINE n == Len(q)
             m == Len(R)
  <2>1. n \in Nat \ {0} /\ m \in Nat /\ (k + 1) + (n - 1) <= m
    BY <1>1, <1>5
  <2> HIDE DEF n, m
  <2>2. k + 1 = m => n = 1
    BY <2>1
  <2>3. Len(q) = 1 => Tail(q) = <<>>
    <3>1. Len(q) = 1 => Len(Tail(q)) = 0
      BY <1>3
    <3>2. \A t \in Seq(S) : Len(t) = 0 => t = <<>>
      OBVIOUS
    <3> QED
      BY <1>3, <3>1, <3>2
  <2> QED
    BY <2>2, <2>3 DEF n, m
<1>8. QED
  BY <1>1, <1>2, <1>6, <1>7

LEMMA PartNone ==
    ASSUME NEW S, NEW R \in Seq(S), NEW k \in 0..Len(R)
    PROVE  Part(<<>>, R, k)
BY DEF Part

LEMMA PartFirst ==
    ASSUME NEW S, NEW R \in Seq(S), NEW n \in 0..Len(R)
    PROVE  Part(SubSeq(R, 1, n), R, 0)
<1>1. Len(R) \in Nat /\ n \in Nat /\ n <= Len(R)
  OBVIOUS
<1>2. Len(SubSeq(R, 1, n)) = n /\ \A i \in 1..n : SubSeq(R, 1, n)[i] = R[i]
  BY <1>1
<1>3. QED
  BY <1>1, <1>2 DEF Part

LEMMA PartAll ==
    ASSUME NEW S, NEW R \in Seq(S)
    PROVE  Part(R, R, 0)
<1>1. Len(R) \in Nat
  OBVIOUS
<1>2. QED
  BY <1>1 DEF Part

\* One more line is noted.
LEMMA PartMore ==
    ASSUME NEW S, NEW q \in Seq(S), NEW R \in Seq(S), NEW x \in S, Part(q, R, 0),
           Len(q) + 1 \in 1..Len(R), x = R[Len(q) + 1]
    PROVE  Part(Append(q, x), R, 0) /\ Len(Append(q, x)) = Len(q) + 1
<1>1. Len(q) \in Nat /\ Len(R) \in Nat
  OBVIOUS
<1>2. /\ Len(Append(q, x)) = Len(q) + 1 /\ Append(q, x)[Len(q) + 1] = x
      /\ \A i \in 1..Len(q) : Append(q, x)[i] = q[i]
  BY <1>1
<1>3. \A i \in 1..(Len(q) + 1) : Append(q, x)[i] = R[0 + i]
  BY <1>1, <1>2 DEF Part
<1>4. QED
  BY <1>1, <1>2, <1>3 DEF Part

OwnScript(c, f) == [call |-> c, what |-> f.what]
OwnReport(c, f) == Report(OwnScript(c, f))

\* The last line of what a script reports is its sentinel, no other is.
LEMMA ReportFacts ==
    ASSUME NEW c \in Call, NEW f \in Frames
    PROVE  /\ OwnScript(c, f) \in Scripts /\ OwnReport(c, f) \in Seq(LineSet)
           /\ Len(OwnReport(c, f)) \in {1, 3}
           /\ \A i \in 1..Len(OwnReport(c, f)) :
                /\ OwnReport(c, f)[i].call = c /\ OwnReport(c, f)[i].what = f.what
                /\ OwnReport(c, f)[i] = Line(c, f.what, "end") <=> i = Len(OwnReport(c, f))
           /\ Len(OwnReport(c, f)) = 3 => OwnReport(c, f)[1].part = "code"
<1>1. f.what \in Whats
  BY DEF Frames
<1>2. OwnScript(c, f) \in Scripts
  BY <1>1 DEF OwnScript, Scripts
<1>3. OwnReport(c, f) \in Seq(LineSet)
  BY <1>2, ReportType DEF OwnReport
<1>4. CASE f.what = "startup"
  <2>1. OwnReport(c, f) = <<Line(c, f.what, "end")>>
    BY <1>4 DEF OwnReport, OwnScript, Report
  <2> QED
    BY <1>2, <1>3, <2>1 DEF Line
<1>5. CASE f.what # "startup"
  <2>1. OwnReport(c, f) = <<Line(c, f.what, "code"), Line(c, f.what, "cwd"), Line(c, f.what, "end")>>
    BY <1>5 DEF OwnReport, OwnScript, Report
  <2>2. /\ Line(c, f.what, "code") # Line(c, f.what, "end") /\ Line(c, f.what, "cwd") # Line(c, f.what, "end")
        /\ \A p : Line(c, f.what, p).call = c /\ Line(c, f.what, p).what = f.what /\ Line(c, f.what, p).part = p
    BY DEF Line
  <2> DEFINE R == OwnReport(c, f)
  <2>3. Len(R) = 3 /\ R[1] = Line(c, f.what, "code") /\ R[2] = Line(c, f.what, "cwd") /\ R[3] = Line(c, f.what, "end")
    BY <2>1
  <2> HIDE DEF R
  <2>4. \A i \in 1..3 : i = 1 \/ i = 2 \/ i = 3
    OBVIOUS
  <2>5. \A i \in 1..Len(R) : /\ R[i].call = c /\ R[i].what = f.what
                             /\ R[i] = Line(c, f.what, "end") <=> i = Len(R)
    BY <2>2, <2>3, <2>4
  <2>6. Len(R) \in {1, 3} /\ (Len(R) = 3 => R[1].part = "code")
    BY <2>2, <2>3
  <2> QED
    BY <1>2, <1>3, <2>5, <2>6 DEF R
<1>6. QED
  BY <1>4, <1>5

-----------------------------------------------------------------------------
(* The frames of a working call note only what their own scripts report.   *)

Reading == {"read", "drain", "return"}

Noted(c, f) == Len(f.lines) < Len(OwnReport(c, f)) /\ Part(f.lines, OwnReport(c, f), 0)
Blank(f)    == f.lines = <<>> \/ f.try = "over"

FramesFit(c, s, p) ==
  /\ \A i \in 1..Len(s) : Noted(c, s[i]) /\ ((i = 1 /\ p \in Reading) \/ Blank(s[i]))
  /\ p = "send" => s[1].try # "over"
  /\ s[1].what = "lock" => p \in {"spawn", "wire"}

LEMMA NotedNone == ASSUME NEW c \in Call, NEW f \in Frames, f.lines = <<>> PROVE Noted(c, f) /\ Blank(f)
<1>1. OwnReport(c, f) \in Seq(LineSet) /\ Len(OwnReport(c, f)) \in {1, 3}
  BY ReportFacts
<1>2. Part(<<>>, OwnReport(c, f), 0)
  BY <1>1, PartNone
<1>3. 0 < Len(OwnReport(c, f)) /\ Len(<<>>) = 0
  <2>1. \A n \in {1, 3} : 0 < n
    OBVIOUS
  <2>2. Len(<<>>) = 0
    OBVIOUS
  <2> QED
    BY <1>1, <2>1, <2>2
<1>4. QED
  BY <1>2, <1>3 DEF Noted, Blank

LEMMA NotedSame ==
    ASSUME NEW c, NEW f, NEW g, Noted(c, f), g.lines = f.lines, g.what = f.what
    PROVE  Noted(c, g)
BY DEF Noted, OwnReport, OwnScript

\* It moves on, its frames unchanged.
LEMMA FitsOn ==
    ASSUME NEW c \in Call, NEW s, NEW p, NEW q, FramesFit(c, s, p), q # "send",
           p \in Reading => q \in Reading,
           s[1].what = "lock" => q \in {"spawn", "wire"}
    PROVE  FramesFit(c, s, q)
BY DEF FramesFit

\* The frame on top changes.
LEMMA FitsTouch ==
    ASSUME NEW c \in Call, NEW s, Good(s), NEW p, NEW q, FramesFit(c, s, p), q # "send",
           NEW f \in Frames, Noted(c, f), q \in Reading \/ Blank(f), f.what # "lock"
    PROVE  FramesFit(c, [s EXCEPT ![1] = f], q)
<1> DEFINE r == [s EXCEPT ![1] = f]
<1>1. s \in Seq(Frames) /\ Len(s) \in Nat \ {0} /\ DOMAIN s = 1..Len(s)
  BY GoodLen DEF Good
<1>2. Len(r) = Len(s) /\ r[1] = f /\ \A i \in 1..Len(s) : i # 1 => r[i] = s[i]
  BY <1>1
<1> HIDE DEF r
<1>3. ASSUME NEW i \in 1..Len(r) PROVE Noted(c, r[i]) /\ ((i = 1 /\ q \in Reading) \/ Blank(r[i]))
  BY <1>2 DEF FramesFit
<1>4. QED
  BY <1>2, <1>3 DEF FramesFit, r

\* The frames below the top are blank, or not to be tried again.
Below(c, s) == \A i \in 1..Len(s) : Noted(c, s[i]) /\ Blank(s[i])

LEMMA FitsBelow ==
    ASSUME NEW c \in Call, NEW s, NEW p, FramesFit(c, s, p), p \notin Reading
    PROVE  Below(c, s)
BY DEF FramesFit, Below

LEMMA FitsTail ==
    ASSUME NEW c \in Call, NEW s, Good(s), NEW p, FramesFit(c, s, p)
    PROVE  Below(c, Tail(s))
<1>1. s \in Seq(Frames) /\ Len(s) \in Nat \ {0} /\ s # <<>>
  BY GoodLen DEF Good
<1>2. Len(Tail(s)) = Len(s) - 1 /\ \A i \in 1..(Len(s) - 1) : Tail(s)[i] = s[i + 1]
  BY <1>1
<1>3. ASSUME NEW i \in 1..(Len(s) - 1) PROVE Noted(c, Tail(s)[i]) /\ Blank(Tail(s)[i])
  <2>1. i + 1 \in 1..Len(s) /\ i + 1 # 1
    BY <1>1
  <2> QED
    BY <1>2, <2>1 DEF FramesFit
<1>4. QED
  BY <1>2, <1>3 DEF Below

LEMMA FitsPush ==
    ASSUME NEW c \in Call, NEW s, Good(s), Below(c, s), NEW q,
           NEW f \in Frames, f.lines = <<>>, f.try # "over", f.what # "lock"
    PROVE  FramesFit(c, <<f>> \o s, q)
<1> DEFINE r == <<f>> \o s
<1>1. s \in Seq(Frames) /\ Len(s) \in Nat \ {0}
  BY GoodLen DEF Good
<1>2. Len(r) = Len(s) + 1 /\ r[1] = f /\ \A i \in 1..Len(s) : r[i + 1] = s[i]
  BY <1>1
<1> HIDE DEF r
<1>3. Noted(c, f) /\ Blank(f)
  BY NotedNone
<1>4. ASSUME NEW i \in 1..Len(r) PROVE Noted(c, r[i]) /\ Blank(r[i])
  <2>1. CASE i = 1
    BY <1>2, <1>3, <2>1
  <2>2. CASE i # 1
    <3>1. i - 1 \in 1..Len(s) /\ (i - 1) + 1 = i
      BY <1>1, <1>2, <2>2
    <3>2. r[i] = s[i - 1]
      BY <1>2, <3>1
    <3> QED
      BY <3>1, <3>2 DEF Below
  <2> QED
    BY <2>1, <2>2
<1>5. QED
  BY <1>2, <1>4 DEF FramesFit, r

LEMMA FitsPop ==
    ASSUME NEW c \in Call, NEW s, Below(c, s), s[1].what # "lock"
    PROVE  FramesFit(c, s, IF s[1].try = "over" THEN "return" ELSE "send")
BY DEF FramesFit, Below, Reading

LEMMA FitsOne ==
    ASSUME NEW c \in Call, NEW f \in Frames, f.lines = <<>>, NEW q, q = "send" => f.try # "over",
           f.what = "lock" => q \in {"spawn", "wire"}
    PROVE  FramesFit(c, <<f>>, q)
<1>1. Noted(c, f) /\ Blank(f)
  BY NotedNone
<1>2. Len(<<f>>) = 1 /\ <<f>>[1] = f
  OBVIOUS
<1>3. QED
  BY <1>1, <1>2 DEF FramesFit

-----------------------------------------------------------------------------
(* What is on the pipes of the session while nothing disturbs.             *)

Works(c) == call[c].pc \in Working
Clean    == process # None => stdin[process] = <<>> /\ fd3[process] = <<>>
Rest     == ctrl = process /\ Clean

\* A call that reads: its shell is the session's, its script is being
\* executed, or what is on the pipe is the rest of what it reports.
Flow(c) ==
  /\ call[c].at = process /\ ctrl = process
  /\ \/ stdin[process] = <<>>
     \/ /\ stdin[process] = <<OwnScript(c, call[c].stack[1])>> /\ fd3[process] = <<>>
        /\ call[c].pc = "read" => call[c].stack[1].lines = <<>>
  /\ \E k \in 0..Len(OwnReport(c, call[c].stack[1])) :
       /\ call[c].pc = "read" => k = Len(call[c].stack[1].lines)
       /\ Part(fd3[process], OwnReport(c, call[c].stack[1]), k)

Tends(c) ==
  /\ FramesFit(c, call[c].stack, call[c].pc)
  /\ call[c].pc \in {"send", "return", "spawn", "reset"} => ctrl = process
  /\ call[c].pc \in {"send", "return", "spawn", "wire"} => Clean
  /\ call[c].pc = "wire" => call[c].at = process
  /\ call[c].pc \in {"read", "drain"} => Flow(c)
  /\ call[c].pc = "reset" /\ process # None =>
       \A i \in DOMAIN stdin[process] : stdin[process][i].call = c
  /\ call[c].pc = "closing" => ctrl = None

DeadQuiet == /\ \A s \in Shell : s \notin alive => stdin[s] = <<>>
             /\ \A s \in Shell : s > shells => fd3[s] = <<>>
OneWorks  == \A c, d \in Call : Works(c) /\ Works(d) => c = d
Tended    == /\ \A c \in Call : Works(c) => Tends(c)
             /\ (\A c \in Call : ~Works(c)) => Rest
Untold    == \A c \in Call : call[c].pc # "done" => result[c].kind = "none"

Pipe == /\ DeadQuiet /\ Untold /\ cwd \in Call \cup {Nobody}
        /\ ~disturbed => alive \cap closed = {} /\ OneWorks /\ Tended
        /\ OwnStatus

\* A call goes on with its work, ends it, or waits beside it.
LEMMA TendedOn ==
    ASSUME OneWorks', NEW c \in Call, Works(c)', Tends(c)'
    PROVE  Tended'
<1>1. ASSUME NEW d \in Call, Works(d)' PROVE Tends(d)'
  <2>1. d = c
    BY <1>1 DEF OneWorks
  <2> QED
    BY <2>1
<1>2. QED
  BY <1>1 DEF Tended

LEMMA TendedEnd ==
    ASSUME OneWorks, NEW c \in Call, Works(c), ~Works(c)', Rest',
           \A d \in Call \ {c} : call'[d] = call[d]
    PROVE  Tended'
<1>1. ASSUME NEW d \in Call PROVE ~Works(d)'
  BY DEF Works, OneWorks
<1>2. QED
  BY <1>1 DEF Tended

LEMMA TendedBeside ==
    ASSUME Tended, NEW c \in Call, ~Works(c), ~Works(c)', UNCHANGED <<process, ctrl, stdin, fd3>>,
           \A d \in Call \ {c} : call'[d] = call[d]
    PROVE  Tended'
<1>1. ASSUME NEW d \in Call PROVE Works(d)' => Tends(d)'
  <2>1. CASE d = c
    BY <2>1
  <2>2. CASE d # c
    <3>1. call'[d] = call[d]
      BY <2>2
    <3>2. Works(d)' <=> Works(d)
      BY <3>1 DEF Works
    <3>3. Tends(d)' <=> Tends(d)
      BY <3>1 DEF Tends, Flow, Clean
    <3> QED
      BY <3>2, <3>3 DEF Tended
  <2> QED
    BY <2>1, <2>2
<1>2. ASSUME \A d \in Call : ~Works(d)' PROVE \A d \in Call : ~Works(d)
  BY <1>2 DEF Works
<1>3. Rest' <=> Rest
  BY DEF Rest, Clean
<1>4. QED
  BY <1>1, <1>2, <1>3 DEF Tended

LEMMA TendedStart ==
    ASSUME Tended, OneWorks', NEW c \in Call, ~Works(c), Works(c)', UNCHANGED <<process, ctrl, stdin, fd3>>,
           \A d \in Call \ {c} : call'[d] = call[d],
           FramesFit(c, call[c].stack, call[c].pc)', call'[c].pc \in {"send", "spawn"}
    PROVE  Tended'
<1>1. \A d \in Call : ~Works(d)
  BY DEF Works, OneWorks
<1>2. Rest'
  BY <1>1 DEF Tended, Rest, Clean
<1>3. Tends(c)'
  BY <1>2 DEF Tends, Rest
<1>4. QED
  BY <1>3, TendedOn

-----------------------------------------------------------------------------
(* At most one call works on the session.                                  *)

LEMMA WorksIn ==
    ASSUME Inv, NEW c \in Call, Works(c), FramesFit(c, call[c].stack, call[c].pc)
    PROVE  Starting(c) \/ (Inside(c) /\ Has(call[c]))
<1> DEFINE s == call[c].stack
<1>1. Good(s) /\ RecOK(call[c], shells)
  BY TopFacts DEF Works, Inv
<1>2. Bottom(s).what \in {"user", "lock"} /\ Len(s) \in 1..Len(s) /\ DOMAIN s = 1..Len(s) /\ 1 \in DOMAIN s
  BY <1>1, GoodLen
<1>3. CASE Bottom(s).what = "user"
  <2>1. Inside(c)
    BY <1>2, <1>3 DEF Inside, Works, Working, Bottom
  <2> QED
    BY <1>3, <2>1 DEF Has, Works
<1>4. CASE Bottom(s).what = "lock" /\ Len(s) = 1
  BY <1>4 DEF FramesFit, Starting, Bottom
<1>5. CASE Len(s) # 1
  <2>1. s[1].what \notin {"user", "lock"} /\ s[1] \in Frames
    BY <1>1, <1>2, <1>5, GoodLen DEF Good
  <2>2. s[1].what \in {"startup", "init"}
    BY <2>1 DEF Frames, Whats
  <2> QED
    BY <1>2, <2>2 DEF Starting
<1>6. QED
  BY <1>2, <1>3, <1>4, <1>5

LEMMA StepPlaces ==
    ASSUME Inv, NEW c \in Call, Begin(c) \/ Goes(c) \/ Cancel(c)
    PROVE  /\ \A d \in Call \ {c} : call'[d] = call[d]
           /\ Turn(c)
<1>1. CASE Begin(c) \/ Cancel(c)
  <2>1. Step(c)
    BY <1>1, BeginStep, CancelStep DEF Inv
  <2> QED
    BY <1>1, <2>1 DEF Step, Begin, Cancel, At
<1>2. CASE Enter(c) \/ Reset(c) \/ CloseEnds(c) \/ Spawn(c) \/ Wire(c)
  <2>1. Step(c)
    BY <1>2, EnterStep, StartStep, WireStep DEF Inv
  <2> QED
    BY <1>2, <2>1 DEF Step, Enter, Reset, CloseEnds, Spawn, Wire, At
<1>3. CASE Lock(c) \/ Granted(c)
  <2>1. Takes(c)
    BY <1>3, LockStep, GrantedStep DEF Inv
  <2> QED
    BY <1>3, <2>1 DEF Takes, Lock, Granted, At
<1>4. CASE Quiet(c)
  <2>1. Step(c)
    BY <1>4, QuietStep DEF Inv
  <2> QED
    BY <1>4, <2>1 DEF Step, Quiet, SendFindsDead, Write, WriteBroken, WriteLost, SendGivesUp, SpawnFails, ReadLine,
       ReadEnds, Collide, Timeout, DrainLine, GiveUp, ReturnStartup, ReturnInit, ReturnUser, At
<1>5. QED
  BY <1>1, <1>2, <1>3, <1>4 DEF Goes, Quiet

\* Only Begin and Enter let a call work that did not.
LEMMA OneWorksKept ==
    ASSUME Inv, Inv', OneWorks, Tended, NEW c \in Call, Begin(c) \/ Goes(c) \/ Cancel(c), ~disturbed'
    PROVE  OneWorks'
<1>1. (\A d \in Call \ {c} : call'[d] = call[d]) /\ Turn(c)
  BY StepPlaces
<1> SUFFICES ASSUME NEW d \in Call, d # c, Works(c)', Works(d) PROVE FALSE
  <2>1. ASSUME NEW a \in Call, NEW b \in Call, Works(a)', Works(b)', a # b PROVE FALSE
    <3>1. CASE a = c
      BY <1>1, <2>1, <3>1 DEF Works
    <3>2. CASE b = c
      BY <1>1, <2>1, <3>2 DEF Works
    <3>3. CASE a # c /\ b # c
      BY <1>1, <2>1, <3>3 DEF Works, OneWorks
    <3> QED
      BY <3>1, <3>2, <3>3
  <2> QED
    BY <2>1 DEF OneWorks
<1>2. ~Works(c)
  BY DEF OneWorks
<1>3. Begin(c) \/ Enter(c)
  <2>1. CASE Lock(c) \/ Granted(c)
    BY <2>1, LockStep, GrantedStep DEF Inv, Takes, Works, Working
  <2>2. CASE Cancel(c)
    BY <2>2 DEF Cancel, Leave, Fresh, Works, Working, Inv, Recs
  <2>3. CASE Reset(c) \/ CloseEnds(c) \/ Spawn(c) \/ Wire(c) \/ Quiet(c)
    BY <1>2, <2>3 DEF Works, Working, Reset, CloseEnds, Spawn, Wire, Quiet, SendFindsDead, Write, WriteBroken,
       WriteLost, SendGivesUp, SpawnFails, ReadLine, ReadEnds, Collide, Timeout, DrainLine, GiveUp,
       ReturnStartup, ReturnInit, ReturnUser, At
  <2> QED
    BY <2>1, <2>2, <2>3 DEF Goes, Quiet
<1>4. ~Clash' /\ Watch
  BY <1>3 DEF Inv, Seen, Begin, Enter
<1>5. call'[d] = call[d] /\ call'[d].pc \in Working
  BY <1>1 DEF Works
<1>6. CASE Begin(c)
  <2>1. call'[c].pc \in {"lock", "spawn"}
    BY <1>6 DEF Begin, Goto, Inv, Recs, CallRec
  <2>2. call'[c].pc = "spawn"
    BY <2>1 DEF Works, Working
  <2> QED
    BY <1>4, <1>5, <2>2, Alone DEF Working
<1>7. CASE Enter(c)
  <2>1. ~Starting(d)'
    BY <1>4, <1>5 DEF Clash, Active, Works, Working
  <2>2. ~Starting(d)
    BY <1>5, <2>1 DEF Starting
  <2>3. Inside(d) /\ Has(call[d])
    BY <2>2, WorksIn DEF Tended, Tends
  <2>4. Has(call[c])
    BY <1>7 DEF Enter, At, Has
  <2>5. call[c].lock # call[d].lock
    BY <2>3, <2>4 DEF Inv, Apart
  <2>6. call'[c].lock = call[c].lock /\ lock' = lock /\ call'[c].stack = <<Frame("user", "check")>>
    BY <1>7 DEF Enter, Inv, Recs, CallRec, session
  <2>7. Inside(c)'
    <3>1. call'[c].stack[1].what = "user" /\ 1 \in DOMAIN call'[c].stack
      BY <2>6 DEF Frame
    <3> QED
      BY <3>1 DEF Inside, Works, Working
  <2>8. Inside(d)'
    BY <1>5, <2>3 DEF Inside
  <2>9. Active(c)' /\ Active(d)'
    BY <1>5 DEF Active, Works, Working
  <2>10. call'[c].lock = lock' /\ call'[d].lock = lock'
    BY <1>4, <2>7, <2>8, <2>9 DEF Clash
  <2> QED
    BY <1>5, <2>5, <2>6, <2>10
<1>8. QED
  BY <1>3, <1>6, <1>7

-----------------------------------------------------------------------------
(* The shells: a dead one has no script, a new one has no line.            *)

LEMMA DeadQuietCall ==
    ASSUME Inv, DeadQuiet, NEW c \in Call, Begin(c) \/ Goes(c) \/ Cancel(c)
    PROVE  DeadQuiet'
<1>1. stdin \in [Shell -> Seq(Scripts)] /\ fd3 \in [Shell -> Seq(LineSet)] /\ shells \in Nat /\ alive \subseteq 1..shells
  BY ShellRange DEF Inv, World
<1>2. CASE UNCHANGED world
  BY <1>2 DEF DeadQuiet, world
<1>3. CASE Write(c)
  BY <1>1, <1>3 DEF Write, DeadQuiet
<1>4. CASE Wire(c)
  <2>1. stdin' = stdin \/ (process \in alive /\ stdin' = [stdin EXCEPT ![process] = Append(@, [call |-> c, what |-> "startup"])])
    BY <1>4 DEF Wire
  <2> QED
    BY <1>1, <1>4, <2>1 DEF Wire, DeadQuiet
<1>5. CASE Reset(c)
  <2>1. \A s \in Shell : stdin'[s] = IF s = process THEN <<>> ELSE stdin[s]
    BY <1>5 DEF Reset
  <2>2. alive' = alive \ {process} /\ fd3' = fd3 /\ shells' = shells
    BY <1>5 DEF Reset, Killed
  <2> QED
    BY <2>1, <2>2 DEF DeadQuiet
<1>6. CASE Spawn(c)
  <2>1. stdin' = stdin /\ fd3' = fd3 /\ shells' = shells + 1 /\ alive' = alive \cup {shells + 1}
    BY <1>6 DEF Spawn
  <2>2. \A s \in Shell : s > shells + 1 => s > shells
    BY <1>1 DEF Shell
  <2> QED
    BY <2>1, <2>2 DEF DeadQuiet
<1>7. CASE ReadLine(c) \/ DrainLine(c)
  <2>1. /\ stdin' = stdin /\ shells' = shells /\ alive' = alive /\ Take(c)
        /\ call[c].pc \in {"read", "drain"} /\ Lines(c) # <<>>
    BY <1>7 DEF ReadLine, DrainLine, At
  <2>2. call[c].at \in 0..shells
    BY DEF Inv, Recs, RecOK
  <2>3. \A s \in Shell : s > shells => s # call[c].at
    BY <1>1, <2>2 DEF Shell
  <2>4. \A s \in Shell : s > shells => fd3'[s] = fd3[s]
    BY <1>1, <2>1, <2>3 DEF Take
  <2> QED
    BY <2>1, <2>4 DEF DeadQuiet
<1>8. QED
  <2>1. Write(c) \/ Wire(c) \/ Reset(c) \/ Spawn(c) \/ ReadLine(c) \/ DrainLine(c) \/ UNCHANGED world
    BY DEF Goes, Begin, Cancel, Lock, Granted, Enter, SendFindsDead, WriteBroken, WriteLost, SendGivesUp, CloseEnds,
       SpawnFails, ReadEnds, Collide, Timeout, GiveUp, ReturnStartup, ReturnInit, ReturnUser, Raise
  <2> QED
    BY <1>2, <1>3, <1>4, <1>5, <1>6, <1>7, <2>1

LEMMA DeadQuietShell ==
    ASSUME Inv, DeadQuiet, NEW s \in Shell, Finish(s) \/ Die(s)
    PROVE  DeadQuiet'
<1>1. /\ stdin \in [Shell -> Seq(Scripts)] /\ fd3 \in [Shell -> Seq(LineSet)] /\ shells \in Nat
      /\ s \in alive /\ alive \subseteq 1..shells
  BY ShellRange DEF Inv, World, Finish, Die
<1>2. \A t \in Shell : t > shells => t # s
  BY <1>1 DEF Shell
<1>3. shells' = shells /\ \A t \in Shell : t # s => fd3'[t] = fd3[t] /\ stdin'[t] = stdin[t]
  <2>1. CASE Finish(s)
    BY <1>1, <2>1 DEF Finish
  <2>2. CASE Die(s)
    <3>1. shells' = shells /\ stdin' = [stdin EXCEPT ![s] = <<>>]
      BY <2>2 DEF Die
    <3>2. fd3' = fd3 \/ \E x : fd3' = [fd3 EXCEPT ![s] = x]
      BY <2>2 DEF Die
    <3> QED
      BY <1>1, <3>1, <3>2
  <2> QED
    BY <2>1, <2>2
<1>4. s \notin alive' => stdin'[s] = <<>>
  BY <1>1 DEF Finish, Die
<1>5. alive' \cup {s} = alive
  BY <1>1 DEF Finish, Die
<1>6. QED
  BY <1>2, <1>3, <1>4, <1>5 DEF DeadQuiet

\* The pipe of a living shell is open.
LEMMA OpenKept ==
    ASSUME Inv, Tended, alive \cap closed = {}, NEW c \in Call, Begin(c) \/ Goes(c) \/ Cancel(c), ~disturbed
    PROVE  alive' \cap closed' = {}
<1>1. CASE UNCHANGED <<alive, closed>>
  BY <1>1
<1>2. CASE Reset(c)
  <2>1. alive' = {}
    BY <1>2 DEF Reset, Killed, Inv, Sole
  <2> QED
    BY <2>1
<1>3. CASE Spawn(c)
  <2>1. shells \in Nat /\ closed \subseteq 1..shells
    BY ShellRange DEF Inv, World
  <2>2. shells + 1 \notin closed
    BY <2>1
  <2> QED
    BY <1>3, <2>2 DEF Spawn
<1>4. QED
  <2>1. Begin(c) \/ Cancel(c) \/ (Goes(c) /\ ~Reset(c) /\ ~Spawn(c)) => UNCHANGED <<alive, closed>>
    BY DEF Begin, Cancel, Goes, Lock, Granted, Enter, SendFindsDead, Write, WriteBroken, WriteLost, SendGivesUp, CloseEnds,
       SpawnFails, Wire, ReadLine, DrainLine, ReadEnds, Collide, Timeout, GiveUp, ReturnStartup, ReturnInit, ReturnUser,
       Raise, world
  <2> QED
    BY <1>1, <1>2, <1>3, <2>1

-----------------------------------------------------------------------------
(* What a call returns, and the directory it leaves.                       *)

Leaves(c) == \E k \in {"raised", "withdrawn", "cancelled"} : Leave(c, k)

LEMMA ResultStep ==
    ASSUME Inv, NEW c \in Call, Begin(c) \/ Goes(c) \/ Cancel(c)
    PROVE  /\ call[c].pc # "done"
           /\ \/ result' = result /\ cwd' = cwd /\ call'[c].pc # "done"
              \/ Leaves(c) /\ cwd' = cwd
              \/ ReturnUser(c)
<1>1. call[c].pc # "done"
  BY DEF Begin, Cancel, Goes, Lock, Granted, Enter, SendFindsDead, Write, WriteBroken, WriteLost, SendGivesUp, CloseEnds,
     Reset, Spawn, SpawnFails, Wire, ReadLine, DrainLine, ReadEnds, Collide, Timeout, GiveUp, ReturnStartup, ReturnInit,
     ReturnUser, At, Awaits
<1>2. call[c] \in CallRec /\ call \in [Call -> CallRec]
  BY DEF Inv, Recs
<1>3. CASE Raise(c) \/ Cancel(c)
  BY <1>1, <1>3 DEF Raise, Cancel, Leaves
<1>4. CASE Wire(c)
  <2>1. CASE Leave(c, "raised")
    BY <1>1, <1>4, <2>1 DEF Wire, Leaves
  <2>2. CASE ~Leave(c, "raised")
    <3>1. call'[c].pc = "read" /\ result' = result /\ cwd' = cwd
      BY <1>2, <1>4, <2>2 DEF Wire, CallRec
    <3> QED
      BY <1>1, <3>1
  <2> QED
    BY <2>1, <2>2
<1>5. CASE ReturnInit(c)
  <2>1. cwd' = cwd /\ result' = result
    BY <1>5 DEF ReturnInit, CwdAfter
  <2>2. call'[c].pc # "done"
    BY <1>2, <1>5 DEF ReturnInit, Resume, CallRec
  <2> QED
    BY <1>1, <2>1, <2>2
<1>6. CASE Begin(c) \/ Lock(c) \/ Granted(c) \/ Enter(c)
  <2>1. cwd' = cwd /\ result' = result
    BY <1>6 DEF Begin, Lock, Granted, Enter
  <2>2. CASE Begin(c) \/ Enter(c)
    BY <1>1, <1>2, <2>1, <2>2 DEF Begin, Enter, Goto, CallRec
  <2>3. CASE Lock(c) \/ Granted(c)
    BY <1>1, <2>1, <2>3, LockStep, GrantedStep DEF Takes, Inv
  <2> QED
    BY <1>6, <2>2, <2>3
<1>7. CASE Reset(c) \/ CloseEnds(c) \/ Spawn(c)
  <2>1. cwd' = cwd /\ result' = result
    BY <1>7 DEF Reset, CloseEnds, Spawn
  <2>2. call'[c].pc # "done"
    <3>1. \/ \E p \in {"closing", "spawn"} : Goto(c, p)
          \/ call' = [call EXCEPT ![c].pc = "wire", ![c].at = shells + 1]
      BY <1>7 DEF Reset, CloseEnds, Spawn
    <3> QED
      BY <1>2, <3>1 DEF Goto, CallRec
  <2> QED
    BY <1>1, <2>1, <2>2
<1>8. CASE ~Raise(c) /\ (SendFindsDead(c) \/ WriteBroken(c) \/ GiveUp(c))
  BY <1>1, <1>2, <1>8 DEF SendFindsDead, WriteBroken, GiveUp, SetTry, CallRec
<1>9. CASE ~Raise(c) /\ (Write(c) \/ WriteLost(c) \/ ReadEnds(c) \/ DrainLine(c))
  BY <1>1, <1>2, <1>9 DEF Write, WriteLost, ReadEnds, DrainLine, Goto, CallRec
<1>10. CASE ReadLine(c)
  <2>1. cwd' = cwd /\ result' = result /\ call[c].pc = "read"
    BY <1>10 DEF ReadLine, At
  <2>2. call'[c].pc # "done"
    <3>1. CASE Goto(c, "return")
      BY <1>2, <3>1 DEF Goto, CallRec
    <3>2. CASE ~Goto(c, "return")
      <4> DEFINE s == [call[c].stack EXCEPT ![1].lines = IF Len(@) < 2 THEN Append(@, Head(Lines(c))) ELSE @]
      <4>1. call' = [call EXCEPT ![c] = [call[c] EXCEPT !.stack = s]]
        BY <1>10, <3>2 DEF ReadLine
      <4> HIDE DEF s
      <4>2. [call[c] EXCEPT !.stack = s].pc = call[c].pc
        BY <1>2 DEF CallRec
      <4>3. call'[c] = [call[c] EXCEPT !.stack = s]
        BY <1>2, <4>1
      <4> QED
        BY <2>1, <4>2, <4>3
    <3> QED
      BY <3>1, <3>2
  <2> QED
    BY <1>1, <2>1, <2>2
<1>11. CASE Timeout(c) /\ ~Raise(c)
  BY <1>1, <1>2, <1>11 DEF Timeout, CallRec
<1>12. CASE ReturnStartup(c)
  <2>1. cwd' = cwd /\ result' = result
    BY <1>12 DEF ReturnStartup
  <2>2. call'[c].pc # "done"
    <3>1. Resume(c, Under(c)) \/ call' = [call EXCEPT ![c].pc = "send", ![c].stack = <<Frame("init", "check")>> \o Under(c)]
      BY <1>12 DEF ReturnStartup
    <3> QED
      BY <1>2, <3>1 DEF Resume, CallRec
  <2> QED
    BY <1>1, <2>1, <2>2
<1>13. QED
  BY <1>1, <1>3, <1>4, <1>5, <1>6, <1>7, <1>8, <1>9, <1>10, <1>11, <1>12
     DEF Goes, SendGivesUp, SpawnFails, Collide

LEMMA UntoldKept ==
    ASSUME Inv, Untold, NEW c \in Call, Begin(c) \/ Goes(c) \/ Cancel(c)
    PROVE  Untold'
<1>1. \A d \in Call \ {c} : call'[d] = call[d]
  BY StepPlaces
<1>2. call[c].pc # "done" /\ result \in [Call -> Results] /\ call \in [Call -> CallRec]
  BY ResultStep DEF Inv, World, Recs
<1>3. CASE result' = result
  BY <1>1, <1>2, <1>3 DEF Untold
<1>4. CASE \E x : result' = [result EXCEPT ![c] = x] /\ call' = [call EXCEPT ![c] = Fresh("done")]
  <2>1. call'[c].pc = "done"
    BY <1>2, <1>4 DEF Fresh
  <2>2. \A d \in Call \ {c} : result'[d] = result[d]
    BY <1>2, <1>4
  <2> QED
    BY <1>1, <2>1, <2>2 DEF Untold
<1>5. QED
  BY <1>3, <1>4, ResultStep DEF Leaves, Leave, ReturnUser

\* At the end of its command a call has what its own script reported.
LEMMA OwnLines ==
    ASSUME Inv, NEW c \in Call, call[c].pc = "return", Tends(c)
    PROVE  LET f == Top(c) IN
           /\ f \in Frames /\ Len(f.lines) \in Nat
           /\ \A i \in 1..Len(f.lines) : f.lines[i].call = c
           /\ f.lines # <<>> => f.lines[1].part = "code" /\ f.lines[1].what = f.what
<1> DEFINE f == Top(c)
           R == OwnReport(c, f)
<1>1. Good(call[c].stack) /\ f = call[c].stack[1] /\ f \in Frames
  BY TopFacts DEF Inv, Working
<1>2. 1 \in 1..Len(call[c].stack)
  BY <1>1, GoodLen
<1>3. Noted(c, f)
  BY <1>1, <1>2 DEF Tends, FramesFit
<1> HIDE DEF f
<1>4. f.lines \in Seq(LineSet) /\ Len(f.lines) \in Nat
  BY <1>1 DEF Frames
<1>5. /\ Len(f.lines) < Len(R) /\ \A i \in 1..Len(f.lines) : f.lines[i] = R[i]
  BY <1>3, <1>4 DEF Noted, Part
<1>6. /\ Len(R) \in {1, 3} /\ \A i \in 1..Len(R) : R[i].call = c /\ R[i].what = f.what
      /\ Len(R) = 3 => R[1].part = "code"
  BY <1>1, ReportFacts
<1> HIDE DEF R
<1>7. \A i \in 1..Len(f.lines) : i \in 1..Len(R)
  BY <1>4, <1>5, <1>6
<1>8. \A i \in 1..Len(f.lines) : f.lines[i].call = c
  BY <1>5, <1>6, <1>7
<1>9. ASSUME f.lines # <<>> PROVE f.lines[1].part = "code" /\ f.lines[1].what = f.what
  <2>1. 1 \in 1..Len(f.lines)
    BY <1>4, <1>9
  <2>2. Len(R) = 3
    BY <1>4, <1>5, <1>6, <2>1
  <2> QED
    BY <1>5, <1>6, <1>7, <2>1, <2>2
<1>10. QED
  BY <1>1, <1>4, <1>8, <1>9 DEF f

LEMMA OwnStatusKept ==
    ASSUME Inv, OwnStatus, Untold, cwd \in Call \cup {Nobody}, ~disturbed => Tended,
           NEW c \in Call, Begin(c) \/ Goes(c) \/ Cancel(c), disturbed => disturbed'
    PROVE  OwnStatus' /\ cwd' \in Call \cup {Nobody}
<1>1. result \in [Call -> Results] /\ call[c].pc # "done"
  BY ResultStep DEF Inv, World
<1>2. CASE result' = result /\ cwd' = cwd
  BY <1>2 DEF OwnStatus
<1>3. CASE Leaves(c) /\ cwd' = cwd
  <2>1. PICK k \in {"raised", "withdrawn", "cancelled"} : result' = [result EXCEPT ![c] = Result(k, Nobody)]
    BY <1>3 DEF Leaves, Leave
  <2>2. result'[c].kind # "status" /\ \A d \in Call \ {c} : result'[d] = result[d]
    BY <1>1, <2>1 DEF Result
  <2>3. result[c].kind = "none"
    BY <1>1 DEF Untold
  <2>4. ~disturbed /\ cwd # Nobody => cwd # c
    BY <2>3 DEF OwnStatus
  <2> QED
    BY <1>3, <2>2, <2>4 DEF OwnStatus
<1>4. CASE ReturnUser(c)
  <2> DEFINE f == Top(c)
  <2>1. /\ call[c].pc = "return" /\ f.what = "user" /\ f \in Frames
        /\ result' = [result EXCEPT ![c] = Outcome(f)] /\ cwd' = CwdAfter(f)
    BY <1>4, TopFacts DEF ReturnUser, At, Working, Inv
  <2> HIDE DEF f
  <2>2. f.lines \in Seq(LineSet)
    BY <2>1 DEF Frames
  <2>3. cwd' = IF LeavesCwd(f) THEN f.lines[2].call ELSE cwd
    BY <2>1 DEF CwdAfter
  <2>4. cwd' \in Call \cup {Nobody}
    <3>1. CASE LeavesCwd(f)
      <4>1. f.lines[2] \in LineSet
        BY <2>2, <3>1 DEF LeavesCwd
      <4> QED
        BY <2>3, <3>1, <4>1 DEF LineSet
    <3> QED
      BY <2>3, <3>1
  <2>5. result'[c] = Outcome(f) /\ \A d \in Call \ {c} : result'[d] = result[d]
    BY <1>1, <2>1
  <2>6. ASSUME ~disturbed' PROVE OwnStatus'
    <3>1. ~disturbed /\ Tends(c)
      BY <2>1, <2>6 DEF Tended, Works, Working
    <3>2. /\ \A i \in 1..Len(f.lines) : f.lines[i].call = c
          /\ f.lines # <<>> => f.lines[1].part = "code" /\ f.lines[1].what = f.what
      BY <2>1, <3>1, OwnLines DEF f
    <3>3. Outcome(f).kind = "status" => Outcome(f).of = c
      <4>1. f.lines # <<>> => 1 \in 1..Len(f.lines)
        BY <2>2
      <4> QED
        BY <2>1, <3>2, <4>1 DEF Outcome, Result
    <3>4. LeavesCwd(f) => f.lines[2].call = c /\ f.lines # <<>>
      BY <2>2, <3>2 DEF LeavesCwd
    <3>5. f.lines # <<>> => Outcome(f).kind \in {"status", "timeout"}
      BY DEF Outcome, Result
    <3>6. result[c].kind = "none"
      BY <1>1 DEF Untold
    <3>7. cwd # Nobody => cwd # c /\ result[cwd].kind \in {"status", "timeout"}
      BY <3>1, <3>6 DEF OwnStatus
    <3>8. cwd' # Nobody => result'[cwd'].kind \in {"status", "timeout"}
      <4>1. CASE LeavesCwd(f)
        BY <2>3, <2>5, <3>4, <3>5, <4>1
      <4>2. CASE ~LeavesCwd(f)
        BY <2>3, <2>5, <3>7, <4>2
      <4> QED
        BY <4>1, <4>2
    <3>9. \A d \in Call : result'[d].kind = "status" => result'[d].of = d
      BY <2>5, <3>1, <3>3 DEF OwnStatus
    <3> QED
      BY <3>8, <3>9 DEF OwnStatus
  <2> QED
    BY <2>4, <2>6 DEF OwnStatus
<1>5. QED
  BY <1>2, <1>3, <1>4, ResultStep

-----------------------------------------------------------------------------
(* A step of a call leaves the pipes to it, or clean.                      *)

LEMMA Leads ==
    ASSUME Inv, NEW c \in Call, Works(c), Tends(c), ~disturbed
    PROVE  /\ call \in [Call -> CallRec] /\ call[c] \in CallRec /\ RecOK(call[c], shells)
           /\ Good(call[c].stack) /\ Top(c) = call[c].stack[1] /\ call[c].stack[1] \in Frames
           /\ 1 \in 1..Len(call[c].stack)
           /\ Noted(c, call[c].stack[1]) /\ (call[c].pc \notin Reading => Blank(call[c].stack[1]))
           /\ call[c].stack[1].what = "lock" => call[c].pc \in {"spawn", "wire"}
           /\ stdin \in [Shell -> Seq(Scripts)] /\ fd3 \in [Shell -> Seq(LineSet)]
           /\ process # None => process \in Shell /\ process \in 1..shells
<1>1. /\ call[c] \in CallRec /\ RecOK(call[c], shells) /\ Good(call[c].stack) /\ call \in [Call -> CallRec]
      /\ Top(c) = call[c].stack[1] /\ call[c].stack[1] \in Frames
  BY TopFacts DEF Inv, Works, Recs
<1>2. 1 \in 1..Len(call[c].stack)
  BY <1>1, GoodLen
<1>3. process # None => process \in Shell /\ process \in 1..shells
  BY ShellRange DEF Inv, World, None
<1>4. QED
  BY <1>1, <1>2, <1>3 DEF Tends, FramesFit, Inv, World

\* The shell is to be started anew.
LEMMA TryFits ==
    ASSUME Inv, NEW c \in Call, Works(c), Tends(c), ~disturbed, NEW t \in Tries, call' = SetTry(c, t),
           call[c].pc = "send" \/ (call[c].pc = "drain" /\ t = "over")
    PROVE  call'[c].pc = "reset" /\ FramesFit(c, call'[c].stack, "reset")
<1> DEFINE s == call[c].stack
           f == [s[1] EXCEPT !.try = t]
<1>1. /\ Good(s) /\ s[1] \in Frames /\ Noted(c, s[1]) /\ s[1].what # "lock" /\ call[c] \in CallRec
      /\ call[c].pc = "send" => Blank(s[1]) /\ s[1].try # "over"
  BY Leads DEF Tends, FramesFit, Reading
<1>2. f \in Frames /\ f.what = s[1].what /\ f.lines = s[1].lines /\ f.try = t
  BY <1>1 DEF Frames
<1>3. call'[c].pc = "reset" /\ call'[c].stack = [s EXCEPT ![1] = f]
  BY <1>1, Leads DEF SetTry, CallRec
<1> HIDE DEF f
<1>4. Noted(c, f) /\ Blank(f)
  BY <1>1, <1>2, NotedSame DEF Blank
<1> HIDE DEF s
<1>5. FramesFit(c, s, call[c].pc)
  BY DEF Tends, s
<1>6. FramesFit(c, [s EXCEPT ![1] = f], "reset")
  BY <1>1, <1>2, <1>4, <1>5, FitsTouch
<1>7. QED
  BY <1>3, <1>6

LEMMA SendTends ==
    ASSUME Inv, DeadQuiet, NEW c \in Call, Works(c), Tends(c), ~disturbed,
           SendFindsDead(c) \/ Write(c) \/ WriteBroken(c) \/ WriteLost(c)
    PROVE  Works(c)' /\ Tends(c)'
<1> DEFINE s == call[c].stack
<1>1. /\ call[c].pc = "send" /\ ctrl = process /\ Clean /\ process' = process /\ ctrl' = ctrl /\ fd3' = fd3
      /\ FramesFit(c, s, "send")
  BY DEF SendFindsDead, Write, WriteBroken, WriteLost, At, Tends, session, world
<1>2. CASE SendFindsDead(c) \/ WriteBroken(c)
  <2>1. stdin' = stdin /\ \E t \in Tries : call' = SetTry(c, t)
    BY <1>2 DEF SendFindsDead, WriteBroken, world, Tries
  <2>2. call'[c].pc = "reset" /\ FramesFit(c, call'[c].stack, "reset")
    BY <1>1, <2>1, TryFits
  <2> QED
    BY <1>1, <2>1, <2>2 DEF Tends, Works, Working, Clean
<1>3. CASE Write(c) \/ WriteLost(c)
  <2>1. /\ call'[c].pc = "read" /\ call'[c].at = process /\ call'[c].stack = s /\ process # None
    BY <1>1, <1>3, Leads DEF Write, WriteLost, Missing, CallRec
  <2>2. s[1].lines = <<>> /\ Top(c) = s[1] /\ s[1] \in Frames /\ s[1].what # "lock" /\ process \in Shell
    BY <1>1, <2>1, Leads DEF FramesFit, Reading, Blank
  <2>3. FramesFit(c, s, "read")
    BY <1>1, <2>2, FitsOn DEF Reading
  <2>4. stdin[process] = <<>> /\ fd3[process] = <<>>
    BY <1>1, <2>1 DEF Clean
  <2>5. stdin'[process] = <<>> \/ stdin'[process] = <<OwnScript(c, s[1])>>
    BY <1>3, <2>2, <2>4, Leads DEF Write, WriteLost, world, OwnScript
  <2>6. Part(<<>>, OwnReport(c, s[1]), 0) /\ 0 \in 0..Len(OwnReport(c, s[1])) /\ Len(<<>>) = 0
    <3>1. OwnReport(c, s[1]) \in Seq(LineSet)
      BY <2>2, ReportFacts
    <3>2. 0 \in 0..Len(OwnReport(c, s[1]))
      BY <3>1
    <3> QED
      BY <3>1, <3>2, PartNone
  <2> HIDE DEF s
  <2>7. Flow(c)'
    BY <1>1, <2>1, <2>2, <2>4, <2>5, <2>6 DEF Flow
  <2> QED
    BY <2>1, <2>3, <2>7 DEF Tends, Works, Working
<1>4. QED
  BY <1>2, <1>3

LEMMA StartTends ==
    ASSUME Inv, Inv', DeadQuiet, DeadQuiet', NEW c \in Call, Works(c), Tends(c), ~disturbed,
           Reset(c) \/ CloseEnds(c) \/ Spawn(c)
    PROVE  Works(c)' /\ Tends(c)'
<1> DEFINE s == call[c].stack
<1>1. FramesFit(c, s, call[c].pc) /\ call \in [Call -> CallRec] /\ call[c] \in CallRec
  BY Leads DEF Tends
<1>2. s[1].what = "lock" => call[c].pc \in {"spawn", "wire"}
  BY Leads
<1>3. CASE Reset(c)
  <2>1. call[c].pc = "reset" /\ ctrl' = None /\ call'[c].stack = s
    BY <1>1, <1>3 DEF Reset, At, Goto, CallRec
  <2>2. call'[c].pc = "closing" \/ (call'[c].pc = "spawn" /\ process' = None)
    BY <1>1, <1>3 DEF Reset, Closed, Goto, CallRec
  <2>3. FramesFit(c, s, call'[c].pc)
    BY <1>1, <1>2, <2>1, <2>2, FitsOn DEF Reading
  <2> QED
    BY <2>1, <2>2, <2>3 DEF Tends, Works, Working, Clean
<1>4. CASE CloseEnds(c)
  <2>1. /\ call[c].pc = "closing" /\ ctrl' = None /\ process' = None /\ call'[c].stack = s
        /\ call'[c].pc = "spawn"
    BY <1>1, <1>4 DEF CloseEnds, Closed, At, Goto, CallRec, Tends
  <2>2. FramesFit(c, s, "spawn")
    BY <1>1, <2>1, FitsOn DEF Reading
  <2> QED
    BY <2>1, <2>2 DEF Tends, Works, Working, Clean
<1>5. CASE Spawn(c)
  <2>1. /\ call[c].pc = "spawn" /\ process' = shells + 1 /\ call'[c].stack = s /\ stdin' = stdin /\ fd3' = fd3
        /\ call'[c].pc = "wire" /\ call'[c].at = shells + 1 /\ shells < MaxShell
    BY <1>1, <1>5 DEF Spawn, At, CallRec
  <2>2. FramesFit(c, s, "wire")
    BY <1>1, <2>1, FitsOn DEF Reading
  <2>3. shells + 1 \in Shell /\ shells + 1 > shells /\ shells + 1 \notin alive
    <3>1. shells \in Nat /\ alive \subseteq 1..shells /\ MaxShell \in Nat
      BY ShellRange, ConstantsAssumption DEF Inv, World
    <3> QED
      BY <2>1, <3>1 DEF Shell
  <2>4. stdin[shells + 1] = <<>> /\ fd3[shells + 1] = <<>>
    BY <2>3 DEF DeadQuiet
  <2> QED
    BY <2>1, <2>2, <2>4 DEF Tends, Works, Working, Clean
<1>6. QED
  BY <1>3, <1>4, <1>5

LEMMA WireTends ==
    ASSUME Inv, NEW c \in Call, Works(c), Tends(c), ~disturbed, Wire(c)
    PROVE  \/ Works(c)' /\ Tends(c)'
           \/ Leaves(c) /\ Rest'
<1> DEFINE s == call[c].stack
           f == Frame("startup", "none")
<1>1. /\ call[c].pc = "wire" /\ ctrl' = process /\ process' = process /\ fd3' = fd3 /\ Clean
      /\ call[c].at = process
  BY DEF Wire, At, Tends
<1>2. call[c].at # None
  BY <1>1, Leads DEF RecOK
<1>3. CASE Leave(c, "raised")
  <2>1. stdin' = stdin
    <3>1. CASE UNCHANGED stdin
      BY <3>1
    <3>2. CASE call' = [call EXCEPT ![c].pc = "read", ![c].stack = <<f>> \o @]
      <4>1. call'[c].pc = "read"
        BY <3>2, Leads DEF CallRec
      <4>2. call'[c].pc = "done"
        BY <1>3, Leads DEF Leave, Fresh
      <4> QED
        BY <4>1, <4>2
    <3> QED
      BY <3>1, <3>2 DEF Wire
  <2> QED
    BY <1>1, <1>3, <2>1 DEF Leaves, Rest, Clean
<1>4. CASE ~Leave(c, "raised")
  <2>1. /\ call' = [call EXCEPT ![c].pc = "read", ![c].stack = <<f>> \o @]
        /\ stdin' = IF process \in alive
                    THEN [stdin EXCEPT ![process] = Append(@, [call |-> c, what |-> "startup"])]
                    ELSE stdin
    BY <1>4 DEF Wire
  <2>2. call'[c].pc = "read" /\ call'[c].stack = <<f>> \o s /\ call'[c].at = process
    BY <1>1, <2>1, Leads DEF CallRec
  <2>3. f \in Frames /\ f.what = "startup" /\ f.lines = <<>> /\ f.try = "none"
    BY FrameType DEF Whats, Tries, Frame
  <2> HIDE DEF f
  <2>4. Good(s) /\ Below(c, s)
    BY <1>1, Leads, FitsBelow DEF Tends, Reading
  <2>5. FramesFit(c, <<f>> \o s, "read")
    BY <2>3, <2>4, FitsPush
  <2>6. (<<f>> \o s)[1] = f
    BY <2>4 DEF Good
  <2>7. stdin[process] = <<>> /\ fd3[process] = <<>> /\ process \in Shell
    BY <1>1, <1>2, Leads DEF Clean
  <2>8. stdin'[process] = <<>> \/ stdin'[process] = <<OwnScript(c, f)>>
    BY <2>1, <2>3, <2>7, Leads DEF OwnScript
  <2>9. Part(<<>>, OwnReport(c, f), 0) /\ 0 \in 0..Len(OwnReport(c, f)) /\ Len(<<>>) = 0
    <3>1. OwnReport(c, f) \in Seq(LineSet)
      BY <2>3, ReportFacts
    <3>2. 0 \in 0..Len(OwnReport(c, f))
      BY <3>1
    <3> QED
      BY <3>1, <3>2, PartNone
  <2>10. Flow(c)'
    BY <1>1, <2>2, <2>3, <2>6, <2>7, <2>8, <2>9 DEF Flow
  <2> QED
    BY <2>2, <2>5, <2>10 DEF Tends, Works, Working
<1>5. QED
  BY <1>3, <1>4

\* What a call that reads finds.
LEMMA Reads ==
    ASSUME Inv, NEW c \in Call, Works(c), Tends(c), ~disturbed, call[c].pc \in {"read", "drain"}
    PROVE  LET f == call[c].stack[1]
               R == OwnReport(c, f)
           IN /\ Flow(c) /\ process \in Shell /\ process # None /\ Lines(c) = fd3[process]
              /\ Lines(c) \in Seq(LineSet) /\ f \in Frames /\ f.lines \in Seq(LineSet) /\ R \in Seq(LineSet)
              /\ Len(R) \in {1, 3} /\ \A i \in 1..Len(R) : R[i] = Line(c, f.what, "end") <=> i = Len(R)
              /\ f.what # "lock" /\ Top(c) = f
<1>1. call[c].at # None /\ Flow(c)
  BY Leads DEF RecOK, Tends
<1>2. process \in Shell /\ process # None /\ Lines(c) = fd3[process]
  BY <1>1, Leads DEF Flow, Lines
<1>3. call[c].stack[1] \in Frames /\ call[c].stack[1].what # "lock" /\ Top(c) = call[c].stack[1]
  BY Leads
<1>4. QED
  BY <1>1, <1>2, <1>3, Leads, ReportFacts DEF Frames

\* A line is taken: it is the next of its report, and nothing is left
\* after the sentinel.
LEMMA Taken ==
    ASSUME Inv, NEW c \in Call, Works(c), Tends(c), ~disturbed, call[c].pc \in {"read", "drain"},
           Lines(c) # <<>>, Take(c)
    PROVE  LET f == call[c].stack[1]
               R == OwnReport(c, f)
           IN /\ stdin[process] = <<>> /\ fd3'[process] \in Seq(LineSet)
              /\ Own(c, Head(Lines(c))) => fd3'[process] = <<>>
              /\ ~Own(c, Head(Lines(c))) =>
                   \E k \in 0..Len(R) : /\ k + 1 \in 1..(Len(R) - 1) /\ Head(Lines(c)) = R[k + 1]
                                        /\ Part(fd3'[process], R, k + 1)
                                        /\ call[c].pc = "read" => k = Len(f.lines)
<1> DEFINE f == call[c].stack[1]
           R == OwnReport(c, f)
           q == fd3[process]
<1>1. /\ Flow(c) /\ process \in Shell /\ Lines(c) = q
      /\ q \in Seq(LineSet) /\ R \in Seq(LineSet) /\ Len(R) \in {1, 3}
      /\ \A i \in 1..Len(R) : R[i] = Line(c, f.what, "end") <=> i = Len(R)
      /\ Top(c) = f
  BY Reads
<1>2. PICK k \in 0..Len(R) : (call[c].pc = "read" => k = Len(f.lines)) /\ Part(q, R, k)
  BY <1>1 DEF Flow
<1>3. stdin[process] = <<>>
  BY <1>1 DEF Flow
<1>4. fd3'[process] = Tail(q)
  BY <1>1, Leads DEF Take, Flow, Lines
<1>5. Own(c, Head(q)) <=> Head(q) = Line(c, f.what, "end")
  BY <1>1 DEF Own
<1> HIDE DEF f, R, q
<1>6. k \in Nat /\ Len(R) \in Nat
  BY <1>1
<1>7. /\ Head(q) = R[k + 1] /\ k + 1 \in 1..Len(R) /\ Part(Tail(q), R, k + 1)
      /\ k + 1 = Len(R) => Tail(q) = <<>>
  BY <1>1, <1>2, <1>6, PartTail
<1>8. Own(c, Head(q)) <=> k + 1 = Len(R)
  BY <1>1, <1>5, <1>7
<1>9. k + 1 # Len(R) => k + 1 \in 1..(Len(R) - 1)
  BY <1>6, <1>7
<1>10. Tail(q) \in Seq(LineSet)
  BY <1>1
<1>11. QED
  BY <1>1, <1>2, <1>3, <1>4, <1>7, <1>8, <1>9, <1>10 DEF f, R, q

LEMMA ReadTends ==
    ASSUME Inv, NEW c \in Call, Works(c), Tends(c), ~disturbed, ReadLine(c) \/ DrainLine(c)
    PROVE  Works(c)' /\ Tends(c)'
<1> DEFINE s == call[c].stack
           R == OwnReport(c, s[1])
<1>1. /\ call[c].pc \in {"read", "drain"} /\ Lines(c) # <<>> /\ Take(c) /\ stdin' = stdin
      /\ process' = process /\ ctrl' = ctrl
  BY DEF ReadLine, DrainLine, At, session
<1>2. /\ stdin[process] = <<>> /\ ctrl = process /\ call[c].at = process /\ call[c].pc \in Reading
      /\ Own(c, Head(Lines(c))) => fd3'[process] = <<>>
  BY <1>1, Taken DEF Tends, Flow, Reading
<1>3. s[1].what # "lock" /\ FramesFit(c, s, call[c].pc) /\ call[c] \in CallRec /\ call \in [Call -> CallRec]
  BY <1>1, Reads, Leads DEF Tends
<1>4. CASE Own(c, Head(Lines(c)))
  <2>1. call'[c].pc = "return" /\ call'[c].stack = s
    BY <1>3, <1>4 DEF ReadLine, DrainLine, Goto, CallRec
  <2>2. FramesFit(c, s, "return")
    BY <1>3, FitsOn DEF Reading
  <2> QED
    BY <1>1, <1>2, <1>4, <2>1, <2>2 DEF Tends, Works, Working, Clean
<1>5. ASSUME ~Own(c, Head(Lines(c))) PROVE Works(c)' /\ Tends(c)'
  <2>1. PICK k \in 0..Len(R) : /\ k + 1 \in 1..(Len(R) - 1) /\ Head(Lines(c)) = R[k + 1]
                               /\ Part(fd3'[process], R, k + 1)
                               /\ call[c].pc = "read" => k = Len(s[1].lines)
    BY <1>1, <1>5, Taken
  <2>2. Len(R) \in {1, 3} /\ R \in Seq(LineSet)
    BY <1>1, Reads
  <2>3. k \in {0, 1} /\ k + 1 \in 0..Len(R) /\ k + 1 < Len(R) /\ k + 1 \in 1..Len(R)
    <3>1. \A m \in {1, 3} : \A j \in 0..m : j + 1 \in 1..(m - 1) =>
            j \in {0, 1} /\ j + 1 \in 0..m /\ j + 1 < m /\ j + 1 \in 1..m
      OBVIOUS
    <3> DEFINE n == Len(R)
    <3>2. n \in {1, 3} /\ k \in 0..n /\ k + 1 \in 1..(n - 1)
      BY <2>1, <2>2
    <3> HIDE DEF n
    <3>3. k \in {0, 1} /\ k + 1 \in 0..n /\ k + 1 < n /\ k + 1 \in 1..n
      BY <3>1, <3>2
    <3> QED
      BY <3>3 DEF n
  <2>4. CASE DrainLine(c)
    <3>1. call[c].pc = "drain" /\ call'[c].pc = "drain" /\ call'[c].stack = s /\ call'[c].at = process
      BY <1>2, <1>3, <1>5, <2>4 DEF DrainLine, At, Goto, CallRec
    <3> HIDE DEF s
    <3>2. Flow(c)'
      BY <1>1, <1>2, <2>1, <2>3, <3>1 DEF Flow, s
    <3>3. FramesFit(c, s, "drain")
      BY <1>3, <3>1 DEF s
    <3> QED
      BY <3>1, <3>2, <3>3 DEF Tends, Works, Working
  <2>5. CASE ReadLine(c)
    <3> DEFINE x == Head(Lines(c))
               f == [s[1] EXCEPT !.lines = Append(@, x)]
    <3>1. call[c].pc = "read" /\ k = Len(s[1].lines) /\ s[1] \in Frames /\ s[1].lines \in Seq(LineSet) /\ x \in LineSet
      BY <1>1, <2>1, <2>5, Reads DEF ReadLine, At
    <3>2. Len(s[1].lines) < 2
      <4>1. k < 2
        BY <2>3
      <4> QED
        BY <3>1, <4>1
    <3>3. f.lines = Append(s[1].lines, x) /\ f.what = s[1].what /\ f \in Frames
      <4>1. Append(s[1].lines, x) \in Seq(LineSet)
        BY <3>1
      <4> QED
        BY <3>1, <4>1 DEF Frames
    <3>4. call'[c] = [call[c] EXCEPT !.stack = [s EXCEPT ![1] = f]]
      <4>1. call' = [call EXCEPT ![c].stack[1].lines = IF Len(@) < 2 THEN Append(@, x) ELSE @]
        BY <1>5, <2>5 DEF ReadLine
      <4> HIDE DEF x
      <4>2. call' = [call EXCEPT ![c].stack[1].lines = Append(@, x)]
        BY <3>2, <4>1
      <4> QED
        BY <1>3, <3>1, <4>2
    <3> HIDE DEF x, f
    <3>5. call'[c].pc = "read" /\ call'[c].at = process /\ call'[c].stack = [s EXCEPT ![1] = f]
      BY <1>2, <1>3, <3>1, <3>4 DEF CallRec
    <3>6. Noted(c, f)
      <4>1. Noted(c, s[1]) /\ OwnReport(c, f) = R
        BY <3>3, Leads DEF OwnReport, OwnScript
      <4>2. Len(s[1].lines) + 1 \in 1..Len(R) /\ x = R[Len(s[1].lines) + 1]
        BY <2>1, <2>3, <3>1 DEF x
      <4> HIDE DEF R
      <4>3. Part(s[1].lines, R, 0)
        BY <4>1 DEF Noted, R
      <4> DEFINE q == s[1].lines
      <4>4. q \in Seq(LineSet) /\ Part(q, R, 0) /\ Len(q) + 1 \in 1..Len(R) /\ x = R[Len(q) + 1]
        BY <3>1, <4>2, <4>3
      <4>5. f.lines = Append(q, x)
        BY <3>3
      <4> HIDE DEF q
      <4>6. Part(Append(q, x), R, 0) /\ Len(Append(q, x)) = Len(q) + 1
        BY <2>2, <3>1, <4>4, PartMore
      <4>7. Len(f.lines) = k + 1
        BY <3>1, <4>5, <4>6 DEF q
      <4> QED
        BY <2>3, <4>1, <4>5, <4>6, <4>7 DEF Noted
    <3>7. Good(s) /\ DOMAIN s = 1..Len(s) /\ 1 \in 1..Len(s)
      BY Leads, GoodLen
    <3>8. FramesFit(c, [s EXCEPT ![1] = f], "read")
      <4> HIDE DEF s
      <4> QED
        BY <1>3, <3>3, <3>6, <3>7, FitsTouch DEF Reading
    <3>9. [s EXCEPT ![1] = f][1] = f
      BY <3>7
    <3>10. Len(f.lines) = k + 1
      BY <3>1, <3>3
    <3>11. OwnReport(c, f) = R
      BY <3>3 DEF OwnReport, OwnScript
    <3> HIDE DEF s, R
    <3>12. Flow(c)'
      BY <1>1, <1>2, <2>1, <2>3, <3>5, <3>9, <3>10, <3>11 DEF Flow
    <3> QED
      BY <3>5, <3>8, <3>12 DEF Tends, Works, Working
  <2> QED
    BY <2>4, <2>5
<1>6. QED
  BY <1>4, <1>5

LEMMA GivesUpTends ==
    ASSUME Inv, DeadQuiet, alive \cap closed = {}, OneWorks, NEW c \in Call, Works(c), Tends(c), ~disturbed,
           ReadEnds(c) \/ Collide(c) \/ Timeout(c) \/ GiveUp(c)
    PROVE  Works(c)' /\ Tends(c)'
<1> DEFINE s == call[c].stack
<1>1. /\ call[c].pc \in {"read", "drain"} /\ Lines(c) = <<>> /\ call[c] \in CallRec /\ call \in [Call -> CallRec]
  BY Leads DEF ReadEnds, Collide, Timeout, GiveUp, At
<1>2. /\ Flow(c) /\ process \in Shell /\ process # None /\ Lines(c) = fd3[process] /\ Top(c) = s[1]
      /\ s[1].what # "lock" /\ FramesFit(c, s, call[c].pc) /\ ctrl = process /\ call[c].at = process
  BY <1>1, Reads DEF Tends, Flow
<1>3. CASE ReadEnds(c)
  <2>1. /\ call'[c].pc = "return" /\ call'[c].stack = s /\ UNCHANGED <<process, ctrl, stdin, fd3>>
        /\ Ended(c)
    BY <1>1, <1>3 DEF ReadEnds, Goto, CallRec, session, world
  <2>2. stdin[process] = <<>>
    BY <1>2, <2>1 DEF Ended, DeadQuiet
  <2>3. FramesFit(c, s, "return")
    BY <1>2, FitsOn DEF Reading
  <2> QED
    BY <1>1, <1>2, <2>1, <2>2, <2>3 DEF Tends, Works, Working, Clean
<1>4. CASE Collide(c)
  BY <1>4 DEF Collide, OneWorks, Works, Working
<1>5. CASE Timeout(c)
  <2> DEFINE f == [s[1] EXCEPT !.timedOut = TRUE]
  <2>1. /\ call' = [call EXCEPT ![c].pc = "drain", ![c].stack[1].timedOut = TRUE, ![c].at = ctrl]
        /\ UNCHANGED <<process, ctrl, stdin, fd3>> /\ call[c].pc = "read"
    BY <1>2, <1>5 DEF Timeout, session, world, At
  <2>2. s[1] \in Frames /\ Noted(c, s[1]) /\ Good(s) /\ DOMAIN s = 1..Len(s) /\ 1 \in 1..Len(s)
    BY Leads, GoodLen
  <2>3. f \in Frames /\ f.what = s[1].what /\ f.lines = s[1].lines
    BY <2>2 DEF Frames
  <2>4. call'[c].pc = "drain" /\ call'[c].stack = [s EXCEPT ![1] = f] /\ call'[c].at = process
    BY <1>1, <1>2, <2>1 DEF CallRec
  <2> HIDE DEF f
  <2>5. Noted(c, f) /\ [s EXCEPT ![1] = f][1] = f
    BY <2>2, <2>3, NotedSame
  <2>6. FramesFit(c, [s EXCEPT ![1] = f], "drain")
    <3> HIDE DEF s
    <3> QED
      BY <1>2, <2>2, <2>3, <2>5, FitsTouch DEF Reading
  <2>7. OwnReport(c, f) = OwnReport(c, s[1]) /\ OwnScript(c, f) = OwnScript(c, s[1])
    BY <2>3 DEF OwnReport, OwnScript
  <2>8. Flow(c)'
    <3>1. PICK k \in 0..Len(OwnReport(c, s[1])) : Part(fd3[process], OwnReport(c, s[1]), k)
      BY <1>2 DEF Flow
    <3>2. /\ stdin[process] = <<>> \/ (stdin[process] = <<OwnScript(c, s[1])>> /\ fd3[process] = <<>>)
      BY <1>2 DEF Flow
    <3> HIDE DEF s
    <3> QED
      BY <1>2, <2>1, <2>4, <2>5, <2>7, <3>1, <3>2 DEF Flow
  <2> QED
    BY <2>4, <2>6, <2>8 DEF Tends, Works, Working
<1>6. CASE GiveUp(c)
  <2>1. UNCHANGED <<process, ctrl, stdin, fd3>> /\ call' = SetTry(c, "over") /\ call[c].pc = "drain" /\ "over" \in Tries
    BY <1>6 DEF GiveUp, session, world, At, Tries
  <2>2. call'[c].pc = "reset" /\ FramesFit(c, call'[c].stack, "reset")
    BY <2>1, TryFits
  <2>3. \A i \in DOMAIN stdin[process] : stdin[process][i].call = c
    BY <1>2 DEF Flow, OwnScript
  <2> QED
    BY <1>2, <2>1, <2>2, <2>3 DEF Tends, Works, Working
<1>7. QED
  BY <1>3, <1>4, <1>5, <1>6

\* The read below the top frame goes on, or the shell is started.
LEMMA ResumeTends ==
    ASSUME Inv, NEW c \in Call, Works(c), Tends(c), ~disturbed, call[c].pc = "return",
           Top(c).what \in {"startup", "init"}, Resume(c, Under(c)), UNCHANGED <<process, ctrl, stdin, fd3>>
    PROVE  \/ Works(c)' /\ Tends(c)'
           \/ ~Works(c)' /\ Rest'
<1> DEFINE s == call[c].stack
           t == Tail(s)
<1>1. /\ Good(s) /\ s[1].what \in {"startup", "init"} /\ FramesFit(c, s, "return") /\ ctrl = process /\ Clean
      /\ call[c] \in CallRec /\ call \in [Call -> CallRec]
  BY Leads DEF Tends
<1>2. Good(t)
  BY <1>1, GoodPop
<1>3. Below(c, t)
  <2> HIDE DEF s
  <2> QED
    BY <1>1, FitsTail
<1> HIDE DEF s, t
<1>4. Head(t) = t[1]
  BY <1>2, GoodLen
<1>5. /\ call'[c].stack = t
      /\ call'[c].pc = IF t[1].what = "lock" THEN "lock" ELSE IF t[1].try = "over" THEN "return" ELSE "send"
  BY <1>1, <1>4 DEF Resume, Under, CallRec, s, t
<1>6. Rest'
  BY <1>1 DEF Rest, Clean
<1>7. CASE t[1].what = "lock"
  BY <1>5, <1>6, <1>7 DEF Works, Working
<1>8. CASE t[1].what # "lock"
  <2>1. FramesFit(c, t, IF t[1].try = "over" THEN "return" ELSE "send")
    BY <1>3, <1>8, FitsPop
  <2>2. call'[c].pc \in {"return", "send"} /\ FramesFit(c, t, call'[c].pc)
    BY <1>5, <1>8, <2>1
  <2> QED
    BY <1>5, <1>6, <2>2 DEF Tends, Works, Working, Rest
<1>9. QED
  BY <1>7, <1>8

LEMMA ReturnTends ==
    ASSUME Inv, NEW c \in Call, Works(c), Tends(c), ~disturbed,
           ReturnStartup(c) \/ ReturnInit(c) \/ ReturnUser(c)
    PROVE  \/ Works(c)' /\ Tends(c)'
           \/ ~Works(c)' /\ Rest'
<1> DEFINE s == call[c].stack
           f == Frame("init", "check")
           t == Tail(s)
<1>1. /\ call[c].pc = "return" /\ UNCHANGED <<process, ctrl, stdin, fd3>> /\ ctrl = process /\ Clean
      /\ call[c] \in CallRec /\ call \in [Call -> CallRec] /\ Good(s) /\ Top(c) = s[1]
      /\ FramesFit(c, s, "return")
  BY Leads DEF ReturnStartup, ReturnInit, ReturnUser, At, session, world, Tends
<1>2. Rest'
  BY <1>1 DEF Rest, Clean
<1>3. CASE ReturnUser(c)
  <2>1. call'[c].pc = "done"
    BY <1>1, <1>3 DEF ReturnUser, Fresh
  <2> QED
    BY <1>2, <2>1 DEF Works, Working
<1>4. CASE ReturnInit(c)
  BY <1>1, <1>4, ResumeTends DEF ReturnInit
<1>5. CASE ReturnStartup(c) /\ Resume(c, Under(c))
  BY <1>1, <1>5, ResumeTends DEF ReturnStartup
<1>6. CASE ReturnStartup(c) /\ ~Resume(c, Under(c))
  <2>1. /\ call' = [call EXCEPT ![c].pc = "send", ![c].stack = <<f>> \o t] /\ s[1].what = "startup"
    BY <1>1, <1>6 DEF ReturnStartup, Under
  <2>2. f \in Frames /\ f.what = "init" /\ f.lines = <<>> /\ f.try = "check"
    BY FrameType DEF Whats, Tries, Frame
  <2>3. Good(t)
    BY <1>1, <2>1, GoodPop
  <2>4. Below(c, t)
    <3> HIDE DEF s
    <3> QED
      BY <1>1, FitsTail
  <2> HIDE DEF s, t, f
  <2>5. call'[c].pc = "send" /\ call'[c].stack = <<f>> \o t
    BY <1>1, <2>1 DEF CallRec
  <2>6. FramesFit(c, <<f>> \o t, "send")
    BY <2>2, <2>3, <2>4, FitsPush
  <2> QED
    BY <1>2, <2>5, <2>6 DEF Tends, Works, Working, Rest
<1>7. QED
  BY <1>3, <1>4, <1>5, <1>6

\* A broken pipe, or a shell that does not start, ends the call; the pipes
\* are clean.
LEMMA RaiseRests ==
    ASSUME Inv, NEW c \in Call, Works(c), Tends(c), ~disturbed, SendGivesUp(c) \/ SpawnFails(c)
    PROVE  ~Works(c)' /\ Rest'
<1>1. call[c].pc \in {"send", "spawn"} /\ Raise(c)
  BY DEF SendGivesUp, SpawnFails, At
<1>2. UNCHANGED <<process, ctrl, stdin, fd3>> /\ ctrl = process /\ Clean
  BY <1>1 DEF Raise, world, Tends
<1>3. call'[c].pc = "done"
  BY <1>1, Leads DEF Raise, Leave, Fresh
<1>4. QED
  BY <1>2, <1>3 DEF Rest, Clean, Works, Working

\* A working call that is cancelled disturbs.
LEMMA CancelBeside ==
    ASSUME Inv, Inv', NEW c \in Call, Cancel(c), ~disturbed'
    PROVE  ~Works(c) /\ ~Works(c)'
<1>1. call[c].pc \in Awaits /\ call'[c].pc = "done"
  BY DEF Cancel, Leave, Fresh, Inv, Recs
<1>2. ASSUME call[c].pc # "queued" PROVE FALSE
  <2>1. result'[c].kind = "cancelled"
    BY <1>2 DEF Cancel, Leave, Result, Inv, World
  <2>2. Clash'
    BY <2>1 DEF Clash
  <2> QED
    BY <2>2 DEF Inv, Seen
<1>3. QED
  BY <1>1, <1>2 DEF Works, Working

LEMMA TendedCall ==
    ASSUME Inv, Inv', DeadQuiet, DeadQuiet', alive \cap closed = {}, OneWorks, OneWorks', Tended,
           NEW c \in Call, Begin(c) \/ Goes(c) \/ Cancel(c), ~disturbed, ~disturbed'
    PROVE  Tended'
<1>1. \A d \in Call \ {c} : call'[d] = call[d]
  BY StepPlaces
<1>2. call \in [Call -> CallRec] /\ call[c] \in CallRec /\ RecOK(call[c], shells)
  BY DEF Inv, Recs
<1>3. CASE Works(c)
  <2>1. Tends(c)
    BY <1>3 DEF Tended
  <2>2. (Works(c)' /\ Tends(c)') \/ (~Works(c)' /\ Rest')
    <3>1. CASE SendFindsDead(c) \/ Write(c) \/ WriteBroken(c) \/ WriteLost(c)
      BY <1>3, <2>1, <3>1, SendTends
    <3>2. CASE Reset(c) \/ CloseEnds(c) \/ Spawn(c)
      BY <1>3, <2>1, <3>2, StartTends
    <3>3. CASE Wire(c)
      <4>1. Leaves(c) => ~Works(c)'
        BY <1>2 DEF Leaves, Leave, Fresh, Works, Working
      <4> QED
        BY <1>3, <2>1, <3>3, <4>1, WireTends
    <3>4. CASE ReadLine(c) \/ DrainLine(c)
      BY <1>3, <2>1, <3>4, ReadTends
    <3>5. CASE ReadEnds(c) \/ Collide(c) \/ Timeout(c) \/ GiveUp(c)
      BY <1>3, <2>1, <3>5, GivesUpTends
    <3>6. CASE ReturnStartup(c) \/ ReturnInit(c) \/ ReturnUser(c)
      BY <1>3, <2>1, <3>6, ReturnTends
    <3>7. CASE SendGivesUp(c) \/ SpawnFails(c)
      BY <1>3, <2>1, <3>7, RaiseRests
    <3>8. CASE Cancel(c)
      BY <1>3, <3>8, CancelBeside
    <3>9. ~Begin(c) /\ ~Lock(c) /\ ~Granted(c) /\ ~Enter(c)
      BY <1>3 DEF Begin, Lock, Granted, Enter, At, Works, Working
    <3> QED
      BY <3>1, <3>2, <3>3, <3>4, <3>5, <3>6, <3>7, <3>8, <3>9 DEF Goes
  <2> QED
    BY <1>1, <1>3, <2>2, TendedOn, TendedEnd
<1>4. CASE ~Works(c)
  <2>1. Begin(c) \/ Enter(c) \/ Lock(c) \/ Granted(c) \/ Cancel(c)
    BY <1>4 DEF Works, Working, Reset, CloseEnds, Spawn, Wire, Goes, SendFindsDead, Write, WriteBroken,
       WriteLost, SendGivesUp, SpawnFails, ReadLine, ReadEnds, Collide, Timeout, DrainLine, GiveUp,
       ReturnStartup, ReturnInit, ReturnUser, At
  <2>2. UNCHANGED <<process, ctrl, stdin, fd3>>
    BY <2>1 DEF Begin, Enter, Lock, Granted, Cancel, session, world
  <2>3. CASE Begin(c)
    <3>1. CASE started
      <4>1. call'[c].pc = "lock"
        BY <1>2, <2>3, <3>1 DEF Begin, Goto, CallRec
      <4> QED
        BY <1>1, <1>4, <2>2, <4>1, TendedBeside DEF Works, Working
    <3>2. CASE ~started
      <4> DEFINE f == Frame("lock", "none")
      <4>1. call'[c].pc = "spawn" /\ call'[c].stack = <<f>>
        BY <1>2, <2>3, <3>2 DEF Begin, CallRec
      <4>2. f \in Frames /\ f.what = "lock" /\ f.lines = <<>> /\ f.try = "none"
        BY FrameType DEF Whats, Tries, Frame
      <4> HIDE DEF f
      <4>3. FramesFit(c, <<f>>, "spawn")
        BY <4>2, FitsOne
      <4>4. Works(c)'
        BY <4>1 DEF Works, Working
      <4>5. FramesFit(c, call[c].stack, call[c].pc)'
        BY <4>1, <4>3
      <4> QED
        BY <1>1, <1>4, <2>2, <4>1, <4>4, <4>5, TendedStart
    <3> QED
      BY <3>1, <3>2
  <2>4. CASE Enter(c)
    <3> DEFINE f == Frame("user", "check")
    <3>1. call'[c].pc \in {"send", "spawn"} /\ call'[c].stack = <<f>>
      BY <1>2, <2>4 DEF Enter, CallRec
    <3>2. f \in Frames /\ f.what = "user" /\ f.lines = <<>> /\ f.try = "check"
      BY FrameType DEF Whats, Tries, Frame
    <3> HIDE DEF f
    <3>3. FramesFit(c, <<f>>, call'[c].pc)
      BY <3>1, <3>2, FitsOne
    <3>4. Works(c)'
      BY <3>1 DEF Works, Working
    <3>5. FramesFit(c, call[c].stack, call[c].pc)'
      BY <3>1, <3>3
    <3> QED
      BY <1>1, <1>4, <2>2, <3>1, <3>4, <3>5, TendedStart
  <2>5. CASE Lock(c) \/ Granted(c)
    <3>1. call'[c].pc \in {"enter", "queued"}
      BY <2>5, LockStep, GrantedStep DEF Takes, Inv
    <3> QED
      BY <1>1, <1>4, <2>2, <3>1, TendedBeside DEF Works, Working
  <2>6. CASE Cancel(c)
    BY <1>1, <1>4, <2>2, <2>6, CancelBeside, TendedBeside
  <2> QED
    BY <2>1, <2>3, <2>4, <2>5, <2>6
<1>5. QED
  BY <1>3, <1>4

\* bash finishes a script, or dies: the call that reads finds what its own
\* script reports, or the beginning of it.
LEMMA FlowShell ==
    ASSUME Inv, NEW c \in Call, Works(c), Tends(c), ~disturbed, call[c].pc \in {"read", "drain"},
           Finish(process) \/ Die(process)
    PROVE  Flow(c)'
<1> DEFINE f == call[c].stack[1]
           R == OwnReport(c, f)
<1>1. /\ Flow(c) /\ process \in Shell /\ R \in Seq(LineSet) /\ f \in Frames /\ f.lines \in Seq(LineSet)
      /\ stdin \in [Shell -> Seq(Scripts)] /\ fd3 \in [Shell -> Seq(LineSet)]
  BY Reads, Leads
<1>2. UNCHANGED <<process, ctrl, call>>
  BY DEF Finish, Die, session
<1>3. CASE stdin[process] = <<>>
  <2>1. Die(process) /\ fd3' = fd3 /\ stdin' = [stdin EXCEPT ![process] = <<>>]
    BY <1>3 DEF Finish, Die
  <2>2. stdin'[process] = <<>>
    BY <1>1, <2>1
  <2> QED
    BY <1>1, <1>2, <2>1, <2>2 DEF Flow
<1>4. CASE stdin[process] = <<OwnScript(c, f)>> /\ fd3[process] = <<>> /\ (call[c].pc = "read" => f.lines = <<>>)
  <2>1. stdin[process] # <<>> /\ Head(stdin[process]) = OwnScript(c, f) /\ Tail(stdin[process]) = <<>>
    BY <1>4
  <2>2. stdin'[process] = <<>>
    BY <1>1, <2>1 DEF Finish, Die
  <2>3. \E n \in 0..Len(R) : fd3'[process] = SubSeq(R, 1, n)
    <3>1. CASE Finish(process)
      <4>1. fd3'[process] = <<>> \o R
        BY <1>1, <1>4, <2>1, <3>1 DEF Finish, OwnReport
      <4> HIDE DEF R
      <4>2. <<>> \o R = R /\ SubSeq(R, 1, Len(R)) = R /\ Len(R) \in 0..Len(R)
        BY <1>1
      <4> QED
        BY <4>1, <4>2
    <3>2. CASE Die(process)
      <4>1. PICK n \in 0..Len(R) : fd3'[process] = <<>> \o SubSeq(R, 1, n)
        BY <1>1, <1>4, <2>1, <3>2 DEF Die, OwnReport
      <4> HIDE DEF R
      <4>2. SubSeq(R, 1, n) \in Seq(LineSet)
        BY <1>1
      <4>3. <<>> \o SubSeq(R, 1, n) = SubSeq(R, 1, n)
        BY <4>2
      <4> QED
        BY <4>1, <4>3
    <3> QED
      BY <3>1, <3>2
  <2>4. Part(fd3'[process], R, 0) /\ 0 \in 0..Len(R)
    <3> HIDE DEF R
    <3> QED
      BY <1>1, <2>3, PartFirst
  <2>5. call[c].pc = "read" => 0 = Len(f.lines)
    BY <1>4
  <2> HIDE DEF R
  <2> QED
    BY <1>1, <1>2, <2>2, <2>4, <2>5 DEF Flow, R
<1>5. QED
  BY <1>1, <1>3, <1>4 DEF Flow

LEMMA TendedShell ==
    ASSUME Inv, DeadQuiet, OneWorks, Tended, ~disturbed, NEW s \in Shell, Finish(s) \/ Die(s)
    PROVE  Tended'
<1>1. /\ s = process /\ UNCHANGED <<process, ctrl, call>> /\ process # None
      /\ stdin \in [Shell -> Seq(Scripts)] /\ fd3 \in [Shell -> Seq(LineSet)]
  <2>1. s \in alive
    BY DEF Finish, Die
  <2>2. alive \subseteq {process}
    BY DEF Inv, Sole
  <2>3. s # None
    BY ConstantsAssumption DEF Shell, None
  <2>4. UNCHANGED <<process, ctrl, call>>
    BY DEF Finish, Die, session
  <2> QED
    BY <2>1, <2>2, <2>3, <2>4 DEF Inv, World
<1>2. ASSUME Clean PROVE Clean'
  <2>1. stdin[s] = <<>> /\ fd3[s] = <<>>
    BY <1>1, <1>2 DEF Clean
  <2>2. fd3' = fd3 /\ stdin' = [stdin EXCEPT ![s] = <<>>]
    BY <2>1 DEF Finish, Die
  <2> QED
    BY <1>1, <2>1, <2>2 DEF Clean
<1>3. ASSUME NEW c \in Call, Works(c) PROVE Tends(c)'
  <2>1. Tends(c)
    BY <1>3 DEF Tended
  <2>2. call[c].pc \in {"read", "drain"} => Flow(c)'
    BY <1>1, <1>3, <2>1, FlowShell
  <2>3. ASSUME call[c].pc = "reset" PROVE \A i \in DOMAIN stdin'[process] : stdin'[process][i].call = c
    <3>1. \A i \in DOMAIN stdin[process] : stdin[process][i].call = c
      BY <1>1, <2>1, <2>3 DEF Tends
    <3>2. CASE stdin'[process] = <<>>
      BY <3>2
    <3>3. CASE Finish(process)
      <4> DEFINE q == stdin[process]
      <4>1. stdin'[process] = Tail(q) /\ q # <<>> /\ q \in Seq(Scripts)
        BY <1>1, <3>3 DEF Finish
      <4> HIDE DEF q
      <4>2. \A i \in DOMAIN Tail(q) : i + 1 \in DOMAIN q /\ Tail(q)[i] = q[i + 1]
        BY <4>1
      <4> QED
        BY <3>1, <4>1, <4>2 DEF q
    <3> QED
      BY <1>1, <3>2, <3>3 DEF Die
  <2> QED
    BY <1>1, <1>2, <2>1, <2>2, <2>3 DEF Tends
<1>4. ASSUME \A c \in Call : ~Works(c) PROVE Rest'
  BY <1>1, <1>2, <1>4 DEF Tended, Rest
<1>5. ASSUME NEW c \in Call PROVE Works(c)' <=> Works(c)
  BY <1>1 DEF Works
<1>6. QED
  BY <1>3, <1>4, <1>5 DEF Tended

-----------------------------------------------------------------------------
(* Every step keeps the pipes.                                             *)

LEMMA PipeCall ==
    ASSUME Inv, Inv', Pipe, NEW c \in Call, Begin(c) \/ Goes(c) \/ Cancel(c)
    PROVE  Pipe'
<1>1. DeadQuiet' /\ Untold'
  BY DeadQuietCall, UntoldKept DEF Pipe
<1>2. disturbed => disturbed'
  <2>1. Watch
    BY DEF Begin, Cancel, Goes, Lock, Granted, Enter, SendFindsDead, Write, WriteBroken, WriteLost, SendGivesUp,
       CloseEnds, Reset, Spawn, SpawnFails, Wire, ReadLine, DrainLine, ReadEnds, Collide, Timeout, GiveUp,
       ReturnStartup, ReturnInit, ReturnUser, Raise
  <2> QED
    BY <2>1, Watched
<1>3. OwnStatus' /\ cwd' \in Call \cup {Nobody}
  BY <1>2, OwnStatusKept DEF Pipe
<1>4. ASSUME ~disturbed' PROVE alive' \cap closed' = {} /\ OneWorks' /\ Tended'
  <2>1. ~disturbed /\ DeadQuiet /\ alive \cap closed = {} /\ OneWorks /\ Tended
    BY <1>2, <1>4 DEF Pipe
  <2>2. alive' \cap closed' = {}
    BY <2>1, OpenKept
  <2>3. OneWorks'
    BY <1>4, <2>1, OneWorksKept
  <2> QED
    BY <1>1, <1>4, <2>1, <2>2, <2>3, TendedCall
<1>5. QED
  BY <1>1, <1>3, <1>4 DEF Pipe

LEMMA PipeShell ==
    ASSUME Inv, Inv', Pipe, NEW s \in Shell, Finish(s) \/ Die(s)
    PROVE  Pipe'
<1>1. /\ UNCHANGED <<call, result, cwd, closed>> /\ alive' \subseteq alive /\ (disturbed => disturbed')
  BY Watched DEF Finish, Die
<1>2. DeadQuiet'
  BY DeadQuietShell DEF Pipe
<1>3. Untold' /\ OwnStatus' /\ cwd' \in Call \cup {Nobody}
  BY <1>1 DEF Pipe, Untold, OwnStatus
<1>4. ASSUME ~disturbed' PROVE alive' \cap closed' = {} /\ OneWorks' /\ Tended'
  <2>1. ~disturbed /\ DeadQuiet /\ alive \cap closed = {} /\ OneWorks /\ Tended
    BY <1>1, <1>4 DEF Pipe
  <2>2. OneWorks'
    BY <1>1, <2>1 DEF OneWorks, Works
  <2> QED
    BY <1>1, <2>1, <2>2, TendedShell
<1>5. QED
  BY <1>2, <1>3, <1>4 DEF Pipe

LEMMA PipeStutter == ASSUME Pipe, UNCHANGED vars PROVE Pipe'
<1>1. UNCHANGED <<process, ctrl, call, result, cwd, shells, alive, closed, stdin, fd3, disturbed>>
  BY DEF vars, session, world
<1>2. DeadQuiet' /\ Untold' /\ OwnStatus' /\ OneWorks' = OneWorks
  BY <1>1 DEF Pipe, DeadQuiet, Untold, OwnStatus, OneWorks, Works
<1>3. Tended' <=> Tended
  BY <1>1 DEF Tended, Works, Tends, Flow, Rest, Clean
<1>4. QED
  BY <1>1, <1>2, <1>3 DEF Pipe

LEMMA PipeKept == ASSUME Inv, Inv', Pipe, [Next]_vars PROVE Pipe'
BY PipeCall, PipeShell, PipeStutter DEF Next

LEMMA PipeFirst == ASSUME Init PROVE Pipe
<1>1. /\ \A c \in Call : call[c].pc = "idle" /\ result[c].kind = "none"
      /\ \A s \in Shell : stdin[s] = <<>> /\ fd3[s] = <<>>
      /\ process = None /\ ctrl = None /\ cwd = Nobody /\ alive = {} /\ closed = {}
  BY DEF Init, Fresh, Pending, Result
<1>2. QED
  BY <1>1 DEF Pipe, DeadQuiet, Untold, OneWorks, Works, Working, Tended, Rest, Clean, OwnStatus

THEOREM PipeInvariance == Spec => [](Inv /\ Pipe)
<1>1. Init => Inv /\ Pipe
  BY Initially, PipeFirst
<1>2. Inv /\ Pipe /\ [Next]_vars => (Inv /\ Pipe)'
  BY Inductive, PipeKept
<1>3. QED
  BY <1>1, <1>2, PTL DEF Spec

(* The exit code a command returns, and the directory the session          *)
(* remembers, are those of its own script (_read_control_until, _timeout   *)
(* recovery, reset), unless a start or reset met another call.             *)
THEOREM StatusIsOwn == Spec => []OwnStatus
<1>1. Inv /\ Pipe => OwnStatus
  BY DEF Pipe
<1>2. QED
  BY <1>1, PipeInvariance, PTL

(* A command of a call that has returned is not left running in a living   *)
(* shell.                                                                  *)
THEOREM NothingIsLeft == Spec => []NothingLeftRunning
<1>1. ASSUME Inv, Pipe, ~disturbed, NEW c \in Call, NEW s \in alive, call[c].pc = "done"
      PROVE  \A i \in DOMAIN stdin[s] : stdin[s][i].call # c
  <2>1. s = process /\ s # None /\ s \in Shell
    BY <1>1, ShellRange DEF Inv, Sole, World, Shell, None
  <2>2. CASE \A d \in Call : ~Works(d)
    BY <1>1, <2>1, <2>2 DEF Pipe, Tended, Rest, Clean
  <2>3. ASSUME NEW d \in Call, Works(d) PROVE \A i \in DOMAIN stdin[s] : stdin[s][i].call # c
    <3>1. Tends(d) /\ d # c
      BY <1>1, <2>3 DEF Pipe, Tended, Works, Working
    <3>2. CASE call[d].pc \in {"send", "return", "spawn", "wire"}
      BY <2>1, <3>1, <3>2 DEF Tends, Clean
    <3>3. CASE call[d].pc \in {"read", "drain"}
      <4>1. stdin[s] = <<>> \/ stdin[s] = <<OwnScript(d, call[d].stack[1])>>
        BY <2>1, <3>1, <3>3 DEF Tends, Flow
      <4> QED
        BY <3>1, <4>1 DEF OwnScript
    <3>4. CASE call[d].pc = "reset"
      BY <2>1, <3>1, <3>4 DEF Tends
    <3>5. CASE call[d].pc = "closing"
      BY <1>1, <3>5 DEF Inv, Sole
    <3> QED
      BY <2>3, <3>2, <3>3, <3>4, <3>5 DEF Works, Working
  <2> QED
    BY <2>2, <2>3
<1>2. Inv /\ Pipe => NothingLeftRunning
  BY <1>1 DEF NothingLeftRunning
<1>3. QED
  BY <1>2, PipeInvariance, PTL

=============================================================================
