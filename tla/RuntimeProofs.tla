--------------------------- MODULE RuntimeProofs ---------------------------
(***************************************************************************)
(* Proofs about the agent runtime (src/nooa/runtime), for any number of    *)
(* agents, tasks, calls, jobs, channels and callers: first the calls, the  *)
(* sessions and the generation lock (ActorRuntime), then the background    *)
(* jobs (Jobs).                                                            *)
(***************************************************************************)
EXTENDS ActorRuntime, Jobs, SequenceTheorems, WellFoundedInduction, TLAPS

-----------------------------------------------------------------------------
(* Sequences and least elements.                                           *)

LEMMA LeastNat ==
    ASSUME NEW S, S \subseteq Nat, S # {}
    PROVE  \E n \in S : \A m \in S : n <= m
<1>1. IsWellFoundedOn(OpToRel(<, Nat), Nat)
  BY NatLessThanWellFounded
<1>2. PICK n \in S : \A m \in S : ~(<<m, n>> \in OpToRel(<, Nat))
  BY <1>1, WFMin
<1>3. ASSUME NEW m \in S PROVE n <= m
  <2>1. m \in Nat /\ n \in Nat
    OBVIOUS
  <2>2. ASSUME m < n PROVE <<m, n>> \in OpToRel(<, Nat)
    BY <2>1, <2>2 DEF OpToRel
  <2>3. ~(<<m, n>> \in OpToRel(<, Nat))
    BY <1>2
  <2>4. ~(m < n)
    BY <2>2, <2>3, Zenon
  <2>5. QED
    BY <2>1, <2>4
<1>4. QED
  BY <1>3

LEMMA FrontFacts ==
    ASSUME NEW S, NEW s \in Seq(S), s # <<>>
    PROVE  /\ Front(s) \in Seq(S) /\ Len(s) \in Nat \ {0} /\ Len(Front(s)) = Len(s) - 1
           /\ \A i \in 1..Len(s) - 1 : Front(s)[i] = s[i]
           /\ Last(s) \in S
<1>1. PICK n \in Nat \ {0} : n = Len(s)
  BY EmptySeq
<1>2. \A i \in 1..n : s[i] \in S
  BY <1>1, ElementOfSeq
<1> DEFINE r == SubSeq(s, 1, n - 1)
<1>3. r \in Seq(S) /\ Len(r) = n - 1 /\ \A i \in 1..n - 1 : r[i] = s[i]
  <2>1. 1 \in Int /\ n - 1 \in Int /\ \A i \in 1..n - 1 : s[i] \in S
    BY <1>2
  <2>2. /\ r \in Seq(S) /\ Len(r) = IF 1 <= n - 1 THEN n - 1 - 1 + 1 ELSE 0
        /\ \A i \in 1..n - 1 - 1 + 1 : r[i] = s[1 + i - 1]
    BY <2>1, SubSeqProperties
  <2> HIDE DEF r
  <2>3. Len(r) = n - 1
    BY <2>2
  <2>4. \A i \in 1..n - 1 : r[i] = s[i]
    BY <2>2
  <2> QED
    BY <2>2, <2>3, <2>4
<1>4. Front(s) = r
  BY <1>1 DEF Front
<1>5. Last(s) \in S
  BY <1>1, <1>2 DEF Last
<1> HIDE DEF r
<1>6. QED
  BY <1>1, <1>3, <1>4, <1>5

LEMMA FrontShort ==
    ASSUME NEW S, NEW s \in Seq(S)
    PROVE  Front(s) \in Seq(S) /\ Len(Front(s)) \in 0..Len(s)
<1>1. CASE s # <<>>
  BY <1>1, FrontFacts
<1>2. CASE s = <<>>
  <2>1. Len(s) = 0
    BY <1>2
  <2>2. Front(s) = <<>>
    <3>1. SubSeq(s, 1, 0 - 1) = <<>>
      BY SubSeqEmpty
    <3> QED
      BY <2>1, <3>1 DEF Front
  <2> QED
    BY <2>1, <2>2, EmptySeq
<1>3. QED
  BY <1>1, <1>2

LEMMA FrontAppend ==
    ASSUME NEW S, NEW s \in Seq(S), NEW e \in S
    PROVE  Front(Append(s, e)) = s
<1>1. /\ Append(s, e) \in Seq(S) /\ Append(s, e) # <<>> /\ Len(s) \in Nat
      /\ Len(Append(s, e)) = Len(s) + 1 /\ \A i \in 1..Len(s) : Append(s, e)[i] = s[i]
  BY AppendProperties, LenProperties
<1>2. /\ Front(Append(s, e)) \in Seq(S) /\ Len(Front(Append(s, e))) = Len(s) + 1 - 1
      /\ \A i \in 1..Len(s) + 1 - 1 : Front(Append(s, e))[i] = Append(s, e)[i]
  <2> DEFINE r == Append(s, e)
  <2>1. r \in Seq(S) /\ r # <<>> /\ Len(r) = Len(s) + 1
    BY <1>1
  <2> HIDE DEF r
  <2>2. /\ Front(r) \in Seq(S) /\ Len(Front(r)) = Len(r) - 1
        /\ \A i \in 1..Len(r) - 1 : Front(r)[i] = r[i]
    BY <2>1, FrontFacts
  <2> QED
    BY <2>1, <2>2 DEF r
<1>3. Len(s) + 1 - 1 = Len(s)
  BY <1>1
<1>4. QED
  BY <1>1, <1>2, <1>3, SeqEqual

LEMMA RemoveFacts ==
    ASSUME NEW S, NEW s \in Seq(S), NEW k \in 1..Len(s)
    PROVE  /\ RemoveAt(s, k) \in Seq(S) /\ Len(s) \in Nat /\ Len(RemoveAt(s, k)) = Len(s) - 1
           /\ \A i \in 1..Len(s) - 1 : RemoveAt(s, k)[i] = IF i < k THEN s[i] ELSE s[i + 1]
<1> DEFINE l == SubSeq(s, 1, k - 1)
           r == SubSeq(s, k + 1, Len(s))
<1>1. Len(s) \in Nat /\ \A i \in 1..Len(s) : s[i] \in S
  BY LenProperties, ElementOfSeq
<1>2. l \in Seq(S) /\ Len(l) = k - 1 /\ \A i \in 1..k - 1 : l[i] = s[i]
  <2>1. 1 \in Int /\ k - 1 \in Int /\ \A i \in 1..k - 1 : s[i] \in S
    BY <1>1
  <2>2. /\ l \in Seq(S) /\ Len(l) = IF 1 <= k - 1 THEN k - 1 - 1 + 1 ELSE 0
        /\ \A i \in 1..k - 1 - 1 + 1 : l[i] = s[1 + i - 1]
    BY <2>1, SubSeqProperties
  <2> HIDE DEF l
  <2>3. \A i \in 1..k - 1 : i \in 1..k - 1 - 1 + 1 /\ 1 + i - 1 = i
    OBVIOUS
  <2> QED
    BY <1>1, <2>2, <2>3
<1>3. r \in Seq(S) /\ Len(r) = Len(s) - k /\ \A i \in 1..Len(s) - k : r[i] = s[k + i]
  <2>1. k + 1 \in Int /\ Len(s) \in Int /\ \A i \in k + 1..Len(s) : s[i] \in S
    BY <1>1
  <2>2. /\ r \in Seq(S) /\ Len(r) = IF k + 1 <= Len(s) THEN Len(s) - (k + 1) + 1 ELSE 0
        /\ \A i \in 1..Len(s) - (k + 1) + 1 : r[i] = s[k + 1 + i - 1]
    BY <2>1, SubSeqProperties
  <2> HIDE DEF r
  <2>3. \A i \in 1..Len(s) - k : i \in 1..Len(s) - (k + 1) + 1 /\ k + 1 + i - 1 = k + i
    BY <1>1
  <2> QED
    BY <1>1, <2>2, <2>3
<1>4. /\ l \o r \in Seq(S) /\ Len(l \o r) = Len(l) + Len(r)
      /\ \A i \in 1..Len(l) + Len(r) : (l \o r)[i] = IF i <= Len(l) THEN l[i] ELSE r[i - Len(l)]
  BY <1>2, <1>3, ConcatProperties
<1>5. RemoveAt(s, k) = l \o r
  BY DEF RemoveAt
<1> HIDE DEF l, r
<1>6. ASSUME NEW i \in 1..Len(s) - 1 PROVE (l \o r)[i] = IF i < k THEN s[i] ELSE s[i + 1]
  <2>1. CASE i < k
    BY <1>1, <1>2, <1>3, <1>4, <2>1
  <2>2. CASE ~(i < k)
    <3>1. i - (k - 1) \in 1..Len(s) - k /\ k + (i - (k - 1)) = i + 1
      BY <1>1, <2>2
    <3> QED
      <4>1. ~(i <= Len(l)) /\ i \in 1..Len(l) + Len(r)
        BY <1>1, <1>2, <1>3, <2>2
      <4>2. (l \o r)[i] = r[i - (k - 1)]
        BY <1>2, <1>4, <4>1
      <4> QED
        BY <1>3, <2>2, <3>1, <4>2
  <2> QED
    BY <2>1, <2>2
<1>7. Len(l \o r) = Len(s) - 1
  BY <1>1, <1>2, <1>3, <1>4
<1>8. QED
  BY <1>1, <1>4, <1>5, <1>6, <1>7
-----------------------------------------------------------------------------
(* Types.                                                                  *)

States == {"free", "new", "run", "wait", "lock", "done", "dead"}
TaskRec == [st : States, ctx : Context, base : Context, frames : Seq(Frame),
            owner : Task \cup {Nobody}, level : Nat, plan : Call \cup {Nobody},
            cancel : BOOLEAN]
CallRec == [agent : Agents \cup {Nobody}, kind : MethodKinds \cup {"none"},
            task : Task \cup {Nobody}, top : BOOLEAN,
            success : {"none", "ok", "failed"}, out : Outcome]

Typed ==
    /\ env \in Envs
    /\ tasks \in [Task -> TaskRec]
    /\ calls \in [Call -> CallRec]
    /\ lock \in [Agents -> Seq(Task)]
    /\ lockLoop \in [Agents -> 0..loop]
    /\ loop \in 1..2

\* What a step that leaves a task where it was created keeps of it.
SameRoot(r, q) == /\ q.base = r.base /\ q.owner = r.owner
                  /\ q.level = r.level /\ q.plan = r.plan

\* What an open frame adds, with the calls as they are in cs.
AddedBy(cs, ctx, f) ==
    IF f.kind = "wrapper"
    THEN [ctx EXCEPT !.stack = Append(@, f.call), !.agent = cs[f.call].agent]
    ELSE [ctx EXCEPT !.gens = Append(@, f.call), !.session = TRUE]

LEMMA FreshType ==
    /\ Fresh \in TaskRec /\ Outside \in Context /\ NoCall \in CallRec
    /\ Fresh.st = "free" /\ Fresh.frames = <<>> /\ Fresh.owner = Nobody /\ Fresh.plan = Nobody
    /\ Fresh.ctx = Outside /\ Fresh.base = Outside
    /\ ~Outside.session /\ Outside.stack = <<>> /\ Outside.agent = Nobody
<1>1. /\ <<>> \in Seq(Call) /\ <<>> \in Seq(Frame)
  BY EmptySeq
<1>2. Outside \in Context
  BY <1>1 DEF Outside, Context
<1>3. Fresh \in TaskRec
  BY <1>1, <1>2 DEF Fresh, TaskRec, States
<1>4. NoCall \in CallRec
  BY DEF NoCall, CallRec, Outcome
<1>5. QED
  BY <1>2, <1>3, <1>4 DEF Fresh, Outside

LEMMA FrameType ==
    ASSUME NEW c \in Call, NEW ctx \in Context, NEW b \in BOOLEAN
    PROVE  /\ WrapperFrame(c, ctx) \in Frame /\ SessionFrame(c, ctx, b) \in Frame
           /\ NestedFrame(c, ctx) \in Frame
           /\ WrapperFrame(c, ctx).kind = "wrapper" /\ SessionFrame(c, ctx, b).kind = "session"
           /\ NestedFrame(c, ctx).kind = "nested"
           /\ \A f \in {WrapperFrame(c, ctx), SessionFrame(c, ctx, b), NestedFrame(c, ctx)} :
                 /\ f.call = c /\ f.session = ctx.session /\ f.agent = ctx.agent /\ f.out = "open"
           /\ ~WrapperFrame(c, ctx).locked /\ SessionFrame(c, ctx, b).locked = b
           /\ ~NestedFrame(c, ctx).locked
<1>1. \A l \in BOOLEAN : SessionFrame(c, ctx, l) \in Frame
  BY DEF SessionFrame, Frame, Context, Outcome
<1>2. PICK g \in Frame : /\ g = SessionFrame(c, ctx, FALSE) /\ g.call = c /\ g.out = "open"
                         /\ g.session = ctx.session /\ g.agent = ctx.agent /\ ~g.locked
  BY <1>1 DEF SessionFrame
<1>3. /\ NestedFrame(c, ctx) \in Frame
      /\ \A h \in {NestedFrame(c, ctx)} : /\ h.call = c /\ h.out = "open" /\ h.kind = "nested"
                         /\ h.session = ctx.session /\ h.agent = ctx.agent /\ ~h.locked
  BY <1>2 DEF NestedFrame, Frame
<1>4. QED
  BY <1>1, <1>2, <1>3 DEF WrapperFrame, SessionFrame, Frame, Context, Outcome

\* What a wrapper and a session set is what their frames add.
LEMMA ContextType ==
    ASSUME NEW c \in Call, NEW ctx \in Context, NEW a \in Agents
    PROVE  /\ Entered(ctx, c, a) \in Context /\ InSession(ctx, c) \in Context
           /\ [ctx EXCEPT !.gens = Append(@, c)] \in Context
           /\ Entered(ctx, c, a).session = ctx.session
           /\ Entered(ctx, c, a).stack = Append(ctx.stack, c)
           /\ Entered(ctx, c, a).agent = a
           /\ InSession(ctx, c).stack = ctx.stack
           /\ InSession(ctx, c).agent = ctx.agent
           /\ \A cs, f : f.kind = "wrapper" /\ f.call = c /\ cs[c].agent = a =>
                 AddedBy(cs, ctx, f) = Entered(ctx, c, a)
           /\ \A cs, f : f.kind = "session" /\ f.call = c => AddedBy(cs, ctx, f) = InSession(ctx, c)
           /\ \A cs, f : f.kind = "nested" /\ f.call = c /\ ctx.session =>
                 AddedBy(cs, ctx, f) = [ctx EXCEPT !.gens = Append(@, c)]
<1>1. Append(ctx.stack, c) \in Seq(Call) /\ Append(ctx.gens, c) \in Seq(Call)
  BY AppendProperties DEF Context
<1>2. QED
  BY <1>1 DEF Entered, InSession, AddedBy, Context

LEMMA PushFacts ==
    ASSUME NEW r \in TaskRec, NEW f \in Frame, NEW ctx \in Context
    PROVE  /\ Push(r, f, ctx) \in TaskRec /\ Push(r, f, ctx).frames = Append(r.frames, f)
           /\ Push(r, f, ctx).ctx = ctx /\ Push(r, f, ctx).st = r.st
           /\ Push(r, f, ctx).cancel = r.cancel /\ SameRoot(r, Push(r, f, ctx))
<1>1. Append(r.frames, f) \in Seq(Frame)
  BY AppendProperties DEF TaskRec
<1>2. QED
  BY <1>1 DEF Push, TaskRec, SameRoot
LEMMA RestoredType ==
    ASSUME NEW ctx \in Context, NEW f \in Frame
    PROVE  Restored(ctx, f) \in Context /\ Len(Restored(ctx, f).stack) \in 0..Len(ctx.stack)
<1>1. /\ Front(ctx.stack) \in Seq(Call) /\ Len(Front(ctx.stack)) \in 0..Len(ctx.stack)
      /\ Front(ctx.gens) \in Seq(Call) /\ Len(ctx.stack) \in 0..Len(ctx.stack)
  BY FrontShort, LenProperties DEF Context
<1>2. f.kind \in {"wrapper", "session", "nested"} /\ f.session \in BOOLEAN
      /\ f.agent \in Agents \cup {Nobody}
  BY DEF Frame
<1>3. CASE f.kind = "wrapper"
  <2>1. Restored(ctx, f) = [ctx EXCEPT !.agent = f.agent, !.stack = Front(@)]
    BY <1>3 DEF Restored
  <2> QED
    BY <1>1, <1>2, <2>1 DEF Context
<1>4. CASE f.kind = "session"
  <2>1. Restored(ctx, f) = [ctx EXCEPT !.session = f.session, !.gens = Front(@)]
    BY <1>4 DEF Restored
  <2> QED
    BY <1>1, <1>2, <2>1 DEF Context
<1>5. CASE f.kind = "nested"
  <2>1. Restored(ctx, f) = [ctx EXCEPT !.gens = Front(@)]
    BY <1>5 DEF Restored
  <2> QED
    BY <1>1, <1>2, <2>1 DEF Context
<1>6. QED
  BY <1>2, <1>3, <1>4, <1>5

LEMMA PopFacts ==
    ASSUME NEW r \in TaskRec, r.frames # <<>>
    PROVE  /\ Pop(r) \in TaskRec /\ Pop(r).frames = Front(r.frames)
           /\ Pop(r).ctx = Restored(r.ctx, Last(r.frames)) /\ Pop(r).st = r.st
           /\ Pop(r).cancel = r.cancel /\ SameRoot(r, Pop(r))
<1>1. r.frames \in Seq(Frame) /\ r.ctx \in Context
  BY DEF TaskRec
<1>2. Front(r.frames) \in Seq(Frame) /\ Last(r.frames) \in Frame
  BY <1>1, FrontFacts
<1>3. Restored(r.ctx, Last(r.frames)) \in Context
  BY <1>1, <1>2, RestoredType
<1>4. QED
  BY <1>2, <1>3 DEF Pop, TaskRec, SameRoot

\* Changing a flag of the innermost frame changes nothing else.
OneFrame(r, q) ==
    /\ q.ctx = r.ctx /\ SameRoot(r, q) /\ q.cancel = r.cancel
    /\ Len(q.frames) = Len(r.frames)
    /\ \A i \in 1..Len(r.frames) :
          /\ i # Len(r.frames) => q.frames[i] = r.frames[i]
          /\ q.frames[i].kind = r.frames[i].kind /\ q.frames[i].call = r.frames[i].call
          /\ q.frames[i].session = r.frames[i].session /\ q.frames[i].agent = r.frames[i].agent
          /\ q.frames[i].locked = r.frames[i].locked

LEMMA FlagFacts ==
    ASSUME NEW r \in TaskRec, r.frames # <<>>, NEW f \in Frame,
           LET g == r.frames[Len(r.frames)]
           IN /\ f.kind = g.kind /\ f.call = g.call /\ f.session = g.session
              /\ f.agent = g.agent /\ f.locked = g.locked
    PROVE  LET q == [r EXCEPT !.frames = [@ EXCEPT ![Len(r.frames)] = f]]
           IN q \in TaskRec /\ OneFrame(r, q) /\ q.st = r.st /\ q.frames[Len(r.frames)] = f
<1> DEFINE s == [r.frames EXCEPT ![Len(r.frames)] = f]
           q == [r EXCEPT !.frames = s]
<1>1. r.frames \in Seq(Frame)
  BY DEF TaskRec
<1>2. PICK n \in Nat \ {0} : n = Len(r.frames)
  BY <1>1, EmptySeq
<1>3. /\ s \in Seq(Frame) /\ Len(s) = n
      /\ \A j \in 1..n : s[j] = IF j = n THEN f ELSE r.frames[j]
  BY <1>1, <1>2, ExceptSeq
<1> HIDE DEF s
<1>4. /\ q \in TaskRec /\ q.frames = s /\ q.ctx = r.ctx /\ q.st = r.st /\ q.base = r.base
      /\ q.owner = r.owner /\ q.level = r.level /\ q.plan = r.plan /\ q.cancel = r.cancel
  BY <1>3 DEF TaskRec
<1>5. [r EXCEPT !.frames = [@ EXCEPT ![Len(r.frames)] = f]] = q
  BY DEF s, TaskRec
<1> HIDE DEF q
<1>6. OneFrame(r, q)
  BY <1>2, <1>3, <1>4 DEF OneFrame, SameRoot
<1>7. QED
  BY <1>2, <1>3, <1>4, <1>5, <1>6

LEMMA SettledFacts ==
    ASSUME NEW r \in TaskRec, r.frames # <<>>, NEW o \in Outcome
    PROVE  /\ Settled(r, o) \in TaskRec /\ OneFrame(r, Settled(r, o)) /\ Settled(r, o).st = r.st
           /\ Settled(r, o).frames[Len(r.frames)].out = o
<1> DEFINE g == r.frames[Len(r.frames)]
           f == [g EXCEPT !.out = o]
<1>1. r.frames \in Seq(Frame) /\ Len(r.frames) \in 1..Len(r.frames)
  <2>1. r.frames \in Seq(Frame)
    BY DEF TaskRec
  <2>2. PICK n \in Nat \ {0} : n = Len(r.frames)
    BY <2>1, EmptySeq
  <2> QED
    BY <2>1, <2>2
<1>2. g \in Frame
  BY <1>1, ElementOfSeq
<1>3. /\ f \in Frame /\ f.kind = g.kind /\ f.call = g.call /\ f.session = g.session
      /\ f.agent = g.agent /\ f.locked = g.locked /\ f.out = o
  BY <1>2 DEF Frame
<1>4. Settled(r, o) = [r EXCEPT !.frames = [@ EXCEPT ![Len(r.frames)] = f]]
  BY <1>1, LenProperties DEF Settled, TaskRec
<1> HIDE DEF f
<1>5. QED
  BY <1>3, <1>4, FlagFacts
-----------------------------------------------------------------------------
(* The invariant.                                                          *)

Plain == "straggler" \notin env.faults
Wrapper(t, i) == tasks[t].frames[i].kind = "wrapper"
Announced(c) == c \in Call /\ calls[c].task # Nobody

\* Tasks are created in order, each by an earlier one or by the program.
Born == \A u \in Task :
    /\ tasks[u].st = "free" => tasks[u] = Fresh
    /\ tasks[u].owner < u
    /\ tasks[u].st # "free" => \A v \in 1..u - 1 : tasks[v].st # "free"

\* Plans and frames name announced calls, a call has one planned task and one
\* wrapper, in the task that made it.
Known ==
    /\ \A c \in Call : Announced(c) => calls[c].agent \in Agents
    /\ \A t \in Task : tasks[t].plan # Nobody => Announced(tasks[t].plan)
    /\ \A t, u \in Task : tasks[t].plan = tasks[u].plan /\ tasks[t].plan # Nobody => t = u
    /\ \A t \in Task : \A i \in 1..Len(tasks[t].frames) :
          /\ Announced(tasks[t].frames[i].call)
          /\ Wrapper(t, i) => calls[tasks[t].frames[i].call].task = t
    /\ \A t \in Task : \A i, j \in 1..Len(tasks[t].frames) :
          Wrapper(t, i) /\ Wrapper(t, j) /\ tasks[t].frames[i].call = tasks[t].frames[j].call
          => i = j

\* The order frames come in, and when there are none.
Shaped == \A t \in Task :
    /\ tasks[t].st \in {"free", "new", "lock", "done"} => tasks[t].frames = <<>>
    /\ tasks[t].st \in {"new", "lock"} => tasks[t].plan # Nobody /\ ~tasks[t].base.session
    /\ \A i \in 1..Len(tasks[t].frames) :
          LET f == tasks[t].frames[i]
          IN /\ f.kind = "session" => IF i = 1 THEN tasks[t].plan # Nobody /\ f.call = tasks[t].plan
                                      ELSE Wrapper(t, i - 1)
             /\ f.locked => i = 1 /\ f.kind = "session"
             /\ f.kind = "nested" => f.session
             /\ f.out # "open" => f.kind = "wrapper"

\* A lock of the loop that runs is queued for by the live tasks that are about
\* to hold it, each once, the holder first.
Locked(t) == tasks[t].frames # <<>> /\ tasks[t].frames[1].locked
InLine(t) == Alive(t) /\ (tasks[t].st = "lock" \/ Locked(t))
Aim(t) == calls[tasks[t].plan].agent
Queued ==
    /\ \A a \in Agents : lockLoop[a] = 0 => lock[a] = <<>>
    /\ \A a \in Agents : lockLoop[a] = loop =>
          /\ \A i \in 1..Len(lock[a]) :
                /\ InLine(lock[a][i]) /\ (i > 1 => tasks[lock[a][i]].st = "lock")
                /\ tasks[lock[a][i]].plan # Nobody /\ Aim(lock[a][i]) = a
          /\ \A i, j \in 1..Len(lock[a]) : lock[a][i] = lock[a][j] => i = j
    /\ \A t \in Task : InLine(t) =>
          /\ tasks[t].plan # Nobody /\ lockLoop[Aim(t)] = loop
          /\ \E i \in 1..Len(lock[Aim(t)]) : lock[Aim(t)][i] = t

\* The wrapper that planned a task awaits it.
Awaiting == \A u \in Task :
    Alive(u) /\ tasks[u].plan # Nobody =>
        LET t == tasks[u].owner
        IN /\ t \in Task /\ tasks[t].st = "wait" /\ tasks[t].frames # <<>>
           /\ Top(t).kind = "wrapper" /\ Top(t).call = tasks[u].plan /\ Top(t).out = "open"
           /\ tasks[u].level = Len(tasks[t].frames)

\* While frames keep their tasks to themselves, the frame that created a live
\* task is open, and was not on its way into a session.
Kept == Plain => \A u \in Task :
    Alive(u) /\ tasks[u].owner # Nobody =>
        LET t == tasks[u].owner
            n == tasks[u].level
        IN /\ Alive(t) /\ n \in 1..Len(tasks[t].frames) /\ tasks[t].frames[n].out = "open"
           /\ n < Len(tasks[t].frames) =>
                 ~(Wrapper(t, n) /\ tasks[t].frames[n + 1].kind = "session")
           /\ tasks[t].st = "wait" /\ n = Len(tasks[t].frames) => tasks[u].plan = Top(t).call

\* Whoever awaits a task created outside every session is outside too.
SessionFree == \A u \in Task :
    /\ Alive(u) /\ ~tasks[u].base.session /\ tasks[u].owner # Nobody
    /\ tasks[u].plan # Nobody \/ Plain
    => Alive(tasks[u].owner) /\ ~tasks[tasks[u].owner].ctx.session

\* The contexts a task went through from its creation to its innermost frame,
\* the ones its frames will restore.
Standing(cs, ctx) ==
    /\ ctx.agent = Nobody <=> ctx.stack = <<>>
    /\ \A i \in 1..Len(ctx.stack) :
          /\ cs[ctx.stack[i]].task # Nobody
          /\ cs[ctx.stack[i]].top <=> i = 1
Follows(r, cs, p) ==
    /\ p[0] = r.base /\ p[Len(r.frames)] = r.ctx
    /\ \A i \in 1..Len(r.frames) :
          /\ p[i] = AddedBy(cs, p[i - 1], r.frames[i])
          /\ r.frames[i].session = p[i - 1].session
          /\ r.frames[i].agent = p[i - 1].agent
    /\ \A i \in 0..Len(r.frames) : Standing(cs, p[i])
Paths == \A t \in Task :
    \E p \in [0..Len(tasks[t].frames) -> Context] : Follows(tasks[t], calls, p)

\* A call is open while its wrapper is.
OpenCalls ==
    /\ \A t \in Task : \A i \in 1..Len(tasks[t].frames) :
          Wrapper(t, i) => calls[tasks[t].frames[i].call].out = "open"
    /\ \A c \in Call : Announced(c) /\ calls[c].out = "open" =>
          \E i \in 1..Len(tasks[calls[c].task].frames) :
              Wrapper(calls[c].task, i) /\ tasks[calls[c].task].frames[i].call = c

\* The ids a task inherits are those of frames around its creation.
Own(t, c, n) == \E i \in 1..n : Wrapper(t, i) /\ tasks[t].frames[i].call = c
Listed(c, s) == \E i \in 1..Len(s) : s[i] = c
Handed == Plain => \A u \in Task : Alive(u) =>
    \A c \in Call :
       /\ Listed(c, tasks[u].base.stack) =>
            LET t == tasks[u].owner
            IN /\ t # Nobody /\ Listed(c, tasks[t].ctx.stack)
               /\ calls[c].task = t => Own(t, c, tasks[u].level)
       /\ Listed(c, tasks[u].ctx.stack) => Listed(c, tasks[u].base.stack) \/ calls[c].task = u
       /\ Listed(c, tasks[u].ctx.stack) => calls[c].out = "open"

-----------------------------------------------------------------------------
(* What the parts of a step do.                                            *)

LEMMA NewTaskFacts ==
    ASSUME tasks \in [Task -> TaskRec], NEW t \in Task \cup {Nobody},
           NEW st \in States, NEW ctx \in Context, NEW p \in Call \cup {Nobody}
    PROVE  LET q == NewTask(t, st, ctx, p)
           IN /\ q \in TaskRec /\ q.st = st /\ q.ctx = ctx /\ q.base = ctx /\ q.owner = t
              /\ q.plan = p /\ q.frames = <<>>
              /\ q.level = IF t = Nobody THEN 0 ELSE Len(tasks[t].frames)
<1>1. Fresh \in TaskRec /\ Fresh.frames = <<>>
  BY FreshType
<1>2. (IF t = Nobody THEN 0 ELSE Len(tasks[t].frames)) \in Nat
  <2>1. ASSUME t # Nobody PROVE Len(tasks[t].frames) \in Nat
    BY <2>1, LenProperties DEF TaskRec
  <2> QED
    BY <2>1
<1>3. QED
  BY <1>1, <1>2 DEF NewTask, TaskRec

LEMMA MethodType ==
    ASSUME Typed, NEW m \in env.methods
    PROVE  m[1] \in Agents /\ m[2] \in MethodKinds
BY ActorAssumption DEF Typed

LEMMA AnnounceFacts ==
    ASSUME Typed, NEW t \in Task, NEW c \in Call, NEW a \in Agents, NEW k \in MethodKinds,
           Announce(t, c, a, k)
    PROVE  /\ calls' \in [Call -> CallRec] /\ calls[c].task = Nobody
           /\ calls'[c].task = t /\ calls'[c].agent = a /\ calls'[c].kind = k
           /\ calls'[c].out = "open" /\ calls'[c].top = (tasks[t].ctx.agent = Nobody)
           /\ \A d \in Call : d # c => calls'[d] = calls[d]
           /\ Len(tasks[t].ctx.stack) < MaxDepth
           /\ env' = env /\ lock' = lock /\ lockLoop' = lockLoop /\ loop' = loop
<1> DEFINE n == [NoCall EXCEPT !.agent = a, !.kind = k, !.task = t,
                               !.top = tasks[t].ctx.agent = Nobody]
<1>1. n \in CallRec /\ n.agent = a /\ n.kind = k /\ n.task = t /\ n.out = "open"
      /\ n.top = (tasks[t].ctx.agent = Nobody)
  BY DEF NoCall, CallRec, Outcome
<1>2. calls' = [calls EXCEPT ![c] = n] /\ calls[c].task = Nobody
  BY DEF Announce, FreeCall
<1> HIDE DEF n
<1>3. QED
  BY <1>1, <1>2 DEF Typed, Announce

\* A planned task of which the wrapper awaits the end is over.
LEMMA AnsweredFacts ==
    ASSUME NEW rs \in [Task -> TaskRec], NEW u \in Task, NEW o \in Outcome, NEW t \in Task,
           t = rs[u].owner, t # u, rs[t].st = "wait", rs[t].frames # <<>>
    PROVE  LET qs == Answered(rs, u, o)
           IN /\ qs \in [Task -> TaskRec]
              /\ \A v \in Task : v # u /\ v # t => qs[v] = rs[v]
              /\ qs[u].st = "done" /\ qs[u].frames = rs[u].frames /\ qs[u].plan = rs[u].plan
              /\ qs[u].owner = rs[u].owner /\ qs[u].level = rs[u].level
              /\ qs[u].ctx = Outside /\ qs[u].base = Outside
              /\ OneFrame(rs[t], qs[t]) /\ qs[t].st = "run"
              /\ qs[t].frames[Len(rs[t].frames)].out = o
<1> DEFINE d == [rs[u] EXCEPT !.st = "done", !.ctx = Outside, !.base = Outside]
           s == Settled(rs[t], o)
           w == [s EXCEPT !.st = "run"]
<1>1. /\ d \in TaskRec /\ d.st = "done" /\ d.frames = rs[u].frames /\ d.plan = rs[u].plan
      /\ d.owner = rs[u].owner /\ d.level = rs[u].level /\ d.ctx = Outside /\ d.base = Outside
  BY FreshType DEF TaskRec, States
<1>2. s \in TaskRec /\ OneFrame(rs[t], s) /\ s.frames[Len(rs[t].frames)].out = o
  BY SettledFacts
<1> HIDE DEF s
<1>3. /\ w \in TaskRec /\ w.st = "run" /\ w.frames = s.frames /\ w.ctx = s.ctx /\ w.base = s.base
      /\ w.owner = s.owner /\ w.level = s.level /\ w.plan = s.plan /\ w.cancel = s.cancel
  BY <1>2 DEF TaskRec, States
<1>4. Answered(rs, u, o) = [rs EXCEPT ![u] = d, ![t] = w]
  BY DEF Answered, s
<1> HIDE DEF d, w
<1>5. OneFrame(rs[t], w) /\ w.frames[Len(rs[t].frames)].out = o
  <2>1. w.frames[Len(rs[t].frames)].out = o
    BY <1>2, <1>3
  <2>2. SameRoot(rs[t], w) /\ w.ctx = rs[t].ctx /\ w.cancel = rs[t].cancel
    BY <1>2, <1>3 DEF OneFrame, SameRoot
  <2>3. QED
    BY <1>2, <1>3, <2>1, <2>2 DEF OneFrame
<1>6. QED
  BY <1>1, <1>3, <1>4, <1>5

\* A planned task opens its session.
LEMMA OpenedFacts ==
    ASSUME Typed, NEW u \in Task, NEW l \in BOOLEAN, tasks[u].plan \in Call,
           tasks[u].frames = <<>>
    PROVE  LET qs == Opened(u, l)
               f == SessionFrame(tasks[u].plan, tasks[u].ctx, l)
           IN /\ qs \in [Task -> TaskRec] /\ \A v \in Task : v # u => qs[v] = tasks[v]
              /\ SameRoot(tasks[u], qs[u]) /\ qs[u].st = "run"
              /\ Len(qs[u].frames) = 1 /\ qs[u].frames[1] = f /\ f \in Frame
              /\ qs[u].ctx = InSession(tasks[u].ctx, tasks[u].plan)
<1> DEFINE f == SessionFrame(tasks[u].plan, tasks[u].ctx, l)
           x == InSession(tasks[u].ctx, tasks[u].plan)
           r == Push(tasks[u], f, x)
           q == [r EXCEPT !.st = "run"]
<1>1. tasks[u] \in TaskRec /\ tasks[u].ctx \in Context
  BY DEF Typed, TaskRec
<1>2. x \in Context
  <2>1. Append(tasks[u].ctx.gens, tasks[u].plan) \in Seq(Call)
    BY <1>1, AppendProperties DEF Context
  <2> QED
    BY <1>1, <2>1 DEF InSession, Context
<1>3. f \in Frame
  BY <1>1, FrameType
<1> HIDE DEF f, x
<1>4. r \in TaskRec /\ r.frames = Append(<<>>, f) /\ r.ctx = x /\ SameRoot(tasks[u], r)
  BY <1>1, <1>2, <1>3, PushFacts
<1>5. Len(Append(<<>>, f)) = 1 /\ Append(<<>>, f)[1] = f
  <2>1. <<>> \in Seq(Frame) /\ Len(<<>>) = 0
    BY EmptySeq
  <2> QED
    BY <1>3, <2>1, AppendProperties
<1> HIDE DEF r
<1>6. /\ q \in TaskRec /\ q.st = "run" /\ q.frames = r.frames /\ q.ctx = x
      /\ SameRoot(tasks[u], q)
  BY <1>4 DEF TaskRec, States, SameRoot
<1>7. Opened(u, l) = [tasks EXCEPT ![u] = q]
  BY DEF Opened, q, r, f, x
<1> HIDE DEF q
<1>8. QED
  BY <1>3, <1>4, <1>5, <1>6, <1>7 DEF Typed, f, x

\* The queue of the lock without the task that leaves it.
LEMMA UnlockedFacts ==
    ASSUME lock \in [Agents -> Seq(Task)], NEW a \in Agents, NEW u \in Task,
           \E i \in DOMAIN lock[a] : lock[a][i] = u
    PROVE  /\ Unlocked(a, u) \in [Agents -> Seq(Task)]
           /\ \A b \in Agents : b # a => Unlocked(a, u)[b] = lock[b]
           /\ \E k \in 1..Len(lock[a]) :
                 /\ lock[a][k] = u /\ Unlocked(a, u)[a] = RemoveAt(lock[a], k)
                 /\ Len(RemoveAt(lock[a], k)) = Len(lock[a]) - 1 /\ Len(lock[a]) \in Nat
                 /\ \A i \in 1..Len(lock[a]) - 1 :
                       RemoveAt(lock[a], k)[i] = IF i < k THEN lock[a][i] ELSE lock[a][i + 1]
<1>1. lock[a] \in Seq(Task) /\ DOMAIN lock[a] = 1..Len(lock[a])
  BY LenProperties
<1>2. PICK k \in DOMAIN lock[a] : k = CHOOSE i \in DOMAIN lock[a] : lock[a][i] = u
  OBVIOUS
<1>3. lock[a][k] = u
  BY <1>2
<1>4. /\ RemoveAt(lock[a], k) \in Seq(Task) /\ Len(lock[a]) \in Nat
      /\ Len(RemoveAt(lock[a], k)) = Len(lock[a]) - 1
      /\ \A i \in 1..Len(lock[a]) - 1 :
            RemoveAt(lock[a], k)[i] = IF i < k THEN lock[a][i] ELSE lock[a][i + 1]
  BY <1>1, RemoveFacts
<1>5. Unlocked(a, u) = [lock EXCEPT ![a] = RemoveAt(lock[a], k)]
  BY <1>2 DEF Unlocked
<1>6. QED
  BY <1>1, <1>3, <1>4, <1>5
-----------------------------------------------------------------------------
(* What each step does, task by task.                                      *)

Others(T) == \A v \in Task \ T : tasks'[v] = tasks[v]

\* f is pushed; the innermost frame is popped.
Grown(r, q, f) ==
    /\ SameRoot(r, q) /\ Len(r.frames) \in Nat /\ Len(q.frames) = Len(r.frames) + 1
    /\ \A i \in 1..Len(r.frames) : q.frames[i] = r.frames[i]
    /\ q.frames[Len(r.frames) + 1] = f
Shrunk(r, q) ==
    /\ SameRoot(r, q) /\ Len(r.frames) \in Nat \ {0} /\ Len(q.frames) = Len(r.frames) - 1
    /\ \A i \in 1..Len(r.frames) - 1 : q.frames[i] = r.frames[i]
    /\ r.frames[Len(r.frames)] \in Frame

\* u begins as t, or the program, creates it.
Newborn(u, t, st, ctx, p) ==
    /\ FreeTask(u)
    /\ tasks'[u].st = st /\ tasks'[u].ctx = ctx /\ tasks'[u].base = ctx
    /\ tasks'[u].owner = t /\ tasks'[u].plan = p /\ tasks'[u].frames = <<>>

LEMMA TasksType ==
    ASSUME Typed, NEW t \in Task
    PROVE  /\ tasks[t] \in TaskRec /\ tasks[t].ctx \in Context /\ tasks[t].base \in Context
           /\ tasks[t].frames \in Seq(Frame) /\ Len(tasks[t].frames) \in Nat
           /\ DOMAIN tasks[t].frames = 1..Len(tasks[t].frames)
           /\ \A i \in 1..Len(tasks[t].frames) : tasks[t].frames[i] \in Frame
           /\ tasks[t].frames # <<>> => Len(tasks[t].frames) \in 1..Len(tasks[t].frames)
           /\ tasks[t].frames = <<>> <=> Len(tasks[t].frames) = 0
<1>1. tasks[t] \in TaskRec
  BY DEF Typed
<1>2. tasks[t].frames \in Seq(Frame)
  BY <1>1 DEF TaskRec
<1>3. tasks[t].frames = <<>> => Len(tasks[t].frames) = 0
  BY EmptySeq
<1>4. PICK n \in Nat : n = Len(tasks[t].frames)
  BY <1>2, LenProperties
<1>5. tasks[t].frames # <<>> => n \in Nat \ {0}
  BY <1>2, <1>4, EmptySeq
<1>6. QED
  BY <1>1, <1>2, <1>3, <1>4, <1>5, LenProperties, ElementOfSeq DEF TaskRec

LEMMA GrownFacts ==
    ASSUME NEW r \in TaskRec, NEW f \in Frame, NEW ctx \in Context
    PROVE  Grown(r, Push(r, f, ctx), f)
<1>1. r.frames \in Seq(Frame) /\ Len(r.frames) \in Nat
  BY LenProperties DEF TaskRec
<1>2. Push(r, f, ctx).frames = Append(r.frames, f) /\ SameRoot(r, Push(r, f, ctx))
  BY PushFacts
<1>3. QED
  BY <1>1, <1>2, AppendProperties DEF Grown

LEMMA ShrunkFacts ==
    ASSUME NEW r \in TaskRec, r.frames # <<>>
    PROVE  Shrunk(r, Pop(r)) /\ Pop(r).ctx = Restored(r.ctx, r.frames[Len(r.frames)])
<1>1. r.frames \in Seq(Frame)
  BY DEF TaskRec
<1>2. Pop(r).frames = Front(r.frames) /\ SameRoot(r, Pop(r))
      /\ Pop(r).ctx = Restored(r.ctx, Last(r.frames))
  BY PopFacts
<1>3. QED
  BY <1>1, <1>2, FrontFacts DEF Shrunk, Last

LEMMA ArriveDoes ==
    ASSUME Typed, NEW u \in Task, Arrive(u)
    PROVE  /\ Typed' /\ Others({u}) /\ Newborn(u, Nobody, "run", Outside, Nobody)
           /\ UNCHANGED <<env, calls, lock, lockLoop, loop>>
<1> DEFINE q == NewTask(Nobody, "run", Outside, Nobody)
<1>1. /\ q \in TaskRec /\ q.st = "run" /\ q.ctx = Outside /\ q.base = Outside
      /\ q.owner = Nobody /\ q.plan = Nobody /\ q.frames = <<>>
  <2>1. /\ tasks \in [Task -> TaskRec] /\ "run" \in States /\ Outside \in Context
        /\ Nobody \in Task \cup {Nobody} /\ Nobody \in Call \cup {Nobody}
    BY FreshType DEF Typed, States
  <2> QED
    BY <2>1, NewTaskFacts
<1> HIDE DEF q
<1>2. /\ tasks' = [tasks EXCEPT ![u] = q]
      /\ UNCHANGED <<env, calls, lock, lockLoop, loop>> /\ FreeTask(u)
  BY DEF Arrive, q
<1>3. QED
  BY <1>1, <1>2 DEF Typed, Others, Newborn

LEMMA SpawnDoes ==
    ASSUME Typed, NEW t \in Task, NEW u \in Task, Spawn(t, u)
    PROVE  /\ Typed' /\ Others({u}) /\ Newborn(u, t, "run", tasks[t].ctx, Nobody)
           /\ tasks'[u].level = Len(tasks[t].frames)
           /\ InBody(t) /\ tasks[t].frames # <<>>
           /\ UNCHANGED <<env, calls, lock, lockLoop, loop>>
<1> DEFINE q == NewTask(t, "run", tasks[t].ctx, Nobody)
<1>1. /\ q \in TaskRec /\ q.st = "run" /\ q.ctx = tasks[t].ctx /\ q.base = tasks[t].ctx
      /\ q.owner = t /\ q.plan = Nobody /\ q.frames = <<>> /\ q.level = Len(tasks[t].frames)
  <2>1. t # Nobody /\ "run" \in States
    BY ActorAssumption DEF Task, Nobody, States
  <2> QED
    BY <2>1, TasksType, NewTaskFacts DEF Typed
<1> HIDE DEF q
<1>2. /\ tasks' = [tasks EXCEPT ![u] = q]
      /\ UNCHANGED <<env, calls, lock, lockLoop, loop>> /\ FreeTask(u)
      /\ InBody(t) /\ tasks[t].frames # <<>>
  BY DEF Spawn, q
<1>3. QED
  BY <1>1, <1>2 DEF Typed, Others, Newborn

LEMMA CallCodeDoes ==
    ASSUME Typed, NEW t \in Task, NEW c \in Call, NEW a \in Agents, NEW k \in MethodKinds,
           CallCode(t, c, a, k)
    PROVE  /\ Typed' /\ Others({t}) /\ InBody(t)
           /\ Grown(tasks[t], tasks'[t], WrapperFrame(c, tasks[t].ctx))
           /\ tasks'[t].ctx = Entered(tasks[t].ctx, c, a) /\ tasks'[t].st = tasks[t].st
<1> DEFINE f == WrapperFrame(c, tasks[t].ctx)
           x == Entered(tasks[t].ctx, c, a)
           q == Push(tasks[t], f, x)
<1>1. tasks[t] \in TaskRec /\ f \in Frame /\ x \in Context
  BY TasksType, FrameType, ContextType
<1>2. tasks' = [tasks EXCEPT ![t] = q] /\ InBody(t) /\ Announce(t, c, a, k)
  BY DEF CallCode, Announce
<1> HIDE DEF f, x
<1>3. q \in TaskRec /\ q.ctx = x /\ q.st = tasks[t].st /\ Grown(tasks[t], q, f)
  BY <1>1, PushFacts, GrownFacts
<1> HIDE DEF q
<1>4. tasks'[t] = q /\ Others({t})
  BY <1>2 DEF Typed, Others
<1>5. Typed'
  BY <1>2, <1>3, AnnounceFacts DEF Typed
<1>6. QED
  BY <1>2, <1>3, <1>4, <1>5 DEF f, x

LEMMA CallInlineDoes ==
    ASSUME Typed, NEW t \in Task, NEW c \in Call, NEW a \in Agents, NEW k \in MethodKinds,
           CallInline(t, c, a, k)
    PROVE  /\ Typed' /\ Others({t}) /\ InBody(t) /\ tasks[t].ctx.session
           /\ \E r \in TaskRec :
                 /\ Grown(tasks[t], r, WrapperFrame(c, tasks[t].ctx))
                 /\ r.ctx = Entered(tasks[t].ctx, c, a) /\ r.st = tasks[t].st
                 /\ Grown(r, tasks'[t], SessionFrame(c, r.ctx, FALSE))
                 /\ tasks'[t].ctx = InSession(r.ctx, c) /\ tasks'[t].st = tasks[t].st
<1> DEFINE f == WrapperFrame(c, tasks[t].ctx)
           x == Entered(tasks[t].ctx, c, a)
           r == Push(tasks[t], f, x)
           g == SessionFrame(c, x, FALSE)
           y == InSession(x, c)
           q == Push(r, g, y)
<1>1. tasks[t] \in TaskRec /\ f \in Frame /\ x \in Context
  BY TasksType, FrameType, ContextType
<1>2. /\ tasks' = [tasks EXCEPT ![t] = q] /\ InBody(t) /\ Announce(t, c, a, k)
      /\ tasks[t].ctx.session
  BY DEF CallInline, Announce
<1> HIDE DEF f, x
<1>3. g \in Frame /\ y \in Context
  BY <1>1, FrameType, ContextType
<1> HIDE DEF g, y
<1>4. r \in TaskRec /\ r.ctx = x /\ r.st = tasks[t].st /\ Grown(tasks[t], r, f)
  BY <1>1, PushFacts, GrownFacts
<1> HIDE DEF r
<1>5. q \in TaskRec /\ q.ctx = y /\ q.st = r.st /\ Grown(r, q, g)
  BY <1>3, <1>4, PushFacts, GrownFacts
<1> HIDE DEF q
<1>6. tasks'[t] = q /\ Others({t})
  BY <1>2 DEF Typed, Others
<1>7. Typed'
  BY <1>2, <1>5, AnnounceFacts DEF Typed
<1>8. QED
  BY <1>2, <1>4, <1>5, <1>6, <1>7 DEF f, x, g, y
LEMMA CallPlanDoes ==
    ASSUME Typed, NEW t \in Task, NEW u \in Task, NEW c \in Call, NEW a \in Agents,
           NEW k \in MethodKinds, CallPlan(t, u, c, a, k)
    PROVE  /\ Typed' /\ Others({t, u}) /\ InBody(t) /\ t # u /\ ~tasks[t].ctx.session
           /\ Grown(tasks[t], tasks'[t], WrapperFrame(c, tasks[t].ctx))
           /\ tasks'[t].ctx = Entered(tasks[t].ctx, c, a) /\ tasks'[t].st = "wait"
           /\ Newborn(u, t, "new", tasks'[t].ctx, c)
           /\ tasks'[u].level = Len(tasks[t].frames) + 1
<1> DEFINE f == WrapperFrame(c, tasks[t].ctx)
           x == Entered(tasks[t].ctx, c, a)
           r == Push(tasks[t], f, x)
           q == [r EXCEPT !.st = "wait"]
           m == NewTask(t, "new", x, c)
           n == [m EXCEPT !.level = Len(r.frames)]
<1>1. tasks[t] \in TaskRec /\ f \in Frame /\ x \in Context
  BY TasksType, FrameType, ContextType
<1>2. /\ tasks' = [tasks EXCEPT ![t] = q, ![u] = n] /\ InBody(t) /\ Announce(t, c, a, k)
      /\ ~tasks[t].ctx.session /\ FreeTask(u) /\ t # u
  BY DEF CallPlan, Announce, InBody, FreeTask
<1> HIDE DEF f, x
<1>3. r \in TaskRec /\ r.ctx = x /\ Grown(tasks[t], r, f) /\ Len(r.frames) \in Nat
  <2>1. r \in TaskRec /\ r.ctx = x /\ Grown(tasks[t], r, f)
    BY <1>1, PushFacts, GrownFacts
  <2> QED
    BY <2>1 DEF Grown
<1> HIDE DEF r
<1>4. q \in TaskRec /\ q.ctx = x /\ q.st = "wait" /\ Grown(tasks[t], q, f)
  BY <1>3 DEF TaskRec, States, Grown, SameRoot
<1>5. /\ m \in TaskRec /\ m.st = "new" /\ m.ctx = x /\ m.base = x /\ m.owner = t /\ m.plan = c
      /\ m.frames = <<>>
  BY <1>1, NewTaskFacts DEF Typed, States
<1> HIDE DEF m
<1>6. /\ n \in TaskRec /\ n.st = "new" /\ n.ctx = x /\ n.base = x /\ n.owner = t /\ n.plan = c
      /\ n.frames = <<>> /\ n.level = Len(r.frames)
  BY <1>3, <1>5 DEF TaskRec
<1> HIDE DEF q, n
<1>7. tasks'[t] = q /\ tasks'[u] = n /\ Others({t, u})
  BY <1>2 DEF Typed, Others
<1>8. Typed'
  BY <1>2, <1>4, <1>6, AnnounceFacts DEF Typed
<1>9. n.level = Len(tasks[t].frames) + 1
  BY <1>3, <1>6 DEF Grown
<1>10. QED
  BY <1>2, <1>4, <1>6, <1>7, <1>8, <1>9 DEF f, x, Newborn

\* The planned task u opens its session.
Opens(u, l) ==
    /\ Others({u}) /\ SameRoot(tasks[u], tasks'[u]) /\ tasks'[u].st = "run"
    /\ Grown(tasks[u], tasks'[u], SessionFrame(tasks[u].plan, tasks[u].ctx, l))
    /\ tasks[u].frames = <<>> /\ tasks[u].plan \in Call
    /\ tasks'[u].ctx = InSession(tasks[u].ctx, tasks[u].plan)

LEMMA OpensDoes ==
    ASSUME Typed, Shaped, NEW u \in Task, NEW l \in BOOLEAN, tasks[u].st \in {"new", "lock"},
           tasks' = Opened(u, l)
    PROVE  /\ tasks' \in [Task -> TaskRec] /\ Opens(u, l)
<1>1. tasks[u].plan \in Call /\ tasks[u].frames = <<>>
  BY TasksType DEF Shaped, TaskRec
<1>2. Len(tasks[u].frames) = 0
  BY <1>1, EmptySeq
<1>3. QED
  BY <1>1, <1>2, OpenedFacts DEF Others, Opens, Grown

LEMMA StartFreeDoes ==
    ASSUME Typed, Shaped, NEW u \in Task, StartFree(u)
    PROVE  /\ Typed' /\ Opens(u, FALSE) /\ tasks[u].st = "new"
           /\ UNCHANGED <<env, calls, lock, lockLoop, loop>>
<1>1. /\ tasks[u].st = "new" /\ tasks' = Opened(u, FALSE)
      /\ UNCHANGED <<env, calls, lock, lockLoop, loop>>
  BY DEF StartFree
<1>2. QED
  BY <1>1, OpensDoes DEF Typed

LEMMA GrantedDoes ==
    ASSUME Typed, Shaped, NEW u \in Task, Granted(u)
    PROVE  /\ Typed' /\ Opens(u, TRUE) /\ tasks[u].st = "lock" /\ Head(lock[Aim(u)]) = u
           /\ UNCHANGED <<env, calls, lock, lockLoop, loop>>
<1>1. /\ tasks[u].st = "lock" /\ tasks' = Opened(u, TRUE) /\ Head(lock[Aim(u)]) = u
      /\ UNCHANGED <<env, calls, lock, lockLoop, loop>>
  BY DEF Granted, Aim
<1>2. QED
  BY <1>1, OpensDoes DEF Typed

LEMMA StartLockedDoes ==
    ASSUME Typed, Shaped, Known, NEW u \in Task, StartLocked(u)
    PROVE  LET a == Aim(u)
           IN /\ Typed' /\ tasks[u].st = "new" /\ a \in Agents /\ CurrentLock(a) \in Seq(Task)
              /\ lockLoop' = [lockLoop EXCEPT ![a] = loop]
              /\ lock' = [lock EXCEPT ![a] = Append(CurrentLock(a), u)]
              /\ \/ CurrentLock(a) = <<>> /\ Opens(u, TRUE)
                 \/ /\ CurrentLock(a) # <<>> /\ Others({u})
                    /\ SameRoot(tasks[u], tasks'[u]) /\ tasks'[u].st = "lock"
                    /\ tasks'[u].frames = tasks[u].frames /\ tasks'[u].ctx = tasks[u].ctx
              /\ UNCHANGED <<env, calls, loop>>
<1> DEFINE a == Aim(u)
           q == [tasks[u] EXCEPT !.st = "lock"]
<1>1. a \in Agents
  <2>1. tasks[u].plan # Nobody
    BY DEF StartLocked, Shaped
  <2> QED
    BY <2>1 DEF Aim, Known, Announced
<1>2. CurrentLock(a) \in Seq(Task) /\ Append(CurrentLock(a), u) \in Seq(Task)
  <2>1. CurrentLock(a) \in Seq(Task)
    BY <1>1, EmptySeq DEF CurrentLock, Typed
  <2> QED
    BY <2>1, AppendProperties
<1>3. /\ tasks[u].st = "new" /\ UNCHANGED <<env, calls, loop>>
      /\ lockLoop' = [lockLoop EXCEPT ![a] = loop]
      /\ lock' = [lock EXCEPT ![a] = Append(CurrentLock(a), u)]
      /\ tasks' = IF CurrentLock(a) = <<>> THEN Opened(u, TRUE) ELSE [tasks EXCEPT ![u] = q]
  BY DEF StartLocked, Aim
<1>4. /\ q \in TaskRec /\ q.st = "lock" /\ q.frames = tasks[u].frames /\ q.ctx = tasks[u].ctx
      /\ SameRoot(tasks[u], q)
  BY TasksType DEF TaskRec, States, SameRoot
<1> HIDE DEF q, a
<1>5. lock' \in [Agents -> Seq(Task)] /\ lockLoop' \in [Agents -> 0..loop']
  BY <1>1, <1>2, <1>3 DEF Typed
<1>6. CASE CurrentLock(a) = <<>>
  <2>1. tasks' = Opened(u, TRUE)
    BY <1>3, <1>6
  <2>2. tasks' \in [Task -> TaskRec] /\ Opens(u, TRUE)
    BY <1>3, <2>1, OpensDoes
  <2> QED
    BY <1>1, <1>2, <1>3, <1>5, <1>6, <2>2 DEF Typed, a
<1>7. CASE CurrentLock(a) # <<>>
  <2>1. tasks' = [tasks EXCEPT ![u] = q]
    BY <1>3, <1>7
  <2> QED
    BY <1>1, <1>2, <1>3, <1>4, <1>5, <1>7, <2>1 DEF Typed, Others, a
<1>8. QED
  BY <1>6, <1>7
\* The wrapper that awaits the planned task u gets its outcome.
Wakes(u, w) ==
    /\ w = tasks[u].owner /\ w \in Task /\ w # u
    /\ tasks[w].st = "wait" /\ tasks'[w].st = "run" /\ OneFrame(tasks[w], tasks'[w])
    /\ Len(tasks[w].frames) \in Nat \ {0}
    /\ LET f == tasks[w].frames[Len(tasks[w].frames)]
       IN f.kind = "wrapper" /\ f.call = tasks[u].plan
Ends(u) ==
    /\ tasks'[u].st = "done" /\ tasks'[u].ctx = Outside /\ tasks'[u].base = Outside
    /\ tasks'[u].plan = tasks[u].plan /\ tasks'[u].owner = tasks[u].owner
    /\ tasks'[u].frames = <<>>

LEMMA WrapperWaits ==
    ASSUME Typed, Awaiting, NEW u \in Task, Alive(u), tasks[u].plan # Nobody
    PROVE  LET w == tasks[u].owner
           IN /\ w \in Task /\ tasks[w].st = "wait" /\ tasks[w].frames # <<>>
              /\ Len(tasks[w].frames) \in Nat \ {0}
              /\ LET f == tasks[w].frames[Len(tasks[w].frames)]
                 IN f.kind = "wrapper" /\ f.call = tasks[u].plan /\ f.out = "open"
              /\ tasks[u].level = Len(tasks[w].frames)
<1>1. LET w == tasks[u].owner
      IN /\ w \in Task /\ tasks[w].st = "wait" /\ tasks[w].frames # <<>>
         /\ Top(w).kind = "wrapper" /\ Top(w).call = tasks[u].plan /\ Top(w).out = "open"
         /\ tasks[u].level = Len(tasks[w].frames)
  BY DEF Awaiting
<1>2. QED
  BY <1>1, TasksType DEF Top, Last

LEMMA PlanCancelledDoes ==
    ASSUME Typed, Shaped, Known, Queued, Awaiting, NEW u \in Task, PlanCancelled(u)
    PROVE  /\ Typed' /\ Others({u, tasks[u].owner}) /\ Ends(u) /\ Wakes(u, tasks[u].owner)
           /\ tasks[u].st \in {"new", "lock"} /\ tasks[u].plan # Nobody /\ Aim(u) \in Agents
           /\ IF tasks[u].st = "lock"
              THEN lock' = Unlocked(Aim(u), u) /\ \E i \in 1..Len(lock[Aim(u)]) : lock[Aim(u)][i] = u
              ELSE lock' = lock
           /\ UNCHANGED <<env, calls, lockLoop, loop>>
<1> DEFINE w == tasks[u].owner
<1>1. /\ tasks[u].st \in {"new", "lock"} /\ tasks' = Answered(tasks, u, "cancelled")
      /\ lock' = IF tasks[u].st = "lock" THEN Unlocked(Aim(u), u) ELSE lock
      /\ UNCHANGED <<env, calls, lockLoop, loop>>
  BY DEF PlanCancelled, Aim
<1>2. tasks[u].plan # Nobody /\ tasks[u].frames = <<>> /\ Alive(u)
  BY <1>1 DEF Shaped, Alive
<1>3. /\ w \in Task /\ tasks[w].st = "wait" /\ tasks[w].frames # <<>>
      /\ Len(tasks[w].frames) \in Nat \ {0}
      /\ LET f == tasks[w].frames[Len(tasks[w].frames)]
         IN f.kind = "wrapper" /\ f.call = tasks[u].plan /\ f.out = "open"
  BY <1>2, WrapperWaits
<1>4. w # u /\ tasks \in [Task -> TaskRec] /\ "cancelled" \in Outcome
  BY <1>1, <1>3 DEF Typed, Outcome
<1>5. /\ tasks' \in [Task -> TaskRec] /\ \A v \in Task : v # u /\ v # w => tasks'[v] = tasks[v]
      /\ tasks'[u].st = "done" /\ tasks'[u].frames = tasks[u].frames
      /\ tasks'[u].plan = tasks[u].plan /\ tasks'[u].owner = tasks[u].owner
      /\ tasks'[u].ctx = Outside /\ tasks'[u].base = Outside
      /\ OneFrame(tasks[w], tasks'[w]) /\ tasks'[w].st = "run"
  <2> HIDE DEF w
  <2>1. w = tasks[u].owner
    BY DEF w
  <2> QED
    BY <1>1, <1>3, <1>4, <2>1, AnsweredFacts
<1>6. Aim(u) \in Agents
  BY <1>2 DEF Known, Aim, Announced
<1>7. tasks[u].st = "lock" => \E i \in 1..Len(lock[Aim(u)]) : lock[Aim(u)][i] = u
  BY <1>2 DEF Queued, InLine
<1>8. lock' \in [Agents -> Seq(Task)]
  <2>1. CASE tasks[u].st = "lock"
    <3>1. \E i \in DOMAIN lock[Aim(u)] : lock[Aim(u)][i] = u
      BY <1>6, <1>7, <2>1, LenProperties DEF Typed
    <3>2. Unlocked(Aim(u), u) \in [Agents -> Seq(Task)]
      BY <1>6, <3>1, UnlockedFacts DEF Typed
    <3> QED
      BY <1>1, <2>1, <3>2
  <2> QED
    BY <1>1, <2>1 DEF Typed
<1>9. Typed' /\ Others({u, w})
  BY <1>1, <1>5, <1>8 DEF Typed, Others
<1>10. QED
  BY <1>1, <1>2, <1>3, <1>4, <1>5, <1>6, <1>7, <1>9 DEF Ends, Wakes

LEMMA NestStrategyDoes ==
    ASSUME Typed, NEW t \in Task, NestStrategy(t)
    PROVE  /\ Typed' /\ Others({t}) /\ InBody(t) /\ tasks[t].frames # <<>>
           /\ Top(t).kind = "session"
           /\ \E r \in TaskRec :
                 /\ OneFrame(tasks[t], r) /\ Grown(r, tasks'[t], NestedFrame(Top(t).call, r.ctx))
                 /\ r.frames[Len(r.frames)].out = "open" /\ tasks'[t].st = tasks[t].st
                 /\ tasks'[t].ctx = [r.ctx EXCEPT !.gens = Append(@, Top(t).call)]
           /\ UNCHANGED <<env, calls, lock, lockLoop, loop>>
<1> DEFINE n == Len(tasks[t].frames)
           h == [Top(t) EXCEPT !.nested = TRUE]
           r == [tasks[t] EXCEPT !.frames[Len(tasks[t].frames)].nested = TRUE]
           c == Top(t).call
           f == NestedFrame(c, tasks[t].ctx)
           x == [tasks[t].ctx EXCEPT !.gens = Append(@, c)]
           q == Push(r, f, x)
<1>1. /\ tasks' = [tasks EXCEPT ![t] = q] /\ InBody(t) /\ tasks[t].frames # <<>>
      /\ Top(t).kind = "session" /\ UNCHANGED <<env, calls, lock, lockLoop, loop>>
  BY DEF NestStrategy
<1>2. /\ tasks[t] \in TaskRec /\ tasks[t].ctx \in Context /\ Top(t) \in Frame
      /\ Top(t) = tasks[t].frames[n] /\ n \in 1..n /\ Top(t).out = "open" /\ c \in Call
  BY <1>1, TasksType DEF Top, Last, Frame, InBody
<1>3. /\ h \in Frame /\ h.kind = Top(t).kind /\ h.call = Top(t).call /\ h.session = Top(t).session
      /\ h.agent = Top(t).agent /\ h.locked = Top(t).locked /\ h.out = Top(t).out
  BY <1>2 DEF Frame
<1>4. r = [tasks[t] EXCEPT !.frames = [@ EXCEPT ![n] = h]]
  <2>1. n \in DOMAIN tasks[t].frames
    BY <1>2, TasksType
  <2> QED
    BY <1>2, <2>1 DEF TaskRec
<1>5. f \in Frame /\ x \in Context
  <2>1. f \in Frame
    BY <1>2, FrameType
  <2>2. Append(tasks[t].ctx.gens, c) \in Seq(Call)
    BY <1>2, AppendProperties DEF Context
  <2> QED
    BY <1>2, <2>1, <2>2 DEF Context
<1>6. r \in TaskRec /\ OneFrame(tasks[t], r) /\ r.st = tasks[t].st /\ r.frames[n] = h
  <2> HIDE DEF h, r
  <2> QED
    BY <1>1, <1>2, <1>3, <1>4, FlagFacts
<1> HIDE DEF h, f, x, r
<1>7. q \in TaskRec /\ q.ctx = x /\ q.st = tasks[t].st /\ Grown(r, q, f)
  BY <1>5, <1>6, PushFacts, GrownFacts
<1> HIDE DEF q
<1>8. tasks'[t] = q /\ Others({t}) /\ Typed'
  BY <1>1, <1>7 DEF Typed, Others
<1>9. r.ctx = tasks[t].ctx /\ Len(r.frames) = n
  BY <1>6 DEF OneFrame
<1>10. QED
  BY <1>1, <1>2, <1>3, <1>6, <1>7, <1>8, <1>9 DEF f, x
LEMMA EndingFacts ==
    ASSUME Typed, NEW t \in Task, NEW o, MayEnd(t, o)
    PROVE  /\ InBody(t) /\ tasks[t].st = "run" /\ tasks[t].frames # <<>>
           /\ Len(tasks[t].frames) \in Nat \ {0} /\ o \in Outcome
           /\ Top(t) = tasks[t].frames[Len(tasks[t].frames)] /\ Top(t) \in Frame
           /\ Top(t).out = "open"
           /\ Plain => \A u \in Task : Alive(u) /\ tasks[u].owner = t
                                          => tasks[u].level # Len(tasks[t].frames)
<1>1. InBody(t) /\ tasks[t].st = "run" /\ tasks[t].frames # <<>> /\ o \in Outcome
  BY DEF MayEnd, InBody, Outcome
<1>2. Plain => Children(t) = {}
  BY DEF MayEnd, Plain
<1>3. Plain => \A u \in Task : Alive(u) /\ tasks[u].owner = t
                                  => tasks[u].level # Len(tasks[t].frames)
  BY <1>2 DEF Children
<1>4. QED
  BY <1>1, <1>3, TasksType DEF Top, Last, InBody

LEMMA CodeEndsDoes ==
    ASSUME Typed, NEW t \in Task, NEW o, CodeEnds(t, o)
    PROVE  /\ Typed' /\ Others({t}) /\ MayEnd(t, o) /\ Top(t).kind = "wrapper"
           /\ OneFrame(tasks[t], tasks'[t]) /\ tasks'[t].st = "run"
           /\ UNCHANGED <<env, calls, lock, lockLoop, loop>>
<1> DEFINE q == Settled(tasks[t], o)
<1>1. /\ tasks' = [tasks EXCEPT ![t] = q] /\ MayEnd(t, o) /\ Top(t).kind = "wrapper"
      /\ UNCHANGED <<env, calls, lock, lockLoop, loop>>
  BY DEF CodeEnds
<1>2. q \in TaskRec /\ OneFrame(tasks[t], q) /\ q.st = "run"
  BY <1>1, EndingFacts, TasksType, SettledFacts
<1> HIDE DEF q
<1>3. QED
  BY <1>1, <1>2 DEF Typed, Others

LEMMA NestedEndsDoes ==
    ASSUME Typed, NEW t \in Task, NEW o, NestedEnds(t, o)
    PROVE  /\ Typed' /\ Others({t}) /\ MayEnd(t, o) /\ Top(t).kind = "nested"
           /\ Shrunk(tasks[t], tasks'[t]) /\ tasks'[t].st = "run"
           /\ tasks'[t].ctx = Restored(tasks[t].ctx, Top(t))
           /\ UNCHANGED <<env, calls, lock, lockLoop, loop>>
<1> DEFINE q == Pop(tasks[t])
<1>1. /\ tasks' = [tasks EXCEPT ![t] = q] /\ MayEnd(t, o) /\ Top(t).kind = "nested"
      /\ UNCHANGED <<env, calls, lock, lockLoop, loop>>
  BY DEF NestedEnds
<1>2. /\ q \in TaskRec /\ Shrunk(tasks[t], q) /\ q.st = "run"
      /\ q.ctx = Restored(tasks[t].ctx, Top(t))
  BY <1>1, EndingFacts, TasksType, PopFacts, ShrunkFacts
<1> HIDE DEF q
<1>3. QED
  BY <1>1, <1>2 DEF Typed, Others

LEMMA CloseDoes ==
    ASSUME Typed, Shaped, NEW t \in Task, Close(t), Top(t).call \in Call
    PROVE  /\ Typed' /\ Others({t}) /\ tasks[t].st = "run"
           /\ Top(t) = tasks[t].frames[Len(tasks[t].frames)] /\ Top(t).out # "open"
           /\ Shrunk(tasks[t], tasks'[t]) /\ tasks'[t].st = "run"
           /\ tasks'[t].ctx = Restored(tasks[t].ctx, Top(t))
           /\ \A d \in Call : /\ d # Top(t).call => calls'[d] = calls[d]
                              /\ calls'[d].agent = calls[d].agent /\ calls'[d].kind = calls[d].kind
                              /\ calls'[d].task = calls[d].task /\ calls'[d].top = calls[d].top
           /\ calls'[Top(t).call].out # "open"
           /\ UNCHANGED <<env, lock, lockLoop, loop>>
<1> DEFINE q == Pop(tasks[t])
           c == Top(t).call
           o == IF tasks[t].cancel THEN "cancelled" ELSE Top(t).out
           y == IF o = "raised" THEN "failed" ELSE "ok"
           n == [calls[c] EXCEPT !.out = o, !.success = y]
<1>1. /\ tasks' = [tasks EXCEPT ![t] = q] /\ tasks[t].st = "run" /\ tasks[t].frames # <<>>
      /\ Top(t).out # "open" /\ UNCHANGED <<env, lock, lockLoop, loop>>
      /\ calls' = [calls EXCEPT ![c].out = o, ![c].success = y]
  BY DEF Close
<1>2. /\ q \in TaskRec /\ Shrunk(tasks[t], q) /\ q.st = "run"
      /\ q.ctx = Restored(tasks[t].ctx, Top(t)) /\ Top(t) \in Frame
      /\ Top(t) = tasks[t].frames[Len(tasks[t].frames)]
  BY <1>1, TasksType, PopFacts, ShrunkFacts DEF Top, Last
<1> HIDE DEF q
<1>3. o \in Outcome /\ o # "open" /\ y \in {"none", "ok", "failed"}
  BY <1>1, <1>2 DEF Frame, Outcome
<1> HIDE DEF o, y
<1>4. calls' = [calls EXCEPT ![c] = n]
  BY <1>1 DEF Typed, CallRec
<1>5. /\ n \in CallRec /\ n.out = o /\ n.agent = calls[c].agent /\ n.kind = calls[c].kind
      /\ n.task = calls[c].task /\ n.top = calls[c].top
  BY <1>3 DEF Typed, CallRec
<1> HIDE DEF n
<1>6. tasks'[t] = q /\ Others({t})
  BY <1>1 DEF Typed, Others
<1>7. Typed'
  BY <1>1, <1>2, <1>4, <1>5 DEF Typed
<1>8. \A d \in Call : calls'[d] = IF d = c THEN n ELSE calls[d]
  BY <1>4 DEF Typed
<1> HIDE DEF c
<1>9. /\ \A d \in Call : /\ d # c => calls'[d] = calls[d]
                         /\ calls'[d].agent = calls[d].agent /\ calls'[d].kind = calls[d].kind
                         /\ calls'[d].task = calls[d].task /\ calls'[d].top = calls[d].top
      /\ calls'[c].out # "open"
  BY <1>3, <1>5, <1>8 DEF c
<1>10. QED
  BY <1>1, <1>2, <1>6, <1>7, <1>9 DEF c

LEMMA EndTaskDoes ==
    ASSUME Typed, NEW t \in Task, EndTask(t)
    PROVE  /\ Typed' /\ Others({t}) /\ Ends(t) /\ tasks[t].st = "run" /\ tasks[t].frames = <<>>
           /\ UNCHANGED <<env, calls, lock, lockLoop, loop>>
<1> DEFINE q == [tasks[t] EXCEPT !.st = "done", !.ctx = Outside, !.base = Outside]
<1>1. /\ tasks' = [tasks EXCEPT ![t] = q] /\ tasks[t].st = "run" /\ tasks[t].frames = <<>>
      /\ UNCHANGED <<env, calls, lock, lockLoop, loop>>
  BY DEF EndTask
<1>2. /\ q \in TaskRec /\ q.st = "done" /\ q.ctx = Outside /\ q.base = Outside
      /\ q.plan = tasks[t].plan /\ q.owner = tasks[t].owner /\ q.frames = tasks[t].frames
  BY TasksType, FreshType DEF TaskRec, States
<1> HIDE DEF q
<1>3. QED
  BY <1>1, <1>2 DEF Typed, Others, Ends

\* Only the flag of the tasks that are cancelled changes.
LEMMA CancelDoes ==
    ASSUME Typed, NEW t \in Task, Cancel(t)
    PROVE  /\ Typed'
           /\ \A u \in Task : /\ SameRoot(tasks[u], tasks'[u]) /\ tasks'[u].st = tasks[u].st
                              /\ tasks'[u].ctx = tasks[u].ctx /\ tasks'[u].frames = tasks[u].frames
                              /\ tasks[u].st = "free" => tasks'[u] = tasks[u]
           /\ UNCHANGED <<env, calls, lock, lockLoop, loop>>
<1>1. /\ tasks' = [u \in Task |-> IF u \in Awaited(t) THEN [tasks[u] EXCEPT !.cancel = TRUE]
                                  ELSE tasks[u]]
      /\ UNCHANGED <<env, calls, lock, lockLoop, loop>>
  BY DEF Cancel
<1>2. \A u \in Awaited(t) : tasks[u].st # "free"
  BY DEF Awaited, Alive
<1>3. ASSUME NEW u \in Task
      PROVE  /\ tasks'[u] \in TaskRec
             /\ SameRoot(tasks[u], tasks'[u]) /\ tasks'[u].st = tasks[u].st
             /\ tasks'[u].ctx = tasks[u].ctx /\ tasks'[u].frames = tasks[u].frames
             /\ tasks[u].st = "free" => tasks'[u] = tasks[u]
  <2> DEFINE q == [tasks[u] EXCEPT !.cancel = TRUE]
  <2>1. /\ q \in TaskRec /\ SameRoot(tasks[u], q) /\ q.st = tasks[u].st /\ q.ctx = tasks[u].ctx
        /\ q.frames = tasks[u].frames
    BY TasksType DEF TaskRec, SameRoot
  <2>2. tasks'[u] = IF u \in Awaited(t) THEN q ELSE tasks[u]
    BY <1>1
  <2> HIDE DEF q
  <2>3. tasks[u] \in TaskRec /\ SameRoot(tasks[u], tasks[u])
    BY TasksType DEF SameRoot
  <2> QED
    BY <1>2, <2>1, <2>2, <2>3
<1>4. tasks' \in [Task -> TaskRec]
  <2> DEFINE F(u) == IF u \in Awaited(t) THEN [tasks[u] EXCEPT !.cancel = TRUE] ELSE tasks[u]
  <2>1. tasks' = [u \in Task |-> F(u)]
    BY <1>1
  <2>2. \A u \in Task : tasks'[u] = F(u)
    BY <2>1
  <2> HIDE DEF F
  <2> QED
    BY <1>3, <2>1, <2>2
<1>5. QED
  BY <1>1, <1>3, <1>4 DEF Typed

LEMMA RestartDoes ==
    ASSUME Typed, Restart
    PROVE  /\ Typed' /\ loop = 1 /\ loop' = 2
           /\ \A u \in Task : /\ SameRoot(tasks[u], tasks'[u]) /\ tasks'[u].ctx = tasks[u].ctx
                              /\ tasks'[u].frames = tasks[u].frames
                              /\ IF Alive(u) THEN tasks'[u].st = "dead" ELSE tasks'[u] = tasks[u]
           /\ UNCHANGED <<env, calls, lock, lockLoop>>
<1>1. /\ loop = 1 /\ loop' = 2 /\ UNCHANGED <<env, calls, lock, lockLoop>>
      /\ tasks' = [u \in Task |-> IF Alive(u) THEN [tasks[u] EXCEPT !.st = "dead"] ELSE tasks[u]]
  BY DEF Restart
<1>2. ASSUME NEW u \in Task
      PROVE  /\ tasks'[u] \in TaskRec
             /\ SameRoot(tasks[u], tasks'[u]) /\ tasks'[u].ctx = tasks[u].ctx
             /\ tasks'[u].frames = tasks[u].frames
             /\ IF Alive(u) THEN tasks'[u].st = "dead" ELSE tasks'[u] = tasks[u]
  <2> DEFINE q == [tasks[u] EXCEPT !.st = "dead"]
  <2>1. /\ q \in TaskRec /\ SameRoot(tasks[u], q) /\ q.st = "dead" /\ q.ctx = tasks[u].ctx
        /\ q.frames = tasks[u].frames
    BY TasksType DEF TaskRec, SameRoot, States
  <2>2. tasks'[u] = IF Alive(u) THEN q ELSE tasks[u]
    BY <1>1
  <2> HIDE DEF q
  <2>3. tasks[u] \in TaskRec /\ SameRoot(tasks[u], tasks[u])
    BY TasksType DEF SameRoot
  <2> QED
    BY <2>1, <2>2, <2>3
<1>3. tasks' \in [Task -> TaskRec]
  <2> DEFINE F(u) == IF Alive(u) THEN [tasks[u] EXCEPT !.st = "dead"] ELSE tasks[u]
  <2>1. tasks' = [u \in Task |-> F(u)]
    BY <1>1
  <2>2. \A u \in Task : tasks'[u] = F(u)
    BY <2>1
  <2> HIDE DEF F
  <2> QED
    BY <1>2, <2>1, <2>2
<1>4. QED
  BY <1>1, <1>2, <1>3 DEF Typed
\* The session of a planned task ends with the task, another one is inside its
\* wrapper.
LEMMA SessionEndsDoes ==
    ASSUME Typed, Shaped, Known, Queued, Awaiting, NEW t \in Task, NEW o, SessionEnds(t, o)
    PROVE  /\ Typed' /\ MayEnd(t, o) /\ Top(t).kind = "session"
           /\ \/ /\ Len(tasks[t].frames) = 1 /\ tasks[t].plan # Nobody /\ Aim(t) \in Agents
                 /\ Others({t, tasks[t].owner}) /\ Ends(t) /\ Wakes(t, tasks[t].owner)
                 /\ IF Locked(t)
                    THEN lock' = Unlocked(Aim(t), t) /\ \E i \in 1..Len(lock[Aim(t)]) : lock[Aim(t)][i] = t
                    ELSE lock' = lock
              \/ /\ Len(tasks[t].frames) > 1 /\ Others({t}) /\ lock' = lock
                 /\ tasks[t].frames[Len(tasks[t].frames) - 1].kind = "wrapper"
                 /\ \E r \in TaskRec :
                       /\ Shrunk(tasks[t], r) /\ r.ctx = Restored(tasks[t].ctx, Top(t))
                       /\ OneFrame(r, tasks'[t]) /\ tasks'[t].st = "run"
           /\ UNCHANGED <<env, calls, lockLoop, loop>>
<1> DEFINE f == Top(t)
           r == Pop(tasks[t])
           rs == [tasks EXCEPT ![t] = r]
           w == tasks[t].owner
<1>1. /\ MayEnd(t, o) /\ f.kind = "session" /\ UNCHANGED <<env, calls, lockLoop, loop>>
      /\ tasks' = IF r.frames = <<>> THEN Answered(rs, t, o) ELSE [tasks EXCEPT ![t] = Settled(r, o)]
      /\ lock' = IF f.locked THEN Unlocked(calls[f.call].agent, t) ELSE lock
  BY DEF SessionEnds
<1>2. PICK n \in Nat \ {0} : n = Len(tasks[t].frames)
  BY <1>1, EndingFacts
<1>3. /\ tasks[t].st = "run" /\ Alive(t) /\ o \in Outcome /\ tasks[t] \in TaskRec
      /\ f = tasks[t].frames[n] /\ f \in Frame /\ tasks[t].frames # <<>>
      /\ tasks[t].frames \in Seq(Frame)
  BY <1>1, <1>2, EndingFacts, TasksType DEF Alive
<1>4. /\ r \in TaskRec /\ Shrunk(tasks[t], r) /\ r.st = "run" /\ r.frames = Front(tasks[t].frames)
      /\ r.ctx = Restored(tasks[t].ctx, f) /\ SameRoot(tasks[t], r)
  <2> HIDE DEF f
  <2> QED
    BY <1>2, <1>3, PopFacts, ShrunkFacts
<1>5. Len(r.frames) = n - 1 /\ r.frames \in Seq(Frame)
  BY <1>2, <1>4 DEF Shrunk, TaskRec
<1>6. /\ n = 1 => tasks[t].plan # Nobody /\ f.call = tasks[t].plan
      /\ n > 1 => tasks[t].frames[n - 1].kind = "wrapper" /\ ~f.locked
  BY <1>1, <1>2, <1>3 DEF Shaped, Wrapper
<1> HIDE DEF f, r
<1>7. CASE n = 1
  <2>1. r.frames = <<>>
    <3>1. Len(r.frames) = 0
      BY <1>5, <1>7
    <3> QED
      BY <1>5, <3>1, EmptySeq
  <2>2. /\ w \in Task /\ tasks[w].st = "wait" /\ tasks[w].frames # <<>>
        /\ Len(tasks[w].frames) \in Nat \ {0}
        /\ LET g == tasks[w].frames[Len(tasks[w].frames)]
           IN g.kind = "wrapper" /\ g.call = tasks[t].plan /\ g.out = "open"
    BY <1>3, <1>6, <1>7, WrapperWaits
  <2>3. w # t
    BY <1>3, <2>2
  <2> HIDE DEF w
  <2>4. /\ rs \in [Task -> TaskRec] /\ rs[t] = r /\ \A v \in Task : v # t => rs[v] = tasks[v]
    BY <1>4 DEF Typed
  <2>5. w = rs[t].owner /\ rs[w] = tasks[w]
    BY <1>4, <2>2, <2>3, <2>4 DEF w, SameRoot
  <2>6. tasks' = Answered(rs, t, o)
    BY <1>1, <2>1
  <2> HIDE DEF rs
  <2>7. /\ tasks' \in [Task -> TaskRec]
        /\ \A v \in Task : v # t /\ v # w => tasks'[v] = rs[v]
        /\ tasks'[t].st = "done" /\ tasks'[t].frames = rs[t].frames
        /\ tasks'[t].plan = rs[t].plan /\ tasks'[t].owner = rs[t].owner
        /\ tasks'[t].ctx = Outside /\ tasks'[t].base = Outside
        /\ OneFrame(rs[w], tasks'[w]) /\ tasks'[w].st = "run"
    BY <1>3, <2>2, <2>3, <2>4, <2>5, <2>6, AnsweredFacts
  <2>8. /\ Others({t, w}) /\ Ends(t) /\ Wakes(t, w)
    <3>1. Others({t, w})
      BY <2>4, <2>7 DEF Others
    <3>2. Ends(t)
      BY <1>4, <2>1, <2>4, <2>7 DEF Ends, SameRoot
    <3>3. Wakes(t, w)
      BY <2>2, <2>3, <2>5, <2>7 DEF Wakes, w
    <3> QED
      BY <3>1, <3>2, <3>3
  <2>9. Aim(t) \in Agents /\ calls[f.call].agent = Aim(t)
    BY <1>6, <1>7 DEF Known, Aim, Announced
  <2>10. Locked(t) <=> f.locked
    BY <1>2, <1>3, <1>7 DEF Locked
  <2>11. Locked(t) => \E i \in 1..Len(lock[Aim(t)]) : lock[Aim(t)][i] = t
    BY <1>3 DEF Queued, InLine
  <2>12. lock' = IF Locked(t) THEN Unlocked(Aim(t), t) ELSE lock
    BY <1>1, <2>9, <2>10
  <2>13. lock' \in [Agents -> Seq(Task)]
    <3>1. CASE Locked(t)
      <4>1. \E i \in DOMAIN lock[Aim(t)] : lock[Aim(t)][i] = t
        BY <2>9, <2>11, <3>1, LenProperties DEF Typed
      <4>2. Unlocked(Aim(t), t) \in [Agents -> Seq(Task)]
        BY <2>9, <4>1, UnlockedFacts DEF Typed
      <4> QED
        BY <2>12, <3>1, <4>2
    <3> QED
      BY <2>12, <3>1 DEF Typed
  <2>14. Typed'
    BY <1>1, <2>7, <2>13 DEF Typed
  <2>15. QED
    BY <1>1, <1>2, <1>6, <1>7, <2>8, <2>9, <2>11, <2>12, <2>14 DEF f, w
<1>8. CASE n > 1
  <2> DEFINE q == Settled(r, o)
  <2>1. r.frames # <<>>
    <3>1. Len(r.frames) # 0
      BY <1>5, <1>8
    <3> QED
      BY <3>1, EmptySeq
  <2>2. q \in TaskRec /\ OneFrame(r, q) /\ q.st = "run"
    BY <1>3, <1>4, <2>1, SettledFacts
  <2>3. tasks' = [tasks EXCEPT ![t] = q] /\ lock' = lock
    BY <1>1, <1>6, <1>8, <2>1
  <2> HIDE DEF q
  <2>4. tasks'[t] = q /\ Others({t}) /\ Typed'
    BY <1>1, <2>2, <2>3 DEF Typed, Others
  <2>5. \E x \in TaskRec : /\ Shrunk(tasks[t], x) /\ x.ctx = Restored(tasks[t].ctx, f)
                           /\ OneFrame(x, tasks'[t]) /\ tasks'[t].st = "run"
    BY <1>4, <2>2, <2>4
  <2>6. QED
    BY <1>1, <1>2, <1>6, <1>8, <2>3, <2>4, <2>5 DEF f
<1>9. QED
  BY <1>7, <1>8
-----------------------------------------------------------------------------
(* What every step keeps.                                                  *)

IInv == /\ Typed /\ Born /\ Known /\ Shaped /\ Queued /\ Awaiting /\ Kept /\ SessionFree
        /\ Paths /\ OpenCalls /\ Handed

LEMMA TopKnown ==
    ASSUME Typed, Known, NEW t \in Task, tasks[t].frames # <<>>
    PROVE  /\ Announced(Top(t).call)
           /\ Top(t).kind = "wrapper" => calls[Top(t).call].task = t
<1>1. Len(tasks[t].frames) \in 1..Len(tasks[t].frames)
      /\ Top(t) = tasks[t].frames[Len(tasks[t].frames)]
  BY TasksType DEF Top, Last
<1>2. QED
  BY <1>1 DEF Known, Wrapper

\* A step by its kind, with the methods that there are.
LEMMA Steps ==
    ASSUME Typed, Next
    PROVE  \/ \E u \in Task : Arrive(u)
           \/ \E t, u \in Task : Spawn(t, u)
           \/ \E t \in Task, c \in Call, a \in Agents, k \in MethodKinds : CallCode(t, c, a, k)
           \/ \E t \in Task, c \in Call, a \in Agents, k \in MethodKinds : CallInline(t, c, a, k)
           \/ \E t, u \in Task, c \in Call, a \in Agents, k \in MethodKinds : CallPlan(t, u, c, a, k)
           \/ \E u \in Task : StartFree(u)
           \/ \E u \in Task : StartLocked(u)
           \/ \E u \in Task : Granted(u)
           \/ \E u \in Task : PlanCancelled(u)
           \/ \E t \in Task : NestStrategy(t)
           \/ \E t \in Task, o \in Outcome : CodeEnds(t, o)
           \/ \E t \in Task, o \in Outcome : NestedEnds(t, o)
           \/ \E t \in Task, o \in Outcome : SessionEnds(t, o)
           \/ \E t \in Task : Close(t)
           \/ \E t \in Task : EndTask(t)
           \/ \E t \in Task : Cancel(t)
           \/ Restart
<1>1. \A m \in env.methods : m[1] \in Agents /\ m[2] \in MethodKinds
  BY MethodType
<1>2. ASSUME NEW t \in Task, Step(t)
      PROVE  \/ StartFree(t) \/ StartLocked(t) \/ Granted(t) \/ PlanCancelled(t)
             \/ \E o \in Outcome : CodeEnds(t, o)
             \/ \E o \in Outcome : NestedEnds(t, o)
             \/ \E o \in Outcome : SessionEnds(t, o)
             \/ Close(t) \/ EndTask(t)
  BY <1>2, Zenon DEF Step
<1>3. CASE Restart
  BY <1>3
<1>4. ASSUME NEW t \in Task,
             \/ Arrive(t) \/ Step(t) \/ NestStrategy(t) \/ Cancel(t)
             \/ \E u \in Task : Spawn(t, u)
             \/ \E c \in Call, m \in env.methods :
                   \/ CallCode(t, c, m[1], m[2])
                   \/ CallInline(t, c, m[1], m[2])
                   \/ \E u \in Task : CallPlan(t, u, c, m[1], m[2])
      PROVE  \/ Arrive(t) \/ Step(t) \/ NestStrategy(t) \/ Cancel(t)
             \/ \E u \in Task : Spawn(t, u)
             \/ \E c \in Call, a \in Agents, k \in MethodKinds : CallCode(t, c, a, k)
             \/ \E c \in Call, a \in Agents, k \in MethodKinds : CallInline(t, c, a, k)
             \/ \E u \in Task, c \in Call, a \in Agents, k \in MethodKinds : CallPlan(t, u, c, a, k)
  BY <1>1, <1>4, Zenon
<1>5. QED
  BY <1>2, <1>3, <1>4, Zenon DEF Next

\* An announced call stays what it is, and stays over.
CallsStay ==
    \A c \in Call : Announced(c) =>
        /\ calls'[c].task = calls[c].task /\ calls'[c].agent = calls[c].agent
        /\ calls'[c].top = calls[c].top /\ calls'[c].kind = calls[c].kind

LEMMA SameCalls == ASSUME UNCHANGED calls PROVE CallsStay
BY DEF CallsStay

LEMMA AnnounceStay ==
    ASSUME Typed, NEW t \in Task, NEW c \in Call, NEW a \in Agents, NEW k \in MethodKinds,
           Announce(t, c, a, k)
    PROVE  CallsStay
BY AnnounceFacts DEF CallsStay, Announced

LEMMA CloseStay ==
    ASSUME Typed, Shaped, Known, NEW t \in Task, Close(t)
    PROVE  /\ CallsStay /\ Announced(Top(t).call) /\ tasks[t].frames # <<>>
<1>1. tasks[t].frames # <<>>
  BY DEF Close
<1>2. Announced(Top(t).call)
  BY <1>1, TopKnown
<1>3. Top(t).call \in Call
  BY <1>2 DEF Announced
<1>4. \A d \in Call : /\ calls'[d].agent = calls[d].agent /\ calls'[d].kind = calls[d].kind
                      /\ calls'[d].task = calls[d].task /\ calls'[d].top = calls[d].top
  BY <1>3, CloseDoes
<1>5. QED
  BY <1>1, <1>2, <1>4 DEF CallsStay

LEMMA CallsStep == ASSUME IInv, Next PROVE CallsStay
<1>1. Typed /\ Shaped /\ Known /\ Queued /\ Awaiting
  BY DEF IInv
<1>2. ASSUME NEW t \in Task, NEW c \in Call, NEW a \in Agents, NEW k \in MethodKinds,
             CallCode(t, c, a, k) \/ CallInline(t, c, a, k) \/ \E u \in Task : CallPlan(t, u, c, a, k)
      PROVE  CallsStay
  BY <1>1, <1>2, AnnounceStay DEF CallCode, CallInline, CallPlan
<1>3. ASSUME NEW t \in Task, Close(t) PROVE CallsStay
  BY <1>1, <1>3, CloseStay
<1>4. ASSUME UNCHANGED calls PROVE CallsStay
  BY <1>4, SameCalls
<1>5. QED
  BY <1>1, <1>2, <1>3, <1>4, Steps
     DEF Arrive, Spawn, StartFree, StartLocked, Granted, PlanCancelled, NestStrategy, CodeEnds,
         NestedEnds, SessionEnds, EndTask, Cancel, Restart
\* A task keeps where it comes from, until it is over; or it begins.
BornNow(v) ==
    /\ FreeTask(v) /\ tasks'[v].frames = <<>>
    /\ tasks'[v].owner = Nobody \/ (tasks'[v].owner \in Task /\ tasks[tasks'[v].owner].st # "free")
    /\ \/ tasks'[v].st = "run" /\ tasks'[v].plan = Nobody
       \/ /\ tasks'[v].st = "new" /\ ~tasks'[v].base.session
          /\ tasks'[v].plan \in Call /\ calls[tasks'[v].plan].task = Nobody
          /\ calls'[tasks'[v].plan].task # Nobody
GoesOn(v) ==
    /\ tasks[v].st # "free" /\ tasks'[v].st # "free"
    /\ tasks'[v].owner = tasks[v].owner /\ tasks'[v].plan = tasks[v].plan
    /\ Alive(v)' => Alive(v) /\ SameRoot(tasks[v], tasks'[v])
    /\ tasks'[v].st \in {"new", "lock"} => tasks[v].st \in {"new", "lock"}
Unborn(v) == tasks[v].st = "free" /\ tasks'[v] = tasks[v]
RootsStay == \A v \in Task : GoesOn(v) \/ Unborn(v) \/ BornNow(v)

LEMMA SameTask ==
    ASSUME NEW v, tasks'[v] = tasks[v]
    PROVE  GoesOn(v) \/ Unborn(v)
BY DEF GoesOn, Unborn, SameRoot, Alive

LEMMA OneGoesOn ==
    ASSUME NEW t \in Task, Others({t}), GoesOn(t)
    PROVE  RootsStay
BY SameTask DEF Others, RootsStay

LEMMA RootsStep == ASSUME IInv, Next PROVE RootsStay
<1>1. Typed /\ Shaped /\ Known /\ Queued /\ Awaiting
  BY DEF IInv
<1>2. ASSUME NEW u \in Task, Arrive(u) PROVE RootsStay
  <2>1. Others({u}) /\ Newborn(u, Nobody, "run", Outside, Nobody)
    BY <1>1, <1>2, ArriveDoes
  <2>2. BornNow(u)
    BY <2>1 DEF BornNow, Newborn
  <2> QED
    BY <2>1, <2>2, SameTask DEF Others, RootsStay
<1>3. ASSUME NEW t \in Task, NEW u \in Task, Spawn(t, u) PROVE RootsStay
  <2>1. Others({u}) /\ Newborn(u, t, "run", tasks[t].ctx, Nobody) /\ InBody(t)
    BY <1>1, <1>3, SpawnDoes
  <2>2. BornNow(u)
    BY <2>1 DEF BornNow, Newborn, InBody
  <2> QED
    BY <2>1, <2>2, SameTask DEF Others, RootsStay
<1>4. ASSUME NEW t \in Task, NEW c \in Call, NEW a \in Agents, NEW k \in MethodKinds,
             CallCode(t, c, a, k)
      PROVE  RootsStay
  <2>1. /\ Others({t}) /\ InBody(t) /\ tasks'[t].st = tasks[t].st
        /\ SameRoot(tasks[t], tasks'[t])
    BY <1>1, <1>4, CallCodeDoes DEF Grown
  <2>2. GoesOn(t)
    BY <2>1 DEF GoesOn, InBody, Alive, SameRoot
  <2> QED
    BY <2>1, <2>2, OneGoesOn
<1>5. ASSUME NEW t \in Task, NEW c \in Call, NEW a \in Agents, NEW k \in MethodKinds,
             CallInline(t, c, a, k)
      PROVE  RootsStay
  <2>1. /\ Others({t}) /\ InBody(t) /\ tasks'[t].st = tasks[t].st
        /\ SameRoot(tasks[t], tasks'[t])
    <3>1. PICK r \in TaskRec :
             /\ Grown(tasks[t], r, WrapperFrame(c, tasks[t].ctx))
             /\ Grown(r, tasks'[t], SessionFrame(c, r.ctx, FALSE))
      BY <1>1, <1>5, CallInlineDoes
    <3>2. Others({t}) /\ InBody(t) /\ tasks'[t].st = tasks[t].st
      BY <1>1, <1>5, CallInlineDoes
    <3> QED
      BY <3>1, <3>2 DEF Grown, SameRoot
  <2>2. GoesOn(t)
    BY <2>1 DEF GoesOn, InBody, Alive, SameRoot
  <2> QED
    BY <2>1, <2>2, OneGoesOn
<1>6. ASSUME NEW t \in Task, NEW u \in Task, NEW c \in Call, NEW a \in Agents,
             NEW k \in MethodKinds, CallPlan(t, u, c, a, k)
      PROVE  RootsStay
  <2>1. /\ Others({t, u}) /\ InBody(t) /\ t # u /\ tasks'[t].st = "wait"
        /\ SameRoot(tasks[t], tasks'[t]) /\ Newborn(u, t, "new", tasks'[t].ctx, c)
        /\ tasks'[t].ctx = Entered(tasks[t].ctx, c, a) /\ ~tasks[t].ctx.session
    BY <1>1, <1>6, CallPlanDoes DEF Grown
  <2>2. calls[c].task = Nobody /\ calls'[c].task # Nobody
    <3>1. Announce(t, c, a, k) /\ t # Nobody
      BY <1>6, ActorAssumption DEF CallPlan, Task, Nobody
    <3> QED
      BY <1>1, <3>1, AnnounceFacts
  <2>3. ~tasks'[t].ctx.session
    <3>1. Entered(tasks[t].ctx, c, a).session = tasks[t].ctx.session
      BY <1>1, ContextType, TasksType
    <3> QED
      BY <2>1, <3>1, Zenon
  <2>4. GoesOn(t)
    BY <2>1 DEF GoesOn, InBody, Alive, SameRoot
  <2>5. BornNow(u)
    BY <2>1, <2>2, <2>3 DEF BornNow, Newborn, InBody
  <2> QED
    BY <2>1, <2>4, <2>5, SameTask DEF Others, RootsStay
<1>7. ASSUME NEW u \in Task, StartFree(u) \/ Granted(u) \/ StartLocked(u) PROVE RootsStay
  <2>1. /\ Others({u}) /\ SameRoot(tasks[u], tasks'[u]) /\ tasks'[u].st \in {"run", "lock"}
        /\ tasks[u].st \in {"new", "lock"}
    BY <1>1, <1>7, StartFreeDoes, GrantedDoes, StartLockedDoes DEF Opens
  <2>2. GoesOn(u)
    BY <2>1 DEF GoesOn, Alive, SameRoot
  <2> QED
    BY <2>1, <2>2, OneGoesOn
<1>8. ASSUME NEW u \in Task, tasks[u].st \in {"new", "lock", "run"}, Ends(u), Wakes(u, tasks[u].owner),
             Others({u, tasks[u].owner})
      PROVE  RootsStay
  <2>1. GoesOn(u)
    BY <1>8 DEF GoesOn, Ends, Alive
  <2>2. GoesOn(tasks[u].owner)
    BY <1>8 DEF GoesOn, Wakes, Alive, SameRoot, OneFrame
  <2> QED
    BY <1>8, <2>1, <2>2, SameTask DEF Others, RootsStay
<1>9. ASSUME NEW u \in Task, PlanCancelled(u) PROVE RootsStay
  BY <1>1, <1>8, <1>9, PlanCancelledDoes
<1>10. ASSUME NEW t \in Task, NestStrategy(t) PROVE RootsStay
  <2>1. /\ Others({t}) /\ InBody(t) /\ tasks'[t].st = tasks[t].st
        /\ SameRoot(tasks[t], tasks'[t])
    BY <1>1, <1>10, NestStrategyDoes DEF Grown, SameRoot, OneFrame
  <2>2. GoesOn(t)
    BY <2>1 DEF GoesOn, InBody, Alive, SameRoot
  <2> QED
    BY <2>1, <2>2, OneGoesOn
<1>11. ASSUME NEW t \in Task, NEW o, CodeEnds(t, o) \/ NestedEnds(t, o) PROVE RootsStay
  <2>1. /\ Others({t}) /\ MayEnd(t, o) /\ tasks'[t].st = "run"
        /\ SameRoot(tasks[t], tasks'[t])
    BY <1>1, <1>11, CodeEndsDoes, NestedEndsDoes DEF Shrunk, OneFrame
  <2>2. GoesOn(t)
    BY <1>1, <2>1, EndingFacts DEF GoesOn, Alive, SameRoot
  <2> QED
    BY <2>1, <2>2, OneGoesOn
<1>12. ASSUME NEW t \in Task, NEW o, SessionEnds(t, o) PROVE RootsStay
  <2>1. MayEnd(t, o) /\ tasks[t].st = "run"
    BY <1>1, <1>12, SessionEndsDoes, EndingFacts
  <2>2. \/ Others({t, tasks[t].owner}) /\ Ends(t) /\ Wakes(t, tasks[t].owner)
        \/ Others({t}) /\ SameRoot(tasks[t], tasks'[t]) /\ tasks'[t].st = "run"
    BY <1>1, <1>12, SessionEndsDoes DEF Shrunk, OneFrame, SameRoot
  <2>3. CASE Others({t, tasks[t].owner}) /\ Ends(t) /\ Wakes(t, tasks[t].owner)
    BY <1>8, <2>1, <2>3
  <2>4. CASE Others({t}) /\ SameRoot(tasks[t], tasks'[t]) /\ tasks'[t].st = "run"
    <3>1. GoesOn(t)
      BY <2>1, <2>4 DEF GoesOn, Alive, SameRoot
    <3> QED
      BY <2>4, <3>1, OneGoesOn
  <2> QED
    BY <2>2, <2>3, <2>4
<1>13. ASSUME NEW t \in Task, Close(t) PROVE RootsStay
  <2>1. Top(t).call \in Call
    BY <1>1, <1>13, CloseStay DEF Announced
  <2>2. /\ Others({t}) /\ tasks[t].st = "run" /\ tasks'[t].st = "run"
        /\ SameRoot(tasks[t], tasks'[t])
    BY <1>1, <1>13, <2>1, CloseDoes DEF Shrunk
  <2>3. GoesOn(t)
    BY <2>2 DEF GoesOn, Alive, SameRoot
  <2> QED
    BY <2>2, <2>3, OneGoesOn
<1>14. ASSUME NEW t \in Task, EndTask(t) PROVE RootsStay
  <2>1. Others({t}) /\ Ends(t) /\ tasks[t].st = "run"
    BY <1>1, <1>14, EndTaskDoes
  <2>2. GoesOn(t)
    BY <2>1 DEF GoesOn, Ends, Alive
  <2> QED
    BY <2>1, <2>2, OneGoesOn
<1>15. ASSUME NEW t \in Task, Cancel(t) PROVE RootsStay
  <2>1. \A u \in Task : /\ SameRoot(tasks[u], tasks'[u]) /\ tasks'[u].st = tasks[u].st
                        /\ tasks[u].st = "free" => tasks'[u] = tasks[u]
    BY <1>1, <1>15, CancelDoes
  <2> QED
    BY <2>1 DEF RootsStay, GoesOn, Unborn, Alive, SameRoot
<1>16. ASSUME Restart PROVE RootsStay
  <2>1. \A u \in Task : /\ SameRoot(tasks[u], tasks'[u])
                        /\ IF Alive(u) THEN tasks'[u].st = "dead" ELSE tasks'[u] = tasks[u]
    BY <1>1, <1>16, RestartDoes
  <2>2. ASSUME NEW v \in Task PROVE GoesOn(v) \/ Unborn(v)
    <3>1. CASE Alive(v)
      BY <2>1, <3>1 DEF GoesOn, Alive, SameRoot
    <3>2. CASE ~Alive(v)
      BY <2>1, <3>2, SameTask
    <3> QED
      BY <3>1, <3>2
  <2> QED
    BY <2>2 DEF RootsStay
<1>17. QED
  BY <1>1, <1>2, <1>3, <1>4, <1>5, <1>6, <1>7, <1>9, <1>10, <1>11, <1>12, <1>13, <1>14, <1>15,
     <1>16, Steps
LEMMA FreeOnce ==
    ASSUME Typed, NEW u \in Task, NEW v \in Task, FreeTask(u), FreeTask(v)
    PROVE  u = v
<1>1. u \in Nat /\ v \in Nat /\ u >= 1 /\ v >= 1
  BY ActorAssumption DEF Task
<1>2. ~(u < v) /\ ~(v < u)
  BY <1>1 DEF FreeTask
<1>3. QED
  BY <1>1, <1>2

LEMMA BornStep == ASSUME IInv, Next PROVE Born'
<1>1. RootsStay /\ Born /\ Typed
  BY RootsStep DEF IInv
<1>2. Task \subseteq Nat /\ \A u \in Task : u >= 1 /\ \A v \in 1..u - 1 : v \in Task
  BY ActorAssumption DEF Task
<1>3. ASSUME NEW u \in Task
      PROVE  /\ (tasks[u].st = "free" => tasks[u] = Fresh)'
             /\ tasks'[u].owner < u
             /\ tasks'[u].st # "free" => \A v \in 1..u - 1 : tasks'[v].st # "free"
  <2>1. \A v \in Task : tasks[v].st # "free" => tasks'[v].st # "free"
    BY <1>1 DEF RootsStay, GoesOn, Unborn, BornNow, FreeTask
  <2>2. CASE GoesOn(u)
    BY <1>1, <1>2, <2>1, <2>2 DEF Born, GoesOn
  <2>3. CASE Unborn(u)
    BY <1>1, <2>3 DEF Born, Unborn, Fresh
  <2>4. CASE BornNow(u)
    <3>1. \A v \in 1..u - 1 : tasks[v].st # "free"
      BY <2>4 DEF BornNow, FreeTask
    <3>2. tasks'[u].st # "free"
      BY <2>4 DEF BornNow
    <3>3. ASSUME tasks'[u].owner # Nobody PROVE tasks'[u].owner < u
      <4> DEFINE t == tasks'[u].owner
      <4>1. t \in Task /\ tasks[t].st # "free" /\ tasks[u].st = "free"
        BY <2>4, <3>3 DEF BornNow, FreeTask
      <4>2. \A v \in 1..t - 1 : tasks[v].st # "free"
        BY <1>1, <4>1 DEF Born
      <4> HIDE DEF t
      <4>3. ~(u \in 1..t - 1) /\ u # t
        BY <4>1, <4>2
      <4>4. t < u
        BY <1>2, <4>1, <4>3
      <4> QED
        BY <4>4 DEF t
    <3>4. tasks'[u].owner = Nobody => tasks'[u].owner < u
      BY <1>2 DEF Nobody
    <3> QED
      BY <1>2, <2>1, <3>1, <3>2, <3>3, <3>4
  <2> QED
    BY <1>1, <2>2, <2>3, <2>4 DEF RootsStay
<1>4. QED
  BY <1>3 DEF Born

\* The frames of a task stay, but for the innermost ones; what is pushed.
FrameStays(v, i) ==
    LET f == tasks[v].frames[i]
        g == tasks'[v].frames[i]
    IN /\ i \in 1..Len(tasks[v].frames)
       /\ g.kind = f.kind /\ g.call = f.call /\ g.session = f.session
       /\ g.agent = f.agent /\ g.locked = f.locked
       /\ g.out = f.out \/ f.kind = "wrapper"
FrameComes(v, i) ==
    LET f == tasks'[v].frames[i]
        n == Len(tasks[v].frames)
    IN /\ i > n /\ f.out = "open"
       /\ \/ /\ f.kind = "wrapper" /\ i = n + 1 /\ ~f.locked
             /\ f.call \in Call /\ calls[f.call].task = Nobody /\ calls'[f.call].task = v
          \/ /\ tasks[v].st \in {"new", "lock"}
             /\ f.kind = "session" /\ i = 1 /\ n = 0 /\ tasks[v].plan # Nobody
             /\ f.call = tasks[v].plan
          \/ /\ f.kind = "session" /\ i = n + 2 /\ tasks'[v].frames[n + 1].kind = "wrapper"
             /\ ~f.locked /\ f.call \in Call /\ calls'[f.call].task # Nobody
          \/ f.kind = "nested" /\ f.session /\ ~f.locked /\ Announced(f.call)
FramesOf(v) ==
    /\ tasks'[v].st \in {"free", "new", "lock", "done"} => tasks'[v].frames = <<>>
    /\ \A i \in 1..Len(tasks'[v].frames) : FrameStays(v, i) \/ FrameComes(v, i)
FramesStay == \A v \in Task : FramesOf(v)

\* Only a wrapper gets an outcome.
FlagKept(r, q) ==
    \/ q.frames[Len(r.frames)].out = r.frames[Len(r.frames)].out
    \/ r.frames[Len(r.frames)].kind = "wrapper"

LEMMA SameFrames ==
    ASSUME Shaped, NEW v \in Task, tasks'[v].frames = tasks[v].frames,
           tasks'[v].st \in {"free", "new", "lock", "done"}
               => tasks[v].st \in {"free", "new", "lock", "done"}
    PROVE  FramesOf(v)
BY DEF FramesOf, FrameStays, Shaped

LEMMA FramesEnd ==
    ASSUME NEW v \in Task, Ends(v)
    PROVE  FramesOf(v)
<1>1. Len(tasks'[v].frames) = 0
  BY EmptySeq DEF Ends
<1>2. QED
  BY <1>1 DEF FramesOf, Ends

LEMMA FramesFlag ==
    ASSUME NEW v \in Task, OneFrame(tasks[v], tasks'[v]), tasks'[v].st \in {"run", "wait"},
           FlagKept(tasks[v], tasks'[v])
    PROVE  FramesOf(v)
BY DEF FramesOf, FrameStays, OneFrame, FlagKept

LEMMA FramesShrink ==
    ASSUME NEW v \in Task, NEW r, Shrunk(tasks[v], r), OneFrame(r, tasks'[v]),
           tasks'[v].st \in {"run", "wait"}, FlagKept(r, tasks'[v])
    PROVE  FramesOf(v)
<1>1. ASSUME NEW i \in 1..Len(tasks'[v].frames) PROVE FrameStays(v, i)
  <2>1. PICK n \in Nat \ {0} : n = Len(tasks[v].frames)
    BY DEF Shrunk
  <2>2. Len(r.frames) = n - 1 /\ Len(tasks'[v].frames) = n - 1
    BY <2>1 DEF Shrunk, OneFrame
  <2>3. i \in 1..n - 1
    BY <2>2
  <2>4. r.frames[i] = tasks[v].frames[i]
    BY <2>1, <2>3 DEF Shrunk
  <2>5. tasks'[v].frames[i].out = r.frames[i].out \/ r.frames[i].kind = "wrapper"
    BY <2>2, <2>3 DEF OneFrame, FlagKept
  <2> QED
    BY <2>1, <2>2, <2>3, <2>4, <2>5 DEF FrameStays, OneFrame
<1>2. QED
  BY <1>1 DEF FramesOf

LEMMA SameFrame == \A r : OneFrame(r, r) /\ FlagKept(r, r)
BY DEF OneFrame, SameRoot, FlagKept

LEMMA FramesGrow ==
    ASSUME NEW v \in Task, NEW r, NEW f, OneFrame(tasks[v], r), Grown(r, tasks'[v], f),
           tasks'[v].st \in {"run", "wait"}, FlagKept(tasks[v], r), f.out = "open",
           \/ /\ f.kind = "wrapper" /\ ~f.locked
              /\ f.call \in Call /\ calls[f.call].task = Nobody /\ calls'[f.call].task = v
           \/ /\ tasks[v].st \in {"new", "lock"}
              /\ f.kind = "session" /\ Len(tasks[v].frames) = 0 /\ tasks[v].plan # Nobody
              /\ f.call = tasks[v].plan
           \/ f.kind = "nested" /\ f.session /\ ~f.locked /\ Announced(f.call)
    PROVE  FramesOf(v)
<1>1. PICK n \in Nat : n = Len(tasks[v].frames) /\ n = Len(r.frames) /\ Len(tasks'[v].frames) = n + 1
  BY DEF Grown, OneFrame
<1>2. ASSUME NEW i \in 1..n + 1 PROVE FrameStays(v, i) \/ FrameComes(v, i)
  <2>1. CASE i \in 1..n
    <3>1. tasks'[v].frames[i] = r.frames[i]
      BY <1>1, <2>1 DEF Grown
    <3>2. r.frames[i].out = tasks[v].frames[i].out \/ tasks[v].frames[i].kind = "wrapper"
      BY <1>1, <2>1 DEF OneFrame, FlagKept
    <3> QED
      BY <1>1, <2>1, <3>1, <3>2 DEF FrameStays, OneFrame
  <2>2. CASE i = n + 1
    <3>1. tasks'[v].frames[i] = f
      BY <1>1, <2>2 DEF Grown
    <3> QED
      BY <1>1, <2>2, <3>1 DEF FrameComes
  <2> QED
    BY <2>1, <2>2
<1>3. QED
  BY <1>1, <1>2 DEF FramesOf
LEMMA AddedType ==
    ASSUME NEW cs \in [Call -> CallRec], NEW ctx \in Context, NEW f \in Frame
    PROVE  /\ AddedBy(cs, ctx, f) \in Context
           /\ f.kind # "wrapper" => /\ AddedBy(cs, ctx, f).session
                                    /\ AddedBy(cs, ctx, f).stack = ctx.stack
                                    /\ AddedBy(cs, ctx, f).agent = ctx.agent
           /\ f.kind = "wrapper" => /\ AddedBy(cs, ctx, f).session = ctx.session
                                    /\ AddedBy(cs, ctx, f).stack = Append(ctx.stack, f.call)
                                    /\ AddedBy(cs, ctx, f).agent = cs[f.call].agent
<1>1. Append(ctx.stack, f.call) \in Seq(Call) /\ Append(ctx.gens, f.call) \in Seq(Call)
  BY AppendProperties DEF Context, Frame
<1>2. cs[f.call].agent \in Agents \cup {Nobody}
  BY DEF CallRec, Frame
<1>3. CASE f.kind = "wrapper"
  <2>1. AddedBy(cs, ctx, f) = [ctx EXCEPT !.stack = Append(@, f.call), !.agent = cs[f.call].agent]
    BY <1>3 DEF AddedBy
  <2> QED
    BY <1>1, <1>2, <1>3, <2>1 DEF Context
<1>4. CASE f.kind # "wrapper"
  <2>1. AddedBy(cs, ctx, f) = [ctx EXCEPT !.gens = Append(@, f.call), !.session = TRUE]
    BY <1>4 DEF AddedBy
  <2> QED
    BY <1>1, <1>4, <2>1 DEF Context
<1>5. QED
  BY <1>3, <1>4

\* Inside a session, the context tells so.
LEMMA TopSession ==
    ASSUME Typed, Paths, NEW t \in Task, tasks[t].frames # <<>>, Top(t).kind # "wrapper"
    PROVE  tasks[t].ctx.session
<1>1. PICK n \in Nat : n = Len(tasks[t].frames) /\ n \in 1..n
  BY TasksType
<1>2. PICK p \in [0..n -> Context] : Follows(tasks[t], calls, p)
  BY <1>1 DEF Paths
<1>3. Top(t) = tasks[t].frames[n] /\ Top(t) \in Frame
  BY <1>1, TasksType DEF Top, Last
<1>4. tasks[t].ctx = AddedBy(calls, p[n - 1], Top(t)) /\ p[n - 1] \in Context
  BY <1>1, <1>2, <1>3 DEF Follows
<1>5. calls \in [Call -> CallRec]
  BY DEF Typed
<1>6. AddedBy(calls, p[n - 1], Top(t)).session
  BY <1>3, <1>4, <1>5, AddedType
<1>7. QED
  BY <1>4, <1>6, Zenon

LEMMA FramesStep == ASSUME IInv, Next PROVE FramesStay
<1>1. Typed /\ Shaped /\ Known /\ Queued /\ Awaiting /\ Paths
  BY DEF IInv
<1>2. ASSUME NEW u \in Task, Others({u}), tasks'[u].frames = <<>> PROVE FramesStay
  <2>1. FramesOf(u)
    <3>1. Len(tasks'[u].frames) = 0
      BY <1>2, EmptySeq
    <3> QED
      BY <1>2, <3>1 DEF FramesOf
  <2> QED
    BY <1>1, <1>2, <2>1, SameFrames DEF FramesStay, Others
<1>3. ASSUME NEW t \in Task, Others({t}), FramesOf(t) PROVE FramesStay
  BY <1>1, <1>3, SameFrames DEF FramesStay, Others
<1>4. ASSUME NEW u \in Task, Arrive(u) PROVE FramesStay
  BY <1>1, <1>2, <1>4, ArriveDoes DEF Newborn
<1>5. ASSUME NEW t \in Task, NEW u \in Task, Spawn(t, u) PROVE FramesStay
  BY <1>1, <1>2, <1>5, SpawnDoes DEF Newborn
<1>6. ASSUME NEW t \in Task, NEW c \in Call, NEW a \in Agents, NEW k \in MethodKinds,
             CallCode(t, c, a, k)
      PROVE  FramesStay
  <2>1. /\ Others({t}) /\ Grown(tasks[t], tasks'[t], WrapperFrame(c, tasks[t].ctx))
        /\ tasks'[t].st = "run"
    BY <1>1, <1>6, CallCodeDoes DEF InBody
  <2>2. calls[c].task = Nobody /\ calls'[c].task = t
    BY <1>1, <1>6, AnnounceFacts DEF CallCode
  <2>3. LET f == WrapperFrame(c, tasks[t].ctx)
        IN f.kind = "wrapper" /\ ~f.locked /\ f.call = c /\ f.out = "open"
    BY <1>1, FrameType, TasksType
  <2>4. FramesOf(t)
    BY <2>1, <2>2, <2>3, SameFrame, FramesGrow
  <2> QED
    BY <1>3, <2>1, <2>4
<1>7. ASSUME NEW t \in Task, NEW c \in Call, NEW a \in Agents, NEW k \in MethodKinds,
             CallInline(t, c, a, k)
      PROVE  FramesStay
  <2> DEFINE f == WrapperFrame(c, tasks[t].ctx)
  <2>1. Others({t}) /\ tasks'[t].st = "run"
    BY <1>1, <1>7, CallInlineDoes DEF InBody
  <2>2. calls[c].task = Nobody /\ calls'[c].task = t /\ t # Nobody
    BY <1>1, <1>7, AnnounceFacts, ActorAssumption DEF CallInline, Task, Nobody
  <2>3. PICK r \in TaskRec :
           /\ Grown(tasks[t], r, f) /\ r.ctx \in Context
           /\ Grown(r, tasks'[t], SessionFrame(c, r.ctx, FALSE))
    BY <1>1, <1>7, CallInlineDoes DEF TaskRec
  <2>4. f.kind = "wrapper" /\ ~f.locked /\ f.call = c /\ f.out = "open"
    BY <1>1, FrameType, TasksType
  <2> HIDE DEF f
  <2>5. PICK n \in Nat : /\ n = Len(tasks[t].frames) /\ Len(r.frames) = n + 1
                         /\ Len(tasks'[t].frames) = n + 2
    <3>1. Len(tasks[t].frames) \in Nat /\ Len(r.frames) = Len(tasks[t].frames) + 1
      BY <2>3 DEF Grown
    <3>2. Len(tasks'[t].frames) = Len(r.frames) + 1
      BY <2>3 DEF Grown
    <3> QED
      BY <3>1, <3>2
  <2> DEFINE g == SessionFrame(c, r.ctx, FALSE)
  <2>6. /\ \A i \in 1..n : tasks'[t].frames[i] = tasks[t].frames[i]
        /\ tasks'[t].frames[n + 1] = f /\ tasks'[t].frames[n + 2] = g
    <3>1. \A i \in 1..n : r.frames[i] = tasks[t].frames[i]
      BY <2>3, <2>5 DEF Grown
    <3>2. r.frames[n + 1] = f
      BY <2>3, <2>5 DEF Grown
    <3>3. \A i \in 1..n + 1 : tasks'[t].frames[i] = r.frames[i]
      BY <2>3, <2>5 DEF Grown
    <3>4. tasks'[t].frames[n + 1 + 1] = g
      BY <2>3, <2>5 DEF Grown
    <3> HIDE DEF g
    <3> QED
      BY <3>1, <3>2, <3>3, <3>4
  <2>7. ASSUME NEW i \in 1..n + 2 PROVE FrameStays(t, i) \/ FrameComes(t, i)
    <3> HIDE DEF g
    <3>1. CASE i \in 1..n
      BY <2>5, <2>6, <3>1 DEF FrameStays
    <3>2. CASE i = n + 1
      <4>1. f.kind = "wrapper" /\ ~f.locked /\ f.call = c /\ f.out = "open"
        BY <2>4
      <4>2. i > n /\ tasks'[t].frames[i] = f
        BY <2>6, <3>2
      <4> QED
        BY <2>2, <2>5, <3>2, <4>1, <4>2 DEF FrameComes
    <3>3. CASE i = n + 2
      <4>1. g.kind = "session" /\ ~g.locked /\ g.call = c /\ g.out = "open"
        BY <2>3, FrameType DEF g
      <4>2. /\ i > n /\ tasks'[t].frames[i] = g /\ tasks'[t].frames[n + 1].kind = "wrapper"
        BY <2>4, <2>6, <3>3
      <4> QED
        BY <2>2, <2>5, <3>3, <4>1, <4>2 DEF FrameComes
    <3> QED
      BY <3>1, <3>2, <3>3
  <2>8. FramesOf(t)
    BY <2>1, <2>5, <2>7 DEF FramesOf
  <2> QED
    BY <1>3, <2>1, <2>8
<1>8. ASSUME NEW t \in Task, NEW u \in Task, NEW c \in Call, NEW a \in Agents,
             NEW k \in MethodKinds, CallPlan(t, u, c, a, k)
      PROVE  FramesStay
  <2>1. /\ Others({t, u}) /\ Grown(tasks[t], tasks'[t], WrapperFrame(c, tasks[t].ctx))
        /\ tasks'[t].st = "wait" /\ tasks'[u].frames = <<>>
    <3>1. /\ Others({t, u}) /\ Grown(tasks[t], tasks'[t], WrapperFrame(c, tasks[t].ctx))
          /\ tasks'[t].st = "wait" /\ Newborn(u, t, "new", tasks'[t].ctx, c)
      BY <1>1, <1>8, CallPlanDoes
    <3> QED
      BY <3>1 DEF Newborn
  <2>2. calls[c].task = Nobody /\ calls'[c].task = t
    BY <1>1, <1>8, AnnounceFacts DEF CallPlan
  <2>3. LET f == WrapperFrame(c, tasks[t].ctx)
        IN f.kind = "wrapper" /\ ~f.locked /\ f.call = c /\ f.out = "open"
    BY <1>1, FrameType, TasksType
  <2>4. FramesOf(t)
    BY <2>1, <2>2, <2>3, SameFrame, FramesGrow
  <2>5. FramesOf(u)
    <3>1. Len(tasks'[u].frames) = 0
      BY <2>1, EmptySeq
    <3> QED
      BY <2>1, <3>1 DEF FramesOf
  <2> QED
    BY <1>1, <2>1, <2>4, <2>5, SameFrames DEF FramesStay, Others
<1>9. ASSUME NEW u \in Task, NEW l \in BOOLEAN, Opens(u, l), tasks[u].st \in {"new", "lock"}
      PROVE  FramesStay
  <2>1. LET f == SessionFrame(tasks[u].plan, tasks[u].ctx, l)
        IN f.kind = "session" /\ f.call = tasks[u].plan /\ f.out = "open"
    BY <1>1, <1>9, FrameType, TasksType DEF Opens
  <2>2. Len(tasks[u].frames) = 0 /\ tasks[u].plan # Nobody
    BY <1>1, <1>9, EmptySeq DEF Opens, Shaped
  <2>3. FramesOf(u)
    BY <1>9, <2>1, <2>2, SameFrame, FramesGrow DEF Opens
  <2> QED
    BY <1>3, <1>9, <2>3 DEF Opens
<1>10. ASSUME NEW u \in Task, StartFree(u) \/ Granted(u) PROVE FramesStay
  BY <1>1, <1>9, <1>10, StartFreeDoes, GrantedDoes
<1>11. ASSUME NEW u \in Task, StartLocked(u) PROVE FramesStay
  <2>1. tasks[u].st = "new" /\ (Opens(u, TRUE) \/ (Others({u}) /\ tasks'[u].frames = tasks[u].frames))
    BY <1>1, <1>11, StartLockedDoes
  <2>2. CASE Opens(u, TRUE)
    BY <1>9, <2>1, <2>2
  <2>3. CASE Others({u}) /\ tasks'[u].frames = tasks[u].frames
    <3>1. tasks[u].frames = <<>>
      BY <1>1, <2>1 DEF Shaped
    <3> QED
      BY <1>2, <2>3, <3>1
  <2> QED
    BY <2>1, <2>2, <2>3
<1>12. ASSUME NEW u \in Task, Ends(u), Wakes(u, tasks[u].owner), Others({u, tasks[u].owner})
      PROVE  FramesStay
  <2>1. FramesOf(u)
    BY <1>12, FramesEnd
  <2>2. FramesOf(tasks[u].owner)
    BY <1>12, FramesFlag DEF Wakes, FlagKept
  <2> QED
    BY <1>1, <1>12, <2>1, <2>2, SameFrames DEF Others, FramesStay
<1>13. ASSUME NEW u \in Task, PlanCancelled(u) PROVE FramesStay
  BY <1>1, <1>12, <1>13, PlanCancelledDoes
<1>14. ASSUME NEW t \in Task, NestStrategy(t) PROVE FramesStay
  <2>1. /\ Others({t}) /\ tasks[t].frames # <<>> /\ Top(t).kind = "session"
        /\ tasks'[t].st = "run"
    BY <1>1, <1>14, NestStrategyDoes DEF InBody
  <2>2. PICK r \in TaskRec : /\ OneFrame(tasks[t], r)
                             /\ Grown(r, tasks'[t], NestedFrame(Top(t).call, r.ctx))
                             /\ r.frames[Len(r.frames)].out = "open"
    BY <1>1, <1>14, NestStrategyDoes
  <2>8. FlagKept(tasks[t], r)
    <3>1. Top(t).out = "open"
      BY <1>1, <1>14, <2>1, NestStrategyDoes DEF InBody
    <3> QED
      BY <2>2, <3>1 DEF FlagKept, OneFrame, Top, Last
  <2>3. Announced(Top(t).call) /\ r.ctx \in Context /\ r.ctx = tasks[t].ctx
    BY <1>1, <2>1, <2>2, TopKnown DEF TaskRec, OneFrame
  <2>4. LET f == NestedFrame(Top(t).call, r.ctx)
        IN /\ f.kind = "nested" /\ f.session = tasks[t].ctx.session /\ ~f.locked
           /\ f.call = Top(t).call /\ f.out = "open"
    <3> DEFINE f == NestedFrame(Top(t).call, r.ctx)
    <3>1. Top(t).call \in Call /\ FALSE \in BOOLEAN
      BY <2>3 DEF Announced
    <3>2. f.kind = "nested" /\ f.session = r.ctx.session /\ ~f.locked /\ f.call = Top(t).call
          /\ f.out = "open"
      BY <2>3, <3>1, FrameType
    <3> HIDE DEF f
    <3>3. f.session = tasks[t].ctx.session
      BY <2>3, <3>2, Zenon
    <3> QED
      BY <3>2, <3>3, Zenon DEF f
  <2>5. tasks[t].ctx.session
    BY <1>1, <2>1, TopSession
  <2>6. NestedFrame(Top(t).call, r.ctx).session
    BY <2>4, <2>5, Zenon
  <2>7. FramesOf(t)
    BY <2>1, <2>2, <2>3, <2>4, <2>6, <2>8, FramesGrow
  <2> QED
    BY <1>3, <2>1, <2>7
<1>15. ASSUME NEW t \in Task, NEW o, CodeEnds(t, o) PROVE FramesStay
  <2>1. /\ Others({t}) /\ OneFrame(tasks[t], tasks'[t]) /\ tasks'[t].st = "run"
        /\ FlagKept(tasks[t], tasks'[t])
    BY <1>1, <1>15, CodeEndsDoes DEF FlagKept, Top, Last
  <2> QED
    BY <1>3, <2>1, FramesFlag
<1>16. ASSUME NEW t \in Task, NEW o, NestedEnds(t, o) PROVE FramesStay
  BY <1>1, <1>3, <1>16, NestedEndsDoes, SameFrame, FramesShrink
<1>17. ASSUME NEW t \in Task, NEW o, SessionEnds(t, o) PROVE FramesStay
  <2>1. \/ Others({t, tasks[t].owner}) /\ Ends(t) /\ Wakes(t, tasks[t].owner)
        \/ /\ Others({t}) /\ tasks'[t].st = "run"
           /\ \E r \in TaskRec : /\ Shrunk(tasks[t], r) /\ OneFrame(r, tasks'[t])
                                 /\ r.frames[Len(r.frames)].kind = "wrapper"
    <3>1. CASE Len(tasks[t].frames) = 1
      <4>1. \/ Others({t, tasks[t].owner}) /\ Ends(t) /\ Wakes(t, tasks[t].owner)
            \/ Len(tasks[t].frames) > 1
        BY <1>1, <1>17, SessionEndsDoes, Zenon
      <4>2. ~(Len(tasks[t].frames) > 1)
        BY <3>1
      <4> QED
        BY <4>1, <4>2, Zenon
    <3>2. CASE Len(tasks[t].frames) # 1
      <4>1. /\ Len(tasks[t].frames) > 1 /\ Others({t}) /\ tasks'[t].st = "run"
            /\ tasks[t].frames[Len(tasks[t].frames) - 1].kind = "wrapper"
            /\ \E r \in TaskRec : Shrunk(tasks[t], r) /\ OneFrame(r, tasks'[t])
        BY <1>1, <1>17, <3>2, SessionEndsDoes
      <4>2. PICK r \in TaskRec : Shrunk(tasks[t], r) /\ OneFrame(r, tasks'[t])
        BY <4>1
      <4>3. PICK n \in Nat \ {0} : n = Len(tasks[t].frames)
        BY <4>2 DEF Shrunk
      <4>4. Len(r.frames) = n - 1 /\ n - 1 \in 1..n - 1 /\ r.frames[n - 1] = tasks[t].frames[n - 1]
        BY <4>1, <4>2, <4>3 DEF Shrunk
      <4> QED
        BY <4>1, <4>2, <4>3, <4>4
    <3> QED
      BY <3>1, <3>2
  <2>2. CASE Others({t, tasks[t].owner}) /\ Ends(t) /\ Wakes(t, tasks[t].owner)
    BY <1>12, <2>2
  <2>3. CASE /\ Others({t}) /\ tasks'[t].st = "run"
             /\ \E r \in TaskRec : /\ Shrunk(tasks[t], r) /\ OneFrame(r, tasks'[t])
                                   /\ r.frames[Len(r.frames)].kind = "wrapper"
    BY <1>3, <2>3, FramesShrink DEF FlagKept
  <2> QED
    BY <2>1, <2>2, <2>3
<1>18. ASSUME NEW t \in Task, Close(t) PROVE FramesStay
  <2>1. Top(t).call \in Call
    BY <1>1, <1>18, CloseStay DEF Announced
  <2>2. Others({t}) /\ Shrunk(tasks[t], tasks'[t]) /\ tasks'[t].st = "run"
    BY <1>1, <1>18, <2>1, CloseDoes
  <2> QED
    BY <1>3, <2>2, SameFrame, FramesShrink
<1>19. ASSUME NEW t \in Task, EndTask(t) PROVE FramesStay
  BY <1>1, <1>3, <1>19, EndTaskDoes, FramesEnd
<1>20. ASSUME NEW t \in Task, Cancel(t) PROVE FramesStay
  BY <1>1, <1>20, CancelDoes, SameFrames DEF FramesStay
<1>21. ASSUME Restart PROVE FramesStay
  BY <1>1, <1>21, RestartDoes, SameFrames DEF FramesStay
<1>22. QED
  BY <1>1, <1>4, <1>5, <1>6, <1>7, <1>8, <1>10, <1>11, <1>13, <1>14, <1>15, <1>16, <1>17, <1>18,
     <1>19, <1>20, <1>21, Steps
-----------------------------------------------------------------------------
(* The invariant is inductive.                                             *)

LEMMA TypedStep == ASSUME IInv, Next PROVE Typed'
<1>1. Typed /\ Shaped /\ Known /\ Queued /\ Awaiting
  BY DEF IInv
<1>2. ASSUME NEW t \in Task, Close(t) PROVE Typed'
  <2>1. Top(t).call \in Call
    BY <1>1, <1>2, CloseStay DEF Announced
  <2> QED
    BY <1>1, <1>2, <2>1, CloseDoes
<1>3. QED
  BY <1>1, <1>2, Steps, ArriveDoes, SpawnDoes, CallCodeDoes, CallInlineDoes, CallPlanDoes,
     StartFreeDoes, StartLockedDoes, GrantedDoes, PlanCancelledDoes, NestStrategyDoes,
     CodeEndsDoes, NestedEndsDoes, SessionEndsDoes, EndTaskDoes, CancelDoes, RestartDoes

AnnouncedNow(c) == c \in Call /\ calls'[c].task # Nobody

\* What was announced stays so.
LEMMA AnnouncedStays ==
    ASSUME CallsStay, NEW c, Announced(c)
    PROVE  /\ AnnouncedNow(c) /\ calls'[c].agent = calls[c].agent
           /\ calls'[c].task = calls[c].task
BY DEF CallsStay, Announced, AnnouncedNow

LEMMA AgentsStep == ASSUME IInv, Next PROVE \A c \in Call : AnnouncedNow(c) => calls'[c].agent \in Agents
<1>1. Typed /\ Shaped /\ Known
  BY DEF IInv
<1>2. ASSUME NEW t \in Task, NEW c \in Call, NEW a \in Agents, NEW k \in MethodKinds,
             Announce(t, c, a, k)
      PROVE  \A d \in Call : AnnouncedNow(d) => calls'[d].agent \in Agents
  BY <1>1, <1>2, AnnounceFacts DEF Known, Announced, AnnouncedNow
<1>3. ASSUME NEW t \in Task, Close(t)
      PROVE  \A d \in Call : AnnouncedNow(d) => calls'[d].agent \in Agents
  <2>1. Top(t).call \in Call
    BY <1>1, <1>3, CloseStay DEF Announced, AnnouncedNow
  <2>2. \A d \in Call : calls'[d].agent = calls[d].agent /\ calls'[d].task = calls[d].task
    BY <1>1, <1>3, <2>1, CloseDoes
  <2> QED
    BY <1>1, <2>2 DEF Known, Announced, AnnouncedNow
<1>4. ASSUME UNCHANGED calls
      PROVE  \A d \in Call : AnnouncedNow(d) => calls'[d].agent \in Agents
  BY <1>1, <1>4 DEF Known, Announced, AnnouncedNow
<1>5. ASSUME NEW t \in Task, NEW c \in Call, NEW a \in Agents, NEW k \in MethodKinds,
             CallCode(t, c, a, k) \/ CallInline(t, c, a, k) \/ \E u \in Task : CallPlan(t, u, c, a, k)
      PROVE  \A d \in Call : AnnouncedNow(d) => calls'[d].agent \in Agents
  BY <1>2, <1>5 DEF CallCode, CallInline, CallPlan
<1>6. QED
  BY <1>1, <1>3, <1>4, <1>5, Steps
     DEF Arrive, Spawn, StartFree, StartLocked, Granted, PlanCancelled, NestStrategy, CodeEnds,
         NestedEnds, SessionEnds, EndTask, Cancel, Restart

LEMMA KnownStep == ASSUME IInv, Next PROVE Known'
<1>1. RootsStay /\ FramesStay /\ CallsStay /\ Typed /\ Born /\ Known /\ Shaped /\ Typed'
  BY RootsStep, FramesStep, CallsStep, TypedStep DEF IInv
<1>2. \A c \in Call : AnnouncedNow(c) => calls'[c].agent \in Agents
  BY AgentsStep
<1>3. ASSUME NEW t \in Task, tasks'[t].plan # Nobody
      PROVE  /\ AnnouncedNow(tasks'[t].plan)
             /\ \/ tasks'[t].plan = tasks[t].plan /\ Announced(tasks[t].plan)
                \/ BornNow(t) /\ ~Announced(tasks'[t].plan)
  <2>1. CASE GoesOn(t)
    BY <1>1, <1>3, <2>1, AnnouncedStays DEF GoesOn, Known
  <2>2. CASE Unborn(t)
    BY <1>1, <1>3, <2>2 DEF Unborn, Born, Fresh
  <2>3. CASE BornNow(t)
    BY <1>3, <2>3 DEF BornNow, Announced, AnnouncedNow
  <2> QED
    BY <1>1, <2>1, <2>2, <2>3 DEF RootsStay
<1>4. ASSUME NEW t \in Task, NEW u \in Task,
             tasks'[t].plan = tasks'[u].plan, tasks'[t].plan # Nobody
      PROVE  t = u
  <2>1. CASE BornNow(t) /\ BornNow(u)
    BY <1>1, <2>1, FreeOnce DEF BornNow
  <2>2. CASE tasks'[t].plan = tasks[t].plan /\ tasks'[u].plan = tasks[u].plan
    BY <1>1, <1>4, <2>2 DEF Known
  <2>3. QED
    BY <1>3, <1>4, <2>1, <2>2
<1>5. ASSUME NEW t \in Task, NEW i \in 1..Len(tasks'[t].frames)
      PROVE  /\ AnnouncedNow(tasks'[t].frames[i].call)
             /\ Wrapper(t, i)' => calls'[tasks'[t].frames[i].call].task = t
             /\ \/ FrameStays(t, i) /\ Announced(tasks[t].frames[i].call)
                \/ Wrapper(t, i)' => /\ i = Len(tasks[t].frames) + 1
                                     /\ ~Announced(tasks'[t].frames[i].call)
  <2>1. CASE FrameStays(t, i)
    <3>1. Announced(tasks[t].frames[i].call) /\ tasks'[t].frames[i].call = tasks[t].frames[i].call
          /\ (Wrapper(t, i) => calls[tasks[t].frames[i].call].task = t)
      BY <1>1, <2>1 DEF FrameStays, Known
    <3>2. AnnouncedNow(tasks'[t].frames[i].call)
          /\ calls'[tasks'[t].frames[i].call].task = calls[tasks[t].frames[i].call].task
      BY <1>1, <3>1, AnnouncedStays DEF CallsStay, Announced, AnnouncedNow
    <3> QED
      BY <2>1, <3>1, <3>2 DEF FrameStays, Wrapper
  <2>2. CASE FrameComes(t, i)
    <3> DEFINE f == tasks'[t].frames[i]
               n == Len(tasks[t].frames)
    <3>1. CASE /\ f.kind = "wrapper" /\ i = n + 1 /\ f.call \in Call
               /\ calls[f.call].task = Nobody /\ calls'[f.call].task = t
      <4>1. t # Nobody
        BY ActorAssumption DEF Task, Nobody
      <4> QED
        BY <3>1, <4>1 DEF Announced, AnnouncedNow, Wrapper
    <3>2. CASE f.kind = "session" /\ tasks[t].plan # Nobody /\ f.call = tasks[t].plan
      <4>1. Announced(tasks[t].plan)
        BY <1>1, <3>2 DEF Known
      <4>2. calls'[tasks[t].plan].task = calls[tasks[t].plan].task
        BY <1>1, <4>1 DEF CallsStay, Announced, AnnouncedNow
      <4> QED
        BY <3>2, <4>1, <4>2 DEF Announced, AnnouncedNow, Wrapper
    <3>3. CASE f.kind = "session" /\ f.call \in Call /\ calls'[f.call].task # Nobody
      BY <3>3 DEF Announced, AnnouncedNow, Wrapper
    <3>4. CASE f.kind = "nested" /\ Announced(f.call)
      <4>1. calls'[f.call].task = calls[f.call].task
        BY <1>1, <3>4 DEF CallsStay, Announced, AnnouncedNow
      <4> QED
        BY <3>4, <4>1 DEF Announced, AnnouncedNow, Wrapper
    <3>5. QED
      BY <2>2, <3>1, <3>2, <3>3, <3>4 DEF FrameComes
  <2> QED
    BY <1>1, <2>1, <2>2 DEF FramesStay, FramesOf
<1>6. ASSUME NEW t \in Task, NEW i \in 1..Len(tasks'[t].frames), NEW j \in 1..Len(tasks'[t].frames),
             Wrapper(t, i)', Wrapper(t, j)', tasks'[t].frames[i].call = tasks'[t].frames[j].call
      PROVE  i = j
  <2>1. CASE FrameStays(t, i) /\ FrameStays(t, j)
    BY <1>1, <1>6, <2>1 DEF FrameStays, Known, Wrapper
  <2>2. CASE FrameStays(t, i) /\ Announced(tasks[t].frames[i].call)
             /\ ~Announced(tasks'[t].frames[j].call)
    BY <1>6, <2>2 DEF FrameStays
  <2>3. CASE FrameStays(t, j) /\ Announced(tasks[t].frames[j].call)
             /\ ~Announced(tasks'[t].frames[i].call)
    BY <1>6, <2>3 DEF FrameStays
  <2>4. CASE i = Len(tasks[t].frames) + 1 /\ j = Len(tasks[t].frames) + 1
    BY <2>4
  <2>5. QED
    BY <1>5, <1>6, <2>1, <2>2, <2>3, <2>4
<1>7. QED
  BY <1>2, <1>3, <1>4, <1>5, <1>6 DEF Known, Announced, AnnouncedNow

LEMMA ShapedStep == ASSUME IInv, Next PROVE Shaped'
<1>1. RootsStay /\ FramesStay /\ Typed /\ Born /\ Known /\ Shaped /\ Typed'
  BY RootsStep, FramesStep, TypedStep DEF IInv
<1>2. ASSUME NEW t \in Task, tasks'[t].st \in {"new", "lock"}
      PROVE  tasks'[t].plan # Nobody /\ ~tasks'[t].base.session
  <2>1. CASE GoesOn(t)
    <3>1. tasks[t].st \in {"new", "lock"} /\ SameRoot(tasks[t], tasks'[t])
      BY <1>2, <2>1 DEF GoesOn, Alive
    <3> QED
      BY <1>1, <3>1 DEF Shaped, SameRoot
  <2>2. CASE Unborn(t)
    BY <1>2, <2>2 DEF Unborn
  <2>3. CASE BornNow(t)
    <3>1. 0 \notin Call
      BY ActorAssumption DEF Call
    <3> QED
      BY <1>2, <2>3, <3>1 DEF BornNow, Nobody
  <2> QED
    BY <1>1, <2>1, <2>2, <2>3 DEF RootsStay
<1>3. ASSUME NEW t \in Task, NEW i \in 1..Len(tasks'[t].frames)
      PROVE  LET f == tasks'[t].frames[i]
             IN /\ f.kind = "session" => IF i = 1 THEN tasks'[t].plan # Nobody /\ f.call = tasks'[t].plan
                                         ELSE Wrapper(t, i - 1)'
                /\ f.locked => i = 1 /\ f.kind = "session"
                /\ f.kind = "nested" => f.session
                /\ f.out # "open" => f.kind = "wrapper"
  <2>1. PICK n \in Nat : n = Len(tasks[t].frames)
    BY <1>1, TasksType
  <2>2. PICK m \in Nat : m = Len(tasks'[t].frames)
    BY <1>1, TasksType, LenProperties DEF Typed, TaskRec
  <2>3. tasks'[t].plan = tasks[t].plan
    <3>1. tasks'[t].frames # <<>>
      BY <1>3, EmptySeq
    <3>2. ~Unborn(t) /\ ~BornNow(t)
      BY <1>1, <3>1 DEF Unborn, BornNow, Born, Fresh
    <3> QED
      BY <1>1, <3>2 DEF RootsStay, GoesOn
  <2>4. CASE FrameStays(t, i)
    <3> DEFINE f == tasks'[t].frames[i]
               g == tasks[t].frames[i]
    <3>1. /\ i \in 1..n /\ g.kind = f.kind /\ g.call = f.call /\ g.session = f.session
          /\ f.locked = g.locked /\ (f.out = g.out \/ g.kind = "wrapper")
      BY <2>1, <2>4 DEF FrameStays
    <3>2. /\ g.kind = "session" => IF i = 1 THEN tasks[t].plan # Nobody /\ g.call = tasks[t].plan
                                   ELSE Wrapper(t, i - 1)
          /\ g.locked => i = 1 /\ g.kind = "session"
          /\ g.kind = "nested" => g.session
          /\ g.out # "open" => g.kind = "wrapper"
      BY <1>1, <2>1, <3>1 DEF Shaped
    <3>3. ASSUME i # 1, Wrapper(t, i - 1) PROVE Wrapper(t, i - 1)'
      <4>1. i - 1 \in 1..m /\ i - 1 \in 1..n
        BY <1>3, <2>2, <3>1, <3>3
      <4>2. FrameStays(t, i - 1) \/ FrameComes(t, i - 1)
        BY <1>1, <2>2, <4>1 DEF FramesStay, FramesOf
      <4>3. ~FrameComes(t, i - 1)
        BY <2>1, <4>1 DEF FrameComes
      <4> QED
        BY <3>3, <4>2, <4>3 DEF FrameStays, Wrapper
    <3>4. /\ f.kind = "session" => IF i = 1 THEN tasks'[t].plan # Nobody /\ f.call = tasks'[t].plan
                                   ELSE Wrapper(t, i - 1)'
      BY <2>3, <3>1, <3>2, <3>3
    <3> HIDE DEF f, g
    <3>5. /\ f.locked => i = 1 /\ f.kind = "session"
          /\ f.kind = "nested" => f.session
          /\ f.out # "open" => f.kind = "wrapper"
      BY <3>1, <3>2, Zenon
    <3> QED
      BY <3>4, <3>5 DEF f
  <2>5. CASE FrameComes(t, i)
    <3> DEFINE f == tasks'[t].frames[i]
    <3>0. f.out = "open"
      BY <2>5 DEF FrameComes
    <3>1. CASE f.kind = "wrapper" /\ ~f.locked
      BY <3>0, <3>1
    <3>2. CASE /\ f.kind = "session" /\ i = 1 /\ tasks[t].plan # Nobody
               /\ f.call = tasks[t].plan
      BY <2>3, <3>0, <3>2
    <3>3. CASE /\ f.kind = "session" /\ i = n + 2 /\ tasks'[t].frames[n + 1].kind = "wrapper"
               /\ ~f.locked
      BY <3>0, <3>3 DEF Wrapper
    <3>4. CASE f.kind = "nested" /\ f.session /\ ~f.locked
      BY <3>0, <3>4
    <3>5. QED
      BY <2>1, <2>5, <3>1, <3>2, <3>3, <3>4 DEF FrameComes
  <2> QED
    BY <1>1, <2>4, <2>5 DEF FramesStay, FramesOf
<1>4. ASSUME NEW t \in Task, tasks'[t].st \in {"free", "new", "lock", "done"}
      PROVE  tasks'[t].frames = <<>>
  BY <1>1, <1>4 DEF FramesStay, FramesOf
<1>5. QED
  BY <1>2, <1>3, <1>4 DEF Shaped
\* A task stays in line, or out of it.
LineSame(v) ==
    /\ InLine(v)' <=> InLine(v)
    /\ InLine(v) => /\ tasks'[v].plan = tasks[v].plan
                    /\ tasks[v].st = "lock" => tasks'[v].st = "lock"

LEMMA LineUnchanged == ASSUME NEW v, tasks'[v] = tasks[v] PROVE LineSame(v)
BY DEF LineSame, InLine, Alive, Locked

LEMMA LineKept ==
    ASSUME Typed, NEW v \in Task, FramesOf(v), tasks'[v].plan = tasks[v].plan, Typed',
           tasks[v].st \in {"run", "wait"}, tasks'[v].st \in {"run", "wait"},
           Locked(v) => Len(tasks'[v].frames) >= 1
    PROVE  LineSame(v)
<1>1. PICK n \in Nat : n = Len(tasks[v].frames) /\ (n = 0 <=> tasks[v].frames = <<>>)
  BY TasksType
<1>2. PICK m \in Nat : m = Len(tasks'[v].frames) /\ (m = 0 <=> tasks'[v].frames = <<>>)
  <2>1. tasks'[v].frames \in Seq(Frame)
    BY DEF Typed, TaskRec
  <2>2. tasks'[v].frames = <<>> => Len(tasks'[v].frames) = 0
    BY EmptySeq
  <2>3. tasks'[v].frames # <<>> => Len(tasks'[v].frames) # 0
    BY <2>1, EmptySeq
  <2> QED
    BY <2>1, <2>2, <2>3, LenProperties
<1>3. ASSUME Locked(v) PROVE Locked(v)'
  <2>1. m >= 1 /\ n >= 1
    BY <1>1, <1>2, <1>3 DEF Locked
  <2>2. FrameStays(v, 1)
    BY <1>1, <1>2, <2>1 DEF FramesOf, FrameComes
  <2> QED
    BY <1>2, <1>3, <2>1, <2>2 DEF FrameStays, Locked
<1>4. ASSUME Locked(v)' PROVE Locked(v)
  <2>1. m >= 1
    BY <1>2, <1>4 DEF Locked
  <2>2. FrameStays(v, 1) \/ FrameComes(v, 1)
    BY <1>2, <2>1 DEF FramesOf
  <2>3. tasks'[v].frames[1].locked
    BY <1>4 DEF Locked
  <2>4. ~FrameComes(v, 1)
    BY <2>3 DEF FrameComes
  <2>5. FrameStays(v, 1)
    BY <2>2, <2>4
  <2>6. n >= 1
    BY <1>1, <2>5 DEF FrameStays
  <2> QED
    BY <1>1, <2>3, <2>5, <2>6 DEF FrameStays, Locked
<1>5. QED
  BY <1>3, <1>4 DEF LineSame, InLine, Alive

LEMMA LineNot ==
    ASSUME NEW v, ~InLine(v), ~InLine(v)'
    PROVE  LineSame(v)
BY DEF LineSame

LEMMA AimStays ==
    ASSUME Known, CallsStay, NEW v \in Task, tasks[v].plan # Nobody, tasks'[v].plan = tasks[v].plan
    PROVE  Aim(v)' = Aim(v) /\ Aim(v) \in Agents
BY DEF Known, CallsStay, Aim, Announced

LEMMA QueuedSame ==
    ASSUME Typed, Known, Queued, CallsStay, \A v \in Task : LineSame(v),
           UNCHANGED <<lock, lockLoop, loop>>
    PROVE  Queued'
<1>1. ASSUME NEW a \in Agents, lockLoop[a] = loop, NEW i \in 1..Len(lock[a])
      PROVE  \E v \in Task : /\ v = lock[a][i] /\ InLine(v)' /\ (i > 1 => tasks'[v].st = "lock")
                            /\ tasks'[v].plan # Nobody /\ Aim(v)' = a
  <2>1. PICK v \in Task : v = lock[a][i]
    BY ElementOfSeq DEF Typed
  <2>2. InLine(v) /\ (i > 1 => tasks[v].st = "lock") /\ tasks[v].plan # Nobody /\ Aim(v) = a
    BY <1>1, <2>1 DEF Queued
  <2>3. tasks'[v].plan = tasks[v].plan /\ InLine(v)' /\ (i > 1 => tasks'[v].st = "lock")
    BY <2>2 DEF LineSame
  <2>4. Aim(v)' = a
    BY <2>2, <2>3, AimStays
  <2> QED
    BY <2>1, <2>2, <2>3, <2>4
<1>2. ASSUME NEW t \in Task, InLine(t)'
      PROVE  /\ tasks'[t].plan # Nobody /\ lockLoop[Aim(t)'] = loop
             /\ \E i \in 1..Len(lock[Aim(t)']) : lock[Aim(t)'][i] = t
  <2>1. InLine(t) /\ tasks'[t].plan = tasks[t].plan
    BY <1>2 DEF LineSame
  <2>2. /\ tasks[t].plan # Nobody /\ lockLoop[Aim(t)] = loop
        /\ \E i \in 1..Len(lock[Aim(t)]) : lock[Aim(t)][i] = t
    BY <2>1 DEF Queued
  <2>3. Aim(t)' = Aim(t)
    BY <2>1, <2>2, AimStays
  <2> QED
    BY <2>1, <2>2, <2>3
<1>3. QED
  BY <1>1, <1>2 DEF Queued, InLine, Alive, Locked, Aim

\* A task leaves the queue it stood in.
LEMMA QueuedLeave ==
    ASSUME Typed, Known, Queued, CallsStay, NEW u \in Task, InLine(u), ~InLine(u)',
           \A v \in Task \ {u} : LineSame(v), Aim(u) \in Agents,
           lock' = Unlocked(Aim(u), u), UNCHANGED <<lockLoop, loop>>
    PROVE  Queued'
<1> DEFINE b == Aim(u)
<1>1. lockLoop[b] = loop /\ \E i \in 1..Len(lock[b]) : lock[b][i] = u
  BY DEF Queued
<1>2. \E i \in DOMAIN lock[b] : lock[b][i] = u
  BY <1>1, LenProperties DEF Typed
<1>3. PICK k \in 1..Len(lock[b]) :
         /\ lock[b][k] = u /\ lock'[b] = RemoveAt(lock[b], k)
         /\ Len(RemoveAt(lock[b], k)) = Len(lock[b]) - 1 /\ Len(lock[b]) \in Nat
         /\ \A i \in 1..Len(lock[b]) - 1 :
               RemoveAt(lock[b], k)[i] = IF i < k THEN lock[b][i] ELSE lock[b][i + 1]
  BY <1>2, UnlockedFacts DEF Typed
<1>4. \A a \in Agents : a # b => lock'[a] = lock[a]
  BY <1>2, UnlockedFacts DEF Typed
<1>5. PICK n \in Nat : n = Len(lock[b])
  BY <1>3
<1>6. Len(lock'[b]) = n - 1 /\ k \in 1..n
      /\ \A i \in 1..n - 1 : lock'[b][i] = IF i < k THEN lock[b][i] ELSE lock[b][i + 1]
  BY <1>3, <1>5
<1>7. \A i, j \in 1..n : lock[b][i] = lock[b][j] => i = j
  BY <1>1, <1>5 DEF Queued
<1> HIDE DEF b
<1>8. ASSUME NEW a \in Agents, lockLoop[a] = loop, NEW i \in 1..Len(lock'[a])
      PROVE  \E j \in 1..Len(lock[a]) : /\ lock[a][j] = lock'[a][i] /\ i <= j /\ lock[a][j] # u
                                        /\ lock[a][j] \in Task
  <2>1. CASE a = b
    <3>1. i \in 1..n - 1
      BY <1>6, <1>8, <2>1
    <3>2. PICK j \in 1..n : lock[b][j] = lock'[b][i] /\ i <= j /\ j # k
      <4>1. CASE i < k
        BY <1>6, <3>1, <4>1
      <4>2. CASE ~(i < k)
        <5>1. i + 1 \in 1..n /\ i + 1 # k
          BY <1>6, <3>1, <4>2
        <5>2. lock'[b][i] = lock[b][i + 1]
          BY <1>6, <3>1, <4>2
        <5> QED
          BY <3>1, <5>1, <5>2
      <4> QED
        BY <4>1, <4>2
    <3>3. lock[b][j] # u
      BY <1>3, <1>6, <1>7, <3>2
    <3>4. lock[b][j] \in Task
      BY <1>5, <1>8, <2>1, <3>2, ElementOfSeq DEF Typed
    <3> QED
      BY <1>5, <2>1, <3>2, <3>3, <3>4
  <2>2. CASE a # b
    <3>1. lock'[a] = lock[a] /\ lock[a][i] \in Task
      BY <1>4, <1>8, <2>2, ElementOfSeq DEF Typed
    <3>2. Aim(lock[a][i]) = a
      BY <1>8, <3>1 DEF Queued
    <3> QED
      BY <1>8, <2>2, <3>1, <3>2 DEF b
  <2> QED
    BY <2>1, <2>2
<1>9. ASSUME NEW a \in Agents, lockLoop[a] = loop, NEW i \in 1..Len(lock'[a])
      PROVE  \E v \in Task : /\ v = lock'[a][i] /\ InLine(v)' /\ (i > 1 => tasks'[v].st = "lock")
                            /\ tasks'[v].plan # Nobody /\ Aim(v)' = a
  <2>1. PICK j \in 1..Len(lock[a]) : /\ lock[a][j] = lock'[a][i] /\ i <= j
                                     /\ lock[a][j] # u /\ lock[a][j] \in Task
    BY <1>8, <1>9
  <2>2. PICK v \in Task \ {u} : v = lock[a][j]
    BY <2>1
  <2>3. InLine(v) /\ (j > 1 => tasks[v].st = "lock") /\ tasks[v].plan # Nobody /\ Aim(v) = a
    BY <1>9, <2>2 DEF Queued
  <2>4. tasks'[v].plan = tasks[v].plan /\ InLine(v)' /\ (j > 1 => tasks'[v].st = "lock")
    BY <2>2, <2>3 DEF LineSame
  <2>5. Aim(v)' = a
    BY <2>3, <2>4, AimStays
  <2> QED
    BY <2>1, <2>2, <2>3, <2>4, <2>5
<1>10. ASSUME NEW a \in Agents, lockLoop[a] = loop, NEW i \in 1..Len(lock'[a]),
              NEW j \in 1..Len(lock'[a]), lock'[a][i] = lock'[a][j]
       PROVE  i = j
  <2>1. CASE a = b
    <3>1. i \in 1..n - 1 /\ j \in 1..n - 1
      BY <1>6, <1>10, <2>1
    <3>2. lock'[b][i] = IF i < k THEN lock[b][i] ELSE lock[b][i + 1]
      BY <1>6, <3>1
    <3>3. lock'[b][j] = IF j < k THEN lock[b][j] ELSE lock[b][j + 1]
      BY <1>6, <3>1
    <3>4. i + 1 \in 1..n /\ j + 1 \in 1..n /\ i \in 1..n /\ j \in 1..n
      BY <3>1
    <3>5. CASE i < k /\ j < k
      BY <1>7, <1>10, <2>1, <3>2, <3>3, <3>4, <3>5
    <3>6. CASE ~(i < k) /\ ~(j < k)
      <4>1. i + 1 = j + 1
        BY <1>7, <1>10, <2>1, <3>2, <3>3, <3>4, <3>6
      <4> QED
        BY <3>4, <4>1
    <3>7. CASE i < k /\ ~(j < k)
      <4>1. i = j + 1
        BY <1>7, <1>10, <2>1, <3>2, <3>3, <3>4, <3>7
      <4> QED
        BY <1>6, <3>1, <3>7, <4>1
    <3>8. CASE ~(i < k) /\ j < k
      <4>1. i + 1 = j
        BY <1>7, <1>10, <2>1, <3>2, <3>3, <3>4, <3>8
      <4> QED
        BY <1>6, <3>1, <3>8, <4>1
    <3> QED
      BY <3>5, <3>6, <3>7, <3>8
  <2>2. CASE a # b
    BY <1>4, <1>10, <2>2 DEF Queued
  <2> QED
    BY <2>1, <2>2
<1>11. ASSUME NEW t \in Task, InLine(t)'
       PROVE  /\ tasks'[t].plan # Nobody /\ lockLoop[Aim(t)'] = loop
              /\ \E i \in 1..Len(lock'[Aim(t)']) : lock'[Aim(t)'][i] = t
  <2>1. t # u
    BY <1>11
  <2>2. InLine(t) /\ tasks'[t].plan = tasks[t].plan
    BY <1>11, <2>1 DEF LineSame
  <2>3. PICK a \in Agents : a = Aim(t)
    BY <2>2 DEF Queued, Known, Aim, Announced
  <2>4. tasks[t].plan # Nobody /\ lockLoop[a] = loop /\ Aim(t)' = a
    BY <2>2, <2>3, AimStays DEF Queued
  <2>5. PICK j \in 1..Len(lock[a]) : lock[a][j] = t
    BY <2>2, <2>3 DEF Queued
  <2>6. \E i \in 1..Len(lock'[a]) : lock'[a][i] = t
    <3>1. CASE a # b
      BY <1>4, <2>5, <3>1
    <3>2. CASE a = b
      <4>1. j \in 1..n /\ j # k
        BY <1>3, <1>5, <2>1, <2>5, <3>2
      <4>2. CASE j < k
        <5>1. j \in 1..n - 1
          BY <1>6, <4>1, <4>2
        <5> QED
          BY <1>6, <2>5, <3>2, <4>2, <5>1
      <4>3. CASE j > k
        <5>1. j - 1 \in 1..n - 1 /\ ~(j - 1 < k) /\ (j - 1) + 1 = j
          BY <1>6, <4>1, <4>3
        <5>2. lock'[b][j - 1] = lock[b][j]
          BY <1>6, <5>1
        <5> QED
          BY <1>6, <2>5, <3>2, <5>1, <5>2
      <4> QED
        BY <1>6, <4>1, <4>2, <4>3
    <3> QED
      BY <3>1, <3>2
  <2> QED
    BY <2>2, <2>4, <2>6
<1>12. ASSUME NEW a \in Agents, lockLoop[a] = 0 PROVE lock'[a] = <<>>
  <2>1. a # b
    <3>1. loop # 0
      BY DEF Typed
    <3> QED
      BY <1>1, <1>12, <3>1 DEF b
  <2> QED
    BY <1>4, <1>12, <2>1 DEF Queued
<1>13. lockLoop' = lockLoop /\ loop' = loop
  OBVIOUS
<1>14. ASSUME NEW a \in Agents, lockLoop'[a] = loop', NEW i \in 1..Len(lock'[a])
       PROVE  (/\ InLine(lock[a][i]) /\ (i > 1 => tasks[lock[a][i]].st = "lock")
               /\ tasks[lock[a][i]].plan # Nobody /\ Aim(lock[a][i]) = a)'
  <2>1. PICK v \in Task : /\ v = lock'[a][i] /\ InLine(v)' /\ (i > 1 => tasks'[v].st = "lock")
                         /\ tasks'[v].plan # Nobody /\ Aim(v)' = a
    BY <1>9, <1>13, <1>14
  <2> QED
    BY <2>1 DEF InLine, Alive, Locked, Aim
<1>15. QED
  BY <1>10, <1>11, <1>12, <1>13, <1>14 DEF Queued

LEMMA HeadFirst ==
    ASSUME NEW S, NEW s \in Seq(S), s # <<>>
    PROVE  Head(s) = s[1]
OBVIOUS

LEMMA LineBorn ==
    ASSUME NEW u, tasks[u].st = "free", tasks'[u].st \in {"run", "new"}, tasks'[u].frames = <<>>
    PROVE  LineSame(u)
BY DEF LineSame, InLine, Alive, Locked

LEMMA LineWakes ==
    ASSUME NEW u, NEW w, Wakes(u, w)
    PROVE  LineSame(w)
<1>1. PICK n \in Nat \ {0} : n = Len(tasks[w].frames) /\ n = Len(tasks'[w].frames)
  BY DEF Wakes, OneFrame
<1>2. tasks[w].frames # <<>> /\ tasks'[w].frames # <<>>
  <2>1. Len(<<>>) = 0
    BY EmptySeq
  <2> QED
    BY <1>1, <2>1
<1>3. tasks'[w].frames[1].locked = tasks[w].frames[1].locked
  BY <1>1 DEF Wakes, OneFrame
<1>4. QED
  BY <1>2, <1>3 DEF Wakes, OneFrame, SameRoot, LineSame, InLine, Alive, Locked

LEMMA LineEnds == ASSUME NEW u, Ends(u) PROVE ~InLine(u)'
BY DEF Ends, InLine, Alive, Locked

LEMMA LineOpens ==
    ASSUME Typed, Shaped, NEW u \in Task, NEW l \in BOOLEAN, Opens(u, l), tasks[u].st \in {"new", "lock"}
    PROVE  /\ ~Locked(u) /\ (Locked(u)' <=> l) /\ Alive(u) /\ Alive(u)' /\ tasks'[u].st = "run"
           /\ tasks'[u].plan = tasks[u].plan
<1>1. tasks[u].frames = <<>> /\ Len(tasks[u].frames) = 0
  BY TasksType DEF Opens
<1>2. tasks[u].plan \in Call /\ tasks[u].ctx \in Context
  BY TasksType DEF Opens
<1>3. SessionFrame(tasks[u].plan, tasks[u].ctx, l).locked = l
  BY <1>2, FrameType
<1>4. Len(tasks'[u].frames) = 1 /\ tasks'[u].frames[1] = SessionFrame(tasks[u].plan, tasks[u].ctx, l)
  BY <1>1 DEF Opens, Grown
<1>5. tasks'[u].frames # <<>>
  BY <1>4, EmptySeq
<1>6. tasks'[u].frames[1].locked = l
  BY <1>3, <1>4, Zenon
<1>7. QED
  BY <1>1, <1>5, <1>6 DEF Opens, SameRoot, Locked, Alive

\* Only the rest of a task's frames changes.
LEMMA LineOne ==
    ASSUME NEW t \in Task, Others({t}), LineSame(t)
    PROVE  \A v \in Task : LineSame(v)
BY LineUnchanged DEF Others

LEMMA LineTwo ==
    ASSUME NEW t \in Task, NEW u \in Task, Others({t, u}), LineSame(t), LineSame(u)
    PROVE  \A v \in Task : LineSame(v)
BY LineUnchanged DEF Others

LEMMA LockedFirst ==
    ASSUME Typed, Shaped, NEW t \in Task, Locked(t)
    PROVE  Len(tasks[t].frames) \in Nat \ {0} /\ tasks[t].frames[1].kind = "session"
<1>1. tasks[t].frames # <<>> /\ tasks[t].frames[1].locked
  BY DEF Locked
<1>2. PICK n \in Nat \ {0} : n = Len(tasks[t].frames)
  BY <1>1, TasksType
<1>3. QED
  BY <1>1, <1>2 DEF Shaped

\* The holder leaves the waiting room: it is granted the lock.
LEMMA QueuedGranted ==
    ASSUME Typed, Known, Shaped, Queued, CallsStay, NEW u \in Task, Granted(u)
    PROVE  Queued'
<1>1. /\ Opens(u, TRUE) /\ tasks[u].st = "lock" /\ Head(lock[Aim(u)]) = u
      /\ UNCHANGED <<env, calls, lock, lockLoop, loop>>
  BY GrantedDoes
<1>2. /\ ~Locked(u) /\ Locked(u)' /\ Alive(u) /\ Alive(u)' /\ tasks'[u].plan = tasks[u].plan
  BY <1>1, LineOpens
<1>3. InLine(u) /\ InLine(u)'
  BY <1>1, <1>2 DEF InLine
<1>4. \A v \in Task \ {u} : LineSame(v)
  BY <1>1, LineUnchanged DEF Opens, Others
<1>5. tasks[u].plan # Nobody /\ lockLoop[Aim(u)] = loop /\ Aim(u) \in Agents
      /\ \E i \in 1..Len(lock[Aim(u)]) : lock[Aim(u)][i] = u
  BY <1>3 DEF Queued, Known, Aim, Announced
<1>6. PICK b \in Agents : b = Aim(u)
  BY <1>5
<1>7. lock[b] \in Seq(Task)
  BY DEF Typed
<1>8. PICK n \in Nat : n = Len(lock[b]) /\ 1 \in 1..n
  <2>1. PICK n \in Nat : n = Len(lock[b])
    BY <1>7, LenProperties
  <2>2. PICK i \in 1..n : lock[b][i] = u
    BY <1>5, <1>6, <2>1
  <2> QED
    BY <2>1, <2>2
<1>9. lock[b][1] = u
  <2>1. lock[b] # <<>>
    BY <1>8, EmptySeq
  <2> QED
    BY <1>1, <1>6, <1>7, <2>1, HeadFirst
<1>10. ASSUME NEW a \in Agents, lockLoop[a] = loop, NEW i \in 1..Len(lock[a])
       PROVE  \E v \in Task : /\ v = lock[a][i] /\ InLine(v)' /\ (i > 1 => tasks'[v].st = "lock")
                             /\ tasks'[v].plan # Nobody /\ Aim(v)' = a
  <2>1. PICK v \in Task : v = lock[a][i]
    BY <1>10, ElementOfSeq DEF Typed
  <2>2. InLine(v) /\ (i > 1 => tasks[v].st = "lock") /\ tasks[v].plan # Nobody /\ Aim(v) = a
    BY <1>10, <2>1 DEF Queued
  <2>3. tasks'[v].plan = tasks[v].plan /\ InLine(v)'
    BY <1>2, <1>3, <1>4, <2>2 DEF LineSame
  <2>4. Aim(v)' = a
    BY <2>2, <2>3, AimStays
  <2>5. i > 1 => tasks'[v].st = "lock"
    <3>1. CASE v = u
      <4>1. a = b /\ i \in 1..n /\ lock[b][i] = lock[b][1]
        BY <1>6, <1>8, <1>9, <1>10, <2>1, <2>2, <3>1
      <4>2. i = 1
        BY <1>9, <1>10, <4>1 DEF Queued
      <4> QED
        BY <4>2
    <3>2. CASE v # u
      BY <1>4, <2>2, <3>2 DEF LineSame
    <3> QED
      BY <3>1, <3>2
  <2> QED
    BY <2>1, <2>2, <2>3, <2>4, <2>5
<1>11. ASSUME NEW t \in Task, InLine(t)'
      PROVE  /\ tasks'[t].plan # Nobody /\ lockLoop[Aim(t)'] = loop
             /\ \E i \in 1..Len(lock[Aim(t)']) : lock[Aim(t)'][i] = t
  <2>1. InLine(t) /\ tasks'[t].plan = tasks[t].plan
    BY <1>2, <1>3, <1>4, <1>11 DEF LineSame
  <2>2. /\ tasks[t].plan # Nobody /\ lockLoop[Aim(t)] = loop
        /\ \E i \in 1..Len(lock[Aim(t)]) : lock[Aim(t)][i] = t
    BY <2>1 DEF Queued
  <2>3. Aim(t)' = Aim(t)
    BY <2>1, <2>2, AimStays
  <2> QED
    BY <2>1, <2>2, <2>3
<1>12. QED
  BY <1>1, <1>10, <1>11 DEF Queued, InLine, Alive, Locked, Aim

\* A task takes the free lock, or queues for it; a lock of another loop is
\* replaced.
LEMMA QueuedJoin ==
    ASSUME Typed, Known, Shaped, Queued, CallsStay, NEW u \in Task, StartLocked(u)
    PROVE  Queued'
<1> DEFINE old == CurrentLock(Aim(u))
<1>1. /\ tasks[u].st = "new" /\ Aim(u) \in Agents /\ old \in Seq(Task)
      /\ lockLoop' = [lockLoop EXCEPT ![Aim(u)] = loop]
      /\ lock' = [lock EXCEPT ![Aim(u)] = Append(old, u)]
      /\ UNCHANGED <<env, calls, loop>>
  BY StartLockedDoes
<1>2. PICK b \in Agents : b = Aim(u)
  BY <1>1
<1>3. \/ old = <<>> /\ Opens(u, TRUE)
      \/ /\ old # <<>> /\ Others({u})
         /\ SameRoot(tasks[u], tasks'[u]) /\ tasks'[u].st = "lock"
         /\ tasks'[u].frames = tasks[u].frames
  BY StartLockedDoes
<1>4. PICK n \in Nat : n = Len(old) /\ (n = 0 <=> old = <<>>)
  BY <1>1, LenProperties, EmptySeq
<1>5. lock'[b] = Append(old, u) /\ lockLoop'[b] = loop /\ loop' = loop
      /\ \A a \in Agents : a # b => lock'[a] = lock[a] /\ lockLoop'[a] = lockLoop[a]
  BY <1>1, <1>2 DEF Typed
<1>6. Len(lock'[b]) = n + 1 /\ lock'[b][n + 1] = u /\ \A i \in 1..n : lock'[b][i] = old[i]
  BY <1>1, <1>4, <1>5, AppendProperties
<1>7. ~InLine(u) /\ tasks[u].plan # Nobody /\ tasks[u].frames = <<>>
  BY <1>1 DEF InLine, Locked, Shaped
<1>8. /\ InLine(u)' /\ tasks'[u].plan = tasks[u].plan /\ (n > 0 => tasks'[u].st = "lock")
      /\ \A v \in Task \ {u} : LineSame(v)
  <2>1. CASE old = <<>> /\ Opens(u, TRUE)
    <3>1. Locked(u)' /\ Alive(u)' /\ tasks'[u].plan = tasks[u].plan
      BY <1>1, <2>1, LineOpens
    <3>2. ~(n > 0)
      BY <1>4, <2>1
    <3> QED
      BY <2>1, <3>1, <3>2, LineUnchanged DEF InLine, Opens, Others
  <2>2. CASE /\ old # <<>> /\ Others({u})
             /\ SameRoot(tasks[u], tasks'[u]) /\ tasks'[u].st = "lock"
             /\ tasks'[u].frames = tasks[u].frames
    BY <2>2, LineUnchanged DEF InLine, Alive, Others, SameRoot
  <2> QED
    BY <1>3, <2>1, <2>2
<1>9. Aim(u)' = b /\ Aim(u) = b
  BY <1>2, <1>7, <1>8, AimStays
\* What is left of the old queue is the queue of the running loop.
<1>10. ASSUME n > 0 PROVE lockLoop[b] = loop /\ old = lock[b]
  <2>1. old # <<>>
    BY <1>4, <1>10
  <2>2. lockLoop[b] \in {0, loop} /\ old = lock[b]
    BY <1>2, <2>1 DEF CurrentLock
  <2>3. lockLoop[b] # 0
    BY <2>1, <2>2 DEF Queued
  <2> QED
    BY <2>2, <2>3
<1> HIDE DEF old
<1>11. ASSUME NEW i \in 1..n PROVE \E v \in Task \ {u} : v = old[i] /\ v = lock[b][i] /\ i \in 1..Len(lock[b])
  <2>1. lockLoop[b] = loop /\ old = lock[b]
    BY <1>10
  <2>2. i \in 1..Len(lock[b])
    BY <1>4, <2>1
  <2>3. lock[b][i] \in Task /\ InLine(lock[b][i])
    BY <2>1, <2>2, ElementOfSeq DEF Queued, Typed
  <2> QED
    BY <1>7, <2>1, <2>2, <2>3
<1>12. ASSUME NEW a \in Agents, lockLoop[a] = loop, NEW i \in 1..Len(lock[a])
       PROVE  \E v \in Task \ {u} : /\ v = lock[a][i] /\ InLine(v)' /\ (i > 1 => tasks'[v].st = "lock")
                                   /\ tasks'[v].plan # Nobody /\ Aim(v)' = a
  <2>1. PICK v \in Task : v = lock[a][i]
    BY <1>12, ElementOfSeq DEF Typed
  <2>2. InLine(v) /\ (i > 1 => tasks[v].st = "lock") /\ tasks[v].plan # Nobody /\ Aim(v) = a
    BY <1>12, <2>1 DEF Queued
  <2>3. v # u
    BY <1>7, <2>2
  <2>4. tasks'[v].plan = tasks[v].plan /\ InLine(v)' /\ (i > 1 => tasks'[v].st = "lock")
    BY <1>8, <2>2, <2>3 DEF LineSame
  <2>5. Aim(v)' = a
    BY <2>2, <2>4, AimStays
  <2> QED
    BY <2>1, <2>2, <2>3, <2>4, <2>5
<1>13. ASSUME NEW a \in Agents, lockLoop'[a] = loop, NEW i \in 1..Len(lock'[a])
       PROVE  \E v \in Task : /\ v = lock'[a][i] /\ InLine(v)' /\ (i > 1 => tasks'[v].st = "lock")
                             /\ tasks'[v].plan # Nobody /\ Aim(v)' = a
  <2>1. CASE a # b
    <3>1. lock'[a] = lock[a] /\ lockLoop[a] = loop
      BY <1>5, <1>13, <2>1
    <3>2. i \in 1..Len(lock[a])
      BY <3>1
    <3>3. PICK v \in Task \ {u} : /\ v = lock[a][i] /\ InLine(v)' /\ (i > 1 => tasks'[v].st = "lock")
                                   /\ tasks'[v].plan # Nobody /\ Aim(v)' = a
      BY <1>12, <3>1, <3>2
    <3> QED
      BY <3>1, <3>3
  <2>2. CASE a = b /\ i \in 1..n
    <3>1. PICK v \in Task \ {u} : v = old[i] /\ v = lock[b][i] /\ i \in 1..Len(lock[b])
      BY <1>11, <2>2
    <3>2. lockLoop[b] = loop
      BY <1>10, <2>2
    <3>3. /\ InLine(v)' /\ (i > 1 => tasks'[v].st = "lock") /\ tasks'[v].plan # Nobody /\ Aim(v)' = b
      BY <1>12, <3>1, <3>2
    <3>4. lock'[a][i] = v
      BY <1>6, <2>2, <3>1
    <3> QED
      BY <2>2, <3>3, <3>4
  <2>3. CASE a = b /\ i = n + 1
    <3>1. lock'[a][i] = u
      BY <1>6, <2>3
    <3>2. i > 1 => tasks'[u].st = "lock"
      BY <1>8, <2>3
    <3> QED
      BY <1>7, <1>8, <1>9, <2>3, <3>1, <3>2
  <2>4. a = b => i \in 1..n \/ i = n + 1
    BY <1>6, <1>13
  <2> QED
    BY <2>1, <2>2, <2>3, <2>4
<1>14. ASSUME NEW a \in Agents, lockLoop'[a] = loop, NEW i \in 1..Len(lock'[a]),
              NEW j \in 1..Len(lock'[a]), lock'[a][i] = lock'[a][j]
       PROVE  i = j
  <2>1. CASE a # b
    <3>1. lock'[a] = lock[a] /\ lockLoop[a] = loop
      BY <1>5, <1>14, <2>1
    <3> QED
      BY <1>14, <3>1 DEF Queued
  <2>2. CASE a = b
    <3>1. i \in 1..n + 1 /\ j \in 1..n + 1
      BY <1>6, <1>14, <2>2
    <3>2. CASE i \in 1..n /\ j \in 1..n
      <4>1. lock[b][i] = lock[b][j] /\ i \in 1..Len(lock[b]) /\ j \in 1..Len(lock[b])
        BY <1>6, <1>11, <1>14, <2>2, <3>2
      <4>2. lockLoop[b] = loop
        BY <1>10, <3>2
      <4> QED
        BY <4>1, <4>2 DEF Queued
    <3>3. CASE i \in 1..n /\ j = n + 1
      BY <1>6, <1>11, <1>14, <2>2, <3>3
    <3>4. CASE j \in 1..n /\ i = n + 1
      BY <1>6, <1>11, <1>14, <2>2, <3>4
    <3> QED
      BY <3>1, <3>2, <3>3, <3>4
  <2> QED
    BY <2>1, <2>2
<1>15. ASSUME NEW t \in Task, InLine(t)'
       PROVE  /\ tasks'[t].plan # Nobody /\ lockLoop'[Aim(t)'] = loop
              /\ \E i \in 1..Len(lock'[Aim(t)']) : lock'[Aim(t)'][i] = t
  <2>1. CASE t = u
    <3>1. n + 1 \in 1..Len(lock'[b]) /\ lock'[b][n + 1] = u
      BY <1>6
    <3> QED
      BY <1>5, <1>7, <1>8, <1>9, <2>1, <3>1
  <2>2. CASE t # u
    <3>1. InLine(t) /\ tasks'[t].plan = tasks[t].plan
      BY <1>8, <1>15, <2>2 DEF LineSame
    <3>2. PICK a \in Agents : a = Aim(t)
      BY <3>1 DEF Queued, Known, Aim, Announced
    <3>3. tasks[t].plan # Nobody /\ lockLoop[a] = loop /\ Aim(t)' = a
      BY <3>1, <3>2, AimStays DEF Queued
    <3>4. PICK i \in 1..Len(lock[a]) : lock[a][i] = t
      BY <3>1, <3>2 DEF Queued
    <3>5. CASE a # b
      BY <1>5, <3>1, <3>3, <3>4, <3>5
    <3>6. CASE a = b
      <4>1. lock[b] = old
        <5>1. lockLoop[b] \in {0, loop}
          BY <3>3, <3>6
        <5> QED
          BY <1>2, <5>1 DEF CurrentLock, old
      <4>2. i \in 1..n /\ i \in 1..n + 1
        BY <1>4, <3>4, <3>6, <4>1
      <4>3. lock'[b][i] = t /\ i \in 1..Len(lock'[b])
        BY <1>6, <3>4, <3>6, <4>1, <4>2
      <4> QED
        BY <1>5, <3>1, <3>3, <3>6, <4>3
    <3> QED
      BY <3>5, <3>6
  <2> QED
    BY <2>1, <2>2
<1>16. ASSUME NEW a \in Agents, lockLoop'[a] = 0 PROVE lock'[a] = <<>>
  <2>1. a # b
    <3>1. loop # 0
      BY DEF Typed
    <3> QED
      BY <1>5, <1>16, <3>1
  <2> QED
    BY <1>5, <1>16, <2>1 DEF Queued
<1>17. ASSUME NEW a \in Agents, lockLoop'[a] = loop', NEW i \in 1..Len(lock'[a])
       PROVE  (/\ InLine(lock[a][i]) /\ (i > 1 => tasks[lock[a][i]].st = "lock")
               /\ tasks[lock[a][i]].plan # Nobody /\ Aim(lock[a][i]) = a)'
  <2>1. PICK v \in Task : /\ v = lock'[a][i] /\ InLine(v)' /\ (i > 1 => tasks'[v].st = "lock")
                         /\ tasks'[v].plan # Nobody /\ Aim(v)' = a
    BY <1>5, <1>13, <1>17
  <2> QED
    BY <2>1 DEF InLine, Alive, Locked, Aim
<1>18. QED
  BY <1>5, <1>14, <1>15, <1>16, <1>17 DEF Queued
LEMMA QueuedStep == ASSUME IInv, Next PROVE Queued'
<1>1. /\ Typed /\ Shaped /\ Known /\ Queued /\ Awaiting /\ Born /\ Typed'
      /\ RootsStay /\ FramesStay /\ CallsStay
  BY RootsStep, FramesStep, CallsStep, TypedStep DEF IInv
<1>2. ASSUME \A v \in Task : LineSame(v), UNCHANGED <<lock, lockLoop, loop>> PROVE Queued'
  BY <1>1, <1>2, QueuedSame
<1>3. ASSUME NEW t \in Task, tasks[t].st \in {"run", "wait"}, tasks'[t].st \in {"run", "wait"},
             tasks'[t].plan = tasks[t].plan, Locked(t) => Len(tasks'[t].frames) >= 1
      PROVE  LineSame(t)
  BY <1>1, <1>3, LineKept DEF FramesStay
<1>4. ASSUME NEW u \in Task, Arrive(u) PROVE Queued'
  <2>1. Others({u}) /\ Newborn(u, Nobody, "run", Outside, Nobody)
        /\ UNCHANGED <<lock, lockLoop, loop>>
    BY <1>1, <1>4, ArriveDoes
  <2>2. LineSame(u)
    BY <2>1, LineBorn DEF Newborn, FreeTask
  <2> QED
    BY <1>2, <2>1, <2>2, LineOne
<1>5. ASSUME NEW t \in Task, NEW u \in Task, Spawn(t, u) PROVE Queued'
  <2>1. Others({u}) /\ Newborn(u, t, "run", tasks[t].ctx, Nobody)
        /\ UNCHANGED <<lock, lockLoop, loop>>
    BY <1>1, <1>5, SpawnDoes
  <2>2. LineSame(u)
    BY <2>1, LineBorn DEF Newborn, FreeTask
  <2> QED
    BY <1>2, <2>1, <2>2, LineOne
<1>6. ASSUME NEW t \in Task, NEW c \in Call, NEW a \in Agents, NEW k \in MethodKinds,
             CallCode(t, c, a, k)
      PROVE  Queued'
  <2>1. Others({t}) /\ InBody(t) /\ Grown(tasks[t], tasks'[t], WrapperFrame(c, tasks[t].ctx))
        /\ tasks'[t].st = tasks[t].st
    BY <1>1, <1>6, CallCodeDoes
  <2>2. UNCHANGED <<lock, lockLoop, loop>>
    BY <1>6 DEF CallCode, Announce
  <2>3. tasks'[t].plan = tasks[t].plan /\ Len(tasks'[t].frames) >= 1
    BY <2>1 DEF Grown, SameRoot
  <2>4. LineSame(t)
    BY <1>3, <2>1, <2>3 DEF InBody
  <2> QED
    BY <1>2, <2>1, <2>2, <2>4, LineOne
<1>7. ASSUME NEW t \in Task, NEW c \in Call, NEW a \in Agents, NEW k \in MethodKinds,
             CallInline(t, c, a, k)
      PROVE  Queued'
  <2>1. /\ Others({t}) /\ InBody(t)
        /\ \E r \in TaskRec :
              /\ Grown(tasks[t], r, WrapperFrame(c, tasks[t].ctx))
              /\ Grown(r, tasks'[t], SessionFrame(c, r.ctx, FALSE))
              /\ tasks'[t].st = tasks[t].st
    BY <1>1, <1>7, CallInlineDoes, Zenon
  <2>2. UNCHANGED <<lock, lockLoop, loop>>
    BY <1>7 DEF CallInline, Announce
  <2>3. tasks'[t].plan = tasks[t].plan /\ Len(tasks'[t].frames) >= 1
    BY <2>1 DEF Grown, SameRoot
  <2>4. LineSame(t)
    BY <1>3, <2>1, <2>3 DEF InBody
  <2> QED
    BY <1>2, <2>1, <2>2, <2>4, LineOne
<1>8. ASSUME NEW t \in Task, NEW u \in Task, NEW c \in Call, NEW a \in Agents,
             NEW k \in MethodKinds, CallPlan(t, u, c, a, k)
      PROVE  Queued'
  <2>1. /\ Others({t, u}) /\ InBody(t)
        /\ Grown(tasks[t], tasks'[t], WrapperFrame(c, tasks[t].ctx)) /\ tasks'[t].st = "wait"
        /\ Newborn(u, t, "new", tasks'[t].ctx, c)
    BY <1>1, <1>8, CallPlanDoes
  <2>2. UNCHANGED <<lock, lockLoop, loop>>
    BY <1>8 DEF CallPlan, Announce
  <2>3. tasks'[t].plan = tasks[t].plan /\ Len(tasks'[t].frames) >= 1
    BY <2>1 DEF Grown, SameRoot
  <2>4. LineSame(t)
    BY <1>3, <2>1, <2>3 DEF InBody
  <2>5. LineSame(u)
    BY <2>1, LineBorn DEF Newborn, FreeTask
  <2> QED
    BY <1>2, <2>1, <2>2, <2>4, <2>5, LineTwo
<1>9. ASSUME NEW u \in Task, StartFree(u) PROVE Queued'
  <2>1. /\ Opens(u, FALSE) /\ tasks[u].st = "new" /\ UNCHANGED <<lock, lockLoop, loop>>
    BY <1>1, <1>9, StartFreeDoes
  <2>2. ~InLine(u) /\ ~InLine(u)'
    BY <1>1, <2>1, LineOpens DEF InLine
  <2> QED
    BY <1>2, <2>1, <2>2, LineNot, LineOne DEF Opens
<1>10. ASSUME NEW u \in Task, StartLocked(u) PROVE Queued'
  BY <1>1, <1>10, QueuedJoin
<1>11. ASSUME NEW u \in Task, Granted(u) PROVE Queued'
  BY <1>1, <1>11, QueuedGranted
<1>12. ASSUME NEW u \in Task, PlanCancelled(u) PROVE Queued'
  <2> DEFINE w == tasks[u].owner
  <2>1. /\ Others({u, w}) /\ Ends(u) /\ Wakes(u, w) /\ tasks[u].st \in {"new", "lock"}
        /\ Aim(u) \in Agents
        /\ IF tasks[u].st = "lock" THEN lock' = Unlocked(Aim(u), u) ELSE lock' = lock
        /\ UNCHANGED <<env, calls, lockLoop, loop>>
    BY <1>1, <1>12, PlanCancelledDoes
  <2>2. ~InLine(u)' /\ LineSame(w)
    BY <2>1, LineEnds, LineWakes
  <2> HIDE DEF w
  <2>3. \A v \in Task \ {u} : LineSame(v)
    BY <2>1, <2>2, LineUnchanged DEF Others
  <2>4. CASE tasks[u].st = "lock"
    <3>1. InLine(u)
      BY <2>4 DEF InLine, Alive
    <3> QED
      BY <1>1, <2>1, <2>2, <2>3, <2>4, <3>1, QueuedLeave
  <2>5. CASE tasks[u].st = "new"
    <3>1. ~InLine(u)
      BY <1>1, <2>5 DEF InLine, Locked, Shaped
    <3>2. LineSame(u)
      BY <2>2, <3>1, LineNot
    <3> QED
      BY <1>2, <2>1, <2>3, <2>5, <3>2
  <2> QED
    BY <2>1, <2>4, <2>5
<1>13. ASSUME NEW t \in Task, NestStrategy(t) PROVE Queued'
  <2>1. /\ Others({t}) /\ InBody(t) /\ tasks[t].frames # <<>>
        /\ \E r \in TaskRec :
              /\ OneFrame(tasks[t], r) /\ Grown(r, tasks'[t], NestedFrame(Top(t).call, r.ctx))
              /\ tasks'[t].st = tasks[t].st
        /\ UNCHANGED <<lock, lockLoop, loop>>
    BY <1>1, <1>13, NestStrategyDoes, Zenon
  <2>2. tasks'[t].plan = tasks[t].plan /\ Len(tasks'[t].frames) >= 1
    BY <2>1 DEF Grown, OneFrame, SameRoot
  <2>3. LineSame(t)
    BY <1>3, <2>1, <2>2 DEF InBody
  <2> QED
    BY <1>2, <2>1, <2>3, LineOne
<1>14. ASSUME NEW t \in Task, NEW o \in Outcome, CodeEnds(t, o) PROVE Queued'
  <2>1. /\ Others({t}) /\ MayEnd(t, o) /\ OneFrame(tasks[t], tasks'[t]) /\ tasks'[t].st = "run"
        /\ UNCHANGED <<lock, lockLoop, loop>>
    BY <1>1, <1>14, CodeEndsDoes
  <2>2. tasks[t].st = "run" /\ Len(tasks[t].frames) \in Nat \ {0}
    BY <1>1, <2>1, EndingFacts
  <2>3. tasks'[t].plan = tasks[t].plan /\ Len(tasks'[t].frames) >= 1
    BY <2>1, <2>2 DEF OneFrame, SameRoot
  <2>4. LineSame(t)
    BY <1>3, <2>1, <2>2, <2>3
  <2> QED
    BY <1>2, <2>1, <2>4, LineOne
<1>15. ASSUME NEW t \in Task, Others({t}), Shrunk(tasks[t], tasks'[t]),
              tasks[t].frames[Len(tasks[t].frames)].kind # "session",
              tasks[t].st = "run", tasks'[t].st = "run", UNCHANGED <<lock, lockLoop, loop>>
       PROVE  Queued'
  <2>1. PICK n \in Nat \ {0} : n = Len(tasks[t].frames) /\ Len(tasks'[t].frames) = n - 1
    BY <1>15 DEF Shrunk
  <2>2. Locked(t) => n # 1
    <3>1. ASSUME Locked(t) PROVE tasks[t].frames[1].kind = "session"
      BY <1>1, <3>1, LockedFirst
    <3> QED
      BY <1>15, <2>1, <3>1
  <2>3. tasks'[t].plan = tasks[t].plan
    BY <1>15 DEF Shrunk, SameRoot
  <2>5. Locked(t) => Len(tasks'[t].frames) >= 1
    <3>1. n # 1 => Len(tasks'[t].frames) >= 1
      <4>1. PICK m \in Int : m = n - 1
        OBVIOUS
      <4>2. n # 1 => m >= 1
        BY <4>1
      <4>3. Len(tasks'[t].frames) = m
        BY <2>1, <4>1
      <4> QED
        BY <4>2, <4>3
    <3> QED
      BY <2>2, <3>1, Zenon
  <2>4. LineSame(t)
    BY <1>3, <1>15, <2>3, <2>5
  <2> QED
    BY <1>2, <1>15, <2>4, LineOne
<1>16. ASSUME NEW t \in Task, NEW o \in Outcome, NestedEnds(t, o) PROVE Queued'
  <2>1. /\ Others({t}) /\ MayEnd(t, o) /\ Top(t).kind = "nested"
        /\ Shrunk(tasks[t], tasks'[t]) /\ tasks'[t].st = "run"
        /\ UNCHANGED <<lock, lockLoop, loop>>
    BY <1>1, <1>16, NestedEndsDoes
  <2>2. tasks[t].st = "run" /\ Top(t) = tasks[t].frames[Len(tasks[t].frames)]
    BY <1>1, <2>1, EndingFacts
  <2> QED
    BY <1>15, <2>1, <2>2
<1>17. ASSUME NEW t \in Task, Close(t) PROVE Queued'
  <2>1. Top(t).call \in Call
    BY <1>1, <1>17, CloseStay DEF Announced
  <2>2. /\ Others({t}) /\ tasks[t].st = "run" /\ Shrunk(tasks[t], tasks'[t]) /\ tasks'[t].st = "run"
        /\ Top(t) = tasks[t].frames[Len(tasks[t].frames)] /\ Top(t).out # "open"
        /\ UNCHANGED <<lock, lockLoop, loop>>
    BY <1>1, <1>17, <2>1, CloseDoes
  <2>3. tasks[t].frames[Len(tasks[t].frames)].kind = "wrapper"
    <3>1. PICK n \in Nat \ {0} : n = Len(tasks[t].frames)
      BY <2>2 DEF Shrunk
    <3> QED
      BY <1>1, <2>2, <3>1 DEF Shaped
  <2> QED
    BY <1>15, <2>2, <2>3
<1>18. ASSUME NEW t \in Task, EndTask(t) PROVE Queued'
  <2>1. /\ Others({t}) /\ Ends(t) /\ tasks[t].st = "run" /\ tasks[t].frames = <<>>
        /\ UNCHANGED <<lock, lockLoop, loop>>
    BY <1>1, <1>18, EndTaskDoes
  <2>2. LineSame(t)
    BY <2>1, LineEnds, LineNot DEF InLine, Locked
  <2> QED
    BY <1>2, <2>1, <2>2, LineOne
<1>19. ASSUME NEW t \in Task, Cancel(t) PROVE Queued'
  <2>1. /\ \A u \in Task : /\ SameRoot(tasks[u], tasks'[u]) /\ tasks'[u].st = tasks[u].st
                           /\ tasks'[u].frames = tasks[u].frames
        /\ UNCHANGED <<lock, lockLoop, loop>>
    BY <1>1, <1>19, CancelDoes
  <2>2. \A v \in Task : LineSame(v)
    BY <2>1 DEF LineSame, InLine, Alive, Locked, SameRoot
  <2> QED
    BY <1>2, <2>1, <2>2
<1>20. ASSUME Restart PROVE Queued'
  <2>1. /\ loop = 1 /\ loop' = 2 /\ UNCHANGED <<lock, lockLoop>>
        /\ \A u \in Task : IF Alive(u) THEN tasks'[u].st = "dead" ELSE tasks'[u] = tasks[u]
    BY <1>1, <1>20, RestartDoes
  <2>2. \A v \in Task : ~InLine(v)'
    BY <2>1 DEF InLine, Alive
  <2>3. \A a \in Agents : lockLoop[a] # 2
    BY <1>1, <2>1 DEF Typed
  <2>4. \A a \in Agents : lockLoop'[a] = 0 => lock'[a] = <<>>
    BY <1>1, <2>1 DEF Queued
  <2> QED
    BY <2>1, <2>2, <2>3, <2>4 DEF Queued
<1>21. ASSUME NEW t \in Task, NEW o \in Outcome, SessionEnds(t, o) PROVE Queued'
  <2>1. /\ MayEnd(t, o)
        /\ \/ /\ Len(tasks[t].frames) = 1 /\ Aim(t) \in Agents
              /\ Others({t, tasks[t].owner}) /\ Ends(t) /\ Wakes(t, tasks[t].owner)
              /\ IF Locked(t) THEN lock' = Unlocked(Aim(t), t) ELSE lock' = lock
           \/ /\ Len(tasks[t].frames) > 1 /\ Others({t}) /\ lock' = lock
              /\ \E r \in TaskRec :
                    Shrunk(tasks[t], r) /\ OneFrame(r, tasks'[t]) /\ tasks'[t].st = "run"
        /\ UNCHANGED <<env, calls, lockLoop, loop>>
    BY <1>1, <1>21, SessionEndsDoes, Zenon
  <2>2. tasks[t].st = "run"
    BY <1>1, <2>1, EndingFacts
  <2>3. CASE /\ Len(tasks[t].frames) = 1 /\ Aim(t) \in Agents
             /\ Others({t, tasks[t].owner}) /\ Ends(t) /\ Wakes(t, tasks[t].owner)
             /\ IF Locked(t) THEN lock' = Unlocked(Aim(t), t) ELSE lock' = lock
    <3> DEFINE w == tasks[t].owner
    <3>1. ~InLine(t)' /\ LineSame(w) /\ Others({t, w})
      BY <2>3, LineEnds, LineWakes
    <3> HIDE DEF w
    <3>2. \A v \in Task \ {t} : LineSame(v)
      BY <3>1, LineUnchanged DEF Others
    <3>3. CASE Locked(t)
      <4>1. InLine(t)
        BY <2>2, <3>3 DEF InLine, Alive
      <4>2. lock' = Unlocked(Aim(t), t) /\ UNCHANGED <<lockLoop, loop>>
        BY <2>1, <2>3, <3>3
      <4> QED
        BY <1>1, <2>3, <3>1, <3>2, <4>1, <4>2, QueuedLeave
    <3>4. CASE ~Locked(t)
      <4>1. LineSame(t)
        BY <2>2, <3>1, <3>4, LineNot DEF InLine
      <4> QED
        BY <1>2, <2>1, <2>3, <3>2, <3>4, <4>1
    <3> QED
      BY <3>3, <3>4
  <2>4. CASE /\ Len(tasks[t].frames) > 1 /\ Others({t}) /\ lock' = lock
             /\ \E r \in TaskRec :
                   Shrunk(tasks[t], r) /\ OneFrame(r, tasks'[t]) /\ tasks'[t].st = "run"
    <3>1. PICK r \in TaskRec : Shrunk(tasks[t], r) /\ OneFrame(r, tasks'[t]) /\ tasks'[t].st = "run"
      BY <2>4
    <3>2. PICK n \in Nat \ {0} : n = Len(tasks[t].frames)
      BY <3>1 DEF Shrunk
    <3>3. tasks'[t].plan = tasks[t].plan /\ Len(tasks'[t].frames) >= 1
      BY <2>4, <3>1, <3>2 DEF Shrunk, OneFrame, SameRoot
    <3>4. LineSame(t)
      BY <1>3, <2>2, <3>1, <3>3
    <3> QED
      BY <1>2, <2>1, <2>4, <3>4, LineOne
  <2> QED
    BY <2>1, <2>3, <2>4
<1>22. QED
  BY <1>1, <1>4, <1>5, <1>6, <1>7, <1>8, <1>9, <1>10, <1>11, <1>12, <1>13, <1>14, <1>16, <1>17,
     <1>18, <1>19, <1>20, <1>21, Steps

\* A task that awaits a plan stays as it is until the plan is over.
WaitsOn(t) ==
    \/ tasks'[t].st = "wait" /\ tasks'[t].frames = tasks[t].frames /\ tasks'[t].ctx = tasks[t].ctx
    \/ \E x \in Task : Wakes(x, t) /\ Ends(x) /\ Alive(x)
    \/ Restart

LEMMA WaitUnchanged == ASSUME NEW t, tasks'[t] = tasks[t], tasks[t].st = "wait" PROVE WaitsOn(t)
BY DEF WaitsOn

LEMMA WaitOthers ==
    ASSUME NEW T, Others(T), \A v \in T \cap Task : tasks[v].st # "wait"
    PROVE  \A t \in Task : tasks[t].st = "wait" => WaitsOn(t)
BY WaitUnchanged DEF Others

LEMMA WaitOne ==
    ASSUME NEW u \in Task, Others({u}), tasks[u].st # "wait"
    PROVE  \A t \in Task : tasks[t].st = "wait" => WaitsOn(t)
BY WaitOthers

LEMMA WaitPlan ==
    ASSUME NEW u \in Task, Alive(u), tasks[u].st # "wait", Ends(u),
           Others({u, tasks[u].owner}), Wakes(u, tasks[u].owner)
    PROVE  \A t \in Task : tasks[t].st = "wait" => WaitsOn(t)
<1>1. WaitsOn(tasks[u].owner)
  BY DEF WaitsOn
<1>2. QED
  BY <1>1, WaitUnchanged DEF Others

LEMMA WaitStep == ASSUME IInv, Next PROVE \A t \in Task : tasks[t].st = "wait" => WaitsOn(t)
<1> DEFINE Goal == \A t \in Task : tasks[t].st = "wait" => WaitsOn(t)
<1>1. Typed /\ Shaped /\ Known /\ Queued /\ Awaiting
  BY DEF IInv
<1>2. ASSUME NEW u \in Task, Arrive(u) PROVE Goal
  <2>1. Others({u}) /\ tasks[u].st # "wait"
    BY <1>1, <1>2, ArriveDoes DEF Newborn, FreeTask
  <2> QED
    BY <2>1, WaitOne
<1>3. ASSUME NEW t \in Task, NEW u \in Task, Spawn(t, u) PROVE Goal
  <2>1. Others({u}) /\ tasks[u].st # "wait"
    BY <1>1, <1>3, SpawnDoes DEF Newborn, FreeTask
  <2> QED
    BY <2>1, WaitOne
<1>4. ASSUME NEW t \in Task, NEW c \in Call, NEW a \in Agents, NEW k \in MethodKinds,
             CallCode(t, c, a, k)
      PROVE  Goal
  <2>1. Others({t}) /\ tasks[t].st # "wait"
    BY <1>1, <1>4, CallCodeDoes DEF InBody
  <2> QED
    BY <2>1, WaitOne
<1>5. ASSUME NEW t \in Task, NEW c \in Call, NEW a \in Agents, NEW k \in MethodKinds,
             CallInline(t, c, a, k)
      PROVE  Goal
  <2>1. Others({t}) /\ InBody(t)
    BY <1>1, <1>5, CallInlineDoes, Zenon
  <2> QED
    BY <2>1, WaitOne DEF InBody
<1>6. ASSUME NEW t \in Task, NEW u \in Task, NEW c \in Call, NEW a \in Agents,
             NEW k \in MethodKinds, CallPlan(t, u, c, a, k)
      PROVE  Goal
  <2>1. Others({t, u}) /\ tasks[t].st # "wait" /\ tasks[u].st # "wait"
    BY <1>1, <1>6, CallPlanDoes DEF InBody, Newborn, FreeTask
  <2> QED
    BY <2>1, WaitOthers
<1>7. ASSUME NEW u \in Task, StartFree(u) PROVE Goal
  <2>1. Others({u}) /\ tasks[u].st # "wait"
    BY <1>1, <1>7, StartFreeDoes DEF Opens
  <2> QED
    BY <2>1, WaitOne
<1>8. ASSUME NEW u \in Task, StartLocked(u) PROVE Goal
  <2>1. Others({u}) /\ tasks[u].st # "wait"
    BY <1>1, <1>8, StartLockedDoes DEF Opens
  <2> QED
    BY <2>1, WaitOne
<1>9. ASSUME NEW u \in Task, Granted(u) PROVE Goal
  <2>1. Others({u}) /\ tasks[u].st # "wait"
    BY <1>1, <1>9, GrantedDoes DEF Opens
  <2> QED
    BY <2>1, WaitOne
<1>10. ASSUME NEW u \in Task, PlanCancelled(u) PROVE Goal
  <2>1. /\ Others({u, tasks[u].owner}) /\ Ends(u) /\ Wakes(u, tasks[u].owner)
        /\ tasks[u].st \in {"new", "lock"}
    BY <1>1, <1>10, PlanCancelledDoes
  <2> QED
    BY <2>1, WaitPlan DEF Alive
<1>11. ASSUME NEW t \in Task, NestStrategy(t) PROVE Goal
  <2>1. Others({t}) /\ InBody(t)
    BY <1>1, <1>11, NestStrategyDoes, Zenon
  <2> QED
    BY <2>1, WaitOne DEF InBody
<1>12. ASSUME NEW t \in Task, NEW o \in Outcome, CodeEnds(t, o) PROVE Goal
  <2>1. Others({t}) /\ tasks[t].st # "wait"
    BY <1>1, <1>12, CodeEndsDoes, EndingFacts
  <2> QED
    BY <2>1, WaitOne
<1>13. ASSUME NEW t \in Task, NEW o \in Outcome, NestedEnds(t, o) PROVE Goal
  <2>1. Others({t}) /\ tasks[t].st # "wait"
    BY <1>1, <1>13, NestedEndsDoes, EndingFacts
  <2> QED
    BY <2>1, WaitOne
<1>14. ASSUME NEW t \in Task, NEW o \in Outcome, SessionEnds(t, o) PROVE Goal
  <2>1. /\ MayEnd(t, o)
        /\ \/ Others({t, tasks[t].owner}) /\ Ends(t) /\ Wakes(t, tasks[t].owner)
           \/ Others({t})
    BY <1>1, <1>14, SessionEndsDoes, Zenon
  <2>2. tasks[t].st = "run"
    BY <1>1, <2>1, EndingFacts
  <2> QED
    BY <2>1, <2>2, WaitOne, WaitPlan DEF Alive
<1>15. ASSUME NEW t \in Task, Close(t) PROVE Goal
  <2>1. Top(t).call \in Call
    BY <1>1, <1>15, CloseStay DEF Announced
  <2>2. Others({t}) /\ tasks[t].st # "wait"
    BY <1>1, <1>15, <2>1, CloseDoes
  <2> QED
    BY <2>2, WaitOne
<1>16. ASSUME NEW t \in Task, EndTask(t) PROVE Goal
  <2>1. Others({t}) /\ tasks[t].st # "wait"
    BY <1>1, <1>16, EndTaskDoes
  <2> QED
    BY <2>1, WaitOne
<1>17. ASSUME NEW t \in Task, Cancel(t) PROVE Goal
  BY <1>1, <1>17, CancelDoes DEF WaitsOn
<1>18. ASSUME Restart PROVE Goal
  BY <1>18 DEF WaitsOn
<1>19. QED
  BY <1>1, <1>2, <1>3, <1>4, <1>5, <1>6, <1>7, <1>8, <1>9, <1>10, <1>11, <1>12, <1>13, <1>14,
     <1>15, <1>16, <1>17, <1>18, Steps

\* Who began in a step: a task of the program, of a body, or a plan.
LEMMA BirthStep ==
    ASSUME IInv, Next, NEW v \in Task, tasks[v].st = "free", tasks'[v] # tasks[v]
    PROVE  \/ Arrive(v)
           \/ \E t \in Task : Spawn(t, v)
           \/ \E t \in Task, c \in Call, a \in Agents, k \in MethodKinds : CallPlan(t, v, c, a, k)
<1> DEFINE Goal == \/ Arrive(v)
                   \/ \E t \in Task : Spawn(t, v)
                   \/ \E t \in Task, c \in Call, a \in Agents, k \in MethodKinds : CallPlan(t, v, c, a, k)
<1>1. Typed /\ Shaped /\ Known /\ Queued /\ Awaiting /\ Born
  BY DEF IInv
<1>3. ASSUME NEW t \in Task, NEW u \in Task, NEW c \in Call, NEW a \in Agents,
             NEW k \in MethodKinds, CallPlan(t, u, c, a, k)
      PROVE  Goal
  <2>1. Others({t, u}) /\ tasks[t].st = "run"
    BY <1>1, <1>3, CallPlanDoes DEF InBody
  <2>2. v = u
    BY <2>1 DEF Others
  <2> QED
    BY <1>3, <2>2
<1>5. ASSUME NEW u \in Task, Others({u}), tasks[u].st # "free" PROVE FALSE
  BY <1>5 DEF Others
<1>6. ASSUME NEW u \in Task, NEW w, Others({u, w}), tasks[u].st # "free", Wakes(u, w) PROVE FALSE
  BY <1>6 DEF Others, Wakes
<1>7. ASSUME NEW u \in Task, Arrive(u) PROVE Goal
  <2>1. Others({u})
    BY <1>1, <1>7, ArriveDoes
  <2>2. u = v
    BY <2>1 DEF Others
  <2> QED
    BY <1>7, <2>2
<1>8. ASSUME NEW t \in Task, NEW u \in Task, Spawn(t, u) PROVE Goal
  <2>1. Others({u})
    BY <1>1, <1>8, SpawnDoes
  <2>2. u = v
    BY <2>1 DEF Others
  <2> QED
    BY <1>8, <2>2
<1>9. ASSUME NEW t \in Task, NEW c \in Call, NEW a \in Agents, NEW k \in MethodKinds,
             CallCode(t, c, a, k)
      PROVE  FALSE
  <2>1. Others({t}) /\ InBody(t)
    BY <1>1, <1>9, CallCodeDoes
  <2> QED
    BY <1>5, <2>1 DEF InBody
<1>10. ASSUME NEW t \in Task, NEW c \in Call, NEW a \in Agents, NEW k \in MethodKinds,
              CallInline(t, c, a, k)
       PROVE  FALSE
  <2>1. Others({t}) /\ InBody(t)
    BY <1>1, <1>10, CallInlineDoes, Zenon
  <2> QED
    BY <1>5, <2>1 DEF InBody
<1>11. ASSUME NEW u \in Task, StartFree(u) \/ StartLocked(u) \/ Granted(u) PROVE FALSE
  <2>1. Others({u}) /\ tasks[u].st # "free"
    BY <1>1, <1>11, StartFreeDoes, StartLockedDoes, GrantedDoes DEF Opens
  <2> QED
    BY <1>5, <2>1
<1>12. ASSUME NEW u \in Task, PlanCancelled(u) PROVE FALSE
  <2>1. Others({u, tasks[u].owner}) /\ Wakes(u, tasks[u].owner) /\ tasks[u].st # "free"
    BY <1>1, <1>12, PlanCancelledDoes
  <2> QED
    BY <1>6, <2>1
<1>13. ASSUME NEW t \in Task, NestStrategy(t) PROVE FALSE
  <2>1. Others({t}) /\ InBody(t)
    BY <1>1, <1>13, NestStrategyDoes, Zenon
  <2> QED
    BY <1>5, <2>1 DEF InBody
<1>14. ASSUME NEW t \in Task, NEW o \in Outcome, CodeEnds(t, o) \/ NestedEnds(t, o) PROVE FALSE
  <2>1. Others({t}) /\ tasks[t].st # "free"
    BY <1>1, <1>14, CodeEndsDoes, NestedEndsDoes, EndingFacts
  <2> QED
    BY <1>5, <2>1
<1>15. ASSUME NEW t \in Task, NEW o \in Outcome, SessionEnds(t, o) PROVE FALSE
  <2>1. /\ MayEnd(t, o)
        /\ \/ Others({t, tasks[t].owner}) /\ Wakes(t, tasks[t].owner)
           \/ Others({t})
    BY <1>1, <1>15, SessionEndsDoes, Zenon
  <2>2. tasks[t].st = "run"
    BY <1>1, <2>1, EndingFacts
  <2> QED
    BY <1>5, <1>6, <2>1, <2>2
<1>16. ASSUME NEW t \in Task, Close(t) PROVE FALSE
  <2>1. Top(t).call \in Call
    BY <1>1, <1>16, CloseStay DEF Announced
  <2>2. Others({t}) /\ tasks[t].st # "free"
    BY <1>1, <1>16, <2>1, CloseDoes
  <2> QED
    BY <1>5, <2>2
<1>17. ASSUME NEW t \in Task, EndTask(t) PROVE FALSE
  <2>1. Others({t}) /\ tasks[t].st # "free"
    BY <1>1, <1>17, EndTaskDoes
  <2> QED
    BY <1>5, <2>1
<1>18. ASSUME NEW t \in Task, Cancel(t) PROVE FALSE
  BY <1>1, <1>18, CancelDoes
<1>19. ASSUME Restart PROVE FALSE
  BY <1>1, <1>19, RestartDoes DEF Alive
<1>20. QED
  BY <1>1, <1>3, <1>7, <1>8, <1>9, <1>10, <1>11, <1>12, <1>13, <1>14, <1>15, <1>16, <1>17,
     <1>18, <1>19, Steps

\* A plan begins under the wrapper that awaits it.
Planned(v) ==
    LET t == tasks'[v].owner
        n == Len(tasks'[t].frames)
    IN /\ t \in Task /\ tasks'[t].st = "wait" /\ n \in Nat \ {0}
       /\ tasks'[t].frames[n].kind = "wrapper" /\ tasks'[t].frames[n].call = tasks'[v].plan
       /\ tasks'[t].frames[n].out = "open" /\ tasks'[v].level = n
       /\ tasks'[v].base = tasks'[t].ctx

LEMMA PlanStep ==
    ASSUME IInv, Next, NEW v \in Task, tasks[v].st = "free", tasks'[v].plan # Nobody
    PROVE  Planned(v)
<1>1. Typed /\ Shaped /\ Known /\ Queued /\ Awaiting /\ Born
  BY DEF IInv
<1>2. tasks'[v] # tasks[v]
  <2>1. tasks[v].plan = Nobody
    BY <1>1, FreshType DEF Born
  <2> QED
    BY <2>1
<1>3. ~Arrive(v) /\ \A t \in Task : ~Spawn(t, v)
  BY <1>1, ArriveDoes, SpawnDoes DEF Newborn
<1>4. PICK t \in Task, c \in Call, a \in Agents, k \in MethodKinds : CallPlan(t, v, c, a, k)
  BY <1>2, <1>3, BirthStep
<1>5. /\ Grown(tasks[t], tasks'[t], WrapperFrame(c, tasks[t].ctx)) /\ tasks'[t].st = "wait"
      /\ Newborn(v, t, "new", tasks'[t].ctx, c) /\ tasks'[v].level = Len(tasks[t].frames) + 1
  BY <1>1, <1>4, CallPlanDoes
<1>6. WrapperFrame(c, tasks[t].ctx).kind = "wrapper" /\ WrapperFrame(c, tasks[t].ctx).call = c
      /\ WrapperFrame(c, tasks[t].ctx).out = "open"
  BY DEF WrapperFrame
<1>7. PICK n \in Nat : n = Len(tasks[t].frames) /\ Len(tasks'[t].frames) = n + 1
                       /\ tasks'[t].frames[n + 1] = WrapperFrame(c, tasks[t].ctx)
  BY <1>5 DEF Grown
<1>8. tasks'[v].owner = t /\ tasks'[v].plan = c /\ tasks'[v].base = tasks'[t].ctx
  BY <1>5 DEF Newborn
<1>9. n + 1 \in Nat \ {0}
  OBVIOUS
<1>10. QED
  BY <1>5, <1>6, <1>7, <1>8, <1>9 DEF Planned

LEMMA AwaitingStep == ASSUME IInv, Next PROVE Awaiting'
<1>1. Typed /\ Known /\ Awaiting /\ Born /\ RootsStay /\ Typed'
  BY RootsStep, TypedStep DEF IInv
<1>2. ASSUME NEW u \in Task, Alive(u)', tasks'[u].plan # Nobody
      PROVE  \E t \in Task : /\ t = tasks'[u].owner /\ tasks'[t].st = "wait" /\ tasks'[t].frames # <<>>
                            /\ Top(t)'.kind = "wrapper" /\ Top(t)'.call = tasks'[u].plan
                            /\ Top(t)'.out = "open" /\ tasks'[u].level = Len(tasks'[t].frames)
  <2>1. CASE BornNow(u)
    <3>1. Planned(u)
      BY <1>2, <2>1, PlanStep DEF BornNow, FreeTask
    <3>2. PICK t \in Task : t = tasks'[u].owner
      BY <3>1 DEF Planned
    <3>3. tasks'[t].frames # <<>>
      BY <3>1, <3>2, EmptySeq DEF Planned
    <3> QED
      BY <3>1, <3>2, <3>3 DEF Planned, Top, Last
  <2>2. CASE GoesOn(u)
    <3>1. Alive(u) /\ tasks[u].plan # Nobody /\ tasks'[u].plan = tasks[u].plan
          /\ tasks'[u].owner = tasks[u].owner /\ tasks'[u].level = tasks[u].level
      BY <1>2, <2>2 DEF GoesOn, SameRoot
    <3>2. PICK t \in Task : t = tasks[u].owner
      BY <1>1, <3>1 DEF Awaiting
    <3>3. /\ tasks[t].st = "wait" /\ tasks[t].frames # <<>>
          /\ Top(t).kind = "wrapper" /\ Top(t).call = tasks[u].plan /\ Top(t).out = "open"
          /\ tasks[u].level = Len(tasks[t].frames)
      BY <1>1, <3>1, <3>2 DEF Awaiting
    <3>4. WaitsOn(t)
      BY <3>3, WaitStep
    <3>5. ASSUME NEW x \in Task, Wakes(x, t), Ends(x) PROVE FALSE
      <4>1. tasks[x].plan = tasks[u].plan
        BY <3>3, <3>5 DEF Wakes, Top, Last
      <4>2. x = u
        BY <1>1, <3>1, <4>1 DEF Known
      <4> QED
        BY <1>2, <3>5, <4>2 DEF Ends, Alive
    <3>6. ~Restart
      BY <1>1, <1>2, RestartDoes DEF Alive
    <3> QED
      BY <3>1, <3>2, <3>3, <3>4, <3>5, <3>6 DEF WaitsOn, Top
  <2>3. ~Unborn(u)
    BY <1>2 DEF Unborn, Alive
  <2> QED
    BY <1>1, <2>1, <2>2, <2>3 DEF RootsStay
<1>3. QED
  BY <1>2 DEF Awaiting, Alive, Top

\* What Kept says of a child of t created at its n-th frame, with plan p.
KeptAt(t, n, p) ==
    /\ Alive(t) /\ n \in 1..Len(tasks[t].frames) /\ tasks[t].frames[n].out = "open"
    /\ n < Len(tasks[t].frames) => ~(Wrapper(t, n) /\ tasks[t].frames[n + 1].kind = "session")
    /\ tasks[t].st = "wait" /\ n = Len(tasks[t].frames) => p = Top(t).call
KeptAtNow(t, n, p) ==
    /\ Alive(t)' /\ n \in 1..Len(tasks'[t].frames) /\ tasks'[t].frames[n].out = "open"
    /\ n < Len(tasks'[t].frames) =>
          ~(tasks'[t].frames[n].kind = "wrapper" /\ tasks'[t].frames[n + 1].kind = "session")
    /\ tasks'[t].st = "wait" /\ n = Len(tasks'[t].frames) =>
          p = tasks'[t].frames[Len(tasks'[t].frames)].call

\* t keeps what it must keep for the children that live on.
Keeps(t) ==
    \A u \in Task : Alive(u) /\ Alive(u)' /\ tasks[u].owner = t /\ KeptAt(t, tasks[u].level, tasks[u].plan)
        => KeptAtNow(t, tasks[u].level, tasks[u].plan)

LEMMA KeepsSame ==
    ASSUME NEW t, tasks'[t].frames = tasks[t].frames, tasks'[t].st = tasks[t].st
    PROVE  Keeps(t)
BY DEF Keeps, KeptAt, KeptAtNow, Wrapper, Top, Last, Alive

LEMMA KeepsNone ==
    ASSUME Typed, NEW t \in Task, tasks[t].frames = <<>>
    PROVE  Keeps(t)
<1>1. Len(tasks[t].frames) = 0
  BY TasksType
<1>2. QED
  BY <1>1 DEF Keeps, KeptAt

\* Frames are pushed on a frame whose body runs.
LEMMA KeepsGrown ==
    ASSUME Typed, NEW t \in Task, NEW r, NEW f, OneFrame(tasks[t], r), Grown(r, tasks'[t], f),
           r.frames[Len(r.frames)].out = tasks[t].frames[Len(tasks[t].frames)].out,
           f.kind # "session", tasks'[t].st \in {"run", "wait"}
    PROVE  Keeps(t)
<1>1. PICK n \in Nat : n = Len(tasks[t].frames) /\ n = Len(r.frames) /\ Len(tasks'[t].frames) = n + 1
  BY DEF OneFrame, Grown
<1>2. tasks'[t].frames[n + 1] = f
  BY <1>1 DEF Grown
<1>3. \A i \in 1..n : /\ tasks'[t].frames[i].kind = tasks[t].frames[i].kind
                      /\ tasks'[t].frames[i].out = tasks[t].frames[i].out
  <2>1. ASSUME NEW i \in 1..n PROVE /\ tasks'[t].frames[i] = r.frames[i]
    BY <1>1, <2>1 DEF Grown
  <2>2. ASSUME NEW i \in 1..n
        PROVE  r.frames[i].kind = tasks[t].frames[i].kind /\ r.frames[i].out = tasks[t].frames[i].out
    BY <1>1, <2>2 DEF OneFrame
  <2> QED
    BY <2>1, <2>2
<1>4. ASSUME NEW u \in Task, KeptAt(t, tasks[u].level, tasks[u].plan)
      PROVE  KeptAtNow(t, tasks[u].level, tasks[u].plan)
  <2>1. PICK k \in 1..n : k = tasks[u].level
    BY <1>1, <1>4 DEF KeptAt
  <2>2. k \in 1..n + 1 /\ k # n + 1
    BY <2>1
  <2>3. tasks'[t].frames[k].out = "open"
    BY <1>3, <1>4, <2>1 DEF KeptAt
  <2>4. ~(tasks'[t].frames[k].kind = "wrapper" /\ tasks'[t].frames[k + 1].kind = "session")
    <3>1. CASE k = n
      BY <1>2, <3>1
    <3>2. CASE k # n
      <4>1. k + 1 \in 1..n /\ k < n
        BY <2>1, <3>2
      <4>2. ~(tasks[t].frames[k].kind = "wrapper" /\ tasks[t].frames[k + 1].kind = "session")
        BY <1>1, <1>4, <2>1, <4>1 DEF KeptAt, Wrapper
      <4> QED
        BY <1>3, <2>1, <4>1, <4>2
    <3> QED
      BY <3>1, <3>2
  <2> QED
    BY <1>1, <2>1, <2>2, <2>3, <2>4 DEF KeptAtNow, Alive
<1>5. QED
  BY <1>4 DEF Keeps

\* A call made inside a session pushes two frames.
LEMMA KeepsInline ==
    ASSUME Typed, NEW t \in Task, NEW r, NEW f, NEW g, Grown(tasks[t], r, f), Grown(r, tasks'[t], g),
           f.kind = "wrapper", tasks'[t].st = "run"
    PROVE  Keeps(t)
<1>1. PICK n \in Nat : n = Len(tasks[t].frames) /\ Len(r.frames) = n + 1 /\ Len(tasks'[t].frames) = n + 2
  <2>1. PICK n \in Nat : n = Len(tasks[t].frames) /\ Len(r.frames) = n + 1
    BY DEF Grown
  <2>2. PICK m \in Nat : m = n + 1 /\ m = Len(r.frames) /\ Len(tasks'[t].frames) = m + 1
    BY <2>1 DEF Grown
  <2>3. Len(tasks'[t].frames) = n + 2
    BY <2>2
  <2> QED
    BY <2>1, <2>3
<1>2. tasks'[t].frames[n + 1] = f
  <2>1. n + 1 \in 1..Len(r.frames) /\ r.frames[n + 1] = f
    BY <1>1 DEF Grown
  <2> QED
    BY <2>1 DEF Grown
<1>3. \A i \in 1..n : tasks'[t].frames[i] = tasks[t].frames[i]
  BY <1>1 DEF Grown
<1>4. ASSUME NEW u \in Task, KeptAt(t, tasks[u].level, tasks[u].plan)
      PROVE  KeptAtNow(t, tasks[u].level, tasks[u].plan)
  <2>1. PICK k \in 1..n : k = tasks[u].level
    BY <1>1, <1>4 DEF KeptAt
  <2>2. k \in 1..n + 2 /\ k # n + 2
    BY <2>1
  <2>3. tasks'[t].frames[k].out = "open"
    BY <1>3, <1>4, <2>1 DEF KeptAt
  <2>4. ~(tasks'[t].frames[k].kind = "wrapper" /\ tasks'[t].frames[k + 1].kind = "session")
    <3>1. CASE k = n
      BY <1>2, <3>1
    <3>2. CASE k # n
      <4>1. k + 1 \in 1..n /\ k < n
        BY <2>1, <3>2
      <4>2. ~(tasks[t].frames[k].kind = "wrapper" /\ tasks[t].frames[k + 1].kind = "session")
        BY <1>1, <1>4, <2>1, <4>1 DEF KeptAt, Wrapper
      <4> QED
        BY <1>3, <2>1, <4>1, <4>2
    <3> QED
      BY <3>1, <3>2
  <2> QED
    BY <1>1, <2>1, <2>2, <2>3, <2>4 DEF KeptAtNow, Alive
<1>5. QED
  BY <1>4 DEF Keeps

\* The innermost frame, which has no task of its own left, ends.
LEMMA KeepsShrunk ==
    ASSUME Typed, NEW t \in Task, NEW r, Shrunk(tasks[t], r), OneFrame(r, tasks'[t]),
           tasks'[t].st = "run",
           \A u \in Task : Alive(u) /\ tasks[u].owner = t
               /\ KeptAt(t, tasks[u].level, tasks[u].plan) => tasks[u].level # Len(tasks[t].frames),
           \/ r.frames = <<>>
           \/ r.frames[Len(r.frames)] = tasks'[t].frames[Len(r.frames)]
           \/ /\ r.frames[Len(r.frames)].kind = "wrapper"
              /\ tasks[t].frames[Len(tasks[t].frames)].kind = "session"
    PROVE  Keeps(t)
<1>1. PICK n \in Nat \ {0} : n = Len(tasks[t].frames)
  BY DEF Shrunk
<1>2. Len(r.frames) = n - 1 /\ Len(tasks'[t].frames) = n - 1 /\ \A i \in 1..n - 1 : r.frames[i] = tasks[t].frames[i]
  BY <1>1 DEF Shrunk, OneFrame
<1>3. \A i \in 1..n - 1 : tasks'[t].frames[i].kind = tasks[t].frames[i].kind
  BY <1>2 DEF OneFrame
<1>4. \A i \in 1..n - 1 : i # n - 1 => tasks'[t].frames[i] = tasks[t].frames[i]
  BY <1>2 DEF OneFrame
<1>5. ASSUME NEW u \in Task, Alive(u), tasks[u].owner = t, KeptAt(t, tasks[u].level, tasks[u].plan)
      PROVE  KeptAtNow(t, tasks[u].level, tasks[u].plan)
  <2>1. PICK k \in 1..n : k = tasks[u].level
    BY <1>1, <1>5 DEF KeptAt
  <2>2. k \in 1..n - 1 /\ k < n
    BY <1>1, <1>5, <2>1
  <2>3. ~(tasks[t].frames[k].kind = "wrapper" /\ tasks[t].frames[k + 1].kind = "session")
    BY <1>1, <1>5, <2>1, <2>2 DEF KeptAt, Wrapper
  <2>4. tasks[t].frames[k].out = "open"
    BY <1>5, <2>1 DEF KeptAt
  <2>5. tasks'[t].frames[k].out = "open"
    <3>1. CASE k # n - 1
      BY <1>4, <2>2, <2>4, <3>1
    <3>2. CASE k = n - 1
      <4>1. r.frames # <<>> /\ r.frames[Len(r.frames)] = tasks[t].frames[k] /\ Len(r.frames) = k
        <5>1. Len(<<>>) = 0 /\ k # 0
          BY EmptySeq, <2>2
        <5> QED
          BY <1>2, <2>2, <3>2, <5>1
      <4>2. ~(/\ r.frames[Len(r.frames)].kind = "wrapper"
              /\ tasks[t].frames[Len(tasks[t].frames)].kind = "session")
        <5>1. Len(tasks[t].frames) = k + 1
          BY <1>1, <3>2
        <5> QED
          BY <2>3, <4>1, <5>1
      <4>3. r.frames[Len(r.frames)] = tasks'[t].frames[Len(r.frames)]
        BY <4>1, <4>2
      <4> QED
        BY <2>4, <4>1, <4>3
    <3> QED
      BY <3>1, <3>2
  <2>6. k < n - 1 => ~(tasks'[t].frames[k].kind = "wrapper" /\ tasks'[t].frames[k + 1].kind = "session")
    <3>1. ASSUME k < n - 1 PROVE k + 1 \in 1..n - 1
      BY <2>2, <3>1
    <3> QED
      BY <1>3, <2>2, <2>3, <3>1
  <2> QED
    BY <1>2, <2>1, <2>2, <2>5, <2>6 DEF KeptAtNow, Alive
<1>6. QED
  BY <1>5 DEF Keeps
LEMMA KeepsDead == ASSUME NEW t, ~Alive(t) PROVE Keeps(t)
BY DEF Keeps, KeptAt

\* The wrapper that awaits a plan has no other task of its own.
LEMMA KeepsWakes ==
    ASSUME Known, NEW x \in Task, NEW t \in Task, Wakes(x, t), Ends(x), tasks[x].plan # Nobody
    PROVE  Keeps(t)
<1>1. PICK n \in Nat \ {0} : n = Len(tasks[t].frames) /\ n = Len(tasks'[t].frames)
  BY DEF Wakes, OneFrame
<1>2. \A i \in 1..n : /\ i # n => tasks'[t].frames[i] = tasks[t].frames[i]
                      /\ tasks'[t].frames[i].kind = tasks[t].frames[i].kind
  BY <1>1 DEF Wakes, OneFrame
<1>3. ASSUME NEW u \in Task, Alive(u)', KeptAt(t, tasks[u].level, tasks[u].plan)
      PROVE  KeptAtNow(t, tasks[u].level, tasks[u].plan)
  <2>1. PICK k \in 1..n : k = tasks[u].level
    BY <1>1, <1>3 DEF KeptAt
  <2>2. k # n
    <3>1. ASSUME k = n PROVE FALSE
      <4>1. tasks[u].plan = tasks[x].plan
        BY <1>1, <1>3, <2>1, <3>1 DEF KeptAt, Wakes, Top, Last
      <4>2. u = x
        BY <4>1 DEF Known
      <4> QED
        BY <1>3, <4>2 DEF Ends, Alive
    <3> QED
      BY <3>1
  <2>3. tasks'[t].frames[k].out = "open"
    BY <1>2, <1>3, <2>1, <2>2 DEF KeptAt
  <2>4. k < n => ~(tasks'[t].frames[k].kind = "wrapper" /\ tasks'[t].frames[k + 1].kind = "session")
    <3>1. ASSUME k < n PROVE k + 1 \in 1..n
      BY <2>1, <3>1
    <3>2. k < n => ~(tasks[t].frames[k].kind = "wrapper" /\ tasks[t].frames[k + 1].kind = "session")
      BY <1>1, <1>3, <2>1 DEF KeptAt, Wrapper
    <3> QED
      BY <1>2, <2>1, <3>1, <3>2
  <2>5. tasks'[t].st = "run"
    BY DEF Wakes
  <2> QED
    BY <1>1, <2>1, <2>2, <2>3, <2>4, <2>5 DEF KeptAtNow, Alive
<1>4. QED
  BY <1>3 DEF Keeps

\* The body of the innermost frame, which has no task left, ends.
LEMMA KeepsFlag ==
    ASSUME Typed, NEW t \in Task, OneFrame(tasks[t], tasks'[t]), tasks'[t].st = "run",
           \A u \in Task : Alive(u) /\ tasks[u].owner = t => tasks[u].level # Len(tasks[t].frames)
    PROVE  Keeps(t)
<1>1. PICK n \in Nat : n = Len(tasks[t].frames) /\ n = Len(tasks'[t].frames)
  BY TasksType DEF OneFrame
<1>2. \A i \in 1..n : /\ i # n => tasks'[t].frames[i] = tasks[t].frames[i]
                      /\ tasks'[t].frames[i].kind = tasks[t].frames[i].kind
  BY <1>1 DEF OneFrame
<1>3. ASSUME NEW u \in Task, Alive(u), tasks[u].owner = t, KeptAt(t, tasks[u].level, tasks[u].plan)
      PROVE  KeptAtNow(t, tasks[u].level, tasks[u].plan)
  <2>1. PICK k \in 1..n : k = tasks[u].level
    BY <1>1, <1>3 DEF KeptAt
  <2>2. k # n
    BY <1>1, <1>3, <2>1
  <2>3. tasks'[t].frames[k].out = "open"
    BY <1>2, <1>3, <2>1, <2>2 DEF KeptAt
  <2>4. k < n => ~(tasks'[t].frames[k].kind = "wrapper" /\ tasks'[t].frames[k + 1].kind = "session")
    <3>1. ASSUME k < n PROVE k + 1 \in 1..n
      BY <2>1, <3>1
    <3>2. k < n => ~(tasks[t].frames[k].kind = "wrapper" /\ tasks[t].frames[k + 1].kind = "session")
      BY <1>1, <1>3, <2>1 DEF KeptAt, Wrapper
    <3> QED
      BY <1>2, <2>1, <3>1, <3>2
  <2> QED
    BY <1>1, <2>1, <2>2, <2>3, <2>4 DEF KeptAtNow, Alive
<1>4. QED
  BY <1>3 DEF Keeps

LEMMA KeepsOne ==
    ASSUME NEW t \in Task, Others({t}), Keeps(t)
    PROVE  \A v \in Task : Keeps(v)
BY KeepsSame DEF Others

LEMMA KeepsTwo ==
    ASSUME NEW t \in Task, NEW u, Others({t, u}), Keeps(t), Keeps(u)
    PROVE  \A v \in Task : Keeps(v)
BY KeepsSame DEF Others

LEMMA KeepsStep == ASSUME IInv, Next, Plain PROVE \A v \in Task : Keeps(v)
<1> DEFINE Goal == \A v \in Task : Keeps(v)
<1>1. Typed /\ Shaped /\ Known /\ Queued /\ Awaiting
  BY DEF IInv
<1>2. ASSUME NEW u \in Task, Arrive(u) PROVE Goal
  <2>1. Others({u}) /\ ~Alive(u)
    BY <1>1, <1>2, ArriveDoes DEF Newborn, FreeTask, Alive
  <2> QED
    BY <2>1, KeepsOne, KeepsDead
<1>3. ASSUME NEW t \in Task, NEW u \in Task, Spawn(t, u) PROVE Goal
  <2>1. Others({u}) /\ ~Alive(u)
    BY <1>1, <1>3, SpawnDoes DEF Newborn, FreeTask, Alive
  <2> QED
    BY <2>1, KeepsOne, KeepsDead
<1>4. ASSUME NEW t \in Task, NEW c \in Call, Grown(tasks[t], tasks'[t], WrapperFrame(c, tasks[t].ctx)),
             tasks'[t].st \in {"run", "wait"}
      PROVE  Keeps(t)
  <2>1. WrapperFrame(c, tasks[t].ctx).kind = "wrapper"
    BY DEF WrapperFrame
  <2> QED
    BY <1>1, <1>4, <2>1, SameFrame, KeepsGrown
<1>5. ASSUME NEW t \in Task, NEW c \in Call, NEW a \in Agents, NEW k \in MethodKinds,
             CallCode(t, c, a, k)
      PROVE  Goal
  <2>1. /\ Others({t}) /\ tasks'[t].st = "run"
        /\ Grown(tasks[t], tasks'[t], WrapperFrame(c, tasks[t].ctx))
    BY <1>1, <1>5, CallCodeDoes DEF InBody
  <2> QED
    BY <1>4, <2>1, KeepsOne
<1>6. ASSUME NEW t \in Task, NEW c \in Call, NEW a \in Agents, NEW k \in MethodKinds,
             CallInline(t, c, a, k)
      PROVE  Goal
  <2>1. /\ Others({t}) /\ InBody(t)
        /\ \E r \in TaskRec :
              /\ Grown(tasks[t], r, WrapperFrame(c, tasks[t].ctx))
              /\ Grown(r, tasks'[t], SessionFrame(c, r.ctx, FALSE))
              /\ tasks'[t].st = tasks[t].st
    BY <1>1, <1>6, CallInlineDoes, Zenon
  <2>2. WrapperFrame(c, tasks[t].ctx).kind = "wrapper"
    BY DEF WrapperFrame
  <2>3. Keeps(t)
    BY <1>1, <2>1, <2>2, KeepsInline DEF InBody
  <2> QED
    BY <2>1, <2>3, KeepsOne
<1>7. ASSUME NEW t \in Task, NEW u \in Task, NEW c \in Call, NEW a \in Agents,
             NEW k \in MethodKinds, CallPlan(t, u, c, a, k)
      PROVE  Goal
  <2>1. /\ Others({t, u}) /\ tasks'[t].st = "wait" /\ ~Alive(u)
        /\ Grown(tasks[t], tasks'[t], WrapperFrame(c, tasks[t].ctx))
    BY <1>1, <1>7, CallPlanDoes DEF Newborn, FreeTask, Alive
  <2> QED
    BY <1>4, <2>1, KeepsTwo, KeepsDead
<1>8. ASSUME NEW u \in Task, StartFree(u) \/ StartLocked(u) \/ Granted(u) PROVE Goal
  <2>1. Others({u}) /\ tasks[u].frames = <<>>
    BY <1>1, <1>8, StartFreeDoes, StartLockedDoes, GrantedDoes DEF Opens, Shaped
  <2> QED
    BY <1>1, <2>1, KeepsOne, KeepsNone
<1>9. ASSUME NEW u \in Task, PlanCancelled(u) PROVE Goal
  <2> DEFINE w == tasks[u].owner
  <2>1. /\ Others({u, w}) /\ Ends(u) /\ Wakes(u, w) /\ w \in Task
        /\ tasks[u].st \in {"new", "lock"} /\ tasks[u].plan # Nobody
    BY <1>1, <1>9, PlanCancelledDoes DEF Wakes
  <2> HIDE DEF w
  <2>2. tasks[u].frames = <<>>
    BY <1>1, <2>1 DEF Shaped
  <2> QED
    BY <1>1, <2>1, <2>2, KeepsNone, KeepsWakes, KeepsTwo
<1>10. ASSUME NEW t \in Task, NestStrategy(t) PROVE Goal
  <2>1. /\ Others({t}) /\ InBody(t) /\ tasks[t].frames # <<>>
        /\ \E r \in TaskRec :
              /\ OneFrame(tasks[t], r) /\ Grown(r, tasks'[t], NestedFrame(Top(t).call, r.ctx))
              /\ r.frames[Len(r.frames)].out = "open" /\ tasks'[t].st = tasks[t].st
    BY <1>1, <1>10, NestStrategyDoes, Zenon
  <2>2. PICK r \in TaskRec :
           /\ OneFrame(tasks[t], r) /\ Grown(r, tasks'[t], NestedFrame(Top(t).call, r.ctx))
           /\ r.frames[Len(r.frames)].out = "open" /\ tasks'[t].st = tasks[t].st
    BY <2>1
  <2>3. tasks[t].frames[Len(tasks[t].frames)].out = "open" /\ tasks'[t].st = "run"
    BY <2>1, <2>2 DEF InBody, Top, Last
  <2>4. NestedFrame(Top(t).call, r.ctx).kind = "nested"
    <3>1. Top(t).call \in Call /\ r.ctx \in Context /\ FALSE \in BOOLEAN
      BY <1>1, <2>1, TopKnown DEF Announced, TaskRec
    <3> QED
      BY <3>1, FrameType
  <2>5. Keeps(t)
    <3> DEFINE f == NestedFrame(Top(t).call, r.ctx)
    <3>1. f.kind # "session" /\ Grown(r, tasks'[t], f)
      BY <2>2, <2>4
    <3> HIDE DEF f
    <3> QED
      BY <1>1, <2>2, <2>3, <3>1, KeepsGrown
  <2> QED
    BY <2>1, <2>5, KeepsOne
<1>11. ASSUME NEW t \in Task, NEW o \in Outcome, CodeEnds(t, o) PROVE Goal
  <2>1. /\ Others({t}) /\ MayEnd(t, o) /\ OneFrame(tasks[t], tasks'[t]) /\ tasks'[t].st = "run"
    BY <1>1, <1>11, CodeEndsDoes
  <2>2. \A u \in Task : Alive(u) /\ tasks[u].owner = t => tasks[u].level # Len(tasks[t].frames)
    BY <1>1, <2>1, EndingFacts
  <2> QED
    BY <1>1, <2>1, <2>2, KeepsFlag, KeepsOne
<1>12. ASSUME NEW t \in Task, NEW o \in Outcome, NestedEnds(t, o) PROVE Goal
  <2>1. Others({t}) /\ MayEnd(t, o) /\ Shrunk(tasks[t], tasks'[t]) /\ tasks'[t].st = "run"
    BY <1>1, <1>12, NestedEndsDoes
  <2>2. \A u \in Task : Alive(u) /\ tasks[u].owner = t => tasks[u].level # Len(tasks[t].frames)
    BY <1>1, <2>1, EndingFacts
  <2>3. Keeps(t)
    BY <1>1, <2>1, <2>2, SameFrame, KeepsShrunk
  <2> QED
    BY <2>1, <2>3, KeepsOne
<1>13. ASSUME NEW t \in Task, Close(t) PROVE Goal
  <2>1. Top(t).call \in Call
    BY <1>1, <1>13, CloseStay DEF Announced
  <2>2. /\ Others({t}) /\ Shrunk(tasks[t], tasks'[t]) /\ tasks'[t].st = "run"
        /\ Top(t) = tasks[t].frames[Len(tasks[t].frames)] /\ Top(t).out # "open"
    BY <1>1, <1>13, <2>1, CloseDoes
  <2>3. \A u \in Task : KeptAt(t, tasks[u].level, tasks[u].plan) => tasks[u].level # Len(tasks[t].frames)
    BY <2>2 DEF KeptAt
  <2>4. Keeps(t)
    BY <1>1, <2>2, <2>3, SameFrame, KeepsShrunk
  <2> QED
    BY <2>2, <2>4, KeepsOne
<1>14. ASSUME NEW t \in Task, EndTask(t) PROVE Goal
  BY <1>1, <1>14, EndTaskDoes, KeepsNone, KeepsOne
<1>15. ASSUME NEW t \in Task, Cancel(t) PROVE Goal
  BY <1>1, <1>15, CancelDoes, KeepsSame
<1>16. ASSUME Restart PROVE Goal
  <2>1. \A u \in Task : ~Alive(u)'
    BY <1>1, <1>16, RestartDoes DEF Alive
  <2> QED
    BY <2>1 DEF Keeps
<1>17. ASSUME NEW t \in Task, NEW o \in Outcome, SessionEnds(t, o) PROVE Goal
  <2>1. /\ MayEnd(t, o) /\ Top(t).kind = "session"
        /\ \/ /\ Len(tasks[t].frames) = 1 /\ tasks[t].plan # Nobody
              /\ Others({t, tasks[t].owner}) /\ Ends(t) /\ Wakes(t, tasks[t].owner)
           \/ /\ Others({t}) /\ tasks[t].frames[Len(tasks[t].frames) - 1].kind = "wrapper"
              /\ Len(tasks[t].frames) > 1
              /\ \E r \in TaskRec :
                    Shrunk(tasks[t], r) /\ OneFrame(r, tasks'[t]) /\ tasks'[t].st = "run"
    BY <1>1, <1>17, SessionEndsDoes, Zenon
  <2>2. \A u \in Task : Alive(u) /\ tasks[u].owner = t => tasks[u].level # Len(tasks[t].frames)
    BY <1>1, <2>1, EndingFacts
  <2>3. CASE /\ Len(tasks[t].frames) = 1 /\ tasks[t].plan # Nobody
             /\ Others({t, tasks[t].owner}) /\ Ends(t) /\ Wakes(t, tasks[t].owner)
    <3> DEFINE w == tasks[t].owner
    <3>1. Others({t, w}) /\ Wakes(t, w) /\ w \in Task
      BY <2>3 DEF Wakes
    <3> HIDE DEF w
    <3>2. Keeps(t)
      BY <2>2, <2>3 DEF Keeps, KeptAt
    <3>3. Keeps(w)
      BY <1>1, <2>3, <3>1, KeepsWakes
    <3> QED
      BY <3>1, <3>2, <3>3, KeepsTwo
  <2>4. CASE /\ Others({t}) /\ tasks[t].frames[Len(tasks[t].frames) - 1].kind = "wrapper"
             /\ Len(tasks[t].frames) > 1
             /\ \E r \in TaskRec :
                   Shrunk(tasks[t], r) /\ OneFrame(r, tasks'[t]) /\ tasks'[t].st = "run"
    <3>1. PICK r \in TaskRec : Shrunk(tasks[t], r) /\ OneFrame(r, tasks'[t]) /\ tasks'[t].st = "run"
      BY <2>4
    <3>2. PICK n \in Nat \ {0} : n = Len(tasks[t].frames)
      BY <3>1 DEF Shrunk
    <3>3. Len(r.frames) = n - 1 /\ n - 1 \in 1..n - 1 /\ r.frames[n - 1] = tasks[t].frames[n - 1]
      BY <2>4, <3>1, <3>2 DEF Shrunk
    <3>4. r.frames[Len(r.frames)].kind = "wrapper"
      BY <2>4, <3>2, <3>3
    <3>5. tasks[t].frames[Len(tasks[t].frames)].kind = "session"
      BY <1>1, <2>1, EndingFacts
    <3>6. Keeps(t)
      BY <1>1, <2>2, <3>1, <3>4, <3>5, KeepsShrunk
    <3> QED
      BY <2>4, <3>6, KeepsOne
  <2> QED
    BY <2>1, <2>3, <2>4
<1>18. QED
  BY <1>1, <1>2, <1>3, <1>5, <1>6, <1>7, <1>8, <1>9, <1>10, <1>11, <1>12, <1>13, <1>14, <1>15,
     <1>16, <1>17, Steps
LEMMA EnvStays == ASSUME Next PROVE env' = env
<1>1. ASSUME NEW t \in Task, Step(t) PROVE env' = env
  BY <1>1 DEF Step, StartFree, StartLocked, Granted, PlanCancelled, CodeEnds, NestedEnds,
              SessionEnds, Close, EndTask
<1>2. ASSUME NEW t \in Task, NEW c \in Call, NEW a, NEW k,
             CallCode(t, c, a, k) \/ CallInline(t, c, a, k) \/ \E u \in Task : CallPlan(t, u, c, a, k)
      PROVE  env' = env
  BY <1>2 DEF CallCode, CallInline, CallPlan, Announce
<1>3. ASSUME NEW t \in Task, Arrive(t) \/ NestStrategy(t) \/ Cancel(t) \/ \E u \in Task : Spawn(t, u)
      PROVE  env' = env
  BY <1>3 DEF Arrive, NestStrategy, Cancel, Spawn
<1>4. QED
  BY <1>1, <1>2, <1>3 DEF Next, Restart

LEMMA KeptStep == ASSUME IInv, Next PROVE Kept'
<1>1. Typed /\ Typed' /\ Born /\ Shaped /\ Known /\ Queued /\ Awaiting /\ Kept /\ RootsStay /\ env' = env
  BY RootsStep, TypedStep, EnvStays DEF IInv
<1>2. ASSUME Plain, NEW u \in Task, Alive(u)', tasks'[u].owner # Nobody
      PROVE  \E t \in Task, n \in Nat, p \in Call \cup {Nobody} :
                /\ t = tasks'[u].owner /\ n = tasks'[u].level /\ p = tasks'[u].plan
                /\ KeptAtNow(t, n, p)
  <2>1. CASE GoesOn(u)
    <3>1. Alive(u) /\ tasks'[u].owner = tasks[u].owner /\ tasks'[u].plan = tasks[u].plan
          /\ tasks'[u].level = tasks[u].level /\ tasks[u].owner # Nobody
      BY <1>2, <2>1 DEF GoesOn, SameRoot
    <3>2. PICK t \in Task : t = tasks[u].owner
      BY <1>1, <3>1 DEF Typed, TaskRec
    <3>3. KeptAt(t, tasks[u].level, tasks[u].plan)
      BY <1>1, <1>2, <3>1, <3>2 DEF Kept, KeptAt
    <3>4. Keeps(t)
      BY <1>2, KeepsStep
    <3>5. KeptAtNow(t, tasks[u].level, tasks[u].plan)
      BY <1>2, <3>1, <3>2, <3>3, <3>4 DEF Keeps
    <3>6. tasks[u].level \in Nat /\ tasks[u].plan \in Call \cup {Nobody}
      BY <1>1 DEF Typed, TaskRec
    <3> QED
      BY <3>1, <3>2, <3>5, <3>6
  <2>2. CASE BornNow(u) /\ tasks'[u].plan # Nobody
    <3>1. Planned(u)
      BY <2>2, PlanStep DEF BornNow, FreeTask
    <3>2. PICK t \in Task, n \in Nat \ {0} : t = tasks'[u].owner /\ n = Len(tasks'[t].frames)
      BY <3>1 DEF Planned
    <3>3. /\ tasks'[t].st = "wait" /\ tasks'[t].frames[n].out = "open" /\ tasks'[u].level = n
          /\ tasks'[t].frames[n].call = tasks'[u].plan
      BY <3>1, <3>2 DEF Planned
    <3>4. PICK p \in Call \cup {Nobody} : p = tasks'[u].plan
      BY <1>1 DEF Typed, TaskRec
    <3>5. KeptAtNow(t, n, p)
      BY <3>2, <3>3, <3>4 DEF KeptAtNow, Alive
    <3> QED
      BY <3>2, <3>3, <3>4, <3>5
  <2>3. CASE BornNow(u) /\ tasks'[u].plan = Nobody
    <3>1. tasks[u].st = "free" /\ tasks'[u] # tasks[u]
      BY <1>2, <2>3 DEF BornNow, FreeTask, Alive
    <3>2. ~Arrive(u)
      BY <1>1, <1>2, ArriveDoes DEF Newborn
    <3>3. ASSUME NEW t \in Task, NEW c \in Call, NEW a \in Agents, NEW k \in MethodKinds
          PROVE  ~CallPlan(t, u, c, a, k)
      <4>1. c # Nobody
        BY DEF Call, Nobody
      <4> QED
        BY <1>1, <2>3, <4>1, CallPlanDoes DEF Newborn
    <3>4. PICK t \in Task : Spawn(t, u)
      BY <3>1, <3>2, <3>3, BirthStep
    <3>5. /\ Others({u}) /\ Newborn(u, t, "run", tasks[t].ctx, Nobody)
          /\ tasks'[u].level = Len(tasks[t].frames) /\ InBody(t) /\ tasks[t].frames # <<>>
      BY <1>1, <3>4, SpawnDoes
    <3>6. tasks'[t] = tasks[t] /\ tasks'[u].owner = t
      BY <3>5 DEF Others, Newborn, InBody, FreeTask
    <3>7. Len(tasks[t].frames) \in 1..Len(tasks[t].frames)
      BY <1>1, <3>5, TasksType
    <3>8. tasks[t].st = "run" /\ tasks[t].frames[Len(tasks[t].frames)].out = "open"
      BY <3>5 DEF InBody, Top, Last
    <3>9. PICK n \in Nat : n = Len(tasks[t].frames)
      BY <1>1, TasksType
    <3>10. KeptAtNow(t, n, Nobody)
      BY <3>6, <3>7, <3>8, <3>9 DEF KeptAtNow, Alive
    <3> QED
      BY <3>5, <3>6, <3>9, <3>10 DEF Newborn
  <2>4. ~Unborn(u)
    BY <1>2 DEF Unborn, Alive
  <2> QED
    BY <1>1, <2>1, <2>2, <2>3, <2>4 DEF RootsStay
<1>3. ASSUME Plain, NEW u \in Task, Alive(u)', tasks'[u].owner # Nobody
      PROVE  \E t \in Task, n \in Nat :
                /\ t = tasks'[u].owner /\ n = tasks'[u].level
                /\ Alive(t)' /\ n \in 1..Len(tasks'[t].frames) /\ tasks'[t].frames[n].out = "open"
                /\ n < Len(tasks'[t].frames) =>
                      ~(Wrapper(t, n)' /\ tasks'[t].frames[n + 1].kind = "session")
                /\ tasks'[t].st = "wait" /\ n = Len(tasks'[t].frames) => tasks'[u].plan = Top(t)'.call
  <2>1. PICK t \in Task, n \in Nat, p \in Call \cup {Nobody} :
                /\ t = tasks'[u].owner /\ n = tasks'[u].level /\ p = tasks'[u].plan
                /\ KeptAtNow(t, n, p)
    BY <1>2, <1>3
  <2> QED
    BY <2>1 DEF KeptAtNow, Wrapper, Top, Last
<1>4. ASSUME Plain', NEW u \in Task, Alive(u)', tasks'[u].owner # Nobody
      PROVE  (LET t == tasks[u].owner
                  n == tasks[u].level
              IN /\ Alive(t) /\ n \in 1..Len(tasks[t].frames) /\ tasks[t].frames[n].out = "open"
                 /\ n < Len(tasks[t].frames) =>
                       ~(Wrapper(t, n) /\ tasks[t].frames[n + 1].kind = "session")
                 /\ tasks[t].st = "wait" /\ n = Len(tasks[t].frames) => tasks[u].plan = Top(t).call)'
  <2>1. Plain
    BY <1>1, <1>4 DEF Plain
  <2>2. PICK t \in Task, n \in Nat :
                /\ t = tasks'[u].owner /\ n = tasks'[u].level
                /\ Alive(t)' /\ n \in 1..Len(tasks'[t].frames) /\ tasks'[t].frames[n].out = "open"
                /\ n < Len(tasks'[t].frames) =>
                      ~(Wrapper(t, n)' /\ tasks'[t].frames[n + 1].kind = "session")
                /\ tasks'[t].st = "wait" /\ n = Len(tasks'[t].frames) => tasks'[u].plan = Top(t)'.call
    BY <1>3, <1>4, <2>1
  <2> QED
    BY <2>2 DEF Alive, Wrapper, Top, Last
<1>5. QED
  BY <1>4 DEF Kept

LEMMA RestoredWrapper ==
    ASSUME NEW ctx \in Context, NEW f \in Frame, f.kind = "wrapper"
    PROVE  /\ Restored(ctx, f).session = ctx.session /\ Restored(ctx, f).stack = Front(ctx.stack)
           /\ Restored(ctx, f).gens = ctx.gens /\ Restored(ctx, f).agent = f.agent
<1>1. Restored(ctx, f) = [ctx EXCEPT !.agent = f.agent, !.stack = Front(@)]
  BY DEF Restored
<1>2. QED
  BY <1>1 DEF Context

\* A task with open frames, all outside a session, stays alive and outside.
Outer(t) == Alive(t) /\ ~tasks[t].ctx.session /\ tasks[t].frames # <<>>
OuterNow(t) == Alive(t)' /\ ~tasks'[t].ctx.session

LEMMA OuterSame ==
    ASSUME NEW t, Outer(t), tasks'[t].st \in {"run", "wait"} \cup {tasks[t].st},
           tasks'[t].ctx.session = tasks[t].ctx.session
    PROVE  OuterNow(t)
BY DEF Outer, OuterNow, Alive

LEMMA OuterOthers ==
    ASSUME NEW t \in Task, Outer(t), NEW T, Others(T), t \notin T
    PROVE  OuterNow(t)
BY DEF Outer, OuterNow, Others, Alive

LEMMA OuterStep ==
    ASSUME IInv, Next, NEW t \in Task, Outer(t), ~Restart
    PROVE  OuterNow(t)
<1>1. Typed /\ Shaped /\ Known /\ Queued /\ Awaiting /\ Paths
  BY DEF IInv
<1>2. tasks[t].ctx \in Context /\ tasks[t].ctx.session = FALSE
  BY <1>1, TasksType DEF Outer, Context
<1>3. Top(t).kind = "wrapper"
  BY <1>1, TopSession DEF Outer
<1>4. ASSUME NEW u \in Task, Arrive(u) PROVE OuterNow(t)
  <2>1. Others({u}) /\ ~Alive(u)
    BY <1>1, <1>4, ArriveDoes DEF Newborn, FreeTask, Alive
  <2> QED
    BY <2>1, OuterOthers DEF Outer
<1>5. ASSUME NEW x \in Task, NEW u \in Task, Spawn(x, u) PROVE OuterNow(t)
  <2>1. Others({u}) /\ ~Alive(u)
    BY <1>1, <1>5, SpawnDoes DEF Newborn, FreeTask, Alive
  <2> QED
    BY <2>1, OuterOthers DEF Outer
<1>6. ASSUME NEW x \in Task, NEW c \in Call, NEW a \in Agents, NEW k \in MethodKinds,
             CallCode(x, c, a, k)
      PROVE  OuterNow(t)
  <2>1. /\ Others({x}) /\ tasks'[x].st = tasks[x].st
        /\ tasks'[x].ctx = Entered(tasks[x].ctx, c, a)
    BY <1>1, <1>6, CallCodeDoes
  <2>2. Entered(tasks[t].ctx, c, a).session = tasks[t].ctx.session
    <3>1. tasks[t].ctx \in Context
      BY <1>2
    <3> QED
      BY <3>1, ContextType, Zenon
  <2>3. CASE x = t
    <3>1. tasks'[t].ctx.session = tasks[t].ctx.session
      BY <2>1, <2>2, <2>3
    <3> QED
      BY <2>1, <2>3, <3>1, OuterSame
  <2> QED
    BY <2>1, <2>3, OuterOthers
<1>7. ASSUME NEW x \in Task, NEW c \in Call, NEW a \in Agents, NEW k \in MethodKinds,
             CallInline(x, c, a, k)
      PROVE  OuterNow(t)
  <2>1. Others({x}) /\ tasks[x].ctx.session
    BY <1>1, <1>7, CallInlineDoes, Zenon
  <2>2. x # t
    BY <2>1 DEF Outer
  <2> QED
    BY <2>1, <2>2, OuterOthers
<1>8. ASSUME NEW x \in Task, NEW u \in Task, NEW c \in Call, NEW a \in Agents,
             NEW k \in MethodKinds, CallPlan(x, u, c, a, k)
      PROVE  OuterNow(t)
  <2>1. /\ Others({x, u}) /\ tasks'[x].st = "wait" /\ ~Alive(u)
        /\ tasks'[x].ctx = Entered(tasks[x].ctx, c, a)
    BY <1>1, <1>8, CallPlanDoes DEF Newborn, FreeTask, Alive
  <2>2. Entered(tasks[t].ctx, c, a).session = tasks[t].ctx.session
    <3>1. tasks[t].ctx \in Context
      BY <1>2
    <3> QED
      BY <3>1, ContextType, Zenon
  <2>3. CASE x = t
    <3>1. tasks'[t].ctx.session = tasks[t].ctx.session
      BY <2>1, <2>2, <2>3
    <3> QED
      BY <2>1, <2>3, <3>1, OuterSame
  <2>4. u # t
    BY <2>1 DEF Outer
  <2> QED
    BY <2>1, <2>3, <2>4, OuterOthers
<1>9. ASSUME NEW u \in Task, StartFree(u) \/ StartLocked(u) \/ Granted(u) PROVE OuterNow(t)
  <2>1. Others({u}) /\ tasks[u].frames = <<>>
    BY <1>1, <1>9, StartFreeDoes, StartLockedDoes, GrantedDoes DEF Opens, Shaped
  <2> QED
    BY <2>1, OuterOthers DEF Outer
<1>10. ASSUME NEW u \in Task, NEW w, Others({u, w}), u # t, Wakes(u, w) PROVE OuterNow(t)
  <2>1. CASE w = t
    <3>1. tasks'[t].ctx.session = tasks[t].ctx.session /\ tasks'[t].st = "run"
      BY <1>10, <2>1 DEF Wakes, OneFrame
    <3> QED
      BY <3>1, OuterSame
  <2>2. CASE w # t
    BY <1>10, <2>2, OuterOthers
  <2> QED
    BY <2>1, <2>2
<1>11. ASSUME NEW u \in Task, PlanCancelled(u) PROVE OuterNow(t)
  <2>1. /\ Others({u, tasks[u].owner}) /\ Wakes(u, tasks[u].owner)
        /\ tasks[u].st \in {"new", "lock"}
    BY <1>1, <1>11, PlanCancelledDoes
  <2>2. u # t
    BY <1>1, <2>1 DEF Shaped, Outer
  <2> QED
    BY <1>10, <2>1, <2>2
<1>12. ASSUME NEW x \in Task, NestStrategy(x) PROVE OuterNow(t)
  <2>1. Others({x}) /\ Top(x).kind = "session"
    BY <1>1, <1>12, NestStrategyDoes, Zenon
  <2>2. x # t
    BY <1>3, <2>1
  <2> QED
    BY <2>1, <2>2, OuterOthers
<1>13. ASSUME NEW x \in Task, NEW o \in Outcome, CodeEnds(x, o) PROVE OuterNow(t)
  <2>1. Others({x}) /\ OneFrame(tasks[x], tasks'[x]) /\ tasks'[x].st = "run"
    BY <1>1, <1>13, CodeEndsDoes
  <2> QED
    BY <2>1, OuterSame, OuterOthers DEF OneFrame
<1>14. ASSUME NEW x \in Task, NEW o \in Outcome, NestedEnds(x, o) PROVE OuterNow(t)
  <2>1. Others({x}) /\ Top(x).kind = "nested"
    BY <1>1, <1>14, NestedEndsDoes
  <2>2. x # t
    BY <1>3, <2>1
  <2> QED
    BY <2>1, <2>2, OuterOthers
<1>15. ASSUME NEW x \in Task, NEW o \in Outcome, SessionEnds(x, o) PROVE OuterNow(t)
  <2>1. /\ Top(x).kind = "session"
        /\ \/ Others({x, tasks[x].owner}) /\ Wakes(x, tasks[x].owner)
           \/ Others({x})
    BY <1>1, <1>15, SessionEndsDoes, Zenon
  <2>2. x # t
    BY <1>3, <2>1
  <2> QED
    BY <1>10, <2>1, <2>2, OuterOthers
<1>16. ASSUME NEW x \in Task, Close(x) PROVE OuterNow(t)
  <2>1. Top(x).call \in Call
    BY <1>1, <1>16, CloseStay DEF Announced
  <2>2. Others({x}) /\ tasks'[x].st = "run" /\ tasks'[x].ctx = Restored(tasks[x].ctx, Top(x))
    BY <1>1, <1>16, <2>1, CloseDoes
  <2>3. Top(t) \in Frame
    <3>1. Len(tasks[t].frames) \in 1..Len(tasks[t].frames)
      BY <1>1, TasksType DEF Outer
    <3> QED
      BY <1>1, <3>1, TasksType DEF Top, Last
  <2>4. Restored(tasks[t].ctx, Top(t)).session = tasks[t].ctx.session
    BY <1>2, <1>3, <2>3, RestoredWrapper
  <2>5. CASE x = t
    <3>1. tasks'[t].ctx.session = tasks[t].ctx.session
      BY <2>2, <2>4, <2>5
    <3> QED
      BY <2>2, <2>5, <3>1, OuterSame
  <2> QED
    BY <2>2, <2>5, OuterOthers
<1>17. ASSUME NEW x \in Task, EndTask(x) PROVE OuterNow(t)
  BY <1>1, <1>17, EndTaskDoes, OuterOthers DEF Outer
<1>18. ASSUME NEW x \in Task, Cancel(x) PROVE OuterNow(t)
  BY <1>1, <1>18, CancelDoes, OuterSame
<1>19. QED
  BY <1>1, <1>4, <1>5, <1>6, <1>7, <1>8, <1>9, <1>11, <1>12, <1>13, <1>14, <1>15, <1>16, <1>17,
     <1>18, Steps

LEMMA SessionFreeStep == ASSUME IInv, Next PROVE SessionFree'
<1>1. /\ Typed /\ Typed' /\ Born /\ Shaped /\ Known /\ Queued /\ Awaiting /\ Kept /\ SessionFree
      /\ RootsStay /\ env' = env
  BY RootsStep, TypedStep, EnvStays DEF IInv
<1>2. ASSUME NEW u \in Task, Alive(u)', ~tasks'[u].base.session, tasks'[u].owner # Nobody,
             tasks'[u].plan # Nobody \/ Plain
      PROVE  \E t \in Task : t = tasks'[u].owner /\ OuterNow(t)
  <2>1. PICK t \in Task : t = tasks'[u].owner
    BY <1>1, <1>2 DEF Typed, TaskRec
  <2>2. CASE GoesOn(u)
    <3>1. Alive(u) /\ ~tasks[u].base.session /\ tasks[u].owner = t
          /\ (tasks[u].plan # Nobody \/ Plain)
      BY <1>2, <2>1, <2>2 DEF GoesOn, SameRoot
    <3>2. Alive(t) /\ ~tasks[t].ctx.session
      BY <1>1, <1>2, <2>1, <3>1 DEF SessionFree
    <3>3. tasks[t].frames # <<>>
      <4>1. CASE tasks[u].plan # Nobody
        BY <1>1, <3>1, <4>1 DEF Awaiting
      <4>2. CASE Plain
        <5>1. tasks[u].level \in 1..Len(tasks[t].frames)
          BY <1>1, <1>2, <2>1, <3>1, <4>2 DEF Kept
        <5>2. Len(<<>>) = 0
          BY EmptySeq
        <5> QED
          BY <5>1, <5>2
      <4> QED
        BY <3>1, <4>1, <4>2
    <3>4. ~Restart
      BY <1>1, <1>2, RestartDoes DEF Alive
    <3> QED
      BY <2>1, <3>2, <3>3, <3>4, OuterStep DEF Outer
  <2>3. CASE BornNow(u)
    <3>1. tasks[u].st = "free" /\ tasks'[u] # tasks[u]
      BY <1>2, <2>3 DEF BornNow, FreeTask, Alive
    <3>2. CASE tasks'[u].plan # Nobody
      <4>1. tasks'[t].st = "wait" /\ tasks'[u].base = tasks'[t].ctx
        BY <2>1, <3>1, <3>2, PlanStep DEF Planned
      <4> QED
        BY <1>2, <2>1, <4>1 DEF OuterNow, Alive
    <3>3. CASE tasks'[u].plan = Nobody
      <4>1. ~Arrive(u)
        BY <1>1, <1>2, ArriveDoes DEF Newborn
      <4>2. ASSUME NEW x \in Task, NEW c \in Call, NEW a \in Agents, NEW k \in MethodKinds
            PROVE  ~CallPlan(x, u, c, a, k)
        <5>1. c # Nobody
          BY DEF Call, Nobody
        <5> QED
          BY <1>1, <3>3, <5>1, CallPlanDoes DEF Newborn
      <4>3. PICK x \in Task : Spawn(x, u)
        BY <3>1, <4>1, <4>2, BirthStep
      <4>4. /\ Others({u}) /\ Newborn(u, x, "run", tasks[x].ctx, Nobody) /\ InBody(x)
        BY <1>1, <4>3, SpawnDoes
      <4>5. tasks'[x] = tasks[x] /\ x = t /\ tasks'[u].base = tasks[x].ctx /\ tasks[x].st = "run"
        BY <2>1, <4>4 DEF Others, Newborn, InBody, FreeTask
      <4> QED
        BY <1>2, <2>1, <4>5 DEF OuterNow, Alive
    <3> QED
      BY <3>2, <3>3
  <2>4. ~Unborn(u)
    BY <1>2 DEF Unborn, Alive
  <2> QED
    BY <1>1, <2>2, <2>3, <2>4 DEF RootsStay
<1>3. ASSUME NEW u \in Task, Alive(u)', ~tasks'[u].base.session, tasks'[u].owner # Nobody,
             tasks'[u].plan # Nobody \/ Plain'
      PROVE  (Alive(tasks[u].owner) /\ ~tasks[tasks[u].owner].ctx.session)'
  <2>1. PICK t \in Task : t = tasks'[u].owner /\ OuterNow(t)
    BY <1>1, <1>2, <1>3 DEF Plain
  <2> QED
    BY <2>1 DEF OuterNow, Alive
<1>4. QED
  BY <1>3 DEF SessionFree

Follower(cs, r) == \E p \in [0..Len(r.frames) -> Context] : Follows(r, cs, p)

LEMMA StandingSame ==
    ASSUME NEW cs, NEW x, NEW y, Standing(cs, x), y.stack = x.stack, y.agent = x.agent
    PROVE  Standing(cs, y)
BY DEF Standing

LEMMA StandingStays ==
    ASSUME CallsStay, NEW x \in Context, Standing(calls, x)
    PROVE  Standing(calls', x)
<1>1. x.stack \in Seq(Call)
  BY DEF Context
<1>2. \A i \in 1..Len(x.stack) : x.stack[i] \in Call
  BY <1>1, ElementOfSeq
<1>3. \A i \in 1..Len(x.stack) : Announced(x.stack[i])
  BY <1>2 DEF Standing, Announced
<1>4. QED
  BY <1>3 DEF Standing, CallsStay, Announced

LEMMA EnteredIs ==
    ASSUME NEW c \in Call, NEW ctx \in Context, NEW a \in Agents
    PROVE  Entered(ctx, c, a).stack = Append(ctx.stack, c) /\ Entered(ctx, c, a).agent = a
BY DEF Entered, Context

LEMMA StandingEntered ==
    ASSUME NEW cs, NEW x \in Context, Standing(cs, x), NEW c \in Call, NEW a \in Agents,
           cs[c].task # Nobody, cs[c].top = (x.agent = Nobody)
    PROVE  Standing(cs, Entered(x, c, a))
<1> DEFINE y == Entered(x, c, a)
<1>1. y.stack = Append(x.stack, c) /\ y.agent = a
  BY EnteredIs
<1>2. x.stack \in Seq(Call)
  BY DEF Context
<1>3. PICK n \in Nat : n = Len(x.stack) /\ (n = 0 <=> x.stack = <<>>)
  BY <1>2, LenProperties, EmptySeq
<1>4. Len(y.stack) = n + 1 /\ y.stack[n + 1] = c /\ \A i \in 1..n : y.stack[i] = x.stack[i]
  BY <1>1, <1>2, <1>3, AppendProperties
<1> HIDE DEF y
<1>5. y.agent # Nobody
  BY <1>1, ActorAssumption DEF Nobody
<1>6. y.stack # <<>>
  BY <1>1, <1>2, AppendProperties
<1>7. ASSUME NEW i \in 1..n + 1
      PROVE  cs[y.stack[i]].task # Nobody /\ (cs[y.stack[i]].top <=> i = 1)
  <2>1. CASE i \in 1..n
    BY <1>3, <1>4, <2>1 DEF Standing
  <2>2. CASE i = n + 1
    <3>1. i = 1 <=> n = 0
      BY <2>2
    <3>2. n = 0 <=> x.agent = Nobody
      BY <1>3 DEF Standing
    <3>3. y.stack[i] = c
      BY <1>4, <2>2
    <3> QED
      BY <3>1, <3>2, <3>3, Zenon
  <2> QED
    BY <2>1, <2>2
<1>8. Standing(cs, y)
  BY <1>4, <1>5, <1>6, <1>7 DEF Standing
<1>9. QED
  BY <1>8 DEF y

\* What the finally clause restores is what was there.
LEMMA RestoreAdded ==
    ASSUME NEW cs \in [Call -> CallRec], NEW x \in Context, NEW f \in Frame,
           f.session = x.session, f.agent = x.agent, f.kind = "nested" => f.session
    PROVE  Restored(AddedBy(cs, x, f), f) = x
<1>1. x.stack \in Seq(Call) /\ x.gens \in Seq(Call) /\ f.call \in Call
  BY DEF Context, Frame
<1>2. Front(Append(x.stack, f.call)) = x.stack /\ Front(Append(x.gens, f.call)) = x.gens
  BY <1>1, FrontAppend
<1> DEFINE y == AddedBy(cs, x, f)
<1>3. y \in Context
  BY AddedType
<1>4. CASE f.kind = "wrapper"
  <2>1. y = [x EXCEPT !.stack = Append(@, f.call), !.agent = cs[f.call].agent]
    BY <1>4 DEF AddedBy
  <2>2. Restored(y, f) = [y EXCEPT !.agent = f.agent, !.stack = Front(@)]
    BY <1>4 DEF Restored
  <2>3. y.stack = Append(x.stack, f.call) /\ y.session = x.session /\ y.gens = x.gens
    BY <2>1 DEF Context
  <2> HIDE DEF y
  <2>4. Restored(y, f) = [session |-> x.session, stack |-> x.stack, gens |-> x.gens, agent |-> x.agent]
    BY <1>2, <1>3, <2>2, <2>3 DEF Context
  <2> QED
    BY <2>4 DEF Context, y
<1>5. CASE f.kind # "wrapper"
  <2>1. y = [x EXCEPT !.gens = Append(@, f.call), !.session = TRUE]
    BY <1>5 DEF AddedBy
  <2>2. y.stack = x.stack /\ y.gens = Append(x.gens, f.call) /\ y.agent = x.agent /\ y.session
    BY <2>1 DEF Context
  <2> HIDE DEF y
  <2>3. CASE f.kind = "session"
    <3>1. Restored(y, f) = [y EXCEPT !.session = f.session, !.gens = Front(@)]
      BY <2>3 DEF Restored
    <3>2. Restored(y, f) = [session |-> x.session, stack |-> x.stack, gens |-> x.gens, agent |-> x.agent]
      BY <1>2, <1>3, <2>2, <3>1 DEF Context
    <3> QED
      BY <3>2 DEF Context, y
  <2>4. CASE f.kind = "nested"
    <3>1. Restored(y, f) = [y EXCEPT !.gens = Front(@)]
      BY <2>4 DEF Restored
    <3>2. Restored(y, f) = [session |-> y.session, stack |-> x.stack, gens |-> x.gens, agent |-> x.agent]
      BY <1>2, <1>3, <2>2, <3>1 DEF Context
    <3>3. y.session = TRUE /\ x.session = TRUE
      <4>1. x.session
        BY <2>4
      <4>2. x.session \in BOOLEAN /\ y.session \in BOOLEAN
        BY <1>3 DEF Context
      <4> QED
        BY <2>2, <4>1, <4>2, Zenon
    <3>4. Restored(y, f) = [session |-> x.session, stack |-> x.stack, gens |-> x.gens, agent |-> x.agent]
      BY <3>2, <3>3, Zenon
    <3> QED
      BY <3>4 DEF Context, y
  <2> QED
    BY <1>5, <2>3, <2>4 DEF Frame
<1>6. QED
  BY <1>4, <1>5

LEMMA FollowsStays ==
    ASSUME CallsStay, NEW r, Follower(calls, r),
           \A i \in 1..Len(r.frames) : Announced(r.frames[i].call)
    PROVE  Follower(calls', r)
<1>1. PICK p \in [0..Len(r.frames) -> Context] : Follows(r, calls, p)
  BY DEF Follower
<1>2. \A i \in 1..Len(r.frames) : AddedBy(calls', p[i - 1], r.frames[i]) = AddedBy(calls, p[i - 1], r.frames[i])
  <2>1. TAKE i \in 1..Len(r.frames)
  <2>2. calls'[r.frames[i].call].agent = calls[r.frames[i].call].agent
    BY DEF CallsStay, Announced
  <2> QED
    BY <2>2 DEF AddedBy
<1>3. \A i \in 0..Len(r.frames) : Standing(calls', p[i])
  BY <1>1, StandingStays DEF Follows
<1>4. Follows(r, calls', p)
  BY <1>1, <1>2, <1>3 DEF Follows
<1>5. QED
  BY <1>4 DEF Follower

LEMMA FollowsFlag ==
    ASSUME NEW cs, NEW r, NEW q, Follower(cs, r), OneFrame(r, q)
    PROVE  Follower(cs, q)
<1>1. PICK p \in [0..Len(r.frames) -> Context] : Follows(r, cs, p)
  BY DEF Follower
<1>2. \A i \in 1..Len(r.frames) :
         /\ AddedBy(cs, p[i - 1], q.frames[i]) = AddedBy(cs, p[i - 1], r.frames[i])
         /\ q.frames[i].session = r.frames[i].session /\ q.frames[i].agent = r.frames[i].agent
  BY DEF AddedBy, OneFrame
<1>3. Len(q.frames) = Len(r.frames) /\ q.base = r.base /\ q.ctx = r.ctx
  BY DEF OneFrame, SameRoot
<1>4. Follows(q, cs, p)
  BY <1>1, <1>2, <1>3 DEF Follows
<1>5. QED
  BY <1>3, <1>4 DEF Follower

LEMMA FollowsNone ==
    ASSUME NEW cs, NEW q, q.frames = <<>>, q.base = q.ctx, q.ctx \in Context, Standing(cs, q.ctx)
    PROVE  Follower(cs, q)
<1>1. Len(q.frames) = 0
  BY EmptySeq
<1> DEFINE p == [i \in 0..0 |-> q.ctx]
<1>2. p \in [0..0 -> Context] /\ p[0] = q.ctx /\ \A i \in 0..0 : p[i] = q.ctx
  OBVIOUS
<1> HIDE DEF p
<1>3. Follows(q, cs, p)
  BY <1>1, <1>2 DEF Follows
<1>4. QED
  BY <1>1, <1>2, <1>3 DEF Follower

LEMMA FollowsGrown ==
    ASSUME NEW cs, NEW r, NEW q, NEW f, Follower(cs, r), Grown(r, q, f), q.ctx \in Context,
           q.ctx = AddedBy(cs, r.ctx, f), f.session = r.ctx.session, f.agent = r.ctx.agent,
           Standing(cs, q.ctx)
    PROVE  Follower(cs, q)
<1>1. PICK p \in [0..Len(r.frames) -> Context] : Follows(r, cs, p)
  BY DEF Follower
<1>2. PICK n \in Nat : n = Len(r.frames) /\ Len(q.frames) = n + 1
  BY DEF Grown
<1> DEFINE g == [i \in 0..n + 1 |-> IF i = n + 1 THEN q.ctx ELSE p[i]]
<1>3. /\ g \in [0..n + 1 -> Context] /\ g[n + 1] = q.ctx /\ \A i \in 0..n : g[i] = p[i]
  BY <1>2
<1> HIDE DEF g
<1>4. g[0] = q.base
  BY <1>1, <1>2, <1>3 DEF Follows, Grown, SameRoot
<1>5. ASSUME NEW i \in 1..n + 1
      PROVE  /\ g[i] = AddedBy(cs, g[i - 1], q.frames[i])
             /\ q.frames[i].session = g[i - 1].session /\ q.frames[i].agent = g[i - 1].agent
  <2>1. CASE i \in 1..n
    <3>1. q.frames[i] = r.frames[i] /\ g[i] = p[i] /\ g[i - 1] = p[i - 1]
      BY <1>2, <1>3, <2>1 DEF Grown
    <3>2. /\ p[i] = AddedBy(cs, p[i - 1], r.frames[i])
          /\ r.frames[i].session = p[i - 1].session /\ r.frames[i].agent = p[i - 1].agent
      BY <1>1, <1>2, <2>1 DEF Follows
    <3> QED
      BY <3>1, <3>2
  <2>2. CASE i = n + 1
    <3>1. q.frames[i] = f /\ g[i] = q.ctx /\ g[i - 1] = p[n] /\ p[n] = r.ctx
      BY <1>1, <1>2, <1>3, <2>2 DEF Grown, Follows
    <3> QED
      BY <3>1
  <2> QED
    BY <2>1, <2>2
<1>6. \A i \in 0..n + 1 : Standing(cs, g[i])
  <2>1. \A i \in 0..n : Standing(cs, p[i])
    BY <1>1, <1>2 DEF Follows
  <2> QED
    BY <1>3, <2>1
<1>7. Follows(q, cs, g)
  BY <1>2, <1>3, <1>4, <1>5, <1>6 DEF Follows
<1>8. QED
  BY <1>2, <1>3, <1>7 DEF Follower

LEMMA FollowsShrunk ==
    ASSUME NEW cs \in [Call -> CallRec], NEW r, NEW q, Follower(cs, r), Shrunk(r, q),
           LET f == r.frames[Len(r.frames)]
           IN q.ctx = Restored(r.ctx, f) /\ (f.kind = "nested" => f.session)
    PROVE  Follower(cs, q)
<1>1. PICK p \in [0..Len(r.frames) -> Context] : Follows(r, cs, p)
  BY DEF Follower
<1>2. PICK n \in Nat \ {0} : n = Len(r.frames) /\ Len(q.frames) = n - 1
  BY DEF Shrunk
<1> DEFINE g == [i \in 0..n - 1 |-> p[i]]
<1>3. /\ g \in [0..n - 1 -> Context] /\ \A i \in 0..n - 1 : g[i] = p[i]
  BY <1>2
<1> HIDE DEF g
<1>4. q.ctx = p[n - 1]
  <2>1. /\ r.frames[n] \in Frame /\ p[n - 1] \in Context /\ r.ctx = p[n]
        /\ p[n] = AddedBy(cs, p[n - 1], r.frames[n])
        /\ r.frames[n].session = p[n - 1].session /\ r.frames[n].agent = p[n - 1].agent
    <3>1. r.frames[n] \in Frame
      BY <1>2 DEF Shrunk
    <3>2. n - 1 \in 0..n /\ n \in 1..n
      BY <1>2
    <3>3. p[n - 1] \in Context
      BY <1>2, <3>2
    <3> QED
      BY <1>1, <1>2, <3>1, <3>2, <3>3 DEF Follows
  <2>2. Restored(AddedBy(cs, p[n - 1], r.frames[n]), r.frames[n]) = p[n - 1]
    BY <1>2, <2>1, RestoreAdded
  <2> QED
    BY <1>2, <2>1, <2>2
<1>5. q.base = p[0] /\ \A i \in 1..n - 1 : q.frames[i] = r.frames[i]
  BY <1>1, <1>2 DEF Follows, Shrunk, SameRoot
<1>6. \A i \in 1..n - 1 :
         /\ p[i] = AddedBy(cs, p[i - 1], r.frames[i])
         /\ r.frames[i].session = p[i - 1].session /\ r.frames[i].agent = p[i - 1].agent
  BY <1>1, <1>2 DEF Follows
<1>7. \A i \in 1..n - 1 : g[i] = p[i] /\ g[i - 1] = p[i - 1]
  BY <1>3
<1>8. \A i \in 0..n - 1 : Standing(cs, g[i])
  BY <1>1, <1>2, <1>3 DEF Follows
<1>9. g[0] = q.base /\ g[n - 1] = q.ctx
  BY <1>3, <1>4, <1>5
<1>10. Follows(q, cs, g)
  BY <1>2, <1>5, <1>6, <1>7, <1>8, <1>9 DEF Follows
<1>11. QED
  BY <1>2, <1>3, <1>10 DEF Follower

LEMMA ContextStands ==
    ASSUME Typed, Paths, NEW t \in Task
    PROVE  Standing(calls, tasks[t].ctx) /\ Follower(calls, tasks[t])
<1>1. PICK n \in Nat : n = Len(tasks[t].frames)
  BY TasksType
<1>2. PICK p \in [0..n -> Context] : Follows(tasks[t], calls, p)
  BY <1>1 DEF Paths
<1>3. QED
  BY <1>1, <1>2 DEF Follows, Follower

PathOf(v) == Follower(calls', tasks'[v])

LEMMA PathHeld ==
    ASSUME Typed, Known, Paths, CallsStay, NEW v \in Task
    PROVE  /\ Follower(calls', tasks[v]) /\ Standing(calls', tasks[v].ctx)
           /\ Follower(calls, tasks[v])
<1>1. Standing(calls, tasks[v].ctx) /\ Follower(calls, tasks[v])
  BY ContextStands
<1>2. \A i \in 1..Len(tasks[v].frames) : Announced(tasks[v].frames[i].call)
  BY DEF Known
<1>3. Follower(calls', tasks[v])
  BY <1>1, <1>2, FollowsStays
<1>4. tasks[v].ctx \in Context
  BY TasksType
<1>5. Standing(calls', tasks[v].ctx)
  BY <1>1, <1>4, StandingStays
<1>6. QED
  BY <1>1, <1>3, <1>5

LEMMA PathSame ==
    ASSUME Typed, Known, Paths, CallsStay, NEW v \in Task, SameRoot(tasks[v], tasks'[v]),
           tasks'[v].ctx = tasks[v].ctx, tasks'[v].frames = tasks[v].frames
    PROVE  PathOf(v)
<1>1. Follower(calls', tasks[v]) /\ OneFrame(tasks[v], tasks[v])
  BY PathHeld, SameFrame
<1>2. PICK p \in [0..Len(tasks[v].frames) -> Context] : Follows(tasks[v], calls', p)
  BY <1>1 DEF Follower
<1>3. Follows(tasks'[v], calls', p)
  BY <1>2 DEF Follows, SameRoot
<1>4. QED
  BY <1>2, <1>3 DEF Follower, PathOf

LEMMA PathOthers ==
    ASSUME Typed, Known, Paths, CallsStay, NEW T, Others(T), NEW v \in Task, v \notin T
    PROVE  PathOf(v)
BY PathSame DEF Others, SameRoot

LEMMA PathNone ==
    ASSUME NEW v \in Task, tasks'[v].frames = <<>>, tasks'[v].base = tasks'[v].ctx,
           tasks'[v].ctx \in Context, Standing(calls', tasks'[v].ctx)
    PROVE  PathOf(v)
BY FollowsNone DEF PathOf

LEMMA OutsideStands == \A cs : Standing(cs, Outside)
<1>1. Outside.agent = Nobody /\ Outside.stack = <<>> /\ Len(<<>>) = 0
  BY FreshType, EmptySeq
<1>2. QED
  BY <1>1 DEF Standing

LEMMA PathEnds ==
    ASSUME NEW v \in Task, Ends(v)
    PROVE  PathOf(v)
<1>1. Outside \in Context
  BY FreshType
<1>2. QED
  BY <1>1, OutsideStands, PathNone DEF Ends

LEMMA PathFlag ==
    ASSUME Typed, Known, Paths, CallsStay, NEW v \in Task, OneFrame(tasks[v], tasks'[v])
    PROVE  PathOf(v)
<1>1. Follower(calls', tasks[v])
  BY PathHeld
<1>2. QED
  BY <1>1, FollowsFlag DEF PathOf

\* A wrapper is entered.
LEMMA PathEntered ==
    ASSUME Typed, Known, Paths, CallsStay, NEW t \in Task, NEW c \in Call, NEW a \in Agents,
           NEW k \in MethodKinds, Announce(t, c, a, k), NEW q,
           Grown(tasks[t], q, WrapperFrame(c, tasks[t].ctx)), q.ctx = Entered(tasks[t].ctx, c, a)
    PROVE  Follower(calls', q) /\ Standing(calls', q.ctx) /\ q.ctx \in Context
<1> DEFINE x == tasks[t].ctx
           f == WrapperFrame(c, x)
<1>1. /\ Follower(calls', tasks[t]) /\ Standing(calls', x) /\ x \in Context
  BY PathHeld, TasksType
<1>2. calls'[c].task = t /\ calls'[c].agent = a /\ calls'[c].top = (x.agent = Nobody)
  BY AnnounceFacts
<1>3. t # Nobody
  BY DEF Task, Nobody
<1>4. f.kind = "wrapper" /\ f.call = c /\ f.session = x.session /\ f.agent = x.agent
  BY DEF WrapperFrame
<1> HIDE DEF f, x
<1>5. Entered(x, c, a) \in Context
  BY <1>1, ContextType, Zenon
<1>6. AddedBy(calls', x, f) = Entered(x, c, a)
  <2>1. AddedBy(calls', x, f) = [x EXCEPT !.stack = Append(@, c), !.agent = a]
    BY <1>2, <1>4 DEF AddedBy
  <2> QED
    BY <2>1 DEF Entered
<1>7. Standing(calls', Entered(x, c, a))
  BY <1>1, <1>2, <1>3, StandingEntered
<1>8. q.ctx = Entered(x, c, a) /\ tasks[t].ctx = x /\ Grown(tasks[t], q, f)
  BY DEF x, f
<1>9. Follower(calls', q)
  BY <1>1, <1>4, <1>5, <1>6, <1>7, <1>8, FollowsGrown
<1>10. QED
  BY <1>5, <1>7, <1>8, <1>9

\* A session is opened.
LEMMA PathOpened ==
    ASSUME NEW r, NEW q, NEW c \in Call, NEW l \in BOOLEAN, NEW cs, Follower(cs, r),
           r.ctx \in Context, Standing(cs, r.ctx), Grown(r, q, SessionFrame(c, r.ctx, l)),
           q.ctx = InSession(r.ctx, c)
    PROVE  Follower(cs, q)
<1> DEFINE x == r.ctx
           f == SessionFrame(c, x, l)
<1>1. f.kind = "session" /\ f.call = c /\ f.session = x.session /\ f.agent = x.agent
  BY DEF SessionFrame
<1>2. x \in Context /\ Standing(cs, x) /\ Grown(r, q, f) /\ q.ctx = InSession(x, c)
  OBVIOUS
<1> HIDE DEF f, x
<1> DEFINE y == InSession(x, c)
<1>4. y \in Context /\ y.stack = x.stack /\ y.agent = x.agent
  <2>1. Append(x.stack, c) \in Seq(Call) /\ Append(x.gens, c) \in Seq(Call)
    BY <1>2, AppendProperties DEF Context
  <2> QED
    BY <1>2, <2>1 DEF InSession, Context
<1>5. AddedBy(cs, x, f) = y
  <2>1. AddedBy(cs, x, f) = [x EXCEPT !.gens = Append(@, c), !.session = TRUE]
    BY <1>1 DEF AddedBy
  <2>2. Append(x.gens, c) \in Seq(Call)
    BY <1>2, AppendProperties DEF Context
  <2> QED
    BY <1>2, <2>1, <2>2 DEF InSession, Context
<1>6. Standing(cs, y)
  BY <1>2, <1>4, StandingSame
<1> HIDE DEF y
<1>7. q.ctx = y /\ r.ctx = x
  BY <1>2 DEF x, y
<1>8. QED
  BY <1>1, <1>2, <1>4, <1>5, <1>6, <1>7, FollowsGrown

LEMMA PathsStep == ASSUME IInv, Next PROVE Paths'
<1> DEFINE Goal == \A v \in Task : PathOf(v)
<1>1. /\ Typed /\ Typed' /\ Shaped /\ Known /\ Queued /\ Awaiting /\ Paths /\ CallsStay
  BY TypedStep, CallsStep DEF IInv
<1>2. ASSUME NEW t \in Task, Others({t}), PathOf(t) PROVE Goal
  BY <1>1, <1>2, PathOthers
<1>3. ASSUME NEW t \in Task, NEW u \in Task, Others({t, u}), PathOf(t), PathOf(u) PROVE Goal
  BY <1>1, <1>3, PathOthers
<1>4. ASSUME NEW u \in Task, Arrive(u) PROVE Goal
  <2>1. Others({u}) /\ Newborn(u, Nobody, "run", Outside, Nobody)
    BY <1>1, <1>4, ArriveDoes
  <2>2. Outside \in Context
    BY FreshType
  <2>3. PathOf(u)
    BY <2>1, <2>2, OutsideStands, PathNone DEF Newborn
  <2> QED
    BY <1>2, <2>1, <2>3
<1>5. ASSUME NEW t \in Task, NEW u \in Task, Spawn(t, u) PROVE Goal
  <2>1. Others({u}) /\ Newborn(u, t, "run", tasks[t].ctx, Nobody)
    BY <1>1, <1>5, SpawnDoes
  <2>2. tasks[t].ctx \in Context /\ Standing(calls', tasks[t].ctx)
    BY <1>1, PathHeld, TasksType
  <2>3. PathOf(u)
    BY <2>1, <2>2, PathNone DEF Newborn
  <2> QED
    BY <1>2, <2>1, <2>3
<1>6. ASSUME NEW t \in Task, NEW c \in Call, NEW a \in Agents, NEW k \in MethodKinds,
             CallCode(t, c, a, k)
      PROVE  Goal
  <2>1. /\ Others({t}) /\ Grown(tasks[t], tasks'[t], WrapperFrame(c, tasks[t].ctx))
        /\ tasks'[t].ctx = Entered(tasks[t].ctx, c, a)
    BY <1>1, <1>6, CallCodeDoes
  <2>2. Announce(t, c, a, k)
    BY <1>6 DEF CallCode
  <2>3. PathOf(t)
    BY <1>1, <2>1, <2>2, PathEntered DEF PathOf
  <2> QED
    BY <1>2, <2>1, <2>3
<1>7. ASSUME NEW t \in Task, NEW c \in Call, NEW a \in Agents, NEW k \in MethodKinds,
             CallInline(t, c, a, k)
      PROVE  Goal
  <2>1. /\ Others({t})
        /\ \E r \in TaskRec :
              /\ Grown(tasks[t], r, WrapperFrame(c, tasks[t].ctx))
              /\ r.ctx = Entered(tasks[t].ctx, c, a)
              /\ Grown(r, tasks'[t], SessionFrame(c, r.ctx, FALSE))
              /\ tasks'[t].ctx = InSession(r.ctx, c)
    BY <1>1, <1>7, CallInlineDoes, Zenon
  <2>2. PICK r \in TaskRec :
              /\ Grown(tasks[t], r, WrapperFrame(c, tasks[t].ctx))
              /\ r.ctx = Entered(tasks[t].ctx, c, a)
              /\ Grown(r, tasks'[t], SessionFrame(c, r.ctx, FALSE))
              /\ tasks'[t].ctx = InSession(r.ctx, c)
    BY <2>1
  <2>3. Announce(t, c, a, k)
    BY <1>7 DEF CallInline
  <2>4. Follower(calls', r) /\ Standing(calls', r.ctx) /\ r.ctx \in Context
    BY <1>1, <2>2, <2>3, PathEntered
  <2>5. PathOf(t)
    BY <2>2, <2>4, PathOpened DEF PathOf
  <2> QED
    BY <1>2, <2>1, <2>5
<1>8. ASSUME NEW t \in Task, NEW u \in Task, NEW c \in Call, NEW a \in Agents,
             NEW k \in MethodKinds, CallPlan(t, u, c, a, k)
      PROVE  Goal
  <2>1. /\ Others({t, u}) /\ Grown(tasks[t], tasks'[t], WrapperFrame(c, tasks[t].ctx))
        /\ tasks'[t].ctx = Entered(tasks[t].ctx, c, a)
        /\ Newborn(u, t, "new", tasks'[t].ctx, c)
    BY <1>1, <1>8, CallPlanDoes
  <2>2. Announce(t, c, a, k)
    BY <1>8 DEF CallPlan
  <2>3. Follower(calls', tasks'[t]) /\ Standing(calls', tasks'[t].ctx) /\ tasks'[t].ctx \in Context
    BY <1>1, <2>1, <2>2, PathEntered
  <2>4. PathOf(u)
    BY <2>1, <2>3, PathNone DEF Newborn
  <2> QED
    BY <1>3, <2>1, <2>3, <2>4 DEF PathOf
<1>9. ASSUME NEW u \in Task, NEW l \in BOOLEAN, Opens(u, l) PROVE Goal
  <2>1. /\ Others({u}) /\ Grown(tasks[u], tasks'[u], SessionFrame(tasks[u].plan, tasks[u].ctx, l))
        /\ tasks[u].plan \in Call /\ tasks'[u].ctx = InSession(tasks[u].ctx, tasks[u].plan)
    BY <1>9 DEF Opens
  <2>2. Follower(calls', tasks[u]) /\ Standing(calls', tasks[u].ctx) /\ tasks[u].ctx \in Context
    BY <1>1, PathHeld, TasksType
  <2>3. PathOf(u)
    BY <2>1, <2>2, PathOpened DEF PathOf
  <2> QED
    BY <1>2, <2>1, <2>3
<1>10. ASSUME NEW u \in Task, StartFree(u) \/ Granted(u) PROVE Goal
  BY <1>1, <1>9, <1>10, StartFreeDoes, GrantedDoes
<1>11. ASSUME NEW u \in Task, StartLocked(u) PROVE Goal
  <2>1. \/ Opens(u, TRUE)
        \/ /\ Others({u}) /\ SameRoot(tasks[u], tasks'[u])
           /\ tasks'[u].frames = tasks[u].frames /\ tasks'[u].ctx = tasks[u].ctx
    BY <1>1, <1>11, StartLockedDoes
  <2>2. CASE /\ Others({u}) /\ SameRoot(tasks[u], tasks'[u])
             /\ tasks'[u].frames = tasks[u].frames /\ tasks'[u].ctx = tasks[u].ctx
    BY <1>1, <1>2, <2>2, PathSame
  <2> QED
    BY <1>9, <2>1, <2>2
<1>12. ASSUME NEW u \in Task, Ends(u), Wakes(u, tasks[u].owner), Others({u, tasks[u].owner})
       PROVE  Goal
  <2> DEFINE w == tasks[u].owner
  <2>1. w \in Task /\ OneFrame(tasks[w], tasks'[w])
    BY <1>12 DEF Wakes
  <2>2. PathOf(u) /\ PathOf(w)
    BY <1>1, <1>12, <2>1, PathEnds, PathFlag
  <2> QED
    BY <1>3, <1>12, <2>1, <2>2
<1>13. ASSUME NEW u \in Task, PlanCancelled(u) PROVE Goal
  BY <1>1, <1>12, <1>13, PlanCancelledDoes
<1>14. ASSUME NEW t \in Task, NestStrategy(t) PROVE Goal
  <2>1. /\ Others({t}) /\ tasks[t].frames # <<>> /\ Top(t).kind = "session"
        /\ \E r \in TaskRec :
              /\ OneFrame(tasks[t], r) /\ Grown(r, tasks'[t], NestedFrame(Top(t).call, r.ctx))
              /\ tasks'[t].ctx = [r.ctx EXCEPT !.gens = Append(@, Top(t).call)]
    BY <1>1, <1>14, NestStrategyDoes, Zenon
  <2>2. PICK r \in TaskRec :
              /\ OneFrame(tasks[t], r) /\ Grown(r, tasks'[t], NestedFrame(Top(t).call, r.ctx))
              /\ tasks'[t].ctx = [r.ctx EXCEPT !.gens = Append(@, Top(t).call)]
    BY <2>1
  <2>3. Follower(calls', tasks[t]) /\ Standing(calls', tasks[t].ctx) /\ tasks[t].ctx \in Context
    BY <1>1, PathHeld, TasksType
  <2>4. r.ctx = tasks[t].ctx /\ Follower(calls', r)
    BY <2>2, <2>3, FollowsFlag DEF OneFrame
  <2>5. tasks[t].ctx.session = TRUE
    <3>1. tasks[t].ctx.session
      BY <1>1, <2>1, TopSession
    <3>2. tasks[t].ctx.session \in BOOLEAN
      BY <2>3 DEF Context
    <3> QED
      BY <3>1, <3>2, Zenon
  <2> DEFINE x == tasks[t].ctx
             c == Top(t).call
             f == NestedFrame(c, x)
             y == [x EXCEPT !.gens = Append(@, c)]
  <2>6. c \in Call
    BY <1>1, <2>1, TopKnown DEF Announced
  <2>7. f.kind = "nested" /\ f.call = c /\ f.session = x.session /\ f.agent = x.agent
    <3>1. x \in Context /\ FALSE \in BOOLEAN
      BY <2>3
    <3> HIDE DEF x, c
    <3> QED
      BY <2>6, <3>1, FrameType
  <2>8. Grown(r, tasks'[t], f) /\ tasks'[t].ctx = y /\ r.ctx = x
    BY <2>2, <2>4
  <2>9. x \in Context /\ x.session = TRUE /\ Standing(calls', x)
    BY <2>3, <2>5
  <2> HIDE DEF x, c, f
  <2>10. Append(x.gens, c) \in Seq(Call)
    BY <2>6, <2>9, AppendProperties DEF Context
  <2>11. y \in Context /\ y.stack = x.stack /\ y.agent = x.agent
    BY <2>9, <2>10 DEF Context
  <2>12. AddedBy(calls', x, f) = y
    <3>1. AddedBy(calls', x, f) = [x EXCEPT !.gens = Append(@, c), !.session = TRUE]
      BY <2>7 DEF AddedBy
    <3> QED
      BY <2>9, <2>10, <3>1 DEF Context
  <2> HIDE DEF y
  <2>13. Standing(calls', y)
    BY <2>9, <2>11, StandingSame
  <2>14. PathOf(t)
    BY <2>4, <2>7, <2>8, <2>11, <2>12, <2>13, FollowsGrown DEF PathOf
  <2> QED
    BY <1>2, <2>1, <2>14
<1>15. ASSUME NEW t \in Task, NEW o \in Outcome, CodeEnds(t, o) PROVE Goal
  BY <1>1, <1>2, <1>15, CodeEndsDoes, PathFlag
\* What is popped is what had been added.
<1>16. ASSUME NEW t \in Task, NEW r, Shrunk(tasks[t], r), tasks[t].frames # <<>>,
              r.ctx = Restored(tasks[t].ctx, Top(t))
       PROVE  Follower(calls', r)
  <2>1. Top(t) = tasks[t].frames[Len(tasks[t].frames)]
    BY DEF Top, Last
  <2>2. Top(t).kind = "nested" => Top(t).session
    <3>1. Len(tasks[t].frames) \in 1..Len(tasks[t].frames)
      BY <1>16 DEF Shrunk
    <3> QED
      BY <1>1, <2>1, <3>1 DEF Shaped
  <2>3. calls' \in [Call -> CallRec] /\ Follower(calls', tasks[t])
    BY <1>1, PathHeld DEF Typed
  <2> QED
    BY <1>16, <2>1, <2>2, <2>3, FollowsShrunk
<1>17. ASSUME NEW t \in Task, NEW o \in Outcome, NestedEnds(t, o) PROVE Goal
  <2>1. /\ Others({t}) /\ MayEnd(t, o) /\ Shrunk(tasks[t], tasks'[t])
        /\ tasks'[t].ctx = Restored(tasks[t].ctx, Top(t))
    BY <1>1, <1>17, NestedEndsDoes
  <2> QED
    BY <1>2, <1>16, <2>1 DEF MayEnd, PathOf
<1>18. ASSUME NEW t \in Task, Close(t) PROVE Goal
  <2>1. Top(t).call \in Call /\ tasks[t].frames # <<>>
    BY <1>1, <1>18, CloseStay DEF Announced
  <2>2. /\ Others({t}) /\ Shrunk(tasks[t], tasks'[t])
        /\ tasks'[t].ctx = Restored(tasks[t].ctx, Top(t))
    BY <1>1, <1>18, <2>1, CloseDoes
  <2> QED
    BY <1>2, <1>16, <2>1, <2>2 DEF PathOf
<1>19. ASSUME NEW t \in Task, NEW o \in Outcome, SessionEnds(t, o) PROVE Goal
  <2>1. /\ MayEnd(t, o)
        /\ \/ Others({t, tasks[t].owner}) /\ Ends(t) /\ Wakes(t, tasks[t].owner)
           \/ /\ Others({t})
              /\ \E r \in TaskRec :
                    /\ Shrunk(tasks[t], r) /\ r.ctx = Restored(tasks[t].ctx, Top(t))
                    /\ OneFrame(r, tasks'[t])
    BY <1>1, <1>19, SessionEndsDoes, Zenon
  <2>2. CASE /\ Others({t})
             /\ \E r \in TaskRec :
                    /\ Shrunk(tasks[t], r) /\ r.ctx = Restored(tasks[t].ctx, Top(t))
                    /\ OneFrame(r, tasks'[t])
    <3>1. PICK r \in TaskRec : /\ Shrunk(tasks[t], r) /\ r.ctx = Restored(tasks[t].ctx, Top(t))
                               /\ OneFrame(r, tasks'[t])
      BY <2>2
    <3>2. Follower(calls', r)
      BY <1>16, <2>1, <3>1 DEF MayEnd
    <3>3. PathOf(t)
      BY <3>1, <3>2, FollowsFlag DEF PathOf
    <3> QED
      BY <1>2, <2>2, <3>3
  <2> QED
    BY <1>12, <2>1, <2>2
<1>20. ASSUME NEW t \in Task, EndTask(t) PROVE Goal
  BY <1>1, <1>2, <1>20, EndTaskDoes, PathEnds
<1>21. ASSUME NEW t \in Task, Cancel(t) PROVE Goal
  BY <1>1, <1>21, CancelDoes, PathSame
<1>22. ASSUME Restart PROVE Goal
  BY <1>1, <1>22, RestartDoes, PathSame
<1>23. Goal
  BY <1>1, <1>4, <1>5, <1>6, <1>7, <1>8, <1>10, <1>11, <1>13, <1>14, <1>15, <1>17, <1>18, <1>19,
     <1>20, <1>21, <1>22, Steps
<1>24. QED
  BY <1>23 DEF Paths, PathOf, Follower

\* The open wrappers of a task, now.
HasNow(v, c) == \E i \in 1..Len(tasks'[v].frames) :
                   tasks'[v].frames[i].kind = "wrapper" /\ tasks'[v].frames[i].call = c
WrappersKept(v) ==
    \A i \in 1..Len(tasks[v].frames) : Wrapper(v, i) =>
        /\ i \in 1..Len(tasks'[v].frames) /\ tasks'[v].frames[i].kind = "wrapper"
        /\ tasks'[v].frames[i].call = tasks[v].frames[i].call

LEMMA WrappersOthers ==
    ASSUME NEW T, Others(T), NEW v \in Task, v \notin T
    PROVE  WrappersKept(v)
BY DEF Others, WrappersKept, Wrapper

LEMMA WrappersFlag ==
    ASSUME NEW v, OneFrame(tasks[v], tasks'[v])
    PROVE  WrappersKept(v)
BY DEF OneFrame, WrappersKept, Wrapper

LEMMA WrappersGrown ==
    ASSUME NEW v, NEW r, NEW f, OneFrame(tasks[v], r), Grown(r, tasks'[v], f)
    PROVE  WrappersKept(v)
<1>1. PICK n \in Nat : n = Len(tasks[v].frames) /\ n = Len(r.frames) /\ Len(tasks'[v].frames) = n + 1
  BY DEF OneFrame, Grown
<1>2. \A i \in 1..n : /\ tasks'[v].frames[i] = r.frames[i] /\ r.frames[i].kind = tasks[v].frames[i].kind
                      /\ r.frames[i].call = tasks[v].frames[i].call /\ i \in 1..n + 1
  BY <1>1 DEF OneFrame, Grown
<1>3. QED
  BY <1>1, <1>2 DEF WrappersKept, Wrapper

LEMMA WrappersInline ==
    ASSUME NEW v, NEW r, NEW f, NEW g, Grown(tasks[v], r, f), Grown(r, tasks'[v], g)
    PROVE  WrappersKept(v)
<1>1. PICK n \in Nat : /\ n = Len(tasks[v].frames) /\ Len(r.frames) = n + 1
                       /\ Len(tasks'[v].frames) = n + 2
  BY DEF Grown
<1>2. \A i \in 1..n : i \in 1..n + 1 /\ i \in 1..n + 2
  OBVIOUS
<1>3. \A i \in 1..n : tasks'[v].frames[i] = tasks[v].frames[i]
  BY <1>1, <1>2 DEF Grown
<1>4. QED
  BY <1>1, <1>2, <1>3 DEF WrappersKept, Wrapper

LEMMA WrappersShrunk ==
    ASSUME NEW v, NEW r, Shrunk(tasks[v], r), OneFrame(r, tasks'[v]),
           tasks[v].frames[Len(tasks[v].frames)].kind # "wrapper"
    PROVE  WrappersKept(v)
<1>1. PICK n \in Nat \ {0} : n = Len(tasks[v].frames) /\ n - 1 = Len(r.frames)
  BY DEF Shrunk
<1>2. Len(tasks'[v].frames) = n - 1
  BY <1>1 DEF OneFrame
<1>3. \A i \in 1..n - 1 : /\ r.frames[i] = tasks[v].frames[i]
                          /\ tasks'[v].frames[i].kind = r.frames[i].kind
                          /\ tasks'[v].frames[i].call = r.frames[i].call
  BY <1>1 DEF OneFrame, Shrunk
<1>4. \A i \in 1..n : Wrapper(v, i) => i \in 1..n - 1
  BY <1>1 DEF Wrapper
<1>5. QED
  BY <1>1, <1>2, <1>3, <1>4 DEF WrappersKept, Wrapper

LEMMA WrappersNone ==
    ASSUME Typed, NEW v \in Task,
           tasks[v].frames = <<>> \/ (Len(tasks[v].frames) = 1 /\ tasks[v].frames[1].kind # "wrapper")
    PROVE  WrappersKept(v)
<1>1. \A i \in 1..Len(tasks[v].frames) : ~Wrapper(v, i)
  <2>1. CASE tasks[v].frames = <<>>
    BY <2>1, TasksType
  <2>2. CASE Len(tasks[v].frames) = 1 /\ tasks[v].frames[1].kind # "wrapper"
    BY <2>2 DEF Wrapper
  <2> QED
    BY <2>1, <2>2
<1>2. QED
  BY <1>1 DEF WrappersKept

\* Only the end of a wrapper takes it away.
LEMMA WrappersStep == ASSUME IInv, Next PROVE \A v \in Task : WrappersKept(v) \/ Close(v)
<1> DEFINE Goal == \A v \in Task : WrappersKept(v) \/ Close(v)
<1>1. Typed /\ Shaped /\ Known /\ Queued /\ Awaiting
  BY DEF IInv
<1>2. ASSUME NEW t \in Task, Others({t}), WrappersKept(t) PROVE Goal
  BY <1>2, WrappersOthers
<1>3. ASSUME NEW t \in Task, NEW u, Others({t, u}), WrappersKept(t), WrappersKept(u) PROVE Goal
  BY <1>3, WrappersOthers
<1>4. ASSUME NEW u \in Task, NEW t, NEW st, NEW x, NEW p, Newborn(u, t, st, x, p) PROVE WrappersKept(u)
  <2>1. tasks[u].frames = <<>>
    BY <1>1, <1>4 DEF Newborn, FreeTask, Shaped
  <2> QED
    BY <1>1, <2>1, WrappersNone
<1>5. ASSUME NEW u \in Task, Arrive(u) PROVE Goal
  BY <1>1, <1>2, <1>4, <1>5, ArriveDoes
<1>6. ASSUME NEW t \in Task, NEW u \in Task, Spawn(t, u) PROVE Goal
  BY <1>1, <1>2, <1>4, <1>6, SpawnDoes
<1>7. ASSUME NEW t \in Task, NEW c \in Call, NEW a \in Agents, NEW k \in MethodKinds,
             CallCode(t, c, a, k)
      PROVE  Goal
  <2>1. Others({t}) /\ Grown(tasks[t], tasks'[t], WrapperFrame(c, tasks[t].ctx))
    BY <1>1, <1>7, CallCodeDoes
  <2>2. WrappersKept(t)
    BY <2>1, SameFrame, WrappersGrown
  <2> QED
    BY <1>2, <2>1, <2>2
<1>8. ASSUME NEW t \in Task, NEW c \in Call, NEW a \in Agents, NEW k \in MethodKinds,
             CallInline(t, c, a, k)
      PROVE  Goal
  <2>1. /\ Others({t})
        /\ \E r \in TaskRec :
              /\ Grown(tasks[t], r, WrapperFrame(c, tasks[t].ctx))
              /\ Grown(r, tasks'[t], SessionFrame(c, r.ctx, FALSE))
    BY <1>1, <1>8, CallInlineDoes, Zenon
  <2>2. WrappersKept(t)
    BY <2>1, WrappersInline
  <2> QED
    BY <1>2, <2>1, <2>2
<1>9. ASSUME NEW t \in Task, NEW u \in Task, NEW c \in Call, NEW a \in Agents,
             NEW k \in MethodKinds, CallPlan(t, u, c, a, k)
      PROVE  Goal
  <2>1. /\ Others({t, u}) /\ Grown(tasks[t], tasks'[t], WrapperFrame(c, tasks[t].ctx))
        /\ Newborn(u, t, "new", tasks'[t].ctx, c)
    BY <1>1, <1>9, CallPlanDoes
  <2>2. WrappersKept(t)
    BY <2>1, SameFrame, WrappersGrown
  <2>3. WrappersKept(u)
    BY <1>4, <2>1
  <2> QED
    BY <1>3, <2>1, <2>2, <2>3
<1>10. ASSUME NEW u \in Task, StartFree(u) \/ StartLocked(u) \/ Granted(u) PROVE Goal
  <2>1. Others({u}) /\ tasks[u].frames = <<>>
    BY <1>1, <1>10, StartFreeDoes, StartLockedDoes, GrantedDoes DEF Opens, Shaped
  <2> QED
    BY <1>1, <1>2, <2>1, WrappersNone
<1>11. ASSUME NEW u \in Task, WrappersKept(u), Wakes(u, tasks[u].owner), Others({u, tasks[u].owner})
       PROVE  Goal
  <2> DEFINE w == tasks[u].owner
  <2>1. w \in Task /\ OneFrame(tasks[w], tasks'[w])
    BY <1>11 DEF Wakes
  <2>2. WrappersKept(w)
    BY <2>1, WrappersFlag
  <2> QED
    BY <1>3, <1>11, <2>1, <2>2
<1>12. ASSUME NEW u \in Task, PlanCancelled(u) PROVE Goal
  <2>1. /\ Others({u, tasks[u].owner}) /\ Wakes(u, tasks[u].owner)
        /\ tasks[u].st \in {"new", "lock"}
    BY <1>1, <1>12, PlanCancelledDoes
  <2>2. WrappersKept(u)
    BY <1>1, <2>1, WrappersNone DEF Shaped
  <2> QED
    BY <1>11, <2>1, <2>2
<1>13. ASSUME NEW t \in Task, NestStrategy(t) PROVE Goal
  <2>1. /\ Others({t})
        /\ \E r \in TaskRec :
              OneFrame(tasks[t], r) /\ Grown(r, tasks'[t], NestedFrame(Top(t).call, r.ctx))
    BY <1>1, <1>13, NestStrategyDoes, Zenon
  <2>2. WrappersKept(t)
    BY <2>1, WrappersGrown
  <2> QED
    BY <1>2, <2>1, <2>2
<1>14. ASSUME NEW t \in Task, NEW o \in Outcome, CodeEnds(t, o) PROVE Goal
  BY <1>1, <1>2, <1>14, CodeEndsDoes, WrappersFlag
<1>15. ASSUME NEW t \in Task, NEW o \in Outcome, NestedEnds(t, o) PROVE Goal
  <2>1. Others({t}) /\ MayEnd(t, o) /\ Top(t).kind = "nested" /\ Shrunk(tasks[t], tasks'[t])
    BY <1>1, <1>15, NestedEndsDoes
  <2>2. tasks[t].frames[Len(tasks[t].frames)].kind = "nested"
    BY <1>1, <2>1, EndingFacts
  <2>3. WrappersKept(t)
    BY <2>1, <2>2, SameFrame, WrappersShrunk
  <2> QED
    BY <1>2, <2>1, <2>3
<1>16. ASSUME NEW t \in Task, NEW o \in Outcome, SessionEnds(t, o) PROVE Goal
  <2>1. /\ MayEnd(t, o) /\ Top(t).kind = "session"
        /\ \/ /\ Len(tasks[t].frames) = 1
              /\ Others({t, tasks[t].owner}) /\ Wakes(t, tasks[t].owner)
           \/ /\ Others({t})
              /\ \E r \in TaskRec : Shrunk(tasks[t], r) /\ OneFrame(r, tasks'[t])
    BY <1>1, <1>16, SessionEndsDoes, Zenon
  <2>2. tasks[t].frames[Len(tasks[t].frames)].kind = "session"
    BY <1>1, <2>1, EndingFacts
  <2>3. WrappersKept(t)
    <3>1. CASE Len(tasks[t].frames) = 1
      BY <1>1, <2>2, <3>1, WrappersNone
    <3>2. CASE \E r \in TaskRec : Shrunk(tasks[t], r) /\ OneFrame(r, tasks'[t])
      BY <2>2, <3>2, WrappersShrunk
    <3> QED
      BY <2>1, <3>1, <3>2
  <2> QED
    BY <1>2, <1>11, <2>1, <2>3
<1>17. ASSUME NEW t \in Task, Close(t) PROVE Goal
  <2>1. Top(t).call \in Call
    BY <1>1, <1>17, CloseStay DEF Announced
  <2>2. Others({t})
    BY <1>1, <1>17, <2>1, CloseDoes
  <2> QED
    BY <1>17, <2>2, WrappersOthers
<1>18. ASSUME NEW t \in Task, EndTask(t) PROVE Goal
  BY <1>1, <1>2, <1>18, EndTaskDoes, WrappersNone
<1>19. ASSUME NEW t \in Task, Cancel(t) PROVE Goal
  BY <1>1, <1>19, CancelDoes DEF WrappersKept, Wrapper
<1>20. ASSUME Restart PROVE Goal
  BY <1>1, <1>20, RestartDoes DEF WrappersKept, Wrapper
<1>21. QED
  BY <1>1, <1>5, <1>6, <1>7, <1>8, <1>9, <1>10, <1>12, <1>13, <1>14, <1>15, <1>16, <1>17, <1>18,
     <1>19, <1>20, Steps

\* How a call comes to its outcome.
CallSame(c) == calls'[c] = calls[c]
CallMade(c) == /\ calls[c].task = Nobody /\ calls'[c].out = "open"
               /\ \E t \in Task : calls'[c].task = t /\ HasNow(t, c)
CallOver(c) == /\ calls'[c].out # "open"
               /\ \E t \in Task : Close(t) /\ c = Top(t).call /\ calls[c].task = t

LEMMA CallMadeFacts ==
    ASSUME Typed, NEW t \in Task, NEW d \in Call, NEW a \in Agents, NEW k \in MethodKinds,
           Announce(t, d, a, k), NEW r, Grown(tasks[t], r, WrapperFrame(d, tasks[t].ctx)),
           NEW f, Grown(r, tasks'[t], f) \/ tasks'[t] = r, NEW c \in Call
    PROVE  CallSame(c) \/ CallMade(c)
<1>1. /\ calls[d].task = Nobody /\ calls'[d].task = t /\ calls'[d].out = "open"
      /\ \A e \in Call : e # d => calls'[e] = calls[e]
  BY AnnounceFacts
<1>2. PICK n \in Nat : n = Len(tasks[t].frames) /\ Len(r.frames) = n + 1
  BY DEF Grown
<1>3. r.frames[n + 1] = WrapperFrame(d, tasks[t].ctx)
  BY <1>2 DEF Grown
<1>4. n + 1 \in 1..Len(tasks'[t].frames) /\ tasks'[t].frames[n + 1] = r.frames[n + 1]
  <2>1. CASE tasks'[t] = r
    BY <1>2, <2>1
  <2>2. CASE Grown(r, tasks'[t], f)
    <3>1. Len(tasks'[t].frames) = n + 2 /\ n + 1 \in 1..n + 1 /\ n + 1 \in 1..n + 2
      BY <1>2, <2>2 DEF Grown
    <3> QED
      BY <1>2, <2>2, <3>1 DEF Grown
  <2> QED
    BY <2>1, <2>2
<1>5. HasNow(t, d)
  BY <1>3, <1>4 DEF HasNow, WrapperFrame
<1>6. QED
  BY <1>1, <1>5 DEF CallSame, CallMade

LEMMA OutStep == ASSUME IInv, Next, NEW c \in Call PROVE CallSame(c) \/ CallMade(c) \/ CallOver(c)
<1>1. Typed /\ Shaped /\ Known /\ Queued /\ Awaiting
  BY DEF IInv
<1>2. ASSUME UNCHANGED calls PROVE CallSame(c)
  BY <1>2 DEF CallSame
<1>3. ASSUME NEW t \in Task, NEW d \in Call, NEW a \in Agents, NEW k \in MethodKinds,
             CallCode(t, d, a, k)
      PROVE  CallSame(c) \/ CallMade(c)
  <2>1. Grown(tasks[t], tasks'[t], WrapperFrame(d, tasks[t].ctx)) /\ Announce(t, d, a, k)
    BY <1>1, <1>3, CallCodeDoes DEF CallCode
  <2> QED
    BY <1>1, <2>1, CallMadeFacts
<1>4. ASSUME NEW t \in Task, NEW d \in Call, NEW a \in Agents, NEW k \in MethodKinds,
             CallInline(t, d, a, k)
      PROVE  CallSame(c) \/ CallMade(c)
  <2>1. \E r \in TaskRec :
              /\ Grown(tasks[t], r, WrapperFrame(d, tasks[t].ctx))
              /\ Grown(r, tasks'[t], SessionFrame(d, r.ctx, FALSE))
    BY <1>1, <1>4, CallInlineDoes, Zenon
  <2>2. Announce(t, d, a, k)
    BY <1>4 DEF CallInline
  <2> QED
    BY <1>1, <2>1, <2>2, CallMadeFacts
<1>5. ASSUME NEW t \in Task, NEW u \in Task, NEW d \in Call, NEW a \in Agents,
             NEW k \in MethodKinds, CallPlan(t, u, d, a, k)
      PROVE  CallSame(c) \/ CallMade(c)
  <2>1. Grown(tasks[t], tasks'[t], WrapperFrame(d, tasks[t].ctx)) /\ Announce(t, d, a, k)
    BY <1>1, <1>5, CallPlanDoes DEF CallPlan
  <2> QED
    BY <1>1, <2>1, CallMadeFacts
<1>6. ASSUME NEW t \in Task, Close(t) PROVE CallSame(c) \/ CallOver(c)
  <2>1. Top(t).call \in Call /\ tasks[t].frames # <<>>
    BY <1>1, <1>6, CloseStay DEF Announced
  <2>2. /\ \A d \in Call : d # Top(t).call => calls'[d] = calls[d]
        /\ calls'[Top(t).call].out # "open" /\ Top(t).out # "open"
        /\ Top(t) = tasks[t].frames[Len(tasks[t].frames)]
    BY <1>1, <1>6, <2>1, CloseDoes
  <2>3. Top(t).kind = "wrapper"
    <3>1. Len(tasks[t].frames) \in 1..Len(tasks[t].frames)
      BY <1>1, <2>1, TasksType
    <3> QED
      BY <1>1, <2>2, <3>1 DEF Shaped
  <2>4. calls[Top(t).call].task = t
    BY <1>1, <2>1, <2>3, TopKnown
  <2> QED
    BY <1>6, <2>2, <2>4 DEF CallSame, CallOver
<1>7. QED
  BY <1>1, <1>2, <1>3, <1>4, <1>5, <1>6, Steps
     DEF Arrive, Spawn, StartFree, StartLocked, Granted, PlanCancelled, NestStrategy, CodeEnds,
         NestedEnds, SessionEnds, EndTask, Cancel, Restart

\* The wrapper that ends is the only one of its call, and is innermost.
LEMMA ClosedIs ==
    ASSUME IInv, NEW t \in Task, Close(t)
    PROVE  /\ Top(t).call \in Call /\ calls[Top(t).call].task = t
           /\ Len(tasks[t].frames) \in Nat \ {0} /\ Wrapper(t, Len(tasks[t].frames))
           /\ Top(t) = tasks[t].frames[Len(tasks[t].frames)] /\ Top(t).out # "open"
           /\ Shrunk(tasks[t], tasks'[t]) /\ Others({t})
           /\ \A i \in 1..Len(tasks[t].frames) - 1 :
                 ~(Wrapper(t, i) /\ tasks[t].frames[i].call = Top(t).call)
<1>1. Typed /\ Shaped /\ Known
  BY DEF IInv
<1>2. Top(t).call \in Call /\ tasks[t].frames # <<>>
  BY <1>1, CloseStay DEF Announced
<1>3. /\ Top(t).out # "open" /\ Top(t) = tasks[t].frames[Len(tasks[t].frames)]
      /\ Shrunk(tasks[t], tasks'[t]) /\ Others({t})
  BY <1>1, <1>2, CloseDoes
<1>4. PICK n \in Nat \ {0} : n = Len(tasks[t].frames)
  BY <1>3 DEF Shrunk
<1>5. Wrapper(t, n)
  BY <1>1, <1>3, <1>4 DEF Shaped, Wrapper
<1>6. calls[Top(t).call].task = t
  BY <1>1, <1>2, <1>3, <1>4, <1>5, TopKnown DEF Wrapper
<1>7. ASSUME NEW i \in 1..n - 1, Wrapper(t, i), tasks[t].frames[i].call = Top(t).call
      PROVE  FALSE
  <2>1. i \in 1..n /\ n \in 1..n /\ i # n
    OBVIOUS
  <2> QED
    BY <1>1, <1>3, <1>4, <1>5, <1>7, <2>1 DEF Known
<1>8. QED
  BY <1>2, <1>3, <1>4, <1>5, <1>6, <1>7

LEMMA OpenCallsStep == ASSUME IInv, Next PROVE OpenCalls'
<1>1. /\ Typed /\ Typed' /\ Known /\ Known' /\ OpenCalls /\ FramesStay /\ CallsStay
  BY TypedStep, KnownStep, FramesStep, CallsStep DEF IInv
<1>2. ASSUME NEW t \in Task, NEW i \in 1..Len(tasks'[t].frames), Wrapper(t, i)'
      PROVE  calls'[tasks'[t].frames[i].call].out = "open"
  <2> DEFINE c == tasks'[t].frames[i].call
  <2>1. c \in Call /\ calls'[c].task = t
    BY <1>1, <1>2 DEF Known, Announced, Wrapper
  <2> HIDE DEF c
  <2>2. CASE FrameStays(t, i)
    <3>1. i \in 1..Len(tasks[t].frames) /\ Wrapper(t, i) /\ tasks[t].frames[i].call = c
      BY <1>2, <2>2 DEF FrameStays, Wrapper, c
    <3>2. calls[c].out = "open" /\ calls[c].task # Nobody
      BY <1>1, <3>1 DEF OpenCalls, Known, Announced
    <3>3. ASSUME NEW x \in Task, Close(x), c = Top(x).call, calls[c].task = x PROVE FALSE
      <4>1. x = t
        BY <1>1, <3>1, <3>3 DEF Known
      <4>2. PICK n \in Nat \ {0} : n = Len(tasks[x].frames)
        BY <3>3, ClosedIs
      <4>3. Len(tasks'[x].frames) = n - 1
        BY <3>3, <4>2, ClosedIs DEF Shrunk
      <4>4. \A j \in 1..Len(tasks[x].frames) - 1 :
                ~(Wrapper(x, j) /\ tasks[x].frames[j].call = Top(x).call)
        BY <3>3, ClosedIs
      <4>5. i \in 1..n - 1
        BY <4>1, <4>3
      <4> QED
        BY <3>1, <3>3, <4>1, <4>2, <4>4, <4>5
    <3>4. CallSame(c) \/ CallMade(c) \/ CallOver(c)
      BY <2>1, OutStep
    <3>5. CallSame(c)
      BY <3>2, <3>3, <3>4 DEF CallMade, CallOver
    <3> QED
      BY <3>2, <3>5 DEF CallSame, c
  <2>3. CASE FrameComes(t, i)
    <3>1. calls[c].task = Nobody
      BY <1>2, <2>3 DEF FrameComes, Wrapper, c
    <3>2. t # Nobody
      BY DEF Task, Nobody
    <3>3. CallSame(c) \/ CallMade(c) \/ CallOver(c)
      BY <2>1, OutStep
    <3>4. ~CallSame(c)
      BY <2>1, <3>1, <3>2 DEF CallSame
    <3>5. ~CallOver(c)
      BY <3>1, <3>2 DEF CallOver, Task, Nobody
    <3> QED
      BY <3>3, <3>4, <3>5 DEF CallMade, c
  <2> QED
    BY <1>1, <2>2, <2>3 DEF FramesStay, FramesOf
<1>3. ASSUME NEW c \in Call, calls'[c].task # Nobody, calls'[c].out = "open"
      PROVE  \E t \in Task : t = calls'[c].task /\ HasNow(t, c)
  <2>1. CASE CallSame(c)
    <3>1. Announced(c) /\ calls[c].out = "open" /\ calls'[c].task = calls[c].task
      BY <1>3, <2>1 DEF CallSame, Announced
    <3>2. PICK t \in Task : t = calls[c].task
      BY <1>1, <3>1 DEF Typed, CallRec, Announced
    <3>3. PICK i \in 1..Len(tasks[t].frames) : Wrapper(t, i) /\ tasks[t].frames[i].call = c
      BY <1>1, <3>1, <3>2 DEF OpenCalls
    <3>4. CASE WrappersKept(t)
      BY <3>1, <3>2, <3>3, <3>4 DEF WrappersKept, HasNow
    <3>5. CASE Close(t)
      <4>1. c # Top(t).call
        <5>1. ASSUME c = Top(t).call PROVE FALSE
          <6>1. Top(t).call \in Call /\ Shaped
            BY <3>5, ClosedIs DEF IInv
          <6>2. calls'[Top(t).call].out # "open"
            BY <1>1, <3>5, <6>1, CloseDoes
          <6> QED
            BY <1>3, <5>1, <6>2
        <5> QED
          BY <5>1
      <4>2. PICK n \in Nat \ {0} : n = Len(tasks[t].frames)
        BY <3>5, ClosedIs
      <4>3. i \in 1..n - 1
        <5>1. i # n
          BY <3>3, <3>5, <4>1, <4>2, ClosedIs
        <5> QED
          BY <4>2, <5>1
      <4>4. Shrunk(tasks[t], tasks'[t])
        BY <3>5, ClosedIs
      <4>5. Len(tasks'[t].frames) = n - 1 /\ tasks'[t].frames[i] = tasks[t].frames[i]
        BY <4>2, <4>3, <4>4 DEF Shrunk
      <4> QED
        BY <3>1, <3>2, <3>3, <4>3, <4>5 DEF HasNow, Wrapper
    <3> QED
      BY <3>4, <3>5, WrappersStep
  <2>2. CASE CallMade(c)
    BY <2>2 DEF CallMade
  <2>3. ~CallOver(c)
    BY <1>3 DEF CallOver
  <2> QED
    BY <2>1, <2>2, <2>3, OutStep
<1>4. ASSUME NEW c \in Call, calls'[c].task # Nobody, calls'[c].out = "open"
      PROVE  \E i \in 1..Len(tasks'[calls'[c].task].frames) :
                /\ tasks'[calls'[c].task].frames[i].kind = "wrapper"
                /\ tasks'[calls'[c].task].frames[i].call = c
  <2>1. PICK t \in Task : t = calls'[c].task /\ HasNow(t, c)
    BY <1>3, <1>4
  <2> QED
    BY <2>1 DEF HasNow
<1>5. (\A t \in Task : \A i \in 1..Len(tasks[t].frames) :
          Wrapper(t, i) => calls[tasks[t].frames[i].call].out = "open")'
  BY <1>2 DEF Wrapper
<1>6. (\A c \in Call : Announced(c) /\ calls[c].out = "open" =>
          \E i \in 1..Len(tasks[calls[c].task].frames) :
              Wrapper(calls[c].task, i) /\ tasks[calls[c].task].frames[i].call = c)'
  BY <1>4 DEF Wrapper, Announced
<1>7. QED
  BY <1>5, <1>6 DEF OpenCalls

LEMMA ListedAppend ==
    ASSUME NEW s \in Seq(Call), NEW d \in Call, NEW c
    PROVE  Listed(c, Append(s, d)) <=> Listed(c, s) \/ c = d
<1> DEFINE q == Append(s, d)
<1>1. PICK n \in Nat : n = Len(s)
  BY LenProperties
<1>2. Len(q) = n + 1 /\ q[n + 1] = d /\ \A i \in 1..n : q[i] = s[i]
  BY <1>1, AppendProperties
<1> HIDE DEF q
<1>3. ASSUME Listed(c, q) PROVE Listed(c, s) \/ c = d
  <2>1. PICK i \in 1..n + 1 : q[i] = c
    BY <1>2, <1>3 DEF Listed
  <2>2. CASE i \in 1..n
    BY <1>1, <1>2, <2>1, <2>2 DEF Listed
  <2>3. CASE i = n + 1
    BY <1>2, <2>1, <2>3
  <2> QED
    BY <2>2, <2>3
<1>4. ASSUME Listed(c, s) PROVE Listed(c, q)
  <2>1. PICK i \in 1..n : s[i] = c
    BY <1>1, <1>4 DEF Listed
  <2>2. i \in 1..n + 1
    OBVIOUS
  <2> QED
    BY <1>2, <2>1, <2>2 DEF Listed
<1>5. ASSUME c = d PROVE Listed(c, q)
  <2>1. n + 1 \in 1..n + 1
    OBVIOUS
  <2> QED
    BY <1>2, <1>5, <2>1 DEF Listed
<1>6. QED
  BY <1>3, <1>4, <1>5 DEF q

\* An id on the stack was inherited, or is that of a wrapper of the task's own.
LEMMA PathListed ==
    ASSUME Typed, NEW t \in Task, NEW p \in [0..Len(tasks[t].frames) -> Context],
           Follows(tasks[t], calls, p), NEW k \in 0..Len(tasks[t].frames), NEW c \in Call,
           Listed(c, p[k].stack)
    PROVE  Listed(c, tasks[t].base.stack) \/ Own(t, c, k)
<1>1. PICK n \in Nat : n = Len(tasks[t].frames)
  BY TasksType
<1> DEFINE S == {i \in 0..n : /\ Listed(c, p[i].stack) /\ ~Listed(c, tasks[t].base.stack)
                              /\ ~Own(t, c, i)}
<1>2. CASE S # {}
  <2>1. S \subseteq Nat
    OBVIOUS
  <2>2. PICK i \in S : \A j \in S : i <= j
    BY <1>2, <2>1, LeastNat, Zenon
  <2>3. /\ i \in 0..n /\ Listed(c, p[i].stack) /\ ~Listed(c, tasks[t].base.stack)
        /\ ~Own(t, c, i)
    OBVIOUS
  <2>4. i \in 1..n /\ i - 1 \in 0..n
    <3>1. i # 0
      BY <1>1, <2>3 DEF Follows
    <3> QED
      BY <2>3, <3>1
  <2>5. ~(i - 1 \in S)
    BY <2>2, <2>4
  <2>6. ~Listed(c, p[i - 1].stack) \/ Own(t, c, i - 1)
    BY <2>3, <2>4, <2>5
  <2>7. ~Own(t, c, i - 1)
    <3>1. \A j \in 1..i - 1 : j \in 1..i
      BY <2>4
    <3> QED
      BY <2>3, <3>1 DEF Own
  <2> DEFINE f == tasks[t].frames[i]
             x == p[i - 1]
  <2>8. p[i] = AddedBy(calls, x, f) /\ f \in Frame /\ x \in Context /\ calls \in [Call -> CallRec]
    BY <1>1, <2>4, TasksType DEF Follows, Typed
  <2> HIDE DEF x
  <2>10. CASE f.kind = "wrapper"
    <3>1. x.stack \in Seq(Call) /\ f.call \in Call /\ Wrapper(t, i)
      BY <2>8, <2>10 DEF Context, Frame, Wrapper
    <3>2. p[i].stack = Append(x.stack, f.call)
      <4> HIDE DEF f
      <4> QED
        BY <2>8, <2>10, AddedType
    <3>3. c = f.call
      BY <2>3, <2>6, <2>7, <3>1, <3>2, ListedAppend DEF x
    <3>4. i \in 1..i
      BY <2>4
    <3> QED
      BY <2>3, <3>1, <3>3, <3>4 DEF Own
  <2>11. CASE f.kind # "wrapper"
    <3>1. p[i].stack = x.stack
      <4> HIDE DEF f
      <4> QED
        BY <2>8, <2>11, AddedType
    <3> QED
      BY <2>3, <2>6, <2>7, <3>1 DEF x
  <2> QED
    BY <2>10, <2>11
<1>3. CASE S = {}
  BY <1>1, <1>3
<1>4. QED
  BY <1>2, <1>3

\* The stack before the innermost wrapper was entered.
LEMMA CloseStack ==
    ASSUME IInv, NEW t \in Task, Close(t)
    PROVE  \E s \in Seq(Call) :
              /\ tasks[t].ctx.stack = Append(s, Top(t).call) /\ tasks'[t].ctx.stack = s
              /\ \A c \in Call : Listed(c, s) => Listed(c, tasks[t].base.stack) \/ (c # Top(t).call /\ calls[c].task = t)
<1>1. Typed /\ Shaped /\ Known /\ Paths
  BY DEF IInv
<1>2. /\ Top(t).call \in Call /\ Wrapper(t, Len(tasks[t].frames))
      /\ Top(t) = tasks[t].frames[Len(tasks[t].frames)]
      /\ \A i \in 1..Len(tasks[t].frames) - 1 :
            ~(Wrapper(t, i) /\ tasks[t].frames[i].call = Top(t).call)
  BY ClosedIs
<1>3. PICK n \in Nat \ {0} : n = Len(tasks[t].frames)
  BY ClosedIs
<1>4. PICK p \in [0..n -> Context] : Follows(tasks[t], calls, p)
  BY <1>1, <1>3 DEF Paths
<1>5. n \in 1..n /\ n - 1 \in 0..n
  OBVIOUS
<1> DEFINE x == p[n - 1]
           f == tasks[t].frames[n]
<1>6. /\ x \in Context /\ f \in Frame /\ tasks[t].ctx = AddedBy(calls, x, f)
      /\ f.session = x.session /\ f.agent = x.agent /\ f.kind = "wrapper" /\ f = Top(t)
      /\ calls \in [Call -> CallRec]
  BY <1>1, <1>2, <1>3, <1>4, <1>5, TasksType DEF Follows, Wrapper, Typed
<1>7. tasks'[t].ctx = Restored(tasks[t].ctx, Top(t))
  BY <1>1, <1>2, CloseDoes
<1>8. ASSUME NEW c \in Call, Listed(c, x.stack)
      PROVE  Listed(c, tasks[t].base.stack) \/ (c # Top(t).call /\ calls[c].task = t)
  <2>1. Listed(c, tasks[t].base.stack) \/ Own(t, c, n - 1)
    BY <1>1, <1>3, <1>4, <1>5, <1>8, PathListed
  <2>2. ASSUME Own(t, c, n - 1) PROVE c # Top(t).call /\ calls[c].task = t
    <3>1. PICK i \in 1..n - 1 : Wrapper(t, i) /\ tasks[t].frames[i].call = c
      BY <2>2 DEF Own
    <3>2. i \in 1..n
      OBVIOUS
    <3>3. calls[c].task = t
      BY <1>1, <1>3, <3>1, <3>2 DEF Known
    <3>4. c # Top(t).call
      BY <1>2, <1>3, <3>1
    <3> QED
      BY <3>3, <3>4
  <2> QED
    BY <2>1, <2>2
<1>9. x.stack \in Seq(Call)
  BY <1>6 DEF Context
<1> HIDE DEF x, f
<1>10. tasks[t].ctx.stack = Append(x.stack, Top(t).call)
  BY <1>6, AddedType
<1>11. tasks'[t].ctx.stack = x.stack
  <2>1. f.kind = "nested" => f.session
    BY <1>6
  <2>2. Restored(AddedBy(calls, x, f), f) = x
    BY <1>6, <2>1, RestoreAdded
  <2> QED
    BY <1>6, <1>7, <2>2
<1>12. QED
  BY <1>8, <1>9, <1>10, <1>11

\* How the call stack of a task that lives on moves.
StackSame(v) == tasks'[v].ctx.stack = tasks[v].ctx.stack
StackPushed(v) == \E c \in Call :
    /\ calls[c].task = Nobody /\ calls'[c].task = v /\ Len(tasks[v].ctx.stack) < MaxDepth
    /\ tasks'[v].ctx.stack = Append(tasks[v].ctx.stack, c)
StackHanded(v) == /\ ~Alive(v)
                  /\ \E t \in Task \ {v} : \/ tasks'[v].ctx = tasks[t].ctx
                                           \/ tasks'[v].ctx = tasks'[t].ctx /\ StackPushed(t)
StackMoves(v) == \/ StackSame(v) \/ StackPushed(v) \/ Close(v) \/ StackHanded(v)
                 \/ tasks'[v].ctx = Outside /\ ~(Alive(v) /\ Alive(v)')

LEMMA RestoredOther ==
    ASSUME NEW ctx \in Context, NEW f \in Frame, f.kind # "wrapper"
    PROVE  Restored(ctx, f).stack = ctx.stack
<1>1. CASE f.kind = "session"
  <2>1. Restored(ctx, f) = [ctx EXCEPT !.session = f.session, !.gens = Front(@)]
    BY <1>1 DEF Restored
  <2> QED
    BY <2>1 DEF Context
<1>2. CASE f.kind = "nested"
  <2>1. Restored(ctx, f) = [ctx EXCEPT !.gens = Front(@)]
    BY <1>2 DEF Restored
  <2> QED
    BY <2>1 DEF Context
<1>3. QED
  BY <1>1, <1>2 DEF Frame

LEMMA InSessionStack ==
    ASSUME NEW ctx \in Context, NEW c \in Call
    PROVE  InSession(ctx, c).stack = ctx.stack
BY DEF InSession, Context

LEMMA StackOthers ==
    ASSUME NEW T, Others(T), \A v \in T \cap Task : StackMoves(v)
    PROVE  \A v \in Task : StackMoves(v)
BY DEF Others, StackMoves, StackSame

LEMMA StackStep == ASSUME IInv, Next PROVE \A v \in Task : StackMoves(v)
<1> DEFINE Goal == \A v \in Task : StackMoves(v)
<1>1. Typed /\ Shaped /\ Known /\ Queued /\ Awaiting
  BY DEF IInv
<1>2. ASSUME NEW t \in Task, Others({t}), StackMoves(t) PROVE Goal
  BY <1>2, StackOthers
<1>3. ASSUME NEW t \in Task, NEW u, Others({t, u}), StackMoves(t), StackMoves(u) PROVE Goal
  BY <1>3, StackOthers
<1>5. ASSUME NEW u \in Task, Arrive(u) PROVE Goal
  <2>1. Others({u}) /\ tasks'[u].ctx = Outside /\ ~Alive(u)
    BY <1>1, <1>5, ArriveDoes DEF Newborn, FreeTask, Alive
  <2> QED
    BY <1>2, <2>1 DEF StackMoves
<1>6. ASSUME NEW t \in Task, NEW u \in Task, Spawn(t, u) PROVE Goal
  <2>1. Others({u}) /\ tasks'[u].ctx = tasks[t].ctx /\ ~Alive(u) /\ t # u
    <3>1. Others({u}) /\ Newborn(u, t, "run", tasks[t].ctx, Nobody) /\ InBody(t)
      BY <1>1, <1>6, SpawnDoes
    <3> QED
      BY <3>1 DEF Newborn, FreeTask, InBody, Alive
  <2> QED
    BY <1>2, <2>1 DEF StackMoves, StackHanded
<1>7. ASSUME NEW t \in Task, NEW c \in Call, NEW a \in Agents, NEW k \in MethodKinds,
             NEW x, Announce(t, c, a, k), x = Entered(tasks[t].ctx, c, a),
             tasks'[t].ctx.stack = x.stack
      PROVE  StackPushed(t)
  <2>1. calls[c].task = Nobody /\ calls'[c].task = t /\ Len(tasks[t].ctx.stack) < MaxDepth
    BY <1>1, <1>7, AnnounceFacts
  <2>2. x.stack = Append(tasks[t].ctx.stack, c)
    BY <1>1, <1>7, TasksType, EnteredIs
  <2> QED
    BY <1>7, <2>1, <2>2 DEF StackPushed
<1>8. ASSUME NEW t \in Task, NEW c \in Call, NEW a \in Agents, NEW k \in MethodKinds,
             CallCode(t, c, a, k)
      PROVE  Goal
  <2>1. /\ Others({t}) /\ tasks'[t].ctx = Entered(tasks[t].ctx, c, a)
    BY <1>1, <1>8, CallCodeDoes
  <2>2. Announce(t, c, a, k)
    BY <1>8 DEF CallCode
  <2> QED
    BY <1>2, <1>7, <2>1, <2>2 DEF StackMoves
<1>9. ASSUME NEW t \in Task, NEW c \in Call, NEW a \in Agents, NEW k \in MethodKinds,
             CallInline(t, c, a, k)
      PROVE  Goal
  <2>1. /\ Others({t})
        /\ \E r \in TaskRec : /\ r.ctx = Entered(tasks[t].ctx, c, a)
                              /\ tasks'[t].ctx = InSession(r.ctx, c)
    BY <1>1, <1>9, CallInlineDoes, Zenon
  <2>2. PICK r \in TaskRec : /\ r.ctx = Entered(tasks[t].ctx, c, a)
                             /\ tasks'[t].ctx = InSession(r.ctx, c)
    BY <2>1
  <2>3. tasks'[t].ctx.stack = r.ctx.stack
    BY <2>2, InSessionStack DEF TaskRec
  <2>4. Announce(t, c, a, k)
    BY <1>9 DEF CallInline
  <2> QED
    BY <1>2, <1>7, <2>1, <2>2, <2>3, <2>4 DEF StackMoves
<1>10. ASSUME NEW t \in Task, NEW u \in Task, NEW c \in Call, NEW a \in Agents,
             NEW k \in MethodKinds, CallPlan(t, u, c, a, k)
      PROVE  Goal
  <2>1. /\ Others({t, u}) /\ tasks'[t].ctx = Entered(tasks[t].ctx, c, a)
        /\ tasks'[u].ctx = tasks'[t].ctx /\ ~Alive(u) /\ t # u
    <3>1. /\ Others({t, u}) /\ tasks'[t].ctx = Entered(tasks[t].ctx, c, a)
          /\ Newborn(u, t, "new", tasks'[t].ctx, c) /\ t # u
      BY <1>1, <1>10, CallPlanDoes
    <3> QED
      BY <3>1 DEF Newborn, FreeTask, Alive
  <2>2. Announce(t, c, a, k)
    BY <1>10 DEF CallPlan
  <2>3. StackPushed(t)
    BY <1>7, <2>1, <2>2
  <2> QED
    BY <1>3, <2>1, <2>3 DEF StackMoves, StackHanded
<1>11. ASSUME NEW u \in Task, NEW l \in BOOLEAN, Opens(u, l) PROVE Goal
  <2>1. Others({u}) /\ tasks[u].plan \in Call /\ tasks'[u].ctx = InSession(tasks[u].ctx, tasks[u].plan)
    BY <1>11 DEF Opens
  <2>2. tasks'[u].ctx.stack = tasks[u].ctx.stack
    BY <1>1, <2>1, InSessionStack, TasksType
  <2> QED
    BY <1>2, <2>1, <2>2 DEF StackMoves, StackSame
<1>12. ASSUME NEW u \in Task, StartFree(u) \/ Granted(u) PROVE Goal
  BY <1>1, <1>11, <1>12, StartFreeDoes, GrantedDoes
<1>13. ASSUME NEW u \in Task, StartLocked(u) PROVE Goal
  <2>1. Opens(u, TRUE) \/ (Others({u}) /\ tasks'[u].ctx = tasks[u].ctx)
    BY <1>1, <1>13, StartLockedDoes
  <2> QED
    BY <1>2, <1>11, <2>1 DEF StackMoves, StackSame
<1>14. ASSUME NEW u \in Task, Ends(u), Wakes(u, tasks[u].owner), Others({u, tasks[u].owner})
       PROVE  Goal
  <2> DEFINE w == tasks[u].owner
  <2>1. StackMoves(w)
    BY <1>14 DEF Wakes, OneFrame, StackMoves, StackSame
  <2>2. StackMoves(u)
    BY <1>14 DEF Ends, Alive, StackMoves
  <2> QED
    BY <1>3, <1>14, <2>1, <2>2
<1>15. ASSUME NEW u \in Task, PlanCancelled(u) PROVE Goal
  BY <1>1, <1>14, <1>15, PlanCancelledDoes
<1>16. ASSUME NEW t \in Task, NestStrategy(t) PROVE Goal
  <2>1. /\ Others({t})
        /\ \E r \in TaskRec :
              OneFrame(tasks[t], r) /\ tasks'[t].ctx = [r.ctx EXCEPT !.gens = Append(@, Top(t).call)]
    BY <1>1, <1>16, NestStrategyDoes, Zenon
  <2>2. PICK r \in TaskRec :
           OneFrame(tasks[t], r) /\ tasks'[t].ctx = [r.ctx EXCEPT !.gens = Append(@, Top(t).call)]
    BY <2>1
  <2>3. r.ctx = tasks[t].ctx /\ r.ctx \in Context
    BY <2>2 DEF OneFrame, TaskRec
  <2>4. tasks'[t].ctx.stack = r.ctx.stack
    BY <2>2, <2>3 DEF Context
  <2> QED
    BY <1>2, <2>1, <2>3, <2>4 DEF StackMoves, StackSame
<1>17. ASSUME NEW t \in Task, NEW o \in Outcome, CodeEnds(t, o) PROVE Goal
  <2>1. Others({t}) /\ OneFrame(tasks[t], tasks'[t])
    BY <1>1, <1>17, CodeEndsDoes
  <2> QED
    BY <1>2, <2>1 DEF OneFrame, StackMoves, StackSame
<1>18. ASSUME NEW t \in Task, NEW o \in Outcome, NestedEnds(t, o) PROVE Goal
  <2>1. /\ Others({t}) /\ MayEnd(t, o) /\ Top(t).kind = "nested"
        /\ tasks'[t].ctx = Restored(tasks[t].ctx, Top(t))
    BY <1>1, <1>18, NestedEndsDoes
  <2>2. Top(t) \in Frame /\ tasks[t].ctx \in Context
    BY <1>1, <2>1, EndingFacts, TasksType
  <2>3. tasks'[t].ctx.stack = tasks[t].ctx.stack
    BY <2>1, <2>2, RestoredOther
  <2> QED
    BY <1>2, <2>1, <2>3 DEF StackMoves, StackSame
<1>19. ASSUME NEW t \in Task, NEW o \in Outcome, SessionEnds(t, o) PROVE Goal
  <2>1. /\ MayEnd(t, o) /\ Top(t).kind = "session"
        /\ \/ Others({t, tasks[t].owner}) /\ Ends(t) /\ Wakes(t, tasks[t].owner)
           \/ /\ Others({t})
              /\ \E r \in TaskRec : /\ r.ctx = Restored(tasks[t].ctx, Top(t))
                                    /\ OneFrame(r, tasks'[t])
    BY <1>1, <1>19, SessionEndsDoes, Zenon
  <2>2. CASE /\ Others({t})
             /\ \E r \in TaskRec : /\ r.ctx = Restored(tasks[t].ctx, Top(t))
                                   /\ OneFrame(r, tasks'[t])
    <3>1. tasks'[t].ctx = Restored(tasks[t].ctx, Top(t))
      BY <2>2 DEF OneFrame
    <3>2. Top(t) \in Frame /\ tasks[t].ctx \in Context
      BY <1>1, <2>1, EndingFacts, TasksType
    <3>3. tasks'[t].ctx.stack = tasks[t].ctx.stack
      BY <2>1, <3>1, <3>2, RestoredOther
    <3> QED
      BY <1>2, <2>2, <3>3 DEF StackMoves, StackSame
  <2> QED
    BY <1>14, <2>1, <2>2
<1>20. ASSUME NEW t \in Task, Close(t) PROVE Goal
  <2>1. IInv /\ Others({t})
    BY <1>20, ClosedIs
  <2> QED
    BY <1>2, <1>20, <2>1 DEF StackMoves
<1>21. ASSUME NEW t \in Task, EndTask(t) PROVE Goal
  BY <1>1, <1>2, <1>21, EndTaskDoes DEF StackMoves, Ends, Alive
<1>22. ASSUME NEW t \in Task, Cancel(t) PROVE Goal
  BY <1>1, <1>22, CancelDoes DEF StackMoves, StackSame
<1>23. ASSUME Restart PROVE Goal
  BY <1>1, <1>23, RestartDoes DEF StackMoves, StackSame
<1>24. QED
  BY <1>1, <1>5, <1>6, <1>8, <1>9, <1>10, <1>12, <1>13, <1>15, <1>16, <1>17, <1>18, <1>19,
     <1>20, <1>21, <1>22, <1>23, Steps

LEMMA StackLives ==
    ASSUME IInv, Next, NEW v \in Task, Alive(v), Alive(v)'
    PROVE  StackSame(v) \/ StackPushed(v) \/ Close(v)
BY StackStep DEF StackMoves, StackHanded

\* The call stack keeps its configured depth.
Deep == \A t \in Task : Len(tasks[t].ctx.stack) <= MaxDepth

LEMMA DeepStep == ASSUME IInv, Deep, Next PROVE Deep'
<1>1. Typed /\ MaxDepth \in Nat
  BY ActorAssumption DEF IInv
<1>2. ASSUME NEW v \in Task PROVE tasks[v].ctx.stack \in Seq(Call) /\ Len(tasks[v].ctx.stack) \in Nat
  <2>1. tasks[v].ctx.stack \in Seq(Call)
    BY <1>1, TasksType DEF Context
  <2> QED
    BY <2>1, LenProperties
<1>3. ASSUME NEW v \in Task, StackPushed(v) PROVE Len(tasks'[v].ctx.stack) <= MaxDepth
  <2>1. PICK c \in Call : /\ Len(tasks[v].ctx.stack) < MaxDepth
                          /\ tasks'[v].ctx.stack = Append(tasks[v].ctx.stack, c)
    BY <1>3 DEF StackPushed
  <2>2. PICK n \in Nat : n = Len(tasks[v].ctx.stack)
    BY <1>2
  <2>3. Len(tasks'[v].ctx.stack) = n + 1
    BY <1>2, <2>1, <2>2, AppendProperties
  <2> QED
    BY <1>1, <2>1, <2>2, <2>3
<1>4. ASSUME NEW v \in Task, Close(v) PROVE Len(tasks'[v].ctx.stack) <= MaxDepth
  <2>1. PICK s \in Seq(Call) : tasks[v].ctx.stack = Append(s, Top(v).call) /\ tasks'[v].ctx.stack = s
    BY <1>4, CloseStack
  <2>2. Top(v).call \in Call
    BY <1>4, ClosedIs
  <2>3. PICK n \in Nat : n = Len(s)
    BY LenProperties
  <2>4. Len(tasks[v].ctx.stack) = n + 1
    BY <2>1, <2>2, <2>3, AppendProperties
  <2>5. n + 1 <= MaxDepth
    BY <2>4 DEF Deep
  <2> QED
    BY <1>1, <2>1, <2>3, <2>5
<1>5. Len(Outside.stack) <= MaxDepth
  <2>1. Outside.stack = <<>> /\ Len(<<>>) = 0
    BY FreshType, EmptySeq
  <2> QED
    BY <1>1, <2>1
<1>6. ASSUME NEW v \in Task PROVE Len(tasks'[v].ctx.stack) <= MaxDepth
  <2>1. StackMoves(v)
    BY StackStep
  <2>2. CASE StackSame(v)
    BY <2>2 DEF StackSame, Deep
  <2>3. CASE StackHanded(v)
    BY <1>3, <2>3 DEF StackHanded, Deep
  <2> QED
    BY <1>3, <1>4, <1>5, <2>1, <2>2, <2>3 DEF StackMoves
<1>7. QED
  BY <1>6 DEF Deep

\* The frame that created a live task is not the one that ends.
LEMMA NotTheLast ==
    ASSUME IInv, Plain, NEW t \in Task, Close(t), NEW u \in Task, Alive(u), tasks[u].owner = t
    PROVE  /\ tasks[u].level \in 1..Len(tasks[t].frames) - 1
           /\ ~Own(t, Top(t).call, tasks[u].level)
<1>1. Kept
  BY DEF IInv
<1>2. t # Nobody
  BY DEF Task, Nobody
<1>3. /\ tasks[u].level \in 1..Len(tasks[t].frames)
      /\ tasks[t].frames[tasks[u].level].out = "open"
  BY <1>1, <1>2 DEF Kept
<1>4. PICK n \in Nat \ {0} : n = Len(tasks[t].frames)
  BY ClosedIs
<1>5. Top(t) = tasks[t].frames[n] /\ Top(t).out # "open"
  BY <1>4, ClosedIs
<1>6. tasks[u].level \in 1..n - 1
  BY <1>3, <1>4, <1>5
<1>7. \A i \in 1..n - 1 : ~(Wrapper(t, i) /\ tasks[t].frames[i].call = Top(t).call)
  BY <1>4, ClosedIs
<1>8. ~Own(t, Top(t).call, tasks[u].level)
  BY <1>6, <1>7 DEF Own
<1>9. QED
  BY <1>4, <1>6, <1>8

\* What Handed says of a live task, its owner named.
LEMMA HandedBase ==
    ASSUME IInv, Plain, NEW u \in Task, Alive(u), NEW c \in Call, Listed(c, tasks[u].base.stack)
    PROVE  \E t \in Task : /\ t = tasks[u].owner /\ t < u /\ Alive(t)
                           /\ Listed(c, tasks[t].ctx.stack)
                           /\ calls[c].task = t => Own(t, c, tasks[u].level)
<1>1. Typed /\ Handed /\ Kept /\ Born
  BY DEF IInv
<1>2. /\ tasks[u].owner # Nobody /\ Listed(c, tasks[tasks[u].owner].ctx.stack)
      /\ calls[c].task = tasks[u].owner => Own(tasks[u].owner, c, tasks[u].level)
  BY <1>1 DEF Handed
<1>3. tasks[u].owner \in Task
  BY <1>1, <1>2, TasksType DEF TaskRec
<1>4. Alive(tasks[u].owner) /\ tasks[u].owner < u
  BY <1>1, <1>2 DEF Kept, Born
<1>5. QED
  BY <1>2, <1>3, <1>4

\* An id listed where it was not announced was inherited.
LEMMA HandedOn ==
    ASSUME IInv, Plain, NEW u \in Task, Alive(u), NEW c \in Call, Listed(c, tasks[u].ctx.stack)
    PROVE  /\ Listed(c, tasks[u].base.stack) \/ calls[c].task = u
           /\ calls[c].out = "open" /\ Announced(c)
<1>1. Typed /\ Handed /\ Paths
  BY DEF IInv
<1>2. Standing(calls, tasks[u].ctx)
  BY <1>1, ContextStands
<1>3. Announced(c)
  BY <1>2 DEF Standing, Listed, Announced
<1>4. QED
  BY <1>1, <1>3 DEF Handed

\* No other task inherited the id of a call that returns.
LEMMA ClosedGone ==
    ASSUME IInv, Plain, NEW t \in Task, Close(t)
    PROVE  /\ \A u \in Task : Alive(u) /\ u # t => ~Listed(Top(t).call, tasks[u].ctx.stack)
           /\ ~Listed(Top(t).call, tasks[t].base.stack)
<1> DEFINE c == Top(t).call
           S == {u \in Task : Alive(u) /\ u # t /\ Listed(c, tasks[u].ctx.stack)}
<1>1. c \in Call /\ calls[c].task = t
  BY ClosedIs
<1>2. Alive(t)
  BY DEF Close, Alive
<1> HIDE DEF c
<1>3. ASSUME NEW u \in Task, Alive(u), Listed(c, tasks[u].base.stack)
      PROVE  \E x \in S : x < u
  <2>1. PICK x \in Task : /\ x = tasks[u].owner /\ x < u /\ Alive(x)
                          /\ Listed(c, tasks[x].ctx.stack)
                          /\ calls[c].task = x => Own(x, c, tasks[u].level)
    BY <1>1, <1>3, HandedBase
  <2>2. x # t
    BY <1>1, <1>3, <2>1, NotTheLast DEF c
  <2> QED
    BY <2>1, <2>2
<1>4. ASSUME S # {} PROVE FALSE
  <2>1. S \subseteq Nat
    BY DEF Task
  <2>2. PICK u \in S : \A v \in S : u <= v
    BY <1>4, <2>1, LeastNat, Zenon
  <2>3. u \in Task /\ Alive(u) /\ u # t /\ Listed(c, tasks[u].ctx.stack)
    OBVIOUS
  <2>4. Listed(c, tasks[u].base.stack)
    BY <1>1, <2>3, HandedOn
  <2>5. PICK x \in S : x < u
    BY <1>3, <2>3, <2>4
  <2> QED
    BY <2>1, <2>2, <2>5
<1>5. ~Listed(c, tasks[t].base.stack)
  BY <1>2, <1>3, <1>4
<1>6. QED
  BY <1>4, <1>5 DEF c

\* The stack of a task that goes on lists what it did, and what it pushed.
LEMMA StackNow ==
    ASSUME IInv, Next, NEW u \in Task, Alive(u), Alive(u)', NEW c \in Call,
           Listed(c, tasks'[u].ctx.stack)
    PROVE  Listed(c, tasks[u].ctx.stack) \/ (calls[c].task = Nobody /\ calls'[c].task = u)
<1>1. StackSame(u) \/ StackPushed(u) \/ Close(u)
  BY StackLives
<1>2. tasks[u].ctx.stack \in Seq(Call)
  BY TasksType DEF Context, IInv
<1>3. CASE StackSame(u)
  BY <1>3 DEF StackSame
<1>4. CASE StackPushed(u)
  <2>1. PICK d \in Call : /\ calls[d].task = Nobody /\ calls'[d].task = u
                          /\ tasks'[u].ctx.stack = Append(tasks[u].ctx.stack, d)
    BY <1>4 DEF StackPushed
  <2> QED
    BY <1>2, <2>1, ListedAppend
<1>5. CASE Close(u)
  <2>1. PICK s \in Seq(Call) : tasks[u].ctx.stack = Append(s, Top(u).call) /\ tasks'[u].ctx.stack = s
    BY <1>5, CloseStack
  <2>2. Top(u).call \in Call
    BY <1>5, ClosedIs
  <2> QED
    BY <2>1, <2>2, ListedAppend
<1>6. QED
  BY <1>1, <1>3, <1>4, <1>5

LEMMA StackOpenNow ==
    ASSUME IInv, Next, Plain, NEW u \in Task, Alive(u), Alive(u)', NEW c \in Call,
           Listed(c, tasks'[u].ctx.stack)
    PROVE  calls'[c].out = "open"
<1>1. Listed(c, tasks[u].ctx.stack) \/ (calls[c].task = Nobody /\ calls'[c].task = u)
  BY StackNow
<1>2. u # Nobody
  BY DEF Task, Nobody
<1>3. CASE CallSame(c)
  BY <1>1, <1>2, <1>3, HandedOn DEF CallSame
<1>4. CASE CallMade(c)
  BY <1>4 DEF CallMade
<1>5. CASE CallOver(c)
  <2>1. PICK t \in Task : Close(t) /\ c = Top(t).call /\ calls[c].task = t
    BY <1>5 DEF CallOver
  <2>2. u = t
    <3>1. ASSUME u # t PROVE FALSE
      <4>1. tasks'[u] = tasks[u]
        BY <2>1, <3>1, ClosedIs DEF Others
      <4> QED
        BY <2>1, <3>1, <4>1, ClosedGone
    <3> QED
      BY <3>1
  <2>3. PICK s \in Seq(Call) :
           /\ tasks'[t].ctx.stack = s
           /\ \A d \in Call : Listed(d, s) => \/ Listed(d, tasks[t].base.stack)
                                              \/ (d # Top(t).call /\ calls[d].task = t)
    BY <2>1, CloseStack
  <2>4. Listed(c, tasks[t].base.stack)
    BY <2>1, <2>2, <2>3
  <2> QED
    BY <2>1, <2>4, ClosedGone
<1>6. QED
  BY <1>3, <1>4, <1>5, OutStep

\* What Handed asks of a task now.
HandedNow(u, c) ==
    /\ Listed(c, tasks'[u].base.stack) =>
          \E t \in Task : /\ t = tasks'[u].owner /\ Listed(c, tasks'[t].ctx.stack)
                          /\ calls'[c].task = t =>
                                \E i \in 1..tasks'[u].level : /\ tasks'[t].frames[i].kind = "wrapper"
                                                              /\ tasks'[t].frames[i].call = c
    /\ Listed(c, tasks'[u].ctx.stack) => Listed(c, tasks'[u].base.stack) \/ calls'[c].task = u
    /\ Listed(c, tasks'[u].ctx.stack) => calls'[c].out = "open"

\* A task that goes on.
LEMMA HandedGoesOn ==
    ASSUME IInv, Next, Plain, NEW u \in Task, Alive(u)', GoesOn(u), NEW c \in Call
    PROVE  HandedNow(u, c)
<1>1. Typed /\ Known /\ CallsStay /\ Kept' /\ env' = env
  BY KeptStep, CallsStep, EnvStays DEF IInv
<1>2. Alive(u) /\ SameRoot(tasks[u], tasks'[u])
  BY DEF GoesOn
<1>3. ASSUME Listed(c, tasks[u].base.stack)
      PROVE  \E t \in Task : /\ t = tasks'[u].owner /\ Listed(c, tasks'[t].ctx.stack)
                             /\ calls'[c].task = t =>
                                   \E i \in 1..tasks'[u].level : /\ tasks'[t].frames[i].kind = "wrapper"
                                                                 /\ tasks'[t].frames[i].call = c
  <2>1. PICK t \in Task : /\ t = tasks[u].owner /\ t < u /\ Alive(t)
                          /\ Listed(c, tasks[t].ctx.stack)
                          /\ calls[c].task = t => Own(t, c, tasks[u].level)
    BY <1>2, <1>3, HandedBase
  <2>2. t = tasks'[u].owner /\ tasks'[u].level = tasks[u].level /\ t # Nobody
    BY <1>2, <2>1 DEF SameRoot, Task, Nobody
  <2>3. Alive(t)'
    <3>1. tasks'[tasks'[u].owner].st \in {"new", "run", "wait", "lock"}
      BY <1>1, <2>2 DEF Kept, Plain, Alive
    <3> QED
      BY <2>2, <3>1 DEF Alive
  <2>4. calls'[c].task = calls[c].task
    BY <1>1, <2>1, HandedOn DEF CallsStay
  <2>5. StackSame(t) \/ StackPushed(t) \/ Close(t)
    BY <2>1, <2>3, StackLives
  <2>6. ASSUME Close(t) PROVE /\ tasks[u].level \in 1..Len(tasks[t].frames) - 1
                              /\ ~Own(t, Top(t).call, tasks[u].level)
    BY <1>2, <2>1, <2>6, NotTheLast
  <2>7. Listed(c, tasks'[t].ctx.stack)
    <3>1. tasks[t].ctx.stack \in Seq(Call)
      BY <1>1, TasksType DEF Context
    <3>2. CASE StackSame(t)
      BY <2>1, <3>2 DEF StackSame
    <3>3. CASE StackPushed(t)
      BY <2>1, <3>1, <3>3, ListedAppend DEF StackPushed
    <3>4. CASE Close(t)
      <4>1. PICK s \in Seq(Call) : /\ tasks[t].ctx.stack = Append(s, Top(t).call)
                                   /\ tasks'[t].ctx.stack = s
        BY <3>4, CloseStack
      <4>2. Top(t).call \in Call /\ calls[Top(t).call].task = t
        BY <3>4, ClosedIs
      <4>3. c # Top(t).call
        BY <2>1, <2>6, <3>4, <4>2
      <4> QED
        BY <2>1, <4>1, <4>2, <4>3, ListedAppend
    <3> QED
      BY <2>5, <3>2, <3>3, <3>4
  <2>8. ASSUME calls'[c].task = t
        PROVE  \E i \in 1..tasks[u].level : /\ tasks'[t].frames[i].kind = "wrapper"
                                            /\ tasks'[t].frames[i].call = c
    <3>1. PICK i \in 1..tasks[u].level : Wrapper(t, i) /\ tasks[t].frames[i].call = c
      BY <2>1, <2>4, <2>8 DEF Own
    <3>2. CASE WrappersKept(t)
      <4>1. tasks[u].level \in 1..Len(tasks[t].frames)
        BY <1>2, <2>1, <2>2 DEF IInv, Kept
      <4>2. PICK n \in Nat : n = Len(tasks[t].frames)
        BY <1>1, TasksType
      <4>3. i \in 1..n
        BY <4>1, <4>2
      <4> QED
        BY <3>1, <3>2, <4>2, <4>3 DEF WrappersKept
    <3>3. CASE Close(t)
      <4>1. PICK n \in Nat \ {0} : n = Len(tasks[t].frames)
        BY <3>3, ClosedIs
      <4>2. tasks[u].level \in 1..n - 1
        BY <2>6, <3>3, <4>1
      <4>3. i \in 1..n - 1
        BY <4>2
      <4>4. Shrunk(tasks[t], tasks'[t])
        BY <3>3, ClosedIs
      <4>5. tasks'[t].frames[i] = tasks[t].frames[i]
        BY <4>1, <4>3, <4>4 DEF Shrunk
      <4> QED
        BY <3>1, <4>5 DEF Wrapper
    <3> QED
      BY <3>2, <3>3, WrappersStep
  <2> QED
    BY <2>2, <2>7, <2>8
<1>4. ASSUME Listed(c, tasks'[u].ctx.stack)
      PROVE  Listed(c, tasks'[u].base.stack) \/ calls'[c].task = u
  <2>1. CASE Listed(c, tasks[u].ctx.stack)
    <3>1. (Listed(c, tasks[u].base.stack) \/ calls[c].task = u) /\ Announced(c)
      BY <1>2, <2>1, HandedOn
    <3>2. calls'[c].task = calls[c].task
      BY <1>1, <3>1 DEF CallsStay
    <3> QED
      BY <1>2, <3>1, <3>2 DEF SameRoot
  <2>2. CASE calls'[c].task = u
    BY <2>2
  <2> QED
    BY <1>2, <1>4, <2>1, <2>2, StackNow
<1>5. Listed(c, tasks'[u].ctx.stack) => calls'[c].out = "open"
  BY <1>2, StackOpenNow
<1>6. tasks'[u].base = tasks[u].base
  BY <1>2 DEF SameRoot
<1>7. QED
  BY <1>3, <1>4, <1>5, <1>6 DEF HandedNow

\* A task that begins, with the stack of the one that created it.
LEMMA HandedBorn ==
    ASSUME IInv, Next, Plain, NEW u \in Task, BornNow(u), NEW c \in Call
    PROVE  HandedNow(u, c)
<1>1. Typed /\ Typed' /\ Born /\ CallsStay /\ RootsStay /\ OpenCalls'
  BY OpenCallsStep, CallsStep, RootsStep, TypedStep DEF IInv
<1>2. tasks[u].st = "free" /\ tasks'[u] # tasks[u]
  BY DEF BornNow, FreeTask
<1>3. CASE Arrive(u)
  <2>1. tasks'[u].ctx = Outside /\ tasks'[u].base = Outside
    BY <1>1, <1>3, ArriveDoes DEF Newborn
  <2>2. Outside.stack = <<>> /\ Len(<<>>) = 0
    BY FreshType, EmptySeq
  <2> QED
    BY <2>1, <2>2 DEF HandedNow, Listed
<1>4. ASSUME NEW t \in Task, Alive(t), Alive(t)', tasks'[u].owner = t,
             tasks'[u].ctx = tasks'[t].ctx, tasks'[u].base = tasks'[t].ctx,
             tasks'[u].level = Len(tasks'[t].frames)
      PROVE  HandedNow(u, c)
  <2>1. ASSUME Listed(c, tasks'[t].ctx.stack) PROVE calls'[c].out = "open"
    BY <1>4, <2>1, StackOpenNow
  <2>2. ASSUME Listed(c, tasks'[t].ctx.stack), calls'[c].task = t
        PROVE  HasNow(t, c)
    <3>1. calls'[c].out = "open" /\ calls'[c].task # Nobody
      BY <2>1, <2>2 DEF Task, Nobody
    <3>2. \E i \in 1..Len(tasks'[calls'[c].task].frames) :
             /\ tasks'[calls'[c].task].frames[i].kind = "wrapper"
             /\ tasks'[calls'[c].task].frames[i].call = c
      BY <1>1, <3>1 DEF OpenCalls, Announced, Wrapper
    <3> QED
      BY <2>2, <3>2 DEF HasNow
  <2> QED
    BY <1>4, <2>1, <2>2 DEF HandedNow, HasNow
<1>5. ASSUME NEW t \in Task, Spawn(t, u) PROVE HandedNow(u, c)
  <2>1. /\ Others({u}) /\ Newborn(u, t, "run", tasks[t].ctx, Nobody)
        /\ tasks'[u].level = Len(tasks[t].frames) /\ InBody(t)
    BY <1>1, <1>5, SpawnDoes
  <2>2. tasks'[t] = tasks[t] /\ Alive(t)
    BY <1>2, <2>1 DEF Others, InBody, Alive
  <2>3. Alive(t)'
    BY <2>2 DEF Alive
  <2> QED
    BY <1>4, <2>1, <2>2, <2>3 DEF Newborn
<1>6. ASSUME NEW t \in Task, NEW d \in Call, NEW a \in Agents, NEW k \in MethodKinds,
             CallPlan(t, u, d, a, k)
      PROVE  HandedNow(u, c)
  <2>1. /\ Newborn(u, t, "new", tasks'[t].ctx, d) /\ InBody(t) /\ tasks'[t].st = "wait"
        /\ tasks'[u].level = Len(tasks[t].frames) + 1
        /\ Grown(tasks[t], tasks'[t], WrapperFrame(d, tasks[t].ctx))
    BY <1>1, <1>6, CallPlanDoes
  <2>2. Alive(t) /\ Alive(t)' /\ Len(tasks'[t].frames) = tasks'[u].level
    BY <2>1 DEF Grown, InBody, Alive
  <2> QED
    BY <1>4, <2>1, <2>2 DEF Newborn
<1>7. QED
  BY <1>2, <1>3, <1>5, <1>6, BirthStep

LEMMA HandedStep == ASSUME IInv, Next PROVE Handed'
<1>1. RootsStay /\ env' = env
  BY RootsStep, EnvStays
<1>2. ASSUME Plain, NEW u \in Task, Alive(u)', NEW c \in Call PROVE HandedNow(u, c)
  <2>1. ~Unborn(u)
    BY <1>2 DEF Unborn, Alive
  <2> QED
    BY <1>1, <1>2, <2>1, HandedGoesOn, HandedBorn DEF RootsStay
<1>3. ASSUME Plain', NEW u \in Task, Alive(u)', NEW c \in Call
      PROVE  (/\ Listed(c, tasks[u].base.stack) =>
                    LET t == tasks[u].owner
                    IN /\ t # Nobody /\ Listed(c, tasks[t].ctx.stack)
                       /\ calls[c].task = t => Own(t, c, tasks[u].level)
              /\ Listed(c, tasks[u].ctx.stack) => Listed(c, tasks[u].base.stack) \/ calls[c].task = u
              /\ Listed(c, tasks[u].ctx.stack) => calls[c].out = "open")'
  <2>1. Plain
    BY <1>1, <1>3 DEF Plain
  <2>2. HandedNow(u, c)
    BY <1>2, <1>3, <2>1
  <2>3. ASSUME Listed(c, tasks'[u].base.stack)
        PROVE  (LET t == tasks[u].owner
                IN /\ t # Nobody /\ Listed(c, tasks[t].ctx.stack)
                   /\ calls[c].task = t => Own(t, c, tasks[u].level))'
    <3>1. PICK t \in Task : /\ t = tasks'[u].owner /\ Listed(c, tasks'[t].ctx.stack)
                            /\ calls'[c].task = t =>
                                  \E i \in 1..tasks'[u].level : /\ tasks'[t].frames[i].kind = "wrapper"
                                                                /\ tasks'[t].frames[i].call = c
      BY <2>2, <2>3 DEF HandedNow
    <3>2. t # Nobody
      BY DEF Task, Nobody
    <3> QED
      BY <3>1, <3>2 DEF Own, Wrapper, Listed
  <2> QED
    BY <2>2, <2>3 DEF HandedNow, Listed
<1>4. QED
  BY <1>3 DEF Handed

LEMMA Initially == ASSUME Init PROVE IInv /\ Deep
<1>1. /\ env \in Envs /\ calls = [c \in Call |-> NoCall] /\ tasks = [t \in Task |-> Fresh]
      /\ lock = [a \in Agents |-> <<>>] /\ lockLoop = [a \in Agents |-> 0] /\ loop = 1
  BY DEF Init
<1>2. \A t \in Task : /\ tasks[t] = Fresh /\ tasks[t].st = "free" /\ tasks[t].frames = <<>>
                      /\ tasks[t].owner = Nobody /\ tasks[t].plan = Nobody
                      /\ tasks[t].ctx = Outside /\ tasks[t].base = Outside
                      /\ ~Alive(t) /\ ~InLine(t)
  BY <1>1, FreshType DEF Alive, InLine
<1>3. Len(<<>>) = 0
  BY EmptySeq
<1>4. \A c \in Call : calls[c].task = Nobody
  BY <1>1 DEF NoCall
<1>5. Typed
  <2>1. Fresh \in TaskRec /\ NoCall \in CallRec
    BY FreshType
  <2>2. <<>> \in Seq(Task) /\ 0 \in 0..1
    BY EmptySeq
  <2> QED
    BY <1>1, <2>1, <2>2 DEF Typed
<1>6. Born
  BY <1>2 DEF Born, Task, Nobody
<1>7. Known
  BY <1>2, <1>3, <1>4 DEF Known, Announced
<1>8. Shaped
  BY <1>2, <1>3 DEF Shaped
<1>9. Queued
  BY <1>1, <1>2, <1>3 DEF Queued
<1>10. Awaiting /\ Kept /\ SessionFree /\ Handed
  BY <1>2 DEF Awaiting, Kept, SessionFree, Handed
<1>11. Paths
  <2>1. ASSUME NEW t \in Task PROVE \E p \in [0..Len(tasks[t].frames) -> Context] : Follows(tasks[t], calls, p)
    <3>1. Outside \in Context
      BY FreshType
    <3>2. Follower(calls, tasks[t])
      BY <1>2, <3>1, OutsideStands, FollowsNone
    <3> QED
      BY <3>2 DEF Follower
  <2> QED
    BY <2>1 DEF Paths
<1>12. OpenCalls
  BY <1>2, <1>3, <1>4 DEF OpenCalls, Announced
<1>13. Deep
  <2>1. Outside.stack = <<>> /\ MaxDepth \in Nat
    BY FreshType, ActorAssumption
  <2> QED
    BY <1>2, <1>3, <2>1 DEF Deep
<1>14. QED
  BY <1>5, <1>6, <1>7, <1>8, <1>9, <1>10, <1>11, <1>12, <1>13 DEF IInv

LEMMA Stutters == ASSUME IInv, Deep, UNCHANGED vars PROVE IInv' /\ Deep'
<1>1. /\ env' = env /\ tasks' = tasks /\ calls' = calls /\ lock' = lock /\ lockLoop' = lockLoop
      /\ loop' = loop
  BY DEF vars
<1>2. Typed' /\ Born' /\ Known' /\ Shaped'
  BY <1>1 DEF IInv, Typed, Born, Known, Shaped, Announced, Wrapper
<1>3. Queued' /\ Awaiting'
  BY <1>1 DEF IInv, Queued, Awaiting, Alive, InLine, Locked, Aim, Top
<1>4. Kept' /\ SessionFree' /\ OpenCalls' /\ Handed'
  BY <1>1 DEF IInv, Kept, SessionFree, OpenCalls, Handed, Alive, Plain, Wrapper, Top, Own, Announced
<1>5. Paths' /\ Deep'
  BY <1>1 DEF IInv, Paths, Deep
<1>6. QED
  BY <1>2, <1>3, <1>4, <1>5 DEF IInv

(* What the wrapper, _execute_task and _execute_with_generation keep true  *)
(* of tasks, frames, context variables, calls and locks at every await.    *)
THEOREM Safety == Spec => [](IInv /\ Deep)
<1>1. Init => IInv /\ Deep
  BY Initially
<1>2. ASSUME IInv /\ Deep, [Next]_vars PROVE (IInv /\ Deep)'
  <2>1. CASE Next
    <3>1. Typed' /\ Born' /\ Known' /\ Shaped' /\ Queued' /\ Awaiting'
      BY <1>2, <2>1, TypedStep, BornStep, KnownStep, ShapedStep, QueuedStep, AwaitingStep
    <3>2. Kept' /\ SessionFree' /\ Paths' /\ OpenCalls' /\ Handed' /\ Deep'
      BY <1>2, <2>1, KeptStep, SessionFreeStep, PathsStep, OpenCallsStep, HandedStep, DeepStep
    <3> QED
      BY <3>1, <3>2 DEF IInv
  <2>2. CASE UNCHANGED vars
    BY <1>2, <2>2, Stutters
  <2> QED
    BY <1>2, <2>1, <2>2
<1>3. QED
  BY <1>1, <1>2, PTL DEF Spec

\* The types are the code's.
LEMMA TypesHold == ASSUME IInv, Deep PROVE TypeOK
<1>1. Typed
  BY DEF IInv
<1>2. ASSUME NEW t \in Task
      PROVE  LET r == tasks[t]
             IN /\ r.st \in {"free", "new", "run", "wait", "lock", "done", "dead"}
                /\ r.ctx \in Context /\ r.base \in Context
                /\ r.frames \in Seq(Frame)
                /\ r.owner \in Task \cup {Nobody} /\ r.level \in Nat
                /\ r.plan \in Call \cup {Nobody} /\ r.cancel \in BOOLEAN
                /\ Len(r.ctx.stack) <= MaxDepth
  <2>1. tasks[t] \in TaskRec
    BY <1>1 DEF Typed
  <2> QED
    BY <2>1 DEF TaskRec, States, Deep
<1>3. ASSUME NEW c \in Call
      PROVE  /\ calls[c].agent \in Agents \cup {Nobody}
             /\ calls[c].task \in Task \cup {Nobody}
             /\ calls[c].out \in Outcome
             /\ calls[c].success \in {"none", "ok", "failed"}
  BY <1>1 DEF Typed, CallRec
<1>4. QED
  BY <1>1, <1>2, <1>3 DEF TypeOK, Typed

\* A task that runs under the lock is first in its queue.
LEMMA HolderFirst ==
    ASSUME IInv, NEW t \in Task, NEW a \in Agents, Holds(t, a)
    PROVE  lock[a][1] = t /\ Locked(t)
<1>1. Typed /\ Shaped /\ Queued /\ Alive(t)
  BY DEF IInv, Holds
<1>2. PICK i \in 1..Len(tasks[t].frames) :
         tasks[t].frames[i].locked /\ calls[tasks[t].frames[i].call].agent = a
  BY <1>1, TasksType DEF Holds
<1>3. i = 1 /\ tasks[t].frames[1].kind = "session"
  BY <1>1, <1>2 DEF Shaped
<1>4. tasks[t].plan # Nobody /\ tasks[t].frames[1].call = tasks[t].plan
  BY <1>1, <1>2, <1>3 DEF Shaped
<1>5. tasks[t].frames # <<>>
  BY <1>1, <1>2, TasksType
<1>6. Locked(t) /\ Aim(t) = a
  BY <1>2, <1>3, <1>4, <1>5 DEF Locked, Aim
<1>7. InLine(t) /\ tasks[t].st # "lock"
  BY <1>1, <1>5, <1>6 DEF InLine, Shaped
<1>8. PICK j \in 1..Len(lock[a]) : lock[a][j] = t
  BY <1>1, <1>6, <1>7 DEF Queued
<1>9. lockLoop[a] = loop
  BY <1>1, <1>6, <1>7 DEF Queued
<1>10. ~(j > 1)
  BY <1>1, <1>7, <1>8, <1>9 DEF Queued
<1>11. QED
  BY <1>6, <1>8, <1>10

LEMMA RootsSerialised == ASSUME IInv PROVE OneRootSession
BY HolderFirst DEF OneRootSession

\* Once in a session, the contexts stay in it.
LEMMA SessionUp ==
    ASSUME Typed, NEW t \in Task, NEW p \in [0..Len(tasks[t].frames) -> Context],
           Follows(tasks[t], calls, p), NEW k \in 0..Len(tasks[t].frames), p[k].session
    PROVE  tasks[t].ctx.session
<1>1. PICK n \in Nat : n = Len(tasks[t].frames)
  BY TasksType
<1> DEFINE S == {i \in k..n : ~p[i].session}
<1>2. ASSUME S # {} PROVE FALSE
  <2>1. S \subseteq Nat
    OBVIOUS
  <2>2. PICK i \in S : \A j \in S : i <= j
    BY <1>2, <2>1, LeastNat, Zenon
  <2>3. i \in k..n /\ ~p[i].session /\ i # k
    OBVIOUS
  <2>4. i \in 1..n /\ i - 1 \in k..n /\ i - 1 \in 0..n
    BY <1>1, <2>3
  <2>5. p[i - 1].session
    BY <2>2, <2>4
  <2> DEFINE f == tasks[t].frames[i]
             x == p[i - 1]
  <2>6. p[i] = AddedBy(calls, x, f) /\ f \in Frame /\ x \in Context /\ calls \in [Call -> CallRec]
    BY <1>1, <2>4, TasksType DEF Follows, Typed
  <2>7. x.session
    BY <2>5
  <2> HIDE DEF x, f
  <2>8. CASE f.kind = "wrapper"
    <3>1. p[i].session = x.session
      BY <2>6, <2>8, AddedType
    <3> QED
      BY <2>3, <2>7, <3>1
  <2>9. CASE f.kind # "wrapper"
    BY <2>3, <2>6, <2>9, AddedType
  <2> QED
    BY <2>8, <2>9
<1>3. n \in k..n
  BY <1>1
<1>4. p[n].session
  BY <1>2, <1>3
<1>5. QED
  BY <1>1, <1>4 DEF Follows

LEMMA BaseOutside ==
    ASSUME IInv, NEW t \in Task, ~tasks[t].ctx.session
    PROVE  ~tasks[t].base.session /\ ~Locked(t)
<1>1. Typed /\ Paths /\ Shaped
  BY DEF IInv
<1>2. PICK n \in Nat : n = Len(tasks[t].frames)
  BY <1>1, TasksType
<1>3. PICK p \in [0..n -> Context] : Follows(tasks[t], calls, p)
  BY <1>1, <1>2 DEF Paths
<1>4. p[0] = tasks[t].base /\ 0 \in 0..n
  BY <1>3 DEF Follows
<1>5. ~tasks[t].base.session
  BY <1>1, <1>2, <1>3, <1>4, SessionUp
<1>6. ASSUME Locked(t) PROVE FALSE
  <2>1. n # 0
    BY <1>1, <1>2, <1>6, TasksType DEF Locked
  <2>2. 1 \in 1..n /\ 1 \in 0..n /\ 0 \in 0..n
    BY <2>1
  <2> DEFINE f == tasks[t].frames[1]
             x == p[0]
  <2>3. f.kind = "session" /\ f \in Frame /\ x \in Context /\ calls \in [Call -> CallRec]
    BY <1>1, <1>2, <1>6, <2>2, TasksType DEF Shaped, Locked, Typed
  <2>4. p[1] = AddedBy(calls, x, f)
    <3>1. p[1] = AddedBy(calls, p[1 - 1], tasks[t].frames[1])
      BY <1>2, <1>3, <2>2 DEF Follows
    <3> QED
      BY <3>1
  <2> HIDE DEF f, x
  <2>5. p[1].session
    BY <2>3, <2>4, AddedType
  <2> QED
    BY <1>1, <1>2, <1>3, <2>2, <2>5, SessionUp
<1>7. QED
  BY <1>5, <1>6

\* The equation of the function "under" of Awaited(u).
Under(u, f, v) ==
    \/ v = u
    \/ /\ tasks[v].owner \in 1..v - 1
       /\ tasks[v].plan # Nobody \/ "straggler" \notin env.faults
       /\ f[tasks[v].owner]

LEMMA UnderLocal ==
    ASSUME NEW u, NEW f, NEW g, NEW v \in Nat, \A x \in 1..v - 1 : g[x] = f[x]
    PROVE  Under(u, g, v) = Under(u, f, v)
<1>1. CASE tasks[v].owner \in 1..v - 1
  <2>1. g[tasks[v].owner] = f[tasks[v].owner]
    BY <1>1
  <2> QED
    BY <2>1 DEF Under
<1>2. CASE ~(tasks[v].owner \in 1..v - 1)
  BY <1>2 DEF Under
<1>3. QED
  BY <1>1, <1>2

LEMMA UnderExists ==
    ASSUME NEW u
    PROVE  \E f : f = [v \in Task |-> Under(u, f, v)]
<1> DEFINE G(n) == \E f : f = [v \in 1..n |-> Under(u, f, v)]
           S == {n \in Nat : ~G(n)}
<1>1. ASSUME S # {} PROVE FALSE
  <2>1. S \subseteq Nat
    OBVIOUS
  <2>2. PICK n \in S : \A m \in S : n <= m
    BY <1>1, <2>1, LeastNat, Zenon
  <2>3. n \in Nat /\ ~G(n)
    OBVIOUS
  <2>4. n # 0
    <3>1. ASSUME n = 0 PROVE G(n)
      <4>1. 1..n = {}
        BY <3>1
      <4> DEFINE e == [v \in 1..n |-> TRUE]
      <4>2. e = [v \in 1..n |-> Under(u, e, v)]
        BY <4>1
      <4> QED
        BY <4>2
    <3> QED
      BY <2>3, <3>1
  <2>5. n - 1 \in Nat /\ ~(n - 1 \in S)
    BY <2>2, <2>3, <2>4
  <2>6. G(n - 1)
    BY <2>5
  <2>7. PICK f : f = [v \in 1..n - 1 |-> Under(u, f, v)]
    BY <2>6
  <2> DEFINE g == [v \in 1..n |-> Under(u, f, v)]
  <2>8. \A v \in 1..n - 1 : g[v] = f[v]
    <3>1. TAKE v \in 1..n - 1
    <3>2. v \in 1..n
      BY <2>5
    <3>3. g[v] = Under(u, f, v)
      BY <3>2
    <3>4. f[v] = Under(u, f, v)
      BY <2>7
    <3> QED
      BY <3>3, <3>4
  <2>9. \A v \in 1..n : Under(u, g, v) = Under(u, f, v)
    <3>1. TAKE v \in 1..n
    <3>2. \A x \in 1..v - 1 : x \in 1..n - 1
      BY <2>3
    <3>3. v \in Nat
      OBVIOUS
    <3>4. \A x \in 1..v - 1 : g[x] = f[x]
      <4> HIDE DEF g
      <4> QED
        BY <2>8, <3>2
    <3> HIDE DEF g
    <3> QED
      BY <3>3, <3>4, UnderLocal
  <2> HIDE DEF g
  <2>10. [v \in 1..n |-> Under(u, g, v)] = [v \in 1..n |-> Under(u, f, v)]
    BY <2>9
  <2>11. g = [v \in 1..n |-> Under(u, g, v)]
    BY <2>10 DEF g
  <2>12. G(n)
    BY <2>11
  <2> QED
    BY <2>3, <2>12
<1>2. NumTask \in Nat
  BY ActorAssumption
<1>3. G(NumTask)
  BY <1>1, <1>2
<1>4. QED
  BY <1>3 DEF Task

LEMMA AwaitedIs ==
    ASSUME NEW u
    PROVE  \E f : /\ Awaited(u) = {v \in Task : Alive(v) /\ f[v]}
                  /\ \A v \in Task : f[v] = Under(u, f, v)
<1> DEFINE f == CHOOSE g : g = [v \in Task |-> Under(u, g, v)]
<1>1. f = [v \in Task |-> Under(u, f, v)]
  BY UnderExists, Zenon
<1>2. Awaited(u) = {v \in Task : Alive(v) /\ f[v]}
  BY DEF Awaited, Under
<1> HIDE DEF f
<1>3. \A v \in Task : f[v] = Under(u, f, v)
  BY <1>1
<1>4. QED
  BY <1>2, <1>3

\* Nobody who awaits a task that waits for a lock is in a session.
LEMMA AwaitedOutside ==
    ASSUME IInv, NEW u \in Task, NEW t \in Task, t \in Awaited(u), tasks[t].st = "lock", t # u
    PROVE  ~tasks[u].ctx.session
<1>1. Typed /\ SessionFree /\ Shaped
  BY DEF IInv
<1>2. PICK f : /\ Awaited(u) = {v \in Task : Alive(v) /\ f[v]}
               /\ \A v \in Task : f[v] = Under(u, f, v)
  BY AwaitedIs
<1> DEFINE S == {v \in Task : /\ Alive(v) /\ ~tasks[v].base.session /\ f[v] /\ v # u}
<1>3. ASSUME tasks[u].ctx.session PROVE FALSE
  <2>1. t \in S
    BY <1>1, <1>2 DEF Shaped
  <2>2. S \subseteq Nat
    BY DEF Task
  <2>3. PICK v \in S : \A x \in S : v <= x
    BY <2>1, <2>2, LeastNat, Zenon
  <2>4. v \in Task /\ Alive(v) /\ ~tasks[v].base.session /\ f[v] /\ v # u
    OBVIOUS
  <2>5. Under(u, f, v)
    BY <1>2, <2>4
  <2>6. /\ tasks[v].owner \in 1..v - 1 /\ f[tasks[v].owner]
        /\ tasks[v].plan # Nobody \/ Plain
    BY <2>4, <2>5 DEF Under, Plain
  <2>7. PICK x \in 1..v - 1 : x = tasks[v].owner
    BY <2>6
  <2>8. x \in Task /\ x # Nobody /\ x < v
    <3>1. NumTask \in Nat /\ v \in 1..NumTask
      BY <2>4, ActorAssumption DEF Task
    <3> QED
      BY <3>1 DEF Task, Nobody
  <2>9. Alive(x) /\ ~tasks[x].ctx.session
    BY <1>1, <2>4, <2>6, <2>7, <2>8 DEF SessionFree
  <2>10. x # u
    BY <1>3, <2>9
  <2>11. ~tasks[x].base.session
    BY <2>8, <2>9, BaseOutside
  <2>12. x \in S
    BY <2>6, <2>7, <2>8, <2>9, <2>10, <2>11
  <2> QED
    BY <2>2, <2>3, <2>8, <2>12
<1>4. QED
  BY <1>3

LEMMA NoCycle == ASSUME IInv PROVE NoWaitCycle
<1>1. Typed /\ Shaped /\ Queued /\ Known
  BY DEF IInv
<1>2. ASSUME NEW t \in Task, tasks[t].st = "lock"
      PROVE  Alive(Head(lock[calls[tasks[t].plan].agent]))
  <2>1. InLine(t)
    BY <1>2 DEF InLine, Alive
  <2>2. PICK i \in 1..Len(lock[Aim(t)]) : lock[Aim(t)][i] = t
    BY <1>1, <2>1 DEF Queued
  <2>3. Aim(t) \in Agents /\ lockLoop[Aim(t)] = loop
    <3>1. Announced(tasks[t].plan) /\ lockLoop[Aim(t)] = loop
      BY <1>1, <2>1 DEF Queued, Known
    <3> QED
      BY <1>1, <3>1 DEF Known, Aim, Announced
  <2>4. lock[Aim(t)] \in Seq(Task)
    BY <1>1, <2>3 DEF Typed
  <2>5. PICK n \in Nat : n = Len(lock[Aim(t)])
    BY <2>4, LenProperties
  <2>6. 1 \in 1..n /\ lock[Aim(t)] # <<>>
    <3>1. n # 0
      BY <2>2, <2>5
    <3> QED
      BY <2>4, <2>5, <3>1, EmptySeq
  <2>7. Head(lock[Aim(t)]) = lock[Aim(t)][1]
    BY <2>4, <2>6, HeadFirst
  <2>8. InLine(lock[Aim(t)][1])
    BY <1>1, <2>3, <2>5, <2>6 DEF Queued
  <2> QED
    BY <2>7, <2>8 DEF InLine, Aim
<1>3. ASSUME NEW t \in Task, tasks[t].st = "lock", NEW u \in Task, NEW a \in Agents,
             t \in Awaited(u), Holds(u, a)
      PROVE  FALSE
  <2>1. Locked(u)
    BY <1>3, HolderFirst
  <2>2. t # u
    BY <1>1, <1>3, <2>1 DEF Shaped, Locked
  <2>3. ~tasks[u].ctx.session
    BY <1>3, <2>2, AwaitedOutside
  <2> QED
    BY <2>1, <2>3, BaseOutside
<1>4. QED
  BY <1>2, <1>3 DEF NoWaitCycle

LEMMA ContextsFollow == ASSUME IInv PROVE ContextFollows
<1>1. Typed /\ Paths
  BY DEF IInv
<1>2. ASSUME NEW t \in Task
      PROVE  LET fs == tasks[t].frames
                 within[i \in 0..Len(fs)] ==
                     IF i = 0 THEN tasks[t].base ELSE Added(within[i - 1], fs[i])
             IN tasks[t].ctx = within[Len(fs)]
  <2>1. PICK n \in Nat : n = Len(tasks[t].frames)
    BY <1>1, TasksType
  <2>2. PICK p \in [0..n -> Context] : Follows(tasks[t], calls, p)
    BY <1>1, <2>1 DEF Paths
  <2>3. p[0] = tasks[t].base /\ p[n] = tasks[t].ctx
    BY <2>1, <2>2 DEF Follows
  <2>4. \A i \in 1..n : p[i] = Added(p[i - 1], tasks[t].frames[i])
    BY <2>1, <2>2 DEF Follows, Added, AddedBy
  <2>5. p = [i \in 0..n |-> p[i]]
    OBVIOUS
  <2> DEFINE b == tasks[t].base
             fs == tasks[t].frames
             within[i \in 0..n] == IF i = 0 THEN b ELSE Added(within[i - 1], fs[i])
  <2>6. within[n] = p[n]
    <3>1. p[0] = b /\ \A i \in 1..n : p[i] = Added(p[i - 1], fs[i])
      BY <2>3, <2>4
    <3> HIDE DEF b, fs
    <3>2. p = [i \in 0..n |-> IF i = 0 THEN b ELSE Added(p[i - 1], fs[i])]
      <4> DEFINE q == [i \in 0..n |-> IF i = 0 THEN b ELSE Added(p[i - 1], fs[i])]
      <4>1. \A i \in 0..n : q[i] = p[i]
        <5>1. TAKE i \in 0..n
        <5>2. CASE i = 0
          BY <3>1, <5>2
        <5>3. CASE i # 0
          <6>1. i \in 1..n
            BY <5>3
          <6> QED
            BY <3>1, <5>3, <6>1
        <5> QED
          BY <5>2, <5>3
      <4>2. q = [i \in 0..n |-> q[i]]
        OBVIOUS
      <4> HIDE DEF q
      <4>3. q = [i \in 0..n |-> p[i]]
        BY <4>1, <4>2
      <4> QED
        BY <2>5, <4>3 DEF q
    <3>3. within = [i \in 0..n |-> IF i = 0 THEN b ELSE Added(within[i - 1], fs[i])]
      BY <3>2, Zenon
    <3> HIDE DEF within
    <3>4. \A i \in 0..n : within[i] = IF i = 0 THEN b ELSE Added(within[i - 1], fs[i])
      BY <3>3
    <3>5. within[0] = p[0]
      BY <3>1, <3>4
    <3>6. \A i \in 1..n : within[i] = Added(within[i - 1], fs[i])
      BY <3>4
    <3>7. n \in Nat
      BY <2>1
    <3> DEFINE S == {i \in 0..n : within[i] # p[i]}
    <3>8. ASSUME S # {} PROVE FALSE
      <4>1. S \subseteq Nat
        OBVIOUS
      <4>2. PICK i \in S : \A j \in S : i <= j
        BY <3>8, <4>1, LeastNat, Zenon
      <4>3. i \in 0..n /\ within[i] # p[i]
        OBVIOUS
      <4>4. i # 0
        BY <4>3, <3>5
      <4>5. i \in 1..n /\ i - 1 \in 0..n /\ ~(i - 1 \in S)
        BY <3>7, <4>2, <4>3, <4>4
      <4>6. within[i - 1] = p[i - 1]
        BY <4>5
      <4>7. within[i] = Added(within[i - 1], fs[i]) /\ p[i] = Added(p[i - 1], fs[i])
        BY <3>1, <3>6, <4>5
      <4> QED
        BY <4>3, <4>6, <4>7
    <3> QED
      BY <3>7, <3>8
  <2> QED
    BY <2>1, <2>3, <2>6
<1>3. QED
  BY <1>2 DEF ContextFollows

LEMMA TopIsOutermost == ASSUME IInv PROVE TopLevelOutermost
<1>1. ASSUME NEW t \in Task, NEW i \in DOMAIN tasks[t].ctx.stack
      PROVE  calls[tasks[t].ctx.stack[i]].top <=> i = 1
  <2>1. Standing(calls, tasks[t].ctx) /\ tasks[t].ctx.stack \in Seq(Call)
    BY ContextStands, TasksType DEF IInv, Context
  <2>2. i \in 1..Len(tasks[t].ctx.stack)
    BY <2>1, LenProperties
  <2> QED
    BY <2>1, <2>2 DEF Standing
<1>2. QED
  BY <1>1 DEF TopLevelOutermost

LEMMA StackOpen == ASSUME IInv PROVE StackIsOpen
<1>1. Typed /\ Shaped /\ OpenCalls
  BY DEF IInv
<1>2. ASSUME NEW t \in Task, Alive(t), Plain, NEW i \in DOMAIN tasks[t].ctx.stack
      PROVE  calls[tasks[t].ctx.stack[i]].out = "open"
  <2>1. tasks[t].ctx.stack \in Seq(Call)
    BY <1>1, TasksType DEF Context
  <2>2. i \in 1..Len(tasks[t].ctx.stack) /\ tasks[t].ctx.stack[i] \in Call
    BY <2>1, LenProperties, ElementOfSeq
  <2>3. PICK c \in Call : c = tasks[t].ctx.stack[i]
    BY <2>2
  <2>4. Listed(c, tasks[t].ctx.stack)
    BY <2>2, <2>3 DEF Listed
  <2> QED
    BY <1>2, <2>3, <2>4, HandedOn
<1>3. ASSUME NEW t \in Task, tasks[t].st = "done", NEW c \in Call, calls[c].task = t
      PROVE  calls[c].out # "open"
  <2>1. tasks[t].frames = <<>> /\ Len(tasks[t].frames) = 0
    BY <1>1, <1>3, TasksType DEF Shaped
  <2>2. t # Nobody
    BY DEF Task, Nobody
  <2> QED
    BY <1>1, <1>3, <2>1, <2>2 DEF OpenCalls, Announced
<1>4. QED
  BY <1>2, <1>3 DEF StackIsOpen, Plain

-----------------------------------------------------------------------------
(* The properties.                                                         *)

(* Tasks, frames, context variables and calls keep their types, and the    *)
(* call stack its depth (runtime/actor.py, runtime/method_wrapper.py).     *)
THEOREM Types == Spec => []TypeOK
<1>1. IInv /\ Deep => TypeOK
  BY TypesHold
<1>2. QED
  BY <1>1, Safety, PTL

(* Sessions opened from outside (_execute_task takes the generation lock)  *)
(* are serialised per agent: cancelled waiters and a lock replaced on      *)
(* another event loop (_ensure_generation_lock_on_current_loop) included.  *)
THEOREM SessionsAreSerialised == Spec => []OneRootSession
<1>1. IInv /\ Deep => OneRootSession
  BY RootsSerialised
<1>2. QED
  BY <1>1, Safety, PTL

(* A task that waits for a generation lock waits for a live one, and the   *)
(* tasks that await it hold none: inside a session _execute_task takes no  *)
(* lock, so generated code may call its own agent.                         *)
THEOREM NoDeadlock == Spec => []NoWaitCycle
<1>1. IInv /\ Deep => NoWaitCycle
  BY NoCycle
<1>2. QED
  BY <1>1, Safety, PTL

(* The wrapper and _execute_with_generation restore the context variables  *)
(* to what they were, whether a frame returns, raises or is cancelled.     *)
THEOREM ContextTells == Spec => []ContextKept
<1>1. IInv /\ Deep => ContextKept
  BY ContextsFollow, TopIsOutermost DEF ContextKept
<1>2. QED
  BY <1>1, Safety, PTL

(* Events are filed under a call that is open (_agent_call_stack_var) as   *)
(* long as no task outlives the frame that created it, and a task that is  *)
(* done has closed its calls (AfterAgentCall).                             *)
THEOREM StackTells == Spec => []StackIsOpen
<1>1. IInv /\ Deep => StackIsOpen
  BY StackOpen
<1>2. QED
  BY <1>1, Safety, PTL

-----------------------------------------------------------------------------
(* Background jobs (module Jobs, runtime/channels.py).                     *)

\* StreamEnd comes with the end of the task, and not before.
Emitted == \A j \in Job : place[j] # "ended" => streamEnd[j] = 0

\* A task that ended without settling its state, or is bound to (it was
\* cancelled before it first ran), has a caller who will.
AwaitedBy(j) == \E u \in Caller : /\ call[u].op # "idle" /\ call[u].left # {}
                                  /\ Earliest(call[u].left) = j
Unsettling(j) == state[j] = "running" /\ (place[j] = "ended" \/ (place[j] = "ready" /\ cancel[j]))
SomeoneSettles == \A j \in Job : Unsettling(j) => AwaitedBy(j)

\* A caller that waits has a handle to wait for.
Waiting == \A u \in Caller : call[u] = Idle \/ (call[u].op # "idle" /\ call[u].left # {})

JobsInv == JobsTypeOK /\ Emitted /\ SomeoneSettles /\ Waiting /\ StatusHonest /\ CancelAwaits

-----------------------------------------------------------------------------
LEMMA LatestFacts ==
    ASSUME NEW js \in SUBSET Job, js # {}
    PROVE  Latest(js) \in js
<1> DEFINE T == {MaxJob - j : j \in js}
<1>1. MaxJob \in Nat /\ \A j \in js : j \in Nat /\ MaxJob - j \in Nat
  BY ConstantsAssumption DEF Job
<1>2. T \subseteq Nat /\ T # {}
  BY <1>1
<1>3. PICK m \in T : \A n \in T : m <= n
  <2> HIDE DEF T
  <2> QED
    BY <1>2, LeastNat
<1>4. PICK k \in js : m = MaxJob - k
  OBVIOUS
<1>5. ASSUME NEW i \in js PROVE i <= k
  <2>1. MaxJob - i \in T
    OBVIOUS
  <2>2. MaxJob - k <= MaxJob - i
    BY <1>3, <1>4, <2>1
  <2> QED
    BY <1>1, <2>2
<1> QED
  BY <1>5 DEF Latest

LEMMA EarliestFacts ==
    ASSUME NEW js \in SUBSET Job, js # {}
    PROVE  Earliest(js) \in js /\ \A i \in js : Earliest(js) <= i
<1>1. js \subseteq Nat
  BY ConstantsAssumption DEF Job
<1>2. QED
  BY <1>1, LeastNat DEF Earliest

\* The handles passed over are over, the first one left is not.
LEMMA UnendedFacts ==
    ASSUME NEW js \in SUBSET Job
    PROVE  /\ Unended(js) \in SUBSET Job
           /\ \A j \in js \ Unended(js) : place[j] = "ended"
           /\ Unended(js) # {} => Earliest(Unended(js)) \in js /\ place[Earliest(Unended(js))] # "ended"
<1>1. Unended(js) \subseteq js /\ js \subseteq Nat
  BY ConstantsAssumption DEF Unended, Job
<1>2. \A j \in js \ Unended(js) : place[j] = "ended"
  BY <1>1 DEF Unended
<1>3. ASSUME Unended(js) # {}
      PROVE  Earliest(Unended(js)) \in js /\ place[Earliest(Unended(js))] # "ended"
  <2>1. Earliest(Unended(js)) \in Unended(js) /\ \A i \in Unended(js) : Earliest(Unended(js)) <= i
    BY <1>1, <1>3, EarliestFacts
  <2>2. PICK i \in js : i <= Earliest(Unended(js)) /\ place[i] # "ended"
    BY <2>1 DEF Unended
  <2>3. i \in Unended(js)
    BY <1>1, <2>2 DEF Unended
  <2>4. i = Earliest(Unended(js))
    <3>1. Earliest(Unended(js)) \in Nat /\ i \in Nat /\ Earliest(Unended(js)) <= i
      BY <1>1, <2>1, <2>3
    <3> QED
      BY <3>1, <2>2
  <2>5. QED
    BY <2>2, <2>4
<1>4. QED
  BY <1>1, <1>2, <1>3

-----------------------------------------------------------------------------
(* What a step of a cancelling caller does.                                *)
CallerRec == [op : {"idle", "handle", "cancel", "shutdown"}, left : SUBSET Job,
            chan : Channel, due : SUBSET Job]
Promises == [cancel : SUBSET Job, shutdown : SUBSET Job]

LEMMA IdleType ==
    /\ Idle \in CallerRec /\ Idle.op = "idle" /\ Idle.left = {} /\ Idle.chan \in Channel
BY ConstantsAssumption DEF Idle, CallerRec

LEMMA PromisesType ==
    ASSUME NEW p \in Promises, NEW op, NEW due \in SUBSET Job
    PROVE  [o \in DOMAIN p |-> IF o = op THEN p[o] \cup due ELSE p[o]] \in Promises
BY DEF Promises

LEMMA CancelHandlesFacts ==
    ASSUME JobsTypeOK, NEW u \in Caller, NEW op \in {"handle", "cancel", "shutdown"},
           NEW js \in SUBSET Job, NEW c \in Channel, NEW due \in SUBSET Job,
           CancelHandles(u, op, js, c, due)
    PROVE  /\ cancel' \in [Job -> BOOLEAN] /\ items' \in [Channel -> Seq(Job)]
           /\ call' \in [Caller -> CallerRec] /\ stopped' \subseteq Job /\ promised' \in Promises
           /\ stopped' \subseteq stopped \cup {j \in Job : place[j] = "ended"}
           /\ \A v \in Caller \ {u} : call'[v] = call[v]
           /\ call'[u] = Idle \/ (call'[u].op # "idle" /\ call'[u].left # {})
           /\ \A j \in Job : cancel'[j] # cancel[j] =>
                 /\ call'[u].op # "idle" /\ call'[u].left # {} /\ Earliest(call'[u].left) = j
           /\ call'[u] = Idle /\ op = "cancel" /\ c \in registered => items'[c] = <<>>
<1> DEFINE rest == Unended(js)
<1>1. /\ rest \in SUBSET Job /\ \A j \in js \ rest : place[j] = "ended"
      /\ rest # {} => Earliest(rest) \in js /\ place[Earliest(rest)] # "ended"
  BY UnendedFacts
<1>2. /\ stopped' = stopped \cup (js \ rest)
      /\ IF rest = {}
         THEN Returned(u, op, due) /\ FlushIf(op, c) /\ UNCHANGED cancel
         ELSE /\ cancel' = [cancel EXCEPT ![Earliest(rest)] = TRUE]
              /\ Waits(u, op, js, c, due) /\ UNCHANGED items
  BY DEF CancelHandles
<1>3. /\ stopped' \subseteq Job
      /\ stopped' \subseteq stopped \cup {j \in Job : place[j] = "ended"}
  BY <1>1, <1>2 DEF JobsTypeOK
<1>4. /\ call \in [Caller -> CallerRec] /\ promised \in Promises
  BY DEF JobsTypeOK, CallerRec, Promises
<1>5. CASE rest = {}
  <2>1. call' = [call EXCEPT ![u] = Idle] /\ promised' \in Promises
    BY <1>2, <1>4, <1>5, PromisesType DEF Returned
  <2>2. items' \in [Channel -> Seq(Job)] /\ (op = "cancel" /\ c \in registered => items'[c] = <<>>)
    <3>1. <<>> \in Seq(Job)
      OBVIOUS
    <3> QED
      BY <1>2, <1>5, <3>1 DEF FlushIf, JobsTypeOK
  <2>3. cancel' = cancel
    BY <1>2, <1>5
  <2> HIDE DEF rest
  <2>4. QED
    BY <1>3, <1>4, <2>1, <2>2, <2>3, IdleType DEF JobsTypeOK
<1>6. CASE rest # {}
  <2> DEFINE k == [op |-> op, left |-> rest, chan |-> c, due |-> due]
  <2>1. call' = [call EXCEPT ![u] = k] /\ promised' = promised
    BY <1>2, <1>6 DEF Waits
  <2>2. k \in CallerRec /\ k.op # "idle" /\ k.left = rest /\ k # Idle
    BY <1>1 DEF CallerRec, Idle
  <2>3. cancel' = [cancel EXCEPT ![Earliest(rest)] = TRUE] /\ items' = items
    BY <1>2, <1>6
  <2> HIDE DEF rest, k
  <2>4. call'[u] = k /\ call' \in [Caller -> CallerRec]
    BY <1>4, <2>1, <2>2
  <2>5. QED
    BY <1>3, <1>4, <1>6, <2>1, <2>2, <2>3, <2>4 DEF JobsTypeOK
<1>7. QED
  BY <1>5, <1>6

-----------------------------------------------------------------------------
(* The invariant holds initially, and every step keeps it.                 *)
LEMMA JobsInitInv == JobsInit => JobsInv
<1> SUFFICES ASSUME JobsInit PROVE JobsInv
  OBVIOUS
<1>1. Idle \in CallerRec /\ <<>> \in Seq(Job) /\ (CHOOSE c \in Channel : TRUE) \in Channel
  BY IdleType, ConstantsAssumption
<1>2. JobsTypeOK
  BY <1>1 DEF JobsInit, JobsTypeOK, CallerRec
<1>3. QED
  BY <1>2 DEF JobsInit, JobsInv, Emitted, SomeoneSettles, Unsettling, Waiting, StatusHonest, CancelAwaits

LEMMA SpawnInv ==
    ASSUME JobsInv, NEW j \in Job, NEW c \in Channel, SpawnJob(j, c)
    PROVE  JobsInv'
<1>1. JobsTypeOK'
  BY DEF JobsInv, SpawnJob, JobsTypeOK
<1>2. Emitted' /\ StatusHonest' /\ CancelAwaits' /\ Waiting'
  BY DEF JobsInv, SpawnJob, JobsTypeOK, Emitted, StatusHonest, CancelAwaits, Waiting
<1>3. SomeoneSettles'
  <2>1. ASSUME NEW i \in Job, Unsettling(i)' PROVE AwaitedBy(i)'
    <3>1. CASE i = j
      BY <2>1, <3>1 DEF JobsInv, SpawnJob, JobsTypeOK, Unsettling
    <3>2. CASE i # j
      BY <2>1, <3>2 DEF JobsInv, SpawnJob, JobsTypeOK, SomeoneSettles, Unsettling, AwaitedBy
    <3> QED
      BY <3>1, <3>2
  <2> QED
    BY <2>1 DEF SomeoneSettles
<1>4. QED
  BY <1>1, <1>2, <1>3 DEF JobsInv

LEMMA GoOnInv ==
    ASSUME JobsInv, NEW j \in Job, GoOn(j), items' \in [Channel -> Seq(Job)]
    PROVE  JobsInv'
<1>1. JobsTypeOK'
  BY DEF JobsInv, GoOn, JobsTypeOK
<1>2. Emitted' /\ StatusHonest' /\ CancelAwaits' /\ Waiting'
  BY DEF JobsInv, GoOn, Runs, Outstanding, JobsTypeOK, Emitted, StatusHonest, CancelAwaits, Waiting
<1>3. SomeoneSettles'
  BY DEF JobsInv, GoOn, Runs, Outstanding, JobsTypeOK, SomeoneSettles, Unsettling, AwaitedBy
<1>4. QED
  BY <1>1, <1>2, <1>3 DEF JobsInv

LEMMA FinishInv ==
    ASSUME JobsInv, NEW j \in Job, NEW s \in {"done", "failed", "cancelled"},
           NEW last \in Seq(Job), Finish(j, s, last)
    PROVE  JobsInv'
<1>1. streamEnd[j] = 0 /\ j \in Outstanding
  BY DEF JobsInv, Finish, Runs, Outstanding, Emitted
<1>2. JobsTypeOK'
  <2>1. items' \in [Channel -> Seq(Job)]
    BY DEF JobsInv, Finish, JobsTypeOK
  <2>2. streamEnd' \in [Job -> 0..1]
    BY <1>1 DEF JobsInv, Finish, EmitStreamEnd, JobsTypeOK
  <2> QED
    BY <2>1, <2>2 DEF JobsInv, Finish, JobsTypeOK
<1>3. Emitted' /\ StatusHonest' /\ CancelAwaits' /\ Waiting'
  BY DEF JobsInv, Finish, EmitStreamEnd, Runs, Outstanding, JobsTypeOK, Emitted, StatusHonest, CancelAwaits, Waiting
<1>4. SomeoneSettles'
  BY DEF JobsInv, Finish, Runs, Outstanding, JobsTypeOK, SomeoneSettles, Unsettling, AwaitedBy
<1>5. QED
  BY <1>2, <1>3, <1>4 DEF JobsInv

LEMMA NeverRanInv ==
    ASSUME JobsInv, NEW j \in Job, NeverRan(j)
    PROVE  JobsInv'
<1>1. JobsTypeOK'
  BY DEF JobsInv, NeverRan, JobsTypeOK
<1>2. Emitted' /\ StatusHonest' /\ CancelAwaits' /\ Waiting'
  BY DEF JobsInv, NeverRan, JobsTypeOK, Emitted, StatusHonest, CancelAwaits, Waiting
<1>3. SomeoneSettles'
  BY DEF JobsInv, NeverRan, JobsTypeOK, SomeoneSettles, Unsettling, AwaitedBy
<1>4. QED
  BY <1>1, <1>2, <1>3 DEF JobsInv

\* A caller that was idle begins to cancel the jobs in js.
LEMMA CancelInv ==
    ASSUME JobsInv, NEW u \in Caller, NEW op \in {"handle", "cancel", "shutdown"},
           NEW js \in SUBSET Job, NEW c \in Channel, NEW due \in SUBSET Job,
           call[u] = Idle, CancelHandles(u, op, js, c, due), handles' \subseteq handles,
           UNCHANGED <<registered, chan, state, place, unwinding, streamEnd>>
    PROVE  JobsInv'
<1>2. /\ cancel' \in [Job -> BOOLEAN] /\ items' \in [Channel -> Seq(Job)]
      /\ call' \in [Caller -> CallerRec] /\ stopped' \subseteq Job /\ promised' \in Promises
      /\ stopped' \subseteq stopped \cup {j \in Job : place[j] = "ended"}
      /\ \A v \in Caller \ {u} : call'[v] = call[v]
      /\ call'[u] = Idle \/ (call'[u].op # "idle" /\ call'[u].left # {})
      /\ \A j \in Job : cancel'[j] # cancel[j] =>
            /\ call'[u].op # "idle" /\ call'[u].left # {} /\ Earliest(call'[u].left) = j
  BY CancelHandlesFacts DEF JobsInv
<1>3. JobsTypeOK'
  BY <1>2 DEF JobsInv, JobsTypeOK, CallerRec, Promises
<1>4. Emitted' /\ StatusHonest' /\ CancelAwaits' /\ Waiting'
  <2>1. Idle' = Idle
    BY DEF Idle
  <2> QED
    BY <1>2, <2>1 DEF JobsInv, Emitted, StatusHonest, CancelAwaits, Waiting
<1>5. SomeoneSettles'
  <2>1. ASSUME NEW j \in Job, Unsettling(j)' PROVE AwaitedBy(j)'
    <3>1. CASE Unsettling(j)
      <4>1. PICK v \in Caller : call[v].op # "idle" /\ call[v].left # {} /\ Earliest(call[v].left) = j
        BY <3>1 DEF JobsInv, SomeoneSettles, AwaitedBy
      <4>2. v # u
        BY <4>1 DEF Idle
      <4> QED
        BY <1>2, <4>1, <4>2 DEF AwaitedBy
    <3>2. CASE ~Unsettling(j)
      <4>1. cancel'[j] # cancel[j]
        BY <2>1, <3>2 DEF Unsettling
      <4> QED
        BY <1>2, <4>1 DEF AwaitedBy
    <3> QED
      BY <3>1, <3>2
  <2> QED
    BY <2>1 DEF SomeoneSettles
<1>6. QED
  BY <1>3, <1>4, <1>5 DEF JobsInv

\* The task a caller awaited is over: its state is settled, the rest goes on.
LEMMA ResumeInv ==
    ASSUME JobsInv, NEW u \in Caller, Resume(u)
    PROVE  JobsInv'
<1> DEFINE k  == call[u]
           j0 == Earliest(k.left)
<1>1. /\ call[u] # Idle /\ place[j0] = "ended"
      /\ StateSettled(j0)
      /\ CancelHandles(u, k.op, k.left, k.chan, k.due)
      /\ UNCHANGED <<registered, handles, chan, place, unwinding, streamEnd>>
  BY DEF Resume
<1>2. k \in CallerRec /\ k.op # "idle" /\ k.left # {}
  BY <1>1 DEF JobsInv, JobsTypeOK, Waiting, CallerRec
<1>3. /\ k.op \in {"handle", "cancel", "shutdown"} /\ k.left \in SUBSET Job
      /\ k.chan \in Channel /\ k.due \in SUBSET Job
  BY <1>2 DEF CallerRec
<1>4. j0 \in Job
  <2> HIDE DEF k
  <2> QED
    BY <1>2, <1>3, EarliestFacts
<1>5. /\ cancel' \in [Job -> BOOLEAN] /\ items' \in [Channel -> Seq(Job)]
      /\ call' \in [Caller -> CallerRec] /\ stopped' \subseteq Job /\ promised' \in Promises
      /\ stopped' \subseteq stopped \cup {j \in Job : place[j] = "ended"}
      /\ \A v \in Caller \ {u} : call'[v] = call[v]
      /\ call'[u] = Idle \/ (call'[u].op # "idle" /\ call'[u].left # {})
      /\ \A j \in Job : cancel'[j] # cancel[j] =>
            /\ call'[u].op # "idle" /\ call'[u].left # {} /\ Earliest(call'[u].left) = j
  <2> HIDE DEF k
  <2> QED
    BY <1>1, <1>3, CancelHandlesFacts DEF JobsInv
<1>6. /\ state' \in [Job -> {"none", "running", "done", "failed", "cancelled"}]
      /\ state'[j0] # "running" /\ \A j \in Job \ {j0} : state'[j] = state[j]
  <2> HIDE DEF j0
  <2> QED
    BY <1>1, <1>4 DEF JobsInv, JobsTypeOK, StateSettled
<1>7. JobsTypeOK'
  BY <1>1, <1>5, <1>6 DEF JobsInv, JobsTypeOK, CallerRec, Promises
<1>8. Emitted' /\ CancelAwaits' /\ Waiting'
  <2>1. Idle' = Idle
    BY DEF Idle
  <2> QED
    BY <1>1, <1>5, <2>1 DEF JobsInv, Emitted, CancelAwaits, Waiting
<1>9. StatusHonest'
  <2> HIDE DEF j0
  <2> QED
    BY <1>1, <1>6 DEF JobsInv, JobsTypeOK, StatusHonest
<1>10. SomeoneSettles'
  <2>1. ASSUME NEW j \in Job, Unsettling(j)' PROVE AwaitedBy(j)'
    <3>0. j # j0 /\ state[j] = "running"
      BY <1>6, <2>1 DEF Unsettling
    <3>1. CASE Unsettling(j)
      <4>1. PICK v \in Caller : call[v].op # "idle" /\ call[v].left # {} /\ Earliest(call[v].left) = j
        BY <3>1 DEF JobsInv, SomeoneSettles, AwaitedBy
      <4>2. v # u
        BY <4>1, <3>0
      <4> QED
        BY <1>5, <4>1, <4>2 DEF AwaitedBy
    <3>2. CASE ~Unsettling(j)
      <4>1. cancel'[j] # cancel[j]
        BY <1>1, <2>1, <3>0, <3>2 DEF Unsettling
      <4> QED
        BY <1>5, <4>1 DEF AwaitedBy
    <3> QED
      BY <3>1, <3>2
  <2> QED
    BY <2>1 DEF SomeoneSettles
<1>11. QED
  BY <1>7, <1>8, <1>9, <1>10 DEF JobsInv

LEMMA CallerCancelledInv ==
    ASSUME JobsInv, NEW u \in Caller, CallerCancelled(u)
    PROVE  JobsInv'
<1> DEFINE j0 == Earliest(call[u].left)
<1>1. call[u].op # "idle" /\ call[u].left # {} /\ call[u] \in CallerRec
  BY DEF JobsInv, Waiting, JobsTypeOK, CallerRec, CallerCancelled
<1>2. cancel' = [cancel EXCEPT ![j0] = TRUE]
  BY DEF CallerCancelled
<1>3. UNCHANGED <<registered, handles, chan, state, place, unwinding, items, streamEnd, call, stopped, promised>>
  BY DEF CallerCancelled
<1>4. cancel' \in [Job -> BOOLEAN] /\ \A j \in Job \ {j0} : cancel'[j] = cancel[j]
  BY <1>2 DEF JobsInv, JobsTypeOK
<1>5. JobsTypeOK'
  BY <1>3, <1>4 DEF JobsInv, JobsTypeOK
<1>6. Emitted' /\ StatusHonest' /\ CancelAwaits' /\ Waiting'
  <2>1. Idle' = Idle
    BY DEF Idle
  <2> QED
    BY <1>3, <2>1 DEF JobsInv, Emitted, StatusHonest, CancelAwaits, Waiting
<1>7. SomeoneSettles'
  <2>1. ASSUME NEW j \in Job, Unsettling(j)' PROVE AwaitedBy(j)
    <3>1. CASE j = j0
      BY <1>1, <3>1 DEF AwaitedBy
    <3>2. CASE j # j0
      BY <1>3, <1>4, <2>1, <3>2 DEF JobsInv, SomeoneSettles, Unsettling
    <3> QED
      BY <3>1, <3>2
  <2>2. ASSUME NEW j \in Job, AwaitedBy(j) PROVE AwaitedBy(j)'
    BY <1>3, <2>2 DEF AwaitedBy
  <2> QED
    BY <2>1, <2>2 DEF SomeoneSettles
<1>8. QED
  BY <1>5, <1>6, <1>7 DEF JobsInv

LEMMA RemoveChannelInv ==
    ASSUME JobsInv, NEW c \in Channel, RemoveChannel(c)
    PROVE  JobsInv'
<1> DEFINE its == {j \in handles : chan[j] = c}
<1>1. /\ registered' = registered \ {c}
      /\ items' = [items EXCEPT ![c] = <<>>]
      /\ cancel' = [j \in Job |-> cancel[j] \/ (j \in its /\ place[j] # "ended")]
      /\ state' = [j \in Job |-> IF j \in its /\ state[j] = "running" THEN "cancelled" ELSE state[j]]
      /\ handles' = {j \in handles : chan[j] # c}
      /\ UNCHANGED <<chan, place, unwinding, streamEnd, call, stopped, promised>>
  BY DEF RemoveChannel, ForgetHandles
<1>2. JobsTypeOK'
  <2>1. <<>> \in Seq(Job)
    OBVIOUS
  <2>2. items' \in [Channel -> Seq(Job)]
    BY <1>1, <2>1 DEF JobsInv, JobsTypeOK
  <2>3. state' \in [Job -> {"none", "running", "done", "failed", "cancelled"}]
    BY <1>1 DEF JobsInv, JobsTypeOK
  <2>4. cancel' \in [Job -> BOOLEAN]
    <3> HIDE DEF its
    <3> QED
      BY <1>1, Zenon
  <2> QED
    BY <1>1, <2>2, <2>3, <2>4 DEF JobsInv, JobsTypeOK
<1>3. Emitted' /\ CancelAwaits' /\ Waiting'
  <2>1. Idle' = Idle
    BY DEF Idle
  <2> QED
    BY <1>1, <2>1 DEF JobsInv, Emitted, CancelAwaits, Waiting
<1>4. StatusHonest'
  BY <1>1 DEF JobsInv, JobsTypeOK, StatusHonest
<1>5. SomeoneSettles'
  <2>1. ASSUME NEW j \in Job, Unsettling(j)' PROVE Unsettling(j)
    <3>1. j \notin its /\ state[j] = "running"
      BY <1>1, <2>1 DEF Unsettling
    <3>2. cancel'[j] = cancel[j]
      BY <1>1, <3>1 DEF JobsInv, JobsTypeOK
    <3> QED
      BY <1>1, <2>1, <3>1, <3>2 DEF Unsettling
  <2>2. ASSUME NEW j \in Job, AwaitedBy(j) PROVE AwaitedBy(j)'
    BY <1>1, <2>2 DEF AwaitedBy
  <2> QED
    BY <2>1, <2>2 DEF JobsInv, SomeoneSettles
<1>6. QED
  BY <1>2, <1>3, <1>4, <1>5 DEF JobsInv

LEMMA UnchangedInv ==
    ASSUME JobsInv, UNCHANGED <<registered, handles, taskVars, call, stopped, promised>>,
           items' \in [Channel -> Seq(Job)]
    PROVE  JobsInv'
<1>1. JobsTypeOK'
  BY DEF JobsInv, JobsTypeOK, taskVars
<1>2. Emitted' /\ StatusHonest' /\ CancelAwaits'
  BY DEF JobsInv, taskVars, Emitted, StatusHonest, CancelAwaits
<1>3. Waiting'
  BY DEF JobsInv, Waiting, Idle
<1>4. SomeoneSettles'
  BY DEF JobsInv, taskVars, SomeoneSettles, Unsettling, AwaitedBy
<1>5. QED
  BY <1>1, <1>2, <1>3, <1>4 DEF JobsInv

LEMMA CallsInv ==
    ASSUME JobsInv, NEW u \in Caller,
           \/ Shutdown(u) \/ \E j \in Job : HandleCancel(u, j)
           \/ \E c \in Channel : CancelChannel(u, c)
    PROVE  JobsInv'
<1>0. handles \in SUBSET Job /\ chan \in [Job -> Channel] /\ Outstanding \in SUBSET Job
  BY DEF JobsInv, JobsTypeOK, Outstanding
<1>1. CASE Shutdown(u)
  BY <1>0, <1>1, IdleType, CancelInv DEF Shutdown
<1>2. ASSUME NEW j \in Job, HandleCancel(u, j) PROVE JobsInv'
  BY <1>0, <1>2, CancelInv DEF HandleCancel
<1>3. ASSUME NEW c \in Channel, CancelChannel(u, c) PROVE JobsInv'
  <2>1. {j \in handles : chan[j] = c} # {} /\ {j \in handles : chan[j] = c} \in SUBSET Job
    BY <1>0, <1>3 DEF CancelChannel
  <2>2. {MostRecent(c)} \in SUBSET Job
    BY <2>1, LatestFacts DEF MostRecent
  <2>3. {j \in Outstanding : chan[j] = c} \in SUBSET Job
    BY <1>0
  <2> QED
    BY <1>0, <1>3, <2>2, <2>3, CancelInv DEF CancelChannel
<1>4. QED
  BY <1>1, <1>2, <1>3

LEMMA JobInv ==
    ASSUME JobsInv, NEW j \in Job, JobStep(j)
    PROVE  JobsInv'
<1>0. items \in [Channel -> Seq(Job)] /\ <<>> \in Seq(Job) /\ <<j>> \in Seq(Job)
  BY DEF JobsInv, JobsTypeOK
<1>1. CASE Await(j)
  BY <1>0, <1>1, GoOnInv DEF Await
<1>2. CASE Yield(j)
  <2>1. items' = [items EXCEPT ![chan[j]] = Append(@, j)]
    BY <1>2 DEF Yield
  <2>2. chan[j] \in Channel
    BY DEF JobsInv, JobsTypeOK
  <2>3. items' \in [Channel -> Seq(Job)]
    BY <1>0, <2>1, <2>2
  <2> QED
    BY <1>2, <2>3, GoOnInv DEF Yield
<1>3. CASE Return(j)
  BY <1>0, <1>3, FinishInv DEF Return
<1>4. CASE Fail(j)
  BY <1>0, <1>4, FinishInv DEF Fail
<1>5. CASE Unwound(j)
  BY <1>0, <1>5, FinishInv DEF Unwound
<1>6. CASE NeverRan(j)
  BY <1>6, NeverRanInv
<1>7. QED
  BY <1>1, <1>2, <1>3, <1>4, <1>5, <1>6 DEF JobStep

LEMMA JobsStepInv == JobsInv /\ [JobsNext]_queueVars => JobsInv'
<1> SUFFICES ASSUME JobsInv, [JobsNext]_queueVars PROVE JobsInv'
  OBVIOUS
<1>1. ASSUME NEW j \in Job, JobStep(j) PROVE JobsInv'
  BY <1>1, JobInv
<1>2. ASSUME NEW j \in Job, NEW c \in Channel, SpawnJob(j, c) PROVE JobsInv'
  BY <1>2, SpawnInv
<1>3. ASSUME NEW u \in Caller,
             \/ Shutdown(u) \/ Resume(u) \/ CallerCancelled(u)
             \/ \E j \in Job : HandleCancel(u, j)
             \/ \E c \in Channel : CancelChannel(u, c)
      PROVE  JobsInv'
  BY <1>3, CallsInv, ResumeInv, CallerCancelledInv
<1>4. ASSUME NEW c \in Channel, RemoveChannel(c) PROVE JobsInv'
  BY <1>4, RemoveChannelInv
<1>5. ASSUME NEW c \in Channel, Consume(c) PROVE JobsInv'
  <2>1. items' \in [Channel -> Seq(Job)]
    BY <1>5 DEF JobsInv, JobsTypeOK, Consume
  <2> QED
    BY <1>5, <2>1, UnchangedInv DEF Consume
<1>6. CASE UNCHANGED queueVars
  BY <1>6, UnchangedInv DEF queueVars, JobsInv, JobsTypeOK
<1>7. QED
  BY <1>1, <1>2, <1>3, <1>4, <1>5, <1>6 DEF JobsNext

LEMMA JobsInvariance == JobsSpec => []JobsInv
<1>1. QED
  BY JobsInitInv, JobsStepInv, PTL DEF JobsSpec

-----------------------------------------------------------------------------
(* The handles, the tasks and the callers of cancel() stay well typed.     *)
THEOREM JobTypesHold == JobsSpec => []JobsTypeOK
<1>1. JobsInv => JobsTypeOK
  BY DEF JobsInv
<1>2. QED
  BY <1>1, JobsInvariance, PTL

(* A task that is over is not shown as running for long: whoever cancelled *)
(* it before it ran is still there to mark it (JobHandle.cancel).          *)
THEOREM StatesSettle == JobsSpec => []StateSettles
<1>1. JobsInv => StateSettles
  BY DEF JobsInv, SomeoneSettles, Unsettling, AwaitedBy, StateSettles, Idle
<1>2. QED
  BY <1>1, JobsInvariance, PTL

(* A registered handle says "running" of every job that is not over.       *)
THEOREM StatusIsHonest == JobsSpec => []StatusHonest
<1>1. JobsInv => StatusHonest
  BY DEF JobsInv
<1>2. QED
  BY <1>1, JobsInvariance, PTL

(* When JobHandle.cancel() has returned, the job's cleanup is over.        *)
THEOREM CleanupIsAwaited == JobsSpec => []CancelAwaits
<1>1. JobsInv => CancelAwaits
  BY DEF JobsInv
<1>2. QED
  BY <1>1, JobsInvariance, PTL

\* Only a caller's own resumption ends its cancel(channel).
LEMMA ReturnFlushes ==
    ASSUME JobsInv, JobsNext, NEW u \in Caller, call[u].op = "cancel", call'[u] = Idle,
           call[u].chan \in registered
    PROVE  items'[call[u].chan] = <<>>
<1>0. Idle.op = "idle" /\ call[u] # Idle /\ call[u] \in CallerRec
  BY IdleType DEF JobsInv, JobsTypeOK, CallerRec
<1>1. ASSUME NEW j \in Job, JobStep(j) PROVE call' = call
  BY <1>1 DEF JobStep, Await, Yield, GoOn, Return, Fail, Unwound, Finish, NeverRan
<1>2. ASSUME NEW j \in Job, NEW c \in Channel, SpawnJob(j, c) PROVE call' = call
  BY <1>2 DEF SpawnJob
<1>3. ASSUME NEW c \in Channel, RemoveChannel(c) \/ Consume(c) PROVE call' = call
  BY <1>3 DEF RemoveChannel, Consume
<1>4. ASSUME NEW v \in Caller, CallerCancelled(v) PROVE call' = call
  BY <1>4 DEF CallerCancelled
<1>5. ASSUME NEW v \in Caller, v # u,
             \/ Shutdown(v) \/ Resume(v) \/ \E j \in Job : HandleCancel(v, j)
             \/ \E c \in Channel : CancelChannel(v, c)
      PROVE  call'[u] = call[u]
  <2>1. \E op, js, c, due : CancelHandles(v, op, js, c, due)
    BY <1>5 DEF Shutdown, Resume, HandleCancel, CancelChannel
  <2> QED
    BY <1>5, <2>1 DEF CancelHandles, Returned, Waits, JobsInv, JobsTypeOK
<1>6. ~Shutdown(u) /\ (\A j \in Job : ~HandleCancel(u, j)) /\ \A c \in Channel : ~CancelChannel(u, c)
  BY <1>0 DEF Shutdown, HandleCancel, CancelChannel
<1>7. Resume(u)
  BY <1>0, <1>1, <1>2, <1>3, <1>4, <1>5, <1>6 DEF JobsNext
<1>8. /\ CancelHandles(u, "cancel", call[u].left, call[u].chan, call[u].due)
      /\ call[u].left \in SUBSET Job /\ call[u].chan \in Channel /\ call[u].due \in SUBSET Job
  BY <1>0, <1>7 DEF Resume, CallerRec
<1>9. QED
  BY <1>8, CancelHandlesFacts DEF JobsInv

(* When cancel(channel) returns, whatever the job put while it unwound has *)
(* been flushed.                                                           *)
THEOREM CancelLeavesNothing == JobsSpec => CancelFlushes
<1> DEFINE A == \A u \in Caller :
                  call[u].op = "cancel" /\ call'[u] = Idle /\ call[u].chan \in registered
                    => Earliest(call[u].left) \notin Elements(items'[call[u].chan])
<1>1. Elements(<<>>) = {}
  BY DEF Elements
<1>2. JobsInv /\ JobsNext => A
  BY <1>1, ReturnFlushes
<1>3. JobsInv /\ [JobsNext]_queueVars => [A]_queueVars
  BY <1>2
<1>4. QED
  BY <1>3, JobsInvariance, PTL DEF JobsSpec, CancelFlushes

(* What a handle's state and status() say of its task is true, and a       *)
(* cancel() that returned has awaited the cleanup (JobHandle).             *)
THEOREM HandlesAreTrue == JobsSpec => []HandlesTell
<1> QED
  BY StatesSettle, StatusIsHonest, CleanupIsAwaited, PTL DEF HandlesTell

=============================================================================
