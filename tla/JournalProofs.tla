--------------------------- MODULE JournalProofs ---------------------------
(***************************************************************************)
(* Proofs about the message journal, for any number of viewers, exporters, *)
(* sessions, calls and POSTs: the type invariant; that what a destination  *)
(* takes as sent is stored; that its references count its exporters; that  *)
(* a block a stored record names and the viewer lacks has a POST to blame; *)
(* and that a shutdown whose flush ended in time has delivered every call. *)
(***************************************************************************)
EXTENDS Journal, FiniteSetTheorems, TLAPS

\* A POST that was dispatched has a destination and a session; what was
\* written belongs to such a POST.
Dispatched ==
    \A p \in Post : posts[p].st # "free" \/ posts[p].wire \/ posts[p].written =>
        posts[p].dest \in Exporters /\ posts[p].session \in Sessions

\* A call that has begun has a session.
Begun == \A c \in Call : calls[c].st \in {"prompt", "open", "answer", "record"} =>
                            calls[c].session \in Sessions

Typed == TypeOK /\ Dispatched /\ Begun

LEMMA EnvFacts ==
    ASSUME TypeOK
    PROVE  /\ env.hashes \subseteq Hashes /\ env.sessions \subseteq Sessions
           /\ env.exporters \subseteq Exporters
BY JournalAssumption DEF TypeOK

LEMMA UrlOf == \A e \in Exporters : e[1] \in Urls
BY JournalAssumption

LEMMA AddedType ==
    ASSUME TypeOK, NEW e \in Exporters
    PROVE  Added(e) \in [Exporters -> DestRec]
<1>1. NewDest \in DestRec
  BY DEF NewDest, DestRec
<1>2. \A d \in Exporters : [dests[d] EXCEPT !.refs = @ + 1] \in DestRec
  BY DEF TypeOK, DestRec
<1>3. QED
  BY <1>1, <1>2 DEF Added, TypeOK

\* The destination an exporter gives back is the one of its URL, and counts it.
LEMMA UsersFinite == \A u \in Urls : IsFiniteSet(Users(u))
BY JournalAssumption, FS_Subset DEF Users

LEMMA Referred ==
    ASSUME TypeOK, RefsMatch, NEW e \in Exporters, exporters[e].st = "flushed"
    PROVE  \E d \in Exporters : At(e[1]) = {d} /\ dests[d].refs = Cardinality(Users(e[1]))
                                /\ dests[d].refs \in Nat \ {0}
<1>1. e[1] \in Urls /\ e \in Users(e[1])
  BY UrlOf DEF Users
<1>2. Cardinality(Users(e[1])) \in Nat \ {0}
  BY <1>1, UsersFinite, FS_CardinalityType, FS_EmptySet
<1>3. QED
  BY <1>1, <1>2 DEF RefsMatch

LEMMA RemovedType ==
    ASSUME TypeOK, RefsMatch, NEW e \in Exporters, exporters[e].st = "flushed"
    PROVE  Removed(e) \in [Exporters -> DestRec]
<1>1. \A d \in At(e[1]) : dests[d] \in DestRec /\ dests[d].refs \in Nat \ {0}
  BY Referred DEF TypeOK, At, Present
<1>2. \A d \in At(e[1]) : dests[d].refs - 1 \in Nat
  BY <1>1
<1>3. \A d \in At(e[1]) : [dests[d] EXCEPT !.refs = @ - 1] \in DestRec
  BY <1>1, <1>2 DEF DestRec
<1>4. QED
  BY <1>3 DEF Removed, TypeOK

LEMMA MessageType ==
    ASSUME NEW d \in Exporters, NEW s \in Sessions, NEW c \in 0..NumCall, NEW hs \in SUBSET Hashes
    PROVE  /\ Message(d, s, c, hs) \in PostRec
           /\ Message(d, s, c, hs).dest = d /\ Message(d, s, c, hs).session = s
           /\ Message(d, s, c, hs).call = c /\ Message(d, s, c, hs).hashes = hs
           /\ Message(d, s, c, hs).st = "sending" /\ ~Message(d, s, c, hs).written
BY JournalAssumption DEF Message, PostRec

LEMMA TurnType ==
    ASSUME NEW r \in CallRec, NEW d
    PROVE  /\ Turn(r, d) \in CallRec /\ Turn(r, d).session = r.session
           /\ Turn(r, d).in = r.in /\ Turn(r, d).out = r.out
           /\ r.st = "prompt" => Turn(r, d).st \in {"prompt", "open"}
           /\ r.st = "answer" => Turn(r, d).st = "answer"
           /\ r.st = "record" => Turn(r, d).st \in {"record", "done"}
<1>1. After(r.st) \in {"new", "prompt", "open", "answer", "record", "done", "failed"}
  BY DEF After, CallRec
<1>2. /\ r.st = "prompt" => After(r.st) = "open"
      /\ r.st = "answer" => After(r.st) = "answer"
      /\ r.st = "record" => After(r.st) = "done"
  BY DEF After
<1>3. QED
  BY <1>1, <1>2 DEF Turn, CallRec

LEMMA CurrentType ==
    ASSUME NEW r \in DestRec, NEW s \in Sessions
    PROVE  /\ Current(r, s) \in DestRec /\ Current(r, s).refs = r.refs
           /\ Current(r, s).session = s /\ Current(r, s).hashes \in {r.hashes, {}}
           /\ Current(r, s).hashes # {} => r.session = s
BY DEF Current, DestRec

LEMMA NotedType ==
    ASSUME NEW r \in DestRec, NEW m \in PostRec
    PROVE  /\ Noted(r, m) \in DestRec /\ Noted(r, m).refs = r.refs
           /\ Noted(r, m).session = r.session
           /\ \/ Noted(r, m).hashes = r.hashes
              \/ m.call = 0 /\ r.session = m.session /\ Noted(r, m).hashes = r.hashes \cup m.hashes
<1>1. CASE m.call = 0 /\ r.session = m.session
  <2> DEFINE n == [r EXCEPT !.hashes = @ \cup m.hashes]
  <2>1. /\ n \in DestRec /\ n.refs = r.refs /\ n.session = r.session
        /\ n.hashes = r.hashes \cup m.hashes
    BY DEF DestRec, PostRec
  <2>2. Noted(r, m) = n
    BY <1>1 DEF Noted
  <2> HIDE DEF n
  <2>3. QED
    BY <1>1, <2>1, <2>2
<1>2. CASE ~(m.call = 0 /\ r.session = m.session)
  <2>1. Noted(r, m) = r
    BY <1>2 DEF Noted
  <2>2. QED
    BY <2>1
<1>3. QED
  BY <1>1, <1>2

LEMMA AttemptedType ==
    ASSUME NEW m \in PostRec, NEW wire \in BOOLEAN, m.st = "sending"
    PROVE  /\ Attempted(m, wire) \in PostRec
           /\ Attempted(m, wire).dest = m.dest /\ Attempted(m, wire).session = m.session
           /\ Attempted(m, wire).call = m.call /\ Attempted(m, wire).hashes = m.hashes
           /\ Attempted(m, wire).written => m.written
<1>1. m.tries \in Nat /\ (m.tries + 1 < Retries => m.tries + 1 \in 0..Retries)
  BY JournalAssumption DEF PostRec
<1>2. QED
  BY <1>1 DEF Attempted, PostRec

-----------------------------------------------------------------------------
LEMMA InitTyped == Init => Typed
<1> SUFFICES ASSUME Init PROVE Typed
  OBVIOUS
<1>1. NoDest \in DestRec /\ NoCall \in CallRec /\ NoCall.st = "new"
  BY DEF NoDest, NewDest, NoCall, DestRec, CallRec
<1>2. NoPost \in PostRec /\ NoPost.st = "free" /\ ~NoPost.wire /\ ~NoPost.written
  BY JournalAssumption DEF NoPost, PostRec
<1>3. TypeOK
  BY <1>1, <1>2 DEF Init, TypeOK, ExporterRec
<1>4. Dispatched /\ Begun
  BY <1>1, <1>2 DEF Init, Dispatched, Begun
<1>5. QED
  BY <1>3, <1>4 DEF Typed

LEMMA StepTyped == Typed /\ RefsMatch /\ [Next]_vars => Typed'
<1> SUFFICES ASSUME Typed, RefsMatch, [Next]_vars PROVE Typed'
  OBVIOUS
<1> USE DEF Typed
<1>1. ASSUME NEW e \in Exporters, Install(e) PROVE Typed'
  <2>1. [exporters[e] EXCEPT !.st = "live"] \in ExporterRec
    BY DEF TypeOK, ExporterRec
  <2>2. QED
    BY <1>1, <2>1, AddedType DEF Install, TypeOK, Dispatched, Begun
<1>2. ASSUME NEW e \in Exporters, Flush(e) \/ Flushed(e) \/ FlushTimeout(e) PROVE Typed'
  <2>1. /\ [exporters[e] EXCEPT !.st = "flushing"] \in ExporterRec
        /\ [exporters[e] EXCEPT !.st = "flushed"] \in ExporterRec
        /\ [exporters[e] EXCEPT !.st = "flushed", !.late = TRUE] \in ExporterRec
    BY DEF TypeOK, ExporterRec
  <2>2. exporters' \in [Exporters -> ExporterRec]
    BY <1>2, <2>1 DEF Flush, Flushed, FlushTimeout, TypeOK
  <2>3. QED
    BY <1>2, <2>2 DEF Flush, Flushed, FlushTimeout, TypeOK, Dispatched, Begun
<1>3. ASSUME NEW e \in Exporters, Deregister(e) PROVE Typed'
  <2>0. Removed(e) \in [Exporters -> DestRec]
    BY <1>3, RemovedType DEF Deregister
  <2>1. [exporters[e] EXCEPT !.st = "gone"] \in ExporterRec
    BY DEF TypeOK, ExporterRec
  <2>2. \A c \in Call : [calls[c] EXCEPT !.kept = @ /\ calls[c].st \notin {"prompt", "open"}] \in CallRec
    BY DEF TypeOK, CallRec
  <2>3. calls' \in [Call -> CallRec] /\ \A c \in Call : calls'[c].st = calls[c].st /\ calls'[c].session = calls[c].session
    BY <1>3, <2>2 DEF Deregister, TypeOK
  <2>4. QED
    BY <1>3, <2>0, <2>1, <2>3 DEF Deregister, TypeOK, Dispatched, Begun
<1>4. CASE Exit
  <2>1. PICK lost \in SUBSET Pending :
          posts' = [p \in Post |-> IF p \in Pending
                                   THEN [posts[p] EXCEPT !.st = "killed", !.wire = @ /\ p \notin lost]
                                   ELSE posts[p]]
    BY <1>4 DEF Exit
  <2>2. \A p \in Post : [posts[p] EXCEPT !.st = "killed", !.wire = @ /\ p \notin lost] \in PostRec
    BY DEF TypeOK, PostRec
  <2>3. posts' \in [Post -> PostRec]
    BY <2>1, <2>2 DEF TypeOK
  <2>4. \A c \in Call : [calls[c] EXCEPT !.st = "failed", !.todo = {}] \in CallRec
    BY DEF TypeOK, CallRec
  <2>5. calls' \in [Call -> CallRec]
    BY <1>4, <2>4 DEF Exit, TypeOK
  <2>6. Dispatched'
    BY <2>1 DEF TypeOK, Dispatched, Pending, PostRec
  <2>7. Begun'
    BY <1>4 DEF Exit, TypeOK, Begun, CallRec
  <2>8. QED
    BY <1>4, <2>3, <2>5, <2>6, <2>7 DEF Exit, TypeOK
<1>5. ASSUME NEW c \in Call, NEW s \in Sessions, NEW hs \in SUBSET env.hashes, PreCall(c, s, hs)
      PROVE Typed'
  <2>1. [st |-> "prompt", session |-> s, in |-> hs, out |-> {}, todo |-> Present, kept |-> TRUE] \in CallRec
    BY EnvFacts DEF CallRec, Present
  <2>2. QED
    BY <1>5, <2>1 DEF PreCall, TypeOK, Dispatched, Begun
<1>6. ASSUME NEW c \in Call, NEW d \in Exporters, NEW p \in Post, SendBlocks(c, d, p) PROVE Typed'
  <2> DEFINE s == calls[c].session
             r == Current(dests[d], s)
             new == (IF calls[c].st = "prompt" THEN calls[c].in ELSE calls[c].out) \ r.hashes
  <2>1. s \in Sessions /\ dests[d] \in DestRec /\ calls[c] \in CallRec
    BY <1>6 DEF SendBlocks, Begun, TypeOK
  <2>2. r \in DestRec
    BY <2>1, CurrentType
  <2>3. new \in SUBSET Hashes
    BY <2>1 DEF CallRec
  <2>4. 0 \in 0..NumCall
    BY JournalAssumption
  <2>5. Message(d, s, 0, new) \in PostRec /\ Message(d, s, 0, new).dest = d /\ Message(d, s, 0, new).session = s
    BY <2>1, <2>3, <2>4, MessageType
  <2>6. /\ dests' = [dests EXCEPT ![d] = r]
        /\ posts' = IF new = {} THEN posts ELSE [posts EXCEPT ![p] = Message(d, s, 0, new)]
        /\ calls' = [calls EXCEPT ![c] = Turn(calls[c], d)]
    BY <1>6 DEF SendBlocks
  <2>7. /\ Turn(calls[c], d) \in CallRec /\ Turn(calls[c], d).session = s
        /\ Turn(calls[c], d).st \in {"prompt", "open", "answer"}
    BY <1>6, <2>1, TurnType DEF SendBlocks
  <2> HIDE DEF s, r, new
  <2>8. TypeOK'
    BY <1>6, <2>2, <2>5, <2>6, <2>7 DEF SendBlocks, TypeOK
  <2>9. Dispatched'
    BY <2>1, <2>5, <2>6 DEF Dispatched, TypeOK
  <2>10. Begun'
    BY <2>1, <2>6, <2>7 DEF Begun, TypeOK
  <2>11. QED
    BY <2>8, <2>9, <2>10
<1>7. ASSUME NEW c \in Call, NEW d \in Exporters, NEW p \in Post, SendRecord(c, d, p) PROVE Typed'
  <2> DEFINE s == calls[c].session
  <2>1. s \in Sessions /\ calls[c] \in CallRec /\ c \in 0..NumCall /\ {} \in SUBSET Hashes
    BY <1>7, JournalAssumption DEF SendRecord, Begun, TypeOK, Call
  <2>2. Message(d, s, c, {}) \in PostRec /\ Message(d, s, c, {}).dest = d /\ Message(d, s, c, {}).session = s
    BY <2>1, MessageType
  <2>3. /\ Turn(calls[c], d) \in CallRec /\ Turn(calls[c], d).session = s
    BY <1>7, <2>1, TurnType DEF SendRecord
  <2>4. /\ posts' = [posts EXCEPT ![p] = Message(d, s, c, {})]
        /\ calls' = [calls EXCEPT ![c] = Turn(calls[c], d)]
    BY <1>7 DEF SendRecord
  <2> HIDE DEF s
  <2>5. QED
    BY <1>7, <2>1, <2>2, <2>3, <2>4 DEF SendRecord, TypeOK, Dispatched, Begun
<1>8. ASSUME NEW c \in Call, Answer(c) PROVE Typed'
  <2> DEFINE r == [calls[c] EXCEPT !.st = IF Present = {} THEN "done" ELSE "record", !.todo = Present]
  <2>1. r \in CallRec /\ r.session = calls[c].session /\ r.st \in {"done", "record"}
    BY DEF TypeOK, CallRec, Present
  <2>2. calls' = [calls EXCEPT ![c] = r]
    BY <1>8 DEF Answer
  <2> HIDE DEF r
  <2>3. calls[c].session \in Sessions
    BY <1>8 DEF Answer, Begun
  <2>4. QED
    BY <1>8, <2>1, <2>2, <2>3 DEF Answer, TypeOK, Dispatched, Begun
<1>9. ASSUME NEW c \in Call, Failure(c) PROVE Typed'
  <2>1. [calls[c] EXCEPT !.st = "failed"] \in CallRec
    BY DEF TypeOK, CallRec
  <2>2. QED
    BY <1>9, <2>1 DEF Failure, TypeOK, Dispatched, Begun
<1>10. ASSUME NEW c \in Call, NEW hs \in SUBSET env.hashes, Success(c, hs) PROVE Typed'
  <2> DEFINE r == [calls[c] EXCEPT !.st = "answer", !.out = hs, !.in = IF calls[c].kept THEN @ ELSE {},
                                   !.todo = IF hs = {} THEN {} ELSE Present]
  <2> DEFINE n == IF calls[c].kept THEN calls[c].in ELSE {}
             m == IF hs = {} THEN {} ELSE Present
  <2>0. calls[c] \in CallRec /\ hs \subseteq Hashes /\ Present \subseteq Exporters
    BY EnvFacts DEF TypeOK, Present
  <2>a. n \subseteq Hashes /\ m \subseteq Exporters
    BY <2>0 DEF CallRec
  <2>b. r = [calls[c] EXCEPT !.st = "answer", !.out = hs, !.in = n, !.todo = m]
    OBVIOUS
  <2> HIDE DEF n, m
  <2>1. r \in CallRec /\ r.session = calls[c].session
    BY <2>0, <2>a, <2>b DEF CallRec
  <2>2. calls' = [calls EXCEPT ![c] = r] /\ UNCHANGED <<env, exporters, dests, posts, store>>
    BY <1>10 DEF Success
  <2>3. calls[c].session \in Sessions
    BY <1>10 DEF Success, Begun
  <2> HIDE DEF r
  <2>4. QED
    BY <2>1, <2>2, <2>3 DEF TypeOK, Dispatched, Begun
<1>11. ASSUME NEW p \in Post, Write(p) PROVE Typed'
  <2>1. posts[p].dest \in Exporters /\ posts[p].session \in Sessions
    BY <1>11 DEF Write, Dispatched
  <2>2. posts[p].hashes \subseteq Hashes /\ (posts[p].call # 0 => posts[p].call \in Call)
    BY JournalAssumption DEF TypeOK, PostRec, Call
  <2>3. store' \in [Urls -> [blocks: SUBSET (Sessions \X Hashes), calls: SUBSET Call]]
    BY <1>11, <2>1, <2>2, UrlOf DEF Write, TypeOK
  <2> DEFINE r == [posts[p] EXCEPT !.wire = FALSE, !.written = TRUE]
  <2>4. r \in PostRec /\ r.dest = posts[p].dest /\ r.session = posts[p].session
    BY DEF TypeOK, PostRec
  <2>5. posts \in [Post -> PostRec]
    BY DEF TypeOK
  <2>6. posts' = [posts EXCEPT ![p] = r] /\ UNCHANGED <<env, exporters, dests, calls>>
    BY <1>11, <2>5 DEF Write
  <2> HIDE DEF r
  <2>7. posts' \in [Post -> PostRec]
    BY <2>4, <2>5, <2>6
  <2>8. TypeOK'
    BY <2>3, <2>6, <2>7 DEF TypeOK
  <2>9. Dispatched'
    BY <2>1, <2>4, <2>5, <2>6 DEF Dispatched
  <2>10. QED
    BY <2>6, <2>8, <2>9 DEF Begun
<1>12. ASSUME NEW p \in Post, Answered(p) PROVE Typed'
  <2>1. posts[p].dest \in Exporters
    BY <1>12 DEF Answered, Dispatched
  <2>2. [posts[p] EXCEPT !.st = "ok"] \in PostRec
    BY DEF TypeOK, PostRec
  <2>3. Noted(dests[posts[p].dest], posts[p]) \in DestRec
    BY <2>1, NotedType DEF TypeOK
  <2>4. QED
    BY <1>12, <2>1, <2>2, <2>3 DEF Answered, TypeOK, Dispatched, Begun
<1>13. ASSUME NEW p \in Post, NEW wire \in BOOLEAN, AttemptFails(p, wire) PROVE Typed'
  <2>1. posts[p] \in PostRec /\ posts[p].st = "sending" /\ posts[p].dest \in Exporters /\ posts[p].session \in Sessions
    BY <1>13 DEF AttemptFails, TypeOK, Dispatched
  <2>2. /\ Attempted(posts[p], wire) \in PostRec
        /\ Attempted(posts[p], wire).dest = posts[p].dest /\ Attempted(posts[p], wire).session = posts[p].session
    BY <2>1, AttemptedType
  <2>3. posts' = [posts EXCEPT ![p] = Attempted(posts[p], wire)]
    BY <1>13 DEF AttemptFails
  <2>4. QED
    BY <1>13, <2>1, <2>2, <2>3 DEF AttemptFails, TypeOK, Dispatched, Begun
<1>14. ASSUME NEW u \in Urls, NEW s \in Sessions, Delete(u, s) PROVE Typed'
  BY <1>14 DEF Delete, TypeOK, Dispatched, Begun
<1>15. CASE UNCHANGED vars
  BY <1>15 DEF vars, TypeOK, Dispatched, Begun
<1>16. ASSUME NEW h \in env.hashes PROVE {{}, {h}} \subseteq SUBSET env.hashes
  OBVIOUS
<1>17. QED
  BY <1>16, <1>1, <1>2, <1>3, <1>4, <1>5, <1>6, <1>7, <1>8, <1>9, <1>10, <1>11, <1>12, <1>13, <1>14, <1>15
     DEF Next, Callback, Thread

-----------------------------------------------------------------------------
LEMMA InitRefs == Init => RefsMatch
BY DEF Init, RefsMatch, Users, At, Present, NoDest, NewDest

\* Only Install and Deregister touch the references.
LEMMA SameRefs ==
    ASSUME TypeOK, RefsMatch, \A d \in Exporters : dests'[d].refs = dests[d].refs,
           \A e \in Exporters : exporters'[e].st \in {"new", "gone"} <=> exporters[e].st \in {"new", "gone"}
    PROVE  RefsMatch'
<1>1. \A u \in Urls : Users(u)' = Users(u) /\ At(u)' = At(u)
  BY DEF Users, At, Present
<1>2. QED
  BY <1>1 DEF RefsMatch

LEMMA InstallRefs ==
    ASSUME TypeOK, RefsMatch, NEW e \in Exporters, Install(e)
    PROVE  RefsMatch'
<1>1. exporters[e].st = "new" /\ exporters' = [exporters EXCEPT ![e].st = "live"] /\ dests' = Added(e)
  BY DEF Install
<1>2. \A f \in Exporters : exporters'[f].st = IF f = e THEN "live" ELSE exporters[f].st
  BY <1>1 DEF TypeOK, ExporterRec
<1>3. e[1] \in Urls /\ Users(e[1])' = Users(e[1]) \cup {e} /\ e \notin Users(e[1])
  BY <1>1, <1>2, UrlOf DEF Users
<1>4. \A u \in Urls \ {e[1]} : Users(u)' = Users(u)
  BY <1>2 DEF Users
<1>5. \A d \in Exporters : d[1] # e[1] => dests'[d] = dests[d]
  BY <1>1 DEF Added, At, TypeOK
<1>6. \A u \in Urls \ {e[1]} : At(u)' = At(u)
  BY <1>5 DEF At, Present
<1>7. ASSUME NEW u \in Urls \ {e[1]}
      PROVE  IF Users(u)' = {} THEN At(u)' = {}
             ELSE \E d \in Exporters : At(u)' = {d} /\ dests'[d].refs = Cardinality(Users(u)')
  <2>1. \A d \in At(u) : dests'[d] = dests[d]
    BY <1>5 DEF At, Present
  <2>2. QED
    BY <1>4, <1>6, <2>1 DEF RefsMatch
<1>8. \E d \in Exporters : At(e[1])' = {d} /\ dests'[d].refs = Cardinality(Users(e[1])')
  <2>1. CASE At(e[1]) = {}
    <3>1. dests' = [dests EXCEPT ![e] = NewDest]
      BY <1>1, <2>1 DEF Added
    <3>2. Users(e[1]) = {}
      BY <1>3, <2>1 DEF RefsMatch
    <3>3. Cardinality(Users(e[1])') = 1
      BY <1>3, <3>2, FS_Singleton
    <3>4. At(e[1])' = {e} /\ dests'[e].refs = 1
      BY <2>1, <3>1 DEF At, Present, NewDest, TypeOK
    <3>5. QED
      BY <3>3, <3>4
  <2>2. CASE At(e[1]) # {}
    <3>1. PICK d \in Exporters : At(e[1]) = {d} /\ dests[d].refs = Cardinality(Users(e[1]))
      BY <1>3, <2>2 DEF RefsMatch
    <3>2. \A f \in Exporters : dests'[f] = IF f = d THEN [dests[f] EXCEPT !.refs = @ + 1] ELSE dests[f]
      BY <1>1, <2>2, <3>1 DEF Added
    <3>3. dests[d] \in DestRec /\ dests[d].refs \in Nat
      BY DEF TypeOK, DestRec
    <3>4. dests'[d].refs = dests[d].refs + 1 /\ \A f \in Exporters \ {d} : dests'[f] = dests[f]
      BY <3>2, <3>3 DEF DestRec
    <3>5. At(e[1])' = {d}
      BY <3>1, <3>3, <3>4 DEF At, Present
    <3>6. Cardinality(Users(e[1])') = Cardinality(Users(e[1])) + 1
      BY <1>3, UsersFinite, FS_AddElement
    <3>7. QED
      BY <3>1, <3>4, <3>5, <3>6
  <2>3. QED
    BY <2>1, <2>2
<1>9. QED
  BY <1>3, <1>7, <1>8 DEF RefsMatch

LEMMA DeregisterRefs ==
    ASSUME TypeOK, RefsMatch, NEW e \in Exporters, Deregister(e)
    PROVE  RefsMatch'
<1>1. exporters[e].st = "flushed" /\ exporters' = [exporters EXCEPT ![e].st = "gone"] /\ dests' = Removed(e)
  BY DEF Deregister
<1>2. \A f \in Exporters : exporters'[f].st = IF f = e THEN "gone" ELSE exporters[f].st
  BY <1>1 DEF TypeOK, ExporterRec
<1>3. e[1] \in Urls /\ Users(e[1])' = Users(e[1]) \ {e} /\ e \in Users(e[1])
  BY <1>1, <1>2, UrlOf DEF Users
<1>4. \A u \in Urls \ {e[1]} : Users(u)' = Users(u)
  BY <1>2, <1>1 DEF Users
<1>5. \A d \in Exporters : d[1] # e[1] => dests'[d] = dests[d]
  BY <1>1 DEF Removed, At
<1>6. \A u \in Urls \ {e[1]} : At(u)' = At(u)
  BY <1>5 DEF At, Present
<1>7. ASSUME NEW u \in Urls \ {e[1]}
      PROVE  IF Users(u)' = {} THEN At(u)' = {}
             ELSE \E d \in Exporters : At(u)' = {d} /\ dests'[d].refs = Cardinality(Users(u)')
  <2>1. \A d \in At(u) : dests'[d] = dests[d]
    BY <1>5 DEF At, Present
  <2>2. QED
    BY <1>4, <1>6, <2>1 DEF RefsMatch
<1>8. PICK d \in Exporters : At(e[1]) = {d} /\ dests[d].refs = Cardinality(Users(e[1]))
                              /\ dests[d].refs \in Nat \ {0}
  BY <1>1, Referred
<1>9. \A f \in Exporters : dests'[f] = IF f = d THEN [dests[f] EXCEPT !.refs = @ - 1] ELSE dests[f]
  BY <1>1, <1>8 DEF Removed
<1>10. dests[d] \in DestRec
  BY DEF TypeOK
<1>11. dests'[d].refs = dests[d].refs - 1 /\ \A f \in Exporters \ {d} : dests'[f] = dests[f]
  BY <1>9, <1>10 DEF DestRec
<1>12. Cardinality(Users(e[1])') = Cardinality(Users(e[1])) - 1 /\ IsFiniteSet(Users(e[1])')
  BY <1>3, UsersFinite, FS_RemoveElement
<1>13. IF Users(e[1])' = {} THEN At(e[1])' = {}
       ELSE At(e[1])' = {d} /\ dests'[d].refs = Cardinality(Users(e[1])')
  <2>1. dests'[d].refs = Cardinality(Users(e[1])')
    BY <1>8, <1>11, <1>12
  <2>2. CASE Users(e[1])' = {}
    <3>1. dests'[d].refs = 0
      BY <2>1, <2>2, FS_EmptySet
    <3>2. QED
      BY <1>8, <1>11, <2>2, <3>1 DEF At, Present
  <2>3. CASE Users(e[1])' # {}
    <3>1. Cardinality(Users(e[1])') \in Nat \ {0}
      BY <1>12, <2>3, FS_EmptySet, FS_CardinalityType
    <3>2. At(e[1])' = {d}
      BY <1>8, <1>11, <2>1, <3>1 DEF At, Present
    <3>3. QED
      BY <2>1, <2>3, <3>2
  <2>4. QED
    BY <2>2, <2>3
<1>14. QED
  BY <1>3, <1>7, <1>13 DEF RefsMatch

LEMMA StepRefs == Typed /\ RefsMatch /\ [Next]_vars => RefsMatch'
<1> SUFFICES ASSUME Typed, RefsMatch, [Next]_vars PROVE RefsMatch'
  OBVIOUS
<1> USE DEF Typed
<1>1. ASSUME NEW e \in Exporters, Install(e) PROVE RefsMatch'
  BY <1>1, InstallRefs
<1>2. ASSUME NEW e \in Exporters, Deregister(e) PROVE RefsMatch'
  BY <1>2, DeregisterRefs
<1>3. ASSUME NEW e \in Exporters, Flush(e) \/ Flushed(e) \/ FlushTimeout(e) PROVE RefsMatch'
  <2>1. \A f \in Exporters : exporters'[f].st \in {"new", "gone"} <=> exporters[f].st \in {"new", "gone"}
    BY <1>3 DEF Flush, Flushed, FlushTimeout, TypeOK, ExporterRec
  <2>2. dests' = dests
    BY <1>3 DEF Flush, Flushed, FlushTimeout
  <2>3. QED
    BY <2>1, <2>2, SameRefs
<1>4. ASSUME NEW c \in Call, NEW d \in Exporters, NEW p \in Post, SendBlocks(c, d, p) PROVE RefsMatch'
  <2>1. calls[c].session \in Sessions /\ dests[d] \in DestRec
    BY <1>4 DEF SendBlocks, Begun, TypeOK
  <2>2. dests' = [dests EXCEPT ![d] = Current(dests[d], calls[c].session)] /\ exporters' = exporters
    BY <1>4 DEF SendBlocks
  <2>3. \A e \in Exporters : dests'[e].refs = dests[e].refs
    BY <2>1, <2>2, CurrentType DEF TypeOK
  <2>4. QED
    BY <2>2, <2>3, SameRefs
<1>5. ASSUME NEW p \in Post, Answered(p) PROVE RefsMatch'
  <2>1. posts[p].dest \in Exporters /\ posts[p] \in PostRec
    BY <1>5 DEF Answered, Dispatched, TypeOK
  <2>2. dests' = [dests EXCEPT ![posts[p].dest] = Noted(dests[posts[p].dest], posts[p])] /\ exporters' = exporters
    BY <1>5 DEF Answered
  <2>3. \A e \in Exporters : dests'[e].refs = dests[e].refs
    BY <2>1, <2>2, NotedType DEF TypeOK
  <2>4. QED
    BY <2>2, <2>3, SameRefs
<1>6. CASE UNCHANGED <<dests, exporters>>
  BY <1>6, SameRefs
<1>7. QED
  BY <1>1, <1>2, <1>3, <1>4, <1>5, <1>6
     DEF Next, Callback, Thread, Exit, PreCall, SendRecord, Answer, Failure, Success, Write, AttemptFails, Delete, vars

LEMMA TypesAndRefs == Spec => [](TypeOK /\ RefsMatch)
<1>1. Init => Typed /\ RefsMatch
  BY InitTyped, InitRefs
<1>2. Typed /\ RefsMatch /\ [Next]_vars => Typed' /\ RefsMatch'
  BY StepTyped, StepRefs
<1>3. Typed => TypeOK
  BY DEF Typed
<1>4. QED
  BY <1>1, <1>2, <1>3, PTL DEF Spec

(***************************************************************************)
(* Types hold: no reference count falls below zero, whatever exporters     *)
(* come and go (remove_destination).                                       *)
(***************************************************************************)
THEOREM TypesHold == Spec => []TypeOK
BY TypesAndRefs, PTL

(***************************************************************************)
(* The references of a listed destination are the exporters of its URL     *)
(* that have not shut down.                                                *)
(***************************************************************************)
THEOREM RefsAreUsers == Spec => []RefsMatch
BY TypesAndRefs, PTL

-----------------------------------------------------------------------------
(* What is taken as sent is stored.                                        *)

\* A POST of blocks the server has written is in its table.
WrittenStored ==
    "delete" \notin env.faults =>
        \A p \in Post : posts[p].written /\ posts[p].call = 0 =>
            {posts[p].session} \X posts[p].hashes \subseteq store[posts[p].dest[1]].blocks

Stored == SentStored /\ WrittenStored

\* Without deletions the tables only grow.
StoreGrows == "delete" \notin env.faults =>
                 \A u \in Urls : store[u].blocks \subseteq store'[u].blocks

LEMMA InitStored == Init => Stored
BY DEF Init, Stored, SentStored, WrittenStored, NoDest, NewDest, NoPost

LEMMA SameStored ==
    ASSUME TypeOK, Dispatched, Stored, StoreGrows, env' = env,
           \A d \in Exporters : \/ dests'[d].hashes = {}
                                \/ dests'[d].hashes = dests[d].hashes /\ dests'[d].session = dests[d].session,
           \A p \in Post : posts'[p].written /\ posts'[p].call = 0 =>
                /\ posts[p].written /\ posts[p].call = 0 /\ posts[p].dest = posts'[p].dest
                /\ posts[p].session = posts'[p].session /\ posts[p].hashes = posts'[p].hashes
    PROVE  Stored'
<1> SUFFICES ASSUME "delete" \notin env.faults PROVE Stored'
  BY DEF Stored, SentStored, WrittenStored
<1>1. ASSUME NEW d \in Exporters
      PROVE  {dests'[d].session} \X dests'[d].hashes \subseteq store'[d[1]].blocks
  BY UrlOf DEF Stored, SentStored, StoreGrows
<1>2. ASSUME NEW p \in Post, posts'[p].written, posts'[p].call = 0
      PROVE  {posts'[p].session} \X posts'[p].hashes \subseteq store'[posts'[p].dest[1]].blocks
  BY <1>2, UrlOf DEF Stored, WrittenStored, StoreGrows, Dispatched
<1>3. QED
  BY <1>1, <1>2 DEF Stored, SentStored, WrittenStored

LEMMA StepStored == Typed /\ RefsMatch /\ Stored /\ [Next]_vars => Stored'
<1> SUFFICES ASSUME Typed, RefsMatch, Stored, [Next]_vars PROVE Stored'
  OBVIOUS
<1> USE DEF Typed
<1>1. ASSUME UNCHANGED <<env, dests, posts, store>> PROVE Stored'
  BY <1>1 DEF Stored, SentStored, WrittenStored
<1>2. ASSUME NEW e \in Exporters, Install(e) PROVE Stored'
  <2>1. dests' = Added(e) /\ UNCHANGED <<env, posts, store>>
    BY <1>2 DEF Install
  <2>2. \A d \in Exporters : dests[d] \in DestRec
    BY DEF TypeOK
  <2>3. \A d \in Exporters : [dests[d] EXCEPT !.refs = @ + 1].hashes = dests[d].hashes
                             /\ [dests[d] EXCEPT !.refs = @ + 1].session = dests[d].session
    BY <2>2 DEF DestRec
  <2>4. \A d \in Exporters : \/ dests'[d].hashes = {}
                             \/ dests'[d].hashes = dests[d].hashes /\ dests'[d].session = dests[d].session
    BY <2>1, <2>3 DEF Added, NewDest, TypeOK
  <2>5. QED
    BY <2>1, <2>4, SameStored DEF StoreGrows
<1>3. ASSUME NEW e \in Exporters, Deregister(e) PROVE Stored'
  <2>1. dests' = Removed(e) /\ UNCHANGED <<env, posts, store>>
    BY <1>3 DEF Deregister
  <2>2. \A d \in Exporters : dests[d] \in DestRec
    BY DEF TypeOK
  <2>3. \A d \in Exporters : [dests[d] EXCEPT !.refs = @ - 1].hashes = dests[d].hashes
                             /\ [dests[d] EXCEPT !.refs = @ - 1].session = dests[d].session
    BY <2>2 DEF DestRec
  <2>4. \A d \in Exporters : dests'[d].hashes = dests[d].hashes /\ dests'[d].session = dests[d].session
    BY <2>1, <2>3 DEF Removed
  <2>5. QED
    BY <2>1, <2>4, SameStored DEF StoreGrows
<1>4. CASE Exit
  <2>1. PICK lost \in SUBSET Pending :
          posts' = [p \in Post |-> IF p \in Pending
                                   THEN [posts[p] EXCEPT !.st = "killed", !.wire = @ /\ p \notin lost]
                                   ELSE posts[p]]
    BY <1>4 DEF Exit
  <2>2. \A p \in Post : posts[p] \in PostRec
    BY DEF TypeOK
  <2>3. \A p \in Post : posts'[p].written = posts[p].written /\ posts'[p].call = posts[p].call
            /\ posts'[p].dest = posts[p].dest /\ posts'[p].session = posts[p].session
            /\ posts'[p].hashes = posts[p].hashes
    BY <2>1, <2>2 DEF PostRec
  <2>4. UNCHANGED <<env, dests, store>>
    BY <1>4 DEF Exit
  <2>5. QED
    BY <2>3, <2>4, SameStored DEF StoreGrows
<1>5. ASSUME NEW c \in Call, NEW d \in Exporters, NEW p \in Post, SendBlocks(c, d, p) PROVE Stored'
  <2> DEFINE s == calls[c].session
             r == Current(dests[d], s)
             new == (IF calls[c].st = "prompt" THEN calls[c].in ELSE calls[c].out) \ r.hashes
  <2>1. s \in Sessions /\ dests[d] \in DestRec /\ calls[c] \in CallRec
    BY <1>5 DEF SendBlocks, Begun, TypeOK
  <2>2. \/ r.hashes = {}
        \/ r.hashes = dests[d].hashes /\ r.session = dests[d].session
    BY <2>1, CurrentType
  <2>3. new \in SUBSET Hashes
    BY <2>1 DEF CallRec
  <2>4. ~Message(d, s, 0, new).written
    BY <2>1, <2>3, MessageType, JournalAssumption
  <2>5. /\ dests' = [dests EXCEPT ![d] = r] /\ UNCHANGED <<env, store>>
        /\ posts' = IF new = {} THEN posts ELSE [posts EXCEPT ![p] = Message(d, s, 0, new)]
    BY <1>5 DEF SendBlocks
  <2> HIDE DEF s, r, new
  <2>6. \A e \in Exporters : \/ dests'[e].hashes = {}
                             \/ dests'[e].hashes = dests[e].hashes /\ dests'[e].session = dests[e].session
    BY <2>2, <2>5 DEF TypeOK
  <2>7. \A q \in Post : posts'[q].written => posts'[q] = posts[q]
    BY <2>4, <2>5 DEF TypeOK
  <2>8. QED
    BY <2>5, <2>6, <2>7, SameStored DEF StoreGrows
<1>6. ASSUME NEW c \in Call, NEW d \in Exporters, NEW p \in Post, SendRecord(c, d, p) PROVE Stored'
  <2>1. calls[c].session \in Sessions /\ c \in 0..NumCall
    BY <1>6, JournalAssumption DEF SendRecord, Begun, Call
  <2>2. ~Message(d, calls[c].session, c, {}).written
    BY <2>1, MessageType
  <2>3. posts' = [posts EXCEPT ![p] = Message(d, calls[c].session, c, {})] /\ UNCHANGED <<env, dests, store>>
    BY <1>6 DEF SendRecord
  <2>4. \A q \in Post : posts'[q].written => posts'[q] = posts[q]
    BY <2>2, <2>3 DEF TypeOK
  <2>5. QED
    BY <2>3, <2>4, SameStored DEF StoreGrows
<1>7. ASSUME NEW p \in Post, Write(p) PROVE Stored'
  <2> DEFINE m == posts[p]
             q == [m EXCEPT !.wire = FALSE, !.written = TRUE]
  <2>1. m \in PostRec /\ m.dest \in Exporters /\ m.dest[1] \in Urls
    BY <1>7, UrlOf DEF Write, Dispatched, TypeOK
  <2>2. /\ q.written /\ q.call = m.call /\ q.dest = m.dest /\ q.session = m.session /\ q.hashes = m.hashes
    BY <2>1 DEF PostRec
  <2>3. posts' = [posts EXCEPT ![p] = q] /\ UNCHANGED <<env, dests>>
    BY <1>7 DEF Write
  <2>4. store' = IF m.call = 0
                   THEN [store EXCEPT ![m.dest[1]].blocks = @ \cup ({m.session} \X m.hashes)]
                   ELSE [store EXCEPT ![m.dest[1]].calls = @ \cup {m.call}]
    BY <1>7 DEF Write
  <2>5. \A u \in Urls : store[u].blocks \subseteq store'[u].blocks
    BY <2>1, <2>4 DEF TypeOK
  <2>6. m.call = 0 => {m.session} \X m.hashes \subseteq store'[m.dest[1]].blocks
    BY <2>1, <2>4 DEF TypeOK
  <2> HIDE DEF m, q
  <2>7. SentStored'
    BY <2>3, <2>5, UrlOf DEF Stored, SentStored
  <2>8. ASSUME "delete" \notin env.faults, NEW x \in Post, posts'[x].written, posts'[x].call = 0
        PROVE  {posts'[x].session} \X posts'[x].hashes \subseteq store'[posts'[x].dest[1]].blocks
    <3>1. CASE x = p
      <4>1. posts'[x] = q
        BY <2>3, <3>1 DEF TypeOK
      <4>2. QED
        BY <2>2, <2>6, <2>8, <4>1
    <3>2. CASE x # p
      <4>1. posts'[x] = posts[x]
        BY <2>3, <3>2 DEF TypeOK
      <4>2. posts[x].dest[1] \in Urls
        BY <2>8, <4>1, UrlOf DEF Dispatched
      <4>3. QED
        BY <2>5, <2>8, <4>1, <4>2 DEF Stored, WrittenStored
    <3>3. QED
      BY <3>1, <3>2
  <2>9. WrittenStored'
    BY <2>3, <2>8 DEF WrittenStored
  <2>10. QED
    BY <2>7, <2>9 DEF Stored
<1>8. ASSUME NEW p \in Post, Answered(p) PROVE Stored'
  <2> DEFINE m == posts[p]
             o == m.dest
             q == [m EXCEPT !.st = "ok"]
  <2>1. m \in PostRec /\ o \in Exporters /\ dests[o] \in DestRec /\ m.written
    BY <1>8 DEF Answered, Dispatched, TypeOK
  <2>2. /\ q.written = m.written /\ q.call = m.call /\ q.dest = m.dest /\ q.session = m.session /\ q.hashes = m.hashes
    BY <2>1 DEF PostRec
  <2>3. /\ posts' = [posts EXCEPT ![p] = q] /\ UNCHANGED <<env, store>>
        /\ dests' = [dests EXCEPT ![o] = Noted(dests[o], m)]
    BY <1>8 DEF Answered
  <2>4. /\ Noted(dests[o], m).session = dests[o].session
        /\ \/ Noted(dests[o], m).hashes = dests[o].hashes
           \/ /\ m.call = 0 /\ dests[o].session = m.session
              /\ Noted(dests[o], m).hashes = dests[o].hashes \cup m.hashes
    BY <2>1, NotedType
  <2>5. m.call = 0 /\ "delete" \notin env.faults => {m.session} \X m.hashes \subseteq store[o[1]].blocks
    BY <2>1 DEF Stored, WrittenStored
  <2>6. ASSUME "delete" \notin env.faults PROVE {dests[o].session} \X dests[o].hashes \subseteq store[o[1]].blocks
    BY <2>1, <2>6 DEF Stored, SentStored
  <2>7. dests'[o] = Noted(dests[o], m) /\ \A d \in Exporters \ {o} : dests'[d] = dests[d]
    BY <2>1, <2>3 DEF TypeOK
  <2> HIDE DEF m, o, q
  <2>8. ASSUME "delete" \notin env.faults
        PROVE  {dests'[o].session} \X dests'[o].hashes \subseteq store[o[1]].blocks
    BY <2>4, <2>5, <2>6, <2>7, <2>8
  <2>9. SentStored'
    BY <2>3, <2>7, <2>8 DEF Stored, SentStored
  <2>10. \A x \in Post : /\ posts'[x].written = posts[x].written /\ posts'[x].call = posts[x].call
                         /\ posts'[x].dest = posts[x].dest /\ posts'[x].session = posts[x].session
                         /\ posts'[x].hashes = posts[x].hashes
    BY <2>2, <2>3 DEF TypeOK, m
  <2>11. WrittenStored'
    BY <2>3, <2>10 DEF Stored, WrittenStored
  <2>12. QED
    BY <2>9, <2>11 DEF Stored
<1>9. ASSUME NEW p \in Post, NEW wire \in BOOLEAN, AttemptFails(p, wire) PROVE Stored'
  <2>1. posts[p] \in PostRec /\ posts[p].st = "sending"
    BY <1>9 DEF AttemptFails, TypeOK
  <2>2. posts' = [posts EXCEPT ![p] = Attempted(posts[p], wire)] /\ UNCHANGED <<env, dests, store>>
    BY <1>9 DEF AttemptFails
  <2>3. /\ Attempted(posts[p], wire).dest = posts[p].dest /\ Attempted(posts[p], wire).session = posts[p].session
        /\ Attempted(posts[p], wire).call = posts[p].call /\ Attempted(posts[p], wire).hashes = posts[p].hashes
        /\ Attempted(posts[p], wire).written => posts[p].written
    BY <2>1, AttemptedType
  <2>4. \A x \in Post : x # p => posts'[x] = posts[x]
    BY <2>2 DEF TypeOK
  <2>5. posts'[p] = Attempted(posts[p], wire)
    BY <2>2 DEF TypeOK
  <2>6. QED
    BY <2>2, <2>3, <2>4, <2>5, SameStored DEF StoreGrows
<1>10. ASSUME NEW u \in Urls, NEW s \in Sessions, Delete(u, s) PROVE Stored'
  BY <1>10 DEF Delete, Stored, SentStored, WrittenStored
<1>11. QED
  BY <1>1, <1>2, <1>3, <1>4, <1>5, <1>6, <1>7, <1>8, <1>9, <1>10
     DEF Next, Callback, Thread, Flush, Flushed, FlushTimeout, PreCall, Answer, Failure, Success, vars

(***************************************************************************)
(* A block a destination skips is stored for that very session, whatever   *)
(* retries, lost answers, alternating sessions and removed destinations    *)
(* have done.                                                              *)
(***************************************************************************)
THEOREM SentIsStored == Spec => []SentStored
<1>1. Init => Typed /\ RefsMatch /\ Stored
  BY InitTyped, InitRefs, InitStored
<1>2. Typed /\ RefsMatch /\ Stored /\ [Next]_vars => Typed' /\ RefsMatch' /\ Stored'
  BY StepTyped, StepRefs, StepStored
<1>3. Stored => SentStored
  BY DEF Stored
<1>4. QED
  BY <1>1, <1>2, <1>3, PTL DEF Spec
-----------------------------------------------------------------------------
(* A missing block has a reason.                                           *)

Unsaid == {"sending", "gaveup", "killed"}
Active == {"prompt", "open", "answer", "record"}
Late   == {"record", "done", "failed"}

\* Block h of session s is at the viewer u, or a POST of it is not answered.
Covered(u, s, h) ==
    \/ <<s, h>> \in store[u].blocks
    \/ \E p \in Post : /\ posts[p].st \in Unsaid /\ posts[p].call = 0
                       /\ posts[p].dest[1] = u /\ posts[p].session = s /\ h \in posts[p].hashes

\* The blocks of the prompt were sent to the destinations that had their turn,
\* then those of the answer.
PromptSent(c) ==
    calls[c].st \in Active => \A d \in Present :
        \/ calls[c].st = "prompt" /\ d \in calls[c].todo
        \/ \A h \in calls[c].in : Covered(d[1], calls[c].session, h)
AnswerSent(c) ==
    calls[c].st \in {"answer", "record"} => \A d \in Present :
        \/ calls[c].st = "answer" /\ d \in calls[c].todo
        \/ \A h \in calls[c].out : Covered(d[1], calls[c].session, h)
RecordTurns(c) == calls[c].st = "record" => calls[c].todo \subseteq Present
SentFor(c)  == PromptSent(c) /\ AnswerSent(c) /\ RecordTurns(c)

\* A record names blocks that are covered where it goes.
Named(c, u) == \A h \in calls[c].in \cup calls[c].out : Covered(u, calls[c].session, h)
KnownPosts ==
    \A p \in Post : posts[p].call # 0 =>
        /\ posts[p].dest \in Exporters
        /\ calls[posts[p].call].st \in Late /\ Named(posts[p].call, posts[p].dest[1])
KnownStore ==
    \A u \in Urls : \A c \in store[u].calls : calls[c].st \in Late /\ Named(c, u)

\* No exporter leaves during a call.
NobodyLeaves ==
    (\E c \in Call : calls[c].st \in Active) => \A e \in Exporters : exporters[e].st \in {"new", "live"}

Reasons == Steady => NobodyLeaves /\ (\A c \in Call : SentFor(c)) /\ KnownPosts /\ KnownStore

LEMMA InitReasons == Init => Reasons
<1> SUFFICES ASSUME Init PROVE Reasons
  OBVIOUS
<1>1. \A c \in Call : calls[c].st = "new"
  BY DEF Init, NoCall
<1>2. \A p \in Post : posts[p].call = 0
  BY DEF Init, NoPost
<1>3. \A u \in Urls : store[u].calls = {}
  BY DEF Init
<1>4. QED
  BY <1>1, <1>2, <1>3 DEF Reasons, NobodyLeaves, SentFor, PromptSent, AnswerSent, RecordTurns,
     KnownPosts, KnownStore, Active

\* What is covered stays so: tables grow, and a POST that was answered was
\* written.
LEMMA CoveredStays ==
    ASSUME Typed, Stored, Steady,
           \A u \in Urls : store[u].blocks \subseteq store'[u].blocks,
           \A p \in Post : posts[p].st \in Unsaid =>
                /\ posts'[p].st \in Unsaid \/ posts[p].written
                /\ posts'[p].call = posts[p].call /\ posts'[p].dest = posts[p].dest
                /\ posts'[p].session = posts[p].session /\ posts'[p].hashes = posts[p].hashes,
           NEW u \in Urls, NEW s, NEW h, Covered(u, s, h)
    PROVE  Covered(u, s, h)'
<1>1. CASE <<s, h>> \in store[u].blocks
  BY <1>1 DEF Covered
<1>2. ASSUME NEW p \in Post, posts[p].st \in Unsaid, posts[p].call = 0,
             posts[p].dest[1] = u, posts[p].session = s, h \in posts[p].hashes
      PROVE  Covered(u, s, h)'
  <2>1. CASE posts'[p].st \in Unsaid
    BY <1>2, <2>1 DEF Covered
  <2>2. CASE posts[p].written
    <3>1. {s} \X posts[p].hashes \subseteq store[u].blocks
      BY <1>2, <2>2 DEF Stored, WrittenStored, Steady
    <3>2. <<s, h>> \in store'[u].blocks
      BY <1>2, <3>1
    <3>3. QED
      BY <3>2 DEF Covered
  <2>3. QED
    BY <1>2, <2>1, <2>2
<1>3. QED
  BY <1>1, <1>2 DEF Covered

Kept == \A u \in Urls, s \in Sessions \cup {None}, h \in Hashes : Covered(u, s, h) => Covered(u, s, h)'

\* Calls whose record may be under way keep what the record names.
LateSame == \A c \in Call : calls[c].st \in Late =>
                /\ calls'[c].st \in Late /\ calls'[c].session = calls[c].session
                /\ calls'[c].in = calls[c].in /\ calls'[c].out = calls[c].out

\* What a step does to a POST that is not answered.
PostSame == \A p \in Post : posts[p].st \in Unsaid =>
                /\ posts'[p].st \in Unsaid \/ posts[p].written
                /\ posts'[p].call = posts[p].call /\ posts'[p].dest = posts[p].dest
                /\ posts'[p].session = posts[p].session /\ posts'[p].hashes = posts[p].hashes

LEMMA StepPosts ==
    ASSUME Typed, Steady, [Next]_vars
    PROVE  PostSame /\ \A u \in Urls : store[u].blocks \subseteq store'[u].blocks /\ store[u].calls \subseteq store'[u].calls
<1> USE DEF Typed
<1>1. CASE UNCHANGED <<posts, store>>
  BY <1>1 DEF PostSame
<1>2. CASE Exit
  <2>1. PICK lost \in SUBSET Pending :
          posts' = [p \in Post |-> IF p \in Pending
                                   THEN [posts[p] EXCEPT !.st = "killed", !.wire = @ /\ p \notin lost]
                                   ELSE posts[p]]
    BY <1>2 DEF Exit
  <2>2. \A p \in Post : posts[p] \in PostRec
    BY DEF TypeOK
  <2>3. store' = store
    BY <1>2 DEF Exit
  <2>4. \A p \in Post : posts'[p].st \in {posts[p].st, "killed"} /\ posts'[p].call = posts[p].call
            /\ posts'[p].dest = posts[p].dest /\ posts'[p].session = posts[p].session
            /\ posts'[p].hashes = posts[p].hashes
    BY <2>1, <2>2 DEF PostRec
  <2>5. QED
    BY <2>3, <2>4 DEF PostSame, Unsaid
<1>3. ASSUME NEW c \in Call, NEW d \in Exporters, NEW p \in Post, SendBlocks(c, d, p) \/ SendRecord(c, d, p)
      PROVE  store' = store /\ PostSame
  <2>1. posts[p].st = "free" /\ store' = store /\ \A q \in Post \ {p} : posts'[q] = posts[q]
    BY <1>3 DEF SendBlocks, SendRecord, FirstFree, TypeOK
  <2>2. QED
    BY <2>1 DEF PostSame, Unsaid
<1>4. ASSUME NEW p \in Post, Write(p)
      PROVE  PostSame /\ \A u \in Urls : store[u].blocks \subseteq store'[u].blocks /\ store[u].calls \subseteq store'[u].calls
  <2> DEFINE q == [posts[p] EXCEPT !.wire = FALSE, !.written = TRUE]
  <2>1. posts[p] \in PostRec /\ posts[p].dest \in Exporters /\ posts[p].dest[1] \in Urls
    BY <1>4, UrlOf DEF Write, Dispatched, TypeOK
  <2>2. q.st = posts[p].st /\ q.call = posts[p].call /\ q.dest = posts[p].dest
        /\ q.session = posts[p].session /\ q.hashes = posts[p].hashes
    BY <2>1 DEF PostRec
  <2>3. posts' = [posts EXCEPT ![p] = q]
    BY <1>4 DEF Write
  <2> HIDE DEF q
  <2>4. PostSame
    BY <2>2, <2>3 DEF PostSame, TypeOK
  <2>5. \A u \in Urls : store[u].blocks \subseteq store'[u].blocks /\ store[u].calls \subseteq store'[u].calls
    BY <1>4, <2>1 DEF Write, TypeOK
  <2>6. QED
    BY <2>4, <2>5
<1>5. ASSUME NEW p \in Post, Answered(p) PROVE store' = store /\ PostSame
  <2> DEFINE q == [posts[p] EXCEPT !.st = "ok"]
  <2>1. posts[p] \in PostRec /\ posts[p].written /\ store' = store
    BY <1>5 DEF Answered, TypeOK
  <2>2. q.call = posts[p].call /\ q.dest = posts[p].dest
        /\ q.session = posts[p].session /\ q.hashes = posts[p].hashes
    BY <2>1 DEF PostRec
  <2>3. posts' = [posts EXCEPT ![p] = q]
    BY <1>5 DEF Answered
  <2> HIDE DEF q
  <2>4. QED
    BY <2>1, <2>2, <2>3 DEF PostSame, TypeOK
<1>6. ASSUME NEW p \in Post, NEW wire \in BOOLEAN, AttemptFails(p, wire) PROVE store' = store /\ PostSame
  <2>1. posts[p] \in PostRec /\ posts[p].st = "sending" /\ store' = store
    BY <1>6 DEF AttemptFails, TypeOK
  <2>2. posts' = [posts EXCEPT ![p] = Attempted(posts[p], wire)]
    BY <1>6 DEF AttemptFails
  <2>3. Attempted(posts[p], wire).st \in {"sending", "gaveup"}
    BY <2>1 DEF Attempted, PostRec
  <2>4. QED
    BY <2>1, <2>2, <2>3, AttemptedType DEF PostSame, Unsaid, TypeOK
<1>7. ASSUME NEW u \in Urls, NEW s \in Sessions, Delete(u, s) PROVE FALSE
  BY <1>7 DEF Delete, Steady
<1>8. QED
  BY <1>1, <1>2, <1>3, <1>4, <1>5, <1>6, <1>7
     DEF Next, Callback, Thread, Install, Flush, Flushed, FlushTimeout, Deregister, PreCall, Answer,
         Failure, Success, vars

LEMMA StepKept ==
    ASSUME Typed, Stored, Steady, [Next]_vars
    PROVE  Kept
BY StepPosts, CoveredStays DEF Kept, PostSame

LEMMA StepLate ==
    ASSUME Typed, Steady, [Next]_vars
    PROVE  LateSame /\ env' = env
<1> USE DEF Typed
<1>1. ASSUME UNCHANGED calls PROVE LateSame
  BY <1>1 DEF LateSame
<1>2. ASSUME NEW c \in Call, calls[c].st \notin Late, \A x \in Call \ {c} : calls'[x] = calls[x]
      PROVE  LateSame
  BY <1>2 DEF LateSame
<1>3. ASSUME NEW e \in Exporters, Deregister(e) PROVE LateSame
  <2>1. \A c \in Call : /\ calls'[c].st = calls[c].st /\ calls'[c].session = calls[c].session
                        /\ calls'[c].in = calls[c].in /\ calls'[c].out = calls[c].out
    BY <1>3 DEF Deregister, TypeOK, CallRec
  <2>2. QED
    BY <2>1 DEF LateSame
<1>4. ASSUME Exit PROVE LateSame
  <2> DEFINE f(c) == [calls[c] EXCEPT !.st = "failed", !.todo = {}]
  <2>a. \A c \in Call : /\ f(c).st = "failed" /\ f(c).session = calls[c].session
                        /\ f(c).in = calls[c].in /\ f(c).out = calls[c].out
    BY DEF TypeOK, CallRec
  <2>b. \A c \in Call : calls'[c] \in {calls[c], f(c)}
    BY <1>4 DEF Exit
  <2> HIDE DEF f
  <2>1. \A c \in Call : /\ calls'[c].st \in {calls[c].st, "failed"} /\ calls'[c].session = calls[c].session
                        /\ calls'[c].in = calls[c].in /\ calls'[c].out = calls[c].out
    BY <2>a, <2>b
  <2>2. QED
    BY <2>1 DEF LateSame, Late
<1>5. ASSUME NEW c \in Call, NEW d \in Exporters, NEW p \in Post, SendRecord(c, d, p) PROVE LateSame
  <2>1. calls[c] \in CallRec /\ calls[c].st = "record" /\ calls' = [calls EXCEPT ![c] = Turn(calls[c], d)]
    BY <1>5 DEF SendRecord, TypeOK
  <2>2. QED
    BY <2>1, TurnType DEF LateSame, Late, TypeOK
<1>6. ASSUME NEW c \in Call, NEW d \in Exporters, NEW p \in Post, SendBlocks(c, d, p) PROVE LateSame
  BY <1>2, <1>6 DEF SendBlocks, TypeOK, Late
<1>7. ASSUME NEW c \in Call, NEW s \in Sessions, NEW hs, PreCall(c, s, hs) PROVE LateSame
  BY <1>2, <1>7 DEF PreCall, TypeOK, Late
<1>8. ASSUME NEW c \in Call, NEW hs, Success(c, hs) PROVE LateSame
  BY <1>2, <1>8 DEF Success, TypeOK, Late
<1>9. ASSUME NEW c \in Call, Answer(c) \/ Failure(c) PROVE LateSame
  BY <1>2, <1>9 DEF Answer, Failure, TypeOK, Late
<1>10. env' = env
  BY DEF Next, Callback, Thread, Install, Flush, Flushed, FlushTimeout, Deregister, Exit, PreCall,
         SendBlocks, SendRecord, Answer, Failure, Success, Write, Answered, AttemptFails, Delete, vars
<1>11. LateSame
  BY <1>1, <1>3, <1>4, <1>5, <1>6, <1>7, <1>8, <1>9
     DEF Next, Callback, Thread, Install, Flush, Flushed, FlushTimeout, Write, Answered, AttemptFails, Delete, vars
<1>12. QED
  BY <1>10, <1>11

LEMMA NamedKept ==
    ASSUME Typed, Kept, LateSame, NEW c \in Call, calls[c].st \in Late, NEW u \in Urls, Named(c, u)
    PROVE  calls'[c].st \in Late /\ Named(c, u)'
<1>1. calls[c].session \in Sessions \cup {None} /\ calls[c].in \cup calls[c].out \subseteq Hashes
  BY DEF Typed, TypeOK, CallRec
<1>2. PICK s \in Sessions \cup {None} : s = calls[c].session
  BY <1>1
<1>3. \A h \in calls[c].in \cup calls[c].out : Covered(u, s, h)'
  BY <1>1, <1>2 DEF Kept, Named
<1>4. QED
  BY <1>2, <1>3 DEF LateSame, Named, Covered

\* A POST keeps what it sends; a new one is of blocks, or of a call whose turn
\* it is.
LEMMA StepDest ==
    ASSUME Typed, Steady, [Next]_vars, NEW p \in Post
    PROVE  \/ posts'[p].call = posts[p].call /\ posts'[p].dest = posts[p].dest
           \/ posts'[p].call = 0
           \/ \E c \in Call, d \in Exporters :
                 /\ calls[c].st = "record" /\ d \in calls[c].todo
                 /\ posts'[p].call = c /\ posts'[p].dest = d
<1> DEFINE Same == posts'[p].call = posts[p].call /\ posts'[p].dest = posts[p].dest
           Of(c, d) == /\ calls[c].st = "record" /\ d \in calls[c].todo
                       /\ posts'[p].call = c /\ posts'[p].dest = d
<1> USE DEF Typed
<1>1. ASSUME UNCHANGED posts PROVE Same
  BY <1>1
<1>2. ASSUME NEW q \in Post, NEW r, posts' = [posts EXCEPT ![q] = r],
             r.call = posts[q].call, r.dest = posts[q].dest
      PROVE  Same
  BY <1>2 DEF TypeOK
<1>3. ASSUME Exit PROVE Same
  <2>1. \A x \in Post : posts[x] \in PostRec
    BY DEF TypeOK
  <2>2. PICK lost \in SUBSET Pending :
          posts' = [x \in Post |-> IF x \in Pending
                                   THEN [posts[x] EXCEPT !.st = "killed", !.wire = @ /\ x \notin lost]
                                   ELSE posts[x]]
    BY <1>3 DEF Exit
  <2>3. QED
    BY <2>1, <2>2 DEF PostRec
<1>4. ASSUME NEW c \in Call, NEW d \in Exporters, NEW q \in Post, SendBlocks(c, d, q)
      PROVE  Same \/ posts'[p].call = 0
  BY <1>4 DEF SendBlocks, Message, TypeOK
<1>5. ASSUME NEW c \in Call, NEW d \in Exporters, NEW q \in Post, SendRecord(c, d, q)
      PROVE  Same \/ Of(c, d)
  BY <1>5 DEF SendRecord, Message, TypeOK
<1>6. ASSUME NEW q \in Post, Write(q) PROVE Same
  <2> DEFINE r == [posts[q] EXCEPT !.wire = FALSE, !.written = TRUE]
  <2>1. r.call = posts[q].call /\ r.dest = posts[q].dest
    BY DEF TypeOK, PostRec
  <2>2. posts' = [posts EXCEPT ![q] = r]
    BY <1>6 DEF Write
  <2> HIDE DEF r, Same
  <2>3. QED
    BY <1>2, <2>1, <2>2
<1>7. ASSUME NEW q \in Post, Answered(q) PROVE Same
  <2> DEFINE r == [posts[q] EXCEPT !.st = "ok"]
  <2>1. r.call = posts[q].call /\ r.dest = posts[q].dest
    BY DEF TypeOK, PostRec
  <2>2. posts' = [posts EXCEPT ![q] = r]
    BY <1>7 DEF Answered
  <2> HIDE DEF r, Same
  <2>3. QED
    BY <1>2, <2>1, <2>2
<1>8. ASSUME NEW q \in Post, NEW wire \in BOOLEAN, AttemptFails(q, wire) PROVE Same
  <2>1. posts[q] \in PostRec /\ posts[q].st = "sending"
    BY <1>8 DEF AttemptFails, TypeOK
  <2>2. posts' = [posts EXCEPT ![q] = Attempted(posts[q], wire)]
    BY <1>8 DEF AttemptFails
  <2> HIDE DEF Same
  <2>3. QED
    BY <1>2, <2>1, <2>2, AttemptedType
<1> HIDE DEF Same, Of
<1>9. Same \/ posts'[p].call = 0 \/ \E c \in Call, d \in Exporters : Of(c, d)
  BY <1>1, <1>3, <1>4, <1>5, <1>6, <1>7, <1>8
     DEF Next, Callback, Thread, Install, Flush, Flushed, FlushTimeout, Deregister, PreCall, Answer,
         Failure, Success, Delete, vars
<1>10. QED
  BY <1>9 DEF Same, Of

\* A record is stored when a POST of it arrives.
LEMMA StepWrites ==
    ASSUME Typed, Steady, [Next]_vars, NEW u \in Urls, NEW c \in store'[u].calls \ store[u].calls
    PROVE  \E p \in Post : posts[p].call = c /\ c # 0 /\ posts[p].dest[1] = u
<1> USE DEF Typed
<1>1. ASSUME NEW p \in Post, Write(p) PROVE posts[p].call = c /\ c # 0 /\ posts[p].dest[1] = u
  <2>1. posts[p].dest[1] \in Urls
    BY <1>1, UrlOf DEF Write, Dispatched
  <2>2. QED
    BY <1>1, <2>1 DEF Write, TypeOK
<1>2. ASSUME NEW x \in Urls, NEW s \in Sessions, Delete(x, s) PROVE FALSE
  BY <1>2 DEF Delete, Steady
<1>3. store' # store
  OBVIOUS
<1>4. QED
  BY <1>1, <1>2, <1>3
     DEF Next, Callback, Thread, Install, Flush, Flushed, FlushTimeout, Deregister, Exit, PreCall,
         SendBlocks, SendRecord, Answer, Failure, Success, Answered, AttemptFails, vars

LEMMA StepKnown ==
    ASSUME Typed, Stored, Steady, Reasons, [Next]_vars
    PROVE  KnownPosts' /\ KnownStore'
<1>1. Kept /\ LateSame
  BY StepKept, StepLate
<1>2. ASSUME NEW p \in Post, posts'[p].call # 0
      PROVE  \E c \in Call, d \in Exporters :
                /\ posts'[p].call = c /\ posts'[p].dest = d
                /\ calls'[c].st \in Late /\ Named(c, d[1])'
  <2>1. ASSUME posts'[p].call = posts[p].call, posts'[p].dest = posts[p].dest
        PROVE  \E c \in Call, d \in Exporters :
                  /\ posts'[p].call = c /\ posts'[p].dest = d
                  /\ calls[c].st \in Late /\ Named(c, d[1])
    <3>1. posts[p].call \in Call
      BY <1>2, <2>1, JournalAssumption DEF Typed, TypeOK, PostRec, Call
    <3>2. /\ posts[p].dest \in Exporters /\ calls[posts[p].call].st \in Late
          /\ Named(posts[p].call, posts[p].dest[1])
      BY <1>2, <2>1 DEF Reasons, KnownPosts
    <3>3. QED
      BY <2>1, <3>1, <3>2
  <2>2. ASSUME NEW c \in Call, NEW d \in Exporters, calls[c].st = "record", d \in calls[c].todo
        PROVE  calls[c].st \in Late /\ Named(c, d[1])
    <3>1. d \in Present
      BY <2>2 DEF Reasons, SentFor, RecordTurns
    <3>2. QED
      BY <2>2, <3>1 DEF Reasons, SentFor, PromptSent, AnswerSent, Named, Active, Late
  <2>3. PICK c \in Call, d \in Exporters :
            /\ posts'[p].call = c /\ posts'[p].dest = d
            /\ calls[c].st \in Late /\ Named(c, d[1])
    BY <1>2, <2>1, <2>2, StepDest
  <2>4. calls'[c].st \in Late /\ Named(c, d[1])'
    BY <1>1, <2>3, UrlOf, NamedKept
  <2>5. QED
    BY <2>3, <2>4
<1>3. ASSUME NEW u \in Urls, NEW c \in store'[u].calls
      PROVE  calls'[c].st \in Late /\ Named(c, u)'
  <2>1. CASE c \in store[u].calls
    <3>1. c \in Call
      BY <2>1 DEF Typed, TypeOK
    <3>2. calls[c].st \in Late /\ Named(c, u)
      BY <2>1 DEF Reasons, KnownStore
    <3>3. QED
      BY <1>1, <3>1, <3>2, NamedKept
  <2>2. CASE c \notin store[u].calls
    <3>1. PICK p \in Post : posts[p].call = c /\ c # 0 /\ posts[p].dest[1] = u
      BY <2>2, StepWrites
    <3>2. c \in Call
      BY <3>1, JournalAssumption DEF Typed, TypeOK, PostRec, Call
    <3>3. calls[c].st \in Late /\ Named(c, u)
      BY <3>1 DEF Reasons, KnownPosts
    <3>4. QED
      BY <1>1, <3>2, <3>3, NamedKept
  <2>3. QED
    BY <2>1, <2>2
<1>4. KnownPosts'
  BY <1>2 DEF KnownPosts, Named, Covered
<1>5. KnownStore'
  BY <1>3 DEF KnownStore, Named, Covered
<1>6. QED
  BY <1>4, <1>5

LEMMA StepLeaves ==
    ASSUME Typed, Steady, Reasons, [Next]_vars
    PROVE  NobodyLeaves'
<1> DEFINE Here(e) == exporters[e].st \in {"new", "live"}
<1>1. \A c \in Call, e \in Exporters : calls[c].st \in Active => Here(e)
  BY DEF Reasons, NobodyLeaves
<1>2. ASSUME NEW e \in Exporters, Install(e) PROVE \A x \in Exporters : Here(x) => Here(x)'
  BY <1>2 DEF Install, Typed, TypeOK, ExporterRec
<1>3. ASSUME NEW e \in Exporters, Flush(e) PROVE \A c \in Call : calls'[c].st \notin Active
  BY <1>3 DEF Flush, Steady, Idle, Active
<1>4. ASSUME NEW e \in Exporters, Flushed(e) \/ FlushTimeout(e) \/ Deregister(e)
      PROVE  \A c \in Call : calls[c].st \notin Active /\ calls'[c].st = calls[c].st
  <2>1. ~Here(e)
    BY <1>4 DEF Flushed, FlushTimeout, Deregister
  <2>2. \A c \in Call : calls'[c].st = calls[c].st
    BY <1>4 DEF Flushed, FlushTimeout, Deregister, Typed, TypeOK, CallRec
  <2>3. QED
    BY <1>1, <2>1, <2>2
<1>5. ASSUME NEW c \in Call, NEW s \in Sessions, NEW hs, PreCall(c, s, hs)
      PROVE  \A e \in Exporters : Here(e) /\ exporters' = exporters
  BY <1>5 DEF PreCall, Steady
<1>6. ASSUME NEW c \in Call, calls[c].st \in Active, exporters' = exporters
      PROVE  NobodyLeaves'
  BY <1>1, <1>6 DEF NobodyLeaves
<1>7. ASSUME Exit PROVE \A c \in Call : calls'[c].st \notin Active
  BY <1>7 DEF Exit, Typed, TypeOK, CallRec, Active
<1>8. ASSUME UNCHANGED <<calls, exporters>> PROVE NobodyLeaves'
  BY <1>1, <1>8 DEF NobodyLeaves
<1>9. ASSUME NEW e \in Exporters, Install(e) PROVE NobodyLeaves'
  BY <1>1, <1>2, <1>9 DEF NobodyLeaves, Install
<1>10. QED
  BY <1>3, <1>4, <1>5, <1>6, <1>7, <1>8, <1>9
     DEF Next, Callback, Thread, Answer, SendBlocks, SendRecord, Failure, Success, Write, Answered,
         AttemptFails, Delete, Active, NobodyLeaves, vars

LEMMA PresentSame ==
    ASSUME \A d \in Exporters : dests'[d].refs = dests[d].refs
    PROVE  Present' = Present
BY DEF Present

\* A call that a step leaves alone keeps its turns.
LEMMA SentKept ==
    ASSUME Typed, Kept, NEW c \in Call, SentFor(c), calls'[c] = calls[c], Present' = Present
    PROVE  SentFor(c)'
<1>1. PICK s \in Sessions \cup {None} : s = calls[c].session
  BY DEF Typed, TypeOK, CallRec
<1>2. calls[c].in \cup calls[c].out \subseteq Hashes
  BY DEF Typed, TypeOK, CallRec
<1>3. \A d \in Present : d[1] \in Urls
  BY UrlOf DEF Present
<1>4. \A d \in Present, h \in Hashes : Covered(d[1], s, h) => Covered(d[1], s, h)'
  BY <1>3 DEF Kept
<1>5. PromptSent(c)'
  BY <1>1, <1>2, <1>4 DEF SentFor, PromptSent, Covered
<1>6. AnswerSent(c)'
  BY <1>1, <1>2, <1>4 DEF SentFor, AnswerSent, Covered
<1>7. RecordTurns(c)'
  BY DEF SentFor, RecordTurns
<1>8. QED
  BY <1>5, <1>6, <1>7 DEF SentFor

\* After its turn a destination has the blocks, or a POST is under way to it.
LEMMA TurnCovers ==
    ASSUME Typed, Stored, Steady, NEW c \in Call, NEW d \in Exporters, NEW p \in Post, SendBlocks(c, d, p),
           NEW s, s = calls[c].session,
           NEW h \in (IF calls[c].st = "prompt" THEN calls[c].in ELSE calls[c].out)
    PROVE  Covered(d[1], s, h)'
<1> DEFINE r == Current(dests[d], s)
           new == (IF calls[c].st = "prompt" THEN calls[c].in ELSE calls[c].out) \ r.hashes
<1>1. s \in Sessions /\ dests[d] \in DestRec /\ calls[c] \in CallRec
  BY DEF SendBlocks, Begun, Typed, TypeOK
<1>2. store' = store /\ posts' = IF new = {} THEN posts ELSE [posts EXCEPT ![p] = Message(d, s, 0, new)]
  BY DEF SendBlocks
<1>3. CASE h \in r.hashes
  <2>1. dests[d].session = s /\ h \in dests[d].hashes
    BY <1>1, <1>3, CurrentType
  <2>2. <<s, h>> \in store[d[1]].blocks
    BY <2>1 DEF Stored, SentStored, Steady
  <2>3. QED
    BY <1>2, <2>2 DEF Covered
<1>4. CASE h \notin r.hashes
  <2>1. h \in new /\ new \in SUBSET Hashes
    BY <1>1, <1>4 DEF CallRec
  <2>2. /\ Message(d, s, 0, new).st = "sending" /\ Message(d, s, 0, new).call = 0
        /\ Message(d, s, 0, new).dest = d /\ Message(d, s, 0, new).session = s
        /\ Message(d, s, 0, new).hashes = new
    BY <1>1, <2>1, MessageType, JournalAssumption
  <2> HIDE DEF new
  <2>3. posts'[p] = Message(d, s, 0, new)
    BY <1>2, <2>1 DEF Typed, TypeOK
  <2>4. QED
    BY <2>1, <2>2, <2>3 DEF Covered, Unsaid
<1>5. QED
  BY <1>3, <1>4

\* What was covered for a call is covered where it goes on.
LEMMA SentOn ==
    ASSUME Typed, Kept, NEW c \in Call, SentFor(c), NEW s, s = calls[c].session, NEW d \in Present
    PROVE  /\ \A h \in calls[c].in : Covered(d[1], s, h) => Covered(d[1], s, h)'
           /\ \A h \in calls[c].out : Covered(d[1], s, h) => Covered(d[1], s, h)'
BY UrlOf DEF Kept, Typed, TypeOK, CallRec, Present

LEMMA BlocksSent ==
    ASSUME Typed, Stored, Steady, Kept, NEW c \in Call, SentFor(c), NEW d \in Exporters, NEW p \in Post,
           SendBlocks(c, d, p)
    PROVE  SentFor(c)'
<1>1. PICK s : s = calls[c].session
  OBVIOUS
<1>2. calls[c] \in CallRec /\ calls[c].st \in {"prompt", "answer"} /\ d \in calls[c].todo
  BY DEF SendBlocks, Typed, TypeOK
<1>3. calls'[c] = Turn(calls[c], d)
  BY DEF SendBlocks, Typed, TypeOK
<1>4. /\ calls'[c].session = s /\ calls'[c].in = calls[c].in /\ calls'[c].out = calls[c].out
      /\ calls'[c].todo = calls[c].todo \ {d}
      /\ calls[c].st = "prompt" => calls'[c].st = IF calls[c].todo = {d} THEN "open" ELSE "prompt"
      /\ calls[c].st = "answer" => calls'[c].st = "answer"
  BY <1>1, <1>2, <1>3 DEF Turn, After, CallRec
<1>5. Present' = Present
  <2>1. Current(dests[d], calls[c].session).refs = dests[d].refs
    BY DEF Current, Typed, TypeOK, DestRec
  <2>2. \A x \in Exporters : dests'[x].refs = dests[x].refs
    BY <2>1 DEF SendBlocks, Typed, TypeOK
  <2>3. QED
    BY <2>2, PresentSame
<1>6. ASSUME NEW x \in Present, calls'[c].st \in Active
      PROVE  \/ calls'[c].st = "prompt" /\ x \in calls'[c].todo
             \/ \A h \in calls[c].in : Covered(x[1], s, h)'
  <2>1. CASE x = d /\ calls[c].st = "prompt"
    BY <1>1, <2>1, TurnCovers
  <2>2. CASE x # d /\ calls[c].st = "prompt" /\ x \in calls[c].todo
    BY <1>4, <2>2
  <2>3. CASE calls[c].st = "answer" \/ x \notin calls[c].todo
    <3>1. \A h \in calls[c].in : Covered(x[1], s, h)
      BY <1>1, <1>2, <2>3 DEF SentFor, PromptSent, Active
    <3>2. QED
      BY <1>1, <3>1, SentOn
  <2>4. QED
    BY <1>2, <2>1, <2>2, <2>3
<1>7. ASSUME NEW x \in Present, calls'[c].st \in {"answer", "record"}
      PROVE  \/ calls'[c].st = "answer" /\ x \in calls'[c].todo
             \/ \A h \in calls[c].out : Covered(x[1], s, h)'
  <2>0. calls[c].st = "answer" /\ calls'[c].st = "answer"
    BY <1>2, <1>4, <1>7
  <2>1. CASE x = d
    BY <1>1, <2>0, <2>1, TurnCovers
  <2>2. CASE x # d /\ x \in calls[c].todo
    BY <1>4, <2>0, <2>2
  <2>3. CASE x \notin calls[c].todo
    <3>1. \A h \in calls[c].out : Covered(x[1], s, h)
      BY <1>1, <2>0, <2>3 DEF SentFor, AnswerSent
    <3>2. QED
      BY <1>1, <3>1, SentOn
  <2>4. QED
    BY <2>1, <2>2, <2>3
<1>8. PromptSent(c)'
  BY <1>4, <1>5, <1>6 DEF PromptSent, Covered
<1>9. AnswerSent(c)'
  BY <1>4, <1>5, <1>7 DEF AnswerSent, Covered
<1>10. RecordTurns(c)'
  BY <1>2, <1>4 DEF RecordTurns
<1>11. QED
  BY <1>8, <1>9, <1>10 DEF SentFor

LEMMA RecordSent ==
    ASSUME Typed, Kept, NEW c \in Call, SentFor(c), NEW d \in Exporters, NEW p \in Post, SendRecord(c, d, p)
    PROVE  SentFor(c)'
<1>1. PICK s : s = calls[c].session
  OBVIOUS
<1>2. calls[c] \in CallRec /\ calls[c].st = "record" /\ calls'[c] = Turn(calls[c], d)
  BY DEF SendRecord, Typed, TypeOK
<1>3. /\ calls'[c].session = s /\ calls'[c].in = calls[c].in /\ calls'[c].out = calls[c].out
      /\ calls'[c].todo \subseteq calls[c].todo /\ calls'[c].st \in {"record", "done"}
  BY <1>1, <1>2 DEF Turn, After, CallRec
<1>4. Present' = Present
  BY DEF SendRecord, Present
<1>5. ASSUME NEW x \in Present
      PROVE  \A h \in calls[c].in \cup calls[c].out : Covered(x[1], s, h)'
  <2>1. \A h \in calls[c].in \cup calls[c].out : Covered(x[1], s, h)
    BY <1>1, <1>2 DEF SentFor, PromptSent, AnswerSent, Active
  <2>2. QED
    BY <1>1, <2>1, SentOn
<1>6. PromptSent(c)' /\ AnswerSent(c)'
  BY <1>3, <1>4, <1>5 DEF PromptSent, AnswerSent, Covered
<1>7. RecordTurns(c)'
  BY <1>2, <1>3, <1>4 DEF SentFor, RecordTurns
<1>8. QED
  BY <1>6, <1>7 DEF SentFor

LEMMA AnswerGoesOn ==
    ASSUME Typed, Kept, NEW c \in Call, SentFor(c), Answer(c)
    PROVE  SentFor(c)'
<1>1. PICK s : s = calls[c].session
  OBVIOUS
<1>2. calls[c] \in CallRec /\ calls[c].st = "answer" /\ calls[c].todo = {}
  BY DEF Answer, Typed, TypeOK
<1>3. /\ calls'[c].session = s /\ calls'[c].in = calls[c].in /\ calls'[c].out = calls[c].out
      /\ calls'[c].todo = Present /\ calls'[c].st \in {"record", "done"}
  BY <1>1, <1>2 DEF Answer, CallRec, Typed, TypeOK
<1>4. Present' = Present
  BY DEF Answer, Present
<1>5. ASSUME NEW x \in Present
      PROVE  \A h \in calls[c].in \cup calls[c].out : Covered(x[1], s, h)'
  <2>1. \A h \in calls[c].in \cup calls[c].out : Covered(x[1], s, h)
    BY <1>1, <1>2 DEF SentFor, PromptSent, AnswerSent, Active
  <2>2. QED
    BY <1>1, <2>1, SentOn
<1>6. PromptSent(c)' /\ AnswerSent(c)'
  BY <1>3, <1>4, <1>5 DEF PromptSent, AnswerSent, Covered
<1>7. RecordTurns(c)'
  BY <1>3, <1>4 DEF RecordTurns
<1>8. QED
  BY <1>6, <1>7 DEF SentFor

LEMMA SuccessGoesOn ==
    ASSUME Typed, Kept, NEW c \in Call, SentFor(c), NEW hs, Success(c, hs)
    PROVE  SentFor(c)'
<1>1. PICK s : s = calls[c].session
  OBVIOUS
<1>2. calls[c] \in CallRec /\ calls[c].st = "open"
  BY DEF Success, Typed, TypeOK
<1>3. /\ calls'[c].session = s /\ calls'[c].in \subseteq calls[c].in /\ calls'[c].out = hs
      /\ calls'[c].todo = IF hs = {} THEN {} ELSE Present
      /\ calls'[c].st = "answer"
  <2> DEFINE n == IF calls[c].kept THEN calls[c].in ELSE {}
             m == IF hs = {} THEN {} ELSE Present
  <2>1. calls'[c] = [calls[c] EXCEPT !.st = "answer", !.out = hs, !.in = n, !.todo = m]
    BY DEF Success, Typed, TypeOK
  <2>2. n \subseteq calls[c].in
    OBVIOUS
  <2> HIDE DEF n
  <2>3. QED
    BY <1>1, <1>2, <2>1, <2>2 DEF CallRec
<1>4. Present' = Present
  BY DEF Success, Present
<1>5. ASSUME NEW x \in Present
      PROVE  \A h \in calls[c].in : Covered(x[1], s, h)'
  <2>1. \A h \in calls[c].in : Covered(x[1], s, h)
    BY <1>1, <1>2 DEF SentFor, PromptSent, Active
  <2>2. QED
    BY <1>1, <2>1, SentOn
<1>6. PromptSent(c)'
  BY <1>3, <1>4, <1>5 DEF PromptSent, Covered
<1>7. AnswerSent(c)' /\ RecordTurns(c)'
  BY <1>3, <1>4 DEF AnswerSent, RecordTurns
<1>8. QED
  BY <1>6, <1>7 DEF SentFor

LEMMA StepSent ==
    ASSUME Typed, RefsMatch, Stored, Steady, Reasons, [Next]_vars, NEW c \in Call
    PROVE  SentFor(c)'
<1>1. Kept /\ SentFor(c)
  BY StepKept DEF Reasons
<1> USE DEF Typed
<1>2. ASSUME calls'[c].st \notin Active PROVE SentFor(c)'
  BY <1>2 DEF SentFor, PromptSent, AnswerSent, RecordTurns, Active
<1>3. ASSUME NEW e \in Exporters, Install(e) PROVE calls'[c].st \notin Active
  BY <1>3 DEF Install, Steady, Active
<1>4. ASSUME NEW e \in Exporters, Deregister(e) PROVE calls'[c].st \notin Active
  <2>1. calls[c].st \notin Active
    BY <1>4 DEF Deregister, Reasons, NobodyLeaves
  <2>2. calls'[c].st = calls[c].st
    BY <1>4 DEF Deregister, TypeOK, CallRec
  <2>3. QED
    BY <2>1, <2>2
<1>5. ASSUME Exit PROVE calls'[c].st \notin Active
  BY <1>5 DEF Exit, TypeOK, CallRec, Active
<1>6. ASSUME calls'[c] = calls[c], Present' = Present PROVE SentFor(c)'
  BY <1>1, <1>6, SentKept
<1>7. ASSUME UNCHANGED <<calls, dests>> PROVE SentFor(c)'
  BY <1>6, <1>7 DEF Present
<1>8. ASSUME NEW p \in Post, Answered(p) PROVE SentFor(c)'
  <2>1. posts[p].dest \in Exporters /\ posts[p] \in PostRec
    BY <1>8 DEF Answered, Dispatched, TypeOK
  <2>2. \A d \in Exporters : dests'[d].refs = dests[d].refs
    BY <1>8, <2>1, NotedType DEF Answered, TypeOK
  <2>3. QED
    BY <1>6, <1>8, <2>2, PresentSame DEF Answered
<1>9. ASSUME NEW x \in Call, NEW d \in Exporters, NEW p \in Post, SendBlocks(x, d, p) PROVE SentFor(c)'
  <2>1. CASE x = c
    BY <1>1, <1>9, <2>1, BlocksSent
  <2>2. CASE x # c
    <3>1. Current(dests[d], calls[x].session).refs = dests[d].refs
      BY DEF Current, TypeOK, DestRec
    <3>2. \A y \in Exporters : dests'[y].refs = dests[y].refs
      BY <1>9, <3>1 DEF SendBlocks, TypeOK
    <3>3. calls'[c] = calls[c]
      BY <1>9, <2>2 DEF SendBlocks, TypeOK
    <3>4. QED
      BY <1>6, <3>2, <3>3, PresentSame
  <2>3. QED
    BY <2>1, <2>2
<1>10. ASSUME NEW x \in Call, NEW d \in Exporters, NEW p \in Post, SendRecord(x, d, p) PROVE SentFor(c)'
  <2>1. CASE x = c
    BY <1>1, <1>10, <2>1, RecordSent
  <2>2. CASE x # c
    BY <1>6, <1>10, <2>2 DEF SendRecord, TypeOK, Present
  <2>3. QED
    BY <2>1, <2>2
<1>11. ASSUME NEW x \in Call, Answer(x) PROVE SentFor(c)'
  <2>1. CASE x = c
    BY <1>1, <1>11, <2>1, AnswerGoesOn
  <2>2. CASE x # c
    BY <1>6, <1>11, <2>2 DEF Answer, TypeOK, Present
  <2>3. QED
    BY <2>1, <2>2
<1>12. ASSUME NEW x \in Call, NEW hs, Success(x, hs) PROVE SentFor(c)'
  <2>1. CASE x = c
    BY <1>1, <1>12, <2>1, SuccessGoesOn
  <2>2. CASE x # c
    BY <1>6, <1>12, <2>2 DEF Success, TypeOK, Present
  <2>3. QED
    BY <2>1, <2>2
<1>13. ASSUME NEW x \in Call, Failure(x) PROVE SentFor(c)'
  <2>1. CASE x = c
    BY <1>2, <1>13, <2>1 DEF Failure, TypeOK, CallRec, Active
  <2>2. CASE x # c
    BY <1>6, <1>13, <2>2 DEF Failure, TypeOK, Present
  <2>3. QED
    BY <2>1, <2>2
<1>14. ASSUME NEW x \in Call, NEW s \in Sessions, NEW hs, PreCall(x, s, hs) PROVE SentFor(c)'
  <2>1. CASE x = c
    <3>1. calls'[c].st = "prompt" /\ calls'[c].todo = Present /\ Present' = Present
      BY <1>14, <2>1 DEF PreCall, TypeOK, Present
    <3>2. QED
      BY <3>1 DEF SentFor, PromptSent, AnswerSent, RecordTurns
  <2>2. CASE x # c
    BY <1>6, <1>14, <2>2 DEF PreCall, TypeOK, Present
  <2>3. QED
    BY <2>1, <2>2
<1>15. QED
  BY <1>2, <1>3, <1>4, <1>5, <1>7, <1>8, <1>9, <1>10, <1>11, <1>12, <1>13, <1>14
     DEF Next, Callback, Thread, Flush, Flushed, FlushTimeout, Write, AttemptFails, Delete, vars

LEMMA StepReasons == Typed /\ RefsMatch /\ Stored /\ Reasons /\ [Next]_vars => Reasons'
<1> SUFFICES ASSUME Typed, RefsMatch, Stored, Reasons, [Next]_vars, Steady' PROVE Reasons'
  BY DEF Reasons
<1>1. env' = env
  BY DEF Next, Callback, Thread, Install, Flush, Flushed, FlushTimeout, Deregister, Exit, PreCall,
         SendBlocks, SendRecord, Answer, Failure, Success, Write, Answered, AttemptFails, Delete, vars
<1>2. Steady
  BY <1>1 DEF Steady
<1>3. QED
  BY <1>2, StepLeaves, StepSent, StepKnown DEF Reasons

LEMMA ReasonsGiven ==
    ASSUME Reasons, TypeOK
    PROVE  MissingHasReason
<1> SUFFICES ASSUME Steady, NEW u \in Urls, NEW c \in store[u].calls, NEW b \in Names(c) \ store[u].blocks
             PROVE  \E p \in Post : /\ posts[p].st \in {"sending", "gaveup", "killed"}
                                    /\ posts[p].dest[1] = u /\ posts[p].session = b[1]
                                    /\ b[2] \in posts[p].hashes
  BY DEF MissingHasReason
<1>1. PICK h \in calls[c].in \cup calls[c].out : b = <<calls[c].session, h>>
  BY DEF Names
<1>2. Covered(u, calls[c].session, h)
  BY DEF Reasons, KnownStore, Named
<1>3. QED
  BY <1>1, <1>2 DEF Covered, Unsaid

LEMMA AllReasons == Spec => [](Typed /\ RefsMatch /\ Stored /\ Reasons)
<1>1. Init => Typed /\ RefsMatch /\ Stored /\ Reasons
  BY InitTyped, InitRefs, InitStored, InitReasons
<1>2. Typed /\ RefsMatch /\ Stored /\ Reasons /\ [Next]_vars => (Typed /\ RefsMatch /\ Stored /\ Reasons)'
  BY StepTyped, StepRefs, StepStored, StepReasons
<1>3. QED
  BY <1>1, <1>2, PTL DEF Spec

(***************************************************************************)
(* A block that a stored record names and the viewer lacks has a POST to   *)
(* blame, on its way, given up or killed: no call is recorded with a       *)
(* block that _send_new_blocks wrongly left out.                           *)
(***************************************************************************)
THEOREM MissingIsExplained == Spec => []MissingHasReason
<1>1. Typed /\ Reasons => MissingHasReason
  BY ReasonsGiven DEF Typed
<1>2. QED
  BY <1>1, AllReasons, PTL

-----------------------------------------------------------------------------
(* Shutdown.                                                               *)

\* The record of call c is at the viewer u, or a POST of it is not answered.
Recorded(c, u) ==
    \/ c \in store[u].calls
    \/ \E p \in Post : posts[p].st \in Unsaid /\ posts[p].call = c /\ posts[p].dest[1] = u

\* A record went to the destinations that had their turn; a call that is done
\* was recorded, with its blocks, wherever there was an exporter.
RecordWent(c) ==
    calls[c].st = "record" => \A d \in Present : d \in calls[c].todo \/ Recorded(c, d[1])
DoneWent(c) ==
    calls[c].st = "done" => \A e \in Exporters : exporters[e].st # "new" => Recorded(c, e[1]) /\ Named(c, e[1])

\* A record the server has written is in its table.
WrittenCalls ==
    \A p \in Post : posts[p].written /\ posts[p].call # 0 => posts[p].call \in store[posts[p].dest[1]].calls

\* Exporters that took part belong to the environment; POSTs are killed when
\* all of them are gone; one that saw its flush end left nothing behind.
TakePart == \A e \in Exporters : exporters[e].st # "new" => e \in env.exporters
KilledLast ==
    (\E p \in Post : posts[p].st = "killed") => \A e \in env.exporters : exporters[e].st = "gone"
Quiet ==
    \A e \in Exporters : exporters[e].st \in {"flushed", "gone"} /\ ~exporters[e].late =>
        \A p \in Post : posts[p].st \notin {"sending", "killed"}

Delivery ==
    Steady => /\ \A c \in Call : RecordWent(c) /\ DoneWent(c)
              /\ WrittenCalls /\ TakePart /\ KilledLast /\ Quiet
LEMMA InitDelivery == Init => Delivery
<1> SUFFICES ASSUME Init PROVE Delivery
  OBVIOUS
<1>1. \A c \in Call : calls[c].st = "new"
  BY DEF Init, NoCall
<1>2. \A p \in Post : posts[p].st = "free" /\ ~posts[p].written
  BY DEF Init, NoPost
<1>3. \A e \in Exporters : exporters[e].st = "new"
  BY DEF Init
<1>4. QED
  BY <1>1, <1>2, <1>3 DEF Delivery, RecordWent, DoneWent, WrittenCalls, TakePart, KilledLast, Quiet

LEMMA RecordedStays ==
    ASSUME Typed, Steady, WrittenCalls, [Next]_vars,
           NEW u \in Urls, NEW c \in Call, Recorded(c, u)
    PROVE  Recorded(c, u)'
<1>1. PostSame /\ store[u].calls \subseteq store'[u].calls
  BY StepPosts
<1>2. CASE c \in store[u].calls
  BY <1>1, <1>2 DEF Recorded
<1>3. ASSUME NEW p \in Post, posts[p].st \in Unsaid, posts[p].call = c, posts[p].dest[1] = u
      PROVE  Recorded(c, u)'
  <2>1. CASE posts'[p].st \in Unsaid
    BY <1>1, <1>3, <2>1 DEF Recorded, PostSame
  <2>2. CASE posts[p].written
    <3>1. c # 0
      BY JournalAssumption DEF Call
    <3>2. c \in store[u].calls
      BY <1>3, <2>2, <3>1 DEF WrittenCalls
    <3>3. QED
      BY <1>1, <3>2 DEF Recorded
  <2>3. QED
    BY <1>1, <1>3, <2>1, <2>2 DEF PostSame
<1>4. QED
  BY <1>2, <1>3 DEF Recorded

\* What a step makes of the state of a POST: killed by the exit only, sent by
\* a call only, written with its table only.
LEMMA StepStates ==
    ASSUME Typed, Steady, [Next]_vars, NEW p \in Post
    PROVE  /\ posts'[p].st = "killed" => posts[p].st = "killed" \/ (Exit /\ p \in Pending)
           /\ posts'[p].st = "sending" => posts[p].st = "sending" \/ \E c \in Call : calls[c].st \in Active
           /\ posts'[p].written /\ posts'[p].call # 0 =>
                 \/ posts[p].written /\ posts'[p].call = posts[p].call /\ posts'[p].dest = posts[p].dest
                 \/ posts'[p].call \in store'[posts'[p].dest[1]].calls
<1> DEFINE Killed  == posts'[p].st = "killed" => posts[p].st = "killed" \/ (Exit /\ p \in Pending)
           Sending == posts'[p].st = "sending" => posts[p].st = "sending" \/ \E c \in Call : calls[c].st \in Active
           Kept0   == posts[p].written /\ posts'[p].call = posts[p].call /\ posts'[p].dest = posts[p].dest
           Written == posts'[p].written /\ posts'[p].call # 0 =>
                         Kept0 \/ posts'[p].call \in store'[posts'[p].dest[1]].calls
           Goal == Killed /\ Sending /\ Written
<1> USE DEF Typed
<1>0. posts[p] \in PostRec
  BY DEF TypeOK
<1>1. ASSUME posts'[p] = posts[p] PROVE Goal
  BY <1>1
<1>2. ASSUME Exit PROVE Goal
  <2>1. PICK lost \in SUBSET Pending :
          posts' = [x \in Post |-> IF x \in Pending
                                   THEN [posts[x] EXCEPT !.st = "killed", !.wire = @ /\ x \notin lost]
                                   ELSE posts[x]]
    BY <1>2 DEF Exit
  <2>2. CASE p \in Pending
    <3>1. /\ posts'[p].st = "killed" /\ posts'[p].written = posts[p].written
          /\ posts'[p].call = posts[p].call /\ posts'[p].dest = posts[p].dest
      BY <1>0, <2>1, <2>2 DEF PostRec
    <3>2. QED
      BY <1>2, <2>2, <3>1
  <2>3. CASE p \notin Pending
    BY <1>1, <2>1, <2>3
  <2>4. QED
    BY <2>2, <2>3
<1>3. ASSUME NEW c \in Call, NEW d \in Exporters, NEW q \in Post, SendBlocks(c, d, q) \/ SendRecord(c, d, q)
      PROVE  Goal
  <2>1. calls[c].st \in Active
    BY <1>3 DEF SendBlocks, SendRecord, Active
  <2> DEFINE New == (IF calls[c].st = "prompt" THEN calls[c].in ELSE calls[c].out)
                       \ Current(dests[d], calls[c].session).hashes
             Sent(n, hs) == posts' = [posts EXCEPT ![q] = Message(d, calls[c].session, n, hs)]
             Made == \/ posts'[p] = posts[p]
                     \/ posts'[p].st = "sending" /\ ~posts'[p].written
  <2>2. ASSUME NEW n, NEW hs, Sent(n, hs) PROVE Made
    <3> DEFINE m == Message(d, calls[c].session, n, hs)
    <3>1. m.st = "sending" /\ ~m.written
      BY DEF Message
    <3> HIDE DEF m
    <3>2. posts'[p] \in {posts[p], m}
      BY <2>2 DEF TypeOK, m
    <3>3. QED
      BY <3>1, <3>2
  <2>3. ASSUME SendBlocks(c, d, q) PROVE UNCHANGED posts \/ Sent(0, New)
    BY <2>3 DEF SendBlocks
  <2>4. ASSUME SendRecord(c, d, q) PROVE Sent(c, {})
    BY <2>4 DEF SendRecord
  <2> HIDE DEF Sent, New
  <2>5. Made
    BY <1>3, <2>2, <2>3, <2>4
  <2>6. QED
    BY <1>1, <2>1, <2>5
<1>4. ASSUME Write(p) PROVE Goal
  <2> DEFINE r == [posts[p] EXCEPT !.wire = FALSE, !.written = TRUE]
  <2>1. r.call = posts[p].call /\ r.dest = posts[p].dest /\ r.st = posts[p].st
    BY <1>0 DEF PostRec
  <2>2. posts'[p] = r
    BY <1>4 DEF Write, TypeOK
  <2>3. posts[p].dest[1] \in Urls
    BY <1>4, UrlOf DEF Write, Dispatched
  <2>4. posts[p].call # 0 => posts[p].call \in store'[posts[p].dest[1]].calls
    BY <1>4, <2>3 DEF Write, TypeOK
  <2> HIDE DEF r
  <2>5. QED
    BY <2>1, <2>2, <2>4
<1>5. ASSUME Answered(p) PROVE Goal
  <2> DEFINE r == [posts[p] EXCEPT !.st = "ok"]
  <2>1. r.call = posts[p].call /\ r.dest = posts[p].dest /\ r.st = "ok" /\ r.written = posts[p].written
    BY <1>0 DEF PostRec
  <2>2. posts'[p] = r
    BY <1>5 DEF Answered, TypeOK
  <2> HIDE DEF r
  <2>3. QED
    BY <2>1, <2>2
<1>6. ASSUME NEW wire \in BOOLEAN, AttemptFails(p, wire) PROVE Goal
  <2>1. posts[p].st = "sending" /\ posts'[p] = Attempted(posts[p], wire)
    BY <1>6 DEF AttemptFails, TypeOK
  <2>2. /\ Attempted(posts[p], wire).call = posts[p].call /\ Attempted(posts[p], wire).dest = posts[p].dest
        /\ Attempted(posts[p], wire).written => posts[p].written
    BY <1>0, <2>1, AttemptedType
  <2>3. Attempted(posts[p], wire).st \in {"sending", "gaveup"}
    BY <1>0, <2>1 DEF Attempted, PostRec
  <2>4. QED
    BY <2>1, <2>2, <2>3
<1>7. ASSUME NEW q \in Post, q # p, Write(q) \/ Answered(q) \/ \E wire \in BOOLEAN : AttemptFails(q, wire)
      PROVE  posts'[p] = posts[p]
  BY <1>7 DEF Write, Answered, AttemptFails, TypeOK
<1>8. ASSUME UNCHANGED posts PROVE Goal
  BY <1>1, <1>8
<1> HIDE DEF Goal
<1>9. Goal
  BY <1>1, <1>2, <1>3, <1>4, <1>5, <1>6, <1>7, <1>8
     DEF Next, Callback, Thread, Install, Flush, Flushed, FlushTimeout, Deregister, PreCall, Answer,
         Failure, Success, Delete, vars
<1>10. QED
  BY <1>9 DEF Goal

LEMMA StepWritten ==
    ASSUME Typed, Steady, WrittenCalls, [Next]_vars
    PROVE  WrittenCalls'
<1>1. ASSUME NEW p \in Post, posts'[p].written, posts'[p].call # 0
      PROVE  posts'[p].call \in store'[posts'[p].dest[1]].calls
  <2>1. CASE posts[p].written /\ posts'[p].call = posts[p].call /\ posts'[p].dest = posts[p].dest
    <3>1. posts[p].dest[1] \in Urls
      BY <2>1, UrlOf DEF Typed, Dispatched
    <3>2. posts[p].call \in store[posts[p].dest[1]].calls
      BY <1>1, <2>1 DEF WrittenCalls
    <3>3. QED
      BY <2>1, <3>1, <3>2, StepPosts
  <2>2. QED
    BY <1>1, <2>1, StepStates
<1>2. QED
  BY <1>1 DEF WrittenCalls

\* What a step does to the exporters.
LEMMA StepExporters ==
    ASSUME Typed, Steady, TakePart, [Next]_vars, NEW e \in Exporters
    PROVE  /\ env' = env
           /\ exporters'[e].st # "new" => e \in env.exporters
           /\ exporters[e].st = "gone" => exporters'[e] = exporters[e]
           /\ exporters[e].st # "new" => exporters'[e].st # "new"
           /\ exporters'[e].st \in {"flushed", "gone"} /\ ~exporters'[e].late =>
                 \/ exporters[e].st \in {"flushed", "gone"} /\ ~exporters[e].late
                 \/ Flushed(e)
           /\ exporters[e].st = "new" /\ exporters'[e].st # "new" => \A c \in Call : calls'[c].st = "new"
<1> DEFINE Ended(x) == x.st \in {"flushed", "gone"} /\ ~x.late
           Goal == /\ exporters'[e].st # "new" => e \in env.exporters
                   /\ exporters[e].st = "gone" => exporters'[e] = exporters[e]
                   /\ exporters[e].st # "new" => exporters'[e].st # "new"
                   /\ Ended(exporters'[e]) => Ended(exporters[e]) \/ Flushed(e)
                   /\ exporters[e].st = "new" /\ exporters'[e].st # "new" =>
                         \A c \in Call : calls'[c].st = "new"
<1>0. exporters[e] \in ExporterRec /\ (exporters[e].st # "new" => e \in env.exporters)
  BY DEF Typed, TypeOK, TakePart
<1>1. ASSUME exporters'[e] = exporters[e] PROVE Goal
  BY <1>0, <1>1
<1>2. ASSUME Install(e) PROVE Goal
  <2>1. exporters[e].st = "new" /\ e \in env.exporters /\ \A c \in Call : calls'[c].st = "new"
    BY <1>2 DEF Install, Steady
  <2>2. exporters'[e].st = "live"
    BY <1>0, <1>2 DEF Install, Typed, TypeOK, ExporterRec
  <2>3. QED
    BY <2>1, <2>2
<1>3. ASSUME Flush(e) PROVE Goal
  <2>1. exporters[e].st = "live" /\ exporters'[e].st = "flushing"
    BY <1>0, <1>3 DEF Flush, Typed, TypeOK, ExporterRec
  <2>2. QED
    BY <1>0, <2>1
<1>4. ASSUME Flushed(e) PROVE Goal
  <2>1. exporters[e].st = "flushing" /\ exporters'[e].st = "flushed"
    BY <1>0, <1>4 DEF Flushed, Typed, TypeOK, ExporterRec
  <2>2. QED
    BY <1>0, <1>4, <2>1
<1>5. ASSUME FlushTimeout(e) PROVE Goal
  <2>1. exporters[e].st = "flushing" /\ exporters'[e].st = "flushed" /\ exporters'[e].late
    BY <1>0, <1>5 DEF FlushTimeout, Typed, TypeOK, ExporterRec
  <2>2. QED
    BY <1>0, <2>1
<1>6. ASSUME Deregister(e) PROVE Goal
  <2>1. exporters[e].st = "flushed" /\ exporters'[e].st = "gone" /\ exporters'[e].late = exporters[e].late
    BY <1>0, <1>6 DEF Deregister, Typed, TypeOK, ExporterRec
  <2>2. QED
    BY <1>0, <2>1
<1>7. ASSUME NEW x \in Exporters, x # e,
             Install(x) \/ Flush(x) \/ Flushed(x) \/ FlushTimeout(x) \/ Deregister(x)
      PROVE  exporters'[e] = exporters[e]
  BY <1>7 DEF Install, Flush, Flushed, FlushTimeout, Deregister, Typed, TypeOK
<1>8. ASSUME UNCHANGED exporters PROVE Goal
  BY <1>1, <1>8
<1> HIDE DEF Goal
<1>9. Goal
  BY <1>1, <1>2, <1>3, <1>4, <1>5, <1>6, <1>7, <1>8
     DEF Next, Callback, Thread, Exit, PreCall, SendBlocks, SendRecord, Answer, Failure, Success,
         Write, Answered, AttemptFails, Delete, vars
<1>10. env' = env
  BY StepLate
<1>11. QED
  BY <1>9, <1>10 DEF Goal

LEMMA StepQuiet ==
    ASSUME Typed, Steady, Reasons, Delivery, [Next]_vars
    PROVE  TakePart' /\ KilledLast' /\ Quiet'
<1>0. TakePart /\ KilledLast /\ Quiet /\ NobodyLeaves
  BY DEF Delivery, Reasons
<1>1. TakePart'
  BY <1>0, StepExporters DEF TakePart
<1>2. KilledLast'
  <2> SUFFICES ASSUME NEW p \in Post, posts'[p].st = "killed", NEW e \in env.exporters
               PROVE  env' = env /\ exporters'[e].st = "gone"
    BY StepLate DEF KilledLast
  <2>1. e \in Exporters
    BY EnvFacts DEF Typed
  <2>2. exporters[e].st = "gone"
    BY <1>0, StepStates DEF KilledLast, Exit
  <2>3. QED
    BY <1>0, <2>1, <2>2, StepExporters
<1>3. Quiet'
  <2> SUFFICES ASSUME NEW e \in Exporters, exporters'[e].st \in {"flushed", "gone"}, ~exporters'[e].late,
                      NEW p \in Post
               PROVE  posts'[p].st \notin {"sending", "killed"}
    BY DEF Quiet
  <2>1. CASE exporters[e].st \in {"flushed", "gone"} /\ ~exporters[e].late
    <3>1. posts[p].st \notin {"sending", "killed"} /\ \A c \in Call : calls[c].st \notin Active
      BY <1>0, <2>1 DEF Quiet, NobodyLeaves
    <3>2. QED
      BY <3>1, StepStates DEF Pending
  <2>2. CASE Flushed(e)
    <3>1. e \in env.exporters /\ exporters[e].st # "gone" /\ posts' = posts /\ Pending = {}
      BY <1>0, <2>2 DEF Flushed, TakePart
    <3>2. QED
      BY <1>0, <3>1 DEF KilledLast, Pending
  <2>3. QED
    BY <1>0, <2>1, <2>2, StepExporters
<1>4. QED
  BY <1>1, <1>2, <1>3

LEMMA Hosted ==
    ASSUME TypeOK, RefsMatch, NEW e \in Exporters, exporters[e].st \notin {"new", "gone"}
    PROVE  \E d \in Present : d[1] = e[1]
<1>1. e \in Users(e[1]) /\ e[1] \in Urls
  BY UrlOf DEF Users
<1>2. PICK d \in Exporters : At(e[1]) = {d}
  BY <1>1 DEF RefsMatch
<1>3. QED
  BY <1>2 DEF At

\* No destination comes or goes during a call.
LEMMA PresentStays ==
    ASSUME Typed, Steady, Reasons, [Next]_vars, NEW c \in Call, calls[c].st \in Active
    PROVE  Present' = Present
<1> USE DEF Typed
<1>1. ASSUME NEW e \in Exporters, Install(e) \/ Deregister(e) PROVE FALSE
  BY <1>1 DEF Install, Deregister, Steady, Reasons, NobodyLeaves, Active
<1>2. ASSUME NEW p \in Post, Answered(p) PROVE Present' = Present
  <2>1. posts[p].dest \in Exporters /\ posts[p] \in PostRec
    BY <1>2 DEF Answered, Dispatched, TypeOK
  <2>2. \A d \in Exporters : dests'[d].refs = dests[d].refs
    BY <1>2, <2>1, NotedType DEF Answered, TypeOK
  <2>3. QED
    BY <2>2, PresentSame
<1>3. ASSUME NEW x \in Call, NEW d \in Exporters, NEW p \in Post, SendBlocks(x, d, p) PROVE Present' = Present
  <2>1. Current(dests[d], calls[x].session).refs = dests[d].refs
    BY DEF Current, TypeOK, DestRec
  <2>2. \A y \in Exporters : dests'[y].refs = dests[y].refs
    BY <1>3, <2>1 DEF SendBlocks, TypeOK
  <2>3. QED
    BY <2>2, PresentSame
<1>4. ASSUME UNCHANGED dests PROVE Present' = Present
  BY <1>4 DEF Present
<1>5. QED
  BY <1>1, <1>2, <1>3, <1>4
     DEF Next, Callback, Thread, Flush, Flushed, FlushTimeout, Exit, PreCall, SendRecord, Answer,
         Failure, Success, Write, AttemptFails, Delete, vars

\* How a call comes to its record, and is done.
LEMMA StepEnds ==
    ASSUME Typed, [Next]_vars, NEW c \in Call, calls'[c].st \in {"record", "done"}
    PROVE  \/ calls'[c].st = calls[c].st /\ calls'[c].todo = calls[c].todo
           \/ Answer(c)
           \/ \E d \in Exporters, p \in Post : SendRecord(c, d, p)
<1> USE DEF Typed
<1> DEFINE Same == calls'[c].st = calls[c].st /\ calls'[c].todo = calls[c].todo
<1>0. calls[c] \in CallRec
  BY DEF TypeOK
<1>1. ASSUME calls'[c] = calls[c] PROVE Same
  BY <1>1
<1>2. ASSUME NEW e \in Exporters, Deregister(e) PROVE Same
  BY <1>0, <1>2 DEF Deregister, TypeOK, CallRec
<1>3. ASSUME Exit PROVE Same
  BY <1>0, <1>1, <1>3 DEF Exit, TypeOK, CallRec
<1>4. ASSUME NEW s \in Sessions, NEW hs, PreCall(c, s, hs) PROVE FALSE
  BY <1>4 DEF PreCall, TypeOK
<1>5. ASSUME NEW d \in Exporters, NEW p \in Post, SendBlocks(c, d, p) PROVE FALSE
  BY <1>0, <1>5, TurnType DEF SendBlocks, TypeOK
<1>6. ASSUME NEW hs, Success(c, hs) PROVE FALSE
  <2>1. calls'[c].st = "answer"
    BY <1>0, <1>6 DEF Success, TypeOK, CallRec
  <2>2. QED
    BY <2>1
<1>7. ASSUME Failure(c) PROVE FALSE
  BY <1>0, <1>7 DEF Failure, TypeOK, CallRec
<1>8. ASSUME NEW x \in Call, x # c,
             \/ \E s \in Sessions, hs \in SUBSET env.hashes : PreCall(x, s, hs)
             \/ Callback(x) \/ Failure(x) \/ \E hs \in SUBSET env.hashes : Success(x, hs)
      PROVE  calls'[c] = calls[c]
  BY <1>8 DEF PreCall, Callback, SendBlocks, SendRecord, Answer, Failure, Success, TypeOK
<1>9. ASSUME UNCHANGED calls PROVE calls'[c] = calls[c]
  BY <1>9
<1>10. \A h \in env.hashes : {h} \in SUBSET env.hashes
  OBVIOUS
<1>11. ASSUME NEW hs \in {{}} \cup {{h} : h \in env.hashes} PROVE hs \in SUBSET env.hashes
  BY <1>11
<1> HIDE DEF Same
<1>12. Same \/ Answer(c) \/ \E d \in Exporters, p \in Post : SendRecord(c, d, p)
  BY <1>1, <1>2, <1>3, <1>4, <1>5, <1>6, <1>7, <1>8, <1>9, <1>11
     DEF Next, Callback, Thread, Install, Flush, Flushed, FlushTimeout, Write, Answered, AttemptFails, Delete, vars
<1>13. QED
  BY <1>12 DEF Same

\* The destination whose turn it was has the record, or a POST is under way.
LEMMA TurnRecords ==
    ASSUME Typed, NEW c \in Call, NEW d \in Exporters, NEW p \in Post, SendRecord(c, d, p)
    PROVE  Recorded(c, d[1])'
<1>1. calls[c].session \in Sessions /\ c \in 0..NumCall
  BY JournalAssumption DEF SendRecord, Typed, Begun, Call
<1>2. posts'[p] = Message(d, calls[c].session, c, {})
  BY DEF SendRecord, Typed, TypeOK
<1>3. posts'[p].st = "sending" /\ posts'[p].call = c /\ posts'[p].dest = d
  BY <1>1, <1>2, MessageType
<1>4. QED
  BY <1>3 DEF Recorded, Unsaid

LEMMA StepRecordWent ==
    ASSUME Typed, Steady, Reasons, Delivery, [Next]_vars, NEW c \in Call
    PROVE  RecordWent(c)'
<1> SUFFICES ASSUME calls'[c].st = "record" PROVE \A d \in Present' : d \in calls'[c].todo \/ Recorded(c, d[1])'
  BY DEF RecordWent, Recorded
<1>0. WrittenCalls /\ RecordWent(c) /\ \A d \in Present : d \in Exporters /\ d[1] \in Urls
  BY UrlOf DEF Delivery, Present
<1>1. CASE Answer(c)
  <2>1. calls'[c].todo = Present /\ Present' = Present
    BY <1>1 DEF Answer, Typed, TypeOK, CallRec, Present
  <2>2. QED
    BY <2>1
<1>2. ASSUME calls[c].st = "record", NEW d \in Present, d \notin calls[c].todo PROVE Recorded(c, d[1])'
  <2>1. Recorded(c, d[1])
    BY <1>0, <1>2 DEF RecordWent
  <2>2. QED
    BY <1>0, <2>1, RecordedStays
<1>3. CASE calls'[c].st = calls[c].st /\ calls'[c].todo = calls[c].todo
  <2>1. Present' = Present
    BY <1>3, PresentStays DEF Active
  <2>2. QED
    BY <1>2, <1>3, <2>1
<1>4. ASSUME NEW x \in Exporters, NEW p \in Post, SendRecord(c, x, p)
      PROVE  \A d \in Present' : d \in calls'[c].todo \/ Recorded(c, d[1])'
  <2>1. calls[c].st = "record" /\ calls[c] \in CallRec /\ Present' = Present
    BY <1>4 DEF SendRecord, Typed, TypeOK, Present
  <2>2. calls'[c].todo = calls[c].todo \ {x}
    BY <1>4, <2>1 DEF SendRecord, Turn, Typed, TypeOK, CallRec
  <2>3. Recorded(c, x[1])'
    BY <1>4, TurnRecords
  <2>4. ASSUME NEW d \in Present PROVE d \in calls'[c].todo \/ Recorded(c, d[1])'
    <3>1. CASE d = x
      BY <2>3, <3>1 DEF Recorded
    <3>2. CASE d # x /\ d \in calls[c].todo
      BY <2>2, <3>2
    <3>3. CASE d \notin calls[c].todo
      BY <1>2, <2>1, <3>3
    <3>4. QED
      BY <3>1, <3>2, <3>3
  <2>5. QED
    BY <2>1, <2>4
<1>5. QED
  BY <1>1, <1>3, <1>4, StepEnds

LEMMA StepDoneWent ==
    ASSUME Typed, RefsMatch, Stored, Steady, Reasons, Delivery, [Next]_vars, NEW c \in Call
    PROVE  DoneWent(c)'
<1> SUFFICES ASSUME calls'[c].st = "done", NEW e \in Exporters, exporters'[e].st # "new"
             PROVE  Recorded(c, e[1])' /\ Named(c, e[1])'
  BY DEF DoneWent, Recorded, Named, Covered
<1>0. /\ WrittenCalls /\ RecordWent(c) /\ DoneWent(c) /\ SentFor(c) /\ TakePart /\ e[1] \in Urls
      /\ Kept /\ LateSame
  BY UrlOf, StepKept, StepLate DEF Delivery, Reasons
<1>1. exporters[e].st # "new"
  BY <1>0, StepExporters
<1>2. CASE calls[c].st = "done"
  <2>1. Recorded(c, e[1]) /\ Named(c, e[1])
    BY <1>0, <1>1, <1>2 DEF DoneWent
  <2>2. Recorded(c, e[1])'
    BY <1>0, <2>1, RecordedStays
  <2>3. Named(c, e[1])'
    BY <1>0, <1>2, <2>1, NamedKept DEF Late
  <2>4. QED
    BY <2>2, <2>3
<1>3. CASE calls[c].st \in {"answer", "record"}
  <2>1. exporters[e].st = "live"
    BY <1>1, <1>3 DEF Reasons, NobodyLeaves, Active
  <2>2. PICK d \in Present : d[1] = e[1]
    BY <2>1, Hosted DEF Typed
  <2>3. ASSUME NEW x \in Exporters, NEW p \in Post, SendRecord(c, x, p)
        PROVE  Recorded(c, e[1])' /\ Named(c, e[1])'
    <3>1. calls[c].st = "record" /\ calls[c] \in CallRec /\ x \in calls[c].todo
      BY <2>3 DEF SendRecord, Typed, TypeOK
    <3>2. calls[c].todo = {x}
      BY <2>3, <3>1 DEF SendRecord, Turn, Typed, TypeOK, CallRec
    <3>3. Recorded(c, d[1])'
      <4>1. CASE d = x
        <5>1. Recorded(c, x[1])'
          BY <2>3, TurnRecords
        <5>2. QED
          BY <4>1, <5>1 DEF Recorded
      <4>2. CASE d # x
        <5>1. Recorded(c, d[1])
          BY <1>0, <3>1, <3>2, <4>2 DEF RecordWent
        <5>2. QED
          BY <1>0, <2>2, <5>1, RecordedStays
      <4>3. QED
        BY <4>1, <4>2
    <3>4. Named(c, d[1])
      BY <1>0, <3>1 DEF SentFor, PromptSent, AnswerSent, Named, Active
    <3>5. Named(c, d[1])'
      BY <1>0, <2>2, <3>1, <3>4, NamedKept DEF Late
    <3>6. QED
      BY <2>2, <3>3, <3>5 DEF Recorded, Named, Covered
  <2>4. ASSUME Answer(c) PROVE FALSE
    <3>1. calls'[c].st = IF Present = {} THEN "done" ELSE "record"
      BY <2>4 DEF Answer, Typed, TypeOK, CallRec
    <3>2. QED
      BY <2>2, <3>1
  <2>5. QED
    BY <1>3, <2>3, <2>4, StepEnds
<1>4. calls[c].st \in {"answer", "record", "done"}
  BY StepEnds DEF Answer, SendRecord
<1>5. QED
  BY <1>2, <1>3, <1>4

LEMMA StepDelivery == Typed /\ RefsMatch /\ Stored /\ Reasons /\ Delivery /\ [Next]_vars => Delivery'
<1> SUFFICES ASSUME Typed, RefsMatch, Stored, Reasons, Delivery, [Next]_vars, Steady' PROVE Delivery'
  BY DEF Delivery
<1>1. env' = env
  BY DEF Next, Callback, Thread, Install, Flush, Flushed, FlushTimeout, Deregister, Exit, PreCall,
         SendBlocks, SendRecord, Answer, Failure, Success, Write, Answered, AttemptFails, Delete, vars
<1>2. Steady
  BY <1>1 DEF Steady
<1>3. WrittenCalls'
  BY <1>2, StepWritten DEF Delivery
<1>4. QED
  BY <1>2, <1>3, StepRecordWent, StepDoneWent, StepQuiet DEF Delivery

\* When the flush ended in time and no POST gave up, none is unanswered.
LEMMA DeliveredAtLast ==
    ASSUME TypeOK, Delivery
    PROVE  ShutdownDelivers
<1> SUFFICES ASSUME Steady, \A e \in env.exporters : exporters[e].st = "gone" /\ ~exporters[e].late,
                    \A p \in Post : posts[p].st # "gaveup",
                    NEW c \in Call, NEW e \in env.exporters, calls[c].st = "done"
             PROVE  c \in store[e[1]].calls /\ Names(c) \subseteq store[e[1]].blocks
  BY DEF ShutdownDelivers
<1>1. e \in Exporters
  BY EnvFacts
<1>2. \A p \in Post : posts[p].st \notin Unsaid
  BY <1>1 DEF Delivery, Quiet, Unsaid
<1>3. Recorded(c, e[1]) /\ Named(c, e[1])
  BY <1>1 DEF Delivery, DoneWent
<1>4. QED
  BY <1>2, <1>3 DEF Recorded, Named, Covered, Names

(***************************************************************************)
(* After a shutdown whose flush ended in time, every call that ended is at *)
(* every viewer with all its blocks, unless a POST was given up: nothing   *)
(* is lost with the daemon threads.                                        *)
(***************************************************************************)
THEOREM NothingIsLostAtExit == Spec => []ShutdownDelivers
<1>1. Init => Delivery
  BY InitDelivery
<1>2. Typed /\ RefsMatch /\ Stored /\ Reasons /\ Delivery /\ [Next]_vars => Delivery'
  BY StepDelivery
<1>3. Typed /\ Delivery => ShutdownDelivers
  BY DeliveredAtLast DEF Typed
<1>4. QED
  BY <1>1, <1>2, <1>3, AllReasons, PTL DEF Spec
=============================================================================
