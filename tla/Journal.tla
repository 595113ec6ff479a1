------------------------------ MODULE Journal ------------------------------
(***************************************************************************)
(* The message journal of the tracing package: MessageJournalCallback      *)
(* (src/nooa/tracing/_litellm_journal.py), the JournalExporters that share *)
(* it (_journal_exporter.py) and the tables of the viewer that receive it  *)
(* (src/nooa/viewer/otlp_store.py).                                        *)
(*                                                                         *)
(* An LLM call names the contents of its messages by hash.  Before the     *)
(* call, and again for its answer, the blocks a destination has not seen   *)
(* in this session are POSTed to it; after the call a record that refers   *)
(* to them.  Each POST is a daemon thread with retries; a block counts as  *)
(* seen once its POST has succeeded.  A destination lives as long as some  *)
(* exporter refers to it; an exporter that shuts down waits for the POSTs. *)
(*                                                                         *)
(* Calls of several event loops run in parallel: the lock is held for one  *)
(* destination's test only, so a loop over the destinations is one step    *)
(* per destination.  A request may be written by the server long after     *)
(* the client gave up on it.  "env" says what may happen: "lossy" (answers *)
(* and requests are lost or late), "churn" (exporters come and go during   *)
(* a call) and "delete" (the viewer deletes a session).                    *)
(***************************************************************************)
EXTENDS Integers, FiniteSets

CONSTANTS
    Urls,        \* base URLs of viewers
    Exporters,   \* exporters, each <<its URL, a number>>
    Sessions,    \* session ids
    Hashes,      \* hashes of blocks
    NumCall,     \* bound: LLM calls in a behaviour
    NumPost,     \* bound: POST threads in a behaviour
    Retries,     \* _POST_RETRIES
    Envs         \* the environments to explore: faults, and who takes part

Environment == {"lossy", "churn", "delete"}

ASSUME JournalAssumption ==
    /\ Exporters \subseteq Urls \X Nat
    /\ IsFiniteSet(Exporters)
    /\ {NumCall, NumPost} \subseteq Nat
    /\ Retries \in Nat \ {0}
    /\ Envs \subseteq [faults: SUBSET Environment, sessions: SUBSET Sessions,
                       exporters: SUBSET Exporters, hashes: SUBSET Hashes, calls: 0..NumCall]

VARIABLES
    env,       \* what may happen in this behaviour
    exporters, \* exporter -> where it is in its life; did its flush time out
    dests,     \* _Destination objects, each named by the exporter that made it
    calls,     \* LLM call -> how far the callback has come with it
    posts,     \* POST thread -> what it sends and how far it is
    store      \* URL -> the blocks and call records written there

vars == <<env, exporters, dests, calls, posts, store>>

None == "none"
Call == 1..NumCall
Post == 1..NumPost

NewDest == [refs |-> 1, session |-> None, hashes |-> {}]
NoDest == [NewDest EXCEPT !.refs = 0]
NoCall == [st |-> "new", session |-> None, in |-> {}, out |-> {}, todo |-> {}, kept |-> TRUE]
NoPost == [st |-> "free", dest |-> None, session |-> None, call |-> 0, hashes |-> {},
           tries |-> 0, wire |-> FALSE, written |-> FALSE]

\* The callback's _destinations, and the one of a URL.
Present == {d \in Exporters : dests[d].refs > 0}
At(url) == {d \in Present : d[1] = url}

Pending == {p \in Post : posts[p].st = "sending"}   \* _PENDING_THREADS
FirstFree(p) == posts[p].st = "free" /\ \A q \in 1..p - 1 : posts[q].st # "free"
Idle == \A c \in Call : calls[c].st \in {"new", "done", "failed"}

Init ==
    /\ env \in Envs
    /\ exporters = [e \in Exporters |-> [st |-> "new", late |-> FALSE]]
    /\ dests = [d \in Exporters |-> NoDest]
    /\ calls = [c \in Call |-> NoCall]
    /\ posts = [p \in Post |-> NoPost]
    /\ store = [u \in Urls |-> [blocks |-> {}, calls |-> {}]]

-----------------------------------------------------------------------------
(* Exporters.                                                              *)

\* Slip: a second exporter is not counted.
AddedUncounted(e) == IF At(e[1]) = {} THEN [dests EXCEPT ![e] = NewDest] ELSE dests

\* add_destination, or the callback made for the first exporter.
Added(e) == IF At(e[1]) = {} THEN [dests EXCEPT ![e] = NewDest]
            ELSE [d \in Exporters |-> IF d \in At(e[1]) THEN [dests[d] EXCEPT !.refs = @ + 1]
                                      ELSE dests[d]]

\* remove_destination: the object leaves the list with its last reference.
Removed(e) == [d \in Exporters |-> IF d \in At(e[1]) THEN [dests[d] EXCEPT !.refs = @ - 1]
                                   ELSE dests[d]]

Install(e) ==
    /\ e \in env.exporters
    /\ exporters[e].st = "new"
    /\ "churn" \in env.faults \/ \A c \in Call : calls[c].st = "new"
    /\ exporters' = [exporters EXCEPT ![e].st = "live"]
    /\ dests' = Added(e)
    /\ UNCHANGED <<env, calls, posts, store>>

\* shutdown begins: flush_pending.
Flush(e) ==
    /\ exporters[e].st = "live"
    /\ "churn" \in env.faults \/ Idle
    /\ exporters' = [exporters EXCEPT ![e].st = "flushing"]
    /\ UNCHANGED <<env, dests, calls, posts, store>>

\* Slip: shutdown does not wait.
FlushedAtOnce(e) ==
    /\ exporters[e].st = "flushing"
    /\ exporters' = [exporters EXCEPT ![e].st = "flushed"]
    /\ UNCHANGED <<env, dests, calls, posts, store>>

\* It returns once it sees no thread left, those started meanwhile included.
Flushed(e) ==
    /\ exporters[e].st = "flushing"
    /\ Pending = {}
    /\ exporters' = [exporters EXCEPT ![e].st = "flushed"]
    /\ UNCHANGED <<env, dests, calls, posts, store>>

\* The 30 seconds are over.
FlushTimeout(e) ==
    /\ "lossy" \in env.faults
    /\ exporters[e].st = "flushing"
    /\ Pending # {}
    /\ exporters' = [exporters EXCEPT ![e].st = "flushed", ![e].late = TRUE]
    /\ UNCHANGED <<env, dests, calls, posts, store>>

\* The callback without a destination leaves litellm.callbacks, and with it
\* what it knows of the calls that are running.
Deregister(e) ==
    /\ exporters[e].st = "flushed"
    /\ exporters' = [exporters EXCEPT ![e].st = "gone"]
    /\ dests' = Removed(e)
    /\ calls' = IF \E d \in Exporters : dests'[d].refs > 0 THEN calls
                ELSE [c \in Call |-> [calls[c] EXCEPT
                         !.kept = @ /\ calls[c].st \notin {"prompt", "open"}]]
    /\ UNCHANGED <<env, posts, store>>

\* The process exits when its exporters are shut down: daemon threads are
\* killed, and what they sent may be lost.
Exit ==
    /\ \A e \in env.exporters : exporters[e].st = "gone"
    /\ Pending # {} \/ ~Idle
    /\ \E lost \in SUBSET Pending :
          posts' = [p \in Post |-> IF p \in Pending
                                   THEN [posts[p] EXCEPT !.st = "killed", !.wire = @ /\ p \notin lost]
                                   ELSE posts[p]]
    /\ calls' = [c \in Call |-> IF calls[c].st = "done" THEN calls[c]
                                ELSE [calls[c] EXCEPT !.st = "failed", !.todo = {}]]
    /\ UNCHANGED <<env, exporters, dests, store>>

-----------------------------------------------------------------------------
(* The callback.                                                           *)

\* log_pre_api_call with the blocks of the prompt.
PreCall(c, s, hs) ==
    /\ c <= env.calls
    /\ calls[c].st = "new"
    /\ \A d \in 1..c - 1 : calls[d].st # "new"
    /\ Present # {}
    /\ "churn" \in env.faults \/ \A e \in Exporters : exporters[e].st \in {"new", "live"}
    /\ s \in env.sessions
    /\ calls' = [calls EXCEPT ![c] = [st |-> "prompt", session |-> s, in |-> hs, out |-> {},
                                      todo |-> Present, kept |-> TRUE]]
    /\ UNCHANGED <<env, exporters, dests, posts, store>>

\* Slip: the set stays when the session changes.
KeepsHashes(r, s) == [r EXCEPT !.session = s]

\* A session that changes drops the set of hashes of the destination.
Current(r, s) == IF r.session = s THEN r ELSE [r EXCEPT !.session = s, !.hashes = {}]

Message(d, s, c, hs) ==
    [st |-> "sending", dest |-> d, session |-> s, call |-> c, hashes |-> hs,
     tries |-> 0, wire |-> TRUE, written |-> FALSE]

\* The loop over the destinations has served d; after the last one the LLM call
\* begins, or the callback is done with it.
After(st) == CASE st = "prompt" -> "open" [] st = "record" -> "done" [] OTHER -> st
Turn(r, d) == [r EXCEPT !.todo = @ \ {d}, !.st = IF r.todo = {d} THEN After(@) ELSE @]

\* One destination's turn in _send_new_blocks.
SendBlocks(c, d, p) ==
    /\ calls[c].st \in {"prompt", "answer"}
    /\ d \in calls[c].todo
    /\ FirstFree(p)
    /\ LET s == calls[c].session
           r == Current(dests[d], s)
           new == (IF calls[c].st = "prompt" THEN calls[c].in ELSE calls[c].out) \ r.hashes
       IN /\ dests' = [dests EXCEPT ![d] = r]
          /\ posts' = IF new = {} THEN posts ELSE [posts EXCEPT ![p] = Message(d, s, 0, new)]
    /\ calls' = [calls EXCEPT ![c] = Turn(@, d)]
    /\ UNCHANGED <<env, exporters, store>>

\* log_success_event: first the blocks of the answer.  A callback that does
\* not know the call records it without its prompt.
Success(c, hs) ==
    /\ calls[c].st = "open"
    /\ Present # {}
    /\ calls' = [calls EXCEPT ![c].st = "answer", ![c].out = hs, ![c].in = IF calls[c].kept THEN @ ELSE {},
                              ![c].todo = IF hs = {} THEN {} ELSE Present]
    /\ UNCHANGED <<env, exporters, dests, posts, store>>

\* log_failure_event forgets the call; no callback is left to hear of it.
Failure(c) ==
    /\ calls[c].st = "open"
    /\ calls' = [calls EXCEPT ![c].st = "failed"]
    /\ UNCHANGED <<env, exporters, dests, posts, store>>

\* Slip: the record goes to one destination.
AnswerToOne(c) ==
    /\ calls[c].st = "answer"
    /\ calls[c].todo = {}
    /\ calls' = [calls EXCEPT ![c].st = IF Present = {} THEN "done" ELSE "record",
                              ![c].todo = IF Present = {} THEN {} ELSE {CHOOSE d \in Present : TRUE}]
    /\ UNCHANGED <<env, exporters, dests, posts, store>>

\* Then the record, to the destinations there are now.
Answer(c) ==
    /\ calls[c].st = "answer"
    /\ calls[c].todo = {}
    /\ calls' = [calls EXCEPT ![c].st = IF Present = {} THEN "done" ELSE "record",
                              ![c].todo = Present]
    /\ UNCHANGED <<env, exporters, dests, posts, store>>

SendRecord(c, d, p) ==
    /\ calls[c].st = "record"
    /\ d \in calls[c].todo
    /\ FirstFree(p)
    /\ posts' = [posts EXCEPT ![p] = Message(d, calls[c].session, c, {})]
    /\ calls' = [calls EXCEPT ![c] = Turn(@, d)]
    /\ UNCHANGED <<env, exporters, dests, store>>

-----------------------------------------------------------------------------
(* POST threads and the server.                                            *)

\* The single-writer thread of the viewer: INSERT OR IGNORE of the blocks, or
\* INSERT OR REPLACE of the call.
Write(p) ==
    /\ posts[p].wire
    /\ LET m == posts[p]
       IN store' = IF m.call = 0
                   THEN [store EXCEPT ![m.dest[1]].blocks = @ \cup ({m.session} \X m.hashes)]
                   ELSE [store EXCEPT ![m.dest[1]].calls = @ \cup {m.call}]
    /\ posts' = [posts EXCEPT ![p].wire = FALSE, ![p].written = TRUE]
    /\ UNCHANGED <<env, exporters, dests, calls>>

\* Slip: whatever session the object has by now.
NotedAnySession(r, m) == IF m.call = 0 THEN [r EXCEPT !.hashes = @ \cup m.hashes] ELSE r

\* _on_success of a POST of blocks, if the object still has that session.
Noted(r, m) == IF m.call = 0 /\ r.session = m.session
               THEN [r EXCEPT !.hashes = @ \cup m.hashes] ELSE r

\* The answer of the server arrives: the thread is done.
Answered(p) ==
    /\ posts[p].st = "sending"
    /\ posts[p].written
    /\ posts' = [posts EXCEPT ![p].st = "ok"]
    /\ dests' = [dests EXCEPT ![posts[p].dest] = Noted(@, posts[p])]
    /\ UNCHANGED <<env, exporters, calls, store>>

\* An attempt fails or times out: the request may be lost or still under way,
\* the answer may be lost.  The thread tries again, or gives up.
Attempted(m, wire) ==
    IF m.tries + 1 < Retries
    THEN [m EXCEPT !.tries = @ + 1, !.wire = TRUE, !.written = FALSE]
    ELSE [m EXCEPT !.st = "gaveup", !.wire = wire]

AttemptFails(p, wire) ==
    /\ "lossy" \in env.faults
    /\ posts[p].st = "sending"
    /\ wire => posts[p].wire
    /\ posts' = [posts EXCEPT ![p] = Attempted(@, wire)]
    /\ UNCHANGED <<env, exporters, dests, calls, store>>

\* delete_session: the blocks and the calls of the session go.
Delete(u, s) ==
    /\ "delete" \in env.faults
    /\ s \in env.sessions
    /\ store' = [store EXCEPT ![u].blocks = {b \in @ : b[1] # s},
                              ![u].calls = {c \in @ : calls[c].session # s}]
    /\ store' # store
    /\ UNCHANGED <<env, exporters, dests, calls, posts>>

Callback(c) ==
    \/ Answer(c)
    \/ \E d \in Exporters, p \in Post : SendBlocks(c, d, p) \/ SendRecord(c, d, p)
Thread(p) == Write(p) \/ Answered(p)

Next ==
    \/ \E e \in Exporters : Install(e) \/ Flush(e) \/ Flushed(e) \/ FlushTimeout(e) \/ Deregister(e)
    \/ Exit
    \/ \E c \in Call :
          \/ \E s \in Sessions, hs \in SUBSET env.hashes \ {{}} : PreCall(c, s, hs)
          \/ Callback(c) \/ Failure(c)
          \/ \E hs \in {{}} \cup {{h} : h \in env.hashes} : Success(c, hs)
    \/ \E p \in Post : Thread(p) \/ \E wire \in BOOLEAN : AttemptFails(p, wire)
    \/ \E u \in Urls, s \in Sessions : Delete(u, s)

\* Threads run, requests are answered, and the callback's loops go on.
Fairness ==
    /\ \A c \in Call : WF_vars(Callback(c))
    /\ \A p \in Post : WF_vars(Thread(p))

Spec == Init /\ [][Next]_vars /\ Fairness

-----------------------------------------------------------------------------
(* Properties.                                                             *)

Steady == env.faults \cap {"churn", "delete"} = {}
Names(c) == {calls[c].session} \X (calls[c].in \cup calls[c].out)

ExporterRec == [st: {"new", "live", "flushing", "flushed", "gone"}, late: BOOLEAN]
DestRec == [refs: Nat, session: Sessions \cup {None}, hashes: SUBSET Hashes]
CallRec == [st: {"new", "prompt", "open", "answer", "record", "done", "failed"},
            session: Sessions \cup {None}, in: SUBSET Hashes, out: SUBSET Hashes,
            todo: SUBSET Exporters, kept: BOOLEAN]
PostRec == [st: {"free", "sending", "ok", "gaveup", "killed"},
            dest: Exporters \cup {None}, session: Sessions \cup {None}, call: 0..NumCall,
            hashes: SUBSET Hashes, tries: 0..Retries, wire: BOOLEAN, written: BOOLEAN]

\* The type invariant of the journal's state.
TypeOK ==
    /\ env \in Envs
    /\ exporters \in [Exporters -> ExporterRec]
    /\ dests \in [Exporters -> DestRec]
    /\ calls \in [Call -> CallRec]
    /\ posts \in [Post -> PostRec]
    /\ store \in [Urls -> [blocks: SUBSET (Sessions \X Hashes), calls: SUBSET Call]]

\* A hash a destination skips because "this session has seen it" is stored at
\* the viewer for that very session, whatever retries, lost answers and
\* sessions that alternate under the callback have done (_on_success).
SentStored ==
    "delete" \notin env.faults =>
        \A d \in Exporters : {dests[d].session} \X dests[d].hashes \subseteq store[d[1]].blocks

\* The exporters of a URL that are there.
Users(u) == {e \in Exporters : e[1] = u /\ exporters[e].st \notin {"new", "gone"}}

\* One object per URL is listed, and its references are the exporters of that
\* URL that have not shut down (add_destination, remove_destination).
RefsMatch ==
    \A u \in Urls :
        IF Users(u) = {} THEN At(u) = {}
        ELSE \E d \in Exporters : At(u) = {d} /\ dests[d].refs = Cardinality(Users(u))

\* A stored call record whose block is missing at the viewer has a POST of that
\* block to blame: one that is on its way, was given up or killed.
MissingHasReason ==
    Steady =>
        \A u \in Urls : \A c \in store[u].calls : \A b \in Names(c) \ store[u].blocks :
            \E p \in Post : /\ posts[p].st \in {"sending", "gaveup", "killed"}
                            /\ posts[p].dest[1] = u /\ posts[p].session = b[1]
                            /\ b[2] \in posts[p].hashes

\* After shutdown, a call that ended is at every viewer with all its blocks,
\* unless a POST was given up or a flush ran out of time (issue 168: spans
\* without message content after a short process).
ShutdownDelivers ==
    Steady /\ (\A e \in env.exporters : exporters[e].st = "gone" /\ ~exporters[e].late)
           /\ (\A p \in Post : posts[p].st # "gaveup") =>
        \A c \in Call, e \in env.exporters :
            calls[c].st = "done" => c \in store[e[1]].calls /\ Names(c) \subseteq store[e[1]].blocks

\* As long as nothing is lost and nobody leaves, a call that ends is recorded
\* at every viewer.
CallsRecorded ==
    \A c \in Call : (calls[c].st = "answer" /\ env.faults = {}) ~>
        \A e \in env.exporters : exporters[e].st # "new" => c \in store[e[1]].calls

\* export_session_otlp says that its consumers see complete messages: the
\* blocks a stored call names, once nothing is on its way any more.
CompleteExport ==
    Pending = {} => \A u \in Urls : \A c \in store[u].calls :
        calls[c].st = "done" => Names(c) \subseteq store[u].blocks
=============================================================================
