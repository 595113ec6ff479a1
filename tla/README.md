# nooa: a verification project for the agent runtime

nooa runs LLM agents. A method of an agent may be written by the model: the
call opens a generation session, a loop builds a prompt from the agent's event
log, the model answers with tool calls, cells of code are run in-process or in a
sandboxed worker, and the session ends with a validated value. Beside that loop
an agent waits on channels fed by the user and by background jobs, keeps a shell
open for its tools, summarises its log, stores it in SQLite and reports its
messages to a trace viewer. This directory holds TLA+ models of these stateful
parts, the TLC configurations that check them on small instances, and TLAPS
proofs for every value of the constants. Paths below are relative to `src/nooa/`
unless they begin with `packages/`; line numbers are those of the commit the
models were written from.

Contents: [inventory](#1-inventory), [modules and code](#2-modules-and-the-code-they-model),
[runs](#3-runs-bounds-and-what-they-show), [fairness](#4-fairness),
[proofs](#5-what-is-proved), [deviations](#6-deviations-met-while-modelling),
[limits](#7-what-is-left-out-of-the-modelled-parts), [plan](#8-plan).

## 1. Inventory

### The parts that keep state, and how they meet

```
   user / TUI thread ── put, pop_last ──┐
   background jobs ──── put ──────────► Channels ── race() ──► dispatcher
        ▲ spawn, cancel                                           │ calls a method
        └──────── QueueManager ◄──── agent code ────┐             ▼
                                                    │      method wrapper, ActorRuntime
   Summarizer ── collapse ──► EventManager ◄─ add ──┤      (context variables, lock)
        ▲ before/after turn      │ backend calls    │             │ session
        └────────────────────────┼──────────────────┴──── CodeAct turn loop ──► LLM
                       InMemory | SQLite backend            │            │  pre/post call
                                                   run_cell │            ▼
                              ShellTools ◄── cell ── SandboxExecutor   MessageJournal
                                  │                    │ pipe           │ POST threads
                                  ▼                    ▼                ▼
                             BashSession          worker process      viewer's store
```

| Component | State it keeps | Operations | Hard behaviour | What makes it correct |
|---|---|---|---|---|
| Event log (`runtime/event_manager.py`, `event_backend.py`) | active list, tag-to-event store, tag counter | add, collapse, remove, clear, update, queries | overlapping and nested collapses; `collapse` is some ten separate backend calls | the view stays in chronological order, hides no event without a Summary, and every tag of an event resolves |
| SQLite backend (`storage/sqlite.py`) | tables `active_tags`, `events`, counter in memory | the same calls, each its own transaction | crash or I/O error between two calls; positions against list indices; a counter rebuilt at start | it implements the in-memory log; no tag is handed out twice; no event is lost |
| Summarizers (`agents/summarization.py`) | pending task, range and text | after-turn, before-turn handler, background task | range and text are fixed turns before they are applied | a Summary's text speaks of everything it hides; pending state clears |
| Channels (`runtime/channels.py`) | deques, waiter futures, notify event, drain tasks | put, get, drain, race, flush, remove | producers on another thread, losers of a race, cancellation at every await | no item lost, duplicated, reordered or slept beside |
| Jobs (`runtime/channels.py`) | handles, task states | spawn, cancel, remove_channel, shutdown | a job cancelled before it runs, by two tasks, while it unwinds | states agree with tasks; cancel waits for cleanup and leaves nothing buffered |
| Method calls and sessions (`runtime/actor.py`, `method_wrapper.py`, `context_vars.py`) | five context variables per task, the generation lock of each agent and the loop it belongs to | wrapped call, generation session, nested strategy, template | nested and parallel calls, a lock that must not be taken twice, cancellation at every await, a new event loop | sessions from outside are serialised; nobody waits for itself; context is restored; calls return |
| CodeAct (`strategies/codeact.py`) | counters, the session's part of the log, its sandbox | turn, tool calls, cells, text and empty replies, errors, prefill | nested sessions on one log, a response of several calls of which one fails, three ways to answer | prompts are well formed, budgets hold, the answer is logged, the sandbox is closed |
| Sandbox executor (`runtime/sandbox/executor.py`, `worker.py`) | worker process, pipe, lock, reader threads, flags | run_cell, brokered calls, restart, aclose | deadlines, kills, cancelled callers, threads left by a cell, one pipe for all | a caller gets its own result; a wiped namespace is announced; nothing is started after the close |
| Bash session (`tools/_bash_session.py`, `shell_tools.py`) | bash process, control descriptor, lock, directory | start, run, timeout, recovery, reset, close | hangs, deaths and stale status lines; a retry of a command; a lock replaced while held | a status belongs to its command; a command is sent once; nothing runs on |
| Message journal (`tracing/_litellm_journal.py`, `_journal_exporter.py`, `viewer/otlp_store.py`) | destinations with the hashes they have seen, POST threads, the viewer's tables | pre-call, success, failure, add and remove of a destination, flush, ingest, delete | parallel sessions at one destination, lost and late requests, exporters that share a URL, exit | a block is skipped only where it is stored; shutdown delivers |

### Parts not modelled

They are listed with their reasons in `PROJECT.json` ("components"). In short:

* with some protocol of their own, and left for later: LLM retry
  (`unifiedllm/retry.py`), the OAuth callback (`mcp/oauth.py`), skill reload
  (`skill_registry.py`), storage manager and snapshots (`storage/`), the memory
  package, the viewer's explorer cache;
* without a protocol or shared state: the other strategies (one sequential
  conversation each), context manager and renderers, code validator and guards,
  serialization, configuration, agentdoc, ATIF export, trace explorer, span
  exporters, CLI, benchmarks, examples. These are most of the repository's
  lines: text, formats and I/O.

## 2. Modules and the code they model

`PROJECT.json` ("map") gives the source lines of every definition. Definitions
marked "slip" in a comment are wrong on purpose: each is a plausible mistake in
the definition that follows it, and the named property is checked to fail when
the mistake replaces the definition.

**EventManager.** A tag is a record `[lo, hi, range]`: `"5"` is
`[5,5,FALSE]`, `"2..40"` is `[2,40,TRUE]` and `"5..5"` is different from `"5"`
as it is in the code. `active` is `_active_tags`, `byTag` is `_tag_to_event`,
`next` is `_next_tag_num`. `Add`, `Collapse`, `Remove`, `Clear` are the public
operations. After `Collapse` the variable `op` drives one backend call per
step (`ArchiveNext` once per archived tag, `StoreSummary`, `UnlistSummary`,
`PlaceSummary`); all other operations wait for `op.phase = "idle"`, since
nothing yields between those calls under asyncio. They are separate steps so
that SqliteEvents, where each commits on its own, can implement the same log.
`removed` and `hidden` are history. `_all_originals` is `Expansion`, one call of
it, under the recursive function `Originals`, cut off at the depth a well-founded
tree can have.

**SqliteEvents.** `position` is the table `active_tags`, `events` the table of
that name. Each backend call is one step (`Mark`, `UnlistMarked`,
`StoreSummary`, `UnlistSummary`, `PlaceSummary`); `Crash`, which includes the
restart and the counter recomputed from `max_tag_num()`, and `CallFails` may
fall between any two calls of an operation of a behaviour with `faulty`.
`Log == INSTANCE EventManager` maps the rows, ordered by position, to the active
list; a tag that is marked archived but still listed (the code makes two calls
of what is one in memory) counts as active.

**Summarizer.** EXTENDS EventManager. `AfterTurn` is `_handle_after_turn` with
any contiguous range as the policy's choice, `Finish` the end of the background
task with or without a text, `BeforeTurn` is `_handle_before_turn` and
`_apply_pending_summary`. `Archive` is the runtime's `_collapse_oldest` after a
refused prompt. A text is the set of event numbers it was written from.

**Channels, ChannelSpec.** The n-th item put on a channel is the number n. A
stretch of code between two awaits is one action, except the stretch of
`_drain_one` between "the deque is empty" and the registration of the waiter
(`SeeEmpty`, `Register`), into which a producer thread can fall. `put` from
another thread is three steps (`ThreadAppend`, `ThreadWake`, `ThreadNotify`) and
callbacks posted with `call_soon_threadsafe` are run later (`RunWake`,
`RunSet`). `race()` is `RaceFast` or `RaceStart`, then the drain tasks, then
`RaceWake`, the reaping of the losers and `RaceWin`, `RaceEmpty` or
`RaceRaise`. `scene` says who is there: a producer thread, tasks that call
`get()`. ChannelSpec is what one consumer may rely on: per channel a FIFO
queue. Its `queue` is the deque with the item in a drain task's hand in front.

**Jobs.** `Spawn` creates a task that is ready but has not run; `GoOn`,
`Finish` and `Unwound` are what its coroutine may do at its next await. `Caller`s
are tasks inside `JobHandle.cancel`, `QueueManager.cancel` or `shutdown`: they
cancel the handles of a list one after the other and await each.

**ActorRuntime.** A task has the context variables of the code (`session`,
`stack`, `gens`, `agent`), copied from its creator, and the sequence `frames` of
its open Python frames: the wrapper of a method, a session
(`_execute_with_generation`), a nested strategy. Each frame remembers what its
finally clause restores. `Announce` is the wrapper up to the dispatch;
`CallCode` runs a method's own body, `CallInline` opens a session inside a session
without the lock, `CallPlan` creates the task of `_execute_task` outside, which
takes the lock (`StartFree` and `StartLocked`, then `Granted`) and replaces it
when the running loop is another one (`CurrentLock`). The body of the innermost frame is
arbitrary: it calls, creates tasks, nests a strategy, returns or raises. `env`
says which methods there are and which of cancellation, stragglers (tasks that
outlive their creator's frame) and a restarted loop may happen.

**CodeAct.** Sessions are coroutines that share one log. `Turn` builds the
prompt; `ToolCalls`, `TextAccepted` to `TextCommented`, `EmptyReply`, `ApiError`
and `BlockError` are what `generate()` brings, with the counters each path
raises; `BadArguments`, `UnknownTool`, `EmptyCode`, `Execute`, `ResultAccepted`,
`ResultRejected` and `ResultRaises` are `_process_tool_calls` for the next call
of the response; `CellWorks`, `CellFails`, `CellReturns`, `CellReturnsBadly` and
`CellRaises` the ends of a cell. `Begin` opens a session from outside or from
within a cell of another one, `Close` and `CancelClose` are `_close_sandbox`.
`conf` holds the configuration values the control flow tells apart.

**SandboxExecutor.** Two processes and the threads between them: `run` is the
coroutine `run_cell` of each cell, `reader` its thread in `_recv_until_result`,
`main` the worker's op loop, `stray` a thread a cell left behind. `up` and
`down` are the two directions of the pipe, of the worker the connection of the
moment reaches; `gen` numbers the workers. `repl` names the generation that
holds the names the caller believes to exist.

**BashSession.** A call of `ShellTools.run` is a coroutine with a stack of
frames, one for each read of the control descriptor it is in the middle of (the
command, below it the init command or the sentinel of a starting shell). `Goes`
lists its steps: the lock, the two liveness tests with the retry of a broken
write (`SendFindsDead`, `Write`, `WriteBroken`, `WriteLost`, `SendGivesUp`), the
reset (`Reset`, `CloseEnds`, `Spawn`, `Wire`), reading (`ReadLine`, `ReadEnds`,
`Collide`), the deadline with its recovery (`Timeout`, `DrainLine`, `GiveUp`) and
the returns. `Finish` and `Die` are bash: it reports the script at the head of
`stdin` on `fd3`, or dies having written part of the report. `disturbed` is a
history flag: a start or a reset met another call, or a working call was
cancelled.

**Journal.** `PreCall`, `Success` and `Failure` are the callback of one LLM call;
its loops over the destinations are one step per destination (`SendBlocks`,
`SendRecord`), as the lock is taken for each. A POST is a thread: `Write` is the
viewer's ingest, `Answered` its success callback, `AttemptFails` a failed or
timed-out attempt whose request may still be written later. `Install`, `Flush`,
`Flushed`, `FlushTimeout` and `Deregister` are the life of a JournalExporter,
`Exit` the end of the process with its daemon threads, `Delete` the viewer's
`delete_session`.

MC modules (`MCEventManager`, `MCChannels`, `MCSqlite`, `MCSandbox`, `MCBash`,
`MCCodeAct`, `MCActor`, `MCJournal`) add bounds and the environments or
configurations to explore; Jobs and Summarizer are checked as they are.
Composition: Summarizer runs on EventManager; SqliteEvents implements it;
Channels implements ChannelSpec. CodeAct keeps its own view of the log (append
and update only, which is what it does to it), and ActorRuntime leaves the
strategy's body arbitrary, so that CodeAct is one instance of it.

## 3. Runs, bounds and what they show

Twelve runs are listed; `tlc -workers 2 -config <cfg> <module>` repeats one. A
listed property may be a conjunction of named parts; a type invariant that is
proved is not repeated in a run.

| Run (cfg) | Properties | Bounds and why they are enough |
|---|---|---|
| events (MCEventManager) | ActiveSorted, ViewComplete, SummaryExpands | 4 events give disjoint, overlapping, touching and nested ranges and Summaries of Summaries; 2 removals cut a tree twice |
| channels (MCChannels) | ItemsConserved, GetNotStranded, RaceNotStranded, ImplementsQueues | 2 channels raced (a winner and a loser). Scene "getters": a `get()` beside them, one item each. Scene "thread": a producer thread, 2 items on the channel that loses, so that restoring can reorder. Cancellation, flush, removal anywhere |
| channels_live (MCChannelsLive) | Delivered | one item per channel, from the loop or the thread |
| jobs (MCJobs) | HandlesTell, CancelFlushes, CancelsReturn | 2 jobs on one channel, so that one can hide the other; 2 callers, so that both cancel one job |
| sqlite (MCSqlite) | TablesWhole, CounterAhead, ImplementsLog | with faults: 3 events, one removal between clears, crashes and failed calls without limit; without: 5 events and any removals, collapses that start at the oldest active event |
| summarizer (MCSummarizer) | SummaryTellsAll, PendingFits, PendingClears | 3 events: a range, one more event after it, and one removal in between |
| sandbox (MCSandbox) | OwnCell, ClosedForGood, NamespaceKept, CallsReturn | 3 cells (one dies or times out, one pays for it, one comes later), 2 brokered calls, a thread left behind; with callers cancelled at any await and workers killed at any time: 2 cells, recovery disabled |
| bash (MCBash) | OwnStatus, AtMostOnce, NothingLeftRunning, OrderlyTurns, CallsReturn | 3 callers and 2 shells: one command hangs or dies, one pays for it, one waits; after callers have met a start only two are followed, up to the first reset |
| codeact (MCCodeAct) | LogInOrder, Bounded, SessionEnds, PromptMoves | 2 sessions, nested or in sequence, responses of up to 2 calls, 2 or 3 iterations, 2 retries; four configurations (plain, `-> None`, synthetic comments, sandbox with prefill, exceptions and cancellation); two sessions together up to 8 events, one alone to its end |
| actor (MCActor) | OneRootSession, NoWaitCycle, ContextKept, StackIsOpen, CallsReturn | 2 agents, 2 program tasks, up to 4 tasks and 3 calls, nesting depth 2, a strategy nested once per frame, one change of loop; five environments |
| journal (MCJournal) | SentStored, RefsMatch, MissingHasReason, ShutdownDelivers, CallsRecorded | 2 calls, 6 POSTs of 2 attempts, 2 viewers, 2 exporters, 2 sessions, 2 blocks; six scenes, each with the members its question needs |
| events_self_collapse (MCEventManagerSelf) | SummaryAlwaysExpands, violated | 3 events; see section 6 |

`MCActorCalls.cfg` (three calls in wider environments, with the type invariant)
and `MCSandboxCancel.cfg` (three cells with cancellation) are larger instances
that pass as well and take longer.

What they say:

* **Event log.** The active tags stay disjoint and in order (`ActiveSorted`).
  Every number handed out is in the view, in a Summary of it, or was removed
  (`ViewComplete`); during a collapse the part that is on its way is counted.
  Expanding a Summary gives exactly the events its tag spans, each once
  (`SummaryExpands`, stated for logs without the self-collapse of section 6).
* **SQLite.** Whatever is interrupted, rows have different positions, so the
  order is defined; each listed tag can be read; an event added stays in the
  store unless removed (`TablesWhole`); the rebuilt counter is past every stored
  number (`CounterAhead`). Without faults the tables implement EventManager, step
  by step, under `FrontOnly`: collapses start at the oldest active event and do
  not meet one Summary alone. That is what the token-budget summarizer and the
  archiving do when they name more than one tag; the two exclusions are
  deviations of section 6.
* **Summarizer.** A Summary's text was written from every event it hides, as
  long as prompts are refused only while nothing is pending
  (`RefusedPending = FALSE`); a summary that is done and waits is not replaced;
  the pending state clears whatever becomes of the task.
* **Channels.** Items in deques, in hands, consumed and dropped add up to the
  items put (`ItemsConserved`); nobody sleeps beside a buffered item (with
  producers on the loop for `get()`, from any thread for `race()`); seen by its
  dispatcher each channel is a FIFO queue; each item is delivered in the end.
* **Jobs.** A finished task has a settled state, a registered handle's status is
  the truth, and a `cancel()` that returned awaited the job's cleanup
  (`HandlesTell`) and left its channel empty; all calls return.
* **Method calls.** At most one task holds an agent's generation lock, through
  cancelled waiters and a replaced lock; a task that waits for a lock waits for
  a live one, and whoever awaits that task holds none; the context variables
  always tell where a task stands (`ContextKept`); ids on the call stack name
  open calls as long as no task outlives its creator's frame; every call returns.
* **CodeAct.** No prompt, of whichever session, shows a tool call without its
  result, each cell has one output, nothing runs after the first error of a
  response (`LogInOrder`); no sequence of responses keeps a session going
  (`Bounded`); a value returned is the last thing the session recorded, recorded
  once, and the sandbox is closed (`SessionEnds`); no prompt is sent twice.
* **Sandbox.** A brokered call is served only for the cell that made it and
  nobody gets another cell's result (`OwnCell`); names disappear only in a step
  that reports an error to the caller; `run_cell` returns although cells loop,
  brokered methods hang and workers die; after `aclose` no worker lives.
* **Bash.** While no start or reset met another call, an exit code and the
  remembered directory are those of the caller's own command, whatever hung,
  died and was reset before it, and a command whose call has returned is not
  running in a living shell. In every case a command is written to a shell at
  most once and every call returns.
* **Journal.** A hash that is skipped is stored for that very session; a missing
  block has a POST to blame that is under way, given up or killed; references
  count the exporters of a URL; after a shutdown without lost requests
  everything a finished call names is at every viewer.

Deadlock is checked where the system can always move. `CHECK_DEADLOCK FALSE` is
set where the bounded work comes to its end: all cells run, all calls made, the
bounded log full.

## 4. Fairness

Only what the code's scheduling gives. asyncio runs every ready task and
callback in turn, so each task of Channels, Jobs and ActorRuntime, each posted
callback, each call inside `ShellTools.run` (`Goes`) and each loop of the journal
callback has weak fairness; a producer thread inside `put` finishes it; POST
threads go on and a request that is not lost is answered; the dispatcher calls
`race()` again. Producers, users, cancellations, removals, crashes, kills,
losses and exporters are never fair. What code of others owes differs:

* a cancelled job is assumed to end its cleanup within one more round (a job
  that ignores cancellation for ever blocks `shutdown` by construction), and the
  body of an agent method is assumed to end;
* in the executor the loop and the reader threads go on and a deadline passes in
  the end; this is what a user who sets `cell_timeout` gets (its default is None:
  then a cell may run for ever and `CallsReturn` says nothing), with
  `broker_timeout_s` at its default of 300 s or any other positive value; the
  cell, the brokered method and the worker owe nothing;
* in the bash session the deadline of a command passes in the end (ShellTools
  always sets one); the shell and its commands owe nothing;
* CodeAct states no liveness: its loop is bounded by `Bounded`, a safety
  property, and whether the LLM answers is not the loop's to promise.

The summarizer has strong fairness on its handler and its task: in the code a
collapse is one uninterrupted block, here its steps are separate and disable the
handler in between, so weak fairness would let collapses starve it, which the
code does not.

## 5. What is proved

Eight modules prove, for every value of the constants, what the runs check on
small instances. Each proof has one inductive invariant; every action has a
lemma that it preserves it, `Next` is split over its disjuncts, and the theorems
follow with `PTL`. The only assumptions are the named ones of the modules
(`MaxTagAssumption`, `ConstantsAssumption`, `JournalAssumption` and so on: types
of the constants), which TLC evaluates in every run.

| Module | Theorems | The inductive invariant, and why the property needs it |
|---|---|---|
| EventManagerProofs | Invariance, TypeCorrect, ViewIsSorted (ActiveSorted), ViewIsComplete (ViewComplete), LeavesStay, StatusIsView | `IInv`: in the middle of a collapse the view has a hole, so completeness needs what `op` still holds (`Selected`, `Complete`); that the Summary fits at the remembered index needs that the list before it ends below the hull and the rest begins above it (`Placed`); that storing it overwrites no leaf needs the shape of tags (`WellFormed`) |
| EventManagerProofs (expansion) | SummariesExpand (SummaryExpands), SelfCollapseIsAlone, CollapseEnds | `Chosen`: the tags of a collapse under way lie apart; `Trees`: as long as nothing was removed, a stored Summary's children are stored, lie apart and span exactly its range (nothing between them is missing, by `Complete`, and no tag of the view lies among them, by `Selected`). Overwriting a Summary keeps this, so the tree needs no history. A child other than the Summary itself is narrower, so level d of `Originals` expands every range of at most d numbers (`LevelExpands`); that the recursion defines a function at all (`LevelsExist`) and that every level is right are shown by the least level that would fail. `SelfOnlyAlone`: the exception in SummaryExpands arises only when a collapse meets one Summary and nothing else, since two tags that lie apart have a longer hull than either. `CollapseEnds` is what can be proved of "collapse() returns": a begun collapse always finds its next tag, the hull and exactly one insertion index (`StepIsThere`), and each of its backend calls makes `Left` smaller; that the block of code runs on is the only thing left to assume |
| EventManagerProofs (Summarizer) | LogIsEventLog (`SSpec => Spec`), PendingIsFit (PendingFits), TextsTellAll (SummaryTellsAll, with one summarizer and `~RefusedPending`) | `Pending`: a running task is its summarizer's pending one, and range, source and text of what is pending belong together; `Texts`: only stored Summaries have a text. `Foreseen`: while something is pending no collapse is under way and every listed tag that meets the pending range was rendered for it (new events lie behind it); `Covered` carries this through the backend calls of the collapse |
| SqliteProofs | TypesHold, PositionsAreUnique, ListedAreStored, EventsAreKept, TablesAreWhole (TablesWhole), CounterIsAhead (CounterAhead), TablesAreLog (ImplementsLog, given `FrontOnly`), OrderIsKept, TablesKeepPromises | `Inv`: the types of the tables and of a collapse that may have been cut off, marks only while one archives, and its Summary stored before it is listed; a lemma on the greatest of a finite set of numbers stands for `MAX` and `max_tag_num()`. For the refinement, while nothing fails, `Plain`: the list that `ORDER BY position` yields is the only one that ranks the rows (`Ranks`), so each change of the table is shown as a change of that list; positions follow the numbers (`InTime`); what a collapse takes, and then its Summary, lies before all that stays (`Archiving`, `Placing`), so its place is 0, where index and position agree; a stored Summary is seen, under a longer one that is seen, or meets nothing that is seen (`Filed`), so no collapse yields a tag that is in the table. `set_status` is a stutter, `remove_active_tag` completes the step. `Kept` instantiates EventManagerProofs with the mapped tables, so the inductive invariant of the log, `Trees` included, carries over along the refinement instead of being proved again (`Intact`); with `FrontOnly` no collapse takes one Summary alone, so here SummaryExpands holds without its exception |
| ChannelsProofs | TypesHold, HandsAreEmpty, RaceIsWoken (RaceNotStranded), NothingIsLost (ItemsConserved), ChannelsAreQueues (ImplementsQueues), GetsAreWoken (GetNotStranded) | `LInv`: a drain task holds an item exactly when it is done (`Hands`), who is still to be reaped (`Drains`, `Reaping`), and for a sleeping dispatcher what will wake it: the event, the sentinel or a posted callback (`Noticed`). `CInv` adds that deque, hand, consumed and dropped items partition what was put, without repetition (`Whole`). The refinement maps each step to a step of ChannelSpec or a stutter. `Awake`, for puts on the loop: the waiters list holds each sleeping task once and nobody who was woken (`Lined`), and on a channel where a task sleeps at least as many tasks are woken and not yet run as there are items (`Enough`), which a cancelled waiter keeps true by waking another in its place |
| RuntimeProofs (ActorRuntime) | Types, SessionsAreSerialised (OneRootSession), NoDeadlock (NoWaitCycle), ContextTells (ContextKept), StackTells (StackIsOpen); Safety | `IInv`, in the order the parts rest on each other: tasks are created in order (`Born`); plans and frames name announced calls, a call has one planned task and one wrapper (`Known`); which frame may stand on which (`Shaped`); a lock of the loop that runs is queued for by exactly the live tasks that are about to hold it, the holder first (`Queued`), so two holders are both the head; the wrapper that planned a task awaits it at its innermost frame (`Awaiting`); while nobody outlives its creator's frame that frame is open (`Kept`); whoever awaits a task created outside every session is outside too (`SessionFree`), hence holds no lock; `Paths`: a task has gone through a sequence of contexts, one per frame, each frame adds to the one below it and remembers exactly what restoring it takes, which is why a `finally` clause brings back the context of the frame below; a call is open while its wrapper frame is (`OpenCalls`); the ids a task inherits belong to frames around its creation (`Handed`). `Deep`, the depth limit, holds beside it. The tasks that await another one, directly or not, form a chain of owners defined by recursion over the task numbers; that the chain above a waiting task never leaves the session-free tasks is shown by the least number where it would |
| RuntimeProofs (Jobs) | JobTypesHold, StatesSettle, StatusIsHonest, CleanupIsAwaited, HandlesAreTrue (HandlesTell), CancelLeavesNothing (CancelFlushes) | `JobsInv`: a task that ended, or was cancelled before it first ran, without settling its state has a caller who is going to settle it (`SomeoneSettles`); callers inside a call have something left (`Waiting`) |
| SandboxProofs | TypesHold, ResultIsOwn, CellsAreApart (OwnCell), NamesPersist (NamespaceKept), ClosedStaysClosed (ClosedForGood) | `Inv`: every message on the two pipes belongs to the protocol and to a begun call; who reads or restarts holds the lock, the closer is last in its queue and sets the flag first (`Queue`), so nobody behind it can start a worker (`Gone`); a thread that has a result has its own (`OwnAnswer`). While no caller is cancelled (`Own`): a thread waits only for a call that reads; whatever the worker and its pipe hold of a cell belongs to a call that reads and has no answer yet (`Waited`), because request, brokered calls and response follow each other (`InOrder`) and every failure empties the pipe. `Names`: names are the newest worker's; if that one is gone or going, a cell that will fail or aclose holds the lock (`Relied`), and an answer implies that the worker which gave it lives (`AnswersLive`) |
| BashProofs | Invariance, TypesHold, CommandsAreSentOnce (AtMostOnce), CallsTakeTurns (OrderlyTurns), NoShellIsLeft (OneShell), StatusIsOwn (OwnStatus), NothingIsLeft (NothingLeftRunning) | `Inv`: the shape of a call's stack at each await (`Recs`); a command that was given is past its last write (`Sends`); two calls inside have different Lock objects (`Apart`), and the queue is duplicate-free (`Row`); a meeting was noticed (`Seen`); undisturbed, the session knows the only living shell, and there is none while it is replaced (`Sole`). On top of it `Pipe`: undisturbed at most one call works on the session (`OneWorks`); while it reads, stdin holds at most its own script and the control pipe a contiguous part of what that script reports, continuing where the lines it has noted end (`Flow`); while nobody reads, drains or replaces the shell both pipes are empty (`Clean`), because a read ends only with the sentinel, with the death of the shell, or in a reset |
| CodeActProofs | TypesHold, BudgetsHold, TurnsArePaid, BackstopHolds, SessionsAreBounded (Bounded), AnswersAreLogged, BoxesAreClosed, SessionsEndWell (SessionEnds), LogIsOrdered (LogInOrder), PromptsMove (PromptMoves) | `Inv`: inside a turn one error, and before the response one iteration, is left (`InTurn`), because the budget was tested when the turn began; the pending call of a session is in the log and open; an accepted answer is the last event of its session (`LogSound`) although others append to the same log; for `LogInOrder` also `Tidy`: the own events of a session are `Calm`, `Free` for a call, or `Busy` with one (`Neat`), by its stage, and a step of another session leaves them alike (`Keeps`, `Alike`); for `PromptMoves` also `Moving`: a session that is about to ask has more shown events than at its last prompt, because every way to end a turn shows something and no step takes it back |
| JournalProofs | TypesHold, RefsAreUsers (RefsMatch), SentIsStored (SentStored), MissingIsExplained (MissingHasReason), NothingIsLostAtExit (ShutdownDelivers) | `Typed`: a dispatched POST has a destination and a session, a call under way has a session. `Stored`: what was written for a POST is in the viewer's table for the session the POST carries (`WrittenStored`), and that table only grows unless sessions are deleted. `Reasons` (while no session is deleted and no exporter leaves during a call): at each await of a call its blocks are stored, or in a POST that nobody has answered, for every destination that had its turn (`SentFor`), and so are the blocks a stored or posted record names. `Delivery`: a record went where the blocks did, POSTs are killed only when every exporter is gone (`KilledLast`), and an exporter whose flush ended in time left none behind (`Quiet`) |

`NoWaitCycle`, `ContextFollows` and `SummaryExpands` are defined by recursive
functions (over the task numbers, over the frames of a task, over the levels of a
Summary's tree). The library's induction theorems cannot be instantiated, so the
proofs never use them: the invariant states the same step by step, and that both
agree follows from the least index at which they would not. That the recursion
has a solution, which `CHOOSE` needs, is shown in the same way.

Some theorems are about definitions no run lists, because the theorem makes the
run superfluous: the type invariants, `NothingLeftInHand` (ChannelsProofs),
`LeafAccessible` and `StatusMatchesView` (EventManagerProofs), `OneShell`
(BashProofs), `OwnResult` (SandboxProofs, one half of `OwnCell`), and the parts
of `HandlesTell`, `TablesWhole`, `Bounded` and `SessionEnds`.

Only model-checked: all
liveness, since neither fairness nor ENABLED is within the prover's reach. Every
invariant, action property and refinement of the passing runs is proved.

## 6. Deviations met while modelling

One is kept as a run that must end in a counterexample:

* **events_self_collapse** (`runtime/event_manager.py:553`). A collapse whose
  range meets one Summary only computes that Summary's own tag for the new one,
  which then lists itself as its child; expanding it does not end. This is why
  `SummaryExpands` carries a condition.

The others end in a counterexample when the property named here is checked:
either with a configuration of its own, or with the listed configuration of the
module after its `INVARIANTS` and `PROPERTIES` lines have been replaced by the
property (marked "in"; a property that begins with `[][` as `PROPERTY`).

| Property | Configuration (module) | What the code does |
|---|---|---|
| GetWakes | `MCChannelsLostWakeup.cfg` (MCChannels) | `runtime/channels.py:331`: _drain_one looks at the deque (line 327) and only then appends its waiter (line 331); put() on another thread (supported: _wake_next_waiter and _signal_notify marshal to the loop) can append its item and look for waiters in between. The waiter is then registered beside a buffered item that nobody will announce again: get() sleeps until the next put, where its doc says "Block until an item arrives, then return it." (runtime/channels.py:344). race() is saved by its notify event, get() is not. |
| RemovedReleases | `MCChannelsRemoved.cfg` (MCChannels) | `runtime/channels.py:453`: flush() cancels only the futures still in _waiters. A consumer that put() has just woken is no longer there; when it runs it finds the deque emptied, appends a new waiter to the channel (also one that remove_channel has dropped) and waits for ever, where flush's doc says "Pending ``get()`` waiters are cancelled so they raise ``asyncio.CancelledError`` rather than hanging forever on a channel that has been flushed." (runtime/channels.py:446-448). |
| EventNoticed | `MCChannelsEvent.cfg` (MCChannels) | `runtime/channels.py:867`: race() clears the notify event when it starts; an event-mode put made after the last prompt of the turn and before race() is called only set that event, so race() sleeps with an event no prompt has shown, where its doc says "Wakeup contract: both queue-mode and event-mode puts wake ``race()``." (runtime/channels.py:836-837). Queue-mode puts in the same window are found by the fast path. |
| CancelHonoured | `MCChannelsCancel.cfg` (MCChannels) | `runtime/channels.py:911`: While race() awaits the drain tasks it has cancelled, `except BaseException: pass` also catches the CancelledError of race()'s own task; race() then returns normally and the cancellation is lost, where its doc says "Propagates outer cancellation (``CancelledError``) after cancelling and awaiting all in-flight drain tasks." (runtime/channels.py:846-847). |
| StreamEndAlways | in `MCJobs.cfg` (Jobs) | `runtime/channels.py:1031`: StreamEnd is emitted in the finally block of _run. A task cancelled before its first step (spawn followed at once by cancel, remove_channel or shutdown) never enters _run: no StreamEnd, the generator is not closed, the coroutine never awaited; spawn's doc says "emit ``StreamEnd`` on close." (runtime/channels.py:979) for a job that ends by "exhaustion or cancellation". |
| ShutdownAwaitsAll | in `MCJobs.cfg` (Jobs) | `runtime/channels.py:771`: remove_channel requests the cancellation of the channel's jobs and forgets their handles at once, so a shutdown() that follows neither cancels nor awaits them: it returns while they still run their cleanup (or ignore the request), where its doc says "Cancel and await all outstanding spawned jobs." (runtime/channels.py:1049). |
| CancelStops | in `MCJobs.cfg` (Jobs) | `runtime/channels.py:1074`: cancel(channel) cancels job(channel), the most recently spawned handle, and ended handles stay in the list: with two jobs on a channel of which the second is over, cancel() returns True having cancelled nothing, where its doc says "Cancel the job on the named channel and flush pending items." (runtime/channels.py:1073) and status() offers .cancel(name) for every running job. |
| OrderKept | `MCSqliteOrder.cfg` (MCSqlite) | `storage/sqlite.py:499`: insert_active_tag uses the list index as the value of the position column, but positions have gaps after earlier removals and collapses (they are never renumbered), so the Summary is sorted before tags it should follow: with tags 1..4, collapse 1..2 and then 4 lists 1..2, 4..4, 3. The protocol says "Insert a tag into the active list at a specific position." with "index: Position in the active list." (runtime/event_backend.py:139-145), which the in-memory backend does. MethodSummarizer and the LLM's own events.collapse() both collapse ranges that do not start at the oldest event. |
| FailureHidesNothing | `MCSqliteSelf.cfg` (MCSqlite) | `storage/sqlite.py:341`: collapse() on a range that meets a single Summary builds the tag that Summary already has; store() then raises IntegrityError after the Summary was archived and unlisted, so its whole range leaves the LLM's view. _collapse_oldest catches the exception and returns 0, where its doc says "Returns the number of events actually archived." (runtime/actor.py:242). |
| SummaryTellsAll | `MCSummarizerArchive.cfg` (Summarizer) | `agents/summarization.py:356`: a pending range is applied as it was scheduled, although the log may have been collapsed in between (by _archive_on_context_error after a refused prompt, by a second summarizer or by the model's own events.collapse). collapse() takes every tag that overlaps the range, so it swallows a wider Summary and replaces it by a text written from a part of its events: of the rest no text speaks. The class doc says "LLM-generated summary of collapsed events" (events.py:478). |
| NeverWithoutAWord | `MCSandboxSilent.cfg` (MCSandbox) | `runtime/sandbox/executor.py:211`: _ensure_worker replaces a worker that died between two cells (killed while idle, or by a thread or timer of the last cell) and run_cell goes on with an empty namespace and reports plain success; the comment of _synth_error says "A kill/restart wipes the persistent namespace; tell the model so it" rebuilds state (runtime/sandbox/executor.py:427). |
| NoResurrection | in `MCSandbox.cfg` (MCSandbox) | `runtime/sandbox/executor.py:211`: with recovery='disabled' a worker that dies between two cells is started again by _ensure_worker, since only _restart_worker looks at recovery; there the code says "Do not resurrect the worker; subsequent cells fail deterministically." (runtime/sandbox/executor.py:201). |
| MemoryIsReported | `MCSandboxMemory.cfg` (MCSandbox) | `runtime/sandbox/executor.py:245`: when the send fails, _restart_worker runs before _classify_worker_death, which then reads the exit code of the new worker (or of no worker): a memory kill is reported as a plain worker death, without the note that names are gone. The comment there says "OOM kill); treat it like any other worker death, not an escape." (runtime/sandbox/executor.py:243), and the other path classifies first. |
| ReturnsBesideCancelled | `MCSandboxReaders.cfg` (MCSandbox) | `runtime/sandbox/executor.py:251`: cancelling run_cell releases the lock but not the thread in _recv_until_result. If another cell is run on the executor, two threads poll one pipe; one takes the message, the other blocks in recv without looking at the deadline, for as long as the worker is silent. The doc says "``deadline`` seconds after now, a still-silent worker is declared timed" out (runtime/sandbox/executor.py:267). CodeAct closes the executor after a cancellation, so this takes another user of the executor or a middleware that cancels one execution and goes on. |
| AnswersOwnCall | in `MCSandbox.cfg` (MCSandbox) | `runtime/sandbox/executor.py:325`: _service_tool_call sends its answer to the connection of the moment. The thread of a cancelled cell may have begun a brokered call of one worker and answer it into the pipe of the next, which numbers its calls from 1 again: the new worker's call with the same number accepts it, where _rpc means to stop with "sandbox broker got an unexpected response" (runtime/sandbox/worker.py:83). |
| RequestsReachTheLoop | in `MCSandbox.cfg` (MCSandbox) | `runtime/sandbox/worker.py:428`: the op loop of worker_main reads the pipe without the send lock, so a thread that outlives its cell and waits for a brokered answer competes with it: it may read the next run request (which is lost until the deadline kills the worker), or the loop its answer. The comment says "calls from threads inside a cell serialize on the single pipe (the id" counter and the send/recv pair must not interleave) (runtime/sandbox/worker.py:62). |
| OneAtATime | `MCBashOverlap.cfg` (MCBash) | `tools/_bash_session.py:670`: close() assigns a new asyncio.Lock while the call that resets the session is inside the old one, and ShellTools._get_session (tools/shell_tools.py:334) calls start(), which itself runs commands, without the lock. Calls made meanwhile are inside at the same time: one raises because another coroutine reads the control descriptor, or takes the other's exit code. The doc says "Commands are serialized via an internal asyncio.Lock" and "calls from the same event loop will queue and execute one at a time" (tools/_bash_session.py:42-45). |
| InitFirst | in `MCBash.cfg` (MCBash) | `tools/_bash_session.py:208`: when the init command hangs, its recovery resets the session while _running_init is still set, so the new shell is used without an init command; the doc says it is "run once every time the session (re)starts" before any user command (tools/_bash_session.py:53-55). |
| TurnsSymmetric | in `MCCodeAct.cfg` (MCCodeAct) | `strategies/codeact.py:1109`: when the loop is exhausted _run_generation emits a second AfterTurn for the last turn, after the one of session.turn's finally; AfterTurn's doc says "Symmetric with BeforeTurn. Emitted after every generation turn completes." (events.py:265). Its subscribers (the summarizers, the ATIF exporter) see the turn end twice. |
| AbortedStayUnrecovered | `MCCodeActRecovered.cfg` (MCCodeAct) | `strategies/codeact.py:640`: _mark_text_only_recovered walks the whole log, not the events of its session: the unrecovered replies of a session that aborted are marked recovered by the first tool call of a later one that had a text reply itself. The doc says the flag lets replay "distinguish benign, self-corrected replies from ones that needed an abort." (strategies/codeact.py:632-633). |
| NeverLeftNone | in `MCCodeAct.cfg` (MCCodeAct) | `strategies/codeact.py:1263`: _process_tool_calls writes an error result only for GenerationError; any other exception of _handle_return_result (a postcondition that fails in its own code) leaves the ToolCallEvent with result=None, where the comment says "so the event is never left" with result=None in the DB, which corrupts the next session's context render (strategies/codeact.py:1264-1267). |
| OutIsOwn | in `MCCodeAct.cfg` (MCCodeAct) | `runtime/out_accessor.py:93`: Out[n] returns the first PythonOutput of the log with execution_count n. Every session counts from 1 on the same log, and all calls of one response share a count, so Out[1] of a second session is the first session's object, where the doc says "Out[n] returns the actual Python object from execution n" (runtime/out_accessor.py:6). |
| ClosedOnEveryExit | in `MCCodeAct.cfg` (MCCodeAct) | `strategies/codeact.py:698`: _close_sandbox clears session.sandbox_executor and then awaits aclose(); a cancellation there leaves the worker to nobody, where execute says "Guarantee the sandbox worker is torn down on EVERY exit" (strategies/codeact.py:720). |
| SuccessMeansReturned | in `MCActor.cfg` (MCActor) | `runtime/method_wrapper.py:276`: the wrapper notes only an Exception: when a call is cancelled (CancelledError is a BaseException) exception_caught stays None and AfterAgentCall says success=True, where its field says "True if the method returned normally" (events.py:341). |
| OneSessionAtATime | in `MCActor.cfg` (MCActor) | `runtime/actor.py:2484`: inside a session _execute_task takes no lock, whichever agent is called: a session of agent a opened from a session of b runs beside the one that holds a's lock, and so does one opened by a task that outlived its session; the class says "One generation session at a time per agent (serialized)" (runtime/actor.py:579). |
| CompleteExport | in `MCJournal.cfg` (MCJournal) | `tracing/_litellm_journal.py:609`: a call is recorded at every destination there is when it ends, its prompt's blocks were sent to those there were when it began, and a POST of blocks is given up after three attempts: the export of a session then lacks messages of a call it holds, where export_session_otlp says that "consumers see complete OTLP either way" (viewer/otlp_store.py:1436). |

Some properties of passing runs exclude exactly these situations, by a condition
or by a constant of the configuration: scenes without both threads and getters
where `GetNotStranded` is checked; `deaths = {"cell"}` and no cancellation where
`NamespaceKept` and `CallsReturn` of the executor bite; `RefusedPending = FALSE`
and one summarizer where `SummaryTellsAll` is (with two, one may collapse part of
what the other has rendered into a Summary that reaches further); `~disturbed` in the bash session; the exception for a
cancelled teardown in `BoxClosed` and for `"raise"` in `PromptAnswered`;
`"straggler"` in `StackIsOpen`.

## 7. What is left out of the modelled parts

* **EventManager.** `add` of a ready-made Summary (nobody in the repository calls
  it), `update` (changes no modelled field), subscribers (called after a change,
  they change nothing here), queries.
* **SQLite.** Session lock, reconnection and the retry of single calls,
  detection of corruption, snapshots.
* **Summarizer.** The policies' own arithmetic (any contiguous range stands for
  them), the input budget, `clear()` of the target log, `_uninstall`.
* **Channels.** A change of event loop, re-registration under the same name,
  host callbacks that raise, puts on a channel already removed, the window
  inside `pop_last` on the UI thread. With a `get()` beside `race()`, a `get()`
  between a loser's pop and its restoration receives a younger item first, so
  FIFO is stated for the single dispatcher.
* **Jobs.** The buffer of yielded values, a job that cancels itself, a put that
  raises.
* **ActorRuntime.** `generate()` and the preparation of messages (its
  archiving of refused prompts is in Summarizer), `execute_code`, middleware,
  hooks, the sync wrapper, a body that awaits a task created outside its own
  session.
* **CodeAct.** The text of prompts and feedback, the coercion of answers (a
  choice of outcome), captured locals.
* **SandboxExecutor.** Killing a worker is taken to succeed and its exit code to
  be known once its end of the pipe is closed; `close_sync`, a cancelled
  `aclose` and `ping` are left out; time is a choice. CodeAct closes its
  executor after a cancellation, so the configurations with two readers on one
  pipe need another user of the executor or a middleware.
* **BashSession.** A change of event loop, the streaming of stdout and stderr,
  the second `pwd` command of ShellTools, the file tools.
* **Journal.** How messages are cut into blocks and put together again, the span
  half of the exporter, `force_flush` without a shutdown, the rest of the store.
  A retried request and its late predecessor are one request on the wire, and
  after a shutdown in a steady scene no new call begins.

Bounds in guards and constraints: `MaxTag`, `MaxRemovals`, `MaxForgotten`,
`MaxPut` and `Bounds` (Channels), `MaxJob`, `MaxYield`, `MaxCalls` and `Bounds`
(sandbox, codeact) with `NumSession` and `MaxLog`, `MaxShell` and `Bounds`
(bash), `NumTask`, `NumCall`, `NumRoot`, one `nested` per frame and one restart
(actor), `NumCall`, `NumPost`, `Retries` (journal), `MaxTagFaulty` and `Bounds`
(sqlite). `CallsReturn` of the bash and sandbox runs is checked on the graph
within these bounds.

## 8. Plan

Done: the ten components of section 1, with a proof of every safety property
their runs check. Next, most
important first:

1. **SkillRegistry** (reload with its detach, attach, restore and context-block
   pairing), **OAuthCallback** (callback thread against timeout), **Retry**
   (operators against a reference loop), storage manager with its session lock
   and the retry of single calls, **MemoryStore** (two processes on one store).
2. Composition of CodeAct with SandboxExecutor and of CodeAct with ActorRuntime
   (the teardown of a worker beside a cancelled session), and of Summarizer with
   SqliteEvents.
3. Proofs: what the summarizers promise (`SummaryTellsAll`) over SqliteEvents,
   as `TablesKeepPromises` has it for the log; the invariants of the components
   of 1 and 2.
