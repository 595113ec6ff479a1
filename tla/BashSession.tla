---------------------------- MODULE BashSession ----------------------------
(***************************************************************************)
(* The persistent shell of the agent's tools (tools/_bash_session.py) and  *)
(* the way ShellTools.run (tools/shell_tools.py) uses it.  A bash process  *)
(* reads scripts from stdin; on descriptor 3 it reports, for each script,  *)
(* an exit code, its directory and a sentinel.  Calls take turns through   *)
(* an asyncio lock, and start or reset the process when it is missing,     *)
(* dead or hangs.                                                          *)
(*                                                                         *)
(* A call is a coroutine with a stack of frames, one for each read of the  *)
(* control descriptor it is in the middle of: the command ("user"), below  *)
(* it the sentinel of a starting shell ("startup") or the init command     *)
(* ("init"), and at the bottom what ShellTools does after starting the     *)
(* session ("lock").  pc says where it awaits; in the stages of Going it   *)
(* goes on without an await, and no other call moves.                      *)
(***************************************************************************)
EXTENDS Integers, Sequences

CONSTANTS
  Call,      \* calls of ShellTools.run
  MaxShell,  \* bound: bash processes started
  HasInit    \* whether the session was given an init_command

ASSUME ConstantsAssumption == MaxShell \in Nat \ {0} /\ HasInit \in BOOLEAN

VARIABLES
  process,   \* _process: the number of a shell, 0 for None
  ctrl,      \* _control_reader: of which shell, 0 for None
  started,   \* _started
  inInit,    \* _running_init
  lock,      \* _lock: the number of the Lock object of the moment
  queue,     \* calls that wait for a lock, oldest first
  call,      \* Call -> [pc, stack, at, lock]: at is the shell it starts or reads from
  result,    \* Call -> what the call returned
  cwd,       \* _cwd: the call whose command left it, or Nobody
  shells,    \* number of shells started so far
  alive,     \* shells that run
  closed,    \* shells whose control transport close() has closed
  stdin,     \* shell -> scripts written to it, the first being executed
  fd3,       \* shell -> lines it wrote and nobody read
  prepared,  \* history: shells that ran the init command to its end
  given,     \* history: Call -> how often its command was written to a shell
  disturbed  \* history: a start or reset met another call, or a working call was cancelled

session == <<process, ctrl, started, inInit, lock, queue>>
world   == <<shells, alive, closed, stdin, fd3>>
history == <<prepared, given>>
vars    == <<session, call, result, cwd, world, history, disturbed>>

Shell  == 1..MaxShell
Nobody == "nobody"
None   == 0

Stages == {"idle", "lock", "queued", "enter", "send", "reset", "closing",
           "spawn", "wire", "read", "drain", "return", "done"}
Going  == {"lock", "enter", "send", "reset", "return"}
Awaits == {"queued", "closing", "spawn", "wire", "read", "drain"}

(* try: what is left to try if bash turns out dead.                        *)
Frame(what, try) == [what |-> what, try |-> try, lines |-> <<>>, timedOut |-> FALSE]
Top(c)    == Head(call[c].stack)
Under(c)  == Tail(call[c].stack)

Line(c, what, part) == [call |-> c, what |-> what, part |-> part]
Report(s) == IF s.what = "startup" THEN <<Line(s.call, s.what, "end")>>
             ELSE <<Line(s.call, s.what, "code"), Line(s.call, s.what, "cwd"),
                    Line(s.call, s.what, "end")>>

Fresh(pc) == [pc |-> pc, stack |-> <<>>, at |-> None, lock |-> 0]

Result(kind, of) == [kind |-> kind, of |-> of]
Pending == Result("none", Nobody)

Init ==
  /\ process = None /\ ctrl = None /\ started = FALSE /\ inInit = FALSE
  /\ lock = 0 /\ queue = <<>>
  /\ call = [c \in Call |-> Fresh("idle")]
  /\ result = [c \in Call |-> Pending]
  /\ cwd = Nobody
  /\ shells = 0 /\ alive = {} /\ closed = {}
  /\ stdin = [s \in Shell |-> <<>>] /\ fd3 = [s \in Shell |-> <<>>]
  /\ prepared = {} /\ given = [c \in Call |-> 0]
  /\ disturbed = FALSE

-----------------------------------------------------------------------------
(* The lock.                                                               *)

Inside(c) == call[c].pc \notin {"idle", "lock", "queued", "done"}
             /\ \E i \in DOMAIN call[c].stack : call[c].stack[i].what = "user"
Holds(c)  == call[c].pc = "enter" \/ Inside(c)
Queued    == {queue[i] : i \in DOMAIN queue}
Ignored(l) == TRUE                               \* slip
Free(l)    == \A c \in Call : Holds(c) => call[c].lock # l

Goto(c, pc) == call' = [call EXCEPT ![c].pc = pc]

(* What the lock does not cover: ShellTools starts the session without it, *)
(* and close() replaces it while the caller of reset() is still inside.    *)

Starting(c) ==
  \/ call[c].pc \in {"reset", "closing", "spawn", "wire"}
  \/ \E i \in DOMAIN call[c].stack : call[c].stack[i].what \in {"startup", "init"}
Active(c) == call[c].pc \notin {"idle", "done"}

Clash ==
  \/ \E c, d \in Call : /\ c # d /\ Active(d)
                        /\ (Starting(c) \/ (Inside(c) /\ call[c].lock # lock))
  \/ \E c \in Call : result[c].kind = "cancelled"

Watch == disturbed' = (disturbed \/ Clash')

-----------------------------------------------------------------------------
(* Between two awaits of a call no other call moves.                       *)
Turn(c)   == \A d \in Call \ {c} : call[d].pc \notin Going
At(c, pc) == call[c].pc = pc /\ Turn(c)

(* ShellTools._get_session: starts the session, without the lock.          *)
Begin(c) ==
  /\ At(c, "idle")
  /\ IF started THEN Goto(c, "lock")
     ELSE call' = [call EXCEPT ![c].pc = "spawn", ![c].stack = <<Frame("lock", "none")>>]
  /\ UNCHANGED <<session, result, cwd, world, history>>
  /\ Watch

(* async with self._lock: at once if it is free and nobody waits for it.   *)
Lock(c) ==
  /\ At(c, "lock")
  /\ LET now == Free(lock) /\ \A d \in Queued : call[d].lock # lock
     IN /\ call' = [call EXCEPT ![c] = [pc    |-> IF now THEN "enter" ELSE "queued",
                                        stack |-> <<>>, at |-> None, lock |-> lock]]
        /\ queue' = IF now THEN queue ELSE Append(queue, c)
  /\ UNCHANGED <<process, ctrl, started, inInit, lock, result, cwd, world, history>>
  /\ Watch

WithoutAt(i) == [k \in 1..(Len(queue) - 1) |-> queue[IF k < i THEN k ELSE k + 1]]

Granted(c) ==
  /\ At(c, "queued")
  /\ Free(call[c].lock)
  /\ \E i \in DOMAIN queue :
       /\ queue[i] = c
       /\ \A j \in 1..(i - 1) : call[queue[j]].lock # call[c].lock
       /\ queue' = WithoutAt(i)
  /\ Goto(c, "enter")
  /\ UNCHANGED <<process, ctrl, started, inInit, lock, result, cwd, world, history>>
  /\ Watch

(* _run_unlocked.                                                          *)
Enter(c) ==
  /\ At(c, "enter")
  /\ call' = [call EXCEPT ![c].pc    = IF started THEN "send" ELSE "spawn",
                          ![c].stack = <<Frame("user", "check")>>]
  /\ UNCHANGED <<session, result, cwd, world, history>>
  /\ Watch

-----------------------------------------------------------------------------
(* Leaving: the lock is released, a running init is over.                  *)

InitOver(c) ==
  IF \E i \in DOMAIN call[c].stack : call[c].stack[i].what = "init" THEN FALSE ELSE inInit

Leave(c, kind) ==
  /\ call'   = [call EXCEPT ![c] = Fresh("done")]
  /\ result' = [result EXCEPT ![c] = Result(kind, Nobody)]
  /\ inInit' = InitOver(c)

(* A pipe that turns out broken, a process that cannot be started, a       *)
(* session another call took apart, a second reader on one descriptor.     *)
Raise(c) ==
  /\ Leave(c, "raised")
  /\ UNCHANGED <<process, ctrl, started, lock, queue, cwd, world, history>>
  /\ Watch

Withdrawn(c)   == IF c \in Queued THEN WithoutAt(CHOOSE i \in DOMAIN queue : queue[i] = c)
                  ELSE queue

Cancel(c) ==
  /\ Turn(c) /\ call[c].pc \in Awaits
  /\ Leave(c, IF call[c].pc = "queued" THEN "withdrawn" ELSE "cancelled")
  /\ queue' = Withdrawn(c)
  /\ UNCHANGED <<process, ctrl, started, lock, cwd, world, history>>
  /\ Watch

-----------------------------------------------------------------------------
(* _send_and_wait: a dead or missing process is replaced before the write; *)
(* one that breaks the write is replaced once more.                        *)

SetTry(c, try) == [call EXCEPT ![c].pc = "reset", ![c].stack[1].try = try]

Missing == process = None \/ ctrl = None

SendFindsDead(c) ==
  /\ At(c, "send") /\ Top(c).try = "check"
  /\ Missing \/ process \notin alive
  /\ call' = SetTry(c, "write")
  /\ UNCHANGED <<session, result, cwd, world, history>>
  /\ Watch

Write(c) ==
  /\ At(c, "send") /\ ~Missing
  /\ process \in alive
  /\ stdin' = [stdin EXCEPT ![process] = Append(@, [call |-> c, what |-> Top(c).what])]
  /\ call'  = [call EXCEPT ![c].pc = "read", ![c].at = ctrl]
  /\ given' = IF Top(c).what = "user" THEN [given EXCEPT ![c] = @ + 1] ELSE given
  /\ UNCHANGED <<session, result, cwd, shells, alive, closed, fd3, prepared>>
  /\ Watch

(* The process died unnoticed: the write fails, or it is lost.             *)
WriteBroken(c) ==
  /\ At(c, "send") /\ ~Missing
  /\ process \notin alive
  /\ Top(c).try # "last"
  /\ call' = SetTry(c, "last")
  /\ UNCHANGED <<session, result, cwd, world, history>>
  /\ Watch

WriteLost(c) ==
  /\ At(c, "send") /\ ~Missing
  /\ process \notin alive
  /\ call' = [call EXCEPT ![c].pc = "read", ![c].at = ctrl]
  /\ UNCHANGED <<session, result, cwd, world, history>>
  /\ Watch

SendGivesUp(c) ==
  /\ At(c, "send")
  /\ \/ Missing /\ Top(c).try # "check"
     \/ ~Missing /\ process \notin alive /\ Top(c).try = "last"
  /\ Raise(c)

-----------------------------------------------------------------------------
(* reset(): close(), which also makes a new Lock, then start().            *)

Closed ==
  /\ process' = None
  /\ started' = FALSE
  /\ lock'    = lock + 1

Killed == alive \ {process}

(* close() up to its await of the process it has killed.                   *)
Reset(c) ==
  /\ At(c, "reset")
  /\ ctrl'   = None
  /\ closed' = closed \cup ({ctrl} \ {None})
  /\ alive'  = Killed
  /\ stdin'  = [s \in Shell |-> IF s = process THEN <<>> ELSE stdin[s]]
  /\ IF process \in alive
     THEN Goto(c, "closing") /\ UNCHANGED <<process, started, lock>>
     ELSE Goto(c, "spawn") /\ Closed
  /\ UNCHANGED <<inInit, queue, result, cwd, shells, fd3, history>>
  /\ Watch

CloseEnds(c) ==
  /\ At(c, "closing")
  /\ Closed
  /\ Goto(c, "spawn")
  /\ UNCHANGED <<ctrl, inInit, queue, result, cwd, world, history>>
  /\ Watch

(* start(): create_subprocess_exec returns.                                *)
Spawn(c) ==
  /\ At(c, "spawn")
  /\ shells < MaxShell
  /\ shells'  = shells + 1
  /\ process' = shells + 1
  /\ alive'   = alive \cup {shells + 1}
  /\ call'    = [call EXCEPT ![c].pc = "wire", ![c].at = shells + 1]
  /\ UNCHANGED <<ctrl, started, inInit, lock, queue, result, cwd, closed, stdin, fd3, history>>
  /\ Watch

SpawnFails(c) == At(c, "spawn") /\ Raise(c)

(* The control pipe is connected; the startup sentinel goes to the process *)
(* that self._process names by now.                                        *)
Wire(c) ==
  /\ At(c, "wire")
  /\ ctrl'    = call[c].at
  /\ started' = TRUE
  /\ \/ /\ process # None    \* if it is dead, the write may be lost
        /\ stdin' = IF process \in alive
                    THEN [stdin EXCEPT ![process] = Append(@, [call |-> c, what |-> "startup"])]
                    ELSE stdin
        /\ call'  = [call EXCEPT ![c].pc = "read", ![c].stack = <<Frame("startup", "none")>> \o @]
        /\ UNCHANGED <<inInit, result>>
     \/ process \notin alive /\ Leave(c, "raised") /\ UNCHANGED stdin
  /\ UNCHANGED <<process, lock, queue, cwd, shells, alive, closed, fd3, history>>
  /\ Watch

-----------------------------------------------------------------------------
(* _read_control_until.                                                    *)

Own(c, line) == line = Line(c, Top(c).what, "end")
Lines(c)     == fd3[call[c].at]
Take(c)      == fd3' = [fd3 EXCEPT ![call[c].at] = Tail(@)]
Ended(c)     == call[c].at \notin alive \/ call[c].at \in closed

ReadLine(c) ==
  /\ At(c, "read") /\ Lines(c) # <<>>
  /\ Take(c)
  /\ IF Own(c, Head(Lines(c))) THEN Goto(c, "return")
     ELSE call' = [call EXCEPT ![c].stack[1].lines =
                     IF Len(@) < 2 THEN Append(@, Head(Lines(c))) ELSE @]
  /\ UNCHANGED <<session, result, cwd, shells, alive, closed, stdin, history>>
  /\ Watch

ReadEndsRetries(c) ==    \* slip: a command whose shell died is sent again
  /\ At(c, "read") /\ Lines(c) = <<>> /\ Ended(c)
  /\ call' = SetTry(c, "write")
  /\ UNCHANGED <<session, result, cwd, world, history>>
  /\ Watch

ReadEnds(c) ==
  /\ At(c, "read") /\ Lines(c) = <<>> /\ Ended(c)
  /\ Goto(c, "return")
  /\ UNCHANGED <<session, result, cwd, world, history>>
  /\ Watch

(* StreamReader refuses a second coroutine that waits for data.            *)
Collide(c) ==
  /\ Turn(c) /\ call[c].pc \in {"read", "drain"} /\ Lines(c) = <<>> /\ ~Ended(c)
  /\ \E d \in Call \ {c} : call[d].pc \in {"read", "drain"} /\ call[d].at = call[c].at
  /\ Raise(c)

TimeoutReturns(c) ==     \* slip: the command is left to itself
  /\ At(c, "read") /\ Lines(c) = <<>>
  /\ call' = [call EXCEPT ![c].pc = "return", ![c].stack[1].timedOut = TRUE]
  /\ UNCHANGED <<session, result, cwd, world, history>>
  /\ Watch

TimeoutNever(c) == FALSE \* slip: readline without a deadline

(* wait_for gives up; the children of the process are signalled, and what  *)
(* is on the control reader of the moment is read up to the sentinel.      *)
Timeout(c) ==
  /\ At(c, "read") /\ Lines(c) = <<>>
  /\ IF process # None /\ ctrl = None
     THEN Raise(c)
     ELSE /\ call' = [call EXCEPT ![c].pc = IF process = None THEN "return" ELSE "drain",
                                  ![c].stack[1].timedOut = TRUE,
                                  ![c].at = IF process = None THEN @ ELSE ctrl]
          /\ UNCHANGED <<session, result, cwd, world, history>>
          /\ Watch

DrainLine(c) ==
  /\ At(c, "drain") /\ Lines(c) # <<>>
  /\ Take(c)
  /\ Goto(c, IF Own(c, Head(Lines(c))) THEN "return" ELSE "drain")
  /\ UNCHANGED <<session, result, cwd, shells, alive, closed, stdin, history>>
  /\ Watch

GiveUpStays(c) ==        \* slip: no reset after a failed recovery
  /\ At(c, "drain") /\ Lines(c) = <<>>
  /\ Goto(c, "return")
  /\ UNCHANGED <<session, result, cwd, world, history>>
  /\ Watch

(* Neither SIGTERM nor SIGKILL to the children brought the sentinel.       *)
GiveUp(c) ==
  /\ At(c, "drain") /\ Lines(c) = <<>>
  /\ call' = SetTry(c, "over")
  /\ UNCHANGED <<session, result, cwd, world, history>>
  /\ Watch

-----------------------------------------------------------------------------
(* The end of a read: the frame below goes on.                             *)

LeavesCwd(f) == Len(f.lines) >= 2 /\ f.lines[2].part = "cwd"
CwdAfter(f)  == IF f.what \in {"user", "init"} /\ LeavesCwd(f)
                THEN IF f.what = "user" THEN f.lines[2].call ELSE cwd
                ELSE cwd

(* int(ctrl_lines[0]), 0 where that is no number, -1 without a line.       *)
Outcome(f) ==
  IF f.timedOut THEN Result("timeout", Nobody)
  ELSE IF f.lines = <<>> THEN Result("died", Nobody)
  ELSE Result("status", IF f.lines[1].part = "code" /\ f.lines[1].what = "user"
                        THEN f.lines[1].call ELSE Nobody)

Resume(c, below) ==
  call' = [call EXCEPT ![c].stack = below,
                       ![c].pc = IF Head(below).what = "lock" THEN "lock"
                                 ELSE IF Head(below).try = "over" THEN "return" ELSE "send"]

ReturnStartup(c) ==
  /\ At(c, "return") /\ Top(c).what = "startup"
  /\ IF HasInit /\ ~inInit
     THEN /\ inInit' = TRUE
          /\ call' = [call EXCEPT ![c].pc = "send", ![c].stack = <<Frame("init", "check")>> \o Under(c)]
     ELSE Resume(c, Under(c)) /\ UNCHANGED inInit
  /\ UNCHANGED <<process, ctrl, started, lock, queue, result, cwd, world, history>>
  /\ Watch

ReturnInit(c) ==
  /\ At(c, "return") /\ Top(c).what = "init"
  /\ inInit' = FALSE
  /\ cwd'    = CwdAfter(Top(c))
  /\ Resume(c, Under(c))
  /\ UNCHANGED <<process, ctrl, started, lock, queue, result, world, history>>
  /\ Watch

ReturnUser(c) ==
  /\ At(c, "return") /\ Top(c).what = "user"
  /\ call'   = [call EXCEPT ![c] = Fresh("done")]
  /\ result' = [result EXCEPT ![c] = Outcome(Top(c))]
  /\ cwd'    = CwdAfter(Top(c))
  /\ UNCHANGED <<session, world, history>>
  /\ Watch

-----------------------------------------------------------------------------
(* bash: it finishes the script it executes, or dies, having written part  *)
(* of what the script reports.                                             *)

Finish(s) ==
  /\ s \in alive /\ stdin[s] # <<>>
  /\ fd3'   = [fd3 EXCEPT ![s] = @ \o Report(Head(stdin[s]))]
  /\ stdin' = [stdin EXCEPT ![s] = Tail(@)]
  /\ prepared' = IF Head(stdin[s]).what = "init" THEN prepared \cup {s} ELSE prepared
  /\ UNCHANGED <<session, call, result, cwd, shells, alive, closed, given>>
  /\ Watch

Die(s) ==
  /\ s \in alive
  /\ alive' = alive \ {s}
  /\ stdin' = [stdin EXCEPT ![s] = <<>>]
  /\ IF stdin[s] = <<>> THEN UNCHANGED fd3
     ELSE \E n \in 0..Len(Report(Head(stdin[s]))) :
            fd3' = [fd3 EXCEPT ![s] = @ \o SubSeq(Report(Head(stdin[s])), 1, n)]
  /\ UNCHANGED <<session, call, result, cwd, shells, closed, history>>
  /\ Watch

Goes(c) ==
  \/ Lock(c) \/ Granted(c) \/ Enter(c)
  \/ SendFindsDead(c) \/ Write(c) \/ WriteBroken(c) \/ WriteLost(c) \/ SendGivesUp(c)
  \/ Reset(c) \/ CloseEnds(c) \/ Spawn(c) \/ SpawnFails(c) \/ Wire(c)
  \/ ReadLine(c) \/ ReadEnds(c) \/ Collide(c) \/ Timeout(c)
  \/ DrainLine(c) \/ GiveUp(c)
  \/ ReturnStartup(c) \/ ReturnInit(c) \/ ReturnUser(c)

Next ==
  \/ \E c \in Call : Begin(c) \/ Goes(c) \/ Cancel(c)
  \/ \E s \in Shell : Finish(s) \/ Die(s)

(* A caller in the middle of a call goes on, and a deadline passes; the    *)
(* shell and its commands owe nothing.                                     *)
Fairness == \A c \in Call : WF_vars(Goes(c))

Spec == Init /\ [][Next]_vars /\ Fairness

-----------------------------------------------------------------------------
(* Properties.                                                             *)

(* Types of the session and of its callers; the queue holds the callers    *)
(* that wait for a lock, no other.                                         *)
TypeOK ==
  /\ process \in 0..shells /\ ctrl \in 0..shells
  /\ started \in BOOLEAN /\ inInit \in BOOLEAN
  /\ lock \in Nat /\ Queued = {c \in Call : call[c].pc = "queued"}
  /\ \A c \in Call : call[c].pc \in Stages /\ call[c].at \in 0..shells
  /\ shells \in 0..MaxShell /\ alive \subseteq 1..shells /\ closed \subseteq 1..shells

(* The exit code run() returns, and the directory it remembers, are those  *)
(* of its own command, whatever died, hung, timed out and was reset before *)
(* it: no line of an earlier command is left for a later one to read.      *)
OwnStatus ==
  ~disturbed => /\ \A c \in Call : result[c].kind = "status" => result[c].of = c
                /\ cwd # Nobody => result[cwd].kind \in {"status", "timeout"}

(* A command is written to a shell at most once: the retry of              *)
(* _send_and_wait repeats only a write that failed, also when callers      *)
(* overlap or are cancelled.                                               *)
AtMostOnce == \A c \in Call : given[c] <= 1

(* When run() has returned, by a status, a timeout or an error, its        *)
(* command does not go on in a living shell.                               *)
NothingLeftRunning ==
  ~disturbed => \A c \in Call, s \in alive : call[c].pc = "done" =>
                   \A i \in DOMAIN stdin[s] : stdin[s][i].call # c

(* reset() and start() leave no shell behind: the session knows every      *)
(* bash process that lives.                                                *)
OneShell == ~disturbed => \A s \in alive : s = process

(* "concurrent run() / run_stream() calls from the same event loop will    *)
(* queue and execute one at a time."                                       *)
OneAtATime == \A c, d \in Call : Inside(c) /\ Inside(d) => c = d

(* They do while no shell is started or reset beside another call.         *)
OrderlyTurns == ~disturbed => OneAtATime

(* "one-time init command (env setup) before any user command": a command  *)
(* is given only to a shell that has run it.                               *)
InitFirst ==
  [][\A c \in Call : HasInit /\ given'[c] > given[c] /\ ~disturbed' => process \in prepared]_vars

(* Every call returns, though commands hang, shells die or ignore signals  *)
(* and callers overlap.                                                    *)
CallsReturn == \A c \in Call : Active(c) ~> ~Active(c)

=============================================================================
