------------------------------ MODULE RunControl ------------------------------
(***************************************************************************)
(* Who may run when: full back-tests and the Live refresh are separate     *)
(* main.py processes, started by the Next.js routes, that know of one      *)
(* another only through files in data/.  Every test, write and unlink of   *)
(* one of these files is a step of its own, so that any other process can  *)
(* act in between.                                                         *)
(*                                                                         *)
(* A run is one POST /api/bootstrap: the prepare-bootstrap process first,  *)
(* then the detached bootstrap process.  A client is a process that serves *)
(* one live-run command after the other.  runtime-dashboard.json, which    *)
(* clear_live_run and the ticks also rewrite, is not part of this module.  *)
(***************************************************************************)
EXTENDS Naturals, FiniteSets

CONSTANTS
  Runs,            \* bootstrap requests; also the pid of the bootstrap process
  Clients,         \* processes of the live-run commands
  Strategies,
  Commands,        \* the live-run commands that are called
  None,            \* no file, no strategy
  Torn,            \* live-run.json truncated by a save that has not written yet
  Enabled,         \* number of enabled strategies
  LockTries,       \* attempts at the tick lock before giving up (300 in the code)
  AllowOverlap,    \* may a run be requested before the previous one ended?
  AllowCrashes     \* may a process die by itself?

ASSUME RunControlAssumption ==
  /\ Commands \subseteq {"start", "tick", "status", "stop"}
  /\ None \notin Runs \cup Clients \cup Strategies
  /\ Torn \notin Strategies /\ Torn # None
  /\ Enabled \in Nat
  /\ LockTries \in Nat \ {0}
  /\ AllowOverlap \in BOOLEAN
  /\ AllowCrashes \in BOOLEAN

VARIABLES
  stop,            \* does backtest.stop exist?
  pending,         \* does backtest.pending exist?
  pid,             \* the pid in backtest.pid, None without the file
  live,            \* the strategy in live-run.json, Torn or None
  writers,         \* clients whose open handle is on the present live-run.json
  lock,            \* who created live-run.tick.lock, None without the file
  run,             \* where each run is
  todo,            \* strategies a run has not begun
  pc,              \* where each client is
  stage,           \* what its command is doing: which caller of a shared step
  arg,             \* the strategy it was asked for, or has loaded
  tries,           \* its attempts at the lock
  stopper,         \* where the stop route is
  target,          \* the pid it has read
  asked,           \* history: how far each run was when a stop was requested
  inflight         \* history: refreshes under way when each run was marked pending

files    == <<stop, pending, pid, live, writers, lock>>
runVars  == <<run, todo, asked, inflight>>
liveVars == <<pc, stage, arg, tries>>
stopVars == <<stopper, target>>
vars == <<stop, pending, pid, live, writers, lock, run, todo, asked, inflight,
          pc, stage, arg, tries, stopper, target>>

-----------------------------------------------------------------------------
(* Where processes can be.                                                 *)

RunPcs == {"off",                                      \* not requested yet
           "prep_live", "prep_lock", "prep_mark",      \* prepare-bootstrap
           "prepared",                                 \* the route is to spawn
           "boot_live", "boot_lock", "boot_mark", "boot_stop", "boot_pid",
           "load", "loop", "work",                     \* the try block
           "fin_pid", "fin_pending", "fin_stop",       \* its finally
           "done", "dead"}

ClientPcs == {"idle", "gate", "gate_pid", "gate_unlink",
              "load", "load_open", "load_unlink", "lock",
              "reload", "reload_open", "reload_unlink",
              "compute", "save_open", "save_write", "unlock",
              "clear_live", "clear_lock"}

Stages == {"start", "forced", "tick", "locked", "status", "stop"}

Ended == {"off", "done", "dead"}

\* The bootstrap process exists: kill(pid, 0) succeeds.
Alive(r) == run[r] \notin Ended \cup {"prep_live", "prep_lock", "prep_mark", "prepared"}

\* The run has marked the back-test pending and has not unmarked it yet.
Marked(r) == run[r] \in {"prepared", "boot_live", "boot_lock", "boot_mark", "boot_stop",
                         "boot_pid", "load", "loop", "work", "fin_pid", "fin_pending"}

\* The run is past its own clear_stop_request and write_run_pid.
Working(r) == run[r] \in {"load", "loop", "work"}

\* The client is inside the try block that the tick lock protects.
InSection(c) ==
  \/ pc[c] \in {"reload", "reload_open", "reload_unlink", "compute", "unlock"}
  \/ stage[c] = "locked"

\* The refresh has found no pending back-test under the lock and will run.
Refreshing(c) ==
  /\ stage[c] = "locked"
  /\ pc[c] \in {"gate_pid", "gate_unlink", "compute", "save_open", "save_write"}

TypeOK ==
  /\ stop \in BOOLEAN
  /\ pending \in BOOLEAN
  /\ pid \in Runs \cup {None}
  /\ live \in Strategies \cup {Torn, None}
  /\ writers \subseteq Clients
  /\ lock \in Clients \cup {None}
  /\ run \in [Runs -> RunPcs]
  /\ todo \in [Runs -> 0..Enabled]
  /\ pc \in [Clients -> ClientPcs]
  /\ stage \in [Clients -> Stages]
  /\ arg \in [Clients -> Strategies \cup {None}]
  /\ tries \in [Clients -> 0..LockTries]
  /\ stopper \in {"idle", "read", "kill"}
  /\ target \in Runs \cup {None}
  /\ asked \in [Runs -> {"no", "early", "heard"}]
  /\ inflight \in [Runs -> SUBSET Clients]

Init ==
  /\ stop = FALSE
  /\ pending = FALSE
  /\ pid = None
  /\ live = None
  /\ writers = {}
  /\ lock = None
  /\ run = [r \in Runs |-> "off"]
  /\ todo = [r \in Runs |-> Enabled]
  /\ pc = [c \in Clients |-> "idle"]
  /\ stage = [c \in Clients |-> "status"]
  /\ arg = [c \in Clients |-> None]
  /\ tries = [c \in Clients |-> 0]
  /\ stopper = "idle"
  /\ target = None
  /\ asked = [r \in Runs |-> "no"]
  /\ inflight = [r \in Runs |-> {}]

-----------------------------------------------------------------------------
(* Steps on the shared files.                                              *)

\* LIVE_RUN_FILE.unlink: whoever has the old file open now writes to nowhere.
UnlinkLive == live' = None /\ writers' = {}

GoRun(r, from, to) == run[r] = from /\ run' = [run EXCEPT ![r] = to]

GoClient(c, from, to) == pc[c] = from /\ pc' = [pc EXCEPT ![c] = to]

\* The command ends: its process has no locals any more.
Idle(c) ==
  /\ pc' = [pc EXCEPT ![c] = "idle"]
  /\ stage' = [stage EXCEPT ![c] = "status"]
  /\ arg' = [arg EXCEPT ![c] = None]
  /\ tries' = [tries EXCEPT ![c] = 0]
Return(c, from) == pc[c] = from /\ Idle(c)

\* It goes on to another step with the locals it has.
Move(c, from, to) == GoClient(c, from, to) /\ UNCHANGED <<stage, arg, tries>>

\* The client leaves its command: a refresh of its is no longer under way.
Forget(c) == inflight' = [r \in Runs |-> inflight[r] \ {c}]

-----------------------------------------------------------------------------
(* A run: POST /api/bootstrap, then main.py prepare-bootstrap and bootstrap. *)

Request(r) ==
  /\ AllowOverlap \/ \A q \in Runs : run[q] \in Ended
  /\ GoRun(r, "off", "prep_live")
  /\ UNCHANGED <<files, todo, asked, inflight, liveVars, stopVars>>

\* clear_live_run: live-run.json goes first, the tick lock after it, whoever
\* holds it.  Called by prepare-bootstrap and again by bootstrap_all.
RunClearLive(r) ==
  /\ \/ GoRun(r, "prep_live", "prep_lock")
     \/ GoRun(r, "boot_live", "boot_lock")
  /\ UnlinkLive
  /\ UNCHANGED <<stop, pending, pid, lock, todo, asked, inflight, liveVars, stopVars>>

RunClearLock(r) ==
  /\ \/ GoRun(r, "prep_lock", "prep_mark")
     \/ GoRun(r, "boot_lock", "boot_mark")
  /\ lock' = None
  /\ UNCHANGED <<stop, pending, pid, live, writers, todo, asked, inflight,
                 liveVars, stopVars>>

PrepareMark(r) ==
  /\ GoRun(r, "prep_mark", "prepared")
  /\ pending' = TRUE
  /\ inflight' = [inflight EXCEPT ![r] = {c \in Clients : Refreshing(c)}]
  /\ UNCHANGED <<stop, pid, live, writers, lock, todo, asked, liveVars, stopVars>>

Spawn(r) ==
  /\ GoRun(r, "prepared", "boot_live")
  /\ UNCHANGED <<files, todo, asked, inflight, liveVars, stopVars>>

BootMark(r) ==
  /\ GoRun(r, "boot_mark", "boot_stop")
  /\ pending' = TRUE
  /\ UNCHANGED <<stop, pid, live, writers, lock, todo, asked, inflight,
                 liveVars, stopVars>>

\* clear_stop_request: also wipes out a stop requested since the run began.
BootClearStop(r) ==
  /\ GoRun(r, "boot_stop", "boot_pid")
  /\ stop' = FALSE
  /\ UNCHANGED <<pending, pid, live, writers, lock, todo, asked, inflight,
                 liveVars, stopVars>>

\* Mutant: a pid file that is there already is kept.
BootWritePidOnce(r) ==
  /\ GoRun(r, "boot_pid", "load")
  /\ pid' = IF pid = None THEN r ELSE pid
  /\ UNCHANGED <<stop, pending, live, writers, lock, todo, asked, inflight,
                 liveVars, stopVars>>

BootWritePid(r) ==
  /\ GoRun(r, "boot_pid", "load")
  /\ pid' = r
  /\ UNCHANGED <<stop, pending, live, writers, lock, todo, asked, inflight,
                 liveVars, stopVars>>

\* Candles are loaded; no strategy enabled, an exception or a stop ends the run.
LoadCandles(r) ==
  /\ \/ GoRun(r, "load", "fin_pid")
     \/ ~stop /\ todo[r] > 0 /\ GoRun(r, "load", "loop")
  /\ UNCHANGED <<files, todo, asked, inflight, liveVars, stopVars>>

\* Mutants: a loop that misses its end, and one that never looks at the stop.
LoopTopEndless(r) ==
  /\ GoRun(r, "loop", IF stop THEN "fin_pid" ELSE "work")
  /\ todo' = [todo EXCEPT ![r] = IF stop THEN @ ELSE @ - 1]
  /\ UNCHANGED <<files, asked, inflight, liveVars, stopVars>>
LoopTopDeaf(r) ==
  /\ \/ /\ todo[r] > 0
        /\ GoRun(r, "loop", "work")
        /\ todo' = [todo EXCEPT ![r] = @ - 1]
     \/ /\ todo[r] = 0
        /\ GoRun(r, "loop", "fin_pid")
        /\ UNCHANGED todo
  /\ UNCHANGED <<files, asked, inflight, liveVars, stopVars>>

\* Top of the strategy loop: stop_requested breaks it, the last strategy ends it.
LoopTop(r) ==
  /\ \/ /\ ~stop /\ todo[r] > 0
        /\ GoRun(r, "loop", "work")
        /\ todo' = [todo EXCEPT ![r] = @ - 1]
     \/ /\ stop \/ todo[r] = 0
        /\ GoRun(r, "loop", "fin_pid")
        /\ UNCHANGED todo
  /\ UNCHANGED <<files, asked, inflight, liveVars, stopVars>>

\* run_strategy_backtest returns, or raises into the loop's own handler.  A save or
\* a progress file that cannot be written raises past the handler.
WorkEnds(r) ==
  /\ GoRun(r, "work", "loop") \/ GoRun(r, "work", "fin_pid")
  /\ UNCHANGED <<files, todo, asked, inflight, liveVars, stopVars>>

FinallyPid(r) ==
  /\ GoRun(r, "fin_pid", "fin_pending")
  /\ pid' = None
  /\ UNCHANGED <<stop, pending, live, writers, lock, todo, asked, inflight,
                 liveVars, stopVars>>

\* Mutant: the finally clause forgets the pending file.
FinallyPendingForgotten(r) ==
  /\ GoRun(r, "fin_pending", "fin_stop")
  /\ UNCHANGED <<files, todo, asked, inflight, liveVars, stopVars>>

FinallyPending(r) ==
  /\ GoRun(r, "fin_pending", "fin_stop")
  /\ pending' = FALSE
  /\ UNCHANGED <<stop, pid, live, writers, lock, todo, asked, inflight,
                 liveVars, stopVars>>

FinallyStop(r) ==
  /\ GoRun(r, "fin_stop", "done")
  /\ stop' = FALSE
  /\ UNCHANGED <<pending, pid, live, writers, lock, todo, asked, inflight,
                 liveVars, stopVars>>

\* The process of the run dies, or the route fails to spawn it: no finally runs.
RunDies(r) ==
  /\ AllowCrashes
  /\ run[r] \notin Ended
  /\ run' = [run EXCEPT ![r] = "dead"]
  /\ UNCHANGED <<files, todo, asked, inflight, liveVars, stopVars>>

RunStep(r) ==
  \/ RunClearLive(r) \/ RunClearLock(r) \/ PrepareMark(r) \/ Spawn(r)
  \/ BootMark(r) \/ BootClearStop(r) \/ BootWritePid(r)
  \/ LoadCandles(r) \/ LoopTop(r) \/ WorkEnds(r)
  \/ FinallyPid(r) \/ FinallyPending(r) \/ FinallyStop(r)

-----------------------------------------------------------------------------
(* POST /api/stop: write backtest.stop, read backtest.pid, signal it.      *)

StopWrite ==
  /\ stopper = "idle" /\ stopper' = "read"
  /\ stop' = TRUE
  /\ asked' = [r \in Runs |-> IF Working(r) THEN "heard"
                              ELSE IF Marked(r) /\ asked[r] = "no" THEN "early"
                              ELSE asked[r]]
  /\ UNCHANGED <<pending, pid, live, writers, lock, run, todo, inflight,
                 liveVars, target>>

StopReadPid ==
  /\ stopper = "read"
  /\ stopper' = IF pid = None THEN "idle" ELSE "kill"
  /\ target' = pid
  /\ UNCHANGED <<files, runVars, liveVars>>

\* SIGTERM has no handler in main.py: the process ends without its finally.
StopKill ==
  /\ stopper = "kill" /\ stopper' = "idle"
  /\ target' = None
  /\ run' = [r \in Runs |-> IF r = target /\ Alive(r) THEN "dead" ELSE run[r]]
  /\ UNCHANGED <<files, todo, asked, inflight, liveVars>>

StopStep == StopReadPid \/ StopKill

-----------------------------------------------------------------------------
(* The live-run commands.                                                  *)

\* A route spawns main.py with a live-run command; start and stop name a
\* strategy.  Stop begins by loading the state, the others at the gate.
Call(c, command, s) ==
  /\ command \in Commands
  /\ GoClient(c, "idle", IF command = "stop" THEN "load" ELSE "gate")
  /\ stage' = [stage EXCEPT ![c] = command]
  /\ arg' = [arg EXCEPT ![c] = IF command \in {"start", "stop"} THEN s ELSE None]
  /\ UNCHANGED <<files, runVars, tries, stopVars>>

\* Where is_backtest_active sends its callers: a blocked start is refused, the
\* others clear the live run; the re-check under the lock lets a tick compute.
Blocked(c, at) ==
  IF stage[c] = "start" THEN Return(c, at) ELSE Move(c, at, "clear_live")
Passed(c, at) ==
  Move(c, at, IF stage[c] = "locked" THEN "compute" ELSE "load")

\* is_backtest_active, first half: BACKTEST_PENDING_FILE.exists().
GatePending(c) ==
  /\ IF pending THEN Blocked(c, "gate") ELSE Move(c, "gate", "gate_pid")
  /\ UNCHANGED <<files, runVars, stopVars>>

\* Second half, is_backtest_running: the pid file names a living process.  The
\* pid of a dead one is unlinked in a step of its own.
GatePid(c) ==
  /\ \/ pid = None /\ Passed(c, "gate_pid")
     \/ pid # None /\ Alive(pid) /\ Blocked(c, "gate_pid")
     \/ pid # None /\ ~Alive(pid) /\ Move(c, "gate_pid", "gate_unlink")
  /\ UNCHANGED <<files, runVars, stopVars>>

\* Mutant: whoever finds a stale pid tidies the pending file up as well.
GateUnlinkBoth(c) ==
  /\ Passed(c, "gate_unlink")
  /\ pid' = None
  /\ pending' = FALSE
  /\ UNCHANGED <<stop, live, writers, lock, runVars, stopVars>>

GateUnlink(c) ==
  /\ Passed(c, "gate_unlink")
  /\ pid' = None
  /\ UNCHANGED <<stop, pending, live, writers, lock, runVars, stopVars>>

\* live_run_start_command: another live strategy refuses the start.
FoundForStart(c, at, found) ==
  /\ stage[c] = "start"
  /\ IF found \in {None, arg[c]} THEN Move(c, at, "save_open") ELSE Return(c, at)

\* live_run_tick_command before the lock: no state or, unless the tick is the
\* forced one of a start, an interval that has not elapsed, ends the tick.
FoundForTick(c, at, found) ==
  /\ stage[c] \in {"forced", "tick"}
  /\ \/ found # None /\ Move(c, at, "lock")
     \/ (found = None \/ stage[c] = "tick") /\ Return(c, at)

FoundForStatus(c, at) == stage[c] = "status" /\ Return(c, at)

\* live_run_stop_command: stopping a strategy that is not live clears nothing.
FoundForStop(c, at, found) ==
  /\ stage[c] = "stop"
  /\ IF found = arg[c] THEN Move(c, at, "clear_live") ELSE Return(c, at)

\* Where each caller of load_live_run goes with what it has found.
Found(c, at, found) ==
  \/ FoundForStart(c, at, found) \/ FoundForTick(c, at, found)
  \/ FoundForStatus(c, at) \/ FoundForStop(c, at, found)

\* load_live_run, exists().
Load(c) ==
  /\ IF live = None THEN Found(c, "load", None) ELSE Move(c, "load", "load_open")
  /\ UNCHANGED <<files, runVars, stopVars>>

\* open() and json.load().  The file may be torn, or gone since it was there.
LoadOpen(c) ==
  /\ IF live \in {None, Torn} THEN Move(c, "load_open", "load_unlink")
                              ELSE Found(c, "load_open", live)
  /\ UNCHANGED <<files, runVars, stopVars>>

\* The except clause deletes what is there by now, and there is no state.
LoadUnlink(c) ==
  /\ Found(c, "load_unlink", None)
  /\ UnlinkLive
  /\ UNCHANGED <<stop, pending, pid, lock, runVars, stopVars>>

\* os.open(O_CREAT | O_EXCL) until it succeeds or the attempts are used up.
Acquire(c) ==
  /\ lock = None
  /\ GoClient(c, "lock", "reload")
  /\ lock' = c
  /\ tries' = [tries EXCEPT ![c] = 0]
  /\ UNCHANGED <<stop, pending, pid, live, writers, runVars, stage, arg, stopVars>>

\* Mutant: attempts that are not counted.
LockBusyForever(c) ==
  /\ pc[c] = "lock"
  /\ lock # None
  /\ UNCHANGED vars

LockBusy(c) ==
  /\ pc[c] = "lock"
  /\ lock # None
  /\ tries[c] < LockTries
  /\ tries' = [tries EXCEPT ![c] = @ + 1]
  /\ UNCHANGED <<files, runVars, pc, stage, arg, stopVars>>

\* Mutant: a lock that stays busy is taken for stale and taken over.
LockGivenUpSteals(c) ==
  /\ tries[c] = LockTries
  /\ GoClient(c, "lock", "reload")
  /\ lock' = c
  /\ UNCHANGED <<stop, pending, pid, live, writers, runVars, stage, arg, tries, stopVars>>

\* "Live refresh already in progress": the cached card is returned instead.
LockGivenUp(c) ==
  /\ tries[c] = LockTries
  /\ Return(c, "lock")
  /\ UNCHANGED <<files, runVars, stopVars>>

\* Under the lock the state is read again by load_live_run.  Without one the tick
\* leaves the lock.
Reload(c) ==
  /\ Move(c, "reload", IF live = None THEN "unlock" ELSE "reload_open")
  /\ UNCHANGED <<files, runVars, stopVars>>

\* Mutant: the state is read again under the lock, the gate is not.
ReloadOnly(c) ==
  /\ IF live \in {None, Torn}
     THEN Move(c, "reload_open", "reload_unlink")
     ELSE /\ GoClient(c, "reload_open", "compute")
          /\ stage' = [stage EXCEPT ![c] = "locked"]
          /\ arg' = [arg EXCEPT ![c] = live]
          /\ UNCHANGED tries
  /\ UNCHANGED <<files, runVars, stopVars>>

\* With the state that it has read it passes the gate again.
ReloadOpen(c) ==
  /\ IF live \in {None, Torn}
     THEN Move(c, "reload_open", "reload_unlink")
     ELSE /\ GoClient(c, "reload_open", "gate")
          /\ stage' = [stage EXCEPT ![c] = "locked"]
          /\ arg' = [arg EXCEPT ![c] = live]
          /\ UNCHANGED tries
  /\ UNCHANGED <<files, runVars, stopVars>>

ReloadUnlink(c) ==
  /\ Move(c, "reload_unlink", "unlock")
  /\ UnlinkLive
  /\ UNCHANGED <<stop, pending, pid, lock, runVars, stopVars>>

\* Candles, fixed-params back-test and dashboard; an exception skips the save.
Compute(c) ==
  /\ Move(c, "compute", "save_open") \/ Move(c, "compute", "unlock")
  /\ UNCHANGED <<files, runVars, stopVars>>

\* save_live_run, write_text: open truncates the file, or creates it...
SaveOpen(c) ==
  /\ Move(c, "save_open", "save_write")
  /\ live' = Torn
  /\ writers' = writers \cup {c}
  /\ UNCHANGED <<stop, pending, pid, lock, runVars, stopVars>>

\* ... and close writes it, unless the file was unlinked meanwhile.  A start
\* then makes its forced tick, a tick leaves the lock.
SaveWrite(c) ==
  /\ GoClient(c, "save_write", IF stage[c] = "start" THEN "gate" ELSE "unlock")
  /\ live' = IF c \in writers THEN arg[c] ELSE live
  /\ writers' = writers \ {c}
  /\ stage' = [stage EXCEPT ![c] = IF @ = "start" THEN "forced" ELSE @]
  /\ UNCHANGED <<stop, pending, pid, lock, runVars, arg, tries, stopVars>>

\* clear_live_run; under the lock the finally clause is still to come.
ClearLive(c) ==
  /\ Move(c, "clear_live", "clear_lock")
  /\ UnlinkLive
  /\ UNCHANGED <<stop, pending, pid, lock, runVars, stopVars>>

ClearLock(c) ==
  /\ IF stage[c] = "locked" THEN Move(c, "clear_lock", "unlock")
                            ELSE Return(c, "clear_lock")
  /\ lock' = None
  /\ UNCHANGED <<stop, pending, pid, live, writers, runVars, stopVars>>

\* The finally clause of the tick: the lock is unlinked, whoever created it.
Unlock(c) ==
  /\ Return(c, "unlock")
  /\ lock' = None
  /\ Forget(c)
  /\ UNCHANGED <<stop, pending, pid, live, writers, run, todo, asked, stopVars>>

\* The process dies; the files stay as they are.
ClientDies(c) ==
  /\ AllowCrashes
  /\ pc[c] # "idle"
  /\ Idle(c)
  /\ writers' = writers \ {c}
  /\ Forget(c)
  /\ UNCHANGED <<stop, pending, pid, live, lock, run, todo, asked, stopVars>>

ClientStep(c) ==
  \/ GatePending(c) \/ GatePid(c) \/ GateUnlink(c)
  \/ Load(c) \/ LoadOpen(c) \/ LoadUnlink(c)
  \/ Acquire(c) \/ LockBusy(c) \/ LockGivenUp(c)
  \/ Reload(c) \/ ReloadOpen(c) \/ ReloadUnlink(c)
  \/ Compute(c) \/ SaveOpen(c) \/ SaveWrite(c)
  \/ ClearLive(c) \/ ClearLock(c) \/ Unlock(c)

-----------------------------------------------------------------------------

Next ==
  \/ \E r \in Runs : Request(r) \/ RunStep(r) \/ RunDies(r)
  \/ \E c \in Clients : ClientStep(c) \/ ClientDies(c)
  \/ \E c \in Clients, command \in Commands, s \in Strategies : Call(c, command, s)
  \/ StopWrite \/ StopStep

Spec == Init /\ [][Next]_vars

\* Every process that was started keeps being scheduled; nobody has to press a
\* button, and nobody has to die.
Fairness ==
  /\ \A r \in Runs : WF_vars(RunStep(r))
  /\ \A c \in Clients : WF_vars(ClientStep(c))
  /\ WF_vars(StopStep)

FairSpec == Spec /\ Fairness

-----------------------------------------------------------------------------
(* What holds.                                                             *)

\* PendingCoversRun: from the end of prepare-bootstrap to the finally clause of
\* the run, backtest.pending is there, so that every is_backtest_active says so,
\* in the seconds before the pid is written as well.
PendingCoversRun == \A r \in Runs : Marked(r) => pending

\* PidNamesTheRun: while a run works, backtest.pid names no other process, so
\* that the stop route never signals the pid an earlier run has left behind.
\* (It may be gone: a reader that took an earlier pid for stale unlinks it late.)
PidNamesTheRun == \A r \in Runs : Working(r) => pid \in {r, None}

\* NoLateRefresh: a back-test is joined by no new Live refresh: each one that
\* computes beside it had passed its last check before the run was marked
\* pending.  That check is the second is_backtest_active, under the lock: a tick
\* may have waited for the lock since the first.
NoLateRefresh ==
  \A r \in Runs : Marked(r) => {c \in Clients : Refreshing(c)} \subseteq inflight[r]

\* NoWorkAfterStop: a run that was past its clear_stop_request when a stop was
\* requested begins no other strategy, even if the signal never reaches it: no
\* other process takes the stop file away from it.
NoWorkAfterStop ==
  [][\A r \in Runs : run[r] = "loop" /\ run'[r] = "work" => asked[r] # "heard"]_vars

\* AtMostOneTick: two refreshes are never inside the locked section together.
AtMostOneTick ==
  \A c, d \in Clients : InSection(c) /\ InSection(d) => c = d

\* CommandsReturn: every live-run command returns, whatever became of the
\* process that holds the tick lock.
CommandsReturn == \A c \in Clients : pc[c] # "idle" ~> pc[c] = "idle"

\* GateReopens: a run that is left alone comes to an end, and then the files no
\* longer keep the Live refresh out.
GateReopens ==
  \A r \in Runs : run[r] = "prep_live" ~>
    run[r] = "dead" \/ (run[r] = "done" /\ ~pending /\ pid = None)

-----------------------------------------------------------------------------
(* What the documentation says and the code does not do.                   *)

\* LiveAutoStops: docs/api_description.md says Live "Auto-stops when bootstrap
\* starts": no tick ends while a run works with its strategy still, or again, in
\* live-run.json.
LiveAutoStops ==
  \A r \in Runs, c \in Clients :
    Working(r) /\ stage[c] = "locked" /\ pc[c] = "unlock" => live # arg[c]

=============================================================================
