-------------------------- MODULE RunControl_proofs --------------------------
(***************************************************************************)
(* Theorems about RunControl, for any number of runs, clients, strategies  *)
(* and attempts.                                                           *)
(***************************************************************************)
EXTENDS RunControl, TLAPS

\* The steps that share a shape; the proofs expand them together.
USE DEF files, runVars, liveVars, stopVars

-----------------------------------------------------------------------------
(* Type correctness.                                                       *)

LEMMA InitType == ASSUME Init PROVE TypeOK
<1> SUFFICES ASSUME Init PROVE TypeOK
  OBVIOUS
<1>1. Enabled \in 0..Enabled /\ 0 \in 0..LockTries
  BY RunControlAssumption
<1>2. /\ run \in [Runs -> RunPcs]
      /\ pc \in [Clients -> ClientPcs]
      /\ stage \in [Clients -> Stages]
  BY DEF Init, RunPcs, ClientPcs, Stages
<1>3. /\ todo \in [Runs -> 0..Enabled]
      /\ tries \in [Clients -> 0..LockTries]
  BY <1>1 DEF Init
<1>4. /\ arg \in [Clients -> Strategies \cup {None}]
      /\ asked \in [Runs -> {"no", "early", "heard"}]
      /\ inflight \in [Runs -> SUBSET Clients]
  BY DEF Init
<1>5. stop \in BOOLEAN /\ pending \in BOOLEAN
  BY DEF Init
<1> QED
  BY <1>2, <1>3, <1>4, <1>5 DEF Init, TypeOK

\* Typing of the locals a client keeps.
LEMMA MoveType ==
  ASSUME TypeOK, NEW c \in Clients, NEW from, NEW to \in ClientPcs, Move(c, from, to)
  PROVE  /\ pc' \in [Clients -> ClientPcs]
         /\ stage' \in [Clients -> Stages]
         /\ arg' \in [Clients -> Strategies \cup {None}]
         /\ tries' \in [Clients -> 0..LockTries]
  BY DEF TypeOK, Move, GoClient

LEMMA ReturnType ==
  ASSUME TypeOK, NEW c \in Clients, Idle(c)
  PROVE  /\ pc' \in [Clients -> ClientPcs]
         /\ stage' \in [Clients -> Stages]
         /\ arg' \in [Clients -> Strategies \cup {None}]
         /\ tries' \in [Clients -> 0..LockTries]
  BY RunControlAssumption DEF TypeOK, Idle, ClientPcs, Stages

LEMMA RunStepType ==
  ASSUME TypeOK, NEW r \in Runs, RunStep(r)
  PROVE  TypeOK'
<1>1. CASE RunClearLive(r)
  BY <1>1 DEF RunClearLive, TypeOK, GoRun, UnlinkLive, RunPcs
<1>2. CASE RunClearLock(r)
  BY <1>2 DEF RunClearLock, TypeOK, GoRun, RunPcs
<1>3. CASE PrepareMark(r)
  BY <1>3 DEF PrepareMark, TypeOK, GoRun, RunPcs
<1>4. CASE Spawn(r)
  BY <1>4 DEF Spawn, TypeOK, GoRun, RunPcs
<1>5. CASE BootMark(r)
  BY <1>5 DEF BootMark, TypeOK, GoRun, RunPcs
<1>6. CASE BootClearStop(r)
  BY <1>6 DEF BootClearStop, TypeOK, GoRun, RunPcs
<1>7. CASE BootWritePid(r)
  BY <1>7 DEF BootWritePid, TypeOK, GoRun, RunPcs
<1>8. CASE LoadCandles(r)
  BY <1>8 DEF LoadCandles, TypeOK, GoRun, RunPcs
<1>9. CASE LoopTop(r)
  <2>1. run' \in [Runs -> RunPcs]
    BY <1>9 DEF LoopTop, TypeOK, GoRun, RunPcs
  <2>2. todo' \in [Runs -> 0..Enabled]
    <3>1. CASE todo[r] > 0 /\ todo' = [todo EXCEPT ![r] = @ - 1]
      BY <3>1, RunControlAssumption DEF TypeOK
    <3>2. CASE UNCHANGED todo
      BY <3>2 DEF TypeOK
    <3> QED BY <1>9, <3>1, <3>2 DEF LoopTop
  <2> QED BY <1>9, <2>1, <2>2 DEF LoopTop, TypeOK
<1>10. CASE WorkEnds(r)
  BY <1>10 DEF WorkEnds, TypeOK, GoRun, RunPcs
<1>11. CASE FinallyPid(r)
  BY <1>11 DEF FinallyPid, TypeOK, GoRun, RunPcs
<1>12. CASE FinallyPending(r)
  BY <1>12 DEF FinallyPending, TypeOK, GoRun, RunPcs
<1>13. CASE FinallyStop(r)
  BY <1>13 DEF FinallyStop, TypeOK, GoRun, RunPcs
<1> QED
  BY <1>1, <1>2, <1>3, <1>4, <1>5, <1>6, <1>7, <1>8, <1>9, <1>10, <1>11, <1>12,
     <1>13 DEF RunStep

\* Whatever load_live_run finds, its caller goes to one of its own steps.
LEMMA FoundType ==
  ASSUME TypeOK, NEW c \in Clients, NEW at, NEW found, Found(c, at, found)
  PROVE  /\ pc' \in [Clients -> ClientPcs]
         /\ stage' \in [Clients -> Stages]
         /\ arg' \in [Clients -> Strategies \cup {None}]
         /\ tries' \in [Clients -> 0..LockTries]
<1>1. \/ \E to \in {"save_open", "lock", "clear_live"} : Move(c, at, to)
      \/ Return(c, at)
  BY DEF Found, FoundForStart, FoundForTick, FoundForStatus, FoundForStop
<1> QED BY <1>1, MoveType, ReturnType DEF Return, ClientPcs

\* Whatever is_backtest_active answers, its caller goes to one of its own steps.
LEMMA GateType ==
  ASSUME TypeOK, NEW c \in Clients, NEW at, Blocked(c, at) \/ Passed(c, at)
  PROVE  /\ pc' \in [Clients -> ClientPcs]
         /\ stage' \in [Clients -> Stages]
         /\ arg' \in [Clients -> Strategies \cup {None}]
         /\ tries' \in [Clients -> 0..LockTries]
<1>1. CASE Blocked(c, at)
  <2>1. CASE stage[c] = "start"
    BY <1>1, <2>1, ReturnType DEF Blocked, Return
  <2>2. CASE stage[c] # "start"
    BY <1>1, <2>2, MoveType DEF Blocked, ClientPcs
  <2> QED BY <2>1, <2>2
<1>2. CASE Passed(c, at)
  BY <1>2, MoveType DEF Passed, ClientPcs
<1> QED BY <1>1, <1>2

LEMMA ClientStepType ==
  ASSUME TypeOK, NEW c \in Clients, ClientStep(c)
  PROVE  TypeOK'
<1>1. CASE GatePending(c)
  <2>1. Move(c, "gate", "gate_pid") \/ Blocked(c, "gate")
    BY <1>1 DEF GatePending
  <2> QED BY <1>1, <2>1, MoveType, GateType DEF GatePending, TypeOK, ClientPcs
<1>2. CASE GatePid(c)
  <2>1. \/ Passed(c, "gate_pid") \/ Blocked(c, "gate_pid")
        \/ Move(c, "gate_pid", "gate_unlink")
    BY <1>2 DEF GatePid
  <2> QED BY <1>2, <2>1, MoveType, GateType DEF GatePid, TypeOK, ClientPcs
<1>3. CASE GateUnlink(c)
  BY <1>3, GateType DEF GateUnlink, TypeOK
<1>4. CASE Load(c) \/ LoadOpen(c)
  <2>1. /\ \/ \E found : Found(c, "load", found) \/ Found(c, "load_open", found)
           \/ Move(c, "load", "load_open") \/ Move(c, "load_open", "load_unlink")
        /\ UNCHANGED <<files, runVars, stopVars>>
    BY <1>4 DEF Load, LoadOpen
  <2> QED BY <2>1, MoveType, FoundType DEF TypeOK, ClientPcs
<1>5. CASE LoadUnlink(c)
  BY <1>5, FoundType DEF LoadUnlink, UnlinkLive, TypeOK
<1>6. CASE Acquire(c)
  BY <1>6, RunControlAssumption DEF Acquire, GoClient, TypeOK, ClientPcs
<1>7. CASE LockBusy(c)
  <2>1. tries[c] \in 0..LockTries /\ tries[c] + 1 \in 0..LockTries
    BY <1>7, RunControlAssumption DEF LockBusy, TypeOK
  <2> QED BY <1>7, <2>1 DEF LockBusy, TypeOK
<1>8. CASE LockGivenUp(c)
  BY <1>8, ReturnType DEF LockGivenUp, Return, TypeOK
<1>9. CASE Reload(c)
  BY <1>9, MoveType DEF Reload, ClientPcs, TypeOK
<1>10. CASE ReloadOpen(c)
  <2>1. CASE live \in {None, Torn}
    BY <1>10, <2>1, MoveType DEF ReloadOpen, ClientPcs, TypeOK
  <2>2. CASE live \notin {None, Torn}
    <3>1. live \in Strategies
      BY <2>2 DEF TypeOK
    <3> QED BY <1>10, <2>2, <3>1 DEF ReloadOpen, GoClient, ClientPcs, Stages, TypeOK
  <2> QED BY <2>1, <2>2
<1>11. CASE ReloadUnlink(c)
  BY <1>11, MoveType DEF ReloadUnlink, UnlinkLive, ClientPcs, TypeOK
<1>12. CASE Compute(c)
  BY <1>12, MoveType DEF Compute, ClientPcs, TypeOK
<1>13. CASE SaveOpen(c)
  BY <1>13, MoveType DEF SaveOpen, ClientPcs, TypeOK
<1>14. CASE SaveWrite(c)
  BY <1>14 DEF SaveWrite, GoClient, ClientPcs, Stages, TypeOK
<1>15. CASE ClearLive(c)
  BY <1>15, MoveType DEF ClearLive, UnlinkLive, ClientPcs, TypeOK
<1>16. CASE ClearLock(c)
  <2>1. Move(c, "clear_lock", "unlock") \/ Return(c, "clear_lock")
    BY <1>16 DEF ClearLock
  <2> QED BY <1>16, <2>1, MoveType, ReturnType DEF ClearLock, Return, ClientPcs, TypeOK
<1>17. CASE Unlock(c)
  BY <1>17, ReturnType DEF Unlock, Return, Forget, TypeOK
<1> QED
  BY <1>1, <1>2, <1>3, <1>4, <1>5, <1>6, <1>7, <1>8, <1>9, <1>10, <1>11, <1>12,
     <1>13, <1>14, <1>15, <1>16, <1>17 DEF ClientStep

LEMMA CallType ==
  ASSUME TypeOK, NEW c \in Clients, NEW command \in Commands, NEW s \in Strategies,
         Call(c, command, s)
  PROVE  TypeOK'
  BY RunControlAssumption DEF Call, GoClient, ClientPcs, Stages, TypeOK

LEMMA StopType ==
  ASSUME TypeOK, StopWrite \/ StopStep
  PROVE  TypeOK'
<1>1. CASE StopWrite
  BY <1>1 DEF StopWrite, TypeOK
<1>2. CASE StopReadPid
  BY <1>2 DEF StopReadPid, TypeOK
<1>3. CASE StopKill
  BY <1>3 DEF StopKill, TypeOK, RunPcs
<1> QED BY <1>1, <1>2, <1>3 DEF StopStep

LEMMA NextType == TypeOK /\ [Next]_vars => TypeOK'
<1> SUFFICES ASSUME TypeOK, [Next]_vars PROVE TypeOK'
  OBVIOUS
<1>1. ASSUME NEW r \in Runs, Request(r) PROVE TypeOK'
  BY <1>1 DEF Request, GoRun, TypeOK, RunPcs
<1>2. ASSUME NEW r \in Runs, RunDies(r) PROVE TypeOK'
  BY <1>2 DEF RunDies, TypeOK, RunPcs
<1>3. ASSUME NEW c \in Clients, ClientDies(c) PROVE TypeOK'
  BY <1>3, ReturnType DEF ClientDies, Forget, TypeOK
<1>4. CASE UNCHANGED vars
  BY <1>4 DEF vars, TypeOK
<1> QED
  BY <1>1, <1>2, <1>3, <1>4, RunStepType, ClientStepType, CallType, StopType DEF Next

\* TypeCorrect: the coordination files and the locals of every process keep
\* their types.
THEOREM TypeCorrect == Spec => []TypeOK
<1>1. QED
  BY InitType, NextType, PTL DEF Spec

-----------------------------------------------------------------------------
(* What a run may count on, when it is not requested before the previous   *)
(* one ended (AllowOverlap = FALSE).                                       *)

\* At most one run has been requested and has not ended.
Solo == \A r, q \in Runs : run[r] \notin Ended /\ run[q] \notin Ended => r = q

\* A stop is heard after clear_stop_request only, and its file is left alone
\* as long as the run works.
HeardIsOnFile ==
  \A r \in Runs : asked[r] = "heard" =>
    /\ Working(r) \/ run[r] \in {"fin_pid", "fin_pending", "fin_stop", "done", "dead"}
    /\ Working(r) => stop

RunInv ==
  /\ TypeOK
  /\ Solo
  /\ PendingCoversRun
  /\ PidNamesTheRun
  /\ NoLateRefresh
  /\ HeardIsOnFile

LEMMA InitRun == Init => RunInv
<1> SUFFICES ASSUME Init PROVE RunInv
  OBVIOUS
<1>1. \A r \in Runs : run[r] = "off" /\ asked[r] = "no"
  BY DEF Init
<1> QED
  BY <1>1, InitType DEF RunInv, Solo, PendingCoversRun, PidNamesTheRun, NoLateRefresh,
     HeardIsOnFile, Marked, Working, Ended

\* The run with the step is the only one that has not ended.
LEMMA StepIsSolo ==
  ASSUME TypeOK, Solo, NEW r \in Runs, run[r] \notin Ended,
         NEW q \in Runs, q # r
  PROVE  ~Marked(q) /\ ~Working(q) /\ run[q] \in Ended
  BY DEF Solo, Marked, Working, Ended

LEMMA RunStepRun ==
  ASSUME RunInv, NEW r \in Runs, RunStep(r)
  PROVE  RunInv'
<1> USE DEF RunInv
<1>1. TypeOK'
  BY RunStepType
<1>2. run[r] \notin Ended /\ \E to \in RunPcs : run' = [run EXCEPT ![r] = to]
  BY DEF RunStep, RunClearLive, RunClearLock, PrepareMark, Spawn, BootMark,
     BootClearStop, BootWritePid, LoadCandles, LoopTop, WorkEnds, FinallyPid,
     FinallyPending, FinallyStop, GoRun, Ended, RunPcs
<1>3. \A q \in Runs \ {r} : ~Marked(q) /\ ~Working(q) /\ run[q] \in Ended
                            /\ run'[q] = run[q]
  BY <1>2, StepIsSolo DEF TypeOK
<1>4. \A q \in Runs \ {r} : ~Marked(q)' /\ ~Working(q)' /\ run'[q] \in Ended
  BY <1>3 DEF Marked, Working
<1>5. Solo'
  BY <1>4 DEF Solo
<1>6. PendingCoversRun'
  BY <1>4 DEF PendingCoversRun, TypeOK, Marked, RunStep, RunClearLive, RunClearLock,
     PrepareMark, Spawn, BootMark, BootClearStop, BootWritePid, LoadCandles, LoopTop,
     WorkEnds, FinallyPid, FinallyPending, FinallyStop, GoRun
<1>7. PidNamesTheRun'
  BY <1>4 DEF PidNamesTheRun, TypeOK, Working, RunStep, RunClearLive, RunClearLock,
     PrepareMark, Spawn, BootMark, BootClearStop, BootWritePid, LoadCandles, LoopTop,
     WorkEnds, FinallyPid, FinallyPending, FinallyStop, GoRun
<1>8. NoLateRefresh'
  <2>1. UNCHANGED <<pc, stage>>
    BY DEF RunStep, RunClearLive, RunClearLock, PrepareMark, Spawn, BootMark,
       BootClearStop, BootWritePid, LoadCandles, LoopTop, WorkEnds, FinallyPid,
       FinallyPending, FinallyStop
  <2>2. {c \in Clients : Refreshing(c)}' = {c \in Clients : Refreshing(c)}
    BY <2>1 DEF Refreshing
  <2>3. CASE PrepareMark(r)
    BY <1>4, <2>2, <2>3 DEF PrepareMark, NoLateRefresh, TypeOK
  <2>4. CASE ~PrepareMark(r)
    <3>1. UNCHANGED inflight /\ (Marked(r)' => Marked(r))
      BY <2>4 DEF TypeOK, Marked, RunStep, RunClearLive, RunClearLock, Spawn, BootMark,
         BootClearStop, BootWritePid, LoadCandles, LoopTop, WorkEnds, FinallyPid,
         FinallyPending, FinallyStop, GoRun
    <3> QED BY <1>4, <2>2, <3>1 DEF NoLateRefresh
  <2> QED BY <2>3, <2>4
<1>9. HeardIsOnFile'
  BY <1>3, <1>4 DEF HeardIsOnFile, TypeOK, Working, Ended, RunStep, RunClearLive,
     RunClearLock, PrepareMark, Spawn, BootMark, BootClearStop, BootWritePid,
     LoadCandles, LoopTop, WorkEnds, FinallyPid, FinallyPending, FinallyStop, GoRun
<1> QED
  BY <1>1, <1>5, <1>6, <1>7, <1>8, <1>9

\* A run that is requested, dies or is killed marks nothing.
LEMMA RunEndsRun ==
  ASSUME RunInv, TypeOK',
         UNCHANGED <<stop, pending, pid, asked, inflight, pc, stage>>,
         \A q \in Runs : run'[q] \in {run[q], "dead"}
  PROVE  RunInv'
<1> USE DEF RunInv
<1>1. \A q \in Runs : /\ Marked(q)' => Marked(q)
                      /\ Working(q)' => Working(q)
                      /\ run'[q] \notin Ended => run[q] \notin Ended
  BY DEF Marked, Working, Ended
<1>2. \A c \in Clients : Refreshing(c)' <=> Refreshing(c)
  BY DEF Refreshing
<1>3. Solo'
  BY <1>1 DEF Solo
<1>4. PendingCoversRun' /\ PidNamesTheRun'
  BY <1>1 DEF PendingCoversRun, PidNamesTheRun
<1>5. NoLateRefresh'
  BY <1>1, <1>2 DEF NoLateRefresh
<1>6. HeardIsOnFile'
  BY <1>1 DEF HeardIsOnFile, Working
<1> QED
  BY <1>3, <1>4, <1>5, <1>6

\* No step of a client touches a run, its stop file or its mark; at most it
\* unlinks the pid file.
LEMMA ClientLeavesRuns ==
  ASSUME NEW c \in Clients, ClientStep(c) \/ ClientDies(c)
  PROVE  /\ UNCHANGED <<stop, pending, run, asked>>
         /\ pid' \in {pid, None}
  BY DEF ClientStep, ClientDies, GatePending, GatePid, GateUnlink, Load, LoadOpen,
     LoadUnlink, Acquire, LockBusy, LockGivenUp, Reload, ReloadOpen, ReloadUnlink,
     Compute, SaveOpen, SaveWrite, ClearLive, ClearLock, Unlock

\* The second is_backtest_active is the only way into a refresh, and the
\* pending file closes it.
LEMMA RefreshStarts ==
  ASSUME TypeOK, NEW c \in Clients, ClientStep(c), pending,
         NEW d \in Clients, Refreshing(d)'
  PROVE  Refreshing(d)
<1>1. CASE c # d
  BY <1>1 DEF Refreshing, TypeOK, ClientStep, GatePending, GatePid, GateUnlink, Load,
     LoadOpen, LoadUnlink, Found, FoundForStart, FoundForTick, FoundForStatus,
     FoundForStop, Acquire, LockBusy, LockGivenUp, Reload, ReloadOpen, ReloadUnlink, Compute, SaveOpen, SaveWrite, ClearLive, ClearLock, Unlock,
     Blocked, Passed, Move, GoClient, Return, Idle
<1>2. CASE c = d
  <2>1. stage'[c] = "locked"
        /\ pc'[c] \in {"gate_pid", "gate_unlink", "compute", "save_open", "save_write"}
    BY <1>2 DEF Refreshing
  <2>2. ~Idle(c)
    BY <2>1 DEF Idle, TypeOK
  <2>3. ~GatePending(c) /\ ~Acquire(c) /\ ~ClearLive(c)
        /\ ~ClearLock(c) /\ ~Unlock(c) /\ ~LockBusy(c) /\ ~LockGivenUp(c)
    BY <2>1, <2>2 DEF GatePending, Acquire, ClearLive, ClearLock, Unlock, LockBusy,
       LockGivenUp, Blocked, Move, GoClient, Return, TypeOK
  <2>6. ~Load(c) /\ ~LoadOpen(c) /\ ~LoadUnlink(c)
    BY <2>1, <2>2 DEF Load, LoadOpen, LoadUnlink, Found, FoundForStart, FoundForTick,
       FoundForStatus, FoundForStop, Move, GoClient, Return, TypeOK
  <2>7. ~Reload(c) /\ ~ReloadOpen(c) /\ ~ReloadUnlink(c)
    BY <2>1, <2>2 DEF Reload, ReloadOpen, ReloadUnlink, Move, GoClient, TypeOK
  <2>4. CASE GatePid(c) \/ GateUnlink(c)
    BY <1>2, <2>1, <2>2, <2>4 DEF GatePid, GateUnlink, Blocked, Passed, Move, GoClient,
       Return, Refreshing, TypeOK
  <2>5. CASE Compute(c) \/ SaveOpen(c) \/ SaveWrite(c)
    BY <1>2, <2>1, <2>5 DEF Compute, SaveOpen, SaveWrite, Move, GoClient, Refreshing,
       TypeOK
  <2> QED BY <2>3, <2>4, <2>5, <2>6, <2>7 DEF ClientStep
<1> QED BY <1>1, <1>2

\* A refresh that is forgotten is not under way.
LEMMA ForgetsOnlyEnded ==
  ASSUME TypeOK, NEW c \in Clients, ClientStep(c) \/ ClientDies(c),
         NEW r \in Runs, NEW d \in inflight[r], d \notin inflight'[r]
  PROVE  ~Refreshing(d)'
<1>1. CASE Unlock(c) \/ ClientDies(c)
  BY <1>1 DEF Unlock, ClientDies, Forget, Return, Idle, Refreshing, TypeOK
<1>2. CASE ~Unlock(c) /\ ~ClientDies(c)
  BY <1>2 DEF ClientStep, GatePending, GatePid, GateUnlink, Load, LoadOpen, LoadUnlink,
     Acquire, LockBusy, LockGivenUp, Reload, ReloadOpen, ReloadUnlink, Compute, SaveOpen, SaveWrite, ClearLive, ClearLock
<1> QED BY <1>1, <1>2

LEMMA ClientStepRun ==
  ASSUME RunInv, TypeOK', NEW c \in Clients, ClientStep(c) \/ ClientDies(c)
  PROVE  RunInv'
<1> USE DEF RunInv
<1>1. UNCHANGED <<stop, pending, run, asked>> /\ pid' \in {pid, None}
  BY ClientLeavesRuns
<1>2. Solo' /\ PendingCoversRun' /\ PidNamesTheRun' /\ HeardIsOnFile'
  BY <1>1 DEF Solo, PendingCoversRun, PidNamesTheRun, HeardIsOnFile, Marked, Working
<1>3. NoLateRefresh'
  <2> SUFFICES ASSUME NEW r \in Runs, Marked(r), NEW d \in Clients, Refreshing(d)'
               PROVE  d \in inflight'[r]
    BY <1>1 DEF NoLateRefresh, Marked
  <2>1. pending
    BY DEF PendingCoversRun
  <2>2. Refreshing(d)
    <3>1. CASE ClientStep(c)
      BY <2>1, <3>1, RefreshStarts
    <3>2. CASE ClientDies(c)
      BY <3>2 DEF ClientDies, Idle, Refreshing, TypeOK
    <3> QED BY <3>1, <3>2
  <2> QED BY <2>2, ForgetsOnlyEnded DEF NoLateRefresh
<1> QED BY <1>2, <1>3

LEMMA CallRun ==
  ASSUME RunInv, TypeOK', NEW c \in Clients, NEW command \in Commands,
         NEW s \in Strategies, Call(c, command, s)
  PROVE  RunInv'
<1>1. UNCHANGED <<stop, pending, pid, run, asked, inflight>>
  BY DEF Call
<1>2. \A d \in Clients : Refreshing(d)' => Refreshing(d)
  BY RunControlAssumption DEF RunInv, TypeOK, Call, GoClient, Refreshing
<1> QED
  BY <1>1, <1>2 DEF RunInv, Solo, PendingCoversRun, PidNamesTheRun, NoLateRefresh,
     HeardIsOnFile, Marked, Working

\* The stop route itself: its write is heard by the runs that work.
LEMMA StopRun ==
  ASSUME RunInv, TypeOK', StopWrite \/ StopStep
  PROVE  RunInv'
<1>1. CASE StopWrite
  <2>1. \A c \in Clients : Refreshing(c)' <=> Refreshing(c)
    BY <1>1 DEF StopWrite, Refreshing
  <2>2. HeardIsOnFile'
    BY <1>1 DEF StopWrite, RunInv, HeardIsOnFile, Working
  <2> QED
    BY <1>1, <2>1, <2>2 DEF StopWrite, RunInv, Solo, PendingCoversRun, PidNamesTheRun,
       NoLateRefresh, Marked, Working
<1>2. CASE StopReadPid
  BY <1>2, RunEndsRun DEF StopReadPid, RunInv, TypeOK
<1>3. CASE StopKill
  BY <1>3, RunEndsRun DEF StopKill, RunInv, TypeOK
<1> QED BY <1>1, <1>2, <1>3 DEF StopStep

LEMMA NextRun ==
  ASSUME AllowOverlap = FALSE
  PROVE  RunInv /\ [Next]_vars => RunInv'
<1> SUFFICES ASSUME RunInv, [Next]_vars PROVE RunInv'
  OBVIOUS
<1>1. TypeOK'
  BY NextType DEF RunInv
<1>2. ASSUME NEW r \in Runs, Request(r) PROVE RunInv'
  <2>1. /\ \A q \in Runs : run[q] \in Ended
        /\ run' = [run EXCEPT ![r] = "prep_live"]
        /\ UNCHANGED <<stop, pending, pid, asked, inflight, pc, stage>>
        /\ run[r] = "off"
    BY <1>2 DEF Request, GoRun
  <2>2. \A q \in Runs : ~Marked(q)' /\ ~Working(q)' /\ (q # r => run'[q] \in Ended)
    BY <2>1 DEF RunInv, TypeOK, Marked, Working, Ended
  <2>3. Solo' /\ PendingCoversRun' /\ PidNamesTheRun' /\ NoLateRefresh'
    BY <2>2 DEF Solo, PendingCoversRun, PidNamesTheRun, NoLateRefresh
  <2>4. HeardIsOnFile'
    BY <2>1, <2>2 DEF RunInv, HeardIsOnFile, TypeOK, Working
  <2> QED BY <1>1, <2>3, <2>4 DEF RunInv
<1>3. ASSUME NEW r \in Runs, RunDies(r) PROVE RunInv'
  BY <1>1, <1>3, RunEndsRun DEF RunDies, RunInv, TypeOK
<1>4. CASE UNCHANGED vars
  BY <1>1, <1>4, RunEndsRun DEF vars
<1> QED
  BY <1>1, <1>2, <1>3, <1>4, RunStepRun, ClientStepRun, CallRun, StopRun DEF Next

\* RunsAreCovered: unless a run is requested before the previous one ended, the
\* pending file is there for as long as a run is marked, the pid file names no
\* other process while it works, and no Live refresh begins beside it.
THEOREM RunsAreCovered ==
  ASSUME AllowOverlap = FALSE
  PROVE  Spec => [](PendingCoversRun /\ PidNamesTheRun /\ NoLateRefresh)
<1>1. RunInv => PendingCoversRun /\ PidNamesTheRun /\ NoLateRefresh
  BY DEF RunInv
<1>2. QED
  BY <1>1, InitRun, NextRun, PTL DEF Spec

\* HeardStopsEndRuns: under the same condition, a run that was past its
\* clear_stop_request when a stop was requested begins no other strategy.
THEOREM HeardStopsEndRuns ==
  ASSUME AllowOverlap = FALSE
  PROVE  Spec => NoWorkAfterStop
<1>1. ASSUME RunInv, [Next]_vars, NEW r \in Runs, run[r] = "loop", run'[r] = "work"
      PROVE  asked[r] # "heard"
  <2>1. CASE \E q \in Runs : RunStep(q)
    <3>1. LoopTop(r)
      BY <1>1, <2>1 DEF RunInv, TypeOK, RunStep, RunClearLive, RunClearLock, PrepareMark,
         Spawn, BootMark, BootClearStop, BootWritePid, LoadCandles, LoopTop, WorkEnds,
         FinallyPid, FinallyPending, FinallyStop, GoRun
    <3>2. ~stop
      BY <1>1, <3>1 DEF LoopTop, GoRun, RunInv, TypeOK
    <3> QED BY <1>1, <3>2 DEF RunInv, HeardIsOnFile, Working
  <2>2. CASE \E q \in Runs : Request(q) \/ RunDies(q)
    BY <1>1, <2>2 DEF Request, GoRun, RunDies, RunInv, TypeOK
  <2>3. CASE \E c \in Clients : ClientStep(c) \/ ClientDies(c)
    BY <1>1, <2>3, ClientLeavesRuns
  <2>4. CASE \E c \in Clients, command \in Commands, s \in Strategies : Call(c, command, s)
    BY <1>1, <2>4 DEF Call
  <2>5. CASE StopWrite \/ StopStep
    BY <1>1, <2>5 DEF StopWrite, StopStep, StopReadPid, StopKill, RunInv, TypeOK
  <2>6. CASE UNCHANGED vars
    BY <1>1, <2>6 DEF vars
  <2> QED BY <1>1, <2>1, <2>2, <2>3, <2>4, <2>5, <2>6 DEF Next
<1>2. RunInv /\ [Next]_vars =>
        [\A r \in Runs : run[r] = "loop" /\ run'[r] = "work" => asked[r] # "heard"]_vars
  BY <1>1
<1>3. QED
  BY <1>2, InitRun, NextRun, PTL DEF Spec, NoWorkAfterStop

-----------------------------------------------------------------------------
(* The tick lock by itself: without back-tests and without the stop        *)
(* command nobody calls clear_live_run, which unlinks it for everybody.    *)

\* Where each command can be; whoever is inside the section created the lock.
TickInv ==
  /\ TypeOK
  /\ ~pending /\ pid = None
  /\ \A c \in Clients :
       /\ stage[c] # "stop"
       /\ pc[c] \notin {"clear_live", "clear_lock"}
       /\ pc[c] = "compute" => stage[c] = "locked"
       /\ pc[c] \in {"save_open", "save_write"} => stage[c] \in {"start", "locked"}
       /\ InSection(c) => lock = c

LEMMA InitTick == Init => TickInv
  BY InitType DEF Init, TickInv, InSection

\* What one client does to its own locals and to the lock.
LEMMA TickStep ==
  ASSUME TickInv, NEW c \in Clients, ClientStep(c)
  PROVE  /\ UNCHANGED <<pending, pid>>
         /\ stage'[c] # "stop"
         /\ pc'[c] \notin {"clear_live", "clear_lock"}
         /\ pc'[c] = "compute" => stage'[c] = "locked"
         /\ pc'[c] \in {"save_open", "save_write"} => stage'[c] \in {"start", "locked"}
         /\ InSection(c)' => lock' = c
         /\ lock' # lock => lock = None \/ lock = c
         /\ \A d \in Clients \ {c} : pc'[d] = pc[d] /\ stage'[d] = stage[d]
<1> USE DEF TickInv, TypeOK, InSection
<1> USE RunControlAssumption
<1>1. CASE GatePending(c) \/ GatePid(c)
  BY <1>1 DEF GatePending, GatePid, Passed, Move, GoClient
<1>2. CASE GateUnlink(c)
  BY <1>2 DEF GateUnlink, Passed, Move, GoClient
<1>3. CASE Load(c) \/ LoadOpen(c) \/ LoadUnlink(c)
  BY <1>3 DEF Load, LoadOpen, LoadUnlink, Found, FoundForStart, FoundForTick,
     FoundForStatus, FoundForStop, Move, GoClient, Return, Idle
<1>4. CASE Acquire(c)
  BY <1>4 DEF Acquire, GoClient
<1>5. CASE LockBusy(c) \/ LockGivenUp(c)
  BY <1>5 DEF LockBusy, LockGivenUp, Return, Idle
<1>6. CASE Reload(c) \/ ReloadOpen(c) \/ ReloadUnlink(c)
  BY <1>6 DEF Reload, ReloadOpen, ReloadUnlink, Move, GoClient
<1>7. CASE Compute(c) \/ SaveOpen(c)
  BY <1>7 DEF Compute, SaveOpen, Move, GoClient
<1>8. CASE SaveWrite(c)
  BY <1>8 DEF SaveWrite, GoClient
<1>9. CASE ClearLive(c) \/ ClearLock(c)
  BY <1>9 DEF ClearLive, ClearLock, Move, GoClient, Return
<1>10. CASE Unlock(c)
  BY <1>10 DEF Unlock, Return, Idle
<1> QED
  BY <1>1, <1>2, <1>3, <1>4, <1>5, <1>6, <1>7, <1>8, <1>9, <1>10 DEF ClientStep

LEMMA NextTick ==
  ASSUME Runs = {}, "stop" \notin Commands
  PROVE  TickInv /\ [Next]_vars => TickInv'
<1> SUFFICES ASSUME TickInv, [Next]_vars PROVE TickInv'
  OBVIOUS
<1>1. TypeOK'
  BY NextType DEF TickInv
<1>2. ASSUME NEW c \in Clients, ClientStep(c) PROVE TickInv'
  <2>1. ASSUME NEW d \in Clients \ {c}
        PROVE  InSection(d)' => lock' = d
    BY <1>2, <2>1, TickStep, RunControlAssumption DEF TickInv, InSection
  <2> QED BY <1>1, <1>2, <2>1, TickStep DEF TickInv
<1>3. ASSUME NEW c \in Clients, ClientDies(c) PROVE TickInv'
  BY <1>1, <1>3 DEF ClientDies, Idle, TickInv, TypeOK, InSection
<1>4. ASSUME NEW c \in Clients, NEW command \in Commands, NEW s \in Strategies,
             Call(c, command, s)
      PROVE  TickInv'
  BY <1>1, <1>4, RunControlAssumption DEF Call, GoClient, TickInv, TypeOK, InSection
<1>5. CASE StopWrite \/ StopStep
  BY <1>1, <1>5 DEF StopWrite, StopStep, StopReadPid, StopKill, TickInv, InSection
<1>6. CASE UNCHANGED vars
  BY <1>1, <1>6 DEF vars, TickInv, InSection
<1> QED BY <1>2, <1>3, <1>4, <1>5, <1>6 DEF Next

\* TicksExclude: while nobody calls clear_live_run, no two refreshes are inside
\* the section of the tick lock together, however many clients call, give up,
\* die and call again.
THEOREM TicksExclude ==
  ASSUME Runs = {}, "stop" \notin Commands
  PROVE  Spec => []AtMostOneTick
<1>1. TickInv => AtMostOneTick
  BY DEF TickInv, AtMostOneTick
<1>2. QED
  BY <1>1, InitTick, NextTick, PTL DEF Spec

=============================================================================
