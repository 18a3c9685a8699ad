------------------------ MODULE SidecarHost_proofs --------------------------
(***************************************************************************)
(* Theorems about SidecarHost, for every policy and every bound: the       *)
(* supervision and its budget first, then the processes and their handles, *)
(* what the window is told, and the end of the story once the budget is    *)
(* spent.  Last, the shell's threads, tokens and locks implement the       *)
(* restart protocol, and the window's model what the window assumes: the   *)
(* refinement mapping `phase` is read off the label of the one thread that *)
(* supervises, or, when none does, off what it left behind.                *)
(***************************************************************************)
EXTENDS SidecarHost, FiniteSetTheorems, TLAPS

-----------------------------------------------------------------------------
(***************************************************************************)
(* Type correctness: one lemma per family of actions, one step per action  *)
(***************************************************************************)

LEMMA TypeInit == Init => TypeOK
<1> SUFFICES ASSUME Init PROVE TypeOK
  OBVIOUS
<1>1. 0 \in Threads
  BY BoundAssumption DEF Threads
<1>2. Undecided \in Decisions
  BY PolicyAssumption DEF Undecided, Retry, Decisions
<1>3. ProcessTypes /\ OsTypes
  BY DEF Init, ProcessTypes, OsTypes, Lifecycle!LifecycleStates
<1>4. RestartTypes
  BY <1>1 DEF Init, RestartTypes
<1>5. StabilityTypes
  BY DEF Init, StabilityTypes, StabilityLabels
<1>6. EventTypes
  BY DEF Init, EventTypes, Lifecycle!LifecycleStates
<1>7. ExitTypes
  BY DEF Init, ExitTypes, ExitLabels
<1>8. ThreadTypes
  BY <1>2 DEF Init, ThreadTypes, Labels, Supervising,
     Lifecycle!LifecycleStates
<1> QED
  BY <1>3, <1>4, <1>5, <1>6, <1>7, <1>8 DEF TypeOK

LEMMA StartTypesKept ==
  ASSUME TypeOK, NEW t \in Threads, StartStep(t)
  PROVE  TypeOK'
<1> USE PolicyAssumption, BoundAssumption
    DEF TypeOK, ProcessTypes, OsTypes, RestartTypes, StabilityTypes,
        EventTypes, ExitTypes, ThreadTypes, processVars, osVars, restartVars,
        stabilityVars, exitVars, localVars, Lifecycle!LifecycleStates
<1>1. CASE Launch(t)
  BY <1>1 DEF Launch, Goto, Labels, Supervising, Locked, Reporting, Handling
<1>2. CASE RequestStart(t)
  BY <1>2 DEF RequestStart, Goto, Labels, Supervising, Locked, Reporting,
     Handling
<1>3. CASE Spawn(t)
  BY <1>3 DEF Spawn, Goto, Labels, Supervising, Locked, Reporting, Handling
<1>4. CASE SpawnFails(t)
  BY <1>4 DEF SpawnFails, Goto, Labels, Supervising, Locked, Reporting,
     Handling, StartReturns, SomethingFails
<1>5. CASE HandshakeRead(t)
  BY <1>5 DEF HandshakeRead, Goto, Labels, Supervising, Locked, Reporting,
     Handling
<1>6. CASE HandshakeFails(t)
  BY <1>6 DEF HandshakeFails, Goto, Labels, Supervising, Locked, Reporting,
     Handling, StartReturns, SomethingFails
<1>7. CASE Healthy(t)
  BY <1>7 DEF Healthy, Goto, Labels, Supervising, Locked, Reporting, Handling,
     StartReturns
<1>8. CASE HealthFails(t)
  BY <1>8 DEF HealthFails, Goto, Labels, Supervising, Locked, Reporting,
     Handling, StartReturns, SomethingFails
<1> QED
  BY <1>1, <1>2, <1>3, <1>4, <1>5, <1>6, <1>7, <1>8 DEF StartStep

LEMMA ReportTypesKept ==
  ASSUME TypeOK, NEW t \in Threads, ReportStep(t)
  PROVE  TypeOK'
<1> USE PolicyAssumption, BoundAssumption
    DEF TypeOK, ProcessTypes, OsTypes, RestartTypes, StabilityTypes,
        EventTypes, ExitTypes, ThreadTypes, processVars, osVars, restartVars,
        stabilityVars, exitVars, localVars, Lifecycle!LifecycleStates
<1>1. CASE EmitStarting(t)
  BY <1>1 DEF EmitStarting, Goto, Labels, Supervising, Locked, Reporting,
     Handling, EmitStateChanged
<1>2. CASE EmitOutcome(t)
  BY <1>2 DEF EmitOutcome, Goto, Labels, Supervising, Locked, Reporting,
     Handling, EmitStateChanged
<1>3. CASE BeginWindow(t)
  BY <1>3 DEF BeginWindow, Goto, Labels, Supervising, Locked, Reporting,
     Handling, SomethingFails, StabilityLabels
<1>4. CASE DropWindow(t)
  BY <1>4 DEF DropWindow, Goto, Labels, Supervising, Locked, Reporting,
     Handling, Threads
<1>5. CASE PollStops(t)
  BY <1>5 DEF PollStops, Goto, Labels, Supervising, Locked, Reporting,
     Handling
<1>6. CASE PollFindsCrash(t)
  BY <1>6 DEF PollFindsCrash, Goto, Labels, Supervising, Locked, Reporting,
     Handling
<1>7. CASE EmitCrash(t)
  BY <1>7 DEF EmitCrash, Goto, Labels, Supervising, Locked, Reporting,
     Handling, EmitStateChanged
<1> QED
  BY <1>1, <1>2, <1>3, <1>4, <1>5, <1>6, <1>7 DEF ReportStep

LEMMA HandleTypesKept ==
  ASSUME TypeOK, NEW t \in Threads, HandleStep(t)
  PROVE  TypeOK'
<1> USE PolicyAssumption, BoundAssumption
    DEF TypeOK, ProcessTypes, OsTypes, RestartTypes, StabilityTypes,
        EventTypes, ExitTypes, ThreadTypes, processVars, osVars, restartVars,
        stabilityVars, exitVars, localVars, Lifecycle!LifecycleStates
<1>1. CASE CancelWindow(t)
  BY <1>1 DEF CancelWindow, Goto, Labels, Supervising, Locked, Reporting,
     Handling, Threads
<1>2. CASE DecideRestart(t)
  BY <1>2 DEF DecideRestart, Goto, Labels, Supervising, Locked, Reporting,
     Handling, Decide, Retry, Exhausted, Decisions
<1>3. CASE CheckExit(t)
  BY <1>3 DEF CheckExit, Goto, Labels, Supervising, Locked, Reporting,
     Handling
<1>4. CASE RecordAttempt(t)
  BY <1>4 DEF RecordAttempt, Goto, Labels, Supervising, Locked, Reporting,
     Handling
<1>5. CASE Schedule(t)
  BY <1>5 DEF Schedule, Goto, Labels, Supervising, Locked, Reporting,
     Handling, SomethingFails
<1>6. CASE Rollback(t)
  BY <1>6 DEF Rollback, Goto, Labels, Supervising, Locked, Reporting,
     Handling, Threads
<1>7. CASE EmitScheduled(t)
  BY <1>7 DEF EmitScheduled, Goto, Labels, Supervising, Locked, Reporting,
     Handling, EmitRestart, Decisions
<1>8. CASE EmitExhausted(t)
  BY <1>8 DEF EmitExhausted, Goto, Labels, Supervising, Locked, Reporting,
     Handling, EmitRestart, Decisions
<1> QED
  BY <1>1, <1>2, <1>3, <1>4, <1>5, <1>6, <1>7, <1>8 DEF HandleStep

LEMMA RestartTypesKept ==
  ASSUME TypeOK, NEW t \in Threads, RestartStep(t)
  PROVE  TypeOK'
<1> USE PolicyAssumption, BoundAssumption
    DEF TypeOK, ProcessTypes, OsTypes, RestartTypes, StabilityTypes,
        EventTypes, ExitTypes, ThreadTypes, processVars, osVars, restartVars,
        stabilityVars, exitVars, localVars, Lifecycle!LifecycleStates
<1>1. CASE TimerFires(t)
  BY <1>1 DEF TimerFires, Goto, Labels, Supervising, Locked, Reporting,
     Handling, Threads
<1>2. CASE AttemptRestart(t)
  BY <1>2 DEF AttemptRestart, Goto, Labels, Supervising, Locked, Reporting,
     Handling, Threads
<1>3. CASE Reset(t)
  BY <1>3 DEF Reset, Goto, Labels, Supervising, Locked, Reporting, Handling,
     Threads, EmitStateChanged
<1> QED
  BY <1>1, <1>2, <1>3 DEF RestartStep

LEMMA StabilityTypesKept ==
  ASSUME TypeOK, NEW w \in StabilityTokens, StabilityStep(w)
  PROVE  TypeOK'
<1> USE PolicyAssumption, BoundAssumption
    DEF TypeOK, ProcessTypes, OsTypes, RestartTypes, StabilityTypes,
        EventTypes, ExitTypes, ThreadTypes, processVars, osVars, restartVars,
        stabilityVars, exitVars, localVars, Lifecycle!LifecycleStates
<1>1. CASE StabilityFires(w)
  BY <1>1 DEF StabilityFires, StabilityGoto, StabilityLabels
<1>2. CASE StabilityChecks(w)
  BY <1>2 DEF StabilityChecks, StabilityGoto, StabilityLabels
<1>3. CASE StabilityResets(w)
  BY <1>3 DEF StabilityResets, StabilityGoto, StabilityLabels
<1> QED
  BY <1>1, <1>2, <1>3 DEF StabilityStep

LEMMA ExitTypesKept ==
  ASSUME TypeOK, ExitBegins \/ ExitStep
  PROVE  TypeOK'
<1> USE PolicyAssumption, BoundAssumption
    DEF TypeOK, ProcessTypes, OsTypes, RestartTypes, StabilityTypes,
        EventTypes, ExitTypes, ThreadTypes, processVars, osVars, restartVars,
        stabilityVars, exitVars, localVars, Lifecycle!LifecycleStates
<1>1. CASE ExitBegins
  BY <1>1 DEF ExitBegins, ExitLabels, ExitGoto
<1>2. CASE ExitCancelsRestart
  BY <1>2 DEF ExitCancelsRestart, ExitLabels, ExitGoto, Threads
<1>3. CASE ExitCancelsWindow
  BY <1>3 DEF ExitCancelsWindow, ExitLabels, ExitGoto
<1>4. CASE ShutdownNotRunning
  BY <1>4 DEF ShutdownNotRunning, ExitLabels, ExitGoto
<1>5. CASE ShutdownBegins
  BY <1>5 DEF ShutdownBegins, ExitLabels, ExitGoto
<1>6. CASE ShutdownReaps
  BY <1>6 DEF ShutdownReaps, ExitLabels, ExitGoto
<1>7. CASE ShutdownTimesOut
  BY <1>7 DEF ShutdownTimesOut, ExitLabels, ExitGoto, SomethingFails
<1>8. CASE EmitStopping
  BY <1>8 DEF EmitStopping, ExitLabels, ExitGoto, EmitStateChanged
<1>9. CASE EmitFinal
  BY <1>9 DEF EmitFinal, ExitLabels, ExitGoto, EmitStateChanged
<1>10. CASE AppEnds
  BY <1>10 DEF AppEnds, ExitLabels
<1> QED
  BY <1>1, <1>2, <1>3, <1>4, <1>5, <1>6, <1>7, <1>8, <1>9, <1>10 DEF ExitStep

LEMMA TypeStep == TypeOK /\ [Next]_vars => TypeOK'
<1> SUFFICES ASSUME TypeOK, [Next]_vars PROVE TypeOK'
  OBVIOUS
<1>1. CASE \E t \in Threads : ThreadStep(t)
  BY <1>1, StartTypesKept, ReportTypesKept, HandleTypesKept,
      RestartTypesKept DEF ThreadStep
<1>2. CASE \E w \in StabilityTokens : StabilityStep(w)
  BY <1>2, StabilityTypesKept
<1>3. CASE ExitBegins \/ ExitStep
  BY <1>3, ExitTypesKept
<1>4. CASE \E c \in live : ChildDies(c)
  <2> PICK c \in live : ChildDies(c)
    BY <1>4
  <2> QED
    BY DEF ChildDies, SomethingFails, TypeOK, ProcessTypes, OsTypes,
       RestartTypes, StabilityTypes, EventTypes, ExitTypes, ThreadTypes,
       processVars, restartVars, stabilityVars, exitVars, localVars
<1>5. CASE UNCHANGED vars
  BY <1>5 DEF vars, TypeOK, ProcessTypes, OsTypes, RestartTypes,
     StabilityTypes, EventTypes, ExitTypes, ThreadTypes, processVars, osVars,
     restartVars, stabilityVars, exitVars, localVars
<1> QED
  BY <1>1, <1>2, <1>3, <1>4, <1>5 DEF Next, Finished

(* Every variable of the host keeps its type: the retry decisions that are   *)
(* acted on, whatever the locks and the timers do, stay within the policy.   *)
THEOREM TypeCorrect == Spec => []TypeOK
<1>1. Init => TypeOK
  BY TypeInit
<1>2. TypeOK /\ [Next]_vars => TypeOK'
  BY TypeStep
<1> QED
  BY <1>1, <1>2, PTL DEF Spec

-----------------------------------------------------------------------------
(***************************************************************************)
(* One supervisor at a time                                                *)
(***************************************************************************)

(* A thread that already supervises, or stops doing so, may move anywhere    *)
(* that concerns neither a timer nor a roll-back.                            *)
LEMMA SupervisorMoves ==
  ASSUME TypeOK, SupervisionInv, NEW t \in Threads, NEW l \in Labels,
         pc[t] \notin { "unborn", "timer", "rollback" },
         l \notin { "unborn", "timer", "rollback" },
         pc[t] \in Supervising \/ l \notin Supervising,
         Goto(t, l), UNCHANGED << pending, nextToken >>
  PROVE  SupervisionInv'
<1>1. pc' = [ pc EXCEPT ![t] = l ] /\ pc \in [ Threads -> Labels ]
  BY DEF Goto, TypeOK, ThreadTypes
<1>2. \A u \in Threads : u # t => pc'[u] = pc[u]
  BY <1>1
<1>3. pc'[t] = l
  BY <1>1
<1>4. 0 \in Threads /\ pending \in Threads
  BY BoundAssumption DEF Threads, TypeOK, RestartTypes
<1>5. SingleSupervisor'
  BY <1>2, <1>3 DEF SupervisionInv, SingleSupervisor
<1>6. PendingExcludes'
  BY <1>2, <1>3 DEF SupervisionInv, PendingExcludes
<1>7. PendingHasTimer'
  BY <1>2, <1>3, <1>4 DEF SupervisionInv, PendingHasTimer
<1>8. TokensFresh'
  BY <1>2, <1>3, <1>4 DEF SupervisionInv, TokensFresh
<1> QED
  BY <1>5, <1>6, <1>7, <1>8 DEF SupervisionInv

LEMMA SupervisionStutters ==
  ASSUME SupervisionInv, UNCHANGED << pc, pending, nextToken >>
  PROVE  SupervisionInv'
BY DEF SupervisionInv, SingleSupervisor, PendingExcludes, PendingHasTimer,
       TokensFresh

LEMMA SupervisionInit == Init => SupervisionInv
<1> SUFFICES ASSUME Init PROVE SupervisionInv
  OBVIOUS
<1>1. 0 \in Threads
  BY BoundAssumption DEF Threads
<1>2. \A t \in Threads : t # 0 => pc[t] = "unborn"
  BY DEF Init
<1>3. \A t \in Threads : t >= 1 => t # 0
  BY DEF Threads
<1> QED
  BY <1>1, <1>2, <1>3
  DEF Init, SupervisionInv, SingleSupervisor, PendingExcludes,
      PendingHasTimer, TokensFresh, Supervising, Locked, Reporting, Handling

LEMMA StartSupervision ==
  ASSUME TypeOK, SupervisionInv, NEW t \in Threads,
         StartStep(t) \/ ReportStep(t)
  PROVE  SupervisionInv'
<1>1. UNCHANGED << pending, nextToken >>
  BY DEF StartStep, Launch, RequestStart, Spawn, SpawnFails, HandshakeRead,
         HandshakeFails, Healthy, HealthFails, ReportStep, EmitStarting,
         EmitOutcome, BeginWindow, DropWindow, PollStops, PollFindsCrash,
         EmitCrash, restartVars
<1>2. PICK l \in Labels \ { "unborn", "timer", "rollback" } : Goto(t, l)
  BY DEF StartStep, Launch, RequestStart, Spawn, SpawnFails, HandshakeRead,
         HandshakeFails, Healthy, HealthFails, StartReturns, ReportStep,
         EmitStarting, EmitOutcome, BeginWindow, DropWindow, PollStops,
         PollFindsCrash, EmitCrash, Labels, Supervising, Locked, Reporting,
         Handling
<1>3. pc[t] \in Supervising \ { "rollback" }
  BY DEF StartStep, Launch, RequestStart, Spawn, SpawnFails, HandshakeRead,
         HandshakeFails, Healthy, HealthFails, ReportStep, EmitStarting,
         EmitOutcome, BeginWindow, DropWindow, PollStops, PollFindsCrash,
         EmitCrash, At, Supervising, Locked, Reporting
<1>4. pc[t] \notin { "unborn", "timer", "rollback" }
  BY <1>3 DEF Supervising, Locked, Reporting, Handling
<1> QED
  BY <1>1, <1>2, <1>3, <1>4, SupervisorMoves

LEMMA ScheduleSupervision ==
  ASSUME TypeOK, SupervisionInv, NEW t \in Threads, Schedule(t)
  PROVE  SupervisionInv'
<1>1. pc[t] = "schedule" /\ pc[t] \in Supervising
  BY DEF Schedule, At, Supervising, Handling
<1>2. pending = 0
  BY <1>1 DEF SupervisionInv, PendingExcludes
<1>3. nextToken \in Threads /\ pending' = nextToken /\ nextToken' = nextToken + 1
  BY <1>2 DEF Schedule
<1>4. nextToken # 0 /\ nextToken # t /\ pc[nextToken] = "unborn"
  BY <1>1, <1>3 DEF SupervisionInv, TokensFresh, TypeOK, RestartTypes, Threads
<1>5. pc \in [ Threads -> Labels ] /\ 0 \in Threads
  BY BoundAssumption DEF TypeOK, ThreadTypes, Threads
<1>6. \A u \in Threads : pc[u] \in Supervising => u = t
  BY <1>1 DEF SupervisionInv, SingleSupervisor
<1>7. \A u \in Threads : u >= nextToken' => u >= nextToken /\ u # nextToken
  BY <1>3 DEF Threads, TypeOK, RestartTypes
<1>8. CASE pc' = [ pc EXCEPT ![t] = "emitScheduled", ![nextToken] = "timer" ]
  <2>1. \A u \in Threads : pc'[u] \notin Supervising
    BY <1>4, <1>5, <1>6, <1>8 DEF Supervising, Locked, Reporting, Handling
  <2>2. pc'[nextToken] = "timer" /\ pc'[t] = "emitScheduled"
    BY <1>3, <1>4, <1>5, <1>8
  <2>3. \A u \in Threads : u # t /\ u # nextToken => pc'[u] = pc[u]
    BY <1>5, <1>8
  <2>4. SingleSupervisor' /\ PendingExcludes'
    BY <2>1 DEF SingleSupervisor, PendingExcludes
  <2>5. PendingHasTimer'
    BY <1>3, <2>2 DEF PendingHasTimer
  <2>6. \A u \in Threads : pc'[u] # "rollback"
    BY <2>1 DEF Supervising, Handling
  <2>7. TokensFresh'
    <3>1. pc'[0] \notin { "unborn", "timer" }
      BY <1>4, <1>5, <2>2, <2>3 DEF SupervisionInv, TokensFresh
    <3>2. \A u \in Threads : u >= nextToken' => pc'[u] = "unborn"
      <4> SUFFICES ASSUME NEW u \in Threads, u >= nextToken'
                   PROVE  pc'[u] = "unborn"
        OBVIOUS
      <4>1. pc[u] = "unborn" /\ u # nextToken
        BY <1>7 DEF SupervisionInv, TokensFresh
      <4> QED
        BY <1>1, <2>3, <4>1
    <3> QED
      BY <2>6, <3>1, <3>2 DEF TokensFresh
  <2> QED
    BY <2>4, <2>5, <2>7 DEF SupervisionInv
<1>9. CASE Goto(t, "rollback")
  <2>1. pc'[t] = "rollback" /\ \A u \in Threads : u # t => pc'[u] = pc[u]
    BY <1>5, <1>9 DEF Goto
  <2>2. SingleSupervisor' /\ PendingExcludes'
    BY <1>6, <2>1 DEF SingleSupervisor, PendingExcludes
  <2>3. PendingHasTimer'
    BY <2>1 DEF PendingHasTimer
  <2>4. TokensFresh'
    <3>1. pc'[0] \notin { "unborn", "timer" }
      BY <1>5, <2>1 DEF SupervisionInv, TokensFresh
    <3>2. \A u \in Threads : u >= nextToken' => pc'[u] = "unborn"
      <4> SUFFICES ASSUME NEW u \in Threads, u >= nextToken'
                   PROVE  pc'[u] = "unborn"
        OBVIOUS
      <4>1. pc[u] = "unborn"
        BY <1>7 DEF SupervisionInv, TokensFresh
      <4> QED
        BY <1>1, <2>1, <4>1
    <3>3. pc'[pending'] = "unborn"
      BY <1>3, <1>4, <2>1
    <3> QED
      BY <3>1, <3>2, <3>3 DEF TokensFresh
  <2> QED
    BY <2>2, <2>3, <2>4 DEF SupervisionInv
<1> QED
  BY <1>2, <1>8, <1>9 DEF Schedule

LEMMA RollbackSupervision ==
  ASSUME TypeOK, SupervisionInv, NEW t \in Threads, Rollback(t)
  PROVE  SupervisionInv'
<1>1. pc \in [ Threads -> Labels ] /\ 0 \in Threads
  BY BoundAssumption DEF TypeOK, ThreadTypes, Threads
<1>2. pc'[t] = "abandoned" /\ \A u \in Threads : u # t => pc'[u] = pc[u]
  BY <1>1 DEF Rollback, Goto
<1>3. pc[t] = "rollback" /\ pending' = 0 /\ nextToken' = nextToken
  BY DEF Rollback, At
<1>4. "abandoned" \notin Supervising
  BY DEF Supervising, Locked, Reporting, Handling
<1> QED
  BY <1>1, <1>2, <1>3, <1>4 DEF SupervisionInv, SingleSupervisor,
     PendingExcludes, PendingHasTimer, TokensFresh

LEMMA HandleSupervision ==
  ASSUME TypeOK, SupervisionInv, NEW t \in Threads, HandleStep(t)
  PROVE  SupervisionInv'
<1>1. CASE Schedule(t)
  BY <1>1, ScheduleSupervision
<1>2. CASE Rollback(t)
  BY <1>2, RollbackSupervision
<1>3. CASE \/ CancelWindow(t) \/ DecideRestart(t) \/ CheckExit(t)
           \/ RecordAttempt(t) \/ EmitScheduled(t) \/ EmitExhausted(t)
  <2>1. UNCHANGED << pending, nextToken >>
    BY <1>3 DEF CancelWindow, DecideRestart, CheckExit, RecordAttempt,
       EmitScheduled, EmitExhausted, restartVars
  <2>2. PICK l \in Labels : /\ l \notin { "unborn", "timer", "rollback" }
                            /\ Goto(t, l)
                            /\ pc[t] \in Supervising \/ l \notin Supervising
    BY <1>3 DEF CancelWindow, DecideRestart, CheckExit, RecordAttempt,
       EmitScheduled, EmitExhausted, At, Labels, Supervising, Locked,
       Reporting, Handling
  <2>3. pc[t] \notin { "unborn", "timer", "rollback" }
    BY <1>3 DEF CancelWindow, DecideRestart, CheckExit, RecordAttempt,
       EmitScheduled, EmitExhausted, At
  <2> QED
    BY <2>1, <2>2, <2>3, SupervisorMoves
<1> QED
  BY <1>1, <1>2, <1>3 DEF HandleStep

LEMMA TimerSupervision ==
  ASSUME TypeOK, SupervisionInv, NEW t \in Threads, TimerFires(t)
  PROVE  SupervisionInv'
<1>1. pc \in [ Threads -> Labels ] /\ 0 \in Threads /\ pending \in Threads
  BY BoundAssumption DEF TypeOK, ThreadTypes, RestartTypes, Threads
<1>2. pc[t] = "timer" /\ nextToken' = nextToken /\ t # 0
  BY DEF TimerFires, At, SupervisionInv, TokensFresh
<1>3. CASE pending = t
  <2>1. pending' = 0 /\ pc'[t] = "restart"
        /\ \A u \in Threads : u # t => pc'[u] = pc[u]
    BY <1>1, <1>3 DEF TimerFires, Goto
  <2>2. \A u \in Threads : pc[u] \notin Supervising
    BY <1>2, <1>3 DEF SupervisionInv, PendingExcludes, TokensFresh
  <2>3. SingleSupervisor'
    BY <2>1, <2>2 DEF SingleSupervisor
  <2>4. TokensFresh'
    BY <1>1, <1>2, <2>1 DEF SupervisionInv, TokensFresh
  <2> QED
    BY <2>1, <2>3, <2>4 DEF SupervisionInv, PendingExcludes, PendingHasTimer
<1>4. CASE pending # t
  <2>1. pending' = pending /\ pc'[t] = "done"
        /\ \A u \in Threads : u # t => pc'[u] = pc[u]
    BY <1>1, <1>4 DEF TimerFires, Goto
  <2>2. "done" \notin Supervising
    BY DEF Supervising, Locked, Reporting, Handling
  <2> QED
    BY <1>1, <1>2, <1>4, <2>1, <2>2 DEF SupervisionInv, SingleSupervisor,
       PendingExcludes, PendingHasTimer, TokensFresh
<1> QED
  BY <1>3, <1>4

LEMMA RestartSupervision ==
  ASSUME TypeOK, SupervisionInv, NEW t \in Threads, RestartStep(t)
  PROVE  SupervisionInv'
<1>1. CASE TimerFires(t)
  BY <1>1, TimerSupervision
<1>2. CASE AttemptRestart(t) \/ Reset(t)
  <2>1. UNCHANGED << pending, nextToken >>
    BY <1>2 DEF AttemptRestart, Reset, restartVars
  <2>2. PICK l \in Labels \ { "unborn", "timer", "rollback" } : Goto(t, l)
    BY <1>2 DEF AttemptRestart, Reset, Labels, Supervising, Locked
  <2>3. pc[t] \in Supervising /\ pc[t] \notin { "unborn", "timer", "rollback" }
    BY <1>2 DEF AttemptRestart, Reset, At, Supervising, Locked
  <2> QED
    BY <2>1, <2>2, <2>3, SupervisorMoves
<1> QED
  BY <1>1, <1>2 DEF RestartStep

LEMMA ExitSupervision ==
  ASSUME TypeOK, SupervisionInv, ExitBegins \/ ExitStep
  PROVE  SupervisionInv'
<1>1. CASE ExitCancelsRestart
  <2>1. pending' = 0 /\ UNCHANGED << pc, nextToken >>
    BY <1>1 DEF ExitCancelsRestart
  <2> QED
    BY <2>1 DEF SupervisionInv, SingleSupervisor, PendingExcludes,
       PendingHasTimer, TokensFresh
<1>2. CASE ~ExitCancelsRestart
  <2>1. UNCHANGED << pc, pending, nextToken >>
    BY <1>2 DEF ExitStep, ExitBegins, ExitCancelsWindow, ShutdownNotRunning,
       ShutdownBegins, ShutdownReaps, ShutdownTimesOut, EmitStopping,
       EmitFinal, AppEnds, restartVars
  <2> QED
    BY <2>1, SupervisionStutters
<1> QED
  BY <1>1, <1>2

LEMMA SupervisionStep ==
  TypeOK /\ SupervisionInv /\ [Next]_vars => SupervisionInv'
<1> SUFFICES ASSUME TypeOK, SupervisionInv, [Next]_vars PROVE SupervisionInv'
  OBVIOUS
<1>1. CASE \E t \in Threads : ThreadStep(t)
  BY <1>1, StartSupervision, HandleSupervision, RestartSupervision
  DEF ThreadStep
<1>2. CASE \E w \in StabilityTokens : StabilityStep(w)
  BY <1>2, SupervisionStutters DEF StabilityStep, StabilityFires,
     StabilityChecks, StabilityResets, restartVars
<1>3. CASE ExitBegins \/ ExitStep
  BY <1>3, ExitSupervision
<1>4. CASE \E c \in live : ChildDies(c)
  BY <1>4, SupervisionStutters DEF ChildDies, restartVars
<1>5. CASE UNCHANGED vars
  BY <1>5, SupervisionStutters DEF vars, restartVars
<1> QED
  BY <1>1, <1>2, <1>3, <1>4, <1>5 DEF Next, Finished

LEMMA SupervisionInvariant == Spec => [](TypeOK /\ SupervisionInv)
<1>1. Init => TypeOK /\ SupervisionInv
  BY TypeInit, SupervisionInit
<1>2. TypeOK /\ SupervisionInv /\ [Next]_vars => (TypeOK /\ SupervisionInv)'
  BY TypeStep, SupervisionStep
<1> QED
  BY <1>1, <1>2, PTL DEF Spec

(* "There is still exactly one poll loop active at once": whatever the       *)
(* number of restarts, no two threads ever drive the sidecar.                *)
THEOREM OneSupervisor == Spec => []SingleSupervisor
<1>1. SupervisionInv => SingleSupervisor
  BY DEF SupervisionInv
<1> QED
  BY <1>1, SupervisionInvariant, PTL

(* RestartScheduler::schedule leaves no phantom: a pending token belongs to  *)
(* a timer that will fire or to the thread that is rolling it back.          *)
THEOREM NoPhantomRestart == Spec => []PendingHasTimer
<1>1. SupervisionInv => PendingHasTimer
  BY DEF SupervisionInv
<1> QED
  BY <1>1, SupervisionInvariant, PTL

(* try_begin never refuses: the "structurally impossible" branch of          *)
(* handle_retry_eligible_failure is.                                         *)
THEOREM NeverRefused == Spec => []ScheduleNeverRefused
<1>1. SupervisionInv => ScheduleNeverRefused
  BY DEF SupervisionInv, PendingExcludes, ScheduleNeverRefused, Supervising,
     Handling
<1> QED
  BY <1>1, SupervisionInvariant, PTL

-----------------------------------------------------------------------------
(***************************************************************************)
(* The restart budget                                                      *)
(***************************************************************************)

(* Only four actions touch the tracker or the threads between `decide` and   *)
(* `record_attempt`.                                                         *)
LEMMA BudgetUntouched ==
  ASSUME BudgetInv, attempts' = attempts, decision' = decision,
         \A u \in Threads : pc'[u] = pc[u] \/ pc'[u] \notin { "record", "checkExit" }
  PROVE  BudgetInv'
BY DEF BudgetInv, AttemptsBounded

LEMMA DecideBudget ==
  ASSUME TypeOK, BudgetInv, NEW t \in Threads, DecideRestart(t)
  PROVE  BudgetInv'
<1>1. /\ pc' = [ pc EXCEPT ![t] = "checkExit" ]
      /\ decision' = [ decision EXCEPT ![t] = Decide ]
      /\ attempts' = attempts
  BY DEF DecideRestart, Goto, restartVars
<1>2. pc \in [ Threads -> Labels ] /\ decision \in [ Threads -> Decisions ]
  BY DEF TypeOK, ThreadTypes
<1>3. Decide.retry => attempts < MaxAttempts
  BY PolicyAssumption DEF Decide, Exhausted, Retry, TypeOK, RestartTypes
<1>4. \A u \in Threads : u # t => pc'[u] = pc[u] /\ decision'[u] = decision[u]
  BY <1>1, <1>2
<1>5. pc'[t] = "checkExit" /\ decision'[t] = Decide
  BY <1>1, <1>2
<1> QED
  BY <1>1, <1>3, <1>4, <1>5 DEF BudgetInv, AttemptsBounded

LEMMA CheckExitBudget ==
  ASSUME TypeOK, BudgetInv, NEW t \in Threads, CheckExit(t)
  PROVE  BudgetInv'
<1>1. attempts' = attempts /\ decision' = decision /\ pc[t] = "checkExit"
  BY DEF CheckExit, At, restartVars, localVars
<1>2. \A u \in Threads : u # t => pc'[u] = pc[u]
  BY DEF CheckExit, Goto, TypeOK, ThreadTypes
<1>3. /\ pc'[t] = "record" => decision[t].retry
      /\ pc'[t] # "checkExit"
  BY DEF CheckExit, Goto, TypeOK, ThreadTypes
<1> QED
  BY <1>1, <1>2, <1>3 DEF BudgetInv, AttemptsBounded

LEMMA RecordBudget ==
  ASSUME TypeOK, SupervisionInv, BudgetInv, NEW t \in Threads, RecordAttempt(t)
  PROVE  BudgetInv'
<1>1. pc[t] = "record" /\ attempts' = attempts + 1
  BY DEF RecordAttempt, At
<1>2. attempts < MaxAttempts
  BY <1>1 DEF BudgetInv
<1>3. AttemptsBounded'
  BY <1>1, <1>2, PolicyAssumption
  DEF AttemptsBounded, TypeOK, RestartTypes
<1>4. \A u \in Threads : pc'[u] \notin { "record", "checkExit" }
  <2> SUFFICES ASSUME NEW u \in Threads
               PROVE  pc'[u] \notin { "record", "checkExit" }
    OBVIOUS
  <2>1. CASE u = t
    BY <2>1 DEF RecordAttempt, Goto, TypeOK, ThreadTypes
  <2>2. CASE u # t
    <3>1. pc[u] \notin Supervising
      BY <1>1, <2>2 DEF SupervisionInv, SingleSupervisor, Supervising, Handling
    <3>2. pc'[u] = pc[u]
      BY <2>2 DEF RecordAttempt, Goto, TypeOK, ThreadTypes
    <3> QED
      BY <3>1, <3>2 DEF Supervising, Handling
  <2> QED
    BY <2>1, <2>2
<1> QED
  BY <1>3, <1>4 DEF BudgetInv

LEMMA BudgetStep ==
  TypeOK /\ SupervisionInv /\ BudgetInv /\ [Next]_vars => BudgetInv'
<1> SUFFICES ASSUME TypeOK, SupervisionInv, BudgetInv, [Next]_vars
             PROVE  BudgetInv'
  OBVIOUS
<1>1. CASE \E t \in Threads : ThreadStep(t)
  <2> PICK t \in Threads : ThreadStep(t)
    BY <1>1
  <2>1. CASE StartStep(t) \/ ReportStep(t) \/ RestartStep(t)
    <3>1. attempts' = attempts /\ decision' = decision
      BY <2>1 DEF StartStep, Launch, RequestStart, Spawn, SpawnFails,
         HandshakeRead, HandshakeFails, Healthy, HealthFails, ReportStep,
         EmitStarting, EmitOutcome, BeginWindow, DropWindow, PollStops,
         PollFindsCrash, EmitCrash, RestartStep, TimerFires, AttemptRestart,
         Reset, restartVars, localVars
    <3>2. PICK l \in Labels \ { "record", "checkExit" } : Goto(t, l)
      BY <2>1 DEF StartStep, Launch, RequestStart, Spawn, SpawnFails,
         HandshakeRead, HandshakeFails, Healthy, HealthFails, StartReturns,
         ReportStep, EmitStarting, EmitOutcome, BeginWindow, DropWindow,
         PollStops, PollFindsCrash, EmitCrash, RestartStep, TimerFires,
         AttemptRestart, Reset, Labels, Supervising, Locked, Reporting,
         Handling
    <3>3. \A u \in Threads : pc'[u] = pc[u] \/ pc'[u] \notin { "record", "checkExit" }
      BY <3>2 DEF Goto, TypeOK, ThreadTypes
    <3> QED
      BY <3>1, <3>3, BudgetUntouched
  <2>2. CASE DecideRestart(t)
    BY <2>2, DecideBudget
  <2>3. CASE CheckExit(t)
    BY <2>3, CheckExitBudget
  <2>4. CASE RecordAttempt(t)
    BY <2>4, RecordBudget
  <2>5. CASE \/ CancelWindow(t) \/ Schedule(t) \/ Rollback(t)
             \/ EmitScheduled(t) \/ EmitExhausted(t)
    <3>1. attempts' = attempts /\ decision' = decision
      BY <2>5 DEF CancelWindow, Schedule, Rollback, EmitScheduled,
         EmitExhausted, restartVars, localVars
    <3>2. \A u \in Threads : pc'[u] = pc[u] \/ pc'[u] \notin { "record", "checkExit" }
      BY <2>5 DEF CancelWindow, Schedule, Rollback, EmitScheduled,
         EmitExhausted, Goto, TypeOK, ThreadTypes
    <3> QED
      BY <3>1, <3>2, BudgetUntouched
  <2> QED
    BY <2>1, <2>2, <2>3, <2>4, <2>5 DEF ThreadStep, HandleStep
<1>2. CASE \E w \in StabilityTokens : StabilityStep(w)
  <2>1. CASE attempts' = attempts
    BY <1>2, <2>1, BudgetUntouched DEF StabilityStep, StabilityFires,
       StabilityChecks, StabilityResets, localVars
  <2>2. CASE attempts' = 0
    <3>1. UNCHANGED << pc, decision >>
      BY <1>2 DEF StabilityStep, StabilityFires, StabilityChecks,
         StabilityResets, localVars
    <3> QED
      BY <2>2, <3>1, PolicyAssumption
      DEF BudgetInv, AttemptsBounded, TypeOK, RestartTypes
  <2> QED
    BY <1>2, <2>1, <2>2 DEF StabilityStep, StabilityFires, StabilityChecks,
       StabilityResets, restartVars
<1>3. CASE ExitBegins \/ ExitStep
  BY <1>3, BudgetUntouched DEF ExitStep, ExitBegins, ExitCancelsRestart,
     ExitCancelsWindow, ShutdownNotRunning, ShutdownBegins, ShutdownReaps,
     ShutdownTimesOut, EmitStopping, EmitFinal, AppEnds, restartVars, localVars
<1>4. CASE \E c \in live : ChildDies(c)
  BY <1>4, BudgetUntouched DEF ChildDies, restartVars, localVars
<1>5. CASE UNCHANGED vars
  BY <1>5, BudgetUntouched DEF vars, restartVars, localVars
<1> QED
  BY <1>1, <1>2, <1>3, <1>4, <1>5 DEF Next, Finished

(* RestartTracker never exceeds the policy's max_attempts, although `decide` *)
(* and `record_attempt` take its mutex separately and a stability timer may  *)
(* reset it in between.                                                      *)
THEOREM BudgetKept == Spec => []AttemptsBounded
<1>1. Init => BudgetInv
  BY PolicyAssumption DEF Init, BudgetInv, AttemptsBounded
<1>2. BudgetInv => AttemptsBounded
  BY DEF BudgetInv
<1> QED
  BY <1>1, <1>2, BudgetStep, SupervisionInvariant, PTL DEF Spec

-----------------------------------------------------------------------------
(***************************************************************************)
(* The host implements the lifecycle                                       *)
(***************************************************************************)

(* A step of a thread that leaves the lifecycle and the exit handler alone   *)
(* and does not enter the mutex keeps what the counters say.                 *)
LEMMA LifecycleStutters ==
  ASSUME LifecycleInv, UNCHANGED << state, exitPc >>,
         \A u \in Threads :
           pc'[u] = pc[u] \/ pc'[u] \notin { "launch" } \cup Locked
  PROVE  LifecycleInv'
BY DEF LifecycleInv, Someone, Locked

(* The holder of the mutex is the only thread the counters of which matter.  *)
LEMMA OthersOutside ==
  ASSUME SupervisionInv, NEW t \in Threads, pc[t] \in Supervising,
         NEW u \in Threads, u # t
  PROVE  pc[u] \notin { "launch" } \cup Locked
BY DEF SupervisionInv, SingleSupervisor, Supervising

LEMMA LifecycleInitial == Init => LifecycleInv
BY DEF Init, LifecycleInv, Someone, Locked

(* A step of the supervising thread t.                                       *)
LEMMA LifecycleMoves ==
  ASSUME TypeOK, SupervisionInv, NEW t \in Threads, NEW l \in Labels,
         pc[t] \in Supervising, Goto(t, l),
         exitPc' = exitPc, exitPc # "killWait" \/ l \notin Locked,
         exitPc = "killWait" => state' = "Stopping",
         l \in { "launch", "request" } => state' = "NotStarted",
         l \in { "spawn", "handshake", "health" } => state' = "Starting",
         l = "reset" => state' \in Retryable
  PROVE  LifecycleInv'
<1>1. pc'[t] = l /\ \A u \in Threads : u # t => pc'[u] = pc[u]
  BY DEF Goto, TypeOK, ThreadTypes
<1>2. \A u \in Threads : u # t => pc'[u] \notin { "launch" } \cup Locked
  BY <1>1, OthersOutside
<1> QED
  BY <1>1, <1>2 DEF LifecycleInv, Someone, Locked

(* Steps of the thread that holds the mutex, or takes it. *)
LEMMA LockedLifecycle ==
  ASSUME TypeOK, SupervisionInv, LifecycleInv, NEW t \in Threads,
         StartStep(t) \/ AttemptRestart(t) \/ Reset(t)
  PROVE  LifecycleInv' /\ [Lifecycle!Next]_state
<1> USE DEF At, Supervising, Locked
<1>1. exitPc' = exitPc
  BY DEF StartStep, Launch, RequestStart, Spawn, SpawnFails, HandshakeRead,
         HandshakeFails, Healthy, HealthFails, AttemptRestart, Reset, exitVars
<1>2. pc[t] \in { "launch", "restart" } \cup Locked
  BY DEF StartStep, Launch, RequestStart, Spawn, SpawnFails, HandshakeRead,
         HandshakeFails, Healthy, HealthFails, AttemptRestart, Reset
<1>3. exitPc # "killWait"
  <2>1. CASE pc[t] \in Locked
    BY <2>1 DEF LifecycleInv, Someone
  <2>2. CASE pc[t] \in { "launch", "restart" }
    BY <2>2 DEF StartStep, Launch, RequestStart, Spawn, SpawnFails,
       HandshakeRead, HandshakeFails, Healthy, HealthFails, AttemptRestart,
       Reset, ProcessLockFree
  <2> QED
    BY <1>2, <2>1, <2>2
<1>4. CASE Launch(t)
  <2>1. Goto(t, "request") /\ state' = "NotStarted" /\ UNCHANGED state
    BY <1>4 DEF Launch, LifecycleInv, processVars
  <2> QED
    BY <1>1, <1>2, <1>3, <2>1, LifecycleMoves DEF Labels
<1>5. CASE RequestStart(t)
  <2>1. Goto(t, "spawn") /\ state' = "Starting" /\ state = "NotStarted"
    BY <1>5 DEF RequestStart, LifecycleInv
  <2>2. Lifecycle!Next
    BY <2>1 DEF Lifecycle!Next, Lifecycle!Transition,
       Lifecycle!CanTransitionTo, Lifecycle!LifecycleStates
  <2> QED
    BY <1>1, <1>2, <1>3, <2>1, <2>2, LifecycleMoves DEF Labels
<1>6. CASE Spawn(t) \/ HandshakeRead(t)
  <2>1. PICK l \in { "handshake", "health" } : Goto(t, l)
    BY <1>6 DEF Spawn, HandshakeRead
  <2>2. state' = "Starting" /\ UNCHANGED state
    BY <1>6 DEF Spawn, HandshakeRead, LifecycleInv
  <2> QED
    BY <1>1, <1>2, <1>3, <2>1, <2>2, LifecycleMoves DEF Labels
<1>7. CASE SpawnFails(t) \/ HandshakeFails(t) \/ Healthy(t) \/ HealthFails(t)
  <2>1. Goto(t, "emitStarting")
    BY <1>7 DEF SpawnFails, HandshakeFails, Healthy, HealthFails, StartReturns
  <2>2. state = "Starting" /\ state' \in { "Running", "Failed", "Timeout" }
    BY <1>7 DEF SpawnFails, HandshakeFails, Healthy, HealthFails,
       StartReturns, LifecycleInv
  <2>3. Lifecycle!Next
    BY <2>2 DEF Lifecycle!Next, Lifecycle!Transition,
       Lifecycle!CanTransitionTo, Lifecycle!LifecycleStates
  <2> QED
    BY <1>1, <1>2, <1>3, <2>1, <2>3, LifecycleMoves DEF Labels, Reporting
<1>8. CASE AttemptRestart(t)
  <2>1. UNCHANGED state
    BY <1>8 DEF AttemptRestart, processVars
  <2>2. CASE RestartStillEligible(state, shuttingDown)
    <3>1. Goto(t, "reset") /\ state' \in Retryable
      BY <1>8, <2>1, <2>2 DEF AttemptRestart, RestartStillEligible
    <3> QED
      BY <1>1, <1>2, <1>3, <2>1, <3>1, LifecycleMoves DEF Labels
  <2>3. CASE ~RestartStillEligible(state, shuttingDown)
    <3>1. Goto(t, "done")
      BY <1>8, <2>3 DEF AttemptRestart
    <3> QED
      BY <1>1, <1>2, <1>3, <2>1, <3>1, LifecycleMoves DEF Labels
  <2> QED
    BY <2>2, <2>3
<1>9. CASE Reset(t)
  <2>1. Goto(t, "request") /\ state' = "NotStarted" /\ state \in Retryable
    BY <1>9 DEF Reset, LifecycleInv
  <2>2. Lifecycle!Next
    BY <2>1 DEF Lifecycle!Next, Lifecycle!Transition,
       Lifecycle!CanTransitionTo, Lifecycle!LifecycleStates,
       Lifecycle!IsTerminal, Retryable
  <2> QED
    BY <1>1, <1>2, <1>3, <2>1, <2>2, LifecycleMoves DEF Labels
<1> QED
  BY <1>4, <1>5, <1>6, <1>7, <1>8, <1>9 DEF StartStep

LEMMA CrashLifecycle ==
  ASSUME TypeOK, SupervisionInv, LifecycleInv, NEW t \in Threads,
         PollFindsCrash(t)
  PROVE  LifecycleInv' /\ [Lifecycle!Next]_state
<1>1. /\ pc[t] \in Supervising /\ Goto(t, "emitCrash")
      /\ exitPc' = exitPc /\ exitPc # "killWait"
      /\ state = "Running" /\ state' = "Crashed"
  BY DEF PollFindsCrash, At, ProcessLockFree, exitVars, Supervising
<1>2. Lifecycle!Next
  BY <1>1 DEF Lifecycle!Next, Lifecycle!Transition,
     Lifecycle!CanTransitionTo, Lifecycle!LifecycleStates
<1> QED
  BY <1>1, <1>2, LifecycleMoves DEF Labels, Supervising, Reporting, Locked

(* Steps of a thread that leave the lifecycle alone. *)
LEMMA QuietLifecycle ==
  ASSUME TypeOK, LifecycleInv, NEW t \in Threads,
         \/ ReportStep(t) /\ ~PollFindsCrash(t)
         \/ HandleStep(t) \/ TimerFires(t)
  PROVE  LifecycleInv' /\ UNCHANGED state
<1>1. UNCHANGED << state, exitPc >>
  BY DEF ReportStep, EmitStarting, EmitOutcome, BeginWindow, DropWindow,
     PollStops, EmitCrash, HandleStep, CancelWindow, DecideRestart, CheckExit,
     RecordAttempt, Schedule, Rollback, EmitScheduled, EmitExhausted,
     TimerFires, processVars, exitVars
<1>2. \A u \in Threads :
        pc'[u] = pc[u] \/ pc'[u] \notin { "launch" } \cup Locked
  BY DEF ReportStep, EmitStarting, EmitOutcome, BeginWindow, DropWindow,
     PollStops, EmitCrash, HandleStep, CancelWindow, DecideRestart, CheckExit,
     RecordAttempt, Schedule, Rollback, EmitScheduled, EmitExhausted,
     TimerFires, Goto, TypeOK, ThreadTypes, Locked
<1> QED
  BY <1>1, <1>2, LifecycleStutters

LEMMA ExitLifecycle ==
  ASSUME TypeOK, LifecycleInv, ExitBegins \/ ExitStep
  PROVE  LifecycleInv' /\ [Lifecycle!Next]_state
<1>1. pc' = pc
  BY DEF ExitStep, ExitBegins, ExitCancelsRestart, ExitCancelsWindow,
     ShutdownNotRunning, ShutdownBegins, ShutdownReaps, ShutdownTimesOut,
     EmitStopping, EmitFinal, AppEnds
<1>2. CASE ShutdownBegins
  <2>1. state = "Running" /\ state' = "Stopping" /\ ~Someone(Locked)
    BY <1>2 DEF ShutdownBegins, ProcessLockFree, Someone
  <2>2. Lifecycle!Next
    BY <2>1 DEF Lifecycle!Next, Lifecycle!Transition,
       Lifecycle!CanTransitionTo, Lifecycle!LifecycleStates
  <2> QED
    BY <1>1, <2>1, <2>2 DEF LifecycleInv, Someone, Locked
<1>3. CASE ShutdownReaps \/ ShutdownTimesOut
  <2>1. /\ state = "Stopping" /\ state' \in { "Stopped", "Failed" }
        /\ exitPc' = "emitStopping" /\ ~Someone(Locked)
    BY <1>3 DEF ShutdownReaps, ShutdownTimesOut, ExitGoto, LifecycleInv
  <2>2. Lifecycle!Next
    BY <2>1 DEF Lifecycle!Next, Lifecycle!Transition,
       Lifecycle!CanTransitionTo, Lifecycle!LifecycleStates
  <2> QED
    BY <1>1, <2>1, <2>2 DEF LifecycleInv, Someone, Locked
<1>4. CASE ~(ShutdownBegins \/ ShutdownReaps \/ ShutdownTimesOut)
  <2>1. \/ UNCHANGED state /\ exitPc' # "killWait"
        \/ UNCHANGED << state, exitPc >>
    BY <1>4 DEF ExitStep, ExitBegins, ExitCancelsRestart, ExitCancelsWindow,
       ShutdownNotRunning, EmitStopping, EmitFinal, AppEnds, ExitGoto,
       processVars
  <2> QED
    BY <1>1, <2>1 DEF LifecycleInv, Someone
<1> QED
  BY <1>2, <1>3, <1>4

LEMMA LifecycleStep ==
  ASSUME TypeOK, SupervisionInv, LifecycleInv, [Next]_vars
  PROVE  LifecycleInv' /\ [Lifecycle!Next]_state
<1>1. CASE \E t \in Threads : ThreadStep(t)
  BY <1>1, LockedLifecycle, CrashLifecycle, QuietLifecycle
  DEF ThreadStep, RestartStep, ReportStep
<1>2. CASE \E w \in StabilityTokens : StabilityStep(w)
  BY <1>2, LifecycleStutters DEF StabilityStep, StabilityFires,
     StabilityChecks, StabilityResets, processVars, exitVars
<1>3. CASE ExitBegins \/ ExitStep
  BY <1>3, ExitLifecycle
<1>4. CASE \E c \in live : ChildDies(c)
  BY <1>4, LifecycleStutters DEF ChildDies, processVars, exitVars
<1>5. CASE UNCHANGED vars
  BY <1>5, LifecycleStutters DEF vars, processVars, exitVars
<1> QED
  BY <1>1, <1>2, <1>3, <1>4, <1>5 DEF Next, Finished

(* Every change of the lifecycle state is one the supervisor's transition    *)
(* table allows: none of the calls lib.rs makes is ever rejected as an       *)
(* InvalidTransition, whichever threads meet.                                *)
THEOREM ImplementsLifecycle == Spec => LifecycleSpec
<1>1. Init => Lifecycle!Init
  BY DEF Init, Lifecycle!Init
<1>2. TypeOK /\ SupervisionInv /\ LifecycleInv /\ [Next]_vars
        => LifecycleInv' /\ [Lifecycle!Next]_state
  BY LifecycleStep
<1> QED
  BY <1>1, <1>2, LifecycleInitial, SupervisionInvariant, PTL
  DEF Spec, LifecycleSpec, Lifecycle!Spec

-----------------------------------------------------------------------------
(***************************************************************************)
(* Threads                                                                 *)
(***************************************************************************)

(* A thread that supervises is alone, and a step of it moves it alone.       *)
LEMMA Lone ==
  ASSUME SupervisionInv, NEW t \in Threads, pc[t] \in Supervising
  PROVE  \A u \in Threads : u # t => pc[u] \notin Supervising
BY DEF SupervisionInv, SingleSupervisor

LEMMA Moves ==
  ASSUME TypeOK, NEW t \in Threads, NEW l, Goto(t, l)
  PROVE  pc'[t] = l /\ \A u \in Threads : u # t => pc'[u] = pc[u]
BY DEF Goto, TypeOK, ThreadTypes

(* Scheduling a restart gives birth to its timer, or leaves a roll-back.      *)
LEMMA ScheduleMoves ==
  ASSUME TypeOK, SupervisionInv, NEW t \in Threads, Schedule(t)
  PROVE  /\ pc[t] = "schedule" /\ pc'[t] \in { "emitScheduled", "rollback" }
         /\ pending = 0 /\ pending' # 0
         /\ \A u \in Threads : u # t =>
              pc'[u] = pc[u] \/ (pc[u] = "unborn" /\ pc'[u] = "timer")
<1>1. pc[t] = "schedule"
  BY DEF Schedule, At
<1>2. pending = 0
  BY <1>1 DEF SupervisionInv, PendingExcludes, Supervising, Handling
<1>3. nextToken \in Threads /\ nextToken # 0 /\ pending' = nextToken
  BY <1>2 DEF Schedule, TypeOK, RestartTypes
<1>4. pc[nextToken] = "unborn"
  BY <1>3 DEF SupervisionInv, TokensFresh, Threads
<1> QED
  BY <1>1, <1>2, <1>3, <1>4 DEF Schedule, Goto, TypeOK, ThreadTypes

-----------------------------------------------------------------------------
(***************************************************************************)
(* Processes and handles                                                   *)
(***************************************************************************)

(* The threads waiting for a child that boots *)
Booting == { "handshake", "health" }

(* A step that starts and reaps nothing, and moves nobody to or from start()'s *)
(* two waits, keeps what is known of the handles.                            *)
LEMMA HandlesKept ==
  ASSUME ChildInv, live' \subseteq live,
         UNCHANGED << booting, child, stopping, port, state >>,
         \A u \in Threads :
           pc'[u] = pc[u] \/ (pc[u] \notin Booting /\ pc'[u] \notin Booting)
  PROVE  ChildInv'
BY DEF ChildInv, Someone, Booting

LEMMA StartHandles ==
  ASSUME TypeOK, SupervisionInv, LifecycleInv, ChildInv, DownInv,
         NEW t \in Threads, StartStep(t)
  PROVE  ChildInv'
<1> USE DEF At, Booting, processVars, osVars, exitVars, Someone
<1>1. pc[t] \in Supervising /\ pc[t] \in { "launch" } \cup Locked
  BY DEF StartStep, Launch, RequestStart, Spawn, SpawnFails, HandshakeRead,
         HandshakeFails, Healthy, HealthFails, Supervising, Locked
<1>2. \A u \in Threads : u # t => pc[u] \notin Booting
  BY <1>1, Lone DEF Supervising, Locked
<1>3. stopping = 0
  BY <1>1 DEF DownInv
<1>4. CASE Launch(t) \/ RequestStart(t)
  <2>1. PICK l \in { "request", "spawn" } : Goto(t, l)
    BY <1>4 DEF Launch, RequestStart
  <2>2. child = 0 /\ state # "Running" /\ state' # "Running"
    BY <1>4, <1>1 DEF Launch, RequestStart, ChildInv, LifecycleInv
  <2>3. UNCHANGED << live, booting, child, stopping, port >>
    BY <1>4 DEF Launch, RequestStart
  <2>4. pc[t] \notin Booting
    BY <1>4 DEF Launch, RequestStart
  <2> QED
    BY <2>1, <2>2, <2>3, <2>4, Moves DEF ChildInv
<1>5. CASE Spawn(t)
  <2>1. pc[t] = "spawn" /\ pc'[t] = "handshake"
        /\ \A u \in Threads : u # t => pc'[u] = pc[u]
    BY <1>5, Moves DEF Spawn
  <2>2. state = "Starting" /\ child = 0 /\ booting = 0 /\ live = {}
    BY <1>2, <1>3, <2>1 DEF ChildInv, LifecycleInv
  <2>3. /\ live' = { launches + 1 } /\ booting' = launches + 1
        /\ UNCHANGED << state, child, port, stopping >>
    BY <1>5, <2>2 DEF Spawn
  <2>4. launches + 1 # 0
    BY DEF TypeOK, OsTypes
  <2> QED
    BY <1>2, <1>3, <2>1, <2>2, <2>3, <2>4 DEF ChildInv
<1>6. CASE SpawnFails(t)
  <2>1. pc[t] = "spawn" /\ pc'[t] = "emitStarting"
        /\ \A u \in Threads : u # t => pc'[u] = pc[u]
    BY <1>6, Moves DEF SpawnFails, StartReturns
  <2>2. state = "Starting" /\ child = 0 /\ booting = 0 /\ live = {}
    BY <1>2, <1>3, <2>1 DEF ChildInv, LifecycleInv
  <2>3. /\ booting' = 0 /\ state' = "Failed"
        /\ UNCHANGED << live, child, port, stopping >>
    BY <1>6 DEF SpawnFails, StartReturns
  <2> QED
    BY <1>2, <1>3, <2>1, <2>2, <2>3 DEF ChildInv
<1>7. CASE HandshakeRead(t)
  <2>1. pc[t] = "handshake" /\ pc'[t] = "health"
        /\ \A u \in Threads : u # t => pc'[u] = pc[u]
    BY <1>7, Moves DEF HandshakeRead
  <2>2. booting # 0 /\ child = 0
    BY <2>1 DEF ChildInv
  <2>3. /\ port' = booting
        /\ UNCHANGED << live, child, booting, state, stopping >>
    BY <1>7 DEF HandshakeRead
  <2> QED
    BY <1>2, <2>1, <2>2, <2>3 DEF ChildInv
<1>8. CASE HandshakeFails(t) \/ HealthFails(t)
  <2>1. pc[t] \in Booting /\ pc'[t] = "emitStarting"
        /\ \A u \in Threads : u # t => pc'[u] = pc[u]
    BY <1>8, Moves DEF HandshakeFails, HealthFails, StartReturns
  <2>2. booting # 0 /\ child = 0 /\ live \subseteq { booting }
    BY <1>3, <2>1 DEF ChildInv
  <2>3. /\ live' = live \ { booting } /\ booting' = 0 /\ state' = "Timeout"
        /\ UNCHANGED << child, port, stopping >>
    BY <1>8 DEF HandshakeFails, HealthFails, StartReturns
  <2> QED
    BY <1>2, <1>3, <2>1, <2>2, <2>3 DEF ChildInv
<1>9. CASE Healthy(t)
  <2>1. pc[t] = "health" /\ pc'[t] = "emitStarting"
        /\ \A u \in Threads : u # t => pc'[u] = pc[u]
    BY <1>9, Moves DEF Healthy, StartReturns
  <2>2. booting # 0 /\ live \subseteq { booting } /\ port = booting
    BY <1>3, <2>1 DEF ChildInv
  <2>3. /\ child' = booting /\ booting' = 0 /\ state' = "Running"
        /\ UNCHANGED << live, port, stopping >>
    BY <1>9 DEF Healthy, StartReturns
  <2> QED
    BY <1>2, <1>3, <2>1, <2>2, <2>3 DEF ChildInv
<1> QED
  BY <1>4, <1>5, <1>6, <1>7, <1>8, <1>9 DEF StartStep

(* A step of the other families leaves the threads that wait for a child     *)
(* alone.                                                                    *)
LEMMA NobodyBoots ==
  ASSUME TypeOK, SupervisionInv, NEW t \in Threads,
         ReportStep(t) \/ HandleStep(t) \/ RestartStep(t)
  PROVE  \A u \in Threads :
           pc'[u] = pc[u] \/ (pc[u] \notin Booting /\ pc'[u] \notin Booting)
<1> USE DEF At, Booting
<1>1. CASE Schedule(t)
  BY <1>1, ScheduleMoves
<1>2. CASE ~Schedule(t)
  <2>1. pc[t] \notin Booting
    BY <1>2 DEF ReportStep, EmitStarting, EmitOutcome, BeginWindow, DropWindow,
       PollStops, PollFindsCrash, EmitCrash, HandleStep, CancelWindow,
       DecideRestart, CheckExit, RecordAttempt, Rollback, EmitScheduled,
       EmitExhausted, RestartStep, TimerFires, AttemptRestart, Reset
  <2>2. \E l : l \notin Booting /\ Goto(t, l)
    BY <1>2 DEF ReportStep, EmitStarting, EmitOutcome, BeginWindow, DropWindow,
       PollStops, PollFindsCrash, EmitCrash, HandleStep, CancelWindow,
       DecideRestart, CheckExit, RecordAttempt, Rollback, EmitScheduled,
       EmitExhausted, RestartStep, TimerFires, AttemptRestart, Reset
  <2> QED
    BY <2>1, <2>2, Moves
<1> QED
  BY <1>1, <1>2

LEMMA ThreadHandles ==
  ASSUME TypeOK, SupervisionInv, LifecycleInv, ChildInv, NEW t \in Threads,
         ReportStep(t) \/ HandleStep(t) \/ RestartStep(t)
  PROVE  ChildInv'
<1> USE DEF processVars, osVars, exitVars
<1>1. \A u \in Threads :
        pc'[u] = pc[u] \/ (pc[u] \notin Booting /\ pc'[u] \notin Booting)
  BY NobodyBoots
<1>2. CASE PollFindsCrash(t)
  <2>1. /\ child # 0 /\ child \notin live /\ child' = 0 /\ state' = "Crashed"
        /\ UNCHANGED << live, port, booting, stopping >>
    BY <1>2 DEF PollFindsCrash
  <2> QED
    BY <1>1, <2>1 DEF ChildInv, Someone, Booting
<1>3. CASE Reset(t)
  <2>1. /\ state # "Running" /\ state' = "NotStarted"
        /\ UNCHANGED << live, child, port, booting, stopping >>
    BY <1>3 DEF Reset, At, LifecycleInv, Retryable
  <2> QED
    BY <1>1, <2>1 DEF ChildInv, Someone, Booting
<1>4. CASE ~PollFindsCrash(t) /\ ~Reset(t)
  <2>1. UNCHANGED << live, booting, child, stopping, port, state >>
    BY <1>4 DEF ReportStep, EmitStarting, EmitOutcome, BeginWindow, DropWindow,
       PollStops, EmitCrash, HandleStep, CancelWindow, DecideRestart, CheckExit,
       RecordAttempt, Schedule, Rollback, EmitScheduled, EmitExhausted,
       RestartStep, TimerFires, AttemptRestart
  <2> QED
    BY <1>1, <2>1, HandlesKept
<1> QED
  BY <1>2, <1>3, <1>4

LEMMA ExitHandles ==
  ASSUME TypeOK, LifecycleInv, ChildInv, DownInv, ExitBegins \/ ExitStep
  PROVE  ChildInv'
<1> USE DEF processVars, osVars, exitVars
<1>1. pc' = pc
  BY DEF ExitStep, ExitBegins, ExitCancelsRestart, ExitCancelsWindow,
     ShutdownNotRunning, ShutdownBegins, ShutdownReaps, ShutdownTimesOut,
     EmitStopping, EmitFinal, AppEnds
<1>2. CASE ShutdownBegins
  <2>1. /\ state = "Running" /\ state' = "Stopping"
        /\ stopping' = child /\ child' = 0 /\ UNCHANGED << live, port, booting >>
    BY <1>2 DEF ShutdownBegins
  <2>2. child # 0 /\ stopping = 0 /\ booting = 0
    BY <2>1 DEF ChildInv
  <2> QED
    BY <1>1, <2>1, <2>2 DEF ChildInv, Someone
<1>3. CASE ShutdownReaps \/ ShutdownTimesOut
  <2>1. /\ state = "Stopping" /\ state' # "Running" /\ live' \subseteq live
        /\ UNCHANGED << child, port, booting, stopping >>
    BY <1>3 DEF ShutdownReaps, ShutdownTimesOut, ExitGoto, LifecycleInv
  <2> QED
    BY <1>1, <2>1 DEF ChildInv, Someone
<1>4. CASE ~(ShutdownBegins \/ ShutdownReaps \/ ShutdownTimesOut)
  <2>1. UNCHANGED << live, booting, child, stopping, port, state >>
    BY <1>4 DEF ExitStep, ExitBegins, ExitCancelsRestart, ExitCancelsWindow,
       ShutdownNotRunning, EmitStopping, EmitFinal, AppEnds
  <2> QED
    BY <1>1, <2>1, HandlesKept
<1> QED
  BY <1>2, <1>3, <1>4

LEMMA ChildStep ==
  ASSUME TypeOK, SupervisionInv, LifecycleInv, ChildInv, DownInv, [Next]_vars
  PROVE  ChildInv'
<1> USE DEF processVars, osVars, exitVars
<1>1. CASE \E t \in Threads : ThreadStep(t)
  BY <1>1, StartHandles, ThreadHandles DEF ThreadStep
<1>2. CASE \E w \in StabilityTokens : StabilityStep(w)
  BY <1>2, HandlesKept DEF StabilityStep, StabilityFires, StabilityChecks,
     StabilityResets
<1>3. CASE ExitBegins \/ ExitStep
  BY <1>3, ExitHandles
<1>4. CASE \E c \in live : ChildDies(c)
  BY <1>4, HandlesKept DEF ChildDies
<1>5. CASE UNCHANGED vars
  BY <1>5, HandlesKept DEF vars
<1> QED
  BY <1>1, <1>2, <1>3, <1>4, <1>5 DEF Next, Finished

-----------------------------------------------------------------------------
(***************************************************************************)
(* The exit handler and the restarts                                       *)
(***************************************************************************)

(* The threads that may still take a child into the world *)
Launching == { "launch" } \cup Locked

(* A step outside the exit handler by which nobody comes to launch, and      *)
(* nobody is born.                                                           *)
LEMMA DownKept ==
  ASSUME DownInv, live' \subseteq live,
         UNCHANGED << launches, exitVars >>,
         \A u \in Threads :
           pc'[u] = pc[u] \/ pc'[u] \notin Launching \cup { "restart" }
  PROVE  DownInv'
<1>1. 0 \in Threads
  BY BoundAssumption DEF Threads
<1> QED
  BY <1>1 DEF DownInv, Someone, PastShutdown, RestartsStayDown, Launching, Locked,
     exitVars

LEMMA StartDown ==
  ASSUME TypeOK, SupervisionInv, DownInv, NEW t \in Threads, StartStep(t)
  PROVE  DownInv'
<1> USE DEF At, exitVars, osVars, Someone, PastShutdown, RestartsStayDown
<1>1. pc[t] \in Supervising /\ pc[t] \in Launching
  BY DEF StartStep, Launch, RequestStart, Spawn, SpawnFails, HandshakeRead,
         HandshakeFails, Healthy, HealthFails, Supervising, Launching, Locked
<1>2. UNCHANGED exitVars /\ stopping = 0 /\ exitPc # "killWait"
  BY <1>1 DEF DownInv, StartStep, Launch, RequestStart, Spawn, SpawnFails,
     HandshakeRead, HandshakeFails, Healthy, HealthFails, Launching
<1>3. /\ \A u \in Threads : u # t => pc'[u] = pc[u] /\ pc[u] \notin Launching
      /\ pc'[t] \in Locked \cup { "emitStarting" } /\ pc'[t] # "reset"
  <2>1. \E l : /\ Goto(t, l) /\ l # "reset"
               /\ l \in Locked \cup { "emitStarting" }
    BY DEF StartStep, Launch, RequestStart, Spawn, SpawnFails, HandshakeRead,
       HandshakeFails, Healthy, HealthFails, StartReturns, Locked
  <2> QED
    BY <1>1, <2>1, Lone, Moves DEF Launching, Supervising
<1>4. 0 \in Threads
  BY BoundAssumption DEF Threads
<1>5. CASE t # 0
  <2>1. ~PastShutdown
    BY <1>1, <1>5 DEF DownInv, Launching
  <2>2. pc'[0] \notin Launching \cup { "restart", "reset" }
    BY <1>3, <1>4, <1>5 DEF DownInv
  <2> QED
    BY <1>2, <1>3, <2>1, <2>2 DEF DownInv, Launching, Locked
<1>6. CASE t = 0
  <2>1. pc'[0] \in { "request", "spawn" } => launches' = 0
    BY <1>3, <1>6 DEF DownInv, StartStep, Launch, RequestStart, Spawn,
       SpawnFails, HandshakeRead, HandshakeFails, Healthy, HealthFails,
       StartReturns, Goto, TypeOK, ThreadTypes
  <2>2. live' \subseteq live \cup { 1 }
    <3>1. CASE Spawn(t)
      BY <1>6, <3>1 DEF Spawn, DownInv
    <3>2. CASE ~Spawn(t)
      BY <3>2 DEF StartStep, Launch, RequestStart, SpawnFails, HandshakeRead,
         HandshakeFails, Healthy, HealthFails
    <3> QED
      BY <3>1, <3>2
  <2> QED
    BY <1>2, <1>3, <1>6, <2>1, <2>2 DEF DownInv, Launching, Locked
<1> QED
  BY <1>5, <1>6

LEMMA RestartDown ==
  ASSUME TypeOK, SupervisionInv, DownInv, NEW t \in Threads,
         AttemptRestart(t) \/ Reset(t) \/ TimerFires(t)
  PROVE  DownInv'
<1> USE DEF At, exitVars, osVars, Someone, PastShutdown, RestartsStayDown
<1>1. UNCHANGED << live, launches, exitVars >> /\ t # 0
  BY DEF AttemptRestart, Reset, TimerFires, DownInv, SupervisionInv, TokensFresh
<1>2. /\ pc'[t] \in { "reset", "request", "restart", "done" }
      /\ \A u \in Threads : u # t => pc'[u] = pc[u]
  BY DEF AttemptRestart, Reset, TimerFires, Goto, TypeOK, ThreadTypes
<1>3. 0 \in Threads
  BY BoundAssumption DEF Threads
<1>4. pc'[t] \in Locked => ~PastShutdown
  BY <1>1 DEF AttemptRestart, Reset, TimerFires, RestartStillEligible, DownInv,
     Goto, TypeOK, ThreadTypes, Locked
<1> QED
  BY <1>1, <1>2, <1>3, <1>4 DEF DownInv, Locked

LEMMA ExitDown ==
  ASSUME TypeOK, LifecycleInv, ChildInv, DownInv, ExitBegins \/ ExitStep
  PROVE  DownInv'
<1> USE DEF exitVars, osVars, processVars, Someone, PastShutdown,
        RestartsStayDown, ExitGoto
<1>1. UNCHANGED << pc, launches >>
  BY DEF ExitStep, ExitBegins, ExitCancelsRestart, ExitCancelsWindow,
     ShutdownNotRunning, ShutdownBegins, ShutdownReaps, ShutdownTimesOut,
     EmitStopping, EmitFinal, AppEnds
<1>2. CASE ExitBegins \/ ExitCancelsRestart \/ ExitCancelsWindow
  <2>1. /\ exitPc \in { "idle", "cancelRestart", "cancelWindow" }
        /\ exitPc' \in { "cancelRestart", "cancelWindow", "shutdown" }
        /\ shuttingDown' /\ stopping' = stopping
    BY <1>2 DEF ExitBegins, ExitCancelsRestart, ExitCancelsWindow, DownInv
  <2> QED
    BY <1>1, <2>1 DEF DownInv
<1>3. CASE ShutdownNotRunning
  <2>1. /\ exitPc = "shutdown" /\ exitPc' = "done" /\ state # "Running"
        /\ \A u \in Threads : pc[u] \notin Locked
        /\ UNCHANGED << live, stopping, shuttingDown >>
    BY <1>3 DEF ShutdownNotRunning, ProcessLockFree
  <2>2. stopping = 0 /\ booting = 0 /\ child = 0 /\ shuttingDown
    BY <2>1 DEF DownInv, ChildInv, Locked
  <2>3. live = {}
    BY <2>2 DEF ChildInv
  <2> QED
    BY <1>1, <2>1, <2>2, <2>3 DEF DownInv
<1>4. CASE ShutdownBegins
  <2>1. /\ exitPc = "shutdown" /\ exitPc' = "killWait" /\ state = "Running"
        /\ \A u \in Threads : pc[u] \notin Locked
        /\ stopping' = child /\ UNCHANGED shuttingDown
    BY <1>4 DEF ShutdownBegins, ProcessLockFree
  <2>2. child # 0 /\ shuttingDown /\ \A u \in Threads : pc[u] # "launch"
    BY <2>1 DEF DownInv, ChildInv, LifecycleInv
  <2> QED
    BY <1>1, <2>1, <2>2 DEF DownInv
<1>5. CASE ShutdownReaps \/ ShutdownTimesOut
  <2>1. /\ exitPc = "killWait" /\ exitPc' = "emitStopping"
        /\ UNCHANGED << stopping, shuttingDown >>
        /\ live' = live \ { stopping } \/ exitOutcome' = "Failed"
    BY <1>5 DEF ShutdownReaps, ShutdownTimesOut
  <2>2. live \subseteq { stopping } /\ stopping # 0
    BY <2>1 DEF DownInv, ChildInv
  <2> QED
    BY <1>1, <2>1, <2>2 DEF DownInv
<1>6. CASE EmitStopping \/ EmitFinal \/ AppEnds
  <2>1. /\ exitPc \in { "emitStopping", "emitFinal", "done" }
        /\ exitPc' \in { "emitStopping", "emitFinal", "done" }
        /\ UNCHANGED << live, stopping, shuttingDown, exitOutcome >>
    BY <1>6 DEF EmitStopping, EmitFinal, AppEnds
  <2> QED
    BY <1>1, <2>1 DEF DownInv
<1> QED
  BY <1>2, <1>3, <1>4, <1>5, <1>6 DEF ExitStep

LEMMA DownStep ==
  ASSUME TypeOK, SupervisionInv, LifecycleInv, ChildInv, DownInv, [Next]_vars
  PROVE  DownInv'
<1> USE DEF osVars
<1>1. ASSUME NEW t \in Threads, ThreadStep(t) PROVE DownInv'
  <2>1. CASE StartStep(t)
    BY <2>1, StartDown
  <2>2. CASE RestartStep(t)
    BY <2>2, RestartDown DEF RestartStep
  <2>3. CASE Schedule(t)
    BY <2>3, ScheduleMoves, DownKept DEF Schedule, Launching, Locked
  <2>4. CASE (ReportStep(t) \/ HandleStep(t)) /\ ~Schedule(t)
    <3>1. live' \subseteq live /\ UNCHANGED << launches, exitVars >>
      BY <2>4 DEF ReportStep, EmitStarting, EmitOutcome, BeginWindow, DropWindow,
         PollStops, PollFindsCrash, EmitCrash, HandleStep, CancelWindow,
         DecideRestart, CheckExit, RecordAttempt, Rollback, EmitScheduled,
         EmitExhausted
    <3>2. \E l : l \notin Launching \cup { "restart" } /\ Goto(t, l)
      BY <2>4 DEF ReportStep, EmitStarting, EmitOutcome, BeginWindow, DropWindow,
         PollStops, PollFindsCrash, EmitCrash, HandleStep, CancelWindow,
         DecideRestart, CheckExit, RecordAttempt, Rollback, EmitScheduled,
         EmitExhausted, Launching, Locked
    <3> QED
      BY <3>1, <3>2, Moves, DownKept
  <2> QED
    BY <1>1, <2>1, <2>2, <2>3, <2>4 DEF ThreadStep
<1>2. CASE \E w \in StabilityTokens : StabilityStep(w)
  BY <1>2, DownKept DEF StabilityStep, StabilityFires, StabilityChecks,
     StabilityResets
<1>3. CASE ExitBegins \/ ExitStep
  BY <1>3, ExitDown
<1>4. CASE \E c \in live : ChildDies(c)
  BY <1>4, DownKept DEF ChildDies
<1>5. CASE UNCHANGED vars
  BY <1>5, DownKept DEF vars
<1> QED
  BY <1>1, <1>2, <1>3, <1>4, <1>5 DEF Next, Finished

LEMMA ChildInit == Init => ChildInv /\ DownInv
<1> SUFFICES ASSUME Init PROVE ChildInv /\ DownInv
  OBVIOUS
<1>1. 0 \in Threads
  BY BoundAssumption DEF Threads
<1> QED
  BY <1>1 DEF Init, ChildInv, DownInv, Someone, PastShutdown, RestartsStayDown,
     Locked

ProcessInv == TypeOK /\ SupervisionInv /\ LifecycleInv /\ ChildInv /\ DownInv

LEMMA ProcessInvariant == Spec => []ProcessInv
<1>1. Init => ProcessInv
  BY TypeInit, SupervisionInit, LifecycleInitial, ChildInit DEF ProcessInv
<1>2. ProcessInv /\ [Next]_vars => ProcessInv'
  BY TypeStep, SupervisionStep, LifecycleStep, ChildStep, DownStep
  DEF ProcessInv
<1> QED
  BY <1>1, <1>2, PTL DEF Spec

(* At most one Python process is alive, however starts, crashes, restarts    *)
(* and the exit handler interleave: a start that fails kills and reaps its   *)
(* child, and no restart begins before.                                      *)
THEOREM OneChild == Spec => []AtMostOneChild
<1>1. ProcessInv => AtMostOneChild
  <2> SUFFICES ASSUME ProcessInv PROVE AtMostOneChild
    OBVIOUS
  <2>1. PICK c : live \subseteq { c }
    BY DEF ProcessInv, ChildInv
  <2>2. live = {} \/ live = { c }
    BY <2>1
  <2>3. Cardinality({}) = 0 /\ Cardinality({ c }) = 1
    BY FS_EmptySet, FS_Singleton
  <2> QED
    BY <2>2, <2>3 DEF AtMostOneChild
<1> QED
  BY <1>1, ProcessInvariant, PTL

(* Whoever takes the mutex finds a handle exactly when the lifecycle says    *)
(* RUNNING, and the published port is that child's.                          *)
THEOREM HandleTellsState == Spec => []HandleMatchesState
<1>1. ProcessInv => HandleMatchesState
  BY DEF ProcessInv, ChildInv, HandleMatchesState
<1> QED
  BY <1>1, ProcessInvariant, PTL

(* No restart brings a process up behind the exit handler: what is alive     *)
(* after shutdown() is the very first launch, or a child the bounded wait    *)
(* gave up on.                                                               *)
THEOREM NoRestartAfterExit == Spec => []RestartsStayDown
<1>1. ProcessInv => RestartsStayDown
  BY DEF ProcessInv, DownInv
<1> QED
  BY <1>1, ProcessInvariant, PTL

-----------------------------------------------------------------------------
(***************************************************************************)
(* What the supervising thread remembers                                   *)
(***************************************************************************)

(* A step of a supervising thread concerns its own memory only.              *)
LEMMA OwnOutcome ==
  ASSUME TypeOK, SupervisionInv, NEW t \in Threads, pc[t] \in Supervising,
         NEW l, Goto(t, l),
         /\ l \in { "emitStarting", "emitOutcome" } =>
              outcome'[t] \in { "Running", "Failed", "Timeout" }
         /\ l = "emitCrash" => outcome'[t] = "Crashed"
         /\ l \in { "emitStarting", "emitOutcome", "emitCrash" } =>
              state' = outcome'[t] \/ (outcome'[t] = "Running" /\ shuttingDown')
         /\ l \in { "beginWindow", "dropWindow", "poll" } =>
              state' = "Running" \/ shuttingDown'
         /\ l \in Handling => state' \in Retryable
  PROVE  OutcomeInv'
<1>1. pc'[t] = l /\ \A u \in Threads : u # t => pc'[u] \notin Supervising
  BY Lone, Moves
<1> QED
  BY <1>1 DEF OutcomeInv, Supervising, Reporting

LEMMA StartOutcome ==
  ASSUME TypeOK, SupervisionInv, NEW t \in Threads, StartStep(t)
  PROVE  OutcomeInv'
<1>1. pc[t] \in Supervising
  BY DEF StartStep, Launch, RequestStart, Spawn, SpawnFails, HandshakeRead,
     HandshakeFails, Healthy, HealthFails, At, Supervising, Locked
<1>2. CASE Launch(t) \/ RequestStart(t) \/ Spawn(t) \/ HandshakeRead(t)
  <2>1. \E l \in Locked : Goto(t, l)
    BY <1>2 DEF Launch, RequestStart, Spawn, HandshakeRead, Locked
  <2> QED
    BY <1>1, <2>1, OwnOutcome DEF Locked, Handling
<1>3. CASE SpawnFails(t) \/ HandshakeFails(t) \/ Healthy(t) \/ HealthFails(t)
  <2>1. /\ Goto(t, "emitStarting") /\ outcome'[t] = state'
        /\ state' \in { "Running", "Failed", "Timeout" }
    BY <1>3 DEF SpawnFails, HandshakeFails, Healthy, HealthFails, StartReturns,
       TypeOK, ThreadTypes
  <2> QED
    BY <1>1, <2>1, OwnOutcome DEF Handling
<1> QED
  BY <1>2, <1>3 DEF StartStep

LEMMA ReportOutcome ==
  ASSUME TypeOK, SupervisionInv, OutcomeInv, NEW t \in Threads, ReportStep(t)
  PROVE  OutcomeInv'
<1> USE DEF At, processVars, exitVars, localVars
<1>1. pc[t] \in Supervising /\ shuttingDown' = shuttingDown
  BY DEF ReportStep, EmitStarting, EmitOutcome, BeginWindow, DropWindow,
     PollStops, PollFindsCrash, EmitCrash, Supervising, Reporting
<1>2. CASE EmitStarting(t)
  BY <1>1, <1>2, OwnOutcome DEF EmitStarting, OutcomeInv, Handling
<1>3. CASE EmitOutcome(t)
  <2>1. pc[t] = "emitOutcome" /\ UNCHANGED << state, outcome >>
    BY <1>3 DEF EmitOutcome
  <2>2. CASE outcome[t] = "Running"
    <3>1. Goto(t, "beginWindow")
      BY <1>3, <2>2 DEF EmitOutcome
    <3> QED
      BY <1>1, <2>1, <2>2, <3>1, OwnOutcome DEF OutcomeInv, Handling
  <2>3. CASE outcome[t] # "Running"
    <3>1. Goto(t, "cancelWindow") /\ state \in Retryable
      BY <1>3, <2>1, <2>3 DEF EmitOutcome, OutcomeInv, Retryable
    <3> QED
      BY <1>1, <2>1, <3>1, OwnOutcome
  <2> QED
    BY <2>2, <2>3
<1>4. CASE BeginWindow(t) \/ DropWindow(t)
  <2>1. \E l \in { "dropWindow", "poll" } : Goto(t, l)
    BY <1>4 DEF BeginWindow, DropWindow
  <2>2. state' = "Running" \/ shuttingDown'
    BY <1>1, <1>4 DEF BeginWindow, DropWindow, OutcomeInv
  <2> QED
    BY <1>1, <2>1, <2>2, OwnOutcome DEF Handling
<1>5. CASE PollStops(t)
  <2>1. Goto(t, "done")
    BY <1>5 DEF PollStops
  <2> QED
    BY <1>1, <2>1, OwnOutcome DEF Handling
<1>6. CASE PollFindsCrash(t)
  <2>1. Goto(t, "emitCrash") /\ state' = "Crashed" /\ outcome'[t] = "Crashed"
    BY <1>6 DEF PollFindsCrash, TypeOK, ThreadTypes
  <2> QED
    BY <1>1, <2>1, OwnOutcome DEF Handling
<1>7. CASE EmitCrash(t)
  <2>1. Goto(t, "cancelWindow") /\ state' \in Retryable
    BY <1>7 DEF EmitCrash, OutcomeInv, Retryable
  <2> QED
    BY <1>1, <2>1, OwnOutcome
<1> QED
  BY <1>2, <1>3, <1>4, <1>5, <1>6, <1>7 DEF ReportStep

(* A step that neither moves the lifecycle nor brings a thread to where its  *)
(* memory matters.                                                           *)
LEMMA OutcomeKept ==
  ASSUME OutcomeInv, UNCHANGED << state, outcome >>, shuttingDown => shuttingDown',
         \A u \in Threads :
           \/ pc'[u] = pc[u]
           \/ pc'[u] \notin { "poll" } \cup Reporting \cup Handling
           \/ pc[u] \in Handling /\ pc'[u] \in Handling
  PROVE  OutcomeInv'
BY DEF OutcomeInv, Reporting, Handling

LEMMA HandleOutcome ==
  ASSUME TypeOK, SupervisionInv, OutcomeInv, NEW t \in Threads,
         HandleStep(t) \/ TimerFires(t) \/ AttemptRestart(t)
  PROVE  OutcomeInv'
<1> USE DEF At, processVars, exitVars, localVars
<1>1. UNCHANGED << state, outcome, shuttingDown >>
  BY DEF HandleStep, CancelWindow, DecideRestart, CheckExit, RecordAttempt,
     Schedule, Rollback, EmitScheduled, EmitExhausted, TimerFires,
     AttemptRestart
<1>2. CASE Schedule(t)
  BY <1>1, <1>2, ScheduleMoves, OutcomeKept DEF Reporting, Handling
<1>3. CASE ~Schedule(t)
  <2>1. \E l : /\ Goto(t, l)
               /\ \/ l \notin { "poll" } \cup Reporting \cup Handling
                  \/ pc[t] \in Handling /\ l \in Handling
    BY <1>3 DEF HandleStep, CancelWindow, DecideRestart, CheckExit,
       RecordAttempt, Rollback, EmitScheduled, EmitExhausted, TimerFires,
       AttemptRestart, Reporting, Handling
  <2> QED
    BY <1>1, <2>1, Moves, OutcomeKept
<1> QED
  BY <1>2, <1>3

LEMMA ResetOutcome ==
  ASSUME TypeOK, SupervisionInv, NEW t \in Threads, Reset(t)
  PROVE  OutcomeInv'
<1>1. pc[t] \in Supervising /\ Goto(t, "request")
  BY DEF Reset, At, Supervising, Locked
<1> QED
  BY <1>1, OwnOutcome DEF Handling

LEMMA ExitOutcome ==
  ASSUME TypeOK, LifecycleInv, DownInv, OutcomeInv, ExitBegins \/ ExitStep
  PROVE  OutcomeInv'
<1> USE DEF exitVars, processVars, localVars
<1>1. UNCHANGED << pc, outcome >> /\ (shuttingDown => shuttingDown')
  BY DEF ExitStep, ExitBegins, ExitCancelsRestart, ExitCancelsWindow,
     ShutdownNotRunning, ShutdownBegins, ShutdownReaps, ShutdownTimesOut,
     EmitStopping, EmitFinal, AppEnds
<1>2. CASE ShutdownBegins \/ ShutdownReaps \/ ShutdownTimesOut
  <2>1. state \in { "Running", "Stopping" } /\ shuttingDown
    BY <1>2 DEF ShutdownBegins, ShutdownReaps, ShutdownTimesOut, ExitGoto,
       LifecycleInv, DownInv
  <2> QED
    BY <1>1, <2>1 DEF OutcomeInv, Retryable
<1>3. CASE ~(ShutdownBegins \/ ShutdownReaps \/ ShutdownTimesOut)
  <2>1. state' = state
    BY <1>3 DEF ExitStep, ExitBegins, ExitCancelsRestart, ExitCancelsWindow,
       ShutdownNotRunning, EmitStopping, EmitFinal, AppEnds
  <2> QED
    BY <1>1, <2>1, OutcomeKept
<1> QED
  BY <1>2, <1>3

LEMMA OutcomeStep ==
  ASSUME ProcessInv, OutcomeInv, [Next]_vars
  PROVE  OutcomeInv'
<1> USE DEF ProcessInv, processVars, exitVars, localVars
<1>1. CASE \E t \in Threads : ThreadStep(t)
  BY <1>1, StartOutcome, ReportOutcome, HandleOutcome, ResetOutcome
  DEF ThreadStep, RestartStep
<1>2. CASE \E w \in StabilityTokens : StabilityStep(w)
  BY <1>2, OutcomeKept DEF StabilityStep, StabilityFires, StabilityChecks,
     StabilityResets
<1>3. CASE ExitBegins \/ ExitStep
  BY <1>3, ExitOutcome
<1>4. CASE \E c \in live : ChildDies(c)
  BY <1>4, OutcomeKept DEF ChildDies
<1>5. CASE UNCHANGED vars
  BY <1>5, OutcomeKept DEF vars
<1> QED
  BY <1>1, <1>2, <1>3, <1>4, <1>5 DEF Next, Finished

-----------------------------------------------------------------------------
(***************************************************************************)
(* What was announced                                                      *)
(***************************************************************************)

(* Where the last announcement lags behind the lifecycle state *)
Owing == Locked \cup Reporting

(* What the last announcement is while a thread is at l *)
AnnouncedAt(l) ==
  CASE l = "reset" -> state
    [] l \in (Locked \ { "reset" }) \cup { "emitStarting" } -> "NotStarted"
    [] l = "emitOutcome" -> "Starting"
    [] l \in { "beginWindow", "dropWindow", "emitCrash" } -> "Running"
    [] OTHER -> state

LEMMA AnnouncedByLabel ==
  ASSUME AnnouncedInv, ~shuttingDown, NEW t \in Threads, SupervisionInv,
         pc[t] \in Supervising
  PROVE  event.state = AnnouncedAt(pc[t])
<1>1. CASE pc[t] \in Owing
  BY <1>1 DEF AnnouncedInv, AnnouncedAt, Owing, Reporting, Locked
<1>2. CASE pc[t] \notin Owing
  <2>1. \A u \in Threads : pc[u] \notin Owing
    BY <1>2, Lone DEF Owing, Supervising
  <2>2. event.state = state
    BY <2>1 DEF AnnouncedInv, Someone, Owing
  <2> QED
    BY <1>2, <2>2 DEF AnnouncedAt, Owing, Reporting, Locked
<1> QED
  BY <1>1, <1>2

(* A step of a supervising thread concerns its own announcement only.        *)
LEMMA OwnAnnouncement ==
  ASSUME TypeOK, SupervisionInv, NEW t \in Threads, pc[t] \in Supervising,
         NEW l, Goto(t, l), ~shuttingDown' => event'.state = AnnouncedAt(l)'
  PROVE  AnnouncedInv'
<1>1. pc'[t] = l /\ \A u \in Threads : u # t => pc'[u] \notin Owing
  BY Lone, Moves DEF Owing, Supervising
<1> QED
  BY <1>1 DEF AnnouncedInv, AnnouncedAt, Someone, Owing, Reporting, Locked

LEMMA AnnouncedKept ==
  ASSUME AnnouncedInv, state' = state, event'.state = event.state,
         shuttingDown => shuttingDown',
         \A u \in Threads :
           pc'[u] = pc[u] \/ (pc[u] \notin Owing /\ pc'[u] \notin Owing)
  PROVE  AnnouncedInv'
BY DEF AnnouncedInv, Someone, Owing, Reporting, Locked

LEMMA StartAnnounced ==
  ASSUME TypeOK, SupervisionInv, LifecycleInv, AnnouncedInv,
         NEW t \in Threads, StartStep(t)
  PROVE  AnnouncedInv'
<1>1. pc[t] \in Supervising /\ pc[t] \in { "launch" } \cup (Locked \ { "reset" })
  BY DEF StartStep, Launch, RequestStart, Spawn, SpawnFails, HandshakeRead,
     HandshakeFails, Healthy, HealthFails, At, Supervising, Locked
<1>2. UNCHANGED << event, shuttingDown >>
  BY DEF StartStep, Launch, RequestStart, Spawn, SpawnFails, HandshakeRead,
     HandshakeFails, Healthy, HealthFails, exitVars
<1>3. \E l \in (Locked \ { "reset" }) \cup { "emitStarting" } : Goto(t, l)
  BY DEF StartStep, Launch, RequestStart, Spawn, SpawnFails, HandshakeRead,
     HandshakeFails, Healthy, HealthFails, StartReturns, Locked
<1>4. ~shuttingDown => event.state = "NotStarted"
  BY <1>1, AnnouncedByLabel DEF AnnouncedAt, LifecycleInv, Locked
<1> QED
  BY <1>1, <1>2, <1>3, <1>4, OwnAnnouncement DEF AnnouncedAt, Locked

LEMMA ReportAnnounced ==
  ASSUME TypeOK, SupervisionInv, OutcomeInv, AnnouncedInv, NEW t \in Threads,
         ReportStep(t)
  PROVE  AnnouncedInv'
<1> USE DEF At, processVars, exitVars, localVars
<1>1. pc[t] \in Supervising /\ shuttingDown' = shuttingDown
  BY DEF ReportStep, EmitStarting, EmitOutcome, BeginWindow, DropWindow,
     PollStops, PollFindsCrash, EmitCrash, Supervising, Reporting
<1>2. ~shuttingDown => event.state = AnnouncedAt(pc[t])
  BY <1>1, AnnouncedByLabel
<1>3. CASE EmitStarting(t)
  <2>1. Goto(t, "emitOutcome") /\ event'.state = "Starting"
    BY <1>3 DEF EmitStarting, EmitStateChanged
  <2> QED
    BY <1>1, <2>1, OwnAnnouncement DEF AnnouncedAt, Locked
<1>4. CASE EmitOutcome(t)
  <2>1. /\ pc[t] = "emitOutcome" /\ event'.state = outcome[t] /\ state' = state
        /\ Goto(t, IF outcome[t] = "Running" THEN "beginWindow"
                                             ELSE "cancelWindow")
    BY <1>4 DEF EmitOutcome, EmitStateChanged
  <2>2. ~shuttingDown => state = outcome[t]
    BY <2>1 DEF OutcomeInv
  <2> QED
    BY <1>1, <2>1, <2>2, OwnAnnouncement DEF AnnouncedAt, Locked
<1>5. CASE BeginWindow(t) \/ DropWindow(t)
  <2>1. pc[t] \in { "beginWindow", "dropWindow" } /\ UNCHANGED << state, event >>
    BY <1>5 DEF BeginWindow, DropWindow
  <2>2. PICK l \in { "dropWindow", "poll" } : Goto(t, l)
    BY <1>5 DEF BeginWindow, DropWindow
  <2>3. ~shuttingDown => state = "Running" /\ event.state = "Running"
    BY <1>2, <2>1 DEF OutcomeInv, AnnouncedAt, Locked
  <2> QED
    BY <1>1, <2>1, <2>2, <2>3, OwnAnnouncement DEF AnnouncedAt, Locked
<1>6. CASE PollStops(t)
  <2>1. pc[t] = "poll" /\ Goto(t, "done") /\ UNCHANGED << state, event >>
    BY <1>6 DEF PollStops
  <2> QED
    BY <1>1, <1>2, <2>1, OwnAnnouncement DEF AnnouncedAt, Locked
<1>7. CASE PollFindsCrash(t)
  <2>1. /\ pc[t] = "poll" /\ Goto(t, "emitCrash") /\ state = "Running"
        /\ event' = event
    BY <1>7 DEF PollFindsCrash
  <2> QED
    BY <1>1, <1>2, <2>1, OwnAnnouncement DEF AnnouncedAt, Locked
<1>8. CASE EmitCrash(t)
  <2>1. /\ pc[t] = "emitCrash" /\ Goto(t, "cancelWindow")
        /\ event'.state = outcome[t] /\ state' = state
    BY <1>8 DEF EmitCrash, EmitStateChanged
  <2>2. ~shuttingDown => state = outcome[t]
    BY <2>1 DEF OutcomeInv
  <2> QED
    BY <1>1, <2>1, <2>2, OwnAnnouncement DEF AnnouncedAt, Locked
<1> QED
  BY <1>3, <1>4, <1>5, <1>6, <1>7, <1>8 DEF ReportStep

LEMMA HandleAnnounced ==
  ASSUME TypeOK, SupervisionInv, AnnouncedInv, NEW t \in Threads,
         HandleStep(t) \/ TimerFires(t)
  PROVE  AnnouncedInv'
<1> USE DEF At, processVars, exitVars, localVars
<1>1. /\ UNCHANGED << state, shuttingDown >>
      /\ event'.state = event.state
  BY DEF HandleStep, CancelWindow, DecideRestart, CheckExit, RecordAttempt,
     Schedule, Rollback, EmitScheduled, EmitExhausted, TimerFires, EmitRestart
<1>2. CASE Schedule(t)
  BY <1>1, <1>2, ScheduleMoves, AnnouncedKept DEF Owing, Locked, Reporting
<1>3. CASE ~Schedule(t)
  <2>1. pc[t] \notin Owing /\ \E l : Goto(t, l) /\ l \notin Owing
    BY <1>3 DEF HandleStep, CancelWindow, DecideRestart, CheckExit,
       RecordAttempt, Rollback, EmitScheduled, EmitExhausted, TimerFires,
       Owing, Locked, Reporting
  <2> QED
    BY <1>1, <2>1, Moves, AnnouncedKept
<1> QED
  BY <1>2, <1>3

LEMMA RestartAnnounced ==
  ASSUME TypeOK, SupervisionInv, AnnouncedInv, NEW t \in Threads,
         AttemptRestart(t) \/ Reset(t)
  PROVE  AnnouncedInv'
<1> USE DEF At, processVars, exitVars
<1>1. pc[t] \in Supervising /\ UNCHANGED shuttingDown
  BY DEF AttemptRestart, Reset, Supervising, Locked
<1>2. ~shuttingDown => event.state = AnnouncedAt(pc[t])
  BY <1>1, AnnouncedByLabel
<1>3. CASE AttemptRestart(t)
  <2>1. pc[t] = "restart" /\ UNCHANGED << state, event >>
    BY <1>3 DEF AttemptRestart
  <2>2. PICK l \in { "reset", "done" } : Goto(t, l)
    BY <1>3 DEF AttemptRestart
  <2> QED
    BY <1>1, <1>2, <2>1, <2>2, OwnAnnouncement DEF AnnouncedAt, Locked
<1>4. CASE Reset(t)
  <2>1. Goto(t, "request") /\ event'.state = "NotStarted"
    BY <1>4 DEF Reset, EmitStateChanged
  <2> QED
    BY <1>1, <2>1, OwnAnnouncement DEF AnnouncedAt, Locked
<1> QED
  BY <1>3, <1>4

LEMMA ExitAnnounced ==
  ASSUME TypeOK, DownInv, AnnouncedInv, ExitBegins \/ ExitStep
  PROVE  AnnouncedInv'
<1>1. shuttingDown'
  BY DEF ExitStep, ExitBegins, ExitCancelsRestart, ExitCancelsWindow,
     ShutdownNotRunning, ShutdownBegins, ShutdownReaps, ShutdownTimesOut,
     EmitStopping, EmitFinal, AppEnds, ExitGoto, DownInv, exitVars
<1> QED
  BY <1>1 DEF AnnouncedInv

LEMMA AnnouncedStep ==
  ASSUME ProcessInv, OutcomeInv, AnnouncedInv, [Next]_vars
  PROVE  AnnouncedInv'
<1> USE DEF ProcessInv, processVars, exitVars
<1>1. CASE \E t \in Threads : ThreadStep(t)
  BY <1>1, StartAnnounced, ReportAnnounced, HandleAnnounced, RestartAnnounced
  DEF ThreadStep, RestartStep
<1>2. CASE \E w \in StabilityTokens : StabilityStep(w)
  BY <1>2, AnnouncedKept DEF StabilityStep, StabilityFires, StabilityChecks,
     StabilityResets
<1>3. CASE ExitBegins \/ ExitStep
  BY <1>3, ExitAnnounced
<1>4. CASE \E c \in live : ChildDies(c)
  BY <1>4, AnnouncedKept DEF ChildDies
<1>5. CASE UNCHANGED vars
  BY <1>5, AnnouncedKept DEF vars
<1> QED
  BY <1>1, <1>2, <1>3, <1>4, <1>5 DEF Next, Finished

ReportInv == ProcessInv /\ OutcomeInv /\ AnnouncedInv

LEMMA ReportInvariant == Spec => []ReportInv
<1>1. Init => ReportInv
  <2> SUFFICES ASSUME Init PROVE ReportInv
    OBVIOUS
  <2>1. ProcessInv
    BY TypeInit, SupervisionInit, LifecycleInitial, ChildInit DEF ProcessInv
  <2>2. OutcomeInv /\ AnnouncedInv
    BY DEF Init, OutcomeInv, AnnouncedInv, Someone, Locked, Reporting, Handling
  <2> QED
    BY <2>1, <2>2 DEF ReportInv
<1>2. ReportInv /\ [Next]_vars => ReportInv'
  <2> SUFFICES ASSUME ReportInv, [Next]_vars PROVE ReportInv'
    OBVIOUS
  <2>1. ProcessInv'
    BY TypeStep, SupervisionStep, LifecycleStep, ChildStep, DownStep
    DEF ProcessInv, ReportInv
  <2> QED
    BY <2>1, OutcomeStep, AnnouncedStep DEF ReportInv
<1> QED
  BY <1>1, <1>2, PTL DEF Spec

(* A frontend that has seen every event knows the lifecycle state, unless a  *)
(* thread still owes an announcement or the application is exiting.          *)
THEOREM QuietIsAnnounced == Spec => []QuietMeansAnnounced
<1>1. ReportInv => QuietMeansAnnounced
  BY DEF ReportInv, AnnouncedInv, QuietMeansAnnounced
<1> QED
  BY <1>1, ReportInvariant, PTL

(* A step that announces a change announces it from the state announced      *)
(* last.                                                                     *)
LEMMA ChainStep ==
  ASSUME ReportInv, Next, event' # event, event'.kind = "state_changed",
         ~shuttingDown
  PROVE  event'.previous = event.state
<1> USE DEF ReportInv, ProcessInv, At
<1>1. ASSUME NEW t \in Threads, ThreadStep(t)
      PROVE  event'.previous = event.state
  <2>1. pc[t] \in Supervising => event.state = AnnouncedAt(pc[t])
    BY AnnouncedByLabel
  <2>2. CASE EmitStarting(t)
    BY <2>1, <2>2 DEF EmitStarting, EmitStateChanged, Supervising, Reporting,
       AnnouncedAt, Locked
  <2>3. CASE EmitOutcome(t)
    BY <2>1, <2>3 DEF EmitOutcome, EmitStateChanged, Supervising, Reporting,
       AnnouncedAt, Locked
  <2>4. CASE EmitCrash(t)
    BY <2>1, <2>4 DEF EmitCrash, EmitStateChanged, Supervising, Reporting,
       AnnouncedAt, Locked
  <2>5. CASE Reset(t)
    BY <2>1, <2>5 DEF Reset, EmitStateChanged, Supervising, AnnouncedAt, Locked
  <2>6. CASE EmitScheduled(t) \/ EmitExhausted(t)
    BY <2>6 DEF EmitScheduled, EmitExhausted, EmitRestart
  <2> QED
    BY <1>1, <2>2, <2>3, <2>4, <2>5, <2>6
    DEF ThreadStep, StartStep, Launch, RequestStart, Spawn, SpawnFails,
        HandshakeRead, HandshakeFails, Healthy, HealthFails, ReportStep,
        BeginWindow, DropWindow, PollStops, PollFindsCrash, HandleStep,
        CancelWindow, DecideRestart, CheckExit, RecordAttempt, Schedule,
        Rollback, RestartStep, TimerFires, AttemptRestart
<1>2. CASE ExitBegins \/ ExitStep
  BY <1>2 DEF ExitStep, ExitBegins, ExitCancelsRestart, ExitCancelsWindow,
     ShutdownNotRunning, ShutdownBegins, ShutdownReaps, ShutdownTimesOut,
     EmitStopping, EmitFinal, AppEnds, ExitGoto, DownInv
<1>3. ~(\E w \in StabilityTokens : StabilityStep(w))
  BY DEF StabilityStep, StabilityFires, StabilityChecks, StabilityResets
<1>4. ~(\E c \in live : ChildDies(c)) /\ ~Finished
  BY DEF ChildDies, Finished, vars
<1> QED
  BY <1>1, <1>2, <1>3, <1>4 DEF Next

(* Whichever threads send them, the state_changed events form one chain,     *)
(* until the exit handler reports as well.                                   *)
THEOREM EventsChain == Spec => EventChain
<1>1. ReportInv /\ [Next]_vars =>
        [ event' # event /\ event'.kind = "state_changed" /\ ~shuttingDown
            => event'.previous = event.state ]_vars
  BY ChainStep
<1> QED
  BY <1>1, ReportInvariant, PTL DEF Spec, EventChain

-----------------------------------------------------------------------------
(***************************************************************************)
(* The verdict                                                             *)
(***************************************************************************)

DecisionsInv ==
  \A t \in Threads :
    /\ pc[t] \notin { "checkExit", "emitExhausted", "done" } => decision[t].retry
    /\ pc[t] = "emitExhausted" => ~decision[t].retry

FinalInv ==
  /\ Over => ~Someone(Supervising) /\ pending = 0
  /\ Over \/ pending # 0 \/ Someone({ "restart" }) => state \in Retryable

LEMMA VerdictParts == VerdictInv <=> DecisionsInv /\ FinalInv
BY DEF VerdictInv, DecisionsInv, FinalInv

(* Deciding and reading the decision aside, a step keeps every decision and  *)
(* brings nobody to "emitExhausted" or back from "done".                     *)
LEMMA DecisionsKept ==
  ASSUME DecisionsInv, decision' = decision,
         \A u \in Threads :
           \/ pc'[u] = pc[u]
           \/ /\ pc[u] \notin { "checkExit", "emitExhausted", "done" }
              /\ pc'[u] # "emitExhausted"
  PROVE  DecisionsInv'
BY DEF DecisionsInv

LEMMA ThreadDecisions ==
  ASSUME TypeOK, SupervisionInv, DecisionsInv, NEW t \in Threads, ThreadStep(t)
  PROVE  DecisionsInv'
<1> USE DEF At, localVars
<1>1. CASE DecideRestart(t)
  <2>1. /\ pc'[t] = "checkExit"
        /\ \A u \in Threads : u # t => pc'[u] = pc[u] /\ decision'[u] = decision[u]
    BY <1>1, Moves DEF DecideRestart, TypeOK, ThreadTypes
  <2> QED
    BY <2>1 DEF DecisionsInv
<1>2. CASE CheckExit(t)
  <2>1. /\ pc'[t] \in { "done", "record", "emitExhausted" }
        /\ pc'[t] = "record" => decision[t].retry
        /\ pc'[t] = "emitExhausted" => ~decision[t].retry
        /\ \A u \in Threads : u # t => pc'[u] = pc[u]
        /\ decision' = decision
    BY <1>2 DEF CheckExit, Goto, TypeOK, ThreadTypes
  <2> QED
    BY <2>1 DEF DecisionsInv
<1>3. CASE EmitExhausted(t)
  <2>1. /\ pc'[t] = "done" /\ \A u \in Threads : u # t => pc'[u] = pc[u]
        /\ decision' = decision
    BY <1>3, Moves DEF EmitExhausted
  <2> QED
    BY <2>1 DEF DecisionsInv
<1>4. CASE Schedule(t)
  BY <1>4, ScheduleMoves, DecisionsKept DEF Schedule
<1>5. CASE \/ StartStep(t) \/ ReportStep(t) \/ RestartStep(t) \/ CancelWindow(t)
           \/ RecordAttempt(t) \/ Rollback(t) \/ EmitScheduled(t)
  <2>1. decision' = decision
    BY <1>5 DEF StartStep, Launch, RequestStart, Spawn, SpawnFails,
       HandshakeRead, HandshakeFails, Healthy, HealthFails, ReportStep,
       EmitStarting, EmitOutcome, BeginWindow, DropWindow, PollStops,
       PollFindsCrash, EmitCrash, RestartStep, TimerFires, AttemptRestart,
       Reset, CancelWindow, RecordAttempt, Rollback, EmitScheduled
  <2>2. /\ pc[t] \notin { "checkExit", "emitExhausted", "done" }
        /\ \E l : l # "emitExhausted" /\ Goto(t, l)
    BY <1>5 DEF StartStep, Launch, RequestStart, Spawn, SpawnFails,
       HandshakeRead, HandshakeFails, Healthy, HealthFails, StartReturns,
       ReportStep, EmitStarting, EmitOutcome, BeginWindow, DropWindow,
       PollStops, PollFindsCrash, EmitCrash, RestartStep, TimerFires,
       AttemptRestart, Reset, CancelWindow, RecordAttempt, Rollback,
       EmitScheduled
  <2> QED
    BY <2>1, <2>2, Moves, DecisionsKept
<1> QED
  BY <1>1, <1>2, <1>3, <1>4, <1>5 DEF ThreadStep, HandleStep

(* Once the restarts are over only stale timers and announcements still end. *)
LEMMA AfterTheEnd ==
  ASSUME ProcessInv, FinalInv, Over, [Next]_vars
  PROVE  /\ UNCHANGED << state, launches, decision >> /\ pending' = 0
         /\ \A u \in Threads :
              \/ pc'[u] = pc[u]
              \/ pc[u] \in { "timer", "emitScheduled" } /\ pc'[u] = "done"
<1> USE DEF ProcessInv, processVars, osVars, restartVars, localVars, At
<1>1. /\ pending = 0 /\ state \in Retryable
      /\ \A u \in Threads : pc[u] \notin Supervising
  BY DEF FinalInv, Someone
<1>2. ASSUME NEW t \in Threads, ThreadStep(t)
      PROVE  EmitScheduled(t) \/ TimerFires(t)
  BY <1>1, <1>2 DEF ThreadStep, StartStep, Launch, RequestStart, Spawn,
     SpawnFails, HandshakeRead, HandshakeFails, Healthy, HealthFails,
     ReportStep, EmitStarting, EmitOutcome, BeginWindow, DropWindow, PollStops,
     PollFindsCrash, EmitCrash, HandleStep, CancelWindow, DecideRestart,
     CheckExit, RecordAttempt, Schedule, Rollback, EmitExhausted, RestartStep,
     AttemptRestart, Reset, Supervising, Locked, Reporting, Handling
<1>3. ASSUME NEW t \in Threads, EmitScheduled(t) \/ TimerFires(t)
      PROVE  /\ UNCHANGED << state, launches, decision >> /\ pending' = 0
             /\ pc[t] \in { "timer", "emitScheduled" } /\ Goto(t, "done")
  BY <1>1, <1>3 DEF EmitScheduled, TimerFires, SupervisionInv, TokensFresh
<1>4. CASE \E t \in Threads : ThreadStep(t)
  BY <1>2, <1>3, <1>4, Moves
<1>5. CASE \E w \in StabilityTokens : StabilityStep(w)
  BY <1>1, <1>5 DEF StabilityStep, StabilityFires, StabilityChecks,
     StabilityResets
<1>6. CASE ExitBegins \/ ExitStep
  BY <1>1, <1>6 DEF ExitStep, ExitBegins, ExitCancelsRestart,
     ExitCancelsWindow, ShutdownNotRunning, ShutdownBegins, ShutdownReaps,
     ShutdownTimesOut, EmitStopping, EmitFinal, AppEnds, ExitGoto,
     LifecycleInv, Retryable
<1>7. CASE \E c \in live : ChildDies(c)
  BY <1>1, <1>7 DEF ChildDies
<1>8. CASE UNCHANGED vars
  BY <1>1, <1>8 DEF vars
<1> QED
  BY <1>4, <1>5, <1>6, <1>7, <1>8 DEF Next, Finished

LEMMA DecisionsStep ==
  ASSUME TypeOK, SupervisionInv, DecisionsInv, [Next]_vars
  PROVE  DecisionsInv'
<1> USE DEF localVars
<1>1. CASE \E t \in Threads : ThreadStep(t)
  BY <1>1, ThreadDecisions
<1>2. CASE \E w \in StabilityTokens : StabilityStep(w)
  BY <1>2, DecisionsKept DEF StabilityStep, StabilityFires, StabilityChecks,
     StabilityResets
<1>3. CASE ExitBegins \/ ExitStep
  BY <1>3, DecisionsKept DEF ExitStep, ExitBegins, ExitCancelsRestart,
     ExitCancelsWindow, ShutdownNotRunning, ShutdownBegins, ShutdownReaps,
     ShutdownTimesOut, EmitStopping, EmitFinal, AppEnds
<1>4. CASE \E c \in live : ChildDies(c)
  BY <1>4, DecisionsKept DEF ChildDies
<1>5. CASE UNCHANGED vars
  BY <1>5, DecisionsKept DEF vars
<1> QED
  BY <1>1, <1>2, <1>3, <1>4, <1>5 DEF Next, Finished

(* Only these three steps end the restarts.                                  *)
LEMMA Ending ==
  ASSUME ProcessInv, DecisionsInv, ~Over, Over', [Next]_vars
  PROVE  \E t \in Threads :
           (CheckExit(t) /\ shuttingDown) \/ EmitExhausted(t) \/ Rollback(t)
<1> USE DEF ProcessInv, At, localVars, GaveUp, Over, Someone
<1>1. ASSUME NEW t \in Threads, ThreadStep(t), ~(CheckExit(t) /\ shuttingDown),
             ~EmitExhausted(t), ~Rollback(t)
      PROVE  FALSE
  <2>1. CASE DecideRestart(t)
    <3>1. /\ pc'[t] = "checkExit"
          /\ \A u \in Threads : u # t => pc'[u] = pc[u] /\ decision'[u] = decision[u]
      BY <2>1, Moves DEF DecideRestart, TypeOK, ThreadTypes
    <3> QED
      BY <3>1
  <2>2. CASE Schedule(t)
    BY <2>2, ScheduleMoves DEF Schedule
  <2>3. CASE ~DecideRestart(t) /\ ~Schedule(t)
    <3>1. decision' = decision
      BY <1>1, <2>3 DEF ThreadStep, StartStep, Launch, RequestStart, Spawn,
         SpawnFails, HandshakeRead, HandshakeFails, Healthy, HealthFails,
         ReportStep, EmitStarting, EmitOutcome, BeginWindow, DropWindow,
         PollStops, PollFindsCrash, EmitCrash, HandleStep, CancelWindow,
         CheckExit, RecordAttempt, EmitScheduled, RestartStep, TimerFires,
         AttemptRestart, Reset
    <3>2. \E l : /\ Goto(t, l) /\ l # "abandoned"
                 /\ \/ l # "done"
                    \/ pc[t] \notin { "checkExit", "emitExhausted", "done" }
      BY <1>1, <2>3 DEF ThreadStep, StartStep, Launch, RequestStart, Spawn,
         SpawnFails, HandshakeRead, HandshakeFails, Healthy, HealthFails,
         StartReturns, ReportStep, EmitStarting, EmitOutcome, BeginWindow,
         DropWindow, PollStops, PollFindsCrash, EmitCrash, HandleStep,
         CancelWindow, CheckExit, RecordAttempt, EmitScheduled,
         RestartStep, TimerFires, AttemptRestart, Reset
    <3> QED
      BY <3>1, <3>2, Moves DEF DecisionsInv
  <2> QED
    BY <2>1, <2>2, <2>3
<1>2. \E t \in Threads : ThreadStep(t)
  <2>1. CASE UNCHANGED << pc, decision >>
    BY <2>1
  <2>2. CASE ~UNCHANGED << pc, decision >>
    BY <2>2 DEF Next, StabilityStep, StabilityFires, StabilityChecks,
       StabilityResets, ExitStep, ExitBegins, ExitCancelsRestart,
       ExitCancelsWindow, ShutdownNotRunning, ShutdownBegins, ShutdownReaps,
       ShutdownTimesOut, EmitStopping, EmitFinal, AppEnds, ChildDies, Finished,
       vars
  <2> QED
    BY <2>1, <2>2
<1> QED
  BY <1>1, <1>2

(* No step of theirs leaves anybody supervising.                             *)
LEMMA EndStep ==
  ASSUME ReportInv, NEW t \in Threads,
         (CheckExit(t) /\ shuttingDown) \/ EmitExhausted(t) \/ Rollback(t)
  PROVE  ~Someone(Supervising)' /\ pending' = 0 /\ state' \in Retryable
<1> USE DEF ReportInv, ProcessInv
<1>1. /\ pc[t] \in { "checkExit", "emitExhausted", "rollback" }
      /\ Goto(t, "done") \/ Goto(t, "abandoned")
      /\ state' = state
      /\ pending' = pending \/ pending' = 0
  BY DEF CheckExit, EmitExhausted, Rollback, At, processVars, restartVars
<1>2. pc[t] \in Supervising /\ pc[t] \in Handling
  BY <1>1 DEF Supervising, Handling
<1>3. pending' = 0
  <2>1. CASE Rollback(t)
    BY <2>1 DEF Rollback
  <2>2. CASE CheckExit(t) \/ EmitExhausted(t)
    <3>1. pending' = pending /\ pc[t] # "rollback"
      BY <2>2 DEF CheckExit, EmitExhausted, At, restartVars
    <3> QED
      BY <1>2, <3>1 DEF SupervisionInv, PendingExcludes
  <2> QED
    BY <2>1, <2>2
<1>4. state \in Retryable
  BY <1>2 DEF OutcomeInv
<1>5. \A u \in Threads : pc'[u] \notin Supervising
  BY <1>1, <1>2, Lone, Moves DEF Supervising, Locked, Reporting, Handling
<1> QED
  BY <1>1, <1>3, <1>4, <1>5 DEF Someone

(* A thread's step that leaves a restart pending or begun                    *)
LEMMA RestartOfFailed ==
  ASSUME ReportInv, FinalInv, ~Over, NEW t \in Threads, ThreadStep(t),
         pending' # 0 \/ Someone({ "restart" })'
  PROVE  state' \in Retryable
<1> USE DEF ReportInv, ProcessInv, At
<1>1. CASE Schedule(t)
  <2>1. pc[t] \in Handling /\ state' = state
    BY <1>1 DEF Schedule, Handling, processVars
  <2> QED
    BY <2>1 DEF OutcomeInv
<1>2. CASE TimerFires(t)
  <2>1. state' = state /\ t # 0
    BY <1>2 DEF TimerFires, processVars, SupervisionInv, TokensFresh
  <2>2. CASE pending = t
    BY <2>1, <2>2 DEF FinalInv
  <2>3. CASE pending # t
    <3>1. pending' = pending /\ pc'[t] = "done"
          /\ \A u \in Threads : u # t => pc'[u] = pc[u]
      BY <1>2, <2>3, Moves DEF TimerFires
    <3> QED
      BY <2>1, <3>1 DEF FinalInv, Someone
  <2> QED
    BY <2>2, <2>3
<1>3. CASE EmitScheduled(t)
  <2>1. /\ state' = state /\ pending' = pending /\ pc'[t] = "done"
        /\ \A u \in Threads : u # t => pc'[u] = pc[u]
    BY <1>3, Moves DEF EmitScheduled, processVars, restartVars
  <2> QED
    BY <2>1 DEF FinalInv, Someone
<1>4. CASE ~Schedule(t) /\ ~TimerFires(t) /\ ~EmitScheduled(t)
  <2>1. /\ pc[t] \in Supervising
        /\ \/ pending' = pending /\ pc[t] # "rollback"
           \/ pending' = 0
        /\ \E l : Goto(t, l) /\ l # "restart"
    BY <1>4 DEF ThreadStep, StartStep, Launch, RequestStart, Spawn,
       SpawnFails, HandshakeRead, HandshakeFails, Healthy, HealthFails,
       StartReturns, ReportStep, EmitStarting, EmitOutcome, BeginWindow,
       DropWindow, PollStops, PollFindsCrash, EmitCrash, HandleStep,
       CancelWindow, DecideRestart, CheckExit, RecordAttempt, Rollback,
       EmitExhausted, RestartStep, AttemptRestart, Reset, restartVars,
       Supervising, Locked, Reporting, Handling
  <2>2. pending' = 0
    BY <2>1 DEF SupervisionInv, PendingExcludes
  <2>3. \A u \in Threads : pc'[u] # "restart"
    BY <2>1, Lone, Moves DEF Supervising
  <2> QED
    BY <2>2, <2>3 DEF Someone
<1> QED
  BY <1>1, <1>2, <1>3, <1>4

LEMMA FinalStep ==
  ASSUME ReportInv, DecisionsInv, FinalInv, [Next]_vars
  PROVE  FinalInv'
<1> USE DEF ReportInv
<1>1. CASE Over
  <2>1. ~Someone(Supervising)'
    BY <1>1, AfterTheEnd DEF FinalInv, Someone, Supervising, Locked,
       Reporting, Handling
  <2>2. pending' = 0 /\ state' \in Retryable
    BY <1>1, AfterTheEnd DEF FinalInv
  <2> QED
    BY <2>1, <2>2 DEF FinalInv
<1>2. CASE ~Over /\ Over'
  BY <1>2, Ending, EndStep DEF FinalInv
<1>3. CASE ~Over /\ ~Over'
  <2> SUFFICES ASSUME pending' # 0 \/ Someone({ "restart" })'
               PROVE  state' \in Retryable
    BY <1>3 DEF FinalInv
  <2>1. CASE \E t \in Threads : ThreadStep(t)
    BY <1>3, <2>1, RestartOfFailed
  <2>2. CASE ~(\E t \in Threads : ThreadStep(t))
    <3>1. pc' = pc /\ (pending' = pending \/ pending' = 0)
      BY <2>2 DEF Next, StabilityStep, StabilityFires, StabilityChecks,
         StabilityResets, ExitStep, ExitBegins, ExitCancelsRestart,
         ExitCancelsWindow, ShutdownNotRunning, ShutdownBegins, ShutdownReaps,
         ShutdownTimesOut, EmitStopping, EmitFinal, AppEnds, ChildDies,
         Finished, vars, restartVars
    <3>2. state \in Retryable
      BY <3>1 DEF FinalInv, Someone
    <3>3. state' = state
      BY <2>2, <3>2 DEF Next, StabilityStep, StabilityFires, StabilityChecks,
         StabilityResets, ExitStep, ExitBegins, ExitCancelsRestart,
         ExitCancelsWindow, ShutdownNotRunning, ShutdownBegins, ShutdownReaps,
         ShutdownTimesOut, EmitStopping, EmitFinal, AppEnds, ChildDies,
         ExitGoto, Finished, vars, processVars, ProcessInv, LifecycleInv,
         Retryable
    <3> QED
      BY <3>2, <3>3
  <2> QED
    BY <2>1, <2>2
<1> QED
  BY <1>1, <1>2, <1>3

(* The step after which a thread no longer supervises leaves the failure,    *)
(* if there is one, answered.                                                *)
LEMMA StepsDown ==
  ASSUME ReportInv, DecisionsInv, NEW t \in Threads, ThreadStep(t),
         pc[t] \in Supervising, pc'[t] \notin Supervising,
         state' \in Retryable, ~shuttingDown
  PROVE  pending' # 0 \/ GaveUp' \/ pc'[t] = "abandoned"
<1> USE DEF ReportInv, ProcessInv, At, processVars, localVars
<1>1. CASE PollStops(t)
  BY <1>1 DEF PollStops, OutcomeInv, Retryable
<1>2. CASE CheckExit(t)
  <2>1. pc'[t] \in { "record", "emitExhausted" }
    BY <1>2, Moves DEF CheckExit
  <2> QED
    BY <2>1 DEF Supervising, Handling
<1>3. CASE EmitExhausted(t)
  <2>1. pc[t] = "emitExhausted" /\ pc'[t] = "done" /\ decision' = decision
    BY <1>3, Moves DEF EmitExhausted
  <2> QED
    BY <2>1 DEF DecisionsInv, GaveUp
<1>4. CASE Schedule(t)
  BY <1>4, ScheduleMoves
<1>5. CASE Rollback(t)
  BY <1>5, Moves DEF Rollback
<1>6. CASE AttemptRestart(t)
  <2>1. Goto(t, "reset")
    BY <1>6 DEF AttemptRestart, RestartStillEligible
  <2> QED
    BY <2>1, Moves DEF Supervising, Locked
<1>7. CASE ~(\/ PollStops(t) \/ CheckExit(t) \/ EmitExhausted(t) \/ Schedule(t)
             \/ Rollback(t) \/ AttemptRestart(t))
  <2>1. pc[t] \notin { "timer", "emitScheduled" }
    BY DEF Supervising, Locked, Reporting, Handling
  <2>2. \E l \in Supervising : Goto(t, l)
    BY <1>7, <2>1 DEF ThreadStep, StartStep, Launch, RequestStart, Spawn,
       SpawnFails, HandshakeRead, HandshakeFails, Healthy, HealthFails,
       StartReturns, ReportStep, EmitStarting, EmitOutcome, BeginWindow,
       DropWindow, PollFindsCrash, EmitCrash, HandleStep, CancelWindow,
       DecideRestart, RecordAttempt, EmitScheduled, RestartStep, TimerFires,
       Reset, Supervising, Locked, Reporting, Handling
  <2> QED
    BY <2>2, Moves
<1> QED
  BY <1>1, <1>2, <1>3, <1>4, <1>5, <1>6, <1>7

LEMMA Answers ==
  ASSUME ReportInv, DecisionsInv, FinalInv, FailureIsAnswered, [Next]_vars
  PROVE  FailureIsAnswered'
<1> USE DEF ReportInv, ProcessInv, At
<1> SUFFICES ASSUME state' \in Retryable, ~shuttingDown'
             PROVE  pending' # 0 \/ GaveUp'
                      \/ Someone(Supervising \cup { "abandoned" })'
  BY DEF FailureIsAnswered
<1>1. CASE GaveUp
  <2>1. PICK t \in Threads : pc[t] = "done" /\ ~decision[t].retry
    BY <1>1 DEF GaveUp
  <2>2. pc'[t] = "done" /\ ~decision'[t].retry
    BY <1>1, <2>1, AfterTheEnd DEF Over
  <2> QED
    BY <2>2 DEF GaveUp
<1>2. ASSUME NEW t \in Threads, ThreadStep(t), ~GaveUp
      PROVE  pending' # 0 \/ GaveUp' \/ Someone(Supervising \cup { "abandoned" })'
  <2>1. shuttingDown' = shuttingDown
    BY <1>2 DEF ThreadStep, StartStep, Launch, RequestStart, Spawn, SpawnFails,
       HandshakeRead, HandshakeFails, Healthy, HealthFails, ReportStep,
       EmitStarting, EmitOutcome, BeginWindow, DropWindow, PollStops,
       PollFindsCrash, EmitCrash, HandleStep, CancelWindow, DecideRestart,
       CheckExit, RecordAttempt, Schedule, Rollback, EmitScheduled,
       EmitExhausted, RestartStep, TimerFires, AttemptRestart, Reset, exitVars
  <2>2. CASE pc[t] \in Supervising
    BY <1>2, <2>1, <2>2, StepsDown DEF Someone
  <2>3. CASE pc[t] \notin Supervising
    <3>1. EmitScheduled(t) \/ TimerFires(t)
      BY <1>2, <2>3 DEF ThreadStep, StartStep, Launch, RequestStart, Spawn,
         SpawnFails, HandshakeRead, HandshakeFails, Healthy, HealthFails,
         ReportStep, EmitStarting, EmitOutcome, BeginWindow, DropWindow,
         PollStops, PollFindsCrash, EmitCrash, HandleStep, CancelWindow,
         DecideRestart, CheckExit, RecordAttempt, Schedule, Rollback,
         EmitExhausted, RestartStep, AttemptRestart, Reset, Supervising,
         Locked, Reporting, Handling
    <3>2. /\ state' = state /\ pc[t] # "abandoned"
          /\ \A u \in Threads : u # t => pc'[u] = pc[u]
          /\ pending' = pending \/ pc'[t] = "restart"
      BY <3>1, Moves DEF EmitScheduled, TimerFires, processVars, restartVars
    <3>3. "restart" \in Supervising
      BY DEF Supervising
    <3> QED
      BY <1>2, <2>1, <2>3, <3>2, <3>3 DEF FailureIsAnswered, Someone
  <2> QED
    BY <2>2, <2>3
<1>3. CASE \E w \in StabilityTokens : StabilityStep(w)
  BY <1>1, <1>3 DEF StabilityStep, StabilityFires, StabilityChecks,
     StabilityResets, processVars, restartVars, exitVars, FailureIsAnswered,
     Someone
<1>4. ~(ExitBegins \/ ExitStep)
  BY DEF ExitStep, ExitBegins, ExitCancelsRestart, ExitCancelsWindow,
     ShutdownNotRunning, ShutdownBegins, ShutdownReaps, ShutdownTimesOut,
     EmitStopping, EmitFinal, AppEnds, ExitGoto, DownInv
<1>5. CASE \E c \in live : ChildDies(c)
  BY <1>1, <1>5 DEF ChildDies, processVars, restartVars, exitVars,
     FailureIsAnswered, Someone
<1>6. CASE UNCHANGED vars
  BY <1>1, <1>6 DEF vars, processVars, restartVars, exitVars,
     FailureIsAnswered, Someone
<1> QED
  BY <1>1, <1>2, <1>3, <1>4, <1>5, <1>6 DEF Next, Finished

LEMMA HostInit == Init => HostInv
<1> SUFFICES ASSUME Init PROVE HostInv
  OBVIOUS
<1>1. SupervisionInv /\ LifecycleInv /\ ChildInv /\ DownInv
  BY SupervisionInit, LifecycleInitial, ChildInit
<1>2. OutcomeInv /\ AnnouncedInv /\ FailureIsAnswered
  BY DEF Init, OutcomeInv, AnnouncedInv, FailureIsAnswered, Someone, Locked,
     Reporting, Handling, Retryable
<1>3. VerdictInv
  BY DEF Init, VerdictInv, Over, GaveUp, Someone, Undecided, Retry
<1> QED
  BY <1>1, <1>2, <1>3 DEF HostInv

LEMMA HostStep == TypeOK /\ HostInv /\ [Next]_vars => TypeOK' /\ HostInv'
<1> SUFFICES ASSUME TypeOK, HostInv, [Next]_vars PROVE TypeOK' /\ HostInv'
  OBVIOUS
<1>1. ReportInv /\ DecisionsInv /\ FinalInv
  BY VerdictParts DEF HostInv, ReportInv, ProcessInv
<1>2. TypeOK' /\ SupervisionInv' /\ LifecycleInv' /\ ChildInv' /\ DownInv'
  BY <1>1, TypeStep, SupervisionStep, LifecycleStep, ChildStep, DownStep
  DEF ReportInv, ProcessInv
<1>3. OutcomeInv' /\ AnnouncedInv'
  BY <1>1, OutcomeStep, AnnouncedStep DEF ReportInv
<1>4. DecisionsInv' /\ FinalInv'
  BY <1>1, DecisionsStep, FinalStep DEF ReportInv, ProcessInv
<1>5. VerdictInv'
  BY <1>4 DEF VerdictInv, DecisionsInv, FinalInv
<1>6. FailureIsAnswered'
  BY <1>1, Answers DEF HostInv
<1> QED
  BY <1>2, <1>3, <1>5, <1>6 DEF HostInv

LEMMA HostInvariant == Spec => [](TypeOK /\ HostInv)
<1>1. Init => TypeOK /\ HostInv
  BY TypeInit, HostInit
<1>2. (TypeOK /\ HostInv) /\ [Next]_vars => (TypeOK /\ HostInv)'
  BY HostStep
<1> QED
  BY <1>1, <1>2, PTL DEF Spec

(* A failed sidecar is never forgotten, whatever threads and timers do: a    *)
(* thread is at it, a restart is pending, the verdict was given, or the      *)
(* granted restart was dropped for want of a timer thread.                   *)
THEOREM FailuresAnswered == Spec => []FailureIsAnswered
<1>1. TypeOK /\ HostInv => FailureIsAnswered
  BY DEF HostInv
<1> QED
  BY <1>1, HostInvariant, PTL

(* "No further automatic restart can occur once exhausted": after the        *)
(* verdict the lifecycle state stays and nothing is ever spawned again.      *)
THEOREM VerdictIsFinal == Spec => ExhaustedIsFinal
<1>1. TypeOK /\ HostInv /\ [Next]_vars =>
        [ GaveUp => UNCHANGED << state, launches >> ]_vars
  <2> SUFFICES ASSUME TypeOK, HostInv, [Next]_vars, GaveUp
               PROVE  UNCHANGED << state, launches >>
    OBVIOUS
  <2>1. ProcessInv /\ FinalInv
    BY VerdictParts DEF HostInv, ProcessInv
  <2> QED
    BY <2>1, AfterTheEnd DEF Over
<1> QED
  BY <1>1, HostInvariant, PTL DEF Spec, ExhaustedIsFinal

-----------------------------------------------------------------------------
(***************************************************************************)
(* The phase of the protocol                                               *)
(***************************************************************************)

(* What a thread at label l with decision d is about in lifecycle state s    *)
PhaseAt(l, s, d) ==
  CASE l \in { "launch", "restart" } \cup Locked -> "starting"
    [] l \in { "poll" } \cup Reporting -> IF s = "Running" THEN "up" ELSE "failed"
    [] l \in { "cancelWindow", "decide", "record" } -> "failed"
    [] l \in { "checkExit", "emitExhausted" } -> IF d.retry THEN "failed" ELSE "gaveUp"
    [] l \in { "schedule", "rollback" } -> "waiting"

Closing == shuttingDown => phase = "closing"

SupervisorPhase ==
  ~shuttingDown =>
    \A t \in Threads :
      pc[t] \in Supervising => phase = PhaseAt(pc[t], state, decision[t])

PendingPhase == ~shuttingDown /\ pending # 0 => phase = "waiting"

FinalPhase ==
  ~shuttingDown =>
    /\ Someone({ "abandoned" }) => phase = "dropped"
    /\ GaveUp /\ ~Someone({ "abandoned" }) => phase = "gaveUp"

LEMMA PhaseOfClosing == Closing
BY DEF Closing, phase

LEMMA PhaseOfSupervisor == TypeOK /\ HostInv => SupervisorPhase
<1> SUFFICES ASSUME TypeOK, HostInv, ~shuttingDown,
                    NEW t \in Threads, pc[t] \in Supervising
             PROVE  phase = PhaseAt(pc[t], state, decision[t])
  BY DEF SupervisorPhase
<1>1. \A u \in Threads : u # t => pc[u] \notin Supervising
  BY Lone DEF HostInv
<1>2. ~Over
  BY DEF HostInv, VerdictInv, Someone
<1>3. pending # 0 => pc[t] = "rollback"
  BY DEF HostInv, SupervisionInv, PendingExcludes
<1>4. ~Someone({ "abandoned" })
  BY <1>2 DEF Over
<1>5. \A l \in SUBSET Supervising : Someone(l) <=> pc[t] \in l
  BY <1>1 DEF Someone
<1>6. /\ Someone({ "launch", "restart" } \cup Locked)
           <=> pc[t] \in { "launch", "restart" } \cup Locked
      /\ Someone(Locked) <=> pc[t] \in Locked
      /\ Someone({ "schedule", "rollback" }) <=> pc[t] \in { "schedule", "rollback" }
  BY <1>5 DEF Supervising, Handling
<1>7. (\E u \in Threads : /\ pc[u] \in { "checkExit", "emitExhausted", "done" }
                          /\ ~decision[u].retry)
        <=> pc[t] \in { "checkExit", "emitExhausted" } /\ ~decision[t].retry
  BY <1>1, <1>2 DEF Over, GaveUp, Supervising, Handling
<1>8. /\ pc[t] \in { "launch", "restart" } \cup Locked \cup Handling
           => state # "Running"
      /\ pc[t] \in Supervising
  BY DEF HostInv, LifecycleInv, OutcomeInv, VerdictInv, Someone, Locked, Retryable
<1>9. CASE pc[t] \in { "launch", "restart" } \cup Locked
  <2>1. /\ Someone({ "launch", "restart" } \cup Locked)
        /\ state # "Running" /\ ~Someone({ "schedule", "rollback" })
        /\ pending = 0
        /\ ~\E u \in Threads : /\ pc[u] \in { "checkExit", "emitExhausted", "done" }
                              /\ ~decision[u].retry
    BY <1>3, <1>6, <1>7, <1>8, <1>9 DEF Locked
  <2>2. phase = "starting"
    BY <1>4, <2>1 DEF phase
  <2>3. PhaseAt(pc[t], state, decision[t]) = "starting"
    BY <1>9 DEF PhaseAt, Locked, Reporting
  <2> QED
    BY <2>2, <2>3
<1>10. CASE pc[t] \in { "poll" } \cup Reporting
  BY <1>3, <1>4, <1>6, <1>7, <1>10 DEF phase, PhaseAt, Locked, Reporting
<1>11. CASE pc[t] \in Handling
  BY <1>3, <1>4, <1>6, <1>7, <1>8, <1>11
  DEF phase, PhaseAt, Locked, Reporting, Handling, HostInv, VerdictInv
<1> QED
  BY <1>9, <1>10, <1>11 DEF Supervising

LEMMA PhaseOfPending == TypeOK /\ HostInv => PendingPhase
<1> SUFFICES ASSUME TypeOK, HostInv, ~shuttingDown, pending # 0
             PROVE  phase = "waiting"
  BY DEF PendingPhase
<1>1. \A u \in Threads : pc[u] \in Supervising => pc[u] = "rollback"
  BY DEF HostInv, SupervisionInv, PendingExcludes
<1>2. ~Someone({ "launch", "restart" } \cup Locked)
  BY <1>1 DEF Someone, Supervising, Locked
<1>3. ~Over /\ state # "Running"
  BY DEF HostInv, VerdictInv, Retryable
<1>4. ~\E u \in Threads : /\ pc[u] \in { "checkExit", "emitExhausted", "done" }
                          /\ ~decision[u].retry
  BY <1>1, <1>3 DEF Over, GaveUp, Supervising, Handling
<1> QED
  BY <1>2, <1>3, <1>4 DEF phase, Over

LEMMA PhaseOfFinal == TypeOK /\ HostInv => FinalPhase
<1> SUFFICES ASSUME TypeOK, HostInv, ~shuttingDown, Over
             PROVE  phase = IF Someone({ "abandoned" }) THEN "dropped" ELSE "gaveUp"
  BY DEF FinalPhase, Over
<1>1. ~Someone(Supervising) /\ pending = 0 /\ state # "Running"
  BY DEF HostInv, VerdictInv, Retryable
<1>2. /\ ~Someone({ "launch", "restart" } \cup Locked)
      /\ ~Someone({ "schedule", "rollback" })
  BY <1>1 DEF Someone, Supervising, Handling
<1>3. ~Someone({ "abandoned" })
        => \E u \in Threads : /\ pc[u] \in { "checkExit", "emitExhausted", "done" }
                              /\ ~decision[u].retry
  BY DEF Over, GaveUp
<1> QED
  BY <1>1, <1>2, <1>3 DEF phase

(* The same after a step *)
LEMMA PhasesAfter ==
  TypeOK' /\ HostInv'
    => Closing' /\ SupervisorPhase' /\ PendingPhase' /\ FinalPhase'
BY PhaseOfClosing, PhaseOfSupervisor, PhaseOfPending, PhaseOfFinal, PTL

(* Threads that neither supervise nor gave up do not show.                   *)
LEMMA PhaseKept ==
  ASSUME UNCHANGED << shuttingDown, state, pending >>,
         \A u \in Threads :
           \/ pc'[u] = pc[u] /\ decision'[u] = decision[u]
           \/ /\ pc[u] \in { "timer", "emitScheduled" } /\ pc'[u] = "done"
              /\ decision[u].retry /\ decision'[u] = decision[u]
  PROVE  phase' = phase
<1> DEFINE gone(u) == pc[u] \in { "checkExit", "emitExhausted", "done" }
                        /\ ~decision[u].retry
<1>1. /\ Someone({ "launch", "restart" } \cup Locked)'
           = Someone({ "launch", "restart" } \cup Locked)
      /\ Someone(Locked)' = Someone(Locked)
      /\ Someone({ "abandoned" })' = Someone({ "abandoned" })
      /\ Someone({ "schedule", "rollback" })' = Someone({ "schedule", "rollback" })
  BY DEF Someone, Locked
<1>2. (\E u \in Threads : gone(u))' = (\E u \in Threads : gone(u))
  OBVIOUS
<1> QED
  BY <1>1, <1>2 DEF phase

-----------------------------------------------------------------------------
(***************************************************************************)
(* Every step is a step of the protocol                                    *)
(***************************************************************************)

(* What a step is proved from: the invariant before it and after it.         *)
Before == TypeOK /\ HostInv /\ BudgetInv
After  == TypeOK' /\ HostInv'

ProtocolStep == [Protocol!Next]_<< phase, attempts >>

(* A step of the supervising thread t that ends as the supervising thread.   *)
LEMMA SupervisorPhases ==
  ASSUME Before, After, ~shuttingDown, ~shuttingDown', NEW t \in Threads,
         pc[t] \in Supervising, pc'[t] \in Supervising
  PROVE  /\ phase = PhaseAt(pc[t], state, decision[t])
         /\ phase' = PhaseAt(pc'[t], state', decision'[t])
BY PhaseOfSupervisor, PhasesAfter DEF Before, After, SupervisorPhase

LEMMA StartProtocol ==
  ASSUME Before, After, ~shuttingDown, ~shuttingDown', NEW t \in Threads,
         StartStep(t)
  PROVE  ProtocolStep
<1> USE DEF At, Before
<1>1. attempts' = attempts
  BY DEF StartStep, Launch, RequestStart, Spawn, SpawnFails, HandshakeRead,
     HandshakeFails, Healthy, HealthFails, restartVars
<1>2. CASE Launch(t) \/ RequestStart(t) \/ Spawn(t) \/ HandshakeRead(t)
  <2>1. /\ pc[t] \in { "launch" } \cup Locked
        /\ \E l \in Locked : Goto(t, l)
    BY <1>2 DEF Launch, RequestStart, Spawn, HandshakeRead, Locked
  <2>2. pc'[t] \in Locked
    BY <2>1, Moves
  <2>3. pc[t] \in Supervising /\ pc'[t] \in Supervising
    BY <2>1, <2>2 DEF Supervising
  <2>4. phase = PhaseAt(pc[t], state, decision[t])
        /\ phase' = PhaseAt(pc'[t], state', decision'[t])
    BY <2>3, SupervisorPhases
  <2>5. phase = "starting" /\ phase' = "starting"
    BY <2>1, <2>2, <2>4 DEF PhaseAt, Locked, Reporting
  <2> QED
    BY <1>1, <2>5 DEF ProtocolStep
<1>3. CASE SpawnFails(t) \/ HandshakeFails(t) \/ HealthFails(t) \/ Healthy(t)
  <2>1. /\ pc[t] \in Locked /\ pc'[t] = "emitStarting"
        /\ state' \in { "Failed", "Timeout", "Running" }
    BY <1>3, Moves DEF SpawnFails, HandshakeFails, HealthFails, Healthy,
       StartReturns, Locked
  <2>2. pc[t] \in Supervising /\ pc'[t] \in Supervising
    BY <2>1 DEF Supervising, Reporting
  <2>3. phase = PhaseAt(pc[t], state, decision[t])
        /\ phase' = PhaseAt(pc'[t], state', decision'[t])
    BY <2>2, SupervisorPhases
  <2>4. phase = "starting" /\ phase' \in { "up", "failed" }
    BY <2>1, <2>3 DEF PhaseAt, Locked, Reporting
  <2> QED
    BY <1>1, <2>4 DEF ProtocolStep, Protocol!Next, Protocol!Succeed,
       Protocol!Fail, Protocol!Move
<1> QED
  BY <1>2, <1>3 DEF StartStep

LEMMA ReportProtocol ==
  ASSUME Before, After, ~shuttingDown, ~shuttingDown', NEW t \in Threads,
         ReportStep(t)
  PROVE  ProtocolStep
<1> USE DEF At, Before
<1>1. attempts' = attempts
  BY DEF ReportStep, EmitStarting, EmitOutcome, BeginWindow, DropWindow,
     PollStops, PollFindsCrash, EmitCrash, restartVars
<1>2. CASE EmitStarting(t) \/ BeginWindow(t) \/ DropWindow(t)
  <2>1. /\ pc[t] \in Reporting /\ state' = state
        /\ \E l \in Reporting \cup { "poll" } : Goto(t, l)
    BY <1>2 DEF EmitStarting, BeginWindow, DropWindow, Reporting, processVars
  <2>2. pc'[t] \in Reporting \cup { "poll" }
    BY <2>1, Moves
  <2>3. pc[t] \in Supervising /\ pc'[t] \in Supervising
    BY <2>1, <2>2 DEF Supervising
  <2>4. phase = PhaseAt(pc[t], state, decision[t])
        /\ phase' = PhaseAt(pc'[t], state', decision'[t])
    BY <2>3, SupervisorPhases
  <2>5. phase' = phase
    BY <2>1, <2>2, <2>4 DEF PhaseAt, Locked, Reporting
  <2> QED
    BY <1>1, <2>5 DEF ProtocolStep
<1>3. CASE EmitOutcome(t) \/ EmitCrash(t)
  <2>1. /\ pc[t] \in { "emitOutcome", "emitCrash" } /\ state' = state
        /\ pc'[t] = IF state = "Running" THEN "beginWindow" ELSE "cancelWindow"
    <3>1. state = outcome[t] /\ (pc[t] = "emitCrash" => outcome[t] = "Crashed")
      BY <1>3 DEF EmitOutcome, EmitCrash, HostInv, OutcomeInv
    <3> QED
      BY <1>3, <3>1, Moves DEF EmitOutcome, EmitCrash, processVars
  <2>2. pc[t] \in Supervising /\ pc'[t] \in Supervising
    BY <2>1 DEF Supervising, Reporting, Handling
  <2>3. phase = PhaseAt(pc[t], state, decision[t])
        /\ phase' = PhaseAt(pc'[t], state', decision'[t])
    BY <2>2, SupervisorPhases
  <2>4. phase' = phase
    BY <2>1, <2>3 DEF PhaseAt, Locked, Reporting
  <2> QED
    BY <1>1, <2>4 DEF ProtocolStep
<1>4. CASE PollFindsCrash(t)
  <2>1. /\ pc[t] = "poll" /\ state = "Running"
        /\ pc'[t] = "emitCrash" /\ state' = "Crashed"
    BY <1>4, Moves DEF PollFindsCrash
  <2>2. pc[t] \in Supervising /\ pc'[t] \in Supervising
    BY <2>1 DEF Supervising, Reporting
  <2>3. phase = PhaseAt(pc[t], state, decision[t])
        /\ phase' = PhaseAt(pc'[t], state', decision'[t])
    BY <2>2, SupervisorPhases
  <2>4. phase = "up" /\ phase' = "failed"
    BY <2>1, <2>3 DEF PhaseAt, Locked, Reporting
  <2> QED
    BY <1>1, <2>4 DEF ProtocolStep, Protocol!Next, Protocol!Fail, Protocol!Move
<1>5. ~PollStops(t)
  BY DEF PollStops, HostInv, OutcomeInv
<1> QED
  BY <1>2, <1>3, <1>4, <1>5 DEF ReportStep

LEMMA HandleProtocol ==
  ASSUME Before, After, ~shuttingDown, ~shuttingDown', NEW t \in Threads,
         HandleStep(t)
  PROVE  ProtocolStep
<1> USE DEF At, Before
<1>1. CASE CancelWindow(t)
  <2>1. /\ pc[t] = "cancelWindow" /\ pc'[t] = "decide" /\ attempts' = attempts
    BY <1>1, Moves DEF CancelWindow, restartVars
  <2>2. pc[t] \in Supervising /\ pc'[t] \in Supervising
    BY <2>1 DEF Supervising, Handling
  <2>3. phase' = phase
    BY <2>1, <2>2, SupervisorPhases DEF PhaseAt, Locked, Reporting
  <2> QED
    BY <2>1, <2>3 DEF ProtocolStep
<1>2. CASE DecideRestart(t)
  <2>1. /\ pc[t] = "decide" /\ pc'[t] = "checkExit" /\ attempts' = attempts
        /\ decision'[t] = Decide
    BY <1>2, Moves DEF DecideRestart, restartVars, TypeOK, ThreadTypes
  <2>2. pc[t] \in Supervising /\ pc'[t] \in Supervising
    BY <2>1 DEF Supervising, Handling
  <2>3. /\ phase = "failed"
        /\ phase' = IF Decide.retry THEN "failed" ELSE "gaveUp"
    BY <2>1, <2>2, SupervisorPhases DEF PhaseAt, Locked, Reporting
  <2>4. ~Decide.retry => attempts >= MaxAttempts
    BY DEF Decide, Retry, Exhausted
  <2> QED
    BY <2>1, <2>3, <2>4 DEF ProtocolStep, Protocol!Next, Protocol!GiveUp,
       Protocol!Move
<1>3. CASE CheckExit(t)
  <2>1. /\ pc[t] = "checkExit" /\ attempts' = attempts
        /\ pc'[t] = IF decision[t].retry THEN "record" ELSE "emitExhausted"
        /\ decision' = decision
    BY <1>3, Moves DEF CheckExit, restartVars, localVars
  <2>2. pc[t] \in Supervising /\ pc'[t] \in Supervising
    BY <2>1 DEF Supervising, Handling
  <2>3. phase' = phase
    BY <2>1, <2>2, SupervisorPhases DEF PhaseAt, Locked, Reporting
  <2> QED
    BY <2>1, <2>3 DEF ProtocolStep
<1>4. CASE RecordAttempt(t)
  <2>1. /\ pc[t] = "record" /\ pc'[t] = "schedule"
        /\ attempts' = attempts + 1 /\ attempts < MaxAttempts
    BY <1>4, Moves DEF RecordAttempt, BudgetInv
  <2>2. pc[t] \in Supervising /\ pc'[t] \in Supervising
    BY <2>1 DEF Supervising, Handling
  <2>3. phase = "failed" /\ phase' = "waiting"
    BY <2>1, <2>2, SupervisorPhases DEF PhaseAt, Locked, Reporting
  <2> QED
    BY <2>1, <2>3 DEF ProtocolStep, Protocol!Next, Protocol!Grant
<1>5. CASE Schedule(t)
  <2>1. pc[t] = "schedule" /\ pending' # 0 /\ attempts' = attempts
    BY <1>5, ScheduleMoves DEF Schedule, HostInv
  <2>2. phase = "waiting"
    BY <2>1, PhaseOfSupervisor DEF SupervisorPhase, PhaseAt, Supervising,
       Locked, Reporting, Handling
  <2>3. phase' = "waiting"
    BY <2>1, PhasesAfter DEF After, PendingPhase
  <2> QED
    BY <2>1, <2>2, <2>3 DEF ProtocolStep
<1>6. CASE Rollback(t)
  <2>1. pc[t] = "rollback" /\ pc'[t] = "abandoned" /\ attempts' = attempts
    BY <1>6, Moves DEF Rollback
  <2>2. phase = "waiting"
    BY <2>1, PhaseOfSupervisor DEF SupervisorPhase, PhaseAt, Supervising,
       Locked, Reporting, Handling
  <2>3. phase' = "dropped"
    BY <2>1, PhasesAfter DEF After, FinalPhase, Someone
  <2> QED
    BY <2>1, <2>2, <2>3 DEF ProtocolStep, Protocol!Next, Protocol!Lose,
       Protocol!Move
<1>7. CASE EmitExhausted(t)
  <2>1. /\ pc[t] = "emitExhausted" /\ pc'[t] = "done" /\ attempts' = attempts
        /\ decision' = decision /\ ~decision[t].retry
        /\ \A u \in Threads : u # t => pc'[u] = pc[u]
    BY <1>7, Moves DEF EmitExhausted, restartVars, localVars, HostInv, VerdictInv
  <2>2. pc[t] \in Supervising /\ ~Over
    BY <2>1 DEF Supervising, Handling, HostInv, VerdictInv, Someone
  <2>3. phase = "gaveUp"
    BY <2>1, <2>2, PhaseOfSupervisor DEF SupervisorPhase, PhaseAt, Locked, Reporting
  <2>4. GaveUp' /\ ~Someone({ "abandoned" })'
    BY <2>1, <2>2 DEF GaveUp, Over, Someone
  <2>5. phase' = "gaveUp"
    BY <2>4, PhasesAfter DEF After, FinalPhase
  <2> QED
    BY <2>1, <2>3, <2>5 DEF ProtocolStep
<1>8. CASE EmitScheduled(t)
  <2>1. /\ pc[t] = "emitScheduled" /\ pc'[t] = "done" /\ decision[t].retry
        /\ UNCHANGED << attempts, decision, shuttingDown, state, pending >>
        /\ \A u \in Threads : u # t => pc'[u] = pc[u]
    BY <1>8, Moves DEF EmitScheduled, restartVars, processVars, localVars,
       exitVars, HostInv, VerdictInv
  <2>2. phase' = phase
    BY <2>1, PhaseKept
  <2> QED
    BY <2>1, <2>2 DEF ProtocolStep
<1> QED
  BY <1>1, <1>2, <1>3, <1>4, <1>5, <1>6, <1>7, <1>8 DEF HandleStep

LEMMA RetryProtocol ==
  ASSUME Before, After, ~shuttingDown, ~shuttingDown', NEW t \in Threads,
         RestartStep(t)
  PROVE  ProtocolStep
<1> USE DEF At, Before
<1>1. attempts' = attempts
  BY DEF RestartStep, TimerFires, AttemptRestart, Reset, restartVars
<1>2. CASE TimerFires(t) /\ pending = t
  <2>1. t # 0 /\ pc'[t] = "restart"
    BY <1>2, Moves DEF TimerFires, HostInv, SupervisionInv, TokensFresh
  <2>2. phase = "waiting"
    BY <1>2, <2>1, PhaseOfPending DEF PendingPhase
  <2>3. phase' = "starting"
    BY <2>1, PhasesAfter DEF After, SupervisorPhase, PhaseAt, Supervising,
       Locked, Reporting
  <2> QED
    BY <1>1, <2>2, <2>3 DEF ProtocolStep, Protocol!Next, Protocol!Retry,
       Protocol!Move
<1>3. CASE TimerFires(t) /\ pending # t
  <2>1. /\ pc[t] = "timer" /\ pc'[t] = "done" /\ decision[t].retry
        /\ UNCHANGED << decision, shuttingDown, state, pending >>
        /\ \A u \in Threads : u # t => pc'[u] = pc[u]
    BY <1>3, Moves DEF TimerFires, restartVars, processVars, localVars,
       exitVars, HostInv, VerdictInv
  <2>2. phase' = phase
    BY <2>1, PhaseKept
  <2> QED
    BY <1>1, <2>2 DEF ProtocolStep
<1>4. CASE AttemptRestart(t) \/ Reset(t)
  <2>1. pc[t] \in { "restart", "reset" } /\ pc'[t] \in Locked
    <3>1. CASE AttemptRestart(t)
      <4>1. pc[t] = "restart" /\ state \in Retryable
        BY <3>1 DEF AttemptRestart, HostInv, VerdictInv, Someone
      <4> QED
        BY <3>1, <4>1, Moves DEF AttemptRestart, RestartStillEligible, Locked
    <3>2. CASE Reset(t)
      BY <3>2, Moves DEF Reset, Locked
    <3> QED
      BY <1>4, <3>1, <3>2
  <2>2. pc[t] \in Supervising /\ pc'[t] \in Supervising
    BY <2>1 DEF Supervising, Locked
  <2>3. phase = PhaseAt(pc[t], state, decision[t])
        /\ phase' = PhaseAt(pc'[t], state', decision'[t])
    BY <2>2, SupervisorPhases
  <2>4. phase = "starting" /\ phase' = "starting"
    BY <2>1, <2>3 DEF PhaseAt, Locked, Reporting
  <2> QED
    BY <1>1, <2>4 DEF ProtocolStep
<1> QED
  BY <1>2, <1>3, <1>4 DEF RestartStep

(* Once the application is closing, only the tracker still moves.            *)
LEMMA ClosingProtocol ==
  ASSUME Before, After, shuttingDown', [Next]_vars
  PROVE  ProtocolStep
<1> USE DEF At, Before
<1>1. phase' = "closing"
  BY PhasesAfter DEF After, Closing
<1>2. CASE ~shuttingDown
  <2>1. ExitBegins
    BY <1>2 DEF Next, ThreadStep, StartStep, Launch, RequestStart, Spawn,
       SpawnFails, HandshakeRead, HandshakeFails, Healthy, HealthFails,
       ReportStep, EmitStarting, EmitOutcome, BeginWindow, DropWindow,
       PollStops, PollFindsCrash, EmitCrash, HandleStep, CancelWindow,
       DecideRestart, CheckExit, RecordAttempt, Schedule, Rollback,
       EmitScheduled, EmitExhausted, RestartStep, TimerFires, AttemptRestart,
       Reset, StabilityStep, StabilityFires, StabilityChecks, StabilityResets,
       ExitStep, ExitCancelsRestart, ExitCancelsWindow, ShutdownNotRunning,
       ShutdownBegins, ShutdownReaps, ShutdownTimesOut, EmitStopping,
       EmitFinal, AppEnds, ChildDies, Finished, vars, exitVars
  <2>2. attempts' = attempts
    BY <2>1 DEF ExitBegins, restartVars
  <2> QED
    BY <1>1, <2>2 DEF ProtocolStep, Protocol!Next, Protocol!Close
<1>3. CASE shuttingDown
  <2>1. phase = "closing"
    BY <1>3, PhaseOfClosing DEF Closing
  <2>2. \/ attempts' = attempts
        \/ attempts < MaxAttempts /\ attempts' = attempts + 1
        \/ attempts' = 0
    BY DEF Next, ThreadStep, StartStep, Launch, RequestStart, Spawn,
       SpawnFails, HandshakeRead, HandshakeFails, Healthy, HealthFails,
       ReportStep, EmitStarting, EmitOutcome, BeginWindow, DropWindow,
       PollStops, PollFindsCrash, EmitCrash, HandleStep, CancelWindow,
       DecideRestart, CheckExit, RecordAttempt, Schedule, Rollback,
       EmitScheduled, EmitExhausted, RestartStep, TimerFires, AttemptRestart,
       Reset, StabilityStep, StabilityFires, StabilityChecks, StabilityResets,
       ExitStep, ExitBegins, ExitCancelsRestart, ExitCancelsWindow,
       ShutdownNotRunning, ShutdownBegins, ShutdownReaps, ShutdownTimesOut,
       EmitStopping, EmitFinal, AppEnds, ChildDies, Finished, vars,
       restartVars, BudgetInv
  <2> QED
    BY <1>1, <2>1, <2>2 DEF ProtocolStep, Protocol!Next, Protocol!Count,
       Protocol!Refill
<1> QED
  BY <1>2, <1>3

(* Elsewhere the protocol sees only a refill.                                *)
LEMMA OtherProtocol ==
  ASSUME Before, ~shuttingDown, ~shuttingDown', [Next]_vars,
         ~\E t \in Threads : ThreadStep(t)
  PROVE  ProtocolStep
<1>1. /\ UNCHANGED << shuttingDown, state, pending, pc, decision >>
      /\ attempts' = attempts \/ attempts' = 0
  <2>1. ~(ExitBegins \/ ExitStep)
    BY DEF ExitStep, ExitBegins, ExitCancelsRestart, ExitCancelsWindow,
       ShutdownNotRunning, ShutdownBegins, ShutdownReaps, ShutdownTimesOut,
       EmitStopping, EmitFinal, AppEnds, ExitGoto, Before, HostInv, DownInv
  <2> QED
    BY <2>1 DEF Next, StabilityStep, StabilityFires, StabilityChecks,
       StabilityResets, ChildDies, Finished, vars, processVars, restartVars,
       exitVars, localVars
<1>2. phase' = phase
  BY <1>1, PhaseKept
<1> QED
  BY <1>1, <1>2 DEF ProtocolStep, Protocol!Next, Protocol!Refill

LEMMA ProtocolNext ==
  TypeOK /\ HostInv /\ BudgetInv /\ TypeOK' /\ HostInv' /\ [Next]_vars
    => [Protocol!Next]_<< phase, attempts >>
<1> SUFFICES ASSUME Before, After, [Next]_vars PROVE ProtocolStep
  BY DEF Before, After, ProtocolStep
<1>1. CASE shuttingDown'
  BY <1>1, ClosingProtocol
<1>2. CASE ~shuttingDown' /\ \E t \in Threads : ThreadStep(t)
  <2>1. ~shuttingDown
    BY <1>2 DEF ThreadStep, StartStep, Launch, RequestStart, Spawn,
       SpawnFails, HandshakeRead, HandshakeFails, Healthy, HealthFails,
       ReportStep, EmitStarting, EmitOutcome, BeginWindow, DropWindow,
       PollStops, PollFindsCrash, EmitCrash, HandleStep, CancelWindow,
       DecideRestart, CheckExit, RecordAttempt, Schedule, Rollback,
       EmitScheduled, EmitExhausted, RestartStep, TimerFires, AttemptRestart,
       Reset, exitVars
  <2> QED
    BY <1>2, <2>1, StartProtocol, ReportProtocol, HandleProtocol,
       RetryProtocol DEF ThreadStep
<1>3. CASE ~shuttingDown' /\ ~\E t \in Threads : ThreadStep(t)
  <2>1. ~shuttingDown
    BY <1>3 DEF Next, StabilityStep, StabilityFires, StabilityChecks,
       StabilityResets, ExitStep, ExitBegins, ExitCancelsRestart,
       ExitCancelsWindow, ShutdownNotRunning, ShutdownBegins, ShutdownReaps,
       ShutdownTimesOut, EmitStopping, EmitFinal, AppEnds, ChildDies,
       Finished, vars, exitVars
  <2> QED
    BY <1>3, <2>1, OtherProtocol
<1> QED
  BY <1>1, <1>2, <1>3

LEMMA ProtocolInit == Init => phase = "starting" /\ attempts = 0
<1> SUFFICES ASSUME Init PROVE phase = "starting" /\ attempts = 0
  OBVIOUS
<1>1. TypeOK /\ HostInv
  BY TypeInit, HostInit
<1>2. 0 \in Threads /\ pc[0] = "launch" /\ ~shuttingDown /\ attempts = 0
  BY BoundAssumption DEF Init, Threads
<1> QED
  BY <1>1, <1>2, PhaseOfSupervisor DEF SupervisorPhase, PhaseAt, Supervising,
     Locked, Reporting

(* The shell implements the restart protocol: one attempt at a time, every   *)
(* failure answered by one verdict, a restart granted only within the budget *)
(* and paid for, "exhausted" final, and nothing brought back up once the     *)
(* application is closing.                                                   *)
THEOREM ImplementsRestartProtocol == Spec => RestartProtocolSpec
<1>1. Init => Protocol!Init
  BY ProtocolInit DEF Protocol!Init
<1>2. Init => BudgetInv
  BY PolicyAssumption DEF Init, BudgetInv, AttemptsBounded
<1>3. TypeOK /\ HostInv /\ BudgetInv /\ [Next]_vars => BudgetInv'
  BY BudgetStep DEF HostInv
<1>4. TypeOK /\ HostInv /\ BudgetInv /\ TypeOK' /\ HostInv' /\ [Next]_vars
        => [Protocol!Next]_<< phase, attempts >>
  BY ProtocolNext
<1> QED
  BY <1>1, <1>2, <1>3, <1>4, HostInvariant, PTL
  DEF Spec, RestartProtocolSpec, Protocol!Spec

-----------------------------------------------------------------------------
(***************************************************************************)
(* Tokens and their threads                                                *)
(***************************************************************************)

(* Scheduling and firing aside, no step makes a timer or an unborn thread,   *)
(* and none that supervises takes a token back while a timer waits for it.   *)
LEMMA BirthKept ==
  ASSUME BirthInv, nextToken' = nextToken, shuttingDown => shuttingDown',
         pending' = pending \/ shuttingDown \/ \A u \in Threads : pc[u] # "timer",
         \A u \in Threads :
           \/ pc'[u] = pc[u]
           \/ /\ pc'[u] \notin { "unborn", "timer" }
              /\ pc[u] \in { "rollback", "abandoned" } => pc'[u] = "abandoned"
  PROVE  BirthInv'
<1>1. Someone({ "rollback", "abandoned" }) => Someone({ "rollback", "abandoned" })'
  BY DEF Someone
<1>2. \A u \in Threads : pc'[u] \in { "unborn", "timer" } => pc'[u] = pc[u]
  OBVIOUS
<1> QED
  BY <1>1, <1>2 DEF BirthInv

LEMMA ScheduleBirth ==
  ASSUME TypeOK, HostInv, BirthInv, NEW t \in Threads, Schedule(t)
  PROVE  BirthInv'
<1>1. /\ pc[t] = "schedule" /\ pending = 0
      /\ pc[t] \in Supervising
  BY ScheduleMoves DEF HostInv, Supervising, Handling
<1>2. ~Someone({ "rollback", "abandoned" })
  BY <1>1, Lone DEF HostInv, VerdictInv, Over, Someone, Supervising, Handling
<1>3. /\ pending' = nextToken /\ nextToken' = nextToken + 1
      /\ shuttingDown' = shuttingDown
      /\ nextToken \in Threads /\ nextToken # t /\ nextToken # 0
      /\ \/ /\ pc'[t] = "emitScheduled" /\ pc'[nextToken] = "timer"
            /\ \A u \in Threads : u # t /\ u # nextToken => pc'[u] = pc[u]
         \/ /\ pc'[t] = "rollback"
            /\ \A u \in Threads : u # t => pc'[u] = pc[u]
  BY <1>1 DEF Schedule, Goto, TypeOK, ThreadTypes, RestartTypes, exitVars,
     HostInv, SupervisionInv, TokensFresh
<1>4. ~shuttingDown => \A u \in Threads : pc[u] # "timer"
  BY <1>1 DEF BirthInv, HostInv, SupervisionInv, TokensFresh
<1>5. \A u \in Threads : u < nextToken + 1 => u < nextToken \/ u = nextToken
  BY DEF Threads, TypeOK, RestartTypes
<1>6. \A u \in Threads :
        u # 0 /\ u < nextToken' /\ pc'[u] = "unborn"
          => Someone({ "rollback", "abandoned" })'
  BY <1>1, <1>2, <1>3, <1>5 DEF BirthInv, Someone
<1>7. ~shuttingDown' => \A u \in Threads : pc'[u] = "timer" => pending' = u
  BY <1>3, <1>4
<1> QED
  BY <1>6, <1>7 DEF BirthInv

LEMMA BirthStep ==
  TypeOK /\ HostInv /\ BirthInv /\ [Next]_vars => BirthInv'
<1> SUFFICES ASSUME TypeOK, HostInv, BirthInv, [Next]_vars
             PROVE  BirthInv'
  OBVIOUS
<1> USE DEF At, restartVars, exitVars
<1>1. ASSUME NEW t \in Threads, Schedule(t) PROVE BirthInv'
  BY <1>1, ScheduleBirth
<1>2. ASSUME NEW t \in Threads, TimerFires(t) PROVE BirthInv'
  <2>1. /\ pc[t] = "timer" /\ pc'[t] \in { "restart", "done" }
        /\ \A u \in Threads : u # t => pc'[u] = pc[u]
        /\ UNCHANGED << nextToken, shuttingDown >>
        /\ pending = t \/ pending' = pending
    BY <1>2, Moves DEF TimerFires
  <2>2. Someone({ "rollback", "abandoned" })' = Someone({ "rollback", "abandoned" })
    BY <2>1 DEF Someone
  <2> QED
    BY <2>1, <2>2 DEF BirthInv
<1>3. ASSUME NEW t \in Threads, Rollback(t) PROVE BirthInv'
  <2>1. \A u \in Threads : pc[u] = "timer" => shuttingDown
    BY <1>3 DEF Rollback, BirthInv, HostInv, SupervisionInv, TokensFresh
  <2>2. /\ pc'[t] = "abandoned" /\ \A u \in Threads : u # t => pc'[u] = pc[u]
        /\ UNCHANGED << nextToken, shuttingDown >>
    BY <1>3, Moves DEF Rollback
  <2> QED
    BY <2>1, <2>2, BirthKept
<1>4. ASSUME NEW t \in Threads, ThreadStep(t),
             ~Schedule(t), ~TimerFires(t), ~Rollback(t)
      PROVE  BirthInv'
  <2>1. /\ UNCHANGED << nextToken, pending, shuttingDown >>
        /\ pc[t] \notin { "rollback", "abandoned" }
        /\ \E l : l \notin { "unborn", "timer" } /\ Goto(t, l)
    BY <1>4 DEF ThreadStep, StartStep, Launch, RequestStart, Spawn, SpawnFails,
       HandshakeRead, HandshakeFails, Healthy, HealthFails, StartReturns,
       ReportStep, EmitStarting, EmitOutcome, BeginWindow, DropWindow,
       PollStops, PollFindsCrash, EmitCrash, HandleStep, CancelWindow,
       DecideRestart, CheckExit, RecordAttempt, EmitScheduled, EmitExhausted,
       RestartStep, AttemptRestart, Reset
  <2> QED
    BY <2>1, Moves, BirthKept
<1>5. CASE ~\E t \in Threads : ThreadStep(t)
  <2>1. /\ UNCHANGED << pc, nextToken >>
        /\ shuttingDown => shuttingDown'
        /\ pending' = pending \/ shuttingDown
    BY <1>5 DEF Next, StabilityStep, StabilityFires, StabilityChecks,
       StabilityResets, ExitStep, ExitBegins, ExitCancelsRestart,
       ExitCancelsWindow, ShutdownNotRunning, ShutdownBegins, ShutdownReaps,
       ShutdownTimesOut, EmitStopping, EmitFinal, AppEnds, ExitGoto, ChildDies,
       Finished, vars, HostInv, DownInv
  <2> QED
    BY <2>1, BirthKept
<1> QED
  BY <1>1, <1>2, <1>3, <1>4, <1>5

-----------------------------------------------------------------------------
(***************************************************************************)
(* What the window sees                                                    *)
(***************************************************************************)

Boot == { "request", "spawn", "handshake", "health" }

FeedStep == Feed!FeedNext \/ UNCHANGED Feed!feedVars

(* The labels of the threads that stay where they are                        *)
LEMMA FeedMoves ==
  ASSUME NEW t \in Threads,
         \A u \in Threads : u # t => pc'[u] = pc[u] /\ decision'[u] = decision[u]
  PROVE  feedPc' = [ feedPc EXCEPT ![t] = feedLabel(t)' ]
<1>1. \A u \in Threads : u # t => feedLabel(u)' = feedLabel(u)
  BY DEF feedLabel
<1> QED
  BY <1>1 DEF feedPc

(* While t supervises, it alone tells what the window sees of the lifecycle. *)
LEMMA FeedStateBy ==
  ASSUME SupervisionInv, NEW t \in Threads, pc[t] \in Supervising,
         \A u \in Threads : u # t => pc'[u] = pc[u] \/ pc'[u] = "timer"
  PROVE  /\ feedState = IF pc[t] \in Boot THEN "Starting" ELSE Seen(state)
         /\ feedState' = IF pc'[t] \in Boot THEN "Starting" ELSE Seen(state')
<1>1. \A u \in Threads : u # t => pc[u] \notin Boot /\ pc'[u] \notin Boot
  BY Lone DEF Boot, Supervising, Locked
<1>2. /\ Someone(Boot) <=> pc[t] \in Boot
      /\ Someone(Boot)' <=> pc'[t] \in Boot
  BY <1>1 DEF Someone
<1> QED
  BY <1>2 DEF feedState, Boot, Seen

LEMMA FeedStateKept ==
  ASSUME state' = state,
         \A u \in Threads : pc'[u] = pc[u] \/ (pc[u] \notin Boot /\ pc'[u] \notin Boot)
  PROVE  feedState' = feedState
BY DEF feedState, Someone, Boot, Seen

(* The mutex is free for the window when it is free.                         *)
LEMMA FeedMutex ==
  ASSUME TypeOK, ProcessLockFree
  PROVE  Feed!MutexFree
<1>1. \A u \in Threads : feedLabel(u) \notin { "reset", "booting" }
  <2> SUFFICES ASSUME NEW u \in Threads
               PROVE  feedLabel(u) \notin { "reset", "booting" }
    OBVIOUS
  <2>1. pc[u] \in Labels /\ pc[u] \notin Locked
    BY DEF TypeOK, ThreadTypes, ProcessLockFree
  <2>2. pc[u] \notin { "reset", "booting" } \cup Boot
    BY <2>1 DEF Labels, Supervising, Locked, Reporting, Handling, Boot
  <2> QED
    BY <2>2 DEF feedLabel, Boot
<1>2. Feed!Launches = Threads
  BY DEF Feed!Launches, Threads
<1> QED
  BY <1>1, <1>2 DEF Feed!MutexFree, feedPc

(* What no step but a few changes                                            *)
LEMMA FeedUnseen ==
  /\ pending' = pending => feedPending' = feedPending
  /\ event' = event => feedEvent' = feedEvent
  /\ outcome' = outcome => feedOutcome' = feedOutcome
  /\ decision' = decision => feedGranted' = feedGranted
BY DEF feedPending, feedEvent, feedOutcome, feedGranted, Seen

(* An announcement as the window reads it                                    *)
LEMMA FeedAnnounces ==
  ASSUME TypeOK, NEW kind, NEW from, NEW to, NEW n,
         event' = [ seq |-> event.seq + 1, kind |-> kind, previous |-> from,
                    state |-> to, attempt |-> n ]
  PROVE  Feed!Announce(kind, Seen(from), Seen(to), n)
BY DEF TypeOK, EventTypes, feedEvent, Feed!Announce, Seen

LEMMA FeedRemembers ==
  ASSUME TypeOK, NEW t \in Threads, NEW s, outcome' = [ outcome EXCEPT ![t] = s ]
  PROVE  feedOutcome' = [ feedOutcome EXCEPT ![t] = Seen(s) ]
BY DEF TypeOK, ThreadTypes, feedOutcome, Seen

LEMMA FeedSteps ==
  ASSUME NEW t \in Threads,
         \A u \in Threads : u # t => pc'[u] = pc[u] /\ decision'[u] = decision[u]
  PROVE  /\ Feed!Step(t, feedLabel(t), feedLabel(t)')
         /\ feedLabel(t)' = feedLabel(t) => feedPc' = feedPc
<1>1. feedPc[t] = feedLabel(t) /\ feedPc' = [ feedPc EXCEPT ![t] = feedLabel(t)' ]
  BY FeedMoves DEF feedPc
<1>2. feedPc[t] = feedLabel(t)' => [ feedPc EXCEPT ![t] = feedLabel(t)' ] = feedPc
  BY DEF feedPc
<1> QED
  BY <1>1, <1>2 DEF Feed!Step

LEMMA FeedThreads == Feed!Launches = Threads
BY DEF Feed!Launches, Threads

LEMMA StartFeed ==
  ASSUME Before, NEW t \in Threads, StartStep(t)
  PROVE  FeedStep
<1> USE DEF At, Before, Feed!feedVars, FeedStep
<1>1. /\ UNCHANGED << attempts, pending, event, decision >>
      /\ \A u \in Threads : u # t => pc'[u] = pc[u]
      /\ pc[t] \in Supervising
  BY Moves DEF StartStep, Launch, RequestStart, Spawn, SpawnFails,
     HandshakeRead, HandshakeFails, Healthy, HealthFails, StartReturns,
     restartVars, localVars, Supervising, Locked
<1>2. /\ UNCHANGED << attempts, feedPending, feedEvent, feedGranted >>
      /\ Feed!Step(t, feedLabel(t), feedLabel(t)')
      /\ feedLabel(t)' = feedLabel(t) => feedPc' = feedPc
  BY <1>1, FeedUnseen, FeedSteps
<1>3. /\ feedState = IF pc[t] \in Boot THEN "Starting" ELSE Seen(state)
      /\ feedState' = IF pc'[t] \in Boot THEN "Starting" ELSE Seen(state')
  BY <1>1, FeedStateBy DEF HostInv
<1>4. CASE Launch(t)
  <2>1. /\ pc[t] = "launch" /\ pc'[t] = "request" /\ outcome' = outcome
        /\ ProcessLockFree
    BY <1>4, Moves DEF Launch, localVars
  <2>2. feedLabel(t) = "launch" /\ feedLabel(t)' = "booting" /\ feedState' = "Starting"
    BY <1>3, <2>1 DEF feedLabel, Boot
  <2>3. feedOutcome' = feedOutcome /\ Feed!MutexFree
    BY <2>1, FeedUnseen, FeedMutex
  <2> QED
    BY <1>2, <2>2, <2>3, FeedThreads
    DEF Feed!FeedNext, Feed!FeedThread, Feed!FeedLaunch
<1>5. CASE RequestStart(t) \/ Spawn(t) \/ HandshakeRead(t)
  <2>1. pc[t] \in Boot /\ pc'[t] \in Boot /\ outcome' = outcome
    BY <1>5, Moves DEF RequestStart, Spawn, HandshakeRead, Boot, localVars
  <2>2. feedLabel(t) = "booting" /\ feedLabel(t)' = "booting" /\ feedState' = feedState
    BY <1>3, <2>1 DEF feedLabel, Boot
  <2>3. feedOutcome' = feedOutcome
    BY <2>1, FeedUnseen
  <2> QED
    BY <1>2, <2>2, <2>3
<1>6. CASE SpawnFails(t) \/ HandshakeFails(t) \/ HealthFails(t) \/ Healthy(t)
  <2>1. /\ pc[t] \in Boot /\ pc'[t] = "emitStarting"
        /\ state' \in { "Running", "Failed", "Timeout" }
        /\ outcome' = [ outcome EXCEPT ![t] = state' ]
    BY <1>6, Moves DEF SpawnFails, HandshakeFails, HealthFails, Healthy,
       StartReturns, Boot
  <2>2. feedLabel(t) = "booting" /\ feedLabel(t)' = "emitStarting"
    BY <2>1 DEF feedLabel, Boot
  <2>3. feedState' = Seen(state') /\ feedState' \in { "Running", "Failed" }
    BY <1>3, <2>1 DEF Boot, Seen
  <2>4. feedOutcome' = [ feedOutcome EXCEPT ![t] = feedState' ]
    BY <2>1, <2>3, FeedRemembers
  <2> QED
    BY <1>2, <2>2, <2>3, <2>4, FeedThreads
    DEF Feed!FeedNext, Feed!FeedThread, Feed!FeedStarted
<1> QED
  BY <1>4, <1>5, <1>6 DEF StartStep

LEMMA ReportFeed ==
  ASSUME Before, ~shuttingDown, NEW t \in Threads, ReportStep(t)
  PROVE  FeedStep
<1> USE DEF At, Before, Feed!feedVars, FeedStep
<1>1. /\ UNCHANGED << attempts, pending, decision >>
      /\ \A u \in Threads : u # t => pc'[u] = pc[u]
      /\ pc[t] \in Supervising
  BY Moves DEF ReportStep, EmitStarting, EmitOutcome, BeginWindow, DropWindow,
     PollStops, PollFindsCrash, EmitCrash, restartVars, localVars, Supervising,
     Reporting
<1>2. /\ UNCHANGED << attempts, feedPending, feedGranted >>
      /\ Feed!Step(t, feedLabel(t), feedLabel(t)')
      /\ feedLabel(t)' = feedLabel(t) => feedPc' = feedPc
  BY <1>1, FeedUnseen, FeedSteps
<1>3. /\ feedState = IF pc[t] \in Boot THEN "Starting" ELSE Seen(state)
      /\ feedState' = IF pc'[t] \in Boot THEN "Starting" ELSE Seen(state')
  BY <1>1, FeedStateBy DEF HostInv
<1>4. CASE EmitStarting(t)
  <2>1. /\ pc[t] = "emitStarting" /\ pc'[t] = "emitOutcome"
        /\ state' = state /\ outcome' = outcome
    BY <1>4, Moves DEF EmitStarting, processVars, localVars
  <2>2. /\ feedLabel(t) = "emitStarting" /\ feedLabel(t)' = "emitOutcome"
        /\ feedState' = feedState
    BY <1>3, <2>1 DEF feedLabel, Boot
  <2>3. feedOutcome' = feedOutcome
    BY <2>1, FeedUnseen
  <2>4. Feed!Announce("state_changed", "NotStarted", "Starting", 0)
    BY <1>4, FeedAnnounces DEF EmitStarting, EmitStateChanged, Seen
  <2> QED
    BY <1>2, <2>2, <2>3, <2>4, FeedThreads
    DEF Feed!FeedNext, Feed!FeedThread, Feed!AnnounceStarting
<1>5. CASE EmitOutcome(t)
  <2>1. /\ pc[t] = "emitOutcome"
        /\ pc'[t] = IF outcome[t] = "Running" THEN "beginWindow" ELSE "cancelWindow"
        /\ state' = state /\ outcome' = outcome
    BY <1>5, Moves DEF EmitOutcome, processVars, localVars
  <2>2. feedOutcome[t] = Seen(outcome[t])
    BY DEF feedOutcome
  <2>3. /\ feedLabel(t) = "emitOutcome"
        /\ feedLabel(t)' = IF feedOutcome[t] = "Running" THEN "watch" ELSE "failed"
        /\ feedState' = feedState
    BY <1>3, <2>1, <2>2 DEF feedLabel, Boot, Seen
  <2>4. feedOutcome' = feedOutcome
    BY <2>1, FeedUnseen
  <2>5. Feed!Announce("state_changed", "Starting", feedOutcome[t], 0)
    <3>1. Feed!Announce("state_changed", Seen("Starting"), Seen(outcome[t]), 0)
      BY <1>5, FeedAnnounces DEF EmitOutcome, EmitStateChanged
    <3> QED
      BY <2>2, <3>1 DEF Seen
  <2> QED
    BY <1>2, <2>3, <2>4, <2>5, FeedThreads
    DEF Feed!FeedNext, Feed!FeedThread, Feed!AnnounceOutcome
<1>6. CASE BeginWindow(t) \/ DropWindow(t)
  <2>1. /\ pc[t] \in { "beginWindow", "dropWindow" }
        /\ pc'[t] \in { "dropWindow", "poll" }
        /\ UNCHANGED << state, outcome, event >>
    BY <1>6, Moves DEF BeginWindow, DropWindow, processVars, localVars
  <2>2. /\ feedLabel(t) = "watch" /\ feedLabel(t)' = "watch"
        /\ feedState' = feedState
    BY <1>3, <2>1 DEF feedLabel, Boot
  <2>3. feedOutcome' = feedOutcome /\ feedEvent' = feedEvent
    BY <2>1, FeedUnseen
  <2> QED
    BY <1>2, <2>2, <2>3
<1>7. CASE PollFindsCrash(t)
  <2>1. /\ pc[t] = "poll" /\ pc'[t] = "emitCrash" /\ ProcessLockFree
        /\ state = "Running" /\ state' = "Crashed" /\ event' = event
        /\ outcome' = [ outcome EXCEPT ![t] = "Crashed" ]
    BY <1>7, Moves DEF PollFindsCrash
  <2>2. /\ feedLabel(t) = "watch" /\ feedLabel(t)' = "emitCrash"
        /\ feedState = "Running" /\ feedState' = "Crashed"
    BY <1>3, <2>1 DEF feedLabel, Boot, Seen
  <2>3. feedEvent' = feedEvent /\ Feed!MutexFree
    BY <2>1, FeedUnseen, FeedMutex
  <2>4. feedOutcome' = [ feedOutcome EXCEPT ![t] = "Crashed" ]
    <3>1. feedOutcome' = [ feedOutcome EXCEPT ![t] = Seen("Crashed") ]
      BY <2>1, FeedRemembers
    <3> QED
      BY <3>1 DEF Seen
  <2> QED
    BY <1>2, <2>2, <2>3, <2>4, FeedThreads
    DEF Feed!FeedNext, Feed!FeedThread, Feed!FeedCrash
<1>8. CASE EmitCrash(t)
  <2>1. /\ pc[t] = "emitCrash" /\ pc'[t] = "cancelWindow"
        /\ state' = state /\ outcome' = outcome
    BY <1>8, Moves DEF EmitCrash, processVars, localVars
  <2>2. /\ feedLabel(t) = "emitCrash" /\ feedLabel(t)' = "failed"
        /\ feedState' = feedState
    BY <1>3, <2>1 DEF feedLabel, Boot
  <2>3. feedOutcome' = feedOutcome /\ feedOutcome[t] = Seen(outcome[t])
    BY <2>1, FeedUnseen DEF feedOutcome
  <2>4. Feed!Announce("state_changed", "Running", feedOutcome[t], 0)
    <3>1. Feed!Announce("state_changed", Seen("Running"), Seen(outcome[t]), 0)
      BY <1>8, FeedAnnounces DEF EmitCrash, EmitStateChanged
    <3> QED
      BY <2>3, <3>1 DEF Seen
  <2> QED
    BY <1>2, <2>2, <2>3, <2>4, FeedThreads
    DEF Feed!FeedNext, Feed!FeedThread, Feed!AnnounceCrash
<1>9. ~PollStops(t)
  BY DEF PollStops, HostInv, OutcomeInv
<1> QED
  BY <1>4, <1>5, <1>6, <1>7, <1>8, <1>9 DEF ReportStep

LEMMA ScheduleFeed ==
  ASSUME Before, BirthInv, NEW t \in Threads, Schedule(t)
  PROVE  FeedStep
<1> USE DEF Before
<1>1. /\ pc[t] = "schedule" /\ pending = 0 /\ pending' # 0
      /\ pc'[t] \in { "emitScheduled", "rollback" }
      /\ \A u \in Threads : u # t => pc'[u] = pc[u] \/ pc'[u] = "timer"
      /\ UNCHANGED << state, attempts, event, outcome, decision >>
  BY ScheduleMoves DEF HostInv, Schedule, processVars, localVars
<1>2. pc[t] \in Supervising
  BY <1>1 DEF Supervising, Handling
<1>3. feedState' = feedState
  BY <1>1, <1>2, FeedStateBy DEF HostInv, Boot
<1>4. /\ UNCHANGED << attempts, feedEvent, feedOutcome, feedGranted >>
      /\ ~feedPending /\ feedPending' = TRUE
  BY <1>1, FeedUnseen DEF feedPending
<1>5. feedPc[t] = "schedule"
  BY <1>1 DEF feedPc, feedLabel
<1>6. CASE Goto(t, "rollback")
  <2>1. pc'[t] = "rollback" /\ \A u \in Threads : u # t => pc'[u] = pc[u]
    BY <1>6, Moves
  <2>2. feedPc' = [ feedPc EXCEPT ![t] = feedLabel(t)' ]
    BY <1>1, <2>1, FeedMoves
  <2>3. feedLabel(t)' = "rollback"
    BY <2>1 DEF feedLabel
  <2> QED
    BY <1>3, <1>4, <1>5, <2>2, <2>3, FeedThreads
    DEF FeedStep, Feed!FeedNext, Feed!FeedThread, Feed!FeedSchedule
<1>7. CASE pc' = [ pc EXCEPT ![t] = "emitScheduled", ![nextToken] = "timer" ]
  <2>1. PICK n \in Threads :
          n = nextToken /\ n # 0 /\ pc[n] = "unborn" /\ n # t
    BY <1>1 DEF Schedule, TypeOK, RestartTypes, HostInv, SupervisionInv, TokensFresh
  <2>2. /\ pc'[t] = "emitScheduled" /\ pc'[n] = "timer"
        /\ \A u \in Threads : u # t /\ u # n => pc'[u] = pc[u]
    BY <1>7, <2>1 DEF TypeOK, ThreadTypes
  <2>3. feedPc[n] = "unborn"
    BY <2>1 DEF feedPc, feedLabel
  <2>4. \A v \in 1 .. n - 1 : feedPc[v] # "unborn"
    <3> SUFFICES ASSUME NEW v \in 1 .. n - 1 PROVE feedPc[v] # "unborn"
      OBVIOUS
    <3>1. v \in Threads /\ v # 0 /\ v < nextToken
      BY <2>1, BoundAssumption DEF Threads
    <3>2. ~Someone({ "rollback", "abandoned" })
      BY <1>1, <1>2, Lone DEF HostInv, VerdictInv, Over, Someone, Supervising, Handling
    <3>3. pc[v] # "unborn"
      BY <3>1, <3>2 DEF BirthInv
    <3> QED
      BY <3>1, <3>3 DEF feedPc, feedLabel
  <2>5. feedPc' = [ feedPc EXCEPT ![t] = "emitScheduled", ![n] = "timer" ]
    <3>1. feedLabel(t)' = "emitScheduled" /\ feedLabel(n)' = "timer"
      BY <2>2 DEF feedLabel
    <3>2. \A u \in Threads : u # t /\ u # n => feedLabel(u)' = feedLabel(u)
      BY <1>1, <2>2 DEF feedLabel
    <3> QED
      BY <2>1, <3>1, <3>2 DEF feedPc
  <2> QED
    BY <1>3, <1>4, <1>5, <2>1, <2>3, <2>4, <2>5, FeedThreads
    DEF FeedStep, Feed!FeedNext, Feed!FeedThread, Feed!FeedSchedule
<1> QED
  BY <1>1, <1>6, <1>7 DEF Schedule

LEMMA HandleFeed ==
  ASSUME Before, BirthInv, ~shuttingDown, NEW t \in Threads, HandleStep(t)
  PROVE  FeedStep
<1> USE DEF At, Before, Feed!feedVars, FeedStep
<1>1. CASE Schedule(t)
  BY <1>1, ScheduleFeed
<1>2. ASSUME ~Schedule(t)
      PROVE  /\ state' = state /\ outcome' = outcome
             /\ \A u \in Threads : u # t => pc'[u] = pc[u] /\ decision'[u] = decision[u]
             /\ pc[t] \in Handling \cup { "emitScheduled" } /\ pc'[t] \notin Boot
  <2>1. /\ state' = state /\ outcome' = outcome
        /\ \A u \in Threads : u # t => decision'[u] = decision[u]
        /\ pc[t] \in Handling \cup { "emitScheduled" }
        /\ \E l : l \notin Boot /\ Goto(t, l)
    BY <1>2 DEF HandleStep, CancelWindow, DecideRestart, CheckExit,
       RecordAttempt, Rollback, EmitScheduled, EmitExhausted, processVars,
       localVars, Boot, Handling, TypeOK, ThreadTypes
  <2> QED
    BY <2>1, Moves
<1>3. ASSUME ~Schedule(t)
      PROVE  /\ UNCHANGED << feedState, feedOutcome >>
             /\ Feed!Step(t, feedLabel(t), feedLabel(t)')
             /\ feedLabel(t)' = feedLabel(t) => feedPc' = feedPc
  BY <1>2, <1>3, FeedStateKept, FeedUnseen, FeedSteps DEF Boot, Handling
<1>4. CASE CancelWindow(t)
  <2>1. /\ pc[t] = "cancelWindow" /\ pc'[t] = "decide"
        /\ UNCHANGED << attempts, pending, event, decision >>
    BY <1>4, Moves DEF CancelWindow, restartVars, localVars
  <2>2. feedLabel(t) = "failed" /\ feedLabel(t)' = "failed" /\ ~Schedule(t)
    BY <2>1 DEF feedLabel, Schedule
  <2> QED
    BY <1>3, <2>1, <2>2, FeedUnseen
<1>5. CASE DecideRestart(t)
  <2>1. /\ pc[t] = "decide" /\ pc'[t] = "checkExit"
        /\ UNCHANGED << attempts, pending, event >>
        /\ decision'[t] = Decide
        /\ \A u \in Threads : u # t => decision'[u] = decision[u]
    BY <1>5, Moves DEF DecideRestart, restartVars, TypeOK, ThreadTypes
  <2>2. /\ feedLabel(t) = "failed" /\ ~Schedule(t)
        /\ feedLabel(t)' = IF attempts >= MaxAttempts THEN "emitExhausted"
                                                      ELSE "granted"
    BY <2>1 DEF feedLabel, Schedule, Decide, Exhausted, Retry
  <2>3. feedGranted' = [ feedGranted EXCEPT ![t] =
                           IF attempts >= MaxAttempts THEN attempts ELSE attempts + 1 ]
    <3>1. decision'[t].attempt =
            IF attempts >= MaxAttempts THEN attempts ELSE attempts + 1
      BY <2>1 DEF Decide, Exhausted, Retry
    <3> QED
      BY <2>1, <3>1 DEF feedGranted
  <2> QED
    BY <1>3, <2>1, <2>2, <2>3, FeedUnseen, FeedThreads
    DEF Feed!FeedNext, Feed!FeedThread, Feed!FeedDecide
<1>6. CASE CheckExit(t)
  <2>1. /\ pc[t] = "checkExit"
        /\ pc'[t] = IF decision[t].retry THEN "record" ELSE "emitExhausted"
        /\ UNCHANGED << attempts, pending, event, decision >>
    BY <1>6, Moves DEF CheckExit, restartVars, localVars
  <2>2. feedLabel(t)' = feedLabel(t) /\ ~Schedule(t)
    BY <2>1 DEF feedLabel, Schedule
  <2> QED
    BY <1>3, <2>1, <2>2, FeedUnseen
<1>7. CASE RecordAttempt(t)
  <2>1. /\ pc[t] = "record" /\ pc'[t] = "schedule"
        /\ UNCHANGED << pending, event, decision >> /\ attempts' = attempts + 1
    BY <1>7, Moves DEF RecordAttempt, localVars
  <2>2. /\ feedLabel(t) = "granted" /\ feedLabel(t)' = "schedule" /\ ~Schedule(t)
    BY <2>1 DEF feedLabel, Schedule
  <2> QED
    BY <1>3, <2>1, <2>2, FeedUnseen, FeedThreads
    DEF Feed!FeedNext, Feed!FeedThread, Feed!FeedRecord
<1>8. CASE Rollback(t)
  <2>1. /\ pc[t] = "rollback" /\ pc'[t] = "abandoned" /\ pending' = 0
        /\ UNCHANGED << attempts, event, decision >>
    BY <1>8, Moves DEF Rollback, localVars
  <2>2. /\ feedLabel(t) = "rollback" /\ feedLabel(t)' = "abandoned"
        /\ ~Schedule(t) /\ feedPending' = FALSE
    BY <2>1 DEF feedLabel, Schedule, feedPending
  <2> QED
    BY <1>3, <2>1, <2>2, FeedUnseen, FeedThreads
    DEF Feed!FeedNext, Feed!FeedThread, Feed!FeedRollback
<1>9. CASE EmitScheduled(t)
  <2>1. /\ pc[t] = "emitScheduled" /\ pc'[t] = "done"
        /\ UNCHANGED << attempts, pending, decision >>
    BY <1>9, Moves DEF EmitScheduled, restartVars, localVars
  <2>2. feedLabel(t) = "emitScheduled" /\ feedLabel(t)' = "done" /\ ~Schedule(t)
    BY <2>1 DEF feedLabel, Schedule
  <2>3. feedEvent.state = Seen(event.state) /\ feedGranted[t] = decision[t].attempt
    BY DEF feedEvent, feedGranted
  <2>4. Feed!Announce("restart_scheduled", feedEvent.state, feedEvent.state, feedGranted[t])
    BY <1>9, <2>3, FeedAnnounces DEF EmitScheduled, EmitRestart
  <2> QED
    BY <1>3, <2>1, <2>2, <2>4, FeedUnseen, FeedThreads
    DEF Feed!FeedNext, Feed!FeedThread, Feed!AnnounceScheduled
<1>10. CASE EmitExhausted(t)
  <2>1. /\ pc[t] = "emitExhausted" /\ pc'[t] = "done"
        /\ UNCHANGED << attempts, pending, decision >>
    BY <1>10, Moves DEF EmitExhausted, restartVars, localVars
  <2>2. feedLabel(t) = "emitExhausted" /\ feedLabel(t)' = "done" /\ ~Schedule(t)
    BY <2>1 DEF feedLabel, Schedule
  <2>3. feedEvent.state = Seen(event.state) /\ feedGranted[t] = decision[t].attempt
    BY DEF feedEvent, feedGranted
  <2>4. Feed!Announce("restart_exhausted", feedEvent.state, feedEvent.state, feedGranted[t])
    BY <1>10, <2>3, FeedAnnounces DEF EmitExhausted, EmitRestart
  <2> QED
    BY <1>3, <2>1, <2>2, <2>4, FeedUnseen, FeedThreads
    DEF Feed!FeedNext, Feed!FeedThread, Feed!AnnounceExhausted
<1> QED
  BY <1>1, <1>4, <1>5, <1>6, <1>7, <1>8, <1>9, <1>10 DEF HandleStep

LEMMA RestartFeed ==
  ASSUME Before, BirthInv, ~shuttingDown, NEW t \in Threads, RestartStep(t)
  PROVE  FeedStep
<1> USE DEF At, Before, Feed!feedVars, FeedStep
<1>1. /\ UNCHANGED << attempts, outcome, decision >>
      /\ \A u \in Threads : u # t => pc'[u] = pc[u]
  BY Moves DEF RestartStep, TimerFires, AttemptRestart, Reset, restartVars, localVars
<1>2. /\ UNCHANGED << attempts, feedOutcome, feedGranted >>
      /\ Feed!Step(t, feedLabel(t), feedLabel(t)')
  BY <1>1, FeedUnseen, FeedSteps
<1>3. CASE TimerFires(t)
  <2>1. pending = t
    BY <1>3 DEF TimerFires, BirthInv
  <2>2. /\ pc[t] = "timer" /\ pc'[t] = "restart" /\ pending' = 0
        /\ UNCHANGED << state, event >>
    BY <1>3, <2>1, Moves DEF TimerFires, processVars
  <2>3. /\ feedLabel(t) = "timer" /\ feedLabel(t)' = "restart"
        /\ feedPending' = FALSE
    BY <2>2 DEF feedLabel, feedPending
  <2>4. feedState' = feedState /\ feedEvent' = feedEvent
    BY <1>1, <2>2, FeedStateKept, FeedUnseen DEF Boot
  <2> QED
    BY <1>2, <2>3, <2>4, FeedThreads
    DEF Feed!FeedNext, Feed!FeedThread, Feed!FeedFires
<1>4. CASE AttemptRestart(t)
  <2>1. pc[t] = "restart" /\ ProcessLockFree /\ UNCHANGED << state, event, pending >>
    BY <1>4 DEF AttemptRestart, processVars, restartVars
  <2>2. state \in Retryable
    BY <2>1 DEF HostInv, VerdictInv, Someone
  <2>3. pc'[t] = "reset" /\ pc[t] \in Supervising
    BY <1>4, <2>1, <2>2, Moves DEF AttemptRestart, RestartStillEligible, Supervising
  <2>4. feedLabel(t) = "restart" /\ feedLabel(t)' = "reset"
    BY <2>1, <2>3 DEF feedLabel
  <2>5. feedState' = feedState /\ feedState \in Feed!Retryable
    BY <1>1, <2>1, <2>2, <2>3, FeedStateBy
    DEF HostInv, Boot, Seen, Retryable, Feed!Retryable
  <2>6. feedEvent' = feedEvent /\ feedPending' = feedPending /\ Feed!MutexFree
    BY <2>1, FeedUnseen, FeedMutex
  <2> QED
    BY <1>2, <2>4, <2>5, <2>6, FeedThreads
    DEF Feed!FeedNext, Feed!FeedThread, Feed!FeedRestart
<1>5. CASE Reset(t)
  <2>1. pc[t] = "reset" /\ pc'[t] = "request" /\ pending' = pending
    BY <1>5, Moves DEF Reset, restartVars
  <2>2. pc[t] \in Supervising
    BY <2>1 DEF Supervising, Locked
  <2>3. feedLabel(t) = "reset" /\ feedLabel(t)' = "booting"
    BY <2>1 DEF feedLabel
  <2>4. feedState = Seen(state) /\ feedState' = "Starting"
    BY <1>1, <2>1, <2>2, FeedStateBy DEF HostInv, Boot
  <2>5. Feed!Announce("state_changed", feedState, "NotStarted", 0)
    <3>1. Feed!Announce("state_changed", Seen(state), Seen("NotStarted"), 0)
      BY <1>5, FeedAnnounces DEF Reset, EmitStateChanged
    <3> QED
      BY <2>4, <3>1 DEF Seen
  <2>6. feedPending' = feedPending
    BY <2>1, FeedUnseen
  <2> QED
    BY <1>2, <2>3, <2>4, <2>5, <2>6, FeedThreads
    DEF Feed!FeedNext, Feed!FeedThread, Feed!FeedReset
<1> QED
  BY <1>3, <1>4, <1>5 DEF RestartStep

LEMMA OtherFeed ==
  ASSUME Before, ~shuttingDown', [Next]_vars, ~\E t \in Threads : ThreadStep(t)
  PROVE  FeedStep
<1>1. /\ UNCHANGED << state, pending, event, pc, outcome, decision >>
      /\ attempts' = attempts \/ attempts' = 0
  <2>1. ~(ExitBegins \/ ExitStep)
    BY DEF ExitStep, ExitBegins, ExitCancelsRestart, ExitCancelsWindow,
       ShutdownNotRunning, ShutdownBegins, ShutdownReaps, ShutdownTimesOut,
       EmitStopping, EmitFinal, AppEnds, ExitGoto, Before, HostInv, DownInv
  <2> QED
    BY <2>1 DEF Next, StabilityStep, StabilityFires, StabilityChecks,
       StabilityResets, ChildDies, Finished, vars, processVars, restartVars,
       localVars
<1>2. feedState' = feedState
  BY <1>1, FeedStateKept
<1>3. UNCHANGED << feedPending, feedEvent, feedOutcome, feedGranted >>
  BY <1>1, FeedUnseen
<1>4. feedPc' = feedPc
  BY <1>1 DEF feedPc, feedLabel
<1>5. attempts \in Nat
  BY DEF Before, TypeOK, RestartTypes
<1> QED
  BY <1>1, <1>2, <1>3, <1>4, <1>5
  DEF FeedStep, Feed!FeedNext, Feed!Refill, Feed!feedVars

LEMMA FeedNext ==
  TypeOK /\ HostInv /\ BudgetInv /\ BirthInv /\ [Next]_vars
    => (~shuttingDown' => Feed!FeedNext \/ UNCHANGED Feed!feedVars)
<1> SUFFICES ASSUME Before, BirthInv, [Next]_vars, ~shuttingDown' PROVE FeedStep
  BY DEF Before, FeedStep
<1>1. CASE \E t \in Threads : ThreadStep(t)
  <2>1. ~shuttingDown
    BY <1>1 DEF ThreadStep, StartStep, Launch, RequestStart, Spawn,
       SpawnFails, HandshakeRead, HandshakeFails, Healthy, HealthFails,
       ReportStep, EmitStarting, EmitOutcome, BeginWindow, DropWindow,
       PollStops, PollFindsCrash, EmitCrash, HandleStep, CancelWindow,
       DecideRestart, CheckExit, RecordAttempt, Schedule, Rollback,
       EmitScheduled, EmitExhausted, RestartStep, TimerFires, AttemptRestart,
       Reset, exitVars
  <2> QED
    BY <1>1, <2>1, StartFeed, ReportFeed, HandleFeed, RestartFeed DEF ThreadStep
<1>2. CASE ~\E t \in Threads : ThreadStep(t)
  BY <1>2, OtherFeed
<1> QED
  BY <1>1, <1>2

LEMMA FeedInitial == Init => Feed!FeedInit
<1> SUFFICES ASSUME Init PROVE Feed!FeedInit
  OBVIOUS
<1>1. feedState = "NotStarted" /\ feedPending = FALSE /\ attempts = 0
  BY DEF Init, feedState, feedPending, Someone, Seen
<1>2. feedEvent = [ seq |-> 0, kind |-> "none", previous |-> "NotStarted",
                    state |-> "NotStarted", attempt |-> 0 ]
  BY DEF Init, feedEvent, Seen
<1>3. feedPc = [ t \in Threads |-> IF t = 0 THEN "launch" ELSE "unborn" ]
  BY DEF Init, feedPc, feedLabel
<1>4. feedOutcome = [ t \in Threads |-> "NotStarted" ]
  BY DEF Init, feedOutcome, Seen
<1>5. feedGranted = [ t \in Threads |-> 0 ]
  BY DEF Init, feedGranted, Undecided, Retry
<1> QED
  BY <1>1, <1>2, <1>3, <1>4, <1>5, FeedThreads DEF Feed!FeedInit

(* Until the application exits, the shell produces the states, the pending   *)
(* restart, the counts and the numbered events that StatusFeed promises the  *)
(* window, in the order it promises them, whatever its threads do.           *)
THEOREM FeedsTheWindow == Spec => FeedSpec
<1>1. Init => BudgetInv /\ BirthInv
  <2>1. \A t \in Threads : t # 0 => ~(t < 1)
    BY BoundAssumption DEF Threads
  <2> QED
    BY <2>1, PolicyAssumption
    DEF Init, BudgetInv, AttemptsBounded, BirthInv
<1>2. TypeOK /\ HostInv /\ BudgetInv /\ [Next]_vars => BudgetInv'
  BY BudgetStep DEF HostInv
<1>3. TypeOK /\ HostInv /\ BirthInv /\ [Next]_vars => BirthInv'
  BY BirthStep
<1>4. TypeOK /\ HostInv /\ BudgetInv /\ BirthInv /\ [Next]_vars
        => [ ~shuttingDown' => Feed!FeedNext \/ UNCHANGED Feed!feedVars ]_vars
  BY FeedNext
<1> QED
  BY <1>1, <1>2, <1>3, <1>4, FeedInitial, HostInvariant, PTL
  DEF Spec, FeedSpec
=============================================================================
