---------------------------- MODULE SidecarHost -----------------------------
(***************************************************************************)
(* The desktop shell's supervision of its one Python sidecar:              *)
(* src-tauri/src/lib.rs with sidecar.rs, restart_scheduler.rs, events.rs   *)
(* and the bookkeeping types of sidecar-core.                              *)
(*                                                                         *)
(* Processes: the setup thread (thread 0), one timer thread per scheduled  *)
(* restart (thread n runs restart token n), one timer thread per stability *)
(* window, the RunEvent::Exit handler, and the operating system, which     *)
(* owns the child processes.  start() and shutdown() hold the mutex around *)
(* SidecarProcess across several steps: whether it is free is read off the *)
(* program counters.                                                       *)
(*                                                                         *)
(* Time is abstracted: a sleeping timer may fire at any moment, a startup  *)
(* or shutdown deadline may pass at any moment.                            *)
(***************************************************************************)
EXTENDS Integers, FiniteSets

CONSTANTS
  MaxAttempts,  (* RestartPolicy::max_attempts                              *)
  MaxFailures   (* bound: how many things go wrong in a behaviour           *)

ASSUME PolicyAssumption == MaxAttempts \in Nat
ASSUME BoundAssumption  == MaxFailures \in Nat

VARIABLES
  \* SidecarProcess, guarded by its mutex
  state,         (* Supervisor's lifecycle state                            *)
  child,         (* the stored child handle; 0 is None                      *)
  port,          (* the child whose handshake supplied `port`; 0 is None    *)
  booting,       (* start()'s local child, not stored yet; 0 is none        *)
  \* the operating system
  live,          (* sidecar processes that are alive                        *)
  launches,      (* processes spawned so far; the last one's name           *)
  failures,      (* things that went wrong so far                           *)
  \* restart accounting
  attempts,      (* RestartTracker::attempts                                *)
  pending,       (* RestartSchedule::pending, a token; 0 is None            *)
  nextToken,     (* NEXT_RESTART_TOKEN                                      *)
  \* stability window
  window,        (* StabilityWindow::pending, a token; 0 is None            *)
  nextWindow,    (* NEXT_STABILITY_TOKEN                                    *)
  stabilityPc,   (* the stability timer threads                             *)
  \* the event with the highest sequence number
  event,
  \* application exit
  shuttingDown,  (* SidecarState::shutting_down                             *)
  exitPc,        (* the RunEvent::Exit handler                              *)
  stopping,      (* shutdown()'s local child; 0 is none                     *)
  exitOutcome,   (* the state shutdown() left                               *)
  appGone,       (* the shell's own process has ended                       *)
  \* supervising threads
  pc,            (* where each thread is                                    *)
  outcome,       (* the state start() or the crash poll left                *)
  decision       (* RestartTracker::decide's answer                         *)

processVars   == << state, child, port, booting >>
osVars        == << live, launches, failures >>
restartVars   == << attempts, pending, nextToken >>
stabilityVars == << window, nextWindow, stabilityPc >>
exitVars      == << shuttingDown, exitPc, stopping, exitOutcome, appGone >>
localVars     == << outcome, decision >>

vars == << processVars, osVars, restartVars, stabilityVars, event, exitVars,
           pc, localVars >>

Lifecycle == INSTANCE SidecarLifecycle

Threads         == 0 .. MaxFailures
StabilityTokens == 1 .. MaxFailures + 1
Retryable       == { "Crashed", "Failed", "Timeout" }

(***************************************************************************)
(* Program counters of a supervising thread, in the order lib.rs runs.     *)
(***************************************************************************)
\* attempt_restart and start(), holding the process mutex
Locked   == { "reset", "request", "spawn", "handshake", "health" }
\* handle_retry_eligible_failure
Handling == { "cancelWindow", "decide", "checkExit", "record", "schedule",
              "rollback", "emitExhausted" }
\* between the release of the mutex and the crash poll or the failure handler
Reporting == { "emitStarting", "emitOutcome", "beginWindow", "dropWindow",
               "emitCrash" }
\* a thread that drives the sidecar: everything from lock to the end of the
\* poll loop or of the failure handler
Supervising == { "launch", "restart", "poll" } \cup Locked \cup Reporting
                 \cup Handling
Labels == Supervising \cup { "unborn", "timer", "emitScheduled", "done",
                             "abandoned" }

ExitLabels == { "idle", "cancelRestart", "cancelWindow", "shutdown",
                "killWait", "emitStopping", "emitFinal", "done" }
StabilityLabels == { "unborn", "timer", "confirmed", "reset", "done" }

Retry(n)     == [ retry |-> TRUE,  attempt |-> n ]
Exhausted(n) == [ retry |-> FALSE, attempt |-> n ]
Undecided    == Retry(0)

Init ==
  /\ state = "NotStarted" /\ child = 0 /\ port = 0 /\ booting = 0
  /\ live = {} /\ launches = 0 /\ failures = 0
  /\ attempts = 0 /\ pending = 0 /\ nextToken = 1
  /\ window = 0 /\ nextWindow = 1
  /\ stabilityPc = [ w \in StabilityTokens |-> "unborn" ]
  /\ event = [ seq |-> 0, kind |-> "none", previous |-> "NotStarted",
               state |-> "NotStarted", attempt |-> 0 ]
  /\ shuttingDown = FALSE /\ exitPc = "idle" /\ stopping = 0
  /\ exitOutcome = "NotStarted" /\ appGone = FALSE
  /\ pc = [ t \in Threads |-> IF t = 0 THEN "launch" ELSE "unborn" ]
  /\ outcome = [ t \in Threads |-> "NotStarted" ]
  /\ decision = [ t \in Threads |-> Undecided ]

-----------------------------------------------------------------------------
(***************************************************************************)
(* Building blocks                                                         *)
(***************************************************************************)

(* Mutant: the poll loop keeps the mutex across its sleep. *)
ProcessLockHeldWhilePolling ==
  /\ \A t \in Threads : pc[t] \notin Locked \cup { "poll" }
  /\ exitPc # "killWait"

(* Nobody holds the process mutex across steps. *)
ProcessLockFree ==
  /\ \A t \in Threads : pc[t] \notin Locked
  /\ exitPc # "killWait"

At(t, label)   == ~appGone /\ pc[t] = label
Goto(t, label) == pc' = [ pc EXCEPT ![t] = label ]

(* The environment misbehaves at most MaxFailures times. *)
SomethingFails == failures < MaxFailures /\ failures' = failures + 1

(* Every emission allocates the next number of the one sequence.  A restart *)
(* event carries no state: the last announced one stays.                    *)
EmitStateChanged(from, to) ==
  event' = [ seq |-> event.seq + 1, kind |-> "state_changed",
             previous |-> from, state |-> to, attempt |-> 0 ]

EmitRestart(kind, n) ==
  event' = [ seq |-> event.seq + 1, kind |-> kind,
             previous |-> event.state, state |-> event.state, attempt |-> n ]

(* Mutant: one attempt over the maximum is granted. *)
DecideOneTooMany == IF attempts > MaxAttempts THEN Exhausted(attempts)
                                              ELSE Retry(attempts + 1)

(* RestartTracker::decide. *)
Decide == IF attempts >= MaxAttempts THEN Exhausted(attempts)
                                     ELSE Retry(attempts + 1)

(* Mutant: the application's exit is not consulted. *)
EligibleWhileExiting(s, exiting) == s \in Retryable

RestartStillEligible(s, exiting) == ~exiting /\ s \in Retryable

-----------------------------------------------------------------------------
(***************************************************************************)
(* start(), from the mutex to its release                                  *)
(***************************************************************************)

(* The setup thread takes the mutex; it never looks at shutting_down. *)
Launch(t) ==
  /\ At(t, "launch")
  /\ ProcessLockFree
  /\ Goto(t, "request")
  /\ UNCHANGED << processVars, osVars, restartVars, stabilityVars, event,
                  exitVars, localVars >>

RequestStart(t) ==
  /\ At(t, "request")
  /\ state' = "Starting"
  /\ Goto(t, "spawn")
  /\ UNCHANGED << child, port, booting, osVars, restartVars, stabilityVars,
                  event, exitVars, localVars >>

(* start() returns in lifecycle state s and its caller drops the mutex. *)
StartReturns(t, s) ==
  /\ state' = s
  /\ booting' = 0
  /\ outcome' = [ outcome EXCEPT ![t] = s ]
  /\ Goto(t, "emitStarting")

Spawn(t) ==
  /\ At(t, "spawn")
  /\ launches' = launches + 1
  /\ live' = live \cup { launches' }
  /\ booting' = launches'
  /\ Goto(t, "handshake")
  /\ UNCHANGED << state, child, port, failures, restartVars, stabilityVars,
                  event, exitVars, localVars >>

SpawnFails(t) ==
  /\ At(t, "spawn")
  /\ SomethingFails
  /\ StartReturns(t, "Failed")
  /\ UNCHANGED << child, port, live, launches, restartVars, stabilityVars,
                  event, exitVars, decision >>

(* A well-formed line arrived (its writer may have died since). *)
HandshakeRead(t) ==
  /\ At(t, "handshake")
  /\ port' = booting
  /\ Goto(t, "health")
  /\ UNCHANGED << state, child, booting, osVars, restartVars, stabilityVars,
                  event, exitVars, localVars >>

(* End of file or a malformed line: kill, reap, TIMEOUT. *)
HandshakeFails(t) ==
  /\ At(t, "handshake")
  /\ \/ booting \notin live /\ UNCHANGED failures
     \/ SomethingFails
  /\ live' = live \ { booting }
  /\ StartReturns(t, "Timeout")
  /\ UNCHANGED << child, port, launches, restartVars, stabilityVars, event,
                  exitVars, decision >>

Healthy(t) ==
  /\ At(t, "health")
  /\ booting \in live
  /\ child' = booting
  /\ StartReturns(t, "Running")
  /\ UNCHANGED << port, osVars, restartVars, stabilityVars, event, exitVars,
                  decision >>

(* Mutant: the child is not killed when the startup deadline passes. *)
HealthFailsNoKill(t) ==
  /\ At(t, "health")
  /\ \/ booting \notin live /\ UNCHANGED failures
     \/ SomethingFails
  /\ StartReturns(t, "Timeout")
  /\ UNCHANGED << child, port, live, launches, restartVars, stabilityVars,
                  event, exitVars, decision >>

(* The child died, or the startup deadline passed and it is killed. *)
HealthFails(t) ==
  /\ At(t, "health")
  /\ \/ booting \notin live /\ UNCHANGED failures
     \/ SomethingFails
  /\ live' = live \ { booting }
  /\ StartReturns(t, "Timeout")
  /\ UNCHANGED << child, port, launches, restartVars, stabilityVars, event,
                  exitVars, decision >>

-----------------------------------------------------------------------------
(***************************************************************************)
(* After start(): the two events, the stability window, the crash poll     *)
(***************************************************************************)

EmitStarting(t) ==
  /\ At(t, "emitStarting")
  /\ EmitStateChanged("NotStarted", "Starting")
  /\ Goto(t, "emitOutcome")
  /\ UNCHANGED << processVars, osVars, restartVars, stabilityVars, exitVars,
                  localVars >>

(* Mutant: a failed start is reported but not handled. *)
EmitOutcomeOnly(t) ==
  /\ At(t, "emitOutcome")
  /\ EmitStateChanged("Starting", outcome[t])
  /\ Goto(t, IF outcome[t] = "Running" THEN "beginWindow" ELSE "done")
  /\ UNCHANGED << processVars, osVars, restartVars, stabilityVars, exitVars,
                  localVars >>

EmitOutcome(t) ==
  /\ At(t, "emitOutcome")
  /\ EmitStateChanged("Starting", outcome[t])
  /\ Goto(t, IF outcome[t] = "Running" THEN "beginWindow" ELSE "cancelWindow")
  /\ UNCHANGED << processVars, osVars, restartVars, stabilityVars, exitVars,
                  localVars >>

(* StabilityScheduler::begin supersedes whatever window was pending. *)
BeginWindow(t) ==
  /\ At(t, "beginWindow")
  /\ nextWindow \in StabilityTokens
  /\ window' = nextWindow
  /\ nextWindow' = nextWindow + 1
  /\ \/ /\ stabilityPc' = [ stabilityPc EXCEPT ![nextWindow] = "timer" ]
        /\ Goto(t, "poll")
        /\ UNCHANGED failures
     \/ /\ SomethingFails
        /\ Goto(t, "dropWindow")
        /\ UNCHANGED stabilityPc
  /\ UNCHANGED << processVars, live, launches, restartVars, event, exitVars,
                  localVars >>

(* The timer thread could not be created: the window is rolled back. *)
DropWindow(t) ==
  /\ At(t, "dropWindow")
  /\ window' = 0
  /\ Goto(t, "poll")
  /\ UNCHANGED << processVars, osVars, restartVars, nextWindow, stabilityPc,
                  event, exitVars, localVars >>

(* A tick of run_crash_poll_loop that ends the loop because the sidecar is  *)
(* no longer RUNNING.                                                       *)
PollStops(t) ==
  /\ At(t, "poll")
  /\ ProcessLockFree
  /\ state # "Running"
  /\ Goto(t, "done")
  /\ UNCHANGED << processVars, osVars, restartVars, stabilityVars, event,
                  exitVars, localVars >>

(* Mutants: the dead child's handle is kept; the crash is recorded as FAILED. *)
PollKeepsHandle(t) ==
  /\ At(t, "poll")
  /\ ProcessLockFree
  /\ state = "Running"
  /\ child # 0 /\ child \notin live
  /\ state' = "Crashed"
  /\ outcome' = [ outcome EXCEPT ![t] = "Crashed" ]
  /\ Goto(t, "emitCrash")
  /\ UNCHANGED << child, port, booting, osVars, restartVars, stabilityVars,
                  event, exitVars, decision >>

PollRecordsFailed(t) ==
  /\ At(t, "poll")
  /\ ProcessLockFree
  /\ state = "Running"
  /\ child # 0 /\ child \notin live
  /\ child' = 0
  /\ state' = "Failed"
  /\ outcome' = [ outcome EXCEPT ![t] = "Failed" ]
  /\ Goto(t, "emitCrash")
  /\ UNCHANGED << port, booting, osVars, restartVars, stabilityVars, event,
                  exitVars, decision >>

(* A tick that finds the child dead: poll_for_crash moves to CRASHED. *)
PollFindsCrash(t) ==
  /\ At(t, "poll")
  /\ ProcessLockFree
  /\ state = "Running"
  /\ child # 0 /\ child \notin live
  /\ child' = 0
  /\ state' = "Crashed"
  /\ outcome' = [ outcome EXCEPT ![t] = "Crashed" ]
  /\ Goto(t, "emitCrash")
  /\ UNCHANGED << port, booting, osVars, restartVars, stabilityVars, event,
                  exitVars, decision >>

(* Mutant: a crash is handled without being announced. *)
CrashUnannounced(t) ==
  /\ At(t, "emitCrash")
  /\ Goto(t, "cancelWindow")
  /\ UNCHANGED << processVars, osVars, restartVars, stabilityVars, event,
                  exitVars, localVars >>

EmitCrash(t) ==
  /\ At(t, "emitCrash")
  /\ EmitStateChanged("Running", outcome[t])
  /\ Goto(t, "cancelWindow")
  /\ UNCHANGED << processVars, osVars, restartVars, stabilityVars, exitVars,
                  localVars >>

-----------------------------------------------------------------------------
(***************************************************************************)
(* handle_retry_eligible_failure                                           *)
(***************************************************************************)

CancelWindow(t) ==
  /\ At(t, "cancelWindow")
  /\ window' = 0
  /\ Goto(t, "decide")
  /\ UNCHANGED << processVars, osVars, restartVars, nextWindow, stabilityPc,
                  event, exitVars, localVars >>

DecideRestart(t) ==
  /\ At(t, "decide")
  /\ decision' = [ decision EXCEPT ![t] = Decide ]
  /\ Goto(t, "checkExit")
  /\ UNCHANGED << processVars, osVars, restartVars, stabilityVars, event,
                  exitVars, outcome >>

(* Mutant: a restart is scheduled whatever was decided. *)
CheckExitOnly(t) ==
  /\ At(t, "checkExit")
  /\ Goto(t, IF shuttingDown THEN "done" ELSE "record")
  /\ UNCHANGED << processVars, osVars, restartVars, stabilityVars, event,
                  exitVars, localVars >>

CheckExit(t) ==
  /\ At(t, "checkExit")
  /\ Goto(t, IF shuttingDown THEN "done"
             ELSE IF decision[t].retry THEN "record" ELSE "emitExhausted")
  /\ UNCHANGED << processVars, osVars, restartVars, stabilityVars, event,
                  exitVars, localVars >>

(* Mutant: a granted restart costs nothing. *)
AttemptUnrecorded(t) ==
  /\ At(t, "record")
  /\ Goto(t, "schedule")
  /\ UNCHANGED << processVars, osVars, restartVars, stabilityVars, event,
                  exitVars, localVars >>

RecordAttempt(t) ==
  /\ At(t, "record")
  /\ attempts' = attempts + 1
  /\ Goto(t, "schedule")
  /\ UNCHANGED << processVars, osVars, pending, nextToken, stabilityVars,
                  event, exitVars, localVars >>

(* RestartSchedule::try_begin refuses while a restart is pending; otherwise  *)
(* the timer thread of the new token is spawned, or cannot be.               *)
Schedule(t) ==
  /\ At(t, "schedule")
  /\ IF pending # 0
       THEN Goto(t, "abandoned") /\ UNCHANGED << pending, nextToken, failures >>
       ELSE /\ nextToken \in Threads
            /\ pending' = nextToken
            /\ nextToken' = nextToken + 1
            /\ \/ /\ pc' = [ pc EXCEPT ![t] = "emitScheduled",
                                        ![nextToken] = "timer" ]
                  /\ UNCHANGED failures
               \/ /\ SomethingFails
                  /\ Goto(t, "rollback")
  /\ UNCHANGED << processVars, live, launches, attempts, stabilityVars, event,
                  exitVars, localVars >>

(* Mutant: the registration of a restart without a timer stays. *)
NoRollback(t) ==
  /\ At(t, "rollback")
  /\ Goto(t, "abandoned")
  /\ UNCHANGED << processVars, osVars, restartVars, stabilityVars, event,
                  exitVars, localVars >>

Rollback(t) ==
  /\ At(t, "rollback")
  /\ pending' = 0
  /\ Goto(t, "abandoned")
  /\ UNCHANGED << processVars, osVars, attempts, nextToken, stabilityVars,
                  event, exitVars, localVars >>

(* Mutant: the poll loop goes on after it handed over to a restart. *)
PollsOnAfterSchedule(t) ==
  /\ At(t, "emitScheduled")
  /\ EmitRestart("restart_scheduled", decision[t].attempt)
  /\ Goto(t, "poll")
  /\ UNCHANGED << processVars, osVars, restartVars, stabilityVars, exitVars,
                  localVars >>

EmitScheduled(t) ==
  /\ At(t, "emitScheduled")
  /\ EmitRestart("restart_scheduled", decision[t].attempt)
  /\ Goto(t, "done")
  /\ UNCHANGED << processVars, osVars, restartVars, stabilityVars, exitVars,
                  localVars >>

EmitExhausted(t) ==
  /\ At(t, "emitExhausted")
  /\ EmitRestart("restart_exhausted", decision[t].attempt)
  /\ Goto(t, "done")
  /\ UNCHANGED << processVars, osVars, restartVars, stabilityVars, exitVars,
                  localVars >>

-----------------------------------------------------------------------------
(***************************************************************************)
(* A restart timer: consume the token, then attempt_restart                *)
(***************************************************************************)

(* Mutant: `consume` compares the token and leaves it pending. *)
TimerKeepsToken(t) ==
  /\ At(t, "timer")
  /\ Goto(t, IF pending = t THEN "restart" ELSE "done")
  /\ UNCHANGED << processVars, osVars, restartVars, stabilityVars, event,
                  exitVars, localVars >>

TimerFires(t) ==
  /\ At(t, "timer")
  /\ IF pending = t THEN pending' = 0 /\ Goto(t, "restart")
                    ELSE UNCHANGED pending /\ Goto(t, "done")
  /\ UNCHANGED << processVars, osVars, attempts, nextToken, stabilityVars,
                  event, exitVars, localVars >>

(* The mutex is taken and shutting_down read; the state decides. *)
AttemptRestart(t) ==
  /\ At(t, "restart")
  /\ ProcessLockFree
  /\ Goto(t, IF RestartStillEligible(state, shuttingDown) THEN "reset"
                                                          ELSE "done")
  /\ UNCHANGED << processVars, osVars, restartVars, stabilityVars, event,
                  exitVars, localVars >>

(* Mutant: the reset is not announced. *)
ResetSilently(t) ==
  /\ At(t, "reset")
  /\ state' = "NotStarted"
  /\ Goto(t, "request")
  /\ UNCHANGED << child, port, booting, osVars, restartVars, stabilityVars,
                  event, exitVars, localVars >>

(* Supervisor::reset and its event, both under the mutex. *)
Reset(t) ==
  /\ At(t, "reset")
  /\ state' = "NotStarted"
  /\ EmitStateChanged(state, "NotStarted")
  /\ Goto(t, "request")
  /\ UNCHANGED << child, port, booting, osVars, restartVars, stabilityVars,
                  exitVars, localVars >>

-----------------------------------------------------------------------------
(***************************************************************************)
(* A stability timer: confirm the window, check the state, reset           *)
(***************************************************************************)

StabilityGoto(w, label) == stabilityPc' = [ stabilityPc EXCEPT ![w] = label ]

StabilityFires(w) ==
  /\ ~appGone /\ stabilityPc[w] = "timer"
  /\ IF window = w THEN window' = 0 /\ StabilityGoto(w, "confirmed")
                   ELSE UNCHANGED window /\ StabilityGoto(w, "done")
  /\ UNCHANGED << processVars, osVars, restartVars, nextWindow, event,
                  exitVars, pc, localVars >>

(* The state is read under the process mutex, which is then released. *)
StabilityChecks(w) ==
  /\ ~appGone /\ stabilityPc[w] = "confirmed"
  /\ ProcessLockFree
  /\ StabilityGoto(w, IF state = "Running" THEN "reset" ELSE "done")
  /\ UNCHANGED << processVars, osVars, restartVars, window, nextWindow, event,
                  exitVars, pc, localVars >>

StabilityResets(w) ==
  /\ ~appGone /\ stabilityPc[w] = "reset"
  /\ attempts' = 0
  /\ StabilityGoto(w, "done")
  /\ UNCHANGED << processVars, osVars, pending, nextToken, window, nextWindow,
                  event, exitVars, pc, localVars >>

-----------------------------------------------------------------------------
(***************************************************************************)
(* RunEvent::Exit, on the main thread                                      *)
(***************************************************************************)

ExitGoto(from, to) == ~appGone /\ exitPc = from /\ exitPc' = to

ExitBegins ==
  /\ ExitGoto("idle", "cancelRestart")
  /\ shuttingDown' = TRUE
  /\ UNCHANGED << processVars, osVars, restartVars, stabilityVars, event,
                  stopping, exitOutcome, appGone, pc, localVars >>

ExitCancelsRestart ==
  /\ ExitGoto("cancelRestart", "cancelWindow")
  /\ pending' = 0
  /\ UNCHANGED << processVars, osVars, attempts, nextToken, stabilityVars,
                  event, shuttingDown, stopping, exitOutcome, appGone, pc,
                  localVars >>

ExitCancelsWindow ==
  /\ ExitGoto("cancelWindow", "shutdown")
  /\ window' = 0
  /\ UNCHANGED << processVars, osVars, restartVars, nextWindow, stabilityPc,
                  event, shuttingDown, stopping, exitOutcome, appGone, pc,
                  localVars >>

(* shutdown() of a sidecar that is not RUNNING changes nothing. *)
ShutdownNotRunning ==
  /\ ExitGoto("shutdown", "done")
  /\ ProcessLockFree
  /\ state # "Running"
  /\ UNCHANGED << processVars, osVars, restartVars, stabilityVars, event,
                  shuttingDown, stopping, exitOutcome, appGone, pc,
                  localVars >>

(* request_shutdown, child.take() and kill(). *)
ShutdownBegins ==
  /\ ExitGoto("shutdown", "killWait")
  /\ ProcessLockFree
  /\ state = "Running"
  /\ state' = "Stopping"
  /\ stopping' = child
  /\ child' = 0
  /\ UNCHANGED << port, booting, osVars, restartVars, stabilityVars, event,
                  shuttingDown, exitOutcome, appGone, pc, localVars >>

(* The child is gone, or there never was a handle to wait on. *)
ShutdownReaps ==
  /\ ExitGoto("killWait", "emitStopping")
  /\ live' = live \ { stopping }
  /\ state' = "Stopped"
  /\ exitOutcome' = "Stopped"
  /\ UNCHANGED << child, port, booting, launches, failures, restartVars,
                  stabilityVars, event, shuttingDown, stopping, appGone, pc,
                  localVars >>

(* The deadline passed or try_wait failed: the handle is dropped and the    *)
(* child may live on.                                                       *)
ShutdownTimesOut ==
  /\ ExitGoto("killWait", "emitStopping")
  /\ SomethingFails
  /\ state' = "Failed"
  /\ exitOutcome' = "Failed"
  /\ UNCHANGED << child, port, booting, live, launches, restartVars,
                  stabilityVars, event, shuttingDown, stopping, appGone, pc,
                  localVars >>

EmitStopping ==
  /\ ExitGoto("emitStopping", "emitFinal")
  /\ EmitStateChanged("Running", "Stopping")
  /\ UNCHANGED << processVars, osVars, restartVars, stabilityVars,
                  shuttingDown, stopping, exitOutcome, appGone, pc,
                  localVars >>

EmitFinal ==
  /\ ExitGoto("emitFinal", "done")
  /\ EmitStateChanged("Stopping", exitOutcome)
  /\ UNCHANGED << processVars, osVars, restartVars, stabilityVars,
                  shuttingDown, stopping, exitOutcome, appGone, pc,
                  localVars >>

(* The event loop returns and the shell's process ends, threads and all. *)
AppEnds ==
  /\ exitPc = "done" /\ ~appGone
  /\ appGone' = TRUE
  /\ UNCHANGED << processVars, osVars, restartVars, stabilityVars, event,
                  shuttingDown, exitPc, stopping, exitOutcome, pc,
                  localVars >>

-----------------------------------------------------------------------------

(* A sidecar process dies on its own. *)
ChildDies(c) ==
  /\ c \in live
  /\ SomethingFails
  /\ live' = live \ { c }
  /\ UNCHANGED << processVars, launches, restartVars, stabilityVars, event,
                  exitVars, pc, localVars >>

(* Nothing is left to happen once the shell is gone. *)
Finished == appGone /\ UNCHANGED vars

StartStep(t) ==
  \/ Launch(t) \/ RequestStart(t) \/ Spawn(t) \/ SpawnFails(t)
  \/ HandshakeRead(t) \/ HandshakeFails(t) \/ Healthy(t) \/ HealthFails(t)

ReportStep(t) ==
  \/ EmitStarting(t) \/ EmitOutcome(t) \/ BeginWindow(t) \/ DropWindow(t)
  \/ PollStops(t) \/ PollFindsCrash(t) \/ EmitCrash(t)

HandleStep(t) ==
  \/ CancelWindow(t) \/ DecideRestart(t) \/ CheckExit(t) \/ RecordAttempt(t)
  \/ Schedule(t) \/ Rollback(t)
  \/ EmitScheduled(t) \/ EmitExhausted(t)

RestartStep(t) == TimerFires(t) \/ AttemptRestart(t) \/ Reset(t)

ThreadStep(t) == StartStep(t) \/ ReportStep(t) \/ HandleStep(t) \/ RestartStep(t)

StabilityStep(w) == StabilityFires(w) \/ StabilityChecks(w) \/ StabilityResets(w)

ExitStep ==
  \/ ExitCancelsRestart \/ ExitCancelsWindow
  \/ ShutdownNotRunning \/ ShutdownBegins \/ ShutdownReaps \/ ShutdownTimesOut
  \/ EmitStopping \/ EmitFinal \/ AppEnds

Next ==
  \/ \E t \in Threads : ThreadStep(t)
  \/ \E w \in StabilityTokens : StabilityStep(w)
  \/ ExitBegins \/ ExitStep
  \/ \E c \in live : ChildDies(c)
  \/ Finished

Spec == Init /\ [][Next]_vars

(* Every thread the shell started keeps running: the operating system        *)
(* schedules it, a sleep ends, and a handshake read ends because the child   *)
(* writes, closes its output or dies.  Nothing obliges the user to quit or a *)
(* child to die.                                                             *)
Fairness ==
  /\ \A t \in Threads : WF_vars(ThreadStep(t))
  /\ \A w \in StabilityTokens : WF_vars(StabilityStep(w))
  /\ WF_vars(ExitStep)

FairSpec == Spec /\ Fairness

-----------------------------------------------------------------------------
(***************************************************************************)
(* Safety                                                                  *)
(***************************************************************************)

ProcessTypes ==
  /\ state \in Lifecycle!LifecycleStates
  /\ child \in Nat /\ port \in Nat /\ booting \in Nat

OsTypes == live \subseteq Nat /\ launches \in Nat /\ failures \in Nat

RestartTypes ==
  attempts \in Nat /\ pending \in Threads /\ nextToken \in Nat \ {0}

StabilityTypes ==
  /\ window \in {0} \cup StabilityTokens /\ nextWindow \in Nat \ {0}
  /\ stabilityPc \in [ StabilityTokens -> StabilityLabels ]

EventTypes ==
  event \in [ seq : Nat,
              kind : { "none", "state_changed", "restart_scheduled",
                       "restart_exhausted" },
              previous : Lifecycle!LifecycleStates,
              state : Lifecycle!LifecycleStates, attempt : Nat ]

ExitTypes ==
  /\ shuttingDown \in BOOLEAN /\ appGone \in BOOLEAN
  /\ exitPc \in ExitLabels /\ stopping \in Nat
  /\ exitOutcome \in { "NotStarted", "Stopped", "Failed" }

(* A decision to retry never names an attempt over the policy's maximum. *)
Decisions ==
  { d \in [ retry : BOOLEAN, attempt : Nat ] :
      d.retry => d.attempt <= MaxAttempts }

ThreadTypes ==
  /\ pc \in [ Threads -> Labels ]
  /\ outcome \in [ Threads -> Lifecycle!LifecycleStates ]
  /\ decision \in [ Threads -> Decisions ]

(* The variables range over what SidecarProcess, RestartTracker,             *)
(* RestartSchedule, StabilityWindow and the threads of lib.rs can hold.      *)
TypeOK ==
  /\ ProcessTypes /\ OsTypes /\ RestartTypes /\ StabilityTypes
  /\ EventTypes /\ ExitTypes /\ ThreadTypes

(* run_crash_poll_loop: "There is still exactly one poll loop active at once *)
(* ... so no duplicate-poller path exists".  No two threads drive the        *)
(* sidecar, from the start of a launch to the end of the failure handling,   *)
(* and no restart is pending while one does.                                 *)
SingleSupervisor ==
  \A t, u \in Threads :
    pc[t] \in Supervising /\ pc[u] \in Supervising => t = u

(* RestartTracker never records more attempts than the policy allows, though *)
(* `decide` and `record_attempt` lock it separately and a stability timer    *)
(* may reset it in between.                                                  *)
AttemptsBounded == attempts <= MaxAttempts

(* handle_retry_eligible_failure: a refusal by try_begin is "structurally    *)
(* impossible under this single-owner model": whoever is about to schedule a *)
(* restart finds none pending.                                               *)
ScheduleNeverRefused ==
  \A t \in Threads :
    pc[t] \in { "record", "schedule" } => pending = 0

(* RestartScheduler::schedule: no "phantom pending restart" blocks a later   *)
(* one: a pending token belongs to a timer that will still fire, or to the   *)
(* thread that is about to roll it back.                                     *)
PendingHasTimer ==
  pending # 0 => \/ pc[pending] = "timer"
                 \/ \E t \in Threads : pc[t] = "rollback"

(* At most one Python process is alive: a failed start kills and reaps its   *)
(* own child before the next one can be spawned.                             *)
AtMostOneChild == Cardinality(live) <= 1

(* Whoever obtains the mutex sees a handle exactly when the sidecar is       *)
(* RUNNING, and the port is that child's: get_sidecar_origin hands it out,   *)
(* poll_for_crash and shutdown rely on the handle.                           *)
HandleMatchesState ==
  ProcessLockFree => /\ (child # 0) = (state = "Running")
                     /\ state = "Running" => port = child

Someone(labels) == \E t \in Threads : pc[t] \in labels

(* restart_exhausted has been sent (or, while exiting, was decided on). *)
GaveUp == \E t \in Threads : pc[t] = "done" /\ ~decision[t].retry

(* A failed sidecar is never forgotten: until the application exits, some    *)
(* thread is dealing with the failure, a restart is pending, the frontend    *)
(* was told that the budget is exhausted, or the timer of the granted        *)
(* restart could not be created.                                             *)
FailureIsAnswered ==
  state \in Retryable /\ ~shuttingDown =>
    pending # 0 \/ GaveUp \/ Someone(Supervising \cup { "abandoned" })

(* Restarts and the exit handler: once shutdown() has returned, whatever is  *)
(* still alive is either the very first launch (which never reads            *)
(* shutting_down) or a child the bounded wait gave up on.  No restart brings *)
(* a process up behind the exit handler's back.                              *)
RestartsStayDown ==
  exitPc \in { "emitStopping", "emitFinal", "done" } =>
    \A c \in live : c = 1 \/ exitOutcome = "Failed"

(* While no thread owes an announcement and the application is not exiting,  *)
(* the last announced state is the lifecycle's: a frontend that has seen     *)
(* every event knows the state.                                              *)
QuietMeansAnnounced ==
  ~shuttingDown /\ ~Someone(Locked \cup Reporting) => event.state = state

(***************************************************************************)
(* The inductive invariants behind the safety properties                   *)
(***************************************************************************)

(* A pending restart excludes every supervising thread, but for the one that *)
(* is about to roll it back. *)
PendingExcludes ==
  pending # 0 => \A t \in Threads : pc[t] \in Supervising => pc[t] = "rollback"

(* The thread of a token is unborn until the token is issued and its timer   *)
(* created; thread 0 is the setup thread and never a timer.                  *)
TokensFresh ==
  /\ pc[0] \notin { "unborn", "timer" }
  /\ \A t \in Threads : t >= nextToken => pc[t] = "unborn"
  /\ \A t \in Threads : pc[t] = "rollback" /\ pending # 0 => pc[pending] = "unborn"

SupervisionInv ==
  SingleSupervisor /\ PendingExcludes /\ PendingHasTimer /\ TokensFresh

(* Between `decide` and `record_attempt` the budget still has a unit left.   *)
BudgetInv ==
  /\ AttemptsBounded
  /\ \A t \in Threads :
       pc[t] = "record" \/ (pc[t] = "checkExit" /\ decision[t].retry)
         => attempts < MaxAttempts

(* The program counters pin the lifecycle state.                             *)
LifecycleInv ==
  /\ \A t \in Threads :
       /\ pc[t] \in { "launch", "request" } => state = "NotStarted"
       /\ pc[t] \in { "spawn", "handshake", "health" } => state = "Starting"
       /\ pc[t] = "reset" => state \in Retryable
  /\ exitPc = "killWait" => state = "Stopping" /\ ~Someone(Locked)

(* Whatever is alive is somebody's: start()'s, the lifecycle's or            *)
(* shutdown()'s, and never two of them have a child.                         *)
ChildInv ==
  /\ live \subseteq { booting, child, stopping } \ {0}
  /\ booting # 0 => child = 0 /\ stopping = 0
  /\ child # 0 => port = child /\ stopping = 0
  /\ (booting # 0) = Someone({ "handshake", "health" })
  /\ (child # 0) = (state = "Running")
  /\ \A t \in Threads : pc[t] = "health" => port = booting

(* The exit handler past the mutex of shutdown(). *)
PastShutdown == exitPc \in { "killWait", "emitStopping", "emitFinal", "done" }

(* The exit handler meets the mutex once: before that it stops nothing,      *)
(* after it only the very first launch may still take the mutex.             *)
DownInv ==
  /\ exitPc # "idle" => shuttingDown
  /\ stopping # 0 => PastShutdown /\ ~Someone({ "launch" } \cup Locked)
  /\ exitPc = "killWait" => stopping # 0
  /\ \A t \in Threads : t # 0 /\ pc[t] \in Locked => ~PastShutdown
  /\ pc[0] \in { "launch", "request", "spawn" } => launches = 0
  /\ pc[0] \notin { "restart", "reset" }
  /\ \A t \in Threads : pc[t] = "launch" => t = 0
  /\ RestartsStayDown

(* What a supervising thread remembers is what the lifecycle still says; the *)
(* exit handler alone may have moved a RUNNING sidecar on.                   *)
OutcomeInv ==
  \A t \in Threads :
    /\ pc[t] \in { "emitStarting", "emitOutcome" } =>
         outcome[t] \in { "Running", "Failed", "Timeout" }
    /\ pc[t] = "emitCrash" => outcome[t] = "Crashed"
    /\ pc[t] \in { "emitStarting", "emitOutcome", "emitCrash" } =>
         state = outcome[t] \/ (outcome[t] = "Running" /\ shuttingDown)
    /\ pc[t] \in { "beginWindow", "dropWindow", "poll" } /\ ~shuttingDown =>
         state = "Running"
    /\ pc[t] \in Handling => state \in Retryable

(* The state announced last, as the program counters tell it.                *)
AnnouncedInv ==
  ~shuttingDown =>
    /\ ~Someone(Locked \cup Reporting) => event.state = state
    /\ \A t \in Threads :
         /\ pc[t] = "reset" => event.state = state
         /\ pc[t] \in (Locked \ { "reset" }) \cup { "emitStarting" } =>
              event.state = "NotStarted"
         /\ pc[t] = "emitOutcome" => event.state = "Starting"
         /\ pc[t] \in { "beginWindow", "dropWindow", "emitCrash" } =>
              event.state = "Running"

(* The restarts are over: the budget is spent, or a granted restart was      *)
(* dropped.                                                                  *)
Over == GaveUp \/ Someone({ "abandoned" })

(* A thread decides once; once the restarts are over nobody supervises any   *)
(* more and no restart is pending; a restart that is pending or begins is    *)
(* one of a failed sidecar.                                                  *)
VerdictInv ==
  /\ \A t \in Threads :
       /\ pc[t] \notin { "checkExit", "emitExhausted", "done" } => decision[t].retry
       /\ pc[t] = "emitExhausted" => ~decision[t].retry
  /\ Over => ~Someone(Supervising) /\ pending = 0
  /\ Over \/ pending # 0 \/ Someone({ "restart" }) => state \in Retryable

(* A token's thread was born when the token was issued, unless its timer      *)
(* could not be created; until the exit handler cancels restarts, a timer's   *)
(* token is the pending one.                                                  *)
BirthInv ==
  /\ \A t \in Threads :
       t # 0 /\ t < nextToken /\ pc[t] = "unborn"
         => Someone({ "rollback", "abandoned" })
  /\ ~shuttingDown => \A t \in Threads : pc[t] = "timer" => pending = t

HostInv == /\ SupervisionInv /\ LifecycleInv /\ ChildInv /\ DownInv
           /\ OutcomeInv /\ AnnouncedInv /\ VerdictInv /\ FailureIsAnswered

(***************************************************************************)
(* Action properties                                                       *)
(***************************************************************************)

(* Until the exit handler starts to report as well, every state_changed      *)
(* event starts from the state the event before it announced, whichever      *)
(* threads sent the two.                                                     *)
EventChain ==
  [][ event' # event /\ event'.kind = "state_changed" /\ ~shuttingDown
        => event'.previous = event.state ]_vars

(* "no further automatic restart -- and therefore no further failure         *)
(* observation -- can occur once exhausted" (lib.rs:669): after the verdict  *)
(* the lifecycle state stays and no process is ever spawned again.           *)
ExhaustedIsFinal ==
  [][ GaveUp => UNCHANGED << state, launches >> ]_vars

(***************************************************************************)
(* Refinement                                                              *)
(***************************************************************************)

(* Every change of `state` is one of the supervisor's transitions: none of   *)
(* the calls made here is ever rejected as InvalidTransition, which is why   *)
(* the actions above leave that branch out.                                  *)
LifecycleSpec == Lifecycle!Spec

(* What the threads are about, seen from outside. *)
phase ==
  CASE shuttingDown -> "closing"
    [] ~shuttingDown /\ Someone({ "launch", "restart" } \cup Locked)
         -> "starting"
    [] ~shuttingDown /\ state = "Running" /\ ~Someone(Locked) -> "up"
    [] ~shuttingDown /\ Someone({ "abandoned" }) -> "dropped"
    [] ~shuttingDown /\ Someone({ "schedule", "rollback" }) -> "waiting"
    [] ~shuttingDown /\ pending # 0 -> "waiting"
    [] /\ ~shuttingDown /\ ~Someone({ "abandoned" })
       /\ \E t \in Threads :
            /\ pc[t] \in { "checkExit", "emitExhausted", "done" }
            /\ ~decision[t].retry -> "gaveUp"
    [] OTHER -> "failed"

Protocol == INSTANCE RestartProtocol
              WITH Budget <- MaxAttempts, phase <- phase, used <- attempts

(* The threads, tokens and locks implement the restart protocol.             *)
RestartProtocolSpec == Protocol!Spec

(* What the window can tell apart: no TIMEOUT from FAILED, and, while        *)
(* start() holds the mutex, no NotStarted from Starting.                     *)
Seen(s) == IF s = "Timeout" THEN "Failed" ELSE s

feedState == IF Someone({ "request", "spawn", "handshake", "health" })
               THEN "Starting" ELSE Seen(state)

feedLabel(t) ==
  CASE pc[t] \in { "request", "spawn", "handshake", "health" } -> "booting"
    [] pc[t] \in { "beginWindow", "dropWindow", "poll" } -> "watch"
    [] pc[t] \in { "cancelWindow", "decide" } -> "failed"
    [] pc[t] = "checkExit" /\ ~decision[t].retry -> "emitExhausted"
    [] pc[t] = "checkExit" /\ decision[t].retry -> "granted"
    [] pc[t] = "record" -> "granted"
    [] OTHER -> pc[t]

feedPending == pending # 0
feedEvent   == [ seq |-> event.seq, kind |-> event.kind,
                 previous |-> Seen(event.previous), state |-> Seen(event.state),
                 attempt |-> event.attempt ]
feedPc      == [ t \in Threads |-> feedLabel(t) ]
feedOutcome == [ t \in Threads |-> Seen(outcome[t]) ]
feedGranted == [ t \in Threads |-> decision[t].attempt ]

Feed == INSTANCE StatusFeed
          WITH Budget <- MaxAttempts, MaxRestarts <- MaxFailures,
               state <- feedState, pending <- feedPending, event <- feedEvent,
               outcome <- feedOutcome, pc <- feedPc, granted <- feedGranted

(* Until the application exits, the shell produces the states and events     *)
(* StatusFeed promises the window, in that order.                            *)
FeedSpec ==
  Feed!FeedInit /\ [][ ~shuttingDown' => Feed!FeedNext \/ UNCHANGED Feed!feedVars ]_vars

(***************************************************************************)
(* Liveness, under FairSpec                                                *)
(***************************************************************************)

(* A failure is answered, not merely scheduled: the sidecar comes up again,  *)
(* the budget is declared exhausted, the restart is dropped because its      *)
(* timer thread could not be created, or the application exits.              *)
FailureIsSettled ==
  state \in Retryable ~> \/ state = "Running"
                         \/ GaveUp
                         \/ Someone({ "abandoned" })
                         \/ shuttingDown

(* The exit handler always gets through, whoever holds the process mutex     *)
(* when the user quits.                                                      *)
ExitCompletes == shuttingDown ~> appGone

(***************************************************************************)
(* What comments in the code claim and the code does not do                *)
(***************************************************************************)

(* lib.rs:1048, the exit handler: "There is no path that leaves an orphaned  *)
(* process".  Stated for the runs in which shutdown() itself did not time    *)
(* out.                                                                      *)
NoOrphanedProcess == appGone /\ exitOutcome # "Failed" => live = {}

(* sidecar-core/src/restart.rs:480 and lib.rs:57: a stale stability check    *)
(* "can never erase real crash history": the count of attempts goes down     *)
(* only while the sidecar is RUNNING in the newest episode.                  *)
CrashHistoryKept ==
  [][ attempts' < attempts =>
        state = "Running" /\ stabilityPc[nextWindow - 1] = "reset" ]_vars
=============================================================================
