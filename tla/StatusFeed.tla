----------------------------- MODULE StatusFeed -----------------------------
(***************************************************************************)
(* The shell as its window sees it: the lifecycle state behind the process *)
(* mutex, whether a restart is pending, how many attempts were counted,    *)
(* and the numbered events, in the order the shell's threads produce them. *)
(* Processes, handles, tokens and stability windows are gone; SidecarHost  *)
(* implements this until the application exits (SidecarHost!FeedSpec).  A   *)
(* start that times out looks like one that fails: nothing here treats the *)
(* two differently.                                                        *)
(*                                                                         *)
(* Each thread is one launch: thread 0 the setup thread, every other one a *)
(* restart timer.                                                          *)
(***************************************************************************)
EXTENDS Naturals

CONSTANTS
  Budget,       (* RestartPolicy::max_attempts                              *)
  MaxRestarts   (* bound: how many restarts are ever scheduled              *)

ASSUME FeedAssumption == Budget \in Nat /\ MaxRestarts \in Nat

VARIABLES state, pending, attempts, event, pc, outcome, granted

feedVars == << state, pending, attempts, event, pc, outcome, granted >>

Launches  == 0 .. MaxRestarts
Retryable == { "Crashed", "Failed" }

FeedLabels == { "unborn", "timer", "restart", "reset", "launch", "booting",
                "emitStarting", "emitOutcome", "watch", "emitCrash", "failed",
                "granted", "schedule", "rollback", "emitScheduled",
                "emitExhausted", "abandoned", "done" }

FeedInit ==
  /\ state = "NotStarted" /\ pending = FALSE /\ attempts = 0
  /\ event = [ seq |-> 0, kind |-> "none", previous |-> "NotStarted",
               state |-> "NotStarted", attempt |-> 0 ]
  /\ pc = [ t \in Launches |-> IF t = 0 THEN "launch" ELSE "unborn" ]
  /\ outcome = [ t \in Launches |-> "NotStarted" ]
  /\ granted = [ t \in Launches |-> 0 ]

(* start() holds the process mutex. *)
MutexFree == \A t \in Launches : pc[t] \notin { "reset", "booting" }

Step(t, from, to) == pc[t] = from /\ pc' = [ pc EXCEPT ![t] = to ]

Announce(kind, previous, current, n) ==
  event' = [ seq |-> event.seq + 1, kind |-> kind, previous |-> previous,
             state |-> current, attempt |-> n ]

FeedLaunch(t) ==
  /\ Step(t, "launch", "booting")
  /\ MutexFree
  /\ state' = "Starting"
  /\ UNCHANGED << pending, attempts, event, outcome, granted >>

FeedStarted(t) ==
  /\ Step(t, "booting", "emitStarting")
  /\ state' \in { "Running", "Failed" }
  /\ outcome' = [ outcome EXCEPT ![t] = state' ]
  /\ UNCHANGED << pending, attempts, event, granted >>

AnnounceStarting(t) ==
  /\ Step(t, "emitStarting", "emitOutcome")
  /\ Announce("state_changed", "NotStarted", "Starting", 0)
  /\ UNCHANGED << state, pending, attempts, outcome, granted >>

AnnounceOutcome(t) ==
  /\ Step(t, "emitOutcome", IF outcome[t] = "Running" THEN "watch" ELSE "failed")
  /\ Announce("state_changed", "Starting", outcome[t], 0)
  /\ UNCHANGED << state, pending, attempts, outcome, granted >>

FeedCrash(t) ==
  /\ Step(t, "watch", "emitCrash")
  /\ MutexFree
  /\ state = "Running" /\ state' = "Crashed"
  /\ outcome' = [ outcome EXCEPT ![t] = "Crashed" ]
  /\ UNCHANGED << pending, attempts, event, granted >>

AnnounceCrash(t) ==
  /\ Step(t, "emitCrash", "failed")
  /\ Announce("state_changed", "Running", outcome[t], 0)
  /\ UNCHANGED << state, pending, attempts, outcome, granted >>

FeedDecide(t) ==
  /\ Step(t, "failed", IF attempts >= Budget THEN "emitExhausted" ELSE "granted")
  /\ granted' = [ granted EXCEPT ![t] = IF attempts >= Budget THEN attempts
                                                              ELSE attempts + 1 ]
  /\ UNCHANGED << state, pending, attempts, event, outcome >>

FeedRecord(t) ==
  /\ Step(t, "granted", "schedule")
  /\ attempts' = attempts + 1
  /\ UNCHANGED << state, pending, event, outcome, granted >>

(* The timer of the next thread is running, or could not be created. *)
FeedSchedule(t) ==
  /\ pc[t] = "schedule" /\ ~pending
  /\ pending' = TRUE
  /\ \/ pc' = [ pc EXCEPT ![t] = "rollback" ]
     \/ \E u \in Launches :
          /\ pc[u] = "unborn" /\ \A v \in 1 .. u - 1 : pc[v] # "unborn"
          /\ pc' = [ pc EXCEPT ![t] = "emitScheduled", ![u] = "timer" ]
  /\ UNCHANGED << state, attempts, event, outcome, granted >>

FeedRollback(t) ==
  /\ Step(t, "rollback", "abandoned")
  /\ pending' = FALSE
  /\ UNCHANGED << state, attempts, event, outcome, granted >>

AnnounceScheduled(t) ==
  /\ Step(t, "emitScheduled", "done")
  /\ Announce("restart_scheduled", event.state, event.state, granted[t])
  /\ UNCHANGED << state, pending, attempts, outcome, granted >>

AnnounceExhausted(t) ==
  /\ Step(t, "emitExhausted", "done")
  /\ Announce("restart_exhausted", event.state, event.state, granted[t])
  /\ UNCHANGED << state, pending, attempts, outcome, granted >>

FeedFires(t) ==
  /\ Step(t, "timer", "restart")
  /\ pending' = FALSE
  /\ UNCHANGED << state, attempts, event, outcome, granted >>

FeedRestart(t) ==
  /\ Step(t, "restart", "reset")
  /\ MutexFree
  /\ state \in Retryable
  /\ UNCHANGED << state, pending, attempts, event, outcome, granted >>

(* Reset, announce and start again under the one mutex: nobody else sees     *)
(* NotStarted.                                                               *)
FeedReset(t) ==
  /\ Step(t, "reset", "booting")
  /\ state' = "Starting"
  /\ Announce("state_changed", state, "NotStarted", 0)
  /\ UNCHANGED << pending, attempts, outcome, granted >>

(* A stability timer refills the budget: when, this module does not say. *)
Refill ==
  /\ attempts > 0 /\ attempts' = 0
  /\ UNCHANGED << state, pending, event, pc, outcome, granted >>

FeedThread(t) ==
  \/ FeedLaunch(t) \/ FeedStarted(t) \/ AnnounceStarting(t)
  \/ AnnounceOutcome(t) \/ FeedCrash(t) \/ AnnounceCrash(t) \/ FeedDecide(t)
  \/ FeedRecord(t) \/ FeedSchedule(t) \/ FeedRollback(t)
  \/ AnnounceScheduled(t) \/ AnnounceExhausted(t) \/ FeedFires(t)
  \/ FeedRestart(t) \/ FeedReset(t)

FeedNext == Refill \/ \E t \in Launches : FeedThread(t)

FeedSpec == FeedInit /\ [][FeedNext]_feedVars
=============================================================================
