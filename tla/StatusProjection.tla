-------------------------- MODULE StatusProjection --------------------------
(***************************************************************************)
(* How the sidecar's status reaches the window.  The shell's threads       *)
(* (StatusFeed) emit numbered events; the window listens, projects the     *)
(* accepted ones onto a store, and once per mount fetches a snapshot with  *)
(* the get_sidecar_status command and reconciles it with the store.        *)
(* frontend/src/shared/sidecar with src-tauri/src/events.rs and            *)
(* get_sidecar_status of lib.rs.                                           *)
(*                                                                         *)
(* Numbering an event and handing it to the webview are two steps of a     *)
(* thread; the window handles it later still.  The command runs on the     *)
(* main thread and reads the state, the schedule, the tracker and the      *)
(* sequence one after the other, each under its own lock.  The exit        *)
(* handler is left out here: it runs when no window is left.               *)
(***************************************************************************)
EXTENDS StatusFeed, Sequences

CONSTANTS
  MaxMounts,    (* bound: how often App mounts; Strict Mode mounts twice    *)
  MaxInFlight,  (* bound: emitted events the window has not handled yet     *)
  MaxRejections (* bound: how many calls to the shell are rejected          *)

ASSUME ProjectionAssumption ==
  /\ MaxMounts \in Nat \ {0} /\ MaxInFlight \in Nat \ {0}
  /\ MaxRejections \in Nat

VARIABLES
  sending,       (* per thread: the event it numbered and not yet emitted   *)
  wire,          (* emitted events on their way to the window               *)
  rejections,    (* calls of the window rejected so far                     *)
  settled,       (* the listen() calls that have settled ...                *)
  registered,    (* ... and the event names whose handler is in place       *)
  listening,     (* SidecarEventSubscription.start() has been called        *)
  lastApplied,   (* SidecarEventSubscription.lastAppliedSequence            *)
  connected,     (* SidecarProjectionConnector is active                    *)
  store,         (* SidecarProjectionStore.state                            *)
  lifecycle,     (* SidecarSnapshotReconciler.lifecycle                     *)
  generation,    (* SidecarSnapshotReconciler.generation                    *)
  mounts,        (* how often initialize() ran its sequence                 *)
  task           (* the runSequence() of each of them                       *)

subscriptionVars == << settled, registered, listening, lastApplied >>
reconcilerVars   == << connected, lifecycle, generation, mounts, task >>
shellVars == << feedVars, sending, wire >>
frontVars == << sending, wire, rejections, subscriptionVars, store, reconcilerVars >>
allVars   == << feedVars, frontVars >>

Mounts  == 1 .. MaxMounts
Kinds   == { "state_changed", "restart_scheduled", "restart_exhausted" }
NoEvent == [ seq |-> 0, kind |-> "none", previous |-> "NotStarted",
             state |-> "NotStarted", attempt |-> 0 ]

(* `null`, with the restart fields a first state_changed event starts from. *)
NoStatus == [ state |-> "unknown", pending |-> FALSE, attempts |-> 0,
              exhausted |-> FALSE, sequence |-> 0 ]

TaskLabels == { "unborn", "start", "fetch", "readSchedule", "readTracker",
                "readSequence", "answer", "failed", "done" }
Reading    == { "readSchedule", "readTracker", "readSequence" }

ProjectionInit ==
  /\ FeedInit
  /\ sending = [ t \in Launches |-> NoEvent ]
  /\ wire = << >> /\ rejections = 0
  /\ settled = {} /\ registered = {} /\ listening = FALSE /\ lastApplied = 0
  /\ connected = FALSE /\ store = NoStatus
  /\ lifecycle = "uninitialized" /\ generation = 0 /\ mounts = 0
  /\ task = [ m \in Mounts |->
                [ at |-> "unborn", generation |-> 0, status |-> NoStatus ] ]

-----------------------------------------------------------------------------
(***************************************************************************)
(* The shell's side                                                        *)
(***************************************************************************)

(* A thread that has numbered an event emits it before it does anything else. *)
ShellThread(t) ==
  /\ sending[t] = NoEvent
  /\ FeedThread(t)
  /\ sending' = [ sending EXCEPT ![t] = IF event' # event THEN event' ELSE @ ]
  /\ UNCHANGED << wire, rejections, subscriptionVars, store, reconcilerVars >>

StabilityTimer == Refill /\ UNCHANGED frontVars

(* An event nobody listens for is lost. *)
Emit(t) ==
  /\ sending[t] # NoEvent
  /\ Len(wire) < MaxInFlight
  /\ wire' = IF sending[t].kind \in registered THEN Append(wire, sending[t])
                                               ELSE wire
  /\ sending' = [ sending EXCEPT ![t] = NoEvent ]
  /\ UNCHANGED << feedVars, rejections, subscriptionVars, store,
                  reconcilerVars >>

-----------------------------------------------------------------------------
(***************************************************************************)
(* SidecarEventSubscription, the projection and its connector              *)
(***************************************************************************)

(* A call to the shell is rejected, at most MaxRejections times. *)
Rejected == rejections < MaxRejections /\ rejections' = rejections + 1

(* Mutant: a handler is put in place without its call counting as settled. *)
ListenUnsettled(kind) ==
  /\ listening /\ kind \notin settled
  /\ registered' = registered \cup { kind }
  /\ UNCHANGED << shellVars, rejections, settled, listening, lastApplied, store,
                  reconcilerVars >>

(* One listen() call settles; a rejected one is only reported. *)
Listen(kind) ==
  /\ listening /\ kind \notin settled
  /\ settled' = settled \cup { kind }
  /\ \/ registered' = registered \cup { kind } /\ UNCHANGED rejections
     \/ Rejected /\ UNCHANGED registered
  /\ UNCHANGED << shellVars, listening, lastApplied, store, reconcilerVars >>

(* A restart event says nothing of the state: without a store it is dropped. *)
ProjectSidecarEvent(current, e) ==
  CASE e.kind = "state_changed" ->
         [ current EXCEPT !.state = e.state, !.sequence = e.seq ]
    [] e.kind # "state_changed" /\ current = NoStatus -> NoStatus
    [] e.kind = "restart_scheduled" /\ current # NoStatus ->
         [ current EXCEPT !.pending = TRUE, !.attempts = e.attempt,
                          !.exhausted = FALSE, !.sequence = e.seq ]
    [] e.kind = "restart_exhausted" /\ current # NoStatus ->
         [ current EXCEPT !.pending = FALSE, !.attempts = e.attempt,
                          !.exhausted = TRUE, !.sequence = e.seq ]

(* handleIncoming: a number already passed is dropped. *)
HandleIncoming ==
  /\ wire # << >>
  /\ wire' = Tail(wire)
  /\ LET e == Head(wire) IN
       IF e.seq <= lastApplied
         THEN UNCHANGED << lastApplied, store >>
         ELSE /\ lastApplied' = e.seq
              /\ store' = IF connected THEN ProjectSidecarEvent(store, e)
                                       ELSE store
  /\ UNCHANGED << feedVars, sending, rejections, settled, registered,
                  listening, reconcilerVars >>

-----------------------------------------------------------------------------
(***************************************************************************)
(* SidecarSnapshotReconciler, and the command it calls                     *)
(***************************************************************************)

TaskGoto(m, label) == task' = [ task EXCEPT ![m].at = label ]

(* initialize(): the connector first, then subscription.start(), which is    *)
(* idempotent.  While it runs or is active a further call changes nothing.   *)
Initialize ==
  /\ lifecycle \in { "uninitialized", "disposed" }
  /\ mounts < MaxMounts
  /\ mounts' = mounts + 1
  /\ lifecycle' = "initializing"
  /\ generation' = generation + 1
  /\ connected' = TRUE
  /\ listening' = TRUE
  /\ task' = [ task EXCEPT ![mounts'] =
                 [ at |-> "start", generation |-> generation',
                   status |-> NoStatus ] ]
  /\ UNCHANGED << shellVars, rejections, settled, registered, lastApplied, store >>

Dispose ==
  /\ lifecycle \in { "initializing", "active" }
  /\ lifecycle' = "disposed"
  /\ generation' = generation + 1
  /\ connected' = FALSE
  /\ UNCHANGED << shellVars, rejections, subscriptionVars, store, mounts, task >>

(* Mutant: the snapshot is requested while listen() calls are in flight. *)
FetchesAtOnce(m) ==
  /\ task[m].at = "start"
  /\ TaskGoto(m, "fetch")
  /\ UNCHANGED << shellVars, rejections, subscriptionVars, store, connected,
                  lifecycle, generation, mounts >>

(* start() has resolved.  Even a superseded sequence goes on to fetch. *)
StartResolves(m) ==
  /\ task[m].at = "start"
  /\ settled = Kinds
  /\ TaskGoto(m, "fetch")
  /\ UNCHANGED << shellVars, rejections, subscriptionVars, store, connected,
                  lifecycle, generation, mounts >>

(* get_sidecar_status, on the main thread: the state under the process mutex *)
(* ...                                                                       *)
ReadState(m) ==
  /\ task[m].at = "fetch"
  /\ \A n \in Mounts : task[n].at \notin Reading
  /\ MutexFree
  /\ task' = [ task EXCEPT ![m].at = "readSchedule", ![m].status.state = state ]
  /\ UNCHANGED << shellVars, rejections, subscriptionVars, store, connected,
                  lifecycle, generation, mounts >>

(* ... then RestartScheduler::is_pending ... *)
ReadSchedule(m) ==
  /\ task[m].at = "readSchedule"
  /\ task' = [ task EXCEPT ![m].at = "readTracker",
                           ![m].status.pending = pending ]
  /\ UNCHANGED << shellVars, rejections, subscriptionVars, store, connected,
                  lifecycle, generation, mounts >>

(* status_restart_exhausted: the comparison `decide` makes, whether or not a *)
(* granted restart is still to come.                                         *)
StatusRestartExhausted(n) == n >= Budget

(* ... then the tracker ... *)
ReadTracker(m) ==
  /\ task[m].at = "readTracker"
  /\ task' = [ task EXCEPT ![m].at = "readSequence",
                           ![m].status.attempts = attempts,
                           ![m].status.exhausted =
                             StatusRestartExhausted(attempts) ]
  /\ UNCHANGED << shellVars, rejections, subscriptionVars, store, connected,
                  lifecycle, generation, mounts >>

(* ... and the latest number last. *)
ReadSequence(m) ==
  /\ task[m].at = "readSequence"
  /\ task' = [ task EXCEPT ![m].at = "answer", ![m].status.sequence = event.seq ]
  /\ UNCHANGED << shellVars, rejections, subscriptionVars, store, connected,
                  lifecycle, generation, mounts >>

(* Mutant: after a failed fetch the reconciler stays as it was. *)
FetchFailsForGood(m) ==
  /\ task[m].at = "fetch"
  /\ Rejected
  /\ TaskGoto(m, "failed")
  /\ UNCHANGED << shellVars, subscriptionVars, store, connected,
                  lifecycle, generation, mounts >>

(* The invocation is rejected, or its answer is malformed. *)
FetchFails(m) ==
  /\ task[m].at = "fetch"
  /\ Rejected
  /\ TaskGoto(m, "failed")
  /\ lifecycle' = IF task[m].generation = generation THEN "active" ELSE lifecycle
  /\ UNCHANGED << shellVars, subscriptionVars, store, connected,
                  generation, mounts >>

(* The snapshot wins unless the store has seen a later number. *)
ReconcileSnapshot(current, status) ==
  IF current # NoStatus /\ status.sequence < current.sequence
    THEN current ELSE status

(* The sequence ends; all it leaves is the number its snapshot carried. *)
Over(m) ==
  /\ task[m].at = "answer"
  /\ task' = [ task EXCEPT ![m].at = "done",
                           ![m].status = [ NoStatus EXCEPT !.sequence =
                                             task[m].status.sequence ] ]

(* Mutant: an answer is applied whoever asked for it. *)
AnswersAnyway(m) ==
  /\ Over(m)
  /\ lifecycle' = "active"
  /\ store' = ReconcileSnapshot(store, task[m].status)
  /\ UNCHANGED << shellVars, rejections, subscriptionVars, connected, generation,
                  mounts >>

(* The answer to a superseded sequence is thrown away. *)
Answer(m) ==
  /\ Over(m)
  /\ IF task[m].generation = generation
       THEN /\ lifecycle' = "active"
            /\ store' = ReconcileSnapshot(store, task[m].status)
       ELSE UNCHANGED << lifecycle, store >>
  /\ UNCHANGED << shellVars, rejections, subscriptionVars, connected, generation,
                  mounts >>

SequenceStep(m) ==
  \/ StartResolves(m) \/ ReadState(m) \/ ReadSchedule(m) \/ ReadTracker(m)
  \/ ReadSequence(m) \/ FetchFails(m) \/ Answer(m)

(* With every failure used up, the last mount over and all delivered, the    *)
(* system rests: sidecar supervised or given up, window up to date.          *)
ProjectionNext ==
  \/ \E t \in Launches : ShellThread(t) \/ Emit(t)
  \/ StabilityTimer
  \/ HandleIncoming
  \/ \E kind \in Kinds : Listen(kind)
  \/ Initialize \/ Dispose
  \/ \E m \in Mounts : SequenceStep(m)

ProjectionSpec == ProjectionInit /\ [][ProjectionNext]_allVars

(* The shell's threads run, emitted events arrive, listen() settles, and an  *)
(* awaited call comes back.  Nobody is obliged to mount or unmount.          *)
ProjectionFairness ==
  /\ \A t \in Launches : WF_allVars(ShellThread(t)) /\ WF_allVars(Emit(t))
  /\ WF_allVars(HandleIncoming)
  /\ \A kind \in Kinds : WF_allVars(Listen(kind))
  /\ \A m \in Mounts : WF_allVars(SequenceStep(m))

FairProjectionSpec == ProjectionSpec /\ ProjectionFairness

-----------------------------------------------------------------------------
(***************************************************************************)
(* Properties                                                              *)
(***************************************************************************)

LifecycleStates == { "NotStarted", "Starting", "Running", "Failed", "Crashed" }

Statuses == [ state : LifecycleStates \cup { "unknown" },
              pending : BOOLEAN, attempts : Nat, exhausted : BOOLEAN,
              sequence : Nat ]

Events == [ seq : Nat, kind : Kinds \cup { "none" },
            previous : LifecycleStates,
            state : LifecycleStates, attempt : Nat ]

(* The variables range over what the classes of shared/sidecar can hold, and *)
(* a handler is in place only once its listen() has settled.                 *)
ProjectionTypeOK ==
  /\ sending \in [ Launches -> Events ] /\ wire \in Seq(Events)
  /\ registered \subseteq settled /\ settled \subseteq Kinds
  /\ listening \in BOOLEAN /\ connected \in BOOLEAN
  /\ rejections \in 0 .. MaxRejections
  /\ lastApplied \in Nat /\ generation \in Nat /\ mounts \in 0 .. MaxMounts
  /\ store \in Statuses
  /\ lifecycle \in { "uninitialized", "initializing", "active", "disposed" }
  /\ task \in [ Mounts -> [ at : TaskLabels, generation : Nat,
                            status : Statuses ] ]

(* Nothing is on its way to the window. *)
AllDelivered == wire = << >> /\ \A t \in Launches : sending[t] = NoEvent

(* An initialized window that could listen and fetch and has nothing left in *)
(* flight.                                                                   *)
UpToDate == /\ AllDelivered /\ lifecycle = "active" /\ registered = Kinds
            /\ task[mounts].at = "done"

(* Whatever was emitted before, between or during the mounts, no event       *)
(* escapes both ways into the window: listen() is awaited before the         *)
(* snapshot is fetched, and the connector is there before either.  (A        *)
(* restart event accepted while the store is still null is dropped.)         *)
NoEventEscapes ==
  UpToDate => \/ store.sequence = event.seq
              \/ task[mounts].status.sequence >= event.seq
              \/ event.kind # "state_changed" /\ lastApplied = event.seq

(* Between dispose() and the next initialize() neither an event nor the      *)
(* answer to a request of an earlier mount touches the store.                *)
SilentWhileDisposed == [][ ~connected /\ ~connected' => UNCHANGED store ]_allVars

(* "rather than getting stuck in initializing forever": initialize() always  *)
(* ends, whatever the fetch and the shell's threads do.                      *)
InitializeSettles == lifecycle = "initializing" ~> lifecycle # "initializing"

(***************************************************************************)
(* The inductive invariants behind NoEventEscapes and SilentWhileDisposed  *)
(***************************************************************************)

FeedTypeOK ==
  /\ state \in LifecycleStates /\ pending \in BOOLEAN /\ attempts \in Nat
  /\ event \in Events /\ pc \in [ Launches -> FeedLabels ]
  /\ outcome \in [ Launches -> LifecycleStates ]
  /\ granted \in [ Launches -> Nat ]

(* A mount is of the current generation only while it is the last one and    *)
(* was not disposed of; a snapshot is requested only when listen() settled.  *)
MountsInv ==
  /\ connected <=> lifecycle \in { "initializing", "active" }
  /\ lifecycle = "uninitialized" <=> mounts = 0
  /\ \A m \in Mounts :
       /\ m > mounts => task[m].at = "unborn"
       /\ m <= mounts => task[m].generation <= generation
       /\ m < mounts \/ (m = mounts /\ ~connected)
            => task[m].generation < generation
       /\ task[m].at \notin { "unborn", "start" } => settled = Kinds

Sending(t) == sending[t] # NoEvent

(* The latest event is on its way at most once, and then the window has not  *)
(* passed its number.                                                        *)
NumbersInv ==
  /\ lastApplied <= event.seq
  /\ \A t \in Launches : Sending(t) =>
       sending[t].kind \in Kinds /\ sending[t].seq \in 1 .. event.seq
  /\ \A i \in 1 .. Len(wire) :
       wire[i].kind \in Kinds /\ wire[i].seq \in 1 .. event.seq
  /\ \A t \in Launches : Sending(t) /\ sending[t].seq = event.seq =>
       /\ sending[t] = event /\ lastApplied < event.seq
       /\ \A u \in Launches : Sending(u) /\ sending[u].seq = event.seq => u = t
       /\ \A i \in 1 .. Len(wire) : wire[i].seq # event.seq
  /\ \A i \in 1 .. Len(wire) : wire[i].seq = event.seq =>
       /\ wire[i] = event /\ lastApplied < event.seq
       /\ \A j \in 1 .. Len(wire) : wire[j].seq = event.seq => j = i

(* The current mount has its snapshot, and every handler was in place before *)
(* it asked for it.                                                          *)
Snapshot == /\ connected /\ registered = Kinds /\ mounts \in Mounts
            /\ task[mounts].at \in { "answer", "done" }

(* From then on the latest event is covered by the snapshot, on its way, or  *)
(* the last one applied. *)
EscapeInv ==
  Snapshot =>
    \/ task[mounts].status.sequence >= event.seq
    \/ \E t \in Launches : Sending(t) /\ sending[t] = event
    \/ \E i \in 1 .. Len(wire) : wire[i] = event
    \/ /\ lastApplied = event.seq
       /\ event.kind = "state_changed" => store.sequence = event.seq

ProjectionInv ==
  /\ FeedTypeOK /\ ProjectionTypeOK /\ MountsInv /\ NumbersInv /\ EscapeInv

(***************************************************************************)
(* What comments in the code claim and the code does not do                *)
(***************************************************************************)

(* snapshotReconciliation.ts:17: "A stale snapshot must never overwrite      *)
(* newer accepted event state".  When the latest event has announced the     *)
(* state the sidecar is in, and the window has that number and nothing left  *)
(* in flight, the store holds that state.                                    *)
NewerStateKept ==
  UpToDate /\ event.state = state /\ store.sequence = event.seq
    => store.state = state

(* eventProjection.ts:87: `restart_pending` reads stale only between the     *)
(* firing of a restart and "this store's next event": a window that has      *)
(* every number, the last one a change of state, and that says RUNNING, has  *)
(* no restart pending.                                                       *)
PendingIsBrief ==
  AllDelivered /\ store.sequence = event.seq /\ event.kind = "state_changed"
    /\ state = "Running" /\ store.state = "Running" => ~store.pending

(* sidecarStatusView.ts: what the window shows for a status. *)
StatusView(s) ==
  CASE s.state = "unknown" -> "unknown"
    [] s.state # "unknown" /\ s.exhausted -> "failure"
    [] s.state # "unknown" /\ ~s.exhausted /\ s.pending -> "restarting"
    [] OTHER ->
         IF s.state = "Starting" THEN "starting"
         ELSE IF s.state = "Running" THEN "connected"
         ELSE IF s.state \in { "NotStarted", "Stopping", "Stopped" }
           THEN "disconnected" ELSE "failure"

(* sidecarStatusView.ts:46: "once exhausted, no further restart will happen, *)
(* which is why it takes precedence": while the window shows failure for     *)
(* that reason, nothing is launched.                                         *)
ExhaustedViewIsFinal ==
  [][ store.exhausted /\ StatusView(store) = "failure"
        => \A t \in Launches : pc'[t] = "booting" => pc[t] = "booting" ]_allVars
=============================================================================
