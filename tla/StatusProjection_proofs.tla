----------------------- MODULE StatusProjection_proofs -----------------------
(***************************************************************************)
(* Proofs about StatusProjection, for any restart budget, any number of    *)
(* restarts, mounts, events in flight and rejected calls.                  *)
(***************************************************************************)
EXTENDS StatusProjection, TLAPS

-----------------------------------------------------------------------------
(***************************************************************************)
(* The shell                                                               *)
(***************************************************************************)

(* A step of the shell numbers at most one event, the next one.              *)
Numbered ==
  \/ event' = event
  \/ event' \in Events /\ event'.kind \in Kinds /\ event'.seq = event.seq + 1

LEMMA Announced ==
  ASSUME event \in Events, NEW kind \in Kinds, NEW from \in LifecycleStates,
         NEW to \in LifecycleStates, NEW n \in Nat, Announce(kind, from, to, n)
  PROVE  Numbered /\ event' \in Events
BY DEF Announce, Numbered, Events

LEMMA Stepped ==
  ASSUME pc \in [ Launches -> FeedLabels ], NEW t \in Launches, NEW from,
         NEW to \in FeedLabels, Step(t, from, to)
  PROVE  pc' \in [ Launches -> FeedLabels ]
BY DEF Step

LEMMA FeedStep ==
  ASSUME FeedTypeOK, NEW t \in Launches, FeedThread(t)
  PROVE  FeedTypeOK' /\ Numbered
<1> USE DEF FeedTypeOK
<1>1. CASE \/ FeedLaunch(t) \/ FeedStarted(t) \/ FeedCrash(t)
           \/ FeedRecord(t) \/ FeedRollback(t) \/ FeedFires(t) \/ FeedRestart(t)
  <2>1. /\ event' = event /\ granted' = granted
        /\ attempts' \in Nat /\ state' \in LifecycleStates
        /\ outcome' \in [ Launches -> LifecycleStates ]
    BY <1>1 DEF FeedLaunch, FeedStarted, FeedCrash, FeedRecord, FeedRollback,
       FeedFires, FeedRestart, LifecycleStates
  <2>2. pending' \in BOOLEAN
    BY <1>1, Zenon DEF FeedLaunch, FeedStarted, FeedCrash, FeedRecord,
       FeedRollback, FeedFires, FeedRestart
  <2>3. \E from, to \in FeedLabels : Step(t, from, to)
    BY <1>1 DEF FeedLaunch, FeedStarted, FeedCrash, FeedRecord, FeedRollback,
       FeedFires, FeedRestart, FeedLabels
  <2> QED
    BY <2>1, <2>2, <2>3, Stepped DEF Numbered
<1>2. CASE FeedDecide(t)
  <2>1. granted' \in [ Launches -> Nat ]
    BY <1>2 DEF FeedDecide
  <2>2. pc' \in [ Launches -> FeedLabels ]
    BY <1>2, Stepped DEF FeedDecide, FeedLabels
  <2> QED
    BY <1>2, <2>1, <2>2 DEF FeedDecide, Numbered
<1>3. CASE FeedSchedule(t)
  <2>1. pc' \in [ Launches -> FeedLabels ]
    BY <1>3 DEF FeedSchedule, FeedLabels
  <2> QED
    BY <1>3, <2>1 DEF FeedSchedule, Numbered
<1>4. CASE \/ AnnounceStarting(t) \/ AnnounceOutcome(t) \/ AnnounceCrash(t)
           \/ AnnounceScheduled(t) \/ AnnounceExhausted(t) \/ FeedReset(t)
  <2>1. \E kind \in Kinds, from \in LifecycleStates, to \in LifecycleStates, n \in Nat :
          Announce(kind, from, to, n)
    BY <1>4 DEF AnnounceStarting, AnnounceOutcome, AnnounceCrash,
       AnnounceScheduled, AnnounceExhausted, FeedReset, Kinds,
       LifecycleStates, Events
  <2>2. Numbered /\ event' \in Events
    BY <2>1, Announced
  <2>3. \E from, to \in FeedLabels : Step(t, from, to)
    BY <1>4 DEF AnnounceStarting, AnnounceOutcome, AnnounceCrash,
       AnnounceScheduled, AnnounceExhausted, FeedReset, FeedLabels
  <2>4. /\ state' \in LifecycleStates
        /\ UNCHANGED << pending, attempts, outcome, granted >>
    BY <1>4 DEF AnnounceStarting, AnnounceOutcome, AnnounceCrash,
       AnnounceScheduled, AnnounceExhausted, FeedReset, LifecycleStates
  <2> QED
    BY <2>2, <2>3, <2>4, Stepped
<1> QED
  BY <1>1, <1>2, <1>3, <1>4 DEF FeedThread

(* Who else moves leaves the shell alone, or only refills its budget.        *)
LEMMA FeedKept ==
  ASSUME FeedTypeOK, UNCHANGED feedVars
  PROVE  FeedTypeOK' /\ event' = event
BY DEF FeedTypeOK, feedVars, Events

-----------------------------------------------------------------------------
(***************************************************************************)
(* The wire                                                                *)
(***************************************************************************)

LEMMA Sent ==
  ASSUME NEW e, wire \in Seq(Events), e \in Events, wire' = Append(wire, e)
  PROVE  /\ wire' \in Seq(Events) /\ Len(wire') = Len(wire) + 1
         /\ Len(wire) \in Nat
         /\ \A i \in 1 .. Len(wire) : wire'[i] = wire[i]
         /\ wire'[Len(wire) + 1] = e
OBVIOUS

LEMMA Received ==
  ASSUME wire \in Seq(Events), wire # << >>, wire' = Tail(wire)
  PROVE  /\ wire' \in Seq(Events) /\ Len(wire') = Len(wire) - 1
         /\ Len(wire) \in Nat \ {0} /\ Head(wire) = wire[1]
         /\ \A i \in 1 .. Len(wire') : i + 1 \in 1 .. Len(wire) /\ wire'[i] = wire[i + 1]
         /\ \A i \in 1 .. Len(wire) : i # 1 => i - 1 \in 1 .. Len(wire') /\ wire'[i - 1] = wire[i]
<1>1. /\ wire' \in Seq(Events) /\ Len(wire') = Len(wire) - 1
      /\ Len(wire) \in Nat \ {0} /\ Head(wire) = wire[1]
  OBVIOUS
<1>2. \A i \in 1 .. Len(wire') : i + 1 \in 1 .. Len(wire) /\ wire'[i] = wire[i + 1]
  BY <1>1
<1> QED
  BY <1>1, <1>2

-----------------------------------------------------------------------------
(***************************************************************************)
(* Mounts                                                                  *)
(***************************************************************************)

(* A sequence's own step starts nothing new and knows listen() has settled.  *)
LEMMA SequenceMoves ==
  ASSUME ProjectionTypeOK, MountsInv, NEW m \in Mounts, SequenceStep(m)
  PROVE  /\ m <= mounts /\ mounts \in Mounts /\ settled = Kinds
         /\ task[m].at # "unborn" /\ task'[m].at \notin { "unborn", "start" }
         /\ task'[m].generation = task[m].generation
         /\ \A n \in Mounts : n # m => task'[n] = task[n]
         /\ UNCHANGED << shellVars, subscriptionVars, connected, generation, mounts >>
<1> USE DEF ProjectionTypeOK, TaskGoto, Over
<1>1. /\ task[m].at # "unborn" /\ (task[m].at = "start" => settled = Kinds)
      /\ UNCHANGED << shellVars, subscriptionVars, connected, generation, mounts >>
  BY DEF SequenceStep, StartResolves, ReadState, ReadSchedule, ReadTracker,
     ReadSequence, FetchFails, Answer
<1>2. settled = Kinds /\ m <= mounts
  BY <1>1 DEF MountsInv, Mounts
<1>3. mounts \in Mounts
  BY <1>2, ProjectionAssumption DEF Mounts
<1>4. /\ task'[m].at \notin { "unborn", "start" }
      /\ task'[m].generation = task[m].generation
      /\ \A n \in Mounts : n # m => task'[n] = task[n]
  BY DEF SequenceStep, StartResolves, ReadState, ReadSchedule, ReadTracker,
     ReadSequence, FetchFails, Answer
<1> QED
  BY <1>1, <1>2, <1>3, <1>4

(* Only a sequence of the current generation settles the lifecycle or the    *)
(* store: it is the last mount's, and that one was not disposed of.          *)
LEMMA CurrentOnly ==
  ASSUME ProjectionTypeOK, MountsInv, NEW m \in Mounts, SequenceStep(m),
         lifecycle' # lifecycle \/ store' # store
  PROVE  m = mounts /\ connected /\ lifecycle' \in { lifecycle, "active" }
<1>1. task[m].generation = generation /\ lifecycle' \in { lifecycle, "active" }
  BY DEF SequenceStep, StartResolves, ReadState, ReadSchedule, ReadTracker,
     ReadSequence, FetchFails, Answer
<1>2. m <= mounts
  BY SequenceMoves
<1>3. generation \in Nat /\ mounts \in Nat /\ m \in Nat
  BY DEF ProjectionTypeOK, Mounts
<1>4. ~(m < mounts \/ (m = mounts /\ ~connected))
  BY <1>1, <1>3 DEF MountsInv
<1> QED
  BY <1>1, <1>2, <1>3, <1>4

LEMMA MountsKept ==
  ASSUME MountsInv, UNCHANGED reconcilerVars, settled = Kinds => settled' = Kinds
  PROVE  MountsInv'
BY DEF MountsInv, reconcilerVars

LEMMA SequenceMounts ==
  ASSUME ProjectionTypeOK, MountsInv, NEW m \in Mounts, SequenceStep(m)
  PROVE  MountsInv'
<1>1. /\ m <= mounts /\ settled' = Kinds
      /\ UNCHANGED << connected, generation, mounts >>
      /\ task'[m].generation = task[m].generation
      /\ \A n \in Mounts : n # m => task'[n] = task[n]
  BY SequenceMoves DEF subscriptionVars
<1>2. connected' <=> lifecycle' \in { "initializing", "active" }
  <2>1. CASE lifecycle' = lifecycle
    BY <1>1, <2>1 DEF MountsInv
  <2>2. CASE lifecycle' # lifecycle
    <3>1. connected /\ lifecycle' = "active"
      BY <2>2, CurrentOnly
    <3> QED
      BY <1>1, <3>1
  <2> QED
    BY <2>1, <2>2
<1>3. lifecycle' = "uninitialized" <=> mounts' = 0
  BY <1>1, CurrentOnly DEF MountsInv
<1>4. \A n \in Mounts :
        /\ task'[n].generation = task[n].generation
        /\ n > mounts => task'[n] = task[n]
  BY <1>1 DEF ProjectionTypeOK, Mounts
<1> QED
  BY <1>1, <1>2, <1>3, <1>4 DEF MountsInv

LEMMA MountsStep ==
  ASSUME ProjectionTypeOK, MountsInv, [ProjectionNext]_allVars
  PROVE  MountsInv'
<1> USE DEF subscriptionVars, reconcilerVars
<1>1. CASE \E t \in Launches : ShellThread(t) \/ Emit(t)
  BY <1>1, MountsKept DEF ShellThread, Emit
<1>2. CASE StabilityTimer
  BY <1>2, MountsKept DEF StabilityTimer, frontVars
<1>3. CASE HandleIncoming
  BY <1>3, MountsKept DEF HandleIncoming
<1>4. CASE \E kind \in Kinds : Listen(kind)
  BY <1>4, MountsKept DEF Listen
<1>5. CASE Initialize
  <2>1. connected' = TRUE /\ lifecycle' = "initializing" /\ ~connected
    BY <1>5, Zenon DEF Initialize, MountsInv
  <2>2. /\ mounts \in Nat /\ generation \in Nat
        /\ mounts' = mounts + 1 /\ generation' = generation + 1
        /\ mounts' \in Mounts /\ settled' = settled
    BY <1>5, ProjectionAssumption DEF Initialize, ProjectionTypeOK, Mounts
  <2>3. /\ task'[mounts'].at = "start" /\ task'[mounts'].generation = generation'
        /\ \A n \in Mounts : n # mounts' => task'[n] = task[n]
    BY <1>5, <2>2 DEF Initialize, ProjectionTypeOK
  <2>4. \A n \in Mounts : n <= mounts => task[n].generation < generation'
    BY <2>2 DEF MountsInv, ProjectionTypeOK, Mounts
  <2>5. \A n \in Mounts : n <= mounts' <=> (n <= mounts \/ n = mounts')
    BY <2>2 DEF Mounts
  <2>6. ASSUME NEW n \in Mounts
        PROVE  /\ n > mounts' => task'[n].at = "unborn"
               /\ n <= mounts' => task'[n].generation <= generation'
               /\ n < mounts' => task'[n].generation < generation'
               /\ task'[n].at \notin { "unborn", "start" } => settled' = Kinds
    <3>1. CASE n = mounts'
      BY <2>2, <2>3, <3>1 DEF Mounts
    <3>2. CASE n # mounts'
      <4>1. task'[n] = task[n] /\ n \in Nat /\ task[n].generation \in Nat
        BY <2>3, <3>2 DEF Mounts, ProjectionTypeOK
      <4> QED
        BY <2>2, <2>4, <3>2, <4>1 DEF MountsInv
    <3> QED
      BY <3>1, <3>2
  <2> QED
    BY <2>2, <2>6, <2>1 DEF MountsInv
<1>6. CASE Dispose
  <2>1. /\ generation \in Nat /\ generation' = generation + 1
        /\ connected' = FALSE /\ lifecycle' = "disposed"
        /\ lifecycle # "uninitialized"
        /\ UNCHANGED << mounts, task, settled >>
        /\ \A n \in Mounts : task[n].generation \in Nat
    BY <1>6 DEF Dispose, ProjectionTypeOK
  <2>2. /\ connected' <=> lifecycle' \in { "initializing", "active" }
        /\ lifecycle' = "uninitialized" <=> mounts' = 0
    BY <2>1 DEF MountsInv
  <2>3. \A n \in Mounts :
          /\ n > mounts => task[n].at = "unborn"
          /\ n <= mounts => task[n].generation < generation'
          /\ task[n].at \notin { "unborn", "start" } => settled = Kinds
    BY <2>1 DEF MountsInv
  <2>4. mounts \in Nat /\ \A n \in Mounts : n \in Nat
    BY DEF ProjectionTypeOK, Mounts
  <2> QED
    BY <2>1, <2>2, <2>3, <2>4 DEF MountsInv
<1>7. CASE \E m \in Mounts : SequenceStep(m)
  BY <1>7, SequenceMounts
<1>8. CASE UNCHANGED allVars
  BY <1>8, MountsKept DEF allVars, frontVars
<1> QED
  BY <1>1, <1>2, <1>3, <1>4, <1>5, <1>6, <1>7, <1>8 DEF ProjectionNext

-----------------------------------------------------------------------------
(***************************************************************************)
(* Types                                                                   *)
(***************************************************************************)

LEMMA NothingType == NoStatus \in Statuses /\ NoEvent \in Events
BY DEF NoStatus, Statuses, NoEvent, Events, LifecycleStates

LEMMA ProjectedType ==
  ASSUME NEW s \in Statuses, NEW e \in Events, e.kind \in Kinds
  PROVE  ProjectSidecarEvent(s, e) \in Statuses
<1>1. CASE e.kind = "state_changed"
  BY <1>1 DEF ProjectSidecarEvent, Statuses, Events
<1>2. CASE e.kind # "state_changed" /\ s = NoStatus
  BY <1>2, NothingType DEF ProjectSidecarEvent
<1>3. CASE e.kind = "restart_scheduled" /\ s # NoStatus
  BY <1>3 DEF ProjectSidecarEvent, Statuses, Events
<1>4. CASE e.kind = "restart_exhausted" /\ s # NoStatus
  BY <1>4 DEF ProjectSidecarEvent, Statuses, Events
<1> QED
  BY <1>1, <1>2, <1>3, <1>4 DEF Kinds

SubscriptionTypes ==
  /\ sending \in [ Launches -> Events ] /\ wire \in Seq(Events)
  /\ registered \subseteq settled /\ settled \subseteq Kinds
  /\ rejections \in 0 .. MaxRejections /\ lastApplied \in Nat

SwitchTypes == listening \in BOOLEAN /\ connected \in BOOLEAN

ReconcilerTypes ==
  /\ generation \in Nat /\ mounts \in 0 .. MaxMounts
  /\ store \in Statuses
  /\ lifecycle \in { "uninitialized", "initializing", "active", "disposed" }

TaskTypes ==
  task \in [ Mounts -> [ at : TaskLabels, generation : Nat, status : Statuses ] ]

LEMMA TypeParts ==
  /\ ProjectionTypeOK <=> /\ SubscriptionTypes /\ SwitchTypes
                          /\ ReconcilerTypes /\ TaskTypes
  /\ SubscriptionTypes' /\ SwitchTypes' /\ ReconcilerTypes' /\ TaskTypes'
       => ProjectionTypeOK'
BY DEF ProjectionTypeOK, SubscriptionTypes, SwitchTypes, ReconcilerTypes, TaskTypes

LEMMA TaskMoves ==
  ASSUME TaskTypes, NEW m \in Mounts, NEW l \in TaskLabels, NEW s \in Statuses
  PROVE  /\ task' = [ task EXCEPT ![m].at = l ] => TaskTypes'
         /\ task' = [ task EXCEPT ![m].at = l, ![m].status = s ] => TaskTypes'
<1> DEFINE Tasks == [ at : TaskLabels, generation : Nat, status : Statuses ]
<1>1. task \in [ Mounts -> Tasks ] /\ task[m] \in Tasks
  BY DEF TaskTypes
<1>2. [ task[m] EXCEPT !.at = l ] \in Tasks
  BY <1>1
<1>3. [ task[m] EXCEPT !.at = l, !.status = s ] \in Tasks
  BY <1>1
<1>4. [ task EXCEPT ![m].at = l ] = [ task EXCEPT ![m] = [ task[m] EXCEPT !.at = l ] ]
  BY <1>1
<1>5. [ task EXCEPT ![m].at = l, ![m].status = s ]
        = [ task EXCEPT ![m] = [ task[m] EXCEPT !.at = l, !.status = s ] ]
  BY <1>1
<1> HIDE DEF Tasks
<1>6. \A r \in Tasks : [ task EXCEPT ![m] = r ] \in [ Mounts -> Tasks ]
  BY <1>1
<1> QED
  BY <1>2, <1>3, <1>4, <1>5, <1>6 DEF TaskTypes, Tasks

LEMMA TaskStep ==
  ASSUME FeedTypeOK, ProjectionTypeOK, NEW m \in Mounts, SequenceStep(m)
  PROVE  TaskTypes'
<1> DEFINE old == task[m]
<1>1. /\ TaskTypes /\ old.at \in TaskLabels /\ old.generation \in Nat
      /\ old.status \in Statuses
      /\ old = [ at |-> old.at, generation |-> old.generation, status |-> old.status ]
  BY DEF ProjectionTypeOK, TaskTypes
<1>2. ASSUME NEW l \in TaskLabels, TaskGoto(m, l) PROVE TaskTypes'
  BY <1>1, <1>2, TaskMoves DEF TaskGoto
<1>3. CASE StartResolves(m) \/ FetchFails(m)
  BY <1>2, <1>3 DEF StartResolves, FetchFails, TaskLabels
<1>4. CASE ReadState(m) \/ ReadSchedule(m) \/ ReadTracker(m) \/ ReadSequence(m)
  <2>1. PICK l \in TaskLabels, s \in Statuses :
          task' = [ task EXCEPT ![m].at = l, ![m].status = s ]
    <3>1. CASE ReadState(m)
      <4>1. [ old.status EXCEPT !.state = state ] \in Statuses
        BY <1>1 DEF FeedTypeOK, Statuses
      <4>2. task' = [ task EXCEPT ![m].at = "readSchedule",
                        ![m].status = [ old.status EXCEPT !.state = state ] ]
        BY <1>1, <3>1 DEF ReadState, TaskTypes
      <4> QED
        BY <4>1, <4>2 DEF TaskLabels
    <3>2. CASE ReadSchedule(m)
      <4>1. [ old.status EXCEPT !.pending = pending ] \in Statuses
        BY <1>1 DEF FeedTypeOK, Statuses
      <4>2. task' = [ task EXCEPT ![m].at = "readTracker",
                        ![m].status = [ old.status EXCEPT !.pending = pending ] ]
        BY <1>1, <3>2 DEF ReadSchedule, TaskTypes
      <4> QED
        BY <4>1, <4>2 DEF TaskLabels
    <3>3. CASE ReadTracker(m)
      <4> DEFINE spent == StatusRestartExhausted(attempts)
      <4>1. spent \in BOOLEAN
        BY DEF StatusRestartExhausted
      <4>2. [ old.status EXCEPT !.attempts = attempts, !.exhausted = spent ] \in Statuses
        BY <1>1, <4>1 DEF FeedTypeOK, Statuses
      <4>3. task' = [ task EXCEPT ![m].at = "readSequence",
                        ![m].status = [ old.status EXCEPT !.attempts = attempts,
                                                          !.exhausted = spent ] ]
        BY <1>1, <3>3 DEF ReadTracker, TaskTypes
      <4> QED
        BY <4>2, <4>3 DEF TaskLabels
    <3>4. CASE ReadSequence(m)
      <4>1. [ old.status EXCEPT !.sequence = event.seq ] \in Statuses
        BY <1>1 DEF FeedTypeOK, Statuses, Events
      <4>2. task' = [ task EXCEPT ![m].at = "answer",
                        ![m].status = [ old.status EXCEPT !.sequence = event.seq ] ]
        BY <1>1, <3>4 DEF ReadSequence, TaskTypes
      <4> QED
        BY <4>1, <4>2 DEF TaskLabels
    <3> QED
      BY <1>4, <3>1, <3>2, <3>3, <3>4
  <2> QED
    BY <1>1, <2>1, TaskMoves
<1>5. CASE Answer(m)
  <2> DEFINE s == [ NoStatus EXCEPT !.sequence = old.status.sequence ]
  <2>1. s \in Statuses
    BY <1>1, NothingType DEF Statuses
  <2>2. task' = [ task EXCEPT ![m].at = "done", ![m].status = s ]
    BY <1>5 DEF Answer, Over
  <2> QED
    BY <1>1, <2>1, <2>2, TaskMoves DEF TaskLabels
<1> QED
  BY <1>3, <1>4, <1>5 DEF SequenceStep

LEMMA ShellTypes ==
  ASSUME FeedTypeOK, ProjectionTypeOK, NEW t \in Launches, ShellThread(t) \/ Emit(t)
  PROVE  ProjectionTypeOK'
<1> USE DEF subscriptionVars, reconcilerVars
<1>1. SwitchTypes' /\ ReconcilerTypes' /\ TaskTypes'
  BY TypeParts DEF ShellThread, Emit, SwitchTypes, ReconcilerTypes, TaskTypes
<1>2. CASE ShellThread(t)
  <2>1. event' \in Events
    BY <1>2, FeedStep DEF ShellThread, FeedTypeOK
  <2> QED
    BY <1>1, <1>2, <2>1, TypeParts DEF ShellThread, SubscriptionTypes
<1>3. CASE Emit(t)
  <2>1. sending[t] \in Events /\ wire \in Seq(Events)
    BY DEF ProjectionTypeOK
  <2>2. wire' \in Seq(Events)
    BY <1>3, <2>1, Sent DEF Emit
  <2>3. sending' \in [ Launches -> Events ]
    BY <1>3, NothingType DEF Emit, ProjectionTypeOK
  <2>4. SubscriptionTypes'
    BY <1>3, <2>2, <2>3, TypeParts DEF Emit, SubscriptionTypes
  <2> QED
    BY <1>1, <2>4, TypeParts
<1> QED
  BY <1>2, <1>3

LEMMA IncomingTypes ==
  ASSUME FeedTypeOK, ProjectionTypeOK, NumbersInv, HandleIncoming
  PROVE  ProjectionTypeOK'
<1>1. /\ Head(wire) \in Events /\ Head(wire).kind \in Kinds
      /\ wire' \in Seq(Events)
  BY Received DEF HandleIncoming, ProjectionTypeOK, NumbersInv
<1>2. store' \in Statuses /\ lastApplied' \in Nat
  BY <1>1, ProjectedType DEF HandleIncoming, ProjectionTypeOK, Events
<1>3. SwitchTypes' /\ TaskTypes'
  BY TypeParts DEF HandleIncoming, reconcilerVars, SwitchTypes, TaskTypes
<1>4. ReconcilerTypes' /\ SubscriptionTypes'
  BY <1>1, <1>2, TypeParts DEF HandleIncoming, reconcilerVars, ReconcilerTypes,
     SubscriptionTypes
<1> QED
  BY <1>3, <1>4, TypeParts

LEMMA WindowTypes ==
  ASSUME ProjectionTypeOK, Initialize \/ Dispose \/ \E kind \in Kinds : Listen(kind)
  PROVE  ProjectionTypeOK'
<1> USE DEF subscriptionVars, shellVars
<1>1. SubscriptionTypes'
  <2>1. UNCHANGED << sending, wire, lastApplied >>
    BY DEF Initialize, Dispose, Listen
  <2>2. registered' \subseteq settled' /\ settled' \subseteq Kinds
    BY TypeParts DEF Initialize, Dispose, Listen, SubscriptionTypes
  <2>3. rejections' \in 0 .. MaxRejections
    BY TypeParts, ProjectionAssumption
    DEF Initialize, Dispose, Listen, Rejected, SubscriptionTypes
  <2> QED
    BY <2>1, <2>2, <2>3, TypeParts DEF SubscriptionTypes
<1>2. SwitchTypes'
  BY TypeParts, Zenon DEF Initialize, Dispose, Listen, reconcilerVars, SwitchTypes
<1>3. ReconcilerTypes'
  BY TypeParts, ProjectionAssumption
  DEF Initialize, Dispose, Listen, reconcilerVars, ReconcilerTypes
<1>4. TaskTypes'
  <2>1. CASE Initialize
    <3>1. generation' \in Nat /\ mounts' \in Mounts
      BY <2>1, TypeParts, ProjectionAssumption DEF Initialize, ReconcilerTypes, Mounts
    <3>2. [ at |-> "start", generation |-> generation', status |-> NoStatus ]
            \in [ at : TaskLabels, generation : Nat, status : Statuses ]
      BY <3>1, NothingType DEF TaskLabels
    <3> QED
      BY <2>1, <3>1, <3>2, TypeParts DEF Initialize, TaskTypes
  <2>2. CASE Dispose \/ \E kind \in Kinds : Listen(kind)
    BY <2>2, TypeParts DEF Dispose, Listen, reconcilerVars, TaskTypes
  <2> QED
    BY <2>1, <2>2
<1> QED
  BY <1>1, <1>2, <1>3, <1>4, TypeParts

LEMMA SequenceTypes ==
  ASSUME FeedTypeOK, ProjectionTypeOK, MountsInv, NEW m \in Mounts, SequenceStep(m)
  PROVE  ProjectionTypeOK'
<1>1. UNCHANGED << shellVars, subscriptionVars, connected, generation, mounts >>
  BY SequenceMoves
<1>2. SwitchTypes'
  BY <1>1, TypeParts DEF subscriptionVars, SwitchTypes
<1>3. rejections' \in 0 .. MaxRejections
  BY TypeParts, ProjectionAssumption
  DEF SequenceStep, StartResolves, ReadState, ReadSchedule, ReadTracker,
      ReadSequence, FetchFails, Answer, Rejected, SubscriptionTypes
<1>4. SubscriptionTypes'
  BY <1>1, <1>3, TypeParts DEF shellVars, subscriptionVars, SubscriptionTypes
<1>5. store' \in Statuses
  <2>1. store \in Statuses /\ task[m].status \in Statuses
    BY DEF ProjectionTypeOK
  <2> QED
    BY <2>1 DEF SequenceStep, StartResolves, ReadState, ReadSchedule,
       ReadTracker, ReadSequence, FetchFails, Answer, ReconcileSnapshot
<1>6. ReconcilerTypes'
  BY <1>1, <1>5, CurrentOnly, TypeParts DEF ReconcilerTypes
<1> QED
  BY <1>2, <1>4, <1>6, TaskStep, TypeParts

LEMMA TypeStep ==
  ASSUME FeedTypeOK, ProjectionTypeOK, MountsInv, NumbersInv, [ProjectionNext]_allVars
  PROVE  FeedTypeOK' /\ ProjectionTypeOK'
<1>1. CASE \E t \in Launches : ShellThread(t)
  BY <1>1, FeedStep, ShellTypes DEF ShellThread
<1>2. CASE \E t \in Launches : Emit(t)
  BY <1>2, FeedKept, ShellTypes DEF Emit
<1>3. CASE StabilityTimer \/ UNCHANGED allVars
  BY <1>3 DEF StabilityTimer, Refill, FeedTypeOK, ProjectionTypeOK, allVars,
     feedVars, frontVars, subscriptionVars, reconcilerVars
<1>4. CASE HandleIncoming
  BY <1>4, FeedKept, IncomingTypes DEF HandleIncoming
<1>5. CASE Initialize \/ Dispose \/ \E kind \in Kinds : Listen(kind)
  <2>1. UNCHANGED feedVars
    BY <1>5 DEF Initialize, Dispose, Listen, shellVars
  <2> QED
    BY <1>5, <2>1, FeedKept, WindowTypes
<1>6. CASE \E m \in Mounts : SequenceStep(m)
  <2>1. UNCHANGED feedVars
    BY <1>6, SequenceMoves DEF shellVars
  <2> QED
    BY <1>6, <2>1, FeedKept, SequenceTypes
<1> QED
  BY <1>1, <1>2, <1>3, <1>4, <1>5, <1>6 DEF ProjectionNext

-----------------------------------------------------------------------------
(***************************************************************************)
(* Numbers                                                                 *)
(***************************************************************************)

(* What neither numbers, sends nor handles an event keeps them.              *)
LEMMA NumbersKept ==
  ASSUME NumbersInv, UNCHANGED << event, sending, wire, lastApplied >>
  PROVE  NumbersInv'
BY DEF NumbersInv, Sending

LEMMA ShellNumbers ==
  ASSUME FeedTypeOK, ProjectionTypeOK, NumbersInv, NEW t \in Launches, ShellThread(t)
  PROVE  NumbersInv'
<1> USE DEF Sending
<1>1. UNCHANGED << wire, lastApplied >> /\ sending[t] = NoEvent
  BY DEF ShellThread, subscriptionVars
<1>2. CASE event' = event
  <2>1. sending' = sending
    BY <1>2 DEF ShellThread, ProjectionTypeOK
  <2> QED
    BY <1>1, <1>2, <2>1, NumbersKept
<1>3. CASE event' # event
  <2>1. event' \in Events /\ event'.kind \in Kinds /\ event'.seq = event.seq + 1
    BY <1>3, FeedStep DEF ShellThread, Numbered
  <2>2. /\ sending'[t] = event' /\ \A u \in Launches : u # t => sending'[u] = sending[u]
    BY <1>3 DEF ShellThread, ProjectionTypeOK
  <2>3. event.seq \in Nat /\ lastApplied \in Nat
    BY DEF FeedTypeOK, Events, ProjectionTypeOK
  <2>4. lastApplied' < event'.seq /\ lastApplied' <= event'.seq
    BY <1>1, <2>1, <2>3 DEF NumbersInv
  <2>5. \A i \in 1 .. Len(wire') :
          /\ wire'[i].kind \in Kinds /\ wire'[i].seq \in 1 .. event'.seq
          /\ wire'[i].seq # event'.seq
    BY <1>1, <2>1, <2>3 DEF NumbersInv
  <2>6. \A u \in Launches : Sending(u)' =>
          /\ sending'[u].kind \in Kinds /\ sending'[u].seq \in 1 .. event'.seq
          /\ sending'[u].seq = event'.seq => u = t
    BY <2>1, <2>2, <2>3 DEF NumbersInv
  <2> QED
    BY <2>2, <2>4, <2>5, <2>6 DEF NumbersInv
<1> QED
  BY <1>2, <1>3

LEMMA EmitNumbers ==
  ASSUME FeedTypeOK, ProjectionTypeOK, NumbersInv, NEW t \in Launches, Emit(t)
  PROVE  NumbersInv'
<1> USE DEF Sending
<1>1. /\ UNCHANGED << event, lastApplied >> /\ Sending(t)
      /\ sending'[t] = NoEvent /\ \A u \in Launches : u # t => sending'[u] = sending[u]
  BY DEF Emit, feedVars, subscriptionVars, ProjectionTypeOK
<1>2. CASE wire' = wire
  BY <1>1, <1>2 DEF NumbersInv
<1>3. CASE wire' = Append(wire, sending[t])
  <2>1. sending[t] \in Events /\ wire \in Seq(Events)
    BY DEF ProjectionTypeOK
  <2>2. /\ Len(wire') = Len(wire) + 1 /\ Len(wire) \in Nat
        /\ \A i \in 1 .. Len(wire) : wire'[i] = wire[i]
        /\ wire'[Len(wire) + 1] = sending[t]
    BY <1>3, <2>1, Sent
  <2>3. \A i \in 1 .. Len(wire') : i \in 1 .. Len(wire) \/ i = Len(wire) + 1
    BY <2>2
  <2>4. \A i \in 1 .. Len(wire') :
          wire'[i].kind \in Kinds /\ wire'[i].seq \in 1 .. event.seq
    BY <1>1, <2>2, <2>3 DEF NumbersInv
  <2>5. \A u \in Launches : Sending(u)' /\ sending'[u].seq = event.seq =>
          /\ sending'[u] = event /\ lastApplied < event.seq
          /\ \A v \in Launches : Sending(v)' /\ sending'[v].seq = event.seq => v = u
          /\ \A i \in 1 .. Len(wire') : wire'[i].seq # event.seq
    BY <1>1, <2>2, <2>3 DEF NumbersInv
  <2>6. \A i \in 1 .. Len(wire') : wire'[i].seq = event.seq =>
          /\ wire'[i] = event /\ lastApplied < event.seq
          /\ \A j \in 1 .. Len(wire') : wire'[j].seq = event.seq => j = i
    BY <1>1, <2>2, <2>3 DEF NumbersInv
  <2>7. /\ lastApplied <= event.seq
        /\ \A u \in Launches : Sending(u)' =>
              sending'[u].kind \in Kinds /\ sending'[u].seq \in 1 .. event.seq
    BY <1>1 DEF NumbersInv
  <2> QED
    BY <1>1, <2>4, <2>5, <2>6, <2>7 DEF NumbersInv
<1> QED
  BY <1>2, <1>3 DEF Emit

LEMMA IncomingNumbers ==
  ASSUME FeedTypeOK, ProjectionTypeOK, NumbersInv, HandleIncoming
  PROVE  NumbersInv'
<1> USE DEF Sending
<1>1. /\ Len(wire') = Len(wire) - 1 /\ Len(wire) \in Nat \ {0}
      /\ Head(wire) = wire[1]
      /\ \A i \in 1 .. Len(wire') : i + 1 \in 1 .. Len(wire) /\ wire'[i] = wire[i + 1]
  BY Received DEF HandleIncoming, ProjectionTypeOK
<1>2. /\ UNCHANGED << event, sending >>
      /\ lastApplied' = lastApplied \/ lastApplied' = wire[1].seq
  BY <1>1 DEF HandleIncoming, feedVars
<1>3. /\ wire[1].seq \in 1 .. event.seq /\ lastApplied <= event.seq
      /\ lastApplied \in Nat /\ event.seq \in Nat /\ 1 \in 1 .. Len(wire)
  BY <1>1 DEF NumbersInv, ProjectionTypeOK, FeedTypeOK, Events
<1>4. \A i \in 1 .. Len(wire') :
        wire'[i].kind \in Kinds /\ wire'[i].seq \in 1 .. event.seq
  BY <1>1 DEF NumbersInv
<1>5. \A i \in 1 .. Len(wire') : wire'[i].seq = event.seq =>
        /\ wire'[i] = event /\ lastApplied' < event.seq
        /\ \A j \in 1 .. Len(wire') : wire'[j].seq = event.seq => j = i
  <2> SUFFICES ASSUME NEW i \in 1 .. Len(wire'), wire'[i].seq = event.seq
               PROVE  /\ wire'[i] = event /\ lastApplied' < event.seq
                      /\ \A j \in 1 .. Len(wire') : wire'[j].seq = event.seq => j = i
    OBVIOUS
  <2>1. i + 1 \in 1 .. Len(wire) /\ wire[i + 1] = wire'[i] /\ i + 1 # 1
    BY <1>1
  <2>2. /\ wire[i + 1] = event /\ lastApplied < event.seq
        /\ \A j \in 1 .. Len(wire) : wire[j].seq = event.seq => j = i + 1
    BY <2>1 DEF NumbersInv
  <2>3. wire[1].seq # event.seq
    BY <1>3, <2>1, <2>2
  <2>4. lastApplied' < event.seq
    BY <1>2, <1>3, <2>2, <2>3
  <2>5. \A j \in 1 .. Len(wire') : wire'[j].seq = event.seq => j = i
    BY <1>1, <2>2
  <2> QED
    BY <2>1, <2>2, <2>4, <2>5
<1>6. \A u \in Launches : Sending(u) /\ sending[u].seq = event.seq =>
        /\ sending[u] = event /\ lastApplied' < event.seq
        /\ \A v \in Launches : Sending(v) /\ sending[v].seq = event.seq => v = u
        /\ \A i \in 1 .. Len(wire') : wire'[i].seq # event.seq
  BY <1>1, <1>2, <1>3 DEF NumbersInv
<1>7. /\ lastApplied' <= event.seq
      /\ \A u \in Launches : Sending(u) =>
            sending[u].kind \in Kinds /\ sending[u].seq \in 1 .. event.seq
  BY <1>2, <1>3 DEF NumbersInv
<1> QED
  BY <1>2, <1>4, <1>5, <1>6, <1>7 DEF NumbersInv

LEMMA NumbersStep ==
  ASSUME FeedTypeOK, ProjectionTypeOK, MountsInv, NumbersInv, [ProjectionNext]_allVars
  PROVE  NumbersInv'
<1> USE DEF shellVars, feedVars, subscriptionVars
<1>1. CASE \E t \in Launches : ShellThread(t) \/ Emit(t)
  BY <1>1, ShellNumbers, EmitNumbers
<1>2. CASE StabilityTimer
  BY <1>2, NumbersKept DEF StabilityTimer, Refill, frontVars
<1>3. CASE HandleIncoming
  BY <1>3, IncomingNumbers
<1>4. CASE Initialize \/ Dispose \/ \E kind \in Kinds : Listen(kind)
  BY <1>4, NumbersKept DEF Initialize, Dispose, Listen
<1>5. CASE \E m \in Mounts : SequenceStep(m)
  BY <1>5, SequenceMoves, NumbersKept
<1>6. CASE UNCHANGED allVars
  BY <1>6, NumbersKept DEF allVars, frontVars
<1> QED
  BY <1>1, <1>2, <1>3, <1>4, <1>5, <1>6 DEF ProjectionNext

-----------------------------------------------------------------------------
(***************************************************************************)
(* Nothing escapes                                                         *)
(***************************************************************************)

LEMMA EscapeKept ==
  ASSUME EscapeInv,
         UNCHANGED << event, sending, wire, lastApplied, store, registered,
                      connected, mounts, task >>
  PROVE  EscapeInv'
BY DEF EscapeInv, Snapshot, Sending

LEMMA ShellEscape ==
  ASSUME FeedTypeOK, ProjectionTypeOK, EscapeInv, NEW t \in Launches, ShellThread(t)
  PROVE  EscapeInv'
<1>1. UNCHANGED << wire, lastApplied, store, registered, connected, mounts, task >>
  BY DEF ShellThread, subscriptionVars, reconcilerVars
<1>2. CASE event' = event
  <2>1. sending' = sending
    BY <1>2 DEF ShellThread, ProjectionTypeOK
  <2> QED
    BY <1>1, <1>2, <2>1, EscapeKept
<1>3. CASE event' # event
  <2>1. event'.seq = event.seq + 1 /\ event.seq \in Nat
    BY <1>3, FeedStep DEF ShellThread, Numbered, FeedTypeOK, Events
  <2>2. sending'[t] = event' /\ event' # NoEvent
    BY <1>3, <2>1 DEF ShellThread, ProjectionTypeOK, NoEvent
  <2> QED
    BY <2>2 DEF EscapeInv, Sending
<1> QED
  BY <1>2, <1>3

(* With every handler in place an emitted event is on the wire.              *)
LEMMA EmitEscape ==
  ASSUME ProjectionTypeOK, NumbersInv, EscapeInv, NEW t \in Launches, Emit(t)
  PROVE  EscapeInv'
<1> USE DEF Sending
<1>1. /\ UNCHANGED << event, lastApplied, store, registered, connected, mounts, task >>
      /\ Sending(t) /\ \A u \in Launches : u # t => sending'[u] = sending[u]
  BY DEF Emit, feedVars, subscriptionVars, reconcilerVars, ProjectionTypeOK
<1>2. sending[t] \in Events /\ sending[t].kind \in Kinds /\ wire \in Seq(Events)
  BY <1>1 DEF ProjectionTypeOK, NumbersInv
<1>3. /\ \A i \in 1 .. Len(wire) : i \in 1 .. Len(wire') /\ wire'[i] = wire[i]
      /\ sending[t].kind \in registered
           => \E i \in 1 .. Len(wire') : wire'[i] = sending[t]
  <2>1. CASE wire' = Append(wire, sending[t])
    BY <1>2, <2>1, Sent
  <2>2. CASE wire' = wire /\ sending[t].kind \notin registered
    BY <2>2
  <2> QED
    BY <2>1, <2>2 DEF Emit
<1>4. SUFFICES ASSUME Snapshot
               PROVE  \/ task[mounts].status.sequence >= event.seq
                      \/ \E u \in Launches : Sending(u)' /\ sending'[u] = event
                      \/ \E i \in 1 .. Len(wire') : wire'[i] = event
                      \/ /\ lastApplied = event.seq
                         /\ event.kind = "state_changed" => store.sequence = event.seq
  BY <1>1 DEF EscapeInv, Snapshot
<1>5. CASE \E u \in Launches : Sending(u) /\ sending[u] = event
  <2>1. PICK u \in Launches : Sending(u) /\ sending[u] = event
    BY <1>5
  <2>2. CASE u = t
    BY <1>2, <1>3, <1>4, <2>1, <2>2 DEF Snapshot
  <2>3. CASE u # t
    BY <1>1, <2>1, <2>3
  <2> QED
    BY <2>2, <2>3
<1>6. CASE \E i \in 1 .. Len(wire) : wire[i] = event
  BY <1>3, <1>6
<1> QED
  BY <1>4, <1>5, <1>6 DEF EscapeInv

(* The latest event is never behind the number the window has passed.        *)
LEMMA IncomingEscape ==
  ASSUME FeedTypeOK, ProjectionTypeOK, NumbersInv, EscapeInv, HandleIncoming
  PROVE  EscapeInv'
<1>1. /\ Len(wire) \in Nat \ {0} /\ Head(wire) = wire[1] /\ 1 \in 1 .. Len(wire)
      /\ \A i \in 1 .. Len(wire) :
           i # 1 => i - 1 \in 1 .. Len(wire') /\ wire'[i - 1] = wire[i]
  BY Received DEF HandleIncoming, ProjectionTypeOK
<1>2. UNCHANGED << event, sending, registered, connected, mounts, task >>
  BY DEF HandleIncoming, feedVars, reconcilerVars
<1>3. /\ wire[1].seq \in 1 .. event.seq /\ lastApplied \in Nat /\ event.seq \in Nat
      /\ store \in Statuses
  BY <1>1 DEF NumbersInv, ProjectionTypeOK, FeedTypeOK, Events
<1>4. SUFFICES ASSUME Snapshot
               PROVE  \/ task[mounts].status.sequence >= event.seq
                      \/ \E u \in Launches : Sending(u) /\ sending[u] = event
                      \/ \E i \in 1 .. Len(wire') : wire'[i] = event
                      \/ /\ lastApplied' = event.seq
                         /\ event.kind = "state_changed" => store'.sequence = event.seq
  BY <1>2 DEF EscapeInv, Snapshot, Sending
<1>5. CASE \E i \in 1 .. Len(wire) : wire[i] = event
  <2>1. PICK i \in 1 .. Len(wire) : wire[i] = event
    BY <1>5
  <2>2. CASE i = 1
    <3>1. wire[1] = event /\ lastApplied < event.seq
      BY <2>1, <2>2 DEF NumbersInv
    <3>2. lastApplied' = event.seq /\ store' = ProjectSidecarEvent(store, event)
      BY <1>1, <1>3, <1>4, <3>1 DEF HandleIncoming, Snapshot
    <3>3. event.kind = "state_changed" => store'.sequence = event.seq
      BY <1>3, <3>2 DEF ProjectSidecarEvent, Statuses
    <3> QED
      BY <3>2, <3>3
  <2>3. CASE i # 1
    BY <1>1, <2>1, <2>3
  <2> QED
    BY <2>2, <2>3
<1>6. CASE /\ lastApplied = event.seq
           /\ event.kind = "state_changed" => store.sequence = event.seq
  <2>1. wire[1].seq <= lastApplied
    BY <1>3, <1>6
  <2>2. UNCHANGED << lastApplied, store >>
    BY <1>1, <2>1 DEF HandleIncoming
  <2> QED
    BY <1>6, <2>2
<1> QED
  BY <1>4, <1>5, <1>6 DEF EscapeInv

(* Once the snapshot is in hand, every listen() call has settled; a mount    *)
(* that begins or ends has none.                                             *)
LEMMA WindowEscape ==
  ASSUME ProjectionTypeOK, MountsInv,
         Initialize \/ Dispose \/ \E kind \in Kinds : Listen(kind)
  PROVE  EscapeInv'
<1>1. CASE Initialize
  <2>1. mounts' \in Mounts
    BY <1>1, ProjectionAssumption DEF Initialize, ProjectionTypeOK, Mounts
  <2>2. task'[mounts'].at = "start"
    BY <1>1, <2>1 DEF Initialize, ProjectionTypeOK
  <2> QED
    BY <2>2 DEF EscapeInv, Snapshot
<1>2. CASE Dispose
  BY <1>2 DEF Dispose, EscapeInv, Snapshot
<1>3. CASE \E kind \in Kinds : Listen(kind)
  <2>1. UNCHANGED << mounts, task >> /\ settled # Kinds
    BY <1>3 DEF Listen, reconcilerVars
  <2>2. \A m \in Mounts : task[m].at \notin { "answer", "done" }
    BY <2>1 DEF MountsInv
  <2> QED
    BY <2>1, <2>2 DEF EscapeInv, Snapshot
<1> QED
  BY <1>1, <1>2, <1>3

(* A snapshot in hand covers every event numbered before its last read, and  *)
(* the store keeps the higher of the two numbers.                            *)
LEMMA SequenceEscape ==
  ASSUME FeedTypeOK, ProjectionTypeOK, MountsInv, EscapeInv,
         NEW m \in Mounts, SequenceStep(m)
  PROVE  EscapeInv'
<1>1. /\ UNCHANGED << event, sending, wire, registered, lastApplied, connected, mounts >>
      /\ mounts \in Mounts /\ \A n \in Mounts : n # m => task'[n] = task[n]
  BY SequenceMoves DEF shellVars, feedVars, subscriptionVars
<1>2. CASE m # mounts
  <2>1. store' = store
    BY <1>2, CurrentOnly
  <2> QED
    BY <1>1, <1>2, <2>1 DEF EscapeInv, Snapshot, Sending
<1>3. CASE m = mounts /\ ~Answer(m)
  <2>1. CASE ReadSequence(m)
    <3>1. task'[m].status = [ task[m].status EXCEPT !.sequence = event.seq ]
      BY <2>1 DEF ReadSequence, ProjectionTypeOK
    <3>2. task'[m].status.sequence = event.seq
      BY <3>1 DEF ProjectionTypeOK, Statuses
    <3> QED
      BY <1>1, <1>3, <3>2 DEF EscapeInv, Snapshot, FeedTypeOK, Events
  <2>2. CASE ~ReadSequence(m)
    <3>1. task'[m].at \notin { "answer", "done" }
      BY <1>3, <2>2 DEF SequenceStep, StartResolves, ReadState, ReadSchedule,
         ReadTracker, FetchFails, TaskGoto, ProjectionTypeOK
    <3> QED
      BY <1>1, <1>3, <3>1 DEF EscapeInv, Snapshot
  <2> QED
    BY <2>1, <2>2
<1>4. CASE m = mounts /\ Answer(m)
  <2> DEFINE status == task[m].status
  <2>1. /\ task[m].at = "answer" /\ status \in Statuses
        /\ status.sequence \in Nat /\ store \in Statuses /\ store.sequence \in Nat
        /\ event.seq \in Nat
    BY <1>4 DEF Answer, Over, ProjectionTypeOK, Statuses, FeedTypeOK, Events
  <2>2. task'[m].status.sequence = status.sequence
    BY <1>4, NothingType DEF Answer, Over, ProjectionTypeOK, Statuses
  <2>3. store' = store \/ store' = ReconcileSnapshot(store, status)
    BY <1>4 DEF Answer
  <2>4. store'.sequence = store.sequence \/ store.sequence <= status.sequence
    BY <2>1, <2>3 DEF ReconcileSnapshot, NoStatus
  <2>5. Snapshot' => Snapshot
    BY <1>1, <1>4, <2>1 DEF Snapshot
  <2>6. SUFFICES ASSUME Snapshot
                 PROVE  \/ status.sequence >= event.seq
                        \/ \E u \in Launches : Sending(u) /\ sending[u] = event
                        \/ \E i \in 1 .. Len(wire) : wire[i] = event
                        \/ /\ lastApplied = event.seq
                           /\ event.kind = "state_changed" => store'.sequence = event.seq
    BY <1>1, <1>4, <2>2, <2>5 DEF EscapeInv, Sending
  <2> QED
    BY <1>4, <2>1, <2>4, <2>6 DEF EscapeInv
<1> QED
  BY <1>2, <1>3, <1>4

LEMMA EscapeStep ==
  ASSUME FeedTypeOK, ProjectionTypeOK, MountsInv, NumbersInv, EscapeInv,
         [ProjectionNext]_allVars
  PROVE  EscapeInv'
<1>1. CASE \E t \in Launches : ShellThread(t) \/ Emit(t)
  BY <1>1, ShellEscape, EmitEscape
<1>2. CASE StabilityTimer \/ UNCHANGED allVars
  BY <1>2, EscapeKept DEF StabilityTimer, Refill, allVars, feedVars, frontVars,
     subscriptionVars, reconcilerVars
<1>3. CASE HandleIncoming
  BY <1>3, IncomingEscape
<1>4. CASE Initialize \/ Dispose \/ \E kind \in Kinds : Listen(kind)
  BY <1>4, WindowEscape
<1>5. CASE \E m \in Mounts : SequenceStep(m)
  BY <1>5, SequenceEscape
<1> QED
  BY <1>1, <1>2, <1>3, <1>4, <1>5 DEF ProjectionNext

-----------------------------------------------------------------------------
(***************************************************************************)
(* The theorems                                                            *)
(***************************************************************************)

LEMMA ProjectionStarts == ProjectionInit => ProjectionInv
<1> SUFFICES ASSUME ProjectionInit PROVE ProjectionInv
  OBVIOUS
<1> USE DEF ProjectionInit, FeedInit
<1>1. FeedTypeOK
  <2>1. pending \in BOOLEAN
    BY Zenon
  <2> QED
    BY <2>1 DEF FeedTypeOK, LifecycleStates, Events, FeedLabels
<1>2. TaskTypes
  <2>1. [ at |-> "unborn", generation |-> 0, status |-> NoStatus ]
          \in [ at : TaskLabels, generation : Nat, status : Statuses ]
    BY NothingType DEF TaskLabels
  <2> QED
    BY <2>1 DEF TaskTypes
<1>3. SubscriptionTypes
  BY NothingType, ProjectionAssumption DEF SubscriptionTypes
<1>4. SwitchTypes
  BY Zenon DEF SwitchTypes
<1>5. ReconcilerTypes
  BY NothingType, ProjectionAssumption DEF ReconcilerTypes
<1>6. ProjectionTypeOK
  BY <1>2, <1>3, <1>4, <1>5, TypeParts
<1>7. MountsInv
  BY DEF MountsInv, Mounts
<1>8. NumbersInv /\ EscapeInv
  BY DEF NumbersInv, EscapeInv, Snapshot, Sending
<1> QED
  BY <1>1, <1>6, <1>7, <1>8 DEF ProjectionInv

LEMMA ProjectionInvariant == ProjectionSpec => []ProjectionInv
<1>1. ProjectionInv /\ [ProjectionNext]_allVars => ProjectionInv'
  BY TypeStep, MountsStep, NumbersStep, EscapeStep DEF ProjectionInv
<1> QED
  BY <1>1, ProjectionStarts, PTL DEF ProjectionSpec

(* The classes of shared/sidecar hold what they are declared to hold, and a  *)
(* handler is in place only once its listen() has settled: however often the *)
(* window mounts and whatever the shell's threads emit meanwhile             *)
(* (eventSubscription.ts, SidecarSnapshotReconciler).                        *)
THEOREM ProjectionTypes == ProjectionSpec => []ProjectionTypeOK
<1>1. ProjectionInv => ProjectionTypeOK
  BY DEF ProjectionInv
<1> QED
  BY <1>1, ProjectionInvariant, PTL

(* No event the shell numbers escapes both ways into an initialized window:  *)
(* it is in the snapshot get_sidecar_status answered, or it was accepted by  *)
(* a handler of start(), which initialize() awaits before it fetches.        *)
THEOREM NothingEscapes == ProjectionSpec => []NoEventEscapes
<1>1. ProjectionInv => NoEventEscapes
  <2> SUFFICES ASSUME ProjectionInv, UpToDate
               PROVE  \/ store.sequence = event.seq
                      \/ task[mounts].status.sequence >= event.seq
                      \/ event.kind # "state_changed" /\ lastApplied = event.seq
    BY DEF NoEventEscapes
  <2>1. connected /\ mounts \in Mounts
    BY ProjectionAssumption
    DEF ProjectionInv, MountsInv, UpToDate, ProjectionTypeOK, Mounts
  <2>2. Len(wire) = 0 /\ \A t \in Launches : ~Sending(t)
    BY DEF UpToDate, AllDelivered, Sending
  <2>3. EscapeInv
    BY DEF ProjectionInv
  <2> QED
    BY <2>1, <2>2, <2>3 DEF EscapeInv, Snapshot, UpToDate
<1> QED
  BY <1>1, ProjectionInvariant, PTL

(* Between dispose() and the next initialize() the store is left alone: an   *)
(* event finds the connector inactive, and the answer to an earlier mount's  *)
(* request finds another generation (snapshotReconciliation.ts).             *)
THEOREM SilentWhenDisposed == ProjectionSpec => SilentWhileDisposed
<1>1. ASSUME ProjectionInv, [ProjectionNext]_allVars, ~connected
      PROVE  UNCHANGED store
  <2>1. CASE \E m \in Mounts : SequenceStep(m)
    BY <1>1, <2>1, CurrentOnly DEF ProjectionInv
  <2>2. CASE HandleIncoming
    BY <1>1, <2>2 DEF HandleIncoming
  <2>3. CASE \E t \in Launches : ShellThread(t) \/ Emit(t)
    BY <2>3 DEF ShellThread, Emit
  <2>4. CASE Initialize \/ Dispose \/ \E kind \in Kinds : Listen(kind)
    BY <2>4 DEF Initialize, Dispose, Listen
  <2>5. CASE StabilityTimer \/ UNCHANGED allVars
    BY <2>5 DEF StabilityTimer, allVars, frontVars
  <2> QED
    BY <1>1, <2>1, <2>2, <2>3, <2>4, <2>5 DEF ProjectionNext
<1>2. ProjectionInv /\ [ProjectionNext]_allVars
        => [ ~connected /\ ~connected' => UNCHANGED store ]_allVars
  BY <1>1
<1> QED
  BY <1>2, ProjectionInvariant, PTL DEF ProjectionSpec, SilentWhileDisposed
=============================================================================
