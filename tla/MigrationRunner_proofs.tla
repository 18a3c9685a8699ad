----------------------- MODULE MigrationRunner_proofs -----------------------
(***************************************************************************)
(* Proofs about MigrationRunner, for every set of runners, every set of    *)
(* migrations of any lengths, and every mix of builds.                     *)
(***************************************************************************)
EXTENDS MigrationRunner, TLAPS

-----------------------------------------------------------------------------
(***************************************************************************)
(* Types                                                                   *)
(***************************************************************************)

(* Version numbers are numbers. *)
LEMMA VersionsAreNumbers == \A v \in Versions \cup {0} : v \in Nat
BY MigrationAssumption

(* What History!Whole builds is a database. *)
LEMMA WholeIsDatabase ==
  \A v \in Versions \cup {0} : History!Whole(v) \in Databases
BY MigrationAssumption DEF History!Whole, Databases

LEMMA TypeInit == Init => TypeOK
BY WholeIsDatabase, MigrationAssumption DEF Init, TypeOK, Labels, Stopped

(* The actions that only move the program counter, or read a version. *)
LEMMA ControlTypes ==
  ASSUME TypeOK, NEW r \in Runners,
         \/ Call(r) \/ Precheck(r) \/ Begin(r) \/ BeginTimesOut(r)
         \/ Fails(r) \/ Crash(r)
  PROVE  TypeOK'
<1> USE MigrationAssumption DEF TypeOK, Labels, Stopped, InTransaction
<1>1. CASE Call(r)
  BY <1>1 DEF Call, Goto
<1>2. CASE Precheck(r)
  BY <1>2 DEF Precheck, At, Goto, Return, Databases
<1>3. CASE Begin(r)
  BY <1>3 DEF Begin, At, Goto
<1>4. CASE BeginTimesOut(r)
  BY <1>4 DEF BeginTimesOut, At, Goto
<1>5. CASE Fails(r)
  BY <1>5 DEF Fails, SomethingFails, Goto
<1>6. CASE Crash(r)
  BY <1>6 DEF Crash, SomethingFails, Goto
<1> QED
  BY <1>1, <1>2, <1>3, <1>4, <1>5, <1>6

LEMMA RereadTypes ==
  ASSUME TypeOK, NEW r \in Runners, Reread(r)
  PROVE  TypeOK'
<1> USE MigrationAssumption DEF TypeOK, Labels, Stopped, InTransaction
<1>1. work.version \in Versions \cup {0} /\ UNCHANGED << disk, work, faults >>
  BY DEF Reread, Databases
<1>2. CASE Refuse(r, work.version)
  BY <1>1, <1>2 DEF Refuse, Goto
<1>3. CASE Done(r, work.version)
  BY <1>1, <1>3 DEF Done, Goto, Return
<1>4. CASE Choose(r, work.version)
  <2>1. PICK m \in Versions :
          /\ target' = [ target EXCEPT ![r] = m ]
          /\ step' = [ step EXCEPT ![r] = 0 ]
          /\ at' = [ at EXCEPT ![r] = "execute" ]
          /\ UNCHANGED result
    BY <1>4 DEF Choose, Goto
  <2>2. Statements[m] \in Nat
    OBVIOUS
  <2> QED
    BY <1>1, <2>1, <2>2
<1> QED
  BY <1>2, <1>3, <1>4 DEF Reread

LEMMA TransactionTypes ==
  ASSUME TypeOK, NEW r \in Runners,
         Execute(r) \/ Executed(r) \/ SetVersion(r) \/ Commit(r)
  PROVE  TypeOK'
<1> USE MigrationAssumption DEF TypeOK, Labels, Stopped, InTransaction
<1>1. CASE Execute(r)
  <2>1. target[r] \in Versions /\ Statements[target[r]] \in Nat /\ step[r] \in Nat
    BY <1>1 DEF Execute, At
  <2>2. work' \in Databases
    BY <1>1, <2>1 DEF Execute, Databases
  <2>3. step' \in [ Runners -> Nat ] /\ step'[r] <= Statements[target[r]]
    BY <1>1, <2>1 DEF Execute
  <2> QED
    BY <1>1, <2>2, <2>3 DEF Execute
<1>2. CASE Executed(r)
  BY <1>2 DEF Executed, At, Goto
<1>3. CASE SetVersion(r)
  <2>1. work' \in Databases
    BY <1>3 DEF SetVersion, At, Databases
  <2> QED
    BY <1>3, <2>1 DEF SetVersion, At, Goto
<1>4. CASE Commit(r)
  BY <1>4 DEF Commit, At, Goto, Return
<1> QED
  BY <1>1, <1>2, <1>3, <1>4

LEMMA TypeStep == TypeOK /\ [Next]_vars => TypeOK'
<1> SUFFICES ASSUME TypeOK, [Next]_vars PROVE TypeOK'
  OBVIOUS
<1>1. CASE Next
  BY <1>1, ControlTypes, RereadTypes, TransactionTypes DEF Next, Run
<1>2. CASE UNCHANGED vars
  BY <1>2 DEF vars, TypeOK
<1> QED
  BY <1>1, <1>2

(* Every variable of migration_runner.py keeps its type, and no runner ever  *)
(* executes more statements than its migration has.                          *)
THEOREM MigrationTypeCorrect == Spec => []TypeOK
<1> QED
  BY TypeInit, TypeStep, PTL DEF Spec

-----------------------------------------------------------------------------
(***************************************************************************)
(* The write lock                                                          *)
(***************************************************************************)

(* A runner enters a transaction only when nobody is in one. *)
LEMMA EntersAlone ==
  ASSUME TypeOK, OneWriter, NEW r \in Runners, NEW l \in Labels,
         at' = [ at EXCEPT ![r] = l ],
         l \in InTransaction => at[r] \in InTransaction \/ WriteLockFree
  PROVE  OneWriter'
BY DEF TypeOK, OneWriter, WriteLockFree

LEMMA OneWriterStep == TypeOK /\ OneWriter /\ [Next]_vars => OneWriter'
<1> SUFFICES ASSUME TypeOK, OneWriter, [Next]_vars PROVE OneWriter'
  OBVIOUS
<1>1. CASE UNCHANGED vars
  BY <1>1 DEF vars, OneWriter
<1>2. ASSUME NEW r \in Runners, Call(r) \/ Run(r) \/ Fails(r) \/ Crash(r)
      PROVE  OneWriter'
  <2> USE DEF Labels, InTransaction, Stopped
  <2>1. CASE Call(r) \/ Precheck(r) \/ BeginTimesOut(r) \/ Commit(r)
             \/ Fails(r) \/ Crash(r)
    <3>1. \E l \in Labels \ InTransaction : at' = [ at EXCEPT ![r] = l ]
      BY <2>1 DEF Call, Precheck, BeginTimesOut, Commit, Fails, Crash, Goto
    <3> QED
      BY <3>1, EntersAlone
  <2>2. CASE Begin(r)
    BY <2>2, EntersAlone DEF Begin, Goto
  <2>3. CASE Reread(r)
    <3>1. /\ at[r] \in InTransaction
          /\ \E l \in Labels : at' = [ at EXCEPT ![r] = l ]
      BY <2>3 DEF Reread, At, Refuse, Done, Choose, Goto
    <3> QED
      BY <3>1, EntersAlone
  <2>4. CASE Execute(r)
    BY <2>4 DEF Execute, OneWriter
  <2>5. CASE Executed(r) \/ SetVersion(r)
    <3>1. /\ at[r] \in InTransaction
          /\ \E l \in Labels : at' = [ at EXCEPT ![r] = l ]
      BY <2>5 DEF Executed, SetVersion, At, Goto
    <3> QED
      BY <3>1, EntersAlone
  <2> QED
    BY <1>2, <2>1, <2>2, <2>3, <2>4, <2>5 DEF Run
<1> QED
  BY <1>1, <1>2 DEF Next

-----------------------------------------------------------------------------
(***************************************************************************)
(* The open transaction and the committed database                         *)
(***************************************************************************)

(* A transaction that is about to commit holds exactly the next version. *)
LEMMA CommitsNextVersion ==
  ASSUME TypeOK, MigrationInv, NEW r \in Runners, at[r] = "commit"
  PROVE  /\ target[r] \in Versions
         /\ History!Follows(target[r], disk.version)
         /\ work = History!Whole(target[r])
<1> DEFINE t == target[r]
           v == disk.version
<1>1. /\ t \in Versions /\ History!Follows(t, v)
      /\ work.version = t
      /\ work.effects = [ disk.effects EXCEPT ![t] = Statements[t] ]
  BY DEF MigrationInv, TransactionInv, Known
<1>2. disk.effects = [ m \in Versions |-> IF m <= v THEN Statements[m] ELSE 0 ]
  BY DEF MigrationInv, SchemaWhole, History!Whole
<1>3. v \in Nat /\ t \in Nat /\ t > v
  <2>1. v \in Versions \cup {0}
    BY DEF TypeOK, Databases
  <2>2. t > v
    BY <1>1 DEF History!Follows
  <2> QED
    BY <1>1, <2>1, <2>2, VersionsAreNumbers
<1>4. ASSUME NEW m \in Versions, m # t
      PROVE  (m <= v) <=> (m <= t)
  <2>1. m \in Nat
    BY MigrationAssumption
  <2>2. m > v => t <= m
    BY <1>1 DEF History!Follows
  <2> QED
    BY <1>3, <1>4, <2>1, <2>2
<1>5. work.effects = [ m \in Versions |-> IF m <= t THEN Statements[m] ELSE 0 ]
  BY <1>1, <1>2, <1>3, <1>4
<1>6. work = [ version |-> work.version, effects |-> work.effects ]
  BY DEF TypeOK, Databases
<1> QED
  BY <1>1, <1>5, <1>6 DEF History!Whole

(* Nothing but a commit changes the database on disk, and it moves it to the *)
(* next version.                                                             *)
LEMMA DiskStep ==
  ASSUME TypeOK, MigrationInv, [Next]_vars
  PROVE  [History!Next]_disk
<1>1. CASE UNCHANGED vars
  BY <1>1 DEF vars
<1>2. ASSUME NEW r \in Runners, Commit(r)
      PROVE  History!Next
  BY <1>2, CommitsNextVersion DEF Commit, At, History!Next
<1>3. ASSUME NEW r \in Runners, Call(r) \/ Run(r) \/ Fails(r) \/ Crash(r),
             ~Commit(r)
      PROVE  UNCHANGED disk
  BY <1>3 DEF Call, Run, Precheck, Begin, BeginTimesOut, Reread, Execute,
     Executed, SetVersion, Fails, Crash
<1> QED
  BY <1>1, <1>2, <1>3 DEF Next

(* A runner that leaves its transaction, or was not in one, leaves the rest  *)
(* of the invariant as it was.                                               *)
LEMMA TransactionUntouched ==
  ASSUME TypeOK, TransactionInv, NEW r \in Runners,
         NEW l \in Labels \ InTransaction, at' = [ at EXCEPT ![r] = l ],
         UNCHANGED << disk, work, target, step >>
  PROVE  TransactionInv'
BY DEF TypeOK, TransactionInv, InTransaction, Known, History!Follows

(* A step of the runner in the transaction disturbs nobody else's part.      *)
LEMMA OthersAreOutside ==
  ASSUME OneWriter, NEW r \in Runners, at[r] \in InTransaction,
         NEW q \in Runners, q # r
  PROVE  at[q] \notin InTransaction
BY DEF OneWriter

LEMMA BeginTransaction ==
  ASSUME TypeOK, NEW r \in Runners, Begin(r)
  PROVE  TransactionInv'
<1>1. /\ work' = disk /\ disk' = disk
      /\ at' = [ at EXCEPT ![r] = "reread" ]
      /\ \A q \in Runners : at[q] \notin InTransaction
  BY DEF Begin, WriteLockFree, Goto
<1>2. \A q \in Runners : at'[q] = "reread" \/ at'[q] \notin InTransaction
  BY <1>1 DEF TypeOK
<1> QED
  BY <1>1, <1>2 DEF TransactionInv, InTransaction

LEMMA ChooseTransaction ==
  ASSUME TypeOK, MigrationInv, NEW r \in Runners, At(r, "reread"),
         Choose(r, work.version), UNCHANGED << disk, work >>
  PROVE  TransactionInv'
<1>1. PICK m \in Versions :
        /\ NextMigration(r, disk.version, m)
        /\ target' = [ target EXCEPT ![r] = m ]
        /\ step' = [ step EXCEPT ![r] = 0 ]
        /\ at' = [ at EXCEPT ![r] = "execute" ]
  BY DEF Choose, Goto, At, MigrationInv, TransactionInv
<1>2. work = disk
  BY DEF At, MigrationInv, TransactionInv
<1>3. m \in Known(r) /\ History!Follows(m, disk.version)
  <2>1. m \in Known(r) /\ m > disk.version /\ m <= Latest[r]
    BY <1>1 DEF NextMigration, Known
  <2>2. ASSUME NEW k \in Versions, k > disk.version
        PROVE  m <= k
    <3>1. m \in Nat /\ k \in Nat /\ Latest[r] \in Nat
      BY VersionsAreNumbers, MigrationAssumption
    <3>2. CASE k <= Latest[r]
      BY <1>1, <2>2, <3>2 DEF NextMigration, Known
    <3>3. CASE ~(k <= Latest[r])
      BY <2>1, <3>1, <3>3
    <3> QED
      BY <3>2, <3>3
  <2> QED
    BY <2>1, <2>2 DEF History!Follows
<1>4. disk.effects = [ disk.effects EXCEPT ![m] = 0 ]
  <2>1. disk.effects = [ k \in Versions |->
                           IF k <= disk.version THEN Statements[k] ELSE 0 ]
    BY DEF MigrationInv, SchemaWhole, History!Whole
  <2>2. ~(m <= disk.version)
    <3>1. disk.version \in Versions \cup {0}
      BY DEF TypeOK, Databases
    <3>2. m > disk.version
      BY <1>3 DEF History!Follows
    <3> QED
      BY <3>1, <3>2, VersionsAreNumbers
  <2> QED
    BY <2>1, <2>2
<1>5. \A q \in Runners : q # r => at'[q] \notin InTransaction
  BY <1>1, OthersAreOutside DEF At, MigrationInv, InTransaction, TypeOK
<1>6. /\ at'[r] = "execute" /\ target'[r] = m /\ step'[r] = 0
  BY <1>1 DEF TypeOK
<1> QED
  BY <1>2, <1>3, <1>4, <1>5, <1>6 DEF TransactionInv, InTransaction, Known,
     History!Follows

LEMMA ExecuteTransaction ==
  ASSUME TypeOK, MigrationInv, NEW r \in Runners, Execute(r)
  PROVE  TransactionInv'
<1> DEFINE t == target[r]
<1>1. /\ at[r] = "execute" /\ at' = at /\ target' = target /\ disk' = disk
      /\ work'  = [ work EXCEPT !.effects[t] = @ + 1 ]
      /\ step' = [ step EXCEPT ![r] = @ + 1 ]
  BY DEF Execute, At
<1>2. /\ t \in Known(r) /\ t \in Versions
      /\ History!Follows(t, disk.version)
      /\ work.effects = [ disk.effects EXCEPT ![t] = step[r] ]
  BY <1>1 DEF MigrationInv, TransactionInv, Known
<1>3. disk.effects \in [ Versions -> Nat ] /\ step'[r] = step[r] + 1
  BY <1>1 DEF TypeOK, Databases
<1>4. work'.effects = [ work.effects EXCEPT ![t] = work.effects[t] + 1 ]
  BY <1>1 DEF TypeOK, Databases
<1>5. work'.effects = [ disk.effects EXCEPT ![t] = step'[r] ]
  BY <1>2, <1>3, <1>4
<1>6. \A q \in Runners : q # r => at'[q] \notin InTransaction
  BY <1>1, OthersAreOutside DEF MigrationInv, InTransaction
<1> QED
  BY <1>1, <1>2, <1>5, <1>6 DEF TransactionInv, InTransaction, Known,
     History!Follows

LEMMA ExecutedTransaction ==
  ASSUME TypeOK, MigrationInv, NEW r \in Runners, Executed(r)
  PROVE  TransactionInv'
BY DEF Executed, At, Goto, TypeOK, MigrationInv, TransactionInv, Known,
   History!Follows

LEMMA SetVersionTransaction ==
  ASSUME TypeOK, MigrationInv, NEW r \in Runners, SetVersion(r)
  PROVE  TransactionInv'
<1>1. /\ at[r] = "record" /\ at' = [ at EXCEPT ![r] = "commit" ]
      /\ target' = target /\ disk' = disk /\ step' = step
      /\ work' = [ work EXCEPT !.version = target[r] ]
  BY DEF SetVersion, At, Goto
<1>2. work'.effects = work.effects /\ work'.version = target[r]
  BY <1>1 DEF TypeOK, Databases
<1>3. \A q \in Runners : q # r => at'[q] \notin InTransaction
  BY <1>1, OthersAreOutside DEF MigrationInv, InTransaction, TypeOK
<1>4. at'[r] = "commit"
  BY <1>1 DEF TypeOK
<1> QED
  BY <1>1, <1>2, <1>3, <1>4 DEF MigrationInv, TransactionInv, InTransaction,
     Known, History!Follows

LEMMA CommitTransaction ==
  ASSUME TypeOK, MigrationInv, NEW r \in Runners, Commit(r)
  PROVE  TransactionInv'
<1>1. at[r] = "commit" /\ at' = [ at EXCEPT ![r] = "begin" ]
  BY DEF Commit, At, Goto
<1>2. \A q \in Runners : at'[q] \notin InTransaction
  BY <1>1, OthersAreOutside DEF MigrationInv, InTransaction, TypeOK
<1> QED
  BY <1>2 DEF TransactionInv, InTransaction

LEMMA TransactionStep ==
  ASSUME TypeOK, MigrationInv, [Next]_vars
  PROVE  TransactionInv'
<1>1. CASE UNCHANGED vars
  BY <1>1 DEF vars, MigrationInv, TransactionInv, Known, History!Follows
<1>2. ASSUME NEW r \in Runners,
             Call(r) \/ Precheck(r) \/ BeginTimesOut(r) \/ Fails(r) \/ Crash(r)
      PROVE  TransactionInv'
  <2>1. /\ \E l \in Labels \ InTransaction : at' = [ at EXCEPT ![r] = l ]
        /\ UNCHANGED << disk, work, target, step >>
    BY <1>2 DEF Call, Precheck, BeginTimesOut, Fails, Crash, Goto, Labels,
       InTransaction, Stopped
  <2> QED
    BY <2>1, TransactionUntouched DEF MigrationInv
<1>3. ASSUME NEW r \in Runners, Reread(r) PROVE TransactionInv'
  <2>1. CASE Choose(r, work.version)
    BY <1>3, <2>1, ChooseTransaction DEF Reread
  <2>2. CASE Refuse(r, work.version) \/ Done(r, work.version)
    <3>1. /\ \E l \in Labels \ InTransaction : at' = [ at EXCEPT ![r] = l ]
          /\ UNCHANGED << disk, work, target, step >>
      BY <1>3, <2>2 DEF Reread, Refuse, Done, Goto, Labels, InTransaction,
         Stopped
    <3> QED
      BY <3>1, TransactionUntouched DEF MigrationInv
  <2> QED
    BY <1>3, <2>1, <2>2 DEF Reread
<1> QED
  BY <1>1, <1>2, <1>3, BeginTransaction, ExecuteTransaction,
     ExecutedTransaction, SetVersionTransaction, CommitTransaction
     DEF Next, Run

-----------------------------------------------------------------------------
(***************************************************************************)
(* The schema                                                              *)
(***************************************************************************)

LEMMA MigrationInit == Init => MigrationInv
<1> SUFFICES ASSUME Init PROVE MigrationInv
  OBVIOUS
<1>1. \A r \in Runners : at[r] = "idle"
  BY DEF Init
<1>2. PICK v \in Versions \cup {0} : disk = History!Whole(v)
  BY DEF Init
<1>3. disk.version = v
  BY <1>2 DEF History!Whole
<1> QED
  BY <1>1, <1>2, <1>3 DEF MigrationInv, OneWriter, TransactionInv, SchemaWhole,
     InTransaction

LEMMA MigrationStep ==
  TypeOK /\ MigrationInv /\ [Next]_vars => MigrationInv'
<1> SUFFICES ASSUME TypeOK, MigrationInv, [Next]_vars PROVE MigrationInv'
  OBVIOUS
<1>1. OneWriter'
  BY OneWriterStep DEF MigrationInv
<1>2. TransactionInv'
  BY TransactionStep
<1>3. SchemaWhole'
  <2>1. CASE UNCHANGED disk
    BY <2>1 DEF MigrationInv, SchemaWhole, History!Whole
  <2>2. CASE History!Next
    <3>1. PICK m \in Versions : disk' = History!Whole(m)
      BY <2>2 DEF History!Next
    <3>2. disk'.version = m
      BY <3>1 DEF History!Whole
    <3> QED
      BY <3>1, <3>2 DEF SchemaWhole, History!Whole
  <2> QED
    BY <2>1, <2>2, DiskStep
<1> QED
  BY <1>1, <1>2, <1>3 DEF MigrationInv

LEMMA MigrationInvariant == Spec => [](TypeOK /\ MigrationInv)
<1>1. Init => TypeOK /\ MigrationInv
  BY TypeInit, MigrationInit
<1>2. TypeOK /\ MigrationInv /\ [Next]_vars => (TypeOK /\ MigrationInv)'
  BY TypeStep, MigrationStep
<1> QED
  BY <1>1, <1>2, PTL DEF Spec

(* Whatever fails or dies half-way, and however many runners of whatever     *)
(* builds are at it, each migration up to the recorded version has been      *)
(* executed exactly once, and nothing of a later one.                        *)
THEOREM SchemaAlwaysWhole == Spec => []SchemaWhole
<1>1. MigrationInv => SchemaWhole
  BY DEF MigrationInv
<1> QED
  BY <1>1, MigrationInvariant, PTL

(* The runners implement the history of one database: every step of every    *)
(* runner is the next migration as a whole or leaves the database alone.     *)
THEOREM ImplementsHistory == Spec => HistorySpec
<1>1. Init => History!Init
  BY DEF Init, History!Init
<1>2. TypeOK /\ MigrationInv /\ [Next]_vars => [History!Next]_disk
  BY DiskStep
<1> QED
  BY <1>1, <1>2, MigrationInvariant, PTL DEF Spec, HistorySpec, History!Spec

-----------------------------------------------------------------------------
(***************************************************************************)
(* What a call reports                                                     *)
(***************************************************************************)

(* The version on disk never goes back. *)
LEMMA VersionGrows ==
  ASSUME TypeOK, MigrationInv, [Next]_vars
  PROVE  disk'.version \in Nat /\ disk.version \in Nat
           /\ disk'.version >= disk.version
<1>1. disk.version \in Nat
  BY VersionsAreNumbers DEF TypeOK, Databases
<1>2. CASE History!Next
  <2>1. PICK m \in Versions :
          History!Follows(m, disk.version) /\ disk' = History!Whole(m)
    BY <1>2 DEF History!Next
  <2>2. disk'.version = m /\ m > disk.version /\ m \in Nat
    BY <2>1, VersionsAreNumbers DEF History!Whole, History!Follows
  <2> QED
    BY <1>1, <2>2
<1>3. CASE UNCHANGED disk
  BY <1>1, <1>3
<1> QED
  BY <1>2, <1>3, DiskStep

(* Whoever is done under the lock has found its build's version. *)
LEMMA DoneIsCurrent ==
  ASSUME TypeOK, MigrationInv, NEW r \in Runners, At(r, "reread"),
         Done(r, work.version)
  PROVE  work.version = Latest[r] /\ disk.version = Latest[r]
<1>1. /\ work = disk /\ work.version \in Nat
      /\ work.version <= Latest[r] /\ \A m \in Known(r) : m <= work.version
  BY VersionsAreNumbers DEF At, Done, UpToDate, MigrationInv, TransactionInv,
     TypeOK, Databases
<1>2. Latest[r] \in Nat /\ Latest[r] \in Versions \cup {0}
  BY VersionsAreNumbers, MigrationAssumption
<1>3. CASE Latest[r] = 0
  BY <1>1, <1>2, <1>3
<1>4. CASE Latest[r] \in Versions
  BY <1>1, <1>2, <1>4 DEF Known
<1> QED
  BY <1>2, <1>3, <1>4

Verdicts == ReadyMeansCurrent /\ RefusedForCause

LEMMA VerdictStep ==
  TypeOK /\ MigrationInv /\ Verdicts /\ [Next]_vars => Verdicts'
<1> SUFFICES ASSUME TypeOK, MigrationInv, Verdicts, [Next]_vars PROVE Verdicts'
  OBVIOUS
<1> USE DEF Verdicts, ReadyMeansCurrent, RefusedForCause
<1>1. disk'.version \in Nat /\ disk.version \in Nat /\ disk'.version >= disk.version
  BY VersionGrows
<1>2. \A r \in Runners : Latest[r] \in Nat
  BY VersionsAreNumbers, MigrationAssumption
<1>3. CASE UNCHANGED vars
  BY <1>3 DEF vars
<1>4. ASSUME NEW r \in Runners,
             \/ Call(r) \/ Begin(r) \/ BeginTimesOut(r) \/ Execute(r)
             \/ Executed(r) \/ SetVersion(r) \/ Fails(r) \/ Crash(r)
      PROVE  Verdicts'
  <2>1. /\ result' = result /\ disk' = disk
        /\ \/ at' = at
           \/ \E l \in Labels \ { "ready", "refused" } : at' = [ at EXCEPT ![r] = l ]
    BY <1>4 DEF Call, Begin, BeginTimesOut, Execute, Executed, SetVersion,
       Fails, Crash, Goto, Labels, InTransaction, Stopped
  <2> QED
    BY <2>1 DEF TypeOK
<1>5. ASSUME NEW r \in Runners, Precheck(r)
      PROVE  Verdicts'
  <2>1. /\ disk' = disk /\ result' = [ result EXCEPT ![r] = disk.version ]
        /\ at' = [ at EXCEPT ![r] = IF disk.version > Latest[r] THEN "refused"
                                    ELSE IF disk.version = Latest[r] THEN "ready"
                                    ELSE "begin" ]
    BY <1>5 DEF Precheck, Goto, Return
  <2> QED
    BY <1>1, <1>2, <2>1 DEF TypeOK
<1>6. ASSUME NEW r \in Runners, Reread(r)
      PROVE  Verdicts'
  <2>1. disk' = disk /\ At(r, "reread") /\ work = disk
    BY <1>6 DEF Reread, At, MigrationInv, TransactionInv
  <2>2. CASE Refuse(r, work.version)
    BY <1>1, <2>1, <2>2 DEF Refuse, Goto, TypeOK
  <2>3. CASE Done(r, work.version)
    <3>1. disk.version = Latest[r]
      BY <2>1, <2>3, DoneIsCurrent
    <3> QED
      BY <1>1, <2>1, <2>3, <3>1 DEF Done, Goto, Return, TypeOK
  <2>4. CASE Choose(r, work.version)
    <3>1. at' = [ at EXCEPT ![r] = "execute" ] /\ result' = result
      BY <2>4 DEF Choose, Goto
    <3> QED
      BY <2>1, <3>1 DEF TypeOK
  <2> QED
    BY <1>6, <2>2, <2>3, <2>4 DEF Reread
<1>7. ASSUME NEW r \in Runners, Commit(r)
      PROVE  Verdicts'
  <2>1. /\ at' = [ at EXCEPT ![r] = "begin" ]
        /\ result' = [ result EXCEPT ![r] = target[r] ]
        /\ at[r] = "commit"
    BY <1>7 DEF Commit, At, Goto, Return
  <2> QED
    BY <1>1, <1>2, <2>1 DEF TypeOK
<1> QED
  BY <1>3, <1>4, <1>5, <1>6, <1>7 DEF Next, Run

LEMMA VerdictInvariant == Spec => []Verdicts
<1>1. Init => Verdicts
  BY DEF Init, Verdicts, ReadyMeansCurrent, RefusedForCause
<1> QED
  BY <1>1, VerdictStep, MigrationInvariant, PTL DEF Spec

(* A call of run_migrations that returns leaves the application with the     *)
(* schema its build knows, or with one that has moved on since.              *)
THEOREM CallsReturnCurrent == Spec => []ReadyMeansCurrent
<1>1. Verdicts => ReadyMeansCurrent
  BY DEF Verdicts
<1> QED
  BY <1>1, VerdictInvariant, PTL

(* A build refuses only a schema that is newer than itself.                  *)
THEOREM RefusalsHaveCause == Spec => []RefusedForCause
<1>1. Verdicts => RefusedForCause
  BY DEF Verdicts
<1> QED
  BY <1>1, VerdictInvariant, PTL
=============================================================================
