--------------------------- MODULE MigrationRunner --------------------------
(***************************************************************************)
(* app/database/migration_runner.py: several calls of run_migrations, from *)
(* threads of one sidecar or from several programs, bring one SQLite       *)
(* database up to date.  They may belong to different builds, of which the *)
(* older ones know only the older migrations.                              *)
(*                                                                         *)
(* SQLite gives each call a connection; BEGIN IMMEDIATE takes the write    *)
(* lock or gives up after the busy timeout; what a transaction wrote is    *)
(* invisible until its COMMIT and gone when its connection closes or its   *)
(* process dies.                                                           *)
(***************************************************************************)
EXTENDS Naturals

CONSTANTS
  Runners,     (* the calls that may be under way at the same time          *)
  Versions,    (* the version numbers of all migrations ever released       *)
  Statements,  (* how many SQL statements the file of each one holds        *)
  Latest,      (* per runner: the newest migration its build ships          *)
  MaxFaults    (* bound: statements that fail and processes that die        *)

ASSUME MigrationAssumption ==
  /\ Versions \subseteq Nat \ {0}
  /\ Statements \in [ Versions -> Nat ]
  /\ Latest \in [ Runners -> Versions \cup {0} ]
  /\ MaxFaults \in Nat

VARIABLES
  disk,     (* the committed database: its version and what was executed    *)
  work,     (* the database as the open transaction sees it                 *)
  at,       (* where each runner is                                         *)
  target,   (* next_migration of the open transaction                       *)
  step,     (* how many of its statements have been executed                *)
  result,   (* final_version                                                *)
  faults    (* things that went wrong so far                                *)

vars == << disk, work, at, target, step, result, faults >>

History == INSTANCE MigrationHistory

InTransaction == { "reread", "execute", "record", "commit" }
Stopped       == { "idle", "ready", "refused", "failed" }
Labels        == InTransaction \cup Stopped \cup { "precheck", "begin" }

(* _discover_migrations: all of the builds come from one line of releases.   *)
Known(r) == { m \in Versions : m <= Latest[r] }

(* Fresh, migrated by an earlier run, or by a newer build.                   *)
Init ==
  /\ disk \in { History!Whole(v) : v \in Versions \cup {0} }
  /\ work = disk
  /\ at = [ r \in Runners |-> "idle" ]
  /\ target = [ r \in Runners |-> 0 ]
  /\ step = [ r \in Runners |-> 0 ]
  /\ result = [ r \in Runners |-> 0 ]
  /\ faults = 0

-----------------------------------------------------------------------------

At(r, label)   == at[r] = label
Goto(r, label) == at' = [ at EXCEPT ![r] = label ]
Return(r, v)   == result' = [ result EXCEPT ![r] = v ]

WriteLockFree == \A r \in Runners : at[r] \notin InTransaction

SomethingFails == faults < MaxFaults /\ faults' = faults + 1

(* Every construction of a repository calls run_migrations again.            *)
Call(r) ==
  /\ at[r] \in Stopped
  /\ Goto(r, "precheck")
  /\ UNCHANGED << disk, work, target, step, result, faults >>

(* Mutant: a database at this build's own version is refused. *)
PrecheckOffByOne(r) ==
  /\ At(r, "precheck")
  /\ Return(r, disk.version)
  /\ Goto(r, IF disk.version >= Latest[r] THEN "refused" ELSE "begin")
  /\ UNCHANGED << disk, work, target, step, faults >>

(* The lock-free fast path. *)
Precheck(r) ==
  /\ At(r, "precheck")
  /\ Return(r, disk.version)
  /\ Goto(r, IF disk.version > Latest[r] THEN "refused"
             ELSE IF disk.version = Latest[r] THEN "ready"
             ELSE "begin")
  /\ UNCHANGED << disk, work, target, step, faults >>

Begin(r) ==
  /\ At(r, "begin")
  /\ WriteLockFree
  /\ work' = disk
  /\ Goto(r, "reread")
  /\ UNCHANGED << disk, target, step, result, faults >>

(* "database is locked": nothing says how long the others take. *)
BeginTimesOut(r) ==
  /\ At(r, "begin")
  /\ ~WriteLockFree
  /\ Goto(r, "failed")
  /\ UNCHANGED << disk, work, target, step, result, faults >>

(* Mutant: the migrations come in any order, as from a directory listing. *)
AnyPending(r, v, m) == m \in Known(r) /\ m > v

NextMigration(r, v, m) ==
  m \in Known(r) /\ m > v /\ \A k \in Known(r) : k > v => m <= k

UpToDate(r, v) == \A m \in Known(r) : m <= v

Choose(r, v) ==
  \E m \in Versions :
    /\ NextMigration(r, v, m)
    /\ target' = [ target EXCEPT ![r] = m ]
    /\ step' = [ step EXCEPT ![r] = 0 ]
    /\ Goto(r, "execute")
    /\ UNCHANGED result

Refuse(r, v) ==
  v > Latest[r] /\ Goto(r, "refused") /\ UNCHANGED << target, step, result >>

(* Mutant: the loop is not left. *)
LoopsWhenDone(r, v) ==
  /\ v <= Latest[r] /\ UpToDate(r, v)
  /\ Return(r, v) /\ Goto(r, "begin")
  /\ UNCHANGED << target, step >>

Done(r, v) ==
  /\ v <= Latest[r] /\ UpToDate(r, v)
  /\ Return(r, v) /\ Goto(r, "ready")
  /\ UNCHANGED << target, step >>

(* Mutant: the version of the last read is trusted under the lock. *)
RereadSkipped(r) ==
  /\ At(r, "reread")
  /\ Refuse(r, result[r]) \/ Done(r, result[r]) \/ Choose(r, result[r])
  /\ UNCHANGED << disk, work, faults >>

(* The version is read again under the write lock; the transaction is rolled *)
(* back at once unless a migration is pending.                               *)
Reread(r) ==
  /\ At(r, "reread")
  /\ LET v == work.version IN Refuse(r, v) \/ Done(r, v) \/ Choose(r, v)
  /\ UNCHANGED << disk, work, faults >>

(* Mutant: one statement too many. *)
ExecuteTooFar(r) ==
  /\ At(r, "execute")
  /\ work' = [ work EXCEPT !.effects[target[r]] = @ + 1 ]
  /\ step' = [ step EXCEPT ![r] = @ + 1 ]
  /\ Goto(r, IF step[r] >= Statements[target[r]] THEN "record" ELSE "execute")
  /\ UNCHANGED << disk, target, result, faults >>

Execute(r) ==
  /\ At(r, "execute")
  /\ step[r] < Statements[target[r]]
  /\ work' = [ work EXCEPT !.effects[target[r]] = @ + 1 ]
  /\ step' = [ step EXCEPT ![r] = @ + 1 ]
  /\ UNCHANGED << disk, at, target, result, faults >>

Executed(r) ==
  /\ At(r, "execute")
  /\ step[r] = Statements[target[r]]
  /\ Goto(r, "record")
  /\ UNCHANGED << disk, work, target, step, result, faults >>

(* _set_version, in the transaction of its migration. *)
SetVersion(r) ==
  /\ At(r, "record")
  /\ work' = [ work EXCEPT !.version = target[r] ]
  /\ Goto(r, "commit")
  /\ UNCHANGED << disk, target, step, result, faults >>

(* Mutant: one migration per call. *)
CommitsAndReturns(r) ==
  /\ At(r, "commit")
  /\ disk' = work
  /\ Return(r, target[r])
  /\ Goto(r, "ready")
  /\ UNCHANGED << work, target, step, faults >>

(* The loop goes on with a transaction of its own for the next migration.    *)
Commit(r) ==
  /\ At(r, "commit")
  /\ disk' = work
  /\ Return(r, target[r])
  /\ Goto(r, "begin")
  /\ UNCHANGED << work, target, step, faults >>

(* A statement, the recording of the version or the COMMIT raises: ROLLBACK, *)
(* or the closing of the connection, which comes to the same.                *)
Fails(r) ==
  /\ at[r] \in InTransaction
  /\ SomethingFails
  /\ Goto(r, "failed")
  /\ UNCHANGED << disk, work, target, step, result >>

(* The process dies; SQLite undoes the open transaction.                     *)
Crash(r) ==
  /\ at[r] \notin Stopped
  /\ SomethingFails
  /\ Goto(r, "idle")
  /\ UNCHANGED << disk, work, target, step, result >>

Run(r) ==
  \/ Precheck(r) \/ Begin(r) \/ BeginTimesOut(r) \/ Reread(r)
  \/ Execute(r) \/ Executed(r) \/ SetVersion(r) \/ Commit(r)

Next == \E r \in Runners : Call(r) \/ Run(r) \/ Fails(r) \/ Crash(r)

Spec == Init /\ [][Next]_vars

(* A call that has begun goes on; nobody is obliged to call.                 *)
FairSpec == Spec /\ \A r \in Runners : WF_vars(Run(r))

-----------------------------------------------------------------------------
(***************************************************************************)
(* Properties                                                              *)
(***************************************************************************)

Databases == [ version : Versions \cup {0}, effects : [ Versions -> Nat ] ]

(* The databases and the locals of _apply_migrations_on_connection have      *)
(* their types, and no runner is beyond the end of its migration.            *)
TypeOK ==
  /\ disk \in Databases /\ work \in Databases
  /\ at \in [ Runners -> Labels ]
  /\ target \in [ Runners -> Versions \cup {0} ]
  /\ step \in [ Runners -> Nat ]
  /\ result \in [ Runners -> Versions \cup {0} ]
  /\ faults \in Nat
  /\ \A r \in Runners :
       at[r] \in { "execute", "record", "commit" } =>
         target[r] \in Versions /\ step[r] <= Statements[target[r]]

(* "A failed statement rolls back that entire migration; the recorded schema *)
(* version does not advance past the last successfully applied migration":   *)
(* on disk every migration up to the recorded version has been executed      *)
(* exactly once, and no statement of a later one.                            *)
SchemaWhole == disk = History!Whole(disk.version)

(* A call that returns has brought the database to what its build knows, or  *)
(* found it there, and it stays there or moves on.                           *)
ReadyMeansCurrent ==
  \A r \in Runners :
    at[r] = "ready" => result[r] = Latest[r] /\ disk.version >= Latest[r]

(* A build refuses to start only over a schema that is newer than it.        *)
RefusedForCause ==
  \A r \in Runners : at[r] = "refused" => disk.version > Latest[r]

(* The runners together implement the history of one database.               *)
HistorySpec == History!Spec

(* "no caller may hang, every caller must complete".                         *)
EveryCallEnds ==
  \A r \in Runners : at[r] = "precheck" ~> at[r] \in Stopped

(***************************************************************************)
(* The inductive invariant                                                 *)
(***************************************************************************)

OneWriter ==
  \A r, q \in Runners :
    at[r] \in InTransaction /\ at[q] \in InTransaction => r = q

(* What the open transaction holds is the committed database and the part of *)
(* its migration that has been executed; its migration is the one that       *)
(* follows the committed version.                                            *)
TransactionInv ==
  \A r \in Runners :
    /\ at[r] = "reread" => work = disk
    /\ at[r] \in { "execute", "record", "commit" } =>
         /\ target[r] \in Known(r)
         /\ History!Follows(target[r], disk.version)
         /\ work.effects = [ disk.effects EXCEPT ![target[r]] = step[r] ]
    /\ at[r] \in { "record", "commit" } => step[r] = Statements[target[r]]
    /\ at[r] = "commit" => work.version = target[r]

MigrationInv == OneWriter /\ TransactionInv /\ SchemaWhole
=============================================================================
