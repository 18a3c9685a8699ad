-------------------------- MODULE MigrationHistory --------------------------
(***************************************************************************)
(* What schema migration promises: whatever happens, the database on disk  *)
(* is the one that some version's migrations leave, each of them executed  *)
(* once and as a whole, and it moves only to the very next migration.      *)
(***************************************************************************)
EXTENDS Naturals

CONSTANTS
  Versions,    (* the version numbers of all migrations ever released       *)
  Statements   (* how many SQL statements the file of each one holds        *)

VARIABLE disk

(* The database after all migrations up to version v, and no other.  The     *)
(* effects count executed statements.                                        *)
Whole(v) ==
  [ version |-> v,
    effects |-> [ m \in Versions |-> IF m <= v THEN Statements[m] ELSE 0 ] ]

Follows(m, v) == m > v /\ \A k \in Versions : k > v => m <= k

Init == disk \in { Whole(v) : v \in Versions \cup {0} }

Next == \E m \in Versions : Follows(m, disk.version) /\ disk' = Whole(m)

Spec == Init /\ [][Next]_disk
=============================================================================
