------------------------- MODULE MCMigrationRunner --------------------------
EXTENDS MigrationRunner, TLC

CONSTANTS a, b, old

(* Two runners of the newest build and one of the build before; the numbers  *)
(* of the migrations have a gap.                                             *)
MCVersions   == { 1, 2, 4 }
MCStatements == (1 :> 1) @@ (2 :> 2) @@ (4 :> 1)
MCLatest     == (a :> 4) @@ (b :> 4) @@ (old :> 2)
=============================================================================
