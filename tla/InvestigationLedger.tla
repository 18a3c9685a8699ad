------------------------ MODULE InvestigationLedger -------------------------
(***************************************************************************)
(* What the investigation store promises, whoever writes to it: a report   *)
(* name has at most one investigation, an identifier names one             *)
(* investigation for ever, and a deleted one does not come back.           *)
(***************************************************************************)
EXTENDS Naturals

CONSTANT Reports

VARIABLES
  registered,  (* the investigations: pairs << id, report name >>           *)
  issued       (* the identifiers given out are 1 .. issued                 *)

Init == registered = {} /\ issued = 0

Register(r) ==
  /\ \A entry \in registered : entry[2] # r
  /\ issued' = issued + 1
  /\ registered' = registered \cup { << issued', r >> }

Remove(entry) ==
  /\ registered' = registered \ { entry }
  /\ UNCHANGED issued

Next ==
  \/ \E r \in Reports : Register(r)
  \/ \E entry \in registered : Remove(entry)

Spec == Init /\ [][Next]_<< registered, issued >>
=============================================================================
