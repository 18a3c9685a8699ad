--------------------------- MODULE StoreCommands ----------------------------
(***************************************************************************)
(* The commands that read the database or delete from it: the handlers     *)
(* get_*, list_investigations, search_investigations, the two summaries    *)
(* and delete_investigation of application/handlers.py.  Each step is one  *)
(* transaction; another sidecar's may come between two of them.            *)
(*                                                                         *)
(* An answer's `seen` is the ids, or the timeline entries, it shows.       *)
(***************************************************************************)
EXTENDS CommandJobs

CONSTANT RecentLimit   (* DASHBOARD_RECENT_INVESTIGATIONS_LIMIT             *)

ReadsSettings ==
  { "get_threat_intelligence", "get_investigation_risk_explanation" }

(* get_by_id, the first thing every handler of one investigation does *)
ReadRow(s) ==
  /\ At(s, "row")
  /\ \/ /\ RowsWithId(job[s].id) = {} /\ NoFault
        /\ ReplyError(s, "INVESTIGATION_NOT_FOUND")
     \/ /\ RowsWithId(job[s].id) # {} /\ NoFault
        /\ \/ Named(s, { "get_timeline" }) /\ GoTo(s, "entries")
           \/ Named(s, { "export_report" }) /\ GoTo(s, "render")
           \/ Named(s, ReadsSettings) /\ GoTo(s, "load")
        /\ UNCHANGED answers
     \/ /\ RowsWithId(job[s].id) # {} /\ NoFault
        /\ ~ Named(s, { "get_timeline", "export_report" } \cup ReadsSettings)
        /\ ReplySeen(s, << job[s].id >>)
     \/ Breaks(s)
  /\ UNCHANGED << inboxVars, streamVars, storeVars, settings >>

(* get_timeline: list_for_investigation, in a transaction of its own *)
ReadEntries(s) ==
  /\ At(s, "entries")
  /\ \/ ReplySeen(s, OldestFirst(EntriesOf(job[s].id))) /\ NoFault
     \/ Breaks(s)
  /\ UNCHANGED << inboxVars, streamVars, storeVars, settings >>

(* list_all, or find_by_report_name for a search; the CSV export keeps the *)
(* rows whose report name holds the search text.                           *)
Listed(s) ==
  CASE Named(s, { "search_investigations" }) ->
         NewestFirst(RowsOfReport(Payload(s)["report_name"][2]))
    [] /\ Named(s, { "export_investigations_csv" })
       /\ ~ Absent("search", Payload(s))
       /\ Payload(s)["search"] # Text("") ->
         NewestFirst(RowsOfReport(Payload(s)["search"][2]))
    [] OTHER -> NewestFirst(rows)

ReadRows(s) ==
  /\ At(s, "rows")
  /\ \/ /\ Named(s, { "get_dashboard_summary", "export_investigations_csv" })
        /\ job' = [ job EXCEPT ![s].seen = Listed(s),
                               ![s].step =
                     IF Named(s, { "get_dashboard_summary" })
                       THEN "recent" ELSE "open" ]
        /\ NoFault /\ UNCHANGED answers
     \/ /\ ~ Named(s, { "get_dashboard_summary",
                        "export_investigations_csv" })
        /\ ReplySeen(s, Listed(s)) /\ NoFault
     \/ Breaks(s)
  /\ UNCHANGED << inboxVars, streamVars, storeVars, settings >>

(* get_dashboard_summary reads the recent ones after the totals. *)
ReadRecent(s) ==
  /\ At(s, "recent")
  /\ \/ ReplySeen(s, FindRecent(RecentLimit)) /\ NoFault
     \/ Breaks(s)
  /\ UNCHANGED << inboxVars, streamVars, storeVars, settings >>

(* delete_investigation: an id without a row is no error. *)
DeleteRow(s) ==
  /\ At(s, "delete")
  /\ \/ /\ Delete(job[s].id) /\ NoFault
        /\ job' = [ job EXCEPT ![s].step = "answer",
                               ![s].existing = RowsWithId(job[s].id) # {} ]
        /\ UNCHANGED answers
     \/ Breaks(s) /\ UNCHANGED storeVars
  /\ UNCHANGED << inboxVars, streamVars, settings >>

StoreStep(s) ==
  ReadRow(s) \/ ReadEntries(s) \/ ReadRows(s) \/ ReadRecent(s) \/ DeleteRow(s)
=============================================================================
