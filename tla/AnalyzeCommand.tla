--------------------------- MODULE AnalyzeCommand ---------------------------
(***************************************************************************)
(* analyze_report and enrich_ioc: the two commands that publish events     *)
(* while they run (application/handlers.py), and the analysis pipeline     *)
(* itself (analyzer.py).                                                   *)
(*                                                                         *)
(* The pipeline reports its progress before it does the next thing; every  *)
(* thing is one step: reading the file, one transaction, the lookups.      *)
(***************************************************************************)
EXTENDS FileCommands

CONSTANT EnrichFailures   (* codes of the errors a lookup can raise         *)

(* The codes code_for_exception has for an exception *)
ErrorCodes ==
  { "REPORT_NOT_FOUND", "DUPLICATE_INVESTIGATION", "DATABASE_ERROR",
    "TI_INVALID_IOC", "TI_INVALID_API_KEY", "TI_RATE_LIMITED",
    "TI_PROVIDER_UNAVAILABLE", "TI_PROVIDER_ERROR", "APPLICATION_ERROR",
    "INTERNAL_ERROR" }

ASSUME CodesAssumption == EnrichFailures \subseteq ErrorCodes

EventNames ==
  { "analysis.started", "analysis.progress", "analysis.completed",
    "analysis.failed", "ti.enrichment.started", "ti.enrichment.completed",
    "ti.enrichment.failed" }

Event(s, kind) == [ by |-> Current(s), kind |-> kind ]
Progress(percent) == << "analysis.progress", percent >>
Started   == << "analysis.started", 0 >>
Completed == << "analysis.completed", 0 >>
Failed    == << "analysis.failed", 0 >>
TiStarted   == << "ti.enrichment.started", 0 >>
TiCompleted == << "ti.enrichment.completed", 0 >>
TiFailed    == << "ti.enrichment.failed", 0 >>

Report(s)  == Payload(s)["report_path"][2]
Options(s) == ChosenOptions(Payload(s))

(* Mutant: an exception of the pipeline is answered and not published. *)
RaisesUnpublished(s, code) ==
  job' = [ job EXCEPT ![s].step = "respond", ![s].code = code ]

(* The pipeline raises: run_blocking() re-raises in the handler, which     *)
(* publishes the failure before it answers.                                *)
Raises(s, code) ==
  job' = [ job EXCEPT ![s].step = "fail", ![s].code = code ]
BreaksPipeline(s) == Fault /\ Raises(s, "INTERNAL_ERROR")

-----------------------------------------------------------------------------
(***************************************************************************)
(* The beginning and the end of both commands                              *)
(***************************************************************************)
(* A report path that names no file fails without having started. *)
Begin(s) ==
  /\ At(s, "begin")
  /\ \/ /\ Named(s, { "analyze_report" }) /\ NoFault
        /\ Publish(s, Event(s, Started)) /\ GoTo(s, "read")
     \/ /\ Named(s, { "analyze_report" }) /\ Fault
        /\ Publish(s, Event(s, Failed))
        /\ job' = [ job EXCEPT ![s].step = "respond",
                               ![s].code = "REPORT_NOT_FOUND" ]
     \/ /\ Named(s, { "enrich_ioc" }) /\ NoFault
        /\ Publish(s, Event(s, TiStarted)) /\ GoTo(s, "load")
  /\ UNCHANGED << inboxVars, answers, storeVars, settings, fileVars >>

FailJob(s) ==
  /\ At(s, "fail")
  /\ Publish(s, Event(s, IF Named(s, { "enrich_ioc" }) THEN TiFailed
                                                       ELSE Failed))
  /\ GoTo(s, "respond")
  /\ UNCHANGED << inboxVars, answers, faults, storeVars, settings, fileVars >>

CompleteJob(s) ==
  /\ At(s, "complete")
  /\ Publish(s, Event(s, IF Named(s, { "enrich_ioc" }) THEN TiCompleted
                                                       ELSE Completed))
  /\ GoTo(s, "respond")
  /\ UNCHANGED << inboxVars, answers, faults, storeVars, settings, fileVars >>

Respond(s) ==
  /\ At(s, "respond")
  /\ IF job[s].code = "none" THEN ReplyOk(s) ELSE ReplyError(s, job[s].code)
  /\ UNCHANGED << inboxVars, faults, streamVars, storeVars, settings, fileVars >>

(* enrich_ioc: the lookup answers, or raises one of the provider's errors. *)
Lookup(s) ==
  /\ At(s, "lookup")
  /\ \/ GoTo(s, "complete")
     \/ \E code \in EnrichFailures : Raises(s, code)
  /\ UNCHANGED << inboxVars, answers, faults, streamVars, storeVars, settings, fileVars >>

-----------------------------------------------------------------------------
(***************************************************************************)
(* analyze_report (analyzer.py)                                            *)
(***************************************************************************)
(* The repository is constructed, which may fail; then the file is read: a *)
(* ReportReadError is a SOCIQError.                                        *)
ReadReport(s) ==
  /\ At(s, "read")
  /\ \/ /\ Publish(s, Event(s, Progress(10)))
        /\ \/ GoTo(s, "extract") /\ NoFault
           \/ Fault /\ Raises(s, "APPLICATION_ERROR")
     \/ BreaksPipeline(s) /\ UNCHANGED streamVars
  /\ UNCHANGED << inboxVars, answers, storeVars, settings, fileVars >>

Extract(s) ==
  /\ At(s, "extract")
  /\ Publish(s, Event(s, Progress(25)))
  /\ GoTo(s, "exists")
  /\ UNCHANGED << inboxVars, answers, faults, storeVars, settings, fileVars >>

(* exists_by_report_name *)
CheckExists(s) ==
  /\ At(s, "exists")
  /\ Publish(s, Event(s, Progress(40)))
  /\ \/ /\ NoFault
        /\ GoTo(s, IF RowsOfReport(Report(s)) # {} THEN "find" ELSE "enrich")
     \/ BreaksPipeline(s)
  /\ UNCHANGED << inboxVars, answers, storeVars, settings, fileVars >>

(* find_by_report_name, in a later transaction: the row may have gone, and *)
(* the RuntimeError for it, an INTERNAL_ERROR, is told apart as VANISHED.  *)
FindExisting(s) ==
  /\ At(s, "find")
  /\ \/ /\ RowsOfReport(Report(s)) = {} /\ NoFault
        /\ Raises(s, "VANISHED")
     \/ \E row \in RowsOfReport(Report(s)) :
          /\ NoFault
          /\ job' = [ job EXCEPT ![s].step = "complete", ![s].id = row.id,
                                 ![s].existing = TRUE ]
     \/ BreaksPipeline(s)
  /\ UNCHANGED << inboxVars, answers, streamVars, storeVars, settings, fileVars >>

(* Every error of the lookups is caught.  The first lookup of an indicator *)
(* loads the settings for the key.                                         *)
Enrich(s) ==
  /\ At(s, "enrich")
  /\ Publish(s, Event(s, Progress(60)))
  /\ \/ GoTo(s, "score")
     \/ "enrich_ti" \in Options(s) /\ GoTo(s, "load")
  /\ UNCHANGED << inboxVars, answers, faults, storeVars, settings, fileVars >>

Score(s) ==
  /\ At(s, "score")
  /\ Publish(s, Event(s, Progress(80)))
  /\ GoTo(s, "insert")
  /\ UNCHANGED << inboxVars, answers, faults, storeVars, settings, fileVars >>

(* save_resolving_conflict: the insert.  On a conflict the winner is       *)
(* looked up in a later transaction.                                       *)
InsertRow(s) ==
  /\ At(s, "insert")
  /\ Publish(s, Event(s, Progress(90)))
  /\ \/ /\ ~ Conflict(Report(s)) /\ NoFault
        /\ Insert([ id |-> NextId, report |-> Report(s),
                    by |-> CommandOf(s), options |-> Options(s) ])
        /\ job' = [ job EXCEPT ![s].step = "reload", ![s].id = NextId ]
     \/ /\ Conflict(Report(s)) /\ NoFault
        /\ GoTo(s, "resolve") /\ UNCHANGED storeVars
     \/ BreaksPipeline(s) /\ UNCHANGED storeVars
  /\ UNCHANGED << inboxVars, answers, settings, fileVars >>

(* Mutant: the loser of the race takes the row for its own. *)
ResolveConflictAsCreated(s) ==
  /\ At(s, "resolve")
  /\ \/ /\ RowsOfReport(Report(s)) = {} /\ NoFault
        /\ Raises(s, "VANISHED")
     \/ \E row \in RowsOfReport(Report(s)) :
          /\ NoFault
          /\ job' = [ job EXCEPT ![s].step = "reload", ![s].id = row.id ]
     \/ BreaksPipeline(s)
  /\ UNCHANGED << inboxVars, answers, streamVars, storeVars, settings, fileVars >>

(* find_by_report_name again, for the row that won *)
ResolveConflict(s) ==
  /\ At(s, "resolve")
  /\ \/ /\ RowsOfReport(Report(s)) = {} /\ NoFault
        /\ Raises(s, "VANISHED")
     \/ \E row \in RowsOfReport(Report(s)) :
          /\ NoFault
          /\ job' = [ job EXCEPT ![s].step = "reload", ![s].id = row.id,
                                 ![s].existing = TRUE ]
     \/ BreaksPipeline(s)
  /\ UNCHANGED << inboxVars, answers, streamVars, storeVars, settings, fileVars >>

(* The timeline of an analysis, in order, with the entries its options     *)
(* switch off left out                                                     *)
Pipeline(options) ==
  << "investigation.created", "report.imported", "analysis.started" >>
    \o (IF "extract_iocs" \in options
          THEN << "ioc_extraction.completed" >> ELSE << >>)
    \o (IF "enrich_ti" \in options
          THEN << "ti.enrichment.completed" >> ELSE << >>)
    \o (IF "score_risk" \in options THEN << "risk.calculated" >> ELSE << >>)
    \o << "correlation.completed", "analysis.completed" >>

(* Mutant: an existing investigation gets the entries once more. *)
EntriesToWriteAlways(s) == Pipeline(Options(s))

(* Only the analysis that created the row writes its timeline. *)
EntriesToWrite(s) ==
  IF job[s].existing THEN << >> ELSE Pipeline(Options(s))

(* get_by_id of what was just stored *)
Reload(s) ==
  /\ At(s, "reload")
  /\ \/ /\ RowsWithId(job[s].id) = {} /\ NoFault
        /\ Raises(s, "VANISHED")
        /\ UNCHANGED streamVars
     \/ /\ RowsWithId(job[s].id) # {} /\ NoFault
        /\ Publish(s, Event(s, Progress(100)))
        /\ job' = [ job EXCEPT ![s].step = "timeline",
                               ![s].todo = EntriesToWrite(s) ]
     \/ BreaksPipeline(s) /\ UNCHANGED streamVars
  /\ UNCHANGED << inboxVars, answers, storeVars, settings, fileVars >>

(* Mutant: an entry waits for its investigation to exist. *)
RecordEntryOfRow(s) ==
  /\ At(s, "timeline") /\ job[s].todo # << >>
  /\ job' = [ job EXCEPT ![s].todo = Tail(@) ]
  /\ \/ /\ job[s].id \in Ids /\ NoFault
        /\ AppendEntry(job[s].id, Head(job[s].todo), CommandOf(s))
     \/ Fault /\ UNCHANGED storeVars
  /\ UNCHANGED << inboxVars, answers, streamVars, settings, fileVars >>

(* _record_timeline_event: one transaction per entry, every failure        *)
(* swallowed.  A correlation that cannot be computed leaves its entry out. *)
RecordEntry(s) ==
  /\ At(s, "timeline") /\ job[s].todo # << >>
  /\ job' = [ job EXCEPT ![s].todo = Tail(@) ]
  /\ \/ /\ job[s].id \in Ids /\ NoFault
        /\ AppendEntry(job[s].id, Head(job[s].todo), CommandOf(s))
     \/ job[s].id \notin Ids /\ NoFault /\ UNCHANGED storeVars
     \/ Fault /\ UNCHANGED storeVars
  /\ UNCHANGED << inboxVars, answers, streamVars, settings, fileVars >>

EntriesDone(s) ==
  /\ At(s, "timeline") /\ job[s].todo = << >>
  /\ GoTo(s, "complete")
  /\ UNCHANGED << inboxVars, answers, faults, streamVars, storeVars, settings,
                  fileVars >>

AnalyzeStep(s) ==
  \/ Begin(s) \/ FailJob(s) \/ CompleteJob(s) \/ Respond(s) \/ Lookup(s)
  \/ ReadReport(s) \/ Extract(s) \/ CheckExists(s) \/ FindExisting(s)
  \/ Enrich(s) \/ Score(s) \/ InsertRow(s) \/ ResolveConflict(s)
  \/ Reload(s) \/ RecordEntry(s) \/ EntriesDone(s)
=============================================================================
