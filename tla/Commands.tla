------------------------------ MODULE Commands ------------------------------
(***************************************************************************)
(* Sidecars at work: the commands of application/handlers.py, run by       *)
(* several sidecar processes on one database, one settings file and the    *)
(* same export files, while windows listen to their event streams and a    *)
(* sidecar may be killed between any two steps.                            *)
(***************************************************************************)
EXTENDS AnalyzeCommand

vars == << streamVars, storeVars, settings, jobVars, fileVars >>

Init ==
  /\ StreamInit /\ StoreInit /\ JobInit /\ FileInit

-----------------------------------------------------------------------------
(***************************************************************************)
(* Kill and restart                                                        *)
(***************************************************************************)
(* The process is killed: the command it ran is never answered, the event  *)
(* streams end, the database and the files stay.                           *)
Kill(s) ==
  /\ ~ At(s, "down") /\ Fault
  /\ job' = [ job EXCEPT ![s] = Down ]
  /\ answers' = [ answers EXCEPT ![s] =
       IF LoopIdle(s) THEN @
       ELSE Append(@, Answer(job[s].request, FALSE, "LOST", job[s].id, FALSE,
                             << >>)) ]
  /\ Hangup(s)
  /\ UNCHANGED << inboxVars, storeVars, settings, fileVars >>

Restart(s) ==
  /\ At(s, "down")
  /\ job' = [ job EXCEPT ![s] = Idle ]
  /\ UNCHANGED << inboxVars, answers, faults, streamVars, storeVars, settings,
                  fileVars >>

(***************************************************************************)
(* The event streams: the reader thread runs at any time, the generator    *)
(* only while no command holds the event loop.                             *)
(***************************************************************************)
OpenStream(c) ==
  /\ c \in windows
  /\ \E s \in Sidecars : LoopIdle(s) /\ Connect(c, s)
  /\ UNCHANGED << jobVars, storeVars, settings, fileVars >>

ReaderThread(c) ==
  /\ Take(c) \/ TimeOut(c)
  /\ UNCHANGED << jobVars, storeVars, settings, fileVars >>

Generator(c) ==
  /\ LoopIdle(stream[c].to) /\ Resume(c)
  /\ UNCHANGED << jobVars, storeVars, settings, fileVars >>

CloseStream(c) ==
  /\ LoopIdle(stream[c].to) /\ Leave(c)
  /\ UNCHANGED << jobVars, storeVars, settings, fileVars >>

-----------------------------------------------------------------------------
CommandStep(s) ==
  \/ (Accept(s) \/ StoreStep(s) \/ Return(s)) /\ UNCHANGED fileVars
  \/ FileStep(s)
  \/ AnalyzeStep(s)

Next ==
  \/ \E s \in Sidecars : CommandStep(s) \/ Kill(s) \/ Restart(s)
  \/ \E c \in Clients :
       OpenStream(c) \/ ReaderThread(c) \/ Generator(c) \/ CloseStream(c)

(* A handler runs to its end: every wait in it has a timeout, or ends with *)
(* the worker's answer.  The reader thread runs when it can, and so does   *)
(* the generator while the event loop is free.                             *)
Fairness ==
  /\ \A s \in Sidecars : WF_vars(CommandStep(s))
  /\ \A c \in Clients : WF_vars(ReaderThread(c)) /\ WF_vars(Generator(c))

Spec == Init /\ [][Next]_vars /\ Fairness

-----------------------------------------------------------------------------
(***************************************************************************)
(* Types                                                                   *)
(***************************************************************************)
Steps ==
  { "idle", "down", "row", "entries", "rows", "recent", "delete", "load",
    "reset", "save", "render", "replace", "record", "open", "write", "answer",
    "begin", "read", "extract", "exists", "find", "enrich", "score", "insert",
    "resolve", "reload", "timeline", "complete", "fail", "respond", "lookup" }

(* The bounds of every variable; in particular an id in hand was given out *)
(* or asked for, and a queue's entries are positions in a log.             *)
CommandsTypeOK ==
  /\ \A s \in Sidecars : published[s] \in Seq([ by : Nat, kind : EventNames \X Nat ])
  /\ stream \in [ Clients -> StreamType ]
  /\ \A row \in rows : row.id \in 1 .. lastId /\ row.report \in Reports
  /\ lastId \in Nat /\ faults \in 0 .. MaxFaults
  /\ settings \in SettingsContents
  /\ \A s \in Sidecars :
       job[s].step \in Steps /\ job[s].loaded \in [ SettingNames -> SettingValues ]
  /\ reportFile \in 0 .. lastId /\ temporaries \in Nat /\ raced \in BOOLEAN

-----------------------------------------------------------------------------
(***************************************************************************)
(* Answers and events                                                      *)
(***************************************************************************)
Publishing == { "analyze_report", "enrich_ioc" }
Initial    == { Started, TiStarted }
Successful == { Completed, TiCompleted }
Failing    == { Failed, TiFailed }
Answered(s) == 1 .. Len(answers[s])

(* The places in the log of what command n of a sidecar has published *)
EventsOf(s, n) == { i \in DOMAIN published[s] : published[s][i].by = n }
Kind(s, i) == published[s][i].kind
Told(s, n, kinds) == \E i \in EventsOf(s, n) : Kind(s, i) \in kinds

(* It begins once, ends once, and progress only grows in between. *)
InOrder(s, n) ==
  \A i, j \in EventsOf(s, n) : i < j =>
    /\ Kind(s, i) \notin Successful \cup Failing
    /\ Kind(s, j) \notin Initial
    /\ Kind(s, j)[1] = "analysis.progress" => Kind(s, i)[2] < Kind(s, j)[2]

Settled(s, n) ==
  LET answer == answers[s][n]
  IN  /\ InOrder(s, n)
      /\ EventsOf(s, n) # {} => answer.request.name \in Publishing
      /\ answer.ok /\ answer.request.name \in Publishing =>
           Told(s, n, Initial) /\ Told(s, n, Successful)
      /\ ~ answer.ok /\ answer.code # "LOST" /\ EventsOf(s, n) # {} =>
           Told(s, n, Failing)
      /\ answer.code \in { "INVALID_COMMAND_PAYLOAD", "UNKNOWN_COMMAND" } =>
           EventsOf(s, n) = {}

(* A window that waits for an analysis learns its end from the stream or   *)
(* from the answer, and they agree: one terminal event, the last of the    *)
(* command's, completed exactly when the answer is a success; none for a   *)
(* command refused before it began; progress only grows; no event of a     *)
(* later command comes before (handlers.py's _publish and return           *)
(* statements).                                                            *)
AnswerMatchesEvents ==
  \A s \in Sidecars :
    /\ \A i, j \in DOMAIN published[s] :
         i < j => published[s][i].by <= published[s][j].by
    /\ \A n \in Answered(s) : Settled(s, n)

-----------------------------------------------------------------------------
(***************************************************************************)
(* The store                                                               *)
(***************************************************************************)
Ledger == INSTANCE InvestigationLedger WITH
  registered <- { << row.id, row.report >> : row \in rows },
  issued     <- lastId

(* Whatever the sidecars do at the same time, the store is a ledger: one   *)
(* investigation per report name, ids never used twice, nothing comes back *)
(* (the UNIQUE index and AUTOINCREMENT behind save_resolving_conflict).    *)
LedgerSpec == Ledger!Spec

Analyses(s) ==
  { n \in Answered(s) : /\ answers[s][n].request.name = "analyze_report"
                        /\ answers[s][n].ok }

(* An id that was given out has gone, whoever was told of its deletion.    *)
SomethingDeleted == \E id \in 1 .. lastId : id \notin Ids

(* Two analyses of one report agree on one investigation: the one that     *)
(* answers existing = FALSE stored the row it names, the other names the   *)
(* same row, and neither fails unless somebody deletes (analyzer.py's      *)
(* check and insert are two transactions; save_resolving_conflict).        *)
DuplicatesResolved ==
  /\ \A s \in Sidecars : \A n \in Analyses(s) : \A row \in rows :
       row.id = answers[s][n].id =>
         /\ row.report = answers[s][n].request.payload["report_path"][2]
         /\ row.by = << s, n >> <=> ~ answers[s][n].existing
  /\ \A s, t \in Sidecars : \A n \in Analyses(s), m \in Analyses(t) :
       ( /\ ~ answers[s][n].existing /\ ~ answers[t][m].existing
         /\ answers[s][n].id = answers[t][m].id )
         => << s, n >> = << t, m >>
  /\ \A s \in Sidecars : \A n \in Answered(s) :
       answers[s][n].code = "VANISHED" => SomethingDeleted

Place(kind, options) ==
  CHOOSE i \in DOMAIN Pipeline(options) : Pipeline(options)[i] = kind

(* What an analysis has written of an investigation, and whether it is all *)
(* there is to write                                                       *)
Milestones(row) ==
  { e \in EntriesOf(row.id) : e.kind # "report.exported" }
Full(row) ==
  { e.kind : e \in Milestones(row) } = Range(Pipeline(row.options))

(* Milestones are those of the row's own analysis, each at most once, and  *)
(* inserted in the order of the pipeline.                                  *)
Sorted(row) ==
  /\ \A e \in Milestones(row) :
       e.by = row.by /\ e.kind \in Range(Pipeline(row.options))
  /\ \A e, f \in Milestones(row) :
       e.rowid < f.rowid <=> Place(e.kind, row.options) < Place(f.kind, row.options)

(* An investigation's timeline tells what its own analysis did: entries of *)
(* the command that created it, each at most once and in order, all of     *)
(* them once that command has answered (unless a failure was swallowed),   *)
(* nothing for a row that has gone, and an export entry only for an export *)
(* that was finished (handlers.py's _record_timeline_event).               *)
TimelineTruthful ==
  /\ \A e \in timeline :
       e.id \in Ids /\ (e.kind = "report.exported" => e.by \in replacers)
  /\ \A row \in rows :
       /\ Sorted(row)
       /\ faults = 0 /\ row.by[2] \in Answered(row.by[1]) => Full(row)

-----------------------------------------------------------------------------
(***************************************************************************)
(* Files                                                                   *)
(***************************************************************************)
(* What the last save of a setting put into the settings file stays in it, *)
(* and no key does, whoever saves another one, unless two sidecars loaded  *)
(* and saved at the same time.                                             *)
SettingsKept ==
  ~ raced =>
    \A f \in SettingNames :
      lastSaved[f] # "unset" =>
        settings.kind = "saved" /\ settings.value[f] = lastSaved[f]
                                /\ ~ settings.key

(* Settings and reports: a command that was answered as done has replaced  *)
(* the file, one that was answered as failed has not, and only for one     *)
(* that was killed nobody can tell.                                        *)
ReplacesFile == { "save_settings", "export_report" }
ReplacementsTold ==
  \A s \in Sidecars : \A n \in Answered(s) :
    answers[s][n].request.name \in ReplacesFile =>
      IF << s, n >> \in replacers
        THEN answers[s][n].ok \/ answers[s][n].code = "LOST"
        ELSE ~ answers[s][n].ok

CsvExports(s) ==
  { n \in Answered(s) :
      answers[s][n].request.name = "export_investigations_csv" /\ answers[s][n].ok }
WritingCsv(s) ==
  Named(s, { "export_investigations_csv" }) /\ job[s].step \in { "write", "answer" }
WritesCsv(s) == CsvExports(s) # {} \/ WritingCsv(s)

(* CSV: what the last export of the one sidecar that exports answered is   *)
(* what the file holds.                                                    *)
LastCsvExport(s, n) ==
  n \in CsvExports(s) /\ \A m \in CsvExports(s) : m <= n
CsvWhole ==
  \A s \in Sidecars :
    ( /\ faults = 0 /\ ~ WritingCsv(s)
      /\ \A t \in Sidecars \ { s } : ~ WritesCsv(t) )
      => \A n \in CsvExports(s) :
           LastCsvExport(s, n) => csvFile = answers[s][n].seen

Lost == UNION { { << s, n >> : n \in { m \in Answered(s) :
                                       answers[s][m].code = "LOST" } } :
                s \in Sidecars }

(* Temporary report files: none survives a failure, only a killed process  *)
(* leaves one.                                                             *)
TemporariesRemoved ==
  temporaries <= Cardinality({ s \in Sidecars : At(s, "replace") })
                   + Cardinality(Lost)

(* Across failures, kills and other sidecars the files hold what was last  *)
(* put into them, and an answer tells whether a command has done that: a   *)
(* kill between the replacement and the answer leaves a file that nobody   *)
(* answered for, and is the only thing that does (settings/repository.py,  *)
(* atomic_write.py, investigation_csv_export.py).                          *)
FilesKept ==
  SettingsKept /\ ReplacementsTold /\ CsvWhole /\ TemporariesRemoved

-----------------------------------------------------------------------------
(***************************************************************************)
(* Progress                                                                *)
(***************************************************************************)
(* Every command a sidecar begins comes to its end.                        *)
CommandsAnswered ==
  \A s \in Sidecars :
    job[s].step \notin { "idle", "down" } ~> job[s].step \in { "idle", "down" }

CaughtUp(c) == stream[c].last = Len(published[stream[c].to])

(* A stream that stays open shows the newest event in the end, although    *)
(* the running command keeps the generator waiting and the queue drops     *)
(* what does not fit.                                                      *)
StreamsCatchUp ==
  \A c \in Clients :
    (stream[c].open /\ ~ CaughtUp(c)) ~> (~ stream[c].open \/ CaughtUp(c))

-----------------------------------------------------------------------------
(***************************************************************************)
(* The inductive invariants behind DuplicatesResolved                      *)
(***************************************************************************)
(* The steps of an analysis that has its investigation, or has failed *)
Late == { "reload", "timeline", "complete", "fail", "respond" }

(* Which commands come to which steps; only a failing one has a code. *)
PlaceOK(j) ==
  /\ j.step \in { "begin", "complete", "fail", "respond" } =>
       j.request.name \in Publishing
  /\ j.step = "lookup" => j.request.name = "enrich_ioc"
  /\ j.step = "delete" => j.request.name = "delete_investigation"
  /\ j.step \in { "row", "entries", "rows", "recent", "delete", "save",
                  "render", "replace", "record", "open", "write", "answer" } =>
       j.request.name \notin Publishing
  /\ j.step = "save" => j.request.name = "save_settings"
  /\ j.step \in { "render", "replace", "record" } =>
       j.request.name = "export_report"
  /\ j.request.name = "save_settings" =>
       j.step \in { "load", "reset", "save", "answer" }
  /\ j.request.name = "export_report" =>
       j.step \in { "row", "render", "replace", "record", "answer" }
  /\ j.code \in ErrorCodes \cup { "none", "VANISHED" }
  /\ j.code # "none" => j.step \in { "fail", "respond" }
  /\ j.step = "fail" => j.code # "none"
  /\ j.existing \in BOOLEAN /\ (j.existing => j.step \in Late \cup { "answer" })

PlacesInv == \A s \in Sidecars : PlaceOK(job[s])

(* An analysis that has its investigation and not answered yet *)
Holding(s) ==
  /\ Named(s, { "analyze_report" })
  /\ \/ job[s].step \in { "reload", "timeline", "complete" }
     \/ At(s, "respond") /\ job[s].code = "none"

(* The commands that claim an investigation, and what they claim *)
Claims(s) == Analyses(s) \cup { n \in { Current(s) } : Holding(s) }
Claim(s, n) == IF n \in Answered(s) THEN answers[s][n] ELSE job[s]

(* A claim was given out, names its own report, and creates the row or not *)
ClaimOK(s, n) ==
  /\ Claim(s, n).id \in 1 .. lastId
  /\ \A row \in RowsWithId(Claim(s, n).id) :
       /\ row.report = Claim(s, n).request.payload["report_path"][2]
       /\ row.by = << s, n >> <=> ~ Claim(s, n).existing

ClaimsInv ==
  /\ \A s \in Sidecars : \A n \in Claims(s) : ClaimOK(s, n)
  /\ \A s, t \in Sidecars : \A n \in Claims(s), m \in Claims(t) :
       ( /\ ~ Claim(s, n).existing /\ ~ Claim(t, m).existing
         /\ Claim(s, n).id = Claim(t, m).id )
         => << s, n >> = << t, m >>

(* A row was stored by a command that has answered or is past its insert. *)
AuthorsInv ==
  \A row \in rows :
    \E s \in Sidecars : \E n \in 1 .. Current(s) :
      /\ row.by = << s, n >>
      /\ n = Current(s) => job[s].step \in Late

(* Unless somebody deletes, what an analysis has seen is still there. *)
VanishedInv ==
  SomethingDeleted \/
    \A s \in Sidecars :
      /\ job[s].step \in { "find", "resolve" } => RowsOfReport(Report(s)) # {}
      /\ At(s, "reload") => RowsWithId(job[s].id) # {}
      /\ job[s].code # "VANISHED"
      /\ \A n \in Answered(s) : answers[s][n].code # "VANISHED"

DuplicatesInv == PlacesInv /\ ClaimsInv /\ AuthorsInv /\ VanishedInv

-----------------------------------------------------------------------------
(***************************************************************************)
(* The inductive invariants behind TimelineTruthful                        *)
(***************************************************************************)
MilestoneKinds ==
  { "investigation.created", "report.imported", "analysis.started",
    "ioc_extraction.completed", "ti.enrichment.completed", "risk.calculated",
    "correlation.completed", "analysis.completed" }

(* The first k milestones of an analysis are written, or a failure was     *)
(* swallowed.                                                              *)
Written(row, k) ==
  /\ \A e \in Milestones(row) : Place(e.kind, row.options) <= k
  /\ faults = 0 =>
       \A i \in 1 .. k : \E e \in Milestones(row) :
         e.kind = Pipeline(row.options)[i]

(* What a command has written of its row, and still has to write *)
Remaining(s, row) ==
  \E k \in 0 .. Len(Pipeline(row.options)) :
    /\ Len(job[s].todo) = Len(Pipeline(row.options)) - k
    /\ \A i \in DOMAIN job[s].todo :
         job[s].todo[i] = Pipeline(row.options)[k + i]
    /\ Written(row, k)

(* A row stored by the command that a sidecar runs *)
Underway(s, row) ==
  /\ Named(s, { "analyze_report" }) /\ job[s].step \in Late
  /\ row.id = job[s].id /\ ~ job[s].existing /\ row.options = Options(s)
  /\ At(s, "reload") => Milestones(row) = {}
  /\ At(s, "timeline") => Remaining(s, row)
  /\ ( /\ job[s].step \notin { "reload", "timeline" }
       /\ faults = 0 ) => Full(row)

TimelineInv ==
  /\ IsFiniteSet(timeline)
  /\ \A e \in timeline : e.rowid \in Nat
  /\ TimelineTruthful
  /\ \A s \in Sidecars :
       /\ At(s, "record") => CommandOf(s) \in replacers
       /\ At(s, "timeline") => job[s].todo \in Seq(MilestoneKinds)
       /\ At(s, "timeline") /\ job[s].existing => job[s].todo = << >>
       /\ \A row \in rows : row.by = CommandOf(s) => Underway(s, row)

-----------------------------------------------------------------------------
(***************************************************************************)
(* The inductive invariants behind AnswerMatchesEvents                     *)
(***************************************************************************)
(* More than any progress told before a step *)
Due(step) ==
  CASE step = "read"                       -> 10
    [] step = "extract"                    -> 25
    [] step = "exists"                     -> 40
    [] step = "enrich"                     -> 60
    [] step \in { "load", "reset", "score" } -> 80
    [] step = "insert"                     -> 90
    [] step \in { "resolve", "reload" }     -> 100
    [] OTHER                               -> 101

(* What command n of a sidecar has told while it is job j *)
Telling(s, n, j) ==
  /\ InOrder(s, n)
  /\ EventsOf(s, n) # {} =>
       /\ j.request.name \in Publishing
       /\ j.step \notin { "idle", "down", "begin" }
  /\ \A i \in EventsOf(s, n) : Kind(s, i)[2] < Due(j.step)
  /\ j.step # "respond" => ~ Told(s, n, Successful \cup Failing)
  /\ ( /\ j.request.name \in Publishing /\ j.code = "none"
       /\ j.step \notin { "idle", "down", "begin" } ) => Told(s, n, Initial)
  /\ j.step = "respond" =>
       Told(s, n, IF j.code = "none" THEN Successful ELSE Failing)

(* Events are told by a command that runs or has answered, in order. *)
Numbered(s) ==
  /\ \A i \in DOMAIN published[s] : published[s][i].by \in 1 .. Current(s)
  /\ \A i, j \in DOMAIN published[s] :
       i < j => published[s][i].by <= published[s][j].by

EventsInv ==
  \A s \in Sidecars :
    /\ Numbered(s) /\ Telling(s, Current(s), job[s])
    /\ \A n \in Answered(s) : Settled(s, n)

-----------------------------------------------------------------------------
(***************************************************************************)
(* The inductive invariants behind FilesKept                               *)
(***************************************************************************)
(* Whoever is about to save loaded what was last saved. *)
SettingsInv ==
  /\ DOMAIN lastSaved = SettingNames
  /\ SettingsKept
  /\ ~ raced =>
       \A s \in Sidecars : At(s, "save") =>
         \A f \in SettingNames :
           lastSaved[f] # "unset" => job[s].loaded[f] = lastSaved[f]

(* Of the running commands exactly those have replaced a file that are     *)
(* past its replacement.                                                   *)
ReplacedInv ==
  /\ ReplacementsTold
  /\ \A s \in Sidecars :
       /\ \A command \in replacers :
            command[1] = s => command[2] \in 1 .. Current(s)
       /\ CommandOf(s) \in replacers <=>
            Named(s, ReplacesFile) /\ job[s].step \in { "record", "answer" }

(* Only the CSV command comes to the CSV file, and with a list of rows. *)
CsvPlaceOK(j) ==
  /\ j.step \in { "open", "write" } => j.request.name = "export_investigations_csv"
  /\ j.request.name = "export_investigations_csv" =>
       j.step \in { "rows", "open", "write", "answer" }
  /\ j.step \in { "open", "write" } => j.seen \in Seq(Range(j.seen))

(* While the one sidecar that exports writes, the file is empty, and once  *)
(* it has written, it is what the answer will say.                         *)
CsvInv ==
  /\ IsFiniteSet(rows)
  /\ \A s \in Sidecars : CsvPlaceOK(job[s])
  /\ CsvWhole
  /\ \A s \in Sidecars :
       ( /\ faults = 0 /\ WritingCsv(s)
         /\ \A t \in Sidecars \ { s } : ~ WritesCsv(t) )
         => csvFile = IF At(s, "write") THEN << >> ELSE job[s].seen

TemporariesInv == IsFiniteSet(Lost) /\ TemporariesRemoved

FilesKeptInv == SettingsInv /\ ReplacedInv /\ CsvInv /\ TemporariesInv
=============================================================================
