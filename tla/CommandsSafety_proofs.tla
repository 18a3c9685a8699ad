------------------------ MODULE CommandsSafety_proofs ------------------------
(***************************************************************************)
(* What the commands answer and what they leave behind: proofs about       *)
(* Commands, for any sidecars, windows, queue capacity, requests and       *)
(* number of faults.                                                       *)
(***************************************************************************)
EXTENDS Commands_proofs

-----------------------------------------------------------------------------
(***************************************************************************)
(* What one step does to the command that takes it                         *)
(***************************************************************************)
Others(s) == \A t \in Sidecars : t # s => job'[t] = job[t]

(* The command goes on, at another step or with other findings.            *)
Turn(s, x, id, existing, code) ==
  /\ Others(s)
  /\ job'[s].step = x /\ job'[s].request = job[s].request
  /\ job'[s].id = id /\ job'[s].existing = existing /\ job'[s].code = code

TurnTo(s, x) == Turn(s, x, job[s].id, job[s].existing, job[s].code)

(* Where a command goes without finding, storing or failing                *)
Edge(name, x, y) ==
  \/ /\ name \in Publishing
     /\ << x, y >> \in { << "fail", "respond" >>, << "complete", "respond" >> }
  \/ /\ name = "analyze_report"
     /\ << x, y >> \in
          { << "begin", "read" >>, << "read", "extract" >>,
            << "extract", "exists" >>, << "exists", "find" >>,
            << "exists", "enrich" >>, << "enrich", "score" >>,
            << "enrich", "load" >>, << "load", "score" >>,
            << "reset", "score" >>, << "score", "insert" >>,
            << "insert", "resolve" >>, << "reload", "timeline" >>,
            << "timeline", "timeline" >>, << "timeline", "complete" >> }
  \/ /\ name = "enrich_ioc"
     /\ << x, y >> \in { << "begin", "load" >>, << "load", "lookup" >>,
                         << "reset", "lookup" >>, << "lookup", "complete" >> }
  \/ x = "load" /\ y = "reset"
  \/ /\ name = "get_dashboard_summary" /\ x = "rows" /\ y = "recent"
  \/ /\ name = "export_investigations_csv" /\ x = "rows" /\ y = "open"
  \/ /\ name = "save_settings"
     /\ << x, y >> \in { << "load", "save" >>, << "reset", "save" >>,
                         << "save", "answer" >> }
  \/ /\ name = "export_report"
     /\ << x, y >> \in { << "row", "render" >>, << "render", "replace" >>,
                         << "replace", "record" >>, << "record", "answer" >> }
  \/ /\ name \notin Publishing \cup ReplacesFile
     /\ << x, y >> \in
          { << "row", "entries" >>, << "row", "load" >>, << "load", "answer" >>,
            << "reset", "answer" >>, << "open", "write" >>,
            << "write", "answer" >> }

StoreKept == UNCHANGED << rows, lastId >>
AnswersKept == \A t \in Sidecars : answers'[t] = answers[t]

Proceeds(s) ==
  /\ AnswersKept /\ StoreKept
  /\ \E y \in Steps :
       /\ Edge(job[s].request.name, job[s].step, y) /\ TurnTo(s, y)
       /\ y \in { "find", "resolve" } => RowsOfReport(Report(s)) # {}

(* What it looked for has gone.                                            *)
Vanished(s) ==
  \/ job[s].step \in { "find", "resolve" } /\ RowsOfReport(Report(s)) = {}
  \/ At(s, "reload") /\ RowsWithId(job[s].id) = {}

Fails(s) ==
  /\ AnswersKept /\ StoreKept
  /\ job[s].request.name \in Publishing
  /\ \E x \in { "fail", "respond" }, code \in ErrorCodes \cup { "VANISHED" } :
       /\ Turn(s, x, job[s].id, job[s].existing, code)
       /\ code = "VANISHED" => Vanished(s)
       /\ IF x = "respond" THEN At(s, "begin")
                           ELSE job[s].step \in PipelineSteps \cup { "lookup" }

Finds(s) ==
  /\ AnswersKept /\ StoreKept
  /\ job[s].step \in { "find", "resolve" }
  /\ \E row \in RowsOfReport(Report(s)), x \in { "reload", "complete" } :
       /\ Turn(s, x, row.id, TRUE, job[s].code)
       /\ x = "reload" => At(s, "resolve")

Creates(s) ==
  /\ AnswersKept
  /\ Inserts(s) /\ Turn(s, "reload", NextId, job[s].existing, job[s].code)

(* It deletes an investigation, and has not said so yet.                   *)
Removes(s) ==
  /\ AnswersKept
  /\ At(s, "delete") /\ Named(s, { "delete_investigation" })
  /\ Delete(job[s].id)
  /\ \E found \in BOOLEAN : Turn(s, "answer", job[s].id, found, job[s].code)

Begins(s) ==
  /\ AnswersKept /\ StoreKept
  /\ LoopIdle(s) /\ Others(s)
  /\ job'[s].request.name \in CommandNames
  /\ job'[s].step = FirstStep(job'[s].request.name)
  /\ job'[s].existing = FALSE /\ job'[s].code = "none"

(* It is free, or down.                                                    *)
Rests(s) ==
  /\ Others(s)
  /\ job'[s].step \in { "idle", "down" }
  /\ \/ job'[s].request.name = "none"
     \/ LoopIdle(s) /\ job'[s].request = job[s].request
  /\ job'[s].existing = FALSE /\ job'[s].code = "none"

Appended(s, a) == answers' = [ answers EXCEPT ![s] = Append(@, a) ]

(* A command is refused at once, or it is no analysis and no lookup, or it *)
(* answers what it has told, or it is lost.                                *)
Tells(s, a) ==
  \/ LoopIdle(s) /\ (a.ok => a.request.name = "search_investigations")
  \/ /\ a.request = job[s].request
     /\ \/ job[s].request.name \notin Publishing
        \/ /\ At(s, "respond") /\ a.code = job[s].code
           /\ a.ok => a.code = "none"
           /\ ~ a.ok => a.code # "none"
        \/ a.code = "LOST" /\ ~ a.ok

(* A command that replaces a file answers as done when it has done that.   *)
Confirms(s, a) ==
  a.request.name \in ReplacesFile =>
    \/ a.code = "LOST" /\ ~ a.ok
    \/ a.ok <=> job[s].step \in { "record", "answer" }

(* The answer of a successful analysis names what the analysis held, and   *)
(* only a search for nothing succeeds at once.                             *)
Replies(s) ==
  /\ Rests(s) /\ StoreKept
  /\ \E a : /\ Appended(s, a) /\ Tells(s, a) /\ Confirms(s, a)
            /\ a.ok => a.request.name \in { job[s].request.name,
                                            "search_investigations" }
            /\ a.ok /\ a.request.name = "analyze_report" =>
                 /\ Holding(s) /\ a.request = job[s].request
                 /\ a.id = job[s].id /\ a.existing = job[s].existing
            /\ a.code = "VANISHED" => job[s].code = "VANISHED"

Pauses(s) ==
  /\ Rests(s) /\ StoreKept /\ AnswersKept
  /\ job[s].step \in { "idle", "down" }

Doing(s) ==
  \/ Proceeds(s) \/ Fails(s) \/ Finds(s) \/ Creates(s) \/ Removes(s)
  \/ Begins(s) \/ Replies(s) \/ Pauses(s)

(* Where a command begins *)
LEMMA FirstSteps ==
  ASSUME NEW name \in CommandNames
  PROVE  /\ FirstStep(name) \in { "row", "rows", "delete", "load", "begin" }
         /\ FirstStep(name) = "begin" <=> name \in Publishing
         /\ FirstStep(name) = "delete" => name = "delete_investigation"
         /\ name = "export_investigations_csv" => FirstStep(name) = "rows"
         /\ name = "save_settings" => FirstStep(name) = "load"
         /\ name = "export_report" => FirstStep(name) = "row"
BY DEF CommandNames, ByIdNames, BareNames, FirstStep, ReadsRow, ReadsRows,
       Publishing

USE DEF AnswersKept

LEMMA TurnsTo ==
  ASSUME JobsInv, NEW s \in Sidecars, NEW x, GoTo(s, x)
  PROVE  TurnTo(s, x)
BY JobShape DEF GoTo, TurnTo, Turn, Others

LEMMA TurnsWithCode ==
  ASSUME JobsInv, NEW s \in Sidecars, NEW x, NEW code,
         job' = [ job EXCEPT ![s].step = x, ![s].code = code ]
  PROVE  Turn(s, x, job[s].id, job[s].existing, code)
BY JobShape DEF Turn, Others

LEMMA TurnsWithRow ==
  ASSUME JobsInv, NEW s \in Sidecars, NEW x, NEW id,
         job' = [ job EXCEPT ![s].step = x, ![s].id = id, ![s].existing = TRUE ]
  PROVE  Turn(s, x, id, TRUE, job[s].code)
BY JobShape DEF Turn, Others

LEMMA RestsIdle ==
  ASSUME JobsInv, NEW s \in Sidecars, job' = [ job EXCEPT ![s] = Idle ]
  PROVE  Rests(s)
BY JobShape DEF Rests, Others, Idle

(* An error, and the success of a command that is no analysis *)
LEMMA RepliesError ==
  ASSUME JobsInv, NEW s \in Sidecars, StoreKept, NEW code, ReplyError(s, code),
         code = "VANISHED" => job[s].code = "VANISHED",
         \/ /\ job[s].request.name \notin Publishing
            /\ job[s].step \notin { "record", "answer" }
         \/ At(s, "respond") /\ code = job[s].code /\ code # "none"
  PROVE  Replies(s)
<1> DEFINE a == Answer(job[s].request, FALSE, code, job[s].id, FALSE, << >>)
<1>1. Rests(s) /\ Appended(s, a)
  BY RestsIdle DEF ReplyError, Reply, Appended
<1>2. a.ok = FALSE /\ a.code = code /\ a.request = job[s].request
  BY DEF Answer
<1> HIDE DEF a
<1> QED
  BY <1>1, <1>2 DEF Replies, Tells, Confirms, At

LEMMA RepliesOther ==
  ASSUME JobsInv, NEW s \in Sidecars, StoreKept, NEW id, NEW existing, NEW seen,
         Reply(s, Answer(job[s].request, TRUE, "none", id, existing, seen)),
         job[s].request.name # "analyze_report",
         Named(s, ReplacesFile) => At(s, "answer"),
         \/ job[s].request.name \notin Publishing
         \/ At(s, "respond") /\ job[s].code = "none"
  PROVE  Replies(s)
<1> DEFINE a == Answer(job[s].request, TRUE, "none", id, existing, seen)
<1>1. Rests(s) /\ Appended(s, a)
  BY RestsIdle DEF Reply, Appended
<1>2. a.ok = TRUE /\ a.code = "none" /\ a.request = job[s].request
  BY DEF Answer
<1> HIDE DEF a
<1> QED
  BY <1>1, <1>2 DEF Replies, Tells, Confirms, Named, At

(* The commands that read, list and delete investigations                  *)
LEMMA StoreDoing ==
  ASSUME JobsInv, PlacesInv, NEW s \in Sidecars, StoreStep(s)
  PROVE  Doing(s)
<1>1. /\ job[s].step \in { "row", "entries", "rows", "recent", "delete" }
      /\ job[s].request.name \notin Publishing
  BY DEF StoreStep, ReadRow, ReadEntries, ReadRows, ReadRecent, DeleteRow, At,
     PlacesInv, PlaceOK
<1>2. job[s].request.name # "analyze_report"
  BY <1>1 DEF Publishing
<1>3. ASSUME Breaks(s), StoreKept PROVE Doing(s)
  BY <1>1, <1>3, RepliesError DEF Breaks, Doing
<1>4. ASSUME NEW seen, ReplySeen(s, seen), StoreKept,
             At(s, "row") => ~ Named(s, { "export_report" })
      PROVE  Doing(s)
  <2>1. Reply(s, Answer(job[s].request, TRUE, "none", job[s].id, FALSE, seen))
    BY <1>4 DEF ReplySeen
  <2>2. ~ Named(s, ReplacesFile)
    BY <1>1, <1>4 DEF PlacesInv, PlaceOK, Named, ReplacesFile, At
  <2> QED
    BY <1>1, <1>2, <1>4, <2>1, <2>2, RepliesOther DEF Doing
<1>5. CASE ReadRow(s)
  <2>1. StoreKept /\ At(s, "row")
    BY <1>5 DEF ReadRow, storeVars, StoreKept
  <2>2. CASE ReplyError(s, "INVESTIGATION_NOT_FOUND")
    BY <1>1, <2>1, <2>2, RepliesError DEF Doing
  <2>3. CASE ReplySeen(s, << job[s].id >>) /\ ~ Named(s, { "export_report" })
    BY <1>4, <2>1, <2>3
  <2>4. ASSUME NEW x \in { "entries", "render", "load" }, GoTo(s, x),
               UNCHANGED answers,
               x = "render" <=> job[s].request.name = "export_report"
        PROVE  Doing(s)
    <3>1. job[s].request.name # "save_settings"
      BY <2>1 DEF PlacesInv, PlaceOK, At
    <3>2. Edge(job[s].request.name, job[s].step, x)
      BY <1>1, <2>1, <2>4, <3>1 DEF Edge, At, ReplacesFile
    <3> QED
      BY <2>1, <2>4, <3>2, TurnsTo DEF Doing, Proceeds, Steps
  <2>5. CASE /\ UNCHANGED answers
             /\ \/ Named(s, { "get_timeline" }) /\ GoTo(s, "entries")
                \/ Named(s, { "export_report" }) /\ GoTo(s, "render")
                \/ Named(s, ReadsSettings) /\ GoTo(s, "load")
    BY <2>4, <2>5 DEF Named, ReadsSettings
  <2> QED
    BY <1>3, <1>5, <2>1, <2>2, <2>3, <2>5 DEF ReadRow, Named
<1>6. CASE ReadEntries(s)
  BY <1>3, <1>4, <1>6 DEF ReadEntries, storeVars, StoreKept, At
<1>7. CASE ReadRows(s)
  <2>1. StoreKept /\ At(s, "rows")
    BY <1>7 DEF ReadRows, storeVars, StoreKept
  <2>2. ASSUME NEW x \in { "recent", "open" }, UNCHANGED answers,
               job' = [ job EXCEPT ![s].seen = Listed(s), ![s].step = x ],
               x = "recent" => job[s].request.name = "get_dashboard_summary",
               x = "open" => job[s].request.name = "export_investigations_csv"
        PROVE  Doing(s)
    <3>1. TurnTo(s, x)
      BY <2>2, JobShape DEF TurnTo, Turn, Others
    <3> QED
      BY <2>1, <2>2, <3>1 DEF Doing, Proceeds, Edge, At, Steps
  <2>3. CASE /\ Named(s, { "get_dashboard_summary", "export_investigations_csv" })
             /\ job' = [ job EXCEPT ![s].seen = Listed(s),
                                    ![s].step =
                          IF Named(s, { "get_dashboard_summary" })
                            THEN "recent" ELSE "open" ]
             /\ UNCHANGED answers
    BY <2>2, <2>3 DEF Named
  <2> QED
    BY <1>3, <1>4, <1>7, <2>1, <2>3 DEF ReadRows, At
<1>8. CASE ReadRecent(s)
  BY <1>3, <1>4, <1>8 DEF ReadRecent, storeVars, StoreKept, At
<1>9. CASE DeleteRow(s)
  <2>1. CASE Breaks(s) /\ UNCHANGED storeVars
    BY <1>3, <2>1 DEF storeVars, StoreKept
  <2>2. ASSUME NEW found \in BOOLEAN, Delete(job[s].id), UNCHANGED answers,
               job' = [ job EXCEPT ![s].step = "answer", ![s].existing = found ]
        PROVE  Doing(s)
    <3>1. Turn(s, "answer", job[s].id, found, job[s].code)
      BY <2>2, JobShape DEF Turn, Others
    <3>2. At(s, "delete") /\ Named(s, { "delete_investigation" })
      BY <1>9 DEF DeleteRow, At, Named, PlacesInv, PlaceOK
    <3> QED
      BY <2>2, <3>1, <3>2 DEF Doing, Removes
  <2> QED
    BY <1>9, <2>1, <2>2 DEF DeleteRow
<1> QED
  BY <1>5, <1>6, <1>7, <1>8, <1>9 DEF StoreStep

(* The commands about settings, reports and CSV files *)
LEMMA RepliesOk ==
  ASSUME JobsInv, NEW s \in Sidecars, StoreKept, ReplyOk(s),
         job[s].request.name # "analyze_report",
         Named(s, ReplacesFile) => At(s, "answer"),
         \/ job[s].request.name \notin Publishing
         \/ At(s, "respond") /\ job[s].code = "none"
  PROVE  Replies(s)
BY RepliesOther DEF ReplyOk

LEMMA ReturnDoing ==
  ASSUME JobsInv, PlacesInv, NEW s \in Sidecars, Return(s)
  PROVE  Doing(s)
<1>1. StoreKept /\ ReplyOk(s) /\ At(s, "answer")
  BY DEF Return, storeVars, StoreKept
<1>2. job[s].request.name \notin Publishing
  BY <1>1 DEF PlacesInv, PlaceOK, At
<1>3. job[s].request.name # "analyze_report"
  BY <1>2 DEF Publishing
<1> QED
  BY <1>1, <1>2, <1>3, RepliesOk DEF Doing

(* A step along an edge that ends at no search for a row *)
LEMMA EdgeDoing ==
  ASSUME JobsInv, NEW s \in Sidecars, StoreKept, UNCHANGED answers,
         NEW y \in Steps, Edge(job[s].request.name, job[s].step, y), TurnTo(s, y),
         y \notin { "find", "resolve" }
  PROVE  Doing(s)
BY DEF Doing, Proceeds

LEMMA LoadedDoing ==
  ASSUME JobsInv, PlacesInv, NEW s \in Sidecars, StoreKept, NEW values,
         job[s].step \in { "load", "reset" }, AfterLoad(s, values)
  PROVE  Doing(s)
<1>1. CASE /\ Named(s, { "save_settings" }) /\ UNCHANGED answers
           /\ job' = [ job EXCEPT ![s].step = "save", ![s].loaded = values ]
  <2>1. TurnTo(s, "save")
    BY <1>1, JobShape DEF TurnTo, Turn, Others
  <2>2. Edge(job[s].request.name, job[s].step, "save")
    BY <1>1 DEF Edge, Named
  <2> QED
    BY <1>1, <2>1, <2>2 DEF Doing, Proceeds, Steps
<1>2. ASSUME NEW y \in { "answer", "lookup", "score" }, GoTo(s, y),
             UNCHANGED answers,
             y = "answer" => Named(s, { "get_settings" } \cup ReadsSettings),
             y = "lookup" => Named(s, { "enrich_ioc" }),
             y = "score" => Named(s, { "analyze_report" })
      PROVE  Doing(s)
  <2>1. Edge(job[s].request.name, job[s].step, y)
    BY <1>2 DEF Edge, Named, ReadsSettings, Publishing, ReplacesFile
  <2> QED
    BY <1>2, <2>1, TurnsTo, EdgeDoing DEF Steps
<1> QED
  BY <1>1, <1>2 DEF AfterLoad, Done

LEMMA FileDoing ==
  ASSUME JobsInv, PlacesInv, NEW s \in Sidecars, FileStep(s)
  PROVE  Doing(s)
<1>1. StoreKept
  BY FileStepKeepsRows DEF StoreKept
<1>2. ASSUME Breaks(s), job[s].step \in { "save", "render", "replace", "open", "write" }
      PROVE  Doing(s)
  <2>1. job[s].request.name \notin Publishing
    BY <1>2 DEF PlacesInv, PlaceOK
  <2> QED
    BY <1>1, <1>2, <2>1, RepliesError DEF Breaks, Doing
<1>3. ASSUME NEW y \in { "replace", "record", "write", "answer" }, GoTo(s, y),
             << job[s].step, y >> \in
               { << "save", "answer" >>, << "render", "replace" >>,
                 << "replace", "record" >>, << "record", "answer" >>,
                 << "open", "write" >>, << "write", "answer" >> },
             UNCHANGED answers
      PROVE  Doing(s)
  <2>1. PlaceOK(job[s])
    BY DEF PlacesInv
  <2>2. Edge(job[s].request.name, job[s].step, y)
    BY <1>3, <2>1 DEF Edge, PlaceOK, ReplacesFile
  <2> QED
    BY <1>1, <1>3, <2>2, TurnsTo, EdgeDoing DEF Steps
<1>4. CASE LoadSettings(s)
  <2>1. CASE AfterLoad(s, LoadedValues)
    BY <1>1, <1>4, <2>1, LoadedDoing DEF LoadSettings, At
  <2>2. CASE GoTo(s, "reset") /\ UNCHANGED answers
    <3>1. Edge(job[s].request.name, job[s].step, "reset")
      BY <1>4 DEF Edge, LoadSettings, At
    <3> QED
      BY <1>1, <2>2, <3>1, TurnsTo, EdgeDoing DEF Steps
  <2> QED
    BY <1>4, <2>1, <2>2 DEF LoadSettings
<1>5. CASE ResetSettings(s)
  BY <1>1, <1>5, LoadedDoing DEF ResetSettings, At
<1>6. CASE SaveSettings(s) \/ RecordExport(s) \/ WriteCsv(s)
  BY <1>2, <1>3, <1>6 DEF SaveSettings, RecordExport, WriteCsv, At, Done
<1>7. CASE RenderReport(s) \/ ReplaceReport(s) \/ OpenCsv(s)
  BY <1>2, <1>3, <1>7 DEF RenderReport, ReplaceReport, OpenCsv, At
<1> QED
  BY <1>4, <1>5, <1>6, <1>7 DEF FileStep

(* The two commands that publish events *)
LEMMA RaisesFails ==
  ASSUME JobsInv, NEW s \in Sidecars, StoreKept, UNCHANGED answers,
         NEW code \in ErrorCodes \cup { "VANISHED" }, Raises(s, code),
         job[s].request.name \in Publishing,
         job[s].step \in PipelineSteps \cup { "lookup" },
         code = "VANISHED" => Vanished(s)
  PROVE  Doing(s)
<1>1. Turn(s, "fail", job[s].id, job[s].existing, code)
  BY TurnsWithCode DEF Raises
<1> QED
  BY <1>1 DEF Doing, Fails

LEMMA BreaksFails ==
  ASSUME JobsInv, NEW s \in Sidecars, StoreKept, UNCHANGED answers,
         BreaksPipeline(s), job[s].request.name \in Publishing,
         job[s].step \in PipelineSteps
  PROVE  Doing(s)
BY RaisesFails DEF BreaksPipeline, ErrorCodes

LEMMA RespondDoing ==
  ASSUME JobsInv, PlacesInv, NEW s \in Sidecars, Respond(s)
  PROVE  Doing(s)
<1>1. StoreKept /\ At(s, "respond")
  BY DEF Respond, storeVars, StoreKept
<1>2. CASE job[s].code # "none"
  BY <1>1, <1>2, RepliesError DEF Respond, Doing
<1>3. CASE job[s].code = "none" /\ job[s].request.name # "analyze_report"
  <2>1. ~ Named(s, ReplacesFile)
    BY <1>1 DEF PlacesInv, PlaceOK, At, Named, ReplacesFile
  <2> QED
    BY <1>1, <1>3, <2>1, RepliesOk DEF Respond, Doing
<1>4. CASE job[s].code = "none" /\ job[s].request.name = "analyze_report"
  <2> DEFINE a == Answer(job[s].request, TRUE, "none", job[s].id,
                         job[s].existing, job[s].seen)
  <2>1. Rests(s) /\ Appended(s, a)
    BY <1>4, RestsIdle DEF Respond, ReplyOk, Reply, Appended
  <2>2. /\ a.code = "none" /\ a.request = job[s].request /\ a.id = job[s].id
        /\ a.existing = job[s].existing /\ a.ok = TRUE
    BY DEF Answer
  <2>3. Holding(s)
    BY <1>1, <1>4 DEF Holding, Named
  <2> HIDE DEF a
  <2>4. Tells(s, a) /\ Confirms(s, a)
    BY <1>1, <1>4, <2>2 DEF Tells, Confirms, ReplacesFile
  <2> QED
    BY <1>1, <2>1, <2>2, <2>3, <2>4 DEF Replies, Doing
<1> QED
  BY <1>2, <1>3, <1>4

LEMMA AnalyzeDoing ==
  ASSUME JobsInv, PlacesInv, NEW s \in Sidecars, AnalyzeStep(s)
  PROVE  Doing(s)
<1> USE DEF Steps
<1>1. CASE Respond(s)
  BY <1>1, RespondDoing
<1>2. CASE Begin(s)
  <2>1. StoreKept /\ UNCHANGED answers /\ At(s, "begin")
    BY <1>2 DEF Begin, storeVars, StoreKept
  <2>2. job[s].request.name \in Publishing
    BY <2>1 DEF PlacesInv, PlaceOK, At
  <2>3. CASE Named(s, { "analyze_report" }) /\ GoTo(s, "read")
    BY <2>1, <2>3, EdgeDoing, TurnsTo DEF Edge, At, Named
  <2>4. CASE Named(s, { "enrich_ioc" }) /\ GoTo(s, "load")
    BY <2>1, <2>4, EdgeDoing, TurnsTo DEF Edge, At, Named
  <2>5. CASE job' = [ job EXCEPT ![s].step = "respond",
                                 ![s].code = "REPORT_NOT_FOUND" ]
    <3>1. Turn(s, "respond", job[s].id, job[s].existing, "REPORT_NOT_FOUND")
      BY <2>5, TurnsWithCode
    <3> QED
      BY <2>1, <2>2, <3>1 DEF Doing, Fails, ErrorCodes
  <2> QED
    BY <1>2, <2>3, <2>4, <2>5 DEF Begin
<1>3. CASE FailJob(s) \/ CompleteJob(s)
  <2>1. StoreKept /\ UNCHANGED answers /\ GoTo(s, "respond")
        /\ job[s].step \in { "fail", "complete" }
    BY <1>3 DEF FailJob, CompleteJob, storeVars, StoreKept, At
  <2>2. Edge(job[s].request.name, job[s].step, "respond")
    BY <2>1 DEF PlacesInv, PlaceOK, Edge
  <2> QED
    BY <2>1, <2>2, EdgeDoing, TurnsTo
<1>4. CASE Lookup(s)
  <2>1. StoreKept /\ UNCHANGED answers /\ At(s, "lookup")
        /\ job[s].request.name = "enrich_ioc"
    BY <1>4 DEF Lookup, storeVars, StoreKept, At, PlacesInv, PlaceOK
  <2>2. CASE GoTo(s, "complete")
    BY <2>1, <2>2, EdgeDoing, TurnsTo DEF Edge, At
  <2>3. ASSUME NEW code \in EnrichFailures, Raises(s, code) PROVE Doing(s)
    <3>1. code \in ErrorCodes /\ code # "VANISHED"
      BY CodesAssumption DEF ErrorCodes
    <3> QED
      BY <2>1, <2>3, <3>1, RaisesFails DEF Publishing, At
  <2> QED
    BY <1>4, <2>2, <2>3 DEF Lookup
<1>5. ASSUME job[s].step \in PipelineSteps
      PROVE  job[s].request.name = "analyze_report"
             /\ job[s].request.name \in Publishing
  BY <1>5, Analyzing DEF Publishing
<1>6. CASE ReadReport(s)
  <2>1. StoreKept /\ UNCHANGED answers /\ At(s, "read")
    BY <1>6 DEF ReadReport, storeVars, StoreKept
  <2>2. /\ job[s].request.name = "analyze_report"
        /\ job[s].request.name \in Publishing /\ job[s].step \in PipelineSteps
    BY <1>5, <2>1 DEF At, PipelineSteps
  <2>3. CASE GoTo(s, "extract")
    BY <2>1, <2>2, <2>3, EdgeDoing, TurnsTo DEF Edge, At
  <2>4. CASE Raises(s, "APPLICATION_ERROR")
    BY <2>1, <2>2, <2>4, RaisesFails DEF ErrorCodes
  <2> QED
    BY <1>6, <2>1, <2>2, <2>3, <2>4, BreaksFails DEF ReadReport
<1>7. CASE Extract(s) \/ Score(s)
  <2>1. StoreKept /\ UNCHANGED answers /\ job[s].step \in { "extract", "score" }
    BY <1>7 DEF Extract, Score, storeVars, StoreKept, At
  <2>2. job[s].request.name = "analyze_report"
    BY <1>5, <2>1 DEF PipelineSteps
  <2>3. CASE At(s, "extract") /\ GoTo(s, "exists")
    BY <2>1, <2>2, <2>3, EdgeDoing, TurnsTo DEF Edge, At
  <2>4. CASE At(s, "score") /\ GoTo(s, "insert")
    BY <2>1, <2>2, <2>4, EdgeDoing, TurnsTo DEF Edge, At
  <2> QED
    BY <1>7, <2>3, <2>4 DEF Extract, Score
<1>8. CASE CheckExists(s)
  <2>1. StoreKept /\ UNCHANGED answers /\ At(s, "exists")
    BY <1>8 DEF CheckExists, storeVars, StoreKept
  <2>2. /\ job[s].request.name = "analyze_report"
        /\ job[s].request.name \in Publishing /\ job[s].step \in PipelineSteps
    BY <1>5, <2>1 DEF At, PipelineSteps
  <2>3. CASE RowsOfReport(Report(s)) # {} /\ GoTo(s, "find")
    BY <2>1, <2>2, <2>3, TurnsTo DEF Edge, At, Doing, Proceeds
  <2>4. CASE RowsOfReport(Report(s)) = {} /\ GoTo(s, "enrich")
    BY <2>1, <2>2, <2>4, EdgeDoing, TurnsTo DEF Edge, At
  <2> QED
    BY <1>8, <2>1, <2>2, <2>3, <2>4, BreaksFails DEF CheckExists
<1>9. CASE FindExisting(s)
  <2>1. StoreKept /\ UNCHANGED answers /\ At(s, "find")
    BY <1>9 DEF FindExisting, storeVars, StoreKept
  <2>2. job[s].request.name \in Publishing /\ job[s].step \in PipelineSteps
    BY <1>5, <2>1 DEF At, PipelineSteps
  <2>3. CASE RowsOfReport(Report(s)) = {} /\ Raises(s, "VANISHED")
    BY <2>1, <2>2, <2>3, RaisesFails DEF Vanished, At
  <2>4. ASSUME NEW row \in RowsOfReport(Report(s)),
               job' = [ job EXCEPT ![s].step = "complete", ![s].id = row.id,
                                   ![s].existing = TRUE ]
        PROVE  Doing(s)
    <3>1. Turn(s, "complete", row.id, TRUE, job[s].code)
      BY <2>4, TurnsWithRow
    <3>2. Finds(s)
      BY <2>1, <3>1 DEF Finds, At
    <3> QED
      BY <3>2 DEF Doing
  <2> QED
    BY <1>9, <2>1, <2>2, <2>3, <2>4, BreaksFails DEF FindExisting
<1>10. CASE Enrich(s)
  <2>1. StoreKept /\ UNCHANGED answers /\ At(s, "enrich")
    BY <1>10 DEF Enrich, storeVars, StoreKept
  <2>2. job[s].request.name = "analyze_report"
    BY <1>5, <2>1 DEF At, PipelineSteps
  <2> QED
    BY <1>10, <2>1, <2>2, EdgeDoing, TurnsTo DEF Enrich, Edge, At
<1>11. CASE InsertRow(s)
  <2>1. UNCHANGED answers /\ At(s, "insert")
    BY <1>11 DEF InsertRow
  <2>2. /\ job[s].request.name = "analyze_report"
        /\ job[s].request.name \in Publishing /\ job[s].step \in PipelineSteps
    BY <1>5, <2>1 DEF At, PipelineSteps
  <2>3. CASE /\ ~ Conflict(Report(s)) /\ Insert(NewRow(s))
             /\ job' = [ job EXCEPT ![s].step = "reload", ![s].id = NextId ]
    <3>1. Turn(s, "reload", NextId, job[s].existing, job[s].code)
      BY <2>3, JobShape DEF Turn, Others
    <3> QED
      BY <2>1, <2>3, <3>1 DEF Doing, Creates, Inserts
  <2>4. CASE Conflict(Report(s)) /\ GoTo(s, "resolve") /\ UNCHANGED storeVars
    BY <2>1, <2>2, <2>4, TurnsTo
       DEF Edge, At, Doing, Proceeds, Conflict, storeVars, StoreKept
  <2>5. CASE BreaksPipeline(s) /\ UNCHANGED storeVars
    BY <2>1, <2>2, <2>5, BreaksFails DEF storeVars, StoreKept
  <2> QED
    BY <1>11, <2>3, <2>4, <2>5 DEF InsertRow, NewRow
<1>12. CASE ResolveConflict(s)
  <2>1. StoreKept /\ UNCHANGED answers /\ At(s, "resolve")
    BY <1>12 DEF ResolveConflict, storeVars, StoreKept
  <2>2. job[s].request.name \in Publishing /\ job[s].step \in PipelineSteps
    BY <1>5, <2>1 DEF At, PipelineSteps
  <2>3. CASE RowsOfReport(Report(s)) = {} /\ Raises(s, "VANISHED")
    BY <2>1, <2>2, <2>3, RaisesFails DEF Vanished, At
  <2>4. ASSUME NEW row \in RowsOfReport(Report(s)),
               job' = [ job EXCEPT ![s].step = "reload", ![s].id = row.id,
                                   ![s].existing = TRUE ]
        PROVE  Doing(s)
    <3>1. Turn(s, "reload", row.id, TRUE, job[s].code)
      BY <2>4, TurnsWithRow
    <3>2. Finds(s)
      BY <2>1, <3>1 DEF Finds, At
    <3> QED
      BY <3>2 DEF Doing
  <2> QED
    BY <1>12, <2>1, <2>2, <2>3, <2>4, BreaksFails DEF ResolveConflict
<1>13. CASE Reload(s)
  <2>1. StoreKept /\ UNCHANGED answers /\ At(s, "reload")
    BY <1>13 DEF Reload, storeVars, StoreKept
  <2>2. /\ job[s].request.name = "analyze_report"
        /\ job[s].request.name \in Publishing /\ job[s].step \in PipelineSteps
    BY <1>5, <2>1 DEF At, PipelineSteps
  <2>3. CASE RowsWithId(job[s].id) = {} /\ Raises(s, "VANISHED")
    BY <2>1, <2>2, <2>3, RaisesFails DEF Vanished
  <2>4. ASSUME NEW todo,
               job' = [ job EXCEPT ![s].step = "timeline", ![s].todo = todo ]
        PROVE  Doing(s)
    <3>1. TurnTo(s, "timeline")
      BY <2>4, JobShape DEF TurnTo, Turn, Others
    <3> QED
      BY <2>1, <2>2, <3>1, EdgeDoing DEF Edge, At
  <2> QED
    BY <1>13, <2>1, <2>2, <2>3, <2>4, BreaksFails DEF Reload
<1>14. CASE RecordEntry(s) \/ EntriesDone(s)
  <2>1. StoreKept /\ UNCHANGED answers /\ At(s, "timeline")
    BY <1>14 DEF RecordEntry, EntriesDone, AppendEntry, storeVars, StoreKept
  <2>2. job[s].request.name = "analyze_report"
    BY <1>5, <2>1 DEF At, PipelineSteps
  <2>3. CASE GoTo(s, "complete")
    BY <2>1, <2>2, <2>3, EdgeDoing, TurnsTo DEF Edge, At
  <2>4. CASE job' = [ job EXCEPT ![s].todo = Tail(@) ]
    <3>1. TurnTo(s, "timeline")
      BY <2>1, <2>4, JobShape DEF TurnTo, Turn, Others, At
    <3> QED
      BY <2>1, <2>2, <3>1, EdgeDoing DEF Edge, At
  <2> QED
    BY <1>14, <2>3, <2>4 DEF RecordEntry, EntriesDone
<1> QED
  BY <1>1, <1>2, <1>3, <1>4, <1>6, <1>7, <1>8, <1>9, <1>10, <1>11, <1>12,
     <1>13, <1>14 DEF AnalyzeStep

(* Taking a request, being killed and starting again *)
LEMMA AcceptDoing ==
  ASSUME JobsInv, PlacesInv, NEW s \in Sidecars, Accept(s)
  PROVE  Doing(s)
<1> DEFINE request == Head(inbox[s])
           verdict == Verdict(request.name, request.payload)
<1>1. StoreKept /\ LoopIdle(s)
  BY DEF Accept, storeVars, StoreKept
<1>2. ASSUME UNCHANGED job, NEW a, Appended(s, a), a.code # "VANISHED",
             a.ok => a.request.name = "search_investigations"
      PROVE  Doing(s)
  <2>1. Rests(s)
    BY <1>1, <1>2 DEF Rests, Others, LoopIdle, At, PlacesInv, PlaceOK, Late
  <2>2. Tells(s, a) /\ Confirms(s, a)
    BY <1>1, <1>2 DEF Tells, Confirms, ReplacesFile, LoopIdle, At
  <2> QED
    BY <1>1, <1>2, <2>1, <2>2 DEF Doing, Replies
<1>3. ASSUME NEW code, Refuse(s, request, code), code # "VANISHED" PROVE Doing(s)
  <2> DEFINE a == Answer(request, FALSE, code, 0, FALSE, << >>)
  <2>1. UNCHANGED job /\ Appended(s, a) /\ a.code = code /\ a.ok = FALSE
    BY <1>3 DEF Refuse, Appended, Answer
  <2> HIDE DEF a
  <2> QED
    BY <1>2, <1>3, <2>1
<1>4. verdict # "VANISHED"
  BY DEF Verdict
<1>5. CASE BlankSearch(request) /\ UNCHANGED job
             /\ Appended(s, Answer(request, TRUE, "none", 0, FALSE, << >>))
  <2> DEFINE a == Answer(request, TRUE, "none", 0, FALSE, << >>)
  <2>1. Appended(s, a) /\ a.code = "none" /\ a.request = request
    BY <1>5 DEF Answer
  <2>2. request.name = "search_investigations"
    BY <1>5 DEF BlankSearch
  <2> HIDE DEF a
  <2> QED
    BY <1>2, <1>5, <2>1, <2>2
<1>6. CASE verdict = "accepted" /\ Start(s, request)
  <2> DEFINE j == [ Idle EXCEPT !.request = request,
                                !.step = FirstStep(request.name),
                                !.id = RequestedId(request) ]
  <2>1. job' = [ job EXCEPT ![s] = j ] /\ UNCHANGED answers
    BY <1>6 DEF Start
  <2>2. request.name \in CommandNames
    BY <1>6 DEF Verdict
  <2> HIDE DEF request
  <2>3. /\ j.request = request /\ j.step = FirstStep(request.name)
        /\ j.existing = FALSE /\ j.code = "none"
    BY DEF Idle
  <2> HIDE DEF j
  <2>4. Others(s) /\ job'[s] = j
    BY <2>1, JobShape DEF Others
  <2> QED
    BY <1>1, <1>6, <2>1, <2>2, <2>3, <2>4 DEF Doing, Begins
<1> QED
  BY <1>3, <1>4, <1>5, <1>6 DEF Accept, Appended

LEMMA KillDoing ==
  ASSUME JobsInv, AnswersInv, NEW s \in Sidecars, Kill(s)
  PROVE  Doing(s)
<1>1. job' = [ job EXCEPT ![s] = Down ] /\ StoreKept
  BY DEF Kill, storeVars, StoreKept
<1>2. Rests(s)
  BY <1>1, JobShape DEF Rests, Others, Down, Idle
<1>3. CASE LoopIdle(s)
  <2>1. answers' = [ answers EXCEPT ![s] = @ ]
    BY <1>3 DEF Kill
  <2> QED
    BY <1>1, <1>2, <1>3, <2>1 DEF AnswersInv, Doing, Pauses, LoopIdle, At
<1>4. CASE ~ LoopIdle(s)
  <2> DEFINE a == Answer(job[s].request, FALSE, "LOST", job[s].id, FALSE, << >>)
  <2>1. /\ Appended(s, a) /\ a.ok = FALSE /\ a.code = "LOST"
        /\ a.request = job[s].request
    BY <1>4 DEF Kill, Appended, Answer
  <2> HIDE DEF a
  <2> QED
    BY <1>1, <1>2, <2>1 DEF Doing, Replies, Tells, Confirms
<1> QED
  BY <1>3, <1>4

LEMMA SidecarDoing ==
  ASSUME JobsInv, AnswersInv, PlacesInv, NEW s \in Sidecars,
         CommandStep(s) \/ Kill(s) \/ Restart(s)
  PROVE  Doing(s)
<1>1. ASSUME Restart(s) PROVE Doing(s)
  BY <1>1, RestsIdle DEF Restart, At, Doing, Pauses, storeVars, StoreKept
<1> QED
  BY <1>1, StoreDoing, ReturnDoing, FileDoing, AnalyzeDoing, AcceptDoing,
     KillDoing DEF CommandStep

HIDE DEF AnswersKept

-----------------------------------------------------------------------------
(***************************************************************************)
(* What a step keeps                                                       *)
(***************************************************************************)
(* An answer is added at the end. *)
LEMMA AnswerAdded ==
  ASSUME AnswersInv, NEW s \in Sidecars, NEW a, Appended(s, a)
  PROVE  /\ Current(s) \in Nat \ { 0 } /\ Len(answers[s]) \in Nat
         /\ Current(s)' = Current(s) + 1
         /\ Answered(s)' = Answered(s) \cup { Current(s) }
         /\ answers'[s][Current(s)] = a
         /\ \A n \in Answered(s) : answers'[s][n] = answers[s][n]
         /\ \A t \in Sidecars : t # s => answers'[t] = answers[t]
<1>1. PICK S : answers[s] \in Seq(S)
  BY DEF AnswersInv
<1>2. answers'[s] = Append(answers[s], a)
      /\ \A t \in Sidecars : t # s => answers'[t] = answers[t]
  BY DEF AnswersInv, Appended
<1>3. /\ Len(answers[s]) \in Nat /\ Len(answers'[s]) = Len(answers[s]) + 1
      /\ answers'[s][Len(answers[s]) + 1] = a
      /\ \A n \in 1 .. Len(answers[s]) : answers'[s][n] = answers[s][n]
  BY <1>1, <1>2
<1> QED
  BY <1>2, <1>3 DEF Current, Answered

(* Which commands come to which steps *)
LEMMA PlacesStep ==
  ASSUME JobsInv, PlacesInv, NEW s \in Sidecars, Doing(s)
  PROVE  PlacesInv'
<1> SUFFICES PlaceOK(job'[s])
  <2>1. Others(s)
    BY DEF Doing, Proceeds, Fails, Finds, Creates, Removes, Begins, Replies,
           Pauses, TurnTo, Turn, Rests
  <2> QED
    BY <2>1 DEF PlacesInv, Others, PlaceOK
<1>1. PlaceOK(job[s])
  BY DEF PlacesInv
<1>2. job[s].step \in { "find", "resolve", "insert" }
        => job[s].request.name = "analyze_report"
  BY Analyzing DEF PipelineSteps
<1> USE DEF PlaceOK, Publishing, Late
<1>3. CASE Proceeds(s)
  <2>1. PICK y \in Steps : /\ Edge(job[s].request.name, job[s].step, y)
                           /\ TurnTo(s, y)
    BY <1>3 DEF Proceeds
  <2>2. /\ job'[s].step = y /\ job'[s].request = job[s].request
        /\ job'[s].existing = job[s].existing /\ job'[s].code = job[s].code
    BY <2>1 DEF TurnTo, Turn
  <2> QED
    BY <1>1, <2>1, <2>2 DEF Edge, ReplacesFile
<1>4. CASE Fails(s)
  BY <1>1, <1>4 DEF Fails, Turn, ErrorCodes
<1>5. CASE Finds(s)
  BY <1>1, <1>2, <1>5 DEF Finds, Turn
<1>6. CASE Creates(s)
  BY <1>1, <1>2, <1>6 DEF Creates, Turn, Inserts, At
<1>7. CASE Begins(s)
  BY <1>7, FirstSteps DEF Begins
<1>8. CASE Rests(s)
  BY <1>1, <1>8 DEF Rests, LoopIdle, At
<1>9. CASE Removes(s)
  BY <1>1, <1>9 DEF Removes, Turn, At, Named
<1> QED
  BY <1>3, <1>4, <1>5, <1>6, <1>7, <1>8, <1>9 DEF Doing, Replies, Pauses

(* A claim that was there before, or one that just comes up *)
Kept(t, n) ==
  /\ n \in Claims(t)
  /\ Claim(t, n)'.id = Claim(t, n).id
  /\ Claim(t, n)'.existing = Claim(t, n).existing
  /\ Claim(t, n)'.request = Claim(t, n).request

Fresh(t, n, s) ==
  /\ t = s /\ n = Current(s) /\ ClaimOK(t, n)'
  /\ Claim(t, n)'.existing \/ Claim(t, n)'.id = lastId + 1

LEMMA ClaimsExtend ==
  ASSUME RowsInv, ClaimsInv, NEW s \in Sidecars,
         lastId' \in Nat, lastId <= lastId',
         \A row \in rows' : row.id \in 1 .. lastId => row \in rows,
         \A t \in Sidecars : \A n \in Claims(t)' : Kept(t, n) \/ Fresh(t, n, s)
  PROVE  ClaimsInv'
<1>1. ASSUME NEW t \in Sidecars, NEW n \in Claims(t)'
      PROVE  ClaimOK(t, n)'
  <2>1. CASE Kept(t, n)
    <3>1. ClaimOK(t, n)
      BY <2>1 DEF Kept, ClaimsInv
    <3>2. /\ Claim(t, n)'.id \in 1 .. lastId /\ lastId \in Nat
          /\ Claim(t, n)'.id \in 1 .. lastId'
      BY <2>1, <3>1 DEF Kept, ClaimOK, RowsInv
    <3>3. ASSUME NEW row \in RowsWithId(Claim(t, n).id)'
          PROVE  row \in RowsWithId(Claim(t, n).id)
      BY <2>1, <3>2, <3>3 DEF Kept, RowsWithId
    <3> QED
      BY <2>1, <3>1, <3>2, <3>3 DEF Kept, ClaimOK
  <2> QED
    BY <1>1, <2>1 DEF Fresh
<1>2. ASSUME NEW t \in Sidecars, NEW u \in Sidecars,
             NEW n \in Claims(t)', NEW m \in Claims(u)',
             ~ Claim(t, n)'.existing, ~ Claim(u, m)'.existing,
             Claim(t, n)'.id = Claim(u, m)'.id
      PROVE  << t, n >> = << u, m >>
  <2>1. \A v \in Sidecars : \A k \in Claims(v)' :
          Kept(v, k) => Claim(v, k)'.id \in 1 .. lastId
    BY DEF Kept, ClaimsInv, ClaimOK
  <2>2. lastId \in Nat /\ lastId + 1 \notin 1 .. lastId
    BY DEF RowsInv
  <2>3. CASE Kept(t, n) /\ Kept(u, m)
    BY <1>2, <2>3 DEF Kept, ClaimsInv
  <2>4. CASE Fresh(t, n, s) /\ Fresh(u, m, s)
    BY <2>4 DEF Fresh
  <2>5. CASE \/ Kept(t, n) /\ Fresh(u, m, s)
             \/ Fresh(t, n, s) /\ Kept(u, m)
    BY <1>2, <2>1, <2>2, <2>5 DEF Fresh
  <2> QED
    BY <2>3, <2>4, <2>5
<1> QED
  BY <1>1, <1>2 DEF ClaimsInv

(* Who claims what after a step *)
LEMMA ClaimsOf ==
  ASSUME AnswersInv, NEW s \in Sidecars, NEW n
  PROVE  /\ Answered(s) \subseteq Nat /\ Current(s) \notin Answered(s)
         /\ n \in Claims(s) <=>
              \/ n \in Analyses(s)
              \/ n = Current(s) /\ Holding(s)
         /\ n \in Analyses(s) => n \in Answered(s) /\ Claim(s, n) = answers[s][n]
         /\ Claim(s, Current(s)) = job[s]
<1>1. PICK S : answers[s] \in Seq(S)
  BY DEF AnswersInv
<1>2. Answered(s) \subseteq Nat /\ Current(s) \notin Answered(s)
  BY <1>1 DEF Answered, Current
<1> QED
  BY <1>2 DEF Claims, Claim, Analyses

(* A sidecar that answers nothing claims at most its running command.      *)
LEMMA ClaimsSame ==
  ASSUME AnswersInv, NEW t \in Sidecars, answers'[t] = answers[t],
         Holding(t)' =>
           /\ Holding(t) /\ job'[t].id = job[t].id
           /\ job'[t].existing = job[t].existing
           /\ job'[t].request = job[t].request
  PROVE  \A n \in Claims(t)' : Kept(t, n)
BY DEF Claims, Claim, Analyses, Answered, Current, Kept

(* A sidecar that did nothing claims what it claimed. *)
LEMMA OthersClaims ==
  ASSUME AnswersInv, NEW t \in Sidecars, answers'[t] = answers[t],
         job'[t] = job[t]
  PROVE  \A n \in Claims(t)' : Kept(t, n)
<1>1. Holding(t)' => Holding(t)
  BY DEF Holding, Named, At
<1> QED
  BY <1>1, ClaimsSame

(* A command that goes on, fails, begins or ends claims nothing new. *)
LEMMA ProceedClaims ==
  ASSUME AnswersInv, PlacesInv, NEW s \in Sidecars,
         \/ Proceeds(s) \/ Fails(s) \/ Removes(s) \/ Begins(s) \/ Pauses(s)
  PROVE  \A n \in Claims(s)' : Kept(s, n)
<1> USE DEF Holding, Named, At
<1>1. answers'[s] = answers[s]
  BY DEF Proceeds, Fails, Removes, Begins, Pauses, AnswersKept
<1>2. CASE Proceeds(s)
  <2>1. PICK y \in Steps : /\ Edge(job[s].request.name, job[s].step, y)
                           /\ TurnTo(s, y)
    BY <1>2 DEF Proceeds
  <2>2. /\ job'[s].step = y /\ job'[s].request = job[s].request
        /\ job'[s].id = job[s].id
        /\ job'[s].existing = job[s].existing /\ job'[s].code = job[s].code
    BY <2>1 DEF TurnTo, Turn
  <2>3. Holding(s)' => Holding(s)
    BY <2>1, <2>2 DEF Edge, PlacesInv, PlaceOK, Publishing, Late
  <2> QED
    BY <1>1, <2>2, <2>3, ClaimsSame
<1>3. CASE Fails(s)
  <2>1. ~ Holding(s)'
    BY <1>3 DEF Fails, Turn, ErrorCodes
  <2> QED
    BY <1>1, <2>1, ClaimsSame
<1>4. CASE Begins(s)
  <2>1. ~ Holding(s)'
    BY <1>4, FirstSteps DEF Begins
  <2> QED
    BY <1>1, <2>1, ClaimsSame
<1>5. CASE Pauses(s)
  <2>1. ~ Holding(s)'
    BY <1>5 DEF Pauses, Rests
  <2> QED
    BY <1>1, <2>1, ClaimsSame
<1>6. CASE Removes(s)
  <2>1. ~ Holding(s)'
    BY <1>6 DEF Removes, Turn
  <2> QED
    BY <1>1, <2>1, ClaimsSame
<1> QED
  BY <1>2, <1>3, <1>4, <1>5, <1>6

(* An answer claims what the running analysis claimed. *)
LEMMA ReplyClaims ==
  ASSUME AnswersInv, NEW s \in Sidecars, Replies(s)
  PROVE  \A n \in Claims(s)' : Kept(s, n)
<1>1. PICK a : /\ Appended(s, a)
               /\ a.ok /\ a.request.name = "analyze_report" =>
                    /\ Holding(s) /\ a.request = job[s].request
                    /\ a.id = job[s].id /\ a.existing = job[s].existing
  BY DEF Replies
<1>2. ~ Holding(s)'
  BY DEF Replies, Rests, Holding, At
<1>3. ASSUME NEW n \in Claims(s)' PROVE Kept(s, n)
  <2>1. /\ n \in Answered(s)' /\ answers'[s][n].ok
        /\ answers'[s][n].request.name = "analyze_report"
    BY <1>2 DEF Claims, Analyses
  <2>2. Claim(s, n)' = answers'[s][n]
    BY <2>1 DEF Claim
  <2>3. CASE n \in Answered(s)
    <3>1. answers'[s][n] = answers[s][n]
      BY <1>1, <2>3, AnswerAdded
    <3> QED
      BY <2>1, <2>2, <2>3, <3>1 DEF Kept, Claims, Analyses, Claim
  <2>4. CASE n = Current(s)
    <3>1. answers'[s][n] = a /\ Current(s) \notin Answered(s)
      BY <1>1, <2>4, AnswerAdded, ClaimsOf
    <3> QED
      BY <1>1, <2>1, <2>2, <2>4, <3>1 DEF Kept, Claims, Claim
  <2> QED
    BY <1>1, <2>1, <2>3, <2>4, AnswerAdded
<1> QED
  BY <1>3

(* The one that finds a row claims it, and has not stored it. *)
LEMMA FindClaims ==
  ASSUME RowsInv, AnswersInv, AuthorsInv, NEW s \in Sidecars, Finds(s)
  PROVE  \A n \in Claims(s)' : Kept(s, n) \/ Fresh(s, n, s)
<1>1. PICK row \in RowsOfReport(Report(s)), x \in { "reload", "complete" } :
        Turn(s, x, row.id, TRUE, job[s].code)
  BY DEF Finds
<1>2. answers'[s] = answers[s] /\ rows' = rows /\ lastId' = lastId
      /\ job[s].step \in { "find", "resolve" }
  BY DEF Finds, AnswersKept, StoreKept
<1>3. job'[s].id = row.id /\ job'[s].existing = TRUE
      /\ job'[s].request = job[s].request
  BY <1>1 DEF Turn
<1>4. row \in rows /\ row.report = Report(s) /\ row.id \in 1 .. lastId
      /\ RowsWithId(row.id) = { row }
  BY DEF RowsOfReport, RowsWithId, RowsInv
<1>5. row.by # << s, Current(s) >>
  BY <1>2, <1>4 DEF AuthorsInv, Late
<1>6. ASSUME NEW n \in Claims(s)' PROVE Kept(s, n) \/ Fresh(s, n, s)
  <2>1. Answered(s)' = Answered(s) /\ Current(s)' = Current(s)
    BY <1>2 DEF Answered, Current
  <2>2. CASE n \in Analyses(s)'
    BY <1>2, <2>1, <2>2 DEF Kept, Claims, Analyses, Claim
  <2>3. CASE n = Current(s)
    <3>1. Claim(s, n)' = job'[s]
      BY <2>1, <2>3, ClaimsOf DEF Claim
    <3>2. RowsWithId(Claim(s, n).id)' = { row }
      BY <1>2, <1>3, <1>4, <3>1 DEF RowsWithId
    <3>3. Claim(s, n)'.request.payload["report_path"][2] = row.report
      BY <1>3, <1>4, <3>1 DEF Report, Payload
    <3>4. ClaimOK(s, n)'
      BY <1>2, <1>3, <1>4, <1>5, <2>3, <3>1, <3>2, <3>3 DEF ClaimOK
    <3> QED
      BY <1>3, <2>3, <3>1, <3>4 DEF Fresh
  <2> QED
    BY <2>1, <2>2, <2>3 DEF Claims
<1> QED
  BY <1>6

(* The one that stores a row claims it as its own. *)
LEMMA CreateClaims ==
  ASSUME RowsInv, AnswersInv, PlacesInv, NEW s \in Sidecars, Creates(s)
  PROVE  \A n \in Claims(s)' : Kept(s, n) \/ Fresh(s, n, s)
<1> DEFINE row == NewRow(s)
<1>1. /\ answers'[s] = answers[s] /\ rows' = rows \cup { row }
      /\ lastId' = lastId + 1
  BY DEF Creates, AnswersKept, Inserts, Insert, NewRow, NextId
<1>2. /\ row.id = lastId + 1 /\ row.report = Report(s)
      /\ row.by = << s, Current(s) >>
  BY DEF NewRow, NextId, CommandOf
<1> HIDE DEF row
<1>3. /\ job'[s].id = lastId + 1 /\ ~ job'[s].existing
      /\ job'[s].request = job[s].request
  BY DEF Creates, Turn, NextId, Inserts, At, PlacesInv, PlaceOK, Late
<1>4. { other \in rows' : other.id = lastId + 1 } = { row }
  BY <1>1, <1>2 DEF RowsInv
<1>5. ASSUME NEW n \in Claims(s)' PROVE Kept(s, n) \/ Fresh(s, n, s)
  <2>1. Answered(s)' = Answered(s) /\ Current(s)' = Current(s)
    BY <1>1 DEF Answered, Current
  <2>2. CASE n \in Analyses(s)'
    BY <1>1, <2>1, <2>2 DEF Kept, Claims, Analyses, Claim
  <2>3. CASE n = Current(s)
    <3>1. Claim(s, n)' = job'[s]
      BY <2>1, <2>3, ClaimsOf DEF Claim
    <3>2. RowsWithId(Claim(s, n).id)' = { row }
      BY <1>3, <1>4, <3>1 DEF RowsWithId
    <3>3. Claim(s, n)'.request.payload["report_path"][2] = row.report
      BY <1>2, <1>3, <3>1 DEF Report, Payload
    <3>4. lastId + 1 \in 1 .. lastId'
      BY <1>1 DEF RowsInv
    <3>5. ClaimOK(s, n)'
      BY <1>2, <1>3, <2>3, <3>1, <3>2, <3>3, <3>4 DEF ClaimOK
    <3> QED
      BY <1>3, <2>3, <3>1, <3>5 DEF Fresh
  <2> QED
    BY <2>1, <2>2, <2>3 DEF Claims
<1> QED
  BY <1>5

LEMMA ClaimsStep ==
  ASSUME RowsInv, JobsInv, AnswersInv, PlacesInv, AuthorsInv, ClaimsInv,
         NEW s \in Sidecars, Doing(s)
  PROVE  ClaimsInv'
<1>1. ASSUME NEW t \in Sidecars, t # s PROVE \A n \in Claims(t)' : Kept(t, n)
  <2>1. answers'[t] = answers[t] /\ job'[t] = job[t]
    BY <1>1, AnswerAdded
       DEF Doing, Proceeds, Fails, Finds, Creates, Removes, Begins, Replies,
           Pauses, AnswersKept, TurnTo, Turn, Rests, Others
  <2> QED
    BY <2>1, OthersClaims
<1>2. \A n \in Claims(s)' : Kept(s, n) \/ Fresh(s, n, s)
  BY ProceedClaims, ReplyClaims, FindClaims, CreateClaims DEF Doing
<1>3. /\ lastId' \in Nat /\ lastId <= lastId'
      /\ \A row \in rows' : row.id \in 1 .. lastId => row \in rows
  <2>1. CASE StoreKept
    BY <2>1 DEF StoreKept, RowsInv
  <2>2. CASE Inserts(s)
    <3>1. /\ rows' = rows \cup { NewRow(s) } /\ lastId' = lastId + 1
          /\ NewRow(s).id = lastId + 1
      BY <2>2 DEF Inserts, Insert, NewRow, NextId
    <3> QED
      BY <3>1 DEF RowsInv
  <2>3. CASE Delete(job[s].id)
    BY <2>3 DEF Delete, RowsInv
  <2> QED
    BY <2>1, <2>2, <2>3
       DEF Doing, Proceeds, Fails, Finds, Creates, Removes, Begins, Replies,
           Pauses
<1> QED
  BY <1>1, <1>2, <1>3, ClaimsExtend

(* A command past its insert stays there until it answers. *)
LEMMA LateStays ==
  ASSUME AnswersInv, PlacesInv, NEW s \in Sidecars, Doing(s)
  PROVE  /\ Current(s) <= Current(s)'
         /\ Current(s)' = Current(s) /\ job[s].step \in Late
              => job'[s].step \in Late
<1>1. PICK S : answers[s] \in Seq(S)
  BY DEF AnswersInv
<1>2. Current(s) \in Nat
  BY <1>1 DEF Current
<1>3. CASE Replies(s)
  BY <1>2, <1>3, AnswerAdded DEF Replies
<1>4. CASE ~ Replies(s)
  <2>1. Current(s)' = Current(s)
    BY <1>4 DEF Doing, Proceeds, Fails, Finds, Creates, Removes, Begins, Pauses,
                AnswersKept, Current
  <2>2. CASE Proceeds(s)
    <3>1. PICK y \in Steps : /\ Edge(job[s].request.name, job[s].step, y)
                             /\ TurnTo(s, y)
      BY <2>2 DEF Proceeds
    <3>2. job[s].step \in Late => y \in Late
      BY <3>1 DEF Edge, Late
    <3> QED
      BY <1>2, <2>1, <3>1, <3>2 DEF TurnTo, Turn
  <2>3. CASE \/ Fails(s) \/ Finds(s) \/ Creates(s) \/ Removes(s)
             \/ Begins(s) \/ Pauses(s)
    BY <1>2, <2>1, <2>3
       DEF Fails, Finds, Creates, Removes, Begins, Pauses, Turn, LoopIdle, At,
           Late
  <2> QED
    BY <1>4, <2>2, <2>3 DEF Doing
<1> QED
  BY <1>3, <1>4

LEMMA AuthorsStep ==
  ASSUME AnswersInv, PlacesInv, AuthorsInv, NEW s \in Sidecars, Doing(s)
  PROVE  AuthorsInv'
<1>1. ASSUME NEW t \in Sidecars
      PROVE  /\ Current(t) \in Nat /\ Current(t)' \in Nat
             /\ Current(t) <= Current(t)'
             /\ Current(t)' = Current(t) /\ job[t].step \in Late
                  => job'[t].step \in Late
  <2>1. PICK S : answers[t] \in Seq(S)
    BY DEF AnswersInv
  <2>2. Current(t) \in Nat
    BY <2>1 DEF Current
  <2>3. CASE t # s
    <3>1. answers'[t] = answers[t] /\ job'[t] = job[t]
      BY <2>3, AnswerAdded
         DEF Doing, Proceeds, Fails, Finds, Creates, Removes, Begins, Replies,
             Pauses, AnswersKept, TurnTo, Turn, Rests, Others
    <3> QED
      BY <2>2, <3>1 DEF Current
  <2>4. CASE t = s
    <3>1. Current(s)' \in Nat
      <4>1. CASE Replies(s)
        BY <2>2, <2>4, <4>1, AnswerAdded DEF Replies
      <4>2. CASE AnswersKept
        BY <2>2, <2>4, <4>2 DEF AnswersKept, Current
      <4> QED
        BY <4>1, <4>2
           DEF Doing, Proceeds, Fails, Finds, Creates, Removes, Begins, Pauses
    <3> QED
      BY <2>2, <2>4, <3>1, LateStays
  <2> QED
    BY <2>3, <2>4
<1>2. ASSUME NEW row \in rows
      PROVE  \E t \in Sidecars : \E n \in 1 .. Current(t)' :
               row.by = << t, n >> /\ (n = Current(t)' => job'[t].step \in Late)
  <2> PICK t \in Sidecars : \E n \in 1 .. Current(t) :
          row.by = << t, n >> /\ (n = Current(t) => job[t].step \in Late)
    BY DEF AuthorsInv
  <2>1. PICK n \in 1 .. Current(t) :
          row.by = << t, n >> /\ (n = Current(t) => job[t].step \in Late)
    OBVIOUS
  <2>2. n \in 1 .. Current(t)' /\ (n = Current(t)' => n = Current(t))
    BY <1>1
  <2>3. n = Current(t)' => job'[t].step \in Late
    BY <1>1, <2>1, <2>2
  <2> QED
    BY <2>1, <2>2, <2>3
<1>3. CASE StoreKept \/ Delete(job[s].id)
  <2>1. rows' \subseteq rows
    BY <1>3 DEF StoreKept, Delete
  <2> QED
    BY <1>2, <2>1 DEF AuthorsInv
<1>4. CASE Creates(s)
  <2>1. rows' = rows \cup { NewRow(s) } /\ NewRow(s).by = << s, Current(s) >>
    BY <1>4 DEF Creates, Inserts, Insert, NewRow, CommandOf
  <2>2. Current(s)' = Current(s) /\ job'[s].step \in Late
    BY <1>4 DEF Creates, Turn, Late, AnswersKept, Current
  <2>3. Current(s) \in 1 .. Current(s)'
    <3>1. PICK S : answers[s] \in Seq(S)
      BY DEF AnswersInv
    <3> QED
      BY <2>2, <3>1 DEF Current
  <2> QED
    BY <1>2, <2>1, <2>2, <2>3 DEF AuthorsInv
<1> QED
  BY <1>3, <1>4
     DEF Doing, Proceeds, Fails, Finds, Removes, Begins, Replies, Pauses

(* What was deleted stays deleted: an id is never given out again. *)
LEMMA DeletedStays ==
  ASSUME RowsInv, NEW s \in Sidecars, Doing(s), SomethingDeleted
  PROVE  SomethingDeleted'
<1>1. PICK id \in 1 .. lastId : id \notin Ids
  BY DEF SomethingDeleted
<1>2. CASE StoreKept \/ Delete(job[s].id)
  BY <1>1, <1>2 DEF StoreKept, Delete, SomethingDeleted, Ids
<1>3. CASE Inserts(s)
  <2>1. /\ rows' = rows \cup { NewRow(s) } /\ lastId' = lastId + 1
        /\ NewRow(s).id = lastId + 1 /\ lastId \in Nat
    BY <1>3 DEF Inserts, Insert, NewRow, NextId, RowsInv
  <2> QED
    BY <1>1, <2>1 DEF SomethingDeleted, Ids
<1> QED
  BY <1>2, <1>3 DEF Doing, Proceeds, Fails, Finds, Creates, Removes, Begins,
                    Replies, Pauses

(* A step that deletes nothing keeps every row. *)
LEMMA RowsStay ==
  ASSUME RowsInv, NEW s \in Sidecars, Doing(s), ~ SomethingDeleted'
  PROVE  rows \subseteq rows'
<1>1. CASE StoreKept \/ Inserts(s)
  BY <1>1 DEF StoreKept, Inserts, Insert
<1>2. CASE Delete(job[s].id)
  <2>1. ASSUME NEW row \in rows, row \notin rows' PROVE FALSE
    <3>1. row.id = job[s].id /\ rows' = rows \ RowsWithId(row.id)
      BY <1>2, <2>1 DEF Delete, RowsWithId
    <3>2. row.id \in 1 .. lastId' /\ \A other \in rows' : other.id # row.id
      BY <1>2, <3>1 DEF Delete, RowsWithId, RowsInv
    <3> QED
      BY <3>2 DEF SomethingDeleted, Ids
  <2> QED
    BY <2>1
<1> QED
  BY <1>1, <1>2 DEF Doing, Proceeds, Fails, Finds, Creates, Removes, Begins,
                    Replies, Pauses

(* What an analysis has seen is there as long as nobody deletes.           *)
LEMMA VanishedStep ==
  ASSUME RowsInv, AnswersInv, PlacesInv, VanishedInv, NEW s \in Sidecars, Doing(s)
  PROVE  VanishedInv'
<1> SUFFICES ASSUME ~ SomethingDeleted'
             PROVE  VanishedInv'
  BY DEF VanishedInv
<1>1. ~ SomethingDeleted
  BY DeletedStays
<1>2. \A t \in Sidecars :
        /\ job[t].step \in { "find", "resolve" } => RowsOfReport(Report(t)) # {}
        /\ At(t, "reload") => RowsWithId(job[t].id) # {}
        /\ job[t].code # "VANISHED"
        /\ \A n \in Answered(t) : answers[t][n].code # "VANISHED"
  BY <1>1 DEF VanishedInv
<1>3. rows \subseteq rows'
  BY RowsStay
<1>4. ASSUME NEW t \in Sidecars, job'[t] = job[t]
      PROVE  /\ job'[t].step \in { "find", "resolve" }
                  => RowsOfReport(Report(t))' # {}
             /\ At(t, "reload")' => RowsWithId(job[t].id)' # {}
             /\ job'[t].code # "VANISHED"
  <2>1. Report(t)' = Report(t)
    BY <1>4 DEF Report, Payload
  <2> QED
    BY <1>2, <1>3, <1>4, <2>1 DEF At, RowsOfReport, RowsWithId
<1>5. /\ job'[s].step \in { "find", "resolve" } => RowsOfReport(Report(s))' # {}
      /\ At(s, "reload")' => RowsWithId(job[s].id)' # {}
      /\ job'[s].code # "VANISHED"
  <2>1. CASE Proceeds(s)
    <3>1. PICK y \in Steps :
            /\ Edge(job[s].request.name, job[s].step, y) /\ TurnTo(s, y)
            /\ y \in { "find", "resolve" } => RowsOfReport(Report(s)) # {}
      BY <2>1 DEF Proceeds
    <3>2. /\ job'[s].step = y /\ job'[s].request = job[s].request
          /\ job'[s].code = job[s].code /\ Report(s)' = Report(s)
      BY <3>1 DEF TurnTo, Turn, Report, Payload
    <3>3. y # "reload"
      BY <3>1 DEF Edge
    <3> QED
      BY <1>2, <1>3, <3>1, <3>2, <3>3 DEF At, RowsOfReport
  <2>2. CASE Fails(s)
    <3>1. ~ Vanished(s)
      BY <1>2 DEF Vanished
    <3> QED
      BY <2>2, <3>1 DEF Fails, Turn, At
  <2>3. CASE Finds(s)
    <3>1. PICK row \in RowsOfReport(Report(s)), x \in { "reload", "complete" } :
            Turn(s, x, row.id, TRUE, job[s].code)
      BY <2>3 DEF Finds
    <3>2. row \in rows' /\ job'[s].id = row.id /\ job'[s].step = x
          /\ job'[s].code = job[s].code
      BY <1>3, <3>1 DEF Turn, RowsOfReport
    <3> QED
      BY <1>2, <3>2 DEF At, RowsWithId
  <2>4. CASE Creates(s)
    <3>1. NewRow(s) \in rows' /\ NewRow(s).id = NextId /\ job'[s].id = NextId
          /\ job'[s].step = "reload" /\ job'[s].code = job[s].code
      BY <2>4 DEF Creates, Inserts, Insert, NewRow, Turn
    <3> QED
      BY <1>2, <3>1 DEF At, RowsWithId
  <2>5. CASE Begins(s) \/ Rests(s)
    BY <2>5, FirstSteps DEF Begins, Rests, At
  <2>6. CASE Removes(s)
    BY <1>2, <2>6 DEF Removes, Turn, At
  <2> QED
    BY <2>1, <2>2, <2>3, <2>4, <2>5, <2>6 DEF Doing, Replies, Pauses
<1>6. ASSUME NEW t \in Sidecars, t # s PROVE job'[t] = job[t]
  BY <1>6 DEF Doing, Proceeds, Fails, Finds, Creates, Removes, Begins, Replies,
              Pauses, TurnTo, Turn, Rests, Others
<1>7. \A t \in Sidecars : \A n \in Answered(t)' : answers'[t][n].code # "VANISHED"
  <2>1. CASE AnswersKept
    BY <1>2, <2>1 DEF AnswersKept, Answered
  <2>2. CASE Replies(s)
    <3>1. PICK a : /\ Appended(s, a)
                   /\ a.code = "VANISHED" => job[s].code = "VANISHED"
      BY <2>2 DEF Replies
    <3>2. \A n \in Answered(s)' : answers'[s][n].code # "VANISHED"
      BY <1>2, <3>1, AnswerAdded
    <3>3. \A t \in Sidecars : t # s =>
            answers'[t] = answers[t] /\ Answered(t)' = Answered(t)
      BY <3>1, AnswerAdded DEF Answered
    <3> QED
      BY <1>2, <3>2, <3>3
  <2> QED
    BY <2>1, <2>2
       DEF Doing, Proceeds, Fails, Finds, Creates, Removes, Begins, Pauses
<1> QED
  BY <1>4, <1>5, <1>6, <1>7 DEF VanishedInv

(* A step of a window leaves all of it alone. *)
LEMMA DuplicatesSame ==
  ASSUME DuplicatesInv, UNCHANGED << job, answers, rows, lastId >>
  PROVE  DuplicatesInv'
<1>1. \A s \in Sidecars :
        /\ Answered(s)' = Answered(s) /\ Current(s)' = Current(s)
        /\ Analyses(s)' = Analyses(s) /\ (Holding(s)' <=> Holding(s))
        /\ Report(s)' = Report(s)
  BY DEF Answered, Current, Analyses, Holding, Named, At, Report, Payload
<1>2. \A s \in Sidecars : Claims(s)' = Claims(s)
  BY <1>1 DEF Claims
<1>3. \A s \in Sidecars : \A n : Claim(s, n)' = Claim(s, n)
  BY <1>1 DEF Claim
<1>4. PlacesInv'
  BY DEF DuplicatesInv, PlacesInv, PlaceOK
<1>5. AuthorsInv'
  BY <1>1 DEF DuplicatesInv, AuthorsInv
<1>6. ClaimsInv'
  BY <1>2, <1>3 DEF DuplicatesInv, ClaimsInv, ClaimOK, RowsWithId
<1>7. VanishedInv'
  BY <1>1 DEF DuplicatesInv, VanishedInv, SomethingDeleted, Ids, At,
              RowsOfReport, RowsWithId
<1> QED
  BY <1>4, <1>5, <1>6, <1>7 DEF DuplicatesInv

LEMMA DuplicatesStep == CommandsInv /\ DuplicatesInv /\ [Next]_vars => DuplicatesInv'
<1> SUFFICES ASSUME CommandsInv, DuplicatesInv, [Next]_vars
             PROVE  DuplicatesInv'
  OBVIOUS
<1>1. ASSUME NEW s \in Sidecars, CommandStep(s) \/ Kill(s) \/ Restart(s)
      PROVE  DuplicatesInv'
  <2>1. Doing(s)
    BY <1>1, SidecarDoing DEF CommandsInv, DuplicatesInv
  <2> QED
    BY <2>1, PlacesStep, ClaimsStep, AuthorsStep, VanishedStep
       DEF CommandsInv, DuplicatesInv
<1>2. ASSUME NEW c \in Clients, WindowStep(c)
      PROVE  DuplicatesInv'
  BY <1>2, WindowEffect, DuplicatesSame DEF jobVars, storeVars
<1> QED
  BY <1>1, <1>2, StepCases, DuplicatesSame DEF vars, jobVars, storeVars

LEMMA DuplicatesInit == Init => DuplicatesInv
<1> SUFFICES ASSUME Init PROVE DuplicatesInv
  OBVIOUS
<1>1. /\ job = [ s \in Sidecars |-> Idle ]
      /\ answers = [ s \in Sidecars |-> << >> ] /\ rows = {}
  BY DEF Init, JobInit, StoreInit
<1>2. \A s \in Sidecars : Answered(s) = {} /\ job[s] = Idle
  BY <1>1 DEF Answered
<1>3. PlaceOK(Idle) /\ Idle.step = "idle" /\ Idle.code = "none"
  BY DEF PlaceOK, Idle
<1>4. \A s \in Sidecars : Claims(s) = {}
  BY <1>2, <1>3 DEF Claims, Analyses, Holding, At
<1> QED
  BY <1>1, <1>2, <1>3, <1>4
     DEF DuplicatesInv, PlacesInv, ClaimsInv, AuthorsInv, VanishedInv, At

(***************************************************************************)
(* The theorems                                                            *)
(***************************************************************************)
(* However many sidecars analyse the same report at the same time, and     *)
(* wherever one of them is killed, all of them end with one investigation: *)
(* one answer says it is new and stored the row, the others name the same  *)
(* row, and none of them fails unless somebody deletes.                    *)
THEOREM DuplicatesAgree == Spec => []DuplicatesResolved
<1>1. CommandsInv /\ DuplicatesInv => DuplicatesResolved
  <2> SUFFICES ASSUME CommandsInv, DuplicatesInv PROVE DuplicatesResolved
    OBVIOUS
  <2>1. \A s \in Sidecars : \A n \in Analyses(s) :
          n \in Claims(s) /\ Claim(s, n) = answers[s][n]
    BY DEF Claims, Claim, Analyses
  <2>2. \A s \in Sidecars : \A n \in Analyses(s) : \A row \in rows :
          row.id = answers[s][n].id =>
            /\ row.report = answers[s][n].request.payload["report_path"][2]
            /\ row.by = << s, n >> <=> ~ answers[s][n].existing
    BY <2>1 DEF DuplicatesInv, ClaimsInv, ClaimOK, RowsWithId
  <2>3. \A s, t \in Sidecars : \A n \in Analyses(s), m \in Analyses(t) :
          ( /\ ~ answers[s][n].existing /\ ~ answers[t][m].existing
            /\ answers[s][n].id = answers[t][m].id )
            => << s, n >> = << t, m >>
    BY <2>1 DEF DuplicatesInv, ClaimsInv
  <2>4. \A s \in Sidecars : \A n \in Answered(s) :
          answers[s][n].code = "VANISHED" => SomethingDeleted
    BY DEF DuplicatesInv, VanishedInv
  <2> QED
    BY <2>2, <2>3, <2>4 DEF DuplicatesResolved
<1>2. Spec => []DuplicatesInv
  BY DuplicatesInit, DuplicatesStep, CommandsAlways, PTL DEF Spec
<1> QED
  BY <1>1, <1>2, CommandsAlways, PTL

-----------------------------------------------------------------------------
(***************************************************************************)
(* Files                                                                   *)
(***************************************************************************)
SidecarStep(s) == CommandStep(s) \/ Kill(s) \/ Restart(s)

(* A command at one of these steps has one thing to do. *)
LEMMA StoreSteps ==
  ASSUME NEW s \in Sidecars, StoreStep(s)
  PROVE  /\ job[s].step \in { "row", "entries", "rows", "recent", "delete" }
         /\ At(s, "rows") => ReadRows(s)
BY DEF StoreStep, ReadRow, ReadEntries, ReadRows, ReadRecent, DeleteRow, At

LEMMA FileSteps ==
  ASSUME NEW s \in Sidecars, FileStep(s)
  PROVE  /\ job[s].step \in { "load", "reset", "save", "render", "replace",
                             "record", "open", "write" }
         /\ At(s, "load") => LoadSettings(s)
         /\ At(s, "reset") => ResetSettings(s)
         /\ At(s, "save") => SaveSettings(s)
         /\ At(s, "render") => RenderReport(s)
         /\ At(s, "replace") => ReplaceReport(s)
         /\ At(s, "record") => RecordExport(s)
         /\ At(s, "open") => OpenCsv(s)
         /\ At(s, "write") => WriteCsv(s)
BY DEF FileStep, LoadSettings, ResetSettings, SaveSettings, RenderReport,
       ReplaceReport, RecordExport, OpenCsv, WriteCsv, At

LEMMA AnalyzeSteps ==
  ASSUME NEW s \in Sidecars, AnalyzeStep(s)
  PROVE  /\ job[s].step \in PipelineSteps \cup
              { "begin", "fail", "complete", "respond", "lookup" }
         /\ UNCHANGED << settings, fileVars >>
<1>1. job[s].step \in PipelineSteps \cup
        { "begin", "fail", "complete", "respond", "lookup" }
  BY DEF AnalyzeStep, Begin, FailJob, CompleteJob, Respond, Lookup, ReadReport,
         Extract, CheckExists, FindExisting, Enrich, Score, InsertRow,
         ResolveConflict, Reload, RecordEntry, EntriesDone, At, PipelineSteps
<1>2. UNCHANGED << settings, fileVars >>
  BY DEF AnalyzeStep, Begin, FailJob, CompleteJob, Respond, Lookup, ReadReport,
         Extract, CheckExists, FindExisting, Enrich, Score, InsertRow,
         ResolveConflict, Reload, RecordEntry, EntriesDone
<1> QED
  BY <1>1, <1>2

LEMMA StepsOf ==
  ASSUME NEW s \in Sidecars, CommandStep(s)
  PROVE  /\ At(s, "rows") => ReadRows(s)
         /\ At(s, "load") => LoadSettings(s)
         /\ At(s, "reset") => ResetSettings(s)
         /\ At(s, "save") => SaveSettings(s)
         /\ At(s, "render") => RenderReport(s)
         /\ At(s, "replace") => ReplaceReport(s)
         /\ At(s, "record") => RecordExport(s)
         /\ At(s, "open") => OpenCsv(s)
         /\ At(s, "write") => WriteCsv(s)
         /\ At(s, "answer") => Return(s)
         /\ job[s].step \notin { "load", "reset", "save", "render", "replace",
                                "record", "open", "write" }
              => UNCHANGED << settings, fileVars >>
<1>1. CASE Accept(s) /\ UNCHANGED fileVars
  BY <1>1 DEF Accept, LoopIdle, At
<1>2. CASE StoreStep(s) /\ UNCHANGED fileVars
  <2>1. UNCHANGED settings
    BY <1>2 DEF StoreStep, ReadRow, ReadEntries, ReadRows, ReadRecent, DeleteRow
  <2> QED
    BY <1>2, <2>1, StoreSteps DEF At
<1>3. CASE FileStep(s)
  BY <1>3, FileSteps DEF At
<1>4. CASE AnalyzeStep(s)
  BY <1>4, AnalyzeSteps DEF At, PipelineSteps
<1>5. CASE Return(s) /\ UNCHANGED fileVars
  BY <1>5 DEF Return, At
<1> QED
  BY <1>1, <1>2, <1>3, <1>4, <1>5 DEF CommandStep

(* Where a job may have been before *)
LEMMA Before ==
  ASSUME NEW s \in Sidecars, Doing(s)
  PROVE  /\ Others(s)
         /\ job'[s].step = "save" => job[s].step \in { "load", "reset" }
         /\ job'[s].step = "replace" => job[s].step = "render"
         /\ job'[s].step = "write" => job[s].step = "open"
         /\ job'[s].step = "open" =>
              /\ job[s].step = "rows"
              /\ job[s].request.name = "export_investigations_csv"
         /\ job'[s].step \in { "open", "write", "answer" } =>
              job'[s].request = job[s].request
         /\ ( /\ job'[s].request.name = "export_investigations_csv"
              /\ job[s].request.name = "export_investigations_csv" =>
                   job[s].step \in { "rows", "open", "write", "answer" } )
              => /\ job'[s].step \in { "rows", "open", "write", "answer" }
                 /\ job'[s].step = "answer" => job[s].step = "write"
<1>1. CASE Proceeds(s)
  BY <1>1 DEF Proceeds, TurnTo, Turn, Edge, Publishing, ReplacesFile
<1>2. CASE Fails(s) \/ Finds(s) \/ Creates(s)
  BY <1>2 DEF Fails, Finds, Creates, Turn, Inserts, At, Publishing
<1>3. CASE Begins(s)
  BY <1>3, FirstSteps DEF Begins
<1>4. CASE Rests(s)
  BY <1>4 DEF Rests, LoopIdle, At
<1>5. CASE Removes(s)
  BY <1>5 DEF Removes, Turn, At, Named
<1> QED
  BY <1>1, <1>2, <1>3, <1>4, <1>5 DEF Doing, Replies, Pauses

-----------------------------------------------------------------------------
(***************************************************************************)
(* Settings                                                                *)
(***************************************************************************)
LEMMA SettingsStep ==
  ASSUME JobsInv, AnswersInv, PlacesInv, SettingsInv, NEW s \in Sidecars,
         SidecarStep(s)
  PROVE  SettingsInv'
<1>1. Doing(s)
  BY SidecarDoing DEF SidecarStep
<1>2. /\ \A t \in Sidecars : t # s => job'[t] = job[t]
      /\ job'[s].step = "save" => job[s].step \in { "load", "reset" }
  BY <1>1, Before DEF Others
<1>3. SettingOf(s) \in SettingNames
  BY DEF SettingOf, SettingNames
<1>4. CASE UNCHANGED << settings, lastSaved, raced >> /\ ~ At(s, "save")'
  <2>1. \A t \in Sidecars : At(t, "save")' => At(t, "save") /\ job'[t] = job[t]
    BY <1>2, <1>4 DEF At
  <2> QED
    BY <1>4, <2>1 DEF SettingsInv, SettingsKept
<1>5. CASE LoadSettings(s)
  <2>1. UNCHANGED << settings, lastSaved, raced >> /\ At(s, "load")
    BY <1>5 DEF LoadSettings, fileVars
  <2>2. At(s, "save")' => /\ settings.kind = "saved"
                          /\ job'[s].loaded = settings.value
    <3>1. CASE Readable /\ AfterLoad(s, LoadedValues)
      <4>1. CASE job' = [ job EXCEPT ![s].step = "save",
                                     ![s].loaded = LoadedValues ]
        BY <3>1, <4>1, JobShape DEF Readable, LoadedValues
      <4>2. CASE Done(s) \/ GoTo(s, "lookup") \/ GoTo(s, "score")
        BY <4>2, GoingTo DEF Done, At
      <4> QED
        BY <3>1, <4>1, <4>2 DEF AfterLoad
    <3>2. CASE GoTo(s, "reset")
      BY <3>2, GoingTo DEF At
    <3> QED
      BY <1>5, <3>1, <3>2 DEF LoadSettings
  <2>3. ASSUME NEW t \in Sidecars, At(t, "save")', ~ raced,
               NEW f \in SettingNames, lastSaved[f] # "unset"
        PROVE  job'[t].loaded[f] = lastSaved[f]
    <3>1. CASE t = s
      BY <2>2, <2>3, <3>1 DEF SettingsInv, SettingsKept
    <3>2. CASE t # s
      BY <1>2, <2>3, <3>2 DEF SettingsInv, At
    <3> QED
      BY <3>1, <3>2
  <2> QED
    BY <2>1, <2>3 DEF SettingsInv, SettingsKept
<1>6. CASE ResetSettings(s)
  <2>1. lastSaved' = [ f \in SettingNames |-> "unset" ]
    BY <1>6 DEF ResetSettings
  <2> QED
    BY <2>1 DEF SettingsInv, SettingsKept
<1>7. CASE SaveSettings(s)
  <2>1. CASE Breaks(s) /\ UNCHANGED << settings, lastSaved, raced >>
    <3>1. ~ At(s, "save")'
      BY <2>1, ErrorAppends, JobShape DEF Breaks, Idle, At
    <3> QED
      BY <1>4, <2>1, <3>1
  <2>2. CASE /\ Replace(Updated(s)) /\ Done(s)
             /\ lastSaved' = [ lastSaved EXCEPT
                                    ![SettingOf(s)] = Updated(s)[SettingOf(s)] ]
             /\ raced' = (raced \/ SomeoneBetween(s))
    <3>1. settings'.kind = "saved" /\ settings'.value = Updated(s)
          /\ settings'.key = FALSE
      BY <2>2 DEF Replace, Saved
    <3>2. At(s, "save") /\ ~ At(s, "save")'
      BY <1>7, <2>2, GoingTo DEF SaveSettings, Done, At
    <3>3. Updated(s) \in [ SettingNames -> SettingValues ]
          /\ job[s].loaded \in [ SettingNames -> SettingValues ]
      BY <3>2, UpdatedType DEF JobsInv, JobOK
    <3>4. DOMAIN lastSaved' = SettingNames
      BY <2>2 DEF SettingsInv
    <3>5. ASSUME ~ raced', NEW f \in SettingNames, lastSaved'[f] # "unset"
          PROVE  Updated(s)[f] = lastSaved'[f]
      <4>1. CASE f = SettingOf(s)
        BY <1>3, <2>2, <4>1 DEF SettingsInv
      <4>2. CASE f # SettingOf(s)
        <5>1. lastSaved'[f] = lastSaved[f] /\ ~ raced
          BY <2>2, <3>5, <4>2 DEF SettingsInv
        <5>2. Updated(s)[f] = job[s].loaded[f]
          BY <3>3, <4>2 DEF Updated
        <5> QED
          BY <3>2, <3>5, <5>1, <5>2 DEF SettingsInv
      <4> QED
        BY <4>1, <4>2
    <3>6. ~ raced' => \A t \in Sidecars : ~ At(t, "save")'
      <4>1. ASSUME ~ raced' PROVE \A t \in Sidecars \ { s } : ~ At(t, "save")
        BY <2>2, <4>1 DEF SomeoneBetween, At
      <4> QED
        BY <1>2, <3>2, <4>1 DEF At
    <3> QED
      BY <3>1, <3>4, <3>5, <3>6 DEF SettingsInv, SettingsKept
  <2> QED
    BY <1>7, <2>1, <2>2 DEF SaveSettings
<1>8. CASE CommandStep(s) /\ job[s].step \notin { "load", "reset", "save" }
  <2>1. UNCHANGED << settings, lastSaved, raced >>
    BY <1>8, StepsOf
       DEF RenderReport, ReplaceReport, RecordExport, OpenCsv, WriteCsv, At, fileVars
  <2> QED
    BY <1>2, <1>4, <1>8, <2>1 DEF At
<1>9. CASE Kill(s) \/ Restart(s)
  <2>1. UNCHANGED << settings, fileVars >>
    BY <1>9 DEF Kill, Restart
  <2>2. job' = [ job EXCEPT ![s] = Down ] \/ job' = [ job EXCEPT ![s] = Idle ]
    BY <1>9 DEF Kill, Restart
  <2>3. Down.step = "down" /\ Idle.step = "idle"
    BY DEF Down, Idle
  <2>4. ~ At(s, "save")'
    BY <2>2, <2>3, JobShape DEF At
  <2> QED
    BY <1>4, <2>1, <2>4 DEF fileVars
<1> QED
  BY <1>5, <1>6, <1>7, <1>8, <1>9, StepsOf DEF SidecarStep, At

-----------------------------------------------------------------------------
(***************************************************************************)
(* The CSV file                                                            *)
(***************************************************************************)
(* What a step of a sidecar that goes well does about the CSV file         *)
ExportsKept(s) ==
  /\ CsvExports(s)' = CsvExports(s)
  /\ \A n \in CsvExports(s) : answers'[s][n] = answers[s][n]

Spares(s) ==
  /\ UNCHANGED csvFile /\ ~ WritingCsv(s) /\ ~ WritingCsv(s)'
  /\ ExportsKept(s)

Empties(s) ==
  /\ csvFile' = << >> /\ At(s, "write")' /\ WritingCsv(s)' /\ ~ WritingCsv(s)
  /\ ExportsKept(s)

Fills(s) ==
  /\ At(s, "write") /\ At(s, "answer")' /\ WritingCsv(s) /\ WritingCsv(s)'
  /\ csvFile' = Overlay(csvFile, job[s].seen) /\ job'[s].seen = job[s].seen
  /\ ExportsKept(s)

Closes(s) ==
  /\ UNCHANGED csvFile /\ At(s, "answer") /\ WritingCsv(s) /\ ~ WritingCsv(s)'
  /\ CsvExports(s)' = CsvExports(s) \cup { Current(s) }
  /\ \A n \in CsvExports(s) : n < Current(s)
  /\ answers'[s][Current(s)].seen = job[s].seen

(* A command goes well, or one thing goes wrong. *)
LEMMA CommandFaults ==
  ASSUME NEW s \in Sidecars, CommandStep(s)
  PROVE  NoFault \/ Fault
<1> USE DEF Breaks, BreaksPipeline
<1>1. CASE Accept(s)
  BY <1>1 DEF Accept
<1>2. CASE StoreStep(s)
  BY <1>2 DEF StoreStep, ReadRow, ReadEntries, ReadRows, ReadRecent, DeleteRow
<1>3. CASE FileStep(s)
  BY <1>3 DEF FileStep, LoadSettings, ResetSettings, SaveSettings, RenderReport,
     ReplaceReport, RecordExport, OpenCsv, WriteCsv
<1>4. CASE AnalyzeStep(s)
  <2>1. CASE \/ Begin(s) \/ FailJob(s) \/ CompleteJob(s) \/ Respond(s)
             \/ Lookup(s) \/ EntriesDone(s)
    BY <2>1 DEF Begin, FailJob, CompleteJob, Respond, Lookup, EntriesDone, NoFault
  <2>2. CASE \/ ReadReport(s) \/ Extract(s) \/ CheckExists(s)
             \/ FindExisting(s) \/ Enrich(s) \/ Score(s)
    BY <2>2 DEF ReadReport, Extract, CheckExists, FindExisting, Enrich, Score,
       NoFault
  <2>3. CASE \/ InsertRow(s) \/ ResolveConflict(s) \/ Reload(s)
             \/ RecordEntry(s)
    BY <2>3 DEF InsertRow, ResolveConflict, Reload, RecordEntry
  <2> QED
    BY <1>4, <2>1, <2>2, <2>3 DEF AnalyzeStep
<1>5. CASE Return(s)
  BY <1>5 DEF Return, NoFault
<1> QED
  BY <1>1, <1>2, <1>3, <1>4, <1>5 DEF CommandStep

LEMMA FaultFree ==
  ASSUME FilesInv, NoFault \/ Fault, faults' = 0
  PROVE  NoFault /\ faults = 0 /\ ~ Fault
BY FaultsAssumption DEF FilesInv, NoFault, Fault

(* An answer that reports no CSV export keeps the exports. *)
LEMMA ExportsStay ==
  ASSUME AnswersInv, NEW s \in Sidecars, NEW a, Appended(s, a),
         a.ok => a.request.name # "export_investigations_csv"
  PROVE  ExportsKept(s)
BY AnswerAdded DEF ExportsKept, CsvExports, Answered, Current

LEMMA ExportsSame ==
  ASSUME NEW s \in Sidecars, answers'[s] = answers[s]
  PROVE  ExportsKept(s)
BY DEF ExportsKept, CsvExports, Answered

LEMMA DoingExports ==
  ASSUME AnswersInv, NEW s \in Sidecars, Doing(s),
         job[s].request.name # "export_investigations_csv"
  PROVE  ExportsKept(s)
<1>1. CASE AnswersKept
  BY <1>1, ExportsSame DEF AnswersKept
<1>2. CASE Replies(s)
  <2>1. PICK a : /\ Appended(s, a)
                 /\ a.ok => a.request.name \in { job[s].request.name,
                                                 "search_investigations" }
    BY <1>2 DEF Replies
  <2> QED
    BY <2>1, ExportsStay
<1> QED
  BY <1>1, <1>2 DEF Doing, Proceeds, Fails, Finds, Creates, Removes, Begins,
                    Pauses

LEMMA CsvDoing ==
  ASSUME JobsInv, AnswersInv, FilesInv, PlacesInv, NEW s \in Sidecars,
         CsvPlaceOK(job[s]), SidecarStep(s), faults' = 0
  PROVE  /\ faults = 0
         /\ Spares(s) \/ Empties(s) \/ Fills(s) \/ Closes(s)
<1>1. Doing(s)
  BY SidecarDoing DEF SidecarStep
<1>2. /\ At(s, "write")' => At(s, "open")
      /\ At(s, "write")' \/ At(s, "answer")' => job'[s].request = job[s].request
      /\ WritingCsv(s)' => At(s, "open") \/ At(s, "write")
  BY <1>1, Before DEF At, WritingCsv, Named, CsvPlaceOK
<1>3. CASE At(s, "write") /\ CommandStep(s)
  <2>1. WriteCsv(s)
    BY <1>3, StepsOf
  <2>2. NoFault \/ Fault
    BY <2>1 DEF WriteCsv, Breaks
  <2>3. /\ csvFile' = Overlay(csvFile, job[s].seen) /\ Done(s) /\ faults = 0
    BY <2>1, <2>2, FaultFree DEF WriteCsv, Breaks
  <2>4. At(s, "answer")' /\ job'[s].seen = job[s].seen
    BY <2>3 DEF Done, GoTo, At, JobsInv, JobOK, JobFields
  <2>5. ExportsKept(s)
    BY <2>3, ExportsSame DEF Done
  <2>6. WritingCsv(s) /\ WritingCsv(s)'
    BY <1>2, <1>3, <2>4 DEF WritingCsv, CsvPlaceOK, Named, At
  <2> QED
    BY <1>3, <2>3, <2>4, <2>5, <2>6 DEF Fills
<1>4. CASE At(s, "open") /\ CommandStep(s)
  <2>1. OpenCsv(s)
    BY <1>4, StepsOf
  <2>2. NoFault \/ Fault
    BY <2>1 DEF OpenCsv, Breaks
  <2>3. /\ csvFile' = << >> /\ GoTo(s, "write") /\ answers' = answers
        /\ faults = 0
    BY <2>1, <2>2, FaultFree DEF OpenCsv, Breaks
  <2>4. At(s, "write")'
    BY <2>3, GoingTo DEF At
  <2>5. ~ WritingCsv(s) /\ WritingCsv(s)'
    BY <1>2, <1>4, <2>4 DEF WritingCsv, CsvPlaceOK, Named, At
  <2> QED
    BY <2>3, <2>4, <2>5, ExportsSame DEF Empties
<1>5. CASE /\ ~ At(s, "open") /\ ~ At(s, "write") /\ ~ At(s, "rows")
           /\ ~ WritingCsv(s) /\ CommandStep(s)
  <2>1. UNCHANGED csvFile
    BY <1>5, StepsOf
       DEF LoadSettings, ResetSettings, SaveSettings, RenderReport,
           ReplaceReport, RecordExport, At, fileVars
  <2>2. ExportsKept(s)
    BY <1>1, <1>5, DoingExports DEF CsvPlaceOK, WritingCsv, Named, At
  <2>3. faults = 0
    BY <1>5, CommandFaults, FaultFree
  <2> QED
    BY <1>2, <1>5, <2>1, <2>2, <2>3 DEF Spares
<1>6. CASE At(s, "rows") /\ CommandStep(s)
  <2>1. ReadRows(s) /\ UNCHANGED csvFile
    BY <1>6, StepsOf DEF At, fileVars
  <2>2. NoFault \/ Fault
    BY <2>1 DEF ReadRows, Breaks
  <2>3. faults = 0 /\ ~ Fault
    BY <2>2, FaultFree
  <2>4. ExportsKept(s)
    <3>1. CASE job[s].request.name = "export_investigations_csv"
      <4>1. UNCHANGED answers
        BY <2>1, <2>3, <3>1 DEF ReadRows, Breaks, Named
      <4> QED
        BY <4>1, ExportsSame
    <3>2. CASE job[s].request.name # "export_investigations_csv"
      BY <1>1, <3>2, DoingExports
    <3> QED
      BY <3>1, <3>2
  <2> QED
    BY <1>2, <1>6, <2>1, <2>3, <2>4 DEF Spares, WritingCsv, At
<1>7. CASE At(s, "answer") /\ WritingCsv(s) /\ CommandStep(s)
  <2>1. Return(s)
    BY <1>7, StepsOf
  <2>2. /\ ReplyOk(s) /\ faults = 0 /\ UNCHANGED csvFile
    BY <1>7, <2>1, StepsOf DEF Return, At, fileVars
  <2> DEFINE a == Answer(job[s].request, TRUE, "none", job[s].id,
                         job[s].existing, job[s].seen)
  <2>3. Appended(s, a)
    BY <2>2 DEF ReplyOk, Reply, Appended
  <2>4. a.ok = TRUE /\ a.seen = job[s].seen
        /\ a.request.name = "export_investigations_csv"
    BY <1>7 DEF Answer, WritingCsv, Named
  <2> HIDE DEF a
  <2>5. /\ CsvExports(s)' = CsvExports(s) \cup { Current(s) }
        /\ \A n \in CsvExports(s) : n < Current(s)
        /\ answers'[s][Current(s)].seen = job[s].seen
    BY <2>3, <2>4, AnswerAdded DEF CsvExports, Answered, Current
  <2>6. ~ WritingCsv(s)'
    BY <1>2, <1>7 DEF At
  <2> QED
    BY <1>7, <2>2, <2>5, <2>6 DEF Closes
<1>8. CASE Kill(s)
  BY <1>8, FaultFree DEF Kill
<1>9. CASE Restart(s)
  <2>1. UNCHANGED << answers, csvFile, faults >> /\ At(s, "down")
    BY <1>9 DEF Restart, fileVars
  <2> QED
    BY <1>2, <2>1, ExportsSame DEF Spares, WritingCsv, At
<1> QED
  BY <1>3, <1>4, <1>5, <1>6, <1>7, <1>8, <1>9 DEF SidecarStep, WritingCsv, At

(* Neither an error nor the end of the process comes to the file. *)
LEMMA BreaksIdle ==
  ASSUME JobsInv, NEW s \in Sidecars, Breaks(s)
  PROVE  job'[s].step = "idle"
BY ErrorAppends, JobShape DEF Breaks, Idle

LEMMA OutOfTheWay ==
  ASSUME JobsInv, NEW s \in Sidecars, Kill(s) \/ Restart(s)
  PROVE  job'[s].step \in { "idle", "down" }
<1>1. job' = [ job EXCEPT ![s] = Down ] \/ job' = [ job EXCEPT ![s] = Idle ]
  BY DEF Kill, Restart
<1>2. Down.step = "down" /\ Idle.step = "idle"
  BY DEF Down, Idle
<1> QED
  BY <1>1, <1>2, JobShape

(* A list of rows is a sequence. *)
LEMMA FiniteRows ==
  ASSUME IsFiniteSet(rows), NEW some \in SUBSET rows
  PROVE  NewestFirst(some) \in Seq(Range(NewestFirst(some)))
<1> DEFINE ids == { row.id : row \in some }   n == Cardinality(ids)
           f == NewestFirst(some)
<1>1. IsFiniteSet(some)
  BY FS_Subset
<1>2. IsFiniteSet(ids)
  <2> DEFINE g == [ row \in some |-> row.id ]
  <2>1. g \in Surjection(some, ids)
    BY DEF Surjection
  <2> QED
    BY <1>1, <2>1, FS_Surjection
<1>3. n \in Nat
  BY <1>2, FS_CardinalityType
<1>4. f = [ i \in 1 .. n |-> CHOOSE id \in ids :
              Cardinality({ other \in ids : other > id }) = i - 1 ]
  BY DEF NewestFirst
<1> HIDE DEF n, ids, f
<1>5. DOMAIN f = 1 .. n /\ f \in [ 1 .. n -> Range(f) ]
  BY <1>4 DEF Range
<1>6. f \in Seq(Range(f))
  BY <1>3, <1>5
<1> QED
  BY <1>6 DEF f

LEMMA ListedSequence ==
  ASSUME IsFiniteSet(rows), NEW s \in Sidecars
  PROVE  Listed(s) \in Seq(Range(Listed(s)))
<1>1. \/ Listed(s) = NewestFirst(RowsOfReport(Payload(s)["report_name"][2]))
      \/ Listed(s) = NewestFirst(RowsOfReport(Payload(s)["search"][2]))
      \/ Listed(s) = NewestFirst(rows)
  <2> DEFINE searches == Named(s, { "search_investigations" })
             filters  == /\ Named(s, { "export_investigations_csv" })
                         /\ ~ Absent("search", Payload(s))
                         /\ Payload(s)["search"] # Text("")
  <2>1. CASE searches
    BY <2>1 DEF Listed, Named
  <2>2. CASE ~ searches /\ filters
    BY <2>2 DEF Listed
  <2>3. CASE ~ searches /\ ~ filters
    BY <2>3 DEF Listed
  <2> QED
    BY <2>1, <2>2, <2>3
<1>2. \A r : RowsOfReport(r) \in SUBSET rows
  BY DEF RowsOfReport
<1> QED
  BY <1>1, <1>2, FiniteRows

LEMMA RowsFinite ==
  ASSUME IsFiniteSet(rows), JobsInv, AnswersInv, PlacesInv, NEW s \in Sidecars,
         SidecarStep(s)
  PROVE  IsFiniteSet(rows')
<1>1. Doing(s)
  BY SidecarDoing DEF SidecarStep
<1>2. CASE StoreKept
  BY <1>2 DEF StoreKept
<1>3. CASE Inserts(s)
  BY <1>3, FS_AddElement DEF Inserts, Insert
<1>4. CASE Delete(job[s].id)
  BY <1>4, FS_Subset DEF Delete
<1> QED
  BY <1>1, <1>2, <1>3, <1>4
     DEF Doing, Proceeds, Fails, Finds, Creates, Removes, Begins, Replies, Pauses

LEMMA CsvPlacesStep ==
  ASSUME JobsInv, AnswersInv, PlacesInv, IsFiniteSet(rows), NEW s \in Sidecars,
         CsvPlaceOK(job[s]), SidecarStep(s)
  PROVE  CsvPlaceOK(job[s])'
<1>1. Doing(s)
  BY SidecarDoing DEF SidecarStep
<1>2. JobFields \subseteq DOMAIN job[s] /\ DOMAIN job = Sidecars
  BY DEF JobsInv, JobOK
<1>3. CASE job'[s].step = "open"
  <2>1. /\ At(s, "rows") /\ Named(s, { "export_investigations_csv" })
        /\ job'[s].request = job[s].request
    BY <1>1, <1>3, Before DEF At, Named
  <2>2. CommandStep(s)
    BY <1>3, <2>1, OutOfTheWay DEF SidecarStep
  <2>3. ReadRows(s)
    BY <2>1, <2>2, StepsOf
  <2>4. ~ Breaks(s)
    BY <1>3, BreaksIdle
  <2>5. job'[s].seen = Listed(s)
    BY <1>2, <2>1, <2>3, <2>4 DEF ReadRows, Named, JobFields
  <2> QED
    BY <1>3, <2>1, <2>5, ListedSequence DEF CsvPlaceOK, Named
<1>4. CASE job'[s].step = "write"
  <2>1. At(s, "open") /\ job'[s].request = job[s].request
    BY <1>1, <1>4, Before DEF At
  <2>2. CommandStep(s)
    BY <1>4, <2>1, OutOfTheWay DEF SidecarStep
  <2>3. OpenCsv(s)
    BY <2>1, <2>2, StepsOf
  <2>4. ~ Breaks(s)
    BY <1>4, BreaksIdle
  <2>5. job'[s].seen = job[s].seen
    BY <1>2, <2>3, <2>4 DEF OpenCsv, GoTo, JobFields
  <2> QED
    BY <1>4, <2>1, <2>5 DEF CsvPlaceOK, At
<1>5. CASE job'[s].step \notin { "open", "write" }
  BY <1>1, <1>5, Before DEF CsvPlaceOK
<1> QED
  BY <1>3, <1>4, <1>5

(* What is written to an empty file is what it holds. *)
LEMMA FreshFile ==
  ASSUME NEW seen, NEW S, seen \in Seq(S)
  PROVE  Overlay(<< >>, seen) = seen
<1>1. Len(seen) \in Nat
  OBVIOUS
<1>2. SubSeq(<< >>, Len(seen) + 1, 0) = << >>
  BY <1>1
<1>3. Overlay(<< >>, seen) = seen \o << >>
  BY <1>2 DEF Overlay
<1> QED
  BY <1>3

(* The other sidecars export what they did before. *)
LEMMA OthersAnswers ==
  ASSUME AnswersInv, JobsInv, FilesInv, NEW s \in Sidecars, SidecarStep(s),
         NEW t \in Sidecars, t # s
  PROVE  /\ answers'[t] = answers[t] /\ job'[t] = job[t]
         /\ WritesCsv(t)' <=> WritesCsv(t)
         /\ CsvExports(t)' = CsvExports(t)
<1>1. Effect(s)
  BY SidecarStepEffect DEF SidecarStep
<1>2. answers'[t] = answers[t] /\ job'[t] = job[t]
  BY <1>1 DEF Effect, Appends, AnswersInv
<1> QED
  BY <1>2 DEF WritesCsv, WritingCsv, CsvExports, Answered, Named

(* While one sidecar alone exports, a step of another one spares the file. *)
LEMMA OthersSpare ==
  ASSUME JobsInv, AnswersInv, FilesInv, NEW s \in Sidecars,
         Spares(s) \/ Empties(s) \/ Fills(s) \/ Closes(s), ~ WritesCsv(s)'
  PROVE  Spares(s) /\ ~ WritesCsv(s)
<1>1. ~ WritingCsv(s)' /\ CsvExports(s)' = {}
  BY DEF WritesCsv
<1> QED
  BY <1>1 DEF Spares, Empties, Fills, Closes, ExportsKept, WritesCsv

LEMMA CsvStep ==
  ASSUME JobsInv, AnswersInv, FilesInv, PlacesInv, CsvInv, NEW s \in Sidecars,
         SidecarStep(s)
  PROVE  CsvInv'
<1> DEFINE Alone(t) == \A u \in Sidecars \ { t } : ~ WritesCsv(u)
<1>1. IsFiniteSet(rows')
  BY RowsFinite DEF CsvInv
<1>2. \A t \in Sidecars : CsvPlaceOK(job[t])'
  <2>1. CsvPlaceOK(job[s])'
    BY CsvPlacesStep DEF CsvInv
  <2>2. ASSUME NEW t \in Sidecars, t # s PROVE CsvPlaceOK(job[t])'
    BY <2>2, OthersAnswers DEF CsvInv, CsvPlaceOK
  <2> QED
    BY <2>1, <2>2
<1>3. ASSUME faults' = 0, NEW t \in Sidecars, Alone(t)'
      PROVE  /\ ~ WritingCsv(t)' =>
                  \A n \in CsvExports(t)' :
                    LastCsvExport(t, n)' => csvFile' = answers'[t][n].seen
             /\ WritingCsv(t)' =>
                  csvFile' = IF At(t, "write")' THEN << >> ELSE job'[t].seen
  <2>1. faults = 0 /\ (Spares(s) \/ Empties(s) \/ Fills(s) \/ Closes(s))
    BY <1>3, CsvDoing DEF CsvInv
  <2>2. CASE t # s
    <3>1. Spares(s) /\ ~ WritesCsv(s)
      BY <1>3, <2>1, <2>2, OthersSpare
    <3>2. Alone(t)
      BY <1>3, <3>1, OthersAnswers
    <3>3. /\ answers'[t] = answers[t] /\ job'[t] = job[t]
          /\ (At(t, "write")' <=> At(t, "write"))
          /\ (WritingCsv(t)' <=> WritingCsv(t))
          /\ CsvExports(t)' = CsvExports(t) /\ csvFile' = csvFile
      BY <2>2, <3>1, OthersAnswers DEF Spares, WritingCsv, Named, At
    <3> QED
      BY <2>1, <3>2, <3>3 DEF CsvInv, CsvWhole, LastCsvExport
  <2>3. CASE t = s
    <3>1. Alone(s)
      BY <1>3, <2>3, OthersAnswers
    <3>2. CASE Spares(s)
      <4>1. /\ ~ WritingCsv(s) /\ ~ WritingCsv(s)' /\ csvFile' = csvFile
            /\ CsvExports(s)' = CsvExports(s)
            /\ \A n \in CsvExports(s) : answers'[s][n] = answers[s][n]
        BY <3>2 DEF Spares, ExportsKept
      <4>2. \A n \in CsvExports(s) :
              LastCsvExport(s, n) => csvFile = answers[s][n].seen
        BY <2>1, <3>1, <4>1 DEF CsvInv, CsvWhole
      <4>3. \A n : LastCsvExport(s, n)' <=> LastCsvExport(s, n)
        BY <4>1 DEF LastCsvExport
      <4> QED
        BY <2>3, <4>1, <4>2, <4>3
    <3>3. CASE Empties(s)
      BY <2>3, <3>3 DEF Empties
    <3>4. CASE Fills(s)
      <4>1. csvFile = << >>
        BY <2>1, <3>1, <3>4 DEF CsvInv, Fills
      <4>2. job[s].seen \in Seq(Range(job[s].seen))
        BY <3>4 DEF CsvInv, CsvPlaceOK, Fills, At
      <4>3. csvFile' = job'[s].seen
        BY <3>4, <4>1, <4>2, FreshFile DEF Fills
      <4> QED
        BY <2>3, <3>4, <4>3 DEF Fills, At
    <3>5. CASE Closes(s)
      <4>1. csvFile = job[s].seen
        BY <2>1, <3>1, <3>5 DEF CsvInv, Closes, At
      <4>2. ASSUME NEW n \in CsvExports(s)', LastCsvExport(s, n)'
            PROVE  n = Current(s)
        <5>1. Current(s) <= n
          BY <3>5, <4>2 DEF Closes, LastCsvExport
        <5>2. Current(s) \in Nat
          BY CurrentNumber
        <5>3. n \in CsvExports(s) => n \in Nat /\ n < Current(s)
          BY <3>5 DEF Closes, CsvExports, Answered
        <5> QED
          BY <3>5, <4>2, <5>1, <5>2, <5>3 DEF Closes
      <4> QED
        BY <2>3, <3>5, <4>1, <4>2 DEF Closes
    <3> QED
      BY <2>1, <3>2, <3>3, <3>4, <3>5
  <2> QED
    BY <2>2, <2>3
<1>4. CsvWhole'
  BY <1>3 DEF CsvWhole
<1>5. \A t \in Sidecars :
        faults' = 0 /\ WritingCsv(t)' /\ Alone(t)' =>
          csvFile' = IF At(t, "write")' THEN << >> ELSE job'[t].seen
  BY <1>3
<1> QED
  BY <1>1, <1>2, <1>4, <1>5 DEF CsvInv

-----------------------------------------------------------------------------
(***************************************************************************)
(* The commands that have replaced a file                                  *)
(***************************************************************************)
Replaces(s) ==
  << job[s].step, job'[s].step >> \in { << "save", "answer" >>,
                                       << "replace", "record" >> }

(* Past the replacement, and not answered yet                              *)
Past(s) == Named(s, ReplacesFile) /\ job[s].step \in { "record", "answer" }

LEMMA ReplacersStep ==
  ASSUME JobsInv, NEW s \in Sidecars, SidecarStep(s)
  PROVE  IF Replaces(s) THEN replacers' = replacers \cup { CommandOf(s) }
                        ELSE replacers' = replacers
<1>1. CASE Kill(s) \/ Restart(s)
  BY <1>1, OutOfTheWay DEF Kill, Restart, fileVars, Replaces
<1>2. CASE CommandStep(s) /\ At(s, "save")
  <2>1. SaveSettings(s)
    BY <1>2, StepsOf
  <2>2. CASE Done(s) /\ replacers' = replacers \cup { CommandOf(s) }
    BY <1>2, <2>2, GoingTo DEF Done, Replaces, At
  <2>3. CASE Breaks(s) /\ UNCHANGED replacers
    BY <2>3, BreaksIdle DEF Replaces
  <2> QED
    BY <2>1, <2>2, <2>3 DEF SaveSettings
<1>3. CASE CommandStep(s) /\ At(s, "replace")
  <2>1. ReplaceReport(s)
    BY <1>3, StepsOf
  <2>2. CASE GoTo(s, "record") /\ replacers' = replacers \cup { CommandOf(s) }
    BY <1>3, <2>2, GoingTo DEF Replaces, At
  <2>3. CASE Breaks(s) /\ UNCHANGED replacers
    BY <2>3, BreaksIdle DEF Replaces
  <2> QED
    BY <2>1, <2>2, <2>3 DEF ReplaceReport
<1>4. CASE CommandStep(s) /\ ~ At(s, "save") /\ ~ At(s, "replace")
  <2>1. UNCHANGED replacers
    BY <1>4, StepsOf DEF LoadSettings, ResetSettings, RenderReport, RecordExport,
       OpenCsv, WriteCsv, At, fileVars
  <2> QED
    BY <1>4, <2>1 DEF Replaces, At
<1> QED
  BY <1>1, <1>2, <1>3, <1>4 DEF SidecarStep

(* A command comes past its replacement by that, and stays there until it  *)
(* answers.                                                                *)
LEMMA PastStep ==
  ASSUME PlacesInv, NEW s \in Sidecars, Doing(s)
  PROVE  \/ AnswersKept /\ (Past(s)' <=> Past(s) \/ Replaces(s))
         \/ Replies(s) /\ ~ Past(s)' /\ ~ Replaces(s)
<1> USE DEF Past, Replaces, Named, ReplacesFile, Publishing
<1>1. PlaceOK(job[s])
  BY DEF PlacesInv
<1>2. CASE Proceeds(s)
  <2>1. PICK y \in Steps : /\ Edge(job[s].request.name, job[s].step, y)
                           /\ TurnTo(s, y)
    BY <1>2 DEF Proceeds
  <2>2. job'[s].step = y /\ job'[s].request = job[s].request
    BY <2>1 DEF TurnTo, Turn
  <2>3. Past(s)' <=> Past(s) \/ Replaces(s)
    BY <1>1, <2>1, <2>2 DEF Edge, PlaceOK
  <2> QED
    BY <1>2, <2>3 DEF Proceeds
<1>3. CASE Fails(s)
  BY <1>1, <1>3 DEF Fails, Turn
<1>4. CASE Finds(s) \/ Creates(s)
  BY <1>1, <1>4 DEF Finds, Creates, Inserts, Turn, At
<1>5. CASE Removes(s)
  BY <1>5 DEF Removes, Turn, At
<1>6. CASE Begins(s)
  BY <1>6, FirstSteps DEF Begins, LoopIdle, At
<1>7. CASE Pauses(s)
  BY <1>7 DEF Pauses, Rests
<1>8. CASE Replies(s)
  BY <1>8 DEF Replies, Rests
<1> QED
  BY <1>2, <1>3, <1>4, <1>5, <1>6, <1>7, <1>8 DEF Doing

(* What the commands of one sidecar tell of the files they replace         *)
ToldOf(s) ==
  /\ \A n \in Answered(s) :
       answers[s][n].request.name \in ReplacesFile =>
         IF << s, n >> \in replacers
           THEN answers[s][n].ok \/ answers[s][n].code = "LOST"
           ELSE ~ answers[s][n].ok
  /\ \A command \in replacers :
       command[1] = s => command[2] \in 1 .. Current(s)
  /\ CommandOf(s) \in replacers <=> Past(s)

LEMMA ToldOfAll ==
  /\ ReplacedInv <=> \A s \in Sidecars : ToldOf(s)
  /\ ReplacedInv' <=> \A s \in Sidecars : ToldOf(s)'
BY DEF ReplacedInv, ReplacementsTold, ToldOf, Past

LEMMA ReplacedStep ==
  ASSUME JobsInv, AnswersInv, FilesInv, PlacesInv, ReplacedInv,
         NEW s \in Sidecars, SidecarStep(s)
  PROVE  ReplacedInv'
<1>1. Doing(s)
  BY SidecarDoing DEF SidecarStep
<1>2. /\ \/ replacers' = replacers /\ ~ Replaces(s)
         \/ replacers' = replacers \cup { << s, Current(s) >> } /\ Replaces(s)
  BY ReplacersStep DEF CommandOf
<1>3. ToldOf(s) /\ Current(s) \in Nat \ { 0 }
  <2>1. PICK S : answers[s] \in Seq(S)
    BY DEF AnswersInv
  <2>2. Len(answers[s]) \in Nat
    BY <2>1
  <2> QED
    BY <2>2, ToldOfAll DEF Current
<1>4. ASSUME NEW t \in Sidecars, t # s PROVE ToldOf(t)'
  <2>1. answers'[t] = answers[t] /\ job'[t] = job[t]
    BY <1>4, OthersAnswers
  <2>2. /\ Answered(t)' = Answered(t) /\ Current(t)' = Current(t)
        /\ (Past(t)' <=> Past(t))
    BY <2>1 DEF Answered, Current, Past, Named
  <2>3. \A n : << t, n >> \in replacers' <=> << t, n >> \in replacers
    BY <1>2, <1>4
  <2>4. \A command \in replacers' : command[1] = t => command \in replacers
    BY <1>2, <1>4
  <2>5. ToldOf(t)
    BY ToldOfAll
  <2> QED
    BY <2>1, <2>2, <2>3, <2>4, <2>5 DEF ToldOf, CommandOf
<1>5. ASSUME AnswersKept, Past(s)' <=> Past(s) \/ Replaces(s)
      PROVE  ToldOf(s)'
  <2>1. /\ Answered(s)' = Answered(s) /\ Current(s)' = Current(s)
        /\ answers'[s] = answers[s] /\ Current(s) \notin Answered(s)
    BY <1>5, ClaimsOf DEF AnswersKept, Answered, Current
  <2>2. \A n \in Answered(s) : << s, n >> \in replacers' <=> << s, n >> \in replacers
    BY <1>2, <2>1
  <2>3. \A command \in replacers' :
          command[1] = s => command[2] \in 1 .. Current(s)
    BY <1>2, <1>3 DEF ToldOf
  <2>4. << s, Current(s) >> \in replacers' <=> Past(s)'
    BY <1>2, <1>3, <1>5 DEF ToldOf, CommandOf
  <2> QED
    BY <1>3, <2>1, <2>2, <2>3, <2>4 DEF ToldOf, CommandOf
<1>6. ASSUME Replies(s), ~ Past(s)', ~ Replaces(s) PROVE ToldOf(s)'
  <2>1. PICK a : Appended(s, a) /\ Tells(s, a) /\ Confirms(s, a)
    BY <1>6 DEF Replies
  <2>2. /\ Answered(s)' = Answered(s) \cup { Current(s) }
        /\ Current(s)' = Current(s) + 1 /\ answers'[s][Current(s)] = a
        /\ \A n \in Answered(s) : answers'[s][n] = answers[s][n]
    BY <2>1, AnswerAdded
  <2>3. replacers' = replacers
    BY <1>2, <1>6
  <2>4. a.request.name \in ReplacesFile =>
          IF << s, Current(s) >> \in replacers THEN a.ok \/ a.code = "LOST"
                                                ELSE ~ a.ok
    <3>1. << s, Current(s) >> \in replacers <=> Past(s)
      BY <1>3 DEF ToldOf, CommandOf
    <3>2. CASE LoopIdle(s) /\ (a.ok => a.request.name = "search_investigations")
      BY <3>1, <3>2 DEF LoopIdle, At, Past, ReplacesFile
    <3>3. CASE a.request = job[s].request
      BY <2>1, <3>1, <3>3 DEF Confirms, Past, Named
    <3> QED
      BY <2>1, <3>2, <3>3 DEF Tells
  <2>5. /\ << s, Current(s) + 1 >> \notin replacers
        /\ \A command \in replacers :
             command[1] = s => command[2] \in 1 .. (Current(s) + 1)
    BY <1>3 DEF ToldOf
  <2> QED
    BY <1>3, <1>6, <2>2, <2>3, <2>4, <2>5 DEF ToldOf, CommandOf
<1> QED
  BY <1>1, <1>4, <1>5, <1>6, PastStep, ToldOfAll

-----------------------------------------------------------------------------
(***************************************************************************)
(* Lost commands and temporary files                                       *)
(***************************************************************************)
LEMMA LostPairs ==
  /\ \A s, n : << s, n >> \in Lost <=>
       s \in Sidecars /\ n \in Answered(s) /\ answers[s][n].code = "LOST"
  /\ \A p \in Lost : \E s \in Sidecars : \E n \in Answered(s) : p = << s, n >>
BY DEF Lost

LEMMA LostPairsNext ==
  /\ \A s, n : << s, n >> \in Lost' <=>
       s \in Sidecars /\ n \in Answered(s)' /\ answers'[s][n].code = "LOST"
  /\ \A p \in Lost' : \E s \in Sidecars : \E n \in Answered(s)' : p = << s, n >>
BY DEF Lost

(* Nothing lost is found again, and one step loses at most one command. *)
LEMMA LostGrows ==
  ASSUME AnswersInv, NEW s \in Sidecars, NEW a, Appended(s, a)
  PROVE  /\ << s, Current(s) >> \notin Lost
         /\ Lost' = IF a.code = "LOST" THEN Lost \cup { << s, Current(s) >> }
                                       ELSE Lost
<1>1. /\ Current(s) \notin Answered(s)
      /\ Answered(s)' = Answered(s) \cup { Current(s) }
      /\ answers'[s][Current(s)] = a
      /\ \A n \in Answered(s) : answers'[s][n] = answers[s][n]
      /\ \A t \in Sidecars : t # s =>
           answers'[t] = answers[t] /\ Answered(t)' = Answered(t)
  BY AnswerAdded DEF Answered, Current
<1>2. \A t, n : << t, n >> \in Lost' <=>
        \/ << t, n >> \in Lost
        \/ t = s /\ n = Current(s) /\ a.code = "LOST"
  <2> TAKE t, n
  <2>1. CASE t \in Sidecars /\ t # s
    BY <1>1, <2>1, LostPairs, LostPairsNext
  <2>2. CASE t = s
    BY <1>1, <2>2, LostPairs, LostPairsNext
  <2>3. CASE t \notin Sidecars
    BY <2>3, LostPairs, LostPairsNext
  <2> QED
    BY <2>1, <2>2, <2>3
<1>3. << s, Current(s) >> \notin Lost
  BY <1>1, LostPairs
<1>4. \A p \in Lost \cup Lost' : \E t, n : p = << t, n >>
  BY LostPairs, LostPairsNext
<1>5. Lost' = { p \in Lost \cup { << s, Current(s) >> } :
                  p \in Lost \/ a.code = "LOST" }
  BY <1>2, <1>4
<1> QED
  BY <1>3, <1>5

LEMMA LostSame ==
  ASSUME \A t \in Sidecars : answers'[t] = answers[t]
  PROVE  Lost' = Lost
BY DEF Lost, Answered

LEMMA LostStep ==
  ASSUME AnswersInv, JobsInv, FilesInv, IsFiniteSet(Lost), NEW s \in Sidecars,
         SidecarStep(s)
  PROVE  /\ IsFiniteSet(Lost') /\ Cardinality(Lost) \in Nat
         /\ Cardinality(Lost') \in Nat /\ Cardinality(Lost) <= Cardinality(Lost')
<1>1. \/ UNCHANGED answers \/ answers' = [ answers EXCEPT ![s] = @ ]
      \/ \E a : Appended(s, a)
  BY SidecarStepEffect DEF SidecarStep, Effect, Appends, Appended
<1>2. Cardinality(Lost) \in Nat
  BY FS_CardinalityType
<1>3. Lost' = Lost \/ Lost' = Lost \cup { << s, Current(s) >> }
  <2>1. CASE answers' = [ answers EXCEPT ![s] = @ ]
    BY <2>1, LostSame DEF AnswersInv
  <2>2. CASE \E a : Appended(s, a)
    BY <2>2, LostGrows
  <2> QED
    BY <1>1, <2>1, <2>2, LostSame
<1>4. /\ IsFiniteSet(Lost \cup { << s, Current(s) >> })
      /\ Cardinality(Lost \cup { << s, Current(s) >> })
           \in { Cardinality(Lost), Cardinality(Lost) + 1 }
  BY FS_AddElement
<1> QED
  BY <1>2, <1>3, <1>4

LEMMA TemporariesStep ==
  ASSUME AnswersInv, JobsInv, FilesInv, PlacesInv, TemporariesInv,
         NEW s \in Sidecars, SidecarStep(s)
  PROVE  TemporariesInv'
<1>1. /\ IsFiniteSet(Lost) /\ temporaries \in Nat
      /\ temporaries <= Cardinality(Replacing) + Cardinality(Lost)
  BY DEF TemporariesInv, TemporariesRemoved, Replacing, FilesInv
<1>2. /\ IsFiniteSet(Lost') /\ Cardinality(Lost) \in Nat
      /\ Cardinality(Lost') \in Nat /\ Cardinality(Lost) <= Cardinality(Lost')
  BY <1>1, LostStep
<1>3. Doing(s) /\ \A t \in Sidecars : t # s => job'[t] = job[t]
  BY SidecarDoing, Before DEF SidecarStep, Others
<1>4. IsFiniteSet(Replacing) /\ Cardinality(Replacing) \in Nat
  BY ReplacingFinite
<1>5. SUFFICES temporaries' <= Cardinality(Replacing') + Cardinality(Lost')
  BY <1>2 DEF TemporariesInv, TemporariesRemoved, Replacing
<1>6. IsFiniteSet(Replacing') /\ Cardinality(Replacing') \in Nat
  <2>1. Replacing' \in SUBSET Sidecars
    BY DEF Replacing
  <2> QED
    BY <2>1, SidecarsAssumption, FS_Subset, FS_CardinalityType
<1>7. CASE UNCHANGED temporaries /\ (At(s, "replace") => At(s, "replace")')
  <2>1. Replacing \subseteq Replacing'
    BY <1>3, <1>7 DEF Replacing, At
  <2>2. Cardinality(Replacing) <= Cardinality(Replacing')
    BY <1>6, <2>1, FS_Subset
  <2> QED
    BY <1>1, <1>2, <1>4, <1>6, <1>7, <2>2
<1>8. CASE CommandStep(s) /\ At(s, "replace")
  <2>1. ReplaceReport(s)
    BY <1>8, StepsOf
  <2>2. temporaries' = temporaries - 1
    BY <2>1 DEF ReplaceReport
  <2>3. Replacing' = Replacing \ { s } /\ s \in Replacing
    BY <1>3, <1>8, Before DEF Replacing, At
  <2>4. Cardinality(Replacing') = Cardinality(Replacing) - 1
    BY <1>4, <2>3, FS_RemoveElement
  <2> QED
    BY <1>1, <1>2, <1>4, <2>2, <2>4
<1>9. CASE CommandStep(s) /\ At(s, "render")
  <2>1. RenderReport(s)
    BY <1>9, StepsOf
  <2>2. CASE GoTo(s, "replace") /\ temporaries' = temporaries + 1
    <3>1. Replacing' = Replacing \cup { s } /\ s \notin Replacing
      BY <1>9, <2>2, GoingTo DEF Replacing, At
    <3>2. Cardinality(Replacing') = Cardinality(Replacing) + 1
      BY <1>4, <3>1, FS_AddElement
    <3> QED
      BY <1>1, <1>2, <1>4, <2>2, <3>2
  <2>3. CASE UNCHANGED temporaries
    BY <1>7, <1>9, <2>3 DEF At
  <2> QED
    BY <2>1, <2>2, <2>3 DEF RenderReport
<1>10. CASE CommandStep(s) /\ ~ At(s, "render") /\ ~ At(s, "replace")
  <2>1. UNCHANGED temporaries
    BY <1>10, StepsOf
       DEF LoadSettings, ResetSettings, SaveSettings, RecordExport, OpenCsv,
           WriteCsv, At, fileVars
  <2> QED
    BY <1>7, <1>10, <2>1
<1>11. CASE Kill(s) /\ At(s, "replace")
  <2>1. UNCHANGED temporaries /\ ~ At(s, "replace")'
    BY <1>11, OutOfTheWay DEF Kill, fileVars, At
  <2>2. Replacing' = Replacing \ { s } /\ s \in Replacing
    BY <1>3, <1>11, <2>1 DEF Replacing, At
  <2>3. Cardinality(Replacing') = Cardinality(Replacing) - 1
    BY <1>4, <2>2, FS_RemoveElement
  <2> DEFINE a == Answer(job[s].request, FALSE, "LOST", job[s].id, FALSE, << >>)
  <2>4. Appended(s, a) /\ a.code = "LOST"
    BY <1>11 DEF Kill, LoopIdle, At, Appended, Answer
  <2> HIDE DEF a
  <2>5. << s, Current(s) >> \notin Lost /\ Lost' = Lost \cup { << s, Current(s) >> }
    BY <2>4, LostGrows
  <2>6. Cardinality(Lost') = Cardinality(Lost) + 1
    BY <1>1, <2>5, FS_AddElement
  <2> QED
    BY <1>1, <1>2, <1>4, <2>1, <2>3, <2>6
<1>12. CASE (Kill(s) \/ Restart(s)) /\ ~ At(s, "replace")
  BY <1>7, <1>12 DEF Kill, Restart, fileVars
<1>13. CASE Restart(s) /\ At(s, "replace")
  BY <1>13 DEF Restart, At
<1> QED
  BY <1>8, <1>9, <1>10, <1>11, <1>12, <1>13 DEF SidecarStep

-----------------------------------------------------------------------------
(***************************************************************************)
(* The theorem about the files                                             *)
(***************************************************************************)
(* A step of a window leaves all of it alone. *)
LEMMA FilesKeptSame ==
  ASSUME FilesKeptInv, UNCHANGED << jobVars, rows, settings, fileVars >>
  PROVE  FilesKeptInv'
<1> USE DEF jobVars, fileVars
<1>1. \A s \in Sidecars :
        /\ CsvExports(s)' = CsvExports(s) /\ (WritesCsv(s)' <=> WritesCsv(s))
        /\ \A step : At(s, step)' <=> At(s, step)
        /\ \A n : LastCsvExport(s, n)' <=> LastCsvExport(s, n)
  BY DEF CsvExports, WritesCsv, WritingCsv, LastCsvExport, At, Named, Answered
<1>2. SettingsInv'
  BY <1>1 DEF FilesKeptInv, SettingsInv, SettingsKept
<1>3. CsvInv'
  BY <1>1 DEF FilesKeptInv, CsvInv, CsvWhole, CsvPlaceOK, WritingCsv, Named
<1>4. TemporariesInv'
  <2>1. Lost' = Lost /\ { s \in Sidecars : At(s, "replace") }' =
                          { s \in Sidecars : At(s, "replace") }
    BY <1>1, LostSame
  <2> QED
    BY <2>1 DEF FilesKeptInv, TemporariesInv, TemporariesRemoved
<1>5. ReplacedInv'
  BY <1>1 DEF FilesKeptInv, ReplacedInv, ReplacementsTold, Answered, Current,
     CommandOf, Named
<1> QED
  BY <1>2, <1>3, <1>4, <1>5 DEF FilesKeptInv

LEMMA FilesKeptStep ==
  CommandsInv /\ PlacesInv /\ FilesKeptInv /\ [Next]_vars => FilesKeptInv'
<1> SUFFICES ASSUME CommandsInv, PlacesInv, FilesKeptInv, [Next]_vars
             PROVE  FilesKeptInv'
  OBVIOUS
<1>1. ASSUME NEW s \in Sidecars, CommandStep(s) \/ Kill(s) \/ Restart(s)
      PROVE  FilesKeptInv'
  BY <1>1, SettingsStep, ReplacedStep, CsvStep, TemporariesStep
     DEF CommandsInv, FilesKeptInv, SidecarStep
<1>2. ASSUME NEW c \in Clients, WindowStep(c)
      PROVE  FilesKeptInv'
  BY <1>2, WindowEffect, FilesKeptSame DEF storeVars
<1> QED
  BY <1>1, <1>2, StepCases, FilesKeptSame DEF vars, storeVars

LEMMA FilesKeptInit == Init => FilesKeptInv
<1> SUFFICES ASSUME Init PROVE FilesKeptInv
  OBVIOUS
<1>1. /\ job = [ s \in Sidecars |-> Idle ]
      /\ answers = [ s \in Sidecars |-> << >> ] /\ rows = {}
      /\ lastSaved = [ f \in SettingNames |-> "unset" ] /\ temporaries = 0
      /\ replacers = {}
  BY DEF Init, JobInit, StoreInit, FileInit
<1>2. /\ \A s \in Sidecars : job[s] = Idle /\ Answered(s) = {}
      /\ Idle.step = "idle" /\ Idle.request.name = "none"
  BY <1>1 DEF Answered, Idle
<1>3. \A s \in Sidecars : CsvExports(s) = {} /\ ~ WritingCsv(s)
                           /\ ~ At(s, "save") /\ ~ At(s, "replace")
  BY <1>2 DEF CsvExports, WritingCsv, Named, At
<1>4. SettingsInv
  BY <1>1, <1>3 DEF SettingsInv, SettingsKept
<1>5. CsvInv
  BY <1>1, <1>2, <1>3, FS_EmptySet DEF CsvInv, CsvWhole, CsvPlaceOK
<1>6. TemporariesInv
  <2>1. Lost = {}
    BY <1>2, LostPairs
  <2>2. Replacing = {}
    BY <1>3 DEF Replacing
  <2>3. /\ IsFiniteSet(Lost) /\ Cardinality(Lost) = 0
        /\ Cardinality(Replacing) = 0
    BY <2>1, <2>2, FS_EmptySet
  <2>4. temporaries <= Cardinality(Replacing) + Cardinality(Lost)
    BY <1>1, <2>3
  <2> QED
    BY <2>3, <2>4 DEF TemporariesInv, TemporariesRemoved, Replacing
<1>7. ReplacedInv
  BY <1>1, <1>2 DEF ReplacedInv, ReplacementsTold, Named, ReplacesFile
<1> QED
  BY <1>4, <1>5, <1>6, <1>7 DEF FilesKeptInv

(* Whatever fails, whoever is killed and whatever the other sidecars do:   *)
(* the settings file holds what the last save put into it, answered or     *)
(* not, unless two sidecars saved at the same time; the answer of a        *)
(* command about settings or reports tells whether it has replaced the     *)
(* file, unless it was killed; the CSV file holds what the last export of  *)
(* the only exporter answered; and only a killed process leaves a          *)
(* temporary file.                                                         *)
THEOREM FilesAreKept == Spec => []FilesKept
<1>1. DuplicatesInv => PlacesInv
  BY DEF DuplicatesInv
<1>2. FilesKeptInv => FilesKept
  BY DEF FilesKeptInv, FilesKept, SettingsInv, ReplacedInv, CsvInv,
         TemporariesInv
<1>3. Spec => []DuplicatesInv
  BY DuplicatesInit, DuplicatesStep, CommandsAlways, PTL DEF Spec
<1>4. Spec => []FilesKeptInv
  BY <1>1, <1>3, FilesKeptInit, FilesKeptStep, CommandsAlways, PTL DEF Spec
<1> QED
  BY <1>2, <1>4, PTL

-----------------------------------------------------------------------------
(***************************************************************************)
(* Events                                                                  *)
(***************************************************************************)
(* Which events belong between which steps                                 *)
Say(x, y, kind) ==
  \/ x = "begin" /\ y \in { "read", "load" } /\ kind \in Initial
  \/ x \in { "begin", "fail" } /\ y = "respond" /\ kind \in Failing
  \/ x = "complete" /\ y = "respond" /\ kind \in Successful
  \/ /\ x \in PipelineSteps /\ y \in PipelineSteps \cup { "load", "fail" }
     /\ kind = Progress(Due(x)) /\ Due(x) < Due(y)

Speaks(s, kind) ==
  /\ published' = [ published EXCEPT ![s] = Append(@, Event(s, kind)) ]
  /\ Say(job[s].step, job'[s].step, kind)

(* Only a command that is killed says nothing where an event is due.       *)
Mute(s) ==
  /\ \A t \in Sidecars : published'[t] = published[t]
  /\ job[s].step \in { "begin", "fail", "complete" } =>
       job'[s].step \in { "idle", "down" }

LEMMA DueValues ==
  /\ Due("read") = 10 /\ Due("extract") = 25 /\ Due("exists") = 40
  /\ Due("enrich") = 60 /\ Due("load") = 80 /\ Due("reset") = 80
  /\ Due("score") = 80 /\ Due("insert") = 90 /\ Due("resolve") = 100
  /\ Due("reload") = 100 /\ Due("find") = 101 /\ Due("timeline") = 101
  /\ Due("lookup") = 101 /\ Due("complete") = 101 /\ Due("fail") = 101
  /\ Due("respond") = 101
BY DEF Due

LEMMA DueNumber ==
  ASSUME NEW x
  PROVE  Due(x) \in Nat /\ Due(x) <= 101
BY DEF Due

LEMMA Kinds3 ==
  /\ Started \in Initial /\ TiStarted \in Initial
  /\ Failed \in Failing /\ TiFailed \in Failing
  /\ Completed \in Successful /\ TiCompleted \in Successful
BY DEF Initial, Failing, Successful

(* A command that takes a step says what belongs there. *)
LEMMA StepsAfter ==
  ASSUME JobsInv, NEW s \in Sidecars
  PROVE  /\ \A x : GoTo(s, x) => job'[s].step = x
         /\ \A code : Raises(s, code) => job'[s].step = "fail"
         /\ BreaksPipeline(s) => job'[s].step = "fail"
BY JobShape DEF GoTo, Raises, BreaksPipeline

LEMMA SayingProgress ==
  ASSUME NEW s \in Sidecars, NEW x \in PipelineSteps, At(s, x),
         Publish(s, Event(s, Progress(Due(x)))),
         job'[s].step \in PipelineSteps \cup { "load", "fail" },
         Due(x) < Due(job'[s].step)
  PROVE  Speaks(s, Progress(Due(x)))
BY DEF Speaks, Say, Publish, At

LEMMA SilentMute ==
  ASSUME NEW s \in Sidecars, UNCHANGED streamVars,
         job[s].step \notin { "begin", "fail", "complete" }
  PROVE  Mute(s)
BY DEF Mute, streamVars

LEMMA AnalyzeSpeech ==
  ASSUME JobsInv, NEW s \in Sidecars, AnalyzeStep(s)
  PROVE  Mute(s) \/ \E kind \in EventNames \X Nat : Speaks(s, kind)
<1> DEFINE Spoken == \E kind \in EventNames \X Nat : Speaks(s, kind)
<1>1. ASSUME NEW x \in PipelineSteps, At(s, x),
             Publish(s, Event(s, Progress(Due(x)))),
             job'[s].step \in PipelineSteps \cup { "load", "fail" },
             Due(x) < Due(job'[s].step)
      PROVE  Spoken
  <2>1. Progress(Due(x)) \in EventNames \X Nat
    BY DueNumber, EventKinds
  <2> QED
    BY <1>1, <2>1, SayingProgress
<1>2. ASSUME NEW kind \in EventNames \X Nat, Publish(s, Event(s, kind)),
             Say(job[s].step, job'[s].step, kind)
      PROVE  Spoken
  BY <1>2 DEF Speaks, Publish
<1>3. CASE Begin(s)
  <2>1. At(s, "begin")
    BY <1>3 DEF Begin
  <2>2. CASE Publish(s, Event(s, Started)) /\ GoTo(s, "read")
    <3>1. Say(job[s].step, job'[s].step, Started)
      BY <2>1, <2>2, StepsAfter, Kinds3 DEF Say, At
    <3> QED
      BY <1>2, <2>2, <3>1, EventKinds
  <2>3. CASE Publish(s, Event(s, TiStarted)) /\ GoTo(s, "load")
    <3>1. Say(job[s].step, job'[s].step, TiStarted)
      BY <2>1, <2>3, StepsAfter, Kinds3 DEF Say, At
    <3> QED
      BY <1>2, <2>3, <3>1, EventKinds
  <2>4. CASE /\ Publish(s, Event(s, Failed))
             /\ job' = [ job EXCEPT ![s].step = "respond",
                                    ![s].code = "REPORT_NOT_FOUND" ]
    <3>1. job'[s].step = "respond"
      BY <2>4, JobShape
    <3>2. Say(job[s].step, job'[s].step, Failed)
      BY <2>1, <3>1, Kinds3 DEF Say, At
    <3> QED
      BY <1>2, <2>4, <3>2, EventKinds
  <2> QED
    BY <1>3, <2>2, <2>3, <2>4 DEF Begin
<1>4. CASE FailJob(s)
  <2> DEFINE kind == IF Named(s, { "enrich_ioc" }) THEN TiFailed ELSE Failed
  <2>1. kind \in EventNames \X Nat /\ kind \in Failing
    BY EventKinds, Kinds3
  <2>2. At(s, "fail") /\ Publish(s, Event(s, kind)) /\ GoTo(s, "respond")
    BY <1>4 DEF FailJob
  <2> HIDE DEF kind
  <2>3. Say(job[s].step, job'[s].step, kind)
    BY <2>1, <2>2, StepsAfter DEF Say, At
  <2> QED
    BY <1>2, <2>1, <2>2, <2>3
<1>5. CASE CompleteJob(s)
  <2> DEFINE kind == IF Named(s, { "enrich_ioc" }) THEN TiCompleted
                                                   ELSE Completed
  <2>1. kind \in EventNames \X Nat /\ kind \in Successful
    BY EventKinds, Kinds3
  <2>2. At(s, "complete") /\ Publish(s, Event(s, kind)) /\ GoTo(s, "respond")
    BY <1>5 DEF CompleteJob
  <2> HIDE DEF kind
  <2>3. Say(job[s].step, job'[s].step, kind)
    BY <2>1, <2>2, StepsAfter DEF Say, At
  <2> QED
    BY <1>2, <2>1, <2>2, <2>3
<1>6. CASE Respond(s) \/ Lookup(s) \/ FindExisting(s) \/ ResolveConflict(s)
             \/ RecordEntry(s) \/ EntriesDone(s)
  BY <1>6, SilentMute DEF Respond, Lookup, FindExisting, ResolveConflict,
     RecordEntry, EntriesDone, At
<1> USE DEF PipelineSteps
<1>7. CASE ReadReport(s)
  <2>1. CASE Publish(s, Event(s, Progress(10)))
    <3>1. job'[s].step \in { "extract", "fail" }
      BY <1>7, StepsAfter DEF ReadReport
    <3> QED
      BY <1>1, <1>7, <2>1, <3>1, DueValues DEF ReadReport
  <2>2. CASE UNCHANGED streamVars
    BY <1>7, <2>2, SilentMute DEF ReadReport, At
  <2> QED
    BY <1>7, <2>1, <2>2 DEF ReadReport
<1>8. CASE Extract(s)
  BY <1>1, <1>8, StepsAfter, DueValues DEF Extract
<1>9. CASE CheckExists(s)
  <2>1. job'[s].step \in { "find", "enrich", "fail" }
    BY <1>9, StepsAfter DEF CheckExists
  <2> QED
    BY <1>1, <1>9, <2>1, DueValues DEF CheckExists
<1>10. CASE Enrich(s)
  <2>1. job'[s].step \in { "score", "load" }
    BY <1>10, StepsAfter DEF Enrich
  <2> QED
    BY <1>1, <1>10, <2>1, DueValues DEF Enrich
<1>11. CASE Score(s)
  BY <1>1, <1>11, StepsAfter, DueValues DEF Score
<1>12. CASE InsertRow(s)
  <2>1. job'[s].step \in { "reload", "resolve", "fail" }
    <3>1. CASE job' = [ job EXCEPT ![s].step = "reload", ![s].id = NextId ]
      BY <3>1, JobShape
    <3> QED
      BY <1>12, <3>1, StepsAfter DEF InsertRow
  <2> QED
    BY <1>1, <1>12, <2>1, DueValues DEF InsertRow
<1>13. CASE Reload(s)
  <2>1. CASE /\ Publish(s, Event(s, Progress(100)))
             /\ job' = [ job EXCEPT ![s].step = "timeline",
                                    ![s].todo = EntriesToWrite(s) ]
    <3>1. job'[s].step = "timeline"
      BY <2>1, JobShape
    <3> QED
      BY <1>1, <1>13, <2>1, <3>1, DueValues DEF Reload
  <2>2. CASE UNCHANGED streamVars
    BY <1>13, <2>2, SilentMute DEF Reload, At
  <2> QED
    BY <1>13, <2>1, <2>2 DEF Reload
<1> QED
  BY <1>3, <1>4, <1>5, <1>6, <1>7, <1>8, <1>9, <1>10, <1>11, <1>12, <1>13
     DEF AnalyzeStep

LEMMA Speech ==
  ASSUME JobsInv, FilesInv, NEW s \in Sidecars, SidecarStep(s)
  PROVE  Mute(s) \/ \E kind \in EventNames \X Nat : Speaks(s, kind)
<1>1. CASE Accept(s)
  BY <1>1, SilentMute DEF Accept, LoopIdle, At
<1>2. CASE StoreStep(s)
  BY <1>2, SilentMute, StoreSteps, StoreStepEffect
<1>3. CASE FileStep(s)
  BY <1>3, SilentMute, FileSteps, FileStepEffect
<1>4. CASE Kill(s)
  <2>1. job'[s] = Down /\ Down.step = "down"
    BY <1>4, JobShape DEF Kill, Down, Idle
  <2> QED
    BY <1>4, <2>1 DEF Kill, Hangup, Mute
<1>5. CASE Restart(s)
  BY <1>5, SilentMute DEF Restart, At
<1>6. CASE Return(s)
  BY <1>6, SilentMute DEF Return, At
<1> QED
  BY <1>1, <1>2, <1>3, <1>4, <1>5, <1>6, AnalyzeSpeech
     DEF SidecarStep, CommandStep

(* A command goes on.                                                      *)
Moves(j, k) ==
  /\ k.request = j.request
  /\ j.step \notin { "idle", "down", "respond" }
  /\ k.step \notin { "idle", "down", "begin" }
  /\ k.code = j.code \/ (k.code # "none" /\ j.step # "complete")
  /\ k.step = "respond" => \/ j.step \in { "fail", "complete" }
                           \/ j.step = "begin" /\ k.code # "none"
  /\ j.request.name \in Publishing /\ j.step # "begin" =>
       Due(j.step) <= Due(k.step)

LEMMA EdgeDue ==
  ASSUME NEW name \in Publishing, NEW x, NEW y \in Steps, Edge(name, x, y),
         x # "begin"
  PROVE  Due(x) <= Due(y)
<1>1. CASE name = "analyze_report"
  BY <1>1, DueValues DEF Edge, Publishing
<1>2. CASE name = "enrich_ioc"
  BY <1>2, DueValues DEF Edge, Publishing
<1> QED
  BY <1>1, <1>2 DEF Publishing

LEMMA EdgeSteps ==
  ASSUME NEW name, NEW x, NEW y, Edge(name, x, y)
  PROVE  /\ x \notin { "idle", "down", "respond" }
         /\ y \notin { "idle", "down", "begin" }
         /\ y = "respond" => x \in { "fail", "complete" }
BY DEF Edge

LEMMA Moving ==
  ASSUME PlacesInv, NEW s \in Sidecars, Doing(s)
  PROVE  \/ AnswersKept /\ Moves(job[s], job'[s])
         \/ Begins(s) \/ Replies(s) \/ Pauses(s)
<1>1. CASE Proceeds(s)
  <2>1. PICK y \in Steps : /\ Edge(job[s].request.name, job[s].step, y)
                           /\ TurnTo(s, y)
    BY <1>1 DEF Proceeds
  <2>2. /\ job'[s].step = y /\ job'[s].request = job[s].request
        /\ job'[s].code = job[s].code
    BY <2>1 DEF TurnTo, Turn
  <2> QED
    BY <1>1, <2>1, <2>2, EdgeDue, EdgeSteps DEF Proceeds, Moves
<1>2. CASE Fails(s)
  <2>1. PICK x \in { "fail", "respond" }, code \in ErrorCodes \cup { "VANISHED" } :
          /\ Turn(s, x, job[s].id, job[s].existing, code)
          /\ IF x = "respond"
               THEN At(s, "begin")
               ELSE job[s].step \in PipelineSteps \cup { "lookup" }
    BY <1>2 DEF Fails
  <2>2. /\ job'[s].step = x /\ job'[s].request = job[s].request
        /\ job'[s].code = code /\ code # "none"
    BY <2>1 DEF Turn, ErrorCodes
  <2>3. Due(job[s].step) <= Due(x)
    BY DueValues, DueNumber
  <2> QED
    BY <1>2, <2>1, <2>2, <2>3 DEF Fails, Moves, At, PipelineSteps
<1>3. CASE Finds(s)
  <2>1. PICK x \in { "reload", "complete" } :
          /\ job'[s].step = x /\ job'[s].request = job[s].request
          /\ job'[s].code = job[s].code
          /\ x = "reload" => At(s, "resolve")
    BY <1>3 DEF Finds, Turn
  <2>2. job[s].step \in { "find", "resolve" }
    BY <1>3 DEF Finds
  <2> QED
    BY <1>3, <2>1, <2>2, DueValues DEF Finds, Moves, At
<1>4. CASE Creates(s)
  BY <1>4, DueValues DEF Creates, Inserts, Turn, Moves, At
<1>5. CASE Removes(s)
  BY <1>5 DEF Removes, Turn, Moves, At, Named, Publishing
<1> QED
  BY <1>1, <1>2, <1>3, <1>4, <1>5 DEF Doing

(* The log of a sidecar that nothing is added to, and of one that speaks   *)
LEMMA LogKept ==
  ASSUME NEW s, published'[s] = published[s], NEW n
  PROVE  /\ EventsOf(s, n)' = EventsOf(s, n)
         /\ InOrder(s, n)' <=> InOrder(s, n)
         /\ \A kinds : Told(s, n, kinds)' <=> Told(s, n, kinds)
         /\ \A i : Kind(s, i)' = Kind(s, i)
BY DEF EventsOf, InOrder, Told, Kind

LEMMA LogGrows ==
  ASSUME StreamsInv(Events), AnswersInv, NEW s \in Sidecars,
         NEW kind \in EventNames \X Nat, Speaks(s, kind)
  PROVE  /\ \A t \in Sidecars : t # s => published'[t] = published[t]
         /\ Len(published[s]) \in Nat
         /\ DOMAIN published[s] = 1 .. Len(published[s])
         /\ DOMAIN published'[s] = 1 .. (Len(published[s]) + 1)
         /\ published'[s][Len(published[s]) + 1].by = Current(s)
         /\ published'[s][Len(published[s]) + 1].kind = kind
         /\ \A i \in DOMAIN published[s] : published'[s][i] = published[s][i]
<1>1. published[s] \in Seq(Events) /\ DOMAIN published = Sidecars
  BY DEF StreamsInv, LogsOf
<1>2. /\ published'[s] = Append(published[s], Event(s, kind))
      /\ \A t \in Sidecars : t # s => published'[t] = published[t]
  BY <1>1 DEF Speaks
<1>3. /\ Event(s, kind).by = Current(s) /\ Event(s, kind).kind = kind
  BY DEF Event
<1>4. Event(s, kind) \in Events
  BY EventOfKind
<1> HIDE DEF Events
<1> QED
  BY <1>1, <1>2, <1>3, <1>4

(* What the events of a command become with one more *)
LEMMA EventsGrow ==
  ASSUME StreamsInv(Events), AnswersInv, NEW s \in Sidecars,
         NEW kind \in EventNames \X Nat, Speaks(s, kind), NEW n, NEW top,
         top = Len(published[s]) + 1
  PROVE  /\ EventsOf(s, n)' = EventsOf(s, n) \cup
                                { i \in { top } : n = Current(s) }
         /\ \A i \in EventsOf(s, n) : /\ i \in Nat /\ i < top
                                      /\ Kind(s, i)' = Kind(s, i)
                                      /\ Kind(s, i) \in EventNames \X Nat
         /\ Kind(s, top)' = kind /\ top \in Nat
<1>1. published[s] \in Seq(Events)
  BY DEF StreamsInv, LogsOf
<1>2. \A i \in DOMAIN published[s] : published[s][i] \in Events
  BY <1>1
<1>3. \A i \in EventsOf(s, n) : Kind(s, i) \in EventNames \X Nat
  BY <1>2 DEF EventsOf, Kind, Events
<1> QED
  BY <1>3, LogGrows DEF EventsOf, Kind

(* The kinds of events *)
LEMMA KindsApart ==
  /\ Initial \cap (Successful \cup Failing) = {}
  /\ \A kind \in Initial \cup Successful \cup Failing :
       kind[2] = 0 /\ kind[1] # "analysis.progress"
  /\ \A p : /\ Progress(p)[2] = p /\ Progress(p)[1] = "analysis.progress"
            /\ Progress(p) \notin Initial \cup Successful \cup Failing
BY DEF Initial, Successful, Failing, Started, TiStarted, Completed, TiCompleted,
       Failed, TiFailed, Progress

LEMMA EventsTyped ==
  ASSUME StreamsInv(Events), NEW s \in Sidecars, NEW n
  PROVE  \A i \in EventsOf(s, n) : i \in Nat /\ Kind(s, i) \in EventNames \X Nat
<1>1. published[s] \in Seq(Events)
  BY DEF StreamsInv, LogsOf
<1>2. \A i \in DOMAIN published[s] : i \in Nat /\ published[s][i] \in Events
  BY <1>1
<1> QED
  BY <1>2 DEF EventsOf, Kind, Events

(* What a command that goes on has told *)
LEMMA TellingMute ==
  ASSUME StreamsInv(Events), NEW s \in Sidecars, NEW n, NEW j, NEW k,
         Telling(s, n, j), Moves(j, k), published'[s] = published[s],
         j.step \notin { "begin", "fail", "complete" }
  PROVE  Telling(s, n, k)'
<1>1. /\ EventsOf(s, n)' = EventsOf(s, n)
      /\ InOrder(s, n)'
      /\ \A kinds : Told(s, n, kinds)' <=> Told(s, n, kinds)
      /\ \A i : Kind(s, i)' = Kind(s, i)
  BY LogKept DEF Telling
<1>2. \A i \in EventsOf(s, n) : Kind(s, i)[2] < Due(k.step)
  <2> TAKE i \in EventsOf(s, n)
  <2>1. Kind(s, i)[2] \in Nat /\ Kind(s, i)[2] < Due(j.step)
    BY EventsTyped DEF Telling
  <2>2. Due(j.step) <= Due(k.step)
    BY DEF Telling, Moves
  <2> QED
    BY <2>1, <2>2, DueNumber
<1>3. k.step # "respond" /\ j.step # "respond"
  BY DEF Moves
<1>4. k.code = "none" => j.code = "none"
  BY DEF Moves
<1> QED
  BY <1>1, <1>2, <1>3, <1>4 DEF Telling, Moves

LEMMA TellingSpeaks ==
  ASSUME StreamsInv(Events), AnswersInv, NEW s \in Sidecars,
         NEW kind \in EventNames \X Nat, Speaks(s, kind),
         NEW n, n = Current(s), NEW j, j = job[s], NEW k, k = job'[s],
         PlaceOK(j), j.step \in PipelineSteps => j.request.name \in Publishing,
         Telling(s, n, j), Moves(j, k)
  PROVE  Telling(s, n, k)'
<1> DEFINE E == EventsOf(s, n)
           Ending == Successful \cup Failing
<1>0. PICK top : top = Len(published[s]) + 1
  OBVIOUS
<1>1. /\ EventsOf(s, n)' = E \cup { top }
      /\ Kind(s, top)' = kind /\ top \in Nat
      /\ \A i \in E : /\ i \in Nat /\ i < top /\ Kind(s, i)' = Kind(s, i)
                      /\ Kind(s, i) \in EventNames \X Nat
  BY <1>0, EventsGrow
<1>2. Say(j.step, k.step, kind)
  BY DEF Speaks
<1>3. \A kinds : Told(s, n, kinds)' <=> Told(s, n, kinds) \/ kind \in kinds
  BY <1>1 DEF Told
<1>4. /\ j.step # "respond" /\ k.step \notin { "idle", "down", "begin" }
      /\ k.request = j.request
  BY DEF Moves
<1>5. j.request.name \in Publishing
  BY <1>2 DEF Say, PlaceOK
<1>6. \A i \in E : /\ Kind(s, i)[2] \in Nat /\ Kind(s, i)[2] < Due(j.step)
                   /\ Kind(s, i) \notin Ending
  BY <1>1, <1>4 DEF Telling, Told
<1>7. ~ Told(s, n, Ending)
  BY <1>6 DEF Told
<1>8. Due(j.step) \in Nat /\ Due(k.step) \in Nat /\ kind[2] \in Nat
  BY DueNumber
<1>9. kind[2] < Due(k.step)
  BY <1>2, <1>8, KindsApart, DueValues DEF Say
<1>10. k.step # "respond" => kind \notin Ending
  BY <1>2, KindsApart DEF Say
<1>11. k.step = "respond" =>
         kind \in IF k.code = "none" THEN Successful ELSE Failing
  BY <1>2, KindsApart DEF Say, PlaceOK, Moves, PipelineSteps
<1>12. CASE j.step = "begin"
  <2>1. E = {}
    BY <1>12 DEF Telling
  <2>2. k.code = "none" => kind \in Initial
    BY <1>2, <1>12 DEF Say, Moves, PipelineSteps
  <2>3. InOrder(s, n)'
    BY <1>1, <2>1 DEF InOrder
  <2>4. \A i \in EventsOf(s, n)' : Kind(s, i)'[2] < Due(k.step)
    BY <1>1, <1>9, <2>1
  <2> HIDE DEF E
  <2> QED
    BY <1>1, <1>3, <1>4, <1>5, <1>7, <1>10, <1>11, <2>2, <2>3, <2>4 DEF Telling
<1>13. CASE j.step # "begin"
  <2>1. kind \notin Initial
    BY <1>2, <1>13, KindsApart DEF Say
  <2>2. kind[1] = "analysis.progress" => kind[2] = Due(j.step)
    BY <1>2, <1>13, KindsApart DEF Say
  <2>3. InOrder(s, n)'
    <3>1. InOrder(s, n)
      BY DEF Telling
    <3> QED
      BY <1>1, <1>6, <2>1, <2>2, <3>1 DEF InOrder
  <2>4. \A i \in EventsOf(s, n)' : Kind(s, i)'[2] < Due(k.step)
    <3>1. Due(j.step) <= Due(k.step)
      BY <1>5, <1>13 DEF Moves
    <3> QED
      BY <1>1, <1>6, <1>8, <1>9, <3>1
  <2>5. k.code = "none" => Told(s, n, Initial)
    <3>1. k.code = "none" => j.code = "none"
      BY DEF Moves
    <3>2. j.step \notin { "idle", "down", "begin" }
      BY <1>13 DEF Moves
    <3> QED
      BY <1>5, <3>1, <3>2 DEF Telling
  <2> HIDE DEF E
  <2> QED
    BY <1>1, <1>3, <1>4, <1>5, <1>7, <1>10, <1>11, <2>3, <2>4, <2>5 DEF Telling
<1> QED
  BY <1>12, <1>13

LEMMA TellingNothing ==
  ASSUME NEW s, NEW n, NEW k, EventsOf(s, n)' = {}, k.step # "respond",
         \/ k.step \in { "idle", "down", "begin" }
         \/ k.request.name \notin Publishing
  PROVE  Telling(s, n, k)'
BY DEF Telling, InOrder, Told

(* A step of a sidecar keeps what its command is telling. *)
LEMMA TellingStep ==
  ASSUME CommandsInv, PlacesInv, EventsInv, NEW s \in Sidecars, SidecarStep(s)
  PROVE  Telling(s, Current(s), job[s])'
<1> USE DEF CommandsInv
<1>1. Doing(s) /\ (Mute(s) \/ \E kind \in EventNames \X Nat : Speaks(s, kind))
  BY SidecarDoing, Speech DEF SidecarStep
<1>2. PICK n, j, k, m :
        /\ n = Current(s) /\ j = job[s] /\ k = job'[s] /\ m = Current(s)'
  OBVIOUS
<1>3. Telling(s, n, j) /\ PlaceOK(j) /\ Numbered(s)
  BY <1>2 DEF EventsInv, PlacesInv
<1>4. n \in Nat
  BY <1>2, CurrentNumber
<1>5. (\E kind \in EventNames \X Nat : Speaks(s, kind)) =>
        /\ j.step \notin { "idle", "down" } /\ k.step \notin { "idle", "down" }
  BY <1>2 DEF Speaks, Say, PipelineSteps
<1>6. CASE AnswersKept /\ Moves(j, k)
  <2>1. m = n
    BY <1>2, <1>6 DEF AnswersKept, Current
  <2>2. CASE Mute(s)
    <3>1. /\ published'[s] = published[s]
          /\ j.step \notin { "begin", "fail", "complete" }
      BY <1>2, <1>6, <2>2 DEF Mute, Moves
    <3>2. Telling(s, n, k)'
      BY <1>3, <1>6, <3>1, TellingMute
    <3> QED
      BY <1>2, <2>1, <3>2 DEF Telling, InOrder, Told, EventsOf
  <2>3. ASSUME NEW kind \in EventNames \X Nat, Speaks(s, kind)
        PROVE  Telling(s, n, k)'
    <3>1. j.step \in PipelineSteps => j.request.name \in Publishing
      BY <1>2, Analyzing DEF Publishing
    <3> QED
      BY <1>2, <1>3, <1>6, <2>3, <3>1, TellingSpeaks
  <2> QED
    BY <1>1, <1>2, <2>1, <2>2, <2>3 DEF Telling, InOrder, Told, EventsOf
<1>7. CASE Begins(s) \/ Pauses(s)
  <2>1. published'[s] = published[s]
    BY <1>1, <1>2, <1>5, <1>7 DEF Begins, Pauses, LoopIdle, At, Mute
  <2>2. EventsOf(s, n) = {}
    BY <1>2, <1>3, <1>7 DEF Telling, Begins, Pauses, LoopIdle, At
  <2>3. m = n
    BY <1>2, <1>7 DEF Begins, Pauses, AnswersKept, Current
  <2>4. EventsOf(s, n)' = {}
    BY <2>1, <2>2, LogKept
  <2>5. /\ k.step # "respond"
        /\ \/ k.step \in { "idle", "down", "begin" }
           \/ k.request.name \notin Publishing
    BY <1>2, <1>7, FirstSteps DEF Begins, Pauses, Rests
  <2>6. Telling(s, n, k)'
    BY <2>4, <2>5, TellingNothing
  <2> QED
    BY <1>2, <2>3, <2>6 DEF Telling, InOrder, Told, EventsOf
<1>8. CASE Replies(s)
  <2>1. k.step \in { "idle", "down" }
    BY <1>2, <1>8 DEF Replies, Rests
  <2>2. published'[s] = published[s]
    BY <1>1, <1>5, <2>1 DEF Mute
  <2>3. m = n + 1
    BY <1>2, <1>8, AnswerAdded DEF Replies
  <2>4. EventsOf(s, m) = {}
    BY <1>2, <1>3, <1>4, <2>3 DEF Numbered, EventsOf
  <2>5. EventsOf(s, m)' = {}
    BY <2>2, <2>4, LogKept
  <2>6. Telling(s, m, k)'
    BY <2>1, <2>5, TellingNothing
  <2> QED
    BY <1>2, <2>6 DEF Telling, InOrder, Told, EventsOf
<1> QED
  BY <1>1, <1>2, <1>6, <1>7, <1>8, Moving

(* A step of a sidecar keeps its log in the order of its commands. *)
LEMMA NumberedStep ==
  ASSUME CommandsInv, PlacesInv, EventsInv, NEW s \in Sidecars, SidecarStep(s)
  PROVE  Numbered(s)'
<1> USE DEF CommandsInv
<1>1. Numbered(s) /\ Current(s) \in Nat \ { 0 }
  <2>1. PICK S : answers[s] \in Seq(S)
    BY DEF AnswersInv
  <2>2. Len(answers[s]) \in Nat
    BY <2>1
  <2> QED
    BY <2>2 DEF EventsInv, Current
<1>2. Current(s)' = Current(s) \/ Current(s)' = Current(s) + 1
  <2>1. CASE AnswersKept
    BY <2>1 DEF AnswersKept, Current
  <2>2. CASE Replies(s)
    BY <2>2, AnswerAdded DEF Replies
  <2> QED
    BY <2>1, <2>2, SidecarDoing, Moving DEF SidecarStep, Begins, Pauses
<1>3. CASE Mute(s)
  BY <1>1, <1>2, <1>3 DEF Mute, Numbered
<1>4. ASSUME NEW kind \in EventNames \X Nat, Speaks(s, kind)
      PROVE  Numbered(s)'
  <2>1. PICK top : top = Len(published[s])
    OBVIOUS
  <2>2. /\ top \in Nat /\ DOMAIN published[s] = 1 .. top
        /\ DOMAIN published'[s] = 1 .. (top + 1)
        /\ published'[s][top + 1].by = Current(s)
        /\ \A i \in 1 .. top : published'[s][i] = published[s][i]
    BY <1>4, <2>1, LogGrows
  <2>3. \A i \in 1 .. top : published[s][i].by \in 1 .. Current(s)
    BY <1>1, <2>2 DEF Numbered
  <2>4. \A i \in 1 .. (top + 1) :
          published'[s][i].by \in 1 .. Current(s)
    <3> TAKE i \in 1 .. (top + 1)
    <3>1. CASE i = top + 1
      <4>1. Current(s) \in 1 .. Current(s)
        BY <1>1
      <4> QED
        BY <2>2, <3>1, <4>1
    <3>2. CASE i # top + 1
      <4>1. i \in 1 .. top
        BY <2>2, <3>2
      <4>2. published'[s][i] = published[s][i]
        BY <2>2, <4>1
      <4> QED
        BY <2>3, <4>1, <4>2
    <3> QED
      BY <3>1, <3>2
  <2>5. \A i, j \in 1 .. (top + 1) :
          i < j => published'[s][i].by <= published'[s][j].by
    <3>1. \A i, j \in 1 .. top : i < j => published[s][i].by <= published[s][j].by
      BY <1>1, <2>2 DEF Numbered
    <3> TAKE i, j \in 1 .. (top + 1)
    <3>2. CASE j = top + 1
      <4>1. published'[s][i].by \in 1 .. Current(s)
        BY <2>4
      <4> QED
        BY <1>1, <2>2, <3>2, <4>1
    <3>3. CASE j # top + 1
      <4>1. j \in 1 .. top /\ (i < j => i \in 1 .. top)
        BY <2>2, <3>3
      <4> QED
        BY <2>2, <3>1, <4>1
    <3> QED
      BY <3>2, <3>3
  <2> QED
    BY <1>1, <1>2, <2>2, <2>4, <2>5 DEF Numbered
<1> QED
  BY <1>3, <1>4, Speech

(* What was settled stays, as long as nothing more is told of it. *)
LEMMA SettledKept ==
  ASSUME NEW s, NEW n, Settled(s, n), answers'[s][n] = answers[s][n],
         EventsOf(s, n)' = EventsOf(s, n),
         \A i \in EventsOf(s, n) : Kind(s, i)' = Kind(s, i)
  PROVE  Settled(s, n)'
<1>1. InOrder(s, n)' <=> InOrder(s, n)
  BY DEF InOrder
<1>2. \A kinds : Told(s, n, kinds)' <=> Told(s, n, kinds)
  BY DEF Told
<1> QED
  BY <1>1, <1>2 DEF Settled

(* A step adds nothing to what was told of a command that has answered. *)
LEMMA OldEvents ==
  ASSUME CommandsInv, NEW s \in Sidecars,
         Mute(s) \/ \E kind \in EventNames \X Nat : Speaks(s, kind),
         NEW n, n # Current(s) \/ published'[s] = published[s]
  PROVE  /\ EventsOf(s, n)' = EventsOf(s, n)
         /\ \A i \in EventsOf(s, n) : Kind(s, i)' = Kind(s, i)
<1>1. CASE published'[s] = published[s]
  BY <1>1, LogKept
<1>2. ASSUME NEW kind \in EventNames \X Nat, Speaks(s, kind), n # Current(s)
      PROVE  /\ EventsOf(s, n)' = EventsOf(s, n)
             /\ \A i \in EventsOf(s, n) : Kind(s, i)' = Kind(s, i)
  <2>1. PICK top : top = Len(published[s]) + 1
    OBVIOUS
  <2>2. /\ EventsOf(s, n)' = EventsOf(s, n) \cup { i \in { top } : n = Current(s) }
        /\ \A i \in EventsOf(s, n) : Kind(s, i)' = Kind(s, i)
    BY <1>2, <2>1, EventsGrow DEF CommandsInv
  <2> QED
    BY <1>2, <2>2
<1> QED
  BY <1>1, <1>2 DEF Mute

(* The answer a command is given agrees with what it has told. *)
LEMMA SettledNow ==
  ASSUME CommandsInv, PlacesInv, EventsInv, NEW s \in Sidecars, NEW a,
         Appended(s, a), Tells(s, a), published'[s] = published[s],
         NEW n, n = Current(s)
  PROVE  Settled(s, n)'
<1>1. answers'[s][n] = a
  BY AnswerAdded DEF CommandsInv
<1>2. /\ EventsOf(s, n)' = EventsOf(s, n)
      /\ InOrder(s, n)' <=> InOrder(s, n)
      /\ \A kinds : Told(s, n, kinds)' <=> Told(s, n, kinds)
  BY LogKept
<1>3. PICK j : j = job[s]
  OBVIOUS
<1>4. Telling(s, n, j) /\ PlaceOK(j)
  BY <1>3 DEF EventsInv, PlacesInv
<1> SUFFICES /\ InOrder(s, n)
             /\ EventsOf(s, n) # {} => a.request.name \in Publishing
             /\ a.ok /\ a.request.name \in Publishing =>
                  Told(s, n, Initial) /\ Told(s, n, Successful)
             /\ ~ a.ok /\ a.code # "LOST" /\ EventsOf(s, n) # {} =>
                  Told(s, n, Failing)
             /\ a.code \in { "INVALID_COMMAND_PAYLOAD", "UNKNOWN_COMMAND" } =>
                  EventsOf(s, n) = {}
  BY <1>1, <1>2 DEF Settled
<1>5. InOrder(s, n)
  BY <1>4 DEF Telling
<1>6. CASE LoopIdle(s) /\ (a.ok => a.request.name = "search_investigations")
  <2>1. EventsOf(s, n) = {}
    BY <1>3, <1>4, <1>6 DEF Telling, LoopIdle, At
  <2> QED
    BY <1>5, <1>6, <2>1 DEF Publishing
<1>7. CASE a.request = j.request /\ j.request.name \notin Publishing
  <2>1. EventsOf(s, n) = {}
    BY <1>4, <1>7 DEF Telling
  <2> QED
    BY <1>5, <1>7, <2>1
<1>8. CASE /\ a.request = j.request /\ j.step = "respond" /\ a.code = j.code
           /\ a.ok => a.code = "none"
           /\ ~ a.ok => a.code # "none"
  <2>1. /\ j.request.name \in Publishing
        /\ j.code \in ErrorCodes \cup { "none", "VANISHED" }
    BY <1>4, <1>8 DEF PlaceOK
  <2>2. /\ j.code = "none" => Told(s, n, Initial) /\ Told(s, n, Successful)
        /\ j.code # "none" => Told(s, n, Failing)
    BY <1>4, <1>8, <2>1 DEF Telling
  <2> QED
    BY <1>5, <1>8, <2>1, <2>2 DEF ErrorCodes
<1>9. CASE a.request = j.request /\ a.code = "LOST" /\ ~ a.ok
  BY <1>4, <1>5, <1>9 DEF Telling
<1> QED
  BY <1>3, <1>6, <1>7, <1>8, <1>9 DEF Tells, At

LEMMA SettledStep ==
  ASSUME CommandsInv, PlacesInv, EventsInv, NEW s \in Sidecars, SidecarStep(s)
  PROVE  \A n \in Answered(s)' : Settled(s, n)'
<1> USE DEF CommandsInv
<1>1. Doing(s) /\ (Mute(s) \/ \E kind \in EventNames \X Nat : Speaks(s, kind))
  BY SidecarDoing, Speech DEF SidecarStep
<1>2. \A n \in Answered(s) : Settled(s, n) /\ n # Current(s)
  <2>1. PICK S : answers[s] \in Seq(S)
    BY DEF AnswersInv
  <2>2. Len(answers[s]) \in Nat
    BY <2>1
  <2> QED
    BY <2>2 DEF EventsInv, Answered, Current
<1>3. ASSUME NEW n \in Answered(s), answers'[s][n] = answers[s][n]
      PROVE  Settled(s, n)'
  BY <1>1, <1>2, <1>3, OldEvents, SettledKept
<1>4. CASE AnswersKept
  <2>1. Answered(s)' = Answered(s) /\ answers'[s] = answers[s]
    BY <1>4 DEF AnswersKept, Answered
  <2> QED
    BY <1>3, <2>1
<1>5. CASE Replies(s)
  <2>1. PICK a : Appended(s, a) /\ Tells(s, a)
    BY <1>5 DEF Replies
  <2>2. /\ Answered(s)' = Answered(s) \cup { Current(s) }
        /\ \A n \in Answered(s) : answers'[s][n] = answers[s][n]
    BY <2>1, AnswerAdded
  <2>3. published'[s] = published[s]
    BY <1>1, <1>5 DEF Replies, Rests, Mute, Speaks, Say, PipelineSteps
  <2>4. ASSUME NEW n, n = Current(s) PROVE Settled(s, n)'
    BY <2>1, <2>3, <2>4, SettledNow
  <2> QED
    BY <1>3, <2>2, <2>4
<1> QED
  BY <1>1, <1>4, <1>5, Moving DEF Begins, Pauses

-----------------------------------------------------------------------------
(***************************************************************************)
(* The theorem about the events                                            *)
(***************************************************************************)
(* What a sidecar is not concerned with stays. *)
LEMMA EventsSame ==
  ASSUME NEW s, answers'[s] = answers[s], job'[s] = job[s],
         published'[s] = published[s], Numbered(s),
         Telling(s, Current(s), job[s]), \A n \in Answered(s) : Settled(s, n)
  PROVE  /\ Numbered(s)' /\ Telling(s, Current(s), job[s])'
         /\ \A n \in Answered(s)' : Settled(s, n)'
BY DEF Numbered, Telling, Settled, InOrder, Told, EventsOf, Kind, Current,
       Answered

LEMMA EventsStep ==
  CommandsInv /\ PlacesInv /\ EventsInv /\ [Next]_vars => EventsInv'
<1> SUFFICES ASSUME CommandsInv, PlacesInv, EventsInv, [Next]_vars
             PROVE  EventsInv'
  OBVIOUS
<1>1. ASSUME NEW s \in Sidecars, SidecarStep(s) PROVE EventsInv'
  <2>1. /\ Numbered(s)' /\ Telling(s, Current(s), job[s])'
        /\ \A n \in Answered(s)' : Settled(s, n)'
    BY <1>1, NumberedStep, TellingStep, SettledStep
  <2>2. ASSUME NEW t \in Sidecars, t # s
        PROVE  /\ Numbered(t)' /\ Telling(t, Current(t), job[t])'
               /\ \A n \in Answered(t)' : Settled(t, n)'
    <3>1. answers'[t] = answers[t] /\ job'[t] = job[t]
      BY <1>1, <2>2, OthersAnswers DEF CommandsInv
    <3>2. published'[t] = published[t]
      BY <1>1, <2>2, Speech, LogGrows DEF CommandsInv, Mute
    <3> QED
      BY <3>1, <3>2, EventsSame DEF EventsInv
  <2> QED
    BY <2>1, <2>2 DEF EventsInv
<1>2. ASSUME UNCHANGED << answers, job, published >> PROVE EventsInv'
  BY <1>2, EventsSame DEF EventsInv
<1>3. ASSUME NEW c \in Clients, WindowStep(c)
      PROVE  UNCHANGED << answers, job, published >>
  BY <1>3, WindowEffect
     DEF jobVars, WindowStep, OpenStream, ReaderThread, Generator, CloseStream,
         Connect, Take, TimeOut, Resume, Leave
<1> QED
  BY <1>1, <1>2, <1>3, StepCases DEF SidecarStep, vars, jobVars, streamVars

LEMMA EventsInit == Init => EventsInv
<1> SUFFICES ASSUME Init, NEW s \in Sidecars
             PROVE  /\ Numbered(s) /\ Telling(s, Current(s), job[s])
                    /\ \A n \in Answered(s) : Settled(s, n)
  BY DEF EventsInv
<1>1. /\ job[s] = Idle /\ answers[s] = << >> /\ published[s] = << >>
      /\ Idle.step = "idle"
  BY DEF Init, JobInit, StreamInit, Idle
<1>2. Answered(s) = {} /\ DOMAIN published[s] = {}
  BY <1>1 DEF Answered
<1>3. \A n : EventsOf(s, n) = {}
  BY <1>2 DEF EventsOf
<1>4. Numbered(s)
  BY <1>2 DEF Numbered
<1>5. Telling(s, Current(s), job[s])
  BY <1>1, <1>3 DEF Telling, InOrder, Told
<1> QED
  BY <1>2, <1>4, <1>5

(* The end of an analysis or a lookup that a window learns from the event  *)
(* stream is the end its answer tells, whatever fails, whoever is killed   *)
(* and whatever the other sidecars do: it starts once, its progress grows, *)
(* it ends once, completed exactly when the answer is a success; a command *)
(* that was refused tells nothing.                                         *)
THEOREM EventsTellTheEnd == Spec => []AnswerMatchesEvents
<1>1. DuplicatesInv => PlacesInv
  BY DEF DuplicatesInv
<1>2. EventsInv => AnswerMatchesEvents
  BY DEF EventsInv, AnswerMatchesEvents, Numbered
<1>3. Spec => []DuplicatesInv
  BY DuplicatesInit, DuplicatesStep, CommandsAlways, PTL DEF Spec
<1>4. Spec => []EventsInv
  BY <1>1, <1>3, EventsInit, EventsStep, CommandsAlways, PTL DEF Spec
<1> QED
  BY <1>2, <1>4, PTL
=============================================================================
