----------------------------- MODULE MCCommands -----------------------------
EXTENDS Commands, TLC

CONSTANTS s1, s2, ui

Request(name, payload) == [ name |-> name, payload |-> payload ]
ById(name, id) == Request(name, [ investigation_id |-> Number(id) ])
Bare(name)     == Request(name, << >>)

Analyze(report) == Request("analyze_report", [ report_path |-> Text(report) ])
AnalyzeWith(report, options) ==
  Request("analyze_report", [ report_path |-> Text(report),
                              options |-> Object(options) ])
AnalyzeBare(report) ==
  AnalyzeWith(report, [ extract_iocs |-> Flag(FALSE),
                        enrich_ti |-> Flag(FALSE),
                        score_risk |-> Flag(FALSE) ])
DeleteFirst   == ById("delete_investigation", 1)
ExportFirst   ==
  Request("export_report", [ investigation_id |-> Number(1),
                             export_format |-> Text("json"),
                             output_path |-> Text("absolute") ])
ExportCsv == Request("export_investigations_csv",
                     [ output_path |-> Text("absolute") ])
ExportSearched ==
  Request("export_investigations_csv",
          [ output_path |-> Text("absolute"), search |-> Text("b") ])
EnrichIoc == Request("enrich_ioc", [ ioc_type |-> Text("url"),
                                     value |-> Text("u") ])
SetTo(field, value) == Request("save_settings", field :> Text(value))
SaveSetting(field) == SetTo(field, "changed")

Fresh == Saved(Defaults, FALSE)
Old   == Saved([ theme |-> "changed", export_directory |-> "default" ], TRUE)

Situation(file, listening, first, second) ==
  [ settings |-> file, windows |-> listening,
    inbox |-> (s1 :> first) @@ (s2 :> second) ]

(* Two windows analyse one report, and one deletes what came of it. *)
Duplicates ==
  { Situation(Fresh, {}, << Analyze("a"), AnalyzeBare("a") >>,
              << Analyze("a"), DeleteFirst >>) }

(* A window listens to one analysis, which then turns out to exist. *)
Streams ==
  { Situation(Fresh, { ui }, << Analyze("a"), AnalyzeBare("a") >>, << >>) }

(* An analysis and its export, while the other window deletes or lists. *)
Exports ==
  { Situation(Fresh, {},
              << AnalyzeBare("a"), ExportFirst, ById("get_timeline", 1) >>,
              << DeleteFirst >>),
    Situation(Fresh, {},
              << AnalyzeBare("a"), ExportCsv, DeleteFirst, AnalyzeBare("b") >>,
              << ExportCsv >>),
    Situation(Fresh, {}, << AnalyzeBare("a"), ExportFirst >>,
              << ExportFirst, ExportSearched >>) }

(* The settings file in every condition, and two windows that change it. *)
Settings ==
  { Situation(file, {}, << SaveSetting("theme"), Bare("get_settings") >>,
              << SaveSetting("export_directory") >>) :
      file \in { AbsentFile, GarbledFile, Old } }
    \cup
  { Situation(Fresh, {}, << SetTo("theme", "other"), Bare("get_settings") >>,
              << SaveSetting("theme"), SaveSetting("export_directory") >>) }

(* One indicator looked up, and requests that are refused. *)
Lookups ==
  { Situation(AbsentFile, { ui },
              << EnrichIoc, EnrichIoc, Request("enrich_ioc", << >>),
                 Bare("format_disk") >>, << >>) }

(* Every other command, one after the other. *)
Reads ==
  { Situation(AbsentFile, {},
              << AnalyzeBare("a"), ById("get_investigation", 1),
                 ById("get_threat_intelligence", 1),
                 ById("get_iocs", 2), Bare("list_investigations"),
                 Request("search_investigations",
                         [ report_name |-> Text("a") ]),
                 Request("search_investigations",
                         [ report_name |-> Text("") ]),
                 Bare("get_dashboard_summary") >>, << >>) }

MCSituations ==
  Duplicates \cup Streams \cup Exports \cup Settings \cup Lookups \cup Reads
=============================================================================
