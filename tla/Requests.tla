------------------------------ MODULE Requests ------------------------------
(***************************************************************************)
(* What a command accepts: the request classes of application/dto.py and   *)
(* the way dispatch() builds one from a JSON payload.                      *)
(*                                                                         *)
(* A payload maps field names to values and a value is a pair: its JSON    *)
(* type and the value.  A text is a token, and "" stands for a blank one.  *)
(***************************************************************************)
EXTENDS Naturals

CONSTANT AbsolutePaths   (* the path tokens that name an absolute path      *)

Number(n) == << "int", n >>
Text(text) == << "str", text >>
Flag(b)   == << "bool", b >>
Object(r) == << "object", r >>
Null      == << "null", "null" >>

OfType(type, value) == value[1] = type
NonBlank(value)     == OfType("str", value) /\ value[2] # ""

AnalysisOptionFields == { "extract_iocs", "enrich_ti", "score_risk" }
ValidExportFormats   == { "html", "pdf", "json", "markdown" }
ValidIocTypes        == { "sha256", "ipv4", "domain", "url" }

(* The requests that carry one investigation id and nothing else *)
ByIdNames ==
  { "get_investigation", "get_iocs", "get_threat_intelligence",
    "get_investigation_integrity", "get_investigation_provenance",
    "get_investigation_risk_explanation", "get_timeline",
    "delete_investigation" }
(* The requests without a field *)
BareNames ==
  { "get_settings", "list_investigations", "get_dashboard_summary",
    "get_investigation_aggregate_summary" }

CommandNames ==
  ByIdNames \cup BareNames \cup
  { "search_investigations", "save_settings", "analyze_report",
    "export_report", "export_investigations_csv", "enrich_ioc" }

-----------------------------------------------------------------------------
(***************************************************************************)
(* Construction: a missing or an unexpected field is a TypeError.          *)
(***************************************************************************)
Fields(required, optional, payload) ==
  /\ required \subseteq DOMAIN payload
  /\ DOMAIN payload \subseteq required \cup optional

Absent(field, payload) ==
  field \notin DOMAIN payload \/ payload[field] = Null

PositiveId(payload) ==
  /\ OfType("int", payload["investigation_id"])
  /\ payload["investigation_id"][2] > 0

AbsolutePath(payload) ==
  /\ NonBlank(payload["output_path"])
  /\ payload["output_path"][2] \in AbsolutePaths

(* AnalysisOptions.from_payload: null stands for the defaults. *)
OptionsAccepted(payload) ==
  \/ Absent("options", payload)
  \/ /\ OfType("object", payload["options"])
     /\ LET options == payload["options"][2]
        IN  /\ DOMAIN options \subseteq AnalysisOptionFields
            /\ \A field \in DOMAIN options : OfType("bool", options[field])

(* An option that is not named is switched on. *)
ChosenOptions(payload) ==
  IF Absent("options", payload)
    THEN AnalysisOptionFields
    ELSE LET options == payload["options"][2]
         IN  { field \in AnalysisOptionFields :
                 field \in DOMAIN options => options[field][2] }

(* SaveSettingsRequest: exactly one field, and never the key *)
SettingsAccepted(payload) ==
  /\ Fields({}, { "virustotal_api_key", "export_directory", "theme" }, payload)
  /\ Absent("virustotal_api_key", payload)
  /\ \E field \in { "export_directory", "theme" } :
       /\ \A other \in { "export_directory", "theme" } :
            Absent(other, payload) <=> other # field
       /\ OfType("str", payload[field])

ReportAccepted(payload) ==
  /\ Fields({ "investigation_id", "export_format", "output_path" }, {}, payload)
  /\ PositiveId(payload)
  /\ OfType("str", payload["export_format"])
  /\ payload["export_format"][2] \in ValidExportFormats
  /\ AbsolutePath(payload)

CsvAccepted(payload) ==
  /\ Fields({ "output_path" }, { "search" }, payload)
  /\ AbsolutePath(payload)
  /\ Absent("search", payload) \/ OfType("str", payload["search"])

EnrichAccepted(payload) ==
  /\ Fields({ "ioc_type", "value" }, {}, payload)
  /\ OfType("str", payload["ioc_type"])
  /\ payload["ioc_type"][2] \in ValidIocTypes
  /\ NonBlank(payload["value"])

AnalyzeAccepted(payload) ==
  /\ Fields({ "report_path" }, { "options" }, payload)
  /\ NonBlank(payload["report_path"])
  /\ OptionsAccepted(payload)

SearchAccepted(payload) ==
  /\ Fields({ "report_name" }, {}, payload)
  /\ OfType("str", payload["report_name"])

Accepted(name, payload) ==
  CASE name \in ByIdNames ->
         Fields({ "investigation_id" }, {}, payload) /\ PositiveId(payload)
    [] name \in BareNames                   -> Fields({}, {}, payload)
    [] name = "search_investigations"       -> SearchAccepted(payload)
    [] name = "save_settings"               -> SettingsAccepted(payload)
    [] name = "analyze_report"              -> AnalyzeAccepted(payload)
    [] name = "export_report"               -> ReportAccepted(payload)
    [] name = "export_investigations_csv"   -> CsvAccepted(payload)
    [] name = "enrich_ioc"                  -> EnrichAccepted(payload)

(* dispatch() before a handler runs, and run_command's own lookup *)
Verdict(name, payload) ==
  IF name \notin CommandNames        THEN "UNKNOWN_COMMAND"
  ELSE IF ~ Accepted(name, payload)  THEN "INVALID_COMMAND_PAYLOAD"
  ELSE "accepted"
=============================================================================
