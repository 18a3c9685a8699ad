----------------------------- MODULE Reporting ------------------------------
(***************************************************************************)
(* What leaves the program on paper: the four report formats of            *)
(* reporting/, the CSV of the history (services/                           *)
(* investigation_csv_export.py) and the command line's tables              *)
(* (display.py).  A document is the facts it shows; layout is left out     *)
(* except for the one page of a PDF.                                       *)
(***************************************************************************)
EXTENDS InvestigationViews

(* ReportBuilder.build *)
BuildReport(row) ==
  [ id |-> row.id, report |-> row.report, status |-> row.status,
    severity |-> row.severity, risk_score |-> row.risk_score,
    confidence |-> row.confidence,
    parts |-> << row.ioc_score, row.threat_intel_score, row.cve_score >>,
    iocs |-> row.iocs, ti |-> row.ti ]

(* The rows of the threat table, alike in HTML, Markdown and PDF *)
ThreatRow(record) ==
  [ indicator |-> record.ioc, verdict |-> record.verdict, detection |-> record.ratio ]
ThreatRows(report) ==
  UNION { { ThreatRow(record) : record \in RecordsOfType(report.ti, type) } :
          type \in EnrichableTypes }

(* HTMLReportExporter._build_context.  The colours of the score have their *)
(* own thresholds, which are not the severity's.                           *)
RiskLabel(score) ==
  CASE score < 30 -> "Low Risk"        [] score \in 30 .. 59 -> "Medium Risk"
    [] score \in 60 .. 79 -> "High Risk" [] score >= 80 -> "Critical Risk"
SeverityClass(severity) ==
  CASE severity = "LOW" -> "badge-low"   [] severity = "HIGH" -> "badge-high"
    [] severity = "CRITICAL" -> "badge-critical"
    [] OTHER -> "badge-medium"

IocRows(report) ==
  { [ type |-> type, count |-> Count(report.iocs, type) ] : type \in IocTypes }

HtmlReport(report) ==
  [ ioc_rows |-> IocRows(report), ioc_data |-> report.iocs,
    threat_rows |-> ThreatRows(report),
    threat_entries |-> Cardinality(report.ti.records),
    total_iocs |-> Total(LAMBDA r : r.count, IocRows(report)),
    severity_class |-> SeverityClass(report.severity),
    risk_label |-> RiskLabel(report.risk_score) ]

(* MarkdownReportExporter.export lists every indicator. *)
MarkdownReport(report) ==
  [ indicators |-> UNION { report.iocs[type] : type \in IocTypes },
    threat_rows |-> ThreatRows(report), parts |-> report.parts ]

(* JSONReportExporter.export: everything there is *)
JsonReport(report) == report

(***************************************************************************)
(* PDFReportExporter._render, in points from the bottom of the one page    *)
(* that its tables are drawn on: neither table is ever split.              *)
(***************************************************************************)
PageHeight    == 792
TableRow      == 20
BottomMargin  == 60
AfterHeader   == PageHeight - 70 - 25 - 2 * 20            \* title, report, time
AfterSummary  == AfterHeader - 45 - 35 - 3 * 20 - 50      \* executive summary
AfterDetails  == AfterSummary - 45 - 35 - 5 * 20          \* details
IocTableTop   == AfterDetails - 45 - 35

IocTableHeight(report) == TableRow * (1 + Cardinality(IocRows(report)))
AfterIocTable(report) ==
  LET y == IocTableTop - IocTableHeight(report)
  IN  IF y < BottomMargin + 150 THEN PageHeight - 70 ELSE y

(* Where the threat table begins, and how many of its rows are on the page *)
ThreatTableTop(report) ==
  AfterIocTable(report) - IocTableHeight(report) - 50 - 30
ThreatRowsOnPage(report) == ThreatTableTop(report) \div TableRow - 1

PdfReport(report) ==
  [ ioc_rows |-> IocRows(report), threat_rows |-> ThreatRows(report),
    cut_off |-> Cardinality(ThreatRows(report)) > ThreatRowsOnPage(report),
    parts |-> report.parts ]

-----------------------------------------------------------------------------
(***************************************************************************)
(* The history as CSV                                                      *)
(***************************************************************************)
CONSTANTS
  TextContains,   (* pairs of a text and a search text it contains          *)
  FormulaNames    (* report names that begin like a formula of a sheet      *)

(* filter_investigations_by_search_text *)
MatchesSearch(row, text) ==
  \/ << row.report, text >> \in TextContains
  \/ << row.severity, text >> \in TextContains
  \/ << row.status, text >> \in TextContains
Matching(stored, text) == { i \in DOMAIN stored : MatchesSearch(stored[i], text) }
Rank(S, i) == Cardinality({ j \in S : j <= i })

(* The rows that match, in their order *)
FilterRows(stored, text) ==
  LET matching == Matching(stored, text)
  IN  IF text = "" THEN stored
      ELSE [ n \in 1 .. Cardinality(matching) |->
               stored[CHOOSE i \in matching : Rank(matching, i) = n] ]

(* A name that a sheet would evaluate is quoted. *)
Sanitize(name) == [ text |-> name, quoted |-> name \in FormulaNames ]

CsvRow(row) ==
  [ id |-> row.id, report |-> Sanitize(row.report), severity |-> row.severity,
    risk_score |-> row.risk_score, status |-> row.status, day |-> row.day ]
CsvExport(stored, text) ==
  LET rows == FilterRows(stored, text)
  IN  [ rows |-> [ i \in DOMAIN rows |-> CsvRow(rows[i]) ], row_count |-> Len(rows) ]

-----------------------------------------------------------------------------
(***************************************************************************)
(* The command line: display_investigation_history and _details            *)
(***************************************************************************)
MaxIocPreview == 5

IocPreview(values) ==
  [ shown |-> Min({ Cardinality(values), MaxIocPreview }),
    more |-> IF Cardinality(values) > MaxIocPreview
               THEN Cardinality(values) - MaxIocPreview ELSE 0 ]

CliHistory(stored) ==
  [ i \in DOMAIN stored |->
      [ id |-> stored[i].id, iocs |-> CountAll(stored[i].iocs),
        risk |-> stored[i].risk_score, severity |-> stored[i].severity,
        status |-> stored[i].status ] ]

CliDetails(row) ==
  [ metadata |-> Summary(row),
    iocs |-> [ type \in IocTypes |->
                 [ count |-> Count(row.iocs, type),
                   preview |-> IocPreview(row.iocs[type]) ] ],
    vectors |-> << row.ioc_score, row.threat_intel_score, row.cve_score >> ]
=============================================================================
