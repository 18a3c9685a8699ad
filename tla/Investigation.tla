--------------------------- MODULE Investigation ----------------------------
(***************************************************************************)
(* An analysis from the text of a report to everything the program later   *)
(* says about it: analyzer.py, one step for every lookup, with the         *)
(* provider's answers as they come and the API key set or removed at any   *)
(* time.  What is said is computed from the stored row and from whether a  *)
(* key is configured then.                                                 *)
(***************************************************************************)
EXTENDS Dashboards

CONSTANT Situations   (* bound: what is stored, the analyses to run, and    *)
                      (* whether the key may change meanwhile               *)

Covered(row) == row.ti.status \in Attempted
Short(coverage) ==
  coverage.requested - coverage.succeeded - coverage.failed - coverage.skipped_invalid

(* What the coverage of a stored analysis has to say of its indicators     *)
Accounted(row) ==
  LET c == row.ti.coverage
      asked == Enrichable(row.iocs)
      invalid == { ioc \in asked : ~ Valid(ioc) }
  IN  /\ c.requested = Cardinality(asked)
      /\ c.succeeded = Cardinality(row.ti.records)
      /\ \A r, s \in row.ti.records : r.ioc = s.ioc => r = s
      /\ { r.ioc : r \in row.ti.records } \subseteq asked \ invalid
      /\ c.skipped_invalid <= Cardinality(invalid)
      /\ Short(c) # 0 =>
           /\ c.rate_limited /\ Short(c) = Cardinality(row.iocs["urls"])
           /\ row.iocs["domains"] # {} /\ RecordsOfType(row.ti, "urls") = {}
      /\ row.ti.status = "ok" =>
           { r.ioc : r \in row.ti.records } = asked \ invalid
      /\ row.ti.status = "no_indicators" <=> asked = {}
      /\ c.rate_limited \/ c.invalid_api_key => row.ti.status = "partial"

(* Finitely many indicators, each among those of its type                  *)
Sorted(found) ==
  \A type \in IocTypes :
    /\ IsFiniteSet(found[type])
    /\ \A ioc \in found[type] : TypeOf(ioc) = type

(* A record of an answer, with the verdict it was stored with              *)
Answered(record) ==
  /\ Numeric(record) /\ record.found \in { "yes", "no", "absent" }
  /\ record.verdict = FormatVerdict(record)

(* The numbers of a row are those the engine gives it, or there are none.  *)
Scored(row) == row.severity # "NOT_SCORED"
Rated(row) ==
  LET risk == IF Scored(row) THEN Risk(row.iocs, row.ti) ELSE NotScored
  IN  \A field \in DOMAIN NotScored : row[field] = risk[field]

(* What every stored row is like *)
Whole(row) ==
  /\ Sorted(row.iocs)
  /\ IF Covered(row) THEN Accounted(row)
       ELSE row.ti.records = {} /\ row.ti.coverage = NoCoverage
  /\ \A record \in row.ti.records : Answered(record)
  /\ Rated(row)

(* A search for its name finds a report. *)
Findable(report) == << report, report >> \in TextContains

(* The reports to come have finitely many indicators, and the rows of      *)
(* older versions are like those of this one.                              *)
ASSUME SituationsAssumption ==
  \A situation \in Situations :
    /\ situation.rows \in Seq(Range(situation.rows))
    /\ \A row \in Range(situation.rows) : Whole(row) /\ Findable(row.report)
    /\ situation.analyses \in Seq(Range(situation.analyses))
    /\ \A analysis \in Range(situation.analyses) :
         IsFiniteSet(analysis.text) /\ Findable(analysis.report)

VARIABLES
  rows,      (* the stored investigations, newest first (list_all)          *)
  key,       (* whether an API key is configured                            *)
  restless,  (* whether somebody changes the key                            *)
  todo,      (* the analyses to come                                        *)
  stage,     (* idle, lookups or store                                      *)
  iocs,      (* what the running analysis extracted                         *)
  work       (* its lookups                                                 *)

vars == << rows, key, restless, todo, stage, iocs, work >>

Init ==
  /\ \E situation \in Situations :
       /\ rows = situation.rows /\ todo = situation.analyses
       /\ key = situation.key /\ restless = situation.restless
  /\ stage = "idle" /\ iocs = NoIocs /\ work = NoWork

Analysis == Head(todo)
Reports  == { rows[i].report : i \in DOMAIN rows }

(* The key is saved or removed by another window. *)
ChangeKey ==
  /\ restless /\ todo # << >>
  /\ key' = ~ key
  /\ UNCHANGED << rows, restless, todo, stage, iocs, work >>

(* The report is read and extracted; a report whose name is known is not   *)
(* analysed again.                                                         *)
Begin ==
  /\ stage = "idle" /\ todo # << >>
  /\ IF Analysis.report \in Reports
       THEN todo' = Tail(todo) /\ UNCHANGED << stage, iocs, work >>
       ELSE /\ iocs' = IF "extract_iocs" \in Analysis.options
                         THEN ExtractIocs(Analysis.text) ELSE NoIocs
            /\ stage' = "lookups" /\ work' = StartWork(iocs')
            /\ UNCHANGED todo
  /\ UNCHANGED << rows, key, restless >>

LooksUp == "enrich_ti" \in Analysis.options /\ ~ WorkDone(work)

LookUp ==
  /\ stage = "lookups" /\ LooksUp
  /\ \E response \in Responses : work' = Turn(work, key, response)
  /\ UNCHANGED << rows, key, restless, todo, stage, iocs >>

Enriched ==
  IF "enrich_ti" \in Analysis.options
    THEN ThreatIntelligence(work) ELSE Unavailable("disabled")

Row(ti, risk) ==
  [ id |-> Len(rows) + 1, report |-> Analysis.report, iocs |-> iocs, ti |-> ti,
    risk_score |-> risk.risk_score, severity |-> risk.severity,
    confidence |-> risk.confidence, ioc_score |-> risk.ioc_score,
    threat_intel_score |-> risk.threat_intel_score,
    cve_score |-> risk.cve_score, status |-> "COMPLETED", hashed |-> TRUE,
    day |-> Analysis.day ]

Store ==
  /\ stage = "lookups" /\ ~ LooksUp
  /\ rows' = << Row(Enriched, IF "score_risk" \in Analysis.options
                                THEN Risk(iocs, Enriched) ELSE NotScored) >> \o rows
  /\ todo' = Tail(todo) /\ stage' = "idle" /\ work' = NoWork /\ iocs' = NoIocs
  /\ UNCHANGED << key, restless >>

Next == ChangeKey \/ Begin \/ LookUp \/ Store

Spec == Init /\ [][Next]_vars

-----------------------------------------------------------------------------
(***************************************************************************)
(* The lookups are accounted for                                           *)
(***************************************************************************)
Stored == { rows[i] : i \in DOMAIN rows }

(* What the coverage says of an analysis adds up: one lookup per           *)
(* enrichable indicator, each of them succeeded, failed or skipped, the    *)
(* successes are the records, only invalid values are skipped and an "ok"  *)
(* leaves nothing out.  A rate limit among the domains falls short by      *)
(* exactly the URLs (service.py's four loops and their hand-made sums).    *)
EnrichmentAccounted == \A row \in Stored : Covered(row) => Accounted(row)

(* The inductive invariant behind it.  The first p lookups of an analysis  *)
(* have been done and counted, and the others wait; or the one after them  *)
(* has stopped the loops.                                                  *)
LookedUp(found, w, p) ==
  LET order == InOrder(found)
      done  == { order[i] : i \in 1 .. p }
      total == w.succeeded + w.failed + w.skipped
  IN  /\ w.requested = Len(order)
      /\ w.queue = [ i \in 1 .. Len(order) - p |-> order[p + i] ]
      /\ w.succeeded \in Nat /\ w.failed \in Nat
      /\ IsFiniteSet(w.records) /\ w.succeeded = Cardinality(w.records)
      /\ \A r, s \in w.records : r.ioc = s.ioc => r = s
      /\ \A r \in w.records : r.ioc \in done /\ Valid(r.ioc)
      /\ w.skipped = Cardinality({ ioc \in done : ~ Valid(ioc) })
      /\ w.failed = 0 =>
           \A ioc \in done : Valid(ioc) => \E r \in w.records : r.ioc = ioc
      /\ IF w.limited \/ w.rejected
           THEN /\ p < Len(order) /\ w.failed > 0
                /\ total = IF w.limited /\ TypeOf(order[p + 1]) = "domains"
                             THEN Len(order) - Cardinality(found["urls"])
                             ELSE Len(order)
           ELSE total = p

WorkInv ==
  /\ DOMAIN work = DOMAIN NoWork
  /\ stage = "lookups" =>
       /\ todo # << >> /\ Sorted(iocs)
       /\ work.error = "none" =>
            \E p \in 0 .. Len(InOrder(iocs)) : LookedUp(iocs, work, p)

AccountInv ==
  /\ rows \in Seq(Range(rows)) /\ todo \in Seq(Range(todo))
  /\ \A analysis \in Range(todo) : IsFiniteSet(analysis.text)
  /\ WorkInv /\ EnrichmentAccounted

(* The rows and the records of the running analysis are as they should be; *)
(* the other three invariants follow from this one.                        *)
WholeInv ==
  /\ \A row \in Stored : Whole(row) /\ Findable(row.report)
  /\ \A analysis \in Range(todo) : Findable(analysis.report)
  /\ \A record \in work.records : Answered(record)

-----------------------------------------------------------------------------
(***************************************************************************)
(* Nothing unchecked looks clean                                           *)
(***************************************************************************)
Shown(threatRows, ioc) == { r.verdict : r \in { t \in threatRows : t.indicator = ioc } }
Linked(row, ioc) == Correlation("threat_intel_link", ioc, ioc) \in Correlate(row)

(* One record, one verdict, in every view and every format *)
RecordShownAlike(row, ioc, record) ==
  LET report == BuildReport(row)
  IN  /\ Shown(ThreatRows(report), ioc) = { record.verdict }
      /\ record \in JsonReport(report).ti.records
      /\ Linked(row, ioc)
      /\ record.found # "absent" =>
           /\ record.verdict = LegacyVerdict(TypedVerdictOf(row, ioc))
           /\ record.verdict = "Clean" =>
                record.found = "yes" /\ record.malicious + record.suspicious = 0
      /\ key => DetailContext(row, ioc, key).record = { record }

NoRecordShown(row, ioc) ==
  LET report == BuildReport(row)
  IN  /\ Shown(ThreatRows(report), ioc) = {}
      /\ TypedVerdictOf(row, ioc) = "none"
      /\ ~ Linked(row, ioc)
      /\ TiState(row, ioc, key) # "enriched"
      /\ DetailContext(row, ioc, key).record = {}

(* Typed lookups know the verdicts of the stored ones, and a failed one is *)
(* never a verdict on the indicator.                                       *)
TypedLookupsAgree ==
  \A response \in Responses, keyed \in BOOLEAN :
    LET ioc == Plain("sha256", "hash")
        outcome == LookupRaw(keyed, ioc, response)
        verdict == ProviderVerdict(keyed, ioc, response)
    IN  IF outcome.error = "none"
          THEN LegacyVerdict(verdict) = FormatVerdict(outcome.record[1])
          ELSE Aggregate({ verdict } \ { "raised" })
                 \notin { "clean", "malicious", "suspicious", "not_found" }

(* An indicator that no provider answered for is nowhere shown with a      *)
(* verdict, and one that was answered for has the same verdict everywhere; *)
(* the whole investigation is "enriched" only when every lookup was        *)
(* answered or its value invalid (threat_intel_state.py,                   *)
(* ioc_detail_context.py, verdict_from_persisted.py, the exporters).       *)
UncheckedIsNotClean ==
  /\ TypedLookupsAgree
  /\ \A row \in Stored :
       /\ \A ioc \in Observed(row) :
            /\ DetailContext(row, ioc, key).state = TiState(row, ioc, key)
            /\ \A record \in RecordsOf(row.ti, ioc) : RecordShownAlike(row, ioc, record)
            /\ RecordsOf(row.ti, ioc) = {} => NoRecordShown(row, ioc)
       /\ Overview(row, key).state = "enriched" =>
            \A ioc \in Enrichable(row.iocs) :
              Valid(ioc) => RecordsOf(row.ti, ioc) # {} /\ TiState(row, ioc, key) = "enriched"
       /\ Overview(row, key).state \in { "provider_error", "incomplete_check" } =>
            /\ row.ti.status = "partial" /\ GetIntegrity(row).integrity.threat_intel_complete
            /\ "coverage incomplete" \in Explain(row, key).warnings

-----------------------------------------------------------------------------
(***************************************************************************)
(* The score can be explained                                              *)
(***************************************************************************)
Severities == << "LOW", "MEDIUM", "HIGH", "CRITICAL" >>
Flagged(record) == record.malicious > 0 \/ record.suspicious > 0

(* A score is the sum of its explained parts up to the maximum, a flagged  *)
(* record always counts, a higher score is never a lower severity, and     *)
(* confidence is whole only for a check that the explanation does not warn *)
(* about (scoring/engine.py, risk_explanation_service.py).                 *)
ScoreExplained ==
  /\ \A row \in Stored :
       LET explanation == Explain(row, key)
           parts == explanation.parts
       IN  /\ Scored(row) =>
                /\ explanation.verified
                /\ explanation.score = Min({ 100, parts[1] + parts[2] + parts[3] })
                /\ \A record \in row.ti.records :
                     Flagged(record) => explanation.score > 0 /\ parts[2] > 0
                /\ "points do not add up" \notin explanation.warnings
                /\ key /\ "coverage incomplete" \in explanation.warnings =>
                     2 * row.confidence <= 250 * Min({ 40, CountAll(row.iocs) })
           /\ ~ Scored(row) => explanation.score = 0 /\ parts = << 0, 0, 0 >>
           /\ explanation.malicious + explanation.suspicious
                = Cardinality({ r \in row.ti.records : r.found # "no" /\ Flagged(r) })
           /\ explanation.relationships >= Cardinality(row.ti.records)
           /\ Evidence(row).risk_calculated = Integrity(row).risk_calculation_completed
  /\ \A r, s \in Stored : \A i, j \in DOMAIN Severities :
       r.severity = Severities[i] /\ s.severity = Severities[j] /\ i < j
         => r.risk_score < s.risk_score

-----------------------------------------------------------------------------
(***************************************************************************)
(* Totals, lists and documents agree                                       *)
(***************************************************************************)
Values(counts) == Total(LAMBDA k : counts[k], DOMAIN counts)
At0(counts, k) == IF k \in DOMAIN counts THEN counts[k] ELSE 0

DocumentsWhole(row) ==
  LET report == BuildReport(row)
      html == HtmlReport(report)
      evidence == Evidence(row)
  IN  /\ MarkdownReport(report).indicators = Observed(row)
      /\ { p.ioc : p \in Provenance(row) } = Observed(row)
      /\ html.total_iocs = evidence.observed
      /\ html.threat_entries = Cardinality(html.threat_rows)
      /\ PdfReport(report).threat_rows = html.threat_rows
      /\ html.threat_entries <= 20 => ~ PdfReport(report).cut_off
      /\ Covered(row) => evidence.enriched = html.threat_entries
      /\ evidence.enriched <= evidence.enrichable /\ evidence.enrichable <= evidence.observed
      /\ Total(LAMBDA t : CliDetails(row).iocs[t].preview.shown
                            + CliDetails(row).iocs[t].preview.more, IocTypes)
           = evidence.observed
      /\ \A c \in Correlate(row) : { c.primary, c.related } \subseteq Observed(row)
      /\ Opens(row) <=> \E e \in TimelineEntries(row, {}) : e[1] = "correlation.completed"

(* Whatever adds the investigations up comes to the same numbers, a search *)
(* for its name exports a report, and every document of one investigation  *)
(* shows all of it, the PDF as far as it fits on the page                  *)
(* (services/dashboard_*.py, reporting/, investigation_csv_export.py,      *)
(* display.py).                                                            *)
TotalsAgree ==
  stage = "idle" =>
    LET summary == DashboardSummary(rows, 5)
        aggregate == AggregateSummary(rows)
        risks == summary.risk_distribution
    IN  /\ \A row \in Stored : DocumentsWhole(row)
        /\ summary.metrics.report_count = Len(rows) /\ aggregate.total = Len(rows)
        /\ Values(risks) = Len(rows) /\ Values(summary.status_counts) = Len(rows)
        /\ Values(aggregate.by_date) = Len(rows)
        /\ Values(summary.ioc_distribution) = summary.metrics.total_iocs
        /\ summary.metrics.total_iocs
             = Total(LAMBDA i : CliHistory(rows)[i].iocs, DOMAIN rows)
        /\ summary.metrics.high_risk = At0(risks, "HIGH") + At0(risks, "CRITICAL")
        /\ ThreatStatus(rows) = "NORMAL" <=> summary.metrics.high_risk = 0
        /\ \A i \in DOMAIN summary.coverage : summary.coverage[i] \in 0 .. 1000
        /\ CsvExport(rows, "").row_count = Len(rows)
        /\ \A row \in Stored :
             \E i \in DOMAIN CsvExport(rows, row.report).rows :
               CsvExport(rows, row.report).rows[i].id = row.id
        /\ { f.title : f \in Range(ThreatFeed(rows, 10)) }
             = { t.title : t \in Range(DashboardTimeline(rows, 10)) }
=============================================================================
