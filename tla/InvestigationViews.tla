------------------------- MODULE InvestigationViews -------------------------
(***************************************************************************)
(* What an investigation shows of itself: the pure functions of services/  *)
(* and threat_intel/ that the get_* handlers of application/handlers.py    *)
(* call, on a stored row and on whether a key is configured now.           *)
(***************************************************************************)
EXTENDS Scoring

Observed(row) == UNION { row.iocs[type] : type \in IocTypes }

-----------------------------------------------------------------------------
(***************************************************************************)
(* correlation_service.py                                                  *)
(***************************************************************************)
Correlation(kind, primary, related) ==
  [ kind |-> kind, primary |-> primary, related |-> related ]

(* RELATIONSHIP_PRIORITY: the order in which they are listed *)
Priority(correlation) ==
  CASE correlation.kind = "duplicate_ioc"     -> 1
    [] correlation.kind = "domain_url_host"   -> 2
    [] correlation.kind = "threat_intel_link" -> 4

(* The spellings of one indicator; the one that sorts first stands for all *)
Spellings(iocs, type, normal) ==
  { ioc \in iocs[type] : Normalize(ioc) = normal }
Canonical(spellings) == CHOOSE ioc \in spellings : TRUE

Duplicates(iocs) ==
  UNION { LET spellings == Spellings(iocs, TypeOf(ioc), Normalize(ioc))
          IN  { Correlation("duplicate_ioc", Canonical(spellings), other) :
                  other \in spellings \ { Canonical(spellings) } } :
          ioc \in UNION { iocs[type] : type \in IocTypes } }

(* The host is the domain, or ends with a dot and the domain. *)
HostOf(url, domain) ==
  UrlHost(url[2]) # << >> /\ IsSuffix(LowerAll(domain[2]), UrlHost(url[2]))

DomainHosts(iocs) ==
  { Correlation("domain_url_host", pair[1], pair[2]) :
      pair \in { p \in iocs["domains"] \X iocs["urls"] : HostOf(p[2], p[1]) } }

ThreatIntelLinks(row) ==
  { Correlation("threat_intel_link", ioc, ioc) :
      ioc \in { i \in Enrichable(row.iocs) : RecordsOf(row.ti, i) # {} } }

(* normalize_ioc_value is called on every indicator and raises for one     *)
(* that does not parse.                                                    *)
CorrelationRaises(row) == \E ioc \in Observed(row) : Unparsable(ioc)

Correlate(row) ==
  Duplicates(row.iocs) \cup DomainHosts(row.iocs) \cup ThreatIntelLinks(row)

(* The indicators that are an end of a relationship *)
Correlated(row) ==
  { ioc \in Observed(row) :
      \E c \in Correlate(row) : ioc \in { c.primary, c.related } }

-----------------------------------------------------------------------------
(***************************************************************************)
(* threat_intel_state.py and ioc_detail_context.py                         *)
(***************************************************************************)
(* classify_indicator_ti_state *)
TiState(row, ioc, keyed) ==
  CASE TypeOf(ioc) \notin EnrichableTypes -> "unsupported_type"
    [] TypeOf(ioc) \in EnrichableTypes /\ ~ keyed -> "no_api_key"
    [] OTHER ->
         IF RecordsOf(row.ti, ioc) # {} THEN "enriched"
         ELSE IF row.ti.coverage.invalid_api_key \/ row.ti.coverage.rate_limited
           THEN "provider_error"
         ELSE IF row.ti.status = "partial" THEN "incomplete_check"
         ELSE "not_enriched"

(* _build_threat_intel_context: the same decision for the detail view, and *)
(* the record it shows                                                     *)
DetailContext(row, ioc, keyed) ==
  LET records == RecordsOf(row.ti, ioc)
      shows(state) == [ state |-> state, record |-> {},
                        significance |-> Significance(TypeOf(ioc)),
                        severity |-> row.severity ]
  IN  IF TypeOf(ioc) \notin EnrichableTypes THEN shows("unsupported_type")
      ELSE IF ~ keyed                       THEN shows("no_api_key")
      ELSE IF records # {} THEN [ shows("enriched") EXCEPT !.record = records ]
      ELSE IF row.ti.coverage.invalid_api_key THEN shows("provider_error")
      ELSE IF row.ti.coverage.rate_limited  THEN shows("provider_error")
      ELSE IF row.ti.status = "partial"     THEN shows("incomplete_check")
      ELSE shows("not_enriched")

(* build_investigation_threat_intel_overview; the label stands for the     *)
(* message it comes with.                                                  *)
Overview(row, keyed) ==
  LET coverage == row.ti.coverage
      says(state, label) ==
        [ state |-> state, label |-> label, requested |-> coverage.requested,
          succeeded |-> coverage.succeeded ]
  IN  IF row.ti.status = "none" THEN says("not_enriched", "Not Available")
      ELSE IF row.ti.status = "no_indicators" \/ coverage.requested = 0
        THEN says("not_enriched", "No Enrichable Indicators")
      ELSE IF ~ keyed THEN says("no_api_key", "No API Key Configured")
      ELSE IF coverage.invalid_api_key
        THEN says("provider_error", "Provider Error (Invalid Key)")
      ELSE IF coverage.rate_limited
        THEN says("provider_error", "Provider Error (Rate Limited)")
      ELSE IF row.ti.status = "partial" THEN says("incomplete_check", "Partial")
      ELSE says("enriched", "Enriched")

(* build_investigation_typed_verdicts, for one indicator *)
TypedVerdictOf(row, ioc) == TypedVerdict(RecordsOf(row.ti, ioc))

-----------------------------------------------------------------------------
(***************************************************************************)
(* risk_explanation_service.py                                             *)
(***************************************************************************)
Categories(iocs) ==
  { [ type |-> type, count |-> Count(iocs, type), weight |-> IocWeight(type),
      significance |-> Significance(type), points |-> IocPoints(iocs, type) ] :
      type \in { t \in IocTypes : iocs[t] # {} } }

(* The order of the categories: most points first *)
TopCategories(iocs) ==
  { c \in Categories(iocs) : \A d \in Categories(iocs) : d.points <= c.points }

Verdicts(row, verdict) ==
  Cardinality({ record \in row.ti.records : record.verdict = verdict })

Warnings(verified, overview) ==
  (IF ~ verified THEN { "points do not add up" } ELSE {})
    \cup (IF overview.state \notin { "enriched", "not_enriched" }
            THEN { "coverage incomplete" } ELSE {})

(* What the narrative mentions, sentence by sentence *)
Narrative(row, verified, overview) ==
  { << "rating", row.severity >>, << "overview", overview.label >>,
    << "relationships", Cardinality(Correlate(row)) >> }
  \cup (IF Categories(row.iocs) = {} THEN { << "no evidence", 0 >> }
        ELSE IF verified
          THEN { << "largest", c.type >> : c \in TopCategories(row.iocs) }
        ELSE { << "categories", Cardinality(Categories(row.iocs)) >> })
  \cup (IF row.cve_score # 0
          THEN { << "cves", Count(row.iocs, "cves") >> } ELSE {})
  \cup (IF row.threat_intel_score # 0
          THEN { << "flagged", Verdicts(row, "Malicious")
                                 + Verdicts(row, "Suspicious") >> }
          ELSE {})

Explain(row, keyed) ==
  LET overview == Overview(row, keyed)
      verified == Total(LAMBDA c : c.points, Categories(row.iocs)) = row.ioc_score
  IN  [ score |-> row.risk_score, severity |-> row.severity,
        parts |-> << row.ioc_score, row.threat_intel_score, row.cve_score >>,
        categories |-> Categories(row.iocs), verified |-> verified,
        overview |-> overview, malicious |-> Verdicts(row, "Malicious"),
        suspicious |-> Verdicts(row, "Suspicious"),
        relationships |-> Cardinality(Correlate(row)),
        narrative |-> Narrative(row, verified, overview),
        warnings |-> Warnings(verified, overview) ]

-----------------------------------------------------------------------------
(***************************************************************************)
(* ioc_provenance.py, evidence_provenance.py, investigation_integrity.py   *)
(***************************************************************************)
(* Every observed indicator, with the report it came from *)
Provenance(row) ==
  { [ ioc |-> ioc, method |-> TypeOf(ioc), report |-> row.report,
      hashed |-> row.hashed, state |-> "OBSERVED" ] : ioc \in Observed(row) }

Attempted == { "ok", "partial", "no_indicators" }

Evidence(row) ==
  [ observed |-> CountAll(row.iocs),
    enrichable |-> Total(LAMBDA t : Count(row.iocs, t), EnrichableTypes),
    enriched |-> IF row.ti.status \in Attempted
                   THEN row.ti.coverage.succeeded ELSE 0,
    status |-> IF row.ti.status = "none" THEN "unavailable" ELSE row.ti.status,
    reason |-> row.ti.reason,
    risk_calculated |-> row.severity # "NOT_SCORED" ]

Integrity(row) ==
  [ source_hash_available |-> row.hashed,
    analysis_completed |-> row.status = "COMPLETED",
    threat_intel_attempted |->
      ~ ( row.ti.status = "unavailable"
          /\ row.ti.reason \in { "not_attempted", "disabled" } ),
    threat_intel_complete |-> row.ti.status \in Attempted,
    risk_calculation_completed |-> row.severity # "NOT_SCORED" ]

(* SourceIntegrityDTO: rows of before the column have no hash. *)
SourceIntegrity(row) ==
  [ report |-> row.report, status |-> IF row.hashed THEN "AVAILABLE" ELSE "UNAVAILABLE",
    algorithm |-> IF row.hashed THEN "sha256" ELSE "none" ]

-----------------------------------------------------------------------------
(***************************************************************************)
(* The answers of the get_* handlers                                       *)
(***************************************************************************)
Summary(row) ==
  [ id |-> row.id, report |-> row.report, risk_score |-> row.risk_score,
    severity |-> row.severity, confidence |-> row.confidence,
    status |-> row.status, day |-> row.day, hashed |-> row.hashed ]

(* An exception of correlate() is an INTERNAL_ERROR. *)
Opens(row) == ~ CorrelationRaises(row)

GetInvestigation(row) ==
  [ summary |-> Summary(row), correlations |-> Correlate(row) ]
GetRiskExplanation(row, keyed) == Explain(row, keyed)
GetIocs(row) ==
  [ iocs |-> row.iocs,
    significance |-> [ type \in IocTypes |->
                         << IocWeight(type), Significance(type) >> ] ]
GetThreatIntelligence(row, keyed) ==
  [ stored |-> row.ti,
    states |-> [ ioc \in Observed(row) |-> TiState(row, ioc, keyed) ],
    typed_verdicts |-> [ ioc \in Observed(row) |-> TypedVerdictOf(row, ioc) ] ]
GetIntegrity(row) == [ integrity |-> Integrity(row), evidence |-> Evidence(row) ]
GetProvenance(row) ==
  [ source |-> SourceIntegrity(row), provenance |-> Provenance(row) ]

(* The metadata of the timeline entries that an analysis writes; the       *)
(* correlation's entry is left out when correlate() raises.                *)
TimelineEntries(row, options) ==
  { << "investigation.created", 0 >>, << "report.imported", 0 >>,
    << "analysis.started", 0 >>, << "analysis.completed", 0 >> }
  \cup (IF "extract_iocs" \in options
          THEN { << "ioc_extraction.completed", CountAll(row.iocs) >> } ELSE {})
  \cup (IF "enrich_ti" \in options
          THEN { << "ti.enrichment.completed", row.ti.status >> } ELSE {})
  \cup (IF "score_risk" \in options
          THEN { << "risk.calculated", row.risk_score >> } ELSE {})
  \cup (IF CorrelationRaises(row) THEN {}
        ELSE { << "correlation.completed", Cardinality(Correlate(row)) >> })
=============================================================================
