----------------------------- MODULE Dashboards -----------------------------
(***************************************************************************)
(* Totals over the stored investigations: services/dashboard_*.py, and the *)
(* answers of get_dashboard_summary and                                    *)
(* get_investigation_aggregate_summary.  `stored` is list_all(), newest    *)
(* first.                                                                  *)
(***************************************************************************)
EXTENDS Reporting

SumOver(stored, number(_)) ==
  Total(LAMBDA i : number(stored[i]), DOMAIN stored)
CountOf(stored, test(_)) ==
  Cardinality({ i \in DOMAIN stored : test(stored[i]) })

(* Counter objects: keys that occur, and how often *)
CountBy(stored, key(_)) ==
  LET keys == { key(stored[i]) : i \in DOMAIN stored }
  IN  [ k \in keys |-> CountOf(stored, LAMBDA row : key(row) = k) ]

(* Mutant: an investigation counts once per type. *)
IocDistributionOfRows(stored) ==
  [ type \in IocTypes |-> CountOf(stored, LAMBDA row : row.iocs[type] # {}) ]

IocDistribution(stored) ==
  [ type \in IocTypes |-> SumOver(stored, LAMBDA row : Count(row.iocs, type)) ]

OrUnknown(text) == IF text = "" THEN "UNKNOWN" ELSE text
SeverityDistribution(stored) ==
  CountBy(stored, LAMBDA row : OrUnknown(row.severity))
StatusCounts(stored) == CountBy(stored, LAMBDA row : OrUnknown(row.status))
ActivityByDate(stored) == CountBy(stored, LAMBDA row : row.day)

HighRisk(row) == row.severity \in { "HIGH", "CRITICAL" }
DashboardMetrics(stored) ==
  [ report_count |-> Len(stored),
    total_iocs |-> SumOver(stored, LAMBDA row : CountAll(row.iocs)),
    high_risk |-> CountOf(stored, HighRisk) ]

(* A percentage in tenths, none when nothing was asked *)
CoveragePercent(stored) ==
  LET requested == SumOver(stored, LAMBDA row : row.ti.coverage.requested)
      succeeded == SumOver(stored, LAMBDA row : row.ti.coverage.succeeded)
  IN  IF requested = 0 THEN << >>
      ELSE << (2000 * succeeded + requested) \div (2 * requested) >>

FindRecent(stored, limit) == SubSeq(stored, 1, Min({ limit, Len(stored) }))

DashboardSummary(stored, limit) ==
  [ metrics |-> DashboardMetrics(stored), coverage |-> CoveragePercent(stored),
    status_counts |-> StatusCounts(stored),
    risk_distribution |-> SeverityDistribution(stored),
    ioc_distribution |-> IocDistribution(stored),
    recent |-> [ i \in DOMAIN FindRecent(stored, limit) |-> Summary(stored[i]) ] ]

AggregateSummary(stored) ==
  [ total |-> Len(stored), status_counts |-> StatusCounts(stored),
    severity_distribution |-> SeverityDistribution(stored),
    ioc_distribution |-> IocDistribution(stored),
    coverage |-> CoveragePercent(stored), by_date |-> ActivityByDate(stored) ]

(* DashboardThreatService.get_threat_status *)
ThreatStatus(stored) ==
  IF CountOf(stored, LAMBDA row : row.severity = "CRITICAL") > 0 THEN "CRITICAL ALERT"
  ELSE IF CountOf(stored, LAMBDA row : row.severity = "HIGH") > 0 THEN "ELEVATED"
  ELSE "NORMAL"

(* DashboardThreatFeedService.get_feed, DashboardTimelineService.get_timeline *)
ThreatFeed(stored, limit) ==
  [ i \in DOMAIN FindRecent(stored, limit) |->
      [ title |-> stored[i].report, severity |-> stored[i].severity,
        risk_score |-> stored[i].risk_score ] ]
DashboardTimeline(stored, limit) ==
  [ i \in DOMAIN FindRecent(stored, limit) |->
      [ title |-> stored[i].report, risk_score |-> stored[i].risk_score,
        severity |-> IF stored[i].severity = "" THEN "INFO" ELSE stored[i].severity ] ]
=============================================================================
