------------------------------ MODULE Scoring -------------------------------
(***************************************************************************)
(* RiskScoringEngine (scoring/engine.py), and the weights as they are      *)
(* shown (services/ioc_significance.py).                                   *)
(***************************************************************************)
EXTENDS Enrichment

MaxScore == 100

IocWeight(type) ==
  CASE type = "ipv4" -> 1      [] type = "domains" -> 2
    [] type = "urls" -> 3      [] type = "emails" -> 1
    [] type = "md5" -> 4       [] type = "sha1" -> 5
    [] type = "sha256" -> 6    [] type = "cves" -> 8
    [] type = "windows_file_paths" -> 2
    [] type = "windows_registry_keys" -> 3

(* ioc_type_significance *)
Significance(type) ==
  LET weight == IocWeight(type)
  IN  CASE weight >= 6 -> "High" [] weight \in 3 .. 5 -> "Medium"
        [] weight \in 1 .. 2 -> "Low"

Total(number(_), S) == SumFunction([ x \in S |-> number(x) ])
Count(iocs, type)   == Cardinality(iocs[type])
CountAll(iocs)      == Total(LAMBDA type : Count(iocs, type), IocTypes)

IocPoints(iocs, type) == Count(iocs, type) * IocWeight(type)
IocScore(iocs) == Total(LAMBDA type : IocPoints(iocs, type), IocTypes)

(* A bad reputation counts as much as it is below zero. *)
RecordPoints(record) ==
  record.malicious * 5 + record.suspicious * 2
    + (IF record.reputation # << >> /\ record.reputation[1] < 0
         THEN - record.reputation[1] ELSE 0)
ThreatIntelScore(ti) == Total(RecordPoints, ti.records)

CveScore(iocs) == Count(iocs, "cves") * 10

NormalizeScore(score) == Max({ 0, Min({ score, MaxScore }) })

DetermineSeverity(score) ==
  CASE score <= 20 -> "LOW"
    [] score \in 21 .. 40 -> "MEDIUM"
    [] score \in 41 .. 70 -> "HIGH"
    [] score > 70 -> "CRITICAL"

(* Mutant: a check that stopped half-way counts as a whole one. *)
CheckedOrStopped(ti) == ti.status \in { "ok", "no_indicators", "partial" }

Checked(ti) == ti.status \in { "ok", "no_indicators" }

(* In ten-thousandths, before it is rounded to two places *)
Confidence(iocs, ti) ==
  LET base == 250 * Min({ CountAll(iocs), 40 })
  IN  IF Checked(ti) THEN base ELSE base \div 2

(* calculate().  Its reasons, the one for an unfinished check among them,  *)
(* are not stored with the investigation.                                  *)
Risk(iocs, ti) ==
  LET ioc == IocScore(iocs)
      threat == ThreatIntelScore(ti)
      cve == CveScore(iocs)
      score == NormalizeScore(ioc + threat + cve)
  IN  [ risk_score |-> score, severity |-> DetermineSeverity(score),
        confidence |-> Confidence(iocs, ti), ioc_score |-> ioc,
        threat_intel_score |-> threat, cve_score |-> cve ]

(* What an analysis without scoring stores *)
NotScored ==
  [ risk_score |-> 0, severity |-> "NOT_SCORED", confidence |-> 0,
    ioc_score |-> 0, threat_intel_score |-> 0, cve_score |-> 0 ]
=============================================================================
