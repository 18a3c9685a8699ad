----------------------------- MODULE Enrichment -----------------------------
(***************************************************************************)
(* ThreatIntelService.enrich_results (threat_intel/service.py): the        *)
(* lookups of one analysis, one after the other, hashes first, then        *)
(* addresses, domains and URLs.                                            *)
(*                                                                         *)
(* A work record holds the loops' local variables.  The four loops differ  *)
(* in what they count when a response ends them all.                       *)
(***************************************************************************)
EXTENDS VirusTotal

InOrder(iocs) ==
  SetToSeq(iocs["sha256"]) \o SetToSeq(iocs["ipv4"])
    \o SetToSeq(iocs["domains"]) \o SetToSeq(iocs["urls"])

Enrichable(iocs) == UNION { iocs[type] : type \in EnrichableTypes }

NoWork ==
  [ queue |-> << >>, client |-> FALSE, records |-> {}, requested |-> 0,
    succeeded |-> 0, failed |-> 0, skipped |-> 0, limited |-> FALSE,
    rejected |-> FALSE, error |-> "none" ]

StartWork(iocs) ==
  [ NoWork EXCEPT !.queue = InOrder(iocs), !.requested = Len(InOrder(iocs)) ]

(* Nothing is left to look up, or a loop stopped every loop, or an error   *)
(* that no loop catches reached the analysis.                              *)
WorkDone(work) ==
  work.queue = << >> \/ work.limited \/ work.rejected \/ work.error # "none"

(* What a stopped loop counts as failed: this indicator, the rest of its   *)
(* list, and the lists after it - except for the URLs when the rate limit  *)
(* ends the domains.                                                       *)
LeftBehind(queue, error) ==
  IF error = "RateLimitExceeded" /\ TypeOf(Head(queue)) = "domains"
    THEN Cardinality({ i \in DOMAIN queue : TypeOf(queue[i]) = "domains" })
    ELSE Len(queue)

(* Mutant: the indicators behind the one that stopped are not counted. *)
StopLookupsForgetful(work, error) ==
  [ work EXCEPT !.failed = @ + 1, !.limited = error = "RateLimitExceeded",
                !.rejected = error = "InvalidAPIKey" ]

StopLookups(work, error) ==
  [ work EXCEPT !.failed = @ + LeftBehind(work.queue, error),
                !.limited = error = "RateLimitExceeded",
                !.rejected = error = "InvalidAPIKey" ]

(* One turn of a loop: the indicator in front is looked up. *)
Turn(work, keyed, response) ==
  LET ioc     == Head(work.queue)
      outcome == LookupRaw(work.client \/ keyed, ioc, response)
      next    == [ work EXCEPT !.queue = Tail(@), !.client = TRUE ]
  IN  CASE outcome.error = "none" ->
             [ next EXCEPT !.succeeded = @ + 1,
                           !.records = @ \cup { WithVerdict(outcome.record[1]) } ]
        [] outcome.error = "InvalidIndicator" -> [ next EXCEPT !.skipped = @ + 1 ]
        [] outcome.error \in { "Timeout", "Connection", "UnexpectedAPIResponse" } ->
             [ next EXCEPT !.failed = @ + 1 ]
        [] outcome.error \in { "RateLimitExceeded", "InvalidAPIKey" } ->
             StopLookups(work, outcome.error)
        [] OTHER -> [ work EXCEPT !.error = outcome.error ]

-----------------------------------------------------------------------------
(***************************************************************************)
(* What an analysis stores (service.py's result, analyzer.py's errors)     *)
(***************************************************************************)
NoCoverage ==
  [ requested |-> 0, succeeded |-> 0, failed |-> 0, skipped_invalid |-> 0,
    rate_limited |-> FALSE, invalid_api_key |-> FALSE ]

Unavailable(reason) ==
  [ status |-> "unavailable", reason |-> reason, records |-> {},
    coverage |-> NoCoverage ]

(* An investigation of the time before enrichment: an empty object *)
NothingStored ==
  [ status |-> "none", reason |-> "none", records |-> {},
    coverage |-> NoCoverage ]

Status(work) ==
  IF work.requested = 0 THEN "no_indicators"
  ELSE IF work.limited \/ work.rejected \/ work.failed > 0 THEN "partial"
  ELSE "ok"

ThreatIntelligence(work) ==
  CASE work.error = "MissingAPIKey" -> Unavailable("missing_api_key")
    [] work.error \notin { "none", "MissingAPIKey" } -> Unavailable("error")
    [] work.error = "none" ->
         [ status |-> Status(work), reason |-> "none", records |-> work.records,
           coverage |-> [ requested |-> work.requested,
                          succeeded |-> work.succeeded,
                          failed |-> work.failed,
                          skipped_invalid |-> work.skipped,
                          rate_limited |-> work.limited,
                          invalid_api_key |-> work.rejected ] ]

(* build_threat_intel_by_value: the records of one indicator *)
RecordsOf(ti, ioc) == { record \in ti.records : record.ioc = ioc }
RecordsOfType(ti, type) == { record \in ti.records : TypeOf(record.ioc) = type }
=============================================================================
