----------------------------- MODULE VirusTotal -----------------------------
(***************************************************************************)
(* One lookup: threat_intel/virustotal.py, the provider around it          *)
(* (virustotal_provider.py) and the verdicts read from its record          *)
(* (service.py, models.py, verdict_from_persisted.py).                     *)
(***************************************************************************)
EXTENDS Indicators

CONSTANT Responses   (* what a request to VirusTotal can come back with     *)

(* A response of the service, or the way the request fails *)
Response(kind, status, body) == [ kind |-> kind, status |-> status, body |-> body ]

(* A body: whether its shape is right, its four counts, and the reputation *)
(* as a sequence of at most one number.                                    *)
Body(shape, malicious, suspicious, harmless, reputation) ==
  [ shape |-> shape, malicious |-> malicious, suspicious |-> suspicious,
    harmless |-> harmless, undetected |-> 1, reputation |-> reputation ]
NoBody == Body("none", 0, 0, 0, << >>)

(* How the body of a 200 can look to `_extract_attributes_and_stats`, and    *)
(* what `_request` tells apart about an answer                              *)
Shapes == { "stats", "huge_date", "not_json", "wrong_shape", "malformed" }

(* int() has made integers of what a body, and a record made of it, counts; *)
(* that no count is negative is the service's word.                         *)
Numeric(body) ==
  /\ { body.malicious, body.suspicious, body.harmless, body.undetected } \subseteq Nat
  /\ body.reputation # << >> => body.reputation[1] \in Int

ASSUME ResponsesAssumption ==
  \A response \in Responses :
    /\ response.kind \in { "answer", "timeout", "refused", "broken" }
    /\ response.kind = "answer" /\ response.status = 200 =>
         /\ response.body.shape \in Shapes
         /\ response.body.shape = "stats" => Numeric(response.body)

(* `found` is absent from the records of old investigations. *)
Record(ioc, found, body) ==
  [ ioc |-> ioc, found |-> found, malicious |-> body.malicious,
    suspicious |-> body.suspicious, harmless |-> body.harmless,
    undetected |-> body.undetected, reputation |-> body.reputation ]
NotFoundRecord(ioc) ==
  Record(ioc, "no", [ NoBody EXCEPT !.undetected = 0 ])

Found(record)  == [ error |-> "none", record |-> << record >> ]
Raised(error)  == [ error |-> error, record |-> << >> ]

-----------------------------------------------------------------------------
(***************************************************************************)
(* VirusTotalClient: the validators                                        *)
(***************************************************************************)
(* An extracted hash is 64 hexadecimal digits. *)
ValidIp(ip) ==
  /\ Len(ip.octets) = 4 /\ ~ ip.padded
  /\ \A i \in 1 .. 4 : ip.octets[i] <= 255

ValidDomain(labels) ==
  Len(labels) >= 2 /\ \A i \in DOMAIN labels : labels[i] \notin BadLabels

(* urlparse() gives the scheme in lower case. *)
ValidUrl(url) ==
  url.parses /\ Lower[url.scheme] \in { "http", "https" } /\ HasNetloc(url)

Valid(ioc) ==
  CASE TypeOf(ioc) = "sha256"  -> TRUE
    [] TypeOf(ioc) = "ipv4"    -> ValidIp(ioc[2])
    [] TypeOf(ioc) = "domains" -> ValidDomain(ioc[2])
    [] TypeOf(ioc) = "urls"    -> ValidUrl(ioc[2])

-----------------------------------------------------------------------------
(***************************************************************************)
(* VirusTotalClient: the request, its status and its body                  *)
(***************************************************************************)
(* A timestamp beyond the platform's range is an OverflowError, which      *)
(* nobody on the way turns into an error of the client.                    *)
ParseSuccess(ioc, body) ==
  CASE body.shape = "stats"     -> Found(Record(ioc, "yes", body))
    [] body.shape = "huge_date" -> Raised("Overflow")
    [] body.shape \in { "not_json", "wrong_shape", "malformed" } ->
         Raised("UnexpectedAPIResponse")

Interpret(ioc, response) ==
  CASE response.status = 200           -> ParseSuccess(ioc, response.body)
    [] response.status = 404           -> Found(NotFoundRecord(ioc))
    [] response.status \in { 401, 403 } -> Raised("InvalidAPIKey")
    [] response.status = 429           -> Raised("RateLimitExceeded")
    [] OTHER                           -> Raised("UnexpectedAPIResponse")

Request(ioc, response) ==
  CASE response.kind = "answer"  -> Interpret(ioc, response)
    [] response.kind = "timeout" -> Raised("Timeout")
    [] response.kind \in { "refused", "broken" } -> Raised("Connection")

(* lookup_raw(): the client, which needs a key, exists before a value is   *)
(* looked at, and a value that is refused is not sent.                     *)
LookupRaw(keyed, ioc, response) ==
  IF ~ keyed             THEN Raised("MissingAPIKey")
  ELSE IF ~ Valid(ioc)   THEN Raised("InvalidIndicator")
  ELSE Request(ioc, response)

-----------------------------------------------------------------------------
(***************************************************************************)
(* Verdicts                                                                *)
(***************************************************************************)
(* Mutant: an indicator nobody knows counts as clean. *)
FormatVerdictCleanUnlessSeen(record) ==
  IF record.malicious > 0       THEN "Malicious"
  ELSE IF record.suspicious > 0 THEN "Suspicious"
  ELSE "Clean"

(* _format_verdict: the text stored with the record *)
FormatVerdict(record) ==
  IF record.found = "no"        THEN "Not Found"
  ELSE IF record.malicious > 0  THEN "Malicious"
  ELSE IF record.suspicious > 0 THEN "Suspicious"
  ELSE "Clean"

(* The detections out of the engines asked, none for no engine *)
DetectionRatio(record) ==
  LET total == record.malicious + record.suspicious + record.harmless
                 + record.undetected
  IN  IF total > 0 THEN << record.malicious, total >> ELSE << >>

(* What enrich_results and lookup_indicator hand out *)
WithVerdict(record) ==
  [ ioc |-> record.ioc, found |-> record.found, malicious |-> record.malicious,
    suspicious |-> record.suspicious, harmless |-> record.harmless,
    undetected |-> record.undetected, reputation |-> record.reputation,
    verdict |-> FormatVerdict(record), ratio |-> DetectionRatio(record) ]

(* translate_verdict: the typed verdict of a record *)
TranslateVerdict(record) ==
  IF record.found # "yes"       THEN "not_found"
  ELSE IF record.malicious > 0  THEN "malicious"
  ELSE IF record.suspicious > 0 THEN "suspicious"
  ELSE "clean"

(* derive_typed_verdict: none without a record or without `found` *)
TypedVerdict(records) ==
  IF \E record \in records : record.found # "absent"
    THEN TranslateVerdict(CHOOSE record \in records : TRUE)
    ELSE "none"

LegacyVerdict(verdict) ==
  CASE verdict = "malicious"  -> "Malicious"
    [] verdict = "suspicious" -> "Suspicious"
    [] verdict = "clean"      -> "Clean"
    [] verdict = "not_found"  -> "Not Found"

(* VirusTotalProvider.lookup: an error is a verdict of its own, but for    *)
(* the errors it lets through.                                             *)
ProviderVerdict(keyed, ioc, response) ==
  IF TypeOf(ioc) \notin EnrichableTypes THEN "unsupported"
  ELSE LET outcome == LookupRaw(keyed, ioc, response)
       IN  CASE outcome.error = "none" -> TranslateVerdict(outcome.record[1])
             [] outcome.error \in { "MissingAPIKey", "InvalidAPIKey" } -> "no_api_key"
             [] outcome.error = "RateLimitExceeded"     -> "rate_limited"
             [] outcome.error \in { "Timeout", "Connection" } -> "unavailable"
             [] outcome.error = "UnexpectedAPIResponse" -> "error"
             [] outcome.error \in { "InvalidIndicator", "Overflow" } -> "raised"

(* aggregate(): several providers' verdicts on one indicator *)
ContentPrecedence == << "malicious", "suspicious", "clean" >>
AbsencePrecedence ==
  << "rate_limited", "no_api_key", "unavailable", "error", "not_found",
     "unsupported" >>
Aggregate(verdicts) ==
  IF verdicts = {} THEN "unsupported"
  ELSE LET order == ContentPrecedence \o AbsencePrecedence
       IN  order[Min({ i \in DOMAIN order : order[i] \in verdicts })]

(* _normalize_confidence, in two-hundredths *)
NormalizeConfidence(reputation) ==
  [ i \in DOMAIN reputation |-> Max({ 0, Min({ 200, reputation[i] + 100 }) }) ]
=============================================================================
