--------------------------- MODULE MCInvestigation ---------------------------
EXTENDS Investigation, TLC

Capital == ("EVIL" :> "evil") @@ ("HTTP" :> "http") @@ ("USER" :> "user")
Small ==
  { "", "evil", "cdn", "com", "net", "local", "-bad", "http", "ftp", "user", "/A",
    "hash", "hash2", "md5", "sha1", "CVE-1", "path", "run key" }
MCLower == Capital @@ [ token \in Small |-> token ]

Hash     == Plain("sha256", "hash")
Hash2    == Plain("sha256", "hash2")
Address  == Ip(<< 10, 0, 0, 1 >>, FALSE)
BadAddress == Ip(<< 10, 0, 0, 300 >>, FALSE)
Evil     == Domain(<< "evil", "com" >>)
EvilCaps == Domain(<< "EVIL", "com" >>)
BadHost  == Domain(<< "-bad", "net" >>)
CdnUrl   == Url("HTTP", "", << "cdn", "evil", "com" >>, "/A", TRUE)
FtpUrl   == Url("ftp", "USER", << "local" >>, "", TRUE)
Unclosed == Url("http", "", << >>, "/A", FALSE)
Cve      == Plain("cves", "CVE-1")

Everything == { "extract_iocs", "enrich_ti", "score_risk" }
Run(report, text, options, day) ==
  [ report |-> report, text |-> text, options |-> options, day |-> day ]

Stats(malicious, suspicious, harmless, reputation) ==
  Response("answer", 200, Body("stats", malicious, suspicious, harmless, reputation))
Misshapen(shape) == Response("answer", 200, Body(shape, 0, 0, 0, << >>))
Answer(status)   == Response("answer", status, NoBody)
Fails(kind)      == Response(kind, 0, NoBody)

MCResponses ==
  { Stats(0, 0, 3, << >>), Stats(12, 1, 0, << -5 >>), Stats(0, 2, 1, << 7 >>) }
  \cup { Misshapen(shape) : shape \in { "malformed", "huge_date" } }
  \cup { Answer(status) : status \in { 404, 401, 429, 500 } }
  \cup { Fails(kind) : kind \in { "timeout", "broken" } }

(* Rows that older versions wrote *)
OldHash == [ NoIocs EXCEPT !["sha256"] = { Hash } ]
OldRow(ti, status) ==
  [ id |-> 1, report |-> "old", iocs |-> OldHash, ti |-> ti, risk_score |-> 0,
    severity |-> "NOT_SCORED", confidence |-> 0, ioc_score |-> 0,
    threat_intel_score |-> 0, cve_score |-> 0, status |-> status,
    hashed |-> FALSE, day |-> 1 ]
OldTi ==
  [ status |-> "ok", reason |-> "none",
    records |-> { WithVerdict(Record(Hash, "absent", Body("stats", 0, 1, 1, << >>))) },
    coverage |-> [ NoCoverage EXCEPT !.requested = 1, !.succeeded = 1 ] ]

Situation(stored, analyses, keyed, changes) ==
  [ rows |-> stored, analyses |-> analyses, key |-> keyed, restless |-> changes ]

(* Every type of indicator, in several spellings, each looked up *)
Rich ==
  { Hash, BadAddress, Address, Evil, BadHost, CdnUrl, Cve, Plain("md5", "md5"),
    Plain("sha1", "sha1"), Email("USER", << "EVIL", "com" >>),
    Plain("windows_file_paths", "path"),
    Plain("windows_registry_keys", "run key") }

(* Two of one type, and URLs that are refused *)
Several == { Hash, Hash2, EvilCaps, FtpUrl, CdnUrl }

Singles ==
  { Situation(<< >>, << Run("a", text, Everything, 2) >>, TRUE, FALSE) :
      text \in { Rich, Several, { Unclosed, Hash }, { } } }

Options ==
  { Situation(<< >>, << Run("a", { Hash, Cve }, options, 2) >>, keyed, FALSE) :
      options \in SUBSET Everything, keyed \in BOOLEAN }

(* Several investigations, one report twice, one row of before *)
Histories ==
  { Situation(<< OldRow(ti, status) >>,
              << Run("a", { Hash, Cve }, Everything, 2),
                 Run("a", { Address }, Everything, 2),
                 Run("b", { Address, CdnUrl }, Everything, 3) >>, TRUE, FALSE) :
      ti \in { NothingStored, OldTi }, status \in { "COMPLETED", "" } }

(* The key comes and goes. *)
Restless ==
  { Situation(<< >>, << Run("a", { Hash, Address, CdnUrl }, Everything, 2),
                        Run("b", { Hash }, Everything, 3) >>, keyed, TRUE) :
      keyed \in BOOLEAN }

MCSituations == Singles \cup Options \cup Histories \cup Restless

MCTextContains == { << name, name >> : name \in { "a", "b", "old" } }
=============================================================================
