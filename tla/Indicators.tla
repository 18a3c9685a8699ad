----------------------------- MODULE Indicators -----------------------------
(***************************************************************************)
(* Indicators of compromise: what extractor.py finds in a report, and how  *)
(* services/correlation_service.py compares two spellings of one.          *)
(*                                                                         *)
(* An indicator is a pair, its type and its value.  A value keeps the      *)
(* parts the code looks at: a domain is its labels, a URL is its scheme,   *)
(* user, host and the rest, an address is its octets; every other value is *)
(* one token.  The patterns of two types never match the same text, so     *)
(* that a dictionary keyed by the value alone is keyed by the pair.        *)
(***************************************************************************)
EXTENDS Integers, Sequences, FiniteSets, SequencesExt, FiniteSetsExt

CONSTANTS
  Lower,      (* str.lower() of every token                                 *)
  KnownTlds,  (* the top level domains the domain pattern lists, in lower   *)
              (* case                                                       *)
  BadLabels   (* labels that begin or end with a hyphen, or are too long    *)

ASSUME LowerAssumption ==
  \A token \in DOMAIN Lower : Lower[token] \in DOMAIN Lower
                              /\ Lower[Lower[token]] = Lower[token]

(* The types of IOC_PATTERNS, and those a provider can look up *)
IocTypes ==
  { "ipv4", "domains", "urls", "emails", "md5", "sha1", "sha256", "cves",
    "windows_file_paths", "windows_registry_keys" }
EnrichableTypes == { "sha256", "ipv4", "domains", "urls" }

Plain(type, text)  == << type, text >>
Ip(octets, padded) == << "ipv4", [ octets |-> octets, padded |-> padded ] >>
Domain(labels)     == << "domains", labels >>
Email(user, host)  == << "emails", [ user |-> user, host |-> host ] >>

(* urlparse() raises for a URL that does not parse: unbalanced brackets. *)
Url(scheme, user, host, rest, parses) ==
  << "urls", [ scheme |-> scheme, user |-> user, host |-> host,
               rest |-> rest, parses |-> parses ] >>

TypeOf(ioc) == ioc[1]

-----------------------------------------------------------------------------
(***************************************************************************)
(* extract_iocs(): the distinct matches of every pattern.                  *)
(***************************************************************************)
(* The domain pattern ends at the last label that is a known top level     *)
(* domain.                                                                 *)
DomainEnds(host) ==
  { i \in 2 .. Len(host) : Lower[host[i]] \in KnownTlds }

(* It also matches inside the URLs and the addresses of a text. *)
HostsNamed(text) ==
  LET hosts == { ioc[2].host :
                   ioc \in { m \in text : TypeOf(m) \in { "urls", "emails" } } }
  IN  { Domain(SubSeq(host, 1, Max(DomainEnds(host)))) :
          host \in { h \in hosts : DomainEnds(h) # {} } }

ExtractIocs(text) ==
  [ type \in IocTypes |->
      { ioc \in text : TypeOf(ioc) = type }
        \cup (IF type = "domains" THEN HostsNamed(text) ELSE {}) ]

(* What an analysis without extraction stores *)
NoIocs == [ type \in IocTypes |-> {} ]

-----------------------------------------------------------------------------
(***************************************************************************)
(* normalize_ioc_value() and _url_host()                                   *)
(***************************************************************************)
LowerAll(labels) == [ i \in DOMAIN labels |-> Lower[labels[i]] ]

HasNetloc(url) == url.user # "" \/ url.host # << >>

(* Scheme and network location lose their case, the rest keeps it.         *)
NormalizeUrl(url) ==
  [ url EXCEPT !.scheme = Lower[@], !.user = Lower[@], !.host = LowerAll(@),
               !.rest = IF HasNetloc(url) THEN @ ELSE Lower[@] ]

Normalize(ioc) ==
  CASE TypeOf(ioc) = "urls"    -> << "urls", NormalizeUrl(ioc[2]) >>
    [] TypeOf(ioc) = "domains" -> Domain(LowerAll(ioc[2]))
    [] TypeOf(ioc) = "ipv4"    -> ioc
    [] TypeOf(ioc) = "emails"  -> Email(Lower[ioc[2].user], LowerAll(ioc[2].host))
    [] OTHER                   -> Plain(TypeOf(ioc), Lower[ioc[2]])

(* The host without user and port, or none *)
UrlHost(url) == LowerAll(url.host)

(* An indicator that makes _normalize_url raise *)
Unparsable(ioc) == TypeOf(ioc) = "urls" /\ ~ ioc[2].parses
=============================================================================
