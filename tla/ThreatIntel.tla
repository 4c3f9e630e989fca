---------------------------- MODULE ThreatIntel ----------------------------
(***************************************************************************)
(* Indicators of compromise: how they are found in what the system stores  *)
(* (attack_story/ioc_extractor.py), and how reputation providers are asked *)
(* about them (attack_story/enrichment.py, api_sources/).                  *)
(*                                                                         *)
(* An indicator's row is locked by whoever writes it until the end of that *)
(* transaction.  An enrichment asks the providers of one indicator after   *)
(* the other inside a single transaction, so it keeps the rows it has      *)
(* written locked while it waits for the network.  registry.py builds new  *)
(* adapters for every call, so neither a cache nor a limiter is shared.    *)
(***************************************************************************)
EXTENDS Integers, FiniteSets, FiniteSetsExt

CONSTANTS
    Tokens,     \* what texts contain: [type, value, public, host]
    MaxRetries, \* adapter_max_retries
    Limit,      \* limit of POST /threat-intel/sweep
    None        \* an absent value

Types == {"url", "ip", "domain", "email", "md5", "sha1", "sha256", "mqtt_topic"}

ASSUME TokensAssumption == \A t \in Tokens : t.type \in Types /\ t.public \in BOOLEAN
ASSUME QueryAssumption == MaxRetries \in Nat \ {0} /\ Limit \in Nat \ {0}

VARIABLES
    iocs,       \* committed indicators
    confidence, \* confidence[i], in hundredths, or None
    seen,       \* committed observations: which kind of text held which indicator
    fresh,      \* indicators with an enrichment row of the last day
    locks,      \* locks[i]: who has written the row of i and not ended yet
    sweep       \* the enrichment that is running, or None

intel == <<iocs, confidence, seen, fresh, locks, sweep>>

-----------------------------------------------------------------------------
(* ioc_extractor.py                                                        *)

Ioc(type, value) == [type |-> type, value |-> value]

\* A private address and a reserved domain are no indicators; the host of a
\* url and of an address is found a second time.
Found(t) ==
    LET host == IF t.host # None /\ t.public THEN {Ioc("domain", t.host)} ELSE {}
    IN CASE t.type \in {"ip", "domain"}  -> {i \in {Ioc(t.type, t.value)} : t.public}
         [] t.type \in {"url", "email"} -> {Ioc(t.type, t.value)} \cup host
         [] OTHER                       -> {Ioc(t.type, t.value)}

extract_from_dict(tokens) == UNION {Found(t) : t \in tokens}

Indicators == extract_from_dict(Tokens)

\* A running enrichment: what is left, what it has set and found, and the
\* confidences it loaded.
Partial == UNION {[d -> {None, 10, 70, 95}] : d \in SUBSET Indicators}
Enrichment == [todo : SUBSET Indicators, set : Partial, rows : SUBSET Indicators, loaded : Partial]

ASSUME NoneAssumption == None \notin {"sweep", 10, 70, 95} /\ None \notin Enrichment

-----------------------------------------------------------------------------
(* The providers.                                                          *)

PROVIDER_FOR_TYPE(type) ==
    CASE type = "ip" -> {"virustotal", "abuseipdb", "alienvault"}
      [] type \in {"domain", "url", "md5", "sha1", "sha256"} -> {"virustotal", "alienvault"}
      [] OTHER -> {}

\* What the _fetch of a provider can ask for; anything else is a ValueError.
Endpoint(provider) ==
    IF provider = "abuseipdb" THEN {"ip"} ELSE {"ip", "domain", "hash", "url"}

Verdicts == {"malicious", "suspicious", "clean"}

\* One call of _fetch: a verdict, a refusal (4xx) or an error worth a retry.
Outcomes(provider, type) ==
    IF type \in Endpoint(provider) THEN Verdicts \cup {"refused", "error"} ELSE {"error"}

\* query: attempts until an answer or a refusal, MaxRetries at most.
query(attempts) ==
    LET final == {k \in DOMAIN attempts : attempts[k] # "error"} IN
    IF final = {} THEN None
    ELSE LET last == attempts[Min(final)] IN IF last = "refused" THEN None ELSE last

Answers(provider, type) ==
    {query(attempts) : attempts \in [1..MaxRetries -> Outcomes(provider, type)]}

\* The verdicts that the providers of an indicator may give between them.
Consultations ==
    [type \in Types |->
        {{a[p] : p \in DOMAIN a} \ {None} :
            a \in {a \in [PROVIDER_FOR_TYPE(type) -> Verdicts \cup {None}] :
                     \A p \in DOMAIN a : a[p] \in Answers(p, type)}}]

consensus_verdict(verdicts) ==
    IF "malicious" \in verdicts THEN "malicious"
    ELSE IF "suspicious" \in verdicts THEN "suspicious"
    ELSE IF "clean" \in verdicts THEN "clean"
    ELSE "unknown"

\* What enrich_ioc sets; without a verdict it leaves the confidence alone.
Confidence(verdicts) ==
    CASE consensus_verdict(verdicts) = "malicious"  -> 95
      [] consensus_verdict(verdicts) = "suspicious" -> 70
      [] consensus_verdict(verdicts) = "clean"      -> 10
      [] OTHER                                      -> None

-----------------------------------------------------------------------------

IntelInit ==
    /\ iocs = {} /\ seen = {} /\ fresh = {} /\ sweep = None
    /\ confidence = [i \in Indicators |-> None]
    /\ locks = [i \in Indicators |-> None]

Free(i, who) == locks[i] \in {None, who}

Release(who) == [i \in Indicators |-> IF locks[i] = who THEN None ELSE locks[i]]

\* Mutant: the update is not limited to the rows that conflict.
ObserveForgets(found, kind, who) ==
    /\ iocs' = iocs \cup found
    /\ confidence' = [i \in Indicators |-> IF found = {} THEN confidence[i] ELSE None]
    /\ seen' = seen \cup {[ioc |-> i, kind |-> kind] : i \in found}
    /\ locks' = Release(who)
    /\ UNCHANGED <<fresh, sweep>>

\* The commit of what persist_iocs did: ON CONFLICT sets the confidence to
\* the one of the new row, which is NULL.
Observe(found, kind, who) ==
    /\ iocs' = iocs \cup found
    /\ confidence' = [i \in Indicators |-> IF i \in found THEN None ELSE confidence[i]]
    /\ seen' = seen \cup {[ioc |-> i, kind |-> kind] : i \in found}
    /\ locks' = Release(who)
    /\ UNCHANGED <<fresh, sweep>>

\* POST /threat-intel/sweep takes up to Limit indicators without a row of the
\* last day, those seen last; POST /enrich/{id} takes the one it is given.
EnrichStart ==
    /\ sweep = None
    /\ \E batch \in SUBSET iocs :
          /\ \/ batch \cap fresh = {} /\ Cardinality(batch) = Min({Limit, Cardinality(iocs \ fresh)})
             \/ Cardinality(batch) = 1
          /\ batch # {}
          /\ sweep' = [todo |-> batch, set |-> <<>>, rows |-> {},
                       loaded |-> [i \in batch |-> confidence[i]]]
    /\ UNCHANGED <<iocs, confidence, seen, fresh, locks>>

Extended(f, i, x) == [j \in DOMAIN f \cup {i} |-> IF j = i THEN x ELSE f[j]]

\* enrich_ioc of one of them: a row per verdict, then the confidence, which
\* is written only if it is not the one that was loaded.
Enrich(i) ==
    /\ sweep # None /\ i \in sweep.todo
    /\ \E verdicts \in Consultations[i.type] :
          LET c == Confidence(verdicts)
              writes == c \notin {None, sweep.loaded[i]}
          IN
          /\ writes => Free(i, "sweep")
          /\ sweep' = [todo   |-> sweep.todo \ {i},
                       set    |-> IF writes THEN Extended(sweep.set, i, c) ELSE sweep.set,
                       rows   |-> IF verdicts = {} THEN sweep.rows ELSE sweep.rows \cup {i},
                       loaded |-> sweep.loaded]
          /\ locks' = IF writes THEN [locks EXCEPT ![i] = "sweep"] ELSE locks
    /\ UNCHANGED <<iocs, confidence, seen, fresh>>

EnrichCommit ==
    /\ sweep # None /\ sweep.todo = {}
    /\ confidence' = [i \in Indicators |->
            IF i \in DOMAIN sweep.set THEN sweep.set[i] ELSE confidence[i]]
    /\ fresh' = fresh \cup sweep.rows
    /\ locks' = Release("sweep")
    /\ sweep' = None
    /\ UNCHANGED <<iocs, seen>>

\* A statement of it fails, or PostgreSQL breaks a deadlock at its expense.
EnrichFail ==
    /\ sweep # None
    /\ locks' = Release("sweep")
    /\ sweep' = None
    /\ UNCHANGED <<iocs, confidence, seen, fresh>>

\* A day goes by.
Expire ==
    /\ fresh # {}
    /\ fresh' = {}
    /\ UNCHANGED <<iocs, confidence, seen, locks, sweep>>
=============================================================================
