--------------------------- MODULE AttackRunProofs ---------------------------
(***************************************************************************)
(* Proofs about AttackRun, with the indicators of ThreatIntel, for every   *)
(* set of runs, traces and tokens: what a story tells, which parts of the  *)
(* state go together, and where a confidence comes from.                   *)
(*                                                                         *)
(* Cancellation sends a run whose story may be stored already back to      *)
(* build it once more, so the invariant follows the story of a run and the *)
(* status it is about to store through that detour.                        *)
(***************************************************************************)
EXTENDS AttackRun, FiniteSetTheorems, TLAPS

Places == {"none", "ticking", "finalizing", "building", "telling", "closing", "over"}
Confidences == {None, 10, 70, 95}

IsStory(s) ==
    s = [status |-> s.status, ended |-> s.ended, events |-> s.events,
         tactics |-> s.tactics, guess |-> s.guess]

ShapeInv ==
    /\ story = [r \in Runs |-> story[r]] /\ \A r \in Runs : IsStory(story[r])
    /\ pc \in [Runs -> Places]
    /\ want = [r \in Runs |-> want[r]]
    /\ ticks \in [Runs -> 0..MaxTicks]
    /\ old = [r \in Runs |-> old[r]]
    /\ told = [r \in Runs |-> told[r]]
    /\ crashes \in Nat

-----------------------------------------------------------------------------
(* Indicators.                                                             *)

\* An enrichment works on stored indicators, and every confidence it has set
\* comes with a row.
SweepInv ==
    sweep # None =>
        /\ sweep \in Enrichment
        /\ sweep.todo \subseteq iocs /\ sweep.rows \subseteq iocs
        /\ DOMAIN sweep.set \subseteq sweep.rows
        /\ \A i \in DOMAIN sweep.set : sweep.set[i] # None

IntelInv ==
    /\ iocs \subseteq Indicators /\ fresh \subseteq iocs
    /\ confidence \in [Indicators -> Confidences]
    /\ \A i \in Indicators : confidence[i] # None => i \in iocs
    /\ \A o \in seen : o.ioc \in iocs
    /\ SweepInv

LockInv ==
    /\ locks \in [Indicators -> Runs \cup {None, "sweep"}]
    /\ \A i \in Indicators :
          /\ locks[i] = "sweep" => sweep # None
          /\ locks[i] \in Runs => pc[locks[i]] = "telling"

-----------------------------------------------------------------------------
(* Runs and stories.                                                       *)

\* The rows of a run, but for the incidents from before its window.
Rows(r) ==
    {e \in evidence : e.by # None /\ e.by[1] = r /\ (e.kind = "incident" => e \notin old[r])}

\* A row is somebody else's, or of a tick that is counted.
EvidenceInv ==
    \A e \in evidence :
        /\ e.tokens \subseteq Tokens
        /\ e.by = None \/ \E r \in Runs, k \in 0..MaxTicks : e.by = <<r, k>> /\ k < ticks[r]

\* Where run r is, and the status it has or is about to store.
RunInv(r) ==
    /\ r \in active <=> Waiting(r)
    /\ pc[r] \in {"none", "ticking"} => want[r] = None /\ story[r].guess = None
    /\ pc[r] = "none" => story[r].status = None /\ ~story[r].ended /\ ticks[r] = 0
    /\ pc[r] = "ticking" => story[r].status = "running"
    /\ pc[r] \in {"finalizing", "building", "telling", "closing"} =>
          want[r] \in {"completed", "cancelled", "failed"}
    /\ pc[r] \in {"building", "telling", "closing"} => story[r].ended
    /\ story[r].status \in Status \cup {None}
    /\ story[r].ended \in BOOLEAN
    /\ story[r].ended <=> story[r].status \notin {None, "running"}
    /\ pc[r] = "over" /\ story[r].status = "running" =>
          crashes > 0 \/ want[r] \in {"failed", "cancelled"}

\* What r has read, or stored, of its rows.
Complete(r, rows) == Rows(r) \subseteq rows /\ rows \subseteq evidence \ old[r]

StoryInv(r) ==
    LET s == story[r] IN
    /\ pc[r] # "none" => \A e \in old[r] : e.by = None \/ e.by[1] # r \/ e.kind = "incident"
    /\ told[r] \subseteq evidence
    /\ pc[r] = "telling" => Complete(r, told[r]) /\ DOMAIN s.events \subseteq told[r]
    /\ s.guess = None => s.events = <<>> /\ s.tactics = <<>>
    /\ s.guess # None =>
          /\ pc[r] \notin {"none", "ticking"}
          /\ Complete(r, DOMAIN s.events)
          /\ \A e \in DOMAIN s.events :
                s.events[e] \in Nat \ {0} /\ (s.events[e] = 1 \/ want[r] = "cancelled")
          /\ s.tactics = tactic_summary(DOMAIN s.events)
          /\ pc[r] \notin {"closing", "over"} => want[r] = "cancelled"

Inv ==
    /\ ShapeInv /\ IntelInv /\ LockInv /\ EvidenceInv
    /\ \A r \in Runs : RunInv(r) /\ StoryInv(r)

-----------------------------------------------------------------------------
(* The operators.                                                          *)

LEMMA Extracts ==
    ASSUME NEW tokens \in SUBSET Tokens
    PROVE  extract_from_dict(tokens) \subseteq Indicators
BY DEF extract_from_dict, Indicators

LEMMA EmptyFunction == DOMAIN <<>> = {} /\ \A S : <<>> \in [{} -> S]
OBVIOUS

\* An enrichment without a verdict has no confidence to set.
LEMMA ConfidenceOf ==
    ASSUME NEW verdicts
    PROVE  Confidence(verdicts) \in Confidences /\ (verdicts = {} => Confidence(verdicts) = None)
BY DEF Confidence, consensus_verdict, Confidences

LEMMA PartialExtended ==
    ASSUME NEW f \in Partial, NEW i \in Indicators, NEW c \in Confidences
    PROVE  /\ Extended(f, i, c) \in Partial
           /\ DOMAIN Extended(f, i, c) = DOMAIN f \cup {i}
           /\ \A j \in DOMAIN Extended(f, i, c) :
                 Extended(f, i, c)[j] = IF j = i THEN c ELSE f[j]
<1>1. PICK d \in SUBSET Indicators : f \in [d -> Confidences]
  BY DEF Partial, Confidences
<1>2. /\ Extended(f, i, c) \in [d \cup {i} -> Confidences]
      /\ DOMAIN Extended(f, i, c) = DOMAIN f \cup {i}
      /\ \A j \in DOMAIN Extended(f, i, c) :
                 Extended(f, i, c)[j] = IF j = i THEN c ELSE f[j]
  BY <1>1 DEF Extended
<1>3. d \cup {i} \in SUBSET Indicators
  OBVIOUS
<1>4. Extended(f, i, c) \in Partial
  BY <1>2, <1>3 DEF Partial, Confidences
<1>. QED
  BY <1>2, <1>4

Names == {"vehicle_gateway_compromise", "warehouse_iot_compromise", "credential_anomaly"}

LEMMA Signature ==
    ASSUME NEW g \in SIGNATURES
    PROVE  g.name \in Names /\ IsFiniteSet(g.tactics) /\ g.tactics # {}
<1>1. ASSUME NEW a, NEW b, NEW c
      PROVE  IsFiniteSet({a, b, c})
  <2>1. {a, b, c} = ({a} \cup {b}) \cup {c}
    OBVIOUS
  <2>2. IsFiniteSet({a})
    BY FS_Singleton
  <2>3. IsFiniteSet({a} \cup {b})
    BY <2>2, FS_AddElement
  <2>4. IsFiniteSet(({a} \cup {b}) \cup {c})
    BY <2>3, FS_AddElement
  <2>. QED
    BY <2>1, <2>4
<1>2. CASE g = [name |-> "vehicle_gateway_compromise", least |-> 2,
                tactics |-> {"Persistence", "Discovery", "Impact"}]
  <2>1. g.name = "vehicle_gateway_compromise" /\ g.tactics = {"Persistence", "Discovery", "Impact"}
    BY <1>2
  <2>2. IsFiniteSet({"Persistence", "Discovery", "Impact"})
    BY <1>1
  <2>3. {"Persistence", "Discovery", "Impact"} # {}
    OBVIOUS
  <2>. QED
    BY <2>1, <2>2, <2>3, Zenon DEF Names
<1>3. CASE g = [name |-> "warehouse_iot_compromise", least |-> 2,
                tactics |-> {"Initial Access", "Collection", "Impact"}]
  <2>1. g.name = "warehouse_iot_compromise" /\ g.tactics = {"Initial Access", "Collection", "Impact"}
    BY <1>3
  <2>2. IsFiniteSet({"Initial Access", "Collection", "Impact"})
    BY <1>1
  <2>3. {"Initial Access", "Collection", "Impact"} # {}
    OBVIOUS
  <2>. QED
    BY <2>1, <2>2, <2>3, Zenon DEF Names
<1>4. CASE g = [name |-> "credential_anomaly", least |-> 1, tactics |-> {"Credential Access"}]
  <2>1. g.name = "credential_anomaly" /\ g.tactics = {"Credential Access"}
    BY <1>4
  <2>2. IsFiniteSet({"Credential Access"}) /\ {"Credential Access"} # {}
    BY FS_Singleton
  <2>. QED
    BY <2>1, <2>2 DEF Names
<1>. QED
  BY <1>2, <1>3, <1>4 DEF SIGNATURES

\* A story that is built has an attribution.
LEMMA Attributed ==
    ASSUME NEW present
    PROVE  attribute(present) # None
<1> DEFINE Share(g) == (6 * Cardinality(g.tactics \cap present)) \div Cardinality(g.tactics)
           fits == {g \in SIGNATURES : Cardinality(g.tactics \cap present) >= g.least}
           best == {g \in fits : \A h \in fits : Share(h) <= Share(g)}
           names == {g.name : g \in best}
           Place == [vehicle_gateway_compromise |-> 1,
                     warehouse_iot_compromise |-> 2, credential_anomaly |-> 3]
           Chosen(n) == \A m \in names : Place[n] <= Place[m]
<1>1. CASE fits = {}
  BY <1>1, StatusAssumption DEF attribute
<1>2. CASE fits # {}
  <2>1. \A g \in SIGNATURES : Share(g) \in Int
    <3>1. \A g \in SIGNATURES : IsFiniteSet(g.tactics) /\ g.tactics # {}
      BY Signature
    <3>2. \A g \in SIGNATURES : Cardinality(g.tactics) \in Nat \ {0}
      BY <3>1, FS_CardinalityType, FS_EmptySet
    <3>3. \A g \in SIGNATURES : Cardinality(g.tactics \cap present) \in Nat
      BY <3>1, FS_Intersection, FS_CardinalityType
    <3>. QED
      BY <3>2, <3>3
  <2>2. best # {}
    <3>1. PICK a, b, c : SIGNATURES = {a, b, c}
      BY DEF SIGNATURES
    <3>. HIDE DEF Share
    <3>2. \A g \in {a, b, c} : Share(g) \in Int
      BY <2>1, <3>1
    <3>3. fits \subseteq {a, b, c}
      BY <3>1
    <3>. HIDE DEF fits
    <3>. QED
      BY <1>2, <3>2, <3>3
  <2>3. names \subseteq Names
    <3>1. \A g \in SIGNATURES : g.name \in Names
      BY Signature
    <3>2. best \subseteq SIGNATURES
      OBVIOUS
    <3>. HIDE DEF best
    <3>. QED
      BY <3>1, <3>2
  <2>4. names # {}
    BY <2>2
  <2>5. attribute(present) = CHOOSE n \in names : Chosen(n)
    BY <1>2 DEF attribute
  <2>. HIDE DEF names
  <2>6. \E n \in names : Chosen(n)
    <3>1. /\ Place["vehicle_gateway_compromise"] = 1 /\ Place["warehouse_iot_compromise"] = 2
          /\ Place["credential_anomaly"] = 3
      OBVIOUS
    <3>. HIDE DEF Place
    <3>2. CASE "vehicle_gateway_compromise" \in names
      BY <2>3, <3>1, <3>2 DEF Names
    <3>3. CASE "vehicle_gateway_compromise" \notin names /\ "warehouse_iot_compromise" \in names
      BY <2>3, <3>1, <3>3 DEF Names
    <3>4. CASE names = {"credential_anomaly"}
      BY <3>1, <3>4
    <3>. QED
      BY <2>3, <2>4, <3>2, <3>3, <3>4 DEF Names
  <2>7. (CHOOSE n \in names : Chosen(n)) \in names
    <3>. HIDE DEF Chosen
    <3>. QED
      BY <2>6
  <2>8. names \subseteq {g.name : g \in SIGNATURES}
    BY DEF names
  <2>. QED
    BY <2>5, <2>7, <2>8, StatusAssumption
<1>. QED
  BY <1>1, <1>2

\* The tactics of more rows are those of the fewer and perhaps others.
LEMMA SummaryGrows ==
    ASSUME NEW rows, NEW more, rows \subseteq more
    PROVE  /\ Replaced(tactic_summary(rows), tactic_summary(more)) = tactic_summary(more)
           /\ Replaced(<<>>, tactic_summary(more)) = tactic_summary(more)
<1> DEFINE Known(s) == {e \in s : e.what \in DOMAIN TACTIC[e.kind]}
           Tactic(e) == TACTIC[e.kind][e.what]
           D(s) == {Tactic(e) : e \in Known(s)}
           N(s, t) == Cardinality({e \in Known(s) : Tactic(e) = t})
<1>1. \A s : tactic_summary(s) = [t \in D(s) |-> N(s, t)]
  BY DEF tactic_summary
<1>2. D(rows) \subseteq D(more)
  OBVIOUS
<1>. HIDE DEF D, N
<1>3. DOMAIN tactic_summary(rows) \subseteq DOMAIN tactic_summary(more)
  BY <1>1, <1>2
<1>4. tactic_summary(more) = [t \in DOMAIN tactic_summary(more) |-> tactic_summary(more)[t]]
  BY <1>1
<1>5. \A f, g : DOMAIN g \subseteq DOMAIN f /\ f = [t \in DOMAIN f |-> f[t]] => Replaced(g, f) = f
  BY DEF Replaced
<1>. QED
  BY <1>3, <1>4, <1>5, EmptyFunction

\* Rows of a bag are counted.
LEMMA AddedCounts ==
    ASSUME NEW bag, NEW rows
    PROVE  /\ DOMAIN Added(bag, rows) = DOMAIN bag \cup rows
           /\ (\A e \in DOMAIN bag : bag[e] \in Nat \ {0}) =>
                 \A e \in DOMAIN bag \cup rows : Added(bag, rows)[e] \in Nat \ {0}
           /\ DOMAIN bag = {} => \A e \in rows : Added(bag, rows)[e] = 1
BY DEF Added

LEMMA AddedAgain ==
    ASSUME NEW bag, NEW rows, NEW e \in rows, e \in DOMAIN bag
    PROVE  Added(bag, rows)[e] = bag[e] + 1
BY DEF Added

-----------------------------------------------------------------------------
(* What the steps make of a story.                                         *)

LEMMA StoryMoves ==
    ASSUME ShapeInv, NEW r \in Runs, NEW s, story' = [story EXCEPT ![r] = s]
    PROVE  /\ story' = [q \in Runs |-> story'[q]]
           /\ story'[r] = s
           /\ \A q \in Runs : q # r => story'[q] = story[q]
BY DEF ShapeInv

LEMMA StartStory ==
    ASSUME ShapeInv, NEW r \in Runs, Start(r)
    PROVE  /\ story' = [q \in Runs |-> story'[q]] /\ IsStory(story'[r])
           /\ \A q \in Runs : q # r => story'[q] = story[q]
           /\ story'[r].status = "running" /\ story'[r].ended = story[r].ended
           /\ story'[r].events = story[r].events
           /\ story'[r].tactics = story[r].tactics /\ story'[r].guess = story[r].guess
<1>1. story' = [story EXCEPT ![r] = [@ EXCEPT !.status = "running"]]
  BY DEF Start
<1>2. /\ story' = [q \in Runs |-> story'[q]]
      /\ story'[r] = [story[r] EXCEPT !.status = "running"]
      /\ \A q \in Runs : q # r => story'[q] = story[q]
  BY <1>1, StoryMoves
<1>3. IsStory(story[r])
  BY DEF ShapeInv
<1>. QED
  BY <1>2, <1>3 DEF IsStory

LEMMA FinalStory ==
    ASSUME ShapeInv, NEW r \in Runs, Finalize(r)
    PROVE  /\ story' = [q \in Runs |-> story'[q]] /\ IsStory(story'[r])
           /\ \A q \in Runs : q # r => story'[q] = story[q]
           /\ story'[r].status = want[r] /\ story'[r].ended = TRUE
           /\ story'[r].events = story[r].events
           /\ story'[r].tactics = story[r].tactics /\ story'[r].guess = story[r].guess
<1> DEFINE s == [status |-> want[r], ended |-> TRUE, events |-> story[r].events,
                 tactics |-> story[r].tactics, guess |-> story[r].guess]
<1>1. story' = [story EXCEPT ![r] = s]
  BY Zenon DEF Finalize
<1>2. /\ IsStory(s) /\ s.status = want[r] /\ s.ended = TRUE /\ s.events = story[r].events
      /\ s.tactics = story[r].tactics /\ s.guess = story[r].guess
  BY DEF IsStory
<1>. HIDE DEF s
<1>. QED
  BY <1>1, <1>2, StoryMoves

LEMMA BuiltStory ==
    ASSUME ShapeInv, NEW r \in Runs, BuildCommit(r)
    PROVE  LET summary == tactic_summary(told[r]) IN
           /\ story' = [q \in Runs |-> story'[q]] /\ IsStory(story'[r])
           /\ \A q \in Runs : q # r => story'[q] = story[q]
           /\ story'[r].status = IF story[r].status = "running" THEN "analyzed" ELSE story[r].status
           /\ story'[r].ended = TRUE
           /\ story'[r].events = Added(story[r].events, told[r])
           /\ story'[r].tactics = Replaced(story[r].tactics, summary)
           /\ story'[r].guess # None
<1> DEFINE summary == tactic_summary(told[r])
           status == IF story[r].status = "running" THEN "analyzed" ELSE story[r].status
           events == Added(story[r].events, told[r])
           tactics == Replaced(story[r].tactics, summary)
           guess == attribute(DOMAIN summary)
           s == [status |-> status, ended |-> TRUE, events |-> events,
                 tactics |-> tactics, guess |-> guess]
<1>1. story' = [story EXCEPT ![r] = s]
  BY Zenon DEF BuildCommit
<1>2. guess # None
  BY Attributed
<1>. HIDE DEF status, events, tactics, guess
<1>3. /\ IsStory(s) /\ s.status = status /\ s.ended = TRUE /\ s.events = events
      /\ s.tactics = tactics /\ s.guess = guess
  BY DEF IsStory
<1>. HIDE DEF s
<1>4. /\ story' = [q \in Runs |-> story'[q]]
      /\ story'[r] = s
      /\ \A q \in Runs : q # r => story'[q] = story[q]
  BY <1>1, StoryMoves
<1>. QED
  BY <1>2, <1>3, <1>4 DEF status, events, tactics, guess

-----------------------------------------------------------------------------
(* IntelInv is inductive.                                                  *)

\* Rows that are observed hold indicators of Tokens.
LEMMA ObserveIntel ==
    ASSUME IntelInv, NEW found \in SUBSET Indicators, NEW kind, NEW who, Observe(found, kind, who)
    PROVE  IntelInv'
<1>1. iocs' \subseteq Indicators /\ iocs \subseteq iocs' /\ found \subseteq iocs'
  BY DEF IntelInv, Observe
<1>2. /\ confidence' \in [Indicators -> Confidences]
      /\ \A i \in Indicators : confidence'[i] # None => i \in iocs'
  BY <1>1 DEF IntelInv, Observe, Confidences
<1>3. \A o \in seen' : o.ioc \in iocs'
  BY <1>1 DEF IntelInv, Observe
<1>4. SweepInv'
  BY <1>1 DEF IntelInv, SweepInv, Observe
<1>. QED
  BY <1>1, <1>2, <1>3, <1>4 DEF IntelInv, Observe

LEMMA EnrichIntel ==
    ASSUME IntelInv, EnrichStart \/ EnrichCommit \/ EnrichFail \/ Expire
    PROVE  IntelInv'
<1>1. CASE EnrichStart
  <2>1. PICK batch \in SUBSET iocs :
          sweep' = [todo |-> batch, set |-> <<>>, rows |-> {},
                    loaded |-> [i \in batch |-> confidence[i]]]
    BY <1>1 DEF EnrichStart
  <2>2. batch \in SUBSET Indicators /\ {} \in SUBSET Indicators
    BY DEF IntelInv
  <2>3. [i \in batch |-> confidence[i]] \in Partial
    BY <2>2 DEF IntelInv, Partial, Confidences
  <2>4. <<>> \in Partial
    BY <2>2, EmptyFunction DEF Partial
  <2>5. sweep' \in Enrichment
    BY <2>1, <2>2, <2>3, <2>4 DEF Enrichment
  <2>6. SweepInv'
    BY <1>1, <2>1, <2>2, <2>5, EmptyFunction DEF SweepInv, EnrichStart
  <2>. QED
    BY <1>1, <2>6 DEF IntelInv, EnrichStart
<1>2. CASE EnrichCommit
  <2>1. sweep # None /\ sweep' = None /\ iocs' = iocs /\ seen' = seen
        /\ fresh' = fresh \cup sweep.rows
        /\ confidence' = [i \in Indicators |->
              IF i \in DOMAIN sweep.set THEN sweep.set[i] ELSE confidence[i]]
    BY <1>2 DEF EnrichCommit
  <2>2. /\ sweep.rows \subseteq iocs /\ DOMAIN sweep.set \subseteq sweep.rows
        /\ sweep.set \in Partial
    BY <2>1 DEF IntelInv, SweepInv, Enrichment
  <2>3. \A i \in DOMAIN sweep.set : sweep.set[i] \in Confidences
    BY <2>2 DEF Partial, Confidences
  <2>4. /\ confidence' \in [Indicators -> Confidences]
        /\ \A i \in Indicators : confidence'[i] # None => i \in iocs'
    BY <2>1, <2>2, <2>3 DEF IntelInv
  <2>. QED
    BY <2>1, <2>2, <2>4 DEF IntelInv, SweepInv
<1>3. CASE EnrichFail
  BY <1>3 DEF EnrichFail, IntelInv, SweepInv
<1>4. CASE Expire
  BY <1>4 DEF Expire, IntelInv, SweepInv
<1>. QED
  BY <1>1, <1>2, <1>3, <1>4

\* One answer of an enrichment.
LEMMA EnrichOne ==
    ASSUME IntelInv, NEW i \in Indicators, Enrich(i)
    PROVE  IntelInv' /\ sweep' # None
<1>1. PICK verdicts \in Consultations[i.type] :
        LET c == Confidence(verdicts)
            writes == c \notin {None, sweep.loaded[i]}
        IN sweep' = [todo   |-> sweep.todo \ {i},
                     set    |-> IF writes THEN Extended(sweep.set, i, c) ELSE sweep.set,
                     rows   |-> IF verdicts = {} THEN sweep.rows ELSE sweep.rows \cup {i},
                     loaded |-> sweep.loaded]
  BY DEF Enrich
<1> DEFINE c == Confidence(verdicts)
           set == IF c \notin {None, sweep.loaded[i]} THEN Extended(sweep.set, i, c) ELSE sweep.set
           rows == IF verdicts = {} THEN sweep.rows ELSE sweep.rows \cup {i}
<1>2. c \in Confidences /\ (verdicts = {} => c = None)
  BY ConfidenceOf
<1>3. /\ sweep # None /\ i \in sweep.todo
      /\ UNCHANGED <<iocs, confidence, seen, fresh>>
  BY DEF Enrich
<1>4. /\ sweep \in Enrichment /\ sweep.todo \subseteq iocs /\ sweep.rows \subseteq iocs
      /\ DOMAIN sweep.set \subseteq sweep.rows /\ iocs \subseteq Indicators
      /\ \A j \in DOMAIN sweep.set : sweep.set[j] # None
  BY <1>3 DEF IntelInv, SweepInv
<1>5. sweep.set \in Partial /\ sweep.loaded \in Partial
  BY <1>4 DEF Enrichment
<1>6. sweep' = [todo |-> sweep.todo \ {i}, set |-> set, rows |-> rows, loaded |-> sweep.loaded]
  BY <1>1
<1>. HIDE DEF c
<1>7. set \in Partial /\ DOMAIN set \subseteq rows /\ \A j \in DOMAIN set : set[j] # None
  <2>1. CASE c \notin {None, sweep.loaded[i]}
    <3>1. rows = sweep.rows \cup {i} /\ set = Extended(sweep.set, i, c)
      BY <1>2, <2>1
    <3>2. \A f \in Partial, x \in Confidences :
            /\ Extended(f, i, x) \in Partial
            /\ DOMAIN Extended(f, i, x) = DOMAIN f \cup {i}
            /\ \A j \in DOMAIN Extended(f, i, x) : Extended(f, i, x)[j] = IF j = i THEN x ELSE f[j]
      BY PartialExtended
    <3>3. c # None
      BY <2>1
    <3>. HIDE DEF set, rows
    <3>4. /\ set \in Partial /\ DOMAIN set = DOMAIN sweep.set \cup {i}
          /\ \A j \in DOMAIN set : set[j] = IF j = i THEN c ELSE sweep.set[j]
      BY <1>2, <1>5, <3>1, <3>2, Zenon
    <3>. QED
      BY <1>4, <3>1, <3>3, <3>4
  <2>2. CASE c \in {None, sweep.loaded[i]}
    <3>1. set = sweep.set /\ sweep.rows \subseteq rows
      BY <2>2
    <3>. QED
      BY <1>4, <1>5, <3>1
  <2>. QED
    BY <2>1, <2>2
<1>8. rows \subseteq iocs
  BY <1>3, <1>4
<1>. HIDE DEF set, rows
<1>9. sweep' \in Enrichment
  BY <1>4, <1>5, <1>6, <1>7, <1>8 DEF Enrichment
<1>10. SweepInv'
  BY <1>3, <1>4, <1>6, <1>7, <1>8, <1>9 DEF SweepInv
<1>11. sweep' # None
  BY <1>9, NoneAssumption
<1>. QED
  BY <1>3, <1>10, <1>11 DEF IntelInv

LEMMA IntelNext ==
    ASSUME Inv, [Next]_vars
    PROVE  IntelInv'
<1>1. IntelInv /\ EvidenceInv /\ \A r \in Runs : told[r] \subseteq evidence
  BY DEF Inv, StoryInv
<1>2. CASE UNCHANGED intel \/ UNCHANGED <<iocs, confidence, seen, fresh, sweep>>
  BY <1>1, <1>2 DEF IntelInv, SweepInv, intel
<1>3. ASSUME NEW r \in Runs, Tick(r)
      PROVE  IntelInv'
  <2>1. extract_from_dict(Payload[r]) \subseteq Indicators
    BY RowsAssumption, Extracts
  <2>. QED
    BY <1>1, <1>2, <1>3, <2>1, ObserveIntel DEF Tick
<1>4. ASSUME NEW r \in Runs, BuildCommit(r)
      PROVE  IntelInv'
  <2>1. extract_from_dict(UNION {e.tokens : e \in told[r]}) \subseteq Indicators
    <3>1. UNION {e.tokens : e \in told[r]} \subseteq Tokens
      BY <1>1 DEF EvidenceInv
    <3>. QED
      BY <3>1, Extracts
  <2>. QED
    BY <1>1, <1>4, <2>1, ObserveIntel DEF BuildCommit
<1>5. ASSUME NEW f \in Foreign, Ingest(f)
      PROVE  IntelInv'
  <2>1. extract_from_dict(f.tokens) \subseteq Indicators
    BY RowsAssumption, Extracts
  <2>. QED
    BY <1>1, <1>5, <2>1, ObserveIntel DEF Ingest
<1>6. CASE EnrichBegins \/ EnrichMoves \/ EnrichStops
  BY <1>1, <1>6, EnrichIntel, EnrichOne DEF EnrichBegins, EnrichMoves, EnrichStops
<1>7. ASSUME NEW r \in Runs, Step(r), ~Tick(r), ~BuildCommit(r)
      PROVE  IntelInv'
  BY <1>2, <1>7 DEF Step, Start, Leave, Finalize, FinalizeFails, BuildRead, Persist, BuildFails, Close
<1>8. CASE Shutdown
  BY <1>2, <1>8 DEF Shutdown
<1>9. CASE Restart
  BY <1>1, <1>9 DEF Restart, IntelInv, SweepInv
<1>. QED
  BY <1>2, <1>3, <1>4, <1>5, <1>6, <1>7, <1>8, <1>9 DEF Next, vars

-----------------------------------------------------------------------------
(* ShapeInv, EvidenceInv and LockInv are inductive.                        *)

\* What a step changes of run q.
Same(q) ==
    /\ story'[q] = story[q] /\ pc'[q] = pc[q] /\ want'[q] = want[q] /\ ticks'[q] = ticks[q]
    /\ told'[q] = told[q] /\ crashes' = crashes
    /\ q \in active' <=> q \in active

LEMMA StepOthers ==
    ASSUME ShapeInv, NEW r \in Runs, Step(r), NEW q \in Runs, q # r
    PROVE  Same(q)
<1>1. CASE Start(r)
  BY <1>1, StartStory DEF Start, Goto, Same, ShapeInv
<1>2. CASE Finalize(r)
  BY <1>2, FinalStory DEF Finalize, Goto, Same, ShapeInv
<1>3. CASE BuildCommit(r)
  BY <1>3, BuiltStory DEF BuildCommit, Goto, Same, ShapeInv
<1>4. CASE Tick(r)
  BY <1>4 DEF Tick, Same, ShapeInv
<1>5. CASE Leave(r, "completed") \/ Leave(r, "failed") \/ BuildRead(r)
  BY <1>5 DEF Leave, BuildRead, Goto, Same, ShapeInv
<1>6. CASE \E i \in Indicators : Persist(r, i)
  BY <1>6 DEF Persist, Same, ShapeInv
<1>7. CASE FinalizeFails(r) \/ BuildFails(r) \/ Close(r)
  BY <1>7 DEF FinalizeFails, BuildFails, Close, Over, Goto, Same, ShapeInv
<1>. QED
  BY <1>1, <1>2, <1>3, <1>4, <1>5, <1>6, <1>7 DEF Step

\* Dates put rows outside of windows, and only new ones.
LEMMA DatedGrows ==
    ASSUME NEW rows, Dated(rows)
    PROVE  /\ old' = [q \in Runs |-> old'[q]]
           /\ \A q \in Runs :
                 /\ old[q] \subseteq old'[q]
                 /\ \A e \in old'[q] \ old[q] : e \in rows /\ (e.kind = "incident" \/ e.by = None)
<1>1. PICK out \in [Runs -> SUBSET {e \in rows : e.kind = "incident" \/ e.by = None}] :
         old' = [q \in Runs |-> old[q] \cup out[q]]
  BY DEF Dated
<1>2. old' = [q \in Runs |-> old'[q]]
  BY <1>1
<1>3. ASSUME NEW q \in Runs, NEW e \in old'[q] \ old[q]
      PROVE  e \in rows /\ (e.kind = "incident" \/ e.by = None)
  BY <1>1, <1>3
<1>4. \A q \in Runs : old[q] \subseteq old'[q]
  BY <1>1
<1>. QED
  BY <1>2, <1>3, <1>4

LEMMA ShapeNext ==
    ASSUME ShapeInv, [Next]_vars
    PROVE  ShapeInv'
<1>1. ASSUME NEW r \in Runs, Step(r)
      PROVE  ShapeInv'
  <2>1. story' = [q \in Runs |-> story'[q]] /\ \A q \in Runs : IsStory(story'[q])
    <3>1. CASE Start(r)
      BY <3>1, StartStory DEF ShapeInv
    <3>2. CASE Finalize(r)
      BY <3>2, FinalStory DEF ShapeInv
    <3>3. CASE BuildCommit(r)
      BY <3>3, BuiltStory DEF ShapeInv
    <3>4. CASE story' = story
      BY <3>4 DEF ShapeInv
    <3>. QED
      BY <1>1, <3>1, <3>2, <3>3, <3>4
         DEF Step, Tick, Leave, FinalizeFails, BuildRead, Persist, BuildFails, Close, Over
  <2>2. pc' = pc \/ \E s \in Places : pc' = [pc EXCEPT ![r] = s]
    BY <1>1 DEF Step, Start, Tick, Leave, Finalize, FinalizeFails, BuildRead, Persist, BuildCommit,
       BuildFails, Close, Over, Goto, Places
  <2>3. want' = want \/ \E s : want' = [want EXCEPT ![r] = s]
    BY <1>1 DEF Step, Start, Tick, Leave, Finalize, FinalizeFails, BuildRead, Persist, BuildCommit,
       BuildFails, Close, Over
  <2>4. ticks' = ticks \/ (ticks' = [ticks EXCEPT ![r] = @ + 1] /\ ticks[r] < MaxTicks)
    BY <1>1 DEF Step, Start, Tick, Leave, Finalize, FinalizeFails, BuildRead, Persist, BuildCommit,
       BuildFails, Close, Over
  <2>5. old' = old \/ (\E s : old' = [old EXCEPT ![r] = s]) \/ Dated(Left(r))
    BY <1>1 DEF Step, Start, Tick, Leave, Finalize, FinalizeFails, BuildRead, Persist, BuildCommit,
       BuildFails, Close, Over
  <2>6. told' = told \/ \E s : told' = [told EXCEPT ![r] = s]
    BY <1>1 DEF Step, Start, Tick, Leave, Finalize, FinalizeFails, BuildRead, Persist, BuildCommit,
       BuildFails, Close, Over
  <2>7. pc' \in [Runs -> Places]
    BY <2>2 DEF ShapeInv
  <2>8. want' = [q \in Runs |-> want'[q]]
    BY <2>3 DEF ShapeInv
  <2>9. old' = [q \in Runs |-> old'[q]]
    BY <2>5, DatedGrows DEF ShapeInv
  <2>10. told' = [q \in Runs |-> told'[q]]
    BY <2>6 DEF ShapeInv
  <2>11. ticks' \in [Runs -> 0..MaxTicks]
    BY <2>4, TicksAssumption DEF ShapeInv
  <2>12. crashes' = crashes
    BY <1>1 DEF Step, Start, Tick, Leave, Finalize, FinalizeFails, BuildRead, Persist, BuildCommit,
       BuildFails, Close
  <2>. QED
    BY <2>1, <2>7, <2>8, <2>9, <2>10, <2>11, <2>12 DEF ShapeInv
<1>2. CASE UNCHANGED <<runs, crashes>>
  BY <1>2 DEF ShapeInv, runs
<1>5. ASSUME NEW f \in Foreign, Ingest(f)
      PROVE  ShapeInv'
  <2>1. Dated({f}) /\ UNCHANGED <<story, pc, want, ticks, told, crashes>>
    BY <1>5 DEF Ingest
  <2>2. old' = [q \in Runs |-> old'[q]]
    BY <2>1, DatedGrows
  <2>. QED
    BY <2>1, <2>2 DEF ShapeInv
<1>3. CASE Shutdown
  <2>1. pc' \in [Runs -> Places]
    BY <1>3 DEF Shutdown, ShapeInv, Places
  <2>2. want' = [q \in Runs |-> want'[q]]
    BY <1>3 DEF Shutdown
  <2>3. told' = [q \in Runs |-> told'[q]]
    BY <1>3 DEF Shutdown
  <2>. QED
    BY <1>3, <2>1, <2>2, <2>3 DEF Shutdown, ShapeInv
<1>4. CASE Restart
  <2>1. pc' \in [Runs -> Places]
    BY <1>4 DEF Restart, ShapeInv, Places
  <2>2. told' = [q \in Runs |-> told'[q]]
    BY <1>4 DEF Restart
  <2>. QED
    BY <1>4, <2>1, <2>2 DEF Restart, ShapeInv
<1>. QED
  BY <1>1, <1>2, <1>3, <1>4, <1>5 DEF Next, EnrichBegins, EnrichMoves, EnrichStops, vars

\* Rows are added by others or by the run that ticks.
LEMMA EvidenceGrows ==
    ASSUME [Next]_vars
    PROVE  /\ evidence \subseteq evidence'
           /\ \A e \in evidence' \ evidence :
                 e.by = None \/ \E r \in Runs : Tick(r) /\ e.by = <<r, ticks[r]>>
<1>1. ASSUME NEW r \in Runs, Tick(r)
      PROVE  /\ evidence \subseteq evidence'
             /\ \A e \in evidence' \ evidence : e.by = <<r, ticks[r]>>
  BY <1>1 DEF Tick, Left
<1>2. ASSUME NEW f \in Foreign, Ingest(f)
      PROVE  evidence' = evidence \cup {f} /\ f.by = None
  BY <1>2, RowsAssumption DEF Ingest
<1>3. evidence' = evidence \/ (\E r \in Runs : Tick(r)) \/ \E f \in Foreign : Ingest(f)
  BY DEF Next, Step, Start, Leave, Finalize, FinalizeFails, BuildRead, Persist, BuildCommit,
     BuildFails, Close, EnrichBegins, EnrichMoves, EnrichStops, Shutdown, Restart, vars
<1>. QED
  BY <1>1, <1>2, <1>3

LEMMA EvidenceNext ==
    ASSUME ShapeInv, EvidenceInv, [Next]_vars
    PROVE  EvidenceInv'
<1>1. \A r \in Runs : ticks[r] \in Nat /\ ticks'[r] \in Nat /\ ticks[r] \in 0..MaxTicks
  BY ShapeNext, TicksAssumption DEF ShapeInv
<1>2. \A r \in Runs : ticks[r] <= ticks'[r] /\ (Tick(r) /\ evidence' # evidence => ticks[r] < ticks'[r])
  <2>1. ASSUME NEW q \in Runs, Tick(q)
        PROVE  /\ \A r \in Runs : ticks[r] <= ticks'[r]
               /\ evidence' # evidence => ticks[q] < ticks'[q]
    BY <1>1, <2>1 DEF Tick, ShapeInv
  <2>2. (\E q \in Runs : Tick(q)) \/ ticks' = ticks
    BY DEF Next, Step, Start, Leave, Finalize, FinalizeFails, BuildRead, Persist, BuildCommit,
       BuildFails, Close, EnrichBegins, EnrichMoves, EnrichStops, Shutdown, Restart, Ingest, vars, runs
  <2>. QED
    BY <1>1, <2>1, <2>2
<1>3. ASSUME NEW e \in evidence'
      PROVE  /\ e.tokens \subseteq Tokens
             /\ e.by = None \/ \E r \in Runs, k \in 0..MaxTicks : e.by = <<r, k>> /\ k < ticks'[r]
  <2>1. CASE e \in evidence
    <3>1. e.tokens \subseteq Tokens
      BY <2>1 DEF EvidenceInv
    <3>2. CASE e.by = None
      BY <3>1, <3>2
    <3>3. CASE e.by # None
      <4>1. PICK r \in Runs, k \in 0..MaxTicks : e.by = <<r, k>> /\ k < ticks[r]
        BY <2>1, <3>3 DEF EvidenceInv
      <4>2. k < ticks'[r]
        BY <1>1, <1>2, <4>1
      <4>. QED
        BY <3>1, <4>1, <4>2
    <3>. QED
      BY <3>2, <3>3
  <2>2. CASE e \notin evidence
    <3>1. e.tokens \subseteq Tokens
      <4>1. (\E r \in Runs : e \in Left(r)) \/ e \in Foreign
        BY <1>3, <2>2 DEF Next, Step, Tick, Start, Leave, Finalize, FinalizeFails, BuildRead, Persist,
           BuildCommit, BuildFails, Close, EnrichBegins, EnrichMoves, EnrichStops, Shutdown, Restart,
           Ingest, vars
      <4>. QED
        BY <4>1, RowsAssumption DEF Left
    <3>2. CASE e.by # None
      <4>1. PICK r \in Runs : Tick(r) /\ e.by = <<r, ticks[r]>>
        BY <1>3, <2>2, <3>2, EvidenceGrows
      <4>2. ticks[r] < ticks'[r]
        BY <1>2, <1>3, <2>2, <4>1
      <4>. QED
        BY <1>1, <3>1, <4>1, <4>2
    <3>. QED
      BY <3>1, <3>2
  <2>. QED
    BY <2>1, <2>2
<1>. QED
  BY <1>3 DEF EvidenceInv

\* The end of a transaction, and a step of a run that holds no rows.
LEMMA LockStep ==
    ASSUME LockInv, NEW r \in Runs, sweep' = sweep,
           \A q \in Runs : q # r => pc'[q] = pc[q],
           \/ locks' = locks /\ (pc'[r] = pc[r] \/ pc[r] # "telling")
           \/ locks' = Release(r)
    PROVE  LockInv'
<1>1. CASE locks' = locks
  BY <1>1, RunsAssumption DEF LockInv, Release
<1>2. CASE locks' = Release(r)
  BY <1>2, RunsAssumption, NoneAssumption DEF LockInv, Release
<1>. QED
  BY <1>1, <1>2

LEMMA LockEnrich ==
    ASSUME LockInv, IntelInv, EnrichBegins \/ EnrichMoves \/ EnrichStops
    PROVE  LockInv'
<1>1. pc' = pc
  BY DEF EnrichBegins, EnrichMoves, EnrichStops, runs
<1>2. CASE EnrichStart \/ Expire
  BY <1>1, <1>2 DEF EnrichStart, Expire, LockInv
<1>3. CASE EnrichCommit \/ EnrichFail
  <2>1. locks' = Release("sweep")
    BY <1>3 DEF EnrichCommit, EnrichFail
  <2>. QED
    BY <1>1, <2>1, RunsAssumption, NoneAssumption DEF LockInv, Release
<1>4. ASSUME NEW i \in Indicators, Enrich(i)
      PROVE  LockInv'
  <2>1. sweep' # None
    BY <1>4, EnrichOne
  <2>2. locks' = locks \/ locks' = [locks EXCEPT ![i] = "sweep"]
    BY <1>4 DEF Enrich
  <2>. QED
    BY <1>1, <2>1, <2>2, RunsAssumption DEF LockInv
<1>. QED
  BY <1>2, <1>3, <1>4 DEF EnrichBegins, EnrichMoves, EnrichStops

LEMMA LockNext ==
    ASSUME Inv, [Next]_vars
    PROVE  LockInv'
<1>1. ShapeInv /\ LockInv /\ IntelInv
  BY DEF Inv
<1>2. ASSUME NEW r \in Runs, Step(r)
      PROVE  LockInv'
  <2>1. \A q \in Runs : q # r => pc'[q] = pc[q]
    BY <1>1, <1>2, StepOthers DEF Same
  <2>2. CASE Start(r) \/ Leave(r, "completed") \/ Leave(r, "failed") \/ Finalize(r)
             \/ FinalizeFails(r) \/ BuildRead(r) \/ Close(r)
    <3>1. pc[r] # "telling" /\ locks' = locks /\ sweep' = sweep
      BY <2>2 DEF Start, Leave, Finalize, FinalizeFails, BuildRead, Close, intel
    <3>. QED
      BY <1>1, <2>1, <3>1, LockStep
  <2>3. CASE Tick(r)
    <3>1. pc' = pc /\ sweep' = sweep /\ (locks' = locks \/ locks' = Release(r))
      BY <2>3 DEF Tick, Observe, intel
    <3>. QED
      BY <1>1, <3>1, LockStep
  <2>4. CASE BuildCommit(r) \/ BuildFails(r)
    <3>1. sweep' = sweep /\ locks' = Release(r)
      BY <2>4 DEF BuildCommit, BuildFails, Observe
    <3>. QED
      BY <1>1, <2>1, <3>1, LockStep
  <2>5. ASSUME NEW i \in Indicators, Persist(r, i)
        PROVE  LockInv'
    <3>1. pc[r] = "telling" /\ pc' = pc /\ sweep' = sweep /\ locks' = [locks EXCEPT ![i] = r]
      BY <2>5 DEF Persist
    <3>. QED
      BY <1>1, <3>1, RunsAssumption DEF LockInv
  <2>. QED
    BY <1>2, <2>2, <2>3, <2>4, <2>5 DEF Step
<1>3. ASSUME NEW f \in Foreign, Ingest(f)
      PROVE  LockInv'
  <2>1. pc' = pc /\ sweep' = sweep /\ locks' = Release(None)
    BY <1>3 DEF Ingest, Observe, runs
  <2>2. locks' = locks
    BY <1>1, <2>1 DEF Release, LockInv
  <2>. QED
    BY <1>1, <2>1, <2>2 DEF LockInv
<1>4. CASE EnrichBegins \/ EnrichMoves \/ EnrichStops
  BY <1>1, <1>4, LockEnrich
<1>5. CASE Shutdown
  <2>1. sweep' = sweep /\ locks' = [i \in Indicators |-> IF locks[i] \in Runs THEN None ELSE locks[i]]
    BY <1>5 DEF Shutdown
  <2>. QED
    BY <1>1, <2>1, RunsAssumption, NoneAssumption DEF LockInv
<1>6. CASE Restart
  BY <1>6, RunsAssumption, NoneAssumption DEF Restart, LockInv
<1>7. CASE UNCHANGED vars
  BY <1>1, <1>7 DEF LockInv, vars, intel, runs
<1>. QED
  BY <1>2, <1>3, <1>4, <1>5, <1>6, <1>7 DEF Next

-----------------------------------------------------------------------------
(* RunInv is inductive.                                                    *)

LEMMA RunSame ==
    ASSUME NEW q \in Runs, RunInv(q), Same(q)
    PROVE  RunInv(q)'
BY DEF RunInv, Same, Waiting

LEMMA RunStep ==
    ASSUME Inv, NEW r \in Runs, Step(r)
    PROVE  RunInv(r)'
<1>1. ShapeInv /\ RunInv(r) /\ pc[r] \in Places
  BY DEF Inv, ShapeInv
<1>2. CASE Start(r)
  <2>1. /\ pc[r] = "none" /\ pc'[r] = "ticking" /\ want' = want /\ r \in active'
        /\ story'[r].status = "running" /\ story'[r].ended = story[r].ended
        /\ story'[r].guess = story[r].guess
    BY <1>1, <1>2, StartStory DEF Start, Goto, ShapeInv
  <2>. QED
    BY <1>1, <2>1 DEF RunInv, Waiting, Status
<1>3. CASE Tick(r)
  BY <1>1, <1>3 DEF Tick, RunInv, Waiting
<1>4. CASE Leave(r, "completed") \/ Leave(r, "failed")
  <2>1. /\ pc[r] = "ticking" /\ pc'[r] = "finalizing" /\ want'[r] \in {"completed", "failed"}
        /\ UNCHANGED <<story, active, ticks>>
    BY <1>1, <1>4 DEF Leave, Goto, ShapeInv
  <2>. QED
    BY <1>1, <2>1 DEF RunInv, Waiting
<1>5. CASE Finalize(r)
  <2>1. /\ pc[r] = "finalizing" /\ pc'[r] = "building" /\ UNCHANGED <<want, active, ticks>>
        /\ story'[r].status = want[r] /\ story'[r].ended = TRUE
    BY <1>1, <1>5, FinalStory DEF Finalize, Goto, ShapeInv
  <2>2. want[r] \in {"completed", "cancelled", "failed"}
    BY <1>1, <2>1 DEF RunInv
  <2>. QED
    BY <1>1, <2>1, <2>2, StatusAssumption DEF RunInv, Waiting, Status
<1>6. CASE BuildRead(r)
  <2>1. /\ pc[r] = "building" /\ pc'[r] = "telling" /\ UNCHANGED <<story, want, active, ticks>>
    BY <1>1, <1>6 DEF BuildRead, Goto, ShapeInv
  <2>. QED
    BY <1>1, <2>1 DEF RunInv, Waiting
<1>7. CASE \E i \in Indicators : Persist(r, i)
  BY <1>1, <1>7 DEF Persist, RunInv, Waiting
<1>8. CASE BuildCommit(r)
  <2>1. /\ pc[r] = "telling" /\ pc'[r] = "closing" /\ UNCHANGED <<want, active, ticks>>
        /\ story'[r].status = IF story[r].status = "running" THEN "analyzed" ELSE story[r].status
        /\ story'[r].ended = TRUE
    BY <1>1, <1>8, BuiltStory DEF BuildCommit, Goto, ShapeInv
  <2>. QED
    BY <1>1, <2>1 DEF RunInv, Waiting
<1>9. CASE /\ Over(r) /\ UNCHANGED <<story, want, ticks, crashes>>
           /\ story[r].ended \/ want[r] \in {"failed", "cancelled"}
  <2>1. pc'[r] = "over" /\ r \notin active'
    BY <1>1, <1>9 DEF Over, Goto, ShapeInv
  <2>2. story[r].ended => story[r].status # "running"
    BY <1>1 DEF RunInv
  <2>. QED
    BY <1>1, <1>9, <2>1, <2>2 DEF RunInv, Waiting
<1>10. CASE FinalizeFails(r)
  <2>1. CASE Over(r) /\ want' = want /\ want[r] # "completed"
    <3>1. pc[r] = "finalizing"
      BY <1>10 DEF FinalizeFails
    <3>2. want[r] \in {"failed", "cancelled"}
      BY <1>1, <2>1, <3>1 DEF RunInv
    <3>. QED
      BY <1>9, <1>10, <2>1, <3>2 DEF FinalizeFails
  <2>2. CASE want' = [want EXCEPT ![r] = "failed"] /\ UNCHANGED <<active, pc>>
    <3>1. want'[r] = "failed" /\ pc[r] = "finalizing" /\ UNCHANGED <<story, ticks>>
      BY <1>1, <1>10, <2>2 DEF ShapeInv, FinalizeFails
    <3>. QED
      BY <1>1, <2>2, <3>1 DEF RunInv, Waiting
  <2>. QED
    BY <1>10, <2>1, <2>2 DEF FinalizeFails
<1>11. CASE BuildFails(r) \/ Close(r)
  <2>1. pc[r] \in {"building", "telling", "closing"}
    BY <1>11 DEF BuildFails, Close
  <2>2. story[r].ended
    BY <1>1, <2>1 DEF RunInv
  <2>. QED
    BY <1>9, <1>11, <2>2 DEF BuildFails, Close
<1>. QED
  BY <1>2, <1>3, <1>4, <1>5, <1>6, <1>7, <1>8, <1>10, <1>11 DEF Step

LEMMA RunNext ==
    ASSUME Inv, [Next]_vars, NEW q \in Runs
    PROVE  RunInv(q)'
<1>1. ShapeInv /\ RunInv(q) /\ pc[q] \in Places
  BY DEF Inv, ShapeInv
<1>2. CASE \E r \in Runs : Step(r)
  BY <1>1, <1>2, RunStep, RunSame, StepOthers
<1>3. CASE UNCHANGED <<story, active, pc, want, ticks, told, crashes>>
  BY <1>1, <1>3 DEF RunInv, Waiting
<1>4. CASE Shutdown
  <2> DEFINE caught == {r \in Runs : Waiting(r) /\ want[r] \in {None, "completed"}}
             lost == {r \in Runs : Waiting(r)} \ caught
  <2>1. /\ pc'[q] = IF q \in caught THEN "finalizing" ELSE IF q \in lost THEN "over" ELSE pc[q]
        /\ want'[q] = IF q \in caught THEN "cancelled" ELSE want[q]
        /\ active' = active \ lost /\ UNCHANGED <<story, ticks, crashes>>
    BY <1>4 DEF Shutdown
  <2>2. CASE q \in caught
    <3>1. pc'[q] = "finalizing" /\ want'[q] = "cancelled" /\ q \notin lost /\ Waiting(q)
      BY <2>1, <2>2
    <3>. QED
      BY <1>1, <2>1, <3>1 DEF RunInv, Waiting
  <2>3. CASE q \in lost
    <3>1. pc'[q] = "over" /\ q \notin active' /\ want'[q] = want[q]
      BY <2>1, <2>3
    <3>2. want[q] \in {"failed", "cancelled"}
      BY <1>1, <2>3 DEF RunInv, Waiting
    <3>. QED
      BY <1>1, <2>1, <3>1, <3>2 DEF RunInv, Waiting
  <2>4. CASE q \notin caught /\ q \notin lost
    <3>1. pc'[q] = pc[q] /\ want'[q] = want[q] /\ ~Waiting(q) /\ (q \in active' <=> q \in active)
      BY <2>1, <2>4
    <3>. QED
      BY <1>1, <2>1, <3>1 DEF RunInv, Waiting
  <2>. QED
    BY <2>2, <2>3, <2>4
<1>5. CASE Restart
  <2>1. /\ pc'[q] = IF Waiting(q) THEN "over" ELSE pc[q]
        /\ active' = {} /\ UNCHANGED <<story, want, ticks>>
    BY <1>5 DEF Restart
  <2>2. crashes' > 0
    BY <1>1, <1>5 DEF Restart, ShapeInv
  <2>. QED
    BY <1>1, <2>1, <2>2 DEF RunInv, Waiting
<1>. QED
  BY <1>2, <1>3, <1>4, <1>5 DEF Next, Ingest, EnrichBegins, EnrichMoves, EnrichStops, vars, runs

-----------------------------------------------------------------------------
(* StoryInv is inductive.                                                  *)

\* But for its start, rows that are stored stay inside or outside of a window.
LEMMA OldGrows ==
    ASSUME Inv, [Next]_vars, NEW q \in Runs, ~Start(q)
    PROVE  /\ old[q] \subseteq old'[q]
           /\ \A e \in old'[q] \ old[q] : e \notin evidence /\ (e.kind = "incident" \/ e.by = None)
<1>1. ShapeInv /\ EvidenceInv
  BY DEF Inv
<1>2. ASSUME NEW r \in Runs, Dated(Left(r))
      PROVE  /\ old[q] \subseteq old'[q]
             /\ \A e \in old'[q] \ old[q] : e \notin evidence /\ e.kind = "incident"
  <2>1. ASSUME NEW e \in Left(r)
        PROVE  e \notin evidence /\ e.by # None
    <3>1. e.by = <<r, ticks[r]>> /\ ticks[r] \in Nat
      BY <1>1, TicksAssumption DEF Left, ShapeInv
    <3>2. e.by # None
      BY <3>1, RunsAssumption
    <3>3. ASSUME NEW p \in Runs, NEW k \in 0..MaxTicks, e.by = <<p, k>>, k < ticks[p]
          PROVE  FALSE
      <4>1. p = r /\ k = ticks[r]
        BY <3>1, <3>3
      <4>. QED
        BY <3>1, <3>3, <4>1
    <3>. QED
      BY <1>1, <3>2, <3>3 DEF EvidenceInv
  <2>. QED
    BY <1>2, <2>1, DatedGrows
<1>3. ASSUME NEW f \in Foreign, Ingest(f)
      PROVE  /\ old[q] \subseteq old'[q]
             /\ \A e \in old'[q] \ old[q] : e \notin evidence /\ (e.kind = "incident" \/ e.by = None)
  <2>1. f \notin evidence /\ Dated({f})
    BY <1>3 DEF Ingest
  <2>. QED
    BY <2>1, DatedGrows
<1>4. ASSUME NEW r \in Runs, Start(r)
      PROVE  old'[q] = old[q]
  <2>1. r # q
    BY <1>4
  <2>2. \E before : old' = [old EXCEPT ![r] = before]
    BY <1>4 DEF Start
  <2>. QED
    BY <1>1, <2>1, <2>2 DEF ShapeInv
<1>5. \/ old' = old \/ (\E r \in Runs : Start(r) \/ Dated(Left(r)))
      \/ \E f \in Foreign : Ingest(f)
  BY DEF Next, Step, Tick, Leave, Finalize, FinalizeFails, BuildRead, Persist, BuildCommit,
     BuildFails, Close, EnrichBegins, EnrichMoves, EnrichStops, Shutdown, Restart, vars, runs
<1>. QED
  BY <1>2, <1>3, <1>4, <1>5

\* A run that does not tick gets no rows.
LEMMA RowsStay ==
    ASSUME Inv, [Next]_vars, NEW q \in Runs, pc[q] \notin {"none", "ticking"}
    PROVE  Rows(q)' = Rows(q)
<1>1. ASSUME NEW e \in evidence' \ evidence, e.by # None
      PROVE  e.by[1] # q
  <2>1. PICK r \in Runs : Tick(r) /\ e.by = <<r, ticks[r]>>
    BY <1>1, EvidenceGrows
  <2>2. r # q
    BY <2>1 DEF Tick
  <2>. QED
    BY <2>1, <2>2
<1>2. ~Start(q)
  BY DEF Start
<1>3. \A e \in evidence : e \in old'[q] <=> e \in old[q]
  BY <1>2, OldGrows
<1>. QED
  BY <1>1, <1>3, EvidenceGrows DEF Rows

\* A step that changes nothing of what q has told.
LEMMA StoryStays ==
    ASSUME Inv, [Next]_vars, NEW q \in Runs,
           story'[q].events = story[q].events, story'[q].tactics = story[q].tactics,
           story'[q].guess = story[q].guess,
           told'[q] = told[q] \/ told'[q] = {},
           pc'[q] # "none" => pc[q] # "none",
           pc'[q] = "telling" => pc[q] = "telling" /\ told'[q] = told[q],
           story[q].guess # None =>
              /\ pc'[q] \notin {"none", "ticking"}
              /\ want'[q] \in {want[q], "cancelled"}
              /\ pc'[q] \notin {"closing", "over"} => want'[q] = "cancelled"
    PROVE  StoryInv(q)'
<1>1. StoryInv(q) /\ RunInv(q) /\ evidence \subseteq evidence'
  BY EvidenceGrows DEF Inv
<1>6. /\ old[q] \subseteq old'[q]
      /\ \A e \in old'[q] \ old[q] : e \notin evidence /\ (e.kind = "incident" \/ e.by = None)
  <2>1. ~Start(q)
    BY DEF Inv, ShapeInv, Start, Goto
  <2>. QED
    BY <2>1, OldGrows
<1>7. pc'[q] # "none" => \A e \in old'[q] : e.by = None \/ e.by[1] # q \/ e.kind = "incident"
  BY <1>1, <1>6 DEF StoryInv
<1>2. told'[q] \subseteq evidence'
  BY <1>1 DEF StoryInv
<1>3. pc'[q] = "telling" => Complete(q, told[q])' /\ DOMAIN story'[q].events \subseteq told'[q]
  <2>1. ASSUME pc'[q] = "telling"
        PROVE  /\ Rows(q)' \subseteq told'[q] /\ told'[q] \subseteq evidence' \ old'[q]
               /\ DOMAIN story'[q].events \subseteq told'[q]
    <3>1. Rows(q)' = Rows(q)
      BY <2>1, RowsStay
    <3>. QED
      BY <1>1, <1>6, <2>1, <3>1 DEF StoryInv, Complete
  <2>. QED
    BY <2>1 DEF Complete
<1>4. story[q].guess # None => Complete(q, DOMAIN story[q].events)'
  <2>1. ASSUME story[q].guess # None
        PROVE  /\ Rows(q)' \subseteq DOMAIN story'[q].events
               /\ DOMAIN story'[q].events \subseteq evidence' \ old'[q]
    <3>1. Rows(q)' = Rows(q)
      BY <1>1, <2>1, RowsStay DEF StoryInv
    <3>. QED
      BY <1>1, <1>6, <2>1, <3>1 DEF StoryInv, Complete
  <2>. QED
    BY <2>1 DEF Complete
<1>5. story[q].guess # None =>
         \A e \in DOMAIN story'[q].events :
            /\ story'[q].events[e] \in Nat \ {0}
            /\ story'[q].events[e] = 1 \/ want'[q] = "cancelled"
  BY <1>1 DEF StoryInv
<1>. QED
  BY <1>1, <1>2, <1>3, <1>4, <1>5, <1>7 DEF StoryInv

LEMMA StoryStart ==
    ASSUME Inv, [Next]_vars, NEW r \in Runs, Start(r)
    PROVE  StoryInv(r)'
<1>1. ShapeInv /\ RunInv(r) /\ StoryInv(r) /\ EvidenceInv
  BY DEF Inv
<1>2. /\ pc[r] = "none" /\ pc'[r] = "ticking" /\ UNCHANGED <<evidence, told>>
      /\ old'[r] \subseteq evidence
      /\ story'[r].events = story[r].events
      /\ story'[r].tactics = story[r].tactics /\ story'[r].guess = story[r].guess
  <2>1. /\ pc[r] = "none" /\ pc'[r] = "ticking" /\ UNCHANGED <<evidence, told>>
    BY <1>1 DEF Start, Goto, ShapeInv
  <2>2. PICK before \in SUBSET evidence : old' = [old EXCEPT ![r] = before]
    BY DEF Start
  <2>3. old'[r] \subseteq evidence
    BY <1>1, <2>2 DEF ShapeInv
  <2>. QED
    BY <1>1, <2>1, <2>3, StartStory
<1>3. story[r].guess = None /\ ticks[r] = 0
  BY <1>1, <1>2 DEF RunInv
<1>4. ASSUME NEW e \in evidence
      PROVE  e.by = None \/ e.by[1] # r
  <2>1. CASE e.by # None
    <3>1. PICK q \in Runs, k \in 0..MaxTicks : e.by = <<q, k>> /\ k < ticks[q]
      BY <1>1, <2>1 DEF EvidenceInv
    <3>2. q # r
      BY <1>3, <3>1
    <3>. QED
      BY <3>1, <3>2
  <2>. QED
    BY <2>1
<1>. QED
  BY <1>1, <1>2, <1>3, <1>4 DEF StoryInv

LEMMA StoryRead ==
    ASSUME Inv, [Next]_vars, NEW r \in Runs, BuildRead(r)
    PROVE  StoryInv(r)'
<1>1. ShapeInv /\ RunInv(r) /\ StoryInv(r)
  BY DEF Inv
<1>2. /\ pc[r] = "building" /\ pc'[r] = "telling" /\ UNCHANGED <<evidence, story, want, old>>
      /\ told'[r] = evidence \ old[r]
  BY <1>1 DEF BuildRead, Goto, ShapeInv
<1>3. Rows(r)' = Rows(r)
  BY <1>2 DEF Rows
<1>4. Rows(r) \subseteq evidence \ old[r]
  BY <1>1, <1>2 DEF StoryInv, Rows
<1>5. DOMAIN story[r].events \subseteq told'[r]
  BY <1>1, <1>2, EmptyFunction DEF StoryInv, Complete
<1>6. Complete(r, told[r])'
  BY <1>2, <1>3, <1>4 DEF Complete
<1>7. story[r].guess # None => Complete(r, DOMAIN story[r].events)'
  BY <1>1, <1>2, <1>3 DEF StoryInv, Complete
<1>. QED
  BY <1>1, <1>2, <1>5, <1>6, <1>7 DEF StoryInv

LEMMA StoryBuilt ==
    ASSUME Inv, [Next]_vars, NEW r \in Runs, BuildCommit(r)
    PROVE  StoryInv(r)'
<1>1. ShapeInv /\ RunInv(r) /\ StoryInv(r)
  BY DEF Inv
<1>2. /\ pc[r] = "telling" /\ pc'[r] = "closing" /\ UNCHANGED <<evidence, want, old, told>>
      /\ story'[r].events = Added(story[r].events, told[r])
      /\ story'[r].tactics = Replaced(story[r].tactics, tactic_summary(told[r]))
      /\ story'[r].guess # None
  BY <1>1, BuiltStory DEF BuildCommit, Goto, ShapeInv
<1>3. Complete(r, told[r]) /\ DOMAIN story[r].events \subseteq told[r]
  BY <1>1, <1>2 DEF StoryInv
<1>4. /\ DOMAIN story'[r].events = told[r]
      /\ \A e \in told[r] :
            /\ story'[r].events[e] \in Nat \ {0}
            /\ story'[r].events[e] = 1 \/ want[r] = "cancelled"
  <2> DEFINE bag == story[r].events
  <2>1. bag = story[r].events
    OBVIOUS
  <2>. HIDE DEF bag
  <2>2. story'[r].events = Added(bag, told[r]) /\ DOMAIN bag \subseteq told[r]
    BY <1>2, <1>3, <2>1, Zenon
  <2>3. DOMAIN story'[r].events = told[r]
    <3>1. DOMAIN Added(bag, told[r]) = DOMAIN bag \cup told[r]
      BY AddedCounts
    <3>. QED
      BY <2>2, <3>1
  <2>4. CASE story[r].guess = None
    <3>1. DOMAIN bag = {}
      BY <1>1, <2>4, <2>1, EmptyFunction DEF StoryInv
    <3>2. \A e \in told[r] : Added(bag, told[r])[e] = 1
      BY <3>1, AddedCounts
    <3>3. \A e \in told[r] : story'[r].events[e] = 1
      BY <2>2, <3>2
    <3>. QED
      BY <2>3, <3>3
  <2>5. CASE story[r].guess # None
    <3>1. want[r] = "cancelled" /\ \A e \in DOMAIN bag : bag[e] \in Nat \ {0}
      BY <1>1, <1>2, <2>5, <2>1 DEF StoryInv
    <3>2. \A e \in DOMAIN bag \cup told[r] : Added(bag, told[r])[e] \in Nat \ {0}
      BY <3>1, AddedCounts
    <3>3. \A e \in told[r] : story'[r].events[e] \in Nat \ {0}
      BY <2>2, <3>2
    <3>. QED
      BY <2>3, <3>1, <3>3
  <2>. QED
    BY <2>4, <2>5
<1>5. story'[r].tactics = tactic_summary(told[r])
  <2>1. CASE story[r].guess = None
    BY <1>1, <1>2, <2>1, SummaryGrows DEF StoryInv
  <2>2. CASE story[r].guess # None
    <3>1. story[r].tactics = tactic_summary(DOMAIN story[r].events)
      BY <1>1, <2>2 DEF StoryInv
    <3>. QED
      BY <1>2, <1>3, <3>1, SummaryGrows
  <2>. QED
    BY <2>1, <2>2
<1>6. \A s : s = told[r] => Complete(r, s)'
  BY <1>2, <1>3 DEF Complete, Rows
<1>7. /\ Complete(r, DOMAIN story[r].events)'
      /\ story'[r].tactics = tactic_summary(DOMAIN story'[r].events)
  BY <1>4, <1>5, <1>6 DEF Complete
<1>. QED
  BY <1>1, <1>2, <1>4, <1>7 DEF StoryInv

LEMMA StoryNext ==
    ASSUME Inv, [Next]_vars, NEW q \in Runs
    PROVE  StoryInv(q)'
<1>1. ShapeInv /\ RunInv(q) /\ StoryInv(q) /\ pc[q] \in Places
  BY DEF Inv, ShapeInv
<1>2. story[q].guess # None =>
         /\ pc[q] \notin {"none", "ticking"}
         /\ pc[q] \notin {"closing", "over"} => want[q] = "cancelled"
  BY <1>1 DEF StoryInv
<1>3. ASSUME NEW r \in Runs, Step(r), r # q
      PROVE  StoryInv(q)'
  <2>1. Same(q)
    BY <1>1, <1>3, StepOthers
  <2>. QED
    BY <1>1, <1>2, <2>1, StoryStays DEF Same
<1>4. CASE UNCHANGED <<story, active, pc, want, ticks, told, crashes>>
  BY <1>1, <1>2, <1>4, StoryStays
<1>5. CASE Step(q)
  <2>1. CASE Start(q) \/ BuildRead(q) \/ BuildCommit(q)
    BY <2>1, StoryStart, StoryRead, StoryBuilt
  <2>2. CASE Tick(q) \/ \E i \in Indicators : Persist(q, i)
    BY <1>1, <1>2, <2>2, StoryStays DEF Tick, Persist
  <2>3. CASE Leave(q, "completed") \/ Leave(q, "failed")
    <3>1. /\ pc[q] = "ticking" /\ pc'[q] = "finalizing" /\ UNCHANGED <<story, old, told>>
          /\ story[q].guess = None
      BY <1>1, <2>3 DEF Leave, Goto, ShapeInv, RunInv
    <3>. QED
      BY <1>1, <3>1, StoryStays
  <2>4. CASE Finalize(q)
    <3>1. /\ pc[q] = "finalizing" /\ pc'[q] = "building" /\ UNCHANGED <<want, old, told>>
          /\ story'[q].events = story[q].events
          /\ story'[q].tactics = story[q].tactics /\ story'[q].guess = story[q].guess
      BY <1>1, <2>4, FinalStory DEF Finalize, Goto, ShapeInv
    <3>. QED
      BY <1>1, <1>2, <3>1, StoryStays
  <2>5. CASE Over(q) /\ UNCHANGED <<story, want, old>> /\ pc[q] # "none"
    <3>1. pc'[q] = "over" /\ told'[q] = {}
      BY <1>1, <2>5 DEF Over, Goto, ShapeInv
    <3>. QED
      BY <1>1, <1>2, <2>5, <3>1, StoryStays
  <2>6. CASE FinalizeFails(q)
    <3>1. CASE Over(q) /\ want' = want
      BY <2>5, <2>6, <3>1 DEF FinalizeFails
    <3>2. CASE want[q] = "completed" /\ UNCHANGED <<active, pc, told, todo>>
      <4>1. pc[q] = "finalizing" /\ UNCHANGED <<story, old>>
        BY <2>6 DEF FinalizeFails
      <4>2. story[q].guess = None
        BY <1>2, <3>2, <4>1
      <4>. QED
        BY <1>1, <3>2, <4>1, <4>2, StoryStays
    <3>. QED
      BY <2>6, <3>1, <3>2 DEF FinalizeFails
  <2>7. CASE BuildFails(q) \/ Close(q)
    BY <2>5, <2>7 DEF BuildFails, Close
  <2>. QED
    BY <1>5, <2>1, <2>2, <2>3, <2>4, <2>6, <2>7 DEF Step
<1>6. CASE Shutdown
  <2> DEFINE caught == {r \in Runs : Waiting(r) /\ want[r] \in {None, "completed"}}
             lost == {r \in Runs : Waiting(r)} \ caught
  <2>1. /\ pc'[q] = IF q \in caught THEN "finalizing" ELSE IF q \in lost THEN "over" ELSE pc[q]
        /\ want'[q] = IF q \in caught THEN "cancelled" ELSE want[q]
        /\ told'[q] = {} /\ UNCHANGED <<story, old>>
    BY <1>6 DEF Shutdown
  <2>2. q \in caught \/ q \in lost => pc[q] # "none" /\ Waiting(q)
    BY DEF Waiting
  <2>3. q \notin caught /\ q \notin lost => pc[q] \in {"none", "over"}
    BY <1>1 DEF Waiting, Places
  <2>4. /\ pc'[q] \in {"none", "finalizing", "over"}
        /\ pc'[q] # "none" => pc[q] # "none"
        /\ pc'[q] = "none" => pc[q] = "none"
        /\ want'[q] \in {want[q], "cancelled"}
        /\ pc'[q] = "finalizing" => want'[q] = "cancelled"
    <3>. HIDE DEF caught, lost
    <3>. QED
      BY <2>1, <2>2, <2>3
  <2>. QED
    BY <1>1, <1>2, <2>1, <2>4, StoryStays
<1>7. CASE Restart
  <2>1. /\ pc'[q] = IF Waiting(q) THEN "over" ELSE pc[q]
        /\ told'[q] = {} /\ UNCHANGED <<story, old, want>>
    BY <1>7 DEF Restart
  <2>2. /\ pc'[q] \in {"none", "over"} /\ (pc'[q] = "none" <=> pc[q] = "none")
    BY <1>1, <2>1 DEF Waiting, Places
  <2>. QED
    BY <1>1, <1>2, <2>1, <2>2, StoryStays
<1>. QED
  BY <1>3, <1>4, <1>5, <1>6, <1>7 DEF Next, Ingest, EnrichBegins, EnrichMoves, EnrichStops, vars, runs

-----------------------------------------------------------------------------
(* The theorems.                                                           *)

LEMMA InvInit == Init => Inv
<1> SUFFICES ASSUME Init
             PROVE  Inv
  OBVIOUS
<1>1. ShapeInv
  <2>1. IsStory(NoStory)
    BY DEF IsStory, NoStory
  <2>2. /\ story = [r \in Runs |-> story[r]]
        /\ \A r \in Runs : IsStory(story[r])
    <3>1. \A r \in Runs : story[r] = NoStory
      BY Zenon DEF Init
    <3>2. story = [r \in Runs |-> story[r]]
      BY Zenon DEF Init
    <3>. QED
      BY <2>1, <3>1, <3>2, Zenon
  <2>3. ticks \in [Runs -> 0..MaxTicks]
    BY TicksAssumption DEF Init
  <2>4. pc \in [Runs -> Places]
    BY DEF Init, Places
  <2>5. /\ want = [r \in Runs |-> want[r]]
        /\ old = [r \in Runs |-> old[r]]
        /\ told = [r \in Runs |-> told[r]]
    BY Zenon DEF Init
  <2>6. crashes \in Nat
    BY DEF Init
  <2>. QED
    BY <2>2, <2>3, <2>4, <2>5, <2>6 DEF ShapeInv
<1>2. IntelInv /\ LockInv
  BY RunsAssumption, NoneAssumption DEF Init, IntelInit, IntelInv, SweepInv, LockInv, Confidences
<1>3. EvidenceInv
  BY DEF Init, EvidenceInv
<1>4. ASSUME NEW r \in Runs
      PROVE  RunInv(r) /\ StoryInv(r)
  <2>1. /\ story[r].status = None /\ story[r].ended = FALSE /\ story[r].events = <<>>
        /\ story[r].tactics = <<>> /\ story[r].guess = None
    BY DEF Init, NoStory
  <2>. QED
    BY <2>1 DEF Init, RunInv, Waiting, StoryInv
<1>. QED
  BY <1>1, <1>2, <1>3, <1>4 DEF Inv

LEMMA Invariance == Spec => []Inv
<1>1. Inv /\ [Next]_vars => Inv'
  BY ShapeNext, IntelNext, LockNext, EvidenceNext, RunNext, StoryNext DEF Inv
<1>. QED
  BY InvInit, <1>1, PTL DEF Spec

\* A story has an end if and only if its run has left "running", a run in
\* _ACTIVE_RUNS has a task, and a locked row belongs to an open transaction
\* (AttackRunner.run, _finalize, persist_iocs).
THEOREM TypeCorrect == Spec => []TypeOK
<1>1. Inv => TypeOK
  <2> SUFFICES ASSUME Inv
               PROVE  TypeOK
    OBVIOUS
  <2>1. IntelInv /\ LockInv /\ ShapeInv /\ \A r \in Runs : RunInv(r)
    BY DEF Inv
  <2>2. \A r \in Runs :
          /\ story[r].status \in Status \cup {None}
          /\ story[r].ended <=> story[r].status \notin {None, "running"}
          /\ r \in active <=> Waiting(r)
          /\ ticks[r] \in 0..MaxTicks
    BY <2>1 DEF RunInv, ShapeInv
  <2>3. \A i \in Indicators : confidence[i] \in {None, 10, 70, 95} /\ (confidence[i] # None => i \in iocs)
    BY <2>1 DEF IntelInv, Confidences
  <2>. QED
    BY <2>1, <2>2, <2>3 DEF TypeOK, IntelInv, LockInv
<1>. QED
  BY <1>1, Invariance, PTL

\* A story tells every row of its run's ticks but for incidents from before
\* its window, no row that is not stored, each once unless the run was cancelled
\* after its story was stored, and counts tactics by its events; and it says
\* "running" of a run that is over only after a lost process or a status that
\* could not be stored (build_story, AttackRunner.run).
THEOREM StoriesTellRuns == Spec => []StoryTellsRun
<1>1. Inv => StoryTellsRun
  <2> SUFFICES ASSUME Inv, NEW r \in Runs
               PROVE  LET s == story[r] IN
                      /\ IF s.guess = None THEN s.events = <<>>
                         ELSE /\ Rows(r) \subseteq DOMAIN s.events
                              /\ DOMAIN s.events \subseteq evidence \ old[r]
                              /\ \A e \in DOMAIN s.events : s.events[e] = 1 \/ want[r] = "cancelled"
                              /\ pc[r] = "over" => s.tactics = tactic_summary(DOMAIN s.events)
                      /\ pc[r] = "over" /\ s.status = "running" =>
                            crashes > 0 \/ want[r] \in {"failed", "cancelled"}
    BY DEF StoryTellsRun, Rows
  <2>. QED
    BY DEF Inv, RunInv, StoryInv, Complete
<1>. QED
  BY <1>1, Invariance, PTL

\* Something is stored whenever indicators are observed.
LEMMA ObserveStores ==
    ASSUME NEW found, NEW kind, NEW who, Observe(found, kind, who),
           NEW i \in Indicators, confidence'[i] # confidence[i]
    PROVE  confidence'[i] = None /\ i \in found
BY DEF Observe

LEMMA HeldBy ==
    ASSUME NEW rows, NEW i \in extract_from_dict(UNION {e.tokens : e \in rows})
    PROVE  \E e \in rows : Holds(i, e.tokens)
BY DEF extract_from_dict, Holds

LEMMA BuildStores ==
    ASSUME Inv, NEW r \in Runs, BuildCommit(r), NEW e \in told[r]
    PROVE  Gains(r, e)
<1>1. story'[r].events = Added(story[r].events, told[r])
  BY BuiltStory DEF Inv
<1> DEFINE bag == story[r].events
<1>2. \A x \in DOMAIN bag : bag[x] \in Nat
  BY EmptyFunction DEF Inv, StoryInv
<1>3. e \in DOMAIN Added(bag, told[r])
  <2>. HIDE DEF bag
  <2>1. DOMAIN Added(bag, told[r]) = DOMAIN bag \cup told[r]
    BY AddedCounts
  <2>. QED
    BY <2>1
<1>4. e \in DOMAIN bag => Added(bag, told[r])[e] # bag[e]
  <2>. HIDE DEF bag
  <2>1. ASSUME e \in DOMAIN bag
        PROVE  Added(bag, told[r])[e] = bag[e] + 1 /\ bag[e] \in Nat
    BY <1>2, <2>1, AddedAgain
  <2>. QED
    BY <2>1
<1>. QED
  BY <1>1, <1>3, <1>4 DEF Gains

\* Why the confidence of i may change in a step.
Earned(i) ==
    IF confidence'[i] # None THEN sweep # None /\ i \in sweep.rows /\ i \in fresh'
    ELSE \/ \E r \in Runs : ticks'[r] # ticks[r] /\ Holds(i, Payload[r])
         \/ \E e \in evidence' \ evidence : Holds(i, e.tokens)
         \/ \E r \in Runs : \E e \in told[r] : Gains(r, e) /\ Holds(i, e.tokens)

\* A confidence comes only with the end of an enrichment that stored a verdict
\* of its indicator, and goes only when something that holds this indicator is
\* stored again (enrich_ioc, IOCRepository.upsert).
THEOREM ConfidencesEarned == Spec => ConfidenceEarned
<1>1. ASSUME Inv, [Next]_vars, NEW i \in Indicators, confidence'[i] # confidence[i]
      PROVE  Earned(i)
  <2>1. ASSUME NEW r \in Runs, Tick(r)
        PROVE  Earned(i)
    <3>1. Observe(extract_from_dict(Payload[r]), "telemetry", r) /\ ticks' = [ticks EXCEPT ![r] = @ + 1]
      BY <1>1, <2>1 DEF Tick, intel
    <3>2. ticks \in [Runs -> 0..MaxTicks]
      BY <1>1 DEF Inv, ShapeInv
    <3>3. ticks'[r] # ticks[r]
      BY <3>1, <3>2, TicksAssumption
    <3>4. confidence'[i] = None /\ Holds(i, Payload[r])
      BY <1>1, <3>1, ObserveStores DEF Holds
    <3>. QED
      BY <3>3, <3>4 DEF Earned
  <2>2. ASSUME NEW r \in Runs, BuildCommit(r)
        PROVE  Earned(i)
    <3> DEFINE found == extract_from_dict(UNION {e.tokens : e \in told[r]})
    <3>1. Observe(found, "story_event", r)
      BY <2>2 DEF BuildCommit
    <3>2. confidence'[i] = None /\ i \in found
      <4>. HIDE DEF found
      <4>. QED
        BY <1>1, <3>1, ObserveStores
    <3>3. PICK e \in told[r] : Holds(i, e.tokens)
      BY <3>2, HeldBy
    <3>4. Gains(r, e)
      BY <1>1, <2>2, BuildStores
    <3>. QED
      BY <3>2, <3>3, <3>4 DEF Earned
  <2>3. ASSUME NEW f \in Foreign, Ingest(f)
        PROVE  Earned(i)
    <3>1. /\ Observe(extract_from_dict(f.tokens), "event", None)
          /\ f \in evidence' \ evidence
      BY <2>3 DEF Ingest
    <3>2. confidence'[i] = None /\ Holds(i, f.tokens)
      BY <1>1, <3>1, ObserveStores DEF Holds
    <3>. QED
      BY <3>1, <3>2 DEF Earned
  <2>4. CASE EnrichCommit
    <3>1. /\ sweep # None /\ fresh' = fresh \cup sweep.rows
          /\ confidence'[i] = IF i \in DOMAIN sweep.set THEN sweep.set[i] ELSE confidence[i]
      BY <1>1, <2>4 DEF EnrichCommit
    <3>2. i \in DOMAIN sweep.set
      BY <1>1, <3>1
    <3>3. sweep.set[i] # None /\ i \in sweep.rows
      BY <1>1, <3>1, <3>2 DEF Inv, IntelInv, SweepInv
    <3>. QED
      BY <3>1, <3>2, <3>3 DEF Earned
  <2>5. CASE confidence' = confidence
    BY <1>1, <2>5
  <2>6. \/ \E r \in Runs : Tick(r) \/ BuildCommit(r)
        \/ \E f \in Foreign : Ingest(f)
        \/ EnrichCommit \/ confidence' = confidence
    BY <1>1 DEF Next, Step, Start, Leave, Finalize, FinalizeFails, BuildRead, Persist, BuildFails,
       Close, EnrichBegins, EnrichMoves, EnrichStops, EnrichStart, Enrich, EnrichFail, Expire,
       Shutdown, Restart, vars, intel
  <2>. QED
    BY <2>1, <2>2, <2>3, <2>4, <2>5, <2>6
<1>2. Inv /\ [Next]_vars => [\A i \in Indicators : confidence'[i] # confidence[i] => Earned(i)]_vars
  BY <1>1
<1>. QED
  BY <1>2, Invariance, PTL DEF Spec, ConfidenceEarned, Earned
=============================================================================
