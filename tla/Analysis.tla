------------------------------ MODULE Analysis ------------------------------
(***************************************************************************)
(* The computations behind three pages of the dashboard: how far an        *)
(* incident spreads (digital_twin/blast_radius.py over the forest of       *)
(* digital_twin/graph.py), where the trucks were and what happened to whom *)
(* (api/routes/analytics.py, playback) and how much of it there was and    *)
(* how risk went (the same file, get_timeline).  A request is the call and *)
(* the rows its queries find.  POST /blast-radius/compute stores its answer *)
(* row by row, while a POST /twin/sync may load the graph anew.            *)
(***************************************************************************)
EXTENDS Integers, Sequences, FiniteSets, FiniteSetsExt, SequencesExt

CONSTANTS
    Requests,     \* the calls: [kind |-> "blast" | "playback" | "timeline", ...]
    TargetFrames, \* 90 in the code: how many frames playback aims at
    Minute,       \* 60 in the code: the length of a minute
    RiskLimit,    \* 200 in the code: how many high scores playback reads
    Top,          \* 5 in the code: of how many assets the timeline shows risk
    CentralityUnit, \* 10000 in the code: a centrality has four places
    ScoreUnit,      \* 100 in the code: a score, in percent, has two
    MaxReloads,     \* a bound: how often the graph is loaded anew
    None

ASSUME RequestsAssumption ==
    \A q \in Requests : q.kind \in {"blast", "playback", "timeline"}
\* An unknown source is answered with ValueError.  0 is no asset.
ASSUME BlastsAssumption ==
    \A q \in Requests : q.kind = "blast" =>
        /\ IsFiniteSet(DOMAIN q.parent) /\ 0 \notin DOMAIN q.parent
        /\ \A a \in DOMAIN q.parent : q.parent[a] \in DOMAIN q.parent \cup {0}
        /\ q.source \in DOMAIN q.parent
        /\ q.max_depth \in Nat /\ q.severity \in 0..100
ASSUME PlaybacksAssumption ==
    \A q \in Requests : q.kind = "playback" =>
        /\ IsFiniteSet(q.reports) /\ \A r \in q.reports : r.t \in Nat
        /\ q.interval \in Nat \ {0} /\ q.since \in Int
        /\ q.log \in Seq([kind : {"event", "detection", "risk"}, asset : Int, t : Nat, score : Nat])
ASSUME TimelinesAssumption ==
    \A q \in Requests : q.kind = "timeline" =>
        /\ q.now \in Nat /\ q.window \in Nat
        /\ IsFiniteSet(q.scores) /\ \A r \in q.scores : r.t \in Nat /\ r.score \in Nat
        /\ IsFiniteSet(q.rows) /\ \A r \in q.rows : r.t \in Nat
ASSUME FramesAssumption == {TargetFrames, Minute, RiskLimit, Top} \subseteq Nat \ {0}
ASSUME UnitsAssumption == {CentralityUnit, ScoreUnit} \subseteq Nat \ {0} /\ MaxReloads \in Nat

VARIABLES
    request,  \* the call
    work,     \* the search's progress, or None
    answer,   \* its answer, or None
    rows,     \* the rows of blast_radius that are committed
    storing,  \* the transaction that stores them, and the entry it is at
    ids,      \* the assets whose database ids the graph knows
    reloading, \* how many reloads await the assets
    reloads   \* how many have begun

storeVars == <<rows, storing, ids, reloading, reloads>>
vars == <<request, work, answer, storeVars>>

-----------------------------------------------------------------------------
(* Python's sort and "ORDER BY": before holds the pairs <<x, y>> of S in    *)
(* which x comes before y, a total order.                                   *)

InOrder(S, before) ==
    [n \in 1..Cardinality(S) |->
        CHOOSE x \in S : Cardinality({y \in S : <<y, x>> \in before}) = n - 1]

-----------------------------------------------------------------------------
(* The forest: parent[a] is the asset that contains a, or 0.               *)

Assets == DOMAIN request.parent
parent == request.parent

direct_children(a) == {c \in Assets : parent[c] = a}
direct_parents(a) == {parent[a]} \ {0}

\* What every set holds that leads from a upwards.
ancestors(a) ==
    {b \in Assets :
        \A S \in SUBSET (Assets \cup {0}) :
            parent[a] \in S /\ (\A c \in S \ {0} : parent[c] \in S) => b \in S}
descendants(a) == {d \in Assets : a \in ancestors(d)}

\* To the nearest; the code leaves a tie to the last bit of its floats.
Rounded(x, y) == (2 * x + y) \div (2 * y)

\* The ordered pairs of two other assets.
Pairs == LET n == Cardinality(Assets) IN IF n <= 2 THEN 1 ELSE (n - 1) * (n - 2)

\* In a forest one path joins what is joined, so a node lies between each of
\* its ancestors and each of its descendants.
betweenness_centrality ==
    [a \in Assets |->
        Rounded(CentralityUnit * (Cardinality(ancestors(a)) * Cardinality(descendants(a))), Pairs)]

-----------------------------------------------------------------------------
(* compute_blast_radius.                                                   *)

\* The largest centrality; 1 if all are 0.
MaxCentrality(bc) == LET m == Max({bc[a] : a \in Assets}) IN IF m > 0 THEN m ELSE CentralityUnit

\* Mutant: an incident spreads downwards only.
NeighborsBelow(a) == direct_children(a)

Neighbors(a) == direct_children(a) \cup direct_parents(a)

Power(base) == LET p[n \in Nat] == IF n = 0 THEN 1 ELSE base * p[n - 1] IN p

\* A score times Scale; the severity is in hundredths.
Unrounded(a, depth) ==
    request.severity * (Power(7)[depth - 1] * Power(10)[request.max_depth - depth])
    * (7 * work.max_bc + 3 * work.bc[a])
Scale == work.max_bc * Power(10)[request.max_depth]

\* A score of 0 to 100 percent, as it is sorted by, compared and stored.
Impact(a, depth) == Rounded(ScoreUnit * Unrounded(a, depth), Scale)

Source == [asset |-> request.source, depth |-> 0, path |-> <<request.source>>]

\* networkx keeps neighbours in an order of its own.
Visit ==
    /\ request.kind = "blast" /\ answer = None /\ work.queue # <<>>
    /\ LET at == Head(work.queue)
           nd == at.depth + 1
           near == IF at.depth >= request.max_depth THEN {}
                   ELSE {c \in Neighbors(at.asset) :
                           c \notin DOMAIN work.visited \/ work.visited[c] > nd}
       IN \E new \in SetToSeqs(near) :
             LET found == [i \in DOMAIN new |->
                             [asset |-> new[i], depth |-> nd, path |-> Append(at.path, new[i])]]
             IN work' = [queue |-> Tail(work.queue) \o found,
                         visited |-> [c \in DOMAIN work.visited \cup near |->
                                        IF c \in near THEN nd ELSE work.visited[c]],
                         by_depth |-> [work.by_depth EXCEPT ![nd] = @ + Len(new)],
                         impacted |-> work.impacted \o found,
                         bc |-> work.bc, max_bc |-> work.max_bc]
    /\ UNCHANGED <<request, answer, storeVars>>

\* The first entry of a list from the n-th on whose database id the graph knows,
\* or the end; the others are skipped.
FirstKnown(list, n) ==
    Min({k \in n..Len(list) : list[k].asset \in ids} \cup {Len(list) + 1})

\* The answer is sorted by score.  persist_blast_radius looks the first ids up
\* before the request first awaits anything.
Answer ==
    /\ request.kind = "blast" /\ storing.state = "computing" /\ work.queue = <<>>
    /\ LET score == [i \in DOMAIN work.impacted |->
                       Impact(work.impacted[i].asset, work.impacted[i].depth)]
           found == DOMAIN score
           order == InOrder(found,
                       {p \in found \X found :
                           \/ score[p[1]] > score[p[2]]
                           \/ score[p[1]] = score[p[2]] /\ p[1] < p[2]})
           list == [n \in DOMAIN order |-> work.impacted[order[n]]]
       IN /\ answer' = [impacted |-> list, by_depth |-> work.by_depth,
                        total_impact |-> MapThenSumSet(LAMBDA i : score[i], found),
                        critical_assets |-> {work.impacted[i].asset :
                                               i \in {j \in found : score[j] >= 50 * ScoreUnit}}]
          /\ storing' = IF request.persist
                        THEN [state |-> "open", at |-> FirstKnown(list, 1), flushed |-> {}]
                        ELSE [storing EXCEPT !.state = "answered"]
    /\ UNCHANGED <<request, work, rows, ids, reloading, reloads>>

-----------------------------------------------------------------------------
(* persist_blast_radius: one awaited INSERT after the other, then a COMMIT. *)
(* An entry stands for its row.                                            *)

storesAnswer == storing.state = "open"

\* Mutant: every row is committed at once.
StoreRowCommits ==
    /\ storesAnswer /\ storing.at \in DOMAIN answer.impacted
    /\ LET row == answer.impacted[storing.at]
       IN /\ storing' = [storing EXCEPT !.flushed = @ \cup {row},
                                        !.at = FirstKnown(answer.impacted, storing.at + 1)]
          /\ rows' = rows \cup {row}
    /\ UNCHANGED <<request, work, answer, ids, reloading, reloads>>

\* The INSERT is done; the next ids are looked up at once.
StoreRow ==
    /\ storesAnswer /\ storing.at \in DOMAIN answer.impacted
    /\ storing' = [storing EXCEPT !.flushed = @ \cup {answer.impacted[storing.at]},
                                  !.at = FirstKnown(answer.impacted, storing.at + 1)]
    /\ UNCHANGED <<request, work, answer, rows, ids, reloading, reloads>>

Commit ==
    /\ storesAnswer /\ storing.at \notin DOMAIN answer.impacted
    /\ storing' = [storing EXCEPT !.state = "committed"]
    /\ rows' = storing.flushed
    /\ UNCHANGED <<request, work, answer, ids, reloading, reloads>>

\* A statement raises, or the process ends.
RollBack ==
    /\ storesAnswer
    /\ storing' = [storing EXCEPT !.state = "rolled back"]
    /\ UNCHANGED <<request, work, answer, rows, ids, reloading, reloads>>

\* reload_from_db forgets the ids, awaits the assets and knows them again, or
\* their query raises.  Only while the answer is stored can it matter.
ClearIds ==
    /\ storesAnswer /\ reloads < MaxReloads
    /\ ids' = {}
    /\ reloading' = reloading + 1 /\ reloads' = reloads + 1
    /\ UNCHANGED <<request, work, answer, rows, storing>>

FillIds ==
    /\ storesAnswer /\ reloading > 0
    /\ \E loaded \in {ids, Assets} : ids' = loaded
    /\ reloading' = reloading - 1
    /\ UNCHANGED <<request, work, answer, rows, storing, reloads>>

-----------------------------------------------------------------------------
(* Filling gaps with what was last known.                                  *)

\* Mutant: a gap is not filled.
Gaps(n, known, first) == [i \in 1..n |-> IF i \in DOMAIN known THEN known[i] ELSE first]

\* known is a function from some of the frames 1..n; what is shown before the
\* first of them is first.
CarryForward(n, known, first) ==
    LET shown[i \in 0..n] == IF i = 0 THEN first
                             ELSE IF i \in DOMAIN known THEN known[i] ELSE shown[i - 1]
    IN [i \in 1..n |-> shown[i]]

MinuteOf(t) == t \div Minute

-----------------------------------------------------------------------------
(* get_timeline.  A row is [kind, t, severity, type]: telemetry, a detection, *)
(* an indicator by when it was last seen, a verdict with its detection's      *)
(* severity.  A score is [asset, type, t, score].                             *)

Cutoff == request.now - Minute * request.window
Minutes == MinuteOf(Cutoff) .. MinuteOf(request.now)

\* None is no filter.
Passes(filter, value) == filter = None \/ filter = value

Wanted(r, kind) ==
    /\ r.kind = kind /\ r.t >= Cutoff
    /\ kind \in {"detection", "triage"} => Passes(request.severity, r.severity)
    /\ kind # "ioc" => Passes(request.asset_type, r.type)

\* Mutant: the minute of the cut-off is counted whole.
CountedWhole(kind, minute) ==
    Cardinality({r \in request.rows : r.kind = kind /\ MinuteOf(r.t) = minute})

Counted(kind, minute) ==
    Cardinality({r \in request.rows : Wanted(r, kind) /\ MinuteOf(r.t) = minute})

Scored == {r.asset : r \in {x \in request.scores : Passes(request.asset_type, x.type)}}
LatestScore(a) ==
    CHOOSE r \in request.scores :
        r.asset = a /\ \A o \in request.scores : o.asset = a => o.t <= r.t

\* The assets whose latest scores are the highest; ties are the database's.
top_assets ==
    {S \in SUBSET Scored :
        /\ Cardinality(S) = Min({Top, Cardinality(Scored)})
        /\ \A a \in S, b \in Scored \ S : LatestScore(a).score >= LatestScore(b).score}

\* A score is in hundredths.
Mean(of) == Rounded(MapThenSumSet(LAMBDA r : r.score, of), Cardinality(of))

Average(a, minute) ==
    LET of == {r \in request.scores : r.asset = a /\ r.t >= Cutoff /\ MinuteOf(r.t) = minute}
    IN IF of = {} THEN 0 ELSE Mean(of)

\* A minute without a score has 0, and so has one whose average is 0.
Series(a) ==
    LET at(i) == Average(a, MinuteOf(Cutoff) + i - 1)
        n == Cardinality(Minutes)
    IN CarryForward(n, [i \in {j \in 1..n : at(j) > 0} |-> at(i)], 0)

RowKinds == {"telemetry", "detection", "ioc", "triage"}

Timeline ==
    /\ request.kind = "timeline" /\ answer = None
    /\ \E top \in top_assets :
          answer' = [counts |-> [kind \in RowKinds |->
                                   [minute \in Minutes |-> Counted(kind, minute)]],
                     series |-> [a \in top |-> Series(a)]]
    /\ UNCHANGED <<request, work, storeVars>>

-----------------------------------------------------------------------------
(* playback.                                                               *)

\* A report is [truck, t, inside]; those outside the country are dropped, and
\* a truck's are kept by its times.
Reports == {r \in request.reports : r.inside /\ r.t >= request.since}
Times == {r.t : r \in Reports}
Trucks == {r.truck : r \in Reports}
OfTruck(truck) == {r.t : r \in {x \in Reports : x.truck = truck}}

Larger(a, b) == Max({a, b})
step_sec ==
    LET span == Larger(1, Max(Times) - Min(Times))
    IN Larger(2, Min({request.interval, Larger(2, span \div TargetFrames)}))

Bucket(t) == t \div step_sec
Keys == {Bucket(t) : t \in Times}
sorted_keys == InOrder(Keys, {p \in Keys \X Keys : p[1] < p[2]})

\* Mutant: a bucket keeps the first report.
FirstOfBucket(truck, k) == Min({t \in OfTruck(truck) : Bucket(t) = k})

\* Each report overwrites its bucket.
LastOfBucket(truck, k) == Max({t \in OfTruck(truck) : Bucket(t) = k})

\* The report's time stands for its position.
Aligned(truck) ==
    LET mine == {Bucket(t) : t \in OfTruck(truck)}
        known == [i \in {j \in DOMAIN sorted_keys : sorted_keys[j] \in mine} |->
                    LastOfBucket(truck, sorted_keys[i])]
    IN CarryForward(Len(sorted_keys), known, Min(OfTruck(truck)))

\* A frame's time is that of the last truck, by first report, with one in it;
\* which of two trucks with the same first is the database's choice.
FrameTime(k) ==
    LET inIt == {truck \in Trucks : \E t \in OfTruck(truck) : Bucket(t) = k}
        last == CHOOSE truck \in inIt : \A o \in inIt : Min(OfTruck(o)) <= Min(OfTruck(truck))
    IN LastOfBucket(last, k)

\* What happened: rows [kind, asset, t, score], of an event, a detection or a
\* risk score, whose asset the graph may not know.  Those of one time and kind
\* are numbered as the database returns them.
Recent(kind) == {i \in DOMAIN request.log : request.log[i].kind = kind /\ request.log[i].t >= request.since}
High == {i \in Recent("risk") : request.log[i].score >= 50}

Earlier(i, j) ==
    \/ request.log[i].t < request.log[j].t
    \/ request.log[i].t = request.log[j].t /\ i < j

SameMinute(i, j) ==
    /\ request.log[i].asset = request.log[j].asset
    /\ MinuteOf(request.log[i].t) = MinuteOf(request.log[j].t)

\* The oldest high scores.
ReadScores ==
    LET high == InOrder(High, {p \in High \X High : Earlier(p[1], p[2])})
    IN {high[n] : n \in 1..Min({RiskLimit, Cardinality(High)})}

\* Mutant: what was seen in a minute is forgotten.
JumpsAgain == {i \in ReadScores : request.log[i].asset \in Assets}

\* The first of an asset in a minute counts.
Jumps ==
    {i \in ReadScores :
        /\ request.log[i].asset \in Assets
        /\ \A j \in ReadScores : Earlier(j, i) => ~SameMinute(j, i)}

\* The truck right above an asset.
parent_truck(a) ==
    IF a \in Assets /\ parent[a] \in request.trucks THEN parent[a] ELSE None

Rank == [event |-> 1, detection |-> 2, risk |-> 3]

\* The order of a stable sort by time: events were appended first.
ShownBefore(i, j) ==
    LET x == request.log[i]
        y == request.log[j]
    IN \/ x.t < y.t
       \/ x.t = y.t /\ Rank[x.kind] < Rank[y.kind]
       \/ x.t = y.t /\ x.kind = y.kind /\ i < j

Happenings ==
    LET shown == Recent("event") \cup Recent("detection") \cup Jumps
        ordered == InOrder(shown, {p \in shown \X shown : ShownBefore(p[1], p[2])})
    IN [n \in DOMAIN ordered |->
          [id |-> ordered[n], truck |-> parent_truck(request.log[ordered[n]].asset)]]

Playback ==
    /\ request.kind = "playback" /\ answer = None
    /\ answer' = [timestamps |-> IF Reports = {} THEN <<>>
                                 ELSE [i \in DOMAIN sorted_keys |-> FrameTime(sorted_keys[i])],
                  trucks |-> [truck \in Trucks |-> Aligned(truck)],
                  events |-> Happenings]
    /\ UNCHANGED <<request, work, storeVars>>

-----------------------------------------------------------------------------

Init ==
    /\ request \in Requests
    /\ answer = None /\ rows = {} /\ reloading = 0 /\ reloads = 0
    /\ storing = [state |-> "computing", at |-> 0, flushed |-> {}]
    /\ ids = IF request.kind = "blast" THEN Assets ELSE {}
    /\ IF request.kind = "blast"
       THEN \E bc \in {betweenness_centrality} :
              work = [queue |-> <<Source>>, visited |-> [a \in {request.source} |-> 0],
                      impacted |-> <<>>,
                      by_depth |-> [d \in 0..(request.max_depth + 1) |-> IF d = 0 THEN 1 ELSE 0],
                      bc |-> bc, max_bc |-> MaxCentrality(bc)]
       ELSE work = None

Next ==
    \/ Visit \/ Answer \/ Timeline \/ Playback
    \/ StoreRow \/ Commit \/ RollBack \/ ClearIds \/ FillIds

Spec == Init /\ [][Next]_vars

-----------------------------------------------------------------------------

\* Reference: the assets that a path of at most k edges joins to the source,
\* whichever way the edges point.
Linked(a, b) == parent[a] = b \/ parent[b] = a
Reached(n, b) ==
    \E p \in [0..n -> Assets] :
        /\ p[0] = request.source /\ p[n] = b
        /\ \A i \in 0..(n - 1) : Linked(p[i], p[i + 1])
Within(k) == {b \in Assets : \E n \in 0..k : Reached(n, b)}
Ring(d) == {b \in Within(d) : \A n \in 0..(d - 1) : b \notin Within(n)}

\* The blast radius of an asset is every other asset within max_depth edges,
\* each once, at its distance, along a path of the forest; the counts by depth
\* are theirs, and an asset that is neither nearer nor more central than another
\* is not hit harder (compute_blast_radius).
SpreadExact ==
    request.kind = "blast" /\ answer # None =>
        LET hit == Range(answer.impacted)
        IN /\ {i.asset : i \in hit} = Within(request.max_depth) \ {request.source}
           /\ \A k, l \in DOMAIN answer.impacted :
                 answer.impacted[k].asset = answer.impacted[l].asset => k = l
           /\ \A i \in hit :
                 /\ i.asset \in Ring(i.depth)
                 /\ Len(i.path) = i.depth + 1 /\ i.path[1] = request.source
                 /\ i.path[Len(i.path)] = i.asset
                 /\ \A k \in 1..i.depth : Linked(i.path[k], i.path[k + 1])
           /\ \A d \in 0..request.max_depth : answer.by_depth[d] = Cardinality(Ring(d))
           /\ \A k, l \in DOMAIN answer.impacted :
                 LET x == answer.impacted[k]
                     y == answer.impacted[l]
                 IN (k < l /\ y.depth <= x.depth /\ work.bc[y.asset] >= work.bc[x.asset])
                    => Impact(x.asset, x.depth) = Impact(y.asset, y.depth)

\* The entries of the answer up to the n-th, the hardest hit.
First(n) == {answer.impacted[k] : k \in 1..n}

\* The rows that others see are none until all are committed, and then an
\* unbroken first part of the sorted answer, its hardest hit asset included:
\* a reload of the graph costs all that come after it, and without one none is
\* missing (persist_blast_radius).
RowsAreHardestHit ==
    request.kind = "blast" =>
        /\ storing.state # "committed" => rows = {}
        /\ storing.state = "committed" =>
              LET n == Len(answer.impacted)
              IN \E m \in 0..n :
                    rows = First(m) /\ (m = 0 => n = 0) /\ (reloads = 0 => m = n)

\* A blast radius is exact, and as much of it is stored as the graph allows
\* (compute_blast_radius, persist_blast_radius).
BlastRadiusExact == SpreadExact /\ RowsAreHardestHit

\* The frames of playback come in order, one for every bucket in which any
\* truck reported, and show each truck at its last report until then, or at
\* its first one before that (playback).
FramesShowLatest ==
    request.kind = "playback" /\ answer # None =>
        /\ \A t \in Times : \E f \in Range(answer.timestamps) : Bucket(f) = Bucket(t)
        /\ \A i, j \in DOMAIN answer.timestamps :
              i < j => Bucket(answer.timestamps[i]) < Bucket(answer.timestamps[j])
        /\ \A truck \in Trucks, i \in DOMAIN answer.timestamps :
              LET all == OfTruck(truck)
                  until == {t \in all : Bucket(t) <= Bucket(answer.timestamps[i])}
              IN answer.trucks[truck][i] = IF until = {} THEN Min(all) ELSE Max(until)

\* The events of playback come in order, none lost or doubled; of the high
\* scores of an asset one of each minute is among them, the first, unless
\* RiskLimit others were not later or the graph does not know the asset
\* (playback).
EventsComplete ==
    request.kind = "playback" /\ answer # None =>
        LET shown == {e.id : e \in Range(answer.events)}
            log == request.log
        IN /\ \A i, j \in DOMAIN answer.events :
                 /\ answer.events[i].id = answer.events[j].id => i = j
                 /\ i < j => log[answer.events[i].id].t <= log[answer.events[j].id].t
           /\ Recent("event") \cup Recent("detection") \subseteq shown
           /\ shown \ High \subseteq Recent("event") \cup Recent("detection")
           /\ \A i, j \in shown \cap High : SameMinute(i, j) => i = j
           /\ \A r \in High :
                 \/ \E e \in shown \cap High : SameMinute(e, r) /\ log[e].t <= log[r].t
                 \/ log[r].asset \notin Assets
                 \/ Cardinality({o \in High \ {r} : log[o].t <= log[r].t}) >= RiskLimit

\* A minute of the timeline shows an asset's last average that was not zero,
\* and no asset is left out for one with a lower score (get_timeline).
SeriesShowLatest ==
    request.kind = "timeline" /\ answer # None =>
        /\ \A a \in DOMAIN answer.series : \A i \in DOMAIN answer.series[a] :
              LET now == MinuteOf(Cutoff) + i - 1
                  until == {m \in MinuteOf(Cutoff)..now : Average(a, m) > 0}
              IN answer.series[a][i] = IF until = {} THEN 0 ELSE Average(a, Max(until))
        /\ \A a \in Scored \ DOMAIN answer.series, b \in DOMAIN answer.series :
              LatestScore(a).score <= LatestScore(b).score

\* What is counted under a kind until the n-th minute.
CountedUntil(kind, n) ==
    LET sum[i \in 0..n] ==
          IF i = 0 THEN 0 ELSE sum[i - 1] + answer.counts[kind][MinuteOf(Cutoff) + i - 1]
    IN sum[n]

\* Every row since the cut-off that the filters let through counts in one
\* minute of the timeline, although the cut-off lies within a minute
\* (get_timeline).
RowsCountOnce ==
    request.kind = "timeline" /\ answer # None =>
        \A kind \in RowKinds :
            CountedUntil(kind, Cardinality(Minutes)) =
                Cardinality({r \in request.rows :
                    Wanted(r, kind) /\ MinuteOf(r.t) <= MinuteOf(request.now)})

\* What the dashboard shows of the past is what happened (playback,
\* get_timeline).
DashboardExact == FramesShowLatest /\ EventsComplete /\ SeriesShowLatest /\ RowsCountOnce
=============================================================================
