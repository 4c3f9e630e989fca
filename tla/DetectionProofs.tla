--------------------------- MODULE DetectionProofs ---------------------------
(***************************************************************************)
(* Proofs about Detection for every set of calls, payloads and assets:     *)
(* what was answered is stored, what was detected is triaged, and evidence *)
(* that was there when an ingest began reaches its incident, although the  *)
(* rows of a call lie in its open transaction until the last commit.       *)
(*                                                                         *)
(* The invariant therefore says of a draft what the properties say of the  *)
(* committed rows.                                                         *)
(***************************************************************************)
EXTENDS Detection, TLAPS

Stages == {"new", "stored", "correlated", "inserted", "detected", "scored",
           "answered", "refused", "failed"}

\* The stages in which an ingest has its telemetry committed.
Placed == {"stored", "correlated", "detected", "scored", "answered"}

Firmware == {p.firmware : p \in Telemetry} \cup {None}
Call == [asset : Assets, load : Telemetry \cup EventLoads]
Knowledge == [firmware : Firmware, events : SUBSET Events]

IsDraft(rows) ==
    rows = [incidents |-> rows.incidents, detections |-> rows.detections,
            verdicts |-> rows.verdicts, counted |-> rows.counted, doomed |-> rows.doomed]

\* Every table and every call has its shape.
ShapeInv ==
    /\ stored \subseteq Ingests /\ events \subseteq Events
    /\ firmware \in [Assets -> Firmware]
    /\ risk = [a \in Assets |-> risk[a]]
    /\ story \in {"none", "running", "ended"}
    /\ stage \in [Calls -> Stages]
    /\ call \in [Calls -> Call \cup {None}]
    /\ known \in [Calls -> Knowledge \cup {None}]
    /\ draft = [c \in Calls |-> draft[c]]
    /\ \A c \in Calls : IsDraft(draft[c])

-----------------------------------------------------------------------------
(* Where a call is, and what it has committed by then.                     *)

Progress(c) ==
    /\ stage[c] = "new" => draft[c] = NoRows
    /\ stage[c] # "new" => call[c] \in Call /\ known[c] \in Knowledge /\ known[c].events \subseteq events
    /\ c \in stored => stage[c] # "new" /\ InRange(call[c].load, call[c].load.asset_type)
    /\ c \in Ingests /\ stage[c] \in Placed => c \in stored
    /\ c \in events => stage[c] = "answered"
    /\ c \in Events => stage[c] \notin {"stored", "correlated", "scored"}
    /\ c \in Ingests => stage[c] # "inserted"
    /\ c \in Events /\ stage[c] = "answered" => (c \in events <=> ~draft[c].doomed)

CallInv == ShapeInv /\ \A c \in Calls : Progress(c)

-----------------------------------------------------------------------------
(* Incidents.                                                              *)

IncidentSound(n) ==
    /\ n.telemetry \subseteq stored /\ n.events \subseteq events
    /\ \A c \in n.telemetry \cup n.events : call[c].asset = n.asset

\* The rows of i's incidents that a transaction or the database holds.
Reaches(i, rows) ==
    TypeOf[call[i].asset] = "VEHICLE_GATEWAY" =>
        \A e \in known[i].events :
            /\ call[e].asset = call[i].asset
            /\ call[e].load.event_type \in {"DEVICE_ANOMALY", "NETWORK_ANOMALY"}
            => \E n \in rows : n.by = i /\ e \in n.events

IncidentInv ==
    /\ \A n \in incidents : IncidentSound(n)
    /\ \A c \in Calls : \A n \in draft[c].incidents : IncidentSound(n)
    /\ \A i \in Ingests : stage[i] \in {"correlated", "detected", "scored"} =>
          Reaches(i, draft[i].incidents)
    /\ \A i \in Ingests : stage[i] = "answered" => Reaches(i, incidents)

-----------------------------------------------------------------------------
(* Detections, verdicts and risk.                                          *)

\* A computed verdict is what triage would compute now, or a story has ended.
Fair(v) ==
    v.by # "analyst" =>
        \/ v.verdict = score_detection(v.detection)
        \/ v.detection.during /\ story = "ended"

\* What call c found is its own, and each finding has a verdict of its own.
DraftSound(c) ==
    /\ \A d \in draft[c].detections : d.by = c /\ d.asset = call[c].asset
    /\ \A d \in draft[c].detections : \E v \in draft[c].verdicts : v.detection = d
    /\ \A v \in draft[c].verdicts :
          v.detection \in draft[c].detections /\ v.verdict \in {"TP", "FP"} /\ Fair(v)
    /\ stage[c] = "scored" =>
          draft[c].counted \subseteq Of(call[c].asset) \cup draft[c].detections

VerdictInv ==
    /\ \A c \in Calls : DraftSound(c)
    /\ \A d \in detections : d.by \in Calls \cup {None} /\ d.asset \in Assets
    /\ \A d \in detections \ Backlog : Answered(d.by) /\ d.by \in stored \cup events
    /\ Pending \subseteq Backlog
    /\ \A v \in verdicts : v.detection \in detections /\ v.verdict \in {"TP", "FP"} /\ Fair(v)
    /\ \A a \in Assets : risk[a] \subseteq Of(a)
    /\ sweep # None => sweep.asset \in Assets /\ sweep.counted \subseteq Of(sweep.asset)

-----------------------------------------------------------------------------
(* What a step leaves alone.                                               *)

\* Rows stay, and so does what a call has come with and was answered.
LEMMA StepKeeps ==
    ASSUME ShapeInv, [Next]_vars
    PROVE  /\ stored \subseteq stored' /\ events \subseteq events'
           /\ incidents \subseteq incidents' /\ detections \subseteq detections'
           /\ verdicts \subseteq verdicts'
           /\ \A c \in Calls : stage[c] # "new" => call'[c] = call[c] /\ known'[c] = known[c]
           /\ \A c \in Calls : stage[c] = "answered" => stage'[c] = "answered"
<1>1. /\ stored \subseteq stored' /\ events \subseteq events'
      /\ incidents \subseteq incidents' /\ detections \subseteq detections'
      /\ verdicts \subseteq verdicts'
  BY DEF Next, vars, db, Store, Correlate, InsertEvent, Detect, Score, Finish, FinishEvent, Fail,
     SweepRead, SweepWrite, TriageSweep, TriageRun, StoryEnds
<1>2. \A c \in Calls : stage[c] # "new" => call'[c] = call[c] /\ known'[c] = known[c]
  <2>1. ASSUME NEW c \in Calls, NEW p, NEW s, Begin(c, p, s), NEW q \in Calls, stage[q] # "new"
        PROVE  call'[q] = call[q] /\ known'[q] = known[q]
    BY <2>1 DEF Begin, ShapeInv
  <2>. QED
    BY <2>1 DEF Next, vars, db, Store, Correlate, InsertEvent, Detect, Score, Finish, FinishEvent,
       Fail, SweepRead, SweepWrite, TriageSweep, TriageRun, StoryEnds, Calls
<1>3. \A c \in Calls : stage[c] = "answered" => stage'[c] = "answered"
  <2>1. ASSUME NEW c \in Calls, NEW s, Goto(c, s), stage[c] # "answered" \/ s = "answered",
               NEW q \in Calls, stage[q] = "answered"
        PROVE  stage'[q] = "answered"
    BY <2>1 DEF Goto, ShapeInv
  <2>. QED
    BY <2>1 DEF Next, vars, db, Store, Correlate, InsertEvent, Detect, Score, Finish, FinishEvent,
       Fail, SweepRead, SweepWrite, TriageSweep, TriageRun, StoryEnds, Begin, Calls
<1>. QED
  BY <1>1, <1>2, <1>3

\* A step of one call changes no other's draft.
LEMMA DraftMoves ==
    ASSUME ShapeInv, NEW c \in Calls, NEW rows, draft' = [draft EXCEPT ![c] = rows]
    PROVE  /\ draft' = [q \in Calls |-> draft'[q]]
           /\ draft'[c] = rows
           /\ \A q \in Calls : q # c => draft'[q] = draft[q]
BY DEF ShapeInv

-----------------------------------------------------------------------------
(* CallInv is inductive.                                                   *)

LEMMA CallInit == Init => CallInv
<1> SUFFICES ASSUME Init
             PROVE  CallInv
  OBVIOUS
<1>1. ShapeInv
  BY DEF Init, ShapeInv, Stages, IsDraft, NoRows, Firmware
<1>2. \A c \in Calls : Progress(c)
  BY DEF Init, Progress, Placed
<1>. QED
  BY <1>1, <1>2 DEF CallInv

\* The beginning of a call: what it knows is committed.
LEMMA BeginTypes ==
    ASSUME ShapeInv, NEW c \in Calls, NEW p \in Telemetry \cup EventLoads, NEW s \in Stages,
           Begin(c, p, s)
    PROVE  /\ stage' = [stage EXCEPT ![c] = s] /\ stage' \in [Calls -> Stages]
           /\ call' \in [Calls -> Call \cup {None}]
           /\ known' \in [Calls -> Knowledge \cup {None}]
           /\ call'[c] = [asset |-> p.asset_id, load |-> p] /\ call'[c] \in Call
           /\ known'[c] \in Knowledge /\ known'[c].events \subseteq events
           /\ \A q \in Calls : q # c => /\ stage'[q] = stage[q] /\ call'[q] = call[q]
                                        /\ known'[q] = known[q]
<1> DEFINE k == [firmware |-> firmware[p.asset_id], events |-> {e \in events : stage[e] = "answered"}]
<1>1. p.asset_id \in Assets /\ [asset |-> p.asset_id, load |-> p] \in Call
  BY PayloadsAssumption DEF Call
<1>2. k \in Knowledge /\ k.events \subseteq events
  BY <1>1 DEF Knowledge, ShapeInv
<1>3. known' = [known EXCEPT ![c] = k]
  BY DEF Begin
<1>. HIDE DEF k
<1>. QED
  BY <1>1, <1>2, <1>3 DEF Begin, Goto, ShapeInv

LEMMA CallStore ==
    ASSUME CallInv, NEW i \in Ingests, NEW p \in Telemetry, Store(i, p)
    PROVE  CallInv'
<1>1. i \in Calls /\ i \notin Events /\ ShapeInv
  BY CallsAssumption DEF Calls, CallInv
<1>2. UNCHANGED <<events, risk, story, draft>>
  BY DEF Store
<1>3. CASE ~validate(p)
  <2>1. Begin(i, p, "refused") /\ UNCHANGED <<stored, firmware>>
    BY <1>3 DEF Store
  <2>2. /\ stage' = [stage EXCEPT ![i] = "refused"] /\ stage' \in [Calls -> Stages]
        /\ call' \in [Calls -> Call \cup {None}]
        /\ known' \in [Calls -> Knowledge \cup {None}]
        /\ call'[i] \in Call
        /\ known'[i] \in Knowledge /\ known'[i].events \subseteq events
        /\ \A q \in Calls : q # i => /\ stage'[q] = stage[q] /\ call'[q] = call[q]
                                     /\ known'[q] = known[q]
    BY <1>1, <2>1, BeginTypes DEF Stages
  <2>3. stage[i] = "new"
    BY <2>1 DEF Begin
  <2>4. ShapeInv'
    BY <1>1, <1>2, <2>1, <2>2 DEF ShapeInv
  <2>5. \A c \in Calls : Progress(c)'
    BY <1>1, <1>2, <2>1, <2>2, <2>3 DEF CallInv, Progress, Placed, ShapeInv
  <2>. QED
    BY <2>4, <2>5 DEF CallInv
<1>4. CASE validate(p)
  <2>1. /\ Begin(i, p, "stored") /\ stored' = stored \cup {i}
        /\ firmware' = IF p.firmware = None THEN firmware
                       ELSE [firmware EXCEPT ![p.asset_id] = p.firmware]
    BY <1>4 DEF Store
  <2>2. /\ stage' = [stage EXCEPT ![i] = "stored"] /\ stage' \in [Calls -> Stages]
        /\ call' \in [Calls -> Call \cup {None}]
        /\ known' \in [Calls -> Knowledge \cup {None}]
        /\ call'[i] = [asset |-> p.asset_id, load |-> p] /\ call'[i] \in Call
        /\ known'[i] \in Knowledge /\ known'[i].events \subseteq events
        /\ \A q \in Calls : q # i => /\ stage'[q] = stage[q] /\ call'[q] = call[q]
                                     /\ known'[q] = known[q]
    BY <1>1, <2>1, BeginTypes DEF Stages
  <2>3. stage[i] = "new" /\ InRange(call'[i].load, call'[i].load.asset_type)
    BY <1>4, <2>1, <2>2 DEF Begin, validate
  <2>4. firmware' \in [Assets -> Firmware]
    BY <1>1, <2>1 DEF ShapeInv, Firmware
  <2>5. ShapeInv'
    BY <1>1, <1>2, <2>1, <2>2, <2>4 DEF ShapeInv
  <2>6. ASSUME NEW c \in Calls
        PROVE  Progress(c)'
    <3>1. CASE c = i
      BY <1>1, <1>2, <2>1, <2>2, <2>3, <3>1 DEF CallInv, Progress, ShapeInv
    <3>2. CASE c # i
      BY <1>2, <2>1, <2>2, <3>2 DEF CallInv, Progress
    <3>. QED
      BY <3>1, <3>2
  <2>. QED
    BY <2>5, <2>6 DEF CallInv
<1>. QED
  BY <1>3, <1>4

LEMMA CallInsert ==
    ASSUME CallInv, NEW e \in Events, NEW p \in EventLoads, InsertEvent(e, p)
    PROVE  CallInv'
<1>1. e \in Calls /\ e \notin Ingests /\ ShapeInv
  BY CallsAssumption DEF Calls, CallInv
<1>2. UNCHANGED <<stored, events, firmware, risk, story, draft>> /\ Begin(e, p, "inserted")
  BY DEF InsertEvent, db
<1>3. /\ stage' = [stage EXCEPT ![e] = "inserted"] /\ stage' \in [Calls -> Stages]
      /\ call' \in [Calls -> Call \cup {None}]
      /\ known' \in [Calls -> Knowledge \cup {None}]
      /\ call'[e] \in Call
      /\ known'[e] \in Knowledge /\ known'[e].events \subseteq events
      /\ \A q \in Calls : q # e => /\ stage'[q] = stage[q] /\ call'[q] = call[q]
                                   /\ known'[q] = known[q]
  BY <1>1, <1>2, BeginTypes DEF Stages
<1>4. stage[e] = "new"
  BY <1>2 DEF Begin
<1>5. ShapeInv'
  BY <1>1, <1>2, <1>3 DEF ShapeInv
<1>6. \A c \in Calls : Progress(c)'
  BY <1>1, <1>2, <1>3, <1>4 DEF CallInv, Progress, Placed, ShapeInv
<1>. QED
  BY <1>5, <1>6 DEF CallInv

\* The rows of a draft that each step of a call changes.
LEMMA CorrelateDraft ==
    ASSUME ShapeInv, NEW i \in Ingests, Correlate(i)
    PROVE  /\ draft' = [c \in Calls |-> draft'[c]] /\ IsDraft(draft'[i])
           /\ \A q \in Calls : q # i => draft'[q] = draft[q]
           /\ draft'[i].incidents = correlate(i)
           /\ draft'[i].detections = draft[i].detections
           /\ draft'[i].verdicts = draft[i].verdicts
           /\ draft'[i].doomed = draft[i].doomed
<1>1. i \in Calls /\ IsDraft(draft[i])
  BY DEF Calls, ShapeInv
<1>2. draft' = [draft EXCEPT ![i] = [@ EXCEPT !.incidents = correlate(i)]]
  BY DEF Correlate
<1>3. /\ draft' = [c \in Calls |-> draft'[c]]
      /\ draft'[i] = [draft[i] EXCEPT !.incidents = correlate(i)]
      /\ \A q \in Calls : q # i => draft'[q] = draft[q]
  BY <1>1, <1>2, DraftMoves
<1>. QED
  BY <1>1, <1>3 DEF IsDraft

\* The rows run_detection makes of call c.
Found(c) ==
    Detected(c, IF c \in Ingests THEN all_rules(call[c].asset, call[c].load, firmware[call[c].asset])
                ELSE rule_auth_anomaly(call[c].load))

LEMMA DetectDraft ==
    ASSUME ShapeInv, NEW c \in Calls, Detect(c)
    PROVE  /\ draft' = [q \in Calls |-> draft'[q]] /\ IsDraft(draft'[c])
           /\ \A q \in Calls : q # c => draft'[q] = draft[q]
           /\ draft'[c].incidents = draft[c].incidents
           /\ draft'[c].detections = Found(c)
           /\ draft'[c].verdicts = {Judged(d, c) : d \in Found(c)}
           /\ draft'[c].doomed \in BOOLEAN
<1> DEFINE verdictRows == {Judged(d, c) : d \in Found(c)}
<1>1. PICK doomed \in BOOLEAN :
        draft' = [draft EXCEPT ![c] =
                    [incidents |-> @.incidents, detections |-> Found(c),
                     verdicts |-> verdictRows, counted |-> {}, doomed |-> doomed]]
  BY DEF Detect, Found
<1>. HIDE DEF verdictRows
<1> DEFINE rows == [incidents |-> draft[c].incidents, detections |-> Found(c),
                    verdicts |-> verdictRows, counted |-> {}, doomed |-> doomed]
<1>2. draft' = [draft EXCEPT ![c] = rows]
  BY <1>1, Zenon
<1>3. IsDraft(rows)
  BY DEF IsDraft
<1>4. rows.incidents = draft[c].incidents /\ rows.detections = Found(c)
      /\ rows.verdicts = verdictRows /\ rows.doomed = doomed
  OBVIOUS
<1>. HIDE DEF rows
<1>5. /\ draft' = [q \in Calls |-> draft'[q]]
      /\ draft'[c] = rows
      /\ \A q \in Calls : q # c => draft'[q] = draft[q]
  BY <1>2, DraftMoves
<1>. QED
  BY <1>3, <1>4, <1>5 DEF verdictRows

LEMMA ScoreDraft ==
    ASSUME ShapeInv, NEW i \in Ingests, Score(i)
    PROVE  /\ draft' = [c \in Calls |-> draft'[c]] /\ IsDraft(draft'[i])
           /\ \A q \in Calls : q # i => draft'[q] = draft[q]
           /\ draft'[i].incidents = draft[i].incidents
           /\ draft'[i].detections = draft[i].detections
           /\ draft'[i].verdicts = draft[i].verdicts
           /\ draft'[i].counted = Of(call[i].asset) \cup draft[i].detections
<1>1. i \in Calls /\ IsDraft(draft[i])
  BY DEF Calls, ShapeInv
<1> DEFINE counted == Of(call[i].asset) \cup draft[i].detections
<1>2. draft' = [draft EXCEPT ![i] = [@ EXCEPT !.counted = counted]]
  BY DEF Score
<1>. HIDE DEF counted
<1>3. /\ draft' = [c \in Calls |-> draft'[c]]
      /\ draft'[i] = [draft[i] EXCEPT !.counted = counted]
      /\ \A q \in Calls : q # i => draft'[q] = draft[q]
  BY <1>1, <1>2, DraftMoves
<1>4. draft'[i].counted = counted
  BY <1>1, <1>3 DEF IsDraft
<1>. QED
  BY <1>1, <1>3, <1>4 DEF IsDraft, counted

LEMMA EmptyDraft ==
    ASSUME ShapeInv, NEW c \in Calls, draft' = [draft EXCEPT ![c] = NoRows]
    PROVE  /\ draft' = [q \in Calls |-> draft'[q]] /\ IsDraft(draft'[c]) /\ draft'[c] = NoRows
           /\ \A q \in Calls : q # c => draft'[q] = draft[q]
<1>1. IsDraft(NoRows)
  BY DEF IsDraft, NoRows
<1>. QED
  BY <1>1, DraftMoves

\* The steps of a call that neither begin it nor store its event.
CallMoves(c) ==
    \/ c \in Ingests /\ (Correlate(c) \/ Score(c) \/ Finish(c))
    \/ Detect(c) \/ Fail(c)

LEMMA CallSteps ==
    ASSUME CallInv, NEW c \in Calls, CallMoves(c)
    PROVE  CallInv'
<1>1. ShapeInv /\ UNCHANGED <<stored, events, firmware, story, call, known>>
  BY DEF CallInv, CallMoves, Correlate, Score, Finish, Detect, Fail, db
<1>2. /\ draft' = [q \in Calls |-> draft'[q]] /\ IsDraft(draft'[c])
      /\ \A q \in Calls : q # c => draft'[q] = draft[q]
  <2>1. CASE c \in Ingests /\ Correlate(c)
    BY <1>1, <2>1, CorrelateDraft
  <2>2. CASE c \in Ingests /\ Score(c)
    BY <1>1, <2>2, ScoreDraft
  <2>3. CASE Detect(c)
    BY <1>1, <2>3, DetectDraft
  <2>4. CASE Finish(c) \/ Fail(c)
    BY <1>1, <2>4, EmptyDraft DEF Finish, Fail
  <2>. QED
    BY <2>1, <2>2, <2>3, <2>4 DEF CallMoves
<1>3. PICK s \in Stages :
        /\ stage' = [stage EXCEPT ![c] = s]
        /\ \/ c \in Ingests /\ stage[c] \in Placed /\ s \in Placed
           \/ c \in Events /\ stage[c] # "new" /\ s = "detected"
           \/ stage[c] # "new" /\ s = "failed"
        /\ stage[c] \notin {"new", "answered"}
  <2>1. CASE c \in Ingests /\ (Correlate(c) \/ Score(c) \/ Finish(c))
    BY <2>1 DEF Correlate, Score, Finish, Goto, Placed, Stages
  <2>2. CASE Detect(c)
    <3>1. stage[c] \in {"correlated", "inserted"} /\ stage' = [stage EXCEPT ![c] = "detected"]
      BY <2>2 DEF Detect, Goto
    <3>2. c \in Ingests => stage[c] = "correlated"
      BY <3>1 DEF CallInv, Progress
    <3>. QED
      BY <3>1, <3>2 DEF Placed, Stages, Calls
  <2>3. CASE Fail(c)
    BY <2>3 DEF Fail, Goto, Stages
  <2>. QED
    BY <2>1, <2>2, <2>3 DEF CallMoves
<1>4. ShapeInv'
  <2>1. stage' \in [Calls -> Stages]
    BY <1>1, <1>3 DEF ShapeInv
  <2>2. \A q \in Calls : IsDraft(draft'[q])
    BY <1>1, <1>2 DEF ShapeInv
  <2>3. risk' = [a \in Assets |-> risk'[a]]
    <3>1. risk = [a \in Assets |-> risk[a]]
      BY <1>1 DEF ShapeInv
    <3>2. risk' = risk \/ risk' = [risk EXCEPT ![call[c].asset] = draft[c].counted]
      BY DEF CallMoves, Correlate, Score, Finish, Detect, Fail, db
    <3>. QED
      BY <3>1, <3>2
  <2>. QED
    BY <1>1, <1>2, <2>1, <2>2, <2>3 DEF ShapeInv
<1>5. ASSUME NEW q \in Calls
      PROVE  Progress(q)'
  <2>1. Progress(q) /\ stage[c] \in Stages
    BY <1>1 DEF CallInv, ShapeInv
  <2>2. CASE q # c
    <3>1. stage'[q] = stage[q] /\ draft'[q] = draft[q]
      BY <1>1, <1>2, <1>3, <2>2 DEF ShapeInv
    <3>. QED
      BY <1>1, <2>1, <3>1 DEF Progress
  <2>3. CASE q = c
    <3>1. stage'[c] = s /\ (c \in Ingests => c \notin Events)
      BY <1>1, <1>3, CallsAssumption DEF ShapeInv
    <3>. QED
      BY <1>1, <1>3, <2>1, <2>3, <3>1 DEF Progress, Placed
  <2>. QED
    BY <2>2, <2>3
<1>. QED
  BY <1>4, <1>5 DEF CallInv

LEMMA CallFinishEvent ==
    ASSUME CallInv, NEW e \in Events, FinishEvent(e)
    PROVE  CallInv'
<1>1. /\ e \in Calls /\ e \notin Ingests /\ ShapeInv
      /\ stage[e] = "detected" /\ stage' = [stage EXCEPT ![e] = "answered"]
      /\ UNCHANGED <<stored, incidents, risk, firmware, story, sweep, call, draft, known>>
      /\ events' = IF draft[e].doomed THEN events ELSE events \cup {e}
  BY CallsAssumption DEF Calls, CallInv, FinishEvent, Goto
<1>2. ShapeInv'
  BY <1>1 DEF ShapeInv, Stages
<1>3. ASSUME NEW q \in Calls
      PROVE  Progress(q)'
  <2>1. Progress(q) /\ stage \in [Calls -> Stages]
    BY <1>1 DEF CallInv, ShapeInv
  <2>2. CASE q # e
    BY <1>1, <2>1, <2>2 DEF Progress
  <2>3. CASE q = e
    <3>1. stage'[e] = "answered" /\ e \notin events
      BY <1>1, <2>1, <2>3 DEF Progress
    <3>. QED
      BY <1>1, <2>1, <2>3, <3>1 DEF Progress
  <2>. QED
    BY <2>2, <2>3
<1>. QED
  BY <1>2, <1>3 DEF CallInv

LEMMA CallOthers ==
    ASSUME CallInv,
           \/ \E a \in Assets : SweepRead(a)
           \/ SweepWrite \/ TriageSweep
           \/ \E d \in detections : TriageRun(d)
           \/ StoryEnds \/ UNCHANGED vars
    PROVE  CallInv'
<1>1. UNCHANGED <<stored, events, firmware, stage, call, known, draft>>
  BY DEF SweepRead, SweepWrite, TriageSweep, TriageRun, StoryEnds, vars, db
<1>2. /\ story' \in {"none", "running", "ended"}
      /\ risk' = [b \in Assets |-> risk'[b]]
  <2>1. story \in {"none", "running", "ended"} /\ risk = [b \in Assets |-> risk[b]]
    BY DEF CallInv, ShapeInv
  <2>2. story' = story \/ story' = "ended"
    BY DEF SweepRead, SweepWrite, TriageSweep, TriageRun, StoryEnds, vars, db
  <2>3. risk' = risk \/ risk' = [risk EXCEPT ![sweep.asset] = sweep.counted]
    BY DEF SweepRead, SweepWrite, TriageSweep, TriageRun, StoryEnds, vars, db
  <2>. QED
    BY <2>1, <2>2, <2>3
<1>3. ShapeInv'
  BY <1>1, <1>2 DEF CallInv, ShapeInv
<1>4. \A q \in Calls : Progress(q)'
  BY <1>1 DEF CallInv, Progress
<1>. QED
  BY <1>3, <1>4 DEF CallInv

LEMMA CallNext == CallInv /\ [Next]_vars => CallInv'
<1> SUFFICES ASSUME CallInv, [Next]_vars
             PROVE  CallInv'
  OBVIOUS
<1>1. ASSUME NEW i \in Ingests, Correlate(i) \/ Score(i) \/ Finish(i)
      PROVE  CallInv'
  BY <1>1, CallSteps DEF CallMoves, Calls
<1>2. ASSUME NEW c \in Calls, Detect(c) \/ Fail(c)
      PROVE  CallInv'
  BY <1>2, CallSteps DEF CallMoves
<1>. QED
  BY <1>1, <1>2, CallStore, CallInsert, CallFinishEvent, CallOthers DEF Next

-----------------------------------------------------------------------------
(* IncidentInv is inductive.                                               *)

\* correlate makes incidents of the committed rows of its asset.
LEMMA CorrelateRows ==
    ASSUME NEW i, NEW n \in correlate(i)
    PROVE  /\ n.by = i /\ n.asset = call[i].asset
           /\ n.telemetry \subseteq recent_telemetry(call[i].asset)
           /\ n.events \subseteq recent_events(call[i].asset)
<1> DEFINE tel == recent_telemetry(call[i].asset)
           evs == recent_events(call[i].asset)
<1>1. CASE n \in cold_chain(i, tel)
  BY <1>1 DEF cold_chain, Incident
<1>2. CASE n \in unauthorized_entry(i, tel, evs)
  BY <1>2 DEF unauthorized_entry, Incident
<1>3. CASE n \in auth_failure_storm(i, tel, evs)
  BY <1>3 DEF auth_failure_storm, Incident
<1>4. CASE n \in gateway_compromise(i, tel, evs)
  BY <1>4 DEF gateway_compromise, Incident
<1>. QED
  BY <1>1, <1>2, <1>3, <1>4 DEF correlate

\* The gateway's events that are there make it an incident.
LEMMA CorrelateReaches ==
    ASSUME CallInv, NEW i \in Ingests, stage[i] # "new"
    PROVE  Reaches(i, correlate(i))
<1> SUFFICES ASSUME TypeOf[call[i].asset] = "VEHICLE_GATEWAY",
                    NEW e \in known[i].events, call[e].asset = call[i].asset,
                    call[e].load.event_type \in {"DEVICE_ANOMALY", "NETWORK_ANOMALY"}
             PROVE  \E n \in correlate(i) : n.by = i /\ e \in n.events
  BY DEF Reaches
<1> DEFINE tel == recent_telemetry(call[i].asset)
           evs == recent_events(call[i].asset)
           dev == {x \in evs : call[x].load.event_type \in {"DEVICE_ANOMALY", "NETWORK_ANOMALY"}}
           n == Incident(i, "R006", LastWord({call[x].load.severity : x \in dev}), tel, dev)
<1>1. i \in Calls /\ e \in events
  BY DEF CallInv, Progress, Calls
<1>2. e \in dev
  BY <1>1 DEF recent_events
<1>3. gateway_compromise(i, tel, evs) = {n}
  BY <1>2 DEF gateway_compromise
<1>4. n.by = i /\ n.events = dev
  BY DEF Incident
<1>. HIDE DEF n, dev
<1>5. n \in correlate(i)
  BY <1>3 DEF correlate
<1>. QED
  BY <1>2, <1>4, <1>5

LEMMA SoundStays ==
    ASSUME CallInv, [Next]_vars, NEW n, IncidentSound(n)
    PROVE  IncidentSound(n)'
<1>1. stored \subseteq stored' /\ events \subseteq events'
  BY StepKeeps DEF CallInv
<1>2. ASSUME NEW c \in n.telemetry \cup n.events
      PROVE  call'[c] = call[c]
  <2>1. c \in Calls /\ (c \in stored \/ c \in events)
    BY DEF IncidentSound, CallInv, ShapeInv, Calls
  <2>2. stage[c] # "new"
    BY <2>1 DEF CallInv, Progress
  <2>. QED
    BY <2>1, <2>2, StepKeeps DEF CallInv
<1>. QED
  BY <1>1, <1>2 DEF IncidentSound

LEMMA KnowledgeStays ==
    ASSUME CallInv, [Next]_vars, NEW i \in Ingests, stage[i] # "new"
    PROVE  /\ call'[i] = call[i] /\ known'[i] = known[i]
           /\ \A e \in known[i].events : call'[e] = call[e]
<1>1. i \in Calls /\ known[i].events \subseteq events /\ events \subseteq Calls
  BY DEF CallInv, Progress, ShapeInv, Calls
<1>2. ASSUME NEW e \in known[i].events
      PROVE  call'[e] = call[e]
  <2>1. e \in Calls /\ stage[e] # "new"
    BY <1>1 DEF CallInv, Progress
  <2>. QED
    BY <2>1, StepKeeps DEF CallInv
<1>. QED
  BY <1>1, <1>2, StepKeeps DEF CallInv

LEMMA IncidentInit == Init => IncidentInv
BY DEF Init, IncidentInv, NoRows, Calls

\* A step after which every incident was there before, in the same draft or in
\* the draft that is now committed.
LEMMA IncidentStep ==
    ASSUME CallInv, IncidentInv, [Next]_vars,
           \A n \in incidents' : n \in incidents \/ \E c \in Calls : n \in draft[c].incidents,
           \A c \in Calls : \A n \in draft'[c].incidents : n \in draft[c].incidents,
           \A i \in Ingests : stage'[i] \in {"correlated", "detected", "scored"} =>
              stage[i] \in {"correlated", "detected", "scored"}
              /\ draft'[i].incidents = draft[i].incidents,
           \A i \in Ingests : stage'[i] = "answered" /\ stage[i] # "answered" =>
              stage[i] = "scored" /\ draft[i].incidents \subseteq incidents'
    PROVE  IncidentInv'
<1>1. \A n \in incidents' : IncidentSound(n)'
  BY SoundStays DEF IncidentInv
<1>2. \A c \in Calls : \A n \in draft'[c].incidents : IncidentSound(n)'
  BY SoundStays DEF IncidentInv
<1>3. ASSUME NEW i \in Ingests, stage'[i] \in {"correlated", "detected", "scored"}
      PROVE  Reaches(i, draft[i].incidents)'
  <2>1. Reaches(i, draft[i].incidents) /\ draft'[i].incidents = draft[i].incidents
    BY <1>3 DEF IncidentInv
  <2>2. /\ call'[i] = call[i] /\ known'[i] = known[i]
        /\ \A e \in known[i].events : call'[e] = call[e]
    BY <1>3, KnowledgeStays
  <2>. QED
    BY <2>1, <2>2 DEF Reaches
<1>4. ASSUME NEW i \in Ingests, stage'[i] = "answered"
      PROVE  Reaches(i, incidents)'
  <2>1. PICK rows : Reaches(i, rows) /\ rows \subseteq incidents'
    <3>1. CASE stage[i] = "answered"
      BY <3>1, StepKeeps DEF IncidentInv, CallInv
    <3>2. CASE stage[i] # "answered"
      BY <1>4, <3>2 DEF IncidentInv
    <3>. QED
      BY <3>1, <3>2
  <2>2. /\ call'[i] = call[i] /\ known'[i] = known[i]
        /\ \A e \in known[i].events : call'[e] = call[e]
    BY <1>4, KnowledgeStays
  <2>. QED
    BY <2>1, <2>2 DEF Reaches
<1>. QED
  BY <1>1, <1>2, <1>3, <1>4 DEF IncidentInv

LEMMA IncidentCorrelate ==
    ASSUME CallInv, IncidentInv, [Next]_vars, NEW i \in Ingests, Correlate(i)
    PROVE  IncidentInv'
<1>1. /\ i \in Calls /\ ShapeInv /\ stage[i] = "stored"
      /\ UNCHANGED <<stored, events, incidents, call, known>>
      /\ stage'[i] = "correlated" /\ \A q \in Calls : q # i => stage'[q] = stage[q]
  BY DEF Correlate, Goto, CallInv, ShapeInv, Calls, db
<1>2. draft'[i].incidents = correlate(i) /\ \A q \in Calls : q # i => draft'[q] = draft[q]
  BY <1>1, CorrelateDraft
<1>3. Reaches(i, correlate(i))
  BY <1>1, CorrelateReaches
<1>4. \A n \in correlate(i) : IncidentSound(n)
  <2>1. ASSUME NEW n \in correlate(i)
        PROVE  IncidentSound(n)
    <3>1. /\ n.asset = call[i].asset
          /\ n.telemetry \subseteq recent_telemetry(call[i].asset)
          /\ n.events \subseteq recent_events(call[i].asset)
      BY CorrelateRows
    <3>. QED
      BY <3>1 DEF IncidentSound, recent_telemetry, recent_events
  <2>. QED
    BY <2>1
<1>5. \A n : IncidentSound(n) => IncidentSound(n)'
  BY SoundStays
<1>6. \A n \in incidents' : IncidentSound(n)'
  BY <1>1, <1>5 DEF IncidentInv
<1>7. \A c \in Calls : \A n \in draft'[c].incidents : IncidentSound(n)'
  BY <1>2, <1>4, <1>5 DEF IncidentInv
<1>8. ASSUME NEW q \in Ingests, stage'[q] \in {"correlated", "detected", "scored"}
      PROVE  Reaches(q, draft[q].incidents)'
  <2>1. CASE q = i
    BY <1>1, <1>2, <1>3, <2>1 DEF Reaches
  <2>2. CASE q # i
    <3>1. q \in Calls
      BY DEF Calls
    <3>2. Reaches(q, draft[q].incidents) /\ draft'[q] = draft[q]
      BY <1>1, <1>2, <1>8, <2>2, <3>1 DEF IncidentInv
    <3>. QED
      BY <1>1, <3>2 DEF Reaches
  <2>. QED
    BY <2>1, <2>2
<1>9. ASSUME NEW q \in Ingests, stage'[q] = "answered"
      PROVE  Reaches(q, incidents)'
  <2>1. q \in Calls /\ q # i
    BY <1>1, <1>9 DEF Calls
  <2>2. Reaches(q, incidents)
    BY <1>1, <1>9, <2>1 DEF IncidentInv
  <2>. QED
    BY <1>1, <2>2 DEF Reaches
<1>. QED
  BY <1>6, <1>7, <1>8, <1>9 DEF IncidentInv

LEMMA IncidentNext == CallInv /\ IncidentInv /\ [Next]_vars => IncidentInv'
<1> SUFFICES ASSUME CallInv, IncidentInv, [Next]_vars
             PROVE  IncidentInv'
  OBVIOUS
<1>1. ShapeInv /\ Ingests \subseteq Calls /\ Events \subseteq Calls
  BY DEF CallInv, Calls
<1>2. ASSUME NEW c \in Calls, UNCHANGED <<incidents, draft>>,
             stage'[c] \notin {"correlated", "detected", "scored"},
             c \in Events \/ stage'[c] # "answered",
             \A q \in Calls : q # c => stage'[q] = stage[q]
      PROVE  IncidentInv'
  BY <1>1, <1>2, CallsAssumption, IncidentStep
<1>3. ASSUME NEW i \in Ingests, NEW p \in Telemetry, Store(i, p)
      PROVE  IncidentInv'
  BY <1>1, <1>2, <1>3 DEF Store, Begin, Goto, ShapeInv
<1>4. ASSUME NEW e \in Events, NEW p \in EventLoads, InsertEvent(e, p)
      PROVE  IncidentInv'
  BY <1>1, <1>2, <1>4 DEF InsertEvent, Begin, Goto, ShapeInv, db
<1>5. ASSUME NEW e \in Events, FinishEvent(e)
      PROVE  IncidentInv'
  BY <1>1, <1>2, <1>5 DEF FinishEvent, Goto, ShapeInv
<1>6. ASSUME NEW c \in Calls, Detect(c)
      PROVE  IncidentInv'
  <2>1. /\ stage[c] \in {"correlated", "inserted"} /\ incidents' = incidents
        /\ stage'[c] = "detected" /\ \A q \in Calls : q # c => stage'[q] = stage[q]
    BY <1>1, <1>6 DEF Detect, Goto, ShapeInv, db
  <2>2. c \in Ingests => stage[c] = "correlated"
    BY <2>1 DEF CallInv, Progress
  <2>3. \A q \in Calls : draft'[q].incidents = draft[q].incidents
    BY <1>1, <1>6, DetectDraft
  <2>. QED
    BY <1>1, <2>1, <2>2, <2>3, IncidentStep
<1>7. ASSUME NEW i \in Ingests, Score(i)
      PROVE  IncidentInv'
  <2>1. /\ stage[i] = "detected" /\ incidents' = incidents
        /\ stage'[i] = "scored" /\ \A q \in Calls : q # i => stage'[q] = stage[q]
    BY <1>1, <1>7 DEF Score, Goto, ShapeInv, db
  <2>2. \A q \in Calls : draft'[q].incidents = draft[q].incidents
    BY <1>1, <1>7, ScoreDraft
  <2>. QED
    BY <1>1, <2>1, <2>2, IncidentStep
<1>8. ASSUME NEW i \in Ingests, Finish(i)
      PROVE  IncidentInv'
  <2>1. /\ stage[i] = "scored" /\ incidents' = incidents \cup draft[i].incidents
        /\ stage'[i] = "answered" /\ \A q \in Calls : q # i => stage'[q] = stage[q]
    BY <1>1, <1>8 DEF Finish, Goto, ShapeInv
  <2>2. draft'[i].incidents = {} /\ \A q \in Calls : q # i => draft'[q] = draft[q]
    BY <1>1, <1>8, EmptyDraft DEF Finish, NoRows
  <2>. QED
    BY <1>1, <2>1, <2>2, IncidentStep
<1>9. ASSUME NEW c \in Calls, Fail(c)
      PROVE  IncidentInv'
  <2>1. /\ incidents' = incidents
        /\ stage'[c] = "failed" /\ \A q \in Calls : q # c => stage'[q] = stage[q]
    BY <1>1, <1>9 DEF Fail, Goto, ShapeInv, db
  <2>2. draft'[c].incidents = {} /\ \A q \in Calls : q # c => draft'[q] = draft[q]
    BY <1>1, <1>9, EmptyDraft DEF Fail, NoRows
  <2>. QED
    BY <1>1, <2>1, <2>2, IncidentStep
<1>10. CASE UNCHANGED <<incidents, draft, stage>>
  BY <1>10, IncidentStep
<1>. QED
  BY <1>3, <1>4, <1>5, <1>6, <1>7, <1>8, <1>9, <1>10, IncidentCorrelate
     DEF Next, vars, SweepRead, SweepWrite, TriageSweep, TriageRun, StoryEnds, db

-----------------------------------------------------------------------------
(* VerdictInv is inductive.                                                *)

\* What the database says of detections, verdicts and risk.
Tables ==
    /\ \A d \in detections : d.by \in Calls \cup {None} /\ d.asset \in Assets
    /\ \A d \in detections \ Backlog : Answered(d.by) /\ d.by \in stored \cup events
    /\ Pending \subseteq Backlog
    /\ \A v \in verdicts : v.detection \in detections /\ v.verdict \in {"TP", "FP"} /\ Fair(v)

Risks ==
    /\ \A a \in Assets : risk[a] \subseteq Of(a)
    /\ sweep # None => sweep.asset \in Assets /\ sweep.counted \subseteq Of(sweep.asset)

LEMMA VerdictParts == VerdictInv <=> (\A c \in Calls : DraftSound(c)) /\ Tables /\ Risks
BY DEF VerdictInv, Tables, Risks

\* A story that ends only changes the score of what was found during it.
LEMMA FairStays ==
    ASSUME ShapeInv, [Next]_vars, NEW v, Fair(v)
    PROVE  Fair(v)'
<1>1. story' = story \/ (story = "running" /\ story' = "ended")
  BY DEF Next, vars, Store, Correlate, InsertEvent, Detect, Score, Finish, FinishEvent, Fail,
     SweepRead, SweepWrite, TriageSweep, TriageRun, StoryEnds
<1>2. CASE story' = story
  BY <1>2 DEF Fair, score_detection, sig_story_bonus
<1>3. CASE story = "running" /\ story' = "ended"
  <2>1. CASE v.detection.during
    BY <1>3, <2>1 DEF Fair
  <2>2. CASE ~v.detection.during
    <3>1. sig_story_bonus(v.detection) = 0 /\ sig_story_bonus(v.detection)' = 0
      BY <2>2 DEF sig_story_bonus
    <3>2. score_detection(v.detection)' = score_detection(v.detection)
      BY <3>1 DEF score_detection
    <3>. QED
      BY <1>3, <3>2 DEF Fair
  <2>. QED
    BY <2>1, <2>2
<1>. QED
  BY <1>1, <1>2, <1>3

LEMMA JudgedFair ==
    ASSUME NEW d, NEW who
    PROVE  LET v == Judged(d, who)
           IN v.detection = d /\ v.verdict \in {"TP", "FP"} /\ Fair(v)
BY DEF Judged, Fair, score_detection

\* Detections of an asset are never fewer.
LEMMA OfGrows ==
    ASSUME ShapeInv, [Next]_vars
    PROVE  \A a : Of(a) \subseteq Of(a)'
BY StepKeeps DEF Of

LEMMA VerdictInit == Init => VerdictInv
<1> SUFFICES ASSUME Init
             PROVE  VerdictInv
  OBVIOUS
<1>1. \A c \in Calls : DraftSound(c)
  BY DEF Init, DraftSound, NoRows
<1>2. Tables
  BY BacklogAssumption DEF Init, Tables, Pending
<1>3. Risks
  BY DEF Init, Risks
<1>. QED
  BY <1>1, <1>2, <1>3, VerdictParts

\* The draft of a call that the step leaves alone.
LEMMA DraftStays ==
    ASSUME CallInv, VerdictInv, [Next]_vars, NEW c \in Calls,
           draft'[c].detections = draft[c].detections,
           draft'[c].verdicts = draft[c].verdicts,
           stage'[c] = "scored" => stage[c] = "scored" /\ draft'[c].counted = draft[c].counted
    PROVE  DraftSound(c)'
<1>1. DraftSound(c) /\ ShapeInv /\ Progress(c)
  BY DEF VerdictInv, CallInv
<1>2. CASE stage[c] = "new"
  <2>1. draft[c].detections = {} /\ draft[c].verdicts = {}
    BY <1>1, <1>2 DEF Progress, NoRows
  <2>. QED
    BY <1>2, <2>1 DEF DraftSound
<1>3. CASE stage[c] # "new"
  <2>1. call'[c] = call[c]
    BY <1>1, <1>3, StepKeeps
  <2>2. \A v : Fair(v) => Fair(v)'
    BY <1>1, FairStays
  <2>3. stage'[c] = "scored" => draft[c].counted \subseteq Of(call[c].asset)' \cup draft[c].detections
    BY <1>1, <2>1, OfGrows DEF DraftSound
  <2>. QED
    BY <1>1, <2>1, <2>2, <2>3 DEF DraftSound, Of
<1>. QED
  BY <1>2, <1>3

\* Of a call's findings none is of another call or asset, none lacks a verdict.
LEMMA FoundSound ==
    ASSUME NEW c, NEW d \in Found(c)
    PROVE  d.by = c /\ d.asset = call[c].asset
BY DEF Found, Detected

LEMMA DetectSound ==
    ASSUME CallInv, [Next]_vars, NEW c \in Calls, Detect(c)
    PROVE  DraftSound(c)'
<1>1. ShapeInv /\ stage'[c] = "detected" /\ call' = call
  BY DEF CallInv, ShapeInv, Detect, Goto
<1>2. draft'[c].detections = Found(c) /\ draft'[c].verdicts = {Judged(d, c) : d \in Found(c)}
  BY <1>1, DetectDraft
<1>3. \A d \in draft'[c].detections : d.by = c /\ d.asset = call'[c].asset
  BY <1>1, <1>2, FoundSound
<1>4. \A d \in draft'[c].detections : \E v \in draft'[c].verdicts : v.detection = d
  <2>1. ASSUME NEW d \in Found(c)
        PROVE  \E v \in draft'[c].verdicts : v.detection = d
    <3>1. Judged(d, c) \in draft'[c].verdicts
      BY <1>2
    <3>. QED
      BY <3>1, JudgedFair
  <2>. QED
    BY <1>2, <2>1
<1>5. ASSUME NEW v \in draft'[c].verdicts
      PROVE  v.detection \in draft'[c].detections /\ v.verdict \in {"TP", "FP"} /\ Fair(v)'
  <2>1. PICK d \in Found(c) : v = Judged(d, c)
    BY <1>2
  <2>2. v.detection = d /\ v.verdict \in {"TP", "FP"} /\ Fair(v)
    BY <2>1, JudgedFair
  <2>. QED
    BY <1>1, <1>2, <2>2, FairStays
<1>. QED
  BY <1>1, <1>3, <1>4, <1>5 DEF DraftSound

LEMMA ScoreSound ==
    ASSUME CallInv, VerdictInv, [Next]_vars, NEW i \in Ingests, Score(i)
    PROVE  DraftSound(i)'
<1>1. i \in Calls /\ ShapeInv /\ call' = call /\ detections' = detections /\ DraftSound(i)
  BY DEF CallInv, VerdictInv, Score, db, Calls
<1>2. /\ draft'[i].detections = draft[i].detections
      /\ draft'[i].verdicts = draft[i].verdicts
      /\ draft'[i].counted = Of(call[i].asset) \cup draft[i].detections
  BY <1>1, ScoreDraft
<1>3. \A v : Fair(v) => Fair(v)'
  BY <1>1, FairStays
<1>4. Of(call[i].asset)' = Of(call[i].asset)
  BY <1>1 DEF Of
<1>. QED
  BY <1>1, <1>2, <1>3, <1>4 DEF DraftSound

LEMMA DraftNext ==
    ASSUME CallInv, VerdictInv, [Next]_vars, NEW c \in Calls
    PROVE  DraftSound(c)'
<1>1. ShapeInv /\ Ingests \subseteq Calls /\ Events \subseteq Calls
  BY DEF CallInv, Calls
<1>2. ASSUME NEW q \in Calls, draft' = draft, stage'[q] # "scored",
             \A r \in Calls : r # q => stage'[r] = stage[r]
      PROVE  DraftSound(c)'
  BY <1>2, DraftStays
<1>3. ASSUME NEW i \in Ingests, NEW p \in Telemetry, Store(i, p)
      PROVE  DraftSound(c)'
  BY <1>1, <1>2, <1>3 DEF Store, Begin, Goto, ShapeInv
<1>4. ASSUME NEW e \in Events, NEW p \in EventLoads, InsertEvent(e, p)
      PROVE  DraftSound(c)'
  BY <1>1, <1>2, <1>4 DEF InsertEvent, Begin, Goto, ShapeInv, db
<1>5. ASSUME NEW e \in Events, FinishEvent(e)
      PROVE  DraftSound(c)'
  BY <1>1, <1>2, <1>5 DEF FinishEvent, Goto, ShapeInv
<1>6. ASSUME NEW q \in Calls, q # c, draft'[c] = draft[c], stage'[c] = stage[c]
      PROVE  DraftSound(c)'
  BY <1>6, DraftStays
<1>7. ASSUME NEW i \in Ingests, Correlate(i)
      PROVE  DraftSound(c)'
  <2>1. stage'[i] = "correlated" /\ \A r \in Calls : r # i => stage'[r] = stage[r]
    BY <1>1, <1>7 DEF Correlate, Goto, ShapeInv
  <2>2. /\ draft'[c].detections = draft[c].detections
        /\ draft'[c].verdicts = draft[c].verdicts
        /\ c # i => draft'[c] = draft[c]
    BY <1>1, <1>7, CorrelateDraft
  <2>. QED
    BY <2>1, <2>2, DraftStays
<1>8. ASSUME NEW q \in Calls, Detect(q)
      PROVE  DraftSound(c)'
  <2>1. q # c => stage'[c] = stage[c] /\ draft'[c] = draft[c]
    BY <1>1, <1>8, DetectDraft DEF Detect, Goto, ShapeInv
  <2>. QED
    BY <1>6, <1>8, <2>1, DetectSound
<1>9. ASSUME NEW i \in Ingests, Score(i)
      PROVE  DraftSound(c)'
  <2>1. i # c => stage'[c] = stage[c] /\ draft'[c] = draft[c]
    BY <1>1, <1>9, ScoreDraft DEF Score, Goto, ShapeInv
  <2>. QED
    BY <1>1, <1>6, <1>9, <2>1, ScoreSound
<1>10. ASSUME NEW q \in Calls, NEW s, s # "scored", Goto(q, s),
              draft' = [draft EXCEPT ![q] = NoRows]
       PROVE  DraftSound(c)'
  <2>1. q # c => stage'[c] = stage[c] /\ draft'[c] = draft[c]
    BY <1>1, <1>10, EmptyDraft DEF Goto, ShapeInv
  <2>2. stage'[q] # "scored" /\ draft'[q].detections = {} /\ draft'[q].verdicts = {}
    BY <1>1, <1>10, EmptyDraft DEF Goto, ShapeInv, NoRows
  <2>3. DraftSound(q)'
    BY <2>2 DEF DraftSound
  <2>. QED
    BY <1>6, <1>10, <2>1, <2>3
<1>11. CASE UNCHANGED <<draft, stage>>
  BY <1>11, DraftStays
<1>12. ASSUME NEW q \in Calls, Finish(q) \/ Fail(q)
       PROVE  DraftSound(c)'
  BY <1>10, <1>12 DEF Finish, Fail
<1>. QED
  BY <1>1, <1>3, <1>4, <1>5, <1>7, <1>8, <1>9, <1>11, <1>12
     DEF Next, vars, SweepRead, SweepWrite, TriageSweep, TriageRun, StoryEnds, db

\* A step that adds no detection, and no verdict but on a stored detection.
LEMMA TablesJudged ==
    ASSUME CallInv, VerdictInv, [Next]_vars, detections' = detections,
           \A v \in verdicts' :
              v \notin verdicts => v.detection \in detections /\ v.verdict \in {"TP", "FP"} /\ Fair(v)
    PROVE  Tables'
<1>1. Tables /\ ShapeInv
  BY VerdictParts DEF CallInv
<1>2. \A d \in detections' \ Backlog : Answered(d.by)' /\ d.by \in stored' \cup events'
  <2>1. ASSUME NEW d \in detections \ Backlog
        PROVE  Answered(d.by)' /\ d.by \in stored' \cup events'
    <3>1. Answered(d.by) /\ d.by \in stored \cup events /\ d.by \in Calls
      BY <1>1 DEF Tables, ShapeInv, Calls
    <3>. QED
      BY <1>1, <3>1, StepKeeps DEF Answered
  <2>. QED
    BY <2>1
<1>3. Pending' \subseteq Pending
  BY <1>1, StepKeeps DEF Pending
<1>4. \A v \in verdicts' : v.detection \in detections' /\ v.verdict \in {"TP", "FP"} /\ Fair(v)'
  BY <1>1, FairStays DEF Tables
<1>. QED
  BY <1>1, <1>2, <1>3, <1>4 DEF Tables

\* The commit of a call's transaction.
LEMMA TablesCommitted ==
    ASSUME CallInv, VerdictInv, [Next]_vars, NEW c \in Calls, stage[c] # "new",
           detections' = detections \cup draft[c].detections,
           verdicts' = verdicts \cup draft[c].verdicts,
           stage'[c] = "answered", c \in stored' \cup events'
    PROVE  Tables'
<1>1. Tables /\ ShapeInv /\ DraftSound(c) /\ call[c].asset \in Assets
  BY VerdictParts DEF CallInv, VerdictInv, Progress, Call
<1>2. \A d \in detections' : d.by \in Calls \cup {None} /\ d.asset \in Assets
  BY <1>1 DEF Tables, DraftSound
<1>3. ASSUME NEW d \in detections' \ Backlog
      PROVE  Answered(d.by)' /\ d.by \in stored' \cup events'
  <2>1. CASE d \in detections
    <3>1. Answered(d.by) /\ d.by \in stored \cup events /\ d.by \in Calls
      BY <1>1, <1>3, <2>1 DEF Tables, ShapeInv, Calls
    <3>. QED
      BY <1>1, <3>1, StepKeeps DEF Answered
  <2>2. CASE d \in draft[c].detections
    BY <1>1, <2>2 DEF DraftSound, Answered
  <2>. QED
    BY <2>1, <2>2
<1>4. Pending' \subseteq Pending
  BY <1>1, StepKeeps DEF Pending, DraftSound
<1>5. ASSUME NEW v \in verdicts'
      PROVE  v.detection \in detections' /\ v.verdict \in {"TP", "FP"} /\ Fair(v)'
  <2>1. v.detection \in detections' /\ v.verdict \in {"TP", "FP"} /\ Fair(v)
    BY <1>1 DEF Tables, DraftSound
  <2>. QED
    BY <1>1, <2>1, FairStays
<1>. QED
  BY <1>1, <1>2, <1>3, <1>4, <1>5 DEF Tables

LEMMA TablesNext ==
    ASSUME CallInv, VerdictInv, [Next]_vars
    PROVE  Tables'
<1>1. ASSUME NEW i \in Ingests, Finish(i)
      PROVE  Tables'
  <2>1. i \in Calls /\ stage[i] = "scored" /\ stage'[i] = "answered" /\ stored' = stored
    BY <1>1 DEF Finish, Goto, Calls, CallInv, ShapeInv
  <2>2. i \in stored'
    BY <2>1 DEF CallInv, Progress, Placed
  <2>. QED
    BY <1>1, <2>1, <2>2, TablesCommitted DEF Finish
<1>2. ASSUME NEW e \in Events, FinishEvent(e)
      PROVE  Tables'
  <2>1. e \in Calls /\ stage[e] = "detected" /\ stage'[e] = "answered"
    BY <1>2 DEF FinishEvent, Goto, Calls, CallInv, ShapeInv
  <2>2. CASE draft[e].doomed
    BY <1>2, <2>2, TablesJudged DEF FinishEvent
  <2>3. CASE ~draft[e].doomed
    BY <1>2, <2>1, <2>3, TablesCommitted DEF FinishEvent
  <2>. QED
    BY <2>2, <2>3
<1>3. CASE TriageSweep
  <2>1. PICK batch \in SUBSET Pending :
          verdicts' = verdicts \cup {Judged(d, "sweep") : d \in batch}
    BY <1>3 DEF TriageSweep
  <2>2. ASSUME NEW v \in verdicts', v \notin verdicts
        PROVE  v.detection \in detections /\ v.verdict \in {"TP", "FP"} /\ Fair(v)
    <3>1. PICK d \in batch : v = Judged(d, "sweep")
      BY <2>1, <2>2
    <3>. QED
      BY <2>1, <3>1, JudgedFair DEF Pending
  <2>. QED
    BY <1>3, <2>2, TablesJudged DEF TriageSweep
<1>4. ASSUME NEW d \in detections, TriageRun(d)
      PROVE  Tables'
  <2>1. ASSUME NEW v \in verdicts', v \notin verdicts
        PROVE  v.detection \in detections /\ v.verdict \in {"TP", "FP"} /\ Fair(v)
    <3>1. v = Judged(d, "rerun") \/ v = [detection |-> d, by |-> "analyst", verdict |-> "FP"]
      BY <1>4, <2>1 DEF TriageRun
    <3>2. CASE v = Judged(d, "rerun")
      BY <3>2, JudgedFair
    <3>3. CASE v = [detection |-> d, by |-> "analyst", verdict |-> "FP"]
      BY <3>3 DEF Fair
    <3>. QED
      BY <3>1, <3>2, <3>3
  <2>. QED
    BY <1>4, <2>1, TablesJudged DEF TriageRun
<1>5. CASE UNCHANGED <<detections, verdicts>>
  BY <1>5, TablesJudged
<1>. QED
  BY <1>1, <1>2, <1>3, <1>4, <1>5
     DEF Next, vars, Store, Correlate, InsertEvent, Detect, Score, Fail, SweepRead, SweepWrite,
         StoryEnds, db

LEMMA RisksNext ==
    ASSUME CallInv, VerdictInv, [Next]_vars
    PROVE  Risks'
<1>1. Risks /\ ShapeInv /\ detections \subseteq detections'
  BY VerdictParts, StepKeeps DEF CallInv
<1>2. risk' = risk => \A a \in Assets : risk'[a] \subseteq Of(a)'
  BY <1>1 DEF Risks, Of
<1>3. sweep' = sweep => (sweep # None => sweep.asset \in Assets /\ sweep.counted \subseteq Of(sweep.asset))'
  BY <1>1 DEF Risks, Of
<1>4. ASSUME NEW b \in Assets, NEW counted \in SUBSET Of(b)', risk' = [risk EXCEPT ![b] = counted]
      PROVE  \A a \in Assets : risk'[a] \subseteq Of(a)'
  <2>1. risk = [a \in Assets |-> risk[a]]
    BY <1>1 DEF ShapeInv
  <2>2. \A a \in Assets : risk'[a] = IF a = b THEN counted ELSE risk[a]
    BY <1>4, <2>1
  <2>. QED
    BY <1>1, <2>2 DEF Risks, Of
<1>5. ASSUME NEW i \in Ingests, Finish(i)
      PROVE  Risks'
  <2>1. /\ i \in Calls /\ stage[i] = "scored" /\ sweep' = sweep
        /\ detections' = detections \cup draft[i].detections
        /\ risk' = [risk EXCEPT ![call[i].asset] = draft[i].counted]
    BY <1>5 DEF Finish, Calls
  <2>2. DraftSound(i) /\ call[i].asset \in Assets
    BY <2>1 DEF VerdictInv, CallInv, Progress, Call
  <2>3. \A a \in Assets : a = call[i].asset => draft[i].counted \subseteq Of(a)'
    BY <2>1, <2>2 DEF DraftSound, Of
  <2>4. \A a \in Assets : risk'[a] \subseteq Of(a)'
    BY <1>4, <2>1, <2>2, <2>3
  <2>. QED
    BY <1>3, <2>1, <2>4 DEF Risks, Of
<1>6. CASE SweepWrite
  <2>1. /\ sweep.asset \in Assets
        /\ \A a \in Assets : a = sweep.asset => sweep.counted \subseteq Of(a)'
        /\ risk' = [risk EXCEPT ![sweep.asset] = sweep.counted] /\ sweep' = None
    BY <1>1, <1>6 DEF Risks, SweepWrite, Of
  <2>2. \A a \in Assets : risk'[a] \subseteq Of(a)'
    BY <1>4, <2>1
  <2>. QED
    BY <2>1, <2>2 DEF Risks, Of
<1>7. ASSUME NEW a \in Assets, SweepRead(a)
      PROVE  Risks'
  <2>1. sweep' = [asset |-> a, counted |-> Of(a)] /\ risk' = risk /\ Of(a)' = Of(a)
    BY <1>7 DEF SweepRead, db, Of
  <2>. QED
    BY <1>1, <1>2, <2>1 DEF Risks, Of
<1>8. CASE UNCHANGED <<risk, sweep>>
  BY <1>2, <1>3, <1>8 DEF Risks, Of
<1>. QED
  BY <1>5, <1>6, <1>7, <1>8
     DEF Next, vars, Store, Correlate, InsertEvent, Detect, Score, FinishEvent, Fail, TriageSweep,
         TriageRun, StoryEnds, db

LEMMA VerdictNext == CallInv /\ VerdictInv /\ [Next]_vars => VerdictInv'
<1> SUFFICES ASSUME CallInv, VerdictInv, [Next]_vars
             PROVE  VerdictInv'
  OBVIOUS
<1>1. (\A c \in Calls : DraftSound(c))' /\ Tables' /\ Risks'
  BY DraftNext, TablesNext, RisksNext
<1>. QED
  BY <1>1 DEF VerdictInv, Tables, Risks

-----------------------------------------------------------------------------
(* The theorems.                                                           *)

Inv == CallInv /\ IncidentInv /\ VerdictInv

LEMMA Invariance == Spec => []Inv
<1>1. Init => Inv
  BY CallInit, IncidentInit, VerdictInit DEF Inv
<1>2. Inv /\ [Next]_vars => Inv'
  BY CallNext, IncidentNext, VerdictNext DEF Inv
<1>. QED
  BY <1>1, <1>2, PTL DEF Spec

\* Every table holds rows of its kind, every verdict is on a stored detection,
\* a risk score counts nothing that was rolled back, and no reading outside
\* its sender's declared range is stored (ingest_telemetry, validate).
THEOREM TypeCorrect == Spec => []TypeOK
<1>1. Inv => TypeOK
  <2> SUFFICES ASSUME Inv
               PROVE  TypeOK
    OBVIOUS
  <2>1. ShapeInv /\ (\A c \in Calls : Progress(c)) /\ VerdictInv
    BY DEF Inv, CallInv
  <2>2. \A i \in stored : InRange(call[i].load, call[i].load.asset_type)
    BY <2>1 DEF ShapeInv, Progress, Calls
  <2>. QED
    BY <2>1, <2>2 DEF TypeOK, ShapeInv, VerdictInv, Firmware, Stages
<1>. QED
  BY <1>1, Invariance, PTL

\* An answered call is stored with everything found in it, but for an event
\* whose transaction a swallowed error of triage had lost; and no finding is
\* stored of a call that was not answered (ingest_telemetry, ingest_event).
THEOREM AnswersAreStored == Spec => []AnsweredStored
<1>1. Inv => AnsweredStored
  BY DEF Inv, CallInv, VerdictInv, AnsweredStored, Answered, Progress, Placed, Calls
<1>. QED
  BY <1>1, Invariance, PTL

\* No detection of an ingest waits for a verdict, and two computed verdicts on
\* it differ only if a story has ended between them (triage_detection).
THEOREM EveryDetectionTriaged == Spec => []DetectionsTriaged
<1>1. Inv => DetectionsTriaged
  BY DEF Inv, VerdictInv, DetectionsTriaged, Fair
<1>. QED
  BY <1>1, Invariance, PTL

\* A device or network event of a gateway that was answered before an ingest
\* of it began is evidence of the ingest's incident (correlate).
THEOREM EventsReachIncidents == Spec => []EventReachesIncident
<1>1. Inv => EventReachesIncident
  BY DEF Inv, IncidentInv, IncidentSound, Reaches, EventReachesIncident, Answered
<1>. QED
  BY <1>1, Invariance, PTL
=============================================================================
