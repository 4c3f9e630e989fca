----------------------------- MODULE Detection -----------------------------
(***************************************************************************)
(* What follows the first commit of an ingest (ingestion/, detection/):    *)
(* correlation into incidents, detection rules, automatic triage and risk, *)
(* with the sweeps of the process and the analyst's own verdicts.          *)
(*                                                                         *)
(* One asyncio process.  An ingest of telemetry commits its rows and the   *)
(* twin's state first (module TwinState) and the rest in a second          *)
(* transaction; an event has a single one.  Between two statements any     *)
(* other coroutine may run, and uncommitted rows are invisible to it.      *)
(*                                                                         *)
(* All of a behaviour happens within the windows of the correlator (120 s),*)
(* the context (300 s) and the risk score (3600 s).                        *)
(***************************************************************************)
EXTENDS Rules, FiniteSets, FiniteSetsExt

CONSTANTS
    Ingests,    \* calls of ingest_telemetry
    Events,     \* calls of ingest_event
    Telemetry,  \* telemetry payloads, with the asset each is about
    EventLoads, \* event payloads, likewise
    Backlog,    \* detections stored before there was a triage engine
    Batch,      \* triage_batch_size
    Threshold,  \* triage_tp_threshold, in ten-thousandths
    Reviewed,   \* rules whose detections somebody runs through triage again
    MaxReruns   \* bound on the verdicts of POST /triage/run

Calls == Ingests \cup Events

ASSUME CallsAssumption == Ingests \cap Events = {} /\ None \notin Calls
\* An unknown asset is answered with 404; Backlog is of no call.
ASSUME PayloadsAssumption == \A p \in Telemetry \cup EventLoads : p.asset_id \in Assets
ASSUME BacklogAssumption == \A d \in Backlog : d.by = None /\ d.asset \in Assets
ASSUME BoundsAssumption == Batch \in Nat \ {0} /\ Threshold \in Nat /\ MaxReruns \in Nat

VARIABLES
    stored,     \* ingests whose telemetry rows are committed
    firmware,   \* the twin's copy in memory: firmware[a], or None
    events,     \* committed security_events
    incidents,  \* committed incidents with their members
    detections, \* committed detections
    verdicts,   \* committed triage rows
    risk,       \* risk[a]: the detections the latest risk score of a counts
    story,      \* the attack story of the time: none, running or ended
    sweep,      \* what the risk sweep has computed and not stored yet
    stage,      \* stage[c]: how far call c has come
    call,       \* call[c]: asset and payload of c
    draft,      \* draft[c]: the rows of c's open transaction
    known       \* history: what was there when c began

vars == <<stored, firmware, events, incidents, detections, verdicts, risk,
          story, sweep, stage, call, draft, known>>
db == <<stored, events, incidents, detections, verdicts, risk>>

-----------------------------------------------------------------------------
(* correlator.py: incidents over the committed rows of one asset.          *)

Incident(c, rule, severity, telemetry, evidence) ==
    [by |-> c, asset |-> call[c].asset, rule |-> rule, severity |-> severity,
     telemetry |-> telemetry, events |-> evidence]

recent_telemetry(a) == {c \in stored : call[c].asset = a}

\* Mutant: low events are left out for every rule.
RecentEventsSerious(a) ==
    {c \in events : call[c].asset = a /\ call[c].load.severity \notin {"info", "low"}}

recent_events(a) == {c \in events : call[c].asset = a}

\* max() of severities is the last in the alphabet.
LastWord(severities) ==
    CHOOSE s \in severities : \A t \in severities :
        LET Place == [critical |-> 1, high |-> 2, info |-> 3, low |-> 4, medium |-> 5]
        IN Place[t] <= Place[s]

cold_chain(c, tel) ==
    LET high == {t \in tel : call[t].load.temperature # None /\ call[t].load.temperature > 8}
    IN IF TypeOf[call[c].asset] # "TRUCK" \/ high = {} THEN {}
       ELSE {Incident(c, "R001", "high", high, {})}

unauthorized_entry(c, tel, evs) ==
    LET doors == {t \in tel : call[t].load.door_status = "OPEN"}
        serious == {e \in evs : call[e].load.severity \in {"medium", "high", "critical"}}
    IN IF TypeOf[call[c].asset] # "WAREHOUSE" \/ doors = {} THEN {}
       ELSE {Incident(c, "R002", IF serious # {} THEN "high" ELSE "medium", doors, serious)}

auth_failure_storm(c, tel, evs) ==
    LET bursts == {t \in tel : call[t].load.failed_logins >= 5}
        auth == {e \in evs : call[e].load.event_type = "AUTHENTICATION_ANOMALY"}
    IN IF bursts \cup auth = {} THEN {}
       ELSE {Incident(c, "R003", IF auth # {} THEN "high" ELSE "medium", bursts, auth)}

\* The telemetry of the incident stands for its five oldest rows.
gateway_compromise(c, tel, evs) ==
    LET dev == {e \in evs : call[e].load.event_type \in {"DEVICE_ANOMALY", "NETWORK_ANOMALY"}}
    IN IF TypeOf[call[c].asset] # "VEHICLE_GATEWAY" \/ dev = {} THEN {}
       ELSE {Incident(c, "R006", LastWord({call[e].load.severity : e \in dev}), tel, dev)}

correlate(c) ==
    LET tel == recent_telemetry(call[c].asset)
        evs == recent_events(call[c].asset)
    IN cold_chain(c, tel) \cup unauthorized_entry(c, tel, evs)
       \cup auth_failure_storm(c, tel, evs) \cup gateway_compromise(c, tel, evs)

-----------------------------------------------------------------------------
(* triage.py.                                                              *)

SEVERITY_SCORE == [info |-> 5, low |-> 20, medium |-> 50, high |-> 80, critical |-> 100]

\* A story that is running has no end yet, and NULL >= detected_at is no.
sig_story_bonus(d) == IF d.during /\ story = "ended" THEN 2000 ELSE 0

score_detection(d) ==
    LET score == 50 * SEVERITY_SCORE[d.severity] + 30 * d.confidence + sig_story_bonus(d)
    IN IF Min({score, 10000}) >= Threshold THEN "TP" ELSE "FP"

Judged(d, who) == [detection |-> d, by |-> who, verdict |-> score_detection(d)]

\* run_detection's rows for the findings of call c.
Detected(c, findings) ==
    {[by |-> c, asset |-> call[c].asset, rule |-> f.rule, severity |-> f.severity,
      confidence |-> f.confidence, during |-> story = "running"] : f \in findings}

Of(a) == {d \in detections : d.asset = a}

-----------------------------------------------------------------------------

NoRows == [incidents |-> {}, detections |-> {}, verdicts |-> {}, counted |-> {}, doomed |-> FALSE]

Init ==
    /\ stored = {} /\ events = {} /\ incidents = {} /\ verdicts = {}
    /\ detections = Backlog
    /\ firmware = [a \in Assets |-> None]
    /\ risk = [a \in Assets |-> {}]
    /\ story \in {"none", "running"}
    /\ sweep = None
    /\ stage = [c \in Calls |-> "new"]
    /\ call = [c \in Calls |-> None]
    /\ draft = [c \in Calls |-> NoRows]
    /\ known = [c \in Calls |-> None]

Goto(c, s) == stage' = [stage EXCEPT ![c] = s]

Begin(c, p, s) ==
    /\ stage[c] = "new"
    /\ call' = [call EXCEPT ![c] = [asset |-> p.asset_id, load |-> p]]
    /\ known' = [known EXCEPT ![c] =
            [firmware |-> firmware[p.asset_id], events |-> {e \in events : stage[e] = "answered"}]]
    /\ Goto(c, s)

\* ingest_telemetry up to the commit of update_state.
Store(i, p) ==
    /\ IF validate(p)
       THEN /\ Begin(i, p, "stored")
            /\ stored' = stored \cup {i}
            /\ firmware' = IF p.firmware = None THEN firmware
                           ELSE [firmware EXCEPT ![p.asset_id] = p.firmware]
       ELSE Begin(i, p, "refused") /\ UNCHANGED <<stored, firmware>>
    /\ UNCHANGED <<events, incidents, detections, verdicts, risk, story, sweep, draft>>

Correlate(i) ==
    /\ stage[i] = "stored"
    /\ draft' = [draft EXCEPT ![i].incidents = correlate(i)]
    /\ Goto(i, "correlated")
    /\ UNCHANGED <<db, firmware, story, sweep, call, known>>

\* ingest_event up to the flush of its row.
InsertEvent(e, p) ==
    /\ Begin(e, p, "inserted")
    /\ UNCHANGED <<db, firmware, story, sweep, draft>>

\* Mutant: a failed triage is left for the sweep.
DetectUntriaged(c) ==
    /\ stage[c] \in {"correlated", "inserted"}
    /\ LET p == call[c].load
           found == Detected(c, IF c \in Ingests THEN all_rules(call[c].asset, p, firmware[call[c].asset])
                                ELSE rule_auth_anomaly(p))
       IN \E judged \in SUBSET found :
            draft' = [draft EXCEPT ![c].detections = found,
                                   ![c].verdicts = {Judged(d, c) : d \in judged}]
    /\ Goto(c, "detected")
    /\ UNCHANGED <<db, firmware, story, sweep, call, known>>

\* run_detection and the triage of what it found.  An error of triage is
\* swallowed; if it was a failed SELECT, the transaction is lost.
Detect(c) ==
    /\ stage[c] \in {"correlated", "inserted"}
    /\ LET p == call[c].load
           found == Detected(c, IF c \in Ingests THEN all_rules(call[c].asset, p, firmware[call[c].asset])
                                ELSE rule_auth_anomaly(p))
       IN \E doomed \in IF found = {} THEN {FALSE} ELSE BOOLEAN :
            draft' = [draft EXCEPT ![c] =
                        [incidents |-> @.incidents, detections |-> found,
                         verdicts |-> {Judged(d, c) : d \in found}, counted |-> {},
                         doomed |-> doomed]]
    /\ Goto(c, "detected")
    /\ UNCHANGED <<db, firmware, story, sweep, call, known>>

\* Mutant: the rows of the detections are committed on the way.
ScoreCommits(i) ==
    /\ stage[i] = "detected" /\ i \in Ingests /\ ~draft[i].doomed
    /\ draft' = [draft EXCEPT ![i].counted = Of(call[i].asset) \cup draft[i].detections]
    /\ detections' = detections \cup draft[i].detections
    /\ verdicts' = verdicts \cup draft[i].verdicts
    /\ Goto(i, "scored")
    /\ UNCHANGED <<stored, events, incidents, risk, firmware, story, sweep, call, known>>

\* score_asset before its commit: the SELECTs see c's own rows too, and fail
\* if the transaction is lost.
Score(i) ==
    /\ stage[i] = "detected" /\ i \in Ingests /\ ~draft[i].doomed
    /\ draft' = [draft EXCEPT ![i].counted = Of(call[i].asset) \cup draft[i].detections]
    /\ Goto(i, "scored")
    /\ UNCHANGED <<db, firmware, story, sweep, call, known>>

\* The commit of score_asset, and the answer.
Finish(i) ==
    /\ stage[i] = "scored"
    /\ incidents' = incidents \cup draft[i].incidents
    /\ detections' = detections \cup draft[i].detections
    /\ verdicts' = verdicts \cup draft[i].verdicts
    /\ risk' = [risk EXCEPT ![call[i].asset] = draft[i].counted]
    /\ draft' = [draft EXCEPT ![i] = NoRows]
    /\ Goto(i, "answered")
    /\ UNCHANGED <<stored, events, firmware, story, sweep, call, known>>

\* The commit of ingest_event: of a lost transaction it stores nothing and
\* raises nothing, and the answer is the same.
FinishEvent(e) ==
    /\ stage[e] = "detected" /\ e \in Events
    /\ IF draft[e].doomed THEN UNCHANGED <<events, detections, verdicts>>
       ELSE /\ events' = events \cup {e}
            /\ detections' = detections \cup draft[e].detections
            /\ verdicts' = verdicts \cup draft[e].verdicts
    /\ Goto(e, "answered")
    /\ UNCHANGED <<stored, incidents, risk, firmware, story, sweep, call, draft, known>>

\* An exception leaves the handler and its session rolls back.
Fail(c) ==
    /\ stage[c] \notin {"new", "refused", "answered", "failed"}
    /\ Goto(c, "failed")
    /\ draft' = [draft EXCEPT ![c] = NoRows]
    /\ UNCHANGED <<db, firmware, story, sweep, call, known>>

-----------------------------------------------------------------------------
(* The sweeps, the analyst and the stories.                                *)

SweepRead(a) ==
    /\ sweep = None
    /\ sweep' = [asset |-> a, counted |-> Of(a)]
    /\ UNCHANGED <<db, firmware, story, stage, call, draft, known>>

SweepWrite ==
    /\ sweep # None
    /\ risk' = [risk EXCEPT ![sweep.asset] = sweep.counted]
    /\ sweep' = None
    /\ UNCHANGED <<stored, events, incidents, detections, verdicts, firmware, story,
                   stage, call, draft, known>>

Pending == {d \in detections : \A v \in verdicts : v.detection # d}

\* Mutant: the sweep looks only at what this process detected.
TriageSweepRecent ==
    /\ \E batch \in SUBSET (Pending \ Backlog) :
          /\ batch # {} /\ Cardinality(batch) <= Batch
          /\ verdicts' = verdicts \cup {Judged(d, "sweep") : d \in batch}
    /\ UNCHANGED <<stored, events, incidents, detections, risk, firmware, story, sweep,
                   stage, call, draft, known>>

\* triage_pending: a batch of what has no verdict, in one commit.
TriageSweep ==
    /\ Pending # {}
    /\ \E batch \in SUBSET Pending :
          /\ Cardinality(batch) = Min({Batch, Cardinality(Pending)})
          /\ verdicts' = verdicts \cup {Judged(d, "sweep") : d \in batch}
    /\ UNCHANGED <<stored, events, incidents, detections, risk, firmware, story, sweep,
                   stage, call, draft, known>>

\* POST /triage/run: another row, with the analyst's verdict or computed anew.
TriageRun(d) ==
    /\ d.rule \in Reviewed
    /\ Cardinality({v \in verdicts : v.by \in {"rerun", "analyst"}}) < MaxReruns
    /\ verdicts' \in {verdicts \cup {Judged(d, "rerun")},
                      verdicts \cup {[detection |-> d, by |-> "analyst", verdict |-> "FP"]}}
    /\ UNCHANGED <<stored, events, incidents, detections, risk, firmware, story, sweep,
                   stage, call, draft, known>>

\* The end of an attack run (module AttackRun) gives its story an end.
StoryEnds ==
    /\ story = "running" /\ story' = "ended"
    /\ UNCHANGED <<db, firmware, sweep, stage, call, draft, known>>

Next ==
    \/ \E i \in Ingests :
          \/ \E p \in Telemetry : Store(i, p)
          \/ Correlate(i) \/ Score(i) \/ Finish(i)
    \/ \E e \in Events :
          \/ \E p \in EventLoads : InsertEvent(e, p)
          \/ FinishEvent(e)
    \/ \E c \in Calls : Detect(c) \/ Fail(c)
    \/ \E a \in Assets : SweepRead(a)
    \/ SweepWrite
    \/ TriageSweep
    \/ \E d \in detections : TriageRun(d)
    \/ StoryEnds

\* The sweeps run for ever at an interval, so each asset's turn comes and what
\* was computed is stored.  Nothing is promised for the calls.
Spec ==
    /\ Init /\ [][Next]_vars
    /\ \A a \in Assets : SF_vars(SweepRead(a))
    /\ WF_vars(SweepWrite)
    /\ WF_vars(TriageSweep)

-----------------------------------------------------------------------------

Answered(c) == stage[c] = "answered"

\* The shape of the state, and that every stored reading lies in the range of
\* the type its sender named (validate).
TypeOK ==
    /\ stored \subseteq Ingests /\ events \subseteq Events
    /\ firmware \in [Assets -> {p.firmware : p \in Telemetry} \cup {None}]
    /\ \A d \in detections : d.by \in Calls \cup {None} /\ d.asset \in Assets
    /\ \A v \in verdicts : v.detection \in detections /\ v.verdict \in {"TP", "FP"}
    /\ \A a \in Assets : risk[a] \subseteq Of(a)
    /\ story \in {"none", "running", "ended"}
    /\ stage \in [Calls -> {"new", "stored", "correlated", "inserted", "detected",
                            "scored", "answered", "refused", "failed"}]
    /\ \A i \in stored : InRange(call[i].load, call[i].load.asset_type)

\* What was answered is stored with everything found in it, unless an error
\* of triage was swallowed in an event's transaction; and what was found is
\* stored with the call that found it or not at all (ingest_event,
\* ingest_telemetry).
AnsweredStored ==
    /\ \A i \in Ingests : Answered(i) => i \in stored
    /\ \A e \in Events : Answered(e) => (e \in events <=> ~draft[e].doomed)
    /\ \A d \in detections \ Backlog : Answered(d.by) /\ d.by \in stored \cup events

\* No detection that an ingest made waits for a verdict, and two verdicts
\* that were computed differ only if a story ended between them
\* (triage_detection, triage_pending).
DetectionsTriaged ==
    /\ Pending \subseteq Backlog
    /\ \A v, w \in verdicts :
          /\ v.detection = w.detection
          /\ "analyst" \notin {v.by, w.by}
          /\ v.verdict # w.verdict
          => v.detection.during /\ story = "ended"

\* A device or network event of a gateway that was answered before an ingest
\* of that gateway began, and is stored, is evidence in that ingest's
\* incident, and every piece of evidence is a committed row of the incident's
\* asset (correlate).
EventReachesIncident ==
    /\ \A i \in Ingests : Answered(i) /\ TypeOf[call[i].asset] = "VEHICLE_GATEWAY" =>
          \A e \in known[i].events :
              /\ call[e].asset = call[i].asset
              /\ call[e].load.event_type \in {"DEVICE_ANOMALY", "NETWORK_ANOMALY"}
              => \E n \in incidents : n.by = i /\ e \in n.events
    /\ \A n \in incidents :
          /\ n.telemetry \subseteq stored /\ n.events \subseteq events
          /\ \A c \in n.telemetry \cup n.events : call[c].asset = n.asset

\* Again and again every detection is counted by the latest risk score of its
\* asset and has a verdict, although a score computed before a commit may be
\* stored after it (_background_risk_sweep, _background_triage_sweep).
SweepsCatchUp ==
    []<>(Pending = {} /\ \A a \in Assets : risk[a] = Of(a))

\* docs/THREAT_MODEL.md: "RULE-007 firmware validation" is the mitigation
\* against an impersonated gateway, so telemetry whose firmware is not the one
\* the twin had makes RULE-007 fire (rule_config_tamper).
FirmwareChangeDetected ==
    \A i \in Ingests :
        LET p == call[i].load IN
        /\ Answered(i)
        /\ p.firmware # None
        /\ known[i].firmware \notin {None, p.firmware}
        => \E d \in detections : d.by = i /\ d.rule = "RULE-007"
=============================================================================
