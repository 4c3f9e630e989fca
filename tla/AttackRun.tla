----------------------------- MODULE AttackRun -----------------------------
(***************************************************************************)
(* Simulated attacks and the stories told of them (attack_story/), with    *)
(* the indicators of module ThreatIntel.                                   *)
(*                                                                         *)
(* POST /attack-simulation/start commits a story, registers the run and    *)
(* leaves it to a task of the event loop: ticks until the deadline, a      *)
(* final status in one transaction, the story in another.  Everybody else  *)
(* keeps ingesting meanwhile, the process may be stopped, which cancels    *)
(* the task wherever it waits, or die.                                     *)
(*                                                                         *)
(* A tick is one ingest; its own steps are those of modules TwinState and  *)
(* Detection.  The window of a story is padded by 30 seconds: rows from    *)
(* before the start may be inside it, and a story is built within 30       *)
(* seconds of its end.  A row is inside by its date, which is not always   *)
(* the time it was stored at: an incident has that of its oldest member.   *)
(***************************************************************************)
EXTENDS ThreatIntel, TLC

CONSTANTS
    Runs,       \* attack runs
    MaxTicks,   \* ticks that fit into the duration of a run
    Trace,      \* Trace[r]: what one tick of run r leaves: [kind, what, tokens]
    Payload,    \* Payload[r]: the tokens in the telemetry of run r
    Foreign,    \* events that others ingest: [kind, what, by, tokens]
    MaxCrashes  \* bound on starts after the first

ASSUME RunsAssumption ==
    /\ DOMAIN Trace = Runs /\ DOMAIN Payload = Runs
    /\ {"sweep", None} \cap Runs = {} /\ None \notin Runs \X Nat
\* Whatever is stored has its indicators among Tokens.
ASSUME RowsAssumption ==
    /\ \A r \in Runs : Payload[r] \subseteq Tokens /\ \A t \in Trace[r] : t.tokens \subseteq Tokens
    /\ \A f \in Foreign : f.by = None /\ f.tokens \subseteq Tokens
ASSUME TicksAssumption == MaxTicks \in Nat \ {0} /\ MaxCrashes \in Nat

VARIABLES
    evidence,   \* committed detections, incidents and events
    story,      \* story[r]: the row of attack_stories and its events
    active,     \* _ACTIVE_RUNS
    pc,         \* pc[r]: where the task of run r waits
    want,       \* want[r]: the status r is about to store, or has
    ticks,      \* ticks[r]: _ticks
    old,        \* old[r]: rows with a date outside the window of r
    told,       \* told[r]: the timeline r has read
    todo,       \* todo[r]: indicators of it that are still to be written
    stopping,   \* is the process being stopped?
    crashes     \* how often it was started again

runs == <<story, active, pc, want, ticks, old, told, todo>>
vars == <<intel, evidence, runs, stopping, crashes>>

-----------------------------------------------------------------------------
(* tactics.py and narrator.py                                              *)

TACTIC ==
    [telemetry |-> <<>>, transition |-> ("offline" :> "Impact") @@ ("compromised" :> "Execution")
                                        @@ ("lockdown" :> "Defense Evasion"),
     detection |->
        [w \in {"RULE-001", "RULE-002", "RULE-008"} |-> "Impact"]
        @@ [w \in {"RULE-003", "RULE-010"} |-> "Exfiltration"]
        @@ ("RULE-004" :> "Initial Access") @@ ("RULE-005" :> "Collection")
        @@ ("RULE-006" :> "Credential Access") @@ ("RULE-007" :> "Persistence")
        @@ ("RULE-009" :> "Discovery"),
     incident |->
        ("R001" :> "Impact") @@ ("R002" :> "Initial Access") @@ ("R003" :> "Credential Access")
        @@ ("R004" :> "Command and Control") @@ ("R005" :> "Lateral Movement")
        @@ ("R006" :> "Execution"),
     event |->
        [w \in {"DEVICE_ANOMALY", "APPLICATION_ANOMALY", "MALWARE_DETECTED"} |-> "Execution"]
        @@ ("NETWORK_ANOMALY" :> "Command and Control")
        @@ ("AUTHENTICATION_ANOMALY" :> "Credential Access")
        @@ ("TOPOLOGY_DEVIATION" :> "Lateral Movement") @@ ("OPERATIONAL_ANOMALY" :> "Impact")
        @@ ("SECURITY_STATE_CHANGE" :> "Defense Evasion")
        @@ ("INTRUSION_ATTEMPT" :> "Initial Access") @@ ("DATA_EXFILTRATION" :> "Exfiltration")
        @@ ("CONFIG_CHANGE" :> "Persistence")]

\* The entries of a timeline that have a tactic, by tactic.
tactic_summary(timeline) ==
    LET known == {e \in timeline : e.what \in DOMAIN TACTIC[e.kind]}
        Tactic(e) == TACTIC[e.kind][e.what]
    IN [t \in {Tactic(e) : e \in known} |-> Cardinality({e \in known : Tactic(e) = t})]

SIGNATURES ==
    {[name |-> "vehicle_gateway_compromise", least |-> 2,
      tactics |-> {"Persistence", "Discovery", "Impact"}],
     [name |-> "warehouse_iot_compromise", least |-> 2,
      tactics |-> {"Initial Access", "Collection", "Impact"}],
     [name |-> "credential_anomaly", least |-> 1, tactics |-> {"Credential Access"}]}

\* The signature with the largest share of its tactics present, in sixths; of
\* equal shares the first of the list, and the first two cannot both be whole.
attribute(present) ==
    LET Share(g) == (6 * Cardinality(g.tactics \cap present)) \div Cardinality(g.tactics)
        fits == {g \in SIGNATURES : Cardinality(g.tactics \cap present) >= g.least}
        best == {g \in fits : \A h \in fits : Share(h) <= Share(g)}
    IN IF fits = {} THEN "unknown"
       ELSE CHOOSE n \in {g.name : g \in best} :
               \A m \in {g.name : g \in best} :
                   LET Place == [vehicle_gateway_compromise |-> 1,
                                 warehouse_iot_compromise |-> 2, credential_anomaly |-> 3]
                   IN Place[n] <= Place[m]

-----------------------------------------------------------------------------

Status == {"running", "completed", "cancelled", "failed", "analyzed"}

ASSUME StatusAssumption == None \notin Status \cup {"unknown"} \cup {g.name : g \in SIGNATURES}

NoStory == [status |-> None, ended |-> FALSE, events |-> <<>>, tactics |-> <<>>, guess |-> None]

Init ==
    /\ IntelInit
    /\ evidence = {} /\ active = {} /\ stopping = FALSE /\ crashes = 0
    /\ story = [r \in Runs |-> NoStory]
    /\ pc = [r \in Runs |-> "none"]
    /\ want = [r \in Runs |-> None]
    /\ ticks = [r \in Runs |-> 0]
    /\ old = [r \in Runs |-> {}]
    /\ told = [r \in Runs |-> {}]
    /\ todo = [r \in Runs |-> {}]

Goto(r, p) == pc' = [pc EXCEPT ![r] = p]

\* Mutant: the entry is dropped on success only.
OverKeepsEntry(r) ==
    /\ Goto(r, "over")
    /\ active' = IF want[r] = "completed" THEN active \ {r} ELSE active
    /\ told' = [told EXCEPT ![r] = {}]
    /\ todo' = [todo EXCEPT ![r] = {}]

\* The task is over: run's finally, and what its sessions held is rolled back.
Over(r) ==
    /\ Goto(r, "over")
    /\ active' = active \ {r}
    /\ told' = [told EXCEPT ![r] = {}]
    /\ todo' = [todo EXCEPT ![r] = {}]

\* start_attack, of a known target and scenario.
Start(r) ==
    /\ pc[r] = "none" /\ ~stopping
    /\ story' = [story EXCEPT ![r].status = "running"]
    /\ active' = active \cup {r}
    /\ \E before \in SUBSET evidence : old' = [old EXCEPT ![r] = before]
    /\ Goto(r, "ticking")
    /\ UNCHANGED <<intel, evidence, want, ticks, told, todo, stopping, crashes>>

\* An incident is dated by its oldest member, up to two minutes back, and what
\* others send brings its own date: either may lie outside of a window.  The
\* members of an incident are telemetry too, which is no evidence by itself.
Dated(rows) ==
    \E out \in [Runs -> SUBSET {e \in rows : e.kind = "incident" \/ e.by = None}] :
        old' = [r \in Runs |-> old[r] \cup out[r]]

\* The rows of the next tick.
Left(r) ==
    {[kind |-> t.kind, what |-> t.what, by |-> <<r, ticks[r]>>, tokens |-> t.tokens] : t \in Trace[r]}

\* _tick: an ingest that fails is logged, and the run goes on.
Tick(r) ==
    /\ pc[r] = "ticking" /\ ticks[r] < MaxTicks
    /\ LET found == extract_from_dict(Payload[r]) IN
       \/ /\ \A i \in found : Free(i, r)
          /\ evidence' = evidence \cup Left(r) /\ Dated(Left(r))
          /\ Observe(found, "telemetry", r)
          /\ ticks' = [ticks EXCEPT ![r] = @ + 1]
       \/ UNCHANGED <<evidence, intel, ticks, old>>
    /\ UNCHANGED <<story, active, pc, want, told, todo, stopping, crashes>>

\* The deadline, or an error outside of the ingest.
Leave(r, status) ==
    /\ pc[r] = "ticking"
    /\ want' = [want EXCEPT ![r] = status]
    /\ Goto(r, "finalizing")
    /\ UNCHANGED <<intel, evidence, story, active, ticks, old, told, todo, stopping, crashes>>

\* Mutant: the end of the story is left to build_story.
FinalizeStatusOnly(r) ==
    /\ pc[r] = "finalizing"
    /\ story' = [story EXCEPT ![r].status = want[r]]
    /\ Goto(r, "building")
    /\ UNCHANGED <<intel, evidence, active, want, ticks, old, told, todo, stopping, crashes>>

\* _finalize: the status and the end of the story.
Finalize(r) ==
    /\ pc[r] = "finalizing"
    /\ story' = [story EXCEPT ![r] =
                    [status |-> want[r], ended |-> TRUE, events |-> @.events,
                     tactics |-> @.tactics, guess |-> @.guess]]
    /\ Goto(r, "building")
    /\ UNCHANGED <<intel, evidence, active, want, ticks, old, told, todo, stopping, crashes>>

\* Its commit fails.  run catches that once, as the failure of the run.
FinalizeFails(r) ==
    /\ pc[r] = "finalizing"
    /\ \/ /\ want[r] = "completed"
          /\ want' = [want EXCEPT ![r] = "failed"]
          /\ UNCHANGED <<active, pc, told, todo>>
       \/ want[r] # "completed" /\ Over(r) /\ want' = want
    /\ UNCHANGED <<intel, evidence, story, ticks, old, stopping, crashes>>

\* build_timeline: every asset's rows with a date inside the window.
BuildRead(r) ==
    /\ pc[r] = "building"
    /\ LET timeline == evidence \ old[r] IN
       /\ told' = [told EXCEPT ![r] = timeline]
       /\ todo' = [todo EXCEPT ![r] = extract_from_dict(UNION {e.tokens : e \in timeline})]
    /\ Goto(r, "telling")
    /\ UNCHANGED <<intel, evidence, story, active, want, ticks, old, stopping, crashes>>

\* persist_iocs inside build_story: the row stays locked.
Persist(r, i) ==
    /\ pc[r] = "telling" /\ i \in todo[r] /\ Free(i, r)
    /\ locks' = [locks EXCEPT ![i] = r]
    /\ todo' = [todo EXCEPT ![r] = @ \ {i}]
    /\ UNCHANGED <<iocs, confidence, seen, fresh, sweep, evidence, story, active, pc, want,
                   ticks, old, told, stopping, crashes>>

Added(bag, set) ==
    [e \in DOMAIN bag \cup set |->
        (IF e \in DOMAIN bag THEN bag[e] ELSE 0) + (IF e \in set THEN 1 ELSE 0)]

Replaced(f, g) == [x \in DOMAIN f \cup DOMAIN g |-> IF x \in DOMAIN g THEN g[x] ELSE f[x]]

\* The commit of build_story: events are added to those that are there, the
\* tactics are replaced one by one.  A status of "running" would change too.
BuildCommit(r) ==
    /\ pc[r] = "telling" /\ todo[r] = {}
    /\ LET summary == tactic_summary(told[r]) IN
       story' = [story EXCEPT ![r] =
            [status  |-> IF @.status = "running" THEN "analyzed" ELSE @.status,
             ended   |-> TRUE,
             events  |-> Added(@.events, told[r]),
             tactics |-> Replaced(@.tactics, summary),
             guess   |-> attribute(DOMAIN summary)]]
    /\ Observe(extract_from_dict(UNION {e.tokens : e \in told[r]}), "story_event", r)
    /\ Goto(r, "closing")
    /\ UNCHANGED <<evidence, active, want, ticks, old, told, todo, stopping, crashes>>

\* A statement of build_story fails, or PostgreSQL breaks a deadlock at its
\* expense: _finalize logs it, and the story keeps the status it has.
BuildFails(r) ==
    /\ pc[r] \in {"building", "telling"}
    /\ locks' = Release(r)
    /\ Over(r)
    /\ UNCHANGED <<iocs, confidence, seen, fresh, sweep, evidence, story, want, ticks, old,
                   stopping, crashes>>

\* Mutant: an error while the session is closed counts as a failed run.
CloseRaises(r) ==
    /\ pc[r] = "closing"
    /\ \/ Over(r) /\ want' = want
       \/ /\ want[r] = "completed"
          /\ want' = [want EXCEPT ![r] = "failed"]
          /\ Goto(r, "finalizing")
          /\ UNCHANGED <<active, told, todo>>
    /\ UNCHANGED <<intel, evidence, story, ticks, old, stopping, crashes>>

\* build_story's session is closed, and run is done.
Close(r) ==
    /\ pc[r] = "closing"
    /\ Over(r)
    /\ UNCHANGED <<intel, evidence, story, want, ticks, old, stopping, crashes>>

\* Somebody else ingests an event, indicators and all.
Ingest(f) ==
    /\ f \notin evidence
    /\ LET found == extract_from_dict(f.tokens) IN
       /\ \A i \in found : locks[i] = None
       /\ evidence' = evidence \cup {f} /\ Dated({f})
       /\ Observe(found, "event", None)
    /\ UNCHANGED <<story, active, pc, want, ticks, told, todo, stopping, crashes>>

-----------------------------------------------------------------------------
(* The end of the process.                                                 *)

Waiting(r) == pc[r] \in {"ticking", "finalizing", "building", "telling", "closing"}

\* Requests are answered, then every task is cancelled once.  A run that was
\* on its way to "completed" stores "cancelled" and builds its story; one that
\* is already in a handler of run's own is over.
Shutdown ==
    /\ ~stopping /\ sweep = None /\ crashes < MaxCrashes
    /\ stopping' = TRUE
    /\ LET caught == {r \in Runs : Waiting(r) /\ want[r] \in {None, "completed"}}
           lost   == {r \in Runs : Waiting(r)} \ caught
       IN
       /\ pc' = [r \in Runs |-> IF r \in caught THEN "finalizing"
                                ELSE IF r \in lost THEN "over" ELSE pc[r]]
       /\ want' = [r \in Runs |-> IF r \in caught THEN "cancelled" ELSE want[r]]
       /\ active' = active \ lost
       /\ locks' = [i \in Indicators |-> IF locks[i] \in Runs THEN None ELSE locks[i]]
       /\ told' = [r \in Runs |-> {}]
       /\ todo' = [r \in Runs |-> {}]
    /\ UNCHANGED <<iocs, confidence, seen, fresh, sweep, evidence, story, ticks, old, crashes>>

\* The process is gone, after a stop or by itself, and another one starts;
\* nobody looks for runs that were under way.
Restart ==
    /\ crashes < MaxCrashes
    /\ crashes' = crashes + 1
    /\ stopping' = FALSE
    /\ active' = {}
    /\ pc' = [r \in Runs |-> IF Waiting(r) THEN "over" ELSE pc[r]]
    /\ locks' = [i \in Indicators |-> None]
    /\ sweep' = None
    /\ told' = [r \in Runs |-> {}]
    /\ todo' = [r \in Runs |-> {}]
    /\ UNCHANGED <<iocs, confidence, seen, fresh, evidence, story, want, ticks, old>>

Needs(who) == IF who = "sweep" THEN sweep.todo ELSE todo[who]

\* Two transactions that wait for each other's rows.
Deadlocked(r) ==
    \E i \in todo[r] :
        /\ locks[i] \notin {None, r}
        /\ \E j \in Needs(locks[i]) : locks[j] = r

EnrichMoves ==
    /\ EnrichCommit \/ \E i \in Indicators : Enrich(i)
    /\ UNCHANGED <<evidence, runs, stopping, crashes>>

EnrichStops == EnrichFail /\ UNCHANGED <<evidence, runs, stopping, crashes>>

EnrichBegins ==
    /\ (EnrichStart /\ ~stopping) \/ Expire
    /\ UNCHANGED <<evidence, runs, stopping, crashes>>

Step(r) ==
    \/ Start(r) \/ Tick(r) \/ Leave(r, "completed") \/ Leave(r, "failed")
    \/ Finalize(r) \/ FinalizeFails(r) \/ BuildRead(r)
    \/ \E i \in Indicators : Persist(r, i)
    \/ BuildCommit(r) \/ BuildFails(r) \/ Close(r)

Next ==
    \/ \E r \in Runs : Step(r)
    \/ \E f \in Foreign : Ingest(f)
    \/ EnrichBegins \/ EnrichMoves \/ EnrichStops
    \/ Shutdown \/ Restart

\* The loop runs a task that can go on, deadlines pass, an enrichment's
\* queries time out, and PostgreSQL breaks a deadlock.
Fairness ==
    /\ \A r \in Runs :
          /\ WF_vars(Leave(r, "completed") \/ Finalize(r) \/ BuildRead(r) \/ BuildCommit(r)
                     \/ Close(r))
          /\ \A i \in Indicators : SF_vars(Persist(r, i))
          /\ WF_vars(Deadlocked(r) /\ (BuildFails(r) \/ EnrichStops))
    /\ WF_vars(EnrichMoves)

Spec == Init /\ [][Next]_vars /\ Fairness

-----------------------------------------------------------------------------

\* The shape of the state, and how its parts go together: a story has an end
\* if and only if its run has left "running", a run in _ACTIVE_RUNS has a task,
\* a locked row belongs to a transaction that is open.
TypeOK ==
    /\ iocs \subseteq Indicators /\ fresh \subseteq iocs
    /\ \A i \in Indicators : confidence[i] \in {None, 10, 70, 95} /\ (confidence[i] # None => i \in iocs)
    /\ \A o \in seen : o.ioc \in iocs
    /\ \A r \in Runs :
          /\ story[r].status \in Status \cup {None}
          /\ story[r].ended <=> story[r].status \notin {None, "running"}
          /\ r \in active <=> Waiting(r)
          /\ ticks[r] \in 0..MaxTicks
    /\ \A i \in Indicators :
          /\ locks[i] = "sweep" => sweep # None
          /\ locks[i] \in Runs => pc[locks[i]] = "telling"

\* A story that was built tells every row its run's ticks left, but for the
\* incidents that are dated before its window, and only rows of its window,
\* each of them once, unless the run was cancelled after its story was stored;
\* its counts by tactic are those of its events.  One that was not built tells
\* nothing.  And the story of a run that is over says "running" only when the
\* process ended before its status was stored, or the store of a failure or a
\* cancellation failed (AttackRunner.run, _finalize, build_story).
StoryTellsRun ==
    \A r \in Runs :
        LET s == story[r] IN
        /\ IF s.guess = None THEN s.events = <<>>
           ELSE /\ {e \in evidence : /\ e.by # None /\ e.by[1] = r
                                     /\ e.kind = "incident" => e \notin old[r]}
                       \subseteq DOMAIN s.events
                /\ DOMAIN s.events \subseteq evidence \ old[r]
                /\ \A e \in DOMAIN s.events : s.events[e] = 1 \/ want[r] = "cancelled"
                /\ pc[r] = "over" => s.tactics = tactic_summary(DOMAIN s.events)
        /\ pc[r] = "over" /\ s.status = "running" =>
              crashes > 0 \/ want[r] \in {"failed", "cancelled"}

\* A run that was started leaves _ACTIVE_RUNS, whatever fails on the way and
\* whoever holds the rows it wants (AttackRunner.run).
RunsEnd == \A r \in Runs : r \in active ~> r \notin active

\* One more of row e.
Gains(r, e) ==
    /\ e \in DOMAIN story'[r].events
    /\ e \notin DOMAIN story[r].events \/ story'[r].events[e] # story[r].events[e]

Holds(i, tokens) == i \in extract_from_dict(tokens)

\* A confidence comes with the end of an enrichment that stored a verdict of
\* the same indicator, and goes only when something that holds this indicator
\* is stored: the telemetry of a tick, an event, or a row that a story tells
\* (enrich_ioc, IOCRepository.upsert).
ConfidenceEarned ==
    [][\A i \in Indicators : confidence'[i] # confidence[i] =>
          IF confidence'[i] # None THEN sweep # None /\ i \in sweep.rows /\ i \in fresh'
          ELSE \/ \E r \in Runs : ticks'[r] # ticks[r] /\ Holds(i, Payload[r])
               \/ \E e \in evidence' \ evidence : Holds(i, e.tokens)
               \/ \E r \in Runs : \E e \in told[r] : Gains(r, e) /\ Holds(i, e.tokens)]_vars
=============================================================================
