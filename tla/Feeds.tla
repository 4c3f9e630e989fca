------------------------------- MODULE Feeds -------------------------------
(***************************************************************************)
(* What enters and leaves the api process beside its routes.               *)
(*                                                                         *)
(*   mqtt     ingestion/mqtt_client.py.  A thread of the client library    *)
(*            hands every message to the event loop as a coroutine of its  *)
(*            own; counters are kept for GET /mqtt/status.                 *)
(*   alerts   api_sources/wazuh_adapter.py polls a list of alerts,         *)
(*            api_sources/suricata_adapter.py tails a file, and both post  *)
(*            what is new to the api's own /api/events.                    *)
(*   ditto    ingestion/ditto_sync.py copies states and risks to Eclipse   *)
(*            Ditto, from a loop and from POST /ditto/sync.                *)
(*   traffic  the generator of module Traffic posts readings to it.        *)
(*                                                                         *)
(* They share the process, which may be restarted, and nothing else: a     *)
(* behaviour follows one of them, and one of the two forwarders.           *)
(***************************************************************************)
EXTENDS Traffic, FiniteSets

CONSTANTS
    Messages,    \* messages of the broker
    Topic,       \* Topic[m], the kind parse_topic gives it
    Body,        \* Body[m]: what its payload is
    Alerts,      \* the alerts the Wazuh manager lists
    Lines,       \* lines Suricata writes to eve.json
    Shape,       \* Shape[x]: what is odd about an alert or a line
    Things,      \* assets
    MaxVersion,  \* bound: changes of an asset's state and of its risk
    MaxRequests, \* bound: calls of POST /ditto/sync
    MaxFaults,   \* bound: outages of Ditto and errors of the database
    MaxRestarts  \* bound: restarts of the api process

Counters == {"ingested", "rejected_parse", "rejected_validation", "ingest_errors"}
Syncs == {"loop", "request"}

ASSUME MessagesAssumption ==
    /\ IsFiniteSet(Messages)
    /\ \A m \in Messages : /\ Topic[m] \in {"telemetry", "event", "status"}
                           /\ Body[m] \in {"valid", "invalid", "not an object", "not json"}
ASSUME FeedsAssumption ==
    /\ Lines = 1..Cardinality(Lines) /\ Alerts \cap Lines = {}
    /\ \A a \in Alerts : Shape[a] \in {"good", "no id", "no agent"}
    /\ \A l \in Lines : Shape[l] \in {"good", "split", "no object"}
    /\ {MaxVersion, MaxRequests, MaxFaults, MaxRestarts} \subseteq Nat

VARIABLES
    feed,      \* what this behaviour follows
    restarts,
    client,    \* the bridge's client: "none", "dialing" or "connected"
    msgs,      \* msgs[m]: where message m is
    stats,     \* MQTTBridge._stats
    stored,    \* messages whose telemetry is committed
    seen,      \* WazuhAdapter._seen_ids
    listed,    \* alerts of the current poll that are still to be looked at
    size,      \* half lines in eve.json
    offset,    \* SuricataAdapter._offset, in half lines
    batch,     \* lines that are read and still to be posted
    posted,    \* posted[x]: the events route got x once, or (2) more than once
    failed,    \* history: what a post did not reach the route with
    cuts,      \* history: where the passes over eve.json ended
    twin,      \* twin[a]: [state, risk], versions
    things,    \* things[a]: what Ditto has
    up,        \* Ditto answers
    sync,      \* sync[w]: a run of sync_once
    requests, faults

mqttVars == <<client, msgs, stats, stored>>
alertVars == <<seen, listed, size, offset, batch, posted, failed, cuts>>
dittoVars == <<twin, things, up, sync, requests, faults>>
vars == <<feed, restarts, mqttVars, alertVars, dittoVars, trafficVars>>

-----------------------------------------------------------------------------
(* The bridge.                                                             *)

\* connect() that fails sets the client back to None, and nothing tries again.
Clients == IF feed = "mqtt" THEN {"dialing", "none"} ELSE {"none"}
NoStats == [c \in Counters \cup {"received"} |-> 0]

OnConnect ==
    /\ client = "dialing"
    /\ client' = "connected"
    /\ UNCHANGED <<msgs, stats, stored>>

OnDisconnect ==
    /\ client = "connected"
    /\ client' = "dialing"
    /\ UNCHANGED <<msgs, stats, stored>>

\* _on_message, in the library's thread.  With clean_session the broker keeps
\* nothing for a client that is away.
OnMessage(m) ==
    /\ client = "connected" /\ msgs[m] = "broker"
    /\ msgs' = [msgs EXCEPT ![m] = "scheduled"]
    /\ stats' = [stats EXCEPT !.received = @ + 1]
    /\ UNCHANGED <<client, stored>>

Ends(m, outcome) ==
    /\ msgs' = [msgs EXCEPT ![m] = outcome]
    /\ stats' = IF outcome \in Counters THEN [stats EXCEPT ![outcome] = @ + 1] ELSE stats

\* What _handle_message does with a message it does not ingest.  A payload
\* that is JSON and no object has no setdefault: the exception is nobody's.
Verdict(m) ==
    IF Topic[m] = "status" THEN "ignored"
    ELSE CASE Body[m] = "not json"      -> "rejected_parse"
           [] Body[m] = "not an object" -> "raised"
           [] Body[m] = "invalid"       -> "rejected_validation"
           [] Body[m] = "valid"         -> "ingesting"

Handle(m) ==
    /\ msgs[m] = "scheduled"
    /\ Ends(m, Verdict(m))
    /\ UNCHANGED <<client, stored>>

\* ingest_telemetry commits before it correlates and detects.
StoreTelemetry(m) ==
    /\ msgs[m] = "ingesting" /\ Topic[m] = "telemetry" /\ m \notin stored
    /\ stored' = stored \cup {m}
    /\ UNCHANGED <<client, msgs, stats>>

Ingested(m) ==
    /\ msgs[m] = "ingesting" /\ (Topic[m] = "telemetry" => m \in stored)
    /\ Ends(m, "ingested")
    /\ UNCHANGED <<client, stored>>

\* Mutant: the return after the except clause is missing.
IngestFailsCounted(m) ==
    /\ msgs[m] = "ingesting"
    /\ msgs' = [msgs EXCEPT ![m] = "ingest_errors"]
    /\ stats' = [stats EXCEPT !.ingest_errors = @ + 1, !.ingested = @ + 1]
    /\ UNCHANGED <<client, stored>>

\* Unknown asset, value out of range, failed statement.
IngestFails(m) ==
    /\ msgs[m] = "ingesting"
    /\ Ends(m, "ingest_errors")
    /\ UNCHANGED <<client, stored>>

Mqtt ==
    /\ feed = "mqtt"
    /\ \/ OnConnect \/ OnDisconnect
       \/ \E m \in Messages :
             OnMessage(m) \/ Handle(m) \/ StoreTelemetry(m) \/ Ingested(m) \/ IngestFails(m)
    /\ UNCHANGED <<feed, restarts, alertVars, dittoVars, trafficVars>>

-----------------------------------------------------------------------------
(* The forwarders.  A post either reaches the events route or does not, and *)
(* its answer may be late: the adapters look at neither.                   *)

Outcomes == {"answered", "timed out", "unreachable"}

Post(x, outcome) ==
    IF outcome = "unreachable" THEN failed' = failed \cup {x} /\ UNCHANGED posted
    ELSE posted' = [posted EXCEPT ![x] = IF @ = 0 THEN 1 ELSE 2] /\ UNCHANGED failed

\* The manager lists its latest alerts, up to a limit.
fetch_alerts ==
    /\ listed = {}
    /\ listed' \in SUBSET Alerts
    /\ UNCHANGED <<seen, size, offset, batch, posted, failed, cuts>>

\* Mutant: an alert counts as seen when its post was answered.
ForwardAlertConfirmed(a, outcome) ==
    /\ a \in listed
    /\ listed' = listed \ {a}
    /\ IF a \in seen THEN UNCHANGED <<seen, posted, failed>>
       ELSE /\ seen' = IF outcome = "answered" THEN seen \cup {a} ELSE seen
            /\ Post(a, outcome)
    /\ UNCHANGED <<size, offset, batch, cuts>>

\* An alert counts as seen before it is posted, and one without an id never
\* does.  One whose agent is no object ends the poll in between: the exception
\* is caught around the whole of it.
ForwardAlert(a, outcome) ==
    /\ a \in listed
    /\ IF a \in seen THEN listed' = listed \ {a} /\ UNCHANGED <<seen, posted, failed>>
       ELSE /\ seen' = IF Shape[a] = "no id" THEN seen ELSE seen \cup {a}
            /\ IF Shape[a] = "no agent" THEN listed' = {} /\ UNCHANGED <<posted, failed>>
               ELSE listed' = listed \ {a} /\ Post(a, outcome)
    /\ UNCHANGED <<size, offset, batch, cuts>>

\* Suricata appends; a reader may find a line half written.
WriteEve ==
    /\ size < 2 * Cardinality(Lines)
    /\ size' = size + 1
    /\ UNCHANGED <<seen, listed, offset, batch, posted, failed, cuts>>

\* A line is read whole, or its first half at the end of one pass and the rest
\* at the start of the next.
Whole == {l \in Lines : offset <= 2 * (l - 1) /\ 2 * l <= size}

\* Lines that raise what is caught around the whole pass: JSON that is no
\* object has no get, and half a character at the end does not decode.
Stops == {l \in Whole : Shape[l] = "no object"}
         \cup {l \in Lines : Shape[l] = "split" /\ size = 2 * l - 1}

\* Mutant: the offset is moved in a finally clause.
TailMovesOn ==
    /\ batch = {} /\ offset < size
    /\ batch' = {l \in Whole : \A k \in Stops : l < k}
    /\ offset' = size /\ cuts' = cuts \cup {size}
    /\ UNCHANGED <<seen, listed, size, posted, failed>>

\* A half alone does not parse and is passed over.  A pass that is stopped
\* returns what it has read and leaves the offset where it was.
tail_alerts ==
    /\ batch = {} /\ offset < size
    /\ batch' = {l \in Whole : \A k \in Stops : l < k}
    /\ IF Stops = {} THEN offset' = size /\ cuts' = cuts \cup {size}
       ELSE UNCHANGED <<offset, cuts>>
    /\ UNCHANGED <<seen, listed, size, posted, failed>>

ForwardLine(l, outcome) ==
    /\ l \in batch
    /\ batch' = batch \ {l}
    /\ Post(l, outcome)
    /\ UNCHANGED <<seen, listed, size, offset, cuts>>

Forwarders ==
    /\ \/ /\ feed = "wazuh"
          /\ fetch_alerts \/ \E a \in Alerts, o \in Outcomes : ForwardAlert(a, o)
       \/ /\ feed = "suricata"
          /\ WriteEve \/ tail_alerts \/ \E l \in Lines, o \in Outcomes : ForwardLine(l, o)
    /\ UNCHANGED <<feed, restarts, mqttVars, dittoVars, trafficVars>>

-----------------------------------------------------------------------------
(* Ditto.                                                                  *)

Idle == [pc |-> "idle", todo |-> {}, state |-> None, payload |-> <<>>]

\* An ingest changes the state, a sweep the risk.
Changes(a, part) ==
    /\ twin[a][part] < MaxVersion
    /\ twin' = [twin EXCEPT ![a][part] = @ + 1]
    /\ UNCHANGED <<things, up, sync, requests, faults>>

\* The loop has slept, or a request has come in, and Ditto's search answers;
\* when it does not, sync_once returns 0.
health(w) ==
    /\ sync[w].pc = "idle" /\ up
    /\ w = "request" => requests < MaxRequests
    /\ requests' = IF w = "request" THEN requests + 1 ELSE requests
    /\ sync' = [sync EXCEPT ![w] = [Idle EXCEPT !.pc = "reading", !.todo = Things]]
    /\ UNCHANGED <<twin, things, up, faults>>

Remaining(w) == sync[w].todo
Current(w) == CHOOSE a \in Remaining(w) : TRUE

\* The state comes from memory; its risk from the database, after an await.
ReadState(w) ==
    /\ sync[w].pc = "reading" /\ sync[w].state = None /\ Remaining(w) # {}
    /\ sync' = [sync EXCEPT ![w].state = twin[Current(w)].state]
    /\ UNCHANGED <<twin, things, up, requests, faults>>

ReadRisk(w) ==
    /\ sync[w].pc = "reading" /\ sync[w].state # None
    /\ LET a == Current(w)
           p == [state |-> sync[w].state, risk |-> twin[a].risk]
       IN sync' = [sync EXCEPT ![w].state = None, ![w].todo = @ \ {a},
                               ![w].payload = [x \in (DOMAIN @) \cup {a} |-> IF x = a THEN p ELSE @[x]]]
    /\ UNCHANGED <<twin, things, up, requests, faults>>

\* upsert_thing: a thing whose policy is missing is put again without one; a
\* PUT that fails is logged and the next one follows.
Push(w) ==
    /\ sync[w].pc = "reading" /\ Remaining(w) = {}
    /\ IF sync[w].payload = <<>>
       THEN sync' = [sync EXCEPT ![w] = Idle] /\ UNCHANGED things
       ELSE LET a == CHOOSE x \in DOMAIN sync[w].payload : TRUE
            IN /\ things' = IF up THEN [things EXCEPT ![a] = sync[w].payload[a]] ELSE things
               /\ sync' = [sync EXCEPT ![w].payload = [x \in (DOMAIN @) \ {a} |-> @[x]]]
    /\ UNCHANGED <<twin, up, requests, faults>>

\* Mutant: an error ends the loop.
SyncFailsForGood(w) ==
    /\ sync[w].pc = "reading" /\ Remaining(w) # {} /\ faults < MaxFaults
    /\ faults' = faults + 1
    /\ sync' = [sync EXCEPT ![w] = [Idle EXCEPT !.pc = IF w = "loop" THEN "over" ELSE "idle"]]
    /\ UNCHANGED <<twin, things, up, requests>>

\* A statement fails; ditto_sync_loop logs it and sleeps, a request answers 500.
SyncFails(w) ==
    /\ sync[w].pc = "reading" /\ Remaining(w) # {} /\ faults < MaxFaults
    /\ faults' = faults + 1
    /\ sync' = [sync EXCEPT ![w] = Idle]
    /\ UNCHANGED <<twin, things, up, requests>>

DittoDown ==
    /\ up /\ faults < MaxFaults
    /\ up' = FALSE /\ faults' = faults + 1
    /\ UNCHANGED <<twin, things, sync, requests>>

DittoUp ==
    /\ ~up
    /\ up' = TRUE
    /\ UNCHANGED <<twin, things, sync, requests, faults>>

OfDitto == feed = "ditto" /\ UNCHANGED <<feed, restarts, mqttVars, alertVars, trafficVars>>

sync_once(w) == health(w) \/ ReadState(w) \/ ReadRisk(w) \/ Push(w)

Ditto ==
    /\ OfDitto
    /\ \/ \E a \in Things, part \in {"state", "risk"} : Changes(a, part)
       \/ \E w \in Syncs : sync_once(w) \/ SyncFails(w)
       \/ DittoDown \/ DittoUp

Generator ==
    /\ feed = "traffic"
    /\ Generate
    /\ UNCHANGED <<feed, restarts, mqttVars, alertVars, dittoVars>>

-----------------------------------------------------------------------------

\* The lifespan ends and starts again, or the process dies: scheduled
\* coroutines, counters, seen alerts and the offset are gone.
Restart ==
    /\ restarts < MaxRestarts
    /\ restarts' = restarts + 1
    /\ client' \in Clients
    /\ msgs' = [m \in Messages |-> IF msgs[m] = "broker" THEN "broker" ELSE "gone"]
    /\ stats' = NoStats
    /\ seen' = {} /\ listed' = {} /\ offset' = 0 /\ batch' = {}
    /\ posted' = [x \in Alerts \cup Lines |-> 0] /\ failed' = {} /\ cuts' = {}
    /\ sync' = [w \in Syncs |-> Idle]
    /\ Cut
    /\ UNCHANGED <<feed, stored, size, twin, things, up, requests, faults,
                   generator, road, tracker>>

Init ==
    /\ feed \in {"mqtt", "wazuh", "suricata", "ditto", "traffic"}
    /\ TrafficInit(IF feed = "traffic" THEN {"normal", "attack"} ELSE {"normal"})
    /\ restarts = 0
    /\ client \in Clients
    /\ msgs = [m \in Messages |-> "broker"]
    /\ stats = NoStats /\ stored = {}
    /\ seen = {} /\ listed = {} /\ size = 0 /\ offset = 0 /\ batch = {}
    /\ posted = [x \in Alerts \cup Lines |-> 0] /\ failed = {} /\ cuts = {}
    /\ twin = [a \in Things |-> [state |-> 0, risk |-> 0]]
    /\ things = [a \in Things |-> None]
    /\ up \in IF feed = "ditto" THEN BOOLEAN ELSE {TRUE}
    /\ sync = [w \in Syncs |-> Idle]
    /\ requests = 0 /\ faults = 0

Next == Mqtt \/ Forwarders \/ Ditto \/ Generator \/ Restart

\* The loop's sleep ends, calls of the database and of Ditto have timeouts,
\* and Ditto comes back.
Fairness ==
    /\ \A w \in Syncs :
          WF_vars(OfDitto /\ (ReadState(w) \/ ReadRisk(w) \/ Push(w) \/ (w = "loop" /\ health(w))))
    /\ WF_vars(OfDitto /\ DittoUp)

Spec == Init /\ [][Next]_vars /\ Fairness

-----------------------------------------------------------------------------

\* Of the messages a process received, the counters of GET /mqtt/status miss
\* those in flight, those on the status topic and those whose payload is no
\* object, and count every other one once, under what became of it; what is
\* counted as ingested telemetry is stored (MQTTBridge._handle_message).
CountersBalance ==
    LET mine == {m \in Messages : msgs[m] \notin {"broker", "gone"}}
        uncounted == {m \in mine : \/ msgs[m] \in {"scheduled", "ingesting"}
                                   \/ Topic[m] = "status"
                                   \/ Body[m] = "not an object"}
    IN /\ stats.received = Cardinality(mine)
       /\ stats.received = stats.ingested + stats.rejected_parse + stats.rejected_validation
                            + stats.ingest_errors + Cardinality(uncounted)
       /\ stats.ingested <= Cardinality({m \in mine : Body[m] = "valid"})
       /\ \A m \in mine : msgs[m] = "ingested" /\ Topic[m] = "telemetry" => m \in stored

\* From one process, an alert with an id reaches the events route at most once,
\* and a line of eve.json more than once only if a later line can stop the
\* reader.  And nothing is lost silently but in four ways: an alert that is
\* marked as seen was posted, or its post did not arrive, or it has no agent; a
\* line before the offset was posted, or is about to be, or its post did not
\* arrive, or a pass ended in its middle.  That is what is true of "forward new
\* ones" and "read newly appended lines" (WazuhAdapter.fetch_alerts,
\* SuricataAdapter.tail_alerts).
PostedOnce ==
    /\ \A a \in Alerts : posted[a] > 1 => Shape[a] = "no id"
    /\ \A l \in Lines : posted[l] > 1 => \E k \in Lines : k > l /\ Shape[k] # "good"
    /\ \A a \in seen : posted[a] > 0 \/ a \in failed \/ Shape[a] = "no agent"
    /\ \A l \in Lines : 2 * l <= offset =>
          posted[l] > 0 \/ l \in batch \/ l \in failed \/ (2 * l - 1) \in cuts

\* Once states and risks stop changing, every thing in Ditto becomes and stays
\* what the twin says, whatever failed before and however a request's sync
\* overlapped the loop's (sync_once, ditto_sync_loop).
ThingsCatchUp == \A a \in Things : feed = "ditto" => <>[](things[a] = twin[a])
=============================================================================
