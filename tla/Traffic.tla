------------------------------ MODULE Traffic ------------------------------
(***************************************************************************)
(* scripts/traffic_generator.py: a process of its own that posts a reading *)
(* of one asset after another to POST /api/telemetry and counts what it is *)
(* answered, with scripts/routing.py for the roads of its trucks.          *)
(*                                                                         *)
(* A point of a road is its distance in km from the centre of the truck's  *)
(* geofence, negative before the centre: what RULE-010 tells apart.  A     *)
(* Gaussian draw has no bounds: it lies any number of standard deviations  *)
(* from its mean, here a whole number of them.  A uniform draw is one of   *)
(* the ends of its range.                                                  *)
(***************************************************************************)
EXTENDS Rules, Sequences, FiniteSetsExt

CONSTANTS
    Fleet,      \* ASSETS: the assets in the order of a tick
    Waypoints,  \* Waypoints[a]: ROUTES, for the trucks
    Osrm,       \* Osrm[a]: the road OSRM knows through them
    Pace,       \* truck_speed, in thousandths of a road
    Draws,      \* standard deviations between a draw and its mean
    Abroad,     \* distance of the injected position, London
    MaxSent     \* bound on the readings of a behaviour

Drivers == DOMAIN Waypoints

ASSUME FleetAssumption ==
    /\ Fleet \in Seq(Assets) /\ Fleet # <<>>
    /\ Drivers = {a \in Assets : TypeOf[a] = "TRUCK"}
    /\ \A a \in Drivers : {Waypoints[a], Osrm[a]} \subseteq Seq(Int) \ {<<>>}
ASSUME PaceAssumption == Pace \in 1..1000 /\ Abroad \in Nat /\ MaxSent \in Nat
ASSUME DrawsAssumption == Draws \subseteq Int
ASSUME AbsentAssumption == None \notin Int /\ None \notin {"OPEN", "OFFLINE", "offline", "v1", "v2"}

VARIABLES
    generator,  \* mode and counters
    road,       \* road[a]: the path of truck a
    tracker,    \* tracker[a]: progress and direction of truck a
    reading     \* the reading that is under way

trafficVars == <<generator, road, tracker, reading>>

-----------------------------------------------------------------------------
(* TruckTracker.                                                           *)

\* next_position moves first, and turns at the ends.
Moved(t) ==
    LET at == t.progress + Pace * t.direction
    IN IF at >= 1000 THEN [progress |-> 1000, direction |-> -1]
       ELSE IF at <= 0 THEN [progress |-> 0, direction |-> 1]
       ELSE [progress |-> at, direction |-> t.direction]

Position(path, t) ==
    LET n == Len(path) - 1
        seg_pos == t.progress * n
        i == Min({seg_pos \div 1000, n - 1})
    IN IF n < 1 THEN path[1]
       ELSE path[i + 1] + ((path[i + 2] - path[i + 1]) * (seg_pos - 1000 * i)) \div 1000

Distance(point) == IF point < 0 THEN -point ELSE point

-----------------------------------------------------------------------------
(* Payloads: what a reading says beside its asset and the asset's type.    *)

Nothing ==
    [asset_id |-> None, asset_type |-> None,
     speed |-> None, temperature |-> None, fuel |-> None, battery |-> None,
     distance |-> None, inRegion |-> TRUE, failed_logins |-> None, firmware |-> None,
     status |-> None, destinations |-> 0, door_status |-> None,
     humidity |-> None, power_consumption |-> None, unusual_api_calls |-> None]

\* A record in which some fields are others.
With(record, fields) ==
    [x \in DOMAIN record |-> IF x \in DOMAIN fields THEN fields[x] ELSE record[x]]

\* The mean and the standard deviation of every reading that is Gaussian.
Gauss(type) ==
    CASE type = "TRUCK"     -> [speed |-> <<55, 12>>, temperature |-> <<-2, 2>>,
                                fuel |-> <<70, 12>>, battery |-> <<85, 5>>]
      [] type = "WAREHOUSE" -> [temperature |-> <<22, 2>>, humidity |-> <<55, 5>>,
                                power_consumption |-> <<45, 8>>]
      [] type = "SENSOR"    -> [temperature |-> <<20, 3>>, humidity |-> <<50, 8>>]
      [] OTHER              -> <<>>

\* Fuel and battery are clamped to 0..100, the others are sent as they come.
Clamped(field, x) ==
    IF field \notin {"fuel", "battery"} \/ x \in 0..100 THEN x
    ELSE IF x < 0 THEN 0 ELSE 100

Drawn(type) ==
    LET g == Gauss(type)
    IN {[x \in DOMAIN g |-> Clamped(x, g[x][1] + k[x] * g[x][2])] : k \in [DOMAIN g -> Draws]}

Fixed(type) ==
    CASE type = "TRUCK"           -> {[status |-> "ACTIVE", distance |-> 0]}
      [] type = "VEHICLE_GATEWAY" -> {[failed_logins |-> n, unusual_api_calls |-> u,
                                       status |-> "ACTIVE", firmware |-> "v2"] :
                                         n \in {0, 2}, u \in {0, 3}}
      [] type = "AUTH_SYSTEM"     -> {[failed_logins |-> n] : n \in {0, 3}}
      [] type \in {"API_GATEWAY", "APPLICATION", "DATABASE"} -> {[unusual_api_calls |-> n] : n \in {0, 5}}
      [] OTHER                    -> {<<>>}

GENERATORS(type) ==
    {With(With(Nothing, fixed), drawn) : fixed \in Fixed(type), drawn \in Drawn(type)}

inject_anomaly(type) ==
    UNION {CASE type = "TRUCK" ->
                  {With(base, [speed |-> v]) : v \in {110, 160}}
                  \cup {With(base, [temperature |-> t]) : t \in {12, 20}}
                  \cup {With(base, [distance |-> Abroad, inRegion |-> FALSE])}
             [] type = "WAREHOUSE" ->
                  {With(base, [temperature |-> t, door_status |-> "OPEN"]) : t \in {42, 55}}
             [] type = "VEHICLE_GATEWAY" ->
                  {With(base, [failed_logins |-> n, unusual_api_calls |-> 150, destinations |-> 5,
                               firmware |-> "v1"]) : n \in {10, 25}}
             [] type = "AUTH_SYSTEM" -> {With(base, [failed_logins |-> n]) : n \in {15, 40}}
             [] OTHER -> {base} : base \in GENERATORS(type)}

\* Mutant: the tracker's position replaces every position.
BuildPayloadTracked(a, body, moved) ==
    LET named == With(body, [asset_id |-> a, asset_type |-> TypeOf[a]])
    IN IF TypeOf[a] # "TRUCK" THEN named
       ELSE With(named, [distance |-> Distance(Position(road[a], moved)), inRegion |-> TRUE])

\* A position that was injected is kept.
BuildPayload(a, body, moved) ==
    LET named == With(body, [asset_id |-> a, asset_type |-> TypeOf[a]])
    IN IF TypeOf[a] # "TRUCK" \/ ~body.inRegion THEN named
       ELSE With(named, [distance |-> Distance(Position(road[a], moved))])

-----------------------------------------------------------------------------
(* The publisher's loop, and what the api does with a reading.             *)

NoReading ==
    [phase |-> "none", anomaly |-> FALSE, payload |-> Nothing, flags |-> {},
     state |-> None, health |-> None, findings |-> {}]

\* The asset whose turn it is.
Turn == Fleet[(generator.sent % Len(Fleet)) + 1]

\* _build_payload and the post; a truck that reports an injected position
\* stays where it is on its road.
Publish ==
    /\ reading.phase = "none" /\ generator.sent < MaxSent
    /\ \E anomaly \in IF generator.mode = "attack" THEN BOOLEAN ELSE {FALSE} :
       \E body \in IF anomaly THEN inject_anomaly(TypeOf[Turn]) ELSE GENERATORS(TypeOf[Turn]) :
          LET drives == Turn \in Drivers /\ body.inRegion
              moved == IF Turn \in Drivers THEN Moved(tracker[Turn]) ELSE None
          IN /\ reading' = With(NoReading, [phase |-> "posted", anomaly |-> anomaly,
                                             payload |-> BuildPayload(Turn, body, moved)])
             /\ tracker' = IF drives THEN [tracker EXCEPT ![Turn] = moved] ELSE tracker
             /\ generator' = With(generator,
                    [sent |-> generator.sent + 1,
                     anomalies |-> generator.anomalies + (IF anomaly THEN 1 ELSE 0)])
    /\ UNCHANGED road

\* The route: a payload out of range is refused and leaves nothing; the twin
\* has taken the payload's firmware when the rules read it.
Receive ==
    /\ reading.phase = "posted"
    /\ LET p == reading.payload
           a == p.asset_id
       IN reading' =
            IF validate(p)
            THEN With(reading, [phase |-> "stored", flags |-> Flags(p),
                                state |-> infer_state(p), health |-> infer_health(p),
                                findings |-> all_rules(a, p, p.firmware)])
            ELSE With(reading, [phase |-> "refused"])
    /\ UNCHANGED <<generator, road, tracker>>

Count(outcome) ==
    /\ generator' = [generator EXCEPT ![outcome] = @ + 1]
    /\ reading' = NoReading
    /\ UNCHANGED <<road, tracker>>

Respond == reading.phase \in {"stored", "refused"} /\ Count(IF reading.phase = "stored" THEN "ok" ELSE "failed")

\* No connection, an error of the api, or ten seconds without an answer, which
\* the api may have been about to give.
Lose == reading.phase # "none" /\ Count("failed")

\* The api's process ends with a reading at hand.
Cut == reading' = IF reading.phase = "none" THEN reading ELSE With(reading, [phase |-> "cut"])

\* OSRM is asked for every truck's road when the module is loaded, and a road
\* it does not answer for is the line through the waypoints; get_road_path
\* remembers either for the second set of trackers.
TrafficInit(modes) ==
    /\ generator \in [mode : modes, sent : {0}, ok : {0}, failed : {0}, anomalies : {0}]
    /\ road \in {r \in [Drivers -> UNION {{Waypoints[a], Osrm[a]} : a \in Drivers}] :
                   \A a \in Drivers : r[a] \in {Waypoints[a], Osrm[a]}}
    /\ tracker = [a \in Drivers |-> [progress |-> 0, direction |-> 1]]
    /\ reading = NoReading

Generate == Publish \/ Receive \/ Respond \/ Lose

-----------------------------------------------------------------------------

\* The truck's road leaves the part of its geofence that is free of warnings.
Strays(a) == \E i \in DOMAIN road[a] : Distance(road[a][i]) > Zone[a].radius - Zone[a].buffer

Kept == reading.phase = "stored"
Arrived == reading.phase \in {"stored", "refused"}

\* Every draw of a reading lies within three standard deviations of its mean.
Common(p) ==
    LET g == Gauss(p.asset_type)
    IN \A x \in DOMAIN g :
          p[x] \in Clamped(x, g[x][1] - 3 * g[x][2]) .. Clamped(x, g[x][1] + 3 * g[x][2])

\* A common reading gives no cause for concern but the road; an uncommon one
\* may also be refused, flagged, or a truck's found too fast or too warm.
BaselineMet(p) ==
    /\ Common(p) => Kept /\ reading.flags = {} /\ reading.health = "good"
    /\ reading.state # "offline"
    /\ \A f \in reading.findings :
          \/ f.rule = "RULE-010" /\ Strays(p.asset_id)
          \/ f.rule \in {"RULE-001", "RULE-002"} /\ p.asset_type = "TRUCK" /\ ~Common(p)

AnomalyMet(type) ==
    CASE type = "WAREHOUSE" -> ~Kept
      [] type \in {"TRUCK", "VEHICLE_GATEWAY", "AUTH_SYSTEM"} ->
            Kept => \E f \in reading.findings : f.rule # "RULE-010"
      [] OTHER -> reading.findings = {}

\* A baseline reading whose draws lie within three standard deviations is
\* stored, flagged for nothing and finds its asset well, and no rule fires but
\* RULE-010 on a road that leaves the inner zone; one with a draw beyond them
\* may be refused, and no rule may fire but the truck's two.  An injected
\* anomaly is refused or detected, save that a warehouse's is always refused
\* and nothing is found in a sensor's, an application's or a database's.  And
\* the counters add up to the readings, of which only stored ones are ok
\* (validate, all_rules).  That is what is true of "no detections" and
\* "triggers detections" (traffic_generator.py:13 and 195).
TrafficJudged ==
    /\ Arrived => IF reading.anomaly THEN AnomalyMet(reading.payload.asset_type)
                  ELSE BaselineMet(reading.payload)
    /\ generator.sent = generator.ok + generator.failed + (IF reading.phase = "none" THEN 0 ELSE 1)
    /\ generator.anomalies <= (IF generator.mode = "attack" THEN generator.sent ELSE 0)
=============================================================================
