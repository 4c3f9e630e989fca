------------------------------- MODULE Rules -------------------------------
(***************************************************************************)
(* What the api makes of one telemetry payload before and beside its       *)
(* history: ingestion/validators.py, ingestion/normalizer.py and           *)
(* detection/rules.py.                                                     *)
(*                                                                         *)
(* A payload is a record of the fields that something here looks at; its   *)
(* position is the distance from the centre of the truck's geofence and    *)
(* whether it lies in the country, its firmware the major version.         *)
(***************************************************************************)
EXTENDS Integers

CONSTANTS
    TypeOf,     \* TypeOf[a]: the type of asset a in the graph
    Zone,       \* Zone[a]: radius and buffer of the geofence of a truck
    None        \* a field that is not sent

Assets == DOMAIN TypeOf

ASSUME AssetsAssumption ==
    \A a \in Assets : TypeOf[a] \in {"TRUCK", "WAREHOUSE", "SENSOR", "VEHICLE_GATEWAY",
                                     "API_GATEWAY", "APPLICATION", "AUTH_SYSTEM", "DATABASE"}
ASSUME ZoneAssumption == \A a \in DOMAIN Zone : Zone[a].radius \in Nat /\ Zone[a].buffer \in Nat

-----------------------------------------------------------------------------
(* validators.py: ranges by the type the payload claims.                   *)

MaxApiCalls == 1000000

Ranges(type) ==
    CASE type = "TRUCK"           -> [speed |-> 0..120, temperature |-> -25..30,
                                      fuel |-> 0..100, battery |-> 0..100]
      [] type = "WAREHOUSE"       -> [temperature |-> -5..40, humidity |-> 0..100,
                                      power_consumption |-> 0..500]
      [] type = "SENSOR"          -> [temperature |-> -30..60, humidity |-> 0..100]
      [] type = "VEHICLE_GATEWAY" -> [failed_logins |-> 0..100]
      [] type = "AUTH_SYSTEM"     -> [failed_logins |-> 0..10000]
      [] type \in {"API_GATEWAY", "DATABASE"} -> [unusual_api_calls |-> 0..MaxApiCalls]
      [] OTHER                    -> <<>>

InRange(p, type) ==
    \A f \in DOMAIN Ranges(type) : p[f] = None \/ p[f] \in Ranges(type)[f]

\* Mutant: only trucks are checked.
validateTrucksOnly(p) == p.asset_type # "TRUCK" \/ InRange(p, p.asset_type)

validate(p) == InRange(p, p.asset_type)

Flags(p) ==
    LET temp == p.temperature IN
    {f \in {"low_battery", "low_fuel", "extreme_temperature", "cold_chain_breach",
            "door_open", "failed_login_burst", "unusual_api_burst", "outdated_firmware"} :
       CASE f = "low_battery"         -> p.battery # None /\ p.battery < 15
         [] f = "low_fuel"            -> p.fuel # None /\ p.fuel < 10
         [] f = "extreme_temperature" -> temp # None /\ (temp <= -20 \/ temp >= 55)
         [] f = "cold_chain_breach"   -> temp # None /\ temp \in 8..54 /\ p.asset_type = "TRUCK"
         [] f = "door_open"           -> p.door_status = "OPEN"
         [] f = "failed_login_burst"  -> p.failed_logins # None /\ p.failed_logins >= 5
         [] f = "unusual_api_burst"   -> p.unusual_api_calls # None /\ p.unusual_api_calls >= 100
         [] f = "outdated_firmware"   -> p.firmware = "v1"}

-----------------------------------------------------------------------------
(* normalizer.py: what a payload says of its asset.                        *)

infer_state(p) ==
    IF p.status # None THEN [ACTIVE |-> "active", MOVING |-> "moving", OFFLINE |-> "offline"][p.status]
    ELSE IF p.speed # None THEN (IF p.speed > 1 THEN "moving" ELSE "idle")
    ELSE IF p.door_status # None THEN [OPEN |-> "open", CLOSED |-> "closed"][p.door_status]
    ELSE "unknown"

infer_health(p) ==
    IF p.battery # None /\ p.battery < 15 THEN "degraded"
    ELSE IF p.temperature # None /\ p.temperature \notin -20..60 THEN "critical"
    ELSE IF p.failed_logins # None /\ p.failed_logins >= 5 THEN "at_risk"
    ELSE "good"

-----------------------------------------------------------------------------
(* rules.py: each rule yields the findings it makes of a payload.          *)

Finding(rule, severity, confidence) ==
    [rule |-> rule, severity |-> severity, confidence |-> confidence]

rule_speed(a, p) ==
    IF TypeOf[a] = "TRUCK" /\ p.speed # None /\ p.speed > 100
    THEN {Finding("RULE-001", "high", 90)} ELSE {}

rule_temperature(a, p) ==
    IF p.temperature = None THEN {}
    ELSE IF TypeOf[a] = "TRUCK" /\ p.temperature > 8
    THEN {Finding("RULE-002", IF p.temperature > 15 THEN "critical" ELSE "high", 90)}
    ELSE IF TypeOf[a] = "WAREHOUSE" /\ p.temperature \notin -5..40
    THEN {Finding("RULE-002", "high", 85)} ELSE {}

rule_geofence(a, p) ==
    IF TypeOf[a] = "TRUCK" /\ p.distance # None /\ ~p.inRegion
    THEN {Finding("RULE-003", "critical", 95)} ELSE {}

rule_auth_burst(p) ==
    IF p.failed_logins # None /\ p.failed_logins >= 5
    THEN {Finding("RULE-006", IF p.failed_logins >= 10 THEN "high" ELSE "medium", 85)} ELSE {}

\* The previous firmware comes from the twin, which the ingest has moved already.
rule_config_tamper(p, previous) ==
    IF p.firmware # None /\ previous # None /\ previous # p.firmware
    THEN {Finding("RULE-007", "high", 85)} ELSE {}

rule_heartbeat(a, p) ==
    IF p.status = "OFFLINE"
       /\ TypeOf[a] \in {"VEHICLE_GATEWAY", "API_GATEWAY", "AUTH_SYSTEM", "DATABASE"}
    THEN {Finding("RULE-008", "high", 90)} ELSE {}

rule_port_scan(p) ==
    IF p.destinations >= 5 THEN {Finding("RULE-009", "high", 75)} ELSE {}

rule_geofence_breach(a, p) ==
    IF TypeOf[a] # "TRUCK" \/ p.distance = None \/ a \notin DOMAIN Zone THEN {}
    ELSE IF p.distance > Zone[a].radius THEN {Finding("RULE-010", "critical", 95)}
    ELSE IF p.distance > Zone[a].radius - Zone[a].buffer
    THEN {Finding("RULE-010", "medium", 70)} ELSE {}

all_rules(a, p, previous) ==
    rule_speed(a, p) \cup rule_temperature(a, p) \cup rule_geofence(a, p)
    \cup rule_auth_burst(p) \cup rule_config_tamper(p, previous)
    \cup rule_heartbeat(a, p) \cup rule_port_scan(p) \cup rule_geofence_breach(a, p)

\* An event is looked at by one rule only.
rule_auth_anomaly(p) ==
    IF p.event_type = "AUTHENTICATION_ANOMALY" /\ p.severity \in {"high", "critical"}
    THEN {Finding("RULE-006", p.severity, 80)} ELSE {}
=============================================================================
