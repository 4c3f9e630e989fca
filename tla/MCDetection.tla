----------------------------- MODULE MCDetection -----------------------------
(* A gateway, a truck with a geofence and a warehouse; telemetry that trips   *)
(* every rule that can fire, an event for each of the rules that read events. *)
EXTENDS Detection, TLC

CONSTANTS i1, i2, e1, gate, lorry, depot

MCTypeOf == (gate :> "VEHICLE_GATEWAY") @@ (lorry :> "TRUCK") @@ (depot :> "WAREHOUSE")

Reading(asset, over) ==
    over @@ [asset_id |-> asset, asset_type |-> MCTypeOf[asset],
             speed |-> None, temperature |-> None, fuel |-> None, battery |-> None,
             distance |-> None, inRegion |-> TRUE,
             failed_logins |-> 0, firmware |-> None, status |-> None, destinations |-> 0,
             door_status |-> None, humidity |-> None, power_consumption |-> None,
             unusual_api_calls |-> None]

MCZone == lorry :> [radius |-> 10, buffer |-> 2]
MCTelemetry ==
    {Reading(gate, [firmware |-> "v1", failed_logins |-> 101]),
     Reading(gate, [firmware |-> "v1", failed_logins |-> 5, status |-> "OFFLINE"]),
     Reading(lorry, [speed |-> 110, temperature |-> 16, distance |-> 9]),
     Reading(lorry, [temperature |-> 9, distance |-> 11, inRegion |-> FALSE]),
     Reading(depot, [door_status |-> "OPEN", destinations |-> 5])}
MCFirmwareTelemetry == {Reading(gate, [firmware |-> v]) : v \in {"v1", "v2"}}
MCEventLoads ==
    {[asset_id |-> gate, event_type |-> "NETWORK_ANOMALY", severity |-> "low"],
     [asset_id |-> gate, event_type |-> "AUTHENTICATION_ANOMALY", severity |-> "high"],
     [asset_id |-> depot, event_type |-> "DEVICE_ANOMALY", severity |-> "medium"]}
MCBacklog ==
    {[by |-> None, asset |-> lorry, rule |-> "RULE-001", severity |-> "high",
      confidence |-> c, during |-> FALSE] : c \in {80, 90}}
==============================================================================
