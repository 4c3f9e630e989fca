------------------------------ MODULE MCFeeds ------------------------------
(* One message of every fate the bridge knows, alerts and lines of eve.json  *)
(* of every shape, an asset whose state and risk change twice each, a fleet  *)
(* of every kind with a truck whose road stays in its geofence and one whose *)
(* road leaves it (TRUCK-001 and TRUCK-002 of the code, with their numbers), *)
(* and draws up to and beyond three standard deviations.                     *)
EXTENDS Feeds, TLC

CONSTANTS a1, w1, w2, w3, inner, outer, depot, sensor, gate, auth

MCMessages == 1..5
MCTopic == <<"telemetry", "event", "telemetry", "event", "status">>
MCBody == <<"valid", "valid", "invalid", "not an object", "not json">>
MCLines == 1..4
MCShape == <<"good", "split", "good", "no object">> @@ (w1 :> "good") @@ (w2 :> "no id") @@ (w3 :> "no agent")

MCTypeOf ==
    (inner :> "TRUCK") @@ (outer :> "TRUCK") @@ (depot :> "WAREHOUSE") @@ (sensor :> "SENSOR")
    @@ (gate :> "VEHICLE_GATEWAY") @@ (auth :> "AUTH_SYSTEM")
MCDraws == {-7, 3, 4, 7}
MCFleet == <<inner, outer, depot, sensor, gate, auth>>
MCZone == (inner :> [radius |-> 350, buffer |-> 50]) @@ (outer :> [radius |-> 300, buffer |-> 50])
MCWaypoints == (inner :> <<0, 290>>) @@ (outer :> <<0, 404>>)
MCOsrm == (inner :> <<0, 120, 100, 290>>) @@ (outer :> <<0, 260, 320, 404>>)
=============================================================================
