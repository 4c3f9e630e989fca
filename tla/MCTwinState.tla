---------------------------- MODULE MCTwinState ----------------------------
(***************************************************************************)
(* TwinState for TLC: one asset, seeded as seed.sql does, two payloads of  *)
(* different state and metrics, and one that is out of range.              *)
(***************************************************************************)
EXTENDS TwinState

CONSTANTS r1, r2, r3, s1, s2, truck, speed, battery

Reported(state, metrics, valid) == [state |-> state, metrics |-> metrics, valid |-> valid]

MCPayloads == {Reported("moving", {speed}, TRUE), Reported("idle", {battery}, TRUE),
               Reported("idle", {speed}, FALSE)}

MCSeeded == [a \in Assets |-> [state |-> "idle", metrics |-> {}]]
=============================================================================
