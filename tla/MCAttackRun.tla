----------------------------- MODULE MCAttackRun -----------------------------
(* A run with an address in its telemetry, and an event of somebody else with *)
(* the same address and a domain.                                            *)
EXTENDS AttackRun

CONSTANT r1

Token(type, value) == [type |-> type, value |-> value, public |-> TRUE, host |-> None]

MCTokens == {Token("ip", "a"), Token("domain", "d")}
MCTrace ==
    r1 :> {[kind |-> "detection", what |-> "RULE-007", tokens |-> {}],
           [kind |-> "incident", what |-> "R006", tokens |-> {}]}
MCPayload == r1 :> {Token("ip", "a")}
MCForeign == {[kind |-> "event", what |-> "NETWORK_ANOMALY", by |-> None, tokens |-> MCTokens]}
==============================================================================
