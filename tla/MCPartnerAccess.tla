--------------------------- MODULE MCPartnerAccess ---------------------------
(* A seeded partner of o1, an organisation o2 in another region, one name to *)
(* register, a half-hundredth tie and a period whose ends have two offsets.  *)
EXTENDS PartnerAccess, TLC

CONSTANTS r1, r2, r3, amy, pat, o1, o2, here, there, x

MCSeededUsers == {[name |-> pat, role |-> "PARTNER", org |-> o1]}
MCSignUps == {[role |-> "PARTNER", org |-> o2], [role |-> "OTHER", org |-> None]}
MCPartners == (o1 :> here) @@ (o2 :> there)
MCNodeOrgs == (here :> {o2}) @@ (there :> {})
MCPeriods == {[start |-> [wall |-> 1, offset |-> 0], end |-> [wall |-> 2, offset |-> 0]],
              [start |-> [wall |-> 2, offset |-> 0], end |-> [wall |-> 1, offset |-> -2]],
              [start |-> [wall |-> 1, offset |-> 0], end |-> [wall |-> 1, offset |-> 0]]}

MCSymmetry == Permutations({r1, r2, r3})
==============================================================================
