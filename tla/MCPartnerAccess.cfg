SPECIFICATION Spec
CONSTANTS
    r1 = r1
    r2 = r2
    r3 = r3
    amy = amy
    pat = pat
    o1 = o1
    o2 = o2
    here = here
    there = there
    x = x
    Requests = {r1, r2, r3}
    Names = {amy, pat}
    SeededUsers <- MCSeededUsers
    SignUps <- MCSignUps
    Partners <- MCPartners
    NodeOrgs <- MCNodeOrgs
    K = 2
    Capacities = {5, 15}
    Periods <- MCPeriods
    Nonces = {x}
    KeyFromEnv = TRUE
    MaxRestarts = 1
    None = None
SYMMETRY MCSymmetry
CHECK_DEADLOCK FALSE
INVARIANTS
    TypeOK
    CommitmentPerNonce
    RotatedStaysSpent
    ActsForItsAccount
    EffectsAudited
    CommitmentFaithful
