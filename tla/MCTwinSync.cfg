SPECIFICATION Spec
CONSTANTS
    r1 = r1
    r2 = r2
    r3 = r3
    known = known
    fresh = fresh
    lane = lane
    None = None
    Absent = Absent
    Requests = {r1, r2}
    Nodes = {known, fresh}
    Edges = {lane}
    InitialNode <- MCInitialNode
    SyncPayloads <- MCSyncPayloads
    NodePayloads <- MCNodePayloads
    Threshold = 500
INVARIANTS
    TypeOK
    AnsweredIsAudited
    TrailIsTruthful
    NotifiedIsAudited
    RunSeesItsTrigger
    SerialSyncIsExact
PROPERTIES
    OnlySentColumnsChange
SYMMETRY MCSymmetry
