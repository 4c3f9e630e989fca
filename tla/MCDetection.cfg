SPECIFICATION Spec
CONSTANTS
    i1 = i1
    i2 = i2
    e1 = e1
    gate = gate
    lorry = lorry
    depot = depot
    Ingests = {i1}
    Events = {e1}
    TypeOf <- MCTypeOf
    Telemetry <- MCTelemetry
    EventLoads <- MCEventLoads
    Zone <- MCZone
    Backlog <- MCBacklog
    Batch = 1
    Threshold = 6500
    Reviewed = {"RULE-006"}
    MaxReruns = 1
    None = None
INVARIANTS
    TypeOK
    AnsweredStored
    DetectionsTriaged
    EventReachesIncident
PROPERTY SweepsCatchUp
