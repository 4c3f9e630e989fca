SPECIFICATION Spec
CONSTANTS
    i1 = i1
    i2 = i2
    e1 = e1
    gate = gate
    lorry = lorry
    depot = depot
    Ingests = {i1, i2}
    Events = {e1}
    TypeOf <- MCTypeOf
    Telemetry <- MCFirmwareTelemetry
    EventLoads <- MCEventLoads
    Zone <- MCZone
    Backlog <- MCBacklog
    Batch = 1
    Threshold = 6500
    Reviewed = {"RULE-006"}
    MaxReruns = 1
    None = None
INVARIANT FirmwareChangeDetected
