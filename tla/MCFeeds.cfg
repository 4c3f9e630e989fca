SPECIFICATION Spec
CONSTANTS
    a1 = a1
    Messages <- MCMessages
    Topic <- MCTopic
    Body <- MCBody
    w1 = w1
    w2 = w2
    w3 = w3
    inner = inner
    outer = outer
    depot = depot
    sensor = sensor
    gate = gate
    auth = auth
    Alerts = {w1, w2, w3}
    Lines <- MCLines
    Shape <- MCShape
    Things = {a1}
    MaxVersion = 2
    MaxRequests = 1
    MaxFaults = 2
    MaxRestarts = 1
    TypeOf <- MCTypeOf
    Zone <- MCZone
    Fleet <- MCFleet
    Waypoints <- MCWaypoints
    Osrm <- MCOsrm
    Pace = 500
    Draws <- MCDraws
    Abroad = 8200
    MaxSent = 8
    None = None
CHECK_DEADLOCK FALSE
INVARIANTS
    CountersBalance
    PostedOnce
    TrafficJudged
PROPERTIES
    ThingsCatchUp
