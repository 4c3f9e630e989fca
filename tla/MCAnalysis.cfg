SPECIFICATION Spec
CONSTANTS
    Requests <- MCRequests
    TargetFrames = 2
    Minute = 2
    RiskLimit = 2
    Top = 2
    CentralityUnit = 10
    ScoreUnit = 1
    MaxReloads = 2
    None = None
CHECK_DEADLOCK FALSE
INVARIANTS
    BlastRadiusExact
    DashboardExact
