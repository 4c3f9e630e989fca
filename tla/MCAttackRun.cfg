SPECIFICATION Spec
CONSTANTS
    r1 = r1
    Runs = {r1}
    Tokens <- MCTokens
    MaxRetries = 3
    Limit = 2
    MaxTicks = 1
    Trace <- MCTrace
    Payload <- MCPayload
    Foreign <- MCForeign
    MaxCrashes = 1
    None = None
CHECK_DEADLOCK FALSE
INVARIANTS
    TypeOK
    StoryTellsRun
PROPERTIES
    RunsEnd
    ConfidenceEarned
