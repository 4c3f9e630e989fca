SPECIFICATION FairSpec
CONSTANTS
    r1 = r1
    r2 = r2
    r3 = r3
    s1 = s1
    s2 = s2
    truck = truck
    speed = speed
    battery = battery
    None = None
    Assets = {truck}
    Requests = {r1, r2}
    Reloads = {s1, s2}
    States = {"unknown", "idle", "moving"}
    Metrics = {speed, battery}
    Payloads <- MCPayloads
    Seeded <- MCSeeded
    MaxRestarts = 1
INVARIANTS
    TypeOK
    MemoryIsRow
    TransitionsChain
    StoredIsMerged
PROPERTIES
    ImplementsTwinStore
    IngestsEnd
CHECK_DEADLOCK FALSE
