SPECIFICATION Spec
CONSTANTS
    r1 = r1
    r2 = r2
    r3 = r3
    s1 = s1
    s2 = s2
    truck = truck
    speed = speed
    battery = battery
    None = None
    Assets = {truck}
    Requests = {r1, r2, r3}
    Reloads = {s1}
    States = {"unknown", "idle", "moving"}
    Metrics = {speed, battery}
    Payloads <- MCPayloads
    Seeded <- MCSeeded
    MaxRestarts = 0
PROPERTIES
    EveryTransitionRecorded
CHECK_DEADLOCK FALSE
