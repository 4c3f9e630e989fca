SPECIFICATION Spec
CONSTANTS
    t1 = t1
    t2 = t2
    t3 = t3
    api = api
    celery = celery
    Workers = {t1, t2}
    Processes = {api}
    ProcessOf <- MCProcessOf
    Events = {sync}
    KeyFromEnv = TRUE
    MaxId = 3
    MaxBoots = 0
INVARIANTS
    ChainValid
