SPECIFICATION Spec
CONSTANTS
    t1 = t1
    t2 = t2
    t3 = t3
    api = api
    celery = celery
    Workers = {t1, t2, t3}
    Processes = {api, celery}
    ProcessOf <- MCProcessOf
    Events = {sync, opt}
    KeyFromEnv = FALSE
    MaxId = 3
    MaxBoots = 1
INVARIANTS
    TypeOK
    SerialChainValid
    OnlyForksBreak
    TamperEvident
PROPERTIES
    BrokenStaysBroken
    ImplementsAuditLog
SYMMETRY MCSymmetry
