CONSTANTS
    w1 = w1
    w2 = w2
    e1 = e1
    a = a
    b = b
    t1 = t1
    Nothing = Nothing
    NoId = NoId
    Absent = Absent
    NoCtx = NoCtx
    Workflows <- MCWorkflows
    Tenants <- MCTenants
    Seed <- MCSeed
    EngineCrashPoints <- AnyEnginePoint
    AuditFails = FALSE
    MaxCalls = 99
    Workers <- TwoWorkers
    Events <- OneEvent
    RequestOf <- OneRequest
    CrashPoints <- OnlyApplying
    MaxAttempts = 2
    MaxCrashes = 1
SPECIFICATION TimelySpec
INVARIANTS
    OneEntryPerEvent
