CONSTANTS
    p1 = p1
    p2 = p2
    a = a
    b = b
    e1 = e1
    e2 = e2
    e3 = e3
    e4 = e4
    t1 = t1
    t2 = t2
    NoId = NoId
    Absent = Absent
    NoCtx = NoCtx
    Nothing = Nothing
    Processes <- MCProcesses
    Workflows <- MCWorkflows
    EventIds <- MCEventIds
    Tenants <- MCTenants
    Seed <- MCSeed
    Requests <- AllRequests
    CrashPoints <- BeforeRename
    Strict = TRUE
    AuditFails = FALSE
    MaxCalls = 4
    w1 = w1
    w2 = w2
    Drainers = {w1, w2}
    Drained = {e1, e2, e3}
    NoFile = NoFile
    MaxKills = 1
SPECIFICATION PartsSpec
INVARIANTS
    TypeOK
    TenantConfined
    OneEntryPerEvent
    RestartsAreSafe
    AppliedNeverFails
    NeverMeet
    DrainsHandOver
PROPERTIES
    ImplementsLifecycle
    TerminalStays
CHECK_DEADLOCK FALSE
