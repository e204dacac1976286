CONSTANTS
    x1 = x1
    x2 = x2
    k1 = k1
    k2 = k2
    ref1 = ref1
    ref2 = ref2
    secret = secret
    redacted = redacted
    null = null
    NoKey = NoKey
    Unreadable = Unreadable
    Failed = Failed
    Absent = Absent
    Nothing = Nothing
    Keys <- TwoKeys
    Executors <- OneExecutor
    Values <- MCValues
    ReadBack <- MCReadBack
    Calls <- MCCalls
    StoreFails = FALSE
    CrashPoints = {}
    MaxCalls = 2
SPECIFICATION ExclusiveSpec
PROPERTIES
    SuccessReplays
CHECK_DEADLOCK FALSE
