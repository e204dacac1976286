CONSTANTS
    w1 = w1
    w2 = w2
    e1 = e1
    Nothing = Nothing
    Workers <- MCWorkers
    Events <- OneEvent
    CrashPoints <- AnyPoint
    MaxAttempts = 2
    MaxCrashes = 1
    MaxHeartbeats = 0
SPECIFICATION FairSpec
PROPERTIES
    EventuallySettled
