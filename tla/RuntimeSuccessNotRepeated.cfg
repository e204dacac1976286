CONSTANTS
    pay = pay
    mail = mail
    refund = refund
    k1 = k1
    k2 = k2
    NoKey = NoKey
    NoAction = NoAction
    NoLimit = NoLimit
    Actions <- MCActions
    Keys <- MCKeys
    KeyOf <- MCKeyOf
    Tries <- MCTries
    Cost <- MCCost
    UndoOf <- MCUndoOf
    Timed <- MCTimed
    Callees <- PayMails
    Limits <- MCLimits
    MaxDepth = 4
    MaxSteps = 3
SPECIFICATION Spec
INVARIANTS
    SuccessNotRepeated
CHECK_DEADLOCK FALSE
