CONSTANTS
    pay = pay
    mail = mail
    refund = refund
    k1 = k1
    k2 = k2
    NoKey = NoKey
    NoAction = NoAction
    NoLimit = NoLimit
    Actions <- MCActions
    Keys <- MCKeys
    KeyOf <- MCKeyOf
    Tries <- MCTries
    Cost <- MCCost
    UndoOf <- MCUndoOf
    Timed <- MCTimed
    Callees <- AnyCallees
    Limits <- MCLimits
    MaxDepth = 4
    MaxSteps = 5
    Options = {o}
    Results = {r}
    Variants = {A, B}
    Nesting = 3
    Statements = 4
    Files = {1, 2, 3}
    Paths = {m1, m2, m3}
    NoPath = NoPath
    m1 = m1
    m2 = m2
    Declared = {x, y}
    x = x
    MaxUses = 2
    FirstYear = 1899
    LastYear = 2001
    MaxCoefficient = 1500
    Precision = 2
    MaxDigits = 12
    MaxScale = 2
    MaxOps = 2
SPECIFICATION PartsSpec
INVARIANTS
    PartsTypeOK
    BudgetsHold
    ScopesBalanced
    SuccessesAreKept
    AcceptedReadsSucceed
    EndsIsLeft
    ImportsInOrder
    DatesAreDays
    AmountsAreExact
PROPERTIES
    CompensatesItsOwn
CHECK_DEADLOCK FALSE
