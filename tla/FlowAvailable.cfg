CONSTANTS
    Options = {o}
    Results = {r}
    Variants = {A, B}
    MaxDepth = 3
    MaxSteps = 4
SPECIFICATION Spec
INVARIANTS AvailableIsPresent
CHECK_DEADLOCK FALSE
