CONSTANTS
    Users = {u1, u2}
    PinnedRev = 2
    NoRev = NoRev
    MaxRevs = 3
SPECIFICATION Spec
CHECK_DEADLOCK FALSE
INVARIANTS BranchIsCurrent
