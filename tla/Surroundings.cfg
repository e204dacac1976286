CONSTANTS
    Commands = {c1, c2}
    FileCount = 2
    Manifest = 1
    NoHash = NoHash
    Garbled = Garbled
    MaxEdits = 1
    MaxRuns = 4
    Processes = {p1, p2}
    MaxRequests = 2
    Window = 2
    NoWindow = NoWindow
    MaxNow = 4
    MaxGrants = 5
    Capacity = 2
    MaxRequest = 3
    MaxReply = 3
    Clients = {k1, k2}
    NoClient = NoClient
    NoMax = NoMax
    Users = {u1, u2}
    PinnedRev = 2
    NoRev = NoRev
    MaxRevs = 3
    Sources = {"a", "b"}
    MaxVersions = 2
SPECIFICATION PartsSpec
INVARIANTS
    PartsTypeOK
    ChildIsCollected
    AnswersAreTrue
    ArtifactIsWhole
    PublishedResolves
PROPERTIES
    LimitIsKept
    CallsReturn
    PinHolds
    PoliteAreAnswered
    InstalledIsTrue
CHECK_DEADLOCK FALSE
