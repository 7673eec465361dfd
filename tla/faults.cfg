SPECIFICATION Spec
CONSTANTS
    Runs = {r1, r2}
    NoRun = NoRun
    Workers = {w1, w2}
    Pill = Pill
    Clients = {c1}
    Sessions = {s1}
    NoChat = NoChat
    ListLimit = 500
    MaxRestarts = 1
    Faults = {"delete", "close", "crash", "raise", "exit", "lost"}
    Dims <- MCDims
    Capacity <- OneLease
    Needs <- Usual
SYMMETRY Symmetry
INVARIANTS
    TypeOK
    LeaseFollowsWork
    NothingLost
    NeverOverbooked
    OneWorkerPerRun
    TokenTracksRun
    VerdictHasResults
    ChatLearnsOutcome
    ForeignKeys
PROPERTIES
    KeepsLifecycle
    StoppedAfterRelease
CHECK_DEADLOCK FALSE
