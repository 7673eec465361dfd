SPECIFICATION HangSpec
CONSTANTS
    Runs = {r1, r2}
    NoRun = NoRun
    Workers = {w1, w2}
    Pill = Pill
    Clients = {c1}
    Sessions = {}
    NoChat = NoChat
    ListLimit = 1
    MaxRestarts = 0
    Faults = {"raise", "close"}
    Dims <- MCDims
    Capacity <- OneLease
    Needs <- Usual
PROPERTIES
    CancelEnds
    ShutdownEnds
CHECK_DEADLOCK FALSE
