SPECIFICATION FairSpec
CONSTANTS
    Runs = {r1, r2}
    NoRun = NoRun
    Workers = {w1, w2}
    Pill = Pill
    Clients = {c1}
    Sessions = {s1}
    NoChat = NoChat
    ListLimit = 500
    MaxRestarts = 1
    Faults = {"crash", "lost", "raise"}
    Dims <- MCDims
    Capacity <- OneLease
    Needs <- Settings
INVARIANTS
    NothingForgotten
PROPERTIES
    EveryRunEnds
