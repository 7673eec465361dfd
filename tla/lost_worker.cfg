SPECIFICATION Spec
CONSTANTS
    Runs = {r1, r2}
    NoRun = NoRun
    Workers = {w1}
    Pill = Pill
    Clients = {c1}
    Sessions = {s1}
    NoChat = NoChat
    ListLimit = 500
    MaxRestarts = 0
    Faults = {"delete"}
    Dims <- MCDims
    Capacity <- OneLease
    Needs <- Usual
INVARIANTS
    WorkersStay
