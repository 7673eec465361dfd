SPECIFICATION Spec
CONSTANTS
    p1 = p1
    p2 = p2
    f1 = f1
    f2 = f2
    f3 = f3
    MCShared = TRUE
    MCLab = {"inspect"}
    Pipelines = {p1, p2}
    Findings = {f1}
    Boot = Boot
    BootModes = {"stub"}
    NoFinding = NoFinding
    Dirs <- MCDirs
    Ids <- MCIds
    Short <- MCShort
    Asked <- MCAsked
    Choices <- MCChoices
    Allowed = {"inspect", "command", "safe_noop", "observe"}
    MaxRuns = 1
    MaxConcurrent = 1
    Docker = TRUE
    MaxSteps = 1
    PolicyIterations = 1
    PlanLengths = {1}
    Static = {}
    Blocking = {f1}
    Concurrent = 2
    Troubled = {}
    Faults = 0
INVARIANT OwnRepository
