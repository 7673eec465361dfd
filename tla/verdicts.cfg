SPECIFICATION Spec
CONSTANTS
    p1 = p1
    p2 = p2
    f1 = f1
    f2 = f2
    f3 = f3
    MCShared = TRUE
    MCLab = {"inspect", "command"}
    Pipelines = {p1}
    Findings = {f1, f2, f3}
    Boot = Boot
    BootModes = {"stub", "llm"}
    NoFinding = NoFinding
    Dirs <- MCDirs
    Ids <- MCIds
    Short <- MCShort
    Asked <- MCAsked
    Choices <- MCChoices
    Allowed = {"inspect", "command", "safe_noop", "observe"}
    MaxRuns = 1
    MaxConcurrent = 1
    Docker = FALSE
    MaxSteps = 2
    PolicyIterations = 2
    PlanLengths = {1, 2}
    Static = {f3}
    Blocking = {f1}
    Concurrent = 1
    Troubled = {p1}
    Faults = 1
INVARIANTS ResultMatchesRecord ActionsLimited StopsWithinBudget StopReasonFits GateSeesEverything SettingsRestored
PROPERTIES ImplementsVerdicts PipelineEnds
