SPECIFICATION PartsSpec
CONSTANTS
    Parts = {"sandbox"}
    MaxFindings = 2
    MaxActions = 2
    PatchFiles = {"app", "other"}
    FoundIn = "app"
    MaxChecks = 2
    MaxDrops = 2
    Cancels = FALSE
    Routes <- MCRoutes
    Candidates = {"s1", "s2"}
    MaxPlan = 2
    Uploads = {u1}
    MaxStarts = 3
    Total = 2
    Stages = 1
    Window = 4
    MaxClock = 3
    Long = 6
    Containers = {"web"}
    Strangers = {"other"}
    MaxEvents = 5
    MaxTurns = 3
    MaxLines <- MCLines
    Directories = 3
    Above <- MCAbove
    DirName <- MCNames
    ServiceNames <- MCServices
    ManualIds <- MCManual
    Numbered <- MCNumbered
INVARIANTS
    ServiceSurvives
CHECK_DEADLOCK FALSE
