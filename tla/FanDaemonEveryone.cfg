SPECIFICATION Spec
CONSTANTS
    Builtins = {"max"}
    Drawn = {"drawn"}
    Levels = {"low"}
    FailsafeAfter = 2
    Requests <- EveryRequest
    SaveMayFail = TRUE
    None = None
INVARIANTS
    LinkedCurvesMirror
    StopFreesTheFans
PROPERTIES
    OnlyARefusalGoesUntold
