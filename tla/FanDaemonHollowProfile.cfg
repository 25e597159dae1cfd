SPECIFICATION FairSpec
CONSTANTS
    Builtins = {"max"}
    Drawn = {"drawn"}
    Levels = {"low"}
    FailsafeAfter = 2
    Requests = {"SetProfile", "SetFanDuty"}
    SaveMayFail = FALSE
    None = None
PROPERTIES
    ChoiceTakesEffect
