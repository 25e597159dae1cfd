SPECIFICATION Spec
CONSTANTS
    Builtins = {"max"}
    Drawn = {"drawn"}
    Levels = {"low", "full"}
    FailsafeAfter = 3
    Requests = {"SetProfile", "SetFanDuty"}
    SaveMayFail = FALSE
    None = None
PROPERTIES
    RefusedDutyStrandsNoFan
