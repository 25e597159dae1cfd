SPECIFICATION Spec
CONSTANTS
    Builtins = {"max"}
    Drawn = {"drawn"}
    Levels = {"low", "full"}
    FailsafeAfter = 3
    Requests = {"SetProfile", "SetFanDuty", "Setting"}
    SaveMayFail = FALSE
    None = None
INVARIANTS
    ManualIsNeverSaved
