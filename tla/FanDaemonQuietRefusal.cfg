SPECIFICATION FairSpec
CONSTANTS
    Builtins = {"max"}
    Drawn = {"drawn"}
    Levels = {"low"}
    FailsafeAfter = 2
    Requests = {"SetProfile", "RestoreFirmware"}
    SaveMayFail = FALSE
    None = None
PROPERTIES
    QuietMeansDone
