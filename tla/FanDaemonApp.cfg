SPECIFICATION FairSpec
CONSTANTS
    Builtins = {"max"}
    Drawn = {"drawn"}
    Levels = {"low"}
    FailsafeAfter = 2
    Requests <- AppRequests
    SaveMayFail = FALSE
    None = None
INVARIANTS
    TrippedOnFirmware
    BelievedDutyIsReal
    SavesTheUsersChoice
    NeverSilentForLong
PROPERTIES
    KeepsItsPromises
    HandbackLands
    ChoiceTakesEffect
    ComplaintsEnd
