SPECIFICATION FairSpec
CONSTANTS
    Offsets = {"temp", "duty"}
    Bytes = {"low", "high"}
    Nothing = Nothing
INVARIANT
    InStep
PROPERTIES
    LikeARegisterFile
    EveryCallEnds
