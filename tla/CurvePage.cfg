SPECIFICATION Spec
CONSTANTS
    Drawn = {seed, quiet}
    Builtin = quiet
    SEED = seed
    None = None
    MaxInFlight = 2
    MaxCalls = 1
INVARIANTS
    ScreenIsWhatWeSend
    QuietPageIsHonest
    LastCommandWins
