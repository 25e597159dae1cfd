SPECIFICATION AppFairSpec
CONSTANTS
    MaxEvents = 3
INVARIANTS
    HoldIsCurrent
    NobodyIsStranded
    ClosingFollowsTheIcon
    IconIsReal
PROPERTIES
    IconComesBack
