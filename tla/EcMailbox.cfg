SPECIFICATION FairSpec
CONSTANTS
    Procs <- MCProcs
    Sessions <- MCSessions
    Arity <- MCArity
    Bytes <- MCBytes
    Bells <- MCBells
    Patient <- MCPatient
    NoCommand = NoCommand
    Nobody = Nobody
INVARIANTS
    HolderOwnsTheMailbox
PROPERTIES
    AtomicCommands
    NobodyStarves
