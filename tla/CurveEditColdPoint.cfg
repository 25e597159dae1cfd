SPECIFICATION EditSpec
CONSTANTS
    Inputs <- MCInputs
    Moves <- MCMoves
    MaxEdits = 2
PROPERTY
    DragKeepsItValid
