SPECIFICATION Spec
CONSTANTS
    Hysteresis = 4
    Smoothing = 5
    FloorPct = 30
    FloorTemp = 85
    Names = {"quiet"}
    Drawn <- MCDrawn
    Temps = {50, 53, 56, 86}
    Polled = {2}
    None = None
INVARIANTS
    FloorHolds
    KeepsUpWithTheCurve
PROPERTIES
    SpikeFiltered
