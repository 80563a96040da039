CONSTANTS
    Rows = {r1, r2}
    MaxGen = 1
    MaxCrashes = 1
    MaxSpoils = 1
    Instances = 2
    Overlap = FALSE
    Faults = {"account"}
SPECIFICATION StoreSpec
SYMMETRY Symmetry
CHECK_DEADLOCK FALSE
INVARIANTS
    StoreTypeOK
    RecordedStays
    RefusedNowhere
    SeedCovers
PROPERTIES
    ImplementsBook
