CONSTANTS
    Rows = {r1, r2}
    MaxGen = 1
    MaxCrashes = 0
    MaxSpoils = 0
    Instances = 1
    Overlap = FALSE
    Faults = {"scan"}
SPECIFICATION StoreSpec
SYMMETRY Symmetry
CHECK_DEADLOCK FALSE
INVARIANTS
    RecordedStays
