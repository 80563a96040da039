CONSTANTS
    Rows = {r1, r2}
    MaxGen = 0
    MaxCrashes = 0
    MaxSpoils = 0
    Instances = 1
    Overlap = FALSE
    Faults = {"account", "sidecar"}
SPECIFICATION StoreSpec
SYMMETRY Symmetry
CHECK_DEADLOCK FALSE
INVARIANTS
    RecordedStays
