CONSTANTS
    Chains = {c1}
    Readers = {q1}
    Rearms = 1
    MaxEvents = 2
    MaxReports = 2
SPECIFICATION GateSpec
INVARIANTS
    LiveMeansSubscribed
