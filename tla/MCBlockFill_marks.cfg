SPECIFICATION Spec
CONSTANTS
    Blocks = {1, 2}
    NumEmits = 1
    MaxFaults = 1
    MaxRequests = 2
    Faults = {"redis", "rpc", "commit"}
    w1 = w1
    w2 = w2
    Workers = {w1, w2}
SYMMETRY Goroutines
CHECK_DEADLOCK FALSE
INVARIANTS
    WatermarkComplete
    NoStrandedBlock
