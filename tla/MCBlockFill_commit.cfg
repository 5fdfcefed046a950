SPECIFICATION Spec
CONSTANTS
    Blocks = {1}
    NumEmits = 2
    MaxFaults = 1
    MaxRequests = 1
    Faults = {"commit"}
    w1 = w1
    w2 = w2
    Workers = {w1, w2}
SYMMETRY Goroutines
CHECK_DEADLOCK FALSE
INVARIANTS
    JobsOfStoredBlocks
