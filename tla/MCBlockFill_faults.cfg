SPECIFICATION Spec
CONSTANTS
    Blocks = {1}
    NumEmits = 2
    MaxFaults = 2
    MaxRequests = 2
    Faults = {"rpc", "panic", "sql", "codec", "enqueue", "crash", "plugin"}
    w1 = w1
    w2 = w2
    Workers = {w1, w2}
SYMMETRY Goroutines
CHECK_DEADLOCK FALSE
INVARIANTS
    TypeOK
    JobsOfStoredBlocks
    WatermarkStored
    NothingForgotten
    CountCovers
PROPERTIES
    WrittenOnce
