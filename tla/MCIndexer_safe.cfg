SPECIFICATION Spec
CONSTANTS
    Blocks = {0, 1}
    NumEmits = 0
    MaxHead = 3
    MaxNotes = 1
    MaxRequests = 1
    Faults = {"restart", "rpc"}
    MaxFaults = 1
    w1 = w1
    w2 = w2
    Workers = {w1, w2}
SYMMETRY Goroutines
CHECK_DEADLOCK FALSE
INVARIANTS
    NoneLeftBehind
    CountExact
PROPERTIES
    ImplementsArchive
