SPECIFICATION FairSpec
CONSTANTS
    Blocks = {0, 1}
    NumEmits = 1
    MaxHead = 3
    MaxNotes = 1
    MaxRequests = 1
    Faults = {"rpc", "sql", "plugin"}
    MaxFaults = 1
    w1 = w1
    Workers = {w1}
CHECK_DEADLOCK FALSE
PROPERTIES
    EventuallyIndexed
