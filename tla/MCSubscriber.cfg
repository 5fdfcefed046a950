SPECIFICATION FairSpec
CONSTANTS
    Blocks = {0, 1}
    NumEmits = 0
    MaxHead = 3
    MaxNotes = 1
    Faults = {"disconnect", "redis", "enqueue", "restart"}
    MaxFaults = 2
CHECK_DEADLOCK FALSE
INVARIANTS
    RequestsSound
    NoLostWakeup
PROPERTIES
    EventuallyRequested
    ReaderUnblocked
