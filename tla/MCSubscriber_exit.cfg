SPECIFICATION FairSpec
CONSTANTS
    Blocks = {0, 1}
    NumEmits = 0
    MaxHead = 3
    MaxNotes = 1
    Faults = {}
    MaxFaults = 0
CHECK_DEADLOCK FALSE
PROPERTIES
    FinalRequested
