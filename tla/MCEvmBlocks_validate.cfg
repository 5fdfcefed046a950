SPECIFICATION EvmBlocksSpec
CONSTANTS
    Blocks = {1, 2, 3}
    Txns <- MCTxns
    LogsOf <- MCLogsOf
    FromOf <- MCFromOf
    ToOf <- MCToOf
    Creates <- MCCreates
    w1 = w1
    w2 = w2
    BlockWorkers = {w1, w2}
    HoldOn = 0
    Chunk = 3
    Settings = {"validate"}
    BlockFaults = {}
    MaxBlockFaults = 0
    MaxJobs = 3
CHECK_DEADLOCK FALSE
INVARIANTS ValidateRepairs
SYMMETRY Goroutines
