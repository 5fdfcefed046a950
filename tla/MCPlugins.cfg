SPECIFICATION Spec
CONSTANTS
    Blocks = {1, 2, 3}
    Txns <- MCTxns
    LogsOf <- MCLogsOf
    FromOf <- MCFromOf
    ToOf <- MCToOf
    Creates <- MCCreates
    w1 = w1
    w2 = w2
    BlockWorkers = {w1, w2}
    HoldOn = 0
    Chunk = 3
    Settings = {"refresh", "validate", "forgiving"}
    BlockFaults = {"node", "empty", "sql", "redis", "commit", "publish", "expire", "crash"}
    MaxBlockFaults = 1
    MaxJobs = 2
    Chains <- MCChains
    ChainLength = 2
    IsNft <- MCIsNft
    TokenWorkers = {w1, w2}
    TokenFaults = {"node", "sql", "publish", "crash", "deposit"}
    MaxTokenFaults = 1
    MaxEmits = 2
    Requests = {1, 2}
    Optimized = {1}
    MaxUpgrades = 3
    MaxContractTxs = 2
    a1 = a1
    a2 = a2
    Accounts = {a1, a2}
    ChainData <- MCChainData
    BalanceWorkers = {w1, w2}
    MaxEvents = 2
    BatchLimit = 2
    SplitEvents = 1
    MaxBalanceFaults = 1
    CheckStarts = {0, 1, 3}
    Finals = {1, 10}
    ChunkSize = 3
    SplitBlocks = 4
    holdOnNum = 2
    UintSize = 16
    MaxGaps = 2
    FeeBlocks <- MCFeeBlocks
    BasicFee = 2
    WeightFees = {0, 19}
    Estimates = {3, 6}
    FeeUnit = 10
SYMMETRY Interchangeable
CHECK_DEADLOCK FALSE
INVARIANTS
    BlockRowCovers
    CounterCovers
    
    ContractRowExact
    RowsFresh
    CommandsComplete
    CompletenessExact
    FeesExact
