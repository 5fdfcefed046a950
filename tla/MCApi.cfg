SPECIFICATION Spec
CONSTANTS
    Lists = {"blocks", "extrinsics", "events", "evmBlocks", "transactions", "tokenTransfers", "collectibles", "evmAccounts", "contracts", "tokens", "tokenHolders", "accounts", "transfers"}
    w1 = w1
    w2 = w2
    Indexers = {w1, w2}
    MaxBlock = 3
    SplitTableBlockNum = 2
    IdGenerateCoefficient = 2
    MaxRow = 2
    MaxRank = 1
    AccountOrder <- MCAccountOrder
    AuditLogs <- MCAuditLogs
    TieOrders <- MCTieOrders
    AuditBlocks = {1, 2, 3, 4, 5}
    Operator = "op"
    Bodies = {"b1", "b4"}
    HashOf <- MCHashOf
    EnvelopeOf <- MCEnvelopeOf
    Clients = {w1, w2}
    MaxLimit = 2
    MaxAnswers = 2
    Octets = {0, 1, 23, 24, 25, 26, 31, 64, 65, 96, 97, 128, 129, 130, 160, 161, 162, 246, 245, 255}
    MaxOctets = 4
    ApiBlocks = {1, 2}
    ApiLogs <- MCApiLogs
    LogFilters <- MCLogFilters
    Offsets = {0, 2}
    Reverted = {1}
    Sourced = {2}
    Holders = {1}
    AddressLists <- MCAddressLists
    Malformed = 9
    Callers = {w1, w2}
    NodeMethods <- MCNodeMethods
    Runtimes <- MCRuntimes
    Fillers = {w1, w2}
    RegistryFaults = {"version", "metadata", "codec", "session", "validators", "restart", "sql"}
    MaxRegFaults = 1
SYMMETRY Interchangeable
CHECK_DEADLOCK FALSE
INVARIANTS
    WalksExact
    ShownIsFound
    EnvelopesKept
    AuditExact
    OneEncoding
    AnswersExact
    CallsSound
    RegistryExact
