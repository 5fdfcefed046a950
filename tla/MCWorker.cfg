SPECIFICATION WorkerSpec
CONSTANTS
    Tasks = {t1, t2, t3, t4}
    Pool = 2
    TableWorkers = {1, 2}
    SplitTableBlockNum = 2
    MaxHead = 4
    FinalLag = 2
    MaxTableFaults = 1
    CountWorkers = {1, 2}
    CountedBlocks = {1, 2}
    ExtrinsicsOf <- MCExtrinsicsOf
    CountFaults = {"redis", "sql", "rollback", "again"}
    MaxCountFaults = 1
    MapWorkers = {1, 2}
    SignedIn <- MCSignedIn
    Unmapped = {1}
    MaxMigrations = 1
    MaxMapFaults = 1
    NumHolders = 3
    PageSize = 2
    PoolSize = 2
    MaxChanges = 1
    InitFaults = {"keys", "values", "write"}
    MaxInitFaults = 1
CHECK_DEADLOCK FALSE
INVARIANTS
    ReturnExact
    TablesMade
    CountersSound
    MappingExact
    InitAccountSound
PROPERTIES
    EventuallyReturns
    TablesServe
    CountersHeal
