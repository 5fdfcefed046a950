----------------------------- MODULE SplitTables -----------------------------
(***************************************************************************)
(* The tables that blocks are stored in.  Rows are split by block number   *)
(* over tables of SplitTableBlockNum blocks, four for each index, which    *)
(* are made by whoever comes first: a process that starts (Migration), the *)
(* fill of a block that finds them missing (SplitBlockTable), or, ahead of *)
(* time and in the background, the fill of a block of the index before     *)
(* (CreateBlock).  The four are made one after the other and their errors  *)
(* are discarded; only the first is ever looked for.                       *)
(*                                                                         *)
(* A table is a pair of an index and one of Parts.  Redis is assumed to    *)
(* answer.  Every block has extrinsics, events and logs.                   *)
(***************************************************************************)
EXTENDS Naturals, Sequences, SequencesExt, Bags

CONSTANTS
    TableWorkers,        \* goroutines of the block queue
    SplitTableBlockNum,  \* blocks of an index, 10^6 in the code
    MaxHead,             \* bound: finalized heads
    FinalLag,            \* FinalizedWaitingBlockCount
    MaxTableFaults       \* bound: failing statements and deaths of the process

ASSUME TablesAssumption ==
    SplitTableBlockNum \in Nat \ {0} /\ MaxHead \in Nat /\ FinalLag \in Nat

VARIABLES
    head,                  \* finalized_blockNum of the metadata
    blockJobs,             \* blocks whose job waits
    filling,               \* the goroutines
    tables,                \* the tables there are
    splitBlockTableCache,  \* the index whose tables are known to all processes
    maxTableBlockNum,      \* the package variable, zero in a new process
    adding,                \* the background goroutines: bag of what each will make
    starting,              \* what Migration of a starting process has still to make
    storedBlocks,          \* blocks whose transaction has committed
    spoilt,                \* history: tables whose last creation failed or died
    tableFaults            \* faults so far

tableVars == <<head, blockJobs, filling, tables, splitBlockTableCache, maxTableBlockNum,
               adding, starting, storedBlocks, spoilt, tableFaults>>

\* In the order in which AddIndex makes them.
Parts == <<"blocks", "events", "extrinsics", "logs">>

IndexOf(b) == b \div SplitTableBlockNum

Exists(i, part) == <<i, part>> \in tables

AddIndex(i) == [k \in 1..4 |-> <<i, Parts[k]>>]

\* AutoMigrate of the newest index ends at its first error; AddIndex of every
\* index up to the finalized head goes on.
Migration ==
    [auto  |-> AddIndex(IndexOf(head)),
     index |-> [k \in 1..4 * (IndexOf(head) + 1) |-> AddIndex((k - 1) \div 4)[((k - 1) % 4) + 1]]]

Started == [auto |-> <<>>, index |-> <<>>]
Waiting == [at |-> "idle", block |-> 0, ddl |-> <<>>, ok |-> FALSE]

\* One CREATE TABLE, which does nothing to a table that exists.
AutoMigrate(table, works) ==
    /\ tables' = IF works THEN tables \cup {table} ELSE tables
    /\ spoilt' = IF works THEN spoilt \ {table} ELSE spoilt \cup ({table} \ tables)
    /\ tableFaults' = IF works THEN tableFaults ELSE tableFaults + 1
    /\ works \/ tableFaults < MaxTableFaults

-----------------------------------------------------------------------------
(* A goroutine that fills a block *)

\* The daemon asks for the block that a new head makes final.
AnnounceHead ==
    /\ head < MaxHead
    /\ head' = head + 1
    /\ blockJobs' = IF head' < FinalLag THEN blockJobs ELSE blockJobs \cup {head' - FinalLag}
    /\ UNCHANGED <<filling, tables, splitBlockTableCache, maxTableBlockNum, adding, starting,
                   storedBlocks, spoilt, tableFaults>>

TakeBlock(w, b) ==
    /\ starting = Started /\ filling[w].at = "idle" /\ b \in blockJobs
    /\ blockJobs' = blockJobs \ {b}
    /\ filling' = [filling EXCEPT ![w] = [Waiting EXCEPT !.at = "cache", !.block = b]]
    /\ UNCHANGED <<head, tables, splitBlockTableCache, maxTableBlockNum, adding, starting,
                   storedBlocks, spoilt, tableFaults>>

\* The beginning of SplitBlockTable: the tables every process knows are not
\* looked for.
ReadTableCache(w) ==
    /\ filling[w].at = "cache"
    /\ filling' = [filling EXCEPT ![w].at =
                      IF splitBlockTableCache = {IndexOf(filling[w].block)} THEN "insert" ELSE "lookUp"]
    /\ UNCHANGED <<head, blockJobs, tables, splitBlockTableCache, maxTableBlockNum, adding,
                   starting, storedBlocks, spoilt, tableFaults>>

HasTable(w) ==
    /\ filling[w].at = "lookUp"
    /\ LET i == IndexOf(filling[w].block)
       IN  filling' = IF Exists(i, "blocks") THEN [filling EXCEPT ![w].at = "setCache"]
                      ELSE [filling EXCEPT ![w].at = "create", ![w].ddl = AddIndex(i)]
    /\ UNCHANGED <<head, blockJobs, tables, splitBlockTableCache, maxTableBlockNum, adding,
                   starting, storedBlocks, spoilt, tableFaults>>

CreateTable(w, works) ==
    /\ filling[w].at = "create"
    /\ AutoMigrate(Head(filling[w].ddl), works)
    /\ LET rest == Tail(filling[w].ddl)
       IN  filling' = [filling EXCEPT ![w].ddl = rest, ![w].at = IF rest = <<>> THEN "setCache" ELSE "create"]
    /\ UNCHANGED <<head, blockJobs, splitBlockTableCache, maxTableBlockNum, adding, starting, storedBlocks>>

\* The end of SplitBlockTable, whether or not the tables could be made.
SetTableCache(w) ==
    /\ filling[w].at = "setCache"
    /\ splitBlockTableCache' = {IndexOf(filling[w].block)}
    /\ filling' = [filling EXCEPT ![w].at = "insert"]
    /\ UNCHANGED <<head, blockJobs, tables, maxTableBlockNum, adding, starting, storedBlocks,
                   spoilt, tableFaults>>

\* Mutant: a block whose insert failed is not tried again.
InsertForgets(w) ==
    /\ filling[w].at = "insert"
    /\ LET i == IndexOf(filling[w].block)
       IN  filling' = IF \A part \in ToSet(Parts) \ {"blocks"} : Exists(i, part)
                      THEN [filling EXCEPT ![w].at = "max", ![w].ok = Exists(i, "blocks")]
                      ELSE [filling EXCEPT ![w] = Waiting]
    /\ UNCHANGED <<head, blockJobs, tables, splitBlockTableCache, maxTableBlockNum, adding,
                   starting, storedBlocks, spoilt, tableFaults>>

\* The inserts of the transaction.  A missing table ends it, and the job goes
\* back to its list; the insert of the block is the last, and its error is
\* returned after the tables of the next index have been seen to.
InsertRows(w) ==
    /\ filling[w].at = "insert"
    /\ LET i == IndexOf(filling[w].block)
       IN  IF \A part \in ToSet(Parts) \ {"blocks"} : Exists(i, part)
           THEN /\ filling' = [filling EXCEPT ![w].at = "max", ![w].ok = Exists(i, "blocks")]
                /\ UNCHANGED blockJobs
           ELSE /\ filling' = [filling EXCEPT ![w] = Waiting]
                /\ blockJobs' = blockJobs \cup {filling[w].block}
    /\ UNCHANGED <<head, tables, splitBlockTableCache, maxTableBlockNum, adding,
                   starting, storedBlocks, spoilt, tableFaults>>

\* maxTableBlockNum < cb.BlockNum+SplitTableBlockNum, read without a lock.
ReadMaxTable(w) ==
    /\ filling[w].at = "max"
    /\ filling' = [filling EXCEPT ![w].at =
                      IF maxTableBlockNum < filling[w].block + SplitTableBlockNum THEN "next" ELSE "commit"]
    /\ UNCHANGED <<head, blockJobs, tables, splitBlockTableCache, maxTableBlockNum, adding,
                   starting, storedBlocks, spoilt, tableFaults>>

\* Mutant: the index that is looked for is the block's own.
AddNextSame(w) ==
    /\ filling[w].at = "next"
    /\ LET i == IndexOf(filling[w].block)
       IN  adding' = IF Exists(i, "blocks") THEN adding ELSE adding (+) SetToBag({AddIndex(i + 1)})
    /\ maxTableBlockNum' = filling[w].block + SplitTableBlockNum
    /\ filling' = [filling EXCEPT ![w].at = "commit"]
    /\ UNCHANGED <<head, blockJobs, tables, splitBlockTableCache, starting, storedBlocks, spoilt, tableFaults>>

\* A goroutine is started for the tables of the next index when they are
\* missing; the variable moves on before they are there.
AddNextIndex(w) ==
    /\ filling[w].at = "next"
    /\ LET i == IndexOf(filling[w].block) + 1
       IN  adding' = IF Exists(i, "blocks") THEN adding ELSE adding (+) SetToBag({AddIndex(i)})
    /\ maxTableBlockNum' = filling[w].block + SplitTableBlockNum
    /\ filling' = [filling EXCEPT ![w].at = "commit"]
    /\ UNCHANGED <<head, blockJobs, tables, splitBlockTableCache, starting, storedBlocks, spoilt, tableFaults>>

EndFill(w) ==
    /\ filling[w].at = "commit"
    /\ IF filling[w].ok
       THEN storedBlocks' = storedBlocks \cup {filling[w].block} /\ UNCHANGED blockJobs
       ELSE blockJobs' = blockJobs \cup {filling[w].block} /\ UNCHANGED storedBlocks
    /\ filling' = [filling EXCEPT ![w] = Waiting]
    /\ UNCHANGED <<head, tables, splitBlockTableCache, maxTableBlockNum, adding, starting,
                   spoilt, tableFaults>>

-----------------------------------------------------------------------------
(* The background goroutines, and the process *)

AddInBackground(ddl, works) ==
    /\ BagIn(ddl, adding)
    /\ AutoMigrate(Head(ddl), works)
    /\ adding' = LET rest == adding (-) SetToBag({ddl})
                 IN  IF Len(ddl) = 1 THEN rest ELSE rest (+) SetToBag({Tail(ddl)})
    /\ UNCHANGED <<head, blockJobs, filling, splitBlockTableCache, maxTableBlockNum, starting, storedBlocks>>

Migrate(works) ==
    /\ starting # Started
    /\ IF starting.auto # <<>>
       THEN /\ AutoMigrate(Head(starting.auto), works)
            /\ starting' = [starting EXCEPT !.auto = IF works THEN Tail(@) ELSE <<>>]
       ELSE /\ AutoMigrate(Head(starting.index), works)
            /\ starting' = [starting EXCEPT !.index = Tail(@)]
    /\ UNCHANGED <<head, blockJobs, filling, splitBlockTableCache, maxTableBlockNum, adding, storedBlocks>>

\* What some goroutine or the starting process is going to make.
Pending ==
    (UNION {ToSet(filling[w].ddl) : w \in TableWorkers}) \cup (UNION {ToSet(d) : d \in BagToSet(adding)})
    \cup ToSet(starting.auto) \cup ToSet(starting.index)

\* The worker process dies with all its goroutines and is started again.
ProcessRestarts ==
    /\ tableFaults < MaxTableFaults
    /\ tableFaults' = tableFaults + 1
    /\ blockJobs' = blockJobs \cup {filling[w].block : w \in {v \in TableWorkers : filling[v] # Waiting}}
    /\ filling' = [w \in TableWorkers |-> Waiting]
    /\ adding' = EmptyBag /\ maxTableBlockNum' = 0
    /\ spoilt' = spoilt \cup (Pending \ tables)
    /\ starting' = Migration
    /\ UNCHANGED <<head, tables, splitBlockTableCache, storedBlocks>>

SplitTablesInit ==
    /\ head = 0 /\ blockJobs = {}
    /\ filling = [w \in TableWorkers |-> Waiting]
    /\ tables = {} /\ splitBlockTableCache = {} /\ maxTableBlockNum = 0
    /\ adding = EmptyBag /\ starting = Migration
    /\ storedBlocks = {} /\ spoilt = {} /\ tableFaults = 0

FillStep(w) ==
    \/ ReadTableCache(w) \/ HasTable(w) \/ SetTableCache(w)
    \/ InsertRows(w) \/ ReadMaxTable(w) \/ AddNextIndex(w) \/ EndFill(w)
    \/ \E works \in BOOLEAN : CreateTable(w, works)

AddStep     == \E ddl \in BagToSet(adding), works \in BOOLEAN : AddInBackground(ddl, works)
MigrateStep == \E works \in BOOLEAN : Migrate(works)

SplitTablesNext ==
    \/ AnnounceHead
    \/ \E w \in TableWorkers : FillStep(w) \/ \E b \in blockJobs : TakeBlock(w, b)
    \/ AddStep \/ MigrateStep \/ ProcessRestarts

-----------------------------------------------------------------------------
(* Properties *)

Owed(i) == {i} \X ToSet(Parts)

\* Wherever a goroutine may rely on the four tables of an index, because it
\* found the first of them or the cache names it or it is about to insert, each
\* of them exists, or somebody is going to make it, or its creation failed: two
\* goroutines that meet in the middle of AddIndex may fail an insert, never
\* leave a table that nobody makes.
TablesWhole ==
    \A i \in {t[1] : t \in {u \in tables : u[2] = "blocks"}} \cup splitBlockTableCache
             \cup {IndexOf(filling[w].block) : w \in {v \in TableWorkers : filling[v].at = "insert"}} :
        Owed(i) \subseteq tables \cup Pending \cup spoilt

\* Although maxTableBlockNum is read and written without a lock and runs ahead
\* of the tables, the index after that of a stored block is there, on its way,
\* or was lost by a failure, before the chain has grown through it: a block of a
\* later index moves the variable past an index that nobody has made yet.
NextIndexAhead ==
    \A b \in storedBlocks :
        head < FinalLag + (IndexOf(b) + 2) * SplitTableBlockNum =>
            Owed(IndexOf(b) + 1) \subseteq tables \cup Pending \cup spoilt

\* What a table is owed: it is whole or somebody makes it whole, and that of the
\* next index comes before it is needed.
TablesMade == TablesWhole /\ NextIndexAhead

\* In the end every final block is stored, whatever inserts failed meanwhile,
\* unless a table of its index was lost by a failure and no process started
\* since: then its blocks are tried for ever, because the first table is there
\* or the cache says so.
TablesServe ==
    <>[](\A b \in 0..(MaxHead - FinalLag) :
            b + FinalLag <= head => b \in storedBlocks \/ Owed(IndexOf(b)) \cap spoilt # {})
=============================================================================
