--------------------------- MODULE ExtrinsicCounts ---------------------------
(***************************************************************************)
(* The counters count_extrinsic and count_signed_extrinsic of the metadata *)
(* in Redis.  The goroutines that fill blocks move them inside their open  *)
(* transactions; every twenty minutes the daemon counts the tables again   *)
(* (RefreshMetadata) and overwrites both.  The counts of all tables but    *)
(* the newest, as the best watermark tells it, are cached for a day.       *)
(*                                                                         *)
(* The two counters are named "all" and "signed".  Reads and writes of the *)
(* watermark do not fail here.                                             *)
(***************************************************************************)
EXTENDS Integers, FiniteSets, FiniteSetsExt

CONSTANTS
    CountWorkers,     \* goroutines of the block queue
    CountedBlocks,    \* blocks
    ExtrinsicsOf,     \* ExtrinsicsOf[b]: the table of a block, and its extrinsics, all and signed
    CountFaults,      \* bound: what may happen: "redis", "sql", "rollback", "again"
    MaxCountFaults    \* bound: how often

\* No table is skipped.
ASSUME CountsAssumption ==
    /\ IsFiniteSet(CountedBlocks)
    /\ ExtrinsicsOf \in [CountedBlocks -> [table : Nat, all : Nat, signed : Nat]]
    /\ \A b \in CountedBlocks : \A i \in 0..ExtrinsicsOf[b].table :
         \E c \in CountedBlocks : ExtrinsicsOf[c].table = i

VARIABLES
    counting,      \* the goroutines
    counted,       \* blocks whose transaction has committed
    count,         \* the two counters
    bestFilled,    \* RedisFillAlreadyBlockNum
    countCache,    \* counts of tables that are cached
    refresh,       \* RefreshMetadata
    drift,         \* history: "exact", or what the counters may do: "differ" or "exceed"
    countFaults    \* faults so far

countVars == <<counting, counted, count, bestFilled, countCache, refresh, drift, countFaults>>

Queries == {"all", "signed"}

TableOfBlock(b) == ExtrinsicsOf[b].table

NumOf(b, q) == IF q = "all" THEN ExtrinsicsOf[b].all ELSE ExtrinsicsOf[b].signed

\* One row for each extrinsic.
RowsIn(blocks, q) == UNION {{b} \X (1..NumOf(b, q)) : b \in blocks}
NumIn(blocks, q)  == Cardinality(RowsIn(blocks, q))

CountFault(f) == f \in CountFaults /\ countFaults < MaxCountFaults /\ countFaults' = countFaults + 1

NoFill    == [at |-> "idle", block |-> 0, best |-> 0]
NoRefresh == [at |-> "idle", latest |-> 0, index |-> 0, sum |-> 0, all |-> 0, exact |-> TRUE]

\* The goroutines between their insert and the end of the transaction.
Open == {w \in CountWorkers : counting[w].at \in {"all", "signed", "commit"}}

InTable(i) == {b \in counted : TableOfBlock(b) = i}

\* The newest table that has rows.
Newest == Max({TableOfBlock(b) : b \in counted} \cup {0})

-----------------------------------------------------------------------------
(* A goroutine that fills a block *)

\* Mutant: rows that were ignored are counted again.
InsertCountsAgain(w, b) ==
    /\ counting[w].at = "idle" /\ \A v \in Open : counting[v].block # b
    /\ IF b \in counted THEN CountFault("again") ELSE UNCHANGED countFaults
    /\ counting' = [counting EXCEPT ![w] = [NoFill EXCEPT !.at = "all", !.block = b]]
    /\ refresh' = IF refresh.at = "idle" THEN refresh ELSE [refresh EXCEPT !.exact = FALSE]
    /\ UNCHANGED <<counted, count, bestFilled, countCache, drift>>

\* CreateInBatches.  Rows that are there already, when a job is done a second
\* time, are ignored; then nothing is counted.  The unique keys make a second
\* transaction of a block wait.
InsertExtrinsics(w, b) ==
    /\ counting[w].at = "idle" /\ \A v \in Open : counting[v].block # b
    /\ IF b \in counted THEN CountFault("again") ELSE UNCHANGED countFaults
    /\ counting' = [counting EXCEPT ![w] =
                       [NoFill EXCEPT !.at = IF b \in counted THEN "getBest" ELSE "all", !.block = b]]
    /\ refresh' = IF refresh.at = "idle" \/ b \in counted THEN refresh
                  ELSE [refresh EXCEPT !.exact = FALSE]
    /\ UNCHANGED <<counted, count, bestFilled, countCache, drift>>

\* IncrMetadata, whose error nobody looks at; it does nothing for zero.
Incr(q, n) ==
    \/ /\ count' = [count EXCEPT ![q] = @ + n]
       /\ UNCHANGED <<drift, countFaults>>
    \/ /\ CountFault("redis") /\ n # 0
       /\ drift' = IF drift = "exact" THEN "differ" ELSE drift
       /\ UNCHANGED count

\* The two counters, one command each.
IncrMetadata(w) ==
    /\ counting[w].at \in Queries
    /\ Incr(counting[w].at, NumOf(counting[w].block, counting[w].at))
    /\ counting' = [counting EXCEPT ![w].at = IF @ = "all" THEN "signed" ELSE "commit"]
    /\ UNCHANGED <<counted, bestFilled, countCache, refresh>>

CommitExtrinsics(w) ==
    /\ counting[w].at = "commit"
    /\ counted' = counted \cup {counting[w].block}
    /\ counting' = [counting EXCEPT ![w].at = "getBest"]
    /\ UNCHANGED <<count, bestFilled, countCache, refresh, drift, countFaults>>

\* A later insert fails or the process dies: the counters keep what they got.
RollBack(w) ==
    /\ w \in Open /\ CountFault("rollback")
    /\ counting' = [counting EXCEPT ![w] = NoFill]
    /\ drift' = IF counting[w].at = "all" THEN drift ELSE "exceed"
    /\ UNCHANGED <<counted, count, bestFilled, countCache, refresh>>

\* SaveFillAlreadyBlockNum: GET, and SET when the block is newer.
GetBest(w) ==
    /\ counting[w].at = "getBest"
    /\ counting' = [counting EXCEPT ![w].at = "setBest", ![w].best = bestFilled]
    /\ UNCHANGED <<counted, count, bestFilled, countCache, refresh, drift, countFaults>>

SetBest(w) ==
    /\ counting[w].at = "setBest"
    /\ bestFilled' = IF counting[w].block > counting[w].best THEN counting[w].block ELSE bestFilled
    /\ counting' = [counting EXCEPT ![w] = NoFill]
    /\ UNCHANGED <<counted, count, countCache, refresh, drift, countFaults>>

-----------------------------------------------------------------------------
(* RefreshMetadata: GetExtrinsicCount of all, then of the signed ones, each *)
(* from the table of the best watermark down to table 0, then one HMSET.   *)

LatestTable == IF bestFilled = 0 THEN 0 ELSE TableOfBlock(bestFilled)

CountFrom(q, r) ==
    [r EXCEPT !.at = q, !.latest = LatestTable, !.index = LatestTable, !.sum = 0,
              !.exact = @ /\ LatestTable >= Newest]

\* The cron job, or the command.
StartRefresh ==
    /\ refresh.at = "idle"
    /\ refresh' = CountFrom("all", [NoRefresh EXCEPT !.exact = Open = {}])
    /\ UNCHANGED <<counting, counted, count, bestFilled, countCache, drift, countFaults>>

\* n extrinsics of the table are added, which is what it has or not.
AddCount(n, exact) ==
    LET r == [refresh EXCEPT !.sum = @ + n, !.exact = @ /\ exact]
    IN  refresh' = CASE r.index > 0                -> [r EXCEPT !.index = @ - 1]
                     [] r.index = 0 /\ r.at = "all" -> CountFrom("signed", [r EXCEPT !.all = r.sum])
                     [] OTHER                      -> [r EXCEPT !.at = "set"]

\* Every table but the newest is counted once a day.
UseCache(i) == i # refresh.latest /\ countCache[i][refresh.at] # -1

\* SetCache with a time to live, of whatever the count was.
CacheCount(i, n) ==
    countCache' = IF i = refresh.latest THEN countCache ELSE [countCache EXCEPT ![i][refresh.at] = n]

\* getExtrinsicTableCount: a query that fails has counted 0.
CountTable ==
    /\ refresh.at \in Queries
    /\ LET i == refresh.index
           n == NumIn(InTable(i), refresh.at)
       IN  IF UseCache(i)
           THEN /\ AddCount(countCache[i][refresh.at], countCache[i][refresh.at] = n)
                /\ UNCHANGED <<countCache, countFaults>>
           ELSE \/ AddCount(n, TRUE) /\ CacheCount(i, n) /\ UNCHANGED countFaults
                \/ CountFault("sql") /\ AddCount(0, FALSE) /\ CacheCount(i, 0)
    /\ UNCHANGED <<counting, counted, count, bestFilled, drift>>

SetMetadata ==
    /\ refresh.at = "set"
    /\ \/ /\ count' = [all |-> refresh.all, signed |-> refresh.sum]
          /\ drift' = IF refresh.exact THEN "exact" ELSE "differ"
          /\ UNCHANGED countFaults
       \/ CountFault("redis") /\ UNCHANGED <<count, drift>>
    /\ refresh' = NoRefresh
    /\ UNCHANGED <<counting, counted, bestFilled, countCache>>

\* Mutant: a count is kept for ever.
ExpireNever(i, q) == FALSE /\ UNCHANGED countVars

\* A cached count is a day old.
ExpireCount(i, q) ==
    /\ countCache[i][q] # -1
    /\ countCache' = [countCache EXCEPT ![i][q] = -1]
    /\ UNCHANGED <<counting, counted, count, bestFilled, refresh, drift, countFaults>>

Tables == {TableOfBlock(b) : b \in CountedBlocks}

CountsInit ==
    /\ counting = [w \in CountWorkers |-> NoFill]
    /\ counted = {} /\ bestFilled = 0
    /\ count = [q \in Queries |-> 0]
    /\ countCache = [i \in Tables |-> [q \in Queries |-> -1]]
    /\ refresh = NoRefresh /\ drift = "exact" /\ countFaults = 0

CountStep(w) == IncrMetadata(w) \/ CommitExtrinsics(w) \/ GetBest(w) \/ SetBest(w)
RefreshStep  == StartRefresh \/ CountTable \/ SetMetadata

CountsNext ==
    \/ \E w \in CountWorkers :
         CountStep(w) \/ RollBack(w) \/ \E b \in CountedBlocks : InsertExtrinsics(w, b)
    \/ RefreshStep
    \/ \E i \in Tables, q \in Queries : ExpireCount(i, q)

-----------------------------------------------------------------------------
(* Properties *)

\* A counter is never above what is stored or being stored, unless a
\* transaction rolled back: a recount never counts a block that is counted
\* again when it commits.  And while no transaction is open it is exact, unless
\* the last recount ran beside a transaction, used a count older than the last
\* rows of its table, failed to count a table or began below the newest one, or
\* a command of Redis failed or a transaction rolled back since.
CountersSound ==
    \A q \in Queries :
        /\ drift # "exceed" => count[q] <= NumIn(counted \cup {counting[w].block : w \in Open}, q)
        /\ Open = {} /\ drift = "exact" => count[q] = NumIn(counted, q)

\* When nothing more is stored the counters become exact and stay so, whatever
\* made them differ: the cron job counts again and again, and the cached counts
\* expire.  Only a best watermark below the newest table keeps them wrong,
\* which two goroutines can leave behind: its table is never counted.
CountersHeal ==
    <>[](LatestTable = Newest => \A q \in Queries : count[q] = NumIn(counted \cup {counting[w].block : w \in Open}, q))
=============================================================================
