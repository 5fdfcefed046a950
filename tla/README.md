# A TLA+ model of the subscan-essentials indexer

This directory models the indexer: how finalized blocks of a Substrate chain
become rows in the database and jobs for the plugins, through two daemons that
share nothing but Redis and MySQL; what the plugins make of those jobs; what the
worker keeps about the runtime of the chain; and what the API answers from the
rows while they are being written. TLC checks the models on small instances;
TLAPS proves the safety properties of the core (the two daemons, their
composition, the task pool) for every value of the constants.

## 1. The system

| Part | Code | State it keeps | What it does |
|---|---|---|---|
| subscribe daemon | `internal/service/subscribe.go`, `substrate.go` | the websocket, the last finalized head, the last block it published, a channel of capacity one | a reader goroutine follows the finalized heads; a fetch goroutine publishes a `block` job for each block up to two below the head |
| job queue | `util/mq` (go-workers on Redis) | one list per queue, one limiter key per job (12 s) | `Publish` drops a job whose key is alive; `ForcePublish` always pushes |
| worker daemon | `internal/observer/go-worker.go` | none of its own; ten goroutines per queue | runs a job; a job that fails is forced back on its list |
| block filling | `internal/service/substrate.go` (`FillBlockData`), `block.go`, `extrinsic.go`, `fee.go`, `plugin.go` | rows of blocks, extrinsics, events, logs; `count_extrinsic` and the fill watermarks in Redis | reads the row, asks the node, writes one transaction, publishes the plugin jobs, moves two watermarks |
| runtime registry, sessions | `internal/service/runtime.go`, `internal/dao/runtimeVersion.go`, `session.go`, `model/runtime.go` | specs known to the process, rows of specs with their metadata, validators per session, a list readers cache for ten minutes | brings the metadata of a new spec before a block is decoded; names the author of a block |
| split tables | `internal/dao/migration.go`, `chainBlock.go` | four tables per 10^6 blocks; the last index known to exist, in Redis and in a package variable | made by a starting process, by the fill of a block, and ahead of time in the background |
| extrinsic counters | `internal/dao/chainExtrinsic.go`, `chainMetadata.go`, `internal/script/install.go` | two counters and cached counts in Redis | incremented by fills, recounted every 20 minutes |
| account mapping | `model/substrate.go`, `internal/script/install.go` | tables per account | written whole in the block's transaction, and by a command |
| completeness command | `internal/script/install.go` | none | walks the rows, fills or queues what is missing |
| lists | `internal/dao/*ListCursor`, `plugins/*/dao` | none | pages by cursor over tables split by block number, or over one table |
| task pool | `util/parallel/parallel.go` | a list, a wait group, a channel of errors | runs a fixed list of tasks on five goroutines and collects their errors |
| balance plugin | `plugins/balance` | accounts, transfers, progress of a command | refreshes the accounts events name; commands walk all accounts of the chain or of the table, and all events |
| EVM plugin, indexing | `plugins/evm/dao`, `workers` | blocks, transactions, receipts, accounts, tokens, transfers, balances, collectibles, contracts; a set and counters in Redis | the jobs of blocks and logs; `EvmValidate` |
| EVM plugin, requests | `plugins/evm/http`, `dao/api.go`, `contract` | the rows of contracts | an Etherscan-compatible API; verification of sources |
| agent keys audit | `internal/agentkeys`, `internal/server/http/agentkeys.go` | a cache of envelopes | joins the audit logs with envelopes served by another program |
| clients | `pkg/go-web3`, `share/web3` | connections | JSON-RPC to the EVM side of the node |
| commands, system plugin, helpers, front end | `cmd`, `plugins/system`, `share`, `ui-react` | - | not modelled |

How they meet: the daemon and the workers call each other only through the job
lists, the limiter keys and the watermark `RedisFillFinalizedBlockNum`, which
workers write and a restarted daemon reads. Two workers meet in the rows of a
block both are filling, in the counters, the registry and the watermarks. A
block's plugin jobs start the plugins, which ask the node for its *present*
state and publish further jobs of their own. Commands run in a process of their
own beside all of it, and requests read whatever is committed.

What is hard: no lock protects the head the daemon's two goroutines share, nor
the list of known specs; the finalized test of `FillBlockData` is far from the
write it guards; counters in Redis move inside database transactions; the
watermarks are read, compared and written in three steps; the same shape
(read a row or the node, compute, write the row whole) is found in the account
mapping, the refresh of a balance, the holder of a collectible and the
verification of a contract; errors of `Publish`, `ForcePublish`, `GET`, `SET`,
`HINCRBY` and `COMMIT` are discarded at different places; failed jobs are retried
while duplicates run; processes stop between any two steps; one answer is put
together from several queries. Each of these is a hazard with its line in
`PROJECT.json`.

What makes each part correct, in short: the daemon asks for every final block,
once final, without holes (Subscriber); a block asked for is stored or still on
its way, and a stored block's plugin jobs reach their lists (BlockFill); the
archive only grows, and only by final blocks (Indexer); a block is decoded with
a runtime whose metadata is there and belongs to its own session's author
(RuntimeRegistry); a row that says a block is done means its parts are there
(EvmBlocks); a block finds its tables in the end (SplitTables), a counter comes
back to the rows it counts (ExtrinsicCounts), an account's list misses no table
(AccountMapping), a scan of the chain leaves a row for each account
(InitAccount); what is counted is counted once, and what a transfer changed is
read back (EvmTokens, Balance); a command passes over nothing (Completeness,
Balance); a walk shows each row once (ReadApi, AgentAudit, EvmApi); an answer
reaches its own caller (Web3Client); a value has one encoding (Cbor); a run of
the pool ends, with exactly the errors of the tasks that failed (TaskPool).

## 2. The modules

```
SharedRedis         job lists, limiter keys, watermarks
  ^         ^
Subscriber  BlockFill -------- BlockFillProofs
  |  ^      ^     ^
  |  Indexer+     MCBlockFill
  |  |  |  \
  |  |  |   ChainArchive  (abstract: what the indexer promises)
  |  |  MCIndexer
  |  IndexerProofs
  SubscriberProofs

TaskPool, SplitTables, ExtrinsicCounts,
AccountMapping, InitAccount                ---- MCWorker
EvmBlocks, EvmTokens, EvmContracts, Balance,
Completeness, Extrinsics                   ---- MCPlugins
ReadApi, AgentAudit, EvmApi, Web3Client,
RuntimeRegistry, Cbor <- CborEncoder       ---- MCApi

TaskPool, SplitTables, AccountMapping, ExtrinsicCounts,
InitAccount                                               --- WorkerProofs
RuntimeRegistry, Completeness, Extrinsics                 --- RegistryProofs
EvmContracts, EvmBlocks, EvmTokens, Balance               --- PluginProofs
Web3Client, AgentAudit, EvmApi, ReadApi                   --- ApiProofs
Cbor                                                      --- CborProofs
```

**SharedRedis** holds the state both daemons see. A job is a pair of a block
and a kind: kind 0 is the `block` job, the others are the plugin jobs in the
order `CreateChainBlock` publishes them. A list is a bag, because ten
goroutines in any number of processes take from it. `Publish`, `PublishFails`,
`ForcePublish` are `GoWorker.Publish` and `ForcePublish`; `Expire` is the TTL.
TTL and SETEX are two commands in the code: two publishers that both pass the
test behave as a publish, an expiry and a publish, which the model has.
`Fault(f)` spends one of `MaxFaults` failures, so failures are finite.

**Subscriber** is the daemon. `Parse` and `Send` are `parser` on
`chain_finalizedHead`, cut where the send may block. `Wake`, `Start`,
`PublishNext`, `LeaveLoop` are `subscribeFetchBlock`. `finalizedBlockNum` is
written by one goroutine and read by the other without a lock, so the loop acts
on `sight`, any value the head had since the goroutine woke (`Glance` brings it
up to date, or does not). `Connect` lets another node announce an older head.
On its own the module stands the workers in by `Fill`, which may move the
watermark to any block whose job it took, backwards too.

**BlockFill** is the worker. Each goroutine has a program counter whose values
are the places where another goroutine can act:

| `pc` | code |
|---|---|
| `idle` -> `fetch` (`Receive`) | `emitMsg`, the finalized test of `FillBlockData`; a row that cannot be read counts as missing |
| `fetch` -> `txn` (`Insert`) | node answers, decoding, the inserts of `CreateChainBlock`, the counter |
| `txn` -> `emit` (`Commit`, `CommitFails`) | `CreateBlock`, `DbCommit`; or -> `retry` (`Rollback`) |
| `emit` (`Emit`, `EmitFails`) | `emitEvent`, `emitExtrinsic`, `emitBlock`, one `Publish` per step |
| `emit` -> `setBest` -> `getFinal` -> `setFinal` | the two watermarks: GET, compare, SET |
| `retry` -> `idle` (`Retry`, `RetryFails`) | `ForcePublish` in `emitMsg` |

`Crash` kills the process: transactions roll back and go-workers delivers the
jobs it had not acknowledged again. `Panic` is a missing runtime metadata: the
message is acknowledged and the block is lost. `RunPlugin` and `RerunPlugin`
are the plugin jobs. `Request` stands for the daemon and `CheckCompleteness`
when the module is checked alone.

The extrinsics, events and logs of a block are one unit: they are inserted by
one transaction, and the unique keys make a second transaction on the same
block wait for the first. `row = "codec"` is a row with its `CodecError` flag
set; every later request fetches such a block again, and `IgnoreDuplicate`
keeps its row as it was.

**Indexer** composes the two over one SharedRedis, each action of one leaving
the other's variables alone. **ChainArchive** is the abstract specification: a
block enters the archive once, when the chain has finalized two blocks after
it, and stays. `Archive!Spec` is checked as a property under the mapping
`tip <- head`, `archive <- {n : row[n] is there}`, `Lag <- FinalizedWaiting`.

**TaskPool** is `parallel.go`: run() hands out tasks, waits for a free
goroutine, and receives errors only after the last task was handed out.
A task that panics is a task that ends without an error (the deferred
`wg.Done` runs; ants recovers).

**RuntimeRegistry** is `regRuntimeVersion` and `BlockAuthor` of the goroutines
that fill blocks, and `AfterFind` of whoever reads them. `filler` has a program
counter per goroutine with a stop at each read and write of shared state: the
row of the spec is looked up (`FindRuntimeVersion`), created
(`CreateRuntimeVersion`), its metadata fetched (`regCodecMetadata`) and stored
(`setRuntimeData`), and only then the spec is appended to the list without a
lock (`AppendSpec`, which another append may swallow). Each of the three queries
may fail, and the code takes that for "there" (SELECT), "another was faster"
(INSERT) or does not look (UPDATE). The chain is a constant, `Runtimes[n]` being
the spec and the session after block `n`.

**Extrinsics** is the loop of `createExtrinsic`: success, weight and fee as the
events tell them, and `GetExtrinsicFee` with every combination of answers.
`FeeUnit` is the precision of the decimal library's quotients.

**Completeness** is the command's walk, `Limit` being the unsigned
`uint(latest)-holdOnNum`; `StoreMeanwhile` is the daemons. The constants 3000, 20
and the 10^6 blocks of a table are parameters.

**EvmBlocks** is `AddEvmBlock` and `processBlock` down to the stages of one
transaction in the pool, which all assign one `err`; `EvmValidate`; and the
counter with its refresh. `Claim` is the SADD of `TouchAccount` and
`InsertClaimed` its insert: both are used for the sender and the address called
(`ClaimAccounts`, `TouchAccount`) and for a created contract, which only the hook
of its own row touches, before the row commits (`ReadReceipt`, `TouchContract`,
`NewContract`). A failing SADD or HINCRBY is not seen by the code. **EvmTokens**
takes over where a log is handed to
`EventProcess`: jobs of three classes behind the rate limiter of `util/mq`, and
the rows they write from what the node says at its present head. A publish that
fails leaves the limiter key behind (`Publish`); a token whose row could not be
made or read has no contract, and its transfer is stored under none
(`InsertStray`).
**EvmContracts** is one row of `evm_contracts` between the indexer and requests
that verify it; `Updates` is gorm's update of the fields that are not zero.
What the three share is in the constants: the logs of a transaction, the
addresses it names.

**Balance** has the two workers of the plugin's queue and the operator's command
as runners over one table of accounts. A refresh is three steps (`ReadData`,
`ReadBalanceLocks`, `AfterAccountCreate`), so two of them may overlap and the
chain may move in between. `RowOf` is the arithmetic of locks and vesting. The
command's batch is a stretch of the table in the order of ids (`idOrder`), from
where its mode says (`RefreshAllAccount`: resume, reset or `--start-id`), and
what InitTransfer has still to do of a table a set of events (`rest`), the
transfers first (`FirstOfTable`). Each of its queries and inserts may fail
unseen: `pass` has the accounts tried or skipped since the progress was last
reset, `firstScan.lost` what a failure of InitTransfer passed over.

**ReadApi** is the cursor lists: `ServeList` and below it one operator per dao
function (`GetBlockListCursor`, `GetIdListCursor`, `KeysetPage`), while
`Indexers` store blocks of several tables in any order, tables fail and ranks
change. A row is its identifier; what the chain fixes about it is a function of
the identifier. **EvmApi** is the requests that put one answer together from
several tables; its `Find` says what a query finds that names a column its table
lacks. **AgentAudit** is the audit endpoints with their cache. A query's answer is
any the database may give: rows alike in its ORDER BY come in the order of one of
`TieOrders`, and a query that fails is an empty one, as its error is discarded.
`SliceStable` is Go's sort, which keeps what it cannot tell apart in place. A
hash may be `NoHash`, what is left of a blank one, and is then not checked.
**Cbor** is the
parser of their envelopes: what `cborParser.parse` returns is a recursive
function of the offset and of the number of items wanted, `parseItems` is one
call of it given what is parsed further on, and `itemHead` the switch over the
major types; **CborEncoder** is the encoder, recursive over values.
**Web3Client** is the methods of the client as a table of conversions and the
callers that share a provider.

Where the code walks a sequence of which only the members matter, such as the
blocks `EvmValidate` has to look at or the keys of a page of `InitAccount`, the
model has the set and takes its least member.

**SplitTables** is where rows go: `ReadTableCache`, `HasTable`, `CreateTable`
and `SetTableCache` are `SplitBlockTable`, `ReadMaxTable` and `AddNextIndex` the
second half of `CreateBlock`, `Migrate` and `AddInBackground` the two others that
call `AddIndex`, one table per step. `InsertRows` finds a table missing as MySQL
would. An index is promised its tables only when the chain has grown through the
one before it: a block of a later index may move `maxTableBlockNum` past an index
nobody has made, and the code then makes its tables one by one, when rows come
(`NextIndexAhead`). **ExtrinsicCounts** has a goroutine's increments, one Redis command each,
inside its open transaction, and `RefreshMetadata` as one count per table and
query (`CountTable`) with the cache of counts, then one HMSET. **AccountMapping**
has a transaction that reads a row of the mapping, writes it and commits, with
the row's lock, and the command's scan and upserts beside it. **InitAccount** is
the command's two scans in pages (`ReadKeys`, `ReadValues`), the hand-over to the
pool (`InvokeTask`), and what a task does (`AddTask` is `wg.Add`), beside one
worker that refreshes a row.

`MCPlugins`, `MCApi` and `MCWorker` are for TLC: these modules share no state with one
another, so their behaviours are those of one part at a time (`part`). It is a
sum of the parts and not a product. `MCPlugins` takes the chain of `MCEvmBlocks`.
In the other parts of `MCWorker` the task pool has already returned, so that its
liveness property holds of them too.

`PROJECT.json` maps each definition to its lines.

## 3. The runs

| Run | Question | Bounds | States |
|---|---|---|---|
| `fill_faults` | does any mix of two failures lose a block, create an orphan job or a wrong watermark, rewrite a row, or leave the counter behind? | 1 block, 2 plugin jobs, 2 goroutines, 2 requests, 2 faults of 7 kinds | 1.5 M |
| `fill_marks` | do interleaved watermark updates, or concurrent fills, leave a watermark on a block whose jobs are not out? | 2 blocks, 1 plugin job, 2 goroutines, 2 requests each, 1 fault (node, commit, Redis) | 0.46 M |
| `sub` | holes, early requests, lost wake-ups; is every final block asked for in the end? | 2 blocks (heads 0..3), 2 faults (disconnect, Redis, enqueue, restart) | 0.93 M |
| `idx_safe` | does the pipeline implement the archive, and is the resume point safe? | 2 blocks, 2 goroutines, 1 fault (restart, node) | 0.96 M |
| `idx_live` | is every final block stored and seen by the plugins? | 2 blocks, 1 goroutine, 1 plugin job, 1 fault (node, insert, plugin) | 0.21 M |
| `worker` | the task pool, and what the block worker keeps beside its rows | per part, below | 0.28 M |
| `api` | the parts that read, and the registry | per part, below | 1.1 M |
| `plugins` | the parts that write | per part, below | 3.2 M |
| `fill_strand`, `fill_commit`, `sub_exit`, `evm_validate` | four places where the code does not do what it says (below) | as small as shows it | - |

Why these are enough to be interesting: two goroutines on one block meet in
every place of the transaction, the counter and the publishes; two blocks are
what it takes for watermarks to be written out of order; two faults allow a
failure during the recovery from another. With heads up to 3 the daemon may stop
in the middle of a range, and the head grow by one or skip one. A pool of two with
four tasks has what a pool of five with more than five has: full, full of failed
tasks, and tasks left over.

The parts of `worker`:

* *pool*: four tasks on a pool of two, a cancellation at any point.
* *tables*: five heads, so three blocks in the first two indexes and the tables
  of the one after; two goroutines and any number in the background; one failing
  statement or death of the process.
* *counts*: two blocks in two tables, two goroutines, recounts without end, one
  fault (Redis, a query, a rollback, a job done again).
* *mapping*: an account that signs in three tables, on a database older than the
  mapping and on a new one; two goroutines, one run of the command, one fault.
* *accounts*: three accounts, of which one may come into being later, in pages of
  two; a pool of two; one change of an account, one failing request or write.

The parts of `plugins`, two goroutines each and one failure of any kind:

* *blocks*: three blocks, one that creates a contract, one with a call and a
  transaction with an anonymous log, one empty; two jobs in all, which may be two
  of one block; beside them `EvmValidate`, a refresh of the counter, or a network
  that forgives empty answers.
* *tokens*: chains of two transfers (mint and payment, mint and gift, mint and
  burn), each log handed on up to twice in all, a limiter that expires any time.
* *contracts*: two requests with different settings, three upgrades, two
  transactions.
* *balance*: two accounts with locks, vesting and freezes, two events, one of the
  two commands, in any mode and more than once.
* *check*: heads 1 and 10 with a margin of 2, chunks of 3, tables of 4, up to two
  gaps, three start blocks, unsigned numbers of 4 bits.
* *fees*: every pair of extrinsics with any of 11 lists of events. A quotient has
  one decimal there and 16 in the code; the weights and the estimates are
  those for which the fee comes out 1 above and 1 below the exact share.

The parts of `api`:

* *reads*: 13 lists, four blocks in two tables, two rows per block, pages of one
  and two, two indexers.
* *audit*: eight logs of two versions with two roots, of which two are tied in
  block and index and one comes later in the chain with a smaller index; either
  order of the tied ones; pages of up to two, any query failing; two clients for
  envelopes of any hash or of the empty one, two answers of the worker.
* *cbor*: every string of up to four of 20 octets, chosen to have each major type,
  each length of a head and its boundary.
* *api*: six logs, every filter with at most one "and" and the pairs with an "or";
  two spellings of an account, one with a row and one without.
* *web3*: two callers, every method, every kind of reply.
* *registry*: three blocks filled in any order by two goroutines, the session
  changing with the second and the spec with the third; a reader with a list that
  may be old; one query, answer or process that fails.

Goroutines, clients and callers are interchangeable, so the safety runs use
symmetry; the liveness runs do not. Deadlock is not checked: when the heads,
requests and jobs of the bounded model are used up and the queues are empty, the
system rests.

The properties of the plugins exempt what the code really loses and say exactly
when: `raced`, `refused`, `unpaid`, `uncounted`, `unheard`, `doubt`, `pass`,
`lost`, `disturbed`, `broken`, `missed`, `overlap`, `torn`, `TiedLogs`, `spoilt`,
`drift`, `owing`, `passedOver`, `outdated` are histories that record that the one
overlap or failure happened, and nothing else is excused. They are as narrow as
TLC lets them be: with any of them dropped the run finds a counterexample. In
words:

* an account of an EVM block may be missing if its SADD or its insert failed, if
  the process died between the two, or if the row of the contract failed
  (`unpaid`); the counter may be behind by the HINCRBYs that failed (`refused`),
  and by any number once a refresh overlapped a transaction or could not count
  (`raced`);
* a transfer of a token may be uncounted if the process died before the count or
  its UPDATE failed (`uncounted`); a holder may be unread if a publish failed or
  its job was lost (`unheard`); a transfer stored under no contract, because the
  query for its token failed, is both for good;
* the row of an account may be old if its last refresh failed, died, was given up
  with its job or ran beside another (`doubt`); RefreshAllAccount may pass over
  what an operator skips with `--start-id` (`pass`), InitTransfer what its failing
  queries and inserts would have found (`firstScan.lost`);
* a spec may be taken for known without metadata if a query about it failed, or
  whoever was bringing them died (`broken`);
* a page of audit rows may lack one of two tied rows (`TiedLogs`), and what a
  failing query should have found (`auditWalk.lost`).

### What the failing runs show

* `sub_exit`: a daemon that connects while the finalized head is still the
  genesis block stops indexing for good, with no failure at all.
  `EventuallyRequested` and `ReaderUnblocked` say what holds otherwise.
* `fill_strand`: when a publish fails after the commit, the retry of the block
  ends at the finalized test, and the remaining plugin jobs are never
  published. A crash at the same place does the same.
* `evm_validate`: with no failure at all, `EvmValidate` ends with a block it has
  passed still missing. A gap of one block passes its test, which is off by one,
  and a larger gap is filled under the key 0, the `blockNum` of the command line.
* `fill_commit`: a failing COMMIT is printed and forgotten: the plugin jobs of a
  block without a row are published and the watermarks pass it.

### Fairness

Weak fairness of the reader's and the fetch goroutine's steps and of each worker
goroutine: the Go scheduler runs them, and each waits only for what its action's
guard says. For the split tables, strong fairness of taking a block's job: the
list is first in, first out, so a job that comes back to it is taken again
however many others do. For the counters, weak fairness of the recount, which is
a cron job, and of the expiry of a cached count, which has a time to live. Weak
fairness of `Connect` and `Announce` to the present head: the dial is retried
for ever, and a node that is up announces its head. Nothing is assumed of
faults, of the limiter's expiries, or of the chain. Retried calls succeed in the
end only because `MaxFaults` is finite: a node that fails for ever is outside
the liveness properties.

## 4. The proofs

The theorems are in the modules named `...Proofs`. None assumes a value for the
number of blocks, goroutines, tasks, requests, accounts, events, tables or
faults or the length of a body; in `BlockFill` alone `Blocks` may even be
infinite. The constants have the assumptions their modules name
(`...Assumption`), which TLC evaluates.

| Theorem | Assumes of the faults | Says |
|---|---|---|
| **BlockFillProofs** | | |
| `TypeCorrect` | - | type correctness |
| `RowsAreWrittenOnce` | - | `WrittenOnce` |
| `PluginJobsOfStoredBlocks`, `WatermarksNameStoredBlocks`, `NoBlockIsForgotten` | no failing commit | `JobsOfStoredBlocks`, `WatermarkStored`, `NothingForgotten` |
| `CounterCovers` | Redis answers | `CountCovers` |
| `CounterExact` | Redis answers, no rollback, failing commit or crash | `CountExact` |
| `WatermarksAreComplete` | no failing publish | `WatermarkComplete` |
| `NoBlockIsStranded` | no failing publish, no crash | `NoStrandedBlock` |
| **SubscriberProofs** | | |
| `RequestsHaveNoHole`, `OnlyFinalBlocksRequested`, `RequestsAreSound`, `WakeupsAreNotLost` | - | `NoHole`, `OnlyFinal`, both (`RequestsSound`), `NoLostWakeup` |
| **IndexerProofs** | | |
| `IndexerImplementsArchive` | - | `ImplementsArchive` |
| `NothingIsLeftBehind` | no failing publish, no panic, no failing commit | `NoneLeftBehind` |
| `PipelineCountsExactly` | Redis answers, no rollback, failing commit or crash | `CountExact` of the composed pipeline |
| **WorkerProofs** | | |
| `TablesAreMade` | - | `TablesMade` |
| `MappingIsExact` | - | `MappingExact` |
| `CountersAreSound` | - | `CountersSound` |
| `InitAccountIsSound` | - | `InitAccountSound` |
| `PoolTyped` | - | type correctness of the task pool |
| `NeverSendsOnClosed`, `HandlerGetsAll`, `WaitIsSettled`, `StuckNeedsFailures`, `ReturnsExactly` | - | the pool's safety properties; the last is the four before it (`ReturnExact`) |
| `SmallRunNeverStuck` | as many goroutines as tasks | run() is never stuck |
| **RegistryProofs** | | |
| `RegistryIsExact`, `CompletenessIsExact` | - | `RegistryExact`, `CompletenessExact` |
| `FeesAreExact` | - | `FeesExact` |
| **PluginProofs** | | |
| `ContractRowIsExact` | - | `ContractRowExact` |
| `BlockRowIsCovered`, `CounterIsCovered` | - | `BlockRowCovers`, `CounterCovers` |
| `TokensAreExact` | - | `TokensExact` |
| `BalanceTyped` | - | type correctness (`BalanceTypes`) |
| `RowsAreFresh`, `CommandsAreComplete` | - | `RowsFresh`, `CommandsComplete` |
| **CborProofs** | | |
| `OneBody`, `EqualValues` | - | two accepted bodies with the same value, maps read in any order, are the same bytes |
| `NoHiddenField` | - | a map has as many text keys as entries, and a key's field is its entry's value |
| **ApiProofs** | | |
| `CallsAreSound` | - | `CallsSound` |
| `EnvelopesAreKept`, `AuditIsExact` | - | `EnvelopesKept`, `AuditExact` |
| `AnswersAreExact` | - | `AnswersExact` |
| `WalksAreExact`, `ShownRowsAreFound` | - | `WalksExact`, `ShownIsFound` |

The assumptions on commits and publishes are needed: `fill_commit` and
`fill_strand` are what happens without them. Where nothing is assumed, the
property itself exempts, through its histories, the overlaps and failures in
which the code does lose something (section 3).

The arguments:

* *Stored blocks.* `StoredAtEmit`: a goroutine past the commit has a stored
  block. Rows never go away (`RowsStay`), so jobs and watermarks, which are
  created only there, name stored blocks.
* *Nothing forgotten.* The property is not inductive by itself, because of the
  limiter: a publish that is dropped must find the block cared for by someone
  else. `KeysOfRequested` adds that a live key of a block job belongs to a block
  that was requested before; then each step moves a block along the chain list,
  goroutine, row.
* *Counter.* `FreshInv` ties the flag `fresh` to an open transaction. Each step
  either changes none of counter, rows and flags, or is one of three moves
  (count and flag, flag and row, flag lost), and the sizes follow from the
  finite-set theorems. Exactness also needs `TxnExclusive` (two open
  transactions never write one block) and `FreshNew`. In the composed pipeline
  the same invariant is kept by the daemon's steps, which change no row, counter
  or goroutine: they are the environment of `BlockFill`.
* *Publication.* `KeysOfEmitted`: a live key of a plugin job means the job was
  published; `Passed`: a goroutine at publish `k` has published those before
  `k`. The first is what a failing publish breaks.
* *Daemon.* The requested blocks are closed downwards because every point the
  loop can start from was requested (`ResumePointsRequested`): `lastBlock` by
  the daemon itself, the watermark by whoever asked for the block a worker
  filled. No head in flight overtakes the chain (`HeadsBounded`), so a stale one
  is only late. For the wake-ups, `LoopInv`: while the loop runs and no signal is
  on its way, what it last saw is the present head, because the reader stores
  the head before it signals.
* *Pipeline.* The two specifications meet in the jobs and the watermark, so the
  invariant spans both: what is queued, held or stored was requested
  (`OnlyRequested`), and what was requested is final (`RequestsFinal`). Hence a
  commit is a `Store` of the archive, a finalized head is its `Finalize`, and
  every other step a stutter. That the daemon leaves nothing behind joins
  `ResumePointsRequested` with `Covered`: a requested block is stored, queued or
  held, which needs `StoredAfterCommit` for the goroutine that lets go of a block
  and `KeysOfRequested` for the publish that the limiter drops.
* *Pool.* `OnePopped`, `Phases`, `AllDone`, `Failures`, `PoolSettled`: where run()
  is determines what tasks there can still be, and every failed task is sending
  or received.
* *Tables.* `Made` are the tables that are there, that somebody has in the list
  he is creating, or whose creation failed: one CREATE TABLE moves the head of a
  list and leaves `Made` alone. On it, no index is made by halves (`Closed`),
  whoever is past the look at the cache or the database relies on a whole index
  (`Relied`), and `maxTableBlockNum` was last moved by a block that had seen to
  its index and to the next (`Moved`). `NextMade` follows for a block whose
  number is above the variable because it makes the next index itself, and for
  one below because the block that moved it is of the same index, as long as the
  head has not passed it.
* *Mapping.* A row names true tables only (`RowsTrue`), so nothing is added by
  mistake. Nothing is missing because a transaction that does not write its
  table has read it in the row, or found a row made since it read none
  (`Written`), and because the command, where nobody wrote the row back
  meanwhile (`raced`), has what it scanned in its hand or in the row (`Scanned`).
* *Counters.* Between the first increment and the commit a goroutine is in
  `Past(q)`; the counter equals the rows plus these (`Counters`), and `Distinct`
  lets each step add one block to the set. A recount that has come to table i is
  sound for the blocks of the tables above (`Refreshed`): a cached count is never
  above its table (`Cached`), so a sum is too low at worst, and exact if nothing
  was stored while it ran. The lemmas add up the tables with the finite-set
  theorems.
* *InitAccount.* The walk has behind it only accounts that have a row, are in the
  pool or were passed over (`Walked`), in each of its places; the pool never has
  more than its size (`FewLost`), which bounds what one failure loses; a row is
  the chain's or a refresh of it is coming (`RowsKnown`).
* *Registry.* A spec in the list has a row with its metadata, or somebody is at
  it, or died of it, or a query about it failed (`Brought`); a goroutine at "append" or beyond is one that
  brought it (`Covered`). Authors are of the session of the block, because only
  a first block that did not decode passes its predecessor's list on (`Own`).
* *Completeness.* What is behind the walk is stored or asked for (`Looked`). The
  unsigned subtraction does not wrap once the chain has `holdOnNum` blocks
  (`LimitIs`), and that is what the property exempts.
* *Fees.* A row is a function of its extrinsic's events and of the answers about it
  (`FeesInv`). The arithmetic is `RoundedShare`: a quotient is off by at most half
  a unit, so a weight below two wholes of units moves the share by less than 1,
  and rounding down twice by less than 1 again. The proof multiplies both
  roundings out and compares multiples of the estimate and the unit. An earlier
  form of the property, that the fee is never above the exact share, held for
  amounts that were chosen too well and not for all.
* *Contracts.* A request carries a copy of the row over its awaits. `Carried`,
  `Counted` and `Followed` say what of the copy is still true when it is written
  back, unless the overlap that spoils it happened (`disturbed`).
* *EVM blocks.* A transaction that has come so far without an error has its
  receipts, then its row, then its accounts (`Kept`), and what a step stores
  stays. The counter and the increments that were refused cover the rows plus the
  transactions at their commit (`CounterInv`), because the increment comes first;
  a refresh is exact while nothing is between the two.
* *Tokens.* A stored transfer is counted, or one worker is about to count it, or
  it was lost (`OneCounts`, `TransferCountExact`). A job that the limiter drops
  was let through before, and for that one the holder has a row, or the job is
  queued or running, or lost (`LimitedHeard`).
* *Balances.* An account in no doubt is `Watched`: a refresh of it is to come, or
  one under way has read what is on the chain, or its row is fresh. The
  conjunct that makes this inductive is the second of `RowOk`: a process that is
  alone on an account and holds what the chain no longer has (`Stale`) has a
  refresh to come behind it, so that its write does no harm.
* *Commands.* `RefreshAll`: the batch is a stretch of the ids in their order, of
  which the first k are tried, and everything before it is tried or skipped
  (`Batch`), whatever of the progress Redis refused. The
  backfill: a transfer that was there when it began has its row or lies ahead of
  the walk (`Ahead`), which goes down the tables and up each of them.
* *Calls.* A reply is read on the connection of the call that wrote it, so what a
  caller gets is its own (`mine`); the rest is a case per kind of conversion.
* *Envelopes.* What a client holds between its fetch and the cache has the hash it
  asked for, because it was decoded against it, unless that hash is empty; the
  cache only grows.
* *Pages.* `Newest` counts the rows above a row. It is a bijection from ranks to
  rows whenever the order is total on the set (`RankedSorts`), for which the
  proof needs no induction: two rows of one rank would each have the other above.
  The first n of a sequence so ordered are a set closed upwards, and what is left
  is below each of them (`CutKeeps`); the union of two queries' pages, each of
  n + 1 rows, therefore has the first n rows of the two tables, and has more than
  n rows if they have (`PageKeeps`).
* *Audit walk.* Every row there when the walk began is shown, is tied with
  another, or lies beyond the cursor (`WalkInv`). A cursor is the block and index
  of the last row shown, so that tied rows are the only ones it can pass.
* *Leaves.* The rows stored below a root of which everything is stored are all
  rows below it, the newest of them the committed ones, because a root commits to
  the operator's logs since the root before it. The theorem is about a root that
  counts what it commits to (`Faithful`): the contract that appends it is not part
  of this repository.
* *Answers.* A request for logs has shown the places up to its page of the sequence
  it found, sorted once more (`ListedSorts`, `PagesJoin`), so a walk that ends
  has shown all places but the first (`AllButNewest`). What the filter finds is
  what it asks for because an operator that is well formed binds both its
  topics (`MatchesWanted`). The tables of a block fill in the order of `Stages`,
  so a row found in one is in those asked after it (`TablesInOrder`).
* *Cursor lists.* Tables follow blocks and blocks follow identifiers, so a walk
  down the tables and down each of them is one sort of the rows they hold
  (`WalkDown`, `WalkUp`): there is one sequence of a set in an order
  (`SortsOnce`). Every handler therefore answers a page of the sorted rows it
  reads (`ServeForward`, with `ReadsOf` for which these are), which shows rows
  that are all above its end cursor and leaves only rows below it (`PageShows`).
  The invariant `WalkNow` carries this over the steps of the writers: of the
  rows that did not move, those seen are at or above the cursor, and those that
  were there when the walk began are seen or below it. `AccountTablesNamed` is
  inductive as it stands and says that the tables a walk of an account passes
  over have none of its rows.

* *Codec.* `OneBody` is about byte strings of any length and says that the parser
  is injective on what it accepts, which is what makes a hash of the bytes a hash
  of the value. A number of a head in the shortest of its forms has only that
  form (`SameNumber`), so two heads that say the same are the same bytes
  (`SameHead`). The recursive function of the parser is well defined because a
  call only looks further on (`Agree`, `GoodStep`, `ItemsFixed`), and everything
  about it is shown from the end of the string to its start (`FromTheEnd`). Two
  items whose values are alike have the same head, hence as many nested items,
  and these are alike; in a map they may be matched in any order, but the keys of
  both ascend in the order of their bytes, and two ascending lists with the same
  members are the same list (`OneOrder`), so the matching is the identity. What
  "alike" means is a parameter, any relation that holds of two arrays or maps only
  when it holds of what is in them (`Alike`); equality is the instance that
  gives `EqualValues`. Keys that ascend are distinct as bytes and, by the same
  theorem, distinct as values: `NoHiddenField`.

What stays with TLC: the liveness properties, which are beyond the prover, and
`OneEncoding`, whose encoder is an operator recursive over values, about which
the prover can show nothing. What `CborProofs` proves of any body, `api` shows to
be about this encoder for the bodies it can reach: it writes what the parser
reads back. By `EqualValues` nothing else is read as the same value.

Where an argument needs an induction over numbers, finite sets or offsets
(`Greatest`, `Lowest`, `FiniteBounded`, `LeftOut`, `FromTheEnd`, `ReadsDigits`) it
is made with `WFMin`, from the least element of the set of counterexamples,
because the theorems of induction take a predicate as a parameter.

## 5. Not modelled

* *Data.* The contents of blocks, events and calls are kept only where a property
  tells them apart. Ping frames and the other two notifications of the websocket
  have no effect on indexing. The reader and the ping ticker write to one
  connection without a lock (`subscribe.go:133`), which the library forbids; what
  the peer then receives is not modelled.
* *Tables of constants.* ABIs, compiler versions, method signatures, generated
  documentation.
* *Functions of the outside.* The compiler and the verify server, hashing, the
  packing of arguments, the websocket pool of the substrate client, which loses a
  connection it cannot use.
* *Parts.* The system plugin, the parsing of commands, routing and middleware,
  conversions and address formats, the front end; each is in `PROJECT.json` with
  its reason. ERC-1155 is commented out in the code, and the metadata of a
  collectible and the fast flag of `EvmValidate` are left out.
* *Simplifications that a reader should know.* The cursor of the
  list of EVM accounts compares EVM addresses while it sorts by the native ones.
  `WalksExact` says nothing of that list unless the two agree (`CursorFits`), and
  in `api` they do: `AccountOrder` is the identity. *blocks* of `plugins` has two jobs in all.
  Redis is assumed to answer in `SplitTables`, and only one process makes tables
  there. `AccountMapping` has one signed extrinsic per block, and the tables of
  all indexes exist. `InitAccount` scans locks and not the vesting schedules,
  which are scanned the same way, and accounts do not disappear.
  Failures that one step meets are counted as one failure. The queries of
  `EvmValidate`, of the requests of `EvmApi` and of a chunk of `Completeness`
  (`chainBlock.go:250`) do not fail, nor does the GET of the best watermark under
  a list of `ReadApi`, which leaves the address filters of the account list out.
  The counters `total_evm_account` and `total_evm_contract` are left out of
  `EvmBlocks`.
  `Cbor` refuses an array or a map that counts more items than the body has; the
  code sizes a slice by the count first, which for a count that no slice can have
  ends the request with a panic instead of an error.

Known hazards that no property is about: the test that looks for the event of
success or failure of an extrinsic can never hold, so every extrinsic is stored as
successful (`service/extrinsic.go:88`, as `Extrinsics` has it); fast mode
of the completeness command queues with a force flag that nobody decodes
(`install.go:86`); a row that failed to decode is fetched again and never repaired
(`block.go:88` with `IgnoreDuplicate`); an event of the balance plugin without parameters panics
(`event.go:45`); collectibles and holders are
checked and then written in two statements (`erc721.go:90`, `token.go:190`), of
which `EvmTokens` has the overlap but not the unique keys; confirmations are an
unsigned difference (`plugins/evm/dao/api.go:208`); three endpoints of the
Etherscan API always answer with an empty list; a reader of a token takes an error
for zero.

## 6. Plan

What is left, in order of importance:

1. An abstract table of rows that `EvmBlocks` implements, as `ChainArchive` is
   for the indexer.
2. The recount of the balance counters, and the plugins' jobs composed with
   `BlockFill`, which now ends at their lists.
3. Larger instances of the parts of `plugins`: three jobs of EVM blocks, two
   accounts per block of the mapping.
