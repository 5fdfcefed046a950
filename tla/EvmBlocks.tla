----------------------------- MODULE EvmBlocks -----------------------------
(***************************************************************************)
(* The EVM plugin stores the blocks of the chain's Ethereum side.  A job   *)
(* of the plugin-block queue reads a block from the node and lets a pool   *)
(* of five goroutines store its transactions, their receipts and what the  *)
(* receipts announce; the row of the block comes last.  The command        *)
(* EvmValidate walks the stored rows and fills what is missing.            *)
(*                                                                         *)
(* A log is a record <<transaction, index>> of the chain; what it says is  *)
(* LogsOf.  Jobs for the token queues are collected in sent: EvmTokens     *)
(* runs them.  The proxy rows that "upgraded" logs change are in           *)
(* EvmContracts.                                                           *)
(***************************************************************************)
EXTENDS Naturals, FiniteSets, Sequences, FiniteSetsExt

CONSTANTS
    Blocks,      \* numbers of the chain's blocks
    Txns,        \* Txns[b]: the transactions of block b
    LogsOf,      \* LogsOf[t]: the kinds of the logs of transaction t
    FromOf,      \* FromOf[t]: the sender of t
    ToOf,        \* ToOf[t]: the address t calls, or the contract it creates
    Creates,     \* transactions whose receipt names a new contract
    BlockWorkers,     \* goroutines of the plugin-block queue
    HoldOn,      \* blocks below the newest row that EvmValidate leaves alone
    Chunk,       \* blocks of one round of EvmValidate
    Settings,    \* what may be particular to a behaviour: a command that runs, or
                 \* a network that forgives the node's empty answers
    BlockFaults,      \* the failures that may happen
    MaxBlockFaults,   \* bound: failures in one behaviour
    MaxJobs      \* bound: jobs the indexer has published

ASSUME EvmAssumption ==
    /\ Blocks \subseteq Nat \ {0} /\ IsFiniteSet(Blocks) /\ \A b \in Blocks : 1 .. b \subseteq Blocks
    /\ \A b \in Blocks : IsFiniteSet(Txns[b])
    /\ IsFiniteSet(BlockWorkers)
    /\ Chunk \in Nat \ {0} /\ HoldOn \in Nat /\ MaxBlockFaults \in Nat /\ MaxJobs \in Nat

Transactions == UNION {Txns[b] : b \in Blocks}
Called(t)    == IF t \in Creates THEN {} ELSE {ToOf[t]}       \* transaction.ToAddress
Touched(t)   == {FromOf[t]} \cup Called(t)
Parties(t)   == {FromOf[t], ToOf[t]}
Addresses    == UNION {Parties(t) : t \in Transactions}
LogsIn(t)    == {<<t, i>> : i \in 1 .. Len(LogsOf[t])}
Logs         == UNION {LogsIn(t) : t \in Transactions}
Kind(l)      == LogsOf[l[1]][l[2]]
Anonymous(t) == \E l \in LogsIn(t) : Kind(l) = "anonymous"

Validator == "validator"           \* the process of the EvmValidate command
Processes == BlockWorkers \cup {Validator}

VARIABLES
    queue,      \* queue[b]: copies of the job of block b
    rows,       \* evm_blocks: rows[n] is the block whose content row n holds
    transactionCount,    \* evm_blocks: transaction_count of each row
    txns,       \* evm_transactions
    receipts,   \* evm_transaction_receipts
    sent,       \* logs that were handed on by EventProcess
    contracts,  \* evm_contracts, with their transaction_count
    members,    \* Redis: addresses known to have an account row
    claims,     \* addresses a goroutine has added to the set and not yet stored
    accounts,   \* evm_accounts
    totalTransaction,      \* Redis: total_transaction
    indexing,      \* per process, the block under way
    sweep,      \* progress of EvmValidate
    setting,    \* what is particular to this behaviour
    refresh,    \* the count RefreshMetadata has read, twice when written
                \* (bound: one refresh in a behaviour)
    blockFaults,     \* failures so far
    unpaid,     \* history: addresses that lost their account: the command that adds
                \* them to the set failed, or their insert, or their contract's, or
                \* the process died before it
    refused,    \* history: increments of the counter that failed since the last refresh
    raced,      \* history: a refresh overlapped the storing of a transaction, or its
                \* query failed
    swept       \* history: blocks that EvmValidate has passed

blockVars == <<rows, transactionCount>>
countVars == <<totalTransaction, refused>>
txnVars   == <<txns, receipts, sent, contracts, countVars>>
accVars   == <<members, claims, accounts, unpaid>>
cmdVars   == <<setting, sweep, refresh, raced, swept>>
evmBlockVars      == <<queue, blockVars, txnVars, accVars, cmdVars, indexing, blockFaults>>

-----------------------------------------------------------------------------
(* Rows.  A row is present when it holds a block. *)

None           == 0
HasRow(n)      == rows[n] # None
BlockFault(kind)    == kind \in BlockFaults /\ blockFaults < MaxBlockFaults /\ blockFaults' = blockFaults + 1
NoBlockFault        == UNCHANGED blockFaults

\* The block under way, the key its row will have, the stage each of its
\* transactions has reached and the error the goroutines share.
BlockIdle == [block |-> None, key |-> None, stage |-> [t \in {} |-> "done"], err |-> "none"]

Busy(p) == indexing[p].block # None

BlockAt(p, t, s) == Busy(p) /\ t \in DOMAIN indexing[p].stage /\ indexing[p].stage[t] = s

Start(p, b, key) ==
    indexing' = [indexing EXCEPT ![p] =
        [block |-> b, key |-> key, stage |-> [t \in Txns[b] |-> "receipt"], err |-> "none"]]

Advance(p, t, s) == indexing' = [indexing EXCEPT ![p].stage[t] = s]

\* A goroutine of the pool gives up on t: the error it assigns is shared.
GiveUp(p, t, e) == indexing' = [indexing EXCEPT ![p].stage[t] = "done", ![p].err = e]

Total(f, S) ==
    LET F[T \in SUBSET S] ==
          IF T = {} THEN 0 ELSE LET x == CHOOSE y \in T : TRUE IN f[x] + F[T \ {x}]
    IN  F[S]

\* emitMsg publishes a job that has failed once more.  A publish that fails then
\* loses the job (it is counted as one failure with the one that led to it).
Requeue(b) ==
    \/ queue' = [queue EXCEPT ![b] = @ + 1]
    \/ "publish" \in BlockFaults /\ UNCHANGED queue

EvmBlocksInit ==
    \* emitBlock: of some blocks never (the plugin was enabled late), of some twice
    /\ queue \in {q \in [Blocks -> 0 .. 2] : Total(q, Blocks) <= MaxJobs}
    /\ rows = [n \in Blocks \cup {0} |-> None] /\ transactionCount = [n \in Blocks \cup {0} |-> 0]
    /\ txns = {} /\ receipts = {} /\ sent = {} /\ totalTransaction = 0 /\ refused = 0
    /\ contracts = [a \in {} |-> 0]
    /\ members = {} /\ claims = {} /\ accounts = {} /\ unpaid = {}
    /\ indexing = [p \in Processes |-> BlockIdle]
    /\ setting \in Settings
    /\ sweep = [phase |-> "off", last |-> 0, end |-> 0, top |-> 0, todo |-> {}]
    /\ refresh = <<>> /\ raced = FALSE /\ swept = {}
    /\ blockFaults = 0

-----------------------------------------------------------------------------
(* AddEvmBlock and processBlock *)

\* A job whose block has a row is done; otherwise, and when the query for the
\* row fails, the block is read from the node, and a failure of it puts the job
\* back on its queue.
AddEvmBlock(w, b) ==
    /\ ~Busy(w) /\ queue[b] > 0
    /\ \/ /\ HasRow(b) /\ NoBlockFault
          /\ queue' = [queue EXCEPT ![b] = @ - 1]
          /\ UNCHANGED indexing
       \/ /\ \/ ~HasRow(b) /\ NoBlockFault
             \/ HasRow(b) /\ BlockFault("sql")
          /\ queue' = [queue EXCEPT ![b] = @ - 1]
          /\ Start(w, b, b)
       \/ /\ ~HasRow(b) /\ BlockFault("node") /\ UNCHANGED indexing
          /\ \/ UNCHANGED queue
             \/ "publish" \in BlockFaults /\ queue' = [queue EXCEPT ![b] = @ - 1]
    /\ UNCHANGED <<blockVars, txnVars, accVars, cmdVars>>

\* An address that is new to the set is claimed by the goroutine that adds it.
\* A command that fails is taken for "known": nobody stores the address then,
\* whether the set has it or not.
Claim(p, t, S) ==
    \/ /\ NoBlockFault
       /\ members' = members \cup S
       /\ claims' = claims \cup {<<p, t, a>> : a \in S \ members}
       /\ UNCHANGED unpaid
    \/ \E a \in S \ members :
          /\ BlockFault("redis")
          /\ members' \in {members \cup S, members \cup (S \ {a})}
          /\ claims' = claims \cup {<<p, t, b>> : b \in S \ (members \cup {a})}
          /\ unpaid' = unpaid \cup {a}

\* The row of an address comes from the goroutine that has claimed it.  When the
\* insert fails the address stays in the set, and the error is ignored.
InsertClaimed(p, t) ==
    /\ claims' = {c \in claims : <<c[1], c[2]>> # <<p, t>>}
    /\ LET mine == {c[3] : c \in claims \ claims'}
       IN  \/ NoBlockFault /\ accounts' = accounts \cup mine /\ UNCHANGED unpaid
           \/ \E a \in mine : /\ BlockFault("sql")
                              /\ accounts' = accounts \cup (mine \ {a})
                              /\ unpaid' = unpaid \cup {a}

\* An anonymous log has no topic to index: the goroutine panics before the
\* receipts, the pool recovers it and err stays.
ToReceipts(t) == IF Anonymous(t) THEN "done" ELSE "receipts"

\* CreateTransactionByExecuted reads the receipt.  When the receipt names a new
\* contract its row is upserted, and the hook of the row touches the account of
\* the contract before the commit; the error of the upsert is ignored, and then
\* there is no hook.
ReadReceipt(p, t) ==
    /\ BlockAt(p, t, "receipt")
    /\ \/ BlockFault("empty") /\ GiveUp(p, t, "empty") /\ UNCHANGED accVars
       \/ BlockFault("node") /\ GiveUp(p, t, "other") /\ UNCHANGED accVars
       \/ t \notin Creates /\ NoBlockFault /\ Advance(p, t, ToReceipts(t)) /\ UNCHANGED accVars
       \/ t \in Creates /\ Claim(p, t, {ToOf[t]}) /\ Advance(p, t, "creating") /\ UNCHANGED accounts
       \/ /\ t \in Creates /\ BlockFault("sql") /\ Advance(p, t, ToReceipts(t))
          /\ unpaid' = unpaid \cup {ToOf[t]} /\ UNCHANGED <<members, claims, accounts>>
    /\ UNCHANGED <<queue, blockVars, txnVars, cmdVars>>

TouchContract(p, t) ==
    /\ BlockAt(p, t, "creating")
    /\ InsertClaimed(p, t)
    /\ Advance(p, t, "contract")
    /\ UNCHANGED <<queue, blockVars, txnVars, members, cmdVars>>

NewContract(p, t) ==
    /\ BlockAt(p, t, "contract")
    /\ \/ /\ NoBlockFault
          /\ contracts' = [a \in DOMAIN contracts \cup {ToOf[t]} |->
                              IF a \in DOMAIN contracts THEN contracts[a] ELSE 0]
       \/ BlockFault("commit") /\ UNCHANGED contracts
    /\ Advance(p, t, ToReceipts(t))
    /\ UNCHANGED <<queue, blockVars, txns, receipts, sent, countVars, accVars, cmdVars>>

\* The logs EventProcess acts upon: it publishes a job to a token queue, or
\* changes the implementation of a proxy.
Announced(t) == {l \in LogsIn(t) : Kind(l) \in {"transfer", "deposit", "withdraw", "upgraded"}}

\* The receipts are inserted in one transaction, those already stored are
\* ignored; the hook hands on every log, new or not, before the commit.  A
\* publish that fails is not noticed.
StoreReceipts(p, t) ==
    /\ BlockAt(p, t, "receipts")
    /\ \/ BlockFault("sql") /\ GiveUp(p, t, "other") /\ UNCHANGED <<receipts, sent>>
       \/ /\ BlockFault("commit") /\ GiveUp(p, t, "other")
          /\ sent' = sent \cup Announced(t) /\ UNCHANGED receipts
       \/ /\ \/ NoBlockFault /\ sent' = sent \cup Announced(t)
             \/ \E l \in Announced(t) : BlockFault("publish") /\ sent' = sent \cup (Announced(t) \ {l})
          /\ receipts' = receipts \cup LogsIn(t)
          /\ Advance(p, t, "transaction")
    /\ UNCHANGED <<queue, blockVars, txns, contracts, countVars, accVars, cmdVars>>

\* The contract that t calls has been called once more.
CountCall(t) == contracts' = [a \in DOMAIN contracts |-> contracts[a] + IF a \in Called(t) THEN 1 ELSE 0]

\* Mutant: the hook returns early when the address called is no contract.
StoreCall(p, t) ==
    /\ BlockAt(p, t, "transaction")
    /\ NoBlockFault /\ CountCall(t)
    /\ totalTransaction' = IF Called(t) \subseteq DOMAIN contracts THEN totalTransaction + 1
                                                               ELSE totalTransaction
    /\ raced' = (raced \/ Len(refresh) = 1)
    /\ Advance(p, t, "commit")
    /\ UNCHANGED <<queue, blockVars, txns, receipts, sent, refused, accVars, setting, sweep, refresh,
                   swept>>

\* The hook of the transaction counts it, and the contract it calls, whether
\* the row is new or not.  It looks at no error: of the query for the contracts,
\* of the update of the one called or of the increment in Redis ...
StoreTransaction(p, t) ==
    /\ BlockAt(p, t, "transaction")
    /\ \/ /\ BlockFault("sql") /\ GiveUp(p, t, "other")
          /\ UNCHANGED <<contracts, countVars, raced>>
       \/ /\ \/ /\ NoBlockFault /\ CountCall(t)
                /\ totalTransaction' = totalTransaction + 1 /\ UNCHANGED refused
             \/ /\ BlockFault("sql") /\ UNCHANGED contracts
                /\ totalTransaction' = totalTransaction + 1 /\ UNCHANGED refused
             \/ /\ BlockFault("redis") /\ CountCall(t)
                /\ refused' = refused + 1 /\ UNCHANGED totalTransaction
          /\ raced' = (raced \/ Len(refresh) = 1)
          /\ Advance(p, t, "commit")
    /\ UNCHANGED <<queue, blockVars, txns, receipts, sent, accVars, setting, sweep, refresh, swept>>

\* ... and only then is the row committed.
CommitTransaction(p, t) ==
    /\ BlockAt(p, t, "commit")
    /\ \/ NoBlockFault /\ txns' = txns \cup {t} /\ Advance(p, t, "accounts")
       \/ BlockFault("commit") /\ GiveUp(p, t, "other") /\ UNCHANGED txns
    /\ UNCHANGED <<queue, blockVars, receipts, sent, contracts, countVars, accVars, cmdVars>>

\* Then the accounts of the sender and of the address called are touched.
ClaimAccounts(p, t) ==
    /\ BlockAt(p, t, "accounts")
    /\ Claim(p, t, Touched(t))
    /\ Advance(p, t, "insert")
    /\ UNCHANGED <<queue, blockVars, txnVars, accounts, cmdVars>>

TouchAccount(p, t) ==
    /\ BlockAt(p, t, "insert")
    /\ InsertClaimed(p, t)
    /\ Advance(p, t, "done")
    /\ UNCHANGED <<queue, blockVars, txnVars, members, cmdVars>>

\* The set expires after a day.
ForgetMembers ==
    /\ members # {} /\ BlockFault("expire")
    /\ members' = {}
    /\ UNCHANGED <<queue, blockVars, txnVars, claims, accounts, unpaid, cmdVars, indexing>>

IgnoreEmpty == setting = "forgiving"

PoolDone(p) == Busy(p) /\ \A t \in DOMAIN indexing[p].stage : indexing[p].stage[t] = "done"

\* The row is written under the key given; of a row that exists only the
\* transaction count changes.
WriteRow(b, key) ==
    /\ rows'    = [rows EXCEPT ![key] = IF @ = None THEN b ELSE @]
    /\ transactionCount' = [transactionCount EXCEPT ![key] = Cardinality(Txns[b])]

\* Mutant: the error of the pool is not looked at.
FinishBlockAnyway(w) ==
    /\ w \in BlockWorkers /\ PoolDone(w) /\ NoBlockFault
    /\ indexing' = [indexing EXCEPT ![w] = BlockIdle]
    /\ WriteRow(indexing[w].block, indexing[w].key)
    /\ UNCHANGED <<queue, txnVars, accVars, cmdVars>>

\* The end of processBlock: no row when a goroutine has failed.
FinishBlock(w) ==
    /\ w \in BlockWorkers /\ PoolDone(w)
    /\ indexing' = [indexing EXCEPT ![w] = BlockIdle]
    /\ \/ /\ indexing[w].err = "none" /\ NoBlockFault
          /\ WriteRow(indexing[w].block, indexing[w].key) /\ UNCHANGED queue
       \/ /\ indexing[w].err = "empty" /\ IgnoreEmpty /\ NoBlockFault
          /\ UNCHANGED <<blockVars, queue>>
       \/ /\ indexing[w].err = "other" \/ (indexing[w].err = "empty" /\ ~IgnoreEmpty)
          /\ NoBlockFault /\ Requeue(indexing[w].block) /\ UNCHANGED blockVars
       \/ /\ indexing[w].err = "none" /\ BlockFault("sql")
          /\ Requeue(indexing[w].block) /\ UNCHANGED blockVars
    /\ UNCHANGED <<txnVars, accVars, cmdVars>>

\* The worker process dies and starts again: the jobs it had taken are back.
RestartBlock ==
    /\ \E w \in BlockWorkers : Busy(w)
    /\ BlockFault("crash")
    /\ queue' = [b \in Blocks |-> queue[b] + Cardinality({w \in BlockWorkers : indexing[w].block = b})]
    /\ indexing' = [p \in Processes |-> IF p \in BlockWorkers THEN BlockIdle ELSE indexing[p]]
    /\ claims' = {c \in claims : c[1] \notin BlockWorkers}
    /\ unpaid' = unpaid \cup {c[3] : c \in claims \ claims'}
    /\ UNCHANGED <<blockVars, txnVars, members, accounts, cmdVars>>

-----------------------------------------------------------------------------
(* EvmValidate without its fast flag.  fillBlock hands processBlock the    *)
(* number of the command line, which is 0 when a range is checked.         *)

FillKey == 0

HeadRow == Max({n \in DOMAIN rows : n = 0 \/ HasRow(n)})

\* The rows of a range.  The blocks of a list are filled in ascending order.
GetBlockNumsByRange(low, high) == {n \in low .. high : HasRow(n)}

Found(n) == Cardinality(txns \cap Txns[n])

Validating(phase) == sweep.phase = phase /\ ~Busy(Validator)

BeginValidate ==
    /\ sweep.phase = "off" /\ setting = "validate"
    /\ sweep' = [sweep EXCEPT !.phase = "range", !.top = HeadRow]
    /\ UNCHANGED <<queue, blockVars, txnVars, accVars, setting, refresh, raced, swept, indexing,
                   blockFaults>>

Low  == sweep.last + 1
High == IF sweep.last + Chunk + HoldOn > sweep.top THEN sweep.top - HoldOn ELSE sweep.last + Chunk

\* The blocks of the range that have no row are filled, when fewer rows than
\* High - Low are there.
Missing(found) == IF Cardinality(found) < High - Low THEN (Low .. High) \ found ELSE {}

CheckRange ==
    /\ Validating("range") /\ sweep.last + HoldOn < sweep.top
    /\ sweep' = [sweep EXCEPT !.phase = "missing", !.end = High,
                              !.todo = Missing(GetBlockNumsByRange(Low, High))]
    /\ UNCHANGED <<queue, blockVars, txnVars, accVars, setting, refresh, raced, swept, indexing,
                   blockFaults>>

NextRange == sweep' = [sweep EXCEPT !.phase = "range", !.last = sweep.end]
             /\ swept' = swept \cup (Low .. sweep.end)

\* Then the transactions of the range are compared with the counts of its rows.
Recount ==
    /\ Validating("missing") /\ sweep.todo = {}
    /\ LET range   == Low .. sweep.end
           filled == GetBlockNumsByRange(Low, sweep.end)
       IN  IF Total(transactionCount, filled) = Total([n \in range |-> Found(n)], range)
           THEN NextRange
           ELSE /\ sweep' = [sweep EXCEPT !.phase = "repair", !.todo = filled]
                /\ UNCHANGED swept
    /\ UNCHANGED <<queue, blockVars, txnVars, accVars, setting, refresh, raced, indexing,
                   blockFaults>>

EndRepair ==
    /\ Validating("repair") /\ sweep.todo = {}
    /\ NextRange
    /\ UNCHANGED <<queue, blockVars, txnVars, accVars, setting, refresh, raced, indexing,
                   blockFaults>>

\* A block is filled; in the repair only if its count differs.
FillBlock ==
    /\ Validating("missing") \/ Validating("repair")
    /\ sweep.todo # {}
    /\ LET n == CHOOSE m \in sweep.todo : \A k \in sweep.todo : m <= k
       IN  /\ sweep' = [sweep EXCEPT !.todo = @ \ {n}]
           /\ \/ /\ sweep.phase = "missing" \/ transactionCount[n] # Found(n)
                 /\ \/ NoBlockFault /\ Start(Validator, n, FillKey)
                    \/ BlockFault("node") /\ UNCHANGED indexing
              \/ /\ sweep.phase = "repair" /\ transactionCount[n] = Found(n)
                 /\ NoBlockFault /\ UNCHANGED indexing
    /\ UNCHANGED <<queue, blockVars, txnVars, accVars, setting, refresh, raced, swept>>

\* The end of processBlock for the command: errors are only printed.
FinishFill ==
    /\ PoolDone(Validator)
    /\ indexing' = [indexing EXCEPT ![Validator] = BlockIdle]
    /\ IF indexing[Validator].err = "none"
       THEN WriteRow(indexing[Validator].block, indexing[Validator].key)
       ELSE UNCHANGED blockVars
    /\ UNCHANGED <<queue, txnVars, accVars, cmdVars, blockFaults>>

EndValidate ==
    /\ Validating("range") /\ sweep.last + HoldOn >= sweep.top
    /\ sweep' = [sweep EXCEPT !.phase = "over"]
    /\ UNCHANGED <<queue, blockVars, txnVars, accVars, setting, refresh, raced, swept, indexing,
                   blockFaults>>

-----------------------------------------------------------------------------
(* RefreshMetadata counts the rows, then writes the count over the counter.*)
(* A count that fails is 0.                                                *)

InCommit == \E p \in Processes : \E t \in DOMAIN indexing[p].stage : indexing[p].stage[t] = "commit"

CountRows ==
    /\ setting = "refresh" /\ refresh = <<>>
    /\ \/ NoBlockFault /\ refresh' = <<Cardinality(txns)>> /\ raced' = (raced \/ InCommit)
       \/ BlockFault("sql") /\ refresh' = <<0>> /\ raced' = TRUE
    /\ UNCHANGED <<queue, blockVars, txnVars, accVars, setting, sweep, swept, indexing>>

RefreshMetadata ==
    /\ Len(refresh) = 1
    /\ \/ NoBlockFault /\ totalTransaction' = refresh[1] /\ refused' = 0
       \/ BlockFault("redis") /\ UNCHANGED countVars
    /\ refresh' = refresh \o refresh
    /\ UNCHANGED <<queue, blockVars, txns, receipts, sent, contracts, accVars, setting, sweep,
                   raced, swept, indexing>>

-----------------------------------------------------------------------------
Pool(p, t) ==
    \/ ReadReceipt(p, t) \/ TouchContract(p, t) \/ NewContract(p, t)
    \/ StoreReceipts(p, t)
    \/ StoreTransaction(p, t)
    \/ CommitTransaction(p, t)
    \/ ClaimAccounts(p, t) \/ TouchAccount(p, t)

Validate ==
    \/ BeginValidate \/ CheckRange \/ FillBlock \/ FinishFill
    \/ Recount \/ EndRepair \/ EndValidate

EvmBlocksNext ==
    \/ \E w \in BlockWorkers, b \in Blocks : AddEvmBlock(w, b)
    \/ \E p \in Processes, t \in Transactions : Pool(p, t)
    \/ \E w \in BlockWorkers : FinishBlock(w)
    \/ ForgetMembers \/ RestartBlock
    \/ Validate
    \/ CountRows \/ RefreshMetadata

EvmBlocksSpec == EvmBlocksInit /\ [][EvmBlocksNext]_evmBlockVars

-----------------------------------------------------------------------------
(* Properties *)

EvmBlocksTypeOK ==
    /\ queue \in [Blocks -> Nat]
    /\ rows \in [Blocks \cup {0} -> Blocks \cup {None}]
    /\ transactionCount \in [Blocks \cup {0} -> Nat]
    /\ txns \subseteq Transactions /\ receipts \subseteq Logs /\ sent \subseteq Logs
    /\ DOMAIN contracts \subseteq Addresses /\ totalTransaction \in Nat /\ refused \in Nat
    /\ claims \subseteq Processes \X Transactions \X Addresses
    /\ members \subseteq Addresses /\ accounts \subseteq Addresses /\ unpaid \subseteq Addresses
    /\ \A p \in Processes : indexing[p].block \in Blocks \cup {None} /\ indexing[p].err \in {"none", "empty", "other"}
    /\ sweep.phase \in {"off", "range", "missing", "repair", "over"}
    /\ setting \in Settings /\ blockFaults \in 0 .. MaxBlockFaults

(* The row of a block comes last: whatever fails, is retried or runs twice *)
(* at the same time, a block that has a row has its transactions and their *)
(* receipts.  Only a transaction with an anonymous log is left out.        *)
BlockComplete ==
    \A n \in DOMAIN rows : HasRow(n) =>
        \A t \in Txns[rows[n]] : Anonymous(t) \/ (t \in txns /\ LogsIn(t) \subseteq receipts)

(* A block that has a row has the accounts of its transactions: of who     *)
(* sends them, of the address called and of the contract created.  Or a    *)
(* goroutine is about to store them; or the address is one of unpaid: its  *)
(* SADD failed, its insert, or the upsert of its contract, or a crash came *)
(* after the SADD.  Nobody stores such an address for as long as the set   *)
(* says that it is known.                                                  *)
AccountsTracked ==
    \A n \in DOMAIN rows : HasRow(n) =>
        \A t \in Txns[rows[n]] : Anonymous(t) \/ Parties(t) \subseteq accounts \cup unpaid \cup {c[3] : c \in claims}

(* What the row of a block stands for, and every reader takes it for.      *)
BlockRowCovers == BlockComplete /\ AccountsTracked

(* The transaction counter never falls behind the rows, for it counts      *)
(* before the commit, by more than the increments that Redis has refused   *)
(* since the last refresh.  Only a refresh that overlaps a transaction, or *)
(* whose query fails, loses others.                                        *)
CounterCovers == raced \/ totalTransaction + refused >= Cardinality(txns)

(* evm.go:28 describes the command as "check and repair evm block data":   *)
(* when it has run without a failure, the blocks it has passed have rows.  *)
ValidateRepairs == (sweep.phase = "over" /\ blockFaults = 0) => \A b \in swept : HasRow(b)
=============================================================================
