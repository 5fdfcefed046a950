------------------------------- MODULE EvmApi -------------------------------
(***************************************************************************)
(* The Etherscan-compatible API and the lookups of the EVM plugin, while   *)
(* the indexer stores blocks: first the receipts of a block, then its      *)
(* transactions, last its row.  One request reads several tables, one      *)
(* after the other.  Every block has one transaction, which creates one    *)
(* contract; both have the number of the block.                            *)
(***************************************************************************)
EXTENDS Naturals, FiniteSets, Sequences, SequencesExt

CONSTANTS
    ApiBlocks,    \* numbers of the blocks the indexer stores
    ApiLogs,      \* ApiLogs[l]: the block and the topics of log l, oldest first
    LogFilters,   \* what getLogs is asked for
    Offsets,      \* rows of a page; 0 is a parameter left out
    Reverted,     \* blocks whose transaction failed
    Sourced,      \* blocks whose contract is verified
    Holders,      \* accounts with a row in balance_accounts
    AddressLists, \* what balancemulti is asked for: pairs <<account, spelling>>
    Malformed     \* an address that is none

VARIABLES
    evmStage,     \* how far the indexer is with each block
    call          \* the request under way: its rows and its answer

apiVars == <<evmStage, call>>

\* Mutant: the row of a block is written before its transactions.
StagesRowFirst == <<"none", "receipts", "row", "transactions">>

Stages == <<"none", "receipts", "transactions", "row">>

Reached(b, s) == \E i, j \in 1 .. 4 : Stages[i] = s /\ Stages[j] = evmStage[b] /\ i <= j

-----------------------------------------------------------------------------
(* Tables.  A query that names a column its table lacks fails and finds no row. *)

ReceiptColumns     == {"id", "address", "block_num", "method_hash", "topic1", "topic2", "topic3"}
TransactionColumns == {"hash", "block_num", "from_address", "to_address", "transaction_id"}
TransferColumns    == {"id", "contract", "hash", "sender", "receiver", "transfer_id", "category"}
ContractColumns    == {"address", "deployer", "block_num", "tx_hash", "verify_status"}

Find(columns, named, rows) == IF named \subseteq columns THEN rows ELSE {}

-----------------------------------------------------------------------------
(* logs-getLogs *)

Topics == 0 .. 3
Pairs  == {p \in Topics \X Topics : p[1] < p[2]}

\* The field of topic3 has no form tag: only a parameter "Topic3" is bound to it.
Bound(f) == IF f.capital THEN f ELSE [f EXCEPT !.topic[3] = ""]

Single(f, i) == \A p \in Pairs : i \in {p[1], p[2]} => f.opr[p] = ""

\* The conditions of one topic: a pair with a later one when an operator and that
\* topic are given, and the topic by itself when it has no operator.
Conditions(f, i, l) ==
    LET is(k) == ApiLogs[l].topics[k] = f.topic[k]
    IN  /\ \A j \in i + 1 .. 3 : f.topic[j] # "" =>
             /\ f.opr[<<i, j>>] = "and" => is(i) /\ is(j)
             /\ f.opr[<<i, j>>] = "or"  => is(i) \/ is(j)
        /\ Single(f, i) => is(i)

Matches(f, l) ==
    /\ \A i \in Topics : f.topic[i] # "" => Conditions(f, i, l)
    /\ f.fromBlock > 0 => ApiLogs[l].block >= f.fromBlock
    /\ f.toBlock > 0   => ApiLogs[l].block <= f.toBlock

LogRequests ==
    [topic : [Topics -> STRING], opr : [Pairs -> {"", "and", "or"}], capital : BOOLEAN,
     fromBlock : Nat, toBlock : Nat]

ASSUME ApiAssumption ==
    /\ IsFiniteSet(DOMAIN ApiLogs) /\ DOMAIN ApiLogs \subseteq Nat
    /\ \A l \in DOMAIN ApiLogs : ApiLogs[l].block \in ApiBlocks
    /\ LogFilters \subseteq LogRequests /\ Offsets \subseteq Nat
    /\ \A a \in AddressLists : IsFiniteSet(DOMAIN a) /\ DOMAIN a \subseteq Nat

MaxRows == 1000

\* WithLimit takes a number of rows to skip and is given the number of the page.
WithLimit(skip, rows, s) == SubSeq(s, skip + 1, IF skip + rows < Len(s) THEN skip + rows ELSE Len(s))

\* The row of a place is the one with as many above it.
NewestFirst(S) ==
    [i \in 1 .. Cardinality(S) |-> CHOOSE a \in S : Cardinality({b \in S : b > a}) = i - 1]

LogsStored == {l \in DOMAIN ApiLogs : Reached(ApiLogs[l].block, "receipts")}

getLogs(f, pageNo, offset, stored) ==
    LET found == NewestFirst(Find(ReceiptColumns, {"id", "block_num", "method_hash", "topic1", "topic2", "topic3"},
                             {l \in stored : Matches(Bound(f), l)}))
    IN  IF offset = 0 \/ pageNo = 0 THEN WithLimit(1, MaxRows, found) ELSE WithLimit(pageNo, offset, found)

-----------------------------------------------------------------------------
(* account-balancemulti: rows under the spelling requested last, then the node. *)

Account(a) == a[1]

API_GetAccounts(asked, failed) ==
    LET last(n)    == CHOOSE i \in DOMAIN asked :
                        /\ Account(asked[i]) = n
                        /\ \A j \in DOMAIN asked : Account(asked[j]) = n => j <= i
        answered(a) == \E i \in DOMAIN asked \ failed : asked[i] = a
    IN  [i \in DOMAIN asked |->
           CASE answered(asked[i]) -> "node"
             [] ~answered(asked[i]) /\ Account(asked[i]) \in Holders
                  /\ asked[last(Account(asked[i]))] = asked[i] -> "row"
             [] OTHER -> "zero"]

balancemulti(asked, failed) ==
    IF \E i \in DOMAIN asked : Account(asked[i]) = Malformed THEN <<>> ELSE API_GetAccounts(asked, failed)

-----------------------------------------------------------------------------
(* Requests for one thing.  An answer has a status and what was found; a status *)
(* of 0 is the error of the Etherscan format, and 10002 that of the lookups.    *)

Ok(value)    == [status |-> 1, value |-> value]
NoRecords    == [status |-> 0, value |-> {}]
NotFound     == [status |-> 10002, value |-> {}]
InvalidParam == [status |-> 10001, value |-> {}]

HasTransaction(b) == Reached(b, "transactions")

getstatus(b) ==
    IF HasTransaction(b) THEN Ok(IF b \in Reverted THEN {"isError"} ELSE {"ok"}) ELSE NoRecords
gettxreceiptstatus(b) ==
    IF HasTransaction(b) THEN Ok(IF b \in Reverted THEN {"failed"} ELSE {"status"}) ELSE NoRecords
transactionHandle(b) == IF HasTransaction(b) THEN Ok({b}) ELSE NotFound

\* By hash or else by number; 0 is neither.  A block that is not there is null.
blockHandle(b) ==
    IF b = 0 THEN InvalidParam ELSE Ok({n \in {b} : Reached(n, "row")})

\* The contract's row, or the code the node has: see EvmContracts.
ContractsByAddr(b, coded) == HasTransaction(b) \/ coded

SourceOf(b) == {a \in {"source"} : b \in Sourced}

getabi(b, coded) ==
    IF ContractsByAddr(b, coded) THEN Ok({a \in {"abi"} : b \in Sourced}) ELSE NoRecords
getsourcecode(b, coded) ==
    IF ContractsByAddr(b, coded) THEN Ok(SourceOf(b)) ELSE NoRecords
contractHandle(b, coded) == IF ContractsByAddr(b, coded) THEN Ok({b}) ELSE NotFound
checkverifystatus(b, coded) ==
    IF ContractsByAddr(b, coded) /\ b \in Sourced THEN Ok({"verified"}) ELSE NoRecords

\* Queries for columns that are not there: the error is not looked at, and an
\* empty list is an answer of status 1.
API_GetContractCreation(b) ==
    Find(ContractColumns, {"contract_address"}, {n \in {b} : HasTransaction(n)})
API_Transactions ==
    Find(TransactionColumns, {"from_address", "id"}, {b \in ApiBlocks : HasTransaction(b)})
API_TokenEventRes ==
    Find(TransferColumns, {"from_address", "id", "category"}, {b \in ApiBlocks : Reached(b, "receipts")})

getcontractcreation(b) == Ok(API_GetContractCreation(b))
txlist  == Ok(API_Transactions)
tokentx == Ok(API_TokenEventRes)

\* The etherscan handler and the routes beside it.  Combinations of module and
\* action that are no case answer with an empty body, and so does txlistinternal.
Lookups == {"getstatus", "gettxreceiptstatus", "transaction", "block", "getabi", "getsourcecode",
            "contract", "checkverifystatus", "getcontractcreation", "txlist", "tokentx", "other"}

Lookup(kind, b, coded) ==
    CASE kind = "getstatus"           -> getstatus(b)
      [] kind = "gettxreceiptstatus"  -> gettxreceiptstatus(b)
      [] kind = "transaction"         -> transactionHandle(b)
      [] kind = "block"               -> blockHandle(b)
      [] kind = "getabi"              -> getabi(b, coded)
      [] kind = "getsourcecode"       -> getsourcecode(b, coded)
      [] kind = "contract"            -> contractHandle(b, coded)
      [] kind = "checkverifystatus"   -> checkverifystatus(b, coded)
      [] kind = "getcontractcreation" -> getcontractcreation(b)
      [] kind = "txlist"              -> txlist
      [] kind = "tokentx"             -> tokentx
      [] OTHER                        -> [status |-> 1, value |-> {}]

-----------------------------------------------------------------------------
NoFilter == [topic |-> [i \in Topics |-> ""], opr |-> [p \in Pairs |-> ""],
             capital |-> FALSE, fromBlock |-> 0, toBlock |-> 0]

NoCall == [at |-> "idle", kind |-> "none", block |-> 0, filter |-> NoFilter, page |-> 0, offset |-> 0,
           stored |-> {}, rows |-> <<>>, hashed |-> {}, priced |-> {}, shown |-> {},
           answer |-> [status |-> 1, value |-> {}], asked |-> <<>>, failed |-> {}, balances |-> <<>>]

\* The indexer, one stage after the other; blocks are stored in any order, and a
\* block whose transactions failed stays without a row.
StoreStage(b) ==
    /\ \E i \in 1 .. 3 : evmStage[b] = Stages[i] /\ evmStage' = [evmStage EXCEPT ![b] = Stages[i + 1]]
    /\ UNCHANGED call

\* The receipts, first.
AskLogs(f, pageNo, offset) ==
    LET rows == getLogs(f, pageNo, offset, LogsStored)
    IN  /\ call.at = "idle"
        /\ call' = [NoCall EXCEPT !.at = "hashes", !.kind = "getLogs", !.filter = f, !.page = pageNo,
                      !.offset = offset, !.stored = LogsStored, !.rows = rows, !.shown = ToSet(rows)]
        /\ UNCHANGED evmStage

\* The next page of the same request, asked for while the receipts are the same.
NextLogs ==
    LET rows == getLogs(call.filter, call.page + 1, call.offset, LogsStored)
    IN  /\ call.at = "answered" /\ call.kind = "getLogs" /\ call.offset > 0
        /\ call.rows # <<>> /\ call.stored = LogsStored
        /\ call' = [call EXCEPT !.at = "hashes", !.page = @ + 1, !.rows = rows,
                      !.shown = @ \cup ToSet(rows), !.hashed = {}, !.priced = {}]
        /\ UNCHANGED evmStage

\* Then the rows of their blocks, for the hashes.
ReadHashes ==
    /\ call.at = "hashes"
    /\ call' = [call EXCEPT !.at = "gas",
                  !.hashed = {l \in ToSet(call.rows) : Reached(ApiLogs[l].block, "row")}]
    /\ UNCHANGED evmStage

\* Then the transactions, for the gas; a value that is not found is empty or 0.
ReadGas ==
    /\ call.at = "gas"
    /\ call' = [call EXCEPT !.at = "answered",
                  !.priced = {l \in ToSet(call.rows) : Reached(ApiLogs[l].block, "transactions")},
                  !.answer = IF call.rows = <<>> THEN NoRecords ELSE Ok({"logs"})]
    /\ UNCHANGED evmStage

AskBalances(asked, failed) ==
    /\ call.at = "idle"
    /\ call' = [NoCall EXCEPT !.at = "answered", !.kind = "balancemulti", !.asked = asked,
                  !.failed = failed, !.balances = balancemulti(asked, failed)]
    /\ UNCHANGED evmStage

AskLookup(kind, b, coded) ==
    /\ call.at = "idle" /\ (b = 0 => kind = "block")
    /\ call' = [NoCall EXCEPT !.at = "answered", !.kind = kind, !.block = b, !.answer = Lookup(kind, b, coded)]
    /\ UNCHANGED evmStage

Close ==
    /\ call.at = "answered"
    /\ call' = NoCall
    /\ UNCHANGED evmStage

ApiInit == evmStage = [b \in ApiBlocks |-> "none"] /\ call = NoCall

ApiNext ==
    \/ \E b \in ApiBlocks : StoreStage(b)
    \/ \E f \in LogFilters, o \in Offsets : AskLogs(f, 1, o)
    \/ NextLogs \/ ReadHashes \/ ReadGas \/ Close
    \/ \E a \in AddressLists : \E failed \in SUBSET DOMAIN a : AskBalances(a, failed)
    \/ \E kind \in Lookups, b \in ApiBlocks \cup {0}, coded \in BOOLEAN : AskLookup(kind, b, coded)

ApiSpec == ApiInit /\ [][ApiNext]_apiVars

-----------------------------------------------------------------------------
(* Properties *)

UsedPairs(f)   == {p \in Pairs : f.opr[p] # ""}
EitherPairs(f) == {p \in Pairs : f.opr[p] = "or"}

\* Each operator has both its topics, and those of an "or" are in no other one.
WellFormed(f) ==
    /\ \A p \in UsedPairs(f) : f.topic[p[1]] # "" /\ f.topic[p[2]] # ""
    /\ \A p \in EitherPairs(f), q \in UsedPairs(f) : p # q => {p[1], p[2]} \cap {q[1], q[2]} = {}

\* What is asked for: every topic outside an "or" and one of the two of every "or".
Wanted(f, stored) ==
    LET outside  == {i \in Topics : f.topic[i] # "" /\ \A p \in EitherPairs(f) : i \notin {p[1], p[2]}}
        has(l, i) == ApiLogs[l].topics[i] = f.topic[i]
    IN  {l \in stored : /\ \A i \in outside : has(l, i)
                        /\ \A p \in EitherPairs(f) : has(l, p[1]) \/ has(l, p[2])
                        /\ f.fromBlock > 0 => ApiLogs[l].block >= f.fromBlock
                        /\ f.toBlock > 0 => ApiLogs[l].block <= f.toBlock}

\* getLogs finds what its operators say, if they are well formed (a topic whose
\* operator lacks its other topic is dropped, so nothing is said of those).
\* Pages overlap, but a walk shows every log found except the newest, which is on
\* no page (etherscan.go, model.WithLimit); and so does the one page of a request
\* without an offset, if it has room for them.
LogFilterExact ==
    LET wanted == Wanted(Bound(call.filter), call.stored)
        walked == \/ call.offset > 0 /\ call.rows = <<>>
                  \/ call.offset = 0 /\ Cardinality(wanted) <= MaxRows + 1
    IN  call.kind = "getLogs" /\ call.at = "answered" /\ WellFormed(Bound(call.filter)) =>
          /\ call.shown \subseteq wanted
          /\ walked => call.shown = wanted \ {l \in wanted : \A k \in wanted : k <= l}

\* A log that is answered with the hash of its block has the gas of its
\* transaction: the tables are read in the order the indexer writes them in
\* reverse (transactionReceiptsToEtherscanLogs).
LogRowsSound == call.kind = "getLogs" /\ call.at = "answered" => call.hashed \subseteq call.priced

\* An account the node did not answer for is answered from its row, unless the
\* request has the account a second time in another spelling, which takes the row.
BalancesExact ==
    \A i \in DOMAIN call.balances :
        /\ call.balances[i] # "node" => i \in call.failed
        /\ call.balances[i] = "zero" /\ Account(call.asked[i]) \in Holders =>
             \E j \in DOMAIN call.asked : j > i /\ Account(call.asked[j]) = Account(call.asked[i])
                                          /\ call.asked[j] # call.asked[i]

\* What a client may rely on while blocks are being stored: the logs it is shown
\* are those it asked for and complete, and so are the balances.
AnswersExact == LogFilterExact /\ LogRowsSound /\ BalancesExact
=============================================================================
