------------------------------ MODULE ReadApi ------------------------------
(***************************************************************************)
(* The list endpoints: a client walks the pages of one list by cursor      *)
(* while block workers store rows.  Three lists (blocks, extrinsics,       *)
(* events) are spread over split tables, one per SplitTableBlockNum        *)
(* blocks; the lists of the plugins are one table each, in the order of an *)
(* identifier or of a rank (a balance, a number of holders or of           *)
(* transactions) that later writes change.                                 *)
(*                                                                         *)
(* A row is its identifier.  What the chain fixes about it (its block, its *)
(* signer, its call) is a function of the identifier; only its rank is     *)
(* state.  A cursor is the key of a row; 0 is the absent cursor.           *)
(***************************************************************************)
EXTENDS Naturals, FiniteSets, SequencesExt

CONSTANTS
    Lists,                  \* the lists a client may open
    Indexers,                \* block workers
    MaxBlock,               \* bound: the highest block
    SplitTableBlockNum,     \* blocks of one split table
    IdGenerateCoefficient,  \* identifiers of one block
    MaxRow,                 \* bound: the largest page of a request
    MaxRank,                \* bound: the largest rank of a row
    AccountOrder            \* order of the native accounts of the EVM accounts

SplitLists  == {"blocks", "extrinsics", "events"}
RankedLists == {"evmAccounts", "contracts", "tokens", "tokenHolders"}
OtherLists  == {"evmBlocks", "transactions", "tokenTransfers", "collectibles", "accounts", "transfers"}

ASSUME ReadAssumption ==
    /\ Lists \subseteq SplitLists \cup RankedLists \cup OtherLists
    /\ MaxBlock \in Nat /\ MaxRow \in Nat \ {0} /\ MaxRank \in Nat
    /\ SplitTableBlockNum \in Nat \ {0} /\ IdGenerateCoefficient \in Nat \ {0}

VARIABLES
    list,      \* the list this client reads, "none" before it opens one
    listRows,     \* the committed rows of that list
    rank,      \* rank of each row of a ranked list
    best,      \* the best-block mark in Redis
    mapping,   \* tables that AccountExtrinsicMapping names for Account
    worker,    \* per worker, the block whose transaction is open and the
               \* mapping that transaction read
    overlap,   \* whether two open transactions ever read the same mapping
    query,     \* the filters of the walk
    page,      \* the last response
    from,      \* rows that matched when the walk started
    seen,      \* rows the walk has shown
    twice,     \* rows the walk has shown more than once
    moved,     \* rows whose rank changed during the walk
    torn       \* whether a table could not be read during the walk

walkVars  == <<query, page, from, seen, twice, moved, torn>>
listVars == <<listRows, rank, best, mapping, worker, overlap>>
readVars      == <<list, listVars, walkVars>>

-----------------------------------------------------------------------------
(* The rows of a list *)

Blocks == 0 .. MaxBlock

\* identifiers of the rows of block b
RowsOf(l, b) ==
    IF l \in {"extrinsics", "events"}
    THEN {b * IdGenerateCoefficient + i : i \in 0 .. IdGenerateCoefficient - 1}
    ELSE {b}

Ids(l) == UNION {RowsOf(l, b) : b \in Blocks}

BlockOf(l, id) ==
    IF l \in {"extrinsics", "events"} THEN id \div IdGenerateCoefficient ELSE id

TableOf(b) == b \div SplitTableBlockNum

Signed(id) == id % IdGenerateCoefficient = 1    \* by the one account modelled
Module     == "m"                               \* the module of every call
Call(id)   == IF id % 3 = 0 THEN "a" ELSE "b"
Verified(id) == id % 2 = 0                      \* contracts with verified source
HasCode(id)  == id % 3 = 0                      \* EVM accounts that are contracts

\* Rows order by their identifier, those of a ranked list by rank first.
Width == MaxBlock + 1
Key(l, id) == IF l \in RankedLists THEN rank[id] * Width + id ELSE id

\* AccountsCursor compares EVM addresses and sorts by native addresses.
SortKey(l, id) == IF l = "evmAccounts" THEN rank[id] * Width + AccountOrder[id] ELSE Key(l, id)

Descending(l, S) ==
    [i \in 1 .. Cardinality(S) |->
        CHOOSE r \in S : Cardinality({x \in S : SortKey(l, x) > SortKey(l, r)}) = i - 1]

Prefix(s, n) == SubSeq(s, 1, IF Len(s) < n THEN Len(s) ELSE n)

-----------------------------------------------------------------------------
(* Pages *)

Rejected == [ok |-> FALSE, rows |-> <<>>, start |-> 0, end |-> 0,
             hasPrev |-> FALSE, hasNext |-> FALSE]

\* The page of the rows fetched (one more than the limit, upward for before),
\* with the cursors of its first and last rows.
PageOf(l, fetched, limit, before, after) ==
    LET more == Len(fetched) > limit
        rows == IF before > 0 THEN Reverse(Prefix(fetched, limit)) ELSE Prefix(fetched, limit)
    IN  [ok |-> TRUE, rows |-> rows,
         start |-> IF rows = <<>> THEN 0 ELSE Key(l, Head(rows)),
         end   |-> IF rows = <<>> THEN 0 ELSE Key(l, Last(rows)),
         hasPrev |-> IF before > 0 THEN more ELSE after > 0,
         hasNext |-> before > 0 \/ more]

\* Mutant: the row of the cursor is part of the next page.
KeysetPageFrom(l, S, limit, before, after) ==
    LET fetched ==
          CASE after > 0  -> Descending(l, {r \in S : Key(l, r) <= after})
            [] after = 0 /\ before > 0
                          -> Reverse(Descending(l, {r \in S : Key(l, r) > before}))
            [] OTHER      -> Descending(l, S)
    IN  PageOf(l, Prefix(fetched, limit + 1), limit, before, after)

\* A page of one table: S is what the filters leave of it.  When both cursors
\* are given the rows are those after, in the order of a page before.
KeysetPage(l, S, limit, before, after) ==
    LET fetched ==
          CASE after > 0  -> Descending(l, {r \in S : Key(l, r) < after})
            [] after = 0 /\ before > 0
                          -> Reverse(Descending(l, {r \in S : Key(l, r) > before}))
            [] OTHER      -> Descending(l, S)
    IN  PageOf(l, Prefix(fetched, limit + 1), limit, before, after)

\* Tables first .. last (downward if down) of a split list, one after the other,
\* and the rows of each in the same direction; the tables in skipped (filtered
\* out, or unreadable) contribute nothing.
WalkTables(l, S, first, last, down, skipped) ==
    LET tables        == (IF down THEN last .. first ELSE first .. last) \ skipped
        table(r)      == TableOf(BlockOf(l, r))
        rows          == {r \in S : table(r) \in tables}
        earlier(r, x) == \/ IF down THEN table(r) > table(x) ELSE table(r) < table(x)
                         \/ table(r) = table(x) /\ IF down THEN r > x ELSE r < x
    IN  [i \in 1 .. Cardinality(rows) |->
            CHOOSE r \in rows : Cardinality({x \in rows : earlier(x, r)}) = i - 1]

\* The block list: the first page starts at the table of the best block, and
\* an unreadable table ends it; the other pages start at the table of the
\* cursor and pass over it.
GetBlockListCursor(S, limit, before, after, broken) ==
    LET maxIdx  == TableOf(best)
        bad     == {t \in broken : t <= maxIdx}
        stop    == IF bad = {} THEN 0 ELSE 1 + CHOOSE t \in bad : \A u \in bad : u <= t
        fetched ==
          CASE after > 0 ->
                 WalkTables("blocks", {r \in S : r < after}, TableOf(after), 0, TRUE, broken)
            [] after = 0 /\ before > 0 /\ TableOf(before) <= maxIdx ->
                 WalkTables("blocks", {r \in S : r > before}, TableOf(before), maxIdx, FALSE, broken)
            [] after = 0 /\ before = 0 /\ stop <= maxIdx ->
                 WalkTables("blocks", S, maxIdx, stop, TRUE, {})
            [] OTHER -> <<>>
    IN  PageOf("blocks", Prefix(fetched, limit + 1), limit, IF after > 0 THEN 0 ELSE before, after)

\* Extrinsics and events: the cursor is an identifier, a filter on a block
\* fixes the one table to read (none: fixed = {}), and the account filter
\* passes over the tables that the account's mapping does not name.
GetIdListCursor(l, S, limit, before, after, fixed, tables, broken) ==
    LET tableOfId(id) == TableOf(id \div IdGenerateCoefficient)
        top     == CASE fixed # {} -> CHOOSE t \in fixed : TRUE
                     [] fixed = {} /\ after > 0 -> tableOfId(after)
                     [] OTHER -> TableOf(best)
        bottom  == IF fixed # {} THEN top ELSE tableOfId(before)
        skipped == broken \cup {t \in 0 .. TableOf(MaxBlock) :
                                  t \notin tables \/ (fixed # {} /\ t \notin fixed)}
        fetched ==
          CASE after > 0 ->
                 WalkTables(l, {r \in S : r < after}, top, 0, TRUE, skipped)
            [] after = 0 /\ before > 0 /\ bottom <= top ->
                 WalkTables(l, {r \in S : r > before}, bottom, top, FALSE, skipped)
            [] after = 0 /\ before = 0 -> WalkTables(l, S, top, 0, TRUE, skipped)
            [] OTHER -> <<>>
    IN  PageOf(l, Prefix(fetched, limit + 1), limit, IF after > 0 THEN 0 ELSE before, after)

AllTables == 0 .. TableOf(MaxBlock)

\* tables that hold signed extrinsics of the account
GetAccountExtrinsicMapping == mapping

-----------------------------------------------------------------------------
(* The handlers: q is the filter of the request, 0 an absent cursor *)

Queries(l) ==
    CASE l = "extrinsics" -> [block : {0, MaxBlock}, call : {""}, account : BOOLEAN]
                             \cup [block : {0}, call : {"a"}, account : {FALSE}]
      [] l = "events"     -> [block : {0, MaxBlock}, call : {""}, account : {FALSE}]
      [] l \in {"evmAccounts", "contracts"}
                          -> [block : {0}, call : {""}, account : BOOLEAN]
      [] OTHER            -> [block : {0}, call : {""}, account : {FALSE}]

FixedTable(q) == IF q.block > 0 THEN {TableOf(q.block)} ELSE {}

\* rows of list l that the filters of the handler leave
Matching(l, q) ==
    {r \in listRows :
        CASE l = "extrinsics"   -> /\ q.block > 0 => BlockOf(l, r) = q.block
                                   /\ q.call # "" => Call(r) = Module
                                   /\ q.account => Signed(r)
          [] l = "events"       -> q.block > 0 => BlockOf(l, r) = q.block
          [] l = "evmAccounts"  -> q.account \/ ~HasCode(r)
          [] l = "contracts"    -> q.account => Verified(r)
          [] l = "tokenHolders" -> rank[r] > 0
          [] OTHER              -> TRUE}

GetExtrinsicListCursor(q, limit, before, after, broken) ==
    GetIdListCursor("extrinsics", Matching("extrinsics", q), limit, before, after,
                    FixedTable(q),
                    IF q.account THEN GetAccountExtrinsicMapping ELSE AllTables, broken)

GetEventListCursor(q, limit, before, after, broken) ==
    GetIdListCursor("events", Matching("events", q), limit, before, after,
                    FixedTable(q), AllTables, broken)

BlocksCursor(limit, before, after) ==
    KeysetPage("evmBlocks", listRows, limit, before, after)

TransactionsCursor(q, limit, before, after) ==
    KeysetPage("transactions", Matching("transactions", q), limit, before, after)

TokenTransfersCursor(q, limit, before, after) ==
    KeysetPage("tokenTransfers", Matching("tokenTransfers", q), limit, before, after)

CollectiblesCursor(q, limit, before, after) ==
    KeysetPage("collectibles", Matching("collectibles", q), limit, before, after)

AccountsCursor(q, limit, before, after) ==
    KeysetPage("evmAccounts", Matching("evmAccounts", q), limit, before, after)

ContractsCursor(q, limit, before, after) ==
    KeysetPage("contracts", Matching("contracts", q), limit, before, after)

TokenListCursor(q, limit, before, after) ==
    KeysetPage("tokens", Matching("tokens", q), limit, before, after)

TokenHoldersCursor(q, limit, before, after) ==
    KeysetPage("tokenHolders", Matching("tokenHolders", q), limit, before, after)

GetAccountListCursor(limit, before, after) ==
    KeysetPage("accounts", listRows, limit, before, after)

TransfersCursor(q, limit, before, after) ==
    KeysetPage("transfers", Matching("transfers", q), limit, before, after)

\* Every list handler refuses a row count outside 1 .. 100 (here 1 .. MaxRow).
Validated(limit, answer) == IF limit \in 1 .. MaxRow THEN answer ELSE Rejected

blocksHandle(limit, before, after, broken) ==
    Validated(limit, GetBlockListCursor(listRows, limit, before, after, broken))

extrinsicsHandle(q, limit, before, after, broken) ==
    Validated(limit, GetExtrinsicListCursor(q, limit, before, after, broken))

eventsHandle(q, limit, before, after, broken) ==
    Validated(limit, GetEventListCursor(q, limit, before, after, broken))

\* the handlers of the EVM plugin; a request without the address it needs is
\* refused like one with a bad row count
evmBlocksHandle(q, limit, before, after) ==
    Validated(limit, BlocksCursor(limit, before, after))

transactionsHandle(q, limit, before, after) ==
    Validated(limit, TransactionsCursor(q, limit, before, after))

tokenTransferHandle(q, limit, before, after) ==
    Validated(limit, TokenTransfersCursor(q, limit, before, after))

collectiblesHandle(q, limit, before, after) ==
    Validated(limit, CollectiblesCursor(q, limit, before, after))

evmAccountsHandle(q, limit, before, after) ==
    Validated(limit, AccountsCursor(q, limit, before, after))

contractsHandle(q, limit, before, after) ==
    Validated(limit, ContractsCursor(q, limit, before, after))

tokenListHandle(q, limit, before, after) ==
    Validated(limit, TokenListCursor(q, limit, before, after))

tokenHolderHandle(q, limit, before, after) ==
    Validated(limit, TokenHoldersCursor(q, limit, before, after))

\* the handlers of the balance plugin
accountsHandle(limit, before, after) ==
    Validated(limit, GetAccountListCursor(limit, before, after))

transferHandle(q, limit, before, after) ==
    Validated(limit, TransfersCursor(q, limit, before, after))

ServeList(l, q, limit, before, after, broken) ==
    CASE l = "blocks"         -> blocksHandle(limit, before, after, broken)
      [] l = "extrinsics"     -> extrinsicsHandle(q, limit, before, after, broken)
      [] l = "events"         -> eventsHandle(q, limit, before, after, broken)
      [] l = "evmBlocks"      -> evmBlocksHandle(q, limit, before, after)
      [] l = "transactions"   -> transactionsHandle(q, limit, before, after)
      [] l = "tokenTransfers" -> tokenTransferHandle(q, limit, before, after)
      [] l = "collectibles"   -> collectiblesHandle(q, limit, before, after)
      [] l = "evmAccounts"    -> evmAccountsHandle(q, limit, before, after)
      [] l = "contracts"      -> contractsHandle(q, limit, before, after)
      [] l = "tokens"         -> tokenListHandle(q, limit, before, after)
      [] l = "tokenHolders"   -> tokenHolderHandle(q, limit, before, after)
      [] l = "accounts"       -> accountsHandle(limit, before, after)
      [] l = "transfers"      -> transferHandle(q, limit, before, after)

-----------------------------------------------------------------------------
(* Lookups of one row: a hash stands for the identifier of its row *)

\* Mutant: the search leaves out the oldest table.
FoundAbove(l, id, top) == \E t \in 1 .. top : id \in listRows /\ TableOf(BlockOf(l, id)) = t

\* a search by hash asks the tables from top downward
FoundFrom(l, id, top) == \E t \in 0 .. top : id \in listRows /\ TableOf(BlockOf(l, id)) = t

\* tip is the chain's best block, fin its finalized one when tip is unknown
GetBlockByHash(b, tip, fin)  == FoundFrom("blocks", b, TableOf(IF tip = 0 THEN fin ELSE tip))
GetExtrinsicsByHash(id)      == FoundFrom("extrinsics", id, TableOf(best))

\* by number or index the table is known; a missing row reads as an empty one
GetBlockByNum(b)         == IF b \in listRows THEN {b} ELSE {}
GetExtrinsicsByIndex(id) == IF id \in listRows THEN {id} ELSE {}
GetEventByIdx(id)        == IF id \in listRows THEN {id} ELSE {}

\* the blocks of some numbers, for the timestamps of a page of events
BlocksReverseByNum(nums) ==
    IF nums = {} THEN {}
    ELSE LET last == CHOOSE n \in nums : \A k \in nums : k <= n
         IN  {b \in nums \cap listRows : \E t \in 0 .. TableOf(last) : TableOf(b) = t}

GetBlocksByNums(nums) ==
    UNION {{b \in nums \cap listRows : TableOf(b) = t} : t \in {TableOf(n) : n \in nums}}

-----------------------------------------------------------------------------
(* The writers *)

NoTransaction == [block |-> 0, read |-> {}, busy |-> FALSE]

ReadInit ==
    /\ list = "none" /\ listRows = {} /\ rank = [id \in {} |-> 0]
    /\ best = 0 /\ mapping = {} /\ overlap = FALSE
    /\ worker = [w \in Indexers |-> NoTransaction]
    /\ query = [block |-> 0, call |-> "", account |-> FALSE]
    /\ page = Rejected
    /\ from = {} /\ seen = {} /\ twice = {} /\ moved = {} /\ torn = FALSE

Open(l) ==
    /\ list = "none"
    /\ list' = l
    /\ rank' = [id \in Ids(l) |-> 0]
    /\ UNCHANGED <<listRows, best, mapping, worker, overlap, walkVars>>

\* A worker opens the transaction of a block.  Its first signed extrinsic reads
\* the row of the account's mapping.
Begin(w, b) ==
    /\ list = "extrinsics"
    /\ ~worker[w].busy
    /\ RowsOf(list, b) \cap listRows = {}
    /\ \A v \in Indexers : worker[v].busy => worker[v].block # b
    /\ worker' = [worker EXCEPT ![w] = [block |-> b, read |-> mapping, busy |-> TRUE]]
    /\ UNCHANGED <<list, listRows, rank, best, mapping, overlap, walkVars>>

\* The mapping a transaction writes: the list it read with the table of its
\* block appended; a row it did not find is created unless another one was.
UpdateAccountExtrinsicMapping(read, b) ==
    CASE TableOf(b) \in read         -> mapping
      [] read = {} /\ mapping # {}   -> mapping
      [] OTHER                       -> read \cup {TableOf(b)}

CommitBlock(w) ==
    /\ worker[w].busy
    /\ listRows' = listRows \cup RowsOf(list, worker[w].block)
    /\ mapping' = UpdateAccountExtrinsicMapping(worker[w].read, worker[w].block)
    /\ overlap' = (overlap \/ mapping # worker[w].read)
    /\ worker' = [worker EXCEPT ![w] = NoTransaction]
    /\ UNCHANGED <<list, rank, best, walkVars>>

\* A row of another list, in one step: its transaction reads nothing first.
\* Numbers that MySQL gives, and addresses, are above the absent cursor.
Insert(b, k) ==
    /\ list \notin {"none", "extrinsics"}
    /\ list \in SplitLists \cup {"evmBlocks"} \/ b > 0
    /\ RowsOf(list, b) \cap listRows = {}
    /\ list \in RankedLists \/ k = 0
    /\ listRows' = listRows \cup RowsOf(list, b)
    /\ rank' = [id \in DOMAIN rank |-> IF id \in RowsOf(list, b) THEN k ELSE rank[id]]
    /\ UNCHANGED <<list, best, mapping, worker, overlap, walkVars>>

\* After the commit, and maybe never: the best-block mark goes up.
MarkBest(b) ==
    /\ list \in SplitLists
    /\ b > best
    /\ RowsOf(list, b) \subseteq listRows
    /\ best' = b
    /\ UNCHANGED <<list, listRows, rank, mapping, worker, overlap, walkVars>>

\* A balance, a holder count or a transaction count changes.
Touch(id, k) ==
    /\ list \in RankedLists
    /\ id \in listRows /\ rank[id] # k
    /\ rank' = [rank EXCEPT ![id] = k]
    /\ moved' = moved \cup {id}
    /\ UNCHANGED <<list, listRows, best, mapping, worker, overlap, query, page, from, seen,
                   twice, torn>>

-----------------------------------------------------------------------------
(* The client *)

\* rows the first page of a walk can start from
Visible(l, q) ==
    {r \in Matching(l, q) :
        l \in SplitLists /\ FixedTable(q) = {} => TableOf(BlockOf(l, r)) <= TableOf(best)}

TableFails(l) == IF l \in SplitLists THEN {{}} \cup {{t} : t \in AllTables} ELSE {{}}

\* One walk per behaviour: another one would start from the tables alone.
FirstPage(q, limit, broken) ==
    /\ list # "none" /\ ~page.ok
    /\ query' = q
    /\ LET p == ServeList(list, q, limit, 0, 0, broken)
       IN  page' = p /\ seen' = ToSet(p.rows)
    /\ from' = Visible(list, q)
    /\ twice' = {} /\ moved' = {}
    /\ torn' = (broken # {})
    /\ UNCHANGED <<list, listVars>>

\* The cursor of the next page is the end cursor of the last response.
NextPage(limit, broken) ==
    /\ page.ok /\ page.hasNext
    /\ LET p == ServeList(list, query, limit, 0, page.end, broken)
       IN  /\ page' = p
           /\ seen' = seen \cup ToSet(p.rows)
           /\ twice' = twice \cup (ToSet(p.rows) \cap seen)
    /\ torn' = (torn \/ broken # {})
    /\ UNCHANGED <<list, listVars, query, from, moved>>

ReadNext ==
    \/ \E l \in Lists : Open(l)
    \/ \E w \in Indexers, b \in Blocks : Begin(w, b)
    \/ \E w \in Indexers : CommitBlock(w)
    \/ \E b \in Blocks, k \in 0 .. MaxRank : Insert(b, k)
    \/ \E b \in Blocks : MarkBest(b)
    \/ \E id \in DOMAIN rank, k \in 0 .. MaxRank : Touch(id, k)
    \/ \E q \in Queries(list), limit \in 0 .. MaxRow, broken \in TableFails(list) :
         FirstPage(q, limit, broken)
    \/ \E limit \in 1 .. MaxRow, broken \in TableFails(list) :
         NextPage(limit, broken)

ReadSpec == ReadInit /\ [][ReadNext]_readVars

-----------------------------------------------------------------------------
(* Properties *)

\* The native addresses of the EVM accounts sort as their EVM addresses: if they
\* do not, the cursor of that list does not agree with its order.
CursorFits(l) == l = "evmAccounts" => \A id \in Ids(l) : AccountOrder[id] = id

\* A walk shows no row twice, whatever is stored meanwhile and wherever it
\* sorts, unless the row itself moved.
NoRowTwice == CursorFits(list) => twice \subseteq moved

\* A walk that reached its last page has shown every row that matched when it
\* started and did not move, over all split tables, unless a table could not be
\* read (its rows are passed over without an error to the client).
NothingSkipped ==
    page.ok /\ ~page.hasNext /\ ~torn /\ ~overlap /\ CursorFits(list) => from \subseteq seen \cup moved

\* The walk over split tables answers as one table would, in both directions,
\* for every cursor, page size and filter: nothing is lost at a table boundary.
\* (It reads the tables only: it is enough to look where no walk is under way.)
SplitIsOneTable ==
    list \in SplitLists /\ ~page.ok =>
        \A q \in Queries(list), n \in 1 .. MaxRow, c \in Ids(list) :
            ~(q.account /\ overlap) =>
                /\ c > 0 => ServeList(list, q, n, 0, c, {}) = KeysetPage(list, Matching(list, q), n, 0, c)
                /\ ServeList(list, q, n, c, 0, {}) = KeysetPage(list, Visible(list, q), n, c, 0)

\* Every table that holds a signed extrinsic of the account is named in the
\* account's mapping, if no transaction wrote a mapping that another one had
\* changed after it was read: the list is read and written back whole.
AccountTablesNamed ==
    list = "extrinsics" /\ ~overlap =>
        {TableOf(BlockOf(list, r)) : r \in {s \in listRows : Signed(s)}} \subseteq mapping

\* The cursor walks, whatever the indexer stores meanwhile and however the rows
\* are split over tables: no row comes twice, none is passed over, each page is
\* the page of one table, and the walk of an account is told all its tables.
WalksExact == NoRowTwice /\ NothingSkipped /\ SplitIsOneTable /\ AccountTablesNamed

\* What a page shows can be looked up: a block by its hash, from any tip the
\* chain can be at, an extrinsic by its hash unless the page was asked for one
\* block (that page reads a table the best-block mark may not have reached),
\* and the blocks of a page together.
ShownIsFound ==
    LET shown == ToSet(page.rows)
    IN  /\ list = "blocks" =>
             /\ \A b \in shown, tip \in best .. MaxBlock : GetBlockByHash(b, tip, best)
             /\ \A nums \in SUBSET shown : /\ BlocksReverseByNum(nums) = nums
                                           /\ GetBlocksByNums(nums) = nums
        /\ list = "extrinsics" /\ query.block = 0 =>
             \A id \in shown : GetExtrinsicsByHash(id) /\ GetExtrinsicsByIndex(id) = {id}
=============================================================================
