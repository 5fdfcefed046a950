----------------------------- MODULE EvmTokens -----------------------------
(***************************************************************************)
(* The token queues of the EVM plugin.  The log of a transfer becomes a    *)
(* job that stores the transfer once, counts it, and publishes the jobs    *)
(* that read back from the node what the transfer changed: the balances of *)
(* its parties and, of a collectible, its owner.                           *)
(*                                                                         *)
(* chain is the sequence of transfers the chain executes, head how many it *)
(* has executed.  A job is a record; the lists of Redis are bags of jobs,  *)
(* and limited holds the jobs whose rate limiter key is alive (util/mq).   *)
(***************************************************************************)
EXTENDS Naturals, Integers, FiniteSets, Sequences

CONSTANTS
    Chains,      \* the chains to consider: sequences of transfers, a transfer
                 \* being [token, from, to, id]; id 0 on a fungible token
    ChainLength, \* transfers each of them has
    IsNft,       \* IsNft[token]: whether the contract answers like an ERC-721
    TokenWorkers,     \* goroutines of the token queues
    TokenFaults,      \* the failures that may happen
    MaxTokenFaults,   \* bound: failures in one behaviour
    MaxEmits     \* bound: times logs of transfers are handed on

Tokens     == DOMAIN IsNft
Transfers  == 1 .. ChainLength
Categories == {"erc20", "erc721"}
Null       == "null"                \* NullAddress
Holders    == {Null} \cup (UNION {{c[i].from, c[i].to} : c \in Chains, i \in Transfers})
Ids        == {c[i].id : c \in Chains, i \in Transfers} \ {0}

ASSUME TokenAssumption ==
    /\ MaxTokenFaults \in Nat /\ MaxEmits \in Nat /\ IsFiniteSet(TokenWorkers)
    /\ ChainLength \in Nat
    /\ \A c \in Chains : Len(c) = ChainLength /\ \A i \in Transfers : c[i].token \in Tokens

TransferJobs == [class : {"transfer"}, queue : Categories, i : Transfers]
BalanceJobs  == [class : {"balance"}, queue : Categories, token : Tokens, who : Holders]
HolderJobs   == [class : {"holder"}, queue : Categories, token : Tokens, id : Ids]
Jobs         == TransferJobs \cup BalanceJobs \cup HolderJobs

VARIABLES
    chain, head,
    emits,         \* times the log of a transfer was handed on
    queued,        \* queued[j]: copies of job j waiting
    limited,       \* jobs the rate limiter drops
    category,      \* evm_tokens: the category of each row, "none" without one
    transferCount, \* evm_tokens: transfer_count
    holderCount,   \* evm_tokens: holders
    supply,        \* evm_tokens: total_supply
    tokenTransfers,     \* evm_tokens_transfers
    holdings,       \* evm_token_holders: balance of each row, -1 without one
    owned,         \* evm_erc721_holders: rows <<token, id, owner>>
    tokenWork,         \* per worker, its job and the step it has reached
    tokenFaults,        \* failures so far
    uncounted,     \* history: stored transfers that were not counted: the process died
                   \* before the update, the update failed or had no row to change, or
                   \* the transfer was stored without its token
    unheard        \* history: <<token, who>> whose balance was not asked for: the process
                   \* died before the publish, the publish failed, the job ran when the
                   \* token had no row or the query for it failed, or the transfer was
                   \* stored without its token

tokenVars == <<category, transferCount, holderCount, supply>>
tokenRowVars   == <<tokenTransfers, holdings, owned>>
mqVars    == <<queued, limited>>
evmTokenVars      == <<chain, head, emits, mqVars, tokenVars, tokenRowVars, tokenWork,
                       tokenFaults, uncounted, unheard>>

-----------------------------------------------------------------------------
(* What the chain answers at its head *)

BalanceOf(t, a) ==
    LET moved(S) == Cardinality({i \in S : chain[i].token = t})
    IN  moved({i \in 1 .. head : chain[i].to = a}) - moved({i \in 1 .. head : chain[i].from = a})

OwnerOf(t, id) ==
    LET moves == {i \in 1 .. head : chain[i].token = t /\ chain[i].id = id}
    IN  IF moves = {} THEN Null ELSE chain[CHOOSE i \in moves : \A k \in moves : k <= i].to

TotalSupply(t) == -BalanceOf(t, Null)

TokenFault(kind) == kind \in TokenFaults /\ tokenFaults < MaxTokenFaults /\ tokenFaults' = tokenFaults + 1
NoTokenFault     == UNCHANGED tokenFaults

TokenIdle       == [step |-> "idle"]
HasJob(w)  == tokenWork[w].step # "idle"
Job(w)     == tokenWork[w].job
Is(w, class, step) == HasJob(w) /\ Job(w).class = class /\ tokenWork[w].step = step

Finish(w)      == tokenWork' = [tokenWork EXCEPT ![w] = TokenIdle]
Continue(w, s) == tokenWork' = [tokenWork EXCEPT ![w].step = s]
Known(w, s, x) == tokenWork' = [tokenWork EXCEPT ![w].step = s, ![w].read = x]

Put(js, q) == [j \in Jobs |-> q[j] + IF j \in js THEN 1 ELSE 0]

\* What the balance jobs among js were to learn is not learnt.
Unheard(js) == unheard' = unheard \cup {<<j.token, j.who>> : j \in {k \in js : k.class = "balance"}}

\* Publish drops the jobs whose limiter key is alive, and sets the key of the
\* rest.  Then the lists may refuse some, and nobody looks at the error.
Publish(js, refused) ==
    /\ queued' = Put(js \ (limited \cup refused), queued)
    /\ limited' = limited \cup js
    /\ Unheard(refused)

PublishAll(js) ==
    \/ NoTokenFault /\ Publish(js, {})
    \/ \E refused \in SUBSET (js \ limited) : TokenFault("publish") /\ Publish(js, refused)

\* emitMsg: a job that returned an error is published again, past the limiter.
\* When that fails too it is lost (one failure with the one that led to it).
Retry(w) ==
    /\ Finish(w) /\ UNCHANGED limited
    /\ \/ queued' = Put({Job(w)}, queued) /\ UNCHANGED unheard
       \/ "publish" \in TokenFaults /\ UNCHANGED queued /\ Unheard({Job(w)})

EvmTokensInit ==
    /\ chain \in Chains /\ head = 0
    /\ emits = 0
    /\ queued = [j \in Jobs |-> 0] /\ limited = {}
    /\ category = [t \in Tokens |-> "none"]
    /\ transferCount = [t \in Tokens |-> 0] /\ holderCount = [t \in Tokens |-> 0]
    /\ supply = [t \in Tokens |-> 0]
    /\ tokenTransfers = {} /\ owned = {}
    /\ holdings = [h \in Tokens \X Holders |-> -1]
    /\ tokenWork = [w \in TokenWorkers |-> TokenIdle]
    /\ tokenFaults = 0 /\ uncounted = {} /\ unheard = {}

-----------------------------------------------------------------------------
(* The chain and the hook of the receipts *)

ChainMoves ==
    /\ head < Len(chain)
    /\ head' = head + 1
    /\ UNCHANGED <<chain, emits, mqVars, tokenVars, tokenRowVars, tokenWork, tokenFaults,
                   uncounted, unheard>>

\* EventProcess: the category is that of the token's row; without a row, or
\* when the query for it fails, the contract is probed, and a node that fails
\* makes it fungible.
Told(t) == IF IsNft[t] THEN "erc721" ELSE "erc20"

EventProcess(i) ==
    /\ i <= head /\ emits < MaxEmits
    /\ emits' = emits + 1
    /\ \E c \in Categories :
          LET t  == chain[i].token
              js == {[class |-> "transfer", queue |-> c, i |-> i]}
          IN  \/ category[t] = c /\ PublishAll(js)
              \/ category[t] = "none" /\ c = Told(t) /\ PublishAll(js)
              \/ category[t] = "none" /\ c = "erc20" /\ TokenFault("node") /\ Publish(js, {})
              \/ category[t] # "none" /\ c \in {Told(t), "erc20"} /\ TokenFault("sql") /\ Publish(js, {})
    /\ UNCHANGED <<chain, head, tokenVars, tokenRowVars, tokenWork, uncounted>>

\* A deposit or withdrawal asks for the balance, of a token with a row.
\* (Bound: one is counted like a failure, together with that of its publish.)
DepositOrWithdraw(t, a) ==
    /\ a # Null /\ ~IsNft[t] /\ category[t] # "none"
    /\ TokenFault("deposit")
    /\ LET js == {[class |-> "balance", queue |-> "erc20", token |-> t, who |-> a]}
       IN  Publish(js, {}) \/ ("publish" \in TokenFaults /\ Publish(js, js \ limited))
    /\ UNCHANGED <<chain, head, emits, tokenVars, tokenRowVars, tokenWork, uncounted>>

LimiterExpires ==
    /\ limited # {}
    /\ limited' = {}
    /\ UNCHANGED <<chain, head, emits, queued, tokenVars, tokenRowVars, tokenWork, tokenFaults,
                   uncounted, unheard>>

-----------------------------------------------------------------------------
(* workers.Emit *)

TakeTokenJob(w, j) ==
    /\ ~HasJob(w) /\ queued[j] > 0
    /\ queued' = [queued EXCEPT ![j] = @ - 1]
    /\ tokenWork' = [tokenWork EXCEPT ![w] = [step |-> "start", job |-> j, read |-> 0]]
    /\ UNCHANGED <<chain, head, emits, limited, tokenVars, tokenRowVars, tokenFaults,
                   uncounted, unheard>>

\* TouchToken: a row of that contract and category, or an insert.  The insert
\* is ignored when the contract has a row of another category, but its hook
\* reads the token from the node and then overwrites the row, category
\* included.  No error is looked at: one of the insert, or of the node, undoes
\* the insert; one of the overwrite leaves the row as it is; and when the query
\* for the row fails the job goes on with a token without address.
TouchToken(w) ==
    /\ Is(w, "transfer", "start")
    /\ LET t == chain[Job(w).i].token
           c == Job(w).queue
       IN  \/ /\ category[t] = c /\ NoTokenFault
              /\ Continue(w, "insert") /\ UNCHANGED tokenVars
           \/ /\ category[t] # c /\ NoTokenFault
              /\ category' = [category EXCEPT ![t] = c]
              /\ supply' = [supply EXCEPT ![t] = TotalSupply(t)]
              /\ Continue(w, "insert") /\ UNCHANGED <<transferCount, holderCount>>
           \/ /\ category[t] # c /\ (TokenFault("node") \/ TokenFault("sql"))
              /\ Continue(w, "insert") /\ UNCHANGED tokenVars
           \/ /\ category[t] = "none" /\ TokenFault("sql")
              /\ category' = [category EXCEPT ![t] = c]
              /\ Continue(w, "insert") /\ UNCHANGED <<supply, transferCount, holderCount>>
           \/ TokenFault("sql") /\ Continue(w, "stray") /\ UNCHANGED tokenVars
    /\ UNCHANGED <<chain, head, emits, mqVars, tokenRowVars, uncounted, unheard>>

\* Mutant: the rows the insert affected are not looked at.
InsertTransferAgain(w) ==
    /\ Is(w, "transfer", "insert") /\ NoTokenFault
    /\ tokenTransfers' = tokenTransfers \cup {Job(w).i}
    /\ Continue(w, "count")
    /\ UNCHANGED <<chain, head, emits, mqVars, category, transferCount, holderCount, supply,
                   holdings, owned, uncounted, unheard>>

\* ProcessTokenTransfer: the row of a transfer already stored is ignored and
\* nothing follows.  The hook of a mint or burn reads the supply again, of a
\* row that is ignored too; when the node or the update fails it keeps the old.
InsertTransfer(w) ==
    /\ Is(w, "transfer", "insert")
    /\ LET i == Job(w).i
           t == chain[i].token
           mintOrBurn == Job(w).queue = "erc20" /\ Null \in {chain[i].from, chain[i].to}
       IN  \/ TokenFault("sql") /\ Retry(w) /\ UNCHANGED <<tokenTransfers, supply>>
           \/ /\ \/ /\ NoTokenFault
                    /\ supply' = IF mintOrBurn /\ category[t] # "none"
                                 THEN [supply EXCEPT ![t] = TotalSupply(t)] ELSE supply
                 \/ mintOrBurn /\ (TokenFault("node") \/ TokenFault("sql")) /\ UNCHANGED supply
              /\ \/ i \in tokenTransfers /\ Finish(w) /\ UNCHANGED tokenTransfers
                 \/ /\ i \notin tokenTransfers /\ Continue(w, "count")
                    /\ tokenTransfers' = tokenTransfers \cup {i}
              /\ UNCHANGED <<mqVars, unheard>>
    /\ UNCHANGED <<chain, head, emits, category, transferCount, holderCount, holdings, owned,
                   uncounted>>

\* A transfer stored under no contract.  The update of the count has no row,
\* and the jobs it publishes are about no token: they do nothing and are left
\* out.  Its identifier is taken: it is never stored again.
InsertStray(w) ==
    /\ Is(w, "transfer", "stray")
    /\ LET i == Job(w).i
           t == chain[i].token
       IN  \/ /\ TokenFault("sql") /\ Retry(w)
              /\ UNCHANGED <<tokenTransfers, uncounted>>
           \/ /\ i \in tokenTransfers /\ NoTokenFault /\ Finish(w)
              /\ UNCHANGED <<mqVars, tokenTransfers, uncounted, unheard>>
           \/ /\ i \notin tokenTransfers /\ NoTokenFault /\ Finish(w)
              /\ tokenTransfers' = tokenTransfers \cup {i}
              /\ uncounted' = uncounted \cup {i}
              /\ unheard' = unheard \cup {<<t, chain[i].from>>, <<t, chain[i].to>>}
              /\ UNCHANGED mqVars
    /\ UNCHANGED <<chain, head, emits, tokenVars, holdings, owned>>

\* The update of the count; its error is not looked at.
CountTokenTransfer(w) ==
    /\ Is(w, "transfer", "count")
    /\ LET i == Job(w).i
           t == chain[i].token
       IN  \/ /\ category[t] # "none" /\ NoTokenFault
              /\ transferCount' = [transferCount EXCEPT ![t] = @ + 1] /\ UNCHANGED uncounted
           \/ /\ (category[t] = "none" /\ NoTokenFault) \/ TokenFault("sql")
              /\ uncounted' = uncounted \cup {i} /\ UNCHANGED transferCount
    /\ Continue(w, "publish")
    /\ UNCHANGED <<chain, head, emits, mqVars, category, holderCount, supply, tokenRowVars, unheard>>

PublishRefreshes(w) ==
    /\ Is(w, "transfer", "publish")
    /\ LET m == chain[Job(w).i]
           c == Job(w).queue
       IN  PublishAll({[class |-> "balance", queue |-> c, token |-> m.token, who |-> a] : a \in {m.from, m.to}}
                      \cup {[class |-> "holder", queue |-> c, token |-> m.token, id |-> k]
                               : k \in IF c = "erc721" THEN {m.id} ELSE {}})
    /\ Finish(w)
    /\ UNCHANGED <<chain, head, emits, tokenVars, tokenRowVars, uncounted>>

\* RefreshHolder: nothing to do for a token without a row, and a query for the
\* row that fails finds none; the balance is read from the node ...
ReadBalance(w) ==
    /\ Is(w, "balance", "start")
    /\ LET t == Job(w).token
       IN  \/ /\ (category[t] = "none" /\ NoTokenFault) \/ TokenFault("sql")
              /\ Finish(w) /\ Unheard({Job(w)}) /\ UNCHANGED mqVars
           \/ category[t] # "none" /\ TokenFault("node") /\ Retry(w)
           \/ /\ category[t] # "none" /\ NoTokenFault /\ UNCHANGED <<mqVars, unheard>>
              /\ IF BalanceOf(t, Job(w).who) < 0
                 THEN Known(w, "upsert", 0)      \* the null address owns nothing
                 ELSE Known(w, "upsert", BalanceOf(t, Job(w).who))
    /\ UNCHANGED <<chain, head, emits, tokenVars, tokenRowVars, uncounted>>

\* ... and upserted.  The holders are counted again, and the account touched
\* (EvmBlocks), when the row is new or its balance has become zero: the rows
\* MySQL says an upsert affected.
UpsertBalance(w) ==
    /\ Is(w, "balance", "upsert")
    /\ LET h == <<Job(w).token, Job(w).who>>
           b == tokenWork[w].read
       IN  \/ TokenFault("sql") /\ Retry(w) /\ UNCHANGED holdings
           \/ /\ NoTokenFault /\ holdings' = [holdings EXCEPT ![h] = b]
              /\ IF holdings[h] = -1 \/ (holdings[h] # b /\ b = 0) THEN Continue(w, "recount") ELSE Finish(w)
              /\ UNCHANGED <<mqVars, unheard>>
    /\ UNCHANGED <<chain, head, emits, tokenVars, tokenTransfers, owned, uncounted>>

\* A count that fails is 0, and an update that fails is not noticed.
TokenHolderCount(t) == Cardinality({a \in Holders : holdings[<<t, a>>] > 0})

CountHolders(w) ==
    /\ Is(w, "balance", "recount")
    /\ \/ NoTokenFault /\ Known(w, "holders", TokenHolderCount(Job(w).token))
       \/ TokenFault("sql") /\ Known(w, "holders", 0)
    /\ UNCHANGED <<chain, head, emits, mqVars, tokenVars, tokenRowVars, uncounted, unheard>>

RefreshTokenHolder(w) ==
    /\ Is(w, "balance", "holders")
    /\ \/ NoTokenFault /\ holderCount' = [holderCount EXCEPT ![Job(w).token] = tokenWork[w].read]
       \/ TokenFault("sql") /\ UNCHANGED holderCount
    /\ Finish(w)
    /\ UNCHANGED <<chain, head, emits, mqVars, category, transferCount, supply, tokenRowVars,
                   uncounted, unheard>>

\* RefreshErc721Holders: the owner comes from the node ...
ReadOwner(w) ==
    /\ Is(w, "holder", "start")
    /\ LET t == Job(w).token
       IN  \/ /\ (category[t] = "none" /\ NoTokenFault) \/ TokenFault("sql")
              /\ Finish(w) /\ UNCHANGED <<mqVars, unheard>>
           \/ category[t] # "none" /\ TokenFault("node") /\ Retry(w)
           \/ /\ category[t] # "none" /\ NoTokenFault /\ UNCHANGED <<mqVars, unheard>>
              /\ Known(w, "find", OwnerOf(t, Job(w).id))
    /\ UNCHANGED <<chain, head, emits, tokenVars, tokenRowVars, uncounted>>

RowsOf(t, id) == {r \in owned : r[1] = t /\ r[2] = id}

\* ... then the rows are looked up, of which a failing query finds none ...
FindCollectible(w) ==
    /\ Is(w, "holder", "find")
    /\ \/ NoTokenFault /\ Continue(w, IF RowsOf(Job(w).token, Job(w).id) = {} THEN "absent" ELSE "present")
       \/ TokenFault("sql") /\ Continue(w, "absent")
    /\ UNCHANGED <<chain, head, emits, mqVars, tokenVars, tokenRowVars, uncounted, unheard>>

\* ... and written.  The key of a row is made of contract, owner and id: an
\* insert or an update that meets the key of another row fails unnoticed, as
\* does a statement that fails.  The metadata read afterwards is left out.
WriteCollectible(w) ==
    /\ Is(w, "holder", "absent") \/ Is(w, "holder", "present")
    /\ LET t     == Job(w).token
           held  == RowsOf(t, Job(w).id)
           new   == <<t, Job(w).id, tokenWork[w].read>>
           burnt == tokenWork[w].read = Null
           found == tokenWork[w].step = "present"
           after == CASE burnt /\ found   -> {}
                      [] burnt /\ ~found  -> held
                      [] ~burnt /\ ~found -> held \cup {new}
                      [] ~burnt /\ found  -> IF Cardinality(held) = 1 THEN {new} ELSE held
           change == IF after = held \/ (found /\ ~burnt) THEN 0 ELSE IF burnt THEN -1 ELSE 1
       IN  \/ /\ NoTokenFault
              /\ owned' = (owned \ held) \cup after
              /\ supply' = [supply EXCEPT ![t] = @ + change]
           \/ TokenFault("sql") /\ UNCHANGED <<owned, supply>>
           \/ TokenFault("sql") /\ owned' = (owned \ held) \cup after /\ UNCHANGED supply
    /\ Finish(w)
    /\ UNCHANGED <<chain, head, emits, mqVars, category, transferCount, holderCount,
                   tokenTransfers, holdings, uncounted, unheard>>

\* The process dies: its jobs are back in their lists, at their first step.
RestartToken ==
    /\ \E w \in TokenWorkers : HasJob(w)
    /\ TokenFault("crash")
    /\ LET busy == {w \in TokenWorkers : HasJob(w)}
           counting == {w \in busy : Is(w, "transfer", "count")}
           halfway  == counting \cup {w \in busy : Is(w, "transfer", "publish")}
       IN  /\ queued' = [j \in Jobs |-> queued[j] + Cardinality({w \in busy : Job(w) = j})]
           /\ uncounted' = uncounted \cup {Job(w).i : w \in counting}
           /\ unheard' = unheard \cup UNION {{<<chain[Job(w).i].token, a>> :
                                a \in {chain[Job(w).i].from, chain[Job(w).i].to}} : w \in halfway}
    /\ tokenWork' = [w \in TokenWorkers |-> TokenIdle]
    /\ UNCHANGED <<chain, head, emits, limited, tokenVars, tokenRowVars>>

EvmTokensNext ==
    \/ ChainMoves \/ LimiterExpires \/ RestartToken
    \/ \E i \in Transfers : EventProcess(i)
    \/ \E t \in Tokens, a \in Holders : DepositOrWithdraw(t, a)
    \/ \E w \in TokenWorkers :
          \/ \E j \in Jobs : TakeTokenJob(w, j)
          \/ TouchToken(w) \/ InsertTransfer(w) \/ InsertStray(w) \/ CountTokenTransfer(w) \/ PublishRefreshes(w)
          \/ ReadBalance(w) \/ UpsertBalance(w) \/ CountHolders(w) \/ RefreshTokenHolder(w)
          \/ ReadOwner(w) \/ FindCollectible(w) \/ WriteCollectible(w)

EvmTokensSpec == EvmTokensInit /\ [][EvmTokensNext]_evmTokenVars

-----------------------------------------------------------------------------
(* Properties *)

EvmTokensTypeOK ==
    /\ head \in 0 .. Len(chain)
    /\ queued \in [Jobs -> Nat] /\ limited \subseteq Jobs
    /\ category \in [Tokens -> Categories \cup {"none"}]
    /\ transferCount \in [Tokens -> Nat] /\ holderCount \in [Tokens -> Nat]
    /\ supply \in [Tokens -> Int]
    /\ tokenTransfers \subseteq Transfers
    /\ holdings \in [Tokens \X Holders -> Int]
    /\ owned \subseteq Tokens \X Ids \X Holders
    /\ tokenFaults \in 0 .. MaxTokenFaults

OfToken(S, t) == {i \in S : chain[i].token = t}

(* transfer_count is exact: it counts each stored transfer once, however   *)
(* often its log was handed on or its job ran.  Short of it are only the   *)
(* transfers a worker is about to count and those of uncounted: a crash    *)
(* came before the update, the update failed, the token had no row, or the *)
(* query for the token failed and the transfer was stored under none.      *)
TransferCountExact ==
    \A t \in Tokens :
        LET counting == {Job(w).i : w \in {v \in TokenWorkers : Is(v, "transfer", "count")}}
        IN  transferCount[t] = Cardinality(OfToken(tokenTransfers \ (counting \cup uncounted), t))

(* A party of a stored transfer has a balance row, or its job is on its    *)
(* way: dropping a job at the limiter never loses a holder, however often  *)
(* jobs fail and are published again.  Lost are only those of unheard: a   *)
(* crash came before the publish, the publish failed, the job ran when the *)
(* token had no row, a query for the token failed.                         *)
OnItsWay(t, a) ==
    \/ \E c \in Categories : queued[[class |-> "balance", queue |-> c, token |-> t, who |-> a]] > 0
    \/ \E w \in TokenWorkers :
          /\ HasJob(w)
          /\ \/ Job(w).class = "balance" /\ Job(w).token = t /\ Job(w).who = a
             \/ /\ Is(w, "transfer", "count") \/ Is(w, "transfer", "publish")
                /\ chain[Job(w).i].token = t /\ a \in {chain[Job(w).i].from, chain[Job(w).i].to}

HoldersTracked ==
    \A i \in tokenTransfers : \A a \in {chain[i].from, chain[i].to} :
        LET t == chain[i].token
        IN  holdings[<<t, a>>] # -1 \/ OnItsWay(t, a) \/ <<t, a>> \in unheard

(* What a stored transfer leaves, however often it was handed on: it is     *)
(* counted once and both its parties are known.                            *)
TokensExact == TransferCountExact /\ HoldersTracked
=============================================================================
