---------------------------- MODULE EvmContracts ----------------------------
(***************************************************************************)
(* The row of one contract in evm_contracts.  The indexer creates it,      *)
(* counts its transactions and follows the upgrades of a proxy; requests   *)
(* to verify its source read the row, ask the verify server and the node,  *)
(* and write what they read back together with what they found.  Updates   *)
(* of gorm writes the fields of the struct that are not zero.              *)
(***************************************************************************)
EXTENDS Naturals, FiniteSets

CONSTANTS
    Requests,        \* HTTP requests to verify, told apart by their source
    Optimized,       \* those with the optimizer on
    MaxUpgrades,     \* bound: upgrades of the proxy
    MaxContractTxs   \* bound: transactions counted

\* 0 stands for no source and for no implementation.
ASSUME ContractsAssumption ==
    /\ Requests \subseteq Nat \ {0} /\ Optimized \subseteq Requests
    /\ MaxUpgrades \in Nat /\ MaxContractTxs \in Nat

VARIABLES
    contract,        \* the row
    verifier,        \* what each request does, and the row it has read
    upgrades,        \* upgrades on the chain, and those whose event is not processed
    transactionsSeen,         \* history: transactions processed while the row was there
    disturbed        \* history: which kinds of overlap have happened

contractVars == <<contract, verifier, upgrades, transactionsSeen, disturbed>>

\* Zero fields: 0, FALSE and "".
ZeroContract ==
    [exists |-> FALSE, code |-> FALSE, bytecode |-> "", source |-> 0, optimize |-> FALSE,
     proxy |-> 0, transactionCount |-> 0]

NoRequest == [at |-> "idle", read |-> ZeroContract]

\* Columns of a struct that Updates writes over the row.
Updates(row, c) ==
    [f \in DOMAIN row |-> IF f = "exists" \/ c[f] = ZeroContract[f] THEN row[f] ELSE c[f]]

InFlight(r) == verifier[r].at # "idle"

-----------------------------------------------------------------------------
(* contract-verifysourcecode *)

\* Mutant: a verified contract is verified again.
NeverVerified(c) == FALSE

\* len(localContract.VerifyStatus) != 0
AlreadyVerified(c) == c.source # 0

\* ContractsByAddr: the row, or the code of the chain.  A form that does not bind,
\* a run count below 1 with the optimizer on and a resolc version that is not
\* known end the request here, as any error does: the caller may try again.
Locate(r) ==
    /\ verifier[r].at = "idle"
    /\ verifier' = [verifier EXCEPT ![r] =
         IF ~contract.exists THEN [at |-> "code", read |-> ZeroContract]
         ELSE IF AlreadyVerified(contract) THEN NoRequest
         ELSE [at |-> "verify", read |-> contract]]
    /\ disturbed' = IF \E q \in Requests \ {r} : InFlight(q) THEN disturbed \cup {"verify"} ELSE disturbed
    /\ UNCHANGED <<contract, upgrades, transactionsSeen>>

\* eth_getCode: no code and an error are a contract that cannot be located.
GetCode(r) ==
    /\ verifier[r].at = "code"
    /\ \E found \in BOOLEAN :
         verifier' = [verifier EXCEPT ![r] = IF found THEN [@ EXCEPT !.at = "backfill"] ELSE NoRequest]
    /\ UNCHANGED <<contract, upgrades, transactionsSeen, disturbed>>

\* The upsert takes two columns; the request goes on with its own struct and not
\* with the row, which another may have made meanwhile.
backfillContractFromRuntimeCode(r) ==
    /\ verifier[r].at = "backfill"
    /\ contract' = [contract EXCEPT !.exists = TRUE, !.bytecode = "runtime"]
    /\ verifier' = [verifier EXCEPT ![r] =
         [at |-> "verify", read |-> [ZeroContract EXCEPT !.bytecode = "runtime"]]]
    /\ UNCHANGED <<upgrades, transactionsSeen, disturbed>>

\* A single file with the settings of the form, or a JSON input completed from it.
AsInput(r) == [source |-> r, optimize |-> r \in Optimized]

\* VerifySuccess, before it looks for a proxy: the bytecode is cut to the length
\* of the creation code, if there is one.
Fill(c, input) ==
    [c EXCEPT !.source = input.source, !.optimize = input.optimize,
              !.bytecode = IF c.code THEN "creation" ELSE @]

\* The input has the wrong format, the server is disabled or fails, the source does
\* not match, or it is verified.
VerifyFromJsonInput(r) ==
    /\ verifier[r].at = "verify"
    /\ \/ verifier' = [verifier EXCEPT ![r] = NoRequest]
       \/ verifier' = [verifier EXCEPT ![r] = [at |-> "proxy", read |-> Fill(@.read, AsInput(r))]]
    /\ UNCHANGED <<contract, upgrades, transactionsSeen, disturbed>>

\* A proxy: its implementation as the node has it now, or none when the call fails.
afterVerify(r) ==
    /\ verifier[r].at = "proxy"
    /\ LET row == verifier[r].read
       IN  \E read \in {row, [row EXCEPT !.proxy = upgrades.made]} :
             verifier' = [verifier EXCEPT ![r] = [at |-> "update", read |-> read]]
    /\ UNCHANGED <<contract, upgrades, transactionsSeen, disturbed>>

VerifySuccess(r) ==
    /\ verifier[r].at = "update"
    /\ contract' = Updates(contract, verifier[r].read)
    /\ verifier' = [verifier EXCEPT ![r] = NoRequest]
    /\ UNCHANGED <<upgrades, transactionsSeen, disturbed>>

-----------------------------------------------------------------------------
(* The indexer *)

\* An upsert of the columns of the creation.
CreateContract ==
    /\ ~contract.code
    /\ contract' = [contract EXCEPT !.exists = TRUE, !.code = TRUE]
    /\ UNCHANGED <<verifier, upgrades, transactionsSeen, disturbed>>

\* A transaction to an address that is no contract yet is not counted.
incrContractTransactionCount ==
    /\ contract.exists /\ transactionsSeen < MaxContractTxs
    /\ contract' = [contract EXCEPT !.transactionCount = @ + 1]
    /\ transactionsSeen' = transactionsSeen + 1
    /\ disturbed' = IF \E r \in Requests : InFlight(r) THEN disturbed \cup {"count"} ELSE disturbed
    /\ UNCHANGED <<verifier, upgrades>>

UpgradeOnChain ==
    /\ upgrades.made < MaxUpgrades
    /\ upgrades' = [upgrades EXCEPT !.made = @ + 1, !.todo = @ \cup {upgrades.made + 1}]
    /\ UNCHANGED <<contract, verifier, transactionsSeen, disturbed>>

\* The Upgraded events of different blocks are processed in any order.  Only a
\* contract that is known for a proxy follows.
setContractProxyImplementation(u) ==
    /\ u \in upgrades.todo
    /\ upgrades' = [upgrades EXCEPT !.todo = @ \ {u}]
    /\ contract' = IF contract.proxy # 0 THEN [contract EXCEPT !.proxy = u] ELSE contract
    /\ disturbed' = disturbed \cup (IF \E r \in Requests : InFlight(r) THEN {"upgrade"} ELSE {})
                             \cup (IF \E v \in 1..u - 1 : v \in upgrades.todo THEN {"order"} ELSE {})
    /\ UNCHANGED <<verifier, transactionsSeen>>

ContractsInit ==
    /\ contract = ZeroContract /\ transactionsSeen = 0 /\ disturbed = {}
    /\ verifier = [r \in Requests |-> NoRequest]
    /\ upgrades = [made |-> 1, todo |-> {}]

ContractsNext ==
    \/ \E r \in Requests :
         \/ Locate(r) \/ GetCode(r) \/ backfillContractFromRuntimeCode(r)
         \/ VerifyFromJsonInput(r) \/ afterVerify(r) \/ VerifySuccess(r)
    \/ CreateContract \/ incrContractTransactionCount \/ UpgradeOnChain
    \/ \E u \in 1..MaxUpgrades : setContractProxyImplementation(u)

-----------------------------------------------------------------------------
\* A verified row belongs to one verification, settings included, unless two
\* verifications overlapped; it has the implementation the chain has once every
\* upgrade is processed, unless an upgrade was processed during a verification
\* or before an earlier one; and its count is exact unless a transaction was
\* counted during a verification, which then writes back the count it had read:
\* the count may fall behind and never runs ahead.
ContractRowExact ==
    /\ contract.source # 0 /\ "verify" \notin disturbed =>
         contract.optimize = (contract.source \in Optimized)
    /\ contract.proxy # 0 /\ upgrades.todo = {} /\ disturbed \cap {"upgrade", "order"} = {} =>
         contract.proxy = upgrades.made
    /\ "count" \notin disturbed => contract.transactionCount = transactionsSeen
    /\ contract.transactionCount <= transactionsSeen
=============================================================================
