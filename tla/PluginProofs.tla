---------------------------- MODULE PluginProofs ----------------------------
(***************************************************************************)
(* Proofs about the plugins.  Of the EVM plugin: the row of a contract     *)
(* (EvmContracts), the rows of a block and the transaction counter         *)
(* (EvmBlocks), and what is kept of a token transfer (EvmTokens).  Of the  *)
(* balance plugin, for any number of workers, accounts, events, faults,    *)
(* versions of an account on the chain and any batch: what the processes   *)
(* hold (BalanceTypes), that the rows are fresh when the queue is empty    *)
(* (RowsInv), and that neither command of the operator passes over an      *)
(* account or a transfer (PassInv, BackfillInv).                           *)
(***************************************************************************)
EXTENDS EvmContracts, EvmBlocks, EvmTokens, Balance, FiniteSetTheorems,
        WellFoundedInduction, TLAPS

-----------------------------------------------------------------------------
(* The lowest and the highest of some numbers.                             *)
LEMMA Lowest ==
    ASSUME NEW S, S \subseteq Nat, S # {}
    PROVE  (CHOOSE m \in S : \A k \in S : m <= k) \in S
<1>1. IsWellFoundedOn(OpToRel(<, Nat), Nat)
  BY NatLessThanWellFounded
<1>2. PICK m \in S : \A k \in S : ~(<<k, m>> \in OpToRel(<, Nat))
  BY <1>1, WFMin
<1>3. \A k \in S : ~(k < m)
  BY <1>2 DEF OpToRel
<1>4. \A k \in S : m <= k
  BY <1>3
<1> QED
  BY <1>4

LEMMA Greatest ==
    ASSUME NEW S \in SUBSET Nat, S # {}, NEW n \in Nat, \A x \in S : x <= n
    PROVE  Max(S) \in S /\ \A x \in S : x <= Max(S)
<1> DEFINE T == {k \in Nat : \A x \in S : x <= k}
           R == OpToRel(<, Nat)
<1>1. T \subseteq Nat /\ T # {}
  OBVIOUS
<1>2. PICK m \in T : \A k \in T : ~(<<k, m>> \in R)
  <2>1. IsWellFoundedOn(R, Nat)
    BY NatLessThanWellFounded
  <2> HIDE DEF T, R
  <2> QED
    BY <1>1, <2>1, WFMin
<1>3. \A k \in T : ~(k < m)
  BY <1>2 DEF OpToRel
<1>4. m \in S
  <2> SUFFICES ASSUME m \notin S PROVE FALSE
    OBVIOUS
  <2>1. \A x \in S : x <= m /\ x # m
    OBVIOUS
  <2>2. PICK y \in S : TRUE
    OBVIOUS
  <2>3. m \in Nat /\ m - 1 \in Nat
    BY <2>1, <2>2
  <2>4. \A x \in S : x <= m - 1
    BY <2>1, <2>3
  <2>5. m - 1 \in T
    BY <2>3, <2>4
  <2> QED
    BY <1>3, <2>3, <2>5
<1>5. \E x \in S : \A y \in S : x >= y
  BY <1>4
<1>6. Max(S) \in S /\ \A y \in S : Max(S) >= y
  BY <1>5 DEF Max
<1> QED
  BY <1>6

-----------------------------------------------------------------------------
(* EvmContracts.                                                           *)

ContractsSpec == ContractsInit /\ [][ContractsNext]_contractVars

Contracts == [exists : BOOLEAN, code : BOOLEAN, bytecode : {"", "runtime", "creation"},
              source : Requests \cup {0}, optimize : BOOLEAN, proxy : Nat, transactionCount : Nat]

ContractTypes ==
    /\ contract \in Contracts
    /\ verifier \in [Requests -> [at : {"idle", "code", "backfill", "verify", "proxy", "update"},
                                  read : Contracts]]
    /\ upgrades \in [made : Nat, todo : SUBSET Nat]
    /\ transactionsSeen \in Nat

(* What a request carries: nothing of a verification before the source is  *)
(* verified, and then its own.                                             *)
Carried ==
    /\ contract.source = 0 => ~contract.optimize
    /\ ~contract.exists =>
          contract.source = 0 /\ \A r \in Requests : verifier[r].at \notin {"verify", "proxy", "update"}
    /\ \A r \in Requests :
          /\ verifier[r].at \in {"code", "backfill", "verify"} =>
                verifier[r].read.source = 0 /\ ~verifier[r].read.optimize
          /\ verifier[r].at \in {"proxy", "update"} =>
                verifier[r].read.source = r /\ verifier[r].read.optimize = (r \in Optimized)
    /\ "verify" \notin disturbed =>
          /\ \A r, q \in Requests : InFlight(r) /\ InFlight(q) => r = q
          /\ (\E r \in Requests : InFlight(r)) => contract.source = 0
          /\ contract.source # 0 => contract.optimize = (contract.source \in Optimized)

(* The count a request has read is not above the transactions seen, and is *)
(* theirs, or none, unless one was counted meanwhile.                      *)
Counted ==
    /\ contract.transactionCount <= transactionsSeen
    /\ \A r \in Requests : verifier[r].read.transactionCount <= transactionsSeen
    /\ "count" \notin disturbed =>
          /\ contract.transactionCount = transactionsSeen
          /\ \A r \in Requests : InFlight(r) => verifier[r].read.transactionCount \in {0, transactionsSeen}

(* While upgrades wait, the last one is among them; when none does, every  *)
(* implementation that is known is the last one.                           *)
Followed ==
    /\ \A u \in upgrades.todo : 1 <= u /\ u <= upgrades.made
    /\ "order" \notin disturbed /\ upgrades.todo # {} => upgrades.made \in upgrades.todo
    /\ disturbed \cap {"upgrade", "order"} = {} /\ upgrades.todo = {} =>
          /\ contract.proxy \in {0, upgrades.made}
          /\ \A r \in Requests : InFlight(r) => verifier[r].read.proxy \in {0, upgrades.made}

ContractInv == ContractTypes /\ Carried /\ Counted /\ Followed

LEMMA ContractFields ==
    ASSUME NEW c \in Contracts
    PROVE  /\ c.exists \in BOOLEAN /\ c.code \in BOOLEAN /\ c.bytecode \in {"", "runtime", "creation"}
           /\ c.source \in Requests \cup {0} /\ c.optimize \in BOOLEAN
           /\ c.proxy \in Nat /\ c.transactionCount \in Nat
  BY DEF Contracts

LEMMA ContractOf ==
    ASSUME NEW e \in BOOLEAN, NEW k \in BOOLEAN, NEW b \in {"", "runtime", "creation"},
           NEW s \in Requests \cup {0}, NEW o \in BOOLEAN, NEW x \in Nat, NEW n \in Nat
    PROVE  [exists |-> e, code |-> k, bytecode |-> b, source |-> s, optimize |-> o, proxy |-> x,
            transactionCount |-> n] \in Contracts
  BY DEF Contracts

(* The row that Updates leaves: a zero field of the struct changes nothing.*)
LEMMA UpdatesFields ==
    ASSUME NEW row \in Contracts, NEW c \in Contracts
    PROVE  /\ Updates(row, c).exists = row.exists
           /\ Updates(row, c).code = (row.code \/ c.code)
           /\ Updates(row, c).bytecode = IF c.bytecode = "" THEN row.bytecode ELSE c.bytecode
           /\ Updates(row, c).source = IF c.source = 0 THEN row.source ELSE c.source
           /\ Updates(row, c).optimize = (row.optimize \/ c.optimize)
           /\ Updates(row, c).proxy = IF c.proxy = 0 THEN row.proxy ELSE c.proxy
           /\ Updates(row, c).transactionCount =
                IF c.transactionCount = 0 THEN row.transactionCount ELSE c.transactionCount
<1>1. DOMAIN row = {"exists", "code", "bytecode", "source", "optimize", "proxy", "transactionCount"}
  BY DEF Contracts
<1>2. /\ ZeroContract.code = FALSE /\ ZeroContract.bytecode = "" /\ ZeroContract.source = 0
      /\ ZeroContract.optimize = FALSE /\ ZeroContract.proxy = 0 /\ ZeroContract.transactionCount = 0
  BY DEF ZeroContract
<1>3. row.code \in BOOLEAN /\ c.code \in BOOLEAN /\ row.optimize \in BOOLEAN /\ c.optimize \in BOOLEAN
  BY DEF Contracts
<1>4. Updates(row, c).exists = row.exists
  BY <1>1 DEF Updates
<1>5. Updates(row, c).code = (row.code \/ c.code)
  BY <1>1, <1>2, <1>3 DEF Updates
<1>6. Updates(row, c).bytecode = IF c.bytecode = "" THEN row.bytecode ELSE c.bytecode
  BY <1>1, <1>2 DEF Updates
<1>7. Updates(row, c).source = IF c.source = 0 THEN row.source ELSE c.source
  BY <1>1, <1>2 DEF Updates
<1>8. Updates(row, c).optimize = (row.optimize \/ c.optimize)
  BY <1>1, <1>2, <1>3 DEF Updates
<1>9. Updates(row, c).proxy = IF c.proxy = 0 THEN row.proxy ELSE c.proxy
  BY <1>1, <1>2 DEF Updates
<1>10. Updates(row, c).transactionCount =
         IF c.transactionCount = 0 THEN row.transactionCount ELSE c.transactionCount
  BY <1>1, <1>2 DEF Updates
<1> QED
  BY <1>4, <1>5, <1>6, <1>7, <1>8, <1>9, <1>10

LEMMA UpdatesIs ==
    ASSUME NEW row \in Contracts, NEW c \in Contracts
    PROVE  Updates(row, c) =
             [exists           |-> row.exists,
              code             |-> row.code \/ c.code,
              bytecode         |-> IF c.bytecode = "" THEN row.bytecode ELSE c.bytecode,
              source           |-> IF c.source = 0 THEN row.source ELSE c.source,
              optimize         |-> row.optimize \/ c.optimize,
              proxy            |-> IF c.proxy = 0 THEN row.proxy ELSE c.proxy,
              transactionCount |-> IF c.transactionCount = 0 THEN row.transactionCount ELSE c.transactionCount]
<1>1. DOMAIN row = {"exists", "code", "bytecode", "source", "optimize", "proxy", "transactionCount"}
  BY DEF Contracts
<1>2. DOMAIN Updates(row, c) = DOMAIN row /\ Updates(row, c) = [f \in DOMAIN row |-> Updates(row, c)[f]]
  BY DEF Updates
<1> QED
  BY <1>1, <1>2, UpdatesFields

LEMMA UpdatesTyped ==
    ASSUME NEW row \in Contracts, NEW c \in Contracts
    PROVE  Updates(row, c) \in Contracts
<1>1. /\ (row.code \/ c.code) \in BOOLEAN /\ (row.optimize \/ c.optimize) \in BOOLEAN
      /\ row.exists \in BOOLEAN
  BY DEF Contracts
<1>2. /\ (IF c.bytecode = "" THEN row.bytecode ELSE c.bytecode) \in {"", "runtime", "creation"}
      /\ (IF c.source = 0 THEN row.source ELSE c.source) \in Requests \cup {0}
      /\ (IF c.proxy = 0 THEN row.proxy ELSE c.proxy) \in Nat
      /\ (IF c.transactionCount = 0 THEN row.transactionCount ELSE c.transactionCount) \in Nat
  BY DEF Contracts
<1> DEFINE k == row.code \/ c.code
           b == IF c.bytecode = "" THEN row.bytecode ELSE c.bytecode
           s == IF c.source = 0 THEN row.source ELSE c.source
           o == row.optimize \/ c.optimize
           x == IF c.proxy = 0 THEN row.proxy ELSE c.proxy
           n == IF c.transactionCount = 0 THEN row.transactionCount ELSE c.transactionCount
<1>0. k \in BOOLEAN /\ o \in BOOLEAN /\ b \in {"", "runtime", "creation"} /\ s \in Requests \cup {0}
      /\ x \in Nat /\ n \in Nat
  BY <1>1, <1>2
<1>3. Updates(row, c) = [exists |-> row.exists, code |-> k, bytecode |-> b, source |-> s, optimize |-> o,
                         proxy |-> x, transactionCount |-> n]
  BY UpdatesIs
<1> HIDE DEF k, b, s, o, x, n
<1>4. [exists |-> row.exists, code |-> k, bytecode |-> b, source |-> s, optimize |-> o, proxy |-> x,
       transactionCount |-> n] \in Contracts
  BY <1>0, <1>1, ContractOf
<1> QED
  BY <1>3, <1>4

LEMMA ZeroIs == ZeroContract \in Contracts
  BY DEF ZeroContract, Contracts

LEMMA ContractTypesStep == ContractTypes /\ [ContractsNext]_contractVars => ContractTypes'
<1> SUFFICES ASSUME ContractTypes, [ContractsNext]_contractVars PROVE ContractTypes'
  OBVIOUS
<1>0. Requests \subseteq Nat /\ MaxUpgrades \in Nat
  BY ContractsAssumption
<1>1. ASSUME NEW r \in Requests, Locate(r) PROVE ContractTypes'
  BY <1>1, ZeroIs DEF Locate, ContractTypes, NoRequest
<1>2. ASSUME NEW r \in Requests, GetCode(r) PROVE ContractTypes'
  BY <1>2, ZeroIs DEF GetCode, ContractTypes, NoRequest
<1>3. ASSUME NEW r \in Requests, backfillContractFromRuntimeCode(r) PROVE ContractTypes'
  <2>1. [contract EXCEPT !.exists = TRUE, !.bytecode = "runtime"] \in Contracts
    BY DEF ContractTypes, Contracts
  <2>2. [ZeroContract EXCEPT !.bytecode = "runtime"] \in Contracts
    BY ZeroIs DEF Contracts
  <2> QED
    BY <1>3, <2>1, <2>2 DEF backfillContractFromRuntimeCode, ContractTypes
<1>4. ASSUME NEW r \in Requests, VerifyFromJsonInput(r) PROVE ContractTypes'
  <2>1. Fill(verifier[r].read, AsInput(r)) \in Contracts
    <3>1. verifier[r].read \in Contracts
      BY DEF ContractTypes
    <3>2. AsInput(r).source \in Requests /\ AsInput(r).optimize \in BOOLEAN
      BY DEF AsInput
    <3> QED
      BY <3>1, <3>2 DEF Fill, Contracts
  <2>2. \/ verifier' = [verifier EXCEPT ![r] = NoRequest]
        \/ verifier' = [verifier EXCEPT ![r] = [at |-> "proxy", read |-> Fill(verifier[r].read, AsInput(r))]]
    BY <1>4 DEF VerifyFromJsonInput, ContractTypes
  <2> QED
    BY <1>4, <2>1, <2>2, ZeroIs DEF VerifyFromJsonInput, ContractTypes, NoRequest
<1>5. ASSUME NEW r \in Requests, afterVerify(r) PROVE ContractTypes'
  <2>1. verifier[r].read \in Contracts /\ upgrades.made \in Nat
    BY DEF ContractTypes
  <2>2. [verifier[r].read EXCEPT !.proxy = upgrades.made] \in Contracts
    BY <2>1 DEF Contracts
  <2>3. PICK c \in Contracts : verifier' = [verifier EXCEPT ![r] = [at |-> "update", read |-> c]]
    BY <1>5, <2>1, <2>2 DEF afterVerify
  <2> QED
    BY <1>5, <2>3 DEF afterVerify, ContractTypes
<1>6. ASSUME NEW r \in Requests, VerifySuccess(r) PROVE ContractTypes'
  <2>1. verifier[r].read \in Contracts /\ contract \in Contracts
    BY DEF ContractTypes
  <2>2. Updates(contract, verifier[r].read) \in Contracts
    BY <2>1, UpdatesTyped
  <2> QED
    BY <1>6, <2>2, ZeroIs DEF VerifySuccess, ContractTypes, NoRequest
<1>7. CASE CreateContract
  <2>1. [contract EXCEPT !.exists = TRUE, !.code = TRUE] \in Contracts
    BY DEF ContractTypes, Contracts
  <2> QED
    BY <1>7, <2>1 DEF CreateContract, ContractTypes
<1>8. CASE incrContractTransactionCount
  <2>0. contract.transactionCount + 1 \in Nat /\ transactionsSeen + 1 \in Nat
    <3>1. contract.transactionCount \in Nat /\ transactionsSeen \in Nat
      BY ContractFields DEF ContractTypes
    <3> QED
      BY <3>1
  <2>1. [contract EXCEPT !.transactionCount = contract.transactionCount + 1] \in Contracts
    BY <2>0 DEF ContractTypes, Contracts
  <2> QED
    BY <1>8, <2>0, <2>1 DEF incrContractTransactionCount, ContractTypes
<1>9. CASE UpgradeOnChain
  <2>1. upgrades.made + 1 \in Nat
    <3>1. upgrades.made \in Nat
      BY DEF ContractTypes
    <3> QED
      BY <3>1
  <2>2. upgrades' = [upgrades EXCEPT !.made = upgrades.made + 1, !.todo = upgrades.todo \cup {upgrades.made + 1}]
    BY <1>9 DEF UpgradeOnChain
  <2>3. upgrades' \in [made : Nat, todo : SUBSET Nat]
    BY <2>1, <2>2 DEF ContractTypes
  <2> QED
    BY <1>9, <2>3 DEF UpgradeOnChain, ContractTypes
<1>10. ASSUME NEW u \in 1..MaxUpgrades, setContractProxyImplementation(u) PROVE ContractTypes'
  <2>1. u \in Nat
    BY <1>0
  <2>2. [contract EXCEPT !.proxy = u] \in Contracts
    BY <2>1 DEF ContractTypes, Contracts
  <2> QED
    BY <1>10, <2>2 DEF setContractProxyImplementation, ContractTypes
<1>11. CASE UNCHANGED contractVars
  BY <1>11 DEF contractVars, ContractTypes
<1> QED
  BY <1>1, <1>2, <1>3, <1>4, <1>5, <1>6, <1>7, <1>8, <1>9, <1>10, <1>11 DEF ContractsNext

(* What a step of a request does to its record, and to the row.            *)
LEMMA RequestStep ==
    ASSUME ContractTypes, NEW r \in Requests,
           Locate(r) \/ GetCode(r) \/ backfillContractFromRuntimeCode(r)
           \/ VerifyFromJsonInput(r) \/ afterVerify(r)
    PROVE  /\ \A q \in Requests \ {r} : verifier'[q] = verifier[q]
           /\ contract' \in {contract, [contract EXCEPT !.exists = TRUE, !.bytecode = "runtime"]}
           /\ contract'.source = contract.source /\ contract'.optimize = contract.optimize
           /\ contract'.proxy = contract.proxy /\ contract'.transactionCount = contract.transactionCount
           /\ upgrades' = upgrades /\ transactionsSeen' = transactionsSeen
           /\ disturbed' \in {disturbed, disturbed \cup {"verify"}}
<1>1. contract' \in {contract, [contract EXCEPT !.exists = TRUE, !.bytecode = "runtime"]}
  BY DEF Locate, GetCode, backfillContractFromRuntimeCode, VerifyFromJsonInput, afterVerify
<1>2. contract \in Contracts
  BY DEF ContractTypes
<1>3. /\ contract'.source = contract.source /\ contract'.optimize = contract.optimize
      /\ contract'.proxy = contract.proxy /\ contract'.transactionCount = contract.transactionCount
  BY <1>1, <1>2 DEF Contracts
<1>4. /\ upgrades' = upgrades /\ transactionsSeen' = transactionsSeen
      /\ disturbed' \in {disturbed, disturbed \cup {"verify"}}
  BY DEF Locate, GetCode, backfillContractFromRuntimeCode, VerifyFromJsonInput, afterVerify
<1>5. \E x : verifier' = [verifier EXCEPT ![r] = x]
  BY DEF Locate, GetCode, backfillContractFromRuntimeCode, VerifyFromJsonInput, afterVerify
<1>6. \A q \in Requests \ {r} : verifier'[q] = verifier[q]
  BY <1>5 DEF ContractTypes
<1> QED
  BY <1>1, <1>3, <1>4, <1>6

(* What the request itself carries afterwards.                             *)
LEMMA RequestCarries ==
    ASSUME ContractTypes, Carried, NEW r \in Requests,
           Locate(r) \/ GetCode(r) \/ backfillContractFromRuntimeCode(r)
           \/ VerifyFromJsonInput(r) \/ afterVerify(r)
    PROVE  /\ verifier'[r].at \in {"code", "backfill", "verify"} =>
                 verifier'[r].read.source = 0 /\ ~verifier'[r].read.optimize
           /\ verifier'[r].at \in {"proxy", "update"} =>
                 verifier'[r].read.source = r /\ verifier'[r].read.optimize = (r \in Optimized)
<1> DEFINE old == verifier[r]
           new == verifier'[r]
<1>0. /\ verifier \in [Requests -> [at : {"idle", "code", "backfill", "verify", "proxy", "update"},
                                    read : Contracts]]
      /\ old.read \in Contracts /\ contract \in Contracts
  BY DEF ContractTypes
<1>z. ZeroContract.source = 0 /\ ~ZeroContract.optimize /\ NoRequest.at = "idle"
  BY DEF ZeroContract, NoRequest
<1>1. CASE Locate(r)
  <2>1. \/ new = [at |-> "code", read |-> ZeroContract]
        \/ new = NoRequest
        \/ new = [at |-> "verify", read |-> contract] /\ contract.source = 0
    BY <1>0, <1>1 DEF Locate, AlreadyVerified
  <2>2. contract.source = 0 => ~contract.optimize
    BY DEF Carried
  <2>3. CASE new = [at |-> "code", read |-> ZeroContract]
    <3>1. new.at = "code" /\ new.read = ZeroContract
      BY <2>3
    <3> QED
      BY <3>1, <1>z
  <2>4. CASE new = NoRequest
    BY <2>4, <1>z
  <2>5. CASE new = [at |-> "verify", read |-> contract] /\ contract.source = 0
    <3>1. new.at = "verify" /\ new.read = contract
      BY <2>5
    <3> QED
      BY <2>2, <2>5, <3>1
  <2> QED
    BY <2>1, <2>3, <2>4, <2>5
<1>2. CASE GetCode(r)
  <2>1. old.at = "code" /\ new \in {NoRequest, [old EXCEPT !.at = "backfill"]}
    BY <1>0, <1>2 DEF GetCode
  <2>2. [old EXCEPT !.at = "backfill"].read = old.read /\ [old EXCEPT !.at = "backfill"].at = "backfill"
    BY <1>0
  <2>3. old.read.source = 0 /\ ~old.read.optimize
    BY <2>1 DEF Carried
  <2>4. new.at = "idle" \/ (new.at = "backfill" /\ new.read = old.read)
    BY <2>1, <2>2, <1>z
  <2> QED
    BY <2>3, <2>4
<1>3. CASE backfillContractFromRuntimeCode(r)
  <2>1. new = [at |-> "verify", read |-> [ZeroContract EXCEPT !.bytecode = "runtime"]]
    BY <1>0, <1>3 DEF backfillContractFromRuntimeCode
  <2>2. /\ [ZeroContract EXCEPT !.bytecode = "runtime"].source = 0
        /\ ~[ZeroContract EXCEPT !.bytecode = "runtime"].optimize
    BY DEF ZeroContract
  <2>3. new.at = "verify" /\ new.read = [ZeroContract EXCEPT !.bytecode = "runtime"]
    BY <2>1
  <2> QED
    BY <2>2, <2>3
<1>4. CASE VerifyFromJsonInput(r)
  <2>1. new \in {NoRequest, [at |-> "proxy", read |-> Fill(old.read, AsInput(r))]}
    BY <1>0, <1>4 DEF VerifyFromJsonInput
  <2>2. Fill(old.read, AsInput(r)).source = r /\ Fill(old.read, AsInput(r)).optimize = (r \in Optimized)
    BY <1>0 DEF Fill, AsInput, Contracts
  <2>3. new.at = "idle" \/ (new.at = "proxy" /\ new.read = Fill(old.read, AsInput(r)))
    BY <2>1, <1>z
  <2> QED
    BY <2>2, <2>3
<1>5. CASE afterVerify(r)
  <2>1. /\ old.at = "proxy"
        /\ \E read \in {old.read, [old.read EXCEPT !.proxy = upgrades.made]} : new = [at |-> "update", read |-> read]
    BY <1>0, <1>5 DEF afterVerify
  <2>2. /\ [old.read EXCEPT !.proxy = upgrades.made].source = old.read.source
        /\ [old.read EXCEPT !.proxy = upgrades.made].optimize = old.read.optimize
    BY <1>0 DEF Contracts
  <2>3. PICK read : read.source = old.read.source /\ read.optimize = old.read.optimize /\ new = [at |-> "update", read |-> read]
    BY <2>1, <2>2
  <2>4. new.at = "update" /\ new.read = read
    BY <2>3
  <2>5. old.read.source = r /\ old.read.optimize = (r \in Optimized)
    BY <2>1 DEF Carried
  <2> QED
    BY <2>3, <2>4, <2>5
<1> QED
  BY <1>1, <1>2, <1>3, <1>4, <1>5

LEMMA CarriedStep == ContractTypes /\ Carried /\ [ContractsNext]_contractVars => Carried'
<1> SUFFICES ASSUME ContractTypes, Carried, [ContractsNext]_contractVars PROVE Carried'
  OBVIOUS
<1>0. Requests \subseteq Nat \ {0} /\ contract \in Contracts
  BY ContractsAssumption DEF ContractTypes
<1>1. ASSUME NEW r \in Requests,
             Locate(r) \/ GetCode(r) \/ backfillContractFromRuntimeCode(r)
             \/ VerifyFromJsonInput(r) \/ afterVerify(r)
      PROVE  Carried'
  <2>1. /\ \A q \in Requests \ {r} : verifier'[q] = verifier[q]
        /\ contract'.source = contract.source /\ contract'.optimize = contract.optimize
        /\ disturbed' \in {disturbed, disturbed \cup {"verify"}}
    BY <1>1, RequestStep
  <2>2. /\ verifier'[r].at \in {"code", "backfill", "verify"} =>
              verifier'[r].read.source = 0 /\ ~verifier'[r].read.optimize
        /\ verifier'[r].at \in {"proxy", "update"} =>
              verifier'[r].read.source = r /\ verifier'[r].read.optimize = (r \in Optimized)
    BY <1>1, RequestCarries
  <2>3. ASSUME "verify" \notin disturbed', verifier'[r].at # "idle"
        PROVE  /\ \A q \in Requests : InFlight(q) => q = r
               /\ contract.source = 0
    <3>1. CASE Locate(r)
      <4>1. contract.source = 0
        <5>1. contract.exists => ~AlreadyVerified(contract)
          BY <2>3, <3>1 DEF Locate, ContractTypes, NoRequest
        <5> QED
          BY <5>1 DEF AlreadyVerified, Carried
      <4>2. \A q \in Requests \ {r} : ~InFlight(q)
        BY <2>3, <3>1 DEF Locate
      <4> QED
        BY <4>1, <4>2
    <3>2. CASE ~Locate(r)
      <4>1. InFlight(r)
        BY <1>1, <3>2 DEF GetCode, backfillContractFromRuntimeCode, VerifyFromJsonInput, afterVerify, InFlight
      <4> QED
        BY <2>1, <2>3, <4>1 DEF Carried
    <3> QED
      BY <3>1, <3>2
  <2>4. /\ contract.exists => contract'.exists
        /\ verifier'[r].at \in {"verify", "proxy", "update"} => contract'.exists
    <3>1. CASE Locate(r)
      <4>1. /\ contract' = contract
            /\ verifier'[r].at = "verify" => contract.exists
            /\ verifier'[r].at \in {"idle", "code", "verify"}
        BY <3>1 DEF Locate, ContractTypes, NoRequest
      <4> QED
        BY <4>1
    <3>2. CASE GetCode(r)
      BY <3>2 DEF GetCode, ContractTypes, NoRequest
    <3>3. CASE backfillContractFromRuntimeCode(r)
      BY <3>3, <1>0 DEF backfillContractFromRuntimeCode, Contracts
    <3>4. CASE VerifyFromJsonInput(r)
      BY <3>4 DEF VerifyFromJsonInput, Carried
    <3>5. CASE afterVerify(r)
      BY <3>5 DEF afterVerify, Carried
    <3> QED
      BY <1>1, <3>1, <3>2, <3>3, <3>4, <3>5
  <2> QED
    BY <2>1, <2>2, <2>3, <2>4 DEF Carried, InFlight
<1>2. ASSUME NEW r \in Requests, VerifySuccess(r) PROVE Carried'
  <2> DEFINE c == verifier[r].read
  <2>1. /\ verifier[r].at = "update" /\ verifier' = [verifier EXCEPT ![r] = NoRequest] /\ disturbed' = disturbed
        /\ contract' = Updates(contract, c)
    BY <1>2 DEF VerifySuccess
  <2>2. c \in Contracts /\ c.source = r /\ c.optimize = (r \in Optimized) /\ r # 0
    BY <1>0, <2>1 DEF ContractTypes, Carried
  <2>3. /\ contract'.exists = contract.exists /\ contract'.source = r
        /\ contract'.optimize = (contract.optimize \/ c.optimize)
    <3> HIDE DEF c
    <3>1. /\ Updates(contract, c).exists = contract.exists
          /\ Updates(contract, c).source = IF c.source = 0 THEN contract.source ELSE c.source
          /\ Updates(contract, c).optimize = (contract.optimize \/ c.optimize)
      BY <1>0, <2>2, UpdatesFields
    <3> QED
      BY <2>1, <2>2, <3>1
  <2>4. verifier'[r].at = "idle" /\ \A q \in Requests \ {r} : verifier'[q] = verifier[q]
    BY <2>1 DEF ContractTypes, NoRequest
  <2>5. contract.exists
    BY <2>1 DEF Carried
  <2>6. ASSUME "verify" \notin disturbed
        PROVE  /\ \A q \in Requests : ~(verifier'[q].at # "idle")
               /\ contract'.optimize = (r \in Optimized)
    <3>1. InFlight(r)
      BY <2>1 DEF InFlight
    <3>2. contract.source = 0 /\ ~contract.optimize /\ \A q \in Requests : InFlight(q) => q = r
      BY <2>6, <3>1 DEF Carried
    <3>3. contract'.optimize = (r \in Optimized)
      <4> HIDE DEF c
      <4>1. CASE r \in Optimized
        BY <2>2, <2>3, <4>1
      <4>2. CASE r \notin Optimized
        <5>1. ~c.optimize
          BY <2>2, <4>2
        <5>2. ~(contract.optimize \/ c.optimize)
          BY <3>2, <5>1
        <5> QED
          BY <2>3, <4>2, <5>2
      <4> QED
        BY <4>1, <4>2
    <3> QED
      BY <2>4, <3>2, <3>3 DEF InFlight
  <2> QED
    BY <2>1, <2>2, <2>3, <2>4, <2>5, <2>6 DEF Carried, InFlight
<1>3. CASE CreateContract
  <2>1. contract'.exists /\ contract'.source = contract.source /\ contract'.optimize = contract.optimize
    BY <1>0, <1>3 DEF CreateContract, Contracts
  <2> QED
    BY <1>3, <2>1 DEF CreateContract, Carried, InFlight
<1>4. CASE incrContractTransactionCount
  <2>1. /\ contract'.exists = contract.exists /\ contract'.source = contract.source
        /\ contract'.optimize = contract.optimize /\ ("verify" \notin disturbed' => "verify" \notin disturbed)
    BY <1>0, <1>4 DEF incrContractTransactionCount, Contracts
  <2> QED
    BY <1>4, <2>1 DEF incrContractTransactionCount, Carried, InFlight
<1>5. CASE UpgradeOnChain
  BY <1>5 DEF UpgradeOnChain, Carried, InFlight
<1>6. ASSUME NEW u \in 1..MaxUpgrades, setContractProxyImplementation(u) PROVE Carried'
  <2>1. /\ contract'.exists = contract.exists /\ contract'.source = contract.source
        /\ contract'.optimize = contract.optimize /\ ("verify" \notin disturbed' => "verify" \notin disturbed)
    BY <1>0, <1>6 DEF setContractProxyImplementation, Contracts
  <2> QED
    BY <1>6, <2>1 DEF setContractProxyImplementation, Carried, InFlight
<1>7. CASE UNCHANGED contractVars
  BY <1>7 DEF contractVars, Carried, InFlight
<1> QED
  BY <1>1, <1>2, <1>3, <1>4, <1>5, <1>6, <1>7 DEF ContractsNext

(* What a request has read of the count and the implementation comes from  *)
(* the row, or from the chain, or is none.                                 *)
LEMMA RequestReads ==
    ASSUME ContractTypes, NEW r \in Requests,
           Locate(r) \/ GetCode(r) \/ backfillContractFromRuntimeCode(r)
           \/ VerifyFromJsonInput(r) \/ afterVerify(r)
    PROVE  /\ verifier'[r].read.transactionCount \in {0, contract.transactionCount}
              \/ (InFlight(r) /\ verifier'[r].read.transactionCount = verifier[r].read.transactionCount)
           /\ verifier'[r].read.proxy \in {0, contract.proxy, upgrades.made}
              \/ (InFlight(r) /\ verifier'[r].read.proxy = verifier[r].read.proxy)
<1> DEFINE old == verifier[r]
           new == verifier'[r]
<1>0. /\ verifier \in [Requests -> [at : {"idle", "code", "backfill", "verify", "proxy", "update"},
                                    read : Contracts]]
      /\ old.read \in Contracts /\ contract \in Contracts
  BY DEF ContractTypes
<1>z. ZeroContract.transactionCount = 0 /\ ZeroContract.proxy = 0 /\ NoRequest.read = ZeroContract
  BY DEF ZeroContract, NoRequest
<1>1. CASE Locate(r)
  <2>1. new.read \in {ZeroContract, contract}
    BY <1>0, <1>1, <1>z DEF Locate
  <2> QED
    BY <2>1, <1>z
<1>2. CASE GetCode(r)
  <2>1. InFlight(r) /\ (new.read = ZeroContract \/ new.read = old.read)
    BY <1>0, <1>2, <1>z DEF GetCode, InFlight
  <2> QED
    BY <2>1, <1>z
<1>3. CASE backfillContractFromRuntimeCode(r)
  <2>1. new.read = [ZeroContract EXCEPT !.bytecode = "runtime"]
    BY <1>0, <1>3 DEF backfillContractFromRuntimeCode
  <2>2. /\ [ZeroContract EXCEPT !.bytecode = "runtime"].transactionCount = 0
        /\ [ZeroContract EXCEPT !.bytecode = "runtime"].proxy = 0
    BY DEF ZeroContract
  <2> QED
    BY <2>1, <2>2
<1>4. CASE VerifyFromJsonInput(r)
  <2>1. InFlight(r) /\ (new.read = ZeroContract \/ new.read = Fill(old.read, AsInput(r)))
    BY <1>0, <1>4, <1>z DEF VerifyFromJsonInput, InFlight
  <2>2. /\ Fill(old.read, AsInput(r)).transactionCount = old.read.transactionCount
        /\ Fill(old.read, AsInput(r)).proxy = old.read.proxy
    BY <1>0 DEF Fill, Contracts
  <2> QED
    BY <2>1, <2>2, <1>z
<1>5. CASE afterVerify(r)
  <2>1. InFlight(r) /\ (new.read = old.read \/ new.read = [old.read EXCEPT !.proxy = upgrades.made])
    BY <1>0, <1>5 DEF afterVerify, InFlight
  <2>2. /\ [old.read EXCEPT !.proxy = upgrades.made].transactionCount = old.read.transactionCount
        /\ [old.read EXCEPT !.proxy = upgrades.made].proxy = upgrades.made
    BY <1>0 DEF Contracts
  <2> QED
    BY <2>1, <2>2
<1> QED
  BY <1>1, <1>2, <1>3, <1>4, <1>5

(* The two numbers of the row that a verified request writes.              *)
LEMMA SuccessWrites ==
    ASSUME ContractTypes, NEW r \in Requests, VerifySuccess(r)
    PROVE  /\ InFlight(r)
           /\ contract'.transactionCount \in {contract.transactionCount, verifier[r].read.transactionCount}
           /\ verifier[r].read.transactionCount = 0 => contract'.transactionCount = contract.transactionCount
           /\ contract'.proxy \in {contract.proxy, verifier[r].read.proxy}
           /\ verifier[r].read.proxy = 0 => contract'.proxy = contract.proxy
           /\ verifier'[r].read.transactionCount = 0 /\ verifier'[r].read.proxy = 0 /\ verifier'[r].at = "idle"
           /\ \A q \in Requests \ {r} : verifier'[q] = verifier[q]
<1> DEFINE c == verifier[r].read
<1>1. c \in Contracts /\ contract \in Contracts /\ r \in DOMAIN verifier
  BY DEF ContractTypes
<1>2. contract' = Updates(contract, c) /\ verifier' = [verifier EXCEPT ![r] = NoRequest] /\ InFlight(r)
  BY DEF VerifySuccess, InFlight
<1>3. verifier'[r] = NoRequest /\ \A q \in Requests \ {r} : verifier'[q] = verifier[q]
  BY <1>1, <1>2 DEF ContractTypes
<1>4. NoRequest.at = "idle" /\ NoRequest.read.transactionCount = 0 /\ NoRequest.read.proxy = 0
  BY DEF NoRequest, ZeroContract
<1> HIDE DEF c
<1>5. /\ contract'.transactionCount = IF c.transactionCount = 0 THEN contract.transactionCount ELSE c.transactionCount
      /\ contract'.proxy = IF c.proxy = 0 THEN contract.proxy ELSE c.proxy
  BY <1>1, <1>2, UpdatesFields
<1> QED
  BY <1>2, <1>3, <1>4, <1>5 DEF c

LEMMA CountedStep == ContractTypes /\ Counted /\ [ContractsNext]_contractVars => Counted'
<1> SUFFICES ASSUME ContractTypes, Counted, [ContractsNext]_contractVars PROVE Counted'
  OBVIOUS
<1>0. /\ contract \in Contracts /\ contract.transactionCount \in Nat /\ transactionsSeen \in Nat
      /\ \A r \in Requests : verifier[r].read.transactionCount \in Nat
  BY ContractFields DEF ContractTypes
<1>1. ASSUME NEW r \in Requests,
             Locate(r) \/ GetCode(r) \/ backfillContractFromRuntimeCode(r)
             \/ VerifyFromJsonInput(r) \/ afterVerify(r)
      PROVE  Counted'
  <2>1. /\ \A q \in Requests \ {r} : verifier'[q] = verifier[q]
        /\ contract'.transactionCount = contract.transactionCount /\ transactionsSeen' = transactionsSeen
        /\ "count" \notin disturbed' => "count" \notin disturbed
    BY <1>1, RequestStep
  <2>2. \/ verifier'[r].read.transactionCount \in {0, contract.transactionCount}
        \/ InFlight(r) /\ verifier'[r].read.transactionCount = verifier[r].read.transactionCount
    BY <1>1, RequestReads
  <2> QED
    BY <1>0, <2>1, <2>2 DEF Counted, InFlight
<1>2. ASSUME NEW r \in Requests, VerifySuccess(r) PROVE Counted'
  <2>1. disturbed' = disturbed /\ transactionsSeen' = transactionsSeen
    BY <1>2 DEF VerifySuccess
  <2> QED
    BY <1>0, <1>2, <2>1, SuccessWrites DEF Counted, InFlight
<1>3. CASE CreateContract
  <2>1. contract'.transactionCount = contract.transactionCount
    BY <1>0, <1>3 DEF CreateContract, Contracts
  <2> QED
    BY <1>3, <2>1 DEF CreateContract, Counted, InFlight
<1>4. CASE incrContractTransactionCount
  <2>1. /\ contract'.transactionCount = contract.transactionCount + 1
        /\ transactionsSeen' = transactionsSeen + 1 /\ verifier' = verifier
    BY <1>0, <1>4 DEF incrContractTransactionCount, Contracts
  <2>2. "count" \notin disturbed' => "count" \notin disturbed /\ \A r \in Requests : ~InFlight(r)
    BY <1>4 DEF incrContractTransactionCount
  <2> QED
    BY <1>0, <2>1, <2>2 DEF Counted, InFlight
<1>5. CASE UpgradeOnChain
  BY <1>5 DEF UpgradeOnChain, Counted, InFlight
<1>6. ASSUME NEW u \in 1..MaxUpgrades, setContractProxyImplementation(u) PROVE Counted'
  <2>1. contract'.transactionCount = contract.transactionCount /\ ("count" \notin disturbed' => "count" \notin disturbed)
    BY <1>0, <1>6 DEF setContractProxyImplementation, Contracts
  <2> QED
    BY <1>6, <2>1 DEF setContractProxyImplementation, Counted, InFlight
<1>7. CASE UNCHANGED contractVars
  BY <1>7 DEF contractVars, Counted, InFlight
<1> QED
  BY <1>1, <1>2, <1>3, <1>4, <1>5, <1>6, <1>7 DEF ContractsNext

LEMMA FollowedStep == ContractTypes /\ Followed /\ [ContractsNext]_contractVars => Followed'
<1> SUFFICES ASSUME ContractTypes, Followed, [ContractsNext]_contractVars PROVE Followed'
  OBVIOUS
<1>0. contract \in Contracts /\ upgrades \in [made : Nat, todo : SUBSET Nat] /\ upgrades.made \in Nat
  BY DEF ContractTypes
<1>1. ASSUME NEW r \in Requests,
             Locate(r) \/ GetCode(r) \/ backfillContractFromRuntimeCode(r)
             \/ VerifyFromJsonInput(r) \/ afterVerify(r)
      PROVE  Followed'
  <2>1. /\ \A q \in Requests \ {r} : verifier'[q] = verifier[q]
        /\ contract'.proxy = contract.proxy /\ upgrades' = upgrades
        /\ "upgrade" \notin disturbed' => "upgrade" \notin disturbed
        /\ "order" \notin disturbed' => "order" \notin disturbed
    BY <1>1, RequestStep
  <2>2. \/ verifier'[r].read.proxy \in {0, contract.proxy, upgrades.made}
        \/ InFlight(r) /\ verifier'[r].read.proxy = verifier[r].read.proxy
    BY <1>1, RequestReads
  <2> QED
    BY <2>1, <2>2 DEF Followed, InFlight
<1>2. ASSUME NEW r \in Requests, VerifySuccess(r) PROVE Followed'
  <2>1. disturbed' = disturbed /\ upgrades' = upgrades
    BY <1>2 DEF VerifySuccess
  <2> QED
    BY <1>2, <2>1, SuccessWrites DEF Followed, InFlight
<1>3. CASE CreateContract
  <2>1. contract'.proxy = contract.proxy
    BY <1>0, <1>3 DEF CreateContract, Contracts
  <2> QED
    BY <1>3, <2>1 DEF CreateContract, Followed, InFlight
<1>4. CASE incrContractTransactionCount
  <2>1. contract'.proxy = contract.proxy
    BY <1>0, <1>4 DEF incrContractTransactionCount, Contracts
  <2>2. /\ "upgrade" \notin disturbed' => "upgrade" \notin disturbed
        /\ "order" \notin disturbed' => "order" \notin disturbed
    BY <1>4 DEF incrContractTransactionCount
  <2> QED
    BY <1>4, <2>1, <2>2 DEF incrContractTransactionCount, Followed, InFlight
<1>5. CASE UpgradeOnChain
  <2>1. upgrades'.made = upgrades.made + 1 /\ upgrades'.todo = upgrades.todo \cup {upgrades.made + 1}
    BY <1>0, <1>5 DEF UpgradeOnChain
  <2>2. \A u \in upgrades.todo : u \in Nat /\ 1 <= u /\ u <= upgrades.made
    BY <1>0 DEF Followed
  <2>3. (\A u \in upgrades'.todo : 1 <= u /\ u <= upgrades'.made) /\ upgrades'.made \in upgrades'.todo
    BY <1>0, <2>1, <2>2
  <2>4. verifier' = verifier /\ contract' = contract /\ disturbed' = disturbed /\ upgrades'.todo # {}
    BY <1>5, <2>1 DEF UpgradeOnChain
  <2> QED
    BY <2>3, <2>4 DEF Followed
<1>6. ASSUME NEW u \in 1..MaxUpgrades, setContractProxyImplementation(u) PROVE Followed'
  <2>1. /\ upgrades'.made = upgrades.made /\ upgrades'.todo = upgrades.todo \ {u} /\ u \in upgrades.todo
        /\ verifier' = verifier /\ u \in Nat /\ u >= 1
    BY <1>0, <1>6 DEF setContractProxyImplementation
  <2>2. contract'.proxy = IF contract.proxy # 0 THEN u ELSE 0
    BY <1>0, <1>6 DEF setContractProxyImplementation, Contracts
  <2>3. /\ "order" \notin disturbed' => "order" \notin disturbed /\ \A v \in 1..u - 1 : v \notin upgrades.todo
        /\ "upgrade" \notin disturbed' => \A r \in Requests : ~InFlight(r)
    BY <1>6 DEF setContractProxyImplementation
  <2>4. \A v \in upgrades.todo : v \in Nat /\ 1 <= v /\ v <= upgrades.made
    BY <1>0 DEF Followed
  <2>5. ASSUME "order" \notin disturbed' PROVE upgrades.made # u => upgrades.made \in upgrades'.todo
    BY <2>1, <2>3, <2>5 DEF Followed
  <2>6. ASSUME "order" \notin disturbed', upgrades'.todo # {} PROVE upgrades.made # u
    <3>1. PICK v \in upgrades.todo : v # u
      BY <2>1, <2>6
    <3>2. v >= 1
      BY <2>4
    <3> QED
      BY <1>0, <2>1, <2>3, <2>4, <2>6, <3>1, <3>2
  <2>7. "order" \notin disturbed' /\ upgrades'.todo = {} => u = upgrades.made
    BY <2>1, <2>5
  <2> QED
    BY <2>1, <2>2, <2>3, <2>4, <2>5, <2>6, <2>7 DEF Followed, InFlight
<1>7. CASE UNCHANGED contractVars
  BY <1>7 DEF contractVars, Followed, InFlight
<1> QED
  BY <1>1, <1>2, <1>3, <1>4, <1>5, <1>6, <1>7 DEF ContractsNext

(* The verified row of a contract belongs to one verification, follows the *)
(* upgrades of its proxy and never runs ahead of the transactions, however *)
(* many requests, upgrades and transactions overlap, apart from what the   *)
(* history says was disturbed.                                             *)
THEOREM ContractRowIsExact == ContractsSpec => []ContractRowExact
<1>1. ContractsInit => ContractInv
  <2> SUFFICES ASSUME ContractsInit PROVE ContractInv
    OBVIOUS
  <2>1. /\ contract = ZeroContract /\ transactionsSeen = 0 /\ disturbed = {}
        /\ verifier = [r \in Requests |-> NoRequest] /\ upgrades = [made |-> 1, todo |-> {}]
    BY DEF ContractsInit
  <2>2. NoRequest.at = "idle" /\ NoRequest.read = ZeroContract
    BY DEF NoRequest
  <2>3. /\ ZeroContract.source = 0 /\ ~ZeroContract.optimize /\ ZeroContract.proxy = 0
        /\ ZeroContract.transactionCount = 0
    BY DEF ZeroContract
  <2>4. ContractTypes
    BY <2>1, ZeroIs DEF ContractTypes, NoRequest
  <2>5. Carried
    BY <2>1, <2>2, <2>3 DEF Carried, InFlight
  <2>6. Counted /\ Followed
    BY <2>1, <2>2, <2>3 DEF Counted, Followed, InFlight
  <2> QED
    BY <2>4, <2>5, <2>6 DEF ContractInv
<1>2. ContractInv /\ [ContractsNext]_contractVars => ContractInv'
  BY ContractTypesStep, CarriedStep, CountedStep, FollowedStep DEF ContractInv
<1>3. ContractInv => ContractRowExact
  BY DEF ContractInv, Carried, Counted, Followed, ContractRowExact
<1> QED
  BY <1>1, <1>2, <1>3, PTL DEF ContractsSpec

-----------------------------------------------------------------------------
(* EvmBlocks.                                                              *)

Stages == {"receipt", "creating", "contract", "receipts", "transaction", "commit", "accounts", "insert", "done"}

(* What a process is at: a block, the key of its row, and how far each of  *)
(* its transactions is.                                                    *)
Stagings == UNION {[T -> Stages] : T \in SUBSET Transactions}
Works == [block : Blocks \cup {None}, key : Blocks \cup {0}, stage : Stagings, err : {"none", "empty", "other"}]

BlockTypes ==
    /\ indexing \in [Processes -> Works]
    /\ \A p \in Processes : Busy(p) => DOMAIN indexing[p].stage = Txns[indexing[p].block]
    /\ rows \in [Blocks \cup {0} -> Blocks \cup {None}]
    /\ sweep \in [phase : {"off", "range", "missing", "repair", "over"}, last : Nat,
                  end : Blocks \cup {0}, top : Blocks \cup {0}, todo : SUBSET Blocks]

(* Addresses that have a row, are to get one, or lost it to a fault.       *)
Tracked == accounts \cup unpaid \cup {c[3] : c \in claims}

(* A transaction that has come so far without an error has the account of  *)
(* the contract it creates, then its receipts, its row, and its accounts.  *)
Kept(p) ==
    \A t \in DOMAIN indexing[p].stage :
        indexing[p].err = "none" /\ ~Anonymous(t) =>
           /\ indexing[p].stage[t] # "receipt" /\ t \in Creates => ToOf[t] \in Tracked
           /\ indexing[p].stage[t] \in {"transaction", "commit", "accounts", "insert", "done"} =>
                 LogsIn(t) \subseteq receipts
           /\ indexing[p].stage[t] \in {"accounts", "insert", "done"} => t \in txns
           /\ indexing[p].stage[t] \in {"insert", "done"} => Parties(t) \subseteq Tracked

BlocksInv ==
    /\ BlockTypes /\ members \subseteq Tracked /\ \A p \in Processes : Kept(p)
    /\ BlockComplete /\ AccountsTracked

(* A goroutine of the pool goes on, or gives up.                           *)
LEMMA Advances ==
    ASSUME indexing \in [Processes -> Works], NEW p \in Processes, NEW t \in DOMAIN indexing[p].stage,
           NEW s \in Stages, Advance(p, t, s)
    PROVE  /\ \A q \in Processes \ {p} : indexing'[q] = indexing[q]
           /\ indexing' \in [Processes -> Works]
           /\ indexing'[p].block = indexing[p].block /\ indexing'[p].key = indexing[p].key
           /\ indexing'[p].err = indexing[p].err
           /\ indexing'[p].stage = [indexing[p].stage EXCEPT ![t] = s]
<1> DEFINE f == indexing[p].stage
           g == [f EXCEPT ![t] = s]
<1>1. indexing[p] \in Works
  OBVIOUS
<1>2. PICK T \in SUBSET Transactions : f \in [T -> Stages]
  BY <1>1 DEF Works, Stagings
<1>3. g \in [T -> Stages]
  BY <1>2
<1>4. g \in Stagings
  BY <1>3 DEF Stagings
<1>5. indexing' = [indexing EXCEPT ![p] = [indexing[p] EXCEPT !.stage = g]]
  BY DEF Advance
<1> HIDE DEF f, g
<1>6. [indexing[p] EXCEPT !.stage = g] \in Works
  BY <1>1, <1>4 DEF Works
<1>7. indexing'[p] = [indexing[p] EXCEPT !.stage = g]
  BY <1>5
<1>8. /\ indexing'[p].block = indexing[p].block /\ indexing'[p].key = indexing[p].key
      /\ indexing'[p].err = indexing[p].err /\ indexing'[p].stage = g
  BY <1>1, <1>7 DEF Works
<1> QED
  BY <1>5, <1>6, <1>8 DEF f, g

LEMMA GivesUp ==
    ASSUME indexing \in [Processes -> Works], NEW p \in Processes, NEW t \in DOMAIN indexing[p].stage,
           NEW e \in {"empty", "other"}, GiveUp(p, t, e)
    PROVE  /\ \A q \in Processes \ {p} : indexing'[q] = indexing[q]
           /\ indexing' \in [Processes -> Works]
           /\ indexing'[p].block = indexing[p].block /\ indexing'[p].key = indexing[p].key
           /\ indexing'[p].err = e
           /\ indexing'[p].stage = [indexing[p].stage EXCEPT ![t] = "done"]
<1> DEFINE f == indexing[p].stage
           g == [f EXCEPT ![t] = "done"]
<1>1. indexing[p] \in Works
  OBVIOUS
<1>2. PICK T \in SUBSET Transactions : f \in [T -> Stages]
  BY <1>1 DEF Works, Stagings
<1>3. g \in [T -> Stages]
  BY <1>2 DEF Stages
<1>4. g \in Stagings
  BY <1>3 DEF Stagings
<1>5. indexing' = [indexing EXCEPT ![p] = [indexing[p] EXCEPT !.stage = g, !.err = e]]
  BY DEF GiveUp
<1> HIDE DEF f, g
<1>6. [indexing[p] EXCEPT !.stage = g, !.err = e] \in Works
  BY <1>1, <1>4 DEF Works
<1>7. indexing'[p] = [indexing[p] EXCEPT !.stage = g, !.err = e]
  BY <1>5
<1>8. /\ indexing'[p].block = indexing[p].block /\ indexing'[p].key = indexing[p].key
      /\ indexing'[p].err = e /\ indexing'[p].stage = g
  BY <1>1, <1>7 DEF Works
<1> QED
  BY <1>5, <1>6, <1>8 DEF f, g

(* The numbers of the chain's blocks have no gaps.                         *)
LEMMA NoGaps ==
    ASSUME NEW b \in Blocks \cup {0}, NEW n \in Nat, 1 <= n, n <= b
    PROVE  n \in Blocks
<1>1. /\ Blocks \subseteq Nat \ {0}
      /\ \A c \in Blocks : 1 .. c \subseteq Blocks
  BY EvmAssumption
<1>2. b \in Nat /\ b # 0
  BY <1>1
<1>3. n \in 1 .. b /\ b \in Blocks
  BY <1>2
<1> QED
  BY <1>1, <1>3

LEMMA HeadRowIn == rows \in [Blocks \cup {0} -> Blocks \cup {None}] => HeadRow \in Blocks \cup {0}
<1> SUFFICES ASSUME rows \in [Blocks \cup {0} -> Blocks \cup {None}] PROVE HeadRow \in Blocks \cup {0}
  OBVIOUS
<1> DEFINE S == {n \in DOMAIN rows : n = 0 \/ HasRow(n)}
           N == Cardinality(Blocks)
<1>1. Blocks \subseteq Nat \ {0} /\ IsFiniteSet(Blocks) /\ \A b \in Blocks : 1 .. b \subseteq Blocks
  BY EvmAssumption
<1>2. N \in Nat
  BY <1>1, FS_CardinalityType
<1>3. ASSUME NEW b \in Blocks PROVE b <= N
  <2>1. 1 \in Int /\ b \in Int /\ b >= 1
    BY <1>1
  <2>2. Cardinality(1 .. b) = b
    <3>1. Cardinality(1 .. b) = IF 1 > b THEN 0 ELSE b - 1 + 1
      BY <2>1, FS_Interval
    <3> QED
      BY <2>1, <3>1
  <2>3. Cardinality(1 .. b) <= N
    BY <1>1, FS_Subset
  <2> QED
    BY <2>2, <2>3
<1>4. S \in SUBSET Nat /\ S # {} /\ S \subseteq Blocks \cup {0}
  <2>1. DOMAIN rows = Blocks \cup {0} /\ Blocks \cup {0} \subseteq Nat
    BY <1>1
  <2>2. 0 \in S
    BY <2>1
  <2> QED
    BY <2>1, <2>2
<1>5. \A x \in S : x <= N
  BY <1>2, <1>3, <1>4
<1>6. HeadRow = Max(S)
  BY DEF HeadRow
<1> HIDE DEF S, N
<1>7. Max(S) \in S
  BY <1>2, <1>4, <1>5, Greatest
<1> QED
  BY <1>4, <1>6, <1>7

(* A process takes a block.                                                *)
LEMMA Starts ==
    ASSUME indexing \in [Processes -> Works], NEW p \in Processes, NEW b \in Blocks, NEW key \in Blocks \cup {0},
           Start(p, b, key)
    PROVE  /\ \A q \in Processes \ {p} : indexing'[q] = indexing[q]
           /\ indexing' \in [Processes -> Works]
           /\ indexing'[p] = [block |-> b, key |-> key, stage |-> [t \in Txns[b] |-> "receipt"], err |-> "none"]
<1> DEFINE g == [t \in Txns[b] |-> "receipt"]
<1>1. g \in [Txns[b] -> Stages] /\ Txns[b] \in SUBSET Transactions
  BY DEF Stages, Transactions
<1>2. g \in Stagings
  BY <1>1 DEF Stagings
<1>3. indexing' = [indexing EXCEPT ![p] = [block |-> b, key |-> key, stage |-> g, err |-> "none"]]
  BY DEF Start
<1> HIDE DEF g
<1>4. [block |-> b, key |-> key, stage |-> g, err |-> "none"] \in Works
  BY <1>2 DEF Works
<1> QED
  BY <1>3, <1>4 DEF g

LEMMA BlockIdleIs == BlockIdle \in Works /\ BlockIdle.block = None /\ DOMAIN BlockIdle.stage = {}
<1> DEFINE g == [t \in {} |-> "done"]
<1>1. g \in [{} -> Stages] /\ DOMAIN g = {}
  OBVIOUS
<1>2. g \in Stagings
  BY <1>1 DEF Stagings
<1>3. BlockIdle = [block |-> None, key |-> None, stage |-> g, err |-> "none"]
  BY DEF BlockIdle
<1> HIDE DEF g
<1> QED
  BY <1>1, <1>2, <1>3 DEF Works, None

(* A step of the pool is one stage of one transaction.                     *)
LEMMA PoolMoves ==
    ASSUME NEW p \in Processes, NEW t, Pool(p, t)
    PROVE  /\ Busy(p) /\ t \in DOMAIN indexing[p].stage
           /\ (\E s \in Stages : Advance(p, t, s)) \/ (\E e \in {"empty", "other"} : GiveUp(p, t, e))
           /\ rows' = rows /\ sweep' = sweep /\ queue' = queue
<1>1. ASSUME NEW s, BlockAt(p, t, s) PROVE Busy(p) /\ t \in DOMAIN indexing[p].stage
  BY <1>1 DEF BlockAt
<1>2. CASE ReadReceipt(p, t)
  BY <1>1, <1>2 DEF ReadReceipt, ToReceipts, blockVars, cmdVars, Stages
<1>8. CASE TouchContract(p, t)
  BY <1>1, <1>8 DEF TouchContract, blockVars, cmdVars, Stages
<1>9. CASE NewContract(p, t)
  BY <1>1, <1>9 DEF NewContract, ToReceipts, blockVars, cmdVars, Stages
<1>3. CASE StoreReceipts(p, t)
  BY <1>1, <1>3 DEF StoreReceipts, blockVars, cmdVars, Stages
<1>4. CASE StoreTransaction(p, t)
  BY <1>1, <1>4 DEF StoreTransaction, blockVars, cmdVars, Stages
<1>5. CASE CommitTransaction(p, t)
  BY <1>1, <1>5 DEF CommitTransaction, blockVars, cmdVars, Stages
<1>6. CASE ClaimAccounts(p, t)
  BY <1>1, <1>6 DEF ClaimAccounts, blockVars, cmdVars, Stages
<1>7. CASE TouchAccount(p, t)
  BY <1>1, <1>7 DEF TouchAccount, blockVars, cmdVars, Stages
<1> QED
  BY <1>2, <1>3, <1>4, <1>5, <1>6, <1>7, <1>8, <1>9 DEF Pool

(* What becomes of a process: nothing, a stage, a new block, or rest.      *)
LEMMA PoolTyped ==
    ASSUME BlockTypes, NEW p \in Processes, NEW t, Pool(p, t)
    PROVE  BlockTypes'
<1>1. Busy(p) /\ t \in DOMAIN indexing[p].stage /\ rows' = rows /\ sweep' = sweep
  BY PoolMoves
<1>2. indexing \in [Processes -> Works]
  BY DEF BlockTypes
<1> DEFINE Moved == /\ \A q \in Processes \ {p} : indexing'[q] = indexing[q]
                    /\ indexing' \in [Processes -> Works]
                    /\ indexing'[p].block = indexing[p].block
                    /\ DOMAIN indexing'[p].stage = DOMAIN indexing[p].stage
<1>3. ASSUME NEW s \in Stages, Advance(p, t, s) PROVE Moved
  <2>1. indexing'[p].stage = [indexing[p].stage EXCEPT ![t] = s]
    BY <1>1, <1>2, <1>3, Advances
  <2>2. DOMAIN indexing'[p].stage = DOMAIN indexing[p].stage
    BY <2>1
  <2> QED
    BY <1>1, <1>2, <1>3, <2>2, Advances
<1>4. ASSUME NEW e \in {"empty", "other"}, GiveUp(p, t, e) PROVE Moved
  <2>1. indexing'[p].stage = [indexing[p].stage EXCEPT ![t] = "done"]
    BY <1>1, <1>2, <1>4, GivesUp
  <2>2. DOMAIN indexing'[p].stage = DOMAIN indexing[p].stage
    BY <2>1
  <2>3. /\ \A q \in Processes \ {p} : indexing'[q] = indexing[q]
        /\ indexing' \in [Processes -> Works] /\ indexing'[p].block = indexing[p].block
    BY ZenonT(60), <1>1, <1>2, <1>4, GivesUp
  <2> QED
    BY <2>2, <2>3
<1>5. Moved
  <2>1. (\E s \in Stages : Advance(p, t, s)) \/ (\E e \in {"empty", "other"} : GiveUp(p, t, e))
    BY PoolMoves
  <2>2. CASE \E s \in Stages : Advance(p, t, s)
    <3>1. PICK s \in Stages : Advance(p, t, s)
      BY <2>2
    <3> QED
      BY <1>3, <3>1
  <2>3. CASE \E e \in {"empty", "other"} : GiveUp(p, t, e)
    <3>1. PICK e \in {"empty", "other"} : GiveUp(p, t, e)
      BY <2>3
    <3> QED
      BY <1>4, <3>1
  <2> QED
    BY <2>1, <2>2, <2>3
<1> QED
  BY <1>1, <1>5 DEF BlockTypes, Busy

LEMMA WritesRow ==
    ASSUME BlockTypes, NEW p \in Processes, Busy(p), WriteRow(indexing[p].block, indexing[p].key)
    PROVE  /\ rows' \in [Blocks \cup {0} -> Blocks \cup {None}]
           /\ \A n \in DOMAIN rows : rows'[n] \in {rows[n], indexing[p].block}
           /\ DOMAIN rows' = DOMAIN rows
<1>1. indexing[p].block \in Blocks /\ indexing[p].key \in Blocks \cup {0}
  BY DEF BlockTypes, Works, Busy
<1>2. rows \in [Blocks \cup {0} -> Blocks \cup {None}]
  BY DEF BlockTypes
<1> DEFINE b == indexing[p].block
           k == indexing[p].key
<1>3. rows' = [rows EXCEPT ![k] = IF rows[k] = None THEN b ELSE rows[k]]
  BY DEF WriteRow
<1> HIDE DEF b, k
<1>4. b \in Blocks /\ k \in Blocks \cup {0}
  BY <1>1 DEF b, k
<1>5. /\ rows' \in [Blocks \cup {0} -> Blocks \cup {None}]
      /\ \A n \in DOMAIN rows : rows'[n] \in {rows[n], b}
      /\ DOMAIN rows' = DOMAIN rows
  BY <1>2, <1>3, <1>4
<1> QED
  BY <1>5 DEF b

LEMMA BlockTypesStep == BlockTypes /\ [EvmBlocksNext]_evmBlockVars => BlockTypes'
<1> SUFFICES ASSUME BlockTypes, [EvmBlocksNext]_evmBlockVars PROVE BlockTypes'
  OBVIOUS
<1>0. /\ indexing \in [Processes -> Works] /\ rows \in [Blocks \cup {0} -> Blocks \cup {None}]
      /\ sweep \in [phase : {"off", "range", "missing", "repair", "over"}, last : Nat,
                    end : Blocks \cup {0}, top : Blocks \cup {0}, todo : SUBSET Blocks]
      /\ Blocks \subseteq Nat \ {0} /\ Chunk \in Nat /\ Chunk > 0 /\ HoldOn \in Nat
      /\ sweep.last \in Nat /\ sweep.top \in Nat /\ sweep.end \in Nat
      /\ Validator \in Processes /\ BlockWorkers \subseteq Processes
  <2>1. sweep \in [phase : {"off", "range", "missing", "repair", "over"}, last : Nat,
                    end : Blocks \cup {0}, top : Blocks \cup {0}, todo : SUBSET Blocks]
    BY DEF BlockTypes
  <2>2. Blocks \subseteq Nat \ {0} /\ Chunk \in Nat /\ Chunk > 0 /\ HoldOn \in Nat
    BY EvmAssumption
  <2>3. sweep.last \in Nat /\ sweep.top \in Nat /\ sweep.end \in Nat
    <3>1. sweep.last \in Nat /\ sweep.top \in Blocks \cup {0} /\ sweep.end \in Blocks \cup {0}
      BY <2>1
    <3>2. \A x \in Blocks \cup {0} : x \in Nat
      BY <2>2
    <3> QED
      BY <3>1, <3>2
  <2> QED
    BY <2>1, <2>2, <2>3 DEF BlockTypes, Processes
<1>a. ASSUME NEW p \in Processes, NEW b \in Blocks, NEW key \in Blocks \cup {0}, Start(p, b, key),
             rows' = rows, sweep' \in [phase : {"off", "range", "missing", "repair", "over"}, last : Nat,
                    end : Blocks \cup {0}, top : Blocks \cup {0}, todo : SUBSET Blocks]
      PROVE  BlockTypes'
  <2>1. /\ \A q \in Processes \ {p} : indexing'[q] = indexing[q]
        /\ indexing' \in [Processes -> Works]
        /\ indexing'[p] = [block |-> b, key |-> key, stage |-> [t \in Txns[b] |-> "receipt"], err |-> "none"]
    BY <1>0, <1>a, Starts
  <2>2. DOMAIN indexing'[p].stage = Txns[b] /\ indexing'[p].block = b
    BY <2>1
  <2> QED
    BY <1>0, <1>a, <2>1, <2>2 DEF BlockTypes, Busy
<1>b. ASSUME NEW p \in Processes, indexing' = [indexing EXCEPT ![p] = BlockIdle], sweep' = sweep,
             rows' \in [Blocks \cup {0} -> Blocks \cup {None}]
      PROVE  BlockTypes'
  <2>1. indexing' \in [Processes -> Works] /\ ~Busy(p)' /\ \A q \in Processes \ {p} : indexing'[q] = indexing[q]
    BY <1>0, <1>b, BlockIdleIs DEF Busy
  <2> QED
    BY <1>b, <2>1 DEF BlockTypes, Busy
<1>1. ASSUME NEW w \in BlockWorkers, NEW b \in Blocks, AddEvmBlock(w, b) PROVE BlockTypes'
  <2>1. rows' = rows /\ sweep' = sweep /\ (indexing' = indexing \/ Start(w, b, b))
    BY <1>1 DEF AddEvmBlock, blockVars, cmdVars
  <2>2. CASE indexing' = indexing
    BY <2>1, <2>2 DEF BlockTypes, Busy
  <2> QED
    BY <1>0, <1>a, <2>1, <2>2
<1>2. ASSUME NEW p \in Processes, NEW t \in Transactions, Pool(p, t) PROVE BlockTypes'
  BY <1>2, PoolTyped
<1>3. ASSUME NEW w \in BlockWorkers, FinishBlock(w) PROVE BlockTypes'
  <2>1. sweep' = sweep /\ indexing' = [indexing EXCEPT ![w] = BlockIdle] /\ Busy(w)
    BY <1>3 DEF FinishBlock, cmdVars, PoolDone
  <2>2. rows' = rows \/ WriteRow(indexing[w].block, indexing[w].key)
    BY <1>3 DEF FinishBlock, blockVars
  <2>3. rows' \in [Blocks \cup {0} -> Blocks \cup {None}]
    BY <1>0, <2>1, <2>2, WritesRow
  <2> QED
    BY <1>0, <1>b, <2>1, <2>3
<1>4. CASE ForgetMembers
  BY <1>4 DEF ForgetMembers, blockVars, cmdVars, BlockTypes, Busy
<1>5. CASE RestartBlock
  <2>1. /\ indexing' = [p \in Processes |-> IF p \in BlockWorkers THEN BlockIdle ELSE indexing[p]]
        /\ rows' = rows /\ sweep' = sweep
    BY <1>5 DEF RestartBlock, blockVars, cmdVars
  <2>2. indexing' \in [Processes -> Works]
    BY <1>0, <2>1, BlockIdleIs
  <2>3. \A p \in Processes : (indexing'[p] = indexing[p] \/ indexing'[p].block = None)
    BY <2>1, BlockIdleIs
  <2> QED
    BY <2>1, <2>2, <2>3 DEF BlockTypes, Busy
<1>6. CASE BeginValidate
  <2>1. HeadRow \in Blocks \cup {0}
    BY <1>0, HeadRowIn
  <2>2. /\ sweep' = [sweep EXCEPT !.phase = "range", !.top = HeadRow]
        /\ rows' = rows /\ indexing' = indexing
    BY <1>6 DEF BeginValidate, blockVars
  <2> QED
    BY <1>0, <2>1, <2>2 DEF BlockTypes, Busy
<1>7. CASE CheckRange
  <2> DEFINE todo == Missing(GetBlockNumsByRange(Low, High))
  <2>1. sweep.last + HoldOn < sweep.top
    BY <1>7 DEF CheckRange
  <2>2. High \in Nat /\ Low \in Nat /\ 1 <= Low /\ 1 <= High /\ High <= sweep.top
    BY <1>0, <2>1 DEF High, Low
  <2>3. \A n \in Low .. High : n \in Blocks
    <3> SUFFICES ASSUME NEW n \in Low .. High PROVE n \in Blocks
      OBVIOUS
    <3>1. n \in Nat /\ 1 <= n /\ n <= sweep.top
      BY <1>0, <2>2
    <3> QED
      BY <1>0, <3>1, NoGaps
  <2>4. High \in Blocks
    BY <1>0, <2>2, NoGaps
  <2>5. todo \in SUBSET Blocks
    <3>1. todo \subseteq Low .. High
      BY DEF Missing
    <3> QED
      BY <2>3, <3>1
  <2>6. /\ sweep' = [sweep EXCEPT !.phase = "missing", !.end = High, !.todo = todo]
        /\ rows' = rows /\ indexing' = indexing
    BY <1>7 DEF CheckRange, blockVars
  <2> HIDE DEF todo
  <2> QED
    BY <1>0, <2>4, <2>5, <2>6 DEF BlockTypes, Busy
<1>8. CASE FillBlock
  <2> DEFINE n == CHOOSE m \in sweep.todo : \A k \in sweep.todo : m <= k
  <2>1. sweep.todo \subseteq Nat /\ sweep.todo # {} /\ sweep.todo \subseteq Blocks
    BY <1>0, <1>8 DEF FillBlock
  <2>2. n \in Blocks
    BY <2>1, Lowest
  <2> HIDE DEF n
  <2>3. /\ sweep' = [sweep EXCEPT !.todo = sweep.todo \ {n}] /\ rows' = rows
        /\ indexing' = indexing \/ Start(Validator, n, FillKey)
    BY <1>8 DEF FillBlock, blockVars, n
  <2>4. sweep' \in [phase : {"off", "range", "missing", "repair", "over"}, last : Nat,
                    end : Blocks \cup {0}, top : Blocks \cup {0}, todo : SUBSET Blocks]
    BY <1>0, <2>1, <2>3
  <2>5. CASE indexing' = indexing
    BY <2>3, <2>4, <2>5 DEF BlockTypes, Busy
  <2>6. CASE Start(Validator, n, FillKey)
    BY <1>0, <1>a, <2>2, <2>3, <2>4, <2>6 DEF FillKey
  <2> QED
    BY <2>3, <2>5, <2>6
<1>9. CASE FinishFill
  <2>1. sweep' = sweep /\ indexing' = [indexing EXCEPT ![Validator] = BlockIdle] /\ Busy(Validator)
    BY <1>9 DEF FinishFill, cmdVars, PoolDone
  <2>2. rows' = rows \/ WriteRow(indexing[Validator].block, indexing[Validator].key)
    BY <1>9 DEF FinishFill, blockVars
  <2>3. rows' \in [Blocks \cup {0} -> Blocks \cup {None}]
    BY <1>0, <2>1, <2>2, WritesRow
  <2> QED
    BY <1>0, <1>b, <2>1, <2>3
<1>10. CASE Recount
  <2> DEFINE filled == GetBlockNumsByRange(Low, sweep.end)
  <2>1. \A n \in Low .. sweep.end : n \in Blocks
    <3> SUFFICES ASSUME NEW n \in Low .. sweep.end PROVE n \in Blocks
      OBVIOUS
    <3>1. n \in Nat /\ 1 <= n /\ n <= sweep.end
      BY <1>0 DEF Low
    <3> QED
      BY <1>0, <3>1, NoGaps
  <2>2. filled \in SUBSET Blocks
    BY <2>1 DEF GetBlockNumsByRange
  <2> HIDE DEF filled
  <2>3. /\ rows' = rows /\ indexing' = indexing
        /\ \/ sweep' = [sweep EXCEPT !.phase = "range", !.last = sweep.end]
           \/ sweep' = [sweep EXCEPT !.phase = "repair", !.todo = filled]
    BY <1>10 DEF Recount, NextRange, blockVars, filled
  <2> QED
    BY <1>0, <2>2, <2>3 DEF BlockTypes, Busy
<1>11. CASE EndRepair
  BY <1>0, <1>11 DEF EndRepair, NextRange, blockVars, BlockTypes, Busy
<1>12. CASE EndValidate
  BY <1>0, <1>12 DEF EndValidate, blockVars, BlockTypes, Busy
<1>13. CASE CountRows
  BY <1>13 DEF CountRows, blockVars, BlockTypes, Busy
<1>14. CASE RefreshMetadata
  BY <1>14 DEF RefreshMetadata, blockVars, BlockTypes, Busy
<1>15. CASE UNCHANGED evmBlockVars
  BY <1>15 DEF evmBlockVars, blockVars, cmdVars, BlockTypes, Busy
<1> QED
  BY <1>1, <1>2, <1>3, <1>4, <1>5, <1>6, <1>7, <1>8, <1>9, <1>10, <1>11, <1>12, <1>13, <1>14, <1>15
     DEF EvmBlocksNext, Validate

-----------------------------------------------------------------------------
(* No step takes back a receipt, a transaction, or the account of a row;   *)
(* and an address is in the set of those known only when it is tracked.    *)
Growing == receipts \subseteq receipts' /\ txns \subseteq txns' /\ Tracked \subseteq Tracked'

LEMMA AccountsStay == UNCHANGED accVars => UNCHANGED members /\ UNCHANGED Tracked
BY DEF accVars, Tracked

LEMMA InsertTracks ==
    ASSUME members \subseteq Tracked, members' = members, NEW p, NEW t, InsertClaimed(p, t)
    PROVE  Tracked \subseteq Tracked' /\ (members \subseteq Tracked)'
<1> DEFINE mine == {c[3] : c \in claims \ claims'}
<1>1. claims' \subseteq claims
  BY DEF InsertClaimed
<1>2. \/ accounts' = accounts \cup mine /\ unpaid' = unpaid
      \/ \E a \in mine : accounts' = accounts \cup (mine \ {a}) /\ unpaid' = unpaid \cup {a}
  BY DEF InsertClaimed
<1>3. accounts \cup unpaid \cup mine \subseteq accounts' \cup unpaid'
  <2> HIDE DEF mine
  <2> QED
    BY <1>2
<1>4. \A c \in claims : c[3] \in mine \/ c \in claims'
  OBVIOUS
<1>5. Tracked \subseteq Tracked'
  <2> HIDE DEF mine
  <2>1. {c[3] : c \in claims} \subseteq mine \cup {c[3] : c \in claims'}
    BY <1>4
  <2> QED
    BY <1>3, <2>1 DEF Tracked
<1> QED
  BY <1>5

LEMMA RestartGrows ==
    ASSUME members \subseteq Tracked, RestartBlock
    PROVE  Growing /\ (members \subseteq Tracked)'
<1>1. /\ receipts' = receipts /\ txns' = txns /\ members' = members /\ accounts' = accounts
      /\ unpaid' = unpaid \cup {c[3] : c \in claims \ claims'}
  BY DEF RestartBlock, txnVars
<1>2. \A c \in claims : c[3] \in {d[3] : d \in claims \ claims'} \/ c \in claims'
  OBVIOUS
<1>3. Tracked \subseteq Tracked'
  <2>1. {c[3] : c \in claims} \subseteq {c[3] : c \in claims \ claims'} \cup {c[3] : c \in claims'}
    BY <1>2
  <2> QED
    BY <1>1, <2>1 DEF Tracked
<1> QED
  BY <1>1, <1>3 DEF Growing

LEMMA ClaimTracks ==
    ASSUME members \subseteq Tracked, accounts' = accounts, NEW p, NEW t, NEW S, Claim(p, t, S)
    PROVE  Tracked \subseteq Tracked' /\ (members \subseteq Tracked)' /\ S \subseteq Tracked'
<1> DEFINE Got(R) == {<<p, t, a>> : a \in R}
<1>1. PICK L \in SUBSET S : /\ members' \subseteq members \cup S
                           /\ claims' = claims \cup Got(S \ (members \cup L))
                           /\ unpaid \cup L \subseteq unpaid'
  <2>1. CASE members' = members \cup S /\ claims' = claims \cup Got(S \ members) /\ unpaid' = unpaid
    <3>1. S \ (members \cup {}) = S \ members /\ {} \in SUBSET S
      OBVIOUS
    <3> QED
      BY <2>1, <3>1
  <2>2. CASE \E a \in S \ members : /\ members' \in {members \cup S, members \cup (S \ {a})}
                                   /\ claims' = claims \cup Got(S \ (members \cup {a}))
                                   /\ unpaid' = unpaid \cup {a}
    <3>1. PICK a \in S \ members : /\ members' \in {members \cup S, members \cup (S \ {a})}
                                   /\ claims' = claims \cup Got(S \ (members \cup {a}))
                                   /\ unpaid' = unpaid \cup {a}
      BY <2>2
    <3>2. {a} \in SUBSET S /\ members' \subseteq members \cup S
      BY <3>1
    <3> QED
      BY <3>1, <3>2
  <2> QED
    BY <2>1, <2>2 DEF Claim
<1>2. {c[3] : c \in claims} \subseteq {c[3] : c \in claims'}
  BY <1>1
<1>3. S \ (members \cup L) \subseteq {c[3] : c \in claims'}
  <2> SUFFICES ASSUME NEW a \in S \ (members \cup L) PROVE a \in {c[3] : c \in claims'}
    OBVIOUS
  <2>1. <<p, t, a>> \in claims' /\ <<p, t, a>>[3] = a
    BY <1>1
  <2> QED
    BY <2>1
<1>4. Tracked \subseteq Tracked'
  BY <1>1, <1>2 DEF Tracked
<1>5. S \subseteq Tracked'
  <2>1. L \subseteq Tracked'
    BY <1>1 DEF Tracked
  <2>2. S \ (members \cup L) \subseteq Tracked'
    BY <1>3 DEF Tracked
  <2> QED
    BY <1>4, <2>1, <2>2
<1> QED
  BY <1>1, <1>4, <1>5

(* The stages of a transaction that touch accounts.                        *)
LEMMA ReceiptGrows ==
    ASSUME members \subseteq Tracked, NEW p, NEW t, ReadReceipt(p, t)
    PROVE  /\ Growing /\ (members \subseteq Tracked)'
           /\ \/ GiveUp(p, t, "empty") \/ GiveUp(p, t, "other")
              \/ Advance(p, t, "creating") /\ ToOf[t] \in Tracked'
              \/ Advance(p, t, ToReceipts(t)) /\ (t \in Creates => ToOf[t] \in Tracked')
<1>1. receipts' = receipts /\ txns' = txns
  BY DEF ReadReceipt, txnVars
<1>2. CASE UNCHANGED accVars /\ (GiveUp(p, t, "empty") \/ GiveUp(p, t, "other"))
  BY <1>1, <1>2, AccountsStay DEF Growing
<1>3. CASE UNCHANGED accVars /\ t \notin Creates /\ Advance(p, t, ToReceipts(t))
  BY <1>1, <1>3, AccountsStay DEF Growing
<1>4. CASE Claim(p, t, {ToOf[t]}) /\ accounts' = accounts /\ Advance(p, t, "creating")
  BY <1>1, <1>4, ClaimTracks DEF Growing
<1>5. CASE /\ members' = members /\ claims' = claims /\ accounts' = accounts
           /\ unpaid' = unpaid \cup {ToOf[t]} /\ Advance(p, t, ToReceipts(t))
  BY <1>1, <1>5 DEF Growing, Tracked
<1> QED
  BY <1>2, <1>3, <1>4, <1>5 DEF ReadReceipt

LEMMA TouchContractGrows ==
    ASSUME members \subseteq Tracked, NEW p, NEW t, TouchContract(p, t)
    PROVE  Growing /\ (members \subseteq Tracked)'
BY InsertTracks DEF TouchContract, Growing, txnVars

LEMMA ClaimGrows ==
    ASSUME members \subseteq Tracked, NEW p, NEW t, ClaimAccounts(p, t)
    PROVE  Growing /\ (members \subseteq Tracked)' /\ Touched(t) \subseteq Tracked'
BY ClaimTracks DEF ClaimAccounts, Growing, txnVars

LEMMA TouchGrows ==
    ASSUME members \subseteq Tracked, NEW p, NEW t, TouchAccount(p, t)
    PROVE  Growing /\ (members \subseteq Tracked)'
BY InsertTracks DEF TouchAccount, Growing, txnVars

LEMMA EveryStepGrows ==
    ASSUME members \subseteq Tracked, [EvmBlocksNext]_evmBlockVars
    PROVE  Growing /\ (members \subseteq Tracked)'
<1>a. ASSUME UNCHANGED accVars, receipts \subseteq receipts', txns \subseteq txns'
      PROVE  Growing /\ (members \subseteq Tracked)'
  BY <1>a, AccountsStay DEF Growing
<1>1. ASSUME NEW w \in BlockWorkers, NEW b \in Blocks, AddEvmBlock(w, b) PROVE Growing /\ (members \subseteq Tracked)'
  BY <1>1, <1>a DEF AddEvmBlock, txnVars
<1>2. ASSUME NEW p \in Processes, NEW t \in Transactions, Pool(p, t) PROVE Growing /\ (members \subseteq Tracked)'
  <2>1. CASE ReadReceipt(p, t)
    BY <2>1, ReceiptGrows
  <2>7. CASE TouchContract(p, t)
    BY <2>7, TouchContractGrows
  <2>8. CASE NewContract(p, t)
    BY <2>8, <1>a DEF NewContract
  <2>2. CASE StoreReceipts(p, t)
    BY <2>2, <1>a DEF StoreReceipts
  <2>3. CASE StoreTransaction(p, t)
    BY <2>3, <1>a DEF StoreTransaction
  <2>4. CASE CommitTransaction(p, t)
    BY <2>4, <1>a DEF CommitTransaction
  <2>5. CASE ClaimAccounts(p, t)
    BY <2>5, ClaimGrows
  <2>6. CASE TouchAccount(p, t)
    BY <2>6, TouchGrows
  <2> QED
    BY <1>2, <2>1, <2>2, <2>3, <2>4, <2>5, <2>6, <2>7, <2>8 DEF Pool
<1>3. ASSUME NEW w \in BlockWorkers, FinishBlock(w) PROVE Growing /\ (members \subseteq Tracked)'
  BY <1>3, <1>a DEF FinishBlock, txnVars
<1>4. CASE ForgetMembers
  BY <1>4 DEF ForgetMembers, txnVars, Growing, Tracked
<1>5. CASE RestartBlock
  BY <1>5, RestartGrows
<1>6. CASE Validate
  BY <1>6, <1>a DEF Validate, BeginValidate, CheckRange, FillBlock, FinishFill, Recount, EndRepair, EndValidate, txnVars
<1>7. CASE CountRows \/ RefreshMetadata
  BY <1>7, <1>a DEF CountRows, RefreshMetadata, txnVars
<1>8. CASE UNCHANGED evmBlockVars
  BY <1>8, <1>a DEF evmBlockVars, txnVars
<1> QED
  BY <1>1, <1>2, <1>3, <1>4, <1>5, <1>6, <1>7, <1>8 DEF EvmBlocksNext

-----------------------------------------------------------------------------
(* What a stage says stays true of a process that does not move, of one    *)
(* that has failed, and of one that goes on when the stage it enters is    *)
(* true of the transaction.                                                *)
LEMMA KeptStays ==
    ASSUME Growing, NEW q, Kept(q), indexing'[q] = indexing[q]
    PROVE  Kept(q)'
BY DEF Growing, Kept, LogsIn, Parties, Anonymous, Kind

Staged(t, s) ==
    /\ s # "receipt" /\ t \in Creates => ToOf[t] \in Tracked
    /\ s \in {"transaction", "commit", "accounts", "insert", "done"} => LogsIn(t) \subseteq receipts
    /\ s \in {"accounts", "insert", "done"} => t \in txns
    /\ s \in {"insert", "done"} => Parties(t) \subseteq Tracked

LEMMA KeptIs ==
    ASSUME NEW q
    PROVE  Kept(q) <=> \A t \in DOMAIN indexing[q].stage :
                          indexing[q].err = "none" /\ ~Anonymous(t) => Staged(t, indexing[q].stage[t])
BY DEF Kept, Staged

LEMMA StagedStays ==
    ASSUME Growing, NEW t, NEW s, Staged(t, s)
    PROVE  Staged(t, s)'
BY DEF Growing, Staged, LogsIn, Parties

LEMMA KeptAdvances ==
    ASSUME indexing \in [Processes -> Works], Growing, NEW p \in Processes, Kept(p),
           NEW t \in DOMAIN indexing[p].stage, NEW s \in Stages, Advance(p, t, s),
           indexing[p].err = "none" /\ ~Anonymous(t) => Staged(t, s)'
    PROVE  Kept(p)'
<1>1. /\ indexing'[p].err = indexing[p].err
      /\ indexing'[p].stage = [indexing[p].stage EXCEPT ![t] = s]
  BY Advances
<1>2. ASSUME NEW u \in DOMAIN indexing[p].stage, indexing[p].err = "none", ~Anonymous(u),
             NEW v, v = indexing'[p].stage[u]
      PROVE  Staged(u, v)'
  <2>1. CASE u = t
    BY <1>1, <1>2, <2>1
  <2>2. CASE u # t
    <3>1. v = indexing[p].stage[u]
      BY <1>1, <1>2, <2>2
    <3>2. Staged(u, v)
      BY <1>2, <3>1, KeptIs
    <3> QED
      BY <3>2, StagedStays
  <2> QED
    BY <2>1, <2>2
<1>3. DOMAIN indexing'[p].stage = DOMAIN indexing[p].stage
  BY <1>1
<1>4. \A u : Anonymous(u)' <=> Anonymous(u)
  BY DEF Anonymous, LogsIn, Kind
<1>5. ASSUME NEW u \in DOMAIN indexing[p].stage, indexing[p].err = "none", ~Anonymous(u)
      PROVE  /\ indexing'[p].stage[u] # "receipt" /\ u \in Creates => ToOf[u] \in Tracked'
             /\ indexing'[p].stage[u] \in {"transaction", "commit", "accounts", "insert", "done"} =>
                   LogsIn(u) \subseteq receipts'
             /\ indexing'[p].stage[u] \in {"accounts", "insert", "done"} => u \in txns'
             /\ indexing'[p].stage[u] \in {"insert", "done"} => Parties(u) \subseteq Tracked'
  BY <1>2, <1>5 DEF Staged, LogsIn, Parties
<1> QED
  BY <1>1, <1>3, <1>4, <1>5 DEF Kept, LogsIn, Parties

LEMMA KeptFails ==
    ASSUME indexing \in [Processes -> Works], NEW p \in Processes, NEW t \in DOMAIN indexing[p].stage,
           NEW e \in {"empty", "other"}, GiveUp(p, t, e)
    PROVE  Kept(p)'
<1>1. indexing'[p].err = e
  BY GivesUp
<1> QED
  BY <1>1 DEF Kept

LEMMA PoolKeeps ==
    ASSUME indexing \in [Processes -> Works], Growing, NEW p \in Processes, NEW t, Pool(p, t), Kept(p),
           members \subseteq Tracked
    PROVE  Kept(p)'
<1>1. t \in DOMAIN indexing[p].stage
  BY PoolMoves
<1>2. ASSUME NEW e \in {"empty", "other"}, GiveUp(p, t, e) PROVE Kept(p)'
  BY <1>1, <1>2, KeptFails
<1>3. ASSUME NEW s \in Stages, Advance(p, t, s), indexing[p].err = "none" /\ ~Anonymous(t) => Staged(t, s)'
      PROVE  Kept(p)'
  BY <1>1, <1>3, KeptAdvances
<1>4. ASSUME indexing[p].err = "none", ~Anonymous(t) PROVE Staged(t, indexing[p].stage[t])
  BY <1>1, <1>4, KeptIs
<1>5. ASSUME Advance(p, t, ToReceipts(t)), t \in Creates => ToOf[t] \in Tracked' PROVE Kept(p)'
  <2>1. CASE Anonymous(t)
    BY <1>3, <1>5, <2>1 DEF Stages, ToReceipts
  <2>2. CASE ~Anonymous(t)
    <3>1. Staged(t, "receipts")'
      BY <1>5 DEF Staged
    <3> QED
      BY <1>3, <1>5, <2>2, <3>1 DEF Stages, ToReceipts
  <2> QED
    BY <2>1, <2>2
<1>11. CASE ReadReceipt(p, t)
  <2>1. CASE GiveUp(p, t, "empty") \/ GiveUp(p, t, "other")
    BY <1>2, <2>1
  <2>2. CASE Advance(p, t, "creating") /\ ToOf[t] \in Tracked'
    <3>1. Staged(t, "creating")'
      BY <2>2 DEF Staged
    <3> QED
      BY <1>3, <2>2, <3>1 DEF Stages
  <2> QED
    BY <1>5, <1>11, <2>1, <2>2, ReceiptGrows
<1>12. CASE TouchContract(p, t)
  <2>1. Advance(p, t, "contract") /\ indexing[p].stage[t] = "creating"
    BY <1>12 DEF TouchContract, BlockAt
  <2>2. ASSUME indexing[p].err = "none", ~Anonymous(t) PROVE Staged(t, "contract")'
    <3>1. Staged(t, "contract")
      BY <1>4, <2>1, <2>2 DEF Staged
    <3> QED
      BY <3>1, StagedStays
  <2> QED
    BY <1>3, <2>1, <2>2 DEF Stages
<1>13. CASE NewContract(p, t)
  <2>1. Advance(p, t, ToReceipts(t)) /\ indexing[p].stage[t] = "contract"
    BY <1>13 DEF NewContract, BlockAt
  <2>2. ASSUME indexing[p].err = "none", ~Anonymous(t) PROVE Staged(t, "receipts")'
    <3>1. Staged(t, "receipts")
      BY <1>4, <2>1, <2>2 DEF Staged
    <3> QED
      BY <3>1, StagedStays
  <2>3. CASE Anonymous(t)
    BY <1>3, <2>1, <2>3 DEF Stages, ToReceipts
  <2>4. CASE ~Anonymous(t)
    BY <1>3, <2>1, <2>2, <2>4 DEF Stages, ToReceipts
  <2> QED
    BY <2>3, <2>4
<1>6. CASE StoreReceipts(p, t)
  <2>1. CASE GiveUp(p, t, "other")
    BY <1>2, <2>1
  <2>2. CASE receipts' = receipts \cup LogsIn(t) /\ Advance(p, t, "transaction")
    <3>1. indexing[p].stage[t] = "receipts"
      BY <1>6 DEF StoreReceipts, BlockAt
    <3>2. ASSUME indexing[p].err = "none", ~Anonymous(t) PROVE Staged(t, "transaction")'
      <4>1. Staged(t, "receipts")'
        BY <1>4, <3>1, <3>2, StagedStays
      <4> QED
        BY <2>2, <4>1 DEF Staged, LogsIn
    <3> QED
      BY <1>3, <2>2, <3>2 DEF Stages
  <2> QED
    BY <1>6, <2>1, <2>2 DEF StoreReceipts
<1>7. CASE StoreTransaction(p, t)
  <2>1. CASE GiveUp(p, t, "other")
    BY <1>2, <2>1
  <2>2. CASE Advance(p, t, "commit")
    <3>1. indexing[p].stage[t] = "transaction"
      BY <1>7 DEF StoreTransaction, BlockAt
    <3>2. ASSUME indexing[p].err = "none", ~Anonymous(t) PROVE Staged(t, "commit")'
      <4>1. Staged(t, "commit")
        BY <1>4, <3>1, <3>2 DEF Staged
      <4> QED
        BY <4>1, StagedStays
    <3> QED
      BY <1>3, <2>2, <3>2 DEF Stages
  <2> QED
    BY <1>7, <2>1, <2>2 DEF StoreTransaction
<1>8. CASE CommitTransaction(p, t)
  <2>1. CASE GiveUp(p, t, "other")
    BY <1>2, <2>1
  <2>2. CASE txns' = txns \cup {t} /\ Advance(p, t, "accounts")
    <3>1. indexing[p].stage[t] = "commit"
      BY <1>8 DEF CommitTransaction, BlockAt
    <3>2. ASSUME indexing[p].err = "none", ~Anonymous(t) PROVE Staged(t, "accounts")'
      <4>1. Staged(t, "commit")
        BY <1>4, <3>1, <3>2
      <4>2. Staged(t, "commit")'
        BY <4>1, StagedStays
      <4> QED
        BY <2>2, <4>2 DEF Staged
    <3> QED
      BY <1>3, <2>2, <3>2 DEF Stages
  <2> QED
    BY <1>8, <2>1, <2>2 DEF CommitTransaction
<1>9. CASE ClaimAccounts(p, t)
  <2>1. Advance(p, t, "insert") /\ indexing[p].stage[t] = "accounts"
    BY <1>9 DEF ClaimAccounts, BlockAt
  <2>2. ASSUME indexing[p].err = "none", ~Anonymous(t) PROVE Staged(t, "insert")'
    <3>1. Staged(t, "accounts")'
      BY <1>4, <2>1, <2>2, StagedStays
    <3>2. Touched(t) \subseteq Tracked'
      BY <1>9, ClaimGrows
    <3>3. t \in Creates => ToOf[t] \in Tracked'
      BY <3>1 DEF Staged
    <3>4. Parties(t) \subseteq Tracked'
      BY <3>2, <3>3 DEF Parties, Touched, Called
    <3> QED
      BY <3>1, <3>4 DEF Staged, Parties
  <2> QED
    BY <1>3, <2>1, <2>2 DEF Stages
<1>10. CASE TouchAccount(p, t)
  <2>1. Advance(p, t, "done") /\ indexing[p].stage[t] = "insert"
    BY <1>10 DEF TouchAccount, BlockAt
  <2>2. ASSUME indexing[p].err = "none", ~Anonymous(t) PROVE Staged(t, "done")'
    <3>1. Staged(t, "done")
      BY <1>4, <2>1, <2>2 DEF Staged
    <3> QED
      BY <3>1, StagedStays
  <2> QED
    BY <1>3, <2>1, <2>2 DEF Stages
<1> QED
  BY <1>6, <1>7, <1>8, <1>9, <1>10, <1>11, <1>12, <1>13 DEF Pool

(* A process that begins a block, and one that rests, keep what they say.  *)
LEMMA KeptBegins ==
    ASSUME indexing \in [Processes -> Works], NEW p \in Processes, NEW b \in Blocks, NEW key \in Blocks \cup {0},
           Start(p, b, key)
    PROVE  Kept(p)'
<1>1. indexing'[p] = [block |-> b, key |-> key, stage |-> [t \in Txns[b] |-> "receipt"], err |-> "none"]
  BY Starts
<1>2. \A t \in DOMAIN indexing'[p].stage : indexing'[p].stage[t] = "receipt"
  BY <1>1
<1> QED
  BY <1>2 DEF Kept

LEMMA KeptRests ==
    ASSUME NEW p, indexing'[p] = BlockIdle
    PROVE  Kept(p)'
<1>1. DOMAIN indexing'[p].stage = {}
  BY BlockIdleIs
<1> QED
  BY <1>1 DEF Kept

LEMMA KeptStep ==
    ASSUME BlocksInv, [EvmBlocksNext]_evmBlockVars, Growing
    PROVE  \A q \in Processes : Kept(q)'
<1>0. /\ indexing \in [Processes -> Works] /\ \A q \in Processes : Kept(q)
      /\ members \subseteq Tracked /\ BlockTypes
      /\ Validator \in Processes /\ BlockWorkers \subseteq Processes
  BY DEF BlocksInv, BlockTypes, Processes
<1>a. ASSUME NEW p \in Processes, \A q \in Processes \ {p} : indexing'[q] = indexing[q], Kept(p)'
      PROVE  \A q \in Processes : Kept(q)'
  <2>1. \A q \in Processes \ {p} : Kept(q)'
    BY <1>0, <1>a, KeptStays
  <2> QED
    BY <1>a, <2>1
<1>b. ASSUME indexing' = indexing PROVE \A q \in Processes : Kept(q)'
  BY <1>0, <1>b, KeptStays
<1>c. ASSUME NEW p \in Processes, NEW b \in Blocks, NEW key \in Blocks \cup {0}, Start(p, b, key)
      PROVE  \A q \in Processes : Kept(q)'
  <2>1. \A q \in Processes \ {p} : indexing'[q] = indexing[q]
    BY <1>0, <1>c, Starts
  <2>2. Kept(p)'
    BY <1>0, <1>c, KeptBegins
  <2> QED
    BY <1>a, <2>1, <2>2
<1>d. ASSUME NEW p \in Processes, indexing' = [indexing EXCEPT ![p] = BlockIdle]
      PROVE  \A q \in Processes : Kept(q)'
  <2>1. indexing'[p] = BlockIdle /\ \A q \in Processes \ {p} : indexing'[q] = indexing[q]
    BY <1>0, <1>d
  <2>2. Kept(p)'
    BY <2>1, KeptRests
  <2> QED
    BY <1>a, <2>1, <2>2
<1>1. ASSUME NEW w \in BlockWorkers, NEW b \in Blocks, AddEvmBlock(w, b) PROVE \A q \in Processes : Kept(q)'
  <2>1. indexing' = indexing \/ Start(w, b, b)
    BY <1>1 DEF AddEvmBlock
  <2> QED
    BY <1>0, <1>b, <1>c, <2>1
<1>2. ASSUME NEW p \in Processes, NEW t \in Transactions, Pool(p, t) PROVE \A q \in Processes : Kept(q)'
  <2>1. Kept(p)'
    BY <1>0, <1>2, PoolKeeps
  <2>2. /\ t \in DOMAIN indexing[p].stage
        /\ (\E s \in Stages : Advance(p, t, s)) \/ (\E e \in {"empty", "other"} : GiveUp(p, t, e))
    BY <1>2, PoolMoves
  <2>3. ASSUME NEW s \in Stages, Advance(p, t, s) PROVE \A q \in Processes \ {p} : indexing'[q] = indexing[q]
    BY <1>0, <2>2, <2>3, Advances
  <2>4. ASSUME NEW e \in {"empty", "other"}, GiveUp(p, t, e) PROVE \A q \in Processes \ {p} : indexing'[q] = indexing[q]
    <3>1. t \in DOMAIN indexing[p].stage /\ indexing \in [Processes -> Works]
      BY <1>0, <2>2
    <3>2. /\ \A q \in Processes \ {p} : indexing'[q] = indexing[q]
          /\ indexing' \in [Processes -> Works]
      BY ZenonT(60), <2>4, <3>1, GivesUp
    <3> QED
      BY <3>2
  <2>5. \A q \in Processes \ {p} : indexing'[q] = indexing[q]
    BY <2>2, <2>3, <2>4
  <2> QED
    BY <1>a, <2>1, <2>5
<1>3. ASSUME NEW w \in BlockWorkers, FinishBlock(w) PROVE \A q \in Processes : Kept(q)'
  <2>1. indexing' = [indexing EXCEPT ![w] = BlockIdle]
    BY <1>3 DEF FinishBlock
  <2> QED
    BY <1>0, <1>d, <2>1
<1>4. CASE ForgetMembers
  BY <1>4, <1>b DEF ForgetMembers
<1>5. CASE RestartBlock
  <2>1. \A q \in Processes : indexing'[q] = BlockIdle \/ indexing'[q] = indexing[q]
    BY <1>5 DEF RestartBlock
  <2> QED
    BY <1>0, <2>1, KeptStays, KeptRests
<1>6. CASE FillBlock
  <2> DEFINE n == CHOOSE m \in sweep.todo : \A k \in sweep.todo : m <= k
  <2>1. sweep.todo \subseteq Nat /\ sweep.todo # {} /\ sweep.todo \subseteq Blocks
    <3>1. sweep.todo \in SUBSET Blocks
      BY <1>0 DEF BlockTypes
    <3> QED
      BY <1>6, <3>1, EvmAssumption DEF FillBlock
  <2>2. n \in Blocks
    BY <2>1, Lowest
  <2> HIDE DEF n
  <2>3. indexing' = indexing \/ Start(Validator, n, FillKey)
    BY <1>6 DEF FillBlock, n
  <2> QED
    BY <1>0, <1>b, <1>c, <2>2, <2>3 DEF FillKey
<1>7. CASE FinishFill
  <2>1. indexing' = [indexing EXCEPT ![Validator] = BlockIdle]
    BY <1>7 DEF FinishFill
  <2> QED
    BY <1>0, <1>d, <2>1
<1>8. CASE BeginValidate \/ CheckRange \/ Recount \/ EndRepair \/ EndValidate
  BY <1>8, <1>b DEF BeginValidate, CheckRange, Recount, EndRepair, EndValidate
<1>9. CASE CountRows \/ RefreshMetadata
  BY <1>9, <1>b DEF CountRows, RefreshMetadata
<1>10. CASE UNCHANGED evmBlockVars
  BY <1>10, <1>b DEF evmBlockVars
<1> QED
  BY <1>1, <1>2, <1>3, <1>4, <1>5, <1>6, <1>7, <1>8, <1>9, <1>10 DEF EvmBlocksNext, Validate

-----------------------------------------------------------------------------
(* The rows.  What a row's block needs is there when the row is written,   *)
(* and stays.                                                              *)
Covered(b) ==
    \A t \in Txns[b] : Anonymous(t) \/ (t \in txns /\ LogsIn(t) \subseteq receipts /\ Parties(t) \subseteq Tracked)

LEMMA RowsCovered == BlockRowCovers <=> \A n \in DOMAIN rows : HasRow(n) => Covered(rows[n])
BY DEF BlockRowCovers, BlockComplete, AccountsTracked, Covered, Tracked

LEMMA CoveredStays ==
    ASSUME Growing, NEW b, Covered(b)
    PROVE  Covered(b)'
<1>1. \A t : Anonymous(t)' <=> Anonymous(t)
  BY DEF Anonymous, LogsIn, Kind
<1> QED
  BY <1>1 DEF Growing, Covered, LogsIn, Parties

LEMMA DoneCovers ==
    ASSUME BlockTypes, NEW p \in Processes, Kept(p), PoolDone(p), indexing[p].err = "none"
    PROVE  Covered(indexing[p].block)
<1>1. DOMAIN indexing[p].stage = Txns[indexing[p].block]
  BY DEF BlockTypes, PoolDone
<1>2. \A t \in Txns[indexing[p].block] : indexing[p].stage[t] = "done"
  BY <1>1 DEF PoolDone
<1> QED
  BY <1>1, <1>2 DEF Covered, Kept

LEMMA RowsAre ==
    ASSUME BlocksInv, [EvmBlocksNext]_evmBlockVars
    PROVE  /\ DOMAIN rows' = DOMAIN rows
           /\ \A n \in DOMAIN rows : rows'[n] = rows[n] \/ Covered(rows'[n])
<1>0. /\ BlockTypes /\ \A q \in Processes : Kept(q)
      /\ Validator \in Processes /\ BlockWorkers \subseteq Processes
  BY DEF BlocksInv, Processes
<1>a. ASSUME NEW p \in Processes, PoolDone(p), indexing[p].err = "none", WriteRow(indexing[p].block, indexing[p].key)
      PROVE  /\ DOMAIN rows' = DOMAIN rows
             /\ \A n \in DOMAIN rows : rows'[n] = rows[n] \/ Covered(rows'[n])
  <2>1. Covered(indexing[p].block)
    BY <1>0, <1>a, DoneCovers
  <2>2. DOMAIN rows' = DOMAIN rows /\ \A n \in DOMAIN rows : rows'[n] \in {rows[n], indexing[p].block}
    BY <1>0, <1>a, WritesRow DEF PoolDone
  <2> QED
    BY <2>1, <2>2
<1>1. ASSUME NEW w \in BlockWorkers, FinishBlock(w), rows' # rows
      PROVE  /\ DOMAIN rows' = DOMAIN rows
             /\ \A n \in DOMAIN rows : rows'[n] = rows[n] \/ Covered(rows'[n])
  <2>1. PoolDone(w) /\ indexing[w].err = "none" /\ WriteRow(indexing[w].block, indexing[w].key)
    BY <1>1 DEF FinishBlock, blockVars
  <2> QED
    BY <1>0, <1>a, <2>1
<1>2. CASE FinishFill /\ rows' # rows
  <2>1. PoolDone(Validator) /\ indexing[Validator].err = "none"
        /\ WriteRow(indexing[Validator].block, indexing[Validator].key)
    BY <1>2 DEF FinishFill, blockVars
  <2> QED
    BY <1>0, <1>a, <2>1
<1>3. ASSUME NEW p \in Processes, NEW t \in Transactions, Pool(p, t) PROVE rows' = rows
  BY <1>3, PoolMoves
<1>4. ASSUME rows' # rows PROVE FinishFill \/ \E w \in BlockWorkers : FinishBlock(w)
  BY <1>3, <1>4 DEF EvmBlocksNext, Validate, AddEvmBlock, ForgetMembers, RestartBlock, BeginValidate, CheckRange,
     FillBlock, Recount, EndRepair, EndValidate, CountRows, RefreshMetadata, blockVars, evmBlockVars
<1> QED
  BY <1>1, <1>2, <1>4

LEMMA BlocksStep == BlocksInv /\ [EvmBlocksNext]_evmBlockVars => BlocksInv'
<1> SUFFICES ASSUME BlocksInv, [EvmBlocksNext]_evmBlockVars PROVE BlocksInv'
  OBVIOUS
<1>1. BlockTypes /\ members \subseteq Tracked /\ BlockRowCovers
  BY DEF BlocksInv, BlockRowCovers
<1>2. Growing /\ (members \subseteq Tracked)'
  BY <1>1, EveryStepGrows
<1>3. BlockTypes'
  BY <1>1, BlockTypesStep
<1>4. \A q \in Processes : Kept(q)'
  BY <1>2, KeptStep
<1>5. BlockRowCovers'
  <2>1. /\ DOMAIN rows' = DOMAIN rows
        /\ \A n \in DOMAIN rows : rows'[n] = rows[n] \/ Covered(rows'[n])
    BY RowsAre
  <2>2. \A n \in DOMAIN rows : HasRow(n) => Covered(rows[n])
    BY <1>1, RowsCovered
  <2>3. ASSUME NEW n \in DOMAIN rows, NEW b, b = rows'[n], b # None PROVE Covered(b)'
    <3>1. Covered(b)
      BY <2>1, <2>2, <2>3 DEF HasRow
    <3> QED
      BY <1>2, <3>1, CoveredStays
  <2>4. \A n \in DOMAIN rows' : rows'[n] # None =>
           \A t \in Txns[rows'[n]] :
              Anonymous(t)' \/ (t \in txns' /\ LogsIn(t)' \subseteq receipts' /\ Parties(t)' \subseteq Tracked')
    BY <2>1, <2>3 DEF Covered
  <2> QED
    BY <2>4 DEF BlockRowCovers, BlockComplete, AccountsTracked, Tracked, HasRow
<1> QED
  BY <1>2, <1>3, <1>4, <1>5 DEF BlocksInv, BlockRowCovers

LEMMA BlocksStart == EvmBlocksInit => BlocksInv
<1> SUFFICES ASSUME EvmBlocksInit PROVE BlocksInv
  OBVIOUS
<1>1. /\ indexing = [p \in Processes |-> BlockIdle] /\ rows = [n \in Blocks \cup {0} |-> None]
      /\ sweep = [phase |-> "off", last |-> 0, end |-> 0, top |-> 0, todo |-> {}] /\ members = {}
  BY DEF EvmBlocksInit
<1>2. BlockTypes
  BY <1>1, BlockIdleIs DEF BlockTypes, Busy
<1>3. \A p \in Processes : Kept(p)
  BY <1>1, BlockIdleIs DEF Kept
<1>4. BlockComplete /\ AccountsTracked
  BY <1>1 DEF BlockComplete, AccountsTracked, HasRow
<1> QED
  BY <1>1, <1>2, <1>3, <1>4 DEF BlocksInv

(* Whatever fails, is retried, runs twice at once or dies on the way, a    *)
(* block that has a row in evm_blocks has its transactions and their       *)
(* receipts, and the accounts it names but for those that a failing SADD,  *)
(* a failing insert or a crash has lost (processBlock writes the row last, *)
(* and only when no goroutine of its pool has failed).                     *)
THEOREM BlockRowIsCovered == EvmBlocksSpec => []BlockRowCovers
<1>1. BlocksInv => BlockRowCovers
  BY DEF BlocksInv, BlockRowCovers
<1> QED
  BY BlocksStart, BlocksStep, <1>1, PTL DEF EvmBlocksSpec

-----------------------------------------------------------------------------
(* The transaction counter.  With the increments that were refused it is   *)
(* ahead of the rows by the transactions that are counted and not          *)
(* committed.  A count of the rows is exact as long as nothing is between  *)
(* the two, which raced remembers.                                         *)
InCommitOf(q) == {t \in DOMAIN indexing[q].stage : indexing[q].stage[t] = "commit"}
Committing == {c \in Processes \X Transactions : c[2] \in InCommitOf(c[1])}

CounterInv ==
    /\ BlockTypes
    /\ txns \subseteq Transactions /\ totalTransaction \in Nat /\ refused \in Nat
    /\ refresh \in Seq(Nat) /\ Len(refresh) <= 2
    /\ ~raced => Cardinality(txns) + Cardinality(Committing) <= totalTransaction + refused
    /\ ~raced /\ Len(refresh) = 1 => Committing = {} /\ refresh[1] = Cardinality(txns)

LEMMA FiniteChain == IsFiniteSet(Transactions) /\ IsFiniteSet(Processes \X Transactions)
<1> DEFINE S == {Txns[b] : b \in Blocks}
<1>1. IsFiniteSet(Blocks) /\ IsFiniteSet(BlockWorkers) /\ \A b \in Blocks : IsFiniteSet(Txns[b])
  BY EvmAssumption
<1>2. IsFiniteSet(S)
  <2> DEFINE f == [b \in Blocks |-> Txns[b]]
  <2>1. f \in Surjection(Blocks, S)
    BY DEF Surjection
  <2> QED
    BY <1>1, <2>1, FS_Surjection
<1>3. IsFiniteSet(UNION S)
  BY <1>1, <1>2, FS_UNION
<1>4. IsFiniteSet(Processes)
  BY <1>1, FS_AddElement DEF Processes
<1> QED
  BY <1>3, <1>4, FS_Product DEF Transactions

LEMMA CounterFinite ==
    ASSUME CounterInv
    PROVE  /\ IsFiniteSet(txns) /\ IsFiniteSet(Committing)
           /\ Cardinality(txns) \in Nat /\ Cardinality(Committing) \in Nat
<1>1. IsFiniteSet(txns)
  BY FiniteChain, FS_Subset DEF CounterInv
<1>2. IsFiniteSet(Committing)
  BY FiniteChain, FS_Subset DEF Committing
<1> QED
  BY <1>1, <1>2, FS_CardinalityType

LEMMA CommitsAre ==
    ASSUME indexing \in [Processes -> Works], NEW p \in Processes, NEW t \in Transactions,
           NEW s, t \in DOMAIN indexing[p].stage,
           \A q \in Processes \ {p} : indexing'[q] = indexing[q],
           indexing'[p].stage = [indexing[p].stage EXCEPT ![t] = s]
    PROVE  Committing' = IF s = "commit" THEN Committing \cup {<<p, t>>} ELSE Committing \ {<<p, t>>}
<1>1. \A q \in Processes \ {p} : InCommitOf(q)' = InCommitOf(q)
  BY DEF InCommitOf
<1>2. InCommitOf(p)' = IF s = "commit" THEN InCommitOf(p) \cup {t} ELSE InCommitOf(p) \ {t}
  BY DEF InCommitOf
<1>3. \A q, u : <<q, u>> \in Committing' <=> q \in Processes /\ u \in Transactions /\ u \in InCommitOf(q)'
  BY DEF Committing
<1>4. \A q, u : <<q, u>> \in Committing <=> q \in Processes /\ u \in Transactions /\ u \in InCommitOf(q)
  BY DEF Committing
<1>5. ASSUME NEW q \in Processes, NEW u \in Transactions
      PROVE  <<q, u>> \in Committing' <=> <<q, u>> \in IF s = "commit" THEN Committing \cup {<<p, t>>}
                                                                   ELSE Committing \ {<<p, t>>}
  <2>1. CASE q = p
    BY <1>2, <1>3, <1>4, <2>1
  <2>2. CASE q # p
    BY <1>1, <1>3, <1>4, <2>2
  <2> QED
    BY <2>1, <2>2
<1>6. /\ Committing' \subseteq Processes \X Transactions /\ Committing \subseteq Processes \X Transactions
      /\ <<p, t>> \in Processes \X Transactions
  BY DEF Committing
<1>7. ASSUME NEW c \in Processes \X Transactions
      PROVE  c \in Committing' <=> c \in IF s = "commit" THEN Committing \cup {<<p, t>>} ELSE Committing \ {<<p, t>>}
  <2>1. c = <<c[1], c[2]>> /\ c[1] \in Processes /\ c[2] \in Transactions
    OBVIOUS
  <2> QED
    BY <1>5, <2>1
<1> QED
  BY <1>6, <1>7

LEMMA CommitsFall ==
    ASSUME \A q \in Processes : indexing'[q] = indexing[q] \/ InCommitOf(q)' = {}
    PROVE  Committing' \subseteq Committing
<1>1. \A q \in Processes : InCommitOf(q)' \subseteq InCommitOf(q)
  BY DEF InCommitOf
<1> QED
  BY <1>1 DEF Committing

LEMMA CounterStays ==
    ASSUME CounterInv, BlockTypes', Committing' \subseteq Committing,
           txns' = txns, UNCHANGED countVars, refresh' = refresh, raced' = raced
    PROVE  CounterInv'
<1>1. Cardinality(Committing') <= Cardinality(Committing) /\ Cardinality(Committing') \in Nat
  BY CounterFinite, FS_Subset, FS_CardinalityType
<1>2. Cardinality(txns) \in Nat /\ Cardinality(Committing) \in Nat
  BY CounterFinite
<1>0. totalTransaction' = totalTransaction /\ refused' = refused
  BY DEF countVars
<1>3. /\ txns \subseteq Transactions /\ totalTransaction \in Nat /\ refused \in Nat /\ refresh \in Seq(Nat) /\ Len(refresh) <= 2
      /\ ~raced => Cardinality(txns) + Cardinality(Committing) <= totalTransaction + refused
      /\ ~raced /\ Len(refresh) = 1 => Committing = {} /\ refresh[1] = Cardinality(txns)
  BY DEF CounterInv
<1>4. ~raced => Cardinality(txns) + Cardinality(Committing') <= totalTransaction + refused
  BY <1>1, <1>2, <1>3
<1>5. /\ (txns \subseteq Transactions)' /\ (totalTransaction \in Nat)' /\ (refused \in Nat)'
      /\ (refresh \in Seq(Nat))' /\ (Len(refresh) <= 2)'
  BY <1>0, <1>3
<1>6. (~raced => Cardinality(txns) + Cardinality(Committing) <= totalTransaction + refused)'
  BY <1>0, <1>4
<1>7. (~raced /\ Len(refresh) = 1 => Committing = {} /\ refresh[1] = Cardinality(txns))'
  BY <1>3
<1> QED
  BY <1>5, <1>6, <1>7 DEF CounterInv

(* A transaction is counted ...                                            *)
LEMMA StoreCounts ==
    ASSUME CounterInv, BlockTypes', NEW c, Committing' = Committing \cup {c},
           txns' = txns, refresh' = refresh,
           \/ totalTransaction' = totalTransaction + 1 /\ refused' = refused
           \/ totalTransaction' = totalTransaction /\ refused' = refused + 1,
           raced' = (raced \/ Len(refresh) = 1)
    PROVE  CounterInv'
<1>1. Cardinality(Committing') <= Cardinality(Committing) + 1 /\ Cardinality(Committing') \in Nat
  <2>1. IsFiniteSet(Committing')
    BY CounterFinite, FS_AddElement
  <2> QED
    BY SMTT(60), <2>1, CounterFinite, FS_AddElement, FS_CardinalityType
<1>2. Cardinality(txns) \in Nat /\ Cardinality(Committing) \in Nat
  BY CounterFinite
<1>0. CounterInv => totalTransaction \in Nat /\ refused \in Nat
  BY DEF CounterInv
<1>8. /\ totalTransaction' \in Nat /\ refused' \in Nat
      /\ totalTransaction' + refused' = totalTransaction + refused + 1
  BY <1>0
<1>3. /\ txns \subseteq Transactions /\ totalTransaction \in Nat /\ refused \in Nat /\ refresh \in Seq(Nat) /\ Len(refresh) <= 2
      /\ ~raced => Cardinality(txns) + Cardinality(Committing) <= totalTransaction + refused
  BY DEF CounterInv
<1>4. ~raced => Cardinality(txns) + Cardinality(Committing') <= totalTransaction + refused + 1
  BY <1>1, <1>2, <1>3
<1>5. /\ (txns \subseteq Transactions)' /\ (totalTransaction \in Nat)' /\ (refused \in Nat)'
      /\ (refresh \in Seq(Nat))' /\ (Len(refresh) <= 2)'
  BY <1>3, <1>8
<1>6. (~raced => Cardinality(txns) + Cardinality(Committing) <= totalTransaction + refused)'
  BY <1>4, <1>8
<1>7. (~raced /\ Len(refresh) = 1 => Committing = {} /\ refresh[1] = Cardinality(txns))'
  OBVIOUS
<1> QED
  BY <1>5, <1>6, <1>7 DEF CounterInv

(* ... and committed.                                                      *)
LEMMA CommitCounts ==
    ASSUME CounterInv, BlockTypes', NEW t \in Transactions, NEW c \in Committing, Committing' = Committing \ {c},
           txns' = txns \cup {t}, UNCHANGED countVars, refresh' = refresh, raced' = raced
    PROVE  CounterInv'
<1>1. Cardinality(Committing') = Cardinality(Committing) - 1 /\ Cardinality(Committing') \in Nat
  BY CounterFinite, FS_RemoveElement, FS_CardinalityType
<1>2. Cardinality(txns) \in Nat /\ Cardinality(Committing) \in Nat
  BY CounterFinite
<1>3. Cardinality(txns') <= Cardinality(txns) + 1 /\ Cardinality(txns') \in Nat
  <2>1. IsFiniteSet(txns')
    BY CounterFinite, FS_AddElement
  <2> QED
    BY <2>1, CounterFinite, FS_AddElement, FS_CardinalityType
<1>0. totalTransaction' = totalTransaction /\ refused' = refused
  BY DEF countVars
<1>4. /\ txns \subseteq Transactions /\ totalTransaction \in Nat /\ refused \in Nat /\ refresh \in Seq(Nat) /\ Len(refresh) <= 2
      /\ ~raced => Cardinality(txns) + Cardinality(Committing) <= totalTransaction + refused
      /\ ~raced /\ Len(refresh) = 1 => Committing = {}
  BY DEF CounterInv
<1>5. ~raced => Cardinality(txns') + Cardinality(Committing') <= totalTransaction + refused
  BY <1>1, <1>2, <1>3, <1>4
<1>6. /\ (txns \subseteq Transactions)' /\ (totalTransaction \in Nat)' /\ (refused \in Nat)'
      /\ (refresh \in Seq(Nat))' /\ (Len(refresh) <= 2)'
  BY <1>0, <1>4
<1>7. (~raced => Cardinality(txns) + Cardinality(Committing) <= totalTransaction + refused)'
  BY <1>0, <1>5
<1>8. (~raced /\ Len(refresh) = 1 => Committing = {} /\ refresh[1] = Cardinality(txns))'
  BY <1>4
<1> QED
  BY <1>6, <1>7, <1>8 DEF CounterInv

LEMMA PoolCounts ==
    ASSUME CounterInv, BlockTypes', NEW p \in Processes, NEW t \in Transactions, Pool(p, t)
    PROVE  CounterInv'
<1>1. t \in DOMAIN indexing[p].stage /\ indexing \in [Processes -> Works]
  BY PoolMoves DEF CounterInv, BlockTypes
<1>2. ASSUME NEW s \in Stages, Advance(p, t, s)
      PROVE  Committing' = IF s = "commit" THEN Committing \cup {<<p, t>>} ELSE Committing \ {<<p, t>>}
  <2>1. /\ \A q \in Processes \ {p} : indexing'[q] = indexing[q]
        /\ indexing'[p].stage = [indexing[p].stage EXCEPT ![t] = s]
    BY <1>1, <1>2, Advances
  <2> QED
    BY <1>1, <2>1, CommitsAre
<1>3. ASSUME NEW e \in {"empty", "other"}, GiveUp(p, t, e)
      PROVE  Committing' \subseteq Committing
  <2>1. /\ \A q \in Processes \ {p} : indexing'[q] = indexing[q]
        /\ indexing' \in [Processes -> Works]
        /\ indexing'[p].stage = [indexing[p].stage EXCEPT ![t] = "done"]
    BY <1>1, <1>3, GivesUp
  <2>2. Committing' = Committing \ {<<p, t>>}
    BY <1>1, <2>1, CommitsAre
  <2> QED
    BY <2>2
<1>4. CASE ReadReceipt(p, t) \/ TouchContract(p, t) \/ NewContract(p, t)
  <2>1. txns' = txns /\ UNCHANGED countVars /\ refresh' = refresh /\ raced' = raced
    BY <1>4 DEF ReadReceipt, TouchContract, NewContract, cmdVars, txnVars
  <2>2. \/ GiveUp(p, t, "empty") \/ GiveUp(p, t, "other") \/ Advance(p, t, "creating")
        \/ Advance(p, t, "contract") \/ Advance(p, t, ToReceipts(t))
    BY <1>4 DEF ReadReceipt, TouchContract, NewContract
  <2>3. ToReceipts(t) \in Stages /\ ToReceipts(t) # "commit"
    BY DEF ToReceipts, Stages
  <2>4. Committing' \subseteq Committing
    BY <1>2, <1>3, <2>2, <2>3 DEF Stages
  <2> QED
    BY <2>1, <2>4, CounterStays
<1>5. CASE StoreReceipts(p, t)
  <2>1. /\ txns' = txns /\ UNCHANGED countVars /\ refresh' = refresh /\ raced' = raced
        /\ GiveUp(p, t, "other") \/ Advance(p, t, "transaction")
    BY <1>5 DEF StoreReceipts, cmdVars
  <2>2. Committing' \subseteq Committing
    BY <1>2, <1>3, <2>1 DEF Stages
  <2> QED
    BY <2>1, <2>2, CounterStays
<1>6. CASE StoreTransaction(p, t)
  <2>1. txns' = txns /\ refresh' = refresh
    BY <1>6 DEF StoreTransaction
  <2>2. CASE GiveUp(p, t, "other") /\ UNCHANGED countVars /\ raced' = raced
    <3>1. Committing' \subseteq Committing
      BY <1>3, <2>2
    <3> QED
      BY <2>1, <2>2, <3>1, CounterStays
  <2>3. CASE /\ Advance(p, t, "commit") /\ raced' = (raced \/ Len(refresh) = 1)
             /\ \/ totalTransaction' = totalTransaction + 1 /\ refused' = refused
                \/ totalTransaction' = totalTransaction /\ refused' = refused + 1
    <3>1. Committing' = Committing \cup {<<p, t>>}
      BY <1>2, <2>3 DEF Stages
    <3> QED
      BY <2>1, <2>3, <3>1, StoreCounts
  <2> QED
    BY <1>6, <2>2, <2>3 DEF StoreTransaction
<1>7. CASE CommitTransaction(p, t)
  <2>1. UNCHANGED countVars /\ refresh' = refresh /\ raced' = raced /\ indexing[p].stage[t] = "commit"
    BY <1>7 DEF CommitTransaction, cmdVars, BlockAt
  <2>2. CASE GiveUp(p, t, "other") /\ txns' = txns
    <3>1. Committing' \subseteq Committing
      BY <1>3, <2>2
    <3> QED
      BY <2>1, <2>2, <3>1, CounterStays
  <2>3. CASE Advance(p, t, "accounts") /\ txns' = txns \cup {t}
    <3>1. Committing' = Committing \ {<<p, t>>}
      BY <1>2, <2>3 DEF Stages
    <3>2. <<p, t>> \in Committing
      BY <1>1, <2>1 DEF Committing, InCommitOf
    <3> QED
      BY <2>1, <2>3, <3>1, <3>2, CommitCounts
  <2> QED
    BY <1>7, <2>2, <2>3 DEF CommitTransaction
<1>8. CASE ClaimAccounts(p, t) \/ TouchAccount(p, t)
  <2>1. /\ txns' = txns /\ UNCHANGED countVars /\ refresh' = refresh /\ raced' = raced
        /\ Advance(p, t, "insert") \/ Advance(p, t, "done")
    BY <1>8 DEF ClaimAccounts, TouchAccount, cmdVars, txnVars
  <2>2. Committing' \subseteq Committing
    BY <1>2, <2>1 DEF Stages
  <2> QED
    BY <2>1, <2>2, CounterStays
<1> QED
  BY <1>4, <1>5, <1>6, <1>7, <1>8 DEF Pool

(* A refresh counts the rows, then writes what it has counted.             *)
LEMMA RefreshCounts ==
    ASSUME CounterInv, BlockTypes', CountRows \/ RefreshMetadata
    PROVE  CounterInv'
<1>1. Cardinality(txns) \in Nat /\ Cardinality(Committing) \in Nat
  BY CounterFinite
<1>2. /\ txns \subseteq Transactions /\ totalTransaction \in Nat /\ refused \in Nat /\ refresh \in Seq(Nat) /\ Len(refresh) <= 2
      /\ ~raced => Cardinality(txns) + Cardinality(Committing) <= totalTransaction + refused
      /\ ~raced /\ Len(refresh) = 1 => Committing = {} /\ refresh[1] = Cardinality(txns)
  BY DEF CounterInv
<1>3. txns' = txns /\ indexing' = indexing
  BY DEF CountRows, RefreshMetadata, txnVars
<1>4. Committing' = Committing
  BY <1>3 DEF Committing, InCommitOf
<1>5. CASE CountRows
  <2>1. totalTransaction' = totalTransaction /\ refused' = refused
    BY <1>5 DEF CountRows, txnVars, countVars
  <2>2. \/ refresh' = <<Cardinality(txns)>> /\ raced' = (raced \/ InCommit)
        \/ refresh' = <<0>> /\ raced' = TRUE
    BY <1>5 DEF CountRows
  <2>3. ~InCommit => Committing = {}
    BY DEF InCommit, Committing, InCommitOf
  <2>4. \E k \in Nat : refresh' = <<k>>
    BY <1>1, <2>2
  <2>5. refresh' \in Seq(Nat) /\ Len(refresh') = 1
    BY <2>4
  <2>6. ~raced' => ~raced /\ Committing = {} /\ refresh'[1] = Cardinality(txns)
    <3>1. CASE refresh' = <<Cardinality(txns)>> /\ raced' = (raced \/ InCommit)
      <4>1. refresh'[1] = Cardinality(txns)
        BY <3>1
      <4>2. ~raced' => ~raced /\ ~InCommit
        BY Zenon, <3>1
      <4> QED
        BY <2>3, <4>1, <4>2
    <3>2. CASE raced' = TRUE
      BY <3>2
    <3> QED
      BY Zenon, <2>2, <3>1, <3>2
  <2>7. /\ (txns \subseteq Transactions)' /\ (totalTransaction \in Nat)' /\ (refused \in Nat)'
        /\ (refresh \in Seq(Nat))' /\ (Len(refresh) <= 2)'
    BY <1>2, <1>3, <2>1, <2>5
  <2>8. (~raced => Cardinality(txns) + Cardinality(Committing) <= totalTransaction + refused)'
    BY <1>2, <1>3, <1>4, <2>1, <2>6
  <2>9. (~raced /\ Len(refresh) = 1 => Committing = {} /\ refresh[1] = Cardinality(txns))'
    BY <1>3, <1>4, <2>6
  <2> QED
    BY <2>7, <2>8, <2>9 DEF CounterInv
<1>6. CASE RefreshMetadata
  <2>1. /\ refresh' = refresh \o refresh /\ raced' = raced /\ Len(refresh) = 1
        /\ \/ totalTransaction' = refresh[1] /\ refused' = 0
           \/ totalTransaction' = totalTransaction /\ refused' = refused
    BY <1>6 DEF RefreshMetadata, countVars
  <2>2. refresh[1] \in Nat
    <3>1. 1 \in 1 .. Len(refresh)
      BY <2>1
    <3> QED
      BY <1>2, <3>1
  <2>3. refresh' \in Seq(Nat) /\ Len(refresh') = 2
    <3>1. refresh \o refresh \in Seq(Nat) /\ Len(refresh \o refresh) = Len(refresh) + Len(refresh)
      BY <1>2
    <3> QED
      BY <2>1, <3>1
  <2>4. ~raced => Cardinality(txns) + Cardinality(Committing) <= totalTransaction' + refused'
    <3> SUFFICES ASSUME ~raced PROVE Cardinality(txns) + Cardinality(Committing) <= totalTransaction' + refused'
      OBVIOUS
    <3>1. Committing = {} /\ refresh[1] = Cardinality(txns)
      BY <1>2, <2>1
    <3>2. Cardinality(Committing) = 0
      BY <3>1, FS_EmptySet
    <3>3. Cardinality(txns) + Cardinality(Committing) <= totalTransaction + refused
      BY <1>2
    <3> QED
      BY <1>1, <2>1, <3>1, <3>2, <3>3
  <2>5. /\ (txns \subseteq Transactions)' /\ (totalTransaction \in Nat)' /\ (refused \in Nat)'
        /\ (refresh \in Seq(Nat))' /\ (Len(refresh) <= 2)'
    BY <1>2, <1>3, <2>1, <2>2, <2>3
  <2>6. (~raced => Cardinality(txns) + Cardinality(Committing) <= totalTransaction + refused)'
    BY <1>3, <1>4, <2>1, <2>4
  <2>7. (~raced /\ Len(refresh) = 1 => Committing = {} /\ refresh[1] = Cardinality(txns))'
    <3>1. ~(Len(refresh') = 1)
      BY <2>3
    <3> QED
      BY <3>1
  <2> QED
    BY <2>5, <2>6, <2>7 DEF CounterInv
<1> QED
  BY <1>5, <1>6

LEMMA CounterStep == CounterInv /\ [EvmBlocksNext]_evmBlockVars => CounterInv'
<1> SUFFICES ASSUME CounterInv, [EvmBlocksNext]_evmBlockVars PROVE CounterInv'
  OBVIOUS
<1>0. /\ BlockTypes /\ indexing \in [Processes -> Works]
      /\ Validator \in Processes /\ BlockWorkers \subseteq Processes
  BY DEF CounterInv, BlockTypes, Processes
<1>1. BlockTypes'
  BY <1>0, BlockTypesStep
<1>a. ASSUME \A q \in Processes : indexing'[q] = indexing[q] \/ InCommitOf(q)' = {},
             txns' = txns, UNCHANGED countVars, refresh' = refresh, raced' = raced
      PROVE  CounterInv'
  BY <1>1, <1>a, CommitsFall, CounterStays
<1>b. ASSUME NEW p \in Processes, NEW b \in Blocks, NEW key \in Blocks \cup {0}, Start(p, b, key)
      PROVE  \A q \in Processes : indexing'[q] = indexing[q] \/ InCommitOf(q)' = {}
  <2>1. /\ \A q \in Processes \ {p} : indexing'[q] = indexing[q]
        /\ indexing'[p] = [block |-> b, key |-> key, stage |-> [t \in Txns[b] |-> "receipt"], err |-> "none"]
    BY <1>0, <1>b, Starts
  <2>2. \A t \in DOMAIN indexing'[p].stage : indexing'[p].stage[t] = "receipt"
    BY <2>1
  <2>3. InCommitOf(p)' = {}
    BY <2>2 DEF InCommitOf
  <2> QED
    BY <2>1, <2>3
<1>c. ASSUME NEW p, indexing'[p] = BlockIdle PROVE InCommitOf(p)' = {}
  BY <1>c, BlockIdleIs DEF InCommitOf
<1>d. ASSUME NEW p \in Processes, indexing' = [indexing EXCEPT ![p] = BlockIdle]
      PROVE  \A q \in Processes : indexing'[q] = indexing[q] \/ InCommitOf(q)' = {}
  <2>1. indexing'[p] = BlockIdle /\ \A q \in Processes \ {p} : indexing'[q] = indexing[q]
    BY <1>0, <1>d
  <2> QED
    BY <1>c, <2>1
<1>2. ASSUME NEW w \in BlockWorkers, NEW b \in Blocks, AddEvmBlock(w, b) PROVE CounterInv'
  <2>1. /\ txns' = txns /\ UNCHANGED countVars /\ refresh' = refresh /\ raced' = raced
        /\ indexing' = indexing \/ Start(w, b, b)
    BY <1>2 DEF AddEvmBlock, txnVars, cmdVars
  <2>2. \A q \in Processes : indexing'[q] = indexing[q] \/ InCommitOf(q)' = {}
    BY <1>0, <1>b, <2>1
  <2> QED
    BY <1>a, <2>1, <2>2
<1>3. ASSUME NEW p \in Processes, NEW t \in Transactions, Pool(p, t) PROVE CounterInv'
  BY <1>1, <1>3, PoolCounts
<1>4. ASSUME NEW w \in BlockWorkers, FinishBlock(w) PROVE CounterInv'
  <2>1. /\ txns' = txns /\ UNCHANGED countVars /\ refresh' = refresh /\ raced' = raced
        /\ indexing' = [indexing EXCEPT ![w] = BlockIdle]
    BY <1>4 DEF FinishBlock, txnVars, cmdVars
  <2>2. \A q \in Processes : indexing'[q] = indexing[q] \/ InCommitOf(q)' = {}
    BY <1>0, <1>d, <2>1
  <2> QED
    BY <1>a, <2>1, <2>2
<1>5. CASE ForgetMembers
  BY <1>5, <1>a DEF ForgetMembers, txnVars, cmdVars
<1>6. CASE RestartBlock
  <2>1. /\ txns' = txns /\ UNCHANGED countVars /\ refresh' = refresh /\ raced' = raced
        /\ \A q \in Processes : indexing'[q] = indexing[q] \/ indexing'[q] = BlockIdle
    BY <1>6 DEF RestartBlock, txnVars, cmdVars
  <2>2. \A q \in Processes : indexing'[q] = indexing[q] \/ InCommitOf(q)' = {}
    BY <1>c, <2>1
  <2> QED
    BY <1>a, <2>1, <2>2
<1>7. CASE FillBlock
  <2> DEFINE n == CHOOSE m \in sweep.todo : \A k \in sweep.todo : m <= k
  <2>1. sweep.todo \subseteq Nat /\ sweep.todo # {} /\ sweep.todo \subseteq Blocks
    <3>1. sweep.todo \in SUBSET Blocks
      BY <1>0 DEF BlockTypes
    <3> QED
      BY <1>7, <3>1, EvmAssumption DEF FillBlock
  <2>2. n \in Blocks
    BY <2>1, Lowest
  <2> HIDE DEF n
  <2>3. /\ indexing' = indexing \/ Start(Validator, n, FillKey)
        /\ txns' = txns /\ UNCHANGED countVars /\ refresh' = refresh /\ raced' = raced
    BY <1>7 DEF FillBlock, txnVars, n
  <2>4. \A q \in Processes : indexing'[q] = indexing[q] \/ InCommitOf(q)' = {}
    BY <1>0, <1>b, <2>2, <2>3 DEF FillKey
  <2> QED
    BY <1>a, <2>3, <2>4
<1>8. CASE FinishFill
  <2>1. /\ txns' = txns /\ UNCHANGED countVars /\ refresh' = refresh /\ raced' = raced
        /\ indexing' = [indexing EXCEPT ![Validator] = BlockIdle]
    BY <1>8 DEF FinishFill, txnVars, cmdVars
  <2>2. \A q \in Processes : indexing'[q] = indexing[q] \/ InCommitOf(q)' = {}
    BY <1>0, <1>d, <2>1
  <2> QED
    BY <1>a, <2>1, <2>2
<1>9. CASE BeginValidate \/ CheckRange \/ Recount \/ EndRepair \/ EndValidate
  <2>1. /\ txns' = txns /\ UNCHANGED countVars /\ refresh' = refresh /\ raced' = raced
        /\ indexing' = indexing
    BY <1>9 DEF BeginValidate, CheckRange, Recount, EndRepair, EndValidate, txnVars
  <2> QED
    BY <1>a, <2>1
<1>10. CASE CountRows \/ RefreshMetadata
  BY <1>1, <1>10, RefreshCounts
<1>11. CASE UNCHANGED evmBlockVars
  BY <1>11, <1>a DEF evmBlockVars, txnVars, cmdVars
<1> QED
  BY <1>2, <1>3, <1>4, <1>5, <1>6, <1>7, <1>8, <1>9, <1>10, <1>11 DEF EvmBlocksNext, Validate

LEMMA CounterStart == EvmBlocksInit => CounterInv
<1> SUFFICES ASSUME EvmBlocksInit PROVE CounterInv
  OBVIOUS
<1>1. /\ indexing = [p \in Processes |-> BlockIdle] /\ txns = {} /\ totalTransaction = 0 /\ refused = 0
      /\ refresh = <<>> /\ Len(refresh) = 0 /\ refresh \in Seq(Nat)
  BY DEF EvmBlocksInit
<1>2. Committing = {}
  BY <1>1, BlockIdleIs DEF Committing, InCommitOf
<1>3. BlockTypes
  BY BlocksStart DEF BlocksInv
<1> QED
  BY <1>1, <1>2, <1>3, FS_EmptySet DEF CounterInv

(* total_transaction falls behind the rows of evm_transactions by no more  *)
(* than the increments that Redis has refused since the last refresh,      *)
(* unless a refresh overlapped the storing of a transaction or failed to   *)
(* count: the hook counts before the row is committed.                     *)
THEOREM CounterIsCovered == EvmBlocksSpec => []CounterCovers
<1>1. CounterInv => CounterCovers
  <2> SUFFICES ASSUME CounterInv, ~raced PROVE totalTransaction + refused >= Cardinality(txns)
    BY DEF CounterCovers
  <2>1. /\ Cardinality(txns) + Cardinality(Committing) <= totalTransaction + refused
        /\ Cardinality(txns) \in Nat /\ Cardinality(Committing) \in Nat /\ totalTransaction \in Nat /\ refused \in Nat
    BY CounterFinite DEF CounterInv
  <2> QED
    BY <2>1
<1> QED
  BY CounterStart, CounterStep, <1>1, PTL DEF EvmBlocksSpec

-----------------------------------------------------------------------------
(* The tokens (EvmTokens).  What a worker is at: nothing, or a job and the *)
(* step it has reached.                                                    *)
JobSteps == {"start", "insert", "stray", "count", "publish", "upsert", "recount", "holders", "find", "absent", "present"}
TokenWorked(x) ==
    \/ x = TokenIdle
    \/ x = [step |-> x.step, job |-> x.job, read |-> x.read] /\ x.step \in JobSteps /\ x.job \in Jobs

WorkTyped == DOMAIN tokenWork = TokenWorkers /\ \A w \in TokenWorkers : TokenWorked(tokenWork[w])

TokenTypes ==
    /\ chain \in Chains /\ head \in Nat /\ WorkTyped
    /\ queued \in [Jobs -> Nat] /\ category \in [Tokens -> Categories \cup {"none"}]
    /\ transferCount \in [Tokens -> Nat] /\ tokenTransfers \subseteq Transfers
    /\ holdings \in [Tokens \X Holders -> Int]

(* A balance that was read is none below zero, and a worker that counts    *)
(* the holders has written one.                                            *)
BalancesKnown ==
    \A w \in TokenWorkers :
        /\ Is(w, "balance", "upsert") => tokenWork[w].read \in Nat
        /\ Is(w, "balance", "recount") \/ Is(w, "balance", "holders") =>
              holdings[<<Job(w).token, Job(w).who>>] # -1

(* Each stored transfer is counted, about to be counted by one worker, or  *)
(* remembered as one whose count was lost.                                 *)
CountsAt(w) == Is(w, "transfer", "count")
Counting    == {Job(w).i : w \in {v \in TokenWorkers : CountsAt(v)}}
OneCounts ==
    /\ \A w \in TokenWorkers : CountsAt(w) => Job(w).i \in tokenTransfers \ uncounted
    /\ \A v, w \in TokenWorkers : CountsAt(v) /\ CountsAt(w) /\ v # w => Job(v).i # Job(w).i
    /\ uncounted \subseteq tokenTransfers

(* A holder whose job was ever let through or dropped has a row, or a job  *)
(* that will read its balance, or is remembered.                           *)
BalanceJob(c, t, a) == [class |-> "balance", queue |-> c, token |-> t, who |-> a]
OnBalance(w, t, a)  == HasJob(w) /\ Job(w).class = "balance" /\ Job(w).token = t /\ Job(w).who = a
Heard(t, a) ==
    \/ holdings[<<t, a>>] # -1
    \/ \E c \in Categories : queued[BalanceJob(c, t, a)] > 0
    \/ \E w \in TokenWorkers : OnBalance(w, t, a)
    \/ <<t, a>> \in unheard
LimitedHeard ==
    \A t \in Tokens, a \in Holders : (\E c \in Categories : BalanceJob(c, t, a) \in limited) => Heard(t, a)

TokensInv == TokenTypes /\ BalancesKnown /\ OneCounts /\ TransferCountExact /\ LimitedHeard /\ HoldersTracked

(* A job is one of three kinds.                                            *)
LEMMA JobKinds ==
    ASSUME NEW j \in Jobs
    PROVE  /\ j.class = "transfer" => j.i \in Transfers
           /\ j.class = "balance" => /\ j.token \in Tokens /\ j.who \in Holders /\ j.queue \in Categories
                                     /\ j = BalanceJob(j.queue, j.token, j.who)
           /\ j.class \in {"transfer", "balance", "holder"} /\ j.queue \in Categories
<1>1. CASE j \in TransferJobs
  BY <1>1 DEF TransferJobs
<1>2. CASE j \in BalanceJobs
  BY <1>2 DEF BalanceJobs, BalanceJob
<1>3. CASE j \in HolderJobs
  BY <1>3 DEF HolderJobs
<1> QED
  BY <1>1, <1>2, <1>3 DEF Jobs

LEMMA BalanceIsJob ==
    ASSUME NEW c \in Categories, NEW t \in Tokens, NEW a \in Holders
    PROVE  /\ BalanceJob(c, t, a) \in Jobs
           /\ BalanceJob(c, t, a).class = "balance" /\ BalanceJob(c, t, a).token = t /\ BalanceJob(c, t, a).who = a
BY DEF BalanceJob, BalanceJobs, Jobs

(* What a transfer moves, the plugin knows.                                *)
LEMMA MovesKnown ==
    ASSUME chain \in Chains, NEW i \in Transfers
    PROVE  chain[i].token \in Tokens /\ chain[i].from \in Holders /\ chain[i].to \in Holders
<1>1. chain[i].token \in Tokens
  BY TokenAssumption
<1> DEFINE S == {{c[k].from, c[k].to} : c \in Chains, k \in Transfers}
<1>2. {chain[i].from, chain[i].to} \in S
  OBVIOUS
<1>3. Holders = {Null} \cup (UNION S)
  BY DEF Holders
<1> HIDE DEF S
<1> QED
  BY <1>1, <1>2, <1>3

-----------------------------------------------------------------------------
(* The moves of a worker.                                                  *)
LEMMA Continues ==
    ASSUME WorkTyped, NEW w \in TokenWorkers, HasJob(w), NEW s \in JobSteps, Continue(w, s)
    PROVE  /\ WorkTyped' /\ \A v \in TokenWorkers \ {w} : tokenWork'[v] = tokenWork[v]
           /\ tokenWork'[w].step = s /\ tokenWork'[w].job = tokenWork[w].job /\ tokenWork'[w].read = tokenWork[w].read
<1>1. /\ tokenWork[w] = [step |-> tokenWork[w].step, job |-> tokenWork[w].job, read |-> tokenWork[w].read]
      /\ tokenWork[w].job \in Jobs
  BY DEF WorkTyped, TokenWorked, HasJob, TokenIdle
<1>2. tokenWork'[w] = [step |-> s, job |-> tokenWork[w].job, read |-> tokenWork[w].read]
  BY <1>1 DEF Continue, WorkTyped
<1>3. \A v \in TokenWorkers \ {w} : tokenWork'[v] = tokenWork[v]
  BY DEF Continue, WorkTyped
<1>4. DOMAIN tokenWork' = TokenWorkers
  BY DEF Continue, WorkTyped
<1>5. TokenWorked(tokenWork'[w])
  BY <1>1, <1>2 DEF TokenWorked
<1> QED
  BY <1>2, <1>3, <1>4, <1>5 DEF WorkTyped

LEMMA Knows ==
    ASSUME WorkTyped, NEW w \in TokenWorkers, HasJob(w), NEW s \in JobSteps, NEW x, Known(w, s, x)
    PROVE  /\ WorkTyped' /\ \A v \in TokenWorkers \ {w} : tokenWork'[v] = tokenWork[v]
           /\ tokenWork'[w].step = s /\ tokenWork'[w].job = tokenWork[w].job /\ tokenWork'[w].read = x
<1>1. /\ tokenWork[w] = [step |-> tokenWork[w].step, job |-> tokenWork[w].job, read |-> tokenWork[w].read]
      /\ tokenWork[w].job \in Jobs
  BY DEF WorkTyped, TokenWorked, HasJob, TokenIdle
<1>2. tokenWork'[w] = [step |-> s, job |-> tokenWork[w].job, read |-> x]
  <2>1. tokenWork'[w] = [tokenWork[w] EXCEPT !.step = s, !.read = x]
    BY DEF Known, WorkTyped
  <2> QED
    BY <1>1, <2>1
<1>3. \A v \in TokenWorkers \ {w} : tokenWork'[v] = tokenWork[v]
  BY DEF Known, WorkTyped
<1>4. DOMAIN tokenWork' = TokenWorkers
  BY DEF Known, WorkTyped
<1>5. TokenWorked(tokenWork'[w])
  BY <1>1, <1>2 DEF TokenWorked
<1> QED
  BY <1>2, <1>3, <1>4, <1>5 DEF WorkTyped

LEMMA Finishes ==
    ASSUME WorkTyped, NEW w \in TokenWorkers, Finish(w)
    PROVE  /\ WorkTyped' /\ \A v \in TokenWorkers \ {w} : tokenWork'[v] = tokenWork[v]
           /\ tokenWork'[w].step = "idle"
BY DEF Finish, WorkTyped, TokenWorked, TokenIdle

LEMMA Takes ==
    ASSUME WorkTyped, NEW w \in TokenWorkers, NEW j \in Jobs, TakeTokenJob(w, j)
    PROVE  /\ WorkTyped' /\ \A v \in TokenWorkers \ {w} : tokenWork'[v] = tokenWork[v]
           /\ tokenWork'[w].step = "start" /\ tokenWork'[w].job = j
<1>1. tokenWork' = [tokenWork EXCEPT ![w] = [step |-> "start", job |-> j, read |-> 0]]
  BY DEF TakeTokenJob
<1>2. tokenWork'[w] = [step |-> "start", job |-> j, read |-> 0] /\ DOMAIN tokenWork' = TokenWorkers
  BY <1>1 DEF WorkTyped
<1>3. \A v \in TokenWorkers \ {w} : tokenWork'[v] = tokenWork[v]
  BY <1>1 DEF WorkTyped
<1>4. TokenWorked(tokenWork'[w])
  BY <1>2 DEF TokenWorked, JobSteps
<1> QED
  BY <1>2, <1>3, <1>4 DEF WorkTyped

(* Jobs are added, never lost.                                             *)
LEMMA Puts ==
    ASSUME queued \in [Jobs -> Nat], NEW js, queued' = Put(js, queued)
    PROVE  /\ queued' \in [Jobs -> Nat] /\ \A j \in Jobs : queued'[j] >= queued[j]
           /\ \A j \in Jobs \cap js : queued'[j] > 0
<1>1. \A j \in Jobs : queued'[j] = queued[j] + IF j \in js THEN 1 ELSE 0
  BY DEF Put
<1>2. \A j \in Jobs : queued[j] \in Nat
  OBVIOUS
<1>3. queued' = [j \in Jobs |-> queued'[j]]
  BY DEF Put
<1>4. ASSUME NEW j \in Jobs PROVE queued'[j] \in Nat /\ queued'[j] >= queued[j] /\ (j \in js => queued'[j] > 0)
  BY <1>1, <1>2
<1> QED
  BY <1>3, <1>4

(* Jobs are added, and what is lost with one that is refused is remembered. *)
Adds == queued' \in [Jobs -> Nat] /\ (\A j \in Jobs : queued'[j] >= queued[j]) /\ unheard \subseteq unheard'

(* Jobs published are dropped where the limiter's key is alive.            *)
LEMMA Publishes ==
    ASSUME queued \in [Jobs -> Nat], NEW js, NEW unsent, Publish(js, unsent)
    PROVE  /\ Adds /\ limited' = limited \cup js
           /\ \A j \in (Jobs \cap js) \ limited : j \notin unsent => queued'[j] > 0
<1>1. queued' = Put(js \ (limited \cup unsent), queued) /\ limited' = limited \cup js
  BY DEF Publish
<1>2. unheard \subseteq unheard'
  BY DEF Publish, Unheard
<1> QED
  BY <1>1, <1>2, Puts DEF Adds

LEMMA PublishesAll ==
    ASSUME queued \in [Jobs -> Nat], NEW js, PublishAll(js)
    PROVE  Adds /\ \E unsent : Publish(js, unsent)
<1>1. \E unsent : Publish(js, unsent)
  BY DEF PublishAll
<1> QED
  BY <1>1, Publishes

(* A job that failed waits again, or is remembered.                        *)
LEMMA Retries ==
    ASSUME TokenTypes, NEW w \in TokenWorkers, HasJob(w), Retry(w)
    PROVE  /\ Finish(w) /\ Adds /\ limited' = limited
           /\ queued'[Job(w)] > 0 \/ (Job(w).class = "balance" => <<Job(w).token, Job(w).who>> \in unheard')
<1>1. Job(w) \in Jobs
  BY DEF TokenTypes, WorkTyped, TokenWorked, HasJob, Job, TokenIdle
<1>2. Finish(w) /\ limited' = limited
  BY DEF Retry
<1>3. CASE queued' = Put({Job(w)}, queued) /\ unheard' = unheard
  BY <1>1, <1>2, <1>3, Puts DEF Adds, TokenTypes
<1>4. CASE queued' = queued /\ Unheard({Job(w)})
  <2>1. Adds
    BY <1>4 DEF Adds, Unheard, TokenTypes
  <2>2. Job(w).class = "balance" => <<Job(w).token, Job(w).who>> \in unheard'
    BY <1>4 DEF Unheard
  <2> QED
    BY <1>2, <2>1, <2>2
<1> QED
  BY <1>3, <1>4 DEF Retry

(* What the node answers is a number.                                      *)
LEMMA BalanceIsNumber ==
    ASSUME head \in Nat, NEW t, NEW a
    PROVE  BalanceOf(t, a) \in Int
<1>1. ASSUME NEW S, S \subseteq 1 .. head PROVE Cardinality(S) \in Nat
  <2>1. IsFiniteSet(1 .. head)
    BY FS_Interval
  <2> QED
    BY <1>1, <2>1, FS_Subset, FS_CardinalityType
<1>2. Cardinality({i \in {k \in 1 .. head : chain[k].to = a} : chain[i].token = t}) \in Nat
  BY <1>1
<1>3. Cardinality({i \in {k \in 1 .. head : chain[k].from = a} : chain[i].token = t}) \in Nat
  BY <1>1
<1> QED
  BY <1>2, <1>3 DEF BalanceOf

(* The worker that makes a step, and what the step makes of its work: the  *)
(* other workers stay as they are.                                         *)
Others(w) == \A v \in TokenWorkers \ {w} : tokenWork'[v] = tokenWork[v]
Moves(w, s) == tokenWork'[w].step = s /\ tokenWork'[w].job = tokenWork[w].job

-----------------------------------------------------------------------------
(* TokenTypes and BalancesKnown                                            *)
LEMMA KnownStays ==
    ASSUME BalancesKnown, holdings' = holdings \/ \A h \in DOMAIN holdings : holdings[h] # -1 => holdings'[h] # -1,
           TokenTypes, NEW w \in TokenWorkers, Others(w),
           Is(w, "balance", "upsert")' => tokenWork'[w].read \in Nat,
           Is(w, "balance", "recount")' \/ Is(w, "balance", "holders")' =>
              holdings'[<<Job(w)'.token, Job(w)'.who>>] # -1
    PROVE  BalancesKnown'
<1>1. ASSUME NEW v \in TokenWorkers \ {w}
      PROVE  /\ Is(v, "balance", "upsert")' => tokenWork'[v].read \in Nat
             /\ Is(v, "balance", "recount")' \/ Is(v, "balance", "holders")' =>
                   holdings'[<<Job(v)'.token, Job(v)'.who>>] # -1
  <2>1. tokenWork'[v] = tokenWork[v]
    BY DEF Others
  <2>2. \A s : Is(v, "balance", s)' <=> Is(v, "balance", s)
    BY <2>1 DEF Is, HasJob, Job
  <2>3. Job(v)' = Job(v)
    BY <2>1 DEF Job
  <2>4. ASSUME Is(v, "balance", "recount") \/ Is(v, "balance", "holders")
        PROVE  holdings'[<<Job(v)'.token, Job(v)'.who>>] # -1
    <3>1. Job(v) \in Jobs /\ Job(v).class = "balance"
      BY <2>4 DEF TokenTypes, WorkTyped, TokenWorked, Is, HasJob, Job, TokenIdle
    <3>2. <<Job(v).token, Job(v).who>> \in Tokens \X Holders
      BY <3>1, JobKinds
    <3>3. <<Job(v).token, Job(v).who>> \in DOMAIN holdings /\ holdings[<<Job(v).token, Job(v).who>>] # -1
      BY <2>4, <3>2 DEF TokenTypes, BalancesKnown
    <3> QED
      BY <2>3, <3>3
  <2> QED
    BY <2>1, <2>2, <2>4 DEF BalancesKnown
<1> QED
  BY <1>1 DEF BalancesKnown

LEMMA TypesStep == TokenTypes /\ BalancesKnown /\ [EvmTokensNext]_evmTokenVars => (TokenTypes /\ BalancesKnown)'
<1> SUFFICES ASSUME TokenTypes, BalancesKnown, [EvmTokensNext]_evmTokenVars PROVE (TokenTypes /\ BalancesKnown)'
  OBVIOUS
<1>0. /\ chain \in Chains /\ head \in Nat /\ WorkTyped /\ queued \in [Jobs -> Nat]
      /\ category \in [Tokens -> Categories \cup {"none"}] /\ transferCount \in [Tokens -> Nat]
      /\ tokenTransfers \subseteq Transfers /\ holdings \in [Tokens \X Holders -> Int]
  BY DEF TokenTypes
<1>a. ASSUME UNCHANGED <<tokenWork, holdings>>
      PROVE  WorkTyped' /\ BalancesKnown'
  BY <1>0, <1>a DEF WorkTyped, TokenWorked, BalancesKnown, Is, HasJob, Job
<1>b. ASSUME NEW w \in TokenWorkers, HasJob(w) PROVE Job(w) \in Jobs
  BY <1>0, <1>b DEF WorkTyped, TokenWorked, HasJob, Job, TokenIdle
<1>c. ASSUME NEW w \in TokenWorkers, HasJob(w), holdings' = holdings,
             \/ Finish(w)
             \/ \E s \in JobSteps \ {"upsert", "recount", "holders"} : Continue(w, s) \/ \E x : Known(w, s, x)
      PROVE  WorkTyped' /\ BalancesKnown'
  <2>1. CASE Finish(w)
    <3>1. WorkTyped' /\ Others(w) /\ tokenWork'[w].step = "idle"
      BY <1>0, <2>1, Finishes DEF Others
    <3> QED
      BY <1>c, <3>1, KnownStays DEF Is
  <2>2. ASSUME NEW s \in JobSteps \ {"upsert", "recount", "holders"}, Continue(w, s) PROVE WorkTyped' /\ BalancesKnown'
    <3>1. WorkTyped' /\ Others(w) /\ tokenWork'[w].step = s
      BY <1>0, <1>c, <2>2, Continues DEF Others
    <3> QED
      BY <1>c, <3>1, KnownStays DEF Is
  <2>3. ASSUME NEW s \in JobSteps \ {"upsert", "recount", "holders"}, NEW x, Known(w, s, x) PROVE WorkTyped' /\ BalancesKnown'
    <3>1. WorkTyped' /\ Others(w) /\ tokenWork'[w].step = s
      BY <1>0, <1>c, <2>3, Knows DEF Others
    <3> QED
      BY <1>c, <3>1, KnownStays DEF Is
  <2> QED
    BY <1>c, <2>1, <2>2, <2>3
<1>1. CASE ChainMoves \/ LimiterExpires
  <2>1. /\ UNCHANGED <<chain, queued, category, transferCount, tokenTransfers, holdings, tokenWork>>
        /\ head' \in Nat
    BY <1>0, <1>1 DEF ChainMoves, LimiterExpires, mqVars, tokenVars, tokenRowVars
  <2> QED
    BY <1>0, <1>a, <2>1 DEF TokenTypes
<1>2. CASE RestartToken
  <2>1. tokenWork' = [w \in TokenWorkers |-> TokenIdle] /\ holdings' = holdings
    BY <1>2 DEF RestartToken, tokenRowVars
  <2>2. WorkTyped' /\ BalancesKnown'
    BY <2>1 DEF WorkTyped, TokenWorked, BalancesKnown, Is, HasJob, TokenIdle
  <2>3. queued' \in [Jobs -> Nat]
    <3> DEFINE S(j) == {w \in {v \in TokenWorkers : HasJob(v)} : Job(w) = j}
    <3>1. ASSUME NEW j \in Jobs PROVE Cardinality(S(j)) \in Nat
      BY TokenAssumption, FS_Subset, FS_CardinalityType
    <3>2. queued' = [j \in Jobs |-> queued[j] + Cardinality(S(j))]
      BY <1>2 DEF RestartToken
    <3> HIDE DEF S
    <3> QED
      BY <1>0, <3>1, <3>2
  <2> QED
    BY <1>0, <1>2, <2>1, <2>2, <2>3 DEF RestartToken, TokenTypes, tokenVars, tokenRowVars
<1>3. ASSUME NEW i \in Transfers, EventProcess(i) PROVE (TokenTypes /\ BalancesKnown)'
  <2>1. \E js, unsent : Publish(js, unsent)
    BY <1>3 DEF EventProcess, PublishAll
  <2>2. queued' \in [Jobs -> Nat]
    BY <1>0, <2>1, Publishes DEF Adds
  <2> QED
    BY <1>0, <1>3, <1>a, <2>2 DEF EventProcess, TokenTypes, tokenVars, tokenRowVars
<1>4. ASSUME NEW t \in Tokens, NEW a \in Holders, DepositOrWithdraw(t, a) PROVE (TokenTypes /\ BalancesKnown)'
  <2>1. \E js, unsent : Publish(js, unsent)
    BY <1>4 DEF DepositOrWithdraw
  <2>2. queued' \in [Jobs -> Nat]
    BY <1>0, <2>1, Publishes DEF Adds
  <2> QED
    BY <1>0, <1>4, <1>a, <2>2 DEF DepositOrWithdraw, TokenTypes, tokenVars, tokenRowVars
<1>5. ASSUME NEW w \in TokenWorkers, NEW j \in Jobs, TakeTokenJob(w, j) PROVE (TokenTypes /\ BalancesKnown)'
  <2>1. WorkTyped' /\ Others(w) /\ tokenWork'[w].step = "start"
    BY <1>0, <1>5, Takes DEF Others
  <2>2. holdings' = holdings
    BY <1>5 DEF TakeTokenJob, tokenRowVars
  <2>3. BalancesKnown'
    BY <2>1, <2>2, KnownStays DEF Is
  <2>4. queued' \in [Jobs -> Nat]
    <3>1. queued[j] \in Nat /\ queued[j] > 0 /\ queued' = [queued EXCEPT ![j] = queued[j] - 1]
      BY <1>0, <1>5 DEF TakeTokenJob
    <3> QED
      BY <1>0, <3>1
  <2> QED
    BY <1>0, <1>5, <2>1, <2>2, <2>3, <2>4 DEF TakeTokenJob, TokenTypes, tokenVars, tokenRowVars
<1>6. ASSUME NEW w \in TokenWorkers, TouchToken(w) PROVE (TokenTypes /\ BalancesKnown)'
  <2>1. /\ HasJob(w) /\ (Continue(w, "insert") \/ Continue(w, "stray")) /\ Job(w).class = "transfer"
        /\ UNCHANGED <<chain, head, mqVars, tokenRowVars>>
    BY <1>6 DEF TouchToken, Is
  <2>2. holdings' = holdings /\ tokenTransfers' = tokenTransfers /\ queued' = queued
    BY <2>1 DEF tokenRowVars, mqVars
  <2>3. WorkTyped' /\ BalancesKnown'
    BY <1>c, <2>1, <2>2 DEF JobSteps
  <2>4. Job(w).queue \in Categories
    BY <1>b, <2>1, JobKinds
  <2>5. category' = category \/ category' = [category EXCEPT ![chain[Job(w).i].token] = Job(w).queue]
    BY <1>6 DEF TouchToken, tokenVars
  <2>6. category' \in [Tokens -> Categories \cup {"none"}]
    BY <1>0, <2>4, <2>5
  <2>7. transferCount' = transferCount
    BY <1>6 DEF TouchToken, tokenVars
  <2> QED
    BY <1>0, <2>1, <2>2, <2>3, <2>6, <2>7 DEF TokenTypes
<1>7. ASSUME NEW w \in TokenWorkers, InsertTransfer(w) PROVE (TokenTypes /\ BalancesKnown)'
  <2>1. /\ HasJob(w) /\ Job(w).class = "transfer"
        /\ UNCHANGED <<chain, head, category, transferCount, holdings>>
    BY <1>7 DEF InsertTransfer, Is
  <2>2. Job(w).i \in Transfers
    BY <1>b, <2>1, JobKinds
  <2>3. /\ tokenTransfers' = tokenTransfers \/ tokenTransfers' = tokenTransfers \cup {Job(w).i}
        /\ Finish(w) \/ Continue(w, "count")
        /\ queued' = queued \/ Retry(w)
    BY <1>7 DEF InsertTransfer, mqVars, Retry
  <2>4. WorkTyped' /\ BalancesKnown'
    BY <1>c, <2>1, <2>3 DEF JobSteps
  <2>5. queued' \in [Jobs -> Nat]
    BY <1>0, <2>1, <2>3, Retries DEF Adds
  <2> QED
    BY <1>0, <2>1, <2>2, <2>3, <2>4, <2>5 DEF TokenTypes
<1>18. ASSUME NEW w \in TokenWorkers, InsertStray(w) PROVE (TokenTypes /\ BalancesKnown)'
  <2>1. /\ HasJob(w) /\ Job(w).class = "transfer"
        /\ UNCHANGED <<chain, head, category, transferCount, holdings>>
    BY <1>18 DEF InsertStray, Is, tokenVars
  <2>2. Job(w).i \in Transfers
    BY <1>b, <2>1, JobKinds
  <2>3. /\ tokenTransfers' = tokenTransfers \/ tokenTransfers' = tokenTransfers \cup {Job(w).i}
        /\ Finish(w)
        /\ queued' = queued \/ Retry(w)
    BY <1>18 DEF InsertStray, mqVars, Retry
  <2>4. WorkTyped' /\ BalancesKnown'
    BY <1>c, <2>1, <2>3 DEF JobSteps
  <2>5. queued' \in [Jobs -> Nat]
    BY <1>0, <2>1, <2>3, Retries DEF Adds
  <2> QED
    BY <1>0, <2>1, <2>2, <2>3, <2>4, <2>5 DEF TokenTypes
<1>8. ASSUME NEW w \in TokenWorkers, CountTokenTransfer(w) PROVE (TokenTypes /\ BalancesKnown)'
  <2>1. /\ HasJob(w) /\ Job(w).class = "transfer" /\ Continue(w, "publish")
        /\ UNCHANGED <<chain, head, mqVars, category, tokenRowVars>>
    BY <1>8 DEF CountTokenTransfer, Is
  <2>2. holdings' = holdings /\ tokenTransfers' = tokenTransfers /\ queued' = queued
    BY <2>1 DEF tokenRowVars, mqVars
  <2>3. WorkTyped' /\ BalancesKnown'
    BY <1>c, <2>1, <2>2 DEF JobSteps
  <2>4. \/ transferCount' = transferCount
        \/ \E t \in Tokens : transferCount' = [transferCount EXCEPT ![t] = transferCount[t] + 1]
    <3>1. Job(w).i \in Transfers
      BY <1>b, <2>1, JobKinds
    <3>2. chain[Job(w).i].token \in Tokens
      BY <1>0, <3>1, MovesKnown
    <3> QED
      BY <1>8, <3>2 DEF CountTokenTransfer
  <2>5. transferCount' \in [Tokens -> Nat]
    BY <1>0, <2>4
  <2> QED
    BY <1>0, <2>1, <2>2, <2>3, <2>5 DEF TokenTypes
<1>9. ASSUME NEW w \in TokenWorkers, PublishRefreshes(w) PROVE (TokenTypes /\ BalancesKnown)'
  <2>1. /\ HasJob(w) /\ Finish(w) /\ UNCHANGED <<chain, head, tokenVars, tokenRowVars>> /\ \E js : PublishAll(js)
    BY <1>9 DEF PublishRefreshes, Is
  <2>2. queued' \in [Jobs -> Nat]
    BY <1>0, <2>1, PublishesAll DEF Adds
  <2>3. UNCHANGED <<category, transferCount, tokenTransfers, holdings>>
    BY <2>1 DEF tokenVars, tokenRowVars
  <2>4. WorkTyped' /\ BalancesKnown'
    BY <1>c, <2>1, <2>3
  <2> QED
    BY <1>0, <2>1, <2>2, <2>3, <2>4 DEF TokenTypes
<1>10. ASSUME NEW w \in TokenWorkers, ReadBalance(w) PROVE (TokenTypes /\ BalancesKnown)'
  <2>1. /\ HasJob(w) /\ UNCHANGED <<chain, head, category, transferCount, tokenTransfers, holdings>>
    BY <1>10 DEF ReadBalance, Is, tokenVars, tokenRowVars
  <2>2. queued' = queued \/ Retry(w)
    BY <1>10 DEF ReadBalance, mqVars
  <2>3. queued' \in [Jobs -> Nat]
    BY <1>0, <2>1, <2>2, Retries DEF Adds
  <2>4. Finish(w) \/ \E x \in Nat : Known(w, "upsert", x)
    BY <1>0, <1>10, BalanceIsNumber DEF ReadBalance, Retry
  <2>5. CASE Finish(w)
    BY <1>0, <1>c, <2>1, <2>3, <2>5 DEF TokenTypes
  <2>6. ASSUME NEW x \in Nat, Known(w, "upsert", x) PROVE (TokenTypes /\ BalancesKnown)'
    <3>1. WorkTyped' /\ Others(w) /\ tokenWork'[w].step = "upsert" /\ tokenWork'[w].read = x
      BY <1>0, <2>1, <2>6, Knows DEF Others, JobSteps
    <3>2. BalancesKnown'
      BY <2>1, <3>1, KnownStays DEF Is
    <3> QED
      BY <1>0, <2>1, <2>3, <3>1, <3>2 DEF TokenTypes
  <2> QED
    BY <2>4, <2>5, <2>6
<1>11. ASSUME NEW w \in TokenWorkers, UpsertBalance(w) PROVE (TokenTypes /\ BalancesKnown)'
  <2> DEFINE h == <<Job(w).token, Job(w).who>>
             b == tokenWork[w].read
  <2>1. /\ HasJob(w) /\ Job(w).class = "balance" /\ b \in Nat
        /\ UNCHANGED <<chain, head, category, transferCount, tokenTransfers>>
    BY <1>11 DEF UpsertBalance, Is, BalancesKnown, tokenVars
  <2>2. h \in Tokens \X Holders
    BY <1>b, <2>1, JobKinds
  <2>3. \/ Retry(w) /\ holdings' = holdings
        \/ holdings' = [holdings EXCEPT ![h] = b] /\ (Finish(w) \/ Continue(w, "recount")) /\ queued' = queued
    BY <1>11 DEF UpsertBalance, mqVars
  <2> HIDE DEF h, b
  <2>4. CASE Retry(w) /\ holdings' = holdings
    <3>1. Finish(w) /\ queued' \in [Jobs -> Nat]
      BY <2>1, <2>4, Retries DEF Adds
    <3> QED
      BY <1>0, <1>c, <2>1, <2>4, <3>1 DEF TokenTypes
  <2>5. CASE holdings' = [holdings EXCEPT ![h] = b] /\ (Finish(w) \/ Continue(w, "recount")) /\ queued' = queued
    <3>1. /\ holdings' \in [Tokens \X Holders -> Int] /\ holdings'[h] # -1
          /\ \A k \in DOMAIN holdings : holdings[k] # -1 => holdings'[k] # -1
      BY <1>0, <2>1, <2>2, <2>5
    <3>2. WorkTyped' /\ BalancesKnown'
      <4>1. CASE Finish(w)
        <5>1. WorkTyped' /\ Others(w) /\ tokenWork'[w].step = "idle"
          BY <1>0, <4>1, Finishes DEF Others
        <5> QED
          BY <3>1, <5>1, KnownStays DEF Is
      <4>2. CASE Continue(w, "recount")
        <5>1. WorkTyped' /\ Others(w) /\ tokenWork'[w].step = "recount" /\ tokenWork'[w].job = tokenWork[w].job
          BY <1>0, <2>1, <4>2, Continues DEF Others, JobSteps
        <5>2. holdings'[<<Job(w)'.token, Job(w)'.who>>] # -1
          BY <3>1, <5>1 DEF h, Job
        <5> QED
          BY <3>1, <5>1, <5>2, KnownStays DEF Is
      <4> QED
        BY <2>5, <4>1, <4>2
    <3> QED
      BY <1>0, <2>1, <2>5, <3>1, <3>2 DEF TokenTypes
  <2> QED
    BY <2>3, <2>4, <2>5
<1>12. ASSUME NEW w \in TokenWorkers, CountHolders(w) PROVE (TokenTypes /\ BalancesKnown)'
  <2>1. /\ Is(w, "balance", "recount") /\ \E x : Known(w, "holders", x)
        /\ UNCHANGED <<chain, head, queued, category, transferCount, tokenTransfers, holdings>>
    BY <1>12 DEF CountHolders, mqVars, tokenVars, tokenRowVars
  <2>2. /\ WorkTyped' /\ Others(w) /\ tokenWork'[w].step = "holders" /\ tokenWork'[w].job = tokenWork[w].job
    BY <1>0, <2>1, Knows DEF Others, JobSteps, Is
  <2>3. holdings'[<<Job(w)'.token, Job(w)'.who>>] # -1
    BY <2>1, <2>2 DEF BalancesKnown, Job
  <2>4. BalancesKnown'
    BY <2>1, <2>2, <2>3, KnownStays DEF Is
  <2> QED
    BY <1>0, <2>1, <2>2, <2>4 DEF TokenTypes
<1>13. ASSUME NEW w \in TokenWorkers, RefreshTokenHolder(w) PROVE (TokenTypes /\ BalancesKnown)'
  <2>1. /\ HasJob(w) /\ Finish(w)
        /\ UNCHANGED <<chain, head, queued, category, transferCount, tokenTransfers, holdings>>
    BY <1>13 DEF RefreshTokenHolder, mqVars, tokenRowVars, Is
  <2> QED
    BY <1>0, <1>c, <2>1 DEF TokenTypes
<1>14. ASSUME NEW w \in TokenWorkers, ReadOwner(w) PROVE (TokenTypes /\ BalancesKnown)'
  <2>1. /\ HasJob(w) /\ UNCHANGED <<chain, head, category, transferCount, tokenTransfers, holdings>>
    BY <1>14 DEF ReadOwner, Is, tokenVars, tokenRowVars
  <2>2. queued' = queued \/ Retry(w)
    BY <1>14 DEF ReadOwner, mqVars
  <2>3. queued' \in [Jobs -> Nat]
    BY <1>0, <2>1, <2>2, Retries DEF Adds
  <2>4. Finish(w) \/ \E x : Known(w, "find", x)
    BY <1>14 DEF ReadOwner, Retry
  <2>5. WorkTyped' /\ BalancesKnown'
    BY <1>c, <2>1, <2>4 DEF JobSteps
  <2> QED
    BY <1>0, <2>1, <2>3, <2>5 DEF TokenTypes
<1>15. ASSUME NEW w \in TokenWorkers, FindCollectible(w) PROVE (TokenTypes /\ BalancesKnown)'
  <2>1. /\ HasJob(w) /\ (Continue(w, "absent") \/ Continue(w, "present"))
        /\ UNCHANGED <<chain, head, queued, category, transferCount, tokenTransfers, holdings>>
    BY <1>15 DEF FindCollectible, mqVars, tokenVars, tokenRowVars, Is
  <2>2. WorkTyped' /\ BalancesKnown'
    BY <1>c, <2>1 DEF JobSteps
  <2> QED
    BY <1>0, <2>1, <2>2 DEF TokenTypes
<1>16. ASSUME NEW w \in TokenWorkers, WriteCollectible(w) PROVE (TokenTypes /\ BalancesKnown)'
  <2>1. /\ HasJob(w) /\ Finish(w)
        /\ UNCHANGED <<chain, head, queued, category, transferCount, tokenTransfers, holdings>>
    BY <1>16 DEF WriteCollectible, mqVars, Is
  <2> QED
    BY <1>0, <1>c, <2>1 DEF TokenTypes
<1>17. CASE UNCHANGED evmTokenVars
  BY <1>0, <1>17, <1>a DEF evmTokenVars, TokenTypes, mqVars, tokenVars, tokenRowVars
<1> QED
  BY <1>1, <1>2, <1>3, <1>4, <1>5, <1>6, <1>7, <1>8, <1>9, <1>10, <1>11, <1>12, <1>13, <1>14, <1>15, <1>16, <1>17, <1>18
     DEF EvmTokensNext

-----------------------------------------------------------------------------
(* OneCounts and TransferCountExact                                        *)
CountInv == OneCounts /\ TransferCountExact

CountedTransfers(t) == OfToken(tokenTransfers \ (Counting \cup uncounted), t)

LEMMA ExactIs == TransferCountExact <=> \A t \in Tokens : transferCount[t] = Cardinality(CountedTransfers(t))
BY DEF TransferCountExact, CountedTransfers, Counting, CountsAt

(* No worker begins or ends to count.                                      *)
LEMMA CountStays ==
    ASSUME CountInv, chain' = chain, tokenTransfers' = tokenTransfers, uncounted' = uncounted,
           transferCount' = transferCount,
           \A v \in TokenWorkers : CountsAt(v)' <=> CountsAt(v),
           \A v \in TokenWorkers : CountsAt(v) => Job(v)' = Job(v)
    PROVE  CountInv'
<1>1. OneCounts'
  BY DEF CountInv, OneCounts
<1>2. Counting' = Counting
  BY DEF Counting
<1>3. \A t : CountedTransfers(t)' = CountedTransfers(t)
  BY <1>2 DEF CountedTransfers, OfToken
<1>4. \A t \in Tokens : transferCount'[t] = Cardinality(CountedTransfers(t)')
  BY <1>3, ExactIs DEF CountInv
<1>5. TransferCountExact'
  BY <1>4 DEF TransferCountExact, CountedTransfers, Counting, CountsAt
<1> QED
  BY <1>1, <1>5 DEF CountInv

(* A worker goes on with anything but counting.                            *)
LEMMA CountPasses ==
    ASSUME CountInv, chain' = chain, tokenTransfers' = tokenTransfers, uncounted' = uncounted,
           transferCount' = transferCount, NEW w \in TokenWorkers, Others(w), ~CountsAt(w), ~CountsAt(w)'
    PROVE  CountInv'
<1>1. \A v \in TokenWorkers : CountsAt(v)' <=> CountsAt(v)
  BY DEF Others, CountsAt, Is, HasJob, Job
<1>2. \A v \in TokenWorkers : CountsAt(v) => Job(v)' = Job(v)
  BY DEF Others, Job
<1> QED
  BY <1>1, <1>2, CountStays

(* A new transfer is stored.                                               *)
LEMMA InsertCounts ==
    ASSUME TokenTypes, CountInv, NEW w \in TokenWorkers, HasJob(w), ~CountsAt(w), Job(w).class = "transfer",
           Job(w).i \notin tokenTransfers, Continue(w, "count"),
           tokenTransfers' = tokenTransfers \cup {Job(w).i}, chain' = chain, uncounted' = uncounted,
           transferCount' = transferCount
    PROVE  CountInv'
<1>1. Others(w) /\ tokenWork'[w].step = "count" /\ tokenWork'[w].job = tokenWork[w].job
  BY Continues DEF TokenTypes, JobSteps, Others
<1>2. CountsAt(w)' /\ Job(w)' = Job(w)
  BY <1>1 DEF CountsAt, Is, HasJob, Job
<1>3. \A v \in TokenWorkers \ {w} : (CountsAt(v)' <=> CountsAt(v)) /\ Job(v)' = Job(v)
  BY <1>1 DEF Others, CountsAt, Is, HasJob, Job
<1>4. \A v \in TokenWorkers : CountsAt(v) => Job(v).i \in tokenTransfers \ uncounted
  BY DEF CountInv, OneCounts
<1>5. uncounted \subseteq tokenTransfers
  BY DEF CountInv, OneCounts
<1>6. OneCounts'
  <2>1. \A v \in TokenWorkers : CountsAt(v)' => Job(v)'.i \in tokenTransfers' \ uncounted'
    BY <1>2, <1>3, <1>4, <1>5
  <2>2. \A u, v \in TokenWorkers : CountsAt(u)' /\ CountsAt(v)' /\ u # v => Job(u)'.i # Job(v)'.i
    BY <1>2, <1>3, <1>4 DEF CountInv, OneCounts
  <2> QED
    BY <1>5, <2>1, <2>2 DEF OneCounts
<1>7. Counting' = Counting \cup {Job(w).i}
  BY <1>2, <1>3 DEF Counting
<1>8. tokenTransfers' \ (Counting' \cup uncounted') = tokenTransfers \ (Counting \cup uncounted)
  BY <1>7
<1>9. \A t : CountedTransfers(t)' = CountedTransfers(t)
  BY <1>8 DEF CountedTransfers, OfToken
<1>10. \A t \in Tokens : transferCount'[t] = Cardinality(CountedTransfers(t)')
  BY <1>9, ExactIs DEF CountInv
<1>11. TransferCountExact'
  BY <1>10 DEF TransferCountExact, CountedTransfers, Counting, CountsAt
<1> QED
  BY <1>6, <1>11 DEF CountInv

(* A stored transfer is counted, or its count is lost.                     *)
LEMMA CountCounts ==
    ASSUME TokenTypes, CountInv, NEW w \in TokenWorkers, CountTokenTransfer(w)
    PROVE  CountInv'
<1>a. PICK i : i = Job(w).i
  OBVIOUS
<1>b. PICK s : s = chain[i].token
  OBVIOUS
<1>1. CountsAt(w) /\ HasJob(w) /\ Continue(w, "publish") /\ chain' = chain /\ tokenTransfers' = tokenTransfers
  BY DEF CountTokenTransfer, CountsAt, Is, tokenRowVars
<1>2. Others(w) /\ ~CountsAt(w)'
  BY <1>1, Continues DEF TokenTypes, JobSteps, Others, CountsAt, Is
<1>3. \A v \in TokenWorkers \ {w} : (CountsAt(v)' <=> CountsAt(v)) /\ Job(v)' = Job(v)
  BY <1>2 DEF Others, CountsAt, Is, HasJob, Job
<1>4. i \in tokenTransfers /\ i \notin uncounted /\ i \in Transfers /\ i \in Counting
  BY <1>a, <1>1 DEF CountInv, OneCounts, TokenTypes, Counting
<1>5. \A v \in TokenWorkers \ {w} : CountsAt(v) => Job(v).i # i /\ Job(v).i \in tokenTransfers \ uncounted
  BY <1>a, <1>1 DEF CountInv, OneCounts
<1>6. Counting' = Counting \ {i}
  <2>1. ASSUME NEW x PROVE x \in Counting' <=> \E v \in TokenWorkers \ {w} : CountsAt(v) /\ x = Job(v).i
    <3>1. x \in Counting' <=> \E v \in TokenWorkers : CountsAt(v)' /\ x = Job(v)'.i
      BY DEF Counting
    <3> QED
      BY <1>2, <1>3, <3>1
  <2>2. ASSUME NEW x PROVE x \in Counting <=> \E v \in TokenWorkers : CountsAt(v) /\ x = Job(v).i
    BY DEF Counting
  <2>3. ASSUME NEW x PROVE x \in Counting' <=> x \in Counting /\ x # i
    BY <1>a, <1>1, <1>5, <2>1, <2>2
  <2> QED
    BY <2>3
<1>7. s \in Tokens
  BY <1>b, <1>4, MovesKnown DEF TokenTypes
<1>8. uncounted \subseteq tokenTransfers
  BY DEF CountInv, OneCounts
<1>9. \/ uncounted' = uncounted \cup {i} /\ transferCount' = transferCount
      \/ uncounted' = uncounted /\ transferCount' = [transferCount EXCEPT ![s] = transferCount[s] + 1]
  BY <1>a, <1>b DEF CountTokenTransfer
<1>10. OneCounts'
  <2>1. \A v \in TokenWorkers : CountsAt(v)' => Job(v)'.i \in tokenTransfers' \ uncounted'
    BY <1>1, <1>2, <1>3, <1>5, <1>9
  <2>2. \A u, v \in TokenWorkers : CountsAt(u)' /\ CountsAt(v)' /\ u # v => Job(u)'.i # Job(v)'.i
    BY <1>2, <1>3 DEF CountInv, OneCounts
  <2>3. uncounted' \subseteq tokenTransfers'
    BY <1>1, <1>4, <1>8, <1>9
  <2> QED
    BY <2>1, <2>2, <2>3 DEF OneCounts
<1>11. \A t \in Tokens : transferCount[t] = Cardinality(CountedTransfers(t)) /\ transferCount[t] \in Nat
  BY ExactIs DEF CountInv, TokenTypes
<1>12. \A t \in Tokens : transferCount'[t] = Cardinality(CountedTransfers(t)')
  <2>1. CASE uncounted' = uncounted \cup {i} /\ transferCount' = transferCount
    <3>1. tokenTransfers' \ (Counting' \cup uncounted') = tokenTransfers \ (Counting \cup uncounted)
      BY <1>1, <1>4, <1>6, <2>1
    <3>2. \A t : CountedTransfers(t)' = CountedTransfers(t)
      BY <1>1, <3>1 DEF CountedTransfers, OfToken
    <3> QED
      BY <1>11, <2>1, <3>2
  <2>2. CASE uncounted' = uncounted /\ transferCount' = [transferCount EXCEPT ![s] = transferCount[s] + 1]
    <3>1. /\ tokenTransfers' \ (Counting' \cup uncounted') = (tokenTransfers \ (Counting \cup uncounted)) \cup {i}
          /\ i \notin tokenTransfers \ (Counting \cup uncounted)
      BY <1>1, <1>4, <1>6, <2>2
    <3>2. \A t : t # s => CountedTransfers(t)' = CountedTransfers(t)
      BY <1>1, <1>b, <3>1 DEF CountedTransfers, OfToken
    <3>3. CountedTransfers(s)' = CountedTransfers(s) \cup {i} /\ i \notin CountedTransfers(s)
      <4> DEFINE S == tokenTransfers \ (Counting \cup uncounted)
      <4>1. chain[i].token = s
        BY <1>b
      <4>2. /\ CountedTransfers(s) = {k \in S : chain[k].token = s}
            /\ CountedTransfers(s)' = {k \in S \cup {i} : chain[k].token = s}
        BY <1>1, <3>1 DEF CountedTransfers, OfToken
      <4>3. i \notin S
        BY <3>1
      <4> HIDE DEF S
      <4> QED
        BY <4>1, <4>2, <4>3
    <3>4. IsFiniteSet(CountedTransfers(s))
      <4>1. 1 \in Int /\ ChainLength \in Int
        BY TokenAssumption
      <4>2. IsFiniteSet(Transfers)
        BY <4>1, FS_Interval DEF Transfers
      <4>3. CountedTransfers(s) \subseteq tokenTransfers /\ tokenTransfers \subseteq Transfers
        BY DEF CountedTransfers, OfToken, TokenTypes
      <4> QED
        BY <4>2, <4>3, FS_Subset
    <3>5. Cardinality(CountedTransfers(s)') = Cardinality(CountedTransfers(s)) + 1
      BY <3>3, <3>4, FS_AddElement
    <3>6. transferCount'[s] = transferCount[s] + 1 /\ \A t \in Tokens : t # s => transferCount'[t] = transferCount[t]
      BY <1>7, <2>2 DEF TokenTypes
    <3>7. ASSUME NEW t \in Tokens PROVE transferCount'[t] = Cardinality(CountedTransfers(t)')
      <4>1. CASE t = s
        BY <1>7, <1>11, <3>5, <3>6, <4>1
      <4>2. CASE t # s
        BY <1>11, <3>2, <3>6, <4>2
      <4> QED
        BY <4>1, <4>2
    <3> QED
      BY <3>7
  <2> QED
    BY <1>9, <2>1, <2>2
<1>13. TransferCountExact'
  BY <1>12 DEF TransferCountExact, CountedTransfers, Counting, CountsAt
<1> QED
  BY <1>10, <1>13 DEF CountInv

(* A transfer is stored under no contract: its count is lost.               *)
LEMMA StrayCounts ==
    ASSUME TokenTypes, CountInv, NEW w \in TokenWorkers, InsertStray(w)
    PROVE  CountInv'
<1>a. PICK i : i = Job(w).i
  OBVIOUS
<1>1. /\ ~CountsAt(w) /\ Finish(w) /\ chain' = chain /\ transferCount' = transferCount
      /\ \/ tokenTransfers' = tokenTransfers /\ uncounted' = uncounted
         \/ /\ i \notin tokenTransfers /\ tokenTransfers' = tokenTransfers \cup {i}
            /\ uncounted' = uncounted \cup {i}
  BY <1>a DEF InsertStray, CountsAt, Is, Retry, tokenVars
<1>2. Others(w) /\ ~CountsAt(w)'
  BY <1>1, Finishes DEF TokenTypes, Others, CountsAt, Is
<1>3. \A v \in TokenWorkers : CountsAt(v)' <=> CountsAt(v)
  BY <1>1, <1>2 DEF Others, CountsAt, Is, HasJob, Job
<1>4. \A v \in TokenWorkers : CountsAt(v) => Job(v)' = Job(v)
  BY <1>1, <1>2 DEF Others, Job
<1>5. CASE tokenTransfers' = tokenTransfers /\ uncounted' = uncounted
  BY <1>1, <1>2, <1>5, CountPasses
<1>6. CASE /\ i \notin tokenTransfers /\ tokenTransfers' = tokenTransfers \cup {i}
           /\ uncounted' = uncounted \cup {i}
  <2>1. \A v \in TokenWorkers : CountsAt(v) => Job(v).i \in tokenTransfers \ uncounted
    BY DEF CountInv, OneCounts
  <2>2. uncounted \subseteq tokenTransfers
    BY DEF CountInv, OneCounts
  <2>3. OneCounts'
    <3>1. \A v \in TokenWorkers : CountsAt(v)' => Job(v)'.i \in tokenTransfers' \ uncounted'
      BY <1>3, <1>4, <1>6, <2>1
    <3>2. \A u, v \in TokenWorkers : CountsAt(u)' /\ CountsAt(v)' /\ u # v => Job(u)'.i # Job(v)'.i
      BY <1>3, <1>4 DEF CountInv, OneCounts
    <3> QED
      BY <1>6, <2>2, <3>1, <3>2 DEF OneCounts
  <2>4. Counting' = Counting
    BY <1>3, <1>4 DEF Counting
  <2>5. tokenTransfers' \ (Counting' \cup uncounted') = tokenTransfers \ (Counting \cup uncounted)
    BY <1>6, <2>4
  <2>6. \A t : CountedTransfers(t)' = CountedTransfers(t)
    BY <1>1, <2>5 DEF CountedTransfers, OfToken
  <2>7. \A t \in Tokens : transferCount'[t] = Cardinality(CountedTransfers(t)')
    BY <1>1, <2>6, ExactIs DEF CountInv
  <2>8. TransferCountExact'
    BY <2>7 DEF TransferCountExact, CountedTransfers, Counting, CountsAt
  <2> QED
    BY <2>3, <2>8 DEF CountInv
<1> QED
  BY <1>1, <1>5, <1>6

(* A crash: the counts under way are lost.                                 *)
LEMMA CrashCounts ==
    ASSUME TokenTypes, CountInv, RestartToken
    PROVE  CountInv'
<1>1. /\ uncounted' = uncounted \cup Counting /\ tokenWork' = [w \in TokenWorkers |-> TokenIdle]
      /\ chain' = chain /\ tokenTransfers' = tokenTransfers /\ transferCount' = transferCount
  <2>1. {Job(w).i : w \in {v \in {u \in TokenWorkers : HasJob(u)} : Is(v, "transfer", "count")}} = Counting
    BY DEF Counting, CountsAt, Is
  <2> QED
    BY <2>1 DEF RestartToken, tokenVars, tokenRowVars
<1>2. \A v \in TokenWorkers : ~CountsAt(v)'
  BY <1>1 DEF CountsAt, Is, HasJob, TokenIdle
<1>3. Counting' = {}
  BY <1>2 DEF Counting
<1>4. Counting \subseteq tokenTransfers /\ uncounted \subseteq tokenTransfers
  BY DEF CountInv, OneCounts, Counting
<1>5. OneCounts'
  BY <1>1, <1>2, <1>4 DEF OneCounts
<1>6. tokenTransfers' \ (Counting' \cup uncounted') = tokenTransfers \ (Counting \cup uncounted)
  BY <1>1, <1>3
<1>7. \A t : CountedTransfers(t)' = CountedTransfers(t)
  BY <1>1, <1>6 DEF CountedTransfers, OfToken
<1>8. \A t \in Tokens : transferCount'[t] = Cardinality(CountedTransfers(t)')
  BY <1>1, <1>7, ExactIs DEF CountInv
<1>9. TransferCountExact'
  BY <1>8 DEF TransferCountExact, CountedTransfers, Counting, CountsAt
<1> QED
  BY <1>5, <1>9 DEF CountInv

LEMMA CountStep ==
    ASSUME TokenTypes, CountInv, [EvmTokensNext]_evmTokenVars
    PROVE  CountInv'
<1>0. WorkTyped
  BY DEF TokenTypes
<1>a. ASSUME NEW w \in TokenWorkers, HasJob(w), ~CountsAt(w),
             Finish(w) \/ \E s \in JobSteps \ {"count"} : Continue(w, s) \/ \E x : Known(w, s, x),
             UNCHANGED <<chain, tokenTransfers, uncounted, transferCount>>
      PROVE  CountInv'
  <2>1. Others(w) /\ ~CountsAt(w)'
    <3>1. CASE Finish(w)
      BY <1>0, <3>1, Finishes DEF Others, CountsAt, Is
    <3>2. ASSUME NEW s \in JobSteps \ {"count"}, Continue(w, s) PROVE Others(w) /\ ~CountsAt(w)'
      BY <1>0, <1>a, <3>2, Continues DEF Others, CountsAt, Is
    <3>3. ASSUME NEW s \in JobSteps \ {"count"}, NEW x, Known(w, s, x) PROVE Others(w) /\ ~CountsAt(w)'
      BY <1>0, <1>a, <3>3, Knows DEF Others, CountsAt, Is
    <3> QED
      BY <1>a, <3>1, <3>2, <3>3
  <2> QED
    BY <1>a, <2>1, CountPasses
<1>b. ASSUME UNCHANGED <<tokenWork, chain, tokenTransfers, uncounted, transferCount>>
      PROVE  CountInv'
  BY <1>b, CountStays DEF CountsAt, Is, HasJob, Job
<1>1. CASE ChainMoves \/ LimiterExpires
  BY <1>1, <1>b DEF ChainMoves, LimiterExpires, tokenVars, tokenRowVars
<1>2. CASE RestartToken
  BY <1>2, CrashCounts
<1>3. ASSUME NEW i \in Transfers, EventProcess(i) PROVE CountInv'
  BY <1>3, <1>b DEF EventProcess, tokenVars, tokenRowVars
<1>4. ASSUME NEW t \in Tokens, NEW a \in Holders, DepositOrWithdraw(t, a) PROVE CountInv'
  BY <1>4, <1>b DEF DepositOrWithdraw, tokenVars, tokenRowVars
<1>5. ASSUME NEW w \in TokenWorkers, NEW j \in Jobs, TakeTokenJob(w, j) PROVE CountInv'
  <2>1. Others(w) /\ ~CountsAt(w)' /\ ~CountsAt(w)
    BY <1>0, <1>5, Takes DEF Others, CountsAt, Is, TakeTokenJob
  <2> QED
    BY <1>5, <2>1, CountPasses DEF TakeTokenJob, tokenVars, tokenRowVars
<1>6. ASSUME NEW w \in TokenWorkers, TouchToken(w) PROVE CountInv'
  <2>1. /\ HasJob(w) /\ ~CountsAt(w) /\ (Continue(w, "insert") \/ Continue(w, "stray"))
        /\ UNCHANGED <<chain, tokenTransfers, uncounted, transferCount>>
    BY <1>6 DEF TouchToken, Is, CountsAt, tokenVars, tokenRowVars
  <2> QED
    BY <1>a, <2>1 DEF JobSteps
<1>7. ASSUME NEW w \in TokenWorkers, InsertTransfer(w) PROVE CountInv'
  <2>1. /\ HasJob(w) /\ ~CountsAt(w) /\ Job(w).class = "transfer" /\ UNCHANGED <<chain, uncounted, transferCount>>
    BY <1>7 DEF InsertTransfer, Is, CountsAt
  <2>2. CASE Finish(w) /\ tokenTransfers' = tokenTransfers
    BY <1>a, <2>1, <2>2
  <2>3. CASE /\ Job(w).i \notin tokenTransfers /\ Continue(w, "count")
             /\ tokenTransfers' = tokenTransfers \cup {Job(w).i}
    BY <2>1, <2>3, InsertCounts
  <2> QED
    BY <1>7, <2>2, <2>3 DEF InsertTransfer, Retry
<1>8. ASSUME NEW w \in TokenWorkers, CountTokenTransfer(w) PROVE CountInv'
  BY <1>8, CountCounts
<1>9. ASSUME NEW w \in TokenWorkers, PublishRefreshes(w) PROVE CountInv'
  <2>1. /\ HasJob(w) /\ ~CountsAt(w) /\ Finish(w) /\ UNCHANGED <<chain, tokenTransfers, uncounted, transferCount>>
    BY <1>9 DEF PublishRefreshes, Is, CountsAt, tokenVars, tokenRowVars
  <2> QED
    BY <1>a, <2>1
<1>10. ASSUME NEW w \in TokenWorkers, ReadBalance(w) PROVE CountInv'
  <2>1. /\ HasJob(w) /\ ~CountsAt(w) /\ UNCHANGED <<chain, tokenTransfers, uncounted, transferCount>>
        /\ Finish(w) \/ \E x : Known(w, "upsert", x)
    BY <1>10 DEF ReadBalance, Is, CountsAt, tokenVars, tokenRowVars, Retry
  <2> QED
    BY <1>a, <2>1 DEF JobSteps
<1>11. ASSUME NEW w \in TokenWorkers, UpsertBalance(w) PROVE CountInv'
  <2>1. /\ HasJob(w) /\ ~CountsAt(w) /\ UNCHANGED <<chain, tokenTransfers, uncounted, transferCount>>
        /\ Finish(w) \/ Continue(w, "recount")
    BY <1>11 DEF UpsertBalance, Is, CountsAt, tokenVars, Retry
  <2> QED
    BY <1>a, <2>1 DEF JobSteps
<1>12. ASSUME NEW w \in TokenWorkers, CountHolders(w) PROVE CountInv'
  <2>1. /\ HasJob(w) /\ ~CountsAt(w) /\ UNCHANGED <<chain, tokenTransfers, uncounted, transferCount>>
        /\ \E x : Known(w, "holders", x)
    BY <1>12 DEF CountHolders, Is, CountsAt, tokenVars, tokenRowVars
  <2> QED
    BY <1>a, <2>1 DEF JobSteps
<1>13. ASSUME NEW w \in TokenWorkers, RefreshTokenHolder(w) \/ WriteCollectible(w) PROVE CountInv'
  <2>1. /\ HasJob(w) /\ ~CountsAt(w) /\ Finish(w) /\ UNCHANGED <<chain, tokenTransfers, uncounted, transferCount>>
    BY <1>13 DEF RefreshTokenHolder, WriteCollectible, Is, CountsAt, tokenRowVars
  <2> QED
    BY <1>a, <2>1
<1>14. ASSUME NEW w \in TokenWorkers, ReadOwner(w) PROVE CountInv'
  <2>1. /\ HasJob(w) /\ ~CountsAt(w) /\ UNCHANGED <<chain, tokenTransfers, uncounted, transferCount>>
        /\ Finish(w) \/ \E x : Known(w, "find", x)
    BY <1>14 DEF ReadOwner, Is, CountsAt, tokenVars, tokenRowVars, Retry
  <2> QED
    BY <1>a, <2>1 DEF JobSteps
<1>15. ASSUME NEW w \in TokenWorkers, FindCollectible(w) PROVE CountInv'
  <2>1. /\ HasJob(w) /\ ~CountsAt(w) /\ UNCHANGED <<chain, tokenTransfers, uncounted, transferCount>>
        /\ Continue(w, "absent") \/ Continue(w, "present")
    BY <1>15 DEF FindCollectible, Is, CountsAt, tokenVars, tokenRowVars
  <2> QED
    BY <1>a, <2>1 DEF JobSteps
<1>16. CASE UNCHANGED evmTokenVars
  BY <1>16, <1>b DEF evmTokenVars, tokenVars, tokenRowVars
<1>17. ASSUME NEW w \in TokenWorkers, InsertStray(w) PROVE CountInv'
  BY <1>17, StrayCounts
<1> QED
  BY <1>1, <1>2, <1>3, <1>4, <1>5, <1>6, <1>7, <1>8, <1>9, <1>10, <1>11, <1>12, <1>13, <1>14, <1>15, <1>16, <1>17
     DEF EvmTokensNext

-----------------------------------------------------------------------------
(* LimitedHeard and HoldersTracked                                         *)
LEMMA HeardStays ==
    ASSUME NEW t, NEW a, Heard(t, a),
           holdings[<<t, a>>] # -1 => holdings'[<<t, a>>] # -1,
           \A c \in Categories : queued[BalanceJob(c, t, a)] > 0 => queued'[BalanceJob(c, t, a)] > 0,
           unheard \subseteq unheard',
           \A w \in TokenWorkers : OnBalance(w, t, a) => OnBalance(w, t, a)'
    PROVE  Heard(t, a)'
BY DEF Heard, BalanceJob

(* Jobs are only added, and a worker makes a step.                         *)
LEMMA HeardMoves ==
    ASSUME TokenTypes, NEW t \in Tokens, NEW a \in Holders, Heard(t, a),
           holdings[<<t, a>>] # -1 => holdings'[<<t, a>>] # -1,
           queued' \in [Jobs -> Nat], \A j \in Jobs : queued'[j] >= queued[j], unheard \subseteq unheard',
           NEW w \in TokenWorkers, Others(w), OnBalance(w, t, a) => OnBalance(w, t, a)' \/ Heard(t, a)'
    PROVE  Heard(t, a)'
<1>1. ASSUME NEW c \in Categories, queued[BalanceJob(c, t, a)] > 0 PROVE queued'[BalanceJob(c, t, a)] > 0
  <2>1. BalanceJob(c, t, a) \in Jobs
    BY BalanceIsJob
  <2>2. /\ queued'[BalanceJob(c, t, a)] >= queued[BalanceJob(c, t, a)]
        /\ queued[BalanceJob(c, t, a)] \in Nat /\ queued'[BalanceJob(c, t, a)] \in Nat
    BY <2>1 DEF TokenTypes
  <2> QED
    BY <1>1, <2>2
<1>2. \A v \in TokenWorkers \ {w} : OnBalance(v, t, a) => OnBalance(v, t, a)'
  BY DEF Others, OnBalance, HasJob, Job
<1>3. CASE Heard(t, a)'
  BY <1>3
<1>4. CASE OnBalance(w, t, a) => OnBalance(w, t, a)'
  <2>1. \A v \in TokenWorkers : OnBalance(v, t, a) => OnBalance(v, t, a)'
    BY <1>2, <1>4
  <2> QED
    BY <1>1, <2>1, HeardStays
<1> QED
  BY <1>3, <1>4

(* The jobs of a crash are back, and what was to be published is known.    *)
LEMMA HeardAfterCrash ==
    ASSUME TokenTypes, NEW t \in Tokens, NEW a \in Holders, Heard(t, a), RestartToken
    PROVE  Heard(t, a)'
<1> DEFINE S(j) == {w \in {v \in TokenWorkers : HasJob(v)} : Job(w) = j}
<1>1. \A j : IsFiniteSet(S(j)) /\ Cardinality(S(j)) \in Nat
  <2> TAKE j
  <2>1. IsFiniteSet(S(j))
    BY TokenAssumption, FS_Subset
  <2> QED
    BY <2>1, FS_CardinalityType
<1>2. \A j \in Jobs : queued'[j] = queued[j] + Cardinality(S(j))
  BY DEF RestartToken
<1>3. holdings' = holdings /\ unheard \subseteq unheard'
  BY DEF RestartToken, tokenRowVars
<1>4. CASE \E w \in TokenWorkers : OnBalance(w, t, a)
  <2>1. PICK w \in TokenWorkers : OnBalance(w, t, a)
    BY <1>4
  <2>2. PICK j \in Jobs : j = Job(w)
    BY <2>1 DEF TokenTypes, WorkTyped, TokenWorked, OnBalance, HasJob, Job, TokenIdle
  <2>3. j.queue \in Categories /\ j = BalanceJob(j.queue, t, a)
    BY <2>1, <2>2, JobKinds DEF OnBalance
  <2>4. w \in S(j)
    BY <2>1, <2>2 DEF OnBalance
  <2> HIDE DEF S
  <2>5. Cardinality(S(j)) > 0
    BY <1>1, <2>4, FS_EmptySet
  <2>6. queued'[j] > 0
    BY <1>1, <1>2, <2>5 DEF TokenTypes
  <2>7. PICK c \in Categories : c = j.queue
    BY <2>3
  <2>8. queued'[BalanceJob(c, t, a)] > 0
    BY <2>3, <2>6, <2>7
  <2> QED
    BY <2>8 DEF Heard, BalanceJob
<1>5. CASE ~\E w \in TokenWorkers : OnBalance(w, t, a)
  <2> HIDE DEF S
  <2>1. ASSUME NEW c \in Categories, queued[BalanceJob(c, t, a)] > 0 PROVE queued'[BalanceJob(c, t, a)] > 0
    <3>1. PICK j \in Jobs : j = BalanceJob(c, t, a)
      BY BalanceIsJob
    <3>2. queued[j] \in Nat /\ queued[j] > 0
      BY <2>1, <3>1 DEF TokenTypes
    <3>3. queued'[j] > 0
      BY <1>1, <1>2, <3>2
    <3> QED
      BY <3>1, <3>3
  <2> QED
    BY <1>3, <1>5, <2>1, HeardStays
<1> QED
  BY <1>4, <1>5

(* A balance job that failed waits again, or is remembered.                *)
LEMMA RetriesHeard ==
    ASSUME TokenTypes, NEW t \in Tokens, NEW a \in Holders, NEW w \in TokenWorkers, OnBalance(w, t, a), Retry(w)
    PROVE  Heard(t, a)'
<1>1. HasJob(w)
  BY DEF OnBalance
<1>2. PICK j \in Jobs : j = Job(w)
  BY <1>1 DEF TokenTypes, WorkTyped, TokenWorked, HasJob, Job, TokenIdle
<1>3. PICK c \in Categories : j = BalanceJob(c, t, a)
  BY <1>2, JobKinds DEF OnBalance
<1>4. CASE queued'[j] > 0
  <2>1. queued'[BalanceJob(c, t, a)] > 0
    BY <1>3, <1>4
  <2> QED
    BY <2>1 DEF Heard, BalanceJob
<1>5. CASE <<t, a>> \in unheard'
  BY <1>5 DEF Heard
<1> QED
  BY <1>1, <1>2, <1>4, <1>5, Retries DEF OnBalance

LEMMA HeardStep ==
    ASSUME TokenTypes, BalancesKnown, [EvmTokensNext]_evmTokenVars,
           NEW t \in Tokens, NEW a \in Holders, Heard(t, a)
    PROVE  Heard(t, a)'
<1>0. /\ WorkTyped /\ queued \in [Jobs -> Nat] /\ \A j \in Jobs : queued[j] >= queued[j]
      /\ holdings \in [Tokens \X Holders -> Int] /\ <<t, a>> \in Tokens \X Holders
  BY DEF TokenTypes
<1>b. ASSUME NEW w \in TokenWorkers, HasJob(w) PROVE Job(w) \in Jobs
  BY <1>0, <1>b DEF WorkTyped, TokenWorked, HasJob, Job, TokenIdle
<1>c. ASSUME NEW w \in TokenWorkers, HasJob(w), OnBalance(w, t, a) => Heard(t, a)' \/ ~Finish(w),
             Finish(w) \/ \E s \in JobSteps : Continue(w, s) \/ \E x : Known(w, s, x),
             queued' \in [Jobs -> Nat], \A j \in Jobs : queued'[j] >= queued[j], unheard \subseteq unheard',
             holdings[<<t, a>>] # -1 => holdings'[<<t, a>>] # -1
      PROVE  Heard(t, a)'
  <2>1. ASSUME Others(w), Moves(w, tokenWork'[w].step), tokenWork'[w].step # "idle" PROVE Heard(t, a)'
    <3>1. OnBalance(w, t, a) => OnBalance(w, t, a)'
      BY <2>1 DEF Moves, OnBalance, HasJob, Job
    <3> QED
      BY <1>c, <2>1, <3>1, HeardMoves
  <2>2. CASE Finish(w)
    <3>1. Others(w)
      BY <1>0, <2>2, Finishes DEF Others
    <3> QED
      BY <1>c, <2>2, <3>1, HeardMoves
  <2>3. ASSUME NEW s \in JobSteps, Continue(w, s) PROVE Heard(t, a)'
    BY <1>0, <1>c, <2>1, <2>3, Continues DEF Others, Moves, JobSteps
  <2>4. ASSUME NEW s \in JobSteps, NEW x, Known(w, s, x) PROVE Heard(t, a)'
    BY <1>0, <1>c, <2>1, <2>4, Knows DEF Others, Moves, JobSteps
  <2> QED
    BY <1>c, <2>2, <2>3, <2>4
<1>d. ASSUME UNCHANGED <<tokenWork, holdings>>, unheard \subseteq unheard',
             queued' \in [Jobs -> Nat], \A j \in Jobs : queued'[j] >= queued[j]
      PROVE  Heard(t, a)'
  <2>1. \A w \in TokenWorkers : OnBalance(w, t, a) => OnBalance(w, t, a)'
    BY <1>d DEF OnBalance, HasJob, Job
  <2>2. ASSUME NEW c \in Categories, queued[BalanceJob(c, t, a)] > 0 PROVE queued'[BalanceJob(c, t, a)] > 0
    <3>1. PICK j \in Jobs : j = BalanceJob(c, t, a)
      BY BalanceIsJob
    <3>2. queued[j] > 0 /\ queued'[j] >= queued[j] /\ queued[j] \in Nat /\ queued'[j] \in Nat
      BY <1>0, <1>d, <2>2, <3>1
    <3>3. queued'[j] > 0
      BY <3>2
    <3> QED
      BY <3>1, <3>3
  <2> QED
    BY <1>d, <2>1, <2>2, HeardStays
<1>1. CASE ChainMoves \/ LimiterExpires
  BY <1>0, <1>1, <1>d DEF ChainMoves, LimiterExpires, mqVars, tokenRowVars
<1>2. CASE RestartToken
  BY <1>2, HeardAfterCrash
<1>3. ASSUME NEW i \in Transfers, EventProcess(i) PROVE Heard(t, a)'
  <2>1. UNCHANGED <<tokenWork, holdings>> /\ \E js, unsent : Publish(js, unsent)
    BY <1>3 DEF EventProcess, PublishAll, tokenRowVars
  <2>2. Adds
    BY <1>0, <2>1, Publishes
  <2> QED
    BY <1>d, <2>1, <2>2 DEF Adds
<1>4. ASSUME NEW u \in Tokens, NEW b \in Holders, DepositOrWithdraw(u, b) PROVE Heard(t, a)'
  <2>1. UNCHANGED <<tokenWork, holdings>> /\ \E js, unsent : Publish(js, unsent)
    BY <1>4 DEF DepositOrWithdraw, tokenRowVars
  <2>2. Adds
    BY <1>0, <2>1, Publishes
  <2> QED
    BY <1>d, <2>1, <2>2 DEF Adds
<1>5. ASSUME NEW w \in TokenWorkers, NEW j \in Jobs, TakeTokenJob(w, j) PROVE Heard(t, a)'
  <2>1. Others(w) /\ tokenWork'[w].step = "start" /\ tokenWork'[w].job = j /\ ~HasJob(w)
    BY <1>0, <1>5, Takes DEF Others, TakeTokenJob
  <2>2. \A v \in TokenWorkers : OnBalance(v, t, a) => OnBalance(v, t, a)'
    BY <2>1 DEF Others, OnBalance, HasJob, Job
  <2>3. holdings' = holdings /\ unheard' = unheard /\ queued' = [queued EXCEPT ![j] = queued[j] - 1]
    BY <1>5 DEF TakeTokenJob, tokenRowVars
  <2>4. CASE j.class = "balance" /\ j.token = t /\ j.who = a
    <3>1. OnBalance(w, t, a)'
      BY <2>1, <2>4 DEF OnBalance, HasJob, Job
    <3> QED
      BY <3>1 DEF Heard
  <2>5. CASE ~(j.class = "balance" /\ j.token = t /\ j.who = a)
    <3>1. ASSUME NEW c \in Categories PROVE queued'[BalanceJob(c, t, a)] = queued[BalanceJob(c, t, a)]
      <4>1. PICK k \in Jobs : k = BalanceJob(c, t, a)
        BY BalanceIsJob
      <4>2. k # j
        BY <2>5, <4>1, BalanceIsJob
      <4>3. queued'[k] = queued[k]
        BY <1>0, <2>3, <4>2
      <4> QED
        BY <4>1, <4>3
    <3> QED
      BY <2>2, <2>3, <3>1, HeardStays
  <2> QED
    BY <2>4, <2>5
<1>6. ASSUME NEW w \in TokenWorkers, TouchToken(w) PROVE Heard(t, a)'
  <2>1. /\ HasJob(w) /\ ~OnBalance(w, t, a) /\ (Continue(w, "insert") \/ Continue(w, "stray"))
        /\ UNCHANGED <<queued, holdings, unheard>>
    BY <1>6 DEF TouchToken, Is, OnBalance, mqVars, tokenRowVars
  <2> QED
    BY <1>0, <1>c, <2>1 DEF JobSteps
<1>7. ASSUME NEW w \in TokenWorkers, InsertTransfer(w) PROVE Heard(t, a)'
  <2>1. /\ HasJob(w) /\ ~OnBalance(w, t, a) /\ holdings' = holdings
        /\ Finish(w) \/ Continue(w, "count")
        /\ UNCHANGED <<queued, unheard>> \/ Retry(w)
    BY <1>7 DEF InsertTransfer, Is, OnBalance, mqVars, Retry
  <2>2. Adds
    BY <1>0, <2>1, Retries DEF Adds
  <2> QED
    BY <1>c, <2>1, <2>2 DEF JobSteps, Adds
<1>18. ASSUME NEW w \in TokenWorkers, InsertStray(w) PROVE Heard(t, a)'
  <2>1. HasJob(w) /\ ~OnBalance(w, t, a) /\ holdings' = holdings /\ Finish(w)
    BY <1>18 DEF InsertStray, Is, OnBalance, Retry
  <2>2. Retry(w) \/ (queued' = queued /\ unheard \subseteq unheard')
    BY <1>18 DEF InsertStray, mqVars
  <2>3. Adds
    BY <1>0, <2>1, <2>2, Retries DEF Adds
  <2> QED
    BY <1>c, <2>1, <2>3 DEF Adds
<1>8. ASSUME NEW w \in TokenWorkers, CountTokenTransfer(w) PROVE Heard(t, a)'
  <2>1. /\ HasJob(w) /\ ~OnBalance(w, t, a) /\ Continue(w, "publish")
        /\ UNCHANGED <<queued, holdings, unheard>>
    BY <1>8 DEF CountTokenTransfer, Is, OnBalance, mqVars, tokenRowVars
  <2> QED
    BY <1>0, <1>c, <2>1 DEF JobSteps
<1>9. ASSUME NEW w \in TokenWorkers, PublishRefreshes(w) PROVE Heard(t, a)'
  <2>1. /\ HasJob(w) /\ ~OnBalance(w, t, a) /\ Finish(w) /\ holdings' = holdings /\ \E js : PublishAll(js)
    BY <1>9 DEF PublishRefreshes, Is, OnBalance, tokenRowVars
  <2>2. Adds
    BY <1>0, <2>1, PublishesAll
  <2> QED
    BY <1>c, <2>1, <2>2 DEF Adds
<1>10. ASSUME NEW w \in TokenWorkers, ReadBalance(w) PROVE Heard(t, a)'
  <2>1. HasJob(w) /\ holdings' = holdings /\ Job(w).class = "balance"
    BY <1>10 DEF ReadBalance, Is, tokenRowVars
  <2>2. CASE Finish(w) /\ Unheard({Job(w)}) /\ queued' = queued
    <3>1. <<Job(w).token, Job(w).who>> \in unheard' /\ unheard \subseteq unheard'
      BY <2>1, <2>2 DEF Unheard
    <3>2. OnBalance(w, t, a) => Heard(t, a)'
      BY <3>1 DEF OnBalance, Heard
    <3> QED
      BY <1>0, <1>c, <2>1, <2>2, <3>1, <3>2
  <2>3. CASE Retry(w)
    <3>1. Finish(w) /\ Adds
      BY <2>1, <2>3, Retries
    <3>2. OnBalance(w, t, a) => Heard(t, a)'
      BY <2>3, RetriesHeard
    <3> QED
      BY <1>c, <2>1, <3>1, <3>2 DEF Adds
  <2>4. ASSUME NEW x, Known(w, "upsert", x), queued' = queued, unheard' = unheard PROVE Heard(t, a)'
    <3>1. Others(w) /\ tokenWork'[w].step = "upsert" /\ tokenWork'[w].job = tokenWork[w].job
      BY <1>0, <2>1, <2>4, Knows DEF Others, JobSteps
    <3>2. OnBalance(w, t, a) => OnBalance(w, t, a)'
      BY <3>1 DEF OnBalance, HasJob, Job
    <3> QED
      BY <1>0, <2>1, <2>4, <3>1, <3>2, HeardMoves
  <2> QED
    BY <1>10, <2>2, <2>3, <2>4 DEF ReadBalance, mqVars
<1>11. ASSUME NEW w \in TokenWorkers, UpsertBalance(w) PROVE Heard(t, a)'
  <2>1. PICK h : h = <<Job(w).token, Job(w).who>>
    OBVIOUS
  <2>2. PICK b : b = tokenWork[w].read
    OBVIOUS
  <2>3. /\ HasJob(w) /\ Job(w).class = "balance" /\ b \in Nat
        /\ \/ Retry(w) /\ holdings' = holdings
           \/ /\ UNCHANGED <<queued, unheard>>
              /\ holdings' = [holdings EXCEPT ![h] = b] /\ (Finish(w) \/ Continue(w, "recount"))
    BY <1>11, <2>1, <2>2 DEF UpsertBalance, Is, BalancesKnown, mqVars
  <2>4. h \in Tokens \X Holders
    BY <1>b, <2>1, <2>3, JobKinds
  <2>5. CASE Retry(w) /\ holdings' = holdings
    <3>1. Finish(w) /\ Adds
      BY <2>3, <2>5, Retries
    <3>2. OnBalance(w, t, a) => Heard(t, a)'
      BY <2>5, RetriesHeard
    <3> QED
      BY <1>c, <2>3, <2>5, <3>1, <3>2 DEF Adds
  <2>6. CASE /\ UNCHANGED <<queued, unheard>>
             /\ holdings' = [holdings EXCEPT ![h] = b] /\ (Finish(w) \/ Continue(w, "recount"))
    <3>1. /\ holdings'[h] # -1
          /\ \A k \in Tokens \X Holders : holdings[k] # -1 => holdings'[k] # -1
      BY <1>0, <2>3, <2>4, <2>6
    <3>2. OnBalance(w, t, a) => Heard(t, a)'
      BY <2>1, <3>1 DEF OnBalance, Heard
    <3> QED
      BY <1>0, <1>c, <2>3, <2>6, <3>1, <3>2 DEF JobSteps
  <2> QED
    BY <2>3, <2>5, <2>6
<1>12. ASSUME NEW w \in TokenWorkers, CountHolders(w) PROVE Heard(t, a)'
  <2>1. /\ HasJob(w) /\ UNCHANGED <<queued, holdings, unheard>> /\ \E x : Known(w, "holders", x)
    BY <1>12 DEF CountHolders, Is, mqVars, tokenRowVars
  <2>2. Others(w) /\ tokenWork'[w].step = "holders" /\ tokenWork'[w].job = tokenWork[w].job
    BY <1>0, <2>1, Knows DEF Others, JobSteps
  <2>3. OnBalance(w, t, a) => OnBalance(w, t, a)'
    BY <2>2 DEF OnBalance, HasJob, Job
  <2> QED
    BY <1>0, <2>1, <2>2, <2>3, HeardMoves
<1>13. ASSUME NEW w \in TokenWorkers, RefreshTokenHolder(w) PROVE Heard(t, a)'
  <2>1. /\ HasJob(w) /\ Finish(w) /\ UNCHANGED <<queued, holdings, unheard>> /\ Is(w, "balance", "holders")
    BY <1>13 DEF RefreshTokenHolder, mqVars, tokenRowVars, Is
  <2>2. OnBalance(w, t, a) => Heard(t, a)'
    BY <2>1 DEF OnBalance, Heard, BalancesKnown
  <2> QED
    BY <1>0, <1>c, <2>1, <2>2
<1>14. ASSUME NEW w \in TokenWorkers, ReadOwner(w) PROVE Heard(t, a)'
  <2>1. /\ HasJob(w) /\ ~OnBalance(w, t, a) /\ holdings' = holdings
        /\ Finish(w) \/ \E x : Known(w, "find", x)
        /\ UNCHANGED <<queued, unheard>> \/ Retry(w)
    BY <1>14 DEF ReadOwner, Is, OnBalance, mqVars, tokenRowVars, Retry
  <2>2. Adds
    BY <1>0, <2>1, Retries DEF Adds
  <2> QED
    BY <1>c, <2>1, <2>2 DEF JobSteps, Adds
<1>15. ASSUME NEW w \in TokenWorkers, FindCollectible(w) PROVE Heard(t, a)'
  <2>1. /\ HasJob(w) /\ ~OnBalance(w, t, a) /\ UNCHANGED <<queued, holdings, unheard>>
        /\ Continue(w, "absent") \/ Continue(w, "present")
    BY <1>15 DEF FindCollectible, Is, OnBalance, mqVars, tokenRowVars
  <2> QED
    BY <1>0, <1>c, <2>1 DEF JobSteps
<1>16. ASSUME NEW w \in TokenWorkers, WriteCollectible(w) PROVE Heard(t, a)'
  <2>1. /\ HasJob(w) /\ ~OnBalance(w, t, a) /\ Finish(w) /\ UNCHANGED <<queued, holdings, unheard>>
    BY <1>16 DEF WriteCollectible, Is, OnBalance, mqVars
  <2> QED
    BY <1>0, <1>c, <2>1
<1>17. CASE UNCHANGED evmTokenVars
  BY <1>0, <1>17, <1>d DEF evmTokenVars, mqVars, tokenRowVars
<1> QED
  BY <1>1, <1>2, <1>3, <1>4, <1>5, <1>6, <1>7, <1>8, <1>9, <1>10, <1>11, <1>12, <1>13, <1>14, <1>15, <1>16, <1>17, <1>18
     DEF EvmTokensNext

(* The parties of a transfer a worker has stored and not yet published.    *)
Announces(w, t, a) ==
    /\ Is(w, "transfer", "count") \/ Is(w, "transfer", "publish")
    /\ chain[Job(w).i].token = t /\ a \in {chain[Job(w).i].from, chain[Job(w).i].to}

LEMMA TrackedIs ==
    HoldersTracked <=>
        \A i \in tokenTransfers : \A a \in {chain[i].from, chain[i].to} :
            Heard(chain[i].token, a) \/ \E w \in TokenWorkers : Announces(w, chain[i].token, a)
<1>1. ASSUME NEW t, NEW a
      PROVE  (holdings[<<t, a>>] # -1 \/ OnItsWay(t, a) \/ <<t, a>> \in unheard)
                <=> (Heard(t, a) \/ \E w \in TokenWorkers : Announces(w, t, a))
  BY DEF OnItsWay, Heard, BalanceJob, OnBalance, Announces, Is
<1> QED
  BY <1>1 DEF HoldersTracked

(* What is published is queued, or was heard of before.                    *)
LEMMA PublishedHeard ==
    ASSUME TokenTypes, LimitedHeard, NEW js, NEW unsent, Publish(js, unsent), NEW t \in Tokens, NEW a \in Holders,
           Heard(t, a) => Heard(t, a)', NEW c \in Categories, BalanceJob(c, t, a) \in js
    PROVE  Heard(t, a)'
<1>1. PICK j \in Jobs : j = BalanceJob(c, t, a)
  BY BalanceIsJob
<1>2. CASE j \in limited
  BY <1>1, <1>2 DEF LimitedHeard
<1>4. CASE j \in unsent
  <2>1. <<t, a>> \in unheard'
    BY <1>1, <1>4 DEF Publish, Unheard, BalanceJob
  <2> QED
    BY <2>1 DEF Heard
<1>3. CASE j \notin limited /\ j \notin unsent
  <2>1. queued'[j] > 0
    BY <1>1, <1>3, Publishes DEF TokenTypes
  <2>2. queued'[BalanceJob(c, t, a)] > 0
    BY <1>1, <2>1
  <2> QED
    BY <2>2 DEF Heard, BalanceJob
<1> QED
  BY <1>2, <1>3, <1>4

LEMMA LimitedStep ==
    ASSUME TokenTypes, BalancesKnown, LimitedHeard, [EvmTokensNext]_evmTokenVars
    PROVE  LimitedHeard'
<1> SUFFICES ASSUME NEW t \in Tokens, NEW a \in Holders, NEW c \in Categories, BalanceJob(c, t, a) \in limited'
             PROVE  Heard(t, a)'
  BY DEF LimitedHeard, BalanceJob
<1>1. Heard(t, a) => Heard(t, a)'
  BY HeardStep
<1>2. CASE BalanceJob(c, t, a) \in limited
  BY <1>1, <1>2 DEF LimitedHeard
<1>3. CASE limited' \subseteq limited
  BY <1>2, <1>3
<1>4. ASSUME NEW js, NEW unsent, Publish(js, unsent) PROVE Heard(t, a)'
  <2>1. limited' = limited \cup js
    BY <1>4 DEF Publish
  <2> QED
    BY <1>1, <1>2, <1>4, <2>1, PublishedHeard
<1>5. limited' \subseteq limited \/ \E js, unsent : Publish(js, unsent)
  BY ZenonT(60) DEF EvmTokensNext, PublishAll, InsertStray, ChainMoves, LimiterExpires, RestartToken, EventProcess, DepositOrWithdraw, TakeTokenJob,
         TouchToken, InsertTransfer, CountTokenTransfer, PublishRefreshes, ReadBalance, UpsertBalance, CountHolders,
         RefreshTokenHolder, ReadOwner, FindCollectible, WriteCollectible, Retry, mqVars, evmTokenVars
<1> QED
  BY <1>3, <1>4, <1>5

(* A worker with a stored transfer goes on, publishes, or dies.            *)
LEMMA AnnouncesStays ==
    ASSUME TokenTypes, BalancesKnown, LimitedHeard, [EvmTokensNext]_evmTokenVars,
           NEW t \in Tokens, NEW a \in Holders, NEW w \in TokenWorkers, Announces(w, t, a)
    PROVE  Heard(t, a)' \/ Announces(w, t, a)'
<1>0. /\ WorkTyped /\ chain' = chain /\ HasJob(w) /\ tokenWork[w].step \in {"count", "publish"}
      /\ Job(w).class = "transfer"
  BY ZenonT(60) DEF TokenTypes, Announces, Is, EvmTokensNext, ChainMoves, LimiterExpires, RestartToken, EventProcess,
         DepositOrWithdraw, TakeTokenJob, TouchToken, InsertTransfer, InsertStray, CountTokenTransfer, PublishRefreshes,
         ReadBalance, UpsertBalance, CountHolders, RefreshTokenHolder, ReadOwner, FindCollectible,
         WriteCollectible, evmTokenVars
<1>a. ASSUME tokenWork'[w] = tokenWork[w] PROVE Announces(w, t, a)'
  BY <1>0, <1>a DEF Announces, Is, HasJob, Job
<1>b. ASSUME tokenWork' # tokenWork, ~RestartToken, ~PublishRefreshes(w), ~CountTokenTransfer(w)
      PROVE  tokenWork'[w] = tokenWork[w]
  <2>1. PICK v \in TokenWorkers :
           \/ \E j \in Jobs : TakeTokenJob(v, j)
           \/ TouchToken(v) \/ InsertTransfer(v) \/ InsertStray(v) \/ CountTokenTransfer(v) \/ PublishRefreshes(v)
           \/ ReadBalance(v) \/ UpsertBalance(v) \/ CountHolders(v) \/ RefreshTokenHolder(v)
           \/ ReadOwner(v) \/ FindCollectible(v) \/ WriteCollectible(v)
    BY <1>b DEF EvmTokensNext, ChainMoves, LimiterExpires, EventProcess, DepositOrWithdraw, evmTokenVars
  <2>2. v # w
    BY <1>0, <1>b, <2>1 DEF TakeTokenJob, TouchToken, InsertTransfer, InsertStray, ReadBalance, UpsertBalance, CountHolders,
       RefreshTokenHolder, ReadOwner, FindCollectible, WriteCollectible, Is
  <2>3. \E x : tokenWork' = [tokenWork EXCEPT ![v] = x]
    BY <2>1 DEF TakeTokenJob, TouchToken, InsertTransfer, InsertStray, CountTokenTransfer, PublishRefreshes,
       ReadBalance, UpsertBalance, CountHolders, RefreshTokenHolder, ReadOwner, FindCollectible,
       WriteCollectible, Finish, Continue, Known, Retry
  <2> QED
    BY <1>0, <2>2, <2>3 DEF WorkTyped
<1>1. CASE CountTokenTransfer(w)
  <2>1. Continue(w, "publish")
    BY <1>1 DEF CountTokenTransfer
  <2>2. tokenWork'[w].step = "publish" /\ tokenWork'[w].job = tokenWork[w].job
    BY <1>0, <2>1, Continues DEF JobSteps
  <2> QED
    BY <1>0, <2>2 DEF Announces, Is, HasJob, Job
<1>2. CASE PublishRefreshes(w)
  <2>1. PICK i \in Transfers : i = Job(w).i
    <3>1. Job(w) \in Jobs
      BY <1>0 DEF WorkTyped, TokenWorked, HasJob, Job, TokenIdle
    <3> QED
      BY <1>0, <3>1, JobKinds
  <2>2. PICK c \in Categories : c = Job(w).queue
    <3>1. Job(w) \in Jobs
      BY <1>0 DEF WorkTyped, TokenWorked, HasJob, Job, TokenIdle
    <3> QED
      BY <3>1, JobKinds
  <2>3. \E js : PublishAll(js) /\ \A b \in {chain[i].from, chain[i].to} : BalanceJob(c, chain[i].token, b) \in js
    BY <1>2, <2>1, <2>2 DEF PublishRefreshes, BalanceJob
  <2>4. PICK js : PublishAll(js) /\ BalanceJob(c, t, a) \in js
    BY <2>1, <2>3 DEF Announces
  <2>5. PICK unsent : Publish(js, unsent)
    BY <2>4, PublishesAll DEF TokenTypes
  <2> QED
    BY <2>4, <2>5, HeardStep, PublishedHeard
<1>3. CASE RestartToken
  <2>1. <<t, a>> \in unheard'
    <3> DEFINE busy == {v \in TokenWorkers : HasJob(v)}
               half == {v \in busy : Is(v, "transfer", "count")} \cup {v \in busy : Is(v, "transfer", "publish")}
               S == {{<<chain[Job(v).i].token, b>> : b \in {chain[Job(v).i].from, chain[Job(v).i].to}} : v \in half}
    <3>1. w \in half
      BY <1>0 DEF Announces
    <3>2. {<<chain[Job(w).i].token, b>> : b \in {chain[Job(w).i].from, chain[Job(w).i].to}} \in S
      BY <3>1
    <3>3. <<t, a>> \in {<<chain[Job(w).i].token, b>> : b \in {chain[Job(w).i].from, chain[Job(w).i].to}}
      BY DEF Announces
    <3>4. unheard' = unheard \cup (UNION S)
      BY <1>3 DEF RestartToken
    <3> HIDE DEF S, half, busy
    <3> QED
      BY <3>2, <3>3, <3>4
  <2> QED
    BY <2>1 DEF Heard
<1>4. CASE tokenWork' = tokenWork
  BY <1>4, <1>a
<1> QED
  BY <1>a, <1>b, <1>1, <1>2, <1>3, <1>4

LEMMA HoldersStep ==
    ASSUME TokenTypes, BalancesKnown, LimitedHeard, HoldersTracked, [EvmTokensNext]_evmTokenVars
    PROVE  HoldersTracked'
<1>1. chain' = chain /\ chain \in Chains
  BY ZenonT(60) DEF TokenTypes, EvmTokensNext, ChainMoves, LimiterExpires, RestartToken, EventProcess,
         DepositOrWithdraw, TakeTokenJob, TouchToken, InsertTransfer, InsertStray, CountTokenTransfer, PublishRefreshes,
         ReadBalance, UpsertBalance, CountHolders, RefreshTokenHolder, ReadOwner, FindCollectible,
         WriteCollectible, evmTokenVars
<1>2. ASSUME NEW i \in tokenTransfers', i \notin tokenTransfers
      PROVE  \/ \E w \in TokenWorkers : \A a \in {chain[i].from, chain[i].to} : Announces(w, chain[i].token, a)'
             \/ \A a \in {chain[i].from, chain[i].to} : Heard(chain[i].token, a)'
  <2>1. PICK w \in TokenWorkers : InsertTransfer(w) \/ InsertStray(w)
    BY ZenonT(60), <1>2 DEF EvmTokensNext, ChainMoves, LimiterExpires, RestartToken, EventProcess,
         DepositOrWithdraw, TakeTokenJob, TouchToken, CountTokenTransfer, PublishRefreshes,
         ReadBalance, UpsertBalance, CountHolders, RefreshTokenHolder, ReadOwner, FindCollectible,
         WriteCollectible, evmTokenVars, tokenRowVars
  <2>2. CASE InsertTransfer(w)
    <3>1. i = Job(w).i /\ Continue(w, "count") /\ HasJob(w) /\ Job(w).class = "transfer"
      BY <1>2, <2>2 DEF InsertTransfer, Is
    <3>2. tokenWork'[w].step = "count" /\ tokenWork'[w].job = tokenWork[w].job
      BY <3>1, Continues DEF TokenTypes, JobSteps
    <3> QED
      BY <1>1, <3>1, <3>2 DEF Announces, Is, HasJob, Job
  <2>3. CASE InsertStray(w)
    <3>1. i = Job(w).i /\ {<<chain[i].token, chain[i].from>>, <<chain[i].token, chain[i].to>>} \subseteq unheard'
      BY <1>2, <2>3 DEF InsertStray
    <3> QED
      BY <1>1, <3>1 DEF Heard
  <2> QED
    BY <2>1, <2>2, <2>3
<1>3. ASSUME NEW i \in tokenTransfers', NEW a \in {chain[i].from, chain[i].to}
      PROVE  Heard(chain[i].token, a)' \/ \E w \in TokenWorkers : Announces(w, chain[i].token, a)'
  <2>1. i \in Transfers
    BY TypesStep DEF TokenTypes
  <2>2. PICK t \in Tokens : t = chain[i].token
    BY <1>1, <2>1, MovesKnown
  <2>3. a \in Holders
    BY <1>1, <2>1, MovesKnown
  <2>4. Heard(t, a)' \/ \E w \in TokenWorkers : Announces(w, t, a)'
    <3>1. CASE i \notin tokenTransfers
      BY <1>1, <1>2, <2>2, <3>1 DEF Announces, Heard, BalanceJob, OnBalance
    <3>2. CASE i \in tokenTransfers
      <4>1. Heard(t, a) \/ \E w \in TokenWorkers : Announces(w, t, a)
        BY <2>2, <3>2, TrackedIs
      <4> QED
        BY <2>3, <4>1, HeardStep, AnnouncesStays
    <3> QED
      BY <3>1, <3>2
  <2> QED
    BY <1>1, <2>2, <2>4 DEF Heard, Announces, BalanceJob, OnBalance
<1>4. \A i \in tokenTransfers' : \A a \in {chain'[i].from, chain'[i].to} :
            Heard(chain[i].token, a)' \/ \E w \in TokenWorkers : Announces(w, chain[i].token, a)'
  BY <1>1, <1>3
<1> QED
  BY <1>4 DEF HoldersTracked, OnItsWay, Heard, BalanceJob, OnBalance, Announces, Is

LEMMA TokensStart == EvmTokensInit => TokensInv
<1> SUFFICES ASSUME EvmTokensInit PROVE TokensInv
  OBVIOUS
<1>1. TokenTypes
  BY DEF EvmTokensInit, TokenTypes, WorkTyped, TokenWorked
<1>2. \A w \in TokenWorkers : ~HasJob(w)
  BY DEF EvmTokensInit, HasJob, TokenIdle
<1>3. BalancesKnown /\ OneCounts /\ Counting = {}
  BY <1>2 DEF EvmTokensInit, BalancesKnown, OneCounts, CountsAt, Counting, Is
<1>4. TransferCountExact
  <2>1. \A t : CountedTransfers(t) = {}
    BY DEF EvmTokensInit, CountedTransfers, OfToken
  <2> QED
    BY <2>1, ExactIs, FS_EmptySet DEF EvmTokensInit
<1>5. LimitedHeard /\ HoldersTracked
  BY DEF EvmTokensInit, LimitedHeard, HoldersTracked
<1> QED
  BY <1>1, <1>3, <1>4, <1>5 DEF TokensInv

LEMMA TokensStep == TokensInv /\ [EvmTokensNext]_evmTokenVars => TokensInv'
<1> SUFFICES ASSUME TokensInv, [EvmTokensNext]_evmTokenVars PROVE TokensInv'
  OBVIOUS
<1>1. TokenTypes /\ BalancesKnown /\ CountInv /\ LimitedHeard /\ HoldersTracked
  BY DEF TokensInv, CountInv
<1>2. (TokenTypes /\ BalancesKnown)'
  BY <1>1, TypesStep
<1>3. CountInv'
  BY <1>1, CountStep
<1>4. LimitedHeard' /\ HoldersTracked'
  BY <1>1, LimitedStep, HoldersStep
<1> QED
  BY <1>2, <1>3, <1>4 DEF TokensInv, CountInv

(* However often the log of a transfer is handed on, whatever fails or is  *)
(* refused or dropped at the rate limiter, and however long the chain:     *)
(* transfer_count counts each stored transfer once but for those under way *)
(* and the losses of uncounted, and each party of a stored transfer has    *)
(* its balance row, or a job that will read it, or is one of unheard       *)
(* (EventProcess, ProcessTokenTransfer, RefreshHolder).                    *)
THEOREM TokensAreExact == EvmTokensSpec => []TokensExact
<1>1. TokensInv => TokensExact
  BY DEF TokensInv, TokensExact
<1> QED
  BY TokensStart, TokensStep, <1>1, PTL DEF EvmTokensSpec

-----------------------------------------------------------------------------
(* The balance plugin.                                                     *)

BalanceSpec == BalanceInit /\ [][BalanceNext]_balanceVars

(* What the processes hold.                                                *)
EventRow  == [kind : {"Transfer", "Minted", "PaidOut"}, accounts : Seq(Accounts), extrinsic : Nat \ {0}]
Refreshes == {"row", "countAccount", "data", "locks", "write"}
Runs == [at : {"idle", "next", "transfer", "countTransfer", "table", "insert"} \cup Refreshes,
         event : Nat, accounts : Seq(Accounts \cup {OmniBridgeSyntheticSender}), data : Nat,
         locks : Nat, ok : BOOLEAN, alone : BOOLEAN, batch : Seq(Accounts), table : Nat,
         rest : SUBSET Nat]

EventTypes ==
    /\ onChain \in [Accounts -> Nat \ {0}]
    /\ chainEvents \in Seq(EventRow)
    /\ \A e \in DOMAIN chainEvents :
          LET named == chainEvents[e].accounts
          IN  CASE chainEvents[e].kind = "Transfer" -> Len(named) = 2
                [] chainEvents[e].kind = "Minted"   -> Len(named) = 1
                [] OTHER                            -> named = <<>>
    /\ eventJobs \subseteq DOMAIN chainEvents
    /\ DOMAIN transfers \subseteq DOMAIN chainEvents
    /\ DOMAIN balanceRow \subseteq Accounts

(* A process at a refresh has an account at hand; one at a transfer has a  *)
(* transfer or a deposit; a worker always has an event.                    *)
Backfilled == {e \in DOMAIN chainEvents : chainEvents[e].kind \in {"Transfer", "Minted"}}

RunOk(p, r) ==
    /\ r.at \in Refreshes => r.accounts # <<>> /\ Head(r.accounts) \in Accounts
    /\ r.at \in {"transfer", "countTransfer"} =>
          r.event \in Backfilled /\ r.accounts = <<>> /\ r.batch = <<>>
    /\ r.at = "idle" => r = AtRest
    /\ r.event # 0 => r.event \in DOMAIN chainEvents
    /\ r.rest \subseteq Backfilled
    /\ p \in BalanceWorkers =>
          r.at \notin {"table", "insert"} /\ (r.at # "idle" => r.event # 0)

RunnerTypes == runner \in [Procs -> Runs] /\ \A p \in Procs : RunOk(p, runner[p])

(* The ids are those of the rows, each once.                               *)
IdsInOrder ==
    /\ idOrder \in Seq(Accounts)
    /\ ToSet(idOrder) = DOMAIN balanceRow
    /\ \A i, j \in DOMAIN idOrder : idOrder[i] = idOrder[j] => i = j
    /\ refreshProgress \in 0..Len(idOrder)

(* The accounts of a batch have rows, and so have those still to do.       *)
RowsKnown ==
    \A p \in Procs :
        /\ ToSet(runner[p].batch) \subseteq DOMAIN balanceRow
        /\ runner[p].batch # <<>> => ToSet(runner[p].accounts) \subseteq DOMAIN balanceRow

BalanceTypes == EventTypes /\ RunnerTypes /\ IdsInOrder /\ RowsKnown

-----------------------------------------------------------------------------
(* The rows of the accounts.  A refresh of account a is to come while an   *)
(* event that names it is in the queue, or a process has it still to do.   *)
Live(e) == chainEvents[e].kind = "Transfer" => e \notin DOMAIN transfers

Awaits(r, a) ==
    \/ r.at = "transfer" /\ r.event \notin DOMAIN transfers /\ a \in ToSet(chainEvents[r.event].accounts)
    \/ r.at = "countTransfer" /\ a \in ToSet(chainEvents[r.event].accounts)
    \/ r.at = "next" /\ a \in ToSet(r.accounts)
    \/ r.at \in Refreshes /\ a \in ToSet(Tail(r.accounts))

InQueue(a) == \E e \in eventJobs : Live(e) /\ a \in ToSet(chainEvents[e].accounts)
Pending(a) == InQueue(a) \/ \E p \in Procs : Awaits(runner[p], a)

(* Process p refreshes a, and what it has read so far is on the chain.     *)
Reads(p, a) ==
    /\ Refreshing(p, a)
    /\ runner[p].at \in {"locks", "write"} => runner[p].data = onChain[a]
    /\ runner[p].at = "write" => runner[p].locks \in {0, onChain[a]}

RowFresh(a) ==
    /\ a \in DOMAIN balanceRow
    /\ [balanceRow[a] EXCEPT !.vested = 0] = [RowOf(onChain[a], onChain[a], 0) EXCEPT !.vested = 0]

Named(a)  == \E e \in DOMAIN chainEvents : a \in ToSet(chainEvents[e].accounts)
Watched(a) == Pending(a) \/ RowFresh(a) \/ \E p \in Procs : Reads(p, a)

(* An account in no doubt is watched, and what a process read of it alone  *)
(* is of the chain, or a refresh is to come.                               *)
Stale(p, a) == Refreshing(p, a) /\ runner[p].alone /\ ~ Reads(p, a)

RowOk(a) ==
    /\ a \in doubt \/ ~ Named(a) \/ Watched(a)
    /\ \A p \in Procs : Stale(p, a) => Pending(a)

RowsInv == \A a \in Accounts : RowOk(a)

-----------------------------------------------------------------------------
(* The commands.  A batch is a stretch of the ids, of which the first ones *)
(* have been tried.                                                        *)
(* The batch begins after id number s and k accounts of it are done.       *)
Batch(s, k) ==
    LET c == runner[Command]
    IN  /\ s + Len(c.batch) <= Len(idOrder)
        /\ k + Len(c.accounts) = Len(c.batch)
        /\ \A i \in DOMAIN c.batch : c.batch[i] = idOrder[s + i]
        /\ \A i \in DOMAIN c.accounts : c.accounts[i] = idOrder[s + k + i]
        /\ \A i \in 1..(s + k) : idOrder[i] \in pass

PassInv ==
    /\ PassCovers
    /\ runner[Command].batch # <<>> =>
          /\ runner[Command].at \in {"next"} \cup Refreshes
          /\ \E s, k \in Nat : Batch(s, k)

(* What the running InitTransfer has still to make a row of.               *)
Ahead(e) ==
    LET c == runner[Command]
    IN  \/ TableOf(e) < c.table
        \/ c.at = "table" /\ TableOf(e) = c.table
        \/ c.at # "table" /\ e \in c.rest
        \/ c.at = "transfer" /\ c.event = e

EventsInOrder ==
    /\ \A e \in DOMAIN chainEvents : chainEvents[e].extrinsic \in {e - 1, e}
    /\ firstScan \in [running : BOOLEAN, from : SUBSET DOMAIN chainEvents,
                      lost : SUBSET DOMAIN chainEvents]

TransferKinds ==
    \A e \in DOMAIN transfers :
        /\ chainEvents[e].kind \in {"Transfer", "Minted"}
        /\ transfers[e] = TransferCategoryBridgeIn <=> chainEvents[e].kind = "Minted"

ScanInv ==
    /\ firstScan.running => runner[Command].at # "idle" /\ runner[Command].batch = <<>>
    /\ \A e \in ToBackfill(firstScan.from) \ firstScan.lost :
          e \in DOMAIN transfers \/ (firstScan.running /\ Ahead(e))

BackfillInv == EventsInOrder /\ TransferKinds /\ ScanInv

-----------------------------------------------------------------------------
LEMMA HeadAndTail ==
    ASSUME NEW S, NEW s \in Seq(S), s # <<>>
    PROVE  /\ Head(s) \in S /\ Head(s) = s[1] /\ Tail(s) \in Seq(S)
           /\ Len(s) \in Nat \ {0} /\ Len(Tail(s)) = Len(s) - 1
           /\ \A i \in 1..Len(Tail(s)) : Tail(s)[i] = s[i + 1]
           /\ ToSet(s) = {Head(s)} \cup ToSet(Tail(s))
<1>1. /\ Head(s) \in S /\ Head(s) = s[1] /\ Tail(s) \in Seq(S)
      /\ Len(s) \in Nat \ {0} /\ Len(Tail(s)) = Len(s) - 1
      /\ \A i \in 1..Len(Tail(s)) : Tail(s)[i] = s[i + 1]
  OBVIOUS
<1>2. DOMAIN s = 1..Len(s) /\ DOMAIN Tail(s) = 1..Len(Tail(s))
  BY <1>1
<1>3. ASSUME NEW x \in ToSet(s) PROVE x \in {Head(s)} \cup ToSet(Tail(s))
  <2>1. PICK i \in 1..Len(s) : x = s[i]
    BY <1>2 DEF ToSet
  <2>2. CASE i = 1
    BY <1>1, <2>1, <2>2
  <2>3. CASE i # 1
    <3>1. i - 1 \in 1..Len(Tail(s)) /\ Tail(s)[i - 1] = s[i]
      BY <1>1, <2>3
    <3> QED
      BY <1>2, <2>1, <3>1 DEF ToSet
  <2> QED
    BY <2>2, <2>3
<1>4. ASSUME NEW x \in {Head(s)} \cup ToSet(Tail(s)) PROVE x \in ToSet(s)
  <2>1. CASE x = Head(s)
    BY <1>1, <1>2, <2>1 DEF ToSet
  <2>2. CASE x \in ToSet(Tail(s))
    <3>1. PICK i \in 1..Len(Tail(s)) : x = Tail(s)[i]
      BY <1>2, <2>2 DEF ToSet
    <3>2. i + 1 \in 1..Len(s) /\ x = s[i + 1]
      BY <1>1, <3>1
    <3> QED
      BY <1>2, <3>2 DEF ToSet
  <2> QED
    BY <2>1, <2>2
<1> QED
  BY <1>1, <1>3, <1>4

LEMMA ToSetOf ==
    ASSUME NEW S, NEW s \in Seq(S)
    PROVE  ToSet(s) \subseteq S /\ (s = <<>> => ToSet(s) = {})
  BY DEF ToSet

(* A step that moves one process.                                          *)
LEMMA OneRuns ==
    ASSUME RunnerTypes, UNCHANGED chainEvents, NEW p \in Procs, NEW r \in Runs,
           RunOk(p, r), runner' = [runner EXCEPT ![p] = r]
    PROVE  RunnerTypes'
<1>1. runner' \in [Procs -> Runs]
  BY DEF RunnerTypes
<1>2. ASSUME NEW q \in Procs PROVE RunOk(q, runner[q])'
  <2>1. runner'[q] = IF q = p THEN r ELSE runner[q]
    BY DEF RunnerTypes
  <2>2. CASE q = p
    BY <2>1, <2>2 DEF RunOk, Backfilled
  <2>3. CASE q # p
    BY <2>1, <2>3 DEF RunOk, Backfilled, RunnerTypes
  <2> QED
    BY <2>2, <2>3
<1> QED
  BY <1>1, <1>2 DEF RunnerTypes

LEMMA RestOk ==
    /\ AtRest \in Runs /\ \A p : RunOk(p, AtRest)
    /\ AtRest.at = "idle" /\ AtRest.event = 0 /\ AtRest.accounts = <<>> /\ AtRest.batch = <<>>
    /\ AtRest.rest = {} /\ AtRest.table = 0 /\ AtRest.data = 0 /\ AtRest.locks = 0
  BY DEF AtRest, Runs, RunOk, Refreshes

LEMMA RefreshTypes ==
    ASSUME BalanceTypes, NEW p \in Procs,
           \/ FirstOrCreate(p) \/ FirstOrCreateFails(p) \/ CountAccount(p) \/ ReadData(p)
           \/ RefreshFails(p) \/ ReadBalanceLocks(p) \/ AfterAccountCreate(p)
    PROVE  RunnerTypes' /\ UNCHANGED chainEvents
<1> USE DEF BalanceTypes, Refreshes
<1>0. UNCHANGED chainEvents
  BY DEF FirstOrCreate, FirstOrCreateFails, CountAccount, ReadData, RefreshFails, ReadBalanceLocks,
     AfterAccountCreate
<1>1. /\ runner[p] \in Runs /\ RunOk(p, runner[p]) /\ runner[p].at \in Refreshes
      /\ onChain[CurrentAccount(p)] \in Nat
  BY DEF RunnerTypes, EventTypes, FirstOrCreate, FirstOrCreateFails, CountAccount, ReadData,
     RefreshFails, ReadBalanceLocks, AfterAccountCreate, RunOk, CurrentAccount
<1>2. Tail(runner[p].accounts) \in Seq(Accounts \cup {OmniBridgeSyntheticSender})
  BY <1>1, HeadAndTail DEF Runs, RunOk
<1>3. ASSUME NEW b \in BOOLEAN
      PROVE  Refreshed(p, b) \in Runs /\ RunOk(p, Refreshed(p, b))
  BY <1>1, <1>2 DEF Refreshed, Runs, RunOk
<1>4. ASSUME FirstOrCreate(p) \/ FirstOrCreateFails(p) \/ CountAccount(p)
      PROVE  \E a \in {"data", "countAccount"} :
                runner' = [runner EXCEPT ![p] = [runner[p] EXCEPT !.at = a]]
  BY <1>4 DEF FirstOrCreate, FirstOrCreateFails, CountAccount
<1>5. ASSUME NEW a \in {"data", "countAccount"}
      PROVE  [runner[p] EXCEPT !.at = a] \in Runs /\ RunOk(p, [runner[p] EXCEPT !.at = a])
  BY <1>1 DEF Runs, RunOk
<1>6. CASE FirstOrCreate(p) \/ FirstOrCreateFails(p) \/ CountAccount(p)
  BY <1>0, <1>4, <1>5, <1>6, OneRuns
<1>7. CASE ReadData(p)
  <2> DEFINE r == [runner[p] EXCEPT !.at = "locks", !.data = onChain[CurrentAccount(p)]]
  <2>1. runner' = [runner EXCEPT ![p] = r]
    BY <1>7 DEF ReadData
  <2>2. r \in Runs /\ RunOk(p, r)
    BY <1>1 DEF Runs, RunOk
  <2> QED
    BY <1>0, <2>1, <2>2, OneRuns
<1>8. CASE ReadBalanceLocks(p)
  <2>1. PICK l \in {0, onChain[CurrentAccount(p)]} :
           runner' = [runner EXCEPT ![p] = [runner[p] EXCEPT !.at = "write", !.locks = l]]
    BY <1>8 DEF ReadBalanceLocks
  <2>a. l \in Nat
    BY <1>1
  <2> DEFINE r == [runner[p] EXCEPT !.at = "write", !.locks = l]
  <2>2. r \in Runs
    BY <1>1, <2>a DEF Runs
  <2>3. RunOk(p, r)
    BY <1>1 DEF Runs, RunOk
  <2> QED
    BY <1>0, <2>1, <2>2, <2>3, OneRuns
<1>9. CASE RefreshFails(p) \/ AfterAccountCreate(p)
  <2>1. PICK b \in BOOLEAN : runner' = [runner EXCEPT ![p] = Refreshed(p, b)]
    BY <1>9 DEF RefreshFails, AfterAccountCreate
  <2> QED
    BY <1>0, <1>3, <2>1, OneRuns
<1> QED
  BY <1>0, <1>6, <1>7, <1>8, <1>9

LEMMA TransferTypes ==
    ASSUME BalanceTypes, NEW p \in Procs, CreateTransfer(p) \/ CountTransfer(p)
    PROVE  RunnerTypes' /\ UNCHANGED chainEvents
<1> USE DEF BalanceTypes
<1>0. UNCHANGED chainEvents
  BY DEF CreateTransfer, CountTransfer
<1>1. /\ runner[p] \in Runs /\ RunOk(p, runner[p])
      /\ runner[p].at \in {"transfer", "countTransfer"}
  BY DEF RunnerTypes, CreateTransfer, CountTransfer
<1>2. ASSUME CreateTransfer(p)
      PROVE  \E a \in {"next", "countTransfer"} :
                runner' = [runner EXCEPT ![p] = [runner[p] EXCEPT !.at = a]]
  BY <1>2 DEF CreateTransfer
<1>3. ASSUME NEW a \in {"next", "countTransfer"}
      PROVE  [runner[p] EXCEPT !.at = a] \in Runs /\ RunOk(p, [runner[p] EXCEPT !.at = a])
  BY <1>1 DEF Runs, RunOk, Refreshes
<1>4. CASE CreateTransfer(p)
  BY <1>0, <1>2, <1>3, <1>4, OneRuns
<1>5. CASE CountTransfer(p)
  <2> DEFINE l == BalanceTransferFromEvent(runner[p].event)
  <2>1. l \in Seq(Accounts \cup {OmniBridgeSyntheticSender})
    <3>1. /\ runner[p].event \in DOMAIN chainEvents
          /\ chainEvents[runner[p].event] \in EventRow
          /\ chainEvents[runner[p].event].kind \in {"Transfer", "Minted"}
      BY <1>1 DEF RunOk, Backfilled, EventTypes
    <3>2. CASE chainEvents[runner[p].event].kind = "Transfer"
      BY <3>1, <3>2 DEF BalanceTransferFromEvent, EventRow
    <3>3. CASE chainEvents[runner[p].event].kind = "Minted"
      <4>1. Len(chainEvents[runner[p].event].accounts) = 1
        BY <3>1, <3>3 DEF EventTypes
      <4>2. chainEvents[runner[p].event].accounts[1] \in Accounts
        BY <3>1, <4>1 DEF EventRow
      <4> QED
        BY <3>3, <4>2 DEF BalanceTransferFromEvent
    <3> QED
      BY <3>1, <3>2, <3>3
  <2>2. runner' = [runner EXCEPT ![p] = [runner[p] EXCEPT !.at = "next", !.accounts = l]]
    BY <1>5 DEF CountTransfer
  <2> HIDE DEF l
  <2>3. /\ [runner[p] EXCEPT !.at = "next", !.accounts = l] \in Runs
        /\ RunOk(p, [runner[p] EXCEPT !.at = "next", !.accounts = l])
    BY <1>1, <2>1 DEF Runs, RunOk, Refreshes
  <2> QED
    BY <1>0, <2>2, <2>3, OneRuns
<1> QED
  BY <1>0, <1>4, <1>5

LEMMA StartTypes ==
    ASSUME BalanceTypes, NEW p \in Procs, RefreshAccount(p)
    PROVE  RunnerTypes' /\ UNCHANGED chainEvents
<1> USE DEF BalanceTypes
<1> DEFINE a == CurrentAccount(p)
           others == {q \in Procs \ {p} : Refreshing(q, a)}
<1>0. UNCHANGED chainEvents
  BY DEF RefreshAccount
<1>1. /\ runner[p] \in Runs /\ RunOk(p, runner[p])
      /\ runner[p].at = "next" /\ runner[p].accounts # <<>>
      /\ runner[p].accounts \in Seq(Accounts \cup {OmniBridgeSyntheticSender})
  BY DEF RunnerTypes, RefreshAccount, Runs
<1>2. CASE a \notin Accounts
  <2>1. Tail(runner[p].accounts) \in Seq(Accounts \cup {OmniBridgeSyntheticSender})
    BY <1>1, HeadAndTail
  <2> DEFINE r == [runner[p] EXCEPT !.accounts = Tail(runner[p].accounts)]
  <2>2. r \in Runs /\ RunOk(p, r)
    BY <1>1, <2>1 DEF Runs, RunOk, Refreshes
  <2>3. runner' = [runner EXCEPT ![p] = r]
    BY <1>2 DEF RefreshAccount
  <2> QED
    BY <1>0, <2>2, <2>3, OneRuns
<1>3. CASE a \in Accounts
  <2>1. \A q \in Procs :
           runner'[q] = IF q = p THEN [runner[p] EXCEPT !.at = "row", !.alone = others = {}]
                        ELSE IF q \in others THEN [runner[q] EXCEPT !.alone = FALSE]
                        ELSE runner[q]
    BY <1>3 DEF RefreshAccount
  <2>2. runner' = [q \in Procs |-> runner'[q]]
    BY <1>3 DEF RefreshAccount
  <2>3. (others = {}) \in BOOLEAN
    OBVIOUS
  <2> HIDE DEF others
  <2>4. ASSUME NEW q \in Procs PROVE runner'[q] \in Runs /\ RunOk(q, runner[q])'
    <3>1. runner[q] \in Runs /\ RunOk(q, runner[q])
      BY DEF RunnerTypes
    <3>2. CASE q = p
      <4>1. PICK b \in BOOLEAN : runner'[q] = [runner[p] EXCEPT !.at = "row", !.alone = b]
        BY <2>1, <2>3, <3>2
      <4>2. a \in Accounts /\ runner[q].accounts # <<>> /\ Head(runner[q].accounts) \in Accounts
        BY <1>1, <1>3, <3>2 DEF CurrentAccount
      <4>3. runner'[q] \in Runs
        BY <3>1, <3>2, <4>1 DEF Runs, Refreshes
      <4>4. /\ runner'[q].at = "row" /\ runner'[q].accounts = runner[q].accounts
            /\ runner'[q].event = runner[q].event /\ runner'[q].rest = runner[q].rest
            /\ runner'[q].batch = runner[q].batch
        BY <3>1, <3>2, <4>1 DEF Runs
      <4> QED
        BY <1>0, <1>1, <3>1, <3>2, <4>2, <4>3, <4>4 DEF RunOk, Refreshes, Backfilled
    <3>3. CASE q # p /\ q \in others
      <4>1. runner'[q] = [runner[q] EXCEPT !.alone = FALSE] /\ runner[q].at # "idle"
        BY <2>1, <3>3 DEF others, Refreshing
      <4>2. runner'[q] \in Runs
        BY <3>1, <4>1 DEF Runs
      <4>3. /\ runner'[q].at = runner[q].at /\ runner'[q].accounts = runner[q].accounts
            /\ runner'[q].event = runner[q].event /\ runner'[q].rest = runner[q].rest
            /\ runner'[q].batch = runner[q].batch
        BY <3>1, <4>1 DEF Runs
      <4> QED
        BY <1>0, <3>1, <4>1, <4>2, <4>3 DEF RunOk, Backfilled
    <3>4. CASE q # p /\ q \notin others
      BY <1>0, <2>1, <3>1, <3>4 DEF RunOk, Backfilled
    <3> QED
      BY <3>2, <3>3, <3>4
  <2> QED
    BY <1>0, <2>2, <2>4 DEF RunnerTypes
<1> QED
  BY <1>0, <1>2, <1>3

LEMMA AbandonTypes ==
    ASSUME BalanceTypes, UNCHANGED chainEvents, NEW p \in Procs, NEW r \in Runs, RunOk(p, r),
           Abandon(p, r)
    PROVE  RunnerTypes'
<1> USE DEF BalanceTypes
<1>1. /\ runner' = [q \in Procs |-> runner'[q]]
      /\ \A q \in Procs : \/ q = p /\ runner'[q] = r
                          \/ runner'[q] = runner[q]
                          \/ /\ runner'[q] = [runner[q] EXCEPT !.alone = FALSE]
                             /\ \E a : Refreshing(q, a)
  BY DEF Abandon
<1>2. ASSUME NEW q \in Procs PROVE runner'[q] \in Runs /\ RunOk(q, runner[q])'
  <2>1. runner[q] \in Runs /\ RunOk(q, runner[q])
    BY DEF RunnerTypes
  <2>2. CASE q = p /\ runner'[q] = r
    BY <2>2 DEF RunOk, Backfilled
  <2>3. CASE runner'[q] = runner[q]
    BY <2>1, <2>3 DEF RunOk, Backfilled
  <2>4. CASE runner'[q] = [runner[q] EXCEPT !.alone = FALSE] /\ \E a : Refreshing(q, a)
    <3>1. runner'[q] \in Runs /\ runner[q].at # "idle"
      BY <2>1, <2>4 DEF Runs, Refreshing
    <3>2. /\ runner'[q].at = runner[q].at /\ runner'[q].accounts = runner[q].accounts
          /\ runner'[q].event = runner[q].event /\ runner'[q].rest = runner[q].rest
          /\ runner'[q].batch = runner[q].batch
      BY <2>1, <2>4 DEF Runs
    <3> QED
      BY <2>1, <3>1, <3>2 DEF RunOk, Backfilled
  <2> QED
    BY <1>1, <2>2, <2>3, <2>4
<1> QED
  BY <1>1, <1>2 DEF RunnerTypes

LEMMA DeathTypes ==
    ASSUME BalanceTypes, NEW p \in Procs, ProcessDies(p) \/ TransferFails(p)
    PROVE  RunnerTypes' /\ UNCHANGED chainEvents
<1>1. Abandon(p, AtRest) /\ UNCHANGED chainEvents
  BY DEF ProcessDies, TransferFails
<1> QED
  BY <1>1, RestOk, AbandonTypes

LEMMA Stretch ==
    ASSUME NEW S, NEW s \in Seq(S), NEW m \in Nat, NEW n \in Nat, m + n <= Len(s)
    PROVE  /\ SubSeq(s, m + 1, m + n) \in Seq(S)
           /\ Len(SubSeq(s, m + 1, m + n)) = n
           /\ \A i \in 1..n : SubSeq(s, m + 1, m + n)[i] = s[m + i]
<1> DEFINE r == SubSeq(s, m + 1, m + n)
<1>1. r = [i \in 1..n |-> s[m + i]]
  OBVIOUS
<1>2. \A i \in 1..n : s[m + i] \in S
  OBVIOUS
<1> QED
  BY SMTT(60), <1>1, <1>2

LEMMA PlaceOf ==
    ASSUME IdsInOrder, NEW a \in ToSet(idOrder)
    PROVE  IdOf(a) \in 1..Len(idOrder) /\ idOrder[IdOf(a)] = a
<1>1. \E i \in DOMAIN idOrder : idOrder[i] = a
  BY DEF ToSet
<1>2. DOMAIN idOrder = 1..Len(idOrder)
  BY DEF IdsInOrder
<1> QED
  BY <1>1, <1>2 DEF IdOf

LEMMA IdsStep ==
    ASSUME BalanceTypes, [BalanceNext]_balanceVars
    PROVE  /\ IdsInOrder'
           /\ \A i \in DOMAIN idOrder : i \in DOMAIN idOrder' /\ idOrder'[i] = idOrder[i]
           /\ DOMAIN balanceRow \subseteq DOMAIN balanceRow'
           /\ DOMAIN balanceRow' \subseteq Accounts
<1> USE DEF BalanceTypes, balanceRowVars, history
<1>a. IdsInOrder /\ DOMAIN balanceRow \subseteq Accounts
      /\ Len(idOrder) \in Nat /\ DOMAIN idOrder = 1..Len(idOrder)
  BY DEF IdsInOrder, EventTypes
<1>1. ASSUME UNCHANGED <<balanceRow, idOrder>>, refreshProgress' \in 0..Len(idOrder)
      PROVE  IdsInOrder'
  BY <1>1, <1>a DEF IdsInOrder
<1> DEFINE StayInOrder == /\ IdsInOrder'
                          /\ \A i \in DOMAIN idOrder : i \in DOMAIN idOrder' /\ idOrder'[i] = idOrder[i]
                          /\ DOMAIN balanceRow \subseteq DOMAIN balanceRow'
                          /\ DOMAIN balanceRow' \subseteq Accounts
<1>2. ASSUME UNCHANGED <<balanceRow, idOrder, refreshProgress>> PROVE StayInOrder
  BY <1>1, <1>2, <1>a DEF IdsInOrder
<1>3. ASSUME NEW p \in Procs, FirstOrCreate(p) PROVE StayInOrder
  <2> DEFINE a == CurrentAccount(p)
  <2>1. a \in Accounts
    BY <1>3 DEF FirstOrCreate, RunnerTypes, RunOk, Refreshes, CurrentAccount
  <2>2. CASE a \in DOMAIN balanceRow
    BY <1>2, <1>3, <2>2 DEF FirstOrCreate
  <2>3. CASE a \notin DOMAIN balanceRow
    <3>1. /\ DOMAIN balanceRow' = DOMAIN balanceRow \cup {a}
          /\ idOrder' = Append(idOrder, a) /\ refreshProgress' = refreshProgress
      BY <1>3, <2>3 DEF FirstOrCreate
    <3> HIDE DEF a
    <3>2. /\ idOrder' \in Seq(Accounts) /\ Len(idOrder') = Len(idOrder) + 1
          /\ DOMAIN idOrder' = 1..(Len(idOrder) + 1)
          /\ idOrder'[Len(idOrder) + 1] = a
          /\ \A i \in DOMAIN idOrder : idOrder'[i] = idOrder[i]
      BY <1>a, <2>1, <3>1 DEF IdsInOrder
    <3>3. ToSet(idOrder') = ToSet(idOrder) \cup {a}
      BY <1>a, <3>2 DEF ToSet
    <3>4. a \notin ToSet(idOrder)
      BY <2>3, <1>a DEF IdsInOrder
    <3>5. \A i, j \in DOMAIN idOrder' : idOrder'[i] = idOrder'[j] => i = j
      BY <1>a, <3>2, <3>4 DEF IdsInOrder, ToSet
    <3>6. IdsInOrder'
      BY <1>a, <3>1, <3>2, <3>3, <3>5 DEF IdsInOrder
    <3> QED
      BY <1>a, <2>1, <3>1, <3>2, <3>6
  <2> QED
    BY <2>2, <2>3
<1>4. ASSUME NEW p \in Procs, AfterAccountCreate(p) PROVE StayInOrder
  <2>1. /\ idOrder' = idOrder /\ DOMAIN balanceRow' = DOMAIN balanceRow
        /\ refreshProgress' = refreshProgress
           \/ (runner[p].batch # <<>> /\ refreshProgress' = IdOf(CurrentAccount(p)))
    BY <1>4 DEF AfterAccountCreate, SaveProgress
  <2>2. ASSUME runner[p].batch # <<>> PROVE CurrentAccount(p) \in ToSet(idOrder)
    <3>1. ToSet(runner[p].accounts) \subseteq ToSet(idOrder)
      BY <1>a, <2>2 DEF RowsKnown, IdsInOrder
    <3>2. /\ runner[p].accounts \in Seq(Accounts \cup {OmniBridgeSyntheticSender})
          /\ runner[p].accounts # <<>>
      BY <1>4 DEF AfterAccountCreate, RunnerTypes, Runs, RunOk, Refreshes
    <3> QED
      BY <3>1, <3>2, HeadAndTail DEF CurrentAccount
  <2>3. refreshProgress' \in 0..Len(idOrder)
    <3>1. CASE refreshProgress' = refreshProgress
      BY <3>1, <1>a DEF IdsInOrder
    <3>2. CASE runner[p].batch # <<>> /\ refreshProgress' = IdOf(CurrentAccount(p))
      <4>1. IdOf(CurrentAccount(p)) \in 1..Len(idOrder)
        BY <1>a, <2>2, <3>2, PlaceOf
      <4> QED
        BY <1>a, <3>2, <4>1
    <3> QED
      BY <2>1, <3>1, <3>2
  <2> QED
    BY <1>a, <2>1, <2>3 DEF IdsInOrder
<1>5. ASSUME NEW mode \in Modes, NEW id \in 0..Len(idOrder), RefreshAllAccount(mode, id)
      PROVE  StayInOrder
  <2>1. UNCHANGED <<balanceRow, idOrder>> /\ refreshProgress' \in {0, refreshProgress}
    BY <1>5 DEF RefreshAllAccount
  <2> QED
    BY <1>1, <1>a, <2>1 DEF IdsInOrder
<1>6. ASSUME EndRefreshAll PROVE StayInOrder
  <2>1. /\ UNCHANGED <<balanceRow, idOrder>>
        /\ refreshProgress' \in {refreshProgress, IdOf(Last(runner[Command].batch))}
    BY <1>6 DEF EndRefreshAll, SaveProgress
  <2>2. /\ runner[Command].batch \in Seq(Accounts) /\ runner[Command].batch # <<>>
        /\ ToSet(runner[Command].batch) \subseteq ToSet(idOrder)
    BY <1>6, <1>a DEF EndRefreshAll, RowsKnown, RunnerTypes, Runs, Procs, IdsInOrder
  <2>3. Last(runner[Command].batch) \in ToSet(idOrder)
    <3>1. Len(runner[Command].batch) \in DOMAIN runner[Command].batch
      BY <2>2
    <3> QED
      BY <2>2, <3>1 DEF Last, ToSet
  <2>4. refreshProgress' \in 0..Len(idOrder)
    BY <1>a, <2>1, <2>3, PlaceOf DEF IdsInOrder
  <2> QED
    BY <1>1, <1>a, <2>1, <2>4
<1>7. ASSUME NEW p \in Procs,
             \/ RefreshAccount(p) \/ FirstOrCreateFails(p) \/ CountAccount(p) \/ ReadData(p)
             \/ RefreshFails(p) \/ ReadBalanceLocks(p) \/ CreateTransfer(p)
             \/ CountTransfer(p) \/ TransferFails(p) \/ ProcessDies(p)
      PROVE  UNCHANGED <<balanceRow, idOrder, refreshProgress>>
  BY <1>7 DEF RefreshAccount, FirstOrCreateFails, CountAccount, ReadData, RefreshFails,
     ReadBalanceLocks, CreateTransfer, CountTransfer, TransferFails, ProcessDies
<1>8. ASSUME NEW w \in BalanceWorkers, EndEvent(w) \/ \E e \in eventJobs : EmitEvent(w, e)
      PROVE  UNCHANGED <<balanceRow, idOrder, refreshProgress>>
  BY <1>8 DEF EndEvent, EmitEvent
<1>9. ASSUME InitTransfer \/ ReadTable \/ BackfillEvent \/ BackfillFails
      PROVE  UNCHANGED <<balanceRow, idOrder, refreshProgress>>
  BY <1>9 DEF InitTransfer, ReadTable, BackfillEvent, BackfillFails
<1>10. ASSUME NEW k, NEW l, NEW x, ChainEvent(k, l, x)
       PROVE  UNCHANGED <<balanceRow, idOrder, refreshProgress>>
  BY <1>10 DEF ChainEvent
<1>11. ASSUME UNCHANGED balanceVars PROVE UNCHANGED <<balanceRow, idOrder, refreshProgress>>
  BY <1>11 DEF balanceVars
<1>12. StayInOrder
  <2> HIDE DEF StayInOrder
  <2> QED
    BY <1>2, <1>3, <1>4, <1>5, <1>6, <1>7, <1>8, <1>9, <1>10, <1>11 DEF BalanceNext
<1> QED
  BY <1>12

(* The steps of the commands and of the chain.                             *)
LEMMA EventRunTypes ==
    ASSUME BalanceTypes,
           \/ \E w \in BalanceWorkers, e \in eventJobs : EmitEvent(w, e)
           \/ \E w \in BalanceWorkers : EndEvent(w)
    PROVE  RunnerTypes' /\ UNCHANGED chainEvents
<1> USE DEF BalanceTypes, Procs
<1>1. ASSUME NEW w \in BalanceWorkers, EndEvent(w) PROVE RunnerTypes' /\ UNCHANGED chainEvents
  BY <1>1, RestOk, OneRuns DEF EndEvent
<1>2. ASSUME NEW w \in BalanceWorkers, NEW e \in eventJobs, EmitEvent(w, e)
      PROVE RunnerTypes' /\ UNCHANGED chainEvents
  <2>0. UNCHANGED chainEvents
    BY <1>2 DEF EmitEvent
  <2>1. e \in DOMAIN chainEvents /\ e \in Nat \ {0} /\ chainEvents[e] \in EventRow
    BY DEF EventTypes
  <2>2. CASE chainEvents[e].kind = "Transfer"
    <3> DEFINE r == [AtRest EXCEPT !.at = "transfer", !.event = e]
    <3>1. runner' = [runner EXCEPT ![w] = r]
      BY <1>2, <2>2 DEF EmitEvent
    <3>2. r \in Runs
      BY <2>1, RestOk DEF Runs
    <3>3. /\ r.at = "transfer" /\ r.event = e /\ r.accounts = <<>> /\ r.rest = {}
          /\ r.batch = <<>> /\ e \in Backfilled
      BY <2>1, <2>2, RestOk DEF Runs, Backfilled
    <3>4. RunOk(w, r)
      BY <2>1, <3>3 DEF RunOk, Refreshes
    <3> QED
      BY <2>0, <3>1, <3>2, <3>4, OneRuns
  <2>3. CASE chainEvents[e].kind # "Transfer"
    <3> DEFINE r == [AtRest EXCEPT !.at = "next", !.event = e, !.accounts = chainEvents[e].accounts]
    <3>1. runner' = [runner EXCEPT ![w] = r]
      BY <1>2, <2>3 DEF EmitEvent
    <3>2. chainEvents[e].accounts \in Seq(Accounts \cup {OmniBridgeSyntheticSender})
      BY <2>1 DEF EventRow
    <3>3. r \in Runs
      BY <2>1, <3>2, RestOk DEF Runs
    <3>4. r.at = "next" /\ r.event = e /\ r.rest = {}
      BY <2>1, RestOk DEF Runs
    <3>5. RunOk(w, r)
      BY <2>1, <3>4 DEF RunOk, Refreshes
    <3> QED
      BY <2>0, <3>1, <3>3, <3>5, OneRuns
  <2> QED
    BY <2>2, <2>3
<1> QED
  BY <1>1, <1>2

(* The batch is the stretch of the ids after start, and none or what comes  *)
(* before has been tried.                                                  *)
LEMMA BatchTypes ==
    ASSUME BalanceTypes, NEW mode \in Modes, NEW id \in 0..Len(idOrder),
           RefreshAllAccount(mode, id)
    PROVE  \E start \in Nat, n \in Nat :
              LET batch == SubSeq(idOrder, start + 1, start + n)
              IN  /\ start + n <= Len(idOrder)
                  /\ \/ refreshProgress' = 0
                     \/ refreshProgress' = refreshProgress /\ pass \subseteq pass'
                  /\ \/ runner' = runner
                     \/ /\ runner' = [runner EXCEPT ![Command] =
                                         [AtRest EXCEPT !.at = "next", !.accounts = batch, !.batch = batch]]
                        /\ batch # <<>>
                        /\ \/ start = 0
                           \/ start = refreshProgress /\ pass \subseteq pass'
                           \/ ToSet(SubSeq(idOrder, 1, start)) \subseteq pass'
<1>1. PICK redis \in BOOLEAN, sql \in BOOLEAN :
        LET start == CASE mode = "start-id"         -> id
                       [] mode = "resume" /\ redis -> refreshProgress
                       [] OTHER                    -> 0
            n     == Cardinality(AfterId(start))
            batch == SubSeq(idOrder, start + 1, start + (IF n < BatchLimit THEN n ELSE BatchLimit))
            begun == sql /\ batch # <<>>
            reset == mode = "reset" /\ redis
        IN  /\ runner' = IF ~begun THEN runner
                       ELSE [runner EXCEPT ![Command] =
                               [AtRest EXCEPT !.at = "next", !.accounts = batch, !.batch = batch]]
            /\ refreshProgress' = IF reset THEN 0 ELSE refreshProgress
            /\ pass' = (IF reset THEN {} ELSE pass)
                      \cup (IF mode = "start-id" /\ begun THEN ToSet(SubSeq(idOrder, 1, id)) ELSE {})
  BY ZenonT(60) DEF RefreshAllAccount
<1> DEFINE start == CASE mode = "start-id"         -> id
                      [] mode = "resume" /\ redis -> refreshProgress
                      [] OTHER                    -> 0
           c     == Cardinality(AfterId(start))
           n     == IF c < BatchLimit THEN c ELSE BatchLimit
           batch == SubSeq(idOrder, start + 1, start + n)
           begun == sql /\ batch # <<>>
           reset == mode = "reset" /\ redis
<1>2. start \in 0..Len(idOrder) /\ Len(idOrder) \in Nat /\ DOMAIN idOrder = 1..Len(idOrder)
  BY DEF BalanceTypes, IdsInOrder, Modes
<1>3. c = Len(idOrder) - start
  <2> HIDE DEF start
  <2>1. AfterId(start) = (start + 1)..Len(idOrder)
    BY <1>2 DEF AfterId
  <2>2. start + 1 \in Int /\ Len(idOrder) \in Int
    BY <1>2
  <2>3. c = IF start + 1 > Len(idOrder) THEN 0 ELSE Len(idOrder) - (start + 1) + 1
    BY <2>1, <2>2, FS_Interval
  <2> HIDE DEF c
  <2>4. start \in Int /\ start <= Len(idOrder)
    BY <1>2
  <2>5. CASE start + 1 > Len(idOrder)
    BY <2>2, <2>3, <2>4, <2>5
  <2>6. CASE ~(start + 1 > Len(idOrder))
    BY <2>2, <2>3, <2>4, <2>6
  <2> QED
    BY <2>5, <2>6
<1>4. start \in Nat /\ n \in Nat /\ start + n <= Len(idOrder)
  <2>1. start \in Nat /\ c \in Nat /\ start + c = Len(idOrder) /\ Len(idOrder) \in Nat
    BY <1>2, <1>3
  <2> HIDE DEF start, c
  <2>2. n \in Nat /\ n <= c
    BY <2>1, BalanceAssumption
  <2> HIDE DEF n
  <2> QED
    BY <2>1, <2>2
<1>5. /\ runner' = IF ~begun THEN runner
                  ELSE [runner EXCEPT ![Command] =
                          [AtRest EXCEPT !.at = "next", !.accounts = batch, !.batch = batch]]
      /\ refreshProgress' = IF reset THEN 0 ELSE refreshProgress
      /\ pass' = (IF reset THEN {} ELSE pass)
                \cup (IF mode = "start-id" /\ begun THEN ToSet(SubSeq(idOrder, 1, id)) ELSE {})
  BY <1>1
<1>6. \/ refreshProgress' = 0
      \/ refreshProgress' = refreshProgress /\ pass \subseteq pass'
  <2> HIDE DEF begun, reset
  <2> QED
    BY <1>5
<1>7. ASSUME begun
      PROVE  \/ start = 0
             \/ start = refreshProgress /\ pass \subseteq pass'
             \/ ToSet(SubSeq(idOrder, 1, start)) \subseteq pass'
  <2>1. CASE mode = "start-id"
    <3>1. start = id
      BY <2>1
    <3> HIDE DEF begun, reset, start
    <3> QED
      BY <1>5, <1>7, <2>1, <3>1
  <2>2. CASE mode = "resume" /\ redis
    <3>1. start = refreshProgress /\ ~reset
      BY <2>2
    <3> HIDE DEF begun, reset, start
    <3> QED
      BY <1>5, <3>1
  <2>3. CASE mode # "start-id" /\ ~(mode = "resume" /\ redis)
    BY <2>3
  <2> QED
    BY <2>1, <2>2, <2>3
<1>8. \/ runner' = runner
      \/ /\ runner' = [runner EXCEPT ![Command] =
                          [AtRest EXCEPT !.at = "next", !.accounts = batch, !.batch = batch]]
         /\ batch # <<>>
         /\ \/ start = 0
            \/ start = refreshProgress /\ pass \subseteq pass'
            \/ ToSet(SubSeq(idOrder, 1, start)) \subseteq pass'
  BY Zenon, <1>5, <1>7
<1> HIDE DEF start, n
<1> start \in Nat /\ n \in Nat
  BY <1>4
<1> WITNESS start \in Nat, n \in Nat
<1> QED
  BY Zenon, <1>4, <1>6, <1>8

(* What the commands leave to the workers.                                 *)
LEMMA CommandKeeps ==
    ASSUME \/ \E mode \in Modes, id \in 0..Len(idOrder) : RefreshAllAccount(mode, id)
           \/ EndRefreshAll \/ InitTransfer \/ ReadTable \/ BackfillEvent \/ BackfillFails
    PROVE  UNCHANGED <<onChain, chainEvents, eventJobs, balanceRow, idOrder, transfers>>
<1> USE DEF balanceRowVars
<1>1. ASSUME NEW mode, NEW id, RefreshAllAccount(mode, id)
      PROVE  UNCHANGED <<onChain, chainEvents, eventJobs, balanceRow, idOrder, transfers>>
  BY <1>1 DEF RefreshAllAccount
<1>2. CASE EndRefreshAll \/ InitTransfer \/ BackfillEvent
  BY <1>2 DEF EndRefreshAll, InitTransfer, BackfillEvent
<1>3. CASE ReadTable
  BY <1>3 DEF ReadTable
<1>4. CASE BackfillFails
  BY <1>4 DEF BackfillFails
<1> QED
  BY <1>1, <1>2, <1>3, <1>4

LEMMA CommandTypes ==
    ASSUME BalanceTypes,
           \/ \E mode \in Modes, id \in 0..Len(idOrder) : RefreshAllAccount(mode, id)
           \/ EndRefreshAll \/ InitTransfer \/ ReadTable \/ BackfillEvent \/ BackfillFails
    PROVE  RunnerTypes' /\ UNCHANGED chainEvents
<1> USE DEF BalanceTypes
<1>a. /\ Command \in Procs /\ Command \notin BalanceWorkers
      /\ runner[Command] \in Runs /\ RunOk(Command, runner[Command])
  BY BalanceAssumption DEF Procs, RunnerTypes
<1>b. UNCHANGED chainEvents
  BY CommandKeeps
<1>1. ASSUME NEW mode \in Modes, NEW id \in 0..Len(idOrder), RefreshAllAccount(mode, id)
      PROVE  RunnerTypes'
  <2>1. PICK start \in Nat, n \in Nat :
           LET batch == SubSeq(idOrder, start + 1, start + n)
           IN  /\ start + n <= Len(idOrder)
               /\ \/ runner' = runner
                  \/ runner' = [runner EXCEPT ![Command] =
                                  [AtRest EXCEPT !.at = "next", !.accounts = batch, !.batch = batch]]
    BY <1>1, BatchTypes
  <2> DEFINE batch == SubSeq(idOrder, start + 1, start + n)
             r     == [AtRest EXCEPT !.at = "next", !.accounts = batch, !.batch = batch]
  <2>2. batch \in Seq(Accounts)
    BY <2>1, Stretch DEF IdsInOrder
  <2>3. CASE runner' = runner
    BY <1>b, <2>3 DEF RunnerTypes, RunOk, Backfilled
  <2>4. CASE runner' # runner
    <3>1. runner' = [runner EXCEPT ![Command] = r]
      BY <2>1, <2>4
    <3> HIDE DEF batch
    <3>2. r \in Runs
      <4>1. batch \in Seq(Accounts \cup {OmniBridgeSyntheticSender})
        BY <2>2
      <4> QED
        BY <2>2, <4>1, RestOk DEF Runs
    <3>3. r.at = "next" /\ r.event = 0 /\ r.rest = {}
      BY RestOk DEF Runs
    <3>4. RunOk(Command, r)
      BY <1>a, <3>3 DEF RunOk, Refreshes
    <3> QED
      BY <1>a, <1>b, <3>1, <3>2, <3>4, OneRuns
  <2> QED
    BY <2>3, <2>4
<1>2. CASE EndRefreshAll
  BY <1>a, <1>b, <1>2, RestOk, OneRuns DEF EndRefreshAll
<1>3. ASSUME NEW r \in Runs, r.at \in {"table", "insert", "transfer"}, r.accounts = <<>>,
             r.event \in Backfilled \cup {0}, r.at = "transfer" => r.event \in Backfilled,
             r.rest \subseteq Backfilled, r.batch = <<>>, runner' = [runner EXCEPT ![Command] = r]
      PROVE  RunnerTypes'
  <2>1. RunOk(Command, r)
    BY <1>3, <1>a DEF RunOk, Backfilled, Refreshes
  <2> QED
    BY <1>a, <1>b, <1>3, <2>1, OneRuns
<1>t. \A e \in DOMAIN chainEvents : TableOf(e) \in Nat
  <2> TAKE e \in DOMAIN chainEvents
  <2>0. chainEvents[e] \in EventRow
    BY DEF EventTypes
  <2>1. chainEvents[e].extrinsic - 1 \in Nat
    BY <2>0 DEF EventRow
  <2> QED
    BY <2>1, BalanceAssumption DEF TableOf
<1>4. CASE InitTransfer
  <2>1. TableOf(Len(chainEvents)) \in Nat
    <3>0. chainEvents \in Seq(EventRow) /\ chainEvents # <<>>
      <4>1. chainEvents # <<>>
        BY <1>4 DEF InitTransfer
      <4> QED
        BY <4>1 DEF EventTypes
    <3>1. Len(chainEvents) \in DOMAIN chainEvents
      BY ONLY <3>0
    <3> QED
      BY <1>t, <3>1
  <2>0. PICK t \in 0..TableOf(Len(chainEvents)) :
           runner' = [runner EXCEPT ![Command] = [AtRest EXCEPT !.at = "table", !.table = t]]
    BY <1>4 DEF InitTransfer
  <2> DEFINE r == [AtRest EXCEPT !.at = "table", !.table = t]
  <2>2. runner' = [runner EXCEPT ![Command] = r] /\ t \in Nat
    BY <2>0, <2>1
  <2>3. /\ r \in Runs /\ r.at = "table" /\ r.accounts = <<>> /\ r.event = 0 /\ r.rest = {}
        /\ r.batch = <<>>
    BY <2>2, RestOk DEF Runs
  <2> QED
    BY <1>3, <1>b, <2>2, <2>3
<1>5. CASE ReadTable
  <2>0. PICK lost : runner' = [runner EXCEPT ![Command].at = "insert",
                        ![Command].rest = BackfillTable(runner[Command].table) \ lost]
    BY <1>5 DEF ReadTable
  <2> DEFINE R == BackfillTable(runner[Command].table) \ lost
  <2>1. R \subseteq Backfilled
    BY DEF BackfillTable, Backfilled, OmniBridgePayoutTransfers, OfExtrinsic
  <2> HIDE DEF R
  <2>2. [runner[Command] EXCEPT !.at = "insert", !.rest = R] \in Runs
    <3>1. R \subseteq Nat
      BY <2>1 DEF Backfilled, EventTypes
    <3> QED
      BY <1>a, <3>1 DEF Runs
  <2>3. RunOk(Command, [runner[Command] EXCEPT !.at = "insert", !.rest = R])
    BY <1>a, <2>1 DEF RunOk, Runs, Refreshes
  <2>4. runner' = [runner EXCEPT ![Command] = [runner[Command] EXCEPT !.at = "insert", !.rest = R]]
    BY <2>0, <1>a DEF RunnerTypes, R
  <2> QED
    BY <1>a, <1>b, <2>2, <2>3, <2>4, OneRuns
<1>6. CASE BackfillEvent
  <2> DEFINE c == runner[Command]
  <2>1. /\ c.rest \subseteq Backfilled /\ c.table \in Nat
        /\ \A e \in c.rest : c.rest \ {e} \in SUBSET Backfilled
    BY <1>a DEF RunOk, Runs
  <2>2. ASSUME NEW e \in c.rest,
               runner' = [runner EXCEPT ![Command] =
                  [AtRest EXCEPT !.at = "transfer", !.event = e, !.table = c.table, !.rest = c.rest \ {e}]]
        PROVE  RunnerTypes'
    <3> DEFINE r == [AtRest EXCEPT !.at = "transfer", !.event = e, !.table = c.table, !.rest = c.rest \ {e}]
    <3>1. e \in Nat /\ e \in Backfilled /\ c.rest \ {e} \subseteq Nat
      BY <2>1 DEF Backfilled, EventTypes
    <3>2. /\ r \in Runs /\ r.at = "transfer" /\ r.accounts = <<>> /\ r.event = e
          /\ r.rest = c.rest \ {e} /\ r.batch = <<>>
      BY <2>1, <3>1, RestOk DEF Runs
    <3>3. r.rest \subseteq Backfilled
      BY <2>1, <3>2
    <3> HIDE DEF r
    <3> QED
      BY <1>3, <2>2, <3>1, <3>2, <3>3 DEF r
  <2>3. ASSUME c.table > 0,
               runner' = [runner EXCEPT ![Command] = [AtRest EXCEPT !.at = "table", !.table = c.table - 1]]
        PROVE  RunnerTypes'
    <3> DEFINE r == [AtRest EXCEPT !.at = "table", !.table = c.table - 1]
    <3>1. c.table - 1 \in Nat
      BY <2>1, <2>3
    <3>2. /\ r \in Runs /\ r.at = "table" /\ r.accounts = <<>> /\ r.event = 0 /\ r.rest = {}
          /\ r.batch = <<>>
      BY <3>1, RestOk DEF Runs
    <3> QED
      BY <1>3, <2>3, <3>2
  <2>4. ASSUME runner' = [runner EXCEPT ![Command] = AtRest] PROVE RunnerTypes'
    BY <1>a, <1>b, <2>4, RestOk, OneRuns
  <2> QED
    BY <1>6, <2>2, <2>3, <2>4 DEF BackfillEvent
<1>7. CASE BackfillFails
  <2> DEFINE c == runner[Command]
  <2>1. PICK lost : Abandon(Command, [AtRest EXCEPT !.at = "insert", !.table = c.table, !.rest = c.rest \ lost])
    BY <1>7 DEF BackfillFails
  <2> DEFINE r == [AtRest EXCEPT !.at = "insert", !.table = c.table, !.rest = c.rest \ lost]
  <2>2. c.rest \subseteq Backfilled /\ c.table \in Nat /\ c.rest \ lost \in SUBSET Nat
    BY <1>a DEF RunOk, Runs
  <2>3. /\ r \in Runs /\ r.at = "insert" /\ r.accounts = <<>> /\ r.event = 0
        /\ r.rest \subseteq Backfilled /\ r.batch = <<>>
    BY <2>2, RestOk DEF Runs
  <2>4. RunOk(Command, r)
    BY <1>a, <2>3 DEF RunOk, Refreshes
  <2> HIDE DEF r
  <2> QED
    BY <1>a, <1>b, <2>1, <2>3, <2>4, AbandonTypes DEF r
<1> QED
  BY <1>b, <1>1, <1>2, <1>4, <1>5, <1>6, <1>7

(* A new event leaves the events before it as they are.                    *)
LEMMA EventsGrow ==
    ASSUME BalanceTypes, [BalanceNext]_balanceVars
    PROVE  /\ DOMAIN chainEvents \subseteq DOMAIN chainEvents'
           /\ \A e \in DOMAIN chainEvents : chainEvents'[e] = chainEvents[e]
           /\ \/ UNCHANGED <<chainEvents, onChain>>
              \/ \E k \in {"Transfer", "Minted", "PaidOut"}, l \in Seq(Accounts),
                    x \in {Len(chainEvents), Len(chainEvents) + 1} \ {0} :
                    /\ ChainEvent(k, l, x)
                    /\ CASE k = "Transfer" -> Len(l) = 2
                         [] k = "Minted"   -> Len(l) = 1
                         [] OTHER          -> l = <<>>
<1> USE DEF BalanceTypes
<1>1. /\ chainEvents \in Seq(EventRow) /\ Len(chainEvents) \in Nat
      /\ DOMAIN chainEvents = 1..Len(chainEvents)
  BY DEF EventTypes
<1>2. \/ UNCHANGED <<chainEvents, onChain>>
      \/ \E k \in {"Transfer", "Minted", "PaidOut"}, l \in Seq(Accounts),
            x \in {Len(chainEvents), Len(chainEvents) + 1} \ {0} :
            /\ ChainEvent(k, l, x)
            /\ CASE k = "Transfer" -> Len(l) = 2
                 [] k = "Minted"   -> Len(l) = 1
                 [] OTHER          -> l = <<>>
  <2>1. ASSUME NEW a \in Accounts, NEW b \in Accounts,
               ChainEvent("Transfer", <<a, b>>, Len(chainEvents) + 1)
        PROVE  <<a, b>> \in Seq(Accounts) /\ Len(<<a, b>>) = 2
               /\ Len(chainEvents) + 1 \in {Len(chainEvents), Len(chainEvents) + 1} \ {0}
    BY <1>1
  <2>2. ASSUME NEW a \in Accounts PROVE <<a>> \in Seq(Accounts) /\ Len(<<a>>) = 1
    OBVIOUS
  <2>3. ASSUME chainEvents # <<>>
        PROVE  <<>> \in Seq(Accounts)
               /\ Len(chainEvents) \in {Len(chainEvents), Len(chainEvents) + 1} \ {0}
    BY <1>1, <2>3
  <2>4. ASSUME NEW p \in Procs,
               \/ RefreshAccount(p) \/ FirstOrCreate(p) \/ FirstOrCreateFails(p) \/ CountAccount(p)
               \/ ReadData(p) \/ ReadBalanceLocks(p) \/ AfterAccountCreate(p) \/ RefreshFails(p)
               \/ CreateTransfer(p) \/ CountTransfer(p) \/ TransferFails(p) \/ ProcessDies(p)
        PROVE  UNCHANGED <<chainEvents, onChain>>
    BY <2>4 DEF RefreshAccount, FirstOrCreate, FirstOrCreateFails, CountAccount, ReadData,
       ReadBalanceLocks, AfterAccountCreate, RefreshFails, CreateTransfer, CountTransfer,
       TransferFails, ProcessDies
  <2>5. ASSUME NEW w \in BalanceWorkers, EndEvent(w) \/ \E e \in eventJobs : EmitEvent(w, e)
        PROVE  UNCHANGED <<chainEvents, onChain>>
    BY <2>5 DEF EndEvent, EmitEvent
  <2>6. ASSUME \/ \E mode \in Modes, id \in 0..Len(idOrder) : RefreshAllAccount(mode, id)
               \/ EndRefreshAll \/ InitTransfer \/ ReadTable \/ BackfillEvent \/ BackfillFails
               \/ UNCHANGED balanceVars
        PROVE  UNCHANGED <<chainEvents, onChain>>
    BY <2>6, CommandKeeps DEF balanceVars
  <2>7. CASE \E a, b \in Accounts : a # b /\ ChainEvent("Transfer", <<a, b>>, Len(chainEvents) + 1)
    BY <2>1, <2>7
  <2>8. CASE \E a \in Accounts, x \in {Len(chainEvents), Len(chainEvents) + 1} \ {0} :
                ChainEvent("Minted", <<a>>, x)
    BY <2>2, <2>8
  <2>9. CASE chainEvents # <<>> /\ ChainEvent("PaidOut", <<>>, Len(chainEvents))
    BY <2>3, <2>9
  <2> QED
    BY <2>4, <2>5, <2>6, <2>7, <2>8, <2>9 DEF BalanceNext
<1>3. ASSUME NEW k, NEW l, NEW x, ChainEvent(k, l, x)
      PROVE  /\ DOMAIN chainEvents \subseteq DOMAIN chainEvents'
             /\ \A e \in DOMAIN chainEvents : chainEvents'[e] = chainEvents[e]
  BY <1>1, <1>3 DEF ChainEvent
<1> QED
  BY <1>2, <1>3

(* What a new event is.                                                    *)
LEMMA NewEvent ==
    ASSUME BalanceTypes, NEW k \in {"Transfer", "Minted", "PaidOut"}, NEW l \in Seq(Accounts),
           NEW x \in {Len(chainEvents), Len(chainEvents) + 1} \ {0}, ChainEvent(k, l, x)
    PROVE  /\ Len(chainEvents) + 1 \in Nat \ {0}
           /\ Len(chainEvents) + 1 \notin DOMAIN chainEvents
           /\ chainEvents' \in Seq(EventRow)
           /\ DOMAIN chainEvents' = DOMAIN chainEvents \cup {Len(chainEvents) + 1}
           /\ Len(chainEvents') = Len(chainEvents) + 1
           /\ chainEvents'[Len(chainEvents) + 1] = [kind |-> k, accounts |-> l, extrinsic |-> x]
           /\ eventJobs' = IF k = "PaidOut" THEN eventJobs
                                             ELSE eventJobs \cup {Len(chainEvents) + 1}
           /\ \A a \in Accounts : onChain'[a] = IF a \in ToSet(l) THEN onChain[a] + 1 ELSE onChain[a]
<1>1. /\ chainEvents \in Seq(EventRow) /\ Len(chainEvents) \in Nat
      /\ DOMAIN chainEvents = 1..Len(chainEvents)
  BY DEF BalanceTypes, EventTypes
<1>2. [kind |-> k, accounts |-> l, extrinsic |-> x] \in EventRow
  BY <1>1 DEF EventRow
<1>3. /\ chainEvents' = Append(chainEvents, [kind |-> k, accounts |-> l, extrinsic |-> x])
      /\ eventJobs' = IF k = "PaidOut" THEN eventJobs ELSE eventJobs \cup {Len(chainEvents) + 1}
      /\ \A a \in Accounts : onChain'[a] = IF a \in ToSet(l) THEN onChain[a] + 1 ELSE onChain[a]
  BY DEF ChainEvent
<1> QED
  BY <1>1, <1>2, <1>3

(* Only CreateTransfer makes a row of a transfer.                          *)
LEMMA TransfersKept ==
    ASSUME [BalanceNext]_balanceVars
    PROVE  UNCHANGED transfers \/ \E p \in Procs : CreateTransfer(p)
<1>2. ASSUME NEW p \in Procs,
             \/ RefreshAccount(p) \/ FirstOrCreate(p) \/ FirstOrCreateFails(p) \/ CountAccount(p)
             \/ ReadData(p) \/ ReadBalanceLocks(p) \/ AfterAccountCreate(p) \/ RefreshFails(p)
             \/ CountTransfer(p) \/ TransferFails(p) \/ ProcessDies(p)
      PROVE  UNCHANGED transfers
  BY <1>2 DEF RefreshAccount, FirstOrCreate, FirstOrCreateFails, CountAccount, ReadData,
     ReadBalanceLocks, AfterAccountCreate, RefreshFails, CountTransfer, TransferFails,
     ProcessDies, balanceRowVars
<1>3. ASSUME NEW w \in BalanceWorkers, EndEvent(w) \/ \E e \in eventJobs : EmitEvent(w, e)
      PROVE  UNCHANGED transfers
  BY <1>3 DEF EndEvent, EmitEvent, balanceRowVars
<1>4. ASSUME \/ \E mode \in Modes, id \in 0..Len(idOrder) : RefreshAllAccount(mode, id)
             \/ EndRefreshAll \/ InitTransfer \/ ReadTable \/ BackfillEvent \/ BackfillFails
             \/ UNCHANGED balanceVars
      PROVE  UNCHANGED transfers
  BY <1>4, CommandKeeps DEF balanceVars
<1>5. ASSUME NEW k, NEW l, NEW x, ChainEvent(k, l, x) PROVE UNCHANGED transfers
  BY <1>5 DEF ChainEvent, balanceRowVars
<1> QED
  BY <1>2, <1>3, <1>4, <1>5 DEF BalanceNext

LEMMA EventTypeStep ==
    ASSUME BalanceTypes, [BalanceNext]_balanceVars
    PROVE  EventTypes'
<1> USE DEF BalanceTypes
<1>1. DOMAIN balanceRow' \subseteq Accounts
  BY IdsStep
<1>2. DOMAIN transfers' \subseteq DOMAIN chainEvents'
  <2>1. ASSUME NEW p \in Procs, CreateTransfer(p)
        PROVE  DOMAIN transfers' \subseteq DOMAIN chainEvents /\ UNCHANGED chainEvents
    BY <2>1 DEF CreateTransfer, RunnerTypes, RunOk, Backfilled, EventTypes
  <2>6. DOMAIN transfers \subseteq DOMAIN chainEvents
    BY DEF EventTypes
  <2> QED
    BY <2>1, <2>6, EventsGrow, TransfersKept
<1>3. eventJobs' \subseteq DOMAIN chainEvents'
  <2>1. ASSUME NEW w \in BalanceWorkers, EndEvent(w) \/ \E e \in eventJobs : EmitEvent(w, e)
        PROVE  eventJobs' \subseteq DOMAIN chainEvents
    <3>1. runner[w].event # 0 => runner[w].event \in DOMAIN chainEvents
      BY DEF RunnerTypes, RunOk, Procs
    <3>2. EndEvent(w) => runner[w].event \in DOMAIN chainEvents
      BY <3>1 DEF EndEvent, RunnerTypes, RunOk, Procs
    <3> QED
      BY <2>1, <3>2 DEF EndEvent, EmitEvent, Republish, EventTypes
  <2>2. ASSUME NEW p \in Procs, ProcessDies(p) \/ TransferFails(p)
        PROVE  eventJobs' \subseteq DOMAIN chainEvents
    <3>1. p \in BalanceWorkers => runner[p].event \in DOMAIN chainEvents
      <4>1. runner[p].at # "idle"
        BY <2>2 DEF ProcessDies, TransferFails, RunnerTypes, RunOk
      <4> QED
        BY <4>1 DEF RunnerTypes, RunOk
    <3> QED
      BY <2>2, <3>1 DEF ProcessDies, TransferFails, Republish, EventTypes
  <2>3. ASSUME NEW p \in Procs,
               \/ RefreshAccount(p) \/ FirstOrCreate(p) \/ FirstOrCreateFails(p) \/ CountAccount(p)
               \/ ReadData(p) \/ ReadBalanceLocks(p) \/ AfterAccountCreate(p) \/ RefreshFails(p)
               \/ CountTransfer(p) \/ CreateTransfer(p)
        PROVE  UNCHANGED eventJobs
    BY <2>3 DEF RefreshAccount, FirstOrCreate, FirstOrCreateFails, CountAccount, ReadData,
       ReadBalanceLocks, AfterAccountCreate, RefreshFails, CountTransfer, CreateTransfer
  <2>4. ASSUME \/ \E mode \in Modes, id \in 0..Len(idOrder) : RefreshAllAccount(mode, id)
               \/ EndRefreshAll \/ InitTransfer \/ ReadTable \/ BackfillEvent \/ BackfillFails
               \/ UNCHANGED balanceVars
        PROVE  UNCHANGED eventJobs
    BY <2>4, CommandKeeps DEF balanceVars
  <2>5. ASSUME NEW k \in {"Transfer", "Minted", "PaidOut"}, NEW l \in Seq(Accounts),
               NEW x \in {Len(chainEvents), Len(chainEvents) + 1} \ {0}, ChainEvent(k, l, x)
        PROVE  eventJobs' \subseteq DOMAIN chainEvents'
    BY <2>5, NewEvent DEF EventTypes
  <2>6. eventJobs \subseteq DOMAIN chainEvents
    BY DEF EventTypes
  <2>7. CASE UNCHANGED <<chainEvents, onChain>>
    <3>1. ASSUME NEW k, NEW l, NEW x, ChainEvent(k, l, x) PROVE FALSE
      <4>1. chainEvents' = Append(chainEvents, [kind |-> k, accounts |-> l, extrinsic |-> x])
        BY <3>1 DEF ChainEvent
      <4>2. Len(chainEvents) \in Nat /\ Len(chainEvents') = Len(chainEvents) + 1
        BY <4>1 DEF EventTypes
      <4> QED
        BY <2>7, <4>2
    <3> QED
      BY <2>1, <2>2, <2>3, <2>4, <2>6, <2>7, <3>1 DEF BalanceNext
  <2> QED
    BY <2>5, <2>7, EventsGrow
<1>4. CASE UNCHANGED <<chainEvents, onChain>>
  BY <1>1, <1>2, <1>3, <1>4 DEF EventTypes
<1>5. ASSUME NEW k \in {"Transfer", "Minted", "PaidOut"}, NEW l \in Seq(Accounts),
             NEW x \in {Len(chainEvents), Len(chainEvents) + 1} \ {0}, ChainEvent(k, l, x),
             CASE k = "Transfer" -> Len(l) = 2
               [] k = "Minted"   -> Len(l) = 1
               [] OTHER          -> l = <<>>
      PROVE  EventTypes'
  <2>0. PICK n : n = Len(chainEvents) + 1
    OBVIOUS
  <2>1. /\ chainEvents' \in Seq(EventRow) /\ DOMAIN chainEvents' = DOMAIN chainEvents \cup {n}
        /\ chainEvents'[n] = [kind |-> k, accounts |-> l, extrinsic |-> x]
        /\ \A a \in Accounts : onChain'[a] = IF a \in ToSet(l) THEN onChain[a] + 1 ELSE onChain[a]
    BY ZenonT(60), <1>5, <2>0, NewEvent
  <2>2. \A e \in DOMAIN chainEvents : chainEvents'[e] = chainEvents[e]
    BY EventsGrow
  <2>3. onChain' \in [Accounts -> Nat \ {0}]
    <3>1. onChain' = [a \in Accounts |-> onChain'[a]]
      BY <1>5 DEF ChainEvent
    <3> QED
      BY <2>1, <3>1 DEF EventTypes
  <2>4. ASSUME NEW e \in DOMAIN chainEvents'
        PROVE  CASE chainEvents'[e].kind = "Transfer" -> Len(chainEvents'[e].accounts) = 2
                 [] chainEvents'[e].kind = "Minted"   -> Len(chainEvents'[e].accounts) = 1
                 [] OTHER                             -> chainEvents'[e].accounts = <<>>
    <3>1. CASE e \in DOMAIN chainEvents
      BY <2>2, <3>1 DEF EventTypes
    <3>2. CASE e = n
      BY <1>5, <2>1, <3>2
    <3> QED
      BY <2>1, <3>1, <3>2
  <2> QED
    BY <1>1, <1>2, <1>3, <2>1, <2>3, <2>4 DEF EventTypes
<1> QED
  BY <1>4, <1>5, EventsGrow

LEMMA RowsKnownStep ==
    ASSUME BalanceTypes, [BalanceNext]_balanceVars
    PROVE  RowsKnown'
<1> USE DEF BalanceTypes
<1>a. DOMAIN balanceRow \subseteq DOMAIN balanceRow'
  BY IdsStep
(* A process that keeps to its batch comes to no other account.            *)
<1> DEFINE Ok(q) == /\ ToSet(runner'[q].batch) \subseteq DOMAIN balanceRow'
                    /\ runner'[q].batch # <<>> => ToSet(runner'[q].accounts) \subseteq DOMAIN balanceRow'
<1>b. ASSUME NEW q \in Procs, runner'[q].batch \in {runner[q].batch, <<>>},
             runner'[q].batch # <<>> => ToSet(runner'[q].accounts) \subseteq ToSet(runner[q].accounts)
      PROVE  Ok(q)
  <2>1. ToSet(<<>>) = {}
    BY DEF ToSet
  <2> QED
    BY <1>a, <1>b, <2>1 DEF RowsKnown
<1>c. \A q \in Procs : runner[q] \in Runs
  BY DEF RunnerTypes
<1>d. ASSUME \A q \in Procs : Ok(q) PROVE RowsKnown'
  BY <1>d DEF RowsKnown
<1>e. ASSUME NEW q \in Procs, runner'[q] \in {runner[q], AtRest} PROVE Ok(q)
  BY <1>b, <1>e, RestOk
<1>f. ASSUME NEW q \in Procs, runner[q].accounts # <<>>
      PROVE  ToSet(Tail(runner[q].accounts)) \subseteq ToSet(runner[q].accounts)
  BY <1>c, <1>f, HeadAndTail DEF Runs
<1> HIDE DEF Ok
<1>1. ASSUME NEW p \in Procs,
             \/ FirstOrCreate(p) \/ FirstOrCreateFails(p) \/ CountAccount(p) \/ ReadData(p)
             \/ ReadBalanceLocks(p)
      PROVE  RowsKnown'
  <2>1. \A q \in Procs : q # p => runner'[q] = runner[q]
    BY <1>1 DEF FirstOrCreate, FirstOrCreateFails, CountAccount, ReadData, ReadBalanceLocks, RunnerTypes
  <2>2. runner'[p].batch = runner[p].batch /\ runner'[p].accounts = runner[p].accounts
    <3>1. CASE FirstOrCreate(p) \/ FirstOrCreateFails(p) \/ CountAccount(p)
      <4>1. PICK a : runner' = [runner EXCEPT ![p].at = a]
        BY <3>1 DEF FirstOrCreate, FirstOrCreateFails, CountAccount
      <4> QED
        BY <1>c, <4>1 DEF Runs, RunnerTypes
    <3>2. CASE ReadData(p)
      BY <1>c, <3>2 DEF ReadData, Runs, RunnerTypes
    <3>3. CASE ReadBalanceLocks(p)
      BY <1>c, <3>3 DEF ReadBalanceLocks, Runs, RunnerTypes
    <3> QED
      BY <1>1, <3>1, <3>2, <3>3
  <2>3. Ok(p)
    BY <1>b, <2>2
  <2> QED
    BY <1>d, <1>e, <2>1, <2>3
<1>2. ASSUME NEW p \in Procs, AfterAccountCreate(p) \/ RefreshFails(p)
      PROVE  RowsKnown'
  <2>1. \A q \in Procs : q # p => runner'[q] = runner[q]
    BY <1>2 DEF AfterAccountCreate, RefreshFails, RunnerTypes
  <2>2. PICK b \in BOOLEAN : runner'[p] = Refreshed(p, b)
    BY <1>2 DEF AfterAccountCreate, RefreshFails, RunnerTypes
  <2>3. runner'[p].batch = runner[p].batch /\ runner'[p].accounts = Tail(runner[p].accounts)
    BY <1>c, <2>2 DEF Refreshed, Runs
  <2>4. runner[p].accounts # <<>>
    BY <1>2 DEF AfterAccountCreate, RefreshFails, RunnerTypes, RunOk, Refreshes
  <2>5. Ok(p)
    BY <1>b, <1>f, <2>3, <2>4
  <2> QED
    BY <1>d, <1>e, <2>1, <2>5
<1>3. ASSUME NEW p \in Procs, CreateTransfer(p) \/ CountTransfer(p)
      PROVE  RowsKnown'
  <2>1. \A q \in Procs : q # p => runner'[q] = runner[q]
    BY <1>3 DEF CreateTransfer, CountTransfer, RunnerTypes
  <2>2. runner[p].batch = <<>>
    BY <1>3 DEF CreateTransfer, CountTransfer, RunnerTypes, RunOk
  <2>3. runner'[p].batch = runner[p].batch
    <3>3. CASE CreateTransfer(p)
      BY <1>c, <3>3 DEF CreateTransfer, Runs, RunnerTypes
    <3>4. CASE CountTransfer(p)
      BY <1>c, <3>4 DEF CountTransfer, Runs, RunnerTypes
    <3> QED
      BY <1>3, <3>3, <3>4
  <2>4. Ok(p)
    BY <1>b, <2>2, <2>3
  <2> QED
    BY <1>d, <1>e, <2>1, <2>4
<1>4. ASSUME NEW p \in Procs, RefreshAccount(p) PROVE RowsKnown'
  <2>1. ASSUME NEW q \in Procs
        PROVE  \/ runner'[q] = runner[q]
               \/ \E b \in BOOLEAN : runner'[q] = [runner[q] EXCEPT !.alone = b]
               \/ \E b \in BOOLEAN : runner'[q] = [runner[q] EXCEPT !.at = "row", !.alone = b]
               \/ q = p /\ runner[q].at = "next" /\ runner'[q] = [runner[q] EXCEPT !.accounts = Tail(runner[q].accounts)]
    <3>1. CASE CurrentAccount(p) \notin Accounts
      BY <1>4, <3>1 DEF RefreshAccount, RunnerTypes
    <3>2. CASE CurrentAccount(p) \in Accounts
      BY <1>4, <3>2 DEF RefreshAccount
    <3> QED
      BY <3>1, <3>2
  <2>2. ASSUME NEW q \in Procs
        PROVE  /\ runner'[q].batch = runner[q].batch
               /\ runner'[q].accounts \in {runner[q].accounts, Tail(runner[q].accounts)}
    BY <1>c, <2>1 DEF Runs
  <2>3. runner[p].accounts # <<>>
    BY <1>4 DEF RefreshAccount
  <2>4. ASSUME NEW q \in Procs PROVE ToSet(runner'[q].accounts) \subseteq ToSet(runner[q].accounts)
    <3>1. CASE q = p
      BY <1>f, <2>2, <2>3, <3>1
    <3>2. CASE q # p
      BY <1>c, <2>1, <3>2 DEF Runs
    <3> QED
      BY <3>1, <3>2
  <2> QED
    BY <1>b, <1>d, <2>2, <2>4
<1>5. ASSUME NEW p \in Procs, NEW r, Abandon(p, r), r.batch = <<>>
      PROVE  RowsKnown'
  <2>1. ASSUME NEW q \in Procs
        PROVE  \/ q = p /\ runner'[q] = r
               \/ runner'[q] = runner[q]
               \/ runner'[q] = [runner[q] EXCEPT !.alone = FALSE]
    BY <1>5 DEF Abandon
  <2>3. Ok(p)
    <3>1. runner'[p] = r
      BY <1>5 DEF Abandon
    <3> QED
      BY <1>b, <1>5, <3>1
  <2>2. ASSUME NEW q \in Procs, runner'[q] = [runner[q] EXCEPT !.alone = FALSE] PROVE Ok(q)
    <3>1. runner'[q].batch = runner[q].batch /\ runner'[q].accounts = runner[q].accounts
      BY <1>c, <2>2 DEF Runs
    <3> QED
      BY <1>b, <3>1
  <2> QED
    BY <1>d, <1>e, <2>1, <2>2, <2>3
<1>10. ASSUME BackfillFails \/ \E p \in Procs : ProcessDies(p) \/ TransferFails(p) PROVE RowsKnown'
  <2>1. CASE BackfillFails
    <3>1. PICK t, l : Abandon(Command, [AtRest EXCEPT !.at = "insert", !.table = t, !.rest = l])
      BY <2>1 DEF BackfillFails
    <3>2. [AtRest EXCEPT !.at = "insert", !.table = t, !.rest = l].batch = <<>> /\ Command \in Procs
      BY DEF AtRest, Procs
    <3> QED
      BY <1>5, <3>1, <3>2
  <2>2. CASE \E p \in Procs : ProcessDies(p) \/ TransferFails(p)
    BY <1>5, <2>2, RestOk DEF ProcessDies, TransferFails
  <2> QED
    BY <1>10, <2>1, <2>2
<1>6. ASSUME NEW w \in BalanceWorkers, EndEvent(w) \/ \E e \in eventJobs : EmitEvent(w, e)
      PROVE  RowsKnown'
  <2>1. w \in Procs /\ \A q \in Procs : q # w => runner'[q] = runner[q]
    BY <1>6 DEF EndEvent, EmitEvent, RunnerTypes, Procs
  <2>2. runner'[w].batch = <<>>
    <3>1. CASE EndEvent(w)
      BY <2>1, <3>1, RestOk DEF EndEvent, RunnerTypes
    <3>2. ASSUME NEW e \in eventJobs, EmitEvent(w, e)
          PROVE  runner'[w].batch = <<>>
      <4> DEFINE a == [AtRest EXCEPT !.at = "transfer", !.event = e]
                 b == [AtRest EXCEPT !.at = "next", !.event = e, !.accounts = chainEvents[e].accounts]
      <4>1. runner'[w] \in {a, b}
        BY <2>1, <3>2 DEF EmitEvent, RunnerTypes
      <4>2. a.batch = <<>> /\ b.batch = <<>>
        BY RestOk DEF Runs
      <4> QED
        BY <4>1, <4>2
    <3> QED
      BY <1>6, <3>1, <3>2
  <2> QED
    BY <1>b, <1>d, <1>e, <2>1, <2>2
<1>7. ASSUME EndRefreshAll \/ InitTransfer \/ ReadTable \/ BackfillEvent PROVE RowsKnown'
  <2>1. Command \in Procs /\ \A q \in Procs : q # Command => runner'[q] = runner[q]
    BY <1>7 DEF EndRefreshAll, InitTransfer, ReadTable, BackfillEvent, RunnerTypes, Procs
  <2>2. \/ runner'[Command].batch = <<>>
        \/ /\ runner'[Command].batch = runner[Command].batch
           /\ runner'[Command].accounts = runner[Command].accounts
    <3>1. CASE EndRefreshAll
      BY <2>1, <3>1, RestOk DEF EndRefreshAll, RunnerTypes
    <3>2. CASE InitTransfer
      <4>1. \E t : runner'[Command] = [AtRest EXCEPT !.at = "table", !.table = t]
        BY <2>1, <3>2 DEF InitTransfer, RunnerTypes
      <4> QED
        BY <4>1, RestOk DEF Runs
    <3>3. CASE ReadTable
      <4>1. \E R : runner'[Command] = [runner[Command] EXCEPT !.at = "insert", !.rest = R]
        BY <2>1, <3>3 DEF ReadTable, RunnerTypes
      <4> QED
        BY <1>c, <2>1, <4>1 DEF Runs
    <3>4. CASE BackfillEvent
      <4>1. \/ runner'[Command] = AtRest
            \/ runner'[Command] = [AtRest EXCEPT !.at = "table", !.table = runner[Command].table - 1]
            \/ \E e \in runner[Command].rest : runner'[Command] =
                  [AtRest EXCEPT !.at = "transfer", !.event = e, !.table = runner[Command].table,
                                 !.rest = runner[Command].rest \ {e}]
        BY <2>1, <3>4 DEF BackfillEvent, RunnerTypes
      <4> QED
        BY <4>1, RestOk DEF Runs
    <3> QED
      BY <1>7, <3>1, <3>2, <3>3, <3>4
  <2> QED
    BY <1>b, <1>d, <1>e, <2>1, <2>2
<1>8. ASSUME NEW mode \in Modes, NEW id \in 0..Len(idOrder), RefreshAllAccount(mode, id)
      PROVE  RowsKnown'
  <2>1. PICK start \in Nat, n \in Nat :
           LET batch == SubSeq(idOrder, start + 1, start + n)
           IN  /\ start + n <= Len(idOrder)
               /\ \/ runner' = runner
                  \/ runner' = [runner EXCEPT ![Command] =
                                  [AtRest EXCEPT !.at = "next", !.accounts = batch, !.batch = batch]]
    BY <1>8, BatchTypes
  <2> DEFINE batch == SubSeq(idOrder, start + 1, start + n)
  <2>2. ToSet(batch) \subseteq DOMAIN balanceRow
    <3>1. /\ DOMAIN batch = 1..n /\ \A i \in 1..n : batch[i] = idOrder[start + i]
      BY SMTT(60), <2>1, Stretch DEF IdsInOrder
    <3>2. \A i \in 1..n : start + i \in DOMAIN idOrder
      BY <2>1 DEF IdsInOrder
    <3> HIDE DEF batch
    <3> QED
      BY <3>1, <3>2 DEF IdsInOrder, ToSet
  <2>3. CASE runner' = runner
    BY <1>d, <1>e, <2>3
  <2>4. CASE runner' # runner
    <3>1. /\ runner'[Command] = [AtRest EXCEPT !.at = "next", !.accounts = batch, !.batch = batch]
          /\ \A q \in Procs : q # Command => runner'[q] = runner[q]
      BY <2>1, <2>4 DEF RunnerTypes, Procs
    <3> HIDE DEF batch
    <3>2. runner'[Command].accounts = batch /\ runner'[Command].batch = batch
      BY <3>1, RestOk DEF Runs
    <3>3. Ok(Command)
      BY <1>a, <2>2, <3>2 DEF Ok
    <3> QED
      BY <1>d, <1>e, <3>1, <3>3
  <2> QED
    BY <2>3, <2>4
<1>9. ASSUME NEW k, NEW l, NEW x, ChainEvent(k, l, x) \/ UNCHANGED balanceVars PROVE RowsKnown'
  BY <1>9, <1>d, <1>e DEF ChainEvent, balanceVars
<1> QED
  BY <1>1, <1>2, <1>3, <1>4, <1>6, <1>7, <1>8, <1>9, <1>10 DEF BalanceNext

LEMMA BalanceTypeStep ==
    ASSUME BalanceTypes, [BalanceNext]_balanceVars
    PROVE  BalanceTypes'
<1>2. ASSUME NEW k, NEW l, NEW x, ChainEvent(k, l, x) PROVE RunnerTypes'
  <2>1. /\ DOMAIN chainEvents \subseteq DOMAIN chainEvents'
        /\ \A e \in DOMAIN chainEvents : chainEvents'[e] = chainEvents[e]
    BY EventsGrow
  <2>2. UNCHANGED runner
    BY <1>2 DEF ChainEvent
  <2> QED
    BY <2>1, <2>2 DEF BalanceTypes, RunnerTypes, RunOk, Backfilled
<1>3. RunnerTypes'
  <2>1. CASE UNCHANGED balanceVars
    BY <2>1 DEF BalanceTypes, RunnerTypes, RunOk, Backfilled, balanceVars
  <2>2. CASE BalanceNext
    BY <1>2, <2>2, RefreshTypes, TransferTypes, StartTypes, DeathTypes, EventRunTypes, CommandTypes
       DEF BalanceNext
  <2> QED
    BY <2>1, <2>2
<1> QED
  BY <1>3, EventTypeStep, IdsStep, RowsKnownStep DEF BalanceTypes

-----------------------------------------------------------------------------
(* What a step may not do to an account.                                   *)
LEMMA RowKept ==
    ASSUME NEW a \in Accounts, RowOk(a), Named(a)' => Named(a),
           a \in doubt => a \in doubt' \/ Watched(a)',
           Pending(a) => Pending(a)' \/ \E q \in Procs : Reads(q, a)',
           RowFresh(a) => RowFresh(a)' \/ a \in doubt' \/ Watched(a)',
           \A q \in Procs : Reads(q, a) => a \in doubt' \/ Watched(a)',
           \A q \in Procs : Stale(q, a)' => Stale(q, a) /\ (Pending(a) => Pending(a)')
    PROVE  RowOk(a)'
<1>1. (a \in doubt \/ ~ Named(a) \/ Watched(a))'
  BY DEF RowOk, Watched
<1>2. ASSUME NEW q \in Procs, Stale(q, a)' PROVE Pending(a)'
  BY <1>2 DEF RowOk
<1> QED
  BY <1>1, <1>2 DEF RowOk

(* A process a step does not move, but for what it knows of the others.    *)
LEMMA SameRun ==
    ASSUME BalanceTypes, UNCHANGED <<onChain, chainEvents>>, NEW q \in Procs, NEW a,
           \/ runner'[q] = runner[q]
           \/ \E b \in BOOLEAN : runner'[q] = [runner[q] EXCEPT !.alone = b]
    PROVE  /\ Refreshing(q, a)' <=> Refreshing(q, a)
           /\ Reads(q, a)' <=> Reads(q, a)
           /\ UNCHANGED transfers => (Awaits(runner[q], a)' <=> Awaits(runner[q], a))
<1>1. runner[q] \in Runs
  BY DEF BalanceTypes, RunnerTypes
<1>2. /\ runner'[q].at = runner[q].at /\ runner'[q].accounts = runner[q].accounts
      /\ runner'[q].event = runner[q].event
      /\ runner'[q].data = runner[q].data /\ runner'[q].locks = runner[q].locks
  BY <1>1 DEF Runs
<1>3. Refreshing(q, a)' <=> Refreshing(q, a)
  BY <1>2 DEF Refreshing, CurrentAccount
<1>4. Reads(q, a)' <=> Reads(q, a)
  BY <1>2, <1>3 DEF Reads
<1>5. ASSUME UNCHANGED transfers PROVE Awaits(runner[q], a)' <=> Awaits(runner[q], a)
  BY <1>2, <1>5 DEF Awaits
<1> QED
  BY <1>3, <1>4, <1>5

(* A step in which one process moves and no event, transfer or job does.   *)
LEMMA OneMoves ==
    ASSUME BalanceTypes, RowsInv, NEW p \in Procs, NEW a \in Accounts,
           UNCHANGED <<onChain, chainEvents, eventJobs, transfers>>,
           \A q \in Procs \ {p} : runner'[q] = runner[q],
           Awaits(runner[p], a) => Awaits(runner[p], a)',
           a \in doubt => a \in doubt' \/ Watched(a)',
           RowFresh(a) => RowFresh(a)' \/ a \in doubt' \/ Watched(a)',
           Reads(p, a) => a \in doubt' \/ Watched(a)',
           Stale(p, a)' => Stale(p, a)
    PROVE  RowOk(a)'
<1>1. RowOk(a)
  BY DEF RowsInv
<1>2. Named(a)' <=> Named(a)
  BY DEF Named
<1>3. InQueue(a)' <=> InQueue(a)
  BY DEF InQueue, Live
<1>4. \A q \in Procs \ {p} : Awaits(runner[q], a)' <=> Awaits(runner[q], a)
  BY SameRun
<1>5. Pending(a) => Pending(a)'
  BY <1>3, <1>4 DEF Pending
<1>6. \A q \in Procs \ {p} : Reads(q, a)' <=> Reads(q, a)
  BY SameRun
<1>7. \A q \in Procs : Reads(q, a) => a \in doubt' \/ Watched(a)'
  BY <1>6 DEF Watched
<1>8. \A q \in Procs \ {p} : Stale(q, a)' <=> Stale(q, a)
  <2> TAKE q \in Procs \ {p}
  <2>1. Refreshing(q, a)' <=> Refreshing(q, a)
    BY SameRun
  <2> QED
    BY <1>6, <2>1 DEF Stale
<1> QED
  BY <1>1, <1>2, <1>5, <1>7, <1>8, RowKept

LEMMA RefreshRows ==
    ASSUME BalanceTypes, RowsInv, NEW p \in Procs, NEW a \in Accounts,
           \/ FirstOrCreate(p) \/ FirstOrCreateFails(p) \/ CountAccount(p) \/ ReadData(p)
           \/ RefreshFails(p) \/ ReadBalanceLocks(p)
    PROVE  RowOk(a)'
<1> USE DEF balanceRowVars, history, Refreshes
<1>0. /\ UNCHANGED <<onChain, chainEvents, eventJobs, transfers>>
      /\ \A q \in Procs \ {p} : runner'[q] = runner[q]
  BY DEF FirstOrCreate, FirstOrCreateFails, CountAccount, ReadData, RefreshFails, ReadBalanceLocks,
     BalanceTypes, RunnerTypes
<1>1. runner[p] \in Runs /\ p \in DOMAIN runner
  BY DEF BalanceTypes, RunnerTypes
<1>2. RowFresh(a) => RowFresh(a)'
  BY DEF FirstOrCreate, FirstOrCreateFails, CountAccount, ReadData, RefreshFails, ReadBalanceLocks,
     RowFresh
<1>3. CASE FirstOrCreate(p) \/ FirstOrCreateFails(p) \/ CountAccount(p)
  <2>1. PICK s \in {"data", "countAccount"} : runner'[p] = [runner[p] EXCEPT !.at = s]
    BY <1>1, <1>3 DEF FirstOrCreate, FirstOrCreateFails, CountAccount
  <2>2. /\ runner'[p].at \in {"data", "countAccount"} /\ runner'[p].accounts = runner[p].accounts
        /\ runner[p].at \in {"row", "countAccount"}
    BY <1>1, <1>3, <2>1 DEF FirstOrCreate, FirstOrCreateFails, CountAccount, Runs
  <2>3. Awaits(runner[p], a) => Awaits(runner[p], a)'
    BY <2>2 DEF Awaits
  <2>4. Reads(p, a) => Reads(p, a)'
    BY <2>2 DEF Reads, Refreshing, CurrentAccount
  <2>5. ~ Stale(p, a)'
    BY <2>2 DEF Stale, Reads
  <2>6. UNCHANGED doubt
    BY <1>3 DEF FirstOrCreate, FirstOrCreateFails, CountAccount
  <2> QED
    BY <1>0, <1>2, <2>3, <2>4, <2>5, <2>6, OneMoves DEF Watched
<1>4. CASE ReadData(p)
  <2>1. /\ runner' = [runner EXCEPT ![p] = [runner[p] EXCEPT !.at = "locks", !.data = onChain[CurrentAccount(p)]]]
        /\ UNCHANGED doubt
    BY <1>4 DEF ReadData
  <2>2. /\ runner'[p].at = "locks" /\ runner'[p].accounts = runner[p].accounts
        /\ runner'[p].data = onChain[CurrentAccount(p)] /\ runner[p].at = "data"
    <3>1. runner'[p] = [runner[p] EXCEPT !.at = "locks", !.data = onChain[CurrentAccount(p)]]
      BY <1>1, <2>1, Zenon
    <3>2. runner[p].at = "data"
      BY <1>4, Zenon DEF ReadData
    <3> HIDE DEF CurrentAccount
    <3>3. runner[p] \in Runs
      BY <1>1
    <3> QED
      BY <3>1, <3>2, <3>3, SMTT(60) DEF Runs
  <2>3. Awaits(runner[p], a) => Awaits(runner[p], a)'
    BY <2>2 DEF Awaits
  <2>4. Refreshing(p, a)' => Reads(p, a)'
    BY <1>0, <2>2 DEF Reads, Refreshing, CurrentAccount
  <2>5. Reads(p, a) => Reads(p, a)'
    BY <2>2, <2>4 DEF Reads, Refreshing, CurrentAccount
  <2>6. ~ Stale(p, a)'
    BY <2>4 DEF Stale
  <2> QED
    BY <1>0, <1>2, <2>1, <2>3, <2>5, <2>6, OneMoves DEF Watched
<1>6. CASE RefreshFails(p)
  <2>1. runner' = [runner EXCEPT ![p] = Refreshed(p, FALSE)] /\ doubt' = doubt \cup {CurrentAccount(p)}
    BY <1>6 DEF RefreshFails
  <2>2. /\ runner'[p].at = "next" /\ runner'[p].accounts = Tail(runner[p].accounts)
        /\ runner[p].at \in {"data", "write"}
    BY <1>1, <1>6, <2>1 DEF RefreshFails, Refreshed, Runs
  <2>3. Awaits(runner[p], a) => Awaits(runner[p], a)'
    BY <2>2 DEF Awaits
  <2>4. ~ Stale(p, a)' /\ (Reads(p, a) => a \in doubt')
    BY <2>1, <2>2 DEF Stale, Refreshing, Reads
  <2> QED
    BY <1>0, <1>2, <2>1, <2>3, <2>4, OneMoves
<1>5. CASE ReadBalanceLocks(p)
  <2>1. PICK l \in {0, onChain[CurrentAccount(p)]} :
           runner'[p] = [runner[p] EXCEPT !.at = "write", !.locks = l]
    BY <1>1, <1>5 DEF ReadBalanceLocks
  <2>2. /\ runner'[p].at = "write" /\ runner'[p].accounts = runner[p].accounts
        /\ runner'[p].data = runner[p].data /\ runner'[p].locks = l /\ runner[p].at = "locks"
        /\ runner'[p].alone = runner[p].alone
    BY <1>1, <1>5, <2>1 DEF ReadBalanceLocks, Runs
  <2>3. Awaits(runner[p], a) => Awaits(runner[p], a)'
    BY <2>2 DEF Awaits
  <2>4. Refreshing(p, a)' <=> Refreshing(p, a)
    BY <2>2 DEF Refreshing, CurrentAccount
  <2>5. Reads(p, a)' <=> Reads(p, a)
    BY <1>0, <2>1, <2>2, <2>4 DEF Reads, Refreshing
  <2>6. Stale(p, a)' => Stale(p, a)
    BY <2>2, <2>4, <2>5 DEF Stale
  <2>7. UNCHANGED doubt
    BY <1>5 DEF ReadBalanceLocks
  <2> QED
    BY <1>0, <1>2, <2>3, <2>5, <2>6, <2>7, OneMoves DEF Watched
<1> QED
  BY <1>3, <1>4, <1>5, <1>6

LEMMA WriteRows ==
    ASSUME BalanceTypes, RowsInv, NEW p \in Procs, NEW a \in Accounts, AfterAccountCreate(p)
    PROVE  RowOk(a)'
<1> USE DEF balanceRowVars, history, Refreshes
<1>0. /\ UNCHANGED <<onChain, chainEvents, eventJobs, transfers>>
      /\ \A q \in Procs \ {p} : runner'[q] = runner[q]
  BY DEF AfterAccountCreate, BalanceTypes, RunnerTypes
<1>1. runner[p] \in Runs /\ p \in DOMAIN runner
  BY DEF BalanceTypes, RunnerTypes
<1>2. /\ runner'[p].at = "next" /\ runner'[p].accounts = Tail(runner[p].accounts)
      /\ runner[p].at = "write"
  BY <1>1 DEF AfterAccountCreate, Refreshed, Runs
<1>3. Awaits(runner[p], a) => Awaits(runner[p], a)'
  BY <1>2 DEF Awaits
<1>4. ~ Stale(p, a)'
  BY <1>2 DEF Stale, Refreshing
<1>5. CASE a # CurrentAccount(p)
  <2>1. ~ Reads(p, a)
    BY <1>5 DEF Reads, Refreshing
  <2>2. RowFresh(a) => RowFresh(a)'
    BY <1>5 DEF AfterAccountCreate, RowFresh
  <2>3. a \in doubt => a \in doubt'
    BY <1>5 DEF AfterAccountCreate
  <2> QED
    BY <1>0, <1>3, <1>4, <2>1, <2>2, <2>3, OneMoves
<1>6. CASE a = CurrentAccount(p) /\ ~ (a \in DOMAIN balanceRow /\ runner[p].alone /\ runner[p].locks # 0)
  <2>1. a \in doubt'
    BY <1>6 DEF AfterAccountCreate
  <2> QED
    BY <1>0, <1>3, <1>4, <2>1, OneMoves
<1>7. CASE a = CurrentAccount(p) /\ a \in DOMAIN balanceRow /\ runner[p].alone /\ runner[p].locks # 0
  <2>1. Refreshing(p, a)
    BY <1>2, <1>7 DEF Refreshing
  <2>2. CASE Reads(p, a)
    <3>1. runner[p].data = onChain[a] /\ runner[p].locks = onChain[a]
      BY <1>2, <1>7, <2>2 DEF Reads
    <3>3. balanceRow' = [b \in DOMAIN balanceRow |->
                IF b = a THEN RowOf(runner[p].data, runner[p].locks, Len(chainEvents)) ELSE balanceRow[b]]
      BY <1>7 DEF AfterAccountCreate
    <3>4. a \in DOMAIN balanceRow' /\ balanceRow'[a] = RowOf(onChain[a], onChain[a], Len(chainEvents))
      BY <1>7, <3>1, <3>3
    <3>5. [RowOf(onChain[a], onChain[a], Len(chainEvents)) EXCEPT !.vested = 0]
             = [RowOf(onChain[a], onChain[a], 0) EXCEPT !.vested = 0]
      BY DEF RowOf
    <3>6. RowFresh(a)'
      BY <1>0, <3>4, <3>5 DEF RowFresh
    <3> QED
      BY <1>0, <1>3, <1>4, <3>6, OneMoves DEF Watched
  <2>3. CASE ~ Reads(p, a)
    <3>1. Pending(a)
      BY <1>7, <2>1, <2>3 DEF RowsInv, RowOk, Stale
    <3>2. InQueue(a)' <=> InQueue(a)
      BY <1>0 DEF InQueue, Live
    <3>3. \A q \in Procs \ {p} : Awaits(runner[q], a)' <=> Awaits(runner[q], a)
      BY <1>0, SameRun
    <3>4. Pending(a)'
      BY <1>3, <3>1, <3>2, <3>3 DEF Pending
    <3> QED
      BY <1>0, <1>3, <1>4, <3>4, OneMoves DEF Watched
  <2> QED
    BY <2>2, <2>3
<1> QED
  BY <1>5, <1>6, <1>7

(* The refresh of the account at the head begins: the other refreshes of   *)
(* it are alone no longer.                                                 *)
LEMMA BeginRows ==
    ASSUME BalanceTypes, RowsInv, NEW p \in Procs, NEW a \in Accounts, RefreshAccount(p)
    PROVE  RowOk(a)'
<1> USE DEF balanceRowVars, history, Refreshes
<1>0. /\ UNCHANGED <<onChain, chainEvents, eventJobs, transfers, balanceRow, doubt>>
      /\ runner[p].at = "next" /\ runner[p].accounts # <<>>
  BY DEF RefreshAccount
<1>1. runner \in [Procs -> Runs] /\ runner[p] \in Runs
  BY DEF BalanceTypes, RunnerTypes
<1>2. /\ ToSet(Tail(runner[p].accounts)) \subseteq ToSet(runner[p].accounts)
      /\ \A x \in ToSet(runner[p].accounts) :
            x = Head(runner[p].accounts) \/ x \in ToSet(Tail(runner[p].accounts))
  <2>1. runner[p].accounts \in Seq(Accounts \cup {OmniBridgeSyntheticSender})
    BY <1>1 DEF Runs
  <2> QED
    BY <1>0, <2>1, HeadAndTail
<1>3. RowFresh(a)' <=> RowFresh(a)
  BY <1>0 DEF RowFresh
<1>4. CASE CurrentAccount(p) \notin Accounts
  <2>1. runner' = [runner EXCEPT ![p] = [runner[p] EXCEPT !.accounts = Tail(runner[p].accounts)]]
    BY <1>4 DEF RefreshAccount
  <2>2. /\ runner'[p].at = "next" /\ runner'[p].accounts = Tail(runner[p].accounts)
        /\ \A q \in Procs \ {p} : runner'[q] = runner[q]
    BY <1>0, <1>1, <2>1 DEF Runs
  <2>3. Awaits(runner[p], a) => Awaits(runner[p], a)'
    BY <1>0, <1>2, <1>4, <2>2 DEF Awaits, CurrentAccount
  <2>4. ~ Stale(p, a)' /\ ~ Reads(p, a)
    BY <1>0, <2>2 DEF Stale, Refreshing, Reads
  <2> QED
    BY <1>0, <1>3, <2>2, <2>3, <2>4, OneMoves
<1>5. CASE CurrentAccount(p) \in Accounts
  <2> DEFINE c == CurrentAccount(p)
             others == {q \in Procs \ {p} : Refreshing(q, c)}
  <2>1. runner' = [q \in Procs |->
                    CASE q = p        -> [runner[p] EXCEPT !.at = "row", !.alone = others = {}]
                      [] q \in others -> [runner[q] EXCEPT !.alone = FALSE]
                      [] OTHER        -> runner[q]]
    BY <1>5 DEF RefreshAccount
  <2>2. runner'[p].at = "row" /\ runner'[p].accounts = runner[p].accounts
    BY <1>1, <2>1 DEF Runs
  <2>3. \A q \in Procs \ {p} : \/ runner'[q] = runner[q]
                               \/ \E b \in BOOLEAN : runner'[q] = [runner[q] EXCEPT !.alone = b]
    BY <2>1
  <2>4. \A q \in Procs \ {p} : Refreshing(q, c) => ~ runner'[q].alone
    <3> TAKE q \in Procs \ {p}
    <3> HAVE Refreshing(q, c)
    <3>1. runner'[q] = [runner[q] EXCEPT !.alone = FALSE]
      BY <2>1
    <3> QED
      BY <1>1, <3>1 DEF Runs
  <2>5. \A q \in Procs \ {p} : ~ Refreshing(q, c) => runner'[q] = runner[q]
    BY <2>1
  <2> HIDE DEF others
  <2>6. \A q \in Procs \ {p} : /\ Refreshing(q, a)' <=> Refreshing(q, a)
                               /\ Reads(q, a)' <=> Reads(q, a)
                               /\ Awaits(runner[q], a)' <=> Awaits(runner[q], a)
    BY <1>0, <2>3, SameRun
  <2>7. InQueue(a)' <=> InQueue(a)
    BY <1>0 DEF InQueue, Live
  <2>8. Named(a)' <=> Named(a)
    BY <1>0 DEF Named
  <2>9. Awaits(runner[p], a) <=> a = c \/ a \in ToSet(Tail(runner[p].accounts))
    <3>1. c \in ToSet(runner[p].accounts)
      <4>1. runner[p].accounts \in Seq(Accounts \cup {OmniBridgeSyntheticSender})
        BY <1>1 DEF Runs
      <4> QED
        BY <1>0, <4>1 DEF ToSet, CurrentAccount
    <3> QED
      BY <1>0, <1>2, <3>1 DEF Awaits, CurrentAccount
  <2>10. Awaits(runner[p], a)' <=> a \in ToSet(Tail(runner[p].accounts))
    BY <2>2 DEF Awaits
  <2>11. a = c => Reads(p, a)'
    BY <2>2 DEF Reads, Refreshing, CurrentAccount
  <2>12. ~ Stale(p, a)'
    BY <2>2 DEF Stale, Reads
  <2>13. ~ Reads(p, a)
    BY <1>0 DEF Reads, Refreshing
  <2>14. RowOk(a)
    BY DEF RowsInv
  <2>15. Pending(a) => Pending(a)' \/ Reads(p, a)'
    BY <2>6, <2>7, <2>9, <2>10, <2>11 DEF Pending
  <2>16. \A q \in Procs : Reads(q, a) => Watched(a)'
    BY <2>6, <2>13 DEF Watched
  <2>17. ASSUME NEW q \in Procs, Stale(q, a)' PROVE Stale(q, a) /\ (Pending(a) => Pending(a)')
    <3>1. q # p /\ Refreshing(q, a) /\ runner'[q].alone
      BY <2>6, <2>12, <2>17 DEF Stale
    <3>2. a # c
      BY <2>4, <3>1
    <3>3. runner'[q] = runner[q]
      BY <2>5, <3>1, <3>2 DEF Refreshing
    <3>4. Stale(q, a)
      BY <2>6, <2>17, <3>1, <3>3 DEF Stale
    <3>5. Pending(a) => Pending(a)'
      BY <2>6, <2>7, <2>9, <2>10, <3>2 DEF Pending
    <3> QED
      BY <3>4, <3>5
  <2> QED
    BY <1>0, <1>3, <2>8, <2>14, <2>15, <2>16, <2>17, RowKept DEF Watched
<1> QED
  BY <1>4, <1>5

(* A step in which one process, at no refresh before or after, moves.      *)
LEMMA OneTurns ==
    ASSUME BalanceTypes, RowsInv, NEW p \in Procs, NEW a \in Accounts,
           UNCHANGED <<onChain, chainEvents, balanceRow, doubt>>,
           \A q \in Procs \ {p} : runner'[q] = runner[q],
           runner[p].at \notin Refreshes, runner'[p].at \notin Refreshes,
           Pending(a) => Pending(a)'
    PROVE  RowOk(a)'
<1>1. RowOk(a)
  BY DEF RowsInv
<1>2. Named(a)' <=> Named(a)
  BY DEF Named
<1>3. RowFresh(a)' <=> RowFresh(a)
  BY DEF RowFresh
<1>4. ~ Refreshing(p, a) /\ ~ Refreshing(p, a)'
  BY DEF Refreshing, Refreshes
<1>5. \A q \in Procs : Reads(q, a)' <=> Reads(q, a)
  <2>1. \A q \in Procs \ {p} : Reads(q, a)' <=> Reads(q, a)
    BY SameRun
  <2> QED
    BY <1>4, <2>1 DEF Reads
<1>6. \A q \in Procs : Stale(q, a)' => Stale(q, a)
  <2>1. \A q \in Procs \ {p} : Refreshing(q, a)' <=> Refreshing(q, a)
    BY SameRun
  <2> QED
    BY <1>4, <1>5, <2>1 DEF Stale
<1> QED
  BY <1>1, <1>2, <1>3, <1>5, <1>6, RowKept DEF Watched

LEMMA TransferRows ==
    ASSUME BalanceTypes, RowsInv, NEW p \in Procs, NEW a \in Accounts,
           CreateTransfer(p) \/ CountTransfer(p)
    PROVE  RowOk(a)'
<1> USE DEF history, Refreshes
<1> DEFINE e == runner[p].event
<1>0. /\ UNCHANGED <<onChain, chainEvents, eventJobs, balanceRow, doubt>>
      /\ \A q \in Procs \ {p} : runner'[q] = runner[q]
      /\ runner[p].at \in {"transfer", "countTransfer"}
  BY DEF CreateTransfer, CountTransfer, BalanceTypes, RunnerTypes
<1>1. runner[p] \in Runs /\ p \in DOMAIN runner /\ RunOk(p, runner[p])
  BY DEF BalanceTypes, RunnerTypes
<1>2. e \in DOMAIN chainEvents /\ runner[p].accounts = <<>> /\ chainEvents[e].kind \in {"Transfer", "Minted"}
  BY <1>0, <1>1 DEF RunOk, Backfilled
<1>3. CASE CreateTransfer(p) /\ e \in DOMAIN transfers
  <2>1. runner' = [runner EXCEPT ![p] = [runner[p] EXCEPT !.at = "next"]] /\ UNCHANGED transfers
    BY <1>3 DEF CreateTransfer
  <2>2. runner'[p].at = "next" /\ runner[p].at = "transfer"
    BY <1>1, <1>3, <2>1 DEF Runs, CreateTransfer
  <2>3. ~ Awaits(runner[p], a)
    BY <1>3, <2>2 DEF Awaits
  <2>4. InQueue(a)' <=> InQueue(a)
    BY <1>0, <2>1 DEF InQueue, Live
  <2>5. \A q \in Procs \ {p} : Awaits(runner[q], a)' <=> Awaits(runner[q], a)
    BY <1>0, <2>1, SameRun
  <2>6. Pending(a) => Pending(a)'
    BY <2>3, <2>4, <2>5 DEF Pending
  <2> QED
    BY <1>0, <2>2, <2>6, OneTurns
<1>4. CASE CreateTransfer(p) /\ e \notin DOMAIN transfers
  <2>1. /\ runner' = [runner EXCEPT ![p] = [runner[p] EXCEPT !.at = "countTransfer"]]
        /\ DOMAIN transfers' = DOMAIN transfers \cup {e}
    BY <1>4 DEF CreateTransfer
  <2>2. /\ runner'[p].at = "countTransfer" /\ runner'[p].event = e /\ runner[p].at = "transfer"
    BY <1>1, <1>4, <2>1 DEF Runs, CreateTransfer
  <2>3. a \in ToSet(chainEvents[e].accounts) => Pending(a)'
    BY <1>0, <2>2 DEF Pending, Awaits
  <2>4. Awaits(runner[p], a) => Pending(a)'
    BY <1>4, <2>2, <2>3 DEF Awaits
  <2>5. ASSUME NEW q \in Procs \ {p}, Awaits(runner[q], a) PROVE Pending(a)'
    <3>1. Awaits(runner[q], a)' \/ a \in ToSet(chainEvents[e].accounts)
      BY <1>0, <2>1, <2>5 DEF Awaits
    <3> QED
      BY <2>3, <3>1 DEF Pending
  <2>6. ASSUME InQueue(a) PROVE Pending(a)'
    <3>1. PICK x \in eventJobs : Live(x) /\ a \in ToSet(chainEvents[x].accounts)
      BY <2>6 DEF InQueue
    <3>2. CASE x = e
      BY <2>3, <3>1, <3>2
    <3>3. CASE x # e
      <4>1. Live(x)'
        BY <1>0, <2>1, <3>1, <3>3 DEF Live
      <4> QED
        BY <1>0, <3>1, <4>1 DEF Pending, InQueue
    <3> QED
      BY <3>2, <3>3
  <2>7. Pending(a) => Pending(a)'
    BY <2>4, <2>5, <2>6 DEF Pending
  <2> QED
    BY <1>0, <2>2, <2>7, OneTurns
<1>5. CASE CountTransfer(p)
  <2>1. runner' = [runner EXCEPT ![p] = [runner[p] EXCEPT !.at = "next",
                                          !.accounts = BalanceTransferFromEvent(e)]]
        /\ UNCHANGED transfers
    BY <1>5 DEF CountTransfer
  <2>2. /\ runner'[p].at = "next" /\ runner'[p].accounts = BalanceTransferFromEvent(e)
        /\ runner[p].at = "countTransfer"
    BY <1>1, <1>5, <2>1 DEF Runs, CountTransfer
  <2>3. ToSet(chainEvents[e].accounts) \subseteq ToSet(BalanceTransferFromEvent(e))
    <3>1. CASE chainEvents[e].kind = "Transfer"
      BY <3>1 DEF BalanceTransferFromEvent
    <3>2. CASE chainEvents[e].kind = "Minted"
      <4> DEFINE l == chainEvents[e].accounts
      <4>1. Len(l) = 1
        BY <1>2, <3>2 DEF BalanceTypes, EventTypes
      <4>2. chainEvents[e] \in EventRow
        BY <1>2 DEF BalanceTypes, EventTypes
      <4>3. l \in Seq(Accounts)
        BY <4>2 DEF EventRow
      <4> HIDE DEF l
      <4>4. DOMAIN l = {1}
        BY <4>1, <4>3
      <4>5. ToSet(l) = {l[1]}
        BY <4>4 DEF ToSet
      <4>6. l[1] \in ToSet(<<OmniBridgeSyntheticSender, l[1]>>)
        <5>1. 2 \in DOMAIN <<OmniBridgeSyntheticSender, l[1]>>
          OBVIOUS
        <5> QED
          BY <5>1 DEF ToSet
      <4>7. BalanceTransferFromEvent(e) = <<OmniBridgeSyntheticSender, l[1]>>
        BY <3>2 DEF BalanceTransferFromEvent, l
      <4> QED
        BY <4>5, <4>6, <4>7 DEF l
    <3> QED
      BY <1>2, <3>1, <3>2
  <2>4. Awaits(runner[p], a) => Awaits(runner[p], a)'
    BY <2>2, <2>3 DEF Awaits
  <2>5. InQueue(a)' <=> InQueue(a)
    BY <1>0, <2>1 DEF InQueue, Live
  <2>6. \A q \in Procs \ {p} : Awaits(runner[q], a)' <=> Awaits(runner[q], a)
    BY <1>0, <2>1, SameRun
  <2>7. Pending(a) => Pending(a)'
    BY <2>4, <2>5, <2>6 DEF Pending
  <2> QED
    BY <1>0, <2>2, <2>7, OneTurns
<1> QED
  BY <1>3, <1>4, <1>5

LEMMA QueueRows ==
    ASSUME BalanceTypes, RowsInv, NEW w \in BalanceWorkers, NEW a \in Accounts,
           EndEvent(w) \/ \E e \in eventJobs : EmitEvent(w, e)
    PROVE  RowOk(a)'
<1> USE DEF history, balanceRowVars, Refreshes
<1>0. /\ UNCHANGED <<onChain, chainEvents, balanceRow, doubt, transfers>>
      /\ \A q \in Procs \ {w} : runner'[q] = runner[q]
      /\ w \in Procs
  BY DEF EndEvent, EmitEvent, BalanceTypes, RunnerTypes, Procs
<1>1. runner[w] \in Runs /\ w \in DOMAIN runner
  BY <1>0 DEF BalanceTypes, RunnerTypes
<1>2. \A q \in Procs \ {w} : Awaits(runner[q], a)' <=> Awaits(runner[q], a)
  BY <1>0, SameRun
<1>3. CASE EndEvent(w)
  <2>1. runner'[w] = AtRest /\ runner[w].at = "next" /\ runner[w].accounts = <<>>
    BY <1>1, <1>3 DEF EndEvent
  <2>2. ~ Awaits(runner[w], a)
    BY <2>1 DEF Awaits, ToSet
  <2>3. eventJobs \subseteq eventJobs'
    BY <1>3 DEF EndEvent, Republish
  <2>4. InQueue(a) => InQueue(a)'
    BY <1>0, <2>3 DEF InQueue, Live
  <2>5. Pending(a) => Pending(a)'
    BY <1>2, <2>2, <2>4 DEF Pending
  <2> QED
    BY <1>0, <2>1, <2>5, OneTurns, RestOk
<1>4. ASSUME NEW e \in eventJobs, EmitEvent(w, e) PROVE RowOk(a)'
  <2> DEFINE r == IF chainEvents[e].kind = "Transfer"
                  THEN [AtRest EXCEPT !.at = "transfer", !.event = e]
                  ELSE [AtRest EXCEPT !.at = "next", !.event = e, !.accounts = chainEvents[e].accounts]
  <2>1. runner[w] = AtRest /\ runner'[w] = r /\ eventJobs' = eventJobs \ {e}
    BY <1>1, <1>4 DEF EmitEvent
  <2>2. /\ chainEvents[e].kind = "Transfer" => r.at = "transfer" /\ r.event = e
        /\ chainEvents[e].kind # "Transfer" => r.at = "next" /\ r.accounts = chainEvents[e].accounts
    BY RestOk DEF Runs
  <2> HIDE DEF r
  <2>3. ~ Awaits(runner[w], a)
    BY <2>1, RestOk DEF Awaits
  <2>4. ASSUME InQueue(a) PROVE Pending(a)'
    <3>1. PICK x \in eventJobs : Live(x) /\ a \in ToSet(chainEvents[x].accounts)
      BY <2>4 DEF InQueue
    <3>2. CASE x # e
      <4>1. x \in eventJobs' /\ Live(x)' /\ a \in ToSet(chainEvents'[x].accounts)
        BY <1>0, <2>1, <3>1, <3>2 DEF Live
      <4> QED
        BY <4>1 DEF Pending, InQueue
    <3>3. CASE x = e
      <4>1. Awaits(runner[w], a)'
        BY <1>0, <2>1, <2>2, <3>1, <3>3 DEF Awaits, Live
      <4> QED
        BY <1>0, <4>1 DEF Pending
    <3> QED
      BY <3>2, <3>3
  <2>5. Pending(a) => Pending(a)'
    BY <1>2, <2>3, <2>4 DEF Pending
  <2>6. runner'[w].at \notin Refreshes /\ runner[w].at \notin Refreshes
    BY <2>1, <2>2, RestOk
  <2> QED
    BY <1>0, <2>5, <2>6, OneTurns
<1> QED
  BY <1>3, <1>4

LEMMA CommandRows ==
    ASSUME BalanceTypes, RowsInv, NEW a \in Accounts,
           \/ \E mode \in Modes, id \in 0..Len(idOrder) : RefreshAllAccount(mode, id)
           \/ EndRefreshAll \/ InitTransfer \/ ReadTable \/ BackfillEvent
    PROVE  RowOk(a)'
<1> USE DEF history, balanceRowVars, Refreshes
<1>0. /\ UNCHANGED <<onChain, chainEvents, balanceRow, doubt, transfers, eventJobs>>
      /\ Command \in Procs
  <2>1. ASSUME NEW mode, NEW id, RefreshAllAccount(mode, id) PROVE UNCHANGED doubt
    BY <2>1 DEF RefreshAllAccount
  <2>2. ASSUME EndRefreshAll \/ InitTransfer \/ ReadTable \/ BackfillEvent PROVE UNCHANGED doubt
    BY <2>2 DEF EndRefreshAll, InitTransfer, ReadTable, BackfillEvent
  <2> QED
    BY <2>1, <2>2, CommandKeeps DEF Procs
<1>1. runner[Command] \in Runs /\ Command \in DOMAIN runner /\ AtRest.at = "idle" /\ AtRest \in Runs
  BY <1>0, RestOk DEF BalanceTypes, RunnerTypes
<1>2. /\ \A q \in Procs \ {Command} : runner'[q] = runner[q]
      /\ runner'[Command].at \in {"idle", "next", "table", "insert", "transfer"}
      /\ \/ runner[Command].at \in {"idle", "table", "insert"}
         \/ runner[Command].at = "next" /\ runner[Command].accounts = <<>>
  <2>1. ASSUME NEW mode, NEW id, RefreshAllAccount(mode, id) PROVE <1>2
    <3>1. \/ UNCHANGED runner
          \/ \E s : runner' = [runner EXCEPT ![Command] =
                       [AtRest EXCEPT !.at = "next", !.accounts = s, !.batch = s]]
      BY <2>1 DEF RefreshAllAccount
    <3>2. runner[Command].at = "idle"
      BY <1>1, <2>1 DEF RefreshAllAccount
    <3>3. CASE UNCHANGED runner
      BY <3>2, <3>3
    <3>4. ASSUME NEW s, runner' = [runner EXCEPT ![Command] =
                       [AtRest EXCEPT !.at = "next", !.accounts = s, !.batch = s]]
          PROVE  runner'[Command].at = "next" /\ \A q \in Procs \ {Command} : runner'[q] = runner[q]
      <4>1. runner'[Command] = [AtRest EXCEPT !.at = "next", !.accounts = s, !.batch = s]
        BY <1>1, <3>4
      <4>2. runner'[Command].at = "next"
        BY <4>1 DEF AtRest
      <4>3. \A q \in Procs \ {Command} : runner'[q] = runner[q]
        BY <3>4 DEF BalanceTypes, RunnerTypes
      <4> QED
        BY <4>2, <4>3
    <3> QED
      BY <3>1, <3>2, <3>3, <3>4
  <2>2. CASE EndRefreshAll
    BY <1>1, <2>2 DEF EndRefreshAll, BalanceTypes, RunnerTypes
  <2>3. CASE InitTransfer
    <3>1. PICK t : runner' = [runner EXCEPT ![Command] = [AtRest EXCEPT !.at = "table", !.table = t]]
      BY <2>3 DEF InitTransfer
    <3>2. runner'[Command].at = "table"
      BY <1>1, <3>1 DEF AtRest
    <3>3. runner[Command].at = "idle"
      BY <1>1, <2>3 DEF InitTransfer
    <3> QED
      BY <3>1, <3>2, <3>3 DEF BalanceTypes, RunnerTypes
  <2>4. CASE ReadTable
    <3>1. PICK l : runner' = [runner EXCEPT ![Command] = [runner[Command] EXCEPT !.at = "insert", !.rest = l]]
      BY <2>4 DEF ReadTable
    <3>2. runner'[Command].at = "insert"
      BY <1>1, <3>1 DEF Runs
    <3>3. runner[Command].at = "table"
      BY <2>4 DEF ReadTable
    <3> QED
      BY <3>1, <3>2, <3>3 DEF BalanceTypes, RunnerTypes
  <2>5. CASE BackfillEvent
    <3> DEFINE c == runner[Command]
    <3>1. \E r : /\ runner' = [runner EXCEPT ![Command] = r]
                /\ r.at \in {"idle", "table", "transfer"}
      <4>1. ASSUME NEW e, runner' = [runner EXCEPT ![Command] =
                  [AtRest EXCEPT !.at = "transfer", !.event = e, !.table = c.table, !.rest = c.rest \ {e}]]
            PROVE  <3>1
        <5>1. [AtRest EXCEPT !.at = "transfer", !.event = e, !.table = c.table, !.rest = c.rest \ {e}].at
                 = "transfer"
          BY DEF AtRest
        <5> QED
          BY <4>1, <5>1
      <4>2. ASSUME runner' = [runner EXCEPT ![Command] = [AtRest EXCEPT !.at = "table", !.table = c.table - 1]]
            PROVE  <3>1
        <5>1. [AtRest EXCEPT !.at = "table", !.table = c.table - 1].at = "table"
          BY DEF AtRest
        <5> QED
          BY <4>2, <5>1
      <4>3. ASSUME runner' = [runner EXCEPT ![Command] = AtRest]
            PROVE  <3>1
        BY <1>1, <4>3
      <4> QED
        BY <2>5, <4>1, <4>2, <4>3 DEF BackfillEvent
    <3>2. PICK r : /\ runner' = [runner EXCEPT ![Command] = r]
                   /\ r.at \in {"idle", "table", "transfer"}
      BY <3>1
    <3>4. runner'[Command].at \in {"idle", "table", "transfer"}
      BY <1>1, <3>2
    <3>5. \A q \in Procs \ {Command} : runner'[q] = runner[q]
      BY <3>2 DEF BalanceTypes, RunnerTypes
    <3> QED
      BY <2>5, <3>4, <3>5 DEF BackfillEvent
  <2> QED
    BY <2>1, <2>2, <2>3, <2>4, <2>5
<1>3. ~ Awaits(runner[Command], a)
  BY <1>2 DEF Awaits, ToSet
<1>4. InQueue(a)' <=> InQueue(a)
  BY <1>0 DEF InQueue, Live
<1>5. \A q \in Procs \ {Command} : Awaits(runner[q], a)' <=> Awaits(runner[q], a)
  BY <1>0, <1>2, SameRun
<1>6. Pending(a) => Pending(a)'
  BY <1>3, <1>4, <1>5 DEF Pending
<1>7. runner[Command].at \notin Refreshes /\ runner'[Command].at \notin Refreshes
  BY <1>2
<1> QED
  BY <1>0, <1>2, <1>6, <1>7, OneTurns

LEMMA AbandonRows ==
    ASSUME BalanceTypes, RowsInv, NEW p \in Procs, NEW a \in Accounts, NEW r, Abandon(p, r),
           r.at \notin Refreshes, UNCHANGED <<onChain, chainEvents, balanceRow, transfers>>,
           eventJobs \subseteq eventJobs'
    PROVE  RowOk(a)'
<1> USE DEF Refreshes
<1> DEFINE event == runner[p].event
           named == ToSet(runner[p].accounts) \cup
                       (IF event = 0 THEN {} ELSE ToSet(chainEvents[event].accounts))
<1>0. /\ doubt' = doubt \cup (Accounts \cap named)
      /\ runner' = [q \in Procs |->
                IF q = p THEN r
                ELSE IF \E x \in named : Refreshing(q, x) THEN [runner[q] EXCEPT !.alone = FALSE]
                ELSE runner[q]]
  BY DEF Abandon
<1>1. /\ runner[p] \in Runs /\ RunOk(p, runner[p]) /\ \A q \in Procs : runner[q] \in Runs
      /\ runner'[p] = r
  BY <1>0 DEF BalanceTypes, RunnerTypes
<1>2. \A q \in Procs \ {p} : \/ runner'[q] = runner[q]
                             \/ \E b \in BOOLEAN : runner'[q] = [runner[q] EXCEPT !.alone = b]
  BY <1>0
<1>3. \A q \in Procs \ {p} : (\E x \in named : Refreshing(q, x)) => ~ runner'[q].alone
  <2> TAKE q \in Procs \ {p}
  <2> HAVE \E x \in named : Refreshing(q, x)
  <2>1. runner'[q] = [runner[q] EXCEPT !.alone = FALSE]
    BY <1>0
  <2> QED
    BY <1>1, <2>1 DEF Runs
<1>4. \A q \in Procs \ {p} : ~ (\E x \in named : Refreshing(q, x)) => runner'[q] = runner[q]
  BY <1>0
<1>5. \A q \in Procs \ {p} : /\ Refreshing(q, a)' <=> Refreshing(q, a)
                             /\ Reads(q, a)' <=> Reads(q, a)
                             /\ Awaits(runner[q], a)' <=> Awaits(runner[q], a)
  BY <1>0, <1>2, SameRun
<1>6. ~ Stale(p, a)'
  BY <1>1 DEF Stale, Refreshing
<1>7. a \notin named => ~ Awaits(runner[p], a) /\ ~ Reads(p, a)
  <2>1. ToSet(Tail(runner[p].accounts)) \subseteq ToSet(runner[p].accounts)
        \/ runner[p].at \notin Refreshes
    BY <1>1, HeadAndTail DEF Runs, RunOk
  <2>2. runner[p].at \in Refreshes => Head(runner[p].accounts) \in ToSet(runner[p].accounts)
    BY <1>1, HeadAndTail DEF Runs, RunOk
  <2>3. runner[p].at \in {"transfer", "countTransfer"} => event # 0
    <3>1. 0 \notin DOMAIN chainEvents
      BY DEF BalanceTypes, EventTypes
    <3> QED
      BY <1>1, <3>1 DEF RunOk, Backfilled
  <2>4. ASSUME a \notin named, Awaits(runner[p], a) PROVE FALSE
    <3>1. ToSet(runner[p].accounts) \subseteq named
      OBVIOUS
    <3>2. event # 0 => ToSet(chainEvents[event].accounts) \subseteq named
      OBVIOUS
    <3> HIDE DEF named, event
    <3> QED
      BY <2>1, <2>3, <2>4, <3>1, <3>2 DEF Awaits, event
  <2>5. Reads(p, a) => a \in named
    BY <2>2 DEF Reads, Refreshing, CurrentAccount
  <2> QED
    BY <2>4, <2>5
<1> HIDE DEF named, event
<1>8. InQueue(a) => InQueue(a)'
  BY <1>0 DEF InQueue, Live
<1>9. a \notin named /\ Pending(a) => Pending(a)'
  BY <1>5, <1>7, <1>8 DEF Pending
<1>10. ASSUME NEW q \in Procs, Stale(q, a)' PROVE a \notin named /\ Stale(q, a)
  <2>1. q # p /\ Refreshing(q, a) /\ runner'[q].alone
    BY <1>5, <1>6, <1>10 DEF Stale
  <2>2. ~ \E x \in named : Refreshing(q, x)
    BY <1>3, <2>1
  <2>3. runner'[q] = runner[q]
    BY <1>4, <2>1, <2>2
  <2>4. a \notin named
    BY <2>1, <2>2
  <2> QED
    BY <1>5, <1>10, <2>1, <2>3, <2>4 DEF Stale
<1>11. RowOk(a)
  BY DEF RowsInv
<1>12. CASE a \in named
  <2>1. a \in doubt'
    BY <1>0, <1>12
  <2> QED
    BY <1>10, <1>12, <2>1 DEF RowOk
<1>13. CASE a \notin named
  <2>1. \A q \in Procs : Reads(q, a) => Watched(a)'
    BY <1>5, <1>7, <1>13 DEF Watched
  <2>2. RowFresh(a)' <=> RowFresh(a)
    BY <1>0 DEF RowFresh
  <2>3. Named(a)' <=> Named(a)
    BY <1>0 DEF Named
  <2>4. a \in doubt => a \in doubt'
    BY <1>0
  <2> QED
    BY <1>9, <1>10, <1>11, <1>13, <2>1, <2>2, <2>3, <2>4, RowKept DEF Watched
<1> QED
  BY <1>12, <1>13

LEMMA FailureRows ==
    ASSUME BalanceTypes, RowsInv, NEW a \in Accounts,
           BackfillFails \/ \E p \in Procs : ProcessDies(p) \/ TransferFails(p)
    PROVE  RowOk(a)'
<1> USE DEF balanceRowVars
<1>1. AtRest.at \notin Refreshes /\ Command \in Procs
  BY RestOk DEF Refreshes, Procs
<1>2. CASE BackfillFails
  <2>1. PICK l : Abandon(Command, [AtRest EXCEPT !.at = "insert", !.table = runner[Command].table, !.rest = l])
    BY <1>2 DEF BackfillFails
  <2>2. [AtRest EXCEPT !.at = "insert", !.table = runner[Command].table, !.rest = l].at \notin Refreshes
    BY DEF AtRest, Refreshes
  <2>3. UNCHANGED <<onChain, chainEvents, balanceRow, transfers, eventJobs>>
    BY <1>2 DEF BackfillFails
  <2> QED
    BY <1>1, <2>1, <2>2, <2>3, AbandonRows
<1>3. ASSUME NEW p \in Procs, ProcessDies(p) \/ TransferFails(p)
      PROVE  RowOk(a)'
  <2>1. /\ Abandon(p, AtRest) /\ UNCHANGED <<onChain, chainEvents, balanceRow, transfers>>
        /\ eventJobs \subseteq eventJobs'
    BY <1>3 DEF ProcessDies, TransferFails, Republish
  <2> QED
    BY <1>1, <2>1, AbandonRows
<1> QED
  BY <1>2, <1>3

(* A new event: the accounts it names have it in the queue, and nothing    *)
(* changes for the others.                                                 *)
LEMMA EventRows ==
    ASSUME BalanceTypes, RowsInv, NEW a \in Accounts,
           NEW k \in {"Transfer", "Minted", "PaidOut"}, NEW l \in Seq(Accounts),
           NEW x \in {Len(chainEvents), Len(chainEvents) + 1} \ {0}, ChainEvent(k, l, x),
           k = "PaidOut" => l = <<>>
    PROVE  RowOk(a)'
<1> DEFINE n == Len(chainEvents) + 1
<1>1. /\ n \notin DOMAIN chainEvents
      /\ DOMAIN chainEvents' = DOMAIN chainEvents \cup {n}
      /\ chainEvents'[n] = [kind |-> k, accounts |-> l, extrinsic |-> x]
      /\ eventJobs' = IF k = "PaidOut" THEN eventJobs ELSE eventJobs \cup {n}
      /\ onChain'[a] = IF a \in ToSet(l) THEN onChain[a] + 1 ELSE onChain[a]
  BY ZenonT(60), NewEvent
<1>2. UNCHANGED <<transfers, balanceRow, runner, doubt>>
  BY DEF ChainEvent, balanceRowVars, history
<1>3. \A e \in DOMAIN chainEvents : chainEvents'[e] = chainEvents[e]
  <2>1. chainEvents \in Seq(EventRow)
    BY DEF BalanceTypes, EventTypes
  <2> QED
    BY <2>1 DEF ChainEvent
<1>4. RowOk(a)
  BY DEF RowsInv
<1> HIDE DEF n
<1>5. CASE a \in ToSet(l)
  <2>1. k # "PaidOut"
    BY <1>5 DEF ToSet
  <2>2. n \in eventJobs' /\ chainEvents'[n].accounts = l
    BY <1>1, <2>1
  <2>3. n \notin DOMAIN transfers'
    BY <1>1, <1>2 DEF BalanceTypes, EventTypes
  <2>4. Pending(a)'
    BY <1>5, <2>2, <2>3 DEF Pending, InQueue, Live
  <2> QED
    BY <2>4 DEF RowOk, Watched
<1>6. CASE a \notin ToSet(l)
  <2>1. onChain'[a] = onChain[a]
    BY <1>1, <1>6
  <2>2. Named(a)' => Named(a)
    BY <1>1, <1>3, <1>6 DEF Named
  <2>3. RowFresh(a)' <=> RowFresh(a)
    BY <1>2, <2>1 DEF RowFresh
  <2>4. \A q \in Procs : Reads(q, a)' <=> Reads(q, a)
    BY <1>2, <2>1 DEF Reads, Refreshing, CurrentAccount
  <2>5. \A q \in Procs : Stale(q, a)' <=> Stale(q, a)
    BY <1>2, <2>4 DEF Stale, Refreshing, CurrentAccount
  <2>6. eventJobs \subseteq DOMAIN chainEvents /\ eventJobs \subseteq eventJobs'
    BY <1>1 DEF BalanceTypes, EventTypes
  <2>7. InQueue(a) => InQueue(a)'
    BY <1>2, <1>3, <2>6 DEF InQueue, Live
  <2>8. ASSUME NEW q \in Procs, Awaits(runner[q], a) PROVE Awaits(runner[q], a)'
    <3>1. RunOk(q, runner[q])
      BY DEF BalanceTypes, RunnerTypes
    <3>2. runner[q].at \in {"transfer", "countTransfer"} => chainEvents'[runner[q].event] = chainEvents[runner[q].event]
      BY <1>3, <3>1 DEF RunOk, Backfilled
    <3> QED
      BY <1>2, <2>8, <3>2 DEF Awaits
  <2>9. Pending(a) => Pending(a)'
    BY <2>7, <2>8 DEF Pending
  <2> QED
    BY <1>2, <1>4, <2>2, <2>3, <2>4, <2>5, <2>9, RowKept DEF Watched
<1> QED
  BY <1>5, <1>6

LEMMA RowsStep ==
    ASSUME BalanceTypes, RowsInv, [BalanceNext]_balanceVars
    PROVE  RowsInv'
<1> SUFFICES ASSUME NEW a \in Accounts PROVE RowOk(a)'
  BY DEF RowsInv
<1>2. ASSUME NEW w \in BalanceWorkers, EndEvent(w) \/ \E e \in eventJobs : EmitEvent(w, e)
      PROVE  RowOk(a)'
  BY <1>2, QueueRows
<1>3. ASSUME NEW p \in Procs,
             \/ RefreshAccount(p) \/ FirstOrCreate(p) \/ FirstOrCreateFails(p) \/ CountAccount(p)
             \/ ReadData(p) \/ ReadBalanceLocks(p) \/ AfterAccountCreate(p) \/ RefreshFails(p)
             \/ CreateTransfer(p) \/ CountTransfer(p)
      PROVE  RowOk(a)'
  BY <1>3, BeginRows, RefreshRows, WriteRows, TransferRows
<1>7. CASE BackfillFails \/ \E p \in Procs : ProcessDies(p) \/ TransferFails(p)
  BY <1>7, FailureRows
<1>4. CASE \/ \E mode \in Modes, id \in 0..Len(idOrder) : RefreshAllAccount(mode, id)
           \/ EndRefreshAll \/ InitTransfer \/ ReadTable \/ BackfillEvent
  BY <1>4, CommandRows
<1>5. CASE UNCHANGED balanceVars
  <2>1. UNCHANGED <<onChain, chainEvents, eventJobs, balanceRow, transfers, runner, doubt>>
    BY <1>5 DEF balanceVars
  <2>2. RowOk(a)
    BY DEF RowsInv
  <2> QED
    BY <2>1, <2>2 DEF RowOk, Named, Watched, Pending, InQueue, Awaits, Live, RowFresh, Reads, Stale,
       Refreshing, CurrentAccount
<1>6. ASSUME \/ \E b, c \in Accounts : b # c /\ ChainEvent("Transfer", <<b, c>>, Len(chainEvents) + 1)
             \/ \E b \in Accounts, x \in {Len(chainEvents), Len(chainEvents) + 1} \ {0} :
                   ChainEvent("Minted", <<b>>, x)
             \/ (chainEvents # <<>> /\ ChainEvent("PaidOut", <<>>, Len(chainEvents)))
      PROVE  RowOk(a)'
  <2>1. /\ Len(chainEvents) \in Nat
        /\ chainEvents # <<>> => Len(chainEvents) # 0
    BY DEF BalanceTypes, EventTypes
  <2>2. \A b, c \in Accounts : <<b, c>> \in Seq(Accounts) /\ <<b>> \in Seq(Accounts)
    OBVIOUS
  <2>3. <<>> \in Seq(Accounts)
    OBVIOUS
  <2>4. CASE \E b, c \in Accounts : b # c /\ ChainEvent("Transfer", <<b, c>>, Len(chainEvents) + 1)
    <3>1. Len(chainEvents) + 1 \in {Len(chainEvents), Len(chainEvents) + 1} \ {0}
      BY <2>1
    <3> QED
      BY <2>2, <2>4, <3>1, EventRows
  <2>5. CASE \E b \in Accounts, x \in {Len(chainEvents), Len(chainEvents) + 1} \ {0} :
                   ChainEvent("Minted", <<b>>, x)
    BY <2>2, <2>5, EventRows
  <2>6. CASE chainEvents # <<>> /\ ChainEvent("PaidOut", <<>>, Len(chainEvents))
    <3>1. Len(chainEvents) \in {Len(chainEvents), Len(chainEvents) + 1} \ {0}
      BY <2>1, <2>6
    <3> QED
      BY <2>3, <2>6, <3>1, EventRows
  <2> QED
    BY <1>6, <2>4, <2>5, <2>6
<1> QED
  BY <1>2, <1>3, <1>4, <1>5, <1>6, <1>7 DEF BalanceNext

LEMMA BalanceStarts ==
    ASSUME BalanceInit
    PROVE  BalanceTypes /\ RowsInv
<1> USE DEF BalanceInit
<1>1. EventTypes
  BY DEF EventTypes
<1>2. \A p \in Procs : runner[p] = AtRest
  OBVIOUS
<1>3. RunnerTypes
  BY <1>2, RestOk DEF RunnerTypes
<1>4. IdsInOrder
  BY DEF IdsInOrder, ToSet
<1>5. RowsKnown
  BY <1>2, RestOk DEF RowsKnown, ToSet
<1>6. ASSUME NEW a \in Accounts PROVE RowOk(a)
  <2>1. ~ Named(a)
    BY DEF Named
  <2>2. \A p \in Procs : ~ Stale(p, a)
    BY <1>2, RestOk DEF Stale, Refreshing
  <2> QED
    BY <2>1, <2>2 DEF RowOk
<1> QED
  BY <1>1, <1>3, <1>4, <1>5, <1>6 DEF BalanceTypes, RowsInv

(* With the queue empty and every process at rest, a row is of the chain.  *)
LEMMA QuietRows ==
    ASSUME BalanceTypes, RowsInv
    PROVE  RowsFresh
<1> SUFFICES ASSUME eventJobs = {}, \A p \in Procs : runner[p] = AtRest,
                    NEW e \in DOMAIN chainEvents, NEW a \in ToSet(chainEvents[e].accounts) \ doubt
             PROVE  RowFresh(a)
  BY DEF RowsFresh, RowFresh
<1>1. a \in Accounts
  <2>1. chainEvents[e] \in EventRow
    BY DEF BalanceTypes, EventTypes
  <2>2. chainEvents[e].accounts \in Seq(Accounts)
    BY <2>1 DEF EventRow
  <2> QED
    BY <2>2, ToSetOf
<1>2. \A p \in Procs : ~ Awaits(runner[p], a) /\ ~ Reads(p, a)
  BY RestOk DEF Awaits, Reads, Refreshing, Refreshes
<1>3. ~ Pending(a)
  BY <1>2 DEF Pending, InQueue
<1>4. Named(a)
  BY DEF Named
<1> QED
  BY <1>1, <1>2, <1>3, <1>4 DEF RowsInv, RowOk, Watched

(* The types of the plugin's state: what each process holds while it goes  *)
(* from step to step, and the ids that only grow.                          *)
THEOREM BalanceTyped == BalanceSpec => []BalanceTypes
<1>1. BalanceInit => BalanceTypes
  BY BalanceStarts
<1>2. BalanceTypes /\ [BalanceNext]_balanceVars => BalanceTypes'
  BY BalanceTypeStep
<1> QED
  BY <1>1, <1>2, PTL DEF BalanceSpec

(* When every event has been handled the row of an account is the account  *)
(* on the chain, however the refreshes of workers and commands crossed:    *)
(* for every account but those in doubt, whose last refresh failed, died   *)
(* or was lost with its job or transfer, or ran beside another of it.      *)
THEOREM RowsAreFresh == BalanceSpec => []RowsFresh
<1>1. BalanceInit => BalanceTypes /\ RowsInv
  BY BalanceStarts
<1>2. BalanceTypes /\ RowsInv /\ [BalanceNext]_balanceVars => BalanceTypes' /\ RowsInv'
  BY BalanceTypeStep, RowsStep
<1>3. BalanceTypes /\ RowsInv => RowsFresh
  BY QuietRows
<1> QED
  BY <1>1, <1>2, <1>3, PTL DEF BalanceSpec

-----------------------------------------------------------------------------
(* The commands.  A step that leaves the place in the batch alone.         *)
LEMMA PassSame ==
    ASSUME BalanceTypes, BalanceTypes', PassInv,
           \A i \in DOMAIN idOrder : i \in DOMAIN idOrder' /\ idOrder'[i] = idOrder[i],
           refreshProgress' = refreshProgress, pass \subseteq pass',
           runner'[Command].batch = runner[Command].batch,
           runner[Command].batch # <<>> =>
              /\ runner'[Command].accounts = runner[Command].accounts
              /\ runner'[Command].at \in {"next"} \cup Refreshes
    PROVE  PassInv'
<1>1. /\ DOMAIN idOrder = 1..Len(idOrder) /\ Len(idOrder) \in Nat
      /\ DOMAIN idOrder' = 1..Len(idOrder') /\ Len(idOrder') \in Nat
      /\ refreshProgress \in 0..Len(idOrder)
  BY DEF BalanceTypes, IdsInOrder
<1>2. Len(idOrder) <= Len(idOrder')
  BY <1>1
<1>3. PassCovers'
  BY <1>1 DEF PassInv, PassCovers
<1>4. ASSUME runner[Command].batch # <<>>
      PROVE  \E s, k \in Nat : Batch(s, k)'
  <2>1. PICK s \in Nat, k \in Nat : Batch(s, k)
    BY <1>4 DEF PassInv
  <2>2. /\ runner[Command] \in Runs
    BY DEF BalanceTypes, RunnerTypes, Procs
  <2>3. /\ Len(runner[Command].batch) \in Nat /\ Len(runner[Command].accounts) \in Nat
        /\ DOMAIN runner[Command].batch = 1..Len(runner[Command].batch)
        /\ DOMAIN runner[Command].accounts = 1..Len(runner[Command].accounts)
    BY <2>2 DEF Runs
  <2>4. /\ s + Len(runner[Command].batch) <= Len(idOrder)
        /\ k + Len(runner[Command].accounts) = Len(runner[Command].batch)
        /\ \A i \in DOMAIN runner[Command].batch : runner[Command].batch[i] = idOrder[s + i]
        /\ \A i \in DOMAIN runner[Command].accounts : runner[Command].accounts[i] = idOrder[s + k + i]
        /\ \A i \in 1..(s + k) : idOrder[i] \in pass
    BY <2>1 DEF Batch
  <2>5. s + Len(runner'[Command].batch) <= Len(idOrder')
    BY <1>1, <1>2, <2>3, <2>4
  <2>6. \A i \in DOMAIN runner[Command].batch : idOrder'[s + i] = idOrder[s + i]
    <3> TAKE i \in DOMAIN runner[Command].batch
    <3>1. s + i \in 1..Len(idOrder)
      BY <1>1, <2>3, <2>4
    <3> QED
      BY <1>1, <3>1
  <2>7. \A i \in DOMAIN runner[Command].accounts : idOrder'[s + k + i] = idOrder[s + k + i]
    <3> TAKE i \in DOMAIN runner[Command].accounts
    <3>1. s + k + i \in 1..Len(idOrder)
      BY <1>1, <2>3, <2>4
    <3> QED
      BY <1>1, <3>1
  <2>8. \A i \in 1..(s + k) : idOrder'[i] \in pass'
    <3> TAKE i \in 1..(s + k)
    <3>1. i \in 1..Len(idOrder)
      BY <1>1, <2>3, <2>4
    <3>2. idOrder'[i] = idOrder[i] /\ idOrder[i] \in pass
      BY <1>1, <2>4, <3>1
    <3> QED
      BY <3>2
  <2>9. Batch(s, k)'
    BY <1>4, <2>4, <2>5, <2>6, <2>7, <2>8 DEF Batch
  <2> QED
    BY <2>9
<1> QED
  BY <1>3, <1>4 DEF PassInv

(* A step that leaves the account at the head behind, tried.               *)
LEMMA PassOn ==
    ASSUME BalanceTypes, BalanceTypes', PassInv, UNCHANGED idOrder,
           runner[Command].at \in Refreshes, runner'[Command].at = "next",
           runner'[Command].batch = runner[Command].batch,
           runner'[Command].accounts = Tail(runner[Command].accounts),
           pass \subseteq pass', runner[Command].batch # <<>> => CurrentAccount(Command) \in pass',
           \/ UNCHANGED refreshProgress
           \/ runner[Command].batch # <<>> /\ refreshProgress' = IdOf(CurrentAccount(Command))
    PROVE  PassInv'
<1> DEFINE a == CurrentAccount(Command)
<1>1. /\ DOMAIN idOrder = 1..Len(idOrder) /\ Len(idOrder) \in Nat
      /\ refreshProgress \in 0..Len(idOrder)
  BY DEF BalanceTypes, IdsInOrder
<1>2. CASE runner[Command].batch = <<>>
  <2>1. UNCHANGED refreshProgress
    BY <1>2
  <2> QED
    BY <1>2, <2>1, PassSame
<1>3. CASE runner[Command].batch # <<>>
  <2>1. PICK s \in Nat, k \in Nat : Batch(s, k)
    BY <1>3 DEF PassInv
  <2>2. runner[Command] \in Runs /\ RunOk(Command, runner[Command])
    BY DEF BalanceTypes, RunnerTypes, Procs
  <2> DEFINE b == runner[Command].batch
             l == runner[Command].accounts
  <2>3. /\ b \in Seq(Accounts) /\ l \in Seq(Accounts \cup {OmniBridgeSyntheticSender}) /\ l # <<>>
    BY <2>2 DEF Runs, RunOk
  <2>4. /\ Len(b) \in Nat /\ Len(l) \in Nat \ {0} /\ DOMAIN b = 1..Len(b) /\ DOMAIN l = 1..Len(l)
        /\ Head(l) = l[1] /\ Len(Tail(l)) = Len(l) - 1
        /\ \A i \in 1..Len(Tail(l)) : Tail(l)[i] = l[i + 1]
        /\ DOMAIN Tail(l) = 1..Len(Tail(l))
    <3>1. Tail(l) \in Seq(Accounts \cup {OmniBridgeSyntheticSender})
      BY <2>3, HeadAndTail
    <3> QED
      BY <2>3, <3>1, HeadAndTail
  <2>5. /\ s + Len(b) <= Len(idOrder)
        /\ k + Len(l) = Len(b)
        /\ \A i \in DOMAIN b : b[i] = idOrder[s + i]
        /\ \A i \in DOMAIN l : l[i] = idOrder[s + k + i]
        /\ \A i \in 1..(s + k) : idOrder[i] \in pass
    BY <2>1 DEF Batch
  <2>6. a = Head(l)
    BY DEF CurrentAccount
  <2> HIDE DEF a, b, l
  <2>7. a = idOrder[s + k + 1] /\ s + k + 1 \in 1..Len(idOrder) /\ k + 1 \in Nat
    BY <2>4, <2>5, <2>6
  <2>8. \A i \in 1..(s + k + 1) : idOrder[i] \in pass'
    <3> TAKE i \in 1..(s + k + 1)
    <3>1. CASE i = s + k + 1
      BY <1>3, <2>7, <3>1 DEF a
    <3>2. CASE i # s + k + 1
      <4>1. i \in 1..(s + k)
        BY <3>2
      <4> QED
        BY <2>5, <4>1
    <3> QED
      BY <3>1, <3>2
  <2>9. \A i \in DOMAIN Tail(l) : Tail(l)[i] = idOrder[s + (k + 1) + i]
    <3> TAKE i \in DOMAIN Tail(l)
    <3>1. i + 1 \in DOMAIN l /\ Tail(l)[i] = l[i + 1]
      BY <2>4
    <3>2. l[i + 1] = idOrder[s + k + (i + 1)] /\ s + k + (i + 1) = s + (k + 1) + i
      BY <2>4, <2>5, <3>1
    <3> QED
      BY <3>1, <3>2
  <2>10. (k + 1) + Len(Tail(l)) = Len(b)
    BY <2>4, <2>5
  <2>11. \A i \in 1..(s + (k + 1)) : idOrder[i] \in pass'
    BY <2>8
  <2>12. runner'[Command].batch = b /\ runner'[Command].accounts = Tail(l)
    BY DEF b, l
  <2>13. Batch(s, k + 1)'
    BY <2>5, <2>9, <2>10, <2>11, <2>12 DEF Batch
  <2>14. PassCovers'
    <3>1. CASE UNCHANGED refreshProgress
      BY <3>1 DEF PassInv, PassCovers
    <3>2. CASE refreshProgress' = IdOf(a)
      <4>1. a \in ToSet(idOrder)
        BY <1>1, <2>7 DEF ToSet
      <4>2. IdOf(a) = s + k + 1
        BY <1>1, <2>7, <4>1, PlaceOf DEF BalanceTypes, IdsInOrder
      <4> QED
        BY <1>1, <2>8, <3>2, <4>2 DEF PassCovers
    <3> QED
      BY <3>1, <3>2 DEF a
  <2> QED
    BY <2>7, <2>13, <2>14 DEF PassInv
<1> QED
  BY <1>2, <1>3

LEMMA PassStep ==
    ASSUME BalanceTypes, BalanceTypes', PassInv, [BalanceNext]_balanceVars
    PROVE  PassInv'
<1> USE DEF history, balanceRowVars, Refreshes
<1>0. \A i \in DOMAIN idOrder : i \in DOMAIN idOrder' /\ idOrder'[i] = idOrder[i]
  BY IdsStep
<1>1. /\ Command \in Procs /\ Command \notin BalanceWorkers
      /\ runner[Command] \in Runs /\ RunOk(Command, runner[Command]) /\ Command \in DOMAIN runner
      /\ AtRest.at = "idle" /\ AtRest.batch = <<>> /\ AtRest \in Runs
  BY BalanceAssumption, RestOk DEF BalanceTypes, RunnerTypes, Procs
(* A step of another process. *)
<1>2. ASSUME UNCHANGED <<refreshProgress, pass>>,
             runner'[Command] = runner[Command] \/ runner'[Command] = [runner[Command] EXCEPT !.alone = FALSE]
      PROVE  PassInv'
  <2>1. /\ runner'[Command].batch = runner[Command].batch
        /\ runner'[Command].accounts = runner[Command].accounts
        /\ runner'[Command].at = runner[Command].at
    BY <1>1, <1>2 DEF Runs
  <2> QED
    BY <1>0, <1>2, <2>1, PassSame DEF PassInv
<1>3. CASE UNCHANGED balanceVars
  BY <1>2, <1>3 DEF balanceVars
<1>4. ASSUME NEW k, NEW l, NEW x, ChainEvent(k, l, x) PROVE PassInv'
  BY <1>2, <1>4 DEF ChainEvent
<1>5. ASSUME NEW w \in BalanceWorkers, EndEvent(w) \/ \E e \in eventJobs : EmitEvent(w, e)
      PROVE  PassInv'
  BY <1>1, <1>2, <1>5 DEF EndEvent, EmitEvent
<1>6. ASSUME NEW p \in Procs, RefreshAccount(p) PROVE PassInv'
  <2>1. CASE p # Command
    <3>1. UNCHANGED <<refreshProgress, pass>>
      BY <1>6 DEF RefreshAccount
    <3>2. runner'[Command] = runner[Command] \/ runner'[Command] = [runner[Command] EXCEPT !.alone = FALSE]
      BY <1>1, <1>6, <2>1 DEF RefreshAccount
    <3> QED
      BY <1>2, <3>1, <3>2
  <2>2. CASE p = Command
    <3>1. UNCHANGED <<refreshProgress, pass>> /\ runner[Command].accounts # <<>>
      BY <1>6, <2>2 DEF RefreshAccount
    <3>2. CASE CurrentAccount(Command) \notin Accounts
      <4>1. runner' = [runner EXCEPT ![Command] = [runner[Command] EXCEPT !.accounts = Tail(runner[Command].accounts)]]
        BY <1>6, <2>2, <3>2 DEF RefreshAccount
      <4>2. runner'[Command].batch = runner[Command].batch
        BY <1>1, <4>1 DEF Runs
      <4>3. ASSUME runner[Command].batch # <<>> PROVE FALSE
        <5>1. PICK s \in Nat, k \in Nat : Batch(s, k)
          BY <4>3 DEF PassInv
        <5> DEFINE l == runner[Command].accounts
                   b == runner[Command].batch
        <5>2. l \in Seq(Accounts \cup {OmniBridgeSyntheticSender}) /\ b \in Seq(Accounts)
          BY <1>1 DEF Runs
        <5>3. Len(l) \in Nat \ {0} /\ Len(b) \in Nat /\ DOMAIN l = 1..Len(l) /\ Head(l) = l[1]
          BY <3>1, <5>2
        <5>4. /\ s + Len(b) <= Len(idOrder)
              /\ k + Len(l) = Len(b)
              /\ \A i \in DOMAIN l : l[i] = idOrder[s + k + i]
          BY <5>1 DEF Batch
        <5>5. idOrder \in Seq(Accounts) /\ Len(idOrder) \in Nat /\ DOMAIN idOrder = 1..Len(idOrder)
          BY DEF BalanceTypes, IdsInOrder
        <5>6. Head(l) = CurrentAccount(Command)
          BY DEF CurrentAccount
        <5> HIDE DEF l, b
        <5>7. s + k + 1 \in 1..Len(idOrder) /\ Head(l) = idOrder[s + k + 1]
          BY <5>3, <5>4, <5>5
        <5> QED
          BY <3>2, <5>5, <5>6, <5>7
      <4> QED
        BY <1>0, <3>1, <4>2, <4>3, PassSame DEF PassInv
    <3>3. CASE CurrentAccount(Command) \in Accounts
      <4>1. \E b \in BOOLEAN : runner'[Command] = [runner[Command] EXCEPT !.at = "row", !.alone = b]
        <5> DEFINE others == {q \in Procs \ {p} : Refreshing(q, CurrentAccount(Command))}
        <5>1. runner'[Command] = [runner[Command] EXCEPT !.at = "row", !.alone = others = {}]
          BY <1>1, <1>6, <2>2, <3>3 DEF RefreshAccount
        <5>2. (others = {}) \in BOOLEAN
          OBVIOUS
        <5> HIDE DEF others
        <5> QED
          BY <5>1, <5>2
      <4>2. /\ runner'[Command].batch = runner[Command].batch
            /\ runner'[Command].accounts = runner[Command].accounts
            /\ runner'[Command].at = "row"
        BY <1>1, <4>1 DEF Runs
      <4> QED
        BY <1>0, <3>1, <4>2, PassSame
    <3> QED
      BY <3>2, <3>3
  <2> QED
    BY <2>1, <2>2
<1>7. ASSUME NEW p \in Procs,
             \/ FirstOrCreate(p) \/ FirstOrCreateFails(p) \/ CountAccount(p) \/ ReadBalanceLocks(p)
             \/ ReadData(p)
      PROVE  PassInv'
  <2>1. UNCHANGED <<refreshProgress, pass>>
    BY <1>7 DEF FirstOrCreate, FirstOrCreateFails, CountAccount, ReadBalanceLocks, ReadData
  <2>2. CASE p # Command
    <3>1. runner'[Command] = runner[Command]
      BY <1>1, <1>7, <2>2 DEF FirstOrCreate, FirstOrCreateFails, CountAccount, ReadBalanceLocks, ReadData
    <3> QED
      BY <1>2, <2>1, <3>1
  <2>3. CASE p = Command
    <3>1. \/ \E t \in Refreshes : runner'[Command] = [runner[Command] EXCEPT !.at = t]
          \/ \E d : runner'[Command] = [runner[Command] EXCEPT !.at = "write", !.locks = d]
          \/ \E d : runner'[Command] = [runner[Command] EXCEPT !.at = "locks", !.data = d]
      <4>1. CASE ReadData(Command)
        BY <1>1, <4>1 DEF ReadData
      <4>2. CASE FirstOrCreate(Command) \/ FirstOrCreateFails(Command) \/ CountAccount(Command)
                 \/ ReadBalanceLocks(Command)
        BY <1>1, <4>2 DEF FirstOrCreate, FirstOrCreateFails, CountAccount, ReadBalanceLocks
      <4> QED
        BY <1>7, <2>3, <4>1, <4>2
    <3>2. /\ runner'[Command].batch = runner[Command].batch
          /\ runner'[Command].accounts = runner[Command].accounts
          /\ runner'[Command].at \in Refreshes
      BY <1>1, <3>1 DEF Runs
    <3> QED
      BY <1>0, <2>1, <3>2, PassSame
  <2> QED
    BY <2>2, <2>3
<1>8. ASSUME NEW p \in Procs, RefreshFails(p) PROVE PassInv'
  <2>1. UNCHANGED <<refreshProgress, idOrder>> /\ runner[p].at \in {"data", "write"}
    BY <1>8 DEF RefreshFails
  <2>2. CASE p # Command
    <3>1. runner'[Command] = runner[Command] /\ UNCHANGED pass
      BY <1>1, <1>8, <2>2 DEF RefreshFails
    <3> QED
      BY <1>2, <2>1, <3>1
  <2>3. CASE p = Command
    <3>1. /\ runner'[Command] = Refreshed(Command, FALSE)
          /\ pass' = pass \cup {CurrentAccount(Command)}
      BY <1>1, <1>8, <2>3 DEF RefreshFails
    <3>2. /\ runner'[Command].batch = runner[Command].batch
          /\ runner'[Command].accounts = Tail(runner[Command].accounts)
          /\ runner'[Command].at = "next"
      BY <1>1, <3>1 DEF Runs, Refreshed
    <3> QED
      BY <2>1, <2>3, <3>1, <3>2, PassOn
  <2> QED
    BY <2>2, <2>3
<1>9. ASSUME NEW p \in Procs, AfterAccountCreate(p) PROVE PassInv'
  <2>1. UNCHANGED idOrder /\ runner[p].at = "write"
    BY <1>9 DEF AfterAccountCreate
  <2>2. CASE p # Command
    <3>1. runner'[Command] = runner[Command] /\ UNCHANGED <<pass, refreshProgress>>
      BY <1>1, <1>9, <2>2 DEF AfterAccountCreate
    <3> QED
      BY <1>2, <3>1
  <2>3. CASE p = Command
    <3>1. runner'[Command] = Refreshed(Command, TRUE)
      BY <1>1, <1>9, <2>3 DEF AfterAccountCreate
    <3>2. /\ runner'[Command].batch = runner[Command].batch
          /\ runner'[Command].accounts = Tail(runner[Command].accounts)
          /\ runner'[Command].at = "next"
      BY <1>1, <3>1 DEF Runs, Refreshed
    <3>3. ASSUME runner[Command].batch # <<>> PROVE CurrentAccount(Command) \in DOMAIN balanceRow
      <4>1. /\ runner[Command].accounts \in Seq(Accounts \cup {OmniBridgeSyntheticSender})
            /\ runner[Command].accounts # <<>>
        BY <1>1, <2>1, <2>3 DEF Runs, RunOk
      <4>2. ToSet(runner[Command].accounts) \subseteq DOMAIN balanceRow
        BY <1>1, <3>3 DEF BalanceTypes, RowsKnown
      <4> QED
        BY <4>1, <4>2, HeadAndTail DEF CurrentAccount
    <3>4. /\ pass \subseteq pass'
          /\ runner[Command].batch # <<>> => CurrentAccount(Command) \in pass'
      BY <1>9, <2>3, <3>3 DEF AfterAccountCreate
    <3>5. \/ UNCHANGED refreshProgress
          \/ runner[Command].batch # <<>> /\ refreshProgress' = IdOf(CurrentAccount(Command))
      BY <1>9, <2>3 DEF AfterAccountCreate, SaveProgress
    <3> QED
      BY <2>1, <2>3, <3>2, <3>4, <3>5, PassOn
  <2> QED
    BY <2>2, <2>3
<1>11. ASSUME NEW p \in Procs, CreateTransfer(p) \/ CountTransfer(p) PROVE PassInv'
  <2>1. UNCHANGED <<refreshProgress, pass>> /\ runner[p].at \in {"transfer", "countTransfer"}
    BY <1>11 DEF CreateTransfer, CountTransfer
  <2>2. CASE p # Command
    BY <1>1, <1>2, <1>11, <2>1, <2>2 DEF CreateTransfer, CountTransfer
  <2>3. CASE p = Command
    <3>1. runner[Command].batch = <<>>
      BY <2>1, <2>3 DEF PassInv
    <3>2. runner'[Command].batch = runner[Command].batch
      <4>1. CASE CreateTransfer(Command)
        <5>1. \/ runner'[Command] = [runner[Command] EXCEPT !.at = "next"]
              \/ runner'[Command] = [runner[Command] EXCEPT !.at = "countTransfer"]
          BY <1>1, <4>1 DEF CreateTransfer
        <5> QED
          BY <1>1, <5>1 DEF Runs
      <4>2. CASE CountTransfer(Command)
        <5>1. runner'[Command] = [runner[Command] EXCEPT !.at = "next",
                                     !.accounts = BalanceTransferFromEvent(runner[Command].event)]
          BY <1>1, <4>2 DEF CountTransfer
        <5> QED
          BY <1>1, <5>1 DEF Runs
      <4> QED
        BY <1>11, <2>3, <4>1, <4>2
    <3> QED
      BY <1>0, <2>1, <3>1, <3>2, PassSame
  <2> QED
    BY <2>2, <2>3
<1>12. ASSUME NEW p \in Procs, ProcessDies(p) \/ TransferFails(p) PROVE PassInv'
  <2>1. UNCHANGED <<refreshProgress, pass, idOrder>>
    BY <1>12 DEF ProcessDies, TransferFails
  <2>2. \/ runner'[Command] = AtRest \/ runner'[Command] = runner[Command]
        \/ runner'[Command] = [runner[Command] EXCEPT !.alone = FALSE]
    BY <1>1, <1>12 DEF ProcessDies, TransferFails, Abandon
  <2>3. CASE runner'[Command] = AtRest
    <3>1. PassCovers'
      BY <2>1 DEF PassInv, PassCovers
    <3> QED
      BY <1>1, <2>3, <3>1 DEF PassInv
  <2> QED
    BY <1>2, <2>1, <2>2, <2>3
<1>13. ASSUME NEW mode \in Modes, NEW id \in 0..Len(idOrder), RefreshAllAccount(mode, id)
       PROVE  PassInv'
  <2>1. PICK start \in Nat, n \in Nat :
           LET batch == SubSeq(idOrder, start + 1, start + n)
           IN  /\ start + n <= Len(idOrder)
               /\ \/ refreshProgress' = 0
                  \/ refreshProgress' = refreshProgress /\ pass \subseteq pass'
               /\ \/ runner' = runner
                  \/ /\ runner' = [runner EXCEPT ![Command] =
                                      [AtRest EXCEPT !.at = "next", !.accounts = batch, !.batch = batch]]
                     /\ batch # <<>>
                     /\ \/ start = 0
                        \/ start = refreshProgress /\ pass \subseteq pass'
                        \/ ToSet(SubSeq(idOrder, 1, start)) \subseteq pass'
    BY <1>13, BatchTypes
  <2>2. UNCHANGED idOrder /\ runner[Command] = AtRest
    BY <1>13 DEF RefreshAllAccount
  <2>3. /\ idOrder \in Seq(Accounts) /\ Len(idOrder) \in Nat /\ DOMAIN idOrder = 1..Len(idOrder)
        /\ refreshProgress \in 0..Len(idOrder)
    BY DEF BalanceTypes, IdsInOrder
  <2>4. ASSUME \/ start = 0
               \/ start = refreshProgress /\ pass \subseteq pass'
               \/ ToSet(SubSeq(idOrder, 1, start)) \subseteq pass',
               NEW i \in 1..start
        PROVE  idOrder[i] \in pass'
    <3>1. start <= Len(idOrder) /\ i \in DOMAIN idOrder /\ i <= start
      BY <2>1, <2>3
    <3>2. CASE start = refreshProgress /\ pass \subseteq pass'
      BY <3>1, <3>2 DEF PassInv, PassCovers
    <3>3. CASE ToSet(SubSeq(idOrder, 1, start)) \subseteq pass'
      <4> DEFINE l == SubSeq(idOrder, 0 + 1, 0 + start)
      <4>1. l \in Seq(Accounts) /\ Len(l) = start /\ l[i] = idOrder[0 + i]
        <5>1. 0 \in Nat /\ 0 + start <= Len(idOrder)
          BY <3>1
        <5>2. /\ SubSeq(idOrder, 0 + 1, 0 + start) \in Seq(Accounts)
              /\ Len(SubSeq(idOrder, 0 + 1, 0 + start)) = start
              /\ \A x \in 1..start : SubSeq(idOrder, 0 + 1, 0 + start)[x] = idOrder[0 + x]
          BY ZenonT(60), <2>3, <5>1, Stretch
        <5> QED
          BY <5>2
      <4>2. l = SubSeq(idOrder, 1, start) /\ 0 + i = i
        OBVIOUS
      <4> HIDE DEF l
      <4>3. i \in DOMAIN l
        BY <4>1
      <4>4. l[i] \in ToSet(l)
        BY <4>3 DEF ToSet
      <4> QED
        BY <3>3, <4>1, <4>2, <4>4
    <3> QED
      BY <2>4, <3>2, <3>3
  <2>5. PassCovers'
    <3>1. CASE refreshProgress' = 0
      BY <2>2, <2>3, <3>1 DEF PassCovers
    <3>2. CASE refreshProgress' = refreshProgress /\ pass \subseteq pass'
      BY <2>2, <3>2 DEF PassInv, PassCovers
    <3> QED
      BY <2>1, <3>1, <3>2
  <2> DEFINE b == SubSeq(idOrder, start + 1, start + n)
  <2>6. CASE runner' = runner
    <3>1. runner'[Command].batch = <<>>
      BY <1>1, <2>2, <2>6
    <3> QED
      BY <2>5, <3>1 DEF PassInv
  <2>7. CASE runner' # runner
    <3>1. b \in Seq(Accounts) /\ Len(b) = n /\ \A i \in 1..n : b[i] = idOrder[start + i]
      <4>1. start \in Nat /\ n \in Nat /\ start + n <= Len(idOrder)
        BY <2>1
      <4> QED
        BY <2>3, <4>1, Stretch
    <3>2. runner'[Command] = [AtRest EXCEPT !.at = "next", !.accounts = b, !.batch = b]
      BY <1>1, <2>1, <2>7
    <3>0. b # <<>> /\ \A i \in 1..start : idOrder[i] \in pass'
      BY <2>1, <2>4, <2>7
    <3> HIDE DEF b
    <3>3. runner'[Command].at = "next" /\ runner'[Command].accounts = b /\ runner'[Command].batch = b
      BY <1>1, <3>2 DEF Runs
    <3>4. DOMAIN b = 1..n
      BY <2>1, <3>1
    <3>5. Batch(start, 0)'
      <4>1. start + Len(b) <= Len(idOrder') /\ 0 + Len(b) = Len(b)
        BY <2>1, <2>2, <3>1
      <4>2. \A i \in DOMAIN b : b[i] = idOrder'[start + i] /\ b[i] = idOrder'[start + 0 + i]
        BY <2>1, <2>2, <3>1, <3>4
      <4>3. \A i \in 1..(start + 0) : idOrder'[i] \in pass'
        BY <2>1, <2>2, <3>0
      <4> QED
        BY <3>3, <4>1, <4>2, <4>3 DEF Batch
    <3> QED
      BY <2>1, <2>5, <3>3, <3>5 DEF PassInv
  <2> QED
    BY <2>6, <2>7
<1>14. ASSUME EndRefreshAll PROVE PassInv'
  <2>1. /\ UNCHANGED <<idOrder, pass>> /\ runner[Command].accounts = <<>> /\ runner[Command].batch # <<>>
        /\ refreshProgress' \in {refreshProgress, IdOf(Last(runner[Command].batch))}
        /\ runner'[Command] = AtRest
    BY <1>1, <1>14 DEF EndRefreshAll, SaveProgress
  <2>2. PICK s \in Nat, k \in Nat : Batch(s, k)
    BY <2>1 DEF PassInv
  <2> DEFINE b == runner[Command].batch
  <2>3. b \in Seq(Accounts)
    BY <1>1 DEF Runs
  <2>4. /\ s + Len(b) <= Len(idOrder) /\ k = Len(b)
        /\ \A i \in DOMAIN b : b[i] = idOrder[s + i]
        /\ \A i \in 1..(s + k) : idOrder[i] \in pass
    BY <2>1, <2>2 DEF Batch
  <2>5. /\ Len(idOrder) \in Nat /\ DOMAIN idOrder = 1..Len(idOrder)
    BY DEF BalanceTypes, IdsInOrder
  <2>6. b # <<>> /\ refreshProgress' \in {refreshProgress, IdOf(Last(b))}
    BY <2>1
  <2> HIDE DEF b
  <2>7. /\ Len(b) \in Nat \ {0} /\ Len(b) \in DOMAIN b /\ Last(b) = b[Len(b)]
    BY <2>3, <2>6 DEF Last
  <2>8. Last(b) = idOrder[s + k] /\ s + k \in 1..Len(idOrder)
    BY <2>4, <2>5, <2>7
  <2>9. IdOf(Last(b)) = s + k
    <3>1. Last(b) \in ToSet(idOrder)
      BY <2>5, <2>8 DEF ToSet
    <3> QED
      BY <2>5, <2>8, <3>1, PlaceOf DEF BalanceTypes, IdsInOrder
  <2>10. PassCovers'
    <3>1. CASE refreshProgress' = refreshProgress
      BY <2>1, <3>1 DEF PassInv, PassCovers
    <3>2. CASE refreshProgress' = IdOf(Last(b))
      BY <2>1, <2>4, <2>5, <2>8, <2>9, <3>2 DEF PassCovers
    <3> QED
      BY <2>6, <3>1, <3>2
  <2> QED
    BY <1>1, <2>1, <2>10 DEF PassInv
<1>15. ASSUME InitTransfer \/ ReadTable \/ BackfillEvent \/ BackfillFails PROVE PassInv'
  <2>1. UNCHANGED <<refreshProgress, idOrder, pass>>
    BY <1>15 DEF InitTransfer, ReadTable, BackfillEvent, BackfillFails
  <2>2. PassCovers'
    BY <2>1 DEF PassCovers, PassInv
  <2>3. CASE InitTransfer
    <3>1. PICK t : runner'[Command] = [AtRest EXCEPT !.at = "table", !.table = t]
      BY <1>1, <2>3 DEF InitTransfer
    <3>2. runner'[Command].batch = <<>>
      BY <3>1 DEF AtRest
    <3> QED
      BY <2>2, <3>2 DEF PassInv
  <2>4. CASE ReadTable
    <3>1. PICK l : runner'[Command] = [runner[Command] EXCEPT !.at = "insert", !.rest = l]
      BY <1>1, <2>4 DEF ReadTable
    <3>2. runner'[Command].batch = runner[Command].batch /\ runner[Command].at = "table"
      BY <1>1, <2>4, <3>1 DEF ReadTable, Runs
    <3> QED
      BY <2>2, <3>2 DEF PassInv
  <2>5. CASE BackfillEvent
    <3>1. \/ \E e \in runner[Command].rest :
                 runner'[Command] = [AtRest EXCEPT !.at = "transfer", !.event = e,
                       !.table = runner[Command].table, !.rest = runner[Command].rest \ {e}]
          \/ runner'[Command] = [AtRest EXCEPT !.at = "table", !.table = runner[Command].table - 1]
          \/ runner'[Command] = AtRest
      BY <1>1, <2>5 DEF BackfillEvent
    <3>2. ASSUME NEW e,
                 runner'[Command] = [AtRest EXCEPT !.at = "transfer", !.event = e,
                       !.table = runner[Command].table, !.rest = runner[Command].rest \ {e}]
          PROVE  runner'[Command].batch = <<>>
      BY <3>2 DEF AtRest
    <3>3. ASSUME runner'[Command] = [AtRest EXCEPT !.at = "table", !.table = runner[Command].table - 1]
          PROVE  runner'[Command].batch = <<>>
      BY <3>3 DEF AtRest
    <3>4. runner'[Command].batch = <<>>
      BY <1>1, <3>1, <3>2, <3>3
    <3> QED
      BY <2>2, <3>4 DEF PassInv
  <2>6. CASE BackfillFails
    <3>1. PICK t, l : runner'[Command] = [AtRest EXCEPT !.at = "insert", !.table = t, !.rest = l]
      BY <1>1, <2>6 DEF BackfillFails, Abandon
    <3>2. runner'[Command].batch = <<>>
      BY <3>1 DEF AtRest
    <3> QED
      BY <2>2, <3>2 DEF PassInv
  <2> QED
    BY <1>15, <2>3, <2>4, <2>5, <2>6
<1> QED
  BY <1>3, <1>4, <1>5, <1>6, <1>7, <1>8, <1>9, <1>11, <1>12, <1>13, <1>14, <1>15 DEF BalanceNext

-----------------------------------------------------------------------------
(* The tables of the events.                                               *)
LEMMA TableOrder ==
    ASSUME NEW x \in Nat, NEW y \in Nat, x <= y
    PROVE  x \div SplitEvents \in Nat /\ x \div SplitEvents <= y \div SplitEvents
<1> DEFINE q == x \div SplitEvents
           r == y \div SplitEvents
<1>1. SplitEvents \in Nat /\ SplitEvents > 0
  BY BalanceAssumption
<1>2. /\ q \in Int /\ SplitEvents * q <= x /\ x < SplitEvents * (q + 1)
      /\ r \in Int /\ SplitEvents * r <= y /\ y < SplitEvents * (r + 1)
  BY <1>1
<1> HIDE DEF q, r
<1>3. q >= 0
  <2> SUFFICES ASSUME q + 1 <= 0 PROVE FALSE
    BY <1>2
  <2>1. SplitEvents * (q + 1) <= 0
    BY <1>1, <1>2
  <2> QED
    BY <2>1, <1>1, <1>2
<1>4. q <= r
  <2> SUFFICES ASSUME r + 1 <= q PROVE FALSE
    BY <1>2
  <2>1. SplitEvents * (r + 1) <= SplitEvents * q
    BY <1>1, <1>2
  <2>2. SplitEvents * (r + 1) \in Int /\ SplitEvents * q \in Int
    BY <1>1, <1>2
  <2> QED
    BY <2>1, <2>2, <1>1, <1>2
<1> QED
  BY <1>2, <1>3, <1>4 DEF q, r

LEMMA TablesOf ==
    ASSUME BalanceTypes, EventsInOrder, NEW e \in DOMAIN chainEvents
    PROVE  /\ TableOf(e) \in Nat
           /\ Len(chainEvents) \in DOMAIN chainEvents /\ TableOf(e) <= TableOf(Len(chainEvents))
<1>1. chainEvents \in Seq(EventRow)
  BY DEF BalanceTypes, EventTypes
<1> DEFINE n == Len(chainEvents)
           x == chainEvents[e].extrinsic
           y == chainEvents[n].extrinsic
<1>2. n \in Nat /\ DOMAIN chainEvents = 1..n /\ n \in DOMAIN chainEvents /\ e \in 1..n
  BY <1>1
<1>3. chainEvents[e] \in EventRow /\ chainEvents[n] \in EventRow
  BY <1>1, <1>2
<1>4. x \in Nat \ {0} /\ y \in Nat \ {0} /\ x \in {e - 1, e} /\ y \in {n - 1, n}
  BY <1>2, <1>3 DEF EventRow, EventsInOrder
<1>5. x <= y
  <2>1. CASE e = n
    BY <1>4, <2>1
  <2>2. CASE e # n
    <3> HIDE DEF x, y, n
    <3>1. e + 1 <= n
      BY <1>2, <2>2
    <3> QED
      BY <1>2, <1>4, <3>1
  <2> QED
    BY <2>1, <2>2
<1> HIDE DEF x, y, n
<1>6. x - 1 \in Nat /\ y - 1 \in Nat /\ x - 1 <= y - 1
  BY <1>4, <1>5
<1>7. (x - 1) \div SplitEvents \in Nat /\ (x - 1) \div SplitEvents <= (y - 1) \div SplitEvents
  BY <1>6, TableOrder
<1> QED
  BY <1>2, <1>7 DEF TableOf, x, y, n

(* Reading a table finds each of its events that is to have a row.         *)
LEMMA TableRead ==
    ASSUME NEW ids \in SUBSET DOMAIN chainEvents, NEW e \in ToBackfill(ids)
    PROVE  e \in BackfillTable(TableOf(e))
<1> DEFINE t == TableOf(e)
           all == {x \in DOMAIN chainEvents : TableOf(x) = t}
           E == chainEvents[e].extrinsic
           mine == OfExtrinsic(E) \cap all
           Of(x) == OmniBridgePayoutTransfers(OfExtrinsic(chainEvents[x].extrinsic) \cap all)
           R == {Of(x) : x \in all}
<1>1. e \in all
  BY DEF ToBackfill
<1>2. CASE chainEvents[e].kind = "Transfer"
  BY <1>1, <1>2 DEF BackfillTable
<1>3. CASE chainEvents[e].kind = "Minted" /\ chainEvents[e].kind # "Transfer"
  <2>1. PICK x \in ids : chainEvents[x].kind = "PaidOut" /\ chainEvents[x].extrinsic = E
    BY <1>3 DEF ToBackfill
  <2>2. TableOf(x) = t
    BY <2>1 DEF TableOf
  <2>3. x \in mine /\ e \in mine
    BY <1>1, <2>1, <2>2 DEF OfExtrinsic
  <2>4. e \in OmniBridgePayoutTransfers(mine)
    BY <1>3, <2>1, <2>3 DEF OmniBridgePayoutTransfers, hasOmniBridgePaidOut
  <2>5. Of(e) \in R /\ e \in Of(e)
    BY <1>1, <2>4
  <2>6. e \in UNION R
    BY <2>5
  <2> QED
    BY <2>6 DEF BackfillTable
<1> QED
  BY <1>2, <1>3 DEF ToBackfill

LEMMA EventOrderStep ==
    ASSUME BalanceTypes, EventsInOrder, [BalanceNext]_balanceVars
    PROVE  EventsInOrder'
<1> DEFINE Scans == [running : BOOLEAN, from : SUBSET DOMAIN chainEvents, lost : SUBSET DOMAIN chainEvents]
<1>1. /\ DOMAIN chainEvents \subseteq DOMAIN chainEvents'
      /\ \A e \in DOMAIN chainEvents : chainEvents'[e] = chainEvents[e]
  BY EventsGrow
<1>2. firstScan' \in Scans
  <2>0. firstScan \in Scans
    BY DEF EventsInOrder
  <2>1. ASSUME UNCHANGED firstScan PROVE firstScan' \in Scans
    BY <2>0, <2>1
  <2>2. ASSUME NEW p \in Procs, ProcessDies(p) PROVE firstScan' \in Scans
    BY <2>0, <2>2 DEF ProcessDies, NoScan
  <2>3. CASE InitTransfer
    BY <2>3 DEF InitTransfer
  <2>4. CASE BackfillEvent
    BY <2>0, <2>4 DEF BackfillEvent
  <2>5. CASE ReadTable
    <3>1. PICK lost \in SUBSET BackfillTable(runner[Command].table) :
             firstScan' = [firstScan EXCEPT !.lost = @ \cup lost]
      BY <2>5 DEF ReadTable
    <3>2. BackfillTable(runner[Command].table) \subseteq DOMAIN chainEvents
      BY DEF BackfillTable, OmniBridgePayoutTransfers, OfExtrinsic
    <3> QED
      BY <2>0, <3>1, <3>2
  <2>6. CASE BackfillFails
    <3>1. PICK lost : /\ firstScan' = [firstScan EXCEPT !.lost = @ \cup lost]
                      /\ lost \subseteq {runner[Command].event} \cup runner[Command].rest
      BY <2>6 DEF BackfillFails
    <3>2. RunOk(Command, runner[Command]) /\ runner[Command].at = "transfer"
      BY <2>6 DEF BalanceTypes, RunnerTypes, BackfillFails, Procs
    <3>3. lost \subseteq DOMAIN chainEvents
      BY <3>1, <3>2 DEF RunOk, Backfilled
    <3> QED
      BY <2>0, <3>1, <3>3
  <2>7. ASSUME NEW p \in Procs,
               \/ RefreshAccount(p) \/ FirstOrCreate(p) \/ FirstOrCreateFails(p) \/ CountAccount(p)
               \/ ReadData(p) \/ ReadBalanceLocks(p) \/ AfterAccountCreate(p) \/ RefreshFails(p)
               \/ CreateTransfer(p) \/ CountTransfer(p) \/ TransferFails(p)
        PROVE  UNCHANGED firstScan
    BY <2>7 DEF RefreshAccount, FirstOrCreate, FirstOrCreateFails, CountAccount, ReadData,
       ReadBalanceLocks, AfterAccountCreate, RefreshFails, CreateTransfer, CountTransfer,
       TransferFails, history
  <2>8. ASSUME NEW mode, NEW id, RefreshAllAccount(mode, id) PROVE UNCHANGED firstScan
    BY <2>8 DEF RefreshAllAccount
  <2>9. ASSUME EndRefreshAll \/ UNCHANGED balanceVars PROVE UNCHANGED firstScan
    BY <2>9 DEF EndRefreshAll, history, balanceVars
  <2>10. ASSUME NEW w \in BalanceWorkers, EndEvent(w) \/ \E e \in eventJobs : EmitEvent(w, e)
         PROVE  UNCHANGED firstScan
    BY <2>10 DEF EndEvent, EmitEvent, history
  <2>11. ASSUME NEW k, NEW l, NEW x, ChainEvent(k, l, x) PROVE UNCHANGED firstScan
    BY <2>11 DEF ChainEvent, history
  <2> HIDE DEF Scans
  <2> QED
    BY <2>1, <2>2, <2>3, <2>4, <2>5, <2>6, <2>7, <2>8, <2>9, <2>10, <2>11 DEF BalanceNext
<1>3. \A e \in DOMAIN chainEvents' : chainEvents'[e].extrinsic \in {e - 1, e}
  <2>1. CASE UNCHANGED chainEvents
    BY <2>1 DEF EventsInOrder
  <2>2. ASSUME NEW k \in {"Transfer", "Minted", "PaidOut"}, NEW l \in Seq(Accounts),
               NEW x \in {Len(chainEvents), Len(chainEvents) + 1} \ {0}, ChainEvent(k, l, x)
        PROVE  <1>3
    <3>1. /\ DOMAIN chainEvents' = DOMAIN chainEvents \cup {Len(chainEvents) + 1}
          /\ chainEvents'[Len(chainEvents) + 1] = [kind |-> k, accounts |-> l, extrinsic |-> x]
      BY ZenonT(60), <2>2, NewEvent
    <3>2. x \in {(Len(chainEvents) + 1) - 1, Len(chainEvents) + 1}
      <4>1. chainEvents \in Seq(EventRow)
        BY DEF BalanceTypes, EventTypes
      <4>2. Len(chainEvents) \in Nat
        BY <4>1
      <4> QED
        BY <4>2
    <3> QED
      BY <1>1, <3>1, <3>2 DEF EventsInOrder
  <2> QED
    BY <2>1, <2>2, EventsGrow
<1>4. firstScan' \in [running : BOOLEAN, from : SUBSET DOMAIN chainEvents', lost : SUBSET DOMAIN chainEvents']
  BY <1>1, <1>2
<1> QED
  BY <1>3, <1>4 DEF EventsInOrder

LEMMA CategoryStep ==
    ASSUME BalanceTypes, TransferKinds, [BalanceNext]_balanceVars
    PROVE  TransferKinds'
<1>1. /\ DOMAIN transfers \subseteq DOMAIN chainEvents
      /\ \A e \in DOMAIN chainEvents : chainEvents'[e] = chainEvents[e]
  BY EventsGrow DEF BalanceTypes, EventTypes
<1>2. ASSUME UNCHANGED transfers PROVE TransferKinds'
  BY <1>1, <1>2 DEF TransferKinds
<1>3. ASSUME NEW p \in Procs, CreateTransfer(p) PROVE TransferKinds'
  <2> DEFINE e == runner[p].event
  <2>1. UNCHANGED chainEvents /\ e \in DOMAIN chainEvents /\ chainEvents[e].kind \in {"Transfer", "Minted"}
    BY <1>3 DEF CreateTransfer, BalanceTypes, RunnerTypes, RunOk, Backfilled
  <2>2. CASE e \in DOMAIN transfers
    BY <1>2, <1>3, <2>2 DEF CreateTransfer
  <2>3. CASE e \notin DOMAIN transfers
    <3>1. transfers' = [x \in DOMAIN transfers \cup {e} |->
                      IF x # e THEN transfers[x]
                      ELSE IF chainEvents[e].kind = "Transfer" THEN TransferCategoryTransfer
                      ELSE TransferCategoryBridgeIn]
      BY <1>3, <2>3 DEF CreateTransfer
    <3> HIDE DEF e
    <3>2. DOMAIN transfers' = DOMAIN transfers \cup {e} /\ \A x \in DOMAIN transfers : transfers'[x] = transfers[x]
      BY <2>3, <3>1
    <3>3. transfers'[e] = TransferCategoryBridgeIn <=> chainEvents[e].kind = "Minted"
      BY <2>1, <3>1 DEF TransferCategoryBridgeIn, TransferCategoryTransfer
    <3> QED
      BY <2>1, <3>2, <3>3 DEF TransferKinds
  <2> QED
    BY <2>2, <2>3
<1>4. UNCHANGED transfers \/ \E p \in Procs : CreateTransfer(p)
  BY TransfersKept
<1> QED
  BY <1>2, <1>3, <1>4

(* The events that InitTransfer began with do not change.                  *)
LEMMA ScanEvents ==
    ASSUME BalanceTypes, EventsInOrder, [BalanceNext]_balanceVars
    PROVE  /\ \A ids \in SUBSET DOMAIN chainEvents : ToBackfill(ids)' = ToBackfill(ids)
           /\ \A e \in DOMAIN chainEvents : TableOf(e)' = TableOf(e)
           /\ DOMAIN transfers \subseteq DOMAIN transfers'
<1>1. \A e \in DOMAIN chainEvents : chainEvents'[e] = chainEvents[e]
  BY EventsGrow
<1>2. ASSUME NEW ids \in SUBSET DOMAIN chainEvents PROVE ToBackfill(ids)' = ToBackfill(ids)
  BY <1>1 DEF ToBackfill
<1>3. \A e \in DOMAIN chainEvents : TableOf(e)' = TableOf(e)
  BY <1>1 DEF TableOf
<1>4. DOMAIN transfers \subseteq DOMAIN transfers'
  <2>1. ASSUME NEW p \in Procs, CreateTransfer(p) PROVE <1>4
    BY <2>1 DEF CreateTransfer
  <2>2. ASSUME UNCHANGED transfers PROVE <1>4
    BY <2>2
  <2> QED
    BY <2>1, <2>2, TransfersKept
<1> QED
  BY <1>2, <1>3, <1>4

(* A step that leaves the table and the rest of it alone.                  *)
LEMMA ScanSame ==
    ASSUME BalanceTypes, EventsInOrder, ScanInv, [BalanceNext]_balanceVars,
           UNCHANGED firstScan,
           runner'[Command].table = runner[Command].table,
           runner'[Command].rest = runner[Command].rest,
           runner'[Command].batch = runner[Command].batch,
           runner[Command].at # "idle" => runner'[Command].at # "idle",
           runner[Command].at = "table" <=> runner'[Command].at = "table",
           runner[Command].at = "transfer" =>
              \/ runner'[Command].at = "transfer" /\ runner'[Command].event = runner[Command].event
              \/ runner[Command].event \in DOMAIN transfers'
    PROVE  ScanInv'
<1>1. firstScan.from \in SUBSET DOMAIN chainEvents
  BY DEF EventsInOrder
<1>2. /\ ToBackfill(firstScan.from)' = ToBackfill(firstScan.from)
      /\ \A e \in DOMAIN chainEvents : TableOf(e)' = TableOf(e)
      /\ DOMAIN transfers \subseteq DOMAIN transfers'
  <2>1. /\ \A ids \in SUBSET DOMAIN chainEvents : ToBackfill(ids)' = ToBackfill(ids)
        /\ \A e \in DOMAIN chainEvents : TableOf(e)' = TableOf(e)
        /\ DOMAIN transfers \subseteq DOMAIN transfers'
    BY ScanEvents
  <2>2. ToBackfill(firstScan.from)' = ToBackfill(firstScan.from)
    <3>1. \A e \in DOMAIN chainEvents : chainEvents'[e] = chainEvents[e]
      BY EventsGrow
    <3> QED
      BY <1>1, <3>1 DEF ToBackfill
  <2> QED
    BY <2>1, <2>2
<1>3. firstScan'.running => runner'[Command].at # "idle" /\ runner'[Command].batch = <<>>
  BY DEF ScanInv
<1>4. ASSUME NEW e \in ToBackfill(firstScan.from) \ firstScan.lost
      PROVE  e \in DOMAIN transfers' \/ (firstScan'.running /\ Ahead(e)')
  <2>1. CASE e \in DOMAIN transfers
    BY <1>2, <2>1
  <2>2. CASE firstScan.running /\ Ahead(e)
    <3>1. e \in DOMAIN chainEvents
      BY <1>1 DEF ToBackfill
    <3>2. TableOf(e)' = TableOf(e)
      BY <1>2, <3>1
    <3>3. Ahead(e)' \/ e \in DOMAIN transfers'
      BY <2>2, <3>2 DEF Ahead
    <3> QED
      BY <2>2, <3>3
  <2> QED
    BY <2>1, <2>2 DEF ScanInv
<1> QED
  BY <1>2, <1>3, <1>4 DEF ScanInv

LEMMA ScanStep ==
    ASSUME BalanceTypes, EventsInOrder, PassInv, ScanInv, [BalanceNext]_balanceVars
    PROVE  ScanInv'
<1> USE DEF history, balanceRowVars
<1> DEFINE c == runner[Command]
<1>1. /\ Command \in Procs /\ Command \notin BalanceWorkers
      /\ c \in Runs /\ RunOk(Command, c) /\ Command \in DOMAIN runner
      /\ AtRest.at = "idle" /\ AtRest.batch = <<>> /\ AtRest \in Runs
  BY BalanceAssumption, RestOk DEF BalanceTypes, RunnerTypes, Procs
(* The command stays where it is in the table. *)
<1>2. ASSUME UNCHANGED firstScan,
             \/ runner'[Command] = c
             \/ runner'[Command] = [c EXCEPT !.alone = FALSE]
      PROVE  ScanInv'
  <2>1. /\ runner'[Command].table = c.table /\ runner'[Command].rest = c.rest
        /\ runner'[Command].batch = c.batch /\ runner'[Command].at = c.at
        /\ runner'[Command].event = c.event
    BY <1>1, <1>2 DEF Runs
  <2> QED
    BY <1>2, <2>1, ScanSame
<1>3. ASSUME UNCHANGED firstScan, c.at \notin {"table", "transfer"},
             runner'[Command].at \notin {"idle", "table"},
             runner'[Command].table = c.table, runner'[Command].rest = c.rest,
             runner'[Command].batch = c.batch
      PROVE  ScanInv'
  BY <1>3, ScanSame
<1>4. CASE UNCHANGED balanceVars
  BY <1>2, <1>4 DEF balanceVars
<1>5. ASSUME NEW k, NEW l, NEW x, ChainEvent(k, l, x) PROVE ScanInv'
  BY <1>2, <1>5 DEF ChainEvent
<1>6. ASSUME NEW w \in BalanceWorkers, EndEvent(w) \/ \E e \in eventJobs : EmitEvent(w, e)
      PROVE  ScanInv'
  BY <1>1, <1>2, <1>6 DEF EndEvent, EmitEvent
<1>7. ASSUME NEW p \in Procs, RefreshAccount(p) PROVE ScanInv'
  <2>1. UNCHANGED firstScan /\ runner[p].at = "next"
    BY <1>7 DEF RefreshAccount
  <2>2. CASE p # Command
    <3>1. runner'[Command] = c \/ runner'[Command] = [c EXCEPT !.alone = FALSE]
      BY <1>1, <1>7, <2>2 DEF RefreshAccount
    <3> QED
      BY <1>2, <2>1, <3>1
  <2>3. CASE p = Command
    <3>1. \/ runner'[Command] = [c EXCEPT !.accounts = Tail(c.accounts)]
          \/ \E b \in BOOLEAN : runner'[Command] = [c EXCEPT !.at = "row", !.alone = b]
      <4>1. CASE CurrentAccount(Command) \notin Accounts
        BY <1>1, <1>7, <2>3, <4>1 DEF RefreshAccount
      <4>2. CASE CurrentAccount(Command) \in Accounts
        <5> DEFINE others == {q \in Procs \ {p} : Refreshing(q, CurrentAccount(Command))}
        <5>1. runner'[Command] = [c EXCEPT !.at = "row", !.alone = others = {}]
          BY <1>1, <1>7, <2>3, <4>2 DEF RefreshAccount
        <5>2. (others = {}) \in BOOLEAN
          OBVIOUS
        <5> HIDE DEF others, c
        <5> QED
          BY <5>1, <5>2
      <4> QED
        BY <4>1, <4>2
    <3>2. /\ runner'[Command].table = c.table /\ runner'[Command].rest = c.rest
          /\ runner'[Command].batch = c.batch /\ runner'[Command].at \in {"next", "row"}
      BY <1>1, <2>1, <2>3, <3>1 DEF Runs
    <3> QED
      BY <1>3, <2>1, <2>3, <3>2
  <2> QED
    BY <2>2, <2>3
<1>8. ASSUME NEW p \in Procs,
             \/ FirstOrCreate(p) \/ FirstOrCreateFails(p) \/ CountAccount(p) \/ ReadData(p)
             \/ ReadBalanceLocks(p) \/ AfterAccountCreate(p) \/ RefreshFails(p)
      PROVE  ScanInv'
  <2>1. UNCHANGED firstScan /\ runner[p].at \in Refreshes
    BY <1>8 DEF FirstOrCreate, FirstOrCreateFails, CountAccount, ReadData, ReadBalanceLocks,
       AfterAccountCreate, RefreshFails, Refreshes
  <2>2. CASE p # Command
    <3>1. runner'[Command] = c
      BY <1>1, <1>8, <2>2 DEF FirstOrCreate, FirstOrCreateFails, CountAccount, ReadData,
         ReadBalanceLocks, AfterAccountCreate, RefreshFails
    <3> QED
      BY <1>2, <2>1, <3>1
  <2>3. CASE p = Command
    <3>1. \/ \E t \in Refreshes : runner'[Command] = [c EXCEPT !.at = t]
          \/ \E d \in Nat : runner'[Command] = [c EXCEPT !.at = "write", !.locks = d]
          \/ \E d \in Nat : runner'[Command] = [c EXCEPT !.at = "locks", !.data = d]
          \/ runner'[Command] = Refreshed(Command, TRUE)
          \/ runner'[Command] = Refreshed(Command, FALSE)
      <4>1. onChain[CurrentAccount(Command)] \in Nat /\ 0 \in Nat
        BY <1>1, <2>1, <2>3 DEF BalanceTypes, EventTypes, RunOk, CurrentAccount
      <4>2. CASE FirstOrCreate(Command) \/ FirstOrCreateFails(Command) \/ CountAccount(Command)
        BY <1>1, <4>2 DEF FirstOrCreate, FirstOrCreateFails, CountAccount, Refreshes
      <4>3. CASE ReadData(Command)
        BY <1>1, <4>1, <4>3 DEF ReadData
      <4>4. CASE ReadBalanceLocks(Command)
        BY <1>1, <4>1, <4>4 DEF ReadBalanceLocks
      <4>5. CASE AfterAccountCreate(Command) \/ RefreshFails(Command)
        BY <1>1, <4>5 DEF AfterAccountCreate, RefreshFails
      <4> QED
        BY <1>8, <2>3, <4>2, <4>3, <4>4, <4>5
    <3>2. /\ runner'[Command].table = c.table /\ runner'[Command].rest = c.rest
          /\ runner'[Command].batch = c.batch /\ runner'[Command].at \notin {"idle", "table"}
      <4>1. ASSUME NEW t \in Refreshes, runner'[Command] = [c EXCEPT !.at = t] PROVE <3>2
        BY <1>1, <4>1 DEF Runs, Refreshes
      <4>2. ASSUME NEW d \in Nat, \/ runner'[Command] = [c EXCEPT !.at = "write", !.locks = d]
                                  \/ runner'[Command] = [c EXCEPT !.at = "locks", !.data = d]
            PROVE  <3>2
        BY <1>1, <4>2 DEF Runs
      <4>3. ASSUME NEW b \in BOOLEAN, runner'[Command] = Refreshed(Command, b) PROVE <3>2
        BY <1>1, <4>3 DEF Runs, Refreshed
      <4> QED
        BY <3>1, <4>1, <4>2, <4>3
    <3> QED
      BY <1>3, <2>1, <2>3, <3>2 DEF Refreshes
  <2> QED
    BY <2>2, <2>3
<1>9. ASSUME NEW p \in Procs, CreateTransfer(p) \/ CountTransfer(p) PROVE ScanInv'
  <2>1. UNCHANGED firstScan /\ runner[p].at \in {"transfer", "countTransfer"}
    BY <1>9 DEF CreateTransfer, CountTransfer
  <2>2. CASE p # Command
    <3>1. runner'[Command] = c
      BY <1>1, <1>9, <2>2 DEF CreateTransfer, CountTransfer
    <3> QED
      BY <1>2, <2>1, <3>1
  <2>3. CASE p = Command /\ CreateTransfer(p)
    <3>1. runner'[Command] = [c EXCEPT !.at = "next"] \/ runner'[Command] = [c EXCEPT !.at = "countTransfer"]
      BY <1>1, <2>3 DEF CreateTransfer
    <3>2. /\ runner'[Command].table = c.table /\ runner'[Command].rest = c.rest
          /\ runner'[Command].batch = c.batch /\ runner'[Command].at \in {"next", "countTransfer"}
      BY <1>1, <3>1 DEF Runs
    <3>3. c.event \in DOMAIN transfers' /\ c.at = "transfer"
      BY <2>3 DEF CreateTransfer
    <3> QED
      BY <2>1, <3>2, <3>3, ScanSame
  <2>4. CASE p = Command /\ CountTransfer(p)
    <3>1. runner'[Command] = [c EXCEPT !.at = "next", !.accounts = BalanceTransferFromEvent(c.event)]
          /\ c.at = "countTransfer"
      BY <1>1, <2>4 DEF CountTransfer
    <3>2. /\ runner'[Command].table = c.table /\ runner'[Command].rest = c.rest
          /\ runner'[Command].batch = c.batch /\ runner'[Command].at = "next"
      BY <1>1, <3>1 DEF Runs
    <3> QED
      BY <1>3, <2>1, <3>1, <3>2
  <2> QED
    BY <1>9, <2>2, <2>3, <2>4
<1>10. ASSUME NEW p \in Procs, ProcessDies(p) \/ TransferFails(p) PROVE ScanInv'
  <2>1. CASE p # Command
    <3>1. UNCHANGED firstScan
      BY <1>10, <2>1 DEF ProcessDies, TransferFails
    <3>2. runner'[Command] = c \/ runner'[Command] = [c EXCEPT !.alone = FALSE]
      BY <1>1, <1>10, <2>1 DEF ProcessDies, TransferFails, Abandon
    <3> QED
      BY <1>2, <3>1, <3>2
  <2>2. CASE p = Command
    <3>1. firstScan' = NoScan
      BY <1>1, <1>10, <2>2 DEF ProcessDies, TransferFails
    <3>2. ToBackfill(firstScan.from)' = {} /\ ~ firstScan'.running
      BY <3>1 DEF NoScan, ToBackfill
    <3> QED
      BY <3>2 DEF ScanInv
  <2> QED
    BY <2>1, <2>2
(* No InitTransfer is running. *)
<1>11. ASSUME UNCHANGED <<firstScan, chainEvents, transfers>>, ~ firstScan.running PROVE ScanInv'
  <2>1. ToBackfill(firstScan.from)' = ToBackfill(firstScan.from)
    BY <1>11 DEF ToBackfill
  <2> QED
    BY <1>11, <2>1 DEF ScanInv
<1>12. ASSUME NEW mode, NEW id, RefreshAllAccount(mode, id) PROVE ScanInv'
  <2>1. c.at = "idle" /\ UNCHANGED <<firstScan, chainEvents, transfers>>
    BY <1>1, <1>12 DEF RefreshAllAccount
  <2> QED
    BY <1>11, <2>1 DEF ScanInv
<1>13. CASE EndRefreshAll
  BY <1>11, <1>13 DEF EndRefreshAll, ScanInv
<1>14. CASE InitTransfer
  <2>1. PICK t \in 0..TableOf(Len(chainEvents)) :
           /\ firstScan' = [running |-> TRUE, from |-> {e \in DOMAIN chainEvents : TableOf(e) <= t},
                            lost |-> {}]
           /\ runner' = [runner EXCEPT ![Command] = [AtRest EXCEPT !.at = "table", !.table = t]]
    BY <1>14 DEF InitTransfer
  <2>2. /\ runner'[Command].at = "table" /\ runner'[Command].batch = <<>> /\ runner'[Command].table = t
        /\ UNCHANGED <<chainEvents, transfers>>
    BY <1>1, <1>14, <2>1 DEF AtRest, InitTransfer
  <2>3. ASSUME NEW e \in ToBackfill(firstScan.from)' PROVE Ahead(e)'
    <3>1. e \in DOMAIN chainEvents /\ TableOf(e) <= t /\ TableOf(e)' = TableOf(e)
      BY <2>1, <2>2 DEF ToBackfill, TableOf
    <3>2. TableOf(e) \in Nat /\ t \in Int
      BY <3>1, TablesOf, <2>1
    <3> QED
      BY <2>2, <3>1, <3>2 DEF Ahead
  <2>4. firstScan'.running
    BY <2>1
  <2> QED
    BY <2>2, <2>3, <2>4 DEF ScanInv
<1>15. CASE ReadTable
  <2>0. PICK lost : /\ firstScan' = [firstScan EXCEPT !.lost = @ \cup lost]
                    /\ runner' = [runner EXCEPT ![Command].at = "insert",
                                       ![Command].rest = BackfillTable(runner[Command].table) \ lost]
    BY <1>15 DEF ReadTable
  <2>1. /\ UNCHANGED <<chainEvents, transfers>> /\ c.at = "table"
        /\ firstScan'.running = firstScan.running /\ firstScan'.from = firstScan.from
        /\ firstScan'.lost = firstScan.lost \cup lost
        /\ runner'[Command] = [c EXCEPT !.at = "insert", !.rest = BackfillTable(c.table) \ lost]
    BY <1>1, <1>15, <2>0 DEF ReadTable, EventsInOrder
  <2>2. /\ runner'[Command].at = "insert" /\ runner'[Command].batch = c.batch
        /\ runner'[Command].table = c.table /\ runner'[Command].rest = BackfillTable(c.table) \ lost
    BY <1>1, <2>1 DEF Runs
  <2>3. ToBackfill(firstScan.from)' = ToBackfill(firstScan.from)
    BY <2>1 DEF ToBackfill
  <2>4. ASSUME NEW e \in ToBackfill(firstScan.from), e \notin lost, Ahead(e) PROVE Ahead(e)'
    <3>1. firstScan.from \in SUBSET DOMAIN chainEvents
      BY DEF EventsInOrder
    <3>2. e \in DOMAIN chainEvents /\ TableOf(e)' = TableOf(e)
      BY <2>1, <3>1 DEF ToBackfill, TableOf
    <3>3. TableOf(e) < c.table \/ TableOf(e) = c.table
      BY <2>1, <2>4 DEF Ahead
    <3>4. CASE TableOf(e) = c.table
      BY <2>2, <2>4, <3>1, <3>4, TableRead DEF Ahead
    <3>5. CASE TableOf(e) < c.table
      BY <2>2, <3>2, <3>5 DEF Ahead
    <3> QED
      BY <3>3, <3>4, <3>5
  <2> QED
    BY <2>1, <2>2, <2>3, <2>4 DEF ScanInv
<1>16. CASE BackfillEvent
  <2>1. /\ UNCHANGED <<chainEvents, transfers>> /\ c.at \in {"insert", "next"}
        /\ \/ \E e \in c.rest :
                 /\ runner'[Command] = [AtRest EXCEPT !.at = "transfer", !.event = e,
                                            !.table = c.table, !.rest = c.rest \ {e}]
                 /\ UNCHANGED firstScan
           \/ /\ c.rest = {} /\ c.table > 0
              /\ runner'[Command] = [AtRest EXCEPT !.at = "table", !.table = c.table - 1]
              /\ UNCHANGED firstScan
           \/ /\ c.rest = {} /\ c.table = 0
              /\ firstScan' = [firstScan EXCEPT !.running = FALSE]
    BY <1>1, <1>16 DEF BackfillEvent
  <2>2. c.table \in Nat
    BY <1>1 DEF Runs
  <2>3. firstScan.from \in SUBSET DOMAIN chainEvents
    BY DEF EventsInOrder
  <2>4. \A e \in ToBackfill(firstScan.from) :
            e \in DOMAIN chainEvents /\ TableOf(e)' = TableOf(e) /\ TableOf(e) \in Nat
    BY <2>1, <2>3, TablesOf DEF ToBackfill, TableOf
  <2>5. \A e : Ahead(e) <=> TableOf(e) < c.table \/ e \in c.rest
    BY <2>1 DEF Ahead
  <2>6. ASSUME NEW e \in c.rest, UNCHANGED firstScan,
               runner'[Command] = [AtRest EXCEPT !.at = "transfer", !.event = e,
                                            !.table = c.table, !.rest = c.rest \ {e}]
        PROVE  ScanInv'
    <3>1. /\ runner'[Command].at = "transfer" /\ runner'[Command].event = e
          /\ runner'[Command].table = c.table /\ runner'[Command].rest = c.rest \ {e}
          /\ runner'[Command].batch = <<>>
      BY <2>6 DEF AtRest
    <3>2. ToBackfill(firstScan.from)' = ToBackfill(firstScan.from)
      BY <2>1, <2>6 DEF ToBackfill
    <3>3. ASSUME NEW x \in ToBackfill(firstScan.from), Ahead(x) PROVE Ahead(x)'
      BY <2>4, <2>5, <3>1, <3>3 DEF Ahead
    <3> QED
      BY <2>1, <2>6, <3>1, <3>2, <3>3 DEF ScanInv
  <2>7. ASSUME c.rest = {}, c.table > 0, UNCHANGED firstScan,
               runner'[Command] = [AtRest EXCEPT !.at = "table", !.table = c.table - 1]
        PROVE  ScanInv'
    <3>1. /\ runner'[Command].at = "table" /\ runner'[Command].table = c.table - 1
          /\ runner'[Command].batch = <<>>
      BY <2>7 DEF AtRest
    <3>2. ToBackfill(firstScan.from)' = ToBackfill(firstScan.from)
      BY <2>1, <2>7 DEF ToBackfill
    <3>3. ASSUME NEW x \in ToBackfill(firstScan.from), Ahead(x) PROVE Ahead(x)'
      <4>1. TableOf(x) < c.table /\ TableOf(x) \in Nat /\ TableOf(x)' = TableOf(x)
        BY <2>4, <2>5, <2>7, <3>3
      <4>2. TableOf(x) < c.table - 1 \/ TableOf(x) = c.table - 1
        BY <2>2, <4>1
      <4> QED
        BY <3>1, <4>1, <4>2 DEF Ahead
    <3> QED
      BY <2>1, <2>7, <3>1, <3>2, <3>3 DEF ScanInv
  <2>8. ASSUME c.rest = {}, c.table = 0, firstScan' = [firstScan EXCEPT !.running = FALSE]
        PROVE  ScanInv'
    <3>1. \A x \in ToBackfill(firstScan.from) : ~ Ahead(x)
      BY <2>4, <2>5, <2>8
    <3>2. ToBackfill(firstScan.from) \ firstScan.lost \subseteq DOMAIN transfers
      BY <3>1 DEF ScanInv
    <3>3. /\ ~ firstScan'.running /\ firstScan'.from = firstScan.from
          /\ firstScan'.lost = firstScan.lost
      BY <2>8 DEF EventsInOrder
    <3>4. ToBackfill(firstScan.from)' = ToBackfill(firstScan.from)
      BY <2>1, <3>3 DEF ToBackfill
    <3> QED
      BY <2>1, <3>2, <3>3, <3>4 DEF ScanInv
  <2> QED
    BY <2>1, <2>6, <2>7, <2>8
<1>17. CASE BackfillFails
  <2>1. PICK lost : /\ firstScan' = [firstScan EXCEPT !.lost = @ \cup lost]
                    /\ c.event \in lost
                    /\ Abandon(Command, [AtRest EXCEPT !.at = "insert", !.table = c.table, !.rest = c.rest \ lost])
    BY <1>17 DEF BackfillFails
  <2>2. /\ UNCHANGED <<chainEvents, transfers>> /\ c.at = "transfer"
        /\ firstScan'.running = firstScan.running /\ firstScan'.from = firstScan.from
        /\ firstScan'.lost = firstScan.lost \cup lost
    BY <1>17, <2>1 DEF BackfillFails, EventsInOrder
  <2>3. runner'[Command] = [AtRest EXCEPT !.at = "insert", !.table = c.table, !.rest = c.rest \ lost]
    BY <1>1, <2>1 DEF Abandon
  <2>4. /\ runner'[Command].at = "insert" /\ runner'[Command].batch = <<>>
        /\ runner'[Command].table = c.table /\ runner'[Command].rest = c.rest \ lost
    BY <2>3 DEF AtRest
  <2>5. ToBackfill(firstScan.from)' = ToBackfill(firstScan.from)
    BY <2>2 DEF ToBackfill
  <2>6. ASSUME NEW e \in ToBackfill(firstScan.from), e \notin lost, Ahead(e) PROVE Ahead(e)'
    <3>1. TableOf(e)' = TableOf(e)
      BY <2>2 DEF TableOf
    <3>2. TableOf(e) < c.table \/ e \in c.rest \ lost
      BY <2>1, <2>2, <2>6 DEF Ahead
    <3> QED
      BY <2>4, <3>1, <3>2 DEF Ahead
  <2> QED
    BY <2>2, <2>4, <2>5, <2>6 DEF ScanInv
<1> QED
  BY <1>4, <1>5, <1>6, <1>7, <1>8, <1>9, <1>10, <1>12, <1>13, <1>14, <1>15, <1>16, <1>17 DEF BalanceNext

(* What the operator's commands promise, wherever they die and whatever    *)
(* the workers do beside them.  The saved progress of RefreshAllAccount    *)
(* passes no account untried since the last reset that reached Redis, but  *)
(* those the operator skipped with --start-id.  A finished InitTransfer    *)
(* leaves no transfer and no deposit of a payout, up to the table of the   *)
(* finalized watermark it read, without its row, but for those that a      *)
(* failing query or insert of its own made it lose.                        *)
THEOREM CommandsAreComplete == BalanceSpec => []CommandsComplete
<1> DEFINE Inv == BalanceTypes /\ PassInv /\ BackfillInv
<1>1. BalanceInit => Inv
  <2> SUFFICES ASSUME BalanceInit PROVE Inv
    OBVIOUS
  <2> USE DEF BalanceInit
  <2>1. BalanceTypes
    BY BalanceStarts
  <2>2. runner[Command] = AtRest
    BY DEF Procs
  <2>4. PassInv
    BY <2>2, RestOk DEF PassInv, PassCovers
  <2>5. BackfillInv
    BY <2>2 DEF BackfillInv, EventsInOrder, TransferKinds, ScanInv, ToBackfill, NoScan
  <2> QED
    BY <2>1, <2>4, <2>5
<1>2. Inv /\ [BalanceNext]_balanceVars => Inv'
  <2> SUFFICES ASSUME Inv, [BalanceNext]_balanceVars PROVE Inv'
    OBVIOUS
  <2>1. BalanceTypes'
    BY BalanceTypeStep
  <2> QED
    BY <2>1, PassStep, EventOrderStep, CategoryStep, ScanStep DEF BackfillInv
<1>3. Inv => CommandsComplete
  BY DEF PassInv, BackfillInv, TransferKinds, ScanInv, CommandsComplete, BackfillComplete
<1> QED
  BY <1>1, <1>2, <1>3, PTL DEF BalanceSpec
=============================================================================
