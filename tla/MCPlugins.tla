----------------------------- MODULE MCPlugins -----------------------------
(* The parts that write, for TLC: the plugins (EvmBlocks on the chain of    *)
(* MCEvmBlocks, EvmTokens, EvmContracts, Balance), the fees of the block    *)
(* worker (Extrinsics) and the completeness command.  They share no state,  *)
(* so a behaviour is one of one part.                                       *)
EXTENDS MCEvmBlocks, EvmTokens, EvmContracts, Balance, Completeness, Extrinsics

VARIABLE part

evmVars == <<evmBlockVars, evmTokenVars, contractVars>>
vars    == <<part, evmVars, balanceVars, checkVars, feeVars>>

-----------------------------------------------------------------------------
\* A coin that is minted and paid on, a collectible that is minted and given
\* away, and one that is minted and burnt.
Move(t, a, b, id) == [token |-> t, from |-> a, to |-> b, id |-> id]
MCChains == {<<Move("coin", "null", "ann", 0), Move("coin", "ann", "bob", 0)>>,
             <<Move("nft", "null", "ann", 1), Move("nft", "ann", "bob", 1)>>,
             <<Move("nft", "null", "ann", 1), Move("nft", "ann", "null", 1)>>}
MCIsNft  == [t \in {"coin", "nft"} |-> t = "nft"]

\* An account before and after locks, vesting and a freeze.
Data(n, free, reserved, misc, fee, frozen, locks, vesting) ==
    [nonce |-> n, free |-> free, reserved |-> reserved, misc |-> misc, fee |-> fee,
     frozen |-> frozen, locks |-> locks, vesting |-> vesting]
MCChainData ==
    <<Data(0, 5, 1, 0, 0, 0, {}, {}),
      Data(1, 4, 2, 1, 2, 0, {3, 1}, {[start |-> 1, perBlock |-> 2, locked |-> 3]}),
      Data(2, 7, 0, 0, 0, 4, {3}, {}), Data(3, 7, 0, 0, 0, 4, {}, {})>>

\* Blocks of two extrinsics, with every kind of event or none.
EventLists ==
    {<<>>} \cup {<<Dispatched(k, w)>> : k \in {"ExtrinsicSuccess", "ExtrinsicFailed"}, w \in {3, 5, 6}}
    \cup {<<TransactionFeePaid(f, t), Dispatched("ExtrinsicSuccess", 3)>> : f \in {1, 7}, t \in {0, 1}}
MCFeeBlocks ==
    {<<[signed |-> TRUE, events |-> e], [signed |-> s, events |-> f]>> :
        e \in EventLists, f \in EventLists, s \in BOOLEAN}

\* The goroutines of every part are taken from one set; the accounts of the
\* balance plugin are alike too.
Interchangeable ==
    Permutations(BlockWorkers \cup TokenWorkers \cup BalanceWorkers)
    \cup Permutations(Accounts)

-----------------------------------------------------------------------------
Init ==
    /\ part \in {"blocks", "tokens", "contracts", "balance", "check", "fees"}
    /\ EvmBlocksInit
    /\ part # "blocks" => setting = "refresh" /\ \A b \in Blocks : queue[b] = 0
    /\ EvmTokensInit
    /\ part # "tokens" => chain[2].token = "coin"
    /\ ContractsInit /\ CompletenessInit
    /\ BalanceInit
    /\ part # "balance" => operator = "none"
    /\ FeesInit
    /\ part # "fees" => feeBlock = CHOOSE b \in FeeBlocks : TRUE

Next ==
    \/ part = "blocks" /\ EvmBlocksNext
       /\ UNCHANGED <<part, evmTokenVars, contractVars, balanceVars, checkVars, feeVars>>
    \/ part = "tokens" /\ EvmTokensNext
       /\ UNCHANGED <<part, evmBlockVars, contractVars, balanceVars, checkVars, feeVars>>
    \/ part = "contracts" /\ ContractsNext
       /\ UNCHANGED <<part, evmBlockVars, evmTokenVars, balanceVars, checkVars, feeVars>>
    \/ part = "balance" /\ BalanceNext
       /\ UNCHANGED <<part, evmVars, checkVars, feeVars>>
    \/ part = "check" /\ CompletenessNext
       /\ UNCHANGED <<part, evmVars, balanceVars, feeVars>>
    \/ part = "fees" /\ FeesNext
       /\ UNCHANGED <<part, evmVars, balanceVars, checkVars>>

Spec == Init /\ [][Next]_vars
=============================================================================
