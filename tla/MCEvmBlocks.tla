---------------------------- MODULE MCEvmBlocks ----------------------------
(* EvmBlocks for TLC: a small chain.  Block 1 creates a contract, block 2  *)
(* calls it and has a transaction with an anonymous log, block 3 is empty. *)
EXTENDS EvmBlocks, TLC

MCTxns    == (1 :> {"t1"}) @@ (2 :> {"t2", "t3"}) @@ (3 :> {})
MCLogsOf  == ("t1" :> <<"upgraded">>) @@ ("t2" :> <<"transfer", "other">>)
             @@ ("t3" :> <<"anonymous">>)
MCFromOf  == [t \in {"t1", "t2", "t3"} |-> "alice"]
MCToOf    == ("t1" :> "token") @@ ("t2" :> "token") @@ ("t3" :> "bob")
MCCreates == {"t1"}

Goroutines == Permutations(BlockWorkers)
=============================================================================
