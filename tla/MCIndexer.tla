----------------------------- MODULE MCIndexer -----------------------------
(* Indexer for TLC: interchangeable goroutines.                            *)
EXTENDS Indexer, TLC

Goroutines == Permutations(Workers)
=============================================================================
