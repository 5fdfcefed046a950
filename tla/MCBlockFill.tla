---------------------------- MODULE MCBlockFill ----------------------------
(* BlockFill for TLC: interchangeable goroutines.                          *)
EXTENDS BlockFill, TLC

Goroutines == Permutations(Workers)
=============================================================================
