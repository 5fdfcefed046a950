---------------------------- MODULE ChainArchive ----------------------------
(***************************************************************************)
(* What the indexer promises: an archive of the blocks of a growing chain. *)
(* A block enters the archive once, when the chain has finalized the Lag   *)
(* blocks after it, and is never taken away.                               *)
(***************************************************************************)
EXTENDS Naturals

CONSTANTS
    Blocks,    \* the block numbers
    MaxHead,   \* bound: the height of the chain
    Lag        \* finalized blocks between the head and an archived block

VARIABLES
    tip,       \* the finalized head of the chain
    archive    \* the blocks whose row is committed

Init == tip = 0 /\ archive = {}

Finalize ==
    /\ tip < MaxHead
    /\ tip' = tip + 1
    /\ UNCHANGED archive

Store(n) ==
    /\ n + Lag <= tip
    /\ n \notin archive
    /\ archive' = archive \cup {n}
    /\ UNCHANGED tip

Next == Finalize \/ \E n \in Blocks : Store(n)

vars == <<tip, archive>>

Spec == Init /\ [][Next]_vars
=============================================================================
