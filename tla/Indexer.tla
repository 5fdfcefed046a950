------------------------------ MODULE Indexer ------------------------------
(***************************************************************************)
(* The whole pipeline: the subscribe daemon (Subscriber) and the worker    *)
(* daemon (BlockFill) run side by side over the Redis state they share     *)
(* (SharedRedis).  A step of one leaves the other's own state alone; they  *)
(* meet in the job lists, the limiter keys and the watermarks.             *)
(***************************************************************************)
EXTENDS SharedRedis, Sequences

CONSTANTS MaxHead, MaxNotes, Workers, MaxRequests

VARIABLES
    head, view, notes, connected,
    reader, channel, finalized, chainMeta, lastBlock, fetch, next, sight,
    row, extrinsics, count,
    pc, num, verdict, decoded, fresh, step,
    processed, lost

Sub  == INSTANCE Subscriber
Work == INSTANCE BlockFill

subVars  == <<head, view, notes, connected, reader, channel, finalized,
              chainMeta, lastBlock, fetch, next, sight>>
fillVars == <<row, extrinsics, count, pc, num, verdict, decoded, fresh, step,
              processed, lost>>
vars     == <<redisVars, subVars, fillVars>>

ASSUME ChainAssumption   == /\ MaxHead \in Nat /\ MaxHead >= Sub!FinalizedWaiting
                            /\ MaxNotes \in Nat \ {0}
                            /\ Blocks = 0..(MaxHead - Sub!FinalizedWaiting)
ASSUME WorkersAssumption == IsFiniteSet(Workers)

Init == RedisInit /\ Sub!SubInit /\ Work!FillInit

Daemon(A) == A /\ UNCHANGED fillVars
Worker(A) == A /\ UNCHANGED subVars

Next == Daemon(Sub!SubNext) \/ Worker(Work!FillNext)

Spec == Init /\ [][Next]_vars

-----------------------------------------------------------------------------
(* Properties.                                                             *)

(* The indexer implements the archive: whatever fails, a row appears only  *)
(* for a final block, once, and stays.                                     *)
Archive == INSTANCE ChainArchive
               WITH tip     <- head,
                    archive <- Work!Archived,
                    Lag     <- Sub!FinalizedWaiting

ImplementsArchive == Archive!Spec

(* Wherever the daemon would resume, before or after a restart, no block   *)
(* it has left behind is forgotten: each is stored, or a list or a         *)
(* goroutine holds its job.  Both watermarks may run ahead of blocks that  *)
(* slower goroutines are still filling.                                    *)
PassedBy == {n \in Blocks : n < Sub!Resume(lastBlock, fillFinal)}

NoneLeftBehind ==
    \A n \in PassedBy :
        \/ Work!Stored(n)
        \/ queued[BlockJob(n)] > 0
        \/ \E w \in Workers : Work!Holds(w, n)

(* The extrinsic counter is exact in the whole pipeline, although restarts *)
(* of the daemon make goroutines fill a block twice at the same time: the  *)
(* insert that finds the rows does not count them again.                   *)
CountExact == Work!CountExact

-----------------------------------------------------------------------------
(* Fairness: that of the daemon and of the workers, on their joint state.  *)
Fairness ==
    /\ WF_vars(Daemon(Sub!Connect(head)))
    /\ WF_vars(Daemon(Sub!Announce(head)))
    /\ WF_vars(Daemon(Sub!Parse))
    /\ WF_vars(Daemon(Sub!Send))
    /\ WF_vars(Daemon(Sub!ReadError))
    /\ WF_vars(Daemon(Sub!Wake))
    /\ WF_vars(Daemon(Sub!Start))
    /\ WF_vars(Daemon(Sub!LeaveLoop))
    /\ WF_vars(Daemon(Sub!PublishNext(TRUE)))
    /\ \A w \in Workers : WF_vars(Worker(Work!Succeed(w)))
    /\ \A n \in Blocks, k \in Kinds : WF_vars(Worker(Work!RunPlugin(n, k)))

FairSpec == Spec /\ Fairness

(* A block that is final is archived in the end and the plugins have seen  *)
(* it, unless the fetch goroutine has met a head of 0.                     *)
EventuallyIndexed ==
    \A n \in Blocks :
        Sub!InReach(n, head) ~>
            \/ /\ Work!Stored(n)
               /\ \A k \in Kinds : PluginJob(n, k) \in processed
            \/ fetch = "exited"
=============================================================================
