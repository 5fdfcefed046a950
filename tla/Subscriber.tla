----------------------------- MODULE Subscriber -----------------------------
(***************************************************************************)
(* The subscribe daemon (internal/service/subscribe.go, substrate.go).  A  *)
(* reader goroutine receives the finalized heads of the node, keeps the    *)
(* last one in SubscribeService.finalizedBlockNum and signals it on        *)
(* newFinHead, a channel of capacity one.  A fetch goroutine, started once *)
(* per process, wakes on the channel and publishes a "block" job for every *)
(* block from the last one it published to two below that head.            *)
(*                                                                         *)
(* The state the two goroutines share has no lock: in its loop the fetch   *)
(* goroutine may act on a value of finalizedBlockNum read at any time      *)
(* since it woke (Glance), not only on the present one.                    *)
(***************************************************************************)
EXTENDS SharedRedis, Sequences

CONSTANTS
    MaxHead,    \* bound: the finalized heads of the chain are 0..MaxHead
    MaxNotes    \* bound: notifications in flight on the connection

(* substrate.go: FinalizedWaitingBlockCount                                *)
FinalizedWaiting == 2

ASSUME MaxHeadAssumption  == MaxHead \in Nat /\ MaxHead >= FinalizedWaiting
ASSUME MaxNotesAssumption == MaxNotes \in Nat \ {0}
ASSUME SubBlocksAssumption == Blocks = 0..(MaxHead - FinalizedWaiting)

Heads == 0..MaxHead

VARIABLES
    head,       \* the finalized head of the chain
    view,       \* the last head the node announced on this connection
    notes,      \* announcements the reader has not read
    connected,  \* the websocket delivers
    reader,     \* where the reader goroutine is
    channel,    \* newFinHead: the number of signals it holds, 0 or 1
    finalized,  \* SubscribeService.finalizedBlockNum
    chainMeta,  \* finalized_blockNum in the Redis metadata hash
    lastBlock,  \* SubscribeService.lastBlock
    fetch,      \* where the fetch goroutine is
    next,       \* its loop variable
    sight       \* finalizedBlockNum as the fetch goroutine last saw it

nodeVars == <<head, view, notes, connected>>
procVars == <<reader, channel, finalized, lastBlock, fetch, next, sight>>
subVars  == <<nodeVars, procVars, chainMeta>>

SubTypeOK ==
    /\ head \in Heads
    /\ view \in Heads
    /\ notes \in Seq(Heads) /\ Len(notes) <= MaxNotes
    /\ connected \in BOOLEAN
    /\ reader \in {"dial", "read", "send"}
    /\ channel \in {0, 1}
    /\ finalized \in Heads
    /\ chainMeta \in Heads
    /\ lastBlock \in Blocks
    /\ fetch \in {"wait", "start", "loop", "exited"}
    /\ next \in 0..(MaxHead - FinalizedWaiting + 1)
    /\ sight \in Heads

SubInit ==
    /\ head = 0
    /\ view = 0
    /\ notes = <<>>
    /\ connected = FALSE
    /\ chainMeta = 0
    /\ reader = "dial"
    /\ channel = 0
    /\ finalized = 0
    /\ lastBlock = 0
    /\ fetch = "wait"
    /\ next = 0
    /\ sight = 0

-----------------------------------------------------------------------------
(* The chain and the node.                                                 *)

Finalize ==
    /\ head < MaxHead
    /\ head' = head + 1
    /\ UNCHANGED <<redisVars, view, notes, connected, procVars, chainMeta>>

(* The node announces a newer finalized head; it may skip some.            *)
Announce(h) ==
    /\ connected
    /\ Len(notes) < MaxNotes
    /\ view < h /\ h <= head
    /\ view' = h
    /\ notes' = Append(notes, h)
    /\ UNCHANGED <<redisVars, head, connected, procVars, chainMeta>>

(* The connection breaks: what it had not delivered is gone.               *)
Disconnect ==
    /\ connected
    /\ Fault("disconnect")
    /\ connected' = FALSE
    /\ notes' = <<>>
    /\ UNCHANGED <<queued, limited, fillBest, fillFinal, requests, head, view,
                   procVars, chainMeta>>

-----------------------------------------------------------------------------
(* The reader goroutine.                                                   *)

(* reSubscribeFromChain, retried until the dial and the subscription       *)
(* succeed.  The node first announces the head it has, which on another    *)
(* node may be behind one announced before.                                *)
Connect(h) ==
    /\ reader = "dial"
    /\ h <= head
    /\ connected' = TRUE
    /\ view' = h
    /\ notes' = <<h>>
    /\ reader' = "read"
    /\ UNCHANGED <<redisVars, head, channel, finalized, chainMeta, lastBlock,
                   fetch, next, sight>>

(* parser on chain_finalizedHead, up to the send.                          *)
Parse ==
    /\ reader = "read"
    /\ notes # <<>>
    /\ notes' = Tail(notes)
    /\ chainMeta' = Head(notes)
    /\ finalized' = Head(notes)
    /\ reader' = "send"
    /\ UNCHANGED <<redisVars, head, view, connected, channel, lastBlock,
                   fetch, next, sight>>

(* newFinHead <- true blocks while the channel is full.                    *)
Send ==
    /\ reader = "send"
    /\ channel = 0
    /\ channel' = 1
    /\ reader' = "read"
    /\ UNCHANGED <<redisVars, nodeVars, finalized, chainMeta, lastBlock,
                   fetch, next, sight>>

(* Mutant: the reader keeps the broken connection.                         *)
ReadErrorIgnored ==
    /\ reader = "read"
    /\ ~ connected
    /\ UNCHANGED <<redisVars, subVars>>

ReadError ==
    /\ reader = "read"
    /\ ~ connected
    /\ reader' = "dial"
    /\ UNCHANGED <<redisVars, nodeVars, channel, finalized, chainMeta,
                   lastBlock, fetch, next, sight>>

-----------------------------------------------------------------------------
(* The fetch goroutine: subscribeFetchBlock.                               *)

(* Mutant: the signal stays in the channel.                                *)
WakeKeepsSignal ==
    /\ fetch = "wait"
    /\ channel = 1
    /\ fetch' = "start"
    /\ UNCHANGED <<redisVars, nodeVars, reader, channel, finalized, chainMeta,
                   lastBlock, next, sight>>

Wake ==
    /\ fetch = "wait"
    /\ channel = 1
    /\ channel' = 0
    /\ fetch' = "start"
    /\ UNCHANGED <<redisVars, nodeVars, reader, finalized, chainMeta,
                   lastBlock, next, sight>>

(* Mutant: the watermark's own block is taken as filled.                   *)
ResumeAfterMark(last, mark) == IF last > 0 THEN last + 1 ELSE mark + 1

(* A head of 0 ends the goroutine, which onceFinHead never starts again.   *)
(* The error of GetFillFinalizedBlockNum is ignored: lastNum is then 0.    *)
Resume(last, mark) == IF last > 0 THEN last + 1 ELSE mark

Start ==
    /\ fetch = "start"
    /\ IF finalized = 0
       THEN fetch' = "exited" /\ UNCHANGED <<next, sight, faults>>
       ELSE /\ fetch' = "loop"
            /\ sight' = finalized
            /\ \E mark \in {fillFinal, 0} :
                  ReadMark(fillFinal, mark) /\ next' = Resume(lastBlock, mark)
    /\ UNCHANGED <<queued, limited, fillBest, fillFinal, requests, nodeVars,
                   reader, channel, finalized, chainMeta, lastBlock>>

(* Mutant: one block too near the head.                                    *)
InReachEarly(n, h) == n + FinalizedWaiting <= h + 1

InReach(n, h) == n + FinalizedWaiting <= h

(* The loop reads finalizedBlockNum, which the reader may change.          *)
Glance ==
    /\ fetch = "loop"
    /\ sight' = finalized
    /\ UNCHANGED <<redisVars, nodeVars, reader, channel, finalized, chainMeta,
                   lastBlock, fetch, next>>

(* One turn of the loop: lastBlock moves whatever Publish returns.         *)
PublishNext(accepted) ==
    /\ fetch = "loop"
    /\ InReach(next, sight)
    /\ IF accepted
       THEN Publish(BlockJob(next)) /\ UNCHANGED faults
       ELSE PublishFails(BlockJob(next))
    /\ requests' = [requests EXCEPT ![next] = @ + 1]
    /\ lastBlock' = next
    /\ next' = next + 1
    /\ UNCHANGED <<fillBest, fillFinal, nodeVars, reader, channel, finalized,
                   chainMeta, fetch, sight>>

(* Mutant: signals that came during the loop are thrown away.              *)
LeaveLoopDrains ==
    /\ fetch = "loop"
    /\ ~ InReach(next, sight)
    /\ fetch' = "wait"
    /\ next' = 0
    /\ sight' = 0
    /\ channel' = 0
    /\ UNCHANGED <<redisVars, nodeVars, reader, finalized, chainMeta, lastBlock>>

LeaveLoop ==
    /\ fetch = "loop"
    /\ ~ InReach(next, sight)
    /\ fetch' = "wait"
    /\ next' = 0
    /\ sight' = 0
    /\ UNCHANGED <<redisVars, nodeVars, reader, channel, finalized, chainMeta,
                   lastBlock>>

(* The daemon is stopped and started again: all it knew is in Redis.       *)
Restart ==
    /\ Fault("restart")
    /\ reader' = "dial"
    /\ channel' = 0
    /\ finalized' = 0
    /\ lastBlock' = 0
    /\ fetch' = "wait"
    /\ next' = 0
    /\ sight' = 0
    /\ connected' = FALSE
    /\ notes' = <<>>
    /\ UNCHANGED <<queued, limited, fillBest, fillFinal, requests, head, view,
                   chainMeta>>

-----------------------------------------------------------------------------
SubReader == \/ \E h \in Heads : Connect(h)
             \/ Parse \/ Send \/ ReadError

SubFetch == \/ Wake \/ Start \/ Glance \/ LeaveLoop
            \/ \E b \in BOOLEAN : PublishNext(b)

SubNode == Finalize \/ Disconnect \/ \E h \in Heads : Announce(h)

SubNext == SubReader \/ SubFetch \/ SubNode \/ Restart

(* The workers, as far as the daemon sees them: they take jobs and move    *)
(* the watermark to blocks they filled, backwards too, because two of      *)
(* them may read it before either writes.                                  *)
Fill(n) ==
    /\ Deliver(BlockJob(n))
    /\ fillFinal' \in {fillFinal, n}
    /\ UNCHANGED <<limited, fillBest, faults, requests, subVars>>

SubExpire(j) == Expire(j) /\ UNCHANGED subVars

Init == RedisInit /\ SubInit

Next == \/ SubNext
        \/ \E n \in Blocks : Fill(n) \/ SubExpire(BlockJob(n))

vars == <<redisVars, subVars>>

Spec == Init /\ [][Next]_vars

-----------------------------------------------------------------------------
(* Properties.                                                             *)

TypeOK == RedisTypeOK /\ SubTypeOK

(* The blocks asked for have no hole: neither a restart, which resumes     *)
(* from a watermark other processes move back and forth, nor a             *)
(* reconnection to a node that lags, nor a failing publish skips a block.  *)
NoHole ==
    \A n \in Requested : \A m \in 0..n : m \in Requested

(* A block is asked for only when the chain has finalized the second block *)
(* after it.                                                               *)
OnlyFinal == \A n \in Requested : n + FinalizedWaiting <= head

(* What the daemon asks for is exactly a prefix of the final blocks.       *)
RequestsSound == NoHole /\ OnlyFinal

(* No wake-up is lost, although the reader and the fetch goroutine share   *)
(* finalizedBlockNum without a lock: when the fetch goroutine waits and    *)
(* nothing is on its way to it, every block up to the head the reader last *)
(* stored has been asked for.                                              *)
CaughtUp ==
    finalized # 0 =>
        \A n \in Blocks : InReach(n, finalized) => n \in Requested

NoLostWakeup ==
    fetch = "wait" /\ channel = 0 /\ reader # "send" => CaughtUp

-----------------------------------------------------------------------------
(* Fairness: the node announces the chain's head while it is connected,    *)
(* the reader retries its connection, the goroutines run.                  *)
SubFairness ==
    /\ WF_vars(Connect(head))
    /\ WF_vars(Announce(head))
    /\ WF_vars(Parse)
    /\ WF_vars(Send)
    /\ WF_vars(ReadError)
    /\ WF_vars(Wake)
    /\ WF_vars(Start)
    /\ WF_vars(LeaveLoop)
    /\ WF_vars(PublishNext(TRUE))

FairSpec == Spec /\ SubFairness

(* A block that is final is asked for in the end, unless the fetch         *)
(* goroutine has met a head of 0.                                          *)
EventuallyRequested ==
    \A n \in Blocks : InReach(n, head) ~> (n \in Requested \/ fetch = "exited")

(* "Start a daemon to subscribe to block" (cmd/commands.go): a block that  *)
(* is final is asked for in the end, without exception.  A node that has   *)
(* finalized only its genesis block when the daemon connects breaks this.  *)
FinalRequested ==
    \A n \in Blocks : InReach(n, head) ~> n \in Requested

(* The reader never stays blocked on the channel, unless the fetch         *)
(* goroutine has met a head of 0.                                          *)
ReaderUnblocked == reader = "send" ~> (reader # "send" \/ fetch = "exited")
=============================================================================
