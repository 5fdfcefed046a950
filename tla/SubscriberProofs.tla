-------------------------- MODULE SubscriberProofs --------------------------
(***************************************************************************)
(* Proofs about Subscriber, for a chain of any length, any number of       *)
(* notifications in flight and any set of faults.                          *)
(***************************************************************************)
EXTENDS Subscriber, TLAPS

-----------------------------------------------------------------------------
(* The inductive invariant.                                                *)

(* No head the daemon or the connection holds is newer than the chain's.   *)
HeadsBounded ==
    /\ view <= head
    /\ finalized <= head
    /\ sight <= head
    /\ \A i \in 1..Len(notes) : notes[i] <= head

(* Whatever the fetch goroutine may resume from was asked for.             *)
ResumePointsRequested ==
    /\ lastBlock > 0 => lastBlock \in Requested
    /\ fillFinal > 0 => fillFinal \in Requested
    /\ \A n \in Blocks : queued[BlockJob(n)] > 0 => n \in Requested

(* In its loop the fetch goroutine has left nothing behind, and if nothing *)
(* is on its way to it, it has seen the head the reader last stored.       *)
LoopInv ==
    fetch = "loop" =>
      /\ \A m \in Blocks : m < next => m \in Requested
      /\ channel = 0 /\ reader # "send" => sight = finalized

IInv ==
    /\ TypeOK
    /\ HeadsBounded
    /\ NoHole
    /\ OnlyFinal
    /\ ResumePointsRequested
    /\ LoopInv
    /\ NoLostWakeup

-----------------------------------------------------------------------------
(* The block jobs are jobs of their own.                                   *)
LEMMA BlockJobs ==
    /\ \A n \in Blocks : BlockJob(n) \in Jobs
    /\ \A n, m \in Blocks : BlockJob(n) = BlockJob(m) => n = m
  BY NumEmitsAssumption DEF BlockJob, Jobs

(* A failure stays within the budget.                                      *)
LEMMA FaultTypes ==
    ASSUME RedisTypeOK, NEW f, Fault(f) PROVE faults' \in 0..MaxFaults
  BY MaxFaultsAssumption DEF RedisTypeOK, Fault

(* The bounds of the heads and of the blocks.                              *)
LEMMA Bounds ==
    /\ MaxHead \in Nat /\ MaxHead >= 2 /\ MaxNotes \in Nat
    /\ Heads = 0..MaxHead
    /\ Blocks = 0..(MaxHead - 2)
    /\ FinalizedWaiting = 2
  BY MaxHeadAssumption, MaxNotesAssumption, SubBlocksAssumption
     DEF Heads, FinalizedWaiting

(* What a turn of the loop does to the lists and the history.              *)
LEMMA PublishTypes ==
    ASSUME TypeOK, NEW b \in BOOLEAN, PublishNext(b)
    PROVE  /\ next \in Blocks
           /\ queued' \in [Jobs -> Nat] /\ limited' \subseteq Jobs
           /\ faults' \in 0..MaxFaults
           /\ requests' \in [Blocks -> Nat]
           /\ Requested' = Requested \cup {next}
           /\ \A n \in Blocks \ {next} :
                 queued'[BlockJob(n)] = queued[BlockJob(n)]
<1>1. next \in Blocks
  BY Bounds DEF PublishNext, InReach, TypeOK, SubTypeOK
<1>2. BlockJob(next) \in Jobs
  BY <1>1, BlockJobs
<1>3. /\ queued' \in [Jobs -> Nat] /\ limited' \subseteq Jobs
      /\ faults' \in 0..MaxFaults
  BY <1>2, FaultTypes DEF PublishNext, Publish, PublishFails, Enqueue, TypeOK,
     RedisTypeOK
<1>4. requests' \in [Blocks -> Nat]
  BY <1>1 DEF PublishNext, TypeOK, RedisTypeOK
<1>5. Requested' = Requested \cup {next}
  BY <1>1 DEF PublishNext, Requested, TypeOK, RedisTypeOK
<1>6. ASSUME NEW n \in Blocks \ {next}
      PROVE  queued'[BlockJob(n)] = queued[BlockJob(n)]
  BY <1>1, <1>2, BlockJobs DEF PublishNext, Publish, PublishFails, Enqueue,
     TypeOK, RedisTypeOK
<1> QED
  BY <1>1, <1>3, <1>4, <1>5, <1>6

(* Every reachable state of the daemon is well typed.                      *)
LEMMA TypeStep == TypeOK /\ [Next]_vars => TypeOK'
<1> SUFFICES ASSUME TypeOK, [Next]_vars PROVE TypeOK'
  OBVIOUS
<1>a. RedisTypeOK
  BY DEF TypeOK
<1> USE Bounds
<1>1. ASSUME NEW h \in Heads, Connect(h) PROVE TypeOK'
  <2>1. notes' \in Seq(Heads) /\ Len(notes') <= MaxNotes
    BY <1>1, MaxNotesAssumption DEF Connect
  <2> QED
    BY <1>1, <2>1 DEF TypeOK, RedisTypeOK, SubTypeOK, Connect, redisVars
<1>2. CASE Parse
  <2>1. /\ Head(notes) \in Heads /\ notes' \in Seq(Heads)
        /\ Len(notes') <= MaxNotes
    BY <1>2 DEF Parse, TypeOK, SubTypeOK
  <2> QED
    BY <1>2, <2>1 DEF TypeOK, RedisTypeOK, SubTypeOK, Parse, redisVars
<1>3. CASE Send
  BY <1>3 DEF TypeOK, RedisTypeOK, SubTypeOK, Send, redisVars, nodeVars
<1>4. CASE ReadError
  BY <1>4 DEF TypeOK, RedisTypeOK, SubTypeOK, ReadError, redisVars, nodeVars
<1>5. CASE Wake
  BY <1>5 DEF TypeOK, RedisTypeOK, SubTypeOK, Wake, redisVars, nodeVars
<1>6. CASE Start
  <2>1. faults' \in 0..MaxFaults
    BY <1>6, <1>a, FaultTypes DEF Start, ReadMark, RedisTypeOK
  <2>2. /\ next' \in 0..(MaxHead - FinalizedWaiting + 1) /\ sight' \in Heads
        /\ fetch' \in {"wait", "start", "loop", "exited"}
    BY SMTT(60), <1>6 DEF Start, Resume, TypeOK, RedisTypeOK, SubTypeOK
  <2> QED
    BY <1>6, <2>1, <2>2 DEF TypeOK, RedisTypeOK, SubTypeOK, Start, nodeVars
<1>7. CASE Glance
  BY <1>7 DEF TypeOK, RedisTypeOK, SubTypeOK, Glance, redisVars, nodeVars
<1>8. CASE LeaveLoop
  BY <1>8 DEF TypeOK, RedisTypeOK, SubTypeOK, LeaveLoop, redisVars, nodeVars
<1>9. ASSUME NEW b \in BOOLEAN, PublishNext(b) PROVE TypeOK'
  <2>1. RedisTypeOK'
    BY <1>9, PublishTypes DEF TypeOK, RedisTypeOK, PublishNext
  <2>2. SubTypeOK'
    BY <1>9, PublishTypes DEF TypeOK, SubTypeOK, PublishNext, nodeVars
  <2> QED
    BY <2>1, <2>2 DEF TypeOK
<1>10. CASE Finalize
  BY <1>10 DEF TypeOK, RedisTypeOK, SubTypeOK, Finalize, redisVars, procVars
<1>11. CASE Disconnect
  <2>1. faults' \in 0..MaxFaults
    BY <1>11, <1>a, FaultTypes DEF Disconnect
  <2>2. notes' \in Seq(Heads) /\ Len(notes') <= MaxNotes
    BY <1>11 DEF Disconnect
  <2> QED
    BY <1>11, <2>1, <2>2 DEF TypeOK, RedisTypeOK, SubTypeOK, Disconnect,
       procVars
<1>12. ASSUME NEW h \in Heads, Announce(h) PROVE TypeOK'
  <2>1. notes' \in Seq(Heads) /\ Len(notes') <= MaxNotes
    BY <1>12 DEF Announce, TypeOK, SubTypeOK
  <2> QED
    BY <1>12, <2>1 DEF TypeOK, RedisTypeOK, SubTypeOK, Announce, redisVars,
       procVars
<1>13. CASE Restart
  <2>1. faults' \in 0..MaxFaults
    BY <1>13, <1>a, FaultTypes DEF Restart
  <2>2. notes' \in Seq(Heads) /\ Len(notes') <= MaxNotes
    BY <1>13 DEF Restart
  <2>3. RedisTypeOK'
    BY <1>13, <2>1 DEF TypeOK, RedisTypeOK, Restart
  <2>4. 0 \in Blocks /\ 0 \in Heads
    OBVIOUS
  <2>5. head' \in Heads /\ view' \in Heads /\ chainMeta' \in Heads
    BY <1>13 DEF TypeOK, SubTypeOK, Restart
  <2>6. /\ lastBlock' \in Blocks /\ finalized' \in Heads /\ sight' \in Heads
        /\ next' \in 0..(MaxHead - FinalizedWaiting + 1)
    BY <1>13, <2>4 DEF Restart
  <2>7. /\ connected' \in BOOLEAN /\ reader' \in {"dial", "read", "send"}
        /\ channel' \in {0, 1} /\ fetch' \in {"wait", "start", "loop", "exited"}
    BY <1>13 DEF Restart
  <2>8. SubTypeOK'
    BY <2>2, <2>5, <2>6, <2>7 DEF SubTypeOK
  <2> QED
    BY <2>3, <2>8 DEF TypeOK
<1>14. ASSUME NEW n \in Blocks, Fill(n) PROVE TypeOK'
  <2>1. queued' \in [Jobs -> Nat]
    BY <1>14, BlockJobs DEF Fill, Deliver, TypeOK, RedisTypeOK
  <2> QED
    BY <1>14, <2>1 DEF TypeOK, RedisTypeOK, SubTypeOK, Fill, subVars, nodeVars,
       procVars
<1>15. ASSUME NEW n \in Blocks, SubExpire(BlockJob(n)) PROVE TypeOK'
  BY <1>15 DEF TypeOK, RedisTypeOK, SubTypeOK, SubExpire, Expire, subVars,
     nodeVars, procVars
<1>16. CASE UNCHANGED vars
  BY <1>16 DEF TypeOK, RedisTypeOK, SubTypeOK, vars, redisVars, subVars,
     nodeVars, procVars
<1> QED
  BY <1>1, <1>2, <1>3, <1>4, <1>5, <1>6, <1>7, <1>8, <1>9, <1>10, <1>11, <1>12,
     <1>13, <1>14, <1>15, <1>16
     DEF Next, SubNext, SubReader, SubFetch, SubNode

-----------------------------------------------------------------------------
(* A step that changes neither the watermark, the jobs, the requests nor   *)
(* the resume points keeps what was requested.                             *)
LEMMA SameRequests ==
    ASSUME UNCHANGED requests
    PROVE  Requested' = Requested /\ (NoHole => NoHole')
  BY DEF Requested, NoHole

(* No head overtakes the chain.                                            *)
LEMMA HeadsStep == TypeOK /\ HeadsBounded /\ [Next]_vars => HeadsBounded'
<1> SUFFICES ASSUME TypeOK, HeadsBounded, [Next]_vars PROVE HeadsBounded'
  OBVIOUS
<1> USE Bounds
<1>1. ASSUME NEW h \in Heads, Connect(h) PROVE HeadsBounded'
  BY <1>1 DEF HeadsBounded, Connect
<1>2. CASE Parse
  <2>1. /\ Head(notes) = notes[1] /\ Len(notes) \in Nat \ {0}
        /\ Len(notes') = Len(notes) - 1
        /\ \A i \in 1..Len(notes') : notes'[i] = notes[i + 1]
    BY <1>2 DEF Parse, TypeOK, SubTypeOK
  <2> QED
    BY <1>2, <2>1 DEF HeadsBounded, Parse
<1>3. CASE Send \/ ReadError \/ Wake \/ \E b \in BOOLEAN : PublishNext(b)
  BY <1>3 DEF HeadsBounded, Send, ReadError, Wake, PublishNext, nodeVars
<1>4. CASE Start \/ Glance \/ LeaveLoop
  BY SMTT(60), <1>4 DEF HeadsBounded, Start, Glance, LeaveLoop, nodeVars, TypeOK,
     SubTypeOK
<1>5. CASE Finalize
  BY <1>5 DEF HeadsBounded, Finalize, procVars, TypeOK, SubTypeOK
<1>6. CASE Disconnect \/ Restart
  BY <1>6 DEF HeadsBounded, Disconnect, Restart, procVars, TypeOK, SubTypeOK
<1>7. ASSUME NEW h \in Heads, Announce(h) PROVE HeadsBounded'
  <2>1. /\ Len(notes') = Len(notes) + 1 /\ notes'[Len(notes')] = h
        /\ \A i \in 1..Len(notes) : notes'[i] = notes[i]
    BY <1>7 DEF Announce, TypeOK, SubTypeOK
  <2>2. Len(notes) \in Nat
    BY DEF TypeOK, SubTypeOK
  <2> QED
    BY <1>7, <2>1, <2>2 DEF HeadsBounded, Announce, procVars
<1>8. ASSUME NEW n \in Blocks, Fill(n) \/ SubExpire(BlockJob(n))
      PROVE  HeadsBounded'
  BY <1>8 DEF HeadsBounded, Fill, SubExpire, subVars, nodeVars, procVars
<1>9. CASE UNCHANGED vars
  BY <1>9 DEF HeadsBounded, vars, subVars, nodeVars, procVars
<1> QED
  BY <1>1, <1>2, <1>3, <1>4, <1>5, <1>6, <1>7, <1>8, <1>9
     DEF Next, SubNext, SubReader, SubFetch, SubNode

(* Only a turn of the loop asks for a block: the next one, in reach.       *)
LEMMA OnlyTheLoopRequests ==
    ASSUME [Next]_vars
    PROVE  (\E b \in BOOLEAN : PublishNext(b)) \/ UNCHANGED requests
  BY DEF Next, SubNext, SubReader, SubFetch, SubNode, Connect, Parse, Send,
     ReadError, Wake, Start, Glance, LeaveLoop, Finalize, Disconnect, Announce,
     Restart, Fill, SubExpire, Expire, redisVars, vars

(* The head of the chain never goes back.                                  *)
LEMMA HeadGrows == TypeOK /\ [Next]_vars => head' >= head
  BY Bounds DEF TypeOK, SubTypeOK, Next, SubNext, SubReader, SubFetch, SubNode,
     Connect, Parse, Send, ReadError, Wake, Start, Glance, LeaveLoop, Finalize,
     Disconnect, Announce, Restart, PublishNext, Fill, SubExpire, redisVars,
     vars, subVars, nodeVars

(* The blocks asked for stay final and without a hole.                     *)
LEMMA RequestedStep ==
    IInv /\ [Next]_vars => NoHole' /\ OnlyFinal'
<1> SUFFICES ASSUME IInv, [Next]_vars PROVE NoHole' /\ OnlyFinal'
  OBVIOUS
<1> USE Bounds
<1>a. TypeOK /\ Requested \subseteq Blocks
  BY DEF IInv, Requested
<1>b. head \in Nat /\ head' >= head /\ head' \in Nat
  BY <1>a, HeadGrows, TypeStep DEF TypeOK, SubTypeOK
<1>1. ASSUME NEW b \in BOOLEAN, PublishNext(b) PROVE NoHole' /\ OnlyFinal'
  <2>1. Requested' = Requested \cup {next} /\ next \in Blocks
    BY <1>1, <1>a, PublishTypes
  <2>2. next + 2 <= head
    BY <1>1, <1>a DEF PublishNext, InReach, IInv, HeadsBounded, TypeOK, SubTypeOK
  <2>3. ASSUME NEW m \in 0..next PROVE m \in Requested'
    BY <1>1, <2>1 DEF IInv, LoopInv, PublishNext
  <2>4. ASSUME NEW n \in Requested, NEW m \in 0..n PROVE m \in Requested'
    BY <2>1 DEF IInv, NoHole
  <2>5. NoHole'
    BY <2>1, <2>3, <2>4 DEF NoHole
  <2>6. OnlyFinal'
    BY <1>a, <1>b, <2>1, <2>2 DEF OnlyFinal, IInv
  <2> QED
    BY <2>5, <2>6
<1>2. CASE UNCHANGED requests
  <2>1. NoHole'
    BY <1>2, SameRequests DEF IInv
  <2>2. ASSUME NEW n \in Requested' PROVE n + FinalizedWaiting <= head'
    <3>a. n \in Requested
      BY <1>2, <2>2, SameRequests
    <3>1. n \in Requested /\ n \in Nat
      BY <1>a, <3>a
    <3>2. n + FinalizedWaiting <= head
      BY <3>1 DEF IInv, OnlyFinal
    <3> QED
      BY <1>b, <3>1, <3>2
  <2>3. OnlyFinal'
    BY <2>2 DEF OnlyFinal
  <2> QED
    BY <2>1, <2>3
<1> QED
  BY <1>1, <1>2, OnlyTheLoopRequests

(* The points the fetch goroutine may resume from stay requested.          *)
LEMMA ResumeStep == IInv /\ [Next]_vars => ResumePointsRequested'
<1> SUFFICES ASSUME IInv, [Next]_vars PROVE ResumePointsRequested'
  OBVIOUS
<1> USE Bounds
<1>a. TypeOK
  BY DEF IInv
<1>1. ASSUME NEW b \in BOOLEAN, PublishNext(b) PROVE ResumePointsRequested'
  <2>1. /\ Requested' = Requested \cup {next} /\ next \in Blocks
        /\ \A n \in Blocks \ {next} :
              queued'[BlockJob(n)] = queued[BlockJob(n)]
    BY <1>1, <1>a, PublishTypes
  <2> QED
    BY <1>1, <2>1 DEF PublishNext, IInv, ResumePointsRequested
<1>2. ASSUME NEW n \in Blocks, Fill(n) PROVE ResumePointsRequested'
  <2>1. Requested' = Requested /\ lastBlock' = lastBlock
    BY <1>2 DEF Fill, Requested, subVars, procVars
  <2>2. n \in Requested
    BY <1>2 DEF Fill, Deliver, IInv, ResumePointsRequested
  <2>3. ASSUME NEW m \in Blocks PROVE queued'[BlockJob(m)] <= queued[BlockJob(m)]
    BY SMTT(60), <1>2, <1>a, BlockJobs DEF Fill, Deliver, TypeOK, RedisTypeOK
  <2>4. ASSUME NEW m \in Blocks PROVE /\ queued[BlockJob(m)] \in Nat
                                     /\ queued'[BlockJob(m)] \in Nat
    BY <1>a, BlockJobs, TypeStep DEF TypeOK, RedisTypeOK
  <2>5. fillFinal' > 0 => fillFinal' \in Requested'
    BY <1>2, <2>1, <2>2 DEF Fill, IInv, ResumePointsRequested
  <2>6. lastBlock' > 0 => lastBlock' \in Requested'
    BY <2>1 DEF IInv, ResumePointsRequested
  <2>7. ASSUME NEW m \in Blocks, queued'[BlockJob(m)] > 0 PROVE m \in Requested'
    <3>1. queued[BlockJob(m)] > 0
      BY <2>3, <2>4, <2>7
    <3> QED
      BY <2>1, <3>1 DEF IInv, ResumePointsRequested
  <2> QED
    BY <2>5, <2>6, <2>7 DEF ResumePointsRequested
<1>3. CASE Restart
  BY <1>3 DEF Restart, IInv, ResumePointsRequested, Requested
<1>4. ASSUME UNCHANGED <<requests, queued, fillFinal, lastBlock>>
      PROVE  ResumePointsRequested'
  BY <1>4, SameRequests DEF IInv, ResumePointsRequested
<1>5. \/ \E b \in BOOLEAN : PublishNext(b)
      \/ \E n \in Blocks : Fill(n)
      \/ Restart
      \/ UNCHANGED <<requests, queued, fillFinal, lastBlock>>
  BY DEF Next, SubNext, SubReader, SubFetch, SubNode, Connect, Parse, Send,
     ReadError, Wake, Start, Glance, LeaveLoop, Finalize, Disconnect, Announce,
     SubExpire, Expire, redisVars, vars, subVars, nodeVars, procVars
<1> QED
  BY <1>1, <1>2, <1>3, <1>4, <1>5

(* What the fetch goroutine knows in its loop stays true.                  *)
LEMMA LoopStep == IInv /\ [Next]_vars => LoopInv'
<1> SUFFICES ASSUME IInv, [Next]_vars PROVE LoopInv'
  OBVIOUS
<1> USE Bounds
<1>a. TypeOK /\ LoopInv
  BY DEF IInv
<1>1. ASSUME NEW b \in BOOLEAN, PublishNext(b) PROVE LoopInv'
  <2>1. Requested' = Requested \cup {next} /\ next \in Blocks
    BY <1>1, <1>a, PublishTypes
  <2> QED
    BY <1>1, <1>a, <2>1 DEF PublishNext, LoopInv, nodeVars
<1>2. CASE Start
  <2>1. ASSUME fetch' = "loop", NEW m \in Blocks, m < next' PROVE m \in Requested'
    <3>1. Requested' = Requested
      BY <1>2 DEF Start, Requested
    <3>2. PICK mark \in {fillFinal, 0} : next' = Resume(lastBlock, mark)
      BY <1>2, <2>1 DEF Start
    <3>3. CASE lastBlock > 0
      <4>1. lastBlock \in Requested /\ lastBlock \in Blocks /\ m \in 0..lastBlock
        BY <1>a, <2>1, <3>2, <3>3 DEF Resume, IInv, ResumePointsRequested, TypeOK,
           SubTypeOK
      <4> QED
        BY <3>1, <4>1 DEF IInv, NoHole
    <3>4. CASE ~ (lastBlock > 0)
      <4>1. /\ fillFinal \in Requested /\ fillFinal \in Blocks
            /\ m \in 0..fillFinal
        BY <1>a, <2>1, <3>2, <3>4 DEF Resume, IInv, ResumePointsRequested, TypeOK,
           RedisTypeOK
      <4> QED
        BY <3>1, <4>1 DEF IInv, NoHole
    <3> QED
      BY <3>3, <3>4
  <2>2. fetch' = "loop" => sight' = finalized'
    BY <1>2 DEF Start
  <2> QED
    BY <2>1, <2>2 DEF LoopInv
<1>3. CASE ~ Start /\ ~ \E b \in BOOLEAN : PublishNext(b)
  <2>1. Requested' = Requested
    BY <1>3, OnlyTheLoopRequests, SameRequests
  <2>2. fetch' = "loop" => fetch = "loop" /\ next' = next
    BY <1>3 DEF Next, SubNext, SubReader, SubFetch, SubNode,
       Connect, Parse, Send, ReadError, Wake, Glance, LeaveLoop, Finalize,
       Disconnect, Announce, Restart, Fill, SubExpire, vars, subVars, nodeVars,
       procVars
  <2>3. fetch' = "loop" /\ channel' = 0 /\ reader' # "send" => sight' = finalized'
    BY <1>3, <1>a DEF LoopInv, Next, SubNext, SubReader, SubFetch, SubNode,
       Connect, Parse, Send, ReadError, Wake, Glance, LeaveLoop, Finalize,
       Disconnect, Announce, Restart, Fill, SubExpire, vars, subVars, nodeVars,
       procVars
  <2> QED
    BY <1>a, <2>1, <2>2, <2>3 DEF LoopInv
<1> QED
  BY <1>1, <1>2, <1>3

(* No wake-up is lost: what is in reach when the loop ends was asked for,  *)
(* and a head stored meanwhile comes with a signal.                        *)
LEMMA WakeupStep == IInv /\ [Next]_vars => NoLostWakeup'
<1> SUFFICES ASSUME IInv, [Next]_vars PROVE NoLostWakeup'
  OBVIOUS
<1> USE Bounds
<1>a. TypeOK /\ LoopInv /\ NoLostWakeup
  BY DEF IInv
<1>1. ASSUME NEW b \in BOOLEAN, PublishNext(b) PROVE NoLostWakeup'
  BY <1>1 DEF PublishNext, NoLostWakeup, nodeVars
<1>2. CASE LeaveLoop
  <2>1. UNCHANGED <<requests, finalized, channel, reader>>
    BY <1>2 DEF LeaveLoop, redisVars
  <2>2. ASSUME channel = 0, reader # "send", NEW n \in Blocks, InReach(n, finalized)
        PROVE  n \in Requested
    <3>1. sight = finalized
      BY <1>2, <1>a, <2>2 DEF LeaveLoop, LoopInv
    <3>2. n < next
      BY <1>2, <1>a, <2>2, <3>1 DEF LeaveLoop, InReach, TypeOK, SubTypeOK
    <3> QED
      BY <1>2, <1>a, <3>2 DEF LeaveLoop, LoopInv
  <2> QED
    BY <2>1, <2>2 DEF NoLostWakeup, CaughtUp, InReach, Requested
<1>3. CASE Restart
  BY <1>3 DEF Restart, NoLostWakeup, CaughtUp
<1>4. CASE ~ LeaveLoop /\ ~ Restart /\ ~ \E b \in BOOLEAN : PublishNext(b)
  <2>1. Requested' = Requested
    BY <1>4, OnlyTheLoopRequests, SameRequests
  <2>2. fetch' = "wait" /\ channel' = 0 /\ reader' # "send"
          => /\ fetch = "wait" /\ channel = 0 /\ reader # "send"
             /\ finalized' = finalized
    BY <1>4, <1>a DEF TypeOK, SubTypeOK, Next, SubNext, SubReader, SubFetch,
       SubNode, Connect, Parse, Send, ReadError, Wake, Start, Glance, Finalize,
       Disconnect, Announce, Fill, SubExpire, vars, subVars, nodeVars, procVars
  <2> QED
    BY <1>a, <2>1, <2>2 DEF NoLostWakeup, CaughtUp, InReach
<1> QED
  BY <1>1, <1>2, <1>3, <1>4

-----------------------------------------------------------------------------
LEMMA InvInit == Init => IInv
<1> SUFFICES ASSUME Init PROVE IInv
  OBVIOUS
<1> USE Bounds
<1>1. RedisTypeOK
  BY BlocksAssumption, MaxFaultsAssumption DEF Init, RedisInit, RedisTypeOK
<1>2. <<>> \in Seq(Heads) /\ Len(<<>>) = 0 /\ 0 \in Blocks
  OBVIOUS
<1>3. SubTypeOK
  <2>1. 0 \in Heads /\ 0 \in 0..(MaxHead - FinalizedWaiting + 1)
    OBVIOUS
  <2>2. notes \in Seq(Heads) /\ Len(notes) <= MaxNotes
    BY <1>2 DEF Init, SubInit
  <2>3. /\ head \in Heads /\ view \in Heads /\ finalized \in Heads
        /\ chainMeta \in Heads /\ sight \in Heads /\ lastBlock \in Blocks
        /\ next \in 0..(MaxHead - FinalizedWaiting + 1)
    BY <1>2, <2>1 DEF Init, SubInit
  <2>4. /\ connected \in BOOLEAN /\ reader \in {"dial", "read", "send"}
        /\ channel \in {0, 1} /\ fetch \in {"wait", "start", "loop", "exited"}
    BY DEF Init, SubInit
  <2> QED
    BY <2>2, <2>3, <2>4 DEF SubTypeOK
<1>4. Requested = {}
  BY DEF Init, RedisInit, Requested
<1>5. HeadsBounded
  BY <1>2 DEF Init, SubInit, HeadsBounded
<1>6. ResumePointsRequested
  BY BlockJobs DEF Init, RedisInit, SubInit, ResumePointsRequested
<1> QED
  BY <1>1, <1>3, <1>4, <1>5, <1>6 DEF Init, SubInit, IInv, TypeOK, NoHole,
     OnlyFinal, LoopInv, NoLostWakeup, CaughtUp

LEMMA InvStep == IInv /\ [Next]_vars => IInv'
  BY TypeStep, HeadsStep, RequestedStep, ResumeStep, LoopStep, WakeupStep DEF IInv

LEMMA InvAlways == Spec => []IInv
  BY InvInit, InvStep, PTL DEF Spec

(* Every reachable state of the subscribe daemon is well typed; newFinHead *)
(* in particular never holds more than the one signal it has room for.     *)
THEOREM TypeCorrect == Spec => []TypeOK
<1>1. IInv => TypeOK
  BY DEF IInv
<1> QED
  BY <1>1, InvAlways, PTL

(* No restart, lagging node or failing publish makes the daemon skip a     *)
(* block: the loop resumes from lastBlock or from a watermark a worker     *)
(* wrote, both of which were asked for.                                    *)
THEOREM RequestsHaveNoHole == Spec => []NoHole
<1>1. IInv => NoHole
  BY DEF IInv
<1> QED
  BY <1>1, InvAlways, PTL

(* The daemon never asks for a block the chain may still replace, although *)
(* it compares against a head that may be stale or change under it.        *)
THEOREM OnlyFinalBlocksRequested == Spec => []OnlyFinal
<1>1. IInv => OnlyFinal
  BY DEF IInv
<1> QED
  BY <1>1, InvAlways, PTL

(* Both: the requests are the final blocks up to some number.              *)
THEOREM RequestsAreSound == Spec => []RequestsSound
<1>1. NoHole /\ OnlyFinal => RequestsSound
  BY DEF RequestsSound
<1> QED
  BY <1>1, RequestsHaveNoHole, OnlyFinalBlocksRequested, PTL

(* The reader stores the head before it signals, and the fetch goroutine   *)
(* takes the signal before it reads the head: no order of the two loses a  *)
(* wake-up.                                                                *)
THEOREM WakeupsAreNotLost == Spec => []NoLostWakeup
<1>1. IInv => NoLostWakeup
  BY DEF IInv
<1> QED
  BY <1>1, InvAlways, PTL
=============================================================================
