--------------------------- MODULE IndexerProofs ---------------------------
(***************************************************************************)
(* Proofs about the whole pipeline, for a chain of any length, any finite  *)
(* set of goroutines and any number of plugin jobs per block.              *)
(***************************************************************************)
EXTENDS Indexer, FiniteSetTheorems, TLAPS

-----------------------------------------------------------------------------
(* The part of the types the arguments below need.                         *)
RedisTypes ==
    /\ queued \in [Jobs -> Nat]
    /\ limited \subseteq Jobs
    /\ fillFinal \in Blocks \cup {0}
    /\ requests \in [Blocks -> Nat]

DaemonTypes ==
    /\ head \in 0..MaxHead
    /\ notes \in Seq(0..MaxHead)
    /\ finalized \in 0..MaxHead
    /\ sight \in 0..MaxHead
    /\ lastBlock \in Blocks
    /\ fetch \in {"wait", "start", "loop", "exited"}
    /\ next \in Nat

WorkerTypes ==
    /\ row \in [Blocks -> Work!RowStates]
    /\ pc \in [Workers -> Work!Steps]
    /\ num \in [Workers -> Blocks \cup {0}]
    /\ \A w \in Workers : pc[w] # "idle" => num[w] \in Blocks
    /\ verdict \in [Workers -> Work!RowStates \ {"absent"}]

Types == RedisTypes /\ DaemonTypes /\ WorkerTypes

-----------------------------------------------------------------------------
(* The bounds of the chain, and the jobs.                                  *)
LEMMA Bounds ==
    /\ MaxHead \in Nat /\ MaxHead >= 2
    /\ Blocks = 0..(MaxHead - 2)
    /\ Blocks \subseteq Nat /\ 0 \in Blocks
    /\ Sub!FinalizedWaiting = 2
    /\ Sub!Heads = 0..MaxHead
  BY ChainAssumption DEF Sub!FinalizedWaiting, Sub!Heads

LEMMA JobTypes ==
    /\ \A n \in Blocks : BlockJob(n) \in Jobs
    /\ \A n \in Blocks, k \in Kinds : PluginJob(n, k) \in Jobs
    /\ \A n, m \in Blocks, k \in Kinds : BlockJob(n) # PluginJob(m, k)
    /\ \A n, m \in Blocks : BlockJob(n) = BlockJob(m) => n = m
  BY NumEmitsAssumption DEF BlockJob, PluginJob, Jobs, Kinds

(* The instances see the lists and the limiter keys as SharedRedis does.   *)
LEMMA SharedOperators ==
    /\ Sub!Requested = Requested /\ Work!Kinds = Kinds /\ Work!Jobs = Jobs
    /\ \A n : Sub!BlockJob(n) = BlockJob(n) /\ Work!BlockJob(n) = BlockJob(n)
    /\ \A n, k : Work!PluginJob(n, k) = PluginJob(n, k)
    /\ \A j : /\ Sub!Publish(j) <=> Publish(j)
              /\ Work!Publish(j) <=> Publish(j)
              /\ Sub!PublishFails(j) <=> PublishFails(j)
              /\ Work!PublishFails(j) <=> PublishFails(j)
              /\ Work!ForcePublish(j) <=> ForcePublish(j)
              /\ Work!Deliver(j) <=> Deliver(j)
  BY DEF Sub!Requested, Requested, Work!Kinds, Kinds, Work!Jobs, Jobs,
     Sub!BlockJob, Work!BlockJob, BlockJob, Work!PluginJob, PluginJob,
     Sub!Publish, Work!Publish, Publish, Sub!PublishFails, Work!PublishFails,
     PublishFails, Work!ForcePublish, ForcePublish, Work!Deliver, Deliver,
     Sub!Enqueue, Work!Enqueue, Enqueue, Sub!Fault, Work!Fault, Fault

(* What the operations on the lists do to their types and to other jobs.   *)
LEMMA ListTypes ==
    ASSUME RedisTypes, NEW j \in Jobs
    PROVE  /\ Publish(j) \/ PublishFails(j) \/ ForcePublish(j) =>
                /\ queued' \in [Jobs -> Nat] /\ limited' \subseteq Jobs
                /\ \A i \in Jobs \ {j} : queued'[i] = queued[i]
                /\ limited' \subseteq limited \cup {j}
                /\ queued'[j] >= queued[j]
           /\ Deliver(j) =>
                /\ queued' \in [Jobs -> Nat]
                /\ \A i \in Jobs \ {j} : queued'[i] = queued[i]
                /\ queued[j] > 0 /\ queued'[j] = queued[j] - 1
  BY DEF RedisTypes, Publish, PublishFails, ForcePublish, Deliver, Enqueue

(* Every step is one of the daemon or one of the workers.                  *)
LEMMA StepKinds ==
    ASSUME [Next]_vars
    PROVE  \/ Sub!SubNext /\ UNCHANGED fillVars
           \/ Work!FillNext /\ UNCHANGED subVars
           \/ UNCHANGED vars
  BY DEF Next, Daemon, Worker

-----------------------------------------------------------------------------
(* Types.                                                                  *)

LEMMA DaemonTypeStep ==
    ASSUME Types, Sub!SubNext, UNCHANGED fillVars PROVE Types'
<1> USE Bounds
<1>a. WorkerTypes'
  BY DEF Types, WorkerTypes, fillVars
<1>1. ASSUME NEW h \in Sub!Heads, Sub!Connect(h) \/ Sub!Announce(h) PROVE Types'
  <2>1. notes' \in Seq(0..MaxHead)
    <3>1. h \in 0..MaxHead /\ notes \in Seq(0..MaxHead)
      BY DEF Types, DaemonTypes
    <3>2. <<h>> \in Seq(0..MaxHead) /\ Append(notes, h) \in Seq(0..MaxHead)
      BY <3>1
    <3> QED
      BY <1>1, <3>2 DEF Sub!Connect, Sub!Announce
  <2> QED
    BY <1>a, <1>1, <2>1 DEF Types, RedisTypes, DaemonTypes, Sub!Connect,
       Sub!Announce, Sub!redisVars, Sub!procVars
<1>2. CASE Sub!Parse
  <2>1. Head(notes) \in 0..MaxHead /\ notes' \in Seq(0..MaxHead)
    BY <1>2 DEF Sub!Parse, Types, DaemonTypes
  <2> QED
    BY <1>a, <1>2, <2>1 DEF Types, RedisTypes, DaemonTypes, Sub!Parse,
       Sub!redisVars
<1>3. CASE \/ Sub!Send \/ Sub!ReadError \/ Sub!Wake \/ Sub!Glance
           \/ Sub!LeaveLoop \/ Sub!Finalize
  <2>1. RedisTypes' /\ UNCHANGED <<notes, lastBlock, finalized>>
    BY <1>3 DEF Types, RedisTypes, Sub!Send, Sub!ReadError, Sub!Wake, Sub!Glance,
       Sub!LeaveLoop, Sub!Finalize, Sub!redisVars, Sub!nodeVars, Sub!procVars
  <2>2. head' \in 0..MaxHead
    BY <1>3 DEF Types, DaemonTypes, Sub!Send, Sub!ReadError, Sub!Wake, Sub!Glance,
       Sub!LeaveLoop, Sub!Finalize, Sub!nodeVars
  <2>3. /\ sight' \in 0..MaxHead /\ next' \in Nat
        /\ fetch' \in {"wait", "start", "loop", "exited"}
    BY <1>3 DEF Types, DaemonTypes, Sub!Send, Sub!ReadError, Sub!Wake, Sub!Glance,
       Sub!LeaveLoop, Sub!Finalize, Sub!procVars
  <2> QED
    BY <1>a, <2>1, <2>2, <2>3 DEF Types, DaemonTypes
<1>4. CASE Sub!Disconnect
  <2>1. notes' \in Seq(0..MaxHead)
    BY <1>4 DEF Sub!Disconnect
  <2> QED
    BY <1>a, <1>4, <2>1 DEF Types, RedisTypes, DaemonTypes, Sub!Disconnect,
       Sub!procVars
<1>5. CASE Sub!Restart
  <2>1. notes' \in Seq(0..MaxHead)
    BY <1>5 DEF Sub!Restart
  <2>2. RedisTypes' /\ head' \in 0..MaxHead
    BY <1>5 DEF Sub!Restart, Types, RedisTypes, DaemonTypes
  <2>3. /\ finalized' \in 0..MaxHead /\ sight' \in 0..MaxHead
        /\ lastBlock' \in Blocks /\ next' \in Nat
        /\ fetch' \in {"wait", "start", "loop", "exited"}
    BY <1>5 DEF Sub!Restart
  <2> QED
    BY <1>a, <2>1, <2>2, <2>3 DEF Types, DaemonTypes
<1>6. CASE Sub!Start
  <2>1. next' \in Nat /\ sight' \in 0..MaxHead
        /\ fetch' \in {"wait", "start", "loop", "exited"}
    BY <1>6 DEF Sub!Start, Sub!Resume, Types, RedisTypes, DaemonTypes
  <2> QED
    BY <1>a, <1>6, <2>1 DEF Types, RedisTypes, DaemonTypes, Sub!Start,
       Sub!nodeVars
<1>7. ASSUME NEW b \in BOOLEAN, Sub!PublishNext(b) PROVE Types'
  <2>1. next \in Blocks
    BY <1>7 DEF Sub!PublishNext, Sub!InReach, Types, DaemonTypes
  <2>2. queued' \in [Jobs -> Nat] /\ limited' \subseteq Jobs
    BY <1>7, <2>1, JobTypes, SharedOperators, ListTypes DEF Sub!PublishNext, Types
  <2> QED
    BY SMTT(60), <1>a, <1>7, <2>1, <2>2 DEF Types, RedisTypes, DaemonTypes,
       Sub!PublishNext, Sub!nodeVars
<1> QED
  BY <1>1, <1>2, <1>3, <1>4, <1>5, <1>6, <1>7
     DEF Sub!SubNext, Sub!SubReader, Sub!SubFetch, Sub!SubNode

(* A goroutine that moves, or leaves its block, stays well typed.          *)
LEMMA MoveTypes ==
    ASSUME WorkerTypes, NEW w \in Workers
    PROVE  /\ \A p \in Work!Steps : Work!Goto(w, p) => pc' \in [Workers -> Work!Steps]
           /\ Work!Release(w) =>
                /\ pc' \in [Workers -> Work!Steps]
                /\ num' \in [Workers -> Blocks \cup {0}]
                /\ \A v \in Workers : pc'[v] # "idle" => num'[v] \in Blocks
                /\ verdict' \in [Workers -> Work!RowStates \ {"absent"}]
<1>1. \A p \in Work!Steps : Work!Goto(w, p) => pc' \in [Workers -> Work!Steps]
  BY DEF WorkerTypes, Work!Goto
<1>2. ASSUME Work!Release(w) PROVE pc' \in [Workers -> Work!Steps]
  BY <1>2 DEF WorkerTypes, Work!Release, Work!Steps
<1>3. ASSUME Work!Release(w), NEW v \in Workers
      PROVE  /\ num' \in [Workers -> Blocks \cup {0}]
             /\ pc'[v] # "idle" => num'[v] \in Blocks
  BY <1>3 DEF WorkerTypes, Work!Release
<1>4. ASSUME Work!Release(w)
      PROVE  verdict' \in [Workers -> Work!RowStates \ {"absent"}]
  BY <1>4 DEF WorkerTypes, Work!Release, Work!RowStates
<1> QED
  BY <1>1, <1>2, <1>3, <1>4

LEMMA SameCardinality ==
    ASSUME NEW S PROVE Work!Cardinality(S) = Cardinality(S)
  BY DEF Work!Cardinality, Cardinality

LEMMA WorkerTypeStep ==
    ASSUME Types, Work!FillNext, UNCHANGED subVars PROVE Types'
<1>a. DaemonTypes'
  BY DEF Types, DaemonTypes, subVars
<1>b. WorkerTypes
  BY DEF Types
<1> USE DEF Work!dbVars, Work!workerVars, Work!ghostVars, Work!redisVars
<1>1. ASSUME NEW w \in Workers, NEW n \in Blocks, Work!Receive(w, n)
      PROVE  Types'
  <2>1. queued' \in [Jobs -> Nat]
    BY <1>1, JobTypes, SharedOperators, ListTypes DEF Work!Receive, Types
  <2>2. WorkerTypes'
    BY <1>1, <1>b DEF Work!Receive, WorkerTypes, Work!Goto, Work!Steps
  <2> QED
    BY <1>a, <1>1, <2>1, <2>2 DEF Types, RedisTypes, Work!Receive
<1>2. ASSUME NEW w \in Workers, Work!Insert(w) PROVE Types'
  <2>1. WorkerTypes'
    BY <1>2, <1>b DEF Work!Insert, WorkerTypes, Work!Goto, Work!Steps
  <2> QED
    BY <1>a, <1>2, <2>1 DEF Types, RedisTypes, Work!Insert
<1>3. ASSUME NEW w \in Workers,
             \/ Work!FetchFails(w) \/ Work!Rollback(w) \/ Work!CommitFails(w)
             \/ Work!GetBest(w) \/ Work!SetBest(w)
      PROVE  Types'
  <2>1. UNCHANGED <<row, num, verdict, queued, limited, fillFinal, requests>>
    BY <1>3 DEF Work!FetchFails, Work!Rollback, Work!CommitFails, Work!GetBest,
       Work!SetBest
  <2>2. /\ pc[w] # "idle"
        /\ \E p \in Work!Steps : Work!Goto(w, p)
    BY <1>3 DEF Work!FetchFails, Work!Rollback, Work!CommitFails, Work!GetBest,
       Work!SetBest, Work!Steps
  <2>3. WorkerTypes'
    BY <1>b, <2>1, <2>2 DEF WorkerTypes, Work!Goto
  <2> QED
    BY <1>a, <2>1, <2>3 DEF Types, RedisTypes
<1>4. ASSUME NEW w \in Workers, Work!Panic(w) \/ Work!RetryFails(w) PROVE Types'
  <2>1. WorkerTypes'
    BY <1>4, <1>b, MoveTypes DEF Work!Panic, Work!RetryFails, WorkerTypes
  <2> QED
    BY <1>a, <1>4, <2>1 DEF Types, RedisTypes, Work!Panic, Work!RetryFails
<1>5. ASSUME NEW w \in Workers, Work!Commit(w) PROVE Types'
  <2>1. num[w] \in Blocks
    BY <1>5, <1>b DEF WorkerTypes, Work!Commit
  <2>2. Work!WrittenRow(num[w], verdict[w]) \in Work!RowStates
    BY <2>1, <1>b DEF WorkerTypes, Work!WrittenRow
  <2>3. WorkerTypes'
    BY <1>5, <1>b, <2>1, <2>2 DEF Work!Commit, WorkerTypes, Work!Goto, Work!Steps
  <2> QED
    BY <1>a, <1>5, <2>3 DEF Types, RedisTypes, Work!Commit
<1>6. ASSUME NEW w \in Workers, Work!Emit(w) \/ Work!EmitFails(w) PROVE Types'
  <2>1. num[w] \in Blocks /\ step[w] \in Kinds
    BY <1>6, <1>b, SharedOperators DEF WorkerTypes, Work!Emit, Work!EmitFails
  <2>2. queued' \in [Jobs -> Nat] /\ limited' \subseteq Jobs
    BY <1>6, <2>1, JobTypes, SharedOperators, ListTypes DEF Work!Emit,
       Work!EmitFails, Types
  <2>3. WorkerTypes'
    BY <1>6, <1>b DEF Work!Emit, Work!EmitFails, WorkerTypes, Work!Goto, Work!Steps
  <2> QED
    BY <1>a, <1>6, <2>2, <2>3 DEF Types, RedisTypes, Work!Emit, Work!EmitFails
<1>7. ASSUME NEW w \in Workers, Work!GetFinal(w) PROVE Types'
  <2>1. WorkerTypes'
    <3>1. CASE Work!Release(w)
      BY <1>7, <1>b, <3>1, MoveTypes DEF Work!GetFinal, WorkerTypes
    <3>2. CASE Work!Goto(w, "setFinal") /\ UNCHANGED <<num, verdict>>
      BY <1>7, <1>b, <3>2 DEF Work!GetFinal, WorkerTypes, Work!Goto, Work!Steps
    <3> QED
      BY <1>7, <3>1, <3>2 DEF Work!GetFinal
  <2> QED
    BY <1>a, <1>7, <2>1 DEF Types, RedisTypes, Work!GetFinal
<1>8. ASSUME NEW w \in Workers, Work!SetFinal(w) PROVE Types'
  <2>1. WorkerTypes'
    BY <1>8, <1>b, MoveTypes DEF Work!SetFinal, WorkerTypes
  <2>2. fillFinal' \in Blocks \cup {0}
    BY <1>8 DEF Work!SetFinal, Types, WorkerTypes, RedisTypes
  <2> QED
    BY <1>a, <1>8, <2>1, <2>2 DEF Types, RedisTypes, Work!SetFinal
<1>9. ASSUME NEW w \in Workers, Work!Retry(w) PROVE Types'
  <2>1. WorkerTypes'
    BY <1>9, <1>b, MoveTypes DEF Work!Retry, WorkerTypes
  <2>2. num[w] \in Blocks
    BY <1>9, <1>b DEF WorkerTypes, Work!Retry
  <2>3. queued' \in [Jobs -> Nat] /\ limited' \subseteq Jobs
    BY <1>9, <2>2, JobTypes, SharedOperators, ListTypes DEF Work!Retry,
       Work!Requeue, Types
  <2> QED
    BY <1>a, <1>9, <2>1, <2>3 DEF Types, RedisTypes, Work!Retry
<1>10. CASE Work!Crash
  <2>1. ASSUME NEW j \in Jobs
        PROVE  queued[j] + Work!Cardinality(Work!InFlight(j)) \in Nat
    BY WorkersAssumption, FS_Subset, FS_CardinalityType, SameCardinality
       DEF Work!InFlight, Types, RedisTypes
  <2>a. Work!Jobs = Jobs
    BY SharedOperators
  <2>2. queued' \in [Jobs -> Nat]
    BY <1>10, <2>1, <2>a DEF Work!Crash
  <2>3. WorkerTypes'
    BY <1>10, <1>b DEF Work!Crash, WorkerTypes, Work!Steps, Work!RowStates
  <2> QED
    BY <1>a, <1>10, <2>2, <2>3 DEF Types, RedisTypes, Work!Crash
<1>11. ASSUME NEW n \in Blocks, NEW k \in Kinds, Work!RunPlugin(n, k)
       PROVE  Types'
  <2>1. queued' \in [Jobs -> Nat]
    BY <1>11, JobTypes, SharedOperators, ListTypes DEF Work!RunPlugin, Types
  <2> QED
    BY <1>a, <1>b, <1>11, <2>1 DEF Types, RedisTypes, WorkerTypes, Work!RunPlugin
<1>12. ASSUME NEW n \in Blocks, NEW k \in Kinds, NEW b \in BOOLEAN,
              Work!RerunPlugin(n, k, b)
       PROVE  Types'
  BY <1>a, <1>b, <1>12 DEF Types, RedisTypes, WorkerTypes, Work!RerunPlugin
<1>13. ASSUME NEW j \in Jobs, Work!ExpireKey(j) PROVE Types'
  BY <1>a, <1>b, <1>13 DEF Types, RedisTypes, WorkerTypes, Work!ExpireKey,
     Work!Expire, Work!fillVars
<1> QED
  BY <1>1, <1>2, <1>3, <1>4, <1>5, <1>6, <1>7, <1>8, <1>9, <1>10, <1>11, <1>12,
     <1>13, SharedOperators DEF Work!FillNext, Work!Succeed, Work!Fail

LEMMA TypeStep == Types /\ [Next]_vars => Types'
<1> SUFFICES ASSUME Types, [Next]_vars PROVE Types'
  OBVIOUS
<1>1. CASE UNCHANGED vars
  BY <1>1 DEF Types, RedisTypes, DaemonTypes, WorkerTypes, vars, redisVars,
     subVars, fillVars
<1> QED
  BY <1>1, StepKinds, DaemonTypeStep, WorkerTypeStep

-----------------------------------------------------------------------------
(* What is asked for, queued, held or stored is final.                     *)

HeadsBounded ==
    /\ finalized <= head
    /\ sight <= head
    /\ \A i \in 1..Len(notes) : notes[i] <= head

RequestsFinal == \A n \in Requested : n + 2 <= head

OnlyRequested ==
    /\ \A n \in Blocks : queued[BlockJob(n)] > 0 => n \in Requested
    /\ \A w \in Workers : pc[w] # "idle" => num[w] \in Requested
    /\ \A n \in Blocks : row[n] # "absent" => n \in Requested

FinalInv == HeadsBounded /\ RequestsFinal /\ OnlyRequested

(* The workers ask for nothing.                                            *)
LEMMA WorkersRequestNothing ==
    ASSUME Work!FillNext PROVE UNCHANGED requests
  BY DEF Work!FillNext, Work!Succeed, Work!Fail, Work!Receive, Work!Insert,
     Work!FetchFails, Work!Panic, Work!Rollback, Work!Commit, Work!CommitFails,
     Work!Emit, Work!EmitFails, Work!GetBest, Work!SetBest, Work!GetFinal,
     Work!SetFinal, Work!Retry, Work!RetryFails, Work!Crash, Work!RunPlugin,
     Work!RerunPlugin, Work!ExpireKey, Work!Expire, Work!redisVars

(* Only the loop of the daemon asks for blocks, and the head only grows.   *)
LEMMA RequestSteps ==
    ASSUME [Next]_vars
    PROVE  \/ UNCHANGED requests
           \/ /\ \E b \in BOOLEAN : Sub!PublishNext(b)
              /\ UNCHANGED fillVars
<1>2. ASSUME Sub!SubNext
      PROVE  UNCHANGED requests \/ \E b \in BOOLEAN : Sub!PublishNext(b)
  BY <1>2 DEF Sub!SubNext, Sub!SubReader, Sub!SubFetch, Sub!SubNode, Sub!Connect,
     Sub!Parse, Sub!Send, Sub!ReadError, Sub!Wake, Sub!Start, Sub!Glance,
     Sub!LeaveLoop, Sub!Finalize, Sub!Disconnect, Sub!Announce, Sub!Restart,
     Sub!redisVars
<1>3. ASSUME UNCHANGED vars PROVE UNCHANGED requests
  BY <1>3 DEF vars, redisVars
<1> QED
  BY <1>2, <1>3, StepKinds, WorkersRequestNothing

LEMMA HeadGrows ==
    ASSUME Types, [Next]_vars PROVE head' = head \/ (Sub!Finalize /\ UNCHANGED fillVars)
  BY StepKinds DEF Sub!SubNext, Sub!SubReader, Sub!SubFetch, Sub!SubNode,
     Sub!Connect, Sub!Parse, Sub!Send, Sub!ReadError, Sub!Wake, Sub!Start,
     Sub!Glance, Sub!PublishNext, Sub!LeaveLoop, Sub!Disconnect, Sub!Announce,
     Sub!Restart, Sub!nodeVars, vars, subVars

(* A turn of the loop asks for one block, which is in reach.               *)
LEMMA TurnRequests ==
    ASSUME Types, NEW b \in BOOLEAN, Sub!PublishNext(b)
    PROVE  /\ next \in Blocks /\ next + 2 <= sight
           /\ Requested' = Requested \cup {next}
           /\ \A n \in Blocks \ {next} :
                 queued'[BlockJob(n)] = queued[BlockJob(n)]
           /\ limited' \subseteq limited \cup {BlockJob(next)}
           /\ queued'[BlockJob(next)] >= queued[BlockJob(next)]
<1>1. next \in Blocks /\ next + 2 <= sight
  BY Bounds DEF Sub!PublishNext, Sub!InReach, Types, DaemonTypes
<1>2. Requested' = Requested \cup {next}
  BY <1>1 DEF Sub!PublishNext, Requested, Types, RedisTypes
<1>3. Publish(BlockJob(next)) \/ PublishFails(BlockJob(next))
  BY <1>1, SharedOperators DEF Sub!PublishNext
<1>4. /\ \A i \in Jobs \ {BlockJob(next)} : queued'[i] = queued[i]
      /\ limited' \subseteq limited \cup {BlockJob(next)}
      /\ queued'[BlockJob(next)] >= queued[BlockJob(next)]
  BY <1>1, <1>3, JobTypes, ListTypes DEF Types
<1> QED
  BY <1>1, <1>2, <1>4, JobTypes

LEMMA RequestedGrows ==
    ASSUME Types, [Next]_vars PROVE Requested \subseteq Requested'
  BY RequestSteps, TurnRequests DEF Requested

LEMMA HeadsStep ==
    ASSUME Types, HeadsBounded, [Next]_vars PROVE HeadsBounded'
<1> USE Bounds
<1>a. head \in Nat /\ finalized \in Nat /\ sight \in Nat
  BY DEF Types, DaemonTypes
<1>1. ASSUME NEW h \in Sub!Heads, Sub!Connect(h) PROVE HeadsBounded'
  BY <1>1 DEF HeadsBounded, Sub!Connect
<1>2. CASE Sub!Parse
  <2>1. /\ Head(notes) = notes[1] /\ Len(notes) \in Nat \ {0}
        /\ Len(notes') = Len(notes) - 1
        /\ \A i \in 1..Len(notes') : notes'[i] = notes[i + 1]
    BY <1>2 DEF Sub!Parse, Types, DaemonTypes
  <2> QED
    BY <1>2, <2>1 DEF HeadsBounded, Sub!Parse
<1>3. CASE \/ Sub!Send \/ Sub!ReadError \/ Sub!Wake
           \/ \E b \in BOOLEAN : Sub!PublishNext(b)
  BY <1>3 DEF HeadsBounded, Sub!Send, Sub!ReadError, Sub!Wake, Sub!PublishNext,
     Sub!nodeVars
<1>4. CASE Sub!Start \/ Sub!Glance \/ Sub!LeaveLoop
  BY <1>4, <1>a DEF HeadsBounded, Sub!Start, Sub!Glance, Sub!LeaveLoop,
     Sub!nodeVars
<1>5. CASE Sub!Finalize
  <2>1. UNCHANGED <<notes, finalized, sight>> /\ head' = head + 1
    BY <1>5 DEF Sub!Finalize, Sub!procVars
  <2>2. ASSUME NEW i \in 1..Len(notes) PROVE notes[i] \in Nat /\ notes[i] <= head
    BY DEF HeadsBounded, Types, DaemonTypes
  <2> QED
    BY <1>a, <2>1, <2>2 DEF HeadsBounded
<1>6. CASE Sub!Disconnect \/ Sub!Restart
  BY <1>6, <1>a DEF HeadsBounded, Sub!Disconnect, Sub!Restart, Sub!procVars
<1>7. ASSUME NEW h \in Sub!Heads, Sub!Announce(h) PROVE HeadsBounded'
  <2>1. /\ Len(notes') = Len(notes) + 1 /\ notes'[Len(notes')] = h
        /\ \A i \in 1..Len(notes) : notes'[i] = notes[i]
    BY <1>7 DEF Sub!Announce, Types, DaemonTypes
  <2>2. Len(notes) \in Nat
    BY DEF Types, DaemonTypes
  <2> QED
    BY <1>7, <2>1, <2>2 DEF HeadsBounded, Sub!Announce, Sub!procVars
<1>8. CASE UNCHANGED subVars
  BY <1>8 DEF HeadsBounded, subVars
<1> QED
  BY <1>1, <1>2, <1>3, <1>4, <1>5, <1>6, <1>7, <1>8, StepKinds
     DEF Sub!SubNext, Sub!SubReader, Sub!SubFetch, Sub!SubNode, vars, subVars

LEMMA RequestsFinalStep ==
    ASSUME Types, HeadsBounded, RequestsFinal, [Next]_vars PROVE RequestsFinal'
<1> USE Bounds
<1>a. head \in Nat /\ head' \in Nat /\ head' >= head /\ Requested \subseteq Nat
  BY HeadGrows, TypeStep DEF Types, DaemonTypes, Sub!Finalize, Requested
<1>1. ASSUME NEW n \in Requested PROVE n + 2 <= head'
  BY <1>a DEF RequestsFinal
<1>2. ASSUME NEW n \in Requested', n \notin Requested PROVE n + 2 <= head'
  <2>1. PICK b \in BOOLEAN : Sub!PublishNext(b)
    BY <1>2, RequestSteps DEF Requested
  <2>2. n = next /\ n \in Blocks /\ n + 2 <= sight
    BY <1>2, <2>1, TurnRequests
  <2> QED
    BY <1>a, <2>2 DEF HeadsBounded, Types, DaemonTypes
<1> QED
  BY <1>1, <1>2 DEF RequestsFinal

-----------------------------------------------------------------------------
(* How the workers move jobs and rows.                                     *)

Queued(n) == queued[BlockJob(n)] > 0
Held(n)   == \E w \in Workers : pc[w] # "idle" /\ num[w] = n

(* A block job that appears in its list comes from a goroutine.            *)
LEMMA QueueSources ==
    ASSUME Types, Work!FillNext, NEW n \in Blocks, Queued(n)'
    PROVE  Queued(n) \/ Held(n)
<1> SUFFICES ASSUME ~ Queued(n) PROVE Held(n)
  OBVIOUS
<1> USE DEF Queued, Held
<1>a. BlockJob(n) \in Jobs /\ queued \in [Jobs -> Nat]
  BY JobTypes DEF Types, RedisTypes
<1>1. ASSUME NEW w \in Workers, NEW m \in Blocks, Work!Receive(w, m) PROVE FALSE
  <2>1. Deliver(BlockJob(m)) /\ BlockJob(m) \in Jobs
    BY <1>1, JobTypes, SharedOperators DEF Work!Receive
  <2> QED
    BY <1>a, <2>1 DEF Deliver
<1>2. ASSUME NEW w \in Workers, Work!Emit(w) \/ Work!EmitFails(w) PROVE FALSE
  <2>1. num[w] \in Blocks /\ step[w] \in Kinds
    BY <1>2, SharedOperators DEF Types, WorkerTypes, Work!Emit, Work!EmitFails
  <2>2. /\ PluginJob(num[w], step[w]) \in Jobs
        /\ PluginJob(num[w], step[w]) # BlockJob(n)
    BY <2>1, JobTypes
  <2>3. Publish(PluginJob(num[w], step[w])) \/ PublishFails(PluginJob(num[w], step[w]))
    BY <1>2, SharedOperators DEF Work!Emit, Work!EmitFails
  <2> QED
    BY <1>a, <2>2, <2>3, ListTypes DEF Types
<1>3. ASSUME NEW w \in Workers, Work!Retry(w) PROVE Held(n)
  <2>1. num[w] \in Blocks /\ pc[w] # "idle"
    BY <1>3 DEF Types, WorkerTypes, Work!Retry
  <2>2. ForcePublish(BlockJob(num[w]))
    BY <1>3, SharedOperators DEF Work!Retry, Work!Requeue
  <2>3. CASE num[w] = n
    BY <2>1, <2>3
  <2>4. CASE num[w] # n
    BY <1>a, <2>1, <2>2, <2>4, JobTypes, ListTypes DEF Types
  <2> QED
    BY <2>3, <2>4
<1>4. CASE Work!Crash
  <2>1. queued'[BlockJob(n)] =
          queued[BlockJob(n)] + Cardinality(Work!InFlight(BlockJob(n)))
    BY <1>4, <1>a, SharedOperators, SameCardinality DEF Work!Crash
  <2>2. Work!InFlight(BlockJob(n)) # {}
    BY <1>a, <2>1, FS_EmptySet
  <2>3. PICK w \in Workers : pc[w] # "idle" /\ BlockJob(num[w]) = BlockJob(n)
    BY <2>2, SharedOperators DEF Work!InFlight
  <2> QED
    BY <2>3, JobTypes DEF Types, WorkerTypes
<1>5. ASSUME NEW m \in Blocks, NEW k \in Kinds, Work!RunPlugin(m, k) PROVE FALSE
  <2>1. Deliver(PluginJob(m, k)) /\ PluginJob(m, k) \in Jobs
        /\ PluginJob(m, k) # BlockJob(n)
    BY <1>5, JobTypes, SharedOperators DEF Work!RunPlugin
  <2> QED
    BY <1>a, <2>1 DEF Deliver
<1>6. ASSUME UNCHANGED queued PROVE FALSE
  BY <1>6
<1> QED
  BY <1>1, <1>2, <1>3, <1>4, <1>5, <1>6, SharedOperators
     DEF Work!FillNext, Work!Succeed, Work!Fail, Work!Insert, Work!FetchFails,
     Work!Panic, Work!Rollback, Work!Commit, Work!CommitFails, Work!GetBest,
     Work!SetBest, Work!GetFinal, Work!SetFinal, Work!RetryFails,
     Work!RerunPlugin, Work!ExpireKey, Work!Expire, Work!redisVars

(* A goroutine takes its block from the list and holds no other.           *)
LEMMA HoldSources ==
    ASSUME Types, Work!FillNext, NEW w \in Workers, pc'[w] # "idle"
    PROVE  \/ pc[w] # "idle" /\ num'[w] = num[w]
           \/ num'[w] \in Blocks /\ Queued(num'[w])
<1> USE DEF Types, WorkerTypes, Queued
<1>1. ASSUME NEW v \in Workers, NEW n \in Blocks, Work!Receive(v, n)
      PROVE  \/ pc[w] # "idle" /\ num'[w] = num[w]
             \/ num'[w] \in Blocks /\ Queued(num'[w])
  BY <1>1, SharedOperators DEF Work!Receive, Work!Goto, Deliver
<1>2. ASSUME NEW v \in Workers,
             \/ Work!Insert(v) \/ Work!Commit(v) \/ Work!Emit(v)
             \/ Work!GetBest(v) \/ Work!SetBest(v) \/ Work!FetchFails(v)
             \/ Work!Rollback(v) \/ Work!CommitFails(v) \/ Work!EmitFails(v)
      PROVE  pc[w] # "idle" /\ num'[w] = num[w]
  BY <1>2 DEF Work!Goto, Work!Insert, Work!Commit, Work!Emit, Work!GetBest,
     Work!SetBest, Work!FetchFails, Work!Rollback, Work!CommitFails,
     Work!EmitFails, Work!workerVars
<1>3. ASSUME NEW v \in Workers,
             \/ Work!GetFinal(v) \/ Work!SetFinal(v) \/ Work!Retry(v)
             \/ Work!Panic(v) \/ Work!RetryFails(v)
      PROVE  pc[w] # "idle" /\ num'[w] = num[w]
  BY <1>3 DEF Work!Goto, Work!Release, Work!GetFinal, Work!SetFinal, Work!Retry,
     Work!Panic, Work!RetryFails
<1>4. ASSUME Work!Crash PROVE FALSE
  BY <1>4 DEF Work!Crash
<1>5. ASSUME UNCHANGED Work!workerVars
      PROVE  pc[w] # "idle" /\ num'[w] = num[w]
  BY <1>5 DEF Work!workerVars
<1> QED
  BY <1>1, <1>2, <1>3, <1>4, <1>5 DEF Work!FillNext, Work!Succeed, Work!Fail,
     Work!RunPlugin, Work!RerunPlugin, Work!ExpireKey, Work!fillVars

(* Rows are written by commits only, and never rewritten.                  *)
LEMMA RowWrites ==
    ASSUME Types, Work!FillNext
    PROVE  \/ UNCHANGED row
           \/ \E w \in Workers :
                 /\ pc[w] # "idle" /\ num[w] \in Blocks
                 /\ row' = [row EXCEPT ![num[w]] =
                               IF row[num[w]] = "absent" THEN verdict[w]
                                                         ELSE row[num[w]]]
<1>1. ASSUME NEW w \in Workers, Work!Commit(w)
      PROVE  /\ pc[w] # "idle" /\ num[w] \in Blocks
             /\ row' = [row EXCEPT ![num[w]] =
                           IF row[num[w]] = "absent" THEN verdict[w]
                                                     ELSE row[num[w]]]
  BY <1>1 DEF Work!Commit, Work!WrittenRow, Types, WorkerTypes
<1>2. (\E w \in Workers : Work!Commit(w)) \/ UNCHANGED row
  BY DEF Work!FillNext, Work!Succeed, Work!Fail, Work!Receive, Work!Insert,
     Work!FetchFails, Work!Panic, Work!Rollback, Work!CommitFails, Work!Emit,
     Work!EmitFails, Work!GetBest, Work!SetBest, Work!GetFinal, Work!SetFinal,
     Work!Retry, Work!RetryFails, Work!Crash, Work!RunPlugin, Work!RerunPlugin,
     Work!ExpireKey, Work!Expire, Work!dbVars, Work!fillVars
<1> QED
  BY <1>1, <1>2

LEMMA OnlyRequestedStep ==
    ASSUME Types, OnlyRequested, [Next]_vars PROVE OnlyRequested'
<1>a. Requested \subseteq Requested'
  BY RequestedGrows
<1>1. CASE Work!FillNext
  <2>1. ASSUME NEW n \in Blocks, Queued(n)' PROVE n \in Requested'
    BY <1>1, <1>a, <2>1, QueueSources DEF Queued, Held, OnlyRequested
  <2>2. ASSUME NEW w \in Workers, pc'[w] # "idle" PROVE num'[w] \in Requested'
    BY <1>1, <1>a, <2>2, HoldSources DEF Queued, OnlyRequested
  <2>3. ASSUME NEW n \in Blocks, row'[n] # "absent" PROVE n \in Requested'
    BY <1>1, <1>a, <2>3, RowWrites DEF OnlyRequested, Types, WorkerTypes
  <2> QED
    BY <2>1, <2>2, <2>3 DEF OnlyRequested, Queued
<1>2. ASSUME Sub!SubNext, UNCHANGED fillVars PROVE OnlyRequested'
  <2>1. UNCHANGED <<row, pc, num>>
    BY <1>2 DEF fillVars
  <2>2. ASSUME NEW b \in BOOLEAN, Sub!PublishNext(b) PROVE OnlyRequested'
    BY <1>a, <2>1, <2>2, TurnRequests DEF OnlyRequested
  <2>3. (\E b \in BOOLEAN : Sub!PublishNext(b)) \/ UNCHANGED queued
    BY <1>2 DEF Sub!SubNext, Sub!SubReader, Sub!SubFetch, Sub!SubNode,
       Sub!Connect, Sub!Parse, Sub!Send, Sub!ReadError, Sub!Wake, Sub!Start,
       Sub!Glance, Sub!LeaveLoop, Sub!Finalize, Sub!Disconnect, Sub!Announce,
       Sub!Restart, Sub!redisVars
  <2>4. ASSUME UNCHANGED queued PROVE OnlyRequested'
    BY <1>a, <2>1, <2>4 DEF OnlyRequested
  <2> QED
    BY <2>2, <2>3, <2>4
<1>3. ASSUME UNCHANGED vars PROVE OnlyRequested'
  BY <1>a, <1>3 DEF OnlyRequested, vars, redisVars, fillVars
<1> QED
  BY <1>1, <1>2, <1>3, StepKinds

LEMMA FinalInvariant == Spec => [](Types /\ FinalInv)
<1>1. Init => Types /\ FinalInv
  <2> SUFFICES ASSUME Init PROVE Types /\ FinalInv
    OBVIOUS
  <2> USE Bounds
  <2>1. RedisTypes
    BY DEF Init, RedisInit, RedisTypes
  <2>2. DaemonTypes /\ HeadsBounded
    <3>1. notes = <<>> /\ notes \in Seq(0..MaxHead) /\ Len(notes) = 0
      BY DEF Init, Sub!SubInit
    <3> QED
      BY <3>1 DEF Init, Sub!SubInit, DaemonTypes, HeadsBounded
  <2>3. WorkerTypes
    BY DEF Init, Work!FillInit, WorkerTypes, Work!RowStates, Work!Steps
  <2>4. RequestsFinal
    BY DEF Init, RedisInit, RequestsFinal, Requested
  <2>5. OnlyRequested
    BY JobTypes DEF Init, RedisInit, Work!FillInit, OnlyRequested
  <2> QED
    BY <2>1, <2>2, <2>3, <2>4, <2>5 DEF Types, FinalInv
<1>2. Types /\ FinalInv /\ [Next]_vars => (Types /\ FinalInv)'
  BY TypeStep, HeadsStep, RequestsFinalStep, OnlyRequestedStep DEF FinalInv
<1> QED
  BY <1>1, <1>2, PTL DEF Spec

(* A commit archives one block, which the chain has finalized.             *)
LEMMA CommitArchives ==
    ASSUME Types, FinalInv, Work!FillNext, UNCHANGED subVars
    PROVE  (\E n \in Blocks : Archive!Store(n)) \/ UNCHANGED Archive!vars
<1>a. Work!Archived = {n \in Blocks : row[n] # "absent"}
  BY DEF Work!Archived, Work!Stored
<1>b. Work!Archived' = {n \in Blocks : row'[n] # "absent"}
  BY DEF Work!Archived, Work!Stored
<1>c. head' = head
  BY DEF subVars
<1>1. CASE UNCHANGED row
  BY <1>1, <1>a, <1>b, <1>c DEF Archive!vars
<1>2. ASSUME NEW w \in Workers, pc[w] # "idle", num[w] \in Blocks,
             row' = [row EXCEPT ![num[w]] =
                       IF row[num[w]] = "absent" THEN verdict[w]
                                                 ELSE row[num[w]]]
      PROVE  (\E n \in Blocks : Archive!Store(n)) \/ UNCHANGED Archive!vars
  <2>1. CASE row[num[w]] # "absent"
    <3>1. row' = row
      BY <1>2, <2>1 DEF Types, WorkerTypes
    <3> QED
      BY <3>1, <1>1
  <2>2. CASE row[num[w]] = "absent"
    <3>1. num[w] + Sub!FinalizedWaiting <= head
      BY <1>2, Bounds DEF FinalInv, OnlyRequested, RequestsFinal
    <3>2. verdict[w] # "absent"
      BY <1>2 DEF Types, WorkerTypes
    <3>3. /\ num[w] \notin Work!Archived
          /\ Work!Archived' = Work!Archived \cup {num[w]}
      BY <1>2, <1>a, <1>b, <2>2, <3>2 DEF Types, WorkerTypes
    <3>4. Archive!Store(num[w])
      BY <1>c, <3>1, <3>3 DEF Archive!Store
    <3> QED
      BY <1>2, <3>4
  <2> QED
    BY <2>1, <2>2
<1> QED
  BY <1>1, <1>2, RowWrites

(* A step of the daemon archives nothing; it may lengthen the chain.       *)
LEMMA DaemonArchivesNothing ==
    ASSUME Types, [Next]_vars, UNCHANGED fillVars
    PROVE  Archive!Finalize \/ UNCHANGED Archive!vars
<1>1. Work!Archived' = Work!Archived
  BY DEF fillVars, Work!Archived, Work!Stored
<1>2. CASE head' = head
  BY <1>1, <1>2 DEF Archive!vars
<1>3. CASE Sub!Finalize
  BY <1>1, <1>3 DEF Archive!Finalize, Sub!Finalize
<1> QED
  BY <1>2, <1>3, HeadGrows

(* Whatever fails, the two daemons together implement the archive: each    *)
(* commit stores a block that the chain has finalized long enough ago and  *)
(* that was not stored, and no step takes a block away.                    *)
THEOREM IndexerImplementsArchive == Spec => ImplementsArchive
<1>1. Init => Archive!Init
  BY DEF Init, Sub!SubInit, Work!FillInit, Archive!Init, Work!Archived,
     Work!Stored
<1>2. Types /\ FinalInv /\ [Next]_vars => [Archive!Next]_(Archive!vars)
  <2> SUFFICES ASSUME Types, FinalInv, [Next]_vars
               PROVE  Archive!Next \/ UNCHANGED Archive!vars
    OBVIOUS
  <2>1. CASE Work!FillNext /\ UNCHANGED subVars
    BY <2>1, CommitArchives DEF Archive!Next
  <2>2. CASE UNCHANGED fillVars
    BY <2>2, DaemonArchivesNothing DEF Archive!Next
  <2>3. CASE UNCHANGED vars
    BY <2>2, <2>3 DEF vars
  <2> QED
    BY <2>1, <2>2, <2>3, StepKinds
<1> QED
  BY <1>1, <1>2, FinalInvariant, PTL DEF Spec, ImplementsArchive, Archive!Spec

-----------------------------------------------------------------------------
(* What the daemon leaves behind is in good hands.                         *)

NoHole == \A n \in Requested : \A m \in 0..n : m \in Requested

ResumePointsRequested ==
    /\ lastBlock > 0 => lastBlock \in Requested
    /\ fillFinal > 0 => fillFinal \in Requested
    /\ fetch = "loop" => \A m \in Blocks : m < next => m \in Requested

KeysOfRequested == \A n \in Blocks : BlockJob(n) \in limited => n \in Requested

(* Past its commit, a goroutine holds a block that is stored.              *)
StoredAfterCommit ==
    \A w \in Workers :
        pc[w] \in {"emit", "setBest", "getFinal", "setFinal"}
          => row[num[w]] # "absent"

Covered == \A n \in Requested : row[n] # "absent" \/ Queued(n) \/ Held(n)

DaemonInv == NoHole /\ ResumePointsRequested
PipeInv   == KeysOfRequested /\ StoredAfterCommit /\ Covered

NothingDropped == {"commit", "panic", "enqueue"} \cap Faults = {}

-----------------------------------------------------------------------------
LEMMA StoredStays ==
    ASSUME Types, [Next]_vars, NEW n \in Blocks, row[n] # "absent"
    PROVE  row'[n] = row[n]
<1>1. CASE Work!FillNext
  BY <1>1, RowWrites DEF Types, WorkerTypes
<1>2. CASE UNCHANGED fillVars
  BY <1>2 DEF fillVars
<1> QED
  BY <1>1, <1>2, StepKinds DEF vars

LEMMA NoHoleStep ==
    ASSUME Types, DaemonInv, [Next]_vars PROVE NoHole'
<1>a. Requested \subseteq Requested' /\ Requested \subseteq Nat
  BY RequestedGrows, Bounds DEF Requested
<1>1. ASSUME NEW b \in BOOLEAN, Sub!PublishNext(b) PROVE NoHole'
  <2>1. Requested' = Requested \cup {next} /\ next \in Blocks
    BY <1>1, TurnRequests
  <2>2. ASSUME NEW m \in 0..next PROVE m \in Requested'
    BY <1>1, <2>1, Bounds DEF DaemonInv, ResumePointsRequested, Sub!PublishNext
  <2>3. ASSUME NEW n \in Requested, NEW m \in 0..n PROVE m \in Requested'
    BY <1>a DEF DaemonInv, NoHole
  <2> QED
    BY <2>1, <2>2, <2>3 DEF NoHole
<1>2. CASE UNCHANGED requests
  BY <1>2 DEF DaemonInv, NoHole, Requested
<1> QED
  BY <1>1, <1>2, RequestSteps

LEMMA ResumeStep ==
    ASSUME Types, OnlyRequested, DaemonInv, [Next]_vars
    PROVE  ResumePointsRequested'
<1> USE Bounds
<1>a. Requested \subseteq Requested'
  BY RequestedGrows
<1>1. ASSUME Sub!SubNext PROVE ResumePointsRequested'
  <2>1. ASSUME NEW b \in BOOLEAN, Sub!PublishNext(b) PROVE ResumePointsRequested'
    <3>1. Requested' = Requested \cup {next} /\ next \in Blocks
      BY <2>1, TurnRequests
    <3> QED
      BY <2>1, <3>1 DEF Sub!PublishNext, DaemonInv, ResumePointsRequested
  <2>2. CASE Sub!Start
    <3>1. UNCHANGED <<lastBlock, fillFinal>>
      BY <2>2 DEF Sub!Start
    <3>2. ASSUME fetch' = "loop", NEW m \in Blocks, m < next'
          PROVE  m \in Requested
      <4>1. PICK mark \in {fillFinal, 0} : next' = Sub!Resume(lastBlock, mark)
        BY <2>2, <3>2 DEF Sub!Start
      <4>2. CASE lastBlock > 0
        <5>1. lastBlock \in Requested /\ m \in 0..lastBlock
          BY <3>2, <4>1, <4>2 DEF Sub!Resume, DaemonInv, ResumePointsRequested,
             Types, DaemonTypes
        <5> QED
          BY <5>1 DEF DaemonInv, NoHole
      <4>3. CASE ~ (lastBlock > 0)
        <5>1. fillFinal \in Requested /\ m \in 0..fillFinal
          BY <3>2, <4>1, <4>3 DEF Sub!Resume, DaemonInv, ResumePointsRequested,
             Types, RedisTypes
        <5> QED
          BY <5>1 DEF DaemonInv, NoHole
      <4> QED
        BY <4>2, <4>3
    <3> QED
      BY <1>a, <3>1, <3>2 DEF DaemonInv, ResumePointsRequested
  <2>3. CASE Sub!Restart
    BY <1>a, <2>3 DEF Sub!Restart, DaemonInv, ResumePointsRequested
  <2>4. CASE Sub!Wake \/ Sub!LeaveLoop
    BY <1>a, <2>4 DEF Sub!Wake, Sub!LeaveLoop, DaemonInv, ResumePointsRequested,
       Sub!redisVars
  <2>5. ASSUME UNCHANGED <<lastBlock, fillFinal, fetch, next>>
        PROVE  ResumePointsRequested'
    BY <1>a, <2>5 DEF DaemonInv, ResumePointsRequested
  <2> QED
    BY <1>1, <2>1, <2>2, <2>3, <2>4, <2>5 DEF Sub!SubNext, Sub!SubReader,
       Sub!SubFetch, Sub!SubNode, Sub!Connect, Sub!Parse, Sub!Send,
       Sub!ReadError, Sub!Glance, Sub!Finalize, Sub!Disconnect, Sub!Announce,
       Sub!redisVars, Sub!procVars
<1>2. ASSUME Work!FillNext, UNCHANGED subVars PROVE ResumePointsRequested'
  <2>1. ASSUME NEW w \in Workers, Work!SetFinal(w)
        PROVE  fillFinal' = fillFinal \/ fillFinal' \in Requested
    BY <2>1 DEF Work!SetFinal, OnlyRequested
  <2>2. (\E w \in Workers : Work!SetFinal(w)) \/ UNCHANGED fillFinal
    BY <1>2 DEF Work!FillNext, Work!Succeed, Work!Fail, Work!Receive, Work!Insert,
       Work!FetchFails, Work!Panic, Work!Rollback, Work!Commit, Work!CommitFails,
       Work!Emit, Work!EmitFails, Work!GetBest, Work!SetBest, Work!GetFinal,
       Work!Retry, Work!RetryFails, Work!Crash, Work!RunPlugin,
       Work!RerunPlugin, Work!ExpireKey, Work!Expire, Work!redisVars
  <2>3. fillFinal' = fillFinal \/ fillFinal' \in Requested
    BY <2>1, <2>2
  <2> QED
    BY <1>a, <1>2, <2>3 DEF subVars, DaemonInv, ResumePointsRequested
<1>3. CASE UNCHANGED vars
  BY <1>a, <1>3 DEF vars, redisVars, subVars, DaemonInv, ResumePointsRequested
<1> QED
  BY <1>1, <1>2, <1>3, StepKinds

(* A limiter key is that of a block somebody asked for.                    *)
LEMMA KeysStep ==
    ASSUME Types, OnlyRequested, PipeInv, [Next]_vars PROVE KeysOfRequested'
<1>a. Requested \subseteq Requested'
  BY RequestedGrows
<1>1. ASSUME NEW b \in BOOLEAN, Sub!PublishNext(b) PROVE KeysOfRequested'
  BY <1>a, <1>1, TurnRequests, JobTypes DEF PipeInv, KeysOfRequested
<1>2. ASSUME NEW w \in Workers, Work!Emit(w) \/ Work!EmitFails(w)
      PROVE  KeysOfRequested'
  <2>1. num[w] \in Blocks /\ step[w] \in Kinds
    BY <1>2, SharedOperators DEF Types, WorkerTypes, Work!Emit, Work!EmitFails
  <2>2. Publish(PluginJob(num[w], step[w])) \/ PublishFails(PluginJob(num[w], step[w]))
    BY <1>2, SharedOperators DEF Work!Emit, Work!EmitFails
  <2>3. limited' \subseteq limited \cup {PluginJob(num[w], step[w])}
    BY <2>1, <2>2, JobTypes, ListTypes DEF Types
  <2> QED
    BY <1>a, <2>1, <2>3, JobTypes DEF PipeInv, KeysOfRequested
<1>3. ASSUME limited' \subseteq limited PROVE KeysOfRequested'
  BY <1>a, <1>3 DEF PipeInv, KeysOfRequested
<1>4. ASSUME Work!FillNext
      PROVE  \/ \E w \in Workers : Work!Emit(w) \/ Work!EmitFails(w)
             \/ limited' \subseteq limited
  BY <1>4, SharedOperators DEF Work!FillNext, Work!Succeed, Work!Fail,
     Work!Receive, Work!Insert, Work!FetchFails, Work!Panic, Work!Rollback,
     Work!Commit, Work!CommitFails, Work!GetBest, Work!SetBest, Work!GetFinal,
     Work!SetFinal, Work!Retry, Work!Requeue, ForcePublish, Work!RetryFails,
     Work!Crash, Work!RunPlugin, Work!RerunPlugin, Work!ExpireKey, Work!Expire,
     Work!redisVars
<1>5. ASSUME Sub!SubNext
      PROVE  (\E b \in BOOLEAN : Sub!PublishNext(b)) \/ UNCHANGED limited
  BY <1>5 DEF Sub!SubNext, Sub!SubReader, Sub!SubFetch, Sub!SubNode,
     Sub!Connect, Sub!Parse, Sub!Send, Sub!ReadError, Sub!Wake, Sub!Start,
     Sub!Glance, Sub!LeaveLoop, Sub!Finalize, Sub!Disconnect, Sub!Announce,
     Sub!Restart, Sub!redisVars
<1> QED
  BY <1>1, <1>2, <1>3, <1>4, <1>5, StepKinds DEF vars, redisVars

LEMMA StoredAfterCommitStep ==
    ASSUME NothingDropped, Types, PipeInv, [Next]_vars
    PROVE  StoredAfterCommit'
<1> SUFFICES ASSUME NEW w \in Workers,
                    pc'[w] \in {"emit", "setBest", "getFinal", "setFinal"}
             PROVE  row'[num'[w]] # "absent"
  BY DEF StoredAfterCommit
<1> USE DEF Types, WorkerTypes
<1>a. \A n \in Blocks : row[n] # "absent" => row'[n] # "absent"
  BY StoredStays
<1>b. ASSUME pc[w] \in {"emit", "setBest", "getFinal", "setFinal"},
             num'[w] = num[w]
      PROVE  row'[num'[w]] # "absent"
  BY <1>a, <1>b DEF PipeInv, StoredAfterCommit
<1>1. ASSUME NEW v \in Workers, Work!Commit(v) PROVE row'[num'[w]] # "absent"
  <2>1. CASE v = w
    BY <1>1, <2>1 DEF Work!Commit, Work!WrittenRow
  <2>2. CASE v # w
    BY <1>1, <1>b, <2>2 DEF Work!Commit, Work!Goto
  <2> QED
    BY <2>1, <2>2
<1>2. ASSUME NEW v \in Workers, NEW n \in Blocks, Work!Receive(v, n)
      PROVE  row'[num'[w]] # "absent"
  BY <1>2, <1>b DEF Work!Receive, Work!Goto
<1>3. ASSUME NEW v \in Workers,
             \/ Work!Insert(v) \/ Work!Emit(v) \/ Work!GetBest(v)
             \/ Work!SetBest(v) \/ Work!FetchFails(v) \/ Work!Rollback(v)
             \/ Work!EmitFails(v)
      PROVE  row'[num'[w]] # "absent"
  BY <1>3, <1>b DEF Work!Goto, Work!Insert, Work!Emit, Work!GetBest,
     Work!SetBest, Work!FetchFails, Work!Rollback, Work!EmitFails
<1>4. ASSUME NEW v \in Workers,
             \/ Work!GetFinal(v) \/ Work!SetFinal(v) \/ Work!Retry(v)
             \/ Work!Panic(v) \/ Work!RetryFails(v)
      PROVE  row'[num'[w]] # "absent"
  BY <1>4, <1>b DEF Work!Goto, Work!Release, Work!GetFinal, Work!SetFinal,
     Work!Retry, Work!Panic, Work!RetryFails
<1>5. ASSUME NEW v \in Workers, Work!CommitFails(v) PROVE FALSE
  BY <1>5 DEF Work!CommitFails, Work!Fault, NothingDropped
<1>6. ASSUME Work!Crash PROVE FALSE
  BY <1>6 DEF Work!Crash
<1>7. ASSUME UNCHANGED Work!workerVars PROVE row'[num'[w]] # "absent"
  BY <1>7, <1>b DEF Work!workerVars
<1>8. CASE Work!FillNext
  BY <1>1, <1>2, <1>3, <1>4, <1>5, <1>6, <1>7, <1>8 DEF Work!FillNext,
     Work!Succeed, Work!Fail, Work!RunPlugin, Work!RerunPlugin,
     Work!ExpireKey, Work!fillVars
<1>9. CASE UNCHANGED fillVars
  BY <1>7, <1>9 DEF fillVars, Work!workerVars
<1> QED
  BY <1>8, <1>9, StepKinds DEF vars

(* A block job leaves its list only into a goroutine, unless the block is  *)
(* stored.                                                                 *)
LEMMA QueuedStep ==
    ASSUME Types, Work!FillNext, NEW n \in Blocks, Queued(n)
    PROVE  Queued(n)' \/ Held(n)' \/ row[n] # "absent"
<1> USE DEF Queued, Held
<1>a. BlockJob(n) \in Jobs /\ queued \in [Jobs -> Nat]
  BY JobTypes DEF Types, RedisTypes
<1>1. ASSUME NEW w \in Workers, NEW m \in Blocks, Work!Receive(w, m)
      PROVE  Queued(n)' \/ Held(n)' \/ row[n] # "absent"
  <2>1. Deliver(BlockJob(m)) /\ BlockJob(m) \in Jobs
    BY <1>1, JobTypes, SharedOperators DEF Work!Receive
  <2>2. CASE m # n
    BY <1>a, <2>1, <2>2, JobTypes DEF Deliver
  <2>3. CASE m = n
    <3>1. row[n] # "absent" \/ (pc'[w] = "fetch" /\ num'[w] = n)
      BY <1>1, <2>3 DEF Work!Receive, Work!Goto, Types, WorkerTypes
    <3> QED
      BY <3>1
  <2> QED
    BY <2>2, <2>3
<1>2. ASSUME NEW w \in Workers, Work!Emit(w) \/ Work!EmitFails(w)
      PROVE  Queued(n)'
  <2>1. num[w] \in Blocks /\ step[w] \in Kinds
    BY <1>2, SharedOperators DEF Types, WorkerTypes, Work!Emit, Work!EmitFails
  <2>2. /\ PluginJob(num[w], step[w]) \in Jobs
        /\ PluginJob(num[w], step[w]) # BlockJob(n)
    BY <2>1, JobTypes
  <2>3. Publish(PluginJob(num[w], step[w])) \/ PublishFails(PluginJob(num[w], step[w]))
    BY <1>2, SharedOperators DEF Work!Emit, Work!EmitFails
  <2> QED
    BY <1>a, <2>2, <2>3, ListTypes DEF Types
<1>3. ASSUME NEW w \in Workers, Work!Retry(w) PROVE Queued(n)'
  <2>1. num[w] \in Blocks
    BY <1>3 DEF Types, WorkerTypes, Work!Retry
  <2>2. ForcePublish(BlockJob(num[w])) /\ BlockJob(num[w]) \in Jobs
    BY <1>3, <2>1, SharedOperators, JobTypes DEF Work!Retry, Work!Requeue
  <2> QED
    BY <1>a, <2>2 DEF ForcePublish, Enqueue
<1>4. ASSUME Work!Crash PROVE Queued(n)'
  <2>1. queued'[BlockJob(n)] =
          queued[BlockJob(n)] + Cardinality(Work!InFlight(BlockJob(n)))
    BY <1>4, <1>a, SharedOperators, SameCardinality DEF Work!Crash
  <2>2. Cardinality(Work!InFlight(BlockJob(n))) \in Nat
    BY WorkersAssumption, FS_Subset, FS_CardinalityType DEF Work!InFlight
  <2> QED
    BY <1>a, <2>1, <2>2
<1>5. ASSUME NEW m \in Blocks, NEW k \in Kinds, Work!RunPlugin(m, k)
      PROVE  Queued(n)'
  <2>1. Deliver(PluginJob(m, k)) /\ PluginJob(m, k) \in Jobs
        /\ PluginJob(m, k) # BlockJob(n)
    BY <1>5, JobTypes, SharedOperators DEF Work!RunPlugin
  <2> QED
    BY <1>a, <2>1 DEF Deliver
<1>6. ASSUME UNCHANGED queued PROVE Queued(n)'
  BY <1>6
<1> QED
  BY <1>1, <1>2, <1>3, <1>4, <1>5, <1>6, SharedOperators
     DEF Work!FillNext, Work!Succeed, Work!Fail, Work!Insert, Work!FetchFails,
     Work!Panic, Work!Rollback, Work!Commit, Work!CommitFails, Work!GetBest,
     Work!SetBest, Work!GetFinal, Work!SetFinal, Work!RetryFails,
     Work!RerunPlugin, Work!ExpireKey, Work!Expire, Work!redisVars

(* A goroutine lets go of a block only when it is stored or back in the    *)
(* list.                                                                   *)
LEMMA HeldStep ==
    ASSUME NothingDropped, Types, PipeInv, Work!FillNext, NEW n \in Blocks,
           Held(n)
    PROVE  Queued(n)' \/ Held(n)' \/ row[n] # "absent"
<1> PICK w \in Workers : pc[w] # "idle" /\ num[w] = n
  BY DEF Held
<1> DEFINE Good == Queued(n)' \/ Held(n)' \/ row[n] # "absent"
<1> SUFFICES Good
  OBVIOUS
<1>a. BlockJob(n) \in Jobs /\ queued \in [Jobs -> Nat]
  BY JobTypes DEF Types, RedisTypes
<1>b. ASSUME pc'[w] # "idle", num'[w] = num[w] PROVE Good
  BY <1>b DEF Held
<1> USE DEF Types, WorkerTypes
<1>1. ASSUME NEW v \in Workers, NEW m \in Blocks, Work!Receive(v, m) PROVE Good
  <2>1. pc'[w] # "idle" /\ num'[w] = num[w]
    BY <1>1 DEF Work!Receive, Work!Goto
  <2> QED
    BY <2>1, <1>b
<1>2. ASSUME NEW v \in Workers,
             \/ Work!Insert(v) \/ Work!Commit(v) \/ Work!Emit(v)
             \/ Work!GetBest(v) \/ Work!SetBest(v) \/ Work!FetchFails(v)
             \/ Work!Rollback(v) \/ Work!EmitFails(v)
      PROVE  Good
  <2>1. pc'[w] # "idle" /\ num'[w] = num[w]
    BY <1>2 DEF Work!Goto, Work!Insert, Work!Commit, Work!Emit, Work!GetBest,
       Work!SetBest, Work!FetchFails, Work!Rollback, Work!EmitFails
  <2> QED
    BY <2>1, <1>b
<1>3. ASSUME NEW v \in Workers, Work!GetFinal(v) \/ Work!SetFinal(v) PROVE Good
  <2>1. CASE v = w
    <3>1. row[n] # "absent"
      BY <1>3, <2>1 DEF Work!GetFinal, Work!SetFinal, PipeInv, StoredAfterCommit
    <3> QED
      BY <3>1
  <2>2. CASE v # w
    <3>1. pc'[w] # "idle" /\ num'[w] = num[w]
      BY <1>3, <2>2 DEF Work!GetFinal, Work!SetFinal, Work!Goto, Work!Release
    <3> QED
      BY <3>1, <1>b
  <2> QED
    BY <2>1, <2>2
<1>4. ASSUME NEW v \in Workers, Work!Retry(v) PROVE Good
  <2>1. CASE v = w
    <3>1. ForcePublish(BlockJob(n))
      BY <1>4, <2>1, SharedOperators DEF Work!Retry, Work!Requeue
    <3> QED
      BY <1>a, <3>1 DEF ForcePublish, Enqueue, Queued
  <2>2. CASE v # w
    <3>1. pc'[w] # "idle" /\ num'[w] = num[w]
      BY <1>4, <2>2 DEF Work!Retry, Work!Release
    <3> QED
      BY <3>1, <1>b
  <2> QED
    BY <2>1, <2>2
<1>5. ASSUME NEW v \in Workers,
             Work!Panic(v) \/ Work!RetryFails(v) \/ Work!CommitFails(v)
      PROVE  FALSE
  BY <1>5 DEF Work!Panic, Work!RetryFails, Work!CommitFails, Work!Fault,
     NothingDropped
<1>6. ASSUME Work!Crash PROVE Good
  <2>1. queued'[BlockJob(n)] =
          queued[BlockJob(n)] + Cardinality(Work!InFlight(BlockJob(n)))
    BY <1>6, <1>a, SharedOperators, SameCardinality DEF Work!Crash
  <2>2. w \in Work!InFlight(BlockJob(n))
    BY SharedOperators DEF Work!InFlight
  <2>3. IsFiniteSet(Work!InFlight(BlockJob(n)))
    BY WorkersAssumption, FS_Subset DEF Work!InFlight
  <2>4. /\ Cardinality(Work!InFlight(BlockJob(n))) \in Nat
        /\ Cardinality(Work!InFlight(BlockJob(n))) # 0
    BY <2>2, <2>3, FS_CardinalityType, FS_EmptySet
  <2> QED
    BY <1>a, <2>1, <2>4 DEF Queued
<1>7. ASSUME UNCHANGED Work!workerVars PROVE Good
  <2>1. pc'[w] # "idle" /\ num'[w] = num[w]
    BY <1>7 DEF Work!workerVars
  <2> QED
    BY <2>1, <1>b
<1> QED
  BY <1>1, <1>2, <1>3, <1>4, <1>5, <1>6, <1>7 DEF Work!FillNext, Work!Succeed,
     Work!Fail, Work!RunPlugin, Work!RerunPlugin, Work!ExpireKey, Work!fillVars

LEMMA CoveredStep ==
    ASSUME NothingDropped, Types, PipeInv, [Next]_vars
    PROVE  Covered'
<1> SUFFICES ASSUME NEW n \in Blocks, n \in Requested'
             PROVE  row'[n] # "absent" \/ Queued(n)' \/ Held(n)'
  BY DEF Covered, Requested
<1>a. row[n] # "absent" => row'[n] # "absent"
  BY StoredStays
<1>1. CASE Work!FillNext
  <2>1. n \in Requested
    BY <1>1, WorkersRequestNothing DEF Requested
  <2> QED
    BY <1>1, <1>a, <2>1, QueuedStep, HeldStep DEF PipeInv, Covered
<1>2. ASSUME UNCHANGED fillVars, UNCHANGED queued, UNCHANGED requests
      PROVE  row'[n] # "absent" \/ Queued(n)' \/ Held(n)'
  <2>1. n \in Requested
    BY <1>2 DEF Requested
  <2> QED
    BY <1>2, <2>1 DEF fillVars, PipeInv, Covered, Queued, Held
<1>3. ASSUME UNCHANGED fillVars, NEW b \in BOOLEAN, Sub!PublishNext(b)
      PROVE  row'[n] # "absent" \/ Queued(n)' \/ Held(n)'
  <2>1. /\ next \in Blocks /\ Requested' = Requested \cup {next}
        /\ \A m \in Blocks \ {next} :
              queued'[BlockJob(m)] = queued[BlockJob(m)]
        /\ queued'[BlockJob(next)] >= queued[BlockJob(next)]
    BY <1>3, TurnRequests
  <2>2. CASE n \in Requested
    <3>1. queued[BlockJob(n)] \in Nat /\ queued'[BlockJob(n)] \in Nat
      BY TypeStep, JobTypes DEF Types, RedisTypes
    <3>2. queued'[BlockJob(n)] >= queued[BlockJob(n)]
      BY <2>1, <3>1
    <3> QED
      BY <1>3, <2>2, <3>1, <3>2 DEF fillVars, PipeInv, Covered, Queued, Held
  <2>3. CASE n \notin Requested
    <3>1. n = next
      BY <2>1, <2>3
    <3>2. Publish(BlockJob(n))
      BY <1>3, <3>1, SharedOperators DEF Sub!PublishNext, PublishFails, Fault,
         NothingDropped
    <3>3. BlockJob(n) \notin limited
      BY <2>3 DEF PipeInv, KeysOfRequested
    <3>4. queued'[BlockJob(n)] = queued[BlockJob(n)] + 1
      BY <3>2, <3>3, JobTypes DEF Publish, Enqueue, Types, RedisTypes
    <3> QED
      BY <3>4, JobTypes DEF Queued, Types, RedisTypes
  <2> QED
    BY <2>2, <2>3
<1>4. ASSUME Sub!SubNext
      PROVE  \/ \E b \in BOOLEAN : Sub!PublishNext(b)
             \/ UNCHANGED queued /\ UNCHANGED requests
  BY <1>4 DEF Sub!SubNext, Sub!SubReader, Sub!SubFetch, Sub!SubNode,
     Sub!Connect, Sub!Parse, Sub!Send, Sub!ReadError, Sub!Wake, Sub!Start,
     Sub!Glance, Sub!LeaveLoop, Sub!Finalize, Sub!Disconnect, Sub!Announce,
     Sub!Restart, Sub!redisVars
<1> QED
  BY <1>1, <1>2, <1>3, <1>4, StepKinds DEF vars, redisVars

(* When nothing drops a job (a failing enqueue, a panic in a goroutine, a  *)
(* failing commit), every block the daemon would not ask for again, now or *)
(* after a restart, is stored, queued or held.                             *)
THEOREM NothingIsLeftBehind ==
    ASSUME NothingDropped
    PROVE  Spec => []NoneLeftBehind
<1>1. Init => DaemonInv /\ PipeInv
  BY DEF Init, RedisInit, Sub!SubInit, Work!FillInit, DaemonInv, PipeInv, NoHole,
     ResumePointsRequested, KeysOfRequested, StoredAfterCommit, Covered, Requested
<1>2. Types /\ FinalInv /\ DaemonInv /\ PipeInv /\ [Next]_vars
        => (DaemonInv /\ PipeInv)'
  BY NoHoleStep, ResumeStep, KeysStep, StoredAfterCommitStep, CoveredStep
     DEF FinalInv, DaemonInv, PipeInv
<1>3. Types /\ DaemonInv /\ PipeInv => NoneLeftBehind
  <2> SUFFICES ASSUME Types, DaemonInv, PipeInv, NEW n \in PassedBy
               PROVE  \/ Work!Stored(n)
                      \/ queued[BlockJob(n)] > 0
                      \/ \E w \in Workers : Work!Holds(w, n)
    BY DEF NoneLeftBehind
  <2> USE Bounds
  <2>1. n \in Requested
    <3>1. CASE lastBlock > 0
      <4>1. lastBlock \in Requested /\ n \in 0..lastBlock
        BY <3>1 DEF PassedBy, Sub!Resume, DaemonInv, ResumePointsRequested, Types,
           DaemonTypes
      <4> QED
        BY <4>1 DEF DaemonInv, NoHole
    <3>2. CASE ~ (lastBlock > 0)
      <4>1. fillFinal \in Requested /\ n \in 0..fillFinal
        BY <3>2 DEF PassedBy, Sub!Resume, DaemonInv, ResumePointsRequested, Types,
           RedisTypes
      <4> QED
        BY <4>1 DEF DaemonInv, NoHole
    <3> QED
      BY <3>1, <3>2
  <2> QED
    BY <2>1 DEF PipeInv, Covered, Queued, Held, Work!Stored, Work!Holds
<1> QED
  BY <1>1, <1>2, <1>3, FinalInvariant, PTL DEF Spec

-----------------------------------------------------------------------------
(* The extrinsic counter in the composed system.  fresh marks the          *)
(* goroutines whose transaction inserted the extrinsics of their block; no *)
(* step of the daemon touches the counter or the goroutines.               *)
CountTypes ==
    /\ extrinsics \subseteq Blocks /\ IsFiniteSet(extrinsics)
    /\ count \in Nat
    /\ decoded \in [Workers -> BOOLEAN]
    /\ fresh \in [Workers -> BOOLEAN]

FreshInv ==
    /\ \A w \in Workers : fresh[w] => pc[w] = "txn" /\ decoded[w]
    /\ \A w \in Workers :
          pc[w] = "txn" /\ decoded[w] /\ ~ fresh[w] => num[w] \in extrinsics

TxnExclusive ==
    \A v, w \in Workers :
        pc[v] = "txn" /\ pc[w] = "txn" /\ num[v] = num[w] => v = w

FreshNew == \A w \in Workers : fresh[w] => num[w] \notin extrinsics

CountInv == CountTypes /\ FreshInv /\ TxnExclusive /\ FreshNew

(* What a step does to the extrinsics, the counter and the fresh           *)
(* goroutines when Redis answers and no transaction rolls back.            *)
CountSame  == UNCHANGED <<extrinsics, count, fresh>>
CountUp(w) == /\ ~ fresh[w]
              /\ fresh' = [fresh EXCEPT ![w] = TRUE]
              /\ count' = count + 1
              /\ UNCHANGED extrinsics
CountIn(w) == /\ fresh[w]
              /\ fresh' = [fresh EXCEPT ![w] = FALSE]
              /\ extrinsics' = extrinsics \cup {num[w]}
              /\ UNCHANGED count

NothingUncounted == {"redis", "sql", "commit", "crash"} \cap Faults = {}

LEMMA CountStep ==
    ASSUME NothingUncounted, CountInv, [Next]_vars
    PROVE  \/ CountSame
           \/ \E w \in Workers : CountUp(w) /\ Work!Insert(w)
           \/ \E w \in Workers : CountIn(w)
<1> USE DEF Work!dbVars, Work!workerVars, Work!ghostVars
<1>a. ~ Work!Fault("redis") /\ ~ Work!Fault("sql")
      /\ ~ Work!Fault("commit") /\ ~ Work!Fault("crash")
  BY DEF NothingUncounted, Work!Fault
<1>1. ASSUME NEW w \in Workers, Work!Insert(w) PROVE CountSame \/ CountUp(w)
  <2>1. ~ fresh[w] /\ fresh \in [Workers -> BOOLEAN]
    BY <1>1 DEF Work!Insert, CountInv, FreshInv, CountTypes
  <2>2. CASE fresh'[w]
    BY <1>1, <1>a, <2>1, <2>2 DEF Work!Insert, Work!Counts, CountUp
  <2>3. CASE ~ fresh'[w]
    BY <1>1, <2>1, <2>3 DEF Work!Insert, Work!Counts, CountSame
  <2> QED
    BY <2>2, <2>3
<1>2. ASSUME NEW w \in Workers, Work!Commit(w) PROVE CountSame \/ CountIn(w)
  <2>1. CASE fresh[w]
    BY <1>2, <2>1 DEF Work!Commit, CountIn, CountInv, FreshInv
  <2>2. CASE ~ fresh[w]
    <3>1. decoded[w] => num[w] \in extrinsics
      BY <1>2, <2>2 DEF Work!Commit, CountInv, FreshInv
    <3> QED
      BY <1>2, <2>2, <3>1 DEF Work!Commit, CountSame, CountInv, CountTypes
  <2> QED
    BY <2>1, <2>2
<1>3. ASSUME NEW w \in Workers, Work!Succeed(w), ~ Work!Insert(w),
             ~ Work!Commit(w)
      PROVE  CountSame
  BY <1>3 DEF Work!Succeed, Work!Receive, Work!Emit, Work!GetBest, Work!SetBest,
     Work!GetFinal, Work!SetFinal, Work!Retry, CountSame
<1>4. ASSUME NEW w \in Workers, Work!Fail(w) PROVE CountSame
  BY <1>4, <1>a DEF Work!Fail, Work!Rollback, Work!CommitFails, Work!FetchFails,
     Work!Panic, Work!EmitFails, Work!RetryFails, CountSame
<1>5. ~ Work!Crash
  BY <1>a DEF Work!Crash
<1>6. CASE Work!FillNext
  BY <1>1, <1>2, <1>3, <1>4, <1>5, <1>6 DEF Work!FillNext, Work!RunPlugin,
     Work!RerunPlugin, Work!ExpireKey, Work!fillVars, CountSame
<1> QED
  BY <1>6, StepKinds DEF vars, fillVars, CountSame

(* Only Insert opens a transaction.                                        *)
LEMMA TxnOpens ==
    ASSUME Types, [Next]_vars, NEW w \in Workers, pc'[w] = "txn"
    PROVE  \/ pc[w] = "txn" /\ num'[w] = num[w]
           \/ Work!Insert(w)
<1> USE DEF Types, WorkerTypes, Work!workerVars
<1>1. ASSUME NEW v \in Workers, Work!Insert(v)
      PROVE  Work!Insert(w) \/ (pc[w] = "txn" /\ num'[w] = num[w])
  BY <1>1 DEF Work!Insert, Work!Goto
<1>2. ASSUME NEW v \in Workers, Work!Succeed(v), ~ Work!Insert(v)
      PROVE  pc[w] = "txn" /\ num'[w] = num[w]
  BY <1>2 DEF Work!Succeed, Work!Receive, Work!Commit, Work!Emit, Work!GetBest,
     Work!SetBest, Work!GetFinal, Work!SetFinal, Work!Retry, Work!Goto,
     Work!Release
<1>3. ASSUME NEW v \in Workers, Work!Fail(v)
      PROVE  pc[w] = "txn" /\ num'[w] = num[w]
  BY <1>3 DEF Work!Fail, Work!FetchFails, Work!Panic, Work!Rollback,
     Work!CommitFails, Work!EmitFails, Work!RetryFails, Work!Goto, Work!Release
<1>4. ~ Work!Crash
  BY DEF Work!Crash
<1>5. CASE Work!FillNext
  BY <1>1, <1>2, <1>3, <1>4, <1>5 DEF Work!FillNext, Work!RunPlugin,
     Work!RerunPlugin, Work!ExpireKey, Work!fillVars
<1> QED
  BY <1>5, StepKinds DEF vars, fillVars

LEMMA ExclusiveStep ==
    ASSUME Types, TxnExclusive, [Next]_vars
    PROVE  TxnExclusive'
<1> SUFFICES ASSUME NEW v \in Workers, NEW w \in Workers,
                    pc'[v] = "txn", pc'[w] = "txn", num'[v] = num'[w], v # w
             PROVE  FALSE
  BY DEF TxnExclusive
<1>1. CASE Work!Insert(v)
  BY <1>1 DEF Work!Insert, Work!Goto, Types, WorkerTypes
<1>2. CASE Work!Insert(w)
  BY <1>2 DEF Work!Insert, Work!Goto, Types, WorkerTypes
<1> QED
  BY <1>1, <1>2, TxnOpens DEF TxnExclusive

LEMMA CountTypeStep ==
    ASSUME NothingUncounted, Types, CountInv, [Next]_vars
    PROVE  /\ extrinsics \subseteq extrinsics'
           /\ extrinsics' \subseteq Blocks /\ IsFiniteSet(extrinsics')
           /\ count' \in Nat
           /\ fresh' \in [Workers -> BOOLEAN]
<1> USE DEF CountInv, CountTypes
<1>1. CASE CountSame
  BY <1>1 DEF CountSame
<1>2. ASSUME NEW w \in Workers, CountUp(w)
      PROVE  /\ extrinsics' = extrinsics /\ count' \in Nat
             /\ fresh' \in [Workers -> BOOLEAN]
  BY <1>2 DEF CountUp
<1>3. ASSUME NEW w \in Workers, CountIn(w)
      PROVE  /\ extrinsics \subseteq extrinsics'
             /\ extrinsics' \subseteq Blocks /\ IsFiniteSet(extrinsics')
             /\ count' = count
             /\ fresh' \in [Workers -> BOOLEAN]
  <2>1. num[w] \in Blocks
    BY <1>3 DEF CountIn, FreshInv, Types, WorkerTypes
  <2>2. IsFiniteSet(extrinsics \cup {num[w]})
    BY FS_AddElement
  <2> QED
    BY <1>3, <2>1, <2>2 DEF CountIn
<1> QED
  BY <1>1, <1>2, <1>3, CountStep

LEMMA FreshStep ==
    ASSUME NothingUncounted, Types, CountInv, [Next]_vars
    PROVE  CountTypes' /\ FreshInv'
<1> DEFINE Good == decoded' \in [Workers -> BOOLEAN] /\ FreshInv'
<1> USE DEF Types, WorkerTypes, CountInv, CountTypes, FreshInv, Work!dbVars,
            Work!workerVars
<1>a. extrinsics \subseteq extrinsics'
  BY CountTypeStep
<1>1. ASSUME NEW w \in Workers, Work!Insert(w) PROVE Good
  BY <1>1 DEF Work!Insert, Work!Goto
<1>2. ASSUME NEW w \in Workers, Work!Commit(w) PROVE Good
  BY <1>2 DEF Work!Commit, Work!Goto
<1>3. ASSUME NEW w \in Workers, Work!Rollback(w) \/ Work!CommitFails(w)
      PROVE  Good
  BY <1>3 DEF Work!Rollback, Work!CommitFails, Work!Goto
<1>4. ~ Work!Crash
  BY DEF Work!Crash, Work!Fault, NothingUncounted
<1>5. ASSUME NEW w \in Workers, NEW n \in Blocks, Work!Receive(w, n) PROVE Good
  BY <1>5, <1>a DEF Work!Receive, Work!Goto
<1>6. ASSUME NEW w \in Workers,
             Work!Emit(w) \/ Work!GetBest(w) \/ Work!SetBest(w)
      PROVE  Good
  BY <1>6, <1>a DEF Work!Emit, Work!GetBest, Work!SetBest, Work!Goto
<1>7. ASSUME NEW w \in Workers,
             Work!GetFinal(w) \/ Work!SetFinal(w) \/ Work!Retry(w)
      PROVE  Good
  BY ZenonT(60), <1>7, <1>a DEF Work!GetFinal, Work!SetFinal, Work!Retry, Work!Goto,
     Work!Release
<1>8. ASSUME NEW w \in Workers, Work!FetchFails(w) \/ Work!EmitFails(w)
      PROVE  Good
  BY <1>8, <1>a DEF Work!FetchFails, Work!EmitFails, Work!Goto
<1>9. ASSUME NEW w \in Workers, Work!Panic(w) \/ Work!RetryFails(w) PROVE Good
  BY ZenonT(60), <1>9, <1>a DEF Work!Panic, Work!RetryFails, Work!Release
<1>10. ASSUME UNCHANGED Work!workerVars PROVE Good
  BY <1>10, <1>a
<1>11. ASSUME Work!FillNext PROVE Good
  BY <1>1, <1>2, <1>3, <1>4, <1>5, <1>6, <1>7, <1>8, <1>9, <1>10, <1>11
     DEF Work!FillNext, Work!Succeed, Work!Fail, Work!RunPlugin,
     Work!RerunPlugin, Work!ExpireKey, Work!fillVars
<1>12. ASSUME UNCHANGED fillVars PROVE Good
  BY <1>10, <1>12 DEF fillVars, Work!workerVars
<1>13. Good
  BY <1>11, <1>12, StepKinds DEF vars
<1> QED
  BY <1>13, CountTypeStep

LEMMA FreshNewStep ==
    ASSUME NothingUncounted, Types, CountInv, [Next]_vars
    PROVE  FreshNew'
<1> SUFFICES ASSUME NEW w \in Workers, fresh'[w], num'[w] \in extrinsics'
             PROVE  FALSE
  BY DEF FreshNew
<1>1. pc'[w] = "txn"
  BY FreshStep DEF FreshInv
<1>2. CASE Work!Insert(w)
  BY <1>2 DEF Work!Insert, CountInv, CountTypes
<1>3. CASE pc[w] = "txn" /\ num'[w] = num[w] /\ ~ Work!Insert(w)
  <2>1. CASE CountSame
    BY <1>3, <2>1 DEF CountSame, CountInv, FreshNew
  <2>2. ASSUME NEW v \in Workers, CountUp(v), Work!Insert(v) PROVE FALSE
    <3>1. v # w
      BY <1>3, <2>2
    <3> QED
      BY <1>3, <2>2, <3>1 DEF CountUp, CountInv, CountTypes, FreshNew
  <2>3. ASSUME NEW v \in Workers, CountIn(v) PROVE FALSE
    <3>1. v # w
      BY <2>3 DEF CountIn, CountInv, CountTypes
    <3>2. num[v] # num[w]
      BY <1>3, <2>3, <3>1 DEF CountIn, CountInv, FreshInv, TxnExclusive
    <3> QED
      BY <1>3, <2>3, <3>1, <3>2 DEF CountIn, CountInv, CountTypes, FreshNew
  <2> QED
    BY <2>1, <2>2, <2>3, CountStep
<1> QED
  BY <1>1, <1>2, <1>3, TxnOpens

(* The counter moves with the two sets it is compared with.                *)
LEMMA CountSizes ==
    ASSUME NothingUncounted, Types, CountInv, CountExact, [Next]_vars
    PROVE  CountExact'
<1> DEFINE F == {w \in Workers : fresh[w]}
<1>a. CountExact <=> Cardinality(extrinsics) + Cardinality(F) = count
  BY SameCardinality DEF CountExact, Work!CountExact, Work!Fresh
<1>b. CountExact' <=> Cardinality(extrinsics') + Cardinality(F') = count'
  BY SameCardinality DEF CountExact, Work!CountExact, Work!Fresh
<1>c. /\ IsFiniteSet(F) /\ IsFiniteSet(extrinsics)
      /\ Cardinality(F) \in Nat /\ Cardinality(extrinsics) \in Nat
  BY WorkersAssumption, FS_Subset, FS_CardinalityType DEF CountInv, CountTypes
<1>1. CASE CountSame
  <2>1. F' = F /\ extrinsics' = extrinsics /\ count' = count
    BY <1>1 DEF CountSame
  <2> QED
    BY <1>a, <1>b, <2>1
<1>2. ASSUME NEW w \in Workers, CountUp(w) PROVE CountExact'
  <2>1. F' = F \cup {w} /\ w \notin F
    BY <1>2 DEF CountUp, CountInv, CountTypes
  <2>2. Cardinality(F') = Cardinality(F) + 1
    BY <1>c, <2>1, FS_AddElement
  <2>3. extrinsics' = extrinsics /\ count' = count + 1
    BY <1>2 DEF CountUp
  <2> QED
    BY <1>a, <1>b, <1>c, <2>2, <2>3
<1>3. ASSUME NEW w \in Workers, CountIn(w) PROVE CountExact'
  <2>1. F' = F \ {w} /\ w \in F
    BY <1>3 DEF CountIn, CountInv, CountTypes
  <2>2. Cardinality(F') = Cardinality(F) - 1
    BY <1>c, <2>1, FS_RemoveElement
  <2>3. /\ extrinsics' = extrinsics \cup {num[w]} /\ num[w] \notin extrinsics
        /\ count' = count
    BY <1>3 DEF CountIn, CountInv, FreshNew
  <2>4. Cardinality(extrinsics') = Cardinality(extrinsics) + 1
    BY <1>c, <2>3, FS_AddElement
  <2> QED
    BY <1>a, <1>b, <1>c, <2>2, <2>3, <2>4
<1> QED
  BY <1>1, <1>2, <1>3, CountStep

(* When Redis answers and no transaction rolls back, the extrinsic counter *)
(* of the whole pipeline is exact: restarts of the daemon, repeated        *)
(* requests and goroutines that fill the same block at the same time count *)
(* no extrinsic twice.                                                     *)
THEOREM PipelineCountsExactly ==
    ASSUME NothingUncounted
    PROVE  Spec => []CountExact
<1>1. Init => CountInv /\ CountExact
  <2> SUFFICES ASSUME Init PROVE CountInv /\ CountExact
    OBVIOUS
  <2>1. /\ extrinsics = {} /\ count = 0 /\ {w \in Workers : fresh[w]} = {}
        /\ \A w \in Workers : ~ fresh[w] /\ pc[w] = "idle"
        /\ decoded \in [Workers -> BOOLEAN] /\ fresh \in [Workers -> BOOLEAN]
    BY DEF Init, Work!FillInit
  <2>2. IsFiniteSet({}) /\ Cardinality({}) = 0
    BY FS_EmptySet
  <2>3. CountInv
    BY <2>1, <2>2 DEF CountInv, CountTypes, FreshInv, TxnExclusive, FreshNew
  <2>4. CountExact
    BY <2>1, <2>2, SameCardinality DEF CountExact, Work!CountExact, Work!Fresh
  <2> QED
    BY <2>3, <2>4
<1>2. Types /\ CountInv /\ CountExact /\ [Next]_vars => (CountInv /\ CountExact)'
  BY FreshStep, ExclusiveStep, FreshNewStep, CountSizes DEF CountInv
<1> QED
  BY <1>1, <1>2, FinalInvariant, PTL DEF Spec
=============================================================================
