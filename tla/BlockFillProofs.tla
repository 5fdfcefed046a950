-------------------------- MODULE BlockFillProofs --------------------------
(***************************************************************************)
(* Proofs about BlockFill, for any set of blocks, any number of plugin     *)
(* jobs per block and any finite set of goroutines.                        *)
(***************************************************************************)
EXTENDS BlockFill, FiniteSetTheorems, TLAPS

-----------------------------------------------------------------------------
(* The two kinds of jobs are jobs, and they differ.                        *)
LEMMA JobTypes ==
    /\ \A n \in Blocks : BlockJob(n) \in Jobs
    /\ \A n \in Blocks, k \in Kinds : PluginJob(n, k) \in Jobs
    /\ \A n, m \in Blocks, k \in Kinds : BlockJob(n) # PluginJob(m, k)
    /\ \A n, m \in Blocks : BlockJob(n) = BlockJob(m) => n = m
    /\ \A n, m \in Blocks, k, l \in Kinds :
          PluginJob(n, k) = PluginJob(m, l) => n = m /\ k = l
    /\ \A n \in Blocks, k \in Kinds : PluginJob(n, k) \in PluginJobs
  BY NumEmitsAssumption DEF BlockJob, PluginJob, Jobs, Kinds, PluginJobs

(* A failure stays within the budget.                                      *)
LEMMA FaultTypes ==
    ASSUME RedisTypeOK, NEW f, Fault(f) PROVE faults' \in 0..MaxFaults
  BY MaxFaultsAssumption DEF RedisTypeOK, Fault

(* Publishing, failing to publish and delivering keep lists and limiter    *)
(* keys well typed.                                                        *)
LEMMA ListTypes ==
    ASSUME RedisTypeOK, NEW j \in Jobs
    PROVE  /\ Publish(j) => queued' \in [Jobs -> Nat] /\ limited' \subseteq Jobs
           /\ ForcePublish(j) => queued' \in [Jobs -> Nat]
                                 /\ limited' \subseteq Jobs
           /\ Deliver(j) => queued' \in [Jobs -> Nat]
           /\ PublishFails(j) => /\ queued' \in [Jobs -> Nat]
                                 /\ limited' \subseteq Jobs
                                 /\ faults' \in 0..MaxFaults
           /\ \A f : Fault(f) => faults' \in 0..MaxFaults
  BY MaxFaultsAssumption DEF RedisTypeOK, Publish, ForcePublish, PublishFails,
     Deliver, Enqueue, Fault

(* A goroutine that moves, or leaves its block, stays well typed.          *)
LEMMA WorkerTypes ==
    ASSUME TypeOK, NEW w \in Workers
    PROVE  /\ \A p \in Steps : Goto(w, p) => pc' \in [Workers -> Steps]
           /\ Release(w) =>
                /\ pc' \in [Workers -> Steps]
                /\ num' \in [Workers -> Blocks \cup {0}]
                /\ \A v \in Workers : pc'[v] # "idle" => num'[v] \in Blocks
                /\ verdict' \in [Workers -> RowStates \ {"absent"}]
                /\ decoded' \in [Workers -> BOOLEAN]
                /\ step' \in [Workers -> 1..(NumEmits + 1)]
<1>1. \A p \in Steps : Goto(w, p) => pc' \in [Workers -> Steps]
  BY DEF TypeOK, Goto
<1>2. ASSUME Release(w) PROVE pc' \in [Workers -> Steps]
  BY <1>2 DEF TypeOK, Release, Steps
<1>3. ASSUME Release(w), NEW v \in Workers
      PROVE  /\ num' \in [Workers -> Blocks \cup {0}]
             /\ pc'[v] # "idle" => num'[v] \in Blocks
  BY <1>3 DEF TypeOK, Release
<1>4. ASSUME Release(w)
      PROVE  /\ verdict' \in [Workers -> RowStates \ {"absent"}]
             /\ decoded' \in [Workers -> BOOLEAN]
             /\ step' \in [Workers -> 1..(NumEmits + 1)]
  BY <1>4, NumEmitsAssumption DEF TypeOK, Release, RowStates
<1> QED
  BY <1>1, <1>2, <1>3, <1>4

(* Every reachable state of the workers is well typed.                     *)
LEMMA TypeStep == TypeOK /\ [Next]_vars => TypeOK'
<1> SUFFICES ASSUME TypeOK, [Next]_vars PROVE TypeOK'
  OBVIOUS
<1>a. RedisTypeOK
  BY DEF TypeOK
<1>1. ASSUME NEW w \in Workers, NEW n \in Blocks, Receive(w, n) PROVE TypeOK'
  <2>1. queued' \in [Jobs -> Nat] /\ faults' \in 0..MaxFaults
    BY <1>1, <1>a, JobTypes, ListTypes DEF Receive, RedisTypeOK
  <2> QED
    BY <1>1, <2>1 DEF TypeOK, RedisTypeOK, Receive, Goto, Steps, dbVars,
       ghostVars
<1>2. ASSUME NEW w \in Workers, Insert(w) PROVE TypeOK'
  <2>1. faults' \in 0..MaxFaults /\ count' \in Nat
    BY <1>2, <1>a, FaultTypes DEF Insert, RedisTypeOK, TypeOK
  <2> QED
    BY <1>2, <2>1 DEF TypeOK, RedisTypeOK, Insert, Goto, Steps, ghostVars
<1>3. ASSUME NEW w \in Workers, FetchFails(w) PROVE TypeOK'
  BY <1>3, <1>a, JobTypes, ListTypes DEF TypeOK, RedisTypeOK, FetchFails, Goto,
     Steps, dbVars, ghostVars
<1>4. ASSUME NEW w \in Workers, Panic(w) PROVE TypeOK'
  BY <1>4, <1>a, JobTypes, ListTypes, WorkerTypes DEF TypeOK, RedisTypeOK,
     Panic, dbVars
<1>5. ASSUME NEW w \in Workers, Rollback(w) PROVE TypeOK'
  BY <1>5, <1>a, JobTypes, ListTypes DEF TypeOK, RedisTypeOK, Rollback, Goto,
     Steps, dbVars, ghostVars
<1>6. ASSUME NEW w \in Workers, Commit(w) PROVE TypeOK'
  <2>1. num[w] \in Blocks
    BY <1>6 DEF TypeOK, Commit
  <2>2. WrittenRow(num[w], verdict[w]) \in RowStates
    BY <2>1 DEF TypeOK, WrittenRow
  <2> QED
    BY <1>6, <2>1, <2>2 DEF TypeOK, RedisTypeOK, Commit, Goto, Steps,
       redisVars, ghostVars
<1>7. ASSUME NEW w \in Workers, CommitFails(w) PROVE TypeOK'
  BY <1>7, <1>a, JobTypes, ListTypes DEF TypeOK, RedisTypeOK, CommitFails, Goto,
     Steps, dbVars, ghostVars
<1>8. ASSUME NEW w \in Workers, Emit(w) PROVE TypeOK'
  <2>1. num[w] \in Blocks /\ step[w] \in Kinds
    BY <1>8 DEF TypeOK, Emit
  <2>2. PluginJob(num[w], step[w]) \in Jobs /\ step[w] + 1 \in 1..(NumEmits + 1)
    BY <2>1, JobTypes, NumEmitsAssumption DEF Kinds
  <2> QED
    BY <1>8, <1>a, <2>2, ListTypes DEF TypeOK, RedisTypeOK, Emit, dbVars,
       ghostVars
<1>9. ASSUME NEW w \in Workers, EmitFails(w) PROVE TypeOK'
  <2>1. num[w] \in Blocks /\ step[w] \in Kinds
    BY <1>9 DEF TypeOK, EmitFails
  <2> QED
    BY <1>9, <1>a, <2>1, JobTypes, ListTypes DEF TypeOK, RedisTypeOK, EmitFails,
       Goto, Steps, dbVars, ghostVars
<1>10. ASSUME NEW w \in Workers, GetBest(w) PROVE TypeOK'
  <2>1. faults' \in 0..MaxFaults
    BY <1>10, <1>a, FaultTypes DEF GetBest, ReadMark, RedisTypeOK
  <2> QED
    BY <1>10, <2>1 DEF TypeOK, RedisTypeOK, GetBest, Goto, Steps, dbVars,
       ghostVars
<1>11. ASSUME NEW w \in Workers, SetBest(w) PROVE TypeOK'
  <2>1. faults' \in 0..MaxFaults /\ fillBest' \in Blocks \cup {0}
    BY <1>11, <1>a, FaultTypes DEF SetBest, RedisTypeOK, TypeOK
  <2> QED
    BY <1>11, <2>1 DEF TypeOK, RedisTypeOK, SetBest, Goto, Steps, dbVars,
       ghostVars
<1>12. ASSUME NEW w \in Workers, GetFinal(w) PROVE TypeOK'
  <2>1. faults' \in 0..MaxFaults
    BY <1>12, <1>a, FaultTypes DEF GetFinal, ReadMark, RedisTypeOK
  <2>2. CASE Release(w)
    BY <1>12, <2>1, <2>2, WorkerTypes DEF TypeOK, RedisTypeOK, GetFinal,
       dbVars, ghostVars
  <2>3. CASE Goto(w, "setFinal") /\ UNCHANGED <<num, verdict, decoded, step>>
    BY <1>12, <2>1, <2>3 DEF TypeOK, RedisTypeOK, GetFinal, Goto, Steps,
       dbVars, ghostVars
  <2> QED
    BY <1>12, <2>2, <2>3 DEF GetFinal
<1>13. ASSUME NEW w \in Workers, SetFinal(w) PROVE TypeOK'
  <2>1. faults' \in 0..MaxFaults /\ fillFinal' \in Blocks \cup {0}
    BY <1>13, <1>a, FaultTypes DEF SetFinal, RedisTypeOK, TypeOK
  <2> QED
    BY <1>13, <2>1, WorkerTypes DEF TypeOK, RedisTypeOK, SetFinal, dbVars,
       ghostVars
<1>14. ASSUME NEW w \in Workers, Retry(w) PROVE TypeOK'
  <2>1. BlockJob(num[w]) \in Jobs
    BY <1>14, JobTypes DEF TypeOK, Retry
  <2> QED
    BY <1>14, <1>a, <2>1, ListTypes, WorkerTypes DEF TypeOK, RedisTypeOK, Retry,
       Requeue, dbVars, ghostVars
<1>15. ASSUME NEW w \in Workers, RetryFails(w) PROVE TypeOK'
  BY <1>15, <1>a, JobTypes, ListTypes, WorkerTypes DEF TypeOK, RedisTypeOK,
     RetryFails, dbVars
<1>16. CASE Crash
  <2>1. \A j \in Jobs : Cardinality(InFlight(j)) \in Nat
    BY WorkersAssumption, FS_Subset, FS_CardinalityType DEF InFlight
  <2>2. queued' \in [Jobs -> Nat]
    BY <1>16, <2>1 DEF Crash, TypeOK, RedisTypeOK
  <2>3. faults' \in 0..MaxFaults
    BY <1>16, <1>a, JobTypes, MaxFaultsAssumption DEF Crash, Fault, RedisTypeOK
  <2> QED
    BY <1>16, <2>2, <2>3, NumEmitsAssumption DEF TypeOK, RedisTypeOK, Crash,
       Steps, RowStates, dbVars, ghostVars
<1>17. ASSUME NEW n \in Blocks, NEW k \in Kinds, RunPlugin(n, k) PROVE TypeOK'
  BY <1>17, <1>a, JobTypes, ListTypes DEF TypeOK, RedisTypeOK, RunPlugin,
     dbVars, workerVars
<1>18. ASSUME NEW n \in Blocks, NEW k \in Kinds, NEW b \in BOOLEAN,
              RerunPlugin(n, k, b)
       PROVE  TypeOK'
  BY <1>18, <1>a, JobTypes, ListTypes DEF TypeOK, RedisTypeOK, RerunPlugin,
     dbVars, workerVars
<1>19. ASSUME NEW j \in Jobs, ExpireKey(j) PROVE TypeOK'
  BY <1>19 DEF TypeOK, RedisTypeOK, ExpireKey, Expire, fillVars, dbVars,
     workerVars, ghostVars
<1>20. ASSUME NEW n \in Blocks, Request(n) PROVE TypeOK'
  BY <1>20, <1>a, JobTypes, ListTypes DEF TypeOK, RedisTypeOK, Request,
     fillVars, dbVars, workerVars, ghostVars
<1>21. ASSUME NEW n \in Blocks, RequestFails(n) PROVE TypeOK'
  BY <1>21, <1>a, JobTypes, ListTypes DEF TypeOK, RedisTypeOK, RequestFails,
     dbVars, workerVars
<1>22. CASE UNCHANGED vars
  BY <1>22 DEF vars, redisVars, fillVars, dbVars, workerVars, ghostVars,
     TypeOK, RedisTypeOK
<1> QED
  BY <1>1, <1>2, <1>3, <1>4, <1>5, <1>6, <1>7, <1>8, <1>9, <1>10, <1>11,
     <1>12, <1>13, <1>14, <1>15, <1>16, <1>17, <1>18, <1>19, <1>20, <1>21,
     <1>22 DEF Next, FillNext, Succeed, Fail

(* Type correctness: whatever fails and in whatever order, the state of    *)
(* Redis, of the database and of the goroutines stays well formed.         *)
THEOREM TypeCorrect == Spec => []TypeOK
<1>1. Init => TypeOK
  BY NumEmitsAssumption, MaxFaultsAssumption DEF Init, RedisInit, FillInit,
     TypeOK, RedisTypeOK, Steps, RowStates
<1> QED
  BY <1>1, TypeStep, PTL DEF Spec

-----------------------------------------------------------------------------
(* Rows and extrinsics: only Commit writes them.                           *)
LEMMA RowsStay ==
    ASSUME TypeOK, [Next]_vars
    PROVE  /\ \A n \in Archived : row'[n] = row[n]
           /\ extrinsics \subseteq extrinsics'
<1> DEFINE Same == row' = row /\ extrinsics' = extrinsics
<1>1. ASSUME NEW w \in Workers, Commit(w)
      PROVE  /\ \A n \in Archived : row'[n] = row[n]
             /\ extrinsics \subseteq extrinsics'
  BY <1>1 DEF TypeOK, Archived, Stored, Commit, WrittenRow
<1>2. ASSUME NEW w \in Workers, Succeed(w), ~ Commit(w) PROVE Same
  BY <1>2 DEF Succeed, Receive, Insert, Emit, GetBest, SetBest, GetFinal,
     SetFinal, Retry, dbVars
<1>3. ASSUME NEW w \in Workers, Fail(w) PROVE Same
  BY <1>3 DEF Fail, FetchFails, Panic, Rollback, CommitFails, EmitFails,
     RetryFails, dbVars
<1>4. CASE Crash
  BY <1>4 DEF Crash, dbVars
<1>5. ASSUME NEW n \in Blocks, NEW k \in Kinds, RunPlugin(n, k) PROVE Same
  BY <1>5 DEF RunPlugin, dbVars
<1>6. ASSUME NEW n \in Blocks, NEW k \in Kinds, NEW b \in BOOLEAN,
             RerunPlugin(n, k, b)
      PROVE  Same
  BY <1>6 DEF RerunPlugin, dbVars
<1>7. ASSUME NEW j \in Jobs, ExpireKey(j) PROVE Same
  BY <1>7 DEF ExpireKey, fillVars, dbVars
<1>8. ASSUME NEW n \in Blocks, Request(n) \/ RequestFails(n) PROVE Same
  BY <1>8 DEF Request, RequestFails, fillVars, dbVars
<1>9. CASE UNCHANGED vars
  BY <1>9 DEF vars, fillVars, dbVars
<1> QED
  BY <1>1, <1>2, <1>3, <1>4, <1>5, <1>6, <1>7, <1>8, <1>9 DEF Next, FillNext

(* A row, once committed, is never rewritten, and the extrinsics of a      *)
(* block are never taken away, however many goroutines fill it and         *)
(* whatever they decoded.                                                  *)
THEOREM RowsAreWrittenOnce == Spec => WrittenOnce
<1>1. TypeOK /\ [Next]_vars =>
        [/\ \A n \in Archived : row'[n] = row[n]
         /\ extrinsics \subseteq extrinsics']_vars
  BY RowsStay
<1> QED
  BY <1>1, TypeCorrect, PTL DEF Spec, WrittenOnce

-----------------------------------------------------------------------------
(* Commit before publish.  A goroutine that publishes plugin jobs or moves *)
(* a watermark fills a stored block; that is what makes the jobs and the   *)
(* watermarks name stored blocks.                                          *)
StoredAtEmit ==
    \A w \in Workers :
        pc[w] \in {"emit", "setBest", "getFinal", "setFinal"} => Stored(num[w])

StoreInv == StoredAtEmit /\ JobsOfStoredBlocks /\ WatermarkStored

LEMMA StoredAtEmitStep ==
    ASSUME "commit" \notin Faults, TypeOK, StoreInv, [Next]_vars
    PROVE  StoredAtEmit'
<1>a. TypeOK'
  BY TypeStep
<1>b. \A n \in Blocks : Stored(n) => Stored(n)'
  BY RowsStay DEF Archived, Stored
<1> USE DEF StoreInv, StoredAtEmit
<1>1. ASSUME NEW w \in Workers, Commit(w) PROVE StoredAtEmit'
  <2>1. Stored(num[w])'
    BY <1>1 DEF TypeOK, Commit, WrittenRow, Stored, RowStates
  <2> QED
    BY <1>1, <1>b, <2>1 DEF TypeOK, Commit, Goto
<1>2. ASSUME NEW w \in Workers, Succeed(w), ~ Commit(w) PROVE StoredAtEmit'
  BY <1>2, <1>b DEF TypeOK, Succeed, Receive, Insert, Emit, GetBest, SetBest,
     GetFinal, SetFinal, Retry, Goto, Release
<1>3. ASSUME NEW w \in Workers, Fail(w) PROVE StoredAtEmit'
  BY <1>3, <1>b DEF TypeOK, Fail, FetchFails, Panic, Rollback, CommitFails,
     EmitFails, RetryFails, Fault, Goto, Release
<1>4. CASE Crash
  BY <1>4 DEF Crash
<1>5. CASE UNCHANGED <<pc, num>>
  BY <1>5, <1>b DEF TypeOK
<1> QED
  BY <1>1, <1>2, <1>3, <1>4, <1>5 DEF Next, FillNext, RunPlugin, RerunPlugin,
     ExpireKey, Request, RequestFails, vars, fillVars, workerVars

LEMMA JobsOfStoredStep ==
    ASSUME "commit" \notin Faults, TypeOK, StoreInv, [Next]_vars
    PROVE  JobsOfStoredBlocks'
<1>a. \A n \in Blocks : Stored(n) => Stored(n)'
  BY RowsStay DEF Archived, Stored
<1> SUFFICES ASSUME NEW n \in Blocks, NEW k \in Kinds, Emitted(n, k)',
                    ~ Emitted(n, k)
             PROVE  Stored(n)
  BY <1>a DEF StoreInv, JobsOfStoredBlocks
<1>b. PluginJob(n, k) \in Jobs /\ \A m \in Blocks : PluginJob(n, k) # BlockJob(m)
  BY JobTypes
<1> USE DEF Emitted, TypeOK, RedisTypeOK
<1>1. ASSUME NEW w \in Workers, Emit(w) PROVE Stored(n)
  <2>1. num[w] \in Blocks /\ step[w] \in Kinds
    BY <1>1 DEF Emit
  <2>2. PluginJob(num[w], step[w]) = PluginJob(n, k)
    BY <1>1, <1>b, <2>1, JobTypes DEF Emit, Publish, Enqueue, ghostVars
  <2>3. num[w] = n
    BY <2>1, <2>2, JobTypes
  <2> QED
    BY <1>1, <2>3 DEF Emit, StoreInv, StoredAtEmit
<1>2. ASSUME NEW w \in Workers, Succeed(w), ~ Emit(w) PROVE FALSE
  BY <1>2, <1>b DEF Succeed, Receive, Insert, Commit, GetBest, SetBest,
     GetFinal, SetFinal, Retry, Requeue, Deliver, ForcePublish, Enqueue, redisVars,
     ghostVars
<1>3. ASSUME NEW w \in Workers, Fail(w) PROVE FALSE
  BY <1>3, <1>b DEF Fail, FetchFails, Panic, Rollback, CommitFails, EmitFails,
     RetryFails, PublishFails, ghostVars
<1>4. CASE Crash
  <2>1. InFlight(PluginJob(n, k)) = {}
    BY <1>b DEF InFlight
  <2>2. Cardinality(InFlight(PluginJob(n, k))) = 0
    BY <2>1, FS_EmptySet
  <2>3. queued'[PluginJob(n, k)] =
          queued[PluginJob(n, k)] + Cardinality(InFlight(PluginJob(n, k)))
    BY <1>4, <1>b DEF Crash
  <2>4. queued'[PluginJob(n, k)] = queued[PluginJob(n, k)]
    BY <1>b, <2>2, <2>3
  <2> QED
    BY <1>4, <2>4 DEF Crash, ghostVars
<1>5. ASSUME NEW m \in Blocks, NEW l \in Kinds, RunPlugin(m, l) PROVE FALSE
  BY <1>5, <1>b, JobTypes DEF RunPlugin, Deliver
<1>6. ASSUME NEW m \in Blocks, NEW l \in Kinds, NEW b \in BOOLEAN,
             RerunPlugin(m, l, b)
      PROVE  FALSE
  BY <1>6, <1>b DEF RerunPlugin
<1>7. ASSUME NEW j \in Jobs, ExpireKey(j) PROVE FALSE
  BY <1>7 DEF ExpireKey, Expire, fillVars, ghostVars
<1>8. ASSUME NEW m \in Blocks, Request(m) \/ RequestFails(m) PROVE FALSE
  BY <1>8, <1>b, JobTypes DEF Request, RequestFails, Publish, PublishFails,
     Enqueue, fillVars, ghostVars
<1>9. CASE UNCHANGED vars
  BY <1>9 DEF vars, redisVars, fillVars, ghostVars
<1> QED
  BY <1>1, <1>2, <1>3, <1>4, <1>5, <1>6, <1>7, <1>8, <1>9 DEF Next, FillNext

LEMMA WatermarkStep ==
    ASSUME TypeOK, StoreInv, [Next]_vars
    PROVE  WatermarkStored'
<1>a. \A n \in Blocks : Stored(n) => Stored(n)'
  BY RowsStay DEF Archived, Stored
<1> USE DEF StoreInv, WatermarkStored, StoredAtEmit, TypeOK, RedisTypeOK
<1>1. ASSUME NEW w \in Workers, SetBest(w) \/ SetFinal(w)
      PROVE  WatermarkStored'
  BY <1>1, <1>a DEF SetBest, SetFinal
<1>2. CASE UNCHANGED <<fillBest, fillFinal>>
  BY <1>2, <1>a
<1>3. ASSUME NEW w \in Workers, Succeed(w), ~ SetBest(w), ~ SetFinal(w)
      PROVE  UNCHANGED <<fillBest, fillFinal>>
  BY <1>3 DEF Succeed, Receive, Insert, Commit, Emit, GetBest, GetFinal, Retry,
     redisVars
<1>4. ASSUME NEW w \in Workers, Fail(w)
      PROVE  UNCHANGED <<fillBest, fillFinal>>
  BY <1>4 DEF Fail, FetchFails, Panic, Rollback, CommitFails, EmitFails,
     RetryFails
<1> QED
  BY <1>1, <1>2, <1>3, <1>4 DEF Next, FillNext, Crash, RunPlugin, RerunPlugin,
     ExpireKey, Expire, Request, RequestFails, vars, redisVars

LEMMA StoreInvariant ==
    ASSUME "commit" \notin Faults
    PROVE  Spec => [](TypeOK /\ StoreInv)
<1>1. Init => StoreInv
  BY JobTypes DEF Init, RedisInit, FillInit, StoreInv, StoredAtEmit,
     JobsOfStoredBlocks, WatermarkStored, Emitted
<1>2. TypeOK /\ StoreInv /\ [Next]_vars => StoreInv'
  BY StoredAtEmitStep, JobsOfStoredStep, WatermarkStep DEF StoreInv
<1> QED
  BY <1>1, <1>2, TypeCorrect, PTL DEF Spec

(* As long as no commit fails, a plugin job exists only for a stored       *)
(* block: the plugin that runs it finds the row it reads.                  *)
THEOREM PluginJobsOfStoredBlocks ==
    ASSUME "commit" \notin Faults
    PROVE  Spec => []JobsOfStoredBlocks
<1>1. StoreInv => JobsOfStoredBlocks
  BY DEF StoreInv
<1> QED
  BY <1>1, StoreInvariant, PTL

(* ... and the watermarks, which goroutines read and write without a       *)
(* transaction, always name stored blocks.                                 *)
THEOREM WatermarksNameStoredBlocks ==
    ASSUME "commit" \notin Faults
    PROVE  Spec => []WatermarkStored
<1>1. StoreInv => WatermarkStored
  BY DEF StoreInv
<1> QED
  BY <1>1, StoreInvariant, PTL

-----------------------------------------------------------------------------
(* No block is forgotten.  The limiter drops a request only if its key is  *)
(* alive, and then the block was asked for before.                         *)
KeysOfRequested == \A n \in Blocks : BlockJob(n) \in limited => n \in Requested

PipeInv == KeysOfRequested /\ NothingForgotten

LEMMA RequestedGrows ==
    ASSUME TypeOK, [Next]_vars
    PROVE  /\ Requested \subseteq Requested'
           /\ lost \subseteq lost'
           /\ \A n \in Blocks : n \in Requested' /\ n \notin Requested =>
                 Request(n) \/ RequestFails(n)
<1> USE DEF Requested, TypeOK, RedisTypeOK
<1>1. CASE UNCHANGED requests /\ lost \subseteq lost'
  BY <1>1
<1>2. ASSUME NEW n \in Blocks, Request(n) \/ RequestFails(n)
      PROVE  /\ requests' = [requests EXCEPT ![n] = @ + 1]
             /\ lost \subseteq lost'
  BY <1>2 DEF Request, RequestFails, fillVars, ghostVars
<1>3. ASSUME NEW w \in Workers, Succeed(w)
      PROVE  UNCHANGED requests /\ lost \subseteq lost'
  BY <1>3 DEF Succeed, Receive, Insert, Commit, Emit, GetBest, SetBest,
     GetFinal, SetFinal, Retry, redisVars, ghostVars
<1>4. ASSUME NEW w \in Workers, Fail(w)
      PROVE  UNCHANGED requests /\ lost \subseteq lost'
  BY <1>4 DEF Fail, FetchFails, Panic, Rollback, CommitFails, EmitFails,
     RetryFails, ghostVars
<1>5. ASSUME FillNext, ~ \E w \in Workers : Succeed(w) \/ Fail(w)
      PROVE  UNCHANGED requests /\ lost \subseteq lost'
  BY <1>5 DEF FillNext, Crash, RunPlugin, RerunPlugin, ExpireKey, Expire,
     fillVars, ghostVars
<1>6. CASE UNCHANGED vars
  BY <1>6 DEF vars, redisVars, fillVars, ghostVars
<1>7. CASE FillNext
  BY <1>1, <1>3, <1>4, <1>5, <1>7
<1>8. ASSUME NEW n \in Blocks, Request(n) \/ RequestFails(n)
      PROVE  /\ Requested \subseteq Requested'
             /\ lost \subseteq lost'
             /\ \A m \in Blocks : m \in Requested' /\ m \notin Requested => m = n
  BY <1>2, <1>8
<1> QED
  BY <1>1, <1>6, <1>7, <1>8 DEF Next

LEMMA KeysStep ==
    ASSUME TypeOK, PipeInv, [Next]_vars
    PROVE  KeysOfRequested'
<1> SUFFICES ASSUME NEW n \in Blocks, BlockJob(n) \in limited',
                    BlockJob(n) \notin limited
             PROVE  n \in Requested'
  BY RequestedGrows DEF PipeInv, KeysOfRequested
<1>1. ASSUME NEW m \in Blocks, Request(m) \/ RequestFails(m)
      PROVE  n \in Requested'
  <2>1. m = n
    BY <1>1, JobTypes DEF Request, RequestFails, Publish, PublishFails
  <2> QED
    BY <1>1, <2>1 DEF Request, RequestFails, Requested, TypeOK, RedisTypeOK
<1>2. ASSUME NEW w \in Workers, Emit(w) \/ EmitFails(w) PROVE FALSE
  <2>1. num[w] \in Blocks /\ step[w] \in Kinds
    BY <1>2 DEF Emit, EmitFails, TypeOK
  <2> QED
    BY <1>2, <2>1, JobTypes DEF Emit, EmitFails, Publish, PublishFails
<1>3. ASSUME NEW w \in Workers, Succeed(w), ~ Emit(w) PROVE FALSE
  BY <1>3 DEF Succeed, Receive, Insert, Commit, GetBest, SetBest, GetFinal,
     SetFinal, Retry, Requeue, ForcePublish, redisVars
<1>4. ASSUME NEW w \in Workers, Fail(w), ~ EmitFails(w) PROVE FALSE
  BY <1>4 DEF Fail, FetchFails, Panic, Rollback, CommitFails, RetryFails
<1>5. ASSUME NEW j \in Jobs, ExpireKey(j) PROVE FALSE
  BY <1>5 DEF ExpireKey, Expire
<1>6. CASE UNCHANGED limited
  BY <1>6
<1> QED
  BY <1>1, <1>2, <1>3, <1>4, <1>5, <1>6 DEF Next, FillNext, Crash, RunPlugin,
     RerunPlugin, vars, redisVars

(* Where a block asked for may be.                                         *)
Waiting(n) == queued[BlockJob(n)] > 0
Held(n)    == \E w \in Workers : Holds(w, n)

(* A job that waits goes on waiting, or a goroutine takes it.              *)
LEMMA WaitingStep ==
    ASSUME TypeOK, [Next]_vars, NEW n \in Blocks, Waiting(n)
    PROVE  Waiting(n)' \/ Held(n)' \/ Stored(n)'
<1>a. BlockJob(n) \in Jobs
  BY JobTypes
<1> USE DEF Waiting, TypeOK, RedisTypeOK
<1>1. ASSUME NEW w \in Workers, NEW m \in Blocks, Receive(w, m)
      PROVE  Waiting(n)' \/ Held(n)' \/ Stored(n)'
  <2>1. CASE m # n
    BY <1>1, <1>a, <2>1, JobTypes DEF Receive, Deliver
  <2>2. CASE m = n /\ row[n] = "good"
    BY <1>1, <2>2 DEF Receive, Stored, dbVars
  <2>3. CASE m = n /\ row[n] # "good"
    BY <1>1, <2>3 DEF Receive, Held, Holds, Goto
  <2> QED
    BY <2>1, <2>2, <2>3
<1>2. ASSUME NEW w \in Workers, Succeed(w), ~ \E m \in Blocks : Receive(w, m)
      PROVE  Waiting(n)'
  <2>1. ASSUME Emit(w) PROVE Waiting(n)'
    <3>1. num[w] \in Blocks /\ step[w] \in Kinds
      BY <2>1 DEF Emit
    <3> QED
      BY <1>a, <2>1, <3>1, JobTypes DEF Emit, Publish, Enqueue
  <2>2. ASSUME Retry(w) PROVE Waiting(n)'
    <3>1. BlockJob(num[w]) \in Jobs
      BY <2>2, JobTypes DEF Retry
    <3> QED
      BY <1>a, <2>2, <3>1 DEF Retry, Requeue, ForcePublish, Enqueue
  <2>3. CASE UNCHANGED queued
    BY <2>3
  <2> QED
    BY <1>2, <2>1, <2>2, <2>3 DEF Succeed, Insert, Commit, GetBest, SetBest,
       GetFinal, SetFinal, redisVars
<1>3. ASSUME NEW w \in Workers, Fail(w) PROVE Waiting(n)'
  BY <1>3 DEF Fail, FetchFails, Panic, Rollback, CommitFails, EmitFails,
     RetryFails, PublishFails
<1>4. CASE Crash
  <2>1. Cardinality(InFlight(BlockJob(n))) \in Nat
    BY WorkersAssumption, FS_Subset, FS_CardinalityType DEF InFlight
  <2> QED
    BY <1>4, <1>a, <2>1 DEF Crash
<1>5. ASSUME NEW m \in Blocks, NEW l \in Kinds, RunPlugin(m, l)
      PROVE  Waiting(n)'
  BY <1>5, <1>a, JobTypes DEF RunPlugin, Deliver
<1>6. ASSUME NEW m \in Blocks, Request(m) PROVE Waiting(n)'
  BY <1>6, <1>a, JobTypes DEF Request, Publish, Enqueue
<1>7. CASE UNCHANGED queued
  BY <1>7
<1> QED
  BY <1>1, <1>2, <1>3, <1>4, <1>5, <1>6, <1>7 DEF Next, FillNext, RerunPlugin,
     ExpireKey, Expire, RequestFails, PublishFails, vars, redisVars

(* A goroutine that holds a block goes on, stores it, returns its job to   *)
(* the list, or loses it.                                                  *)
LEMMA HeldStep ==
    ASSUME TypeOK, StoreInv, [Next]_vars, NEW n \in Blocks, Held(n)
    PROVE  Waiting(n)' \/ Held(n)' \/ Stored(n)' \/ n \in lost'
<1>a. BlockJob(n) \in Jobs
  BY JobTypes
<1>b. Stored(n) => Stored(n)'
  BY RowsStay DEF Archived, Stored
<1>1. PICK w \in Workers : Holds(w, n)
  BY DEF Held
<1> USE DEF TypeOK, RedisTypeOK, Holds, Held
<1>2. ASSUME NEW v \in Workers, v # w, Succeed(v) \/ Fail(v) PROVE Holds(w, n)'
  BY <1>1, <1>2 DEF Succeed, Fail, Receive, Insert, Commit, Emit, GetBest,
     SetBest, GetFinal, SetFinal, Retry, FetchFails, Panic, Rollback,
     CommitFails, EmitFails, RetryFails, Goto, Release
<1>3. ASSUME Insert(w) \/ Commit(w) \/ Emit(w) \/ GetBest(w) \/ SetBest(w)
      PROVE  Holds(w, n)'
  BY <1>1, <1>3 DEF Insert, Commit, Emit, GetBest, SetBest, Goto
<1>4. ASSUME FetchFails(w) \/ Rollback(w) \/ CommitFails(w) \/ EmitFails(w)
      PROVE  Holds(w, n)'
  BY <1>1, <1>4 DEF FetchFails, Rollback, CommitFails, EmitFails, Goto
<1>5. ASSUME GetFinal(w) \/ SetFinal(w) PROVE Stored(n)'
  BY <1>1, <1>5, <1>b DEF GetFinal, SetFinal, StoreInv, StoredAtEmit
<1>6. ASSUME Retry(w) PROVE Waiting(n)'
  BY <1>1, <1>6, <1>a DEF Retry, Requeue, ForcePublish, Enqueue, Waiting
<1>7. ASSUME Panic(w) \/ RetryFails(w) PROVE n \in lost'
  BY <1>1, <1>7 DEF Panic, RetryFails
<1>8. ASSUME NEW m \in Blocks, Receive(w, m) PROVE FALSE
  BY <1>1, <1>8 DEF Receive
<1>9. CASE Crash
  <2>1. w \in InFlight(BlockJob(n))
    BY <1>1 DEF InFlight
  <2>2. IsFiniteSet(InFlight(BlockJob(n)))
    BY WorkersAssumption, FS_Subset DEF InFlight
  <2>3. Cardinality(InFlight(BlockJob(n))) \in Nat \ {0}
    BY <2>1, <2>2, FS_CardinalityType, FS_EmptySet
  <2> QED
    BY <1>9, <1>a, <2>3 DEF Crash, Waiting
<1>10. CASE UNCHANGED <<pc, num>>
  BY <1>1, <1>10
<1> QED
  BY <1>2, <1>3, <1>4, <1>5, <1>6, <1>7, <1>8, <1>9, <1>10 DEF Next, FillNext,
     Succeed, Fail, RunPlugin, RerunPlugin, ExpireKey, Request, RequestFails,
     vars, fillVars, workerVars

LEMMA NothingForgottenStep ==
    ASSUME TypeOK, StoreInv, PipeInv, [Next]_vars
    PROVE  NothingForgotten'
<1> SUFFICES ASSUME NEW n \in Blocks, n \in Requested'
             PROVE  Waiting(n)' \/ Held(n)' \/ Stored(n)' \/ n \in lost'
  BY DEF NothingForgotten, Waiting, Held, Requested
<1>1. CASE n \in Requested
  <2>1. Waiting(n) \/ Held(n) \/ Stored(n) \/ n \in lost
    BY <1>1 DEF PipeInv, NothingForgotten, Waiting, Held
  <2>2. CASE Stored(n)
    BY <2>2, RowsStay DEF Archived, Stored
  <2> QED
    BY <2>1, <2>2, WaitingStep, HeldStep, RequestedGrows
<1>2. CASE n \notin Requested
  <2>1. Request(n) \/ RequestFails(n)
    BY <1>2, RequestedGrows
  <2>2. CASE Request(n)
    <3>1. BlockJob(n) \notin limited
      BY <1>2 DEF PipeInv, KeysOfRequested
    <3> QED
      BY <2>2, <3>1, JobTypes DEF Request, Publish, Enqueue, Waiting, TypeOK,
         RedisTypeOK
  <2>3. CASE RequestFails(n)
    BY <2>3 DEF RequestFails
  <2> QED
    BY <2>1, <2>2, <2>3
<1> QED
  BY <1>1, <1>2

(* As long as no commit fails, a block somebody asked for is stored, waits *)
(* in its list, is held by a goroutine, or was dropped by one of the three *)
(* steps that drop jobs: a panic, a failed re-publish, a failed request.   *)
THEOREM NoBlockIsForgotten ==
    ASSUME "commit" \notin Faults
    PROVE  Spec => []NothingForgotten
<1>1. Init => PipeInv
  BY DEF Init, RedisInit, PipeInv, KeysOfRequested, NothingForgotten, Requested
<1>2. TypeOK /\ StoreInv /\ PipeInv /\ [Next]_vars => PipeInv'
  BY KeysStep, NothingForgottenStep DEF PipeInv
<1>3. PipeInv => NothingForgotten
  BY DEF PipeInv
<1> QED
  BY <1>1, <1>2, <1>3, StoreInvariant, PTL DEF Spec

-----------------------------------------------------------------------------
(* The extrinsic counter.  fresh marks the goroutines whose transaction    *)
(* inserted the extrinsics of their block; a goroutine that decoded them   *)
(* and is not fresh found them committed.                                  *)
FreshInv ==
    /\ \A w \in Workers : fresh[w] => pc[w] = "txn" /\ decoded[w]
    /\ \A w \in Workers :
          pc[w] = "txn" /\ decoded[w] /\ ~ fresh[w] => num[w] \in extrinsics

(* What a step does to the extrinsics, the counter and the fresh           *)
(* goroutines.                                                             *)
CountSame   == UNCHANGED <<extrinsics, count, fresh>>
CountUp(w)  == /\ ~ fresh[w]
               /\ fresh' = [fresh EXCEPT ![w] = TRUE]
               /\ count' = count + 1
               /\ UNCHANGED extrinsics
CountIn(w)  == /\ fresh[w]
               /\ fresh' = [fresh EXCEPT ![w] = FALSE]
               /\ extrinsics' = extrinsics \cup {num[w]}
               /\ UNCHANGED count
CountOut    == /\ fresh' \in [Workers -> BOOLEAN]
               /\ \A w \in Workers : fresh'[w] => fresh[w]
               /\ UNCHANGED <<extrinsics, count>>

LEMMA CountStep ==
    ASSUME "redis" \notin Faults, TypeOK, FreshInv, [Next]_vars
    PROVE  \/ CountSame
           \/ \E w \in Workers : CountUp(w) /\ Insert(w)
           \/ \E w \in Workers : CountIn(w) /\ Commit(w)
           \/ CountOut /\ \E f \in {"sql", "commit", "crash"} : Fault(f)
<1> USE DEF TypeOK, FreshInv
<1>1. ASSUME NEW w \in Workers, Insert(w) PROVE CountSame \/ CountUp(w)
  <2>1. ~ fresh[w]
    BY <1>1 DEF Insert
  <2>2. CASE fresh'[w]
    BY <1>1, <2>1, <2>2 DEF Insert, Counts, CountUp, Fault
  <2>3. CASE ~ fresh'[w]
    BY <1>1, <2>1, <2>3 DEF Insert, Counts, CountSame
  <2> QED
    BY <2>2, <2>3
<1>2. ASSUME NEW w \in Workers, Commit(w) PROVE CountSame \/ CountIn(w)
  <2>1. CASE fresh[w]
    BY <1>2, <2>1 DEF Commit, CountIn
  <2>2. CASE ~ fresh[w]
    BY <1>2, <2>2 DEF Commit, CountSame
  <2> QED
    BY <2>1, <2>2
<1>3. ASSUME NEW w \in Workers, Rollback(w) \/ CommitFails(w)
      PROVE  CountOut /\ \E f \in {"sql", "commit", "crash"} : Fault(f)
  BY <1>3 DEF Rollback, CommitFails, CountOut, dbVars
<1>4. CASE Crash
  BY <1>4 DEF Crash, CountOut, dbVars
<1>5. ASSUME NEW w \in Workers, Succeed(w), ~ Insert(w), ~ Commit(w)
      PROVE  CountSame
  BY <1>5 DEF Succeed, Receive, Emit, GetBest, SetBest, GetFinal, SetFinal,
     Retry, CountSame, dbVars
<1>6. ASSUME NEW w \in Workers, Fail(w), ~ Rollback(w), ~ CommitFails(w)
      PROVE  CountSame
  BY <1>6 DEF Fail, FetchFails, Panic, EmitFails, RetryFails, CountSame, dbVars
<1>7. ASSUME Next, ~ Crash, ~ \E w \in Workers : Succeed(w) \/ Fail(w)
      PROVE  CountSame
  BY <1>7 DEF Next, FillNext, RunPlugin, RerunPlugin, ExpireKey, Request,
     RequestFails, CountSame, fillVars, dbVars, workerVars
<1>8. CASE UNCHANGED vars
  BY <1>8 DEF vars, fillVars, dbVars, workerVars, CountSame
<1> QED
  BY <1>1, <1>2, <1>3, <1>4, <1>5, <1>6, <1>7, <1>8

LEMMA FreshStep ==
    ASSUME TypeOK, FreshInv, [Next]_vars
    PROVE  FreshInv'
<1> USE DEF TypeOK, FreshInv
<1>a. extrinsics \subseteq extrinsics'
  BY RowsStay
<1>1. ASSUME NEW w \in Workers, Insert(w) PROVE FreshInv'
  BY <1>1 DEF Insert, Goto
<1>2. ASSUME NEW w \in Workers, Commit(w) PROVE FreshInv'
  BY <1>2 DEF Commit, Goto
<1>3. ASSUME NEW w \in Workers, Rollback(w) \/ CommitFails(w) PROVE FreshInv'
  BY <1>3 DEF Rollback, CommitFails, Goto, dbVars
<1>4. CASE Crash
  BY <1>4 DEF Crash
<1>5. ASSUME NEW w \in Workers, NEW n \in Blocks, Receive(w, n) PROVE FreshInv'
  BY <1>5, <1>a DEF Receive, Goto
<1>6. ASSUME NEW w \in Workers, Emit(w) \/ GetBest(w) \/ SetBest(w)
      PROVE  FreshInv'
  BY <1>6, <1>a DEF Emit, GetBest, SetBest, Goto
<1>7. ASSUME NEW w \in Workers, GetFinal(w) \/ SetFinal(w) \/ Retry(w)
      PROVE  FreshInv'
  BY <1>7, <1>a DEF GetFinal, SetFinal, Retry, Goto, Release
<1>8. ASSUME NEW w \in Workers, FetchFails(w) \/ EmitFails(w) PROVE FreshInv'
  BY <1>8, <1>a DEF FetchFails, EmitFails, Goto
<1>9. ASSUME NEW w \in Workers, Panic(w) \/ RetryFails(w) PROVE FreshInv'
  BY <1>9, <1>a DEF Panic, RetryFails, Release
<1>10. CASE UNCHANGED workerVars
  BY <1>10, <1>a DEF workerVars
<1> QED
  BY <1>1, <1>2, <1>3, <1>4, <1>5, <1>6, <1>7, <1>8, <1>9, <1>10 DEF Next,
     FillNext, Succeed, Fail, RunPlugin, RerunPlugin, ExpireKey, Request,
     RequestFails, vars, fillVars

(* The sizes of the sets the counter is compared with.                     *)
LEMMA CountSizes ==
    ASSUME TypeOK, IsFiniteSet(extrinsics)
    PROVE  /\ IsFiniteSet(Fresh)
           /\ Cardinality(Fresh) \in Nat
           /\ Cardinality(extrinsics) \in Nat
  BY WorkersAssumption, FS_Subset, FS_CardinalityType DEF Fresh

LEMMA CountUpSizes ==
    ASSUME TypeOK, IsFiniteSet(extrinsics), NEW w \in Workers, CountUp(w)
    PROVE  Cardinality(Fresh') = Cardinality(Fresh) + 1
<1>1. Fresh' = Fresh \cup {w} /\ w \notin Fresh
  BY DEF TypeOK, CountUp, Fresh
<1> QED
  BY <1>1, CountSizes, FS_AddElement

LEMMA CountInSizes ==
    ASSUME TypeOK, IsFiniteSet(extrinsics), NEW w \in Workers, CountIn(w)
    PROVE  /\ Cardinality(Fresh') = Cardinality(Fresh) - 1
           /\ IsFiniteSet(extrinsics')
           /\ Cardinality(extrinsics') =
                 IF num[w] \in extrinsics THEN Cardinality(extrinsics)
                                          ELSE Cardinality(extrinsics) + 1
<1>1. Fresh' = Fresh \ {w} /\ w \in Fresh
  BY DEF TypeOK, CountIn, Fresh
<1>2. Cardinality(Fresh') = Cardinality(Fresh) - 1
  BY <1>1, CountSizes, FS_RemoveElement
<1>3. /\ IsFiniteSet(extrinsics \cup {num[w]})
      /\ Cardinality(extrinsics \cup {num[w]}) =
            IF num[w] \in extrinsics THEN Cardinality(extrinsics)
                                     ELSE Cardinality(extrinsics) + 1
  BY FS_AddElement
<1> QED
  BY <1>2, <1>3 DEF CountIn

CountInv == FreshInv /\ IsFiniteSet(extrinsics) /\ CountCovers

LEMMA CountCoversStep ==
    ASSUME "redis" \notin Faults, TypeOK, CountInv, [Next]_vars
    PROVE  CountInv'
<1> USE DEF CountInv, CountCovers
<1>1. FreshInv'
  BY FreshStep
<1>2. count \in Nat
  BY DEF TypeOK
<1>3. CASE CountSame
  BY <1>1, <1>3 DEF CountSame, Fresh
<1>4. ASSUME NEW w \in Workers, CountUp(w) PROVE CountInv'
  <2>1. Cardinality(Fresh') = Cardinality(Fresh) + 1
    BY <1>4, CountUpSizes
  <2>2. extrinsics' = extrinsics /\ count' = count + 1
    BY <1>4 DEF CountUp
  <2>3. Cardinality(extrinsics') + Cardinality(Fresh') <= count'
    BY <1>2, <2>1, <2>2, CountSizes
  <2> QED
    BY <1>1, <2>2, <2>3
<1>5. ASSUME NEW w \in Workers, CountIn(w) PROVE CountInv'
  <2>1. /\ Cardinality(Fresh') = Cardinality(Fresh) - 1
        /\ IsFiniteSet(extrinsics')
        /\ \/ Cardinality(extrinsics') = Cardinality(extrinsics)
           \/ Cardinality(extrinsics') = Cardinality(extrinsics) + 1
    BY <1>5, CountInSizes
  <2>2. count' = count
    BY <1>5 DEF CountIn
  <2>3. Cardinality(extrinsics') + Cardinality(Fresh') <= count'
    BY <1>2, <2>1, <2>2, CountSizes
  <2> QED
    BY <1>1, <2>1, <2>3
<1>6. CASE CountOut
  <2>1. Fresh' \subseteq Fresh
    BY <1>6 DEF CountOut, Fresh
  <2>2. Cardinality(Fresh') \in Nat /\ Cardinality(Fresh') <= Cardinality(Fresh)
    BY <2>1, CountSizes, FS_Subset, FS_CardinalityType
  <2> QED
    BY <1>1, <1>2, <1>6, <2>2, CountSizes DEF CountOut
<1> QED
  BY <1>3, <1>4, <1>5, <1>6, CountStep

LEMMA CountInit == Init => CountInv /\ CountExact
<1> SUFFICES ASSUME Init PROVE CountInv /\ CountExact
  OBVIOUS
<1>1. extrinsics = {} /\ count = 0 /\ Fresh = {}
  BY DEF Init, FillInit, Fresh
<1>2. IsFiniteSet({}) /\ Cardinality({}) = 0
  BY FS_EmptySet
<1>3. FreshInv
  BY DEF Init, FillInit, FreshInv
<1>4. Cardinality(extrinsics) + Cardinality(Fresh) = count
  BY <1>1, <1>2
<1> QED
  BY <1>1, <1>2, <1>3, <1>4 DEF CountInv, CountCovers, CountExact

(* The extrinsic counter in Redis, which moves before the transaction      *)
(* commits, is never below the committed extrinsics when Redis answers,    *)
(* whatever else fails.                                                    *)
THEOREM CounterCovers ==
    ASSUME "redis" \notin Faults
    PROVE  Spec => []CountCovers
<1>1. CountInv => CountCovers
  BY DEF CountInv
<1> QED
  BY <1>1, CountInit, CountCoversStep, TypeCorrect, PTL DEF Spec

(* Two open transactions never write the same block, so the extrinsics a   *)
(* fresh goroutine inserted are nobody else's.                             *)
TxnExclusive ==
    \A v, w \in Workers :
        pc[v] = "txn" /\ pc[w] = "txn" /\ num[v] = num[w] => v = w

FreshNew == \A w \in Workers : fresh[w] => num[w] \notin extrinsics

(* Only Insert opens a transaction.                                        *)
LEMMA TxnOpens ==
    ASSUME TypeOK, [Next]_vars, NEW w \in Workers, pc'[w] = "txn"
    PROVE  \/ pc[w] = "txn" /\ num'[w] = num[w]
           \/ Insert(w)
<1> USE DEF TypeOK
<1>1. ASSUME NEW v \in Workers, Insert(v)
      PROVE  Insert(w) \/ (pc[w] = "txn" /\ num'[w] = num[w])
  BY <1>1 DEF Insert, Goto
<1>2. ASSUME NEW v \in Workers, Succeed(v), ~ Insert(v)
      PROVE  pc[w] = "txn" /\ num'[w] = num[w]
  BY <1>2 DEF Succeed, Receive, Commit, Emit, GetBest, SetBest, GetFinal,
     SetFinal, Retry, Goto, Release
<1>3. ASSUME NEW v \in Workers, Fail(v)
      PROVE  pc[w] = "txn" /\ num'[w] = num[w]
  BY <1>3 DEF Fail, FetchFails, Panic, Rollback, CommitFails, EmitFails,
     RetryFails, Goto, Release
<1>4. ~ Crash
  BY DEF Crash
<1>5. CASE UNCHANGED workerVars
  BY <1>5 DEF workerVars
<1> QED
  BY <1>1, <1>2, <1>3, <1>4, <1>5 DEF Next, FillNext, RunPlugin, RerunPlugin,
     ExpireKey, Request, RequestFails, vars, fillVars

LEMMA ExclusiveStep ==
    ASSUME TypeOK, TxnExclusive, [Next]_vars
    PROVE  TxnExclusive'
<1> SUFFICES ASSUME NEW v \in Workers, NEW w \in Workers,
                    pc'[v] = "txn", pc'[w] = "txn", num'[v] = num'[w], v # w
             PROVE  FALSE
  BY DEF TxnExclusive
<1>1. \A u \in Workers : ~ Insert(u) \/ u \in {v, w} => num'[v] = num'[w]
  OBVIOUS
<1>2. CASE Insert(v)
  BY <1>2 DEF Insert, Goto, TypeOK
<1>3. CASE Insert(w)
  BY <1>3 DEF Insert, Goto, TypeOK
<1> QED
  BY <1>2, <1>3, TxnOpens DEF TxnExclusive

LEMMA FreshNewStep ==
    ASSUME "redis" \notin Faults, TypeOK, FreshInv, TxnExclusive, FreshNew,
           [Next]_vars
    PROVE  FreshNew'
<1> SUFFICES ASSUME NEW w \in Workers, fresh'[w], num'[w] \in extrinsics'
             PROVE  FALSE
  BY DEF FreshNew
<1>1. pc'[w] = "txn"
  BY FreshStep DEF FreshInv
<1>2. CASE Insert(w)
  BY <1>2 DEF Insert, TypeOK
<1>3. CASE pc[w] = "txn" /\ num'[w] = num[w]
  <2>1. CASE CountSame \/ CountOut
    BY <1>3, <2>1 DEF CountSame, CountOut, FreshNew
  <2>2. ASSUME NEW v \in Workers, CountUp(v), Insert(v) PROVE FALSE
    <3>1. v # w
      BY <1>3, <2>2 DEF Insert
    <3> QED
      BY <1>3, <2>2, <3>1 DEF CountUp, FreshNew, TypeOK
  <2>3. ASSUME NEW v \in Workers, CountIn(v), Commit(v) PROVE FALSE
    <3>1. v # w
      BY <2>3 DEF CountIn, TypeOK
    <3>2. num[v] # num[w]
      BY <1>3, <2>3, <3>1 DEF Commit, TxnExclusive
    <3> QED
      BY <1>3, <2>3, <3>1, <3>2 DEF CountIn, FreshNew, TypeOK
  <2> QED
    BY <2>1, <2>2, <2>3, CountStep
<1> QED
  BY <1>1, <1>2, <1>3, TxnOpens

ExactInv == CountInv /\ TxnExclusive /\ FreshNew /\ CountExact

LEMMA CountExactStep ==
    ASSUME {"redis", "sql", "commit", "crash"} \cap Faults = {},
           TypeOK, ExactInv, [Next]_vars
    PROVE  ExactInv'
<1> USE DEF ExactInv, CountInv
<1>1. CountInv' /\ TxnExclusive' /\ FreshNew'
  BY CountCoversStep, ExclusiveStep, FreshNewStep
<1>2. count \in Nat
  BY DEF TypeOK
<1>3. CASE CountSame
  BY <1>1, <1>3 DEF CountSame, Fresh, CountExact
<1>4. ASSUME NEW w \in Workers, CountUp(w) PROVE CountExact'
  <2>1. Cardinality(Fresh') = Cardinality(Fresh) + 1
    BY <1>4, CountUpSizes
  <2>2. extrinsics' = extrinsics /\ count' = count + 1
    BY <1>4 DEF CountUp
  <2> QED
    BY <1>2, <2>1, <2>2, CountSizes DEF CountExact
<1>5. ASSUME NEW w \in Workers, CountIn(w) PROVE CountExact'
  <2>1. num[w] \notin extrinsics
    BY <1>5 DEF CountIn, FreshNew
  <2>2. /\ Cardinality(Fresh') = Cardinality(Fresh) - 1
        /\ Cardinality(extrinsics') = Cardinality(extrinsics) + 1
    BY <1>5, <2>1, CountInSizes
  <2>3. count' = count
    BY <1>5 DEF CountIn
  <2> QED
    BY <1>2, <2>2, <2>3, CountSizes DEF CountExact
<1>6. \A f \in {"sql", "commit", "crash"} : ~ Fault(f)
  BY DEF Fault
<1> QED
  BY <1>1, <1>3, <1>4, <1>5, <1>6, CountStep

(* When Redis answers and no transaction rolls back, the counter is exact, *)
(* however many goroutines fill the same block.                            *)
THEOREM CounterExact ==
    ASSUME {"redis", "sql", "commit", "crash"} \cap Faults = {}
    PROVE  Spec => []CountExact
<1>1. Init => TxnExclusive /\ FreshNew
  BY DEF Init, FillInit, TxnExclusive, FreshNew
<1>2. Init => ExactInv
  BY <1>1, CountInit DEF ExactInv
<1>3. TypeOK /\ ExactInv /\ [Next]_vars => ExactInv'
  BY CountExactStep
<1>4. ExactInv => CountExact
  BY DEF ExactInv
<1> QED
  BY <1>2, <1>3, <1>4, TypeCorrect, PTL DEF Spec

-----------------------------------------------------------------------------
(* Complete publication.  Unless a publish fails, a goroutine that has     *)
(* passed a plugin job has published it, or the limiter dropped it because *)
(* it was published before.                                                *)
KeysOfEmitted ==
    \A n \in Blocks, k \in Kinds :
        PluginJob(n, k) \in limited => Emitted(n, k)

Passed ==
    \A w \in Workers :
        /\ pc[w] \notin {"emit", "setBest", "getFinal", "setFinal"} => step[w] = 1
        /\ pc[w] = "emit" =>
              \A k \in Kinds : k < step[w] => Emitted(num[w], k)
        /\ pc[w] \in {"setBest", "getFinal", "setFinal"} =>
              \A k \in Kinds : Emitted(num[w], k)

EmitInv == KeysOfEmitted /\ Passed /\ WatermarkComplete

(* A published plugin job stays published: a goroutine takes it off its    *)
(* list only to process it.                                                *)
LEMMA EmittedStays ==
    ASSUME TypeOK, [Next]_vars, NEW n \in Blocks, NEW k \in Kinds, Emitted(n, k)
    PROVE  Emitted(n, k)'
<1> USE DEF Emitted, TypeOK, RedisTypeOK
<1>a. PluginJob(n, k) \in Jobs /\ \A m \in Blocks : PluginJob(n, k) # BlockJob(m)
  BY JobTypes
<1>1. ASSUME NEW w \in Workers, NEW m \in Blocks, Receive(w, m)
      PROVE  Emitted(n, k)'
  BY <1>1, <1>a, JobTypes DEF Receive, Deliver, ghostVars
<1>2. ASSUME NEW w \in Workers, Emit(w) PROVE Emitted(n, k)'
  <2>1. PluginJob(num[w], step[w]) \in Jobs
    BY <1>2, JobTypes DEF Emit
  <2> QED
    BY <1>2, <1>a, <2>1 DEF Emit, Publish, Enqueue, ghostVars
<1>3. ASSUME NEW w \in Workers, Retry(w) PROVE Emitted(n, k)'
  <2>1. BlockJob(num[w]) \in Jobs
    BY <1>3, JobTypes DEF Retry
  <2> QED
    BY <1>3, <1>a, <2>1 DEF Retry, Requeue, ForcePublish, Enqueue, ghostVars
<1>4. CASE Crash
  <2>1. Cardinality(InFlight(PluginJob(n, k))) \in Nat
    BY WorkersAssumption, FS_Subset, FS_CardinalityType DEF InFlight
  <2> QED
    BY <1>4, <1>a, <2>1 DEF Crash, ghostVars
<1>5. ASSUME NEW m \in Blocks, NEW l \in Kinds, RunPlugin(m, l)
      PROVE  Emitted(n, k)'
  BY <1>5, <1>a, JobTypes DEF RunPlugin, Deliver
<1>6. ASSUME NEW m \in Blocks, NEW l \in Kinds, NEW b \in BOOLEAN,
             RerunPlugin(m, l, b)
      PROVE  Emitted(n, k)'
  BY <1>6 DEF RerunPlugin
<1>7. ASSUME NEW m \in Blocks, Request(m) PROVE Emitted(n, k)'
  BY <1>7, <1>a, JobTypes DEF Request, Publish, Enqueue, fillVars, ghostVars
<1>8. CASE UNCHANGED <<queued, processed>>
  BY <1>8
<1>9. ASSUME NEW w \in Workers, Fail(w) PROVE UNCHANGED <<queued, processed>>
  BY <1>9 DEF Fail, FetchFails, Panic, Rollback, CommitFails, EmitFails,
     RetryFails, PublishFails, ghostVars
<1>10. ASSUME NEW w \in Workers, Insert(w) \/ Commit(w) \/ GetBest(w) \/
              SetBest(w) \/ GetFinal(w) \/ SetFinal(w)
       PROVE  UNCHANGED <<queued, processed>>
  BY <1>10 DEF Insert, Commit, GetBest, SetBest, GetFinal, SetFinal, redisVars,
     ghostVars
<1> QED
  BY <1>1, <1>2, <1>3, <1>4, <1>5, <1>6, <1>7, <1>8, <1>9, <1>10 DEF Next,
     FillNext, Succeed, ExpireKey, Expire, RequestFails, PublishFails, vars,
     redisVars, fillVars, ghostVars

(* The publish of a plugin job leaves the job published.                   *)
LEMMA EmitPublishes ==
    ASSUME TypeOK, KeysOfEmitted, NEW w \in Workers, Emit(w),
           NEW n \in Blocks, NEW k \in Kinds, n = num[w], k = step[w]
    PROVE  Emitted(n, k)'
<1>1. PluginJob(n, k) \in Jobs
  BY JobTypes
<1> USE DEF Emit, Publish, TypeOK, RedisTypeOK, Emitted
<1>2. CASE PluginJob(n, k) \in limited
  BY <1>2 DEF KeysOfEmitted, ghostVars
<1>3. CASE PluginJob(n, k) \notin limited
  BY <1>1, <1>3 DEF Enqueue
<1> QED
  BY <1>2, <1>3

LEMMA KeysOfEmittedStep ==
    ASSUME "enqueue" \notin Faults, TypeOK, KeysOfEmitted, [Next]_vars
    PROVE  KeysOfEmitted'
<1> SUFFICES ASSUME NEW n \in Blocks, NEW k \in Kinds,
                    PluginJob(n, k) \in limited', PluginJob(n, k) \notin limited
             PROVE  Emitted(n, k)'
  BY EmittedStays DEF KeysOfEmitted
<1>1. ASSUME NEW w \in Workers, Emit(w) PROVE Emitted(n, k)'
  <2>1. num[w] \in Blocks /\ step[w] \in Kinds
    BY <1>1 DEF Emit, TypeOK
  <2>2. PluginJob(n, k) = PluginJob(num[w], step[w])
    BY <1>1 DEF Emit, Publish
  <2>3. n = num[w] /\ k = step[w]
    BY <2>1, <2>2, JobTypes
  <2> QED
    BY <1>1, <2>3, EmitPublishes
<1>2. ASSUME NEW w \in Workers, Succeed(w), ~ Emit(w) PROVE FALSE
  BY <1>2 DEF Succeed, Receive, Insert, Commit, GetBest, SetBest, GetFinal,
     SetFinal, Retry, Requeue, ForcePublish, redisVars
<1>3. ASSUME NEW w \in Workers, Fail(w) PROVE FALSE
  BY <1>3 DEF Fail, FetchFails, Panic, Rollback, CommitFails, EmitFails,
     RetryFails, PublishFails, Fault
<1>4. ASSUME NEW j \in Jobs, ExpireKey(j) PROVE FALSE
  BY <1>4 DEF ExpireKey, Expire
<1>5. ASSUME NEW m \in Blocks, Request(m) \/ RequestFails(m) PROVE FALSE
  BY <1>5, JobTypes DEF Request, RequestFails, Publish, PublishFails
<1> QED
  BY <1>1, <1>2, <1>3, <1>4, <1>5 DEF Next, FillNext, Crash, RunPlugin,
     RerunPlugin, vars, redisVars

LEMMA PassedStep ==
    ASSUME "enqueue" \notin Faults, TypeOK, KeysOfEmitted, Passed,
           [Next]_vars
    PROVE  Passed'
<1>a. \A n \in Blocks, k \in Kinds : Emitted(n, k) => Emitted(n, k)'
  BY EmittedStays
<1>b. TypeOK'
  BY TypeStep
<1> SUFFICES ASSUME NEW w \in Workers
             PROVE  /\ pc'[w] \notin {"emit", "setBest", "getFinal", "setFinal"}
                          => step'[w] = 1
                    /\ pc'[w] = "emit" =>
                          \A k \in Kinds : k < step'[w] => Emitted(num[w], k)'
                    /\ pc'[w] \in {"setBest", "getFinal", "setFinal"} =>
                          \A k \in Kinds : Emitted(num[w], k)'
  BY DEF Passed
<1> DEFINE Goal ==
      /\ pc'[w] \notin {"emit", "setBest", "getFinal", "setFinal"}
           => step'[w] = 1
      /\ pc'[w] = "emit" =>
           \A k \in Kinds : k < step'[w] => Emitted(num[w], k)'
      /\ pc'[w] \in {"setBest", "getFinal", "setFinal"} =>
           \A k \in Kinds : Emitted(num[w], k)'
<1> USE DEF TypeOK, Passed
<1>1. ASSUME pc'[w] = pc[w], num'[w] = num[w], step'[w] = step[w] PROVE Goal
  BY <1>a, <1>1 DEF Emitted
<1>2. ASSUME NEW v \in Workers, v # w, Succeed(v) \/ Fail(v)
      PROVE  pc'[w] = pc[w] /\ num'[w] = num[w] /\ step'[w] = step[w]
  BY <1>2 DEF Succeed, Fail, Receive, Insert, Commit, Emit, GetBest, SetBest,
     GetFinal, SetFinal, Retry, FetchFails, Panic, Rollback, CommitFails,
     EmitFails, RetryFails, Goto, Release, redisVars
<1>3. ASSUME NEW n \in Blocks, Receive(w, n) PROVE Goal
  BY <1>3 DEF Receive, Goto
<1>4. ASSUME Insert(w) \/ FetchFails(w) \/ Rollback(w) PROVE Goal
  BY <1>4 DEF Insert, FetchFails, Rollback, Goto
<1>5. ASSUME Commit(w) \/ CommitFails(w) PROVE Goal
  <2>1. pc'[w] = "emit" /\ step'[w] = 1
    BY <1>5 DEF Commit, CommitFails, Goto
  <2>2. \A k \in Kinds : ~ (k < 1)
    BY NumEmitsAssumption DEF Kinds
  <2> QED
    BY <2>1, <2>2
<1>6. ASSUME Emit(w) PROVE Goal
  <2>1. PICK n \in Blocks, s \in Kinds : n = num[w] /\ s = step[w]
    BY <1>6 DEF Emit
  <2>2. num'[w] = n /\ pc'[w] = "emit" /\ step'[w] = s + 1
    BY <1>6, <2>1, NumEmitsAssumption DEF Emit, Kinds
  <2>3. \A k \in Kinds : k < s => Emitted(n, k)'
    BY <1>6, <1>a, <2>1 DEF Emit
  <2>4. Emitted(n, s)'
    BY <1>6, <2>1, EmitPublishes
  <2>5. \A k \in Kinds : k < s + 1 => k < s \/ k = s
    BY <2>1, NumEmitsAssumption DEF Kinds
  <2>6. \A k \in Kinds : k < s + 1 => Emitted(n, k)'
    BY <2>3, <2>4, <2>5
  <2> QED
    BY <2>2, <2>6 DEF Emitted
<1>7. ASSUME GetBest(w) PROVE Goal
  <2>1. PICK n \in Blocks : n = num[w] /\ num'[w] = n
    BY <1>7 DEF GetBest
  <2>2. \A k \in Kinds : k < NumEmits + 1
    BY NumEmitsAssumption DEF Kinds
  <2>3. \A k \in Kinds : Emitted(n, k)'
    BY <1>7, <1>a, <2>1, <2>2 DEF GetBest, AllPublished
  <2> QED
    BY <1>7, <2>1, <2>3 DEF GetBest, Goto, Emitted
<1>8. ASSUME SetBest(w) \/ (GetFinal(w) /\ ~ Release(w))
      PROVE  Goal
  <2>1. PICK n \in Blocks : n = num[w] /\ num'[w] = n
    BY <1>8 DEF SetBest, GetFinal
  <2>2. \A k \in Kinds : Emitted(n, k)'
    BY <1>8, <1>a, <2>1 DEF SetBest, GetFinal
  <2> QED
    BY <1>8, <2>1, <2>2 DEF SetBest, GetFinal, Goto, Emitted
<1>9. ASSUME Release(w) PROVE Goal
  BY <1>9 DEF Release
<1>10. ~ EmitFails(w)
  BY DEF EmitFails, PublishFails, Fault
<1>11. CASE UNCHANGED workerVars
  BY <1>1, <1>11 DEF workerVars
<1>12. ASSUME Succeed(w) \/ Fail(w) PROVE Goal
  BY <1>3, <1>4, <1>5, <1>6, <1>7, <1>8, <1>9, <1>10, <1>12 DEF Succeed, Fail,
     GetFinal, SetFinal, Retry, Panic, RetryFails
<1>13. ASSUME NEW v \in Workers, Succeed(v) \/ Fail(v) PROVE Goal
  <2>1. CASE v = w
    BY <1>12, <1>13, <2>1
  <2>2. CASE v # w
    BY <1>1, <1>2, <1>13, <2>2
  <2> QED
    BY <2>1, <2>2
<1>14. CASE Crash
  BY <1>14 DEF Crash
<1> QED
  BY <1>11, <1>13, <1>14 DEF Next, FillNext, RunPlugin, RerunPlugin, ExpireKey,
     Request, RequestFails, vars, fillVars

(* The goroutine that will publish job k of a stored block.                *)
LEMMA NoStrandedStep ==
    ASSUME {"enqueue", "crash"} \cap Faults = {}, TypeOK, EmitInv,
           NoStrandedBlock, [Next]_vars
    PROVE  NoStrandedBlock'
<1> DEFINE Publisher(n, k) ==
      \E w \in Workers : pc[w] = "emit" /\ num[w] = n /\ step[w] <= k
<1> SUFFICES ASSUME NEW n \in Blocks, Stored(n)', NEW k \in Kinds
             PROVE  Emitted(n, k)' \/ Publisher(n, k)'
  BY DEF NoStrandedBlock, Archived
<1> USE DEF TypeOK, EmitInv, NoStrandedBlock
<1>1. CASE Emitted(n, k)
  BY <1>1, EmittedStays
<1>2. ASSUME NEW w \in Workers, pc[w] = "emit", num[w] = n, step[w] <= k
      PROVE  Emitted(n, k)' \/ Publisher(n, k)'
  <2>1. CASE Emit(w)
    <3>1. CASE step[w] = k
      BY <1>2, <2>1, <3>1, EmitPublishes
    <3>2. CASE step[w] # k
      <4>1. step[w] + 1 <= k
        BY <1>2, <3>2, NumEmitsAssumption DEF Kinds
      <4>2. pc'[w] = "emit" /\ num'[w] = n /\ step'[w] = step[w] + 1
        BY <1>2, <2>1 DEF Emit
      <4> QED
        BY <4>1, <4>2
    <3> QED
      BY <3>1, <3>2
  <2>2. CASE GetBest(w)
    BY <1>2, <2>2, NumEmitsAssumption DEF GetBest, AllPublished,
       Kinds
  <2>3. ASSUME NEW v \in Workers, v # w, Succeed(v) \/ Fail(v)
        PROVE  pc'[w] = pc[w] /\ num'[w] = num[w] /\ step'[w] = step[w]
    BY <2>3 DEF Succeed, Fail, Receive, Insert, Commit, Emit, GetBest, SetBest,
       GetFinal, SetFinal, Retry, FetchFails, Panic, Rollback, CommitFails,
       EmitFails, RetryFails, Goto, Release, redisVars
  <2>4. ~ Crash /\ ~ EmitFails(w)
    BY DEF Crash, EmitFails, PublishFails, Fault
  <2>5. CASE Succeed(w) \/ Fail(w)
    BY <1>2, <2>1, <2>2, <2>4, <2>5 DEF Succeed, Fail, Receive, Insert, Commit,
       SetBest, GetFinal, SetFinal, Retry, FetchFails, Panic, Rollback,
       CommitFails, RetryFails
  <2>6. CASE UNCHANGED workerVars
    BY <1>2, <2>6 DEF workerVars
  <2> QED
    BY <1>2, <2>3, <2>4, <2>5, <2>6 DEF Next, FillNext, RunPlugin, RerunPlugin,
       ExpireKey, Request, RequestFails, vars, fillVars
<1>3. CASE ~ Stored(n)
  <2>1. PICK w \in Workers : Commit(w) /\ num[w] = n
    <3>1. ASSUME NEW w \in Workers, Commit(w), num[w] # n PROVE FALSE
      BY <1>3, <3>1 DEF Commit, Stored
    <3>2. ASSUME NEW w \in Workers, Succeed(w), ~ Commit(w) PROVE FALSE
      BY <1>3, <3>2 DEF Succeed, Receive, Insert, Emit, GetBest, SetBest,
         GetFinal, SetFinal, Retry, dbVars, Stored
    <3>3. ASSUME NEW w \in Workers, Fail(w) PROVE FALSE
      BY <1>3, <3>3 DEF Fail, FetchFails, Panic, Rollback, CommitFails,
         EmitFails, RetryFails, dbVars, Stored
    <3>4. CASE UNCHANGED row
      BY <1>3, <3>4 DEF Stored
    <3> QED
      BY <3>1, <3>2, <3>3, <3>4 DEF Next, FillNext, Crash, RunPlugin,
         RerunPlugin, ExpireKey, Request, RequestFails, vars, fillVars, dbVars
  <2>2. pc'[w] = "emit" /\ num'[w] = n /\ step'[w] = 1
    BY <2>1 DEF Commit, Goto, Passed
  <2>3. 1 <= k
    BY DEF Kinds
  <2> QED
    BY <2>2, <2>3
<1> QED
  BY <1>1, <1>2, <1>3 DEF NoStrandedBlock, Archived

LEMMA WatermarkCompleteStep ==
    ASSUME TypeOK, EmitInv, [Next]_vars
    PROVE  WatermarkComplete'
<1>a. \A n \in Blocks, k \in Kinds : Emitted(n, k) => Emitted(n, k)'
  BY EmittedStays
<1> USE DEF EmitInv, WatermarkComplete, TypeOK, RedisTypeOK
<1> SUFFICES ASSUME NEW n \in {fillBest', fillFinal'} \ {0}, NEW k \in Kinds
             PROVE  Emitted(n, k)'
  OBVIOUS
<1>1. ASSUME NEW w \in Workers, SetBest(w) \/ SetFinal(w)
      PROVE  Emitted(n, k)'
  <2>1. num[w] \in Blocks /\ Emitted(num[w], k)
    BY <1>1 DEF SetBest, SetFinal, Passed
  <2>2. n = num[w] \/ n \in {fillBest, fillFinal} \ {0}
    BY <1>1 DEF SetBest, SetFinal
  <2>3. n \in Blocks /\ Emitted(n, k)
    BY <2>1, <2>2
  <2> QED
    BY <1>a, <2>3
<1>2. CASE UNCHANGED <<fillBest, fillFinal>>
  BY <1>2, <1>a
<1>3. ASSUME NEW w \in Workers, Succeed(w), ~ SetBest(w), ~ SetFinal(w)
      PROVE  UNCHANGED <<fillBest, fillFinal>>
  BY <1>3 DEF Succeed, Receive, Insert, Commit, Emit, GetBest, GetFinal, Retry,
     redisVars
<1>4. ASSUME NEW w \in Workers, Fail(w)
      PROVE  UNCHANGED <<fillBest, fillFinal>>
  BY <1>4 DEF Fail, FetchFails, Panic, Rollback, CommitFails, EmitFails,
     RetryFails
<1> QED
  BY <1>1, <1>2, <1>3, <1>4 DEF Next, FillNext, Crash, RunPlugin, RerunPlugin,
     ExpireKey, Expire, Request, RequestFails, vars, redisVars

LEMMA EmitInvariant == ASSUME "enqueue" \notin Faults PROVE Spec => []EmitInv
<1>1. Init => EmitInv
  BY JobTypes DEF Init, RedisInit, FillInit, EmitInv, KeysOfEmitted, Passed,
     WatermarkComplete
<1>2. TypeOK /\ EmitInv /\ [Next]_vars => EmitInv'
  BY KeysOfEmittedStep, PassedStep, WatermarkCompleteStep DEF EmitInv
<1> QED
  BY <1>1, <1>2, TypeCorrect, PTL DEF Spec

(* When no publish fails, a watermark names a block all of whose plugin    *)
(* jobs have been published, whatever order the goroutines read and write  *)
(* it in, and whatever crashes, failing commits and failing watermark      *)
(* commands come in between.                                               *)
THEOREM WatermarksAreComplete ==
    ASSUME "enqueue" \notin Faults
    PROVE  Spec => []WatermarkComplete
<1>1. EmitInv => WatermarkComplete
  BY DEF EmitInv
<1> QED
  BY <1>1, EmitInvariant, PTL

(* Without a failing publish and without a crash, every plugin job of a    *)
(* stored block has been published, or the goroutine that will publish it  *)
(* is there.                                                               *)
THEOREM NoBlockIsStranded ==
    ASSUME {"enqueue", "crash"} \cap Faults = {}
    PROVE  Spec => []NoStrandedBlock
<1>1. "enqueue" \notin Faults
  OBVIOUS
<1>2. Spec => []EmitInv
  BY <1>1, EmitInvariant
<1>3. Init => NoStrandedBlock
  BY DEF Init, FillInit, NoStrandedBlock, Archived, Stored
<1>4. TypeOK /\ EmitInv /\ NoStrandedBlock /\ [Next]_vars => NoStrandedBlock'
  BY NoStrandedStep
<1> QED
  BY <1>2, <1>3, <1>4, TypeCorrect, PTL DEF Spec
=============================================================================
