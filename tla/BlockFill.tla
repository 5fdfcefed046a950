----------------------------- MODULE BlockFill -----------------------------
(***************************************************************************)
(* The worker daemon: goroutines that take jobs from the "block" list      *)
(* (observer.emitMsg, blockWorker), fetch the block from the node          *)
(* (Service.FillBlockData), store it in one database transaction, publish  *)
(* its plugin jobs and move the watermarks (Service.CreateChainBlock), and *)
(* the goroutines that run the plugin jobs.                                *)
(*                                                                         *)
(* A block's extrinsics, events and logs are one unit, which commits with  *)
(* its row; "codec" marks a row whose CodecError flag is set.              *)
(***************************************************************************)
EXTENDS SharedRedis

CONSTANTS
    Workers,       \* goroutines of the "block" queue, over all processes
    MaxRequests    \* bound: publishes of a block by the environment

ASSUME WorkersAssumption     == IsFiniteSet(Workers)
ASSUME MaxRequestsAssumption == MaxRequests \in Nat

VARIABLES
    row,        \* row[n]: the committed row of block n
    extrinsics, \* blocks whose extrinsic rows are committed
    count,      \* count_extrinsic in the Redis metadata hash, in blocks
    pc, num,    \* where goroutine w is, and the block it fills
    verdict,    \* what w's transaction writes: the row, and whether the
    decoded,    \*   extrinsics were decoded
    fresh,      \* w's open transaction inserted the extrinsic rows
    step,       \* the next plugin job w publishes
    processed,  \* history: plugin jobs a plugin has processed
    lost        \* history: blocks a job of which left the lists for good

dbVars     == <<row, extrinsics, count>>
workerVars == <<pc, num, verdict, decoded, fresh, step>>
ghostVars  == <<processed, lost>>
fillVars   == <<dbVars, workerVars, ghostVars>>
vars       == <<redisVars, fillVars>>

RowStates == {"absent", "good", "codec"}
Steps     == {"idle", "fetch", "txn", "emit", "setBest", "getFinal",
              "setFinal", "retry"}

TypeOK ==
    /\ RedisTypeOK
    /\ row \in [Blocks -> RowStates]
    /\ extrinsics \subseteq Blocks
    /\ count \in Nat
    /\ pc \in [Workers -> Steps]
    /\ num \in [Workers -> Blocks \cup {0}]
    /\ \A w \in Workers : pc[w] # "idle" => num[w] \in Blocks
    /\ verdict \in [Workers -> RowStates \ {"absent"}]
    /\ decoded \in [Workers -> BOOLEAN]
    /\ fresh \in [Workers -> BOOLEAN]
    /\ step \in [Workers -> 1..(NumEmits + 1)]
    /\ processed \subseteq PluginJobs
    /\ lost \subseteq Blocks

FillInit ==
    /\ row = [n \in Blocks |-> "absent"]
    /\ extrinsics = {}
    /\ count = 0
    /\ pc = [w \in Workers |-> "idle"]
    /\ num = [w \in Workers |-> 0]
    /\ verdict = [w \in Workers |-> "good"]
    /\ decoded = [w \in Workers |-> TRUE]
    /\ fresh = [w \in Workers |-> FALSE]
    /\ step = [w \in Workers |-> 1]
    /\ processed = {}
    /\ lost = {}

(* A plugin job that reached its list: it waits there or has been run.     *)
Emitted(n, k) ==
    \/ queued[PluginJob(n, k)] > 0
    \/ PluginJob(n, k) \in processed

Stored(n)   == row[n] # "absent"
Archived    == {n \in Blocks : Stored(n)}
Holds(w, n) == pc[w] # "idle" /\ num[w] = n

(* Mutant: the goroutine keeps its place in the code.                      *)
ReleaseInPlace(w) ==
    /\ num' = [num EXCEPT ![w] = 0]
    /\ verdict' = [verdict EXCEPT ![w] = "good"]
    /\ decoded' = [decoded EXCEPT ![w] = TRUE]
    /\ step' = [step EXCEPT ![w] = 1]
    /\ UNCHANGED pc

(* Worker w leaves the block: its registers are dead.                      *)
Release(w) ==
    /\ pc' = [pc EXCEPT ![w] = "idle"]
    /\ num' = [num EXCEPT ![w] = 0]
    /\ verdict' = [verdict EXCEPT ![w] = "good"]
    /\ decoded' = [decoded EXCEPT ![w] = TRUE]
    /\ step' = [step EXCEPT ![w] = 1]

Goto(w, p) == pc' = [pc EXCEPT ![w] = p]

-----------------------------------------------------------------------------
(* FillBlockData.  The row is read before anything is fetched, and nothing *)
(* stops another goroutine from storing the block in between.  A row that  *)
(* cannot be read is taken for one that is not there.                      *)

Receive(w, n) ==
    /\ pc[w] = "idle"
    /\ Deliver(BlockJob(n))
    /\ \/ row[n] = "good" /\ UNCHANGED <<pc, num, faults>>
       \/ /\ IF row[n] = "good" THEN Fault("sql") ELSE UNCHANGED faults
          /\ Goto(w, "fetch")
          /\ num' = [num EXCEPT ![w] = n]
    /\ UNCHANGED <<limited, fillBest, fillFinal, requests, dbVars, verdict,
                   decoded, fresh, step, ghostVars>>

(* CreateExtrinsic adds the affected rows of its insert to the counter:    *)
(* duplicates are ignored and not counted.  Mutants: the rows of a new     *)
(* block, all rows.                                                        *)
CountsNewBlock(n, d) == d /\ row[n] = "absent"
CountsAll(n, d)      == d
Counts(n, d)         == d /\ n \notin extrinsics

(* The node answers, the block is decoded and the transaction has inserted *)
(* its extrinsics, events and logs.  A block another transaction is still  *)
(* writing makes the insert wait for that transaction.  The counter is in  *)
(* Redis: it moves now, by the rows that were not there yet, and the error *)
(* of the command that moves it is discarded.                              *)
Insert(w) ==
    /\ pc[w] = "fetch"
    /\ \A v \in Workers : ~ (pc[v] = "txn" /\ num[v] = num[w])
    /\ \E r \in RowStates \ {"absent"}, d \in BOOLEAN :
          /\ r = "good" => d
          /\ r = "codec" => "codec" \in Faults
          /\ verdict' = [verdict EXCEPT ![w] = r]
          /\ decoded' = [decoded EXCEPT ![w] = d]
          /\ fresh' = [fresh EXCEPT ![w] = d /\ num[w] \notin extrinsics]
          /\ IF Counts(num[w], d)
             THEN \/ count' = count + 1 /\ UNCHANGED faults
                  \/ UNCHANGED count /\ Fault("redis")
             ELSE UNCHANGED <<count, faults>>
    /\ Goto(w, "txn")
    /\ UNCHANGED <<queued, limited, fillBest, fillFinal, requests, row,
                   extrinsics, num, step, ghostVars>>

(* Mutant: setFinalized runs on the error path too.                        *)
FetchFailsAndAdvances(w) ==
    /\ pc[w] = "fetch"
    /\ Fault("rpc")
    /\ Goto(w, "getFinal")
    /\ UNCHANGED <<queued, limited, fillBest, fillFinal, requests, dbVars,
                   num, verdict, decoded, fresh, step, ghostVars>>

(* A request to the node, or its answer, fails.                            *)
FetchFails(w) ==
    /\ pc[w] = "fetch"
    /\ Fault("rpc")
    /\ Goto(w, "retry")
    /\ UNCHANGED <<queued, limited, fillBest, fillFinal, requests, dbVars,
                   num, verdict, decoded, fresh, step, ghostVars>>

(* regRuntimeVersion panics when a new runtime has no metadata: go-workers *)
(* recovers and acknowledges the message.                                  *)
Panic(w) ==
    /\ pc[w] = "fetch"
    /\ Fault("panic")
    /\ lost' = lost \cup {num[w]}
    /\ Release(w)
    /\ UNCHANGED <<queued, limited, fillBest, fillFinal, requests, dbVars,
                   fresh, processed>>

(* Mutant: the error of the insert is ignored.                             *)
RollbackAndEmit(w) ==
    /\ pc[w] = "txn"
    /\ Fault("sql")
    /\ Goto(w, "emit")
    /\ fresh' = [fresh EXCEPT ![w] = FALSE]
    /\ UNCHANGED <<queued, limited, fillBest, fillFinal, requests, dbVars,
                   num, verdict, decoded, step, ghostVars>>

(* An insert of the transaction fails: the deferred rollback undoes the    *)
(* rows and leaves the counter.                                            *)
Rollback(w) ==
    /\ pc[w] = "txn"
    /\ Fault("sql")
    /\ Goto(w, "retry")
    /\ fresh' = [fresh EXCEPT ![w] = FALSE]
    /\ UNCHANGED <<queued, limited, fillBest, fillFinal, requests, dbVars,
                   num, verdict, decoded, step, ghostVars>>

(* Mutant: an upsert in place of IgnoreDuplicate.                          *)
UpsertedRow(n, r) == r

(* CreateBlock and DbCommit: every insert ignores duplicates, so a row     *)
(* that is there stays as it is.                                           *)
WrittenRow(n, r) == IF row[n] = "absent" THEN r ELSE row[n]

Commit(w) ==
    /\ pc[w] = "txn"
    /\ row' = [row EXCEPT ![num[w]] = WrittenRow(num[w], verdict[w])]
    /\ extrinsics' = IF decoded[w] THEN extrinsics \cup {num[w]}
                                   ELSE extrinsics
    /\ fresh' = [fresh EXCEPT ![w] = FALSE]
    /\ Goto(w, "emit")
    /\ UNCHANGED <<redisVars, count, num, verdict, decoded, step,
                   ghostVars>>

(* DbCommit prints the error of a commit that failed and returns nothing,  *)
(* so CreateChainBlock goes on.                                            *)
CommitFails(w) ==
    /\ pc[w] = "txn"
    /\ Fault("commit")
    /\ fresh' = [fresh EXCEPT ![w] = FALSE]
    /\ Goto(w, "emit")
    /\ UNCHANGED <<queued, limited, fillBest, fillFinal, requests, dbVars,
                   num, verdict, decoded, step, ghostVars>>

-----------------------------------------------------------------------------
(* emitEvent, emitExtrinsic and emitBlock, one Publish at a time.          *)

Emit(w) ==
    /\ pc[w] = "emit"
    /\ step[w] \in Kinds
    /\ Publish(PluginJob(num[w], step[w]))
    /\ step' = [step EXCEPT ![w] = @ + 1]
    /\ UNCHANGED <<fillBest, fillFinal, faults, requests, dbVars, pc, num,
                   verdict, decoded, fresh, ghostVars>>

EmitFails(w) ==
    /\ pc[w] = "emit"
    /\ step[w] \in Kinds
    /\ PublishFails(PluginJob(num[w], step[w]))
    /\ Goto(w, "retry")
    /\ UNCHANGED <<fillBest, fillFinal, requests, dbVars, num, verdict,
                   decoded, fresh, step, ghostVars>>

(* SaveFillAlreadyBlockNum and SaveFillAlreadyFinalizedBlockNum: a GET, a  *)
(* comparison and a SET, with no transaction around them.  The errors of   *)
(* both commands are discarded.                                            *)
Advances(n, mark) == n > mark

(* CreateChainBlock has published every plugin job.  Mutant: one short.    *)
AlmostPublished(w) == step[w] >= NumEmits
AllPublished(w)    == step[w] = NumEmits + 1

GetBest(w) ==
    /\ pc[w] = "emit"
    /\ AllPublished(w)
    /\ \E mark \in {fillBest, 0} :
          /\ ReadMark(fillBest, mark)
          /\ Goto(w, IF Advances(num[w], mark) THEN "setBest" ELSE "getFinal")
    /\ UNCHANGED <<queued, limited, fillBest, fillFinal, requests, dbVars, num,
                   verdict, decoded, fresh, step, ghostVars>>

SetBest(w) ==
    /\ pc[w] = "setBest"
    /\ \/ fillBest' = num[w] /\ UNCHANGED faults
       \/ UNCHANGED fillBest /\ Fault("redis")
    /\ Goto(w, "getFinal")
    /\ UNCHANGED <<queued, limited, fillFinal, requests, dbVars, num, verdict,
                   decoded, fresh, step, ghostVars>>

GetFinal(w) ==
    /\ pc[w] = "getFinal"
    /\ \E mark \in {fillFinal, 0} :
          /\ ReadMark(fillFinal, mark)
          /\ IF Advances(num[w], mark)
             THEN /\ Goto(w, "setFinal")
                  /\ UNCHANGED <<num, verdict, decoded, step>>
             ELSE Release(w)
    /\ UNCHANGED <<queued, limited, fillBest, fillFinal, requests, dbVars,
                   fresh, ghostVars>>

SetFinal(w) ==
    /\ pc[w] = "setFinal"
    /\ \/ fillFinal' = num[w] /\ UNCHANGED faults
       \/ UNCHANGED fillFinal /\ Fault("redis")
    /\ Release(w)
    /\ UNCHANGED <<queued, limited, fillBest, requests, dbVars, fresh,
                   ghostVars>>

-----------------------------------------------------------------------------
(* emitMsg forces a failed job back on its list; the error of that publish *)
(* is discarded.  Mutant: the retry goes through the rate limiter.         *)
RequeueLimited(n) == Publish(BlockJob(n))
Requeue(n)        == ForcePublish(BlockJob(n))

Retry(w) ==
    /\ pc[w] = "retry"
    /\ Requeue(num[w])
    /\ Release(w)
    /\ UNCHANGED <<fillBest, fillFinal, faults, requests, dbVars, fresh,
                   ghostVars>>

RetryFails(w) ==
    /\ pc[w] = "retry"
    /\ Fault("enqueue")
    /\ lost' = lost \cup {num[w]}
    /\ Release(w)
    /\ UNCHANGED <<queued, limited, fillBest, fillFinal, requests, dbVars,
                   fresh, processed>>

(* The worker process dies: open transactions roll back, and the messages  *)
(* it had not acknowledged are delivered again after the restart.          *)
InFlight(j) == {w \in Workers : pc[w] # "idle" /\ BlockJob(num[w]) = j}

Crash ==
    /\ Fault("crash")
    /\ queued' = [j \in Jobs |-> queued[j] + Cardinality(InFlight(j))]
    /\ pc' = [w \in Workers |-> "idle"]
    /\ num' = [w \in Workers |-> 0]
    /\ verdict' = [w \in Workers |-> "good"]
    /\ decoded' = [w \in Workers |-> TRUE]
    /\ fresh' = [w \in Workers |-> FALSE]
    /\ step' = [w \in Workers |-> 1]
    /\ UNCHANGED <<limited, fillBest, fillFinal, requests, dbVars, ghostVars>>

(* emitMsg on a plugin job: the plugin reads the stored block and works.   *)
RunPlugin(n, k) ==
    /\ Deliver(PluginJob(n, k))
    /\ processed' = processed \cup {PluginJob(n, k)}
    /\ UNCHANGED <<limited, fillBest, fillFinal, faults, requests, dbVars,
                   workerVars, lost>>

(* Mutant: the job of a plugin that failed is not put back.                *)
RerunDropped(n, k, worked) ==
    /\ Deliver(PluginJob(n, k))
    /\ Fault("plugin")
    /\ processed' = IF worked THEN processed \cup {PluginJob(n, k)}
                              ELSE processed
    /\ UNCHANGED <<limited, fillBest, fillFinal, requests, dbVars, workerVars,
                   lost>>

(* The plugin returns an error and its job goes back on the list, or the   *)
(* process dies after the plugin's work and the job is delivered again.    *)
RerunPlugin(n, k, worked) ==
    /\ queued[PluginJob(n, k)] > 0
    /\ Fault("plugin")
    /\ processed' = IF worked THEN processed \cup {PluginJob(n, k)}
                              ELSE processed
    /\ UNCHANGED <<queued, limited, fillBest, fillFinal, requests, dbVars,
                   workerVars, lost>>

-----------------------------------------------------------------------------
(* The environment of the workers on their own: the subscribe daemon or    *)
(* CheckCompleteness asks for a block, and may fail to.                    *)
Request(n) ==
    /\ requests[n] < MaxRequests
    /\ requests' = [requests EXCEPT ![n] = @ + 1]
    /\ Publish(BlockJob(n))
    /\ UNCHANGED <<fillBest, fillFinal, faults, fillVars>>

RequestFails(n) ==
    /\ requests[n] < MaxRequests
    /\ requests' = [requests EXCEPT ![n] = @ + 1]
    /\ PublishFails(BlockJob(n))
    /\ lost' = lost \cup {n}
    /\ UNCHANGED <<fillBest, fillFinal, dbVars, workerVars, processed>>

ExpireKey(j) == Expire(j) /\ UNCHANGED fillVars

Succeed(w) ==
    \/ \E n \in Blocks : Receive(w, n)
    \/ Insert(w)
    \/ Commit(w)
    \/ Emit(w)
    \/ GetBest(w)
    \/ SetBest(w)
    \/ GetFinal(w)
    \/ SetFinal(w)
    \/ Retry(w)

Fail(w) ==
    \/ FetchFails(w)
    \/ Panic(w)
    \/ Rollback(w)
    \/ CommitFails(w)
    \/ EmitFails(w)
    \/ RetryFails(w)

FillNext ==
    \/ \E w \in Workers : Succeed(w) \/ Fail(w)
    \/ Crash
    \/ \E n \in Blocks, k \in Kinds :
          RunPlugin(n, k) \/ \E b \in BOOLEAN : RerunPlugin(n, k, b)
    \/ \E j \in Jobs : ExpireKey(j)

Init == RedisInit /\ FillInit

Next == FillNext \/ \E n \in Blocks : Request(n) \/ RequestFails(n)

Spec == Init /\ [][Next]_vars

-----------------------------------------------------------------------------
(* Properties.                                                             *)

(* A plugin job exists only for a block whose row is committed: the worker *)
(* that runs the job reads the row and its events back by number           *)
(* (go-worker.go), and the jobs are published after the commit.            *)
JobsOfStoredBlocks ==
    \A n \in Blocks, k \in Kinds : Emitted(n, k) => Stored(n)

(* Whatever the order in which concurrent fills read and write the         *)
(* watermarks, each holds the number of a committed block; the subscribe   *)
(* daemon resumes from it after a restart.                                 *)
WatermarkStored ==
    \A n \in {fillBest, fillFinal} \ {0} : Stored(n)

(* ... and of one whose plugin jobs have all reached their lists, when     *)
(* Redis accepts every job: the watermark moves after the last publish,    *)
(* and a fill that finds the row complete does not move it.                *)
WatermarkComplete ==
    \A n \in {fillBest, fillFinal} \ {0}, k \in Kinds : Emitted(n, k)

(* A block somebody asked for is stored, or its job is in a list or in a   *)
(* goroutine, unless a job was dropped by a failing Redis or a panic:      *)
(* failed fetches, rollbacks, crashes and the rate limiter lose nothing.   *)
NothingForgotten ==
    \A n \in Requested :
        \/ Stored(n)
        \/ queued[BlockJob(n)] > 0
        \/ \E w \in Workers : Holds(w, n)
        \/ n \in lost

(* A stored block whose plugin job has not reached its list still has the  *)
(* goroutine that will publish it: no other will, because the next fill of *)
(* the block ends at the finalized test.                                   *)
NoStrandedBlock ==
    \A n \in Archived, k \in Kinds :
        \/ Emitted(n, k)
        \/ \E w \in Workers : pc[w] = "emit" /\ num[w] = n /\ step[w] <= k

(* The counter in Redis never falls behind the committed extrinsics, as    *)
(* long as Redis answers: rollbacks, crashes and concurrent fills can only *)
(* leave it too high.                                                      *)
Fresh == {w \in Workers : fresh[w]}

CountCovers == Cardinality(extrinsics) + Cardinality(Fresh) <= count

(* Without rollbacks it is exact, however many goroutines fill one block.  *)
CountExact == Cardinality(extrinsics) + Cardinality(Fresh) = count

(* At rest, every stored block has given its plugin jobs to the lists:     *)
(* plugin.go publishes them "after event created".  A publish that fails   *)
(* after the commit breaks this for good: the retried job ends at the      *)
(* finalized test.                                                         *)
AtRest(n) == queued[BlockJob(n)] = 0 /\ \A w \in Workers : ~ Holds(w, n)

RestComplete ==
    \A n \in Archived, k \in Kinds : AtRest(n) => Emitted(n, k)

(* Two fills of one block that decode it differently never rewrite its row *)
(* or take its extrinsics away.                                            *)
WrittenOnce ==
    [][/\ \A n \in Archived : row'[n] = row[n]
       /\ extrinsics \subseteq extrinsics']_vars

-----------------------------------------------------------------------------
(* Fairness: the go-workers goroutines keep running their jobs.  Failures  *)
(* are finite, so each retried call succeeds in the end.                   *)
FillFairness ==
    /\ \A w \in Workers : WF_vars(Succeed(w))
    /\ \A n \in Blocks, k \in Kinds : WF_vars(RunPlugin(n, k))

FairSpec == Spec /\ FillFairness

(* A block asked for is stored in the end.                                 *)
EventuallyStored ==
    \A n \in Blocks : n \in Requested ~> Stored(n)

(* Every plugin job of a stored block is run in the end.                   *)
EventuallyProcessed ==
    \A n \in Blocks, k \in Kinds :
        Stored(n) ~> PluginJob(n, k) \in processed
=============================================================================
