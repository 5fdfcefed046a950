---------------------------- MODULE SharedRedis ----------------------------
(***************************************************************************)
(* The state the subscribe daemon and the worker daemon share through      *)
(* Redis: the go-workers job lists, the keys of the publish rate limiter   *)
(* (util/mq) and the two fill watermarks (internal/dao/chainBlock.go).     *)
(*                                                                         *)
(* A job is a pair <<block number, kind>>.  Kind 0 is the job of the       *)
(* "block" queue that asks for the block to be filled; kinds 1..NumEmits   *)
(* are the plugin-event, plugin-extrinsic and plugin-block jobs the block  *)
(* gives rise to, numbered in the order CreateChainBlock publishes them.   *)
(*                                                                         *)
(* The lists are bags: ten goroutines per queue, in any number of          *)
(* processes, run the jobs, so the order of a list is not the order of     *)
(* execution.                                                              *)
(***************************************************************************)
EXTENDS Naturals, FiniteSets

CONSTANTS
    Blocks,      \* the block numbers
    NumEmits,    \* plugin jobs a block gives rise to
    Faults,      \* the kinds of failure the environment may inject
    MaxFaults    \* bound: failures in one behaviour

ASSUME BlocksAssumption    == Blocks \subseteq Nat
ASSUME NumEmitsAssumption  == NumEmits \in Nat
ASSUME MaxFaultsAssumption == MaxFaults \in Nat

Kinds      == 1..NumEmits
Jobs       == Blocks \X (0..NumEmits)
PluginJobs == Blocks \X Kinds

BlockJob(n)     == <<n, 0>>
PluginJob(n, k) == <<n, k>>

VARIABLES
    queued,      \* queued[j]: copies of job j waiting in its Redis list
    limited,     \* jobs whose rate limiter key has not expired
    fillBest,    \* RedisFillAlreadyBlockNum
    fillFinal,   \* RedisFillFinalizedBlockNum
    faults,      \* failures injected so far
    requests     \* history: requests[n] calls of Publish for block n

redisVars == <<queued, limited, fillBest, fillFinal, faults, requests>>

Requested == {n \in Blocks : requests[n] > 0}

RedisTypeOK ==
    /\ queued \in [Jobs -> Nat]
    /\ limited \subseteq Jobs
    /\ fillBest \in Blocks \cup {0}
    /\ fillFinal \in Blocks \cup {0}
    /\ faults \in 0..MaxFaults
    /\ requests \in [Blocks -> Nat]

RedisInit ==
    /\ queued = [j \in Jobs |-> 0]
    /\ limited = {}
    /\ fillBest = 0
    /\ fillFinal = 0
    /\ faults = 0
    /\ requests = [n \in Blocks |-> 0]

-----------------------------------------------------------------------------
(* A failure of kind f happens in this step; the budget makes the failures *)
(* of a behaviour finite.                                                  *)
Fault(f) ==
    /\ f \in Faults
    /\ faults < MaxFaults
    /\ faults' = faults + 1

(* workers.Enqueue: push on the job's list.                                *)
Enqueue(j) == queued' = [queued EXCEPT ![j] = @ + 1]

(* The list hands a job to a goroutine, which then owns it (go-workers     *)
(* moves it to an in-progress list).                                       *)
Deliver(j) ==
    /\ queued[j] > 0
    /\ queued' = [queued EXCEPT ![j] = @ - 1]

(* Mutant: the limiter key leaves out the arguments of the job.            *)
PublishKeyedByKind(j) ==
    IF \E i \in limited : i[2] = j[2]
    THEN UNCHANGED <<queued, limited>>
    ELSE Enqueue(j) /\ limited' = limited \cup {j}

(* GoWorker.Publish that returns nil: a job whose limiter key is alive is  *)
(* dropped, any other is pushed and its key set for 12 seconds.            *)
Publish(j) ==
    IF j \in limited
    THEN UNCHANGED <<queued, limited>>
    ELSE Enqueue(j) /\ limited' = limited \cup {j}

(* GoWorker.Publish that returns the error of Enqueue: rateLimit has       *)
(* already set the key.                                                    *)
PublishFails(j) ==
    /\ Fault("enqueue")
    /\ j \notin limited
    /\ limited' = limited \cup {j}
    /\ UNCHANGED queued

(* GoWorker.ForcePublish does not consult the limiter.                     *)
ForcePublish(j) == Enqueue(j) /\ UNCHANGED limited

(* A GET of a watermark whose error is discarded: a failing one reads 0.   *)
ReadMark(mark, seen) ==
    \/ seen = mark /\ UNCHANGED faults
    \/ seen = 0 /\ Fault("redis")

(* The 12 second TTL of a limiter key runs out.  Two publishers that both  *)
(* read the TTL before either sets the key behave as a publish, an expiry  *)
(* and a publish.                                                          *)
Expire(j) ==
    /\ j \in limited
    /\ limited' = limited \ {j}
    /\ UNCHANGED <<queued, fillBest, fillFinal, faults, requests>>
=============================================================================
