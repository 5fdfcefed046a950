------------------------------ MODULE MCWorker ------------------------------
(* The smaller parts around the block worker, for TLC: the task pool, the   *)
(* tables it makes, the counters and the mapping it keeps beside the rows,  *)
(* and the command that fills the accounts.  They share no state, so a      *)
(* behaviour is one of one part; in a behaviour of another part the pool    *)
(* has returned before it begins.                                           *)
EXTENDS TaskPool, SplitTables, ExtrinsicCounts, AccountMapping, InitAccount

VARIABLE part

poolVars == vars
allVars  == <<part, poolVars, tableVars, countVars, mapVars, initVars>>

-----------------------------------------------------------------------------
\* Two blocks in two tables.
MCExtrinsicsOf == [b \in 1..2 |-> [table |-> b - 1, all |-> 2, signed |-> 1]]

\* One account that signs in three tables.
MCSignedIn == [b \in 1..3 |-> [account |-> "ann", table |-> b - 1]]

\* A pool that has run all its tasks.
PoolReturned ==
    /\ state = [t \in Tasks |-> "done"] /\ failed = {} /\ errs = {}
    /\ main = "ended" /\ closer = "closed" /\ cancelled = FALSE /\ waiter = "true"

Start ==
    /\ part \in {"pool", "tables", "counts", "mapping", "accounts"}
    /\ IF part = "pool" THEN Init ELSE PoolReturned
    /\ SplitTablesInit /\ CountsInit /\ MappingInit /\ InitAccountInit
    /\ part # "accounts" => \A a \in Holders : holder[a] = 1
    /\ part # "mapping" => signedStored = {}

Step ==
    \/ part = "pool" /\ Next /\ UNCHANGED <<part, tableVars, countVars, mapVars, initVars>>
    \/ part = "tables" /\ SplitTablesNext /\ UNCHANGED <<part, poolVars, countVars, mapVars, initVars>>
    \/ part = "counts" /\ CountsNext /\ UNCHANGED <<part, poolVars, tableVars, mapVars, initVars>>
    \/ part = "mapping" /\ MappingNext /\ UNCHANGED <<part, poolVars, tableVars, countVars, initVars>>
    \/ part = "accounts" /\ InitAccountNext /\ UNCHANGED <<part, poolVars, tableVars, countVars, mapVars>>

\* What each part is owed.  Goroutines that can run do; the list of jobs is
\* first in, first out, so that a block that comes back to it again and again
\* is taken again and again; the cron job runs and the cache expires.
TablesFairness ==
    /\ \A w \in TableWorkers : WF_tableVars(part = "tables" /\ FillStep(w))
    /\ \A b \in 0..(MaxHead - FinalLag) :
         SF_tableVars(part = "tables" /\ \E w \in TableWorkers : TakeBlock(w, b))
    /\ WF_tableVars(part = "tables" /\ AddStep) /\ WF_tableVars(part = "tables" /\ MigrateStep)

CountsFairness ==
    /\ \A w \in CountWorkers : WF_countVars(part = "counts" /\ CountStep(w))
    /\ WF_countVars(part = "counts" /\ RefreshStep)
    /\ \A i \in Tables, q \in Queries : WF_countVars(part = "counts" /\ ExpireCount(i, q))

WorkerSpec ==
    /\ Start /\ [][Step]_allVars
    /\ Fairness /\ TablesFairness /\ CountsFairness
=============================================================================
