------------------------------ MODULE TaskPool ------------------------------
(***************************************************************************)
(* util/parallel/parallel.go: a list of tasks run by a pool of goroutines  *)
(* (ants, five of them).  run() hands the tasks to the pool one at a time, *)
(* waiting when it is full, and only then receives the errors, which the   *)
(* tasks send on a channel without a buffer.  Wait() is called once, by    *)
(* the goroutine that called Start().                                      *)
(*                                                                         *)
(* The tasks are interchangeable, so the list is the set of those that     *)
(* are still "listed".                                                     *)
(***************************************************************************)
EXTENDS Naturals, FiniteSets

CONSTANTS
    Tasks,   \* the tasks pushed before Start
    Pool     \* goroutines of the pool

ASSUME TasksAssumption == IsFiniteSet(Tasks)
ASSUME PoolAssumption  == Pool \in Nat \ {0}

VARIABLES
    state,      \* where each task is
    failed,     \* history: tasks that returned an error
    errs,       \* tasks whose error run() has received
    main,       \* where run() is
    closer,     \* the goroutine that closes errChan
    cancelled,  \* the context is done
    waiter      \* where Wait() is, or what it returned

vars == <<state, failed, errs, main, closer, cancelled, waiter>>

At(s) == {t \in Tasks : state[t] = s}
Busy  == At("running") \cup At("sending") \cup At("leaving")
Move(t, s) == state' = [state EXCEPT ![t] = s]

(* A goroutine of the pool is free.                                       *)
HasRoom == Cardinality(Busy) < Pool

(* wg: a task counts from wg.Add to wg.Done.                               *)
NoneCounted == At("popped") \cup Busy = {}

(* run() closes p.stopped when it returns.                                 *)
Stopped == main \in {"ended", "abandoned"}

TypeOK ==
    /\ state \in [Tasks -> {"listed", "popped", "running", "sending",
                            "leaving", "done"}]
    /\ failed \subseteq Tasks
    /\ errs \subseteq Tasks
    /\ main \in {"pop", "invoke", "poll", "drain", "ended", "abandoned"}
    /\ closer \in {"none", "waiting", "closed"}
    /\ cancelled \in BOOLEAN
    /\ waiter \in {"before", "select", "true", "false"}
    /\ Cardinality(Busy) <= Pool

Init ==
    /\ state = [t \in Tasks |-> "listed"]
    /\ failed = {}
    /\ errs = {}
    /\ main = "pop"
    /\ closer = "none"
    /\ cancelled = FALSE
    /\ waiter = "before"

-----------------------------------------------------------------------------
(* run().                                                                  *)

Pop(t) ==
    /\ main = "pop"
    /\ state[t] = "listed"
    /\ Move(t, "popped")
    /\ main' = "invoke"
    /\ UNCHANGED <<failed, errs, closer, cancelled, waiter>>

(* Invoke waits for a free goroutine of the pool.                          *)
Invoke(t) ==
    /\ main = "invoke"
    /\ state[t] = "popped"
    /\ HasRoom
    /\ Move(t, "running")
    /\ main' = "poll"
    /\ UNCHANGED <<failed, errs, closer, cancelled, waiter>>

(* Mutant: a done context ends the loop and the handler is called.         *)
PollBreaks ==
    /\ main = "poll"
    /\ main' = IF cancelled THEN "ended" ELSE "pop"
    /\ UNCHANGED <<state, failed, errs, closer, cancelled, waiter>>

(* After each task run() returns at once if the context is done: nobody    *)
(* will receive the errors then.                                           *)
Poll ==
    /\ main = "poll"
    /\ main' = IF cancelled THEN "abandoned" ELSE "pop"
    /\ UNCHANGED <<state, failed, errs, closer, cancelled, waiter>>

(* Mutant: nobody closes the channel.                                      *)
StartDrainAlone ==
    /\ main = "pop"
    /\ At("listed") = {}
    /\ main' = "drain"
    /\ UNCHANGED <<state, failed, errs, closer, cancelled, waiter>>

StartDrain ==
    /\ main = "pop"
    /\ At("listed") = {}
    /\ main' = "drain"
    /\ closer' = "waiting"
    /\ UNCHANGED <<state, failed, errs, cancelled, waiter>>

Close ==
    /\ closer = "waiting"
    /\ NoneCounted
    /\ closer' = "closed"
    /\ UNCHANGED <<state, failed, errs, main, cancelled, waiter>>

(* errChan <- err meets the range over errChan.                            *)
Receive(t) ==
    /\ main = "drain"
    /\ state[t] = "sending"
    /\ Move(t, "leaving")
    /\ errs' = errs \cup {t}
    /\ UNCHANGED <<failed, main, closer, cancelled, waiter>>

(* The channel is closed: the handler is called with errs.                 *)
Handle ==
    /\ main = "drain"
    /\ closer = "closed"
    /\ main' = "ended"
    /\ UNCHANGED <<state, failed, errs, closer, cancelled, waiter>>

-----------------------------------------------------------------------------
(* A goroutine of the pool.                                                *)

Finish(t) ==
    /\ state[t] = "running"
    /\ \/ Move(t, "leaving") /\ UNCHANGED failed
       \/ Move(t, "sending") /\ failed' = failed \cup {t}
    /\ UNCHANGED <<errs, main, closer, cancelled, waiter>>

(* The deferred wg.Done; the goroutine is free for another task.           *)
Leave(t) ==
    /\ state[t] = "leaving"
    /\ Move(t, "done")
    /\ UNCHANGED <<failed, errs, main, closer, cancelled, waiter>>

-----------------------------------------------------------------------------
(* Wait() and the owner of the context.                                    *)

CallWait ==
    /\ waiter = "before"
    /\ waiter' = IF Stopped THEN "false" ELSE "select"
    /\ UNCHANGED <<state, failed, errs, main, closer, cancelled>>

(* When both cases of the select are ready, either may be taken.           *)
ReturnWait ==
    /\ waiter = "select"
    /\ \/ cancelled /\ waiter' = "false"
       \/ Stopped /\ waiter' = "true"
    /\ UNCHANGED <<state, failed, errs, main, closer, cancelled>>

Cancel ==
    /\ ~ cancelled
    /\ cancelled' = TRUE
    /\ UNCHANGED <<state, failed, errs, main, closer, waiter>>

Run == \/ \E t \in Tasks : Pop(t) \/ Invoke(t) \/ Receive(t)
       \/ Poll \/ StartDrain \/ Handle

Next == \/ Run \/ Close
        \/ \E t \in Tasks : Finish(t) \/ Leave(t)
        \/ CallWait \/ ReturnWait \/ Cancel

Spec == Init /\ [][Next]_vars

-----------------------------------------------------------------------------
(* Properties.                                                             *)

(* No task sends its error on a closed channel, which would panic: when    *)
(* the channel is closed every task is done.                               *)
NoSendOnClosed == closer = "closed" => At("done") = Tasks

(* The handler gets the error of every task that failed, and of no other.  *)
HandlerExact == main = "ended" => errs = failed

(* run() waits for a free goroutine while every goroutine waits for run()  *)
(* to receive its error.  This takes as many failures as the pool has      *)
(* goroutines, and one task more; mergeTokenInfo pushes five tasks, so it  *)
(* never meets it.                                                         *)
Stuck == main = "invoke" /\ ~ HasRoom /\ Busy = At("sending")

StuckOnlyWhenFull ==
    Stuck => Cardinality(failed) >= Pool /\ Cardinality(Tasks) > Pool

(* When Wait has returned, with either result, and the context is not done *)
(* the tasks and the handler have finished: the caller reads what they     *)
(* wrote without a race.                                                   *)
WaitSettles ==
    waiter \in {"true", "false"} /\ ~ cancelled =>
        main = "ended" /\ At("done") = Tasks

(* What run() and Wait give their callers: every error and no panic, a     *)
(* barrier, and no deadlock below a full pool of failures.                 *)
ReturnExact == NoSendOnClosed /\ HandlerExact /\ WaitSettles /\ StuckOnlyWhenFull

(* Fairness: goroutines that can run do.                                   *)
Fairness ==
    /\ WF_vars(Run)
    /\ WF_vars(Close)
    /\ \A t \in Tasks : WF_vars(Finish(t)) /\ WF_vars(Leave(t))
    /\ WF_vars(ReturnWait)

FairSpec == Spec /\ Fairness

(* run() returns in the end unless the pool is stuck, and Wait with it.    *)
EventuallyReturns ==
    /\ <>(Stopped \/ Stuck)
    /\ waiter = "select" ~> (waiter # "select" \/ Stuck)
=============================================================================
