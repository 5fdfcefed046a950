---------------------------- MODULE InitAccount ----------------------------
(***************************************************************************)
(* The command InitAccount of the balance plugin: a row for every account  *)
(* of the chain.  It scans the locks of all accounts, then the accounts,   *)
(* both in pages of keys whose values are read after them, and hands the   *)
(* accounts to a pool of goroutines that write the rows whole, while the   *)
(* workers refresh the rows that events name.                              *)
(*                                                                         *)
(* Accounts are numbered in the order of their storage keys.  The state of *)
(* one is a version; it has locks, as of that version, from the first on.  *)
(* The vesting schedules are scanned and used as the locks are.            *)
(***************************************************************************)
EXTENDS Naturals, FiniteSets, FiniteSetsExt

CONSTANTS
    NumHolders,       \* accounts that the chain has or will have
    PageSize,         \* keys of one page, 256 in the code
    PoolSize,         \* goroutines of the pool, 10 in the code
    MaxChanges,       \* bound: changes of accounts
    InitFaults,       \* bound: what may fail: "keys", "values", "write"
    MaxInitFaults     \* bound: how often

ASSUME InitAccountAssumption == NumHolders \in Nat /\ PageSize \in Nat \ {0} /\ PoolSize \in Nat

VARIABLES
    holder,           \* version of each account on the chain, 0 before it has one
    holderRow,        \* versions of the data and of the locks in each row, 0 while it has none
    eventRefresh,     \* accounts whose refresh an event has asked for
    refresher,        \* a worker that refreshes a row
    scan,             \* the command
    tasks,            \* account -> its task in the pool, with what it will write
    begun,            \* history: accounts there when the command began
    passedOver,       \* history: accounts whose page or write failed, or whose task was lost
    outdated,         \* history: rows the command wrote with data or locks that had changed
    changes,          \* changes so far
    initFaults        \* faults so far

initVars == <<holder, holderRow, eventRefresh, refresher, scan, tasks, begun, passedOver,
              outdated, changes, initFaults>>

Holders == 1..NumHolders

NoValues  == [a \in {} |-> 0]
NoScan    == [at |-> "idle", of |-> "locks", start |-> 0, page |-> {}, locks |-> [a \in Holders |-> 0], data |-> NoValues]
NoRefresher == [at |-> "idle", account |-> 0, data |-> 0, locks |-> 0]
NoTask    == [at |-> "none", data |-> 0, locks |-> 0]
InPool    == {a \in Holders : tasks[a].at # "none"}

InitFault(f) == f \in InitFaults /\ initFaults < MaxInitFaults /\ initFaults' = initFaults + 1

-----------------------------------------------------------------------------
(* The chain, and a worker *)

ChangeHolder(a) ==
    /\ changes < MaxChanges /\ changes' = changes + 1
    /\ holder' = [holder EXCEPT ![a] = @ + 1]
    /\ eventRefresh' = eventRefresh \cup {a}
    /\ UNCHANGED <<holderRow, refresher, scan, tasks, begun, passedOver, outdated, initFaults>>

\* RefreshAccount reads the data and then the locks.
StartRefresher(a) ==
    /\ refresher.at = "idle" /\ a \in eventRefresh
    /\ eventRefresh' = eventRefresh \ {a}
    /\ refresher' = [NoRefresher EXCEPT !.at = "locks", !.account = a, !.data = holder[a]]
    /\ UNCHANGED <<holder, holderRow, scan, tasks, begun, passedOver, outdated, changes, initFaults>>

ReadHolderLocks ==
    /\ refresher.at = "locks"
    /\ refresher' = [refresher EXCEPT !.at = "write", !.locks = holder[refresher.account]]
    /\ UNCHANGED <<holder, holderRow, eventRefresh, scan, tasks, begun, passedOver, outdated, changes,
                   initFaults>>

UpdateHolderRow ==
    /\ refresher.at = "write"
    /\ holderRow' = [holderRow EXCEPT ![refresher.account] = [data |-> refresher.data, locks |-> refresher.locks]]
    /\ outdated' = outdated \ {refresher.account}
    /\ refresher' = NoRefresher
    /\ UNCHANGED <<holder, eventRefresh, scan, tasks, begun, passedOver, changes, initFaults>>

-----------------------------------------------------------------------------
(* BatchReadKeysPaged and BatchStorageByKey *)

StartInit ==
    /\ scan.at = "idle"
    /\ scan' = [NoScan EXCEPT !.at = "keys"]
    /\ begun' = {a \in Holders : holder[a] # 0}
    /\ UNCHANGED <<holder, holderRow, eventRefresh, refresher, tasks, passedOver, outdated, changes, initFaults>>

\* The scan of the locks ends without a word, that of the accounts with a panic.
ReadKeysFails ==
    /\ scan.at = "keys" /\ InitFault("keys")
    /\ scan' = IF scan.of = "locks" THEN [scan EXCEPT !.of = "accounts", !.start = 0] ELSE [NoScan EXCEPT !.at = "panic"]
    /\ tasks' = IF scan.of = "locks" THEN tasks ELSE [a \in Holders |-> NoTask]
    /\ UNCHANGED <<holder, holderRow, eventRefresh, refresher, begun, passedOver, outdated, changes>>

KeysAfter(start) == {a \in Holders : a > start /\ holder[a] # 0}

\* The first keys, as many as make a page.
PageOf(keys) == {a \in keys : Cardinality({b \in keys : b <= a}) <= PageSize}

ReadKeys ==
    /\ scan.at = "keys"
    /\ scan' = [scan EXCEPT !.at = "values", !.page = PageOf(KeysAfter(scan.start))]
    /\ UNCHANGED <<holder, holderRow, eventRefresh, refresher, tasks, begun, passedOver, outdated, changes,
                   initFaults>>

\* Mutant: a full page is taken for the last.
LastPageFull == Cardinality(scan.page) <= PageSize

\* A page that is not full is the last.
LastPage == Cardinality(scan.page) < PageSize

NextPage == [scan EXCEPT !.at = "keys", !.start = Max(scan.page), !.page = {}, !.data = NoValues]

\* What is done with the values of a page: locks are kept, accounts handed out.
WithValues(values) ==
    IF scan.of = "accounts" THEN [scan EXCEPT !.at = "hand", !.data = values]
    ELSE [(IF LastPage THEN [scan EXCEPT !.at = "keys", !.of = "accounts", !.start = 0, !.page = {}] ELSE NextPage)
             EXCEPT !.locks = [a \in Holders |-> IF a \in DOMAIN values THEN values[a] ELSE @[a]]]

\* The versions of the accounts of the page, or nothing, and no error, when the
\* request failed.
ReadValues ==
    /\ scan.at = "values"
    /\ \/ scan' = WithValues([a \in scan.page |-> holder[a]]) /\ UNCHANGED <<initFaults, passedOver>>
       \/ /\ InitFault("values")
          /\ scan' = WithValues(NoValues)
          /\ passedOver' = IF scan.of = "accounts" THEN passedOver \cup scan.page ELSE passedOver
    /\ UNCHANGED <<holder, holderRow, eventRefresh, refresher, tasks, begun, outdated, changes>>

\* bp.Invoke waits for a free goroutine.  The accounts are handed out in the
\* order of a map.
InvokeTask(a) ==
    /\ scan.at = "hand" /\ a \in DOMAIN scan.data
    /\ Cardinality(InPool) < PoolSize
    /\ tasks' = [tasks EXCEPT ![a] = [at |-> "handed", data |-> scan.data[a], locks |-> scan.locks[a]]]
    /\ scan' = [scan EXCEPT !.data = [b \in DOMAIN @ \ {a} |-> @[b]]]
    /\ UNCHANGED <<holder, holderRow, eventRefresh, refresher, begun, passedOver, outdated, changes, initFaults>>

EndPage ==
    /\ scan.at = "hand" /\ DOMAIN scan.data = {}
    /\ scan' = IF LastPage THEN [scan EXCEPT !.at = "wait"] ELSE NextPage
    /\ UNCHANGED <<holder, holderRow, eventRefresh, refresher, tasks, begun, passedOver, outdated, changes,
                   initFaults>>

-----------------------------------------------------------------------------
(* The pool *)

\* wg.Add is the first thing the goroutine does.
AddTask(a) ==
    /\ tasks[a].at = "handed"
    /\ tasks' = [tasks EXCEPT ![a].at = "counted"]
    /\ UNCHANGED <<holder, holderRow, eventRefresh, refresher, scan, begun, passedOver, outdated, changes,
                   initFaults>>

\* AddOrUpdateItem, whose error nobody looks at, and wg.Done.
AddOrUpdateItem(a) ==
    /\ tasks[a].at = "counted"
    /\ \/ /\ holderRow' = [holderRow EXCEPT ![a] = [data |-> tasks[a].data, locks |-> tasks[a].locks]]
          /\ outdated' = IF tasks[a].data = holder[a] /\ tasks[a].locks = holder[a]
                         THEN outdated \ {a} ELSE outdated \cup {a}
          /\ UNCHANGED <<passedOver, initFaults>>
       \/ /\ InitFault("write")
          /\ passedOver' = passedOver \cup {a}
          /\ UNCHANGED <<holderRow, outdated>>
    /\ tasks' = [tasks EXCEPT ![a] = NoTask]
    /\ UNCHANGED <<holder, eventRefresh, refresher, scan, begun, changes>>

\* wg.Wait sees only the tasks that have been added; the others die with the
\* process.
ReturnInit ==
    /\ scan.at = "wait" /\ \A a \in InPool : tasks[a].at = "handed"
    /\ scan' = [NoScan EXCEPT !.at = "returned"]
    /\ tasks' = [a \in Holders |-> NoTask]
    /\ passedOver' = passedOver \cup InPool
    /\ UNCHANGED <<holder, holderRow, eventRefresh, refresher, begun, outdated, changes, initFaults>>

InitAccountInit ==
    /\ holder \in [Holders -> {0, 1}] /\ \A a \in Holders \ {NumHolders} : holder[a] = 1
    /\ holderRow = [a \in Holders |-> [data |-> 0, locks |-> 0]]
    /\ eventRefresh = {} /\ refresher = NoRefresher
    /\ scan = NoScan /\ tasks = [a \in Holders |-> NoTask]
    /\ begun = {} /\ passedOver = {} /\ outdated = {} /\ changes = 0 /\ initFaults = 0

InitAccountNext ==
    \/ \E a \in Holders : ChangeHolder(a) \/ StartRefresher(a) \/ InvokeTask(a) \/ AddTask(a) \/ AddOrUpdateItem(a)
    \/ ReadHolderLocks \/ UpdateHolderRow
    \/ StartInit \/ ReadKeysFails \/ ReadKeys \/ ReadValues \/ EndPage \/ ReturnInit

-----------------------------------------------------------------------------
(* Properties *)

\* A command that returned has left a row for every account that was on the
\* chain when it began, but for pages and writes that failed, and for tasks
\* that the pool had been handed and not begun when the wait group was empty,
\* which are never more than the pool has goroutines.
InitComplete ==
    scan.at = "returned" =>
        /\ \A a \in begun \ passedOver : holderRow[a].data # 0
        /\ initFaults = 0 => Cardinality(passedOver) <= PoolSize

\* When the events are handled and the command has ended, a row that an event
\* or the command has written is what the chain says, unless the command came
\* after the refresh of a change that it had not seen, in the accounts or in
\* the locks it read long before them.
InitRowsCurrent ==
    (eventRefresh = {} /\ refresher.at = "idle" /\ InPool = {}) =>
        \A a \in Holders : holderRow[a].data # 0 /\ a \notin outdated =>
            holderRow[a].data = holder[a] /\ holderRow[a].locks = holder[a]

\* The command and the workers, who know nothing of one another.
InitAccountSound == InitComplete /\ InitRowsCurrent
=============================================================================
