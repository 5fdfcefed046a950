------------------------------ MODULE Balance ------------------------------
(***************************************************************************)
(* The balance plugin: a row per account, copied from the node's storage   *)
(* whenever an event names the account, and a row per transfer.  A refresh *)
(* is several steps (find or create the row, read the node three times,    *)
(* write), and workers and an operator's command refresh at the same time. *)
(*                                                                         *)
(* The state of an account on the chain is a version: an index into the    *)
(* constant ChainData.  Events are numbered in the order of the chain.     *)
(***************************************************************************)
EXTENDS Naturals, FiniteSets, Sequences, SequencesExt, FiniteSetsExt

CONSTANTS
    Accounts,     \* accounts of the chain
    ChainData,    \* ChainData[v]: data, locks and vesting of version v
    BalanceWorkers,      \* goroutines of the plugin-event queue
    MaxEvents,    \* bound: events of the chain
    BatchLimit,   \* --limit of RefreshAllAccount
    SplitEvents,  \* events in one table of events
    MaxBalanceFaults     \* bound: failures of the node, the database or Redis, and deaths

VARIABLES
    operator,     \* bound: the command the operator runs, or none
    onChain,      \* version of each account on the chain
    chainEvents,       \* events indexed so far
    eventJobs,         \* events whose plugin-event job waits
    balanceRow,   \* account -> row, for the accounts that have one
    idOrder,      \* accounts in the order of their ids
    transfers,    \* event -> category, for the events that have a transfer row
    counters,        \* the counters total_transfer and total_account
    runner,         \* the workers and the command
    refreshProgress,     \* balance_refresh_all_account_progress
    bFaults,      \* faults so far
    doubt,        \* history: accounts whose last refresh failed, died, was lost or overlapped
    pass,         \* history: accounts refreshed, tried in vain or skipped since the last reset
    firstScan      \* history: events of the running or last InitTransfer, and those it lost

balanceVars == <<operator, onChain, chainEvents, eventJobs, balanceRow, idOrder, transfers,
                 counters, runner, refreshProgress,
                 bFaults, doubt, pass, firstScan>>

Command == "command"
Procs   == BalanceWorkers \cup {Command}

ASSUME BalanceAssumption == /\ Command \notin BalanceWorkers
                            /\ BatchLimit \in Nat
                            /\ SplitEvents \in Nat \ {0}

balanceRowVars == <<balanceRow, idOrder, transfers, counters>>
history == <<doubt, pass, firstScan>>

-----------------------------------------------------------------------------
(* Rows *)

LockedBalance(d) == Max({d.frozen, d.misc, d.fee})

SummarizeLocks(locks) == Max(locks \cup {0})

AccountLockSummary(d, locks) == Max({SummarizeLocks(locks), LockedBalance(d)})

VestedAt(v, n) ==
    IF n <= v.start THEN 0
    ELSE LET vested == v.perBlock * (n - v.start) IN IF vested > v.locked THEN v.locked ELSE vested

SummarizeVesting(vesting, n) == SumSet({<<v, VestedAt(v, n)>>[2] : v \in vesting})

\* The row of an account whose data were read at version v and locks at version
\* lv (0 when that read failed), at block n.
RowOf(v, lv, n) ==
    LET d == ChainData[v]
    IN  [nonce    |-> d.nonce,
         balance  |-> d.free + d.reserved,
         locked   |-> AccountLockSummary(d, IF lv = 0 THEN {} ELSE ChainData[lv].locks),
         reserved |-> d.reserved,
         vested   |-> SummarizeVesting(d.vesting, n)]

NoRow == [nonce |-> 0, balance |-> 0, locked |-> 0, reserved |-> 0, vested |-> 0]

-----------------------------------------------------------------------------
(* RefreshAccount, a step per access to the database or to the node.  A    *)
(* process has a list of accounts to refresh; at = "next" between two.     *)

\* batch: the accounts of RefreshAllAccount; table and rest: the table that
\* InitTransfer is at and the events of it that are still to do.
AtRest == [at |-> "idle", event |-> 0, accounts |-> <<>>, data |-> 0, locks |-> 0, ok |-> TRUE,
         alone |-> TRUE, batch |-> <<>>, table |-> 0, rest |-> {}]

CurrentAccount(p) == Head(runner[p].accounts)

\* The id of the row of an account.
IdOf(a) == CHOOSE i \in DOMAIN idOrder : idOrder[i] = a

Refreshing(p, a) == runner[p].at \in {"row", "countAccount", "data", "locks", "write"} /\ CurrentAccount(p) = a

\* An account id that address.Format refuses is left alone.
RefreshAccount(p) ==
    /\ runner[p].at = "next" /\ runner[p].accounts # <<>>
    /\ LET a == CurrentAccount(p)
           others == {q \in Procs \ {p} : Refreshing(q, a)}
       IN  IF a \notin Accounts
           THEN runner' = [runner EXCEPT ![p].accounts = Tail(@)]
           ELSE runner' = [q \in Procs |->
                    CASE q = p        -> [runner[p] EXCEPT !.at = "row", !.alone = others = {}]
                      [] q \in others -> [runner[q] EXCEPT !.alone = FALSE]
                      [] OTHER        -> runner[q]]
    /\ UNCHANGED <<operator, onChain, chainEvents, eventJobs, balanceRowVars, refreshProgress,
                   bFaults, history>>

FirstOrCreate(p) ==
    /\ runner[p].at = "row"
    /\ LET a == CurrentAccount(p)
       IN  IF a \in DOMAIN balanceRow
           THEN /\ runner' = [runner EXCEPT ![p].at = "data"]
                /\ UNCHANGED <<balanceRow, idOrder>>
           ELSE /\ runner' = [runner EXCEPT ![p].at = "countAccount"]
                /\ balanceRow' = [b \in DOMAIN balanceRow \cup {a} |->
                                    IF b = a THEN NoRow ELSE balanceRow[b]]
                /\ idOrder' = Append(idOrder, a)
    /\ UNCHANGED <<operator, onChain, chainEvents, eventJobs, transfers, counters,
                   refreshProgress, bFaults, history>>

\* A query of FirstOrCreate fails: the refresh goes on, with or without a row.
FirstOrCreateFails(p) ==
    /\ runner[p].at = "row"
    /\ bFaults < MaxBalanceFaults /\ bFaults' = bFaults + 1
    /\ runner' = [runner EXCEPT ![p].at = "data"]
    /\ UNCHANGED <<operator, onChain, chainEvents, eventJobs, balanceRowVars, refreshProgress,
                   history>>

\* HINCRBY, whose error is ignored.
Count(field) ==
    \/ counters' = [counters EXCEPT ![field] = @ + 1] /\ UNCHANGED bFaults
    \/ /\ bFaults < MaxBalanceFaults /\ bFaults' = bFaults + 1
       /\ UNCHANGED counters

CountAccount(p) ==
    /\ runner[p].at = "countAccount"
    /\ Count("account")
    /\ runner' = [runner EXCEPT ![p].at = "data"]
    /\ UNCHANGED <<operator, onChain, chainEvents, eventJobs, balanceRow, idOrder, transfers,
                   refreshProgress, history>>

\* The end of the refresh of the current account.
Refreshed(p, ok) ==
    [runner[p] EXCEPT !.at = "next", !.accounts = Tail(@), !.data = 0, !.locks = 0, !.ok = @ /\ ok]

ReadData(p) ==
    /\ runner[p].at = "data"
    /\ runner' = [runner EXCEPT ![p].at = "locks", ![p].data = onChain[CurrentAccount(p)]]
    /\ UNCHANGED <<operator, onChain, chainEvents, eventJobs, balanceRowVars, refreshProgress,
                   bFaults, history>>

\* The read of the account data or the UPDATE of the row fails.
RefreshFails(p) ==
    /\ runner[p].at \in {"data", "write"}
    /\ bFaults < MaxBalanceFaults /\ bFaults' = bFaults + 1
    /\ runner' = [runner EXCEPT ![p] = Refreshed(p, FALSE)]
    /\ doubt' = doubt \cup {CurrentAccount(p)}
    /\ pass' = IF p = Command THEN pass \cup {CurrentAccount(p)} ELSE pass
    /\ UNCHANGED <<operator, onChain, chainEvents, eventJobs, balanceRowVars, refreshProgress,
                   firstScan>>

\* A failed read of the locks leaves those of the account data alone.
ReadBalanceLocks(p) ==
    /\ runner[p].at = "locks"
    /\ \/ /\ runner' = [runner EXCEPT ![p].at = "write", ![p].locks = onChain[CurrentAccount(p)]]
          /\ UNCHANGED bFaults
       \/ /\ bFaults < MaxBalanceFaults /\ bFaults' = bFaults + 1
          /\ runner' = [runner EXCEPT ![p].at = "write", ![p].locks = 0]
    /\ UNCHANGED <<operator, onChain, chainEvents, eventJobs, balanceRowVars, refreshProgress,
                   history>>

\* RefreshAllAccount saves id n as its progress; the error is ignored.
SaveProgress(n) ==
    \/ refreshProgress' = n /\ UNCHANGED bFaults
    \/ /\ bFaults < MaxBalanceFaults /\ bFaults' = bFaults + 1
       /\ UNCHANGED refreshProgress

\* Writes what was read, whatever the chain says by now, to the row, if the
\* account has one.
AfterAccountCreate(p) ==
    /\ runner[p].at = "write"
    /\ LET a     == CurrentAccount(p)
           known == a \in DOMAIN balanceRow
       IN  /\ balanceRow' = [b \in DOMAIN balanceRow |->
                 IF b = a THEN RowOf(runner[p].data, runner[p].locks, Len(chainEvents)) ELSE balanceRow[b]]
           /\ IF p = Command /\ runner[p].batch # <<>> THEN SaveProgress(IdOf(a))
              ELSE UNCHANGED <<refreshProgress, bFaults>>
           /\ pass' = IF p = Command /\ known THEN pass \cup {a} ELSE pass
           /\ doubt' = IF known /\ runner[p].alone /\ runner[p].locks # 0
                       THEN doubt \ {a} ELSE doubt \cup {a}
           /\ runner' = [runner EXCEPT ![p] = Refreshed(p, TRUE)]
    /\ UNCHANGED <<operator, onChain, chainEvents, eventJobs, idOrder, transfers, counters,
                   firstScan>>

-----------------------------------------------------------------------------
(* Events.  An event names the accounts whose state it changes; extrinsic  *)
(* is the one it belongs to.                                               *)

TransferCategoryTransfer == "transfer"
TransferCategoryBridgeIn == "bridge_in"
OmniBridgeSyntheticSender == "omnibridge"

hasOmniBridgePaidOut(ids) == \E e \in ids : chainEvents[e].kind = "PaidOut"

OfExtrinsic(x) == {e \in DOMAIN chainEvents : chainEvents[e].extrinsic = x}

\* The deposits of a payout: every balances.Minted of its extrinsic.
OmniBridgePayoutTransfers(ids) ==
    IF hasOmniBridgePaidOut(ids) THEN {e \in ids : chainEvents[e].kind = "Minted"} ELSE {}

\* Mutant: only the sender of a transfer is refreshed.
BalanceTransferOneSided(e) ==
    IF chainEvents[e].kind = "Transfer" THEN <<chainEvents[e].accounts[1]>>
    ELSE <<OmniBridgeSyntheticSender, chainEvents[e].accounts[1]>>

\* Sender and receiver of the transfer of an event.
BalanceTransferFromEvent(e) ==
    IF chainEvents[e].kind = "Transfer" THEN chainEvents[e].accounts
    ELSE <<OmniBridgeSyntheticSender, chainEvents[e].accounts[1]>>

\* A block is indexed: its event changed the accounts it names.
ChainEvent(kind, accounts, extrinsic) ==
    /\ Len(chainEvents) < MaxEvents
    /\ \A a \in ToSet(accounts) : onChain[a] < Len(ChainData)
    /\ onChain' = [a \in Accounts |-> IF a \in ToSet(accounts) THEN onChain[a] + 1 ELSE onChain[a]]
    /\ chainEvents' = Append(chainEvents, [kind |-> kind, accounts |-> accounts, extrinsic |-> extrinsic])
    /\ eventJobs' = IF kind = "PaidOut" THEN eventJobs ELSE eventJobs \cup {Len(chainEvents) + 1}
    /\ UNCHANGED <<operator, balanceRowVars, runner, refreshProgress, bFaults, history>>

\* A worker takes the job of an event.
EmitEvent(w, e) ==
    /\ runner[w] = AtRest /\ e \in eventJobs
    /\ operator # "none" => \A v \in BalanceWorkers : runner[v] = AtRest   \* bound: one worker
    /\ eventJobs' = eventJobs \ {e}
    /\ runner' = [runner EXCEPT ![w] =
         IF chainEvents[e].kind = "Transfer"
         THEN [AtRest EXCEPT !.at = "transfer", !.event = e]
         ELSE [AtRest EXCEPT !.at = "next", !.event = e, !.accounts = chainEvents[e].accounts]]
    /\ UNCHANGED <<operator, onChain, chainEvents, balanceRowVars, refreshProgress, bFaults,
                   history>>

\* A transfer that has a row is left alone, whoever made the row.
CreateTransfer(p) ==
    /\ runner[p].at = "transfer"
    /\ LET e == runner[p].event
       IN  IF e \in DOMAIN transfers
           THEN /\ runner' = [runner EXCEPT ![p].at = "next"]
                /\ UNCHANGED transfers
           ELSE /\ runner' = [runner EXCEPT ![p].at = "countTransfer"]
                /\ transfers' = [x \in DOMAIN transfers \cup {e} |->
                      IF x # e THEN transfers[x]
                      ELSE IF chainEvents[e].kind = "Transfer" THEN TransferCategoryTransfer
                      ELSE TransferCategoryBridgeIn]
    /\ UNCHANGED <<operator, onChain, chainEvents, eventJobs, balanceRow, idOrder, counters,
                   refreshProgress, bFaults, history>>

CountTransfer(p) ==
    /\ runner[p].at = "countTransfer"
    /\ Count("transfer")
    /\ runner' = [runner EXCEPT ![p].at = "next", ![p].accounts = BalanceTransferFromEvent(runner[p].event)]
    /\ UNCHANGED <<operator, onChain, chainEvents, eventJobs, balanceRow, idOrder, transfers,
                   refreshProgress, history>>

\* A failed job is published again, or lost when that fails too (counted with
\* the failure of the job).
Republish(e) == eventJobs' \in {eventJobs, eventJobs \cup {e}}

\* The job ends.  Only the refresh that is the whole job passes its error on;
\* those after a transfer do not.
EndEvent(w) ==
    /\ w \in BalanceWorkers /\ runner[w].at = "next" /\ runner[w].accounts = <<>>
    /\ IF ~runner[w].ok /\ chainEvents[runner[w].event].kind # "Transfer"
       THEN Republish(runner[w].event) ELSE UNCHANGED eventJobs
    /\ runner' = [runner EXCEPT ![w] = AtRest]
    /\ UNCHANGED <<operator, onChain, chainEvents, balanceRowVars, refreshProgress, bFaults,
                   history>>

-----------------------------------------------------------------------------
(* The operator's commands *)

AfterId(n) == {i \in DOMAIN idOrder : i > n}

Modes == {"reset", "resume", "start-id"}

\* RefreshAllAccount refreshes the next BatchLimit accounts after a start: the
\* saved progress (mode resume), id 0 (mode reset) or the id the operator names
\* (--start-id; 0 is the start of a resume without Redis).  Without Redis it
\* starts at 0 and a reset is not saved; without the database nothing is
\* refreshed.
RefreshAllAccount(mode, id) ==
    \E redis, sql \in BOOLEAN :
    /\ operator = "RefreshAllAccount" /\ runner[Command] = AtRest
    /\ mode = "start-id" <=> id # 0
    /\ bFaults' = IF redis /\ sql THEN bFaults ELSE bFaults + 1
    /\ bFaults' <= MaxBalanceFaults
    /\ LET start == CASE mode = "start-id"         -> id
                      [] mode = "resume" /\ redis -> refreshProgress
                      [] OTHER                    -> 0
           n     == Cardinality(AfterId(start))
           batch == SubSeq(idOrder, start + 1, start + (IF n < BatchLimit THEN n ELSE BatchLimit))
           begun == sql /\ batch # <<>>
           reset == mode = "reset" /\ redis
       IN  /\ runner' = IF ~begun THEN runner
                      ELSE [runner EXCEPT ![Command] =
                              [AtRest EXCEPT !.at = "next", !.accounts = batch, !.batch = batch]]
           /\ refreshProgress' = IF reset THEN 0 ELSE refreshProgress
           /\ pass' = (IF reset THEN {} ELSE pass)
                     \cup (IF mode = "start-id" /\ begun THEN ToSet(SubSeq(idOrder, 1, id)) ELSE {})
    /\ UNCHANGED <<operator, onChain, chainEvents, eventJobs, balanceRowVars, doubt, firstScan>>

EndRefreshAll ==
    /\ runner[Command].at = "next" /\ runner[Command].accounts = <<>> /\ runner[Command].batch # <<>>
    /\ SaveProgress(IdOf(Last(runner[Command].batch)))
    /\ runner' = [runner EXCEPT ![Command] = AtRest]
    /\ UNCHANGED <<operator, onChain, chainEvents, eventJobs, balanceRowVars, history>>

\* Events are in the table of their block.
TableOf(e) == (chainEvents[e].extrinsic - 1) \div SplitEvents

\* Mutant: the walk stops before the oldest table.
BackfillTableNewer(t) ==
    LET ids == {e \in DOMAIN chainEvents : TableOf(e) = t /\ t > 0}
    IN  {e \in ids : chainEvents[e].kind = "Transfer"}
        \cup UNION {OmniBridgePayoutTransfers(OfExtrinsic(chainEvents[e].extrinsic) \cap ids) : e \in ids}

\* The events of table t, read when its turn comes: its transfers, and the
\* deposits of the extrinsics that have a payout.
BackfillTable(t) ==
    LET ids == {e \in DOMAIN chainEvents : TableOf(e) = t}
    IN  {e \in ids : chainEvents[e].kind = "Transfer"}
        \cup UNION {OmniBridgePayoutTransfers(OfExtrinsic(chainEvents[e].extrinsic) \cap ids) : e \in ids}

\* InitTransfer walks the tables from the one of the finalized watermark, which
\* may be behind the events (0 when it cannot be read), down to table 0.
InitTransfer ==
    /\ operator = "InitTransfer" /\ runner[Command] = AtRest /\ chainEvents # <<>>
    /\ \E t \in 0..TableOf(Len(chainEvents)) :
         /\ firstScan' = [running |-> TRUE, from |-> {e \in DOMAIN chainEvents : TableOf(e) <= t},
                          lost |-> {}]
         /\ runner' = [runner EXCEPT ![Command] = [AtRest EXCEPT !.at = "table", !.table = t]]
    /\ UNCHANGED <<operator, onChain, chainEvents, eventJobs, balanceRowVars, refreshProgress,
                   bFaults, doubt, pass>>

\* A query of the table that fails passes over what it would have found.
ReadTable ==
    /\ runner[Command].at = "table"
    /\ \E lost \in SUBSET BackfillTable(runner[Command].table) :
         /\ bFaults' = IF lost = {} THEN bFaults ELSE bFaults + 1
         /\ bFaults' <= MaxBalanceFaults
         /\ firstScan' = [firstScan EXCEPT !.lost = @ \cup lost]
         /\ runner' = [runner EXCEPT ![Command].at = "insert",
                            ![Command].rest = BackfillTable(runner[Command].table) \ lost]
    /\ UNCHANGED <<operator, onChain, chainEvents, eventJobs, balanceRowVars, refreshProgress,
                   doubt, pass>>

\* The transfers of a table come first, then the deposits.
FirstOfTable(rest) ==
    LET moves == {e \in rest : chainEvents[e].kind = "Transfer"}
    IN  IF moves # {} THEN moves ELSE rest

\* The next event of the table in the order of the ids, its errors ignored, or
\* the next table.
BackfillEvent ==
    LET c == runner[Command]
    IN  /\ \/ c.at = "insert"
           \/ c.at = "next" /\ c.accounts = <<>> /\ c.batch = <<>>
        /\ \/ \E e \in c.rest :
                 /\ e \in FirstOfTable(c.rest) /\ \A x \in FirstOfTable(c.rest) : e <= x
                 /\ runner' = [runner EXCEPT ![Command] =
                        [AtRest EXCEPT !.at = "transfer", !.event = e, !.table = c.table, !.rest = c.rest \ {e}]]
                 /\ UNCHANGED firstScan
           \/ /\ c.rest = {} /\ c.table > 0
              /\ runner' = [runner EXCEPT ![Command] = [AtRest EXCEPT !.at = "table", !.table = c.table - 1]]
              /\ UNCHANGED firstScan
           \/ /\ c.rest = {} /\ c.table = 0
              /\ runner' = [runner EXCEPT ![Command] = AtRest]
              /\ firstScan' = [firstScan EXCEPT !.running = FALSE]
        /\ UNCHANGED <<operator, onChain, chainEvents, eventJobs, balanceRowVars,
                       refreshProgress, bFaults, doubt, pass>>

-----------------------------------------------------------------------------
NoScan == [running |-> FALSE, from |-> {}, lost |-> {}]

\* Process p gives up what it is at and goes on as r: the accounts it was to
\* refresh, and those another process is refreshing of them, are in doubt.
Abandon(p, r) ==
    LET named == ToSet(runner[p].accounts) \cup
                   (IF runner[p].event = 0 THEN {} ELSE ToSet(chainEvents[runner[p].event].accounts))
    IN  /\ doubt' = doubt \cup (Accounts \cap named)
        /\ runner' = [q \in Procs |->
             IF q = p THEN r
             ELSE IF \E a \in named : Refreshing(q, a) THEN [runner[q] EXCEPT !.alone = FALSE]
             ELSE runner[q]]

\* The insert of a transfer fails: the job of a worker ends with it.
TransferFails(w) ==
    /\ w \in BalanceWorkers /\ runner[w].at = "transfer"
    /\ bFaults < MaxBalanceFaults /\ bFaults' = bFaults + 1
    /\ Abandon(w, AtRest) /\ Republish(runner[w].event)
    /\ UNCHANGED <<operator, onChain, chainEvents, balanceRowVars, refreshProgress, pass, firstScan>>

\* In InitTransfer the walk goes on, but for the other deposits of the payout.
BackfillFails ==
    LET c    == runner[Command]
        lost == {c.event} \cup (IF chainEvents[c.event].kind = "Transfer" THEN {}
                                ELSE c.rest \cap OfExtrinsic(chainEvents[c.event].extrinsic))
    IN  /\ c.at = "transfer"
        /\ bFaults < MaxBalanceFaults /\ bFaults' = bFaults + 1
        /\ Abandon(Command, [AtRest EXCEPT !.at = "insert", !.table = c.table, !.rest = c.rest \ lost])
        /\ firstScan' = [firstScan EXCEPT !.lost = @ \cup lost]
        /\ UNCHANGED <<operator, onChain, chainEvents, eventJobs, balanceRowVars, refreshProgress,
                       pass>>

\* A process dies: the job of a worker is delivered again, the command is gone.
ProcessDies(p) ==
    /\ bFaults < MaxBalanceFaults /\ runner[p] # AtRest
    /\ bFaults' = bFaults + 1
    /\ Abandon(p, AtRest)
    /\ eventJobs' = IF p \in BalanceWorkers THEN eventJobs \cup {runner[p].event} ELSE eventJobs
    /\ firstScan' = IF p = Command THEN NoScan ELSE firstScan
    /\ UNCHANGED <<operator, onChain, chainEvents, balanceRowVars, refreshProgress, pass>>

BalanceInit ==
    /\ operator \in {"none", "RefreshAllAccount", "InitTransfer"}
    /\ onChain = [a \in Accounts |-> 1]
    /\ chainEvents = <<>> /\ eventJobs = {} /\ refreshProgress = 0 /\ bFaults = 0
    /\ balanceRow = [a \in {} |-> NoRow] /\ idOrder = <<>>
    /\ transfers = [e \in {} |-> TransferCategoryTransfer]
    /\ counters = [transfer |-> 0, account |-> 0]
    /\ runner = [p \in Procs |-> AtRest]
    /\ doubt = {} /\ pass = {} /\ firstScan = NoScan

BalanceNext ==
    \/ \E a, b \in Accounts : a # b /\ ChainEvent("Transfer", <<a, b>>, Len(chainEvents) + 1)
    \/ \E a \in Accounts, x \in {Len(chainEvents), Len(chainEvents) + 1} \ {0} : ChainEvent("Minted", <<a>>, x)
    \/ (chainEvents # <<>> /\ ChainEvent("PaidOut", <<>>, Len(chainEvents)))
    \/ \E w \in BalanceWorkers : EndEvent(w) \/ \E e \in eventJobs : EmitEvent(w, e)
    \/ \E p \in Procs :
         \/ RefreshAccount(p) \/ FirstOrCreate(p) \/ FirstOrCreateFails(p) \/ CountAccount(p)
         \/ ReadData(p) \/ ReadBalanceLocks(p) \/ AfterAccountCreate(p) \/ RefreshFails(p)
         \/ CreateTransfer(p) \/ CountTransfer(p) \/ TransferFails(p) \/ ProcessDies(p)
    \/ \E mode \in Modes, id \in 0..Len(idOrder) : RefreshAllAccount(mode, id)
    \/ EndRefreshAll
    \/ InitTransfer \/ ReadTable \/ BackfillEvent \/ BackfillFails

-----------------------------------------------------------------------------
(* Properties *)

\* When every event has been handled, the row of each account it named is the
\* account on the chain, but for the accounts in doubt: those whose last refresh
\* failed (also one whose row could not be made, or its locks not be read), died,
\* was given up with its job or transfer, or ran beside another one.  A change
\* that comes while a refresh is under way is caught by the refresh of its own
\* event.
RowsFresh ==
    (eventJobs = {} /\ \A p \in Procs : runner[p] = AtRest) =>
        \A e \in DOMAIN chainEvents : \A a \in ToSet(chainEvents[e].accounts) \ doubt :
            /\ a \in DOMAIN balanceRow
            /\ [balanceRow[a] EXCEPT !.vested = 0]
                 = [RowOf(onChain[a], onChain[a], 0) EXCEPT !.vested = 0]

\* The saved progress of RefreshAllAccount passes no account that was not at
\* least tried since the last reset that Redis took, wherever the command died
\* and whatever Redis refused to save, but those an operator skipped with
\* --start-id.
PassCovers ==
    \A i \in DOMAIN idOrder : i <= refreshProgress => idOrder[i] \in pass

\* The events of ids that InitTransfer makes a row of: the transfers, and the
\* deposits of an extrinsic that pays out.
ToBackfill(ids) ==
    {e \in ids :
        \/ chainEvents[e].kind = "Transfer"
        \/ /\ chainEvents[e].kind = "Minted"
           /\ \E x \in ids : /\ chainEvents[x].kind = "PaidOut"
                             /\ chainEvents[x].extrinsic = chainEvents[e].extrinsic}

\* A finished InitTransfer has left a row for every transfer, and for every
\* deposit of a payout, that was indexed when it began, up to the table of the
\* finalized watermark it read, but for those that a failing query or insert
\* made it lose; and the category of a row is that of its event.
BackfillComplete ==
    /\ ~firstScan.running => ToBackfill(firstScan.from) \ firstScan.lost \subseteq DOMAIN transfers
    /\ \A e \in DOMAIN transfers :
         transfers[e] = TransferCategoryBridgeIn <=> chainEvents[e].kind = "Minted"

\* The operator's commands, which run beside the workers, may die anywhere and
\* ignore most errors: what they pass over is what they were told to skip or
\* what a failure of theirs names.
CommandsComplete == PassCovers /\ BackfillComplete
=============================================================================
