--------------------------- MODULE AccountMapping ---------------------------
(***************************************************************************)
(* account_extrinsic_mapping: for every account the tables that hold an    *)
(* extrinsic of it, which is all that a list of its extrinsics looks at.   *)
(* The transaction of a block keeps it up (UpdateAccountExtrinsicMapping,  *)
(* from AfterCreate), and the command MigrateAccountExtrinsicMapping makes *)
(* it for what was stored before there was a mapping, outside of any       *)
(* transaction.  Both read a row and write it back whole.                  *)
(*                                                                         *)
(* A block has one signed extrinsic, so a transaction reads one row, at    *)
(* the beginning of its snapshot.  A mapping that is empty is a row that   *)
(* is not there.  The tables up to the newest all exist.                   *)
(***************************************************************************)
EXTENDS Naturals, FiniteSetsExt

CONSTANTS
    MapWorkers,     \* goroutines of the block queue
    SignedIn,       \* SignedIn[b]: the account that signed in block b, and the table of b
    Unmapped,       \* blocks stored before there was a mapping
    MaxMigrations,  \* bound: runs of the command
    MaxMapFaults    \* bound: failing statements, transactions rolled back, jobs done again

\* There is a newest table.
ASSUME MappingAssumption ==
    /\ Unmapped \subseteq DOMAIN SignedIn
    /\ \A b \in DOMAIN SignedIn : SignedIn[b].table \in Nat
    /\ \E b \in DOMAIN SignedIn : \A c \in DOMAIN SignedIn : SignedIn[c].table <= SignedIn[b].table

VARIABLES
    mapper,         \* the goroutines
    signedStored,   \* blocks whose transaction has committed
    extrinsicTable, \* the mapping
    migration,      \* the command
    owing,          \* history: accounts whose row may lack a table
    migrations,     \* runs of the command so far
    mapFaults       \* faults so far

mapVars == <<mapper, signedStored, extrinsicTable, migration, owing, migrations, mapFaults>>

SignedBlocks == DOMAIN SignedIn
AccountOf(b) == SignedIn[b].account
HomeOf(b)    == SignedIn[b].table
Signers      == {AccountOf(b) : b \in SignedBlocks}
LastTable    == Max({HomeOf(b) : b \in SignedBlocks})

NoMapping   == [at |-> "idle", block |-> 0, read |-> {}, writes |-> FALSE]
NoMigration == [at |-> "idle", table |-> 0, found |-> [a \in Signers |-> {}], todo |-> {},
                account |-> "none", read |-> {}, raced |-> {}]

MapFault == mapFaults < MaxMapFaults /\ mapFaults' = mapFaults + 1

\* The row, or the key of the row to be, that an open transaction has written.
Locked(a) == \E w \in MapWorkers : mapper[w].writes /\ AccountOf(mapper[w].block) = a

-----------------------------------------------------------------------------
(* The transaction of a block *)

\* When the job of a block is done a second time AfterCreate runs as well, for
\* rows that are ignored.
InsertSigned(w, b) ==
    /\ mapper[w].at = "idle" /\ \A v \in MapWorkers : mapper[v].at # "idle" => mapper[v].block # b
    /\ IF b \in signedStored THEN MapFault ELSE UNCHANGED mapFaults
    /\ mapper' = [mapper EXCEPT ![w] = [NoMapping EXCEPT !.at = "read", !.block = b]]
    /\ UNCHANGED <<signedStored, extrinsicTable, migration, owing, migrations>>

ReadMapping(w) ==
    /\ mapper[w].at = "read"
    /\ mapper' = [mapper EXCEPT ![w].at = "write", ![w].read = extrinsicTable[AccountOf(mapper[w].block)]]
    /\ UNCHANGED <<signedStored, extrinsicTable, migration, owing, migrations, mapFaults>>

\* Nothing is written when the table is named already.  A row that came to be
\* since the read makes the create a duplicate, which is ignored.
UpdateAccountExtrinsicMapping(w) ==
    LET m == mapper[w]
        a == AccountOf(m.block)
    IN  /\ m.at = "write"
        /\ HomeOf(m.block) \notin m.read => ~Locked(a)
        /\ mapper' = [mapper EXCEPT ![w].at = "commit",
                         ![w].writes = HomeOf(m.block) \notin m.read /\ (m.read = {} => extrinsicTable[a] = {})]
        /\ UNCHANGED <<signedStored, extrinsicTable, migration, owing, migrations, mapFaults>>

CommitSigned(w) ==
    LET m == mapper[w]
        a == AccountOf(m.block)
        stale == HomeOf(m.block) \notin m.read /\ extrinsicTable[a] # m.read
    IN  /\ m.at = "commit"
        /\ signedStored' = signedStored \cup {m.block}
        /\ extrinsicTable' = IF m.writes THEN [extrinsicTable EXCEPT ![a] = m.read \cup {HomeOf(m.block)}]
                             ELSE extrinsicTable
        /\ owing' = IF stale THEN owing \cup {a} ELSE owing
        /\ migration' = IF stale /\ migration.at # "idle" THEN [migration EXCEPT !.raced = @ \cup {a}]
                        ELSE migration
        /\ mapper' = [mapper EXCEPT ![w] = NoMapping]
        /\ UNCHANGED <<migrations, mapFaults>>

RollBackSigned(w) ==
    /\ mapper[w].at # "idle" /\ MapFault
    /\ mapper' = [mapper EXCEPT ![w] = NoMapping]
    /\ UNCHANGED <<signedStored, extrinsicTable, migration, owing, migrations>>

-----------------------------------------------------------------------------
(* MigrateAccountExtrinsicMapping.  An error ends it where it is. *)

StartMigration ==
    /\ migration.at = "idle" /\ migrations < MaxMigrations
    /\ migrations' = migrations + 1
    /\ migration' = [NoMigration EXCEPT !.at = "scan"]
    /\ UNCHANGED <<mapper, signedStored, extrinsicTable, owing, mapFaults>>

\* Mutant: the last table is not looked at.
ScanShort ==
    /\ migration.at = "scan"
    /\ LET t == migration.table
           found == [a \in Signers |-> migration.found[a] \cup {HomeOf(b) : b \in
                       {c \in signedStored : AccountOf(c) = a /\ HomeOf(c) = t}}]
       IN  IF t < LastTable
           THEN migration' = [migration EXCEPT !.table = t + 1, !.found = found]
           ELSE migration' = [migration EXCEPT !.at = "accounts",
                                 !.todo = {a \in Signers : migration.found[a] # {}}]
    /\ UNCHANGED <<mapper, signedStored, extrinsicTable, owing, migrations, mapFaults>>

\* The accounts of one table; the first table that is not there ends the scan.
ScanTable ==
    /\ migration.at = "scan"
    /\ LET t == migration.table
           found == [a \in Signers |-> migration.found[a] \cup {HomeOf(b) : b \in
                       {c \in signedStored : AccountOf(c) = a /\ HomeOf(c) = t}}]
       IN  IF t <= LastTable
           THEN migration' = [migration EXCEPT !.table = t + 1, !.found = found]
           ELSE migration' = [migration EXCEPT !.at = "accounts",
                                 !.todo = {a \in Signers : migration.found[a] # {}}]
    /\ UNCHANGED <<mapper, signedStored, extrinsicTable, owing, migrations, mapFaults>>

ReadAccountRow(a) ==
    /\ migration.at = "accounts" /\ a \in migration.todo
    /\ migration' = [migration EXCEPT !.at = "upsert", !.account = a, !.read = extrinsicTable[a]]
    /\ UNCHANGED <<mapper, signedStored, extrinsicTable, owing, migrations, mapFaults>>

\* A create that ignores a duplicate, or an update when a table is missing.
UpsertAccountRow ==
    LET a     == migration.account
        all   == migration.read \cup migration.found[a]
        write == all # migration.read /\ (migration.read = {} => extrinsicTable[a] = {})
    IN  /\ migration.at = "upsert"
        /\ all # migration.read => ~Locked(a)
        /\ extrinsicTable' = IF write THEN [extrinsicTable EXCEPT ![a] = all] ELSE extrinsicTable
        /\ owing' = IF extrinsicTable[a] = migration.read
                    THEN owing \ ({a} \ migration.raced)
                    ELSE IF write THEN owing \cup {a} ELSE owing
        /\ migration' = IF migration.todo = {a} THEN NoMigration
                        ELSE [migration EXCEPT !.at = "accounts", !.todo = @ \ {a}, !.account = "none", !.read = {}]
        /\ UNCHANGED <<mapper, signedStored, migrations, mapFaults>>

EndMigration ==
    /\ \/ migration.at = "accounts" /\ migration.todo = {} /\ UNCHANGED mapFaults
       \/ migration.at # "idle" /\ MapFault
    /\ migration' = NoMigration
    /\ UNCHANGED <<mapper, signedStored, extrinsicTable, owing, migrations>>

\* A database that is older than the mapping, or a new one.
MappingInit ==
    /\ mapper = [w \in MapWorkers |-> NoMapping]
    /\ signedStored \in {{}, Unmapped}
    /\ extrinsicTable = [a \in Signers |-> {}]
    /\ migration = NoMigration
    /\ owing = {AccountOf(b) : b \in signedStored}
    /\ migrations = 0 /\ mapFaults = 0

MappingNext ==
    \/ \E w \in MapWorkers :
         \/ \E b \in SignedBlocks : InsertSigned(w, b)
         \/ ReadMapping(w) \/ UpdateAccountExtrinsicMapping(w) \/ CommitSigned(w) \/ RollBackSigned(w)
    \/ StartMigration \/ ScanTable \/ UpsertAccountRow \/ EndMigration
    \/ \E a \in Signers : ReadAccountRow(a)

-----------------------------------------------------------------------------
(* Properties *)

\* A row names no table without an extrinsic of the account, and it names every
\* table with one, so that no extrinsic is missing from the lists, unless the
\* row was written back older than it was, or is older than the mapping.  A run
\* of the command settles every account it gets to, whatever was lost before,
\* unless a row of it is written back older than it was since the scan began.
MappingExact ==
    \A a \in Signers :
        LET homes == {HomeOf(b) : b \in {c \in signedStored : AccountOf(c) = a}}
        IN  extrinsicTable[a] \subseteq homes /\ (a \notin owing => homes \subseteq extrinsicTable[a])
=============================================================================
