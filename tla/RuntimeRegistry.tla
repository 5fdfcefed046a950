-------------------------- MODULE RuntimeRegistry --------------------------
(***************************************************************************)
(* What the indexer keeps about the runtime: the versions with their       *)
(* metadata, which decode the stored bytes of a block whenever it is read, *)
(* and the validators of the sessions, which name the author of a block.   *)
(* The goroutines of the worker fill blocks in any order and at the same   *)
(* time, and read the registry without a lock.                             *)
(*                                                                         *)
(* A validator list is named by the session it belongs to; 0 is the empty  *)
(* list.  Block n is authored by the session of its parent.                *)
(***************************************************************************)
EXTENDS Naturals, FiniteSets, Sequences, FiniteSetsExt

CONSTANTS
    Runtimes,        \* the chain: Runtimes[n] = [spec, session] after block n
    Fillers,         \* goroutines of the block queue
    RegistryFaults,  \* bound: which faults occur
    MaxRegFaults     \* bound: how many of them

\* An upgrade raises the spec version.
ASSUME RegistryAssumption ==
    /\ Runtimes \in Seq([spec : Nat \ {0}, session : Nat])
    /\ \A m, n \in DOMAIN Runtimes : m <= n => Runtimes[m].spec <= Runtimes[n].spec

VARIABLES
    runtimeSpecs,    \* specs this process has registered
    currentSpec,     \* util.CurrentRuntimeSpecVersion, 0 before the first
    versions,        \* spec -> [blockNum, raw]: the runtime_versions rows
    sessions,        \* session -> validator list: the sessions rows
    chainRow,        \* block -> [spec, author, codecError]: the stored blocks
    filler,          \* what each goroutine does
    versionCache,    \* a reader's runtimeVersionCacheValue
    rFaults,         \* faults so far
    broken,          \* history: specs whose registration in this process died, or
                     \*   lost a statement, before the metadata was in the table
    missed           \* history: sessions whose first block did not decode

registryVars == <<runtimeSpecs, currentSpec, versions, sessions, chainRow, filler,
                  versionCache, rFaults, broken, missed>>
tables == <<versions, sessions, chainRow>>

Heights == DOMAIN Runtimes
SpecOf(n) == Runtimes[n].spec
\* the session index in the storage after block n
SessionOf(n) == Runtimes[n].session
AuthorsOf(n) == IF n = 1 THEN SessionOf(1) ELSE SessionOf(n - 1)
IsNewSession(n) == AuthorsOf(n) # SessionOf(n)

Resting == [at |-> "idle", block |-> 0, spec |-> 0, decoded |-> TRUE, list |-> 0, keep |-> FALSE]
RegistryAt(w, where) == filler[w].at = where
Goes(w, where) == filler' = [filler EXCEPT ![w].at = where]
Fails(kind) == /\ kind \in RegistryFaults /\ rFaults < MaxRegFaults
               /\ rFaults' = rFaults + 1

\* A panic: the job is dropped, and with it a registration that was under way.
Panics(w) ==
    /\ filler' = [filler EXCEPT ![w] = Resting]
    /\ broken' = IF RegistryAt(w, "fetch") THEN broken \cup {filler[w].spec} ELSE broken

-----------------------------------------------------------------------------
(* FillBlockData, as far as the registry goes. *)

Fetch(w, n) ==
    /\ RegistryAt(w, "idle")
    /\ \A m \in {n} \cap DOMAIN chainRow : chainRow[m].codecError
    /\ filler' = [filler EXCEPT ![w] = [Resting EXCEPT !.at = "version", !.block = n]]
    /\ UNCHANGED <<runtimeSpecs, currentSpec, tables, versionCache, rFaults, broken, missed>>

\* The newest stored block above n, or the zero row.
GetNearBlock(n) ==
    LET above == {m \in DOMAIN chainRow : m > n}
    IN  IF above = {} THEN 0 ELSE chainRow[Max(above)].spec

GetCurrentRuntimeSpecVersion(n) == IF currentSpec # 0 THEN currentSpec ELSE GetNearBlock(n)

\* The node answers the version of the block, or nothing: then the newest spec
\* this process has seen is taken and none is registered.  The job ends when the
\* connection breaks, or when that query fails as well.
AskVersion(w) ==
    /\ RegistryAt(w, "version")
    /\ LET n == filler[w].block
       IN  \/ /\ filler' = [filler EXCEPT ![w].at = "register", ![w].spec = SpecOf(n)]
              /\ UNCHANGED rFaults
           \/ /\ Fails("version")
              /\ \/ filler' = [filler EXCEPT ![w].at = "decode", ![w].spec = GetCurrentRuntimeSpecVersion(n)]
                 \/ filler' = [filler EXCEPT ![w] = Resting]
    /\ UNCHANGED <<runtimeSpecs, currentSpec, tables, versionCache, broken, missed>>

Registered(w) ==
    /\ RegistryAt(w, "register") /\ filler[w].spec \in runtimeSpecs
    /\ Goes(w, "decode")
    /\ UNCHANGED <<runtimeSpecs, currentSpec, tables, versionCache, rFaults, broken, missed>>

\* Mutant: a row that exists is taken as registered.
AfterFindingOnce(s) == "append"

\* A row without metadata is registered once more.
AfterFinding(s) == IF versions[s].raw THEN "append" ELSE "fetch"

\* CreateRuntimeVersion with a row: the lower block number stays, unless that
\* UPDATE, whose error nobody looks at, fails.  A SELECT that fails is taken for
\* one that finds nothing.
FindRuntimeVersion(w) ==
    /\ RegistryAt(w, "register") /\ filler[w].spec \notin runtimeSpecs
    /\ LET s == filler[w].spec
       IN  \/ /\ s \in DOMAIN versions
              /\ \/ /\ versions' = [versions EXCEPT ![s].blockNum = Min({@, filler[w].block})]
                    /\ UNCHANGED rFaults
                 \/ Fails("sql") /\ UNCHANGED versions
              /\ Goes(w, AfterFinding(s))
              /\ UNCHANGED broken
           \/ /\ s \notin DOMAIN versions
              /\ Goes(w, "create")
              /\ UNCHANGED <<versions, rFaults, broken>>
           \/ /\ s \in DOMAIN versions /\ Fails("sql")
              /\ Goes(w, "create")
              /\ broken' = IF versions[s].raw THEN broken ELSE broken \cup {s}
              /\ UNCHANGED versions
    /\ UNCHANGED <<runtimeSpecs, currentSpec, sessions, chainRow, versionCache, missed>>

\* Without one: an insert that adds no row is taken for another goroutine's that
\* was faster, also when it failed or the SELECT before it did.
CreateRuntimeVersion(w) ==
    /\ RegistryAt(w, "create")
    /\ LET s == filler[w].spec
       IN  \/ /\ s \in DOMAIN versions
              /\ Goes(w, "append")
              /\ UNCHANGED <<versions, rFaults, broken>>
           \/ /\ s \notin DOMAIN versions
              /\ versions' = [t \in DOMAIN versions \cup {s} |->
                    IF t = s THEN [blockNum |-> filler[w].block, raw |-> FALSE] ELSE versions[t]]
              /\ Goes(w, "fetch")
              /\ UNCHANGED <<rFaults, broken>>
           \/ /\ s \notin DOMAIN versions /\ Fails("sql")
              /\ Goes(w, "append")
              /\ broken' = broken \cup {s}
              /\ UNCHANGED versions
    /\ UNCHANGED <<runtimeSpecs, currentSpec, sessions, chainRow, versionCache, missed>>

regCodecMetadata(w) ==
    /\ RegistryAt(w, "fetch")
    /\ \/ Goes(w, "set") /\ UNCHANGED <<rFaults, broken>>
       \/ Fails("metadata") /\ Panics(w)
    /\ UNCHANGED <<runtimeSpecs, currentSpec, tables, versionCache, missed>>

\* Nobody looks at how many rows the UPDATE changed.
setRuntimeData(w) ==
    /\ RegistryAt(w, "set")
    /\ \/ /\ versions' = [versions EXCEPT ![filler[w].spec].raw = TRUE]
          /\ broken' = broken \ {filler[w].spec}
          /\ UNCHANGED rFaults
       \/ /\ Fails("sql")
          /\ broken' = broken \cup {filler[w].spec}
          /\ UNCHANGED versions
    /\ Goes(w, "append")
    /\ UNCHANGED <<runtimeSpecs, currentSpec, sessions, chainRow, versionCache, missed>>

\* Two appends at the same time may leave only one of them.
AppendSpec(w) ==
    /\ RegistryAt(w, "append")
    /\ \/ runtimeSpecs' = runtimeSpecs \cup {filler[w].spec}
       \/ /\ \E v \in Fillers \ {w} : RegistryAt(v, "append")
          /\ UNCHANGED runtimeSpecs
    /\ Goes(w, "decode")
    /\ UNCHANGED <<currentSpec, tables, versionCache, rFaults, broken, missed>>

\* getMetadataInstant dereferences the row of the spec, and panics when there is
\* none or its query fails; the events may not decode.
Decode(w) ==
    /\ RegistryAt(w, "decode")
    /\ LET f == filler[w]
       IN  \/ /\ f.spec \notin DOMAIN versions
              /\ Panics(w) /\ UNCHANGED <<rFaults, missed>>
           \/ /\ Fails("sql")
              /\ Panics(w) /\ UNCHANGED missed
           \/ /\ f.spec \in DOMAIN versions
              /\ \/ Goes(w, "author") /\ UNCHANGED <<rFaults, missed>>
                 \/ /\ Fails("codec")
                    /\ filler' = [filler EXCEPT ![w].at = "author", ![w].decoded = FALSE]
                    /\ missed' = IF IsNewSession(f.block) THEN missed \cup {SessionOf(f.block)}
                                 ELSE missed
              /\ UNCHANGED broken
    /\ currentSpec' = Max({currentSpec, filler[w].spec})
    /\ UNCHANGED <<runtimeSpecs, tables, versionCache>>

\* checks the events for Session.NewSession
NewSessionSeen(w) == filler[w].decoded /\ IsNewSession(filler[w].block)

\* The first block of a session is still authored by the validators before it:
\* its list comes from the parent and is not stored, nor is it when the session
\* index did not arrive (index 0).  A query that fails is one that finds nothing.
BlockAuthor(w) ==
    /\ RegistryAt(w, "author")
    /\ LET s == SessionOf(filler[w].block)
       IN  \/ /\ ~NewSessionSeen(w) /\ s \in DOMAIN sessions /\ sessions[s] # 0
              /\ filler' = [filler EXCEPT ![w].at = "store", ![w].list = sessions[s]]
              /\ UNCHANGED rFaults
           \/ /\ NewSessionSeen(w) \/ s \notin {t \in DOMAIN sessions : sessions[t] # 0}
              /\ filler' = [filler EXCEPT ![w].at = "validators", ![w].keep = ~NewSessionSeen(w)]
              /\ UNCHANGED rFaults
           \/ /\ Fails("sql")
              /\ filler' = [filler EXCEPT ![w].at = "validators", ![w].keep = ~NewSessionSeen(w)]
           \/ /\ Fails("session")
              /\ filler' = [filler EXCEPT ![w].at = "validators", ![w].keep = FALSE]
    /\ UNCHANGED <<runtimeSpecs, currentSpec, tables, versionCache, broken, missed>>

ValidatorsList(w) ==
    /\ RegistryAt(w, "validators")
    /\ LET next == IF filler[w].keep THEN "session" ELSE "store"
       IN  \/ /\ filler' = [filler EXCEPT ![w].at = next, ![w].list = AuthorsOf(filler[w].block)]
              /\ UNCHANGED rFaults
           \/ /\ Fails("validators")
              /\ filler' = [filler EXCEPT ![w].at = next, ![w].list = 0]
    /\ UNCHANGED <<runtimeSpecs, currentSpec, tables, versionCache, broken, missed>>

CreateNewSession(w) ==
    /\ RegistryAt(w, "session")
    /\ LET s == SessionOf(filler[w].block)
       IN  \/ /\ sessions' = [t \in DOMAIN sessions \cup {s} |->
                                IF t = s THEN filler[w].list ELSE sessions[t]]
              /\ UNCHANGED rFaults
           \/ Fails("sql") /\ UNCHANGED sessions
    /\ Goes(w, "store")
    /\ UNCHANGED <<runtimeSpecs, currentSpec, versions, chainRow, versionCache, broken, missed>>

\* A row that is there stays; a statement that fails rolls the block back.
StoreBlock(w) ==
    /\ RegistryAt(w, "store")
    /\ LET n == filler[w].block
       IN  \/ /\ chainRow' = [m \in DOMAIN chainRow \cup {n} |->
                    IF m \in DOMAIN chainRow THEN chainRow[m]
                    ELSE [spec |-> filler[w].spec, author |-> filler[w].list, codecError |-> ~filler[w].decoded]]
              /\ UNCHANGED rFaults
           \/ Fails("sql") /\ UNCHANGED chainRow
    /\ filler' = [filler EXCEPT ![w] = Resting]
    /\ UNCHANGED <<runtimeSpecs, currentSpec, versions, sessions, versionCache, broken, missed>>

RestartWorker ==
    /\ Fails("restart")
    /\ runtimeSpecs' = {} /\ currentSpec' = 0 /\ broken' = {}
    /\ filler' = [w \in Fillers |-> Resting]
    /\ UNCHANGED <<tables, versionCache, missed>>

-----------------------------------------------------------------------------
(* Reading: AfterFind decodes the bytes of a stored row. *)

\* The rows by spec: the last one before the first that starts above n.
GetBlockRuntimeVersion(list, n) ==
    LET starts == {s \in DOMAIN list : list[s].blockNum > n}
        below  == {s \in DOMAIN list : \A t \in starts : s < t}
    IN  IF below = {} THEN chainRow[n].spec ELSE Max(below)

\* The list is read again when it is empty or after ten minutes; a query that
\* fails leaves it empty.
ReadBlock(n) ==
    /\ n \in DOMAIN chainRow
    /\ \/ /\ versionCache' \in IF DOMAIN versionCache = {} THEN {versions} ELSE {versions, versionCache}
          /\ UNCHANGED rFaults
       \/ Fails("sql") /\ versionCache' = [s \in {} |-> 0]
    /\ UNCHANGED <<runtimeSpecs, currentSpec, tables, filler, broken, missed>>

RegistryInit ==
    /\ runtimeSpecs = {} /\ currentSpec = 0 /\ rFaults = 0
    /\ versions = [s \in {} |-> 0] /\ sessions = [s \in {} |-> 0]
    /\ chainRow = [n \in {} |-> 0]
    /\ filler = [w \in Fillers |-> Resting]
    /\ versionCache = [s \in {} |-> 0]
    /\ broken = {} /\ missed = {}

RegistryNext ==
    \/ \E w \in Fillers :
         \/ \E n \in Heights : Fetch(w, n)
         \/ AskVersion(w) \/ Registered(w) \/ FindRuntimeVersion(w) \/ CreateRuntimeVersion(w)
         \/ regCodecMetadata(w) \/ setRuntimeData(w) \/ AppendSpec(w) \/ Decode(w)
         \/ BlockAuthor(w) \/ ValidatorsList(w) \/ CreateNewSession(w) \/ StoreBlock(w)
    \/ RestartWorker
    \/ \E n \in Heights : ReadBlock(n)

-----------------------------------------------------------------------------
(* Properties *)

\* A spec the process holds for registered has its metadata in the table, or a
\* goroutine that is bringing it, or this very process died on it or lost a
\* statement of it (the SELECT, the INSERT or the UPDATE of
\* runtimeVersion.go:11, 13 and 25, whose errors nobody looks at): what a crash
\* or a lost statement left open is made good by the next process.  And a stored
\* block is never decoded with a runtime newer than its own; an older one is
\* taken as long as no block of the newer one, or only a later one, is known.
RegistryCovers ==
    /\ \A s \in runtimeSpecs :
         \/ s \in DOMAIN versions /\ versions[s].raw
         \/ \E w \in Fillers : filler[w].spec = s /\ filler[w].at \in {"fetch", "set"}
         \/ s \in broken
    /\ \A n \in DOMAIN chainRow, list \in {versions, versionCache} :
         GetBlockRuntimeVersion(list, n) <= Max({SpecOf(n), chainRow[n].spec})

\* A validator list is stored under its own session and the author of a block
\* comes from the session that produced it, in whatever order the blocks of a
\* session are filled, unless the first block of the session did not decode.
AuthorsExact ==
    /\ \A s \in DOMAIN sessions \ missed : sessions[s] \in {0, s}
    /\ \A n \in DOMAIN chainRow :
         SessionOf(n) \notin missed => chainRow[n].author \in {0, AuthorsOf(n)}

\* What the registry and the sessions owe to the blocks: the runtime a block is
\* decoded with and the validators its author is taken from, although both are
\* kept on first use by goroutines that fill blocks in any order.
RegistryExact == RegistryCovers /\ AuthorsExact

=============================================================================
