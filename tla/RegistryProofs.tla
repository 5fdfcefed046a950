--------------------------- MODULE RegistryProofs ---------------------------
(***************************************************************************)
(* Proofs about the runtime registry and the sessions (RuntimeRegistry),   *)
(* the CheckCompleteness command (Completeness) and the fees of a block's  *)
(* extrinsics (Extrinsics), for any chain, any number of goroutines, any   *)
(* faults and any answers of the node.                                     *)
(***************************************************************************)
EXTENDS RuntimeRegistry, Completeness, Extrinsics, FiniteSetTheorems, SequenceTheorems, WellFoundedInduction, TLAPS

RegistrySpec == RegistryInit /\ [][RegistryNext]_registryVars

(* What is in the tables and in the hands of a goroutine.                  *)
VersionRow == [blockNum : Heights, raw : BOOLEAN]
StoredRow  == [spec : Nat, author : Nat, codecError : BOOLEAN]
Jobs == [at : {"idle", "version", "register", "create", "fetch", "set", "append", "decode", "author",
               "validators", "session", "store"},
         block : Nat, spec : Nat, decoded : BOOLEAN, list : Nat, keep : BOOLEAN]

RegistryTypes ==
    /\ currentSpec \in Nat
    /\ versions \in [DOMAIN versions -> VersionRow]
    /\ versionCache \in [DOMAIN versionCache -> VersionRow]
    /\ sessions \in [DOMAIN sessions -> Nat]
    /\ chainRow \in [DOMAIN chainRow -> StoredRow] /\ DOMAIN chainRow \in SUBSET Heights
    /\ filler \in [Fillers -> Jobs]
    /\ \A w \in Fillers : filler[w].at # "idle" => filler[w].block \in Heights

(* A row names a block of its spec, the cached one too.                    *)
Dated ==
    /\ \A s \in DOMAIN versions : SpecOf(versions[s].blockNum) = s
    /\ \A s \in DOMAIN versionCache : SpecOf(versionCache[s].blockNum) = s
    /\ \A w \in Fillers : filler[w].at \in {"register", "create", "fetch", "set", "append"} =>
          filler[w].spec = SpecOf(filler[w].block)

(* Somebody has brought the metadata, is bringing it, or died on it or     *)
(* lost a statement of it.                                                 *)
Bringing(w, s) == filler[w].spec = s /\ filler[w].at \in {"fetch", "set"}
Brought(s) ==
    \/ s \in broken
    \/ s \in DOMAIN versions /\ (versions[s].raw \/ \E w \in Fillers : Bringing(w, s))

Covered ==
    /\ \A s \in runtimeSpecs : Brought(s)
    /\ \A w \in Fillers, s \in Nat : filler[w].spec = s =>
          /\ filler[w].at = "append" => Brought(s)
          /\ filler[w].at = "create" /\ s \in DOMAIN versions => Brought(s)
          /\ filler[w].at \in {"fetch", "set"} => s \in DOMAIN versions

(* A job in a session whose first block decoded.                           *)
Own(f) ==
    /\ f.at \in {"author", "validators", "session"} /\ ~f.decoded => ~IsNewSession(f.block)
    /\ f.at \in {"validators", "session"} /\ f.keep => ~IsNewSession(f.block)
    /\ f.at = "session" => f.keep
    /\ f.at \in {"session", "store"} => f.list \in {0, AuthorsOf(f.block)}

(* A list in the hands of a goroutine belongs where it goes, unless the    *)
(* first block of the session did not decode.                              *)
Authored ==
    /\ \A s \in DOMAIN sessions : s \in missed \/ sessions[s] \in {0, s}
    /\ \A n \in DOMAIN chainRow : SessionOf(n) \in missed \/ chainRow[n].author \in {0, AuthorsOf(n)}
    /\ \A w \in Fillers : filler[w].at \in {"author", "validators", "session", "store"} =>
          \/ SessionOf(filler[w].block) \in missed
          \/ Own(filler[w])
    /\ \A w \in Fillers : filler[w].at \notin {"author", "validators", "session", "store"} => filler[w].decoded

RegistryInv == RegistryTypes /\ Dated /\ Covered /\ Authored

-----------------------------------------------------------------------------
LEMMA Greatest ==
    ASSUME NEW S \in SUBSET Nat, S # {}, NEW n \in Nat, \A x \in S : x <= n
    PROVE  Max(S) \in S /\ \A x \in S : x <= Max(S)
<1> DEFINE T == {k \in Nat : \A x \in S : x <= k}
           R == OpToRel(<, Nat)
<1>1. T \subseteq Nat /\ T # {}
  OBVIOUS
<1>2. PICK m \in T : \A k \in T : ~(<<k, m>> \in R)
  <2>1. IsWellFoundedOn(R, Nat)
    BY NatLessThanWellFounded
  <2> HIDE DEF T, R
  <2> QED
    BY <1>1, <2>1, WFMin
<1>3. \A k \in T : ~(k < m)
  BY <1>2 DEF OpToRel
<1>4. m \in S
  <2> SUFFICES ASSUME m \notin S PROVE FALSE
    OBVIOUS
  <2>1. \A x \in S : x <= m /\ x # m
    OBVIOUS
  <2>2. PICK y \in S : TRUE
    OBVIOUS
  <2>3. m \in Nat /\ m - 1 \in Nat
    BY <2>1, <2>2
  <2>4. \A x \in S : x <= m - 1
    BY <2>1, <2>3
  <2>5. m - 1 \in T
    BY <2>3, <2>4
  <2> QED
    BY <1>3, <2>3, <2>5
<1>5. \E x \in S : \A y \in S : x >= y
  BY <1>4
<1>6. Max(S) \in S /\ \A y \in S : Max(S) >= y
  BY <1>5 DEF Max
<1> QED
  BY <1>6

LEMMA OfTwo ==
    ASSUME NEW a \in Nat, NEW b \in Nat
    PROVE  /\ Max({a, b}) = (IF a < b THEN b ELSE a)
           /\ Min({a, b}) = (IF a < b THEN a ELSE b)
<1>1. \E x \in {a, b} : \A y \in {a, b} : x >= y
  OBVIOUS
<1>2. \E x \in {a, b} : \A y \in {a, b} : x <= y
  OBVIOUS
<1>3. Max({a, b}) \in {a, b} /\ \A y \in {a, b} : Max({a, b}) >= y
  BY <1>1 DEF Max
<1>4. Min({a, b}) \in {a, b} /\ \A y \in {a, b} : Min({a, b}) <= y
  BY <1>2 DEF Min
<1> QED
  BY <1>3, <1>4

LEMMA ChainFacts ==
    /\ Len(Runtimes) \in Nat
    /\ \A n \in Heights : /\ n \in Nat /\ 1 <= n /\ n <= Len(Runtimes)
                          /\ SpecOf(n) \in Nat /\ SessionOf(n) \in Nat /\ AuthorsOf(n) \in Nat
    /\ \A m, n \in Heights : m <= n => SpecOf(m) <= SpecOf(n)
<1>1. Len(Runtimes) \in Nat /\ Heights = 1..Len(Runtimes)
  BY RegistryAssumption DEF Heights
<1>2. \A n \in Heights : n \in Nat /\ 1 <= n /\ n <= Len(Runtimes) /\ (n # 1 => n - 1 \in Heights)
  BY <1>1
<1>3. \A n \in Heights : SpecOf(n) \in Nat /\ SessionOf(n) \in Nat
  <2>1. \A n \in Heights : Runtimes[n] \in [spec : Nat \ {0}, session : Nat]
    <3> DEFINE R == [spec : Nat \ {0}, session : Nat]
    <3>1. Runtimes \in Seq(R)
      BY RegistryAssumption
    <3>2. \A i \in 1..Len(Runtimes) : Runtimes[i] \in R
      <4> HIDE DEF R
      <4> QED
        BY <3>1
    <3> QED
      BY <1>1, <3>2
  <2> QED
    BY <2>1 DEF SpecOf, SessionOf
<1>4. \A n \in Heights : AuthorsOf(n) \in Nat
  <2>1. SUFFICES ASSUME NEW n \in Heights PROVE AuthorsOf(n) \in Nat
    OBVIOUS
  <2>2. CASE n = 1
    BY <1>3, <2>2 DEF AuthorsOf
  <2>3. CASE n # 1
    BY <1>2, <1>3, <2>3 DEF AuthorsOf
  <2> QED
    BY <2>2, <2>3
<1>5. \A m, n \in Heights : m <= n => SpecOf(m) <= SpecOf(n)
  BY RegistryAssumption DEF Heights, SpecOf
<1> QED
  BY <1>1, <1>2, <1>3, <1>4, <1>5

LEMMA NearBlock ==
    ASSUME RegistryTypes, NEW n \in Heights
    PROVE  GetNearBlock(n) \in Nat /\ GetCurrentRuntimeSpecVersion(n) \in Nat
<1> DEFINE above == {m \in DOMAIN chainRow : m > n}
<1>1. above \in SUBSET Nat /\ \A m \in above : m <= Len(Runtimes)
  BY ChainFacts DEF RegistryTypes
<1>2. above # {} => Max(above) \in above
  <2> HIDE DEF above
  <2> QED
    BY <1>1, ChainFacts, Greatest
<1>3. above # {} => Max(above) \in DOMAIN chainRow
  BY <1>2
<1>4. GetNearBlock(n) = IF above = {} THEN 0 ELSE chainRow[Max(above)].spec
  BY DEF GetNearBlock
<1> HIDE DEF above
<1>5. GetNearBlock(n) \in Nat
  BY <1>3, <1>4 DEF RegistryTypes, StoredRow
<1> QED
  BY <1>5 DEF GetCurrentRuntimeSpecVersion, RegistryTypes

LEMMA RegistryTypesStep ==
    ASSUME RegistryTypes, [RegistryNext]_registryVars
    PROVE  RegistryTypes'
<1>0. /\ filler \in [Fillers -> Jobs] /\ currentSpec \in Nat /\ Resting \in Jobs /\ Resting.at = "idle"
      /\ versions \in [DOMAIN versions -> VersionRow]
      /\ \A w \in Fillers : filler[w].at # "idle" => filler[w].block \in Heights
  BY DEF RegistryTypes, Resting, Jobs
<1>1. ASSUME NEW w \in Fillers, NEW f \in Jobs, filler' = [filler EXCEPT ![w] = f], f.at # "idle" => f.block \in Heights,
             UNCHANGED <<versions, sessions, chainRow, versionCache, currentSpec>>
      PROVE  RegistryTypes'
  BY <1>0, <1>1 DEF RegistryTypes
<1>2. ASSUME NEW w \in Fillers, NEW n \in Heights, Fetch(w, n) PROVE RegistryTypes'
  <2> DEFINE f == [Resting EXCEPT !.at = "version", !.block = n]
  <2>1. f \in Jobs /\ f.block \in Heights
    BY <1>0, ChainFacts DEF Resting, Jobs
  <2>2. filler' = [filler EXCEPT ![w] = f] /\ UNCHANGED <<versions, sessions, chainRow, versionCache, currentSpec>>
    BY <1>2 DEF Fetch, tables
  <2> HIDE DEF f
  <2> QED
    BY <1>1, <2>1, <2>2
<1>3. ASSUME NEW w \in Fillers, AskVersion(w) PROVE RegistryTypes'
  <2>1. filler[w].block \in Heights /\ UNCHANGED <<versions, sessions, chainRow, versionCache, currentSpec>>
    BY <1>0, <1>3 DEF AskVersion, RegistryAt, tables
  <2>2. GetCurrentRuntimeSpecVersion(filler[w].block) \in Nat /\ SpecOf(filler[w].block) \in Nat
    BY <2>1, NearBlock, ChainFacts
  <2>0. CASE filler' = [filler EXCEPT ![w] = Resting]
    BY <1>0, <1>1, <2>0, <2>1
  <2> SUFFICES ASSUME filler' # [filler EXCEPT ![w] = Resting] PROVE RegistryTypes'
    BY <2>0
  <2>3. \E a \in {"register", "decode"}, s \in Nat : filler' = [filler EXCEPT ![w].at = a, ![w].spec = s]
    BY <1>3, <2>2 DEF AskVersion
  <2>4. PICK a \in {"register", "decode"}, s \in Nat : filler' = [filler EXCEPT ![w].at = a, ![w].spec = s]
    BY <2>3
  <2>5. filler' = [filler EXCEPT ![w] = [filler[w] EXCEPT !.at = a, !.spec = s]]
    BY <1>0, <2>4
  <2>6. [filler[w] EXCEPT !.at = a, !.spec = s] \in Jobs /\ [filler[w] EXCEPT !.at = a, !.spec = s].block \in Heights
    BY <1>0, <2>1 DEF Jobs
  <2> QED
    BY <1>1, <2>1, <2>5, <2>6
<1>4. ASSUME NEW w \in Fillers, \E a \in {"fetch", "create", "append", "decode", "set", "author", "store"} : Goes(w, a),
             filler[w].at # "idle", UNCHANGED <<versions, sessions, chainRow, versionCache>>, currentSpec' \in Nat
      PROVE  RegistryTypes'
  BY <1>0, <1>4 DEF Goes, RegistryTypes, Jobs
<1>5. ASSUME NEW w \in Fillers, Registered(w) \/ AppendSpec(w) PROVE RegistryTypes'
  <2>1. /\ Goes(w, "decode") /\ filler[w].at # "idle" /\ currentSpec' = currentSpec
        /\ UNCHANGED <<versions, sessions, chainRow, versionCache>>
    BY <1>5 DEF Registered, AppendSpec, RegistryAt, tables
  <2>2. currentSpec' \in Nat
    BY <1>0, <2>1
  <2>3. \E a \in {"fetch", "create", "append", "decode", "set", "author", "store"} : Goes(w, a)
    BY <2>1
  <2>4. UNCHANGED <<versions, sessions, chainRow, versionCache>> /\ filler[w].at # "idle"
    BY <2>1
  <2> QED
    BY <1>4, <2>2, <2>3, <2>4
<1>6. ASSUME NEW w \in Fillers, NEW v \in [DOMAIN versions' -> VersionRow], versions' = v, filler[w].at # "idle",
             \E a \in {"fetch", "create", "append"} : Goes(w, a),
             UNCHANGED <<sessions, chainRow, versionCache, currentSpec>>
      PROVE  RegistryTypes'
  BY <1>0, <1>6 DEF Goes, RegistryTypes, Jobs
<1>7. ASSUME NEW w \in Fillers, FindRuntimeVersion(w) PROVE RegistryTypes'
  <2> DEFINE s == filler[w].spec
             b == filler[w].block
             m == Min({versions[s].blockNum, b})
  <2>1. b \in Heights /\ filler[w].at # "idle" /\ UNCHANGED <<sessions, chainRow, versionCache, currentSpec>>
    BY <1>0, <1>7 DEF FindRuntimeVersion, RegistryAt
  <2>2. /\ versions' = versions \/ (s \in DOMAIN versions /\ versions' = [versions EXCEPT ![s].blockNum = m])
        /\ \E a \in {"fetch", "create", "append"} : Goes(w, a)
    <3>1. AfterFinding(s) \in {"fetch", "append"}
      BY DEF AfterFinding
    <3>2. versions' = versions \/ (s \in DOMAIN versions /\ versions' = [versions EXCEPT ![s].blockNum = m])
      BY <1>7 DEF FindRuntimeVersion
    <3>3. Goes(w, AfterFinding(s)) \/ Goes(w, "create")
      BY <1>7 DEF FindRuntimeVersion
    <3> QED
      BY <3>1, <3>2, <3>3
  <2>3. CASE versions' = versions
    BY <1>0, <1>4, <2>1, <2>2, <2>3
  <2>4. CASE s \in DOMAIN versions /\ versions' = [versions EXCEPT ![s].blockNum = m]
    <3>1. versions[s].blockNum \in Heights
      BY <1>0, <2>4 DEF VersionRow
    <3>2. m \in Heights
      BY <2>1, <3>1, ChainFacts, OfTwo
    <3> HIDE DEF m, s
    <3>3. versions' \in [DOMAIN versions' -> VersionRow]
      BY <1>0, <2>4, <3>2 DEF VersionRow
    <3> QED
      BY <1>6, <2>1, <2>2, <3>3
  <2> QED
    BY <2>2, <2>3, <2>4
<1>8. ASSUME NEW w \in Fillers, CreateRuntimeVersion(w) PROVE RegistryTypes'
  <2> DEFINE s == filler[w].spec
             v == [t \in DOMAIN versions \cup {s} |->
                     IF t = s THEN [blockNum |-> filler[w].block, raw |-> FALSE] ELSE versions[t]]
  <2>1. filler[w].block \in Heights /\ filler[w].at # "idle" /\ UNCHANGED <<sessions, chainRow, versionCache, currentSpec>>
    BY <1>0, <1>8 DEF CreateRuntimeVersion, RegistryAt
  <2>2. (versions' = versions \/ versions' = v) /\ \E a \in {"fetch", "create", "append"} : Goes(w, a)
    BY <1>8 DEF CreateRuntimeVersion
  <2>3. CASE versions' = versions
    BY <1>0, <1>4, <2>1, <2>2, <2>3
  <2>4. CASE versions' = v
    <3> HIDE DEF s
    <3>1. versions' \in [DOMAIN versions' -> VersionRow]
      BY <1>0, <2>1, <2>4 DEF VersionRow
    <3> QED
      BY <1>6, <2>1, <2>2, <3>1
  <2> QED
    BY <2>2, <2>3, <2>4
<1>9. ASSUME NEW w \in Fillers, regCodecMetadata(w) PROVE RegistryTypes'
  <2>1. filler[w].at # "idle" /\ UNCHANGED <<versions, sessions, chainRow, versionCache, currentSpec>>
    BY <1>9 DEF regCodecMetadata, RegistryAt, tables
  <2>2. Goes(w, "set") \/ filler' = [filler EXCEPT ![w] = Resting]
    BY <1>9 DEF regCodecMetadata, Panics
  <2> QED
    BY <1>0, <1>1, <1>4, <2>1, <2>2
<1>10. ASSUME NEW w \in Fillers, setRuntimeData(w) PROVE RegistryTypes'
  <2> DEFINE s == filler[w].spec
  <2>1. /\ versions' = versions \/ versions' = [versions EXCEPT ![s].raw = TRUE]
        /\ Goes(w, "append") /\ filler[w].at # "idle" /\ UNCHANGED <<sessions, chainRow, versionCache, currentSpec>>
    BY <1>10 DEF setRuntimeData, RegistryAt
  <2> HIDE DEF s
  <2>2. versions' \in [DOMAIN versions' -> VersionRow]
    <3>1. CASE versions' = versions
      BY <1>0, <3>1
    <3>2. CASE versions' = [versions EXCEPT ![s].raw = TRUE]
      BY <1>0, <3>2 DEF VersionRow
    <3> QED
      BY <2>1, <3>1, <3>2
  <2> QED
    BY <1>6, <2>1, <2>2
<1>11. ASSUME NEW w \in Fillers, Decode(w) PROVE RegistryTypes'
  <2>1. filler[w].at # "idle" /\ UNCHANGED <<versions, sessions, chainRow, versionCache>> /\ filler[w].spec \in Nat
    BY <1>0, <1>11 DEF Decode, RegistryAt, tables, Jobs
  <2>2. currentSpec' \in Nat
    BY <1>0, <1>11, <2>1, OfTwo DEF Decode
  <2>3. \/ filler' = [filler EXCEPT ![w] = Resting]
        \/ Goes(w, "author")
        \/ filler' = [filler EXCEPT ![w].at = "author", ![w].decoded = FALSE]
    BY <1>11 DEF Decode, Panics
  <2> QED
    BY <1>0, <2>1, <2>2, <2>3 DEF Goes, RegistryTypes, Jobs
<1>12. ASSUME NEW w \in Fillers, BlockAuthor(w) PROVE RegistryTypes'
  <2>1. filler[w].at # "idle" /\ UNCHANGED <<versions, sessions, chainRow, versionCache, currentSpec>>
    BY <1>12 DEF BlockAuthor, RegistryAt, tables
  <2>2. \/ \E l \in Nat : filler' = [filler EXCEPT ![w].at = "store", ![w].list = l]
        \/ \E k \in BOOLEAN : filler' = [filler EXCEPT ![w].at = "validators", ![w].keep = k]
    <3>1. (~NewSessionSeen(w)) \in BOOLEAN
      BY DEF NewSessionSeen
    <3> QED
      BY <1>12, <3>1 DEF BlockAuthor, RegistryTypes
  <2> QED
    BY <1>0, <2>1, <2>2 DEF RegistryTypes, Jobs
<1>13. ASSUME NEW w \in Fillers, ValidatorsList(w) PROVE RegistryTypes'
  <2>1. filler[w].at # "idle" /\ filler[w].block \in Heights /\ UNCHANGED <<versions, sessions, chainRow, versionCache, currentSpec>>
    BY <1>0, <1>13 DEF ValidatorsList, RegistryAt, tables
  <2>2. AuthorsOf(filler[w].block) \in Nat
    BY <2>1, ChainFacts
  <2>3. \E a \in {"session", "store"}, l \in Nat : filler' = [filler EXCEPT ![w].at = a, ![w].list = l]
    BY <1>13, <2>2 DEF ValidatorsList
  <2>4. PICK a \in {"session", "store"}, l \in Nat : filler' = [filler EXCEPT ![w].at = a, ![w].list = l]
    BY <2>3
  <2>5. filler' = [filler EXCEPT ![w] = [filler[w] EXCEPT !.at = a, !.list = l]]
    BY <1>0, <2>4
  <2>6. [filler[w] EXCEPT !.at = a, !.list = l] \in Jobs /\ [filler[w] EXCEPT !.at = a, !.list = l].block \in Heights
    BY <1>0, <2>1 DEF Jobs
  <2> QED
    BY <1>1, <2>1, <2>5, <2>6
<1>14. ASSUME NEW w \in Fillers, CreateNewSession(w) PROVE RegistryTypes'
  <2>1. /\ \/ sessions' = sessions
           \/ sessions' = [t \in DOMAIN sessions \cup {SessionOf(filler[w].block)} |->
                          IF t = SessionOf(filler[w].block) THEN filler[w].list ELSE sessions[t]]
        /\ Goes(w, "store") /\ filler[w].at # "idle" /\ UNCHANGED <<versions, chainRow, versionCache, currentSpec>>
    BY <1>14 DEF CreateNewSession, RegistryAt
  <2>2. filler[w].list \in Nat
    BY <1>0 DEF Jobs
  <2>3. sessions' \in [DOMAIN sessions' -> Nat]
    BY <2>1, <2>2 DEF RegistryTypes
  <2> QED
    BY <1>0, <2>1, <2>3 DEF Goes, RegistryTypes, Jobs
<1>15. ASSUME NEW w \in Fillers, StoreBlock(w) PROVE RegistryTypes'
  <2> DEFINE n == filler[w].block
             row == [spec |-> filler[w].spec, author |-> filler[w].list, codecError |-> ~filler[w].decoded]
  <2>1. /\ \/ chainRow' = chainRow
           \/ chainRow' = [m \in DOMAIN chainRow \cup {n} |-> IF m \in DOMAIN chainRow THEN chainRow[m] ELSE row]
        /\ filler' = [filler EXCEPT ![w] = Resting] /\ UNCHANGED <<versions, sessions, versionCache, currentSpec>>
    BY <1>15 DEF StoreBlock
  <2>2. n \in Heights /\ row \in StoredRow
    BY <1>0, <1>15 DEF StoreBlock, RegistryAt, Jobs, StoredRow
  <2> HIDE DEF n, row
  <2>3. chainRow' \in [DOMAIN chainRow' -> StoredRow] /\ DOMAIN chainRow' \in SUBSET Heights
    BY <2>1, <2>2 DEF RegistryTypes
  <2> QED
    BY <1>0, <2>1, <2>3 DEF RegistryTypes
<1>16. CASE RestartWorker
  BY <1>0, <1>16 DEF RestartWorker, tables, RegistryTypes
<1>17. ASSUME NEW n \in Heights, ReadBlock(n) PROVE RegistryTypes'
  <2>1. versionCache' \in {versions, versionCache, [s \in {} |-> 0]}
        /\ UNCHANGED <<currentSpec, versions, sessions, chainRow, filler>>
    BY <1>17 DEF ReadBlock, tables
  <2> QED
    BY <2>1 DEF RegistryTypes
<1>18. CASE UNCHANGED registryVars
  BY <1>18 DEF registryVars, RegistryTypes
<1> QED
  BY <1>2, <1>3, <1>5, <1>7, <1>8, <1>9, <1>10, <1>11, <1>12, <1>13, <1>14, <1>15, <1>16, <1>17, <1>18 DEF RegistryNext

LEMMA DatedStep ==
    ASSUME RegistryTypes, Dated, [RegistryNext]_registryVars
    PROVE  Dated'
<1>0. /\ filler \in [Fillers -> Jobs] /\ Resting \in Jobs /\ Resting.at = "idle"
      /\ versions \in [DOMAIN versions -> VersionRow]
      /\ \A w \in Fillers : filler[w].at # "idle" => filler[w].block \in Heights
  BY DEF RegistryTypes, Resting, Jobs
<1>1. ASSUME NEW w \in Fillers, UNCHANGED <<versions, versionCache>>,
             \A v \in Fillers \ {w} : filler'[v] = filler[v],
             \/ filler'[w].at \notin {"register", "create", "fetch", "set", "append"}
             \/ /\ filler[w].at \in {"register", "create", "fetch", "set", "append"}
                /\ filler'[w].block = filler[w].block /\ filler'[w].spec = filler[w].spec
      PROVE  Dated'
  BY <1>1 DEF Dated
<1>2. ASSUME NEW w \in Fillers, NEW n \in Heights, Fetch(w, n) PROVE Dated'
  <2>1. filler'[w].at = "version" /\ \A v \in Fillers \ {w} : filler'[v] = filler[v]
    BY <1>0, <1>2 DEF Fetch, Resting
  <2>2. UNCHANGED <<versions, versionCache>>
    BY <1>2 DEF Fetch, tables
  <2> QED
    BY <1>1, <2>1, <2>2
<1>3. ASSUME NEW w \in Fillers, AskVersion(w) PROVE Dated'
  <2>1. UNCHANGED <<versions, versionCache>> /\ \A v \in Fillers \ {w} : filler'[v] = filler[v]
    BY <1>0, <1>3 DEF AskVersion, tables
  <2>2. \/ filler'[w].at \in {"decode", "idle"}
        \/ filler'[w].block = filler[w].block /\ filler'[w].spec = SpecOf(filler[w].block)
    BY <1>0, <1>3 DEF AskVersion, Jobs
  <2> QED
    BY <2>1, <2>2 DEF Dated
<1>4. ASSUME NEW w \in Fillers, filler[w].at \in {"register", "create", "fetch", "set", "append"},
             NEW a \in {"fetch", "create", "append", "decode", "set"}, Goes(w, a)
      PROVE  /\ \A v \in Fillers \ {w} : filler'[v] = filler[v]
             /\ filler'[w].at = a /\ filler'[w].block = filler[w].block /\ filler'[w].spec = filler[w].spec
  BY <1>0, <1>4 DEF Goes, Jobs
<1>5. ASSUME NEW w \in Fillers, Registered(w) \/ AppendSpec(w) PROVE Dated'
  <2>1. UNCHANGED <<versions, versionCache>> /\ Goes(w, "decode") /\ filler[w].at \in {"register", "append"}
    BY <1>5 DEF Registered, AppendSpec, RegistryAt, tables
  <2> QED
    BY <1>1, <1>4, <2>1
<1>6. ASSUME NEW w \in Fillers, FindRuntimeVersion(w) PROVE Dated'
  <2> DEFINE s == filler[w].spec
             b == filler[w].block
             m == Min({versions[s].blockNum, b})
  <2>1. b \in Heights /\ filler[w].at = "register" /\ versionCache' = versionCache /\ SpecOf(b) = s
    BY <1>0, <1>6 DEF FindRuntimeVersion, RegistryAt, Dated
  <2>2. /\ versions' = versions \/ (s \in DOMAIN versions /\ versions' = [versions EXCEPT ![s].blockNum = m])
        /\ \E a \in {"fetch", "create", "append"} : Goes(w, a)
    <3>1. AfterFinding(s) \in {"fetch", "append"}
      BY DEF AfterFinding
    <3>2. versions' = versions \/ (s \in DOMAIN versions /\ versions' = [versions EXCEPT ![s].blockNum = m])
      BY <1>6 DEF FindRuntimeVersion
    <3>3. Goes(w, AfterFinding(s)) \/ Goes(w, "create")
      BY <1>6 DEF FindRuntimeVersion
    <3> QED
      BY <3>1, <3>2, <3>3
  <2>3. /\ \A v \in Fillers \ {w} : filler'[v] = filler[v]
        /\ filler'[w].block = filler[w].block /\ filler'[w].spec = filler[w].spec
    BY <1>4, <2>1, <2>2
  <2>4. CASE versions' = versions
    BY <1>1, <2>1, <2>3, <2>4
  <2>5. CASE s \in DOMAIN versions /\ versions' = [versions EXCEPT ![s].blockNum = m]
    <3>1. versions[s].blockNum \in Heights /\ SpecOf(versions[s].blockNum) = s
      BY <1>0, <2>5 DEF VersionRow, Dated
    <3>2. SpecOf(m) = s
      BY <2>1, <3>1, ChainFacts, OfTwo
    <3> HIDE DEF m
    <3>3. DOMAIN versions' = DOMAIN versions /\ \A t \in DOMAIN versions : SpecOf(versions'[t].blockNum) = t
      BY <1>0, <2>5, <3>2 DEF VersionRow, Dated
    <3> QED
      BY <2>1, <2>3, <3>3 DEF Dated
  <2> QED
    BY <2>2, <2>4, <2>5
<1>7. ASSUME NEW w \in Fillers, CreateRuntimeVersion(w) PROVE Dated'
  <2> DEFINE s == filler[w].spec
             v == [t \in DOMAIN versions \cup {s} |->
                     IF t = s THEN [blockNum |-> filler[w].block, raw |-> FALSE] ELSE versions[t]]
  <2>1. filler[w].at = "create" /\ versionCache' = versionCache /\ SpecOf(filler[w].block) = s
    BY <1>7 DEF CreateRuntimeVersion, RegistryAt, Dated
  <2>2. (versions' = versions \/ versions' = v) /\ \E a \in {"fetch", "create", "append"} : Goes(w, a)
    BY <1>7 DEF CreateRuntimeVersion
  <2>3. /\ \A u \in Fillers \ {w} : filler'[u] = filler[u]
        /\ filler'[w].block = filler[w].block /\ filler'[w].spec = filler[w].spec
    BY <1>4, <2>1, <2>2
  <2>4. CASE versions' = versions
    BY <1>1, <2>1, <2>3, <2>4
  <2>5. CASE versions' = v
    <3>1. \A t \in DOMAIN versions' : SpecOf(versions'[t].blockNum) = t
      BY <2>1, <2>5 DEF Dated
    <3> QED
      BY <2>1, <2>3, <3>1 DEF Dated
  <2> QED
    BY <2>2, <2>4, <2>5
<1>8. ASSUME NEW w \in Fillers, regCodecMetadata(w) PROVE Dated'
  <2>1. UNCHANGED <<versions, versionCache>> /\ filler[w].at = "fetch"
    BY <1>8 DEF regCodecMetadata, RegistryAt, tables
  <2>2. CASE Goes(w, "set")
    BY <1>1, <1>4, <2>1, <2>2
  <2>3. CASE filler' = [filler EXCEPT ![w] = Resting]
    BY <1>0, <1>1, <2>1, <2>3
  <2> QED
    BY <1>8, <2>2, <2>3 DEF regCodecMetadata, Panics
<1>9. ASSUME NEW w \in Fillers, setRuntimeData(w) PROVE Dated'
  <2>1. /\ versions' = versions \/ versions' = [versions EXCEPT ![filler[w].spec].raw = TRUE]
        /\ Goes(w, "append") /\ filler[w].at = "set" /\ versionCache' = versionCache
    BY <1>9 DEF setRuntimeData, RegistryAt
  <2>2. DOMAIN versions' = DOMAIN versions /\ \A t \in DOMAIN versions : versions'[t].blockNum = versions[t].blockNum
    BY <1>0, <2>1 DEF VersionRow
  <2>3. /\ \A v \in Fillers \ {w} : filler'[v] = filler[v]
        /\ filler'[w].block = filler[w].block /\ filler'[w].spec = filler[w].spec
    BY <1>4, <2>1
  <2> QED
    BY <2>1, <2>2, <2>3 DEF Dated
<1>10. ASSUME NEW w \in Fillers, Decode(w) \/ BlockAuthor(w) \/ ValidatorsList(w) \/ CreateNewSession(w) \/ StoreBlock(w)
       PROVE  Dated'
  <2>1. UNCHANGED <<versions, versionCache>>
    BY <1>10 DEF Decode, BlockAuthor, ValidatorsList, CreateNewSession, StoreBlock, tables
  <2>2. \A v \in Fillers \ {w} : filler'[v] = filler[v]
    BY <1>0, <1>10 DEF Decode, BlockAuthor, ValidatorsList, CreateNewSession, StoreBlock, Goes, Panics
  <2>3. filler'[w].at \notin {"register", "create", "fetch", "set", "append"}
    BY <1>0, <1>10 DEF Decode, BlockAuthor, ValidatorsList, CreateNewSession, StoreBlock, Goes, Panics, Jobs
  <2> QED
    BY <1>1, <2>1, <2>2, <2>3
<1>11. CASE RestartWorker
  BY <1>0, <1>11 DEF RestartWorker, tables, Dated
<1>12. ASSUME NEW n \in Heights, ReadBlock(n) PROVE Dated'
  <2>1. versionCache' \in {versions, versionCache, [s \in {} |-> 0]} /\ UNCHANGED <<versions, filler>>
    BY <1>12 DEF ReadBlock, tables
  <2> QED
    BY <2>1 DEF Dated
<1>13. CASE UNCHANGED registryVars
  BY <1>13 DEF registryVars, Dated
<1> QED
  BY <1>2, <1>3, <1>5, <1>6, <1>7, <1>8, <1>9, <1>10, <1>11, <1>12, <1>13 DEF RegistryNext

(* Metadata on its way arrives, or its goroutine dies on it.               *)
LEMMA BroughtStays ==
    ASSUME RegistryTypes, Covered, [RegistryNext]_registryVars, ~RestartWorker, NEW s, Brought(s)
    PROVE  Brought(s)'
<1>0. /\ filler \in [Fillers -> Jobs] /\ Resting.at = "idle"
      /\ versions \in [DOMAIN versions -> VersionRow]
  BY DEF RegistryTypes, Resting
<1>1. ASSUME NEW w \in Fillers, UNCHANGED <<versions, broken>>, \A v \in Fillers \ {w} : filler'[v] = filler[v],
             \/ filler[w].at \notin {"fetch", "set"}
             \/ filler'[w].at \in {"fetch", "set"} /\ filler'[w].spec = filler[w].spec
      PROVE  Brought(s)'
  BY <1>1 DEF Brought, Bringing
<1>2. ASSUME NEW w \in Fillers,
             (\E n \in Heights : Fetch(w, n)) \/ AskVersion(w) \/ Registered(w) \/ AppendSpec(w) \/ Decode(w)
               \/ BlockAuthor(w) \/ ValidatorsList(w) \/ CreateNewSession(w) \/ StoreBlock(w)
      PROVE  Brought(s)'
  <2>1. /\ UNCHANGED <<versions, broken>> /\ filler[w].at \notin {"fetch", "set"}
    BY <1>2 DEF Fetch, AskVersion, Registered, AppendSpec, Decode, BlockAuthor, ValidatorsList, CreateNewSession,
                StoreBlock, Panics, RegistryAt, tables
  <2>2. \A v \in Fillers \ {w} : filler'[v] = filler[v]
    BY <1>0, <1>2 DEF Fetch, AskVersion, Registered, AppendSpec, Decode, BlockAuthor, ValidatorsList, CreateNewSession,
                StoreBlock, Panics, Goes
  <2> QED
    BY <1>1, <2>1, <2>2
<1>3. ASSUME NEW w \in Fillers, FindRuntimeVersion(w) PROVE Brought(s)'
  <2>1. \A t \in DOMAIN versions : t \in DOMAIN versions' /\ versions'[t].raw = versions[t].raw
    BY <1>0, <1>3 DEF FindRuntimeVersion, VersionRow
  <2>2. filler[w].at = "register" /\ broken \subseteq broken' /\ \A v \in Fillers \ {w} : filler'[v] = filler[v]
    BY <1>0, <1>3 DEF FindRuntimeVersion, RegistryAt, Goes
  <2> QED
    BY <2>1, <2>2 DEF Brought, Bringing
<1>4. ASSUME NEW w \in Fillers, CreateRuntimeVersion(w) PROVE Brought(s)'
  <2>1. \A t \in DOMAIN versions : t \in DOMAIN versions' /\ versions'[t].raw = versions[t].raw
    BY <1>0, <1>4 DEF CreateRuntimeVersion, VersionRow
  <2>2. filler[w].at = "create" /\ broken \subseteq broken' /\ \A v \in Fillers \ {w} : filler'[v] = filler[v]
    BY <1>0, <1>4 DEF CreateRuntimeVersion, RegistryAt, Goes
  <2> QED
    BY <2>1, <2>2 DEF Brought, Bringing
<1>5. ASSUME NEW w \in Fillers, regCodecMetadata(w) PROVE Brought(s)'
  <2>1. versions' = versions /\ filler[w].at = "fetch" /\ \A v \in Fillers \ {w} : filler'[v] = filler[v]
    BY <1>0, <1>5 DEF regCodecMetadata, RegistryAt, Goes, Panics, tables
  <2>2. CASE Goes(w, "set") /\ UNCHANGED broken
    BY <1>0, <1>1, <2>1, <2>2 DEF Goes, Jobs
  <2>3. CASE broken' = broken \cup {filler[w].spec}
    BY <2>1, <2>3 DEF Brought, Bringing
  <2> QED
    BY <1>5, <2>1, <2>2, <2>3 DEF regCodecMetadata, Panics, RegistryAt
<1>6. ASSUME NEW w \in Fillers, setRuntimeData(w) PROVE Brought(s)'
  <2> DEFINE k == filler[w].spec
  <2>1. filler[w].at = "set" /\ k \in Nat /\ \A v \in Fillers \ {w} : filler'[v] = filler[v]
    BY <1>0, <1>6 DEF setRuntimeData, RegistryAt, Goes, Jobs
  <2>2. k \in DOMAIN versions
    BY <2>1 DEF Covered
  <2>3. CASE versions' = [versions EXCEPT ![k].raw = TRUE] /\ broken' = broken \ {k}
    <3>1. /\ DOMAIN versions' = DOMAIN versions
          /\ \A t \in DOMAIN versions : versions'[t].raw = IF t = k THEN TRUE ELSE versions[t].raw
      BY <1>0, <2>3 DEF VersionRow
    <3> QED
      BY <2>1, <2>2, <2>3, <3>1 DEF Brought, Bringing
  <2>4. CASE versions' = versions /\ broken' = broken \cup {k}
    BY <2>1, <2>4 DEF Brought, Bringing
  <2> QED
    BY <1>6, <2>3, <2>4 DEF setRuntimeData
<1>7. ASSUME NEW n \in Heights, ReadBlock(n) PROVE Brought(s)'
  BY <1>7 DEF ReadBlock, tables, Brought, Bringing
<1>8. CASE UNCHANGED registryVars
  BY <1>8 DEF registryVars, Brought, Bringing
<1> QED
  BY <1>2, <1>3, <1>4, <1>5, <1>6, <1>7, <1>8 DEF RegistryNext

LEMMA CoveredStep ==
    ASSUME RegistryTypes, Covered, [RegistryNext]_registryVars
    PROVE  Covered'
<1>0. /\ filler \in [Fillers -> Jobs] /\ Resting.at = "idle"
      /\ versions \in [DOMAIN versions -> VersionRow]
  BY DEF RegistryTypes, Resting
<1>1. CASE RestartWorker
  BY <1>0, <1>1 DEF RestartWorker, tables, Covered
<1> SUFFICES ASSUME ~RestartWorker PROVE Covered'
  BY <1>1
<1>2. \A s : Brought(s) => Brought(s)'
  BY BroughtStays
<1>3. ASSUME NEW w \in Fillers, \A v \in Fillers \ {w} : filler'[v] = filler[v],
             \A s \in runtimeSpecs' : s \in runtimeSpecs \/ Brought(s),
             DOMAIN versions \subseteq DOMAIN versions',
             \A s \in DOMAIN versions' : s \in DOMAIN versions \/ Brought(s)',
             \A s \in Nat : filler'[w].spec = s =>
                /\ filler'[w].at = "append" => Brought(s)'
                /\ filler'[w].at = "create" => s \notin DOMAIN versions' \/ Brought(s)'
                /\ filler'[w].at \in {"fetch", "set"} => s \in DOMAIN versions'
      PROVE  Covered'
  <2>1. \A s \in runtimeSpecs' : Brought(s)'
    BY <1>2, <1>3 DEF Covered
  <2>2. ASSUME NEW v \in Fillers, NEW s \in Nat, filler'[v].spec = s
        PROVE  /\ filler'[v].at = "append" => Brought(s)'
               /\ filler'[v].at = "create" /\ s \in DOMAIN versions' => Brought(s)'
               /\ filler'[v].at \in {"fetch", "set"} => s \in DOMAIN versions'
    <3>1. CASE v = w
      BY <1>3, <2>2, <3>1
    <3>2. CASE v # w
      <4>1. filler'[v] = filler[v]
        BY <1>3, <3>2
      <4>2. /\ filler[v].at = "append" => Brought(s)
            /\ filler[v].at = "create" /\ s \in DOMAIN versions => Brought(s)
            /\ filler[v].at \in {"fetch", "set"} => s \in DOMAIN versions
        BY <2>2, <4>1 DEF Covered
      <4> QED
        BY <1>2, <1>3, <4>1, <4>2
    <3> QED
      BY <3>1, <3>2
  <2> QED
    BY <2>1, <2>2 DEF Covered
<1>4. ASSUME NEW w \in Fillers, UNCHANGED <<runtimeSpecs, versions>>, \A v \in Fillers \ {w} : filler'[v] = filler[v],
             filler'[w].at \notin {"append", "create", "fetch", "set"}
      PROVE  Covered'
  BY <1>3, <1>4
<1>5. ASSUME NEW w \in Fillers,
             (\E n \in Heights : Fetch(w, n)) \/ AskVersion(w) \/ Registered(w) \/ Decode(w)
               \/ BlockAuthor(w) \/ ValidatorsList(w) \/ CreateNewSession(w) \/ StoreBlock(w)
      PROVE  Covered'
  <2>1. UNCHANGED <<runtimeSpecs, versions>>
    BY <1>5 DEF Fetch, AskVersion, Registered, Decode, BlockAuthor, ValidatorsList, CreateNewSession, StoreBlock, tables
  <2>2. \A v \in Fillers \ {w} : filler'[v] = filler[v]
    BY <1>0, <1>5 DEF Fetch, AskVersion, Registered, Decode, BlockAuthor, ValidatorsList, CreateNewSession,
                StoreBlock, Panics, Goes
  <2>3. filler'[w].at \notin {"append", "create", "fetch", "set"}
    <3>1. CASE \E n \in Heights : Fetch(w, n)
      BY <1>0, <3>1 DEF Fetch, Resting
    <3>2. CASE AskVersion(w)
      BY <1>0, <3>2 DEF AskVersion, Jobs
    <3>3. CASE Registered(w) \/ StoreBlock(w)
      BY <1>0, <3>3 DEF Registered, StoreBlock, Goes, Jobs
    <3>4. CASE Decode(w) \/ BlockAuthor(w) \/ ValidatorsList(w) \/ CreateNewSession(w)
      BY <1>0, <3>4 DEF Decode, BlockAuthor, ValidatorsList, CreateNewSession, Panics, Goes, Jobs
    <3> QED
      BY <1>5, <3>1, <3>2, <3>3, <3>4
  <2> QED
    BY <1>4, <2>1, <2>2, <2>3
<1>6. ASSUME NEW w \in Fillers, NEW a \in {"fetch", "create", "append", "decode", "set"}, Goes(w, a)
      PROVE  /\ \A v \in Fillers \ {w} : filler'[v] = filler[v]
             /\ filler'[w].at = a /\ filler'[w].spec = filler[w].spec /\ filler[w].spec \in Nat
  BY <1>0, <1>6 DEF Goes, Jobs
<1>7. ASSUME NEW w \in Fillers, AppendSpec(w) PROVE Covered'
  <2>1. Goes(w, "decode") /\ versions' = versions /\ runtimeSpecs' \subseteq runtimeSpecs \cup {filler[w].spec}
    BY <1>7 DEF AppendSpec, tables
  <2>2. Brought(filler[w].spec)
    BY <1>6, <1>7, <2>1 DEF AppendSpec, RegistryAt, Covered
  <2>3. /\ \A v \in Fillers \ {w} : filler'[v] = filler[v]
        /\ filler'[w].at = "decode"
    BY <1>6, <2>1
  <2> QED
    BY <1>3, <2>1, <2>2, <2>3
<1>8. ASSUME NEW w \in Fillers, FindRuntimeVersion(w) PROVE Covered'
  <2> DEFINE s == filler[w].spec
  <2>1. runtimeSpecs' = runtimeSpecs /\ s \in Nat
    BY <1>0, <1>8 DEF FindRuntimeVersion, Jobs
  <2>2. CASE s \notin DOMAIN versions
    <3>1. versions' = versions /\ Goes(w, "create")
      BY <1>8, <2>2 DEF FindRuntimeVersion
    <3>2. /\ \A v \in Fillers \ {w} : filler'[v] = filler[v]
          /\ filler'[w].at = "create" /\ filler'[w].spec = s
      BY <1>6, <3>1
    <3> QED
      BY <1>3, <2>1, <2>2, <3>1, <3>2
  <2>3. CASE s \in DOMAIN versions
    <3> DEFINE a == AfterFinding(s)
    <3>1. /\ Goes(w, a) \/ (Goes(w, "create") /\ (versions[s].raw \/ s \in broken'))
          /\ DOMAIN versions' = DOMAIN versions /\ versions'[s].raw = versions[s].raw
      BY <1>0, <1>8, <2>3 DEF FindRuntimeVersion, VersionRow
    <3>2. a = IF versions[s].raw THEN "append" ELSE "fetch"
      BY DEF AfterFinding
    <3>3. versions[s].raw \/ s \in broken' => \A t : t = s => Brought(t)'
      BY <2>3, <3>1 DEF Brought
    <3> HIDE DEF a
    <3>4. CASE Goes(w, a)
      <4>1. /\ \A v \in Fillers \ {w} : filler'[v] = filler[v]
            /\ filler'[w].at = a /\ filler'[w].spec = s
        BY <1>6, <3>2, <3>4
      <4> HIDE DEF s
      <4> QED
        BY <1>3, <2>1, <2>3, <3>1, <3>2, <3>3, <4>1
    <3>5. CASE Goes(w, "create") /\ (versions[s].raw \/ s \in broken')
      <4>1. /\ \A v \in Fillers \ {w} : filler'[v] = filler[v]
            /\ filler'[w].at = "create" /\ filler'[w].spec = s
        BY <1>6, <3>5
      <4>2. \A t : t = s => Brought(t)'
        BY <3>3, <3>5
      <4> HIDE DEF s
      <4> QED
        BY <1>3, <2>1, <3>1, <4>1, <4>2
    <3> QED
      BY <3>1, <3>4, <3>5
  <2> QED
    BY <2>2, <2>3
<1>9. ASSUME NEW w \in Fillers, CreateRuntimeVersion(w) PROVE Covered'
  <2> DEFINE s == filler[w].spec
  <2>1. runtimeSpecs' = runtimeSpecs /\ s \in Nat /\ filler[w].at = "create"
    BY <1>0, <1>9 DEF CreateRuntimeVersion, RegistryAt, Jobs
  <2>2. CASE versions' = versions /\ Goes(w, "append")
    <3>1. s \in DOMAIN versions \/ s \in broken'
      BY <1>9, <2>2 DEF CreateRuntimeVersion
    <3>2. Brought(s) \/ s \in broken'
      BY <2>1, <3>1 DEF Covered
    <3>3. /\ \A v \in Fillers \ {w} : filler'[v] = filler[v]
          /\ filler'[w].at = "append" /\ filler'[w].spec = s
      BY <1>6, <2>2
    <3>4. \A t : t = s /\ t \in broken' => Brought(t)'
      BY DEF Brought
    <3>5. \A t : t = s => Brought(t)'
      BY <1>2, <3>2, <3>4
    <3> QED
      BY <1>3, <2>1, <2>2, <3>3, <3>5
  <2>3. CASE DOMAIN versions' = DOMAIN versions \cup {s} /\ Goes(w, "fetch")
    <3>2. /\ \A v \in Fillers \ {w} : filler'[v] = filler[v]
          /\ filler'[w].at = "fetch" /\ filler'[w].spec = s
      BY <1>6, <2>3
    <3>3. \A t : t = s => Brought(t)'
      BY <2>3, <3>2 DEF Brought, Bringing
    <3> HIDE DEF s
    <3> QED
      BY <1>3, <2>1, <2>3, <3>2, <3>3
  <2>4. \/ versions' = versions /\ Goes(w, "append")
        \/ DOMAIN versions' = DOMAIN versions \cup {s} /\ Goes(w, "fetch")
    BY <1>9 DEF CreateRuntimeVersion
  <2> QED
    BY <2>2, <2>3, <2>4
<1>10. ASSUME NEW w \in Fillers, regCodecMetadata(w) PROVE Covered'
  <2>1. UNCHANGED <<runtimeSpecs, versions>> /\ filler[w].at = "fetch"
    BY <1>10 DEF regCodecMetadata, RegistryAt, tables
  <2>2. CASE Goes(w, "set")
    <3>1. /\ \A v \in Fillers \ {w} : filler'[v] = filler[v]
          /\ filler'[w].at = "set" /\ filler'[w].spec = filler[w].spec /\ filler[w].spec \in Nat
      BY <1>6, <2>2
    <3>2. filler[w].spec \in DOMAIN versions
      BY <2>1, <3>1 DEF Covered
    <3> QED
      BY <1>3, <2>1, <3>1, <3>2
  <2>3. CASE filler' = [filler EXCEPT ![w] = Resting]
    BY <1>0, <1>4, <2>1, <2>3
  <2> QED
    BY <1>10, <2>2, <2>3 DEF regCodecMetadata, Panics
<1>11. ASSUME NEW w \in Fillers, setRuntimeData(w) PROVE Covered'
  <2> DEFINE s == filler[w].spec
  <2>1. /\ \/ versions' = [versions EXCEPT ![s].raw = TRUE]
           \/ versions' = versions /\ s \in broken'
        /\ Goes(w, "append") /\ filler[w].at = "set" /\ runtimeSpecs' = runtimeSpecs
    BY <1>11 DEF setRuntimeData, RegistryAt
  <2>2. /\ \A v \in Fillers \ {w} : filler'[v] = filler[v]
        /\ filler'[w].at = "append" /\ filler'[w].spec = s /\ s \in Nat
    BY <1>6, <2>1
  <2>3. s \in DOMAIN versions
    BY <2>1, <2>2 DEF Covered
  <2>4. DOMAIN versions' = DOMAIN versions /\ (versions'[s].raw = TRUE \/ s \in broken')
    BY <1>0, <2>1, <2>3 DEF VersionRow
  <2>5. \A t : t = s => Brought(t)'
    BY <2>3, <2>4 DEF Brought
  <2> HIDE DEF s
  <2> QED
    BY <1>3, <2>1, <2>2, <2>4, <2>5
<1>12. ASSUME NEW n \in Heights, ReadBlock(n) PROVE Covered'
  BY <1>2, <1>12 DEF ReadBlock, tables, Covered
<1>13. CASE UNCHANGED registryVars
  BY <1>2, <1>13 DEF registryVars, Covered
<1> QED
  BY <1>5, <1>7, <1>8, <1>9, <1>10, <1>11, <1>12, <1>13 DEF RegistryNext

LEMMA AuthoredStep ==
    ASSUME RegistryTypes, Authored, [RegistryNext]_registryVars
    PROVE  Authored'
<1>0. /\ filler \in [Fillers -> Jobs] /\ Resting.at = "idle" /\ Resting.decoded = TRUE
  BY DEF RegistryTypes, Resting
<1>1. ASSUME NEW w \in Fillers, \A v \in Fillers \ {w} : filler'[v] = filler[v], missed \subseteq missed',
             UNCHANGED sessions \/ (\A s \in DOMAIN sessions' : s \in missed' \/ sessions'[s] \in {0, s}),
             UNCHANGED chainRow \/ (\A n \in DOMAIN chainRow' : SessionOf(n) \in missed' \/ chainRow'[n].author \in {0, AuthorsOf(n)}),
             filler'[w].at \in {"author", "validators", "session", "store"} =>
                SessionOf(filler'[w].block) \in missed' \/ Own(filler'[w]),
             filler'[w].at \notin {"author", "validators", "session", "store"} => filler'[w].decoded
      PROVE  Authored'
  BY <1>1 DEF Authored
<1>2. ASSUME NEW w \in Fillers, \E n \in Heights : Fetch(w, n) PROVE Authored'
  <2>1. /\ \A v \in Fillers \ {w} : filler'[v] = filler[v]
        /\ filler'[w].at = "version" /\ filler'[w].decoded
    BY <1>0, <1>2 DEF Fetch, Resting
  <2>2. UNCHANGED <<sessions, chainRow, missed>>
    BY <1>2 DEF Fetch, tables
  <2> QED
    BY <1>1, <2>1, <2>2
<1>3. ASSUME NEW w \in Fillers, AskVersion(w) \/ Registered(w) \/ FindRuntimeVersion(w) \/ CreateRuntimeVersion(w)
               \/ regCodecMetadata(w) \/ setRuntimeData(w) \/ AppendSpec(w)
      PROVE  Authored'
  <2>1. filler[w].decoded
    BY <1>3 DEF AskVersion, Registered, FindRuntimeVersion, CreateRuntimeVersion, regCodecMetadata, setRuntimeData,
                AppendSpec, RegistryAt, Authored
  <2>2. UNCHANGED <<sessions, chainRow, missed>>
    BY <1>3 DEF AskVersion, Registered, FindRuntimeVersion, CreateRuntimeVersion, regCodecMetadata, setRuntimeData,
                AppendSpec, tables
  <2>3. /\ \A v \in Fillers \ {w} : filler'[v] = filler[v]
        /\ filler'[w].at \notin {"author", "validators", "session", "store"} /\ filler'[w].decoded
    <3>1. CASE AskVersion(w)
      BY <1>0, <2>1, <3>1 DEF AskVersion, Jobs, Resting
    <3>4. AfterFinding(filler[w].spec) \in {"fetch", "append"}
      BY DEF AfterFinding
    <3>5. CASE \E a \in {"fetch", "create", "append", "decode"} : Goes(w, a)
      BY <1>0, <2>1, <3>5 DEF Goes, Jobs
    <3>6. Registered(w) \/ FindRuntimeVersion(w) \/ CreateRuntimeVersion(w) \/ setRuntimeData(w) \/ AppendSpec(w) =>
            Goes(w, AfterFinding(filler[w].spec)) \/ \E a \in {"fetch", "create", "append", "decode"} : Goes(w, a)
      BY DEF Registered, FindRuntimeVersion, CreateRuntimeVersion, setRuntimeData, AppendSpec
    <3>2. CASE Registered(w) \/ FindRuntimeVersion(w) \/ CreateRuntimeVersion(w) \/ setRuntimeData(w) \/ AppendSpec(w)
      BY <3>2, <3>4, <3>5, <3>6
    <3>3. CASE regCodecMetadata(w)
      BY <1>0, <2>1, <3>3 DEF regCodecMetadata, Panics, Goes, Jobs
    <3> QED
      BY <1>3, <3>1, <3>2, <3>3
  <2> QED
    BY <1>1, <2>2, <2>3
<1>4. ASSUME NEW w \in Fillers, Decode(w) PROVE Authored'
  <2>1. UNCHANGED <<sessions, chainRow>> /\ filler[w].decoded
    BY <1>4 DEF Decode, tables, RegistryAt, Authored
  <2>2. CASE filler' = [filler EXCEPT ![w] = Resting] /\ missed' = missed
    BY <1>0, <1>1, <2>1, <2>2
  <2>3. CASE Goes(w, "author") /\ missed' = missed
    <3>1. /\ \A v \in Fillers \ {w} : filler'[v] = filler[v]
          /\ filler'[w].at = "author" /\ filler'[w].decoded
      BY <1>0, <2>1, <2>3 DEF Goes, Jobs
    <3>2. Own(filler'[w])
      BY <3>1 DEF Own
    <3> QED
      BY <1>1, <2>1, <2>3, <3>1, <3>2
  <2>4. CASE /\ filler' = [filler EXCEPT ![w].at = "author", ![w].decoded = FALSE]
             /\ missed' = IF IsNewSession(filler[w].block) THEN missed \cup {SessionOf(filler[w].block)} ELSE missed
    <3>1. /\ \A v \in Fillers \ {w} : filler'[v] = filler[v]
          /\ filler'[w].at = "author" /\ filler'[w].block = filler[w].block /\ missed \subseteq missed'
      BY <1>0, <2>4 DEF Jobs
    <3>2. SessionOf(filler'[w].block) \in missed' \/ Own(filler'[w])
      BY <2>4, <3>1 DEF Own
    <3> QED
      BY <1>1, <2>1, <3>1, <3>2
  <2> QED
    BY <1>4, <2>2, <2>3, <2>4 DEF Decode, Panics
<1>5. ASSUME NEW w \in Fillers, BlockAuthor(w) PROVE Authored'
  <2> DEFINE n == filler[w].block
             s == SessionOf(n)
  <2>1. UNCHANGED <<sessions, chainRow, missed>> /\ filler[w].at = "author"
    BY <1>5 DEF BlockAuthor, tables, RegistryAt
  <2>2. s \in missed \/ (~filler[w].decoded => ~IsNewSession(n))
    BY <2>1 DEF Authored, Own
  <2>3. s \in missed \/ (~NewSessionSeen(w) => ~IsNewSession(n))
    BY <2>2 DEF NewSessionSeen
  <2>4. CASE /\ ~NewSessionSeen(w) /\ s \in DOMAIN sessions /\ sessions[s] # 0
             /\ filler' = [filler EXCEPT ![w].at = "store", ![w].list = sessions[s]]
    <3>1. /\ \A v \in Fillers \ {w} : filler'[v] = filler[v]
          /\ filler'[w].at = "store" /\ filler'[w].block = n /\ filler'[w].list = sessions[s]
      BY <1>0, <2>4 DEF Jobs
    <3>2. s \in missed \/ sessions[s] = AuthorsOf(n)
      BY <2>3, <2>4 DEF Authored, IsNewSession
    <3>3. s \in missed \/ Own(filler'[w])
      BY <3>1, <3>2 DEF Own
    <3> QED
      BY <1>1, <2>1, <3>1, <3>3
  <2>5. ASSUME NEW k \in BOOLEAN, k => ~NewSessionSeen(w), filler' = [filler EXCEPT ![w].at = "validators", ![w].keep = k]
        PROVE  Authored'
    <3>1. /\ \A v \in Fillers \ {w} : filler'[v] = filler[v]
          /\ filler'[w].at = "validators" /\ filler'[w].block = n /\ filler'[w].keep = k
          /\ filler'[w].decoded = filler[w].decoded
      BY <1>0, <2>5 DEF Jobs
    <3>2. s \in missed \/ Own(filler'[w])
      BY <2>2, <2>3, <2>5, <3>1 DEF Own
    <3> QED
      BY <1>1, <2>1, <3>1, <3>2
  <2>6. \/ /\ ~NewSessionSeen(w) /\ s \in DOMAIN sessions /\ sessions[s] # 0
           /\ filler' = [filler EXCEPT ![w].at = "store", ![w].list = sessions[s]]
        \/ filler' = [filler EXCEPT ![w].at = "validators", ![w].keep = ~NewSessionSeen(w)]
        \/ filler' = [filler EXCEPT ![w].at = "validators", ![w].keep = FALSE]
    BY <1>5 DEF BlockAuthor
  <2>7. (~NewSessionSeen(w)) \in BOOLEAN /\ FALSE \in BOOLEAN
    BY DEF NewSessionSeen
  <2> QED
    BY <2>4, <2>5, <2>6, <2>7
<1>6. ASSUME NEW w \in Fillers, ValidatorsList(w) PROVE Authored'
  <2> DEFINE n == filler[w].block
             next == IF filler[w].keep THEN "session" ELSE "store"
  <2>1. UNCHANGED <<sessions, chainRow, missed>> /\ filler[w].at = "validators"
    BY <1>6 DEF ValidatorsList, tables, RegistryAt
  <2>2. PICK l \in {0, AuthorsOf(n)} : filler' = [filler EXCEPT ![w].at = next, ![w].list = l]
    BY <1>6 DEF ValidatorsList
  <2>3. /\ \A v \in Fillers \ {w} : filler'[v] = filler[v]
        /\ filler'[w].at = next /\ filler'[w].block = n /\ filler'[w].list = l
        /\ filler'[w].decoded = filler[w].decoded /\ filler'[w].keep = filler[w].keep
    <3> HIDE DEF next
    <3> QED
      BY <1>0, <2>2 DEF Jobs
  <2>4. SessionOf(n) \in missed \/ Own(filler[w])
    BY <2>1 DEF Authored
  <2>5. SessionOf(n) \in missed \/ Own(filler'[w])
    BY <2>1, <2>3, <2>4 DEF Own
  <2> QED
    BY <1>1, <2>1, <2>3, <2>5
<1>7. ASSUME NEW w \in Fillers, CreateNewSession(w) PROVE Authored'
  <2> DEFINE n == filler[w].block
             s == SessionOf(n)
  <2>1. /\ UNCHANGED <<chainRow, missed>> /\ filler[w].at = "session" /\ Goes(w, "store")
        /\ \/ sessions' = sessions
           \/ sessions' = [t \in DOMAIN sessions \cup {s} |-> IF t = s THEN filler[w].list ELSE sessions[t]]
    BY <1>7 DEF CreateNewSession, RegistryAt
  <2>2. /\ \A v \in Fillers \ {w} : filler'[v] = filler[v]
        /\ filler'[w].at = "store" /\ filler'[w].block = n /\ filler'[w].list = filler[w].list
    BY <1>0, <2>1 DEF Goes, Jobs
  <2>3. s \in missed \/ (filler[w].list \in {0, AuthorsOf(n)} /\ AuthorsOf(n) = s)
    BY <2>1 DEF Authored, Own, IsNewSession
  <2>4. \A t \in DOMAIN sessions' : t \in missed' \/ sessions'[t] \in {0, t}
    BY <2>1, <2>3 DEF Authored
  <2>5. s \in missed \/ Own(filler'[w])
    BY <2>2, <2>3 DEF Own
  <2> QED
    BY <1>1, <2>1, <2>2, <2>4, <2>5
<1>8. ASSUME NEW w \in Fillers, StoreBlock(w) PROVE Authored'
  <2> DEFINE n == filler[w].block
             row == [spec |-> filler[w].spec, author |-> filler[w].list, codecError |-> ~filler[w].decoded]
  <2>1. /\ \/ chainRow' = chainRow
           \/ chainRow' = [m \in DOMAIN chainRow \cup {n} |-> IF m \in DOMAIN chainRow THEN chainRow[m] ELSE row]
        /\ filler' = [filler EXCEPT ![w] = Resting] /\ UNCHANGED <<sessions, missed>> /\ filler[w].at = "store"
    BY <1>8 DEF StoreBlock, RegistryAt
  <2>2. SessionOf(n) \in missed \/ row.author \in {0, AuthorsOf(n)}
    BY <2>1 DEF Authored, Own
  <2> HIDE DEF row
  <2>3. \A m \in DOMAIN chainRow' : SessionOf(m) \in missed' \/ chainRow'[m].author \in {0, AuthorsOf(m)}
    BY <2>1, <2>2 DEF Authored
  <2>4. /\ \A v \in Fillers \ {w} : filler'[v] = filler[v]
        /\ filler'[w] = Resting
    BY <1>0, <2>1
  <2> QED
    BY <1>0, <1>1, <2>1, <2>3, <2>4
<1>9. CASE RestartWorker
  BY <1>0, <1>9 DEF RestartWorker, tables, Authored
<1>10. ASSUME NEW n \in Heights, ReadBlock(n) PROVE Authored'
  BY <1>10 DEF ReadBlock, tables, Authored
<1>11. CASE UNCHANGED registryVars
  BY <1>11 DEF registryVars, Authored
<1> QED
  BY <1>2, <1>3, <1>4, <1>5, <1>6, <1>7, <1>8, <1>9, <1>10, <1>11 DEF RegistryNext

(* No block is decoded with a runtime newer than its own.                  *)
LEMMA NotNewer ==
    ASSUME RegistryTypes, Dated, NEW n \in DOMAIN chainRow, NEW list \in {versions, versionCache}
    PROVE  GetBlockRuntimeVersion(list, n) <= Max({SpecOf(n), chainRow[n].spec})
<1> DEFINE starts == {s \in DOMAIN list : list[s].blockNum > n}
           below  == {s \in DOMAIN list : \A t \in starts : s < t}
<1>1. /\ \A s \in DOMAIN list : list[s].blockNum \in Heights /\ SpecOf(list[s].blockNum) = s
      /\ n \in Heights /\ chainRow[n].spec \in Nat
  BY DEF RegistryTypes, Dated, VersionRow, StoredRow
<1>2. SpecOf(n) \in Nat /\ SpecOf(n) <= Max({SpecOf(n), chainRow[n].spec}) /\ chainRow[n].spec <= Max({SpecOf(n), chainRow[n].spec})
  BY <1>1, ChainFacts, OfTwo
<1>3. \A s \in below : s \in Nat /\ s <= SpecOf(n)
  <2>1. SUFFICES ASSUME NEW s \in below PROVE s \in Nat /\ s <= SpecOf(n)
    OBVIOUS
  <2>2. s \in DOMAIN list /\ s \in Nat
    BY <1>1, ChainFacts
  <2>3. s \notin starts
    BY <2>2
  <2>4. list[s].blockNum <= n
    BY <1>1, <2>2, <2>3, ChainFacts
  <2> QED
    BY <1>1, <2>2, <2>4, ChainFacts
<1>4. below # {} => Max(below) \in below
  <2> HIDE DEF below
  <2>1. below \in SUBSET Nat
    BY <1>3
  <2> QED
    BY <1>2, <1>3, <2>1, Greatest
<1>5. GetBlockRuntimeVersion(list, n) = IF below = {} THEN chainRow[n].spec ELSE Max(below)
  BY DEF GetBlockRuntimeVersion
<1>6. below # {} => Max(below) \in Nat /\ Max(below) <= SpecOf(n)
  BY <1>3, <1>4
<1>7. Max({SpecOf(n), chainRow[n].spec}) \in Nat
  BY <1>1, <1>2, OfTwo
<1> HIDE DEF below
<1> QED
  BY <1>1, <1>2, <1>5, <1>6, <1>7

(* A runtime that the process holds for registered has its metadata in the *)
(* table, or somebody who brings it, or this process died on it or lost a  *)
(* statement of it (runtimeVersion.go:11, 13, 25); no block is decoded     *)
(* with a newer runtime than its own; and validators and authors are       *)
(* stored under their own sessions, although both are kept on first use by *)
(* goroutines that fill blocks in any order: for any chain, any number of  *)
(* goroutines and any of the modelled faults.                              *)
THEOREM RegistryIsExact == RegistrySpec => []RegistryExact
<1>1. RegistryInit => RegistryInv
  <2> SUFFICES ASSUME RegistryInit PROVE RegistryInv
    OBVIOUS
  <2>1. /\ currentSpec = 0 /\ runtimeSpecs = {} /\ versions = [s \in {} |-> 0] /\ sessions = [s \in {} |-> 0]
        /\ chainRow = [n \in {} |-> 0] /\ filler = [w \in Fillers |-> Resting] /\ versionCache = [s \in {} |-> 0]
    BY DEF RegistryInit
  <2>2. Resting \in Jobs /\ Resting.at = "idle" /\ Resting.decoded
    BY DEF Resting, Jobs
  <2>3. RegistryTypes
    BY <2>1, <2>2 DEF RegistryTypes
  <2> QED
    BY <2>1, <2>2, <2>3 DEF RegistryInv, Dated, Covered, Authored
<1>2. RegistryInv /\ [RegistryNext]_registryVars => RegistryInv'
  BY RegistryTypesStep, DatedStep, CoveredStep, AuthoredStep DEF RegistryInv
<1>3. RegistryInv => RegistryExact
  <2> SUFFICES ASSUME RegistryInv PROVE RegistryExact
    OBVIOUS
  <2>1. \A s \in runtimeSpecs :
          (s \in DOMAIN versions /\ versions[s].raw) \/ (\E w \in Fillers : filler[w].spec = s /\ filler[w].at \in {"fetch", "set"}) \/ s \in broken
    BY DEF RegistryInv, Covered, Brought, Bringing
  <2>2. RegistryCovers
    BY <2>1, NotNewer DEF RegistryInv, RegistryCovers
  <2>3. AuthorsExact
    BY DEF RegistryInv, Authored, AuthorsExact
  <2> QED
    BY <2>2, <2>3 DEF RegistryExact
<1> QED
  BY <1>1, <1>2, <1>3, PTL DEF RegistrySpec

-----------------------------------------------------------------------------
(* CheckCompleteness.                                                      *)

CheckSpec == CompletenessInit /\ [][CompletenessNext]_checkVars

Checks == [at : {"start", "walk", "fill", "panic", "done"}, start : Nat, fast : BOOLEAN, latest : Nat,
           from : Int, to : Int, todo : SUBSET Int]

(* Where the walk began, and where it ends.                                *)
FirstBlock == IF check.start = 0 THEN 2 ELSE check.start
LastBlock  == check.latest - holdOnNum

(* What is behind the walk is stored or asked for, what is asked for was   *)
(* missing and is final enough.                                            *)
Looked ==
    /\ present \subseteq Int /\ gaps \subseteq Nat /\ asked \subseteq gaps /\ \A n \in asked : n <= LastBlock
    /\ check.at # "panic"
    /\ check.at # "start" =>
          /\ Limit(check.latest) = LastBlock /\ check.from \in Nat
          /\ 0..check.latest \subseteq present \cup gaps
          /\ \A n \in FirstBlock..check.from : n \in present \cup asked
    /\ check.at = "fill" =>
          /\ check.to <= LastBlock /\ check.from <= check.to
          /\ check.todo \subseteq gaps /\ \A n \in check.todo : n <= check.to
          /\ \A n \in (check.from + 1)..check.to : n \in present \cup asked \cup check.todo
    /\ check.at = "done" => check.from >= LastBlock

CheckInv ==
    /\ check \in Checks /\ (check.at = "start" => asked = {})
    /\ check.latest >= holdOnNum => Looked

(* On a chain of at least holdOnNum blocks the subtraction does not wrap.  *)
LEMMA LimitIs ==
    ASSUME NEW latest \in Nat, holdOnNum <= latest, latest < UintSize
    PROVE  Limit(latest) = latest - holdOnNum
<1> DEFINE a == latest + UintSize - holdOnNum
           q == a \div UintSize
           r == a % UintSize
<1>1. UintSize \in Nat /\ UintSize > 0 /\ holdOnNum \in Nat
  BY CompletenessAssumption
<1>2. a \in Nat /\ q \in Int /\ r \in 0..(UintSize - 1) /\ a = UintSize * q + r
  BY <1>1
<1>3. UintSize <= a /\ a < 2 * UintSize
  BY <1>1
<1> HIDE DEF a, q, r
<1>4. q > 0
  <2> SUFFICES ASSUME q <= 0 PROVE FALSE
    BY <1>2
  <2>1. UintSize * q <= 0
    BY <1>1, <1>2
  <2> QED
    BY <2>1, <1>1, <1>2, <1>3
<1>5. q < 2
  <2> SUFFICES ASSUME q >= 2 PROVE FALSE
    BY <1>2
  <2>1. UintSize * q >= UintSize * 2
    BY <1>1, <1>2
  <2> QED
    BY <2>1, <1>1, <1>2, <1>3
<1>6. q = 1
  BY <1>2, <1>4, <1>5
<1>7. r = a - UintSize
  BY <1>1, <1>2, <1>6
<1> QED
  BY <1>7, <1>1 DEF Limit, a, r

LEMMA TableBounds ==
    ASSUME NEW n \in Nat
    PROVE  /\ TableAt(n) \in Nat
           /\ TableAt(n) * SplitBlocks <= n
           /\ n < (TableAt(n) + 1) * SplitBlocks
<1>1. SplitBlocks \in Nat /\ SplitBlocks > 0
  BY CompletenessAssumption
<1> QED
  BY <1>1 DEF TableAt

(* A number between the first and the last of a table is in it.            *)
LEMMA InTable ==
    ASSUME NEW n \in Nat, NEW t \in Nat, t * SplitBlocks <= n, n < (t + 1) * SplitBlocks
    PROVE  TableAt(n) = t
<1> DEFINE u == TableAt(n)
<1>1. SplitBlocks \in Nat /\ SplitBlocks > 0
  BY CompletenessAssumption
<1>2. u \in Nat /\ u * SplitBlocks <= n /\ n < (u + 1) * SplitBlocks
  BY TableBounds
<1> HIDE DEF u
<1>3. ~(u < t)
  <2> SUFFICES ASSUME u + 1 <= t PROVE FALSE
    BY <1>2
  <2>1. (u + 1) * SplitBlocks <= t * SplitBlocks
    BY <1>1, <1>2
  <2> QED
    BY <2>1, <1>1, <1>2
<1>4. ~(t < u)
  <2> SUFFICES ASSUME t + 1 <= u PROVE FALSE
    BY <1>2
  <2>1. (t + 1) * SplitBlocks <= u * SplitBlocks
    BY <1>1, <1>2
  <2> QED
    BY <2>1, <1>1, <1>2
<1> QED
  BY <1>2, <1>3, <1>4 DEF u

(* A chunk is not empty, ends at the limit at the latest and lies in one   *)
(* table, the one that GetBlockNumArr reads.                               *)
LEMMA OneTable ==
    ASSUME NEW from \in Nat, NEW limit \in Nat, from < limit
    PROVE  /\ EndBlock(from, limit) \in Nat
           /\ from < EndBlock(from, limit) /\ EndBlock(from, limit) <= limit
           /\ \A n \in (from + 1)..EndBlock(from, limit) : TableAt(n) = TableAt(EndBlock(from, limit))
<1> DEFINE to  == from + ChunkSize
           t   == TableAt(to)
           s   == TableAt(from + 1)
           cut == IF t # s THEN t * SplitBlocks - 1 ELSE to
           end == IF cut > limit THEN limit ELSE cut
<1>1. /\ SplitBlocks \in Nat /\ ChunkSize \in Nat /\ SplitBlocks > 0
      /\ ChunkSize > 0 /\ ChunkSize <= SplitBlocks
  BY CompletenessAssumption
<1>2. to \in Nat /\ from + 1 \in Nat /\ from + 1 <= to /\ to <= from + SplitBlocks
  BY <1>1
<1>3. /\ t \in Nat /\ t * SplitBlocks <= to /\ to < (t + 1) * SplitBlocks
      /\ s \in Nat /\ s * SplitBlocks <= from + 1 /\ from + 1 < (s + 1) * SplitBlocks
  BY <1>2, TableBounds
<1> HIDE DEF t, s, to
<1>4. cut \in Nat /\ from < cut /\ cut < (s + 1) * SplitBlocks
  <2>1. CASE t = s
    BY <2>1, <1>2, <1>3
  <2>2. CASE t # s
    <3>1. s < t
      <4> SUFFICES ASSUME t + 1 <= s PROVE FALSE
        BY <1>3, <2>2
      <4>1. (t + 1) * SplitBlocks <= s * SplitBlocks
        BY <1>1, <1>3
      <4> QED
        BY <4>1, <1>1, <1>2, <1>3
    <3>2. (s + 1) * SplitBlocks <= t * SplitBlocks
      BY <1>1, <1>3, <3>1
    <3>3. ~(t > s + 1)
      <4> SUFFICES ASSUME s + 2 <= t PROVE FALSE
        BY <1>3
      <4>1. (s + 2) * SplitBlocks <= t * SplitBlocks
        BY <1>1, <1>3
      <4>2. (s + 2) * SplitBlocks = (s + 1) * SplitBlocks + SplitBlocks
        BY <1>1, <1>3
      <4> QED
        BY <4>1, <4>2, <1>1, <1>2, <1>3
    <3>4. t = s + 1
      BY <1>3, <3>1, <3>3
    <3> QED
      BY <2>2, <3>2, <3>4, <1>1, <1>2, <1>3
  <2> QED
    BY <2>1, <2>2
<1> HIDE DEF cut
<1>5. end \in Nat /\ from < end /\ end <= limit /\ end < (s + 1) * SplitBlocks
  BY <1>3, <1>4, <1>1
<1> HIDE DEF end
<1>6. \A n \in (from + 1)..end : TableAt(n) = s
  <2> SUFFICES ASSUME NEW n \in (from + 1)..end PROVE TableAt(n) = s
    OBVIOUS
  <2>1. n \in Nat /\ s * SplitBlocks <= n /\ n < (s + 1) * SplitBlocks
    BY <1>1, <1>3, <1>5
  <2> QED
    BY <2>1, <1>3, InTable
<1>7. EndBlock(from, limit) = end
  BY DEF EndBlock, end, cut, t, s, to
<1> QED
  BY <1>5, <1>6, <1>7

(* A chunk with as many stored blocks as numbers has them all.             *)
LEMMA AllThere ==
    ASSUME NEW from \in Nat, NEW to \in Nat, from < to, present \subseteq Int,
           Cardinality(Fetched(from + 1, to)) >= to - from
    PROVE  (from + 1)..to \subseteq present
<1> DEFINE have == Fetched(from + 1, to)
           R == (from + 1)..to
<1>1. from + 1 \in Int /\ to \in Int
  OBVIOUS
<1>2. IsFiniteSet(R) /\ Cardinality(R) = to - from
  <2>1. Cardinality(R) = IF from + 1 > to THEN 0 ELSE to - (from + 1) + 1
    BY <1>1, FS_Interval
  <2> QED
    BY <1>1, <2>1, FS_Interval
<1>3. have \subseteq R /\ have \subseteq present
  <2>1. \A n \in have : n \in present /\ from + 1 <= n /\ n <= to
    BY DEF Fetched
  <2>2. \A n \in have : n \in Int
    BY <2>1
  <2> HIDE DEF have
  <2> QED
    BY <2>1, <2>2
<1> HIDE DEF have, R
<1>4. Cardinality(have) \in Nat /\ Cardinality(have) <= Cardinality(R) /\ (Cardinality(have) = Cardinality(R) => have = R)
  BY <1>2, <1>3, FS_Subset, FS_CardinalityType
<1>5. Cardinality(have) >= to - from
  BY DEF have
<1>6. Cardinality(have) = Cardinality(R)
  BY <1>2, <1>4, <1>5
<1> QED
  BY <1>3, <1>4, <1>6 DEF R

(* The lowest of some numbers.                                             *)
LEMMA Lowest ==
    ASSUME NEW S, S \subseteq Nat, S # {}
    PROVE  (CHOOSE m \in S : \A k \in S : m <= k) \in S
<1>1. IsWellFoundedOn(OpToRel(<, Nat), Nat)
  BY NatLessThanWellFounded
<1>2. PICK m \in S : \A k \in S : ~(<<k, m>> \in OpToRel(<, Nat))
  BY <1>1, WFMin
<1>3. \A k \in S : ~(k < m)
  BY <1>2 DEF OpToRel
<1>4. \A k \in S : m <= k
  BY <1>3
<1> QED
  BY <1>4

(* The walk is one of the records, whatever the head.                      *)
LEMMA ChecksStep == check \in Checks /\ [CompletenessNext]_checkVars => check' \in Checks
<1> SUFFICES ASSUME check \in Checks, [CompletenessNext]_checkVars PROVE check' \in Checks
  OBVIOUS
<1>0. /\ CheckStarts \subseteq Nat /\ Finals \subseteq Nat /\ holdOnNum \in Nat /\ UintSize \in Nat
      /\ UintSize > 0 /\ ChunkSize \in Nat /\ SplitBlocks \in Nat /\ SplitBlocks > 0
  BY CompletenessAssumption
<1>1. ASSUME NEW start \in CheckStarts, NEW fast \in BOOLEAN, NEW latest \in Finals, StartCheck(start, fast, latest)
      PROVE  check' \in Checks
  <2>1. (IF start > 0 THEN start - 1 ELSE 1) \in Int /\ start \in Nat /\ latest \in Nat
    BY <1>0
  <2> QED
    BY <1>1, <2>1 DEF StartCheck, Checks
<1>2. CASE CheckChunk
  <2> DEFINE last == EndBlock(check.from, Limit(check.latest))
             todo == (check.from + 1)..last \ Fetched(check.from + 1, last)
  <2>1. check.from \in Int /\ check.latest \in Nat /\ Limit(check.latest) \in Int
    BY <1>0 DEF Limit, Checks
  <2>2. last \in Int
    <3>1. check.from + ChunkSize \in Int /\ TableAt(check.from + ChunkSize) \in Int
      BY <1>0, <2>1 DEF TableAt
    <3> QED
      BY <1>0, <2>1, <3>1 DEF EndBlock
  <2>3. todo \in SUBSET Int
    BY <2>1, <2>2
  <2>4. \/ check' = [check EXCEPT !.at = "fill", !.to = last, !.todo = todo]
        \/ check' = [check EXCEPT !.from = last]
    BY <1>2 DEF CheckChunk
  <2> HIDE DEF last, todo
  <2> QED
    BY <2>2, <2>3, <2>4 DEF Checks
<1>3. CASE FillMissing
  <2>1. PICK n : check' = IF n > check.latest /\ ~check.fast THEN [check EXCEPT !.at = "panic"]
                          ELSE [check EXCEPT !.todo = check.todo \ {n}]
    BY <1>3 DEF FillMissing
  <2>2. check.todo \ {n} \in SUBSET Int
    BY DEF Checks
  <2>3. [check EXCEPT !.at = "panic"] \in Checks /\ [check EXCEPT !.todo = check.todo \ {n}] \in Checks
    BY <2>2 DEF Checks
  <2> QED
    BY <2>1, <2>3
<1>4. CASE NextChunk
  BY <1>4 DEF NextChunk, Checks
<1>5. CASE EndCheck
  BY <1>5 DEF EndCheck, Checks
<1>6. CASE check' = check
  BY <1>6
<1> QED
  BY <1>1, <1>2, <1>3, <1>4, <1>5, <1>6 DEF CompletenessNext, StoreMeanwhile, checkVars

(* A step keeps what is known of the walk.                                 *)
LEMMA LookedStep == CheckInv /\ CompletenessNext => (check'.latest >= holdOnNum => Looked')
<1> SUFFICES ASSUME CheckInv, CompletenessNext, check'.latest >= holdOnNum PROVE Looked'
  OBVIOUS
<1>0. /\ CheckStarts \subseteq Nat /\ Finals \subseteq Nat /\ holdOnNum \in Nat
      /\ \A n \in Finals : n < UintSize
      /\ check \in Checks
  BY CompletenessAssumption DEF CheckInv
<1>1. ASSUME NEW start \in CheckStarts, NEW fast \in BOOLEAN, NEW latest \in Finals, StartCheck(start, fast, latest)
      PROVE  Looked'
  <2>1. /\ check'.at = "walk" /\ check'.start = start /\ check'.latest = latest
        /\ check'.from = IF start > 0 THEN start - 1 ELSE 1
    BY <1>1 DEF StartCheck
  <2>2. start \in Nat /\ latest \in Nat /\ latest < UintSize /\ holdOnNum <= latest
    BY <1>0, <2>1
  <2>3. Limit(latest) = latest - holdOnNum
    BY <2>2, LimitIs
  <2>4. PICK missing : present' = 0..latest \ missing
    BY <1>1 DEF StartCheck
  <2>5. gaps' = 0..latest \ present' /\ asked' = asked
    BY <1>1 DEF StartCheck
  <2>6. asked = {}
    <3>1. check.at = "start"
      BY <1>1 DEF StartCheck
    <3> QED
      BY <3>1 DEF CheckInv
  <2>7. present' \subseteq Int /\ gaps' \subseteq Nat /\ 0..latest \subseteq present' \cup gaps'
    BY <2>4, <2>5
  <2>8. \A n \in (IF start = 0 THEN 2 ELSE start)..check'.from : FALSE
    BY <2>1, <2>2
  <2> QED
    BY <2>1, <2>2, <2>3, <2>5, <2>6, <2>7, <2>8 DEF Looked, FirstBlock, LastBlock
<1>2. ASSUME CheckChunk, check.latest >= holdOnNum, Looked PROVE Looked'
  <2> DEFINE lim  == Limit(check.latest)
             last == EndBlock(check.from, lim)
             have == Fetched(check.from + 1, last)
             todo == (check.from + 1)..last \ have
  <2>0. /\ check.at = "walk" /\ check.from < lim /\ present' = present /\ asked' = asked /\ gaps' = gaps
        /\ check' = IF Cardinality(have) < last - check.from
                    THEN [check EXCEPT !.at = "fill", !.to = last, !.todo = todo]
                    ELSE [check EXCEPT !.from = last]
    BY <1>2 DEF CheckChunk
  <2>1. /\ present \subseteq Int /\ asked \subseteq gaps /\ (\A n \in asked : n <= LastBlock)
        /\ lim = LastBlock /\ check.from \in Nat /\ 0..check.latest \subseteq present \cup gaps
        /\ \A n \in FirstBlock..check.from : n \in present \cup asked
    BY <1>2, <2>0 DEF Looked
  <2>2. check.latest \in Nat /\ lim \in Nat /\ lim <= check.latest
    BY <1>0, <1>2, <2>1 DEF LastBlock, Checks
  <2>3. /\ last \in Nat /\ check.from < last /\ last <= lim
        /\ \A n \in (check.from + 1)..last : TableAt(n) = TableAt(last)
    <3> HIDE DEF lim
    <3> QED
      BY <2>0, <2>1, <2>2, OneTable
  <2>4. CASE Cardinality(have) < last - check.from
    <3>1. \A n \in todo : n \in 0..check.latest /\ n \notin present /\ n <= last
      BY <2>1, <2>2, <2>3 DEF Fetched
    <3>2. \A n \in (check.from + 1)..last : n \in present \cup todo
      BY <2>3 DEF Fetched
    <3>3. todo \subseteq gaps
      BY <2>1, <3>1
    <3> HIDE DEF last, lim, have, todo
    <3>4. check' = [check EXCEPT !.at = "fill", !.to = last, !.todo = todo]
      BY <2>0, <2>4
    <3>5. /\ check'.at = "fill" /\ check'.start = check.start /\ check'.latest = check.latest
          /\ check'.from = check.from /\ check'.to = last /\ check'.todo = todo
      BY <3>4, <1>0 DEF Checks
    <3>6. LastBlock' = LastBlock /\ FirstBlock' = FirstBlock
      BY <3>5 DEF LastBlock, FirstBlock
    <3>7. \A n \in todo : n <= last
      BY <3>1
    <3> QED
      BY <2>0, <2>1, <2>3, <3>2, <3>3, <3>5, <3>6, <3>7, <1>2 DEF Looked, lim
  <2>5. CASE ~(Cardinality(have) < last - check.from)
    <3>1. (check.from + 1)..last \subseteq present
      <4> HIDE DEF last
      <4>1. have \subseteq present /\ have \subseteq (check.from + 1)..last
        <5>1. \A n \in have : n \in present /\ check.from + 1 <= n /\ n <= last
          BY DEF Fetched
        <5>2. \A n \in have : n \in Int
          BY <5>1, <2>1
        <5> HIDE DEF have
        <5> QED
          BY <5>1, <5>2, <2>1, <2>3
      <4>2. Cardinality(have) \in Nat
        <5>1. check.from + 1 \in Int /\ last \in Int
          BY <2>1, <2>3
        <5>2. IsFiniteSet((check.from + 1)..last)
          BY <5>1, FS_Interval
        <5> HIDE DEF have
        <5> QED
          BY <4>1, <5>2, FS_Subset, FS_CardinalityType
      <4>3. Cardinality(have) >= last - check.from
        <5> HIDE DEF have
        <5> QED
          BY <2>1, <2>3, <2>5, <4>2
      <4> QED
        BY <2>1, <2>3, <4>3, AllThere
    <3> HIDE DEF last, lim, have
    <3>2. check' = [check EXCEPT !.from = last]
      BY <2>0, <2>5
    <3>3. /\ check'.at = "walk" /\ check'.start = check.start /\ check'.latest = check.latest /\ check'.from = last
      BY <3>2, <1>0, <2>0 DEF Checks
    <3>4. LastBlock' = LastBlock /\ FirstBlock' = FirstBlock
      BY <3>3 DEF LastBlock, FirstBlock
    <3>5. \A n \in FirstBlock..last : n \in present \cup asked
      <4> SUFFICES ASSUME NEW n \in FirstBlock..last PROVE n \in present \cup asked
        OBVIOUS
      <4>1. FirstBlock \in Nat
        BY <1>0 DEF FirstBlock, Checks
      <4>2. n \in FirstBlock..check.from \/ n \in (check.from + 1)..last
        BY <2>1, <2>3, <4>1
      <4> QED
        BY <2>1, <3>1, <4>2
    <3> QED
      BY <2>0, <2>1, <2>3, <3>3, <3>4, <3>5, <1>2 DEF Looked, lim
  <2> QED
    BY <2>4, <2>5
<1>3. ASSUME FillMissing, check.latest >= holdOnNum, Looked PROVE Looked'
  <2> DEFINE n == CHOOSE m \in check.todo : \A k \in check.todo : m <= k
  <2>1. /\ present \subseteq Int /\ asked \subseteq gaps /\ (\A k \in asked : k <= LastBlock)
        /\ Limit(check.latest) = LastBlock /\ check.from \in Nat /\ 0..check.latest \subseteq present \cup gaps
        /\ check.to <= LastBlock /\ check.from <= check.to /\ check.todo \subseteq gaps
        /\ gaps \subseteq Nat /\ \A k \in check.todo : k <= check.to
    BY <1>3 DEF Looked, FillMissing
  <2>2. check.todo \subseteq Nat /\ check.todo # {}
    BY <1>3, <2>1 DEF FillMissing
  <2>3. n \in check.todo
    BY <2>2, Lowest
  <2> HIDE DEF n
  <2>4. check.latest \in Nat /\ check.to \in Int /\ n \in Nat /\ n <= LastBlock /\ n <= check.latest
    BY <1>0, <2>1, <2>2, <2>3 DEF Checks, LastBlock
  <2>5. /\ check' = [check EXCEPT !.todo = check.todo \ {n}] /\ asked' = asked \cup {n} /\ gaps' = gaps
        /\ present' \in {present, present \cup {n}}
    BY <1>3, <2>4 DEF FillMissing, n
  <2>6. /\ check.at = "fill" /\ check'.at = "fill" /\ check'.start = check.start /\ check'.latest = check.latest
        /\ check'.from = check.from /\ check'.to = check.to /\ check'.todo = check.todo \ {n}
    BY <1>3, <1>0, <2>5 DEF Checks, FillMissing
  <2>7. LastBlock' = LastBlock /\ FirstBlock' = FirstBlock
    BY <2>6 DEF LastBlock, FirstBlock
  <2>8. /\ \A k \in FirstBlock..check.from : k \in present \cup asked
        /\ \A k \in (check.from + 1)..check.to : k \in present \cup asked \cup check.todo
    BY <1>3, <2>6 DEF Looked
  <2> QED
    BY <1>3, <2>1, <2>3, <2>4, <2>5, <2>6, <2>7, <2>8 DEF Looked
<1>4. ASSUME NextChunk, check.latest >= holdOnNum, Looked PROVE Looked'
  <2>1. /\ check' = [check EXCEPT !.at = "walk", !.from = check.to]
        /\ check.at = "fill" /\ check.todo = {} /\ present' = present /\ asked' = asked /\ gaps' = gaps
    BY <1>4 DEF NextChunk
  <2>2. /\ check'.at = "walk" /\ check'.start = check.start /\ check'.latest = check.latest
        /\ check'.from = check.to
    BY <1>0, <2>1 DEF Checks
  <2>3. LastBlock' = LastBlock /\ FirstBlock' = FirstBlock /\ FirstBlock \in Nat
    BY <1>0, <2>2 DEF LastBlock, FirstBlock, Checks
  <2>4. check.to \in Nat /\ check.from \in Nat
    BY <1>0, <1>4, <2>1 DEF Looked, Checks
  <2>5. /\ \A k \in FirstBlock..check.from : k \in present \cup asked
        /\ \A k \in (check.from + 1)..check.to : k \in present \cup asked
    BY <1>4, <2>1 DEF Looked
  <2>6. \A k \in FirstBlock..check.to : k \in present \cup asked
    <3> SUFFICES ASSUME NEW k \in FirstBlock..check.to PROVE k \in present \cup asked
      OBVIOUS
    <3>1. k \in FirstBlock..check.from \/ k \in (check.from + 1)..check.to
      BY <2>3, <2>4
    <3> QED
      BY <2>5, <3>1
  <2> QED
    BY <1>4, <2>1, <2>2, <2>3, <2>4, <2>6 DEF Looked
<1>5. ASSUME EndCheck, check.latest >= holdOnNum, Looked PROVE Looked'
  <2>1. /\ check' = [check EXCEPT !.at = "done"] /\ check.at = "walk" /\ check.from >= Limit(check.latest)
        /\ present' = present /\ asked' = asked /\ gaps' = gaps
    BY <1>5 DEF EndCheck
  <2>2. /\ check'.at = "done" /\ check'.start = check.start /\ check'.latest = check.latest
        /\ check'.from = check.from
    BY <1>0, <2>1 DEF Checks
  <2>3. LastBlock' = LastBlock /\ FirstBlock' = FirstBlock
    BY <2>2 DEF LastBlock, FirstBlock
  <2> QED
    BY <1>5, <2>1, <2>2, <2>3 DEF Looked
<1>6. ASSUME NEW n \in 0..Top, StoreMeanwhile(n), Looked PROVE Looked'
  <2>1. present' = present \cup {n} /\ check' = check /\ asked' = asked /\ gaps' = gaps
    BY <1>6 DEF StoreMeanwhile
  <2>2. LastBlock' = LastBlock /\ FirstBlock' = FirstBlock
    BY <2>1 DEF LastBlock, FirstBlock
  <2> QED
    BY <1>6, <2>1, <2>2 DEF Looked
<1>7. CheckChunk \/ FillMissing \/ NextChunk \/ EndCheck \/ (\E n \in 0..Top : StoreMeanwhile(n)) =>
        check'.latest = check.latest
  BY <1>0 DEF CheckChunk, FillMissing, NextChunk, EndCheck, StoreMeanwhile, Checks
<1> QED
  BY <1>1, <1>2, <1>3, <1>4, <1>5, <1>6, <1>7 DEF CompletenessNext, CheckInv

(* On a chain of at least holdOnNum blocks CheckCompleteness asks for      *)
(* missing and final blocks only, does not panic, and looks at every block *)
(* from its start block on (from 2 without one) up to holdOnNum below the  *)
(* head, for any chunk and table size and any blocks stored meanwhile.     *)
THEOREM CompletenessIsExact == CheckSpec => []CompletenessExact
<1>1. CompletenessInit => CheckInv
  <2> SUFFICES ASSUME CompletenessInit PROVE CheckInv
    OBVIOUS
  <2>1. /\ check = [at |-> "start", start |-> 0, fast |-> FALSE, latest |-> 0, from |-> 0, to |-> 0, todo |-> {}]
        /\ present = {} /\ asked = {} /\ gaps = {}
    BY DEF CompletenessInit
  <2>2. check \in Checks
    BY <2>1 DEF Checks
  <2> QED
    BY <2>1, <2>2 DEF CheckInv, Looked
<1>2. CheckInv /\ [CompletenessNext]_checkVars => CheckInv'
  <2> SUFFICES ASSUME CheckInv, [CompletenessNext]_checkVars PROVE CheckInv'
    OBVIOUS
  <2>1. check' \in Checks
    BY ChecksStep DEF CheckInv
  <2>2. CASE CompletenessNext
    <3>1. check'.at = "start" => asked' = {}
      <4>1. check'.at = "start" => check.at = "start" /\ asked' = asked
        BY <2>2 DEF CompletenessNext, StartCheck, CheckChunk, FillMissing, NextChunk, EndCheck, StoreMeanwhile,
                    CheckInv, Checks
      <4> QED
        BY <4>1 DEF CheckInv
    <3> QED
      BY <2>1, <2>2, <3>1, LookedStep DEF CheckInv
  <2>3. CASE UNCHANGED checkVars
    BY <2>3 DEF checkVars, CheckInv, Looked, LastBlock, FirstBlock
  <2> QED
    BY <2>2, <2>3
<1>3. CheckInv => CompletenessExact
  <2> SUFFICES ASSUME CheckInv, check.latest >= holdOnNum, Looked
               PROVE  /\ asked \subseteq gaps /\ \A n \in asked : n <= check.latest - holdOnNum
                      /\ check.at # "panic"
                      /\ check.at = "done" =>
                           \A n \in (IF check.start = 0 THEN 2 ELSE check.start)..(check.latest - holdOnNum) :
                              n \in present \cup asked
    BY DEF CheckInv, CompletenessExact
  <2>1. check.start \in Nat /\ check.latest \in Nat /\ holdOnNum \in Nat
    BY CompletenessAssumption DEF CheckInv, Checks
  <2>2. /\ asked \subseteq gaps /\ \A n \in asked : n <= check.latest - holdOnNum
        /\ check.at # "panic"
    BY DEF Looked, LastBlock
  <2>3. ASSUME check.at = "done", NEW n \in FirstBlock..LastBlock PROVE n \in present \cup asked
    <3>1. n \in FirstBlock..check.from
      BY <2>1, <2>3 DEF Looked, LastBlock, FirstBlock
    <3> QED
      BY <2>3, <3>1 DEF Looked
  <2> QED
    BY <2>2, <2>3 DEF LastBlock, FirstBlock
<1> QED
  BY <1>1, <1>2, <1>3, PTL DEF CheckSpec

-----------------------------------------------------------------------------
(* The fees of a block's extrinsics.                                       *)

Entry == [signed : BOOLEAN, events : Seq(FeeEvent)]
StoredFees == {Extrinsic(e, a) : e \in Entry, a \in Answers}

(* A row holds what its extrinsic's events and the answers about it make.  *)
FeesInv ==
    /\ feeBlock \in FeeBlocks
    /\ answers \in Seq(Answers)
    /\ extrinsicRows \in Seq(StoredFees)
    /\ Len(answers) = Len(extrinsicRows) /\ Len(extrinsicRows) <= Len(feeBlock)
    /\ \A i \in 1..Len(extrinsicRows) :
         Consistent(answers[i]) /\ extrinsicRows[i] = Extrinsic(feeBlock[i], answers[i])

LEMMA ProductUp ==
    ASSUME NEW a \in Nat, NEW b \in Nat, a <= b, NEW d \in Nat
    PROVE  a * d \in Nat /\ b * d \in Nat /\ a * d <= b * d
<1>1. PICK k \in Nat : b = a + k
  <2>1. b - a \in Nat /\ b = a + (b - a)
    OBVIOUS
  <2> QED
    BY <2>1
<1>2. k * d \in Nat /\ a * d \in Nat
  OBVIOUS
<1>3. (a + k) * d = a * d + k * d
  OBVIOUS
<1> QED
  BY <1>1, <1>2, <1>3

LEMMA QuotientIs ==
    ASSUME NEW n \in Nat, NEW d \in Nat \ {0}
    PROVE  n \div d \in Nat /\ (n \div d) * d <= n /\ n < (n \div d) * d + d
<1> DEFINE q == n \div d
           r == n % d
<1>1. q \in Int /\ r \in 0 .. d - 1 /\ n = d * q + r
  OBVIOUS
<1> HIDE DEF q, r
<1>2. d * q = q * d
  BY <1>1
<1>3. q >= 0
  <2> SUFFICES ASSUME q < 0 PROVE FALSE
    BY <1>1
  <2>1. q + 1 <= 0
    BY <1>1
  <2>2. (q + 1) * d <= 0
    BY <1>1, <2>1
  <2>3. (q + 1) * d = q * d + d
    BY <1>1
  <2>4. q * d \in Int
    BY <1>1
  <2> QED
    BY <1>1, <1>2, <2>2, <2>3, <2>4
<1>4. q * d \in Int
  BY <1>1
<1>5. q \in Nat /\ q * d <= n /\ n < q * d + d
  BY <1>1, <1>2, <1>3, <1>4
<1> QED
  BY <1>5 DEF q

(* What can be compared after a multiplication can be compared before it.  *)
LEMMA Cancelled ==
    ASSUME NEW a \in Nat, NEW b \in Nat, NEW d \in Nat \ {0}, a * d < b * d
    PROVE  a < b
<1> SUFFICES ASSUME b <= a PROVE FALSE
  OBVIOUS
<1>1. b * d <= a * d /\ a * d \in Nat /\ b * d \in Nat
  BY ProductUp
<1> QED
  BY <1>1

(* The quotient, in units, times a weight, against the exact share.        *)
LEMMA RoundedShare ==
    ASSUME NEW x \in Nat, NEW y \in Nat \ {0}, NEW w \in Nat, NEW U \in Nat \ {0}, w < 2 * U
    PROVE  LET q == (2 * (x * U) + y) \div (2 * y)
               r == (q * w) \div U
               e == (x * w) \div y
           IN  /\ r \in Nat /\ e \in Nat /\ e <= r + 1 /\ r <= e + 1
               /\ w <= y => r <= x
<1> DEFINE q == (2 * (x * U) + y) \div (2 * y)
           r == (q * w) \div U
           e == (x * w) \div y
           P == y * U
<1>1. 2 * (x * U) + y \in Nat /\ 2 * y \in Nat \ {0}
  OBVIOUS
<1>2. q \in Nat /\ q * (2 * y) <= 2 * (x * U) + y /\ 2 * (x * U) + y <= q * (2 * y) + 2 * y
  <2>1. q \in Nat /\ q * (2 * y) <= 2 * (x * U) + y /\ 2 * (x * U) + y < q * (2 * y) + 2 * y
    BY <1>1, QuotientIs
  <2>2. q * (2 * y) \in Nat
    BY <2>1
  <2> HIDE DEF q
  <2> QED
    BY <1>1, <2>1, <2>2
<1> HIDE DEF q
<1>3. r \in Nat /\ r * U <= q * w /\ q * w <= r * U + U /\ q * w < r * U + U
  <2>1. q * w \in Nat
    BY <1>2
  <2>2. r \in Nat /\ r * U <= q * w /\ q * w < r * U + U
    BY <2>1, QuotientIs
  <2> HIDE DEF r
  <2>3. r * U \in Nat
    BY <2>2
  <2> QED
    BY <2>1, <2>2, <2>3
<1>4. e \in Nat /\ e * y <= x * w /\ x * w <= e * y + y
  <2>1. x * w \in Nat
    OBVIOUS
  <2>2. e \in Nat /\ e * y <= x * w /\ x * w < e * y + y
    BY <2>1, QuotientIs
  <2> HIDE DEF e
  <2>3. e * y \in Nat
    BY <2>2
  <2> QED
    BY <2>1, <2>2, <2>3
<1> HIDE DEF r, e
<1> DEFINE A == (q * w) * y
           B == (x * w) * U
           C == y * w
<1>5. P \in Nat \ {0} /\ A \in Nat /\ B \in Nat /\ C \in Nat /\ C < 2 * P
  <2>1. A \in Nat /\ B \in Nat /\ C \in Nat
    BY <1>2
  <2>2. P \in Nat \ {0}
    OBVIOUS
  <2>3. w + 1 <= 2 * U /\ w + 1 \in Nat /\ 2 * U \in Nat
    OBVIOUS
  <2>4. (w + 1) * y <= (2 * U) * y
    BY <2>3, ProductUp
  <2>5. (w + 1) * y = C + y /\ (2 * U) * y = 2 * P
    OBVIOUS
  <2> HIDE DEF A, B, C, P
  <2> QED
    BY <2>1, <2>2, <2>4, <2>5
<1>6. 2 * A <= 2 * B + C /\ 2 * B <= 2 * A + C
  <2>1. q * (2 * y) \in Nat /\ q * (2 * y) + 2 * y \in Nat
    BY <1>2
  <2>2. (q * (2 * y)) * w <= (2 * (x * U) + y) * w
    BY <1>1, <1>2, <2>1, ProductUp
  <2>3. (2 * (x * U) + y) * w <= (q * (2 * y) + 2 * y) * w
    BY <1>1, <1>2, <2>1, ProductUp
  <2>4. (q * (2 * y)) * w = 2 * A
    BY <1>2
  <2>5. (2 * (x * U) + y) * w = 2 * B + C
    OBVIOUS
  <2>6. (q * (2 * y) + 2 * y) * w = 2 * A + 2 * C
    BY <1>2
  <2> HIDE DEF A, B, C
  <2> QED
    BY <1>5, <2>2, <2>3, <2>4, <2>5, <2>6
<1>7. r * P \in Nat /\ r * P <= A /\ A < r * P + P
  <2>1. r * U \in Nat /\ q * w \in Nat /\ q * w + 1 \in Nat /\ r * U + U \in Nat
    BY <1>2, <1>3
  <2>2. (r * U) * y <= (q * w) * y
    BY <1>3, <2>1, ProductUp
  <2>3. q * w + 1 <= r * U + U
    BY <1>3, <2>1
  <2>4. (q * w + 1) * y <= (r * U + U) * y
    BY <2>1, <2>3, ProductUp
  <2>5. (r * U) * y = r * P /\ (r * U + U) * y = r * P + P /\ (q * w + 1) * y = A + y
    BY <1>2, <1>3
  <2>6. r * P \in Nat
    BY <1>3, <1>5
  <2> HIDE DEF A, P
  <2> QED
    BY <1>5, <2>2, <2>4, <2>5, <2>6 DEF A
<1>8. e * P \in Nat /\ e * P <= B /\ B <= e * P + P
  <2>1. e * y \in Nat /\ x * w \in Nat /\ e * y + y \in Nat
    BY <1>4
  <2>2. (e * y) * U <= (x * w) * U /\ (x * w) * U <= (e * y + y) * U
    BY <1>4, <2>1, ProductUp
  <2>3. (e * y) * U = e * P /\ (e * y + y) * U = e * P + P
    BY <1>4
  <2>4. e * P \in Nat
    BY <1>4, <1>5
  <2> QED
    BY <2>2, <2>3, <2>4
<1>9. w <= y => B <= x * P
  <2> SUFFICES ASSUME w <= y PROVE B <= x * P
    OBVIOUS
  <2>1. w * (x * U) <= y * (x * U)
    BY ProductUp
  <2>2. w * (x * U) = B /\ y * (x * U) = x * P
    OBVIOUS
  <2> QED
    BY <2>1, <2>2
<1>10. x * P \in Nat
  OBVIOUS
<1> HIDE DEF A, B, C, P
<1>11. r < e + 2
  <2>1. r * P < e * P + 2 * P
    BY <1>5, <1>6, <1>7, <1>8
  <2>2. (e + 2) * P = e * P + 2 * P /\ e + 2 \in Nat
    BY <1>4, <1>5
  <2> QED
    BY <1>3, <1>5, <2>1, <2>2, Cancelled
<1>12. e < r + 2
  <2>1. e * P < r * P + 2 * P
    BY <1>5, <1>6, <1>7, <1>8
  <2>2. (r + 2) * P = r * P + 2 * P /\ r + 2 \in Nat
    BY <1>3, <1>5
  <2> QED
    BY <1>4, <1>5, <2>1, <2>2, Cancelled
<1>13. w <= y => r <= x
  <2> SUFFICES ASSUME w <= y PROVE r < x + 1
    BY <1>3
  <2>1. r * P < x * P + P
    BY <1>5, <1>6, <1>7, <1>9, <1>10
  <2>2. (x + 1) * P = x * P + P /\ x + 1 \in Nat
    BY <1>5
  <2> QED
    BY <1>3, <1>5, <2>1, <2>2, Cancelled
<1>14. r \in Nat /\ e \in Nat /\ e <= r + 1 /\ r <= e + 1 /\ (w <= y => r <= x)
  BY <1>3, <1>4, <1>11, <1>12, <1>13
<1> QED
  BY <1>14 DEF q, r, e

(* What is sought in an entry's events and in an answer.                   *)
LEMMA ToldTypes ==
    ASSUME NEW e \in Entry
    PROVE  CheckoutWeight(e.events).weight \in Nat /\ CheckoutWeight(e.events).fee \in Int
<1> DEFINE events == e.events
           dispatch == PlacesOf(events, {"ExtrinsicSuccess", "ExtrinsicFailed"})
           paid == PlacesOf(events, {"TransactionFeePaid"})
<1>1. events \in Seq(FeeEvent) /\ Len(events) \in Nat
  BY DEF Entry
<1> HIDE DEF events
<1>2. ASSUME NEW k, PlacesOf(events, k) # {} PROVE Max(PlacesOf(events, k)) \in DOMAIN events
  <2>1. PlacesOf(events, k) \in SUBSET Nat /\ \A i \in PlacesOf(events, k) : i <= Len(events)
    BY <1>1 DEF PlacesOf
  <2>2. Max(PlacesOf(events, k)) \in PlacesOf(events, k)
    BY <1>1, <1>2, <2>1, Greatest
  <2> QED
    BY <2>2 DEF PlacesOf
<1>3. \A i \in DOMAIN events : events[i].weight \in Nat /\ events[i].fee \in Nat /\ events[i].tip \in Nat
  <2>1. \A i \in DOMAIN events : events[i] \in FeeEvent
    BY <1>1
  <2> QED
    BY <2>1 DEF FeeEvent
<1>4. dispatch # {} => events[Max(dispatch)].weight \in Nat
  BY <1>2, <1>3
<1>5. paid # {} => events[Max(paid)].fee - events[Max(paid)].tip \in Int
  <2> SUFFICES ASSUME paid # {} PROVE events[Max(paid)].fee - events[Max(paid)].tip \in Int
    OBVIOUS
  <2>1. Max(paid) \in DOMAIN events
    BY <1>2
  <2> QED
    BY <1>3, <2>1
<1> HIDE DEF dispatch, paid
<1>6. CheckoutWeight(events) =
        [weight |-> IF dispatch = {} THEN 0 ELSE events[Max(dispatch)].weight,
         fee    |-> IF paid = {} THEN -1 ELSE events[Max(paid)].fee - events[Max(paid)].tip]
  BY DEF CheckoutWeight, dispatch, paid
<1>7. CheckoutWeight(events).weight \in Nat /\ CheckoutWeight(events).fee \in Int
  BY <1>4, <1>5, <1>6
<1> QED
  BY <1>7 DEF events

LEMMA AnswerTypes ==
    ASSUME NEW a \in Answers
    PROVE  /\ a.details.ok \in BOOLEAN /\ a.details.weightFee \in Nat
           /\ a.info.ok \in BOOLEAN /\ a.info.weight \in Nat /\ a.info.partial \in Nat
<1>1. a.details \in FeeDetails /\ a.info \in PaymentInfos
  BY DEF Answers
<1>2. a.details.ok \in BOOLEAN /\ a.details.weightFee \in Nat
  <2>1. CASE a.details = NoDetails
    BY <2>1 DEF NoDetails
  <2>2. CASE a.details \in [ok : {TRUE}, weightFee : WeightFees]
    <3>1. a.details.ok \in {TRUE} /\ a.details.weightFee \in WeightFees
      BY <2>2
    <3> QED
      BY <3>1, FeeAssumption
  <2> QED
    BY <1>1, <2>1, <2>2 DEF FeeDetails
<1>3. a.info.ok \in BOOLEAN /\ a.info.weight \in Nat /\ a.info.partial \in Nat
  <2>1. \A f \in WeightFees : BasicFee + f \in Nat
    BY FeeAssumption
  <2>2. CASE a.info = NoInfo
    BY <2>2 DEF NoInfo
  <2>3. CASE a.info \in [ok : {TRUE}, weight : Estimates \cup {0}, partial : {BasicFee + f : f \in WeightFees}]
    <3>1. a.info.ok \in {TRUE} /\ a.info.weight \in Estimates \cup {0}
          /\ a.info.partial \in {BasicFee + f : f \in WeightFees}
      BY <2>3
    <3>2. a.info.partial \in Nat
      BY <2>1, <3>1
    <3>3. Estimates \cup {0} \subseteq Nat
      BY FeeAssumption
    <3>4. a.info.weight \in Nat
      BY <3>1, <3>3
    <3> QED
      BY <3>1, <3>2, <3>4
  <2> QED
    BY <1>1, <2>2, <2>3 DEF PaymentInfos
<1> QED
  BY <1>2, <1>3

(* The fees of an extrinsic are exact, whatever its events tell and the    *)
(* node answers.                                                           *)
LEMMA FeesOfAnswer ==
    ASSUME NEW told, told.weight \in Nat, told.fee \in Int, NEW a \in Answers, Consistent(a), NEW success,
           NEW row, row = [success |-> success, fee |-> GetExtrinsicFee(told.weight, told.fee, a).fee,
                           used |-> GetExtrinsicFee(told.weight, told.fee, a).used]
    PROVE  RowExact(told, a, row)
<1> DEFINE fees == GetExtrinsicFee(told.weight, told.fee, a)
           w == told.weight
           f == told.fee
           x == a.details.weightFee
           y == a.info.weight
           actual == ActualFee(a.details, y, w)
           exact == BasicFee + (x * w) \div y
<1>1. w \in Nat /\ f \in Int /\ x \in Nat /\ y \in Nat /\ a.details.ok \in BOOLEAN /\ a.info.ok \in BOOLEAN
      /\ a.info.partial \in Nat /\ BasicFee \in Nat /\ FeeUnit \in Nat \ {0}
  BY AnswerTypes, FeeAssumption
<1>2. row.fee = fees.fee /\ row.used = fees.used
  OBVIOUS
<1>3. f <= 0 /\ ~a.info.ok => fees = Fees(0, f)
  BY <1>1 DEF GetExtrinsicFee
<1>4. f <= 0 /\ a.info.ok /\ y = 0 => fees = Fees(0, 0)
  BY <1>1 DEF GetExtrinsicFee
<1>5. f < 0 /\ a.info.ok /\ y > 0 /\ w = y => fees = Fees(a.info.partial, a.info.partial)
  BY <1>1 DEF GetExtrinsicFee
<1>6. f < 0 /\ a.info.ok /\ y > 0 /\ w # y =>
        fees = IF a.details.ok THEN Fees(EstimateFee(a.details), actual) ELSE Fees(0, 0)
  BY <1>1 DEF GetExtrinsicFee
<1>7. f > 0 => fees = IF a.details.ok THEN Fees(EstimateFee(a.details), f) ELSE Fees(0, 0)
  BY <1>1 DEF GetExtrinsicFee
<1>8. f > 0 => IF a.details.ok THEN row.used = f ELSE row.fee = 0 /\ row.used = 0
  <2> SUFFICES ASSUME f > 0 PROVE IF a.details.ok THEN row.used = f ELSE row.fee = 0 /\ row.used = 0
    OBVIOUS
  <2> QED
    BY <1>1, <1>2, <1>7 DEF Fees
<1>9. f <= 0 /\ ~a.info.ok => row.fee = 0 /\ row.used = f
  BY <1>1, <1>2, <1>3 DEF Fees
<1>10. a.details.ok /\ a.info.ok => a.info.partial = BasicFee + x
  BY DEF Consistent, EstimateFee
<1>11. y > 0 /\ w < 2 * FeeUnit =>
         /\ w > 0 => actual \in exact - 1 .. exact + 1
         /\ w <= y => actual <= BasicFee + x
  <2> SUFFICES ASSUME y > 0, w < 2 * FeeUnit
               PROVE  /\ w > 0 => actual \in exact - 1 .. exact + 1
                      /\ w <= y => actual <= BasicFee + x
    OBVIOUS
  <2> DEFINE r == (((2 * (x * FeeUnit) + y) \div (2 * y)) * w) \div FeeUnit
             s == (x * w) \div y
  <2>1. r \in Nat /\ s \in Nat /\ s <= r + 1 /\ r <= s + 1 /\ (w <= y => r <= x)
    <3>1. y \in Nat \ {0}
      BY <1>1
    <3> HIDE DEF w, x, y
    <3> QED
      BY <1>1, <3>1, RoundedShare
  <2>2. w = 0 => actual = 0
    BY DEF ActualFee
  <2>3. w > 0 => actual = BasicFee + r
    BY <1>1 DEF ActualFee, Div
  <2>4. exact = BasicFee + s
    OBVIOUS
  <2> HIDE DEF r, s, actual, exact, w, x, y
  <2> QED
    BY <1>1, <2>1, <2>2, <2>3, <2>4
<1>12. y > 0 => (x * y) \div y = x
  <2> SUFFICES ASSUME y > 0 PROVE (x * y) \div y = x
    OBVIOUS
  <2> DEFINE s == (x * y) \div y
  <2> HIDE DEF x, y
  <2>1. x * y \in Nat /\ y \in Nat \ {0}
    BY <1>1
  <2>2. s \in Nat /\ s * y <= x * y /\ x * y < s * y + y
    BY <2>1, QuotientIs
  <2> HIDE DEF s
  <2>3. (x + 1) * y = x * y + y /\ (s + 1) * y = s * y + y /\ x + 1 \in Nat /\ s + 1 \in Nat /\ s * y \in Nat
    BY <1>1, <2>2
  <2>4. x < s + 1
    BY <1>1, <2>1, <2>2, <2>3, Cancelled
  <2>5. s * y < (x + 1) * y
    BY <1>1, <2>1, <2>2, <2>3
  <2>6. s < x + 1
    BY <1>1, <2>1, <2>2, <2>3, <2>5, Cancelled
  <2> QED
    BY <1>1, <2>2, <2>4, <2>6 DEF s
<1>13. ASSUME w < 2 * FeeUnit, f < 0, a.info.ok, y > 0, a.details.ok, w > 0
       PROVE  row.used \in exact - 1 .. exact + 1
  <2>1. CASE w = y
    <3>1. row.used = BasicFee + x
      BY <1>2, <1>5, <1>10, <1>13, <2>1 DEF Fees
    <3>2. exact = BasicFee + x
      BY <1>12, <1>13, <2>1
    <3> HIDE DEF exact, x
    <3> QED
      BY <1>1, <3>1, <3>2
  <2>2. CASE w # y
    <3>1. row.used = actual
      BY <1>2, <1>6, <1>13, <2>2 DEF Fees
    <3> HIDE DEF actual, exact
    <3> QED
      BY <1>11, <1>13, <3>1
  <2> QED
    BY <2>1, <2>2
<1>14. ASSUME w < 2 * FeeUnit, f < 0, w <= y
       PROVE  row.used <= row.fee
  <2>1. CASE ~a.info.ok
    BY <1>1, <1>9, <1>14, <2>1
  <2>2. CASE a.info.ok /\ y = 0
    BY <1>1, <1>2, <1>4, <1>14, <2>2 DEF Fees
  <2>3. CASE a.info.ok /\ y > 0 /\ w = y
    BY <1>1, <1>2, <1>5, <1>14, <2>3 DEF Fees
  <2>4. CASE a.info.ok /\ y > 0 /\ w # y
    <3>1. fees = IF a.details.ok THEN Fees(BasicFee + x, actual) ELSE Fees(0, 0)
      BY <1>6, <1>14, <2>4 DEF EstimateFee
    <3>2. CASE a.details.ok
      <4>1. row.fee = BasicFee + x /\ row.used = actual
        BY <1>2, <3>1, <3>2 DEF Fees
      <4> HIDE DEF actual, fees
      <4> QED
        BY <1>11, <1>14, <2>4, <4>1
    <3>3. CASE ~a.details.ok
      <4>1. row.fee = 0 /\ row.used = 0
        BY <1>2, <3>1, <3>3 DEF Fees
      <4> QED
        BY <4>1
    <3> QED
      BY <1>1, <3>2, <3>3
  <2> QED
    BY <1>1, <2>1, <2>2, <2>3, <2>4
<1> HIDE DEF exact
<1> QED
  BY <1>8, <1>9, <1>13, <1>14 DEF RowExact, exact

LEMMA FeesStep == FeesInv /\ [FeesNext]_feeVars => FeesInv'
<1> SUFFICES ASSUME FeesInv, [FeesNext]_feeVars PROVE FeesInv'
  OBVIOUS
<1>1. CASE UNCHANGED feeVars
  BY <1>1 DEF feeVars, FeesInv
<1>2. CASE createExtrinsic
  <2> DEFINE n == Len(extrinsicRows)
  <2>1. PICK a \in Answers :
          /\ Consistent(a)
          /\ extrinsicRows' = Append(extrinsicRows, Extrinsic(feeBlock[n + 1], a))
          /\ answers' = Append(answers, a)
    BY <1>2 DEF createExtrinsic
  <2>2. n \in Nat /\ n < Len(feeBlock) /\ feeBlock' = feeBlock /\ feeBlock \in Seq(Entry) /\ n = Len(answers)
        /\ Len(feeBlock) \in Nat
    <3>1. feeBlock \in Seq(Entry)
      BY FeeAssumption DEF FeesInv, Entry
    <3>2. n \in Nat /\ n = Len(answers)
      BY DEF FeesInv
    <3> QED
      BY <1>2, <3>1, <3>2 DEF createExtrinsic
  <2>3. feeBlock[n + 1] \in Entry
    BY <2>2
  <2>4. Extrinsic(feeBlock[n + 1], a) \in StoredFees
    BY <2>3 DEF StoredFees
  <2>5. extrinsicRows' \in Seq(StoredFees) /\ Len(extrinsicRows') = n + 1
        /\ (\A i \in 1..n : extrinsicRows'[i] = extrinsicRows[i])
        /\ extrinsicRows'[n + 1] = Extrinsic(feeBlock[n + 1], a)
    BY <2>1, <2>4, AppendProperties DEF FeesInv
  <2>6. answers' \in Seq(Answers) /\ Len(answers') = n + 1
        /\ (\A i \in 1..n : answers'[i] = answers[i]) /\ answers'[n + 1] = a
    BY <2>1, <2>2, AppendProperties DEF FeesInv
  <2>7. ASSUME NEW i \in 1..n + 1
        PROVE  Consistent(answers'[i]) /\ extrinsicRows'[i] = Extrinsic(feeBlock[i], answers'[i])
    <3>1. CASE i = n + 1
      BY <2>1, <2>5, <2>6, <3>1
    <3>2. CASE i \in 1..n
      BY <2>5, <2>6, <3>2 DEF FeesInv
    <3> QED
      BY <2>2, <3>1, <3>2
  <2> HIDE DEF n
  <2>8. \A i \in 1..Len(extrinsicRows') :
          Consistent(answers'[i]) /\ extrinsicRows'[i] = Extrinsic(feeBlock'[i], answers'[i])
    BY <2>2, <2>5, <2>7
  <2>9. feeBlock' \in FeeBlocks
    BY <2>2 DEF FeesInv
  <2>10. Len(answers') = Len(extrinsicRows') /\ Len(extrinsicRows') <= Len(feeBlock')
    BY <2>2, <2>5, <2>6
  <2> QED
    BY <2>5, <2>6, <2>8, <2>9, <2>10 DEF FeesInv, Consistent, Extrinsic
<1> QED
  BY <1>1, <1>2 DEF FeesNext

(* The used fee that is stored is the one the chain took: the event's, or  *)
(* to within 1 the share of the estimate (fee.go); and what the node does  *)
(* not answer leaves what the property says.                               *)
THEOREM FeesAreExact == FeesSpec => []FeesExact
<1>1. FeesInit => FeesInv
  BY FeeAssumption DEF FeesInit, FeesInv
<1>2. FeesInv => FeesExact
  <2> SUFFICES ASSUME FeesInv, NEW i \in DOMAIN extrinsicRows, feeBlock[i].signed
               PROVE  RowExact(CheckoutWeight(feeBlock[i].events), answers[i], extrinsicRows[i])
    BY DEF FeesExact, RowExact
  <2>1. i \in 1..Len(extrinsicRows) /\ i \in 1..Len(feeBlock) /\ i \in 1..Len(answers)
    BY FeeAssumption DEF FeesInv
  <2>2. feeBlock \in Seq(Entry) /\ answers \in Seq(Answers)
    BY FeeAssumption DEF FeesInv, Entry
  <2>3. feeBlock[i] \in Entry /\ answers[i] \in Answers
    BY <2>1, <2>2
  <2>4. Consistent(answers[i]) /\ extrinsicRows[i] = Extrinsic(feeBlock[i], answers[i])
    BY <2>1 DEF FeesInv
  <2> DEFINE told == CheckoutWeight(feeBlock[i].events)
  <2>5. told.weight \in Nat /\ told.fee \in Int
    BY <2>3, ToldTypes
  <2>6. extrinsicRows[i] = [success |-> getExtrinsicSuccess(feeBlock[i].events),
                            fee  |-> GetExtrinsicFee(told.weight, told.fee, answers[i]).fee,
                            used |-> GetExtrinsicFee(told.weight, told.fee, answers[i]).used]
    BY <2>4 DEF Extrinsic
  <2> HIDE DEF told
  <2>7. RowExact(told, answers[i], extrinsicRows[i])
    BY <2>3, <2>4, <2>5, <2>6, FeesOfAnswer
  <2> QED
    BY <2>7 DEF told
<1> QED
  BY <1>1, <1>2, FeesStep, PTL DEF FeesSpec
=============================================================================
