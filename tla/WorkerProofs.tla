---------------------------- MODULE WorkerProofs ----------------------------
(***************************************************************************)
(* Proofs about the smaller parts around the block worker: the tables it   *)
(* makes (SplitTables), the mapping of accounts to tables that it keeps    *)
(* (AccountMapping), its counters beside their recount (ExtrinsicCounts),  *)
(* the command InitAccount and the task pool (TaskPool).  For any number   *)
(* of goroutines, heads, blocks, accounts, tasks, runs of commands and     *)
(* faults, and any size of an index, a page or a pool.                     *)
(***************************************************************************)
EXTENDS TaskPool, SplitTables, AccountMapping, ExtrinsicCounts, InitAccount,
        FiniteSetTheorems, WellFoundedInduction, TLAPS

SplitTablesSpec == SplitTablesInit /\ [][SplitTablesNext]_tableVars

-----------------------------------------------------------------------------
(* Lists of tables, and bags of them.                                      *)

Table  == Nat \X ToSet(Parts)
Places == {"idle", "cache", "lookUp", "create", "setCache", "insert", "max", "next", "commit"}

(* A list is its head and what follows.                                    *)
LEMMA ListParts ==
    ASSUME NEW s \in Seq(Table), s # <<>>
    PROVE  /\ Head(s) \in Table /\ Tail(s) \in Seq(Table)
           /\ ToSet(s) = {Head(s)} \cup ToSet(Tail(s))
           /\ Len(s) = 1 <=> Tail(s) = <<>>
<1>1. Len(s) \in Nat /\ Len(s) >= 1
  OBVIOUS
<1>2. /\ Tail(s) \in Seq(Table) /\ Len(Tail(s)) = Len(s) - 1
      /\ DOMAIN Tail(s) = 1..Len(Tail(s))
      /\ \A i \in 1..Len(Tail(s)) : Tail(s)[i] = s[i + 1]
  BY <1>1
<1>3. Head(s) = s[1] /\ Head(s) \in Table
  BY <1>1
<1>4. ToSet(s) \subseteq {Head(s)} \cup ToSet(Tail(s))
  <2> SUFFICES ASSUME NEW i \in 1..Len(s)
               PROVE  s[i] \in {Head(s)} \cup ToSet(Tail(s))
    BY DEF ToSet
  <2>1. CASE i = 1
    BY <2>1, <1>3
  <2>2. CASE i # 1
    <3>1. i - 1 \in 1..Len(Tail(s)) /\ Tail(s)[i - 1] = s[i]
      BY <2>2, <1>1, <1>2
    <3> QED
      BY <3>1, <1>2 DEF ToSet
  <2> QED
    BY <2>1, <2>2
<1>5. {Head(s)} \cup ToSet(Tail(s)) \subseteq ToSet(s)
  <2>1. Head(s) \in ToSet(s)
    BY <1>1, <1>3 DEF ToSet
  <2>2. ASSUME NEW i \in 1..Len(Tail(s)) PROVE Tail(s)[i] \in ToSet(s)
    <3>1. i + 1 \in 1..Len(s) /\ s[i + 1] = Tail(s)[i]
      BY <1>1, <1>2
    <3> QED
      BY <3>1 DEF ToSet
  <2> QED
    BY <2>1, <2>2, <1>2 DEF ToSet
<1>6. Len(s) = 1 <=> Tail(s) = <<>>
  BY <1>1, <1>2
<1> QED
  BY <1>2, <1>3, <1>4, <1>5, <1>6

(* The four tables of an index are what AddIndex makes.                    *)
LEMMA IndexTables ==
    ASSUME NEW i \in Nat
    PROVE  /\ AddIndex(i) \in Seq(Table) /\ AddIndex(i) # <<>>
           /\ ToSet(AddIndex(i)) = Owed(i)
           /\ Len(AddIndex(i)) = 4
<1>1. /\ DOMAIN Parts = 1..4 /\ ToSet(Parts) = {Parts[k] : k \in 1..4}
      /\ \A k \in 1..4 : Parts[k] \in ToSet(Parts)
  BY DEF Parts, ToSet
<1>2. AddIndex(i) \in Seq(Table) /\ Len(AddIndex(i)) = 4
  BY <1>1 DEF AddIndex, Table
<1>3. AddIndex(i) # <<>>
  BY <1>2
<1>4. ToSet(AddIndex(i)) = {<<i, Parts[k]>> : k \in 1..4}
  BY DEF AddIndex, ToSet
<1> QED
  BY <1>1, <1>2, <1>3, <1>4 DEF Owed

(* The index of a block is the one whose range it is in.                   *)
LEMMA IndexBounds ==
    ASSUME NEW b \in Nat
    PROVE  /\ IndexOf(b) \in Nat
           /\ IndexOf(b) * SplitTableBlockNum <= b
           /\ b < (IndexOf(b) + 1) * SplitTableBlockNum
  BY TablesAssumption DEF IndexOf

(* The background goroutines: one more, and one that goes on.              *)
LEMMA BagGrows ==
    ASSUME NEW B, NEW x
    PROVE  /\ DOMAIN (B (+) SetToBag({x})) = DOMAIN B \cup {x}
           /\ (\A d \in DOMAIN B : B[d] \in Nat \ {0}) =>
                \A d \in DOMAIN (B (+) SetToBag({x})) : (B (+) SetToBag({x}))[d] \in Nat \ {0}
  BY DEF (+), SetToBag

LEMMA BagShrinks ==
    ASSUME NEW B, NEW x \in DOMAIN B, \A d \in DOMAIN B : B[d] \in Nat \ {0}
    PROVE  /\ DOMAIN (B (-) SetToBag({x})) \subseteq DOMAIN B
           /\ DOMAIN B \subseteq DOMAIN (B (-) SetToBag({x})) \cup {x}
           /\ \A d \in DOMAIN (B (-) SetToBag({x})) : (B (-) SetToBag({x}))[d] \in Nat \ {0}
  BY DEF (-), SetToBag

-----------------------------------------------------------------------------
(* What a process that starts is going to make: all tables of every index  *)
(* up to that of the head.                                                 *)
LEMMA MigrationLists ==
    ASSUME head \in Nat
    PROVE  /\ Migration \in [auto : Seq(Table), index : Seq(Table)]
           /\ ToSet(Migration.auto) \subseteq ToSet(Migration.index)
           /\ \A t \in ToSet(Migration.index) : Owed(t[1]) \subseteq ToSet(Migration.index)
<1> DEFINE n == IndexOf(head)
           M == Migration.index
<1>1. n \in Nat
  BY TablesAssumption DEF IndexOf
<1>2. /\ M = [k \in 1..4 * (n + 1) |-> AddIndex((k - 1) \div 4)[((k - 1) % 4) + 1]]
      /\ Migration.auto = AddIndex(n)
  BY DEF Migration
<1>3. ASSUME NEW k \in 1..4 * (n + 1)
      PROVE  /\ (k - 1) \div 4 \in 0..n /\ ((k - 1) % 4) + 1 \in 1..4
             /\ M[k] = <<(k - 1) \div 4, Parts[((k - 1) % 4) + 1]>> /\ M[k] \in Table
  <2>1. (k - 1) \div 4 \in 0..n /\ ((k - 1) % 4) + 1 \in 1..4
    BY <1>1
  <2>2. Parts[((k - 1) % 4) + 1] \in ToSet(Parts)
    BY <2>1 DEF Parts, ToSet
  <2>3. M[k] = <<(k - 1) \div 4, Parts[((k - 1) % 4) + 1]>>
    BY <1>2, <2>1 DEF AddIndex
  <2> QED
    BY <2>1, <2>2, <2>3, <1>1 DEF Table
<1>4. 4 * (n + 1) \in Nat
  BY <1>1
<1>5. M \in Seq(Table) /\ DOMAIN M = 1..4 * (n + 1)
  BY <1>2, <1>3, <1>4
<1>6. ASSUME NEW i \in 0..n PROVE Owed(i) \subseteq ToSet(M)
  <2>1. ASSUME NEW p \in 1..4 PROVE <<i, Parts[p]>> \in ToSet(M)
    <3>1. /\ 4 * i + p \in 1..4 * (n + 1)
          /\ (4 * i + p - 1) \div 4 = i /\ ((4 * i + p - 1) % 4) + 1 = p
      BY <1>1
    <3>2. M[4 * i + p] = <<i, Parts[p]>>
      BY <3>1, <1>3
    <3> QED
      BY <3>1, <3>2, <1>5 DEF ToSet
  <2>2. ToSet(AddIndex(i)) = {<<i, Parts[p]>> : p \in 1..4}
    BY DEF AddIndex, ToSet
  <2>3. i \in Nat
    BY <1>1
  <2>4. ToSet(AddIndex(i)) = Owed(i)
    BY <2>3, IndexTables
  <2> QED
    BY <2>1, <2>2, <2>4
<1>7. ASSUME NEW t \in ToSet(M) PROVE Owed(t[1]) \subseteq ToSet(M)
  <2>1. PICK k \in 1..4 * (n + 1) : t = M[k]
    BY <1>5 DEF ToSet
  <2>2. t[1] \in 0..n
    BY <2>1, <1>3
  <2> QED
    BY <2>2, <1>6
<1>8. Migration.auto \in Seq(Table) /\ ToSet(Migration.auto) \subseteq ToSet(M)
  <2>1. n \in 0..n
    BY <1>1
  <2>2. AddIndex(n) \in Seq(Table) /\ ToSet(AddIndex(n)) = Owed(n)
    BY <1>1, IndexTables
  <2> QED
    BY <2>1, <2>2, <1>2, <1>6
<1> QED
  BY <1>5, <1>7, <1>8 DEF Migration

-----------------------------------------------------------------------------
(* The invariant.  A table that is made is there, or somebody will make    *)
(* it, or its creation failed.                                             *)
Made == tables \cup Pending \cup spoilt

TableTypes ==
    /\ head \in Nat /\ maxTableBlockNum \in Nat
    /\ blockJobs \subseteq {b \in Nat : b + FinalLag <= head}
    /\ storedBlocks \subseteq Nat
    /\ filling \in [TableWorkers -> [at : Places, block : Nat, ddl : Seq(Table), ok : BOOLEAN]]
    /\ \A w \in TableWorkers :
         /\ filling[w].at = "create" <=> filling[w].ddl # <<>>
         /\ filling[w].at = "idle" => filling[w] = Waiting
         /\ filling[w].at # "idle" => filling[w].block + FinalLag <= head
    /\ \A d \in DOMAIN adding : d \in Seq(Table) /\ d # <<>> /\ adding[d] \in Nat \ {0}
    /\ starting \in [auto : Seq(Table), index : Seq(Table)]
    /\ ToSet(starting.auto) \subseteq ToSet(starting.index)

(* No index is made by halves ...                                          *)
Closed == \A t \in Made : Owed(t[1]) \subseteq Made

(* ... a goroutine that has seen to the tables of its block relies on them,*)
(* and so does everybody who looks at the cache ...                        *)
Relied ==
    /\ \A i \in splitBlockTableCache : Owed(i) \subseteq Made
    /\ \A w \in TableWorkers :
         filling[w].at \notin {"idle", "cache", "lookUp"} => Owed(IndexOf(filling[w].block)) \subseteq Made

(* ... the variable was last moved by a block that had seen to its own     *)
(* tables and those of the next index ...                                  *)
Moved ==
    maxTableBlockNum # 0 =>
        \E c \in Nat : /\ maxTableBlockNum = c + SplitTableBlockNum /\ c + FinalLag <= head
                       /\ Owed(IndexOf(c)) \subseteq Made /\ Owed(IndexOf(c) + 1) \subseteq Made

(* ... and so a block that is stored, or about to be, has the next index.  *)
Ahead(b) ==
    head < FinalLag + (IndexOf(b) + 2) * SplitTableBlockNum => Owed(IndexOf(b) + 1) \subseteq Made

NextMade ==
    /\ \A b \in storedBlocks : Ahead(b)
    /\ \A w \in TableWorkers : filling[w].at = "commit" => Ahead(filling[w].block)

TablesInv == TableTypes /\ Closed /\ Relied /\ Moved /\ NextMade

-----------------------------------------------------------------------------
(* What a step makes of the tables that are made.  One CREATE TABLE moves  *)
(* the head of a list, whether or not it works.                            *)
LEMMA OneCreate ==
    ASSUME NEW d \in Seq(Table), d # <<>>, NEW works, AutoMigrate(Head(d), works),
           NEW P, NEW Q, Pending = P \cup ToSet(d), Pending' = P \cup Q,
           ToSet(Tail(d)) \subseteq P \cup Q, Q \subseteq P \cup ToSet(d)
    PROVE  Made' = Made
<1>1. ToSet(d) = {Head(d)} \cup ToSet(Tail(d))
  BY ListParts
<1>2. Head(d) \in Made'
  BY DEF Made, AutoMigrate
<1>3. tables \cup spoilt \subseteq tables' \cup spoilt'
  BY DEF AutoMigrate
<1>4. tables' \cup spoilt' \subseteq tables \cup spoilt \cup {Head(d)}
  BY DEF AutoMigrate
<1> QED
  BY <1>1, <1>2, <1>3, <1>4 DEF Made

Lists(w) == ToSet(filling[w].ddl)
OfOthers(w) == UNION {Lists(v) : v \in TableWorkers \ {w}}
InBackground == UNION {ToSet(d) : d \in DOMAIN adding}
OfStart == ToSet(starting.auto) \cup ToSet(starting.index)

LEMMA PendingOf ==
    ASSUME NEW w \in TableWorkers
    PROVE  /\ Pending = OfOthers(w) \cup Lists(w) \cup InBackground \cup OfStart
           /\ Pending' = OfOthers(w)' \cup Lists(w)' \cup InBackground' \cup OfStart'
<1>1. Pending = OfOthers(w) \cup Lists(w) \cup InBackground \cup OfStart
  BY DEF Pending, Lists, OfOthers, InBackground, OfStart, BagToSet
<1>2. Pending' = OfOthers(w)' \cup Lists(w)' \cup InBackground' \cup OfStart'
  BY DEF Pending, Lists, OfOthers, InBackground, OfStart, BagToSet
<1> QED
  BY <1>1, <1>2

LEMMA CreateStep ==
    ASSUME TableTypes, NEW w \in TableWorkers, NEW works \in BOOLEAN, CreateTable(w, works)
    PROVE  Made' = Made
<1> DEFINE d == filling[w].ddl
<1>1. d \in Seq(Table) /\ d # <<>> /\ AutoMigrate(Head(d), works)
  BY DEF TableTypes, CreateTable
<1>2. /\ filling'[w].ddl = Tail(d)
      /\ \A v \in TableWorkers \ {w} : filling'[v] = filling[v]
      /\ adding' = adding /\ starting' = starting
  BY DEF CreateTable, TableTypes
<1>3. /\ OfOthers(w)' = OfOthers(w) /\ InBackground' = InBackground /\ OfStart' = OfStart
      /\ Lists(w)' = ToSet(Tail(d)) /\ Lists(w) = ToSet(d)
  BY <1>2 DEF OfOthers, Lists, InBackground, OfStart
<1> DEFINE P == OfOthers(w) \cup InBackground \cup OfStart
<1>4. Pending = P \cup ToSet(d) /\ Pending' = P \cup ToSet(Tail(d))
  BY <1>3, PendingOf
<1>5. ToSet(Tail(d)) \subseteq P \cup ToSet(d)
  BY <1>1, ListParts
<1> HIDE DEF P
<1> QED
  BY <1>1, <1>4, <1>5, OneCreate

LEMMA BackgroundStep ==
    ASSUME TableTypes, NEW d \in BagToSet(adding), NEW works \in BOOLEAN,
           AddInBackground(d, works)
    PROVE  /\ Made' = Made
           /\ \A e \in DOMAIN adding' : e \in Seq(Table) /\ e # <<>> /\ adding'[e] \in Nat \ {0}
<1> DEFINE rest == adding (-) SetToBag({d})
           others == UNION {ToSet(e) : e \in DOMAIN adding \ {d}}
           kept   == UNION {ToSet(e) : e \in DOMAIN rest}
           ofFill == UNION {Lists(v) : v \in TableWorkers}
<1>1. d \in DOMAIN adding /\ d \in Seq(Table) /\ d # <<>> /\ AutoMigrate(Head(d), works)
  BY DEF TableTypes, AddInBackground, BagToSet
<1>2. /\ Tail(d) \in Seq(Table) /\ (Len(d) = 1 <=> Tail(d) = <<>>)
      /\ ToSet(d) = {Head(d)} \cup ToSet(Tail(d))
  BY <1>1, ListParts
<1>3. adding' = IF Len(d) = 1 THEN rest ELSE rest (+) SetToBag({Tail(d)})
  BY DEF AddInBackground
<1>4. \A e \in DOMAIN adding : adding[e] \in Nat \ {0}
  BY DEF TableTypes
<1>5. /\ DOMAIN rest \subseteq DOMAIN adding /\ DOMAIN adding \subseteq DOMAIN rest \cup {d}
      /\ \A e \in DOMAIN rest : rest[e] \in Nat \ {0}
  BY <1>1, <1>4, BagShrinks
<1> HIDE DEF rest
<1>6. /\ DOMAIN adding' = DOMAIN rest \cup (IF Len(d) = 1 THEN {} ELSE {Tail(d)})
      /\ \A e \in DOMAIN adding' : adding'[e] \in Nat \ {0}
  BY <1>3, <1>5, BagGrows
<1>7. \A e \in DOMAIN adding' : e \in Seq(Table) /\ e # <<>> /\ adding'[e] \in Nat \ {0}
  BY <1>2, <1>5, <1>6 DEF TableTypes
<1>8. ToSet(<<>>) = {}
  BY DEF ToSet
<1>9. InBackground = others \cup ToSet(d)
  BY <1>1 DEF InBackground
<1>10. InBackground' = kept \cup ToSet(Tail(d))
  <2>1. InBackground' = UNION {ToSet(e) : e \in DOMAIN adding'}
    BY DEF InBackground
  <2>2. CASE Len(d) = 1
    BY <2>1, <2>2, <1>2, <1>6, <1>8
  <2>3. CASE Len(d) # 1
    BY <2>1, <2>3, <1>6
  <2> QED
    BY <2>2, <2>3
<1>11. others \subseteq kept /\ kept \subseteq others \cup ToSet(d)
  BY <1>5
<1>12. UNCHANGED filling /\ UNCHANGED starting
  BY DEF AddInBackground
<1> DEFINE P == ofFill \cup others \cup OfStart
           Q == ToSet(Tail(d)) \cup kept
<1>13. Pending = P \cup ToSet(d) /\ Pending' = P \cup Q
  <2>1. Pending = ofFill \cup InBackground \cup OfStart
    BY DEF Pending, Lists, InBackground, OfStart, BagToSet
  <2>2. Pending' = ofFill \cup InBackground' \cup OfStart
    BY <1>12 DEF Pending, Lists, InBackground, OfStart, BagToSet
  <2> QED
    BY <2>1, <2>2, <1>9, <1>10, <1>11
<1>14. ToSet(Tail(d)) \subseteq P \cup Q /\ Q \subseteq P \cup ToSet(d)
  BY <1>2, <1>11
<1> HIDE DEF P, Q
<1> QED
  BY <1>1, <1>7, <1>13, <1>14, OneCreate

LEMMA MigrateStepMade ==
    ASSUME TableTypes, NEW works \in BOOLEAN, Migrate(works)
    PROVE  /\ Made' = Made
           /\ starting' \in [auto : Seq(Table), index : Seq(Table)]
           /\ ToSet(starting'.auto) \subseteq ToSet(starting'.index)
<1> DEFINE ofFill == UNION {Lists(v) : v \in TableWorkers}
           P == ofFill \cup InBackground
<1>1. UNCHANGED filling /\ UNCHANGED adding
  BY DEF Migrate
<1>2. Pending = P \cup ToSet(starting.auto) \cup ToSet(starting.index)
  BY DEF Pending, Lists, InBackground, BagToSet
<1>3. Pending' = P \cup ToSet(starting'.auto) \cup ToSet(starting'.index)
  BY <1>1 DEF Pending, Lists, InBackground, BagToSet
<1>4. /\ starting \in [auto : Seq(Table), index : Seq(Table)]
      /\ ToSet(starting.auto) \subseteq ToSet(starting.index)
  BY DEF TableTypes
<1>5. ToSet(<<>>) = {}
  BY DEF ToSet
<1> HIDE DEF P
<1>6. CASE starting.auto # <<>>
  <2> DEFINE a == starting.auto
  <2>1. AutoMigrate(Head(a), works) /\ starting' = [starting EXCEPT !.auto = IF works THEN Tail(@) ELSE <<>>]
    BY <1>6 DEF Migrate
  <2>2. a \in Seq(Table) /\ Tail(a) \in Seq(Table) /\ ToSet(a) = {Head(a)} \cup ToSet(Tail(a))
    BY <1>4, <1>6, ListParts
  <2>3. /\ starting'.index = starting.index /\ ToSet(starting'.auto) \subseteq ToSet(a)
        /\ starting' \in [auto : Seq(Table), index : Seq(Table)]
    <3>1. starting'.auto \in {Tail(a), <<>>} /\ starting'.index = starting.index
      BY <2>1, <1>4
    <3>2. starting' = [auto |-> starting'.auto, index |-> starting.index]
      BY <2>1, <1>4
    <3>3. <<>> \in Seq(Table)
      OBVIOUS
    <3>4. starting'.auto \in Seq(Table) /\ starting.index \in Seq(Table)
      BY <3>1, <3>3, <2>2, <1>4
    <3> QED
      BY <3>1, <3>2, <3>4, <2>2, <1>5
  <2> DEFINE R == P \cup ToSet(starting.index)
             Q == ToSet(starting'.auto)
  <2>4. Pending = R \cup ToSet(a) /\ Pending' = R \cup Q
    BY <1>2, <1>3, <2>3
  <2>5. ToSet(Tail(a)) \subseteq R \cup Q /\ Q \subseteq R \cup ToSet(a)
    BY <2>2, <2>3, <1>4
  <2> HIDE DEF R, Q
  <2>6. Made' = Made
    BY <2>1, <2>2, <2>4, <2>5, <1>6, OneCreate
  <2> QED
    BY <2>3, <2>6, <1>4
<1>7. CASE starting.auto = <<>>
  <2> DEFINE d == starting.index
  <2>1. /\ AutoMigrate(Head(d), works) /\ starting' = [starting EXCEPT !.index = Tail(@)]
        /\ d # <<>>
    BY <1>4, <1>7 DEF Migrate, Started
  <2>2. d \in Seq(Table) /\ Tail(d) \in Seq(Table) /\ ToSet(d) = {Head(d)} \cup ToSet(Tail(d))
    BY <1>4, <2>1, ListParts
  <2>3. /\ starting'.index = Tail(d) /\ starting'.auto = <<>>
        /\ starting' \in [auto : Seq(Table), index : Seq(Table)]
    BY <2>1, <2>2, <1>4, <1>7
  <2> DEFINE Q == ToSet(Tail(d))
  <2>4. Pending = P \cup ToSet(d) /\ Pending' = P \cup Q
    BY <1>2, <1>3, <1>5, <1>7, <2>3
  <2>5. ToSet(Tail(d)) \subseteq P \cup Q /\ Q \subseteq P \cup ToSet(d)
    BY <2>2
  <2> HIDE DEF Q
  <2>6. Made' = Made
    BY <2>1, <2>2, <2>4, <2>5, OneCreate
  <2> QED
    BY <2>3, <2>6, <1>5
<1> QED
  BY <1>6, <1>7

(* A goroutine that finds no table adds all four of its index to its list; *)
(* one that finds none of the next index starts a goroutine with them.     *)
LEMMA HasTableStep ==
    ASSUME TableTypes, NEW w \in TableWorkers, HasTable(w)
    PROVE  LET i == IndexOf(filling[w].block)
           IN  /\ i \in Nat
               /\ \/ filling'[w].at = "setCache" /\ Made' = Made /\ <<i, "blocks">> \in Made
                  \/ filling'[w].at = "create" /\ Made' = Made \cup Owed(i)
               /\ filling'[w].ddl \in Seq(Table)
               /\ filling'[w].at = "create" <=> filling'[w].ddl # <<>>
<1> DEFINE i == IndexOf(filling[w].block)
<1>1. i \in Nat
  <2>1. filling[w].block \in Nat
    BY DEF TableTypes
  <2> QED
    BY <2>1, IndexBounds
<1>2. /\ InBackground' = InBackground /\ OfStart' = OfStart /\ OfOthers(w)' = OfOthers(w)
      /\ UNCHANGED <<tables, spoilt>>
  BY DEF HasTable, TableTypes, InBackground, OfStart, OfOthers, Lists
<1>3. filling[w].at = "lookUp" /\ filling[w].ddl = <<>> /\ Lists(w) = {}
  BY DEF HasTable, TableTypes, Lists, ToSet
<1>4. CASE Exists(i, "blocks")
  <2>1. filling'[w].at = "setCache" /\ filling'[w].ddl = <<>>
    BY <1>3, <1>4 DEF HasTable, TableTypes
  <2>2. Lists(w)' = {}
    BY <2>1 DEF Lists, ToSet
  <2>3. Made' = Made
    BY <1>2, <1>3, <2>2, PendingOf DEF Made
  <2> QED
    BY <1>1, <1>4, <2>1, <2>3 DEF Exists, Made
<1>5. CASE ~Exists(i, "blocks")
  <2>1. AddIndex(i) \in Seq(Table) /\ AddIndex(i) # <<>> /\ ToSet(AddIndex(i)) = Owed(i)
    BY <1>1, IndexTables
  <2>2. filling'[w].at = "create" /\ filling'[w].ddl = AddIndex(i)
    BY <1>3, <1>5 DEF HasTable, TableTypes
  <2>3. Lists(w)' = Owed(i)
    BY <2>1, <2>2 DEF Lists
  <2>4. Made' = Made \cup Owed(i)
    BY <1>2, <1>3, <2>3, PendingOf DEF Made
  <2> QED
    BY <1>1, <2>1, <2>2, <2>4
<1> QED
  BY <1>4, <1>5

LEMMA AddNextStep ==
    ASSUME TableTypes, NEW w \in TableWorkers, AddNextIndex(w)
    PROVE  LET i == IndexOf(filling[w].block) + 1
           IN  /\ i \in Nat
               /\ \/ Made' = Made /\ <<i, "blocks">> \in Made
                  \/ Made' = Made \cup Owed(i)
               /\ \A e \in DOMAIN adding' : e \in Seq(Table) /\ e # <<>> /\ adding'[e] \in Nat \ {0}
<1> DEFINE i == IndexOf(filling[w].block) + 1
           ofFill == UNION {Lists(v) : v \in TableWorkers}
<1>1. i \in Nat
  <2>1. filling[w].block \in Nat
    BY DEF TableTypes
  <2> QED
    BY <2>1, IndexBounds
<1>2. UNCHANGED <<tables, spoilt, starting>> /\ OfStart' = OfStart
  BY DEF AddNextIndex, OfStart
<1>3. ofFill' = ofFill
  BY DEF AddNextIndex, TableTypes, Lists
<1>4. Pending = ofFill \cup InBackground \cup OfStart
  BY DEF Pending, Lists, InBackground, OfStart, BagToSet
<1>5. Pending' = ofFill' \cup InBackground' \cup OfStart'
  BY DEF Pending, Lists, InBackground, OfStart, BagToSet
<1> HIDE DEF ofFill
<1>6. CASE Exists(i, "blocks")
  <2>1. adding' = adding
    BY <1>6 DEF AddNextIndex
  <2>2. Made' = Made
    BY <2>1, <1>2, <1>3, <1>4, <1>5 DEF Made, InBackground
  <2> QED
    BY <1>1, <1>6, <2>1, <2>2 DEF Made, Exists, TableTypes
<1>7. CASE ~Exists(i, "blocks")
  <2>1. adding' = adding (+) SetToBag({AddIndex(i)})
    BY <1>7 DEF AddNextIndex
  <2>2. AddIndex(i) \in Seq(Table) /\ AddIndex(i) # <<>> /\ ToSet(AddIndex(i)) = Owed(i)
    BY <1>1, IndexTables
  <2>3. \A e \in DOMAIN adding : e \in Seq(Table) /\ e # <<>> /\ adding[e] \in Nat \ {0}
    BY DEF TableTypes
  <2>4. /\ DOMAIN adding' = DOMAIN adding \cup {AddIndex(i)}
        /\ \A e \in DOMAIN adding' : adding'[e] \in Nat \ {0}
    BY <2>1, <2>3, BagGrows
  <2>5. InBackground' = InBackground \cup Owed(i)
    BY <2>2, <2>4 DEF InBackground
  <2>6. Made' = Made \cup Owed(i)
    BY <2>5, <1>2, <1>3, <1>4, <1>5 DEF Made
  <2> QED
    BY <1>1, <2>2, <2>3, <2>4, <2>6
<1> QED
  BY <1>6, <1>7

(* A process that dies forgets its lists, but has them in mind again.      *)
LEMMA RestartStep ==
    ASSUME TableTypes, ProcessRestarts
    PROVE  Made' = Made \cup ToSet(Migration.index)
<1>1. Pending' = ToSet(Migration.index)
  <2>1. /\ starting' = Migration /\ DOMAIN adding' = {}
        /\ \A v \in TableWorkers : filling'[v].ddl = <<>>
    BY DEF ProcessRestarts, Waiting, EmptyBag, SetToBag
  <2>2. ToSet(<<>>) = {}
    BY DEF ToSet
  <2>3. ToSet(Migration.auto) \subseteq ToSet(Migration.index)
    BY MigrationLists DEF TableTypes
  <2> QED
    BY <2>1, <2>2, <2>3 DEF Pending, BagToSet
<1>2. tables' \cup spoilt' = Made
  BY DEF ProcessRestarts, Made
<1> QED
  BY <1>1, <1>2 DEF Made

(* Every other step leaves them.                                           *)
LEMMA QuietStep ==
    ASSUME TableTypes, UNCHANGED <<tables, adding, starting, spoilt>>,
           \A w \in TableWorkers : filling'[w].ddl = filling[w].ddl
    PROVE  Made' = Made
  BY DEF Made, Pending

(* So a table that is made stays made, and what is made anew is whole.     *)
LEMMA MadeGrows ==
    ASSUME TableTypes, [SplitTablesNext]_tableVars
    PROVE  /\ Made \subseteq Made'
           /\ \A t \in Made' : t \in Made \/ Owed(t[1]) \subseteq Made'
<1>0. ASSUME NEW i \in Nat, NEW t \in Owed(i) PROVE t[1] = i
  BY DEF Owed
<1>1. ASSUME NEW w \in TableWorkers, FillStep(w)
      PROVE  Made' = Made \/ \E i \in Nat : Made' = Made \cup Owed(i)
  <2>1. CASE ReadTableCache(w) \/ SetTableCache(w) \/ ReadMaxTable(w)
    <3>1. /\ UNCHANGED <<tables, adding, starting, spoilt>>
          /\ \E p \in Places : filling' = [filling EXCEPT ![w].at = p]
      BY <2>1 DEF ReadTableCache, SetTableCache, ReadMaxTable, Places
    <3>2. \A v \in TableWorkers : filling'[v].ddl = filling[v].ddl
      BY <3>1 DEF TableTypes
    <3> QED
      BY <3>1, <3>2, QuietStep
  <2>2. CASE HasTable(w)
    BY <2>2, HasTableStep
  <2>3. CASE \E works \in BOOLEAN : CreateTable(w, works)
    BY <2>3, CreateStep
  <2>4. CASE InsertRows(w) \/ EndFill(w)
    <3>1. filling[w].ddl = <<>> /\ Waiting.ddl = <<>>
      BY <2>4 DEF InsertRows, EndFill, TableTypes, Waiting
    <3>2. UNCHANGED <<tables, adding, starting, spoilt>>
      BY <2>4 DEF InsertRows, EndFill
    <3>3. filling \in [TableWorkers -> [at : Places, block : Nat, ddl : Seq(Table), ok : BOOLEAN]]
      BY DEF TableTypes
    <3>4. \A v \in TableWorkers : filling'[v].ddl = filling[v].ddl
      <4>1. CASE InsertRows(w)
        BY <3>1, <3>3, <4>1 DEF InsertRows
      <4>2. CASE EndFill(w)
        BY <3>1, <3>3, <4>2 DEF EndFill
      <4> QED
        BY <2>4, <4>1, <4>2
    <3> QED
      BY <3>2, <3>4, QuietStep
  <2>5. CASE AddNextIndex(w)
    BY <2>5, AddNextStep
  <2> QED
    BY <1>1, <2>1, <2>2, <2>3, <2>4, <2>5 DEF FillStep
<1>2. ASSUME NEW w \in TableWorkers, NEW b \in blockJobs, TakeBlock(w, b)
      PROVE  Made' = Made
  <2>1. filling[w].ddl = <<>>
    BY <1>2 DEF TakeBlock, TableTypes
  <2>2. /\ UNCHANGED <<tables, adding, starting, spoilt>>
        /\ \A v \in TableWorkers : filling'[v].ddl = filling[v].ddl
    BY <1>2, <2>1 DEF TakeBlock, TableTypes, Waiting
  <2> QED
    BY <2>2, QuietStep
<1>3. ASSUME AddStep \/ MigrateStep PROVE Made' = Made
  BY <1>3, BackgroundStep, MigrateStepMade DEF AddStep, MigrateStep
<1>4. ASSUME AnnounceHead \/ UNCHANGED tableVars PROVE Made' = Made
  BY <1>4, QuietStep DEF AnnounceHead, tableVars
<1>5. CASE ProcessRestarts
  <2>1. Made' = Made \cup ToSet(Migration.index)
    BY <1>5, RestartStep
  <2>2. \A t \in ToSet(Migration.index) : Owed(t[1]) \subseteq ToSet(Migration.index)
    BY MigrationLists DEF TableTypes
  <2> QED
    BY <2>1, <2>2
<1> QED
  <2>1. CASE ProcessRestarts
    BY <2>1, <1>5
  <2>2. CASE ~ProcessRestarts
    <3>1. Made' = Made \/ \E i \in Nat : Made' = Made \cup Owed(i)
      BY <2>2, <1>1, <1>2, <1>3, <1>4 DEF SplitTablesNext
    <3>2. CASE Made' = Made
      BY <3>2
    <3>3. ASSUME NEW i \in Nat, Made' = Made \cup Owed(i)
          PROVE  Made \subseteq Made' /\ \A t \in Made' : t \in Made \/ Owed(t[1]) \subseteq Made'
      BY <3>3, <1>0
    <3> QED
      BY <3>1, <3>2, <3>3
  <2> QED
    BY <2>1, <2>2

(* One goroutine moves on, to a state that the types allow.                *)
LEMMA FillingTypes ==
    ASSUME TableTypes, NEW w \in TableWorkers,
           NEW s \in [at : Places, block : Nat, ddl : Seq(Table), ok : BOOLEAN],
           filling' = [filling EXCEPT ![w] = s],
           s.at = "create" <=> s.ddl # <<>>,
           s.at = "idle" => s = Waiting,
           s.at # "idle" => s.block + FinalLag <= head,
           UNCHANGED <<head, starting>>,
           maxTableBlockNum' \in Nat, storedBlocks' \subseteq Nat,
           blockJobs' \subseteq {b \in Nat : b + FinalLag <= head},
           \A d \in DOMAIN adding' : d \in Seq(Table) /\ d # <<>> /\ adding'[d] \in Nat \ {0}
    PROVE  TableTypes'
  BY DEF TableTypes

LEMMA TypesStep ==
    ASSUME TableTypes, [SplitTablesNext]_tableVars
    PROVE  TableTypes'
<1>0. /\ \A v \in TableWorkers : /\ filling[v] \in [at : Places, block : Nat, ddl : Seq(Table), ok : BOOLEAN]
                                 /\ filling[v].at = "create" <=> filling[v].ddl # <<>>
                                 /\ filling[v].at # "idle" => filling[v].block + FinalLag <= head
      /\ Waiting \in [at : Places, block : Nat, ddl : Seq(Table), ok : BOOLEAN]
      /\ Waiting.at = "idle" /\ Waiting.ddl = <<>>
  BY DEF TableTypes, Waiting, Places
<1>00. /\ maxTableBlockNum \in Nat /\ storedBlocks \subseteq Nat
       /\ blockJobs \subseteq {b \in Nat : b + FinalLag <= head}
       /\ \A d \in DOMAIN adding : d \in Seq(Table) /\ d # <<>> /\ adding[d] \in Nat \ {0}
  BY DEF TableTypes
<1> DEFINE State == [at : Places, block : Nat, ddl : Seq(Table), ok : BOOLEAN]
<1>1. ASSUME NEW w \in TableWorkers, FillStep(w) PROVE TableTypes'
  <2> DEFINE f == filling[w]
  <2>0. /\ f \in State /\ f.at # "idle"
        /\ f.block \in Nat /\ f.block + FinalLag <= head
        /\ f.at # "create" => f.ddl = <<>>
    <3>1. f.at # "idle"
      BY <1>1 DEF FillStep, ReadTableCache, HasTable, SetTableCache, InsertRows, ReadMaxTable,
                  AddNextIndex, EndFill, CreateTable
    <3> QED
      BY <3>1, <1>0
  <2>00. UNCHANGED <<head, starting>>
    BY <1>1 DEF FillStep, ReadTableCache, HasTable, SetTableCache, InsertRows, ReadMaxTable,
                AddNextIndex, EndFill, CreateTable
  <2>1. CASE ReadTableCache(w) \/ SetTableCache(w) \/ ReadMaxTable(w)
    <3>1. PICK p \in Places \ {"idle", "create"} : filling' = [filling EXCEPT ![w].at = p]
      BY <2>1 DEF ReadTableCache, SetTableCache, ReadMaxTable, Places
    <3>2. f.ddl = <<>> /\ UNCHANGED <<maxTableBlockNum, storedBlocks, blockJobs, adding>>
      BY <2>0, <2>1 DEF ReadTableCache, SetTableCache, ReadMaxTable
    <3> DEFINE s == [f EXCEPT !.at = p]
    <3>3. s \in State /\ s.at = p /\ s.ddl = <<>> /\ s.block = f.block
      BY <2>0, <3>2
    <3>4. filling' = [filling EXCEPT ![w] = s]
      BY <3>1
    <3> HIDE DEF s
    <3> QED
      BY <2>0, <2>00, <3>2, <3>3, <3>4, <1>00, FillingTypes
  <2>2. CASE HasTable(w)
    <3>1. /\ filling'[w].ddl \in Seq(Table) /\ filling'[w].at \in {"setCache", "create"}
          /\ filling'[w].at = "create" <=> filling'[w].ddl # <<>>
      BY <2>2, HasTableStep
    <3>2. UNCHANGED <<maxTableBlockNum, storedBlocks, blockJobs, adding>>
      BY <2>2 DEF HasTable
    <3>3. /\ filling'[w] = [f EXCEPT !.at = filling'[w].at, !.ddl = filling'[w].ddl]
          /\ filling' = [filling EXCEPT ![w] = filling'[w]]
      BY <2>2 DEF HasTable, TableTypes
    <3> DEFINE s == filling'[w]
    <3>4. s \in State /\ s.block = f.block
      <4>1. filling'[w].at \in Places
        BY <3>1 DEF Places
      <4> QED
        BY <2>0, <3>1, <3>3, <4>1
    <3>5. /\ s.ddl \in Seq(Table) /\ s.at \in {"setCache", "create"}
          /\ s.at = "create" <=> s.ddl # <<>>
          /\ filling' = [filling EXCEPT ![w] = s]
      BY <3>1, <3>3
    <3> HIDE DEF s
    <3> QED
      BY <2>0, <2>00, <3>2, <3>4, <3>5, <1>00, FillingTypes
  <2>3. ASSUME NEW works \in BOOLEAN, CreateTable(w, works) PROVE TableTypes'
    <3>1. Tail(f.ddl) \in Seq(Table)
      BY <2>0, <2>3, <1>0, ListParts DEF CreateTable
    <3> DEFINE s == [f EXCEPT !.ddl = Tail(f.ddl), !.at = IF Tail(f.ddl) = <<>> THEN "setCache" ELSE "create"]
    <3>2. filling' = [filling EXCEPT ![w] = s]
      BY <2>3 DEF CreateTable
    <3>3. /\ s \in State /\ s.block = f.block /\ s.at # "idle"
          /\ s.at = "create" <=> s.ddl # <<>>
      BY <2>0, <3>1 DEF Places
    <3>4. UNCHANGED <<maxTableBlockNum, storedBlocks, blockJobs, adding>>
      BY <2>3 DEF CreateTable
    <3> HIDE DEF s
    <3> QED
      BY <2>0, <2>00, <3>2, <3>3, <3>4, <1>00, FillingTypes
  <2>4. CASE InsertRows(w)
    <3>1. f.ddl = <<>>
      BY <2>0, <2>4 DEF InsertRows
    <3>2. UNCHANGED <<maxTableBlockNum, storedBlocks, adding>>
      BY <2>4 DEF InsertRows
    <3>3. CASE filling' = [filling EXCEPT ![w] = Waiting] /\ blockJobs' = blockJobs \cup {f.block}
      BY <2>0, <2>00, <3>2, <3>3, <1>0, <1>00, FillingTypes
    <3>4. ASSUME NEW o \in BOOLEAN, filling' = [filling EXCEPT ![w].at = "max", ![w].ok = o], UNCHANGED blockJobs
          PROVE  TableTypes'
      <4> DEFINE s == [f EXCEPT !.at = "max", !.ok = o]
      <4>0. UNCHANGED blockJobs
        BY <3>4
      <4>1. filling' = [filling EXCEPT ![w] = s]
        BY <3>4
      <4>2. s \in State /\ s.block = f.block /\ s.at = "max" /\ s.ddl = <<>>
        BY <2>0, <3>1 DEF Places
      <4> HIDE DEF s
      <4> QED
        BY <2>0, <2>00, <3>2, <4>0, <4>1, <4>2, <1>00, FillingTypes
    <3> DEFINE all == \A part \in ToSet(Parts) \ {"blocks"} : Exists(IndexOf(f.block), part)
               o == Exists(IndexOf(f.block), "blocks")
    <3>5. o \in BOOLEAN
      BY DEF Exists
    <3>6. IF all THEN filling' = [filling EXCEPT ![w].at = "max", ![w].ok = o] /\ UNCHANGED blockJobs
          ELSE filling' = [filling EXCEPT ![w] = Waiting] /\ blockJobs' = blockJobs \cup {f.block}
      BY <2>4 DEF InsertRows
    <3> HIDE DEF all, o
    <3> QED
      BY <3>3, <3>4, <3>5, <3>6
  <2>5. CASE AddNextIndex(w)
    <3> DEFINE s == [f EXCEPT !.at = "commit"]
    <3>1. filling' = [filling EXCEPT ![w] = s]
      BY <2>5 DEF AddNextIndex
    <3>2. s \in State /\ s.block = f.block /\ s.at = "commit" /\ s.ddl = <<>>
      BY <2>0, <2>5 DEF Places, AddNextIndex
    <3>3. UNCHANGED <<storedBlocks, blockJobs>> /\ maxTableBlockNum' \in Nat
      BY <2>0, <2>5, TablesAssumption DEF AddNextIndex
    <3>4. \A d \in DOMAIN adding' : d \in Seq(Table) /\ d # <<>> /\ adding'[d] \in Nat \ {0}
      BY <2>5, AddNextStep
    <3> HIDE DEF s
    <3> QED
      BY <2>0, <2>00, <3>1, <3>2, <3>3, <3>4, <1>00, FillingTypes
  <2>6. CASE EndFill(w)
    <3>1. filling' = [filling EXCEPT ![w] = Waiting] /\ UNCHANGED <<maxTableBlockNum, adding>>
      BY <2>6 DEF EndFill
    <3>2. storedBlocks' \subseteq storedBlocks \cup {f.block} /\ blockJobs' \subseteq blockJobs \cup {f.block}
      BY <2>6 DEF EndFill
    <3> QED
      BY <2>0, <2>00, <3>1, <3>2, <1>0, <1>00, FillingTypes
  <2> QED
    BY <1>1, <2>1, <2>2, <2>3, <2>4, <2>5, <2>6 DEF FillStep
<1>2. ASSUME NEW w \in TableWorkers, NEW b \in blockJobs, TakeBlock(w, b) PROVE TableTypes'
  <2> DEFINE s == [Waiting EXCEPT !.at = "cache", !.block = b]
  <2>1. filling' = [filling EXCEPT ![w] = s] /\ blockJobs' = blockJobs \ {b}
    BY <1>2 DEF TakeBlock
  <2>2. b \in Nat /\ b + FinalLag <= head
    BY DEF TableTypes
  <2>3. s \in State /\ s.at = "cache" /\ s.block = b /\ s.ddl = <<>>
    BY <2>2, <1>0 DEF Waiting, Places
  <2>4. UNCHANGED <<head, starting, maxTableBlockNum, storedBlocks, adding>>
    BY <1>2 DEF TakeBlock
  <2> HIDE DEF s
  <2> QED
    BY <2>1, <2>2, <2>3, <2>4, <1>00, FillingTypes
<1>3. ASSUME AddStep PROVE TableTypes'
  <2>1. PICK d \in BagToSet(adding), works \in BOOLEAN : AddInBackground(d, works)
    BY <1>3 DEF AddStep
  <2>2. \A e \in DOMAIN adding' : e \in Seq(Table) /\ e # <<>> /\ adding'[e] \in Nat \ {0}
    BY <2>1, BackgroundStep
  <2>3. UNCHANGED <<head, blockJobs, filling, maxTableBlockNum, starting, storedBlocks>>
    BY <2>1 DEF AddInBackground
  <2> QED
    BY <2>2, <2>3 DEF TableTypes
<1>4. ASSUME MigrateStep PROVE TableTypes'
  <2>1. PICK works \in BOOLEAN : Migrate(works)
    BY <1>4 DEF MigrateStep
  <2>2. /\ starting' \in [auto : Seq(Table), index : Seq(Table)]
        /\ ToSet(starting'.auto) \subseteq ToSet(starting'.index)
    BY <2>1, MigrateStepMade
  <2>3. UNCHANGED <<head, blockJobs, filling, maxTableBlockNum, adding, storedBlocks>>
    BY <2>1 DEF Migrate
  <2> QED
    BY <2>2, <2>3 DEF TableTypes
<1>5. ASSUME AnnounceHead PROVE TableTypes'
  <2>1. head \in Nat /\ head' = head + 1 /\ head' \in Nat
    BY <1>5 DEF AnnounceHead, TableTypes
  <2>2. UNCHANGED <<filling, adding, starting, maxTableBlockNum, storedBlocks>>
    BY <1>5 DEF AnnounceHead
  <2>3. blockJobs' \subseteq {b \in Nat : b + FinalLag <= head'}
    <3>1. blockJobs \subseteq {b \in Nat : b + FinalLag <= head'}
      BY <2>1, TablesAssumption DEF TableTypes
    <3>2. CASE head' < FinalLag
      BY <1>5, <3>1, <3>2 DEF AnnounceHead
    <3>3. CASE ~(head' < FinalLag)
      <4>1. head' - FinalLag \in Nat /\ (head' - FinalLag) + FinalLag <= head'
        BY <2>1, <3>3, TablesAssumption
      <4>2. blockJobs' = blockJobs \cup {head' - FinalLag}
        BY <1>5, <3>3 DEF AnnounceHead
      <4> QED
        BY <3>1, <4>1, <4>2
    <3> QED
      BY <3>2, <3>3
  <2>4. ASSUME NEW v \in TableWorkers, filling[v].at # "idle" PROVE filling[v].block + FinalLag <= head'
    BY <2>1, <2>4, <1>0, TablesAssumption
  <2> QED
    BY <2>1, <2>2, <2>3, <2>4 DEF TableTypes
<1>6. ASSUME ProcessRestarts PROVE TableTypes'
  <2>1. /\ filling' = [v \in TableWorkers |-> Waiting] /\ DOMAIN adding' = {}
        /\ maxTableBlockNum' = 0 /\ starting' = Migration
        /\ UNCHANGED <<head, storedBlocks>>
        /\ blockJobs' = blockJobs \cup {filling[v].block : v \in {u \in TableWorkers : filling[u] # Waiting}}
    BY <1>6 DEF ProcessRestarts, EmptyBag, SetToBag
  <2>2. \A v \in TableWorkers : filling[v] # Waiting => filling[v].at # "idle"
    BY DEF TableTypes
  <2>3. \A v \in TableWorkers : filling[v] # Waiting => filling[v].block \in {b \in Nat : b + FinalLag <= head}
    BY <2>2, <1>0
  <2>5. blockJobs' \subseteq {b \in Nat : b + FinalLag <= head}
    BY <2>1, <2>3, <1>00
  <2>4. /\ Migration \in [auto : Seq(Table), index : Seq(Table)]
        /\ ToSet(Migration.auto) \subseteq ToSet(Migration.index)
    BY MigrationLists DEF TableTypes
  <2> HIDE DEF State
  <2> QED
    BY <2>1, <2>4, <2>5, <1>0, <1>00 DEF TableTypes
<1>7. ASSUME UNCHANGED tableVars PROVE TableTypes'
  BY <1>7 DEF TableTypes, tableVars
<1> QED
  BY <1>1, <1>2, <1>3, <1>4, <1>5, <1>6, <1>7 DEF SplitTablesNext

(* A block that is not behind another one, and not two indices ahead of    *)
(* it, has the same index or the next.                                     *)
LEMMA LessIndex ==
    ASSUME NEW x \in Nat, NEW y \in Nat, x * SplitTableBlockNum < y * SplitTableBlockNum
    PROVE  x < y
<1>1. SplitTableBlockNum \in Nat
  BY TablesAssumption
<1>2. ASSUME y <= x PROVE y * SplitTableBlockNum <= x * SplitTableBlockNum
  BY <1>1, <1>2
<1> DEFINE p == x * SplitTableBlockNum
           q == y * SplitTableBlockNum
<1>3. p \in Nat /\ q \in Nat
  BY <1>1
<1>4. p < q /\ (y <= x => q <= p)
  BY <1>2
<1> HIDE DEF p, q
<1> QED
  BY <1>3, <1>4

LEMMA SameOrNext ==
    ASSUME NEW b \in Nat, NEW c \in Nat, b <= c, c < (IndexOf(b) + 2) * SplitTableBlockNum
    PROVE  IndexOf(c) \in {IndexOf(b), IndexOf(b) + 1}
<1> DEFINE i == IndexOf(b)
           j == IndexOf(c)
<1>1. /\ i \in Nat /\ i * SplitTableBlockNum <= b
      /\ j \in Nat /\ j * SplitTableBlockNum <= c /\ c < (j + 1) * SplitTableBlockNum
  BY IndexBounds
<1>2. /\ i * SplitTableBlockNum \in Nat /\ j * SplitTableBlockNum \in Nat
      /\ (j + 1) * SplitTableBlockNum \in Nat /\ (i + 2) * SplitTableBlockNum \in Nat
  BY <1>1, TablesAssumption
<1> HIDE DEF i, j
<1> DEFINE is == i * SplitTableBlockNum
           js == j * SplitTableBlockNum
           nj == (j + 1) * SplitTableBlockNum
           ni == (i + 2) * SplitTableBlockNum
<1>3. is < nj /\ js < ni
  <2>1. c < ni /\ is <= b /\ js <= c /\ c < nj /\ is \in Nat /\ js \in Nat /\ nj \in Nat /\ ni \in Nat
    BY <1>1, <1>2 DEF i
  <2> HIDE DEF is, js, nj, ni
  <2> QED
    BY <2>1
<1>4. i < j + 1 /\ j < i + 2
  <2>1. j + 1 \in Nat /\ i + 2 \in Nat
    BY <1>1
  <2> QED
    BY <1>1, <1>3, <2>1, LessIndex
<1> QED
  BY <1>1, <1>4 DEF i, j

LEMMA ClosedStep ==
    ASSUME TableTypes, Closed, [SplitTablesNext]_tableVars
    PROVE  Closed'
<1>1. /\ Made \subseteq Made'
      /\ \A t \in Made' : t \in Made \/ Owed(t[1]) \subseteq Made'
  BY MadeGrows
<1>2. \A t \in Made : Owed(t[1]) \subseteq Made
  BY DEF Closed
<1>3. \A t \in Made' : Owed(t[1]) \subseteq Made'
  BY <1>1, <1>2
<1> QED
  BY <1>3 DEF Closed

LEMMA ReliedStep ==
    ASSUME TableTypes, Closed, Relied, [SplitTablesNext]_tableVars
    PROVE  Relied'
<1>1. /\ Made \subseteq Made' /\ \A t \in Made' : Owed(t[1]) \subseteq Made'
  BY MadeGrows, ClosedStep DEF Closed
<1> DEFINE Before == {"idle", "cache", "lookUp"}
           Seen(w) == filling[w].at \notin Before
<1>2. /\ \A i \in splitBlockTableCache : Owed(i) \subseteq Made'
      /\ \A v \in TableWorkers : Seen(v) => Owed(IndexOf(filling[v].block)) \subseteq Made'
  BY <1>1 DEF Relied
<1> DEFINE Goal == /\ \A i \in splitBlockTableCache' : Owed(i) \subseteq Made'
                   /\ \A v \in TableWorkers :
                        filling'[v].at \notin Before => Owed(IndexOf(filling'[v].block)) \subseteq Made'
<1>3. SUFFICES Goal
  BY DEF Relied
<1>4. ASSUME NEW w \in TableWorkers, FillStep(w) PROVE Goal
  <2>1. CASE ReadTableCache(w)
    <3>1. filling'[w].at \notin Before => splitBlockTableCache = {IndexOf(filling[w].block)}
      BY <2>1 DEF ReadTableCache, TableTypes
    <3>2. /\ filling'[w].block = filling[w].block /\ UNCHANGED splitBlockTableCache
          /\ \A v \in TableWorkers \ {w} : filling'[v] = filling[v]
      BY <2>1 DEF ReadTableCache, TableTypes
    <3> QED
      BY <3>1, <3>2, <1>2
  <2>2. CASE HasTable(w)
    <3> DEFINE i == IndexOf(filling[w].block)
    <3>1. Owed(i) \subseteq Made'
      <4>1. <<i, "blocks">> \in Made' \/ Made' = Made \cup Owed(i)
        BY <2>2, HasTableStep
      <4>2. <<i, "blocks">>[1] = i
        OBVIOUS
      <4> QED
        BY <4>1, <4>2, <1>1
    <3>2. /\ filling'[w].block = filling[w].block /\ UNCHANGED splitBlockTableCache
          /\ \A v \in TableWorkers \ {w} : filling'[v] = filling[v]
      BY <2>2 DEF HasTable, TableTypes
    <3> QED
      BY <3>1, <3>2, <1>2
  <2>3. CASE SetTableCache(w)
    <3>1. /\ Seen(w) /\ splitBlockTableCache' = {IndexOf(filling[w].block)}
          /\ filling'[w].block = filling[w].block
          /\ \A v \in TableWorkers \ {w} : filling'[v] = filling[v]
      BY <2>3 DEF SetTableCache, TableTypes
    <3> QED
      BY <3>1, <1>2
  <2>4. CASE InsertRows(w) \/ EndFill(w)
    <3>1. /\ Seen(w) /\ UNCHANGED splitBlockTableCache
          /\ filling'[w].at \notin Before => filling'[w].block = filling[w].block
          /\ \A v \in TableWorkers \ {w} : filling'[v] = filling[v]
      BY <2>4 DEF InsertRows, EndFill, TableTypes, Waiting
    <3> QED
      BY <3>1, <1>2
  <2>5. CASE ReadMaxTable(w) \/ AddNextIndex(w) \/ \E works \in BOOLEAN : CreateTable(w, works)
    <3>1. /\ Seen(w) /\ UNCHANGED splitBlockTableCache
          /\ filling'[w].block = filling[w].block
          /\ \A v \in TableWorkers \ {w} : filling'[v] = filling[v]
      BY <2>5 DEF ReadMaxTable, AddNextIndex, CreateTable, TableTypes
    <3> QED
      BY <3>1, <1>2
  <2> QED
    BY <1>4, <2>1, <2>2, <2>3, <2>4, <2>5 DEF FillStep
<1>5. ASSUME NEW w \in TableWorkers, NEW b \in blockJobs, TakeBlock(w, b) PROVE Goal
  <2>1. /\ filling'[w].at = "cache" /\ UNCHANGED splitBlockTableCache
        /\ \A v \in TableWorkers \ {w} : filling'[v] = filling[v]
    BY <1>5 DEF TakeBlock, TableTypes, Waiting
  <2> QED
    BY <2>1, <1>2
<1>6. ASSUME AnnounceHead \/ AddStep \/ MigrateStep \/ UNCHANGED tableVars PROVE Goal
  <2>1. UNCHANGED <<filling, splitBlockTableCache>>
    BY <1>6 DEF AnnounceHead, AddStep, AddInBackground, MigrateStep, Migrate, tableVars
  <2> QED
    BY <2>1, <1>2
<1>7. ASSUME ProcessRestarts PROVE Goal
  <2>1. UNCHANGED splitBlockTableCache /\ \A v \in TableWorkers : filling'[v].at = "idle"
    BY <1>7 DEF ProcessRestarts, Waiting
  <2> QED
    BY <2>1, <1>2
<1> HIDE DEF Goal
<1> QED
  BY <1>4, <1>5, <1>6, <1>7 DEF SplitTablesNext

(* A fill that adds the next index has it, and its own, when it is done.   *)
LEMMA AddNextMakes ==
    ASSUME TableTypes, Closed, Relied, NEW w \in TableWorkers, AddNextIndex(w)
    PROVE  LET c == filling[w].block
           IN  /\ c \in Nat /\ c + FinalLag <= head
               /\ Owed(IndexOf(c)) \subseteq Made' /\ Owed(IndexOf(c) + 1) \subseteq Made'
<1> DEFINE c == filling[w].block
           i == IndexOf(c) + 1
<1>1. c \in Nat /\ c + FinalLag <= head /\ filling[w].at = "next"
  BY DEF AddNextIndex, TableTypes
<1>2. [SplitTablesNext]_tableVars
  BY DEF SplitTablesNext, FillStep
<1>3. /\ Made \subseteq Made' /\ \A t \in Made' : Owed(t[1]) \subseteq Made'
  BY <1>2, MadeGrows, ClosedStep DEF Closed
<1>4. Owed(IndexOf(c)) \subseteq Made'
  BY <1>1, <1>3 DEF Relied
<1>5. <<i, "blocks">> \in Made' \/ Made' = Made \cup Owed(i)
  BY <1>3, AddNextStep
<1>6. <<i, "blocks">>[1] = i
  OBVIOUS
<1>7. Owed(i) \subseteq Made'
  BY <1>3, <1>5, <1>6
<1> QED
  BY <1>1, <1>4, <1>7

LEMMA MovedStep ==
    ASSUME TableTypes, Closed, Relied, Moved, [SplitTablesNext]_tableVars
    PROVE  Moved'
<1>1. Made \subseteq Made' /\ head \in Nat /\ head' \in Nat /\ head <= head'
  <2>1. head' \in {head, head + 1}
    BY DEF SplitTablesNext, FillStep, ReadTableCache, HasTable, SetTableCache, InsertRows, ReadMaxTable,
           AddNextIndex, EndFill, CreateTable, TakeBlock, AnnounceHead, AddStep, AddInBackground,
           MigrateStep, Migrate, ProcessRestarts, tableVars
  <2>2. head \in Nat
    BY DEF TableTypes
  <2> QED
    BY <2>1, <2>2, MadeGrows
<1>2. ASSUME UNCHANGED maxTableBlockNum PROVE Moved'
  <2>1. SUFFICES ASSUME maxTableBlockNum # 0
                 PROVE  \E c \in Nat : /\ maxTableBlockNum = c + SplitTableBlockNum /\ c + FinalLag <= head'
                                       /\ Owed(IndexOf(c)) \subseteq Made' /\ Owed(IndexOf(c) + 1) \subseteq Made'
    BY <1>2 DEF Moved
  <2>2. PICK c \in Nat : /\ maxTableBlockNum = c + SplitTableBlockNum /\ c + FinalLag <= head
                         /\ Owed(IndexOf(c)) \subseteq Made /\ Owed(IndexOf(c) + 1) \subseteq Made
    BY <2>1 DEF Moved
  <2>3. c + FinalLag <= head'
    BY <1>1, <2>2, TablesAssumption
  <2> QED
    BY <1>1, <2>2, <2>3
<1>3. ASSUME NEW w \in TableWorkers, AddNextIndex(w) PROVE Moved'
  <2> DEFINE c == filling[w].block
  <2>1. /\ c \in Nat /\ c + FinalLag <= head
        /\ Owed(IndexOf(c)) \subseteq Made' /\ Owed(IndexOf(c) + 1) \subseteq Made'
    BY <1>3, AddNextMakes
  <2>2. maxTableBlockNum' = c + SplitTableBlockNum /\ UNCHANGED head
    BY <1>3 DEF AddNextIndex
  <2> HIDE DEF c
  <2> QED
    BY <2>1, <2>2 DEF Moved
<1>4. ASSUME ProcessRestarts PROVE Moved'
  <2>1. maxTableBlockNum' = 0
    BY <1>4 DEF ProcessRestarts
  <2> QED
    BY <2>1 DEF Moved
<1>5. \/ UNCHANGED maxTableBlockNum \/ ProcessRestarts
      \/ \E w \in TableWorkers : AddNextIndex(w)
  BY DEF SplitTablesNext, FillStep, ReadTableCache, HasTable, SetTableCache, InsertRows, ReadMaxTable,
         EndFill, CreateTable, TakeBlock, AnnounceHead, AddStep, AddInBackground, MigrateStep, Migrate, tableVars
<1> QED
  BY <1>2, <1>3, <1>4, <1>5

LEMMA NextMadeStep ==
    ASSUME TableTypes, Closed, Relied, Moved, NextMade, [SplitTablesNext]_tableVars
    PROVE  NextMade'
<1>1. Made \subseteq Made' /\ head \in Nat /\ head' \in Nat /\ head <= head'
  <2>1. head' \in {head, head + 1}
    BY DEF SplitTablesNext, FillStep, ReadTableCache, HasTable, SetTableCache, InsertRows, ReadMaxTable,
           AddNextIndex, EndFill, CreateTable, TakeBlock, AnnounceHead, AddStep, AddInBackground,
           MigrateStep, Migrate, ProcessRestarts, tableVars
  <2>2. head \in Nat
    BY DEF TableTypes
  <2> QED
    BY <2>1, <2>2, MadeGrows
<1> DEFINE Later(b) == head' < FinalLag + (IndexOf(b) + 2) * SplitTableBlockNum => Owed(IndexOf(b) + 1) \subseteq Made'
           Goal == /\ \A b \in storedBlocks' : Later(b)
                   /\ \A v \in TableWorkers : filling'[v].at = "commit" => Later(filling'[v].block)
<1>2. ASSUME NEW b \in Nat, Ahead(b) PROVE Later(b)
  <2> DEFINE end == FinalLag + (IndexOf(b) + 2) * SplitTableBlockNum
  <2>1. end \in Nat
    BY IndexBounds, TablesAssumption
  <2>2. head < end => Owed(IndexOf(b) + 1) \subseteq Made
    BY <1>2 DEF Ahead
  <2> HIDE DEF end
  <2>3. head' < end => Owed(IndexOf(b) + 1) \subseteq Made'
    BY <1>1, <2>1, <2>2
  <2> QED
    BY <2>3 DEF end
<1>3. /\ \A b \in storedBlocks : Later(b)
      /\ \A v \in TableWorkers : filling[v].at = "commit" => Later(filling[v].block)
  <2>1. storedBlocks \subseteq Nat /\ \A v \in TableWorkers : filling[v].block \in Nat
    BY DEF TableTypes
  <2> HIDE DEF Later
  <2> QED
    BY <1>2, <2>1 DEF NextMade
<1>4. SUFFICES Goal
  BY DEF NextMade, Ahead
<1> HIDE DEF Later
<1>5. ASSUME NEW w \in TableWorkers, FillStep(w) PROVE Goal
  <2> DEFINE b == filling[w].block
  <2>0. \A v \in TableWorkers \ {w} : filling'[v] = filling[v]
    BY <1>5 DEF FillStep, ReadTableCache, HasTable, SetTableCache, InsertRows, ReadMaxTable,
                AddNextIndex, EndFill, CreateTable, TableTypes
  <2>1. CASE ReadMaxTable(w)
    <3>1. /\ filling'[w].block = b /\ UNCHANGED <<storedBlocks, head>>
          /\ filling'[w].at = "commit" => b + SplitTableBlockNum <= maxTableBlockNum
      <4>1. b \in Nat /\ maxTableBlockNum \in Nat
        BY DEF TableTypes
      <4> QED
        BY <2>1, <4>1, TablesAssumption DEF ReadMaxTable, TableTypes
    <3>2. ASSUME b + SplitTableBlockNum <= maxTableBlockNum PROVE Ahead(b)
      <4>1. b \in Nat
        BY DEF TableTypes
      <4>2. PICK c \in Nat : /\ maxTableBlockNum = c + SplitTableBlockNum /\ c + FinalLag <= head
                             /\ Owed(IndexOf(c)) \subseteq Made /\ Owed(IndexOf(c) + 1) \subseteq Made
        BY <3>2, <4>1, TablesAssumption DEF Moved
      <4>3. b <= c
        BY <3>2, <4>1, <4>2, TablesAssumption
      <4>4. SUFFICES ASSUME head < FinalLag + (IndexOf(b) + 2) * SplitTableBlockNum
                     PROVE  Owed(IndexOf(b) + 1) \subseteq Made
        BY DEF Ahead
      <4>5. c < (IndexOf(b) + 2) * SplitTableBlockNum
        <5> DEFINE end == (IndexOf(b) + 2) * SplitTableBlockNum
        <5>1. end \in Nat /\ head < FinalLag + end /\ c + FinalLag <= head
          BY <4>1, <4>2, <4>4, IndexBounds, TablesAssumption
        <5> HIDE DEF end
        <5>2. c < end
          BY <1>1, <5>1, TablesAssumption
        <5> QED
          BY <5>2 DEF end
      <4>6. IndexOf(c) \in {IndexOf(b), IndexOf(b) + 1}
        BY <4>1, <4>3, <4>5, SameOrNext
      <4> QED
        BY <4>2, <4>6
    <3>3. filling'[w].at = "commit" => Later(b)
      <4>1. b \in Nat
        BY DEF TableTypes
      <4> QED
        BY <3>1, <3>2, <4>1, <1>2
    <3> QED
      BY <2>0, <3>1, <3>3, <1>3
  <2>2. CASE AddNextIndex(w)
    <3>1. Owed(IndexOf(b) + 1) \subseteq Made'
      BY <2>2, AddNextMakes
    <3>2. Later(b)
      BY <3>1 DEF Later
    <3>3. filling'[w].block = b /\ UNCHANGED storedBlocks
      BY <2>2 DEF AddNextIndex, TableTypes
    <3> QED
      BY <2>0, <3>2, <3>3, <1>3
  <2>3. CASE EndFill(w)
    <3>1. /\ filling[w].at = "commit" /\ filling'[w].at = "idle"
          /\ storedBlocks' \subseteq storedBlocks \cup {b}
      BY <2>3 DEF EndFill, TableTypes, Waiting
    <3> QED
      BY <2>0, <3>1, <1>3
  <2>4. CASE ~(ReadMaxTable(w) \/ AddNextIndex(w) \/ EndFill(w))
    <3>1. UNCHANGED storedBlocks /\ filling'[w].at # "commit"
      BY <1>5, <2>4 DEF FillStep, ReadTableCache, HasTable, SetTableCache, InsertRows, CreateTable,
                        TableTypes, Waiting
    <3> QED
      BY <2>0, <3>1, <1>3
  <2> QED
    BY <2>1, <2>2, <2>3, <2>4
<1>6. ASSUME NEW w \in TableWorkers, NEW b \in blockJobs, TakeBlock(w, b) PROVE Goal
  <2>1. /\ filling'[w].at = "cache" /\ UNCHANGED storedBlocks
        /\ \A v \in TableWorkers \ {w} : filling'[v] = filling[v]
    BY <1>6 DEF TakeBlock, TableTypes, Waiting
  <2> QED
    BY <2>1, <1>3
<1>7. ASSUME AnnounceHead \/ AddStep \/ MigrateStep \/ UNCHANGED tableVars PROVE Goal
  <2>1. UNCHANGED <<filling, storedBlocks>>
    BY <1>7 DEF AnnounceHead, AddStep, AddInBackground, MigrateStep, Migrate, tableVars
  <2> QED
    BY <2>1, <1>3
<1>8. ASSUME ProcessRestarts PROVE Goal
  <2>1. UNCHANGED storedBlocks /\ \A v \in TableWorkers : filling'[v].at = "idle"
    BY <1>8 DEF ProcessRestarts, Waiting
  <2> QED
    BY <2>1, <1>3
<1> HIDE DEF Goal
<1> QED
  BY <1>5, <1>6, <1>7, <1>8 DEF SplitTablesNext

(* Whoever relies on the four tables of an index has them there, on their  *)
(* way, or lost by a failure, whatever the goroutines, the background ones *)
(* and restarts do between one CREATE TABLE and the next; and the index    *)
(* after that of a stored block before the chain has grown through it.     *)
THEOREM TablesAreMade == SplitTablesSpec => []TablesMade
<1>1. SplitTablesInit => TablesInv
  <2> SUFFICES ASSUME SplitTablesInit PROVE TablesInv
    OBVIOUS
  <2>1. /\ head = 0 /\ blockJobs = {} /\ filling = [w \in TableWorkers |-> Waiting]
        /\ tables = {} /\ splitBlockTableCache = {} /\ maxTableBlockNum = 0
        /\ DOMAIN adding = {} /\ starting = Migration /\ storedBlocks = {} /\ spoilt = {}
    BY DEF SplitTablesInit, EmptyBag, SetToBag
  <2>2. head \in Nat
    BY <2>1
  <2>3. /\ Migration \in [auto : Seq(Table), index : Seq(Table)]
        /\ ToSet(Migration.auto) \subseteq ToSet(Migration.index)
        /\ \A t \in ToSet(Migration.index) : Owed(t[1]) \subseteq ToSet(Migration.index)
    BY <2>2, MigrationLists
  <2>4. /\ Waiting \in [at : Places, block : Nat, ddl : Seq(Table), ok : BOOLEAN]
        /\ Waiting.at = "idle" /\ Waiting.ddl = <<>> /\ ToSet(<<>>) = {}
    BY DEF Waiting, Places, ToSet
  <2>5. Made = ToSet(Migration.index)
    BY <2>1, <2>3, <2>4 DEF Made, Pending, BagToSet
  <2>6. TableTypes
    BY <2>1, <2>3, <2>4 DEF TableTypes
  <2>7. Closed
    BY <2>3, <2>5 DEF Closed
  <2> QED
    BY <2>1, <2>4, <2>6, <2>7 DEF TablesInv, Relied, Moved, NextMade
<1>2. TablesInv /\ [SplitTablesNext]_tableVars => TablesInv'
  BY TypesStep, ClosedStep, ReliedStep, MovedStep, NextMadeStep DEF TablesInv
<1>3. TablesInv => TablesMade
  <2> SUFFICES ASSUME TablesInv PROVE TablesMade
    OBVIOUS
  <2>1. \A t \in tables : t[2] = "blocks" => Owed(t[1]) \subseteq Made
    BY DEF TablesInv, Closed, Made
  <2>2. TablesWhole
    BY <2>1 DEF TablesInv, Relied, TablesWhole, Made
  <2>3. NextIndexAhead
    BY DEF TablesInv, NextMade, Ahead, NextIndexAhead, Made
  <2> QED
    BY <2>2, <2>3 DEF TablesMade
<1> QED
  BY <1>1, <1>2, <1>3, PTL DEF SplitTablesSpec

-----------------------------------------------------------------------------
(* The mapping of accounts to tables                                       *)

MappingSpec == MappingInit /\ [][MappingNext]_mapVars

(* The tables with an extrinsic of the account.                            *)
Homes(a) == {HomeOf(b) : b \in {c \in signedStored : AccountOf(c) = a}}

MappingTypes ==
    /\ signedStored \subseteq SignedBlocks
    /\ extrinsicTable \in [Signers -> SUBSET Nat]
    /\ mapper \in [MapWorkers -> [at : {"idle", "read", "write", "commit"}, block : SignedBlocks \cup {0},
                                  read : SUBSET Nat, writes : BOOLEAN]]
    /\ \A w \in MapWorkers : mapper[w].at # "idle" => mapper[w].block \in SignedBlocks
    /\ migration \in [at : {"idle", "scan", "accounts", "upsert"}, table : Nat, found : [Signers -> SUBSET Nat],
                      todo : SUBSET Signers, account : Signers \cup {"none"}, read : SUBSET Nat,
                      raced : SUBSET Signers]
    /\ migration.at = "upsert" => migration.account \in migration.todo

(* Nothing that was read, found or written names a table without an        *)
(* extrinsic of the account ...                                            *)
RowsTrue ==
    /\ \A a \in Signers : extrinsicTable[a] \subseteq Homes(a) /\ migration.found[a] \subseteq Homes(a)
    /\ \A w \in MapWorkers : mapper[w].at \in {"write", "commit"} =>
                                mapper[w].read \subseteq Homes(AccountOf(mapper[w].block))
    /\ migration.at = "upsert" => migration.read \subseteq Homes(migration.account)

(* ... a transaction that has not written its table into the row had read  *)
(* it there, or found a row that came to be since it read none ...          *)
Written ==
    \A w \in MapWorkers : mapper[w].at = "commit" =>
        LET m == mapper[w]
        IN  IF m.writes THEN HomeOf(m.block) \notin m.read
            ELSE HomeOf(m.block) \in m.read \/ (m.read = {} /\ extrinsicTable[AccountOf(m.block)] # {})

(* ... a row that owes nothing names every table ...                       *)
Settled == \A a \in Signers \ owing : Homes(a) \subseteq extrinsicTable[a]

(* ... and what the command has looked at is found or in the row, until it *)
(* has got to the account, unless the row was written back meanwhile.      *)
Scanned ==
    migration.at # "idle" =>
        \A a \in Signers \ migration.raced :
            migration.at = "scan" \/ a \in migration.todo =>
                \A h \in Homes(a) : (migration.at = "scan" => h < migration.table) =>
                                        h \in migration.found[a] \cup extrinsicTable[a]

MappingInv == MappingTypes /\ RowsTrue /\ Written /\ Settled /\ Scanned

LEMMA HomesInTables ==
    ASSUME NEW b \in SignedBlocks
    PROVE  AccountOf(b) \in Signers /\ HomeOf(b) \in Nat /\ HomeOf(b) <= LastTable
<1> DEFINE S == {HomeOf(c) : c \in SignedBlocks}
<1>1. \E m \in S : \A n \in S : m >= n
  BY MappingAssumption DEF SignedBlocks, HomeOf
<1>2. LastTable = Max(S)
  BY DEF LastTable
<1>3. LastTable \in S /\ \A n \in S : LastTable >= n
  BY <1>1, <1>2 DEF Max
<1> QED
  BY <1>3, MappingAssumption DEF SignedBlocks, HomeOf, Signers

(* The tables of an account are only added to, by a commit.                *)
LEMMA HomesGrow ==
    ASSUME MappingTypes, [MappingNext]_mapVars
    PROVE  \/ /\ UNCHANGED signedStored
              /\ \A a \in Signers : Homes(a)' = Homes(a)
           \/ \E w \in MapWorkers, b \in SignedBlocks, a \in Signers :
                 /\ CommitSigned(w) /\ b = mapper[w].block /\ a = AccountOf(b)
                 /\ Homes(a)' = Homes(a) \cup {HomeOf(b)}
                 /\ \A o \in Signers \ {a} : Homes(o)' = Homes(o)
<1>1. ASSUME NEW w \in MapWorkers, CommitSigned(w)
      PROVE  \E b \in SignedBlocks, a \in Signers :
                 /\ b = mapper[w].block /\ a = AccountOf(b)
                 /\ Homes(a)' = Homes(a) \cup {HomeOf(b)}
                 /\ \A o \in Signers \ {a} : Homes(o)' = Homes(o)
  <2>1. PICK b \in SignedBlocks : b = mapper[w].block /\ signedStored' = signedStored \cup {b}
    BY <1>1 DEF CommitSigned, MappingTypes
  <2>2. PICK a \in Signers : a = AccountOf(b)
    BY HomesInTables
  <2>3. Homes(a)' = Homes(a) \cup {HomeOf(b)}
    BY <2>1, <2>2 DEF Homes
  <2>4. \A o \in Signers \ {a} : Homes(o)' = Homes(o)
    BY <2>1, <2>2 DEF Homes
  <2> QED
    BY <2>1, <2>2, <2>3, <2>4
<1>2. ASSUME \A w \in MapWorkers : ~CommitSigned(w) PROVE UNCHANGED signedStored
  BY <1>2 DEF MappingNext, InsertSigned, ReadMapping, UpdateAccountExtrinsicMapping, RollBackSigned,
              StartMigration, ScanTable, UpsertAccountRow, EndMigration, ReadAccountRow, mapVars
<1> QED
  BY <1>1, <1>2 DEF Homes

LEMMA MappingTypesStep ==
    ASSUME MappingTypes, [MappingNext]_mapVars
    PROVE  MappingTypes'
<1> DEFINE M == [at : {"idle", "read", "write", "commit"}, block : SignedBlocks \cup {0},
                 read : SUBSET Nat, writes : BOOLEAN]
           G == [at : {"idle", "scan", "accounts", "upsert"}, table : Nat, found : [Signers -> SUBSET Nat],
                 todo : SUBSET Signers, account : Signers \cup {"none"}, read : SUBSET Nat,
                 raced : SUBSET Signers]
<1>0. /\ \A b \in SignedBlocks : AccountOf(b) \in Signers /\ HomeOf(b) \in Nat
      /\ NoMapping \in M /\ NoMapping.at = "idle"
      /\ NoMigration \in G /\ NoMigration.at = "idle"
  BY HomesInTables DEF NoMapping, NoMigration
<1>1. ASSUME NEW w \in MapWorkers, NEW m \in M, mapper' = [mapper EXCEPT ![w] = m],
             m.at # "idle" => m.block \in SignedBlocks,
             signedStored' \subseteq SignedBlocks, extrinsicTable' \in [Signers -> SUBSET Nat],
             migration' \in G, migration'.at = "upsert" => migration'.account \in migration'.todo
      PROVE  MappingTypes'
  BY <1>1 DEF MappingTypes
<1>2. ASSUME NEW w \in MapWorkers, NEW b \in SignedBlocks, InsertSigned(w, b) PROVE MappingTypes'
  <2> DEFINE m == [NoMapping EXCEPT !.at = "read", !.block = b]
  <2>1. m \in M /\ m.block = b
    BY DEF NoMapping
  <2>2. mapper' = [mapper EXCEPT ![w] = m] /\ UNCHANGED <<signedStored, extrinsicTable, migration>>
    BY <1>2 DEF InsertSigned
  <2> HIDE DEF m
  <2> QED
    BY <1>1, <2>1, <2>2 DEF MappingTypes
<1>3. ASSUME NEW w \in MapWorkers,
             ReadMapping(w) \/ UpdateAccountExtrinsicMapping(w) \/ CommitSigned(w) \/ RollBackSigned(w)
      PROVE MappingTypes'
  <2> DEFINE b == mapper[w].block
  <2>0. mapper[w] \in M /\ mapper[w].at # "idle" /\ b \in SignedBlocks /\ AccountOf(b) \in Signers
    <3>1. mapper[w].at # "idle"
      BY <1>3 DEF ReadMapping, UpdateAccountExtrinsicMapping, CommitSigned, RollBackSigned
    <3> QED
      BY <3>1, <1>0 DEF MappingTypes
  <2>1. CASE ReadMapping(w)
    <3> DEFINE m == [mapper[w] EXCEPT !.at = "write", !.read = extrinsicTable[AccountOf(b)]]
    <3>1. extrinsicTable[AccountOf(b)] \in SUBSET Nat
      BY <2>0 DEF MappingTypes
    <3>2. m \in M /\ m.block = b
      BY <2>0, <3>1
    <3>3. mapper' = [mapper EXCEPT ![w] = m] /\ UNCHANGED <<signedStored, extrinsicTable, migration>>
      BY <2>1 DEF ReadMapping
    <3> HIDE DEF m
    <3> QED
      BY <1>1, <2>0, <3>2, <3>3 DEF MappingTypes
  <2>2. CASE UpdateAccountExtrinsicMapping(w)
    <3> DEFINE wr == HomeOf(b) \notin mapper[w].read /\ (mapper[w].read = {} => extrinsicTable[AccountOf(b)] = {})
               m == [mapper[w] EXCEPT !.at = "commit", !.writes = wr]
    <3>1. wr \in BOOLEAN
      OBVIOUS
    <3>2. mapper' = [mapper EXCEPT ![w] = m] /\ UNCHANGED <<signedStored, extrinsicTable, migration>>
      BY <2>2 DEF UpdateAccountExtrinsicMapping
    <3> HIDE DEF wr
    <3>3. m \in M /\ m.block = b
      BY <2>0, <3>1
    <3> HIDE DEF m
    <3> QED
      BY <1>1, <2>0, <3>2, <3>3 DEF MappingTypes
  <2>3. CASE CommitSigned(w)
    <3>1. mapper' = [mapper EXCEPT ![w] = NoMapping] /\ signedStored' \subseteq SignedBlocks
      BY <2>0, <2>3 DEF CommitSigned, MappingTypes
    <3>2. extrinsicTable' \in [Signers -> SUBSET Nat]
      <4>1. mapper[w].read \cup {HomeOf(b)} \in SUBSET Nat
        BY <1>0, <2>0
      <4> QED
        BY <2>0, <2>3, <4>1 DEF CommitSigned, MappingTypes
    <3>3. migration' \in G /\ (migration'.at = "upsert" => migration'.account \in migration'.todo)
      <4>1. migration' = migration \/ migration' = [migration EXCEPT !.raced = @ \cup {AccountOf(b)}]
        BY <2>3 DEF CommitSigned
      <4>2. migration \in G /\ (migration.at = "upsert" => migration.account \in migration.todo)
        BY DEF MappingTypes
      <4> QED
        BY <2>0, <4>1, <4>2
    <3> QED
      BY <1>0, <1>1, <3>1, <3>2, <3>3
  <2>4. CASE RollBackSigned(w)
    <3>1. mapper' = [mapper EXCEPT ![w] = NoMapping] /\ UNCHANGED <<signedStored, extrinsicTable, migration>>
      BY <2>4 DEF RollBackSigned
    <3> QED
      BY <1>0, <1>1, <3>1 DEF MappingTypes
  <2> QED
    BY <1>3, <2>1, <2>2, <2>3, <2>4
<1>4. ASSUME NEW g \in G, migration' = g, g.at = "upsert" => g.account \in g.todo,
             UNCHANGED <<mapper, signedStored>>, extrinsicTable' \in [Signers -> SUBSET Nat]
      PROVE  MappingTypes'
  BY <1>4 DEF MappingTypes
<1>5. migration \in G /\ extrinsicTable \in [Signers -> SUBSET Nat]
  BY DEF MappingTypes
<1>6. ASSUME StartMigration \/ EndMigration PROVE MappingTypes'
  <2>1. NoMigration \in G /\ [NoMigration EXCEPT !.at = "scan"] \in G
    BY <1>0
  <2>2. migration' \in {NoMigration, [NoMigration EXCEPT !.at = "scan"]} /\ UNCHANGED <<mapper, signedStored, extrinsicTable>>
    BY <1>6 DEF StartMigration, EndMigration
  <2>3. migration' \in G /\ migration'.at # "upsert"
    BY <2>1, <2>2 DEF NoMigration
  <2> QED
    BY <1>4, <1>5, <2>2, <2>3
<1>7. ASSUME ScanTable PROVE MappingTypes'
  <2> DEFINE found == [a \in Signers |-> migration.found[a] \cup {HomeOf(b) : b \in
                       {c \in signedStored : AccountOf(c) = a /\ HomeOf(c) = migration.table}}]
             g1 == [migration EXCEPT !.table = migration.table + 1, !.found = found]
             g2 == [migration EXCEPT !.at = "accounts", !.todo = {a \in Signers : migration.found[a] # {}}]
  <2>1. found \in [Signers -> SUBSET Nat]
    BY <1>0, <1>5 DEF MappingTypes
  <2>2. migration' \in {g1, g2} /\ UNCHANGED <<mapper, signedStored, extrinsicTable>> /\ migration.at = "scan"
    BY <1>7 DEF ScanTable
  <2> HIDE DEF found
  <2>3. g1 \in G /\ g1.at = "scan"
    <3>1. migration.table + 1 \in Nat
      BY <1>5
    <3> QED
      BY <1>5, <2>1, <2>2, <3>1
  <2>4. g2 \in G /\ g2.at = "accounts"
    <3>1. {a \in Signers : migration.found[a] # {}} \in SUBSET Signers
      OBVIOUS
    <3> QED
      BY <1>5, <3>1
  <2> HIDE DEF g1, g2
  <2> QED
    BY <1>4, <1>5, <2>2, <2>3, <2>4
<1>8. ASSUME NEW a \in Signers, ReadAccountRow(a) PROVE MappingTypes'
  <2> DEFINE g == [migration EXCEPT !.at = "upsert", !.account = a, !.read = extrinsicTable[a]]
  <2>1. migration' = g /\ a \in migration.todo /\ UNCHANGED <<mapper, signedStored, extrinsicTable>>
    BY <1>8 DEF ReadAccountRow
  <2>2. g \in G /\ g.account = a /\ g.todo = migration.todo
    BY <1>5
  <2> HIDE DEF g
  <2> QED
    BY <1>4, <1>5, <2>1, <2>2
<1>9. ASSUME UpsertAccountRow PROVE MappingTypes'
  <2> DEFINE a == migration.account
             all == migration.read \cup migration.found[a]
             g == [migration EXCEPT !.at = "accounts", !.todo = @ \ {a}, !.account = "none", !.read = {}]
  <2>1. a \in Signers /\ migration.at = "upsert"
    BY <1>9 DEF UpsertAccountRow, MappingTypes
  <2>2. migration' \in {NoMigration, g} /\ UNCHANGED <<mapper, signedStored>>
        /\ extrinsicTable' \in {extrinsicTable, [extrinsicTable EXCEPT ![a] = all]}
    BY <1>9 DEF UpsertAccountRow
  <2>3. all \in SUBSET Nat
    BY <1>5, <2>1
  <2>4. extrinsicTable' \in [Signers -> SUBSET Nat]
    BY <1>5, <2>2, <2>3
  <2>5. g \in G /\ g.at = "accounts"
    BY <1>5
  <2> HIDE DEF g
  <2> QED
    BY <1>0, <1>4, <2>2, <2>4, <2>5
<1>10. ASSUME UNCHANGED mapVars PROVE MappingTypes'
  BY <1>10 DEF MappingTypes, mapVars
<1> QED
  BY <1>2, <1>3, <1>6, <1>7, <1>8, <1>9, <1>10 DEF MappingNext

(* What the steps do to the rows: a commit writes back what it read with   *)
(* its own table, the command what it read with all that it found.         *)
LEMMA RowsTrueStep ==
    ASSUME MappingTypes, RowsTrue, [MappingNext]_mapVars
    PROVE  RowsTrue'
<1>0. MappingTypes'
  BY MappingTypesStep
<1>1. /\ \A a \in Signers : Homes(a) \subseteq Homes(a)'
      /\ \A b \in SignedBlocks : AccountOf(b) \in Signers
  BY HomesGrow, HomesInTables
<1>2. /\ \A a \in Signers : extrinsicTable[a] \subseteq Homes(a)' /\ migration.found[a] \subseteq Homes(a)'
      /\ \A w \in MapWorkers : mapper[w].at \in {"write", "commit"} =>
                                  mapper[w].read \subseteq Homes(AccountOf(mapper[w].block))
      /\ migration.at = "upsert" => migration.read \subseteq Homes(migration.account)
  BY <1>1 DEF RowsTrue
<1>3. ASSUME NEW a \in Signers PROVE extrinsicTable'[a] \subseteq Homes(a)'
  <2>1. CASE UNCHANGED extrinsicTable
    BY <1>2, <2>1
  <2>2. ASSUME NEW w \in MapWorkers, CommitSigned(w) PROVE extrinsicTable'[a] \subseteq Homes(a)'
    <3>1. PICK b \in SignedBlocks : b = mapper[w].block
      BY <2>2 DEF CommitSigned, MappingTypes
    <3>2. CASE AccountOf(b) = a
      <4>1. extrinsicTable'[a] \subseteq extrinsicTable[a] \cup mapper[w].read \cup {HomeOf(b)}
        BY <2>2, <3>1, <3>2 DEF CommitSigned, MappingTypes
      <4>2. HomeOf(b) \in Homes(a)'
        BY <2>2, <3>1, <3>2 DEF CommitSigned, Homes
      <4>3. mapper[w].read \subseteq Homes(a)'
        BY <1>1, <1>2, <2>2, <3>1, <3>2 DEF CommitSigned
      <4> QED
        BY <1>2, <4>1, <4>2, <4>3
    <3>3. CASE AccountOf(b) # a
      <4>1. extrinsicTable'[a] = extrinsicTable[a]
        BY <2>2, <3>1, <3>3 DEF CommitSigned, MappingTypes
      <4> QED
        BY <1>2, <4>1
    <3> QED
      BY <3>2, <3>3
  <2>3. ASSUME UpsertAccountRow PROVE extrinsicTable'[a] \subseteq Homes(a)'
    <3>1. PICK o \in Signers : o = migration.account
      BY <2>3 DEF UpsertAccountRow, MappingTypes
    <3>2. extrinsicTable'[a] \subseteq extrinsicTable[a] \cup
                (IF a = o THEN migration.read \cup migration.found[a] ELSE {})
      BY <2>3, <3>1 DEF UpsertAccountRow, MappingTypes
    <3>3. migration.read \subseteq Homes(o)'
      BY <1>1, <1>2, <2>3, <3>1 DEF UpsertAccountRow
    <3> QED
      BY <1>2, <3>2, <3>3
  <2> QED
    BY <2>1, <2>2, <2>3 DEF MappingNext, InsertSigned, ReadMapping, UpdateAccountExtrinsicMapping,
       RollBackSigned, StartMigration, ScanTable, EndMigration, ReadAccountRow, mapVars
<1>4. ASSUME NEW a \in Signers PROVE migration'.found[a] \subseteq Homes(a)'
  <2>1. CASE ScanTable
    <3>1. UNCHANGED signedStored
      BY <2>1 DEF ScanTable
    <3> DEFINE more == [o \in Signers |-> migration.found[o] \cup {HomeOf(b) : b \in
                          {c \in signedStored : AccountOf(c) = o /\ HomeOf(c) = migration.table}}]
    <3>2. migration'.found = more \/ migration'.found = migration.found
      BY <2>1 DEF ScanTable, MappingTypes
    <3>3. more[a] \subseteq migration.found[a] \cup Homes(a)
      BY DEF Homes
    <3> HIDE DEF more
    <3> QED
      BY <1>1, <1>2, <3>2, <3>3
  <2>2. CASE ~ScanTable
    <3>1. migration'.found \in {migration.found, NoMigration.found}
      <4>1. \/ UNCHANGED migration \/ migration' = NoMigration
            \/ migration' = [NoMigration EXCEPT !.at = "scan"]
            \/ \E w \in MapWorkers : migration' = [migration EXCEPT !.raced = @ \cup {AccountOf(mapper[w].block)}]
            \/ \E o \in Signers : migration' = [migration EXCEPT !.at = "upsert", !.account = o, !.read = extrinsicTable[o]]
            \/ migration' = [migration EXCEPT !.at = "accounts", !.todo = @ \ {migration.account}, !.account = "none", !.read = {}]
        BY <2>2 DEF MappingNext, InsertSigned, ReadMapping, CommitSigned,
           UpdateAccountExtrinsicMapping, RollBackSigned, StartMigration, UpsertAccountRow, EndMigration,
           ReadAccountRow, mapVars
      <4> QED
        BY <4>1 DEF MappingTypes, NoMigration
    <3>2. NoMigration.found[a] = {}
      BY DEF NoMigration
    <3> QED
      BY <1>2, <3>1, <3>2
  <2> QED
    BY <2>1, <2>2
<1>5. ASSUME NEW v \in MapWorkers, mapper'[v].at \in {"write", "commit"}, NEW b \in SignedBlocks, b = mapper'[v].block
      PROVE  mapper'[v].read \subseteq Homes(AccountOf(b))'
  <2> DEFINE a == AccountOf(b)
  <2>1. a \in Signers
    BY <1>1
  <2>2. CASE mapper'[v] = mapper[v]
    BY <1>1, <1>2, <1>5, <2>1, <2>2
  <2>3. CASE ReadMapping(v)
    <3>1. mapper'[v].read = extrinsicTable[AccountOf(mapper[v].block)] /\ mapper'[v].block = mapper[v].block
      BY <2>3 DEF ReadMapping, MappingTypes
    <3> QED
      BY <1>2, <1>5, <2>1, <3>1
  <2>4. CASE UpdateAccountExtrinsicMapping(v)
    <3>1. mapper'[v].read = mapper[v].read /\ mapper'[v].block = mapper[v].block /\ mapper[v].at = "write"
      BY <2>4 DEF UpdateAccountExtrinsicMapping, MappingTypes
    <3> QED
      BY <1>1, <1>2, <1>5, <2>1, <3>1
  <2>5. mapper'[v] = mapper[v] \/ ReadMapping(v) \/ UpdateAccountExtrinsicMapping(v)
    <3>1. ASSUME NEW w \in MapWorkers, NEW c \in SignedBlocks, InsertSigned(w, c) PROVE mapper'[v] = mapper[v]
      BY <1>5, <3>1 DEF InsertSigned, MappingTypes, NoMapping
    <3>2. ASSUME NEW w \in MapWorkers, CommitSigned(w) \/ RollBackSigned(w) PROVE mapper'[v] = mapper[v]
      BY <1>5, <3>2 DEF CommitSigned, RollBackSigned, MappingTypes, NoMapping
    <3>3. ASSUME NEW w \in MapWorkers \ {v}, ReadMapping(w) \/ UpdateAccountExtrinsicMapping(w) PROVE mapper'[v] = mapper[v]
      BY <3>3 DEF ReadMapping, UpdateAccountExtrinsicMapping, MappingTypes
    <3>4. ASSUME StartMigration \/ ScanTable \/ UpsertAccountRow \/ EndMigration \/ UNCHANGED mapVars
                 \/ \E o \in Signers : ReadAccountRow(o)
          PROVE  UNCHANGED mapper
      BY <3>4 DEF StartMigration, ScanTable, UpsertAccountRow, EndMigration, ReadAccountRow, mapVars
    <3> QED
      BY <3>1, <3>2, <3>3, <3>4 DEF MappingNext
  <2> QED
    BY <2>2, <2>3, <2>4, <2>5
<1>6. ASSUME migration'.at = "upsert", NEW a \in Signers, a = migration'.account
      PROVE  migration'.read \subseteq Homes(a)'
  <2>1. CASE \E o \in Signers : ReadAccountRow(o)
    <3>1. migration'.read = extrinsicTable[a]
      BY <1>6, <2>1 DEF ReadAccountRow, MappingTypes
    <3> QED
      BY <1>2, <3>1
  <2>2. CASE ~\E o \in Signers : ReadAccountRow(o)
    <3>1. \/ UNCHANGED migration
          \/ \E w \in MapWorkers : migration' = [migration EXCEPT !.raced = @ \cup {AccountOf(mapper[w].block)}]
      <4>1. ~UpsertAccountRow
        <5> DEFINE g == [migration EXCEPT !.at = "accounts", !.todo = @ \ {migration.account},
                                          !.account = "none", !.read = {}]
        <5>1. UpsertAccountRow => migration' \in {NoMigration, g}
          BY DEF UpsertAccountRow
        <5>2. g.at = "accounts" /\ NoMigration.at = "idle"
          BY DEF MappingTypes, NoMigration
        <5> HIDE DEF g
        <5> QED
          BY <1>6, <5>1, <5>2
      <4>2. ~ScanTable
        BY <1>6 DEF ScanTable, MappingTypes
      <4>3. ~StartMigration /\ ~EndMigration
        BY <1>6 DEF StartMigration, EndMigration, NoMigration
      <4> QED
        BY <2>2, <4>1, <4>2, <4>3 DEF MappingNext, InsertSigned, ReadMapping, CommitSigned,
           UpdateAccountExtrinsicMapping, RollBackSigned, mapVars
    <3>2. migration.at = "upsert" /\ migration'.read = migration.read /\ migration.account = a
      BY <1>6, <3>1 DEF MappingTypes
    <3> QED
      BY <1>1, <1>2, <3>2
  <2> QED
    BY <2>1, <2>2
<1>7. \A v \in MapWorkers : mapper'[v].at \in {"write", "commit"} => mapper'[v].block \in SignedBlocks
  BY <1>0 DEF MappingTypes
<1>8. migration'.at = "upsert" => migration'.account \in Signers
  BY <1>0 DEF MappingTypes
<1> QED
  BY <1>3, <1>4, <1>5, <1>6, <1>7, <1>8 DEF RowsTrue

(* Who changes a row: a transaction that commits, or the command.          *)
LEMMA RowSteps ==
    ASSUME MappingTypes, [MappingNext]_mapVars
    PROVE  \/ UNCHANGED <<extrinsicTable, owing, signedStored>>
           \/ UpsertAccountRow
           \/ \E w \in MapWorkers : CommitSigned(w)
  BY DEF MappingNext, InsertSigned, ReadMapping, UpdateAccountExtrinsicMapping, RollBackSigned,
         StartMigration, ScanTable, EndMigration, ReadAccountRow, mapVars

LEMMA UpsertOf ==
    ASSUME MappingTypes, UpsertAccountRow
    PROVE  \E a \in Signers :
              LET all   == migration.read \cup migration.found[a]
                  write == all # migration.read /\ (migration.read = {} => extrinsicTable[a] = {})
              IN  /\ migration.at = "upsert" /\ a = migration.account /\ a \in migration.todo
                  /\ extrinsicTable'[a] = (IF write THEN all ELSE extrinsicTable[a])
                  /\ \A o \in Signers \ {a} : extrinsicTable'[o] = extrinsicTable[o]
                  /\ UNCHANGED <<signedStored, mapper>>
                  /\ owing' = IF extrinsicTable[a] = migration.read
                              THEN owing \ ({a} \ migration.raced)
                              ELSE IF write THEN owing \cup {a} ELSE owing
                  /\ \/ migration'.at = "idle"
                     \/ /\ migration'.at = "accounts" /\ migration'.todo = migration.todo \ {a}
                        /\ migration'.found = migration.found /\ migration'.raced = migration.raced
<1>1. PICK a \in Signers : a = migration.account /\ a \in migration.todo /\ migration.at = "upsert"
  BY DEF UpsertAccountRow, MappingTypes
<1> DEFINE all   == migration.read \cup migration.found[a]
           write == all # migration.read /\ (migration.read = {} => extrinsicTable[a] = {})
           g     == [migration EXCEPT !.at = "accounts", !.todo = @ \ {a}, !.account = "none", !.read = {}]
<1>2. /\ extrinsicTable' = (IF write THEN [extrinsicTable EXCEPT ![a] = all] ELSE extrinsicTable)
      /\ owing' = IF extrinsicTable[a] = migration.read
                  THEN owing \ ({a} \ migration.raced)
                  ELSE IF write THEN owing \cup {a} ELSE owing
      /\ migration' \in {NoMigration, g}
      /\ UNCHANGED <<signedStored, mapper>>
  BY <1>1 DEF UpsertAccountRow
<1>3. extrinsicTable \in [Signers -> SUBSET Nat]
  BY DEF MappingTypes
<1>4. /\ extrinsicTable'[a] = (IF write THEN all ELSE extrinsicTable[a])
      /\ \A o \in Signers \ {a} : extrinsicTable'[o] = extrinsicTable[o]
  BY <1>2, <1>3
<1>5. /\ NoMigration.at = "idle" /\ g.at = "accounts" /\ g.todo = migration.todo \ {a}
      /\ g.found = migration.found /\ g.raced = migration.raced
  BY DEF MappingTypes, NoMigration
<1> HIDE DEF g, all, write
<1>6. \/ migration'.at = "idle"
      \/ /\ migration'.at = "accounts" /\ migration'.todo = migration.todo \ {a}
         /\ migration'.found = migration.found /\ migration'.raced = migration.raced
  BY <1>2, <1>5
<1> QED
  BY <1>1, <1>2, <1>4, <1>6 DEF all, write

LEMMA CommitOf ==
    ASSUME MappingTypes, NEW w \in MapWorkers, CommitSigned(w)
    PROVE  \E b \in SignedBlocks, a \in Signers :
              LET m     == mapper[w]
                  stale == HomeOf(b) \notin m.read /\ extrinsicTable[a] # m.read
              IN  /\ m.at = "commit" /\ b = m.block /\ a = AccountOf(b)
                  /\ extrinsicTable'[a] = (IF m.writes THEN m.read \cup {HomeOf(b)} ELSE extrinsicTable[a])
                  /\ \A o \in Signers \ {a} : extrinsicTable'[o] = extrinsicTable[o]
                  /\ owing' = IF stale THEN owing \cup {a} ELSE owing
                  /\ Homes(a)' = Homes(a) \cup {HomeOf(b)}
                  /\ \A o \in Signers \ {a} : Homes(o)' = Homes(o)
                  /\ IF stale /\ migration.at # "idle"
                     THEN /\ migration'.raced = migration.raced \cup {a} /\ migration'.at = migration.at
                          /\ migration'.found = migration.found /\ migration'.todo = migration.todo
                          /\ migration'.table = migration.table
                     ELSE migration' = migration
<1>1. PICK b \in SignedBlocks, a \in Signers : b = mapper[w].block /\ a = AccountOf(b)
  BY HomesInTables DEF CommitSigned, MappingTypes
<1>2. signedStored' = signedStored \cup {b}
  BY <1>1 DEF CommitSigned
<1>3. /\ Homes(a)' = Homes(a) \cup {HomeOf(b)}
      /\ \A o \in Signers \ {a} : Homes(o)' = Homes(o)
  BY <1>1, <1>2 DEF Homes
<1> DEFINE stale == HomeOf(b) \notin mapper[w].read /\ extrinsicTable[a] # mapper[w].read
<1>4. /\ mapper[w].at = "commit"
      /\ extrinsicTable' = (IF mapper[w].writes THEN [extrinsicTable EXCEPT ![a] = mapper[w].read \cup {HomeOf(b)}]
                            ELSE extrinsicTable)
      /\ owing' = IF stale THEN owing \cup {a} ELSE owing
      /\ migration' = IF stale /\ migration.at # "idle" THEN [migration EXCEPT !.raced = @ \cup {a}]
                      ELSE migration
  BY <1>1 DEF CommitSigned
<1> HIDE DEF stale
<1>5. extrinsicTable \in [Signers -> SUBSET Nat]
  BY DEF MappingTypes
<1>6. /\ extrinsicTable'[a] = (IF mapper[w].writes THEN mapper[w].read \cup {HomeOf(b)} ELSE extrinsicTable[a])
      /\ \A o \in Signers \ {a} : extrinsicTable'[o] = extrinsicTable[o]
  BY <1>4, <1>5
<1>7. IF stale /\ migration.at # "idle"
      THEN /\ migration'.raced = migration.raced \cup {a} /\ migration'.at = migration.at
           /\ migration'.found = migration.found /\ migration'.todo = migration.todo
           /\ migration'.table = migration.table
      ELSE migration' = migration
  BY <1>4 DEF MappingTypes
<1> QED
  BY <1>1, <1>3, <1>4, <1>6, <1>7 DEF stale

(* A commit that does not write back an older row keeps what was there.    *)
LEMMA CommitKeeps ==
    ASSUME MappingTypes, RowsTrue, Written, NEW w \in MapWorkers, CommitSigned(w),
           NEW a \in Signers, a = AccountOf(mapper[w].block),
           HomeOf(mapper[w].block) \in mapper[w].read \/ extrinsicTable[a] = mapper[w].read
    PROVE  extrinsicTable[a] \subseteq extrinsicTable'[a] /\ Homes(a)' \subseteq Homes(a) \cup extrinsicTable'[a]
<1>1. PICK b \in SignedBlocks :
        /\ mapper[w].at = "commit" /\ b = mapper[w].block /\ a = AccountOf(b)
        /\ extrinsicTable'[a] = (IF mapper[w].writes THEN mapper[w].read \cup {HomeOf(b)} ELSE extrinsicTable[a])
        /\ Homes(a)' = Homes(a) \cup {HomeOf(b)}
  BY CommitOf
<1>2. /\ mapper[w].read \subseteq Homes(a)
      /\ IF mapper[w].writes THEN HomeOf(b) \notin mapper[w].read
         ELSE HomeOf(b) \in mapper[w].read \/ (mapper[w].read = {} /\ extrinsicTable[a] # {})
  BY <1>1 DEF RowsTrue, Written
<1> QED
  BY <1>1, <1>2

LEMMA WrittenStep ==
    ASSUME MappingTypes, Written, [MappingNext]_mapVars
    PROVE  Written'
<1>1. \A a \in Signers : extrinsicTable[a] # {} => extrinsicTable'[a] # {}
  <2>1. CASE UpsertAccountRow
    BY <2>1, UpsertOf
  <2>2. CASE \E w \in MapWorkers : CommitSigned(w)
    BY <2>2, CommitOf
  <2>3. CASE UNCHANGED extrinsicTable
    BY <2>3
  <2> QED
    BY <2>1, <2>2, <2>3, RowSteps
<1>2. SUFFICES ASSUME NEW v \in MapWorkers, mapper'[v].at = "commit"
               PROVE  LET m == mapper'[v]
                      IN  IF m.writes THEN HomeOf(m.block) \notin m.read
                          ELSE \/ HomeOf(m.block) \in m.read
                               \/ m.read = {} /\ extrinsicTable'[AccountOf(m.block)] # {}
  BY DEF Written
<1>3. CASE UpdateAccountExtrinsicMapping(v)
  <2> DEFINE b == mapper[v].block
             wr == HomeOf(b) \notin mapper[v].read /\ (mapper[v].read = {} => extrinsicTable[AccountOf(b)] = {})
  <2>1. mapper' = [mapper EXCEPT ![v].at = "commit", ![v].writes = wr] /\ UNCHANGED extrinsicTable
    BY <1>3 DEF UpdateAccountExtrinsicMapping
  <2> HIDE DEF wr
  <2>2. mapper'[v].writes = wr /\ mapper'[v].read = mapper[v].read /\ mapper'[v].block = b
    BY <2>1 DEF MappingTypes
  <2> QED
    BY <2>1, <2>2 DEF wr
<1>4. CASE ~UpdateAccountExtrinsicMapping(v)
  <2>1. mapper'[v] = mapper[v]
    <3>1. ASSUME NEW w \in MapWorkers, NEW c \in SignedBlocks, InsertSigned(w, c) PROVE mapper'[v] = mapper[v]
      BY <1>2, <3>1 DEF InsertSigned, MappingTypes, NoMapping
    <3>2. ASSUME NEW w \in MapWorkers, CommitSigned(w) \/ RollBackSigned(w) PROVE mapper'[v] = mapper[v]
      BY <1>2, <3>2 DEF CommitSigned, RollBackSigned, MappingTypes, NoMapping
    <3>3. ASSUME NEW w \in MapWorkers, ReadMapping(w) PROVE mapper'[v] = mapper[v]
      BY <1>2, <3>3 DEF ReadMapping, MappingTypes
    <3>4. ASSUME NEW w \in MapWorkers \ {v}, UpdateAccountExtrinsicMapping(w) PROVE mapper'[v] = mapper[v]
      BY <3>4 DEF UpdateAccountExtrinsicMapping, MappingTypes
    <3>5. ASSUME StartMigration \/ ScanTable \/ UpsertAccountRow \/ EndMigration \/ UNCHANGED mapVars
                 \/ \E o \in Signers : ReadAccountRow(o)
          PROVE  UNCHANGED mapper
      BY <3>5 DEF StartMigration, ScanTable, UpsertAccountRow, EndMigration, ReadAccountRow, mapVars
    <3> QED
      BY <1>4, <3>1, <3>2, <3>3, <3>4, <3>5 DEF MappingNext
  <2>2. AccountOf(mapper[v].block) \in Signers
    BY <1>2, <2>1, HomesInTables DEF MappingTypes
  <2> QED
    BY <1>1, <1>2, <2>1, <2>2 DEF Written
<1> QED
  BY <1>3, <1>4

LEMMA SettledStep ==
    ASSUME MappingTypes, RowsTrue, Written, Settled, Scanned, [MappingNext]_mapVars
    PROVE  Settled'
<1>1. SUFFICES ASSUME NEW a \in Signers, a \notin owing' PROVE Homes(a)' \subseteq extrinsicTable'[a]
  BY DEF Settled
<1>2. CASE UNCHANGED <<extrinsicTable, owing, signedStored>>
  BY <1>1, <1>2 DEF Settled, Homes
<1>3. ASSUME NEW w \in MapWorkers, CommitSigned(w) PROVE Homes(a)' \subseteq extrinsicTable'[a]
  <2>1. PICK b \in SignedBlocks, c \in Signers :
          /\ b = mapper[w].block /\ c = AccountOf(b)
          /\ \A o \in Signers \ {c} : extrinsicTable'[o] = extrinsicTable[o]
          /\ owing' = IF HomeOf(b) \notin mapper[w].read /\ extrinsicTable[c] # mapper[w].read
                      THEN owing \cup {c} ELSE owing
          /\ \A o \in Signers \ {c} : Homes(o)' = Homes(o)
    BY <1>3, CommitOf
  <2>2. Homes(a) \subseteq extrinsicTable[a]
    BY <1>1, <2>1 DEF Settled
  <2>3. CASE a # c
    BY <2>1, <2>2, <2>3
  <2>4. CASE a = c
    <3>1. HomeOf(b) \in mapper[w].read \/ extrinsicTable[a] = mapper[w].read
      BY <1>1, <2>1, <2>4
    <3> QED
      BY <1>3, <2>1, <2>2, <2>4, <3>1, CommitKeeps
  <2> QED
    BY <2>3, <2>4
<1>4. CASE UpsertAccountRow
  <2>1. PICK c \in Signers :
              LET all   == migration.read \cup migration.found[c]
                  write == all # migration.read /\ (migration.read = {} => extrinsicTable[c] = {})
              IN  /\ migration.at = "upsert" /\ c = migration.account /\ c \in migration.todo
                  /\ extrinsicTable'[c] = (IF write THEN all ELSE extrinsicTable[c])
                  /\ \A o \in Signers \ {c} : extrinsicTable'[o] = extrinsicTable[o]
                  /\ UNCHANGED signedStored
                  /\ owing' = IF extrinsicTable[c] = migration.read
                              THEN owing \ ({c} \ migration.raced)
                              ELSE IF write THEN owing \cup {c} ELSE owing
    BY <1>4, UpsertOf
  <2>2. Homes(a)' = Homes(a)
    BY <2>1 DEF Homes
  <2>3. CASE a # c
    <3>1. a \notin owing
      BY <1>1, <2>1, <2>3
    <3> QED
      BY <2>1, <2>2, <2>3, <3>1 DEF Settled
  <2>4. CASE a = c /\ extrinsicTable[c] = migration.read /\ c \notin migration.raced
    <3>1. Homes(a) \subseteq migration.found[a] \cup extrinsicTable[a]
      BY <2>1, <2>4 DEF Scanned
    <3> QED
      BY <2>1, <2>2, <2>4, <3>1
  <2>5. CASE a = c /\ ~(extrinsicTable[c] = migration.read /\ c \notin migration.raced)
    <3>1. a \notin owing
      BY <1>1, <2>1, <2>5
    <3>2. Homes(a) \subseteq extrinsicTable[a]
      BY <3>1 DEF Settled
    <3>3. extrinsicTable[a] \subseteq extrinsicTable'[a]
      BY <1>1, <2>1, <2>5
    <3> QED
      BY <2>2, <3>2, <3>3
  <2> QED
    BY <2>3, <2>4, <2>5
<1> QED
  BY <1>2, <1>3, <1>4, RowSteps

LEMMA ScannedStep ==
    ASSUME MappingTypes, RowsTrue, Written, Scanned, [MappingNext]_mapVars
    PROVE  Scanned'
<1>1. SUFFICES ASSUME migration'.at # "idle", NEW a \in Signers, a \notin migration'.raced,
                      migration'.at = "scan" \/ a \in migration'.todo,
                      NEW h \in Homes(a)', migration'.at = "scan" => h < migration'.table
               PROVE  h \in migration'.found[a] \cup extrinsicTable'[a]
  BY DEF Scanned
<1>0. \A o \in Homes(a)' : o \in Nat /\ o <= LastTable
  BY MappingTypesStep, HomesInTables DEF MappingTypes, Homes
<1>2. CASE UNCHANGED <<migration, extrinsicTable, signedStored>>
  BY <1>1, <1>2 DEF Scanned, Homes
<1>3. ASSUME NEW w \in MapWorkers, CommitSigned(w) PROVE h \in migration'.found[a] \cup extrinsicTable'[a]
  <2> DEFINE m == mapper[w]
             Stale(b, c) == HomeOf(b) \notin m.read /\ extrinsicTable[c] # m.read
  <2>1. PICK b \in SignedBlocks, c \in Signers :
          /\ b = mapper[w].block /\ c = AccountOf(b)
          /\ \A o \in Signers \ {c} : extrinsicTable'[o] = extrinsicTable[o]
          /\ \A o \in Signers \ {c} : Homes(o)' = Homes(o)
          /\ IF Stale(b, c) /\ migration.at # "idle"
             THEN /\ migration'.raced = migration.raced \cup {c} /\ migration'.at = migration.at
                  /\ migration'.found = migration.found /\ migration'.todo = migration.todo
                  /\ migration'.table = migration.table
             ELSE migration' = migration
    BY <1>3, CommitOf
  <2>2. /\ migration.at # "idle" /\ a \notin migration.raced /\ migration'.found = migration.found
        /\ migration'.at = migration.at
        /\ migration.at = "scan" \/ a \in migration.todo
        /\ migration.at = "scan" => h < migration.table
    BY <1>1, <2>1
  <2>3. h \in Homes(a) => h \in migration.found[a] \cup extrinsicTable[a]
    BY <2>2 DEF Scanned
  <2>4. CASE a # c
    BY <1>1, <2>1, <2>2, <2>3, <2>4
  <2>5. CASE a = c
    <3>1. HomeOf(b) \in m.read \/ extrinsicTable[a] = m.read
      BY <1>1, <2>1, <2>2, <2>5
    <3>2. extrinsicTable[a] \subseteq extrinsicTable'[a] /\ Homes(a)' \subseteq Homes(a) \cup extrinsicTable'[a]
      BY <1>3, <2>1, <2>5, <3>1, CommitKeeps
    <3> QED
      BY <1>1, <2>2, <2>3, <3>2
  <2> QED
    BY <2>4, <2>5
<1>4. CASE UpsertAccountRow
  <2>1. PICK c \in Signers :
              /\ \A o \in Signers \ {c} : extrinsicTable'[o] = extrinsicTable[o]
              /\ UNCHANGED signedStored /\ migration.at = "upsert"
              /\ migration'.at = "accounts" /\ migration'.todo = migration.todo \ {c}
              /\ migration'.found = migration.found /\ migration'.raced = migration.raced
    BY <1>1, <1>4, UpsertOf
  <2>2. a # c /\ a \in migration.todo /\ a \notin migration.raced /\ h \in Homes(a)
    BY <1>1, <2>1 DEF Homes
  <2>3. h \in migration.found[a] \cup extrinsicTable[a]
    BY <2>1, <2>2 DEF Scanned
  <2> QED
    BY <2>1, <2>2, <2>3
<1>5. CASE ScanTable
  <2> DEFINE t == migration.table
             found == [o \in Signers |-> migration.found[o] \cup {HomeOf(b) : b \in
                       {c \in signedStored : AccountOf(c) = o /\ HomeOf(c) = t}}]
  <2>1. /\ migration.at = "scan" /\ UNCHANGED <<extrinsicTable, signedStored>>
        /\ migration' = IF t <= LastTable THEN [migration EXCEPT !.table = t + 1, !.found = found]
                        ELSE [migration EXCEPT !.at = "accounts", !.todo = {o \in Signers : migration.found[o] # {}}]
    BY <1>5 DEF ScanTable
  <2>2. h \in Homes(a) /\ h \in Nat /\ t \in Nat
    BY <1>0, <1>1, <2>1 DEF Homes, MappingTypes
  <2>3. h = t => h \in found[a]
    BY <2>2 DEF Homes
  <2>4. migration.found[a] \subseteq found[a]
    OBVIOUS
  <2> HIDE DEF found
  <2>5. CASE t <= LastTable
    <3>1. /\ migration'.at = "scan" /\ migration'.table = t + 1 /\ migration'.found = found
          /\ migration'.raced = migration.raced
      BY <2>1, <2>5 DEF MappingTypes
    <3>2. h < t \/ h = t
      BY <1>1, <2>2, <3>1
    <3>3. h < t => h \in migration.found[a] \cup extrinsicTable[a]
      BY <1>1, <2>1, <2>2, <3>1 DEF Scanned
    <3> QED
      BY <2>1, <2>3, <2>4, <3>1, <3>2, <3>3
  <2>6. CASE ~(t <= LastTable)
    <3>1. migration'.found = migration.found /\ migration'.raced = migration.raced
      BY <2>1, <2>6 DEF MappingTypes
    <3>2. LastTable \in Nat /\ h <= LastTable
      <4>1. LastTable \in {HomeOf(b1) : b1 \in SignedBlocks}
        <5> DEFINE S == {HomeOf(c) : c \in SignedBlocks}
        <5>1. \E m \in S : \A n \in S : m >= n
          BY MappingAssumption DEF SignedBlocks, HomeOf
        <5> QED
          BY <5>1 DEF LastTable, Max
      <4> QED
        BY <1>0, <4>1, HomesInTables
    <3>3. h < t
      BY <2>2, <2>6, <3>2
    <3> QED
      BY <1>1, <2>1, <2>2, <3>1, <3>3 DEF Scanned
  <2> QED
    BY <2>5, <2>6
<1>6. CASE StartMigration
  <2>1. migration'.at = "scan" /\ migration'.table = 0
    BY <1>6 DEF StartMigration, NoMigration
  <2> QED
    BY <1>0, <1>1, <2>1
<1>7. CASE \E o \in Signers : ReadAccountRow(o)
  <2>1. /\ migration.at = "accounts" /\ migration'.at = "upsert" /\ migration'.todo = migration.todo
        /\ migration'.found = migration.found /\ migration'.raced = migration.raced
        /\ UNCHANGED <<extrinsicTable, signedStored>>
    BY <1>7 DEF ReadAccountRow, MappingTypes
  <2> QED
    BY <1>1, <2>1 DEF Scanned, Homes
<1>8. CASE EndMigration
  BY <1>1, <1>8 DEF EndMigration, NoMigration
<1>9. \/ UNCHANGED <<migration, extrinsicTable, signedStored>> \/ UpsertAccountRow \/ ScanTable
      \/ StartMigration \/ EndMigration
      \/ \E o \in Signers : ReadAccountRow(o)
      \/ \E w \in MapWorkers : CommitSigned(w)
  BY DEF MappingNext, InsertSigned, ReadMapping, UpdateAccountExtrinsicMapping, RollBackSigned, mapVars
<1> QED
  BY <1>2, <1>3, <1>4, <1>5, <1>6, <1>7, <1>8, <1>9

(* A row of the mapping names only tables with an extrinsic of the account,*)
(* and all of them, however transactions and runs of the command that read *)
(* and write it whole are interleaved, but for the rows that the history   *)
(* says were written back older than they were.                            *)
THEOREM MappingIsExact == MappingSpec => []MappingExact
<1>1. MappingInit => MappingInv
  <2> SUFFICES ASSUME MappingInit PROVE MappingInv
    OBVIOUS
  <2>1. /\ mapper = [w \in MapWorkers |-> NoMapping] /\ signedStored \in {{}, Unmapped}
        /\ extrinsicTable = [a \in Signers |-> {}] /\ migration = NoMigration
        /\ owing = {AccountOf(b) : b \in signedStored}
    BY DEF MappingInit
  <2>2. signedStored \subseteq SignedBlocks
    BY <2>1, MappingAssumption DEF SignedBlocks
  <2>3. MappingTypes
    BY <2>1, <2>2 DEF MappingTypes, NoMapping, NoMigration
  <2>4. \A a \in Signers : extrinsicTable[a] = {} /\ migration.found[a] = {}
    BY <2>1 DEF NoMigration
  <2>5. RowsTrue /\ Written /\ Scanned
    BY <2>1, <2>4 DEF RowsTrue, Written, Scanned, NoMapping, NoMigration
  <2>6. Settled
    BY <2>1 DEF Settled, Homes
  <2> QED
    BY <2>3, <2>5, <2>6 DEF MappingInv
<1>2. MappingInv /\ [MappingNext]_mapVars => MappingInv'
  BY MappingTypesStep, RowsTrueStep, WrittenStep, SettledStep, ScannedStep DEF MappingInv
<1>3. MappingInv => MappingExact
  BY DEF MappingInv, RowsTrue, Settled, MappingExact, Homes
<1> QED
  BY <1>1, <1>2, <1>3, PTL DEF MappingSpec

-----------------------------------------------------------------------------
(* The counters of extrinsics                                              *)

CountsSpec == CountsInit /\ [][CountsNext]_countVars

(* What is counted is additive.                                            *)
LEMMA RowsFinite ==
    ASSUME NEW S \in SUBSET CountedBlocks, NEW q \in Queries
    PROVE  IsFiniteSet(RowsIn(S, q))
<1> DEFINE T == {{b} \X (1..NumOf(b, q)) : b \in S}
           f == [b \in S |-> {b} \X (1..NumOf(b, q))]
<1>1. \A b \in S : NumOf(b, q) \in Nat
  BY CountsAssumption DEF NumOf
<1>2. IsFiniteSet(S)
  BY CountsAssumption, FS_Subset
<1>3. f \in Surjection(S, T)
  BY DEF Surjection
<1>4. IsFiniteSet(T)
  <2> HIDE DEF f, T
  <2> QED
    BY <1>2, <1>3, FS_Surjection
<1>5. ASSUME NEW b \in S PROVE IsFiniteSet({b} \X (1..NumOf(b, q)))
  <2> DEFINE n == NumOf(b, q)
  <2>1. 1 \in Int /\ n \in Int
    BY <1>1
  <2> HIDE DEF n
  <2>2. IsFiniteSet(1..n)
    BY <2>1, FS_Interval
  <2>3. IsFiniteSet({b})
    BY FS_Singleton
  <2> QED
    BY <2>2, <2>3, FS_Product DEF n
<1>6. \A U \in T : IsFiniteSet(U)
  BY <1>5
<1> HIDE DEF T
<1>7. IsFiniteSet(UNION T)
  BY <1>4, <1>6, FS_UNION
<1> QED
  BY <1>7 DEF T, RowsIn

LEMMA NumFacts ==
    ASSUME NEW S \in SUBSET CountedBlocks, NEW T \in SUBSET CountedBlocks, NEW q \in Queries
    PROVE  /\ NumIn(S, q) \in Nat
           /\ NumIn({}, q) = 0
           /\ S \subseteq T => NumIn(S, q) <= NumIn(T, q)
           /\ S \cap T = {} => NumIn(S \cup T, q) = NumIn(S, q) + NumIn(T, q)
<1>1. IsFiniteSet(RowsIn(S, q)) /\ IsFiniteSet(RowsIn(T, q))
  BY RowsFinite
<1>2. NumIn(S, q) \in Nat
  BY <1>1, FS_CardinalityType DEF NumIn
<1>3. NumIn({}, q) = 0
  BY FS_EmptySet DEF NumIn, RowsIn
<1>4. ASSUME S \subseteq T PROVE NumIn(S, q) <= NumIn(T, q)
  <2>1. RowsIn(S, q) \in SUBSET RowsIn(T, q)
    BY <1>4 DEF RowsIn
  <2> QED
    BY <1>1, <2>1, FS_Subset DEF NumIn
<1>5. ASSUME S \cap T = {} PROVE NumIn(S \cup T, q) = NumIn(S, q) + NumIn(T, q)
  <2>1. RowsIn(S \cup T, q) = RowsIn(S, q) \cup RowsIn(T, q)
    BY DEF RowsIn
  <2>2. RowsIn(S, q) \cap RowsIn(T, q) = {}
    BY <1>5 DEF RowsIn
  <2> DEFINE A == RowsIn(S, q)
             B == RowsIn(T, q)
  <2> HIDE DEF A, B
  <2>3. IsFiniteSet(A) /\ IsFiniteSet(B) /\ A \cap B = {}
    BY <1>1, <2>2 DEF A, B
  <2>4. Cardinality(A \cup B) = Cardinality(A) + Cardinality(B) - Cardinality(A \cap B)
    BY <2>3, FS_Union
  <2>5. Cardinality(A) \in Nat /\ Cardinality(B) \in Nat
    BY <2>3, FS_CardinalityType
  <2>6. Cardinality(A \cap B) = 0
    BY <2>3, FS_EmptySet
  <2>7. Cardinality(A \cup B) = Cardinality(A) + Cardinality(B)
    BY <2>4, <2>5, <2>6
  <2> QED
    BY <2>1, <2>7 DEF NumIn, A, B
<1> QED
  BY <1>2, <1>3, <1>4, <1>5

LEMMA NumOne ==
    ASSUME NEW S \in SUBSET CountedBlocks, NEW b \in CountedBlocks \ S, NEW q \in Queries
    PROVE  NumOf(b, q) \in Nat /\ NumIn(S \cup {b}, q) = NumIn(S, q) + NumOf(b, q)
<1>1. NumOf(b, q) \in Nat
  BY CountsAssumption DEF NumOf
<1> DEFINE n == NumOf(b, q)
<1>2. 1 \in Int /\ n \in Int /\ n \in Nat
  BY <1>1
<1> HIDE DEF n
<1>3. IsFiniteSet(1..n) /\ Cardinality(1..n) = n
  <2>1. IsFiniteSet(1..n) /\ Cardinality(1..n) = IF 1 > n THEN 0 ELSE n - 1 + 1
    BY <1>2, FS_Interval
  <2> QED
    BY <1>2, <2>1
<1>4. IsFiniteSet({b}) /\ Cardinality({b}) = 1
  BY FS_Singleton
<1>5. Cardinality({b} \X (1..n)) = Cardinality({b}) * Cardinality(1..n)
  BY <1>3, <1>4, FS_Product
<1>6. Cardinality({b} \X (1..n)) = n
  BY <1>2, <1>3, <1>4, <1>5
<1>7. NumIn({b}, q) = n
  BY <1>6 DEF NumIn, RowsIn, n
<1>8. {b} \in SUBSET CountedBlocks /\ S \cap {b} = {}
  OBVIOUS
<1>9. NumIn(S \cup {b}, q) = NumIn(S, q) + NumIn({b}, q)
  BY <1>8, NumFacts
<1> QED
  BY <1>1, <1>7, <1>9 DEF n

(* A set of naturals with a bound has a greatest member.                   *)
LEMMA Greatest ==
    ASSUME NEW S \in SUBSET Nat, S # {}, NEW n \in Nat, \A x \in S : x <= n
    PROVE  Max(S) \in S /\ \A x \in S : x <= Max(S)
<1> DEFINE T == {k \in Nat : \A x \in S : x <= k}
           R == OpToRel(<, Nat)
<1>1. T \subseteq Nat /\ T # {}
  OBVIOUS
<1>2. PICK m \in T : \A k \in T : ~(<<k, m>> \in R)
  <2>1. IsWellFoundedOn(R, Nat)
    BY NatLessThanWellFounded
  <2> HIDE DEF T, R
  <2> QED
    BY <1>1, <2>1, WFMin
<1>3. \A k \in T : ~(k < m)
  BY <1>2 DEF OpToRel
<1>4. m \in S
  <2> SUFFICES ASSUME m \notin S PROVE FALSE
    OBVIOUS
  <2>1. \A x \in S : x <= m /\ x # m
    OBVIOUS
  <2>2. PICK y \in S : TRUE
    OBVIOUS
  <2>3. m \in Nat /\ m - 1 \in Nat
    BY <2>1, <2>2
  <2>4. \A x \in S : x <= m - 1
    BY <2>1, <2>3
  <2>5. m - 1 \in T
    BY <2>3, <2>4
  <2> QED
    BY <1>3, <2>3, <2>5
<1>5. \E x \in S : \A y \in S : x >= y
  BY <1>4
<1>6. Max(S) \in S /\ \A y \in S : Max(S) >= y
  BY <1>5 DEF Max
<1> QED
  BY <1>6

(* The blocks that have been counted: stored ones, and those of open       *)
(* transactions that are past the command.                                 *)
After(q) == IF q = "all" THEN {"signed", "commit"} ELSE {"commit"}
Past(q)  == {w \in CountWorkers : counting[w].at \in After(q)}
Into(q)  == counted \cup {counting[w].block : w \in Past(q)}
Above(i) == {b \in counted : TableOfBlock(b) > i}

(* A sum of rows is never above what is stored, and is that when exact.    *)
Sound(n, exact, blocks, q) == n <= NumIn(blocks, q) /\ (exact => n = NumIn(blocks, q))

CountTypes ==
    /\ counting \in [CountWorkers -> [at : {"idle", "all", "signed", "commit", "getBest", "setBest"},
                                      block : CountedBlocks \cup {0}, best : CountedBlocks \cup {0}]]
    /\ \A w \in CountWorkers : counting[w].at # "idle" => counting[w].block \in CountedBlocks
    /\ counted \subseteq CountedBlocks
    /\ count \in [Queries -> Int]
    /\ bestFilled \in CountedBlocks \cup {0}
    /\ countCache \in [Tables -> [Queries -> Int]]
    /\ refresh \in [at : {"idle", "all", "signed", "set"}, latest : Nat, index : Nat, sum : Int, all : Int,
                    exact : BOOLEAN]
    /\ drift \in {"exact", "differ", "exceed"}

(* No two transactions are of the same block, and none of a stored one ... *)
Distinct ==
    /\ \A v, w \in Open : v # w => counting[v].block # counting[w].block
    /\ \A w \in Open : counting[w].block \notin counted

(* ... the counters are sound for what has been counted into them ...      *)
Counters ==
    \A q \in Queries :
        /\ drift # "exceed" => count[q] <= NumIn(Into(q), q)
        /\ drift = "exact" => count[q] = NumIn(Into(q), q)

(* ... a cached count is not above its table ...                           *)
Cached == \A i \in Tables, q \in Queries : countCache[i][q] <= NumIn(InTable(i), q)

(* ... and a recount is sound for the tables it has passed, and exact only *)
(* while nothing is stored.                                                *)
Refreshed ==
    /\ refresh.at # "idle" /\ refresh.exact => Open = {}
    /\ refresh.at \in Queries =>
         /\ refresh.index <= refresh.latest /\ (refresh.latest # 0 => refresh.latest \in Tables)
         /\ Sound(refresh.sum, refresh.exact, Above(refresh.index), refresh.at)
    /\ refresh.at \in {"signed", "set"} => Sound(refresh.all, refresh.exact, counted, "all")
    /\ refresh.at = "set" => Sound(refresh.sum, refresh.exact, counted, "signed")

CountsInv == CountTypes /\ Distinct /\ Counters /\ Cached /\ Refreshed

(* Counts of fewer blocks stay below those of more.                        *)
LEMMA IntoFacts ==
    ASSUME CountTypes, NEW q \in Queries
    PROVE  /\ Into(q) \in SUBSET CountedBlocks /\ counted \subseteq Into(q)
           /\ Past(q) \subseteq Open
           /\ Into(q) \subseteq counted \cup {counting[w].block : w \in Open}
           /\ counted \cup {counting[w].block : w \in Open} \in SUBSET CountedBlocks
  BY DEF Into, Past, After, Open, CountTypes, Queries

(* A recount that has gone on from the newest table is in one that there is.*)
LEMMA RecountInTables ==
    ASSUME CountTypes, Refreshed, refresh.at \in Queries, refresh.index # refresh.latest
    PROVE  refresh.index \in Tables
<1>1. /\ refresh.latest \in Tables /\ refresh.index \in 0..refresh.latest
  BY DEF CountTypes, Refreshed
<1>2. PICK b \in CountedBlocks : ExtrinsicsOf[b].table = refresh.latest
  BY <1>1 DEF Tables, TableOfBlock
<1>3. PICK c \in CountedBlocks : ExtrinsicsOf[c].table = refresh.index
  BY <1>1, <1>2, CountsAssumption
<1> QED
  BY <1>3 DEF Tables, TableOfBlock

LEMMA InTableFacts ==
    ASSUME CountTypes, NEW i
    PROVE  InTable(i) \in SUBSET CountedBlocks /\ counted \in SUBSET CountedBlocks
  BY DEF InTable, CountTypes

LEMMA CountTypesStep ==
    ASSUME CountTypes, Refreshed, [CountsNext]_countVars
    PROVE  CountTypes'
<1> DEFINE W == [at : {"idle", "all", "signed", "commit", "getBest", "setBest"},
                 block : CountedBlocks \cup {0}, best : CountedBlocks \cup {0}]
           R == [at : {"idle", "all", "signed", "set"}, latest : Nat, index : Nat, sum : Int, all : Int,
                 exact : BOOLEAN]
<1>0. /\ NoFill \in W /\ NoFill.at = "idle" /\ NoRefresh \in R
      /\ \A b \in CountedBlocks : /\ TableOfBlock(b) \in Nat
                                  /\ \A q \in Queries : NumOf(b, q) \in Nat
      /\ LatestTable \in Nat
  BY CountsAssumption DEF NoFill, NoRefresh, TableOfBlock, NumOf, LatestTable, CountTypes
<1>1. ASSUME NEW w \in CountWorkers, NEW m \in W, counting' = [counting EXCEPT ![w] = m],
             m.at # "idle" => m.block \in CountedBlocks,
             counted' \subseteq CountedBlocks, count' \in [Queries -> Int],
             bestFilled' \in CountedBlocks \cup {0}, UNCHANGED countCache,
             refresh' \in R, drift' \in {"exact", "differ", "exceed"}
      PROVE  CountTypes'
  BY <1>1 DEF CountTypes
<1>2. /\ \A w \in CountWorkers : counting[w] \in W /\ (counting[w].at # "idle" => counting[w].block \in CountedBlocks)
      /\ counted \subseteq CountedBlocks /\ count \in [Queries -> Int]
      /\ bestFilled \in CountedBlocks \cup {0} /\ refresh \in R /\ drift \in {"exact", "differ", "exceed"}
      /\ countCache \in [Tables -> [Queries -> Int]]
  BY DEF CountTypes
<1>3. ASSUME NEW w \in CountWorkers, NEW b \in CountedBlocks, InsertExtrinsics(w, b) PROVE CountTypes'
  <2> DEFINE m == [NoFill EXCEPT !.at = IF b \in counted THEN "getBest" ELSE "all", !.block = b]
  <2>1. m \in W /\ m.block = b
    BY <1>0 DEF NoFill
  <2>2. /\ counting' = [counting EXCEPT ![w] = m] /\ refresh' \in {refresh, [refresh EXCEPT !.exact = FALSE]}
        /\ UNCHANGED <<counted, count, bestFilled, countCache, drift>>
    BY <1>3 DEF InsertExtrinsics
  <2>3. refresh' \in R
    BY <1>2, <2>2
  <2> HIDE DEF m
  <2> QED
    BY <1>1, <1>2, <2>1, <2>2, <2>3
<1>4. ASSUME NEW w \in CountWorkers, NEW p \in {"signed", "commit", "getBest"}, counting[w].at # "idle",
             counting' = [counting EXCEPT ![w].at = p],
             counted' \subseteq CountedBlocks, count' \in [Queries -> Int], drift' \in {"exact", "differ", "exceed"},
             UNCHANGED <<bestFilled, countCache, refresh>>
      PROVE  CountTypes'
  <2> DEFINE m == [counting[w] EXCEPT !.at = p]
  <2>1. m \in W /\ m.block = counting[w].block
    BY <1>2
  <2>2. counting' = [counting EXCEPT ![w] = m]
    BY <1>4
  <2> HIDE DEF m
  <2> QED
    BY <1>1, <1>2, <1>4, <2>1, <2>2
<1>5. ASSUME NEW w \in CountWorkers, IncrMetadata(w) PROVE CountTypes'
  <2>1. /\ counting[w].at \in {"all", "signed"} /\ counting[w].block \in CountedBlocks
        /\ UNCHANGED <<counted, bestFilled, countCache, refresh>>
    BY <1>2, <1>5 DEF IncrMetadata, Queries
  <2> DEFINE q == counting[w].at
             n == NumOf(counting[w].block, q)
  <2>2. n \in Nat
    BY <1>0, <2>1 DEF Queries
  <2>3. \/ count' = [count EXCEPT ![q] = @ + n] /\ UNCHANGED drift
        \/ UNCHANGED count /\ drift' \in {"differ", drift}
    BY <1>5 DEF IncrMetadata, Incr
  <2> HIDE DEF n
  <2>4. count' \in [Queries -> Int] /\ drift' \in {"exact", "differ", "exceed"}
    BY <1>2, <2>1, <2>2, <2>3 DEF Queries
  <2>5. \E p \in {"signed", "commit"} : counting' = [counting EXCEPT ![w].at = p]
    BY <1>5 DEF IncrMetadata
  <2> QED
    BY <1>2, <1>4, <2>1, <2>4, <2>5
<1>6. ASSUME NEW w \in CountWorkers, CommitExtrinsics(w) PROVE CountTypes'
  BY <1>2, <1>4, <1>6 DEF CommitExtrinsics
<1>7. ASSUME NEW w \in CountWorkers, RollBack(w) PROVE CountTypes'
  BY <1>0, <1>1, <1>2, <1>7 DEF RollBack
<1>8. ASSUME NEW w \in CountWorkers, GetBest(w) PROVE CountTypes'
  <2> DEFINE m == [counting[w] EXCEPT !.at = "setBest", !.best = bestFilled]
  <2>1. counting[w].at # "idle" /\ counting' = [counting EXCEPT ![w] = m]
        /\ UNCHANGED <<counted, count, bestFilled, countCache, refresh, drift>>
    BY <1>8 DEF GetBest
  <2>2. m \in W /\ m.block = counting[w].block
    BY <1>2
  <2> HIDE DEF m
  <2> QED
    BY <1>1, <1>2, <2>1, <2>2
<1>9. ASSUME NEW w \in CountWorkers, SetBest(w) PROVE CountTypes'
  <2>1. counting[w].block \in CountedBlocks
    BY <1>2, <1>9 DEF SetBest
  <2>2. /\ counting' = [counting EXCEPT ![w] = NoFill] /\ bestFilled' \in {counting[w].block, bestFilled}
        /\ UNCHANGED <<counted, count, countCache, refresh, drift>>
    BY <1>9 DEF SetBest
  <2>3. bestFilled' \in CountedBlocks \cup {0}
    BY <1>2, <2>1, <2>2
  <2> QED
    BY <1>0, <1>1, <1>2, <2>2, <2>3
<1>10. ASSUME NEW r \in R, refresh' = r, UNCHANGED <<counting, counted, bestFilled>>,
              count' \in [Queries -> Int], countCache' \in [Tables -> [Queries -> Int]],
              drift' \in {"exact", "differ", "exceed"}
       PROVE  CountTypes'
  BY <1>10 DEF CountTypes
<1>11. ASSUME NEW q \in Queries, NEW r \in R PROVE CountFrom(q, r) \in R
  <2> DEFINE x == r.exact /\ LatestTable >= Newest
  <2>1. x \in BOOLEAN
    BY <1>11
  <2>2. CountFrom(q, r) = [r EXCEPT !.at = q, !.latest = LatestTable, !.index = LatestTable, !.sum = 0, !.exact = x]
    BY <1>11 DEF CountFrom
  <2> HIDE DEF x
  <2>3. CountFrom(q, r) = [at |-> q, latest |-> LatestTable, index |-> LatestTable, sum |-> 0, all |-> r.all, exact |-> x]
    BY <1>11, <2>2
  <2>4. q \in {"idle", "all", "signed", "set"} /\ r.all \in Int
    BY <1>11 DEF Queries
  <2> QED
    BY <1>0, <2>1, <2>3, <2>4
<1>12. ASSUME StartRefresh PROVE CountTypes'
  <2>1. [NoRefresh EXCEPT !.exact = Open = {}] \in R
    BY <1>0
  <2>2. refresh' \in R
    BY <1>11, <1>12, <2>1 DEF StartRefresh, Queries
  <2> QED
    BY <1>2, <1>10, <1>12, <2>2 DEF StartRefresh
<1>13. ASSUME NEW n \in Int, NEW e \in BOOLEAN, refresh.at \in Queries, AddCount(n, e) PROVE refresh' \in R
  <2> DEFINE r == [refresh EXCEPT !.sum = @ + n, !.exact = @ /\ e]
  <2>1. r \in R
    <3> DEFINE x == refresh.exact /\ e
               k == refresh.sum + n
    <3>1. x \in BOOLEAN /\ k \in Int
      BY <1>2
    <3>2. r = [refresh EXCEPT !.sum = k, !.exact = x]
      BY <1>2
    <3> HIDE DEF x, k, r
    <3> QED
      BY <1>2, <3>1, <3>2
  <2> HIDE DEF r
  <2>2. /\ r.index > 0 => [r EXCEPT !.index = @ - 1] \in R
        /\ [r EXCEPT !.at = "set"] \in R /\ [r EXCEPT !.all = r.sum] \in R
    BY <2>1
  <2>3. CountFrom("signed", [r EXCEPT !.all = r.sum]) \in R
    BY <1>11, <2>2 DEF Queries
  <2>4. refresh' = CASE r.index > 0                -> [r EXCEPT !.index = @ - 1]
                     [] r.index = 0 /\ r.at = "all" -> CountFrom("signed", [r EXCEPT !.all = r.sum])
                     [] OTHER                      -> [r EXCEPT !.at = "set"]
    BY <1>13 DEF AddCount, r
  <2> QED
    BY <2>2, <2>3, <2>4
<1>14. ASSUME CountTable PROVE CountTypes'
  <2> DEFINE i == refresh.index
             q == refresh.at
             n == NumIn(InTable(i), q)
  <2>1. q \in Queries /\ UNCHANGED <<counting, counted, count, bestFilled, drift>>
    BY <1>14 DEF CountTable
  <2>2. n \in Nat
    BY <2>1, InTableFacts, NumFacts
  <2> HIDE DEF n
  <2>3. \/ UseCache(i) /\ AddCount(countCache[i][q], countCache[i][q] = n) /\ UNCHANGED countCache
        \/ AddCount(n, TRUE) /\ CacheCount(i, n)
        \/ AddCount(0, FALSE) /\ CacheCount(i, 0)
    BY <1>14 DEF CountTable, n
  <2>4. refresh' \in R
    <3>1. CASE UseCache(i) /\ AddCount(countCache[i][q], countCache[i][q] = n)
      <4>1. i \in Tables
        BY <2>1, <3>1, RecountInTables DEF UseCache
      <4>2. countCache[i][q] \in Int /\ (countCache[i][q] = n) \in BOOLEAN
        BY <1>2, <2>1, <4>1
      <4> QED
        BY <1>13, <2>1, <3>1, <4>2
    <3>2. CASE AddCount(n, TRUE) \/ AddCount(0, FALSE)
      <4>1. n \in Int /\ 0 \in Int /\ TRUE \in BOOLEAN /\ FALSE \in BOOLEAN
        BY <2>2
      <4> QED
        BY <1>13, <2>1, <3>2, <4>1
    <3> QED
      BY <2>3, <3>1, <3>2
  <2>5. countCache' \in [Tables -> [Queries -> Int]]
    <3>1. ASSUME NEW k \in Int, CacheCount(i, k) PROVE countCache' \in [Tables -> [Queries -> Int]]
      <4>1. countCache' \in {countCache, [countCache EXCEPT ![i][q] = k]}
        BY <3>1 DEF CacheCount
      <4> QED
        BY <1>2, <2>1, <4>1
    <3>2. n \in Int /\ 0 \in Int
      BY <2>2
    <3> QED
      BY <1>2, <2>3, <3>1, <3>2
  <2> QED
    BY <1>2, <1>10, <2>1, <2>4, <2>5
<1>15. ASSUME SetMetadata PROVE CountTypes'
  <2>1. /\ refresh' = NoRefresh /\ UNCHANGED <<counting, counted, bestFilled, countCache>>
        /\ drift' \in {drift, "exact", "differ"}
        /\ count' \in {count, [all |-> refresh.all, signed |-> refresh.sum]}
    BY <1>15 DEF SetMetadata
  <2>2. [all |-> refresh.all, signed |-> refresh.sum] \in [Queries -> Int]
    BY <1>2 DEF Queries
  <2> QED
    BY <1>0, <1>2, <1>10, <2>1, <2>2
<1>16. ASSUME NEW i \in Tables, NEW q \in Queries, ExpireCount(i, q) PROVE CountTypes'
  <2>1. /\ UNCHANGED <<counting, counted, count, bestFilled, refresh, drift>>
        /\ countCache' = [countCache EXCEPT ![i][q] = -1]
    BY <1>16 DEF ExpireCount
  <2>2. countCache' \in [Tables -> [Queries -> Int]]
    BY <1>2, <2>1
  <2> QED
    BY <1>2, <1>10, <2>1, <2>2
<1>17. ASSUME UNCHANGED countVars PROVE CountTypes'
  BY <1>17 DEF CountTypes, countVars
<1> QED
  BY <1>3, <1>5, <1>6, <1>7, <1>8, <1>9, <1>12, <1>14, <1>15, <1>16, <1>17
     DEF CountsNext, CountStep, RefreshStep

(* A goroutine moves from one place of its transaction to another.         *)
LEMMA CountingSteps ==
    ASSUME CountTypes, [CountsNext]_countVars
    PROVE  \/ UNCHANGED <<counting, counted>>
           \/ \E w \in CountWorkers, b \in CountedBlocks :
                /\ counting'[w].block = b \/ counting'[w].at = "idle"
                /\ \A v \in CountWorkers \ {w} : counting'[v] = counting[v]
                /\ \/ /\ InsertExtrinsics(w, b) /\ counting[w].at = "idle" /\ UNCHANGED counted
                      /\ \A v \in Open : counting[v].block # b
                      /\ counting'[w].at = IF b \in counted THEN "getBest" ELSE "all"
                   \/ /\ IncrMetadata(w) /\ counting[w].block = b /\ counting[w].at \in Queries /\ UNCHANGED counted
                      /\ counting'[w].at = IF counting[w].at = "all" THEN "signed" ELSE "commit"
                   \/ /\ CommitExtrinsics(w) /\ counting[w].block = b /\ counting[w].at = "commit"
                      /\ counted' = counted \cup {b} /\ counting'[w].at = "getBest"
                   \/ /\ RollBack(w) /\ counting[w].block = b /\ w \in Open /\ counting'[w].at = "idle"
                      /\ UNCHANGED counted
                   \/ /\ GetBest(w) \/ SetBest(w)
                      /\ counting[w].at \in {"getBest", "setBest"} /\ counting'[w].at \in {"setBest", "idle"}
                      /\ UNCHANGED counted
<1>1. ASSUME NEW w \in CountWorkers, NEW b \in CountedBlocks, InsertExtrinsics(w, b)
      PROVE  /\ counting'[w].block = b /\ counting[w].at = "idle" /\ UNCHANGED counted
             /\ \A v \in CountWorkers \ {w} : counting'[v] = counting[v]
             /\ \A v \in Open : counting[v].block # b
             /\ counting'[w].at = IF b \in counted THEN "getBest" ELSE "all"
  BY <1>1 DEF InsertExtrinsics, CountTypes, NoFill
<1>2. ASSUME NEW w \in CountWorkers, counting[w].at # "idle"
      PROVE  counting[w].block \in CountedBlocks
  BY <1>2 DEF CountTypes
<1>3. ASSUME NEW w \in CountWorkers, IncrMetadata(w)
      PROVE  /\ counting[w].at \in Queries /\ counting[w].at # "idle" /\ UNCHANGED counted
             /\ counting'[w].at = IF counting[w].at = "all" THEN "signed" ELSE "commit"
             /\ counting'[w].block = counting[w].block
             /\ \A v \in CountWorkers \ {w} : counting'[v] = counting[v]
  BY <1>3 DEF IncrMetadata, CountTypes, Queries
<1>4. ASSUME NEW w \in CountWorkers, CommitExtrinsics(w)
      PROVE  /\ counting[w].at = "commit" /\ counted' = counted \cup {counting[w].block}
             /\ counting'[w].at = "getBest" /\ counting'[w].block = counting[w].block
             /\ \A v \in CountWorkers \ {w} : counting'[v] = counting[v]
  BY <1>4 DEF CommitExtrinsics, CountTypes
<1>5. ASSUME NEW w \in CountWorkers, RollBack(w)
      PROVE  /\ w \in Open /\ counting[w].at # "idle" /\ counting'[w].at = "idle" /\ UNCHANGED counted
             /\ \A v \in CountWorkers \ {w} : counting'[v] = counting[v]
  BY <1>5 DEF RollBack, CountTypes, NoFill, Open
<1>6. ASSUME NEW w \in CountWorkers, GetBest(w) \/ SetBest(w)
      PROVE  /\ counting[w].at \in {"getBest", "setBest"} /\ counting'[w].at \in {"setBest", "idle"}
             /\ counting'[w].block = counting[w].block \/ counting'[w].at = "idle"
             /\ UNCHANGED counted
             /\ \A v \in CountWorkers \ {w} : counting'[v] = counting[v]
  BY <1>6 DEF GetBest, SetBest, CountTypes, NoFill
<1>7. CASE UNCHANGED <<counting, counted>>
  BY <1>7
<1>8. ASSUME NEW w \in CountWorkers, NEW b \in CountedBlocks, InsertExtrinsics(w, b)
      PROVE  \E v \in CountWorkers, c \in CountedBlocks :
                /\ counting'[v].block = c \/ counting'[v].at = "idle"
                /\ \A u \in CountWorkers \ {v} : counting'[u] = counting[u]
                /\ InsertExtrinsics(v, c) /\ counting[v].at = "idle" /\ UNCHANGED counted
                /\ \A u \in Open : counting[u].block # c
                /\ counting'[v].at = IF c \in counted THEN "getBest" ELSE "all"
  BY <1>1, <1>8
<1>9. \/ UNCHANGED <<counting, counted>>
      \/ \E w \in CountWorkers, b \in CountedBlocks : InsertExtrinsics(w, b)
      \/ \E w \in CountWorkers : IncrMetadata(w) \/ CommitExtrinsics(w) \/ RollBack(w) \/ GetBest(w) \/ SetBest(w)
  BY DEF CountsNext, CountStep, RefreshStep, StartRefresh, CountTable, SetMetadata, ExpireCount, countVars
<1> QED
  BY <1>2, <1>3, <1>4, <1>5, <1>6, <1>7, <1>8, <1>9

LEMMA DistinctStep ==
    ASSUME CountTypes, Distinct, [CountsNext]_countVars
    PROVE  Distinct'
<1>1. CASE UNCHANGED <<counting, counted>>
  BY <1>1 DEF Distinct, Open
<1>2. ASSUME NEW w \in CountWorkers, NEW b \in CountedBlocks,
             counting'[w].block = b \/ counting'[w].at = "idle",
             \A v \in CountWorkers \ {w} : counting'[v] = counting[v]
      PROVE  /\ w \notin Open' /\ counted' \subseteq counted \cup {b} /\ w \in Open /\ counting[w].block = b => Distinct'
             /\ w \notin Open' /\ UNCHANGED counted => Distinct'
             /\ w \in Open /\ counting[w].block = b /\ UNCHANGED counted => Distinct'
             /\ b \notin counted /\ UNCHANGED counted /\ (\A v \in Open : counting[v].block # b) => Distinct'
  BY <1>2 DEF Distinct, Open
<1>3. ASSUME NEW w \in CountWorkers, NEW b \in CountedBlocks,
             counting'[w].block = b \/ counting'[w].at = "idle",
             \A v \in CountWorkers \ {w} : counting'[v] = counting[v],
             \/ /\ counting[w].at = "idle" /\ UNCHANGED counted
                /\ \A v \in Open : counting[v].block # b
                /\ counting'[w].at = IF b \in counted THEN "getBest" ELSE "all"
             \/ /\ counting[w].block = b /\ counting[w].at \in Queries /\ UNCHANGED counted
                /\ counting'[w].at = IF counting[w].at = "all" THEN "signed" ELSE "commit"
             \/ /\ counting[w].block = b /\ counting[w].at = "commit"
                /\ counted' = counted \cup {b} /\ counting'[w].at = "getBest"
             \/ counting'[w].at \in {"setBest", "idle"} /\ UNCHANGED counted
      PROVE  Distinct'
  <2>1. w \in Open' <=> counting'[w].at \in {"all", "signed", "commit"}
    BY DEF Open
  <2>2. w \in Open <=> counting[w].at \in {"all", "signed", "commit"}
    BY DEF Open
  <2> QED
    BY <1>2, <1>3, <2>1, <2>2 DEF Queries
<1> QED
  BY <1>1, <1>3, CountingSteps

(* What has been counted into a counter only changes with the counter.     *)
LEMMA IntoStep ==
    ASSUME CountTypes, Distinct, [CountsNext]_countVars, NEW q \in Queries
    PROVE  \/ Into(q)' = Into(q)
           \/ \E w \in CountWorkers : IncrMetadata(w) /\ counting[w].at = q
           \/ \E w \in CountWorkers : RollBack(w) /\ counting[w].at # "all"
<1>1. CASE UNCHANGED <<counting, counted>>
  BY <1>1 DEF Into, Past, After
<1>2. ASSUME NEW w \in CountWorkers, \A v \in CountWorkers \ {w} : counting'[v] = counting[v],
             w \notin Past(q)', UNCHANGED counted, w \notin Past(q)
      PROVE  Into(q)' = Into(q)
  BY <1>2 DEF Into, Past
<1>3. ASSUME NEW w \in CountWorkers, NEW b \in CountedBlocks,
             \A v \in CountWorkers \ {w} : counting'[v] = counting[v],
             counting[w].block = b, w \in Past(q),
             \/ w \in Past(q)' /\ UNCHANGED counted /\ counting'[w].block = b
             \/ w \notin Past(q)' /\ counted' = counted \cup {b}
      PROVE  Into(q)' = Into(q)
  <2>1. \A v \in CountWorkers \ {w} : v \in Past(q)' <=> v \in Past(q)
    BY <1>3 DEF Past
  <2>2. Past(q) \subseteq CountWorkers /\ Past(q)' \subseteq CountWorkers
    BY DEF Past
  <2>3. CASE w \in Past(q)' /\ UNCHANGED counted /\ counting'[w].block = b
    <3>1. Past(q)' = Past(q)
      BY <1>3, <2>1, <2>2, <2>3
    <3>2. \A v \in Past(q) : counting'[v].block = counting[v].block
      BY <1>3, <2>2, <2>3
    <3> QED
      BY <2>3, <3>1, <3>2 DEF Into
  <2>4. CASE w \notin Past(q)' /\ counted' = counted \cup {b}
    <3>1. Past(q)' = Past(q) \ {w}
      BY <1>3, <2>1, <2>2, <2>4
    <3>2. \A v \in Past(q) \ {w} : counting'[v].block = counting[v].block
      BY <1>3, <2>2
    <3>3. {counting[v].block : v \in Past(q)} = {counting[v].block : v \in Past(q) \ {w}} \cup {b}
      BY <1>3
    <3>4. Into(q)' = counted \cup {b} \cup {counting[v].block : v \in Past(q) \ {w}}
      BY <2>4, <3>1, <3>2 DEF Into
    <3> QED
      BY <3>3, <3>4 DEF Into
  <2> QED
    BY <1>3, <2>3, <2>4
<1>4. \A w \in CountWorkers : /\ w \in Past(q) <=> counting[w].at \in After(q)
                              /\ w \in Past(q)' <=> counting'[w].at \in After(q)
  BY DEF Past, After
<1>5. ASSUME NEW w \in CountWorkers, NEW b \in CountedBlocks,
             counting'[w].block = b \/ counting'[w].at = "idle",
             \A v \in CountWorkers \ {w} : counting'[v] = counting[v],
             \/ /\ counting[w].at = "idle" /\ UNCHANGED counted
                /\ counting'[w].at = IF b \in counted THEN "getBest" ELSE "all"
             \/ /\ counting[w].at # q /\ counting[w].block = b /\ counting[w].at \in Queries /\ UNCHANGED counted
                /\ counting'[w].at = IF counting[w].at = "all" THEN "signed" ELSE "commit"
             \/ /\ counting[w].block = b /\ counting[w].at = "commit"
                /\ counted' = counted \cup {b} /\ counting'[w].at = "getBest"
             \/ counting[w].at = "all" /\ counting'[w].at = "idle" /\ UNCHANGED counted
             \/ /\ counting[w].at \in {"getBest", "setBest"} /\ counting'[w].at \in {"setBest", "idle"}
                /\ UNCHANGED counted
      PROVE  Into(q)' = Into(q)
  BY <1>2, <1>3, <1>4, <1>5 DEF After, Queries
<1> QED
  BY <1>1, <1>5, CountingSteps

LEMMA CountersStep ==
    ASSUME CountTypes, Distinct, Counters, Refreshed, [CountsNext]_countVars
    PROVE  Counters'
<1>0. /\ CountTypes' /\ Queries = {"all", "signed"}
      /\ \A q \in Queries : /\ Into(q) \in SUBSET CountedBlocks /\ Into(q)' \in SUBSET CountedBlocks
                            /\ NumIn(Into(q), q) \in Nat /\ NumIn(Into(q)', q) \in Nat
                            /\ count[q] \in Int /\ count'[q] \in Int
  <2>1. CountTypes'
    BY CountTypesStep
  <2>2. \A q \in Queries : Into(q) \in SUBSET CountedBlocks
    BY IntoFacts
  <2>3. \A q \in Queries : Into(q)' \in SUBSET CountedBlocks
    BY <2>1 DEF Into, Past, After, CountTypes, Queries
  <2>4. \A q \in Queries : NumIn(Into(q), q) \in Nat /\ NumIn(Into(q)', q) \in Nat
    BY <2>2, <2>3, NumFacts
  <2> QED
    BY <2>1, <2>2, <2>3, <2>4 DEF CountTypes, Queries
<1>1. SUFFICES ASSUME NEW q \in Queries
               PROVE  /\ drift' # "exceed" => count'[q] <= NumIn(Into(q)', q)
                      /\ drift' = "exact" => count'[q] = NumIn(Into(q)', q)
  BY DEF Counters
<1>2. /\ drift # "exceed" => count[q] <= NumIn(Into(q), q)
      /\ drift = "exact" => count[q] = NumIn(Into(q), q)
  BY DEF Counters
<1>3. CASE SetMetadata
  <2>1. UNCHANGED <<counting, counted>>
    BY <1>3 DEF SetMetadata
  <2>2. Into(q)' = Into(q)
    BY <2>1 DEF Into, Past, After
  <2>3. CASE UNCHANGED <<count, drift>>
    BY <1>2, <2>2, <2>3
  <2>4. CASE count' = [all |-> refresh.all, signed |-> refresh.sum] /\ drift' = IF refresh.exact THEN "exact" ELSE "differ"
    <3>1. Sound(count'[q], refresh.exact, counted, q)
      BY <1>0, <1>3, <2>4 DEF SetMetadata, Refreshed
    <3>2. counted \in SUBSET CountedBlocks /\ counted \subseteq Into(q)
      BY IntoFacts DEF CountTypes
    <3>3. NumIn(counted, q) <= NumIn(Into(q), q) /\ NumIn(counted, q) \in Nat
      BY <1>0, <3>2, NumFacts
    <3>4. refresh.exact => Into(q) = counted
      BY <1>3, IntoFacts DEF SetMetadata, Refreshed
    <3>5. refresh.exact => drift' = "exact"
      BY <2>4
    <3>6. ~refresh.exact => drift' = "differ"
      BY <2>4
    <3>7. count'[q] <= NumIn(Into(q), q)
      BY <1>0, <3>1, <3>3 DEF Sound
    <3> QED
      BY <2>2, <3>1, <3>4, <3>5, <3>6, <3>7 DEF Sound
  <2> QED
    BY <1>3, <2>3, <2>4 DEF SetMetadata
<1>4. ASSUME NEW w \in CountWorkers, IncrMetadata(w)
      PROVE  /\ drift' # "exceed" => count'[q] <= NumIn(Into(q)', q)
             /\ drift' = "exact" => count'[q] = NumIn(Into(q)', q)
  <2> DEFINE p == counting[w].at
             b == counting[w].block
             n == NumOf(b, p)
  <2>1. /\ p \in Queries /\ b \in CountedBlocks /\ w \in Open /\ UNCHANGED counted
        /\ counting' = [counting EXCEPT ![w].at = IF @ = "all" THEN "signed" ELSE "commit"]
    BY <1>4 DEF IncrMetadata, Queries, CountTypes, Open
  <2>2. \/ count' = [count EXCEPT ![p] = @ + n] /\ UNCHANGED drift
        \/ UNCHANGED count /\ (drift' = IF drift = "exact" THEN "differ" ELSE drift)
    BY <1>4 DEF IncrMetadata, Incr
  <2>3. CASE q = p
    <3>1. b \notin Into(q)
      BY <2>1, <2>3, IntoFacts DEF Distinct, Into, Past, After, Open, Queries
    <3>2. Into(q)' = Into(q) \cup {b}
      <4>1. /\ \A v \in CountWorkers \ {w} : counting'[v] = counting[v]
            /\ counting'[w].block = b
            /\ counting'[w].at = IF p = "all" THEN "signed" ELSE "commit"
        BY <2>1 DEF CountTypes
      <4>2. w \in Past(q)' /\ w \notin Past(q)
        BY <2>1, <2>3, <4>1 DEF Past, After, Queries
      <4>3. \A v \in CountWorkers \ {w} : v \in Past(q)' <=> v \in Past(q)
        BY <4>1 DEF Past, After
      <4>4. /\ Past(q)' = Past(q) \cup {w} /\ w \notin Past(q)
        BY <4>2, <4>3 DEF Past
      <4> QED
        BY <2>1, <4>1, <4>4 DEF Into
    <3>3. n \in Nat /\ NumIn(Into(q)', q) = NumIn(Into(q), q) + n
      BY <1>0, <2>1, <2>3, <3>1, <3>2, NumOne
    <3>4. CASE count' = [count EXCEPT ![p] = @ + n] /\ UNCHANGED drift
      <4>1. count'[q] = count[q] + n
        BY <2>1, <2>3, <3>4 DEF CountTypes
      <4> HIDE DEF n
      <4> QED
        BY <1>0, <1>2, <3>3, <3>4, <4>1
    <3>5. CASE UNCHANGED count /\ (drift' = IF drift = "exact" THEN "differ" ELSE drift)
      <4>1. drift' # "exact" /\ (drift' # "exceed" => drift # "exceed")
        BY <3>5
      <4> HIDE DEF n
      <4> QED
        BY <1>0, <1>2, <3>3, <3>5, <4>1
    <3> QED
      BY <2>2, <3>4, <3>5
  <2>4. CASE q # p
    <3>1. Into(q)' = Into(q)
      <4>1. \A v \in CountWorkers : v \in Past(q)' <=> v \in Past(q)
        BY <2>1, <2>4 DEF Past, After, Queries, CountTypes
      <4>2. \A v \in CountWorkers : counting'[v].block = counting[v].block
        BY <2>1 DEF CountTypes
      <4>3. Past(q)' = Past(q) /\ Past(q) \subseteq CountWorkers
        BY <4>1 DEF Past
      <4> QED
        BY <2>1, <4>2, <4>3 DEF Into
    <3>2. count'[q] = count[q]
      BY <2>2, <2>4 DEF CountTypes
    <3>3. drift' # "exceed" => drift # "exceed"
      BY <2>2
    <3>4. drift' = "exact" => drift = "exact"
      BY <2>2
    <3> QED
      BY <1>2, <3>1, <3>2, <3>3, <3>4
  <2> QED
    BY <2>3, <2>4
<1>5. CASE \E w \in CountWorkers : RollBack(w) /\ counting[w].at # "all"
  BY <1>5 DEF RollBack
<1>6. CASE ~SetMetadata /\ (\A w \in CountWorkers : ~IncrMetadata(w))
           /\ ~(\E w \in CountWorkers : RollBack(w) /\ counting[w].at # "all")
  <2>1. Into(q)' = Into(q)
    BY <1>6, IntoStep
  <2>2. UNCHANGED count /\ UNCHANGED drift
    BY <1>6 DEF CountsNext, CountStep, RefreshStep, InsertExtrinsics, CommitExtrinsics, RollBack, GetBest,
                SetBest, StartRefresh, CountTable, ExpireCount, countVars
  <2> QED
    BY <1>2, <2>1, <2>2
<1> QED
  BY <1>3, <1>4, <1>5, <1>6

(* A finite set of naturals has a bound.                                   *)
LEMMA FiniteBounded ==
    ASSUME NEW S \in SUBSET Nat, IsFiniteSet(S)
    PROVE  \E n \in Nat : \A x \in S : x <= n
<1> DEFINE Free(U) == \A n \in Nat : \E x \in U : ~(x <= n)
           T == {U \in SUBSET S : Free(U)}
           R == StrictSubsetOrdering(S)
<1>1. SUFFICES ASSUME S \in T PROVE FALSE
  OBVIOUS
<1>2. PICK U \in T : \A V \in T : ~(<<V, U>> \in R)
  <2>1. IsWellFoundedOn(R, SUBSET S)
    BY FS_StrictSubsetOrderingWellFounded, FS_FiniteSubsetsOfFinite
  <2>2. T \subseteq SUBSET S /\ T # {}
    BY <1>1
  <2> HIDE DEF T, R
  <2> QED
    BY <2>1, <2>2, WFMin
<1>3. PICK x \in U : ~(x <= 0)
  OBVIOUS
<1>4. U \ {x} \in SUBSET S /\ <<U \ {x}, U>> \in R
  BY DEF StrictSubsetOrdering
<1>5. U \ {x} \notin T
  BY <1>2, <1>4
<1>6. PICK n \in Nat : \A y \in U \ {x} : y <= n
  BY <1>4, <1>5
<1>7. n + x \in Nat /\ \A y \in U : y <= n + x
  BY <1>6
<1> QED
  BY <1>7

LEMMA NewestIsMax ==
    ASSUME CountTypes
    PROVE  LatestTable >= Newest => Above(LatestTable) = {}
<1> DEFINE S == {TableOfBlock(b) : b \in counted}
           f == [b \in counted |-> TableOfBlock(b)]
           Z == S \cup {0}
<1>1. \A b \in counted : b \in CountedBlocks /\ TableOfBlock(b) \in Nat
  BY CountsAssumption DEF CountTypes, TableOfBlock
<1>2. IsFiniteSet(counted)
  BY CountsAssumption, FS_Subset DEF CountTypes
<1>3. f \in Surjection(counted, S)
  BY DEF Surjection
<1>4. IsFiniteSet(S)
  <2> HIDE DEF f, S
  <2> QED
    BY <1>2, <1>3, FS_Surjection
<1>5. S \in SUBSET Nat
  BY <1>1
<1>6. PICK n \in Nat : \A x \in S : x <= n
  <2> HIDE DEF S
  <2> QED
    BY <1>4, <1>5, FiniteBounded
<1>7. Z \in SUBSET Nat /\ Z # {} /\ \A x \in Z : x <= n
  BY <1>5, <1>6
<1>8. Max(Z) \in Z /\ \A x \in Z : x <= Max(Z)
  <2> HIDE DEF Z
  <2> QED
    BY <1>7, Greatest
<1>9. Newest = Max(Z)
  BY DEF Newest
<1>10. Newest \in Nat /\ \A b \in counted : TableOfBlock(b) <= Newest
  BY <1>7, <1>8, <1>9
<1>11. LatestTable \in Nat
  BY CountsAssumption DEF LatestTable, CountTypes, TableOfBlock
<1> QED
  BY <1>1, <1>10, <1>11 DEF Above

LEMMA CachedStep ==
    ASSUME CountTypes, Refreshed, Cached, [CountsNext]_countVars
    PROVE  Cached'
<1>0. CountTypes' /\ counted \subseteq counted'
  BY CountTypesStep DEF CountsNext, CountStep, RefreshStep, InsertExtrinsics, IncrMetadata, CommitExtrinsics,
     RollBack, GetBest, SetBest, StartRefresh, CountTable, SetMetadata, ExpireCount, countVars
<1>1. SUFFICES ASSUME NEW i \in Tables, NEW q \in Queries
               PROVE  countCache'[i][q] <= NumIn(InTable(i)', q)
  BY DEF Cached
<1>2. /\ NumIn(InTable(i), q) \in Nat /\ NumIn(InTable(i)', q) \in Nat
      /\ NumIn(InTable(i), q) <= NumIn(InTable(i)', q)
  <2>1. InTable(i) \subseteq InTable(i)' /\ InTable(i) \in SUBSET CountedBlocks /\ InTable(i)' \in SUBSET CountedBlocks
    BY <1>0 DEF InTable, CountTypes
  <2> QED
    BY <2>1, NumFacts
<1>3. countCache[i][q] <= NumIn(InTable(i), q) /\ countCache[i][q] \in Int /\ countCache'[i][q] \in Int
  BY <1>0 DEF Cached, CountTypes
<1>4. CASE countCache'[i][q] = countCache[i][q]
  BY <1>2, <1>3, <1>4
<1>5. CASE CountTable
  <2> DEFINE j == refresh.index
             n == NumIn(InTable(j), refresh.at)
  <2>1. UNCHANGED countCache \/ \E k \in {n, 0} : countCache' = [countCache EXCEPT ![j][refresh.at] = k]
    BY <1>5 DEF CountTable, CacheCount
  <2>2. countCache'[i][q] = countCache[i][q] \/ (i = j /\ q = refresh.at /\ countCache'[i][q] \in {n, 0})
    BY <2>1 DEF CountTypes
  <2>3. CASE i = j /\ q = refresh.at /\ countCache'[i][q] \in {n, 0}
    BY <1>2, <2>3
  <2> QED
    BY <1>4, <2>2, <2>3
<1>6. CASE \E k \in Tables, p \in Queries : ExpireCount(k, p)
  <2>1. countCache'[i][q] = countCache[i][q] \/ countCache'[i][q] = -1
    BY <1>6 DEF ExpireCount, CountTypes
  <2>2. CASE countCache'[i][q] = -1
    BY <1>2, <2>2
  <2> QED
    BY <1>4, <2>1, <2>2
<1>7. CASE ~CountTable /\ ~\E k \in Tables, p \in Queries : ExpireCount(k, p)
  <2>1. UNCHANGED countCache
    BY <1>7 DEF CountsNext, CountStep, RefreshStep, InsertExtrinsics, IncrMetadata, CommitExtrinsics,
       RollBack, GetBest, SetBest, StartRefresh, SetMetadata, countVars
  <2> QED
    BY <1>4, <2>1
<1> QED
  BY <1>5, <1>6, <1>7

(* A recount that starts, or goes from one counter to the other, has       *)
(* passed no table: when it is exact there is none above it.               *)
LEMMA CountFromNewest ==
    ASSUME CountTypes, NEW q \in Queries,
           NEW r \in [at : {"idle", "all", "signed", "set"}, latest : Nat, index : Nat, sum : Int, all : Int,
                      exact : BOOLEAN]
    PROVE  LET s == CountFrom(q, r)
           IN  /\ s.at = q /\ s.all = r.all /\ s.sum = 0 /\ (s.exact => r.exact) /\ s.index = s.latest
               /\ s.latest # 0 => s.latest \in Tables
               /\ Sound(s.sum, s.exact, Above(s.index), q)
<1> DEFINE x == r.exact /\ LatestTable >= Newest
           s == CountFrom(q, r)
<1>1. s = [r EXCEPT !.at = q, !.latest = LatestTable, !.index = LatestTable, !.sum = 0, !.exact = x]
  BY DEF CountFrom
<1>2. /\ s.at = q /\ s.all = r.all /\ s.sum = 0 /\ s.index = LatestTable /\ s.latest = LatestTable
      /\ s.exact = x
  BY <1>1
<1>3. LatestTable # 0 => LatestTable \in Tables
  BY DEF LatestTable, Tables, CountTypes
<1>4. Above(LatestTable) \in SUBSET CountedBlocks
  BY DEF Above, CountTypes
<1>5. NumIn(Above(LatestTable), q) \in Nat /\ NumIn({}, q) = 0
  BY <1>4, NumFacts
<1>6. x => Above(LatestTable) = {}
  BY NewestIsMax
<1> HIDE DEF s, x
<1>7. Sound(0, x, Above(LatestTable), q)
  BY <1>5, <1>6 DEF Sound
<1> QED
  BY <1>2, <1>3, <1>7 DEF s, x

(* One more table is added to the sum.                                     *)
LEMMA AddTable ==
    ASSUME CountTypes, NEW q \in Queries, NEW i \in Nat, NEW a \in Int, NEW n \in Int,
           NEW e, NEW f, Sound(a, e, Above(i), q), Sound(n, f, InTable(i), q)
    PROVE  /\ i > 0 => Sound(a + n, e /\ f, Above(i - 1), q)
           /\ i = 0 => Sound(a + n, e /\ f, counted, q)
<1> DEFINE A == Above(i)
           B == InTable(i)
           C == IF i > 0 THEN Above(i - 1) ELSE counted
<1>1. \A b \in counted : TableOfBlock(b) \in Nat /\ b \in CountedBlocks
  BY CountsAssumption DEF CountTypes, TableOfBlock
<1>2. /\ A \in SUBSET CountedBlocks /\ B \in SUBSET CountedBlocks
      /\ A \cap B = {} /\ A \cup B = C
  BY <1>1 DEF Above, InTable
<1>3. /\ NumIn(A, q) \in Nat /\ NumIn(B, q) \in Nat
      /\ NumIn(A \cup B, q) = NumIn(A, q) + NumIn(B, q)
  <2> HIDE DEF A, B
  <2> QED
    BY <1>2, NumFacts
<1>4. Sound(a + n, e /\ f, C, q)
  <2>1. /\ a <= NumIn(A, q) /\ (e => a = NumIn(A, q))
        /\ n <= NumIn(B, q) /\ (f => n = NumIn(B, q))
    BY DEF Sound
  <2> HIDE DEF A, B, C
  <2>2. NumIn(C, q) = NumIn(A, q) + NumIn(B, q)
    BY <1>2, <1>3
  <2>3. a + n <= NumIn(C, q)
    BY <1>3, <2>1, <2>2
  <2>4. e /\ f => a + n = NumIn(C, q)
    BY <2>1, <2>2
  <2> QED
    BY <2>3, <2>4 DEF Sound
<1> QED
  BY <1>4

LEMMA SoundGrows ==
    ASSUME NEW S \in SUBSET CountedBlocks, NEW T \in SUBSET CountedBlocks, S \subseteq T, NEW q \in Queries,
           NEW n \in Int, NEW e, NEW f, f => e /\ S = T, Sound(n, e, S, q)
    PROVE  Sound(n, f, T, q)
<1>1. NumIn(S, q) <= NumIn(T, q) /\ NumIn(S, q) \in Nat /\ NumIn(T, q) \in Nat
  BY NumFacts
<1> QED
  BY <1>1 DEF Sound

LEMMA RefreshedStep ==
    ASSUME CountTypes, Distinct, Cached, Refreshed, [CountsNext]_countVars
    PROVE  Refreshed'
<1> DEFINE R == [at : {"idle", "all", "signed", "set"}, latest : Nat, index : Nat, sum : Int, all : Int,
                 exact : BOOLEAN]
<1>0. /\ refresh \in R /\ refresh' \in R /\ CountTypes'
      /\ counted \in SUBSET CountedBlocks /\ counted' \in SUBSET CountedBlocks /\ Queries = {"all", "signed"}
  BY CountTypesStep DEF CountTypes, Queries
<1>1. CASE UNCHANGED refresh \/ (refresh' = [refresh EXCEPT !.exact = FALSE] /\ refresh.at # "idle")
  <2>1. counted \subseteq counted'
    BY CountingSteps
  <2>2. refresh.at # "idle" /\ refresh'.exact => Open = {} /\ refresh.exact
    BY <1>0, <1>1 DEF Refreshed
  <2>3. refresh.at # "idle" /\ refresh'.exact => Open' = {} /\ UNCHANGED counted
    <3>1. SUFFICES ASSUME refresh.at # "idle", refresh'.exact PROVE Open' = {} /\ UNCHANGED counted
      OBVIOUS
    <3>2. Open = {} /\ refresh.exact
      BY <2>2, <3>1
    <3>3. \A w \in CountWorkers, b \in CountedBlocks : InsertExtrinsics(w, b) => b \in counted
      BY <1>0, <3>1 DEF InsertExtrinsics
    <3>4. CASE UNCHANGED <<counting, counted>>
      BY <3>2, <3>4 DEF Open
    <3>5. ASSUME NEW w \in CountWorkers, \A v \in CountWorkers \ {w} : counting'[v] = counting[v],
                 counting'[w].at \in {"getBest", "setBest", "idle"}
          PROVE  Open' = {}
      BY <3>2, <3>5 DEF Open
    <3>6. \A w \in CountWorkers : counting[w].at \notin {"all", "signed", "commit"}
      BY <3>2 DEF Open
    <3> QED
      BY <3>3, <3>4, <3>5, <3>6, CountingSteps DEF Queries
  <2>4. /\ refresh'.at = refresh.at /\ refresh'.latest = refresh.latest /\ refresh'.index = refresh.index
        /\ refresh'.sum = refresh.sum /\ refresh'.all = refresh.all /\ refresh.index \in Nat
        /\ refresh.sum \in Int /\ refresh.all \in Int
    BY <1>0, <1>1
  <2> DEFINE i == refresh.index
             q == refresh.at
  <2>5. /\ Above(i) \in SUBSET CountedBlocks /\ Above(i)' \in SUBSET CountedBlocks
        /\ Above(i) \subseteq {b \in counted' : TableOfBlock(b) > i}
        /\ UNCHANGED counted => Above(i) = {b \in counted' : TableOfBlock(b) > i}
        /\ {b \in counted' : TableOfBlock(b) > i} \in SUBSET CountedBlocks
    BY <1>0, <2>1 DEF Above
  <2>6. q \in Queries => Sound(refresh.sum, refresh'.exact, {b \in counted' : TableOfBlock(b) > i}, q)
    <3>1. SUFFICES ASSUME q \in Queries
                   PROVE  Sound(refresh.sum, refresh'.exact, {b \in counted' : TableOfBlock(b) > i}, q)
      OBVIOUS
    <3>2. Sound(refresh.sum, refresh.exact, Above(i), q)
      BY <3>1 DEF Refreshed
    <3>3. refresh'.exact => refresh.exact /\ Above(i) = {b \in counted' : TableOfBlock(b) > i}
      BY <2>2, <2>3, <2>5, <3>1 DEF Queries
    <3> DEFINE T == {b \in counted' : TableOfBlock(b) > i}
    <3>4. /\ T \in SUBSET CountedBlocks /\ Above(i) \subseteq T /\ Above(i) \in SUBSET CountedBlocks
          /\ refresh'.exact => refresh.exact /\ Above(i) = T
      BY <2>5, <3>3
    <3> HIDE DEF T, i, q
    <3>5. Sound(refresh.sum, refresh'.exact, T, q)
      BY <2>4, <3>1, <3>2, <3>4, SoundGrows
    <3> QED
      BY <3>5 DEF T
  <2>7. q \in {"signed", "set"} => Sound(refresh.all, refresh'.exact, counted', "all")
    BY <1>0, <2>1, <2>2, <2>3, <2>4, SoundGrows DEF Refreshed
  <2>8. q = "set" => Sound(refresh.sum, refresh'.exact, counted', "signed")
    BY <1>0, <2>1, <2>2, <2>3, <2>4, SoundGrows DEF Refreshed
  <2>9. q \in Queries => i <= refresh.latest /\ (refresh.latest # 0 => refresh.latest \in Tables)
    BY DEF Refreshed
  <2> HIDE DEF i, q
  <2> QED
    BY <2>3, <2>4, <2>6, <2>7, <2>8, <2>9 DEF Refreshed, Above, Sound, i, q
<1>2. ASSUME UNCHANGED <<counting, counted>>, NEW q \in Queries, NEW r \in R,
             refresh' = CountFrom(q, r), r.exact => Open = {},
             q = "signed" => Sound(r.all, r.exact, counted, "all")
      PROVE  Refreshed'
  <2> DEFINE s == CountFrom(q, r)
  <2>1. /\ s.at = q /\ s.all = r.all /\ s.sum = 0 /\ (s.exact => r.exact) /\ s.index = s.latest
        /\ s.latest # 0 => s.latest \in Tables
        /\ Sound(s.sum, s.exact, Above(s.index), q)
    BY CountFromNewest
  <2>2. s = refresh' /\ s \in R
    BY <1>0, <1>2
  <2> HIDE DEF s
  <2>3. Open' = Open
    BY <1>2 DEF Open
  <2>4. q = "signed" => Sound(s.all, s.exact, counted, "all")
    BY <1>2, <2>1 DEF Sound
  <2>5. s.index <= s.latest
    BY <2>1, <2>2
  <2>6. Sound(s.sum, s.exact, {b \in counted' : TableOfBlock(b) > s.index}, q)
    BY <1>2, <2>1 DEF Above
  <2> QED
    BY <1>0, <1>2, <2>1, <2>2, <2>3, <2>4, <2>5, <2>6 DEF Refreshed, Sound, Above
<1>3. CASE StartRefresh
  <2> DEFINE x == Open = {}
             r == [NoRefresh EXCEPT !.exact = x]
  <2>1. refresh' = CountFrom("all", r) /\ UNCHANGED <<counting, counted>> /\ x \in BOOLEAN /\ (x => Open = {})
    BY <1>3 DEF StartRefresh
  <2> HIDE DEF x
  <2>2. r \in R /\ r.exact = x /\ "all" \in Queries
    BY <2>1 DEF NoRefresh, R, Queries
  <2> QED
    BY <1>2, <2>1, <2>2
<1>4. ASSUME NEW n \in Int, NEW e \in BOOLEAN, AddCount(n, e), UNCHANGED <<counting, counted>>,
             refresh.at \in Queries, Sound(n, e, InTable(refresh.index), refresh.at)
      PROVE  Refreshed'
  <2> DEFINE x == refresh.exact /\ e
             k == refresh.sum + n
             i == refresh.index
             q == refresh.at
             r == [refresh EXCEPT !.sum = @ + n, !.exact = @ /\ e]
  <2>1. r = [refresh EXCEPT !.sum = k, !.exact = x]
    BY <1>0
  <2>2. x \in BOOLEAN /\ k \in Int /\ i \in Nat /\ q \in {"all", "signed"} /\ refresh.latest \in Nat
    BY <1>0, <1>4
  <2>3. /\ i > 0 => Sound(k, x, Above(i - 1), q)
        /\ i = 0 => Sound(k, x, counted, q)
    <3>1. Sound(refresh.sum, refresh.exact, Above(i), q) /\ refresh.sum \in Int
      BY <1>0, <1>4 DEF Refreshed
    <3> QED
      BY <1>4, <2>2, <3>1, AddTable
  <2>4. /\ x => Open = {}
        /\ i <= refresh.latest /\ (refresh.latest # 0 => refresh.latest \in Tables)
        /\ q = "signed" => Sound(refresh.all, x, counted, "all")
    BY <1>0, <1>4 DEF Refreshed, Sound
  <2>5. refresh' = CASE r.index > 0                -> [r EXCEPT !.index = @ - 1]
                     [] r.index = 0 /\ r.at = "all" -> CountFrom("signed", [r EXCEPT !.all = r.sum])
                     [] OTHER                      -> [r EXCEPT !.at = "set"]
    BY <1>4 DEF AddCount
  <2> HIDE DEF r, x, k
  <2>6. r \in R /\ r.at = q /\ r.index = i /\ r.sum = k /\ r.exact = x /\ r.latest = refresh.latest /\ r.all = refresh.all
    BY <1>0, <2>1, <2>2
  <2>7. Open' = Open /\ \A j : {b \in counted' : TableOfBlock(b) > j} = Above(j)
    BY <1>4 DEF Open, Above
  <2>8. CASE i > 0
    <3>1. refresh' = [r EXCEPT !.index = i - 1]
      BY <2>5, <2>6, <2>8
    <3>2. /\ refresh'.at = q /\ refresh'.index = i - 1 /\ refresh'.sum = k /\ refresh'.exact = x
          /\ refresh'.latest = refresh.latest /\ refresh'.all = refresh.all
      BY <2>6, <3>1
    <3>3. i - 1 <= refresh.latest
      BY <2>2, <2>4
    <3>4. Sound(k, x, {b \in counted' : TableOfBlock(b) > i - 1}, q)
      BY <2>3, <2>7, <2>8
    <3> HIDE DEF i, q
    <3> QED
      BY <1>4, <2>2, <2>4, <2>7, <3>2, <3>3, <3>4 DEF Refreshed, Above, Sound
  <2>9. CASE i = 0 /\ q = "all"
    <3>1. refresh' = CountFrom("signed", [r EXCEPT !.all = k])
      BY <2>5, <2>6, <2>9
    <3>2. [r EXCEPT !.all = k] \in R /\ [r EXCEPT !.all = k].all = k /\ [r EXCEPT !.all = k].exact = x
      BY <2>2, <2>6
    <3> QED
      BY <1>0, <1>2, <1>4, <2>3, <2>4, <2>9, <3>1, <3>2
  <2>10. CASE i = 0 /\ q = "signed"
    <3>1. refresh' = [r EXCEPT !.at = "set"]
      BY <2>5, <2>6, <2>10
    <3>2. refresh'.at = "set" /\ refresh'.sum = k /\ refresh'.exact = x /\ refresh'.all = refresh.all
      BY <2>6, <3>1
    <3> HIDE DEF i, q
    <3> QED
      BY <1>0, <1>4, <2>3, <2>4, <2>7, <2>10, <3>2 DEF Refreshed, Sound
  <2> QED
    BY <2>2, <2>8, <2>9, <2>10
<1>5. CASE CountTable
  <2> DEFINE i == refresh.index
             q == refresh.at
             n == NumIn(InTable(i), q)
  <2>1. q \in Queries /\ UNCHANGED <<counting, counted>>
    BY <1>5 DEF CountTable
  <2>2. n \in Nat
    BY <2>1, InTableFacts, NumFacts
  <2> HIDE DEF n
  <2>3. \/ UseCache(i) /\ AddCount(countCache[i][q], countCache[i][q] = n)
        \/ AddCount(n, TRUE)
        \/ AddCount(0, FALSE)
    BY <1>5 DEF CountTable, n
  <2>4. CASE UseCache(i) /\ AddCount(countCache[i][q], countCache[i][q] = n)
    <3>1. i \in Tables
      BY <2>1, <2>4, RecountInTables DEF UseCache
    <3>2. countCache[i][q] \in Int /\ (countCache[i][q] = n) \in BOOLEAN /\ countCache[i][q] <= n
      BY <2>1, <3>1 DEF CountTypes, Cached, n
    <3>3. Sound(countCache[i][q], countCache[i][q] = n, InTable(i), q)
      BY <3>2 DEF Sound, n
    <3> QED
      BY <1>4, <2>1, <2>4, <3>2, <3>3
  <2>5. CASE AddCount(n, TRUE)
    <3>1. n \in Int /\ Sound(n, TRUE, InTable(i), q)
      BY <2>2 DEF Sound, n
    <3> QED
      BY <1>4, <2>1, <2>5, <3>1
  <2>6. CASE AddCount(0, FALSE)
    <3>1. 0 \in Int /\ Sound(0, FALSE, InTable(i), q)
      BY <2>2 DEF Sound, n
    <3> QED
      BY <1>4, <2>1, <2>6, <3>1
  <2> QED
    BY <2>3, <2>4, <2>5, <2>6
<1>6. CASE SetMetadata
  BY <1>6 DEF SetMetadata, NoRefresh, Refreshed, Queries
<1>7. CASE \E w \in CountWorkers, b \in CountedBlocks : InsertExtrinsics(w, b)
  BY <1>1, <1>7 DEF InsertExtrinsics
<1>8. CASE ~StartRefresh /\ ~CountTable /\ ~SetMetadata
           /\ ~(\E w \in CountWorkers, b \in CountedBlocks : InsertExtrinsics(w, b))
  <2>1. UNCHANGED refresh
    BY <1>8 DEF CountsNext, CountStep, RefreshStep, IncrMetadata, CommitExtrinsics, RollBack, GetBest, SetBest,
                ExpireCount, countVars
  <2> QED
    BY <1>1, <2>1
<1> QED
  BY <1>3, <1>5, <1>6, <1>7, <1>8

(* A counter is never above what is stored or being stored, unless a       *)
(* transaction rolled back, and exact when nothing is open and the history *)
(* says so: however the goroutines, the recount and its cached counts      *)
(* interleave, for any blocks in any tables.                               *)
THEOREM CountersAreSound == CountsSpec => []CountersSound
<1>1. CountsInit => CountsInv
  <2> SUFFICES ASSUME CountsInit PROVE CountsInv
    OBVIOUS
  <2>1. /\ counting = [w \in CountWorkers |-> NoFill] /\ counted = {} /\ bestFilled = 0
        /\ count = [q \in Queries |-> 0] /\ countCache = [i \in Tables |-> [q \in Queries |-> -1]]
        /\ refresh = NoRefresh /\ drift = "exact"
    BY DEF CountsInit
  <2>2. CountTypes
    BY <2>1 DEF CountTypes, NoFill, NoRefresh
  <2>3. Open = {} /\ Distinct
    BY <2>1 DEF Open, NoFill, Distinct
  <2>4. \A q \in Queries : Into(q) = {} /\ NumIn(Into(q), q) = 0 /\ count[q] = 0
    <3>1. \A q \in Queries : Into(q) = {}
      BY <2>1, <2>2, <2>3, IntoFacts
    <3>2. {} \in SUBSET CountedBlocks
      OBVIOUS
    <3> QED
      BY <2>1, <3>1, <3>2, NumFacts
  <2>5. Counters
    BY <2>4 DEF Counters
  <2>6. Cached
    <3>1. SUFFICES ASSUME NEW i \in Tables, NEW q \in Queries PROVE countCache[i][q] <= NumIn(InTable(i), q)
      BY DEF Cached
    <3>2. NumIn(InTable(i), q) \in Nat
      BY <2>2, InTableFacts, NumFacts
    <3>3. countCache[i][q] = -1
      BY <2>1
    <3> QED
      BY <3>2, <3>3
  <2>7. Refreshed
    BY <2>1 DEF Refreshed, NoRefresh, Queries
  <2> QED
    BY <2>2, <2>3, <2>5, <2>6, <2>7 DEF CountsInv
<1>2. CountsInv /\ [CountsNext]_countVars => CountsInv'
  BY CountTypesStep, DistinctStep, CountersStep, CachedStep, RefreshedStep DEF CountsInv
<1>3. CountsInv => CountersSound
  <2> SUFFICES ASSUME CountsInv, NEW q \in Queries
               PROVE  LET all == counted \cup {counting[w].block : w \in Open}
                      IN  /\ drift # "exceed" => count[q] <= NumIn(all, q)
                          /\ Open = {} /\ drift = "exact" => count[q] = NumIn(counted, q)
    BY DEF CountersSound
  <2> DEFINE all == counted \cup {counting[w].block : w \in Open}
  <2>1. /\ CountTypes /\ Into(q) \in SUBSET CountedBlocks /\ all \in SUBSET CountedBlocks
        /\ Into(q) \subseteq all /\ counted \subseteq Into(q)
    BY IntoFacts DEF CountsInv
  <2>2. Open = {} => Into(q) = counted
    BY <2>1
  <2> HIDE DEF all
  <2>3. NumIn(Into(q), q) <= NumIn(all, q) /\ NumIn(Into(q), q) \in Nat /\ NumIn(all, q) \in Nat /\ count[q] \in Int
    BY <2>1, NumFacts DEF CountTypes
  <2>4. /\ drift # "exceed" => count[q] <= NumIn(Into(q), q)
        /\ drift = "exact" => count[q] = NumIn(Into(q), q)
    BY DEF CountsInv, Counters
  <2>5. drift # "exceed" => count[q] <= NumIn(all, q)
    BY <2>3, <2>4
  <2>6. Open = {} /\ drift = "exact" => count[q] = NumIn(counted, q)
    BY <2>2, <2>4
  <2> QED
    BY <2>5, <2>6 DEF all
<1> QED
  BY <1>1, <1>2, <1>3, PTL DEF CountsSpec

-----------------------------------------------------------------------------
(* InitAccount.  The command knows what it has walked past; a row is what  *)
(* the chain says, or somebody is about to say so.                         *)

InitCommandSpec == InitAccountInit /\ [][InitAccountNext]_initVars

Values == UNION {[S -> Nat] : S \in SUBSET Holders}
Scans  == [at : {"idle", "keys", "values", "hand", "wait", "returned", "panic"}, of : {"locks", "accounts"},
           start : Nat, page : SUBSET Holders, locks : [Holders -> Nat], data : Values]

InitTypes ==
    /\ holder \in [Holders -> Nat]
    /\ holderRow \in [Holders -> [data : Nat, locks : Nat]]
    /\ eventRefresh \in SUBSET Holders
    /\ refresher \in [at : {"idle", "locks", "write"}, account : Nat, data : Nat, locks : Nat]
    /\ refresher.at # "idle" => refresher.account \in Holders
    /\ scan \in Scans
    /\ tasks \in [Holders -> [at : {"none", "handed", "counted"}, data : Nat, locks : Nat]]
    /\ begun \in SUBSET Holders /\ passedOver \in SUBSET Holders /\ outdated \in SUBSET Holders
    /\ changes \in Nat /\ initFaults \in Nat

Coming(a) == a \in eventRefresh \/ (refresher.at # "idle" /\ refresher.account = a)

RowsKnown ==
    /\ \A a \in Holders : holderRow[a].data # 0 /\ a \notin outdated =>
          Coming(a) \/ (holderRow[a].data = holder[a] /\ holderRow[a].locks = holder[a])
    /\ refresher.at # "idle" /\ refresher.account \notin eventRefresh =>
          /\ refresher.data = holder[refresher.account]
          /\ refresher.at = "write" => refresher.locks = holder[refresher.account]

(* Whoever is refreshed, handed out or on a page is on the chain.          *)
Seen ==
    /\ refresher.at # "idle" => refresher.data # 0
    /\ \A a \in eventRefresh \cup begun \cup scan.page : holder[a] # 0
    /\ \A a \in InPool : tasks[a].data # 0
    /\ \A a \in DOMAIN scan.data : scan.data[a] # 0

Reached(a) == a \in passedOver \/ holderRow[a].data # 0 \/ a \in InPool
Beyond(a)  == ~LastPage /\ a > Max(scan.page)

Walked ==
    /\ scan.at \notin {"idle", "panic"} /\ scan.of = "accounts" => \A a \in begun : a <= scan.start => Reached(a)
    /\ scan.at = "values" => \A a \in begun : a <= scan.start \/ a \in scan.page \/ Beyond(a)
    /\ scan.at = "hand" => \A a \in begun : a \in DOMAIN scan.data \/ Reached(a) \/ Beyond(a)
    /\ scan.at \in {"wait", "returned"} => \A a \in begun : Reached(a)
    /\ scan.at = "returned" => InPool = {}
    /\ scan.at = "hand" => scan.of = "accounts"
    /\ scan.of = "locks" => scan.at # "wait"

FewLost ==
    /\ Cardinality(InPool) <= PoolSize
    /\ initFaults = 0 => Cardinality(passedOver) <= PoolSize /\ (scan.at # "returned" => passedOver = {})

InitInv == InitTypes /\ RowsKnown /\ Seen /\ Walked /\ FewLost

(* A page that is full has a last key.                                     *)
LEMMA FullPage ==
    ASSUME NEW S \in SUBSET Holders, ~(Cardinality(S) < PageSize)
    PROVE  Max(S) \in S /\ Max(S) \in Nat /\ \A x \in S : x <= Max(S)
<1>1. S # {}
  <2>1. S = {} => Cardinality(S) = 0
    BY FS_EmptySet
  <2> QED
    BY <2>1, InitAccountAssumption
<1>2. S \in SUBSET Nat /\ NumHolders \in Nat /\ \A x \in S : x <= NumHolders
  BY InitAccountAssumption DEF Holders
<1> QED
  BY <1>1, <1>2, Greatest

(* What a page leaves out comes after its last key, and then it is full.   *)
LEMMA LeftOut ==
    ASSUME NEW keys \in SUBSET Holders, NEW a \in keys, a \notin PageOf(keys)
    PROVE  ~(Cardinality(PageOf(keys)) < PageSize) /\ a > Max(PageOf(keys))
<1> DEFINE page == PageOf(keys)
           Upto(x) == {b \in keys : b <= x}
           R == OpToRel(<, Nat)
<1>1. page = {b \in keys : Cardinality(Upto(b)) <= PageSize}
  BY DEF PageOf
<1>2. /\ Holders \in SUBSET Nat /\ IsFiniteSet(Holders)
      /\ \A b \in Holders : b <= NumHolders
      /\ NumHolders \in Nat /\ PageSize \in Nat /\ PageSize > 0
  <2>1. 1 \in Int /\ NumHolders \in Int
    BY InitAccountAssumption
  <2> QED
    BY <2>1, FS_Interval, InitAccountAssumption DEF Holders
<1>3. \A x : IsFiniteSet(Upto(x)) /\ Cardinality(Upto(x)) \in Nat
  <2>1. \A x : Upto(x) \in SUBSET Holders
    OBVIOUS
  <2> HIDE DEF Upto
  <2> QED
    BY <1>2, <2>1, FS_Subset, FS_CardinalityType
<1>4. IsFiniteSet(page) /\ Cardinality(page) \in Nat
  <2>1. page \in SUBSET Holders
    BY <1>1
  <2> HIDE DEF page
  <2> QED
    BY <1>2, <2>1, FS_Subset, FS_CardinalityType
<1>5. PICK m \in keys \ page : \A k \in keys \ page : ~(<<k, m>> \in R)
  <2>1. IsWellFoundedOn(R, Nat)
    BY NatLessThanWellFounded
  <2>2. keys \ page \subseteq Nat /\ keys \ page # {}
    BY <1>2
  <2> HIDE DEF page, R
  <2> QED
    BY <2>1, <2>2, WFMin
<1>6. m \in Nat /\ \A k \in keys : k \in Nat /\ (k < m => k \in page)
  BY <1>2, <1>5 DEF OpToRel
<1>7. ~(Cardinality(Upto(m)) <= PageSize)
  BY <1>1, <1>5
<1>8. \A b \in page : b < m
  <2> SUFFICES ASSUME NEW b \in page, ~(b < m) PROVE FALSE
    OBVIOUS
  <2>1. b \in keys /\ Cardinality(Upto(b)) <= PageSize
    BY <1>1
  <2>2. Upto(m) \subseteq Upto(b)
    <3>1. m <= b /\ b \in Nat
      BY <1>6, <2>1
    <3>2. SUFFICES ASSUME NEW x \in keys, x <= m PROVE x <= b
      OBVIOUS
    <3>3. x \in Nat
      BY <1>6
    <3> QED
      BY <1>6, <3>1, <3>2, <3>3
  <2>3. Cardinality(Upto(m)) <= Cardinality(Upto(b))
    <3> HIDE DEF Upto
    <3> QED
      BY <1>3, <2>2, FS_Subset
  <2>4. Cardinality(Upto(m)) \in Nat /\ Cardinality(Upto(b)) \in Nat
    BY <1>3
  <2> HIDE DEF Upto
  <2> QED
    BY <1>2, <1>7, <2>1, <2>3, <2>4
<1>9. Upto(m) = page \cup {m} /\ m \notin page
  <2>1. page \subseteq keys
    BY <1>1
  <2> HIDE DEF page
  <2>2. \A x \in keys : x <= m <=> x < m \/ x = m
    BY <1>6
  <2>3. \A x \in keys : x < m <=> x \in page
    BY <1>6, <1>8
  <2> QED
    BY <1>5, <1>6, <2>1, <2>2, <2>3
<1>10. Cardinality(Upto(m)) = Cardinality(page) + 1
  <2> HIDE DEF page, Upto
  <2> QED
    BY <1>4, <1>9, FS_AddElement
<1>11. ~(Cardinality(page) < PageSize)
  <2> HIDE DEF page, Upto
  <2> QED
    BY <1>2, <1>4, <1>7, <1>10
<1>12. Max(page) \in page
  <2>1. page \in SUBSET Holders
    BY <1>1
  <2> HIDE DEF page
  <2> QED
    BY <1>11, <2>1, FullPage
<1>13. a > Max(page)
  <2>1. Max(page) < m /\ Max(page) \in keys
    BY <1>1, <1>8, <1>12
  <2>2. a \in Nat /\ ~(a < m) /\ Max(page) \in Nat
    BY <1>6, <2>1
  <2> HIDE DEF page
  <2> QED
    BY <1>6, <2>1, <2>2
<1> QED
  BY <1>11, <1>13

LEMMA ValuesFacts ==
    /\ \A v \in Values : DOMAIN v \in SUBSET Holders /\ \A a \in DOMAIN v : v[a] \in Nat
    /\ NoValues \in Values /\ DOMAIN NoValues = {}
<1>1. \A v \in Values : DOMAIN v \in SUBSET Holders /\ \A a \in DOMAIN v : v[a] \in Nat
  BY DEF Values
<1>2. NoValues \in [{} -> Nat] /\ {} \in SUBSET Holders /\ DOMAIN NoValues = {}
  BY DEF NoValues
<1> QED
  BY <1>1, <1>2 DEF Values

(* The ways the command goes on after a page.                              *)
LEMMA PageFields ==
    ASSUME InitTypes, ~LastPage
    PROVE  /\ NextPage \in Scans /\ NextPage.at = "keys" /\ NextPage.of = scan.of /\ NextPage.page = {}
           /\ NextPage.start = Max(scan.page) /\ NextPage.locks = scan.locks /\ NextPage.data = NoValues
<1> DEFINE x == Max(scan.page)
<1>1. NextPage = [scan EXCEPT !.at = "keys", !.start = x, !.page = {}, !.data = NoValues]
  BY DEF NextPage
<1>2. scan \in Scans /\ scan.page \in SUBSET Holders
  BY DEF InitTypes, Scans
<1>3. x \in Nat
  BY <1>2, FullPage DEF LastPage
<1> HIDE DEF x
<1> QED
  <2>1. NoValues \in Values
    BY ValuesFacts
  <2>2. NextPage \in Scans
    BY <1>1, <1>2, <1>3, <2>1 DEF Scans
  <2> QED
    BY <1>1, <1>2, <2>2 DEF Scans, x

LEMMA ValuesFields ==
    ASSUME InitTypes, NEW values \in Values
    PROVE  LET s == WithValues(values)
           IN  /\ s \in Scans
               /\ scan.of = "accounts" =>
                     /\ s.at = "hand" /\ s.of = "accounts" /\ s.start = scan.start /\ s.page = scan.page
                     /\ s.data = values
               /\ scan.of = "locks" =>
                     /\ s.at = "keys" /\ (s.of = "accounts" => s.start = 0)
                     /\ s.page = {} /\ s.data \in {NoValues, scan.data}
<1> DEFINE s == WithValues(values)
           l == [a \in Holders |-> IF a \in DOMAIN values THEN values[a] ELSE scan.locks[a]]
<1>0. scan \in Scans /\ scan.locks \in [Holders -> Nat] /\ scan.of \in {"locks", "accounts"}
  BY DEF InitTypes, Scans
<1>1. l \in [Holders -> Nat]
  BY <1>0, ValuesFacts
<1>2. CASE scan.of = "accounts"
  <2>1. s = [scan EXCEPT !.at = "hand", !.data = values]
    BY <1>2 DEF WithValues
  <2> HIDE DEF s
  <2>2. s \in Scans
    BY <1>0, <2>1 DEF Scans
  <2>3. s.at = "hand" /\ s.of = "accounts" /\ s.start = scan.start /\ s.page = scan.page /\ s.data = values
    BY <1>0, <1>2, <2>1 DEF Scans
  <2> QED
    BY <1>2, <2>2, <2>3 DEF s
<1>3. CASE scan.of = "locks"
  <2> DEFINE t == IF LastPage THEN [scan EXCEPT !.at = "keys", !.of = "accounts", !.start = 0, !.page = {}]
                  ELSE NextPage
  <2>1. /\ t \in Scans /\ t.at = "keys" /\ (t.of = "accounts" => t.start = 0)
        /\ t.page = {} /\ t.data \in {NoValues, scan.data} /\ t.locks = scan.locks
    <3>1. CASE LastPage
      <4> DEFINE u == [scan EXCEPT !.at = "keys", !.of = "accounts", !.start = 0, !.page = {}]
      <4>1. /\ u \in Scans /\ u.at = "keys" /\ u.of = "accounts" /\ u.start = 0 /\ u.page = {}
            /\ u.data = scan.data /\ u.locks = scan.locks
        BY <1>0 DEF Scans
      <4> HIDE DEF u
      <4>2. t = u
        BY <3>1 DEF u
      <4> HIDE DEF t
      <4> QED
        BY <4>1, <4>2
    <3>2. CASE ~LastPage
      BY <1>3, <3>2, PageFields
    <3> QED
      BY <3>1, <3>2
  <2>2. s = [t EXCEPT !.locks = [a \in Holders |-> IF a \in DOMAIN values THEN values[a] ELSE @[a]]]
    BY <1>3 DEF WithValues
  <2> HIDE DEF t
  <2>3. s = [t EXCEPT !.locks = l]
    BY <2>1, <2>2 DEF Scans
  <2> HIDE DEF s, l
  <2>4. s \in Scans
    BY <1>1, <2>1, <2>3 DEF Scans
  <2>5. s.at = t.at /\ s.of = t.of /\ s.start = t.start /\ s.page = t.page /\ s.data = t.data
    BY <2>1, <2>3 DEF Scans
  <2> QED
    BY <1>3, <2>1, <2>4, <2>5 DEF s
<1> QED
  BY <1>0, <1>2, <1>3

LEMMA InitTypesStep ==
    ASSUME InitTypes, [InitAccountNext]_initVars
    PROVE  InitTypes'
<1>0. /\ holder \in [Holders -> Nat] /\ scan \in Scans /\ passedOver \in SUBSET Holders /\ outdated \in SUBSET Holders
      /\ tasks \in [Holders -> [at : {"none", "handed", "counted"}, data : Nat, locks : Nat]]
      /\ holderRow \in [Holders -> [data : Nat, locks : Nat]]
      /\ \A v \in Values : DOMAIN v \in SUBSET Holders /\ \A a \in DOMAIN v : v[a] \in Nat
      /\ NoScan \in Scans /\ [a \in Holders |-> NoTask] \in [Holders -> [at : {"none", "handed", "counted"}, data : Nat, locks : Nat]]
  BY ValuesFacts DEF InitTypes, NoScan, NoTask, Scans
<1>1. ASSUME NEW a \in Holders, ChangeHolder(a) PROVE InitTypes'
  BY <1>1 DEF ChangeHolder, InitTypes
<1>2. ASSUME NEW a \in Holders, StartRefresher(a) PROVE InitTypes'
  <2>1. refresher' = [at |-> "locks", account |-> a, data |-> holder[a], locks |-> 0]
    BY <1>2 DEF StartRefresher, NoRefresher
  <2>2. a \in Nat
    BY DEF Holders
  <2> QED
    BY <1>0, <1>2, <2>1, <2>2 DEF StartRefresher, InitTypes
<1>3. CASE ReadHolderLocks
  BY <1>3 DEF ReadHolderLocks, InitTypes
<1>4. CASE UpdateHolderRow
  BY <1>4 DEF UpdateHolderRow, NoRefresher, InitTypes
<1>5. CASE StartInit
  <2>1. scan' \in Scans
    BY <1>0, <1>5 DEF StartInit, Scans
  <2> QED
    BY <1>5, <2>1 DEF StartInit, InitTypes
<1>6. CASE ReadKeysFails
  <2>1. scan' \in Scans
    BY <1>0, <1>6 DEF ReadKeysFails, Scans
  <2> QED
    BY <1>0, <1>6, <2>1 DEF ReadKeysFails, InitFault, InitTypes
<1>7. CASE ReadKeys
  <2>1. scan' = [scan EXCEPT !.at = "values", !.page = PageOf(KeysAfter(scan.start))]
    BY <1>7 DEF ReadKeys
  <2>2. PageOf(KeysAfter(scan.start)) \in SUBSET Holders
    BY DEF PageOf, KeysAfter
  <2>3. scan' \in Scans
    BY <1>0, <2>1, <2>2 DEF Scans
  <2> QED
    BY <1>7, <2>3 DEF ReadKeys, InitTypes
<1>8. CASE ReadValues
  <2>1. scan.page \in SUBSET Holders
    BY <1>0 DEF Scans
  <2>2. [a \in scan.page |-> holder[a]] \in Values
    BY <1>0, <2>1 DEF Values
  <2>3. NoValues \in Values
    BY ValuesFacts
  <2>4. WithValues([a \in scan.page |-> holder[a]]) \in Scans /\ WithValues(NoValues) \in Scans
    BY <2>2, <2>3, ValuesFields
  <2>5. scan' \in Scans /\ passedOver' \in SUBSET Holders /\ initFaults' \in Nat
    BY <1>8, <2>1, <2>4 DEF ReadValues, InitFault, InitTypes
  <2> QED
    BY <1>8, <2>5 DEF ReadValues, InitTypes
<1>9. ASSUME NEW a \in Holders, InvokeTask(a) PROVE InitTypes'
  <2> DEFINE f == [b \in DOMAIN scan.data \ {a} |-> scan.data[b]]
  <2>1. scan' = [scan EXCEPT !.data = f]
    BY <1>0, <1>9 DEF InvokeTask, Scans
  <2>2. scan.data \in Values
    BY <1>0 DEF Scans
  <2>3. f \in Values
    <3>1. DOMAIN scan.data \ {a} \in SUBSET Holders /\ \A b \in DOMAIN scan.data \ {a} : scan.data[b] \in Nat
      BY <1>0, <2>2
    <3>2. f \in [DOMAIN scan.data \ {a} -> Nat]
      BY <3>1
    <3> HIDE DEF f
    <3> QED
      BY <3>1, <3>2 DEF Values
  <2> HIDE DEF f
  <2>4. scan' \in Scans
    BY <1>0, <2>1, <2>3 DEF Scans
  <2>5. scan.data[a] \in Nat /\ scan.locks[a] \in Nat
    BY <1>0, <1>9, <2>2 DEF InvokeTask, Scans
  <2> QED
    BY <1>0, <1>9, <2>4, <2>5 DEF InvokeTask, InitTypes
<1>10. CASE EndPage
  <2>1. scan' \in Scans
    BY <1>0, <1>10, PageFields DEF EndPage, Scans
  <2> QED
    BY <1>10, <2>1 DEF EndPage, InitTypes
<1>11. ASSUME NEW a \in Holders, AddTask(a) PROVE InitTypes'
  BY <1>0, <1>11 DEF AddTask, InitTypes
<1>12. ASSUME NEW a \in Holders, AddOrUpdateItem(a) PROVE InitTypes'
  <2>1. tasks' \in [Holders -> [at : {"none", "handed", "counted"}, data : Nat, locks : Nat]]
    BY <1>0, <1>12 DEF AddOrUpdateItem, NoTask
  <2>2. holderRow' \in [Holders -> [data : Nat, locks : Nat]] /\ outdated' \in SUBSET Holders
        /\ passedOver' \in SUBSET Holders /\ initFaults' \in Nat
    BY <1>0, <1>12 DEF AddOrUpdateItem, InitFault, InitTypes
  <2> QED
    BY <1>12, <2>1, <2>2 DEF AddOrUpdateItem, InitTypes
<1>13. CASE ReturnInit
  <2>1. scan' \in Scans
    BY <1>0, <1>13 DEF ReturnInit, Scans
  <2> QED
    BY <1>0, <1>13, <2>1 DEF ReturnInit, InPool, InitTypes
<1>14. CASE UNCHANGED initVars
  BY <1>14 DEF initVars, InitTypes
<1> QED
  BY <1>1, <1>2, <1>3, <1>4, <1>5, <1>6, <1>7, <1>8, <1>9, <1>10, <1>11, <1>12, <1>13, <1>14 DEF InitAccountNext

LEMMA RowsKnownStep ==
    ASSUME InitTypes, RowsKnown, [InitAccountNext]_initVars
    PROVE  RowsKnown'
<1>0. /\ holder \in [Holders -> Nat] /\ holderRow \in [Holders -> [data : Nat, locks : Nat]]
      /\ refresher \in [at : {"idle", "locks", "write"}, account : Nat, data : Nat, locks : Nat]
      /\ refresher.at # "idle" => refresher.account \in Holders
  BY DEF InitTypes
<1>1. ASSUME NEW a \in Holders, ChangeHolder(a) PROVE RowsKnown'
  BY <1>0, <1>1 DEF ChangeHolder, RowsKnown, Coming
<1>2. ASSUME NEW a \in Holders, StartRefresher(a) PROVE RowsKnown'
  <2>1. refresher' = [at |-> "locks", account |-> a, data |-> holder[a], locks |-> 0]
    BY <1>2 DEF StartRefresher, NoRefresher
  <2> QED
    BY <1>0, <1>2, <2>1 DEF StartRefresher, RowsKnown, Coming
<1>3. CASE ReadHolderLocks
  BY <1>0, <1>3 DEF ReadHolderLocks, RowsKnown, Coming
<1>4. CASE UpdateHolderRow
  BY <1>0, <1>4 DEF UpdateHolderRow, NoRefresher, RowsKnown, Coming
<1>5. ASSUME NEW a \in Holders, AddOrUpdateItem(a) PROVE RowsKnown'
  BY <1>0, <1>5 DEF AddOrUpdateItem, RowsKnown, Coming
<1>6. CASE UNCHANGED <<holder, holderRow, eventRefresh, refresher, outdated>>
  BY <1>6 DEF RowsKnown, Coming
<1>7. CASE StartInit \/ ReadKeysFails \/ ReadKeys \/ ReadValues \/ EndPage \/ ReturnInit \/ UNCHANGED initVars
  <2>1. UNCHANGED <<holder, holderRow, eventRefresh, refresher, outdated>>
    BY <1>7 DEF StartInit, ReadKeysFails, ReadKeys, ReadValues, EndPage, ReturnInit, initVars
  <2> QED
    BY <1>6, <2>1
<1>8. ASSUME NEW a \in Holders, InvokeTask(a) \/ AddTask(a) PROVE RowsKnown'
  <2>1. UNCHANGED <<holder, holderRow, eventRefresh, refresher, outdated>>
    BY <1>8 DEF InvokeTask, AddTask
  <2> QED
    BY <1>6, <2>1
<1> QED
  BY <1>1, <1>2, <1>3, <1>4, <1>5, <1>7, <1>8 DEF InitAccountNext

LEMMA SeenStep ==
    ASSUME InitTypes, Seen, [InitAccountNext]_initVars
    PROVE  Seen'
<1>0. /\ holder \in [Holders -> Nat] /\ scan \in Scans /\ eventRefresh \in SUBSET Holders /\ begun \in SUBSET Holders
      /\ tasks \in [Holders -> [at : {"none", "handed", "counted"}, data : Nat, locks : Nat]]
      /\ scan.page \in SUBSET Holders /\ DOMAIN scan.data \in SUBSET Holders
      /\ DOMAIN NoValues = {}
  BY ValuesFacts DEF InitTypes, Scans
<1>1. ASSUME NEW a \in Holders, ChangeHolder(a) PROVE Seen'
  <2>1. \A b \in Holders : holder'[b] \in Nat /\ (holder[b] # 0 \/ b = a => holder'[b] # 0)
    BY <1>0, <1>1 DEF ChangeHolder
  <2> QED
    BY <1>0, <1>1, <2>1 DEF ChangeHolder, Seen, InPool
<1>2. ASSUME NEW a \in Holders, StartRefresher(a) PROVE Seen'
  <2>1. refresher' = [at |-> "locks", account |-> a, data |-> holder[a], locks |-> 0]
    BY <1>2 DEF StartRefresher, NoRefresher
  <2> QED
    BY <1>0, <1>2, <2>1 DEF StartRefresher, Seen, InPool
<1>3. CASE ReadHolderLocks
  BY <1>0, <1>3 DEF ReadHolderLocks, Seen, InPool, InitTypes
<1>4. CASE UpdateHolderRow
  BY <1>0, <1>4 DEF UpdateHolderRow, NoRefresher, Seen, InPool
<1>5. CASE StartInit
  BY <1>0, <1>5 DEF StartInit, NoScan, Seen, InPool
<1>6. CASE ReadKeysFails
  <2>1. scan'.page \subseteq scan.page /\ (DOMAIN scan'.data = {} \/ scan'.data = scan.data)
    BY <1>0, <1>6 DEF ReadKeysFails, NoScan, Scans
  <2>2. \A a \in InPool' : a \in InPool /\ tasks' = tasks
    BY <1>6 DEF ReadKeysFails, InPool, NoTask
  <2> QED
    BY <1>6, <2>1, <2>2 DEF ReadKeysFails, Seen
<1>7. CASE ReadKeys
  <2>1. scan'.page = PageOf(KeysAfter(scan.start)) /\ scan'.data = scan.data
    BY <1>0, <1>7 DEF ReadKeys, Scans
  <2>2. \A a \in PageOf(KeysAfter(scan.start)) : holder[a] # 0
    BY DEF PageOf, KeysAfter
  <2> QED
    BY <1>7, <2>1, <2>2 DEF ReadKeys, Seen, InPool
<1>8. CASE ReadValues
  <2> DEFINE read == [a \in scan.page |-> holder[a]]
  <2>1. read \in Values /\ NoValues \in Values
    <3>1. read \in [scan.page -> Nat]
      BY <1>0
    <3> HIDE DEF read
    <3> QED
      BY <1>0, <3>1, ValuesFacts DEF Values
  <2>2. PICK v \in {read, NoValues} : scan' = WithValues(v)
    BY <1>8 DEF ReadValues
  <2>3. \A a \in DOMAIN v : v[a] # 0
    BY <1>0, <2>2 DEF Seen
  <2>4. scan'.page \subseteq scan.page /\ scan'.data \in {v, NoValues, scan.data}
    <3> HIDE DEF read
    <3> QED
      BY <1>0, <2>1, <2>2, ValuesFields DEF Scans
  <2>5. \A a \in DOMAIN scan'.data : scan'.data[a] # 0
    BY <1>0, <2>3, <2>4 DEF Seen
  <2> QED
    BY <1>8, <2>4, <2>5 DEF ReadValues, Seen, InPool
<1>9. ASSUME NEW a \in Holders, InvokeTask(a) PROVE Seen'
  <2> DEFINE f == [b \in DOMAIN scan.data \ {a} |-> scan.data[b]]
  <2>1. scan' = [scan EXCEPT !.data = f]
    BY <1>0, <1>9 DEF InvokeTask, Scans
  <2>2. \A b \in DOMAIN f : f[b] # 0
    BY <1>0 DEF Seen
  <2> HIDE DEF f
  <2>3. scan'.data = f /\ scan'.page = scan.page
    BY <1>0, <2>1 DEF Scans
  <2>4. \A b \in InPool' : tasks'[b].data # 0
    BY <1>0, <1>9 DEF InvokeTask, Seen, InPool
  <2> QED
    BY <1>9, <2>2, <2>3, <2>4 DEF InvokeTask, Seen
<1>10. CASE EndPage
  <2>1. scan'.page \subseteq scan.page /\ scan'.data \in {NoValues, scan.data}
    BY <1>0, <1>10, PageFields DEF EndPage, Scans
  <2> QED
    BY <1>0, <1>10, <2>1 DEF EndPage, Seen, InPool
<1>11. ASSUME NEW a \in Holders, AddTask(a) \/ AddOrUpdateItem(a) PROVE Seen'
  <2>1. \A b \in InPool' : tasks'[b].data = tasks[b].data /\ b \in InPool
    <3>1. CASE AddTask(a)
      BY <1>0, <3>1 DEF AddTask, InPool
    <3>2. CASE AddOrUpdateItem(a)
      <4>1. tasks' = [tasks EXCEPT ![a] = NoTask] /\ NoTask.at = "none"
        BY <3>2 DEF AddOrUpdateItem, NoTask
      <4> QED
        BY <1>0, <4>1 DEF InPool
    <3> QED
      BY <1>11, <3>1, <3>2
  <2> QED
    BY <1>11, <2>1 DEF AddTask, AddOrUpdateItem, Seen
<1>12. CASE ReturnInit
  BY <1>0, <1>12 DEF ReturnInit, NoScan, NoTask, Seen, InPool
<1>13. CASE UNCHANGED initVars
  BY <1>13 DEF initVars, Seen, InPool
<1> QED
  BY <1>1, <1>2, <1>3, <1>4, <1>5, <1>6, <1>7, <1>8, <1>9, <1>10, <1>11, <1>12, <1>13 DEF InitAccountNext

(* What is reached stays so while the command runs.                        *)
LEMMA ReachedStays ==
    ASSUME InitTypes, Seen, [InitAccountNext]_initVars, NEW a \in Holders, Reached(a)
    PROVE  Reached(a)' \/ scan'.at = "panic"
<1>0. /\ tasks \in [Holders -> [at : {"none", "handed", "counted"}, data : Nat, locks : Nat]]
      /\ holderRow \in [Holders -> [data : Nat, locks : Nat]]
      /\ refresher.at # "idle" => refresher.account \in Holders
      /\ scan \in Scans
  BY DEF InitTypes
<1>1. holderRow[a].data # 0 => holderRow'[a].data # 0
  <2>1. CASE UNCHANGED holderRow
    BY <2>1
  <2>2. CASE UpdateHolderRow
    BY <1>0, <2>2 DEF UpdateHolderRow, Seen
  <2>3. ASSUME NEW b \in Holders, AddOrUpdateItem(b), holderRow' # holderRow
        PROVE  holderRow[a].data # 0 => holderRow'[a].data # 0
    <3>1. b \in InPool /\ holderRow' = [holderRow EXCEPT ![b] = [data |-> tasks[b].data, locks |-> tasks[b].locks]]
      BY <2>3 DEF AddOrUpdateItem, InPool
    <3> QED
      BY <1>0, <3>1 DEF Seen
  <2>4. holderRow' = holderRow \/ UpdateHolderRow \/ \E b \in Holders : AddOrUpdateItem(b)
    BY DEF InitAccountNext, ChangeHolder, StartRefresher, InvokeTask, AddTask, ReadHolderLocks, StartInit,
           ReadKeysFails, ReadKeys, ReadValues, EndPage, ReturnInit, initVars
  <2> QED
    BY <2>1, <2>2, <2>3, <2>4
<1>2. passedOver \subseteq passedOver'
  BY DEF InitAccountNext, ChangeHolder, StartRefresher, InvokeTask, AddTask, ReadHolderLocks, UpdateHolderRow, StartInit,
         ReadKeysFails, ReadKeys, ReadValues, EndPage, ReturnInit, AddOrUpdateItem, initVars
<1>3. a \in InPool => Reached(a)' \/ scan'.at = "panic"
  <2>1. SUFFICES ASSUME a \in InPool PROVE Reached(a)' \/ scan'.at = "panic"
    OBVIOUS
  <2>2. CASE tasks'[a].at # "none"
    BY <2>2 DEF Reached, InPool
  <2>3. ASSUME NEW b \in Holders, AddOrUpdateItem(b), tasks'[a].at = "none" PROVE Reached(a)'
    <3>1. tasks' = [tasks EXCEPT ![b] = NoTask]
      BY <2>3 DEF AddOrUpdateItem
    <3>2. a = b
      BY <1>0, <2>1, <2>3, <3>1 DEF InPool
    <3> QED
      BY <1>0, <2>1, <2>3, <3>2 DEF AddOrUpdateItem, Reached, Seen
  <2>4. CASE ReadKeysFails
    BY <1>0, <2>1, <2>4 DEF ReadKeysFails, NoScan, Scans, Reached, InPool
  <2>5. CASE ReturnInit
    BY <2>1, <2>5 DEF ReturnInit, Reached
  <2>6. ASSUME NEW b \in Holders, InvokeTask(b) \/ AddTask(b) PROVE tasks'[a].at # "none"
    BY <1>0, <2>1, <2>6 DEF InvokeTask, AddTask, InPool
  <2>7. tasks' = tasks \/ ReadKeysFails \/ ReturnInit
        \/ \E b \in Holders : AddOrUpdateItem(b) \/ InvokeTask(b) \/ AddTask(b)
    BY DEF InitAccountNext, ChangeHolder, StartRefresher, ReadHolderLocks, UpdateHolderRow, StartInit,
           ReadKeys, ReadValues, EndPage, initVars
  <2> QED
    BY <2>1, <2>2, <2>3, <2>4, <2>5, <2>6, <2>7 DEF InPool
<1> QED
  BY <1>1, <1>2, <1>3 DEF Reached

LEMMA WalkedStep ==
    ASSUME InitTypes, Seen, Walked, [InitAccountNext]_initVars
    PROVE  Walked'
<1>0. /\ scan \in Scans /\ begun \in SUBSET Holders /\ scan.page \in SUBSET Holders
      /\ \A a \in Holders : a \in Nat /\ a > 0
      /\ DOMAIN NoValues = {} /\ DOMAIN scan.data \in SUBSET Holders
      /\ tasks \in [Holders -> [at : {"none", "handed", "counted"}, data : Nat, locks : Nat]]
  BY ValuesFacts DEF InitTypes, Scans, Holders
<1>1. begun' = begun /\ scan'.at # "panic" => \A a \in begun : Reached(a) => Reached(a)'
  BY <1>0, ReachedStays
<1>2. CASE UNCHANGED <<scan, begun>> /\ (InPool = {} => InPool' = {})
  <2>1. CASE scan.at = "panic"
    BY <1>2, <2>1 DEF Walked
  <2>2. CASE scan.at # "panic"
    <3>1. \A a \in begun : Reached(a) => Reached(a)'
      BY <1>1, <1>2, <2>2
    <3>2. \A a \in begun : Beyond(a)' <=> Beyond(a)
      BY <1>2 DEF Beyond, LastPage
    <3> QED
      BY <1>2, <3>1, <3>2 DEF Walked
  <2> QED
    BY <2>1, <2>2
<1>3. CASE StartInit
  BY <1>3 DEF StartInit, NoScan, Walked
<1>4. CASE ReadKeysFails
  <2>1. CASE scan.of = "accounts"
    BY <1>4, <2>1 DEF ReadKeysFails, NoScan, Walked
  <2>2. CASE scan.of = "locks"
    <3>1. scan'.at = "keys" /\ scan'.start = 0 /\ scan'.of = "accounts"
      BY <1>0, <1>4, <2>2 DEF ReadKeysFails, Scans
    <3> QED
      BY <1>0, <1>4, <3>1 DEF ReadKeysFails, Walked
  <2> QED
    BY <1>0, <2>1, <2>2 DEF Scans
<1>5. CASE ReadKeys
  <2> DEFINE page == PageOf(KeysAfter(scan.start))
  <2>1. scan'.at = "values" /\ scan'.of = scan.of /\ scan'.start = scan.start /\ scan'.page = page
        /\ UNCHANGED <<begun, holder>> /\ scan.at = "keys"
    BY <1>0, <1>5 DEF ReadKeys, Scans
  <2>2. ASSUME NEW a \in begun, ~(a <= scan.start), a \notin page PROVE Beyond(a)'
    <3>1. a \in KeysAfter(scan.start)
      BY <1>0, <2>2 DEF KeysAfter, Seen, Scans
    <3>2. KeysAfter(scan.start) \in SUBSET Holders
      BY DEF KeysAfter
    <3>3. ~(Cardinality(page) < PageSize) /\ a > Max(page)
      BY <2>2, <3>1, <3>2, LeftOut
    <3> HIDE DEF page
    <3> QED
      BY <2>1, <3>3 DEF Beyond, LastPage
  <2>3. \A a \in begun : Reached(a) => Reached(a)'
    BY <1>1, <2>1
  <2> HIDE DEF page
  <2> QED
    BY <2>1, <2>2, <2>3 DEF Walked
<1>6. CASE ReadValues
  <2> DEFINE read == [a \in scan.page |-> holder[a]]
             s == scan'
  <2>1. read \in Values /\ NoValues \in Values
    <3>1. read \in [scan.page -> Nat]
      BY <1>0 DEF InitTypes
    <3> HIDE DEF read
    <3> QED
      BY <1>0, <3>1, ValuesFacts DEF Values
  <2>2. /\ scan.at = "values" /\ begun' = begun
        /\ \/ s = WithValues(read)
           \/ s = WithValues(NoValues) /\ (scan.of = "accounts" => passedOver' = passedOver \cup scan.page)
    BY <1>6 DEF ReadValues
  <2>3. CASE scan.of = "locks"
    <3>1. s.at = "keys" /\ (s.of = "accounts" => s.start = 0)
      <4> HIDE DEF read
      <4> QED
        BY <2>1, <2>2, <2>3, ValuesFields
    <3> QED
      BY <1>0, <2>2, <3>1 DEF Walked
  <2>4. CASE scan.of = "accounts"
    <3>1. /\ s.at = "hand" /\ s.of = "accounts" /\ s.start = scan.start /\ s.page = scan.page
          /\ \/ s.data = read
             \/ passedOver' = passedOver \cup scan.page
      <4> HIDE DEF read
      <4> QED
        BY <2>1, <2>2, <2>4, ValuesFields
    <3>2. \A a \in begun : Reached(a) => Reached(a)'
      BY <1>1, <2>2, <3>1
    <3>3. \A a \in scan.page : a \in DOMAIN s.data \/ a \in passedOver'
      BY <3>1
    <3>4. \A a \in begun : Beyond(a)' <=> Beyond(a)
      BY <3>1 DEF Beyond, LastPage
    <3>5. \A a \in begun : a \in DOMAIN s.data \/ Reached(a)' \/ Beyond(a)'
      BY <2>2, <2>4, <3>2, <3>3, <3>4 DEF Walked, Reached
    <3>6. \A a \in begun : a <= s.start => Reached(a)'
      BY <2>2, <2>4, <3>1, <3>2 DEF Walked
    <3> HIDE DEF read
    <3> QED
      BY <2>2, <3>1, <3>5, <3>6 DEF Walked
  <2> QED
    BY <1>0, <2>3, <2>4 DEF Scans
<1>7. ASSUME NEW a \in Holders, InvokeTask(a) PROVE Walked'
  <2> DEFINE f == [b \in DOMAIN scan.data \ {a} |-> scan.data[b]]
  <2>1. scan' = [scan EXCEPT !.data = f] /\ scan.at = "hand" /\ begun' = begun
    BY <1>0, <1>7 DEF InvokeTask, Scans
  <2>2. DOMAIN f = DOMAIN scan.data \ {a}
    OBVIOUS
  <2> HIDE DEF f
  <2>3. scan'.data = f /\ scan'.page = scan.page /\ scan'.at = "hand" /\ scan'.of = scan.of /\ scan'.start = scan.start
    BY <1>0, <2>1 DEF Scans
  <2>4. a \in InPool'
    BY <1>0, <1>7 DEF InvokeTask, InPool
  <2>5. \A b \in begun : Reached(b) => Reached(b)'
    BY <1>1, <2>1, <2>3
  <2>6. \A b \in begun : Beyond(b)' <=> Beyond(b)
    BY <2>3 DEF Beyond, LastPage
  <2>7. Reached(a)'
    BY <2>4 DEF Reached
  <2>8. \A b \in begun : b \in DOMAIN scan'.data \/ Reached(b)' \/ Beyond(b)'
    BY <2>1, <2>2, <2>3, <2>5, <2>6, <2>7 DEF Walked
  <2> QED
    BY <2>1, <2>3, <2>5, <2>8 DEF Walked
<1>8. CASE EndPage
  <2>1. scan.at = "hand" /\ DOMAIN scan.data = {} /\ begun' = begun /\ scan.of = "accounts"
    BY <1>8 DEF EndPage, Walked
  <2>2. CASE LastPage
    <3>1. scan'.at = "wait" /\ scan'.of = "accounts" /\ scan'.start = scan.start
      BY <1>0, <1>8, <2>1, <2>2 DEF EndPage, Scans
    <3>2. \A a \in begun : Reached(a)
      BY <2>1, <2>2 DEF Walked, Beyond
    <3>3. \A a \in begun : Reached(a)'
      BY <1>1, <2>1, <3>1, <3>2
    <3> QED
      BY <2>1, <3>1, <3>3 DEF Walked
  <2>3. CASE ~LastPage
    <3>1. scan'.at = "keys" /\ scan'.of = "accounts" /\ scan'.start = Max(scan.page) /\ Max(scan.page) \in Nat
      BY <1>0, <1>8, <2>1, <2>3, PageFields, FullPage DEF EndPage, LastPage
    <3>2. \A a \in begun : a <= Max(scan.page) => Reached(a)
      BY <1>0, <2>1, <3>1 DEF Walked, Beyond
    <3>3. \A a \in begun : Reached(a) => Reached(a)'
      BY <1>1, <2>1, <3>1
    <3> QED
      BY <2>1, <3>1, <3>2, <3>3 DEF Walked
  <2> QED
    BY <2>2, <2>3
<1>9. CASE ReturnInit
  <2>1. scan'.at = "returned" /\ scan'.of = "locks" /\ begun' = begun /\ scan.at = "wait"
    BY <1>9 DEF ReturnInit, NoScan
  <2>2. \A a \in begun : Reached(a)'
    BY <1>1, <2>1 DEF Walked
  <2>3. InPool' = {}
    BY <1>9 DEF ReturnInit, InPool, NoTask
  <2> QED
    BY <2>1, <2>2, <2>3 DEF Walked
<1>10. ASSUME NEW a \in Holders, ChangeHolder(a) \/ StartRefresher(a)
       PROVE  UNCHANGED <<scan, begun>> /\ (InPool = {} => InPool' = {})
  BY <1>10 DEF ChangeHolder, StartRefresher, InPool
<1>11. ASSUME NEW a \in Holders, AddTask(a) \/ AddOrUpdateItem(a)
       PROVE  UNCHANGED <<scan, begun>> /\ (InPool = {} => InPool' = {})
  BY <1>11 DEF AddTask, AddOrUpdateItem, InPool
<1>12. CASE ReadHolderLocks \/ UpdateHolderRow \/ UNCHANGED initVars
  <2>1. UNCHANGED <<scan, begun>> /\ InPool' = InPool
    BY <1>12 DEF ReadHolderLocks, UpdateHolderRow, initVars, InPool
  <2> QED
    BY <1>2, <2>1
<1> QED
  BY <1>2, <1>3, <1>4, <1>5, <1>6, <1>7, <1>8, <1>9, <1>10, <1>11, <1>12 DEF InitAccountNext

LEMMA FewLostStep ==
    ASSUME InitTypes, Walked, FewLost, [InitAccountNext]_initVars
    PROVE  FewLost'
<1>0. /\ tasks \in [Holders -> [at : {"none", "handed", "counted"}, data : Nat, locks : Nat]]
      /\ initFaults \in Nat /\ scan \in Scans /\ passedOver \in SUBSET Holders /\ PoolSize \in Nat
      /\ InPool \in SUBSET Holders /\ InPool' \in SUBSET Holders
  BY InitAccountAssumption DEF InitTypes, InPool
<1>1. \A S \in SUBSET Holders : IsFiniteSet(S) /\ Cardinality(S) \in Nat
  <2>1. 1 \in Int /\ NumHolders \in Int
    BY InitAccountAssumption
  <2>2. IsFiniteSet(Holders)
    BY <2>1, FS_Interval DEF Holders
  <2> QED
    BY <2>2, FS_Subset, FS_CardinalityType
<1>2. Cardinality({}) = 0
  BY FS_EmptySet
<1>3. ASSUME InPool' \subseteq InPool PROVE Cardinality(InPool') <= PoolSize
  <2>1. Cardinality(InPool') <= Cardinality(InPool)
    BY <1>0, <1>1, <1>3, FS_Subset
  <2>2. Cardinality(InPool') \in Nat /\ Cardinality(InPool) \in Nat
    BY <1>0, <1>1
  <2> QED
    BY <1>0, <2>1, <2>2 DEF FewLost
<1>4. ASSUME NEW a \in Holders, InvokeTask(a) PROVE FewLost'
  <2>1. InPool' = InPool \cup {a}
    BY <1>0, <1>4 DEF InvokeTask, InPool
  <2>2. Cardinality(InPool \cup {a}) <= Cardinality(InPool) + 1
    <3>1. IsFiniteSet(InPool) /\ Cardinality(InPool) \in Nat
      BY <1>0, <1>1
    <3>2. Cardinality(InPool \cup {a}) = IF a \in InPool THEN Cardinality(InPool) ELSE Cardinality(InPool) + 1
      BY <3>1, FS_AddElement
    <3> QED
      BY <3>1, <3>2
  <2>3. Cardinality(InPool') <= PoolSize
    <3>1. Cardinality(InPool) < PoolSize
      BY <1>4 DEF InvokeTask
    <3>2. Cardinality(InPool) \in Nat /\ Cardinality(InPool \cup {a}) \in Nat
      BY <1>0, <1>1, <2>1
    <3> QED
      BY <1>0, <2>1, <2>2, <3>1, <3>2
  <2>4. scan'.at = scan.at /\ UNCHANGED <<passedOver, initFaults>>
    BY <1>0, <1>4 DEF InvokeTask, Scans
  <2> QED
    BY <2>3, <2>4 DEF FewLost
<1>5. CASE ReturnInit
  <2>1. InPool' = {} /\ passedOver' = passedOver \cup InPool /\ scan.at = "wait" /\ initFaults' = initFaults
        /\ scan'.at = "returned"
    BY <1>5 DEF ReturnInit, InPool, NoTask, NoScan
  <2>2. Cardinality(InPool') <= PoolSize
    BY <1>3, <2>1
  <2>3. initFaults = 0 => passedOver' = InPool
    BY <2>1 DEF FewLost
  <2> QED
    BY <2>1, <2>2, <2>3 DEF FewLost
<1>6. ASSUME InPool' \subseteq InPool, scan'.at = "returned" <=> scan.at = "returned",
             \/ initFaults' = initFaults /\ passedOver' = passedOver
             \/ initFaults' = initFaults + 1
      PROVE  FewLost'
  <2>1. Cardinality(InPool') <= PoolSize
    BY <1>3, <1>6
  <2>2. initFaults' = 0 => initFaults = 0 /\ passedOver' = passedOver
    BY <1>0, <1>6
  <2>3. initFaults' = 0 => Cardinality(passedOver') <= PoolSize /\ (scan'.at # "returned" => passedOver' = {})
    <3>1. SUFFICES ASSUME initFaults' = 0
                   PROVE  Cardinality(passedOver') <= PoolSize /\ (scan'.at # "returned" => passedOver' = {})
      OBVIOUS
    <3>2. passedOver' = passedOver /\ Cardinality(passedOver) <= PoolSize
      BY <2>2, <3>1 DEF FewLost
    <3>3. CASE scan.at = "returned"
      BY <1>6, <3>2, <3>3
    <3> QED
      BY <1>6, <2>2, <3>1, <3>2, <3>3 DEF FewLost
  <2> QED
    BY <2>1, <2>3 DEF FewLost
<1>7. ASSUME NEW a \in Holders, ChangeHolder(a) \/ StartRefresher(a) PROVE FewLost'
  BY <1>6, <1>7 DEF ChangeHolder, StartRefresher, InPool
<1>8. CASE ReadHolderLocks \/ UpdateHolderRow \/ UNCHANGED initVars
  <2>1. UNCHANGED <<InPool, scan, initFaults, passedOver>>
    BY <1>8 DEF ReadHolderLocks, UpdateHolderRow, initVars, InPool
  <2> QED
    BY <1>6, <2>1
<1>9. CASE StartInit \/ ReadKeys \/ EndPage
  <2>1. UNCHANGED <<InPool, initFaults, passedOver>>
    BY <1>9 DEF StartInit, ReadKeys, EndPage, InPool
  <2>2. scan'.at # "returned" /\ scan.at # "returned"
    BY <1>0, <1>9, PageFields DEF StartInit, ReadKeys, EndPage, NoScan, Scans
  <2> QED
    BY <1>6, <2>1, <2>2
<1>10. CASE ReadKeysFails
  <2>1. initFaults' = initFaults + 1 /\ InPool' \subseteq InPool
    BY <1>10 DEF ReadKeysFails, InitFault, InPool, NoTask
  <2>2. scan'.at # "returned" /\ scan.at # "returned"
    BY <1>0, <1>10 DEF ReadKeysFails, NoScan, Scans
  <2> QED
    BY <1>6, <2>1, <2>2
<1>11. CASE ReadValues
  <2>1. InPool' = InPool
    BY <1>11 DEF ReadValues, InPool
  <2>2. \/ initFaults' = initFaults /\ passedOver' = passedOver
        \/ initFaults' = initFaults + 1
    BY <1>11 DEF ReadValues, InitFault
  <2>3. scan'.at # "returned" /\ scan.at # "returned"
    <3> DEFINE read == [a \in scan.page |-> holder[a]]
    <3>1. read \in Values /\ NoValues \in Values
      <4>1. read \in [scan.page -> Nat] /\ scan.page \in SUBSET Holders
        BY <1>0 DEF InitTypes, Scans
      <4> HIDE DEF read
      <4> QED
        BY <4>1, ValuesFacts DEF Values
    <3>2. scan.at = "values" /\ (scan' = WithValues(read) \/ scan' = WithValues(NoValues))
      BY <1>11 DEF ReadValues
    <3> HIDE DEF read
    <3> QED
      BY <1>0, <3>1, <3>2, ValuesFields DEF Scans
  <2> QED
    BY <1>6, <2>1, <2>2, <2>3
<1>12. ASSUME NEW a \in Holders, AddTask(a) PROVE FewLost'
  <2>1. InPool' \subseteq InPool
    BY <1>0, <1>12 DEF AddTask, InPool
  <2> QED
    BY <1>6, <1>12, <2>1 DEF AddTask
<1>13. ASSUME NEW a \in Holders, AddOrUpdateItem(a) PROVE FewLost'
  <2>1. InPool' \subseteq InPool
    <3>1. tasks' = [tasks EXCEPT ![a] = NoTask] /\ NoTask.at = "none"
      BY <1>13 DEF AddOrUpdateItem, NoTask
    <3> QED
      BY <1>0, <3>1 DEF InPool
  <2> QED
    <3>1. /\ scan' = scan
          /\ \/ initFaults' = initFaults /\ passedOver' = passedOver
             \/ initFaults' = initFaults + 1
      BY <1>13 DEF AddOrUpdateItem, InitFault
    <3> QED
      BY <1>6, <2>1, <3>1
<1> QED
  BY <1>4, <1>5, <1>7, <1>8, <1>9, <1>10, <1>11, <1>12, <1>13 DEF InitAccountNext

(* A command that returned has written a row for every account that was on *)
(* the chain when it began, but for pages and writes that failed and for   *)
(* at most as many tasks as the pool has goroutines; and a row that is not *)
(* known to be outdated is what the chain says once the refreshes are      *)
(* done: for any number of accounts, any size of a page and of the pool.   *)
THEOREM InitAccountIsSound == InitCommandSpec => []InitAccountSound
<1>1. InitAccountInit => InitInv
  <2> SUFFICES ASSUME InitAccountInit PROVE InitInv
    OBVIOUS
  <2>1. /\ holder \in [Holders -> {0, 1}] /\ holderRow = [a \in Holders |-> [data |-> 0, locks |-> 0]]
        /\ eventRefresh = {} /\ refresher = NoRefresher /\ scan = NoScan
        /\ tasks = [a \in Holders |-> NoTask] /\ begun = {} /\ passedOver = {} /\ outdated = {}
        /\ changes = 0 /\ initFaults = 0
    BY DEF InitAccountInit
  <2>2. NoScan \in Scans /\ NoScan.at = "idle" /\ NoScan.page = {} /\ DOMAIN NoScan.data = {} /\ NoScan.of = "locks"
    BY ValuesFacts DEF NoScan, Scans
  <2>3. InitTypes
    BY <2>1, <2>2 DEF InitTypes, NoRefresher, NoTask
  <2>4. InPool = {} /\ Cardinality({}) = 0
    BY <2>1, FS_EmptySet DEF InPool, NoTask
  <2>5. RowsKnown /\ Seen
    BY <2>1, <2>2, <2>4 DEF RowsKnown, Seen, NoRefresher
  <2>6. Walked /\ FewLost
    BY <2>1, <2>2, <2>4, InitAccountAssumption DEF Walked, FewLost
  <2> QED
    BY <2>3, <2>5, <2>6 DEF InitInv
<1>2. InitInv /\ [InitAccountNext]_initVars => InitInv'
  BY InitTypesStep, RowsKnownStep, SeenStep, WalkedStep, FewLostStep DEF InitInv
<1>3. InitInv => InitAccountSound
  <2> SUFFICES ASSUME InitInv PROVE InitAccountSound
    OBVIOUS
  <2>1. InitComplete
    BY DEF InitInv, Walked, Reached, FewLost, InitComplete, InitTypes
  <2>2. InitRowsCurrent
    BY DEF InitInv, RowsKnown, Coming, InitRowsCurrent
  <2> QED
    BY <2>1, <2>2 DEF InitAccountSound
<1> QED
  BY <1>1, <1>2, <1>3, PTL DEF InitCommandSpec

-----------------------------------------------------------------------------
(* The task pool: any finite set of tasks, any number of goroutines.       *)

States == {"listed", "popped", "running", "sending", "leaving", "done"}

-----------------------------------------------------------------------------
(* The pool is never overfull: only Invoke makes a goroutine busy, and it  *)
(* waits for a free one.                                                   *)
LEMMA BusyShrinks ==
    ASSUME TypeOK, Busy' \subseteq Busy
    PROVE  Cardinality(Busy') <= Pool
<1>1. IsFiniteSet(Busy)
  BY TasksAssumption, FS_Subset DEF Busy, At
<1>2. /\ Cardinality(Busy') <= Cardinality(Busy)
      /\ Cardinality(Busy') \in Nat
      /\ Cardinality(Busy) \in Nat
  BY <1>1, FS_Subset, FS_CardinalityType
<1>3. Cardinality(Busy) <= Pool
  BY DEF TypeOK
<1> QED
  BY <1>2, <1>3, PoolAssumption

LEMMA BusyGrows ==
    ASSUME TypeOK, NEW t \in Tasks, Invoke(t)
    PROVE  Cardinality(Busy') <= Pool
<1>1. Busy' = Busy \cup {t} /\ t \notin Busy
  BY DEF TypeOK, Invoke, Move, Busy, At
<1>2. IsFiniteSet(Busy)
  BY TasksAssumption, FS_Subset DEF Busy, At
<1>3. Cardinality(Busy) \in Nat /\ Cardinality(Busy') = Cardinality(Busy) + 1
  BY <1>1, <1>2, FS_AddElement, FS_CardinalityType
<1>4. Cardinality(Busy) < Pool
  BY DEF Invoke, HasRoom
<1> QED
  BY <1>3, <1>4, PoolAssumption

(* Every reachable state of the pool is well typed, and at most Pool tasks *)
(* run at the same time.                                                   *)
THEOREM PoolTyped == Spec => []TypeOK
<1>1. Init => TypeOK
  <2> SUFFICES ASSUME Init PROVE TypeOK
    OBVIOUS
  <2>1. Busy = {}
    BY DEF Init, Busy, At
  <2>2. Cardinality(Busy) <= Pool
    BY <2>1, FS_EmptySet, PoolAssumption
  <2> QED
    BY <2>2 DEF Init, TypeOK
<1>2. TypeOK /\ [Next]_vars => TypeOK'
  <2> SUFFICES ASSUME TypeOK, [Next]_vars PROVE TypeOK'
    OBVIOUS
  <2>1. ASSUME NEW t \in Tasks, NEW s \in States, Move(t, s)
        PROVE  state' \in [Tasks -> States]
    BY <2>1 DEF Move, States, TypeOK
  <2>2. ASSUME NEW t \in Tasks,
               Pop(t) \/ Receive(t) \/ Finish(t) \/ Leave(t)
        PROVE  TypeOK'
    <3>1. Busy' \subseteq Busy
      BY <2>2 DEF Pop, Receive, Finish, Leave, Move, Busy, At, TypeOK
    <3>2. Cardinality(Busy') <= Pool
      BY <3>1, BusyShrinks
    <3>3. state' \in [Tasks -> States]
      BY <2>1, <2>2 DEF Pop, Receive, Finish, Leave, States
    <3> QED
      BY <2>2, <3>2, <3>3 DEF Pop, Receive, Finish, Leave, States, TypeOK
  <2>3. ASSUME NEW t \in Tasks, Invoke(t) PROVE TypeOK'
    <3>1. Cardinality(Busy') <= Pool
      BY <2>3, BusyGrows
    <3> QED
      BY <2>1, <2>3, <3>1 DEF Invoke, States, TypeOK
  <2>4. ASSUME UNCHANGED state PROVE Cardinality(Busy') <= Pool
    BY <2>4, BusyShrinks DEF Busy, At
  <2>5. CASE Poll \/ StartDrain \/ Handle \/ Close
    <3>1. UNCHANGED state
      BY <2>5 DEF Poll, StartDrain, Handle, Close
    <3>2. Cardinality(Busy') <= Pool
      BY <2>4, <3>1
    <3> QED
      BY <2>5, <3>2 DEF Poll, StartDrain, Handle, Close, TypeOK
  <2>6. CASE CallWait \/ ReturnWait \/ Cancel
    <3>1. UNCHANGED state
      BY <2>6 DEF CallWait, ReturnWait, Cancel
    <3>2. Cardinality(Busy') <= Pool
      BY <2>4, <3>1
    <3> QED
      BY <2>6, <3>2 DEF CallWait, ReturnWait, Cancel, TypeOK
  <2>7. CASE UNCHANGED vars
    <3>1. Cardinality(Busy') <= Pool
      BY <2>4, <2>7 DEF vars
    <3> QED
      BY <2>7, <3>1 DEF vars, TypeOK
  <2> QED
    BY <2>2, <2>3, <2>5, <2>6, <2>7 DEF Next, Run
<1> QED
  BY <1>1, <1>2, PTL DEF Spec

-----------------------------------------------------------------------------
(* The inductive invariant: where the tasks can be in each phase of run(), *)
(* and who has failed.                                                     *)

OnePopped ==
    /\ main = "invoke" => \E t \in Tasks : state[t] = "popped"
    /\ \A t \in Tasks : state[t] = "popped" => main = "invoke"
    /\ \A t, u \in Tasks :
          state[t] = "popped" /\ state[u] = "popped" => t = u

Phases ==
    /\ main \in {"drain", "ended"} => \A t \in Tasks : state[t] # "listed"
    /\ closer # "none" => main \in {"drain", "ended"}
    /\ main = "ended" => closer = "closed"
    /\ main = "abandoned" => cancelled

AllDone == closer = "closed" => \A t \in Tasks : state[t] = "done"

Failures ==
    /\ errs \subseteq failed
    /\ \A t \in Tasks : state[t] = "sending" => t \in failed
    /\ \A t \in failed : state[t] = "sending" \/ t \in errs

PoolSettled ==
    waiter \in {"true", "false"} /\ ~ cancelled => main = "ended"

PoolInv == OnePopped /\ Phases /\ AllDone /\ Failures /\ PoolSettled

LEMMA PoolInductive == TypeOK /\ PoolInv /\ [Next]_vars => PoolInv'
<1> SUFFICES ASSUME TypeOK, PoolInv, [Next]_vars PROVE PoolInv'
  OBVIOUS
<1> USE DEF TypeOK, PoolInv, OnePopped, Phases, AllDone, Failures, PoolSettled
<1>1. ASSUME NEW t \in Tasks, Pop(t) PROVE PoolInv'
  BY <1>1 DEF Pop, Move
<1>2. ASSUME NEW t \in Tasks, Invoke(t) PROVE PoolInv'
  BY <1>2 DEF Invoke, Move
<1>3. ASSUME NEW t \in Tasks, Receive(t) PROVE PoolInv'
  BY <1>3 DEF Receive, Move
<1>4. ASSUME NEW t \in Tasks, Finish(t) PROVE PoolInv'
  BY <1>4 DEF Finish, Move
<1>5. ASSUME NEW t \in Tasks, Leave(t) PROVE PoolInv'
  BY <1>5 DEF Leave, Move
<1>6. CASE Poll
  BY <1>6 DEF Poll
<1>7. CASE StartDrain
  BY <1>7 DEF StartDrain, At
<1>8. CASE Close
  (* Nothing is listed any more, and nothing is counted.                   *)
  BY <1>8 DEF Close, NoneCounted, Busy, At
<1>9. CASE Handle
  BY <1>9 DEF Handle
<1>10. CASE CallWait
  BY <1>10 DEF CallWait, Stopped
<1>11. CASE ReturnWait
  BY <1>11 DEF ReturnWait, Stopped
<1>12. CASE Cancel
  BY <1>12 DEF Cancel
<1>13. CASE UNCHANGED vars
  BY <1>13 DEF vars
<1> QED
  BY <1>1, <1>2, <1>3, <1>4, <1>5, <1>6, <1>7, <1>8, <1>9, <1>10, <1>11,
     <1>12, <1>13 DEF Next, Run

LEMMA PoolInvariant == Spec => [](TypeOK /\ PoolInv)
<1>1. Init => PoolInv
  BY DEF Init, PoolInv, OnePopped, Phases, AllDone, Failures, PoolSettled
<1> QED
  BY <1>1, PoolInductive, PoolTyped, PTL DEF Spec

-----------------------------------------------------------------------------
(* No task ever sends its error on the closed channel.                     *)
THEOREM NeverSendsOnClosed == Spec => []NoSendOnClosed
<1>1. TypeOK /\ PoolInv => NoSendOnClosed
  BY DEF PoolInv, AllDone, NoSendOnClosed, At
<1> QED
  BY <1>1, PoolInvariant, PTL

(* The error handler gets exactly the errors of the tasks that failed.     *)
THEOREM HandlerGetsAll == Spec => []HandlerExact
<1>1. TypeOK /\ PoolInv => HandlerExact
  BY DEF TypeOK, PoolInv, Phases, AllDone, Failures, HandlerExact
<1> QED
  BY <1>1, PoolInvariant, PTL

(* What Wait's caller reads after it returned is no longer written, unless *)
(* the context is done.                                                    *)
THEOREM WaitIsSettled == Spec => []WaitSettles
<1>1. TypeOK /\ PoolInv => WaitSettles
  BY DEF PoolInv, Phases, AllDone, PoolSettled, WaitSettles, At
<1> QED
  BY <1>1, PoolInvariant, PTL

(* A stuck pool has met as many failures as it has goroutines and was      *)
(* given more tasks than that.                                             *)
THEOREM StuckNeedsFailures == Spec => []StuckOnlyWhenFull
<1>1. TypeOK /\ PoolInv => StuckOnlyWhenFull
  <2> SUFFICES ASSUME TypeOK, PoolInv, Stuck
               PROVE  /\ Cardinality(failed) >= Pool
                      /\ Cardinality(Tasks) > Pool
    BY DEF StuckOnlyWhenFull
  <2>1. PICK t \in Tasks : state[t] = "popped"
    BY DEF Stuck, PoolInv, OnePopped
  <2>2. Busy \subseteq failed /\ failed \subseteq Tasks
    BY DEF Stuck, At, PoolInv, Failures, TypeOK
  <2>3. t \notin Busy
    BY <2>1 DEF Busy, At
  <2>4. IsFiniteSet(failed) /\ IsFiniteSet(Busy) /\ IsFiniteSet(Tasks)
    BY <2>2, TasksAssumption, FS_Subset
  <2>5. /\ Cardinality(Busy) \in Nat
        /\ Cardinality(failed) \in Nat
        /\ Cardinality(Tasks) \in Nat
    BY <2>4, FS_CardinalityType
  <2>6. Cardinality(Busy) <= Cardinality(failed)
    BY <2>2, <2>4, FS_Subset
  <2>7. Cardinality(Busy \cup {t}) = Cardinality(Busy) + 1
    BY <2>3, <2>4, FS_AddElement
  <2>8. Cardinality(Busy \cup {t}) <= Cardinality(Tasks)
    BY <2>2, <2>4, FS_Subset
  <2>9. Cardinality(Busy) >= Pool
    BY <2>5, PoolAssumption DEF Stuck, HasRoom
  <2> QED
    BY <2>5, <2>6, <2>7, <2>8, <2>9, PoolAssumption
<1> QED
  BY <1>1, PoolInvariant, PTL

(* What the callers of run() and Wait rely on, together.                   *)
THEOREM ReturnsExactly == Spec => []ReturnExact
<1>1. NoSendOnClosed /\ HandlerExact /\ WaitSettles /\ StuckOnlyWhenFull => ReturnExact
  BY DEF ReturnExact
<1> QED
  BY <1>1, NeverSendsOnClosed, HandlerGetsAll, WaitIsSettled, StuckNeedsFailures, PTL

(* So a run of at most as many tasks as the pool has goroutines is never   *)
(* stuck: mergeTokenInfo, the one caller, pushes five.                     *)
THEOREM SmallRunNeverStuck ==
    ASSUME Cardinality(Tasks) <= Pool
    PROVE  Spec => []~Stuck
<1>1. StuckOnlyWhenFull => ~Stuck
  <2>1. Cardinality(Tasks) \in Nat
    BY TasksAssumption, FS_CardinalityType
  <2> QED
    BY <2>1, PoolAssumption DEF StuckOnlyWhenFull
<1> QED
  BY <1>1, StuckNeedsFailures, PTL
=============================================================================
