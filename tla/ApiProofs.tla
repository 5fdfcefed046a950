----------------------------- MODULE ApiProofs -----------------------------
(***************************************************************************)
(* Proofs about the parts that read: the client of the node (Web3Client),  *)
(* the audit endpoints (AgentAudit), the requests of the EVM plugin        *)
(* (EvmApi) and the cursor lists (ReadApi).                                *)
(***************************************************************************)
EXTENDS Web3Client, AgentAudit, EvmApi, ReadApi, FiniteSetTheorems, TLAPS

-----------------------------------------------------------------------------
(* Sorted rows.                                                            *)

\* R is a strict total order of the elements of S.
Orders(R, S) ==
    /\ \A l \in S : <<l, l>> \notin R
    /\ \A l, m \in S : l # m => <<l, m>> \in R \/ <<m, l>> \in R
    /\ \A l, m, n \in S : <<l, m>> \in R /\ <<m, n>> \in R => <<l, n>> \in R

\* The sequence the models build of the elements of S in the order R.
Ranked(S, R) ==
    [i \in 1 .. Cardinality(S) |-> CHOOSE l \in S : Cardinality({m \in S : <<m, l>> \in R}) = i - 1]

\* s lists the elements of S, each once, in the order R.
Sorts(s, S, R) ==
    /\ s \in Seq(S) /\ \A l \in S : \E i \in 1 .. Len(s) : s[i] = l
    /\ \A i, j \in 1 .. Len(s) : <<s[i], s[j]>> \in R <=> i < j

LEMMA RankedSorts ==
    ASSUME NEW S, IsFiniteSet(S), NEW R, Orders(R, S)
    PROVE  Sorts(Ranked(S, R), S, R) /\ Len(Ranked(S, R)) = Cardinality(S)
<1> DEFINE n    == Cardinality(S)
           N    == 0 .. n - 1
           B(l) == {m \in S : <<m, l>> \in R}
           f    == [l \in S |-> Cardinality(B(l))]
<1>1. n \in Nat
  BY FS_CardinalityType
<1>2. ASSUME NEW l \in S PROVE IsFiniteSet(B(l)) /\ f[l] \in Nat
  BY FS_Subset, FS_CardinalityType
<1>3. ASSUME NEW l \in S, NEW m \in S, <<l, m>> \in R PROVE f[l] < f[m]
  <2>1. B(l) \in SUBSET B(m) /\ l \in B(m) /\ l \notin B(l)
    BY <1>3 DEF Orders
  <2> HIDE DEF B
  <2>2. Cardinality(B(l)) <= Cardinality(B(m)) /\ Cardinality(B(l)) # Cardinality(B(m))
    BY <2>1, <1>2, FS_Subset
  <2>3. f[l] = Cardinality(B(l)) /\ f[m] = Cardinality(B(m))
    OBVIOUS
  <2> HIDE DEF f
  <2> QED
    BY <1>2, <2>2, <2>3
<1>4. ASSUME NEW l \in S PROVE f[l] \in N
  <2>1. B(l) \in SUBSET S /\ l \notin B(l)
    BY DEF Orders
  <2>2. f[l] = Cardinality(B(l))
    OBVIOUS
  <2> HIDE DEF B, f
  <2>3. Cardinality(B(l)) <= n /\ Cardinality(B(l)) # n
    BY <2>1, FS_Subset
  <2> QED
    BY <1>1, <1>2, <2>2, <2>3
<1>5. ASSUME NEW l \in S, NEW m \in S PROVE f[l] < f[m] <=> <<l, m>> \in R
  <2>1. f[l] \in Nat /\ f[m] \in Nat
    BY <1>2
  <2>2. <<m, l>> \in R => f[m] < f[l]
    BY <1>3
  <2>3. <<l, m>> \in R => f[l] < f[m]
    BY <1>3
  <2>4. l # m => <<l, m>> \in R \/ <<m, l>> \in R
    BY DEF Orders
  <2> HIDE DEF f
  <2> QED
    BY <2>1, <2>2, <2>3, <2>4
<1>6. f \in Injection(S, N)
  <2>1. f \in [S -> N]
    <3> HIDE DEF N, B
    <3> QED
      BY <1>4
  <2>2. ASSUME NEW l \in S, NEW m \in S, f[l] = f[m] PROVE l = m
    <3> HIDE DEF f
    <3> QED
      BY <1>2, <1>5, <2>2 DEF Orders
  <2> HIDE DEF f
  <2> QED
    BY <2>1, <2>2 DEF Injection, IsInjective
<1>7. f \in Surjection(S, N)
  <2>1. IsFiniteSet(N) /\ Cardinality(N) = n
    BY SMTT(60), <1>1, FS_Interval
  <2> HIDE DEF f, N
  <2> QED
    BY <1>6, <2>1, FS_Injection
<1>8. ASSUME NEW i \in 1 .. n PROVE Ranked(S, R)[i] \in S /\ f[Ranked(S, R)[i]] = i - 1
  <2>1. i - 1 \in N
    BY <1>1
  <2>2. PICK l \in S : f[l] = i - 1
    <3> HIDE DEF f, N
    <3> QED
      BY <1>7, <2>1 DEF Surjection
  <2>3. Cardinality(B(l)) = i - 1
    BY <2>2
  <2>4. Ranked(S, R)[i] = CHOOSE x \in S : Cardinality(B(x)) = i - 1
    BY DEF Ranked
  <2>5. Ranked(S, R)[i] \in S /\ Cardinality(B(Ranked(S, R)[i])) = i - 1
    <3> HIDE DEF B
    <3> QED
      BY <2>3, <2>4
  <2> QED
    BY <2>5
<1> DEFINE s == Ranked(S, R)
<1>9. s \in Seq(S) /\ Len(s) = n /\ DOMAIN s = 1 .. n
  <2> DEFINE e(i) == CHOOSE l \in S : Cardinality(B(l)) = i - 1
  <2>1. s = [i \in 1 .. n |-> e(i)]
    BY DEF Ranked
  <2>2. \A i \in 1 .. n : s[i] \in S
    BY <1>8
  <2> HIDE DEF s, n, e
  <2>3. \A i \in 1 .. n : e(i) \in S
    BY <2>1, <2>2
  <2> QED
    BY <1>1, <2>1, <2>3
<1>10. ASSUME NEW l \in S PROVE \E i \in 1 .. n : s[i] = l
  <2>1. f[l] \in Nat /\ f[l] \in N /\ f[l] + 1 \in 1 .. n
    BY <1>1, <1>2, <1>4
  <2>2. s[f[l] + 1] \in S /\ f[s[f[l] + 1]] = (f[l] + 1) - 1
    BY <1>8, <2>1
  <2> HIDE DEF f, s
  <2>3. f[s[f[l] + 1]] = f[l]
    BY <2>1, <2>2
  <2>4. s[f[l] + 1] = l
    BY <1>6, <2>2, <2>3 DEF Injection, IsInjective
  <2> QED
    BY <2>1, <2>4
<1>11. ASSUME NEW i \in 1 .. n, NEW j \in 1 .. n PROVE <<s[i], s[j]>> \in R <=> i < j
  <2>1. s[i] \in S /\ f[s[i]] = i - 1 /\ s[j] \in S /\ f[s[j]] = j - 1
    BY <1>8
  <2> HIDE DEF f, s
  <2>2. <<s[i], s[j]>> \in R <=> i - 1 < j - 1
    BY <1>5, <2>1
  <2> QED
    BY <1>1, <2>2
<1> HIDE DEF s, f, n
<1> QED
  BY <1>9, <1>10, <1>11 DEF Sorts, s, n

\* The reverse of a sorted sequence is sorted the other way.
Upward(R, S) == {p \in S \X S : <<p[2], p[1]>> \in R}

LEMMA ReverseSorts ==
    ASSUME NEW S, NEW R, NEW s, Sorts(s, S, R)
    PROVE  Sorts(Reverse(s), S, Upward(R, S)) /\ Len(Reverse(s)) = Len(s)
<1> DEFINE n == Len(s)
           t == Reverse(s)
<1>1. s \in Seq(S) /\ n \in Nat /\ \A i \in 1 .. n : s[i] \in S
  BY DEF Sorts
<1>2. t = [i \in 1 .. n |-> s[(n - i) + 1]]
  BY DEF Reverse
<1>3. \A i \in 1 .. n : (n - i) + 1 \in 1 .. n /\ t[i] = s[(n - i) + 1]
  BY <1>1, <1>2
<1>4. t \in Seq(S) /\ Len(t) = n
  BY <1>1, <1>2, <1>3
<1>5. ASSUME NEW l \in S PROVE \E i \in 1 .. n : t[i] = l
  <2>1. PICK i \in 1 .. n : s[i] = l
    BY DEF Sorts
  <2>2. (n - i) + 1 \in 1 .. n /\ (n - ((n - i) + 1)) + 1 = i
    BY <1>1
  <2> QED
    BY <1>3, <2>1, <2>2
<1>6. ASSUME NEW i \in 1 .. n, NEW j \in 1 .. n PROVE <<t[i], t[j]>> \in Upward(R, S) <=> i < j
  <2>1. t[i] = s[(n - i) + 1] /\ t[j] = s[(n - j) + 1] /\ t[i] \in S /\ t[j] \in S
    BY <1>1, <1>3
  <2>2. <<s[(n - j) + 1], s[(n - i) + 1]>> \in R <=> (n - j) + 1 < (n - i) + 1
    BY <1>1, <1>3 DEF Sorts
  <2>3. <<t[i], t[j]>> \in Upward(R, S) <=> <<t[j], t[i]>> \in R
    BY <2>1 DEF Upward
  <2>4. i \in Nat /\ j \in Nat /\ ((n - j) + 1 < (n - i) + 1 <=> i < j)
    BY <1>1
  <2> QED
    BY <2>1, <2>2, <2>3, <2>4
<1> HIDE DEF t, n
<1> QED
  BY <1>4, <1>5, <1>6 DEF Sorts, t, n

\* The first n elements of a sequence.
LEMMA FirstOf ==
    ASSUME NEW S, NEW s \in Seq(S), NEW n \in Nat
    PROVE  /\ Take(s, n) \in Seq(S) /\ Len(Take(s, n)) = (IF Len(s) < n THEN Len(s) ELSE n)
           /\ \A i \in 1 .. Len(Take(s, n)) : Take(s, n)[i] = s[i]
BY DEF Take

\* More than k numbers that differ are not all at most k.
LEMMA OneBeyond ==
    ASSUME NEW k \in Nat, NEW K, IsFiniteSet(K), Cardinality(K) > k,
           NEW g \in [K -> Nat \ {0}], \A x, y \in K : g[x] = g[y] => x = y
    PROVE  \E x \in K : g[x] > k
<1> SUFFICES ASSUME \A x \in K : ~(g[x] > k) PROVE FALSE
  OBVIOUS
<1>1. g \in [K -> 1 .. k]
  OBVIOUS
<1>2. IsFiniteSet(1 .. k) /\ Cardinality(1 .. k) = k
  BY FS_Interval
<1>3. Cardinality(1 .. k) < Cardinality(K)
  BY <1>2, FS_CardinalityType
<1>4. \E x, y \in K : x # y /\ g[x] = g[y]
  BY <1>1, <1>2, <1>3, FS_PigeonHole
<1> QED
  BY <1>4

\* s lists the elements of S, none before one that W does not let it precede.
Arranges(s, S, W) ==
    /\ s \in Seq(S) /\ \A l \in S : \E i \in 1 .. Len(s) : s[i] = l
    /\ \A i, j \in 1 .. Len(s) : i < j => <<s[i], s[j]>> \in W

\* No element is in s twice.
Apart(s) == \A i, j \in 1 .. Len(s) : s[i] = s[j] => i = j

\* W is transitive on T; the first n of a are in M; l is among the first k of
\* t, or the last of them precedes it.
Transitive(W, T) == \A l, m, n \in T : <<l, m>> \in W /\ <<m, n>> \in W => <<l, n>> \in W
Opens(a, n, M)   == \A i \in 1 .. Len(a) : i <= n => a[i] \in M
Covers(t, k, l, W) == (\E i \in 1 .. Len(t) : i <= k /\ t[i] = l) \/ (Len(t) > k /\ <<t[k], l>> \in W)

\* A page of k rows is cut from rows t that hold the first k + 1 rows of a: a
\* row of a is on the page, or the last row of the page precedes it.
LEMMA CutKeeps ==
    ASSUME NEW T, NEW W, Transitive(W, T), NEW A \in SUBSET T, NEW a, Arranges(a, A, W), Apart(a),
           NEW M \in SUBSET T, NEW t, Arranges(t, M, W), NEW k \in Nat \ {0},
           Opens(a, k + 1, M), NEW l \in A
    PROVE  Covers(t, k, l, W)
<1> USE DEF Transitive, Opens, Covers
<1>1. a \in Seq(A) /\ t \in Seq(M) /\ Len(a) \in Nat /\ Len(t) \in Nat
  BY DEF Arranges
<1>2. PICK j \in 1 .. Len(a) : a[j] = l
  BY DEF Arranges
<1>3. CASE j <= k + 1
  <2>1. PICK p \in 1 .. Len(t) : t[p] = l
    BY <1>2, <1>3 DEF Arranges
  <2>2. CASE p <= k
    BY <2>1, <2>2
  <2>3. CASE p > k
    <3>1. k \in 1 .. Len(t) /\ k < p
      BY <1>1, <2>3
    <3>2. <<t[k], t[p]>> \in W
      BY <3>1 DEF Arranges
    <3>3. Len(t) > k
      BY <1>1, <2>3
    <3> QED
      BY <2>1, <3>2, <3>3
  <2> QED
    BY <1>1, <2>2, <2>3
<1>4. CASE j > k + 1
  <2> DEFINE K == 1 .. k + 1
             g == [i \in K |-> CHOOSE p \in 1 .. Len(t) : t[p] = a[i]]
  <2>1. ASSUME NEW i \in K PROVE /\ i \in 1 .. Len(a) /\ a[i] \in M /\ <<a[i], l>> \in W
                                 /\ g[i] \in 1 .. Len(t) /\ t[g[i]] = a[i]
    <3>1. i \in 1 .. Len(a) /\ i < j
      BY <1>1, <1>4
    <3>2. a[i] \in M
      BY <3>1
    <3>3. \E p \in 1 .. Len(t) : t[p] = a[i]
      BY <3>2 DEF Arranges
    <3>4. <<a[i], l>> \in W
      BY <1>2, <3>1 DEF Arranges
    <3> QED
      BY <3>1, <3>2, <3>3, <3>4
  <2>2. g \in [K -> Nat \ {0}]
    <3>1. g = [i \in K |-> g[i]]
      OBVIOUS
    <3>2. \A i \in K : g[i] \in 1 .. Len(t)
      BY <2>1
    <3> HIDE DEF g, K
    <3> QED
      BY <1>1, <3>1, <3>2
  <2>3. ASSUME NEW x \in K, NEW y \in K, g[x] = g[y] PROVE x = y
    <3>1. a[x] = a[y] /\ x \in 1 .. Len(a) /\ y \in 1 .. Len(a)
      BY <2>1, <2>3
    <3> QED
      BY <3>1 DEF Apart
  <2>4. IsFiniteSet(K) /\ Cardinality(K) = k + 1
    BY FS_Interval
  <2>5. PICK x \in K : g[x] > k
    <3> HIDE DEF g, K
    <3> QED
      BY <2>2, <2>3, <2>4, OneBeyond
  <2>6. k \in 1 .. Len(t) /\ Len(t) > k /\ g[x] \in 1 .. Len(t)
    <3>1. g[x] \in 1 .. Len(t)
      BY <2>1, <2>5
    <3> HIDE DEF g, K
    <3> QED
      BY <1>1, <2>5, <3>1
  <2>7. <<t[k], t[g[x]]>> \in W
    <3> HIDE DEF g, K
    <3>1. k \in 1 .. Len(t) /\ g[x] \in 1 .. Len(t) /\ k < g[x]
      BY <1>1, <2>5, <2>6
    <3> QED
      BY <3>1 DEF Arranges
  <2>8. t[g[x]] = a[x] /\ a[x] \in M /\ <<a[x], l>> \in W
    BY <2>1, <2>5
  <2>9. t[k] \in M
    BY <1>1, <2>6
  <2> HIDE DEF g, K
  <2> QED
    BY <2>6, <2>7, <2>8, <2>9
<1> QED
  BY <1>1, <1>3, <1>4

\* Elements that are before all others are the first ones.
LEMMA FirstAre ==
    ASSUME NEW S, NEW R, Orders(R, S), NEW s, Sorts(s, S, R), NEW C \in SUBSET S, IsFiniteSet(C),
           \A c \in C, x \in S \ C : <<c, x>> \in R
    PROVE  {Take(s, Cardinality(C))[i] : i \in 1 .. Len(Take(s, Cardinality(C)))} = C
<1> DEFINE n == Cardinality(C)
           g == [c \in C |-> CHOOSE p \in 1 .. Len(s) : s[p] = c]
<1>1. n \in Nat /\ s \in Seq(S) /\ Len(s) \in Nat
  BY FS_CardinalityType DEF Sorts
<1>2. ASSUME NEW c \in C PROVE g[c] \in 1 .. Len(s) /\ s[g[c]] = c
  BY DEF Sorts
<1>3. ASSUME NEW i \in 1 .. Len(s), s[i] \in C, NEW j \in 1 .. i PROVE s[j] \in C
  <2>1. i \in Nat /\ j \in 1 .. Len(s) /\ j \in Nat /\ s[j] \in S
    BY <1>1
  <2>2. <<s[i], s[j]>> \in R <=> i < j
    BY <2>1 DEF Sorts
  <2> QED
    BY <1>3, <2>1, <2>2
<1>4. ASSUME NEW i \in 1 .. Len(s), s[i] \in C PROVE i <= n
  <2> DEFINE h == [j \in 1 .. i |-> s[j]]
  <2>1. h \in [1 .. i -> C]
    BY <1>3, <1>4
  <2>2. ASSUME NEW x \in 1 .. i, NEW y \in 1 .. i, h[x] = h[y] PROVE x = y
    <3>1. x \in 1 .. Len(s) /\ y \in 1 .. Len(s) /\ s[x] = s[y] /\ s[x] \in S
      BY <1>1, <2>2
    <3>2. <<s[x], s[x]>> \notin R
      BY <3>1 DEF Orders
    <3>3. /\ <<s[x], s[y]>> \in R <=> x < y
          /\ <<s[y], s[x]>> \in R <=> y < x
      BY <3>1 DEF Sorts
    <3> QED
      BY <3>1, <3>2, <3>3
  <2>3. h \in Injection(1 .. i, C)
    <3> HIDE DEF h
    <3> QED
      BY <2>1, <2>2 DEF Injection, IsInjective
  <2>4. Cardinality(1 .. i) <= n
    BY <2>3, FS_Injection
  <2>5. Cardinality(1 .. i) = i
    BY <1>1, FS_Interval
  <2> QED
    BY <2>4, <2>5
<1>5. ASSUME NEW i \in 1 .. n PROVE i \in 1 .. Len(s) /\ s[i] \in C
  <2> SUFFICES ASSUME ~(i \in 1 .. Len(s) /\ s[i] \in C) PROVE FALSE
    OBVIOUS
  <2>1. i - 1 \in Nat /\ n > i - 1
    BY <1>1
  <2>2. g \in [C -> Nat \ {0}]
    BY <1>1, <1>2
  <2>3. \A x, y \in C : g[x] = g[y] => x = y
    BY <1>2
  <2>4. PICK c \in C : g[c] > i - 1
    <3> HIDE DEF g
    <3> QED
      BY <2>1, <2>2, <2>3, OneBeyond
  <2>5. i \in 1 .. Len(s) /\ i \in 1 .. g[c]
    BY <1>1, <1>2, <2>4
  <2> QED
    BY <1>2, <1>3, <2>5
<1>6. /\ Len(Take(s, n)) = (IF Len(s) < n THEN Len(s) ELSE n)
      /\ \A i \in 1 .. Len(Take(s, n)) : Take(s, n)[i] = s[i]
  BY <1>1, FirstOf
<1>7. ASSUME NEW i \in 1 .. Len(Take(s, n)) PROVE Take(s, n)[i] \in C
  <2>1. i \in 1 .. n
    BY <1>1, <1>6
  <2> QED
    BY <1>5, <1>6, <2>1
<1>8. ASSUME NEW c \in C PROVE \E i \in 1 .. Len(Take(s, n)) : Take(s, n)[i] = c
  <2>1. g[c] \in 1 .. Len(s) /\ s[g[c]] = c /\ g[c] <= n
    BY <1>2, <1>4
  <2>2. g[c] \in 1 .. Len(Take(s, n))
    BY <1>1, <1>6, <2>1
  <2> QED
    BY <1>6, <2>1, <2>2
<1> HIDE DEF n, g
<1> QED
  BY <1>7, <1>8 DEF n

-----------------------------------------------------------------------------
(* The client of the node.                                                 *)

ReadResults == {"abi", "u256", "owner", "unpack", "string", "bigint"}
ReaderRows  == {r \in (SUBSET {"address", "uint256", "bytes4"}) \X {"zero", "again", "error"} \X ReadResults : TRUE}

(* A table that joins others has their rows.                               *)
LEMMA JoinedRows ==
    ASSUME NEW T
    PROVE  /\ DOMAIN Joined(T) = UNION {DOMAIN t : t \in T}
           /\ \A m \in DOMAIN Joined(T) : \E t \in T : m \in DOMAIN t /\ Joined(T)[m] = t[m]
<1>1. DOMAIN Joined(T) = UNION {DOMAIN t : t \in T}
  BY DEF Joined
<1>2. ASSUME NEW m \in DOMAIN Joined(T)
      PROVE  \E t \in T : m \in DOMAIN t /\ Joined(T)[m] = t[m]
  <2> DEFINE c == CHOOSE t \in T : m \in DOMAIN t
  <2>1. Joined(T)[m] = c[m]
    BY <1>1, <1>2 DEF Joined
  <2>2. c \in T /\ m \in DOMAIN c
    BY <1>1, <1>2
  <2> QED
    BY <2>1, <2>2
<1> QED
  BY <1>1, <1>2

(* Each reader makes of an error a zero, another try or an error, and has  *)
(* a conversion for its result.                                            *)
LEMMA ReaderTable ==
    ASSUME NEW m \in DOMAIN Readers
    PROVE  Readers[m][2] \in {"zero", "again", "error"} /\ Readers[m][3] \in ReadResults
<1>1. \A x \in DOMAIN Erc20Calls : Erc20Calls[x] \in ReaderRows
  BY DEF Erc20Calls, ReaderRows, ReadResults
<1>2. \A x \in DOMAIN Erc721Calls : Erc721Calls[x] \in ReaderRows
  BY DEF Erc721Calls, ReaderRows, ReadResults
<1>3. \A x \in DOMAIN Erc1155Calls : Erc1155Calls[x] \in ReaderRows
  BY DEF Erc1155Calls, ReaderRows, ReadResults
<1>4. \A x \in DOMAIN ProxyCall : ProxyCall[x] \in ReaderRows
  BY DEF ProxyCall, ReaderRows, ReadResults
<1>5. \A x \in DOMAIN DepositCall : DepositCall[x] \in ReaderRows
  BY DEF DepositCall, ReaderRows, ReadResults
<1>6. Readers[m] \in ReaderRows
  <2> DEFINE T == {Erc20Calls, Erc721Calls, Erc1155Calls, ProxyCall, DepositCall}
  <2>1. Readers = Joined(T)
    BY DEF Readers
  <2>2. \A t \in T : \A x \in DOMAIN t : t[x] \in ReaderRows
    BY <1>1, <1>2, <1>3, <1>4, <1>5
  <2> HIDE DEF T
  <2>3. PICK t \in T : m \in DOMAIN t /\ Readers[m] = t[m]
    BY <2>1, JoinedRows
  <2> QED
    BY <2>2, <2>3
<1> QED
  BY <1>6 DEF ReaderRows

(* No reader has the name of a method of the node.                         *)
LEMMA ReadersApart == DOMAIN Readers \cap DOMAIN RpcCalls = {}
<1> DEFINE R == {Erc20Calls, Erc721Calls, Erc1155Calls, ProxyCall, DepositCall}
           N == {NodeCalls, StateCalls, TransactionCalls, SigningCalls, BlockCalls, UncleCalls,
                 NetCalls, PersonalCalls, ClientVersion}
<1>1. Readers = Joined(R) /\ RpcCalls = Joined(N)
  BY DEF Readers, RpcCalls
<1>2. ASSUME NEW r \in R, NEW n \in N PROVE DOMAIN r \cap DOMAIN n = {}
  BY <1>2 DEF Erc20Calls, Erc721Calls, Erc1155Calls, ProxyCall, DepositCall, NodeCalls, StateCalls,
       TransactionCalls, SigningCalls, BlockCalls, UncleCalls, NetCalls, PersonalCalls, ClientVersion
<1> HIDE DEF R, N
<1>3. /\ DOMAIN Readers = UNION {DOMAIN t : t \in R}
      /\ DOMAIN RpcCalls = UNION {DOMAIN t : t \in N}
  BY <1>1, JoinedRows
<1> QED
  BY <1>2, <1>3

LEMMA AgainIsReader == "erc721_baseTokenURI" \in DOMAIN Readers
BY DEF Readers, Joined, Erc721Calls


(* A reply without a result makes no value, only a reader makes zeros, and *)
(* a reply that keeps to the protocol makes no panic.                      *)
HasResult(reply) == reply[1] \notin {"fails", "void", "error", "null"}

LEMMA ConvertIs ==
    ASSUME NEW conversion, NEW reply
    PROVE  Convert(conversion, reply) \in {"ok", "error", "panic"}
BY DEF Convert, ToText, ToBigInt, ToBoolean, ToStringArray, ToSyncingResponse, ToDocument

LEMMA ReadOutcome ==
    ASSUME NEW m \in DOMAIN Readers, NEW reply, reply[1] # "fails"
    PROVE  /\ Read(m, reply) = "ok" => HasResult(reply)
           /\ Conforms(m, reply) => Read(m, reply) # "panic"
<1> DEFINE r == Readers[m]
<1>1. r[2] \in {"zero", "again", "error"} /\ r[3] \in ReadResults
  BY ReaderTable
<1>2. m \notin DOMAIN RpcCalls
  BY ReadersApart
<1>3. Read(m, reply) = "ok" => HasResult(reply)
  BY <1>1 DEF Read, HasResult
<1>4. ASSUME Conforms(m, reply) PROVE Read(m, reply) # "panic"
  <2>1. reply[1] = "error" \/ reply[1] \in {"0x", "word"} \cup (IF r[3] \in {"abi", "unpack"} THEN {"data"} ELSE {})
    BY <1>2, <1>4 DEF Conforms
  <2>2. CASE reply[1] = "error"
    BY <1>1, <2>2 DEF Read
  <2>3. CASE reply[1] # "error"
    <3>1. reply[1] \in {"0x", "word", "data"} /\ (reply[1] = "data" => r[3] \in {"abi", "unpack"})
      BY <2>1, <2>3
    <3>2. Read(m, reply) = ReadResult(r[3], reply)
      BY <3>1 DEF Read
    <3>3. CASE r[3] \in {"u256", "abi", "owner", "unpack"}
      BY <3>1, <3>2, <3>3 DEF ReadResult, U256, AbiStringDecoder, OwnerOf, Unpack, Texts
    <3>4. CASE r[3] \in {"string", "bigint"}
      BY <3>1, <3>2, <3>4 DEF ReadResult, Convert, ToText, ToBigInt, Texts
    <3> QED
      BY <1>1, <3>3, <3>4 DEF ReadResults
  <2> QED
    BY <2>2, <2>3
<1> QED
  BY <1>3, <1>4

LEMMA CheckedOutcome ==
    ASSUME NEW m \in DOMAIN RpcCalls, m \notin DOMAIN Readers, NEW reply, reply[1] \notin {"fails", "void"}
    PROVE  LET out == Checked(RpcCalls[m][1], reply)
           IN  /\ out \in {"ok", "error", "panic"}
               /\ out = "ok" => HasResult(reply)
               /\ Conforms(m, reply) => out # "panic"
<1> DEFINE conversion == RpcCalls[m][1]
           out == Checked(conversion, reply)
<1>1. out \in {"ok", "error", "panic"}
  BY ConvertIs DEF Checked
<1>2. out = "ok" => HasResult(reply)
  BY DEF Checked, HasResult
<1>3. ASSUME Conforms(m, reply), reply[1] \notin {"error", "null"} PROVE Convert(conversion, reply) # "panic"
  <2>1. CASE conversion = "string"
    BY <1>3, <2>1 DEF Conforms, Convert, ToText
  <2>2. CASE conversion = "bigint"
    BY <1>3, <2>2 DEF Conforms, Convert, ToBigInt
  <2>3. CASE conversion = "boolean"
    BY <1>3, <2>3 DEF Conforms, Convert, ToBoolean
  <2>4. CASE conversion = "strings"
    BY <1>3, <2>4 DEF Conforms, Convert, ToStringArray
  <2>5. CASE conversion = "syncing"
    BY <1>3, <2>5 DEF Conforms, Convert, ToSyncingResponse
  <2>6. CASE conversion \notin {"string", "bigint", "boolean", "strings", "syncing"}
    <3>1. reply[1] = "whole"
      BY <1>3, <2>6 DEF Conforms
    <3> QED
      BY <2>6, <3>1 DEF Convert, ToDocument, IsDocument
  <2> QED
    BY <2>1, <2>2, <2>3, <2>4, <2>5, <2>6
<1> QED
  BY <1>1, <1>2, <1>3 DEF Checked

LEMMA OutcomeSound ==
    ASSUME NEW m \in Calls, NEW reply
    PROVE  /\ Outcome(m, reply) = "ok" => HasResult(reply)
           /\ Outcome(m, reply) \in {"zero", "again"} => m \in DOMAIN Readers
           /\ Conforms(m, reply) => Outcome(m, reply) # "panic"
<1>1. CASE reply[1] = "fails"
  BY <1>1 DEF Outcome
<1>2. CASE reply[1] # "fails" /\ m \in DOMAIN Readers
  <2>1. Outcome(m, reply) = Read(m, reply)
    BY <1>2 DEF Outcome
  <2> QED
    BY <1>2, <2>1, ReadOutcome
<1>3. CASE reply[1] = "void" /\ m \notin DOMAIN Readers
  <2>1. m \in DOMAIN RpcCalls /\ ~ Conforms(m, reply)
    BY <1>3 DEF Calls, Conforms, Texts
  <2>2. Outcome(m, reply) \in {"panic", "error"}
    BY <1>3 DEF Outcome, CallOutcome
  <2> QED
    BY <2>1, <2>2
<1>4. CASE reply[1] \notin {"fails", "void"} /\ m \notin DOMAIN Readers
  <2>1. m \in DOMAIN RpcCalls
    BY <1>4 DEF Calls
  <2>2. Outcome(m, reply) = Checked(RpcCalls[m][1], reply)
    BY <1>4 DEF Outcome, CallOutcome
  <2> QED
    BY <1>4, <2>1, <2>2, CheckedOutcome
<1> QED
  BY <1>1, <1>2, <1>3, <1>4


(* A reply waits only on the connection of the goroutine that asked, and a *)
(* goroutine that waits has asked for a method there is.                   *)
CallerStates == [at : {"idle", "sent", "done"}, method : Calls \cup {""},
                 outcome : {"", "ok", "error", "panic", "zero"}, mine : BOOLEAN,
                 conforms : BOOLEAN, reader : BOOLEAN, result : BOOLEAN]

Web3Inv ==
    /\ caller \in [Callers -> CallerStates]
    /\ \A c \in Callers : caller[c].at = "sent" => caller[c].method \in Calls
    /\ inbox \in [Callers -> SUBSET Callers] /\ \A c \in Callers : inbox[c] \subseteq {c}
    /\ CallsSound

LEMMA OutcomeTyped ==
    ASSUME NEW m \in Calls, NEW reply
    PROVE  Outcome(m, reply) \in {"ok", "error", "panic", "zero", "again"}
<1>1. CASE m \in DOMAIN Readers
  <2>1. Readers[m][2] \in {"zero", "again", "error"}
    BY <1>1, ReaderTable
  <2>2. ReadResult(Readers[m][3], reply) \in {"ok", "error", "panic"}
    BY ConvertIs DEF ReadResult, U256, AbiStringDecoder, OwnerOf, Unpack
  <2> QED
    BY <1>1, <2>1, <2>2 DEF Outcome, Read
<1>2. CASE m \notin DOMAIN Readers
  BY <1>2, ConvertIs DEF Outcome, CallOutcome, Checked
<1> QED
  BY <1>1, <1>2

LEMMA IdleState == CallerIdle \in CallerStates /\ CallerIdle.at = "idle"
BY DEF CallerIdle, CallerStates

LEMMA DoneState ==
    ASSUME NEW o \in {"ok", "error", "panic", "zero"}, NEW a \in BOOLEAN, NEW b \in BOOLEAN,
           NEW r \in BOOLEAN, NEW v \in BOOLEAN
    PROVE  [CallerIdle EXCEPT !.at = "done", !.mine = a, !.outcome = o, !.conforms = b,
                              !.reader = r, !.result = v] \in CallerStates
BY DEF CallerIdle, CallerStates

LEMMA SendStep ==
    ASSUME Web3Inv, NEW c \in Callers, NEW m \in NodeMethods, NEW shape, NEW bits, Send(c, m, shape, bits)
    PROVE  Web3Inv'
<1>1. m \in Calls
  BY Web3Assumption
<1>2. PICK r \in CallerStates :
              /\ caller' = [caller EXCEPT ![c] = r]
              /\ r.at = "sent" => r.method \in Calls
              /\ r.at = "done" => r.mine /\ r.outcome = "error"
  <2> DEFINE s == [CallerIdle EXCEPT !.at = "sent", !.method = m]
             d == [CallerIdle EXCEPT !.at = "done", !.outcome = "error"]
  <2>1. s \in CallerStates /\ s.at = "sent" /\ s.method = m
    BY <1>1 DEF CallerIdle, CallerStates
  <2>2. d \in CallerStates /\ d.at = "done" /\ d.mine /\ d.outcome = "error"
    BY DEF CallerIdle, CallerStates
  <2>3. caller' = [caller EXCEPT ![c] = s] \/ caller' = [caller EXCEPT ![c] = d]
    BY DEF Send
  <2> HIDE DEF s, d
  <2> QED
    BY <1>1, <2>1, <2>2, <2>3
<1>3. /\ caller' \in [Callers -> CallerStates] /\ caller'[c] = r
      /\ \A x \in Callers \ {c} : caller'[x] = caller[x]
  BY <1>2 DEF Web3Inv
<1>4. UNCHANGED inbox
  BY DEF Send
<1> QED
  BY <1>2, <1>3, <1>4 DEF Web3Inv, CallsSound

LEMMA ReceiveStep ==
    ASSUME Web3Inv, NEW c \in Callers, NEW d \in Callers, NEW reply, Receive(c, d, reply)
    PROVE  Web3Inv'
<1> DEFINE m   == caller[c].method
           out == Outcome(m, reply)
<1>1. m \in Calls /\ d = c
  BY DEF Web3Inv, Receive, Connection
<1>2. inbox' \in [Callers -> SUBSET Callers] /\ \A x \in Callers : inbox'[x] \subseteq {x}
  BY DEF Web3Inv, Receive, Connection
<1>3. PICK r \in CallerStates :
              /\ caller' = [caller EXCEPT ![c] = r]
              /\ r.at = "sent" => r.method \in Calls
              /\ r.at = "done" => /\ r.mine
                                  /\ r.outcome = "ok" => r.result
                                  /\ r.outcome = "zero" => r.reader
                                  /\ r.conforms => r.outcome # "panic"
  <2>1. CASE out = "again"
    <3> DEFINE s == [caller[c] EXCEPT !.method = "erc721_baseTokenURI"]
    <3>1. caller' = [caller EXCEPT ![c] = s]
      BY <2>1 DEF Receive
    <3>2. "erc721_baseTokenURI" \in Calls
      BY AgainIsReader DEF Calls
    <3>3. caller[c] \in CallerStates /\ caller[c].at = "sent"
      BY DEF Web3Inv, Receive
    <3>4. s \in CallerStates /\ s.at = "sent" /\ s.method \in Calls
      BY <3>2, <3>3 DEF CallerStates
    <3> HIDE DEF s
    <3> QED
      BY <3>1, <3>4
  <2>2. CASE out # "again"
    <3> DEFINE a == c = d
               b == Conforms(m, reply)
               t == m \in DOMAIN Readers
               v == reply[1] \notin {"fails", "void", "error", "null"}
               s == [CallerIdle EXCEPT !.at = "done", !.mine = a, !.outcome = out, !.conforms = b,
                                       !.reader = t, !.result = v]
    <3>1. caller' = [caller EXCEPT ![c] = s]
      BY <2>2 DEF Receive
    <3>2. out \in {"ok", "error", "panic", "zero"}
      BY <1>1, <2>2, OutcomeTyped
    <3>3. /\ out = "ok" => HasResult(reply)
          /\ out = "zero" => m \in DOMAIN Readers
          /\ Conforms(m, reply) => out # "panic"
      BY <1>1, OutcomeSound
    <3>4. a = TRUE /\ (v = HasResult(reply)) /\ a \in BOOLEAN /\ b \in BOOLEAN /\ t \in BOOLEAN /\ v \in BOOLEAN
      BY <1>1 DEF HasResult, Conforms
    <3>5. /\ out = "ok" => v
          /\ out = "zero" => t
          /\ b => out # "panic"
      BY <3>3, <3>4
    <3> HIDE DEF out, m, a, b, t, v
    <3>6. s \in CallerStates
      BY <3>2, <3>4, DoneState, ZenonT(60)
    <3>7. /\ s.at = "done" /\ s.mine = a /\ s.outcome = out /\ s.conforms = b
          /\ s.reader = t /\ s.result = v
      BY DEF CallerIdle
    <3> HIDE DEF s
    <3> QED
      BY <3>1, <3>4, <3>5, <3>6, <3>7
  <2> QED
    BY <2>1, <2>2
<1>4. /\ caller' \in [Callers -> CallerStates] /\ caller'[c] = r
      /\ \A x \in Callers \ {c} : caller'[x] = caller[x]
  BY <1>3 DEF Web3Inv
<1> QED
  BY <1>2, <1>3, <1>4 DEF Web3Inv, CallsSound

(* For any number of goroutines on one provider, whatever the node sends:  *)
(* a call ends with the answer to its own request, a missing result never  *)
(* becomes a value, and a node that keeps to the protocol panics nobody.   *)
THEOREM CallsAreSound == Web3Spec => []CallsSound
<1>1. Web3Init => Web3Inv
  BY IdleState DEF Web3Init, Web3Inv, CallsSound
<1>2. Web3Inv /\ [Web3Next]_web3Vars => Web3Inv'
  <2> SUFFICES ASSUME Web3Inv, [Web3Next]_web3Vars PROVE Web3Inv'
    OBVIOUS
  <2>1. ASSUME NEW c \in Callers, Answer(c) PROVE Web3Inv'
    <3>1. /\ inbox' \in [Callers -> SUBSET Callers] /\ \A x \in Callers : inbox'[x] \subseteq {x}
          /\ UNCHANGED caller
      BY <2>1 DEF Web3Inv, Answer, Connection
    <3> QED
      BY <3>1 DEF Web3Inv, CallsSound
  <2>2. CASE UNCHANGED web3Vars
    BY <2>2 DEF Web3Inv, CallsSound, web3Vars
  <2> QED
    BY <2>1, <2>2, SendStep, ReceiveStep DEF Web3Next
<1> QED
  BY <1>1, <1>2, PTL DEF Web3Spec, Web3Inv

-----------------------------------------------------------------------------
(* The audit endpoints: the order of their rows.                           *)

\* l is before m among the newest, tied logs in the order tie; and backwards.
Over(tie)        == {p \in AuditLogs \X AuditLogs :
                       Above(p[1], p[2]) \/ (Tied(p[1], p[2]) /\ tie[p[1]] < tie[p[2]])}
Along(tie, asc)  == IF asc THEN Upward(Over(tie), AuditLogs) ELSE Over(tie)
Asked(S, tie, asc) == IF asc THEN Reverse(Newest(S, tie)) ELSE Newest(S, tie)

\* m is not to be shown before l.
NotAfter(asc)    == {p \in AuditLogs \X AuditLogs : ~Ahead(p[2], p[1], asc)}

LEMMA LogNumbers ==
    ASSUME NEW l \in AuditLogs
    PROVE  /\ l.block \in Nat /\ l.tx \in Nat /\ l.index \in Nat /\ l.id \in Nat /\ l.count \in Nat
           /\ l.block \in AuditBlocks /\ l.hash # NoHash
BY AuditAssumption

LEMMA NotAfterIs ==
    ASSUME NEW asc \in BOOLEAN
    PROVE  /\ \A l, m, n \in AuditLogs :
                <<l, m>> \in NotAfter(asc) /\ <<m, n>> \in NotAfter(asc) => <<l, n>> \in NotAfter(asc)
           /\ \A l, m \in AuditLogs : ~Ahead(m, l, asc) => Ahead(l, m, asc) \/ Tied(l, m)
           /\ \A l, m \in AuditLogs : Ahead(l, m, asc) => ~Ahead(m, l, asc)
           /\ \A l, m, n \in AuditLogs : ~Ahead(m, l, asc) /\ ~Ahead(n, m, asc) => ~Ahead(n, l, asc)
<1>1. ASSUME NEW l \in AuditLogs, NEW m \in AuditLogs, NEW n \in AuditLogs,
             ~Ahead(m, l, asc), ~Ahead(n, m, asc)
      PROVE  ~Ahead(n, l, asc)
  BY <1>1, LogNumbers DEF Ahead, Above
<1>2. \A l, m \in AuditLogs : ~Ahead(m, l, asc) => Ahead(l, m, asc) \/ Tied(l, m)
  BY LogNumbers DEF Ahead, Above, Tied
<1>3. \A l, m \in AuditLogs : Ahead(l, m, asc) => ~Ahead(m, l, asc)
  BY LogNumbers DEF Ahead, Above
<1>4. \A l, m, n \in AuditLogs :
        <<l, m>> \in NotAfter(asc) /\ <<m, n>> \in NotAfter(asc) => <<l, n>> \in NotAfter(asc)
  BY <1>1 DEF NotAfter
<1> QED
  BY <1>1, <1>2, <1>3, <1>4

LEMMA OverOrders ==
    ASSUME NEW tie \in TieOrders, NEW asc
    PROVE  Orders(Along(tie, asc), AuditLogs)
<1> DEFINE O == Over(tie)
<1>0. \A l, m \in AuditLogs : tie[l] \in Nat /\ (tie[l] = tie[m] => l = m)
  BY AuditAssumption
<1>1. \A l \in AuditLogs : <<l, l>> \notin O
  BY <1>0, LogNumbers DEF Over, Above, Tied
<1>2. ASSUME NEW l \in AuditLogs, NEW m \in AuditLogs, l # m PROVE <<l, m>> \in O \/ <<m, l>> \in O
  <2>1. tie[l] # tie[m]
    BY <1>0, <1>2
  <2> QED
    BY <1>0, <2>1, LogNumbers DEF Over, Above, Tied
<1>3. ASSUME NEW l \in AuditLogs, NEW m \in AuditLogs, NEW n \in AuditLogs,
             <<l, m>> \in O, <<m, n>> \in O
      PROVE  <<l, n>> \in O
  <2>1. Above(l, m) \/ (Tied(l, m) /\ tie[l] < tie[m])
    BY <1>3 DEF Over
  <2>2. Above(m, n) \/ (Tied(m, n) /\ tie[m] < tie[n])
    BY <1>3 DEF Over
  <2>3. Above(l, n) \/ (Tied(l, n) /\ tie[l] < tie[n])
    BY <1>0, <2>1, <2>2, LogNumbers DEF Above, Tied
  <2> QED
    BY <2>3 DEF Over
<1> HIDE DEF O
<1>4. Orders(O, AuditLogs)
  BY <1>1, <1>2, <1>3, Zenon DEF Orders
<1>5. Orders(Upward(O, AuditLogs), AuditLogs)
  <2> DEFINE U == Upward(O, AuditLogs)
  <2>1. \A l, m \in AuditLogs : <<l, m>> \in U <=> <<m, l>> \in O
    BY DEF Upward
  <2> HIDE DEF U
  <2>2. \A l \in AuditLogs : <<l, l>> \notin U
    BY <1>1, <2>1
  <2>3. \A l, m \in AuditLogs : l # m => <<l, m>> \in U \/ <<m, l>> \in U
    BY <1>2, <2>1
  <2>4. ASSUME NEW l \in AuditLogs, NEW m \in AuditLogs, NEW n \in AuditLogs, <<l, m>> \in U, <<m, n>> \in U
        PROVE  <<l, n>> \in U
    <3>1. <<m, l>> \in O /\ <<n, m>> \in O
      BY <2>1, <2>4
    <3> QED
      BY <1>3, <2>1, <3>1
  <2> QED
    BY <2>2, <2>3, <2>4, Zenon DEF Orders, U
<1> QED
  BY <1>4, <1>5 DEF Along, O

LEMMA NewestSorts ==
    ASSUME NEW S \in SUBSET AuditLogs, NEW tie \in TieOrders, NEW asc \in BOOLEAN
    PROVE  /\ IsFiniteSet(S) /\ Sorts(Asked(S, tie, asc), S, Along(tie, asc))
           /\ Len(Asked(S, tie, asc)) = Cardinality(S)
<1> DEFINE O == Over(tie)
           N == Newest(S, tie)
<1>1. IsFiniteSet(S)
  BY AuditAssumption, FS_Subset
<1>2. Orders(O, AuditLogs)
  <2>1. Along(tie, FALSE) = O
    BY DEF Along
  <2> HIDE DEF O
  <2> QED
    BY <2>1, OverOrders
<1>3. Orders(O, S)
  <2> HIDE DEF O
  <2> QED
    BY <1>2 DEF Orders
<1>4. N = Ranked(S, O)
  <2> DEFINE B(l)  == {m \in S : Above(m, l) \/ (Tied(m, l) /\ tie[m] < tie[l])}
             B2(l) == {m \in S : <<m, l>> \in O}
             e(i)  == CHOOSE l \in S : Cardinality(B(l)) = i - 1
             e2(i) == CHOOSE l \in S : Cardinality(B2(l)) = i - 1
  <2>1. ASSUME NEW l \in S PROVE B(l) = B2(l)
    BY DEF Over
  <2>2. N = [i \in 1 .. Cardinality(S) |-> e(i)] /\ Ranked(S, O) = [i \in 1 .. Cardinality(S) |-> e2(i)]
    BY DEF Newest, Ranked
  <2>3. ASSUME NEW i PROVE e(i) = e2(i)
    <3> HIDE DEF B, B2
    <3> QED
      BY <2>1, Zenon
  <2> HIDE DEF e, e2, N, O
  <2> QED
    BY <2>2, <2>3
<1> HIDE DEF N, O
<1>5. Sorts(N, S, O) /\ Len(N) = Cardinality(S)
  BY <1>1, <1>3, <1>4, RankedSorts
<1>6. CASE asc
  <2>1. Sorts(Reverse(N), S, Upward(O, S)) /\ Len(Reverse(N)) = Cardinality(S)
    BY <1>5, ReverseSorts
  <2>2. \A l, m \in S : <<l, m>> \in Upward(O, S) <=> <<l, m>> \in Upward(O, AuditLogs)
    BY DEF Upward
  <2>3. Sorts(Reverse(N), S, Upward(O, AuditLogs))
    <3>1. \A i \in 1 .. Len(Reverse(N)) : Reverse(N)[i] \in S
      BY <2>1 DEF Sorts
    <3> QED
      BY <2>1, <2>2, <3>1 DEF Sorts
  <2> QED
    BY <1>1, <1>6, <2>1, <2>3 DEF Asked, Along, N, O
<1>7. CASE ~asc
  BY <1>1, <1>5, <1>7 DEF Asked, Along, N, O
<1> QED
  BY <1>6, <1>7

\* What a query of the logs returns: the first of its rows, none after one it
\* is to be shown before.
LEMMA QuerySound ==
    ASSUME NEW S \in SUBSET AuditLogs, NEW asc \in BOOLEAN, NEW n \in Nat,
           NEW q \in API_GetLogsForAgentKeys(S, asc, n)
    PROVE  /\ q \in Seq(AuditLogs) /\ q \in Seq(S)
           /\ \E a : Arranges(a, S, NotAfter(asc)) /\ Apart(a) /\ q = Take(a, n)
<1>1. PICK tie \in TieOrders : q = Take(Asked(S, tie, asc), n)
  BY DEF API_GetLogsForAgentKeys, Asked
<1> DEFINE a == Asked(S, tie, asc)
           R == Along(tie, asc)
<1>2. Sorts(a, S, R) /\ Orders(R, AuditLogs)
  BY NewestSorts, OverOrders
<1>3. ASSUME NEW l \in AuditLogs, NEW m \in AuditLogs, <<l, m>> \in R PROVE ~Ahead(m, l, asc)
  <2>1. CASE asc
    <3>1. <<m, l>> \in Over(tie)
      BY <1>3, <2>1 DEF Along, Upward
    <3>2. Above(m, l) \/ Tied(m, l)
      BY <3>1 DEF Over
    <3> QED
      BY <2>1, <3>2, LogNumbers DEF Ahead, Above, Tied
  <2>2. CASE ~asc
    <3>1. <<l, m>> \in Over(tie)
      BY <1>3, <2>2 DEF Along
    <3>2. Above(l, m) \/ Tied(l, m)
      BY <3>1 DEF Over
    <3> QED
      BY <2>2, <3>2, LogNumbers DEF Ahead, Above, Tied
  <2> QED
    BY <2>1, <2>2
<1> HIDE DEF a, R
<1>4. a \in Seq(S) /\ Len(a) \in Nat /\ \A i \in 1 .. Len(a) : a[i] \in AuditLogs
  BY <1>2 DEF Sorts
<1>5. Arranges(a, S, NotAfter(asc))
  <2>1. ASSUME NEW i \in 1 .. Len(a), NEW j \in 1 .. Len(a), i < j PROVE <<a[i], a[j]>> \in NotAfter(asc)
    <3>1. <<a[i], a[j]>> \in R
      BY <1>2, <2>1 DEF Sorts
    <3> QED
      BY <1>3, <1>4, <3>1 DEF NotAfter
  <2> QED
    BY <1>2, <2>1 DEF Sorts, Arranges
<1>6. Apart(a)
  <2> SUFFICES ASSUME NEW i \in 1 .. Len(a), NEW j \in 1 .. Len(a), a[i] = a[j] PROVE i = j
    BY DEF Apart
  <2>1. <<a[i], a[i]>> \notin R
    BY <1>2, <1>4 DEF Orders
  <2>2. (<<a[i], a[j]>> \in R <=> i < j) /\ (<<a[j], a[i]>> \in R <=> j < i)
    BY <1>2 DEF Sorts
  <2> QED
    BY <1>4, <2>1, <2>2
<1>7. q \in Seq(S)
  BY <1>1, <1>4, FirstOf DEF a
<1>8. q \in Seq(AuditLogs)
  BY <1>7
<1> QED
  BY <1>1, <1>5, <1>6, <1>7, <1>8 DEF a

\* A stable sort keeps the rows and puts none before one that is ahead of it.
LEMMA StableSorts ==
    ASSUME NEW s \in Seq(AuditLogs), NEW asc \in BOOLEAN
    PROVE  LET t == SliceStable(s, asc)
           IN  /\ t \in Seq(AuditLogs) /\ Len(t) = Len(s)
               /\ Arranges(t, {s[i] : i \in 1 .. Len(s)}, NotAfter(asc))
               /\ Apart(s) => Apart(t)
<1> DEFINE n           == Len(s)
           P           == 1 .. n
           first(i, j) == Ahead(s[i], s[j], asc) \/ (~Ahead(s[j], s[i], asc) /\ i < j)
           R           == {p \in P \X P : first(p[1], p[2])}
           g           == Ranked(P, R)
           t           == SliceStable(s, asc)
<1>1. n \in Nat /\ \A i \in P : s[i] \in AuditLogs
  OBVIOUS
<1>2. Orders(R, P)
  <2>1. \A i \in P : <<i, i>> \notin R
    BY <1>1, NotAfterIs
  <2>2. ASSUME NEW i \in P, NEW j \in P, i # j PROVE <<i, j>> \in R \/ <<j, i>> \in R
    BY <1>1, <2>2, NotAfterIs
  <2>3. ASSUME NEW i \in P, NEW j \in P, NEW k \in P, <<i, j>> \in R, <<j, k>> \in R PROVE <<i, k>> \in R
    <3>1. first(i, j) /\ first(j, k) /\ i \in Nat /\ j \in Nat /\ k \in Nat
      BY <2>3
    <3>2. s[i] \in AuditLogs /\ s[j] \in AuditLogs /\ s[k] \in AuditLogs
      BY <1>1
    <3> DEFINE A(x, y) == Ahead(s[x], s[y], asc)
    <3>4. /\ \A x, y, z \in {i, j, k} : ~A(y, x) /\ ~A(z, y) => ~A(z, x)
          /\ \A x, y \in {i, j, k} : A(x, y) => ~A(y, x)
      BY <3>2, NotAfterIs
    <3>5. /\ A(i, j) \/ (~A(j, i) /\ i < j)
          /\ A(j, k) \/ (~A(k, j) /\ j < k)
      BY <3>1
    <3> HIDE DEF A
    <3>6. A(i, k) \/ (~A(k, i) /\ i < k)
      BY <3>1, <3>4, <3>5
    <3>3. first(i, k)
      BY <3>6 DEF A
    <3> QED
      BY <3>3
  <2> HIDE DEF R, P
  <2> QED
    BY <2>1, <2>2, <2>3, Zenon DEF Orders
<1>3. IsFiniteSet(P) /\ Cardinality(P) = n
  BY <1>1, FS_Interval
<1>4. Sorts(g, P, R) /\ Len(g) = n
  <2> HIDE DEF P, R
  <2> QED
    BY <1>2, <1>3, RankedSorts
<1>5. t = [k \in 1 .. n |-> s[g[k]]]
  <2> DEFINE B(i)  == {j \in P : first(j, i)}
             B2(i) == {j \in P : <<j, i>> \in R}
             e(k)  == CHOOSE i \in P : Cardinality(B(i)) = k - 1
             e2(k) == CHOOSE i \in P : Cardinality(B2(i)) = k - 1
  <2>1. ASSUME NEW i \in P PROVE B(i) = B2(i)
    OBVIOUS
  <2>2. t = [k \in 1 .. n |-> s[e(k)]] /\ g = [k \in 1 .. n |-> e2(k)]
    <3>1. t = [k \in 1 .. n |-> s[e(k)]]
      BY DEF SliceStable
    <3>2. g = [k \in 1 .. Cardinality(P) |-> e2(k)]
      BY DEF Ranked
    <3> HIDE DEF e2, t, g, e, P
    <3> QED
      BY <1>3, <3>1, <3>2
  <2>3. ASSUME NEW k PROVE e(k) = e2(k)
    <3> HIDE DEF B, B2
    <3> QED
      BY <2>1, Zenon
  <2> HIDE DEF e, e2, t, g, n
  <2> QED
    BY <2>2, <2>3
<1> HIDE DEF t, g
<1>6. Len(t) = n /\ DOMAIN t = 1 .. n /\ \A k \in 1 .. n : t[k] = s[g[k]] /\ g[k] \in P /\ t[k] \in AuditLogs
  <2>1. \A k \in 1 .. n : g[k] \in P
    <3> HIDE DEF P, R, n
    <3> QED
      BY <1>1, <1>4 DEF Sorts
  <2> HIDE DEF n
  <2> QED
    BY <1>1, <1>5, <2>1
<1>7. t \in Seq(AuditLogs) /\ t \in Seq({s[i] : i \in 1 .. Len(s)})
  <2> DEFINE D == {s[i] : i \in 1 .. Len(s)}
  <2>1. \A k \in 1 .. n : t[k] \in D
    BY <1>6
  <2> HIDE DEF D, n
  <2>2. t = [k \in 1 .. n |-> t[k]]
    BY <1>5
  <2>3. t \in Seq(D)
    BY <1>1, <2>1, <2>2
  <2>4. t \in Seq(AuditLogs)
    BY <1>1, <1>6, <2>2
  <2> QED
    BY <2>3, <2>4 DEF D
<1>8. ASSUME NEW i \in 1 .. Len(t), NEW j \in 1 .. Len(t), i < j PROVE <<t[i], t[j]>> \in NotAfter(asc)
  <2>1. i \in 1 .. n /\ j \in 1 .. n
    BY <1>6
  <2>2. <<g[i], g[j]>> \in R
    BY <1>4, <1>8, <2>1 DEF Sorts
  <2>3. ~Ahead(t[j], t[i], asc)
    BY <1>6, <2>1, <2>2, NotAfterIs
  <2> QED
    BY <1>6, <2>1, <2>3 DEF NotAfter
<1>9. ASSUME NEW l \in {s[i] : i \in 1 .. Len(s)} PROVE \E k \in 1 .. Len(t) : t[k] = l
  <2>1. PICK i \in P : l = s[i]
    OBVIOUS
  <2>2. PICK k \in 1 .. n : g[k] = i
    BY <1>4, <2>1 DEF Sorts
  <2> QED
    BY <1>6, <2>1, <2>2
<1>10. ASSUME Apart(s) PROVE Apart(t)
  <2> SUFFICES ASSUME NEW i \in 1 .. n, NEW j \in 1 .. n, t[i] = t[j] PROVE i = j
    BY <1>6 DEF Apart
  <2>1. g[i] = g[j]
    BY <1>6, <1>10 DEF Apart
  <2>2. <<g[i], g[i]>> \notin R
    BY <1>2, <1>6 DEF Orders
  <2>3. (<<g[i], g[j]>> \in R <=> i < j) /\ (<<g[j], g[i]>> \in R <=> j < i)
    BY <1>4 DEF Sorts
  <2> HIDE DEF R
  <2> QED
    BY <1>1, <2>1, <2>2, <2>3
<1> HIDE DEF n, P, R
<1> QED
  BY <1>6, <1>7, <1>8, <1>9, <1>10 DEF Arranges, n, t

-----------------------------------------------------------------------------
(* The envelopes and their cache.                                          *)

\* The hashes a client may name, NoHash among them; b is a body to keep for h.
Hashes   == {HashOf[b] : b \in Bodies} \cup {NoHash}
For(h, b) == h = NoHash \/ HashOf[b] = h

ClientStates == [at : {"idle", "fetch", "store", "done", "failed"},
                 hash : Hashes \cup {"none"}, body : Bodies \cup {"none"}]

\* A body that waits for the cache's lock has the hash it was asked for, if any.
EnvelopeInv ==
    /\ served \subseteq Bodies
    /\ cache \in [DOMAIN cache -> Bodies]
    /\ client \in [Clients -> ClientStates]
    /\ \A c \in Clients : client[c].at = "store" =>
         client[c].body \in Bodies /\ For(client[c].hash, client[c].body)
    /\ EnvelopesKept

LEMMA DecodedHash ==
    ASSUME NEW b, NEW h, DecodeEnvelope(b, h).ok
    PROVE  For(h, b)
BY DEF DecodeEnvelope, NoEnvelope, For

\* A body the worker answers is one of the bodies there are.
LEMMA AnsweredBody ==
    ASSUME EnvelopeInv, NEW h, NEW a \in Answers(h), a.found = "body"
    PROVE  a.body \in Bodies
BY DEF EnvelopeInv, Answers

\* The rows of a page that decode are its logs, and the envelopes it shows are
\* found.
LEMMA RowsSound ==
    ASSUME NEW logs \in Seq(AuditLogs), NEW answers,
           \A i \in DOMAIN logs : DecodeTypedAuditRowsBestEffort(logs, answers)[i].ok
    PROVE  LET rows == DecodeTypedAuditRowsBestEffort(logs, answers)
           IN  /\ DOMAIN rows = 1 .. Len(logs) /\ DOMAIN logs = 1 .. Len(logs)
               /\ RowsReached(rows) = 1 .. Len(logs)
               /\ \A i \in 1 .. Len(logs) :
                    /\ rows[i].log = logs[i]
                    /\ rows[i].available => /\ DecodeAuditAppendedLog(logs[i])
                                            /\ FetchAndDecode(logs[i].hash, answers[logs[i].hash]).found = "body"
<1> DEFINE rows == DecodeTypedAuditRowsBestEffort(logs, answers)
<1>1. Len(logs) \in Nat /\ DOMAIN logs = 1 .. Len(logs)
  OBVIOUS
<1>2. DOMAIN rows = 1 .. Len(logs) /\ \A i \in 1 .. Len(logs) : rows[i] = decodeTypedAuditRow(logs[i], answers)
  BY <1>1 DEF DecodeTypedAuditRowsBestEffort
<1>3. \A i \in 1 .. Len(logs) : rows[i].ok
  BY <1>1
<1>4. ASSUME NEW i \in 1 .. Len(logs)
      PROVE  /\ rows[i].log = logs[i]
             /\ rows[i].available => /\ DecodeAuditAppendedLog(logs[i])
                                     /\ FetchAndDecode(logs[i].hash, answers[logs[i].hash]).found = "body"
  <2> DEFINE l == logs[i]
             a == FetchAndDecode(l.hash, answers[l.hash])
             e == DecodeEnvelope(a.body, l.hash)
  <2>1. rows[i] = CASE ~DecodeAuditAppendedLog(l) -> NoEnvelope
          [] DecodeAuditAppendedLog(l) /\ a.found = "missing" ->
               [ok |-> TRUE, log |-> l, available |-> FALSE]
          [] DecodeAuditAppendedLog(l) /\ a.found = "body" ->
               [ok |-> e.operator = l.operator /\ e.actor = l.actor /\ e.kind = l.kind,
                log |-> l, available |-> TRUE]
          [] OTHER -> NoEnvelope
    BY <1>2 DEF decodeTypedAuditRow
  <2>2. rows[i].ok
    BY <1>3
  <2>3. NoEnvelope.ok = FALSE
    BY DEF NoEnvelope
  <2> HIDE DEF rows, a, e, l
  <2>4. CASE ~DecodeAuditAppendedLog(l)
    BY <2>1, <2>2, <2>3, <2>4
  <2>5. CASE DecodeAuditAppendedLog(l) /\ a.found = "missing"
    <3>1. rows[i] = [ok |-> TRUE, log |-> l, available |-> FALSE]
      BY <2>1, <2>5
    <3> QED
      BY <3>1 DEF l
  <2>6. CASE DecodeAuditAppendedLog(l) /\ a.found = "body"
    <3>1. rows[i] = [ok |-> e.operator = l.operator /\ e.actor = l.actor /\ e.kind = l.kind,
                     log |-> l, available |-> TRUE]
      BY <2>1, <2>6
    <3>2. rows[i].log = l
      BY <3>1
    <3> QED
      BY <2>6, <3>2 DEF l, a
  <2>7. CASE DecodeAuditAppendedLog(l) /\ a.found # "missing" /\ a.found # "body"
    <3>1. rows[i] = NoEnvelope
      BY <2>1, <2>7
    <3> QED
      BY <2>2, <2>3, <3>1
  <2> QED
    BY <2>4, <2>5, <2>6, <2>7
<1>5. RowsReached(rows) = 1 .. Len(logs)
  <2>1. \A i \in 1 .. Len(logs) : 1 .. i - 1 \subseteq 1 .. Len(logs)
    BY <1>1
  <2> HIDE DEF rows
  <2> QED
    BY <1>2, <1>3, <2>1 DEF RowsReached
<1> HIDE DEF rows
<1> QED
  BY <1>1, <1>2, <1>4, <1>5 DEF rows

\* A page keeps what is cached and adds bodies under the hash of their bytes.
LEMMA CacheGrows ==
    ASSUME EnvelopeInv, NEW logs \in Seq(AuditLogs), NEW answers \in AllAnswers(logs),
           KeepAll(logs, DecodeTypedAuditRowsBestEffort(logs, answers), answers)
    PROVE  /\ cache' \in [DOMAIN cache' -> Bodies] /\ DOMAIN cache \subseteq DOMAIN cache'
           /\ \A h \in DOMAIN cache' : For(h, cache'[h])
           /\ \A i \in RowsReached(DecodeTypedAuditRowsBestEffort(logs, answers)) :
                /\ DecodeAuditAppendedLog(logs[i])
                /\ FetchAndDecode(logs[i].hash, answers[logs[i].hash]).found = "body"
                => logs[i].hash \in DOMAIN cache'
<1> DEFINE rows == DecodeTypedAuditRowsBestEffort(logs, answers)
           new  == {logs[i].hash : i \in {j \in RowsReached(rows) :
                       DecodeAuditAppendedLog(logs[j]) /\
                       FetchAndDecode(logs[j].hash, answers[logs[j].hash]).found = "body"}}
<1>1. cache' = [h \in DOMAIN cache \cup new |-> IF h \in DOMAIN cache THEN cache[h] ELSE answers[h].body]
  BY DEF KeepAll
<1>2. ASSUME NEW h \in new, h \notin DOMAIN cache
      PROVE  answers[h].body \in Bodies /\ For(h, answers[h].body)
  <2>1. PICK i \in RowsReached(rows) : h = logs[i].hash /\ FetchAndDecode(h, answers[h]).found = "body"
    BY <1>2
  <2>2. i \in DOMAIN logs
    BY <2>1 DEF RowsReached, DecodeTypedAuditRowsBestEffort
  <2>3. answers[h].found = "body" /\ DecodeEnvelope(answers[h].body, h).ok
    BY <1>2, <2>1 DEF FetchAndDecode
  <2>4. h \in HashesNeeded(logs) /\ h \in DOMAIN answers
    BY <1>2, <2>1, <2>2 DEF HashesNeeded, AllAnswers
  <2>5. answers[h] \in Answers(h)
    BY <2>4 DEF AllAnswers
  <2> QED
    BY <2>3, <2>5, AnsweredBody, DecodedHash
<1>3. \A h \in DOMAIN cache : cache[h] \in Bodies /\ For(h, cache[h])
  BY DEF EnvelopeInv, EnvelopesKept, For
<1>4. ASSUME NEW i \in RowsReached(rows), DecodeAuditAppendedLog(logs[i]),
             FetchAndDecode(logs[i].hash, answers[logs[i].hash]).found = "body"
      PROVE  logs[i].hash \in new
  BY <1>4
<1> HIDE DEF new
<1> QED
  BY <1>1, <1>2, <1>3, <1>4

LEMMA ClientUpdated ==
    ASSUME NEW s \in ClientStates, NEW x, NEW y
    PROVE  /\ [s EXCEPT !.at = x, !.body = y] = [at |-> x, hash |-> s.hash, body |-> y]
           /\ s.hash \in Hashes \cup {"none"} /\ s.body \in Bodies \cup {"none"}
<1>1. [s EXCEPT !.at = x, !.body = y] = [at |-> x, hash |-> s.hash, body |-> y]
  <2> DEFINE A == {"idle", "fetch", "store", "done", "failed"}
             H == Hashes \cup {"none"}
             B == Bodies \cup {"none"}
             t == [s EXCEPT !.at = x]
  <2>1. s \in [at : A, hash : H, body : B]
    BY DEF ClientStates
  <2> HIDE DEF A, H, B
  <2>2. [s EXCEPT !.at = x, !.body = y] = [t EXCEPT !.body = y]
    BY <2>1
  <2>3. t = [at |-> x, hash |-> s.hash, body |-> s.body]
    BY <2>1
  <2> HIDE DEF t
  <2>4. [t EXCEPT !.body = y] = [at |-> x, hash |-> s.hash, body |-> y]
    BY <2>3
  <2> QED
    BY <2>2, <2>4
<1>2. s.hash \in Hashes \cup {"none"} /\ s.body \in Bodies \cup {"none"}
  BY DEF ClientStates
<1> QED
  BY <1>1, <1>2

LEMMA LookUpStep ==
    ASSUME EnvelopeInv, NEW c \in Clients, NEW h \in Hashes, LookUp(c, h)
    PROVE  EnvelopeInv'
<1>1. PICK r \in ClientStates :
              /\ client' = [client EXCEPT ![c] = r]
              /\ r.at # "store"
              /\ r.at = "done" => r.hash \in DOMAIN cache /\ r.body = cache[r.hash]
  <2> DEFINE kept == [at |-> "done", hash |-> h, body |-> cache[h]]
             none == [at |-> "fetch", hash |-> h, body |-> "none"]
  <2>1. CASE h \in DOMAIN cache
    <3>1. cache[h] \in Bodies
      BY <2>1 DEF EnvelopeInv
    <3>2. kept \in ClientStates /\ client' = [client EXCEPT ![c] = kept]
      BY <2>1, <3>1 DEF LookUp, ClientStates
    <3> QED
      BY <2>1, <3>2
  <2>2. CASE h \notin DOMAIN cache
    <3>1. none \in ClientStates /\ client' = [client EXCEPT ![c] = none]
      BY <2>2 DEF LookUp, ClientStates
    <3> QED
      BY <3>1
  <2> QED
    BY <2>1, <2>2
<1>2. /\ client' \in [Clients -> ClientStates] /\ client'[c] = r
      /\ \A x \in Clients \ {c} : client'[x] = client[x]
  BY <1>1 DEF EnvelopeInv
<1>3. UNCHANGED <<served, cache, auditWalk>>
  BY DEF LookUp
<1> QED
  BY <1>1, <1>2, <1>3 DEF EnvelopeInv, EnvelopesKept

LEMMA FetchStep ==
    ASSUME EnvelopeInv, NEW c \in Clients, NEW a \in Answers(client[c].hash), FetchEnvelope(c, a)
    PROVE  EnvelopeInv'
<1> DEFINE good == a.found = "body" /\ DecodeEnvelope(a.body, client[c].hash).ok
           r    == [at |-> IF good THEN "store" ELSE "failed", hash |-> client[c].hash,
                    body |-> IF good THEN a.body ELSE client[c].body]
<1>1. client[c] \in ClientStates
  BY DEF EnvelopeInv
<1>2. good => a.body \in Bodies /\ For(client[c].hash, a.body)
  BY AnsweredBody, DecodedHash
<1>3. r \in ClientStates
  <2> HIDE DEF good
  <2> QED
    BY <1>1, <1>2 DEF ClientStates
<1>4. /\ client' \in [Clients -> ClientStates] /\ client'[c] = r
      /\ \A x \in Clients \ {c} : client'[x] = client[x]
  <2>1. client' = [client EXCEPT ![c] = [client[c] EXCEPT !.at = IF good THEN "store" ELSE "failed",
                                                         !.body = IF good THEN a.body ELSE client[c].body]]
    BY DEF FetchEnvelope, EnvelopeInv
  <2>2. [client[c] EXCEPT !.at = IF good THEN "store" ELSE "failed",
                          !.body = IF good THEN a.body ELSE client[c].body] = r
    <3> DEFINE x == IF good THEN "store" ELSE "failed"
               y == IF good THEN a.body ELSE client[c].body
    <3> HIDE DEF x, y
    <3>1. [client[c] EXCEPT !.at = x, !.body = y] = [at |-> x, hash |-> client[c].hash, body |-> y]
      BY <1>1, ClientUpdated, ZenonT(60)
    <3> QED
      BY <3>1, Zenon DEF x, y
  <2> HIDE DEF r, good
  <2> QED
    BY <1>3, <2>1, <2>2 DEF EnvelopeInv
<1>5. UNCHANGED <<served, cache, auditWalk>>
  BY DEF FetchEnvelope
<1>6. r.at # "done" /\ (r.at = "store" => r.body \in Bodies /\ For(r.hash, r.body))
  <2> HIDE DEF good
  <2> QED
    BY <1>2
<1> HIDE DEF r
<1> QED
  BY <1>4, <1>5, <1>6 DEF EnvelopeInv, EnvelopesKept

LEMMA KeepStep ==
    ASSUME EnvelopeInv, NEW c \in Clients, KeepEnvelope(c)
    PROVE  EnvelopeInv'
<1> DEFINE h == client[c].hash
<1>1. /\ client[c] \in ClientStates /\ client[c].at = "store"
      /\ client[c].body \in Bodies /\ For(h, client[c].body)
  BY DEF EnvelopeInv, KeepEnvelope
<1>2. UNCHANGED <<served, auditWalk>>
  BY DEF KeepEnvelope
<1>3. CASE h \in DOMAIN cache
  <2> DEFINE r == [at |-> "done", hash |-> h, body |-> cache[h]]
  <2>1. cache[h] \in Bodies
    BY <1>3 DEF EnvelopeInv
  <2>2. r \in ClientStates /\ [client[c] EXCEPT !.at = "done", !.body = cache[h]] = r
    <3>1. client[c].hash \in Hashes \cup {"none"}
      BY <1>1, ClientUpdated
    <3>2. r \in ClientStates
      BY <2>1, <3>1 DEF ClientStates
    <3>3. [client[c] EXCEPT !.at = "done", !.body = cache[h]] = r
      <4> DEFINE x == "done"
                 y == cache[h]
      <4>1. client[c] \in ClientStates
        BY <1>1
      <4> HIDE DEF x, y, h
      <4>2. [client[c] EXCEPT !.at = x, !.body = y] = [at |-> x, hash |-> client[c].hash, body |-> y]
        BY <4>1, ClientUpdated, ZenonT(30)
      <4> QED
        BY <4>2, Zenon DEF x, y, h
    <3> QED
      BY <3>2, <3>3
  <2>3. client' = [client EXCEPT ![c] = [client[c] EXCEPT !.at = "done", !.body = cache[h]]] /\ UNCHANGED cache
    BY <1>3 DEF KeepEnvelope, EnvelopeInv
  <2>4. r.at = "done" /\ r.hash \in DOMAIN cache /\ r.body = cache[r.hash]
    BY <1>3
  <2> HIDE DEF r
  <2>5. /\ client' \in [Clients -> ClientStates] /\ client'[c] = r
        /\ \A x \in Clients \ {c} : client'[x] = client[x]
    BY <2>2, <2>3 DEF EnvelopeInv
  <2> QED
    BY <1>2, <2>3, <2>4, <2>5 DEF EnvelopeInv, EnvelopesKept
<1>4. CASE h \notin DOMAIN cache
  <2> DEFINE r == [at |-> "done", hash |-> h, body |-> client[c].body]
  <2>1. r \in ClientStates /\ [client[c] EXCEPT !.at = "done"] = r
    BY <1>1 DEF ClientStates
  <2>2. /\ client' = [client EXCEPT ![c] = [client[c] EXCEPT !.at = "done"]]
        /\ cache' = [x \in DOMAIN cache \cup {h} |-> IF x = h THEN client[c].body ELSE cache[x]]
    BY <1>4 DEF KeepEnvelope, EnvelopeInv
  <2>3. r.at = "done" /\ r.hash \in DOMAIN cache' /\ r.body = cache'[r.hash]
    BY <2>2
  <2> HIDE DEF r
  <2>4. /\ client' \in [Clients -> ClientStates] /\ client'[c] = r
        /\ \A x \in Clients \ {c} : client'[x] = client[x]
    BY <2>1, <2>2 DEF EnvelopeInv
  <2>5. \A x \in DOMAIN cache : cache[x] \in Bodies /\ For(x, cache[x])
    BY DEF EnvelopeInv, EnvelopesKept, For
  <2>6. /\ cache' \in [DOMAIN cache' -> Bodies] /\ \A x \in DOMAIN cache' : For(x, cache'[x])
        /\ \A x \in DOMAIN cache : x \in DOMAIN cache' /\ cache'[x] = cache[x]
    BY <1>1, <1>4, <2>2, <2>5
  <2>7. auditWalk'.found \subseteq DOMAIN cache'
    BY <1>2, <2>2 DEF EnvelopeInv, EnvelopesKept
  <2>8. ASSUME NEW x \in Clients, client'[x].at = "done"
        PROVE  client'[x].hash \in DOMAIN cache' /\ client'[x].body = cache'[client'[x].hash]
    BY <2>3, <2>4, <2>6, <2>8 DEF EnvelopeInv, EnvelopesKept
  <2>9. ASSUME NEW x \in Clients, client'[x].at = "store"
        PROVE  client'[x].body \in Bodies /\ For(client'[x].hash, client'[x].body)
    BY <2>3, <2>4, <2>9 DEF EnvelopeInv
  <2>10. served' \subseteq Bodies
    BY <1>2 DEF EnvelopeInv
  <2> QED
    BY <2>4, <2>6, <2>7, <2>8, <2>9, <2>10 DEF EnvelopeInv, EnvelopesKept, For
<1> QED
  BY <1>3, <1>4

-----------------------------------------------------------------------------
(* The walk over the operator's rows.                                      *)

WalkStates(kinds) ==
    [at : {"start", "page", "queried", "end"}, kind : kinds, asc : BOOLEAN,
     cursor : [block : Nat, index : Nat], limit : Nat, v2 : Seq(AuditLogs),
     missed : SUBSET AuditLogs, lost : SUBSET AuditLogs,
     from : SUBSET AuditLogs, shown : SUBSET AuditLogs, found : SUBSET {l.hash : l \in AuditLogs}]

\* The logs after the cursor.
Passing(cursor, asc) == {l \in AuditLogs : cursor # NoCursor => IF asc THEN Above(l, cursor) ELSE Above(cursor, l)}

\* What was there when the walk began has been shown, or is tied, or lost by a
\* query that failed, or is after the cursor; and the query made so far
\* returned the first of those rows, or failed.
WalkInv(kinds) ==
    LET w == auditWalk
    IN  /\ w \in WalkStates(kinds)
        /\ w.at = "start" => w.cursor = NoCursor
        /\ w.at # "start" =>
             w.from \subseteq agentkeysAuditLogFilters(Stored({"v2", "current"}), w.kind, NoCursor, w.asc)
        /\ w.at \in {"page", "queried"} =>
             w.from \subseteq w.shown \cup TiedLogs \cup w.lost \cup Passing(w.cursor, w.asc)
        /\ w.at = "end" => w.from \subseteq w.shown \cup TiedLogs \cup w.lost
        /\ w.at = "queried" =>
             /\ w.limit \in Nat \ {0}
             /\ \E S \in SUBSET AuditLogs :
                  /\ {l \in w.from \cap Passing(w.cursor, w.asc) : l.event = "v2"} \subseteq S
                  /\ w.v2 \in API_GetLogsForAgentKeys(S, w.asc, w.limit + 1) \/ S \subseteq w.missed

LEMMA QueryShape ==
    ASSUME NEW A, NEW K, NEW G, NEW C, NEW L, NEW V, NEW Y, NEW Z, NEW F, NEW D, NEW E,
           NEW w \in [at : A, kind : K, asc : G, cursor : C, limit : L, v2 : V, missed : Y, lost : Z, from : F, shown : D, found : E],
           NEW a \in A, NEW v \in V, NEW n \in L, NEW y \in Y, NEW f \in F
    PROVE  LET r == [w EXCEPT !.at = a, !.v2 = v, !.limit = n, !.missed = y, !.from = f]
           IN  /\ r \in [at : A, kind : K, asc : G, cursor : C, limit : L, v2 : V, missed : Y, lost : Z, from : F, shown : D, found : E]
               /\ r.at = a /\ r.kind = w.kind /\ r.asc = w.asc /\ r.cursor = w.cursor /\ r.limit = n
               /\ r.v2 = v /\ r.missed = y /\ r.lost = w.lost /\ r.from = f /\ r.shown = w.shown /\ r.found = w.found
OBVIOUS

LEMMA RefusedShape ==
    ASSUME NEW A, NEW K, NEW G, NEW C, NEW L, NEW V, NEW Y, NEW Z, NEW F, NEW D, NEW E,
           NEW w \in [at : A, kind : K, asc : G, cursor : C, limit : L, v2 : V, missed : Y, lost : Z, from : F, shown : D, found : E],
           NEW a \in A, NEW v \in V, NEW n \in L, NEW y \in Y
    PROVE  LET r == [w EXCEPT !.at = a, !.v2 = v, !.limit = n, !.missed = y]
           IN  /\ r \in [at : A, kind : K, asc : G, cursor : C, limit : L, v2 : V, missed : Y, lost : Z, from : F, shown : D, found : E]
               /\ r.at = a /\ r.kind = w.kind /\ r.asc = w.asc /\ r.cursor = w.cursor /\ r.limit = n
               /\ r.v2 = v /\ r.missed = y /\ r.lost = w.lost /\ r.from = w.from /\ r.shown = w.shown /\ r.found = w.found
OBVIOUS

LEMMA PageShape ==
    ASSUME NEW A, NEW K, NEW G, NEW C, NEW L, NEW V, NEW Y, NEW Z, NEW F, NEW D, NEW E,
           NEW w \in [at : A, kind : K, asc : G, cursor : C, limit : L, v2 : V, missed : Y, lost : Z, from : F, shown : D, found : E],
           NEW a \in A, NEW v \in V, NEW n \in L, NEW y \in Y, NEW z \in Z,
           NEW c \in C, NEW d \in D, NEW e \in E
    PROVE  LET r == [w EXCEPT !.at = a, !.v2 = v, !.limit = n, !.missed = y, !.lost = z, !.cursor = c,
                              !.shown = d, !.found = e]
           IN  /\ r \in [at : A, kind : K, asc : G, cursor : C, limit : L, v2 : V, missed : Y, lost : Z, from : F, shown : D, found : E]
               /\ r.at = a /\ r.kind = w.kind /\ r.asc = w.asc /\ r.cursor = c /\ r.limit = n
               /\ r.v2 = v /\ r.missed = y /\ r.lost = z /\ r.from = w.from /\ r.shown = d /\ r.found = e
OBVIOUS

\* The two queries of a page hold every row that was to come, as far as the
\* page goes: a row that neither shows is not before the last row shown.
LEMMA PageKeeps ==
    ASSUME NEW asc \in BOOLEAN, NEW k \in Nat \ {0}, NEW P \in SUBSET AuditLogs,
           NEW q \in API_GetLogsForAgentKeys(P, asc, k + 1),
           NEW s \in Seq(AuditLogs), \A i \in 1 .. Len(q) : \E j \in 1 .. Len(s) : s[j] = q[i],
           NEW l \in P
    PROVE  LET t == SliceStable(s, asc)
           IN  \/ l \in ToSet(Take(t, k))
               \/ /\ Len(t) > k /\ Last(Take(t, k)) = t[k] /\ t[k] \in AuditLogs
                  /\ t[k] \in ToSet(Take(t, k)) /\ <<t[k], l>> \in NotAfter(asc)
<1> DEFINE t == SliceStable(s, asc)
           M == {s[i] : i \in 1 .. Len(s)}
           W == NotAfter(asc)
<1>0. k + 1 \in Nat /\ M \in SUBSET AuditLogs
  OBVIOUS
<1>1. PICK a : Arranges(a, P, W) /\ Apart(a) /\ q = Take(a, k + 1)
  <2> DEFINE n == k + 1
  <2>0. n \in Nat /\ q \in API_GetLogsForAgentKeys(P, asc, n)
    BY <1>0
  <2> HIDE DEF n
  <2>1. \E a : Arranges(a, P, NotAfter(asc)) /\ Apart(a) /\ q = Take(a, n)
    BY ZenonT(60), <2>0, QuerySound
  <2> QED
    BY <2>1 DEF n
<1>2. t \in Seq(AuditLogs) /\ Len(t) \in Nat /\ Arranges(t, M, W)
  <2>1. t \in Seq(AuditLogs) /\ Arranges(t, M, W)
    BY StableSorts, ZenonT(60)
  <2> QED
    BY <2>1
<1>3. \A i \in 1 .. Len(a) : i <= k + 1 => a[i] \in M
  <2>1. a \in Seq(P) /\ Len(a) \in Nat
    BY <1>1 DEF Arranges
  <2>2. Len(q) = (IF Len(a) < k + 1 THEN Len(a) ELSE k + 1) /\ \A i \in 1 .. Len(q) : q[i] = a[i]
    BY <1>0, <1>1, <2>1, FirstOf
  <2>3. \A i \in 1 .. Len(q) : q[i] \in M
    OBVIOUS
  <2> HIDE DEF M
  <2>4. \A i \in 1 .. Len(a) : i <= k + 1 => i \in 1 .. Len(q)
    BY <2>1, <2>2
  <2> QED
    BY <2>2, <2>3, <2>4
<1>4. Transitive(W, AuditLogs)
  BY NotAfterIs DEF Transitive
<1>4a. Opens(a, k + 1, M)
  BY <1>3 DEF Opens
<1> HIDE DEF t, M, W
<1>5. (\E i \in 1 .. Len(t) : i <= k /\ t[i] = l) \/ (Len(t) > k /\ <<t[k], l>> \in W)
  <2>1. Covers(t, k, l, W)
    BY <1>0, <1>1, <1>2, <1>4, <1>4a, CutKeeps, ZenonT(60)
  <2> QED
    BY <2>1 DEF Covers
<1>6. /\ Len(Take(t, k)) = (IF Len(t) < k THEN Len(t) ELSE k)
      /\ Take(t, k) \in Seq(AuditLogs)
      /\ \A i \in 1 .. Len(Take(t, k)) : Take(t, k)[i] = t[i]
  BY <1>2, FirstOf
<1>7. \A i \in 1 .. Len(Take(t, k)) : t[i] \in ToSet(Take(t, k))
  <2>1. DOMAIN Take(t, k) = 1 .. Len(Take(t, k))
    BY <1>6
  <2> QED
    BY <1>6, <2>1 DEF ToSet
<1>8. ASSUME NEW i \in 1 .. Len(t), i <= k, t[i] = l PROVE l \in ToSet(Take(t, k))
  <2>1. i \in 1 .. Len(Take(t, k))
    BY <1>2, <1>6, <1>8
  <2> QED
    BY <1>7, <1>8, <2>1
<1>9. ASSUME Len(t) > k PROVE Last(Take(t, k)) = t[k] /\ t[k] \in AuditLogs /\ t[k] \in ToSet(Take(t, k))
  <2>1. Len(Take(t, k)) = k /\ k \in 1 .. k /\ k \in 1 .. Len(t)
    BY <1>2, <1>6, <1>9
  <2>2. Take(t, k)[k] = t[k] /\ t[k] \in AuditLogs /\ t[k] \in ToSet(Take(t, k))
    BY <1>2, <1>6, <1>7, <2>1
  <2> QED
    BY <2>1, <2>2 DEF Last
<1> QED
  BY <1>5, <1>8, <1>9 DEF t, W

\* A row that is not before another one, the last shown, is after the cursor
\* made of that one, or tied.
LEMMA AfterCursor ==
    ASSUME NEW asc \in BOOLEAN, NEW last \in AuditLogs, NEW l \in AuditLogs, last # l,
           <<last, l>> \in NotAfter(asc)
    PROVE  l \in TiedLogs \cup Passing([block |-> last.block, index |-> last.index], asc)
<1>1. Ahead(last, l, asc) \/ Tied(last, l)
  BY NotAfterIs DEF NotAfter
<1>2. Tied(last, l) => l \in TiedLogs
  BY DEF TiedLogs, Tied
<1>3. Above(l, last) => Above(l, [block |-> last.block, index |-> last.index])
  BY DEF Above
<1>4. Above(last, l) => Above([block |-> last.block, index |-> last.index], l)
  BY DEF Above
<1> QED
  BY <1>1, <1>2, <1>3, <1>4 DEF Passing, Ahead

LEMMA QueryStep ==
    ASSUME NEW kinds, WalkInv(kinds), NEW limit, agentkeysAuditLogs(limit)
    PROVE  WalkInv(kinds)' /\ auditWalk'.found = auditWalk.found
<1> DEFINE w  == auditWalk
           S  == agentkeysAuditLogFilters(Stored({"v2"}), w.kind, w.cursor, w.asc)
           st == agentkeysAuditLogFilters(Stored({"v2", "current"}), w.kind, NoCursor, w.asc)
           f  == IF w.at = "start" THEN st ELSE w.from
<1>1. /\ w.at \in {"start", "page"} /\ limit \in 1 .. MaxLimit
      /\ UNCHANGED auditStored
  BY DEF agentkeysAuditLogs, agentkeysAuditLimit
<1>v. PICK v \in API_GetLogsForAgentKeys(S, w.asc, limit + 1) \cup {<<>>} :
        w' = [w EXCEPT !.at = "queried", !.v2 = v, !.limit = limit,
                       !.missed = IF v = <<>> THEN S ELSE {}, !.from = f]
  BY DEF agentkeysAuditLogs
<1> DEFINE m == IF v = <<>> THEN S ELSE {}
<1>2. w \in WalkStates(kinds) /\ w.asc \in BOOLEAN /\ w.from \in SUBSET AuditLogs
  BY DEF WalkInv, WalkStates
<1>3. limit \in Nat \ {0} /\ limit + 1 \in Nat
  BY <1>1, AuditAssumption
<1>4. S \in SUBSET AuditLogs /\ st \in SUBSET AuditLogs
  BY DEF agentkeysAuditLogFilters, Stored
<1>5. v \in Seq(AuditLogs) /\ m \in SUBSET AuditLogs
  <2> HIDE DEF S
  <2>1. CASE v = <<>>
    BY <1>4, <2>1
  <2>2. CASE v # <<>>
    <3>1. v \in API_GetLogsForAgentKeys(S, w.asc, limit + 1)
      BY <1>v, <2>2
    <3> QED
      BY <1>2, <1>3, <1>4, <2>2, <3>1, QuerySound
  <2> QED
    BY <2>1, <2>2
<1>5a. v \in API_GetLogsForAgentKeys(S, w.asc, limit + 1) \/ S \subseteq m
  BY <1>v
<1>6. f \in SUBSET AuditLogs
  BY <1>2, <1>4
<1>7. f \subseteq st
  BY <1>1 DEF WalkInv
<1>8. f \subseteq w.shown \cup TiedLogs \cup w.lost \cup Passing(w.cursor, w.asc)
  <2>1. CASE w.at = "start"
    <3>1. w.cursor = NoCursor
      BY <2>1 DEF WalkInv
    <3> QED
      BY <1>6, <3>1 DEF Passing
  <2>2. CASE w.at = "page"
    BY <2>2 DEF WalkInv
  <2> QED
    BY <1>1, <2>1, <2>2
<1>9. {l \in f \cap Passing(w.cursor, w.asc) : l.event = "v2"} \subseteq S
  BY <1>7 DEF Passing, agentkeysAuditLogFilters, Stored
<1>10. /\ w' \in WalkStates(kinds)
       /\ w'.at = "queried" /\ w'.kind = w.kind /\ w'.asc = w.asc /\ w'.cursor = w.cursor /\ w'.limit = limit
       /\ w'.v2 = v /\ w'.missed = m /\ w'.lost = w.lost /\ w'.from = f /\ w'.shown = w.shown /\ w'.found = w.found
  <2>1. w' = [w EXCEPT !.at = "queried", !.v2 = v, !.limit = limit, !.missed = m, !.from = f]
    BY <1>v
  <2> HIDE DEF m, f, w
  <2> QED
    BY <1>2, <1>3, <1>5, <1>6, <2>1, QueryShape DEF WalkStates
<1>11. agentkeysAuditLogFilters(Stored({"v2", "current"}), w.kind, NoCursor, w.asc)' = st
  BY <1>1, <1>10 DEF agentkeysAuditLogFilters, Stored
<1>12. Passing(w.cursor, w.asc)' = Passing(w.cursor, w.asc)
  BY <1>10 DEF Passing
<1>13. API_GetLogsForAgentKeys(S, w.asc, limit + 1)
         = API_GetLogsForAgentKeys(S, w.asc', limit + 1)
  BY <1>10
<1> HIDE DEF S, st, f, m
<1>14. \E T \in SUBSET AuditLogs :
         /\ {l \in w.from' \cap Passing(w.cursor, w.asc)' : l.event = "v2"} \subseteq T
         /\ w.v2' \in API_GetLogsForAgentKeys(T, w.asc', w.limit' + 1) \/ T \subseteq w.missed'
  BY <1>4, <1>5a, <1>9, <1>10, <1>12, <1>13
<1> QED
  BY <1>3, <1>7, <1>8, <1>10, <1>11, <1>12, <1>14 DEF WalkInv

LEMMA RowsStep ==
    ASSUME EnvelopeInv, NEW kinds, WalkInv(kinds), agentkeysAuditRowsHandle
    PROVE  EnvelopeInv' /\ WalkInv(kinds)'
<1> DEFINE w       == auditWalk
           Q       == agentkeysAuditLogFilters(Stored({"current"}), w.kind, w.cursor, w.asc)
           k       == w.limit
<1>1. /\ w \in WalkStates(kinds) /\ w.asc \in BOOLEAN /\ w.from \in SUBSET AuditLogs /\ w.shown \in SUBSET AuditLogs
      /\ w.v2 \in Seq(AuditLogs) /\ w.cursor \in [block : Nat, index : Nat] /\ w.found \in SUBSET {l.hash : l \in AuditLogs}
      /\ w.missed \in SUBSET AuditLogs /\ w.lost \in SUBSET AuditLogs
  BY DEF WalkInv, WalkStates
<1>2. w.at = "queried" /\ k \in Nat \ {0} /\ k + 1 \in Nat
  <2>1. w.at = "queried"
    BY Zenon DEF agentkeysAuditRowsHandle
  <2> QED
    BY <2>1 DEF WalkInv
<1>3. PICK S \in SUBSET AuditLogs :
              /\ {l \in w.from \cap Passing(w.cursor, w.asc) : l.event = "v2"} \subseteq S
              /\ w.v2 \in API_GetLogsForAgentKeys(S, w.asc, k + 1) \/ S \subseteq w.missed
  BY <1>2 DEF WalkInv
<1>4. Q \in SUBSET AuditLogs
  BY DEF agentkeysAuditLogFilters, Stored
<1>5. PICK current \in API_GetLogsForAgentKeys(Q, w.asc, k + 1) \cup {<<>>} :
      \E answers \in AllAnswers(w.v2 \o current) :
        LET logs == w.v2 \o current
            rows == DecodeTypedAuditRowsBestEffort(logs, answers)
            merged == agentkeysAuditRowsPage(rows, w.asc, k)
            last == IF merged.logs = <<>> THEN NoCursor ELSE Last(merged.logs)
            cursor == IF merged.more THEN [block |-> last.block, index |-> last.index] ELSE NoCursor
            missed == w.missed \cup (IF current = <<>> THEN Q ELSE {})
            later == IF merged.more THEN agentkeysAuditLogFilters(missed, w.kind, cursor, w.asc) ELSE {}
        IN  /\ KeepAll(logs, rows, answers)
            /\ auditWalk' =
                 IF ~(\A i \in DOMAIN rows : rows[i].ok)
                 THEN [w EXCEPT !.at = IF w.cursor = NoCursor THEN "start" ELSE "page", !.v2 = <<>>, !.limit = 0,
                                !.missed = {}]
                 ELSE [w EXCEPT !.at = IF merged.more THEN "page" ELSE "end", !.v2 = <<>>, !.limit = 0,
                         !.missed = {}, !.lost = w.lost \cup (missed \ later), !.cursor = cursor,
                         !.shown = w.shown \cup ToSet(merged.logs),
                         !.found = w.found \cup {rows[i].log.hash : i \in {j \in DOMAIN rows : rows[j].available}}]
  BY ZenonT(60) DEF agentkeysAuditRowsHandle
<1>5d. PICK answers \in AllAnswers(w.v2 \o current) :
        LET logs == w.v2 \o current
            rows == DecodeTypedAuditRowsBestEffort(logs, answers)
            merged == agentkeysAuditRowsPage(rows, w.asc, k)
            last == IF merged.logs = <<>> THEN NoCursor ELSE Last(merged.logs)
            cursor == IF merged.more THEN [block |-> last.block, index |-> last.index] ELSE NoCursor
            missed == w.missed \cup (IF current = <<>> THEN Q ELSE {})
            later == IF merged.more THEN agentkeysAuditLogFilters(missed, w.kind, cursor, w.asc) ELSE {}
        IN  /\ KeepAll(logs, rows, answers)
            /\ auditWalk' =
                 IF ~(\A i \in DOMAIN rows : rows[i].ok)
                 THEN [w EXCEPT !.at = IF w.cursor = NoCursor THEN "start" ELSE "page", !.v2 = <<>>, !.limit = 0,
                                !.missed = {}]
                 ELSE [w EXCEPT !.at = IF merged.more THEN "page" ELSE "end", !.v2 = <<>>, !.limit = 0,
                         !.missed = {}, !.lost = w.lost \cup (missed \ later), !.cursor = cursor,
                         !.shown = w.shown \cup ToSet(merged.logs),
                         !.found = w.found \cup {rows[i].log.hash : i \in {j \in DOMAIN rows : rows[j].available}}]
  BY <1>5, Zenon
<1> DEFINE logs   == w.v2 \o current
           rows   == DecodeTypedAuditRowsBestEffort(logs, answers)
           merged == agentkeysAuditRowsPage(rows, w.asc, k)
           last   == IF merged.logs = <<>> THEN NoCursor ELSE Last(merged.logs)
           stored == agentkeysAuditLogFilters(Stored({"v2", "current"}), w.kind, NoCursor, w.asc)
           found  == w.found \cup {rows[i].log.hash : i \in {j \in DOMAIN rows : rows[j].available}}
           cursor == IF merged.more THEN [block |-> last.block, index |-> last.index] ELSE NoCursor
           missed == w.missed \cup (IF current = <<>> THEN Q ELSE {})
           later  == IF merged.more THEN agentkeysAuditLogFilters(missed, w.kind, cursor, w.asc) ELSE {}
<1>5a. current \in Seq(AuditLogs) /\ (current \in API_GetLogsForAgentKeys(Q, w.asc, k + 1) \/ Q \subseteq missed)
  <2> HIDE DEF Q
  <2>1. CASE current = <<>>
    BY <2>1
  <2>2. CASE current # <<>>
    <3>1. current \in API_GetLogsForAgentKeys(Q, w.asc, k + 1)
      BY <1>5, <2>2
    <3> QED
      BY <1>1, <1>2, <1>4, <3>1, QuerySound
  <2> QED
    BY <2>1, <2>2
<1>5b. logs \in Seq(AuditLogs)
  BY <1>1, <1>5a
<1>5c. missed \in SUBSET AuditLogs
  <2> HIDE DEF Q
  <2> QED
    BY <1>1, <1>4
<1> HIDE DEF logs, missed, later
<1>6. /\ KeepAll(logs, rows, answers) /\ answers \in AllAnswers(logs)
      /\ auditWalk' =
                 IF ~(\A i \in DOMAIN rows : rows[i].ok)
                 THEN [w EXCEPT !.at = IF w.cursor = NoCursor THEN "start" ELSE "page", !.v2 = <<>>, !.limit = 0,
                                !.missed = {}]
                 ELSE [w EXCEPT !.at = IF merged.more THEN "page" ELSE "end", !.v2 = <<>>, !.limit = 0,
                         !.missed = {}, !.lost = w.lost \cup (missed \ later), !.cursor = cursor,
                         !.shown = w.shown \cup ToSet(merged.logs), !.found = found]
  BY <1>5d DEF logs, missed, later
<1>7. UNCHANGED <<auditStored, served, client>>
  BY DEF agentkeysAuditRowsHandle
<1>8. /\ cache' \in [DOMAIN cache' -> Bodies] /\ DOMAIN cache \subseteq DOMAIN cache'
      /\ \A h \in DOMAIN cache' : For(h, cache'[h])
      /\ \A i \in RowsReached(rows) :
           /\ DecodeAuditAppendedLog(logs[i])
           /\ FetchAndDecode(logs[i].hash, answers[logs[i].hash]).found = "body"
           => logs[i].hash \in DOMAIN cache'
  BY <1>5b, <1>6, CacheGrows
<1>8a. \A h \in DOMAIN cache : cache'[h] = cache[h]
  BY <1>6 DEF KeepAll
<1>9. w'.found \subseteq DOMAIN cache' /\ w'.kind = w.kind /\ w'.asc = w.asc => EnvelopeInv'
  BY <1>7, <1>8, <1>8a DEF EnvelopeInv, EnvelopesKept, For
<1>10. w.found \subseteq DOMAIN cache'
  BY <1>8 DEF EnvelopeInv, EnvelopesKept
<1>11. w.from \subseteq stored
  BY <1>2 DEF WalkInv
<1>12. w.from \subseteq w.shown \cup TiedLogs \cup w.lost \cup Passing(w.cursor, w.asc)
  BY <1>2 DEF WalkInv
<1>13. CASE ~(\A i \in DOMAIN rows : rows[i].ok)
  <2> DEFINE at == IF w.cursor = NoCursor THEN "start" ELSE "page"
  <2>1. w' = [w EXCEPT !.at = at, !.v2 = <<>>, !.limit = 0, !.missed = {}]
    BY <1>6, <1>13
  <2>2. at \in {"start", "page"} /\ <<>> \in Seq(AuditLogs) /\ 0 \in Nat /\ (at = "start" => w.cursor = NoCursor)
    OBVIOUS
  <2>3. /\ w' \in WalkStates(kinds)
        /\ w'.at = at /\ w'.kind = w.kind /\ w'.asc = w.asc /\ w'.cursor = w.cursor
        /\ w'.lost = w.lost
        /\ w'.from = w.from /\ w'.shown = w.shown /\ w'.found = w.found
    <3>1. {} \in SUBSET AuditLogs
      OBVIOUS
    <3> HIDE DEF at, w
    <3> QED
      BY <1>1, <2>1, <2>2, <3>1, RefusedShape DEF WalkStates
  <2>4. agentkeysAuditLogFilters(Stored({"v2", "current"}), w.kind, NoCursor, w.asc)' = stored
    BY <1>7, <2>3 DEF agentkeysAuditLogFilters, Stored
  <2>5. Passing(w.cursor, w.asc)' = Passing(w.cursor, w.asc)
    BY <2>3 DEF Passing
  <2> HIDE DEF at, stored
  <2>6. WalkInv(kinds)'
    BY <1>11, <1>12, <2>2, <2>3, <2>4, <2>5 DEF WalkInv
  <2> QED
    BY <1>9, <1>10, <2>3, <2>6
<1>14. CASE \A i \in DOMAIN rows : rows[i].ok
  <2> DEFINE t == SliceStable(logs, w.asc)
             p == Take(t, k)
             more == Len(t) > k
             at == IF more THEN "page" ELSE "end"
             z  == w.lost \cup (missed \ later)
  <2>1. /\ DOMAIN rows = 1 .. Len(logs) /\ RowsReached(rows) = 1 .. Len(logs)
        /\ \A i \in 1 .. Len(logs) :
             /\ rows[i].log = logs[i]
             /\ rows[i].available => /\ DecodeAuditAppendedLog(logs[i])
                                     /\ FetchAndDecode(logs[i].hash, answers[logs[i].hash]).found = "body"
    <3>1. \A i \in DOMAIN logs : rows[i].ok
      BY <1>14 DEF DecodeTypedAuditRowsBestEffort
    <3> QED
      BY <1>5b, <3>1, RowsSound
  <2>2. logs = [i \in DOMAIN rows |-> rows[i].log]
    <3> HIDE DEF rows
    <3> QED
      BY <1>5b, <2>1
  <2>3. merged.logs = p /\ merged.more = more
    <3> HIDE DEF rows
    <3> QED
      BY <2>2 DEF agentkeysAuditRowsPage
  <2>4. found \subseteq DOMAIN cache' /\ found \in SUBSET {l.hash : l \in AuditLogs}
    <3>1. \A i \in 1 .. Len(logs) : logs[i] \in AuditLogs
      BY <1>5b
    <3> HIDE DEF rows
    <3> QED
      BY <1>1, <1>8, <1>10, <2>1, <3>1
  <2>5. t \in Seq(AuditLogs) /\ p \in Seq(AuditLogs) /\ Len(t) \in Nat
    <3>1. t \in Seq(AuditLogs)
      BY <1>1, <1>5b, StableSorts
    <3> HIDE DEF t
    <3>2. Len(t) \in Nat /\ k \in Nat
      BY <1>2, <3>1
    <3>3. Take(t, k) \in Seq(AuditLogs)
      BY <3>1, <3>2, FirstOf
    <3> QED
      BY <3>1, <3>2, <3>3
  <2>6. ToSet(p) \subseteq AuditLogs
    <3> HIDE DEF p
    <3> QED
      BY <2>5 DEF ToSet
  <2>7. ASSUME NEW l \in w.from, l \notin w.shown \cup TiedLogs \cup z \cup ToSet(p)
        PROVE  more /\ l \in Passing(cursor, w.asc)
    <3>1. l \in AuditLogs /\ l \in Passing(w.cursor, w.asc) /\ l \in stored
      BY <1>1, <1>11, <1>12, <2>7
    <3>2. l \in S \cup Q
      <4>1. CASE l.event = "v2"
        BY <1>3, <3>1, <4>1
      <4>2. CASE l.event # "v2"
        BY <3>1, <4>2 DEF Passing, agentkeysAuditLogFilters, Stored
      <4> QED
        BY <4>1, <4>2
    <3>3. CASE l \in missed
      <4>1. l \in later
        BY <2>7, <3>3
      <4>2. merged.more
        BY <4>1 DEF later
      <4>3. l \in agentkeysAuditLogFilters(missed, w.kind, cursor, w.asc)
        BY <4>1, <4>2 DEF later
      <4> HIDE DEF merged, more, cursor
      <4>4. l \in Passing(cursor, w.asc)
        BY <3>1, <4>3 DEF agentkeysAuditLogFilters, Passing
      <4> QED
        BY <2>3, <4>2, <4>4
    <3>4. CASE l \notin missed
      <4>0. \E P \in SUBSET AuditLogs : \E q \in API_GetLogsForAgentKeys(P, w.asc, k + 1) :
              l \in P /\ (q = w.v2 \/ q = current)
        <5> HIDE DEF Q, k
        <5>1. w.missed \subseteq missed
          BY DEF missed
        <5>2. CASE l \in S
          <6>1. w.v2 \in API_GetLogsForAgentKeys(S, w.asc, k + 1)
            BY <1>3, <3>4, <5>1, <5>2
          <6> QED
            BY <5>2, <6>1
        <5>3. CASE l \in Q
          <6>1. current \in API_GetLogsForAgentKeys(Q, w.asc, k + 1)
            BY <1>5a, <3>4, <5>3
          <6> QED
            BY <1>4, <5>3, <6>1
        <5> QED
          BY <3>2, <5>2, <5>3
      <4>0a. PICK P \in SUBSET AuditLogs : \E q \in API_GetLogsForAgentKeys(P, w.asc, k + 1) :
              l \in P /\ (q = w.v2 \/ q = current)
        BY <4>0
      <4>1. PICK q \in API_GetLogsForAgentKeys(P, w.asc, k + 1) : l \in P /\ (q = w.v2 \/ q = current)
        BY <4>0a
      <4>2. \A i \in 1 .. Len(q) : \E j \in 1 .. Len(logs) : logs[j] = q[i]
        <5>1. w.v2 \in Seq(AuditLogs) /\ current \in Seq(AuditLogs)
          BY <1>1, <1>5a
        <5>2. CASE q = w.v2
          <6>1. \A i \in 1 .. Len(q) : i \in 1 .. Len(logs) /\ logs[i] = q[i]
            BY <5>1, <5>2 DEF logs
          <6> QED
            BY <6>1
        <5>3. CASE q = current
          <6>1. \A i \in 1 .. Len(q) : Len(w.v2) + i \in 1 .. Len(logs) /\ logs[Len(w.v2) + i] = q[i]
            BY <5>1, <5>3 DEF logs
          <6> QED
            BY <6>1
        <5> QED
          BY <4>1, <5>2, <5>3
      <4>3. \/ l \in ToSet(p)
            \/ /\ more /\ Last(p) = t[k] /\ t[k] \in AuditLogs
               /\ t[k] \in ToSet(p) /\ <<t[k], l>> \in NotAfter(w.asc)
        <5> DEFINE asc == w.asc
                   n   == k
        <5>1. asc \in BOOLEAN /\ n \in Nat \ {0} /\ q \in API_GetLogsForAgentKeys(P, asc, n + 1)
          BY <1>1, <1>2, <4>1
        <5> HIDE DEF asc, n
        <5>2. LET u == SliceStable(logs, asc)
              IN  \/ l \in ToSet(Take(u, n))
                  \/ /\ Len(u) > n /\ Last(Take(u, n)) = u[n] /\ u[n] \in AuditLogs
                     /\ u[n] \in ToSet(Take(u, n)) /\ <<u[n], l>> \in NotAfter(asc)
          BY <1>5b, <4>1, <4>2, <5>1, PageKeeps
        <5> QED
          BY <5>2 DEF asc, n
      <4>4. /\ more /\ Last(p) = t[k] /\ t[k] \in AuditLogs
            /\ t[k] # l /\ <<t[k], l>> \in NotAfter(w.asc)
        <5> HIDE DEF t, p
        <5> QED
          BY <2>7, <4>3
      <4>5. p # <<>>
        <5>1. Len(p) = k
          <6> HIDE DEF t
          <6> QED
            BY <1>2, <2>5, <4>4, FirstOf
        <5> QED
          BY <1>2, <5>1
      <4>6. last = t[k]
        <5> HIDE DEF p, t, merged
        <5> QED
          BY <2>3, <4>4, <4>5
      <4>7. l \in Passing([block |-> last.block, index |-> last.index], w.asc)
        <5> HIDE DEF t, last, z
        <5> QED
          BY <1>1, <2>7, <3>1, <4>4, <4>6, AfterCursor
      <4> HIDE DEF last, p, t, merged
      <4> QED
        BY <2>3, <4>4, <4>7
    <3> QED
      BY <3>3, <3>4
  <2>8. cursor \in [block : Nat, index : Nat]
    <3>1. ASSUME more PROVE last \in AuditLogs
      <4>1. Len(p) = k
        <5> HIDE DEF t
        <5> QED
          BY <1>2, <2>5, <3>1, FirstOf
      <4> HIDE DEF p, t, merged
      <4> QED
        BY <1>2, <2>3, <2>5, <4>1 DEF Last
    <3> HIDE DEF last, more, merged
    <3> QED
      BY <2>3, <3>1, LogNumbers DEF NoCursor
  <2>8a. z \in SUBSET AuditLogs
    BY <1>1, <1>5c
  <2>9. w' = [w EXCEPT !.at = at, !.v2 = <<>>, !.limit = 0, !.missed = {}, !.lost = z, !.cursor = cursor,
                       !.shown = w.shown \cup ToSet(p), !.found = found]
    <3> HIDE DEF p, more, rows, cursor, found, merged
    <3> QED
      BY <1>6, <1>14, <2>3 DEF rows
  <2>10. at \in {"page", "end"} /\ <<>> \in Seq(AuditLogs) /\ 0 \in Nat /\ (at = "end" => ~more)
    OBVIOUS
  <2>11. w.shown \cup ToSet(p) \in SUBSET AuditLogs
    <3> HIDE DEF p
    <3> QED
      BY <1>1, <2>6
  <2>12. /\ w' \in WalkStates(kinds)
         /\ w'.at = at /\ w'.kind = w.kind /\ w'.asc = w.asc /\ w'.cursor = cursor
         /\ w'.lost = z /\ w'.from = w.from /\ w'.shown = w.shown \cup ToSet(p) /\ w'.found = found
    <3> DEFINE d == w.shown \cup ToSet(p)
    <3>1. d \in SUBSET AuditLogs /\ w' = [w EXCEPT !.at = at, !.v2 = <<>>, !.limit = 0, !.missed = {},
                                                  !.lost = z, !.cursor = cursor, !.shown = d, !.found = found]
      BY <2>9, <2>11
    <3>3. {} \in SUBSET AuditLogs
      OBVIOUS
    <3> HIDE DEF at, w, cursor, d, found, z
    <3>2. /\ w' \in WalkStates(kinds)
          /\ w'.at = at /\ w'.kind = w.kind /\ w'.asc = w.asc /\ w'.cursor = cursor
          /\ w'.lost = z /\ w'.from = w.from /\ w'.shown = d /\ w'.found = found
      BY <1>1, <2>4, <2>8, <2>8a, <2>10, <3>1, <3>3, PageShape DEF WalkStates
    <3> QED
      BY <3>2 DEF d
  <2>13. agentkeysAuditLogFilters(Stored({"v2", "current"}), w.kind, NoCursor, w.asc)' = stored
    BY <1>7, <2>12 DEF agentkeysAuditLogFilters, Stored
  <2>14. Passing(w.cursor, w.asc)' = Passing(cursor, w.asc)
    <3> HIDE DEF cursor
    <3> QED
      BY <2>12 DEF Passing
  <2> HIDE DEF at, stored, cursor, p, more, found, z
  <2>15. WalkInv(kinds)'
    BY <1>11, <2>7, <2>10, <2>12, <2>13, <2>14 DEF WalkInv
  <2> QED
    BY <1>9, <2>4, <2>12, <2>15
<1> QED
  BY <1>13, <1>14

-----------------------------------------------------------------------------
(* The leaves of a root.                                                   *)

LEMMA QueriedSeq ==
    ASSUME NEW S \in SUBSET AuditLogs, NEW n \in Nat, NEW q \in API_GetLogsForAgentKeys(S, FALSE, n) \cup {<<>>}
    PROVE  q \in Seq(AuditLogs)
<1>1. CASE q = <<>>
  BY <1>1
<1>2. CASE q # <<>>
  BY <1>2, QuerySound
<1> QED
  BY <1>1, <1>2

LEMMA RootLogsTyped ==
    ASSUME NEW merkle, NEW found \in agentkeysAuditRootLogs(merkle)
    PROVE  found \in Seq(AuditLogs)
<1>1. ASSUME NEW e, NEW q \in RootQuery(merkle, e) PROVE q \in Seq(AuditLogs)
  <2> DEFINE S == {l \in Stored({e}) : l.merkle = merkle}
  <2>1. S \in SUBSET AuditLogs
    BY DEF Stored
  <2>2. q \in API_GetLogsForAgentKeys(S, FALSE, 1) \cup {<<>>}
    BY DEF RootQuery
  <2> HIDE DEF S
  <2> QED
    BY <2>1, <2>2, QueriedSeq
<1>3. PICK p \in RootQuery(merkle, "rootCurrent") \X RootQuery(merkle, "rootV2") :
         found = Take(SliceStable(p[1] \o p[2], FALSE), 1)
  BY DEF agentkeysAuditRootLogs
<1> DEFINE current == p[1]
           v2      == p[2]
<1>5. current \in Seq(AuditLogs) /\ v2 \in Seq(AuditLogs)
  BY <1>1
<1>6. current \o v2 \in Seq(AuditLogs)
  BY <1>5
<1>7. SliceStable(current \o v2, FALSE) \in Seq(AuditLogs)
  BY <1>6, StableSorts
<1>8. Take(SliceStable(current \o v2, FALSE), 1) \in Seq(AuditLogs)
  <2> DEFINE t == SliceStable(current \o v2, FALSE)
  <2>1. t \in Seq(AuditLogs)
    BY <1>7
  <2> HIDE DEF t
  <2>2. Take(t, 1) \in Seq(AuditLogs)
    BY <2>1, FirstOf
  <2> QED
    BY <2>2 DEF t
<1> QED
  BY <1>3, <1>8

LEMMA LeafLogsTyped ==
    ASSUME NEW root \in AuditLogs, NEW logs \in LeafLogs(root) \cup {<<>>}
    PROVE  logs \in Seq(AuditLogs)
<1> DEFINE S == {l \in Stored(IF root.event = "rootCurrent" THEN {"current"} ELSE {"v2"}) :
                   l.operator = root.operator /\ Above(root, l)}
           T == {l \in S : root.event = "rootV2" => l.kind \in OpKindTopicsFromBitmap(root.bitmap)}
<1>1. LeafLogs(root) = IF root.count = 0 THEN {<<>>} ELSE API_GetLogsForAgentKeys(T, FALSE, root.count)
  BY DEF LeafLogs
<1>2. T \in SUBSET AuditLogs
  BY DEF Stored
<1> HIDE DEF T
<1> QED
  BY <1>1, <1>2, LogNumbers, QueriedSeq

LEMMA LeavesAre ==
    ASSUME NEW root \in AuditLogs, Faithful(root),
           \A b \in AuditBlocks : b <= root.block => b \in auditStored,
           NEW logs \in LeafLogs(root)
    PROVE  /\ {logs[i] : i \in 1 .. Len(logs)} = Committed(root)
           /\ Apart(logs) /\ Len(logs) = Cardinality(Committed(root))
<1> DEFINE S == {l \in Stored(IF root.event = "rootCurrent" THEN {"current"} ELSE {"v2"}) :
                   l.operator = root.operator /\ Above(root, l)}
           T == {l \in S : root.event = "rootV2" => l.kind \in OpKindTopicsFromBitmap(root.bitmap)}
           C == Committed(root)
<1>1. LeafLogs(root) = IF root.count = 0 THEN {<<>>} ELSE API_GetLogsForAgentKeys(T, FALSE, root.count)
  BY DEF LeafLogs
<1>2. T \in SUBSET AuditLogs /\ C \in SUBSET AuditLogs
  BY DEF Stored, Committed
<1>3. IsFiniteSet(C) /\ root.count = Cardinality(C) /\ Cardinality(C) \in Nat
  BY <1>2, AuditAssumption, FS_Subset, FS_CardinalityType DEF Faithful
<1>4. ASSUME NEW c \in C PROVE c \in T
  <2>1. /\ c \in AuditLogs /\ c.event = (IF root.event = "rootV2" THEN "v2" ELSE "current")
        /\ c.operator = root.operator /\ c.block < root.block
    BY DEF Committed
  <2>2. Above(root, c)
    BY <2>1, LogNumbers DEF Above
  <2>3. c.block \in auditStored
    BY <2>1, LogNumbers
  <2>4. root.event = "rootV2" => c.kind \in OpKindTopicsFromBitmap(root.bitmap)
    BY DEF Faithful
  <2>5. root.event \in {"rootV2", "rootCurrent"}
    BY DEF Faithful
  <2> QED
    BY <2>1, <2>2, <2>3, <2>4, <2>5 DEF Stored
<1>5. ASSUME NEW tie, NEW c \in C, NEW x \in T \ C PROVE <<c, x>> \in Over(tie)
  <2>1. root.event \in {"rootV2", "rootCurrent"}
    BY DEF Faithful
  <2>2. /\ x \in AuditLogs /\ x.event = (IF root.event = "rootV2" THEN "v2" ELSE "current")
        /\ x.operator = root.operator /\ Above(root, x)
    BY <2>1 DEF Stored
  <2>3. x.block # root.block
    BY <2>2 DEF Faithful
  <2>4. x.block < root.block
    BY <2>2, <2>3, LogNumbers DEF Above
  <2>5. PICK r \in AuditLogs : /\ r.event = root.event /\ r.operator = root.operator
                               /\ r.block < root.block /\ ~(x.block > r.block)
    BY <2>2, <2>4 DEF Committed
  <2>6. c \in AuditLogs /\ c.block > r.block
    BY <2>5 DEF Committed
  <2>7. c.block > x.block
    BY <2>2, <2>5, <2>6, LogNumbers
  <2> QED
    BY <2>2, <2>6, <2>7 DEF Over, Above
<1> HIDE DEF T, C
<1>6. CASE root.count = 0
  <2>1. C = {} /\ Cardinality(C) = 0
    BY <1>3, <1>6, FS_EmptySet
  <2>2. logs = <<>>
    BY <1>1, <1>6
  <2> QED
    BY <2>1, <2>2 DEF C, Apart
<1>7. CASE root.count # 0
  <2> DEFINE n == Cardinality(C)
  <2>0. PICK tie \in TieOrders : logs = Take(Asked(T, tie, FALSE), n)
    BY <1>1, <1>3, <1>7 DEF API_GetLogsForAgentKeys, Asked
  <2> DEFINE t == Asked(T, tie, FALSE)
             O == Over(tie)
  <2>1. Along(tie, FALSE) = O
    BY DEF Along
  <2> HIDE DEF O
  <2>2. Sorts(t, T, O) /\ Len(t) = Cardinality(T) /\ IsFiniteSet(T)
    BY <1>2, <2>1, NewestSorts
  <2>3. Orders(O, T)
    BY <1>2, <2>1, OverOrders DEF Orders
  <2> HIDE DEF t
  <2>4. {Take(t, n)[i] : i \in 1 .. Len(Take(t, n))} = C
    <3>1. \A c \in C, x \in T \ C : <<c, x>> \in O
      BY <1>5 DEF O
    <3> QED
      BY <1>3, <1>4, <2>2, <2>3, <3>1, FirstAre
  <2>5. n <= Len(t) /\ Len(t) \in Nat /\ t \in Seq(T)
    <3>1. C \in SUBSET T
      BY <1>4
    <3> QED
      BY <2>2, <3>1, FS_Subset, FS_CardinalityType DEF Sorts
  <2>6. Len(Take(t, n)) = n /\ \A i \in 1 .. n : Take(t, n)[i] = t[i] /\ i \in 1 .. Len(t)
    <3>1. Len(Take(t, n)) = n
      BY <1>3, <2>5, FirstOf
    <3>2. \A i \in 1 .. n : i \in 1 .. Len(t)
      BY <1>3, <2>5
    <3> QED
      BY <1>3, <2>5, <3>1, <3>2, FirstOf
  <2>7. ASSUME NEW i \in 1 .. n, NEW j \in 1 .. n, logs[i] = logs[j] PROVE i = j
    <3>0. logs[i] = t[i] /\ logs[j] = t[j]
      <4>1. logs = Take(t, n)
        BY <2>0 DEF t
      <4> QED
        BY <2>6, <4>1
    <3>1. t[i] = t[j] /\ t[i] \in T /\ i \in 1 .. Len(t) /\ j \in 1 .. Len(t)
      <4>1. i \in 1 .. Len(t) /\ j \in 1 .. Len(t)
        BY <2>6
      <4>2. t[i] = t[j]
        BY <2>7, <3>0
      <4>3. t[i] \in T
        BY <2>5, <4>1
      <4> QED
        BY <4>1, <4>2, <4>3
    <3>2. <<t[i], t[i]>> \notin O
      BY <2>3, <3>1 DEF Orders
    <3>3. (<<t[i], t[j]>> \in O <=> i < j) /\ (<<t[j], t[i]>> \in O <=> j < i)
      BY <2>2, <3>1 DEF Sorts
    <3> HIDE DEF n
    <3> QED
      BY <2>5, <3>1, <3>2, <3>3
  <2>8. logs = Take(t, n)
    BY <2>0 DEF t
  <2>9. Len(logs) = n /\ {logs[i] : i \in 1 .. Len(logs)} = C
    BY <2>4, <2>6, <2>8
  <2>10. Apart(logs)
    BY <2>7, <2>9 DEF Apart
  <2> QED
    BY <2>9, <2>10 DEF C
<1> QED
  BY <1>6, <1>7

LEMMA RootStep ==
    ASSUME EnvelopeInv, RootLeavesExact, NEW merkle, agentkeysAuditRootHandle(merkle)
    PROVE  EnvelopeInv' /\ RootLeavesExact' /\ UNCHANGED <<auditWalk, auditStored>>
<1>0. PICK found \in agentkeysAuditRootLogs(merkle) \ {<<>>} :
      \E logs \in LeafLogs(Head(found)) \cup {<<>>} :
      \E answers \in AllAnswers(logs) :
         LET root == Head(found)
             rows == DecodeTypedAuditRowsBestEffort(logs, answers)
         IN  /\ \A i \in DOMAIN rows : rows[i].ok
             /\ KeepAll(logs, rows, answers)
             /\ rootReply' = [root |-> root.id,
                              whole |-> /\ \A b \in AuditBlocks : b <= root.block => b \in auditStored
                                        /\ logs \in LeafLogs(root),
                              leaves |-> DecodeAuditRootRows(rows)]
  BY Zenon DEF agentkeysAuditRootHandle
<1> DEFINE root == Head(found)
<1>a. PICK logs \in LeafLogs(root) \cup {<<>>} :
      \E answers \in AllAnswers(logs) :
         LET rows == DecodeTypedAuditRowsBestEffort(logs, answers)
         IN  /\ \A i \in DOMAIN rows : rows[i].ok
             /\ KeepAll(logs, rows, answers)
             /\ rootReply' = [root |-> root.id,
                              whole |-> /\ \A b \in AuditBlocks : b <= root.block => b \in auditStored
                                        /\ logs \in LeafLogs(root),
                              leaves |-> DecodeAuditRootRows(rows)]
  BY <1>0, Zenon
<1>b. PICK answers \in AllAnswers(logs) :
         LET rows == DecodeTypedAuditRowsBestEffort(logs, answers)
         IN  /\ \A i \in DOMAIN rows : rows[i].ok
             /\ KeepAll(logs, rows, answers)
             /\ rootReply' = [root |-> root.id,
                              whole |-> /\ \A b \in AuditBlocks : b <= root.block => b \in auditStored
                                        /\ logs \in LeafLogs(root),
                              leaves |-> DecodeAuditRootRows(rows)]
  BY <1>a, Zenon
<1> DEFINE rows == DecodeTypedAuditRowsBestEffort(logs, answers)
<1>1. /\ \A i \in DOMAIN rows : rows[i].ok
      /\ KeepAll(logs, rows, answers)
      /\ rootReply'.root = root.id /\ rootReply'.leaves = DecodeAuditRootRows(rows)
      /\ rootReply'.whole => /\ \A b \in AuditBlocks : b <= root.block => b \in auditStored
                             /\ logs \in LeafLogs(root)
  BY <1>b
<1>2. UNCHANGED <<auditStored, served, client, auditWalk>>
  BY DEF agentkeysAuditRootHandle
<1>3. root \in AuditLogs
  BY RootLogsTyped
<1> HIDE DEF root
<1>3a. logs \in Seq(AuditLogs)
  BY <1>3, LeafLogsTyped
<1>4. ASSUME NEW r \in AuditLogs, r.id = rootReply'.root, Faithful(r), rootReply'.whole
      PROVE  LET leaves == rootReply'.leaves
             IN  /\ ToSet(leaves) = Committed(r) /\ Len(leaves) = Cardinality(Committed(r))
                 /\ \A i, j \in DOMAIN leaves : i < j =>
                      /\ leaves[i].block <= leaves[j].block
                      /\ leaves[i].block = leaves[j].block /\ leaves[i].tx = leaves[j].tx
                           => leaves[i].index < leaves[j].index
  <2> DEFINE t == SliceStable(logs, TRUE)
  <2>1. r = root
    BY <1>1, <1>3, <1>4, AuditAssumption
  <2>2. (\A b \in AuditBlocks : b <= root.block => b \in auditStored) /\ logs \in LeafLogs(root)
    BY <1>1, <1>4
  <2>3. /\ {logs[i] : i \in 1 .. Len(logs)} = Committed(root)
        /\ Apart(logs) /\ Len(logs) = Cardinality(Committed(root))
    BY <1>3, <1>4, <2>1, <2>2, LeavesAre
  <2>4. DOMAIN rows = 1 .. Len(logs) /\ \A i \in 1 .. Len(logs) : rows[i].log = logs[i]
    <3>1. \A i \in DOMAIN logs : rows[i].ok
      BY <1>1 DEF DecodeTypedAuditRowsBestEffort
    <3> QED
      BY <1>3a, <3>1, RowsSound
  <2>5. rootReply'.leaves = t
    <3> HIDE DEF rows
    <3>1. logs = [i \in DOMAIN rows |-> rows[i].log]
      BY <1>3a, <2>4
    <3> QED
      BY <1>1, <3>1 DEF DecodeAuditRootRows
  <2>6. t \in Seq(AuditLogs) /\ Len(t) = Len(logs) /\ Arranges(t, Committed(root), NotAfter(TRUE)) /\ Apart(t)
    BY <1>3a, <2>3, StableSorts
  <2> HIDE DEF t, rows
  <2>7. DOMAIN t = 1 .. Len(t) /\ Len(t) \in Nat /\ \A i \in 1 .. Len(t) : t[i] \in AuditLogs
    BY <2>6
  <2>8. ToSet(t) = Committed(root)
    BY <2>6, <2>7 DEF ToSet, Arranges
  <2>9. ASSUME NEW i \in DOMAIN t, NEW j \in DOMAIN t, i < j
        PROVE  /\ t[i].block <= t[j].block
               /\ t[i].block = t[j].block /\ t[i].tx = t[j].tx => t[i].index < t[j].index
    <3>1. <<t[i], t[j]>> \in NotAfter(TRUE) /\ t[i] \in AuditLogs /\ t[j] \in AuditLogs
      BY <2>6, <2>7, <2>9 DEF Arranges
    <3>2. ~Above(t[i], t[j])
      BY <3>1 DEF NotAfter, Ahead
    <3>3. t[i] # t[j]
      BY <2>6, <2>7, <2>9 DEF Apart
    <3>4. ~(t[i].block = t[j].block /\ t[i].tx = t[j].tx /\ t[i].index = t[j].index)
      BY <3>1, <3>3, AuditAssumption
    <3> QED
      BY <3>1, <3>2, <3>4, LogNumbers DEF Above
  <2> QED
    BY <2>1, <2>3, <2>5, <2>6, <2>8, <2>9
<1>5. RootLeavesExact'
  BY <1>4 DEF RootLeavesExact, Faithful, Committed
<1>6. EnvelopeInv'
  <2>2. /\ cache' \in [DOMAIN cache' -> Bodies] /\ DOMAIN cache \subseteq DOMAIN cache'
        /\ \A h \in DOMAIN cache' : For(h, cache'[h])
    BY <1>1, <1>3a, CacheGrows
  <2>3. \A h \in DOMAIN cache : cache'[h] = cache[h]
    BY <1>1 DEF KeepAll
  <2> QED
    BY <1>2, <2>2, <2>3 DEF EnvelopeInv, EnvelopesKept, For
<1> QED
  BY <1>2, <1>5, <1>6

AuditInv(kinds) == EnvelopeInv /\ WalkInv(kinds) /\ RootLeavesExact

LEMMA WalkKept ==
    ASSUME NEW kinds, WalkInv(kinds), UNCHANGED auditWalk, auditStored \subseteq auditStored'
    PROVE  WalkInv(kinds)'
<1>1. agentkeysAuditLogFilters(Stored({"v2", "current"}), auditWalk.kind, NoCursor, auditWalk.asc)
        \subseteq agentkeysAuditLogFilters(Stored({"v2", "current"}), auditWalk.kind, NoCursor, auditWalk.asc)'
  BY DEF agentkeysAuditLogFilters, Stored
<1>2. Passing(auditWalk.cursor, auditWalk.asc)' = Passing(auditWalk.cursor, auditWalk.asc)
  BY DEF Passing
<1> QED
  BY <1>1, <1>2 DEF WalkInv

LEMMA AuditStep ==
    ASSUME NEW kinds, AuditInv(kinds), [AuditNext]_auditVars
    PROVE  AuditInv(kinds)'
<1> USE DEF AuditInv
<1>1. ASSUME NEW c \in Clients, NEW h \in Hashes, LookUp(c, h) PROVE AuditInv(kinds)'
  BY <1>1, LookUpStep, WalkKept DEF LookUp, RootLeavesExact, Faithful, Committed
<1>2. ASSUME NEW c \in Clients, NEW a \in Answers(client[c].hash), FetchEnvelope(c, a) PROVE AuditInv(kinds)'
  BY <1>2, FetchStep, WalkKept DEF FetchEnvelope, RootLeavesExact, Faithful, Committed
<1>3. ASSUME NEW c \in Clients, KeepEnvelope(c) PROVE AuditInv(kinds)'
  BY <1>3, KeepStep, WalkKept DEF KeepEnvelope, RootLeavesExact, Faithful, Committed
<1>4. ASSUME NEW limit \in 0 .. MaxLimit, agentkeysAuditLogs(limit) PROVE AuditInv(kinds)'
  <2>1. WalkInv(kinds)' /\ auditWalk'.found = auditWalk.found
    BY <1>4, QueryStep
  <2>2. UNCHANGED <<served, cache, client, rootReply>>
    BY <1>4 DEF agentkeysAuditLogs
  <2> QED
    BY <2>1, <2>2 DEF EnvelopeInv, EnvelopesKept, RootLeavesExact, Faithful, Committed
<1>5. CASE agentkeysAuditRowsHandle
  <2>1. UNCHANGED rootReply
    BY <1>5 DEF agentkeysAuditRowsHandle
  <2> QED
    BY <1>5, <2>1, RowsStep DEF RootLeavesExact, Faithful, Committed
<1>6. ASSUME NEW m, agentkeysAuditRootHandle(m) PROVE AuditInv(kinds)'
  BY <1>6, RootStep, WalkKept
<1>7. ASSUME NEW b \in AuditBlocks, StoreLogs(b) PROVE AuditInv(kinds)'
  BY <1>7, WalkKept DEF StoreLogs, EnvelopeInv, EnvelopesKept, RootLeavesExact, Faithful, Committed
<1>8. ASSUME NEW b \in Bodies, WorkerChanges(b) PROVE AuditInv(kinds)'
  BY <1>8, WalkKept DEF WorkerChanges, EnvelopeInv, EnvelopesKept, RootLeavesExact, Faithful, Committed
<1>9. CASE UNCHANGED auditVars
  BY <1>9, WalkKept DEF auditVars, EnvelopeInv, EnvelopesKept, RootLeavesExact, Faithful, Committed
<1> QED
  BY <1>1, <1>2, <1>3, <1>4, <1>5, <1>6, <1>7, <1>8, <1>9 DEF AuditNext, Hashes

LEMMA AuditStart ==
    ASSUME NEW kinds, AuditInit(kinds)
    PROVE  AuditInv(kinds)
<1>1. cache = [h \in {} |-> "none"] /\ DOMAIN cache = {} /\ served = {}
  BY DEF AuditInit
<1>2. client \in [Clients -> ClientStates] /\ \A c \in Clients : client[c].at = "idle"
  BY DEF AuditInit, ClientStates
<1>3. auditWalk \in WalkStates(kinds) /\ auditWalk.at = "start" /\ auditWalk.cursor = NoCursor /\ auditWalk.found = {}
  <2>1. PICK kind \in kinds, asc \in BOOLEAN :
          auditWalk = [at |-> "start", kind |-> kind, asc |-> asc, cursor |-> NoCursor, limit |-> 0,
                       v2 |-> <<>>, missed |-> {}, lost |-> {}, from |-> {}, shown |-> {}, found |-> {}]
    BY DEF AuditInit
  <2> QED
    BY <2>1 DEF WalkStates, NoCursor
<1>4. ~rootReply.whole
  BY DEF AuditInit
<1> QED
  BY <1>1, <1>2, <1>3, <1>4 DEF AuditInv, EnvelopeInv, WalkInv, EnvelopesKept, RootLeavesExact

\* Whatever bodies a worker serves, loses or answers by mistake, and however
\* requests for one hash race, those that name no hash among them: a body is
\* kept only under the hash of its bytes or for no hash, every request is
\* answered the body kept for its hash, and an envelope that a page has shown
\* stays in the cache.
THEOREM EnvelopesAreKept == ASSUME NEW CONSTANT kinds PROVE AuditSpec(kinds) => []EnvelopesKept
<1>1. AuditInit(kinds) => AuditInv(kinds)
  BY AuditStart
<1>2. AuditInv(kinds) /\ [AuditNext]_auditVars => AuditInv(kinds)'
  BY AuditStep
<1>3. AuditInv(kinds) => EnvelopesKept
  BY DEF AuditInv, EnvelopeInv
<1> QED
  BY <1>1, <1>2, <1>3, PTL DEF AuditSpec

\* For any logs the contract has appended, in any order of those that ORDER BY
\* leaves tied, pages of any size in both directions, and blocks stored in any
\* order meanwhile: a walk that reaches its end has shown every row stored when
\* it began but the tied ones and those a failing query kept from it, and the
\* leaves of a faithful root are what it commits to, each once, in an order
\* that is the chain's but for two transactions of one block.
THEOREM AuditIsExact == ASSUME NEW CONSTANT kinds PROVE AuditSpec(kinds) => []AuditExact
<1>1. AuditInit(kinds) => AuditInv(kinds)
  BY AuditStart
<1>2. AuditInv(kinds) /\ [AuditNext]_auditVars => AuditInv(kinds)'
  BY AuditStep
<1>3. AuditInv(kinds) => AuditExact
  BY DEF AuditInv, WalkInv, AuditExact, AuditWalkComplete
<1> QED
  BY <1>1, <1>2, <1>3, PTL DEF AuditSpec

-----------------------------------------------------------------------------
(* The requests of the EVM plugin.                                         *)

\* What the operators of a request mean, when they are well formed.
LEMMA BoundOperators ==
    ASSUME NEW f \in LogRequests
    PROVE  Bound(f).opr = f.opr /\ \A p \in Pairs : f.opr[p] \in {"", "and", "or"}
<1>1. [f EXCEPT !.topic[3] = ""].opr = f.opr
  BY DEF LogRequests
<1>2. f.opr \in [Pairs -> {"", "and", "or"}]
  BY DEF LogRequests
<1> QED
  BY <1>1, <1>2 DEF Bound

LEMMA PairIs ==
    ASSUME NEW i \in Topics, NEW j \in i + 1 .. 3
    PROVE  j \in Topics /\ <<i, j>> \in Pairs /\ <<i, j>>[1] = i /\ <<i, j>>[2] = j
BY DEF Topics, Pairs

LEMMA PairParts ==
    ASSUME NEW p \in Pairs
    PROVE  /\ p[1] \in Topics /\ p[2] \in Topics /\ p[2] \in p[1] + 1 .. 3 /\ p = <<p[1], p[2]>>
BY DEF Topics, Pairs

LEMMA MatchesWanted ==
    ASSUME NEW f, \A p \in Pairs : f.opr[p] \in {"", "and", "or"}, WellFormed(f), NEW S, NEW l \in S
    PROVE  Matches(f, l) <=> l \in Wanted(f, S)
<1> DEFINE has(i)  == ApiLogs[l].topics[i] = f.topic[i]
           outs(i) == i \in Topics /\ f.topic[i] # "" /\ \A p \in EitherPairs(f) : i \notin {p[1], p[2]}
<1>1. \A p \in Pairs : f.opr[p] \in {"", "and", "or"}
  OBVIOUS
<1>2. /\ \A p \in Pairs : f.opr[p] # "" => f.topic[p[1]] # "" /\ f.topic[p[2]] # ""
      /\ \A p, q \in Pairs : f.opr[p] = "or" /\ f.opr[q] # "" /\ p # q => {p[1], p[2]} \cap {q[1], q[2]} = {}
  BY DEF WellFormed, UsedPairs, EitherPairs
<1>3. ASSUME \A i \in Topics : f.topic[i] # "" => Conditions(f, i, l)
      PROVE  /\ \A i \in Topics : outs(i) => has(i)
             /\ \A p \in EitherPairs(f) : has(p[1]) \/ has(p[2])
  <2>1. ASSUME NEW p \in Pairs, f.opr[p] # ""
        PROVE  /\ f.opr[p] = "and" => has(p[1]) /\ has(p[2])
               /\ f.opr[p] = "or" => has(p[1]) \/ has(p[2])
    <3>1. Conditions(f, p[1], l) /\ f.topic[p[2]] # ""
      BY <1>2, <1>3, <2>1, PairParts
    <3>2. p[2] \in p[1] + 1 .. 3 /\ p = <<p[1], p[2]>>
      BY PairParts
    <3> QED
      BY <3>1, <3>2 DEF Conditions
  <2>2. ASSUME NEW i \in Topics, outs(i) PROVE has(i)
    <3>1. CASE Single(f, i)
      BY <1>3, <2>2, <3>1 DEF Conditions
    <3>2. CASE ~Single(f, i)
      <4>1. PICK p \in Pairs : i \in {p[1], p[2]} /\ f.opr[p] # ""
        BY <3>2 DEF Single
      <4>2. f.opr[p] = "and"
        BY <1>1, <2>2, <4>1 DEF EitherPairs
      <4> QED
        BY <2>1, <4>1, <4>2
    <3> QED
      BY <3>1, <3>2
  <2> QED
    BY <2>1, <2>2 DEF EitherPairs
<1>4. ASSUME \A i \in Topics : outs(i) => has(i), \A p \in EitherPairs(f) : has(p[1]) \/ has(p[2]),
             NEW i \in Topics, f.topic[i] # ""
      PROVE  Conditions(f, i, l)
  <2>1. ASSUME NEW j \in i + 1 .. 3, f.topic[j] # "", f.opr[<<i, j>>] = "and"
        PROVE  has(i) /\ has(j)
    <3> DEFINE p == <<i, j>>
    <3>1. p \in Pairs /\ p[1] = i /\ p[2] = j /\ j \in Topics
      BY PairIs
    <3> HIDE DEF p
    <3>2. f.opr[p] = "and"
      BY <2>1 DEF p
    <3>3. \A q \in EitherPairs(f) : i \notin {q[1], q[2]} /\ j \notin {q[1], q[2]}
      <4> SUFFICES ASSUME NEW q \in EitherPairs(f) PROVE i \notin {q[1], q[2]} /\ j \notin {q[1], q[2]}
        OBVIOUS
      <4>1. q \in Pairs /\ f.opr[q] = "or" /\ q # p
        BY <3>2 DEF EitherPairs
      <4>2. {q[1], q[2]} \cap {p[1], p[2]} = {}
        BY <1>2, <3>1, <3>2, <4>1
      <4> QED
        BY <3>1, <4>2
    <3> QED
      BY <1>4, <2>1, <3>1, <3>3
  <2>2. ASSUME NEW j \in i + 1 .. 3, f.opr[<<i, j>>] = "or" PROVE has(i) \/ has(j)
    <3>1. <<i, j>> \in EitherPairs(f) /\ <<i, j>>[1] = i /\ <<i, j>>[2] = j
      BY <2>2, PairIs DEF EitherPairs
    <3> HIDE DEF has
    <3> QED
      BY <1>4, <3>1
  <2>3. ASSUME Single(f, i) PROVE has(i)
    <3>1. \A p \in EitherPairs(f) : i \notin {p[1], p[2]}
      BY <2>3 DEF Single, EitherPairs
    <3> QED
      BY <1>4, <3>1
  <2> QED
    BY <2>1, <2>2, <2>3 DEF Conditions
<1>5. (\A i \in Topics : f.topic[i] # "" => Conditions(f, i, l)) <=>
         /\ \A i \in Topics : outs(i) => has(i)
         /\ \A p \in EitherPairs(f) : has(p[1]) \/ has(p[2])
  <2> HIDE DEF has, outs
  <2> QED
    BY <1>3, <1>4
<1> QED
  BY <1>5 DEF Matches, Wanted

\* The rows a request finds, newest first.
Later == {p \in (DOMAIN ApiLogs) \X (DOMAIN ApiLogs) : p[1] > p[2]}

LEMMA LaterIs ==
    ASSUME NEW a \in DOMAIN ApiLogs, NEW b \in DOMAIN ApiLogs
    PROVE  <<a, b>> \in Later <=> a > b
BY DEF Later

LEMMA NewestLogsSort ==
    ASSUME NEW S \in SUBSET DOMAIN ApiLogs
    PROVE  Sorts(NewestFirst(S), S, Later) /\ Len(NewestFirst(S)) = Cardinality(S)
<1>1. IsFiniteSet(S) /\ S \subseteq Nat
  BY ApiAssumption, FS_Subset
<1>2. Orders(Later, S)
  <2>1. \A a, b \in S : <<a, b>> \in Later <=> a > b
    BY LaterIs
  <2> QED
    BY <1>1, <2>1 DEF Orders
<1>3. NewestFirst(S) = Ranked(S, Later)
  <2> DEFINE B(a)  == {b \in S : b > a}
             B2(a) == {b \in S : <<b, a>> \in Later}
             e(i)  == CHOOSE a \in S : Cardinality(B(a)) = i - 1
             e2(i) == CHOOSE a \in S : Cardinality(B2(a)) = i - 1
  <2>1. ASSUME NEW a \in S PROVE B(a) = B2(a)
    BY LaterIs
  <2>2. NewestFirst(S) = [i \in 1 .. Cardinality(S) |-> e(i)] /\ Ranked(S, Later) = [i \in 1 .. Cardinality(S) |-> e2(i)]
    BY DEF NewestFirst, Ranked
  <2>3. ASSUME NEW i PROVE e(i) = e2(i)
    <3> HIDE DEF B, B2
    <3> QED
      BY <2>1, Zenon
  <2> HIDE DEF e, e2
  <2> QED
    BY <2>2, <2>3
<1> QED
  BY <1>1, <1>2, <1>3, RankedSorts

\* The places that a page shows, of a sequence s.
Least(a, b)  == IF a < b THEN a ELSE b
Places(s, skip, rows) == skip + 1 .. Least(skip + rows, Len(s))

LEMMA PageIs ==
    ASSUME NEW S, NEW s \in Seq(S), NEW skip \in Nat, NEW rows \in Nat
    PROVE  /\ WithLimit(skip, rows, s) \in Seq(S)
           /\ ToSet(WithLimit(skip, rows, s)) = {s[i] : i \in Places(s, skip, rows)}
           /\ WithLimit(skip, rows, s) = <<>> <=> Places(s, skip, rows) = {}
<1> DEFINE n == Least(skip + rows, Len(s))
           w == WithLimit(skip, rows, s)
<1>1. Len(s) \in Nat /\ n \in Nat /\ n <= Len(s) /\ \A i \in 1 .. Len(s) : s[i] \in S
  BY DEF Least
<1>2. w = SubSeq(s, skip + 1, n)
  BY DEF WithLimit, Least
<1> HIDE DEF n, w
<1>3. CASE skip + 1 > n
  <2>1. w = <<>>
    BY <1>1, <1>2, <1>3
  <2>2. Places(s, skip, rows) = {}
    BY <1>1, <1>3 DEF Places, n
  <2> QED
    BY <2>1, <2>2 DEF ToSet, w
<1>4. CASE skip + 1 <= n
  <2>1. w \in Seq(S) /\ Len(w) = n - skip /\ \A i \in 1 .. n - skip : w[i] = s[skip + i]
    BY <1>1, <1>2, <1>4
  <2>2. DOMAIN w = 1 .. n - skip /\ w # <<>>
    BY <1>1, <1>4, <2>1
  <2>3. Places(s, skip, rows) = skip + 1 .. n /\ skip + 1 \in skip + 1 .. n
    BY <1>1, <1>4 DEF Places, n
  <2>4. ToSet(w) \subseteq {s[i] : i \in skip + 1 .. n}
    <3> SUFFICES ASSUME NEW k \in 1 .. n - skip PROVE \E i \in skip + 1 .. n : w[k] = s[i]
      BY <2>2 DEF ToSet
    <3>1. skip + k \in skip + 1 .. n
      BY <1>1
    <3> QED
      BY <2>1, <3>1
  <2>5. ASSUME NEW i \in skip + 1 .. n PROVE s[i] \in ToSet(w)
    <3>1. i - skip \in 1 .. n - skip /\ w[i - skip] = s[skip + (i - skip)] /\ skip + (i - skip) = i
      BY <1>1, <2>1
    <3> QED
      BY <2>2, <3>1 DEF ToSet
  <2> QED
    BY <2>1, <2>2, <2>3, <2>4, <2>5 DEF w
<1> QED
  BY <1>1, <1>3, <1>4

\* All but the newest are behind the first place.
LEMMA AllButNewest ==
    ASSUME NEW S \in SUBSET DOMAIN ApiLogs, NEW n \in Nat, n >= Cardinality(S)
    PROVE  {NewestFirst(S)[i] : i \in 2 .. Least(n, Len(NewestFirst(S)))} = S \ {l \in S : \A k \in S : k <= l}
<1> DEFINE s == NewestFirst(S)
<1>1. Sorts(s, S, Later) /\ Len(s) = Cardinality(S)
  BY NewestLogsSort
<1>2. s \in Seq(S) /\ Len(s) \in Nat /\ \A i \in 1 .. Len(s) : s[i] \in S
  BY <1>1 DEF Sorts
<1>3. S \subseteq Nat
  BY ApiAssumption
<1> HIDE DEF s
<1>4. Least(n, Len(s)) = Len(s)
  BY <1>1, <1>2 DEF Least
<1>5. \A i, j \in 1 .. Len(s) : s[i] > s[j] <=> i < j
  <2> SUFFICES ASSUME NEW i \in 1 .. Len(s), NEW j \in 1 .. Len(s) PROVE s[i] > s[j] <=> i < j
    OBVIOUS
  <2>1. <<s[i], s[j]>> \in Later <=> i < j
    BY <1>1 DEF Sorts
  <2> QED
    BY <1>2, <2>1, LaterIs
<1>6. ASSUME NEW i \in 2 .. Len(s) PROVE s[i] \in S /\ ~ \A k \in S : k <= s[i]
  <2>1. i \in 1 .. Len(s) /\ 1 \in 1 .. Len(s) /\ s[1] > s[i] /\ s[1] \in S /\ s[i] \in S
    BY <1>2, <1>5
  <2> QED
    BY <1>3, <2>1
<1>7. ASSUME NEW l \in S, NEW k \in S, ~(k <= l) PROVE \E i \in 2 .. Len(s) : s[i] = l
  <2>1. PICK i \in 1 .. Len(s) : s[i] = l
    BY <1>1 DEF Sorts
  <2>2. PICK j \in 1 .. Len(s) : s[j] = k
    BY <1>1 DEF Sorts
  <2>3. j < i
    BY <1>3, <1>5, <1>7, <2>1, <2>2
  <2> QED
    BY <1>2, <2>1, <2>3
<1> QED
  BY <1>4, <1>6, <1>7 DEF s

-----------------------------------------------------------------------------
\* The balances of one answer.
LEMMA HighestPlace ==
    ASSUME NEW I, IsFiniteSet(I), I \subseteq Nat, NEW i \in I
    PROVE  \E k \in I : \A j \in I : j <= k
<1> DEFINE R  == {p \in I \X I : p[1] > p[2]}
           s  == Ranked(I, R)
<1>1. \A a, b \in I : <<a, b>> \in R <=> a > b
  OBVIOUS
<1>2. Orders(R, I)
  BY <1>1 DEF Orders
<1> HIDE DEF R
<1>3. Sorts(s, I, R)
  BY <1>2, RankedSorts
<1> HIDE DEF s
<1>4. PICK n \in 1 .. Len(s) : s[n] = i
  BY <1>3 DEF Sorts
<1>5. s \in Seq(I) /\ 1 \in 1 .. Len(s) /\ s[1] \in I
  BY <1>3, <1>4 DEF Sorts
<1>6. ASSUME NEW j \in I PROVE j <= s[1]
  <2>1. PICK m \in 1 .. Len(s) : s[m] = j
    BY <1>3 DEF Sorts
  <2>2. <<s[m], s[1]>> \in R <=> m < 1
    BY <1>3, <1>5 DEF Sorts
  <2>3. m \in Int /\ 1 <= m
    BY <1>5
  <2>4. j \in Nat /\ s[1] \in Nat
    BY <1>5
  <2>5. <<j, s[1]>> \in R <=> j > s[1]
    BY <1>1, <1>5
  <2> QED
    BY <2>1, <2>2, <2>3, <2>4, <2>5
<1> QED
  BY <1>5, <1>6

LEMMA BalancesSound ==
    ASSUME NEW asked \in AddressLists, NEW failed, NEW i \in DOMAIN balancemulti(asked, failed),
           NEW b, b = balancemulti(asked, failed)
    PROVE  /\ b[i] # "node" => i \in failed
           /\ b[i] = "zero" /\ Account(asked[i]) \in Holders =>
                \E j \in DOMAIN asked : j > i /\ Account(asked[j]) = Account(asked[i]) /\ asked[j] # asked[i]
<1> DEFINE last(n)     == CHOOSE k \in DOMAIN asked :
                             /\ Account(asked[k]) = n
                             /\ \A j \in DOMAIN asked : Account(asked[j]) = n => j <= k
           answered(a) == \E k \in DOMAIN asked \ failed : asked[k] = a
           value(k)    == CASE answered(asked[k]) -> "node"
                            [] ~answered(asked[k]) /\ Account(asked[k]) \in Holders
                                 /\ asked[last(Account(asked[k]))] = asked[k] -> "row"
                            [] OTHER -> "zero"
<1>1. i \in DOMAIN asked /\ b[i] = value(i)
  <2>1. CASE \E k \in DOMAIN asked : Account(asked[k]) = Malformed
    BY <2>1 DEF balancemulti
  <2>2. CASE ~ \E k \in DOMAIN asked : Account(asked[k]) = Malformed
    <3>1. b = API_GetAccounts(asked, failed)
      BY <2>2 DEF balancemulti
    <3>2. b = [k \in DOMAIN asked |-> value(k)]
      BY <3>1 DEF API_GetAccounts
    <3> HIDE DEF value
    <3> QED
      BY <3>2
  <2> QED
    BY <2>1, <2>2
<1>2. IsFiniteSet(DOMAIN asked) /\ DOMAIN asked \subseteq Nat
  BY ApiAssumption
<1>3. ASSUME b[i] # "node" PROVE i \in failed
  <2>1. ~answered(asked[i])
    BY <1>1, <1>3
  <2> QED
    BY <1>1, <2>1
<1>4. ASSUME b[i] = "zero", Account(asked[i]) \in Holders
      PROVE  \E j \in DOMAIN asked : j > i /\ Account(asked[j]) = Account(asked[i]) /\ asked[j] # asked[i]
  <2> DEFINE n == Account(asked[i])
             I == {k \in DOMAIN asked : Account(asked[k]) = n}
  <2>1. IsFiniteSet(I) /\ I \subseteq Nat /\ i \in I
    BY <1>1, <1>2, FS_Subset
  <2>2. \E k \in I : \A j \in I : j <= k
    <3> HIDE DEF I
    <3> QED
      BY <2>1, HighestPlace
  <2>3. last(n) \in I /\ \A j \in I : j <= last(n)
    <3>1. \E k \in DOMAIN asked : Account(asked[k]) = n /\ \A j \in DOMAIN asked : Account(asked[j]) = n => j <= k
      BY <2>2
    <3>2. /\ last(n) \in DOMAIN asked /\ Account(asked[last(n)]) = n
          /\ \A j \in DOMAIN asked : Account(asked[j]) = n => j <= last(n)
      <4> HIDE DEF n
      <4> QED
        BY <3>1
    <3> QED
      BY <3>2
  <2> HIDE DEF last
  <2>4. asked[last(n)] # asked[i]
    BY <1>1, <1>4
  <2>5. last(n) \in Nat /\ i \in Nat /\ i <= last(n) /\ i # last(n)
    BY <2>1, <2>3, <2>4
  <2>6. last(n) \in DOMAIN asked /\ Account(asked[last(n)]) = n
    BY <2>3
  <2> QED
    BY <2>4, <2>5, <2>6
<1> QED
  BY <1>3, <1>4

-----------------------------------------------------------------------------
\* The indexer writes the tables in the order of Stages.
ComesAfter(e, s) == \E i, j \in 1 .. 4 : Stages[i] = s /\ Stages[j] = e /\ i <= j

StageNames == {"none", "receipts", "transactions", "row"}

LEMMA StageOrder ==
    ASSUME NEW e \in StageNames
    PROVE  /\ ComesAfter(e, "receipts") <=> e # "none"
           /\ ComesAfter(e, "transactions") <=> e \in {"transactions", "row"}
           /\ ComesAfter(e, "row") <=> e = "row"
<1>1. Stages[1] = "none" /\ Stages[2] = "receipts" /\ Stages[3] = "transactions" /\ Stages[4] = "row"
  BY DEF Stages
<1>2. \A i \in 1 .. 4 : i = 1 \/ i = 2 \/ i = 3 \/ i = 4
  OBVIOUS
<1>3. 1 \in 1 .. 4 /\ 2 \in 1 .. 4 /\ 3 \in 1 .. 4 /\ 4 \in 1 .. 4
  OBVIOUS
<1>4. \A i \in 1 .. 4 : /\ Stages[i] = "receipts" <=> i = 2
                        /\ Stages[i] = "transactions" <=> i = 3
                        /\ Stages[i] = "row" <=> i = 4
                        /\ Stages[i] = "none" <=> i = 1
  BY <1>1, <1>2
<1>5. PICK k \in 1 .. 4 : Stages[k] = e
  BY <1>1, <1>3 DEF StageNames
<1>6. \A j \in 1 .. 4 : Stages[j] = e <=> j = k
  BY <1>1, <1>2, <1>5
<1>7. /\ ComesAfter(e, "receipts") <=> 2 <= k
      /\ ComesAfter(e, "transactions") <=> 3 <= k
      /\ ComesAfter(e, "row") <=> 4 <= k
  BY <1>3, <1>4, <1>6 DEF ComesAfter
<1> QED
  BY <1>1, <1>2, <1>5, <1>7

StagesTyped == evmStage \in [ApiBlocks -> StageNames]

LEMMA StagesGrow ==
    ASSUME StagesTyped, NEW b \in ApiBlocks, StoreStage(b)
    PROVE  /\ StagesTyped'
           /\ \A n \in ApiBlocks : /\ Reached(n, "receipts") => Reached(n, "receipts")'
                                   /\ Reached(n, "row") => Reached(n, "row")'
<1>1. PICK i \in 1 .. 3 : evmStage[b] = Stages[i] /\ evmStage' = [evmStage EXCEPT ![b] = Stages[i + 1]]
  BY DEF StoreStage
<1>2. Stages[1] = "none" /\ Stages[2] = "receipts" /\ Stages[3] = "transactions" /\ Stages[4] = "row"
  BY DEF Stages
<1>3. i = 1 \/ i = 2 \/ i = 3
  OBVIOUS
<1>4. Stages[i + 1] \in StageNames \ {"none"} /\ Stages[i] # "row"
  BY <1>2, <1>3 DEF StageNames
<1>5. StagesTyped'
  BY <1>1, <1>4 DEF StagesTyped
<1>6. ASSUME NEW n \in ApiBlocks
      PROVE  /\ Reached(n, "receipts") => Reached(n, "receipts")'
             /\ Reached(n, "row") => Reached(n, "row")'
  <2>1. evmStage[n] \in StageNames /\ evmStage'[n] \in StageNames
    BY <1>5 DEF StagesTyped
  <2>2. evmStage'[n] = IF n = b THEN Stages[i + 1] ELSE evmStage[n]
    BY <1>1 DEF StagesTyped
  <2>3. /\ Reached(n, "receipts") <=> ComesAfter(evmStage[n], "receipts")
        /\ Reached(n, "row") <=> ComesAfter(evmStage[n], "row")
        /\ Reached(n, "receipts")' <=> ComesAfter(evmStage'[n], "receipts")
        /\ Reached(n, "row")' <=> ComesAfter(evmStage'[n], "row")
    BY DEF Reached, ComesAfter
  <2> QED
    BY <1>1, <1>4, <2>1, <2>2, <2>3, StageOrder
<1> QED
  BY <1>5, <1>6

-----------------------------------------------------------------------------
\* The request under way.
CallFields(c) ==
    c = [at |-> c.at, kind |-> c.kind, block |-> c.block, filter |-> c.filter, page |-> c.page,
         offset |-> c.offset, stored |-> c.stored, rows |-> c.rows, hashed |-> c.hashed,
         priced |-> c.priced, shown |-> c.shown, answer |-> c.answer, asked |-> c.asked,
         failed |-> c.failed, balances |-> c.balances]

FoundLogs(c) == {l \in c.stored : Matches(Bound(c.filter), l)}
Listed(c)    == NewestFirst(FoundLogs(c))
PageRows(c)  == IF c.offset = 0 THEN MaxRows ELSE c.offset

LogsCall(c) ==
    c.kind = "getLogs" =>
        /\ c.filter \in LogFilters /\ c.page \in Nat \ {0} /\ c.offset \in Nat
        /\ c.offset = 0 => c.page = 1
        /\ c.stored \in SUBSET DOMAIN ApiLogs
        /\ c.rows = WithLimit(c.page, PageRows(c), Listed(c))
        /\ c.shown = {Listed(c)[i] : i \in 2 .. Least(c.page + PageRows(c), Len(Listed(c)))}

TablesInOrder(c) ==
    c.kind = "getLogs" =>
        /\ \A l \in c.stored : Reached(ApiLogs[l].block, "receipts")
        /\ c.at = "gas" => c.hashed \subseteq {l \in ToSet(c.rows) : Reached(ApiLogs[l].block, "row")}
        /\ c.at = "answered" => c.hashed \subseteq c.priced

LEMMA NoCallShape ==
    CallFields(NoCall) /\ NoCall.at = "idle" /\ NoCall.kind = "none" /\ NoCall.balances = <<>>
BY DEF NoCall, CallFields

LEMMA ListedSorts ==
    ASSUME NEW c, c.stored \in SUBSET DOMAIN ApiLogs
    PROVE  /\ FoundLogs(c) \in SUBSET DOMAIN ApiLogs /\ Listed(c) \in Seq(DOMAIN ApiLogs)
           /\ Sorts(Listed(c), FoundLogs(c), Later) /\ Len(Listed(c)) = Cardinality(FoundLogs(c))
           /\ Len(Listed(c)) \in Nat /\ \A i \in 1 .. Len(Listed(c)) : Listed(c)[i] \in FoundLogs(c)
<1>1. FoundLogs(c) \in SUBSET DOMAIN ApiLogs
  BY DEF FoundLogs
<1> DEFINE s == Listed(c)
           F == FoundLogs(c)
<1>2. Sorts(s, F, Later) /\ Len(s) = Cardinality(F)
  BY <1>1, NewestLogsSort DEF Listed
<1> HIDE DEF s, F
<1>3. s \in Seq(F)
  BY <1>2 DEF Sorts
<1>4. F \in SUBSET DOMAIN ApiLogs
  BY <1>1 DEF F
<1>5. s \in Seq(DOMAIN ApiLogs) /\ Len(s) \in Nat /\ \A i \in 1 .. Len(s) : s[i] \in F
  BY <1>3, <1>4
<1> QED
  BY <1>1, <1>2, <1>5 DEF s, F

LEMMA GetLogsIs ==
    ASSUME NEW c, NEW n \in Nat \ {0}
    PROVE  getLogs(c.filter, n, c.offset, c.stored) =
               IF c.offset = 0 THEN WithLimit(1, MaxRows, Listed(c)) ELSE WithLimit(n, c.offset, Listed(c))
<1>1. {"id", "block_num", "method_hash", "topic1", "topic2", "topic3"} \subseteq ReceiptColumns
  BY DEF ReceiptColumns
<1>2. Find(ReceiptColumns, {"id", "block_num", "method_hash", "topic1", "topic2", "topic3"},
           {l \in c.stored : Matches(Bound(c.filter), l)}) = FoundLogs(c)
  BY <1>1 DEF Find, FoundLogs
<1>3. n # 0
  OBVIOUS
<1> QED
  BY <1>2, <1>3 DEF getLogs, Listed

\* What a page adds to what has been shown.
LEMMA PagesJoin ==
    ASSUME NEW n \in Nat, NEW p \in Nat \ {0}, NEW o \in Nat \ {0}
    PROVE  (2 .. Least(p + o, n)) \cup (p + 2 .. Least((p + 1) + o, n)) = 2 .. Least((p + 1) + o, n)
BY DEF Least

LEMMA AskLogsStep ==
    ASSUME NEW f \in LogFilters, NEW o \in Offsets, AskLogs(f, 1, o)
    PROVE  CallFields(call') /\ LogsCall(call') /\ TablesInOrder(call)' /\ call'.balances = <<>> /\ UNCHANGED evmStage
<1> DEFINE rows == getLogs(f, 1, o, LogsStored)
           c    == call'
<1>1. c = [NoCall EXCEPT !.at = "hashes", !.kind = "getLogs", !.filter = f, !.page = 1,
                      !.offset = o, !.stored = LogsStored, !.rows = rows, !.shown = ToSet(rows)]
  BY DEF AskLogs
<1> HIDE DEF rows, c
<1>2. /\ CallFields(c) /\ c.at = "hashes" /\ c.kind = "getLogs" /\ c.filter = f /\ c.page = 1
      /\ c.offset = o /\ c.stored = LogsStored /\ c.rows = rows /\ c.shown = ToSet(rows) /\ c.balances = <<>>
  BY <1>1 DEF NoCall, CallFields
<1>3. o \in Nat
  BY ApiAssumption
<1>4. c.stored \in SUBSET DOMAIN ApiLogs /\ \A l \in c.stored : Reached(ApiLogs[l].block, "receipts")
  BY <1>2 DEF LogsStored
<1>5. rows = WithLimit(1, PageRows(c), Listed(c))
  BY <1>2, GetLogsIs DEF rows, PageRows
<1>6. PageRows(c) \in Nat
  BY <1>2, <1>3 DEF PageRows, MaxRows
<1>7. ToSet(rows) = {Listed(c)[i] : i \in 2 .. Least(1 + PageRows(c), Len(Listed(c)))}
  <2>1. Listed(c) \in Seq(DOMAIN ApiLogs)
    BY <1>4, ListedSorts
  <2>2. ToSet(rows) = {Listed(c)[i] : i \in Places(Listed(c), 1, PageRows(c))}
    BY <1>5, <1>6, <2>1, PageIs
  <2> QED
    BY <2>2 DEF Places
<1>8. LogsCall(c)
  BY <1>2, <1>3, <1>4, <1>5, <1>7 DEF LogsCall
<1>9. UNCHANGED evmStage
  BY DEF AskLogs
<1>10. TablesInOrder(call)'
  BY <1>2, <1>4, <1>9 DEF TablesInOrder, c, Reached
<1> QED
  BY <1>2, <1>8, <1>9, <1>10 DEF c

LEMMA NextLogsStep ==
    ASSUME CallFields(call), LogsCall(call), TablesInOrder(call), BalancesExact, NextLogs
    PROVE  CallFields(call') /\ LogsCall(call') /\ TablesInOrder(call)' /\ BalancesExact' /\ UNCHANGED evmStage
<1> DEFINE rows == getLogs(call.filter, call.page + 1, call.offset, LogsStored)
           c    == call'
           d    == call
<1>1. /\ d.at = "answered" /\ d.kind = "getLogs" /\ d.offset > 0 /\ d.rows # <<>> /\ d.stored = LogsStored
      /\ UNCHANGED evmStage
      /\ c = [d EXCEPT !.at = "hashes", !.page = @ + 1, !.rows = rows,
                      !.shown = @ \cup ToSet(rows), !.hashed = {}, !.priced = {}]
  BY DEF NextLogs
<1>2. LogsCall(d) /\ CallFields(d)
  OBVIOUS
<1>3. TablesInOrder(d)
  OBVIOUS
<1> HIDE DEF c, d
<1>4. rows = getLogs(d.filter, d.page + 1, d.offset, d.stored)
  BY <1>1 DEF d
<1> HIDE DEF rows
<1> DEFINE shown == d.shown \cup ToSet(rows)
<1>5. c = [d EXCEPT !.at = "hashes", !.page = @ + 1, !.rows = rows, !.shown = shown, !.hashed = {}, !.priced = {}]
  BY <1>1, <1>2 DEF CallFields
<1> HIDE DEF shown
<1>6. /\ CallFields(c) /\ c.at = "hashes" /\ c.kind = d.kind /\ c.filter = d.filter /\ c.page = d.page + 1
      /\ c.offset = d.offset /\ c.stored = d.stored /\ c.rows = rows /\ c.shown = shown
      /\ c.balances = d.balances /\ c.asked = d.asked /\ c.failed = d.failed
  BY <1>2, <1>5 DEF CallFields
<1>7. /\ d.filter \in LogFilters /\ d.page \in Nat \ {0} /\ d.offset \in Nat \ {0}
      /\ d.stored \in SUBSET DOMAIN ApiLogs
      /\ d.shown = {Listed(d)[i] : i \in 2 .. Least(d.page + PageRows(d), Len(Listed(d)))}
  BY <1>1, <1>2 DEF LogsCall
<1>8. Listed(c) = Listed(d) /\ PageRows(c) = d.offset /\ PageRows(d) = d.offset
  BY <1>6, <1>7 DEF Listed, FoundLogs, PageRows
<1>9. d.page + 1 \in Nat \ {0}
  BY <1>7
<1>10. rows = WithLimit(d.page + 1, d.offset, Listed(d))
  BY <1>4, <1>7, <1>9, GetLogsIs
<1> DEFINE s == Listed(d)
<1>11. s \in Seq(DOMAIN ApiLogs) /\ Len(s) \in Nat
  BY <1>7, ListedSorts
<1>12. ToSet(rows) = {s[i] : i \in (d.page + 1) + 1 .. Least((d.page + 1) + d.offset, Len(s))}
  <2> DEFINE p == d.page + 1
             n == d.offset
  <2>1. p \in Nat /\ n \in Nat
    BY <1>7, <1>9
  <2> HIDE DEF s, p, n
  <2>2. ToSet(WithLimit(p, n, s)) = {s[i] : i \in Places(s, p, n)}
    BY ZenonT(60), <1>11, <2>1, PageIs
  <2> QED
    BY <1>10, <2>2 DEF Places, s, p, n
<1>13. shown = {s[i] : i \in 2 .. Least((d.page + 1) + d.offset, Len(s))}
  <2> HIDE DEF s
  <2> DEFINE A == 2 .. Least(d.page + d.offset, Len(s))
             B == (d.page + 1) + 1 .. Least((d.page + 1) + d.offset, Len(s))
             C == 2 .. Least((d.page + 1) + d.offset, Len(s))
  <2>1. A \cup B = C
    <3>1. (d.page + 1) + 1 = d.page + 2
      BY <1>7
    <3> QED
      BY <1>7, <1>11, <3>1, PagesJoin
  <2>2. d.shown = {s[i] : i \in A} /\ ToSet(rows) = {s[i] : i \in B}
    BY <1>7, <1>8, <1>12 DEF s
  <2> HIDE DEF A, B, C
  <2>3. shown = {s[i] : i \in C}
    BY <2>1, <2>2 DEF shown
  <2> QED
    BY <2>3 DEF C
<1>14. LogsCall(c)
  BY <1>6, <1>7, <1>8, <1>9, <1>10, <1>13 DEF LogsCall
<1>15. TablesInOrder(call)'
  BY <1>1, <1>3, <1>6 DEF TablesInOrder, Reached, c
<1>16. BalancesExact'
  BY <1>6 DEF BalancesExact, c, d
<1> QED
  BY <1>1, <1>6, <1>14, <1>15, <1>16 DEF c

LEMMA ReadHashesStep ==
    ASSUME CallFields(call), LogsCall(call), TablesInOrder(call), BalancesExact, ReadHashes
    PROVE  CallFields(call') /\ LogsCall(call') /\ TablesInOrder(call)' /\ BalancesExact' /\ UNCHANGED evmStage
<1> DEFINE h == {l \in ToSet(call.rows) : Reached(ApiLogs[l].block, "row")}
           c == call'
           d == call
<1>1. d.at = "hashes" /\ UNCHANGED evmStage /\ c = [d EXCEPT !.at = "gas", !.hashed = h]
  BY DEF ReadHashes
<1>2. LogsCall(d) /\ CallFields(d) /\ TablesInOrder(d)
  OBVIOUS
<1>3. h = {l \in ToSet(d.rows) : Reached(ApiLogs[l].block, "row")}
  OBVIOUS
<1> HIDE DEF c, d, h
<1>4. /\ CallFields(c) /\ c.at = "gas" /\ c.kind = d.kind /\ c.filter = d.filter /\ c.page = d.page
      /\ c.offset = d.offset /\ c.stored = d.stored /\ c.rows = d.rows /\ c.shown = d.shown
      /\ c.hashed = h /\ c.balances = d.balances /\ c.asked = d.asked /\ c.failed = d.failed
  BY <1>1, <1>2 DEF CallFields
<1>5. LogsCall(c)
  BY <1>2, <1>4 DEF LogsCall, Listed, FoundLogs, PageRows
<1>6. TablesInOrder(call)'
  BY ZenonT(60), <1>1, <1>2, <1>3, <1>4 DEF TablesInOrder, Reached, c
<1>7. BalancesExact'
  BY <1>4 DEF BalancesExact, c, d
<1> QED
  BY <1>1, <1>4, <1>5, <1>6, <1>7 DEF c

LEMMA ReadGasStep ==
    ASSUME StagesTyped, CallFields(call), LogsCall(call), TablesInOrder(call), BalancesExact, ReadGas
    PROVE  CallFields(call') /\ LogsCall(call') /\ TablesInOrder(call)' /\ BalancesExact' /\ UNCHANGED evmStage
<1> DEFINE g == {l \in ToSet(call.rows) : Reached(ApiLogs[l].block, "transactions")}
           a == IF call.rows = <<>> THEN NoRecords ELSE Ok({"logs"})
           c == call'
           d == call
<1>1. d.at = "gas" /\ UNCHANGED evmStage /\ c = [d EXCEPT !.at = "answered", !.priced = g, !.answer = a]
  BY DEF ReadGas
<1>2. LogsCall(d) /\ CallFields(d) /\ TablesInOrder(d)
  OBVIOUS
<1>3. g = {l \in ToSet(d.rows) : Reached(ApiLogs[l].block, "transactions")}
  OBVIOUS
<1> HIDE DEF c, d, g, a
<1>4. /\ CallFields(c) /\ c.at = "answered" /\ c.kind = d.kind /\ c.filter = d.filter /\ c.page = d.page
      /\ c.offset = d.offset /\ c.stored = d.stored /\ c.rows = d.rows /\ c.shown = d.shown
      /\ c.hashed = d.hashed /\ c.priced = g
      /\ c.balances = d.balances /\ c.asked = d.asked /\ c.failed = d.failed
  BY <1>1, <1>2 DEF CallFields
<1>5. LogsCall(c)
  BY <1>2, <1>4 DEF LogsCall, Listed, FoundLogs, PageRows
<1>6. ASSUME c.kind = "getLogs" PROVE d.hashed \subseteq g
  <2> SUFFICES ASSUME NEW l \in d.hashed PROVE l \in g
    OBVIOUS
  <2>1. l \in ToSet(d.rows) /\ Reached(ApiLogs[l].block, "row")
    BY <1>1, <1>2, <1>4, <1>6 DEF TablesInOrder
  <2>2. l \in DOMAIN ApiLogs
    <3>1. d.stored \in SUBSET DOMAIN ApiLogs /\ d.rows = WithLimit(d.page, PageRows(d), Listed(d))
          /\ d.page \in Nat /\ PageRows(d) \in Nat
      BY <1>2, <1>4, <1>6 DEF LogsCall, PageRows, MaxRows
    <3>2. Listed(d) \in Seq(DOMAIN ApiLogs)
      BY <3>1, ListedSorts
    <3> DEFINE s == Listed(d)
               n == PageRows(d)
               p == d.page
    <3>3. d.rows = WithLimit(p, n, s) /\ s \in Seq(DOMAIN ApiLogs) /\ p \in Nat /\ n \in Nat
      BY <3>1, <3>2
    <3> HIDE DEF s, n, p
    <3>4. d.rows \in Seq(DOMAIN ApiLogs)
      BY <3>3, PageIs
    <3> QED
      BY <2>1, <3>4 DEF ToSet
  <2>3. evmStage[ApiLogs[l].block] \in StageNames
    BY <2>2, ApiAssumption DEF StagesTyped
  <2>4. Reached(ApiLogs[l].block, "transactions")
    BY <2>1, <2>3, StageOrder DEF Reached, ComesAfter
  <2> QED
    BY <1>3, <2>1, <2>4
<1>7. TablesInOrder(call)'
  BY <1>1, <1>2, <1>4, <1>6 DEF TablesInOrder, Reached, c
<1>8. BalancesExact'
  BY <1>4 DEF BalancesExact, c, d
<1> QED
  BY <1>1, <1>4, <1>5, <1>7, <1>8 DEF c

\* A request that is answered at once.
LEMMA AskBalancesStep ==
    ASSUME NEW a \in AddressLists, NEW failed, AskBalances(a, failed)
    PROVE  CallFields(call') /\ LogsCall(call') /\ TablesInOrder(call)' /\ BalancesExact' /\ UNCHANGED evmStage
<1> DEFINE b == balancemulti(a, failed)
           c == call'
<1>1. /\ c = [NoCall EXCEPT !.at = "answered", !.kind = "balancemulti", !.asked = a, !.failed = failed, !.balances = b]
      /\ UNCHANGED evmStage
  BY DEF AskBalances
<1> HIDE DEF c, b
<1>2. CallFields(c) /\ c.kind = "balancemulti" /\ c.asked = a /\ c.failed = failed /\ c.balances = b
  BY <1>1 DEF NoCall, CallFields
<1>3. BalancesExact'
  <2>1. ASSUME NEW i \in DOMAIN c.balances
        PROVE  /\ c.balances[i] # "node" => i \in c.failed
               /\ c.balances[i] = "zero" /\ Account(c.asked[i]) \in Holders =>
                    \E j \in DOMAIN c.asked : j > i /\ Account(c.asked[j]) = Account(c.asked[i])
                                              /\ c.asked[j] # c.asked[i]
    <3>1. b = balancemulti(a, failed) /\ i \in DOMAIN balancemulti(a, failed)
      BY <1>2 DEF b
    <3>2. /\ b[i] # "node" => i \in failed
          /\ b[i] = "zero" /\ Account(a[i]) \in Holders =>
               \E j \in DOMAIN a : j > i /\ Account(a[j]) = Account(a[i]) /\ a[j] # a[i]
      BY <3>1, BalancesSound
    <3> QED
      BY <1>2, <3>2
  <2> QED
    BY <2>1 DEF BalancesExact, c
<1>4. LogsCall(c) /\ TablesInOrder(call)'
  BY <1>2 DEF LogsCall, TablesInOrder, c
<1> QED
  BY <1>1, <1>2, <1>3, <1>4 DEF c

LEMMA AskLookupStep ==
    ASSUME NEW kind \in Lookups, NEW b, NEW coded, AskLookup(kind, b, coded)
    PROVE  CallFields(call') /\ LogsCall(call') /\ TablesInOrder(call)' /\ BalancesExact' /\ UNCHANGED evmStage
<1> DEFINE a == Lookup(kind, b, coded)
           c == call'
<1>1. /\ c = [NoCall EXCEPT !.at = "answered", !.kind = kind, !.block = b, !.answer = a]
      /\ UNCHANGED evmStage
  BY DEF AskLookup
<1> HIDE DEF c, a
<1>2. CallFields(c) /\ c.kind = kind /\ c.balances = <<>>
  BY <1>1 DEF NoCall, CallFields
<1>3. kind # "getLogs"
  BY DEF Lookups
<1>4. BalancesExact'
  <2>1. DOMAIN call'.balances = {}
    BY <1>2 DEF c
  <2> QED
    BY <2>1 DEF BalancesExact
<1>5. LogsCall(c) /\ TablesInOrder(call)'
  BY <1>2, <1>3 DEF LogsCall, TablesInOrder, c
<1> QED
  BY <1>1, <1>2, <1>4, <1>5 DEF c

LEMMA NoCallHolds ==
    CallFields(NoCall) /\ LogsCall(NoCall) /\ TablesInOrder(NoCall) /\ (call = NoCall => BalancesExact)
<1>1. CallFields(NoCall) /\ NoCall.kind = "none" /\ NoCall.balances = <<>> /\ DOMAIN NoCall.balances = {}
  BY NoCallShape
<1> QED
  BY <1>1 DEF LogsCall, TablesInOrder, BalancesExact

ApiInv == StagesTyped /\ CallFields(call) /\ LogsCall(call) /\ TablesInOrder(call) /\ BalancesExact

LEMMA ApiStep == ApiInv /\ [ApiNext]_apiVars => ApiInv'
<1> SUFFICES ASSUME ApiInv, [ApiNext]_apiVars PROVE ApiInv'
  OBVIOUS
<1> USE DEF ApiInv
<1>1. ASSUME NEW b \in ApiBlocks, StoreStage(b) PROVE ApiInv'
  <2>1. /\ StagesTyped'
        /\ \A n \in ApiBlocks : /\ Reached(n, "receipts") => Reached(n, "receipts")'
                                /\ Reached(n, "row") => Reached(n, "row")'
    BY <1>1, StagesGrow
  <2>2. UNCHANGED call
    BY <1>1 DEF StoreStage
  <2>3. CallFields(call') /\ LogsCall(call') /\ BalancesExact'
    BY <2>2 DEF BalancesExact
  <2>4. TablesInOrder(call)'
    <3> SUFFICES ASSUME call.kind = "getLogs" PROVE TablesInOrder(call)'
      BY <2>2 DEF TablesInOrder
    <3>1. call.stored \in SUBSET DOMAIN ApiLogs /\ call.rows \in Seq(DOMAIN ApiLogs)
      <4> DEFINE s == Listed(call)
                 n == PageRows(call)
                 p == call.page
      <4>1. /\ call.rows = WithLimit(p, n, s) /\ s \in Seq(DOMAIN ApiLogs) /\ p \in Nat /\ n \in Nat
            /\ call.stored \in SUBSET DOMAIN ApiLogs
        BY ListedSorts DEF LogsCall, PageRows, MaxRows
      <4> HIDE DEF s, n, p
      <4>2. call.rows \in Seq(DOMAIN ApiLogs)
        BY <4>1, PageIs
      <4> QED
        BY <4>1, <4>2
    <3>2. \A l \in DOMAIN ApiLogs : ApiLogs[l].block \in ApiBlocks
      BY ApiAssumption
    <3>3. \A l \in call.stored : Reached(ApiLogs[l].block, "receipts")'
      BY <2>1, <3>1, <3>2 DEF TablesInOrder
    <3>4. \A l \in ToSet(call.rows) : l \in DOMAIN ApiLogs
      BY <3>1 DEF ToSet
    <3>5. \A l \in ToSet(call.rows) : Reached(ApiLogs[l].block, "row") => Reached(ApiLogs[l].block, "row")'
      BY <2>1, <3>2, <3>4
    <3> QED
      BY <2>2, <3>3, <3>5 DEF TablesInOrder
  <2> QED
    BY <2>1, <2>3, <2>4
<1>2. ASSUME NEW f \in LogFilters, NEW o \in Offsets, AskLogs(f, 1, o) PROVE ApiInv'
  <2>1. CallFields(call') /\ LogsCall(call') /\ TablesInOrder(call)' /\ call'.balances = <<>> /\ UNCHANGED evmStage
    BY <1>2, AskLogsStep
  <2>2. DOMAIN call'.balances = {}
    BY <2>1
  <2> QED
    BY <2>1, <2>2 DEF BalancesExact, StagesTyped
<1>3. CASE NextLogs
  BY <1>3, NextLogsStep DEF StagesTyped
<1>4. CASE ReadHashes
  BY <1>4, ReadHashesStep DEF StagesTyped
<1>5. CASE ReadGas
  BY <1>5, ReadGasStep DEF StagesTyped
<1>6. CASE Close
  <2>1. call' = NoCall /\ UNCHANGED evmStage
    BY <1>6 DEF Close
  <2>2. CallFields(NoCall) /\ LogsCall(NoCall) /\ NoCall.kind = "none" /\ DOMAIN NoCall.balances = {}
    BY NoCallHolds, NoCallShape
  <2> QED
    BY <2>1, <2>2 DEF BalancesExact, StagesTyped, TablesInOrder
<1>7. ASSUME NEW a \in AddressLists, NEW failed, AskBalances(a, failed) PROVE ApiInv'
  BY <1>7, AskBalancesStep DEF StagesTyped
<1>8. ASSUME NEW kind \in Lookups, NEW b, NEW coded, AskLookup(kind, b, coded) PROVE ApiInv'
  BY <1>8, AskLookupStep DEF StagesTyped
<1>9. CASE UNCHANGED apiVars
  BY <1>9 DEF apiVars, StagesTyped, BalancesExact, TablesInOrder, Reached
<1> QED
  BY <1>1, <1>2, <1>3, <1>4, <1>5, <1>6, <1>7, <1>8, <1>9 DEF ApiNext

\* What a request answers is what it asked for.
LEMMA LogsAreExact == ApiInv => LogFilterExact
<1> SUFFICES ASSUME ApiInv, call.kind = "getLogs", call.at = "answered", WellFormed(Bound(call.filter)),
                    NEW wanted, wanted = Wanted(Bound(call.filter), call.stored)
             PROVE  /\ call.shown \subseteq wanted
                    /\ \/ call.offset > 0 /\ call.rows = <<>>
                       \/ call.offset = 0 /\ Cardinality(wanted) <= MaxRows + 1
                       => call.shown = wanted \ {l \in wanted : \A k \in wanted : k <= l}
  BY DEF LogFilterExact
<1>1. LogsCall(call)
  BY DEF ApiInv
<1> DEFINE c == call
           s == Listed(c)
           n == c.page + PageRows(c)
<1>2. /\ c.filter \in LogFilters /\ c.page \in Nat \ {0} /\ c.offset \in Nat
      /\ c.offset = 0 => c.page = 1
      /\ c.stored \in SUBSET DOMAIN ApiLogs
      /\ c.rows = WithLimit(c.page, PageRows(c), s)
      /\ c.shown = {s[i] : i \in 2 .. Least(n, Len(s))}
  BY <1>1 DEF LogsCall
<1>3. FoundLogs(c) = wanted
  <2> DEFINE f == Bound(c.filter)
  <2>1. c.filter \in LogRequests
    BY <1>2, ApiAssumption
  <2>2. \A p \in Pairs : f.opr[p] \in {"", "and", "or"}
    BY <2>1, BoundOperators
  <2>3. WellFormed(f)
    OBVIOUS
  <2> HIDE DEF f
  <2>4. \A l \in c.stored : Matches(f, l) <=> l \in Wanted(f, c.stored)
    BY <2>2, <2>3, MatchesWanted
  <2>5. Wanted(f, c.stored) \subseteq c.stored
    BY DEF Wanted
  <2> QED
    BY <2>4, <2>5 DEF FoundLogs, f
<1>4. /\ wanted \in SUBSET DOMAIN ApiLogs /\ s = NewestFirst(wanted) /\ Len(s) = Cardinality(wanted)
      /\ Len(s) \in Nat /\ \A i \in 1 .. Len(s) : s[i] \in wanted
  BY <1>2, <1>3, ListedSorts DEF Listed
<1>5. PageRows(c) \in Nat \ {0} /\ n \in Nat
  BY <1>2 DEF PageRows, MaxRows
<1>6. call.shown \subseteq wanted
  <2>1. \A i \in 2 .. Least(n, Len(s)) : i \in 1 .. Len(s)
    <3> HIDE DEF n, s
    <3> QED
      BY <1>4, <1>5 DEF Least
  <2> HIDE DEF s, n
  <2> QED
    BY <1>2, <1>4, <2>1
<1>7. ASSUME \/ call.offset > 0 /\ call.rows = <<>>
             \/ call.offset = 0 /\ Cardinality(wanted) <= MaxRows + 1
      PROVE  call.shown = wanted \ {l \in wanted : \A k \in wanted : k <= l}
  <2>1. n >= Cardinality(wanted)
    <3>1. CASE call.offset = 0 /\ Cardinality(wanted) <= MaxRows + 1
      BY <1>2, <3>1, <1>4 DEF PageRows, MaxRows
    <3>2. CASE call.offset > 0 /\ call.rows = <<>>
      <4> DEFINE p == c.page
                 r == PageRows(c)
      <4>1. c.rows = WithLimit(p, r, s) /\ p \in Nat /\ r \in Nat \ {0} /\ s \in Seq(DOMAIN ApiLogs)
        BY <1>2, <1>5, ListedSorts
      <4>2. n = p + r
        OBVIOUS
      <4> HIDE DEF p, r, s, n
      <4>3. WithLimit(p, r, s) = <<>> <=> Places(s, p, r) = {}
        BY <4>1, PageIs
      <4>4. Places(s, p, r) = {}
        BY <3>2, <4>1, <4>3
      <4>5. p + 1 > Least(p + r, Len(s))
        <5>1. Least(p + r, Len(s)) \in Nat
          BY <1>4, <4>1 DEF Least
        <5>2. p + 1 \in p + 1 .. Least(p + r, Len(s)) \/ p + 1 > Least(p + r, Len(s))
          BY <4>1, <5>1
        <5> QED
          BY <4>4, <5>2 DEF Places
      <4> QED
        BY <1>4, <4>1, <4>2, <4>5 DEF Least
    <3> QED
      BY <1>7, <3>1, <3>2
  <2> HIDE DEF n, c
  <2>2. call.shown = {NewestFirst(wanted)[i] : i \in 2 .. Least(n, Len(NewestFirst(wanted)))}
    BY <1>2, <1>4 DEF c
  <2> QED
    BY <1>4, <1>5, <2>1, <2>2, AllButNewest
<1> QED
  BY <1>6, <1>7

\* Whatever is stored between the queries of a request, a request for logs that
\* is well formed is answered with the logs it asked for, each with the gas of its
\* transaction if it has the hash of its block, and balances come from the node or
\* the account's row (plugins/evm/http/etherscan.go, dao/api.go).
THEOREM AnswersAreExact == ApiSpec => []AnswersExact
<1>1. ApiInit => ApiInv
  BY NoCallHolds DEF ApiInit, ApiInv, StagesTyped, StageNames
<1>2. ApiInv => AnswersExact
  <2> SUFFICES ASSUME ApiInv PROVE AnswersExact
    OBVIOUS
  <2>1. LogFilterExact
    BY LogsAreExact
  <2>2. LogRowsSound
    BY DEF LogRowsSound, ApiInv, TablesInOrder
  <2>3. BalancesExact
    BY DEF ApiInv
  <2> QED
    BY <2>1, <2>2, <2>3 DEF AnswersExact
<1> QED
  BY <1>1, <1>2, ApiStep, PTL DEF ApiSpec

-----------------------------------------------------------------------------
(* The cursor lists: numbers, identifiers and tables.                      *)

LEMMA ProductUp ==
    ASSUME NEW a \in Nat, NEW b \in Nat, a <= b, NEW d \in Nat
    PROVE  a * d \in Nat /\ b * d \in Nat /\ a * d <= b * d
<1>1. PICK k \in Nat : b = a + k
  <2>1. b - a \in Nat /\ b = a + (b - a)
    OBVIOUS
  <2> QED
    BY <2>1
<1>2. k * d \in Nat /\ a * d \in Nat
  OBVIOUS
<1>3. (a + k) * d = a * d + k * d
  OBVIOUS
<1> QED
  BY <1>1, <1>2, <1>3

LEMMA ProductOver ==
    ASSUME NEW a \in Nat, NEW b \in Nat, a < b, NEW d \in Nat
    PROVE  a * d + d <= b * d
<1>1. (a + 1) * d = a * d + d
  OBVIOUS
<1>2. a + 1 <= b /\ a + 1 \in Nat
  OBVIOUS
<1>3. (a + 1) * d <= b * d
  BY <1>2, ProductUp
<1> QED
  BY <1>1, <1>3

LEMMA QuotientIs ==
    ASSUME NEW n \in Nat, NEW d \in Nat \ {0}
    PROVE  n \div d \in Nat /\ (n \div d) * d <= n /\ n < (n \div d) * d + d
<1> DEFINE q == n \div d
           r == n % d
<1>1. q \in Int /\ r \in 0 .. d - 1 /\ n = d * q + r
  OBVIOUS
<1> HIDE DEF q, r
<1>2. d * q = q * d
  BY <1>1
<1>3. q >= 0
  <2> SUFFICES ASSUME q < 0 PROVE FALSE
    BY <1>1
  <2>1. q + 1 <= 0
    BY <1>1
  <2>2. d * (q + 1) <= 0
    BY <1>1, <2>1
  <2>3. d * (q + 1) = d * q + d
    BY <1>1
  <2> QED
    BY <1>1, <2>2, <2>3
<1> QED
  BY <1>1, <1>2, <1>3 DEF q

LEMMA QuotientUp ==
    ASSUME NEW m \in Nat, NEW n \in Nat, m <= n, NEW d \in Nat \ {0}
    PROVE  m \div d <= n \div d
<1> DEFINE a == m \div d
           b == n \div d
<1>1. a \in Nat /\ a * d <= m /\ b \in Nat /\ n < b * d + d
  BY QuotientIs
<1> HIDE DEF a, b
<1>2. a <= b
  <2> SUFFICES ASSUME b < a PROVE FALSE
    BY <1>1
  <2>1. b * d + d <= a * d
    BY <1>1, ProductOver
  <2>2. a * d \in Nat /\ b * d \in Nat
    BY <1>1
  <2> QED
    BY <1>1, <2>1, <2>2
<1> QED
  BY <1>2 DEF a, b

LEMMA QuotientOf ==
    ASSUME NEW b \in Nat, NEW d \in Nat \ {0}, NEW i \in 0 .. d - 1
    PROVE  (b * d + i) \div d = b
<1> DEFINE n == b * d + i
           q == n \div d
<1>1. n \in Nat /\ b * d \in Nat
  OBVIOUS
<1>2. q \in Nat /\ q * d <= n /\ n < q * d + d
  BY <1>1, QuotientIs
<1>3. n = b * d + i
  OBVIOUS
<1> HIDE DEF n, q
<1>4. q * d \in Nat
  BY <1>2
<1>5. ~(q < b)
  <2> SUFFICES ASSUME q < b PROVE FALSE
    OBVIOUS
  <2>1. q * d + d <= b * d
    BY <1>2, ProductOver
  <2> QED
    BY <1>1, <1>2, <1>3, <1>4, <2>1
<1>6. ~(b < q)
  <2> SUFFICES ASSUME b < q PROVE FALSE
    OBVIOUS
  <2>1. b * d + d <= q * d
    BY <1>2, ProductOver
  <2> QED
    BY <1>1, <1>2, <1>3, <1>4, <2>1
<1>7. q = b
  BY <1>2, <1>5, <1>6
<1> QED
  BY <1>7 DEF q, n

LEMMA RowsOfIs ==
    ASSUME NEW l, NEW b \in Blocks, NEW r \in RowsOf(l, b)
    PROVE  r \in Nat /\ r \in Ids(l) /\ BlockOf(l, r) = b
<1>1. b \in Nat /\ IdGenerateCoefficient \in Nat \ {0}
  BY ReadAssumption DEF Blocks
<1>2. CASE l \in {"extrinsics", "events"}
  <2>1. PICK i \in 0 .. IdGenerateCoefficient - 1 : r = b * IdGenerateCoefficient + i
    BY <1>2 DEF RowsOf
  <2>2. r \div IdGenerateCoefficient = b
    BY <1>1, <2>1, QuotientOf
  <2>3. b * IdGenerateCoefficient \in Nat
    BY <1>1
  <2> QED
    BY <1>1, <1>2, <2>1, <2>2, <2>3 DEF BlockOf, Ids
<1>3. CASE l \notin {"extrinsics", "events"}
  BY <1>1, <1>3 DEF RowsOf, BlockOf, Ids
<1> QED
  BY <1>2, <1>3

LEMMA IdsAre ==
    ASSUME NEW l, NEW r \in Ids(l)
    PROVE  r \in Nat /\ BlockOf(l, r) \in Blocks /\ r \in RowsOf(l, BlockOf(l, r))
<1>1. PICK b \in Blocks : r \in RowsOf(l, b)
  BY DEF Ids
<1>2. r \in Nat /\ BlockOf(l, r) = b
  BY <1>1, RowsOfIs
<1> QED
  BY <1>1, <1>2

LEMMA IdsFinite ==
    ASSUME NEW l
    PROVE  IsFiniteSet(Ids(l))
<1> DEFINE C == IdGenerateCoefficient
           n == MaxBlock * C + C + MaxBlock
<1>1. C \in Nat /\ MaxBlock \in Nat
  BY ReadAssumption
<1>2. MaxBlock * C \in Nat
  BY <1>1
<1> HIDE DEF C
<1>3. n \in Nat
  BY <1>1, <1>2
<1>4. Ids(l) \subseteq 0 .. n
  <2> SUFFICES ASSUME NEW r \in Ids(l) PROVE r \in 0 .. n
    OBVIOUS
  <2>1. PICK b \in Blocks : r \in RowsOf(l, b)
    BY DEF Ids
  <2>2. b \in Nat /\ b <= MaxBlock
    BY <1>1, <2>1 DEF Blocks
  <2>3. b * C \in Nat /\ b * C <= MaxBlock * C
    BY <1>1, <2>2, ProductUp
  <2>4. r = b \/ \E i \in 0 .. C - 1 : r = b * C + i
    BY <2>1 DEF RowsOf, C
  <2> QED
    BY <1>1, <1>2, <2>2, <2>3, <2>4
<1>5. IsFiniteSet(0 .. n)
  BY <1>3, FS_Interval
<1> QED
  BY <1>4, <1>5, FS_Subset

\* A list goes up through the tables.
LEMMA TableIs ==
    ASSUME NEW b \in Nat
    PROVE  TableOf(b) \in Nat
BY ReadAssumption, QuotientIs DEF TableOf

LEMMA TablesUp ==
    ASSUME NEW b \in Nat, NEW c \in Nat, b <= c
    PROVE  TableOf(b) <= TableOf(c)
BY ReadAssumption, QuotientUp DEF TableOf

LEMMA BlocksUp ==
    ASSUME NEW l, NEW r \in Ids(l), NEW n \in Nat
    PROVE  /\ BlockOf(l, n) \in Nat
           /\ r <= n => BlockOf(l, r) <= BlockOf(l, n) /\ TableOf(BlockOf(l, r)) <= TableOf(BlockOf(l, n))
           /\ n <= r => BlockOf(l, n) <= BlockOf(l, r) /\ TableOf(BlockOf(l, n)) <= TableOf(BlockOf(l, r))
<1>1. r \in Nat
  BY IdsAre
<1>2. BlockOf(l, n) \in Nat /\ BlockOf(l, r) \in Nat
  BY <1>1, ReadAssumption, QuotientIs DEF BlockOf
<1>3. /\ r <= n => BlockOf(l, r) <= BlockOf(l, n)
      /\ n <= r => BlockOf(l, n) <= BlockOf(l, r)
  BY <1>1, ReadAssumption, QuotientUp DEF BlockOf
<1> QED
  BY <1>2, <1>3, TablesUp

-----------------------------------------------------------------------------
\* There is one sequence of a set in an order.
LEMMA SortedPlace ==
    ASSUME NEW S, IsFiniteSet(S), NEW R, Orders(R, S), NEW s, Sorts(s, S, R)
    PROVE  /\ Len(s) = Cardinality(S)
           /\ \A i \in 1 .. Len(s) : s[i] \in S /\ Cardinality({m \in S : <<m, s[i]>> \in R}) = i - 1
<1>1. s \in Seq(S) /\ Len(s) \in Nat /\ \A i \in 1 .. Len(s) : s[i] \in S
  BY DEF Sorts
<1>2. \A i, j \in 1 .. Len(s) : s[i] = s[j] => i = j
  <2> SUFFICES ASSUME NEW i \in 1 .. Len(s), NEW j \in 1 .. Len(s), s[i] = s[j] PROVE i = j
    OBVIOUS
  <2>1. <<s[i], s[i]>> \notin R
    BY <1>1 DEF Orders
  <2>2. (<<s[i], s[j]>> \in R <=> i < j) /\ (<<s[j], s[i]>> \in R <=> j < i)
    BY DEF Sorts
  <2> QED
    BY <1>1, <2>1, <2>2
<1>3. ASSUME NEW n \in 0 .. Len(s) PROVE Cardinality({s[j] : j \in 1 .. n}) = n
  <2> DEFINE T == {s[j] : j \in 1 .. n}
             f == [j \in 1 .. n |-> s[j]]
  <2>1. n \in Nat /\ 1 .. n \subseteq 1 .. Len(s)
    BY <1>1
  <2>2. f \in [1 .. n -> T]
    OBVIOUS
  <2>3. \A i, j \in 1 .. n : f[i] = f[j] => i = j
    BY <1>2, <2>1
  <2>4. \A t \in T : \E j \in 1 .. n : f[j] = t
    OBVIOUS
  <2> HIDE DEF f, T
  <2>5. f \in Bijection(1 .. n, T)
    BY <2>2, <2>3, <2>4 DEF Bijection, Injection, Surjection, IsInjective
  <2>6. ExistsBijection(1 .. n, T)
    BY <2>5 DEF ExistsBijection
  <2> QED
    BY <2>1, <2>6, FS_CountingElements DEF T
<1>4. {s[j] : j \in 1 .. Len(s)} = S
  BY <1>1 DEF Sorts
<1>5. Cardinality(S) = Len(s)
  <2>1. Len(s) \in 0 .. Len(s)
    BY <1>1
  <2> QED
    BY <1>3, <1>4, <2>1
<1>6. ASSUME NEW i \in 1 .. Len(s) PROVE Cardinality({m \in S : <<m, s[i]>> \in R}) = i - 1
  <2>1. i - 1 \in 0 .. Len(s) /\ 1 .. i - 1 \subseteq 1 .. Len(s)
    BY <1>1
  <2>2. {m \in S : <<m, s[i]>> \in R} = {s[j] : j \in 1 .. i - 1}
    <3>1. ASSUME NEW m \in S, <<m, s[i]>> \in R PROVE \E j \in 1 .. i - 1 : m = s[j]
      <4>1. PICK j \in 1 .. Len(s) : s[j] = m
        BY DEF Sorts
      <4>2. j < i
        BY <3>1, <4>1 DEF Sorts
      <4> QED
        BY <1>1, <4>1, <4>2
    <3>2. ASSUME NEW j \in 1 .. i - 1 PROVE s[j] \in S /\ <<s[j], s[i]>> \in R
      <4>1. j \in 1 .. Len(s) /\ j < i
        BY <2>1
      <4> QED
        BY <1>1, <4>1 DEF Sorts
    <3> QED
      BY <3>1, <3>2
  <2> QED
    BY <1>3, <2>1, <2>2
<1> QED
  BY <1>1, <1>5, <1>6

LEMMA SortsOnce ==
    ASSUME NEW S, IsFiniteSet(S), NEW R, Orders(R, S), NEW s, Sorts(s, S, R), NEW t, Sorts(t, S, R)
    PROVE  s = t
<1>1. /\ Len(s) = Cardinality(S) /\ Len(t) = Cardinality(S)
      /\ \A i \in 1 .. Len(s) : s[i] \in S /\ Cardinality({m \in S : <<m, s[i]>> \in R}) = i - 1
      /\ \A i \in 1 .. Len(t) : t[i] \in S /\ Cardinality({m \in S : <<m, t[i]>> \in R}) = i - 1
  BY SortedPlace
<1>2. s \in Seq(S) /\ t \in Seq(S) /\ Len(s) \in Nat
  BY DEF Sorts
<1>3. ASSUME NEW i \in 1 .. Len(s) PROVE s[i] = t[i]
  <2>1. i \in 1 .. Len(t) /\ t[i] \in S
    BY <1>1
  <2>2. PICK j \in 1 .. Len(s) : s[j] = t[i]
    BY <2>1 DEF Sorts
  <2>3. i - 1 = j - 1
    BY <1>1, <2>1, <2>2
  <2>4. i = j
    BY <1>2, <2>3
  <2> QED
    BY <2>2, <2>4
<1> QED
  BY <1>1, <1>2, <1>3

-----------------------------------------------------------------------------
\* The order of a list.
RanksKnown(l) == l \in RankedLists => rank \in [Ids(l) -> 0 .. MaxRank]
Below(l)      == {p \in Ids(l) \X Ids(l) : SortKey(l, p[1]) > SortKey(l, p[2])}

LEMMA KeyIs ==
    ASSUME NEW l, RanksKnown(l), CursorFits(l), NEW r \in Ids(l)
    PROVE  /\ Key(l, r) \in Nat /\ SortKey(l, r) = Key(l, r)
           /\ l \notin RankedLists => Key(l, r) = r
<1>1. r \in Nat
  BY IdsAre
<1>2. Width \in Nat
  BY ReadAssumption DEF Width
<1>3. l \in RankedLists => rank[r] \in Nat
  BY ReadAssumption DEF RanksKnown
<1>4. l \in RankedLists => rank[r] * Width \in Nat
  BY <1>2, <1>3
<1>5. Key(l, r) \in Nat
  BY <1>1, <1>4 DEF Key
<1>6. SortKey(l, r) = Key(l, r)
  BY DEF SortKey, Key, CursorFits, RankedLists
<1>7. l \notin RankedLists => Key(l, r) = r
  BY DEF Key
<1> QED
  BY <1>5, <1>6, <1>7

LEMMA KeysDiffer ==
    ASSUME NEW l, RanksKnown(l), NEW r \in Ids(l), NEW x \in Ids(l), r # x
    PROVE  Key(l, r) # Key(l, x)
<1>1. r \in Nat /\ x \in Nat
  BY IdsAre
<1>2. CASE l \notin RankedLists
  BY <1>2 DEF Key
<1>3. CASE l \in RankedLists
  <2>1. Width \in Nat /\ rank[r] \in Nat /\ rank[x] \in Nat
    BY <1>3, ReadAssumption DEF Width, RanksKnown
  <2>2. r < Width /\ x < Width
    <3>1. l \notin {"extrinsics", "events"}
      BY <1>3 DEF RankedLists
    <3>2. r \in Blocks /\ x \in Blocks
      BY <3>1 DEF Ids, RowsOf
    <3> QED
      BY <3>2, ReadAssumption DEF Blocks, Width
  <2> DEFINE a == rank[r] * Width
             b == rank[x] * Width
  <2>3. a \in Nat /\ b \in Nat
    BY <2>1
  <2>4. rank[r] < rank[x] => a + Width <= b
    BY <2>1, ProductOver
  <2>5. rank[x] < rank[r] => b + Width <= a
    BY <2>1, ProductOver
  <2>6. rank[x] = rank[r] => a = b
    OBVIOUS
  <2>7. Key(l, r) = a + r /\ Key(l, x) = b + x
    BY <1>3 DEF Key
  <2> HIDE DEF a, b
  <2> QED
    BY <1>1, <2>1, <2>2, <2>3, <2>4, <2>5, <2>6, <2>7
<1> QED
  BY <1>2, <1>3

LEMMA BelowIs ==
    ASSUME NEW l, RanksKnown(l), CursorFits(l), NEW r \in Ids(l), NEW x \in Ids(l)
    PROVE  <<r, x>> \in Below(l) <=> Key(l, r) > Key(l, x)
<1>1. SortKey(l, r) = Key(l, r) /\ SortKey(l, x) = Key(l, x)
  BY KeyIs
<1>2. <<r, x>> \in Below(l) <=> SortKey(l, r) > SortKey(l, x)
  BY DEF Below
<1> QED
  BY <1>1, <1>2

LEMMA BelowOrders ==
    ASSUME NEW l, RanksKnown(l), CursorFits(l), NEW S \in SUBSET Ids(l)
    PROVE  Orders(Below(l), S)
<1>1. \A r \in S : Key(l, r) \in Nat
  BY KeyIs
<1>2. \A r, x \in S : <<r, x>> \in Below(l) <=> Key(l, r) > Key(l, x)
  BY BelowIs
<1>3. \A r, x \in S : r # x => Key(l, r) # Key(l, x)
  BY KeysDiffer
<1> QED
  BY <1>1, <1>2, <1>3 DEF Orders

LEMMA DescendingSorts ==
    ASSUME NEW l, RanksKnown(l), CursorFits(l), NEW S \in SUBSET Ids(l)
    PROVE  Sorts(Descending(l, S), S, Below(l)) /\ Len(Descending(l, S)) = Cardinality(S)
<1>1. IsFiniteSet(S)
  BY IdsFinite, FS_Subset
<1>2. Orders(Below(l), S)
  BY BelowOrders
<1>3. Descending(l, S) = Ranked(S, Below(l))
  <2> DEFINE B(a)  == {b \in S : SortKey(l, b) > SortKey(l, a)}
             B2(a) == {b \in S : <<b, a>> \in Below(l)}
             e(i)  == CHOOSE a \in S : Cardinality(B(a)) = i - 1
             e2(i) == CHOOSE a \in S : Cardinality(B2(a)) = i - 1
  <2>1. ASSUME NEW a \in S PROVE B(a) = B2(a)
    BY DEF Below
  <2>2. Descending(l, S) = [i \in 1 .. Cardinality(S) |-> e(i)] /\ Ranked(S, Below(l)) = [i \in 1 .. Cardinality(S) |-> e2(i)]
    BY DEF Descending, Ranked
  <2>3. ASSUME NEW i PROVE e(i) = e2(i)
    <3> HIDE DEF B, B2
    <3> QED
      BY <2>1, Zenon
  <2> HIDE DEF e, e2
  <2> QED
    BY <2>2, <2>3
<1> QED
  BY <1>1, <1>2, <1>3, RankedSorts

-----------------------------------------------------------------------------
\* A list that is split is read as if it were one table.
LEMMA UpwardOrders ==
    ASSUME NEW S, NEW R, Orders(R, S)
    PROVE  Orders(Upward(R, S), S)
<1> DEFINE U == Upward(R, S)
<1>1. \A l, m \in S : <<l, m>> \in U <=> <<m, l>> \in R
  BY DEF Upward
<1> HIDE DEF U
<1>2. \A l \in S : <<l, l>> \notin U
  BY <1>1 DEF Orders
<1>3. \A l, m \in S : l # m => <<l, m>> \in U \/ <<m, l>> \in U
  BY <1>1 DEF Orders
<1>4. ASSUME NEW l \in S, NEW m \in S, NEW n \in S, <<l, m>> \in U, <<m, n>> \in U
      PROVE  <<l, n>> \in U
  <2>1. <<m, l>> \in R /\ <<n, m>> \in R
    BY <1>1, <1>4
  <2>2. <<n, l>> \in R
    BY <2>1 DEF Orders
  <2> QED
    BY <1>1, <2>2
<1> QED
  BY <1>2, <1>3, <1>4, Zenon DEF Orders, U

LEMMA SplitIs ==
    ASSUME NEW l \in SplitLists
    PROVE  /\ RanksKnown(l) /\ CursorFits(l)
           /\ \A r \in Ids(l) : Key(l, r) = r /\ r \in Nat /\ TableOf(BlockOf(l, r)) \in AllTables
           /\ \A r, x \in Ids(l) : <<r, x>> \in Below(l) <=> r > x
<1>1. l \notin RankedLists /\ l # "evmAccounts"
  BY DEF SplitLists, RankedLists
<1>2. RanksKnown(l) /\ CursorFits(l)
  BY <1>1 DEF RanksKnown, CursorFits
<1>3. ASSUME NEW r \in Ids(l) PROVE Key(l, r) = r /\ r \in Nat /\ TableOf(BlockOf(l, r)) \in AllTables
  <2>1. Key(l, r) = r /\ r \in Nat
    BY <1>1, IdsAre DEF Key
  <2>2. BlockOf(l, r) \in Nat /\ MaxBlock \in Nat /\ BlockOf(l, r) <= MaxBlock
    BY IdsAre, ReadAssumption DEF Blocks
  <2>3. TableOf(BlockOf(l, r)) \in Nat /\ TableOf(MaxBlock) \in Nat /\ TableOf(BlockOf(l, r)) <= TableOf(MaxBlock)
    BY <2>2, TableIs, TablesUp
  <2> QED
    BY <2>1, <2>3 DEF AllTables
<1>4. \A r, x \in Ids(l) : <<r, x>> \in Below(l) <=> r > x
  BY <1>2, <1>3, BelowIs
<1> QED
  BY <1>2, <1>3, <1>4

\* The rows of some tables.
InTables(l, S, tables) == {r \in S : TableOf(BlockOf(l, r)) \in tables}

\* The tables of a walk.
Span(lowest, highest, skipped) == (lowest .. highest) \ skipped

\* A walk downward and a walk upward.
Downward(l, S, first, last, skipped)   == WalkTables(l, S, first, last, TRUE, skipped)
UpwardFrom(l, S, first, last, skipped) == WalkTables(l, S, first, last, FALSE, skipped)

LEMMA WalkDown ==
    ASSUME NEW l \in SplitLists, NEW S \in SUBSET Ids(l), NEW first, NEW last, NEW skipped
    PROVE  Downward(l, S, first, last, skipped) = Descending(l, InTables(l, S, Span(last, first, skipped)))
<1> DEFINE W         == InTables(l, S, Span(last, first, skipped))
           t(r)      == TableOf(BlockOf(l, r))
           B(a)      == {b \in W : t(b) > t(a) \/ (t(b) = t(a) /\ b > a)}
           B2(a)     == {b \in W : SortKey(l, b) > SortKey(l, a)}
           e(i)      == CHOOSE a \in W : Cardinality(B(a)) = i - 1
           e2(i)     == CHOOSE a \in W : Cardinality(B2(a)) = i - 1
<1>1. Downward(l, S, first, last, skipped) = [i \in 1 .. Cardinality(W) |-> e(i)]
  BY DEF Downward, WalkTables, InTables, Span
<1>2. Descending(l, W) = [i \in 1 .. Cardinality(W) |-> e2(i)]
  BY DEF Descending
<1>3. ASSUME NEW a \in W PROVE B(a) = B2(a)
  <2>1. ASSUME NEW b \in W PROVE (t(b) > t(a) \/ (t(b) = t(a) /\ b > a)) <=> SortKey(l, b) > SortKey(l, a)
    <3>1. a \in Ids(l) /\ b \in Ids(l) /\ a \in Nat /\ b \in Nat
      BY IdsAre DEF InTables
    <3>2. SortKey(l, a) = a /\ SortKey(l, b) = b
      BY <3>1, SplitIs, KeyIs
    <3>3. t(a) \in Nat /\ t(b) \in Nat /\ (b <= a => t(b) <= t(a)) /\ (a <= b => t(a) <= t(b))
      BY <3>1, IdsAre, TableIs, BlocksUp DEF Blocks
    <3> HIDE DEF t
    <3> QED
      BY <3>1, <3>2, <3>3
  <2> QED
    BY <2>1
<1>4. ASSUME NEW i PROVE e(i) = e2(i)
  <2> HIDE DEF B, B2
  <2> QED
    BY <1>3, Zenon
<1> HIDE DEF e, e2, W
<1> QED
  BY <1>1, <1>2, <1>4 DEF W

LEMMA WalkUp ==
    ASSUME NEW l \in SplitLists, NEW S \in SUBSET Ids(l), NEW first, NEW last, NEW skipped
    PROVE  UpwardFrom(l, S, first, last, skipped)
             = Reverse(Descending(l, InTables(l, S, Span(first, last, skipped))))
<1> DEFINE W         == InTables(l, S, Span(first, last, skipped))
           U         == Upward(Below(l), W)
           t(r)      == TableOf(BlockOf(l, r))
           B(a)      == {b \in W : t(b) < t(a) \/ (t(b) = t(a) /\ b < a)}
           B2(a)     == {b \in W : <<b, a>> \in U}
           e(i)      == CHOOSE a \in W : Cardinality(B(a)) = i - 1
           e2(i)     == CHOOSE a \in W : Cardinality(B2(a)) = i - 1
<1>1. UpwardFrom(l, S, first, last, skipped) = [i \in 1 .. Cardinality(W) |-> e(i)]
  BY DEF UpwardFrom, WalkTables, InTables, Span
<1>2. Ranked(W, U) = [i \in 1 .. Cardinality(W) |-> e2(i)]
  BY DEF Ranked
<1>3. ASSUME NEW a \in W PROVE B(a) = B2(a)
  <2>1. ASSUME NEW b \in W PROVE (t(b) < t(a) \/ (t(b) = t(a) /\ b < a)) <=> <<b, a>> \in U
    <3>1. a \in Ids(l) /\ b \in Ids(l) /\ a \in Nat /\ b \in Nat
      BY IdsAre DEF InTables
    <3>2. <<b, a>> \in U <=> <<a, b>> \in Below(l)
      BY DEF Upward
    <3>3. <<a, b>> \in Below(l) <=> a > b
      BY <3>1, SplitIs
    <3>4. t(a) \in Nat /\ t(b) \in Nat /\ (b <= a => t(b) <= t(a)) /\ (a <= b => t(a) <= t(b))
      BY <3>1, IdsAre, TableIs, BlocksUp DEF Blocks
    <3> HIDE DEF t, U
    <3> QED
      BY <3>1, <3>2, <3>3, <3>4
  <2> QED
    BY <2>1
<1>4. ASSUME NEW i PROVE e(i) = e2(i)
  <2> HIDE DEF B, B2
  <2> QED
    BY <1>3, Zenon
<1>5. UpwardFrom(l, S, first, last, skipped) = Ranked(W, U)
  <2> HIDE DEF e, e2, W
  <2> QED
    BY <1>1, <1>2, <1>4
<1>6. W \in SUBSET Ids(l)
  BY DEF InTables
<1> HIDE DEF W, U, B, B2
<1>7. IsFiniteSet(W) /\ Orders(Below(l), W) /\ Sorts(Descending(l, W), W, Below(l))
  <2>1. RanksKnown(l) /\ CursorFits(l)
    BY SplitIs
  <2> QED
    BY <1>6, <2>1, BelowOrders, DescendingSorts, IdsFinite, FS_Subset
<1>8. Orders(U, W)
  BY <1>7, UpwardOrders DEF U
<1>9. Sorts(Ranked(W, U), W, U)
  BY <1>7, <1>8, RankedSorts
<1>10. Sorts(Reverse(Descending(l, W)), W, U)
  BY <1>7, ReverseSorts DEF U
<1>11. Ranked(W, U) = Reverse(Descending(l, W))
  BY <1>7, <1>8, <1>9, <1>10, SortsOnce
<1> QED
  BY <1>5, <1>11 DEF W

-----------------------------------------------------------------------------
\* What the handlers return.
RowsHere(l) == listRows \in SUBSET Ids(l) /\ best \in Nat /\ RanksKnown(l)

\* The account's mapping names every table that a page of the request needs.
TablesTold(l, q) == l = "extrinsics" /\ q.account => \A r \in Matching(l, q) : TableOf(BlockOf(l, r)) \in mapping

After(l, S, after) == {r \in S : after > 0 => Key(l, r) < after}

\* R are the rows that a request with a cursor to go on from, or with none, reads.
ReadsOf(l, q, after, broken, R) ==
    /\ R \in SUBSET Matching(l, q) /\ R = After(l, R, after)
    /\ l \in SplitLists /\ FixedTable(q) = {} =>
         \A r \in R : TableOf(BlockOf(l, r)) <= TableOf(IF after > 0 THEN BlockOf(l, after) ELSE best)
    /\ broken = {} /\ TablesTold(l, q) =>
         R = After(l, IF after > 0 THEN Matching(l, q) ELSE Visible(l, q), after)

LEMMA QueryIs ==
    ASSUME NEW l, NEW q \in Queries(l)
    PROVE  /\ q.block \in Nat /\ q.block \in Blocks /\ q.block \in {0, MaxBlock}
           /\ l \notin {"extrinsics", "events"} => q.block = 0
<1> DEFINE B == {0, MaxBlock}
<1>1. MaxBlock \in Nat /\ 0 \in Blocks /\ MaxBlock \in Blocks
  BY ReadAssumption DEF Blocks
<1>2. CASE l = "extrinsics"
  <2>1. q \in [block : B, call : {""}, account : BOOLEAN] \cup [block : {0}, call : {"a"}, account : {FALSE}]
    BY <1>2 DEF Queries
  <2>2. q.block \in B
    BY <2>1
  <2> QED
    BY <1>1, <1>2, <2>2
<1>3. CASE l = "events"
  <2>1. q \in [block : B, call : {""}, account : {FALSE}]
    BY <1>3 DEF Queries
  <2>2. q.block \in B
    BY <2>1
  <2> QED
    BY <1>1, <1>3, <2>2
<1>4. CASE l \in {"evmAccounts", "contracts"}
  <2>1. q \in [block : {0}, call : {""}, account : BOOLEAN]
    BY <1>4 DEF Queries
  <2>2. q.block = 0
    BY <2>1
  <2> QED
    BY <1>1, <1>4, <2>2
<1>5. CASE l \notin {"extrinsics", "events", "evmAccounts", "contracts"}
  <2>1. q \in [block : {0}, call : {""}, account : {FALSE}]
    BY <1>5 DEF Queries
  <2>2. q.block = 0
    BY <2>1
  <2> QED
    BY <1>1, <1>5, <2>2
<1> QED
  BY <1>2, <1>3, <1>4, <1>5

LEMMA NoRows ==
    ASSUME NEW l, RanksKnown(l), CursorFits(l)
    PROVE  Descending(l, {}) = <<>>
<1>1. Cardinality({}) = 0
  BY FS_EmptySet
<1>2. Len(Descending(l, {})) = 0 /\ Descending(l, {}) \in Seq({})
  BY <1>1, DescendingSorts DEF Sorts
<1> QED
  BY <1>2

\* A page of one table.
LEMMA KeysetForward ==
    ASSUME NEW l, NEW S, NEW limit, NEW after \in Nat
    PROVE  KeysetPage(l, S, limit, 0, after) = PageOf(l, Prefix(Descending(l, After(l, S, after)), limit + 1), limit, 0, after)
<1>1. CASE after > 0
  <2>1. After(l, S, after) = {r \in S : Key(l, r) < after}
    BY <1>1 DEF After
  <2> QED
    BY <1>1, <2>1 DEF KeysetPage
<1>2. CASE after = 0
  <2>1. After(l, S, after) = S
    BY <1>2 DEF After
  <2>2. ~(after > 0) /\ ~(after = 0 /\ 0 > 0)
    BY <1>2
  <2> QED
    BY <2>1, <2>2 DEF KeysetPage
<1> QED
  BY <1>1, <1>2

LEMMA BlocksForward ==
    ASSUME NEW l, l = "blocks", RowsHere(l), NEW q \in Queries(l), NEW limit, NEW after \in Nat, NEW broken
    PROVE  \E R : /\ ReadsOf(l, q, after, broken, R)
                  /\ GetBlockListCursor(listRows, limit, 0, after, broken)
                       = PageOf(l, Prefix(Descending(l, R), limit + 1), limit, 0, after)
<1>1. l \in SplitLists /\ FixedTable(q) = {} /\ Matching(l, q) = listRows
  <2>1. l \notin {"extrinsics", "events"}
    OBVIOUS
  <2>2. q.block = 0
    BY <2>1, QueryIs
  <2> QED
    BY <2>2 DEF SplitLists, FixedTable, Matching
<1>2. listRows \in SUBSET Ids(l) /\ best \in Nat /\ RanksKnown(l) /\ CursorFits(l)
  BY <1>1, SplitIs DEF RowsHere
<1>3. ASSUME NEW r \in Ids(l) PROVE /\ BlockOf(l, r) = r /\ Key(l, r) = r /\ r \in Nat /\ TableOf(r) \in Nat
                                    /\ \A n \in Nat : r <= n => TableOf(r) <= TableOf(n)
  <2>1. BlockOf(l, r) = r
    BY DEF BlockOf
  <2>2. Key(l, r) = r /\ r \in Nat
    BY <1>1, SplitIs
  <2> QED
    BY <2>1, <2>2, TableIs, TablesUp
<1>4. CASE after > 0
  <2> DEFINE A == {r \in listRows : r < after}
             R == InTables(l, A, Span(0, TableOf(after), broken))
  <2>1. GetBlockListCursor(listRows, limit, 0, after, broken)
          = PageOf(l, Prefix(Downward(l, A, TableOf(after), 0, broken), limit + 1), limit, 0, after)
    <3>1. ~(after = 0)
      BY <1>4
    <3> QED
      BY <1>4, <3>1, Zenon DEF GetBlockListCursor, Downward
  <2>2. Downward(l, A, TableOf(after), 0, broken) = Descending(l, R)
    <3>1. A \in SUBSET Ids(l)
      BY <1>2
    <3> HIDE DEF A
    <3> QED
      BY <1>1, <3>1, WalkDown
  <2>3. R \in SUBSET listRows /\ \A r \in R : Key(l, r) < after /\ TableOf(BlockOf(l, r)) <= TableOf(after)
    BY <1>2, <1>3, TableIs DEF InTables, Span
  <2>4. broken = {} => R = A
    BY <1>2, <1>3, TableIs DEF InTables, Span
  <2>5. A = After(l, listRows, after)
    BY <1>2, <1>3, <1>4 DEF After
  <2>6. BlockOf(l, after) = after
    BY DEF BlockOf
  <2>7. R = After(l, R, after)
    BY <2>3 DEF After
  <2> HIDE DEF R, A
  <2>8. ReadsOf(l, q, after, broken, R)
    BY <1>1, <1>4, <2>3, <2>4, <2>5, <2>6, <2>7 DEF ReadsOf
  <2> QED
    BY <2>1, <2>2, <2>8
<1>5. CASE after = 0
  <2> DEFINE maxIdx == TableOf(best)
             bad    == {t \in broken : t <= maxIdx}
             stop   == IF bad = {} THEN 0 ELSE 1 + CHOOSE t \in bad : \A u \in bad : u <= t
             R      == IF stop <= maxIdx THEN InTables(l, listRows, Span(stop, maxIdx, {})) ELSE {}
             F      == IF stop <= maxIdx THEN Downward(l, listRows, maxIdx, stop, {}) ELSE <<>>
  <2>1. maxIdx \in Nat /\ (broken = {} => stop = 0 /\ stop <= maxIdx)
    BY <1>2, TableIs
  <2>2. GetBlockListCursor(listRows, limit, 0, after, broken) = PageOf(l, Prefix(F, limit + 1), limit, 0, after)
    <3>1. ~(after > 0) /\ ~(after = 0 /\ 0 > 0 /\ TableOf(0) <= maxIdx) /\ after = 0
      BY <1>5
    <3> QED
      BY <3>1 DEF GetBlockListCursor, Downward
  <2>3. F = Descending(l, R)
    <3>1. Downward(l, listRows, maxIdx, stop, {}) = Descending(l, InTables(l, listRows, Span(stop, maxIdx, {})))
      <4> HIDE DEF maxIdx, stop
      <4> QED
        BY <1>1, <1>2, WalkDown
    <3>2. Descending(l, {}) = <<>>
      BY <1>2, NoRows
    <3> HIDE DEF maxIdx, stop
    <3> QED
      BY <3>1, <3>2
  <2>4. R \in SUBSET listRows /\ \A r \in R : TableOf(BlockOf(l, r)) <= maxIdx
    <3> HIDE DEF stop, maxIdx
    <3> QED
      BY <1>2, <1>3, <2>1 DEF InTables, Span
  <2>5. broken = {} => R = Visible(l, q)
    <3> SUFFICES ASSUME broken = {} PROVE R = Visible(l, q)
      OBVIOUS
    <3>1. R = InTables(l, listRows, Span(0, maxIdx, {}))
      BY <2>1
    <3>2. Visible(l, q) = {r \in listRows : TableOf(BlockOf(l, r)) <= TableOf(best)}
      BY <1>1 DEF Visible
    <3> HIDE DEF R
    <3> QED
      BY <1>2, <1>3, <2>1, <3>1, <3>2 DEF InTables, Span
  <2>6. After(l, R, after) = R /\ After(l, Visible(l, q), after) = Visible(l, q)
    BY <1>5 DEF After
  <2> HIDE DEF R, F, stop, bad
  <2>7. ReadsOf(l, q, after, broken, R)
    BY <1>1, <1>5, <2>4, <2>5, <2>6 DEF ReadsOf
  <2> QED
    BY <2>2, <2>3, <2>7
<1> QED
  BY <1>4, <1>5


\* The one table of a page of one block.
LEMMA FixedIs ==
    ASSUME NEW l \in {"extrinsics", "events"}, NEW q \in Queries(l), FixedTable(q) # {}, NEW r \in Matching(l, q)
    PROVE  FixedTable(q) = {TableOf(BlockOf(l, r))}
<1>1. q.block > 0 /\ FixedTable(q) = {TableOf(q.block)}
  BY DEF FixedTable
<1>2. BlockOf(l, r) = q.block
  BY <1>1 DEF Matching
<1> QED
  BY <1>1, <1>2

\* The tables that a handler asks.
AskedTables(l, q) == IF l = "extrinsics" /\ q.account THEN mapping ELSE AllTables

LEMMA AskedTablesTold ==
    ASSUME NEW l \in SplitLists, RowsHere(l), NEW q, TablesTold(l, q), NEW r \in Matching(l, q)
    PROVE  TableOf(BlockOf(l, r)) \in AskedTables(l, q)
<1>1. r \in Ids(l)
  BY DEF RowsHere, Matching
<1>2. TableOf(BlockOf(l, r)) \in AllTables
  BY <1>1, SplitIs
<1> QED
  BY <1>2 DEF AskedTables, TablesTold

LEMMA IdsForward ==
    ASSUME NEW l \in {"extrinsics", "events"}, RowsHere(l), NEW q \in Queries(l), NEW limit, NEW after \in Nat,
           NEW broken
    PROVE  \E R : /\ ReadsOf(l, q, after, broken, R)
                  /\ GetIdListCursor(l, Matching(l, q), limit, 0, after, FixedTable(q), AskedTables(l, q), broken)
                       = PageOf(l, Prefix(Descending(l, R), limit + 1), limit, 0, after)
<1> DEFINE S         == Matching(l, q)
           fixed     == FixedTable(q)
           tables    == AskedTables(l, q)
           tableOfId(id) == TableOf(id \div IdGenerateCoefficient)
           top       == CASE fixed # {} -> CHOOSE t \in fixed : TRUE
                          [] fixed = {} /\ after > 0 -> tableOfId(after)
                          [] OTHER -> TableOf(best)
           skipped   == broken \cup {t \in 0 .. TableOf(MaxBlock) : t \notin tables \/ (fixed # {} /\ t \notin fixed)}
           A         == {r \in S : r < after}
           R         == InTables(l, IF after > 0 THEN A ELSE S, Span(0, top, skipped))
<1>1. l \in SplitLists /\ l \notin RankedLists
  BY DEF SplitLists, RankedLists
<1>2. S \in SUBSET Ids(l) /\ A \in SUBSET Ids(l) /\ best \in Nat
  BY DEF RowsHere, Matching
<1>3. ASSUME NEW r \in Ids(l) PROVE /\ Key(l, r) = r /\ r \in Nat /\ TableOf(BlockOf(l, r)) \in AllTables
                                    /\ TableOf(BlockOf(l, r)) \in Nat
  BY <1>1, SplitIs, IdsAre, TableIs DEF Blocks
<1>4. A = After(l, S, after) \/ ~(after > 0)
  BY <1>2, <1>3 DEF After
<1>5. GetIdListCursor(l, S, limit, 0, after, fixed, tables, broken)
        = PageOf(l, Prefix(Descending(l, R), limit + 1), limit, 0, after)
  <2> HIDE DEF S, tables
  <2>1. CASE after > 0
    <3>1. ~(after = 0)
      BY <2>1
    <3>2. GetIdListCursor(l, S, limit, 0, after, fixed, tables, broken)
            = PageOf(l, Prefix(Downward(l, A, top, 0, skipped), limit + 1), limit, 0, after)
      <4> HIDE DEF fixed, R
      <4> QED
        BY <2>1, <3>1, Zenon DEF GetIdListCursor, Downward
    <3>3. Downward(l, A, top, 0, skipped) = Descending(l, InTables(l, A, Span(0, top, skipped)))
      <4> HIDE DEF A, top, skipped, R
      <4> QED
        BY <1>1, <1>2, WalkDown
    <3>4. R = InTables(l, A, Span(0, top, skipped))
      <4> HIDE DEF A, top, skipped
      <4> QED
        BY <2>1
    <3> HIDE DEF R, A, top, skipped
    <3> QED
      BY <3>2, <3>3, <3>4
  <2>2. CASE after = 0
    <3>1. ~(after > 0) /\ ~(0 > 0)
      BY <2>2
    <3>2. GetIdListCursor(l, S, limit, 0, after, fixed, tables, broken)
            = PageOf(l, Prefix(Downward(l, S, top, 0, skipped), limit + 1), limit, 0, after)
      <4> HIDE DEF fixed, R, A
      <4> QED
        BY <2>2, <3>1 DEF GetIdListCursor, Downward
    <3>3. Downward(l, S, top, 0, skipped) = Descending(l, InTables(l, S, Span(0, top, skipped)))
      <4> HIDE DEF A, top, skipped, R
      <4> QED
        BY <1>1, <1>2, WalkDown
    <3>4. R = InTables(l, S, Span(0, top, skipped))
      <4> HIDE DEF A, top, skipped
      <4> QED
        BY <3>1
    <3> HIDE DEF R, A, top, skipped
    <3> QED
      BY <3>2, <3>3, <3>4
  <2> QED
    BY <2>1, <2>2
<1>6. /\ R \in SUBSET (IF after > 0 THEN A ELSE S)
      /\ \A r \in R : TableOf(BlockOf(l, r)) <= top
      /\ \A r \in IF after > 0 THEN A ELSE S :
           TableOf(BlockOf(l, r)) <= top /\ TableOf(BlockOf(l, r)) \notin skipped => r \in R
  <2> DEFINE X == IF after > 0 THEN A ELSE S
  <2>1. X \in SUBSET Ids(l)
    BY <1>2
  <2> HIDE DEF X, top, skipped, A, S
  <2>2. R = InTables(l, X, Span(0, top, skipped))
    BY DEF X
  <2>3. \A r \in X : TableOf(BlockOf(l, r)) \in Nat
    BY <1>3, <2>1
  <2> HIDE DEF R
  <2>4. R \in SUBSET X /\ \A r \in R : TableOf(BlockOf(l, r)) <= top
    BY <2>2 DEF InTables, Span
  <2>5. \A r \in X : TableOf(BlockOf(l, r)) <= top /\ TableOf(BlockOf(l, r)) \notin skipped => r \in R
    BY <2>2, <2>3 DEF InTables, Span
  <2> QED
    BY <2>4, <2>5 DEF X
<1>7. fixed = {} => top = TableOf(IF after > 0 THEN BlockOf(l, after) ELSE best)
  BY DEF BlockOf
<1>8. ASSUME broken = {}, TablesTold(l, q), NEW r \in S
      PROVE  TableOf(BlockOf(l, r)) \notin skipped /\ (fixed # {} => TableOf(BlockOf(l, r)) <= top)
  <2>1. TableOf(BlockOf(l, r)) \in tables
    BY <1>1, <1>8, AskedTablesTold
  <2>2. fixed # {} => fixed = {TableOf(BlockOf(l, r))}
    BY FixedIs
  <2>3. TableOf(BlockOf(l, r)) \in Nat
    BY <1>2, <1>3
  <2> HIDE DEF fixed, tables
  <2> QED
    BY <1>8, <2>1, <2>2, <2>3
<1>9. ASSUME broken = {}, TablesTold(l, q)
      PROVE  R = After(l, IF after > 0 THEN Matching(l, q) ELSE Visible(l, q), after)
  <2>1. \A r \in IF after > 0 THEN A ELSE S :
          (fixed # {} \/ TableOf(BlockOf(l, r)) <= top) => r \in R
    <3> HIDE DEF R, top, skipped, fixed
    <3> QED
      BY <1>6, <1>8, <1>9
  <2> HIDE DEF top, skipped, R
  <2>2. CASE after > 0
    <3>1. A = After(l, Matching(l, q), after)
      BY <1>4, <2>2
    <3>2. ASSUME NEW r \in A PROVE fixed # {} \/ TableOf(BlockOf(l, r)) <= top
      <4>1. fixed = {} => top = TableOf(BlockOf(l, after))
        BY <1>7, <2>2
      <4>2. r \in Ids(l) /\ r \in Nat /\ r <= after
        BY <1>2, <1>3
      <4>3. TableOf(BlockOf(l, r)) <= TableOf(BlockOf(l, after))
        BY <4>2, BlocksUp
      <4> HIDE DEF fixed, A
      <4> QED
        BY <4>1, <4>3
    <3> HIDE DEF A, fixed
    <3> QED
      BY <1>6, <2>1, <2>2, <3>1, <3>2
  <2>3. CASE after = 0
    <3>1. fixed = {} => top = TableOf(best)
      BY <1>7, <2>3
    <3>2. Visible(l, q) = {r \in S : fixed = {} => TableOf(BlockOf(l, r)) <= TableOf(best)}
      BY <1>1 DEF Visible
    <3>3. After(l, Visible(l, q), after) = Visible(l, q)
      BY <2>3 DEF After
    <3> HIDE DEF A, fixed, S
    <3> QED
      BY <1>6, <2>1, <2>3, <3>1, <3>2, <3>3
  <2> QED
    BY <2>2, <2>3
<1>10. R \in SUBSET Matching(l, q) /\ R = After(l, R, after)
  <2>1. R \in SUBSET (IF after > 0 THEN A ELSE S)
    BY <1>6
  <2> HIDE DEF R
  <2>2. R \in SUBSET Ids(l) /\ \A r \in R : after > 0 => r < after
    BY <1>2, <2>1
  <2> QED
    BY <1>3, <2>1, <2>2 DEF After
<1>11. ReadsOf(l, q, after, broken, R)
  <2> HIDE DEF R, top
  <2> QED
    BY <1>6, <1>7, <1>9, <1>10 DEF ReadsOf
<1> HIDE DEF R
<1> QED
  BY <1>5, <1>11 DEF fixed, tables


\* Which function a handler calls.
TheLists == SplitLists \cup RankedLists \cup OtherLists

LEMMA PluginServes ==
    ASSUME NEW l \in TheLists \ SplitLists, NEW q \in Queries(l), NEW n \in 1 .. MaxRow, NEW before, NEW after, NEW broken
    PROVE  ServeList(l, q, n, before, after, broken) = KeysetPage(l, Matching(l, q), n, before, after)
<1> DEFINE K == KeysetPage(l, Matching(l, q), n, before, after)
<1>1. \A answer : Validated(n, answer) = answer
  BY DEF Validated
<1>2. CASE l = "evmBlocks"
  <2>1. Matching(l, q) = listRows
    BY <1>2 DEF Matching
  <2>2. ServeList(l, q, n, before, after, broken) = evmBlocksHandle(q, n, before, after)
    BY <1>2 DEF ServeList
  <2> QED
    BY <1>1, <1>2, <2>1, <2>2 DEF evmBlocksHandle, BlocksCursor
<1>3. CASE l = "accounts"
  <2>1. Matching(l, q) = listRows
    BY <1>3 DEF Matching
  <2>2. ServeList(l, q, n, before, after, broken) = accountsHandle(n, before, after)
    BY <1>3 DEF ServeList
  <2> QED
    BY <1>1, <1>3, <2>1, <2>2 DEF accountsHandle, GetAccountListCursor
<1>4. CASE l = "transactions"
  <2>1. ServeList(l, q, n, before, after, broken) = transactionsHandle(q, n, before, after)
    BY <1>4 DEF ServeList
  <2> QED
    BY <1>1, <1>4, <2>1 DEF transactionsHandle, TransactionsCursor
<1>5. CASE l = "tokenTransfers"
  <2>1. ServeList(l, q, n, before, after, broken) = tokenTransferHandle(q, n, before, after)
    BY <1>5 DEF ServeList
  <2> QED
    BY <1>1, <1>5, <2>1 DEF tokenTransferHandle, TokenTransfersCursor
<1>6. CASE l = "collectibles"
  <2>1. ServeList(l, q, n, before, after, broken) = collectiblesHandle(q, n, before, after)
    BY <1>6 DEF ServeList
  <2> QED
    BY <1>1, <1>6, <2>1 DEF collectiblesHandle, CollectiblesCursor
<1>7. CASE l = "evmAccounts"
  <2>1. ServeList(l, q, n, before, after, broken) = evmAccountsHandle(q, n, before, after)
    BY <1>7 DEF ServeList
  <2> QED
    BY <1>1, <1>7, <2>1 DEF evmAccountsHandle, AccountsCursor
<1>8. CASE l = "contracts"
  <2>1. ServeList(l, q, n, before, after, broken) = contractsHandle(q, n, before, after)
    BY <1>8 DEF ServeList
  <2> QED
    BY <1>1, <1>8, <2>1 DEF contractsHandle, ContractsCursor
<1>9. CASE l = "tokens"
  <2>1. ServeList(l, q, n, before, after, broken) = tokenListHandle(q, n, before, after)
    BY <1>9 DEF ServeList
  <2> QED
    BY <1>1, <1>9, <2>1 DEF tokenListHandle, TokenListCursor
<1>10. CASE l = "tokenHolders"
  <2>1. ServeList(l, q, n, before, after, broken) = tokenHolderHandle(q, n, before, after)
    BY <1>10 DEF ServeList
  <2> QED
    BY <1>1, <1>10, <2>1 DEF tokenHolderHandle, TokenHoldersCursor
<1>11. CASE l = "transfers"
  <2>1. ServeList(l, q, n, before, after, broken) = transferHandle(q, n, before, after)
    BY <1>11 DEF ServeList
  <2> QED
    BY <1>1, <1>11, <2>1 DEF transferHandle, TransfersCursor
<1> QED
  BY <1>2, <1>3, <1>4, <1>5, <1>6, <1>7, <1>8, <1>9, <1>10, <1>11 DEF TheLists, SplitLists, RankedLists, OtherLists

LEMMA SplitServes ==
    ASSUME NEW l \in SplitLists, NEW q \in Queries(l), NEW n \in 1 .. MaxRow, NEW before, NEW after, NEW broken
    PROVE  /\ l = "blocks" => ServeList(l, q, n, before, after, broken) = GetBlockListCursor(listRows, n, before, after, broken)
           /\ l # "blocks" =>
                /\ l \in {"extrinsics", "events"}
                /\ ServeList(l, q, n, before, after, broken)
                     = GetIdListCursor(l, Matching(l, q), n, before, after, FixedTable(q), AskedTables(l, q), broken)
<1>1. \A answer : Validated(n, answer) = answer
  BY DEF Validated
<1>2. CASE l = "blocks"
  <2>1. ServeList(l, q, n, before, after, broken) = blocksHandle(n, before, after, broken)
    BY <1>2 DEF ServeList
  <2> QED
    BY <1>1, <1>2, <2>1 DEF blocksHandle
<1>3. CASE l = "extrinsics"
  <2>1. ServeList(l, q, n, before, after, broken) = extrinsicsHandle(q, n, before, after, broken)
    BY <1>3 DEF ServeList
  <2>2. AskedTables(l, q) = IF q.account THEN GetAccountExtrinsicMapping ELSE AllTables
    BY <1>3 DEF AskedTables, GetAccountExtrinsicMapping
  <2>3. extrinsicsHandle(q, n, before, after, broken) = GetExtrinsicListCursor(q, n, before, after, broken)
    BY <1>1 DEF extrinsicsHandle
  <2>4. GetExtrinsicListCursor(q, n, before, after, broken)
          = GetIdListCursor(l, Matching(l, q), n, before, after, FixedTable(q), AskedTables(l, q), broken)
    BY <1>3, <2>2 DEF GetExtrinsicListCursor
  <2> QED
    BY <1>3, <2>1, <2>3, <2>4
<1>4. CASE l = "events"
  <2>1. ServeList(l, q, n, before, after, broken) = eventsHandle(q, n, before, after, broken)
    BY <1>4 DEF ServeList
  <2>2. AskedTables(l, q) = AllTables
    BY <1>4 DEF AskedTables
  <2>3. eventsHandle(q, n, before, after, broken) = GetEventListCursor(q, n, before, after, broken)
    BY <1>1 DEF eventsHandle
  <2>4. GetEventListCursor(q, n, before, after, broken)
          = GetIdListCursor(l, Matching(l, q), n, before, after, FixedTable(q), AskedTables(l, q), broken)
    BY <1>4, <2>2 DEF GetEventListCursor
  <2> QED
    BY <1>4, <2>1, <2>3, <2>4
<1> QED
  BY <1>2, <1>3, <1>4 DEF SplitLists

LEMMA NoPageIsServed ==
    ASSUME NEW l \in TheLists, NEW q, NEW n, n \notin 1 .. MaxRow, NEW before, NEW after, NEW broken
    PROVE  ServeList(l, q, n, before, after, broken) = Rejected
<1>1. \A answer : Validated(n, answer) = Rejected
  BY DEF Validated
<1> QED
  BY <1>1 DEF ServeList, TheLists, SplitLists, RankedLists, OtherLists, blocksHandle, extrinsicsHandle, eventsHandle,
       evmBlocksHandle, transactionsHandle, tokenTransferHandle, collectiblesHandle, evmAccountsHandle,
       contractsHandle, tokenListHandle, tokenHolderHandle, accountsHandle, transferHandle

\* A page forward is a prefix of the rows it reads, sorted.
LEMMA ServeForward ==
    ASSUME NEW l \in TheLists, RowsHere(l), CursorFits(l), NEW q \in Queries(l), NEW limit \in 1 .. MaxRow,
           NEW after \in Nat, NEW broken
    PROVE  \E R : /\ ReadsOf(l, q, after, broken, R)
                  /\ ServeList(l, q, limit, 0, after, broken)
                       = PageOf(l, Prefix(Descending(l, R), limit + 1), limit, 0, after)
<1>1. CASE l = "blocks"
  <2>1. ServeList(l, q, limit, 0, after, broken) = GetBlockListCursor(listRows, limit, 0, after, broken)
    BY <1>1, SplitServes DEF SplitLists
  <2>2. \E R : /\ ReadsOf(l, q, after, broken, R)
               /\ GetBlockListCursor(listRows, limit, 0, after, broken)
                    = PageOf(l, Prefix(Descending(l, R), limit + 1), limit, 0, after)
    BY <1>1, BlocksForward
  <2> QED
    BY <2>1, <2>2
<1>2. CASE l \in {"extrinsics", "events"}
  <2>1. l \in SplitLists /\ l # "blocks"
    BY <1>2 DEF SplitLists
  <2>2. ServeList(l, q, limit, 0, after, broken)
          = GetIdListCursor(l, Matching(l, q), limit, 0, after, FixedTable(q), AskedTables(l, q), broken)
    BY <2>1, SplitServes
  <2>3. \E R : /\ ReadsOf(l, q, after, broken, R)
               /\ GetIdListCursor(l, Matching(l, q), limit, 0, after, FixedTable(q), AskedTables(l, q), broken)
                       = PageOf(l, Prefix(Descending(l, R), limit + 1), limit, 0, after)
    BY <1>2, IdsForward
  <2> QED
    BY <2>2, <2>3
<1>3. CASE l \notin SplitLists
  <2> DEFINE R == After(l, Matching(l, q), after)
  <2>1. ServeList(l, q, limit, 0, after, broken) = KeysetPage(l, Matching(l, q), limit, 0, after)
    BY <1>3, PluginServes
  <2>2. KeysetPage(l, Matching(l, q), limit, 0, after)
          = PageOf(l, Prefix(Descending(l, R), limit + 1), limit, 0, after)
    BY KeysetForward
  <2>3. Visible(l, q) = Matching(l, q)
    BY <1>3 DEF Visible
  <2>4. R \in SUBSET Matching(l, q) /\ R = After(l, R, after)
    BY DEF After
  <2>5. ReadsOf(l, q, after, broken, R)
    BY <1>3, <2>3, <2>4 DEF ReadsOf
  <2> HIDE DEF R
  <2> QED
    BY <2>1, <2>2, <2>5
<1> QED
  BY <1>1, <1>2, <1>3 DEF SplitLists


-----------------------------------------------------------------------------
\* A page before a row.
Beyond(l, S, before) == {r \in S : Key(l, r) > before}

LEMMA KeysetBackward ==
    ASSUME NEW l, NEW S, NEW limit, NEW before \in Nat, before > 0
    PROVE  KeysetPage(l, S, limit, before, 0)
             = PageOf(l, Prefix(Reverse(Descending(l, Beyond(l, S, before))), limit + 1), limit, before, 0)
<1>1. ~(0 > 0) /\ (0 = 0 /\ before > 0)
  OBVIOUS
<1> QED
  BY <1>1 DEF KeysetPage, Beyond

LEMMA NoRowsUpward == Reverse(<<>>) = <<>>
<1>1. Len(<<>>) = 0
  OBVIOUS
<1>2. Reverse(<<>>) = [i \in 1 .. 0 |-> <<>>[(0 - i) + 1]]
  BY <1>1 DEF Reverse
<1>3. 1 .. 0 = {}
  OBVIOUS
<1>4. [i \in {} |-> <<>>[(0 - i) + 1]] = <<>>
  OBVIOUS
<1> QED
  BY <1>2, <1>3, <1>4

LEMMA BlocksBackward ==
    ASSUME NEW l, l = "blocks", RowsHere(l), NEW q \in Queries(l), NEW limit, NEW c \in Ids(l), c > 0
    PROVE  GetBlockListCursor(listRows, limit, c, 0, {})
             = PageOf(l, Prefix(Reverse(Descending(l, Beyond(l, Visible(l, q), c))), limit + 1), limit, c, 0)
<1> DEFINE V      == Visible(l, q)
           maxIdx == TableOf(best)
           A      == {r \in listRows : r > c}
           F      == IF TableOf(c) <= maxIdx THEN UpwardFrom(l, A, TableOf(c), maxIdx, {}) ELSE <<>>
<1>1. l \in SplitLists /\ V = {r \in listRows : TableOf(r) <= TableOf(best)}
  <2>1. l \notin {"extrinsics", "events"}
    OBVIOUS
  <2>2. q.block = 0
    BY <2>1, QueryIs
  <2>3. \A r : BlockOf(l, r) = r
    BY DEF BlockOf
  <2> QED
    BY <2>2, <2>3 DEF SplitLists, FixedTable, Matching, Visible
<1>2. listRows \in SUBSET Ids(l) /\ best \in Nat /\ RanksKnown(l) /\ CursorFits(l)
  BY <1>1, SplitIs DEF RowsHere
<1>3. c \in Nat /\ TableOf(c) \in Nat /\ maxIdx \in Nat
  BY <1>2, IdsAre, TableIs
<1>4. ASSUME NEW r \in listRows PROVE /\ BlockOf(l, r) = r /\ Key(l, r) = r /\ r \in Nat /\ TableOf(r) \in Nat
                                      /\ r > c => TableOf(c) <= TableOf(r)
  <2>1. BlockOf(l, r) = r
    BY DEF BlockOf
  <2>2. Key(l, r) = r /\ r \in Nat
    BY <1>1, <1>2, SplitIs
  <2>3. r > c => c <= r
    BY <1>3, <2>2
  <2> QED
    BY <1>3, <2>1, <2>2, <2>3, TableIs, TablesUp
<1>5. GetBlockListCursor(listRows, limit, c, 0, {}) = PageOf(l, Prefix(F, limit + 1), limit, c, 0)
  <2>1. ~(0 > 0) /\ (0 = 0 /\ c > 0) /\ ~(c = 0)
    BY <1>3
  <2> QED
    BY <2>1 DEF GetBlockListCursor, UpwardFrom
<1>6. F = Reverse(Descending(l, Beyond(l, V, c)))
  <2>1. CASE TableOf(c) <= maxIdx
    <3>1. V \in SUBSET listRows
      BY <1>1
    <3>2. \A r \in listRows : r > c => (r \in V <=> TableOf(BlockOf(l, r)) \in Span(TableOf(c), maxIdx, {}))
      <4> HIDE DEF V
      <4> QED
        BY <1>1, <1>3, <1>4 DEF Span
    <3> HIDE DEF V, maxIdx
    <3>3. UpwardFrom(l, A, TableOf(c), maxIdx, {}) = Reverse(Descending(l, InTables(l, A, Span(TableOf(c), maxIdx, {}))))
      <4>1. A \in SUBSET Ids(l)
        BY <1>2
      <4> HIDE DEF A
      <4> QED
        BY <1>1, <4>1, WalkUp
    <3>4. InTables(l, A, Span(TableOf(c), maxIdx, {})) = Beyond(l, V, c)
      BY <1>4, <3>1, <3>2 DEF InTables, Beyond
    <3> HIDE DEF A
    <3> QED
      BY <2>1, <3>3, <3>4
  <2>2. CASE ~(TableOf(c) <= maxIdx)
    <3>1. Beyond(l, V, c) = {}
      <4> HIDE DEF V
      <4> QED
        BY <1>1, <1>3, <1>4, <2>2 DEF Beyond
    <3>2. Descending(l, {}) = <<>> /\ Reverse(<<>>) = <<>>
      BY <1>2, NoRows, NoRowsUpward
    <3> HIDE DEF V, maxIdx
    <3> QED
      BY <2>2, <3>1, <3>2
  <2> QED
    BY <2>1, <2>2
<1> HIDE DEF F, V
<1> QED
  BY <1>5, <1>6 DEF V

LEMMA IdsBackward ==
    ASSUME NEW l \in {"extrinsics", "events"}, RowsHere(l), NEW q \in Queries(l), TablesTold(l, q), NEW limit,
           NEW c \in Ids(l), c > 0
    PROVE  GetIdListCursor(l, Matching(l, q), limit, c, 0, FixedTable(q), AskedTables(l, q), {})
             = PageOf(l, Prefix(Reverse(Descending(l, Beyond(l, Visible(l, q), c))), limit + 1), limit, c, 0)
<1> DEFINE S         == Matching(l, q)
           V         == Visible(l, q)
           fixed     == FixedTable(q)
           tables    == AskedTables(l, q)
           tableOfId(id) == TableOf(id \div IdGenerateCoefficient)
           top       == CASE fixed # {} -> CHOOSE t \in fixed : TRUE
                          [] fixed = {} /\ 0 > 0 -> tableOfId(0)
                          [] OTHER -> TableOf(best)
           bottom    == IF fixed # {} THEN top ELSE tableOfId(c)
           skipped   == {} \cup {t \in 0 .. TableOf(MaxBlock) : t \notin tables \/ (fixed # {} /\ t \notin fixed)}
           A         == {r \in S : r > c}
           F         == IF bottom <= top THEN UpwardFrom(l, A, bottom, top, skipped) ELSE <<>>
<1>1. l \in SplitLists
  BY DEF SplitLists
<1>2. S \in SUBSET Ids(l) /\ V \in SUBSET S /\ RanksKnown(l) /\ CursorFits(l) /\ best \in Nat
  BY <1>1, SplitIs DEF RowsHere, Matching, Visible
<1>3. c \in Nat /\ TableOf(BlockOf(l, c)) \in Nat /\ TableOf(best) \in Nat
  BY <1>2, IdsAre, TableIs DEF Blocks
<1>4. ASSUME NEW r \in S PROVE /\ Key(l, r) = r /\ r \in Nat /\ TableOf(BlockOf(l, r)) \in Nat
                               /\ TableOf(BlockOf(l, r)) \in tables
                               /\ fixed # {} => fixed = {TableOf(BlockOf(l, r))}
                               /\ r > c => TableOf(BlockOf(l, c)) <= TableOf(BlockOf(l, r))
  <2>1. r \in Ids(l) /\ r \in Nat /\ Key(l, r) = r
    BY <1>1, <1>2, SplitIs, IdsAre
  <2>2. TableOf(BlockOf(l, r)) \in Nat
    BY <2>1, IdsAre, TableIs DEF Blocks
  <2>3. r > c => TableOf(BlockOf(l, c)) <= TableOf(BlockOf(l, r))
    <3>1. r > c => c <= r
      BY <1>3, <2>1
    <3> QED
      BY <1>3, <2>1, <3>1, BlocksUp
  <2>4. fixed # {} => fixed = {TableOf(BlockOf(l, r))}
    BY FixedIs
  <2>5. TableOf(BlockOf(l, r)) \in tables
    BY <1>1, AskedTablesTold
  <2> QED
    BY <2>1, <2>2, <2>3, <2>4, <2>5
<1>5. GetIdListCursor(l, S, limit, c, 0, fixed, tables, {}) = PageOf(l, Prefix(F, limit + 1), limit, c, 0)
  <2>1. ~(0 > 0) /\ (0 = 0 /\ c > 0) /\ ~(c = 0)
    BY <1>3
  <2> HIDE DEF S, fixed, tables
  <2> QED
    BY <2>1 DEF GetIdListCursor, UpwardFrom
<1>6. /\ fixed = {} => top = TableOf(best) /\ bottom = TableOf(BlockOf(l, c))
      /\ fixed # {} => \A r \in S : top = TableOf(BlockOf(l, r)) /\ bottom = top
  <2>1. fixed = {} => top = TableOf(best) /\ bottom = TableOf(BlockOf(l, c))
    <3> HIDE DEF fixed
    <3> QED
      BY DEF BlockOf
  <2>2. fixed # {} => \A r \in S : top = TableOf(BlockOf(l, r)) /\ bottom = top
    <3> HIDE DEF fixed, S
    <3> QED
      BY <1>4
  <2> QED
    BY <2>1, <2>2
<1>7. \A r \in S : TableOf(BlockOf(l, r)) \notin skipped
  <2> HIDE DEF fixed, tables, S
  <2> QED
    BY <1>4
<1>8. V = {r \in S : fixed = {} => TableOf(BlockOf(l, r)) <= TableOf(best)}
  BY <1>1 DEF Visible
<1> HIDE DEF S, V, fixed, tables, top, bottom, skipped
<1>9. \A r \in S : r > c => (r \in V <=> TableOf(BlockOf(l, r)) \in Span(bottom, top, skipped))
  <2>1. CASE fixed = {}
    BY <1>3, <1>4, <1>6, <1>7, <1>8, <2>1 DEF Span
  <2>2. CASE fixed # {}
    BY <1>4, <1>6, <1>7, <1>8, <2>2 DEF Span
  <2> QED
    BY <2>1, <2>2
<1>10. F = Reverse(Descending(l, Beyond(l, V, c)))
  <2>1. CASE bottom <= top
    <3>1. UpwardFrom(l, A, bottom, top, skipped) = Reverse(Descending(l, InTables(l, A, Span(bottom, top, skipped))))
      <4>1. A \in SUBSET Ids(l)
        BY <1>2
      <4> HIDE DEF A
      <4> QED
        BY <1>1, <4>1, WalkUp
    <3>2. InTables(l, A, Span(bottom, top, skipped)) = Beyond(l, V, c)
      BY <1>2, <1>4, <1>9 DEF InTables, Beyond
    <3> HIDE DEF A
    <3> QED
      BY <2>1, <3>1, <3>2
  <2>2. CASE ~(bottom <= top)
    <3>1. Beyond(l, V, c) = {}
      <4>1. ASSUME NEW r \in V, r > c PROVE FALSE
        <5>1. r \in S
          BY <1>2
        <5>2. CASE fixed = {}
          BY <1>3, <1>4, <1>6, <1>8, <2>2, <4>1, <5>1, <5>2
        <5>3. CASE fixed # {}
          BY <1>4, <1>6, <2>2, <5>1, <5>3
        <5> QED
          BY <5>2, <5>3
      <4> QED
        BY <1>2, <1>4, <4>1 DEF Beyond
    <3>2. Descending(l, {}) = <<>> /\ Reverse(<<>>) = <<>>
      BY <1>2, NoRows, NoRowsUpward
    <3> QED
      BY <2>2, <3>1, <3>2
  <2> QED
    BY <2>1, <2>2
<1> HIDE DEF F
<1> QED
  BY <1>5, <1>10 DEF S, V, fixed, tables

\* The walk over the tables answers as one table.
LEMMA SplitServesAsOne ==
    ASSUME NEW l \in SplitLists, RowsHere(l), NEW q \in Queries(l), TablesTold(l, q), NEW n \in 1 .. MaxRow,
           NEW c \in Ids(l)
    PROVE  /\ c > 0 => ServeList(l, q, n, 0, c, {}) = KeysetPage(l, Matching(l, q), n, 0, c)
           /\ ServeList(l, q, n, c, 0, {}) = KeysetPage(l, Visible(l, q), n, c, 0)
<1>1. c \in Nat /\ CursorFits(l) /\ l \in TheLists
  BY IdsAre, SplitIs DEF TheLists
<1>2. ASSUME c > 0 PROVE ServeList(l, q, n, 0, c, {}) = KeysetPage(l, Matching(l, q), n, 0, c)
  <2>1. PICK R : /\ ReadsOf(l, q, c, {}, R)
                 /\ ServeList(l, q, n, 0, c, {}) = PageOf(l, Prefix(Descending(l, R), n + 1), n, 0, c)
    BY <1>1, ServeForward
  <2>2. R = After(l, Matching(l, q), c)
    BY <1>2, <2>1 DEF ReadsOf
  <2>3. KeysetPage(l, Matching(l, q), n, 0, c)
          = PageOf(l, Prefix(Descending(l, After(l, Matching(l, q), c)), n + 1), n, 0, c)
    BY <1>1, KeysetForward
  <2> QED
    BY <2>1, <2>2, <2>3
<1>3. CASE c = 0
  <2>1. PICK R : /\ ReadsOf(l, q, 0, {}, R)
                 /\ ServeList(l, q, n, 0, 0, {}) = PageOf(l, Prefix(Descending(l, R), n + 1), n, 0, 0)
    BY <1>1, ServeForward
  <2>2. R = After(l, Visible(l, q), 0)
    BY <2>1 DEF ReadsOf
  <2>3. KeysetPage(l, Visible(l, q), n, 0, 0)
          = PageOf(l, Prefix(Descending(l, After(l, Visible(l, q), 0)), n + 1), n, 0, 0)
    BY KeysetForward
  <2> QED
    BY <1>3, <2>1, <2>2, <2>3
<1>4. CASE c > 0
  <2> DEFINE P == PageOf(l, Prefix(Reverse(Descending(l, Beyond(l, Visible(l, q), c))), n + 1), n, c, 0)
  <2>1. KeysetPage(l, Visible(l, q), n, c, 0) = P
    BY <1>1, <1>4, KeysetBackward
  <2>2. ASSUME l = "blocks" PROVE ServeList(l, q, n, c, 0, {}) = P
    <3>1. ServeList(l, q, n, c, 0, {}) = GetBlockListCursor(listRows, n, c, 0, {})
      BY <2>2, SplitServes
    <3>2. GetBlockListCursor(listRows, n, c, 0, {}) = P
      BY <1>4, <2>2, BlocksBackward
    <3> HIDE DEF P
    <3> QED
      BY <3>1, <3>2
  <2>3. ASSUME l # "blocks" PROVE ServeList(l, q, n, c, 0, {}) = P
    <3>1. /\ l \in {"extrinsics", "events"}
          /\ ServeList(l, q, n, c, 0, {})
               = GetIdListCursor(l, Matching(l, q), n, c, 0, FixedTable(q), AskedTables(l, q), {})
      BY <2>3, SplitServes
    <3>2. GetIdListCursor(l, Matching(l, q), n, c, 0, FixedTable(q), AskedTables(l, q), {}) = P
      BY <1>4, <3>1, IdsBackward
    <3> HIDE DEF P
    <3> QED
      BY <3>1, <3>2
  <2> HIDE DEF P
  <2> QED
    BY <1>2, <1>4, <2>1, <2>2, <2>3
<1> QED
  BY <1>1, <1>2, <1>3, <1>4


-----------------------------------------------------------------------------
\* What a page forward shows of the rows it reads.
Shows(l, p, R) ==
    /\ p.ok /\ ToSet(p.rows) \in SUBSET R
    /\ p.hasNext =>
         /\ p.end \in Nat /\ p.end > 0 /\ \E r \in ToSet(p.rows) : p.end = Key(l, r)
         /\ \A r \in ToSet(p.rows) : Key(l, r) >= p.end
         /\ \A r \in R : r \in ToSet(p.rows) \/ Key(l, r) < p.end
    /\ ~p.hasNext => R \in SUBSET ToSet(p.rows)

LEMMA PrefixIs ==
    ASSUME NEW T, NEW s \in Seq(T), NEW n \in Nat
    PROVE  /\ Prefix(s, n) \in Seq(T)
           /\ Len(Prefix(s, n)) = (IF Len(s) < n THEN Len(s) ELSE n)
           /\ \A i \in 1 .. Len(Prefix(s, n)) : i \in 1 .. Len(s) /\ Prefix(s, n)[i] = s[i]
<1> DEFINE k == IF Len(s) < n THEN Len(s) ELSE n
           t == [i \in 1 .. k |-> s[i]]
<1>1. Len(s) \in Nat /\ k \in Nat /\ k <= Len(s) /\ \A i \in 1 .. Len(s) : s[i] \in T
  OBVIOUS
<1> HIDE DEF k
<1>2. SubSeq(s, 1, k) = [i \in 1 .. (1 + k) - 1 |-> s[(i + 1) - 1]]
  BY <1>1
<1>3. (1 + k) - 1 = k /\ \A i \in 1 .. k : (i + 1) - 1 = i /\ i \in 1 .. Len(s)
  BY <1>1
<1>4. SubSeq(s, 1, k) = t
  BY <1>2, <1>3
<1>5. t \in Seq(T) /\ Len(t) = k /\ \A i \in 1 .. k : i \in 1 .. Len(s) /\ t[i] = s[i]
  BY <1>1, <1>3
<1>6. Prefix(s, n) = t
  BY <1>4 DEF Prefix, k
<1> HIDE DEF t
<1> QED
  BY <1>5, <1>6 DEF k

LEMMA PageShows ==
    ASSUME NEW l, RanksKnown(l), CursorFits(l), NEW R \in SUBSET Ids(l), NEW n \in Nat \ {0}, NEW after
    PROVE  Shows(l, PageOf(l, Prefix(Descending(l, R), n + 1), n, 0, after), R)
<1> DEFINE D       == Descending(l, R)
           fetched == Prefix(D, n + 1)
           rows    == Prefix(fetched, n)
           p       == PageOf(l, fetched, n, 0, after)
<1>1. D \in Seq(R) /\ (\A r \in R : \E i \in 1 .. Len(D) : D[i] = r)
      /\ \A i, j \in 1 .. Len(D) : <<D[i], D[j]>> \in Below(l) <=> i < j
  BY DescendingSorts DEF Sorts
<1>2. /\ p.ok /\ p.rows = rows /\ (p.hasNext <=> Len(fetched) > n)
      /\ p.end = IF rows = <<>> THEN 0 ELSE Key(l, Last(rows))
  <2>1. ~(0 > 0)
    OBVIOUS
  <2> HIDE DEF fetched
  <2> QED
    BY <2>1 DEF PageOf
<1> HIDE DEF D
<1>3. /\ fetched \in Seq(R) /\ Len(fetched) = (IF Len(D) < n + 1 THEN Len(D) ELSE n + 1)
      /\ \A i \in 1 .. Len(fetched) : i \in 1 .. Len(D) /\ fetched[i] = D[i]
  <2>1. n + 1 \in Nat
    OBVIOUS
  <2> QED
    BY SMTT(60), <1>1, <2>1, PrefixIs
<1> HIDE DEF fetched, p
<1>4. /\ rows \in Seq(R) /\ Len(rows) = (IF Len(fetched) < n THEN Len(fetched) ELSE n)
      /\ \A i \in 1 .. Len(rows) : i \in 1 .. Len(fetched) /\ rows[i] = fetched[i]
  BY <1>3, PrefixIs
<1> HIDE DEF rows
<1>5. Len(D) \in Nat /\ Len(fetched) \in Nat /\ Len(rows) \in Nat
  BY <1>1, <1>3, <1>4
<1>6. ToSet(rows) = {rows[i] : i \in 1 .. Len(rows)}
  BY <1>4 DEF ToSet
<1>7. \A i \in 1 .. Len(rows) : i \in 1 .. Len(D) /\ rows[i] = D[i] /\ rows[i] \in R
  BY <1>3, <1>4
<1>8. ASSUME NEW i \in 1 .. Len(D), NEW j \in 1 .. Len(D)
      PROVE  /\ Key(l, D[i]) \in Nat /\ Key(l, D[j]) \in Nat
             /\ i < j <=> Key(l, D[i]) > Key(l, D[j])
  <2>1. D[i] \in Ids(l) /\ D[j] \in Ids(l)
    BY <1>1
  <2>2. <<D[i], D[j]>> \in Below(l) <=> Key(l, D[i]) > Key(l, D[j])
    BY <2>1, BelowIs
  <2> QED
    BY <1>1, <2>1, <2>2, KeyIs
<1>9. ASSUME p.hasNext
      PROVE  /\ p.end \in Nat /\ p.end > 0 /\ \E r \in ToSet(rows) : p.end = Key(l, r)
             /\ \A r \in ToSet(rows) : Key(l, r) >= p.end
             /\ \A r \in R : r \in ToSet(rows) \/ Key(l, r) < p.end
  <2>1. Len(fetched) = n + 1 /\ Len(rows) = n /\ n + 1 \in 1 .. Len(D) /\ n \in 1 .. Len(D)
    BY <1>2, <1>3, <1>4, <1>5, <1>9
  <2>2. rows # <<>> /\ Last(rows) = D[n] /\ n \in 1 .. Len(rows)
    BY <1>4, <1>7, <2>1 DEF Last
  <2>3. p.end = Key(l, D[n]) /\ D[n] \in ToSet(rows)
    BY <1>2, <1>6, <1>7, <2>2
  <2>4. p.end \in Nat /\ p.end > Key(l, D[n + 1]) /\ Key(l, D[n + 1]) \in Nat
    BY <1>8, <2>1, <2>3
  <2>5. p.end > 0
    BY <2>4
  <2>6. ASSUME NEW r \in ToSet(rows) PROVE Key(l, r) >= p.end
    <3>1. PICK i \in 1 .. Len(rows) : r = D[i]
      BY <1>6, <1>7
    <3>2. i \in 1 .. Len(D) /\ ~(n < i)
      BY <1>7, <2>1, <3>1
    <3>3. ~(Key(l, D[n]) > Key(l, D[i])) /\ Key(l, D[n]) \in Nat /\ Key(l, D[i]) \in Nat
      BY <1>8, <2>1, <3>2
    <3> QED
      BY <2>3, <3>1, <3>3
  <2>7. ASSUME NEW r \in R PROVE r \in ToSet(rows) \/ Key(l, r) < p.end
    <3>1. PICK i \in 1 .. Len(D) : D[i] = r
      BY <1>1
    <3>2. CASE i <= n
      <4>1. i \in 1 .. Len(rows)
        BY <1>5, <2>1, <3>2
      <4> QED
        BY <1>6, <1>7, <3>1, <4>1
    <3>3. CASE n < i
      BY <1>8, <2>1, <2>3, <3>1, <3>3
    <3> QED
      BY <1>5, <3>2, <3>3
  <2> QED
    BY <2>3, <2>4, <2>5, <2>6, <2>7
<1>10. ASSUME ~p.hasNext PROVE R \in SUBSET ToSet(rows)
  <2>1. Len(rows) = Len(D)
    BY <1>2, <1>3, <1>4, <1>5, <1>10
  <2> QED
    BY <1>1, <1>6, <1>7, <2>1
<1>11. ToSet(rows) \in SUBSET R
  BY <1>6, <1>7
<1>12. Shows(l, p, R)
  BY <1>2, <1>9, <1>10, <1>11 DEF Shows
<1> QED
  BY <1>12 DEF p, fetched, D


-----------------------------------------------------------------------------
(* The walk.                                                               *)
\* What the variables hold.
Transactions == [block : Blocks, read : SUBSET AllTables, busy : BOOLEAN]

ReadTypes ==
    /\ list \in Lists \cup {"none"} /\ listRows \in SUBSET Ids(list)
    /\ best \in Blocks /\ mapping \in SUBSET AllTables
    /\ list = "none" => listRows = {} /\ ~page.ok
    /\ list # "none" => rank \in [Ids(list) -> 0 .. MaxRank]
    /\ worker \in [Indexers -> Transactions]
    /\ \A w \in Indexers : worker[w].busy => list = "extrinsics"
    /\ ~page.ok => page.rows = <<>>

\* What the pages of a walk have shown of the rows that did not move.
WalkNow ==
    /\ twice \in SUBSET moved
    /\ page.ok =>
         /\ query \in Queries(list) /\ seen \in SUBSET listRows /\ from \in SUBSET listRows
         /\ ToSet(page.rows) \in SUBSET seen
         /\ \A r \in from \ moved : r \in Matching(list, query)
         /\ page.hasNext => /\ page.end \in Nat /\ page.end > 0
                            /\ \A r \in seen \ moved : Key(list, r) >= page.end
         /\ ~torn /\ ~overlap => \A r \in from \ moved : r \in seen \/ (page.hasNext /\ Key(list, r) < page.end)
         /\ list \in SplitLists /\ FixedTable(query) = {} =>
              /\ \A r \in ToSet(page.rows) : TableOf(BlockOf(list, r)) <= TableOf(best)
              /\ page.hasNext => TableOf(BlockOf(list, page.end)) <= TableOf(best)

WalkHolds == CursorFits(list) => WalkNow

LEMMA RowsAreHere ==
    ASSUME ReadTypes, list # "none"
    PROVE  RowsHere(list) /\ list \in Lists /\ list \in TheLists
<1>1. list \in TheLists
  BY ReadAssumption DEF ReadTypes, TheLists
<1>2. best \in Nat
  BY ReadAssumption DEF ReadTypes, Blocks
<1> QED
  BY <1>1, <1>2 DEF ReadTypes, RowsHere, RanksKnown

LEMMA TablesAreTold ==
    ASSUME AccountTablesNamed, ~overlap, NEW q
    PROVE  TablesTold(list, q)
<1> SUFFICES ASSUME list = "extrinsics", q.account, NEW r \in Matching(list, q)
             PROVE  TableOf(BlockOf(list, r)) \in mapping
  BY DEF TablesTold
<1>1. r \in listRows /\ Signed(r)
  BY DEF Matching
<1> QED
  BY <1>1 DEF AccountTablesNamed

\* What a writer does leaves the walk as it was.
LEMMA WriterKeeps ==
    ASSUME ReadTypes, WalkHolds, list' = list, UNCHANGED <<query, page, from, seen, twice, torn>>,
           listRows \in SUBSET listRows', moved \in SUBSET moved', overlap => overlap',
           best' \in Nat, best <= best',
           \A r \in listRows \ moved' : rank'[r] = rank[r]
    PROVE  WalkHolds'
<1> SUFFICES ASSUME CursorFits(list)' PROVE WalkNow'
  BY DEF WalkHolds
<1>1. WalkNow
  BY DEF WalkHolds, CursorFits
<1>2. (twice \in SUBSET moved)'
  BY <1>1 DEF WalkNow
<1> SUFFICES ASSUME page.ok
             PROVE  (/\ query \in Queries(list) /\ seen \in SUBSET listRows /\ from \in SUBSET listRows
                     /\ ToSet(page.rows) \in SUBSET seen
                     /\ \A r \in from \ moved : r \in Matching(list, query)
                     /\ page.hasNext => /\ page.end \in Nat /\ page.end > 0
                                        /\ \A r \in seen \ moved : Key(list, r) >= page.end
                     /\ ~torn /\ ~overlap => \A r \in from \ moved : r \in seen \/ (page.hasNext /\ Key(list, r) < page.end)
                     /\ list \in SplitLists /\ FixedTable(query) = {} =>
                          /\ \A r \in ToSet(page.rows) : TableOf(BlockOf(list, r)) <= TableOf(best)
                          /\ page.hasNext => TableOf(BlockOf(list, page.end)) <= TableOf(best))'
  BY <1>2 DEF WalkNow
<1>3. ASSUME NEW r \in listRows \ moved' PROVE Key(list, r)' = Key(list, r)
  BY <1>3 DEF Key
<1>4. ASSUME NEW r \in listRows \ moved', r \in Matching(list, query) PROVE r \in Matching(list, query)'
  <2>1. r \in listRows' /\ rank'[r] = rank[r] /\ query' = query
    OBVIOUS
  <2> QED
    BY <1>4, <2>1 DEF Matching
<1>5. (/\ query \in Queries(list) /\ seen \in SUBSET listRows /\ from \in SUBSET listRows
       /\ ToSet(page.rows) \in SUBSET seen)'
  BY <1>1 DEF WalkNow
<1>6. (\A r \in from \ moved : r \in Matching(list, query))'
  BY <1>1, <1>4 DEF WalkNow
<1>7. (page.hasNext => /\ page.end \in Nat /\ page.end > 0
                       /\ \A r \in seen \ moved : Key(list, r) >= page.end)'
  BY <1>1, <1>3 DEF WalkNow
<1>8. (~torn /\ ~overlap => \A r \in from \ moved : r \in seen \/ (page.hasNext /\ Key(list, r) < page.end))'
  BY <1>1, <1>3 DEF WalkNow
<1>9. (list \in SplitLists /\ FixedTable(query) = {} =>
         /\ \A r \in ToSet(page.rows) : TableOf(BlockOf(list, r)) <= TableOf(best)
         /\ page.hasNext => TableOf(BlockOf(list, page.end)) <= TableOf(best))'
  <2> SUFFICES ASSUME list \in SplitLists, FixedTable(query) = {}
               PROVE  /\ \A r \in ToSet(page.rows) : TableOf(BlockOf(list, r)) <= TableOf(best')
                      /\ page.hasNext => TableOf(BlockOf(list, page.end)) <= TableOf(best')
    BY Zenon DEF FixedTable
  <2>1. /\ \A r \in ToSet(page.rows) : TableOf(BlockOf(list, r)) <= TableOf(best)
        /\ page.hasNext => TableOf(BlockOf(list, page.end)) <= TableOf(best) /\ page.end \in Nat
    BY <1>1 DEF WalkNow
  <2>2. best \in Nat /\ TableOf(best) \in Nat /\ TableOf(best') \in Nat /\ TableOf(best) <= TableOf(best')
    <3>1. best \in Nat
      BY ReadAssumption DEF ReadTypes, Blocks
    <3> QED
      BY <3>1, TableIs, TablesUp
  <2>3. \A r \in ToSet(page.rows) : TableOf(BlockOf(list, r)) \in Nat
    <3>1. \A r \in ToSet(page.rows) : r \in Ids(list)
      BY <1>1 DEF WalkNow, ReadTypes
    <3> QED
      BY <3>1, IdsAre, TableIs DEF Blocks
  <2>4. page.hasNext => TableOf(BlockOf(list, page.end)) \in Nat
    <3>1. \A n \in Nat : BlockOf(list, n) \in Nat
      BY ReadAssumption, QuotientIs DEF BlockOf
    <3> QED
      BY <2>1, <3>1, TableIs
  <2> QED
    BY <2>1, <2>2, <2>3, <2>4
<1> QED
  BY <1>5, <1>6, <1>7, <1>8, <1>9


\* The first page starts a walk.
LEMMA FirstPageKeeps ==
    ASSUME ReadTypes, WalkHolds, AccountTablesNamed,
           NEW q \in Queries(list), NEW limit \in 0 .. MaxRow, NEW broken, FirstPage(q, limit, broken)
    PROVE  ReadTypes' /\ WalkHolds'
<1> DEFINE p == ServeList(list, q, limit, 0, 0, broken)
<1>1. /\ list # "none" /\ ~page.ok /\ query' = q /\ page' = p /\ seen' = ToSet(p.rows)
      /\ from' = Visible(list, q) /\ twice' = {} /\ moved' = {} /\ (torn' <=> broken # {})
      /\ UNCHANGED <<list, listRows, rank, best, mapping, worker, overlap>>
  BY DEF FirstPage, listVars
<1> HIDE DEF p
<1>2. RowsHere(list) /\ list \in TheLists
  BY <1>1, RowsAreHere
<1>3. CASE limit \notin 1 .. MaxRow
  <2>1. p = Rejected
    BY <1>2, <1>3, NoPageIsServed DEF p
  <2>2. ~p.ok /\ p.rows = <<>>
    BY <2>1 DEF Rejected
  <2>3. WalkNow'
    BY <1>1, <2>2 DEF WalkNow
  <2>4. ReadTypes'
    BY <1>1, <2>2 DEF ReadTypes
  <2> QED
    BY <2>3, <2>4 DEF WalkHolds
<1>4. CASE limit \in 1 .. MaxRow
  <2>1. CASE ~CursorFits(list)
    <3>1. ~CursorFits(list)'
      BY <1>1, <2>1 DEF CursorFits
    <3>2. p.ok
      <4>1. list \notin SplitLists
        BY <2>1, SplitIs
      <4>2. p = KeysetPage(list, Matching(list, q), limit, 0, 0)
        BY <1>2, <1>4, <4>1, PluginServes DEF p
      <4> QED
        BY <4>2 DEF KeysetPage, PageOf
    <3> QED
      BY <1>1, <3>1, <3>2 DEF ReadTypes, WalkHolds
  <2>2. CASE CursorFits(list)
    <3>1. PICK R : ReadsOf(list, q, 0, broken, R) /\ p = PageOf(list, Prefix(Descending(list, R), limit + 1), limit, 0, 0)
      BY <1>2, <1>4, <2>2, ServeForward DEF p
    <3>2. R \in SUBSET Matching(list, q) /\ R \in SUBSET Ids(list) /\ R \in SUBSET listRows /\ RanksKnown(list)
      BY <1>2, <3>1 DEF ReadsOf, RowsHere, Matching
    <3>3. Shows(list, p, R)
      BY <1>4, <2>2, <3>1, <3>2, PageShows
    <3>4. ReadTypes'
      BY <1>1, <3>3 DEF ReadTypes, Shows
    <3>5. \A r : Key(list, r)' = Key(list, r)
      BY <1>1 DEF Key
    <3>6. Matching(list, query)' = Matching(list, q)
      BY <1>1 DEF Matching
    <3>7. from' \in SUBSET Matching(list, q)
      BY <1>1 DEF Visible
    <3>8. ASSUME ~overlap, broken = {} PROVE R = from'
      <4>1. TablesTold(list, q)
        BY <3>8, TablesAreTold
      <4>2. R = After(list, Visible(list, q), 0)
        BY <3>1, <3>8, <4>1 DEF ReadsOf
      <4> QED
        BY <1>1, <4>2 DEF After
    <3>9. (/\ twice \in SUBSET moved
           /\ query \in Queries(list) /\ seen \in SUBSET listRows /\ from \in SUBSET listRows
           /\ ToSet(page.rows) \in SUBSET seen)'
      BY <1>1, <3>2, <3>3, <3>7 DEF Shows, Matching
    <3>10. (\A r \in from \ moved : r \in Matching(list, query))'
      BY <3>6, <3>7
    <3>11. (page.hasNext => /\ page.end \in Nat /\ page.end > 0
                            /\ \A r \in seen \ moved : Key(list, r) >= page.end)'
      BY <1>1, <3>3, <3>5 DEF Shows
    <3>12. (~torn /\ ~overlap => \A r \in from \ moved : r \in seen \/ (page.hasNext /\ Key(list, r) < page.end))'
      BY <1>1, <3>3, <3>5, <3>8 DEF Shows
    <3>13. (list \in SplitLists /\ FixedTable(query) = {} =>
              /\ \A r \in ToSet(page.rows) : TableOf(BlockOf(list, r)) <= TableOf(best)
              /\ page.hasNext => TableOf(BlockOf(list, page.end)) <= TableOf(best))'
      <4> SUFFICES ASSUME list \in SplitLists, FixedTable(q) = {}
                   PROVE  /\ \A r \in ToSet(p.rows) : TableOf(BlockOf(list, r)) <= TableOf(best)
                          /\ p.hasNext => TableOf(BlockOf(list, p.end)) <= TableOf(best)
        BY <1>1 DEF FixedTable
      <4>1. \A r \in R : TableOf(BlockOf(list, r)) <= TableOf(best)
        BY <3>1 DEF ReadsOf
      <4>2. \A r \in R : Key(list, r) = r
        BY <3>2, SplitIs
      <4> QED
        BY <3>3, <4>1, <4>2 DEF Shows
    <3> QED
      BY <3>4, <3>9, <3>10, <3>11, <3>12, <3>13 DEF WalkHolds, WalkNow
  <2> QED
    BY <2>1, <2>2
<1> QED
  BY <1>3, <1>4

\* The next page continues it.
LEMMA NextPageKeeps ==
    ASSUME ReadTypes, WalkHolds, AccountTablesNamed,
           NEW limit \in 1 .. MaxRow, NEW broken, NextPage(limit, broken)
    PROVE  ReadTypes' /\ WalkHolds'
<1> DEFINE p == ServeList(list, query, limit, 0, page.end, broken)
<1>1. /\ page.ok /\ page.hasNext /\ page' = p /\ seen' = seen \cup ToSet(p.rows)
      /\ twice' = twice \cup (ToSet(p.rows) \cap seen)
      /\ (torn' <=> torn \/ broken # {})
      /\ UNCHANGED <<list, listRows, rank, best, mapping, worker, overlap, query, from, moved>>
  BY DEF NextPage, listVars
<1> HIDE DEF p
<1>2. list # "none" /\ RowsHere(list) /\ list \in TheLists
  BY <1>1, RowsAreHere DEF ReadTypes
<1>3. CASE ~CursorFits(list)
  <2>1. ~CursorFits(list)'
    BY <1>1, <1>3 DEF CursorFits
  <2>2. p.ok
    <3>1. list \notin SplitLists
      BY <1>3, SplitIs
    <3>2. list = "evmAccounts"
      BY <1>3 DEF CursorFits
    <3>3. p = evmAccountsHandle(query, limit, 0, page.end)
      BY <3>2 DEF p, ServeList
    <3>4. p = KeysetPage("evmAccounts", Matching("evmAccounts", query), limit, 0, page.end)
      BY <3>3 DEF evmAccountsHandle, Validated, AccountsCursor
    <3> QED
      BY <3>4 DEF KeysetPage, PageOf
  <2> QED
    BY <1>1, <1>2, <2>1, <2>2 DEF ReadTypes, WalkHolds
<1>4. CASE CursorFits(list)
  <2>1. WalkNow /\ query \in Queries(list) /\ page.end \in Nat /\ page.end > 0
    BY <1>1, <1>4 DEF WalkHolds, WalkNow
  <2>2. PICK R : /\ ReadsOf(list, query, page.end, broken, R)
                 /\ p = PageOf(list, Prefix(Descending(list, R), limit + 1), limit, 0, page.end)
    BY <1>2, <1>4, <2>1, ServeForward DEF p
  <2>3. R \in SUBSET Matching(list, query) /\ R \in SUBSET Ids(list) /\ R \in SUBSET listRows /\ RanksKnown(list)
    BY <1>2, <2>2 DEF ReadsOf, RowsHere, Matching
  <2>4. Shows(list, p, R)
    <3>1. limit \in Nat \ {0}
      OBVIOUS
    <3> QED
      BY <1>4, <2>2, <2>3, <3>1, PageShows
  <2>5. ReadTypes'
    BY <1>1, <1>2, <2>4 DEF ReadTypes, Shows
  <2>6. \A r : Key(list, r)' = Key(list, r)
    BY <1>1 DEF Key
  <2>7. Matching(list, query)' = Matching(list, query)
    BY <1>1 DEF Matching
  <2>8. \A r \in R : Key(list, r) < page.end
    BY <2>1, <2>2 DEF ReadsOf, After
  <2>9. \A r \in listRows : Key(list, r) \in Nat
    BY <1>2, <1>4, KeyIs DEF RowsHere
  <2>10. (twice \in SUBSET moved)'
    <3>1. \A r \in ToSet(p.rows) \cap seen : r \in moved
      BY <1>1, <2>1, <2>3, <2>4, <2>8, <2>9 DEF WalkNow, Shows
    <3> QED
      BY <1>1, <2>1, <3>1 DEF WalkNow
  <2>11. (/\ query \in Queries(list) /\ seen \in SUBSET listRows /\ from \in SUBSET listRows
          /\ ToSet(page.rows) \in SUBSET seen)'
    BY <1>1, <2>1, <2>3, <2>4 DEF WalkNow, Shows
  <2>12. (\A r \in from \ moved : r \in Matching(list, query))'
    BY <1>1, <2>1, <2>7 DEF WalkNow
  <2>13. (page.hasNext => /\ page.end \in Nat /\ page.end > 0
                          /\ \A r \in seen \ moved : Key(list, r) >= page.end)'
    <3> SUFFICES ASSUME p.hasNext
                 PROVE  p.end \in Nat /\ p.end > 0 /\ \A r \in (seen \cup ToSet(p.rows)) \ moved : Key(list, r) >= p.end
      BY <1>1, <2>6
    <3>1. PICK s \in ToSet(p.rows) : p.end = Key(list, s)
      BY <2>4 DEF Shows
    <3>2. p.end \in Nat /\ p.end > 0 /\ p.end < page.end
      BY <2>4, <2>8, <3>1 DEF Shows
    <3>3. ASSUME NEW r \in seen \ moved PROVE Key(list, r) >= p.end
      <4>1. Key(list, r) >= page.end /\ Key(list, r) \in Nat
        BY <1>1, <2>1, <2>9 DEF WalkNow
      <4> QED
        BY <2>1, <3>2, <4>1
    <3> QED
      BY <2>4, <3>2, <3>3 DEF Shows
  <2>14. (~torn /\ ~overlap => \A r \in from \ moved : r \in seen \/ (page.hasNext /\ Key(list, r) < page.end))'
    <3> SUFFICES ASSUME ~torn, broken = {}, ~overlap, NEW r \in from \ moved
                 PROVE  r \in seen \cup ToSet(p.rows) \/ (p.hasNext /\ Key(list, r) < p.end)
      BY <1>1, <2>6
    <3>1. r \in Matching(list, query) /\ (r \in seen \/ Key(list, r) < page.end)
      BY <1>1, <2>1 DEF WalkNow
    <3>2. TablesTold(list, query)
      BY TablesAreTold
    <3>3. R = After(list, Matching(list, query), page.end)
      BY <2>1, <2>2, <3>2 DEF ReadsOf
    <3>4. r \in seen \/ r \in R
      BY <3>1, <3>3 DEF After
    <3> QED
      BY <2>4, <3>4 DEF Shows
  <2>15. (list \in SplitLists /\ FixedTable(query) = {} =>
            /\ \A r \in ToSet(page.rows) : TableOf(BlockOf(list, r)) <= TableOf(best)
            /\ page.hasNext => TableOf(BlockOf(list, page.end)) <= TableOf(best))'
    <3> SUFFICES ASSUME list \in SplitLists, FixedTable(query) = {}
                 PROVE  /\ \A r \in ToSet(p.rows) : TableOf(BlockOf(list, r)) <= TableOf(best)
                        /\ p.hasNext => TableOf(BlockOf(list, p.end)) <= TableOf(best)
      BY <1>1 DEF FixedTable
    <3>1. TableOf(BlockOf(list, page.end)) <= TableOf(best) /\ TableOf(BlockOf(list, page.end)) \in Nat /\ TableOf(best) \in Nat
      <4>1. BlockOf(list, page.end) \in Nat
        BY <2>1, ReadAssumption, QuotientIs DEF BlockOf
      <4> QED
        BY <1>1, <1>2, <2>1, <4>1, TableIs DEF WalkNow, RowsHere
    <3>2. ASSUME NEW r \in R PROVE TableOf(BlockOf(list, r)) <= TableOf(best)
      <4>1. TableOf(BlockOf(list, r)) <= TableOf(BlockOf(list, page.end))
        BY <2>1, <2>2 DEF ReadsOf
      <4>2. TableOf(BlockOf(list, r)) \in Nat
        BY <2>3, IdsAre, TableIs DEF Blocks
      <4> QED
        BY <3>1, <4>1, <4>2
    <3>3. \A r \in R : Key(list, r) = r
      BY <2>3, SplitIs
    <3> QED
      BY <2>4, <3>2, <3>3 DEF Shows
  <2> QED
    BY <2>5, <2>10, <2>11, <2>12, <2>13, <2>14, <2>15 DEF WalkHolds, WalkNow
<1> QED
  BY <1>3, <1>4


-----------------------------------------------------------------------------
\* The steps.
ReadInv == ReadTypes /\ WalkHolds /\ AccountTablesNamed

LEMMA ReadInitInv == ReadInit => ReadInv
<1> SUFFICES ASSUME ReadInit PROVE ReadInv
  OBVIOUS
<1>1. 0 \in Blocks /\ MaxBlock \in Nat
  BY ReadAssumption DEF Blocks
<1>2. page = Rejected /\ ~page.ok /\ page.rows = <<>>
  BY DEF ReadInit, Rejected
<1>3. worker = [w \in Indexers |-> NoTransaction] /\ NoTransaction \in Transactions /\ ~NoTransaction.busy
  BY <1>1 DEF ReadInit, NoTransaction, Transactions
<1>4. worker \in [Indexers -> Transactions] /\ \A w \in Indexers : ~worker[w].busy
  BY <1>3
<1>5. ReadTypes
  BY <1>1, <1>2, <1>4 DEF ReadInit, ReadTypes
<1>6. WalkHolds
  BY <1>2 DEF ReadInit, WalkHolds, WalkNow
<1>7. AccountTablesNamed
  BY DEF ReadInit, AccountTablesNamed
<1> QED
  BY <1>5, <1>6, <1>7 DEF ReadInv

LEMMA BestIs ==
    ASSUME ReadTypes
    PROVE  best \in Nat /\ best <= best
BY ReadAssumption DEF ReadTypes, Blocks

LEMMA OpenKeeps ==
    ASSUME ReadInv, NEW l \in Lists, Open(l)
    PROVE  ReadInv'
<1>1. /\ list = "none" /\ list' = l /\ rank' = [id \in Ids(l) |-> 0]
      /\ UNCHANGED <<listRows, best, mapping, worker, overlap, query, page, from, seen, twice, moved, torn>>
  BY DEF Open, walkVars
<1>2. ReadTypes /\ listRows = {} /\ ~page.ok
  BY <1>1 DEF ReadInv, ReadTypes
<1>3. rank' \in [Ids(l) -> 0 .. MaxRank] /\ l # "none"
  <2>1. 0 \in 0 .. MaxRank
    BY ReadAssumption
  <2>2. l # "none"
    BY ReadAssumption DEF SplitLists, RankedLists, OtherLists
  <2> QED
    BY <1>1, <2>1, <2>2
<1>4. ReadTypes'
  BY <1>1, <1>2, <1>3 DEF ReadTypes
<1>5. WalkHolds'
  <2>1. CursorFits(list)
    BY <1>1 DEF CursorFits
  <2>2. twice \in SUBSET moved
    BY <2>1 DEF ReadInv, WalkHolds, WalkNow
  <2> QED
    BY <1>1, <1>2, <2>2 DEF WalkHolds, WalkNow
<1>6. AccountTablesNamed'
  BY <1>1, <1>2 DEF AccountTablesNamed
<1> QED
  BY <1>4, <1>5, <1>6 DEF ReadInv

LEMMA BeginKeeps ==
    ASSUME ReadInv, NEW w \in Indexers, NEW b \in Blocks, Begin(w, b)
    PROVE  ReadInv'
<1> DEFINE e == [block |-> b, read |-> mapping, busy |-> TRUE]
<1>1. /\ list = "extrinsics" /\ worker' = [worker EXCEPT ![w] = e]
      /\ UNCHANGED <<list, listRows, rank, best, mapping, overlap, query, page, from, seen, twice, moved, torn>>
  BY DEF Begin, walkVars
<1>2. ReadTypes /\ WalkHolds
  BY DEF ReadInv
<1>3. e \in Transactions
  BY <1>2 DEF ReadTypes, Transactions
<1> HIDE DEF e
<1>4. worker' \in [Indexers -> Transactions]
  BY <1>1, <1>2, <1>3 DEF ReadTypes
<1>5. ReadTypes'
  BY <1>1, <1>2, <1>4 DEF ReadTypes
<1>6. WalkHolds'
  BY <1>1, <1>2, BestIs, WriterKeeps
<1>7. AccountTablesNamed'
  BY <1>1 DEF ReadInv, AccountTablesNamed
<1> QED
  BY <1>5, <1>6, <1>7 DEF ReadInv

LEMMA CommitKeeps ==
    ASSUME ReadInv, NEW w \in Indexers, CommitBlock(w)
    PROVE  ReadInv'
<1> DEFINE b    == worker[w].block
           read == worker[w].read
           S(T) == {TableOf(BlockOf(list, r)) : r \in {s \in T : Signed(s)}}
<1>1. /\ worker[w].busy /\ listRows' = listRows \cup RowsOf(list, b)
      /\ mapping' = UpdateAccountExtrinsicMapping(read, b)
      /\ (overlap' <=> overlap \/ mapping # read)
      /\ worker' = [worker EXCEPT ![w] = NoTransaction]
      /\ UNCHANGED <<list, rank, best, query, page, from, seen, twice, moved, torn>>
  BY DEF CommitBlock, walkVars
<1>2. ReadTypes /\ WalkHolds /\ AccountTablesNamed
  BY DEF ReadInv
<1>3. b \in Blocks /\ read \in SUBSET AllTables /\ list = "extrinsics"
  <2>1. worker[w] \in Transactions
    BY <1>2 DEF ReadTypes
  <2> QED
    BY <1>1, <1>2, <2>1 DEF ReadTypes, Transactions
<1>4. TableOf(b) \in AllTables
  <2>1. b \in Nat /\ MaxBlock \in Nat /\ b <= MaxBlock
    BY <1>3, ReadAssumption DEF Blocks
  <2>2. TableOf(b) \in Nat /\ TableOf(MaxBlock) \in Nat /\ TableOf(b) <= TableOf(MaxBlock)
    BY <2>1, TableIs, TablesUp
  <2> QED
    BY <2>2 DEF AllTables
<1>5. NoTransaction \in Transactions /\ ~NoTransaction.busy
  BY ReadAssumption DEF NoTransaction, Transactions, Blocks
<1> HIDE DEF b, read
<1>6. mapping' \in SUBSET AllTables
  BY <1>1, <1>2, <1>3, <1>4 DEF UpdateAccountExtrinsicMapping, ReadTypes
<1>7. worker' \in [Indexers -> Transactions] /\ \A v \in Indexers : worker'[v].busy => worker[v].busy
  BY <1>1, <1>2, <1>5 DEF ReadTypes
<1>8. listRows' \in SUBSET Ids(list)
  BY <1>1, <1>2, <1>3 DEF ReadTypes, Ids
<1>9. ReadTypes'
  BY <1>1, <1>2, <1>3, <1>6, <1>7, <1>8 DEF ReadTypes
<1>10. WalkHolds'
  <2>1. listRows \in SUBSET listRows' /\ (overlap => overlap') /\ \A r \in listRows \ moved' : rank'[r] = rank[r]
    BY <1>1
  <2> QED
    BY <1>1, <1>2, <2>1, BestIs, WriterKeeps
<1>11. AccountTablesNamed'
  <2> SUFFICES ASSUME ~overlap', NEW r \in listRows', Signed(r) PROVE TableOf(BlockOf(list, r)) \in mapping'
    BY <1>1 DEF AccountTablesNamed
  <2>1. ~overlap /\ mapping = read
    BY <1>1
  <2>2. mapping' = IF TableOf(b) \in mapping THEN mapping ELSE mapping \cup {TableOf(b)}
    BY <1>1, <2>1 DEF UpdateAccountExtrinsicMapping
  <2>3. r \in listRows => TableOf(BlockOf(list, r)) \in mapping
    BY <1>2, <1>3, <2>1 DEF AccountTablesNamed
  <2>4. r \in RowsOf(list, b) => BlockOf(list, r) = b
    BY <1>3, RowsOfIs
  <2> QED
    BY <1>1, <2>2, <2>3, <2>4
<1> QED
  BY <1>9, <1>10, <1>11 DEF ReadInv

LEMMA InsertKeeps ==
    ASSUME ReadInv, NEW b \in Blocks, NEW k \in 0 .. MaxRank, Insert(b, k)
    PROVE  ReadInv'
<1>1. /\ list \notin {"none", "extrinsics"} /\ RowsOf(list, b) \cap listRows = {}
      /\ listRows' = listRows \cup RowsOf(list, b)
      /\ rank' = [id \in DOMAIN rank |-> IF id \in RowsOf(list, b) THEN k ELSE rank[id]]
      /\ UNCHANGED <<list, best, mapping, worker, overlap, query, page, from, seen, twice, moved, torn>>
  BY DEF Insert, walkVars
<1>2. ReadTypes /\ WalkHolds /\ rank \in [Ids(list) -> 0 .. MaxRank] /\ DOMAIN rank = Ids(list)
  BY <1>1 DEF ReadInv, ReadTypes
<1>3. listRows' \in SUBSET Ids(list)
  BY <1>1, <1>2 DEF ReadTypes, Ids
<1>4. rank' \in [Ids(list) -> 0 .. MaxRank]
  <2>1. \A id \in Ids(list) : rank[id] \in 0 .. MaxRank
    BY <1>2
  <2> QED
    BY <1>1, <1>2, <2>1
<1>5. ReadTypes'
  BY <1>1, <1>2, <1>3, <1>4 DEF ReadTypes
<1>6. WalkHolds'
  <2>1. listRows \in SUBSET listRows' /\ \A r \in listRows \ moved' : rank'[r] = rank[r]
    BY <1>1, <1>2 DEF ReadTypes
  <2> QED
    BY <1>1, <1>2, <2>1, BestIs, WriterKeeps
<1>7. AccountTablesNamed'
  BY <1>1 DEF AccountTablesNamed
<1> QED
  BY <1>5, <1>6, <1>7 DEF ReadInv

LEMMA MarkKeeps ==
    ASSUME ReadInv, NEW b \in Blocks, MarkBest(b)
    PROVE  ReadInv'
<1>1. /\ list \in SplitLists /\ b > best /\ best' = b
      /\ UNCHANGED <<list, listRows, rank, mapping, worker, overlap, query, page, from, seen, twice, moved, torn>>
  BY DEF MarkBest, walkVars
<1>2. ReadTypes /\ WalkHolds
  BY DEF ReadInv
<1>3. best' \in Nat /\ best <= best'
  BY <1>1, <1>2, ReadAssumption DEF ReadTypes, Blocks
<1>4. ReadTypes'
  BY <1>1, <1>2 DEF ReadTypes
<1>5. WalkHolds'
  BY <1>1, <1>2, <1>3, WriterKeeps
<1>6. AccountTablesNamed'
  BY <1>1 DEF ReadInv, AccountTablesNamed
<1> QED
  BY <1>4, <1>5, <1>6 DEF ReadInv

LEMMA TouchKeeps ==
    ASSUME ReadInv, NEW id \in DOMAIN rank, NEW k \in 0 .. MaxRank, Touch(id, k)
    PROVE  ReadInv'
<1>1. /\ list \in RankedLists /\ id \in listRows /\ rank' = [rank EXCEPT ![id] = k] /\ moved' = moved \cup {id}
      /\ UNCHANGED <<list, listRows, best, mapping, worker, overlap, query, page, from, seen, twice, torn>>
  BY DEF Touch
<1>2. ReadTypes /\ WalkHolds /\ list # "none" /\ list # "extrinsics"
  BY <1>1 DEF ReadInv, RankedLists
<1>3. rank \in [Ids(list) -> 0 .. MaxRank]
  BY <1>2 DEF ReadTypes
<1>4. rank' \in [Ids(list) -> 0 .. MaxRank] /\ \A r \in listRows \ moved' : rank'[r] = rank[r]
  <2>1. listRows \in SUBSET Ids(list)
    BY <1>2 DEF ReadTypes
  <2> QED
    BY <1>1, <1>3, <2>1
<1>5. ReadTypes'
  BY <1>1, <1>2, <1>4 DEF ReadTypes
<1>6. WalkHolds'
  BY <1>1, <1>2, <1>4, BestIs, WriterKeeps
<1>7. AccountTablesNamed'
  BY <1>1, <1>2 DEF AccountTablesNamed
<1> QED
  BY <1>5, <1>6, <1>7 DEF ReadInv

LEMMA ReadStepInv ==
    ASSUME ReadInv, [ReadNext]_readVars
    PROVE  ReadInv'
<1>1. ASSUME NEW l \in Lists, Open(l) PROVE ReadInv'
  BY <1>1, OpenKeeps
<1>2. ASSUME NEW w \in Indexers, NEW b \in Blocks, Begin(w, b) PROVE ReadInv'
  BY <1>2, BeginKeeps
<1>3. ASSUME NEW w \in Indexers, CommitBlock(w) PROVE ReadInv'
  BY <1>3, CommitKeeps
<1>4. ASSUME NEW b \in Blocks, NEW k \in 0 .. MaxRank, Insert(b, k) PROVE ReadInv'
  BY <1>4, InsertKeeps
<1>5. ASSUME NEW b \in Blocks, MarkBest(b) PROVE ReadInv'
  BY <1>5, MarkKeeps
<1>6. ASSUME NEW id \in DOMAIN rank, NEW k \in 0 .. MaxRank, Touch(id, k) PROVE ReadInv'
  BY <1>6, TouchKeeps
<1>7. ASSUME NEW q \in Queries(list), NEW limit \in 0 .. MaxRow, NEW broken, FirstPage(q, limit, broken) PROVE ReadInv'
  <2>1. ReadTypes' /\ WalkHolds'
    BY <1>7, FirstPageKeeps DEF ReadInv
  <2>2. UNCHANGED <<list, listRows, mapping, overlap>>
    BY <1>7 DEF FirstPage, listVars
  <2> QED
    BY <2>1, <2>2 DEF ReadInv, AccountTablesNamed
<1>8. ASSUME NEW limit \in 1 .. MaxRow, NEW broken, NextPage(limit, broken) PROVE ReadInv'
  <2>1. ReadTypes' /\ WalkHolds'
    BY <1>8, NextPageKeeps DEF ReadInv
  <2>2. UNCHANGED <<list, listRows, mapping, overlap>>
    BY <1>8 DEF NextPage, listVars
  <2> QED
    BY <2>1, <2>2 DEF ReadInv, AccountTablesNamed
<1>9. ASSUME UNCHANGED readVars PROVE ReadInv'
  <2>1. UNCHANGED <<list, listRows, rank, best, mapping, worker, overlap, query, page, from, seen, twice, moved, torn>>
    BY <1>9 DEF readVars, listVars, walkVars
  <2>2. ReadTypes'
    BY <2>1 DEF ReadInv, ReadTypes
  <2>3. WalkHolds'
    BY <2>1, BestIs, WriterKeeps DEF ReadInv
  <2> QED
    BY <2>1, <2>2, <2>3 DEF ReadInv, AccountTablesNamed
<1> QED
  BY <1>1, <1>2, <1>3, <1>4, <1>5, <1>6, <1>7, <1>8, <1>9 DEF ReadNext

LEMMA ReadInvHolds == ReadSpec => []ReadInv
BY ReadInitInv, ReadStepInv, PTL DEF ReadSpec


-----------------------------------------------------------------------------
\* What the invariant says of the walk.
LEMMA InvWalks == ReadInv => WalksExact
<1> SUFFICES ASSUME ReadInv PROVE WalksExact
  OBVIOUS
<1>1. ReadTypes /\ WalkHolds /\ AccountTablesNamed
  BY DEF ReadInv
<1>2. NoRowTwice
  BY <1>1 DEF NoRowTwice, WalkHolds, WalkNow
<1>3. NothingSkipped
  BY <1>1 DEF NothingSkipped, WalkHolds, WalkNow
<1>4. SplitIsOneTable
  <2> SUFFICES ASSUME list \in SplitLists, NEW q \in Queries(list), NEW n \in 1 .. MaxRow, NEW c \in Ids(list),
                      ~(q.account /\ overlap)
               PROVE  /\ c > 0 => ServeList(list, q, n, 0, c, {}) = KeysetPage(list, Matching(list, q), n, 0, c)
                      /\ ServeList(list, q, n, c, 0, {}) = KeysetPage(list, Visible(list, q), n, c, 0)
    BY DEF SplitIsOneTable
  <2>1. RowsHere(list)
    <3>1. list # "none"
      BY DEF SplitLists
    <3> QED
      BY <1>1, <3>1, RowsAreHere
  <2>2. TablesTold(list, q)
    <3>1. CASE overlap
      BY <3>1 DEF TablesTold
    <3>2. CASE ~overlap
      BY <1>1, <3>2, TablesAreTold
    <3> QED
      BY <3>1, <3>2
  <2> QED
    BY <2>1, <2>2, SplitServesAsOne
<1> QED
  BY <1>1, <1>2, <1>3, <1>4 DEF WalksExact

LEMMA FoundIs ==
    ASSUME NEW l, NEW id, NEW top \in Nat, id \in listRows, TableOf(BlockOf(l, id)) \in Nat, TableOf(BlockOf(l, id)) <= top
    PROVE  FoundFrom(l, id, top)
BY DEF FoundFrom

LEMMA InvFound == ReadInv => ShownIsFound
<1> DEFINE shown == ToSet(page.rows)
<1> SUFFICES ASSUME ReadInv PROVE ShownIsFound
  OBVIOUS
<1>1. ReadTypes /\ WalkHolds
  BY DEF ReadInv
<1>2. list \in SplitLists => WalkNow
  BY <1>1, SplitIs DEF WalkHolds
<1>3. ~page.ok => shown = {}
  <2>1. ToSet(<<>>) = {}
    BY DEF ToSet
  <2> QED
    BY <1>1, <2>1 DEF ReadTypes
<1>4. ASSUME list \in SplitLists, page.ok => FixedTable(query) = {}, NEW r \in shown
      PROVE  /\ r \in listRows /\ r \in Ids(list) /\ TableOf(BlockOf(list, r)) \in Nat
             /\ TableOf(BlockOf(list, r)) <= TableOf(best)
  <2>1. page.ok
    BY <1>3
  <2>2. r \in listRows /\ TableOf(BlockOf(list, r)) <= TableOf(best)
    BY <1>2, <1>4, <2>1 DEF WalkNow
  <2>3. r \in Ids(list)
    BY <1>1, <2>2 DEF ReadTypes
  <2> QED
    BY <2>2, <2>3, IdsAre, TableIs DEF Blocks
<1>5. best \in Nat /\ TableOf(best) \in Nat
  BY <1>1, BestIs, TableIs
<1> HIDE DEF shown
<1>6. ASSUME list = "blocks"
      PROVE  /\ \A b \in shown, tip \in best .. MaxBlock : GetBlockByHash(b, tip, best)
             /\ \A nums \in SUBSET shown : BlocksReverseByNum(nums) = nums /\ GetBlocksByNums(nums) = nums
  <2>1. list \in SplitLists /\ (page.ok => FixedTable(query) = {})
    <3>1. list \in SplitLists
      BY <1>6 DEF SplitLists
    <3>2. page.ok => query \in Queries(list)
      BY <1>2, <3>1 DEF WalkNow
    <3>3. page.ok => query.block = 0
      <4>1. list \notin {"extrinsics", "events"}
        BY <1>6
      <4> QED
        BY <3>2, <4>1, QueryIs
    <3> QED
      BY <3>1, <3>3 DEF FixedTable
  <2>2. ASSUME NEW r \in shown PROVE /\ r \in listRows /\ r \in Blocks /\ r \in Nat /\ BlockOf(list, r) = r
                                     /\ TableOf(r) \in Nat /\ TableOf(r) <= TableOf(best)
    <3>1. BlockOf(list, r) = r
      BY <1>6 DEF BlockOf
    <3>2. r \in Ids(list) /\ r \in listRows /\ TableOf(r) \in Nat /\ TableOf(r) <= TableOf(best)
      BY <1>4, <2>1, <3>1
    <3> QED
      BY <3>1, <3>2, IdsAre
  <2>3. ASSUME NEW b \in shown, NEW tip \in best .. MaxBlock PROVE GetBlockByHash(b, tip, best)
    <3> DEFINE n == IF tip = 0 THEN best ELSE tip
    <3>1. n \in Nat /\ best <= n
      BY <1>5, ReadAssumption
    <3> HIDE DEF n
    <3>2. TableOf(n) \in Nat /\ TableOf(best) <= TableOf(n)
      BY <1>5, <3>1, TableIs, TablesUp
    <3>3. TableOf(BlockOf("blocks", b)) <= TableOf(n) /\ TableOf(BlockOf("blocks", b)) \in Nat /\ b \in listRows
      BY <1>5, <1>6, <2>2, <3>2
    <3>4. FoundFrom("blocks", b, TableOf(n))
      BY <3>2, <3>3, FoundIs
    <3> QED
      BY <3>4 DEF GetBlockByHash, n
  <2>4. ASSUME NEW nums \in SUBSET shown PROVE BlocksReverseByNum(nums) = nums
    <3>1. CASE nums = {}
      BY <3>1 DEF BlocksReverseByNum
    <3>2. CASE nums # {}
      <4> DEFINE last == CHOOSE n \in nums : \A k \in nums : k <= n
      <4>1. last \in nums /\ \A k \in nums : k <= last
        <5>1. \E n \in nums : \A k \in nums : k <= n
          <6>1. nums \in SUBSET Nat /\ nums \in SUBSET (0 .. MaxBlock)
            BY <2>2 DEF Blocks
          <6>2. IsFiniteSet(0 .. MaxBlock)
            BY ReadAssumption, FS_Interval
          <6>3. IsFiniteSet(nums)
            BY <6>1, <6>2, FS_Subset
          <6> QED
            BY <3>2, <6>1, <6>3, HighestPlace
        <5> QED
          BY <5>1
      <4>2. BlocksReverseByNum(nums) = {b \in nums \cap listRows : \E t \in 0 .. TableOf(last) : TableOf(b) = t}
        BY <3>2 DEF BlocksReverseByNum
      <4> HIDE DEF last
      <4>3. ASSUME NEW b \in nums PROVE b \in listRows /\ TableOf(b) \in 0 .. TableOf(last)
        <5>1. b \in Nat /\ last \in Nat /\ b <= last /\ b \in listRows
          BY <2>2, <4>1
        <5> QED
          BY <5>1, TableIs, TablesUp
      <4> QED
        BY <4>2, <4>3
    <3> QED
      BY <3>1, <3>2
  <2>5. ASSUME NEW nums \in SUBSET shown PROVE GetBlocksByNums(nums) = nums
    <3>1. \A n \in nums : n \in listRows
      BY <2>2
    <3>2. GetBlocksByNums(nums) = UNION {{b \in nums \cap listRows : TableOf(b) = t} : t \in {TableOf(n) : n \in nums}}
      BY DEF GetBlocksByNums
    <3>3. ASSUME NEW b \in nums PROVE b \in GetBlocksByNums(nums)
      <4>1. b \in {x \in nums \cap listRows : TableOf(x) = TableOf(b)}
        BY <3>1
      <4>2. TableOf(b) \in {TableOf(n) : n \in nums}
        OBVIOUS
      <4> QED
        BY <3>2, <4>1, <4>2
    <3>4. ASSUME NEW b \in GetBlocksByNums(nums) PROVE b \in nums
      BY <3>2, <3>4
    <3> QED
      BY <3>3, <3>4
  <2> QED
    BY <2>3, <2>4, <2>5
<1>7. ASSUME list = "extrinsics", query.block = 0, NEW id \in shown
      PROVE  GetExtrinsicsByHash(id) /\ GetExtrinsicsByIndex(id) = {id}
  <2>1. list \in SplitLists /\ FixedTable(query) = {}
    BY <1>7 DEF SplitLists, FixedTable
  <2>2. id \in listRows /\ TableOf(BlockOf("extrinsics", id)) \in Nat /\ TableOf(BlockOf("extrinsics", id)) <= TableOf(best)
    BY <1>4, <1>7, <2>1
  <2>3. FoundFrom("extrinsics", id, TableOf(best))
    BY <1>5, <2>2, FoundIs
  <2> QED
    BY <2>2, <2>3 DEF GetExtrinsicsByHash, GetExtrinsicsByIndex
<1> QED
  BY <1>6, <1>7 DEF ShownIsFound, shown

\* A walk over the pages of a list shows no row twice and passes over none,
\* whatever workers store meanwhile, and the rows spread over split tables are
\* paged as those of one table.
THEOREM WalksAreExact == ReadSpec => []WalksExact
BY ReadInvHolds, InvWalks, PTL

\* A block or an extrinsic that a page showed is found by its hash and by number.
THEOREM ShownRowsAreFound == ReadSpec => []ShownIsFound
BY ReadInvHolds, InvFound, PTL
=============================================================================
