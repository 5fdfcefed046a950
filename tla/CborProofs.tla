----------------------------- MODULE CborProofs -----------------------------
(***************************************************************************)
(* Proofs about the parser of the audit envelopes (Cbor), for byte strings *)
(* of any length and values of any depth: an accepted body is the only one *)
(* with its value (OneBody, EqualValues), and no field of a map hides      *)
(* another (NoHiddenField).                                                *)
(*                                                                         *)
(* The argument goes from the inside out: the digits of a number, heads,   *)
(* items parsed at an offset, lists of items, the order of the keys of a   *)
(* map, and last two items whose values are alike.  What is parsed at an   *)
(* offset depends on what is parsed further on, so the inductions start    *)
(* from the end of the string.                                             *)
(***************************************************************************)
EXTENDS Cbor, FiniteSetTheorems, SequenceTheorems, WellFoundedInduction, TLAPS

-----------------------------------------------------------------------------
(* A set of numbers has a least one.                                       *)
LEMMA LeastOf ==
    ASSUME NEW S, S \subseteq Nat, S # {}
    PROVE  \E m \in S : \A k \in S : m <= k
<1>1. IsWellFoundedOn(OpToRel(<, Nat), Nat)
  BY NatLessThanWellFounded
<1>2. PICK m \in S : \A k \in S : ~(<<k, m>> \in OpToRel(<, Nat))
  BY <1>1, WFMin
<1>3. \A k \in S : ~(k < m)
  BY <1>2 DEF OpToRel
<1> QED
  BY <1>3

(* What the proofs call a byte string.                                     *)
Byte == 0 .. 255

LEMMA ByteIs ==
    ASSUME NEW b \in Byte
    PROVE  b \in Nat /\ b < 256
BY DEF Byte

LEMMA OctetIs ==
    ASSUME NEW s \in Seq(Byte), NEW i \in 1 .. Len(s)
    PROVE  s[i] \in Nat /\ s[i] < 256
<1>1. s[i] \in Byte
  BY ElementOfSeq
<1> QED
  BY <1>1, ByteIs

(* The numbers that readN passes through.                                  *)
Digits(f, s, off, n) ==
    /\ f[0] = 0
    /\ \A i \in 1 .. n : f[i] = f[i - 1] * 256 + s[off + i]
    /\ \A i \in 0 .. n : f[i] \in Nat

LEMMA ReadsDigits ==
    ASSUME NEW s \in Seq(Byte), NEW off \in Nat, NEW n \in Nat, off + n <= Len(s)
    PROVE  \E f : Digits(f, s, off, n) /\ readN(s, off, n) = f[n]
<1> DEFINE Next(f, i) == IF i = 0 THEN 0 ELSE f[i - 1] * 256 + s[off + i]
           Reads(f, m) == f = [i \in 0 .. m |-> Next(f, i)]
<1>1. \A i \in 1 .. n : off + i \in 1 .. Len(s)
  OBVIOUS
<1>2. ASSUME NEW m \in Nat, m <= n PROVE \E f : Reads(f, m)
  <2> DEFINE bad == {k \in Nat : k <= n /\ ~\E f : Reads(f, k)}
  <2> HIDE DEF Reads
  <2> SUFFICES ASSUME bad # {} PROVE FALSE
    BY <1>2
  <2>1. PICK k \in bad : \A j \in bad : k <= j
    <3> HIDE DEF bad
    <3>1. bad \subseteq Nat
      BY DEF bad
    <3> QED
      BY <3>1, LeastOf
  <2>2. k # 0
    <3> DEFINE f == [i \in 0 .. 0 |-> 0]
    <3>1. Reads(f, 0)
      BY DEF Reads
    <3> QED
      BY <3>1
  <2>3. k \in Nat /\ k - 1 \in Nat /\ k <= n /\ k - 1 \notin bad
    BY <2>1, <2>2
  <2>4. PICK g : Reads(g, k - 1)
    BY <2>3
  <2> DEFINE f == [i \in 0 .. k |-> Next(g, i)]
  <2>5. \A i \in 0 .. k - 1 : f[i] = g[i]
    BY <2>3, <2>4 DEF Reads
  <2>6. \A i \in 0 .. k : Next(f, i) = Next(g, i)
    <3> SUFFICES ASSUME NEW i \in 0 .. k PROVE Next(f, i) = Next(g, i)
      OBVIOUS
    <3>1. CASE i = 0
      BY <3>1
    <3>2. CASE i # 0
      <4>1. i - 1 \in 0 .. k - 1
        BY <2>3, <3>2
      <4> HIDE DEF f
      <4> QED
        BY <2>5, <3>2, <4>1
    <3> QED
      BY <3>1, <3>2
  <2>7. Reads(f, k)
    <3>1. f = [i \in 0 .. k |-> Next(g, i)]
      OBVIOUS
    <3> HIDE DEF f, Next
    <3>2. f = [i \in 0 .. k |-> Next(f, i)]
      BY <2>6, <3>1, Zenon
    <3> QED
      BY <3>2 DEF Reads
  <2> HIDE DEF f
  <2> QED
    BY <2>1, <2>7
<1> DEFINE f == CHOOSE f : Reads(f, n)
<1>3. Reads(f, n)
  <2> HIDE DEF Reads
  <2> QED
    BY <1>2
<1>4. readN(s, off, n) = f[n]
  BY DEF readN
<1> HIDE DEF f
<1>5. f[0] = 0 /\ \A i \in 1 .. n : f[i] = f[i - 1] * 256 + s[off + i]
  BY <1>3
<1>6. \A i \in 0 .. n : f[i] \in Nat
  <2> DEFINE bad == {i \in Nat : i <= n /\ f[i] \notin Nat}
  <2> SUFFICES ASSUME bad # {} PROVE FALSE
    OBVIOUS
  <2>1. PICK k \in bad : \A j \in bad : k <= j
    <3> HIDE DEF bad
    <3>1. bad \subseteq Nat
      BY DEF bad
    <3> QED
      BY <3>1, LeastOf
  <2>2. k \in 1 .. n /\ k - 1 \in Nat /\ k - 1 \notin bad
    BY <1>5, <2>1
  <2>3. f[k - 1] \in Nat /\ s[off + k] \in Nat
    BY <1>1, <2>2, OctetIs
  <2>4. f[k - 1] * 256 + s[off + k] \in Nat
    BY SMTT(60), <2>3
  <2> QED
    BY <1>5, <2>1, <2>2, <2>4
<1> QED
  BY <1>4, <1>5, <1>6 DEF Digits

(* A number has one string of digits of a length.                          *)
LEMMA SameDigits ==
    ASSUME NEW s \in Seq(Byte), NEW off \in Nat, NEW t \in Seq(Byte), NEW at \in Nat, NEW n \in Nat,
           off + n <= Len(s), at + n <= Len(t), readN(s, off, n) = readN(t, at, n)
    PROVE  \A i \in 1 .. n : s[off + i] = t[at + i]
<1>1. PICK f : Digits(f, s, off, n) /\ readN(s, off, n) = f[n]
  BY ReadsDigits
<1>2. PICK g : Digits(g, t, at, n) /\ readN(t, at, n) = g[n]
  BY ReadsDigits
<1>3. ASSUME NEW i \in 1 .. n
      PROVE  s[off + i] \in Nat /\ s[off + i] < 256 /\ t[at + i] \in Nat /\ t[at + i] < 256
  <2>1. off + i \in 1 .. Len(s) /\ at + i \in 1 .. Len(t)
    OBVIOUS
  <2> QED
    BY <2>1, OctetIs
<1>4. ASSUME NEW i \in 1 .. n, f[i] = g[i]
      PROVE  f[i - 1] = g[i - 1] /\ s[off + i] = t[at + i]
  <2>1. f[i] = f[i - 1] * 256 + s[off + i] /\ g[i] = g[i - 1] * 256 + t[at + i]
        /\ f[i - 1] \in Nat /\ g[i - 1] \in Nat
    BY <1>1, <1>2 DEF Digits
  <2>2. s[off + i] \in Nat /\ s[off + i] < 256 /\ t[at + i] \in Nat /\ t[at + i] < 256
    BY <1>3
  <2> DEFINE a == f[i - 1]
             b == s[off + i]
             c == g[i - 1]
             d == t[at + i]
  <2>3. a * 256 + b = c * 256 + d /\ a \in Nat /\ b \in Nat /\ c \in Nat /\ d \in Nat /\ b < 256 /\ d < 256
    BY <1>4, <2>1, <2>2
  <2> HIDE DEF a, b, c, d
  <2>4. a = c /\ b = d
    BY ONLY <2>3
  <2> QED
    BY <2>4 DEF a, b, c, d
<1>5. \A i \in 0 .. n : f[i] = g[i]
  <2> DEFINE bad == {k \in Nat : k <= n /\ f[n - k] # g[n - k]}
  <2> SUFFICES ASSUME bad # {} PROVE FALSE
    <3>1. bad = {}
      OBVIOUS
    <3> SUFFICES ASSUME NEW i \in 0 .. n PROVE f[i] = g[i]
      OBVIOUS
    <3>2. n - i \in Nat /\ n - i <= n /\ n - (n - i) = i
      OBVIOUS
    <3>3. n - i \notin bad
      BY <3>1
    <3> QED
      BY <3>2, <3>3
  <2>1. PICK k \in bad : \A j \in bad : k <= j
    <3> HIDE DEF bad
    <3>1. bad \subseteq Nat
      BY DEF bad
    <3> QED
      BY <3>1, LeastOf
  <2>2. k # 0
    <3>1. n - 0 = n
      OBVIOUS
    <3>2. f[n] = g[n]
      BY <1>1, <1>2
    <3> QED
      BY <2>1, <3>1, <3>2
  <2>3. k \in Nat /\ k <= n /\ k - 1 \in Nat /\ k - 1 \notin bad
    <3>1. k \in Nat /\ k <= n
      BY <2>1
    <3>2. k - 1 \in Nat /\ ~(k <= k - 1)
      BY <2>2, <3>1
    <3> HIDE DEF bad
    <3> QED
      BY <2>1, <3>1, <3>2
  <2>4. f[n - (k - 1)] = g[n - (k - 1)]
    BY <2>3
  <2>5. n - (k - 1) \in 1 .. n /\ n - (k - 1) - 1 = n - k
    BY SMTT(60), <2>2, <2>3
  <2>6. f[n - k] = g[n - k]
    BY <1>4, <2>4, <2>5
  <2> QED
    BY <2>1, <2>6
<1> SUFFICES ASSUME NEW i \in 1 .. n PROVE s[off + i] = t[at + i]
  OBVIOUS
<1>6. f[i] = g[i]
  BY <1>5
<1> QED
  BY <1>4, <1>6

LEMMA NumberBounds ==
    ASSUME NEW s \in Seq(Byte), NEW off \in Nat, NEW n \in Nat, off + n <= Len(s)
    PROVE  /\ readN(s, off, n) \in Nat
           /\ n = 1 => readN(s, off, 1) < 256
           /\ n = 2 => readN(s, off, 2) < 65536
           /\ n = 4 => readN(s, off, 4) < 65536 * 65536
<1>1. PICK f : Digits(f, s, off, n) /\ readN(s, off, n) = f[n]
  BY ReadsDigits
<1>2. ASSUME NEW i \in 1 .. n PROVE s[off + i] \in Nat /\ s[off + i] < 256
  <2>1. off + i \in 1 .. Len(s)
    OBVIOUS
  <2> QED
    BY <2>1, OctetIs
<1>3. f[n] \in Nat
  BY <1>1 DEF Digits
<1>4. ASSUME NEW i \in 1 .. n, NEW k \in Nat, f[i - 1] < k PROVE f[i] \in Nat /\ f[i] < 256 * k
  <2>1. f[i] = f[i - 1] * 256 + s[off + i] /\ f[i - 1] \in Nat
    BY <1>1 DEF Digits
  <2>2. s[off + i] \in Nat /\ s[off + i] < 256
    BY <1>2
  <2> DEFINE a == f[i - 1]
             b == s[off + i]
  <2>3. a \in Nat /\ b \in Nat /\ b < 256 /\ a < k
    BY <1>4, <2>1, <2>2
  <2> HIDE DEF a, b
  <2>4. a * 256 + b \in Nat /\ a * 256 + b < 256 * k
    BY ONLY <2>3, k \in Nat
  <2> QED
    BY <2>1, <2>4 DEF a, b
<1>5. f[0] < 1
  BY <1>1 DEF Digits
<1>6. n >= 1 => f[1] < 256
  <2> SUFFICES ASSUME n >= 1 PROVE f[1] < 256
    OBVIOUS
  <2>1. 1 \in 1 .. n /\ f[1 - 1] < 1
    BY <1>5
  <2> QED
    BY <1>4, <2>1
<1>7. n >= 2 => f[2] < 65536
  <2> SUFFICES ASSUME n >= 2 PROVE f[2] < 65536
    OBVIOUS
  <2>1. 2 \in 1 .. n /\ f[2 - 1] < 256
    BY <1>6
  <2> QED
    BY <1>4, <2>1
<1>8. n >= 4 => f[4] < 65536 * 65536
  <2> SUFFICES ASSUME n >= 4 PROVE f[4] < 65536 * 65536
    OBVIOUS
  <2>1. 3 \in 1 .. n /\ f[3 - 1] < 65536
    BY <1>7
  <2>2. f[3] < 256 * 65536
    BY <1>4, <2>1
  <2>3. 4 \in 1 .. n /\ f[4 - 1] < 256 * 65536 /\ 256 * 65536 \in Nat
    BY <2>2
  <2> QED
    BY <1>4, <2>3
<1> QED
  BY <1>1, <1>3, <1>6, <1>7, <1>8

LEMMA NumberType ==
    ASSUME NEW s \in Seq(Byte), NEW off \in Nat, NEW a \in 0 .. 31, Complete(s, off, a)
    PROVE  Follow(a) \in Nat /\ Number(s, off, a) \in Nat
<1>1. Follow(a) \in Nat
  BY DEF Follow
<1>2. readN(s, off, Follow(a)) \in Nat
  BY <1>1, NumberBounds DEF Complete
<1> QED
  BY <1>1, <1>2 DEF Number

(* Which numbers a head tells, by its low bits.                            *)
Tells(a, n) ==
    /\ n \in Nat
    /\ a < 24 => n = a
    /\ a = 24 => n >= 24 /\ n < 256
    /\ a = 25 => n >= 256 /\ n < 65536
    /\ a = 26 => n >= 65536 /\ n < 65536 * 65536
    /\ a > 26 => a = 27 /\ n >= 65536 * 65536

LEMMA NumberOf ==
    ASSUME NEW s \in Seq(Byte), NEW off \in Nat, NEW a \in 0 .. 31, readArgument(s, off, a)
    PROVE  Tells(a, Number(s, off, a))
<1>0. Number(s, off, a) \in Nat
  BY NumberType DEF readArgument
<1>1. a < 28 /\ off + Follow(a) <= Len(s) /\ Number(s, off, a) >= Least(a)
  BY DEF readArgument, Complete
<1>2. ASSUME a < 24 PROVE Number(s, off, a) = a
  BY <1>2 DEF Number
<1>3. ASSUME a = 24 PROVE Number(s, off, a) >= 24 /\ Number(s, off, a) < 256
  <2>1. Follow(a) = 1 /\ Least(a) = 24 /\ Number(s, off, a) = readN(s, off, 1)
    BY <1>3 DEF Follow, Least, Number
  <2>2. readN(s, off, 1) \in Nat /\ readN(s, off, 1) < 256
    BY <1>1, <2>1, NumberBounds
  <2> QED
    BY <1>1, <1>3, <2>1, <2>2
<1>4. ASSUME a = 25 PROVE Number(s, off, a) >= 256 /\ Number(s, off, a) < 65536
  <2>1. Follow(a) = 2 /\ Least(a) = 256 /\ Number(s, off, a) = readN(s, off, 2)
    BY <1>4 DEF Follow, Least, Number
  <2>2. readN(s, off, 2) \in Nat /\ readN(s, off, 2) < 65536
    BY <1>1, <2>1, NumberBounds
  <2> QED
    BY <1>1, <1>4, <2>1, <2>2
<1>5. ASSUME a = 26 PROVE Number(s, off, a) >= 65536 /\ Number(s, off, a) < 65536 * 65536
  <2>1. Follow(a) = 4 /\ Least(a) = 65536 /\ Number(s, off, a) = readN(s, off, 4)
    BY <1>5 DEF Follow, Least, Number
  <2>2. readN(s, off, 4) \in Nat /\ readN(s, off, 4) < 65536 * 65536
    BY <1>1, <2>1, NumberBounds
  <2> QED
    BY <1>1, <1>5, <2>1, <2>2
<1>6. ASSUME a > 26 PROVE a = 27 /\ Number(s, off, a) >= 65536 * 65536
  <2>1. a = 27
    BY <1>1, <1>6
  <2>2. Follow(a) = 8
    BY <2>1 DEF Follow
  <2>3. Least(a) = 65536 * 65536
    BY <2>1 DEF Least
  <2>4. Number(s, off, a) = readN(s, off, 8)
    BY <2>1, <2>2 DEF Number
  <2>5. readN(s, off, 8) \in Nat
    BY <1>1, <2>2, NumberBounds
  <2> QED
    BY <1>1, <2>1, <2>3, <2>4, <2>5
<1> QED
  <2>1. a < 24 \/ a = 24 \/ a = 25 \/ a = 26 \/ a > 26
    OBVIOUS
  <2>2. CASE a < 24
    BY <1>0, <1>2, <2>2 DEF Tells
  <2>3. CASE a = 24
    BY <1>0, <1>3, <2>3 DEF Tells
  <2>4. CASE a = 25
    BY <1>0, <1>4, <2>4 DEF Tells
  <2>5. CASE a = 26
    BY <1>0, <1>5, <2>5 DEF Tells
  <2>6. CASE a > 26
    BY <1>0, <1>6, <2>6 DEF Tells
  <2> QED
    BY ONLY <2>1, <2>2, <2>3, <2>4, <2>5, <2>6

Argument(s, off, a) == s \in Seq(Byte) /\ off \in Nat /\ a \in 0 .. 31 /\ readArgument(s, off, a)

(* The number of a head, in the shortest of its forms, has only one form.  *)
LEMMA SameNumber ==
    ASSUME NEW s, NEW off, NEW a, Argument(s, off, a), NEW t, NEW at, NEW b, Argument(t, at, b),
           Number(s, off, a) = Number(t, at, b)
    PROVE  a = b /\ \A i \in 1 .. Follow(a) : s[off + i] = t[at + i]
<1> USE DEF Argument
<1> DEFINE n == Number(s, off, a)
<1> HIDE DEF n
<1>1. Tells(a, n)
  BY NumberOf DEF n
<1>2. a = b
  <2>1. Tells(b, n)
    BY NumberOf DEF n
  <2> QED
    BY ONLY <1>1, <2>1, a \in 0 .. 31, b \in 0 .. 31 DEF Tells
<1>3. CASE a < 24
  <2>1. Follow(a) = 0
    BY <1>3 DEF Follow
  <2> QED
    BY <1>2, <2>1
<1>4. CASE a >= 24
  <2>1. Follow(a) \in Nat /\ off + Follow(a) <= Len(s) /\ at + Follow(a) <= Len(t)
    BY <1>2, <1>4 DEF readArgument, Complete, Follow
  <2>2. readN(s, off, Follow(a)) = readN(t, at, Follow(a))
    BY <1>2, <1>4 DEF Number
  <2> DEFINE k == Follow(a)
  <2> HIDE DEF k
  <2>3. k \in Nat /\ off + k <= Len(s) /\ at + k <= Len(t) /\ readN(s, off, k) = readN(t, at, k)
    BY <2>1, <2>2 DEF k
  <2>4. \A i \in 1 .. k : s[off + i] = t[at + i]
    BY ONLY <2>3, SameDigits, s \in Seq(Byte), t \in Seq(Byte), off \in Nat, at \in Nat
  <2> QED
    BY <1>2, <2>4 DEF k
<1> QED
  <2>1. a < 24 \/ a >= 24
    OBVIOUS
  <2>2. CASE a < 24
    BY <1>2, <1>3, <2>2
  <2>3. CASE a >= 24
    BY <1>2, <1>4, <2>3
  <2> QED
    BY ONLY <2>1, <2>2, <2>3

-----------------------------------------------------------------------------
(* The bytes of s between two offsets.                                     *)
Span(s, o, p) == SubSeq(s, o + 1, p)

Part(s, o, p) == s \in Seq(Byte) /\ o \in Nat /\ p \in Nat /\ o <= p /\ p <= Len(s)

SameBytes(s, o, p, t, q, r) == p - o = r - q /\ \A i \in 1 .. p - o : s[o + i] = t[q + i]

LEMMA SpanIs ==
    ASSUME NEW s, NEW o, NEW p, Part(s, o, p)
    PROVE  /\ Span(s, o, p) \in Seq(Byte)
           /\ Len(Span(s, o, p)) = p - o
           /\ \A i \in 1 .. p - o : Span(s, o, p)[i] = s[o + i]
<1> USE DEF Part
<1>1. \A i \in o + 1 .. p : s[i] \in Byte
  <2> SUFFICES ASSUME NEW i \in o + 1 .. p PROVE s[i] \in Byte
    OBVIOUS
  <2>1. i \in 1 .. Len(s)
    OBVIOUS
  <2> QED
    BY <2>1, ElementOfSeq
<1> DEFINE m == o + 1
<1>2. m \in Int /\ p \in Int
  OBVIOUS
<1>3. \A i \in m .. p : s[i] \in Byte
  BY <1>1
<1> HIDE DEF m
<1>4. /\ SubSeq(s, m, p) \in Seq(Byte)
      /\ Len(SubSeq(s, m, p)) = IF m <= p THEN p - m + 1 ELSE 0
      /\ \A i \in 1 .. p - m + 1 : SubSeq(s, m, p)[i] = s[m + i - 1]
  BY <1>2, <1>3, SubSeqProperties
<1> USE DEF m
<1>5. p - m + 1 = p - o
  OBVIOUS
<1>6. Span(s, o, p) = SubSeq(s, m, p)
  BY DEF Span
<1>7. Len(Span(s, o, p)) = p - o
  BY <1>4, <1>6
<1>8. ASSUME NEW i \in 1 .. p - o PROVE Span(s, o, p)[i] = s[o + i]
  <2>1. SubSeq(s, m, p)[i] = s[m + i - 1]
    BY <1>4, <1>5
  <2>2. m + i - 1 = o + i
    OBVIOUS
  <2> QED
    BY <1>6, <2>1, <2>2
<1> QED
  BY <1>4, <1>6, <1>7, <1>8

(* Two spans with the same bytes are the same.                             *)
LEMMA SameSpan ==
    ASSUME NEW s, NEW o, NEW p, Part(s, o, p), NEW t, NEW q, NEW r, Part(t, q, r),
           SameBytes(s, o, p, t, q, r)
    PROVE  Span(s, o, p) = Span(t, q, r)
<1> DEFINE x == Span(s, o, p)
           y == Span(t, q, r)
<1>1. x \in Seq(Byte) /\ Len(x) = p - o /\ \A i \in 1 .. p - o : x[i] = s[o + i]
  BY SpanIs
<1>2. y \in Seq(Byte) /\ Len(y) = r - q /\ \A i \in 1 .. r - q : y[i] = t[q + i]
  BY SpanIs
<1>3. Len(x) = Len(y) /\ \A i \in 1 .. Len(x) : x[i] = y[i]
  BY <1>1, <1>2 DEF SameBytes
<1> HIDE DEF x, y
<1>4. x = y
  BY <1>1, <1>2, <1>3, SeqEqual
<1> QED
  BY <1>4 DEF x, y

(* Two equal spans have the same bytes.                                    *)
LEMMA SpanSame ==
    ASSUME NEW s, NEW o, NEW p, Part(s, o, p), NEW t, NEW q, NEW r, Part(t, q, r),
           Span(s, o, p) = Span(t, q, r)
    PROVE  SameBytes(s, o, p, t, q, r)
<1> DEFINE x == Span(s, o, p)
<1>1. Len(x) = p - o /\ \A i \in 1 .. p - o : x[i] = s[o + i]
  BY SpanIs
<1> DEFINE y == Span(t, q, r)
<1>2. Len(y) = r - q /\ \A i \in 1 .. r - q : y[i] = t[q + i]
  BY SpanIs
<1>3. x = y
  OBVIOUS
<1> HIDE DEF x, y
<1>4. p - o = r - q
  BY <1>1, <1>2, <1>3
<1>5. ASSUME NEW i \in 1 .. p - o PROVE s[o + i] = t[q + i]
  BY <1>1, <1>2, <1>3, <1>4
<1> QED
  BY <1>4, <1>5 DEF SameBytes

(* A span is its two parts.                                                *)
LEMMA CutSpan ==
    ASSUME NEW s, NEW o, NEW m, NEW p, Part(s, o, m), Part(s, m, p),
           NEW t, NEW q, NEW k, NEW r, Part(t, q, k), Part(t, k, r),
           Span(s, o, m) = Span(t, q, k), Span(s, m, p) = Span(t, k, r)
    PROVE  Span(s, o, p) = Span(t, q, r)
<1>0. Part(s, o, p) /\ Part(t, q, r)
  BY DEF Part
<1>1. SameBytes(s, o, m, t, q, k)
  BY SpanSame
<1>2. SameBytes(s, m, p, t, k, r)
  BY SpanSame
<1>3. o \in Nat /\ m \in Nat /\ p \in Nat /\ q \in Nat /\ k \in Nat /\ r \in Nat
  BY DEF Part
<1>4. p - o = r - q
  BY <1>1, <1>2, <1>3 DEF SameBytes
<1>5. ASSUME NEW i \in 1 .. p - o PROVE s[o + i] = t[q + i]
  <2>1. CASE i <= m - o
    BY ONLY <1>1, <1>3, <2>1, i \in 1 .. p - o DEF SameBytes
  <2>2. CASE i > m - o
    <3> DEFINE j == i - (m - o)
    <3>1. j \in 1 .. p - m /\ m + j = o + i /\ k + j = q + i
      BY ONLY <1>1, <1>3, <2>2, i \in 1 .. p - o DEF SameBytes
    <3> HIDE DEF j
    <3> QED
      BY ONLY <1>2, <3>1 DEF SameBytes
  <2> QED
    BY <1>3, <2>1, <2>2
<1> QED
  BY <1>0, <1>4, <1>5, SameSpan DEF SameBytes

-----------------------------------------------------------------------------
-----------------------------------------------------------------------------
(* The head of an item: the parts of its first byte, and its number.       *)

Major(s, off) == s[off + 1] \div 32
Low(s, off)   == s[off + 1] % 32
Num(s, off)   == Number(s, off + 1, Low(s, off))
Start(s, off) == off + 1 + Follow(Low(s, off))

LEMMA FirstByte ==
    ASSUME NEW b \in Nat, b < 256
    PROVE  /\ b \div 32 \in 0 .. 7
           /\ b % 32 \in 0 .. 31
           /\ b = 32 * (b \div 32) + (b % 32)
OBVIOUS

LEMMA HeadParts ==
    ASSUME NEW s \in Seq(Byte), NEW off \in Nat, off < Len(s), readArgument(s, off + 1, Low(s, off))
    PROVE  /\ Low(s, off) \in 0 .. 31
           /\ s[off + 1] = 32 * Major(s, off) + Low(s, off)
           /\ Num(s, off) \in Nat
           /\ Start(s, off) \in Nat /\ off < Start(s, off) /\ Start(s, off) <= Len(s)
<1>1. s[off + 1] \in Nat /\ s[off + 1] < 256
  <2>1. off + 1 \in 1 .. Len(s)
    OBVIOUS
  <2> QED
    BY <2>1, OctetIs
<1>2. Low(s, off) \in 0 .. 31 /\ s[off + 1] = 32 * Major(s, off) + Low(s, off)
  BY <1>1, FirstByte DEF Low, Major
<1> DEFINE a == Low(s, off)
           at == off + 1
<1>3. a \in 0 .. 31 /\ at \in Nat /\ Complete(s, at, a)
  BY <1>2 DEF readArgument
<1>4. at + Follow(a) <= Len(s)
  BY <1>3 DEF Complete
<1> HIDE DEF a, at
<1>5. Follow(a) \in Nat /\ Number(s, at, a) \in Nat
  BY <1>3, NumberType
<1>6. Num(s, off) \in Nat
  BY <1>5 DEF Num, a, at
<1> DEFINE k == Follow(a)
<1>7. k \in Nat /\ at + k <= Len(s) /\ at = off + 1
  BY <1>4, <1>5 DEF at
<1>8. Start(s, off) = at + k
  BY DEF Start, a, at
<1> HIDE DEF k
<1> QED
  BY <1>2, <1>6, <1>7, <1>8

(* What a head says, by the major type of its first byte.                  *)
Says(h, kind, val, nested, end) ==
    h.kind = kind /\ h.val = val /\ h.nested = nested /\ h.off = end

IsUint(s, off, h)  == Major(s, off) = 0 /\ Says(h, "uint", Num(s, off), 0, Start(s, off))
IsBytes(s, off, h) ==
    /\ Major(s, off) = 2 /\ Start(s, off) + Num(s, off) <= Len(s)
    /\ Says(h, "bytes", Span(s, Start(s, off), Start(s, off) + Num(s, off)), 0, Start(s, off) + Num(s, off))
IsText(s, off, h)  ==
    /\ Major(s, off) = 3 /\ Start(s, off) + Num(s, off) <= Len(s)
    /\ Says(h, "text", Span(s, Start(s, off), Start(s, off) + Num(s, off)), 0, Start(s, off) + Num(s, off))
IsArray(s, off, h) == Major(s, off) = 4 /\ Says(h, "array", <<>>, Num(s, off), Start(s, off))
IsMap(s, off, h)   == Major(s, off) = 5 /\ Says(h, "map", <<>>, 2 * Num(s, off), Start(s, off))
IsBool(s, off, h)  ==
    /\ Major(s, off) = 7 /\ Low(s, off) \in {20, 21}
    /\ Says(h, "bool", Low(s, off) = 21, 0, Start(s, off))
IsNull(s, off, h)  == Major(s, off) = 7 /\ Low(s, off) = 22 /\ Says(h, "null", 0, 0, Start(s, off))

LEMMA HeadIs ==
    ASSUME NEW s, NEW off, itemHead(s, off).ok
    PROVE  /\ ~(off >= Len(s)) /\ readArgument(s, off + 1, Low(s, off))
           /\ \/ IsUint(s, off, itemHead(s, off)) \/ IsBytes(s, off, itemHead(s, off))
              \/ IsText(s, off, itemHead(s, off)) \/ IsArray(s, off, itemHead(s, off))
              \/ IsMap(s, off, itemHead(s, off)) \/ IsBool(s, off, itemHead(s, off))
              \/ IsNull(s, off, itemHead(s, off))
<1> DEFINE M  == Major(s, off)
           a  == Low(s, off)
           n  == Num(s, off)
           st == Start(s, off)
           head(kind, val, nested, end) ==
               [ok |-> TRUE, kind |-> kind, val |-> val, nested |-> nested, off |-> end]
           bad == off >= Len(s) \/ ~readArgument(s, off + 1, a)
           str == SubSeq(s, st + 1, st + n)
           sum == st + n
           fits == st + n <= Len(s)
           h  == itemHead(s, off)
<1>1. h = IF bad THEN Fail
          ELSE CASE M = 0 -> head("uint", n, 0, st)
                 [] M \in {2, 3} /\ fits -> head(IF M = 2 THEN "bytes" ELSE "text", str, 0, sum)
                 [] M = 4 -> head("array", <<>>, n, st)
                 [] M = 5 -> head("map", <<>>, 2 * n, st)
                 [] M = 7 /\ a \in {20, 21} -> head("bool", a = 21, 0, st)
                 [] M = 7 /\ a = 22 -> head("null", 0, 0, st)
                 [] OTHER -> Fail
  BY DEF itemHead, Major, Low, Num, Start
<1>2. str = Span(s, st, sum)
  BY DEF Span
<1>3. h.ok
  OBVIOUS
<1>4. ~Fail.ok
  BY DEF Fail
<1> HIDE DEF M, a, n, st, bad, str, sum, fits, h
<1>5. ~bad
  BY <1>1, <1>3, <1>4
<1>6. \/ M = 0 /\ Says(h, "uint", n, 0, st)
      \/ M = 2 /\ fits /\ Says(h, "bytes", str, 0, sum)
      \/ M = 3 /\ fits /\ Says(h, "text", str, 0, sum)
      \/ M = 4 /\ Says(h, "array", <<>>, n, st)
      \/ M = 5 /\ Says(h, "map", <<>>, 2 * n, st)
      \/ M = 7 /\ a \in {20, 21} /\ Says(h, "bool", a = 21, 0, st)
      \/ M = 7 /\ a = 22 /\ Says(h, "null", 0, 0, st)
  <2>1. CASE M = 0
    BY <1>1, <1>5, <2>1 DEF Says
  <2>2. CASE M = 2 /\ fits
    <3>1. h = head("bytes", str, 0, sum)
      BY <1>1, <1>5, <2>2
    <3> QED
      BY <2>2, <3>1 DEF Says
  <2>3. CASE M = 3 /\ fits
    <3>1. h = head("text", str, 0, sum)
      BY <1>1, <1>5, <2>3
    <3> QED
      BY <2>3, <3>1 DEF Says
  <2>4. CASE M = 4
    BY <1>1, <1>5, <2>4 DEF Says
  <2>5. CASE M = 5
    BY <1>1, <1>5, <2>5 DEF Says
  <2>6. CASE M = 7 /\ a \in {20, 21}
    <3>1. h = head("bool", a = 21, 0, st)
      BY <1>1, <1>5, <2>6
    <3> QED
      BY <2>6, <3>1 DEF Says
  <2>7. CASE M = 7 /\ a = 22
    <3>1. h = head("null", 0, 0, st)
      BY <1>1, <1>5, <2>7
    <3> QED
      BY <2>7, <3>1 DEF Says
  <2>8. CASE ~(M = 0 \/ (M = 2 /\ fits) \/ (M = 3 /\ fits) \/ M = 4 \/ M = 5
               \/ (M = 7 /\ a \in {20, 21}) \/ (M = 7 /\ a = 22))
    <3>1. h = Fail
      BY <1>1, <1>5, <2>8
    <3> QED
      BY <1>3, <1>4, <3>1
  <2> QED
    BY <2>1, <2>2, <2>3, <2>4, <2>5, <2>6, <2>7, <2>8
<1> QED
  BY <1>2, <1>5, <1>6 DEF M, a, n, st, bad, sum, fits, h, IsUint, IsBytes, IsText, IsArray, IsMap, IsBool, IsNull

(* A head is inside the string, and what is nested in the item is counted. *)
LEMMA HeadFits ==
    ASSUME NEW s \in Seq(Byte), NEW off \in Nat, itemHead(s, off).ok
    PROVE  /\ Part(s, off, itemHead(s, off).off)
           /\ off < itemHead(s, off).off
           /\ itemHead(s, off).nested \in Nat
           /\ itemHead(s, off).kind \notin {"array", "map"} => itemHead(s, off).nested = 0
           /\ itemHead(s, off).kind \in {"array", "map"} => itemHead(s, off).val = <<>>
           /\ itemHead(s, off).kind = "map" => \E n \in Nat : itemHead(s, off).nested = 2 * n
<1> DEFINE h == itemHead(s, off)
           n == Num(s, off)
           st == Start(s, off)
<1>0. Len(s) \in Nat
  BY LenProperties
<1>1. off < Len(s) /\ readArgument(s, off + 1, Low(s, off))
  BY <1>0, HeadIs
<1>2. n \in Nat /\ st \in Nat /\ off < st /\ st <= Len(s)
  BY <1>1, HeadParts
<1>3. \/ IsUint(s, off, h) \/ IsBytes(s, off, h) \/ IsText(s, off, h) \/ IsArray(s, off, h)
      \/ IsMap(s, off, h) \/ IsBool(s, off, h) \/ IsNull(s, off, h)
  BY HeadIs
<1> HIDE DEF h
<1>4. CASE IsUint(s, off, h) \/ IsBool(s, off, h) \/ IsNull(s, off, h)
  BY <1>2, <1>4 DEF h, IsUint, IsBool, IsNull, Says, Part
<1>5. CASE IsBytes(s, off, h) \/ IsText(s, off, h)
  BY <1>2, <1>5 DEF h, IsBytes, IsText, Says, Part
<1>6. CASE IsArray(s, off, h) \/ IsMap(s, off, h)
  BY <1>2, <1>6 DEF h, IsArray, IsMap, Says, Part
<1> QED
  BY <1>3, <1>4, <1>5, <1>6

(* The first byte and the number that follows it are the same when the     *)
(* major types and the numbers are.                                        *)
LEMMA SameStart ==
    ASSUME NEW s \in Seq(Byte), NEW off \in Nat, itemHead(s, off).ok,
           NEW t \in Seq(Byte), NEW at \in Nat, itemHead(t, at).ok,
           Major(s, off) = Major(t, at), Num(s, off) = Num(t, at)
    PROVE  /\ Low(s, off) = Low(t, at)
           /\ Part(s, off, Start(s, off)) /\ Part(t, at, Start(t, at))
           /\ Span(s, off, Start(s, off)) = Span(t, at, Start(t, at))
<1> DEFINE a == Low(s, off)
           b == Low(t, at)
<1>0. Len(s) \in Nat /\ Len(t) \in Nat
  BY LenProperties
<1>1. off < Len(s) /\ readArgument(s, off + 1, a)
  BY <1>0, HeadIs
<1>2. at < Len(t) /\ readArgument(t, at + 1, b)
  BY <1>0, HeadIs
<1>3. /\ a \in 0 .. 31 /\ s[off + 1] = 32 * Major(s, off) + a
      /\ Start(s, off) \in Nat /\ off < Start(s, off) /\ Start(s, off) <= Len(s)
  BY <1>1, HeadParts
<1>4. /\ b \in 0 .. 31 /\ t[at + 1] = 32 * Major(t, at) + b
      /\ Start(t, at) \in Nat /\ at < Start(t, at) /\ Start(t, at) <= Len(t)
  BY <1>2, HeadParts
<1>5. off + 1 \in Nat /\ at + 1 \in Nat
  OBVIOUS
<1>6. Number(s, off + 1, a) = Number(t, at + 1, b)
  BY DEF Num
<1>7. Start(s, off) = off + 1 + Follow(a) /\ Start(t, at) = at + 1 + Follow(b)
  BY DEF Start
<1> DEFINE o == off + 1
           q == at + 1
<1> HIDE DEF a, b, o, q
<1>8. a = b /\ \A i \in 1 .. Follow(a) : s[o + i] = t[q + i]
  <2>1. Argument(s, o, a) /\ Argument(t, q, b) /\ Number(s, o, a) = Number(t, q, b)
    BY <1>1, <1>2, <1>3, <1>4, <1>5, <1>6 DEF o, q, Argument
  <2> QED
    BY ONLY <2>1, SameNumber
<1> DEFINE k == Follow(a)
<1>9. k \in Nat
  BY <1>3 DEF Follow
<1> HIDE DEF k
<1>10. Start(s, off) = off + 1 + k /\ Start(t, at) = at + 1 + k
  BY <1>7, <1>8 DEF k
<1>11. s[off + 1] = t[at + 1]
  BY <1>3, <1>4, <1>8
<1>12. \A i \in 1 .. k : s[off + 1 + i] = t[at + 1 + i]
  BY <1>8 DEF k, o, q
<1>13. SameBytes(s, off, Start(s, off), t, at, Start(t, at))
  <2>1. Start(s, off) - off = k + 1 /\ Start(t, at) - at = k + 1
    BY <1>9, <1>10
  <2>2. ASSUME NEW i \in 1 .. k + 1 PROVE s[off + i] = t[at + i]
    <3>1. CASE i = 1
      BY <1>11, <3>1
    <3>2. CASE i # 1
      <4> DEFINE j == i - 1
      <4>1. j \in 1 .. k /\ off + 1 + j = off + i /\ at + 1 + j = at + i
        BY <1>9, <3>2
      <4> HIDE DEF j
      <4> QED
        BY <1>12, <4>1
    <3> QED
      BY <3>1, <3>2
  <2> QED
    BY <2>1, <2>2 DEF SameBytes
<1>14. Part(s, off, Start(s, off)) /\ Part(t, at, Start(t, at))
  BY <1>3, <1>4 DEF Part
<1>15. Span(s, off, Start(s, off)) = Span(t, at, Start(t, at))
  BY <1>13, <1>14, SameSpan
<1> QED
  BY <1>8, <1>14, <1>15 DEF a, b

(* A string is as long as its number says.                                 *)
LEMMA SameString ==
    ASSUME NEW s \in Seq(Byte), NEW off \in Nat, itemHead(s, off).ok,
           NEW t \in Seq(Byte), NEW at \in Nat, itemHead(t, at).ok,
           Major(s, off) = Major(t, at),
           NEW p, p = Start(s, off) + Num(s, off), p <= Len(s),
           NEW r, r = Start(t, at) + Num(t, at), r <= Len(t),
           Span(s, Start(s, off), p) = Span(t, Start(t, at), r)
    PROVE  Span(s, off, p) = Span(t, at, r)
<1>0. Len(s) \in Nat /\ Len(t) \in Nat
  BY LenProperties
<1>1. Num(s, off) \in Nat /\ Start(s, off) \in Nat
  <2>1. off < Len(s) /\ readArgument(s, off + 1, Low(s, off))
    BY <1>0, HeadIs
  <2> QED
    BY <2>1, HeadParts
<1>2. Num(t, at) \in Nat /\ Start(t, at) \in Nat
  <2>1. at < Len(t) /\ readArgument(t, at + 1, Low(t, at))
    BY <1>0, HeadIs
  <2> QED
    BY <2>1, HeadParts
<1>3. Part(s, Start(s, off), p)
  BY <1>1 DEF Part
<1>4. Part(t, Start(t, at), r)
  BY <1>2 DEF Part
<1>5. Num(s, off) = Num(t, at)
  <2>1. p - Start(s, off) = r - Start(t, at)
    BY <1>3, <1>4, SpanSame DEF SameBytes
  <2> QED
    BY <1>1, <1>2, <2>1
<1>6. /\ Part(s, off, Start(s, off)) /\ Part(t, at, Start(t, at))
      /\ Span(s, off, Start(s, off)) = Span(t, at, Start(t, at))
  BY <1>5, SameStart
<1> QED
  BY <1>3, <1>4, <1>6, CutSpan

(* Two heads that say the same are the same bytes.                         *)
LEMMA SameHead ==
    ASSUME NEW s \in Seq(Byte), NEW off \in Nat, itemHead(s, off).ok,
           NEW t \in Seq(Byte), NEW at \in Nat, itemHead(t, at).ok,
           itemHead(s, off).kind = itemHead(t, at).kind,
           itemHead(s, off).val = itemHead(t, at).val,
           itemHead(s, off).nested = itemHead(t, at).nested
    PROVE  Span(s, off, itemHead(s, off).off) = Span(t, at, itemHead(t, at).off)
<1> DEFINE h == itemHead(s, off)
           g == itemHead(t, at)
<1>1. \/ IsUint(s, off, h) \/ IsBytes(s, off, h) \/ IsText(s, off, h) \/ IsArray(s, off, h)
      \/ IsMap(s, off, h) \/ IsBool(s, off, h) \/ IsNull(s, off, h)
  BY HeadIs
<1>2. \/ IsUint(t, at, g) \/ IsBytes(t, at, g) \/ IsText(t, at, g) \/ IsArray(t, at, g)
      \/ IsMap(t, at, g) \/ IsBool(t, at, g) \/ IsNull(t, at, g)
  BY HeadIs
<1>3. h.kind = g.kind /\ h.val = g.val /\ h.nested = g.nested
  OBVIOUS
<1>4. Num(s, off) \in Nat /\ Num(t, at) \in Nat
  <2>0. Len(s) \in Nat /\ Len(t) \in Nat
    BY LenProperties
  <2>1. off < Len(s) /\ readArgument(s, off + 1, Low(s, off))
    BY <2>0, HeadIs
  <2>2. at < Len(t) /\ readArgument(t, at + 1, Low(t, at))
    BY <2>0, HeadIs
  <2> QED
    BY <2>1, <2>2, HeadParts
<1> HIDE DEF h, g
<1>5. ASSUME Major(s, off) = Major(t, at), Num(s, off) = Num(t, at),
             h.off = Start(s, off), g.off = Start(t, at)
      PROVE  Span(s, off, h.off) = Span(t, at, g.off)
  BY <1>5, SameStart
<1>6. CASE IsUint(s, off, h)
  <2>1. IsUint(t, at, g)
    BY <1>2, <1>3, <1>6 DEF IsUint, IsBytes, IsText, IsArray, IsMap, IsBool, IsNull, Says
  <2> QED
    BY <1>3, <1>5, <1>6, <2>1 DEF IsUint, Says, h, g
<1>7. CASE IsArray(s, off, h)
  <2>1. IsArray(t, at, g)
    BY <1>2, <1>3, <1>7 DEF IsUint, IsBytes, IsText, IsArray, IsMap, IsBool, IsNull, Says
  <2> QED
    BY <1>3, <1>5, <1>7, <2>1 DEF IsArray, Says, h, g
<1>8. CASE IsMap(s, off, h)
  <2>1. IsMap(t, at, g)
    BY <1>2, <1>3, <1>8 DEF IsUint, IsBytes, IsText, IsArray, IsMap, IsBool, IsNull, Says
  <2>2. 2 * Num(s, off) = 2 * Num(t, at)
    BY <1>3, <1>8, <2>1 DEF IsMap, Says
  <2>3. Num(s, off) = Num(t, at)
    BY <1>4, <2>2
  <2> QED
    BY <1>5, <1>8, <2>1, <2>3 DEF IsMap, Says, h, g
<1>9. CASE IsBytes(s, off, h)
  <2>1. IsBytes(t, at, g)
    BY <1>2, <1>3, <1>9 DEF IsUint, IsBytes, IsText, IsArray, IsMap, IsBool, IsNull, Says
  <2>2. /\ Major(s, off) = 2 /\ Start(s, off) + Num(s, off) <= Len(s)
        /\ h.val = Span(s, Start(s, off), h.off) /\ h.off = Start(s, off) + Num(s, off)
    BY <1>9 DEF IsBytes, Says
  <2>3. /\ Major(t, at) = 2 /\ Start(t, at) + Num(t, at) <= Len(t)
        /\ g.val = Span(t, Start(t, at), g.off) /\ g.off = Start(t, at) + Num(t, at)
    BY <2>1 DEF IsBytes, Says
  <2>4. itemHead(s, off).ok /\ itemHead(t, at).ok /\ Major(s, off) = Major(t, at)
        /\ h.off <= Len(s) /\ g.off <= Len(t) /\ Span(s, Start(s, off), h.off) = Span(t, Start(t, at), g.off)
    BY <1>3, <2>2, <2>3
  <2>5. h.off = Start(s, off) + Num(s, off) /\ g.off = Start(t, at) + Num(t, at)
    BY <2>2, <2>3
  <2> DEFINE x == h.off
             y == g.off
  <2>6. Span(s, off, x) = Span(t, at, y)
    <3> HIDE DEF x, y
    <3>1. x = Start(s, off) + Num(s, off) /\ y = Start(t, at) + Num(t, at) /\ x <= Len(s) /\ y <= Len(t)
          /\ Span(s, Start(s, off), x) = Span(t, Start(t, at), y)
      BY <2>4, <2>5 DEF x, y
    <3> QED
      BY ONLY <2>4, <3>1, SameString, s \in Seq(Byte), t \in Seq(Byte), off \in Nat, at \in Nat
  <2> QED
    BY <2>6 DEF h, g
<1>10. CASE IsText(s, off, h)
  <2>1. IsText(t, at, g)
    BY <1>2, <1>3, <1>10 DEF IsUint, IsBytes, IsText, IsArray, IsMap, IsBool, IsNull, Says
  <2>2. /\ Major(s, off) = 3 /\ Start(s, off) + Num(s, off) <= Len(s)
        /\ h.val = Span(s, Start(s, off), h.off) /\ h.off = Start(s, off) + Num(s, off)
    BY <1>10 DEF IsText, Says
  <2>3. /\ Major(t, at) = 3 /\ Start(t, at) + Num(t, at) <= Len(t)
        /\ g.val = Span(t, Start(t, at), g.off) /\ g.off = Start(t, at) + Num(t, at)
    BY <2>1 DEF IsText, Says
  <2>4. itemHead(s, off).ok /\ itemHead(t, at).ok /\ Major(s, off) = Major(t, at)
        /\ h.off <= Len(s) /\ g.off <= Len(t) /\ Span(s, Start(s, off), h.off) = Span(t, Start(t, at), g.off)
    BY <1>3, <2>2, <2>3
  <2>5. h.off = Start(s, off) + Num(s, off) /\ g.off = Start(t, at) + Num(t, at)
    BY <2>2, <2>3
  <2> DEFINE x == h.off
             y == g.off
  <2>6. Span(s, off, x) = Span(t, at, y)
    <3> HIDE DEF x, y
    <3>1. x = Start(s, off) + Num(s, off) /\ y = Start(t, at) + Num(t, at) /\ x <= Len(s) /\ y <= Len(t)
          /\ Span(s, Start(s, off), x) = Span(t, Start(t, at), y)
      BY <2>4, <2>5 DEF x, y
    <3> QED
      BY ONLY <2>4, <3>1, SameString, s \in Seq(Byte), t \in Seq(Byte), off \in Nat, at \in Nat
  <2> QED
    BY <2>6 DEF h, g
<1>11. ASSUME Low(s, off) = Low(t, at), Low(s, off) < 24 PROVE Num(s, off) = Num(t, at)
  BY <1>11 DEF Num, Number
<1>12. CASE IsBool(s, off, h)
  <2>1. IsBool(t, at, g)
    BY <1>2, <1>3, <1>12 DEF IsUint, IsBytes, IsText, IsArray, IsMap, IsBool, IsNull, Says
  <2>2. Low(s, off) \in {20, 21} /\ Low(t, at) \in {20, 21} /\ (Low(s, off) = 21 <=> Low(t, at) = 21)
    BY <1>3, <1>12, <2>1 DEF IsBool, Says
  <2>3. Low(s, off) = Low(t, at) /\ Low(s, off) < 24
    BY <2>2
  <2> QED
    BY <1>5, <1>11, <1>12, <2>1, <2>3 DEF IsBool, Says, h, g
<1>13. CASE IsNull(s, off, h)
  <2>1. IsNull(t, at, g)
    BY <1>2, <1>3, <1>13 DEF IsUint, IsBytes, IsText, IsArray, IsMap, IsBool, IsNull, Says
  <2>3. Low(s, off) = Low(t, at) /\ Low(s, off) < 24
    BY <1>13, <2>1 DEF IsNull
  <2> QED
    BY <1>5, <1>11, <1>13, <2>1, <2>3 DEF IsNull, Says, h, g
<1> QED
  BY <1>1, <1>6, <1>7, <1>8, <1>9, <1>10, <1>12, <1>13 DEF h, g

-----------------------------------------------------------------------------
(* What is parsed at every offset, and as what a result of f is computed.   *)
Fixed(f, s) == f = [off \in Nat |-> [n \in Nat |-> parseItems(f, s, off, n)]]
Items(s) == CHOOSE f : Fixed(f, s)

Nested(f, s, o)  == f[itemHead(s, o).off][itemHead(s, o).nested]
Rest(f, s, o, n) == f[Nested(f, s, o).off][n - 1]
Item(f, s, o)    ==
    [v |-> Value(itemHead(s, o), Nested(f, s, o).list), raw |-> Span(s, o, Nested(f, s, o).off)]
Parsed(f, s, o, n) ==
    /\ itemHead(s, o).ok /\ Nested(f, s, o).ok
    /\ itemHead(s, o).kind = "map" => Canonical(Nested(f, s, o).list)
    /\ Rest(f, s, o, n).ok

LEMMA StepIs ==
    ASSUME NEW f, NEW s, NEW o, NEW n
    PROVE  parseItems(f, s, o, n) =
               IF n = 0 THEN [ok |-> TRUE, list |-> <<>>, off |-> o]
               ELSE IF Parsed(f, s, o, n)
               THEN [ok |-> TRUE, list |-> <<Item(f, s, o)>> \o Rest(f, s, o, n).list,
                     off |-> Rest(f, s, o, n).off]
               ELSE Fail
BY DEF parseItems, Parsed, Item, Rest, Nested, Span

(* Results that end where they start or further on.                         *)
Ends(f) == \A o \in Nat : \A n \in Nat : f[o][n].ok => f[o][n].off \in Nat /\ o <= f[o][n].off

(* An item is parsed from what is parsed further on.                        *)
LEMMA Agree ==
    ASSUME NEW s \in Seq(Byte), NEW f, NEW g, Ends(f), NEW o \in Nat, NEW n \in Nat,
           \A p \in Nat : p > o => \A m \in Nat : f[p][m] = g[p][m]
    PROVE  parseItems(f, s, o, n) = parseItems(g, s, o, n)
<1> DEFINE h == itemHead(s, o)
<1>1. CASE n = 0
  BY <1>1, StepIs
<1>2. CASE n # 0 /\ ~h.ok
  <2>1. ~Parsed(f, s, o, n) /\ ~Parsed(g, s, o, n)
    BY <1>2 DEF Parsed
  <2>2. parseItems(f, s, o, n) = Fail /\ parseItems(g, s, o, n) = Fail
    BY <1>2, <2>1, StepIs
  <2> QED
    BY <2>2
<1>3. CASE n # 0 /\ h.ok
  <2>1. h.off \in Nat /\ h.off > o /\ h.nested \in Nat
    BY <1>3, HeadFits DEF Part
  <2>2. Nested(f, s, o) = Nested(g, s, o)
    BY <2>1 DEF Nested
  <2>3. Item(f, s, o) = Item(g, s, o)
    BY <2>2 DEF Item
  <2>4. CASE ~Nested(f, s, o).ok
    <3>1. ~Parsed(f, s, o, n) /\ ~Parsed(g, s, o, n)
      BY <2>2, <2>4 DEF Parsed
    <3>2. parseItems(f, s, o, n) = Fail /\ parseItems(g, s, o, n) = Fail
      BY <1>3, <3>1, StepIs
    <3> QED
      BY <3>2
  <2>5. CASE Nested(f, s, o).ok
    <3>1. Nested(f, s, o).off \in Nat /\ h.off <= Nested(f, s, o).off
      BY <2>1, <2>5 DEF Nested, Ends
    <3>2. Nested(f, s, o).off > o /\ n - 1 \in Nat
      BY <1>3, <2>1, <3>1
    <3>3. Rest(f, s, o, n) = Rest(g, s, o, n)
      BY <2>2, <3>1, <3>2 DEF Rest
    <3>4. Parsed(f, s, o, n) = Parsed(g, s, o, n)
      BY <2>2, <3>3 DEF Parsed
    <3> QED
      BY <2>3, <3>3, <3>4, StepIs
  <2> QED
    BY <2>4, <2>5
<1> QED
  BY <1>1, <1>2, <1>3

LEMMA StepEnds ==
    ASSUME NEW s \in Seq(Byte), NEW f, Ends(f), NEW o \in Nat, NEW n \in Nat,
           parseItems(f, s, o, n).ok
    PROVE  parseItems(f, s, o, n).off \in Nat /\ o <= parseItems(f, s, o, n).off
<1>1. CASE n = 0
  <2>1. parseItems(f, s, o, n) = [ok |-> TRUE, list |-> <<>>, off |-> o]
    BY <1>1, StepIs
  <2>2. parseItems(f, s, o, n).off = o
    BY <2>1
  <2> QED
    BY <2>2
<1>2. CASE n # 0
  <2>1. Parsed(f, s, o, n)
    BY <1>2, StepIs DEF Fail
  <2>2. parseItems(f, s, o, n).off = Rest(f, s, o, n).off
    BY <1>2, <2>1, StepIs
  <2> DEFINE h == itemHead(s, o)
  <2>3. h.off \in Nat /\ h.off > o /\ h.nested \in Nat
    BY <2>1, HeadFits DEF Part, Parsed
  <2>4. Nested(f, s, o).off \in Nat /\ h.off <= Nested(f, s, o).off
    BY <2>1, <2>3 DEF Nested, Ends, Parsed
  <2>5. Rest(f, s, o, n).off \in Nat /\ Nested(f, s, o).off <= Rest(f, s, o, n).off
    <3>1. n - 1 \in Nat
      BY <1>2
    <3> QED
      BY <2>1, <2>4, <3>1 DEF Rest, Ends, Parsed
  <2> QED
    BY <2>2, <2>3, <2>4, <2>5
<1> QED
  BY <1>1, <1>2

(* The results for the offsets from Len(s) - k on.                         *)
Good(f, s, k) ==
    /\ Ends(f)
    /\ \A o \in Nat : o + k >= Len(s) => \A n \in Nat : f[o][n] = parseItems(f, s, o, n)

(* Past the end there is nothing to parse.                                 *)
LEMMA GoodStart ==
    ASSUME NEW s \in Seq(Byte)
    PROVE  \E f : Good(f, s, 0)
<1> DEFINE none(o) == [ok |-> TRUE, list |-> <<>>, off |-> o]
           f == [o \in Nat |-> [n \in Nat |-> IF n = 0 THEN none(o) ELSE Fail]]
<1>0. Len(s) \in Nat
  BY LenProperties
<1>1. ASSUME NEW o \in Nat, NEW n \in Nat PROVE f[o][n] = IF n = 0 THEN none(o) ELSE Fail
  OBVIOUS
<1> HIDE DEF f
<1>2. Ends(f)
  <2> SUFFICES ASSUME NEW o \in Nat, NEW n \in Nat, f[o][n].ok
               PROVE  f[o][n].off \in Nat /\ o <= f[o][n].off
    BY DEF Ends
  <2>1. n = 0
    <3> SUFFICES ASSUME n # 0 PROVE FALSE
      OBVIOUS
    <3>1. f[o][n] = Fail
      BY <1>1
    <3>2. ~Fail.ok
      BY DEF Fail
    <3> QED
      BY <3>1, <3>2
  <2>2. f[o][n] = none(o)
    BY <1>1, <2>1
  <2>3. f[o][n].off = o
    BY <2>2
  <2> QED
    BY <2>3
<1>3. ASSUME NEW o \in Nat, o >= Len(s), NEW n \in Nat PROVE f[o][n] = parseItems(f, s, o, n)
  <2>1. CASE n = 0
    BY <1>1, <2>1, StepIs
  <2>2. CASE n # 0
    <3>1. ~itemHead(s, o).ok
      BY <1>3, HeadIs
    <3>2. ~Parsed(f, s, o, n)
      BY <3>1 DEF Parsed
    <3>3. parseItems(f, s, o, n) = Fail
      BY <2>2, <3>2, StepIs
    <3> QED
      BY <1>1, <2>2, <3>3
  <2> QED
    BY <2>1, <2>2
<1>4. Good(f, s, 0)
  <2>1. \A o \in Nat : o + 0 >= Len(s) => o >= Len(s)
    OBVIOUS
  <2> QED
    BY <1>2, <1>3, <2>1 DEF Good
<1> QED
  BY <1>4

(* One offset more.                                                        *)
LEMMA GoodStep ==
    ASSUME NEW s \in Seq(Byte), NEW k \in Nat, NEW f, Good(f, s, k)
    PROVE  \E g : Good(g, s, k + 1)
<1> DEFINE g == [o \in Nat |-> [n \in Nat |-> parseItems(f, s, o, n)]]
<1>0. Len(s) \in Nat
  BY LenProperties
<1>1. \A o \in Nat : \A n \in Nat : g[o][n] = parseItems(f, s, o, n)
  OBVIOUS
<1> HIDE DEF g
<1>2. Ends(f)
  BY DEF Good
<1>3. Ends(g)
  <2> SUFFICES ASSUME NEW o \in Nat, NEW n \in Nat, g[o][n].ok
               PROVE  g[o][n].off \in Nat /\ o <= g[o][n].off
    BY DEF Ends
  <2>1. g[o][n] = parseItems(f, s, o, n)
    BY <1>1
  <2>2. parseItems(f, s, o, n).ok
    BY <2>1
  <2>3. parseItems(f, s, o, n).off \in Nat /\ o <= parseItems(f, s, o, n).off
    BY <1>2, <2>2, StepEnds
  <2> QED
    BY <2>1, <2>3
<1>4. ASSUME NEW o \in Nat, o + (k + 1) >= Len(s), NEW n \in Nat
      PROVE  g[o][n] = parseItems(g, s, o, n)
  <2>1. ASSUME NEW p \in Nat, p > o, NEW m \in Nat PROVE f[p][m] = g[p][m]
    <3>1. p + k >= Len(s)
      BY <1>0, <1>4, <2>1
    <3>2. f[p][m] = parseItems(f, s, p, m)
      BY <3>1 DEF Good
    <3> QED
      BY <1>1, <3>2
  <2>2. parseItems(f, s, o, n) = parseItems(g, s, o, n)
    BY SMTT(60), <1>2, <2>1, Agree
  <2> QED
    BY <1>1, <2>2
<1>5. Good(g, s, k + 1)
  BY <1>3, <1>4 DEF Good
<1> QED
  BY <1>5

LEMMA ItemsFixed ==
    ASSUME NEW s \in Seq(Byte)
    PROVE  Fixed(Items(s), s)
<1>0. Len(s) \in Nat
  BY LenProperties
<1>1. \A k \in Nat : \E f : Good(f, s, k)
  <2> DEFINE bad == {k \in Nat : ~\E f : Good(f, s, k)}
  <2> SUFFICES ASSUME bad # {} PROVE FALSE
    OBVIOUS
  <2>1. PICK k \in bad : \A j \in bad : k <= j
    <3>1. bad \subseteq Nat
      OBVIOUS
    <3> HIDE DEF bad
    <3> QED
      BY <3>1, LeastOf
  <2>2. k \in Nat /\ ~\E f : Good(f, s, k)
    BY <2>1
  <2>3. k # 0
    BY <2>2, GoodStart
  <2>4. k - 1 \in Nat /\ k - 1 \notin bad /\ (k - 1) + 1 = k
    <3>1. k - 1 \in Nat /\ ~(k <= k - 1) /\ (k - 1) + 1 = k
      BY <2>2, <2>3
    <3> HIDE DEF bad
    <3> QED
      BY <2>1, <3>1
  <2>5. PICK f : Good(f, s, k - 1)
    BY <2>4
  <2>6. \E g : Good(g, s, (k - 1) + 1)
    BY <2>4, <2>5, GoodStep
  <2> QED
    BY <2>2, <2>4, <2>6
<1>2. PICK f : Good(f, s, Len(s))
  BY <1>0, <1>1
<1> DEFINE g == [o \in Nat |-> [n \in Nat |-> parseItems(f, s, o, n)]]
<1>3. \A o \in Nat : \A n \in Nat : g[o][n] = parseItems(f, s, o, n)
  OBVIOUS
<1>4. \A o \in Nat : \A n \in Nat : f[o][n] = parseItems(f, s, o, n)
  <2>1. \A o \in Nat : o + Len(s) >= Len(s)
    BY <1>0
  <2> QED
    BY <1>2, <2>1 DEF Good
<1>5. \A o \in Nat : \A n \in Nat : f[o][n] = g[o][n]
  <2> HIDE DEF g
  <2> QED
    BY <1>3, <1>4
<1>6. ASSUME NEW o \in Nat, NEW n \in Nat PROVE parseItems(f, s, o, n) = parseItems(g, s, o, n)
  <2> HIDE DEF g
  <2>1. Ends(f)
    BY <1>2 DEF Good
  <2> QED
    BY <1>5, <2>1, Agree
<1>7. Fixed(g, s)
  <2> DEFINE h == [o \in Nat |-> [n \in Nat |-> parseItems(g, s, o, n)]]
  <2>1. g = h
    BY <1>6
  <2> HIDE DEF g
  <2> QED
    BY <2>1 DEF Fixed
<1> HIDE DEF g
<1> QED
  BY <1>7 DEF Items

LEMMA ItemsIs ==
    ASSUME NEW s \in Seq(Byte), NEW o \in Nat, NEW n \in Nat
    PROVE  Items(s)[o][n] = parseItems(Items(s), s, o, n)
<1> DEFINE f == Items(s)
<1>1. Fixed(f, s)
  BY ItemsFixed
<1> HIDE DEF f
<1>2. f = [off \in Nat |-> [m \in Nat |-> parseItems(f, s, off, m)]]
  BY <1>1 DEF Fixed
<1> DEFINE g == [off \in Nat |-> [m \in Nat |-> parseItems(f, s, off, m)]]
<1>3. g[o][n] = parseItems(f, s, o, n)
  OBVIOUS
<1>4. f[o][n] = parseItems(f, s, o, n)
  BY <1>2, <1>3
<1> QED
  BY <1>4 DEF f

LEMMA ParseIs ==
    ASSUME NEW s, NEW from, NEW count
    PROVE  parse(s, from, count) = Items(s)[from][count]
BY DEF parse, Items, Fixed

-----------------------------------------------------------------------------
(* What is parsed of a string.                                              *)

LEMMA ItemsAre ==
    ASSUME NEW s \in Seq(Byte), NEW o \in Nat, NEW n \in Nat, Items(s)[o][n].ok
    PROVE  /\ n = 0 => Items(s)[o][n].off = o /\ Items(s)[o][n].list = <<>>
           /\ n # 0 => /\ Parsed(Items(s), s, o, n)
                       /\ Items(s)[o][n].list = <<Item(Items(s), s, o)>> \o Rest(Items(s), s, o, n).list
                       /\ Items(s)[o][n].off = Rest(Items(s), s, o, n).off
<1> DEFINE f == Items(s)
<1>1. f[o][n] = parseItems(f, s, o, n)
  BY ItemsIs
<1>2. f[o][n].ok
  OBVIOUS
<1> HIDE DEF f
<1>3. CASE n = 0
  <2>1. f[o][n] = [ok |-> TRUE, list |-> <<>>, off |-> o]
    BY <1>1, <1>3, StepIs
  <2> QED
    BY <1>3, <2>1 DEF f
<1>4. CASE n # 0
  <2>1. Parsed(f, s, o, n)
    <3> SUFFICES ASSUME ~Parsed(f, s, o, n) PROVE FALSE
      OBVIOUS
    <3>1. f[o][n] = Fail
      BY <1>1, <1>4, StepIs
    <3>2. ~Fail.ok
      BY DEF Fail
    <3> QED
      BY <1>2, <3>1, <3>2
  <2> DEFINE l == <<Item(f, s, o)>> \o Rest(f, s, o, n).list
             e == Rest(f, s, o, n).off
  <2>2. f[o][n] = [ok |-> TRUE, list |-> l, off |-> e]
    BY <1>1, <1>4, <2>1, StepIs
  <2>3. f[o][n].list = l /\ f[o][n].off = e
    <3> HIDE DEF l, e
    <3> QED
      BY <2>2
  <2> QED
    BY <1>4, <2>1, <2>3 DEF f
<1> QED
  BY <1>3, <1>4

LEMMA NoItems ==
    ASSUME NEW s \in Seq(Byte), NEW o \in Nat
    PROVE  Items(s)[o][0].ok /\ Items(s)[o][0].list = <<>> /\ Items(s)[o][0].off = o
<1> DEFINE r == Items(s)[o][0]
<1>1. r = [ok |-> TRUE, list |-> <<>>, off |-> o]
  BY ItemsIs, StepIs
<1> HIDE DEF r
<1>2. r.ok /\ r.list = <<>> /\ r.off = o
  BY <1>1
<1> QED
  BY <1>2 DEF r

(* Induction from the end of a string to its start.                        *)
LEMMA FromTheEnd ==
    ASSUME NEW S, NEW N \in Nat, \A o \in Nat : o >= N => o \in S,
           \A o \in Nat : (\A p \in Nat : p > o => p \in S) => o \in S
    PROVE  Nat \subseteq S
<1> DEFINE bad == {k \in Nat : \E o \in Nat : o + k >= N /\ o \notin S}
<1>1. bad = {}
  <2> SUFFICES ASSUME bad # {} PROVE FALSE
    OBVIOUS
  <2>1. PICK k \in bad : \A j \in bad : k <= j
    <3>1. bad \subseteq Nat
      OBVIOUS
    <3> HIDE DEF bad
    <3> QED
      BY <3>1, LeastOf
  <2>2. PICK o \in Nat : o + k >= N /\ o \notin S
    BY <2>1
  <2>3. PICK p \in Nat : p > o /\ p \notin S
    BY <2>2
  <2>4. k \in Nat /\ k # 0
    BY <2>1, <2>2
  <2>5. k - 1 \in Nat /\ p + (k - 1) >= N /\ ~(k <= k - 1)
    BY <2>2, <2>3, <2>4
  <2>6. k - 1 \in bad
    BY <2>3, <2>5
  <2> HIDE DEF bad
  <2> QED
    BY <2>1, <2>5, <2>6
<1> SUFFICES ASSUME NEW o \in Nat, o \notin S PROVE FALSE
  OBVIOUS
<1>2. o + N >= N
  OBVIOUS
<1>3. N \in bad
  BY <1>2
<1> HIDE DEF bad
<1> QED
  BY <1>1, <1>3

(* Where items end: further on, and in the string if there is any.         *)
LEMMA ItemsEnd ==
    ASSUME NEW s \in Seq(Byte), NEW o \in Nat, NEW n \in Nat, Items(s)[o][n].ok
    PROVE  /\ Items(s)[o][n].off \in Nat /\ o <= Items(s)[o][n].off
           /\ o <= Len(s) => Items(s)[o][n].off <= Len(s)
           /\ n # 0 => o < Len(s)
<1> DEFINE f == Items(s)
           Sound(p, m) == f[p][m].off \in Nat /\ p <= f[p][m].off /\ (p <= Len(s) => f[p][m].off <= Len(s))
           Holds(p) == \A m \in Nat : f[p][m].ok => Sound(p, m)
<1>0. Len(s) \in Nat
  BY LenProperties
<1>1. ASSUME NEW p \in Nat, NEW m \in Nat, f[p][m].ok, m # 0 PROVE p < Len(s)
  <2>1. itemHead(s, p).ok
    BY ZenonT(60), <1>1, ItemsAre DEF Parsed
  <2> QED
    BY <1>0, <2>1, HeadIs
<1>2. ASSUME NEW p \in Nat, \A q \in Nat : q > p => Holds(q) PROVE Holds(p)
  <2> SUFFICES ASSUME NEW m \in Nat, f[p][m].ok PROVE Sound(p, m)
    OBVIOUS
  <2>1. CASE m = 0
    <3>1. f[p][m].off = p
      BY ZenonT(60), <2>1, ItemsAre
    <3> QED
      BY <3>1
  <2>2. CASE m # 0
    <3> DEFINE h == itemHead(s, p)
    <3>1. Parsed(f, s, p, m) /\ f[p][m].off = Rest(f, s, p, m).off
      BY ZenonT(60), <2>2, ItemsAre
    <3>2. h.off \in Nat /\ h.off > p /\ h.nested \in Nat /\ h.off <= Len(s)
      BY <3>1, HeadFits DEF Part, Parsed
    <3> HIDE DEF f, h
    <3> DEFINE x == Nested(f, s, p).off
    <3>3. x \in Nat /\ h.off <= x /\ x <= Len(s)
      <4>1. Holds(h.off)
        BY <1>2, <3>2
      <4>2. f[h.off][h.nested].ok
        BY <3>1 DEF Parsed, Nested, h
      <4>3. Sound(h.off, h.nested)
        BY <3>2, <4>1, <4>2
      <4> QED
        BY <3>2, <4>3 DEF Nested, h
    <3>4. m - 1 \in Nat /\ x > p
      BY <2>2, <3>2, <3>3
    <3>5. Sound(x, m - 1)
      <4>1. Holds(x)
        BY <1>2, <3>3, <3>4
      <4>2. f[x][m - 1].ok
        BY <3>1 DEF Parsed, Rest
      <4> QED
        BY <3>4, <4>1, <4>2
    <3>6. f[p][m].off = f[x][m - 1].off
      BY <3>1 DEF Rest
    <3> DEFINE y == f[p][m].off
    <3>7. y \in Nat /\ x <= y /\ y <= Len(s)
      BY <3>3, <3>5, <3>6
    <3> HIDE DEF x, y
    <3>8. p <= y
      BY <1>0, <3>3, <3>4, <3>7
    <3> QED
      BY <3>7, <3>8 DEF y
  <2> QED
    BY <2>1, <2>2
<1>3. \A p \in Nat : Holds(p)
  <2> DEFINE S == {p \in Nat : Holds(p)}
  <2>1. ASSUME NEW p \in Nat, p >= Len(s) PROVE p \in S
    <3> SUFFICES ASSUME NEW m \in Nat, f[p][m].ok PROVE Sound(p, m)
      OBVIOUS
    <3>1. m = 0
      BY <1>0, <1>1, <2>1
    <3>2. f[p][0].off = p
      BY NoItems
    <3> QED
      BY <2>1, <3>1, <3>2
  <2>2. ASSUME NEW p \in Nat, \A q \in Nat : q > p => q \in S PROVE p \in S
    <3>1. \A q \in Nat : q > p => Holds(q)
      BY <2>2
    <3>2. Holds(p)
      <4> HIDE DEF Holds
      <4> QED
        BY <1>2, <3>1
    <3> QED
      BY <3>2
  <2> HIDE DEF S, Holds
  <2>3. Nat \subseteq S
    BY <1>0, <2>1, <2>2, FromTheEnd
  <2> QED
    BY <2>3 DEF S
<1>4. Holds(o)
  BY <1>3
<1>5. Sound(o, n)
  BY <1>4
<1>6. n # 0 => o < Len(s)
  BY <1>1
<1> QED
  BY <1>5, <1>6

-----------------------------------------------------------------------------
(* A list of n items.                                                      *)
IsList(l, n) == \E S : l \in Seq(S) /\ Len(l) = n

Longer(k, x, l, n) == k[1] = x /\ \A i \in 1 .. n : k[i + 1] = l[i]

LEMMA ListMore ==
    ASSUME NEW x, NEW l, NEW n \in Nat, IsList(l, n)
    PROVE  IsList(<<x>> \o l, n + 1) /\ Longer(<<x>> \o l, x, l, n)
<1>1. PICK S : l \in Seq(S) /\ Len(l) = n
  BY DEF IsList
<1> DEFINE T == S \cup {x}
           h == <<x>>
<1>2. l \in Seq(T) /\ h \in Seq(T) /\ Len(h) = 1 /\ h[1] = x
  <2>1. l \in Seq(T)
    BY <1>1, SeqMonotonic
  <2> QED
    BY <2>1
<1> HIDE DEF T, h
<1>3. /\ h \o l \in Seq(T)
      /\ Len(h \o l) = Len(h) + Len(l)
      /\ \A i \in 1 .. Len(h) + Len(l) : (h \o l)[i] = IF i <= Len(h) THEN h[i] ELSE l[i - Len(h)]
  BY <1>2, ConcatProperties
<1>4. Len(h \o l) = n + 1
  BY <1>1, <1>2, <1>3
<1>5. (h \o l)[1] = x
  BY <1>1, <1>2, <1>3
<1>6. ASSUME NEW i \in 1 .. n PROVE (h \o l)[i + 1] = l[i]
  <2>1. i + 1 \in 1 .. Len(h) + Len(l) /\ ~(i + 1 <= Len(h)) /\ (i + 1) - Len(h) = i
    BY <1>1, <1>2
  <2> QED
    BY <1>3, <2>1
<1>7. IsList(h \o l, n + 1)
  BY <1>3, <1>4 DEF IsList
<1> QED
  BY <1>5, <1>6, <1>7 DEF h, Longer

(* n items are the first and n - 1 from where it ends.                     *)
Tail1(s, o) == Items(s)[o][1].off

LEMMA FirstOf ==
    ASSUME NEW s \in Seq(Byte), NEW o \in Nat, NEW n \in Nat, n # 0, Items(s)[o][n].ok
    PROVE  /\ Items(s)[o][1].ok
           /\ Items(s)[o][1].list = <<Item(Items(s), s, o)>> \o <<>>
           /\ Tail1(s, o) = Nested(Items(s), s, o).off
           /\ Items(s)[Tail1(s, o)][n - 1].ok
           /\ Items(s)[o][n].list = <<Item(Items(s), s, o)>> \o Items(s)[Tail1(s, o)][n - 1].list
           /\ Items(s)[o][n].off = Items(s)[Tail1(s, o)][n - 1].off
           /\ Tail1(s, o) \in Nat /\ o < Tail1(s, o) /\ Tail1(s, o) <= Len(s) /\ n - 1 \in Nat
<1> DEFINE f == Items(s)
           x == Nested(f, s, o).off
           h == itemHead(s, o)
<1>1. Parsed(f, s, o, n) /\ f[o][n].list = <<Item(f, s, o)>> \o Rest(f, s, o, n).list
      /\ f[o][n].off = Rest(f, s, o, n).off
  BY ZenonT(60), ItemsAre
<1>2. h.off \in Nat /\ h.off > o /\ h.off <= Len(s) /\ h.nested \in Nat
  BY <1>1, HeadFits DEF Parsed, Part
<1>3. x \in Nat /\ h.off <= x /\ x <= Len(s)
  <2>1. Items(s)[h.off][h.nested].ok
    BY <1>1 DEF Parsed, Nested
  <2> HIDE DEF h
  <2>2. Items(s)[h.off][h.nested].off \in Nat /\ h.off <= Items(s)[h.off][h.nested].off
        /\ Items(s)[h.off][h.nested].off <= Len(s)
    BY <1>2, <2>1, ItemsEnd
  <2> QED
    BY <2>2 DEF Nested, h
<1> HIDE DEF f
<1>4. f[x][0].ok /\ f[x][0].list = <<>> /\ f[x][0].off = x
  <2> HIDE DEF x
  <2> QED
    BY <1>3, NoItems DEF f
<1>5. Rest(f, s, o, 1) = f[x][0]
  <2>1. 1 - 1 = 0
    OBVIOUS
  <2> QED
    BY <2>1 DEF Rest
<1>6. Rest(f, s, o, 1).ok /\ Rest(f, s, o, 1).list = <<>> /\ Rest(f, s, o, 1).off = x
  <2> HIDE DEF x
  <2> QED
    BY <1>4, <1>5
<1>7. Parsed(f, s, o, 1)
  BY <1>1, <1>6 DEF Parsed
<1>8. f[o][1] = [ok |-> TRUE, list |-> <<Item(f, s, o)>> \o Rest(f, s, o, 1).list,
                 off |-> Rest(f, s, o, 1).off]
  <2>1. f[o][1] = parseItems(f, s, o, 1)
    BY ItemsIs DEF f
  <2> QED
    BY <1>7, <2>1, StepIs
<1>9. f[o][1].ok /\ f[o][1].list = <<Item(f, s, o)>> \o <<>> /\ f[o][1].off = x
  <2> DEFINE l == Rest(f, s, o, 1).list
             e == Rest(f, s, o, 1).off
             i == <<Item(f, s, o)>>
  <2>1. l = <<>> /\ e = x /\ f[o][1] = [ok |-> TRUE, list |-> i \o l, off |-> e]
    BY <1>6, <1>8
  <2> HIDE DEF l, e, x, i
  <2>2. f[o][1].ok /\ f[o][1].list = i \o l /\ f[o][1].off = e
    BY <2>1
  <2> QED
    BY <2>1, <2>2 DEF i
<1>10. Tail1(s, o) = x
  BY <1>9 DEF Tail1, f
<1>11. o < x /\ n - 1 \in Nat
  <2> HIDE DEF x, h
  <2> QED
    BY <1>2, <1>3
<1>12. Rest(f, s, o, n) = f[x][n - 1] /\ f[x][n - 1].ok
  BY <1>1 DEF Rest, Parsed, f
<1> QED
  BY <1>1, <1>3, <1>9, <1>10, <1>11, <1>12 DEF f

First(s, o) == Item(Items(s), s, o)

LEMMA ItemsList ==
    ASSUME NEW s \in Seq(Byte)
    PROVE  \A n \in Nat : \A o \in Nat : Items(s)[o][n].ok => IsList(Items(s)[o][n].list, n)
<1> DEFINE bad == {n \in Nat : \E o \in Nat : Items(s)[o][n].ok /\ ~IsList(Items(s)[o][n].list, n)}
<1> SUFFICES ASSUME bad # {} PROVE FALSE
  OBVIOUS
<1>1. PICK n \in bad : \A j \in bad : n <= j
  <2>1. bad \subseteq Nat
    OBVIOUS
  <2> HIDE DEF bad
  <2> QED
    BY <2>1, LeastOf
<1>2. PICK o \in Nat : Items(s)[o][n].ok /\ ~IsList(Items(s)[o][n].list, n)
  BY <1>1
<1>3. n \in Nat
  BY <1>1
<1>4. CASE n = 0
  <2>1. Items(s)[o][n].list = <<>>
    BY <1>4, NoItems
  <2>2. IsList(<<>>, 0)
    <3>1. <<>> \in Seq({}) /\ Len(<<>>) = 0
      BY EmptySeq
    <3> QED
      BY <3>1 DEF IsList
  <2> QED
    BY <1>2, <1>4, <2>1, <2>2
<1>5. CASE n # 0
  <2> DEFINE p == Tail1(s, o)
             l == Items(s)[p][n - 1].list
  <2>1. /\ Items(s)[p][n - 1].ok /\ p \in Nat /\ n - 1 \in Nat
        /\ Items(s)[o][n].list = <<First(s, o)>> \o l
    BY <1>2, <1>3, <1>5, FirstOf DEF First
  <2>2. ~(n <= n - 1) /\ (n - 1) + 1 = n
    BY <1>3
  <2>3. n - 1 \notin bad
    <3> HIDE DEF bad
    <3> QED
      BY <1>1, <2>1, <2>2
  <2>4. IsList(l, n - 1)
    BY <2>1, <2>3
  <2>5. IsList(<<First(s, o)>> \o l, (n - 1) + 1)
    <3> HIDE DEF l
    <3> QED
      BY <2>1, <2>4, ListMore
  <2> QED
    BY <1>2, <2>1, <2>2, <2>5
<1> QED
  BY <1>4, <1>5

(* The items of a list, and those after the first.                         *)
LEMMA ListOf ==
    ASSUME NEW s \in Seq(Byte), NEW o \in Nat, NEW n \in Nat, n # 0, Items(s)[o][n].ok
    PROVE  /\ Items(s)[o][n].list[1] = First(s, o)
           /\ \A i \in 1 .. n - 1 : Items(s)[o][n].list[i + 1] = Items(s)[Tail1(s, o)][n - 1].list[i]
<1> DEFINE p == Tail1(s, o)
           l == Items(s)[p][n - 1].list
           m == n - 1
<1>1. /\ Items(s)[p][m].ok /\ p \in Nat /\ m \in Nat
      /\ Items(s)[o][n].list = <<First(s, o)>> \o l
  BY FirstOf DEF First
<1>2. IsList(l, m)
  BY <1>1, ItemsList
<1> DEFINE x == First(s, o)
           k == <<x>> \o l
<1>3. m \in Nat /\ Items(s)[o][n].list = k
  BY <1>1
<1> HIDE DEF l, m, x, p
<1>4. Longer(k, x, l, m)
  BY ONLY <1>2, <1>3, ListMore
<1> HIDE DEF k
<1>5. Items(s)[o][n].list[1] = x /\ \A i \in 1 .. m : Items(s)[o][n].list[i + 1] = l[i]
  BY <1>3, <1>4 DEF Longer
<1> QED
  BY <1>5 DEF l, m, x, p

LEMMA EndOf ==
    ASSUME NEW s \in Seq(Byte), NEW o \in Nat, NEW n \in Nat, n # 0, Items(s)[o][n].ok
    PROVE  Items(s)[o][n].off = Items(s)[Tail1(s, o)][n - 1].off
<1> DEFINE f == Items(s)
<1>1. Parsed(f, s, o, n) /\ f[o][n].off = Rest(f, s, o, n).off
  BY ZenonT(60), ItemsAre
<1>2. Tail1(s, o) = Nested(f, s, o).off
  BY FirstOf
<1>3. Rest(f, s, o, n) = f[Tail1(s, o)][n - 1]
  BY <1>2 DEF Rest
<1> QED
  BY <1>1, <1>3

(* An item keeps the bytes it was parsed from.                             *)
LEMMA RawIs ==
    ASSUME NEW s \in Seq(Byte), NEW o \in Nat, NEW n \in Nat, n # 0, Items(s)[o][n].ok
    PROVE  First(s, o).raw = Span(s, o, Tail1(s, o))
<1>1. Tail1(s, o) = Nested(Items(s), s, o).off
  BY FirstOf
<1> QED
  BY <1>1 DEF First, Item

(* Every item of a list is the first one at some offset.                   *)
LEMMA ItemAt ==
    ASSUME NEW s \in Seq(Byte)
    PROVE  \A n \in Nat : \A o \in Nat : Items(s)[o][n].ok =>
               \A i \in 1 .. n : \E x \in Nat :
                   o <= x /\ Items(s)[x][1].ok /\ Items(s)[o][n].list[i] = First(s, x)
<1> DEFINE At(o, n) == \A i \in 1 .. n : \E x \in Nat :
                   o <= x /\ Items(s)[x][1].ok /\ Items(s)[o][n].list[i] = First(s, x)
           bad == {n \in Nat : \E o \in Nat : Items(s)[o][n].ok /\ ~At(o, n)}
<1> SUFFICES ASSUME bad # {} PROVE FALSE
  OBVIOUS
<1>1. PICK n \in bad : \A j \in bad : n <= j
  <2>1. bad \subseteq Nat
    OBVIOUS
  <2> HIDE DEF bad
  <2> QED
    BY <2>1, LeastOf
<1>2. PICK o \in Nat : Items(s)[o][n].ok /\ ~At(o, n)
  BY <1>1
<1>3. PICK i \in 1 .. n : ~\E x \in Nat :
              o <= x /\ Items(s)[x][1].ok /\ Items(s)[o][n].list[i] = First(s, x)
  BY <1>2
<1>4. n \in Nat /\ n # 0 /\ ~(n <= n - 1)
  BY <1>1, <1>3
<1> DEFINE p == Tail1(s, o)
<1>5. Items(s)[o][1].ok /\ Items(s)[p][n - 1].ok /\ p \in Nat /\ o < p /\ n - 1 \in Nat
  BY <1>2, <1>4, FirstOf
<1>6. /\ Items(s)[o][n].list[1] = First(s, o)
      /\ \A j \in 1 .. n - 1 : Items(s)[o][n].list[j + 1] = Items(s)[p][n - 1].list[j]
  BY SMTT(60), <1>2, <1>4, ListOf
<1>7. CASE i = 1
  BY <1>3, <1>5, <1>6, <1>7
<1>8. CASE i # 1
  <2> DEFINE j == i - 1
  <2>1. j \in 1 .. n - 1 /\ j + 1 = i
    BY <1>4, <1>8
  <2> HIDE DEF j
  <2>2. n - 1 \notin bad
    <3> HIDE DEF bad
    <3> QED
      BY <1>1, <1>4, <1>5
  <2>3. At(p, n - 1)
    BY <1>5, <2>2
  <2>4. PICK x \in Nat : p <= x /\ Items(s)[x][1].ok /\ Items(s)[p][n - 1].list[j] = First(s, x)
    BY <2>1, <2>3
  <2>5. Items(s)[o][n].list[i] = First(s, x)
    BY <1>6, <2>1, <2>4
  <2>6. o <= x
    BY <1>5, <2>4
  <2> QED
    BY <1>3, <2>4, <2>5, <2>6
<1> QED
  BY <1>7, <1>8

(* A list of items is as many bytes as its items are.                      *)
LEMMA SameItems ==
    ASSUME NEW s \in Seq(Byte), NEW t \in Seq(Byte)
    PROVE  \A n \in Nat : \A o \in Nat : \A q \in Nat :
               (/\ Items(s)[o][n].ok /\ Items(t)[q][n].ok /\ o <= Len(s) /\ q <= Len(t)
                /\ \A i \in 1 .. n : Items(s)[o][n].list[i].raw = Items(t)[q][n].list[i].raw)
               => Span(s, o, Items(s)[o][n].off) = Span(t, q, Items(t)[q][n].off)
<1> DEFINE Equal(o, q, n) == 
               /\ Items(s)[o][n].ok /\ Items(t)[q][n].ok /\ o <= Len(s) /\ q <= Len(t)
               /\ \A i \in 1 .. n : Items(s)[o][n].list[i].raw = Items(t)[q][n].list[i].raw
           Same(o, q, n) == Span(s, o, Items(s)[o][n].off) = Span(t, q, Items(t)[q][n].off)
           bad == {n \in Nat : \E o \in Nat : \E q \in Nat : Equal(o, q, n) /\ ~Same(o, q, n)}
<1> SUFFICES ASSUME bad # {} PROVE FALSE
  OBVIOUS
<1>0. Len(s) \in Nat /\ Len(t) \in Nat
  BY LenProperties
<1>1. PICK n \in bad : \A j \in bad : n <= j
  <2>1. bad \subseteq Nat
    OBVIOUS
  <2> HIDE DEF bad
  <2> QED
    BY <2>1, LeastOf
<1>2. PICK o \in Nat, q \in Nat : Equal(o, q, n) /\ ~Same(o, q, n)
  BY <1>1
<1>3. n \in Nat
  BY <1>1
<1>4. CASE n = 0
  <2>1. Items(s)[o][n].off = o /\ Items(t)[q][n].off = q
    BY <1>4, NoItems
  <2>2. Part(s, o, o) /\ Part(t, q, q)
    BY <1>2 DEF Part
  <2>3. SameBytes(s, o, o, t, q, q)
    <3>1. o - o = 0 /\ q - q = 0
      OBVIOUS
    <3> QED
      BY <3>1 DEF SameBytes
  <2>4. Span(s, o, o) = Span(t, q, q)
    BY <2>2, <2>3, SameSpan
  <2> QED
    BY <1>2, <2>1, <2>4
<1>5. CASE n # 0
  <2> DEFINE p == Tail1(s, o)
             r == Tail1(t, q)
             m == n - 1
  <2>0. Items(s)[o][n].ok /\ Items(t)[q][n].ok /\ o <= Len(s) /\ q <= Len(t)
    BY <1>2
  <2>m. m \in Nat
    BY <1>3, <1>5
  <2>1. /\ Items(s)[p][m].ok /\ p \in Nat /\ o < p /\ p <= Len(s)
        /\ Items(s)[o][n].off = Items(s)[p][m].off
    <3> HIDE DEF bad
    <3>1. Items(s)[p][m].ok /\ p \in Nat /\ p <= Len(s)
      BY <1>3, <1>5, <2>0, FirstOf
    <3>2. o < p
      BY <1>3, <1>5, <2>0, FirstOf
    <3>3. Items(s)[o][n].off = Items(s)[p][m].off
      BY <1>3, <1>5, <2>0, EndOf
    <3> QED
      BY <3>1, <3>2, <3>3
  <2>2. /\ Items(t)[r][m].ok /\ r \in Nat /\ q < r /\ r <= Len(t)
        /\ Items(t)[q][n].off = Items(t)[r][m].off
    <3> HIDE DEF bad
    <3> QED
      BY ZenonT(60), <1>3, <1>5, <2>0, FirstOf
  <2>3. /\ Items(s)[o][n].list[1] = First(s, o)
        /\ \A i \in 1 .. m : Items(s)[o][n].list[i + 1] = Items(s)[p][m].list[i]
    BY <1>2, <1>3, <1>5, ListOf
  <2>4. /\ Items(t)[q][n].list[1] = First(t, q)
        /\ \A i \in 1 .. m : Items(t)[q][n].list[i + 1] = Items(t)[r][m].list[i]
    BY <1>2, <1>3, <1>5, ListOf
  <2>5. \A i \in 1 .. m : i + 1 \in 1 .. n
    BY <1>3
  <2>6. Span(s, o, p) = Span(t, q, r)
    <3>1. 1 \in 1 .. n
      BY <1>3, <1>5
    <3>2. First(s, o).raw = First(t, q).raw
      BY SMTT(60), <1>2, <2>3, <2>4, <3>1
    <3>3. First(s, o).raw = Span(s, o, p)
      BY <1>3, <1>5, <2>0, RawIs
    <3>4. First(t, q).raw = Span(t, q, r)
      BY <1>3, <1>5, <2>0, RawIs
    <3> QED
      BY <3>2, <3>3, <3>4
  <2>7. Equal(p, r, m)
    <3>1. ASSUME NEW i \in 1 .. m PROVE Items(s)[p][m].list[i].raw = Items(t)[r][m].list[i].raw
      <4>1. Items(s)[o][n].list[i + 1].raw = Items(t)[q][n].list[i + 1].raw
        BY <1>2, <2>5
      <4> HIDE DEF p, r, m
      <4> QED
        BY <2>3, <2>4, <4>1
    <3> QED
      BY <2>0, <2>1, <2>2, <3>1
  <2>8. Same(p, r, m)
    <3>1. ~(n <= m)
      BY <1>3
    <3>2. m \notin bad
      <4> HIDE DEF bad, m
      <4> QED
        BY <1>1, <3>1
    <3> QED
      BY <2>m, <2>1, <2>2, <2>7, <3>2
  <2>9. /\ Items(s)[p][m].off \in Nat /\ p <= Items(s)[p][m].off /\ Items(s)[p][m].off <= Len(s)
        /\ Items(t)[r][m].off \in Nat /\ r <= Items(t)[r][m].off /\ Items(t)[r][m].off <= Len(t)
    BY <2>m, <2>1, <2>2, ItemsEnd
  <2> DEFINE x == Items(s)[p][m].off
             y == Items(t)[r][m].off
  <2>10. x \in Nat /\ p <= x /\ x <= Len(s) /\ y \in Nat /\ r <= y /\ y <= Len(t) /\ Span(s, p, x) = Span(t, r, y)
    BY <2>8, <2>9
  <2>11. Items(s)[o][n].off = x /\ Items(t)[q][n].off = y
    BY <2>1, <2>2
  <2> HIDE DEF x, y, p, r
  <2>12. Part(s, o, p) /\ Part(s, p, x) /\ Part(t, q, r) /\ Part(t, r, y)
    BY <2>1, <2>2, <2>10 DEF Part
  <2>13. Span(s, o, x) = Span(t, q, y)
    BY <2>6, <2>10, <2>12, CutSpan
  <2> QED
    BY <1>2, <2>11, <2>13
<1> QED
  BY <1>4, <1>5

-----------------------------------------------------------------------------
(* bytes.Compare is an order.                                              *)
LEMMA BeforeIrreflexive ==
    ASSUME NEW x \in Seq(Byte)
    PROVE  ~Before(x, x)
<1> SUFFICES ASSUME Before(x, x) PROVE FALSE
  OBVIOUS
<1>1. PICK i \in 1 .. Len(x) : i > Len(x) \/ x[i] < x[i]
  BY DEF Before
<1>2. x[i] \in Nat
  BY OctetIs
<1>3. Len(x) \in Nat
  BY LenProperties
<1> QED
  BY <1>1, <1>2, <1>3

\* x goes before y at i: they are the same up to there.
At(x, y, i) ==
    /\ i \in 1 .. Len(y)
    /\ \A j \in 1 .. i - 1 : j <= Len(x) /\ x[j] = y[j]
    /\ i > Len(x) \/ x[i] < y[i]

LEMMA BeforeAt ==
    ASSUME NEW x, NEW y
    PROVE  Before(x, y) <=> \E i : At(x, y, i)
BY DEF Before, At

LEMMA BeforeTransitive ==
    ASSUME NEW x \in Seq(Byte), NEW y \in Seq(Byte), NEW z \in Seq(Byte), Before(x, y), Before(y, z)
    PROVE  Before(x, z)
<1>0. Len(x) \in Nat /\ Len(y) \in Nat /\ Len(z) \in Nat
  BY LenProperties
<1>1. PICK i : At(x, y, i)
  BY BeforeAt
<1>2. PICK j : At(y, z, j)
  BY BeforeAt
<1>3. i \in Nat /\ j \in Nat /\ i >= 1 /\ j >= 1 /\ i <= Len(y) /\ j <= Len(z)
  BY <1>0, <1>1, <1>2 DEF At
<1>4. \A l \in 1 .. i - 1 : l <= Len(x) /\ x[l] = y[l]
  BY <1>1 DEF At
<1>5. \A l \in 1 .. j - 1 : l <= Len(y) /\ y[l] = z[l]
  BY <1>2 DEF At
<1>6. CASE i < j
  <2>1. i \in 1 .. j - 1
    BY <1>3, <1>6
  <2>2. y[i] = z[i]
    BY <1>5, <2>1
  <2>3. i > Len(x) \/ x[i] < z[i]
    BY <1>1, <2>2 DEF At
  <2>4. ASSUME NEW l \in 1 .. i - 1 PROVE l <= Len(x) /\ x[l] = z[l]
    <3>1. l \in 1 .. j - 1
      BY <1>3, <1>6
    <3> QED
      BY <1>4, <1>5, <3>1
  <2>5. i \in 1 .. Len(z)
    BY <1>0, <1>3, <1>6
  <2>6. At(x, z, i)
    BY <2>3, <2>4, <2>5 DEF At
  <2> QED
    BY <2>6, BeforeAt
<1>7. CASE j <= i
  <2>1. y[j] < z[j]
    BY <1>0, <1>2, <1>3, <1>7 DEF At
  <2>2. j > Len(x) \/ x[j] < z[j]
    <3>1. CASE j = i
      <4> SUFFICES ASSUME ~(j > Len(x)) PROVE x[j] < z[j]
        OBVIOUS
      <4>1. x[j] < y[j]
        BY <1>1, <3>1 DEF At
      <4>2. j \in 1 .. Len(x) /\ j \in 1 .. Len(y) /\ j \in 1 .. Len(z)
        BY <1>0, <1>3, <3>1
      <4>3. x[j] \in Nat /\ y[j] \in Nat /\ z[j] \in Nat
        BY <4>2, OctetIs
      <4> QED
        BY <2>1, <4>1, <4>3
    <3>2. CASE j # i
      <4>1. j \in 1 .. i - 1
        BY <1>3, <1>7, <3>2
      <4> QED
        BY <1>4, <2>1, <4>1
    <3> QED
      BY <3>1, <3>2
  <2>3. ASSUME NEW l \in 1 .. j - 1 PROVE l <= Len(x) /\ x[l] = z[l]
    <3>1. l \in 1 .. i - 1
      BY <1>3, <1>7
    <3> QED
      BY <1>4, <1>5, <3>1
  <2>4. At(x, z, j)
    BY <1>2, <2>2, <2>3 DEF At
  <2> QED
    BY <2>4, BeforeAt
<1> QED
  BY <1>3, <1>6, <1>7

(* Keys in order, one to the next, are in order.                           *)
Ascending(K, n) == \A i \in 1 .. n : \A j \in 1 .. n : i < j => Before(K[i], K[j])

LEMMA Ascends ==
    ASSUME NEW n \in Nat, NEW K, \A i \in 1 .. n : K[i] \in Seq(Byte),
           \A i \in 2 .. n : Before(K[i - 1], K[i])
    PROVE  Ascending(K, n)
<1> DEFINE bad == {j \in Nat : j \in 1 .. n /\ \E i \in 1 .. n : i < j /\ ~Before(K[i], K[j])}
<1> SUFFICES ASSUME bad # {} PROVE FALSE
  BY DEF Ascending
<1>1. PICK j \in bad : \A k \in bad : j <= k
  <2>1. bad \subseteq Nat
    OBVIOUS
  <2> HIDE DEF bad
  <2> QED
    BY <2>1, LeastOf
<1>2. PICK i \in 1 .. n : i < j /\ ~Before(K[i], K[j])
  BY <1>1
<1>3. j \in 2 .. n /\ j - 1 \in 1 .. n /\ j - 1 \in Nat /\ ~(j <= j - 1)
  BY <1>1, <1>2
<1>4. Before(K[j - 1], K[j])
  BY <1>3
<1>5. j - 1 \notin bad
  <2> HIDE DEF bad
  <2> QED
    BY <1>1, <1>3
<1>6. i # j - 1
  BY <1>2, <1>4
<1>7. i < j - 1
  BY <1>2, <1>3, <1>6
<1>8. Before(K[i], K[j - 1])
  BY <1>3, <1>5, <1>7
<1>9. K[i] \in Seq(Byte) /\ K[j - 1] \in Seq(Byte) /\ K[j] \in Seq(Byte)
  BY <1>3
<1> DEFINE x == K[i]
           y == K[j - 1]
           z == K[j]
<1>10. Before(x, y) /\ Before(y, z) /\ ~Before(x, z) /\ x \in Seq(Byte) /\ y \in Seq(Byte) /\ z \in Seq(Byte)
  BY <1>2, <1>4, <1>8, <1>9
<1> HIDE DEF x, y, z
<1> QED
  BY ONLY <1>10, BeforeTransitive

AllBytes(K, n) == \A i \in 1 .. n : K[i] \in Seq(Byte)

\* Each key of K, with what belongs to it, is one of L.
Among(K, V, L, W, n) == \A i \in 1 .. n : \E j \in 1 .. n : K[i] = L[j] /\ V[i] = W[j]

(* The same keys in order are in the same order.                           *)
LEMMA OneOrder ==
    ASSUME NEW n \in Nat, NEW K, NEW L, NEW V, NEW W, Ascending(K, n), Ascending(L, n),
           AllBytes(K, n), AllBytes(L, n), Among(K, V, L, W, n)
    PROVE  \A i \in 1 .. n : K[i] = L[i] /\ V[i] = W[i]
<1> DEFINE pi == [i \in 1 .. n |-> CHOOSE j \in 1 .. n : K[i] = L[j] /\ V[i] = W[j]]
<1>1. \A i \in 1 .. n : pi[i] \in 1 .. n /\ K[i] = L[pi[i]] /\ V[i] = W[pi[i]]
  BY DEF Among
<1> HIDE DEF pi
<1>2. ASSUME NEW i \in 1 .. n, NEW j \in 1 .. n, i < j PROVE pi[i] < pi[j]
  <2> SUFFICES ASSUME ~(pi[i] < pi[j]) PROVE FALSE
    OBVIOUS
  <2> DEFINE a == pi[i]
             b == pi[j]
  <2>1. a \in 1 .. n /\ b \in 1 .. n /\ K[i] = L[a] /\ K[j] = L[b]
    BY <1>1
  <2>2. Before(K[i], K[j])
    BY <1>2 DEF Ascending
  <2>3. ~(a < b)
    OBVIOUS
  <2> HIDE DEF a, b
  <2>4. Before(L[a], L[b]) /\ L[a] \in Seq(Byte) /\ L[b] \in Seq(Byte)
    BY <2>1, <2>2 DEF AllBytes
  <2>5. CASE a = b
    <3> DEFINE x == L[a]
    <3>1. Before(x, x) /\ x \in Seq(Byte)
      BY <2>4, <2>5
    <3> HIDE DEF x
    <3> QED
      BY ONLY <3>1, BeforeIrreflexive
  <2>6. CASE b < a
    <3> DEFINE x == L[a]
               y == L[b]
    <3>1. Before(L[b], L[a])
      BY <2>1, <2>6 DEF Ascending
    <3>2. Before(x, y) /\ Before(y, x) /\ x \in Seq(Byte) /\ y \in Seq(Byte)
      BY <2>4, <3>1
    <3> HIDE DEF x, y
    <3>3. Before(x, x)
      BY ONLY <3>2, BeforeTransitive
    <3> QED
      BY ONLY <3>2, <3>3, BeforeIrreflexive
  <2> QED
    BY <2>1, <2>3, <2>5, <2>6
<1>3. \A i \in 1 .. n : i <= pi[i]
  <2> DEFINE bad == {i \in Nat : i \in 1 .. n /\ pi[i] < i}
  <2>1. bad = {}
    <3> SUFFICES ASSUME bad # {} PROVE FALSE
      OBVIOUS
    <3>1. PICK i \in bad : \A k \in bad : i <= k
      <4>1. bad \subseteq Nat
        OBVIOUS
      <4> HIDE DEF bad
      <4> QED
        BY <4>1, LeastOf
    <3>2. i \in 1 .. n /\ pi[i] < i /\ pi[i] \in 1 .. n
      BY <1>1, <3>1
    <3>3. i - 1 \in 1 .. n /\ i - 1 < i /\ i - 1 \in Nat /\ ~(i <= i - 1)
      <4> DEFINE c == pi[i]
      <4>1. i \in 1 .. n /\ c < i /\ c \in 1 .. n
        BY <3>2
      <4> HIDE DEF c, bad
      <4> QED
        BY ONLY <4>1, n \in Nat
    <3>4. i - 1 \notin bad
      <4> HIDE DEF bad
      <4> QED
        BY <3>1, <3>3
    <3>5. pi[i - 1] \in 1 .. n /\ pi[i - 1] < pi[i]
      BY <1>1, <1>2, <3>2, <3>3
    <3> DEFINE a == pi[i - 1]
               b == pi[i]
    <3>6. ~(a < i - 1)
      BY <3>3, <3>4
    <3>7. a \in 1 .. n /\ b \in 1 .. n /\ a < b /\ b < i
      BY <3>2, <3>5
    <3> HIDE DEF a, b, bad
    <3> QED
      BY <3>2, <3>6, <3>7
  <2> SUFFICES ASSUME NEW i \in 1 .. n PROVE i <= pi[i]
    OBVIOUS
  <2>2. ~(pi[i] < i)
    <3>1. i \notin bad
      <4> HIDE DEF bad
      <4> QED
        BY <2>1
    <3>2. i \in Nat
      OBVIOUS
    <3> QED
      BY <3>1, <3>2
  <2>3. pi[i] \in 1 .. n
    BY <1>1
  <2> DEFINE a == pi[i]
  <2> HIDE DEF a
  <2>4. ~(a < i) /\ a \in 1 .. n
    BY <2>2, <2>3 DEF a
  <2>5. i <= a
    BY <2>4
  <2> QED
    BY <2>5 DEF a
<1>4. \A i \in 1 .. n : pi[i] <= i
  <2> DEFINE bad == {k \in Nat : n - k \in 1 .. n /\ pi[n - k] > n - k}
  <2>1. bad = {}
    <3> SUFFICES ASSUME bad # {} PROVE FALSE
      OBVIOUS
    <3>1. PICK k \in bad : \A l \in bad : k <= l
      <4>1. bad \subseteq Nat
        OBVIOUS
      <4> HIDE DEF bad
      <4> QED
        BY <4>1, LeastOf
    <3> DEFINE i == n - k
               a == pi[i]
    <3>2. k \in Nat /\ i \in 1 .. n /\ a > i
      BY <3>1
    <3>3. a \in 1 .. n
      BY <1>1, <3>2
    <3>4. k # 0 /\ i + 1 \in 1 .. n /\ k - 1 \in Nat /\ n - (k - 1) = i + 1 /\ ~(k <= k - 1)
      <4>1. i = n - k
        OBVIOUS
      <4> HIDE DEF i, a
      <4> QED
        BY <3>2, <3>3, <4>1
    <3>5. k - 1 \notin bad
      <4> HIDE DEF bad
      <4> QED
        BY <3>1, <3>4
    <3> DEFINE b == pi[i + 1]
    <3>6. b \in 1 .. n
      BY <1>1, <3>4
    <3>7. a < b
      <4>1. i < i + 1
        BY <3>2
      <4> HIDE DEF i
      <4> QED
        BY <1>2, <3>2, <3>4, <4>1
    <3>8. ~(b > i + 1)
      BY <3>4, <3>5
    <3> HIDE DEF a, b, i, bad
    <3> QED
      BY <3>2, <3>3, <3>6, <3>7, <3>8
  <2> SUFFICES ASSUME NEW i \in 1 .. n PROVE pi[i] <= i
    OBVIOUS
  <2>2. n - i \in Nat /\ n - (n - i) = i
    OBVIOUS
  <2>3. ~(pi[i] > i)
    <3>1. n - i \notin bad
      BY <2>1
    <3> QED
      BY <2>2, <3>1
  <2>4. pi[i] \in 1 .. n
    BY <1>1
  <2> DEFINE a == pi[i]
  <2> HIDE DEF a
  <2>5. ~(a > i) /\ a \in 1 .. n
    BY <2>3, <2>4 DEF a
  <2>6. a <= i
    BY <2>5
  <2> QED
    BY <2>6 DEF a
<1> SUFFICES ASSUME NEW i \in 1 .. n PROVE K[i] = L[i] /\ V[i] = W[i]
  OBVIOUS
<1>5. pi[i] = i
  <2> DEFINE a == pi[i]
  <2>1. a \in 1 .. n /\ a <= i /\ i <= a
    BY <1>1, <1>3, <1>4
  <2> HIDE DEF a
  <2>2. a = i
    BY <2>1
  <2> QED
    BY <2>2 DEF a
<1> QED
  BY <1>1, <1>5

-----------------------------------------------------------------------------
(* The items nested in an item.                                            *)
Inside(s, o) == Items(s)[itemHead(s, o).off][itemHead(s, o).nested]
Count(s, o)  == itemHead(s, o).nested

LEMMA InsideIs ==
    ASSUME NEW s \in Seq(Byte), NEW o \in Nat, Items(s)[o][1].ok
    PROVE  /\ itemHead(s, o).ok /\ Inside(s, o).ok
           /\ itemHead(s, o).off \in Nat /\ o < itemHead(s, o).off /\ itemHead(s, o).off <= Len(s)
           /\ Count(s, o) \in Nat
           /\ IsList(Inside(s, o).list, Count(s, o))
           /\ First(s, o).v = Value(itemHead(s, o), Inside(s, o).list)
           /\ itemHead(s, o).kind = "map" => Canonical(Inside(s, o).list)
           /\ First(s, o).raw = Span(s, o, Inside(s, o).off)
<1> DEFINE f == Items(s)
           h == itemHead(s, o)
<1>1. Parsed(f, s, o, 1)
  <2>1. PICK n \in Nat : n = 1
    OBVIOUS
  <2>2. n # 0 /\ Items(s)[o][n].ok
    BY <2>1
  <2>3. Parsed(Items(s), s, o, n)
    BY ONLY <2>2, ItemsAre, s \in Seq(Byte), o \in Nat, n \in Nat
  <2> QED
    BY <2>1, <2>3
<1>2. Nested(f, s, o) = Inside(s, o)
  BY DEF Nested, Inside
<1>3. h.ok /\ Inside(s, o).ok /\ (h.kind = "map" => Canonical(Inside(s, o).list))
  BY <1>1, <1>2 DEF Parsed
<1>4. h.off \in Nat /\ o < h.off /\ h.off <= Len(s) /\ h.nested \in Nat
  BY <1>3, HeadFits DEF Part
<1>5. First(s, o).v = Value(h, Inside(s, o).list) /\ First(s, o).raw = Span(s, o, Inside(s, o).off)
  BY <1>2 DEF First, Item
<1> HIDE DEF h
<1>6. IsList(Items(s)[h.off][h.nested].list, h.nested)
  <2>1. Items(s)[h.off][h.nested].ok
    BY <1>3 DEF Inside, h
  <2> QED
    BY <1>4, <2>1, ItemsList
<1> QED
  BY <1>3, <1>4, <1>5, <1>6 DEF Inside, Count, h

LEMMA ListLen ==
    ASSUME NEW l, NEW n \in Nat, IsList(l, n)
    PROVE  Len(l) = n /\ DOMAIN l = 1 .. n
<1>1. PICK S : l \in Seq(S) /\ Len(l) = n
  BY DEF IsList
<1> QED
  BY <1>1, LenProperties

LEMMA ScalarIs ==
    ASSUME NEW h, NEW l, h.kind \notin {"array", "map"}
    PROVE  Value(h, l).kind = h.kind /\ Value(h, l).val = h.val
<1> DEFINE k == h.kind
           x == h.val
<1>1. Value(h, l) = [kind |-> k, val |-> x]
  BY DEF Value
<1> HIDE DEF k, x
<1>2. Value(h, l).kind = k /\ Value(h, l).val = x
  BY <1>1
<1> QED
  BY <1>2 DEF k, x

LEMMA ArrayIs ==
    ASSUME NEW h, NEW l, NEW n \in Nat, IsList(l, n), h.kind = "array"
    PROVE  /\ Value(h, l).kind = "array" /\ DOMAIN Value(h, l).val = 1 .. n
           /\ \A i \in 1 .. n : Value(h, l).val[i] = l[i].v
<1> DEFINE x == [i \in DOMAIN l |-> l[i].v]
<1>1. Value(h, l) = [kind |-> "array", val |-> x]
  BY DEF Value
<1>2. DOMAIN l = 1 .. n
  BY ListLen
<1>3. DOMAIN x = 1 .. n /\ \A i \in 1 .. n : x[i] = l[i].v
  BY <1>2
<1> HIDE DEF x
<1>4. Value(h, l).kind = "array" /\ Value(h, l).val = x
  BY <1>1
<1> QED
  BY <1>3, <1>4

HasEntries(v, l, n) ==
    /\ v.kind = "map" /\ DOMAIN v.val = 1 .. n /\ Len(v.val) = n
    /\ \A i \in 1 .. n : v.val[i] = <<l[2 * i - 1].v, l[2 * i].v>>

LEMMA MapIs ==
    ASSUME NEW h, NEW l, NEW n \in Nat, NEW m, m = 2 * n, IsList(l, m), h.kind = "map"
    PROVE  HasEntries(Value(h, l), l, n)
<1> DEFINE k == Len(l) \div 2
           x == [i \in 1 .. k |-> <<l[2 * i - 1].v, l[2 * i].v>>]
<1>1. Value(h, l) = [kind |-> "map", val |-> x]
  BY DEF Value
<1>2. k = n
  <2>1. 2 * n \in Nat
    OBVIOUS
  <2>2. Len(l) = 2 * n
    BY <2>1, ListLen
  <2>3. (2 * n) \div 2 = n
    OBVIOUS
  <2> QED
    BY <2>2, <2>3
<1>3. DOMAIN x = 1 .. n /\ \A i \in 1 .. n : x[i] = <<l[2 * i - 1].v, l[2 * i].v>>
  <2> HIDE DEF k
  <2> QED
    BY <1>2
<1>5. Len(x) = n
  <2> DEFINE S == {x[i] : i \in 1 .. n}
  <2>1. x \in [1 .. n -> S]
    <3> HIDE DEF k
    <3> QED
      BY <1>2
  <2> HIDE DEF x, S
  <2>2. x \in Seq(S) /\ DOMAIN x = 1 .. n
    BY <2>1
  <2>3. DOMAIN x = 1 .. Len(x) /\ Len(x) \in Nat
    BY <2>2, LenProperties
  <2> QED
    BY <2>2, <2>3
<1> HIDE DEF x
<1>4. Value(h, l).kind = "map" /\ Value(h, l).val = x
  BY <1>1
<1> QED
  BY <1>3, <1>4, <1>5 DEF HasEntries

(* The keys of a map, in the order of their bytes.                         *)
Keys(l, n)   == [i \in 1 .. n |-> l[2 * i - 1].raw]
Fields(l, n) == [i \in 1 .. n |-> l[2 * i].raw]

LEMMA KeysAscend ==
    ASSUME NEW l, NEW n \in Nat, IsList(l, 2 * n), Canonical(l),
           \A i \in 1 .. n : l[2 * i - 1].raw \in Seq(Byte)
    PROVE  Ascending(Keys(l, n), n)
<1> DEFINE K == Keys(l, n)
<1>1. \A i \in 1 .. n : K[i] = l[2 * i - 1].raw
  BY DEF Keys
<1> HIDE DEF K
<1>2. \A i \in 1 .. n : K[i] \in Seq(Byte)
  BY <1>1
<1>3. ASSUME NEW i \in 2 .. n PROVE Before(K[i - 1], K[i])
  <2> DEFINE j == 2 * i - 1
  <2>1. DOMAIN l = 1 .. 2 * n
    <3>1. 2 * n \in Nat
      OBVIOUS
    <3> QED
      BY <3>1, ListLen
  <2>2. j \in 1 .. 2 * n /\ j % 2 = 1 /\ j > 2 /\ j - 2 = 2 * (i - 1) - 1
    <3>1. (2 * i - 1) % 2 = 1
      OBVIOUS
    <3> QED
      BY <3>1
  <2>3. Before(l[j - 2].raw, l[j].raw)
    <3> HIDE DEF j
    <3> QED
      BY <2>1, <2>2 DEF Canonical
  <2>4. i \in 1 .. n /\ i - 1 \in 1 .. n
    OBVIOUS
  <2>5. K[i] = l[j].raw
    BY <1>1, <2>4
  <2>6. K[i - 1] = l[j - 2].raw
    <3> HIDE DEF j
    <3> QED
      BY <1>1, <2>2, <2>4
  <2> QED
    BY <2>3, <2>5, <2>6
<1>4. Ascending(K, n)
  BY <1>2, <1>3, Ascends
<1> QED
  BY <1>4 DEF K

-----------------------------------------------------------------------------
(* A relation of values that looks into them: as arrays and maps are       *)
(* compared, a map by its entries in any order.                            *)
AlikePair(R, v, w) ==
    /\ v.kind = w.kind
    /\ v.kind \notin {"array", "map"} => v.val = w.val
    /\ v.kind = "array" =>
           /\ DOMAIN v.val = DOMAIN w.val
           /\ \A i \in DOMAIN v.val : <<v.val[i], w.val[i]>> \in R
    /\ v.kind = "map" =>
           /\ DOMAIN v.val = DOMAIN w.val
           /\ \A i \in DOMAIN v.val : \E j \in DOMAIN w.val :
                  <<v.val[i][1], w.val[j][1]>> \in R /\ <<v.val[i][2], w.val[j][2]>> \in R

Alike(R) == \A v, w : <<v, w>> \in R => AlikePair(R, v, w)

\* What is to be proved of an offset of s.
OneRaw(R, s, t, o) ==
    \A q \in Nat : Items(s)[o][1].ok /\ Items(t)[q][1].ok /\ <<First(s, o).v, First(t, q).v>> \in R
                   => First(s, o).raw = First(t, q).raw

(* The items nested in two items, with the same bytes each.                *)
LEMMA SameInside ==
    ASSUME NEW s \in Seq(Byte), NEW t \in Seq(Byte), NEW o \in Nat, NEW q \in Nat,
           Items(s)[o][1].ok, Items(t)[q][1].ok,
           itemHead(s, o).kind = itemHead(t, q).kind,
           itemHead(s, o).val = itemHead(t, q).val,
           Count(s, o) = Count(t, q),
           \A i \in 1 .. Count(s, o) : Inside(s, o).list[i].raw = Inside(t, q).list[i].raw
    PROVE  First(s, o).raw = First(t, q).raw
<1> DEFINE h == itemHead(s, o).off
           g == itemHead(t, q).off
           n == Count(s, o)
           x == Inside(s, o).off
           y == Inside(t, q).off
<1>1. /\ itemHead(s, o).ok /\ Inside(s, o).ok /\ h \in Nat /\ o < h /\ h <= Len(s) /\ n \in Nat
      /\ First(s, o).raw = Span(s, o, x)
  BY InsideIs
<1>2. /\ itemHead(t, q).ok /\ Inside(t, q).ok /\ g \in Nat /\ q < g /\ g <= Len(t)
      /\ First(t, q).raw = Span(t, q, y)
  BY InsideIs
<1>3. Inside(s, o) = Items(s)[h][n] /\ Inside(t, q) = Items(t)[g][n]
  BY DEF Inside, Count
<1>4. Span(s, o, h) = Span(t, q, g)
  BY <1>1, <1>2, SameHead DEF Count
<1> HIDE DEF h, g, n
<1>5. Items(s)[h][n].ok /\ Items(t)[g][n].ok
      /\ \A i \in 1 .. n : Items(s)[h][n].list[i].raw = Items(t)[g][n].list[i].raw
  BY <1>1, <1>2, <1>3 DEF n
<1>6. Span(s, h, x) = Span(t, g, y)
  <2>1. Span(s, h, Items(s)[h][n].off) = Span(t, g, Items(t)[g][n].off)
    <3>1. \A c \in Nat : \A a \in Nat : \A b \in Nat :
            (/\ Items(s)[a][c].ok /\ Items(t)[b][c].ok /\ a <= Len(s) /\ b <= Len(t)
             /\ \A i \in 1 .. c : Items(s)[a][c].list[i].raw = Items(t)[b][c].list[i].raw)
            => Span(s, a, Items(s)[a][c].off) = Span(t, b, Items(t)[b][c].off)
      BY SameItems
    <3>2. h \in Nat /\ g \in Nat /\ n \in Nat /\ h <= Len(s) /\ g <= Len(t)
      BY <1>1, <1>2
    <3> QED
      BY ONLY <3>1, <3>2, <1>5
  <2> QED
    BY <1>3, <2>1
<1>7. x \in Nat /\ h <= x /\ x <= Len(s)
  <2>1. Items(s)[h][n].off \in Nat /\ h <= Items(s)[h][n].off /\ Items(s)[h][n].off <= Len(s)
    BY <1>1, <1>5, ItemsEnd
  <2> QED
    BY <1>3, <2>1
<1>8. y \in Nat /\ g <= y /\ y <= Len(t)
  <2>1. Items(t)[g][n].off \in Nat /\ g <= Items(t)[g][n].off /\ Items(t)[g][n].off <= Len(t)
    BY <1>1, <1>2, <1>5, ItemsEnd
  <2> QED
    BY <1>3, <2>1
<1> HIDE DEF x, y
<1>9. Part(s, o, h) /\ Part(s, h, x) /\ Part(t, q, g) /\ Part(t, g, y)
  BY <1>1, <1>2, <1>7, <1>8 DEF Part
<1>10. Span(s, o, x) = Span(t, q, y)
  BY <1>4, <1>6, <1>9, CutSpan
<1> QED
  BY <1>1, <1>2, <1>10

(* The items nested in an item are first items further on.                 *)
LEMMA InsideAt ==
    ASSUME NEW s \in Seq(Byte), NEW o \in Nat, Items(s)[o][1].ok, NEW i \in 1 .. Count(s, o)
    PROVE  \E x \in Nat : o < x /\ Items(s)[x][1].ok /\ Inside(s, o).list[i] = First(s, x)
<1> DEFINE h == itemHead(s, o).off
           n == Count(s, o)
<1>1. Inside(s, o).ok /\ h \in Nat /\ o < h /\ n \in Nat
  BY InsideIs
<1>2. Inside(s, o) = Items(s)[h][n]
  BY DEF Inside, Count
<1>3. i \in 1 .. n
  OBVIOUS
<1> HIDE DEF h, n
<1>4. PICK x \in Nat : h <= x /\ Items(s)[x][1].ok /\ Items(s)[h][n].list[i] = First(s, x)
  BY <1>1, <1>2, <1>3, ItemAt
<1>5. o < x
  BY <1>1, <1>4
<1> QED
  BY <1>2, <1>4, <1>5

(* Nested items whose values are in R have the same bytes.                 *)
LEMMA SameNested ==
    ASSUME NEW s \in Seq(Byte), NEW t \in Seq(Byte), NEW R, NEW o \in Nat, NEW q \in Nat,
           \A p \in Nat : p > o => OneRaw(R, s, t, p),
           Items(s)[o][1].ok, Items(t)[q][1].ok,
           NEW i \in 1 .. Count(s, o), NEW j \in 1 .. Count(t, q),
           <<Inside(s, o).list[i].v, Inside(t, q).list[j].v>> \in R
    PROVE  Inside(s, o).list[i].raw = Inside(t, q).list[j].raw
<1>1. PICK x \in Nat : o < x /\ Items(s)[x][1].ok /\ Inside(s, o).list[i] = First(s, x)
  BY InsideAt
<1>2. PICK y \in Nat : q < y /\ Items(t)[y][1].ok /\ Inside(t, q).list[j] = First(t, y)
  BY InsideAt
<1>3. OneRaw(R, s, t, x)
  BY <1>1
<1>4. <<First(s, x).v, First(t, y).v>> \in R
  BY <1>1, <1>2
<1>5. First(s, x).raw = First(t, y).raw
  BY <1>1, <1>2, <1>3, <1>4 DEF OneRaw
<1> QED
  BY <1>1, <1>2, <1>5

(* The bytes of an item are bytes.                                         *)
LEMMA RawBytes ==
    ASSUME NEW s \in Seq(Byte), NEW o \in Nat, Items(s)[o][1].ok
    PROVE  First(s, o).raw \in Seq(Byte)
<1> DEFINE h == itemHead(s, o).off
           n == Count(s, o)
           x == Inside(s, o).off
<1>1. /\ Inside(s, o).ok /\ h \in Nat /\ o < h /\ h <= Len(s) /\ n \in Nat
      /\ First(s, o).raw = Span(s, o, x)
  BY InsideIs
<1>2. Inside(s, o) = Items(s)[h][n]
  BY DEF Inside, Count
<1>3. x \in Nat /\ h <= x /\ x <= Len(s)
  <2> HIDE DEF h, n
  <2>1. Items(s)[h][n].off \in Nat /\ h <= Items(s)[h][n].off /\ Items(s)[h][n].off <= Len(s)
    BY <1>1, <1>2, ItemsEnd
  <2> QED
    BY <1>2, <2>1
<1> HIDE DEF h, n, x
<1>4. Part(s, o, x)
  BY <1>1, <1>3 DEF Part
<1> QED
  BY <1>1, <1>4, SpanIs

LEMMA InsideBytes ==
    ASSUME NEW s \in Seq(Byte), NEW o \in Nat, Items(s)[o][1].ok, NEW i \in 1 .. Count(s, o)
    PROVE  Inside(s, o).list[i].raw \in Seq(Byte)
<1>1. PICK x \in Nat : o < x /\ Items(s)[x][1].ok /\ Inside(s, o).list[i] = First(s, x)
  BY InsideAt
<1>2. First(s, x).raw \in Seq(Byte)
  BY <1>1, RawBytes
<1> QED
  BY <1>1, <1>2

LEMMA OneRawStep ==
    ASSUME NEW s \in Seq(Byte), NEW t \in Seq(Byte), NEW R, Alike(R), NEW o \in Nat,
           \A p \in Nat : p > o => OneRaw(R, s, t, p)
    PROVE  OneRaw(R, s, t, o)
<1> SUFFICES ASSUME NEW q \in Nat, Items(s)[o][1].ok, Items(t)[q][1].ok, <<First(s, o).v, First(t, q).v>> \in R
             PROVE  First(s, o).raw = First(t, q).raw
  BY DEF OneRaw
<1> DEFINE v == First(s, o).v
           w == First(t, q).v
           h == itemHead(s, o)
           g == itemHead(t, q)
           k == Inside(s, o).list
           l == Inside(t, q).list
           m == Count(s, o)
           n == Count(t, q)
<1>1. AlikePair(R, v, w)
  BY DEF Alike
<1>2. h.ok /\ m \in Nat /\ IsList(k, m) /\ v = Value(h, k) /\ (h.kind = "map" => Canonical(k))
  BY InsideIs
<1>3. g.ok /\ n \in Nat /\ IsList(l, n) /\ w = Value(g, l) /\ (g.kind = "map" => Canonical(l))
  BY InsideIs
<1>4. /\ h.kind \notin {"array", "map"} => m = 0
      /\ h.kind \in {"array", "map"} => h.val = <<>>
      /\ h.kind = "map" => \E c \in Nat : m = 2 * c
  BY <1>2, HeadFits DEF Count
<1>5. /\ g.kind \notin {"array", "map"} => n = 0
      /\ g.kind \in {"array", "map"} => g.val = <<>>
      /\ g.kind = "map" => \E c \in Nat : n = 2 * c
  BY <1>3, HeadFits DEF Count
<1>6. ASSUME NEW i \in 1 .. m, NEW j \in 1 .. n, <<k[i].v, l[j].v>> \in R PROVE k[i].raw = l[j].raw
  BY SMTT(60), <1>6, SameNested
<1>7. ASSUME h.kind = g.kind, h.val = g.val, m = n, \A i \in 1 .. m : k[i].raw = l[i].raw
      PROVE  First(s, o).raw = First(t, q).raw
  BY <1>7, SameInside
<1>8. \A i \in 1 .. m : k[i].raw \in Seq(Byte)
  BY InsideBytes
<1>9. \A i \in 1 .. n : l[i].raw \in Seq(Byte)
  BY InsideBytes
<1> HIDE DEF v, w, h, g, k, l, m, n
<1>10. CASE h.kind \notin {"array", "map"}
  <2>1. v.kind = h.kind /\ v.val = h.val
    BY <1>2, <1>10, ScalarIs
  <2>2. g.kind \notin {"array", "map"}
    <3> SUFFICES ASSUME g.kind \in {"array", "map"} PROVE FALSE
      OBVIOUS
    <3>1. CASE g.kind = "array"
      <4>1. w.kind = "array"
        BY <1>3, <3>1, ArrayIs
      <4> QED
        BY <1>1, <1>10, <2>1, <4>1 DEF AlikePair
    <3>2. CASE g.kind = "map"
      <4>1. PICK c \in Nat : n = 2 * c
        BY <1>5, <3>2
      <4>2. w.kind = "map"
        BY <1>3, <3>2, <4>1, MapIs DEF HasEntries
      <4> QED
        BY <1>1, <1>10, <2>1, <4>2 DEF AlikePair
    <3> QED
      BY <3>1, <3>2
  <2>3. w.kind = g.kind /\ w.val = g.val
    BY <1>3, <2>2, ScalarIs
  <2>4. h.kind = g.kind /\ h.val = g.val
    BY <1>1, <1>10, <2>1, <2>3 DEF AlikePair
  <2>5. m = 0 /\ n = 0
    BY <1>4, <1>5, <1>10, <2>2
  <2> QED
    BY <1>7, <2>4, <2>5
<1>11. ASSUME v.kind \in {"array", "map"} PROVE g.kind = v.kind
  <2>1. w.kind = v.kind
    BY <1>1 DEF AlikePair
  <2>2. CASE g.kind \notin {"array", "map"}
    <3>1. w.kind = g.kind
      BY <1>3, <2>2, ScalarIs
    <3> QED
      BY <2>1, <3>1
  <2>3. CASE g.kind = "array"
    <3>1. w.kind = "array"
      BY <1>3, <2>3, ArrayIs
    <3> QED
      BY <2>1, <2>3, <3>1
  <2>4. CASE g.kind = "map"
    <3>1. PICK c \in Nat : n = 2 * c
      BY <1>5, <2>4
    <3>2. w.kind = "map"
      BY <1>3, <2>4, <3>1, MapIs DEF HasEntries
    <3> QED
      BY <2>1, <2>4, <3>2
  <2> QED
    BY <2>2, <2>3, <2>4
<1>12. CASE h.kind = "array"
  <2>1. v.kind = "array" /\ DOMAIN v.val = 1 .. m /\ \A i \in 1 .. m : v.val[i] = k[i].v
    BY <1>2, <1>12, ArrayIs
  <2>2. g.kind = "array"
    BY <1>11, <2>1
  <2>3. w.kind = "array" /\ DOMAIN w.val = 1 .. n /\ \A i \in 1 .. n : w.val[i] = l[i].v
    BY <1>3, <2>2, ArrayIs
  <2>4. 1 .. m = 1 .. n /\ \A i \in 1 .. m : <<k[i].v, l[i].v>> \in R
    BY <1>1, <2>1, <2>3 DEF AlikePair
  <2>5. m = n
    BY <1>2, <1>3, <2>4
  <2>6. \A i \in 1 .. m : k[i].raw = l[i].raw
    BY <1>6, <2>4
  <2>7. h.kind = g.kind /\ h.val = g.val
    BY <1>4, <1>5, <1>12, <2>2
  <2> QED
    BY <1>7, <2>5, <2>6, <2>7
<1>13. CASE h.kind = "map"
  <2>1. PICK c \in Nat : m = 2 * c
    BY <1>4, <1>13
  <2>2. v.kind = "map" /\ DOMAIN v.val = 1 .. c /\ \A i \in 1 .. c : v.val[i] = <<k[2 * i - 1].v, k[2 * i].v>>
    <3>1. HasEntries(Value(h, k), k, c)
      BY <1>2, <1>13, <2>1, MapIs
    <3> QED
      BY <1>2, <3>1 DEF HasEntries
  <2>3. g.kind = "map"
    BY <1>11, <2>2
  <2>4. PICK d \in Nat : n = 2 * d
    BY <1>5, <2>3
  <2>5. w.kind = "map" /\ DOMAIN w.val = 1 .. d /\ \A i \in 1 .. d : w.val[i] = <<l[2 * i - 1].v, l[2 * i].v>>
    <3>1. HasEntries(Value(g, l), l, d)
      BY <1>3, <2>3, <2>4, MapIs
    <3> QED
      BY <1>3, <3>1 DEF HasEntries
  <2>6. 1 .. c = 1 .. d
    BY <1>1, <2>2, <2>5 DEF AlikePair
  <2>7. c = d /\ m = n
    <3>1. c = d
      BY <2>6
    <3> QED
      BY <2>1, <2>4, <3>1
  <2>8. \A i \in 1 .. c : 2 * i - 1 \in 1 .. m /\ 2 * i \in 1 .. m
    BY <2>1
  <2> DEFINE K == Keys(k, c)
             L == Keys(l, c)
             V == Fields(k, c)
             W == Fields(l, c)
  <2>9. \A i \in 1 .. c : K[i] = k[2 * i - 1].raw /\ L[i] = l[2 * i - 1].raw
                          /\ V[i] = k[2 * i].raw /\ W[i] = l[2 * i].raw
    BY DEF Keys, Fields
  <2>10. Ascending(K, c)
    <3>1. \A i \in 1 .. c : k[2 * i - 1].raw \in Seq(Byte)
      BY <1>8, <2>8
    <3>2. IsList(k, 2 * c) /\ Canonical(k)
      BY <1>2, <1>13, <2>1
    <3> QED
      BY <3>1, <3>2, KeysAscend
  <2>11. Ascending(L, c)
    <3>1. \A i \in 1 .. c : l[2 * i - 1].raw \in Seq(Byte)
      BY <1>9, <2>7, <2>8
    <3>2. IsList(l, 2 * c) /\ Canonical(l)
      BY <1>3, <2>3, <2>4, <2>7
    <3> QED
      BY <3>1, <3>2, KeysAscend
  <2> HIDE DEF K, L, V, W
  <2>12. AllBytes(K, c) /\ AllBytes(L, c)
    BY <1>8, <1>9, <2>7, <2>8, <2>9 DEF AllBytes
  <2>13. ASSUME NEW i \in 1 .. c PROVE \E j \in 1 .. c : K[i] = L[j] /\ V[i] = W[j]
    <3>1. PICK j \in 1 .. c : <<v.val[i][1], w.val[j][1]>> \in R /\ <<v.val[i][2], w.val[j][2]>> \in R
      BY <1>1, <2>2, <2>5, <2>7 DEF AlikePair
    <3>2. v.val[i][1] = k[2 * i - 1].v /\ v.val[i][2] = k[2 * i].v
      BY <2>2
    <3>3. w.val[j][1] = l[2 * j - 1].v /\ w.val[j][2] = l[2 * j].v
      BY <2>5, <2>7
    <3>4. 2 * i - 1 \in 1 .. m /\ 2 * i \in 1 .. m /\ 2 * j - 1 \in 1 .. n /\ 2 * j \in 1 .. n
      BY <2>7, <2>8
    <3> DEFINE a == 2 * i - 1
               b == 2 * i
               e == 2 * j - 1
               f == 2 * j
    <3>5. a \in 1 .. m /\ b \in 1 .. m /\ e \in 1 .. n /\ f \in 1 .. n
          /\ <<k[a].v, l[e].v>> \in R /\ <<k[b].v, l[f].v>> \in R
      BY <3>1, <3>2, <3>3, <3>4
    <3>6. K[i] = k[a].raw /\ L[j] = l[e].raw /\ V[i] = k[b].raw /\ W[j] = l[f].raw
      BY <2>9
    <3> HIDE DEF a, b, e, f
    <3>7. k[a].raw = l[e].raw /\ k[b].raw = l[f].raw
      BY <1>6, <3>5
    <3> QED
      BY <3>6, <3>7
  <2>14. \A i \in 1 .. c : K[i] = L[i] /\ V[i] = W[i]
    <3>1. Among(K, V, L, W, c)
      BY <2>13 DEF Among
    <3> QED
      BY ONLY <2>10, <2>11, <2>12, <3>1, OneOrder, c \in Nat
  <2>15. ASSUME NEW i \in 1 .. m PROVE k[i].raw = l[i].raw
    <3>1. PICK j \in 1 .. c : i = 2 * j \/ i = 2 * j - 1
      <4> DEFINE j == (i + 1) \div 2
      <4>1. i + 1 \in Nat /\ i \in Nat /\ i >= 1 /\ i <= 2 * c
        BY <2>1
      <4>2. j \in Nat /\ 2 * j <= i + 1 /\ i + 1 <= 2 * j + 1
        BY <4>1
      <4> HIDE DEF j
      <4>3. j \in 1 .. c /\ (i = 2 * j \/ i = 2 * j - 1)
        BY <4>1, <4>2
      <4> QED
        BY <4>3
    <3> QED
      BY ZenonT(60), <2>9, <2>14, <3>1
  <2>16. h.kind = g.kind /\ h.val = g.val
    BY <1>4, <1>5, <1>13, <2>3
  <2> QED
    BY <1>7, <2>7, <2>15, <2>16
<1> QED
  BY <1>10, <1>12, <1>13

LEMMA AlikeRaw ==
    ASSUME NEW s \in Seq(Byte), NEW t \in Seq(Byte), NEW R, Alike(R)
    PROVE  \A o \in Nat : OneRaw(R, s, t, o)
<1> DEFINE S == {o \in Nat : OneRaw(R, s, t, o)}
<1>1. Len(s) \in Nat
  BY LenProperties
<1>2. ASSUME NEW o \in Nat, o >= Len(s) PROVE o \in S
  <2>1. ~Items(s)[o][1].ok
    <3> SUFFICES ASSUME Items(s)[o][1].ok PROVE FALSE
      OBVIOUS
    <3>1. o < itemHead(s, o).off /\ itemHead(s, o).off \in Nat /\ itemHead(s, o).off <= Len(s)
      BY InsideIs
    <3> QED
      BY <1>1, <1>2, <3>1
  <2> QED
    BY <2>1 DEF OneRaw
<1>3. ASSUME NEW o \in Nat, \A p \in Nat : p > o => p \in S PROVE o \in S
  <2>1. \A p \in Nat : p > o => OneRaw(R, s, t, p)
    BY <1>3
  <2> QED
    BY <2>1, OneRawStep
<1> HIDE DEF S
<1>4. Nat \subseteq S
  BY <1>1, <1>2, <1>3, FromTheEnd
<1> QED
  BY <1>4 DEF S

LEMMA DecodedIs ==
    ASSUME NEW s \in Seq(Byte), decodeCBOR(s).ok
    PROVE  Items(s)[0][1].ok /\ decodeCBOR(s).v = First(s, 0).v /\ First(s, 0).raw = s
<1> DEFINE r == Items(s)[0][1]
           x == r.list[1].v
<1>1. parse(s, 0, 1) = r
  BY ParseIs
<1>2. decodeCBOR(s) = IF r.ok /\ r.off = Len(s) THEN [ok |-> TRUE, v |-> x] ELSE Fail
  BY <1>1 DEF decodeCBOR
<1> HIDE DEF r, x
<1>3. r.ok /\ r.off = Len(s)
  <2> SUFFICES ASSUME ~(r.ok /\ r.off = Len(s)) PROVE FALSE
    OBVIOUS
  <2>1. decodeCBOR(s) = Fail
    BY <1>2
  <2>2. ~Fail.ok
    BY DEF Fail
  <2> QED
    BY <2>1, <2>2
<1>4. decodeCBOR(s).v = x
  <2>1. decodeCBOR(s) = [ok |-> TRUE, v |-> x]
    BY <1>2, <1>3
  <2> QED
    BY <2>1
<1>5. PICK n \in Nat : n = 1
  OBVIOUS
<1>6. Items(s)[0][n].ok /\ n # 0 /\ 0 \in Nat
  BY <1>3, <1>5 DEF r
<1>7. Items(s)[0][n].list[1] = First(s, 0)
  BY <1>6, ListOf
<1>8. First(s, 0).raw = Span(s, 0, Tail1(s, 0))
  BY <1>6, RawIs
<1>9. Tail1(s, 0) = Len(s)
  BY <1>3 DEF Tail1, r
<1>10. Span(s, 0, Len(s)) = s
  <2>1. SubSeq(s, 1, Len(s)) = s
    BY SubSeqFull
  <2> QED
    BY <2>1 DEF Span
<1> QED
  BY <1>3, <1>4, <1>5, <1>7, <1>8, <1>9, <1>10 DEF r, x

(* Two bodies that are accepted and whose values are alike, with the       *)
(* entries of a map in any order, are the same bytes (cbor.go): what is    *)
(* hashed of an envelope follows from what the envelope says.              *)
THEOREM OneBody ==
    ASSUME NEW s \in Seq(Byte), NEW t \in Seq(Byte), NEW R, Alike(R),
           decodeCBOR(s).ok, decodeCBOR(t).ok,
           <<decodeCBOR(s).v, decodeCBOR(t).v>> \in R
    PROVE  s = t
<1>1. Items(s)[0][1].ok /\ decodeCBOR(s).v = First(s, 0).v /\ First(s, 0).raw = s
  BY DecodedIs
<1>2. Items(t)[0][1].ok /\ decodeCBOR(t).v = First(t, 0).v /\ First(t, 0).raw = t
  BY DecodedIs
<1>3. OneRaw(R, s, t, 0)
  BY AlikeRaw
<1>4. First(s, 0).raw = First(t, 0).raw
  BY <1>1, <1>2, <1>3 DEF OneRaw
<1> QED
  BY <1>1, <1>2, <1>4

(* The values of s, each with itself.                                      *)
Starts(s)     == {x \in Nat : Items(s)[x][1].ok}
Itself(s)     == {<<First(s, x).v, First(s, x).v>> : x \in Starts(s)}

LEMMA ItselfAlike ==
    ASSUME NEW s \in Seq(Byte)
    PROVE  Alike(Itself(s))
<1> SUFFICES ASSUME NEW a, NEW b, <<a, b>> \in Itself(s) PROVE AlikePair(Itself(s), a, b)
  BY DEF Alike
<1>1. PICK o \in Starts(s) : <<a, b>> = <<First(s, o).v, First(s, o).v>>
  BY DEF Itself
<1>2. a = First(s, o).v /\ b = a /\ o \in Nat /\ Items(s)[o][1].ok
  BY <1>1 DEF Starts
<1> DEFINE h == itemHead(s, o)
           l == Inside(s, o).list
           n == Count(s, o)
           R == Itself(s)
<1>3. h.ok /\ n \in Nat /\ IsList(l, n) /\ a = Value(h, l)
  BY <1>2, InsideIs
<1>4. h.kind = "map" => \E c \in Nat : n = 2 * c
  BY <1>2, <1>3, HeadFits DEF Count
<1>5. ASSUME NEW i \in 1 .. n PROVE <<l[i].v, l[i].v>> \in R
  <2>1. PICK x \in Nat : o < x /\ Items(s)[x][1].ok /\ l[i] = First(s, x)
    BY <1>2, InsideAt
  <2>2. x \in Starts(s)
    BY <2>1 DEF Starts
  <2> HIDE DEF l
  <2>3. <<First(s, x).v, First(s, x).v>> \in R
    BY <2>2 DEF Itself
  <2> QED
    BY <2>1, <2>3
<1> HIDE DEF h, l, n, R
<1>6. AlikePair(R, a, a)
  <2>1. CASE h.kind \notin {"array", "map"}
    <3>1. a.kind = h.kind
      BY <1>3, <2>1, ScalarIs
    <3> QED
      BY <2>1, <3>1 DEF AlikePair
  <2>2. CASE h.kind = "array"
    <3>1. a.kind = "array" /\ DOMAIN a.val = 1 .. n /\ \A i \in 1 .. n : a.val[i] = l[i].v
      BY <1>3, <2>2, ArrayIs
    <3>2. \A i \in 1 .. n : <<a.val[i], a.val[i]>> \in R
      BY <1>5, <3>1
    <3> QED
      BY <3>1, <3>2 DEF AlikePair
  <2>3. CASE h.kind = "map"
    <3>1. PICK c \in Nat : n = 2 * c
      BY <1>4, <2>3
    <3>2. HasEntries(Value(h, l), l, c)
      BY <1>3, <2>3, <3>1, MapIs
    <3>3. a.kind = "map" /\ DOMAIN a.val = 1 .. c
          /\ \A i \in 1 .. c : a.val[i] = <<l[2 * i - 1].v, l[2 * i].v>>
      BY <1>3, <3>2 DEF HasEntries
    <3>4. ASSUME NEW i \in 1 .. c
          PROVE  <<a.val[i][1], a.val[i][1]>> \in R /\ <<a.val[i][2], a.val[i][2]>> \in R
      <4>1. 2 * i - 1 \in 1 .. n /\ 2 * i \in 1 .. n
        BY <3>1
      <4>2. a.val[i][1] = l[2 * i - 1].v /\ a.val[i][2] = l[2 * i].v
        BY <3>3
      <4> QED
        BY <1>5, <4>1, <4>2
    <3> QED
      BY <3>3, <3>4 DEF AlikePair
  <2> QED
    BY <2>1, <2>2, <2>3
<1> QED
  BY <1>2, <1>6 DEF R

(* An accepted body is the only one with its value.                        *)
THEOREM EqualValues ==
    ASSUME NEW s \in Seq(Byte), NEW t \in Seq(Byte), decodeCBOR(s).ok, decodeCBOR(t).ok,
           decodeCBOR(s).v = decodeCBOR(t).v
    PROVE  s = t
<1> DEFINE R == Itself(s)
<1>1. Alike(R)
  BY ItselfAlike
<1>2. <<decodeCBOR(s).v, decodeCBOR(t).v>> \in R
  <2>1. Items(s)[0][1].ok /\ decodeCBOR(s).v = First(s, 0).v
    BY DecodedIs
  <2>2. 0 \in Starts(s)
    BY <2>1 DEF Starts
  <2>3. <<First(s, 0).v, First(s, 0).v>> \in R
    BY <2>2 DEF Itself
  <2> QED
    BY <2>1, <2>3
<1> HIDE DEF R
<1> QED
  BY <1>1, <1>2, OneBody

-----------------------------------------------------------------------------
(* Keys with the same value are the same bytes.                            *)
LEMMA SameValueSameRaw ==
    ASSUME NEW s \in Seq(Byte), NEW x \in Nat, NEW y \in Nat, Items(s)[x][1].ok, Items(s)[y][1].ok,
           First(s, x).v = First(s, y).v
    PROVE  First(s, x).raw = First(s, y).raw
<1> DEFINE R == Itself(s)
<1>1. Alike(R)
  BY ItselfAlike
<1>2. <<First(s, x).v, First(s, y).v>> \in R
  <2>1. x \in Starts(s)
    BY DEF Starts
  <2>2. <<First(s, x).v, First(s, x).v>> \in R
    BY <2>1 DEF Itself
  <2> QED
    BY <2>2
<1> HIDE DEF R
<1>3. OneRaw(R, s, s, x)
  BY <1>1, AlikeRaw
<1> QED
  BY <1>2, <1>3 DEF OneRaw

LEMMA DistinctEntries ==
    ASSUME NEW s \in Seq(Byte), NEW o \in Nat, Items(s)[o][1].ok, First(s, o).v.kind = "map"
    PROVE  \E n \in Nat :
               /\ DOMAIN First(s, o).v.val = 1 .. n /\ Len(First(s, o).v.val) = n
               /\ \A i \in 1 .. n : \A j \in 1 .. n :
                      First(s, o).v.val[i][1] = First(s, o).v.val[j][1] => i = j
<1> DEFINE v == First(s, o).v
           h == itemHead(s, o)
           l == Inside(s, o).list
           m == Count(s, o)
<1>1. h.ok /\ m \in Nat /\ IsList(l, m) /\ v = Value(h, l) /\ (h.kind = "map" => Canonical(l))
  BY InsideIs
<1>2. h.kind = "map" => \E c \in Nat : m = 2 * c
  BY <1>1, HeadFits DEF Count
<1>3. \A i \in 1 .. m : l[i].raw \in Seq(Byte)
  BY InsideBytes
<1>4. ASSUME NEW i \in 1 .. m, NEW j \in 1 .. m, l[i].v = l[j].v PROVE l[i].raw = l[j].raw
  <2>1. PICK x \in Nat : o < x /\ Items(s)[x][1].ok /\ l[i] = First(s, x)
    BY InsideAt
  <2>2. PICK y \in Nat : o < y /\ Items(s)[y][1].ok /\ l[j] = First(s, y)
    BY InsideAt
  <2> HIDE DEF l
  <2>3. First(s, x).raw = First(s, y).raw
    BY <1>4, <2>1, <2>2, SameValueSameRaw
  <2> QED
    BY <2>1, <2>2, <2>3
<1>5. v.kind = "map"
  OBVIOUS
<1> HIDE DEF v, h, l, m
<1>6. h.kind = "map"
  <2>1. CASE h.kind \notin {"array", "map"}
    BY <1>1, <1>5, <2>1, ScalarIs
  <2>2. CASE h.kind = "array"
    <3>1. v.kind = "array"
      BY <1>1, <2>2, ArrayIs
    <3> QED
      BY <1>5, <3>1
  <2> QED
    BY <2>1, <2>2
<1>7. PICK n \in Nat : m = 2 * n
  BY <1>2, <1>6
<1>8. HasEntries(Value(h, l), l, n)
  BY <1>1, <1>6, <1>7, MapIs
<1>9. DOMAIN v.val = 1 .. n /\ Len(v.val) = n /\ \A i \in 1 .. n : v.val[i][1] = l[2 * i - 1].v
  BY <1>1, <1>8 DEF HasEntries
<1>10. \A i \in 1 .. n : 2 * i - 1 \in 1 .. m
  BY <1>7
<1> DEFINE K == Keys(l, n)
<1>11. \A i \in 1 .. n : K[i] = l[2 * i - 1].raw
  BY DEF Keys
<1>12. Ascending(K, n)
  <2>1. \A i \in 1 .. n : l[2 * i - 1].raw \in Seq(Byte)
    BY <1>3, <1>10
  <2>2. IsList(l, 2 * n) /\ Canonical(l)
    BY <1>1, <1>6, <1>7
  <2> QED
    BY <2>1, <2>2, KeysAscend
<1> HIDE DEF K
<1>13. \A i \in 1 .. n : K[i] \in Seq(Byte)
  BY <1>3, <1>10, <1>11
<1>14. ASSUME NEW i \in 1 .. n, NEW j \in 1 .. n, i < j PROVE v.val[i][1] # v.val[j][1]
  <2> SUFFICES ASSUME v.val[i][1] = v.val[j][1] PROVE FALSE
    OBVIOUS
  <2> DEFINE a == 2 * i - 1
             b == 2 * j - 1
  <2>1. a \in 1 .. m /\ b \in 1 .. m /\ l[a].v = l[b].v /\ K[i] = l[a].raw /\ K[j] = l[b].raw
    BY <1>9, <1>10, <1>11
  <2> HIDE DEF a, b
  <2>2. K[i] = K[j]
    BY <1>4, <2>1
  <2> DEFINE x == K[i]
  <2>3. Before(K[i], K[j])
    BY <1>12, <1>14 DEF Ascending
  <2>4. Before(x, x) /\ x \in Seq(Byte)
    BY <1>13, <2>2, <2>3
  <2> HIDE DEF x
  <2> QED
    BY ONLY <2>4, BeforeIrreflexive
<1>15. ASSUME NEW i \in 1 .. n, NEW j \in 1 .. n, v.val[i][1] = v.val[j][1] PROVE i = j
  <2>1. ~(i < j)
    BY <1>14, <1>15
  <2>2. ~(j < i)
    BY <1>14, <1>15
  <2> QED
    BY <2>1, <2>2
<1> QED
  BY <1>9, <1>15 DEF v

LEMMA TextIs ==
    ASSUME NEW s \in Seq(Byte), NEW o \in Nat, Items(s)[o][1].ok, First(s, o).v.kind = "text"
    PROVE  First(s, o).v = [kind |-> "text", val |-> First(s, o).v.val]
<1> DEFINE v == First(s, o).v
           h == itemHead(s, o)
           l == Inside(s, o).list
           m == Count(s, o)
<1>1. h.ok /\ m \in Nat /\ IsList(l, m) /\ v = Value(h, l)
  BY InsideIs
<1>2. h.kind = "map" => \E c \in Nat : m = 2 * c
  BY <1>1, HeadFits DEF Count
<1>3. v.kind = "text"
  OBVIOUS
<1> HIDE DEF v, h, l, m
<1>4. h.kind \notin {"array", "map"}
  <2>1. CASE h.kind = "array"
    <3>1. v.kind = "array"
      BY <1>1, <2>1, ArrayIs
    <3> QED
      BY <1>3, <3>1
  <2>2. CASE h.kind = "map"
    <3>1. PICK c \in Nat : m = 2 * c
      BY <1>2, <2>2
    <3>2. HasEntries(Value(h, l), l, c)
      BY <1>1, <2>2, <3>1, MapIs
    <3> QED
      BY <1>1, <1>3, <3>2 DEF HasEntries
  <2> QED
    BY <2>1, <2>2
<1>5. h.kind = "text" /\ v.val = h.val
  BY <1>1, <1>3, <1>4, ScalarIs
<1>6. v = [kind |-> "text", val |-> h.val]
  BY <1>1, <1>5 DEF Value
<1> QED
  BY <1>5, <1>6 DEF v

Image(f, n)  == {f[i] : i \in 1 .. n}
Injects(f, n) == \A i \in 1 .. n : \A j \in 1 .. n : f[i] = f[j] => i = j

LEMMA CountKeys ==
    ASSUME NEW n \in Nat, NEW f, Injects(f, n)
    PROVE  Cardinality(Image(f, n)) = n
<1> USE DEF Injects, Image
<1> DEFINE T == Image(f, n)
           g == [i \in 1 .. n |-> f[i]]
<1>1. g \in [1 .. n -> T]
  OBVIOUS
<1>2. \A i, j \in 1 .. n : g[i] = g[j] => i = j
  OBVIOUS
<1>3. \A t \in T : \E i \in 1 .. n : g[i] = t
  OBVIOUS
<1> HIDE DEF T, g
<1>4. ExistsBijection(1 .. n, T)
  BY <1>1, <1>2, <1>3 DEF ExistsBijection, Bijection, Injection, Surjection, IsInjective
<1>5. Cardinality(T) = n
  BY <1>4, FS_CountingElements
<1> QED
  BY <1>5 DEF T

LEMMA KeysCounted ==
    ASSUME NEW s \in Seq(Byte), NEW o \in Nat, Items(s)[o][1].ok, textMap(First(s, o).v).ok
    PROVE  /\ Cardinality(textMap(First(s, o).v).keys) = Len(First(s, o).v.val)
           /\ \A i \in DOMAIN First(s, o).v.val :
                  textMap(First(s, o).v).at[First(s, o).v.val[i][1].val] = First(s, o).v.val[i][2]
<1> DEFINE v == First(s, o).v
           keys == {v.val[i][1].val : i \in DOMAIN v.val}
           at == [k \in keys |-> v.val[CHOOSE i \in DOMAIN v.val : v.val[i][1].val = k][2]]
           isMap == v.kind = "map" /\ \A i \in DOMAIN v.val : v.val[i][1].kind = "text"
<1>1. textMap(v) = IF isMap THEN [ok |-> TRUE, keys |-> keys, at |-> at] ELSE Fail
  BY DEF textMap
<1>2. isMap
  <2> SUFFICES ASSUME ~isMap PROVE FALSE
    OBVIOUS
  <2> HIDE DEF keys, at, isMap
  <2>1. textMap(v) = Fail
    BY <1>1
  <2>2. ~Fail.ok
    BY DEF Fail
  <2> HIDE DEF v
  <2>3. textMap(v).ok
    BY DEF v
  <2> QED
    BY <2>1, <2>2, <2>3
<1>3. textMap(v).keys = keys /\ textMap(v).at = at
  <2> HIDE DEF keys, at, isMap, v
  <2>1. textMap(v) = [ok |-> TRUE, keys |-> keys, at |-> at]
    BY <1>1, <1>2
  <2> QED
    BY <2>1
<1>4. PICK n \in Nat :
          /\ DOMAIN v.val = 1 .. n /\ Len(v.val) = n
          /\ \A i \in 1 .. n : \A j \in 1 .. n : v.val[i][1] = v.val[j][1] => i = j
  BY <1>2, DistinctEntries
<1>5. ASSUME NEW i \in 1 .. n PROVE v.val[i][1] = [kind |-> "text", val |-> v.val[i][1].val]
  <2>1. PICK x \in Nat : Items(s)[x][1].ok /\ v.val[i][1] = First(s, x).v
    <3> DEFINE l == Inside(s, o).list
               m == Count(s, o)
    <3>1. v = Value(itemHead(s, o), l) /\ itemHead(s, o).ok /\ IsList(l, m) /\ m \in Nat
      BY InsideIs
    <3>2. itemHead(s, o).kind = "map"
      <4> HIDE DEF l, m
      <4>1. v.kind = "map"
        BY <1>2
      <4> HIDE DEF v
      <4>2. CASE itemHead(s, o).kind \notin {"array", "map"}
        BY <3>1, <4>1, <4>2, ScalarIs
      <4>3. CASE itemHead(s, o).kind = "array"
        <5>1. v.kind = "array"
          BY <3>1, <4>3, ArrayIs
        <5> QED
          BY <4>1, <5>1
      <4> QED
        BY <4>2, <4>3
    <3>3. PICK c \in Nat : m = 2 * c
      BY <3>1, <3>2, HeadFits DEF Count
    <3>4. HasEntries(Value(itemHead(s, o), l), l, c)
      <4> HIDE DEF l, m
      <4> QED
        BY <3>1, <3>2, <3>3, MapIs
    <3>5. DOMAIN v.val = 1 .. c /\ v.val[i][1] = l[2 * i - 1].v /\ i \in 1 .. c
      <4> HIDE DEF l, m
      <4>1. HasEntries(v, l, c)
        BY <3>1, <3>4
      <4> HIDE DEF v
      <4>2. DOMAIN v.val = 1 .. c /\ \A j \in 1 .. c : v.val[j] = <<l[2 * j - 1].v, l[2 * j].v>>
        BY <4>1 DEF HasEntries
      <4>3. i \in 1 .. c
        BY <1>4, <4>2
      <4> QED
        BY <4>2, <4>3
    <3>6. 2 * i - 1 \in 1 .. m
      <4> HIDE DEF m
      <4> QED
        BY <3>3, <3>5
    <3> DEFINE j == 2 * i - 1
    <3>7. j \in 1 .. Count(s, o)
      BY <3>6
    <3> HIDE DEF j
    <3>8. PICK x \in Nat : o < x /\ Items(s)[x][1].ok /\ Inside(s, o).list[j] = First(s, x)
      BY <3>7, InsideAt
    <3>9. v.val[i][1] = Inside(s, o).list[j].v
      BY <3>5 DEF j
    <3> QED
      BY <3>8, <3>9
  <2>2. First(s, x).v.kind = "text"
    BY <1>2, <1>4, <2>1
  <2>3. First(s, x).v = [kind |-> "text", val |-> First(s, x).v.val]
    BY <2>1, <2>2, TextIs
  <2> QED
    BY <2>1, <2>3
<1> DEFINE f == [i \in 1 .. n |-> v.val[i][1].val]
<1>6. \A i \in 1 .. n : \A j \in 1 .. n : f[i] = f[j] => i = j
  <2> SUFFICES ASSUME NEW i \in 1 .. n, NEW j \in 1 .. n, f[i] = f[j] PROVE i = j
    OBVIOUS
  <2>1. v.val[i][1].val = v.val[j][1].val
    OBVIOUS
  <2>2. v.val[i][1] = v.val[j][1]
    <3> HIDE DEF v
    <3>1. v.val[i][1] = [kind |-> "text", val |-> v.val[i][1].val]
      BY <1>5
    <3>2. v.val[j][1] = [kind |-> "text", val |-> v.val[j][1].val]
      BY <1>5
    <3> QED
      BY <2>1, <3>1, <3>2
  <2> QED
    BY <1>4, <2>2
<1>7. keys = {f[i] : i \in 1 .. n}
  BY <1>4
<1>8. Cardinality(keys) = n
  <2> HIDE DEF f, keys
  <2>1. Injects(f, n)
    BY <1>6 DEF Injects
  <2>2. keys = Image(f, n)
    BY <1>7 DEF Image
  <2> QED
    BY <2>1, <2>2, CountKeys
<1>9. ASSUME NEW i \in DOMAIN v.val PROVE at[v.val[i][1].val] = v.val[i][2]
  <2> DEFINE k == v.val[i][1].val
             c == CHOOSE j \in DOMAIN v.val : v.val[j][1].val = k
  <2>1. k \in keys
    OBVIOUS
  <2>2. c \in DOMAIN v.val /\ v.val[c][1].val = k
    OBVIOUS
  <2>3. i \in 1 .. n /\ c \in 1 .. n
    BY <1>4, <2>2
  <2>4. f[i] = f[c]
    <3> HIDE DEF c
    <3> QED
      BY <2>2, <2>3
  <2>5. i = c
    <3> HIDE DEF c, f
    <3> QED
      BY <1>6, <2>3, <2>4
  <2>6. at[k] = v.val[c][2]
    <3> HIDE DEF keys
    <3> QED
      BY <2>1
  <2> QED
    BY <2>5, <2>6
<1> QED
  BY <1>3, <1>4, <1>8, <1>9

(* No field of a map hides another, wherever in a body the map is: of what *)
(* parse returns, textMap has one key for each entry, and the field of     *)
(* every key is the value of its entry (asTextMap in cbor.go).             *)
THEOREM NoHiddenField ==
    ASSUME NEW s \in Seq(Byte), NEW from \in Nat, NEW count \in Nat, parse(s, from, count).ok,
           NEW i \in 1 .. count, textMap(parse(s, from, count).list[i].v).ok
    PROVE  LET v == parse(s, from, count).list[i].v
           IN  /\ Cardinality(textMap(v).keys) = Len(v.val)
               /\ \A j \in DOMAIN v.val : textMap(v).at[v.val[j][1].val] = v.val[j][2]
<1>1. parse(s, from, count) = Items(s)[from][count]
  BY ParseIs
<1>2. PICK x \in Nat : from <= x /\ Items(s)[x][1].ok /\ Items(s)[from][count].list[i] = First(s, x)
  BY SMTT(60), <1>1, ItemAt
<1>3. parse(s, from, count).list[i].v = First(s, x).v
  BY <1>1, <1>2
<1> DEFINE v == First(s, x).v
<1>4. /\ Cardinality(textMap(v).keys) = Len(v.val)
      /\ \A j \in DOMAIN v.val : textMap(v).at[v.val[j][1].val] = v.val[j][2]
  BY <1>2, <1>3, KeysCounted
<1> QED
  BY <1>3, <1>4
=============================================================================
