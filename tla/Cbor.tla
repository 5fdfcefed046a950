-------------------------------- MODULE Cbor --------------------------------
(***************************************************************************)
(* The codec of the audit envelopes: a subset of CBOR in its canonical     *)
(* form (shortest heads, map keys in the order of their bytes).  The hash  *)
(* of an envelope is a hash of its bytes, so what matters is that a value  *)
(* has one encoding: the parser must refuse every other byte string.       *)
(*                                                                         *)
(* Bytes are numbers.  A value is a record [kind, val]; the raw bytes the  *)
(* parser keeps beside a value are those of its span.  The encoder is in   *)
(* CborEncoder.                                                            *)
(***************************************************************************)
EXTENDS Naturals, Sequences

CONSTANTS
    Octets,       \* bytes an envelope may be made of
    MaxOctets     \* bound: length of an envelope

VARIABLE received \* the bytes of a body, as far as they have arrived

Fail == [ok |-> FALSE]

\* The n bytes from offset off (the next byte is at off + 1), big-endian.
readN(s, off, n) ==
    LET number[i \in 0 .. n] == IF i = 0 THEN 0 ELSE number[i - 1] * 256 + s[off + i]
    IN  number[n]

\* The number of a head is in its low bits, ai, or in the bytes that follow it.
Follow(ai) ==
    CASE ai < 24 -> 0 [] ai = 24 -> 1 [] ai = 25 -> 2 [] ai = 26 -> 4 [] OTHER -> 8
Complete(s, off, ai) == ai < 28 /\ off + Follow(ai) <= Len(s)
Number(s, off, ai)   == IF ai < 24 THEN ai ELSE readN(s, off, Follow(ai))

\* Mutant: a head that is longer than its number needs is accepted.
readArgumentAny(s, off, ai) == Complete(s, off, ai)

\* The least number that needs the bytes that follow.
Least(ai) == CASE ai < 24 -> 0 [] ai = 24 -> 24 [] ai = 25 -> 256 [] ai = 26 -> 65536 [] OTHER -> 65536 * 65536

\* Whether the number is there, in the shortest of its forms.
readArgument(s, off, ai) == Complete(s, off, ai) /\ Number(s, off, ai) >= Least(ai)

\* bytes.Compare(x, y) < 0
Before(x, y) ==
    \E i \in 1 .. Len(y) :
        /\ \A j \in 1 .. i - 1 : j <= Len(x) /\ x[j] = y[j]
        /\ i > Len(x) \/ x[i] < y[i]

\* The head of the item after offset off: what kind of value starts there, its
\* value if that is all of it, the number of items nested in it, and where they
\* start.
itemHead(s, off) ==
    LET major == s[off + 1] \div 32
        ai    == s[off + 1] % 32
        n     == Number(s, off + 1, ai)
        start == off + 1 + Follow(ai)
        head(kind, val, nested, end) ==
            [ok |-> TRUE, kind |-> kind, val |-> val, nested |-> nested, off |-> end]
    IN  IF off >= Len(s) \/ ~readArgument(s, off + 1, ai) THEN Fail
        ELSE CASE major = 0 -> head("uint", n, 0, start)
               [] major \in {2, 3} /\ start + n <= Len(s) ->
                    head(IF major = 2 THEN "bytes" ELSE "text",
                         SubSeq(s, start + 1, start + n), 0, start + n)
               [] major = 4 -> head("array", <<>>, n, start)
               [] major = 5 -> head("map", <<>>, 2 * n, start)
               [] major = 7 /\ ai \in {20, 21} -> head("bool", ai = 21, 0, start)
               [] major = 7 /\ ai = 22 -> head("null", 0, 0, start)
               [] OTHER -> Fail

\* The bytes of the keys of a map: its nested items are key, value, key, ...
\* They must ascend, so none comes twice.
Canonical(nested) ==
    \A i \in DOMAIN nested : i % 2 = 1 /\ i > 2 => Before(nested[i - 2].raw, nested[i].raw)

Value(h, nested) ==
    CASE h.kind = "array" -> [kind |-> "array", val |-> [i \in DOMAIN nested |-> nested[i].v]]
      [] h.kind = "map"   ->
            [kind |-> "map", val |-> [i \in 1 .. Len(nested) \div 2 |->
                                         <<nested[2 * i - 1].v, nested[2 * i].v>>]]
      [] OTHER -> [kind |-> h.kind, val |-> h.val]

\* n values from offset off, given what is parsed further on: each with its raw bytes.
\* A count of more items than the body can have is refused here like any other
\* that the bytes do not back; the code first sizes a slice by it (cbor.go:99, 113),
\* and a count too large for one ends the request otherwise.
parseItems(items, s, off, n) ==
    LET h      == itemHead(s, off)
        nested == items[h.off][h.nested]
        rest   == items[nested.off][n - 1]
        item   == [v |-> Value(h, nested.list), raw |-> SubSeq(s, off + 1, nested.off)]
    IN  IF n = 0 THEN [ok |-> TRUE, list |-> <<>>, off |-> off]
        ELSE IF /\ h.ok /\ nested.ok
                /\ h.kind = "map" => Canonical(nested.list)
                /\ rest.ok
        THEN [ok |-> TRUE, list |-> <<item>> \o rest.list, off |-> rest.off]
        ELSE Fail

\* parse, as often as count says.
parse(s, from, count) ==
    LET items[off \in Nat] == [n \in Nat |-> parseItems(items, s, off, n)]
    IN  items[from][count]

\* A whole byte string: nothing may follow the value.
decodeCBOR(s) ==
    LET r == parse(s, 0, 1)
    IN  IF r.ok /\ r.off = Len(s) THEN [ok |-> TRUE, v |-> r.list[1].v] ELSE Fail

\* The entries of a map whose keys are all texts.
textMap(v) ==
    IF v.kind = "map" /\ \A i \in DOMAIN v.val : v.val[i][1].kind = "text"
    THEN [ok |-> TRUE, keys |-> {v.val[i][1].val : i \in DOMAIN v.val},
          at |-> [k \in {v.val[i][1].val : i \in DOMAIN v.val} |->
                    v.val[CHOOSE i \in DOMAIN v.val : v.val[i][1].val = k][2]]]
    ELSE Fail

-----------------------------------------------------------------------------
(* A body arrives byte by byte. *)

CborInit == received = <<>>

Arrives(octet) == Len(received) < MaxOctets /\ received' = Append(received, octet)

CborNext == \E octet \in Octets : Arrives(octet)

=============================================================================
