----------------------------- MODULE CborEncoder -----------------------------
(****************************************************************************)
(* The encoder of the audit envelopes, against the decoder of Cbor.         *)
(****************************************************************************)
EXTENDS Cbor, SequencesExt

(* The encoder; the heads of numbers that TLC can represent. *)

appendMajor(major, n) ==
    LET head == 32 * major
    IN  CASE n < 24     -> <<head + n>>
          [] n \in 24 .. 255 -> <<head + 24, n>>
          [] n \in 256 .. 65535 -> <<head + 25, n \div 256, n % 256>>
          [] OTHER -> <<head + 26, n \div 16777216, (n \div 65536) % 256, (n \div 256) % 256, n % 256>>

RECURSIVE encodeCanonical(_)

\* The entries of m (sorted by the encoding of their keys).
appendCanonicalMap(m) ==
    LET raw(p)  == encodeCanonical(p[1])
        sorted  == SortSeq(m, LAMBDA p, q : Before(raw(p), raw(q)))
    IN  FoldLeft(LAMBDA acc, p : acc \o raw(p) \o encodeCanonical(p[2]),
                 appendMajor(5, Len(m)), sorted)

encodeCanonical(v) ==
    CASE v.kind = "null"  -> <<246>>
      [] v.kind = "bool"  -> IF v.val THEN <<245>> ELSE <<244>>
      [] v.kind = "uint"  -> appendMajor(0, v.val)
      [] v.kind = "text"  -> appendMajor(3, Len(v.val)) \o v.val
      [] v.kind = "bytes" -> appendMajor(2, Len(v.val)) \o v.val
      [] v.kind = "array" ->
            FoldLeft(LAMBDA acc, x : acc \o encodeCanonical(x), appendMajor(4, Len(v.val)), v.val)
      [] v.kind = "map"   -> appendCanonicalMap(v.val)

-----------------------------------------------------------------------------
(* Properties *)

\* What the encoder writes is read back as the same value.
ReadsBack(v) == \A body \in {encodeCanonical(v)} : decodeCBOR(body) = [ok |-> TRUE, v |-> v]

\* Values with v nested in them.
Around(v) ==
    LET text == [kind |-> "text", val |-> <<97>>]
    IN  {[kind |-> "array", val |-> <<v, text, v>>], [kind |-> "map", val |-> <<<<text, v>>>>]}

\* A body that is accepted is the one the encoder writes for its value: no two
\* bodies mean the same value, whatever is nested in them, and an accepted value
\* may be nested again (cbor.go, the hash of an envelope).  The fields of a map
\* are as many as its entries: none hides another.
OneEncoding ==
    \A r \in {decodeCBOR(received)} : r.ok =>
        /\ encodeCanonical(r.v) = received
        /\ textMap(r.v).ok => Cardinality(textMap(r.v).keys) = Len(r.v.val)
        /\ \A v \in Around(r.v) : ReadsBack(v)
==============================================================================
