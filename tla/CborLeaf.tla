------------------------------ MODULE CborLeaf -------------------------------
(* What deterministic CBOR (courier-core/src/cbor.ts) makes of one head, and  *)
(* of the values that hold no others: numbers, bytes, texts and the constants.*)
(* Cbor puts arrays and maps on top.  Sizes are scaled: a head has Inline     *)
(* direct arguments (24), four widths of 1, 2, 4 and 8 bytes, three reserved  *)
(* values and the indefinite one, and a byte is one major type out of eight   *)
(* and one of these.  A character is one byte.  Values are tagged tuples.     *)
EXTENDS Integers, Sequences

CONSTANTS Inline,    \* arguments held in the head itself
          Broken,    \* characters with no UTF-8: lone surrogates, stray bytes
          Mark,      \* the byte order mark, U+FEFF
          Composed   \* the characters NFC replaces, each with its replacement

\* A head has room for false, true and null below its widths.
InlineAssumption == Inline \in Nat /\ Inline >= 4
ASSUME InlineAssumption

Refused == <<>>
Info == Inline + 8
Byte == 8 * Info
Bytes == 0 .. Byte - 1
Byte2 == Byte * Byte
Byte4 == Byte2 * Byte2

\* NFC is done once: what it puts in place of a character stays.
ComposedAssumption ==
  \A c \in DOMAIN Composed : /\ Composed[c] \in Bytes
                             /\ Composed[c] \notin DOMAIN Composed
                             /\ c \notin Broken => Composed[c] \notin Broken
ASSUME ComposedAssumption

(******************************** numbers **********************************)
(* A number of twice as many digits is its upper half and its lower half.   *)

Width == <<1, 2, 4, 8>>

\* The least argument that needs width index k, 1 to 4 (Reader.head's min).
Least == <<Inline, Byte, Byte2, Byte4>>

Digits2(n) == <<n \div Byte, n % Byte>>
Digits4(n) == Digits2(n \div Byte2) \o Digits2(n % Byte2)
Digits8(n) == Digits4(n \div Byte4) \o Digits4(n % Byte4)

Digits(n, k) ==
  CASE k = 1 -> <<n>> [] k = 2 -> Digits2(n) [] k = 3 -> Digits4(n) [] k = 4 -> Digits8(n)

Upper(d) == SubSeq(d, 1, Len(d) \div 2)
Lower(d) == SubSeq(d, Len(d) \div 2 + 1, Len(d))

Number2(d) == d[1] * Byte + d[2]
Number4(d) == Number2(Upper(d)) * Byte2 + Number2(Lower(d))
Number8(d) == Number4(Upper(d)) * Byte4 + Number4(Lower(d))

Number(d, k) ==
  CASE k = 1 -> d[1] [] k = 2 -> Number2(d) [] k = 3 -> Number4(d) [] k = 4 -> Number8(d)

(********************************* heads ***********************************)

\* The argument has a width: it is below the eighth power of Byte.
Encodable(arg) == arg \div Byte4 < Byte4

\* Writer.head
EncodeHead(mt, arg) ==
  IF arg < Inline THEN <<mt * Info + arg>>
  ELSE IF ~Encodable(arg) THEN Refused
  ELSE LET k == CHOOSE k \in 1..4 : arg >= Least[k] /\ (k = 4 \/ arg < Least[k + 1])
       IN  <<mt * Info + Inline + k - 1>> \o Digits(arg, k)

\* Seeded defect of Shortest: wider heads are accepted and renormalised.
ShortestNot(arg, k) == TRUE

\* Reader.head's last check: the argument must not fit in fewer bytes.
Shortest(arg, k) == arg >= Least[k]

\* Reader.head: <<major type, argument, the position after it>>, or Refused.
ReadHead(b, p) ==
  IF p > Len(b) THEN Refused
  ELSE LET mt == b[p] \div Info
           ai == b[p] % Info
           k  == ai - Inline + 1
           q  == p + Width[k]
           arg == Number(SubSeq(b, p + 1, q), k)
       IN  CASE ai < Inline      -> <<mt, ai, p + 1>>
             [] ai >= Inline + 4 -> Refused                     \* reserved, indefinite
             [] OTHER -> IF q <= Len(b) /\ Shortest(arg, k) THEN <<mt, arg, q + 1>> ELSE Refused

(********************************* leaves **********************************)

Chars(s) == {s[i] : i \in DOMAIN s}

Normal(text) == [i \in DOMAIN text |->
                   IF text[i] \in DOMAIN Composed THEN Composed[text[i]] ELSE text[i]]

IsLeaf(v) == v[1] \in {"simple", "int", "bytes", "text"}

\* encodeInto, for a value that holds no others.
EncodeLeaf(v) ==
  LET x == v[2]
  IN  CASE v[1] = "simple" -> <<7 * Info + Inline - 5 + x>>  \* false, true, null
        [] v[1] = "int"    -> IF x >= 0 THEN EncodeHead(0, x) ELSE EncodeHead(1, -x - 1)
        [] v[1] = "bytes"  -> EncodeHead(2, Len(x)) \o x
        [] v[1] = "text"   -> IF Chars(x) \cap Broken # {} THEN Refused
                              ELSE EncodeHead(3, Len(x)) \o Normal(x)

\* What TextDecoder and the NFC check make of the bytes of a text.
ReadText(raw) ==
  LET text == IF raw # <<>> /\ raw[1] = Mark THEN Tail(raw) ELSE raw
  IN  IF Chars(raw) \cap Broken # {} \/ Normal(text) # text THEN Refused ELSE <<text>>

\* decodeItem, for a head h of major type 0, 1, 2, 3, 6 or 7: <<the value, the
\* position after it>>, or Refused.
DecodeLeaf(b, h) ==
  LET n == h[2]
      q == h[3]
      raw == SubSeq(b, q, q + n - 1)
  IN  CASE h[1] = 0 -> <<<<"int", n>>, q>>
        [] h[1] = 1 -> <<<<"int", -n - 1>>, q>>
        [] h[1] = 2 -> IF q + n - 1 > Len(b) THEN Refused ELSE <<<<"bytes", raw>>, q + n>>
        [] h[1] = 3 -> IF q + n - 1 > Len(b) THEN Refused
                       ELSE IF ReadText(raw) = Refused THEN Refused
                       ELSE <<<<"text", ReadText(raw)[1]>>, q + n>>
        [] h[1] = 6 -> Refused
        [] h[1] = 7 -> IF n \in (Inline - 4)..(Inline - 2)
                       THEN <<<<"simple", n - Inline + 5>>, q>> ELSE Refused

(********************************** keys ***********************************)

\* compareBytes
Before(a, b) ==
  \/ \E i \in DOMAIN a \cap DOMAIN b : a[i] < b[i] /\ \A j \in 1..(i - 1) : a[j] = b[j]
  \/ Len(a) < Len(b) /\ \A j \in DOMAIN a : a[j] = b[j]

\* Seeded defect of KeyBefore: keys in the order of their arguments, negative
\* ones first, as for numeric labels.
KeyBeforeByMajor(a, b) ==
  LET major(e) == e.key[1] \div Info
  IN  IF {major(a), major(b)} = {0, 1} THEN major(a) = 1 ELSE Before(a.key, b.key)

\* Map entries go by the bytes of their encoded keys.
KeyBefore(a, b) == Before(a.key, b.key)

\* A key may follow prev, the encoding of the key before it.
InOrder(prev, key) == prev = <<>> \/ Before(prev, key)
=============================================================================
