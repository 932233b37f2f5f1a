-------------------------------- MODULE Cbor ---------------------------------
(* Deterministic CBOR (courier-core/src/cbor.ts): the encoder, and the strict *)
(* decoder whose every refusal keeps one value from having two encodings.     *)
(* Heads and values that hold no others are CborLeaf's; here are arrays and   *)
(* maps, a map being its set of entries.                                      *)
EXTENDS CborLeaf, SequencesExt, FiniteSetsExt

CONSTANTS MaxDepth,  \* nesting the decoder follows (32)
          MaxSafe,   \* Number.MAX_SAFE_INTEGER
          Tag        \* COSE_Sign1's tag (18)

(***************************** the encoder *********************************)

RECURSIVE Encode(_)

\* encodeInto: keys are ordered by their encoding, and two keys that encode
\* alike are refused.
EncodeMap(map) ==
  LET entries == {[key |-> Encode(e[1]), of |-> e] : e \in map}
      order == SetToSortSeq(entries, KeyBefore)
      parts == [i \in DOMAIN order |-> <<order[i].key, Encode(order[i].of[2])>>]
  IN  IF \/ \E i \in DOMAIN parts : Refused \in Range(parts[i])
         \/ Cardinality({e.key : e \in entries}) # Cardinality(map)
      THEN Refused
      ELSE EncodeHead(5, Cardinality(map)) \o FlattenSeq(FlattenSeq(parts))

Encode(v) ==
  LET x == v[2]
  IN  CASE IsLeaf(v)       -> EncodeLeaf(v)
        [] v[1] = "array"  -> LET parts == [i \in DOMAIN x |-> Encode(x[i])]
                              IN  IF Refused \in Range(parts) THEN Refused
                                  ELSE EncodeHead(4, Len(x)) \o FlattenSeq(parts)
        [] v[1] = "map"    -> EncodeMap(x)

EncodeTagged(tag, v) == IF Encode(v) = Refused THEN Refused ELSE EncodeHead(6, tag) \o Encode(v)

(***************************** the decoder *********************************)
IsKey(v) == v[1] = "text" \/ (v[1] = "int" /\ v[2] \in (-MaxSafe)..MaxSafe)

RECURSIVE DecodeItem(_, _, _), DecodeItems(_, _, _, _), DecodeEntries(_, _, _, _, _)

\* n items from p on.
DecodeItems(b, p, n, depth) ==
  IF n = 0 THEN <<<<>>, p>>
  ELSE LET item == DecodeItem(b, p, depth)
           rest == DecodeItems(b, item[2], n - 1, depth)
       IN  IF item = Refused THEN Refused
           ELSE IF rest = Refused THEN Refused
           ELSE <<<<item[1]>> \o rest[1], rest[2]>>

\* n entries from p on.
DecodeEntries(b, p, n, depth, prev) ==
  IF n = 0 THEN <<{}, p>>
  ELSE LET k == DecodeItem(b, p, depth)
           v == DecodeItem(b, k[2], depth)
           rest == DecodeEntries(b, v[2], n - 1, depth, Encode(k[1]))
       IN  IF k = Refused THEN Refused
           ELSE IF ~IsKey(k[1]) \/ ~InOrder(prev, Encode(k[1])) THEN Refused
           ELSE IF v = Refused THEN Refused
           ELSE IF rest = Refused THEN Refused
           ELSE <<rest[1] \cup {<<k[1], v[1]>>}, rest[2]>>

DecodeItem(b, p, depth) ==
  LET h == ReadHead(b, p)
      n == h[2]
      q == h[3]
      left == Len(b) - q + 1
      items == DecodeItems(b, q, n, depth + 1)
      entries == DecodeEntries(b, q, n, depth + 1, <<>>)
  IN  IF depth > MaxDepth \/ h = Refused THEN Refused
      ELSE CASE h[1] = 4 -> IF n > left THEN Refused
                            ELSE IF items = Refused THEN Refused
                            ELSE <<<<"array", items[1]>>, items[2]>>
             [] h[1] = 5 -> IF 2 * n > left THEN Refused
                            ELSE IF entries = Refused THEN Refused
                            ELSE <<<<"map", entries[1]>>, entries[2]>>
             [] OTHER -> DecodeLeaf(b, h)

\* Exactly one item: trailing bytes are refused.
Whole(b, item) == IF item = Refused THEN Refused
                  ELSE IF item[2] # Len(b) + 1 THEN Refused ELSE <<item[1]>>

Decode(b) == Whole(b, DecodeItem(b, 1, 0))

DecodeTagged(b, tag) ==
  LET h == ReadHead(b, 1)
  IN  IF h = Refused THEN Refused
      ELSE IF h[1] # 6 \/ h[2] # tag THEN Refused
      ELSE Whole(b, DecodeItem(b, h[3], 0))

(****************************** the promises *******************************)

RECURSIVE NormalValue(_)
NormalValue(v) ==
  CASE v[1] = "text"  -> <<"text", Normal(v[2])>>
    [] v[1] = "array" -> <<"array", [i \in DOMAIN v[2] |-> NormalValue(v[2][i])]>>
    [] v[1] = "map"   -> <<"map", {<<NormalValue(e[1]), NormalValue(e[2])>> : e \in v[2]}>>
    [] OTHER -> v

\* Decoding then re-encoding the bytes is the identity, tagged or not.
ReencodesAs(b) ==
  LET v == Decode(b)
      w == DecodeTagged(b, Tag)
  IN  /\ v # Refused => Encode(v[1]) = b
      /\ w # Refused => EncodeTagged(Tag, w[1]) = b

\* The value is read back, up to the normal form of its texts.
ReadBack(v) ==
  /\ Decode(Encode(v)) = <<NormalValue(v)>>
  /\ DecodeTagged(EncodeTagged(Tag, v), Tag) = <<NormalValue(v)>>
=============================================================================
