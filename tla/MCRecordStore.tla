--------------------------- MODULE MCRecordStore -----------------------------
(* A record on its way in: the bridge that seals a scan (FormBridge), the     *)
(* encoding that gives it its one id (Cbor) and the view of the stores that   *)
(* hold it (RecordStore).  The three share no state, so each is explored for  *)
(* itself, as the behaviours of one part.                                     *)
EXTENDS RecordStore, FormBridge, Cbor, TLC

CONSTANTS Alphabet,   (* bytes that the decoder's inputs are made of *)
          MaxLength   (* longest of these inputs *)

VARIABLES part,
          bytes,  (* what the decoder is given *)
          sent    (* the value it encodes, if it does: a sequence of at most one *)

codec == <<bytes, sent>>

(* The values: each kind, each width of head, and maps and arrays of them.    *)
Compose == 4 :> 0
Num(n) == <<"int", n>>
Text(t) == <<"text", t>>
Leaf == {Num(0), Num(3), Num(4), Num(-1), Num(-5), Num(95), Num(96), Text(<<>>), Text(<<0>>),
         Text(<<4>>), Text(<<2, 2>>), <<"bytes", <<4>>>>, <<"simple", 1>>, <<"simple", 3>>}
Key == {k \in Leaf : k[1] \in {"int", "text"}}
Pair == {{<<k, Num(4)>>, <<j, <<"simple", 2>>>>} :
           <<k, j>> \in {e \in Key \X Key : e[1] # e[2]}}
Values ==
  Leaf \cup {<<"map", {}>>, <<"array", <<>>>>} \cup {<<"map", p>> : p \in Pair}
       \cup {<<"array", <<a, b>>>> : a \in Leaf, b \in Leaf}
       \cup {<<"map", p \cup {<<Text(<<1>>), <<"map", q>>>>}>> : p \in Pair, q \in Pair}
       \cup {<<"array", <<<<"array", <<a>>>>, Num(9216)>>>> : a \in Leaf}

(* Some input, byte by byte.                                                  *)
Grow(byte) ==
  /\ sent = <<>> /\ Len(bytes) < MaxLength
  /\ bytes' = Append(bytes, byte) /\ UNCHANGED sent

(* The encoding of a value.                                                   *)
Send(v) ==
  /\ Encode(v) # Refused
  /\ bytes' = Encode(v) /\ sent' = <<v>>

MCInit ==
  /\ part \in {"view", "codec", "bridge"}
  /\ Init /\ bytes = <<>> /\ sent = <<>>
  /\ Bridge!Init /\ (part = "bridge" \/ active = {})

MCNext ==
  /\ UNCHANGED part
  /\ \/ part = "view" /\ Next /\ UNCHANGED <<codec, bridge>>
     \/ part = "codec" /\ UNCHANGED <<vars, bridge>>
        /\ \/ \E byte \in Alphabet : Grow(byte)
           \/ bytes = <<>> /\ \E v \in Values : Send(v)
     \/ part = "bridge" /\ Bridge!Next /\ UNCHANGED <<vars, codec>>

MCSpec == MCInit /\ [][MCNext]_<<part, vars, codec, bridge>>

(* Only ids are ordered; scouts, bodies and observations are alike.         *)
Alike == Permutations(Scout) \cup Permutations(Body) \cup Permutations(Observation)

(* Decoding then re-encoding is the identity: no two byte strings are read as *)
(* one value, so one record has one id (conformance.test.ts:74, cbor.ts:7).   *)
Canonical == ReencodesAs(bytes)

(* What one device encodes every other reads as the same value: the strict    *)
(* decoder refuses nothing the encoder writes (canonical-cbor.md:21).         *)
ReadAsWritten == \A v \in Range(sent) : ReadBack(v)

(* Five codes of three apps: one another profile misreads, its correction,    *)
(* one of another event that a profile without an event column would take,    *)
(* one whose match no profile can read, and a plain one.                      *)
Read(match, team, event) == [match |-> match, team |-> team, scout |-> "s", event |-> event]
AppOf == [mine |-> "qr", fixed |-> "qr", away |-> "key", late |-> "key", plain |-> "tab"]
ReadingOf ==
  [mine |-> "qr" :> Read("q1", 1, "absent") @@ "tab" :> Read("q7", 5, "absent"),
   fixed |-> "qr" :> Read("q1", 1, "absent"),
   away |-> "key" :> Read("q1", 1, "foreign") @@ "tab" :> Read("q1", 1, "absent"),
   late |-> "key" :> Read("bad", 1, "ours") @@ "qr" :> Read("bad", 1, "malformed"),
   plain |-> "tab" :> Read("q1", 1, "absent")]
Payloads == DOMAIN AppOf
=============================================================================
