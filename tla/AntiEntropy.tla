----------------------------- MODULE AntiEntropy -----------------------------
(****************************************************************************)
(* The set arithmetic of one anti-entropy handler: range digests, truncated *)
(* id lists, their difference, and the admission of received envelopes      *)
(* (courier-core: digest.ts, anti-entropy.ts, store.ts).                    *)
(*                                                                          *)
(* A record id is an element of Id.  What the protocol sees of its bytes is *)
(* Hash[x], its truncated id: the nibbles of its first ID_PREFIX_BYTES      *)
(* bytes.  Two ids may share one (a truncated-id collision).  The XOR of a  *)
(* set of 256-bit hashes is modelled as the set itself: distinct sets of    *)
(* record ids are taken to have distinct XORs.                              *)
(****************************************************************************)
EXTENDS Integers, Sequences, FiniteSets

CONSTANTS Id,                       \* record ids
          Key,                      \* device key ids a signature can name
          Nibble,                   \* one digit of an id: 16 values in the code
          Hash,                     \* Id -> truncated id, a sequence of nibbles
          LEAF_THRESHOLD,           \* ids a range may hold and still be listed
          MAX_DEPTH,                \* longest digest prefix
          MAX_RECORDS_PER_MESSAGE   \* envelopes in one frame

ASSUME IdAssumption == IsFiniteSet(Id)
ASSUME HashAssumption ==
  /\ Hash \in [Id -> Seq(Nibble)]
  /\ \A x \in Id : Len(Hash[x]) >= MAX_DEPTH
ASSUME LimitAssumption ==
  /\ LEAF_THRESHOLD \in Nat
  /\ MAX_DEPTH \in Nat
  /\ MAX_RECORDS_PER_MESSAGE \in Nat \ {0}

(* A signed envelope: the record it carries and the key it is signed with.  *)
(* The id does not cover the signature, so two envelopes may carry one id.  *)
Envelope == [recordId : Id, kid : Key]

IdsOf(envelopes) == {e.recordId : e \in envelopes}

EnvelopesFor(store, ids) == {e \in store : e.recordId \in ids}

(* Seeded defects of Admit: the newest envelope of a record wins; the       *)
(* signing key is not looked up.                                            *)
AdmitReplacing(store, envelopes, trusted) ==
  LET new == {e \in envelopes : e.kid \in trusted}
  IN  {e \in store : e.recordId \notin IdsOf(new)} \cup new

AdmitUnverified(store, envelopes, trusted) ==
  store \cup {e \in envelopes : e.recordId \notin IdsOf(store)}

(* RecordStore.admit over every envelope of a message: an envelope under an *)
(* unknown key is rejected, one whose id is held is a duplicate, and the    *)
(* rest are kept.                                                           *)
Admit(store, envelopes, trusted) ==
  store \cup {e \in envelopes : e.kid \in trusted /\ e.recordId \notin IdsOf(store)}

----------------------------------------------------------------------------
(* Range digests.                                                           *)

HasPrefix(x, prefix) ==
  /\ Len(prefix) <= Len(Hash[x])
  /\ \A i \in 1 .. Len(prefix) : Hash[x][i] = prefix[i]

IdsWithPrefix(ids, prefix) == {x \in ids : HasPrefix(x, prefix)}

RangeDigest(ids, prefix) ==
  LET range == IdsWithPrefix(ids, prefix)
  IN  [prefix |-> prefix, count |-> Cardinality(range), xor |-> range]

(* Seeded defect of DigestsEqual: ranges of one size pass for equal.        *)
CountsEqual(a, b) == a.count = b.count

DigestsEqual(a, b) == a.count = b.count /\ a.xor = b.xor

ChildDigests(ids, prefix) == {RangeDigest(ids, Append(prefix, n)) : n \in Nibble}

(* The digests of a message that disagree with what this store holds.       *)
Differing(ids, digests) ==
  {d \in digests : ~DigestsEqual(RangeDigest(ids, d.prefix), d)}

(* A differing range is listed when it is small or cannot be split further. *)
AtLeaf(ids, d) ==
  \/ RangeDigest(ids, d.prefix).count + d.count <= LEAF_THRESHOLD
  \/ Len(d.prefix) >= MAX_DEPTH

----------------------------------------------------------------------------
(* Truncated id lists, compared as bags: a truncated id is not an identity. *)

TruncatedBag(ids) ==
  [t \in {Hash[x] : x \in ids} |-> Cardinality({x \in ids : Hash[x] = t})]

Copies(t, bag) == IF t \in DOMAIN bag THEN bag[t] ELSE 0

IdList(ids, prefix) ==
  [prefix |-> prefix, ids |-> TruncatedBag(IdsWithPrefix(ids, prefix))]

OutIdLists(ids, digests) ==
  {IdList(ids, d.prefix) : d \in {e \in Differing(ids, digests) : AtLeaf(ids, e)}}

OutDigests(ids, digests) ==
  UNION {ChildDigests(ids, d.prefix) :
           d \in {e \in Differing(ids, digests) : ~AtLeaf(ids, e)}}

Lacking(ids, list) ==
  {t \in DOMAIN list.ids :
     Copies(t, TruncatedBag(IdsWithPrefix(ids, list.prefix))) < list.ids[t]}

Surplus(ids, list) ==
  LET mine == IdsWithPrefix(ids, list.prefix)
  IN  {x \in mine : Copies(Hash[x], list.ids) < Copies(Hash[x], TruncatedBag(mine))}

(* The list is there because the digests differ; when the counts say        *)
(* nothing, two different ids share a truncated id (a split collision).     *)
Unexplained(ids, list) ==
  Lacking(ids, list) = {} /\ Surplus(ids, list) = {} /\ DOMAIN list.ids # {}

WantOf(ids, list) ==
  IF Unexplained(ids, list) THEN DOMAIN list.ids ELSE Lacking(ids, list)

GiveOf(ids, list) ==
  IF Unexplained(ids, list) THEN IdsWithPrefix(ids, list.prefix) ELSE Surplus(ids, list)

OutWant(ids, lists) == UNION {WantOf(ids, list) : list \in lists}

(* Seeded defect of Served: an index that keeps one id per truncated id.    *)
ServedOnce(ids, want) ==
  {x \in ids : Hash[x] \in want /\ x = CHOOSE y \in ids : Hash[y] = Hash[x]}

(* Every id sharing a wanted prefix is served, not just one of them.        *)
Served(ids, want) == {x \in ids : Hash[x] \in want}

OutIds(ids, msg) == Served(ids, msg.want) \cup UNION {GiveOf(ids, list) : list \in msg.idLists}

----------------------------------------------------------------------------
(* Messages.  `more` is turn control for chunked transfers.                 *)

More == {"absent", "true", "false"}

Prefix == Seq(Nibble)
Truncated == {Hash[x] : x \in Id}

Digest == [prefix : Prefix, count : Nat, xor : SUBSET Id]
TruncatedList == [prefix : Prefix, ids : UNION {[T -> 0 .. Cardinality(Id)] : T \in SUBSET Truncated}]

Message == [digests : SUBSET Digest, idLists : SUBSET TruncatedList,
            want : SUBSET Truncated, records : SUBSET Envelope, more : More]

EmptyMessage ==
  [digests |-> {}, idLists |-> {}, want |-> {}, records |-> {}, more |-> "absent"]

HasContent(m) == m.digests # {} \/ m.idLists # {} \/ m.want # {} \/ m.records # {}

(* The opening move: the root digest over the whole id space.               *)
StartMessage(ids) == [EmptyMessage EXCEPT !.digests = {RangeDigest(ids, <<>>)}]

(* What may leave in the next frame: as much of what is owed as fits.  The  *)
(* order of the queue is left open, so any part of that size may be next.   *)
Chunks(owed) ==
  IF Cardinality(owed) <= MAX_RECORDS_PER_MESSAGE
  THEN {owed}
  ELSE {c \in SUBSET owed : Cardinality(c) = MAX_RECORDS_PER_MESSAGE}

(* The reply of receive() for a store holding ids, with `chunk` leaving and *)
(* `left` still owed.                                                       *)
Reply(ids, msg, chunk, left) ==
  [digests |-> OutDigests(ids, msg.digests),
   idLists |-> OutIdLists(ids, msg.digests),
   want    |-> OutWant(ids, msg.idLists),
   records |-> chunk,
   more    |-> IF left # {} THEN "true" ELSE "absent"]
=============================================================================
