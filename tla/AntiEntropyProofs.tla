------------------------- MODULE AntiEntropyProofs ---------------------------
(****************************************************************************)
(* Facts about the operators of AntiEntropy, for every id space, hash and   *)
(* limit: what admission keeps, that a chunk of what is owed always exists  *)
(* and takes something, that every reply is a well-formed message, and what *)
(* an exchange is worth: equal stores say nothing, a difference is followed *)
(* to a list, and a list moves something across.                            *)
(****************************************************************************)
EXTENDS AntiEntropy, FiniteSetTheorems, TLAPS

(* Admission never drops an envelope and takes nothing but verified new     *)
(* ones out of the message (store.ts admit).                                *)
LEMMA AdmitKeeps ==
  ASSUME NEW store, NEW envelopes, NEW trusted
  PROVE  /\ store \subseteq Admit(store, envelopes, trusted)
         /\ \A e \in Admit(store, envelopes, trusted) :
               e \in store \/ (e \in envelopes /\ e.kid \in trusted
                                 /\ e.recordId \notin IdsOf(store))
  BY DEF Admit

(* A truncated id is no identity but a record id is: admitting a message    *)
(* whose envelopes carry distinct records leaves one envelope per record.   *)
LEMMA AdmitKeepsIdsUnique ==
  ASSUME NEW store, NEW envelopes, NEW trusted,
         \A e, f \in store : e.recordId = f.recordId => e = f,
         \A e, f \in envelopes : e.recordId = f.recordId => e = f
  PROVE  \A e, f \in Admit(store, envelopes, trusted) : e.recordId = f.recordId => e = f
  BY DEF Admit, IdsOf

(* The ids of well-formed envelopes are record ids (store.ts recordId).     *)
LEMMA IdsOfEnvelopes ==
  ASSUME NEW S \in SUBSET Envelope
  PROVE  IdsOf(S) \in SUBSET Id
  BY DEF IdsOf, Envelope

(* Every set of ids is finite, and no larger than the id space.             *)
LEMMA IdsAreFinite ==
  ASSUME NEW ids \in SUBSET Id
  PROVE  /\ IsFiniteSet(ids)
         /\ Cardinality(ids) \in 0 .. Cardinality(Id)
<1>1. IsFiniteSet(ids) /\ Cardinality(ids) <= Cardinality(Id)
  BY IdAssumption, FS_Subset
<1>2. Cardinality(ids) \in Nat /\ Cardinality(Id) \in Nat
  BY <1>1, IdAssumption, FS_CardinalityType
<1> QED BY <1>1, <1>2

(* What is owed is released bit by bit: some chunk can always leave, and it *)
(* is empty only when nothing is owed (anti-entropy.ts, #pending).          *)
LEMMA ChunkIsPart ==
  ASSUME NEW owed, NEW chunk \in Chunks(owed)
  PROVE  chunk \subseteq owed
  BY DEF Chunks

(* A chunk is empty only when nothing is owed: the "more" flag is never set *)
(* for ever (anti-entropy.ts 415-418).                                      *)
LEMMA ChunkTakesSomething ==
  ASSUME NEW owed, NEW chunk \in Chunks(owed), chunk = {}
  PROVE  owed = {}
<1>1. CASE Cardinality(owed) <= MAX_RECORDS_PER_MESSAGE
  BY <1>1 DEF Chunks
<1>2. CASE ~(Cardinality(owed) <= MAX_RECORDS_PER_MESSAGE)
  <2>1. Cardinality(chunk) = MAX_RECORDS_PER_MESSAGE
    BY <1>2 DEF Chunks
  <2>2. Cardinality(chunk) = 0
    BY FS_EmptySet
  <2> QED BY <2>1, <2>2, LimitAssumption
<1> QED BY <1>1, <1>2

----------------------------------------------------------------------------
(* Well-formed messages.                                                    *)

(* The message that only hands the turn back is well formed (anti-          *)
(* entropy.ts 428-433).                                                     *)
LEMMA EmptyMessageType == EmptyMessage \in Message
  BY DEF EmptyMessage, Message, More

(* The digest of any range of any set of ids is well formed (digest.ts      *)
(* rangeDigest).                                                            *)
LEMMA RangeDigestType ==
  ASSUME NEW ids \in SUBSET Id, NEW prefix \in Prefix
  PROVE  RangeDigest(ids, prefix) \in Digest
<1>1. IdsWithPrefix(ids, prefix) \in SUBSET Id
  BY DEF IdsWithPrefix
<1>2. Cardinality(IdsWithPrefix(ids, prefix)) \in Nat
  BY <1>1, IdsAreFinite, IdAssumption, FS_CardinalityType
<1> QED BY <1>1, <1>2 DEF RangeDigest, Digest

(* The opening message is well formed (anti-entropy.ts start).              *)
LEMMA StartMessageType ==
  ASSUME NEW ids \in SUBSET Id
  PROVE  StartMessage(ids) \in Message
<1>1. <<>> \in Prefix
  BY DEF Prefix
<1>2. RangeDigest(ids, <<>>) \in Digest
  BY <1>1, RangeDigestType
<1> QED BY <1>2, EmptyMessageType DEF StartMessage, Message

(* Splitting a range makes well-formed digests (digest.ts childDigests).    *)
LEMMA ChildDigestsType ==
  ASSUME NEW ids \in SUBSET Id, NEW prefix \in Prefix
  PROVE  ChildDigests(ids, prefix) \in SUBSET Digest
<1>1. \A n \in Nibble : Append(prefix, n) \in Prefix
  BY DEF Prefix
<1> QED BY <1>1, RangeDigestType DEF ChildDigests

(* The truncated ids of a set of ids, counted, are a bag over the truncated *)
(* ids there are (anti-entropy.ts 354-366).                                 *)
LEMMA TruncatedBagType ==
  ASSUME NEW ids \in SUBSET Id
  PROVE  /\ TruncatedBag(ids) \in [{Hash[x] : x \in ids} -> 0 .. Cardinality(Id)]
         /\ {Hash[x] : x \in ids} \in SUBSET Truncated
<1>1. \A t : Cardinality({x \in ids : Hash[x] = t}) \in 0 .. Cardinality(Id)
  BY IdsAreFinite
<1> QED BY <1>1 DEF TruncatedBag, Truncated

(* The id list of a range is well formed (anti-entropy.ts 354-366).         *)
LEMMA IdListType ==
  ASSUME NEW ids \in SUBSET Id, NEW prefix \in Prefix
  PROVE  IdList(ids, prefix) \in TruncatedList
<1>1. IdsWithPrefix(ids, prefix) \in SUBSET Id
  BY DEF IdsWithPrefix
<1> DEFINE T == {Hash[x] : x \in IdsWithPrefix(ids, prefix)}
<1>2. /\ TruncatedBag(IdsWithPrefix(ids, prefix)) \in [T -> 0 .. Cardinality(Id)]
      /\ T \in SUBSET Truncated
  BY <1>1, TruncatedBagType
<1>3. TruncatedBag(IdsWithPrefix(ids, prefix))
        \in UNION {[U -> 0 .. Cardinality(Id)] : U \in SUBSET Truncated}
  BY <1>2
<1> QED BY <1>3 DEF IdList, TruncatedList

(* What is wanted of a list, the split-collision fallback included, is a    *)
(* set of truncated ids (anti-entropy.ts 374-409).                          *)
LEMMA WantOfType ==
  ASSUME NEW ids \in SUBSET Id, NEW list \in TruncatedList
  PROVE  WantOf(ids, list) \in SUBSET Truncated
<1>1. PICK U \in SUBSET Truncated : list.ids \in [U -> 0 .. Cardinality(Id)]
  BY DEF TruncatedList
<1>2. DOMAIN list.ids \in SUBSET Truncated
  BY <1>1
<1> QED BY <1>2 DEF WantOf, Lacking

(* A reply is well formed whatever message it answers.                      *)
LEMMA ReplyType ==
  ASSUME NEW ids \in SUBSET Id, NEW msg \in Message,
         NEW chunk \in SUBSET Envelope, NEW left
  PROVE  Reply(ids, msg, chunk, left) \in Message
<1>0. /\ msg.digests \in SUBSET Digest
      /\ msg.idLists \in SUBSET TruncatedList
  BY DEF Message
<1>1. \A d \in Differing(ids, msg.digests) : d.prefix \in Prefix
  BY <1>0 DEF Differing, Digest
<1>2. OutDigests(ids, msg.digests) \in SUBSET Digest
  BY <1>1, ChildDigestsType DEF OutDigests
<1>3. OutIdLists(ids, msg.digests) \in SUBSET TruncatedList
  BY <1>1, IdListType DEF OutIdLists
<1>4. OutWant(ids, msg.idLists) \in SUBSET Truncated
  BY <1>0, WantOfType DEF OutWant
<1> QED BY <1>2, <1>3, <1>4 DEF Reply, Message, More

----------------------------------------------------------------------------
(* What becomes of a difference.  A message pursues the envelope e if the   *)
(* peer, should it disagree about e's record with the sender (who has it or *)
(* not: `has`), is bound to notice, to be asked for it or to be given it.   *)

Pursues(m, e, has) ==
  \/ \E d \in m.digests : HasPrefix(e.recordId, d.prefix) /\ (e.recordId \in d.xor <=> has)
  \/ \E list \in m.idLists :
        /\ HasPrefix(e.recordId, list.prefix)
        /\ Copies(Hash[e.recordId], list.ids) = IF has THEN 1 ELSE 0
  \/ Hash[e.recordId] \in m.want /\ ~has
  \/ e \in m.records

(* An id that shares its truncated id with no other is counted once where   *)
(* it is held and not at all elsewhere (anti-entropy.ts 354-366).           *)
LEMMA CountOfAlone ==
  ASSUME NEW S \in SUBSET Id, NEW x \in Id, \A y \in Id \ {x} : Hash[y] # Hash[x]
  PROVE  Copies(Hash[x], TruncatedBag(S)) = IF x \in S THEN 1 ELSE 0
<1>1. CASE x \in S
  <2>1. {y \in S : Hash[y] = Hash[x]} = {x}
    BY <1>1
  <2>2. Hash[x] \in {Hash[y] : y \in S}
    BY <1>1
  <2>3. Cardinality({x}) = 1
    BY FS_Singleton
  <2>4. Copies(Hash[x], TruncatedBag(S)) = Cardinality({y \in S : Hash[y] = Hash[x]})
    BY <2>2 DEF Copies, TruncatedBag
  <2> QED BY <1>1, <2>1, <2>3, <2>4
<1>2. CASE x \notin S
  <2>1. Hash[x] \notin {Hash[y] : y \in S}
    BY <1>2
  <2> QED BY <1>2, <2>1 DEF Copies, TruncatedBag
<1> QED BY <1>1, <1>2

(* An id with a prefix has one of the prefixes one digit longer, as long as *)
(* there is a digit left (digest.ts childDigests).                          *)
LEMMA OneDigitMore ==
  ASSUME NEW x \in Id, NEW prefix \in Prefix, HasPrefix(x, prefix), Len(prefix) < MAX_DEPTH
  PROVE  \E n \in Nibble : HasPrefix(x, Append(prefix, n))
<1>1. Hash[x] \in Seq(Nibble) /\ Len(Hash[x]) >= MAX_DEPTH
  BY HashAssumption
<1>2. Len(prefix) \in Nat /\ Len(Hash[x]) \in Nat /\ Len(prefix) + 1 \in 1 .. Len(Hash[x])
  BY <1>1, LimitAssumption DEF Prefix
<1> DEFINE n == Hash[x][Len(prefix) + 1]
           longer == Append(prefix, n)
<1>3. n \in Nibble
  BY <1>1, <1>2
<1>4. /\ Len(longer) = Len(prefix) + 1
      /\ longer[Len(prefix) + 1] = n
      /\ \A i \in 1 .. Len(prefix) : longer[i] = prefix[i]
  BY <1>3 DEF Prefix
<1> HIDE DEF longer
<1>5. \A i \in 1 .. Len(longer) : Hash[x][i] = longer[i]
  <2> SUFFICES ASSUME NEW i \in 1 .. Len(prefix) + 1
               PROVE  Hash[x][i] = longer[i]
    BY <1>4
  <2>1. CASE i \in 1 .. Len(prefix)
    BY <1>4, <2>1 DEF HasPrefix
  <2>2. CASE i = Len(prefix) + 1
    BY <1>4, <2>2
  <2> QED BY <1>2, <2>1, <2>2
<1> QED BY <1>2, <1>3, <1>4, <1>5 DEF HasPrefix, longer

(* The opening digest covers every id (anti-entropy.ts start).              *)
LEMMA StartPursues ==
  ASSUME NEW ids \in SUBSET Id, NEW e \in Envelope
  PROVE  Pursues(StartMessage(ids), e, e.recordId \in ids)
<1> DEFINE root == RangeDigest(ids, <<>>)
<1>1. e.recordId \in Id
  BY DEF Envelope
<1>2. Len(Hash[e.recordId]) \in Nat
  BY <1>1, HashAssumption
<1>3. HasPrefix(e.recordId, <<>>)
  BY <1>2 DEF HasPrefix
<1>4. root.prefix = <<>> /\ (e.recordId \in root.xor <=> e.recordId \in ids)
  BY <1>1, <1>3 DEF RangeDigest, IdsWithPrefix
<1>5. StartMessage(ids).digests = {root}
  BY DEF StartMessage, EmptyMessage
<1> QED BY <1>3, <1>4, <1>5 DEF Pursues

(* A digest that disagrees about an id is answered by the digest or the     *)
(* list of a range that still holds the id (anti-entropy.ts 340-366).       *)
LEMMA DigestIsAnswered ==
  ASSUME NEW ids \in SUBSET Id, NEW msg \in Message, NEW chunk, NEW left, NEW e \in Envelope,
         \A y \in Id \ {e.recordId} : Hash[y] # Hash[e.recordId],
         NEW d \in msg.digests, HasPrefix(e.recordId, d.prefix),
         e.recordId \in d.xor <=> e.recordId \notin ids
  PROVE  Pursues(Reply(ids, msg, chunk, left), e, e.recordId \in ids)
<1> DEFINE x == e.recordId
           reply == Reply(ids, msg, chunk, left)
<1>0. /\ x \in Id /\ d \in Digest
      /\ \A y \in Id \ {x} : Hash[y] # Hash[x]
      /\ reply.digests = OutDigests(ids, msg.digests)
      /\ reply.idLists = OutIdLists(ids, msg.digests)
  BY DEF Envelope, Message, Reply
<1> HIDE DEF reply
<1>1. \A prefix : HasPrefix(x, prefix) => (x \in RangeDigest(ids, prefix).xor <=> x \in ids)
  BY DEF RangeDigest, IdsWithPrefix
<1>2. d \in Differing(ids, msg.digests)
  BY <1>1 DEF Differing, DigestsEqual
<1>3. d.prefix \in Prefix
  BY <1>0 DEF Digest
<1>4. CASE AtLeaf(ids, d)
  <2> DEFINE list == IdList(ids, d.prefix)
  <2>1. list \in OutIdLists(ids, msg.digests)
    BY <1>2, <1>4 DEF OutIdLists
  <2>2. IdsWithPrefix(ids, d.prefix) \in SUBSET Id /\ (x \in IdsWithPrefix(ids, d.prefix) <=> x \in ids)
    BY DEF IdsWithPrefix
  <2>3. Copies(Hash[x], TruncatedBag(IdsWithPrefix(ids, d.prefix))) = IF x \in ids THEN 1 ELSE 0
    BY <1>0, <2>2, CountOfAlone
  <2>4. list.prefix = d.prefix /\ list.ids = TruncatedBag(IdsWithPrefix(ids, d.prefix))
    BY DEF IdList
  <2> QED BY <1>0, <2>1, <2>3, <2>4 DEF Pursues, reply
<1>5. CASE ~AtLeaf(ids, d)
  <2>1. Len(d.prefix) < MAX_DEPTH
    BY <1>3, <1>5, LimitAssumption DEF AtLeaf, Prefix
  <2>2. PICK n \in Nibble : HasPrefix(x, Append(d.prefix, n))
    BY <1>0, <1>3, <2>1, OneDigitMore
  <2> DEFINE c == RangeDigest(ids, Append(d.prefix, n))
  <2>3. c \in OutDigests(ids, msg.digests)
    BY <1>2, <1>5, <2>2 DEF OutDigests, ChildDigests
  <2>4. c.prefix = Append(d.prefix, n)
    BY DEF RangeDigest
  <2> QED BY <1>0, <1>1, <2>2, <2>3, <2>4 DEF Pursues, reply
<1> QED BY <1>4, <1>5

(* A list that disagrees about an id makes the receiver ask for it or queue *)
(* it (anti-entropy.ts 374-409).                                            *)
LEMMA ListIsAnswered ==
  ASSUME NEW ids \in SUBSET Id, NEW x \in Id, \A y \in Id \ {x} : Hash[y] # Hash[x],
         NEW list \in TruncatedList, HasPrefix(x, list.prefix),
         Copies(Hash[x], list.ids) = IF x \in ids THEN 0 ELSE 1
  PROVE  IF x \in ids THEN x \in GiveOf(ids, list) ELSE Hash[x] \in WantOf(ids, list)
<1> DEFINE mine == IdsWithPrefix(ids, list.prefix)
<1>1. mine \in SUBSET Id /\ (x \in mine <=> x \in ids)
  BY DEF IdsWithPrefix
<1> HIDE DEF mine
<1>2. Copies(Hash[x], TruncatedBag(mine)) = IF x \in ids THEN 1 ELSE 0
  BY <1>1, CountOfAlone
<1>3. CASE x \in ids
  <2>1. x \in Surplus(ids, list)
    BY <1>1, <1>2, <1>3 DEF Surplus, mine
  <2> QED BY <1>3, <2>1 DEF GiveOf, Unexplained
<1>4. CASE x \notin ids
  <2>1. Hash[x] \in DOMAIN list.ids /\ list.ids[Hash[x]] = 1
    BY <1>4 DEF Copies
  <2>2. Hash[x] \in Lacking(ids, list)
    BY <1>2, <1>4, <2>1 DEF Lacking, mine
  <2> QED BY <1>4, <2>2 DEF WantOf, Unexplained
<1> QED BY <1>3, <1>4

(* One handler brings a difference one step nearer: what the message it     *)
(* reads pursues, its reply pursues, or it is queued for sending.           *)
LEMMA ReplyPursues ==
  ASSUME NEW ids \in SUBSET Id, NEW msg \in Message, NEW chunk, NEW left,
         NEW e \in Envelope, \A y \in Id \ {e.recordId} : Hash[y] # Hash[e.recordId],
         Pursues(msg, e, e.recordId \notin ids), e \notin msg.records
  PROVE  \/ e.recordId \in ids /\ e.recordId \in OutIds(ids, msg)
         \/ Pursues(Reply(ids, msg, chunk, left), e, e.recordId \in ids)
<1> DEFINE x == e.recordId
           reply == Reply(ids, msg, chunk, left)
<1>0. /\ x \in Id
      /\ msg.digests \in SUBSET Digest /\ msg.idLists \in SUBSET TruncatedList
  BY DEF Envelope, Message
<1>1. /\ reply.digests = OutDigests(ids, msg.digests)
      /\ reply.idLists = OutIdLists(ids, msg.digests)
      /\ reply.want = OutWant(ids, msg.idLists)
  BY DEF Reply
<1> HIDE DEF reply
<1>2. CASE \E d \in msg.digests : HasPrefix(x, d.prefix) /\ (x \in d.xor <=> x \notin ids)
  <2>1. PICK d \in msg.digests : HasPrefix(x, d.prefix) /\ (x \in d.xor <=> x \notin ids)
    BY <1>2
  <2> QED BY <2>1, DigestIsAnswered
<1>3. CASE \E list \in msg.idLists :
             HasPrefix(x, list.prefix) /\ Copies(Hash[x], list.ids) = IF x \notin ids THEN 1 ELSE 0
  <2>1. PICK list \in msg.idLists :
          HasPrefix(x, list.prefix) /\ Copies(Hash[x], list.ids) = IF x \notin ids THEN 1 ELSE 0
    BY <1>3
  <2>2. list \in TruncatedList /\ Copies(Hash[x], list.ids) = IF x \in ids THEN 0 ELSE 1
    BY <1>0, <2>1
  <2>3. IF x \in ids THEN x \in GiveOf(ids, list) ELSE Hash[x] \in WantOf(ids, list)
    BY <1>0, <2>1, <2>2, ListIsAnswered
  <2>4. x \in ids => x \in OutIds(ids, msg)
    BY <2>1, <2>3 DEF OutIds
  <2>5. x \notin ids => Hash[x] \in reply.want
    BY <1>1, <2>1, <2>3 DEF OutWant
  <2> QED BY <2>4, <2>5 DEF Pursues, reply
<1>4. CASE Hash[x] \in msg.want /\ x \in ids
  BY <1>4 DEF OutIds, Served
<1> QED BY <1>2, <1>3, <1>4 DEF Pursues

(* A message that pursues something has content, so it is sent.             *)
LEMMA PursuitIsContent ==
  ASSUME NEW m, NEW e, NEW has, Pursues(m, e, has)
  PROVE  HasContent(m)
  BY DEF Pursues, HasContent

----------------------------------------------------------------------------
(* What an exchange is worth, whatever truncated ids collide: stores that   *)
(* agree say nothing, and a range they differ in is followed down to a list *)
(* that makes at least one id cross.                                        *)

(* A sync repeated over equal stores costs its opening message: the digest  *)
(* agrees, so nothing is said and nothing queued (anti-entropy.ts 340-351). *)
THEOREM EqualStoresSayNothing ==
  ASSUME NEW ids \in SUBSET Id
  PROVE  /\ OutIds(ids, StartMessage(ids)) = {}
         /\ ~HasContent(Reply(ids, StartMessage(ids), {}, {}))
<1> DEFINE root == RangeDigest(ids, <<>>)
           msg  == StartMessage(ids)
<1>1. /\ msg.digests = {root} /\ msg.idLists = {} /\ msg.want = {}
      /\ root.prefix = <<>>
  BY DEF StartMessage, EmptyMessage, RangeDigest
<1> HIDE DEF msg
<1>2. Differing(ids, msg.digests) = {}
  BY <1>1 DEF Differing, DigestsEqual
<1>3. /\ OutDigests(ids, msg.digests) = {} /\ OutIdLists(ids, msg.digests) = {}
      /\ OutWant(ids, msg.idLists) = {} /\ OutIds(ids, msg) = {}
  BY <1>1, <1>2 DEF OutDigests, OutIdLists, OutWant, OutIds, Served
<1> QED BY <1>3 DEF Reply, HasContent, msg

(* The digest of a range two stores differ in is answered: by the list of   *)
(* the range, or by the digest of a smaller range they still differ in,     *)
(* which the longest prefix brings to an end (anti-entropy.ts 340-366).     *)
THEOREM DifferenceIsFollowed ==
  ASSUME NEW mine \in SUBSET Id, NEW theirs \in SUBSET Id, NEW prefix \in Prefix,
         IdsWithPrefix(mine, prefix) # IdsWithPrefix(theirs, prefix),
         NEW digests, RangeDigest(theirs, prefix) \in digests
  PROVE  \/ IdList(mine, prefix) \in OutIdLists(mine, digests)
         \/ \E n \in Nibble :
               /\ Len(Append(prefix, n)) <= MAX_DEPTH
               /\ RangeDigest(mine, Append(prefix, n)) \in OutDigests(mine, digests)
               /\ IdsWithPrefix(mine, Append(prefix, n)) # IdsWithPrefix(theirs, Append(prefix, n))
<1> DEFINE d == RangeDigest(theirs, prefix)
<1>1. d.prefix = prefix /\ d \in Differing(mine, digests)
  BY DEF Differing, DigestsEqual, RangeDigest
<1>2. CASE AtLeaf(mine, d)
  <2>1. d \in {e \in Differing(mine, digests) : AtLeaf(mine, e)}
    BY <1>1, <1>2
  <2>2. IdList(mine, d.prefix) \in OutIdLists(mine, digests)
    BY <2>1, Zenon DEF OutIdLists
  <2> QED BY <1>1, <2>2
<1>3. CASE ~AtLeaf(mine, d)
  <2>1. Len(prefix) \in Nat /\ Len(prefix) < MAX_DEPTH
    BY <1>1, <1>3, LimitAssumption DEF AtLeaf, Prefix
  <2>2. PICK x \in Id : HasPrefix(x, prefix) /\ (x \in mine <=> x \notin theirs)
    BY DEF IdsWithPrefix
  <2>3. PICK n \in Nibble : HasPrefix(x, Append(prefix, n))
    BY <2>1, <2>2, OneDigitMore
  <2>4. Len(Append(prefix, n)) <= MAX_DEPTH
    BY <2>1, LimitAssumption DEF Prefix
  <2>5. d \in {e \in Differing(mine, digests) : ~AtLeaf(mine, e)}
    BY <1>1, <1>3
  <2>6. RangeDigest(mine, Append(d.prefix, n)) \in ChildDigests(mine, d.prefix)
    BY DEF ChildDigests
  <2>7. RangeDigest(mine, Append(d.prefix, n)) \in OutDigests(mine, digests)
    BY <2>5, <2>6 DEF OutDigests
  <2>8. IdsWithPrefix(mine, Append(prefix, n)) # IdsWithPrefix(theirs, Append(prefix, n))
    BY <2>2, <2>3 DEF IdsWithPrefix
  <2> QED BY <1>1, <2>4, <2>7, <2>8
<1> QED BY <1>2, <1>3

(* How often a truncated id occurs among ids, listed or not.                *)
LEMMA CopiesCount ==
  ASSUME NEW ids \in SUBSET Id, NEW t
  PROVE  Copies(t, TruncatedBag(ids)) = Cardinality({x \in ids : Hash[x] = t})
<1>1. CASE \E x \in ids : Hash[x] = t
  BY <1>1 DEF Copies, TruncatedBag
<1>2. CASE ~\E x \in ids : Hash[x] = t
  <2>1. {x \in ids : Hash[x] = t} = {}
    BY <1>2
  <2>2. Copies(t, TruncatedBag(ids)) = 0
    BY <1>2 DEF Copies, TruncatedBag
  <2> QED BY <2>1, <2>2, FS_EmptySet
<1> QED BY <1>1, <1>2

(* Where one store counts fewer ids under a truncated id than the other, it *)
(* lacks one of them (anti-entropy.ts 374-385).                             *)
LEMMA FewerMeansLacking ==
  ASSUME NEW few \in SUBSET Id, NEW many \in SUBSET Id, NEW t,
         Copies(t, TruncatedBag(few)) < Copies(t, TruncatedBag(many))
  PROVE  \E x \in many \ few : Hash[x] = t
<1> DEFINE F == {x \in few : Hash[x] = t}
           M == {x \in many : Hash[x] = t}
<1>1. Cardinality(F) < Cardinality(M)
  BY CopiesCount
<1>2. Cardinality(F) \in Nat /\ Cardinality(M) \in Nat /\ IsFiniteSet(F)
  <2>1. F \in SUBSET Id /\ M \in SUBSET Id
    OBVIOUS
  <2> HIDE DEF F, M
  <2> QED BY <2>1, IdsAreFinite, IdAssumption, FS_CardinalityType
<1>3. ~(M \subseteq F)
  <2> HIDE DEF F, M
  <2>1. M \subseteq F => Cardinality(M) <= Cardinality(F)
    BY <1>2, FS_Subset
  <2> QED BY <1>1, <1>2, <2>1
<1> QED BY <1>3

(* A list of a range two stores differ in is never in vain: an id one of    *)
(* them lacks is asked for and served, or given, also where different ids   *)
(* share their truncated id (anti-entropy.ts 374-409).                      *)
THEOREM ListsMoveSomething ==
  ASSUME NEW mine \in SUBSET Id, NEW theirs \in SUBSET Id, NEW prefix \in Prefix,
         IdsWithPrefix(mine, prefix) # IdsWithPrefix(theirs, prefix)
  PROVE  \/ \E x \in theirs \ mine :
               x \in Served(theirs, WantOf(mine, IdList(theirs, prefix)))
         \/ \E x \in mine \ theirs :
               x \in GiveOf(mine, IdList(theirs, prefix))
<1> DEFINE M    == IdsWithPrefix(mine, prefix)
           T    == IdsWithPrefix(theirs, prefix)
           list == IdList(theirs, prefix)
<1>1. /\ M \in SUBSET Id /\ T \in SUBSET Id
      /\ \A x \in T \ M : x \in theirs \ mine
      /\ \A x \in M \ T : x \in mine \ theirs
  BY DEF IdsWithPrefix
<1>2. /\ list.prefix = prefix /\ list.ids = TruncatedBag(T)
      /\ DOMAIN list.ids = {Hash[x] : x \in T}
  BY DEF IdList, TruncatedBag
<1>3. M # T
  OBVIOUS
<1> HIDE DEF M, T, list
<1>4. /\ Lacking(mine, list) = {t \in DOMAIN list.ids :
                                  Copies(t, TruncatedBag(M)) < list.ids[t]}
      /\ Surplus(mine, list) = {x \in M :
                                  Copies(Hash[x], list.ids) < Copies(Hash[x], TruncatedBag(M))}
  BY <1>2 DEF Lacking, Surplus, M
<1>5. CASE Unexplained(mine, list)
  <2>1. WantOf(mine, list) = {Hash[x] : x \in T} /\ GiveOf(mine, list) = M
    BY <1>2, <1>5 DEF WantOf, GiveOf, M
  <2>2. CASE \E x \in T : x \notin M
    BY <1>1, <2>1, <2>2 DEF Served, list
  <2>3. CASE \E x \in M : x \notin T
    BY <1>1, <2>1, <2>3 DEF list
  <2> QED BY <1>3, <2>2, <2>3
<1>6. CASE ~Unexplained(mine, list)
  <2>0. WantOf(mine, list) = Lacking(mine, list) /\ GiveOf(mine, list) = Surplus(mine, list)
    BY <1>6 DEF WantOf, GiveOf
  <2>1. CASE Lacking(mine, list) # {}
    <3>1. PICK t \in Lacking(mine, list) : TRUE
      BY <2>1
    <3>2. Copies(t, TruncatedBag(M)) < Copies(t, TruncatedBag(T))
      BY <1>2, <1>4, <3>1 DEF Copies
    <3>3. PICK x \in T \ M : Hash[x] = t
      BY <1>1, <3>2, FewerMeansLacking
    <3> QED BY <1>1, <2>0, <3>1, <3>3 DEF Served, list
  <2>2. CASE Surplus(mine, list) # {}
    <3>1. PICK y \in Surplus(mine, list) : TRUE
      BY <2>2
    <3>2. Copies(Hash[y], TruncatedBag(T)) < Copies(Hash[y], TruncatedBag(M))
      BY <1>2, <1>4, <3>1
    <3>3. PICK x \in M \ T : Hash[x] = Hash[y]
      BY <1>1, <3>2, FewerMeansLacking
    <3>4. x \in Surplus(mine, list)
      BY <1>4, <3>1, <3>3
    <3> QED BY <1>1, <2>0, <3>3, <3>4 DEF list
  <2>3. CASE Lacking(mine, list) = {} /\ Surplus(mine, list) = {}
    <3>1. T = {}
      BY <1>2, <1>6, <2>3 DEF Unexplained
    <3>2. PICK x \in M : x \notin T
      BY <1>3, <3>1
    <3>3. Copies(Hash[x], TruncatedBag(T)) = 0
      BY <1>2, <3>1 DEF Copies
    <3>4. ~(0 < Copies(Hash[x], TruncatedBag(M)))
      BY <1>2, <1>4, <2>3, <3>2, <3>3
    <3>5. /\ Copies(Hash[x], TruncatedBag(M)) = Cardinality({y \in M : Hash[y] = Hash[x]})
          /\ {y \in M : Hash[y] = Hash[x]} \in SUBSET Id
      BY <1>1, CopiesCount
    <3>6. IsFiniteSet({y \in M : Hash[y] = Hash[x]})
      BY <3>5, IdsAreFinite
    <3>7. Cardinality({y \in M : Hash[y] = Hash[x]}) \in Nat \ {0}
      BY <3>2, <3>6, FS_CardinalityType, FS_EmptySet
    <3> QED BY <3>4, <3>5, <3>7
  <2> QED BY <2>1, <2>2, <2>3
<1> QED BY <1>5, <1>6

(* Where no two ids share a truncated id, the exchange over a listed range  *)
(* is exact: what is asked for and what is given is what the other lacks,   *)
(* and not one id more (anti-entropy.ts 374-409).                           *)
THEOREM ExactlyTheDifference ==
  ASSUME \A x, y \in Id : Hash[x] = Hash[y] => x = y,
         NEW mine \in SUBSET Id, NEW theirs \in SUBSET Id, NEW prefix \in Prefix,
         IdsWithPrefix(mine, prefix) # IdsWithPrefix(theirs, prefix)
  PROVE  /\ Served(theirs, WantOf(mine, IdList(theirs, prefix)))
               = IdsWithPrefix(theirs, prefix) \ mine
         /\ GiveOf(mine, IdList(theirs, prefix)) = IdsWithPrefix(mine, prefix) \ theirs
<1> DEFINE M    == IdsWithPrefix(mine, prefix)
           T    == IdsWithPrefix(theirs, prefix)
           list == IdList(theirs, prefix)
<1>1. /\ M \in SUBSET mine /\ T \in SUBSET theirs
      /\ M \in SUBSET Id /\ T \in SUBSET Id
      /\ M \cap theirs \subseteq T /\ T \cap mine \subseteq M
      /\ M # T
  BY DEF IdsWithPrefix
<1>2. /\ list.prefix = prefix /\ list.ids = TruncatedBag(T)
      /\ DOMAIN list.ids = {Hash[x] : x \in T}
  BY DEF IdList, TruncatedBag
<1>3. GiveOf(mine, list) = IF Unexplained(mine, list) THEN M ELSE Surplus(mine, list)
  BY <1>2 DEF GiveOf
<1>4. Surplus(mine, list) = {x \in M : Copies(Hash[x], list.ids) < Copies(Hash[x], TruncatedBag(M))}
  BY <1>2 DEF Surplus
<1>5. Lacking(mine, list) = {t \in DOMAIN list.ids : Copies(t, TruncatedBag(M)) < list.ids[t]}
  BY <1>2 DEF Lacking
<1> HIDE DEF M, T, list
<1>6. \A x \in Id : /\ Copies(Hash[x], TruncatedBag(M)) = IF x \in M THEN 1 ELSE 0
                    /\ Copies(Hash[x], TruncatedBag(T)) = IF x \in T THEN 1 ELSE 0
  BY <1>1, CountOfAlone
<1>7. \A x \in T : list.ids[Hash[x]] = 1
  BY <1>1, <1>2, <1>6 DEF Copies
<1>8. Surplus(mine, list) = M \ T
  BY <1>1, <1>2, <1>4, <1>6
<1>9. Lacking(mine, list) = {Hash[x] : x \in T \ M}
  BY <1>1, <1>2, <1>5, <1>6, <1>7
<1>10. ~Unexplained(mine, list)
  <2>1. PICK x : x \in T \ M \/ x \in M \ T
    BY <1>1
  <2>2. x \in T \ M => Hash[x] \in Lacking(mine, list)
    BY <1>9
  <2>3. x \in M \ T => x \in Surplus(mine, list)
    BY <1>8
  <2> QED BY <2>1, <2>2, <2>3 DEF Unexplained
<1>11. Served(theirs, Lacking(mine, list)) = T \ M
  BY <1>1, <1>9 DEF Served
<1>12. T \ M = T \ mine /\ M \ T = M \ theirs
  BY <1>1
<1>13. WantOf(mine, list) = Lacking(mine, list)
  BY <1>10 DEF WantOf
<1>14. /\ Served(theirs, WantOf(mine, list)) = T \ mine
       /\ GiveOf(mine, list) = M \ theirs
  BY <1>3, <1>8, <1>10, <1>11, <1>12, <1>13
<1> QED BY <1>14, Zenon DEF M, T, list
=============================================================================
