-------------------------- MODULE RecordStoreProofs --------------------------
(* The view of a store, for any number of records, scouts, robots and devices *)
(* and any revisions: every scout is heard once, by a record that nobody      *)
(* else's can move.  And the bridge that seals scanned forms, for any         *)
(* profiles and payloads: what it files where, and what it remembers.  And    *)
(* the encoding that gives a record its one id: that its heads, its leaves    *)
(* and the order of its keys have one form each, and are read as written.     *)
EXTENDS RecordStore, FormBridge, CborLeaf, FiniteSetTheorems, SequenceTheorems,
        WellFoundedInduction, TLAPS

\* What a store holds of one scout about one robot in one match.
Own(S, o, s) == {r \in S : r.obs = o /\ r.scout = s}

\* A pointer leads to a record that exists, and one between two records of a
\* scout about one robot leads to a smaller revision.
Pointers ==
  /\ \A a \in sealed : a.supersedes # None => \E b \in sealed : b.id = a.supersedes
  /\ \A a, b \in sealed :
       a.supersedes = b.id /\ a.scout = b.scout /\ a.obs = b.obs => a.revision > b.revision

\* k is the last of the records in S.
IsLast(k, S) == k \in S /\ \A r \in S \ {k} : Later(k, r)

\* Whoever has records in a store has a last one among them.
HaveLast ==
  \A d \in Device, o \in Observation, s \in Scout :
     Own(held[d], o, s) # {} => \E k \in Own(held[d], o, s) : IsLast(k, Own(held[d], o, s))

ViewInv == TypeOK /\ Pointers /\ HaveLast

-----------------------------------------------------------------------------
(* The order of records.                                                     *)

LEMMA LaterIsOrder ==
  /\ \A a, b \in Record : a.id # b.id => Later(a, b) \/ Later(b, a)
  /\ \A a, b, c \in Record : Later(a, b) /\ Later(b, c) => Later(a, c)
  /\ \A a, b \in Record : ~(Later(a, b) /\ Later(b, a))
<1>1. ASSUME NEW a \in Record PROVE a.id \in Nat /\ a.revision \in Nat
  <2>1. a.id \in RecordId /\ a.revision \in 0 .. REVISION_MAX
    BY DEF Record
  <2>2. a.id \in Nat
    BY <2>1, RecordIdAssumption
  <2>3. a.revision \in Nat
    BY <2>1
  <2>4. QED BY <2>2, <2>3
<1>2. QED BY <1>1 DEF Later

\* The record that Latest chooses is the last one, if there is one.
LEMMA LatestIsLast ==
  ASSUME NEW S \in SUBSET Record, NEW k, IsLast(k, S)
  PROVE  Latest(S) = k
<1>1. ASSUME NEW r \in S, \A s \in S \ {r} : Later(r, s) PROVE r = k
  BY <1>1, LaterIsOrder DEF IsLast
<1>2. QED
  BY <1>1 DEF Latest, IsLast

-----------------------------------------------------------------------------
(* The inductive invariant.                                                  *)

LEMMA ViewInit == Init => ViewInv
BY DEF Init, ViewInv, TypeOK, Pointers, HaveLast, Own

\* Every sealed record is of the type, of an id of its own, and points back.
LEMMA SealKeeps ==
  ASSUME ViewInv, NEW r \in Record, SealRecord(r),
         r.supersedes # None => \E t \in sealed :
            /\ t.id = r.supersedes
            /\ r.scout = t.scout /\ r.obs = t.obs => r.revision > t.revision
  PROVE  ViewInv'
<1>1. TypeOK'
  BY DEF ViewInv, TypeOK, SealRecord
<1>2. Pointers'
  <2>1. \A a \in sealed : a.supersedes # r.id
    BY RecordIdAssumption DEF ViewInv, Pointers, SealRecord, Record, None
  <2>2. r.supersedes # r.id
    BY RecordIdAssumption DEF SealRecord, Record, None
  <2>3. \A b \in sealed : r.supersedes = b.id /\ r.scout = b.scout /\ r.obs = b.obs
                            => r.revision > b.revision
    BY RecordIdAssumption DEF ViewInv, TypeOK, Record, None
  <2>4. QED
    BY <2>1, <2>2, <2>3 DEF ViewInv, Pointers, SealRecord
<1>3. HaveLast'
  BY DEF ViewInv, HaveLast, Own, SealRecord
<1>4. QED
  BY <1>1, <1>2, <1>3 DEF ViewInv

\* The record that comes is the last of its scout's, or the old last one stays.
LEMMA AdmitKeeps ==
  ASSUME ViewInv, NEW d \in Device, NEW r \in sealed, Admit(d, r)
  PROVE  ViewInv'
<1>1. TypeOK' /\ Pointers'
  BY DEF ViewInv, TypeOK, Pointers, Admit
<1>2. ASSUME NEW e \in Device, NEW o \in Observation, NEW s \in Scout,
             Own(held'[e], o, s) # {}
      PROVE  \E k \in Own(held'[e], o, s) : IsLast(k, Own(held'[e], o, s))
  <2>1. held[e] \in SUBSET Record /\ held'[e] \in SUBSET Record
    BY <1>1 DEF ViewInv, TypeOK, Admit
  <2>2. \A a, b \in held'[e] : a # b => a.id # b.id
    BY <1>1, <2>1 DEF TypeOK
  <2>3. CASE Own(held'[e], o, s) = Own(held[e], o, s)
    BY <1>2, <2>3 DEF ViewInv, HaveLast
  <2>4. CASE Own(held'[e], o, s) # Own(held[e], o, s)
    <3>1. Own(held'[e], o, s) = Own(held[e], o, s) \cup {r}
      BY <2>4 DEF Own, Admit, ViewInv, TypeOK
    <3>2. CASE Own(held[e], o, s) = {}
      BY <3>1, <3>2 DEF IsLast
    <3>3. CASE Own(held[e], o, s) # {}
      <4>1. PICK k \in Own(held[e], o, s) : IsLast(k, Own(held[e], o, s))
        BY <3>3 DEF ViewInv, HaveLast
      <4>2. k \in held'[e] /\ r \in held'[e]
        BY <3>1, <4>1 DEF Own
      <4>3. CASE Later(r, k)
        <5>1. IsLast(r, Own(held'[e], o, s))
          BY <2>1, <3>1, <4>1, <4>2, <4>3, LaterIsOrder DEF IsLast, Own
        <5>2. QED BY <5>1 DEF IsLast
      <4>4. CASE ~Later(r, k)
        <5>1. r = k \/ Later(k, r)
          BY <2>1, <2>2, <4>2, <4>4, LaterIsOrder
        <5>2. IsLast(k, Own(held'[e], o, s))
          BY <3>1, <4>1, <5>1 DEF IsLast
        <5>3. QED BY <5>2 DEF IsLast
      <4>5. QED BY <4>3, <4>4
    <3>4. QED BY <3>2, <3>3
  <2>5. QED BY <2>3, <2>4
<1>3. QED
  BY <1>1, <1>2 DEF ViewInv, HaveLast

LEMMA ViewStep == ViewInv /\ [Next]_vars => ViewInv'
<1> SUFFICES ASSUME ViewInv, [Next]_vars PROVE ViewInv'
  OBVIOUS
<1>1. ASSUME NEW id \in RecordId, NEW o \in Observation, NEW s \in Scout, NEW b \in Body,
             Observe(id, o, s, b)
      PROVE  ViewInv'
  <2> DEFINE r == [id |-> id, obs |-> o, scout |-> s, body |-> b,
                   revision |-> 0, supersedes |-> None]
  <2>1. r \in Record /\ r.supersedes = None
    BY RevisionAssumption DEF Record
  <2>2. QED BY <1>1, <2>1, SealKeeps DEF Observe
<1>2. ASSUME NEW id \in RecordId, NEW p \in sealed, NEW b \in Body, Correct(id, p, b)
      PROVE  ViewInv'
  <2> DEFINE r == Correction(id, p, b)
  <2>1. p \in Record
    BY DEF ViewInv, TypeOK
  <2>2. r.revision = p.revision + 1 /\ r.supersedes = p.id
    BY <2>1 DEF Correction, Record
  <2>3. r \in Record
    <3>1. r.revision \in 0 .. REVISION_MAX
      BY <1>2 DEF Correct, SealRecord, ValidRevision
    <3>2. p.revision + 1 \in 0 .. REVISION_MAX
      BY <2>2, <3>1
    <3>3. QED BY <2>1, <3>2 DEF Correction, Record
  <2>4. r.revision > p.revision
    BY <2>1, <2>2, RevisionAssumption DEF Record
  <2>5. QED BY <1>2, <2>2, <2>3, <2>4, SealKeeps DEF Correct
<1>3. ASSUME NEW id \in RecordId, NEW o \in Observation, NEW s \in Scout, NEW b \in Body,
             NEW n \in 1 .. REVISION_MAX, NEW t \in sealed, PointElsewhere(id, o, s, b, n, t)
      PROVE  ViewInv'
  <2> DEFINE r == [id |-> id, obs |-> o, scout |-> s, body |-> b,
                   revision |-> n, supersedes |-> t.id]
  <2>1. r \in Record
    BY RevisionAssumption DEF ViewInv, TypeOK, Record
  <2>2. ~(r.scout = t.scout /\ r.obs = t.obs)
    BY <1>3 DEF PointElsewhere
  <2>3. QED BY <1>3, <2>1, <2>2, SealKeeps DEF PointElsewhere
<1>4. ASSUME NEW d \in Device, NEW r \in sealed, Admit(d, r) PROVE ViewInv'
  BY <1>4, AdmitKeeps
<1>5. CASE UNCHANGED vars
  <2>1. sealed' = sealed /\ held' = held
    BY <1>5 DEF vars
  <2>2. TypeOK' /\ Pointers'
    BY <2>1 DEF ViewInv, TypeOK, Pointers
  <2>3. HaveLast'
    BY <2>1 DEF ViewInv, HaveLast
  <2>4. QED BY <2>2, <2>3 DEF ViewInv
<1>6. QED
  BY <1>1, <1>2, <1>3, <1>4, <1>5 DEF Next

LEMMA ViewIsSound == Spec => []ViewInv
BY ViewInit, ViewStep, PTL DEF Spec

\* Ids identify records, a store holds sealed records, and pointers have their
\* types, whatever is sealed and admitted in whatever order (record.ts:158).
THEOREM TypeCorrect == Spec => []TypeOK
BY ViewIsSound, PTL DEF ViewInv

-----------------------------------------------------------------------------
(* The view.                                                                 *)

\* Who counts for a scout depends on that scout's records alone.
LEMMA RivalsAreOwn ==
  ASSUME NEW S, NEW o, NEW s
  PROVE  Rivals(S, o, s) =
           {r \in Own(S, o, s) : ~\E t \in Own(S, o, s) : t.supersedes = r.id}
BY DEF Rivals, ForObservation, Superseded, Own

\* A scout's last record is not superseded, so it is the one that speaks.
LEMMA LastSpeaks ==
  ASSUME ViewInv, NEW d \in Device, NEW o \in Observation, NEW s \in Scout,
         NEW k, IsLast(k, Own(held[d], o, s))
  PROVE  Rivals(held[d], o, s) # {} /\ Latest(Rivals(held[d], o, s)) = k
<1>1. held[d] \in SUBSET Record /\ held[d] \subseteq sealed
  BY DEF ViewInv, TypeOK
<1>2. ASSUME NEW t \in Own(held[d], o, s), t.supersedes = k.id PROVE FALSE
  <2>1. t.revision > k.revision
    BY <1>1, <1>2 DEF ViewInv, Pointers, IsLast, Own
  <2>2. t # k => k.revision >= t.revision
    BY <1>1, RevisionAssumption DEF IsLast, Own, Later, Record
  <2>3. QED BY <1>1, <2>1, <2>2, RevisionAssumption DEF IsLast, Own, Record
<1>3. IsLast(k, Rivals(held[d], o, s))
  BY <1>2, RivalsAreOwn DEF IsLast
<1>4. Rivals(held[d], o, s) \in SUBSET Record
  BY <1>1, RivalsAreOwn DEF Own
<1>5. QED BY <1>3, <1>4, LatestIsLast DEF IsLast

\* What a scout is heard by, if by anything.
LEMMA VoiceIsLatest ==
  ASSUME ViewInv, NEW d \in Device, NEW o \in Observation, NEW s \in Scout
  PROVE  Voice(held[d], o, s) =
           IF Own(held[d], o, s) = {} THEN {} ELSE {Latest(Rivals(held[d], o, s))}
<1>1. ASSUME NEW t \in Scout, Rivals(held[d], o, t) # {}
      PROVE  Latest(Rivals(held[d], o, t)).scout = t
  <2>1. PICK k \in Own(held[d], o, t) : IsLast(k, Own(held[d], o, t))
    BY <1>1, RivalsAreOwn DEF ViewInv, HaveLast
  <2>2. Latest(Rivals(held[d], o, t)) = k
    BY <2>1, LastSpeaks
  <2>3. QED BY <2>1, <2>2 DEF Own
<1>2. Rivals(held[d], o, s) = {} <=> Own(held[d], o, s) = {}
  <2>1. ASSUME Own(held[d], o, s) # {} PROVE Rivals(held[d], o, s) # {}
    BY <2>1, LastSpeaks DEF ViewInv, HaveLast
  <2>2. QED BY <2>1, RivalsAreOwn
<1>3. QED
  BY <1>1, <1>2 DEF Voice, CurrentForObservation

\* Nobody who has a record in a store is left out of its view or in it twice.
THEOREM EveryScoutHeardOnce == Spec => []EveryScoutSpeaksOnce
<1>1. ViewInv => EveryScoutSpeaksOnce
  <2> SUFFICES ASSUME ViewInv, NEW d \in Device, NEW o \in Observation, NEW s \in Scout
               PROVE  Cardinality({r \in CurrentForObservation(held[d], o) : r.scout = s}) =
                        (IF \E r \in held[d] : r.obs = o /\ r.scout = s THEN 1 ELSE 0)
    BY DEF EveryScoutSpeaksOnce
  <2>1. (\E r \in held[d] : r.obs = o /\ r.scout = s) <=> Own(held[d], o, s) # {}
    BY DEF Own
  <2>2. Own(held[d], o, s) = {} => Cardinality(Voice(held[d], o, s)) = 0
    BY VoiceIsLatest, FS_EmptySet
  <2>3. ASSUME Own(held[d], o, s) # {} PROVE Cardinality(Voice(held[d], o, s)) = 1
    <3>1. Voice(held[d], o, s) = {Latest(Rivals(held[d], o, s))}
      BY <2>3, VoiceIsLatest
    <3>2. QED BY <3>1, FS_Singleton
  <2>4. QED BY <2>1, <2>2, <2>3 DEF Voice
<1>2. QED BY <1>1, ViewIsSound, PTL

\* What others seal, and what arrives about other robots, cannot move the record
\* a scout is heard by (store.ts:172).
THEOREM VoiceIsOnesOwn == Spec => OnlyOwnRecordsMoveAVoice
<1> DEFINE Voices ==
      \A d \in Device, o \in Observation, s \in Scout :
         Voice(held[d], o, s) =
           IF Own(held[d], o, s) = {} THEN {} ELSE {Latest(Rivals(held[d], o, s))}
<1>0. ViewInv => Voices
  BY VoiceIsLatest
<1>1. ASSUME ViewInv, Voices, Voices', Next, NEW d \in Device, NEW o \in Observation, NEW s \in Scout,
             Voice(held[d], o, s) # Voice(held'[d], o, s)
      PROVE  \E r \in held'[d] \ held[d] : r.obs = o /\ r.scout = s
  <2>1. held[d] \subseteq held'[d]
    <3>1. held \in [Device -> SUBSET sealed]
      BY <1>1 DEF ViewInv, TypeOK
    <3>2. held' = held \/ \E e \in Device : \E r \in sealed : Admit(e, r)
      <4>1. \A r : SealRecord(r) => held' = held
        BY DEF SealRecord
      <4>2. \A id, obs, scout, body : Observe(id, obs, scout, body) => held' = held
        BY <4>1 DEF Observe
      <4>3. \A id, r, body : Correct(id, r, body) => held' = held
        BY <4>1 DEF Correct
      <4>4. \A id, obs, scout, body, n, t : PointElsewhere(id, obs, scout, body, n, t) => held' = held
        BY <4>1 DEF PointElsewhere
      <4>5. QED BY <1>1, <4>2, <4>3, <4>4, Zenon DEF Next
    <3>3. QED BY <3>1, <3>2 DEF Admit
  <2>2. Own(held[d], o, s) # Own(held'[d], o, s)
    <3>1. ASSUME Own(held[d], o, s) = Own(held'[d], o, s)
          PROVE  Rivals(held[d], o, s) = Rivals(held'[d], o, s)
      BY <3>1, RivalsAreOwn
    <3>2. Voice(held[d], o, s) =
            IF Own(held[d], o, s) = {} THEN {} ELSE {Latest(Rivals(held[d], o, s))}
      BY <1>1
    <3>3. Voice(held'[d], o, s) =
            IF Own(held'[d], o, s) = {} THEN {} ELSE {Latest(Rivals(held'[d], o, s))}
      BY <1>1
    <3>4. QED BY <1>1, <3>1, <3>2, <3>3
  <2>3. QED BY <2>1, <2>2 DEF Own
<1>2. ViewInv /\ Voices /\ Voices' /\ [Next]_vars =>
        [\A d \in Device, o \in Observation, s \in Scout :
           Voice(held[d], o, s) # Voice(held'[d], o, s) =>
             \E r \in held'[d] \ held[d] : r.obs = o /\ r.scout = s]_vars
  BY <1>1
<1>3. QED
  BY <1>0, <1>2, ViewIsSound, PTL DEF Spec, OnlyOwnRecordsMoveAVoice

-----------------------------------------------------------------------------
(* Corrections.                                                              *)

\* A correction, through whatever lies in between, is by the same scout, about
\* the same robot, and of a larger revision.
LEMMA CorrectionIsLater ==
  ASSUME ViewInv, NEW a \in sealed, NEW b, Supersedes(a, b)
  PROVE  b \in sealed /\ a.scout = b.scout /\ a.obs = b.obs /\ a.revision > b.revision
<1> DEFINE S == {y \in sealed : a.scout = y.scout /\ a.obs = y.obs /\ a.revision > y.revision}
<1>1. \A x \in sealed : x.revision \in Nat
  <2>1. \A x \in sealed : x.revision \in 0 .. REVISION_MAX
    BY DEF ViewInv, TypeOK, Record
  <2>2. QED BY <2>1
<1>2. ASSUME NEW x \in S \cup {a}, NEW y \in sealed, Corrects(x, y) PROVE y \in S
  BY <1>1, <1>2 DEF Corrects, ViewInv, Pointers
<1>3. b \in S
  BY <1>2 DEF Supersedes
<1>4. QED BY <1>3

\* A record is never current in a store that also holds a later correction of it,
\* even when the corrections in between have not arrived (store.ts:166).
THEOREM CorrectionsAlwaysStick == Spec => []CorrectionsStick
<1>1. ASSUME ViewInv, NEW d \in Device, NEW r \in CurrentRecords(held[d]), NEW a \in held[d],
             Supersedes(a, r)
      PROVE  FALSE
  <2>1. PICK o \in Observation, s \in Scout :
          Rivals(held[d], o, s) # {} /\ r = Latest(Rivals(held[d], o, s))
    BY DEF CurrentRecords, CurrentForObservation
  <2>2. PICK k \in Own(held[d], o, s) : IsLast(k, Own(held[d], o, s))
    BY <1>1, <2>1, RivalsAreOwn DEF ViewInv, HaveLast
  <2>3. r = k
    BY <1>1, <2>1, <2>2, LastSpeaks
  <2>4. held[d] \in SUBSET sealed
    BY <1>1 DEF ViewInv, TypeOK
  <2>5. a.scout = r.scout /\ a.obs = r.obs /\ a.revision > r.revision
    BY <1>1, <2>4, CorrectionIsLater
  <2>6. a \in Own(held[d], o, s)
    BY <2>2, <2>3, <2>5 DEF Own
  <2>7. a = k \/ k.revision > a.revision \/ k.revision = a.revision
    BY <2>2, <2>6 DEF IsLast, Later
  <2>8. a.revision \in 0 .. REVISION_MAX /\ r.revision \in 0 .. REVISION_MAX
    BY <1>1, <2>2, <2>3, <2>4 DEF ViewInv, TypeOK, Own, Record
  <2>9. QED BY <2>3, <2>5, <2>7, <2>8
<1>2. ViewInv => CorrectionsStick
  BY <1>1 DEF CorrectionsStick
<1>3. QED BY <1>2, ViewIsSound, PTL

\* When the view hides a record, a correction of it is held, what is kept says the
\* same, or the conflict is reported (store.ts:242).
THEOREM NoChoiceIsSilent == Spec => []NoSilentChoice
<1>1. ASSUME ViewInv, NEW d \in Device, NEW r \in held[d],
             ~\E a \in held[d] : Supersedes(a, r),
             ~\E k \in Voice(held[d], r.obs, r.scout) : k.body = r.body,
             ~\E c \in Conflicts(held[d]) : r \in c.dropped
      PROVE  r \in CurrentRecords(held[d])
  <2> DEFINE o == r.obs
             s == r.scout
             kept == Latest(Rivals(held[d], o, s))
  <2>1. held[d] \in SUBSET sealed /\ r \in Record
    BY <1>1 DEF ViewInv, TypeOK
  <2>2. o \in Observation /\ s \in Scout /\ r \in Own(held[d], o, s)
    BY <2>1 DEF Record, Own
  <2>3. r \in Rivals(held[d], o, s)
    <3>1. ASSUME NEW t \in Own(held[d], o, s), t.supersedes = r.id PROVE FALSE
      <4>1. Corrects(t, r)
        BY <3>1 DEF Own, Corrects
      <4>2. Supersedes(t, r)
        BY <2>1, <4>1 DEF Supersedes
      <4>3. QED BY <1>1, <4>2 DEF Own
    <3>2. QED BY <2>2, <3>1, RivalsAreOwn
  <2>4. Voice(held[d], o, s) = {kept}
    BY <1>1, <2>2, VoiceIsLatest
  <2>5. r.body = kept.body
    <3>1. Conflict(held[d], o, s) \in AllConflicts(held[d])
      <4> DEFINE p == <<o, s>>
      <4>1. p \in {q \in Observation \X Scout : Rivals(held[d], q[1], q[2]) # {}}
        BY <2>2, <2>3
      <4>2. Conflict(held[d], p[1], p[2]) = Conflict(held[d], o, s)
        OBVIOUS
      <4>3. Conflict(held[d], p[1], p[2]) \in AllConflicts(held[d])
        BY <4>1 DEF AllConflicts
      <4>4. QED BY <4>2, <4>3
    <3>2. ASSUME r.body # kept.body PROVE r \in Conflict(held[d], o, s).dropped
      BY <2>3, <3>2 DEF Conflict
    <3>3. QED BY <1>1, <3>1, <3>2 DEF Conflicts
  <2>6. QED BY <1>1, <2>4, <2>5
<1>2. ViewInv => NoSilentChoice
  BY <1>1 DEF NoSilentChoice
<1>3. QED BY <1>2, ViewIsSound, PTL
-----------------------------------------------------------------------------
(* The form bridge.                                                          *)

\* What the suppressor remembers stands sealed, and no refusal is among it.
LEMMA RememberedInit == Bridge!Init => RefusedCanComeBack
BY DEF Bridge!Init, RefusedCanComeBack, Bridge!RefusedCanComeBack

LEMMA RememberedStep ==
  ASSUME RefusedCanComeBack, [Bridge!Next]_(Bridge!vars)
  PROVE  RefusedCanComeBack'
<1> USE DEF RefusedCanComeBack, Bridge!RefusedCanComeBack
<1>1. CASE UNCHANGED Bridge!vars
  BY <1>1 DEF Bridge!vars
<1>2. ASSUME NEW p \in Payload, Bridge!Seal(p)
      PROVE  RefusedCanComeBack'
  <2>1. PICK f \in Bridge!DetectProfile(p), id \in (1..MaxRecords) \ Bridge!Ids :
          envelopes' = envelopes \cup {Bridge!RecordOf(p, f, id)}
    BY <1>2 DEF Bridge!Seal
  <2>2. Bridge!RecordOf(p, f, id).body = p
    BY DEF Bridge!RecordOf
  <2> QED BY <1>2, <2>1, <2>2 DEF Bridge!Seal
<1>3. ASSUME NEW p \in Payload, Bridge!Refuse(p)
      PROVE  RefusedCanComeBack'
  BY <1>3 DEF Bridge!Refuse
<1>4. CASE Bridge!Save \/ Bridge!Crash
  BY <1>4 DEF Bridge!Save, Bridge!Crash
<1>5. ASSUME NEW f \in Profile, Bridge!Edit(f)
      PROVE  RefusedCanComeBack'
  BY <1>5 DEF Bridge!Edit
<1> QED BY <1>1, <1>2, <1>3, <1>4, <1>5 DEF Bridge!Next

\* A refused payload can be scanned again: the suppressor remembers what stands
\* sealed in this session and nothing else (ingest.ts:221).
THEOREM RefusalsAreForgotten == Bridge!Spec => []RefusedCanComeBack
BY RememberedInit, RememberedStep, PTL DEF Bridge!Spec

\* If the one profile that fits is taken and that of the payload's own app is
\* there, it is that one.
LEMMA OneFits ==
  ASSUME NEW p \in Payload, NEW f \in Bridge!DetectProfile(p), App[p] \in active
  PROVE  f = App[p]
<1>1. App[p] \in Bridge!MatchingProfiles(p)
  BY ReadingAssumption DEF Bridge!PayloadAssumption, Bridge!MatchingProfiles
<1> QED BY <1>1 DEF Bridge!DetectProfile

LEMMA SealsUnderOwn ==
  ASSUME Bridge!Next, NEW r \in envelopes' \ envelopes, App[r.body] \in active
  PROVE  /\ r.profile = App[r.body]
         /\ Reading[r.body][App[r.body]].event \in {"absent", "ours"}
<1>1. PICK p \in Payload : Bridge!Seal(p)
  BY DEF Bridge!Next, Bridge!Refuse, Bridge!Save, Bridge!Crash, Bridge!Edit
<1>2. PICK f \in Bridge!DetectProfile(p), id \in (1..MaxRecords) \ Bridge!Ids :
        Bridge!Acceptable(Reading[p][f]) /\ envelopes' = envelopes \cup {Bridge!RecordOf(p, f, id)}
  BY <1>1 DEF Bridge!Seal
<1>3. r.body = p /\ r.profile = f
  BY <1>2 DEF Bridge!RecordOf
<1>4. f = App[p]
  BY <1>3, OneFits
<1> QED BY <1>2, <1>3, <1>4 DEF Bridge!Acceptable

\* While its own profile is active a payload is filed under no other, and never
\* under another event (profiles.ts:214, ingest.ts:151).
THEOREM FiledUnderItsOwn == Bridge!Spec => NeverMisrouted
<1>1. [Bridge!Next]_(Bridge!vars) =>
        [\A r \in envelopes' \ envelopes : App[r.body] \in active =>
           /\ r.profile = App[r.body]
           /\ Reading[r.body][App[r.body]].event \in {"absent", "ours"}]_(Bridge!vars)
  BY SealsUnderOwn
<1> QED BY <1>1, PTL DEF Bridge!Spec, NeverMisrouted, Bridge!NeverMisrouted

-----------------------------------------------------------------------------
(* The numbers of heads and their digits, in CborLeaf: a number of twice as   *)
(* many digits is its two halves.                                            *)

\* A number below M * M is its upper part and its lower part, and the other
\* way round.
LEMMA Taken ==
  ASSUME NEW M \in Nat, M > 0, NEW n \in 0..(M * M - 1)
  PROVE  n \div M \in 0..(M - 1) /\ n % M \in 0..(M - 1) /\ n = (n \div M) * M + (n % M)
<1>1. n \in Nat /\ n < M * M
  OBVIOUS
<1>2. n \div M \in Nat /\ n % M \in 0..(M - 1) /\ n = (n \div M) * M + (n % M)
  BY <1>1
<1>3. n \div M < M
  BY <1>1
<1>4. QED BY <1>2, <1>3

LEMMA PutTogether ==
  ASSUME NEW M \in Nat, M > 0, NEW a \in 0..(M - 1), NEW r \in 0..(M - 1)
  PROVE  a * M + r \in 0..(M * M - 1) /\ (a * M + r) \div M = a /\ (a * M + r) % M = r
<1>1. a * M \in Nat /\ a * M <= (M - 1) * M /\ (M - 1) * M = M * M - M
  OBVIOUS
<1>2. a * M + r \in 0..(M * M - 1)
  BY <1>1
<1>3. a \in Nat
  OBVIOUS
<1>4. (a * M + r) \div M = a /\ (a * M + r) % M = r
  BY <1>3
<1>5. QED BY <1>2, <1>4

LEMMA Sizes ==
  /\ Inline \in Nat /\ Info \in Nat /\ Byte \in Nat /\ Byte2 \in Nat /\ Byte4 \in Nat
  /\ 4 <= Inline /\ Inline < Info /\ Info < Byte /\ Byte < Byte2 /\ Byte2 < Byte4
<1>1. Inline \in Nat /\ Info \in Nat /\ Byte \in Nat /\ 4 <= Inline /\ Inline < Info /\ Info < Byte
  BY InlineAssumption DEF InlineAssumption, Info, Byte
<1>2. \A n \in Nat : n > 1 => n * n \in Nat /\ n < n * n
  OBVIOUS
<1>3. Byte2 \in Nat /\ Byte < Byte2
  BY <1>1, <1>2 DEF Byte2
<1>4. Byte4 \in Nat /\ Byte2 < Byte4
  BY <1>1, <1>2, <1>3 DEF Byte4
<1>5. QED BY <1>1, <1>3, <1>4

\* Two digits: a number below Byte2 and its digits determine each other.
LEMMA Two ==
  /\ \A n \in 0..(Byte2 - 1) : /\ Digits2(n) \in Seq(Bytes) /\ Len(Digits2(n)) = 2
                               /\ Number2(Digits2(n)) = n
  /\ \A d \in Seq(Bytes) : Len(d) = 2 => Number2(d) \in 0..(Byte2 - 1) /\ Digits2(Number2(d)) = d
<1>1. ASSUME NEW n \in 0..(Byte2 - 1)
      PROVE  Digits2(n) \in Seq(Bytes) /\ Len(Digits2(n)) = 2 /\ Number2(Digits2(n)) = n
  <2>1. n \div Byte \in Bytes /\ n % Byte \in Bytes /\ n = (n \div Byte) * Byte + (n % Byte)
    BY Taken, Sizes DEF Byte2, Bytes
  <2>2. QED BY <2>1 DEF Digits2, Number2
<1>2. ASSUME NEW d \in Seq(Bytes), Len(d) = 2
      PROVE  Number2(d) \in 0..(Byte2 - 1) /\ Digits2(Number2(d)) = d
  <2>1. d[1] \in Bytes /\ d[2] \in Bytes /\ d = <<d[1], d[2]>>
    BY <1>2, ElementOfSeq
  <2>2. d[1] \in 0..(Byte - 1) /\ d[2] \in 0..(Byte - 1)
    BY <2>1 DEF Bytes
  <2>3. /\ Number2(d) \in 0..(Byte2 - 1)
        /\ Number2(d) \div Byte = d[1] /\ Number2(d) % Byte = d[2]
    <3>1. \A a, r \in 0..(Byte - 1) : /\ a * Byte + r \in 0..(Byte * Byte - 1)
                                      /\ (a * Byte + r) \div Byte = a /\ (a * Byte + r) % Byte = r
      BY PutTogether, Sizes
    <3>2. QED BY <2>2, <3>1 DEF Number2, Byte2
  <2>4. QED BY <2>1, <2>3 DEF Digits2
<1>3. QED BY <1>1, <1>2

LEMMA Slice ==
  ASSUME NEW S, NEW d \in Seq(S), NEW m \in Nat, NEW n \in Nat, 1 <= m, m <= n + 1, n <= Len(d)
  PROVE  /\ SubSeq(d, m, n) \in Seq(S)
         /\ Len(SubSeq(d, m, n)) = n - m + 1
         /\ \A i \in 1..(n - m + 1) : SubSeq(d, m, n)[i] = d[m + i - 1]
<1>1. \A i \in m..n : d[i] \in S
  BY LenProperties
<1>2. /\ SubSeq(d, m, n) \in Seq(S)
      /\ Len(SubSeq(d, m, n)) = IF m <= n THEN n - m + 1 ELSE 0
      /\ \A i \in 1..(n - m + 1) : SubSeq(d, m, n)[i] = d[m + i - 1]
  BY <1>1, SubSeqProperties
<1>3. Len(SubSeq(d, m, n)) = n - m + 1
  BY <1>2
<1>4. QED BY <1>2, <1>3

\* Two sequences of one length are the halves of their concatenation, and a
\* sequence is the concatenation of its halves: for 2 and 4 digits, and 4 and 8.
LEMMA Join2 ==
  ASSUME NEW d \in Seq(Bytes), NEW e \in Seq(Bytes), Len(d) = 2, Len(e) = 2
  PROVE  /\ d \o e \in Seq(Bytes) /\ Len(d \o e) = 4
         /\ Upper(d \o e) = d /\ Lower(d \o e) = e
<1>1. PICK w \in Nat, u \in Nat, v \in Nat : w = 2 /\ u = 3 /\ v = 4
  OBVIOUS
<1>2. /\ d \o e \in Seq(Bytes) /\ Len(d \o e) = v
      /\ SubSeq(d \o e, 1, w) = d /\ SubSeq(d \o e, u, v) = e
  <2>1. u = w + 1 /\ v = w + w /\ Len(d) = w /\ Len(e) = w
    BY <1>1
  <2>2. QED BY <2>1
<1>3. v \div 2 = w /\ v \div 2 + 1 = u
  BY <1>1
<1>4. Upper(d \o e) = d /\ Lower(d \o e) = e
  BY <1>2, <1>3 DEF Upper, Lower
<1>5. QED BY <1>1, <1>2, <1>4

LEMMA Join4 ==
  ASSUME NEW d \in Seq(Bytes), NEW e \in Seq(Bytes), Len(d) = 4, Len(e) = 4
  PROVE  /\ d \o e \in Seq(Bytes) /\ Len(d \o e) = 8
         /\ Upper(d \o e) = d /\ Lower(d \o e) = e
<1>1. PICK w \in Nat, u \in Nat, v \in Nat : w = 4 /\ u = 5 /\ v = 8
  OBVIOUS
<1>2. /\ d \o e \in Seq(Bytes) /\ Len(d \o e) = v
      /\ SubSeq(d \o e, 1, w) = d /\ SubSeq(d \o e, u, v) = e
  <2>1. u = w + 1 /\ v = w + w /\ Len(d) = w /\ Len(e) = w
    BY <1>1
  <2>2. QED BY <2>1
<1>3. v \div 2 = w /\ v \div 2 + 1 = u
  BY <1>1
<1>4. Upper(d \o e) = d /\ Lower(d \o e) = e
  BY <1>2, <1>3 DEF Upper, Lower
<1>5. QED BY <1>1, <1>2, <1>4

LEMMA Split4 ==
  ASSUME NEW d \in Seq(Bytes), Len(d) = 4
  PROVE  /\ Upper(d) \in Seq(Bytes) /\ Len(Upper(d)) = 2
         /\ Lower(d) \in Seq(Bytes) /\ Len(Lower(d)) = 2
         /\ Upper(d) \o Lower(d) = d
<1>1. PICK w \in Nat, u \in Nat, v \in Nat : w = 2 /\ u = 3 /\ v = 4
  OBVIOUS
<1>2. /\ SubSeq(d, 1, w) \in Seq(Bytes) /\ Len(SubSeq(d, 1, w)) = w
      /\ SubSeq(d, u, v) \in Seq(Bytes) /\ Len(SubSeq(d, u, v)) = w
      /\ SubSeq(d, 1, w) \o SubSeq(d, u, v) = d
  <2>1. u = w + 1 /\ v = w + w /\ Len(d) = v
    BY <1>1
  <2>2. /\ SubSeq(d, 1, w) \in Seq(Bytes) /\ Len(SubSeq(d, 1, w)) = w
        /\ \A i \in 1..w : SubSeq(d, 1, w)[i] = d[i]
    BY <2>1, Slice
  <2>3. /\ SubSeq(d, u, v) \in Seq(Bytes) /\ Len(SubSeq(d, u, v)) = w
        /\ \A i \in 1..w : SubSeq(d, u, v)[i] = d[w + i]
    BY <2>1, Slice
  <2>4. SubSeq(d, 1, w) \o SubSeq(d, u, v) = d
    BY <2>1, <2>2, <2>3
  <2>5. QED BY <2>2, <2>3, <2>4
<1>3. Len(d) = v /\ v \div 2 = w /\ v \div 2 + 1 = u
  BY <1>1
<1>4. Upper(d) = SubSeq(d, 1, w) /\ Lower(d) = SubSeq(d, u, v)
  BY <1>3 DEF Upper, Lower
<1>5. QED BY <1>1, <1>2, <1>4

LEMMA Split8 ==
  ASSUME NEW d \in Seq(Bytes), Len(d) = 8
  PROVE  /\ Upper(d) \in Seq(Bytes) /\ Len(Upper(d)) = 4
         /\ Lower(d) \in Seq(Bytes) /\ Len(Lower(d)) = 4
         /\ Upper(d) \o Lower(d) = d
<1>1. PICK w \in Nat, u \in Nat, v \in Nat : w = 4 /\ u = 5 /\ v = 8
  OBVIOUS
<1>2. /\ SubSeq(d, 1, w) \in Seq(Bytes) /\ Len(SubSeq(d, 1, w)) = w
      /\ SubSeq(d, u, v) \in Seq(Bytes) /\ Len(SubSeq(d, u, v)) = w
      /\ SubSeq(d, 1, w) \o SubSeq(d, u, v) = d
  <2>1. u = w + 1 /\ v = w + w /\ Len(d) = v
    BY <1>1
  <2>2. /\ SubSeq(d, 1, w) \in Seq(Bytes) /\ Len(SubSeq(d, 1, w)) = w
        /\ \A i \in 1..w : SubSeq(d, 1, w)[i] = d[i]
    BY <2>1, Slice
  <2>3. /\ SubSeq(d, u, v) \in Seq(Bytes) /\ Len(SubSeq(d, u, v)) = w
        /\ \A i \in 1..w : SubSeq(d, u, v)[i] = d[w + i]
    BY <2>1, Slice
  <2>4. SubSeq(d, 1, w) \o SubSeq(d, u, v) = d
    BY <2>1, <2>2, <2>3
  <2>5. QED BY <2>2, <2>3, <2>4
<1>3. Len(d) = v /\ v \div 2 = w /\ v \div 2 + 1 = u
  BY <1>1
<1>4. Upper(d) = SubSeq(d, 1, w) /\ Lower(d) = SubSeq(d, u, v)
  BY <1>3 DEF Upper, Lower
<1>5. QED BY <1>1, <1>2, <1>4

LEMMA Four ==
  /\ \A n \in 0..(Byte4 - 1) : /\ Digits4(n) \in Seq(Bytes) /\ Len(Digits4(n)) = 4
                               /\ Number4(Digits4(n)) = n
  /\ \A d \in Seq(Bytes) : Len(d) = 4 => Number4(d) \in 0..(Byte4 - 1) /\ Digits4(Number4(d)) = d
<1>1. ASSUME NEW n \in 0..(Byte4 - 1)
      PROVE  Digits4(n) \in Seq(Bytes) /\ Len(Digits4(n)) = 4 /\ Number4(Digits4(n)) = n
  <2>1. /\ n \div Byte2 \in 0..(Byte2 - 1) /\ n % Byte2 \in 0..(Byte2 - 1)
        /\ n = (n \div Byte2) * Byte2 + (n % Byte2)
    BY Taken, Sizes DEF Byte4
  <2>2. PICK d \in Seq(Bytes), e \in Seq(Bytes) :
           /\ d = Digits2(n \div Byte2) /\ Len(d) = 2 /\ Number2(d) = n \div Byte2
           /\ e = Digits2(n % Byte2) /\ Len(e) = 2 /\ Number2(e) = n % Byte2
    BY <2>1, Two
  <2>3. d \o e \in Seq(Bytes) /\ Len(d \o e) = 4 /\ Upper(d \o e) = d /\ Lower(d \o e) = e
    BY <2>2, Join2
  <2>4. QED BY <2>1, <2>2, <2>3 DEF Digits4, Number4
<1>2. ASSUME NEW d \in Seq(Bytes), Len(d) = 4
      PROVE  Number4(d) \in 0..(Byte4 - 1) /\ Digits4(Number4(d)) = d
  <2>1. PICK h \in Seq(Bytes), t \in Seq(Bytes) :
           h = Upper(d) /\ t = Lower(d) /\ Len(h) = 2 /\ Len(t) = 2 /\ h \o t = d
    BY <1>2, Split4
  <2>2. /\ Number2(h) \in 0..(Byte2 - 1) /\ Digits2(Number2(h)) = h
        /\ Number2(t) \in 0..(Byte2 - 1) /\ Digits2(Number2(t)) = t
    BY <2>1, Two
  <2>3. /\ Number4(d) \in 0..(Byte4 - 1)
        /\ Number4(d) \div Byte2 = Number2(h) /\ Number4(d) % Byte2 = Number2(t)
    <3>1. \A a, r \in 0..(Byte2 - 1) : /\ a * Byte2 + r \in 0..(Byte2 * Byte2 - 1)
                                       /\ (a * Byte2 + r) \div Byte2 = a /\ (a * Byte2 + r) % Byte2 = r
      BY PutTogether, Sizes
    <3>2. QED BY <2>1, <2>2, <3>1 DEF Number4, Byte4
  <2>4. QED BY <2>1, <2>2, <2>3 DEF Digits4
<1>3. QED BY <1>1, <1>2

LEMMA Eight ==
  /\ \A n \in 0..(Byte4 * Byte4 - 1) : /\ Digits8(n) \in Seq(Bytes) /\ Len(Digits8(n)) = 8
                               /\ Number8(Digits8(n)) = n
  /\ \A d \in Seq(Bytes) : Len(d) = 8 => Number8(d) \in 0..(Byte4 * Byte4 - 1) /\ Digits8(Number8(d)) = d
<1>1. ASSUME NEW n \in 0..(Byte4 * Byte4 - 1)
      PROVE  Digits8(n) \in Seq(Bytes) /\ Len(Digits8(n)) = 8 /\ Number8(Digits8(n)) = n
  <2>1. /\ n \div Byte4 \in 0..(Byte4 - 1) /\ n % Byte4 \in 0..(Byte4 - 1)
        /\ n = (n \div Byte4) * Byte4 + (n % Byte4)
    BY Taken, Sizes
  <2>2. PICK d \in Seq(Bytes), e \in Seq(Bytes) :
           /\ d = Digits4(n \div Byte4) /\ Len(d) = 4 /\ Number4(d) = n \div Byte4
           /\ e = Digits4(n % Byte4) /\ Len(e) = 4 /\ Number4(e) = n % Byte4
    BY <2>1, Four
  <2>3. d \o e \in Seq(Bytes) /\ Len(d \o e) = 8 /\ Upper(d \o e) = d /\ Lower(d \o e) = e
    BY <2>2, Join4
  <2>4. QED BY <2>1, <2>2, <2>3 DEF Digits8, Number8
<1>2. ASSUME NEW d \in Seq(Bytes), Len(d) = 8
      PROVE  Number8(d) \in 0..(Byte4 * Byte4 - 1) /\ Digits8(Number8(d)) = d
  <2>1. PICK h \in Seq(Bytes), t \in Seq(Bytes) :
           h = Upper(d) /\ t = Lower(d) /\ Len(h) = 4 /\ Len(t) = 4 /\ h \o t = d
    BY <1>2, Split8
  <2>2. /\ Number4(h) \in 0..(Byte4 - 1) /\ Digits4(Number4(h)) = h
        /\ Number4(t) \in 0..(Byte4 - 1) /\ Digits4(Number4(t)) = t
    BY <2>1, Four
  <2>3. /\ Number8(d) \in 0..(Byte4 * Byte4 - 1)
        /\ Number8(d) \div Byte4 = Number4(h) /\ Number8(d) % Byte4 = Number4(t)
    <3>1. \A a, r \in 0..(Byte4 - 1) : /\ a * Byte4 + r \in 0..(Byte4 * Byte4 - 1)
                                       /\ (a * Byte4 + r) \div Byte4 = a /\ (a * Byte4 + r) % Byte4 = r
      BY PutTogether, Sizes
    <3>2. QED BY <2>1, <2>2, <3>1 DEF Number8
  <2>4. QED BY <2>1, <2>2, <2>3 DEF Digits8
<1>3. QED BY <1>1, <1>2

-----------------------------------------------------------------------------
(* Heads.                                                                    *)

\* The initial byte of a head: a major type and an additional information.
LEMMA Initial ==
  /\ \A mt \in 0..7, ai \in 0..(Info - 1) :
        /\ mt * Info + ai \in Bytes
        /\ (mt * Info + ai) \div Info = mt
        /\ (mt * Info + ai) % Info = ai
  /\ \A c \in Bytes :
        /\ c \div Info \in 0..7 /\ c % Info \in 0..(Info - 1)
        /\ c = (c \div Info) * Info + (c % Info)
<1>1. Info \in Nat /\ Info > 0 /\ Byte = 8 * Info
  BY Sizes DEF Byte
<1>2. ASSUME NEW mt \in 0..7, NEW ai \in 0..(Info - 1)
      PROVE  /\ mt * Info + ai \in Bytes
             /\ (mt * Info + ai) \div Info = mt
             /\ (mt * Info + ai) % Info = ai
  <2>1. mt * Info + ai \in 0..(8 * Info - 1)
    BY <1>1
  <2>2. mt \in Nat /\ (mt * Info + ai) \div Info = mt /\ (mt * Info + ai) % Info = ai
    BY <1>1
  <2>3. QED BY <1>1, <2>1, <2>2 DEF Bytes
<1>3. ASSUME NEW c \in Bytes
      PROVE  /\ c \div Info \in 0..7 /\ c % Info \in 0..(Info - 1)
             /\ c = (c \div Info) * Info + (c % Info)
  <2>1. c \in Nat /\ c < 8 * Info
    BY <1>1 DEF Bytes
  <2>2. QED BY <1>1, <2>1
<1>4. QED BY <1>2, <1>3

\* The numbers of each width are below the least of the next.
Limit == <<Byte, Byte2, Byte4, Byte4 * Byte4>>

LEMMA Widths ==
  /\ \A k \in 1..4 : /\ Width[k] \in 1..8 /\ Limit[k] \in Nat /\ Least[k] \in Nat
                     /\ Inline <= Least[k] /\ Least[k] < Limit[k]
  /\ \A k \in 1..3 : Limit[k] = Least[k + 1]
  /\ \A j, k \in 1..4 : j < k => Limit[j] <= Least[k]
<1>1. Byte4 * Byte4 \in Nat /\ Byte4 < Byte4 * Byte4
  BY Sizes
<1>2. QED BY <1>1, Sizes DEF Width, Limit, Least

\* At each width a number and its digits determine each other.
LEMMA DigitsBack ==
  ASSUME NEW k \in 1..4
  PROVE  /\ \A n \in 0..(Limit[k] - 1) :
               Digits(n, k) \in Seq(Bytes) /\ Len(Digits(n, k)) = Width[k] /\ Number(Digits(n, k), k) = n
         /\ \A d \in Seq(Bytes) :
               Len(d) = Width[k] => Number(d, k) \in 0..(Limit[k] - 1) /\ Digits(Number(d, k), k) = d
<1>1. CASE k = 1
  <2>1. Limit[1] = Byte /\ Width[1] = 1
    BY DEF Limit, Width
  <2>2. ASSUME NEW n \in 0..(Byte - 1)
        PROVE  <<n>> \in Seq(Bytes) /\ Len(<<n>>) = 1 /\ <<n>>[1] = n
    BY DEF Bytes
  <2>3. ASSUME NEW d \in Seq(Bytes), Len(d) = 1
        PROVE  d[1] \in 0..(Byte - 1) /\ <<d[1]>> = d
    <3>1. d[1] \in Bytes
      BY <2>3, ElementOfSeq
    <3>2. QED BY <2>3, <3>1 DEF Bytes
  <2>4. QED BY <1>1, <2>1, <2>2, <2>3 DEF Digits, Number
<1>2. CASE k = 2
  <2>1. Limit[2] = Byte2 /\ Width[2] = 2
    BY DEF Limit, Width
  <2>2. QED BY <1>2, <2>1, Two DEF Digits, Number
<1>3. CASE k = 3
  <2>1. Limit[3] = Byte4 /\ Width[3] = 4
    BY DEF Limit, Width
  <2>2. QED BY <1>3, <2>1, Four DEF Digits, Number
<1>4. CASE k = 4
  <2>1. Limit[4] = Byte4 * Byte4 /\ Width[4] = 8
    BY DEF Limit, Width
  <2>2. QED BY <1>4, <2>1, Eight DEF Digits, Number
<1>5. QED BY <1>1, <1>2, <1>3, <1>4

LEMMA EncodableIs ==
  ASSUME NEW arg \in Nat
  PROVE  Encodable(arg) <=> arg < Byte4 * Byte4
<1>1. Byte4 \in Nat /\ Byte4 > 0
  BY Sizes
<1>2. arg \div Byte4 \in Nat /\ arg % Byte4 \in 0..(Byte4 - 1) /\ arg = (arg \div Byte4) * Byte4 + (arg % Byte4)
  BY <1>1
<1>3. ASSUME arg \div Byte4 < Byte4
      PROVE  arg < Byte4 * Byte4
  <2>1. (arg \div Byte4) * Byte4 <= (Byte4 - 1) * Byte4
    BY <1>1, <1>2, <1>3
  <2>2. QED BY <1>1, <1>2, <2>1
<1>4. ASSUME arg < Byte4 * Byte4
      PROVE  arg \div Byte4 < Byte4
  BY <1>1, <1>4, Taken
<1>5. QED BY <1>3, <1>4 DEF Encodable

\* An argument that is not inline has a width, and its head is written in it.
LEMMA OneWidth ==
  ASSUME NEW arg \in Nat, Inline <= arg, Encodable(arg)
  PROVE  \E k \in 1..4 : Least[k] <= arg /\ arg < Limit[k]
<1>1. arg < Byte4 * Byte4
  BY EncodableIs
<1>2. QED BY <1>1, Sizes DEF Least, Limit

LEMMA EncodedIs ==
  ASSUME NEW mt, NEW arg \in Nat, NEW k \in 1..4, Least[k] <= arg, arg < Limit[k]
  PROVE  EncodeHead(mt, arg) = <<mt * Info + Inline + k - 1>> \o Digits(arg, k)
<1>1. ~(arg < Inline)
  BY Widths, Sizes
<1>2. arg < Byte4 * Byte4
  <2>1. Limit[k] <= Byte4 * Byte4
    BY Widths, Sizes DEF Limit
  <2>2. QED BY <2>1, Widths, Sizes
<1>3. Encodable(arg)
  BY <1>2, EncodableIs
<1>4. arg >= Least[k] /\ (k = 4 \/ arg < Least[k + 1])
  BY Widths
<1>5. ASSUME NEW j \in 1..4, arg >= Least[j] /\ (j = 4 \/ arg < Least[j + 1])
      PROVE  j = k
  <2>1. j = 4 \/ arg < Limit[j]
    BY <1>5, Widths
  <2>2. ~(k < j)
    BY <1>5, Widths
  <2>3. ~(j < k)
    BY <1>5, <2>1, Widths
  <2>4. QED BY <2>2, <2>3
<1>6. (CHOOSE j \in 1..4 : arg >= Least[j] /\ (j = 4 \/ arg < Least[j + 1])) = k
  BY <1>4, <1>5
<1>7. QED BY <1>1, <1>3, <1>6 DEF EncodeHead

\* A piece of a sequence is its first element and the rest of the piece.
LEMMA FirstAndRest ==
  ASSUME NEW S, NEW b \in Seq(S), NEW p \in Nat, NEW q \in Nat, 1 <= p, p <= q, q <= Len(b)
  PROVE  SubSeq(b, p, q) = <<b[p]>> \o SubSeq(b, p + 1, q)
<1>1. /\ SubSeq(b, p, q) \in Seq(S) /\ Len(SubSeq(b, p, q)) = q - p + 1
      /\ \A i \in 1..(q - p + 1) : SubSeq(b, p, q)[i] = b[p + i - 1]
  BY Slice
<1>2. PICK u \in Nat : u = p + 1
  OBVIOUS
<1>3. /\ SubSeq(b, u, q) \in Seq(S) /\ Len(SubSeq(b, u, q)) = q - p
      /\ \A i \in 1..(q - p) : SubSeq(b, u, q)[i] = b[p + i]
  BY <1>2, Slice
<1>4. b[p] \in S
  BY ElementOfSeq
<1>5. <<b[p]>> \o SubSeq(b, u, q) = SubSeq(b, p, q)
  BY <1>1, <1>3, <1>4
<1>6. QED BY <1>2, <1>5

LEMMA OnePiece ==
  ASSUME NEW S, NEW b \in Seq(S), NEW p \in Nat, 1 <= p, p <= Len(b)
  PROVE  SubSeq(b, p, p) = <<b[p]>>
<1>1. SubSeq(b, p, p) = <<b[p]>> \o SubSeq(b, p + 1, p)
  BY FirstAndRest
<1>2. SubSeq(b, p + 1, p) = <<>>
  <2>1. PICK u \in Nat : u = p + 1
    OBVIOUS
  <2>2. SubSeq(b, u, p) \in Seq(S) /\ Len(SubSeq(b, u, p)) = 0
    BY <2>1, Slice
  <2>3. SubSeq(b, u, p) = <<>>
    BY <2>2, EmptySeq
  <2>4. QED BY <2>1, <2>3
<1>3. b[p] \in S
  BY ElementOfSeq
<1>4. <<b[p]>> \in Seq(S)
  BY <1>3
<1>5. <<b[p]>> \o <<>> = <<b[p]>>
  BY <1>4, ConcatEmptySeq
<1>6. QED BY <1>1, <1>2, <1>5, Zenon

\* A sequence has one first element and one rest.
LEMMA Consed ==
  ASSUME NEW S, NEW c \in S, NEW e \in S, NEW d \in Seq(S), NEW f \in Seq(S), <<c>> \o d = <<e>> \o f
  PROVE  c = e /\ d = f
<1>1. c = e
  <2>1. (<<c>> \o d)[1] = c /\ (<<e>> \o f)[1] = e
    OBVIOUS
  <2>2. QED BY <2>1
<1>2. Len(d) = Len(f)
  <2>1. Len(<<c>> \o d) = Len(d) + 1 /\ Len(<<e>> \o f) = Len(f) + 1
    OBVIOUS
  <2>2. QED BY <2>1
<1>3. \A i \in 1..Len(d) : d[i] = f[i]
  <2>1. \A i \in 1..Len(d) : (<<c>> \o d)[i + 1] = d[i]
    OBVIOUS
  <2>2. \A i \in 1..Len(f) : (<<e>> \o f)[i + 1] = f[i]
    OBVIOUS
  <2>3. QED BY <1>2, <2>1, <2>2
<1>4. QED BY <1>1, <1>2, <1>3

\* What a head is made of.
LEMMA Parts ==
  ASSUME NEW mt \in 0..7, NEW arg \in Nat, Encodable(arg)
  PROVE  \/ arg < Inline /\ EncodeHead(mt, arg) = <<mt * Info + arg>>
         \/ \E k \in 1..4, d \in Seq(Bytes) :
               /\ EncodeHead(mt, arg) = <<mt * Info + (Inline + k - 1)>> \o d
               /\ Len(d) = Width[k] /\ Number(d, k) = arg /\ Least[k] <= arg
<1>1. CASE arg < Inline
  BY <1>1 DEF EncodeHead
<1>2. CASE Inline <= arg
  <2>1. PICK k \in 1..4 : Least[k] <= arg /\ arg < Limit[k]
    BY <1>2, OneWidth
  <2>2. EncodeHead(mt, arg) = <<mt * Info + Inline + k - 1>> \o Digits(arg, k)
    BY <2>1, EncodedIs
  <2>3. Digits(arg, k) \in Seq(Bytes) /\ Len(Digits(arg, k)) = Width[k] /\ Number(Digits(arg, k), k) = arg
    <3>1. arg \in 0..(Limit[k] - 1)
      BY <2>1, Widths
    <3>2. QED BY <3>1, DigitsBack
  <2>4. mt * Info + Inline + k - 1 = mt * Info + (Inline + k - 1)
    BY Sizes
  <2>5. QED BY <2>1, <2>2, <2>3, <2>4
<1>3. arg < Inline \/ Inline <= arg
  BY Sizes
<1>4. QED BY <1>1, <1>2, <1>3

\* What is read where a direct argument stands, and where a wide one does.
LEMMA ReadsDirect ==
  ASSUME NEW b, NEW p, ~(p > Len(b)), NEW mt, NEW ai \in Nat,
         b[p] \div Info = mt, b[p] % Info = ai, ai < Inline
  PROVE  ReadHead(b, p) = <<mt, ai, p + 1>>
<1>1. ~(ai >= Inline + 4)
  BY Sizes
<1>2. QED BY <1>1 DEF ReadHead

LEMMA ReadsWide ==
  ASSUME NEW b, NEW p, ~(p > Len(b)), NEW mt, NEW k \in 1..4,
         b[p] \div Info = mt, b[p] % Info = Inline + k - 1
  PROVE  ReadHead(b, p) =
           LET arg == Number(SubSeq(b, p + 1, p + Width[k]), k)
           IN  IF p + Width[k] <= Len(b) /\ Shortest(arg, k) THEN <<mt, arg, p + Width[k] + 1>> ELSE Refused
<1>1. /\ (b[p] % Info) - Inline + 1 = k
      /\ ~(b[p] % Info < Inline) /\ ~(b[p] % Info >= Inline + 4)
  BY Sizes
<1>2. QED BY <1>1 DEF ReadHead

LEMMA ReadsReserved ==
  ASSUME NEW b, NEW p, ~(p > Len(b)), b[p] % Info \in Nat, b[p] % Info >= Inline + 4
  PROVE  ReadHead(b, p) = Refused
<1>1. ~(b[p] % Info < Inline)
  BY Sizes
<1>2. QED BY <1>1 DEF ReadHead

LEMMA WidthIs == \A k \in 1..4 : Width[k] \in Nat /\ 0 < Width[k]
BY Widths

\* HeadsReadBack, where the head has a place.
LEMMA HeadsReadAt ==
  ASSUME NEW mt \in 0..7, NEW arg \in Nat, Encodable(arg),
         NEW b \in Seq(Bytes), NEW p \in Nat, NEW q \in Nat, 1 <= p, p <= q, q <= Len(b),
         SubSeq(b, p, q) = EncodeHead(mt, arg)
  PROVE  ReadHead(b, p) = <<mt, arg, q + 1>>
<1>1. PICK rest \in Seq(Bytes) : rest = SubSeq(b, p + 1, q) /\ Len(rest) = q - p
  <2>1. PICK u \in Nat : u = p + 1
    OBVIOUS
  <2>2. SubSeq(b, u, q) \in Seq(Bytes) /\ Len(SubSeq(b, u, q)) = q - p
    BY <2>1, Slice
  <2>3. QED BY <2>1, <2>2
<1>2. EncodeHead(mt, arg) = <<b[p]>> \o rest
  BY <1>1, FirstAndRest
<1>3. b[p] \in Bytes /\ ~(p > Len(b))
  BY ElementOfSeq
<1>4. CASE arg < Inline /\ EncodeHead(mt, arg) = <<mt * Info + arg>>
  <2>1. arg \in 0..(Info - 1)
    BY <1>4, Sizes
  <2>2. mt * Info + arg \in Bytes
    BY <2>1, Initial
  <2>3. <<mt * Info + arg>> = <<mt * Info + arg>> \o <<>> /\ <<>> \in Seq(Bytes)
    BY <2>2
  <2>4. b[p] = mt * Info + arg /\ rest = <<>>
    BY <1>2, <1>3, <1>4, <2>2, <2>3, Consed
  <2>5. q = p
    BY <1>1, <2>4
  <2>6. b[p] \div Info = mt /\ b[p] % Info = arg
    BY <2>1, <2>4, Initial
  <2>7. QED BY <1>3, <1>4, <2>5, <2>6, ReadsDirect
<1>5. ASSUME NEW k \in 1..4, NEW d \in Seq(Bytes),
             EncodeHead(mt, arg) = <<mt * Info + (Inline + k - 1)>> \o d,
             Len(d) = Width[k], Number(d, k) = arg, Least[k] <= arg
      PROVE  ReadHead(b, p) = <<mt, arg, q + 1>>
  <2>1. Inline + k - 1 \in 0..(Info - 1)
    BY Sizes DEF Info
  <2>2. mt * Info + (Inline + k - 1) \in Bytes
    BY <2>1, Initial
  <2>3. b[p] = mt * Info + (Inline + k - 1) /\ rest = d
    <3>1. PICK e \in Bytes : e = mt * Info + (Inline + k - 1)
      BY <2>2
    <3>2. <<b[p]>> \o rest = <<e>> \o d
      BY <1>2, <1>5, <3>1
    <3>3. b[p] = e /\ rest = d
      BY <1>3, <3>2, Consed
    <3>4. QED BY <3>1, <3>3
  <2>4. b[p] \div Info = mt /\ b[p] % Info = Inline + k - 1
    BY <2>1, <2>3, Initial
  <2>5. q = p + Width[k]
    <3>1. Width[k] \in Nat /\ q - p = Width[k]
      BY <1>1, <1>5, <2>3, WidthIs, Zenon
    <3>2. QED BY <3>1
  <2>6. Number(SubSeq(b, p + 1, p + Width[k]), k) = arg /\ p + Width[k] <= Len(b)
    BY <1>1, <1>5, <2>3, <2>5
  <2>7. Shortest(arg, k)
    BY <1>5 DEF Shortest
  <2>8. QED BY <1>3, <2>4, <2>5, <2>6, <2>7, ReadsWide
<1>6. QED BY <1>4, <1>5, Parts

\* A head that is read (Reader.head, cbor.ts:242-264) is the one Writer.head
\* (cbor.ts:68-91) writes for its major type and argument: for every size of the
\* inline arguments and at every width, an argument has one form.
THEOREM HeadsHaveOneForm ==
  ASSUME NEW b \in Seq(Bytes), NEW p \in Nat, 1 <= p, ReadHead(b, p) # Refused
  PROVE  \E mt \in 0..7, arg \in Nat, q \in Nat :
            /\ ReadHead(b, p) = <<mt, arg, q + 1>>
            /\ p <= q /\ q <= Len(b)
            /\ Encodable(arg)
            /\ EncodeHead(mt, arg) = SubSeq(b, p, q)
<1>1. p <= Len(b) /\ ~(p > Len(b))
  BY DEF ReadHead
<1>2. b[p] \in Bytes
  BY <1>1, ElementOfSeq
<1>3. PICK mt \in 0..7, ai \in 0..(Info - 1) :
         b[p] \div Info = mt /\ b[p] % Info = ai /\ b[p] = mt * Info + ai
  BY <1>2, Initial
<1>4. CASE ai < Inline
  <2>1. ReadHead(b, p) = <<mt, ai, p + 1>>
    BY <1>1, <1>3, <1>4, ReadsDirect
  <2>2. EncodeHead(mt, ai) = <<b[p]>>
    BY <1>3, <1>4 DEF EncodeHead
  <2>3. SubSeq(b, p, p) = <<b[p]>>
    BY <1>1, OnePiece
  <2>4. Encodable(ai)
    <3>1. ai < Byte4 /\ Byte4 <= Byte4 * Byte4
      BY <1>4, Sizes
    <3>2. QED BY <3>1, EncodableIs, Sizes
  <2>5. ai \in Nat
    BY Sizes
  <2>6. WITNESS mt \in 0..7, ai \in Nat, p \in Nat
  <2>7. QED BY <1>1, <2>1, <2>2, <2>3, <2>4
<1>5. CASE Inline <= ai
  <2>1. ai < Inline + 4
    BY <1>1, <1>3, Sizes, ReadsReserved
  <2>2. PICK k \in 1..4 : ai = Inline + k - 1
    <3>1. ai - Inline + 1 \in 1..4 /\ ai = Inline + (ai - Inline + 1) - 1
      BY <1>5, <2>1, Sizes
    <3>2. QED BY <3>1
  <2>3. PICK q \in Nat : q = p + Width[k] /\ p < q
    <3>1. Width[k] \in Nat /\ 0 < Width[k]
      BY WidthIs, Zenon
    <3>2. QED BY <3>1
  <2>4. PICK d, arg : d = SubSeq(b, p + 1, q) /\ arg = Number(d, k)
    OBVIOUS
  <2>5. ReadHead(b, p) = IF q <= Len(b) /\ Shortest(arg, k) THEN <<mt, arg, q + 1>> ELSE Refused
    BY <1>1, <1>3, <2>2, <2>3, <2>4, ReadsWide
  <2>6. q <= Len(b) /\ Shortest(arg, k) /\ ReadHead(b, p) = <<mt, arg, q + 1>>
    BY <2>5
  <2>7. d \in Seq(Bytes) /\ Len(d) = Width[k]
    <3>1. PICK u \in Nat : u = p + 1
      OBVIOUS
    <3>2. SubSeq(b, u, q) \in Seq(Bytes) /\ Len(SubSeq(b, u, q)) = q - u + 1
      BY <2>3, <2>6, <3>1, Slice
    <3>3. q - u + 1 = Width[k]
      <4>1. Width[k] \in Nat
        BY WidthIs, Zenon
      <4>2. QED BY <2>3, <3>1, <4>1
    <3>4. QED BY <2>4, <3>1, <3>2, <3>3
  <2>8. arg \in 0..(Limit[k] - 1) /\ Digits(arg, k) = d
    BY <2>4, <2>7, DigitsBack
  <2>9. arg \in Nat /\ Least[k] <= arg /\ arg < Limit[k]
    BY <2>6, <2>8, Widths DEF Shortest
  <2>10. EncodeHead(mt, arg) = <<b[p]>> \o d
    <3>1. mt * Info + Inline + k - 1 = b[p]
      BY <1>3, <2>2, Sizes
    <3>2. QED BY <2>8, <2>9, <3>1, EncodedIs
  <2>11. SubSeq(b, p, q) = <<b[p]>> \o d
    <3>1. p <= q /\ q <= Len(b)
      BY <2>3, <2>6
    <3>2. SubSeq(b, p, q) = <<b[p]>> \o SubSeq(b, p + 1, q)
      BY <3>1, FirstAndRest
    <3>3. QED BY <2>4, <3>2
  <2>12. Encodable(arg)
    <3>1. Limit[k] <= Byte4 * Byte4
      BY Widths, Sizes DEF Limit
    <3>2. arg < Byte4 * Byte4
      BY <2>9, <3>1, Widths, Sizes
    <3>3. QED BY <2>9, <3>2, EncodableIs
  <2>13. p <= q /\ EncodeHead(mt, arg) = SubSeq(b, p, q)
    <3>1. p <= q
      BY <2>3
    <3>2. QED BY <2>10, <2>11, <3>1, Zenon
  <2>14. arg \in Nat
    BY <2>9
  <2>15. WITNESS mt \in 0..7, arg \in Nat, q \in Nat
  <2>16. QED BY <2>6, <2>12, <2>13
<1>6. ai < Inline \/ Inline <= ai
  BY Sizes
<1>7. QED BY <1>4, <1>5, <1>6

-----------------------------------------------------------------------------
(* Values that hold no others.                                               *)

LEMMA TwoPieces ==
  ASSUME NEW S, NEW b \in Seq(S), NEW p \in Nat, NEW q \in Nat, NEW r \in Nat,
         1 <= p, p <= q + 1, q <= r, r <= Len(b)
  PROVE  SubSeq(b, p, q) \o SubSeq(b, q + 1, r) = SubSeq(b, p, r)
<1>1. PICK u \in Nat : u = q + 1
  OBVIOUS
<1>2. /\ SubSeq(b, p, q) \in Seq(S) /\ Len(SubSeq(b, p, q)) = q - p + 1
      /\ \A i \in 1..(q - p + 1) : SubSeq(b, p, q)[i] = b[p + i - 1]
  BY Slice
<1>3. /\ SubSeq(b, u, r) \in Seq(S) /\ Len(SubSeq(b, u, r)) = r - q
      /\ \A i \in 1..(r - q) : SubSeq(b, u, r)[i] = b[q + i]
  BY <1>1, Slice
<1>4. /\ SubSeq(b, p, r) \in Seq(S) /\ Len(SubSeq(b, p, r)) = r - p + 1
      /\ \A i \in 1..(r - p + 1) : SubSeq(b, p, r)[i] = b[p + i - 1]
  BY Slice
<1>5. SubSeq(b, p, q) \o SubSeq(b, u, r) = SubSeq(b, p, r)
  BY <1>2, <1>3, <1>4
<1>6. QED BY <1>1, <1>5

\* What a text becomes when it is written.
LEMMA NormalIs ==
  ASSUME NEW x \in Seq(Bytes)
  PROVE  /\ Normal(x) \in Seq(Bytes) /\ Len(Normal(x)) = Len(x)
         /\ Normal(Normal(x)) = Normal(x)
         /\ Chars(x) \cap Broken = {} => Chars(Normal(x)) \cap Broken = {}
<1>1. \A i \in DOMAIN x : x[i] \in Bytes
  OBVIOUS
<1>2. \A i \in DOMAIN x : Normal(x)[i] \in Bytes /\ Normal(x)[i] \notin DOMAIN Composed
  BY <1>1, ComposedAssumption DEF Normal, ComposedAssumption
<1>3. DOMAIN Normal(x) = 1..Len(x)
  BY DEF Normal
<1>4. Normal(x) \in Seq(Bytes) /\ Len(Normal(x)) = Len(x)
  <2>1. PICK n \in Nat : n = Len(x) /\ DOMAIN x = 1..n
    BY LenProperties
  <2>2. Normal(x) \in [1..n -> Bytes]
    BY <1>2, <2>1 DEF Normal
  <2>3. Normal(x) \in Seq(Bytes)
    BY <2>2, SeqDef
  <2>4. Len(Normal(x)) = n
    BY <2>2, <2>3, LenProperties
  <2>5. QED BY <2>1, <2>3, <2>4
<1>5. Normal(Normal(x)) = Normal(x)
  BY <1>2 DEF Normal
<1>6. ASSUME Chars(x) \cap Broken = {}, NEW i \in DOMAIN Normal(x)
      PROVE  Normal(x)[i] \notin Broken
  <2>1. x[i] \notin Broken
    BY <1>6, <1>3 DEF Chars
  <2>2. Normal(x)[i] = IF x[i] \in DOMAIN Composed THEN Composed[x[i]] ELSE x[i]
    BY <1>3, <1>6 DEF Normal
  <2>3. QED BY <2>1, <2>2, ComposedAssumption DEF ComposedAssumption
<1>7. QED BY <1>4, <1>5, <1>6 DEF Chars

\* Of each kind of leaf, what the reader makes of a head.
LEMMA DecodesNatural ==
  ASSUME NEW b, NEW n \in Nat, NEW q
  PROVE  DecodeLeaf(b, <<0, n, q>>) = <<<<"int", n>>, q>>
BY DEF DecodeLeaf

LEMMA DecodesNegative ==
  ASSUME NEW b, NEW n \in Nat, NEW q
  PROVE  DecodeLeaf(b, <<1, n, q>>) = <<<<"int", -n - 1>>, q>>
BY DEF DecodeLeaf

LEMMA DecodesBytes ==
  ASSUME NEW b, NEW n \in Nat, NEW q
  PROVE  DecodeLeaf(b, <<2, n, q>>) =
           IF q + n - 1 > Len(b) THEN Refused ELSE <<<<"bytes", SubSeq(b, q, q + n - 1)>>, q + n>>
BY DEF DecodeLeaf

LEMMA DecodesText ==
  ASSUME NEW b, NEW n \in Nat, NEW q
  PROVE  DecodeLeaf(b, <<3, n, q>>) =
           LET raw == SubSeq(b, q, q + n - 1)
           IN  IF q + n - 1 > Len(b) THEN Refused
               ELSE IF ReadText(raw) = Refused THEN Refused
               ELSE <<<<"text", ReadText(raw)[1]>>, q + n>>
BY DEF DecodeLeaf

LEMMA DecodesSimple ==
  ASSUME NEW b, NEW n \in Nat, NEW q
  PROVE  /\ DecodeLeaf(b, <<6, n, q>>) = Refused
         /\ DecodeLeaf(b, <<7, n, q>>) =
              IF n \in (Inline - 4)..(Inline - 2) THEN <<<<"simple", n - Inline + 5>>, q>> ELSE Refused
BY DEF DecodeLeaf

\* The item read at position p of b begins with a byte order mark.
Marked(b, p) == LET h == ReadHead(b, p)
                IN  h[1] = 3 /\ h[2] > 0 /\ b[h[3]] = Mark

\* A text that is read is written as it was.
LEMMA TextsAreWhole ==
  ASSUME NEW raw \in Seq(Bytes), ReadText(raw) # Refused, raw = <<>> \/ raw[1] # Mark
  PROVE  ReadText(raw) = <<raw>> /\ Chars(raw) \cap Broken = {} /\ Normal(raw) = raw
BY DEF ReadText, Refused

\* A number, a byte string, a text or a constant that decodeItem reads
\* (cbor.ts:271-300, 342-349) is encoded as the bytes it was read from: what
\* Canonical says of any input, for the items that hold no others, of any length
\* and at any place.  A text that begins with a byte order mark is the exception,
\* which TextDecoder drops (cbor.ts:212, and the run CborMark.cfg).
THEOREM LeavesHaveOneForm ==
  ASSUME NEW b \in Seq(Bytes), NEW p \in Nat, 1 <= p,
         ReadHead(b, p) # Refused, ReadHead(b, p)[1] \notin {4, 5},
         DecodeLeaf(b, ReadHead(b, p)) # Refused, ~Marked(b, p)
  PROVE  \E v : \E r \in Nat :
            /\ DecodeLeaf(b, ReadHead(b, p)) = <<v, r + 1>>
            /\ p <= r /\ r <= Len(b)
            /\ IsLeaf(v)
            /\ EncodeLeaf(v) = SubSeq(b, p, r)
<1>1. PICK mt \in 0..7, n \in Nat, q \in Nat :
         /\ ReadHead(b, p) = <<mt, n, q + 1>>
         /\ p <= q /\ q <= Len(b)
         /\ EncodeHead(mt, n) = SubSeq(b, p, q)
  BY HeadsHaveOneForm
<1>2. mt # 4 /\ mt # 5
  BY <1>1
<1>3. PICK u \in Nat : u = q + 1
  OBVIOUS
<1>4. DecodeLeaf(b, <<mt, n, u>>) # Refused
  BY <1>1, <1>3
<1>5. CASE mt = 0
  <2>1. DecodeLeaf(b, ReadHead(b, p)) = <<<<"int", n>>, q + 1>>
    <3>1. DecodeLeaf(b, <<0, n, u>>) = <<<<"int", n>>, u>>
      BY DecodesNatural, Zenon
    <3>2. QED BY <1>1, <1>3, <1>5, <3>1, Zenon
  <2>2. EncodeLeaf(<<"int", n>>) = EncodeHead(0, n) /\ IsLeaf(<<"int", n>>)
    BY DEF EncodeLeaf, IsLeaf
  <2>3. EncodeLeaf(<<"int", n>>) = SubSeq(b, p, q)
    BY <1>1, <1>5, <2>2, Zenon
  <2>4. QED BY <1>1, <2>1, <2>2, <2>3, Zenon
<1>6. CASE mt = 1
  <2>1. DecodeLeaf(b, ReadHead(b, p)) = <<<<"int", -n - 1>>, q + 1>>
    <3>1. DecodeLeaf(b, <<1, n, u>>) = <<<<"int", -n - 1>>, u>>
      BY DecodesNegative, Zenon
    <3>2. QED BY <1>1, <1>3, <1>6, <3>1, Zenon
  <2>2. EncodeLeaf(<<"int", -n - 1>>) = EncodeHead(1, n) /\ IsLeaf(<<"int", -n - 1>>)
    <3>1. ~(-n - 1 >= 0) /\ -(-n - 1) - 1 = n
      OBVIOUS
    <3>2. QED BY <3>1 DEF EncodeLeaf, IsLeaf
  <2>3. EncodeLeaf(<<"int", -n - 1>>) = SubSeq(b, p, q)
    BY <1>1, <1>6, <2>2, Zenon
  <2>4. QED BY <1>1, <2>1, <2>2, <2>3, Zenon
<1>7. ASSUME u + n - 1 <= Len(b)
      PROVE  \E raw \in Seq(Bytes), r \in Nat :
                /\ raw = SubSeq(b, u, u + n - 1) /\ r = u + n - 1 /\ u + n = r + 1
                /\ Len(raw) = n /\ (n > 0 => raw[1] = b[u])
                /\ p <= r /\ r <= Len(b)
                /\ EncodeHead(mt, n) \o raw = SubSeq(b, p, r)
  <2>1. PICK r \in Nat : r = u + n - 1 /\ u + n = r + 1 /\ q <= r /\ p <= r /\ r <= Len(b) /\ u <= r + 1
    BY <1>1, <1>3, <1>7
  <2>2. PICK raw : raw = SubSeq(b, u, r)
    OBVIOUS
  <2>3. raw \in Seq(Bytes) /\ Len(raw) = r - u + 1 /\ \A i \in 1..(r - u + 1) : raw[i] = b[u + i - 1]
    <3>1. 1 <= u
      BY <1>3
    <3>2. QED BY <2>1, <2>2, <3>1, Slice
  <2>4. Len(raw) = n /\ (n > 0 => raw[1] = b[u])
    BY <2>1, <2>3
  <2>5. EncodeHead(mt, n) \o raw = SubSeq(b, p, r)
    <3>1. p <= q + 1
      BY <1>1
    <3>2. SubSeq(b, p, q) \o SubSeq(b, q + 1, r) = SubSeq(b, p, r)
      BY <2>1, <3>1, TwoPieces
    <3>3. QED BY <1>1, <1>3, <2>2, <3>2, Zenon
  <2>6. raw = SubSeq(b, u, u + n - 1)
    BY <2>1, <2>2, Zenon
  <2>7. QED BY <2>1, <2>3, <2>4, <2>5, <2>6, Zenon
<1>8. CASE mt = 2
  <2>1. u + n - 1 <= Len(b)
    <3>1. DecodeLeaf(b, <<2, n, u>>) # Refused
      BY <1>4, <1>8, Zenon
    <3>2. ~(u + n - 1 > Len(b))
      BY <3>1, DecodesBytes, Zenon
    <3>3. Len(b) \in Nat
      BY LenProperties
    <3>4. QED BY <3>2, <3>3
  <2>2. PICK raw \in Seq(Bytes), r \in Nat :
           /\ raw = SubSeq(b, u, u + n - 1) /\ r = u + n - 1 /\ u + n = r + 1
           /\ Len(raw) = n /\ (n > 0 => raw[1] = b[u])
           /\ p <= r /\ r <= Len(b)
           /\ EncodeHead(mt, n) \o raw = SubSeq(b, p, r)
    BY <1>7, <2>1, Zenon
  <2>3. DecodeLeaf(b, ReadHead(b, p)) = <<<<"bytes", raw>>, r + 1>>
    <3>1. ~(u + n - 1 > Len(b))
      BY <2>1
    <3>2. DecodeLeaf(b, <<2, n, u>>) = <<<<"bytes", raw>>, u + n>>
      BY <2>2, <3>1, DecodesBytes, Zenon
    <3>3. QED BY <1>1, <1>3, <1>8, <2>2, <3>2, Zenon
  <2>4. EncodeLeaf(<<"bytes", raw>>) = EncodeHead(2, n) \o raw /\ IsLeaf(<<"bytes", raw>>)
    BY <2>2 DEF EncodeLeaf, IsLeaf
  <2>5. EncodeLeaf(<<"bytes", raw>>) = SubSeq(b, p, r)
    BY <1>8, <2>2, <2>4, Zenon
  <2>6. QED BY <2>2, <2>3, <2>4, <2>5, Zenon
<1>9. CASE mt = 3
  <2>1. u + n - 1 <= Len(b) /\ ReadText(SubSeq(b, u, u + n - 1)) # Refused
    <3>1. DecodeLeaf(b, <<3, n, u>>) # Refused
      BY <1>4, <1>9, Zenon
    <3>2. ~(u + n - 1 > Len(b)) /\ ReadText(SubSeq(b, u, u + n - 1)) # Refused
      BY <3>1, DecodesText, Zenon
    <3>3. Len(b) \in Nat
      BY LenProperties
    <3>4. QED BY <3>2, <3>3
  <2>2. PICK raw \in Seq(Bytes), r \in Nat :
           /\ raw = SubSeq(b, u, u + n - 1) /\ r = u + n - 1 /\ u + n = r + 1
           /\ Len(raw) = n /\ (n > 0 => raw[1] = b[u])
           /\ p <= r /\ r <= Len(b)
           /\ EncodeHead(mt, n) \o raw = SubSeq(b, p, r)
    BY <1>7, <2>1, Zenon
  <2>3. raw = <<>> \/ raw[1] # Mark
    <3>1. n > 0 => b[u] # Mark
      BY <1>1, <1>3, <1>9 DEF Marked
    <3>2. n > 0 \/ raw = <<>>
      BY <2>2, EmptySeq
    <3>3. QED BY <2>2, <3>1, <3>2, Zenon
  <2>4. ReadText(raw) = <<raw>> /\ Chars(raw) \cap Broken = {} /\ Normal(raw) = raw
    BY <2>1, <2>2, <2>3, TextsAreWhole, Zenon
  <2>5. DecodeLeaf(b, ReadHead(b, p)) = <<<<"text", raw>>, r + 1>>
    <3>1. ~(u + n - 1 > Len(b))
      BY <2>1
    <3>2. DecodeLeaf(b, <<3, n, u>>) = <<<<"text", ReadText(raw)[1]>>, u + n>>
      BY <2>1, <2>2, <3>1, DecodesText, Zenon
    <3>3. ReadText(raw)[1] = raw
      BY <2>4
    <3>4. QED BY <1>1, <1>3, <1>9, <2>2, <3>2, <3>3, Zenon
  <2>6. EncodeLeaf(<<"text", raw>>) = EncodeHead(3, n) \o raw /\ IsLeaf(<<"text", raw>>)
    BY <2>2, <2>4 DEF EncodeLeaf, IsLeaf
  <2>7. EncodeLeaf(<<"text", raw>>) = SubSeq(b, p, r)
    BY <1>9, <2>2, <2>6, Zenon
  <2>8. QED BY <2>2, <2>5, <2>6, <2>7, Zenon
<1>10. CASE mt = 7
  <2>1. n \in (Inline - 4)..(Inline - 2) /\ DecodeLeaf(b, <<7, n, u>>) = <<<<"simple", n - Inline + 5>>, u>>
    BY <1>4, <1>10, DecodesSimple
  <2>2. EncodeLeaf(<<"simple", n - Inline + 5>>) = <<7 * Info + Inline - 5 + (n - Inline + 5)>>
        /\ IsLeaf(<<"simple", n - Inline + 5>>)
    BY DEF EncodeLeaf, IsLeaf
  <2>3. 7 * Info + Inline - 5 + (n - Inline + 5) = 7 * Info + n /\ n < Inline
    BY <2>1, Sizes
  <2>4. EncodeHead(7, n) = <<7 * Info + n>>
    BY <2>3 DEF EncodeHead
  <2>5. EncodeLeaf(<<"simple", n - Inline + 5>>) = SubSeq(b, p, q)
    BY <1>1, <1>10, <2>2, <2>3, <2>4, Zenon
  <2>6. DecodeLeaf(b, ReadHead(b, p)) = <<<<"simple", n - Inline + 5>>, q + 1>>
    BY <1>1, <1>3, <1>10, <2>1, Zenon
  <2>7. QED BY <1>1, <2>2, <2>5, <2>6, Zenon
<1>11. mt # 6
  BY <1>4, DecodesSimple
<1>12. mt \in {0, 1, 2, 3, 7}
  BY <1>2, <1>11
<1>13. QED BY <1>5, <1>6, <1>8, <1>9, <1>10, <1>12

LEMMA HeadsAreBytes ==
  ASSUME NEW mt \in 0..7, NEW arg \in Nat, Encodable(arg)
  PROVE  EncodeHead(mt, arg) \in Seq(Bytes) /\ Len(EncodeHead(mt, arg)) >= 1
<1>1. CASE arg < Inline /\ EncodeHead(mt, arg) = <<mt * Info + arg>>
  <2>1. arg \in 0..(Info - 1)
    BY <1>1, Sizes
  <2>2. mt * Info + arg \in Bytes
    BY <2>1, Initial
  <2>3. <<mt * Info + arg>> \in Seq(Bytes) /\ Len(<<mt * Info + arg>>) >= 1
    BY <2>2
  <2>4. QED BY <1>1, <2>3, Zenon
<1>2. ASSUME NEW k \in 1..4, NEW d \in Seq(Bytes),
             EncodeHead(mt, arg) = <<mt * Info + (Inline + k - 1)>> \o d
      PROVE  EncodeHead(mt, arg) \in Seq(Bytes) /\ Len(EncodeHead(mt, arg)) >= 1
  <2>1. Inline + k - 1 \in 0..(Info - 1)
    BY Sizes DEF Info
  <2>2. PICK c \in Bytes : c = mt * Info + (Inline + k - 1)
    BY <2>1, Initial
  <2>3. <<c>> \o d \in Seq(Bytes) /\ Len(<<c>> \o d) >= 1
    OBVIOUS
  <2>4. QED BY <1>2, <2>2, <2>3, Zenon
<1>3. QED BY <1>1, <1>2, Parts, Zenon

\* s stands in b from position p to position r.
Stands(s, b, p, r) == 1 <= p /\ p <= r + 1 /\ r <= Len(b) /\ SubSeq(b, p, r) = s

\* A head that Writer.head writes is read back by Reader.head wherever it stands,
\* and nothing before or after it matters.
THEOREM HeadsReadBack ==
  ASSUME NEW mt \in 0..7, NEW arg \in Nat, Encodable(arg),
         NEW b \in Seq(Bytes), NEW p \in Nat, NEW q \in Nat, Stands(EncodeHead(mt, arg), b, p, q)
  PROVE  ReadHead(b, p) = <<mt, arg, q + 1>>
<1>1. 1 <= p /\ p <= q + 1 /\ q <= Len(b) /\ SubSeq(b, p, q) = EncodeHead(mt, arg)
  BY DEF Stands
<1>2. Len(SubSeq(b, p, q)) = q - p + 1
  BY <1>1, Slice
<1>3. Len(EncodeHead(mt, arg)) >= 1
  BY HeadsAreBytes
<1>4. p <= q
  BY <1>1, <1>2, <1>3
<1>5. QED BY <1>1, <1>4, HeadsReadAt

\* d and e stand side by side, and make up the piece from p to r.
Apart(d, e, b, p, r) ==
  \E q \in Nat : /\ q + 1 = p + Len(d) /\ q + Len(e) = r
                 /\ SubSeq(b, p, q) = d /\ SubSeq(b, q + 1, r) = e

\* Where a concatenation stands, its parts stand side by side.
LEMMA SideBySide ==
  ASSUME NEW b \in Seq(Bytes), NEW p \in Nat, NEW r \in Nat,
         NEW d \in Seq(Bytes), NEW e \in Seq(Bytes), Stands(d \o e, b, p, r)
  PROVE  Apart(d, e, b, p, r)
<1>0. 1 <= p /\ p <= r + 1 /\ r <= Len(b) /\ SubSeq(b, p, r) = d \o e
  BY DEF Stands
<1>1. PICK m \in Nat, n \in Nat : m = Len(d) /\ n = Len(e)
  BY LenProperties
<1>2. /\ d \o e \in Seq(Bytes) /\ Len(d \o e) = m + n
      /\ \A i \in 1..(m + n) : (d \o e)[i] = IF i <= m THEN d[i] ELSE e[i - m]
  BY <1>1, ConcatProperties
<1>3. /\ r - p + 1 = m + n
      /\ \A i \in 1..(r - p + 1) : (d \o e)[i] = b[p + i - 1]
  BY <1>0, <1>2, Slice
<1>4. PICK q \in Nat : q + 1 = p + m
  <2>1. p + m - 1 \in Nat /\ (p + m - 1) + 1 = p + m
    BY <1>0
  <2>2. QED BY <2>1
<1>5. p <= q + 1 /\ q <= r /\ q + n = r /\ q <= Len(b) /\ q - p + 1 = m /\ r - q = n
  <2>1. PICK l \in Nat : l = Len(b) /\ r <= l
    BY <1>0, LenProperties
  <2>2. QED BY <1>0, <1>3, <1>4, <2>1
<1>6. SubSeq(b, p, q) = d
  <2>1. /\ SubSeq(b, p, q) \in Seq(Bytes) /\ Len(SubSeq(b, p, q)) = q - p + 1
        /\ \A i \in 1..(q - p + 1) : SubSeq(b, p, q)[i] = b[p + i - 1]
    BY <1>0, <1>5, Slice
  <2>2. ASSUME NEW i \in 1..m
        PROVE  d[i] = b[p + i - 1]
    <3>1. i \in 1..(m + n) /\ i \in 1..(r - p + 1) /\ i <= m
      BY <1>3
    <3>2. (d \o e)[i] = d[i]
      BY <1>2, <3>1
    <3>3. (d \o e)[i] = b[p + i - 1]
      BY <1>3, <3>1
    <3>4. QED BY <3>2, <3>3
  <2>3. QED BY <1>1, <1>5, <2>1, <2>2, SeqEqual
<1>7. PICK u \in Nat : u = q + 1
  OBVIOUS
<1>8. SubSeq(b, u, r) = e
  <2>1. /\ SubSeq(b, u, r) \in Seq(Bytes) /\ Len(SubSeq(b, u, r)) = r - u + 1
        /\ \A i \in 1..(r - u + 1) : SubSeq(b, u, r)[i] = b[u + i - 1]
    <3>1. 1 <= u /\ u <= r + 1 /\ r <= Len(b)
      BY <1>0, <1>5, <1>7
    <3>2. QED BY <3>1, Slice
  <2>2. r - u + 1 = n
    BY <1>5, <1>7
  <2>3. ASSUME NEW i \in 1..n
        PROVE  e[i] = b[u + i - 1]
    <3>1. PICK j \in 1..(m + n) : j = m + i /\ ~(j <= m) /\ j - m = i /\ p + j - 1 = u + i - 1
      <4>1. m + i \in 1..(m + n) /\ ~(m + i <= m) /\ (m + i) - m = i /\ p + (m + i) - 1 = u + i - 1
        BY <1>4, <1>7
      <4>2. QED BY <4>1
    <3>2. (d \o e)[j] = e[i]
      BY <1>2, <3>1
    <3>3. (d \o e)[j] = b[u + i - 1]
      BY <1>3, <3>1
    <3>4. QED BY <3>2, <3>3
  <2>4. QED BY <1>1, <2>1, <2>2, <2>3, SeqEqual
<1>9. QED BY <1>1, <1>4, <1>5, <1>6, <1>7, <1>8 DEF Apart

\* From p to r stand a head for mt and the length of x, and x after it.
Holds(mt, x, b, p, r) ==
  \E u \in Nat : /\ ReadHead(b, p) = <<mt, Len(x), u>>
                 /\ u + Len(x) = r + 1 /\ u + Len(x) - 1 = r
                 /\ SubSeq(b, u, u + Len(x) - 1) = x

LEMMA HeadAndContent ==
  ASSUME NEW b \in Seq(Bytes), NEW p \in Nat, NEW r \in Nat,
         NEW mt \in 0..7, NEW x \in Seq(Bytes), Encodable(Len(x)),
         Stands(EncodeHead(mt, Len(x)) \o x, b, p, r)
  PROVE  Holds(mt, x, b, p, r)
<1>1. PICK n \in Nat : n = Len(x)
  BY LenProperties
<1>2. PICK d \in Seq(Bytes) : d = EncodeHead(mt, n) /\ Len(d) >= 1
  BY <1>1, HeadsAreBytes
<1>3. PICK q \in Nat : /\ q + 1 = p + Len(d) /\ q + n = r
                       /\ SubSeq(b, p, q) = d /\ SubSeq(b, q + 1, r) = x
  <2>1. Stands(d \o x, b, p, r)
    BY <1>1, <1>2, Zenon
  <2>2. Apart(d, x, b, p, r)
    BY <2>1, SideBySide, Zenon
  <2>3. QED BY <1>1, <2>2, Zenon DEF Apart
<1>4. p <= q /\ q <= Len(b)
  <2>1. PICK l \in Nat : l = Len(b) /\ r <= l
    BY LenProperties DEF Stands
  <2>2. PICK m \in Nat : m = Len(d) /\ m >= 1
    BY <1>2, LenProperties
  <2>3. p <= q /\ q <= l
    BY <1>3, <2>1, <2>2
  <2>4. QED BY <2>1, <2>3
<1>5. ReadHead(b, p) = <<mt, n, q + 1>>
  <2>1. Stands(EncodeHead(mt, n), b, p, q) /\ Encodable(n)
    <3>1. SubSeq(b, p, q) = EncodeHead(mt, n) /\ Encodable(n)
      BY <1>1, <1>2, <1>3, Zenon
    <3>2. 1 <= p /\ p <= q + 1
      BY <1>4 DEF Stands
    <3>3. QED BY <1>4, <3>1, <3>2, Zenon DEF Stands
  <2>2. QED BY <1>4, <2>1, HeadsReadBack, Zenon
<1>6. PICK u \in Nat : u = q + 1
  OBVIOUS
<1>7. u + n = r + 1 /\ u + n - 1 = r
  BY <1>3, <1>6
<1>8. QED BY <1>1, <1>3, <1>5, <1>6, <1>7, Zenon DEF Holds

\* The values that hold no others, as the program may hold them, and what
\* reading makes of them.
Leaf == ({"simple"} \X (1..3)) \cup ({"int"} \X Int) \cup ({"bytes", "text"} \X Seq(Bytes))

NormalLeaf(v) == IF v[1] = "text" THEN <<"text", Normal(v[2])>> ELSE v

\* A byte string or text has a length that a head can hold.
Fits(v) == v[1] \in {"bytes", "text"} => Encodable(Len(v[2]))

\* A number, a byte string, a text or a constant that encodeInto writes
\* (cbor.ts:100-154) is read back by decodeItem wherever it stands, up to the
\* normal form of a text: what ReadAsWritten says of any value, for those that
\* hold no others.  A text that begins with a byte order mark is the exception.
THEOREM LeavesReadBack ==
  ASSUME NEW v \in Leaf, Fits(v), EncodeLeaf(v) # Refused,
         v[1] = "text" => Normal(v[2]) = <<>> \/ Normal(v[2])[1] # Mark,
         NEW b \in Seq(Bytes), NEW p \in Nat, NEW r \in Nat, Stands(EncodeLeaf(v), b, p, r)
  PROVE  DecodeLeaf(b, ReadHead(b, p)) = <<NormalLeaf(v), r + 1>>
<1>1. CASE v \in {"simple"} \X (1..3)
  <2>1. PICK x \in 1..3 : v = <<"simple", x>>
    BY <1>1
  <2>2. PICK n \in Nat : /\ n = Inline - 5 + x /\ n \in (Inline - 4)..(Inline - 2)
                         /\ n < Inline /\ n - Inline + 5 = x
    <3>1. /\ Inline - 5 + x \in Nat /\ Inline - 5 + x \in (Inline - 4)..(Inline - 2)
          /\ Inline - 5 + x < Inline /\ (Inline - 5 + x) - Inline + 5 = x
      BY Sizes
    <3>2. QED BY <3>1
  <2>3. EncodeLeaf(v) = <<7 * Info + Inline - 5 + x>>
    BY <2>1 DEF EncodeLeaf
  <2>4. 7 * Info + Inline - 5 + x = 7 * Info + n
    BY <2>2, Sizes
  <2>5. EncodeHead(7, n) = <<7 * Info + n>>
    BY <2>2 DEF EncodeHead
  <2>6. Encodable(n)
    <3>1. n < Byte4 /\ Byte4 <= Byte4 * Byte4
      BY <2>2, Sizes
    <3>2. QED BY <3>1, EncodableIs, Sizes
  <2>7. Stands(EncodeHead(7, n), b, p, r)
    BY <2>3, <2>4, <2>5, Zenon
  <2>8. ReadHead(b, p) = <<7, n, r + 1>>
    BY <2>6, <2>7, HeadsReadBack
  <2>9. DecodeLeaf(b, <<7, n, r + 1>>) = <<<<"simple", n - Inline + 5>>, r + 1>>
    BY <2>2, DecodesSimple, Zenon
  <2>10. NormalLeaf(v) = <<"simple", n - Inline + 5>>
    BY <2>1, <2>2 DEF NormalLeaf
  <2>11. QED BY <2>8, <2>9, <2>10, Zenon
<1>2. CASE v \in {"int"} \X Int
  <2>1. PICK x \in Int : v = <<"int", x>>
    BY <1>2
  <2>2. NormalLeaf(v) = <<"int", x>>
    BY <2>1 DEF NormalLeaf
  <2>3. CASE x >= 0
    <3>1. EncodeLeaf(v) = EncodeHead(0, x)
      BY <2>1, <2>3 DEF EncodeLeaf
    <3>2. x \in Nat
      BY <2>3
    <3>3. Encodable(x)
      <4>1. CASE x < Inline
        <5>1. x < Byte4 /\ Byte4 <= Byte4 * Byte4
          BY <4>1, Sizes
        <5>2. QED BY <3>2, <5>1, EncodableIs, Sizes
      <4>2. CASE ~(x < Inline)
        BY <3>1, <4>2 DEF EncodeHead
      <4>3. QED BY <4>1, <4>2
    <3>4. Stands(EncodeHead(0, x), b, p, r)
      BY <3>1, Zenon
    <3>5. ReadHead(b, p) = <<0, x, r + 1>>
      BY <3>2, <3>3, <3>4, HeadsReadBack
    <3>6. DecodeLeaf(b, <<0, x, r + 1>>) = <<<<"int", x>>, r + 1>>
      BY <3>2, DecodesNatural, Zenon
    <3>7. QED BY <2>2, <3>5, <3>6, Zenon
  <2>4. CASE ~(x >= 0)
    <3>1. PICK n \in Nat : n = -x - 1 /\ -n - 1 = x
      <4>1. -x - 1 \in Nat /\ -(-x - 1) - 1 = x
        BY <2>4
      <4>2. QED BY <4>1
    <3>2. EncodeLeaf(v) = EncodeHead(1, n)
      BY <2>1, <2>4, <3>1 DEF EncodeLeaf
    <3>3. Encodable(n)
      <4>1. CASE n < Inline
        <5>1. n < Byte4 /\ Byte4 <= Byte4 * Byte4
          BY <4>1, Sizes
        <5>2. QED BY <5>1, EncodableIs, Sizes
      <4>2. CASE ~(n < Inline)
        BY <3>2, <4>2 DEF EncodeHead
      <4>3. QED BY <4>1, <4>2
    <3>4. Stands(EncodeHead(1, n), b, p, r)
      BY <3>2, Zenon
    <3>5. ReadHead(b, p) = <<1, n, r + 1>>
      BY <3>3, <3>4, HeadsReadBack
    <3>6. DecodeLeaf(b, <<1, n, r + 1>>) = <<<<"int", -n - 1>>, r + 1>>
      BY DecodesNegative, Zenon
    <3>7. QED BY <2>2, <3>1, <3>5, <3>6, Zenon
  <2>5. QED BY <2>3, <2>4
<1>3. CASE v \in {"bytes"} \X Seq(Bytes)
  <2>1. PICK x \in Seq(Bytes) : v = <<"bytes", x>>
    BY <1>3
  <2>2. EncodeLeaf(v) = EncodeHead(2, Len(x)) \o x /\ NormalLeaf(v) = <<"bytes", x>>
    BY <2>1 DEF EncodeLeaf, NormalLeaf
  <2>3. Encodable(Len(x))
    BY <2>1 DEF Fits
  <2>4. PICK u \in Nat : /\ ReadHead(b, p) = <<2, Len(x), u>>
                         /\ u + Len(x) = r + 1 /\ u + Len(x) - 1 = r
                         /\ SubSeq(b, u, u + Len(x) - 1) = x
    <3>1. Stands(EncodeHead(2, Len(x)) \o x, b, p, r)
      BY <2>2, Zenon
    <3>2. 2 \in 0..7
      OBVIOUS
    <3>3. Holds(2, x, b, p, r)
      BY <2>3, <3>1, <3>2, HeadAndContent, Zenon
    <3>4. QED BY <3>3, Zenon DEF Holds
  <2>5. ~(u + Len(x) - 1 > Len(b)) /\ Len(x) \in Nat
    <3>1. PICK l \in Nat : l = Len(b) /\ r <= l
      BY LenProperties DEF Stands
    <3>2. QED BY <2>4, <3>1, LenProperties
  <2>6. DecodeLeaf(b, <<2, Len(x), u>>) = <<<<"bytes", x>>, r + 1>>
    <3>1. DecodeLeaf(b, <<2, Len(x), u>>) = <<<<"bytes", SubSeq(b, u, u + Len(x) - 1)>>, u + Len(x)>>
      BY <2>5, DecodesBytes, Zenon
    <3>2. QED BY <2>4, <3>1, Zenon
  <2>7. QED BY <2>2, <2>4, <2>6, Zenon
<1>4. CASE v \in {"text"} \X Seq(Bytes)
  <2>1. PICK x \in Seq(Bytes) : v = <<"text", x>>
    BY <1>4
  <2>2. Chars(x) \cap Broken = {}
    BY <2>1 DEF EncodeLeaf
  <2>3. EncodeLeaf(v) = EncodeHead(3, Len(x)) \o Normal(x) /\ NormalLeaf(v) = <<"text", Normal(x)>>
    BY <2>1, <2>2 DEF EncodeLeaf, NormalLeaf
  <2>4. PICK y \in Seq(Bytes) : /\ y = Normal(x) /\ Len(y) = Len(x) /\ Normal(y) = y
                                /\ Chars(y) \cap Broken = {}
    BY <2>2, NormalIs
  <2>5. Encodable(Len(y))
    BY <2>1, <2>4 DEF Fits
  <2>6. PICK u \in Nat : /\ ReadHead(b, p) = <<3, Len(y), u>>
                         /\ u + Len(y) = r + 1 /\ u + Len(y) - 1 = r
                         /\ SubSeq(b, u, u + Len(y) - 1) = y
    <3>1. Stands(EncodeHead(3, Len(y)) \o y, b, p, r)
      BY <2>3, <2>4, Zenon
    <3>2. 3 \in 0..7
      OBVIOUS
    <3>3. Holds(3, y, b, p, r)
      BY <2>5, <3>1, <3>2, HeadAndContent, Zenon
    <3>4. QED BY <3>3, Zenon DEF Holds
  <2>7. ~(u + Len(y) - 1 > Len(b)) /\ Len(y) \in Nat
    <3>1. PICK l \in Nat : l = Len(b) /\ r <= l
      BY LenProperties DEF Stands
    <3>2. QED BY <2>6, <3>1, LenProperties
  <2>8. y = <<>> \/ y[1] # Mark
    BY <2>1, <2>4
  <2>9. ReadText(y) = <<y>>
    BY <2>4, <2>8 DEF ReadText
  <2>10. ReadText(y) # Refused /\ ReadText(y)[1] = y
    BY <2>9 DEF Refused
  <2>11. DecodeLeaf(b, <<3, Len(y), u>>) = <<<<"text", y>>, r + 1>>
    <3>1. ReadText(SubSeq(b, u, u + Len(y) - 1)) # Refused
      BY <2>6, <2>10, Zenon
    <3>2. DecodeLeaf(b, <<3, Len(y), u>>) =
            <<<<"text", ReadText(SubSeq(b, u, u + Len(y) - 1))[1]>>, u + Len(y)>>
      BY <2>7, <3>1, DecodesText, Zenon
    <3>3. QED BY <2>6, <2>10, <3>2, Zenon
  <2>12. QED BY <2>3, <2>4, <2>6, <2>11, Zenon
<1>5. QED BY <1>1, <1>2, <1>3, <1>4 DEF Leaf

-----------------------------------------------------------------------------
(* The order of byte strings, and of the keys of a map.                      *)

\* A set of natural numbers that is not empty has a least element: the induction
\* that the order of byte strings and of keys needs.
LEMMA LeastOf ==
  ASSUME NEW T \in SUBSET Nat, T # {}
  PROVE \E n \in T : \A m \in T : n <= m
<1> DEFINE F == {1..n : n \in T}
           R == StrictSubsetOrdering(Nat)
<1>1. IsWellFoundedOn(R, FiniteSubsetsOf(Nat))
  BY FS_StrictSubsetOrderingWellFounded
<1>2. F \subseteq FiniteSubsetsOf(Nat)
  BY FS_Interval DEF FiniteSubsetsOf
<1>3. F # {}
  OBVIOUS
<1> HIDE DEF F, R
<1>4. PICK x \in F : \A y \in F : ~ (<<y, x>> \in R)
  BY <1>1, <1>2, <1>3, WFMin
<1> USE DEF F, R
<1>5. PICK n \in T : x = 1..n
  OBVIOUS
<1>6. ASSUME NEW m \in T, m < n PROVE FALSE
  <2>1. 1..m \in SUBSET Nat /\ 1..n \in SUBSET Nat /\ 1..m \subseteq 1..n /\ 1..m # 1..n
    <3>1. n \in 1..n /\ n \notin 1..m
      BY <1>6
    <3>2. QED BY <1>6, <3>1
  <2>2. <<1..m, 1..n>> \in R
    BY <2>1 DEF StrictSubsetOrdering
  <2>3. QED BY <1>4, <1>5, <2>2
<1>7. QED BY <1>6

\* Before, said by lengths instead of domains.
LEMMA BeforeIs ==
  ASSUME NEW a \in Seq(Bytes), NEW e \in Seq(Bytes)
  PROVE  Before(a, e) <=>
           \/ \E i \in 1..Len(a) : /\ i <= Len(e) /\ a[i] < e[i]
                                   /\ \A j \in 1..(i - 1) : a[j] = e[j]
           \/ Len(a) < Len(e) /\ \A j \in 1..Len(a) : a[j] = e[j]
<1>1. DOMAIN a = 1..Len(a) /\ DOMAIN e = 1..Len(e) /\ Len(a) \in Nat /\ Len(e) \in Nat
  BY LenProperties
<1>2. DOMAIN a \cap DOMAIN e = {i \in 1..Len(a) : i <= Len(e)}
  BY <1>1
<1>3. QED BY <1>1, <1>2 DEF Before

LEMMA BytesAreNumbers == \A a \in Seq(Bytes) : \A i \in 1..Len(a) : a[i] \in Int
<1>1. Bytes \subseteq Int
  BY Sizes DEF Bytes
<1>2. QED BY <1>1, ElementOfSeq

\* compareBytes (cbor.ts:200-206) orders the byte strings of any length totally:
\* sorting entries by it and comparing neighbours finds every duplicate key.
THEOREM BytesAreOrdered ==
  /\ \A a \in Seq(Bytes) : ~Before(a, a)
  /\ \A a, b, c \in Seq(Bytes) : Before(a, b) /\ Before(b, c) => Before(a, c)
  /\ \A a, b \in Seq(Bytes) : a = b \/ Before(a, b) \/ Before(b, a)
<1>1. ASSUME NEW a \in Seq(Bytes)
      PROVE  ~Before(a, a)
  <2>1. Len(a) \in Nat /\ \A i \in 1..Len(a) : a[i] \in Int
    BY LenProperties, BytesAreNumbers
  <2>2. QED BY <2>1, BeforeIs
<1>2. ASSUME NEW a \in Seq(Bytes), NEW b \in Seq(Bytes), NEW c \in Seq(Bytes), Before(a, b), Before(b, c)
      PROVE  Before(a, c)
  <2> DEFINE First(s, t, i) == /\ i <= Len(s) /\ i <= Len(t) /\ s[i] < t[i]
                               /\ \A j \in 1..(i - 1) : s[j] = t[j]
             Prefix(s, t) == Len(s) < Len(t) /\ \A j \in 1..Len(s) : s[j] = t[j]
  <2>1. /\ Len(a) \in Nat /\ Len(b) \in Nat /\ Len(c) \in Nat
        /\ \A i \in 1..Len(a) : a[i] \in Int
        /\ \A i \in 1..Len(b) : b[i] \in Int
        /\ \A i \in 1..Len(c) : c[i] \in Int
    BY LenProperties, BytesAreNumbers
  <2>2. (\E i \in Nat \ {0} : First(a, b, i)) \/ Prefix(a, b)
    BY <1>2, <2>1, BeforeIs
  <2>3. (\E i \in Nat \ {0} : First(b, c, i)) \/ Prefix(b, c)
    BY <1>2, <2>1, BeforeIs
  <2>4. SUFFICES (\E i \in Nat \ {0} : First(a, c, i)) \/ Prefix(a, c)
    BY <2>1, BeforeIs
  <2>5. CASE Prefix(a, b) /\ Prefix(b, c)
    BY <2>1, <2>5
  <2>6. ASSUME Prefix(a, b), NEW k \in Nat \ {0}, First(b, c, k)
        PROVE  (\E i \in Nat \ {0} : First(a, c, i)) \/ Prefix(a, c)
    <3>1. CASE k <= Len(a)
      <4>1. First(a, c, k)
        BY <2>1, <2>6, <3>1
      <4>2. QED BY <4>1
    <3>2. CASE Len(a) < k
      <4>1. Prefix(a, c)
        BY <2>1, <2>6, <3>2
      <4>2. QED BY <4>1
    <3>3. QED BY <2>1, <3>1, <3>2
  <2>7. ASSUME NEW k \in Nat \ {0}, First(a, b, k), Prefix(b, c)
        PROVE  \E i \in Nat \ {0} : First(a, c, i)
    <3>1. First(a, c, k)
      BY <2>1, <2>7
    <3>2. QED BY <3>1
  <2>8. ASSUME NEW k \in Nat \ {0}, First(a, b, k), NEW l \in Nat \ {0}, First(b, c, l)
        PROVE  \E i \in Nat \ {0} : First(a, c, i)
    <3>1. CASE k <= l
      <4>1. First(a, c, k)
        BY <2>1, <2>8, <3>1
      <4>2. QED BY <4>1
    <3>2. CASE l < k
      <4>1. First(a, c, l)
        BY <2>1, <2>8, <3>2
      <4>2. QED BY <4>1
    <3>3. QED BY <3>1, <3>2
  <2> HIDE DEF First, Prefix
  <2>9. QED BY <2>2, <2>3, <2>5, <2>6, <2>7, <2>8
<1>3. ASSUME NEW a \in Seq(Bytes), NEW b \in Seq(Bytes), a # b, Len(a) <= Len(b)
      PROVE  Before(a, b) \/ Before(b, a)
  <2>1. /\ Len(a) \in Nat /\ Len(b) \in Nat
        /\ \A i \in 1..Len(a) : a[i] \in Int
        /\ \A i \in 1..Len(b) : b[i] \in Int
    BY LenProperties, BytesAreNumbers
  <2> DEFINE T == {i \in 1..Len(a) : a[i] # b[i]}
  <2>2. CASE T = {}
    <3>1. \A i \in 1..Len(a) : a[i] = b[i]
      BY <2>2
    <3>2. Len(a) < Len(b)
      BY <1>3, <2>1, <3>1, SeqEqual
    <3>3. QED BY <3>1, <3>2, BeforeIs
  <2>3. CASE T # {}
    <3>1. T \in SUBSET Nat
      BY <2>1
    <3>2. PICK k \in T : \A m \in T : k <= m
      <4> HIDE DEF T
      <4>1. QED BY <2>3, <3>1, LeastOf
    <3>3. k \in 1..Len(a) /\ k \in 1..Len(b) /\ \A j \in 1..(k - 1) : a[j] = b[j]
      BY <1>3, <2>1, <3>2
    <3>4. a[k] < b[k] \/ b[k] < a[k]
      BY <2>1, <3>2, <3>3
    <3>5. CASE a[k] < b[k]
      <4>1. \E i \in 1..Len(a) : i <= Len(b) /\ a[i] < b[i] /\ \A j \in 1..(i - 1) : a[j] = b[j]
        BY <2>1, <3>3, <3>5
      <4>2. QED BY <4>1, BeforeIs
    <3>6. CASE b[k] < a[k]
      <4>1. \E i \in 1..Len(b) : i <= Len(a) /\ b[i] < a[i] /\ \A j \in 1..(i - 1) : b[j] = a[j]
        BY <2>1, <3>3, <3>6
      <4>2. QED BY <4>1, BeforeIs
    <3>7. QED BY <3>4, <3>5, <3>6
  <2>4. QED BY <2>2, <2>3
<1>4. \A a, b \in Seq(Bytes) : Len(a) <= Len(b) \/ Len(b) <= Len(a)
  BY LenProperties
<1>5. QED BY <1>1, <1>2, <1>3, <1>4

\* The keys of a map as the reader accepts them: each after the one before it.
\* The encoding of a key is not empty, so only the first one follows nothing.
Accepted(keys) == /\ keys \in Seq(Seq(Bytes) \ {<<>>})
                  /\ \A i \in 2..Len(keys) : InOrder(keys[i - 1], keys[i])

LEMMA KeysAscend ==
  ASSUME NEW keys, Accepted(keys), NEW i \in 1..Len(keys), NEW j \in 1..Len(keys), i < j
  PROVE  Before(keys[i], keys[j])
<1>1. Len(keys) \in Nat /\ \A k \in 1..Len(keys) : keys[k] \in Seq(Bytes) /\ keys[k] # <<>>
  <2>1. keys \in Seq(Seq(Bytes) \ {<<>>})
    BY DEF Accepted
  <2>2. QED BY <2>1, LenProperties, ElementOfSeq
<1>2. \A k \in 2..Len(keys) : Before(keys[k - 1], keys[k])
  <2>1. \A k \in 2..Len(keys) : k - 1 \in 1..Len(keys)
    BY <1>1
  <2>2. QED BY <1>1, <2>1 DEF Accepted, InOrder
<1> DEFINE T == {k \in (i + 1)..Len(keys) : ~Before(keys[i], keys[k])}
<1>3. SUFFICES ASSUME T # {}
               PROVE  FALSE
  <2>1. j \in (i + 1)..Len(keys)
    BY <1>1
  <2>2. QED BY <2>1
<1>4. T \in SUBSET Nat
  BY <1>1
<1>5. PICK k \in T : \A m \in T : k <= m
  <2> HIDE DEF T
  <2>1. QED BY <1>3, <1>4, LeastOf
<1>6. k \in (i + 1)..Len(keys) /\ ~Before(keys[i], keys[k])
  BY <1>5
<1>7. k \in 2..Len(keys) /\ k - 1 \in 1..Len(keys) /\ k - 1 \notin T
  <2>1. ~(k <= k - 1)
    BY <1>1, <1>6
  <2>2. k - 1 \notin T
    BY <1>5, <2>1
  <2>3. k \in 2..Len(keys) /\ k - 1 \in 1..Len(keys)
    BY <1>1, <1>6
  <2>4. QED BY <2>2, <2>3
<1>8. Before(keys[k - 1], keys[k])
  BY <1>2, <1>7
<1>9. CASE k - 1 = i
  BY <1>6, <1>8, <1>9
<1>10. CASE k - 1 # i
  <2>1. k - 1 \in (i + 1)..Len(keys)
    BY <1>1, <1>6, <1>10
  <2>2. Before(keys[i], keys[k - 1])
    BY <1>7, <2>1
  <2>3. keys[i] \in Seq(Bytes) /\ keys[k - 1] \in Seq(Bytes) /\ keys[k] \in Seq(Bytes)
    BY <1>1, <1>7
  <2>4. QED BY <1>6, <1>8, <2>2, <2>3, BytesAreOrdered, Zenon
<1>11. QED BY <1>9, <1>10

\* The reader compares a key with the one before it only (cbor.ts:323-330), and so
\* accepts no key twice: a map that is read has as many entries as its head says.
THEOREM KeysComeOnce ==
  ASSUME NEW keys, Accepted(keys), NEW i \in 1..Len(keys), NEW j \in 1..Len(keys), keys[i] = keys[j]
  PROVE  i = j
<1>1. keys[i] \in Seq(Bytes)
  <2>1. keys \in Seq(Seq(Bytes) \ {<<>>})
    BY DEF Accepted
  <2>2. QED BY <2>1, ElementOfSeq
<1>2. ~Before(keys[i], keys[j]) /\ ~Before(keys[j], keys[i])
  BY <1>1, BytesAreOrdered
<1>3. ~(i < j) /\ ~(j < i)
  BY <1>2, KeysAscend
<1>4. QED BY <1>3

\* Comparing neighbours (cbor.ts:323-330) accepts the keys of a map in one order
\* only: two accepted listings of the same keys are one listing, so a map of given
\* entries has one encoding.
THEOREM KeysHaveOneOrder ==
  ASSUME NEW s, NEW t, Accepted(s), Accepted(t),
         {s[i] : i \in 1..Len(s)} = {t[i] : i \in 1..Len(t)}
  PROVE  s = t
<1> DEFINE K == Seq(Bytes) \ {<<>>}
<1>1. s \in Seq(K) /\ t \in Seq(K)
  BY DEF Accepted
<1>2. /\ Len(s) \in Nat /\ Len(t) \in Nat
      /\ \A i \in 1..Len(s) : s[i] \in Seq(Bytes)
      /\ \A i \in 1..Len(t) : t[i] \in Seq(Bytes)
  BY <1>1, LenProperties, ElementOfSeq
<1>3. \A i \in 1..Len(s) : \E j \in 1..Len(t) : s[i] = t[j]
  OBVIOUS
<1>4. \A i \in 1..Len(t) : \E j \in 1..Len(s) : t[i] = s[j]
  OBVIOUS
\* Up to the least index where they differ or one ends.
<1> DEFINE Same(k) == k <= Len(s) /\ k <= Len(t) /\ s[k] = t[k]
           T == {k \in Nat \ {0} : (k <= Len(s) \/ k <= Len(t)) /\ ~Same(k)}
<1>5. CASE T = {}
  <2>1. \A k \in Nat \ {0} : k <= Len(s) \/ k <= Len(t) => Same(k)
    BY <1>5
  <2>2. Len(s) = Len(t)
    <3>1. Len(s) > 0 => Len(s) <= Len(t)
      BY <1>2, <2>1
    <3>2. Len(t) > 0 => Len(t) <= Len(s)
      BY <1>2, <2>1
    <3>3. QED BY <1>2, <3>1, <3>2
  <2>3. \A i \in 1..Len(s) : s[i] = t[i]
    BY <1>2, <2>1
  <2>4. QED BY <1>1, <2>2, <2>3, SeqEqual
<1>6. CASE T # {}
  <2>1. T \in SUBSET Nat
    OBVIOUS
  <2>2. PICK k \in T : \A m \in T : k <= m
    <3> HIDE DEF T
    <3>1. QED BY <1>6, <2>1, LeastOf
  <2>3. k \in Nat \ {0} /\ (k <= Len(s) \/ k <= Len(t)) /\ ~Same(k)
    BY <2>2
  <2>4. \A m \in 1..(k - 1) : m <= Len(s) /\ m <= Len(t) /\ s[m] = t[m]
    <3>1. ASSUME NEW m \in 1..(k - 1)
          PROVE  m <= Len(s) /\ m <= Len(t) /\ s[m] = t[m]
      <4>1. m \in Nat \ {0} /\ ~(k <= m) /\ (m <= Len(s) \/ m <= Len(t))
        BY <1>2, <2>3
      <4>2. m \notin T
        BY <2>2, <4>1
      <4>3. Same(m)
        BY <4>1, <4>2
      <4>4. QED BY <4>3
    <3>2. QED BY <3>1
  <2>5. ASSUME k \in 1..Len(s)
        PROVE  \E j \in 1..Len(t) : k < j /\ s[k] = t[j]
    <3>1. PICK j \in 1..Len(t) : s[k] = t[j]
      BY <1>3, <2>5
    <3>2. ~(j < k)
      <4>1. SUFFICES ASSUME j < k
                     PROVE  FALSE
        OBVIOUS
      <4>2. j \in 1..Len(s) /\ s[j] = t[j]
        BY <2>3, <2>4, <4>1
      <4>3. j = k
        BY <2>5, <3>1, <4>2, KeysComeOnce
      <4>4. QED BY <4>1, <4>3
    <3>3. j # k
      BY <2>3, <2>5, <3>1
    <3>4. QED BY <2>3, <3>1, <3>2, <3>3
  <2>6. ASSUME k \in 1..Len(t)
        PROVE  \E j \in 1..Len(s) : k < j /\ t[k] = s[j]
    <3>1. PICK j \in 1..Len(s) : t[k] = s[j]
      BY <1>4, <2>6
    <3>2. ~(j < k)
      <4>1. SUFFICES ASSUME j < k
                     PROVE  FALSE
        OBVIOUS
      <4>2. j \in 1..Len(t) /\ s[j] = t[j]
        BY <2>3, <2>4, <4>1
      <4>3. j = k
        BY <2>6, <3>1, <4>2, KeysComeOnce
      <4>4. QED BY <4>1, <4>3
    <3>3. j # k
      BY <2>3, <2>6, <3>1
    <3>4. QED BY <2>3, <3>1, <3>2, <3>3
  \* Whichever listing goes on at k, its key at k comes later in the other one,
  \* which so has a key at k too: each of the two keys is before the other.
  <2>7. k \in 1..Len(s) /\ k \in 1..Len(t)
    <3>1. k \in 1..Len(s) \/ k \in 1..Len(t)
      BY <1>2, <2>3
    <3>2. QED BY <1>2, <2>3, <2>5, <2>6, <3>1
  <2>8. PICK j \in 1..Len(t) : k < j /\ s[k] = t[j]
    BY <2>5, <2>7
  <2>9. PICK l \in 1..Len(s) : k < l /\ t[k] = s[l]
    BY <2>6, <2>7
  <2>10. Before(t[k], s[k]) /\ Before(s[k], t[k])
    <3>1. Before(t[k], t[j])
      BY <2>7, <2>8, KeysAscend
    <3>2. Before(s[k], s[l])
      BY <2>7, <2>9, KeysAscend
    <3>3. QED BY <2>8, <2>9, <3>1, <3>2
  <2>11. s[k] \in Seq(Bytes) /\ t[k] \in Seq(Bytes)
    BY <1>2, <2>7
  <2>12. QED BY <2>10, <2>11, BytesAreOrdered, Zenon
<1>7. QED BY <1>5, <1>6
=============================================================================
