----------------------------- MODULE RecordStore -----------------------------
(****************************************************************************)
(* The current view of a store: which of a scout's records about one robot  *)
(* in one match count, when corrections, rival entries and other scouts'    *)
(* pointers arrive in any order (courier-core: store.ts, record.ts).        *)
(*                                                                          *)
(* Records are immutable.  An id is a number, larger meaning later in the   *)
(* byte order of the hashes: that order has nothing to do with the order of *)
(* sealing, so a new record may take any free number.  A record can only    *)
(* point at one that exists, because it would have to contain its hash.     *)
(****************************************************************************)
EXTENDS Integers, FiniteSets

CONSTANTS Device,         \* devices whose view is looked at
          Observation,    \* event, match and team
          Scout,          \* pseudonyms
          Body,           \* what was observed
          RecordId,       \* ids, a set of positive numbers
          REVISION_MAX    \* largest revision a record may carry

ASSUME RecordIdAssumption == RecordId \subseteq Nat \ {0}
ASSUME RevisionAssumption == REVISION_MAX \in Nat

None == 0   \* supersedes: null

Record == [id : RecordId, obs : Observation, scout : Scout, body : Body,
           revision : 0 .. REVISION_MAX, supersedes : RecordId \cup {None}]

(* What validateRecord asks of the two revision fields.                     *)
ValidRevision(r) ==
  /\ r.revision \in 0 .. REVISION_MAX
  /\ r.supersedes # None => r.revision >= 1

(* Seeded defect of Later: revisions are not looked at.                     *)
LaterById(a, b) == a.id > b.id

(* compareRecords(a, b) > 0                                                 *)
Later(a, b) == a.revision > b.revision \/ (a.revision = b.revision /\ a.id > b.id)

Latest(S) == CHOOSE r \in S : \A s \in S \ {r} : Later(r, s)

----------------------------------------------------------------------------
(* The view of a set of held records.                                       *)

ForObservation(held, obs) == {r \in held : r.obs = obs}

(* Seeded defect of Superseded: a pointer is honoured whoever wrote it.     *)
SupersededByAnyone(S) == {r \in S : \E s \in S : s.supersedes = r.id}

(* Pointers count between two records of one scout that are both held.      *)
Superseded(S) == {r \in S : \E s \in S : s.supersedes = r.id /\ s.scout = r.scout}

Rivals(held, obs, scout) ==
  LET all == ForObservation(held, obs)
  IN  {r \in all \ Superseded(all) : r.scout = scout}

(* Seeded defect of CurrentForObservation: the highest revision of the      *)
(* observation speaks for all of its scouts.                                *)
CurrentOfAnyScout(held, obs) ==
  LET all == ForObservation(held, obs)
  IN  IF all = {} THEN {} ELSE {Latest(all)}

CurrentForObservation(held, obs) ==
  {Latest(Rivals(held, obs, s)) : s \in {t \in Scout : Rivals(held, obs, t) # {}}}

CurrentRecords(held) == UNION {CurrentForObservation(held, o) : o \in Observation}

(* A choice between different bodies that no held pointer explains.         *)
Conflict(held, obs, scout) ==
  LET kept == Latest(Rivals(held, obs, scout))
  IN  [obs |-> obs, scout |-> scout, kept |-> kept,
       dropped |-> {r \in Rivals(held, obs, scout) : r.body # kept.body}]

AllConflicts(held) ==
  {Conflict(held, p[1], p[2]) : p \in {q \in Observation \X Scout : Rivals(held, q[1], q[2]) # {}}}

(* Seeded defect of Conflicts: only rivals of one revision are reported.    *)
ConflictsOfOneRevision(held) ==
  {c \in AllConflicts(held) : \E r \in c.dropped : r.revision = c.kept.revision}

Conflicts(held) == {c \in AllConflicts(held) : c.dropped # {}}

----------------------------------------------------------------------------
VARIABLES sealed,   \* every record sealed anywhere in the mesh
          held      \* what each device's store has admitted so far

vars == <<sealed, held>>

Init == sealed = {} /\ held = [d \in Device |-> {}]

SealRecord(r) ==
  /\ ValidRevision(r)
  /\ r.id \notin {s.id : s \in sealed}
  /\ sealed' = sealed \cup {r}
  /\ UNCHANGED held

(* A first entry, or the same sheet scanned again: makeRecord's defaults.   *)
Observe(id, obs, scout, body) ==
  SealRecord([id |-> id, obs |-> obs, scout |-> scout, body |-> body,
              revision |-> 0, supersedes |-> None])

(* supersede(): the next revision of a record, by the same scout.           *)
Correction(id, previous, body) ==
  [previous EXCEPT !.id = id, !.body = body, !.supersedes = previous.id, !.revision = @ + 1]

Correct(id, previous, body) == SealRecord(Correction(id, previous, body))

(* `supersedes` is whatever its author puts there: here, another scout's    *)
(* record or one of another observation, under any revision.                *)
PointElsewhere(id, obs, scout, body, revision, target) ==
  /\ target.scout # scout \/ target.obs # obs
  /\ SealRecord([id |-> id, obs |-> obs, scout |-> scout, body |-> body,
                 revision |-> revision, supersedes |-> target.id])

(* A record reaches a store: any that exists, in any order.                 *)
Admit(d, r) ==
  /\ r \notin held[d]
  /\ held' = [held EXCEPT ![d] = @ \cup {r}]
  /\ UNCHANGED sealed

Next ==
  \/ \E id \in RecordId, o \in Observation, s \in Scout, b \in Body : Observe(id, o, s, b)
  \/ \E id \in RecordId, r \in sealed, b \in Body : Correct(id, r, b)
  \/ \E id \in RecordId, o \in Observation, s \in Scout, b \in Body,
        n \in 1 .. REVISION_MAX, t \in sealed : PointElsewhere(id, o, s, b, n, t)
  \/ \E d \in Device : \E r \in sealed : Admit(d, r)

Spec == Init /\ [][Next]_vars

----------------------------------------------------------------------------
(* Properties.                                                              *)

(* Types; ids identify records, and pointers lead to older records.         *)
TypeOK ==
  /\ sealed \subseteq Record
  /\ held \in [Device -> SUBSET sealed]
  /\ \A r, s \in sealed : r.id = s.id => r = s

(* No scout who has a record about a robot in a store is ever left out of   *)
(* its current view, and none is in it twice: nobody's pointers, and no     *)
(* order of arrival, silence a scout or double one (store.ts 143-158).      *)
EveryScoutSpeaksOnce ==
  \A d \in Device, o \in Observation, s \in Scout :
     LET heard == \E r \in held[d] : r.obs = o /\ r.scout = s
     IN  Cardinality({r \in CurrentForObservation(held[d], o) : r.scout = s}) =
           (IF heard THEN 1 ELSE 0)

(* The record a scout is heard by changes only on records of that scout     *)
(* about that robot: what others seal cannot move it.                       *)
Voice(S, o, s) == {r \in CurrentForObservation(S, o) : r.scout = s}

OnlyOwnRecordsMoveAVoice ==
  [][\A d \in Device, o \in Observation, s \in Scout :
        Voice(held[d], o, s) # Voice(held'[d], o, s) =>
          \E r \in held'[d] \ held[d] : r.obs = o /\ r.scout = s]_vars

(* A pointer that counts.                                                   *)
Corrects(a, b) == a.supersedes = b.id /\ a.scout = b.scout /\ a.obs = b.obs

(* b was corrected by a, directly or through corrections that may not have  *)
(* arrived here: b is in every set of records that holds what a corrects    *)
(* and, with a record, what that corrects.                                  *)
Supersedes(a, b) ==
  \A S \in SUBSET sealed :
     (\A x \in S \cup {a} : {y \in sealed : Corrects(x, y)} \subseteq S) => b \in S

(* A record is never current in a store that also holds a later correction  *)
(* of it, even when the corrections in between have not arrived.            *)
CorrectionsStick ==
  \A d \in Device : \A r \in CurrentRecords(held[d]) : ~\E a \in held[d] : Supersedes(a, r)

(* When the view hides one of a scout's records, either a correction of it  *)
(* is held, or the record kept says the same, or the conflict is reported:  *)
(* no choice passes unmentioned (store.ts 242-245).                         *)
NoSilentChoice ==
  \A d \in Device : \A r \in held[d] :
     \/ r \in CurrentRecords(held[d])
     \/ \E a \in held[d] : Supersedes(a, r)
     \/ \E k \in Voice(held[d], r.obs, r.scout) : k.body = r.body
     \/ \E c \in Conflicts(held[d]) : r \in c.dropped
=============================================================================
