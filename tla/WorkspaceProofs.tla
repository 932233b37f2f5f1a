---------------------------- MODULE WorkspaceProofs ----------------------------
(****************************************************************************)
(* Pairing and the files, for any number of devices, events and commands.   *)
(****************************************************************************)
EXTENDS Workspace, TLAPS

----------------------------------------------------------------------------
(* The registry.                                                            *)

(* Learning keys leaves a registry a registry.                              *)
LEMMA AddType ==
  ASSUME NEW known \in [Device -> Trust], NEW keys
  PROVE  Add(known, keys) \in [Device -> Trust]
BY DEF Add, Trust

(* What learning a key does to each entry: revoked stays, known stays       *)
(* known, and only the keys learned become active.                          *)
LEMMA AddEntry ==
  ASSUME NEW known \in [Device -> Trust], NEW keys, NEW k \in Device
  PROVE  /\ known[k] = "revoked" => Add(known, keys)[k] = "revoked"
         /\ known[k] # "unknown" => Add(known, keys)[k] # "unknown"
         /\ known[k] = "active" => Add(known, keys)[k] = "active"
         /\ k \in keys => Add(known, keys)[k] # "unknown"
         /\ Add(known, keys)[k] = "active" => k \in keys \/ known[k] = "active"
BY DEF Add

LEMMA MissingType == Missing \in [Device -> Trust]
BY DEF Missing, Trust

----------------------------------------------------------------------------
(* Types.                                                                   *)

Grants == [from : Device, joiner : Device, event : Event, roster : SUBSET Device]

(* One more grant: the places of the others keep what they held.            *)
LEMMA Appended ==
  ASSUME NEW s \in Seq(Grants), NEW g \in Grants
  PROVE  /\ Append(s, g) \in Seq(Grants)
         /\ Len(Append(s, g)) = Len(s) + 1
         /\ DOMAIN s \subseteq DOMAIN Append(s, g)
         /\ Len(s) + 1 \in DOMAIN Append(s, g)
         /\ DOMAIN Append(s, g) = (DOMAIN s) \cup {Len(s) + 1}
         /\ \A i \in DOMAIN s : Append(s, g)[i] = s[i]
         /\ Append(s, g)[Len(s) + 1] = g
OBVIOUS

LEMMA TypeInit == Init => TypeOK
<1> SUFFICES ASSUME Init PROVE TypeOK
  OBVIOUS
<1>1. registry \in [Device -> [Device -> Trust]]
  <2>1. \A d \in Device : [Missing EXCEPT ![d] = "active"] \in [Device -> Trust]
    BY MissingType DEF Trust
  <2> QED  BY <2>1 DEF Init
<1>2. lost \in [Device -> [Device -> Trust]]
  BY MissingType DEF Init
<1>3. doing \in [Device -> [command : {"none", "accept", "confirm"}, code : Typed]]
  BY DEF Init, Idle, Typed
<1>4. \A d \in Device : Free(d)
  BY DEF Init, Free
<1>5. /\ home \in [Device -> Event] /\ stored \in [Device -> SUBSET Record]
      /\ flash \in [Device -> SUBSET Record] /\ opened \in [Device -> SUBSET Code]
      /\ staged \in [Device -> Typed]
  BY DEF Init, Typed
<1>6. /\ grants \in Seq([from : Device, joiner : Device, event : Event, roster : SUBSET Device])
      /\ Len(grants) <= MaxGrants
      /\ sealed \in 0 .. MaxScans
      /\ losses \in Nat /\ revoked \in Nat /\ losses + revoked <= MaxMishaps
      /\ admitted \subseteq [at : Device, key : Device, code : Code]
  BY BoundAssumption DEF Init
<1> QED
  BY <1>1, <1>2, <1>3, <1>4, <1>5, <1>6 DEF TypeOK

(* What a code stands for.                                                  *)
LEMMA GrantAt ==
  ASSUME TypeOK, NEW c \in DOMAIN grants
  PROVE  /\ grants[c] \in Grants
         /\ c \in Code /\ c # None
<1>1. grants \in Seq(Grants)
  BY DEF TypeOK, Grants
<1>2. grants[c] \in Grants /\ c \in 1 .. Len(grants) /\ Len(grants) \in Nat
  BY <1>1
<1>3. Len(grants) <= MaxGrants
  BY DEF TypeOK
<1> QED  BY <1>2, <1>3, BoundAssumption DEF Code, None

(* Every command keeps the types.                                           *)
LEMMA TypeNext == TypeOK /\ [Next]_vars => TypeOK'
<1> USE DEF Free
<1> SUFFICES ASSUME TypeOK, [Next]_vars PROVE TypeOK'
  OBVIOUS
<1>1. ASSUME NEW d \in Device, NEW k \in Device, Revoke(d, k) PROVE TypeOK'
  <2>1. registry' \in [Device -> [Device -> Trust]]
    BY <1>1 DEF TypeOK, Revoke, Trust
  <2> QED  BY <1>1, <2>1, BoundAssumption DEF TypeOK, Revoke, Typed
<1>2. ASSUME NEW d \in Device, LoseRegistry(d) PROVE TypeOK'
  <2>1. /\ registry' \in [Device -> [Device -> Trust]]
        /\ lost' \in [Device -> [Device -> Trust]]
    BY <1>2, MissingType DEF TypeOK, LoseRegistry
  <2> QED  BY <1>2, <2>1, BoundAssumption DEF TypeOK, LoseRegistry, Typed
<1>3. ASSUME NEW d \in Device, RestoreRegistry(d) PROVE TypeOK'
  <2>1. /\ registry' \in [Device -> [Device -> Trust]]
        /\ lost' \in [Device -> [Device -> Trust]]
    BY <1>3, MissingType DEF TypeOK, RestoreRegistry
  <2> QED  BY <1>3, <2>1 DEF TypeOK, RestoreRegistry, Typed
<1>4. ASSUME NEW d \in Device, NEW j \in Device, Grant(d, j) PROVE TypeOK'
  <2> DEFINE g == [from |-> d, joiner |-> j, event |-> home[d], roster |-> Roster(d)]
  <2>1. g \in Grants
    BY DEF TypeOK, Roster, Active, Grants
  <2>2. grants \in Seq(Grants)
    BY DEF TypeOK, Grants
  <2>3. grants' = Append(grants, g) /\ staged' = [staged EXCEPT ![d] = Len(grants) + 1]
    BY <1>4 DEF Grant
  <2> HIDE DEF g
  <2>4. /\ grants' \in Seq(Grants) /\ Len(grants') = Len(grants) + 1
        /\ DOMAIN grants \subseteq DOMAIN grants' /\ Len(grants) + 1 \in DOMAIN grants'
    BY <2>1, <2>2, <2>3, Appended
  <2>5. Len(grants') <= MaxGrants
    BY <1>4, <2>2, <2>4, BoundAssumption DEF Grant
  <2>6. staged' \in [Device -> Typed'] /\ Typed \subseteq Typed'
    BY <2>3, <2>4 DEF TypeOK, Typed
  <2>7. doing' \in [Device -> [command : {"none", "accept", "confirm"}, code : Typed']]
    BY <1>4, <2>6 DEF TypeOK, Grant
  <2>8. \A e \in Device : Free(e)' \/ doing'[e].code \in DOMAIN grants'
    BY <1>4, <2>4 DEF TypeOK, Grant
  <2> QED
    BY <1>4, <2>4, <2>5, <2>6, <2>7, <2>8 DEF TypeOK, Grant, Grants
<1>5. ASSUME NEW d \in Device, NEW c \in Code, Accept(d, c) PROVE TypeOK'
  <2>1. registry' \in [Device -> [Device -> Trust]]
    <3>1. Add(registry[d], grants[c].roster) \in [Device -> Trust]
      BY AddType DEF TypeOK
    <3> QED  BY <1>5, <3>1 DEF TypeOK, Accept
  <2>2. opened' \in [Device -> SUBSET Code]
    BY <1>5 DEF TypeOK, Accept
  <2>3. doing' \in [Device -> [command : {"none", "accept", "confirm"}, code : Typed]]
    BY <1>5 DEF TypeOK, Accept, Opens, Typed
  <2>4. \A e \in Device : Free(e)' \/ doing'[e].code \in DOMAIN grants
    BY <1>5 DEF TypeOK, Accept, Opens
  <2> QED  BY <1>5, <2>1, <2>2, <2>3, <2>4 DEF TypeOK, Accept, Typed
<1>6. ASSUME NEW d \in Device, JoinMesh(d) PROVE TypeOK'
  <2>1. ~Free(d)
    BY <1>6 DEF JoinMesh, Idle
  <2>2. doing[d].code \in DOMAIN grants
    BY <2>1 DEF TypeOK
  <2>3. grants[doing[d].code].event \in Event
    BY <2>2, GrantAt DEF Grants
  <2>4. home' \in [Device -> Event]
    BY <1>6, <2>3 DEF TypeOK, JoinMesh
  <2>5. doing' \in [Device -> [command : {"none", "accept", "confirm"}, code : Typed]]
    BY <1>6 DEF TypeOK, JoinMesh, Idle, Typed
  <2> QED  BY <1>6, <2>4, <2>5 DEF TypeOK, JoinMesh, Typed
<1>7. ASSUME NEW d \in Device, NEW m \in DOMAIN grants, NEW t \in DOMAIN grants, Confirm(d, m, t)
      PROVE  TypeOK'
  <2> DEFINE key == grants[staged[d]].joiner
  <2>1. staged[d] = m
    BY <1>7 DEF Confirm, Agree
  <2>2. key \in Device /\ m \in Code
    BY <2>1, GrantAt DEF Grants
  <2>3. registry' \in [Device -> [Device -> Trust]]
    <3>1. Add(registry[d], {key}) \in [Device -> Trust]
      BY AddType DEF TypeOK
    <3> QED  BY <1>7, <3>1 DEF TypeOK, Confirm
  <2>4. admitted' \subseteq [at : Device, key : Device, code : Code]
    BY <1>7, <2>2 DEF TypeOK, Confirm
  <2>5. doing' \in [Device -> [command : {"none", "accept", "confirm"}, code : Typed]]
    BY <1>7 DEF TypeOK, Confirm, Typed
  <2>6. \A e \in Device : Free(e)' \/ doing'[e].code \in DOMAIN grants
    BY <1>7 DEF TypeOK, Confirm
  <2> QED  BY <1>7, <2>3, <2>4, <2>5, <2>6 DEF TypeOK, Confirm, Typed
<1>8. ASSUME NEW d \in Device, Discard(d) \/ Reject(d) \/ Crash(d) PROVE TypeOK'
  <2> None \in Typed /\ Idle \in [command : {"none", "accept", "confirm"}, code : Typed]
    BY DEF Typed, Idle
  <2>1. /\ staged' = staged \/ staged' = [staged EXCEPT ![d] = None]
        /\ doing' = doing \/ doing' = [doing EXCEPT ![d] = Idle]
    BY <1>8 DEF Discard, Reject, Crash, files
  <2>2. staged' \in [Device -> Typed]
    BY <2>1 DEF TypeOK
  <2>3. doing' \in [Device -> [command : {"none", "accept", "confirm"}, code : Typed]]
    BY <2>1 DEF TypeOK
  <2>4. \A e \in Device : Free(e)' \/ doing'[e].code \in DOMAIN grants
    BY <2>1 DEF TypeOK
  <2> QED  BY <1>8, <2>2, <2>3, <2>4 DEF TypeOK, Discard, Reject, Crash, files, Typed
<1>9. ASSUME NEW d \in Device, Ingest(d) PROVE TypeOK'
  <2> DEFINE scan == [kid |-> d, number |-> sealed + 1, event |-> home[d]]
  <2>1. scan \in Record /\ sealed' \in 0 .. MaxScans
    BY <1>9, BoundAssumption DEF TypeOK, Ingest, Record
  <2>2. Bundle(d, Load(d) \cup Readable(d, {scan})) \subseteq Record
    BY <2>1 DEF TypeOK, Bundle, Load, Readable
  <2>3. stored' \in [Device -> SUBSET Record]
    BY <1>9, <2>2 DEF TypeOK, Ingest, Persist
  <2> QED  BY <1>9, <2>1, <2>3 DEF TypeOK, Ingest, Typed
<1>10. ASSUME NEW d \in Device, NEW e \in Device, Import(d, e) PROVE TypeOK'
  <2>1. Bundle(d, Load(d) \cup Merged(d, e)) \subseteq Record
    BY DEF TypeOK, Bundle, Load, Merged, Readable
  <2>2. stored' \in [Device -> SUBSET Record]
    BY <1>10, <2>1 DEF TypeOK, Import, Persist
  <2> QED  BY <1>10, <2>2 DEF TypeOK, Import, Typed
<1>11. ASSUME NEW d \in Device, Export(d) PROVE TypeOK'
  <2>1. Bundle(d, Load(d)) \subseteq Record
    BY DEF TypeOK, Bundle, Load, Readable
  <2>2. flash' \in [Device -> SUBSET Record]
    BY <1>11, <2>1 DEF TypeOK, Export
  <2> QED  BY <1>11, <2>2 DEF TypeOK, Export, Typed
<1>12. CASE UNCHANGED vars
  BY <1>12 DEF TypeOK, vars, files, Typed
<1> QED
  BY <1>1, <1>2, <1>3, <1>4, <1>5, <1>6, <1>7, <1>8, <1>9, <1>10, <1>11, <1>12 DEF Next

(* The types hold of every workspace, and what is staged or under way is    *)
(* always a grant that was written.                                         *)
THEOREM TypeCorrect == Spec => []TypeOK
<1> QED  BY TypeInit, TypeNext, PTL DEF Spec

----------------------------------------------------------------------------
(* Revocation.                                                              *)

(* What RevocationSticks says of one step.                                  *)
StillRevoked ==
  \A d, k \in Device :
     registry[d][k] = "revoked" =>
       registry'[d][k] = "revoked" \/ losses' # losses \/ lost' # lost

LEMMA RevokedStep == TypeOK /\ [Next]_vars => StillRevoked
<1> SUFFICES ASSUME TypeOK, [Next]_vars PROVE StillRevoked
  OBVIOUS
<1>1. ASSUME NEW d \in Device, NEW keys, registry' = [registry EXCEPT ![d] = Add(@, keys)]
      PROVE  StillRevoked
  <2>1. registry[d] \in [Device -> Trust]
    BY DEF TypeOK
  <2>2. \A k \in Device : registry[d][k] = "revoked" => Add(registry[d], keys)[k] = "revoked"
    BY <2>1, AddEntry
  <2>3. \A e \in Device : registry'[e] = IF e = d THEN Add(registry[d], keys) ELSE registry[e]
    BY <1>1 DEF TypeOK
  <2> QED  BY <2>2, <2>3 DEF StillRevoked
<1>2. CASE registry' = registry
  BY <1>2 DEF StillRevoked
<1>3. ASSUME NEW d \in Device, NEW k \in Device, Revoke(d, k) PROVE StillRevoked
  BY <1>3 DEF TypeOK, StillRevoked, Revoke
<1>4. ASSUME NEW d \in Device, LoseRegistry(d) PROVE StillRevoked
  BY <1>4 DEF TypeOK, StillRevoked, LoseRegistry
<1>5. ASSUME NEW d \in Device, RestoreRegistry(d) PROVE StillRevoked
  BY <1>5, MissingType DEF TypeOK, StillRevoked, RestoreRegistry
<1> QED
  BY <1>1, <1>2, <1>3, <1>4, <1>5
     DEF Next, vars, files, Grant, Accept, JoinMesh, Confirm, Discard, Reject, Ingest, Import, Export, Crash

(* Revocation is sticky (registry.ts): no grant, no confirmation and no     *)
(* repeated or interrupted ceremony brings a revoked key back.              *)
THEOREM RevocationAlwaysSticks == Spec => RevocationSticks
<1>1. TypeOK /\ [Next]_vars =>
        [\A d, k \in Device :
           registry[d][k] = "revoked" =>
             registry'[d][k] = "revoked" \/ losses' # losses \/ lost' # lost]_vars
  BY RevokedStep DEF StillRevoked
<1> QED  BY <1>1, TypeCorrect, PTL DEF Spec, RevocationSticks

----------------------------------------------------------------------------
(* The ceremony.                                                            *)

(* What is written down in the course of a ceremony only becomes more.      *)
NothingTakenBack ==
  /\ \A c \in DOMAIN grants : c \in DOMAIN grants' /\ grants'[c] = grants[c]
  /\ \A d \in Device : opened[d] \subseteq opened'[d]
  /\ admitted \subseteq admitted'

LEMMA CeremonyStep == TypeOK /\ [Next]_vars => NothingTakenBack
<1> SUFFICES ASSUME TypeOK, [Next]_vars PROVE NothingTakenBack
  OBVIOUS
<1>1. \A c \in DOMAIN grants : c \in DOMAIN grants' /\ grants'[c] = grants[c]
  <2>1. ASSUME NEW d \in Device, NEW j \in Device, Grant(d, j)
        PROVE  \A c \in DOMAIN grants : c \in DOMAIN grants' /\ grants'[c] = grants[c]
    <3> DEFINE g == [from |-> d, joiner |-> j, event |-> home[d], roster |-> Roster(d)]
    <3>1. g \in Grants /\ grants \in Seq(Grants)
      BY DEF TypeOK, Roster, Active, Grants
    <3>2. grants' = Append(grants, g)
      BY <2>1 DEF Grant
    <3> HIDE DEF g
    <3> QED  BY <3>1, <3>2, Appended
  <2> QED
    BY <2>1 DEF Next, vars, files, Revoke, LoseRegistry, RestoreRegistry, Accept, JoinMesh, Confirm,
                Discard, Reject, Ingest, Import, Export, Crash
<1>2. \A d \in Device : opened[d] \subseteq opened'[d]
  <2>1. ASSUME NEW d \in Device, NEW c \in Code, Accept(d, c)
        PROVE  \A e \in Device : opened[e] \subseteq opened'[e]
    BY <2>1 DEF TypeOK, Accept
  <2> QED
    BY <2>1 DEF Next, vars, files, Revoke, LoseRegistry, RestoreRegistry, Grant, JoinMesh,
           Confirm, Discard, Reject, Ingest, Import, Export, Crash
<1>3. admitted \subseteq admitted'
  BY DEF Next, vars, files, Revoke, LoseRegistry, RestoreRegistry, Grant, Accept, JoinMesh,
         Confirm, Discard, Reject, Ingest, Import, Export, Crash
<1> QED  BY <1>1, <1>2, <1>3 DEF NothingTakenBack

(* The inductive invariant of the ceremony: a device opens only grants made *)
(* for it, stages only grants it made, and lets in the key it staged.       *)
CeremonyInv ==
  /\ \A d \in Device : \A c \in opened[d] : c \in DOMAIN grants /\ grants[c].joiner = d
  /\ \A d \in Device : staged[d] # None => grants[staged[d]].from = d
  /\ \A a \in admitted : /\ a.code \in DOMAIN grants
                         /\ grants[a.code].joiner = a.key
                         /\ grants[a.code].from = a.at

LEMMA CeremonyInit == Init => CeremonyInv
BY DEF Init, CeremonyInv

LEMMA CeremonyNext == TypeOK /\ CeremonyInv /\ [Next]_vars => CeremonyInv'
<1> SUFFICES ASSUME TypeOK, CeremonyInv, [Next]_vars PROVE CeremonyInv'
  OBVIOUS
<1>0. NothingTakenBack
  BY CeremonyStep
<1>1. \A d \in Device : \A c \in opened'[d] : c \in DOMAIN grants' /\ grants'[c].joiner = d
  <2> SUFFICES ASSUME NEW d \in Device, NEW c \in opened'[d]
               PROVE  c \in DOMAIN grants /\ grants[c].joiner = d
    BY <1>0 DEF NothingTakenBack
  <2>1. CASE c \in opened[d]
    BY <2>1 DEF CeremonyInv
  <2>2. ASSUME NEW e \in Device, NEW b \in Code, Accept(e, b), c \notin opened[d]
        PROVE  c \in DOMAIN grants /\ grants[c].joiner = d
    BY <2>2 DEF TypeOK, Accept, Opens
  <2> QED
    BY <2>1, <2>2
       DEF Next, vars, files, Revoke, LoseRegistry, RestoreRegistry, Grant, JoinMesh,
           Confirm, Discard, Reject, Ingest, Import, Export, Crash
<1>2. \A d \in Device : staged'[d] # None => grants'[staged'[d]].from = d
  <2> SUFFICES ASSUME NEW d \in Device, staged'[d] # None
               PROVE  grants'[staged'[d]].from = d
    OBVIOUS
  <2>1. CASE staged'[d] = staged[d]
    <3>1. staged[d] \in DOMAIN grants
      BY <2>1 DEF TypeOK, Typed
    <3> QED  BY <1>0, <2>1, <3>1 DEF NothingTakenBack, CeremonyInv
  <2>2. ASSUME NEW j \in Device, Grant(d, j) PROVE grants'[staged'[d]].from = d
    <3> DEFINE g == [from |-> d, joiner |-> j, event |-> home[d], roster |-> Roster(d)]
    <3>1. g \in Grants /\ grants \in Seq(Grants) /\ g.from = d
      BY DEF TypeOK, Roster, Active, Grants
    <3>2. grants' = Append(grants, g) /\ staged'[d] = Len(grants) + 1
      BY <2>2 DEF Grant, TypeOK
    <3> HIDE DEF g
    <3> QED  BY <3>1, <3>2, Appended
  <2> QED
    BY <2>1, <2>2 DEF TypeOK, Next, vars, files, Revoke, LoseRegistry, RestoreRegistry, Grant, Accept,
           JoinMesh, Confirm, Discard, Reject, Ingest, Import, Export, Crash
<1>3. \A a \in admitted' : /\ a.code \in DOMAIN grants'
                          /\ grants'[a.code].joiner = a.key
                          /\ grants'[a.code].from = a.at
  <2> SUFFICES ASSUME NEW a \in admitted'
               PROVE  a.code \in DOMAIN grants /\ grants[a.code].joiner = a.key /\ grants[a.code].from = a.at
    BY <1>0 DEF NothingTakenBack
  <2>1. CASE a \in admitted
    BY <2>1 DEF CeremonyInv
  <2>2. ASSUME NEW d \in Device, NEW m \in DOMAIN grants, NEW t \in DOMAIN grants, Confirm(d, m, t),
               a \notin admitted
        PROVE  a.code \in DOMAIN grants /\ grants[a.code].joiner = a.key /\ grants[a.code].from = a.at
    <3>1. staged[d] = m /\ m # None
      BY <2>2 DEF Confirm, Agree
    <3>2. a = [at |-> d, key |-> grants[m].joiner, code |-> m]
      BY <2>2, <3>1 DEF Confirm
    <3> QED  BY <3>1, <3>2 DEF CeremonyInv
  <2> QED
    BY <2>1, <2>2 DEF Next, vars, files, Revoke, LoseRegistry, RestoreRegistry, Grant, Accept,
           JoinMesh, Discard, Reject, Ingest, Import, Export, Crash
<1> QED  BY <1>1, <1>2, <1>3 DEF CeremonyInv

(* The key let in is that of the device that showed the code, however many  *)
(* ceremonies run at once (confirm, commands.ts).                           *)
THEOREM AdmittedAlwaysCompared == Spec => []AdmittedIsCompared
<1>1. CeremonyInv => AdmittedIsCompared
  BY DEF CeremonyInv, AdmittedIsCompared
<1> QED  BY <1>1, CeremonyInit, CeremonyNext, TypeCorrect, PTL DEF Spec

----------------------------------------------------------------------------
(* Trust.                                                                   *)

(* Somebody compared a code for this key, or accepted its grant.            *)
Vouched(k) ==
  \/ \E a \in admitted : a.key = k
  \/ \E e \in Device : \E c \in opened[e] : grants[c].from = k

LEMMA VouchedStays ==
  ASSUME TypeOK, CeremonyInv, [Next]_vars, NEW k, Vouched(k)
  PROVE  Vouched(k)'
<1>1. NothingTakenBack
  BY CeremonyStep
<1>2. ASSUME NEW a \in admitted, a.key = k PROVE Vouched(k)'
  BY <1>1, <1>2 DEF NothingTakenBack, Vouched
<1>3. ASSUME NEW e \in Device, NEW c \in opened[e], grants[c].from = k PROVE Vouched(k)'
  <2>1. c \in DOMAIN grants
    BY DEF CeremonyInv
  <2>2. c \in opened'[e] /\ grants'[c].from = k
    BY <1>1, <1>3, <2>1 DEF NothingTakenBack
  <2> QED  BY <2>2 DEF Vouched
<1> QED  BY <1>2, <1>3 DEF Vouched

(* NobodyTrustedUncompared is not inductive by itself: a key also waits in  *)
(* rosters on their way and in a lost registry.                             *)
TrustInv ==
  /\ \A d, k \in Device : registry[d][k] = "active" /\ k # d => Vouched(k)
  /\ \A d, k \in Device : lost[d][k] = "active" /\ k # d => Vouched(k)
  /\ \A c \in DOMAIN grants : \A k \in grants[c].roster : k = grants[c].from \/ Vouched(k)

LEMMA TrustInit == Init => TrustInv
BY DEF Init, TrustInv, Missing

LEMMA TrustNext == TypeOK /\ CeremonyInv /\ TrustInv /\ [Next]_vars => TrustInv'
<1> SUFFICES ASSUME TypeOK, CeremonyInv, TrustInv, [Next]_vars PROVE TrustInv'
  OBVIOUS
<1>0. \A k \in Device : Vouched(k) => Vouched(k)'
  BY VouchedStays
<1> DEFINE Known(d, k) == registry'[d][k] = "active" /\ k # d => Vouched(k)'
<1>1. \A d, k \in Device : Known(d, k)
  <2>1. CASE registry' = registry
    BY <1>0, <2>1 DEF TrustInv
  <2>2. ASSUME NEW d \in Device, NEW k \in Device, Revoke(d, k)
        PROVE  \A e, i \in Device : Known(e, i)
    <3>1. \A e, i \in Device : registry'[e][i] = "active" => registry[e][i] = "active"
      BY <2>2 DEF TypeOK, Revoke
    <3> QED  BY <1>0, <3>1 DEF TrustInv
  <2>3. ASSUME NEW d \in Device, LoseRegistry(d) \/ RestoreRegistry(d)
        PROVE  \A e, i \in Device : Known(e, i)
    <3>1. \A e \in Device : registry'[e] \in {registry[e], lost[e], Missing}
      BY <2>3 DEF TypeOK, LoseRegistry, RestoreRegistry
    <3>2. \A i \in Device : Missing[i] # "active"
      BY DEF Missing
    <3> QED  BY <1>0, <3>1, <3>2 DEF TrustInv
  <2>4. ASSUME NEW d \in Device, NEW keys, registry' = [registry EXCEPT ![d] = Add(@, keys)],
               \A k \in keys : k # d => Vouched(k)'
        PROVE  \A e, i \in Device : Known(e, i)
    <3>1. registry[d] \in [Device -> Trust]
      BY DEF TypeOK
    <3>2. \A k \in Device : Add(registry[d], keys)[k] = "active" => k \in keys \/ registry[d][k] = "active"
      BY <3>1, AddEntry
    <3>3. \A e \in Device : registry'[e] = IF e = d THEN Add(registry[d], keys) ELSE registry[e]
      BY <2>4 DEF TypeOK
    <3> QED  BY <1>0, <2>4, <3>2, <3>3 DEF TrustInv
  <2>5. ASSUME NEW d \in Device, NEW c \in Code, Accept(d, c)
        PROVE  \A e, i \in Device : Known(e, i)
    <3>1. c \in DOMAIN grants /\ grants[c].roster \subseteq Device
      BY <2>5, GrantAt DEF Accept, Opens, Grants
    <3>2. c \in opened'[d] /\ grants' = grants
      BY <2>5 DEF TypeOK, Accept
    <3>3. ASSUME NEW k, k = grants[c].from PROVE Vouched(k)'
      BY <3>2, <3>3 DEF Vouched
    <3>4. ASSUME NEW k \in grants[c].roster PROVE Vouched(k)'
      BY <1>0, <3>1, <3>3 DEF TrustInv
    <3>5. PICK keys : keys = grants[c].roster
      OBVIOUS
    <3>6. registry' = [registry EXCEPT ![d] = Add(@, keys)] /\ \A k \in keys : Vouched(k)'
      BY <2>5, <3>4, <3>5 DEF Accept
    <3> QED  BY <2>4, <3>6
  <2>6. ASSUME NEW d \in Device, NEW m \in DOMAIN grants, NEW t \in DOMAIN grants, Confirm(d, m, t)
        PROVE  \A e, i \in Device : Known(e, i)
    <3>1. PICK keys : keys = {grants[staged[d]].joiner}
      OBVIOUS
    <3>2. ASSUME NEW k \in keys PROVE Vouched(k)'
      <4>1. [at |-> d, key |-> k, code |-> m] \in admitted'
        BY <2>6, <3>1 DEF Confirm
      <4> QED  BY <4>1 DEF Vouched
    <3>3. registry' = [registry EXCEPT ![d] = Add(@, keys)]
      BY <2>6, <3>1 DEF Confirm
    <3> QED  BY <2>4, <3>2, <3>3
  <2>7. CASE \/ UNCHANGED vars
             \/ \E d \in Device : \/ \E j \in Device : Grant(d, j) \/ Import(d, j)
                                 \/ JoinMesh(d) \/ Discard(d) \/ Reject(d) \/ Ingest(d) \/ Export(d) \/ Crash(d)
    BY <2>1, <2>7 DEF vars, files, Grant, JoinMesh, Discard, Reject, Ingest, Import, Export, Crash
  <2> HIDE DEF Known
  <2> QED  BY <2>2, <2>3, <2>5, <2>6, <2>7 DEF Next
<1>2. \A d, k \in Device : lost'[d][k] = "active" /\ k # d => Vouched(k)'
  <2>1. CASE lost' = lost
    BY <1>0, <2>1 DEF TrustInv
  <2>2. ASSUME NEW d \in Device, LoseRegistry(d) \/ RestoreRegistry(d)
        PROVE  \A e, i \in Device : lost'[e][i] = "active" /\ i # e => Vouched(i)'
    <3>1. \A e \in Device : lost'[e] \in {registry[e], lost[e], Missing}
      BY <2>2 DEF TypeOK, LoseRegistry, RestoreRegistry
    <3>2. \A i \in Device : Missing[i] # "active"
      BY DEF Missing
    <3> QED  BY <1>0, <3>1, <3>2 DEF TrustInv
  <2> QED
    BY <2>1, <2>2 DEF Next, vars, files, Revoke, Grant, Accept, JoinMesh, Confirm, Discard, Reject,
                      Ingest, Import, Export, Crash
<1>3. \A c \in DOMAIN grants' : \A k \in grants'[c].roster : k = grants'[c].from \/ Vouched(k)'
  <2>1. CASE grants' = grants
    <3> SUFFICES ASSUME NEW c \in DOMAIN grants, NEW k \in grants[c].roster
                 PROVE  k = grants[c].from \/ Vouched(k)'
      BY <2>1
    <3>1. k \in Device
      BY GrantAt DEF Grants
    <3> QED  BY <1>0, <3>1 DEF TrustInv
  <2>2. ASSUME NEW d \in Device, NEW j \in Device, Grant(d, j)
        PROVE  \A c \in DOMAIN grants' : \A k \in grants'[c].roster : k = grants'[c].from \/ Vouched(k)'
    <3> DEFINE g == [from |-> d, joiner |-> j, event |-> home[d], roster |-> Roster(d)]
    <3>1. g \in Grants /\ grants \in Seq(Grants) /\ g.from = d /\ g.roster = Active(d)
      BY DEF TypeOK, Roster, Active, Grants
    <3>2. grants' = Append(grants, g)
      BY <2>2 DEF Grant
    <3> HIDE DEF g
    <3>3. /\ DOMAIN grants' = (DOMAIN grants) \cup {Len(grants) + 1}
          /\ \A c \in DOMAIN grants : grants'[c] = grants[c]
          /\ grants'[Len(grants) + 1] = g
      BY <3>1, <3>2, Appended
    <3>4. \A k \in Active(d) : k = d \/ Vouched(k)'
      BY <1>0 DEF TrustInv, Active
    <3>5. ASSUME NEW c \in DOMAIN grants, NEW k \in grants[c].roster
          PROVE  k = grants[c].from \/ Vouched(k)'
      <4>1. k \in Device
        BY GrantAt DEF Grants
      <4> QED  BY <1>0, <4>1 DEF TrustInv
    <3> QED  BY <3>1, <3>3, <3>4, <3>5
  <2> QED
    BY <2>1, <2>2 DEF Next, vars, files, Revoke, LoseRegistry, RestoreRegistry, Accept, JoinMesh, Confirm,
                      Discard, Reject, Ingest, Import, Export, Crash
<1> QED  BY <1>1, <1>2, <1>3 DEF TrustInv

(* Nobody enters a registry by asking: behind every trusted key is a        *)
(* comparison of codes or an accepted grant (workspace.ts, stageAdmission). *)
THEOREM NobodyEverTrustedUncompared == Spec => []NobodyTrustedUncompared
<1>1. TrustInv => NobodyTrustedUncompared
  BY DEF TrustInv, NobodyTrustedUncompared, Vouched, Active
<1> QED  BY <1>1, TrustInit, TrustNext, CeremonyInit, CeremonyNext, TypeCorrect, PTL DEF Spec

(* PairedIsMutual needs that the admitting device is in its own roster and  *)
(* that what a device learned from a roster it goes on knowing.             *)
MutualInv ==
  losses = 0 =>
    /\ \A d \in Device : registry[d][d] = "active" /\ lost[d] = Missing
    /\ \A c \in DOMAIN grants : grants[c].from \in grants[c].roster
    /\ \A d \in Device : \A c \in opened[d] : \A k \in grants[c].roster : registry[d][k] # "unknown"

LEMMA MutualInit == Init => MutualInv
<1> SUFFICES ASSUME Init PROVE MutualInv
  OBVIOUS
<1>1. \A d \in Device : registry[d][d] = "active"
  BY DEF Init, Missing
<1>2. lost = [d \in Device |-> Missing] /\ DOMAIN grants = {} /\ opened = [d \in Device |-> {}]
  BY DEF Init
<1> QED  BY <1>1, <1>2 DEF MutualInv

LEMMA MutualNext == TypeOK /\ CeremonyInv /\ MutualInv /\ [Next]_vars => MutualInv'
<1> SUFFICES ASSUME TypeOK, CeremonyInv, MutualInv, [Next]_vars, losses' = 0
             PROVE  /\ \A d \in Device : registry'[d][d] = "active" /\ lost'[d] = Missing
                    /\ \A c \in DOMAIN grants' : grants'[c].from \in grants'[c].roster
                    /\ \A d \in Device : \A c \in opened'[d] : \A k \in grants'[c].roster :
                         registry'[d][k] # "unknown"
  BY DEF MutualInv
<1> DEFINE NoneForgotten ==
             /\ \A d, k \in Device : registry[d][k] # "unknown" => registry'[d][k] # "unknown"
             /\ \A d \in Device : registry[d][d] = "active" => registry'[d][d] = "active"
<1>0. NothingTakenBack
  BY CeremonyStep
<1>1. /\ losses = 0
      /\ \A d \in Device : ~LoseRegistry(d) /\ ~RestoreRegistry(d)
  <2>1. \A d \in Device : ~LoseRegistry(d)
    BY DEF TypeOK, LoseRegistry
  <2>2. losses = 0
    BY <2>1 DEF Next, vars, files, Revoke, RestoreRegistry, Grant, Accept, JoinMesh, Confirm, Discard,
                Reject, Ingest, Import, Export, Crash
  <2> QED  BY <2>1, <2>2 DEF MutualInv, RestoreRegistry
<1>2. NoneForgotten
  <2>1. CASE registry' = registry
    BY <2>1
  <2>2. ASSUME NEW d \in Device, NEW k \in Device, Revoke(d, k) PROVE NoneForgotten
    BY <2>2 DEF TypeOK, Revoke
  <2>3. ASSUME NEW d \in Device, NEW keys, registry' = [registry EXCEPT ![d] = Add(@, keys)]
        PROVE  NoneForgotten
    <3>1. registry[d] \in [Device -> Trust]
      BY DEF TypeOK
    <3>2. ASSUME NEW k \in Device
          PROVE  /\ registry[d][k] # "unknown" => Add(registry[d], keys)[k] # "unknown"
                 /\ registry[d][k] = "active" => Add(registry[d], keys)[k] = "active"
      BY <3>1, AddEntry
    <3>3. /\ registry'[d] = Add(registry[d], keys)
          /\ \A e \in Device \ {d} : registry'[e] = registry[e]
      BY <2>3 DEF TypeOK
    <3>4. ASSUME NEW e \in Device, NEW k \in Device
          PROVE  /\ registry[e][k] # "unknown" => registry'[e][k] # "unknown"
                 /\ registry[e][k] = "active" => registry'[e][k] = "active"
      <4>1. CASE e = d
        <5>1. registry[e] = registry[d] /\ registry'[e] = Add(registry[d], keys)
          BY <3>3, <4>1
        <5>2. /\ registry[d][k] # "unknown" => Add(registry[d], keys)[k] # "unknown"
              /\ registry[d][k] = "active" => Add(registry[d], keys)[k] = "active"
          BY <3>2
        <5> QED  BY <5>1, <5>2
      <4>2. CASE e # d
        BY <3>3, <4>2
      <4> QED  BY <4>1, <4>2
    <3> QED  BY <3>4
  <2>4. ASSUME NEW d \in Device, NEW c \in Code, Accept(d, c) PROVE NoneForgotten
    BY <2>3, <2>4 DEF Accept
  <2>5. ASSUME NEW d \in Device, NEW m \in DOMAIN grants, NEW t \in DOMAIN grants, Confirm(d, m, t)
        PROVE  NoneForgotten
    BY <2>3, <2>5 DEF Confirm
  <2>6. CASE \/ UNCHANGED vars
             \/ \E d \in Device : \/ \E j \in Device : Grant(d, j) \/ Import(d, j)
                                 \/ JoinMesh(d) \/ Discard(d) \/ Reject(d) \/ Ingest(d) \/ Export(d) \/ Crash(d)
    BY <2>1, <2>6 DEF vars, files, Grant, JoinMesh, Discard, Reject, Ingest, Import, Export, Crash
  <2> HIDE DEF NoneForgotten
  <2> QED  BY <1>1, <2>2, <2>4, <2>5, <2>6 DEF Next
<1>3. \A d \in Device : registry'[d][d] = "active" /\ lost'[d] = Missing
  <2>1. lost' = lost
    BY <1>1 DEF Next, vars, files, Revoke, Grant, Accept, JoinMesh, Confirm, Discard, Reject, Ingest,
                Import, Export, Crash
  <2> QED  BY <1>1, <1>2, <2>1 DEF MutualInv
<1>4. \A c \in DOMAIN grants' : grants'[c].from \in grants'[c].roster
  <2>1. CASE grants' = grants
    BY <1>1, <2>1 DEF MutualInv
  <2>2. ASSUME NEW d \in Device, NEW j \in Device, Grant(d, j)
        PROVE  \A c \in DOMAIN grants' : grants'[c].from \in grants'[c].roster
    <3> DEFINE g == [from |-> d, joiner |-> j, event |-> home[d], roster |-> Roster(d)]
    <3>1. g \in Grants /\ grants \in Seq(Grants)
      BY DEF TypeOK, Roster, Active, Grants
    <3>2. g.from \in g.roster
      BY <1>1 DEF MutualInv, Roster, Active
    <3>3. grants' = Append(grants, g)
      BY <2>2 DEF Grant
    <3> HIDE DEF g
    <3> QED  BY <1>1, <3>1, <3>2, <3>3, Appended DEF MutualInv
  <2> QED
    BY <2>1, <2>2 DEF Next, vars, files, Revoke, LoseRegistry, RestoreRegistry, Accept, JoinMesh, Confirm,
                      Discard, Reject, Ingest, Import, Export, Crash
<1>5. \A d \in Device : \A c \in opened'[d] : \A k \in grants'[c].roster : registry'[d][k] # "unknown"
  <2> SUFFICES ASSUME NEW d \in Device, NEW c \in opened'[d], NEW k \in grants'[c].roster
               PROVE  registry'[d][k] # "unknown"
    OBVIOUS
  <2>1. CASE c \in opened[d]
    <3>1. c \in DOMAIN grants /\ k \in grants[c].roster /\ k \in Device
      BY <1>0, <2>1, GrantAt DEF CeremonyInv, NothingTakenBack, Grants
    <3> QED  BY <1>1, <1>2, <2>1, <3>1 DEF MutualInv
  <2>2. ASSUME NEW e \in Device, NEW b \in Code, Accept(e, b), c \notin opened[d]
        PROVE  registry'[d][k] # "unknown"
    <3>1. e = d /\ b = c /\ grants' = grants
      BY <2>2 DEF TypeOK, Accept
    <3>2. c \in DOMAIN grants /\ k \in Device
      BY <2>2, <3>1, GrantAt DEF Accept, Opens, Grants
    <3>3. registry[d] \in [Device -> Trust] /\ registry'[d] = Add(registry[d], grants[c].roster)
      BY <2>2, <3>1 DEF TypeOK, Accept
    <3> QED  BY <3>1, <3>2, <3>3, AddEntry
  <2> QED
    BY <2>1, <2>2
       DEF Next, vars, files, Revoke, LoseRegistry, RestoreRegistry, Grant, JoinMesh, Confirm, Discard,
           Reject, Ingest, Import, Export, Crash
<1> QED  BY <1>3, <1>4, <1>5

(* A finished pairing holds at both ends as long as no registry file is     *)
(* lost (grantJoin and accept).                                             *)
THEOREM PairingAlwaysMutual == Spec => []PairedIsMutual
<1>1. TypeOK /\ CeremonyInv /\ MutualInv => PairedIsMutual
  <2> SUFFICES ASSUME TypeOK, CeremonyInv, MutualInv, losses = 0,
                      NEW a \in admitted, a.code \in opened[a.key]
               PROVE  registry[a.key][a.at] # "unknown"
    BY DEF PairedIsMutual
  <2>1. a.key \in Device /\ a.code \in DOMAIN grants /\ grants[a.code].from = a.at
    BY DEF TypeOK, CeremonyInv
  <2>2. a.at \in grants[a.code].roster
    BY <2>1 DEF MutualInv
  <2> QED  BY <2>1, <2>2 DEF MutualInv
<1> QED  BY <1>1, MutualInit, MutualNext, CeremonyInit, CeremonyNext, TypeCorrect, PTL DEF Spec

----------------------------------------------------------------------------
(* The files.                                                               *)

(* A backup holds nothing that its store does not.                          *)
BackupInv == \A d \in Device : flash[d] \subseteq stored[d]

(* What KeepsRecords says of one step.                                      *)
Kept ==
  \A d \in Device : /\ stored[d] \subseteq stored'[d]
                    /\ flash[d] \subseteq flash'[d]

LEMMA KeptStep ==
  ASSUME \A a, b \in Event : a = b
  PROVE  TypeOK /\ BackupInv /\ [Next]_vars => BackupInv' /\ Kept
<1> SUFFICES ASSUME TypeOK, BackupInv, [Next]_vars PROVE BackupInv' /\ Kept
  OBVIOUS
<1>1. ASSUME NEW d \in Device, NEW records \in SUBSET Record PROVE Bundle(d, records) = records
  BY DEF Bundle, TypeOK, Record
<1>2. ASSUME NEW d \in Device, NEW records \in SUBSET Record, Persist(d, Load(d) \cup records), flash' = flash
      PROVE  BackupInv' /\ Kept
  <2>1. Load(d) = stored[d] /\ stored[d] \subseteq Record
    BY <1>2 DEF Persist, Unloadable, Load, Readable, TypeOK
  <2>2. Bundle(d, Load(d) \cup records) = stored[d] \cup records
    BY <1>1, <2>1
  <2>3. stored' = [stored EXCEPT ![d] = stored[d] \cup records]
    BY <1>2, <2>2 DEF Persist
  <2> QED  BY <1>2, <2>3 DEF BackupInv, Kept, TypeOK
<1>3. ASSUME NEW d \in Device, Ingest(d) PROVE BackupInv' /\ Kept
  <2> DEFINE scan == [kid |-> d, number |-> sealed + 1, event |-> home[d]]
  <2>1. Readable(d, {scan}) \in SUBSET Record
    BY <1>3, BoundAssumption DEF TypeOK, Ingest, Record, Readable
  <2> QED  BY <1>2, <1>3, <2>1 DEF Ingest
<1>4. ASSUME NEW d \in Device, NEW e \in Device, Import(d, e) PROVE BackupInv' /\ Kept
  <2>1. Merged(d, e) \in SUBSET Record
    BY DEF TypeOK, Merged, Readable
  <2> QED  BY <1>2, <1>4, <2>1 DEF Import
<1>5. ASSUME NEW d \in Device, Export(d) PROVE BackupInv' /\ Kept
  <2>1. Load(d) = stored[d] /\ stored[d] \in SUBSET Record
    BY <1>5 DEF Export, Unloadable, Load, Readable, TypeOK
  <2>2. stored' = stored /\ flash' = [flash EXCEPT ![d] = stored[d]]
    BY <1>1, <1>5, <2>1 DEF Export
  <2> QED  BY <2>2 DEF BackupInv, Kept, TypeOK
<1>6. CASE UNCHANGED <<stored, flash>>
  BY <1>6 DEF BackupInv, Kept
<1> QED
  BY <1>3, <1>4, <1>5, <1>6 DEF Next, vars, files, Revoke, LoseRegistry, RestoreRegistry, Grant, Accept,
                                JoinMesh, Confirm, Discard, Reject, Crash

(* While all work for one event, no command loses a record from a store or  *)
(* a backup, whatever becomes of the registries (writeStore, exportBundle). *)
(* With a second event it is false: accepting a grant into it is enough.    *)
THEOREM RecordsAlwaysKept ==
  ASSUME \A a, b \in Event : a = b
  PROVE  Spec => KeepsRecords
<1>1. Init => BackupInv
  BY DEF Init, BackupInv
<1>2. TypeOK /\ BackupInv /\ [Next]_vars => BackupInv'
  BY KeptStep
<1>3. TypeOK /\ BackupInv /\ [Next]_vars =>
        [\A d \in Device : /\ stored[d] \subseteq stored'[d]
                           /\ flash[d] \subseteq flash'[d]]_vars
  BY KeptStep DEF Kept
<1> QED  BY <1>1, <1>2, <1>3, TypeCorrect, PTL DEF Spec, KeepsRecords

=============================================================================
