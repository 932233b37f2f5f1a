------------------------------- MODULE Workspace -------------------------------
(****************************************************************************)
(* The sneakernet tool: a workspace directory per device, the commands that *)
(* rewrite its files, and the ceremony by which devices come to trust each  *)
(* other (courier-cli: workspace.ts, commands.ts; courier-pairing;          *)
(* courier-transport: bundle.ts).                                           *)
(*                                                                          *)
(* A device is its key.  A command runs alone in its workspace, but it is   *)
(* several writes, and the machine may stop between two of them or in the   *)
(* middle of one.  The confirmation code of a grant is its place in the     *)
(* order of grants: codes that coincide by chance are left out.             *)
(****************************************************************************)
EXTENDS Naturals, Sequences, FiniteSets

CONSTANTS Device,      \* devices, each with one key
          Event,       \* event keys
          MaxScans,    \* bound: records sealed
          MaxGrants,   \* bound: grants written
          MaxMishaps   \* bound: registry files lost and keys revoked

ASSUME BoundAssumption == {MaxScans, MaxGrants, MaxMishaps} \subseteq Nat

VARIABLES home,       \* mesh.cbor: the event of the workspace
          registry,   \* registry.cbor: what each device makes of each key
          stored,     \* store.courier: the records in it
          staged,     \* pending-admission.cbor
          flash,      \* the last bundle each device exported
          doing,      \* a command between two of its writes
          grants,     \* the grant files, in the order of writing
          sealed,     \* records sealed so far, which numbers them
          lost,       \* a registry file that may be put back
          losses,     \* registry files lost so far
          revoked,    \* keys revoked so far
          opened,     \* history: the codes each device has accepted and shown
          admitted    \* history: keys let in by comparing codes

files == <<home, registry, stored, staged, flash>>
vars == <<files, doing, grants, sealed, lost, losses, revoked, opened, admitted>>

Trust == {"unknown", "active", "revoked"}
Code == 1 .. MaxGrants
None == 0

Record == [kid : Device, number : 1 .. MaxScans, event : Event]

(* A registry file that is not there reads as an empty one.                 *)
Missing == [k \in Device |-> "unknown"]

Idle == [command |-> "none", code |-> None]

(* After `courier init` and a first, empty export on every device.          *)
Init ==
  /\ home \in [Device -> Event]
  /\ registry = [d \in Device |-> [Missing EXCEPT ![d] = "active"]]
  /\ stored = [d \in Device |-> {}]
  /\ staged = [d \in Device |-> None]
  /\ flash = [d \in Device |-> {}]
  /\ doing = [d \in Device |-> Idle]
  /\ grants = <<>>
  /\ sealed = 0
  /\ lost = [d \in Device |-> Missing]
  /\ losses = 0 /\ revoked = 0
  /\ opened = [d \in Device |-> {}]
  /\ admitted = {}

Free(d) == doing[d] = Idle

----------------------------------------------------------------------------
(* The registry.                                                            *)

Active(d) == {k \in Device : registry[d][k] = "active"}

(* Seeded defect of Add: learning a key anew forgives it.                   *)
AddForgiving(known, keys) == [k \in Device |-> IF k \in keys THEN "active" ELSE known[k]]

(* Revocation is sticky.                                                    *)
Add(known, keys) ==
  [k \in Device |-> IF k \in keys /\ known[k] # "revoked" THEN "active" ELSE known[k]]

Revoke(d, k) ==
  /\ Free(d)
  /\ k # d /\ registry[d][k] = "active"
  /\ losses + revoked < MaxMishaps /\ revoked' = revoked + 1
  /\ registry' = [registry EXCEPT ![d][k] = "revoked"]
  /\ UNCHANGED <<home, stored, staged, flash, doing, grants, sealed, lost, losses, opened, admitted>>

(* A copy of the directory that missed one file, and the file put back.     *)
LoseRegistry(d) ==
  /\ Free(d)
  /\ losses + revoked < MaxMishaps /\ losses' = losses + 1
  /\ lost' = [lost EXCEPT ![d] = registry[d]]
  /\ registry' = [registry EXCEPT ![d] = Missing]
  /\ UNCHANGED <<home, stored, staged, flash, doing, grants, sealed, revoked, opened, admitted>>

RestoreRegistry(d) ==
  /\ Free(d)
  /\ lost[d] # Missing
  /\ registry' = [registry EXCEPT ![d] = lost[d]]
  /\ lost' = [lost EXCEPT ![d] = Missing]
  /\ UNCHANGED <<home, stored, staged, flash, doing, grants, sealed, losses, revoked, opened, admitted>>

----------------------------------------------------------------------------
(* The ceremony: request, grant, accept, confirm.  A request is public keys *)
(* and may come from any device at any time.                                *)

(* Seeded defect of Roster: the admitting device leaves itself out.         *)
RosterOfOthers(d) == Active(d) \ {d}

Roster(d) == Active(d)

(* Seeded defect of Grant: the joiner is trusted before codes are compared. *)
GrantTrusting(d, j) ==
  /\ Free(d) /\ d # j
  /\ Len(grants) < MaxGrants
  /\ grants' = Append(grants, [from |-> d, joiner |-> j, event |-> home[d], roster |-> Roster(d)])
  /\ staged' = [staged EXCEPT ![d] = Len(grants) + 1]
  /\ registry' = [registry EXCEPT ![d] = Add(@, {j})]
  /\ UNCHANGED <<home, stored, flash, doing, sealed, lost, losses, revoked, opened, admitted>>

(* The joiner is staged, in place of whoever was staged before.             *)
Grant(d, j) ==
  /\ Free(d) /\ d # j
  /\ Len(grants) < MaxGrants
  /\ grants' = Append(grants, [from |-> d, joiner |-> j, event |-> home[d], roster |-> Roster(d)])
  /\ staged' = [staged EXCEPT ![d] = Len(grants) + 1]
  /\ UNCHANGED <<home, registry, stored, flash, doing, sealed, lost, losses, revoked, opened, admitted>>

(* Only the device that asked can open a grant.                             *)
Opens(d, c) == c \in DOMAIN grants /\ grants[c].joiner = d

(* The roster is written first, the mesh after it.                          *)
Accept(d, c) ==
  /\ Free(d)
  /\ Opens(d, c)
  /\ registry' = [registry EXCEPT ![d] = Add(@, grants[c].roster)]
  /\ opened' = [opened EXCEPT ![d] = @ \cup {c}]
  /\ doing' = [doing EXCEPT ![d] = [command |-> "accept", code |-> c]]
  /\ UNCHANGED <<home, stored, staged, flash, grants, sealed, lost, losses, revoked, admitted>>

JoinMesh(d) ==
  /\ doing[d].command = "accept"
  /\ home' = [home EXCEPT ![d] = grants[doing[d].code].event]
  /\ doing' = [doing EXCEPT ![d] = Idle]
  /\ UNCHANGED <<registry, stored, staged, flash, grants, sealed, lost, losses, revoked, opened, admitted>>

(* Seeded defect of Agree: that the two codes agree is enough.              *)
AgreeWithEachOther(d, mine, theirs) == mine = theirs

Agree(d, mine, theirs) == mine = theirs /\ mine = staged[d]

(* The codes as typed: what the operator reads here, what the other reads   *)
(* there.  When they agree the staged key is let in.                        *)
Confirm(d, mine, theirs) ==
  /\ Free(d)
  /\ staged[d] # None
  /\ Agree(d, mine, theirs)
  /\ LET key == grants[staged[d]].joiner
     IN  /\ registry' = [registry EXCEPT ![d] = Add(@, {key})]
         /\ admitted' = admitted \cup {[at |-> d, key |-> key, code |-> mine]}
  /\ doing' = [doing EXCEPT ![d] = [command |-> "confirm", code |-> mine]]
  /\ UNCHANGED <<home, stored, staged, flash, grants, sealed, lost, losses, revoked, opened>>

Discard(d) ==
  /\ doing[d].command = "confirm"
  /\ staged' = [staged EXCEPT ![d] = None]
  /\ doing' = [doing EXCEPT ![d] = Idle]
  /\ UNCHANGED <<home, registry, stored, flash, grants, sealed, lost, losses, revoked, opened, admitted>>

(* When they do not, as any two mistyped codes may, it is thrown away.      *)
Reject(d) ==
  /\ Free(d)
  /\ staged[d] # None
  /\ staged' = [staged EXCEPT ![d] = None]
  /\ UNCHANGED <<home, registry, stored, flash, doing, grants, sealed, lost, losses, revoked, opened, admitted>>

----------------------------------------------------------------------------
(* The store.                                                               *)

Readable(d, records) == {r \in records : r.kid \in Active(d)}

(* What a command sees of store.courier, and what it may not lose.          *)
Load(d) == Readable(d, stored[d])
Unloadable(d) == stored[d] \ Load(d)

(* A bundle holds the records of the workspace's event.                     *)
Bundle(d, records) == {r \in records : r.event = home[d]}

(* Seeded defect of Persist: what could not be read is not missed.          *)
PersistAnyway(d, records) == stored' = [stored EXCEPT ![d] = Bundle(d, records)]

(* writeStore refuses when records would be lost.                           *)
Persist(d, records) ==
  /\ Unloadable(d) = {}
  /\ stored' = [stored EXCEPT ![d] = Bundle(d, records)]

(* A scan is sealed, and admitted if the device trusts itself.              *)
Ingest(d) ==
  LET scan == [kid |-> d, number |-> sealed + 1, event |-> home[d]]
  IN  /\ Free(d)
      /\ sealed < MaxScans
      /\ sealed' = sealed + 1
      /\ Persist(d, Load(d) \cup Readable(d, {scan}))
      /\ UNCHANGED <<home, registry, staged, flash, doing, grants, lost, losses, revoked, opened, admitted>>

(* All records of a bundle are of its event; of another event, or signed by *)
(* keys not trusted, none is merged.                                        *)
Merged(d, e) == Readable(d, {r \in flash[e] : r.event = home[d]})

(* The store is written although nothing was merged.                        *)
Import(d, e) ==
  /\ Free(d)
  /\ Persist(d, Load(d) \cup Merged(d, e))
  /\ UNCHANGED <<home, registry, staged, flash, doing, grants, sealed, lost, losses, revoked, opened, admitted>>

Export(d) ==
  /\ Free(d)
  /\ Unloadable(d) = {}
  /\ flash' = [flash EXCEPT ![d] = Bundle(d, Load(d))]
  /\ UNCHANGED <<home, registry, stored, staged, doing, grants, sealed, lost, losses, revoked, opened, admitted>>

(* The machine stops between two writes of a command.                       *)
Crash(d) ==
  /\ ~Free(d)
  /\ doing' = [doing EXCEPT ![d] = Idle]
  /\ UNCHANGED <<files, grants, sealed, lost, losses, revoked, opened, admitted>>

----------------------------------------------------------------------------
Typed == (DOMAIN grants) \cup {None}

Next ==
  \/ \E d, k \in Device : Revoke(d, k)
  \/ \E d \in Device : LoseRegistry(d)
  \/ \E d \in Device : RestoreRegistry(d)
  \/ \E d, j \in Device : Grant(d, j)
  \/ \E d \in Device, c \in Code : Accept(d, c)
  \/ \E d \in Device : JoinMesh(d)
  \/ \E d \in Device, mine, theirs \in DOMAIN grants : Confirm(d, mine, theirs)
  \/ \E d \in Device : Discard(d)
  \/ \E d \in Device : Reject(d)
  \/ \E d \in Device : Ingest(d)
  \/ \E d, e \in Device : Import(d, e)
  \/ \E d \in Device : Export(d)
  \/ \E d \in Device : Crash(d)

Spec == Init /\ [][Next]_vars

----------------------------------------------------------------------------
(* Properties.                                                              *)

(* Types and bounds, and that what is staged or under way is a grant.       *)
TypeOK ==
  /\ home \in [Device -> Event]
  /\ registry \in [Device -> [Device -> Trust]]
  /\ stored \in [Device -> SUBSET Record]
  /\ staged \in [Device -> Typed]
  /\ flash \in [Device -> SUBSET Record]
  /\ doing \in [Device -> [command : {"none", "accept", "confirm"}, code : Typed]]
  /\ \A d \in Device : Free(d) \/ doing[d].code \in DOMAIN grants
  /\ grants \in Seq([from : Device, joiner : Device, event : Event, roster : SUBSET Device])
  /\ Len(grants) <= MaxGrants
  /\ sealed \in 0 .. MaxScans
  /\ lost \in [Device -> [Device -> Trust]]
  /\ losses \in Nat /\ revoked \in Nat /\ losses + revoked <= MaxMishaps
  /\ opened \in [Device -> SUBSET Code]
  /\ admitted \subseteq [at : Device, key : Device, code : Code]

(* No command loses a record: whatever was in a store file or in an         *)
(* exported backup is still there after the next command, through lost      *)
(* registries, revoked signers, foreign bundles and half-done pairings      *)
(* (workspace.ts: "quarantine, never silently drop").                       *)
KeepsRecords ==
  [][\A d \in Device : /\ stored[d] \subseteq stored'[d]
                       /\ flash[d] \subseteq flash'[d]]_vars

(* A key once revoked stays revoked, whatever grants, confirmations and     *)
(* repeated ceremonies bring it back (registry.ts: "Revocation is STICKY"), *)
(* as long as the file itself is not lost or replaced.                      *)
RevocationSticks ==
  [][\A d, k \in Device :
       registry[d][k] = "revoked" =>
         registry'[d][k] = "revoked" \/ losses' # losses \/ lost' # lost]_vars

(* The key a device lets in is that of the device which showed the code it  *)
(* was compared with, however many ceremonies are under way and whatever    *)
(* was mistyped.                                                            *)
AdmittedIsCompared ==
  \A a \in admitted : \A j \in Device : a.code \in opened[j] => j = a.key

(* A device trusts itself, what it or another device let in by comparing    *)
(* codes, and the device whose grant it or another accepted: nobody enters  *)
(* a registry by asking (workspace.ts: "It lives OUTSIDE the registry on    *)
(* purpose").                                                               *)
NobodyTrustedUncompared ==
  \A d \in Device : \A k \in Active(d) \ {d} :
     \/ \E a \in admitted : a.key = k
     \/ \E e \in Device : \E c \in opened[e] : grants[c].from = k

(* A finished pairing holds at both ends: the device let in knows the       *)
(* device that let it in, so that bundles pass both ways.                   *)
PairedIsMutual ==
  losses = 0 =>
    \A a \in admitted : a.code \in opened[a.key] => registry[a.key][a.at] # "unknown"
===============================================================================
