----------------------------- MODULE GrowOnlyLog -----------------------------
(****************************************************************************)
(* What the mesh promises about its records, with no protocol in sight:     *)
(* every device keeps a grow-only set of envelopes.  An envelope enters it  *)
(* by being sealed on the device, or by being copied from a device that     *)
(* holds it; the device must know the signing key and must not hold the     *)
(* record already.  Nothing ever leaves, and nothing is made up on the way. *)
(****************************************************************************)
CONSTANTS Device,     \* the devices of the mesh
          Entry,      \* envelopes: records with a field recordId
          Accepts     \* Device -> the envelopes the device can verify

VARIABLE store

Holds(d, e) == \E f \in store[d] : f.recordId = e.recordId

Init ==
  /\ store \in [Device -> SUBSET Entry]
  /\ \A d \in Device : store[d] \subseteq Accepts[d]

(* The device's own observation, or one that came by another road.          *)
Seal(d) ==
  \E e \in Accepts[d] : ~Holds(d, e) /\ store' = [store EXCEPT ![d] = @ \cup {e}]

(* Any part of what another device holds, as far as it is new and verifies. *)
Copy(d, s) ==
  \E new \in SUBSET {e \in store[s] \cap Accepts[d] : ~Holds(d, e)} :
     store' = [store EXCEPT ![d] = @ \cup new]

Next ==
  \/ \E d \in Device : Seal(d)
  \/ \E d \in Device, s \in Device : Copy(d, s)

Spec == Init /\ [][Next]_store
=============================================================================
