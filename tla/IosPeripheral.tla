---------------------------- MODULE IosPeripheral ----------------------------
(***************************************************************************)
(* The iOS plugin as a peripheral (CourierPeripheral.swift): the wish to   *)
(* advertise, which outlives the radio, the service it waits for, the      *)
(* callers who wait for the answer, and the centrals that subscribe.       *)
(*                                                                         *)
(* One serial queue runs every call and every callback, so a handler is    *)
(* one step.                                                               *)
(***************************************************************************)
EXTENDS Naturals, FiniteSets

CONSTANTS
  Central, Label,
  None,
  MaxStarts,    \* bound: calls of startAdvertising
  MaxHandles,   \* bound: handles minted
  MaxOutages    \* bound: how often the radio goes away

Start == 1..MaxStarts
Handle == 1..MaxHandles

VARIABLES
  power,               \* the manager's state: is it .poweredOn?
  servicePublication,
  desiredLabel,
  advertiseWaiters,    \* the starts that wait, each with its timer
  promise,             \* of each start
  air,                 \* what the stack does; "on" is manager.isAdvertising
  handles,             \* the handle of each subscribed central
  minted,
  told,                \* the handles the hub was told of and not told the end of
  strays,              \* those a packet was handed up under without that
  outages

advertising == <<servicePublication, desiredLabel, advertiseWaiters, promise, air>>
serving == <<handles, minted, told, strays>>
vars == <<power, advertising, serving, outages>>

TypeOK ==
  /\ power \in BOOLEAN
  /\ servicePublication \in {"absent", "adding", "present"}
  /\ desiredLabel \in Label \cup {None}
  /\ advertiseWaiters \subseteq Start
  /\ promise \in [Start -> {"unused", "waiting", "resolved", "rejected"}]
  /\ air \in {"off", "starting", "on"}
  /\ handles \in [Central -> Handle \cup {None}]
  /\ minted \in 0..MaxHandles
  /\ told \subseteq Handle /\ strays \subseteq Handle
  /\ outages \in 0..MaxOutages

Init ==
  /\ power = TRUE
  /\ servicePublication = "absent" /\ desiredLabel = None
  /\ advertiseWaiters = {} /\ promise = [s \in Start |-> "unused"] /\ air = "off"
  /\ handles = [c \in Central |-> None] /\ minted = 0 /\ told = {} /\ strays = {}
  /\ outages = 0

-----------------------------------------------------------------------------
(* Advertising.                                                            *)

Settle(starts, answer) ==
  /\ advertiseWaiters' = advertiseWaiters \ starts
  /\ promise' = [s \in Start |-> IF s \in starts \cap advertiseWaiters THEN answer
                                 ELSE promise[s]]

\* beginAdvertisingIfWanted, with the service as it is and the label wanted: the
\* service is published first, and what is on the air makes way.
BeginIfWanted(service, label) ==
  IF label = None
  THEN servicePublication' = service /\ UNCHANGED air
  ELSE IF service = "present"
  THEN servicePublication' = service /\ air' = "starting"
  ELSE servicePublication' = "adding" /\ UNCHANGED air

\* Rejected without the radio, resolved under the label that is on the air.
Answered(s, l) ==
  \/ ~power /\ promise' = [promise EXCEPT ![s] = "rejected"]
  \/ /\ power /\ air = "on" /\ desiredLabel = l
     /\ promise' = [promise EXCEPT ![s] = "resolved"]

StartAdvertising(s, l) ==
  /\ promise[s] = "unused" /\ \A r \in 1..(s - 1) : promise[r] # "unused"
  /\ \/ /\ Answered(s, l)
        /\ UNCHANGED <<servicePublication, desiredLabel, advertiseWaiters, air>>
     \/ /\ power /\ ~(air = "on" /\ desiredLabel = l)
        /\ desiredLabel' = l
        /\ advertiseWaiters' = advertiseWaiters \cup {s}
        /\ promise' = [promise EXCEPT ![s] = "waiting"]
        /\ BeginIfWanted(servicePublication, l)
  /\ UNCHANGED <<power, serving, outages>>

\* Seeded defect of StopAdvertising: only the wish is forgotten.
StopAdvertisingWishOnly ==
  /\ desiredLabel' = None
  /\ UNCHANGED <<power, servicePublication, advertiseWaiters, promise, air, serving, outages>>

\* Only what is on the air already is taken off: what the stack is still starting
\* comes on the air afterwards.
StopAdvertising ==
  /\ desiredLabel' = None
  /\ air' = IF air = "on" THEN "off" ELSE air
  /\ UNCHANGED <<power, servicePublication, advertiseWaiters, promise, serving, outages>>

AdvertiseTimeout(s) ==
  /\ s \in advertiseWaiters
  /\ Settle({s}, "rejected")
  /\ UNCHANGED <<power, servicePublication, desiredLabel, air, serving, outages>>

DidAdd ==
  /\ servicePublication = "adding"
  /\ \/ BeginIfWanted("present", desiredLabel) /\ UNCHANGED <<advertiseWaiters, promise>>
     \/ servicePublication' = "absent" /\ Settle(Start, "rejected") /\ UNCHANGED air
  /\ UNCHANGED <<power, desiredLabel, serving, outages>>

\* Everyone who waits gets the answer.
DidStartAdvertising ==
  /\ air = "starting"
  /\ \/ air' = "on" /\ Settle(Start, "resolved")
     \/ air' = "off" /\ Settle(Start, "rejected")
  /\ UNCHANGED <<power, servicePublication, desiredLabel, serving, outages>>

-----------------------------------------------------------------------------
(* The centrals.                                                           *)

\* A handle is minted for a subscription, and the hub told of it.
DidSubscribe(c) ==
  /\ power
  /\ IF handles[c] # None THEN UNCHANGED <<handles, minted, told>>
     ELSE /\ minted < MaxHandles
          /\ minted' = minted + 1
          /\ handles' = [handles EXCEPT ![c] = minted + 1]
          /\ told' = told \cup {minted + 1}
  /\ UNCHANGED <<power, advertising, strays, outages>>

\* Unsubscribed by the central, or forgotten when the hub disconnects it.
Released(c) ==
  /\ handles[c] # None
  /\ handles' = [handles EXCEPT ![c] = None]
  /\ told' = told \ {handles[c]}
  /\ UNCHANGED <<power, advertising, minted, strays, outages>>

DidUnsubscribe(c) == Released(c)
Forget(c) == Released(c)

DidReceiveWrite(c) ==
  /\ handles[c] # None
  /\ strays' = strays \cup ({handles[c]} \ told)
  /\ UNCHANGED <<power, advertising, handles, minted, told, outages>>

-----------------------------------------------------------------------------
(* The radio goes away and comes back.                                     *)

PowerLost ==
  /\ power /\ outages < MaxOutages
  /\ power' = FALSE /\ outages' = outages + 1
  /\ servicePublication' = "absent" /\ air' = "off"
  /\ handles' = [c \in Central |-> None]
  /\ told' = {h \in told : \A c \in Central : handles[c] # h}
  /\ Settle(Start, "rejected")
  /\ UNCHANGED <<desiredLabel, minted, strays>>

\* The service is published again, and the advertisement resumed.
PowerBack ==
  /\ ~power
  /\ power' = TRUE
  /\ BeginIfWanted(servicePublication, desiredLabel)
  /\ UNCHANGED <<desiredLabel, advertiseWaiters, promise, serving, outages>>

-----------------------------------------------------------------------------
Next ==
  \/ \E s \in Start :
       (\E l \in Label : StartAdvertising(s, l)) \/ AdvertiseTimeout(s)
  \/ StopAdvertising \/ DidAdd \/ DidStartAdvertising
  \/ \E c \in Central :
       DidSubscribe(c) \/ DidUnsubscribe(c) \/ Forget(c) \/ DidReceiveWrite(c)
  \/ PowerLost \/ PowerBack

\* The queue runs a timer that is due.  The stack owes no answer.
Fairness == \A s \in Start : WF_vars(AdvertiseTimeout(s))

Spec == Init /\ [][Next]_vars /\ Fairness

-----------------------------------------------------------------------------
(* Properties.                                                             *)

Waiting == {s \in Start : promise[s] = "waiting"}

\* The advertisement as the contract knows it.
Phase ==
  IF desiredLabel = None /\ air # "off" THEN "late"
  ELSE IF Waiting # {} THEN (IF desiredLabel = None THEN "withdrawn" ELSE "asked")
  ELSE IF air = "on" THEN "on" ELSE IF desiredLabel # None THEN "resting" ELSE "off"

Contract == INSTANCE Advertisement WITH phase <- Phase

\* Each start is answered, by the timer if not by the stack
\* (CourierPeripheral.swift:235 to 252).
StartsSettle == \A s \in Start : promise[s] = "waiting" ~> promise[s] # "waiting"

\* Every startAdvertising() settles though the stack may never answer; and a
\* device is on the air only between a start and the stop after it, outages of the
\* radio included, unless that stop came while the stack was still starting
\* (definitions.ts; CourierPeripheral.swift:43, 125 to 157 and 238).
Advertises == Contract!Spec /\ StartsSettle

\* A stopped device goes off the air and stays off, said without that exception:
\* "Stopping advertising means 'stop being discoverable'"
\* (CourierPeripheral.swift:154).
StoppedStaysSilent == desiredLabel = None => air # "on"

\* The hub gets packets only under a handle it was told of, and is told the end
\* of each of them (CourierPeripheral.swift:313 to 343, 531 to 540).
KnowsItsPeers == strays = {} /\ told = {handles[c] : c \in Central} \ {None}
=============================================================================
