-------------------------- MODULE AndroidPeripheral --------------------------
(***************************************************************************)
(* The Android plugin as a peripheral (CourierGattServer.kt): the GATT     *)
(* server and its service, which is registered asynchronously, the         *)
(* advertisement that waits for it, and the centrals that connect.         *)
(*                                                                         *)
(* The plugin's thread starts, stops and disconnects; the callbacks come   *)
(* from the stack, the service's timeout from the main thread.             *)
(***************************************************************************)
EXTENDS Naturals, FiniteSets

CONSTANTS
  Central,
  None,
  MaxStarts,    \* bound: calls of startAdvertising
  MaxOutages,   \* bound: how often Bluetooth goes off
  Patience      \* the values of "patient" to explore

Start == 1..MaxStarts

VARIABLES
  server,             \* the server and its service
  pendingStart,
  serviceTimeout,     \* is the timer armed?
  promise,            \* of each start
  advertiseCallback,  \* whose advertisement stopAdvertising would stop
  onAir,              \* what the stack does with each start
  halfway,            \* the start between its check and pendingStart
  stopped,            \* the starts that a stopAdvertising() came after
  connected,          \* the tracked centrals
  subscribed,
  told,               \* the centrals the hub was told of and not told the end of
  strays,             \* those a packet was handed up of without that
  listed,             \* the centrals close() took and has not told yet, or None
  outages,
  patient             \* are starts and stops called only when every start is
                      \* settled, and does no callback run inside one or inside
                      \* close()?

advertising == <<server, pendingStart, serviceTimeout, promise, advertiseCallback, onAir,
                 halfway, stopped>>
serving == <<connected, subscribed, told, strays, listed>>
vars == <<advertising, serving, outages, patient>>

TypeOK ==
  /\ server \in {"none", "adding", "failed", "ready"}
  /\ pendingStart \in Start \cup {None}
  /\ serviceTimeout \in BOOLEAN
  /\ promise \in [Start -> {"unused", "waiting", "resolved", "rejected"}]
  /\ advertiseCallback \in Start \cup {None}
  /\ onAir \in [Start -> {"no", "starting", "stopping", "on"}]
  /\ halfway \in Start \cup {None}
  /\ stopped \subseteq Start
  /\ subscribed \subseteq connected /\ connected \subseteq Central
  /\ told \subseteq Central /\ strays \subseteq Central
  /\ listed \in SUBSET Central \cup {None}
  /\ outages \in 0..MaxOutages
  /\ patient \in BOOLEAN

Init ==
  /\ server = "none" /\ pendingStart = None /\ serviceTimeout = FALSE
  /\ promise = [s \in Start |-> "unused"]
  /\ advertiseCallback = None
  /\ onAir = [s \in Start |-> "no"]
  /\ halfway = None /\ stopped = {}
  /\ connected = {} /\ subscribed = {} /\ told = {} /\ strays = {}
  /\ listed = None
  /\ outages = 0
  /\ patient \in Patience

-----------------------------------------------------------------------------
(* Advertising.                                                            *)

Waiting == {s \in Start : promise[s] = "waiting"}

\* done(), through once().
Settled(promises, starts, answer) ==
  [s \in Start |-> IF s \in starts /\ promises[s] = "waiting" THEN answer ELSE promises[s]]

\* The advertisement that is running, or starting, is stopped.
Stopped ==
  [s \in Start |-> IF s # advertiseCallback THEN onAir[s]
                   ELSE IF onAir[s] = "starting" THEN "stopping" ELSE "no"]

\* beginAdvertising: the stack takes the request, or refuses it at once.
Begin(s, promises, air) ==
  \/ /\ advertiseCallback' = s
     /\ onAir' = [air EXCEPT ![s] = "starting"]
     /\ promise' = promises
  \/ /\ advertiseCallback' = None
     /\ onAir' = air
     /\ promise' = Settled(promises, {s}, "rejected")

\* The server cannot be opened, or its service not queued.
StartRefused(s) ==
  /\ promise' = [promise EXCEPT ![s] = "rejected"]
  /\ UNCHANGED <<server, pendingStart, serviceTimeout, advertiseCallback, onAir, halfway>>

\* An advertisement that runs is stopped, a start that waits for the service is
\* rejected; this one begins, or waits for the service in its turn.
StartTaken(s) ==
  LET promises == [Settled(promise, {pendingStart}, "rejected") EXCEPT ![s] = "waiting"]
  IN  \/ /\ server = "ready"
         /\ Begin(s, promises, Stopped)
         /\ pendingStart' = None /\ serviceTimeout' = FALSE
         /\ UNCHANGED <<server, halfway>>
      \/ /\ server # "ready"
         /\ server' = IF server = "none" THEN "adding" ELSE server
         /\ promise' = promises
         /\ onAir' = Stopped /\ advertiseCallback' = None
         /\ IF patient
            THEN pendingStart' = s /\ serviceTimeout' = TRUE /\ UNCHANGED halfway
            ELSE pendingStart' = None /\ serviceTimeout' = FALSE /\ halfway' = s

StartAdvertising(s) ==
  /\ promise[s] = "unused" /\ \A r \in 1..(s - 1) : promise[r] # "unused"
  /\ halfway = None
  /\ patient => Waiting = {}
  /\ StartRefused(s) \/ StartTaken(s)
  /\ UNCHANGED <<stopped, serving, outages, patient>>

StartWaits ==
  /\ halfway # None
  /\ pendingStart' = halfway /\ serviceTimeout' = TRUE /\ halfway' = None
  /\ UNCHANGED <<server, promise, advertiseCallback, onAir, stopped, serving, outages, patient>>

StopAdvertising ==
  /\ halfway = None
  /\ patient => Waiting = {}
  /\ onAir' = Stopped /\ advertiseCallback' = None
  /\ stopped' = {s \in Start : promise[s] # "unused"}
  /\ UNCHANGED <<server, pendingStart, serviceTimeout, promise, halfway, serving, outages, patient>>

\* The service is registered, and the start that waits begins; or it is not.
OnServiceAdded ==
  /\ server = "adding"
  /\ pendingStart' = None /\ serviceTimeout' = FALSE
  /\ \/ /\ server' = "ready"
        /\ IF pendingStart = None THEN UNCHANGED <<promise, advertiseCallback, onAir>>
           ELSE Begin(pendingStart, promise, onAir)
     \/ /\ server' = "failed"
        /\ promise' = Settled(promise, {pendingStart}, "rejected")
        /\ UNCHANGED <<advertiseCallback, onAir>>
  /\ UNCHANGED <<halfway, stopped, serving, outages, patient>>

ServiceTimeout ==
  /\ serviceTimeout
  /\ serviceTimeout' = FALSE
  /\ IF server = "ready" THEN UNCHANGED <<promise, pendingStart>>
     ELSE /\ promise' = Settled(promise, {pendingStart}, "rejected")
          /\ pendingStart' = None
  /\ UNCHANGED <<server, advertiseCallback, onAir, halfway, stopped, serving, outages, patient>>

\* The stack answers every request it took, also one stopped since.
OnStartSuccess(s) ==
  /\ onAir[s] \in {"starting", "stopping"}
  /\ onAir' = [onAir EXCEPT ![s] = IF @ = "starting" THEN "on" ELSE "no"]
  /\ promise' = Settled(promise, {s}, "resolved")
  /\ UNCHANGED <<server, pendingStart, serviceTimeout, advertiseCallback, halfway, stopped,
                 serving, outages, patient>>

\* Whichever start failed, no advertisement is taken to run.
OnStartFailure(s) ==
  /\ onAir[s] \in {"starting", "stopping"}
  /\ onAir' = [onAir EXCEPT ![s] = "no"]
  /\ advertiseCallback' = None
  /\ promise' = Settled(promise, {s}, "rejected")
  /\ UNCHANGED <<server, pendingStart, serviceTimeout, halfway, stopped, serving, outages, patient>>

-----------------------------------------------------------------------------
(* The centrals.  A binder thread may still run a callback of a server that *)
(* is closed.                                                              *)

\* peerFor: tracked from its connection, its MTU exchange or its subscription.
Track(c) ==
  /\ connected' = connected \cup {c}
  /\ UNCHANGED <<subscribed, told, strays, listed, advertising, outages, patient>>

\* The CCCD is written: the subscription is what the hub is told of.
OnDescriptorWrite(c) ==
  /\ connected' = connected \cup {c}
  /\ \/ subscribed' = subscribed \cup {c} /\ told' = told \cup {c}
     \/ subscribed' = subscribed \ {c} /\ UNCHANGED told
  /\ UNCHANGED <<strays, listed, advertising, outages, patient>>

OnConnectionStateChange(c) ==
  \/ Track(c)
  \/ /\ connected' = connected \ {c} /\ subscribed' = subscribed \ {c}
     /\ told' = told \ {c}
     /\ UNCHANGED <<strays, listed, advertising, outages, patient>>

OnMtuChanged(c) == Track(c)

\* Seeded defect of OnWriteRequest: any connected central is heard.
OnWriteRequestConnected(c) ==
  /\ c \in connected
  /\ strays' = strays \cup ({c} \ told)
  /\ UNCHANGED <<connected, subscribed, told, listed, advertising, outages, patient>>

\* Only a subscribed central's packets are handed up.
OnWriteRequest(c) ==
  /\ c \in subscribed
  /\ strays' = strays \cup ({c} \ told)
  /\ UNCHANGED <<connected, subscribed, told, listed, advertising, outages, patient>>

\* The hub closes the link: the entry goes before the connection does.
Disconnect(c) ==
  /\ c \in told
  /\ connected' = connected \ {c} /\ subscribed' = subscribed \ {c}
  /\ told' = told \ {c}
  /\ UNCHANGED <<strays, listed, advertising, outages, patient>>

\* Everyone listed is told, everyone tracked is forgotten, and the server closed.
Cleared(centrals) ==
  /\ server' = "none"
  /\ connected' = {} /\ subscribed' = {} /\ told' = told \ centrals

\* close(): Bluetooth goes off.  A start that waits is rejected first.
Close ==
  /\ outages < MaxOutages /\ listed = None
  /\ outages' = outages + 1
  /\ onAir' = Stopped /\ advertiseCallback' = None
  /\ promise' = Settled(promise, {pendingStart}, "rejected")
  /\ pendingStart' = None /\ serviceTimeout' = FALSE
  /\ IF patient THEN Cleared(connected) /\ UNCHANGED listed
     ELSE listed' = connected /\ UNCHANGED <<server, connected, subscribed, told>>
  /\ UNCHANGED <<halfway, stopped, strays, patient>>

CloseClears ==
  /\ listed # None
  /\ Cleared(listed) /\ listed' = None
  /\ UNCHANGED <<pendingStart, serviceTimeout, promise, advertiseCallback, onAir, halfway,
                 stopped, strays, outages, patient>>

-----------------------------------------------------------------------------
Answer == \E s \in Start : OnStartSuccess(s) \/ OnStartFailure(s)

Next ==
  \/ \E s \in Start : StartAdvertising(s) \/ OnStartSuccess(s) \/ OnStartFailure(s)
  \/ StartWaits \/ StopAdvertising \/ OnServiceAdded \/ ServiceTimeout
  \/ \E c \in Central :
       OnDescriptorWrite(c) \/ OnConnectionStateChange(c) \/ OnMtuChanged(c)
       \/ OnWriteRequest(c) \/ Disconnect(c)
  \/ Close \/ CloseClears

\* A thread goes on, the armed timer runs, and the stack answers a start.
Fairness ==
  /\ WF_vars(StartWaits) /\ WF_vars(CloseClears) /\ WF_vars(ServiceTimeout)
  /\ \A s \in Start : WF_vars(OnStartSuccess(s) \/ OnStartFailure(s))

Spec == Init /\ [][Next]_vars /\ Fairness

-----------------------------------------------------------------------------
(* Properties.                                                             *)

\* The advertisement as the contract knows it.
Phase ==
  IF ~patient THEN "off" ELSE IF Waiting # {} THEN "asked"
  ELSE IF \E s \in Start : onAir[s] = "on" THEN "on" ELSE "off"

Contract == INSTANCE Advertisement WITH phase <- Phase

\* In patient behaviours every startAdvertising() settles, whatever the
\* registration of the service does, and a device is on the air only between a
\* start and the stop after it (definitions.ts; CourierGattServer.kt:206 "exactly
\* once").
Advertises == Contract!Spec

\* Its liveness half, for the impatient too: a start is answered although the
\* service may be registered between its check and its wait: "exactly once"
\* (CourierGattServer.kt:211, 249).
StartsSettle == \A s \in Start : promise[s] = "waiting" ~> promise[s] # "waiting"

\* A central the hub was told of is tracked until it is told of its end, whatever
\* runs inside close(): "the difference between a sync that ends and a sync that
\* hangs" (CourierBlePlugin.kt:231).
EndsAreTold == told \subseteq connected

\* The hub gets packets only of a central it was told of, and, when no callback
\* runs inside close(), is told the end of each of them
\* (CourierGattServer.kt:529 to 557, 646 to 659).
KnowsItsPeers == strays = {} /\ (patient => EndsAreTold)

\* A stopped device goes off the air and stays off: "Idempotent by design: the
\* TypeScript side calls this on teardown paths where it cannot know whether
\* advertising ever started" (CourierBlePlugin.kt:517).
StoppedStaysSilent == \A s \in stopped : onAir[s] # "on"
=============================================================================
