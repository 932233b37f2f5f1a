----------------------------- MODULE IosCentral -----------------------------
(***************************************************************************)
(* The iOS plugin as a central (CourierCentral.swift): scanning, connect   *)
(* with its token and its timeout, the delegate callbacks up to the        *)
(* subscription, disconnect, and the radio going away and coming back.     *)
(*                                                                         *)
(* One serial queue runs every call and every callback, so a handler is    *)
(* one step.  Plugin calls are those of hub.ts and transport.ts:           *)
(* disconnect() only closes a connection that was handed out.              *)
(***************************************************************************)
EXTENDS Naturals, FiniteSets

CONSTANTS
  Peer,
  MaxConnects,  \* bound: connections begun
  MaxOutages,   \* bound: how often the radio goes away
  Patience      \* the values of "patient" to explore

Token == 1..MaxConnects

VARIABLES
  js,        \* what the hub knows of a peer
  power,     \* the manager's state: is it .poweredOn?
  wantScan, scanning,
  peers,     \* the discovered peers
  linked,    \* connected, in their Peer entry
  ready,
  pending,   \* the token of the connect() that waits for a peer, or 0
  timers,    \* the armed timeouts, by token and peer
  made,
  stage,     \* the connection to a peer as Core Bluetooth has it
  owed,      \* the callbacks it still owes about a peer that is connected
  outages,
  patient    \* does connect() come only when the end of an earlier connection to
             \* the same peer was told, and does Core Bluetooth drop the callbacks
             \* of a connection it cancels, and fail none that was ready before?

scan == <<wantScan, scanning, peers>>
vars == <<js, power, scan, linked, ready, pending, timers, made, stage, owed, outages, patient>>

Stage == {"none", "dialling", "connected", "cancelled", "redialling"}
Callbacks == {"connect", "services", "characteristics", "notify"}

TypeOK ==
  /\ js \in [Peer -> {"idle", "asking", "linked", "closing"}]
  /\ power \in BOOLEAN /\ wantScan \in BOOLEAN /\ scanning \in BOOLEAN
  /\ peers \subseteq Peer /\ linked \subseteq peers /\ ready \subseteq linked
  /\ pending \in [Peer -> 0..MaxConnects]
  /\ timers \subseteq Token \X Peer
  /\ made \in 0..MaxConnects
  /\ stage \in [Peer -> Stage] /\ owed \in [Peer -> SUBSET Callbacks]
  /\ outages \in 0..MaxOutages
  /\ patient \in BOOLEAN

Init ==
  /\ js = [p \in Peer |-> "idle"]
  /\ power = TRUE /\ wantScan = FALSE /\ scanning = FALSE
  /\ peers = {} /\ linked = {} /\ ready = {}
  /\ pending = [p \in Peer |-> 0] /\ timers = {} /\ made = 0
  /\ stage = [p \in Peer |-> "none"] /\ owed = [p \in Peer |-> {}]
  /\ outages = 0
  /\ patient \in Patience

-----------------------------------------------------------------------------
(* Helpers of several handlers.                                            *)

\* finishConnect: whoever waits is answered, once.
Finish(p, answer) ==
  /\ pending' = [pending EXCEPT ![p] = 0]
  /\ js' = IF pending[p] = 0 THEN js ELSE [js EXCEPT ![p] = answer]

Reset(p) == linked' = linked \ {p} /\ ready' = ready \ {p}

\* cancelPeripheralConnection; of a connection that is only being dialled, Core
\* Bluetooth may say nothing more.
Cancel(p) ==
  \/ /\ stage[p] # "none"
     /\ stage' = [stage EXCEPT ![p] = "cancelled"]
  \/ /\ stage[p] \in {"none", "dialling"}
     /\ stage' = [stage EXCEPT ![p] = "none"]

Abandon(p) == Cancel(p) /\ Finish(p, "idle") /\ UNCHANGED <<linked, ready>>

\* One callback comes, and leads to others.
Answers(p, callback, next) ==
  /\ callback \in owed[p]
  /\ patient => stage[p] = "connected"
  /\ owed' = [owed EXCEPT ![p] = (@ \ {callback}) \cup next]

-----------------------------------------------------------------------------
(* Scanning.                                                               *)

StartScan ==
  /\ power
  /\ wantScan' = TRUE /\ scanning' = TRUE
  /\ UNCHANGED <<js, power, peers, linked, ready, pending, timers, made, stage, owed,
                 outages, patient>>

StopScan ==
  /\ wantScan' = FALSE /\ scanning' = FALSE
  /\ UNCHANGED <<js, power, peers, linked, ready, pending, timers, made, stage, owed,
                 outages, patient>>

DidDiscover(p) ==
  /\ scanning
  /\ peers' = peers \cup {p}
  /\ UNCHANGED <<js, power, wantScan, scanning, linked, ready, pending, timers, made, stage,
                 owed, outages, patient>>

-----------------------------------------------------------------------------
(* Connecting.                                                             *)

Dialled(s) ==
  IF s = "connected" THEN s ELSE IF s \in {"none", "dialling"} THEN "dialling" ELSE "redialling"

\* A connection that is up is handed out; otherwise a new one is asked for, also
\* over one that is not ready yet or on its way out, and its timeout armed.
Connect(p) ==
  /\ p \in peers
  /\ js[p] = "idle" \/ (~patient /\ js[p] = "closing")
  /\ power
  /\ \/ /\ p \in ready
        /\ js' = [js EXCEPT ![p] = "linked"]
        /\ UNCHANGED <<pending, timers, made, stage, owed>>
     \/ /\ p \notin ready /\ pending[p] = 0 /\ made < MaxConnects
        /\ made' = made + 1
        /\ pending' = [pending EXCEPT ![p] = made + 1]
        /\ timers' = timers \cup {<<made + 1, p>>}
        /\ js' = [js EXCEPT ![p] = "asking"]
        /\ stage' = [stage EXCEPT ![p] = Dialled(@)]
        /\ owed' = [owed EXCEPT ![p] = IF stage[p] = "connected" THEN @ \cup {"connect"} ELSE @]
  /\ UNCHANGED <<power, scan, linked, ready, outages, patient>>

\* Only the connect() whose token it is.
ConnectTimeout(t, p) ==
  /\ <<t, p>> \in timers
  /\ timers' = timers \ {<<t, p>>}
  /\ IF pending[p] = t THEN Abandon(p) ELSE UNCHANGED <<js, linked, ready, pending, stage>>
  /\ UNCHANGED <<power, scan, made, owed, outages, patient>>

\* The event of a connection that is cancelled comes with its callback.
Disconnect(p) ==
  /\ js[p] = "linked"
  /\ pending' = [pending EXCEPT ![p] = 0]
  /\ \/ /\ p \in linked
        /\ Cancel(p)
        /\ js' = [js EXCEPT ![p] = "closing"]
        /\ UNCHANGED <<linked, ready>>
     \/ /\ p \notin linked
        /\ Reset(p)
        /\ js' = [js EXCEPT ![p] = "idle"]
        /\ UNCHANGED stage
  /\ UNCHANGED <<power, scan, timers, made, owed, outages, patient>>

\* A peer that was connected already is said to be connected, and discovered, again.
DidConnect(p) ==
  /\ \/ /\ stage[p] = "dialling"
        /\ stage' = [stage EXCEPT ![p] = "connected"]
        /\ owed' = [owed EXCEPT ![p] = {"services"}]
     \/ stage[p] = "connected" /\ Answers(p, "connect", {"services"}) /\ UNCHANGED stage
  /\ linked' = linked \cup {p}
  /\ UNCHANGED <<js, power, scan, ready, pending, timers, made, outages, patient>>

DidFailToConnect(p) ==
  /\ stage[p] = "dialling"
  /\ stage' = [stage EXCEPT ![p] = "none"]
  /\ Reset(p) /\ Finish(p, "idle")
  /\ UNCHANGED <<power, scan, timers, made, owed, outages, patient>>

\* A connect() that came meanwhile is still being dialled, or not.
Ends(p) ==
  /\ stage[p] \in {"connected", "cancelled", "redialling"}
  /\ \/ stage[p] # "redialling" /\ stage' = [stage EXCEPT ![p] = "none"]
     \/ /\ stage[p] = "redialling" \/ "connect" \in owed[p]
        /\ stage' = [stage EXCEPT ![p] = "dialling"]
  /\ owed' = [owed EXCEPT ![p] = {}]
  /\ Reset(p)

\* Seeded defect of DidDisconnect: the event is left to the waiting connect().
DidDisconnectSilently(p) ==
  /\ Ends(p) /\ Finish(p, "idle")
  /\ UNCHANGED <<power, scan, timers, made, outages, patient>>

\* The promise is the signal for whoever waits, though it may be for the next
\* connection, and the event for whoever does not.
DidDisconnect(p) ==
  /\ Ends(p)
  /\ pending' = [pending EXCEPT ![p] = 0]
  /\ js' = IF pending[p] # 0 \/ p \in linked THEN [js EXCEPT ![p] = "idle"] ELSE js
  /\ UNCHANGED <<power, scan, timers, made, outages, patient>>

\* A step of the discovery failed.
Rejected(p) == (patient => p \notin ready) /\ Abandon(p)

\* The service, then its characteristics, or the connection is given up.
DidDiscoverServices(p) ==
  /\ \/ /\ Answers(p, "services", {"characteristics"})
        /\ UNCHANGED <<js, linked, ready, pending, stage>>
     \/ Answers(p, "services", {}) /\ Rejected(p)
  /\ UNCHANGED <<power, scan, timers, made, outages, patient>>

DidDiscoverCharacteristics(p) ==
  /\ \/ /\ Answers(p, "characteristics", {"notify"})
        /\ UNCHANGED <<js, linked, ready, pending, stage>>
     \/ Answers(p, "characteristics", {}) /\ Rejected(p)
  /\ UNCHANGED <<power, scan, timers, made, outages, patient>>

\* Notifications on: usable.  Off: the connection is kept as it is, and whoever
\* waits is refused.
DidUpdateNotificationState(p) ==
  /\ Answers(p, "notify", {})
  /\ \/ /\ ready' = ready \cup {p}
        /\ Finish(p, "linked")
        /\ UNCHANGED <<linked, stage>>
     \/ Finish(p, "idle") /\ UNCHANGED <<linked, ready, stage>>
     \/ Rejected(p)
  /\ UNCHANGED <<power, scan, timers, made, outages, patient>>

-----------------------------------------------------------------------------
(* The radio goes away and comes back.                                     *)

PowerLost ==
  /\ power /\ outages < MaxOutages
  /\ power' = FALSE /\ outages' = outages + 1
  /\ scanning' = FALSE
  /\ js' = [p \in Peer |-> IF p \in linked \/ pending[p] # 0 THEN "idle" ELSE js[p]]
  /\ linked' = {} /\ ready' = {}
  /\ pending' = [p \in Peer |-> 0]
  /\ stage' = [p \in Peer |-> "none"] /\ owed' = [p \in Peer |-> {}]
  /\ UNCHANGED <<wantScan, peers, timers, made, patient>>

PowerBack ==
  /\ ~power
  /\ power' = TRUE
  /\ scanning' = wantScan
  /\ UNCHANGED <<js, wantScan, peers, linked, ready, pending, timers, made, stage, owed,
                 outages, patient>>

-----------------------------------------------------------------------------
Callback(p) ==
  \/ DidConnect(p) \/ DidFailToConnect(p) \/ DidDisconnect(p)
  \/ DidDiscoverServices(p) \/ DidDiscoverCharacteristics(p) \/ DidUpdateNotificationState(p)

Next ==
  \/ StartScan \/ StopScan \/ PowerLost \/ PowerBack
  \/ \E p \in Peer :
       DidDiscover(p) \/ Connect(p) \/ Disconnect(p) \/ Callback(p)
       \/ \E t \in Token : ConnectTimeout(t, p)

\* The queue runs a timer that is due, and a cancelled connection reports its
\* end; Core Bluetooth's connect has no timeout of its own.
Fairness ==
  \A p \in Peer :
    /\ \A t \in Token : WF_vars(ConnectTimeout(t, p))
    /\ WF_vars(stage[p] \in {"cancelled", "redialling"} /\ DidDisconnect(p))

Spec == Init /\ [][Next]_vars /\ Fairness

-----------------------------------------------------------------------------
(* Properties.                                                             *)

\* What the hub takes for a connection is one.
Live(p) == p \in ready /\ stage[p] = "connected"

\* What connect() handed out is a connection: "Already up: hand back the MTU rather
\* than tearing down a working link" (CourierCentral.swift:173).
HeldIsAlive == \A p \in Peer : js[p] = "linked" => Live(p)

\* The connection as the contract knows it.
Seen(p) ==
  IF ~patient \/ js[p] \in {"idle", "closing"} THEN "none"
  ELSE IF js[p] = "asking" THEN "asked"
  ELSE IF Live(p) THEN "up" ELSE "dead"

Connections == [p \in Peer |-> Seen(p)]

Contract == INSTANCE PeerConnection WITH link <- Connections

\* Every connect() settles, once, and what was handed out is alive until it is
\* closed or `disconnected` is told (definitions.ts; CourierCentral.swift:162
\* to 224, 454 to 497, 584 to 611).
KeepsContract == Contract!Spec
=============================================================================
