------------------------- MODULE NativePluginProofs -------------------------
(****************************************************************************)
(* What the native plugin promises the hub, on either platform and in       *)
(* either role, for any number of peers, centrals, attempts, starts,        *)
(* handles and outages.                                                     *)
(*                                                                          *)
(* The centrals of a peripheral.  On Android a packet is handed up of a     *)
(* subscribed central only, so what is needed is that each subscription was *)
(* told and none is left when its central goes: the subscribed are among    *)
(* the told, the told among the tracked.  On iOS a handle taken back must   *)
(* not be somebody else's, so the invariant says that handles are minted in *)
(* order and no two centrals share one.                                     *)
(*                                                                          *)
(* The contracts of connect() and of startAdvertising(), fairness aside.    *)
(* Each half has an invariant that ties what the hub was told to what the   *)
(* stack has, so that a step moves what the contract sees of one peer, or   *)
(* of the device, only as the contract allows.  To the patient that means   *)
(* that what is held is alive and no interface of the stack leaks.          *)
(****************************************************************************)
EXTENDS MCNativePlugin, TLAPS

\* No step changes which of the two kinds of behaviour this is.
LEMMA AndroidPatience == [AndroidC!Next]_(AndroidC!vars) => patient' = patient
BY DEF AndroidC!Next, AndroidC!vars, AndroidC!Connect, AndroidC!Disconnect, AndroidC!MainThread,
       AndroidC!OpenGatt, AndroidC!StoreGatt, AndroidC!Retry, AndroidC!Timeout, AndroidC!TimeoutFinishes,
       AndroidC!Callback, AndroidC!OnConnected, AndroidC!OnMtuChanged, AndroidC!OnServicesDiscovered,
       AndroidC!OnDescriptorWrite, AndroidC!OnDisconnected, AndroidC!PowerOff

LEMMA IosCentralPatience == [IosC!Next]_(IosC!vars) => patient' = patient
BY DEF IosC!Next, IosC!vars, IosC!Callback, IosC!StartScan, IosC!StopScan, IosC!DidDiscover,
       IosC!Connect,
       IosC!ConnectTimeout, IosC!Disconnect, IosC!DidConnect, IosC!DidFailToConnect, IosC!DidDisconnect,
       IosC!DidDiscoverServices, IosC!DidDiscoverCharacteristics, IosC!DidUpdateNotificationState,
       IosC!PowerLost, IosC!PowerBack

LEMMA AndroidPeripheralPatience == [AndroidP!Next]_(AndroidP!vars) => patient' = patient
BY DEF AndroidP!Next, AndroidP!vars, AndroidP!StartAdvertising, AndroidP!OnStartSuccess,
       AndroidP!OnStartFailure, AndroidP!StartWaits, AndroidP!StopAdvertising, AndroidP!OnServiceAdded,
       AndroidP!ServiceTimeout, AndroidP!OnDescriptorWrite, AndroidP!OnConnectionStateChange,
       AndroidP!OnMtuChanged, AndroidP!OnWriteRequest, AndroidP!Disconnect, AndroidP!Track,
       AndroidP!Close, AndroidP!CloseClears

Serving ==
  /\ strays = {} /\ subscribed \subseteq told
  /\ patient => AndroidP!EndsAreTold /\ listed = None

LEMMA ServingInit == AndroidP!Init => Serving
BY DEF AndroidP!Init, Serving, AndroidP!EndsAreTold

LEMMA ServingStep == Serving /\ [AndroidP!Next]_(AndroidP!vars) => Serving'
<1> SUFFICES ASSUME Serving, [AndroidP!Next]_(AndroidP!vars) PROVE Serving'
  OBVIOUS
<1> USE DEF Serving, AndroidP!EndsAreTold
<1>1. ASSUME UNCHANGED <<AndroidP!serving, patient>> PROVE Serving'
  BY <1>1 DEF AndroidP!serving
<1>2. ASSUME NEW s \in AndroidP!Start, AndroidP!StartAdvertising(s) PROVE Serving'
  BY <1>1, <1>2 DEF AndroidP!StartAdvertising
<1>3. ASSUME NEW s \in AndroidP!Start, AndroidP!OnStartSuccess(s) PROVE Serving'
  BY <1>1, <1>3 DEF AndroidP!OnStartSuccess
<1>4. ASSUME NEW s \in AndroidP!Start, AndroidP!OnStartFailure(s) PROVE Serving'
  BY <1>1, <1>4 DEF AndroidP!OnStartFailure
<1>5. ASSUME AndroidP!StartWaits PROVE Serving'
  BY <1>1, <1>5 DEF AndroidP!StartWaits
<1>6. ASSUME AndroidP!StopAdvertising PROVE Serving'
  BY <1>1, <1>6 DEF AndroidP!StopAdvertising
<1>7. ASSUME AndroidP!OnServiceAdded PROVE Serving'
  BY <1>1, <1>7 DEF AndroidP!OnServiceAdded
<1>8. ASSUME AndroidP!ServiceTimeout PROVE Serving'
  BY <1>1, <1>8 DEF AndroidP!ServiceTimeout
<1>9. ASSUME NEW c \in Central, AndroidP!OnDescriptorWrite(c) PROVE Serving'
  <2>1. CASE subscribed' = subscribed \cup {c} /\ told' = told \cup {c}
    BY <1>9, <2>1 DEF AndroidP!OnDescriptorWrite
  <2>2. CASE subscribed' = subscribed \ {c} /\ told' = told
    BY <1>9, <2>2 DEF AndroidP!OnDescriptorWrite
  <2>3. QED BY <1>9, <2>1, <2>2 DEF AndroidP!OnDescriptorWrite
<1>10. ASSUME NEW c \in Central, AndroidP!OnConnectionStateChange(c) PROVE Serving'
  BY <1>10 DEF AndroidP!OnConnectionStateChange, AndroidP!Track
<1>11. ASSUME NEW c \in Central, AndroidP!OnMtuChanged(c) PROVE Serving'
  BY <1>11 DEF AndroidP!OnMtuChanged, AndroidP!Track
<1>12. ASSUME NEW c \in Central, AndroidP!OnWriteRequest(c) PROVE Serving'
  BY <1>12 DEF AndroidP!OnWriteRequest
<1>13. ASSUME NEW c \in Central, AndroidP!Disconnect(c) PROVE Serving'
  BY <1>13 DEF AndroidP!Disconnect
<1>14. ASSUME AndroidP!Close PROVE Serving'
  BY <1>14 DEF AndroidP!Close, AndroidP!Cleared
<1>15. ASSUME AndroidP!CloseClears PROVE Serving'
  BY <1>15 DEF AndroidP!CloseClears, AndroidP!Cleared
<1>16. CASE UNCHANGED AndroidP!vars
  BY <1>1, <1>16 DEF AndroidP!vars
<1> QED
  BY <1>2, <1>3, <1>4, <1>5, <1>6, <1>7, <1>8, <1>9, <1>10, <1>11, <1>12, <1>13, <1>14,
     <1>15, <1>16 DEF AndroidP!Next

LEMMA ServingKnows == Serving => AndroidP!KnowsItsPeers
BY DEF Serving, AndroidP!KnowsItsPeers

\* Nobody unheard of speaks to an Android peripheral, and, with callbacks kept out
\* of close(), a central the hub was told of is tracked until its end is told
\* (CourierGattServer.kt:529 to 557, 646 to 659).
THEOREM CentralsAreKnown == AndroidP!Spec => []AndroidP!KnowsItsPeers
BY ServingInit, ServingStep, ServingKnows, PTL DEF AndroidP!Spec

----------------------------------------------------------------------------
Minted ==
  /\ minted \in Nat
  /\ handles \in [Central -> Nat \cup {None}]
  /\ \A c \in Central : handles[c] # None => handles[c] <= minted

Unshared ==
  \A c, e \in Central : handles[c] # None /\ handles[c] = handles[e] => c = e

Handles == Minted /\ Unshared /\ IosP!KnowsItsPeers

LEMMA HandlesInit == ASSUME None \notin Nat PROVE IosP!Init => Handles
BY DEF IosP!Init, Handles, Minted, Unshared, IosP!KnowsItsPeers

LEMMA HandlesStep ==
  ASSUME None \notin Nat
  PROVE  Handles /\ [IosP!Next]_(IosP!vars) => Handles'
<1> SUFFICES ASSUME Handles, [IosP!Next]_(IosP!vars) PROVE Handles'
  OBVIOUS
<1> USE DEF Handles, Minted, Unshared, IosP!KnowsItsPeers
<1>1. ASSUME UNCHANGED IosP!serving PROVE Handles'
  BY <1>1 DEF IosP!serving
<1>2. ASSUME NEW s \in IosP!Start, NEW l \in Label, IosP!StartAdvertising(s, l) PROVE Handles'
  BY <1>1, <1>2 DEF IosP!StartAdvertising
<1>3. ASSUME NEW s \in IosP!Start, IosP!AdvertiseTimeout(s) PROVE Handles'
  BY <1>1, <1>3 DEF IosP!AdvertiseTimeout
<1>4. ASSUME IosP!StopAdvertising PROVE Handles'
  BY <1>1, <1>4 DEF IosP!StopAdvertising
<1>5. ASSUME IosP!DidAdd PROVE Handles'
  BY <1>1, <1>5 DEF IosP!DidAdd
<1>6. ASSUME IosP!DidStartAdvertising PROVE Handles'
  BY <1>1, <1>6 DEF IosP!DidStartAdvertising
<1>7. ASSUME NEW c \in Central, IosP!DidSubscribe(c) PROVE Handles'
  <2>1. CASE handles[c] # None
    BY <1>1, <1>7, <2>1 DEF IosP!DidSubscribe, IosP!serving
  <2>2. CASE handles[c] = None
    <3>1. /\ minted' = minted + 1 /\ iosTold' = iosTold \cup {minted + 1} /\ iosStrays' = iosStrays
          /\ handles' = [handles EXCEPT ![c] = minted + 1]
      BY <1>7, <2>2 DEF IosP!DidSubscribe
    <3>2. minted + 1 \in Nat /\ minted + 1 # None
      OBVIOUS
    <3>3. \A e \in Central : handles'[e] = IF e = c THEN minted + 1 ELSE handles[e]
      BY <3>1
    <3>4. Minted'
      BY <3>1, <3>2, <3>3
    <3>5. \A e \in Central : handles[e] # None => handles[e] # minted + 1
      BY <3>2
    <3>6. Unshared'
      BY <3>3, <3>5
    <3>7. \A h : h \in iosTold <=> h # None /\ \E e \in Central : handles[e] = h
      OBVIOUS
    <3>8. \A h : h \in iosTold' <=> h # None /\ \E e \in Central : handles'[e] = h
      BY <2>2, <3>1, <3>2, <3>3, <3>7
    <3>9. QED BY <3>1, <3>4, <3>6, <3>8
  <2>3. QED BY <2>1, <2>2
<1>8. ASSUME NEW c \in Central, IosP!Released(c) PROVE Handles'
  <2>1. /\ handles[c] # None /\ minted' = minted /\ iosStrays' = iosStrays
        /\ handles' = [handles EXCEPT ![c] = None] /\ iosTold' = iosTold \ {handles[c]}
    BY <1>8 DEF IosP!Released
  <2>2. \A e \in Central : handles'[e] = IF e = c THEN None ELSE handles[e]
    BY <2>1
  <2>3. Minted' /\ Unshared'
    BY <2>1, <2>2
  <2>4. \A h : h \in iosTold <=> h # None /\ \E e \in Central : handles[e] = h
    OBVIOUS
  <2>5. \A h : h \in iosTold' <=> h # None /\ \E e \in Central : handles'[e] = h
    BY <2>1, <2>2, <2>4
  <2>6. QED BY <2>1, <2>3, <2>5
<1>9. ASSUME NEW c \in Central, IosP!DidReceiveWrite(c) PROVE Handles'
  <2>1. handles[c] \in iosTold
    BY <1>9 DEF IosP!DidReceiveWrite
  <2>2. QED BY <1>9, <2>1 DEF IosP!DidReceiveWrite
<1>10. ASSUME IosP!PowerLost PROVE Handles'
  <2>1. /\ handles' = [c \in Central |-> None] /\ minted' = minted /\ iosStrays' = iosStrays
        /\ iosTold' = {h \in iosTold : \A c \in Central : handles[c] # h}
    BY <1>10 DEF IosP!PowerLost
  <2>2. iosTold' = {}
    BY <2>1
  <2>3. \A c \in Central : handles'[c] = None
    BY <2>1
  <2>4. QED BY <2>1, <2>2, <2>3
<1>11. ASSUME IosP!PowerBack PROVE Handles'
  BY <1>1, <1>11 DEF IosP!PowerBack
<1>12. CASE UNCHANGED IosP!vars
  BY <1>1, <1>12 DEF IosP!vars
<1>13. QED
  BY <1>2, <1>3, <1>4, <1>5, <1>6, <1>7, <1>8, <1>9, <1>10, <1>11, <1>12
     DEF IosP!Next, IosP!DidUnsubscribe, IosP!Forget

\* The hub hears of exactly the handles that are in use on an iOS peripheral,
\* and of nothing under another (CourierPeripheral.swift:313 to 343, 531 to 540).
THEOREM HandlesAreKnown == IosP!Spec => []IosP!KnowsItsPeers
<1>1. Handles => IosP!KnowsItsPeers
  BY DEF Handles
<1>2. /\ IosP!Init => Handles
      /\ Handles /\ [IosP!Next]_(IosP!vars) => Handles'
  BY HandlesInit, HandlesStep, NoneAssumption
<1> QED  BY <1>1, <1>2, PTL DEF IosP!Spec

----------------------------------------------------------------------------
\* On a device of either platform and in any role, the hub knows every peer it
\* hears and hears the end of every peer it knows.
THEOREM PeersAreKnown == Spec => []KnowsItsPeers
<1>1. Init => Serving /\ Handles
  BY ServingInit, HandlesInit, NoneAssumption DEF Init
<1>2. (Serving /\ Handles) /\ [Next]_vars => (Serving /\ Handles)'
  <2> SUFFICES ASSUME Serving, Handles, [Next]_vars  PROVE Serving' /\ Handles'
    OBVIOUS
  <2>1. [AndroidP!Next]_(AndroidP!vars) \/ UNCHANGED <<androidP, patient>>
    BY AndroidPatience, IosCentralPatience DEF Next, vars
  <2>2. [IosP!Next]_(IosP!vars) \/ UNCHANGED iosP
    BY DEF Next, vars
  <2>3. UNCHANGED <<androidP, patient>> => Serving'
    BY DEF androidP, Serving, AndroidP!EndsAreTold
  <2>4. UNCHANGED iosP => Handles'
    BY DEF iosP, Handles, Minted, Unshared, IosP!KnowsItsPeers
  <2> QED  BY <2>1, <2>2, <2>3, <2>4, ServingStep, HandlesStep, NoneAssumption
<1>3. Serving /\ Handles => KnowsItsPeers
  BY ServingKnows DEF Handles, KnowsItsPeers
<1> QED  BY <1>1, <1>2, <1>3, PTL DEF Spec

----------------------------------------------------------------------------
(* The promises of connect() and `disconnected`, step by step.              *)

\* One peer's connection moves, as the contract lets it.
Allowed(x, y) ==
  \/ x = y
  \/ x = "none" /\ y = "asked"
  \/ x = "asked" /\ y \in {"up", "none"}
  \/ x = "none" /\ y = "up"
  \/ x = "up" /\ y = "none"

\* What the hub holds on iOS is up, it asks exactly while a connect() waits, and
\* what it closes is linked until its end is told.
IosHolds(p) ==
  /\ iosJs[p] = "asking" <=> pending[p] # 0
  /\ iosJs[p] = "linked" => p \in ready /\ iosStage[p] = "connected"
  /\ iosJs[p] = "closing" => p \in linked /\ iosStage[p] = "cancelled"
  /\ p \in ready => /\ p \in linked /\ pending[p] = 0
                    /\ iosStage[p] = "connected" \/ iosJs[p] = "closing"
  /\ iosStage[p] = "connected" => p \in linked

IosTyped ==
  /\ iosJs \in [Peer -> {"idle", "asking", "linked", "closing"}]
  /\ pending \in [Peer -> Nat] /\ iosMade \in Nat
  /\ iosStage \in [Peer -> IosC!Stage]
  /\ patient \in BOOLEAN

IosHeld == IosTyped /\ (patient => \A p \in Peer : IosHolds(p))

LEMMA IosHeldInit == IosC!Init /\ Patience \subseteq BOOLEAN => IosHeld
<1> SUFFICES ASSUME IosC!Init, Patience \subseteq BOOLEAN  PROVE IosHeld
  OBVIOUS
<1>1. IosTyped
  BY DEF IosC!Init, IosTyped, IosC!Stage
<1>2. ASSUME NEW p \in Peer  PROVE IosHolds(p)
  BY DEF IosC!Init, IosHolds
<1> QED BY <1>1, <1>2 DEF IosHeld

LEMMA IosStartsUnasked == IosC!Init => IosC!Contract!Init
BY DEF IosC!Init, IosC!Contract!Init, IosC!Connections, IosC!Seen

IosMoves == [IosC!Contract!Next]_(IosC!Connections)

\* A handler about one peer leaves the others alone.
IosOnly(p) ==
  /\ patient' = patient
  /\ \A q \in Peer \ {p} :
       /\ iosJs'[q] = iosJs[q] /\ pending'[q] = pending[q] /\ iosStage'[q] = iosStage[q]
       /\ q \in ready' <=> q \in ready
       /\ q \in linked' <=> q \in linked

LEMMA IosOneMoves ==
  ASSUME NEW p \in Peer, IosHeld, IosOnly(p), IosTyped',
         patient => IosHolds(p)' /\ Allowed(IosC!Seen(p), IosC!Seen(p)')
  PROVE  IosHeld' /\ IosMoves
<1>1. \A q \in Peer \ {p} : IosC!Seen(q)' = IosC!Seen(q)
  BY DEF IosOnly, IosC!Seen, IosC!Live
<1>2. IosHeld'
  <2>1. ASSUME patient, NEW q \in Peer \ {p}
        PROVE  IosHolds(q)'
    BY <2>1 DEF IosHeld, IosHolds, IosOnly
  <2> QED BY <2>1 DEF IosHeld, IosTyped, IosOnly
<1>3. IosC!Connections' = [IosC!Connections EXCEPT ![p] = IosC!Seen(p)']
  BY <1>1 DEF IosC!Connections
<1>4. Allowed(IosC!Seen(p), IosC!Seen(p)')
  BY DEF Allowed, IosC!Seen, IosOnly, IosHeld, IosTyped
<1>5. IosC!Connections[p] = IosC!Seen(p)
  BY DEF IosC!Connections
<1>6. CASE IosC!Seen(p)' = IosC!Seen(p)
  <2>1. \A q \in Peer : IosC!Seen(q)' = IosC!Seen(q)
    BY <1>1, <1>6
  <2>2. IosC!Connections' = IosC!Connections
    BY <2>1 DEF IosC!Connections
  <2> QED BY <2>2, <1>2 DEF IosMoves
<1>7. CASE IosC!Seen(p)' # IosC!Seen(p)
  <2>1. IosC!Contract!Move(p, {IosC!Seen(p)}, IosC!Seen(p)')
    BY <1>3, <1>5 DEF IosC!Connections, IosC!Contract!Move
  <2>2. IosC!Contract!Next
    BY <1>4, <1>7, <2>1
       DEF Allowed, IosC!Contract!Next, IosC!Contract!Ask, IosC!Contract!Settle,
           IosC!Contract!Join, IosC!Contract!End, IosC!Contract!Move
  <2> QED BY <1>2, <2>2 DEF IosMoves
<1> QED BY <1>6, <1>7
LEMMA IosConnect ==
  ASSUME NEW p \in Peer, IosHeld, IosC!Connect(p)
  PROVE  IosHeld' /\ IosMoves
<1>1. IosOnly(p)
  BY DEF IosOnly, IosHeld, IosTyped, IosC!Connect, IosC!Dialled
<1>2. IosTyped'
  BY DEF IosHeld, IosTyped, IosC!Connect, IosC!Dialled, IosC!Stage
<1>3. ASSUME patient  PROVE IosHolds(p)' /\ Allowed(IosC!Seen(p), IosC!Seen(p)')
  BY <1>3 DEF IosHeld, IosTyped, IosHolds, Allowed, IosC!Connect, IosC!Dialled, IosC!Seen,
              IosC!Live, IosC!Stage
<1> QED BY <1>1, <1>2, <1>3, IosOneMoves DEF IosMoves

LEMMA IosConnectTimeout ==
  ASSUME NEW p \in Peer, NEW t \in IosC!Token, IosHeld, IosC!ConnectTimeout(t, p)
  PROVE  IosHeld' /\ IosMoves
<1>1. IosOnly(p)
  BY DEF IosOnly, IosHeld, IosTyped, IosC!ConnectTimeout, IosC!Abandon, IosC!Cancel, IosC!Finish,
         IosC!Token
<1>2. IosTyped'
  BY DEF IosHeld, IosTyped, IosC!ConnectTimeout, IosC!Abandon, IosC!Cancel, IosC!Finish,
         IosC!Token, IosC!Stage
<1>3. ASSUME patient  PROVE IosHolds(p)' /\ Allowed(IosC!Seen(p), IosC!Seen(p)')
  BY <1>3 DEF IosHeld, IosTyped, IosHolds, Allowed, IosC!ConnectTimeout, IosC!Abandon, IosC!Cancel,
              IosC!Finish, IosC!Token, IosC!Seen, IosC!Live, IosC!Stage
<1> QED BY <1>1, <1>2, <1>3, IosOneMoves DEF IosMoves

LEMMA IosDisconnect ==
  ASSUME NEW p \in Peer, IosHeld, IosC!Disconnect(p)
  PROVE  IosHeld' /\ IosMoves
<1>1. IosOnly(p)
  BY DEF IosOnly, IosHeld, IosTyped, IosC!Disconnect, IosC!Cancel, IosC!Reset
<1>2. IosTyped'
  BY DEF IosHeld, IosTyped, IosC!Disconnect, IosC!Cancel, IosC!Reset, IosC!Stage
<1>3. ASSUME patient  PROVE IosHolds(p)' /\ Allowed(IosC!Seen(p), IosC!Seen(p)')
  BY <1>3 DEF IosHeld, IosTyped, IosHolds, Allowed, IosC!Disconnect, IosC!Cancel, IosC!Reset,
              IosC!Seen, IosC!Live, IosC!Stage
<1> QED BY <1>1, <1>2, <1>3, IosOneMoves DEF IosMoves

LEMMA IosDidConnect ==
  ASSUME NEW p \in Peer, IosHeld, IosC!DidConnect(p)
  PROVE  IosHeld' /\ IosMoves
<1>1. IosOnly(p)
  BY DEF IosOnly, IosHeld, IosTyped, IosC!DidConnect, IosC!Answers
<1>2. IosTyped'
  BY DEF IosHeld, IosTyped, IosC!DidConnect, IosC!Answers, IosC!Stage
<1>3. ASSUME patient  PROVE IosHolds(p)' /\ Allowed(IosC!Seen(p), IosC!Seen(p)')
  BY <1>3 DEF IosHeld, IosTyped, IosHolds, Allowed, IosC!DidConnect, IosC!Answers, IosC!Seen,
              IosC!Live, IosC!Stage
<1> QED BY <1>1, <1>2, <1>3, IosOneMoves DEF IosMoves

LEMMA IosDidFailToConnect ==
  ASSUME NEW p \in Peer, IosHeld, IosC!DidFailToConnect(p)
  PROVE  IosHeld' /\ IosMoves
<1>1. IosOnly(p)
  BY DEF IosOnly, IosHeld, IosTyped, IosC!DidFailToConnect, IosC!Reset, IosC!Finish
<1>2. IosTyped'
  BY DEF IosHeld, IosTyped, IosC!DidFailToConnect, IosC!Reset, IosC!Finish, IosC!Stage
<1>3. ASSUME patient  PROVE IosHolds(p)' /\ Allowed(IosC!Seen(p), IosC!Seen(p)')
  BY <1>3 DEF IosHeld, IosTyped, IosHolds, Allowed, IosC!DidFailToConnect, IosC!Reset, IosC!Finish,
              IosC!Seen, IosC!Live, IosC!Stage
<1> QED BY <1>1, <1>2, <1>3, IosOneMoves DEF IosMoves

LEMMA IosDidDisconnect ==
  ASSUME NEW p \in Peer, IosHeld, IosC!DidDisconnect(p)
  PROVE  IosHeld' /\ IosMoves
<1>1. IosOnly(p)
  BY DEF IosOnly, IosHeld, IosTyped, IosC!DidDisconnect, IosC!Ends, IosC!Reset
<1>2. IosTyped'
  BY DEF IosHeld, IosTyped, IosC!DidDisconnect, IosC!Ends, IosC!Reset, IosC!Stage
<1>3. ASSUME patient  PROVE IosHolds(p)' /\ Allowed(IosC!Seen(p), IosC!Seen(p)')
  BY <1>3 DEF IosHeld, IosTyped, IosHolds, Allowed, IosC!DidDisconnect, IosC!Ends, IosC!Reset,
              IosC!Seen, IosC!Live, IosC!Stage
<1> QED BY <1>1, <1>2, <1>3, IosOneMoves DEF IosMoves

LEMMA IosDidDiscoverServices ==
  ASSUME NEW p \in Peer, IosHeld, IosC!DidDiscoverServices(p)
  PROVE  IosHeld' /\ IosMoves
<1>1. IosOnly(p)
  BY DEF IosOnly, IosHeld, IosTyped, IosC!DidDiscoverServices, IosC!Answers, IosC!Rejected,
         IosC!Abandon, IosC!Cancel, IosC!Finish
<1>2. IosTyped'
  BY DEF IosHeld, IosTyped, IosC!DidDiscoverServices, IosC!Answers, IosC!Rejected, IosC!Abandon,
         IosC!Cancel, IosC!Finish, IosC!Stage
<1>3. ASSUME patient  PROVE IosHolds(p)' /\ Allowed(IosC!Seen(p), IosC!Seen(p)')
  BY <1>3 DEF IosHeld, IosTyped, IosHolds, Allowed, IosC!DidDiscoverServices, IosC!Answers,
              IosC!Rejected, IosC!Abandon, IosC!Cancel, IosC!Finish, IosC!Seen, IosC!Live,
              IosC!Stage
<1> QED BY <1>1, <1>2, <1>3, IosOneMoves DEF IosMoves

LEMMA IosDidDiscoverCharacteristics ==
  ASSUME NEW p \in Peer, IosHeld, IosC!DidDiscoverCharacteristics(p)
  PROVE  IosHeld' /\ IosMoves
<1>1. IosOnly(p)
  BY DEF IosOnly, IosHeld, IosTyped, IosC!DidDiscoverCharacteristics, IosC!Answers,
         IosC!Rejected, IosC!Abandon, IosC!Cancel, IosC!Finish
<1>2. IosTyped'
  BY DEF IosHeld, IosTyped, IosC!DidDiscoverCharacteristics, IosC!Answers, IosC!Rejected,
         IosC!Abandon, IosC!Cancel, IosC!Finish, IosC!Stage
<1>3. ASSUME patient  PROVE IosHolds(p)' /\ Allowed(IosC!Seen(p), IosC!Seen(p)')
  BY <1>3 DEF IosHeld, IosTyped, IosHolds, Allowed, IosC!DidDiscoverCharacteristics, IosC!Answers,
              IosC!Rejected, IosC!Abandon, IosC!Cancel, IosC!Finish, IosC!Seen, IosC!Live,
              IosC!Stage
<1> QED BY <1>1, <1>2, <1>3, IosOneMoves DEF IosMoves

LEMMA IosDidUpdateNotificationState ==
  ASSUME NEW p \in Peer, IosHeld, IosC!DidUpdateNotificationState(p)
  PROVE  IosHeld' /\ IosMoves
<1>1. IosOnly(p)
  BY DEF IosOnly, IosHeld, IosTyped, IosC!DidUpdateNotificationState, IosC!Answers, IosC!Rejected,
              IosC!Abandon, IosC!Cancel,
         IosC!Finish
<1>2. IosTyped'
  BY DEF IosHeld, IosTyped, IosC!DidUpdateNotificationState, IosC!Answers, IosC!Rejected,
              IosC!Abandon, IosC!Cancel,
         IosC!Finish, IosC!Stage
<1>3. ASSUME patient  PROVE IosHolds(p)' /\ Allowed(IosC!Seen(p), IosC!Seen(p)')
  BY <1>3 DEF IosHeld, IosTyped, IosHolds, Allowed, IosC!DidUpdateNotificationState,
              IosC!Answers, IosC!Rejected, IosC!Abandon, IosC!Cancel, IosC!Finish, IosC!Seen,
              IosC!Live, IosC!Stage
<1> QED BY <1>1, <1>2, <1>3, IosOneMoves DEF IosMoves

LEMMA IosPowerLost ==
  ASSUME IosHeld, IosC!PowerLost
  PROVE  IosHeld' /\ IosMoves
<1>1. IosTyped'
  BY DEF IosHeld, IosTyped, IosC!PowerLost, IosC!Stage
<1>2. ASSUME patient, NEW p \in Peer  PROVE IosHolds(p)' /\ IosC!Seen(p)' = "none"
  BY <1>2 DEF IosHeld, IosTyped, IosHolds, IosC!PowerLost, IosC!Seen, IosC!Live
<1>3. ASSUME ~patient, NEW p \in Peer  PROVE IosC!Seen(p)' = "none"
  BY <1>3 DEF IosC!PowerLost, IosC!Seen
<1>4. patient' = patient
  BY DEF IosC!PowerLost
<1>5. IosHeld'
  BY <1>1, <1>2, <1>4 DEF IosHeld
<1>6. \A p \in Peer : IosC!Seen(p)' = "none"
  BY <1>2, <1>3 DEF IosHeld, IosTyped
<1>7. IosC!Contract!EndAll
  BY <1>6 DEF IosC!Contract!EndAll, IosC!Connections
<1> QED BY <1>5, <1>7 DEF IosMoves, IosC!Contract!Next

LEMMA IosElsewhere ==
  ASSUME IosHeld, UNCHANGED <<iosJs, linked, ready, pending, iosMade, iosStage, patient>>
  PROVE  IosHeld' /\ IosMoves
<1>1. \A p \in Peer : IosC!Seen(p)' = IosC!Seen(p)
  BY DEF IosC!Seen, IosC!Live
<1>2. UNCHANGED IosC!Connections
  BY <1>1 DEF IosC!Connections
<1>3. IosHeld'
  BY DEF IosHeld, IosTyped, IosHolds
<1> QED BY <1>2, <1>3 DEF IosMoves

LEMMA IosStep == IosHeld /\ [IosC!Next]_(IosC!vars) => IosHeld' /\ IosMoves
<1> SUFFICES ASSUME IosHeld, [IosC!Next]_(IosC!vars)  PROVE IosHeld' /\ IosMoves
  OBVIOUS
<1>1. CASE \/ IosC!StartScan \/ IosC!StopScan \/ IosC!PowerBack
           \/ (\E p \in Peer : IosC!DidDiscover(p)) \/ UNCHANGED IosC!vars
  BY <1>1, IosElsewhere
     DEF IosC!StartScan, IosC!StopScan, IosC!PowerBack, IosC!DidDiscover, IosC!vars, IosC!scan
<1>2. ASSUME NEW p \in Peer, IosC!Callback(p)  PROVE IosHeld' /\ IosMoves
  BY <1>2, IosDidConnect, IosDidFailToConnect, IosDidDisconnect, IosDidDiscoverServices,
     IosDidDiscoverCharacteristics, IosDidUpdateNotificationState DEF IosC!Callback
<1> QED BY <1>1, <1>2, IosConnect, IosConnectTimeout, IosDisconnect, IosPowerLost DEF IosC!Next

\* connect() and `disconnected` keep their promise on iOS, fairness aside: a
\* promise settles at most once, and what was handed out is alive until its end
\* was asked for or told (CourierCentral.swift:162 to 224, 454 to 497).
THEOREM IosKeepsContract == IosC!Spec => IosC!Contract!Safety
<1>1. IosC!Init => IosHeld
  BY IosHeldInit, PatienceAssumption
<1>2. IosC!Init => IosC!Contract!Init
  BY IosStartsUnasked
<1>3. IosHeld /\ [IosC!Next]_(IosC!vars)
      => IosHeld' /\ IosMoves
  BY IosStep
<1> QED BY <1>1, <1>2, <1>3, PTL
       DEF IosC!Spec, IosC!Contract!Safety, IosMoves
----------------------------------------------------------------------------
(* The promises of startAdvertising() and stopAdvertising().                *)

\* On iOS a start that waits has its timer and nothing is on the air meanwhile, and
\* only a published service is advertised.
IosWished ==
  /\ DOMAIN iosPromise = IosP!Start /\ air \in {"off", "starting", "on"}
  /\ IosP!Waiting \subseteq advertiseWaiters
  /\ air = "on" => IosP!Waiting = {}
  /\ air # "off" => servicePublication = "present"

IosPhases == [IosP!Contract!Next]_(IosP!Phase)

LEMMA IosStartAdvertising ==
  ASSUME NEW s \in IosP!Start, NEW l \in Label, IosWished, IosP!StartAdvertising(s, l)
  PROVE  IosWished' /\ IosPhases
<1>0. None \notin Label
  BY NoneAssumption
<1>1. CASE IosP!Answered(s, l) /\ UNCHANGED <<servicePublication, desiredLabel, advertiseWaiters, air>>
  <2>1. DOMAIN iosPromise' = IosP!Start /\ IosP!Waiting' = IosP!Waiting
    BY <1>1 DEF IosP!Answered, IosP!StartAdvertising, IosP!Waiting, IosWished
  <2> QED BY <1>1, <2>1 DEF IosWished, IosPhases, IosP!Phase
<1>2. CASE /\ desiredLabel' = l /\ advertiseWaiters' = advertiseWaiters \cup {s}
           /\ iosPromise' = [iosPromise EXCEPT ![s] = "waiting"]
           /\ IosP!BeginIfWanted(servicePublication, l)
  <2>1. DOMAIN iosPromise' = IosP!Start /\ IosP!Waiting' = IosP!Waiting \cup {s}
    BY <1>2 DEF IosP!Waiting, IosWished
  <2>2. IosWished'
    BY <1>0, <1>2, <2>1 DEF IosWished, IosP!BeginIfWanted
  <2>3. IosP!Phase' = "asked"
    BY <1>0, <1>2, <2>1, <2>2 DEF IosWished, IosP!Phase
  <2> QED BY <2>2, <2>3 DEF IosPhases, IosP!Phase, IosP!Contract!Next, IosP!Contract!Ask,
                            IosP!Contract!Move, IosWished
<1> QED BY <1>1, <1>2 DEF IosP!StartAdvertising

LEMMA IosWishedStep == IosWished /\ [IosP!Next]_(IosP!vars) => IosWished' /\ IosPhases
<1> SUFFICES ASSUME IosWished, [IosP!Next]_(IosP!vars)  PROVE IosWished' /\ IosPhases
  OBVIOUS
<1> USE DEF IosWished, IosPhases, IosP!Phase, IosP!Waiting, IosP!Contract!Next,
            IosP!Contract!Ask, IosP!Contract!Settle, IosP!Contract!Stop,
            IosP!Contract!StopUnheard, IosP!Contract!Lapse, IosP!Contract!Resume,
            IosP!Contract!Move
<1>1. CASE IosP!DidAdd
  BY <1>1 DEF IosP!DidAdd, IosP!BeginIfWanted, IosP!Settle
<1>2. CASE IosP!DidStartAdvertising
  BY <1>2 DEF IosP!DidStartAdvertising, IosP!Settle
<1>3. CASE IosP!PowerLost
  BY <1>3 DEF IosP!PowerLost, IosP!Settle
<1>4. CASE IosP!PowerBack
  BY <1>4 DEF IosP!PowerBack, IosP!BeginIfWanted
<1>5. CASE IosP!StopAdvertising
  BY <1>5 DEF IosP!StopAdvertising
<1>6. ASSUME NEW s \in IosP!Start, IosP!AdvertiseTimeout(s)  PROVE IosWished' /\ IosPhases
  BY <1>6 DEF IosP!AdvertiseTimeout, IosP!Settle
<1>7. CASE \/ \E c \in Central : \/ IosP!DidSubscribe(c) \/ IosP!DidUnsubscribe(c)
                                \/ IosP!Forget(c) \/ IosP!DidReceiveWrite(c)
           \/ UNCHANGED IosP!vars
  BY <1>7 DEF IosP!DidSubscribe, IosP!DidUnsubscribe, IosP!Forget, IosP!Released,
              IosP!DidReceiveWrite, IosP!advertising, IosP!vars
<1> HIDE DEF IosWished, IosPhases
<1> QED BY <1>1, <1>2, <1>3, <1>4, <1>5, <1>6, <1>7, IosStartAdvertising DEF IosP!Next

LEMMA IosWishedInit == IosP!Init => IosWished /\ IosP!Contract!Init
BY DEF IosP!Init, IosWished, IosP!Contract!Init, IosP!Phase, IosP!Waiting

\* startAdvertising() and stopAdvertising() keep their promise on iOS, fairness
\* aside and whenever they are called: a stopped device comes on the air only by
\* the next start, outages of the radio included, or when the stop came while the
\* stack was starting, and then goes off with the next stop
\* (CourierPeripheral.swift:43, 125 to 157, 238).
THEOREM IosAdvertises == IosP!Spec => IosP!Contract!Safety
<1>1. IosP!Init => IosWished /\ IosP!Contract!Init
  BY IosWishedInit
<1>2. IosWished /\ [IosP!Next]_(IosP!vars) => IosWished' /\ IosPhases
  BY IosWishedStep
<1> QED BY <1>1, <1>2, PTL DEF IosP!Spec, IosP!Contract!Safety, IosPhases

\* On Android, what is on its way to the air has a start that waits for it, and
\* the start that waits for the service is another.
AwaitedTyped ==
  /\ patient \in BOOLEAN
  /\ promise \in [AndroidP!Start -> {"unused", "waiting", "resolved", "rejected"}]
  /\ onAir \in [AndroidP!Start -> {"no", "starting", "stopping", "on"}]

AwaitedFor(s) ==
  /\ onAir[s] = "starting" => promise[s] = "waiting"
  /\ pendingStart = s \/ promise[s] = "unused" => onAir[s] = "no"

AwaitedService ==
  /\ halfway = None
  /\ pendingStart # None => pendingStart \in AndroidP!Start /\ promise[pendingStart] = "waiting"

Awaited ==
  AwaitedTyped /\ (patient => AwaitedService /\ \A s \in AndroidP!Start : AwaitedFor(s))

\* Only a start that waits comes on the air.
Called(s) == onAir'[s] = "on" => onAir[s] = "on" \/ promise[s] = "waiting"
AndroidQuiet == patient' = patient /\ (patient => \A s \in AndroidP!Start : Called(s))

LEMMA AwaitedStart ==
  ASSUME NEW s \in AndroidP!Start, Awaited, AndroidP!StartAdvertising(s), None \notin Nat
  PROVE  Awaited' /\ AndroidQuiet
<1>1. CASE AndroidP!StartRefused(s)
  BY <1>1 DEF Awaited, AwaitedTyped, AwaitedFor, AwaitedService, AndroidQuiet, Called,
              AndroidP!StartAdvertising, AndroidP!StartRefused
<1>2. CASE AndroidP!StartTaken(s)
  <2> USE DEF AndroidP!StartAdvertising, AndroidP!StartTaken, AndroidP!Settled, AndroidP!Stopped,
              AndroidP!Begin
  <2>0. None \notin AndroidP!Start
    BY DEF AndroidP!Start
  <2>1. AwaitedTyped'
    BY <1>2 DEF Awaited, AwaitedTyped
  <2>4. ASSUME patient  PROVE pendingStart = None
    BY <2>4 DEF Awaited, AwaitedService, AndroidP!Waiting
  <2>2. ASSUME patient  PROVE AwaitedService'
    BY <1>2, <2>0, <2>2, <2>4 DEF Awaited, AwaitedTyped, AwaitedService
  <2>3. ASSUME patient, NEW r \in AndroidP!Start  PROVE AwaitedFor(r)' /\ Called(r)
    BY <1>2, <2>0, <2>3, <2>4 DEF Awaited, AwaitedTyped, AwaitedFor, AwaitedService, Called
  <2> QED BY <2>1, <2>2, <2>3 DEF Awaited, AndroidQuiet
<1> QED BY <1>1, <1>2 DEF AndroidP!StartAdvertising

LEMMA AwaitedServiceTimeout ==
  ASSUME Awaited, AndroidP!ServiceTimeout, None \notin Nat
  PROVE  Awaited' /\ AndroidQuiet
<1> USE DEF AndroidP!ServiceTimeout, AndroidP!Settled
<1>0. None \notin AndroidP!Start
  BY DEF AndroidP!Start
<1>1. AwaitedTyped'
  BY DEF Awaited, AwaitedTyped
<1>2. ASSUME patient  PROVE AwaitedService'
  BY <1>0, <1>2 DEF Awaited, AwaitedTyped, AwaitedService, AwaitedFor, AndroidP!Waiting
<1>3. ASSUME patient, NEW r \in AndroidP!Start  PROVE AwaitedFor(r)' /\ Called(r)
  BY <1>0, <1>3 DEF Awaited, AwaitedTyped, AwaitedFor, AwaitedService, Called
<1> QED BY <1>1, <1>2, <1>3 DEF Awaited, AndroidQuiet

LEMMA AwaitedStopAdvertising ==
  ASSUME Awaited, AndroidP!StopAdvertising, None \notin Nat
  PROVE  Awaited' /\ AndroidQuiet
<1> USE DEF AndroidP!StopAdvertising, AndroidP!Stopped
<1>0. None \notin AndroidP!Start
  BY DEF AndroidP!Start
<1>1. AwaitedTyped'
  BY DEF Awaited, AwaitedTyped
<1>2. ASSUME patient  PROVE AwaitedService'
  BY <1>0, <1>2 DEF Awaited, AwaitedTyped, AwaitedService, AwaitedFor, AndroidP!Waiting
<1>3. ASSUME patient, NEW r \in AndroidP!Start  PROVE AwaitedFor(r)' /\ Called(r)
  BY <1>0, <1>3 DEF Awaited, AwaitedTyped, AwaitedFor, AwaitedService, Called
<1> QED BY <1>1, <1>2, <1>3 DEF Awaited, AndroidQuiet

LEMMA AwaitedClose ==
  ASSUME Awaited, AndroidP!Close, None \notin Nat
  PROVE  Awaited' /\ AndroidQuiet
<1> USE DEF AndroidP!Close, AndroidP!Stopped, AndroidP!Settled
<1>0. None \notin AndroidP!Start
  BY DEF AndroidP!Start
<1>1. AwaitedTyped'
  BY DEF Awaited, AwaitedTyped
<1>2. ASSUME patient  PROVE AwaitedService'
  BY <1>0, <1>2 DEF Awaited, AwaitedTyped, AwaitedService, AwaitedFor, AndroidP!Waiting
<1>3. ASSUME patient, NEW r \in AndroidP!Start  PROVE AwaitedFor(r)' /\ Called(r)
  BY <1>0, <1>3 DEF Awaited, AwaitedTyped, AwaitedFor, AwaitedService, Called
<1> QED BY <1>1, <1>2, <1>3 DEF Awaited, AndroidQuiet

LEMMA AwaitedOnServiceAdded ==
  ASSUME Awaited, AndroidP!OnServiceAdded, None \notin Nat
  PROVE  Awaited' /\ AndroidQuiet
<1> USE DEF AndroidP!OnServiceAdded, AndroidP!Begin, AndroidP!Settled
<1>0. None \notin AndroidP!Start
  BY DEF AndroidP!Start
<1>1. AwaitedTyped'
  BY DEF Awaited, AwaitedTyped
<1>2. ASSUME patient  PROVE AwaitedService'
  BY <1>0, <1>2 DEF Awaited, AwaitedTyped, AwaitedService, AwaitedFor, AndroidP!Waiting
<1>3. ASSUME patient, NEW r \in AndroidP!Start  PROVE AwaitedFor(r)' /\ Called(r)
  BY <1>0, <1>3 DEF Awaited, AwaitedTyped, AwaitedFor, AwaitedService, Called
<1> QED BY <1>1, <1>2, <1>3 DEF Awaited, AndroidQuiet

LEMMA AwaitedOnStartSuccess ==
  ASSUME NEW s \in AndroidP!Start, Awaited, AndroidP!OnStartSuccess(s), None \notin Nat
  PROVE  Awaited' /\ AndroidQuiet
<1> USE DEF AndroidP!OnStartSuccess, AndroidP!Settled
<1>0. None \notin AndroidP!Start
  BY DEF AndroidP!Start
<1>1. AwaitedTyped'
  BY DEF Awaited, AwaitedTyped
<1>2. ASSUME patient  PROVE AwaitedService'
  BY <1>0, <1>2 DEF Awaited, AwaitedTyped, AwaitedService, AwaitedFor, AndroidP!Waiting
<1>3. ASSUME patient, NEW r \in AndroidP!Start  PROVE AwaitedFor(r)' /\ Called(r)
  BY <1>0, <1>3 DEF Awaited, AwaitedTyped, AwaitedFor, AwaitedService, Called
<1> QED BY <1>1, <1>2, <1>3 DEF Awaited, AndroidQuiet

LEMMA AwaitedOnStartFailure ==
  ASSUME NEW s \in AndroidP!Start, Awaited, AndroidP!OnStartFailure(s), None \notin Nat
  PROVE  Awaited' /\ AndroidQuiet
<1> USE DEF AndroidP!OnStartFailure, AndroidP!Settled
<1>0. None \notin AndroidP!Start
  BY DEF AndroidP!Start
<1>1. AwaitedTyped'
  BY DEF Awaited, AwaitedTyped
<1>2. ASSUME patient  PROVE AwaitedService'
  BY <1>0, <1>2 DEF Awaited, AwaitedTyped, AwaitedService, AwaitedFor, AndroidP!Waiting
<1>3. ASSUME patient, NEW r \in AndroidP!Start  PROVE AwaitedFor(r)' /\ Called(r)
  BY <1>0, <1>3 DEF Awaited, AwaitedTyped, AwaitedFor, AwaitedService, Called
<1> QED BY <1>1, <1>2, <1>3 DEF Awaited, AndroidQuiet

LEMMA AwaitedStartWaits ==
  ASSUME Awaited, AndroidP!StartWaits, None \notin Nat
  PROVE  Awaited' /\ AndroidQuiet
<1> USE DEF AndroidP!StartWaits
<1>0. None \notin AndroidP!Start
  BY DEF AndroidP!Start
<1>1. AwaitedTyped'
  BY DEF Awaited, AwaitedTyped
<1>2. ASSUME patient  PROVE AwaitedService'
  BY <1>0, <1>2 DEF Awaited, AwaitedTyped, AwaitedService, AwaitedFor, AndroidP!Waiting
<1>3. ASSUME patient, NEW r \in AndroidP!Start  PROVE AwaitedFor(r)' /\ Called(r)
  BY <1>0, <1>3 DEF Awaited, AwaitedTyped, AwaitedFor, AwaitedService, Called
<1> QED BY <1>1, <1>2, <1>3 DEF Awaited, AndroidQuiet

LEMMA AwaitedStep ==
  ASSUME None \notin Nat, Awaited, [AndroidP!Next]_(AndroidP!vars)
  PROVE  Awaited' /\ AndroidQuiet
<1>1. CASE \/ \E c \in Central : \/ AndroidP!OnDescriptorWrite(c) \/ AndroidP!OnConnectionStateChange(c)
                                \/ AndroidP!OnMtuChanged(c) \/ AndroidP!OnWriteRequest(c)
                                \/ AndroidP!Disconnect(c)
           \/ AndroidP!CloseClears \/ UNCHANGED AndroidP!vars
  <2>1. UNCHANGED <<promise, onAir, pendingStart, halfway, patient>>
    BY <1>1 DEF AndroidP!CloseClears, AndroidP!OnDescriptorWrite, AndroidP!OnConnectionStateChange,
                AndroidP!OnMtuChanged,
                AndroidP!OnWriteRequest, AndroidP!Disconnect, AndroidP!Track, AndroidP!advertising,
                AndroidP!vars
  <2> QED BY <2>1 DEF Awaited, AwaitedTyped, AwaitedFor, AwaitedService, AndroidQuiet, Called
<1> QED BY <1>1, AwaitedStart, AwaitedServiceTimeout, AwaitedStopAdvertising, AwaitedClose,
           AwaitedOnServiceAdded, AwaitedOnStartSuccess, AwaitedOnStartFailure, AwaitedStartWaits
        DEF AndroidP!Next

LEMMA AndroidPhases ==
  ASSUME Awaited, AndroidQuiet
  PROVE  [AndroidP!Contract!Next]_(AndroidP!Phase)
BY DEF Awaited, AwaitedTyped, AndroidQuiet, Called, AndroidP!Phase, AndroidP!Waiting,
       AndroidP!Contract!Next, AndroidP!Contract!Ask, AndroidP!Contract!Settle,
       AndroidP!Contract!Stop, AndroidP!Contract!StopUnheard, AndroidP!Contract!Lapse,
       AndroidP!Contract!Resume, AndroidP!Contract!Move

LEMMA AwaitedInit == AndroidP!Init => Awaited /\ AndroidP!Contract!Init
<1> SUFFICES ASSUME AndroidP!Init  PROVE Awaited /\ AndroidP!Contract!Init
  OBVIOUS
<1>1. Awaited
  BY PatienceAssumption DEF AndroidP!Init, Awaited, AwaitedTyped, AwaitedService, AwaitedFor
<1>2. AndroidP!Waiting = {}
  BY DEF AndroidP!Init, AndroidP!Waiting
<1> QED BY <1>1, <1>2 DEF AndroidP!Init, AndroidP!Contract!Init, AndroidP!Phase

\* The same on Android, for the patient and without the exception: once a settled
\* start was stopped nothing but the next start leads back on the air, however
\* late the service is registered (CourierGattServer.kt:206, 249).
THEOREM AndroidAdvertises == AndroidP!Spec => AndroidP!Contract!Safety
<1>1. AndroidP!Init => Awaited /\ AndroidP!Contract!Init
  BY AwaitedInit
<1>2. Awaited /\ [AndroidP!Next]_(AndroidP!vars) => Awaited' /\ [AndroidP!Contract!Next]_(AndroidP!Phase)
  BY AwaitedStep, AndroidPhases, NoneAssumption
<1> QED BY <1>1, <1>2, PTL DEF AndroidP!Spec, AndroidP!Contract!Safety

----------------------------------------------------------------------------
(* The same for connect() on Android.                                       *)

\* A patient plugin's records: no task of the main thread is ever halfway.
ConnectingTyped ==
  /\ js \in [Peer -> {"idle", "asking", "linked"}]
  /\ connections \in [Peer -> AndroidC!Inst \cup {None}]
  /\ client \in [AndroidC!Inst -> AndroidC!Client]
  /\ made \in Nat
  /\ tasks \subseteq {"open", "retry"} \X AndroidC!Inst
  /\ looked = {}
  /\ stage \in [AndroidC!Gatt -> AndroidC!Stage]

\* A peer the hub asked for or holds is registered, and what it is registered
\* with is waiting, or ready and up.
PeerHolds(p) ==
  IF connections[p] = None THEN js[p] = "idle"
  ELSE /\ connections[p] <= made
       /\ client[connections[p]].peer = p
       /\ js[p] = IF client[connections[p]].ready THEN "linked" ELSE "asking"

\* Whoever waits, is ready, has an interface or is about to be dialled is the one
\* that is registered; a retry has none of that.
Registered(i) == client[i].peer \in Peer /\ connections[client[i].peer] = i

ClientHolds(i) ==
  /\ IF Registered(i) THEN client[i].ready <=> ~client[i].pending
     ELSE ~client[i].ready /\ ~client[i].pending /\ client[i].gatt = None /\ <<"open", i>> \notin tasks
  /\ client[i].gatt # None => client[i].gatt = <<i, client[i].attempts>>
  /\ client[i].ready => client[i].gatt # None /\ stage[client[i].gatt] = "up"
  /\ <<"open", i>> \in tasks => client[i].gatt = None /\ client[i].attempts = 0
  /\ <<"retry", i>> \in tasks => /\ client[i].gatt = None /\ client[i].attempts < MaxAttempts
                                 /\ client[i].peer \in Peer /\ <<"open", i>> \notin tasks
  /\ made < i => /\ client[i] = AndroidC!NewClient(None)
                 /\ <<"retry", i>> \notin tasks

\* What the stack has open is the interface of its peer.
GattHolds(g) == stage[g] \notin {"unused", "closed"} => client[g[1]].gatt = g

Connecting ==
  /\ ConnectingTyped
  /\ \A p \in Peer : PeerHolds(p)
  /\ \A i \in AndroidC!Inst : ClientHolds(i)
  /\ \A g \in AndroidC!Gatt : GattHolds(g)

----------------------------------------------------------------------------
(* How a step that is about one connection leaves the others alone.         *)

AndroidMoves == [AndroidC!Contract!Next]_(AndroidC!Connections)

\* What the contract sees of a peer that keeps the invariant.
Name(x) == IF x = "idle" THEN "none" ELSE IF x = "asking" THEN "asked" ELSE "up"

AllNamed == \A p \in Peer : AndroidC!Seen(p) = Name(js[p])

LEMMA SeenIsNamed == patient /\ Connecting => AllNamed
<1> SUFFICES ASSUME patient, Connecting, NEW p \in Peer
             PROVE  AndroidC!Seen(p) = Name(js[p])
  BY DEF AllNamed
<1>1. PeerHolds(p) /\ js[p] \in {"idle", "asking", "linked"}
  BY DEF Connecting, ConnectingTyped
<1>2. CASE connections[p] = None
  BY <1>1, <1>2 DEF PeerHolds, AndroidC!Seen, Name
<1>3. CASE connections[p] # None
  <2>1. ClientHolds(connections[p])
    BY <1>3 DEF Connecting, ConnectingTyped
  <2> QED BY <1>1, <1>3, <2>1 DEF PeerHolds, ClientHolds, AndroidC!Seen, AndroidC!Live, Name
<1> QED BY <1>2, <1>3

\* One peer's connection may move but never back from held to asked for.
LEMMA AndroidOneMoves ==
  ASSUME NEW p \in Peer, patient, patient' = patient, Connecting, Connecting',
         \A q \in Peer \ {p} : js'[q] = js[q],
         ~(js[p] = "linked" /\ js'[p] = "asking")
  PROVE  AndroidMoves
<1>0. (patient /\ Connecting => AllNamed)'
  BY SeenIsNamed, PTL
<1>1. \A q \in Peer : AndroidC!Seen(q) = Name(js[q]) /\ AndroidC!Seen(q)' = Name(js'[q])
  BY <1>0, SeenIsNamed DEF AllNamed
<1>2. AndroidC!Connections' = [AndroidC!Connections EXCEPT ![p] = Name(js'[p])]
  BY <1>1 DEF AndroidC!Connections
<1>3. AndroidC!Connections[p] = Name(js[p])
  BY <1>1 DEF AndroidC!Connections
<1>4. Allowed(Name(js[p]), Name(js'[p]))
  BY DEF Allowed, Name, Connecting, ConnectingTyped
<1>5. CASE Name(js'[p]) = Name(js[p])
  <2>1. \A q \in Peer : AndroidC!Seen(q)' = AndroidC!Seen(q)
    BY <1>1, <1>5
  <2>2. UNCHANGED AndroidC!Connections
    BY <2>1 DEF AndroidC!Connections
  <2> QED BY <2>2 DEF AndroidMoves
<1>6. CASE Name(js'[p]) # Name(js[p])
  <2>1. AndroidC!Contract!Move(p, {Name(js[p])}, Name(js'[p]))
    BY <1>2, <1>3 DEF AndroidC!Contract!Move
  <2>2. AndroidC!Contract!Next
    BY <1>4, <1>6, <2>1
       DEF Allowed, AndroidC!Contract!Next, AndroidC!Contract!Ask, AndroidC!Contract!Settle,
           AndroidC!Contract!Join, AndroidC!Contract!End, AndroidC!Contract!Move
  <2> QED BY <2>2 DEF AndroidMoves
<1> QED BY <1>5, <1>6

\* A step about the connection i of a peer p.
AndroidOnly(i, p) ==
  /\ patient' = patient
  /\ \A q \in Peer \ {p} : js'[q] = js[q] /\ connections'[q] = connections[q]
  /\ \A j \in AndroidC!Inst \ {i} :
       /\ client'[j] = client[j]
       /\ <<"open", j>> \in tasks' <=> <<"open", j>> \in tasks
       /\ <<"retry", j>> \in tasks' <=> <<"retry", j>> \in tasks
  /\ \A g \in AndroidC!Gatt : g[1] # i => stage'[g] = stage[g]
  /\ made' = made \/ (made' = made + 1 /\ i = made')

LEMMA GattIsAPair ==
  /\ \A g \in AndroidC!Gatt : g[1] \in AndroidC!Inst /\ g[2] \in 1..MaxAttempts /\ g = <<g[1], g[2]>>
  /\ \A i \in AndroidC!Inst, n \in 1..MaxAttempts : <<i, n>> \in AndroidC!Gatt /\ <<i, n>>[1] = i
  /\ None \notin AndroidC!Gatt /\ None \notin AndroidC!Inst /\ None \notin Peer
BY NoneAssumption, AttemptsAssumption DEF AndroidC!Gatt, AndroidC!Inst

LEMMA OneConnection ==
  ASSUME NEW p \in Peer, NEW i \in AndroidC!Inst, patient, Connecting, AndroidOnly(i, p),
         ConnectingTyped', connections[p] \in {i, None}, connections'[p] \in {i, None},
         \A q \in Peer \ {p} : connections[q] # i,
         PeerHolds(p)', ClientHolds(i)', \A g \in AndroidC!Gatt : g[1] = i => GattHolds(g)',
         ~(js[p] = "linked" /\ js'[p] = "asking")
  PROVE  Connecting' /\ AndroidMoves
<1>1. ASSUME NEW q \in Peer \ {p}  PROVE PeerHolds(q)'
  <2>1. PeerHolds(q)
    BY DEF Connecting
  <2>2. connections[q] \in AndroidC!Inst \cup {None} /\ connections[q] # i
    BY DEF Connecting, ConnectingTyped
  <2>3. connections'[q] = connections[q] /\ js'[q] = js[q]
    BY DEF AndroidOnly
  <2>4. CASE connections[q] = None
    BY <2>1, <2>3, <2>4 DEF PeerHolds
  <2>5. CASE connections[q] # None
    <3>1. client'[connections[q]] = client[connections[q]]
      BY <2>2, <2>5 DEF AndroidOnly
    <3>2. connections[q] <= made'
      BY <2>1, <2>2, <2>5 DEF PeerHolds, AndroidOnly, AndroidC!Inst, Connecting, ConnectingTyped
    <3> QED BY <2>1, <2>3, <2>5, <3>1, <3>2 DEF PeerHolds
  <2> QED BY <2>4, <2>5
<1>2. ASSUME NEW j \in AndroidC!Inst \ {i}  PROVE ClientHolds(j)'
  <2>1. ClientHolds(j) /\ client'[j] = client[j]
    BY DEF Connecting, AndroidOnly
  <2>2. Registered(j)' <=> Registered(j)
    BY <2>1, GattIsAPair DEF Registered, AndroidOnly
  <2>3. client[j].gatt # None => stage'[client[j].gatt] = stage[client[j].gatt]
    BY <2>1, GattIsAPair DEF ClientHolds, AndroidOnly, Connecting, ConnectingTyped, AndroidC!Client
  <2>4. made' < j => made < j
    BY DEF AndroidOnly, Connecting, ConnectingTyped, AndroidC!Inst
  <2> QED BY <2>1, <2>2, <2>3, <2>4 DEF ClientHolds, AndroidOnly
<1>3. ASSUME NEW g \in AndroidC!Gatt, g[1] # i  PROVE GattHolds(g)'
  BY <1>3, GattIsAPair DEF Connecting, GattHolds, AndroidOnly
<1>4. Connecting'
  BY <1>1, <1>2, <1>3 DEF Connecting
<1> QED BY <1>4, AndroidOneMoves DEF AndroidOnly

LEMMA RegisteredOnce ==
  ASSUME Connecting, NEW i \in AndroidC!Inst, Registered(i)
  PROVE  /\ client[i].peer \in Peer /\ connections[client[i].peer] = i
         /\ \A q \in Peer \ {client[i].peer} : connections[q] # i
         /\ i <= made
         /\ client[i].ready <=> ~client[i].pending
         /\ js[client[i].peer] = IF client[i].ready THEN "linked" ELSE "asking"
<1>1. client[i].peer \in Peer /\ connections[client[i].peer] = i /\ i # None
  BY GattIsAPair DEF Registered
<1>2. PeerHolds(client[i].peer) /\ ClientHolds(i)
  BY <1>1 DEF Connecting
<1>3. ASSUME NEW q \in Peer \ {client[i].peer}  PROVE connections[q] # i
  <2>1. PeerHolds(q)
    BY DEF Connecting
  <2> QED BY <1>1, <2>1 DEF PeerHolds
<1> QED BY <1>1, <1>2, <1>3 DEF PeerHolds, ClientHolds

\* An interface the stack has open is that of a registered connection.
LEMMA OpenIsOwned ==
  ASSUME Connecting, NEW g \in AndroidC!Gatt, stage[g] \notin {"unused", "closed"}
  PROVE  /\ g[1] \in AndroidC!Inst /\ Registered(g[1]) /\ AndroidC!PeerOf(g) = g[1]
         /\ client[g[1]].gatt = g /\ (client[g[1]].ready => stage[g] = "up")
         /\ <<"open", g[1]>> \notin tasks /\ <<"retry", g[1]>> \notin tasks
<1>1. g[1] \in AndroidC!Inst /\ client[g[1]].gatt = g /\ g # None
  BY GattIsAPair DEF Connecting, GattHolds
<1>2. ClientHolds(g[1])
  BY <1>1 DEF Connecting
<1> QED BY <1>1, <1>2 DEF ClientHolds, Registered, AndroidC!PeerOf

----------------------------------------------------------------------------
(* What the handlers do to a connection.                                    *)

\* The tasks of the others stay, and i has none to dial first.
TasksOf(i) ==
  /\ tasks' \subseteq tasks /\ <<"open", i>> \notin tasks'
  /\ \A j \in AndroidC!Inst \ {i} :
       /\ <<"open", j>> \in tasks' <=> <<"open", j>> \in tasks
       /\ <<"retry", j>> \in tasks' <=> <<"retry", j>> \in tasks

\* The record of i changes in nothing the invariant is about.
RecordOf(i) ==
  /\ client' \in [AndroidC!Inst -> AndroidC!Client]
  /\ \A j \in AndroidC!Inst \ {i} : client'[j] = client[j]
  /\ client'[i].peer = client[i].peer /\ client'[i].attempts = client[i].attempts

\* A connection is closed and forgotten, and the hub no longer holds it.
LEMMA Dropped ==
  ASSUME patient, patient' = patient, Connecting, NEW i \in AndroidC!Inst, Registered(i),
         made' = made, looked' = looked, js' = [js EXCEPT ![client[i].peer] = "idle"],
         AndroidC!Forget(i), stage' = AndroidC!Closed(i), RecordOf(i), TasksOf(i),
         client'[i].gatt = None, ~client'[i].ready, ~client'[i].pending
  PROVE  Connecting' /\ AndroidMoves
<1> SUFFICES ASSUME NEW p \in Peer, p = client[i].peer  PROVE Connecting' /\ AndroidMoves
  BY RegisteredOnce
<1>1. /\ connections[p] = i /\ i <= made
      /\ \A q \in Peer \ {p} : connections[q] # i
  BY RegisteredOnce
<1>2. ClientHolds(i) /\ ConnectingTyped /\ (\A g \in AndroidC!Gatt : GattHolds(g))
  BY DEF Connecting
<1>3. connections'[p] = None /\ \A q \in Peer \ {p} : connections'[q] = connections[q]
  BY <1>1, <1>2 DEF AndroidC!Forget, ConnectingTyped
<1>4. js'[p] = "idle" /\ \A q \in Peer \ {p} : js'[q] = js[q]
  BY <1>1, <1>2 DEF ConnectingTyped
<1>5. \A g \in AndroidC!Gatt : stage'[g] = IF g = client[i].gatt THEN "closed" ELSE stage[g]
  BY <1>2, GattIsAPair DEF AndroidC!Closed, ConnectingTyped
<1>6. ConnectingTyped'
  <2>1. stage' \in [AndroidC!Gatt -> AndroidC!Stage]
    BY <1>2 DEF AndroidC!Closed, AndroidC!Stage, ConnectingTyped
  <2>2. connections' \in [Peer -> AndroidC!Inst \cup {None}]
    BY <1>2 DEF AndroidC!Forget, ConnectingTyped
  <2>3. js' \in [Peer -> {"idle", "asking", "linked"}]
    BY <1>2 DEF ConnectingTyped
  <2> QED BY <1>2, <2>1, <2>2, <2>3 DEF ConnectingTyped, RecordOf, TasksOf
<1>7. AndroidOnly(i, p)
  BY <1>3, <1>4, <1>2, <1>5, GattIsAPair DEF AndroidOnly, RecordOf, TasksOf, ClientHolds
<1>8. PeerHolds(p)'
  BY <1>1, <1>3, <1>4 DEF PeerHolds, RecordOf
<1>9. ClientHolds(i)'
  BY <1>1, <1>2, <1>3, GattIsAPair DEF ClientHolds, Registered, RecordOf, TasksOf, AndroidC!Inst,
                                       ConnectingTyped
<1>10. ASSUME NEW g \in AndroidC!Gatt, g[1] = i  PROVE GattHolds(g)'
  BY <1>2, <1>5, <1>10 DEF GattHolds
<1> QED BY <1>1, <1>3, <1>4, <1>6, <1>7, <1>8, <1>9, <1>10, OneConnection

\* finish() with an error, of a connection that is not ready.
LEMMA Failed ==
  ASSUME patient, patient' = patient, Connecting, NEW i \in AndroidC!Inst, Registered(i),
         ~client[i].ready, AndroidC!Fail(i), made' = made, looked' = looked, TasksOf(i)
  PROVE  Connecting' /\ AndroidMoves
<1>1. client[i].pending /\ client[i] \in AndroidC!Client /\ client \in [AndroidC!Inst -> AndroidC!Client]
  BY RegisteredOnce DEF Connecting, ConnectingTyped, AndroidC!Client
<1>2. js' = [js EXCEPT ![client[i].peer] = "idle"] /\ AndroidC!Forget(i) /\ stage' = AndroidC!Closed(i)
  BY <1>1 DEF AndroidC!Fail, AndroidC!Reject
<1>3. RecordOf(i) /\ client'[i].gatt = None /\ ~client'[i].ready /\ ~client'[i].pending
  BY <1>1 DEF AndroidC!Fail, AndroidC!CloseGatt, AndroidC!Client, RecordOf
<1> QED BY <1>2, <1>3, Dropped

\* The stack goes on with a connection that is not ready.
LEMMA Advanced ==
  ASSUME patient, patient' = patient, Connecting, NEW g \in AndroidC!Gatt,
         stage[g] \notin {"unused", "closed"}, ~client[g[1]].ready,
         NEW s \in AndroidC!Stage \ {"unused", "closed"}, AndroidC!Await(g, s), RecordOf(g[1]),
         client'[g[1]].gatt = client[g[1]].gatt, client'[g[1]].ready = client[g[1]].ready,
         client'[g[1]].pending = client[g[1]].pending,
         UNCHANGED <<js, connections, tasks, made, looked>>
  PROVE  Connecting' /\ AndroidMoves
<1>0. g[1] \in AndroidC!Inst /\ Registered(g[1]) /\ client[g[1]].peer \in Peer
  BY OpenIsOwned DEF Registered
<1> SUFFICES ASSUME NEW i \in AndroidC!Inst, i = g[1], NEW p \in Peer, p = client[i].peer
             PROVE  Connecting' /\ AndroidMoves
  BY <1>0
<1>1. Registered(i) /\ client[i].gatt = g
  BY OpenIsOwned
<1>2. /\ connections[p] = i /\ i <= made
      /\ \A q \in Peer \ {p} : connections[q] # i
  BY <1>1, RegisteredOnce
<1>3. ClientHolds(i) /\ PeerHolds(p) /\ ConnectingTyped /\ (\A h \in AndroidC!Gatt : GattHolds(h))
  BY <1>1, <1>2 DEF Connecting
<1>4. \A h \in AndroidC!Gatt : stage'[h] = IF h = g THEN s ELSE stage[h]
  BY <1>3 DEF AndroidC!Await, ConnectingTyped
<1>5. ConnectingTyped'
  BY <1>3 DEF ConnectingTyped, RecordOf, AndroidC!Await
<1>6. AndroidOnly(i, p)
  BY <1>4 DEF AndroidOnly, RecordOf
<1>7. PeerHolds(p)' /\ ClientHolds(i)'
  BY <1>1, <1>2, <1>3 DEF PeerHolds, ClientHolds, Registered, RecordOf, ConnectingTyped,
                          AndroidC!Inst
<1>8. ASSUME NEW h \in AndroidC!Gatt, h[1] = i  PROVE GattHolds(h)'
  BY <1>1, <1>3, <1>4, <1>8 DEF GattHolds
<1>9. ~(js[p] = "linked" /\ js'[p] = "asking")
  OBVIOUS
<1> QED BY <1>1, <1>2, <1>5, <1>6, <1>7, <1>8, <1>9, OneConnection

\* The next attempt of a connection that has no interface is dialled, or refused.
LEMMA Redialled ==
  ASSUME patient, patient' = patient, Connecting, NEW i \in AndroidC!Inst, Registered(i),
         client[i].gatt = None, client[i].attempts < MaxAttempts, NEW kind \in {"open", "retry"},
         AndroidC!Dial(i, tasks \ {<<kind, i>>}), <<kind, i>> \in tasks,
         made' = made, looked' = looked
  PROVE  Connecting' /\ AndroidMoves
<1> SUFFICES ASSUME NEW p \in Peer, p = client[i].peer  PROVE Connecting' /\ AndroidMoves
  BY RegisteredOnce
<1>1. /\ connections[p] = i /\ i <= made /\ (client[i].ready <=> ~client[i].pending)
      /\ \A q \in Peer \ {p} : connections[q] # i
  BY RegisteredOnce
<1>2. ClientHolds(i) /\ PeerHolds(p) /\ ConnectingTyped /\ (\A g \in AndroidC!Gatt : GattHolds(g))
  BY DEF Connecting
<1>3. /\ ~client[i].ready /\ client[i] \in AndroidC!Client /\ client[i].pending
      /\ client[i].attempts + 1 \in 1..MaxAttempts
  <2>1. ~client[i].ready /\ client[i] \in AndroidC!Client
    BY <1>2 DEF ClientHolds, ConnectingTyped
  <2>2. client[i].pending /\ client[i].attempts \in 0..MaxAttempts
    BY <1>1, <2>1 DEF AndroidC!Client
  <2> QED BY <2>1, <2>2, AttemptsAssumption
<1>4. <<"open", i>> \notin tasks \ {<<kind, i>>} /\ <<"retry", i>> \notin tasks \ {<<kind, i>>}
  BY <1>2 DEF ClientHolds
<1>5. CASE AndroidC!Fail(i) /\ tasks' = tasks \ {<<kind, i>>}
  <2>1. TasksOf(i)
    BY <1>4, <1>5 DEF TasksOf
  <2> QED BY <1>3, <1>5, <2>1, Failed
<1>6. CASE ~(AndroidC!Fail(i) /\ tasks' = tasks \ {<<kind, i>>})
  <2>0. <<i, client[i].attempts + 1>> \in AndroidC!Gatt
    BY <1>3, GattIsAPair
  <2> SUFFICES ASSUME NEW n \in 1..MaxAttempts, n = client[i].attempts + 1,
                      NEW g \in AndroidC!Gatt, g = <<i, n>>
               PROVE  Connecting' /\ AndroidMoves
    BY <1>3, <2>0
  <2>1. /\ stage' = [stage EXCEPT ![g] = "dialling"]
        /\ client' = [client EXCEPT ![i] = [client[i] EXCEPT !.attempts = n,
                                              !.discoveryStarted = FALSE, !.gatt = g]]
        /\ tasks' = tasks \ {<<kind, i>>} /\ js' = js /\ connections' = connections
    BY <1>2, <1>3, <1>6 DEF AndroidC!Dial, AndroidC!Await, ConnectingTyped, AndroidC!Client
  <2>2. /\ client'[i].gatt = g /\ client'[i].attempts = n /\ client'[i].peer = p
        /\ ~client'[i].ready /\ client'[i].pending
        /\ client'[i] \in AndroidC!Client
    <3>1. client'[i] = [client[i] EXCEPT !.attempts = n, !.discoveryStarted = FALSE, !.gatt = g]
      BY <1>2, <2>1 DEF ConnectingTyped
    <3>2. n \in 0..MaxAttempts /\ g \in AndroidC!Gatt \cup {None}
      BY AttemptsAssumption
    <3>3. client'[i] \in AndroidC!Client
      BY <1>3, <3>1, <3>2 DEF AndroidC!Client
    <3> QED BY <1>3, <3>1, <3>3 DEF AndroidC!Client
  <2>3. \A j \in AndroidC!Inst \ {i} : client'[j] = client[j]
    BY <1>2, <2>1 DEF ConnectingTyped
  <2>4. \A h \in AndroidC!Gatt : stage'[h] = IF h = g THEN "dialling" ELSE stage[h]
    BY <1>2, <2>1 DEF ConnectingTyped
  <2>5. ConnectingTyped'
    <3>1. client' \in [AndroidC!Inst -> AndroidC!Client]
      BY <1>2, <2>1, <2>2 DEF ConnectingTyped
    <3>2. stage' \in [AndroidC!Gatt -> AndroidC!Stage]
      BY <1>2, <2>1 DEF ConnectingTyped, AndroidC!Stage
    <3> QED BY <1>2, <2>1, <3>1, <3>2 DEF ConnectingTyped
  <2>6. AndroidOnly(i, p)
    BY <2>1, <2>3, <2>4 DEF AndroidOnly
  <2>7. PeerHolds(p)'
    BY <1>1, <1>2, <2>1, <2>2 DEF PeerHolds
  <2>8. ClientHolds(i)'
    <3>1. ~(made' < i)
      BY <1>1, <1>2 DEF ConnectingTyped, AndroidC!Inst
    <3>2. Registered(i)'
      BY <1>1, <2>1, <2>2 DEF Registered
    <3> QED BY <1>4, <2>1, <2>2, <3>1, <3>2 DEF ClientHolds
  <2>9. ASSUME NEW h \in AndroidC!Gatt, h[1] = i  PROVE GattHolds(h)'
    BY <1>2, <2>2, <2>4, <2>9, GattIsAPair DEF GattHolds
  <2> QED BY <1>1, <2>1, <2>5, <2>6, <2>7, <2>8, <2>9, OneConnection
<1> QED BY <1>5, <1>6

\* A task that is dropped, a timer that finds nothing to do: no connection moves.
LEMMA Idled ==
  ASSUME patient, patient' = patient, Connecting,
         client' \in [AndroidC!Inst -> AndroidC!Client],
         \A i \in AndroidC!Inst :
           /\ client'[i].peer = client[i].peer /\ client'[i].gatt = client[i].gatt
           /\ client'[i].ready = client[i].ready /\ client'[i].pending = client[i].pending
           /\ client'[i].attempts = client[i].attempts
           /\ made < i => client'[i] = client[i],
         tasks' \subseteq tasks, UNCHANGED <<js, connections, made, looked, stage>>
  PROVE  Connecting' /\ AndroidMoves
<1>1. ConnectingTyped'
  BY DEF Connecting, ConnectingTyped
<1>2. ASSUME NEW p \in Peer  PROVE PeerHolds(p)'
  BY DEF Connecting, ConnectingTyped, PeerHolds
<1>3. ASSUME NEW i \in AndroidC!Inst  PROVE ClientHolds(i)'
  <2>1. ClientHolds(i)
    BY DEF Connecting
  <2>2. Registered(i)' <=> Registered(i)
    BY DEF Registered
  <2> QED BY <2>1, <2>2 DEF ClientHolds
<1>4. ASSUME NEW g \in AndroidC!Gatt  PROVE GattHolds(g)'
  BY GattIsAPair DEF Connecting, GattHolds
<1>5. Connecting'
  BY <1>1, <1>2, <1>3, <1>4 DEF Connecting
<1>6. CASE Peer = {}
  <2>1. UNCHANGED AndroidC!Connections
    BY <1>6 DEF AndroidC!Connections
  <2> QED BY <1>5, <2>1 DEF AndroidMoves
<1>7. ASSUME NEW p \in Peer  PROVE AndroidMoves
  BY <1>5, AndroidOneMoves
<1> QED BY <1>5, <1>6, <1>7

----------------------------------------------------------------------------
(* The handlers one by one, for a patient plugin.                           *)

LEMMA AndroidConnect ==
  ASSUME patient, Connecting, NEW p \in Peer, AndroidC!Connect(p)
  PROVE  Connecting' /\ AndroidMoves
<1>1. PeerHolds(p) /\ ConnectingTyped
  BY DEF Connecting
<1>2. js[p] = "idle" /\ connections[p] = None
  BY <1>1 DEF PeerHolds, AndroidC!Connect
<1> SUFFICES ASSUME NEW i \in AndroidC!Inst, i = made + 1  PROVE Connecting' /\ AndroidMoves
  <2>1. made + 1 \in AndroidC!Inst
    BY <1>1, <1>2, ConnectsAssumption DEF AndroidC!Connect, ConnectingTyped, AndroidC!Inst
  <2> QED BY <2>1
<1>3. /\ patient' = patient /\ made' = i /\ looked' = looked /\ stage' = stage
      /\ client' = [client EXCEPT ![i] = AndroidC!NewClient(p)]
      /\ connections' = [connections EXCEPT ![p] = i]
      /\ tasks' = tasks \cup {<<"open", i>>}
      /\ js' = [js EXCEPT ![p] = "asking"]
  BY <1>2 DEF AndroidC!Connect
<1>4. /\ AndroidC!NewClient(p) \in AndroidC!Client
      /\ AndroidC!NewClient(p).peer = p /\ AndroidC!NewClient(p).gatt = None
      /\ ~AndroidC!NewClient(p).ready /\ AndroidC!NewClient(p).pending
      /\ AndroidC!NewClient(p).attempts = 0
  <2>1. p # None /\ 0 \in 0..MaxAttempts
    BY GattIsAPair, AttemptsAssumption
  <2>2. AndroidC!NewClient(p) =
          [peer |-> p, gatt |-> None, ready |-> FALSE, discoveryStarted |-> FALSE,
           attempts |-> 0, pending |-> TRUE, timeout |-> TRUE]
    BY <2>1 DEF AndroidC!NewClient
  <2>3. AndroidC!NewClient(p) \in AndroidC!Client
    BY <2>1, <2>2 DEF AndroidC!Client
  <2> QED BY <2>2, <2>3
<1>5. ClientHolds(i) /\ made < i
  BY <1>1 DEF Connecting, ConnectingTyped
<1>6. <<"retry", i>> \notin tasks /\ <<"open", i>> \notin tasks /\ client[i].gatt = None
  BY <1>5, GattIsAPair DEF ClientHolds, Registered, AndroidC!NewClient
<1>7. /\ client'[i] = AndroidC!NewClient(p) /\ \A j \in AndroidC!Inst \ {i} : client'[j] = client[j]
      /\ connections'[p] = i /\ \A q \in Peer \ {p} : connections'[q] = connections[q]
      /\ js'[p] = "asking" /\ \A q \in Peer \ {p} : js'[q] = js[q]
  BY <1>1, <1>3 DEF ConnectingTyped
<1>8. ConnectingTyped'
  BY <1>1, <1>3, <1>4 DEF ConnectingTyped
<1>9. AndroidOnly(i, p)
  BY <1>3, <1>7 DEF AndroidOnly
<1>10. PeerHolds(p)'
  BY <1>3, <1>4, <1>7, GattIsAPair DEF PeerHolds, AndroidC!Inst
<1>11. ClientHolds(i)'
  <2>1. Registered(i)'
    BY <1>4, <1>7 DEF Registered
  <2>2. ~(made' < i)
    BY <1>3 DEF AndroidC!Inst
  <2> QED BY <2>1, <2>2, <1>3, <1>4, <1>6, <1>7 DEF ClientHolds
<1>12. ASSUME NEW g \in AndroidC!Gatt, g[1] = i  PROVE GattHolds(g)'
  <2>1. GattHolds(g) /\ g # None
    BY GattIsAPair DEF Connecting
  <2> QED BY <1>3, <1>6, <1>12, <2>1 DEF GattHolds
<1>13. \A q \in Peer \ {p} : connections[q] # i
  <2> SUFFICES ASSUME NEW q \in Peer \ {p}, connections[q] = i  PROVE FALSE
    OBVIOUS
  <2>1. PeerHolds(q)
    BY DEF Connecting
  <2> QED BY <2>1, <1>5, GattIsAPair DEF PeerHolds, AndroidC!Inst, Connecting, ConnectingTyped
<1> QED BY <1>2, <1>7, <1>8, <1>9, <1>10, <1>11, <1>12, <1>13, OneConnection

LEMMA AndroidDisconnect ==
  ASSUME patient, Connecting, NEW p \in Peer, AndroidC!Disconnect(p)
  PROVE  Connecting' /\ AndroidMoves
<1>1. PeerHolds(p) /\ ConnectingTyped
  BY DEF Connecting
<1>2. js[p] = "linked" /\ connections[p] # None
  BY <1>1 DEF PeerHolds, AndroidC!Disconnect
<1> SUFFICES ASSUME NEW i \in AndroidC!Inst, i = connections[p]  PROVE Connecting' /\ AndroidMoves
  BY <1>1, <1>2 DEF ConnectingTyped
<1>3. Registered(i) /\ client[i].peer = p /\ ClientHolds(i)
  BY <1>1, <1>2 DEF PeerHolds, Registered, Connecting
<1>4. /\ patient' = patient /\ made' = made /\ looked' = looked /\ tasks' = tasks
      /\ js' = [js EXCEPT ![p] = "idle"]
      /\ connections' = [connections EXCEPT ![p] = None]
      /\ client' = [client EXCEPT ![i] =
                      [AndroidC!CloseGatt(i, client[i]) EXCEPT !.pending = FALSE, !.timeout = FALSE]]
      /\ stage' = AndroidC!Closed(i)
  BY <1>1, <1>2 DEF AndroidC!Disconnect, ConnectingTyped
<1>5. AndroidC!Forget(i)
  <2>1. \A q \in Peer \ {p} : connections[q] # i
    BY <1>3, RegisteredOnce
  <2>2. \A q \in Peer : connections'[q] = IF connections[q] = i THEN None ELSE connections[q]
    BY <1>1, <1>4, <2>1 DEF ConnectingTyped
  <2>3. connections' \in [Peer -> AndroidC!Inst \cup {None}]
    BY <1>1, <1>4 DEF ConnectingTyped
  <2> QED BY <2>2, <2>3 DEF AndroidC!Forget
<1>6. client[i].ready /\ client[i].gatt # None /\ client[i] \in AndroidC!Client
  BY <1>1, <1>2, <1>3 DEF PeerHolds, ClientHolds, ConnectingTyped
<1>7. RecordOf(i) /\ client'[i].gatt = None /\ ~client'[i].ready /\ ~client'[i].pending
  BY <1>1, <1>4, <1>6 DEF AndroidC!CloseGatt, AndroidC!Client, RecordOf, ConnectingTyped
<1>8. TasksOf(i)
  BY <1>3, <1>4, <1>6 DEF TasksOf, ClientHolds
<1> QED BY <1>3, <1>4, <1>5, <1>7, <1>8, Dropped

LEMMA AndroidTimeout ==
  ASSUME patient, Connecting, NEW i \in AndroidC!Inst, AndroidC!Timeout(i)
  PROVE  Connecting' /\ AndroidMoves
<1>1. ClientHolds(i) /\ ConnectingTyped /\ client[i] \in AndroidC!Client
  BY DEF Connecting, ConnectingTyped
<1>2. /\ patient' = patient /\ made' = made /\ tasks' = tasks /\ looked' = looked
      /\ <<"open", i>> \notin tasks /\ client[i].timeout
  BY DEF AndroidC!Timeout
<1>3. ~(made < i)
  <2>1. ~AndroidC!NewClient(None).timeout
    BY DEF AndroidC!NewClient
  <2> QED BY <1>1, <1>2, <2>1 DEF ClientHolds
<1>4. CASE client[i].ready
  <2>1. client' = [client EXCEPT ![i].timeout = FALSE] /\ UNCHANGED <<js, connections, stage>>
    BY <1>4 DEF AndroidC!Timeout
  <2>2. client' \in [AndroidC!Inst -> AndroidC!Client]
    BY <1>1, <2>1 DEF ConnectingTyped, AndroidC!Client
  <2>3. \A j \in AndroidC!Inst :
          /\ client'[j].peer = client[j].peer /\ client'[j].gatt = client[j].gatt
          /\ client'[j].ready = client[j].ready /\ client'[j].pending = client[j].pending
          /\ client'[j].attempts = client[j].attempts /\ (j # i => client'[j] = client[j])
    BY <1>1, <2>1 DEF ConnectingTyped, AndroidC!Client
  <2> QED BY <1>2, <1>3, <2>1, <2>2, <2>3, Idled
<1>5. CASE ~client[i].ready
  <2>1. AndroidC!Fail(i)
    BY <1>5 DEF AndroidC!Timeout
  <2>2. CASE Registered(i)
    BY <1>2, <1>5, <2>1, <2>2, Failed DEF TasksOf
  <2>3. CASE ~Registered(i)
    <3>1. client[i].gatt = None /\ ~client[i].pending
      BY <1>1, <2>3 DEF ClientHolds
    <3>2. /\ client' = [client EXCEPT ![i] = [client[i] EXCEPT !.pending = FALSE, !.timeout = FALSE]]
          /\ stage' = stage /\ js' = js
      BY <2>1, <3>1 DEF AndroidC!Fail, AndroidC!Closed, AndroidC!CloseGatt, AndroidC!Reject
    <3>3. client' \in [AndroidC!Inst -> AndroidC!Client]
      BY <1>1, <3>2 DEF ConnectingTyped, AndroidC!Client
    <3>4. \A j \in AndroidC!Inst :
            /\ client'[j].peer = client[j].peer /\ client'[j].gatt = client[j].gatt
            /\ client'[j].ready = client[j].ready /\ client'[j].pending = client[j].pending
            /\ client'[j].attempts = client[j].attempts /\ (j # i => client'[j] = client[j])
      BY <1>1, <3>1, <3>2 DEF ConnectingTyped, AndroidC!Client
    <3>5. connections' = connections
      <4>1. \A p \in Peer : connections[p] # i
        <5> SUFFICES ASSUME NEW p \in Peer, connections[p] = i  PROVE FALSE
          OBVIOUS
        <5>1. PeerHolds(p)
          BY DEF Connecting
        <5> QED BY <2>3, <5>1, GattIsAPair DEF PeerHolds, Registered
      <4> QED BY <1>1, <2>1, <4>1 DEF AndroidC!Fail, AndroidC!Forget, ConnectingTyped
    <3> QED BY <1>2, <1>3, <3>2, <3>3, <3>4, <3>5, Idled
  <2> QED BY <2>2, <2>3
<1> QED BY <1>4, <1>5

LEMMA AndroidMainThread ==
  ASSUME patient, Connecting, NEW i \in AndroidC!Inst, AndroidC!MainThread(i)
  PROVE  Connecting' /\ AndroidMoves
<1>1. ClientHolds(i) /\ ConnectingTyped
  BY DEF Connecting
<1>2. CASE AndroidC!OpenGatt(i)
  <2>1. /\ <<"open", i>> \in tasks /\ AndroidC!Dial(i, tasks \ {<<"open", i>>})
        /\ patient' = patient /\ made' = made /\ looked' = looked
    BY <1>2 DEF AndroidC!OpenGatt
  <2>2. Registered(i) /\ client[i].gatt = None /\ client[i].attempts < MaxAttempts
    BY <1>1, <2>1, AttemptsAssumption DEF ClientHolds
  <2> QED BY <2>1, <2>2, Redialled
<1>3. CASE AndroidC!Retry(i)
  <2>1. /\ <<"retry", i>> \in tasks /\ patient' = patient /\ made' = made /\ looked' = looked
    BY <1>3 DEF AndroidC!Retry
  <2>2. /\ client[i].gatt = None /\ client[i].attempts < MaxAttempts /\ client[i].peer \in Peer
    BY <1>1, <2>1 DEF ClientHolds
  <2>3. CASE connections[client[i].peer] = i
    BY <1>3, <2>1, <2>2, <2>3, Redialled DEF AndroidC!Retry, Registered
  <2>4. CASE connections[client[i].peer] # i
    BY <1>1, <1>3, <2>1, <2>4, Idled DEF AndroidC!Retry, ConnectingTyped
  <2> QED BY <2>3, <2>4
<1>4. ~AndroidC!StoreGatt(i) /\ ~AndroidC!TimeoutFinishes(i)
  BY <1>1 DEF AndroidC!StoreGatt, AndroidC!TimeoutFinishes, ConnectingTyped
<1> QED BY <1>2, <1>3, <1>4, AndroidTimeout DEF AndroidC!MainThread

LEMMA AndroidCallback ==
  ASSUME patient, Connecting, NEW g \in AndroidC!Gatt, AndroidC!Callback(g)
  PROVE  Connecting' /\ AndroidMoves
<1>1. stage[g] \in {"dialling", "tuning", "discovering", "subscribing"}
  BY DEF AndroidC!Callback, AndroidC!OnConnected, AndroidC!OnMtuChanged,
         AndroidC!OnServicesDiscovered,
         AndroidC!OnDescriptorWrite
<1> SUFFICES ASSUME NEW i \in AndroidC!Inst, i = g[1]  PROVE Connecting' /\ AndroidMoves
  BY <1>1, OpenIsOwned
<1>2. /\ Registered(i) /\ AndroidC!PeerOf(g) = i /\ client[i].gatt = g /\ ~client[i].ready
      /\ <<"open", i>> \notin tasks /\ i # None
  BY <1>1, OpenIsOwned, GattIsAPair
<1>3. ConnectingTyped /\ client[i] \in AndroidC!Client /\ [client[i] EXCEPT !.gatt = g] = client[i]
  BY <1>2 DEF Connecting, ConnectingTyped, AndroidC!Client
<1>4. patient' = patient /\ made' = made /\ looked' = looked /\ tasks' = tasks
  BY DEF AndroidC!Callback, AndroidC!OnConnected, AndroidC!OnMtuChanged,
         AndroidC!OnServicesDiscovered,
         AndroidC!OnDescriptorWrite
<1>5. CASE AndroidC!Fail(i)
  <2>1. TasksOf(i)
    BY <1>2, <1>4 DEF TasksOf
  <2> QED BY <1>2, <1>4, <1>5, <2>1, Failed
<1>6. ASSUME NEW s \in {"tuning", "discovering", "subscribing", "idle"}, AndroidC!Await(g, s),
             NEW c \in {client[i], [client[i] EXCEPT !.discoveryStarted = TRUE]},
             client' = [client EXCEPT ![i] = c], UNCHANGED <<js, connections>>
      PROVE  Connecting' /\ AndroidMoves
  <2>1. /\ c \in AndroidC!Client /\ c.peer = client[i].peer /\ c.attempts = client[i].attempts
        /\ c.gatt = client[i].gatt /\ c.ready = client[i].ready /\ c.pending = client[i].pending
    BY <1>3 DEF AndroidC!Client
  <2>2. RecordOf(i) /\ client'[i] = c
    BY <1>3, <1>6, <2>1 DEF RecordOf, ConnectingTyped
  <2>3. s \in AndroidC!Stage \ {"unused", "closed"}
    BY DEF AndroidC!Stage
  <2> QED BY <1>1, <1>2, <1>4, <1>6, <2>1, <2>2, <2>3, Advanced
<1>7. CASE AndroidC!Discover(i, g, client[i])
  BY <1>5, <1>6, <1>7 DEF AndroidC!Discover
<1>8. CASE AndroidC!OnConnected(g) \/ AndroidC!OnMtuChanged(g)
  BY <1>2, <1>3, <1>6, <1>7, <1>8 DEF AndroidC!OnConnected, AndroidC!OnMtuChanged
<1>9. CASE AndroidC!OnServicesDiscovered(g)
  <2>1. CASE AndroidC!Await(g, "subscribing") /\ UNCHANGED <<js, connections, client>>
    <3>1. client' = [client EXCEPT ![i] = client[i]]
      BY <1>3, <2>1 DEF ConnectingTyped
    <3> QED BY <1>6, <2>1, <3>1
  <2> QED BY <1>2, <1>5, <1>9, <2>1 DEF AndroidC!OnServicesDiscovered
<1>10. CASE /\ AndroidC!Await(g, "up") /\ connections' = connections
            /\ client' = [client EXCEPT ![i] =
                            [@ EXCEPT !.ready = TRUE, !.pending = FALSE, !.timeout = FALSE]]
            /\ js' = IF client[i].pending THEN [js EXCEPT ![client[i].peer] = "linked"] ELSE js
  <2> SUFFICES ASSUME NEW p \in Peer, p = client[i].peer  PROVE Connecting' /\ AndroidMoves
    BY <1>2 DEF Registered
  <2>1. /\ connections[p] = i /\ i <= made /\ client[i].pending
        /\ \A q \in Peer \ {p} : connections[q] # i
    BY <1>2, RegisteredOnce
  <2>2. client' = [client EXCEPT ![i] =
                     [client[i] EXCEPT !.ready = TRUE, !.pending = FALSE, !.timeout = FALSE]]
    BY <1>3, <1>10 DEF ConnectingTyped
  <2>3. /\ client' \in [AndroidC!Inst -> AndroidC!Client]
        /\ \A j \in AndroidC!Inst \ {i} : client'[j] = client[j]
        /\ client'[i].ready /\ ~client'[i].pending /\ client'[i].gatt = g /\ client'[i].peer = p
        /\ client'[i].attempts = client[i].attempts
    BY <1>2, <1>3, <2>2 DEF ConnectingTyped, AndroidC!Client
  <2>4. js'[p] = "linked" /\ \A q \in Peer \ {p} : js'[q] = js[q]
    BY <1>3, <1>10, <2>1 DEF ConnectingTyped
  <2>5. \A h \in AndroidC!Gatt : stage'[h] = IF h = g THEN "up" ELSE stage[h]
    BY <1>3, <1>10 DEF AndroidC!Await, ConnectingTyped
  <2>6. ConnectingTyped'
    <3>1. stage' \in [AndroidC!Gatt -> AndroidC!Stage]
      BY <1>3, <1>10 DEF AndroidC!Await, ConnectingTyped, AndroidC!Stage
    <3>2. js' \in [Peer -> {"idle", "asking", "linked"}]
      BY <1>3, <1>10 DEF ConnectingTyped
    <3> QED BY <1>3, <1>4, <1>10, <2>3, <3>1, <3>2 DEF ConnectingTyped
  <2>7. AndroidOnly(i, p)
    BY <1>4, <1>10, <2>3, <2>4, <2>5 DEF AndroidOnly
  <2>8. PeerHolds(p)'
    BY <1>2, <1>4, <1>10, <2>1, <2>3, <2>4 DEF PeerHolds
  <2>9. ClientHolds(i)'
    <3>1. ClientHolds(i) /\ g # None
      BY GattIsAPair DEF Connecting
    <3>2. Registered(i)' /\ ~(made' < i)
      BY <1>3, <1>4, <1>10, <2>1, <2>3 DEF Registered, ConnectingTyped, AndroidC!Inst
    <3>3. stage'[g] = "up"
      BY <2>5
    <3> QED BY <1>2, <1>4, <2>3, <3>1, <3>2, <3>3 DEF ClientHolds
  <2>10. ASSUME NEW h \in AndroidC!Gatt, h[1] = i  PROVE GattHolds(h)'
    <3>1. GattHolds(h)
      BY DEF Connecting
    <3> QED BY <1>2, <2>3, <2>5, <2>10, <3>1 DEF GattHolds
  <2> QED BY <1>10, <2>1, <2>4, <2>6, <2>7, <2>8, <2>9, <2>10, OneConnection
<1>11. CASE AndroidC!OnDescriptorWrite(g)
  BY <1>2, <1>5, <1>10, <1>11 DEF AndroidC!OnDescriptorWrite
<1> QED BY <1>8, <1>9, <1>11 DEF AndroidC!Callback

LEMMA AndroidDisconnected ==
  ASSUME patient, Connecting, NEW g \in AndroidC!Gatt, AndroidC!OnDisconnected(g)
  PROVE  Connecting' /\ AndroidMoves
<1>1. stage[g] \notin {"unused", "closed"}
  BY DEF AndroidC!OnDisconnected
<1> SUFFICES ASSUME NEW i \in AndroidC!Inst, i = g[1]  PROVE Connecting' /\ AndroidMoves
  BY <1>1, OpenIsOwned
<1>2. /\ Registered(i) /\ AndroidC!PeerOf(g) = i /\ client[i].gatt = g /\ g # None /\ i # None
      /\ <<"open", i>> \notin tasks /\ <<"retry", i>> \notin tasks
  BY <1>1, OpenIsOwned, GattIsAPair
<1>3. ConnectingTyped /\ client[i] \in AndroidC!Client
  BY DEF Connecting, ConnectingTyped
<1>4. patient' = patient /\ made' = made /\ looked' = looked
  BY DEF AndroidC!OnDisconnected
<1> SUFFICES ASSUME NEW p \in Peer, p = client[i].peer  PROVE Connecting' /\ AndroidMoves
  BY <1>2 DEF Registered
<1>5. /\ connections[p] = i /\ i <= made /\ (client[i].ready <=> ~client[i].pending)
      /\ js[p] = (IF client[i].ready THEN "linked" ELSE "asking")
      /\ \A q \in Peer \ {p} : connections[q] # i
  BY <1>2, RegisteredOnce
<1>6. CASE client[i].ready /\ AndroidC!Lost(g, i)
  <2>1. js' = [js EXCEPT ![p] = "idle"] /\ AndroidC!Forget(i) /\ stage' = AndroidC!Closed(i)
    BY <1>3, <1>5, <1>6 DEF AndroidC!Lost, AndroidC!Tell, ConnectingTyped
  <2>2. client' = [client EXCEPT ![i] = [client[i] EXCEPT !.gatt = None, !.ready = FALSE]]
    BY <1>2, <1>3, <1>6 DEF AndroidC!Lost, AndroidC!CloseGatt, ConnectingTyped
  <2>3. RecordOf(i) /\ client'[i].gatt = None /\ ~client'[i].ready /\ ~client'[i].pending
    BY <1>3, <1>5, <1>6, <2>2 DEF RecordOf, ConnectingTyped, AndroidC!Client
  <2>4. TasksOf(i)
    BY <1>2, <1>6 DEF TasksOf, AndroidC!Lost
  <2> QED BY <1>2, <1>4, <2>1, <2>3, <2>4, Dropped
<1>7. CASE ~client[i].ready /\ AndroidC!Unfinished(g, i)
  <2>1. stage' = [stage EXCEPT ![g] = "closed"] /\ stage' = AndroidC!Closed(i)
    BY <1>2, <1>3, <1>7 DEF AndroidC!Unfinished, AndroidC!Closed, ConnectingTyped
  <2>2. CASE /\ client[i].attempts < MaxAttempts
             /\ client' = [client EXCEPT ![i] = AndroidC!CloseGatt(i, @)]
             /\ tasks' = tasks \cup {<<"retry", i>>}
             /\ UNCHANGED <<js, connections>>
    <3>1. client' = [client EXCEPT ![i] = [client[i] EXCEPT !.gatt = None, !.ready = FALSE]]
      BY <1>2, <1>3, <2>2 DEF AndroidC!CloseGatt, ConnectingTyped
    <3>2. /\ client' \in [AndroidC!Inst -> AndroidC!Client]
          /\ \A j \in AndroidC!Inst \ {i} : client'[j] = client[j]
          /\ client'[i].gatt = None /\ ~client'[i].ready /\ client'[i].peer = p
          /\ client'[i].attempts = client[i].attempts /\ client'[i].pending
      BY <1>3, <1>5, <1>7, <3>1 DEF ConnectingTyped, AndroidC!Client
    <3>3. \A h \in AndroidC!Gatt : stage'[h] = IF h = g THEN "closed" ELSE stage[h]
      BY <1>3, <2>1 DEF ConnectingTyped
    <3>4. ConnectingTyped'
      <4>1. stage' \in [AndroidC!Gatt -> AndroidC!Stage]
        BY <1>3, <2>1 DEF ConnectingTyped, AndroidC!Stage
      <4> QED BY <1>3, <1>4, <2>2, <3>2, <4>1 DEF ConnectingTyped
    <3>5. AndroidOnly(i, p)
      BY <1>4, <2>2, <3>2, <3>3 DEF AndroidOnly
    <3>6. PeerHolds(p)'
      BY <1>2, <1>4, <1>5, <1>7, <2>2, <3>2 DEF PeerHolds
    <3>7. ClientHolds(i)'
      <4>1. Registered(i)' /\ ~(made' < i)
        BY <1>3, <1>4, <1>5, <2>2, <3>2 DEF Registered, ConnectingTyped, AndroidC!Inst
      <4> QED BY <1>2, <2>2, <3>2, <4>1 DEF ClientHolds
    <3>8. ASSUME NEW h \in AndroidC!Gatt, h[1] = i  PROVE GattHolds(h)'
      <4>1. GattHolds(h)
        BY DEF Connecting
      <4> QED BY <1>2, <3>3, <3>8, <4>1 DEF GattHolds
    <3> QED BY <1>5, <2>2, <3>4, <3>5, <3>6, <3>7, <3>8, OneConnection
  <2>3. CASE /\ AndroidC!Reject(i) /\ AndroidC!Forget(i)
             /\ client' = [client EXCEPT ![i] =
                             [AndroidC!CloseGatt(i, @) EXCEPT !.pending = FALSE, !.timeout = FALSE]]
             /\ tasks' = tasks
    <3>1. AndroidC!Fail(i)
      BY <2>1, <2>3 DEF AndroidC!Fail
    <3>2. TasksOf(i)
      BY <1>2, <2>3 DEF TasksOf
    <3> QED BY <1>2, <1>4, <1>7, <3>1, <3>2, Failed
  <2> QED BY <1>7, <2>2, <2>3 DEF AndroidC!Unfinished
<1> QED BY <1>2, <1>6, <1>7 DEF AndroidC!OnDisconnected

LEMMA AndroidPowerOff ==
  ASSUME patient, Connecting, AndroidC!PowerOff
  PROVE  Connecting' /\ AndroidMoves
<1> DEFINE open == {connections[p] : p \in Peer} \ {None}
<1>1. ConnectingTyped /\ (\A i \in AndroidC!Inst : ClientHolds(i) /\ <<"open", i>> \notin tasks)
  BY DEF Connecting, AndroidC!PowerOff
<1>2. /\ patient' = patient /\ made' = made /\ looked' = looked /\ tasks' = tasks
      /\ client' = [i \in AndroidC!Inst |-> IF i \notin open THEN client[i]
                     ELSE [AndroidC!CloseGatt(i, client[i]) EXCEPT !.pending = FALSE, !.timeout = FALSE]]
      /\ stage' = [g \in AndroidC!Gatt |-> IF \E i \in open : client[i].gatt = g THEN "closed" ELSE stage[g]]
      /\ js' = [p \in Peer |-> IF connections[p] = None THEN js[p] ELSE "idle"]
      /\ connections' = [p \in Peer |-> None]
  BY DEF AndroidC!PowerOff
<1>3. \A p \in Peer : js'[p] = "idle" /\ connections'[p] = None
  <2>1. \A p \in Peer : PeerHolds(p)
    BY DEF Connecting
  <2> QED BY <1>2, <2>1 DEF PeerHolds
<1>4. \A i \in AndroidC!Inst : Registered(i) <=> i \in open
  <2>1. ASSUME NEW i \in AndroidC!Inst, Registered(i)  PROVE i \in open
    BY <2>1, GattIsAPair DEF Registered
  <2>2. ASSUME NEW i \in AndroidC!Inst, i \in open  PROVE Registered(i)
    <3>1. PICK p \in Peer : connections[p] = i
      BY <2>2
    <3>2. PeerHolds(p)
      BY DEF Connecting
    <3> QED BY <3>1, <3>2, GattIsAPair DEF PeerHolds, Registered
  <2> QED BY <2>1, <2>2
<1>5. ASSUME NEW i \in AndroidC!Inst
      PROVE  /\ client'[i] \in AndroidC!Client /\ ~client'[i].ready /\ ~client'[i].pending
             /\ client'[i].gatt = None /\ client'[i].peer = client[i].peer
             /\ client'[i].attempts = client[i].attempts /\ (made < i => client'[i] = client[i])
  <2>1. client[i] \in AndroidC!Client /\ ClientHolds(i)
    BY <1>1 DEF ConnectingTyped
  <2>2. CASE Registered(i)
    <3>1. client'[i] = [AndroidC!CloseGatt(i, client[i]) EXCEPT !.pending = FALSE, !.timeout = FALSE]
      BY <1>2, <1>4, <2>2
    <3>2. i <= made
      BY <2>2, RegisteredOnce
    <3>3. ~(made < i)
      BY <1>1, <3>2 DEF ConnectingTyped, AndroidC!Inst
    <3>4. client[i].gatt = None => ~client[i].ready
      BY <2>1 DEF ClientHolds
    <3> QED BY <2>1, <3>1, <3>3, <3>4 DEF AndroidC!CloseGatt, AndroidC!Client
  <2>3. CASE ~Registered(i)
    BY <1>2, <1>4, <2>1, <2>3 DEF ClientHolds
  <2> QED BY <2>2, <2>3
<1>6. ConnectingTyped'
  <2>1. client' \in [AndroidC!Inst -> AndroidC!Client]
    BY <1>2, <1>5
  <2>2. stage' \in [AndroidC!Gatt -> AndroidC!Stage]
    BY <1>1, <1>2 DEF ConnectingTyped, AndroidC!Stage
  <2>3. js' \in [Peer -> {"idle", "asking", "linked"}] /\ connections' \in [Peer -> AndroidC!Inst \cup {None}]
    BY <1>2, <1>3
  <2> QED BY <1>1, <1>2, <2>1, <2>2, <2>3 DEF ConnectingTyped
<1>7. \A p \in Peer : PeerHolds(p)'
  BY <1>3 DEF PeerHolds
<1>8. ASSUME NEW i \in AndroidC!Inst  PROVE ClientHolds(i)'
  <2>1. ~Registered(i)'
    BY <1>3, GattIsAPair DEF Registered
  <2>2. ClientHolds(i) /\ <<"open", i>> \notin tasks
    BY <1>1
  <2> QED BY <1>2, <1>5, <2>1, <2>2 DEF ClientHolds
<1>9. ASSUME NEW g \in AndroidC!Gatt  PROVE GattHolds(g)'
  <2>1. CASE stage[g] \in {"unused", "closed"}
    BY <1>2, <2>1 DEF GattHolds
  <2>2. CASE stage[g] \notin {"unused", "closed"}
    <3>1. g[1] \in open /\ client[g[1]].gatt = g
      BY <1>4, <2>2, OpenIsOwned
    <3>2. stage'[g] = "closed"
      BY <1>2, <3>1
    <3> QED BY <3>2 DEF GattHolds
  <2> QED BY <2>1, <2>2
<1>10. Connecting'
  BY <1>6, <1>7, <1>8, <1>9 DEF Connecting
<1>11. \A p \in Peer : AndroidC!Seen(p)' = "none"
  BY <1>3 DEF AndroidC!Seen
<1>12. AndroidC!Contract!EndAll
  BY <1>11 DEF AndroidC!Contract!EndAll, AndroidC!Connections
<1> QED BY <1>10, <1>12 DEF AndroidMoves, AndroidC!Contract!Next

----------------------------------------------------------------------------

LEMMA AndroidPatientStep ==
  ASSUME patient, Connecting, [AndroidC!Next]_(AndroidC!vars)
  PROVE  Connecting' /\ AndroidMoves
<1>1. CASE AndroidC!Next
  BY <1>1, AndroidConnect, AndroidDisconnect, AndroidMainThread, AndroidCallback, AndroidDisconnected,
     AndroidPowerOff DEF AndroidC!Next
<1>2. CASE UNCHANGED AndroidC!vars
  <2>1. UNCHANGED <<js, connections, client, made, tasks, looked, stage, patient>>
    BY <1>2 DEF AndroidC!vars
  <2>2. ConnectingTyped'
    BY <2>1 DEF Connecting, ConnectingTyped
  <2>3. client' \in [AndroidC!Inst -> AndroidC!Client]
    BY <2>2 DEF ConnectingTyped
  <2> QED BY <2>1, <2>3, Idled
<1> QED BY <1>1, <1>2

LEMMA ConnectingInit == AndroidC!Init => Connecting /\ AndroidC!Contract!Init
<1> SUFFICES ASSUME AndroidC!Init  PROVE Connecting /\ AndroidC!Contract!Init
  OBVIOUS
<1>1. /\ AndroidC!NewClient(None) \in AndroidC!Client
      /\ AndroidC!NewClient(None).peer = None /\ AndroidC!NewClient(None).gatt = None
      /\ ~AndroidC!NewClient(None).ready /\ ~AndroidC!NewClient(None).pending
  <2>1. 0 \in 0..MaxAttempts
    BY AttemptsAssumption
  <2>2. AndroidC!NewClient(None) =
          [peer |-> None, gatt |-> None, ready |-> FALSE, discoveryStarted |-> FALSE,
           attempts |-> 0, pending |-> FALSE, timeout |-> FALSE]
    BY DEF AndroidC!NewClient
  <2>3. AndroidC!NewClient(None) \in AndroidC!Client
    BY <2>1, <2>2 DEF AndroidC!Client
  <2> QED BY <2>2, <2>3
<1>2. ConnectingTyped
  BY <1>1 DEF AndroidC!Init, ConnectingTyped, AndroidC!Stage
<1>3. ASSUME NEW i \in AndroidC!Inst  PROVE ClientHolds(i)
  BY <1>1, GattIsAPair DEF AndroidC!Init, ClientHolds, Registered
<1>4. \A p \in Peer : PeerHolds(p)
  BY DEF AndroidC!Init, PeerHolds
<1>5. \A g \in AndroidC!Gatt : GattHolds(g)
  BY DEF AndroidC!Init, GattHolds
<1>6. AndroidC!Contract!Init
  BY DEF AndroidC!Init, AndroidC!Contract!Init, AndroidC!Connections, AndroidC!Seen
<1> QED BY <1>2, <1>3, <1>4, <1>5, <1>6 DEF Connecting

ConnectingIfPatient == patient \in BOOLEAN /\ (patient => Connecting)

LEMMA AndroidStep ==
  ConnectingIfPatient /\ [AndroidC!Next]_(AndroidC!vars) => ConnectingIfPatient' /\ AndroidMoves
<1> SUFFICES ASSUME ConnectingIfPatient, [AndroidC!Next]_(AndroidC!vars)
             PROVE  ConnectingIfPatient' /\ AndroidMoves
  OBVIOUS
<1>1. patient' = patient
  BY AndroidPatience
<1>2. CASE patient
  BY <1>1, <1>2, AndroidPatientStep DEF ConnectingIfPatient
<1>3. CASE ~patient
  <2>1. \A p \in Peer : AndroidC!Seen(p)' = AndroidC!Seen(p)
    BY <1>1, <1>3 DEF AndroidC!Seen
  <2>2. UNCHANGED AndroidC!Connections
    BY <2>1 DEF AndroidC!Connections
  <2> QED BY <1>1, <1>3, <2>2 DEF ConnectingIfPatient, AndroidMoves
<1> QED BY <1>2, <1>3

\* connect() and `disconnected` keep their promise on Android, fairness aside and
\* for the patient: a promise settles at most once, and what was handed out is the
\* open connection of its peer until its end was asked for or told, whatever
\* retries, timeouts and late callbacks there are (CourierGattClient.kt:315 to 453).
THEOREM AndroidKeepsContract == AndroidC!Spec => AndroidC!Contract!Safety
<1>1. AndroidC!Init => ConnectingIfPatient /\ AndroidC!Contract!Init
  BY ConnectingInit, PatienceAssumption DEF AndroidC!Init, ConnectingIfPatient
<1>2. ConnectingIfPatient /\ [AndroidC!Next]_(AndroidC!vars)
      => ConnectingIfPatient' /\ [AndroidC!Contract!Next]_(AndroidC!Connections)
  BY AndroidStep DEF AndroidMoves
<1> QED BY <1>1, <1>2, PTL DEF AndroidC!Spec, AndroidC!Contract!Safety

\* To the patient an open interface is always that of the connection its device
\* is registered for, so that none has to be waited for.
OpenAreOwned ==
  \A g \in AndroidC!Gatt :
    patient /\ stage[g] \notin {"unused", "closed"} => AndroidC!Owned(g)

LEMMA ConnectingOwns == ConnectingIfPatient => OpenAreOwned
<1> SUFFICES ASSUME ConnectingIfPatient, patient, NEW g \in AndroidC!Gatt,
                    stage[g] \notin {"unused", "closed"}
             PROVE  AndroidC!Owned(g)
  BY DEF OpenAreOwned
<1>1. AndroidC!PeerOf(g) = g[1] /\ g[1] \in AndroidC!Inst /\ client[g[1]].gatt = g
  BY OpenIsOwned DEF ConnectingIfPatient
<1> QED BY <1>1, GattIsAPair DEF AndroidC!Owned

LEMMA OwnedAreReturned == []OpenAreOwned => AndroidC!InterfacesReturned
<1> SUFFICES ASSUME NEW g \in AndroidC!Gatt
             PROVE  []OpenAreOwned
                    => [](patient /\ stage[g] \notin {"unused", "closed"}
                          => AndroidC!Owned(g) \/ <>(stage[g] = "closed"))
  BY DEF AndroidC!InterfacesReturned
<1>1. OpenAreOwned => (patient /\ stage[g] \notin {"unused", "closed"} => AndroidC!Owned(g))
  BY DEF OpenAreOwned
<1> QED BY <1>1, PTL

----------------------------------------------------------------------------
(* All four halves together.                                                *)

Promised == ConnectingIfPatient /\ IosHeld /\ Awaited /\ IosWished

Promises ==
  /\ AndroidMoves /\ IosMoves
  /\ [AndroidP!Contract!Next]_(AndroidP!Phase) /\ [IosP!Contract!Next]_(IosP!Phase)

LEMMA AndroidRests ==
  ASSUME ConnectingIfPatient, UNCHANGED <<androidC, patient>>
  PROVE  ConnectingIfPatient' /\ AndroidMoves
<1>1. UNCHANGED <<js, connections, client, made, tasks, looked, stage, patient>>
  BY DEF androidC
<1>2. UNCHANGED AndroidC!Connections
  <2>1. \A p \in Peer : AndroidC!Seen(p)' = AndroidC!Seen(p)
    BY <1>1 DEF AndroidC!Seen, AndroidC!Live
  <2> QED BY <2>1 DEF AndroidC!Connections
<1>3. ASSUME patient  PROVE Connecting'
  <2>1. client \in [AndroidC!Inst -> AndroidC!Client] /\ Connecting
    BY <1>3 DEF ConnectingIfPatient, Connecting, ConnectingTyped
  <2> QED BY <1>1, <1>3, <2>1, Idled
<1> QED BY <1>1, <1>2, <1>3 DEF ConnectingIfPatient, AndroidMoves

LEMMA IosRests ==
  ASSUME IosHeld, UNCHANGED <<iosC, patient>>
  PROVE  IosHeld' /\ IosMoves
BY IosElsewhere DEF iosC

LEMMA AndroidOffAir ==
  ASSUME Awaited, UNCHANGED <<androidP, patient>>
  PROVE  Awaited' /\ [AndroidP!Contract!Next]_(AndroidP!Phase)
<1>1. UNCHANGED <<promise, onAir, pendingStart, halfway, patient>>
  BY DEF androidP
<1> QED BY <1>1
   DEF Awaited, AwaitedTyped, AwaitedFor, AwaitedService, AndroidP!Phase, AndroidP!Waiting

LEMMA IosOffAir ==
  ASSUME IosWished, UNCHANGED iosP
  PROVE  IosWished' /\ IosPhases
<1>1. UNCHANGED <<iosPromise, air, desiredLabel, servicePublication, advertiseWaiters>>
  BY DEF iosP
<1> QED BY <1>1 DEF IosWished, IosPhases, IosP!Phase, IosP!Waiting

LEMMA PromisedStep == Promised /\ [Next]_vars => Promised' /\ Promises
<1> SUFFICES ASSUME Promised, [Next]_vars  PROVE Promised' /\ Promises
  OBVIOUS
<1> USE DEF Promised, Promises
<1>1. patient' = patient
  BY AndroidPatience, IosCentralPatience, AndroidPeripheralPatience DEF Next, vars
<1>2. [AndroidC!Next]_(AndroidC!vars) \/ UNCHANGED <<androidC, patient>>
  BY <1>1 DEF Next, vars
<1>3. [IosC!Next]_(IosC!vars) \/ UNCHANGED <<iosC, patient>>
  BY <1>1 DEF Next, vars
<1>4. [AndroidP!Next]_(AndroidP!vars) \/ UNCHANGED <<androidP, patient>>
  BY <1>1 DEF Next, vars
<1>5. [IosP!Next]_(IosP!vars) \/ UNCHANGED iosP
  BY DEF Next, vars
<1>6. ConnectingIfPatient' /\ AndroidMoves
  BY <1>2, AndroidStep, AndroidRests
<1>7. IosHeld' /\ IosMoves
  BY <1>3, IosStep, IosRests
<1>8. Awaited' /\ [AndroidP!Contract!Next]_(AndroidP!Phase)
  BY <1>4, AwaitedStep, AndroidPhases, AndroidOffAir, NoneAssumption
<1>9. IosWished' /\ [IosP!Contract!Next]_(IosP!Phase)
  BY <1>5, IosWishedStep, IosOffAir DEF IosPhases
<1> QED BY <1>6, <1>7, <1>8, <1>9

\* Whichever half of whichever platform moves, connect(), disconnect() and
\* `disconnected` keep to definitions.ts, and so do startAdvertising() and
\* stopAdvertising(), fairness aside (CourierBlePlugin.kt:170 to 189).
THEOREM PromisesKept ==
  Spec => /\ AndroidC!Contract!Safety /\ IosC!Contract!Safety
          /\ AndroidP!Contract!Safety /\ IosP!Contract!Safety
<1>1. Init => Promised
  BY ConnectingInit, IosHeldInit, AwaitedInit, IosWishedInit, PatienceAssumption
     DEF Init, Promised, ConnectingIfPatient, AndroidC!Init
<1>2. Init => /\ AndroidC!Contract!Init /\ IosC!Contract!Init
              /\ AndroidP!Contract!Init /\ IosP!Contract!Init
  BY ConnectingInit, IosStartsUnasked, AwaitedInit, IosWishedInit DEF Init
<1>3. Promised /\ [Next]_vars
      => /\ Promised'
         /\ [AndroidC!Contract!Next]_(AndroidC!Connections) /\ [IosC!Contract!Next]_(IosC!Connections)
         /\ [AndroidP!Contract!Next]_(AndroidP!Phase) /\ [IosP!Contract!Next]_(IosP!Phase)
  BY PromisedStep DEF Promises, AndroidMoves, IosMoves
<1> QED BY <1>1, <1>2, <1>3, PTL
        DEF Spec, AndroidC!Contract!Safety, IosC!Contract!Safety, AndroidP!Contract!Safety,
            IosP!Contract!Safety

\* No client interface of the stack leaks to the patient: whoever dials again,
\* fails, times out or is disconnected, one that is still open is that of the
\* connection its device is registered for, which every way out closes
\* (CourierGattClient.kt:418).
THEOREM InterfacesAreReturned == Spec => []OpenAreOwned /\ InterfacesReturned
<1>1. Init => Promised
  BY ConnectingInit, IosHeldInit, AwaitedInit, IosWishedInit, PatienceAssumption
     DEF Init, Promised, ConnectingIfPatient, AndroidC!Init
<1>2. Promised /\ [Next]_vars => Promised'
  BY PromisedStep
<1>3. Promised => OpenAreOwned
  BY ConnectingOwns DEF Promised
<1>4. Spec => []OpenAreOwned
  BY <1>1, <1>2, <1>3, PTL DEF Spec
<1> QED BY <1>4, OwnedAreReturned, PTL DEF InterfacesReturned

LEMMA ConnectingIsAlive == ConnectingIfPatient => (patient => HeldIsAlive)
<1> SUFFICES ASSUME Connecting, NEW p \in Peer, js[p] = "linked"  PROVE AndroidC!Live(p)
  BY DEF ConnectingIfPatient, HeldIsAlive, AndroidC!HeldIsAlive
<1>1. PeerHolds(p) /\ connections[p] \in AndroidC!Inst \cup {None}
  BY DEF Connecting, ConnectingTyped
<1>2. connections[p] # None
  BY <1>1 DEF PeerHolds
<1>3. ClientHolds(connections[p])
  BY <1>1, <1>2 DEF Connecting
<1> QED BY <1>1, <1>2, <1>3 DEF PeerHolds, ClientHolds, AndroidC!Live

\* What connect() handed out is a registered, ready connection with an open
\* interface, to whoever is patient: with callbacks kept out of the tasks of the
\* main thread, and so out of the gap of the timeout between "if (peer.ready)
\* return" and finish(), no retry or loss of power breaks HeldIsAlive
\* (CourierGattClient.kt:379 to 386).
THEOREM HeldIsAliveToThePatient == Spec => [](patient => HeldIsAlive)
<1>1. Init => Promised
  BY ConnectingInit, IosHeldInit, AwaitedInit, IosWishedInit, PatienceAssumption
     DEF Init, Promised, ConnectingIfPatient, AndroidC!Init
<1>2. Promised /\ [Next]_vars => Promised'
  BY PromisedStep
<1>3. Promised => (patient => HeldIsAlive)
  BY ConnectingIsAlive DEF Promised
<1> QED BY <1>1, <1>2, <1>3, PTL DEF Spec
=============================================================================
