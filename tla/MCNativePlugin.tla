--------------------------- MODULE MCNativePlugin ---------------------------
(* The native plugin of one device, on either platform, in either role.  The *)
(* roles share no state (CourierBlePlugin.kt:170 to 189, CourierCentral.swift *)
(* :51), so each is explored for itself.                                      *)
EXTENDS Naturals, FiniteSets

CONSTANTS Peer, Central, Label, None,
          MaxConnects, MaxHurried, MaxAttempts, MaxStarts, MaxHandles, MaxOutages, Patience

ASSUME PatienceAssumption == Patience \subseteq BOOLEAN

ASSUME AttemptsAssumption == MaxAttempts \in Nat \ {0}

ASSUME ConnectsAssumption == MaxConnects \in Nat

ASSUME NoneAssumption == None \notin Nat \cup (Nat \X Nat) \cup Peer \cup Label

VARIABLES role, outages, patient,
  js, connections, client, made, tasks, looked, stage,
  server, pendingStart, serviceTimeout, promise, advertiseCallback, onAir, halfway,
  stopped, connected, subscribed, told, strays, listed,
  iosJs, centralPower, wantScan, scanning, peers, linked, ready, pending, timers,
  iosMade, iosStage, iosOwed,
  peripheralPower, servicePublication, desiredLabel, advertiseWaiters, iosPromise,
  air, handles, minted, iosTold, iosStrays

AndroidC == INSTANCE AndroidCentral
AndroidP == INSTANCE AndroidPeripheral
IosC == INSTANCE IosCentral WITH js <- iosJs, power <- centralPower, made <- iosMade,
                                 stage <- iosStage, owed <- iosOwed
IosP == INSTANCE IosPeripheral WITH power <- peripheralPower, promise <- iosPromise,
                                    told <- iosTold, strays <- iosStrays

androidC == <<js, connections, client, made, tasks, looked, stage>>
androidP == <<server, pendingStart, serviceTimeout, promise, advertiseCallback, onAir,
              halfway, stopped, connected, subscribed, told, strays, listed>>
iosC == <<iosJs, centralPower, wantScan, scanning, peers, linked, ready, pending, timers,
          iosMade, iosStage, iosOwed>>
iosP == <<peripheralPower, servicePublication, desiredLabel, advertiseWaiters, iosPromise,
          air, handles, minted, iosTold, iosStrays>>

vars == <<role, outages, patient, androidC, androidP, iosC, iosP>>

Init ==
  /\ role \in {"android central", "android peripheral", "ios central", "ios peripheral"}
  /\ AndroidC!Init /\ AndroidP!Init /\ IosC!Init /\ IosP!Init
  \* No property but HeldIsAlive is claimed of an impatient iPhone.
  /\ role \in {"ios central", "ios peripheral"} => patient = (TRUE \in Patience)

Next ==
  /\ UNCHANGED role
  /\ \/ role = "android central" /\ AndroidC!Next /\ UNCHANGED <<androidP, iosC, iosP>>
     \/ role = "android peripheral" /\ AndroidP!Next /\ UNCHANGED <<androidC, iosC, iosP>>
     \/ role = "ios central" /\ IosC!Next /\ UNCHANGED <<androidC, androidP, iosP>>
     \/ /\ role = "ios peripheral" /\ IosP!Next
        /\ UNCHANGED <<patient, androidC, androidP, iosC>>

Spec ==
  /\ Init /\ [][Next]_vars
  /\ AndroidC!Fairness /\ AndroidP!Fairness /\ IosC!Fairness /\ IosP!Fairness

\* The state of every role has its type.
TypeOK == AndroidC!TypeOK /\ AndroidP!TypeOK /\ IosC!TypeOK /\ IosP!TypeOK

\* connect() and `disconnected` keep to definitions.ts on both platforms.
KeepsContract == AndroidC!KeepsContract /\ IosC!KeepsContract

\* startAdvertising() and stopAdvertising() keep to Advertisement, on Android for
\* the patient: a start settles, and after a stop only the next start leads back on
\* the air, but for a stop that the stack was too busy starting to hear
\* (CourierGattServer.kt:206; CourierPeripheral.swift:125 to 157).
Advertises == AndroidP!Advertises /\ IosP!Advertises

\* The hub knows every peer it hears and hears the end of every peer it knows
\* (CourierGattServer.kt:646 to 659, CourierPeripheral.swift:313 to 343).
KnowsItsPeers == AndroidP!KnowsItsPeers /\ IosP!KnowsItsPeers

\* Every client interface goes back to the stack (CourierGattClient.kt:418).
InterfacesReturned == AndroidC!InterfacesReturned

\* A connection that connect() handed out is one (CourierGattClient.kt:138).
HeldIsAlive == AndroidC!HeldIsAlive

\* Nor on iOS is one handed out that is being cancelled: "Already up: hand back
\* the MTU rather than tearing down a working link" (CourierCentral.swift:173).
IosHeldIsAlive == IosC!HeldIsAlive

\* Every startAdvertising() is answered (CourierGattServer.kt:211).
StartsSettle == AndroidP!StartsSettle

\* A stopped iPhone is not discoverable (CourierPeripheral.swift:154).
IosStoppedStaysSilent == IosP!StoppedStaysSilent

\* The hub is told the end of every central it was told of, whatever runs inside
\* close() (CourierBlePlugin.kt:231).
EndsAreTold == AndroidP!EndsAreTold

\* stopAdvertising() on a teardown path is the last word
\* (CourierBlePlugin.kt:517).
StoppedStaysSilent == AndroidP!StoppedStaysSilent
=============================================================================
