--------------------------- MODULE AndroidCentral ---------------------------
(***************************************************************************)
(* The connections of the Android plugin as a central                      *)
(* (CourierGattClient.kt): connect, the attempt on the main thread, its    *)
(* retry and its timeout, the callbacks of the Bluetooth stack up to the   *)
(* written descriptor, disconnect, and Bluetooth going off.                *)
(*                                                                         *)
(* Three threads: the plugin's (Connect, Disconnect), the main thread (the *)
(* posted tasks and the timer) and the binder thread of the callbacks.     *)
(* Plugin calls are those of hub.ts and transport.ts: disconnect() only    *)
(* closes a connection that was handed out.                                *)
(***************************************************************************)
EXTENDS Naturals, FiniteSets

CONSTANTS
  Peer,
  None,
  MaxConnects,   \* bound: connections begun
  MaxHurried,    \* bound: connections begun without patience
  MaxAttempts,   \* MAX_CONNECT_ATTEMPTS
  MaxOutages,    \* bound: how often Bluetooth goes off
  Patience       \* the values of "patient" to explore

Inst == 1..MaxConnects
Gatt == Inst \X (1..MaxAttempts)

VARIABLES
  js,           \* what the hub knows of a peer
  connections,  \* the registered ClientPeer of a peerId
  client,       \* every ClientPeer made
  made,         \* how many
  tasks,        \* posted to the main thread
  looked,       \* timers that found their peer not ready and have not acted
  stage,        \* what the stack will call back next about a BluetoothGatt
  outages,
  patient       \* does no callback run inside a task of the main thread, and
                \* Bluetooth not go off between connect() and the task it posts?

vars == <<js, connections, client, made, tasks, looked, stage, outages, patient>>

Stage == {"unused", "dialling", "tuning", "discovering", "subscribing", "idle",
          "up", "closed"}
Client == [peer: Peer \cup {None}, gatt: Gatt \cup {None}, ready: BOOLEAN,
           discoveryStarted: BOOLEAN, attempts: 0..MaxAttempts,
           pending: BOOLEAN, timeout: BOOLEAN]
Task == {"open", "retry", "store"} \X Inst

TypeOK ==
  /\ js \in [Peer -> {"idle", "asking", "linked"}]
  /\ connections \in [Peer -> Inst \cup {None}]
  /\ client \in [Inst -> Client]
  /\ made \in 0..MaxConnects
  /\ tasks \subseteq Task
  /\ looked \subseteq Inst
  /\ stage \in [Gatt -> Stage]
  /\ outages \in 0..MaxOutages
  /\ patient \in BOOLEAN

NewClient(p) ==
  [peer |-> p, gatt |-> None, ready |-> FALSE, discoveryStarted |-> FALSE,
   attempts |-> 0, pending |-> p # None, timeout |-> p # None]

Init ==
  /\ js = [p \in Peer |-> "idle"]
  /\ connections = [p \in Peer |-> None]
  /\ client = [i \in Inst |-> NewClient(None)]
  /\ made = 0
  /\ tasks = {} /\ looked = {}
  /\ stage = [g \in Gatt |-> "unused"]
  /\ outages = 0
  /\ patient \in Patience

-----------------------------------------------------------------------------
(* Helpers of several handlers.                                            *)

\* The peer a callback is about: whoever is registered for its device.
PeerOf(g) == connections[client[g[1]].peer]

\* forget: only if it is still this peer, not a replacement.
Forget(i) ==
  connections' = [p \in Peer |-> IF connections[p] = i THEN None ELSE connections[p]]

\* closeGatt, for what the stack sees of it: no more callbacks.
Closed(i) ==
  IF client[i].gatt = None THEN stage ELSE [stage EXCEPT ![client[i].gatt] = "closed"]

CloseGatt(i, c) ==
  IF c.gatt = None THEN c ELSE [c EXCEPT !.gatt = None, !.ready = FALSE]

\* The promise of connect(), if it has not been taken already.
Reject(i) == js' = IF client[i].pending THEN [js EXCEPT ![client[i].peer] = "idle"] ELSE js

\* finish() with an error.
Fail(i) ==
  /\ Reject(i) /\ Forget(i)
  /\ client' = [client EXCEPT ![i] =
                  [CloseGatt(i, @) EXCEPT !.pending = FALSE, !.timeout = FALSE]]
  /\ stage' = Closed(i)

\* `disconnected` reaches the hub.
Tell(p) == js' = [js EXCEPT ![p] = IF @ = "linked" THEN "idle" ELSE @]

\* The stack has been asked for something about g and answers later.
Await(g, s) == stage' = [stage EXCEPT ![g] = s]

-----------------------------------------------------------------------------
(* The plugin's thread.                                                    *)

Connect(p) ==
  /\ js[p] = "idle"
  /\ \/ /\ connections[p] = None
        /\ made < IF patient THEN MaxConnects ELSE MaxHurried
        /\ made' = made + 1
        /\ client' = [client EXCEPT ![made + 1] = NewClient(p)]
        /\ connections' = [connections EXCEPT ![p] = made + 1]
        /\ tasks' = tasks \cup {<<"open", made + 1>>}
        /\ js' = [js EXCEPT ![p] = "asking"]
     \/ /\ connections[p] # None /\ client[connections[p]].ready
        /\ js' = [js EXCEPT ![p] = "linked"]
        /\ UNCHANGED <<made, client, connections, tasks>>
  /\ UNCHANGED <<looked, stage, outages, patient>>

\* Seeded defect of Disconnect: the entry stays, and so does the connection.
DisconnectForgetting(p) ==
  /\ js[p] = "linked"
  /\ js' = [js EXCEPT ![p] = "idle"]
  /\ IF connections[p] = None THEN UNCHANGED <<connections, client, stage>>
     ELSE /\ connections' = [connections EXCEPT ![p] = None]
          /\ UNCHANGED <<client, stage>>
  /\ UNCHANGED <<made, tasks, looked, outages, patient>>

Disconnect(p) ==
  /\ js[p] = "linked"
  /\ js' = [js EXCEPT ![p] = "idle"]
  /\ IF connections[p] = None THEN UNCHANGED <<connections, client, stage>>
     ELSE LET i == connections[p] IN
          /\ connections' = [connections EXCEPT ![p] = None]
          /\ client' = [client EXCEPT ![i] =
                          [CloseGatt(i, @) EXCEPT !.pending = FALSE, !.timeout = FALSE]]
          /\ stage' = Closed(i)
  /\ UNCHANGED <<made, tasks, looked, outages, patient>>

-----------------------------------------------------------------------------
(* The main thread.                                                        *)

\* No task of it is halfway.
MainFree == looked = {} /\ \A i \in Inst : <<"store", i>> \notin tasks

\* connectGatt gives an interface or refuses; its result is stored.  Patient, no
\* peer dials more than MaxAttempts times; otherwise that is a bound.
Dial(i, rest) ==
  LET n == client[i].attempts + 1
      g == <<i, n>>
      begun == [client EXCEPT ![i].attempts = n, ![i].discoveryStarted = FALSE]
  IN  /\ patient \/ n <= MaxAttempts
      /\ \/ /\ Await(g, "dialling")
            /\ IF patient
               THEN client' = [begun EXCEPT ![i].gatt = g] /\ tasks' = rest
               ELSE client' = begun /\ tasks' = rest \cup {<<"store", i>>}
            /\ UNCHANGED <<js, connections>>
         \/ Fail(i) /\ tasks' = rest

OpenGatt(i) ==
  /\ <<"open", i>> \in tasks /\ MainFree
  /\ Dial(i, tasks \ {<<"open", i>>})
  /\ UNCHANGED <<made, looked, outages, patient>>

StoreGatt(i) ==
  /\ <<"store", i>> \in tasks
  /\ client' = [client EXCEPT ![i].gatt = <<i, client[i].attempts>>]
  /\ tasks' = tasks \ {<<"store", i>>}
  /\ UNCHANGED <<js, connections, made, looked, stage, outages, patient>>

\* The retry goes on only while its peer is still registered.
Retry(i) ==
  /\ <<"retry", i>> \in tasks /\ MainFree
  /\ LET rest == tasks \ {<<"retry", i>>} IN
     IF connections[client[i].peer] = i THEN Dial(i, rest)
     ELSE tasks' = rest /\ UNCHANGED <<js, connections, client, stage>>
  /\ UNCHANGED <<made, looked, outages, patient>>

\* The timer looks whether the peer is ready, and finishes it if not. It is due
\* after the task connect() posted.
Timeout(i) ==
  /\ client[i].timeout /\ MainFree /\ <<"open", i>> \notin tasks
  /\ IF client[i].ready
     THEN /\ client' = [client EXCEPT ![i].timeout = FALSE]
          /\ UNCHANGED <<js, connections, stage, looked>>
     ELSE IF patient THEN Fail(i) /\ UNCHANGED looked
     ELSE looked' = looked \cup {i} /\ UNCHANGED <<js, connections, client, stage>>
  /\ UNCHANGED <<made, tasks, outages, patient>>

TimeoutFinishes(i) ==
  /\ i \in looked
  /\ Fail(i)
  /\ looked' = looked \ {i}
  /\ UNCHANGED <<made, tasks, outages, patient>>

\* Bluetooth goes off: closeAll tells everyone.  The sweep of the table is one
\* step here.
PowerOff ==
  /\ outages < MaxOutages /\ MainFree
  /\ patient => \A i \in Inst : <<"open", i>> \notin tasks
  /\ outages' = outages + 1
  /\ LET open == {connections[p] : p \in Peer} \ {None} IN
     /\ client' = [i \in Inst |-> IF i \notin open THEN client[i]
                     ELSE [CloseGatt(i, client[i]) EXCEPT !.pending = FALSE, !.timeout = FALSE]]
     /\ stage' = [g \in Gatt |-> IF \E i \in open : client[i].gatt = g THEN "closed"
                                 ELSE stage[g]]
     /\ js' = [p \in Peer |-> IF connections[p] = None THEN js[p] ELSE "idle"]
     /\ connections' = [p \in Peer |-> None]
  /\ UNCHANGED <<made, tasks, looked, patient>>

-----------------------------------------------------------------------------
(* The binder thread.                                                      *)

\* startDiscovery: once per attempt.
Discover(i, g, c) ==
  IF c.discoveryStarted
  THEN Await(g, "idle") /\ client' = [client EXCEPT ![i] = c] /\ UNCHANGED <<js, connections>>
  ELSE \/ /\ Await(g, "discovering")
          /\ client' = [client EXCEPT ![i] = [c EXCEPT !.discoveryStarted = TRUE]]
          /\ UNCHANGED <<js, connections>>
       \/ Fail(i)

OnConnected(g) ==
  /\ stage[g] = "dialling"
  /\ LET i == PeerOf(g) IN
     IF i = None THEN Await(g, "closed") /\ UNCHANGED <<js, connections, client>>
     ELSE LET c == [client[i] EXCEPT !.gatt = g] IN
          \/ /\ Await(g, "tuning")
             /\ client' = [client EXCEPT ![i] = c]
             /\ UNCHANGED <<js, connections>>
          \/ Discover(i, g, c)
  /\ UNCHANGED <<made, tasks, looked, outages, patient>>

\* onMtuChanged, onServicesDiscovered: ignored for a forgotten peer.
OnMtuChanged(g) ==
  /\ stage[g] = "tuning"
  /\ IF PeerOf(g) = None THEN Await(g, "idle") /\ UNCHANGED <<js, connections, client>>
     ELSE Discover(PeerOf(g), g, client[PeerOf(g)])
  /\ UNCHANGED <<made, tasks, looked, outages, patient>>

OnServicesDiscovered(g) ==
  /\ stage[g] = "discovering"
  /\ \/ /\ Await(g, IF PeerOf(g) = None THEN "idle" ELSE "subscribing")
        /\ UNCHANGED <<js, connections, client>>
     \/ PeerOf(g) # None /\ Fail(PeerOf(g))
  /\ UNCHANGED <<made, tasks, looked, outages, patient>>

\* The descriptor is written: the connection is usable and the promise resolves.
OnDescriptorWrite(g) ==
  /\ stage[g] = "subscribing"
  /\ LET i == PeerOf(g) IN
     \/ i = None /\ Await(g, "idle") /\ UNCHANGED <<js, connections, client>>
     \/ /\ i # None
        /\ Await(g, "up")
        /\ client' = [client EXCEPT ![i] =
                        [@ EXCEPT !.ready = TRUE, !.pending = FALSE, !.timeout = FALSE]]
        /\ js' = IF client[i].pending THEN [js EXCEPT ![client[i].peer] = "linked"] ELSE js
        /\ UNCHANGED connections
     \/ i # None /\ Fail(i)
  /\ UNCHANGED <<made, tasks, looked, outages, patient>>

\* The connection ends after it was ready: the hub is told.
Lost(g, i) ==
  /\ Forget(i)
  /\ client' = [client EXCEPT ![i] = CloseGatt(i, @)]
  /\ stage' = Closed(i)
  /\ Tell(client[i].peer)
  /\ UNCHANGED tasks

\* It ends before: status 133 is retried, anything else fails the promise.
Unfinished(g, i) ==
  \/ /\ client[i].attempts < MaxAttempts
     /\ client' = [client EXCEPT ![i] = CloseGatt(i, @)]
     /\ stage' = [Closed(i) EXCEPT ![g] = IF client[i].gatt = g THEN "closed" ELSE "idle"]
     /\ tasks' = tasks \cup {<<"retry", i>>}
     /\ UNCHANGED <<js, connections>>
  \/ /\ Reject(i) /\ Forget(i)
     /\ client' = [client EXCEPT ![i] =
                     [CloseGatt(i, @) EXCEPT !.pending = FALSE, !.timeout = FALSE]]
     /\ stage' = [Closed(i) EXCEPT ![g] = IF client[i].gatt = g THEN "closed" ELSE "idle"]
     /\ UNCHANGED tasks

OnDisconnected(g) ==
  /\ stage[g] \notin {"unused", "closed"}
  /\ LET i == PeerOf(g) IN
     \/ i = None /\ Await(g, "closed") /\ UNCHANGED <<js, connections, client, tasks>>
     \/ i # None /\ client[i].ready /\ Lost(g, i)
     \/ i # None /\ ~client[i].ready /\ Unfinished(g, i)
  /\ UNCHANGED <<made, looked, outages, patient>>

-----------------------------------------------------------------------------
Callback(g) ==
  OnConnected(g) \/ OnMtuChanged(g) \/ OnServicesDiscovered(g) \/ OnDescriptorWrite(g)
MainThread(i) == OpenGatt(i) \/ StoreGatt(i) \/ Retry(i) \/ Timeout(i) \/ TimeoutFinishes(i)

Next ==
  \/ \E p \in Peer : Connect(p) \/ Disconnect(p)
  \/ \E i \in Inst : MainThread(i)
  \/ \E g \in Gatt : Callback(g) \/ OnDisconnected(g)
  \/ PowerOff

\* The main thread runs what was posted and what is due; a connection that is
\* dialled succeeds or fails.
Fairness ==
  /\ \A i \in Inst : WF_vars(MainThread(i))
  /\ \A g \in Gatt : WF_vars(Callback(g) \/ (stage[g] # "up" /\ OnDisconnected(g)))

Spec == Init /\ [][Next]_vars /\ Fairness

-----------------------------------------------------------------------------
(* Properties.                                                             *)

\* What the hub takes for a connection is one: its peer is registered and ready
\* and its interface is open.
Live(p) ==
  /\ connections[p] # None
  /\ client[connections[p]].ready
  /\ client[connections[p]].gatt # None
  /\ stage[client[connections[p]].gatt] = "up"

\* The connection as the contract knows it.
Seen(p) ==
  IF ~patient \/ js[p] = "idle" THEN "none"
  ELSE IF js[p] = "asking" THEN "asked"
  ELSE IF Live(p) THEN "up" ELSE "dead"

Connections == [p \in Peer |-> Seen(p)]

Contract == INSTANCE PeerConnection WITH link <- Connections

\* Every connect() settles, once, and what was handed out is alive until it is
\* closed or `disconnected` is told (definitions.ts, CourierGattClient.kt:315
\* to 453, 550 to 700).
KeepsContract == Contract!Spec

\* The safety half of it, for the impatient too: a connection that connect()
\* handed out is one, although its timeout looks for "ready" and acts in two
\* steps: "Taken exactly once, by whichever of success/failure/timeout wins."
\* (CourierGattClient.kt:138, 379 to 386).
HeldIsAlive == \A p \in Peer : js[p] = "linked" => Live(p)

\* An interface that is open belongs to the peer registered for its device, or
\* goes back to the stack: "Each unclosed BluetoothGatt holds one of the handful
\* of client interfaces the stack has" (CourierGattClient.kt:418).
Owned(g) == PeerOf(g) # None /\ client[PeerOf(g)].gatt = g
InterfacesReturned ==
  \A g \in Gatt : [](patient /\ stage[g] \notin {"unused", "closed"} => Owned(g) \/ <>(stage[g] = "closed"))
=============================================================================
