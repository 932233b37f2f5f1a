----------------------------- MODULE BleHubProofs -----------------------------
(****************************************************************************)
(* What the hub keeps through opening, closing and losing links, for any    *)
(* number of peers, opens, connections and packets: that a link is handed   *)
(* an unbroken run of its connection's packets, that an open() is answered  *)
(* once, and, where reopening is calm, that an open link hears its          *)
(* connection and is told of its end.                                       *)
(****************************************************************************)
EXTENDS BleHub, TLAPS

PacketName == [connection : Nat, number : Nat]

BridgeCall == [kind : {"connect"}, peer : Peer, transport : Transport]
         \cup [kind : {"disconnect"}, peer : Peer, transport : {None}]

Event == [kind : {"connected", "refused"}, peer : Peer, transport : Transport]
    \cup [kind : {"disconnected"}, peer : Peer, transport : {None}]
    \cup [kind : {"packet"}, peer : Peer, packet : PacketName]

(* What has which type, the queues between the two sides included.          *)
TypedHub ==
  /\ transports \in [Peer -> {None} \cup Transport]
  /\ link \in [Transport -> Links]
  /\ closed \subseteq Transport
  /\ peerOf \in [Transport -> Peer]
  /\ buffers \in [Peer -> Seq(PacketName)]
  /\ aged \subseteq Peer
  /\ delivered \in [Transport -> Seq(PacketName)]

TypedQueues == calls \in Seq(BridgeCall) /\ events \in Seq(Event)

TypedPlugin ==
  /\ connection \in [Peer -> {"none", "connecting", "ready"}]
  /\ pending \in [Peer -> {None} \cup Transport]
  /\ \A p \in Peer : connection[p] = "connecting" =>
       pending[p] \in Transport /\ count[p] < MaxConnections
  /\ count \in [Peer -> 0 .. MaxConnections]
  /\ sent \in [Peer -> Nat]
  /\ \A p \in Peer : sent[p] <= MaxPackets[p]

Typed == TypedHub /\ TypedQueues /\ TypedPlugin

Bounded == \A p \in Peer : Len(buffers[p]) <= MAX_BUFFERED_PACKETS

(* The head of a queue is one of its elements, and the rest a queue of them. *)
LEMMA Queue ==
  ASSUME NEW S, NEW q \in Seq(S), q # <<>>
  PROVE  /\ Head(q) \in S /\ Head(q) = q[1]
         /\ Tail(q) \in Seq(S)
         /\ Len(q) \in Nat \ {0}
         /\ Len(Tail(q)) = Len(q) - 1
         /\ \A i \in 1 .. Len(q) - 1 : Tail(q)[i] = q[i + 1]
  OBVIOUS

LEMMA Queued ==
  ASSUME NEW S, NEW q \in Seq(S), NEW e \in S
  PROVE  /\ Append(q, e) \in Seq(S)
         /\ Len(q) \in Nat
         /\ Len(Append(q, e)) = Len(q) + 1
         /\ \A i \in 1 .. Len(q) : Append(q, e)[i] = q[i]
         /\ Append(q, e)[Len(q) + 1] = e
  OBVIOUS

LEMMA TypedInit == Init => Typed /\ Bounded
  BY HubAssumption DEF Init, Typed, TypedHub, TypedQueues, TypedPlugin, Bounded, Links

LEMMA ConnectIsCall ==
  ASSUME NEW p \in Peer, NEW t \in Transport, NEW s \in Seq(BridgeCall)
  PROVE  Append(s, [kind |-> "connect", peer |-> p, transport |-> t]) \in Seq(BridgeCall)
<1>1. [kind |-> "connect", peer |-> p, transport |-> t] \in BridgeCall
  BY DEF BridgeCall
<1> QED BY <1>1

LEMMA DisconnectIsCall ==
  ASSUME NEW p \in Peer, NEW s \in Seq(BridgeCall)
  PROVE  Append(s, [kind |-> "disconnect", peer |-> p, transport |-> None]) \in Seq(BridgeCall)
<1>1. [kind |-> "disconnect", peer |-> p, transport |-> None] \in BridgeCall
  BY DEF BridgeCall
<1> QED BY <1>1

(* What the plugin emits is an event.                                        *)
LEMMA AnswerIsEvent ==
  ASSUME NEW p \in Peer, NEW s \in Seq(Event), NEW t \in Transport,
         NEW k \in {"connected", "refused"}
  PROVE  Append(s, [kind |-> k, peer |-> p, transport |-> t]) \in Seq(Event)
<1>1. [kind |-> k, peer |-> p, transport |-> t] \in Event
  BY DEF Event
<1> QED BY <1>1

LEMMA EndIsEvent ==
  ASSUME NEW p \in Peer, NEW s \in Seq(Event)
  PROVE  Append(s, [kind |-> "disconnected", peer |-> p, transport |-> None]) \in Seq(Event)
<1>1. [kind |-> "disconnected", peer |-> p, transport |-> None] \in Event
  BY DEF Event
<1> QED BY <1>1

LEMMA PacketIsEvent ==
  ASSUME NEW p \in Peer, NEW s \in Seq(Event), NEW packet \in PacketName
  PROVE  Append(s, [kind |-> "packet", peer |-> p, packet |-> packet]) \in Seq(Event)
<1>1. [kind |-> "packet", peer |-> p, packet |-> packet] \in Event
  BY DEF Event
<1> QED BY <1>1

(* The event at the head of the queue is of its kind.                        *)
LEMMA HeadEvent ==
  ASSUME Typed, events # <<>>
  PROVE  /\ Head(events) = events[1] /\ Len(events) \in Nat \ {0}
         /\ Tail(events) \in Seq(Event)
         /\ Head(events).peer \in Peer
         /\ Head(events).kind \in {"connected", "refused", "disconnected", "packet"}
         /\ Head(events).kind \in {"connected", "refused"} => Head(events).transport \in Transport
         /\ Head(events).kind = "packet" => Head(events).packet \in PacketName
<1>1. Head(events) \in Event /\ Head(events) = events[1]
      /\ Tail(events) \in Seq(Event) /\ Len(events) \in Nat \ {0}
  BY Queue DEF Typed, TypedQueues
<1> QED BY <1>1 DEF Event

LEMMA HeadCall ==
  ASSUME Typed, calls # <<>>
  PROVE  /\ Head(calls) = calls[1] /\ Len(calls) \in Nat \ {0}
         /\ Tail(calls) \in Seq(BridgeCall)
         /\ Head(calls).peer \in Peer
         /\ Head(calls).kind \in {"connect", "disconnect"}
         /\ Head(calls).kind = "connect" => Head(calls).transport \in Transport
<1>1. Head(calls) \in BridgeCall /\ Head(calls) = calls[1]
      /\ Tail(calls) \in Seq(BridgeCall) /\ Len(calls) \in Nat \ {0}
  BY Queue DEF Typed, TypedQueues
<1> QED BY <1>1 DEF BridgeCall

LEMMA HoldKeeps ==
  ASSUME NEW s \in Seq(PacketName), NEW packet \in PacketName
  PROVE  Hold(s, packet) \in Seq(PacketName)
<1>1. CASE Len(s) >= MAX_BUFFERED_PACKETS
  <2>1. s # <<>> /\ Tail(s) \in Seq(PacketName)
    BY <1>1, HubAssumption
  <2> QED BY <1>1, <2>1 DEF Hold
<1>2. CASE ~(Len(s) >= MAX_BUFFERED_PACKETS)
  BY <1>2 DEF Hold
<1> QED BY <1>1, <1>2

(* Each handler of JavaScript keeps the types of the hub's state ...         *)
LEMMA HubStaysTyped == Typed /\ [Next]_vars => TypedHub'
<1> SUFFICES ASSUME Typed, [Next]_vars PROVE TypedHub'
  OBVIOUS
<1> USE DEF Typed, TypedHub
<1>1. ASSUME NEW t \in Transport, Open(t) PROVE TypedHub'
  <2>1. peerOf[t] \in Peer
    OBVIOUS
  <2> QED BY <1>1, <2>1 DEF Open, Links
<1>2. ASSUME NEW t \in Transport, Close(t) PROVE TypedHub'
  BY <1>2 DEF Close, Links
<1>3. CASE Connected
  <2>1. Head(events).transport \in Transport
    BY <1>3, HeadEvent DEF Connected, NextIs
  <2> QED BY <1>3, <2>1 DEF Connected, Links
<1>4. CASE ConnectFailed
  <2>1. Head(events).transport \in Transport
    BY <1>4, HeadEvent DEF ConnectFailed, NextIs
  <2> QED BY <1>4, <2>1 DEF ConnectFailed, Links
<1>5. CASE Disconnected
  <2>1. Head(events).peer \in Peer
    BY <1>5, HeadEvent DEF Disconnected, NextIs
  <2>2. transports[Head(events).peer] \in {None} \cup Transport
    BY <2>1
  <2>3. closed' \subseteq Transport /\ link' \in [Transport -> Links]
    BY <1>5, <2>2 DEF Disconnected, Signal, Links
  <2> QED BY <1>5, <2>1, <2>3 DEF Disconnected
<1>6. CASE PacketReceived
  <2> DEFINE p == Head(events).peer
             packet == Head(events).packet
  <2>1. p \in Peer /\ packet \in PacketName
    BY <1>6, HeadEvent DEF PacketReceived, NextIs
  <2>2. CASE transports[p] # None
    <3>1. delivered[transports[p]] \in Seq(PacketName)
      BY <2>1, <2>2
    <3>2. Append(delivered[transports[p]], packet) \in Seq(PacketName)
      BY <2>1, <3>1
    <3> QED BY <1>6, <2>1, <2>2, <3>2 DEF PacketReceived
  <2>3. CASE transports[p] = None
    <3> DEFINE fresh == [q \in Peer |-> IF q \in aged THEN <<>> ELSE buffers[q]]
    <3>1. fresh \in [Peer -> Seq(PacketName)] /\ fresh[p] \in Seq(PacketName)
      BY <2>1
    <3>2. Hold(fresh[p], packet) \in Seq(PacketName)
      BY <2>1, <3>1, HoldKeeps
    <3>3. buffers' = [fresh EXCEPT ![p] = Hold(fresh[p], packet)]
      BY <1>6, <2>3, <3>1 DEF PacketReceived
    <3>4. buffers' \in [Peer -> Seq(PacketName)]
      BY <3>1, <3>2, <3>3
    <3> QED BY <1>6, <2>3, <3>4 DEF PacketReceived
  <2> QED BY <2>2, <2>3
<1>7. ASSUME NEW p \in Peer, Age(p) PROVE TypedHub'
  BY <1>7 DEF Age
<1>8. CASE UNCHANGED javascript
  BY <1>8 DEF javascript
<1> QED
  BY <1>1, <1>2, <1>3, <1>4, <1>5, <1>6, <1>7, <1>8
  DEF Next, NativeConnect, NativeDisconnect, ConnectDone, ConnectBroke, ConnectedToUs,
      ConnectionLost, PacketArrives, vars

(* ... what is put on a queue is a call or an event ...                      *)
LEMMA QueuesStayTyped == Typed /\ [Next]_vars => TypedQueues'
<1> SUFFICES ASSUME Typed, [Next]_vars PROVE TypedQueues'
  OBVIOUS
<1> USE DEF Typed, TypedQueues
<1>1. ASSUME NEW t \in Transport, Open(t) PROVE TypedQueues'
  <2>1. peerOf[t] \in Peer
    BY DEF TypedHub
  <2> QED BY <1>1, <2>1, ConnectIsCall DEF Open
<1>2. ASSUME NEW t \in Transport, Close(t) PROVE TypedQueues'
  <2>1. peerOf[t] \in Peer
    BY DEF TypedHub
  <2> QED BY <1>2, <2>1, DisconnectIsCall DEF Close
<1>3. CASE Connected \/ ConnectFailed \/ Disconnected \/ PacketReceived
  BY <1>3, HeadEvent DEF Connected, ConnectFailed, Disconnected, PacketReceived, NextIs
<1>4. CASE NativeConnect
  <2> DEFINE p == Head(calls).peer
             t == Head(calls).transport
  <2>1. Tail(calls) \in Seq(BridgeCall) /\ p \in Peer /\ t \in Transport
    BY <1>4, HeadCall DEF NativeConnect, Call
  <2>2. Emit("connected", p, t) \in Seq(Event) /\ Emit("refused", p, t) \in Seq(Event)
    BY <2>1, AnswerIsEvent DEF Emit
  <2>3. \/ events' = Emit("connected", p, t)
        \/ events' = Emit("refused", p, t)
        \/ events' = events
    BY <1>4 DEF NativeConnect
  <2> QED BY <1>4, <2>1, <2>2, <2>3 DEF NativeConnect, Call
<1>5. CASE NativeDisconnect
  <2> DEFINE p == Head(calls).peer
             refused == IF pending[p] # None THEN Emit("refused", p, pending[p]) ELSE events
  <2>1. Tail(calls) \in Seq(BridgeCall) /\ p \in Peer
    BY <1>5, HeadCall DEF NativeDisconnect, Call
  <2>2. pending[p] \in {None} \cup Transport
    BY <2>1 DEF TypedPlugin
  <2>3. refused \in Seq(Event)
    BY <2>1, <2>2, AnswerIsEvent DEF Emit
  <2>4. Append(refused, [kind |-> "disconnected", peer |-> p, transport |-> None]) \in Seq(Event)
    BY <2>1, <2>3, EndIsEvent
  <2> QED BY <1>5, <2>1, <2>4 DEF NativeDisconnect, Call
<1>6. ASSUME NEW p \in Peer, ConnectDone(p) \/ ConnectBroke(p) PROVE TypedQueues'
  <2>1. pending[p] \in Transport
    BY <1>6 DEF ConnectDone, ConnectBroke, TypedPlugin
  <2>2. Emit("connected", p, pending[p]) \in Seq(Event) /\ Emit("refused", p, pending[p]) \in Seq(Event)
    BY <2>1, AnswerIsEvent DEF Emit
  <2> QED BY <1>6, <2>2 DEF ConnectDone, ConnectBroke
<1>7. ASSUME NEW p \in Peer, ConnectionLost(p) PROVE TypedQueues'
  BY <1>7, EndIsEvent DEF ConnectionLost, Emit
<1>8. ASSUME NEW p \in Peer, PacketArrives(p) PROVE TypedQueues'
  <2>1. [connection |-> count[p], number |-> sent[p] + 1] \in PacketName
    BY HubAssumption DEF TypedPlugin, PacketName
  <2> QED BY <1>8, <2>1, PacketIsEvent DEF PacketArrives
<1>9. CASE UNCHANGED <<calls, events>>
  BY <1>9
<1> QED
  BY <1>1, <1>2, <1>3, <1>4, <1>5, <1>6, <1>7, <1>8, <1>9
  DEF Next, Age, ConnectedToUs, vars

(* ... and the plugin keeps the types of its own.                            *)
LEMMA PluginStaysTyped == Typed /\ [Next]_vars => TypedPlugin'
<1> SUFFICES ASSUME Typed, [Next]_vars PROVE TypedPlugin'
  OBVIOUS
<1> USE DEF Typed, TypedPlugin
<1>1. CASE NativeConnect
  <2> DEFINE p == Head(calls).peer
             t == Head(calls).transport
  <2>1. p \in Peer /\ t \in Transport
    BY <1>1, HeadCall DEF NativeConnect, Call
  <2> QED BY <1>1, <2>1 DEF NativeConnect, native
<1>2. CASE NativeDisconnect
  <2>1. Head(calls).peer \in Peer
    BY <1>2, HeadCall DEF NativeDisconnect, Call
  <2> QED BY <1>2, <2>1 DEF NativeDisconnect, native
<1>3. ASSUME NEW p \in Peer, count[p] < MaxConnections, Established(p) PROVE TypedPlugin'
  <2>1. count[p] + 1 \in 0 .. MaxConnections /\ MaxPackets[p] >= 0
    BY <1>3, HubAssumption
  <2>2. count' \in [Peer -> 0 .. MaxConnections]
    BY <1>3, <2>1 DEF Established
  <2>3. sent' \in [Peer -> Nat] /\ \A q \in Peer : sent'[q] <= MaxPackets[q]
    BY <1>3, <2>1 DEF Established
  <2>4. /\ connection' \in [Peer -> {"none", "connecting", "ready"}]
        /\ pending' \in [Peer -> {None} \cup Transport]
        /\ \A q \in Peer : connection'[q] = "connecting" =>
             pending'[q] \in Transport /\ count'[q] < MaxConnections
    BY <1>3 DEF Established
  <2> QED BY <2>2, <2>3, <2>4
<1>4. ASSUME NEW p \in Peer, ConnectDone(p) \/ ConnectedToUs(p) PROVE TypedPlugin'
  BY <1>3, <1>4 DEF ConnectDone, ConnectedToUs
<1>5. ASSUME NEW p \in Peer, ConnectBroke(p) PROVE TypedPlugin'
  BY <1>5 DEF ConnectBroke
<1>6. ASSUME NEW p \in Peer, ConnectionLost(p) PROVE TypedPlugin'
  BY <1>6 DEF ConnectionLost
<1>7. ASSUME NEW p \in Peer, PacketArrives(p) PROVE TypedPlugin'
  <2>1. sent[p] + 1 \in Nat /\ sent[p] + 1 <= MaxPackets[p]
    <3>1. sent[p] \in Nat /\ MaxPackets[p] \in Nat
      BY HubAssumption
    <3>2. sent[p] < MaxPackets[p]
      BY <1>7 DEF PacketArrives
    <3> HIDE DEF TypedPlugin
    <3> QED BY <3>1, <3>2
  <2> QED BY <1>7, <2>1 DEF PacketArrives
<1>8. CASE UNCHANGED native
  BY <1>8 DEF native
<1>9. ASSUME \/ \E t \in Transport : Open(t) \/ Close(t)
             \/ Handle
             \/ \E p \in Peer : Age(p)
             \/ UNCHANGED vars
      PROVE  UNCHANGED native
  BY <1>9 DEF Open, Close, Handle, Connected, ConnectFailed, Disconnected, PacketReceived, Age, vars
<1> QED
  BY <1>1, <1>2, <1>4, <1>5, <1>6, <1>7, <1>8, <1>9 DEF Next, Handle

(* A buffer never outgrows its bound: the oldest packet makes room.          *)
LEMMA BufferBounded == Typed /\ Bounded /\ [Next]_vars => Bounded'
<1> SUFFICES ASSUME Typed, Bounded, [Next]_vars PROVE Bounded'
  OBVIOUS
<1> USE DEF Typed, TypedHub, Bounded
<1>1. ASSUME NEW t \in Transport, Open(t) PROVE Bounded'
  BY <1>1, HubAssumption DEF Open
<1>2. CASE Disconnected
  BY <1>2, HeadEvent, HubAssumption DEF Disconnected, NextIs
<1>3. CASE PacketReceived
  <2> DEFINE p == Head(events).peer
             packet == Head(events).packet
             fresh == [q \in Peer |-> IF q \in aged THEN <<>> ELSE buffers[q]]
  <2>1. p \in Peer /\ packet \in PacketName
    BY <1>3, HeadEvent DEF PacketReceived, NextIs
  <2>2. CASE transports[p] # None
    BY <1>3, <2>2 DEF PacketReceived
  <2>3. CASE transports[p] = None
    <3>1. \A q \in Peer : fresh[q] \in Seq(PacketName) /\ Len(fresh[q]) <= MAX_BUFFERED_PACKETS
      BY HubAssumption
    <3>2. buffers' = [fresh EXCEPT ![p] = Hold(fresh[p], packet)]
      BY <1>3, <2>1, <2>3 DEF PacketReceived
    <3>3. Len(Hold(fresh[p], packet)) <= MAX_BUFFERED_PACKETS
      <4>1. CASE Len(fresh[p]) >= MAX_BUFFERED_PACKETS
        <5>1. fresh[p] # <<>> /\ Len(fresh[p]) = MAX_BUFFERED_PACKETS
          BY <2>1, <3>1, <4>1, HubAssumption
        <5>2. Tail(fresh[p]) \in Seq(PacketName) /\ Len(Tail(fresh[p])) = MAX_BUFFERED_PACKETS - 1
          BY <2>1, <3>1, <5>1, Queue
        <5> QED BY <2>1, <4>1, <5>2, Queued, HubAssumption DEF Hold
      <4>2. CASE ~(Len(fresh[p]) >= MAX_BUFFERED_PACKETS)
        BY <2>1, <3>1, <4>2, Queued, HubAssumption DEF Hold
      <4> QED BY <4>1, <4>2
    <3>4. ASSUME NEW q \in Peer PROVE Len(buffers'[q]) <= MAX_BUFFERED_PACKETS
      BY <2>1, <3>1, <3>2, <3>3
    <3> QED BY <3>4
  <2> QED BY <2>2, <2>3
<1>4. CASE UNCHANGED buffers
  BY <1>4
<1> QED
  BY <1>1, <1>2, <1>3, <1>4
  DEF Next, Close, Connected, ConnectFailed, Age, NativeConnect, NativeDisconnect, ConnectDone,
      ConnectBroke, ConnectedToUs, ConnectionLost, PacketArrives, vars, javascript

LEMMA TypedStep == Typed /\ Bounded /\ [Next]_vars => Typed' /\ Bounded'
  BY HubStaysTyped, QueuesStayTyped, PluginStaysTyped, BufferBounded DEF Typed

LEMMA TypedAlways == Spec => [](Typed /\ Bounded)
  BY TypedInit, TypedStep, PTL DEF Spec

(* Every variable keeps its type, and a buffer its bound, whatever the pace  *)
(* (hub.ts: MAX_BUFFERED_PACKETS).                                           *)
THEOREM TypeCorrect == Spec => []TypeOK
<1>1. Typed /\ Bounded => TypeOK
  BY HubAssumption DEF Typed, TypedHub, TypedPlugin, Bounded, TypeOK
<1> QED BY <1>1, TypedAlways, PTL

----------------------------------------------------------------------------
(* Packets on their way, about one peer.  A mark is an event that is either *)
(* a packet of the peer or the end of its connection; what lies between two *)
(* marks of a peer does not concern its packets.                            *)

Mark(q, p, i) == q[i].peer = p /\ q[i].kind \in {"packet", "disconnected"}

PacketAt(q, p, i) == q[i].peer = p /\ q[i].kind = "packet"

Clear(q, p, i, j) == \A k \in i + 1 .. j - 1 : ~Mark(q, p, k)

Follows(a, b) == b = [a EXCEPT !.number = @ + 1]

Unbroken(s) == \A i \in 2 .. Len(s) : Follows(s[i - 1], s[i])

(* Packets with no mark between them are neighbours in their connection.    *)
Chained(q, p) ==
  \A i, j \in 1 .. Len(q) :
     (i < j /\ PacketAt(q, p, i) /\ PacketAt(q, p, j) /\ Clear(q, p, i, j)) =>
        Follows(q[i].packet, q[j].packet)

(* The first mark, if it is a packet, comes right after h.                  *)
Begins(q, p, h) ==
  \A j \in 1 .. Len(q) : (PacketAt(q, p, j) /\ Clear(q, p, 0, j)) => Follows(h, q[j].packet)

(* The last mark is the packet at i: the connection goes on from there.     *)
Unended(q, p, i) == PacketAt(q, p, i) /\ Clear(q, p, i, Len(q) + 1)

NoMark(q, p) == Clear(q, p, 0, Len(q) + 1)

(* The packets the hub has of a peer, in the transport or the buffer.       *)
Held(p) == IF transports[p] = None THEN buffers[p] ELSE delivered[transports[p]]

Latest(p) == [connection |-> count[p], number |-> sent[p]]

(* What the hub holds of a peer, h, what is on its way and what the plugin  *)
(* sends after its last packet, l, are one run of packets, cut only where a *)
(* connection ended.                                                        *)
Flow(q, p, h, ready, l) ==
  /\ Chained(q, p)
  /\ h # <<>> => Begins(q, p, h[Len(h)])
  /\ \A i \in 1 .. Len(q) : Unended(q, p, i) => ready /\ q[i].packet = l
  /\ (NoMark(q, p) /\ h # <<>>) => ready /\ h[Len(h)] = l

(* Why no link is handed a hole.                                            *)
Whole(p) ==
  /\ Unbroken(buffers[p])
  /\ transports[p] # None => buffers[p] = <<>> /\ peerOf[transports[p]] = p
  /\ Flow(events, p, Held(p), connection[p] = "ready", Latest(p))

Stream ==
  /\ \A t \in Transport : Unbroken(delivered[t])
  /\ \A p \in Peer : Whole(p)

(* Taking the head off the queue.                                           *)
LEMMA Pop ==
  ASSUME NEW q \in Seq(Event), q # <<>>, NEW p \in Peer
  PROVE  /\ Chained(q, p) => Chained(Tail(q), p)
         /\ (Chained(q, p) /\ PacketAt(q, p, 1)) => Begins(Tail(q), p, q[1].packet)
         /\ \A h : (Begins(q, p, h) /\ ~Mark(q, p, 1)) => Begins(Tail(q), p, h)
         /\ \A h : (Begins(q, p, h) /\ PacketAt(q, p, 1)) => Follows(h, q[1].packet)
         /\ \A i \in 1 .. Len(Tail(q)) : Unended(Tail(q), p, i) =>
              i + 1 \in 1 .. Len(q) /\ Unended(q, p, i + 1) /\ Tail(q)[i] = q[i + 1]
         /\ (NoMark(Tail(q), p) /\ PacketAt(q, p, 1)) => Unended(q, p, 1)
         /\ (NoMark(Tail(q), p) /\ ~Mark(q, p, 1)) => NoMark(q, p)
<1> DEFINE r == Tail(q)
           n == Len(q)
<1>1. /\ n \in Nat \ {0} /\ Len(r) = n - 1
      /\ \A i \in 1 .. n - 1 : r[i] = q[i + 1]
  BY Queue
<1>2. \A i \in 1 .. n - 1 : /\ Mark(r, p, i) <=> Mark(q, p, i + 1)
                            /\ PacketAt(r, p, i) <=> PacketAt(q, p, i + 1)
  BY <1>1 DEF Mark, PacketAt
<1>3. ASSUME NEW i \in 0 .. n - 1, NEW j \in 0 .. n, Clear(r, p, i, j)
      PROVE  Clear(q, p, i + 1, j + 1)
  <2> SUFFICES ASSUME NEW k \in i + 2 .. j PROVE ~Mark(q, p, k)
    BY <1>1 DEF Clear
  <2>1. k - 1 \in i + 1 .. j - 1 /\ k - 1 \in 1 .. n - 1 /\ (k - 1) + 1 = k
    BY <1>1
  <2>2. ~Mark(r, p, k - 1)
    BY <1>3, <2>1 DEF Clear
  <2> QED BY <1>2, <2>1, <2>2
<1>4. ASSUME NEW j \in 0 .. n, Clear(q, p, 1, j), ~Mark(q, p, 1)
      PROVE  Clear(q, p, 0, j)
  BY <1>1, <1>4 DEF Clear
<1> HIDE DEF r, n
<1>5. Chained(q, p) => Chained(r, p)
  <2> SUFFICES ASSUME Chained(q, p), NEW i \in 1 .. Len(r), NEW j \in 1 .. Len(r),
                      i < j, PacketAt(r, p, i), PacketAt(r, p, j), Clear(r, p, i, j)
               PROVE  Follows(r[i].packet, r[j].packet)
    BY DEF Chained
  <2>1. /\ i \in 0 .. n - 1 /\ j \in 0 .. n /\ i \in 1 .. n - 1 /\ j \in 1 .. n - 1
        /\ i + 1 \in 1 .. n /\ j + 1 \in 1 .. n /\ i + 1 < j + 1
    BY <1>1
  <2>2. Clear(q, p, i + 1, j + 1)
    BY <1>3, <2>1
  <2>3. PacketAt(q, p, i + 1) /\ PacketAt(q, p, j + 1)
    BY <1>2, <2>1
  <2>4. Follows(q[i + 1].packet, q[j + 1].packet)
    BY <2>1, <2>2, <2>3 DEF Chained, n
  <2> QED BY <1>1, <2>1, <2>4
<1>6. (Chained(q, p) /\ PacketAt(q, p, 1)) => Begins(r, p, q[1].packet)
  <2> SUFFICES ASSUME Chained(q, p), PacketAt(q, p, 1), NEW j \in 1 .. Len(r),
                      PacketAt(r, p, j), Clear(r, p, 0, j)
               PROVE  Follows(q[1].packet, r[j].packet)
    BY DEF Begins
  <2>1. j \in 0 .. n /\ j \in 1 .. n - 1 /\ j + 1 \in 1 .. n /\ 1 < j + 1 /\ 0 \in 0 .. n - 1
        /\ 1 \in 1 .. n /\ 0 + 1 = 1
    BY <1>1
  <2>2. Clear(q, p, 1, j + 1)
    BY <1>3, <2>1
  <2>3. PacketAt(q, p, j + 1) /\ r[j] = q[j + 1]
    BY <1>1, <1>2, <2>1
  <2> QED BY <2>1, <2>2, <2>3 DEF Chained, n
<1>7. ASSUME NEW h, Begins(q, p, h), ~Mark(q, p, 1) PROVE Begins(r, p, h)
  <2> SUFFICES ASSUME NEW j \in 1 .. Len(r), PacketAt(r, p, j), Clear(r, p, 0, j)
               PROVE  Follows(h, r[j].packet)
    BY DEF Begins
  <2>1. j \in 0 .. n /\ j \in 1 .. n - 1 /\ j + 1 \in 1 .. n /\ 0 \in 0 .. n - 1
        /\ j + 1 \in 0 .. n /\ 0 + 1 = 1
    BY <1>1
  <2>2. Clear(q, p, 0, j + 1)
    BY <1>3, <1>4, <1>7, <2>1
  <2>3. PacketAt(q, p, j + 1) /\ r[j] = q[j + 1]
    BY <1>1, <1>2, <2>1
  <2> QED BY <1>7, <2>1, <2>2, <2>3 DEF Begins, n
<1>8. ASSUME NEW h, Begins(q, p, h), PacketAt(q, p, 1) PROVE Follows(h, q[1].packet)
  BY <1>1, <1>8 DEF Begins, Clear, n
<1>9. ASSUME NEW i \in 1 .. Len(r), Unended(r, p, i)
      PROVE  i + 1 \in 1 .. n /\ Unended(q, p, i + 1) /\ r[i] = q[i + 1]
  <2>1. i \in 0 .. n - 1 /\ i \in 1 .. n - 1 /\ i + 1 \in 1 .. n /\ n \in 0 .. n /\ Len(r) + 1 = n
    BY <1>1
  <2>2. Clear(q, p, i + 1, n + 1)
    BY <1>3, <1>9, <2>1 DEF Unended
  <2> QED BY <1>1, <1>2, <1>9, <2>1, <2>2 DEF Unended, n
<1>10. (NoMark(r, p) /\ PacketAt(q, p, 1)) => Unended(q, p, 1)
  BY <1>1, <1>3 DEF NoMark, Unended, n
<1>11. (NoMark(r, p) /\ ~Mark(q, p, 1)) => NoMark(q, p)
  <2> SUFFICES ASSUME NoMark(r, p), ~Mark(q, p, 1) PROVE NoMark(q, p)
    OBVIOUS
  <2>1. Clear(r, p, 0, n) /\ 0 \in 0 .. n - 1 /\ n \in 0 .. n /\ 0 + 1 = 1
    BY <1>1 DEF NoMark
  <2>2. Clear(q, p, 1, n + 1)
    BY <1>3, <2>1
  <2>3. Clear(q, p, 0, n + 1)
    BY <1>1, <2>2 DEF Clear
  <2> QED BY <2>3 DEF NoMark, n
<1> QED
  BY <1>5, <1>6, <1>7, <1>8, <1>9, <1>10, <1>11 DEF r, n

(* Adding an event at the end.                                              *)
LEMMA Push ==
  ASSUME NEW q \in Seq(Event), NEW e \in Event, NEW p \in Peer
  PROVE  LET a == Append(q, e)
             n == Len(q)
         IN  /\ (Chained(q, p) /\ ~PacketAt(a, p, n + 1)) => Chained(a, p)
             /\ (/\ Chained(q, p)
                 /\ \A i \in 1 .. n : Unended(q, p, i) => Follows(q[i].packet, e.packet)) =>
                   Chained(a, p)
             /\ \A h : (Begins(q, p, h) /\ ~PacketAt(a, p, n + 1)) => Begins(a, p, h)
             /\ \A h : (Begins(q, p, h) /\ (NoMark(q, p) => Follows(h, e.packet))) =>
                   Begins(a, p, h)
             /\ \A i \in 1 .. n + 1 : Unended(a, p, i) =>
                   \/ i = n + 1 /\ PacketAt(a, p, n + 1)
                   \/ i \in 1 .. n /\ Unended(q, p, i) /\ a[i] = q[i] /\ ~Mark(a, p, n + 1)
             /\ NoMark(a, p) => NoMark(q, p) /\ ~Mark(a, p, n + 1)
             /\ Len(a) = n + 1 /\ a[n + 1] = e
<1> DEFINE a == Append(q, e)
           n == Len(q)
<1>1. /\ n \in Nat /\ Len(a) = n + 1 /\ a[n + 1] = e
      /\ \A i \in 1 .. n : a[i] = q[i]
  BY Queued
<1>2. \A i \in 1 .. n : /\ Mark(a, p, i) <=> Mark(q, p, i)
                        /\ PacketAt(a, p, i) <=> PacketAt(q, p, i)
  BY <1>1 DEF Mark, PacketAt
<1> HIDE DEF a, n
<1>3. ASSUME NEW i \in 0 .. n, NEW j \in 0 .. n + 1 PROVE Clear(a, p, i, j) <=> Clear(q, p, i, j)
  BY <1>1, <1>2 DEF Clear
<1>4. ASSUME Chained(q, p),
             \/ ~PacketAt(a, p, n + 1)
             \/ \A i \in 1 .. n : Unended(q, p, i) => Follows(q[i].packet, e.packet)
      PROVE  Chained(a, p)
  <2> SUFFICES ASSUME NEW i \in 1 .. Len(a), NEW j \in 1 .. Len(a),
                      i < j, PacketAt(a, p, i), PacketAt(a, p, j), Clear(a, p, i, j)
               PROVE  Follows(a[i].packet, a[j].packet)
    BY DEF Chained
  <2>1. i \in 1 .. n /\ i \in 0 .. n /\ j \in 0 .. n + 1
    BY <1>1
  <2>2. PacketAt(q, p, i) /\ Clear(q, p, i, j) /\ a[i] = q[i]
    BY <1>1, <1>2, <1>3, <2>1
  <2>3. CASE j = n + 1
    BY <1>1, <1>4, <2>1, <2>2, <2>3 DEF Unended, n
  <2>4. CASE j \in 1 .. n
    BY <1>1, <1>2, <1>4, <2>1, <2>2, <2>4 DEF Chained, n
  <2> QED BY <1>1, <2>3, <2>4
<1>5. ASSUME NEW h, Begins(q, p, h),
             ~PacketAt(a, p, n + 1) \/ (NoMark(q, p) => Follows(h, e.packet))
      PROVE  Begins(a, p, h)
  <2> SUFFICES ASSUME NEW j \in 1 .. Len(a), PacketAt(a, p, j), Clear(a, p, 0, j)
               PROVE  Follows(h, a[j].packet)
    BY DEF Begins
  <2>1. Clear(q, p, 0, j)
    BY <1>1, <1>3
  <2>2. CASE j = n + 1
    BY <1>1, <1>5, <2>1, <2>2 DEF NoMark, n
  <2>3. CASE j \in 1 .. n
    BY <1>1, <1>2, <1>5, <2>1, <2>3 DEF Begins, n
  <2> QED BY <1>1, <2>2, <2>3
<1>6. ASSUME NEW i \in 1 .. n + 1, Unended(a, p, i)
      PROVE  \/ i = n + 1 /\ PacketAt(a, p, n + 1)
             \/ i \in 1 .. n /\ Unended(q, p, i) /\ a[i] = q[i] /\ ~Mark(a, p, n + 1)
  <2>1. PacketAt(a, p, i) /\ Clear(a, p, i, n + 2)
    BY <1>1, <1>6 DEF Unended
  <2>2. CASE i = n + 1
    BY <2>1, <2>2
  <2>3. CASE i \in 1 .. n
    <3>1. ~Mark(a, p, n + 1) /\ Clear(a, p, i, n + 1)
      BY <1>1, <2>1, <2>3 DEF Clear
    <3> QED BY <1>1, <1>2, <1>3, <2>1, <2>3, <3>1 DEF Unended, n
  <2> QED BY <1>1, <2>2, <2>3
<1>7. ASSUME NoMark(a, p) PROVE NoMark(q, p) /\ ~Mark(a, p, n + 1)
  <2>1. Clear(a, p, 0, n + 2)
    BY <1>1, <1>7 DEF NoMark
  <2>2. ~Mark(a, p, n + 1) /\ Clear(a, p, 0, n + 1)
    BY <1>1, <2>1 DEF Clear
  <2> QED BY <1>1, <1>3, <2>2 DEF NoMark, n
<1> QED
  BY <1>1, <1>4, <1>5, <1>6, <1>7 DEF a, n

(* A handler takes an event that says nothing of the packets of p, ...      *)
LEMMA PopOther ==
  ASSUME NEW q \in Seq(Event), q # <<>>, NEW p \in Peer, NEW h, NEW r, NEW l,
         ~Mark(q, p, 1), Flow(q, p, h, r, l)
  PROVE  Flow(Tail(q), p, h, r, l)
BY Pop DEF Flow

(* ... or the next packet, which ends what is held from then on, ...        *)
LEMMA PopPacket ==
  ASSUME NEW q \in Seq(Event), q # <<>>, NEW p \in Peer, NEW h, NEW r, NEW l,
         PacketAt(q, p, 1), Flow(q, p, h, r, l),
         NEW g, g # <<>>, g[Len(g)] = q[1].packet
  PROVE  Flow(Tail(q), p, g, r, l)
<1>1. Chained(Tail(q), p) /\ Begins(Tail(q), p, g[Len(g)])
  BY Pop DEF Flow
<1>2. \A i \in 1 .. Len(Tail(q)) : Unended(Tail(q), p, i) => r /\ Tail(q)[i].packet = l
  BY Pop DEF Flow
<1>3. NoMark(Tail(q), p) => r /\ g[Len(g)] = l
  <2>1. 1 \in 1 .. Len(q)
    BY Queue
  <2> QED BY Pop, <2>1 DEF Flow
<1> QED BY <1>1, <1>2, <1>3 DEF Flow

(* ... or the end of the connection, after which nothing is held.           *)
LEMMA PopEnd ==
  ASSUME NEW q \in Seq(Event), q # <<>>, NEW p \in Peer, NEW h, NEW r, NEW l,
         Flow(q, p, h, r, l)
  PROVE  Flow(Tail(q), p, <<>>, r, l)
BY Pop DEF Flow

LEMMA HeldForgotten ==
  ASSUME NEW q, NEW p, NEW h, NEW r, NEW l, Flow(q, p, h, r, l)
  PROVE  Flow(q, p, <<>>, r, l)
BY DEF Flow

(* The plugin emits an event that says nothing of the packets of p, ...     *)
LEMMA PushOther ==
  ASSUME NEW q \in Seq(Event), NEW e \in Event, NEW p \in Peer, NEW h, NEW r, NEW l,
         ~(e.peer = p /\ e.kind \in {"packet", "disconnected"}), Flow(q, p, h, r, l)
  PROVE  Flow(Append(q, e), p, h, r, l)
<1> DEFINE a == Append(q, e)
           n == Len(q)
<1>1. Len(a) = n + 1 /\ a[n + 1] = e
  BY Push
<1>2. ~PacketAt(a, p, n + 1)
  BY <1>1 DEF PacketAt
<1>3. Chained(a, p) /\ (h # <<>> => Begins(a, p, h[Len(h)]))
  BY <1>2, Push DEF Flow
<1>4. \A i \in 1 .. Len(a) : Unended(a, p, i) => r /\ a[i].packet = l
  BY <1>1, <1>2, Push DEF Flow
<1>5. NoMark(a, p) => NoMark(q, p)
  BY Push
<1> HIDE DEF a
<1> QED BY <1>3, <1>4, <1>5 DEF Flow, a

(* ... or the next packet of p, ...                                         *)
LEMMA PushPacket ==
  ASSUME NEW q \in Seq(Event), NEW e \in Event, NEW p \in Peer, NEW h, NEW r, NEW l,
         e.peer = p, e.kind = "packet", Follows(l, e.packet), Flow(q, p, h, r, l)
  PROVE  Flow(Append(q, e), p, h, TRUE, e.packet)
<1> DEFINE a == Append(q, e)
           n == Len(q)
<1>1. Len(a) = n + 1 /\ a[n + 1] = e
  BY Push
<1>2. Mark(a, p, n + 1)
  BY <1>1 DEF Mark
<1>3. Chained(a, p)
  BY Push DEF Flow
<1>4. h # <<>> => Begins(a, p, h[Len(h)])
  BY Push DEF Flow
<1>5. \A i \in 1 .. Len(a) : Unended(a, p, i) => a[i].packet = e.packet
  BY <1>1, <1>2, Push
<1>6. ~NoMark(a, p)
  BY <1>2, Push
<1> HIDE DEF a
<1> QED BY <1>3, <1>4, <1>5, <1>6 DEF Flow, a

(* ... or the end of its connection: what comes next is free.               *)
LEMMA PushEnd ==
  ASSUME NEW q \in Seq(Event), NEW e \in Event, NEW p \in Peer, NEW h, NEW r, NEW l,
         e.peer = p, e.kind = "disconnected", Flow(q, p, h, r, l), NEW s, NEW m
  PROVE  Flow(Append(q, e), p, h, s, m)
<1> DEFINE a == Append(q, e)
           n == Len(q)
<1>1. Len(a) = n + 1 /\ a[n + 1] = e
  BY Push
<1>2. Mark(a, p, n + 1) /\ ~PacketAt(a, p, n + 1)
  BY <1>1 DEF Mark, PacketAt
<1>3. Chained(a, p) /\ (h # <<>> => Begins(a, p, h[Len(h)]))
  BY <1>2, Push DEF Flow
<1>4. \A i \in 1 .. Len(a) : ~Unended(a, p, i)
  BY <1>1, <1>2, Push
<1>5. ~NoMark(a, p)
  BY <1>2, Push
<1> HIDE DEF a
<1> QED BY <1>3, <1>4, <1>5 DEF Flow, a

(* A new connection goes on from nothing: the one before it has ended.      *)
LEMMA Restart ==
  ASSUME NEW q, NEW p, NEW h, NEW l, Flow(q, p, h, FALSE, l), NEW r, NEW m
  PROVE  Flow(q, p, h, r, m)
BY DEF Flow

LEMMA UnbrokenAppend ==
  ASSUME NEW s \in Seq(PacketName), NEW e \in PacketName, Unbroken(s),
         s # <<>> => Follows(s[Len(s)], e)
  PROVE  Unbroken(Append(s, e)) /\ Append(s, e) # <<>> /\ Append(s, e)[Len(Append(s, e))] = e
<1>1. /\ Len(s) \in Nat /\ Len(Append(s, e)) = Len(s) + 1 /\ Append(s, e)[Len(s) + 1] = e
      /\ \A i \in 1 .. Len(s) : Append(s, e)[i] = s[i]
  BY Queued
<1>2. Append(s, e) # <<>>
  BY <1>1
<1>3. ASSUME NEW i \in 2 .. Len(Append(s, e))
      PROVE  Follows(Append(s, e)[i - 1], Append(s, e)[i])
  <2>1. i - 1 \in 1 .. Len(s) /\ Append(s, e)[i - 1] = s[i - 1]
    BY <1>1
  <2>2. CASE i = Len(s) + 1
    BY <1>1, <2>1, <2>2
  <2>3. CASE i \in 2 .. Len(s)
    <3>1. Append(s, e)[i] = s[i]
      BY <1>1, <2>3
    <3> QED BY <2>1, <2>3, <3>1 DEF Unbroken
  <2> QED BY <1>1, <2>2, <2>3
<1> QED BY <1>1, <1>2, <1>3 DEF Unbroken

LEMMA UnbrokenTail ==
  ASSUME NEW s \in Seq(PacketName), Unbroken(s), s # <<>>
  PROVE  /\ Tail(s) \in Seq(PacketName) /\ Unbroken(Tail(s))
         /\ Tail(s) # <<>> => Tail(s)[Len(Tail(s))] = s[Len(s)]
<1>1. /\ Len(s) \in Nat \ {0} /\ Tail(s) \in Seq(PacketName) /\ Len(Tail(s)) = Len(s) - 1
      /\ \A i \in 1 .. Len(s) - 1 : Tail(s)[i] = s[i + 1]
  BY Queue
<1>2. ASSUME NEW i \in 2 .. Len(Tail(s)) PROVE Follows(Tail(s)[i - 1], Tail(s)[i])
  <2>1. i + 1 \in 2 .. Len(s) /\ i \in 1 .. Len(s) - 1 /\ i - 1 \in 1 .. Len(s) - 1
        /\ (i - 1) + 1 = i /\ (i + 1) - 1 = i
    BY <1>1
  <2>2. Follows(s[(i + 1) - 1], s[i + 1])
    BY <1>1, <2>1 DEF Unbroken
  <2> QED BY <1>1, <2>1, <2>2
<1>3. Tail(s) # <<>> => Tail(s)[Len(Tail(s))] = s[Len(s)]
  <2> SUFFICES ASSUME Tail(s) # <<>> PROVE Tail(s)[Len(Tail(s))] = s[Len(s)]
    OBVIOUS
  <2>1. Len(Tail(s)) # 0
    BY <1>1
  <2>2. Len(s) - 1 \in 1 .. Len(s) - 1
    BY <1>1, <2>1
  <2> QED BY <1>1, <2>2
<1> QED BY <1>1, <1>2, <1>3 DEF Unbroken

(* A buffer takes a packet that comes right after its last one.             *)
LEMMA HoldUnbroken ==
  ASSUME NEW s \in Seq(PacketName), NEW e \in PacketName, Unbroken(s),
         s # <<>> => Follows(s[Len(s)], e)
  PROVE  Unbroken(Hold(s, e)) /\ Hold(s, e) # <<>> /\ Hold(s, e)[Len(Hold(s, e))] = e
<1>1. CASE Len(s) >= MAX_BUFFERED_PACKETS
  <2>1. s # <<>>
    BY <1>1, HubAssumption
  <2>2. Tail(s) \in Seq(PacketName) /\ Unbroken(Tail(s))
        /\ (Tail(s) # <<>> => Follows(Tail(s)[Len(Tail(s))], e))
    BY <2>1, UnbrokenTail
  <2>3. Hold(s, e) = Append(Tail(s), e)
    BY <1>1 DEF Hold
  <2> QED BY <2>2, <2>3, UnbrokenAppend
<1>2. CASE ~(Len(s) >= MAX_BUFFERED_PACKETS)
  <2>1. Hold(s, e) = Append(s, e)
    BY <1>2 DEF Hold
  <2> QED BY <2>1, UnbrokenAppend
<1> QED BY <1>1, <1>2

LEMMA StreamInit == Init => Stream
<1> SUFFICES ASSUME Init PROVE Stream
  OBVIOUS
<1>1. \A t \in Transport : Unbroken(delivered[t])
  BY DEF Init, Unbroken
<1>2. ASSUME NEW p \in Peer PROVE Whole(p)
  <2>1. Held(p) = <<>> /\ events = <<>> /\ buffers[p] = <<>> /\ transports[p] = None
    BY DEF Init, Held
  <2>2. Unbroken(buffers[p])
    BY <2>1 DEF Unbroken
  <2>3. Flow(events, p, Held(p), connection[p] = "ready", Latest(p))
    BY <2>1 DEF Flow, Chained
  <2> QED BY <2>1, <2>2, <2>3 DEF Whole
<1> QED BY <1>1, <1>2 DEF Stream

(* The steps of JavaScript.                                                 *)
LEMMA StreamOpen ==
  ASSUME Typed, Stream, NEW t \in Transport, Open(t)
  PROVE  Stream'
<1> DEFINE p == peerOf[t]
<1>0. t # None
  BY HubAssumption DEF Transport, None
<1>1. /\ p \in Peer /\ transports[p] = None /\ t # None
      /\ transports' = [transports EXCEPT ![p] = t]
      /\ delivered' = [delivered EXCEPT ![t] = buffers[p]]
      /\ buffers' = [buffers EXCEPT ![p] = <<>>]
      /\ UNCHANGED <<peerOf, events, connection, count, sent>>
  BY <1>0 DEF Open, MayOpen, native, Typed, TypedHub
<1>2. \A s \in Transport : Unbroken(delivered'[s])
  BY <1>1 DEF Stream, Whole, Typed, TypedHub
<1>3. ASSUME NEW q \in Peer PROVE Whole(q)'
  <2>1. Whole(q)
    BY DEF Stream
  <2>2. Held(q)' = Held(q) /\ Latest(q)' = Latest(q)
    BY <1>1, <2>1 DEF Held, Latest, Whole, Typed, TypedHub
  <2>3. Unbroken(buffers'[q])
    BY <1>1, <2>1 DEF Whole, Unbroken, Typed, TypedHub
  <2>4. transports'[q] # None => buffers'[q] = <<>> /\ peerOf'[transports'[q]] = q
    BY <1>1, <2>1 DEF Whole, Typed, TypedHub
  <2> QED BY <1>1, <2>1, <2>2, <2>3, <2>4 DEF Whole
<1> QED BY <1>2, <1>3 DEF Stream

(* The peer's transport, if it has one, leaves the hub's map; its buffer is *)
(* empty or stays.                                                          *)
LEMMA StreamLeave ==
  ASSUME Typed, Stream, NEW p \in Peer, transports' = [transports EXCEPT ![p] = None],
         UNCHANGED <<buffers, delivered, peerOf, connection, count, sent>>,
         UNCHANGED events \/ (events # <<>> /\ events' = Tail(events) /\ \A q \in Peer : ~Mark(events, q, 1))
  PROVE  Stream'
<1>1. ASSUME NEW q \in Peer PROVE Whole(q)'
  <2>1. Whole(q)
    BY DEF Stream
  <2>2. Latest(q)' = Latest(q) /\ connection'[q] = connection[q]
    BY DEF Latest
  <2>3. Held(q)' = Held(q) \/ Held(q)' = <<>>
    BY <2>1 DEF Held, Whole, Typed, TypedHub
  <2>4. Flow(events, q, Held(q)', connection[q] = "ready", Latest(q))
    BY <2>1, <2>3, HeldForgotten DEF Whole
  <2>5. Flow(events', q, Held(q)', connection[q] = "ready", Latest(q))
    BY <2>4, PopOther DEF Typed, TypedQueues
  <2> QED BY <2>1, <2>2, <2>5 DEF Whole, Typed, TypedHub
<1> QED BY <1>1 DEF Stream

LEMMA StreamSame ==
  ASSUME Typed, Stream, UNCHANGED <<transports, buffers, delivered, peerOf, connection, count, sent>>,
         UNCHANGED events \/ (events # <<>> /\ events' = Tail(events) /\ \A q \in Peer : ~Mark(events, q, 1))
  PROVE  Stream'
<1>1. ASSUME NEW q \in Peer PROVE Whole(q)'
  <2>1. Whole(q)
    BY DEF Stream
  <2>2. Latest(q)' = Latest(q) /\ Held(q)' = Held(q)
    BY DEF Latest, Held
  <2>3. Flow(events', q, Held(q), connection[q] = "ready", Latest(q))
    BY <2>1, PopOther DEF Typed, TypedQueues, Whole
  <2> QED BY <2>1, <2>2, <2>3 DEF Whole
<1> QED BY <1>1 DEF Stream

LEMMA StreamDisconnected ==
  ASSUME Typed, Stream, Disconnected
  PROVE  Stream'
<1> DEFINE p == Head(events).peer
<1>1. /\ p \in Peer /\ events # <<>> /\ Head(events) = events[1] /\ events[1].kind = "disconnected"
      /\ transports' = [transports EXCEPT ![p] = None]
      /\ buffers' = [buffers EXCEPT ![p] = <<>>]
      /\ events' = Tail(events) /\ events \in Seq(Event)
      /\ UNCHANGED <<peerOf, delivered, connection, count, sent>>
  BY HeadEvent DEF Disconnected, NextIs, native, Typed, TypedQueues
<1>2. ASSUME NEW q \in Peer PROVE Whole(q)'
  <2>1. Whole(q) /\ Latest(q)' = Latest(q)
    BY <1>1 DEF Stream, Latest
  <2>2. CASE q = p
    <3>1. Held(q)' = <<>> /\ buffers'[q] = <<>> /\ transports'[q] = None
      BY <1>1, <2>2 DEF Held, Typed, TypedHub
    <3>2. Flow(events', q, <<>>, connection[q] = "ready", Latest(q))
      BY <1>1, <2>1, PopEnd DEF Whole
    <3>3. Unbroken(buffers'[q])
      BY <3>1 DEF Unbroken
    <3> QED BY <1>1, <2>1, <3>1, <3>2, <3>3 DEF Whole
  <2>3. CASE q # p
    <3>1. Held(q)' = Held(q) /\ buffers'[q] = buffers[q] /\ transports'[q] = transports[q]
      BY <1>1, <2>3 DEF Held, Typed, TypedHub
    <3>2. ~Mark(events, q, 1)
      BY <1>1, <2>3 DEF Mark
    <3>3. Flow(events', q, Held(q), connection[q] = "ready", Latest(q))
      BY <1>1, <2>1, <3>2, PopOther DEF Whole
    <3> QED BY <1>1, <2>1, <3>1, <3>3 DEF Whole
  <2> QED BY <2>2, <2>3
<1> QED BY <1>1, <1>2 DEF Stream

LEMMA StreamPacket ==
  ASSUME Typed, Stream, PacketReceived
  PROVE  Stream'
<1>0. Head(events).peer \in Peer /\ Head(events).packet \in PacketName
  BY HeadEvent DEF PacketReceived, NextIs
<1> PICK p \in Peer : p = Head(events).peer
  BY <1>0
<1> PICK packet \in PacketName : packet = Head(events).packet
  BY <1>0
<1> DEFINE t == transports[p]
           fresh == [q \in Peer |-> IF q \in aged THEN <<>> ELSE buffers[q]]
<1>1. /\ PacketAt(events, p, 1)
      /\ events # <<>> /\ packet = events[1].packet
      /\ events' = Tail(events) /\ events \in Seq(Event)
      /\ UNCHANGED <<transports, peerOf, connection, count, sent>>
  BY HeadEvent DEF PacketReceived, NextIs, native, Typed, TypedQueues, PacketAt
<1>2. Whole(p)
  BY <1>1 DEF Stream
<1>3. Held(p) # <<>> => Follows(Held(p)[Len(Held(p))], packet)
  BY <1>1, <1>2, Pop DEF Whole, Flow
<1>4. ASSUME Unbroken(Held(p)'), Held(p)' # <<>>, Held(p)'[Len(Held(p)')] = packet,
             transports[p] # None => buffers'[p] = buffers[p],
             transports[p] = None => Held(p)' = buffers'[p]
      PROVE  Whole(p)'
  <2>1. Flow(events', p, Held(p)', connection[p] = "ready", Latest(p))
    BY <1>1, <1>2, <1>4, PopPacket DEF Whole
  <2>2. Unbroken(buffers'[p])
    BY <1>2, <1>4 DEF Whole
  <2>3. Latest(p)' = Latest(p)
    BY <1>1 DEF Latest
  <2> QED BY <1>1, <1>2, <1>4, <2>1, <2>2, <2>3 DEF Whole
<1>5. ASSUME NEW q \in Peer, q # p,
             (Held(q)' = Held(q) /\ buffers'[q] = buffers[q])
               \/ (transports[q] = None /\ Held(q)' = <<>> /\ buffers'[q] = <<>>)
               \/ (transports[q] # None /\ Held(q)' = Held(q) /\ buffers'[q] = <<>>)
      PROVE  Whole(q)'
  <2>1. Whole(q) /\ Latest(q)' = Latest(q)
    BY <1>1 DEF Stream, Latest
  <2>2. ~Mark(events, q, 1)
    BY <1>1, <1>5 DEF PacketAt, Mark
  <2>3. Flow(events, q, Held(q)', connection[q] = "ready", Latest(q))
    BY <1>5, <2>1, HeldForgotten DEF Whole
  <2>4. Flow(events', q, Held(q)', connection[q] = "ready", Latest(q))
    BY <1>1, <2>2, <2>3, PopOther
  <2>5. Unbroken(buffers'[q])
    BY <1>5, <2>1 DEF Whole, Unbroken
  <2> QED BY <1>1, <1>5, <2>1, <2>4, <2>5 DEF Whole
<1>6. CASE t # None
  <2>1. /\ t \in Transport /\ delivered' = [delivered EXCEPT ![t] = Append(@, packet)]
        /\ UNCHANGED buffers
    BY <1>1, <1>6 DEF PacketReceived, Typed, TypedHub
  <2>2. Held(p) = delivered[t] /\ delivered[t] \in Seq(PacketName) /\ Unbroken(delivered[t])
    BY <1>6, <2>1 DEF Held, Typed, TypedHub, Stream
  <2>3. /\ Unbroken(Append(delivered[t], packet)) /\ Append(delivered[t], packet) # <<>>
        /\ Append(delivered[t], packet)[Len(Append(delivered[t], packet))] = packet
    BY <1>1, <1>3, <2>2, UnbrokenAppend
  <2>4. Held(p)' = Append(delivered[t], packet)
    BY <1>1, <1>6, <2>1 DEF Held, Typed, TypedHub
  <2>5. Whole(p)'
    BY <1>4, <1>6, <2>1, <2>3, <2>4
  <2>6. ASSUME NEW q \in Peer, q # p PROVE Whole(q)'
    <3>1. Whole(q)
      BY DEF Stream
    <3>2. transports[q] # None => transports[q] # t
      BY <1>2, <1>6, <2>6, <3>1 DEF Whole
    <3>3. Held(q)' = Held(q)
      BY <1>1, <2>1, <3>2 DEF Held, Typed, TypedHub
    <3> QED BY <1>5, <2>1, <2>6, <3>3
  <2>7. \A s \in Transport : Unbroken(delivered'[s])
    BY <2>1, <2>3 DEF Stream, Typed, TypedHub
  <2> QED BY <2>5, <2>6, <2>7 DEF Stream
<1>7. CASE t = None
  <2>1. fresh \in [Peer -> Seq(PacketName)]
    BY DEF Typed, TypedHub
  <2>2. /\ UNCHANGED delivered
        /\ buffers' = [fresh EXCEPT ![p] = Hold(fresh[p], packet)]
    BY <1>1, <1>7, <2>1 DEF PacketReceived
  <2>3. fresh[p] \in Seq(PacketName) /\ Unbroken(fresh[p])
    BY <1>1, <1>2, <2>1 DEF Whole, Unbroken
  <2>4. fresh[p] # <<>> => Follows(fresh[p][Len(fresh[p])], packet)
    BY <1>1, <1>3, <1>7 DEF Held
  <2>5. /\ Unbroken(Hold(fresh[p], packet)) /\ Hold(fresh[p], packet) # <<>>
        /\ Hold(fresh[p], packet)[Len(Hold(fresh[p], packet))] = packet
    BY <1>1, <2>3, <2>4, HoldUnbroken
  <2>6. Held(p)' = Hold(fresh[p], packet) /\ buffers'[p] = Hold(fresh[p], packet)
    BY <1>1, <1>7, <2>1, <2>2 DEF Held
  <2>7. Whole(p)'
    BY <1>4, <1>7, <2>5, <2>6
  <2>8. ASSUME NEW q \in Peer, q # p PROVE Whole(q)'
    <3>1. buffers'[q] = buffers[q] \/ buffers'[q] = <<>>
      BY <2>1, <2>2, <2>8
    <3>2. transports[q] # None => Held(q)' = Held(q)
      BY <1>1, <2>2 DEF Held
    <3>3. transports[q] = None => Held(q) = buffers[q] /\ Held(q)' = buffers'[q]
      BY <1>1 DEF Held
    <3> QED BY <1>5, <2>8, <3>1, <3>2, <3>3
  <2> QED BY <2>2, <2>7, <2>8 DEF Stream
<1> QED BY <1>6, <1>7

(* The steps of the plugin.  It may begin a connection, but goes on with    *)
(* the one it has, and it may answer a call.                                *)
LEMMA StreamAnswer ==
  ASSUME Typed, Stream, UNCHANGED javascript,
         \/ UNCHANGED events
         \/ \E e \in Event : e.kind \in {"connected", "refused"} /\ events' = Append(events, e),
         \A q \in Peer : connection[q] = "ready" =>
           connection'[q] = "ready" /\ count'[q] = count[q] /\ sent'[q] = sent[q]
  PROVE  Stream'
<1>1. ASSUME NEW q \in Peer PROVE Whole(q)'
  <2>1. Whole(q) /\ Held(q)' = Held(q)
    BY DEF Stream, Held, javascript
  <2>2. Flow(events', q, Held(q), connection[q] = "ready", Latest(q))
    BY <2>1, PushOther DEF Whole, Typed, TypedQueues
  <2>3. Flow(events', q, Held(q), connection'[q] = "ready", Latest(q)')
    <3>1. CASE connection[q] = "ready"
      BY <2>2, <3>1 DEF Latest
    <3>2. CASE connection[q] # "ready"
      <4>1. (connection[q] = "ready") = FALSE
        BY <3>2
      <4> QED BY <2>2, <4>1, Restart
    <3> QED BY <3>1, <3>2
  <2> QED BY <2>1, <2>3 DEF Whole, javascript
<1> QED BY <1>1 DEF Stream, javascript

(* It ends the connection to p, having answered connect() or not.           *)
LEMMA StreamEnd ==
  ASSUME Typed, Stream, UNCHANGED <<javascript, count, sent>>,
         NEW p \in Peer, connection' = [connection EXCEPT ![p] = "none"],
         NEW q0 \in Seq(Event),
         q0 = events \/ \E a \in Event : a.kind = "refused" /\ q0 = Append(events, a),
         NEW e \in Event, e.peer = p, e.kind = "disconnected", events' = Append(q0, e)
  PROVE  Stream'
<1>1. ASSUME NEW q \in Peer PROVE Whole(q)'
  <2>1. Whole(q) /\ Held(q)' = Held(q) /\ Latest(q)' = Latest(q)
    BY DEF Stream, Held, Latest, javascript
  <2>2. Flow(q0, q, Held(q), connection[q] = "ready", Latest(q))
    BY <2>1, PushOther DEF Whole, Typed, TypedQueues
  <2>3. CASE q = p
    <3>1. Flow(events', q, Held(q), connection'[q] = "ready", Latest(q))
      BY <2>2, <2>3, PushEnd
    <3> QED BY <2>1, <3>1 DEF Whole, javascript
  <2>4. CASE q # p
    <3>1. connection'[q] = connection[q]
      BY <2>4 DEF Typed, TypedPlugin
    <3>2. Flow(events', q, Held(q), connection[q] = "ready", Latest(q))
      BY <2>2, <2>4, PushOther
    <3> QED BY <2>1, <3>1, <3>2 DEF Whole, javascript
  <2> QED BY <2>3, <2>4
<1> QED BY <1>1 DEF Stream, javascript

LEMMA StreamArrives ==
  ASSUME Typed, Stream, NEW p \in Peer, PacketArrives(p)
  PROVE  Stream'
<1> DEFINE n == [connection |-> count[p], number |-> sent[p] + 1]
           e == [kind |-> "packet", peer |-> p, packet |-> n]
<1>1. sent[p] \in Nat /\ count[p] \in Nat
  BY HubAssumption DEF Typed, TypedPlugin
<1>2. n \in PacketName /\ e \in Event
  BY <1>1 DEF PacketName, Event
<1>3. /\ connection[p] = "ready" /\ sent' = [sent EXCEPT ![p] = sent[p] + 1]
      /\ events' = Append(events, e)
      /\ UNCHANGED <<javascript, connection, count>>
  BY <1>1 DEF PacketArrives
<1>4. ASSUME NEW q \in Peer PROVE Whole(q)'
  <2>1. Whole(q) /\ Held(q)' = Held(q)
    BY <1>3 DEF Stream, Held, javascript
  <2>2. CASE q = p
    <3>1. Follows(Latest(p), n) /\ Latest(p)' = n
      BY <1>1, <1>3 DEF Follows, Latest, Typed, TypedPlugin
    <3>2. Flow(events', q, Held(q), TRUE, n)
      BY <1>2, <1>3, <2>1, <2>2, <3>1, PushPacket DEF Whole, Typed, TypedQueues
    <3>3. (connection'[q] = "ready") = TRUE
      BY <1>3, <2>2
    <3>4. Flow(events', q, Held(q)', connection'[q] = "ready", Latest(q)')
      BY <2>1, <2>2, <3>1, <3>2, <3>3
    <3> QED BY <1>3, <2>1, <3>4 DEF Whole, javascript
  <2>3. CASE q # p
    <3>1. Latest(q)' = Latest(q)
      BY <1>3, <2>3 DEF Latest, Typed, TypedPlugin
    <3>2. Flow(events', q, Held(q), connection[q] = "ready", Latest(q))
      BY <1>2, <1>3, <2>1, <2>3, PushOther DEF Whole, Typed, TypedQueues
    <3> QED BY <1>3, <2>1, <3>1, <3>2 DEF Whole, javascript
  <2> QED BY <2>2, <2>3
<1> QED BY <1>3, <1>4 DEF Stream, javascript

LEMMA StreamStep == Typed /\ Stream /\ [Next]_vars => Stream'
<1> SUFFICES ASSUME Typed, Stream, [Next]_vars PROVE Stream'
  OBVIOUS
<1>1. ASSUME NEW t \in Transport, Open(t) PROVE Stream'
  BY <1>1, StreamOpen
<1>2. ASSUME NEW t \in Transport, Close(t) PROVE Stream'
  <2>1. CASE t \in closed
    BY <1>2, <2>1, StreamSame DEF Close, native
  <2>2. CASE t \notin closed
    <3>1. peerOf[t] \in Peer
      BY DEF Typed, TypedHub
    <3> QED BY <1>2, <2>2, <3>1, StreamLeave DEF Close, native
  <2> QED BY <2>1, <2>2
<1>3. CASE Connected
  <2>1. \A q \in Peer : ~Mark(events, q, 1)
    BY <1>3, HeadEvent DEF Connected, NextIs, Mark
  <2> QED BY <1>3, <2>1, StreamSame DEF Connected, NextIs, native
<1>4. CASE ConnectFailed
  <2>1. (\A q \in Peer : ~Mark(events, q, 1)) /\ Head(events).peer \in Peer
    BY <1>4, HeadEvent DEF ConnectFailed, NextIs, Mark
  <2> QED BY <1>4, <2>1, StreamLeave DEF ConnectFailed, NextIs, native
<1>5. CASE Disconnected
  BY <1>5, StreamDisconnected
<1>6. CASE PacketReceived
  BY <1>6, StreamPacket
<1>7. ASSUME NEW p \in Peer, Age(p) PROVE Stream'
  BY <1>7, StreamSame DEF Age, native
<1>8. CASE NativeConnect
  <2> DEFINE p == Head(calls).peer
             t == Head(calls).transport
  <2>1. p \in Peer /\ t \in Transport
    BY <1>8, HeadCall DEF NativeConnect, Call
  <2>2. /\ [kind |-> "connected", peer |-> p, transport |-> t] \in Event
        /\ [kind |-> "refused", peer |-> p, transport |-> t] \in Event
    BY <2>1 DEF Event
  <2>3. \/ UNCHANGED events
        \/ \E e \in Event : e.kind \in {"connected", "refused"} /\ events' = Append(events, e)
    BY <1>8, <2>2 DEF NativeConnect, Emit
  <2>4. \A q \in Peer : connection[q] = "ready" =>
          connection'[q] = "ready" /\ count'[q] = count[q] /\ sent'[q] = sent[q]
    BY <1>8, <2>1 DEF NativeConnect, native, Typed, TypedPlugin
  <2> QED BY <1>8, <2>3, <2>4, StreamAnswer DEF NativeConnect
<1>9. CASE NativeDisconnect
  <2> DEFINE p == Head(calls).peer
             refused == IF pending[p] # None THEN Emit("refused", p, pending[p]) ELSE events
             a == [kind |-> "refused", peer |-> p, transport |-> pending[p]]
             e == [kind |-> "disconnected", peer |-> p, transport |-> None]
  <2>1. p \in Peer /\ events \in Seq(Event)
    BY <1>9, HeadCall DEF NativeDisconnect, Call, Typed, TypedQueues
  <2>2. CASE connection[p] = "none"
    BY <1>9, <2>2, StreamAnswer DEF NativeDisconnect, native
  <2>3. CASE connection[p] # "none"
    <3>1. e \in Event /\ (pending[p] # None => a \in Event)
      BY <2>1 DEF Event, Typed, TypedPlugin
    <3>2. refused = events \/ (a \in Event /\ refused = Append(events, a))
      BY <3>1 DEF Emit
    <3>3. refused \in Seq(Event)
      BY <2>1, <3>2
    <3>4. /\ connection' = [connection EXCEPT ![p] = "none"]
          /\ events' = Append(refused, e)
          /\ UNCHANGED <<javascript, count, sent>>
      BY <1>9, <2>3 DEF NativeDisconnect
    <3>5. e.peer = p /\ e.kind = "disconnected" /\ a.kind = "refused"
      OBVIOUS
    <3> HIDE DEF refused, e, a, p
    <3> QED BY <2>1, <3>1, <3>2, <3>3, <3>4, <3>5, StreamEnd
  <2> QED BY <2>2, <2>3
<1>10. ASSUME NEW p \in Peer, ConnectDone(p) \/ ConnectBroke(p) PROVE Stream'
  <2>1. pending[p] \in Transport /\ connection[p] = "connecting"
    BY <1>10 DEF ConnectDone, ConnectBroke, Typed, TypedPlugin
  <2>2. /\ [kind |-> "connected", peer |-> p, transport |-> pending[p]] \in Event
        /\ [kind |-> "refused", peer |-> p, transport |-> pending[p]] \in Event
    BY <2>1 DEF Event
  <2>3. \E e \in Event : e.kind \in {"connected", "refused"} /\ events' = Append(events, e)
    BY <1>10, <2>2 DEF ConnectDone, ConnectBroke, Emit
  <2>4. \A q \in Peer : connection[q] = "ready" =>
          connection'[q] = "ready" /\ count'[q] = count[q] /\ sent'[q] = sent[q]
    BY <1>10, <2>1 DEF ConnectDone, ConnectBroke, Established, Typed, TypedPlugin
  <2> QED BY <1>10, <2>3, <2>4, StreamAnswer DEF ConnectDone, ConnectBroke
<1>11. ASSUME NEW p \in Peer, ConnectedToUs(p) PROVE Stream'
  <2>1. \A q \in Peer : connection[q] = "ready" =>
          connection'[q] = "ready" /\ count'[q] = count[q] /\ sent'[q] = sent[q]
    BY <1>11 DEF ConnectedToUs, Established, Typed, TypedPlugin
  <2> QED BY <1>11, <2>1, StreamAnswer DEF ConnectedToUs
<1>12. ASSUME NEW p \in Peer, ConnectionLost(p) PROVE Stream'
  <2> DEFINE e == [kind |-> "disconnected", peer |-> p, transport |-> None]
  <2>1. e \in Event /\ events \in Seq(Event) /\ e.peer = p /\ e.kind = "disconnected"
    BY DEF Event, Typed, TypedQueues
  <2>2. /\ connection' = [connection EXCEPT ![p] = "none"]
        /\ events' = Append(events, e)
        /\ UNCHANGED <<javascript, count, sent>>
    BY <1>12 DEF ConnectionLost, Emit
  <2> HIDE DEF e
  <2> QED BY <2>1, <2>2, StreamEnd
<1>13. ASSUME NEW p \in Peer, PacketArrives(p) PROVE Stream'
  BY <1>13, StreamArrives
<1>14. CASE UNCHANGED vars
  BY <1>14, StreamSame DEF vars, javascript, native
<1> QED
  BY <1>1, <1>2, <1>3, <1>4, <1>5, <1>6, <1>7, <1>8, <1>9, <1>10, <1>11, <1>12, <1>13, <1>14
  DEF Next

(* What a link is handed is an unbroken run of the packets of one           *)
(* connection, however fast peers are reopened and reconnect, for every     *)
(* bound of the buffer (hub.ts: what arrives before the transport does is   *)
(* held and handed over).                                                   *)
THEOREM NothingMissingInBetween == Spec => []NoHoles
<1>1. Stream => NoHoles
  <2> SUFFICES ASSUME Stream, NEW t \in Transport, NEW i \in 2 .. Len(delivered[t])
               PROVE  delivered[t][i] = [delivered[t][i - 1] EXCEPT !.number = @ + 1]
    BY DEF NoHoles
  <2> QED BY DEF Stream, Unbroken, Follows
<1> QED BY <1>1, TypedInit, StreamInit, TypedStep, StreamStep, PTL DEF Spec

----------------------------------------------------------------------------
(* Turns: what may be on its way about a peer, when reopening and           *)
(* reconnecting are slower than what the bridge carries of it.              *)

Answer(q, p, i) == q[i].peer = p /\ q[i].kind \in {"connected", "refused"}

End(q, p, i) == q[i].peer = p /\ q[i].kind = "disconnected"

NoAnswer(q, p) == \A i \in 1 .. Len(q) : ~Answer(q, p, i)

NoEnd(q, p) == \A i \in 1 .. Len(q) : ~End(q, p, i)

NoCall(q, p) == \A i \in 1 .. Len(q) : q[i].peer # p

(* The only call about p on the bridge.                                     *)
TheCall(q, p, c) ==
  /\ c.peer = p
  /\ \E i \in 1 .. Len(q) : q[i] = c /\ \A j \in 1 .. Len(q) : q[j].peer = p => j = i

(* The only answer about p on its way; a link it opens has not ended yet.   *)
TheAnswer(q, p, a) ==
  /\ a.peer = p /\ a.kind \in {"connected", "refused"}
  /\ \E i \in 1 .. Len(q) :
       /\ q[i] = a
       /\ \A j \in 1 .. Len(q) : Answer(q, p, j) => j = i
       /\ a.kind = "connected" => \A j \in 1 .. i - 1 : ~End(q, p, j)

Dialled(p) == p \notin Inbound

(* Nothing is asked of the peer.                                            *)
Settled(p) ==
  /\ NoCall(calls, p) /\ NoAnswer(events, p)
  /\ connection[p] # "connecting"
  /\ (Dialled(p) /\ connection[p] = "ready") => transports[p] # None

(* connect() has been called and the plugin has not looked at it.           *)
Asked(p, t) ==
  /\ TheCall(calls, p, [kind |-> "connect", peer |-> p, transport |-> t])
  /\ NoAnswer(events, p)
  /\ link[t] = "opening" /\ peerOf[t] = p
  /\ connection[p] # "connecting"
  /\ Dialled(p) => connection[p] = "none"
  /\ transports[p] \in {None, t}
  /\ (connection[p] = "ready" \/ Dialled(p)) => transports[p] = t /\ NoEnd(events, p)

(* The plugin is making the connection.                                     *)
Making(p, t) ==
  /\ NoCall(calls, p) /\ NoAnswer(events, p) /\ NoEnd(events, p)
  /\ link[t] = "opening" /\ peerOf[t] = p
  /\ connection[p] = "connecting" /\ pending[p] = t
  /\ Dialled(p)
  /\ transports[p] = t

(* The answer to connect() is on its way.                                   *)
Told(p, a) ==
  /\ NoCall(calls, p) /\ TheAnswer(events, p, a)
  /\ link[a.transport] = "opening" /\ peerOf[a.transport] = p
  /\ connection[p] # "connecting"
  /\ transports[p] \in {None, a.transport}
  /\ a.kind = "connected" => transports[p] = a.transport
  /\ (a.kind = "refused" /\ Dialled(p)) => connection[p] = "none"

(* disconnect() has been called and the plugin has not looked at it.        *)
Leaving(p) ==
  /\ TheCall(calls, p, [kind |-> "disconnect", peer |-> p, transport |-> None])
  /\ NoAnswer(events, p)
  /\ connection[p] # "connecting"
  /\ transports[p] = None

Turn(p) ==
  \/ Settled(p)
  \/ \E t \in Transport : Asked(p, t) \/ Making(p, t)
  \/ \E a \in Event : Told(p, a)
  \/ Leaving(p)

(* The hub's map and the links it serves.                                   *)
Served(p) ==
  /\ transports[p] # None =>
       /\ peerOf[transports[p]] = p
       /\ transports[p] \notin closed
       /\ link[transports[p]] \in {"opening", "open"}
  /\ \A t \in Transport : peerOf[t] = p =>
       /\ link[t] = "unborn" => t \notin closed
       /\ link[t] = "open" => transports[p] = t
  /\ connection[p] # "connecting" => pending[p] = None
  /\ (Dialled(p) /\ ~NoEnd(events, p)) => connection[p] = "none"

InTurn == \A p \in Peer : Turn(p) /\ Served(p)

(* The queues, seen from one peer.                                          *)
LEMMA PopAnswer ==
  ASSUME NEW q \in Seq(Event), q # <<>>, NEW p \in Peer
  PROVE  /\ NoAnswer(q, p) => NoAnswer(Tail(q), p) /\ ~Answer(q, p, 1)
         /\ NoEnd(q, p) => NoEnd(Tail(q), p) /\ ~End(q, p, 1)
         /\ \A a : (TheAnswer(q, p, a) /\ ~Answer(q, p, 1)) => TheAnswer(Tail(q), p, a)
         /\ \A a : (TheAnswer(q, p, a) /\ Answer(q, p, 1)) => a = q[1] /\ NoAnswer(Tail(q), p)
         /\ \A a : (TheAnswer(q, p, a) /\ End(q, p, 1)) => a.kind = "refused"
<1> DEFINE r == Tail(q)
           n == Len(q)
<1>1. /\ n \in Nat \ {0} /\ Len(r) = n - 1 /\ 1 \in 1 .. n
      /\ \A i \in 1 .. n - 1 : r[i] = q[i + 1] /\ i + 1 \in 1 .. n
  BY Queue
<1>2. \A i \in 1 .. n - 1 : (Answer(r, p, i) <=> Answer(q, p, i + 1))
                         /\ (End(r, p, i) <=> End(q, p, i + 1))
  BY <1>1 DEF Answer, End
<1> HIDE DEF r, n
<1>3. NoAnswer(q, p) => NoAnswer(r, p) /\ ~Answer(q, p, 1)
  BY <1>1, <1>2 DEF NoAnswer, n
<1>4. NoEnd(q, p) => NoEnd(r, p) /\ ~End(q, p, 1)
  BY <1>1, <1>2 DEF NoEnd, n
<1>5. ASSUME NEW a, TheAnswer(q, p, a)
      PROVE  /\ ~Answer(q, p, 1) => TheAnswer(r, p, a)
             /\ Answer(q, p, 1) => a = q[1] /\ NoAnswer(r, p)
             /\ End(q, p, 1) => a.kind = "refused"
  <2>1. PICK i \in 1 .. n : /\ q[i] = a
                            /\ \A j \in 1 .. n : Answer(q, p, j) => j = i
                            /\ a.kind = "connected" => \A j \in 1 .. i - 1 : ~End(q, p, j)
    BY <1>5 DEF TheAnswer, n
  <2>2. a.peer = p /\ a.kind \in {"connected", "refused"} /\ Answer(q, p, i)
    BY <1>5, <2>1 DEF TheAnswer, Answer
  <2>3. ASSUME ~Answer(q, p, 1) PROVE TheAnswer(r, p, a)
    <3>1. i # 1
      BY <2>2, <2>3
    <3>2. i - 1 \in 1 .. Len(r) /\ i - 1 \in 1 .. n - 1 /\ (i - 1) + 1 = i
      BY <1>1, <3>1
    <3>3. r[i - 1] = a
      BY <1>1, <2>1, <3>2
    <3>4. \A j \in 1 .. Len(r) : Answer(r, p, j) => j = i - 1
      <4> SUFFICES ASSUME NEW j \in 1 .. Len(r), Answer(r, p, j) PROVE j = i - 1
        OBVIOUS
      <4>1. j \in 1 .. n - 1 /\ j + 1 \in 1 .. n
        BY <1>1
      <4>2. j + 1 = i
        BY <1>2, <2>1, <4>1
      <4> QED BY <4>1, <4>2
    <3>5. a.kind = "connected" => \A j \in 1 .. (i - 1) - 1 : ~End(r, p, j)
      <4> SUFFICES ASSUME a.kind = "connected", NEW j \in 1 .. (i - 1) - 1 PROVE ~End(r, p, j)
        OBVIOUS
      <4>1. j \in 1 .. n - 1 /\ j + 1 \in 1 .. i - 1
        BY <1>1
      <4> QED BY <1>2, <2>1, <4>1
    <3> QED BY <2>2, <3>2, <3>3, <3>4, <3>5 DEF TheAnswer
  <2>4. ASSUME Answer(q, p, 1) PROVE a = q[1] /\ NoAnswer(r, p)
    <3>1. i = 1
      BY <1>1, <2>1, <2>4
    <3>2. ASSUME NEW j \in 1 .. Len(r) PROVE ~Answer(r, p, j)
      <4>1. j \in 1 .. n - 1 /\ j + 1 \in 1 .. n /\ j + 1 # 1
        BY <1>1
      <4> QED BY <1>2, <2>1, <3>1, <4>1
    <3> QED BY <2>1, <3>1, <3>2 DEF NoAnswer
  <2>5. ASSUME End(q, p, 1) PROVE a.kind = "refused"
    <3>1. i # 1
      BY <2>1, <2>2, <2>5 DEF End
    <3>2. 1 \in 1 .. i - 1
      BY <1>1, <3>1
    <3> QED BY <2>1, <2>2, <2>5, <3>2
  <2> QED BY <2>3, <2>4, <2>5
<1> QED
  BY <1>3, <1>4, <1>5 DEF r

LEMMA PushAnswer ==
  ASSUME NEW q \in Seq(Event), NEW e \in Event, NEW p \in Peer
  PROVE  /\ (NoAnswer(q, p) /\ ~(e.peer = p /\ e.kind \in {"connected", "refused"})) =>
              NoAnswer(Append(q, e), p)
         /\ (NoEnd(q, p) /\ ~(e.peer = p /\ e.kind = "disconnected")) => NoEnd(Append(q, e), p)
         /\ \A a : (TheAnswer(q, p, a) /\ ~(e.peer = p /\ e.kind \in {"connected", "refused"})) =>
              TheAnswer(Append(q, e), p, a)
         /\ (/\ NoAnswer(q, p) /\ e.peer = p /\ e.kind \in {"connected", "refused"}
             /\ e.kind = "connected" => NoEnd(q, p)) => TheAnswer(Append(q, e), p, e)
<1> DEFINE b == Append(q, e)
           n == Len(q)
<1>1. /\ n \in Nat /\ Len(b) = n + 1 /\ b[n + 1] = e
      /\ \A i \in 1 .. n : b[i] = q[i]
  BY Queued
<1>2. \A i \in 1 .. n : (Answer(b, p, i) <=> Answer(q, p, i)) /\ (End(b, p, i) <=> End(q, p, i))
  BY <1>1 DEF Answer, End
<1>3. /\ Answer(b, p, n + 1) <=> (e.peer = p /\ e.kind \in {"connected", "refused"})
      /\ End(b, p, n + 1) <=> (e.peer = p /\ e.kind = "disconnected")
  BY <1>1 DEF Answer, End
<1>4. \A i \in 1 .. Len(b) : i \in 1 .. n \/ i = n + 1
  BY <1>1
<1> HIDE DEF b, n
<1>5. (NoAnswer(q, p) /\ ~(e.peer = p /\ e.kind \in {"connected", "refused"})) => NoAnswer(b, p)
  BY <1>2, <1>3, <1>4 DEF NoAnswer, n
<1>6. (NoEnd(q, p) /\ ~(e.peer = p /\ e.kind = "disconnected")) => NoEnd(b, p)
  BY <1>2, <1>3, <1>4 DEF NoEnd, n
<1>7. ASSUME NEW a, TheAnswer(q, p, a), ~(e.peer = p /\ e.kind \in {"connected", "refused"})
      PROVE  TheAnswer(b, p, a)
  <2>1. PICK i \in 1 .. n : /\ q[i] = a
                            /\ \A j \in 1 .. n : Answer(q, p, j) => j = i
                            /\ a.kind = "connected" => \A j \in 1 .. i - 1 : ~End(q, p, j)
    BY <1>7 DEF TheAnswer, n
  <2>2. i \in 1 .. Len(b) /\ b[i] = a
    BY <1>1, <2>1
  <2>3. \A j \in 1 .. Len(b) : Answer(b, p, j) => j = i
    BY <1>2, <1>3, <1>4, <1>7, <2>1
  <2>4. \A j \in 1 .. i - 1 : j \in 1 .. n
    BY <1>1
  <2>5. a.kind = "connected" => \A j \in 1 .. i - 1 : ~End(b, p, j)
    BY <1>2, <2>1, <2>4
  <2> QED BY <1>7, <2>2, <2>3, <2>5 DEF TheAnswer
<1>8. ASSUME NoAnswer(q, p), e.peer = p, e.kind \in {"connected", "refused"},
             e.kind = "connected" => NoEnd(q, p)
      PROVE  TheAnswer(b, p, e)
  <2>1. n + 1 \in 1 .. Len(b) /\ b[n + 1] = e
    BY <1>1
  <2>2. \A j \in 1 .. Len(b) : Answer(b, p, j) => j = n + 1
    BY <1>2, <1>4, <1>8 DEF NoAnswer, n
  <2>3. \A j \in 1 .. (n + 1) - 1 : j \in 1 .. n
    BY <1>1
  <2>4. e.kind = "connected" => \A j \in 1 .. (n + 1) - 1 : ~End(b, p, j)
    BY <1>2, <1>8, <2>3 DEF NoEnd, n
  <2> QED BY <1>8, <2>1, <2>2, <2>4 DEF TheAnswer
<1> QED
  BY <1>5, <1>6, <1>7, <1>8 DEF b

LEMMA PopCall ==
  ASSUME NEW q \in Seq(BridgeCall), q # <<>>, NEW p \in Peer
  PROVE  /\ NoCall(q, p) => NoCall(Tail(q), p) /\ q[1].peer # p
         /\ \A c : (TheCall(q, p, c) /\ q[1].peer # p) => TheCall(Tail(q), p, c)
         /\ \A c : (TheCall(q, p, c) /\ q[1].peer = p) => c = q[1] /\ NoCall(Tail(q), p)
<1> DEFINE r == Tail(q)
           n == Len(q)
<1>1. /\ n \in Nat \ {0} /\ Len(r) = n - 1 /\ 1 \in 1 .. n
      /\ \A i \in 1 .. n - 1 : r[i] = q[i + 1] /\ i + 1 \in 1 .. n
  BY Queue
<1> HIDE DEF r, n
<1>2. NoCall(q, p) => NoCall(r, p) /\ q[1].peer # p
  BY <1>1 DEF NoCall, n
<1>3. ASSUME NEW c, TheCall(q, p, c)
      PROVE  /\ q[1].peer # p => TheCall(r, p, c)
             /\ q[1].peer = p => c = q[1] /\ NoCall(r, p)
  <2>1. PICK i \in 1 .. n : q[i] = c /\ \A j \in 1 .. n : q[j].peer = p => j = i
    BY <1>3 DEF TheCall, n
  <2>2. c.peer = p
    BY <1>3 DEF TheCall
  <2>3. ASSUME q[1].peer # p PROVE TheCall(r, p, c)
    <3>1. i - 1 \in 1 .. Len(r) /\ i - 1 \in 1 .. n - 1 /\ (i - 1) + 1 = i
      BY <1>1, <2>1, <2>2, <2>3
    <3>2. r[i - 1] = c
      BY <1>1, <2>1, <3>1
    <3>3. \A j \in 1 .. Len(r) : r[j].peer = p => j = i - 1
      <4> SUFFICES ASSUME NEW j \in 1 .. Len(r), r[j].peer = p PROVE j = i - 1
        OBVIOUS
      <4>1. j \in 1 .. n - 1 /\ j + 1 \in 1 .. n
        BY <1>1
      <4>2. j + 1 = i
        BY <1>1, <2>1, <4>1
      <4> QED BY <4>1, <4>2
    <3> QED BY <2>2, <3>1, <3>2, <3>3 DEF TheCall
  <2>4. ASSUME q[1].peer = p PROVE c = q[1] /\ NoCall(r, p)
    <3>1. i = 1
      BY <1>1, <2>1, <2>4
    <3>2. ASSUME NEW j \in 1 .. Len(r) PROVE r[j].peer # p
      <4>1. j \in 1 .. n - 1 /\ j + 1 \in 1 .. n /\ j + 1 # 1
        BY <1>1
      <4> QED BY <1>1, <2>1, <3>1, <4>1
    <3> QED BY <2>1, <3>1, <3>2 DEF NoCall
  <2> QED BY <2>3, <2>4
<1> QED
  BY <1>2, <1>3 DEF r

LEMMA PushCall ==
  ASSUME NEW q \in Seq(BridgeCall), NEW c \in BridgeCall, NEW p \in Peer
  PROVE  /\ (NoCall(q, p) /\ c.peer # p) => NoCall(Append(q, c), p)
         /\ \A d : (TheCall(q, p, d) /\ c.peer # p) => TheCall(Append(q, c), p, d)
         /\ (NoCall(q, p) /\ c.peer = p) => TheCall(Append(q, c), p, c)
<1> DEFINE b == Append(q, c)
           n == Len(q)
<1>1. /\ n \in Nat /\ Len(b) = n + 1 /\ b[n + 1] = c
      /\ \A i \in 1 .. n : b[i] = q[i]
  BY Queued
<1>2. \A i \in 1 .. Len(b) : i \in 1 .. n \/ i = n + 1
  BY <1>1
<1>3. n + 1 \in 1 .. Len(b) /\ \A i \in 1 .. n : i \in 1 .. Len(b)
  BY <1>1
<1> HIDE DEF b, n
<1>4. (NoCall(q, p) /\ c.peer # p) => NoCall(b, p)
  BY <1>1, <1>2 DEF NoCall, n
<1>5. ASSUME NEW d, TheCall(q, p, d), c.peer # p PROVE TheCall(b, p, d)
  <2>1. PICK i \in 1 .. n : q[i] = d /\ \A j \in 1 .. n : q[j].peer = p => j = i
    BY <1>5 DEF TheCall, n
  <2>2. i \in 1 .. Len(b) /\ b[i] = d /\ \A j \in 1 .. Len(b) : b[j].peer = p => j = i
    BY <1>1, <1>2, <1>3, <1>5, <2>1
  <2> QED BY <1>5, <2>2 DEF TheCall
<1>6. (NoCall(q, p) /\ c.peer = p) => TheCall(b, p, c)
  BY <1>1, <1>2, <1>3 DEF NoCall, TheCall, n
<1> QED
  BY <1>4, <1>5, <1>6 DEF b

LEMMA TurnInit == Init => InTurn
<1> SUFFICES ASSUME Init, NEW p \in Peer PROVE Settled(p) /\ Served(p)
  BY DEF InTurn, Turn
<1>1. calls = <<>> /\ events = <<>> /\ connection[p] = "none" /\ transports[p] = None /\ pending[p] = None
  BY DEF Init
<1>2. NoCall(calls, p) /\ NoAnswer(events, p) /\ NoEnd(events, p)
  BY <1>1 DEF NoCall, NoAnswer, NoEnd
<1> QED BY <1>1, <1>2 DEF Init, Settled, Served

(* What a step leaves on the queues about a peer it does not concern.       *)
CallsKept(p) ==
  /\ NoCall(calls, p) => NoCall(calls', p)
  /\ \A c : TheCall(calls, p, c) => TheCall(calls', p, c)

AnswersKept(p) ==
  /\ NoAnswer(events, p) => NoAnswer(events', p)
  /\ \A a : TheAnswer(events, p, a) => TheAnswer(events', p, a)

EndsKept(p) == NoEnd(events, p) => NoEnd(events', p)

LinksKept(p) ==
  /\ transports'[p] = transports[p]
  /\ peerOf' = peerOf
  /\ \A t \in Transport : peerOf[t] = p => link'[t] = link[t] /\ (t \in closed' <=> t \in closed)

PluginKept(p) == connection'[p] = connection[p] /\ pending'[p] = pending[p]

LEMMA Elsewhere ==
  ASSUME Typed, NEW p \in Peer, Turn(p), Served(p),
         CallsKept(p), AnswersKept(p), EndsKept(p), LinksKept(p), PluginKept(p)
  PROVE  Turn(p)' /\ Served(p)'
<1> USE DEF CallsKept, AnswersKept, EndsKept, LinksKept, PluginKept
<1>1. transports[p] # None => transports[p] \in Transport
  BY DEF Typed, TypedHub
<1>2. Served(p)'
  BY <1>1 DEF Served, Dialled
<1>3. Settled(p) => Settled(p)'
  BY DEF Settled, Dialled
<1>4. ASSUME NEW t \in Transport, Asked(p, t) PROVE Asked(p, t)'
  BY <1>4 DEF Asked, Dialled
<1>5. ASSUME NEW t \in Transport, Making(p, t) PROVE Making(p, t)'
  BY <1>5 DEF Making, Dialled
<1>6. ASSUME NEW a \in Event, Told(p, a) PROVE Told(p, a)'
  <2>1. a.transport \in Transport
    BY <1>6 DEF Told, TheAnswer, Event
  <2> QED BY <1>6, <2>1 DEF Told, Dialled
<1>7. Leaving(p) => Leaving(p)'
  BY DEF Leaving
<1> QED
  BY <1>2, <1>3, <1>4, <1>5, <1>6, <1>7 DEF Turn

LEMMA CallsSame == UNCHANGED calls => \A p : CallsKept(p)
  BY DEF CallsKept

LEMMA EventsSame == UNCHANGED events => \A p : AnswersKept(p) /\ EndsKept(p)
  BY DEF AnswersKept, EndsKept

LEMMA CallTaken ==
  ASSUME Typed, calls # <<>>, calls' = Tail(calls), NEW p \in Peer, Head(calls).peer # p
  PROVE  CallsKept(p)
BY PopCall, HeadCall DEF CallsKept, Typed, TypedQueues

LEMMA CallMade ==
  ASSUME Typed, NEW c \in BridgeCall, calls' = Append(calls, c), NEW p \in Peer, c.peer # p
  PROVE  CallsKept(p)
BY PushCall DEF CallsKept, Typed, TypedQueues

LEMMA EventTaken ==
  ASSUME Typed, events # <<>>, events' = Tail(events), NEW p \in Peer, ~Answer(events, p, 1)
  PROVE  AnswersKept(p) /\ EndsKept(p)
BY PopAnswer DEF AnswersKept, EndsKept, Typed, TypedQueues

LEMMA EventMade ==
  ASSUME Typed, NEW e \in Event, events' = Append(events, e), NEW p \in Peer,
         ~(e.peer = p /\ e.kind \in {"connected", "refused"})
  PROVE  AnswersKept(p) /\ (~(e.peer = p /\ e.kind = "disconnected") => EndsKept(p))
BY PushAnswer DEF AnswersKept, EndsKept, Typed, TypedQueues

LEMMA QuietPeer ==
  ASSUME Typed, NEW p \in Peer, Quiet(p)
  PROVE  NoCall(calls, p) /\ NoAnswer(events, p) /\ NoEnd(events, p)
<1>1. DOMAIN calls = 1 .. Len(calls) /\ DOMAIN events = 1 .. Len(events)
  BY DEF Typed, TypedQueues
<1> QED BY <1>1 DEF Quiet, About, NoCall, NoAnswer, NoEnd, Answer, End

LEMMA TurnOpen ==
  ASSUME Calm, Typed, InTurn, NEW t \in Transport, Open(t)
  PROVE  InTurn'
<1>1. peerOf[t] \in Peer
  BY DEF Typed, TypedHub
<1> PICK p \in Peer : p = peerOf[t]
  BY <1>1
<1> DEFINE c == [kind |-> "connect", peer |-> p, transport |-> t]
<1>2. /\ link[t] = "unborn" /\ transports[p] = None
      /\ link' = [link EXCEPT ![t] = "opening"]
      /\ transports' = [transports EXCEPT ![p] = t]
      /\ calls' = Append(calls, c)
      /\ UNCHANGED <<closed, peerOf, events, native>>
      /\ Quiet(p)
  BY DEF Open, MayOpen
<1>3. c \in BridgeCall /\ c.peer = p
  BY DEF BridgeCall
<1>4. NoCall(calls, p) /\ NoAnswer(events, p) /\ NoEnd(events, p)
  BY <1>2, QuietPeer
<1>5. t # None
  BY HubAssumption DEF Transport, None
<1>6. TheCall(calls', p, c)
  BY <1>2, <1>3, <1>4, PushCall DEF Typed, TypedQueues
<1>7. Turn(p) /\ Served(p)
  BY DEF InTurn
<1>8. Settled(p)
  <2>1. \A d : ~TheCall(calls, p, d)
    BY <1>4 DEF TheCall, NoCall
  <2>2. \A a : ~TheAnswer(events, p, a)
    BY <1>4 DEF TheAnswer, NoAnswer, Answer
  <2>3. \A s \in Transport : ~Making(p, s)
    BY <1>2, <1>5, HubAssumption DEF Making, Transport, None
  <2> QED BY <1>7, <2>1, <2>2, <2>3 DEF Turn, Asked, Told, Leaving
<1>9. Asked(p, t)'
  <2>1. /\ link'[t] = "opening" /\ peerOf'[t] = p /\ transports'[p] = t
        /\ connection'[p] = connection[p] /\ events' = events
    BY <1>2 DEF Typed, TypedHub, native
  <2>2. connection[p] # "ready" \/ ~Dialled(p)
    BY <1>2, <1>8 DEF Settled
  <2>3. Dialled(p) => connection[p] = "none"
    BY <1>8, <2>2 DEF Settled, Typed, TypedPlugin
  <2> QED BY <1>4, <1>6, <1>8, <2>1, <2>3 DEF Asked, Settled, Dialled
<1>10. Served(p)'
  <2>1. /\ transports'[p] = t /\ link'[t] = "opening" /\ peerOf'[t] = p /\ t \notin closed'
        /\ connection'[p] = connection[p] /\ pending'[p] = pending[p] /\ events' = events
    BY <1>2, <1>7 DEF Typed, TypedHub, native, Served
  <2>2. \A s \in Transport : peerOf[s] = p /\ s # t => link'[s] = link[s] /\ link[s] # "open"
    BY <1>2, <1>7, HubAssumption DEF Typed, TypedHub, Served, Transport, None
  <2>3. \A s \in Transport : peerOf'[s] = p =>
          /\ link'[s] = "unborn" => s \notin closed'
          /\ link'[s] = "open" => transports'[p] = s
    BY <1>2, <1>7, <2>1, <2>2 DEF Served
  <2> QED BY <1>7, <2>1, <2>3 DEF Served, Dialled
<1>11. ASSUME NEW q \in Peer, q # p PROVE Turn(q)' /\ Served(q)'
  <2>1. CallsKept(q) /\ AnswersKept(q) /\ EndsKept(q)
    BY <1>2, <1>3, <1>11, CallMade, EventsSame
  <2>2. LinksKept(q) /\ PluginKept(q)
    BY <1>2, <1>11 DEF LinksKept, PluginKept, Typed, TypedHub, native
  <2> QED BY <1>11, <2>1, <2>2, Elsewhere DEF InTurn
<1> QED BY <1>9, <1>10, <1>11 DEF InTurn, Turn

LEMMA TurnClose ==
  ASSUME Typed, InTurn, NEW t \in Transport, Close(t)
  PROVE  InTurn'
<1>1. peerOf[t] \in Peer
  BY DEF Typed, TypedHub
<1> PICK p \in Peer : p = peerOf[t]
  BY <1>1
<1> DEFINE c == [kind |-> "disconnect", peer |-> p, transport |-> None]
<1>2. Turn(p) /\ Served(p)
  BY DEF InTurn
<1>3. t # None
  BY HubAssumption DEF Transport, None
<1>4. link[t] = "open" /\ transports[p] = t /\ t \notin closed
  BY <1>2, <1>3 DEF Close, Served
<1>5. /\ link' = [link EXCEPT ![t] = "closed"]
      /\ closed' = closed \cup {t}
      /\ transports' = [transports EXCEPT ![p] = None]
      /\ calls' = Append(calls, c)
      /\ UNCHANGED <<peerOf, events, native>>
  BY <1>4 DEF Close
<1>6. c \in BridgeCall /\ c.peer = p
  BY DEF BridgeCall
<1>7. Settled(p)
  BY <1>2, <1>3, <1>4 DEF Turn, Asked, Making, Told, Leaving
<1>8. Leaving(p)'
  <2>1. TheCall(calls', p, c)
    BY <1>5, <1>6, <1>7, PushCall DEF Typed, TypedQueues, Settled
  <2>2. transports'[p] = None /\ connection'[p] = connection[p] /\ events' = events
    BY <1>5 DEF Typed, TypedHub, native
  <2> QED BY <1>7, <2>1, <2>2 DEF Leaving, Settled
<1>9. Served(p)'
  <2>1. /\ transports'[p] = None /\ connection'[p] = connection[p] /\ pending'[p] = pending[p]
        /\ events' = events /\ peerOf' = peerOf
    BY <1>5 DEF Typed, TypedHub, native
  <2>2. \A s \in Transport : peerOf[s] = p =>
          /\ link'[s] = "unborn" => s \notin closed'
          /\ link'[s] # "open"
    BY <1>2, <1>4, <1>5 DEF Served, Typed, TypedHub
  <2> QED BY <1>2, <2>1, <2>2 DEF Served, Dialled
<1>10. ASSUME NEW q \in Peer, q # p PROVE Turn(q)' /\ Served(q)'
  <2>1. CallsKept(q) /\ AnswersKept(q) /\ EndsKept(q)
    BY <1>5, <1>6, <1>10, CallMade, EventsSame
  <2>2. LinksKept(q) /\ PluginKept(q)
    BY <1>5, <1>10 DEF LinksKept, PluginKept, Typed, TypedHub, native
  <2> QED BY <1>10, <2>1, <2>2, Elsewhere DEF InTurn
<1> QED BY <1>8, <1>9, <1>10 DEF InTurn, Turn

(* The answer to connect() at the head of the queue is the one awaited.     *)
LEMMA AnswerAwaited ==
  ASSUME Typed, NEW p \in Peer, Turn(p), events # <<>>, Answer(events, p, 1)
  PROVE  Told(p, events[1]) /\ NoAnswer(Tail(events), p)
<1>1. ~NoAnswer(events, p)
  BY PopAnswer DEF Typed, TypedQueues
<1>2. PICK a \in Event : Told(p, a)
  BY <1>1 DEF Turn, Settled, Asked, Making, Leaving
<1>3. a = events[1] /\ NoAnswer(Tail(events), p)
  BY <1>2, PopAnswer DEF Told, Typed, TypedQueues
<1> QED BY <1>2, <1>3

LEMMA TurnConnected ==
  ASSUME Typed, InTurn, Connected
  PROVE  InTurn'
<1>1. /\ events # <<>> /\ Head(events) = events[1] /\ events' = Tail(events)
      /\ Head(events).peer \in Peer /\ Head(events).transport \in Transport
      /\ Head(events).kind = "connected"
  BY HeadEvent DEF Connected, NextIs
<1> PICK p \in Peer : p = Head(events).peer
  BY <1>1
<1> PICK t \in Transport : t = Head(events).transport
  BY <1>1
<1>2. /\ link' = [link EXCEPT ![t] = "open"]
      /\ UNCHANGED <<transports, closed, peerOf, calls, native>>
  BY DEF Connected
<1>3. Turn(p) /\ Served(p)
  BY DEF InTurn
<1>4. Told(p, events[1]) /\ NoAnswer(events', p)
  BY <1>1, <1>3, AnswerAwaited DEF Answer
<1>5. link[t] = "opening" /\ peerOf[t] = p /\ transports[p] = t
  BY <1>1, <1>4 DEF Told
<1>6. t # None
  BY HubAssumption DEF Transport, None
<1>7. Settled(p)'
  BY <1>2, <1>4, <1>5, <1>6 DEF Settled, Told, native
<1>8. Served(p)'
  <2>1. NoEnd(events, p) => NoEnd(events', p)
    BY <1>1, PopAnswer DEF Typed, TypedQueues
  <2>2. \A s \in Transport : peerOf[s] = p => (s # t => link'[s] = link[s])
    BY <1>2 DEF Typed, TypedHub
  <2>3. link'[t] = "open"
    BY <1>2 DEF Typed, TypedHub
  <2> QED BY <1>2, <1>3, <1>5, <1>6, <2>1, <2>2, <2>3 DEF Served, Dialled, native
<1>9. ASSUME NEW q \in Peer, q # p PROVE Turn(q)' /\ Served(q)'
  <2>1. ~Answer(events, q, 1)
    BY <1>1, <1>9 DEF Answer
  <2>2. CallsKept(q) /\ AnswersKept(q) /\ EndsKept(q)
    BY <1>1, <1>2, <2>1, CallsSame, EventTaken
  <2>3. LinksKept(q) /\ PluginKept(q)
    BY <1>2, <1>5, <1>9 DEF LinksKept, PluginKept, Typed, TypedHub, native
  <2> QED BY <1>9, <2>2, <2>3, Elsewhere DEF InTurn
<1> QED BY <1>7, <1>8, <1>9 DEF InTurn, Turn

LEMMA TurnConnectFailed ==
  ASSUME Typed, InTurn, ConnectFailed
  PROVE  InTurn'
<1>1. /\ events # <<>> /\ Head(events) = events[1] /\ events' = Tail(events)
      /\ Head(events).peer \in Peer /\ Head(events).transport \in Transport
      /\ Head(events).kind = "refused"
  BY HeadEvent DEF ConnectFailed, NextIs
<1> PICK p \in Peer : p = Head(events).peer
  BY <1>1
<1> PICK t \in Transport : t = Head(events).transport
  BY <1>1
<1>2. /\ link' = [link EXCEPT ![t] = "failed"]
      /\ transports' = [transports EXCEPT ![p] = None]
      /\ UNCHANGED <<closed, peerOf, calls, native>>
  BY DEF ConnectFailed
<1>3. Turn(p) /\ Served(p)
  BY DEF InTurn
<1>4. Told(p, events[1]) /\ NoAnswer(events', p)
  BY <1>1, <1>3, AnswerAwaited DEF Answer
<1>5. link[t] = "opening" /\ peerOf[t] = p /\ transports[p] \in {None, t}
  BY <1>1, <1>4 DEF Told
<1>6. transports'[p] = None
  BY <1>2 DEF Typed, TypedHub
<1>7. Settled(p)'
  BY <1>1, <1>2, <1>4, <1>6 DEF Settled, Told, Dialled, native
<1>8. Served(p)'
  <2>1. NoEnd(events, p) => NoEnd(events', p)
    BY <1>1, PopAnswer DEF Typed, TypedQueues
  <2>2. \A s \in Transport : peerOf[s] = p => link'[s] # "open" /\ (link'[s] = "unborn" => link[s] = "unborn")
    BY <1>2, <1>3, <1>5, HubAssumption DEF Typed, TypedHub, Served, Transport, None
  <2> QED BY <1>2, <1>3, <1>6, <2>1, <2>2 DEF Served, Dialled, native
<1>9. ASSUME NEW q \in Peer, q # p PROVE Turn(q)' /\ Served(q)'
  <2>1. ~Answer(events, q, 1)
    BY <1>1, <1>9 DEF Answer
  <2>2. CallsKept(q) /\ AnswersKept(q) /\ EndsKept(q)
    BY <1>1, <1>2, <2>1, CallsSame, EventTaken
  <2>3. LinksKept(q) /\ PluginKept(q)
    BY <1>2, <1>5, <1>9 DEF LinksKept, PluginKept, Typed, TypedHub, native
  <2> QED BY <1>9, <2>2, <2>3, Elsewhere DEF InTurn
<1> QED BY <1>7, <1>8, <1>9 DEF InTurn, Turn

LEMMA TurnDisconnected ==
  ASSUME Typed, InTurn, Disconnected
  PROVE  InTurn'
<1>1. /\ events # <<>> /\ Head(events) = events[1] /\ events' = Tail(events)
      /\ Head(events).peer \in Peer /\ Head(events).kind = "disconnected"
  BY HeadEvent DEF Disconnected, NextIs
<1> PICK p \in Peer : p = Head(events).peer
  BY <1>1
<1>2. /\ Signal(transports[p])
      /\ transports' = [transports EXCEPT ![p] = None]
      /\ UNCHANGED <<peerOf, calls, native>>
  BY DEF Disconnected
<1>3. Turn(p) /\ Served(p)
  BY DEF InTurn
<1>4. End(events, p, 1) /\ ~Answer(events, p, 1) /\ ~NoEnd(events, p)
  <2>1. End(events, p, 1) /\ ~Answer(events, p, 1)
    BY <1>1 DEF End, Answer
  <2> QED BY <1>1, <2>1, PopAnswer DEF Typed, TypedQueues
<1>5. transports'[p] = None
  BY <1>2 DEF Typed, TypedHub
<1>6. \A s \in Transport : s # transports[p] => link'[s] = link[s] /\ (s \in closed' <=> s \in closed)
  BY <1>2 DEF Signal, Typed, TypedHub
<1>7. \A s \in Transport : link[s] = "opening" => link'[s] = "opening"
  BY <1>2 DEF Signal, Typed, TypedHub
<1>8. transports[p] # None =>
        /\ transports[p] \in Transport /\ peerOf[transports[p]] = p
        /\ link'[transports[p]] \in {"opening", "closed"}
  BY <1>2, <1>3 DEF Signal, Served, Typed, TypedHub, Links
<1>0. None \notin Transport
  BY HubAssumption DEF Transport, None
<1>9. AnswersKept(p) /\ EndsKept(p)
  BY <1>1, <1>4, EventTaken
<1>10. Turn(p)'
  <2>1. Settled(p) => Settled(p)'
    BY <1>2, <1>3, <1>4, <1>9 DEF Settled, AnswersKept, Served, Dialled, native
  <2>2. ASSUME NEW s \in Transport, Asked(p, s) PROVE Asked(p, s)'
    BY <1>2, <1>4, <1>5, <1>7, <1>9, <2>2 DEF Asked, AnswersKept, Dialled, native
  <2>3. \A s \in Transport : ~Making(p, s)
    BY <1>4 DEF Making
  <2>4. ASSUME NEW a \in Event, Told(p, a) PROVE Told(p, a)'
    <3>1. a.kind = "refused" /\ a.transport \in Transport
      <4>1. a.kind = "refused"
        BY <1>1, <1>4, <2>4, PopAnswer DEF Told, Typed, TypedQueues
      <4> QED BY <4>1 DEF Event
    <3>2. TheAnswer(events', p, a)
      BY <1>9, <2>4 DEF Told, AnswersKept
    <3> QED BY <1>2, <1>5, <1>7, <2>4, <3>1, <3>2 DEF Told, Dialled, native
  <2>5. Leaving(p) => Leaving(p)'
    BY <1>2, <1>5, <1>9 DEF Leaving, AnswersKept, native
  <2> QED BY <1>3, <2>1, <2>2, <2>3, <2>4, <2>5 DEF Turn
<1>11. Served(p)'
  <2>1. \A s \in Transport : peerOf[s] = p =>
          /\ link'[s] # "open"
          /\ link'[s] = "unborn" => s \notin closed'
    <3> SUFFICES ASSUME NEW s \in Transport, peerOf[s] = p
                 PROVE  link'[s] # "open" /\ (link'[s] = "unborn" => s \notin closed')
      OBVIOUS
    <3>1. CASE s = transports[p]
      BY <1>0, <1>8, <3>1
    <3>2. CASE s # transports[p]
      BY <1>3, <1>6, <3>2 DEF Served
    <3> QED BY <3>1, <3>2
  <2> QED BY <1>2, <1>3, <1>4, <1>5, <2>1 DEF Served, Dialled, native
<1>12. ASSUME NEW q \in Peer, q # p PROVE Turn(q)' /\ Served(q)'
  <2>1. ~Answer(events, q, 1)
    BY <1>1 DEF Answer
  <2>2. CallsKept(q) /\ AnswersKept(q) /\ EndsKept(q)
    BY <1>1, <1>2, <2>1, CallsSame, EventTaken
  <2>3. LinksKept(q) /\ PluginKept(q)
    <3>1. transports'[q] = transports[q] /\ peerOf' = peerOf /\ PluginKept(q)
      BY <1>2, <1>12 DEF PluginKept, Typed, TypedHub, native
    <3>2. \A s \in Transport : peerOf[s] = q => s # transports[p]
      BY <1>0, <1>8, <1>12
    <3> QED BY <1>6, <3>1, <3>2 DEF LinksKept
  <2> QED BY <1>12, <2>2, <2>3, Elsewhere DEF InTurn
<1> QED BY <1>10, <1>11, <1>12 DEF InTurn

(* A step that touches neither calls, links nor the state of a connection.  *)
LEMMA TurnSame ==
  ASSUME Typed, InTurn,
         UNCHANGED <<transports, link, closed, peerOf, calls, connection, pending>>,
         \A p \in Peer : AnswersKept(p) /\ EndsKept(p)
  PROVE  InTurn'
<1>1. ASSUME NEW p \in Peer PROVE Turn(p)' /\ Served(p)'
  <2>1. CallsKept(p) /\ LinksKept(p) /\ PluginKept(p)
    BY CallsSame DEF LinksKept, PluginKept
  <2> QED BY <2>1, Elsewhere DEF InTurn
<1> QED BY <1>1 DEF InTurn

(* The call at the head of the queue is the one its peer is waiting on.     *)
LEMMA CallAwaited ==
  ASSUME Typed, NEW p \in Peer, Turn(p), calls # <<>>, calls[1].peer = p
  PROVE  /\ \/ \E t \in Transport : /\ Asked(p, t)
                                    /\ calls[1] = [kind |-> "connect", peer |-> p, transport |-> t]
            \/ Leaving(p) /\ calls[1] = [kind |-> "disconnect", peer |-> p, transport |-> None]
         /\ NoCall(Tail(calls), p)
<1>1. ~NoCall(calls, p)
  BY PopCall DEF Typed, TypedQueues
<1>2. CASE \E t \in Transport : Asked(p, t)
  BY <1>2, PopCall DEF Asked, Typed, TypedQueues
<1>3. CASE Leaving(p)
  BY <1>3, PopCall DEF Leaving, Typed, TypedQueues
<1> QED BY <1>1, <1>2, <1>3 DEF Turn, Settled, Making, Told

LEMMA TurnNativeConnect ==
  ASSUME Typed, InTurn, NativeConnect
  PROVE  InTurn'
<1>1. /\ calls # <<>> /\ Head(calls) = calls[1] /\ calls' = Tail(calls)
      /\ Head(calls).peer \in Peer /\ Head(calls).transport \in Transport
      /\ Head(calls).kind = "connect"
  BY HeadCall DEF NativeConnect, Call
<1> PICK p \in Peer : p = Head(calls).peer
  BY <1>1
<1> PICK t \in Transport : t = Head(calls).transport
  BY <1>1
<1>2. Turn(p) /\ Served(p)
  BY DEF InTurn
<1>3. Asked(p, t) /\ NoCall(calls', p)
  <2>1. calls[1].kind = "connect" /\ calls[1].transport = t
    BY <1>1
  <2>2. calls[1] # [kind |-> "disconnect", peer |-> p, transport |-> None]
    BY <2>1
  <2>3. NoCall(calls', p) /\ \E s \in Transport :
          Asked(p, s) /\ calls[1] = [kind |-> "connect", peer |-> p, transport |-> s]
    BY <1>1, <1>2, <2>2, CallAwaited
  <2> QED BY <2>1, <2>3
<1>4. UNCHANGED javascript
  BY DEF NativeConnect
<1>5. ASSUME NEW e \in Event, e.peer = p, e.transport = t, e.kind \in {"connected", "refused"},
             events' = Append(events, e), UNCHANGED native,
             e.kind = "connected" => connection[p] = "ready",
             e.kind = "refused" => connection[p] = "none"
      PROVE  InTurn'
  <2>1. e.kind = "connected" => NoEnd(events, p)
    BY <1>3, <1>5 DEF Asked
  <2>2. TheAnswer(events', p, e)
    BY <1>3, <1>5, <2>1, PushAnswer DEF Asked, Typed, TypedQueues
  <2>3. Told(p, e)'
    BY <1>3, <1>4, <1>5, <2>2 DEF Told, Asked, Dialled, native, javascript
  <2>4. Served(p)'
    <3>1. NoEnd(events, p) => NoEnd(events', p)
      BY <1>5, PushAnswer DEF Typed, TypedQueues
    <3> QED BY <1>2, <1>4, <1>5, <3>1 DEF Served, Dialled, native, javascript
  <2>5. ASSUME NEW q \in Peer, q # p PROVE Turn(q)' /\ Served(q)'
    <3>1. CallsKept(q) /\ AnswersKept(q) /\ EndsKept(q)
      BY <1>1, <1>5, <2>5, CallTaken, EventMade
    <3>2. LinksKept(q) /\ PluginKept(q)
      BY <1>4, <1>5 DEF LinksKept, PluginKept, native, javascript
    <3> QED BY <2>5, <3>1, <3>2, Elsewhere DEF InTurn
  <2> QED BY <2>3, <2>4, <2>5 DEF InTurn, Turn
<1>6. ASSUME connection[p] = "none", Dialled(p),
             connection' = [connection EXCEPT ![p] = "connecting"],
             pending' = [pending EXCEPT ![p] = t], UNCHANGED events
      PROVE  InTurn'
  <2>1. connection'[p] = "connecting" /\ pending'[p] = t
    BY <1>6 DEF Typed, TypedPlugin
  <2>2. Making(p, t)'
    BY <1>3, <1>4, <1>6, <2>1 DEF Making, Asked, Dialled, javascript
  <2>3. Served(p)'
    BY <1>2, <1>3, <1>4, <1>6, <2>1 DEF Served, Asked, Dialled, javascript
  <2>4. ASSUME NEW q \in Peer, q # p PROVE Turn(q)' /\ Served(q)'
    <3>1. CallsKept(q) /\ AnswersKept(q) /\ EndsKept(q)
      BY <1>1, <1>6, <2>4, CallTaken, EventsSame
    <3>2. LinksKept(q) /\ PluginKept(q)
      BY <1>4, <1>6, <2>4 DEF LinksKept, PluginKept, javascript, Typed, TypedPlugin
    <3> QED BY <2>4, <3>1, <3>2, Elsewhere DEF InTurn
  <2> QED BY <2>2, <2>3, <2>4 DEF InTurn, Turn
<1>7. /\ [kind |-> "connected", peer |-> p, transport |-> t] \in Event
      /\ [kind |-> "refused", peer |-> p, transport |-> t] \in Event
  BY DEF Event
<1>8. CASE connection[p] = "ready" /\ events' = Emit("connected", p, t) /\ UNCHANGED native
  BY <1>5, <1>7, <1>8 DEF Emit
<1>9. CASE connection[p] = "none" /\ events' = Emit("refused", p, t) /\ UNCHANGED native
  BY <1>5, <1>7, <1>9 DEF Emit
<1>10. connection[p] # "connecting"
  BY <1>3 DEF Asked
<1> QED
  BY <1>6, <1>8, <1>9, <1>10 DEF NativeConnect, Dialled

LEMMA TurnNativeDisconnect ==
  ASSUME Typed, InTurn, NativeDisconnect
  PROVE  InTurn'
<1>1. /\ calls # <<>> /\ Head(calls) = calls[1] /\ calls' = Tail(calls)
      /\ Head(calls).peer \in Peer /\ Head(calls).kind = "disconnect"
  BY HeadCall DEF NativeDisconnect, Call
<1> PICK p \in Peer : p = Head(calls).peer
  BY <1>1
<1> DEFINE e == [kind |-> "disconnected", peer |-> p, transport |-> None]
<1>2. Turn(p) /\ Served(p)
  BY DEF InTurn
<1>3. Leaving(p) /\ NoCall(calls', p) /\ pending[p] = None
  <2>1. calls[1].kind = "disconnect"
    BY <1>1
  <2>2. \A t \in Transport : calls[1] # [kind |-> "connect", peer |-> p, transport |-> t]
    BY <2>1
  <2>3. Leaving(p) /\ NoCall(calls', p)
    BY <1>1, <1>2, <2>2, CallAwaited
  <2> QED BY <1>2, <2>3 DEF Leaving, Served
<1>4. UNCHANGED <<javascript, pending>>
  BY <1>3 DEF NativeDisconnect, native, Typed, TypedPlugin
<1>5. e \in Event
  BY DEF Event
<1>6. \/ UNCHANGED <<connection, events>>
      \/ connection' = [connection EXCEPT ![p] = "none"] /\ events' = Append(events, e)
  BY <1>3 DEF NativeDisconnect, native
<1>7. AnswersKept(p) /\ \A q \in Peer : q # p => AnswersKept(q) /\ EndsKept(q)
  BY <1>5, <1>6, EventsSame, EventMade
<1>8. connection'[p] \in {connection[p], "none"}
  BY <1>6 DEF Typed, TypedPlugin
<1>9. Settled(p)'
  <2>1. connection[p] = "ready" /\ Dialled(p) => connection'[p] = "none" \/ UNCHANGED <<connection, events>>
    BY <1>6 DEF Typed, TypedPlugin
  <2>2. connection[p] # "none" => connection'[p] = "none"
    BY <1>1, <1>3 DEF NativeDisconnect, Typed, TypedPlugin
  <2>3. connection'[p] = "none"
    BY <1>8, <2>2
  <2> QED BY <1>3, <1>7, <2>3 DEF Settled, Leaving, AnswersKept
<1>10. Served(p)'
  <2>1. connection'[p] = "none"
    BY <1>1, <1>3, <1>8 DEF NativeDisconnect, Typed, TypedPlugin
  <2> QED BY <1>2, <1>3, <1>4, <2>1 DEF Served, Dialled, javascript
<1>11. ASSUME NEW q \in Peer, q # p PROVE Turn(q)' /\ Served(q)'
  <2>1. CallsKept(q)
    BY <1>1, <1>11, CallTaken
  <2>2. LinksKept(q) /\ PluginKept(q)
    BY <1>4, <1>6, <1>11 DEF LinksKept, PluginKept, javascript, Typed, TypedPlugin
  <2> QED BY <1>7, <1>11, <2>1, <2>2, Elsewhere DEF InTurn
<1> QED BY <1>9, <1>10, <1>11 DEF InTurn, Turn

LEMMA TurnConnectEnds ==
  ASSUME Typed, InTurn, NEW p \in Peer, ConnectDone(p) \/ ConnectBroke(p)
  PROVE  InTurn'
<1>1. connection[p] = "connecting" /\ pending[p] \in Transport
  BY DEF ConnectDone, ConnectBroke, Typed, TypedPlugin
<1>2. PICK k \in {"connected", "refused"} : events' = Emit(k, p, pending[p])
  BY DEF ConnectDone, ConnectBroke
<1> PICK t \in Transport : t = pending[p]
  BY <1>1
<1> DEFINE e == [kind |-> k, peer |-> p, transport |-> t]
<1>3. e \in Event /\ events' = Append(events, e)
  BY <1>2 DEF Event, Emit
<1>4. /\ UNCHANGED <<javascript, calls>>
      /\ pending' = [pending EXCEPT ![p] = None]
      /\ \/ connection' = [connection EXCEPT ![p] = "ready"] /\ k = "connected"
         \/ connection' = [connection EXCEPT ![p] = "none"] /\ k = "refused"
  BY <1>2 DEF ConnectDone, ConnectBroke, Established, Emit
<1>5. Turn(p) /\ Served(p)
  BY DEF InTurn
<1>6. Making(p, t)
  BY <1>1, <1>5 DEF Turn, Settled, Asked, Making, Told, Leaving
<1>7. /\ connection'[p] \in {"ready", "none"} /\ pending'[p] = None
      /\ k = "refused" => connection'[p] = "none"
  BY <1>4 DEF Typed, TypedPlugin
<1>8. TheAnswer(events', p, e) /\ NoEnd(events', p)
  BY <1>3, <1>6, PushAnswer DEF Making, Typed, TypedQueues
<1>9. Told(p, e)'
  BY <1>4, <1>6, <1>7, <1>8 DEF Told, Making, javascript
<1>10. Served(p)'
  BY <1>4, <1>5, <1>7, <1>8 DEF Served, Dialled, javascript
<1>11. ASSUME NEW q \in Peer, q # p PROVE Turn(q)' /\ Served(q)'
  <2>1. CallsKept(q) /\ AnswersKept(q) /\ EndsKept(q)
    BY <1>3, <1>4, <1>11, CallsSame, EventMade
  <2>2. LinksKept(q) /\ PluginKept(q)
    BY <1>4, <1>11 DEF LinksKept, PluginKept, javascript, Typed, TypedPlugin
  <2> QED BY <1>11, <2>1, <2>2, Elsewhere DEF InTurn
<1> QED BY <1>3, <1>9, <1>10, <1>11 DEF InTurn, Turn

LEMMA TurnConnectedToUs ==
  ASSUME Calm, Typed, InTurn, NEW p \in Peer, ConnectedToUs(p)
  PROVE  InTurn'
<1>1. /\ ~Dialled(p) /\ connection[p] = "none" /\ ~About(p, calls)
      /\ connection' = [connection EXCEPT ![p] = "ready"]
      /\ pending' = [pending EXCEPT ![p] = None]
      /\ UNCHANGED <<javascript, calls, events>>
  BY DEF ConnectedToUs, Established, Dialled
<1>2. NoCall(calls, p)
  <2>1. DOMAIN calls = 1 .. Len(calls)
    BY DEF Typed, TypedQueues
  <2> QED BY <1>1, <2>1 DEF About, NoCall
<1>3. Turn(p) /\ Served(p)
  BY DEF InTurn
<1>4. connection'[p] = "ready" /\ pending'[p] = None
  BY <1>1 DEF Typed, TypedPlugin
<1>5. \A c : ~TheCall(calls, p, c)
  BY <1>2 DEF TheCall, NoCall
<1>6. Turn(p)'
  <2>1. Settled(p) => Settled(p)'
    BY <1>1, <1>4 DEF Settled, Dialled
  <2>2. ASSUME NEW a \in Event, Told(p, a) PROVE Told(p, a)'
    BY <1>1, <1>4, <2>2 DEF Told, Dialled, javascript
  <2>3. \A t \in Transport : ~Making(p, t)
    BY <1>1 DEF Making
  <2> QED BY <1>3, <1>5, <2>1, <2>2, <2>3 DEF Turn, Asked, Leaving
<1>7. Served(p)'
  BY <1>1, <1>3, <1>4 DEF Served, Dialled, javascript
<1>8. ASSUME NEW q \in Peer, q # p PROVE Turn(q)' /\ Served(q)'
  <2>1. CallsKept(q) /\ AnswersKept(q) /\ EndsKept(q)
    BY <1>1, CallsSame, EventsSame
  <2>2. LinksKept(q) /\ PluginKept(q)
    BY <1>1, <1>8 DEF LinksKept, PluginKept, javascript, Typed, TypedPlugin
  <2> QED BY <1>8, <2>1, <2>2, Elsewhere DEF InTurn
<1> QED BY <1>6, <1>7, <1>8 DEF InTurn

LEMMA TurnConnectionLost ==
  ASSUME Typed, InTurn, NEW p \in Peer, ConnectionLost(p)
  PROVE  InTurn'
<1> DEFINE e == [kind |-> "disconnected", peer |-> p, transport |-> None]
<1>1. /\ connection[p] = "ready"
      /\ connection' = [connection EXCEPT ![p] = "none"]
      /\ events' = Append(events, e)
      /\ UNCHANGED <<javascript, calls, pending>>
  BY DEF ConnectionLost, Emit
<1>2. e \in Event /\ e.peer = p /\ e.kind = "disconnected"
  BY DEF Event
<1> HIDE DEF e
<1>3. Turn(p) /\ Served(p)
  BY DEF InTurn
<1>4. connection'[p] = "none"
  BY <1>1 DEF Typed, TypedPlugin
<1>5. AnswersKept(p)
  BY <1>1, <1>2, EventMade
<1>6. Turn(p)'
  <2>1. Settled(p) => Settled(p)'
    BY <1>1, <1>4, <1>5 DEF Settled, AnswersKept, Dialled
  <2>2. ASSUME NEW t \in Transport, Asked(p, t) PROVE Asked(p, t)'
    BY <1>1, <1>4, <1>5, <2>2 DEF Asked, AnswersKept, Dialled, javascript
  <2>3. \A t \in Transport : ~Making(p, t)
    BY <1>1 DEF Making
  <2>4. ASSUME NEW a \in Event, Told(p, a) PROVE Told(p, a)'
    BY <1>1, <1>4, <1>5, <2>4 DEF Told, AnswersKept, Dialled, javascript
  <2>5. Leaving(p) => Leaving(p)'
    BY <1>1, <1>4, <1>5 DEF Leaving, AnswersKept, javascript
  <2> QED BY <1>3, <2>1, <2>2, <2>3, <2>4, <2>5 DEF Turn
<1>7. Served(p)'
  <2>1. pending[p] = None
    BY <1>1, <1>3 DEF Served
  <2> QED BY <1>1, <1>3, <1>4, <2>1 DEF Served, Dialled, javascript
<1>8. ASSUME NEW q \in Peer, q # p PROVE Turn(q)' /\ Served(q)'
  <2>1. CallsKept(q) /\ AnswersKept(q) /\ EndsKept(q)
    BY <1>1, <1>2, <1>8, CallsSame, EventMade
  <2>2. LinksKept(q) /\ PluginKept(q)
    BY <1>1, <1>8 DEF LinksKept, PluginKept, javascript, Typed, TypedPlugin
  <2> QED BY <1>8, <2>1, <2>2, Elsewhere DEF InTurn
<1> QED BY <1>6, <1>7, <1>8 DEF InTurn

LEMMA TurnStep ==
  ASSUME Calm
  PROVE  Typed /\ InTurn /\ [Next]_vars => InTurn'
<1> SUFFICES ASSUME Typed, InTurn, [Next]_vars PROVE InTurn'
  OBVIOUS
<1>1. CASE PacketReceived
  <2>1. \A p \in Peer : ~Answer(events, p, 1)
    BY <1>1, HeadEvent DEF PacketReceived, NextIs, Answer
  <2>2. \A p \in Peer : AnswersKept(p) /\ EndsKept(p)
    BY <1>1, <2>1, EventTaken DEF PacketReceived, NextIs
  <2> QED BY <1>1, <2>2, TurnSame DEF PacketReceived, native
<1>2. ASSUME NEW p \in Peer, Age(p) PROVE InTurn'
  BY <1>2, EventsSame, TurnSame DEF Age, native
<1>3. ASSUME NEW p \in Peer, PacketArrives(p) PROVE InTurn'
  <2> DEFINE n == [connection |-> count[p], number |-> sent[p] + 1]
             e == [kind |-> "packet", peer |-> p, packet |-> n]
  <2>1. n \in PacketName
    BY HubAssumption DEF PacketName, Typed, TypedPlugin
  <2>2. e \in Event /\ e.kind = "packet" /\ events' = Append(events, e)
    BY <1>3, <2>1 DEF Event, PacketArrives
  <2> HIDE DEF e
  <2>3. \A q \in Peer : AnswersKept(q) /\ EndsKept(q)
    BY <2>2, EventMade
  <2> QED BY <1>3, <2>3, TurnSame DEF PacketArrives, javascript
<1>4. CASE UNCHANGED vars
  BY <1>4, EventsSame, TurnSame DEF vars, javascript, native
<1> QED
  BY <1>1, <1>2, <1>3, <1>4, TurnOpen, TurnClose, TurnConnected, TurnConnectFailed,
     TurnDisconnected, TurnNativeConnect, TurnNativeDisconnect, TurnConnectEnds,
     TurnConnectedToUs, TurnConnectionLost DEF Next

(* While reopening and reconnecting to a peer are slower than what the      *)
(* bridge carries of it, a link the application holds hears its peer,       *)
(* however calls, answers and the ends of connections cross (hub.ts: there  *)
(* is no window where nothing is listening).                                *)
THEOREM LinksListen ==
  ASSUME Calm
  PROVE  Spec => []OpenLinkListens
<1>1. Typed /\ InTurn => OpenLinkListens
  <2> SUFFICES ASSUME Typed, InTurn, NEW t \in Transport, link[t] = "open"
               PROVE  transports[peerOf[t]] = t /\ t \notin closed
    BY DEF OpenLinkListens
  <2>1. peerOf[t] \in Peer
    BY DEF Typed, TypedHub
  <2>2. t # None
    BY HubAssumption DEF Transport, None
  <2> QED BY <2>1, <2>2 DEF InTurn, Served
<1> QED BY <1>1, TypedInit, TurnInit, TypedStep, TurnStep, PTL DEF Spec

----------------------------------------------------------------------------
(* One thing under way for every open(): a queue holds no element, or one,  *)
(* of those that are about it.                                              *)
NoneOf(q, S) == \A i \in 1 .. Len(q) : q[i] \notin S

OneOf(q, S) ==
  \E i \in 1 .. Len(q) : q[i] \in S /\ \A j \in 1 .. Len(q) : q[j] \in S => j = i

LEMMA PopOf ==
  ASSUME NEW E, NEW q \in Seq(E), q # <<>>, NEW S
  PROVE  /\ NoneOf(q, S) => NoneOf(Tail(q), S) /\ q[1] \notin S
         /\ OneOf(q, S) /\ q[1] \notin S => OneOf(Tail(q), S)
         /\ OneOf(q, S) /\ q[1] \in S => NoneOf(Tail(q), S)
<1> DEFINE r == Tail(q)
           n == Len(q)
<1>1. /\ n \in Nat \ {0} /\ Len(r) = n - 1 /\ 1 \in 1 .. n
      /\ \A i \in 1 .. n - 1 : r[i] = q[i + 1] /\ i + 1 \in 1 .. n
  BY Queue
<1> HIDE DEF r, n
<1>2. NoneOf(q, S) => NoneOf(r, S) /\ q[1] \notin S
  BY <1>1 DEF NoneOf, n
<1>3. ASSUME NEW i \in 1 .. n, q[i] \in S, \A j \in 1 .. n : q[j] \in S => j = i
      PROVE  /\ q[1] \notin S => OneOf(r, S)
             /\ q[1] \in S => NoneOf(r, S)
  <2>1. ASSUME q[1] \notin S  PROVE OneOf(r, S)
    <3>1. i - 1 \in 1 .. Len(r) /\ r[i - 1] = q[i]
      <4>1. i # 1
        BY <1>3, <2>1
      <4>2. i - 1 \in 1 .. n - 1 /\ (i - 1) + 1 = i
        BY <1>1, <4>1
      <4> QED BY <1>1, <4>2
    <3>2. ASSUME NEW j \in 1 .. Len(r), r[j] \in S  PROVE j = i - 1
      <4>1. j \in 1 .. n - 1 /\ j + 1 \in 1 .. n /\ q[j + 1] \in S
        BY <1>1, <3>2
      <4>2. j + 1 = i
        BY <1>3, <4>1
      <4> QED BY <4>1, <4>2
    <3> QED BY <1>3, <3>1, <3>2 DEF OneOf
  <2>2. ASSUME q[1] \in S  PROVE NoneOf(r, S)
    <3>1. i = 1
      BY <1>1, <1>3, <2>2
    <3>2. ASSUME NEW j \in 1 .. Len(r)  PROVE r[j] \notin S
      <4>1. j \in 1 .. n - 1 /\ j + 1 \in 1 .. n /\ j + 1 # 1
        BY <1>1
      <4> QED BY <1>1, <1>3, <3>1, <4>1
    <3> QED BY <3>2 DEF NoneOf
  <2> QED BY <2>1, <2>2
<1>4. OneOf(q, S) => \E i \in 1 .. n : q[i] \in S /\ \A j \in 1 .. n : q[j] \in S => j = i
  BY DEF OneOf, n
<1> QED BY <1>2, <1>3, <1>4 DEF r

LEMMA PushOf ==
  ASSUME NEW E, NEW q \in Seq(E), NEW e \in E, NEW S
  PROVE  /\ e \notin S => /\ NoneOf(q, S) => NoneOf(Append(q, e), S)
                          /\ OneOf(q, S) => OneOf(Append(q, e), S)
         /\ e \in S /\ NoneOf(q, S) => OneOf(Append(q, e), S)
<1> DEFINE b == Append(q, e)
           n == Len(q)
<1>1. /\ n \in Nat /\ Len(b) = n + 1 /\ b[n + 1] = e
      /\ \A i \in 1 .. n : b[i] = q[i]
  BY Queued
<1>2. \A i \in 1 .. Len(b) : i \in 1 .. n \/ i = n + 1
  BY <1>1
<1>3. n + 1 \in 1 .. Len(b) /\ \A i \in 1 .. n : i \in 1 .. Len(b)
  BY <1>1
<1> HIDE DEF b, n
<1>4. e \notin S /\ NoneOf(q, S) => NoneOf(b, S)
  BY <1>1, <1>2 DEF NoneOf, n
<1>5. ASSUME e \notin S, OneOf(q, S)  PROVE OneOf(b, S)
  <2>1. PICK i \in 1 .. n : q[i] \in S /\ \A j \in 1 .. n : q[j] \in S => j = i
    BY <1>5 DEF OneOf, n
  <2>2. i \in 1 .. Len(b) /\ b[i] \in S /\ \A j \in 1 .. Len(b) : b[j] \in S => j = i
    BY <1>1, <1>2, <1>3, <1>5, <2>1
  <2> QED BY <2>2 DEF OneOf
<1>6. e \in S /\ NoneOf(q, S) => OneOf(b, S)
  BY <1>1, <1>2, <1>3 DEF NoneOf, OneOf, n
<1> QED BY <1>4, <1>5, <1>6 DEF b

ConnectsOf(t) == {c \in BridgeCall : c.kind = "connect" /\ c.transport = t}

AnswersOf(t) == {e \in Event : e.kind \in {"connected", "refused"} /\ e.transport = t}

DialsFor(t) == connection[peerOf[t]] = "connecting" /\ pending[peerOf[t]] = t

Awaits(t) ==
  IF link[t] # "opening"
  THEN NoneOf(calls, ConnectsOf(t)) /\ ~DialsFor(t) /\ NoneOf(events, AnswersOf(t))
  ELSE \/ OneOf(calls, ConnectsOf(t)) /\ ~DialsFor(t) /\ NoneOf(events, AnswersOf(t))
       \/ NoneOf(calls, ConnectsOf(t)) /\ DialsFor(t) /\ NoneOf(events, AnswersOf(t))
       \/ NoneOf(calls, ConnectsOf(t)) /\ ~DialsFor(t) /\ OneOf(events, AnswersOf(t))

(* A call and a connection being made are for the peer of their open().     *)
Astray == {c \in BridgeCall : c.kind = "connect" /\ peerOf[c.transport] # c.peer}

PendingFor(p) ==
  IF connection[p] = "connecting" THEN peerOf[pending[p]] = p ELSE pending[p] = None

Awaited ==
  /\ \A t \in Transport : Awaits(t)
  /\ NoneOf(calls, Astray)
  /\ \A p \in Peer : PendingFor(p)

(* What a step leaves under way for an open() it is not about.              *)
WayKept(t) ==
  /\ link'[t] = "opening" <=> link[t] = "opening"
  /\ NoneOf(calls, ConnectsOf(t)) => NoneOf(calls', ConnectsOf(t))
  /\ OneOf(calls, ConnectsOf(t)) => OneOf(calls', ConnectsOf(t))
  /\ NoneOf(events, AnswersOf(t)) => NoneOf(events', AnswersOf(t))
  /\ OneOf(events, AnswersOf(t)) => OneOf(events', AnswersOf(t))
  /\ DialsFor(t)' <=> DialsFor(t)

LEMMA WayUndisturbed ==
  ASSUME NEW t \in Transport, Awaits(t), WayKept(t)
  PROVE  Awaits(t)'
BY DEF Awaits, WayKept

(* What is no answer may come and go, and so may a call that opens nothing. *)
LEMMA EventTakenOf ==
  ASSUME Typed, events # <<>>, events' = Tail(events), NEW t, events[1] \notin AnswersOf(t)
  PROVE  /\ NoneOf(events, AnswersOf(t)) => NoneOf(events', AnswersOf(t))
         /\ OneOf(events, AnswersOf(t)) => OneOf(events', AnswersOf(t))
BY PopOf DEF Typed, TypedQueues

LEMMA EventMadeOf ==
  ASSUME Typed, NEW e \in Event, events' = Append(events, e), NEW t
  PROVE  /\ e \notin AnswersOf(t) =>
              /\ NoneOf(events, AnswersOf(t)) => NoneOf(events', AnswersOf(t))
              /\ OneOf(events, AnswersOf(t)) => OneOf(events', AnswersOf(t))
         /\ e \in AnswersOf(t) /\ NoneOf(events, AnswersOf(t)) => OneOf(events', AnswersOf(t))
BY PushOf DEF Typed, TypedQueues

LEMMA CallTakenOf ==
  ASSUME Typed, calls # <<>>, calls' = Tail(calls), NEW S
  PROVE  /\ NoneOf(calls, S) => NoneOf(calls', S) /\ Head(calls) \notin S
         /\ OneOf(calls, S) /\ Head(calls) \notin S => OneOf(calls', S)
         /\ OneOf(calls, S) /\ Head(calls) \in S => NoneOf(calls', S)
BY PopOf, HeadCall DEF Typed, TypedQueues

LEMMA CallMadeOf ==
  ASSUME Typed, NEW c \in BridgeCall, calls' = Append(calls, c), NEW S
  PROVE  /\ c \notin S => /\ NoneOf(calls, S) => NoneOf(calls', S)
                          /\ OneOf(calls, S) => OneOf(calls', S)
         /\ c \in S /\ NoneOf(calls, S) => OneOf(calls', S)
BY PushOf DEF Typed, TypedQueues

LEMMA AwaitedInit == Init => Awaited
<1> SUFFICES ASSUME Init  PROVE Awaited
  OBVIOUS
<1>1. calls = <<>> /\ events = <<>> /\ \A p \in Peer : connection[p] = "none" /\ pending[p] = None
  BY DEF Init
<1>2. \A S : NoneOf(calls, S) /\ NoneOf(events, S)
  BY <1>1 DEF NoneOf
<1>3. \A t \in Transport : link[t] = "unborn" /\ peerOf[t] \in Peer
  BY DEF Init
<1> QED BY <1>1, <1>2, <1>3 DEF Awaited, Awaits, DialsFor, PendingFor

(* A step about none of the open()s.                                        *)
LEMMA AwaitedElsewhere ==
  ASSUME Typed, Awaited, UNCHANGED peerOf,
         \A t \in Transport : WayKept(t),
         NoneOf(calls, Astray) => NoneOf(calls', Astray),
         \A p \in Peer : PendingFor(p)'
  PROVE  Awaited'
<1>1. \A t \in Transport : Awaits(t)'
  BY WayUndisturbed DEF Awaited
<1>2. Astray' = Astray
  BY DEF Astray
<1> QED BY <1>1, <1>2 DEF Awaited

(* A step about the open() t.                                               *)
LEMMA AwaitedOne ==
  ASSUME Typed, Awaited, UNCHANGED peerOf, NEW t \in Transport,
         Awaits(t)', \A s \in Transport \ {t} : WayKept(s),
         NoneOf(calls, Astray) => NoneOf(calls', Astray),
         \A p \in Peer : PendingFor(p)'
  PROVE  Awaited'
<1>1. \A s \in Transport \ {t} : Awaits(s)'
  BY WayUndisturbed DEF Awaited
<1>2. Astray' = Astray
  BY DEF Astray
<1> QED BY <1>1, <1>2 DEF Awaited

LEMMA AwaitedOpen ==
  ASSUME Typed, Awaited, NEW t \in Transport, Open(t)
  PROVE  Awaited'
<1> PICK p \in Peer : p = peerOf[t]
  BY DEF Typed, TypedHub
<1> DEFINE c == [kind |-> "connect", peer |-> p, transport |-> t]
<1>1. /\ link[t] = "unborn" /\ link' = [link EXCEPT ![t] = "opening"]
      /\ calls' = Append(calls, c)
      /\ UNCHANGED <<peerOf, events, connection, pending>>
  BY DEF Open, native
<1>2. c \in BridgeCall /\ c \in ConnectsOf(t) /\ c \notin Astray
  BY DEF BridgeCall, ConnectsOf, Astray
<1>3. \A s \in Transport \ {t} : c \notin ConnectsOf(s)
  BY DEF ConnectsOf
<1> HIDE DEF c
<1>4. Awaits(t)'
  <2>1. NoneOf(calls, ConnectsOf(t)) /\ ~DialsFor(t) /\ NoneOf(events, AnswersOf(t))
    BY <1>1 DEF Awaited, Awaits
  <2>2. OneOf(calls', ConnectsOf(t))
    BY <1>1, <1>2, <2>1, CallMadeOf
  <2>3. link'[t] = "opening" /\ ~DialsFor(t)' /\ NoneOf(events', AnswersOf(t))
    BY <1>1, <2>1 DEF Typed, TypedHub, DialsFor
  <2> QED BY <2>2, <2>3 DEF Awaits
<1>5. ASSUME NEW s \in Transport \ {t}  PROVE WayKept(s)
  <2>1. link'[s] = link[s]
    BY <1>1 DEF Typed, TypedHub
  <2> QED BY <1>1, <1>2, <1>3, <2>1, CallMadeOf DEF WayKept, DialsFor
<1>6. NoneOf(calls, Astray) => NoneOf(calls', Astray)
  BY <1>1, <1>2, CallMadeOf
<1>7. \A q \in Peer : PendingFor(q)'
  BY <1>1 DEF Awaited, PendingFor
<1> QED BY <1>1, <1>4, <1>5, <1>6, <1>7, AwaitedOne

LEMMA AwaitedClose ==
  ASSUME Typed, Awaited, NEW t \in Transport, Close(t)
  PROVE  Awaited'
<1> PICK p \in Peer : p = peerOf[t]
  BY DEF Typed, TypedHub
<1> DEFINE c == [kind |-> "disconnect", peer |-> p, transport |-> None]
<1>1. /\ link[t] = "open" /\ link' = [link EXCEPT ![t] = "closed"]
      /\ calls' = calls \/ calls' = Append(calls, c)
      /\ UNCHANGED <<peerOf, events, connection, pending>>
  BY DEF Close, native
<1>2. c \in BridgeCall /\ c \notin Astray /\ \A s : c \notin ConnectsOf(s)
  BY DEF BridgeCall, ConnectsOf, Astray
<1> HIDE DEF c
<1>3. ASSUME NEW s \in Transport  PROVE WayKept(s)
  <2>1. link'[s] = "opening" <=> link[s] = "opening"
    BY <1>1 DEF Typed, TypedHub
  <2> QED BY <1>1, <1>2, <2>1, CallMadeOf DEF WayKept, DialsFor
<1>4. NoneOf(calls, Astray) => NoneOf(calls', Astray)
  BY <1>1, <1>2, CallMadeOf
<1>5. \A q \in Peer : PendingFor(q)'
  BY <1>1 DEF Awaited, PendingFor
<1> QED BY <1>1, <1>3, <1>4, <1>5, AwaitedElsewhere

(* The answer to an open() is the one thing that was under way for it.      *)
LEMMA AwaitedAnswer ==
  ASSUME Typed, Awaited, Connected \/ ConnectFailed
  PROVE  Awaited'
<1>1. /\ events # <<>> /\ Head(events) = events[1] /\ events' = Tail(events)
      /\ Head(events).transport \in Transport
      /\ Head(events).kind \in {"connected", "refused"} /\ events[1] \in Event
  <2>1. events # <<>> /\ events' = Tail(events) /\ Head(events).kind \in {"connected", "refused"}
    BY DEF Connected, ConnectFailed, NextIs
  <2> QED BY <2>1, HeadEvent, Queue DEF Typed, TypedQueues
<1> PICK t \in Transport : t = Head(events).transport
  BY <1>1
<1>2. /\ link' = [link EXCEPT ![t] = "open"] \/ link' = [link EXCEPT ![t] = "failed"]
      /\ UNCHANGED <<peerOf, calls, connection, pending>>
  BY DEF Connected, ConnectFailed, native
<1>3. events[1] \in AnswersOf(t) /\ \A s \in Transport \ {t} : events[1] \notin AnswersOf(s)
  BY <1>1 DEF AnswersOf
<1>4. Awaits(t)'
  <2>1. ~NoneOf(events, AnswersOf(t))
    BY <1>1, <1>3, PopOf DEF Typed, TypedQueues
  <2>2. NoneOf(calls, ConnectsOf(t)) /\ ~DialsFor(t) /\ OneOf(events, AnswersOf(t))
    BY <2>1 DEF Awaited, Awaits
  <2>3. NoneOf(events', AnswersOf(t))
    BY <1>1, <1>3, <2>2, PopOf DEF Typed, TypedQueues
  <2>4. link'[t] # "opening" /\ ~DialsFor(t)' /\ NoneOf(calls', ConnectsOf(t))
    BY <1>2, <2>2 DEF Typed, TypedHub, DialsFor
  <2> QED BY <2>3, <2>4 DEF Awaits
<1>5. ASSUME NEW s \in Transport \ {t}  PROVE WayKept(s)
  <2>1. link'[s] = link[s]
    BY <1>2 DEF Typed, TypedHub
  <2> QED BY <1>1, <1>2, <1>3, <2>1, EventTakenOf DEF WayKept, DialsFor
<1>6. \A q \in Peer : PendingFor(q)'
  BY <1>2 DEF Awaited, PendingFor
<1> QED BY <1>2, <1>4, <1>5, <1>6, AwaitedOne

LEMMA AwaitedEvent ==
  ASSUME Typed, Awaited, Disconnected \/ PacketReceived
  PROVE  Awaited'
<1>1. /\ events # <<>> /\ events' = Tail(events) /\ Head(events) = events[1]
      /\ Head(events).kind \in {"disconnected", "packet"} /\ Head(events).peer \in Peer
      /\ UNCHANGED <<peerOf, calls, connection, pending>>
  BY HeadEvent DEF Disconnected, PacketReceived, NextIs, native
<1>2. \A s \in Transport : events[1] \notin AnswersOf(s)
  BY <1>1 DEF AnswersOf
<1>3. ASSUME NEW s \in Transport  PROVE link'[s] = "opening" <=> link[s] = "opening"
  <2>1. CASE Disconnected
    BY <2>1 DEF Disconnected, Signal, Typed, TypedHub
  <2>2. CASE PacketReceived
    BY <2>2 DEF PacketReceived
  <2> QED BY <2>1, <2>2
<1>4. ASSUME NEW s \in Transport  PROVE WayKept(s)
  BY <1>1, <1>2, <1>3, EventTakenOf DEF WayKept, DialsFor
<1>5. \A q \in Peer : PendingFor(q)'
  BY <1>1 DEF Awaited, PendingFor
<1> QED BY <1>1, <1>4, <1>5, AwaitedElsewhere

(* Packets, the end of a connection and the age of a buffer answer nothing. *)
LEMMA AwaitedOnTheAir ==
  ASSUME Typed, Awaited, NEW p \in Peer,
         Age(p) \/ ConnectedToUs(p) \/ ConnectionLost(p) \/ PacketArrives(p)
  PROVE  Awaited'
<1>1. UNCHANGED <<link, peerOf, calls>>
  BY DEF Age, ConnectedToUs, ConnectionLost, PacketArrives, javascript
<1>2. events' = events \/ \E e \in Event : /\ events' = Append(events, e)
                                           /\ e.kind \in {"disconnected", "packet"}
  <2>1. CASE Age(p) \/ ConnectedToUs(p)
    BY <2>1 DEF Age, ConnectedToUs
  <2>2. CASE ConnectionLost(p)
    <3>1. [kind |-> "disconnected", peer |-> p, transport |-> None] \in Event
      BY DEF Event
    <3> QED BY <2>2, <3>1 DEF ConnectionLost, Emit
  <2>3. CASE PacketArrives(p)
    <3>1. [connection |-> count[p], number |-> sent[p] + 1] \in PacketName
      BY HubAssumption DEF PacketName, Typed, TypedPlugin
    <3>2. [kind |-> "packet", peer |-> p,
           packet |-> [connection |-> count[p], number |-> sent[p] + 1]] \in Event
      BY <3>1 DEF Event
    <3> QED BY <2>3, <3>2 DEF PacketArrives
  <2> QED BY <2>1, <2>2, <2>3
<1>3. \A q \in Peer : /\ connection'[q] = "connecting" <=> connection[q] = "connecting"
                      /\ connection[q] = "connecting" => pending'[q] = pending[q]
                      /\ connection[q] # "connecting" => pending'[q] = None
  <2>1. \A q \in Peer : connection[q] # "connecting" => pending[q] = None
    BY DEF Awaited, PendingFor
  <2>2. CASE Age(p) \/ PacketArrives(p)
    BY <2>1, <2>2 DEF Age, PacketArrives, native
  <2>3. CASE ConnectionLost(p)
    BY <2>1, <2>3 DEF ConnectionLost, Typed, TypedPlugin
  <2>4. CASE ConnectedToUs(p)
    BY <2>1, <2>4 DEF ConnectedToUs, Established, Typed, TypedPlugin
  <2> QED BY <2>2, <2>3, <2>4
<1>4. ASSUME NEW s \in Transport  PROVE WayKept(s)
  <2>1. peerOf[s] \in Peer
    BY DEF Typed, TypedHub
  <2>2. DialsFor(s)' <=> DialsFor(s)
    BY <1>1, <1>3, <2>1 DEF DialsFor
  <2>3. /\ NoneOf(events, AnswersOf(s)) => NoneOf(events', AnswersOf(s))
        /\ OneOf(events, AnswersOf(s)) => OneOf(events', AnswersOf(s))
    BY <1>2, EventMadeOf DEF AnswersOf
  <2> QED BY <1>1, <2>2, <2>3 DEF WayKept
<1>5. \A q \in Peer : PendingFor(q)'
  BY <1>1, <1>3 DEF Awaited, PendingFor
<1> QED BY <1>1, <1>4, <1>5, AwaitedElsewhere

(* The plugin takes connect() and answers it, or dials first.               *)
LEMMA AwaitedNativeConnect ==
  ASSUME Typed, Awaited, NativeConnect
  PROVE  Awaited'
<1>1. /\ calls # <<>> /\ calls' = Tail(calls) /\ Head(calls) \in BridgeCall
      /\ Head(calls).kind = "connect"
      /\ Head(calls).peer \in Peer /\ Head(calls).transport \in Transport
      /\ UNCHANGED <<link, peerOf>>
  <2>1. calls # <<>> /\ calls' = Tail(calls) /\ Head(calls).kind = "connect"
        /\ UNCHANGED <<link, peerOf>>
    BY DEF NativeConnect, Call, javascript
  <2> QED BY <2>1, HeadCall, Queue DEF Typed, TypedQueues
<1> PICK p \in Peer : p = Head(calls).peer
  BY <1>1
<1> PICK t \in Transport : t = Head(calls).transport
  BY <1>1
<1>2. Head(calls) \in ConnectsOf(t) /\ \A s \in Transport \ {t} : Head(calls) \notin ConnectsOf(s)
  BY <1>1 DEF ConnectsOf
<1>3. peerOf[t] = p
  BY <1>1, CallTakenOf DEF Awaited, Astray
<1>4. /\ link[t] = "opening" /\ ~DialsFor(t) /\ NoneOf(events, AnswersOf(t))
      /\ NoneOf(calls', ConnectsOf(t))
  <2>1. ~NoneOf(calls, ConnectsOf(t))
    BY <1>1, <1>2, CallTakenOf
  <2>2. link[t] = "opening" /\ OneOf(calls, ConnectsOf(t)) /\ ~DialsFor(t) /\ NoneOf(events, AnswersOf(t))
    BY <2>1 DEF Awaited, Awaits
  <2> QED BY <1>1, <1>2, <2>2, CallTakenOf
<1>5. NoneOf(calls, Astray) => NoneOf(calls', Astray)
  BY <1>1, CallTakenOf
<1>6. \A s \in Transport \ {t} : /\ NoneOf(calls, ConnectsOf(s)) => NoneOf(calls', ConnectsOf(s))
                                 /\ OneOf(calls, ConnectsOf(s)) => OneOf(calls', ConnectsOf(s))
  BY <1>1, <1>2, CallTakenOf
<1>7. CASE /\ UNCHANGED native
           /\ events' = Emit("connected", p, t) \/ events' = Emit("refused", p, t)
  <2>1. PICK k \in {"connected", "refused"} :
          events' = Append(events, [kind |-> k, peer |-> p, transport |-> t])
    BY <1>7 DEF Emit
  <2> DEFINE e == [kind |-> k, peer |-> p, transport |-> t]
  <2>2. e \in Event /\ e \in AnswersOf(t) /\ \A s \in Transport \ {t} : e \notin AnswersOf(s)
    BY DEF Event, AnswersOf
  <2> HIDE DEF e
  <2>3. Awaits(t)'
    <3>1. OneOf(events', AnswersOf(t))
      BY <1>4, <2>1, <2>2, EventMadeOf DEF e
    <3>2. ~DialsFor(t)' /\ link'[t] = "opening"
      BY <1>1, <1>4, <1>7 DEF DialsFor, native
    <3> QED BY <1>4, <3>1, <3>2 DEF Awaits
  <2>4. ASSUME NEW s \in Transport \ {t}  PROVE WayKept(s)
    BY <1>1, <1>6, <1>7, <2>1, <2>2, EventMadeOf DEF WayKept, DialsFor, native, e
  <2>5. \A q \in Peer : PendingFor(q)'
    BY <1>1, <1>7 DEF Awaited, PendingFor, native
  <2> QED BY <1>1, <1>5, <2>3, <2>4, <2>5, AwaitedOne
<1>8. CASE /\ connection[p] = "none"
           /\ connection' = [connection EXCEPT ![p] = "connecting"]
           /\ pending' = [pending EXCEPT ![p] = t]
           /\ UNCHANGED events
  <2>1. /\ connection'[p] = "connecting" /\ pending'[p] = t
        /\ \A q \in Peer \ {p} : connection'[q] = connection[q] /\ pending'[q] = pending[q]
    BY <1>8 DEF Typed, TypedPlugin
  <2>2. Awaits(t)'
    <3>1. DialsFor(t)' /\ link'[t] = "opening"
      BY <1>1, <1>3, <1>4, <2>1 DEF DialsFor
    <3> QED BY <1>4, <1>8, <3>1 DEF Awaits
  <2>3. ASSUME NEW s \in Transport \ {t}  PROVE WayKept(s)
    <3>1. peerOf[s] \in Peer
      BY DEF Typed, TypedHub
    <3>2. DialsFor(s)' <=> DialsFor(s)
      BY <1>1, <1>8, <2>1, <3>1 DEF DialsFor
    <3> QED BY <1>1, <1>6, <1>8, <3>2 DEF WayKept
  <2>4. \A q \in Peer : PendingFor(q)'
    BY <1>1, <1>3, <2>1 DEF Awaited, PendingFor
  <2> QED BY <1>1, <1>5, <2>2, <2>3, <2>4, AwaitedOne
<1> QED BY <1>7, <1>8 DEF NativeConnect

(* A connection that is being made is made, or is not: one answer.          *)
LEMMA AwaitedConnectEnds ==
  ASSUME Typed, Awaited, NEW p \in Peer, ConnectDone(p) \/ ConnectBroke(p)
  PROVE  Awaited'
<1>1. connection[p] = "connecting" /\ pending[p] \in Transport /\ peerOf[pending[p]] = p
  BY DEF ConnectDone, ConnectBroke, Typed, TypedPlugin, Awaited, PendingFor
<1> PICK t \in Transport : t = pending[p]
  BY <1>1
<1>2. PICK k \in {"connected", "refused"} :
        events' = Append(events, [kind |-> k, peer |-> p, transport |-> t])
  BY DEF ConnectDone, ConnectBroke, Emit
<1> DEFINE e == [kind |-> k, peer |-> p, transport |-> t]
<1>3. e \in Event /\ e \in AnswersOf(t) /\ \A s \in Transport \ {t} : e \notin AnswersOf(s)
  BY DEF Event, AnswersOf
<1> HIDE DEF e
<1>4. /\ connection'[p] # "connecting" /\ pending'[p] = None
      /\ \A q \in Peer \ {p} : connection'[q] = connection[q] /\ pending'[q] = pending[q]
      /\ UNCHANGED <<link, peerOf, calls>>
  BY DEF ConnectDone, ConnectBroke, Established, Typed, TypedPlugin, javascript
<1>5. Awaits(t)'
  <2>1. DialsFor(t)
    BY <1>1 DEF DialsFor
  <2>2. link[t] = "opening" /\ NoneOf(calls, ConnectsOf(t)) /\ NoneOf(events, AnswersOf(t))
    BY <2>1 DEF Awaited, Awaits
  <2>3. OneOf(events', AnswersOf(t))
    BY <1>2, <1>3, <2>2, EventMadeOf DEF e
  <2>4. ~DialsFor(t)'
    BY <1>1, <1>4 DEF DialsFor
  <2> QED BY <1>4, <2>2, <2>3, <2>4 DEF Awaits
<1>6. ASSUME NEW s \in Transport \ {t}  PROVE WayKept(s)
  <2>1. peerOf[s] \in Peer
    BY DEF Typed, TypedHub
  <2>2. DialsFor(s)' <=> DialsFor(s)
    BY <1>1, <1>4, <2>1 DEF DialsFor
  <2> QED BY <1>2, <1>3, <1>4, <2>2, EventMadeOf DEF WayKept, e
<1>7. \A q \in Peer : PendingFor(q)'
  BY <1>4 DEF Awaited, PendingFor
<1> QED BY <1>4, <1>5, <1>6, <1>7, AwaitedOne

(* disconnect() answers the connect() it cuts short, and nothing else.      *)
LEMMA AwaitedNativeDisconnect ==
  ASSUME Typed, Awaited, NativeDisconnect
  PROVE  Awaited'
<1>1. /\ calls # <<>> /\ calls' = Tail(calls) /\ Head(calls).kind = "disconnect"
      /\ Head(calls).peer \in Peer
      /\ UNCHANGED <<link, peerOf>>
  <2>1. calls # <<>> /\ calls' = Tail(calls) /\ Head(calls).kind = "disconnect"
        /\ UNCHANGED <<link, peerOf>>
    BY DEF NativeDisconnect, Call, javascript
  <2> QED BY <2>1, HeadCall
<1> PICK p \in Peer : p = Head(calls).peer
  BY <1>1
<1>2. \A s \in Transport : Head(calls) \notin ConnectsOf(s)
  BY <1>1 DEF ConnectsOf
<1>3. \A s \in Transport : /\ NoneOf(calls, ConnectsOf(s)) => NoneOf(calls', ConnectsOf(s))
                           /\ OneOf(calls, ConnectsOf(s)) => OneOf(calls', ConnectsOf(s))
  BY <1>1, <1>2, CallTakenOf
<1>4. NoneOf(calls, Astray) => NoneOf(calls', Astray)
  BY <1>1, CallTakenOf
<1> DEFINE d == [kind |-> "disconnected", peer |-> p, transport |-> None]
<1>5. d \in Event /\ \A s : d \notin AnswersOf(s)
  BY DEF Event, AnswersOf
<1>6. CASE connection[p] = "none"
  <2>1. UNCHANGED <<connection, pending, events>>
    BY <1>6 DEF NativeDisconnect, native
  <2>2. \A s \in Transport : WayKept(s)
    BY <1>1, <1>3, <2>1 DEF WayKept, DialsFor
  <2>3. \A q \in Peer : PendingFor(q)'
    BY <1>1, <2>1 DEF Awaited, PendingFor
  <2> QED BY <1>1, <1>4, <2>2, <2>3, AwaitedElsewhere
<1>7. ASSUME connection[p] # "none"
      PROVE  /\ connection'[p] = "none" /\ pending'[p] = None
             /\ \A q \in Peer \ {p} : connection'[q] = connection[q] /\ pending'[q] = pending[q]
             /\ \A q \in Peer : PendingFor(q)'
  <2>1. /\ connection' = [connection EXCEPT ![p] = "none"]
        /\ pending' = [pending EXCEPT ![p] = None]
    BY <1>7 DEF NativeDisconnect
  <2>2. /\ connection'[p] = "none" /\ pending'[p] = None
        /\ \A q \in Peer \ {p} : connection'[q] = connection[q] /\ pending'[q] = pending[q]
    BY <2>1 DEF Typed, TypedPlugin
  <2> QED BY <1>1, <2>2 DEF Awaited, PendingFor
<1>8. CASE connection[p] = "ready"
  <2>1. pending[p] = None
    BY <1>8 DEF Awaited, PendingFor
  <2>2. events' = Append(events, d)
    BY <1>8, <2>1 DEF NativeDisconnect
  <2>3. ASSUME NEW s \in Transport  PROVE WayKept(s)
    <3>1. peerOf[s] \in Peer
      BY DEF Typed, TypedHub
    <3>2. DialsFor(s)' <=> DialsFor(s)
      BY <1>1, <1>7, <1>8, <3>1 DEF DialsFor
    <3> HIDE DEF d
    <3> QED BY <1>1, <1>3, <1>5, <2>2, <3>2, EventMadeOf DEF WayKept
  <2> QED BY <1>1, <1>4, <1>7, <1>8, <2>3, AwaitedElsewhere
<1>9. CASE connection[p] = "connecting"
  <2>1. pending[p] \in Transport /\ peerOf[pending[p]] = p /\ pending[p] # None
    BY <1>9, HubAssumption DEF Typed, TypedPlugin, Awaited, PendingFor, Transport, None
  <2> PICK t \in Transport : t = pending[p]
    BY <2>1
  <2> DEFINE e == [kind |-> "refused", peer |-> p, transport |-> t]
             f == Append(events, e)
  <2>2. e \in Event /\ e \in AnswersOf(t) /\ \A s \in Transport \ {t} : e \notin AnswersOf(s)
    BY DEF Event, AnswersOf
  <2>3. events' = Append(f, d)
    BY <1>9, <2>1 DEF NativeDisconnect, Emit
  <2> HIDE DEF d, e
  <2>4. f \in Seq(Event) /\ events \in Seq(Event)
    BY <2>2, Queued DEF Typed, TypedQueues
  <2>5. \A s \in Transport : /\ NoneOf(f, AnswersOf(s)) => NoneOf(events', AnswersOf(s))
                             /\ OneOf(f, AnswersOf(s)) => OneOf(events', AnswersOf(s))
    BY <1>5, <2>3, <2>4, PushOf
  <2>6. \A s \in Transport \ {t} : /\ NoneOf(events, AnswersOf(s)) => NoneOf(f, AnswersOf(s))
                                   /\ OneOf(events, AnswersOf(s)) => OneOf(f, AnswersOf(s))
    BY <2>2, <2>4, PushOf
  <2>7. NoneOf(events, AnswersOf(t)) => OneOf(f, AnswersOf(t))
    BY <2>2, <2>4, PushOf
  <2> HIDE DEF f
  <2>8. Awaits(t)'
    <3>1. DialsFor(t)
      BY <1>9, <2>1 DEF DialsFor
    <3>2. link[t] = "opening" /\ NoneOf(calls, ConnectsOf(t)) /\ NoneOf(events, AnswersOf(t))
      BY <3>1 DEF Awaited, Awaits
    <3>3. OneOf(events', AnswersOf(t))
      BY <2>5, <2>7, <3>2
    <3>4. ~DialsFor(t)'
      BY <1>1, <1>7, <1>9, <2>1 DEF DialsFor
    <3> QED BY <1>1, <1>3, <3>2, <3>3, <3>4 DEF Awaits
  <2>9. ASSUME NEW s \in Transport \ {t}  PROVE WayKept(s)
    <3>1. peerOf[s] \in Peer
      BY DEF Typed, TypedHub
    <3>2. DialsFor(s)' <=> DialsFor(s)
      BY <1>1, <1>7, <1>9, <2>1, <3>1 DEF DialsFor
    <3> QED BY <1>1, <1>3, <2>5, <2>6, <3>2 DEF WayKept
  <2> QED BY <1>1, <1>4, <1>7, <1>9, <2>8, <2>9, AwaitedOne
<1> QED BY <1>6, <1>8, <1>9 DEF Typed, TypedPlugin

LEMMA AwaitedStep == Typed /\ Awaited /\ [Next]_vars => Awaited'
<1> SUFFICES ASSUME Typed, Awaited, [Next]_vars  PROVE Awaited'
  OBVIOUS
<1>1. CASE UNCHANGED vars
  <2>1. UNCHANGED <<link, peerOf, calls, events, connection, pending>>
    BY <1>1 DEF vars, javascript, native
  <2>2. \A s \in Transport : WayKept(s)
    BY <2>1 DEF WayKept, DialsFor
  <2>3. \A q \in Peer : PendingFor(q)'
    BY <2>1 DEF Awaited, PendingFor
  <2> QED BY <2>1, <2>2, <2>3, AwaitedElsewhere
<1> QED
  BY <1>1, AwaitedOpen, AwaitedClose, AwaitedAnswer, AwaitedEvent, AwaitedOnTheAir,
     AwaitedNativeConnect, AwaitedNativeDisconnect, AwaitedConnectEnds DEF Next

LEMMA WhereOf ==
  ASSUME NEW q, NEW S
  PROVE  /\ NoneOf(q, S) => {i \in 1 .. Len(q) : q[i] \in S} = {}
         /\ OneOf(q, S) => \E i : {j \in 1 .. Len(q) : q[j] \in S} = {i}
<1>1. NoneOf(q, S) => {i \in 1 .. Len(q) : q[i] \in S} = {}
  BY DEF NoneOf
<1>2. ASSUME OneOf(q, S)  PROVE \E i : {j \in 1 .. Len(q) : q[j] \in S} = {i}
  <2>1. PICK i \in 1 .. Len(q) : q[i] \in S /\ \A j \in 1 .. Len(q) : q[j] \in S => j = i
    BY <1>2 DEF OneOf
  <2>2. {j \in 1 .. Len(q) : q[j] \in S} = {i}
    BY <2>1
  <2> QED BY <2>2
<1> QED BY <1>1, <1>2

(* The places of what is under way, from the queues.                        *)
LEMMA AwaitedOnce == Typed /\ Awaited => AnsweredOnce
<1> SUFFICES ASSUME Typed, Awaited, NEW t \in Transport
             PROVE  IF link[t] = "opening" THEN \E x \in UnderWay(t) : UnderWay(t) = {x}
                    ELSE UnderWay(t) = {}
  BY DEF AnsweredOnce
<1> DEFINE called == {i \in DOMAIN calls : calls[i].kind = "connect" /\ calls[i].transport = t}
           dials == {p \in Peer : connection[p] = "connecting" /\ pending[p] = t}
           answered == {i \in DOMAIN events : /\ events[i].kind \in {"connected", "refused"}
                                              /\ events[i].transport = t}
<1>1. UnderWay(t) = ({"call"} \X called) \cup ({"dial"} \X dials) \cup ({"answer"} \X answered)
  BY DEF UnderWay
<1>2. /\ DOMAIN calls = 1 .. Len(calls) /\ \A i \in 1 .. Len(calls) : calls[i] \in BridgeCall
      /\ DOMAIN events = 1 .. Len(events) /\ \A i \in 1 .. Len(events) : events[i] \in Event
  BY DEF Typed, TypedQueues
<1>3. /\ called = {i \in 1 .. Len(calls) : calls[i] \in ConnectsOf(t)}
      /\ answered = {i \in 1 .. Len(events) : events[i] \in AnswersOf(t)}
  BY <1>2 DEF ConnectsOf, AnswersOf
<1> HIDE DEF called, answered
<1>4. /\ NoneOf(calls, ConnectsOf(t)) => called = {}
      /\ OneOf(calls, ConnectsOf(t)) => \E i : called = {i}
  <2>1. /\ NoneOf(calls, ConnectsOf(t)) => {i \in 1 .. Len(calls) : calls[i] \in ConnectsOf(t)} = {}
        /\ OneOf(calls, ConnectsOf(t)) => \E i : {j \in 1 .. Len(calls) : calls[j] \in ConnectsOf(t)} = {i}
    BY WhereOf
  <2> QED BY <2>1, <1>3
<1>5. /\ NoneOf(events, AnswersOf(t)) => answered = {}
      /\ OneOf(events, AnswersOf(t)) => \E i : answered = {i}
  <2>1. /\ NoneOf(events, AnswersOf(t)) => {i \in 1 .. Len(events) : events[i] \in AnswersOf(t)} = {}
        /\ OneOf(events, AnswersOf(t)) => \E i : {j \in 1 .. Len(events) : events[j] \in AnswersOf(t)} = {i}
    BY WhereOf
  <2> QED BY <2>1, <1>3
<1>6. dials = IF DialsFor(t) THEN {peerOf[t]} ELSE {}
  <2>1. peerOf[t] \in Peer
    BY DEF Typed, TypedHub
  <2>2. \A p \in dials : p = peerOf[t]
    BY DEF Awaited, PendingFor
  <2> QED BY <2>1, <2>2 DEF DialsFor
<1> HIDE DEF dials
<1>7. CASE link[t] # "opening"
  <2>1. called = {} /\ dials = {} /\ answered = {}
    BY <1>4, <1>5, <1>6, <1>7 DEF Awaited, Awaits
  <2> QED BY <1>1, <1>7, <2>1
<1>8. CASE link[t] = "opening"
  <2>1. \/ (\E i : called = {i}) /\ dials = {} /\ answered = {}
        \/ called = {} /\ dials = {peerOf[t]} /\ answered = {}
        \/ called = {} /\ dials = {} /\ \E i : answered = {i}
    BY <1>4, <1>5, <1>6, <1>8 DEF Awaited, Awaits
  <2>2. \E x : UnderWay(t) = {x}
    <3>1. ASSUME NEW i, called = {i}, dials = {}, answered = {}  PROVE UnderWay(t) = {<<"call", i>>}
      BY <1>1, <3>1
    <3>2. ASSUME called = {}, dials = {peerOf[t]}, answered = {}
          PROVE  UnderWay(t) = {<<"dial", peerOf[t]>>}
      BY <1>1, <3>2
    <3>3. ASSUME NEW i, called = {}, dials = {}, answered = {i}  PROVE UnderWay(t) = {<<"answer", i>>}
      BY <1>1, <3>3
    <3> QED BY <2>1, <3>1, <3>2, <3>3
  <2> QED BY <1>8, <2>2
<1> QED BY <1>7, <1>8

(* Every open() is answered once, by one of connect()'s answers, whoever    *)
(* opens, closes, reconnects and hangs up meanwhile: nothing is answered    *)
(* twice, and no open() waits for what cannot come (hub.ts:157-188;         *)
(* natively the callback is taken once, CourierGattClient.kt:143 and 393).  *)
THEOREM OpensAreAnsweredOnce == Spec => []AnsweredOnce
BY TypedInit, AwaitedInit, TypedStep, AwaitedStep, AwaitedOnce, PTL DEF Spec


----------------------------------------------------------------------------
(* The end of a connection is on its way behind what it ends: a link that   *)
(* is open, and an answer that is about to open one.                        *)
Opens(q, p, i) == q[i].peer = p /\ q[i].kind = "connected"

EndAfter(q, p, i) == \E j \in i + 1 .. Len(q) : End(q, p, j)

Covered(q, p) == \A i \in 1 .. Len(q) : Opens(q, p, i) => EndAfter(q, p, i)

Heard(p) ==
  connection[p] # "ready" =>
    /\ Covered(events, p)
    /\ (\E t \in Transport : link[t] = "open" /\ peerOf[t] = p) => ~NoEnd(events, p)

LEMMA PopCovered ==
  ASSUME NEW q \in Seq(Event), q # <<>>, NEW p \in Peer
  PROVE  /\ Covered(q, p) => Covered(Tail(q), p)
         /\ Covered(q, p) /\ Opens(q, p, 1) => ~NoEnd(Tail(q), p)
         /\ ~NoEnd(q, p) /\ ~End(q, p, 1) => ~NoEnd(Tail(q), p)
<1> DEFINE r == Tail(q)
           n == Len(q)
<1>1. /\ n \in Nat \ {0} /\ Len(r) = n - 1 /\ 1 \in 1 .. n
      /\ \A i \in 1 .. n - 1 : r[i] = q[i + 1] /\ i + 1 \in 1 .. n
  BY Queue
<1>2. \A i \in 1 .. n - 1 : (Opens(r, p, i) <=> Opens(q, p, i + 1))
                         /\ (End(r, p, i) <=> End(q, p, i + 1))
  BY <1>1 DEF Opens, End
<1> HIDE DEF r
<1>3. ASSUME Covered(q, p), NEW i \in 1 .. Len(r), Opens(r, p, i)  PROVE EndAfter(r, p, i)
  <2>1. i \in 1 .. n - 1 /\ i + 1 \in 1 .. n /\ Opens(q, p, i + 1)
    BY <1>1, <1>2, <1>3
  <2>2. PICK j \in (i + 1) + 1 .. n : End(q, p, j)
    BY <1>3, <2>1 DEF Covered, EndAfter
  <2>3. j - 1 \in 1 .. n - 1 /\ (j - 1) + 1 = j /\ j - 1 \in i + 1 .. Len(r)
    BY <1>1, <2>1
  <2>4. End(r, p, j - 1)
    BY <1>2, <2>2, <2>3
  <2> QED BY <2>3, <2>4 DEF EndAfter
<1>4. ASSUME Covered(q, p), Opens(q, p, 1)  PROVE ~NoEnd(r, p)
  <2>1. PICK j \in 1 + 1 .. n : End(q, p, j)
    BY <1>1, <1>4 DEF Covered, EndAfter
  <2>2. j - 1 \in 1 .. n - 1 /\ (j - 1) + 1 = j /\ j - 1 \in 1 .. Len(r)
    BY <1>1
  <2> QED BY <1>2, <2>1, <2>2 DEF NoEnd
<1>5. ASSUME ~NoEnd(q, p), ~End(q, p, 1)  PROVE ~NoEnd(r, p)
  <2>1. PICK j \in 1 .. n : End(q, p, j)
    BY <1>5 DEF NoEnd
  <2>2. j - 1 \in 1 .. n - 1 /\ (j - 1) + 1 = j /\ j - 1 \in 1 .. Len(r)
    BY <1>1, <1>5, <2>1
  <2> QED BY <1>2, <2>1, <2>2 DEF NoEnd
<1>6. Covered(q, p) => Covered(r, p)
  BY <1>3 DEF Covered
<1> QED BY <1>4, <1>5, <1>6 DEF r

LEMMA PushCovered ==
  ASSUME NEW q \in Seq(Event), NEW e \in Event, NEW p \in Peer
  PROVE  /\ (Covered(q, p) /\ ~(e.peer = p /\ e.kind = "connected")) => Covered(Append(q, e), p)
         /\ ~NoEnd(q, p) => ~NoEnd(Append(q, e), p)
         /\ e.peer = p /\ e.kind = "disconnected" => Covered(Append(q, e), p) /\ ~NoEnd(Append(q, e), p)
<1> DEFINE b == Append(q, e)
           n == Len(q)
<1>1. /\ n \in Nat /\ Len(b) = n + 1 /\ b[n + 1] = e
      /\ \A i \in 1 .. n : b[i] = q[i]
  BY Queued
<1>2. \A i \in 1 .. n : (Opens(b, p, i) <=> Opens(q, p, i)) /\ (End(b, p, i) <=> End(q, p, i))
  BY <1>1 DEF Opens, End
<1>3. /\ Opens(b, p, n + 1) <=> (e.peer = p /\ e.kind = "connected")
      /\ End(b, p, n + 1) <=> (e.peer = p /\ e.kind = "disconnected")
  BY <1>1 DEF Opens, End
<1>4. /\ n + 1 \in 1 .. Len(b)
      /\ \A i \in 1 .. Len(b) : i \in 1 .. n \/ i = n + 1
      /\ \A i \in 1 .. n : i \in 1 .. Len(b) /\ n + 1 \in i + 1 .. Len(b)
      /\ \A i \in 1 .. n : \A j \in i + 1 .. n : j \in 1 .. n /\ j \in i + 1 .. Len(b)
  BY <1>1
<1> HIDE DEF b
<1>5. ASSUME Covered(q, p), ~(e.peer = p /\ e.kind = "connected"),
             NEW i \in 1 .. Len(b), Opens(b, p, i)
      PROVE  EndAfter(b, p, i)
  <2>1. i \in 1 .. n /\ Opens(q, p, i)
    BY <1>2, <1>3, <1>4, <1>5
  <2>2. PICK j \in i + 1 .. n : End(q, p, j)
    BY <1>5, <2>1 DEF Covered, EndAfter
  <2> QED BY <1>2, <1>4, <2>1, <2>2 DEF EndAfter
<1>6. ~NoEnd(q, p) => ~NoEnd(b, p)
  BY <1>2, <1>4 DEF NoEnd
<1>7. ASSUME e.peer = p, e.kind = "disconnected"  PROVE Covered(b, p) /\ ~NoEnd(b, p)
  <2>1. End(b, p, n + 1) /\ ~Opens(b, p, n + 1)
    BY <1>3, <1>7
  <2>2. ASSUME NEW i \in 1 .. Len(b), Opens(b, p, i)  PROVE EndAfter(b, p, i)
    BY <1>4, <2>1, <2>2 DEF EndAfter
  <2> QED BY <1>4, <2>1, <2>2 DEF Covered, NoEnd
<1>8. (Covered(q, p) /\ ~(e.peer = p /\ e.kind = "connected")) => Covered(b, p)
  BY <1>5 DEF Covered
<1> QED BY <1>6, <1>7, <1>8 DEF b

LEMMA HeardInit == ASSUME Init, NEW p \in Peer  PROVE Heard(p)
<1>1. events = <<>> /\ \A t \in Transport : link[t] # "open"
  BY DEF Init
<1> QED BY <1>1 DEF Heard, Covered

(* What a step leaves on its way to a peer it does not concern.             *)
NewsKept(p) ==
  /\ Covered(events, p) => Covered(events', p)
  /\ ~NoEnd(events, p) => ~NoEnd(events', p)

LEMMA HeardStill ==
  ASSUME NEW p \in Peer, Heard(p), NewsKept(p), connection'[p] # "ready" => connection[p] # "ready",
         \A t \in Transport : link'[t] = "open" => link[t] = "open", UNCHANGED peerOf
  PROVE  Heard(p)'
BY DEF Heard, NewsKept

(* The application opens and closes, and the hub takes what comes: a link   *)
(* that answers opens has its end behind it, and the one that an end        *)
(* reaches is the open one.                                                 *)
LEMMA HeardInTheHub ==
  ASSUME Typed, InTurn, NEW p \in Peer, Heard(p),
         \/ \E t \in Transport : Open(t) \/ Close(t)
         \/ Handle
         \/ \E q \in Peer : Age(q)
  PROVE  Heard(p)'
<1>1. CASE (\E t \in Transport : Open(t) \/ Close(t)) \/ \E q \in Peer : Age(q)
  <2>1. UNCHANGED <<events, connection, peerOf>>
    BY <1>1 DEF Open, Close, Age, native
  <2>2. \A t \in Transport : link'[t] = "open" => link[t] = "open"
    BY <1>1 DEF Open, Close, Age, Typed, TypedHub
  <2> QED BY <2>1, <2>2, HeardStill DEF NewsKept
<1>2. ASSUME Handle
      PROVE  /\ events # <<>> /\ events' = Tail(events) /\ Head(events) = events[1]
             /\ UNCHANGED <<connection, peerOf>>
             /\ Covered(events, p) => Covered(events', p)
             /\ Covered(events, p) /\ Opens(events, p, 1) => ~NoEnd(events', p)
             /\ ~NoEnd(events, p) /\ ~End(events, p, 1) => ~NoEnd(events', p)
  <2>1. events # <<>> /\ events' = Tail(events) /\ UNCHANGED <<connection, peerOf>>
    BY <1>2 DEF Handle, Connected, ConnectFailed, Disconnected, PacketReceived, NextIs, native
  <2> QED BY <2>1, PopCovered, HeadEvent DEF Typed, TypedQueues
<1>3. CASE Connected
  <2> DEFINE t == Head(events).transport
             q == Head(events).peer
  <2>1. t \in Transport /\ q \in Peer /\ Head(events) = events[1] /\ events[1].kind = "connected"
    BY <1>3, HeadEvent DEF Connected, NextIs
  <2>2. link' = [link EXCEPT ![t] = "open"]
    BY <1>3 DEF Connected
  <2>3. ~End(events, p, 1) /\ (q = p => Opens(events, p, 1))
    BY <2>1 DEF End, Opens
  <2>4. CASE q = p
    <3> HIDE DEF t, q
    <3> QED BY <1>2, <1>3, <2>3, <2>4 DEF Heard, Handle
  <2>5. CASE q # p /\ peerOf[t] # p
    <3>1. (\E s \in Transport : link'[s] = "open" /\ peerOf[s] = p)
          => \E s \in Transport : link[s] = "open" /\ peerOf[s] = p
      BY <2>1, <2>2, <2>5 DEF Typed, TypedHub
    <3> HIDE DEF t, q
    <3> QED BY <1>2, <1>3, <2>3, <3>1 DEF Heard, Handle
  <2>6. peerOf[t] = q
    <3>1. Answer(events, q, 1) /\ events # <<>>
      BY <1>2, <1>3, <2>1 DEF Answer, Handle
    <3>2. Told(q, events[1])
      BY <2>1, <3>1, AnswerAwaited DEF InTurn
    <3> QED BY <2>1, <3>2 DEF Told
  <2> QED BY <2>4, <2>5, <2>6
<1>4. CASE ConnectFailed \/ PacketReceived
  <2>1. Head(events).kind \in {"refused", "packet"}
    BY <1>4 DEF ConnectFailed, PacketReceived, NextIs
  <2>2. ~End(events, p, 1)
    BY <1>2, <1>4, <2>1 DEF End, Handle
  <2>3. \A t \in Transport : link'[t] = "open" => link[t] = "open"
    BY <1>4 DEF ConnectFailed, PacketReceived, Typed, TypedHub
  <2> QED BY <1>2, <1>4, <2>2, <2>3, HeardStill DEF NewsKept, Handle
<1>5. CASE Disconnected
  <2> DEFINE q == Head(events).peer
  <2>1. q \in Peer /\ Head(events) = events[1] /\ Signal(transports[q])
    BY <1>5, HeadEvent DEF Disconnected, NextIs
  <2>2. \A t \in Transport : link'[t] = "open" => link[t] = "open"
    BY <2>1 DEF Signal, Typed, TypedHub
  <2>3. CASE q # p
    <3>1. ~End(events, p, 1)
      BY <2>1, <2>3 DEF End
    <3> QED BY <1>2, <1>5, <2>2, <3>1, HeardStill DEF NewsKept, Handle
  <2>4. CASE q = p
    <3>1. ASSUME NEW t \in Transport, peerOf[t] = p, link'[t] = "open"  PROVE FALSE
      <4>1. transports[p] = t
        BY <2>2, <3>1 DEF InTurn, Served
      <4>2. t # None
        BY HubAssumption DEF Transport, None
      <4> QED BY <2>1, <2>4, <3>1, <4>1, <4>2 DEF Signal, Typed, TypedHub
    <3> QED BY <1>2, <1>5, <3>1 DEF Heard, Handle
  <2> QED BY <2>3, <2>4
<1> QED BY <1>1, <1>3, <1>4, <1>5 DEF Handle

(* An event is sent: an answer that opens a link only over a connection     *)
(* that is ready, and the end of one together with its end.                 *)
LEMMA HeardNews ==
  ASSUME Typed, NEW p \in Peer, Heard(p), UNCHANGED <<link, peerOf>>,
         NEW e \in Event, events' = Append(events, e),
         connection'[p] # "ready" =>
            connection[p] # "ready" \/ (e.peer = p /\ e.kind = "disconnected"),
         e.peer = p /\ e.kind = "connected" => connection'[p] = "ready"
  PROVE  Heard(p)'
<1>1. /\ (Covered(events, p) /\ ~(e.peer = p /\ e.kind = "connected")) => Covered(events', p)
      /\ ~NoEnd(events, p) => ~NoEnd(events', p)
      /\ e.peer = p /\ e.kind = "disconnected" => Covered(events', p) /\ ~NoEnd(events', p)
  BY PushCovered DEF Typed, TypedQueues
<1> QED BY <1>1 DEF Heard

LEMMA HeardInThePlugin ==
  ASSUME Typed, NEW p \in Peer, Heard(p),
         \/ NativeConnect \/ NativeDisconnect
         \/ \E q \in Peer : \/ ConnectDone(q) \/ ConnectBroke(q) \/ ConnectedToUs(q)
                            \/ ConnectionLost(q) \/ PacketArrives(q)
  PROVE  Heard(p)'
<1>1. UNCHANGED <<link, peerOf>>
  BY DEF NativeConnect, NativeDisconnect, ConnectDone, ConnectBroke, ConnectedToUs,
         ConnectionLost, PacketArrives, javascript
<1>2. CASE NativeConnect
  <2>1. /\ Head(calls).kind = "connect" /\ calls # <<>>
        /\ Head(calls).peer \in Peer /\ Head(calls).transport \in Transport
    BY <1>2, HeadCall DEF NativeConnect, Call
  <2> PICK q \in Peer : q = Head(calls).peer
    BY <2>1
  <2> PICK t \in Transport : t = Head(calls).transport
    BY <2>1
  <2>2. CASE connection' = connection /\ \/ connection[q] = "ready" /\ events' = Emit("connected", q, t)
                                         \/ events' = Emit("refused", q, t)
    <3>1. \A k \in {"connected", "refused"} : [kind |-> k, peer |-> q, transport |-> t] \in Event
      BY DEF Event
    <3> QED BY <1>1, <2>2, <3>1, HeardNews DEF Emit
  <2>3. CASE connection[q] = "none" /\ connection' = [connection EXCEPT ![q] = "connecting"] /\ events' = events
    <3>1. connection'[p] # "ready" => connection[p] # "ready"
      BY <2>3 DEF Typed, TypedPlugin
    <3> QED BY <1>1, <2>3, <3>1, HeardStill DEF NewsKept
  <2> QED BY <1>2, <2>2, <2>3 DEF NativeConnect, native
<1>3. CASE NativeDisconnect
  <2>1. Head(calls).peer \in Peer /\ calls # <<>>
    BY <1>3, HeadCall DEF NativeDisconnect, Call
  <2> PICK q \in Peer : q = Head(calls).peer
    BY <2>1
  <2>2. CASE connection[q] = "none"
    <3>1. connection' = connection /\ events' = events
      BY <1>3, <2>2 DEF NativeDisconnect, native
    <3> QED BY <1>1, <3>1, HeardStill DEF NewsKept
  <2>3. CASE connection[q] # "none"
    <3> DEFINE f == IF pending[q] # None THEN Emit("refused", q, pending[q]) ELSE events
               d == [kind |-> "disconnected", peer |-> q, transport |-> None]
    <3>1. connection' = [connection EXCEPT ![q] = "none"] /\ events' = Append(f, d)
      BY <1>3, <2>3 DEF NativeDisconnect
    <3>2. d \in Event
      BY DEF Event
    <3>3. f = events \/ \E e \in Event : /\ f = Append(events, e) /\ e.kind = "refused"
      <4>1. CASE pending[q] # None
        <5>1. [kind |-> "refused", peer |-> q, transport |-> pending[q]] \in Event
          BY <4>1 DEF Event, Typed, TypedPlugin
        <5> QED BY <4>1, <5>1 DEF Emit
      <4> QED BY <4>1
    <3> HIDE DEF f
    <3>4. f \in Seq(Event) /\ (Covered(events, p) => Covered(f, p)) /\ (~NoEnd(events, p) => ~NoEnd(f, p))
      <4>1. events \in Seq(Event)
        BY DEF Typed, TypedQueues
      <4>2. ASSUME NEW e \in Event, f = Append(events, e), e.kind = "refused"
            PROVE  /\ f \in Seq(Event) /\ (Covered(events, p) => Covered(f, p))
                   /\ (~NoEnd(events, p) => ~NoEnd(f, p))
        BY <4>1, <4>2, Queued, PushCovered
      <4> QED BY <3>3, <4>1, <4>2
    <3>5. /\ (Covered(f, p) /\ ~(d.peer = p /\ d.kind = "connected")) => Covered(events', p)
          /\ ~NoEnd(f, p) => ~NoEnd(events', p)
          /\ d.peer = p /\ d.kind = "disconnected" => Covered(events', p) /\ ~NoEnd(events', p)
      <4> HIDE DEF d
      <4> QED BY <3>1, <3>2, <3>4, PushCovered
    <3>6. NewsKept(p)
      BY <3>4, <3>5 DEF NewsKept
    <3>7. CASE q # p
      <4>1. connection'[p] = connection[p]
        BY <3>1, <3>7 DEF Typed, TypedPlugin
      <4> QED BY <1>1, <3>6, <4>1, HeardStill
    <3>8. CASE q = p
      <4>1. Covered(events', p) /\ ~NoEnd(events', p)
        BY <3>5, <3>8
      <4> HIDE DEF d
      <4> QED BY <4>1 DEF Heard
    <3> QED BY <3>7, <3>8
  <2> QED BY <2>2, <2>3
<1>4. ASSUME NEW q \in Peer, ConnectDone(q) \/ ConnectBroke(q)  PROVE Heard(p)'
  <2>1. pending[q] \in Transport /\ connection[q] = "connecting"
    BY <1>4 DEF ConnectDone, ConnectBroke, Typed, TypedPlugin
  <2>2. \A k \in {"connected", "refused"} : [kind |-> k, peer |-> q, transport |-> pending[q]] \in Event
    BY <2>1 DEF Event
  <2>3. /\ ConnectDone(q) => connection' = [connection EXCEPT ![q] = "ready"] /\ events' = Emit("connected", q, pending[q])
        /\ ConnectBroke(q) => connection' = [connection EXCEPT ![q] = "none"] /\ events' = Emit("refused", q, pending[q])
    BY DEF ConnectDone, ConnectBroke, Established
  <2>4. CASE ConnectDone(q)
    <3>1. connection'[q] = "ready" /\ \A r \in Peer \ {q} : connection'[r] = connection[r]
      BY <2>3, <2>4 DEF Typed, TypedPlugin
    <3> QED BY <1>1, <2>2, <2>3, <2>4, <3>1, HeardNews DEF Emit
  <2>5. CASE ConnectBroke(q)
    <3>1. connection'[q] = "none" /\ \A r \in Peer \ {q} : connection'[r] = connection[r]
      BY <2>3, <2>5 DEF Typed, TypedPlugin
    <3> QED BY <1>1, <2>1, <2>2, <2>3, <2>5, <3>1, HeardNews DEF Emit
  <2> QED BY <1>4, <2>4, <2>5
<1>5. ASSUME NEW q \in Peer, ConnectedToUs(q)  PROVE Heard(p)'
  <2>1. connection'[p] # "ready" => connection[p] # "ready"
    BY <1>5 DEF ConnectedToUs, Established, Typed, TypedPlugin
  <2> QED BY <1>1, <1>5, <2>1, HeardStill DEF ConnectedToUs, NewsKept
<1>6. ASSUME NEW q \in Peer, ConnectionLost(q)  PROVE Heard(p)'
  <2>1. [kind |-> "disconnected", peer |-> q, transport |-> None] \in Event
    BY DEF Event
  <2>2. connection'[p] = connection[p] \/ q = p
    BY <1>6 DEF ConnectionLost, Typed, TypedPlugin
  <2> QED BY <1>1, <1>6, <2>1, <2>2, HeardNews DEF ConnectionLost, Emit
<1>7. ASSUME NEW q \in Peer, PacketArrives(q)  PROVE Heard(p)'
  <2>1. [connection |-> count[q], number |-> sent[q] + 1] \in PacketName
    BY HubAssumption DEF PacketName, Typed, TypedPlugin
  <2>2. [kind |-> "packet", peer |-> q,
         packet |-> [connection |-> count[q], number |-> sent[q] + 1]] \in Event
    BY <2>1 DEF Event
  <2> QED BY <1>1, <1>7, <2>2, HeardNews DEF PacketArrives
<1> QED BY <1>2, <1>3, <1>4, <1>5, <1>6, <1>7

LEMMA HeardStep ==
  ASSUME Typed, InTurn, NEW p \in Peer, Heard(p), [Next]_vars
  PROVE  Heard(p)'
<1>1. CASE UNCHANGED vars
  <2>1. UNCHANGED <<link, peerOf, events, connection>>
    BY <1>1 DEF vars, javascript, native
  <2> QED BY <2>1, HeardStill DEF NewsKept
<1> QED BY <1>1, HeardInTheHub, HeardInThePlugin DEF Next, Handle

(* While reopening and reconnecting to a peer are slower than what the      *)
(* bridge carries of it, no link outlives its connection unawares: what is  *)
(* left of DeadLinksClose is that the hub gets to the event, which closes   *)
(* the link (hub.ts:78-82).                                                 *)
THEOREM EndsAreComing ==
  ASSUME Calm
  PROVE  Spec => []EndIsComing
<1> DEFINE AllHeard == \A p \in Peer : Heard(p)
<1>1. Init => AllHeard
  BY HeardInit
<1>2. Typed /\ InTurn /\ AllHeard /\ [Next]_vars => AllHeard'
  BY HeardStep
<1>3. Typed /\ AllHeard => EndIsComing
  <2> SUFFICES ASSUME Typed, AllHeard, NEW t \in Transport, link[t] = "open",
                      connection[peerOf[t]] # "ready"
               PROVE  \E i \in DOMAIN events : /\ events[i].kind = "disconnected"
                                               /\ events[i].peer = peerOf[t]
    BY DEF EndIsComing
  <2>1. peerOf[t] \in Peer /\ DOMAIN events = 1 .. Len(events)
    BY DEF Typed, TypedHub, TypedQueues
  <2>2. ~NoEnd(events, peerOf[t])
    BY <2>1 DEF Heard
  <2> QED BY <2>1, <2>2 DEF NoEnd, End
<1> HIDE DEF AllHeard
<1> QED BY <1>1, <1>2, <1>3, TypedInit, TurnInit, TypedStep, TurnStep, PTL DEF Spec
===============================================================================
