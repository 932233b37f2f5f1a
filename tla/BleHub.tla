-------------------------------- MODULE BleHub --------------------------------
(****************************************************************************)
(* Opening and closing links (courier-capacitor: hub.ts, transport.ts, the  *)
(* native connect and disconnect).  The hub owns the plugin's events and    *)
(* hands them out by peerId; a transport is registered before connect() is  *)
(* awaited, and packets for a peer without one are buffered.                *)
(*                                                                          *)
(* JavaScript and the plugin exchange calls one way and answers and events  *)
(* the other, each in order.  Transports are numbered by the opens that     *)
(* made them, connections by their order for a peer.  A packet is named by  *)
(* its connection and its place in it.                                      *)
(****************************************************************************)
EXTENDS Naturals, Sequences

CONSTANTS Peer,                  \* peers discovered, or that connected to us
          Inbound,               \* of those, the ones that connected to us
          MAX_BUFFERED_PACKETS,  \* packets kept for a peer without a transport
          Calm,                  \* are reopening and reconnecting to a peer
                                 \* slower than what the bridge carries of it
          MaxOpens,              \* bound: calls of open()
          MaxConnections,        \* bound: connections to one peer
          MaxPackets             \* bound: packets of one connection to each peer

ASSUME HubAssumption ==
  /\ Inbound \subseteq Peer
  /\ MAX_BUFFERED_PACKETS \in Nat \ {0}
  /\ Calm \in BOOLEAN
  /\ {MaxOpens, MaxConnections} \subseteq Nat
  /\ MaxPackets \in [Peer -> Nat]

VARIABLES transports,  \* the hub's map: the transport of a peer, or None
          link,        \* what became of each open(): see Links
          closed,      \* transports that are closed
          peerOf,      \* the peer each open() was for
          buffers,     \* packets held for peers without a transport
          aged,        \* peers whose buffer has outlived BUFFER_TTL_MS
          calls,       \* bridge calls the plugin has not handled yet
          events,      \* answers and events JavaScript has not handled yet
          connection,  \* native: "none", "connecting" or "ready"
          pending,     \* native: the open() whose connect() is unanswered
          count,       \* native: connections made to each peer so far
          sent,        \* packets of the current connection so far
          delivered    \* history: packets handed to each transport

javascript == <<transports, link, closed, peerOf, buffers, aged, delivered>>
native == <<connection, pending, count, sent>>
vars == <<javascript, calls, events, native>>

Transport == 1 .. MaxOpens
None == 0
Links == {"unborn", "opening", "open", "failed", "closed"}

Init ==
  /\ transports = [p \in Peer |-> None]
  /\ link = [t \in Transport |-> "unborn"]
  /\ closed = {}
  /\ peerOf \in [Transport -> Peer]
  /\ buffers = [p \in Peer |-> <<>>]
  /\ aged = {}
  /\ calls = <<>> /\ events = <<>>
  /\ connection = [p \in Peer |-> "none"]
  /\ pending = [p \in Peer |-> None]
  /\ count = [p \in Peer |-> 0]
  /\ sent = [p \in Peer |-> 0]
  /\ delivered = [t \in Transport |-> <<>>]

----------------------------------------------------------------------------
(* The application and the hub.                                             *)

About(p, queue) == \E i \in DOMAIN queue : queue[i].peer = p

Quiet(p) == ~About(p, calls) /\ ~About(p, events)

(* A peer that connects to us is known from its first peerFound.            *)
Known(p) == p \in Inbound => count[p] > 0

(* Seeded defect of MayOpen: the link already open to the peer is ignored.  *)
MayOpenTwice(p) == Known(p) /\ (Calm => Quiet(p))

(* open() refuses a peer that has a transport.                              *)
MayOpen(p) == transports[p] = None /\ Known(p) /\ (Calm => Quiet(p))

Open(t) ==
  LET p == peerOf[t]
  IN  /\ link[t] = "unborn"
      /\ \A s \in 1 .. t - 1 : link[s] # "unborn"
      /\ MayOpen(p)
      /\ link' = [link EXCEPT ![t] = "opening"]
      /\ transports' = [transports EXCEPT ![p] = t]
      /\ delivered' = [delivered EXCEPT ![t] = buffers[p]]
      /\ buffers' = [buffers EXCEPT ![p] = <<>>]
      /\ aged' = aged \ {p}
      /\ calls' = Append(calls, [kind |-> "connect", peer |-> p, transport |-> t])
      /\ UNCHANGED <<closed, peerOf, events, native>>

(* GattLink.close: the transport disconnects without waiting and leaves the *)
(* hub's map, by peer.  A transport closed from below has done so already.  *)
Close(t) ==
  LET p == peerOf[t]
  IN  /\ link[t] = "open"
      /\ link' = [link EXCEPT ![t] = "closed"]
      /\ IF t \in closed
         THEN UNCHANGED <<closed, transports, calls>>
         ELSE /\ closed' = closed \cup {t}
              /\ transports' = [transports EXCEPT ![p] = None]
              /\ calls' = Append(calls, [kind |-> "disconnect", peer |-> p, transport |-> None])
      /\ UNCHANGED <<peerOf, buffers, aged, events, native, delivered>>

----------------------------------------------------------------------------
(* Answers and events, in the order they come.                              *)

NextIs(kind) == events # <<>> /\ Head(events).kind = kind /\ events' = Tail(events)

(* connect() resolved: the link is made over the transport as it is.        *)
Connected ==
  /\ NextIs("connected")
  /\ link' = [link EXCEPT ![Head(events).transport] = "open"]
  /\ UNCHANGED <<transports, closed, peerOf, buffers, aged, calls, native, delivered>>

(* connect() rejected.                                                      *)
ConnectFailed ==
  /\ NextIs("refused")
  /\ link' = [link EXCEPT ![Head(events).transport] = "failed"]
  /\ transports' = [transports EXCEPT ![Head(events).peer] = None]
  /\ UNCHANGED <<closed, peerOf, buffers, aged, calls, native, delivered>>

(* Seeded defect of Signal: the transport is forgotten before it is told.   *)
SignalNobody(t) == UNCHANGED <<closed, link>>

(* signalDisconnect: a link that has been made is closed with it; one that  *)
(* is still opening has registered no handler yet.                          *)
Signal(t) ==
  IF t = None THEN UNCHANGED <<closed, link>>
  ELSE /\ closed' = closed \cup {t}
       /\ link' = [link EXCEPT ![t] = IF @ = "open" THEN "closed" ELSE @]

Disconnected ==
  LET p == Head(events).peer
  IN  /\ NextIs("disconnected")
      /\ Signal(transports[p])
      /\ transports' = [transports EXCEPT ![p] = None]
      /\ buffers' = [buffers EXCEPT ![p] = <<>>]
      /\ aged' = aged \ {p}
      /\ UNCHANGED <<peerOf, calls, native, delivered>>

(* Seeded defect of Hold: the newest packet makes room for the older ones.  *)
HoldOldest(held, packet) ==
  IF Len(held) >= MAX_BUFFERED_PACKETS THEN held ELSE Append(held, packet)

(* The oldest packet makes room.                                            *)
Hold(held, packet) ==
  Append(IF Len(held) >= MAX_BUFFERED_PACKETS THEN Tail(held) ELSE held, packet)

(* A packet goes to its peer's transport, or into its buffer, where old     *)
(* buffers of all peers are thrown away first.                              *)
PacketReceived ==
  LET p == Head(events).peer
      t == transports[p]
      packet == Head(events).packet
      fresh == [q \in Peer |-> IF q \in aged THEN <<>> ELSE buffers[q]]
  IN  /\ NextIs("packet")
      /\ \/ /\ t # None
            /\ delivered' = [delivered EXCEPT ![t] = Append(@, packet)]
            /\ UNCHANGED <<buffers, aged>>
         \/ /\ t = None
            /\ buffers' = [fresh EXCEPT ![p] = Hold(@, packet)]
            /\ aged' = {}
            /\ UNCHANGED delivered
      /\ UNCHANGED <<transports, link, closed, peerOf, calls, native>>

(* Time passes over a buffer.                                               *)
Age(p) ==
  /\ buffers[p] # <<>> /\ p \notin aged
  /\ aged' = aged \cup {p}
  /\ UNCHANGED <<transports, link, closed, peerOf, buffers, calls, events, native, delivered>>

----------------------------------------------------------------------------
(* The native plugin: one call at a time, in order.                         *)

Call(kind) == calls # <<>> /\ Head(calls).kind = kind /\ calls' = Tail(calls)

Emit(kind, p, t) == Append(events, [kind |-> kind, peer |-> p, transport |-> t])

(* An established path wins over making a new one, one being made refuses   *)
(* another, and a peer that connected to us cannot be dialled.              *)
NativeConnect ==
  LET p == Head(calls).peer
      t == Head(calls).transport
  IN  /\ Call("connect")
      /\ \/ connection[p] = "ready" /\ events' = Emit("connected", p, t) /\ UNCHANGED native
         \/ connection[p] = "connecting" /\ events' = Emit("refused", p, t) /\ UNCHANGED native
         \/ /\ connection[p] = "none" /\ (p \in Inbound \/ count[p] = MaxConnections)
            /\ events' = Emit("refused", p, t)
            /\ UNCHANGED native
         \/ /\ connection[p] = "none" /\ p \notin Inbound /\ count[p] < MaxConnections
            /\ connection' = [connection EXCEPT ![p] = "connecting"]
            /\ pending' = [pending EXCEPT ![p] = t]
            /\ UNCHANGED <<events, count, sent>>
      /\ UNCHANGED javascript

Established(p) ==
  /\ connection' = [connection EXCEPT ![p] = "ready"]
  /\ pending' = [pending EXCEPT ![p] = None]
  /\ count' = [count EXCEPT ![p] = @ + 1]
  /\ sent' = [sent EXCEPT ![p] = 0]

(* Connected, negotiated and subscribed.                                    *)
ConnectDone(p) ==
  /\ connection[p] = "connecting"
  /\ Established(p)
  /\ events' = Emit("connected", p, pending[p])
  /\ UNCHANGED <<javascript, calls>>

(* Seeded defect of ConnectBroke: the waiting connect() is forgotten.       *)
ConnectBrokeSilently(p) ==
  /\ connection[p] = "connecting"
  /\ connection' = [connection EXCEPT ![p] = "none"]
  /\ pending' = [pending EXCEPT ![p] = None]
  /\ UNCHANGED <<javascript, calls, events, count, sent>>

(* The connection broke, or took longer than CONNECT_TIMEOUT_MS.            *)
ConnectBroke(p) ==
  /\ connection[p] = "connecting"
  /\ connection' = [connection EXCEPT ![p] = "none"]
  /\ pending' = [pending EXCEPT ![p] = None]
  /\ events' = Emit("refused", p, pending[p])
  /\ UNCHANGED <<javascript, calls, count, sent>>

(* A peer connects to us and subscribes.                                    *)
ConnectedToUs(p) ==
  /\ p \in Inbound
  /\ connection[p] = "none" /\ count[p] < MaxConnections
  /\ Calm => ~About(p, calls)
  /\ Established(p)
  /\ UNCHANGED <<javascript, calls, events>>

(* disconnect: the pending connect() is rejected, and the plugin reports    *)
(* the end itself, but not of a connection it does not have.                *)
NativeDisconnect ==
  LET p == Head(calls).peer
      refused == IF pending[p] # None THEN Emit("refused", p, pending[p]) ELSE events
  IN  /\ Call("disconnect")
      /\ IF connection[p] = "none"
         THEN UNCHANGED <<native, events>>
         ELSE /\ connection' = [connection EXCEPT ![p] = "none"]
              /\ pending' = [pending EXCEPT ![p] = None]
              /\ events' = Append(refused, [kind |-> "disconnected", peer |-> p, transport |-> None])
              /\ UNCHANGED <<count, sent>>
      /\ UNCHANGED javascript

(* The peer leaves, or the adapter is turned off.                           *)
ConnectionLost(p) ==
  /\ connection[p] = "ready"
  /\ connection' = [connection EXCEPT ![p] = "none"]
  /\ events' = Emit("disconnected", p, None)
  /\ UNCHANGED <<javascript, calls, pending, count, sent>>

PacketArrives(p) ==
  /\ connection[p] = "ready" /\ sent[p] < MaxPackets[p]
  /\ sent' = [sent EXCEPT ![p] = @ + 1]
  /\ events' = Append(events, [kind |-> "packet", peer |-> p,
                               packet |-> [connection |-> count[p], number |-> sent[p] + 1]])
  /\ UNCHANGED <<javascript, calls, connection, pending, count>>

----------------------------------------------------------------------------
Handle == Connected \/ ConnectFailed \/ Disconnected \/ PacketReceived

Plugin == NativeConnect \/ NativeDisconnect

Next ==
  \/ \E t \in Transport : Open(t)
  \/ \E t \in Transport : Close(t)
  \/ Connected \/ ConnectFailed \/ Disconnected \/ PacketReceived
  \/ \E p \in Peer : Age(p)
  \/ NativeConnect \/ NativeDisconnect
  \/ \E p \in Peer : ConnectDone(p)
  \/ \E p \in Peer : ConnectBroke(p)
  \/ \E p \in Peer : ConnectedToUs(p)
  \/ \E p \in Peer : ConnectionLost(p)
  \/ \E p \in Peer : PacketArrives(p)

Spec == Init /\ [][Next]_vars

(* The event loop and the plugin's thread run, and a connection attempt     *)
(* ends one way or the other.                                               *)
Fairness ==
  /\ WF_vars(Handle)
  /\ WF_vars(Plugin)
  /\ \A p \in Peer : WF_vars(ConnectDone(p) \/ ConnectBroke(p))

FairSpec == Spec /\ Fairness

----------------------------------------------------------------------------
(* Safety.                                                                  *)

(* Types, and the bound of a buffer.                                         *)
TypeOK ==
  /\ transports \in [Peer -> {None} \cup Transport]
  /\ link \in [Transport -> Links]
  /\ closed \subseteq Transport
  /\ \A p \in Peer : Len(buffers[p]) <= MAX_BUFFERED_PACKETS
  /\ aged \subseteq Peer
  /\ connection \in [Peer -> {"none", "connecting", "ready"}]
  /\ pending \in [Peer -> {None} \cup Transport]
  /\ count \in [Peer -> 0 .. MaxConnections]
  /\ \A p \in Peer : sent[p] \in 0 .. MaxPackets[p]

(* A link the application holds hears its peer: its transport is the one    *)
(* the hub delivers to, from the moment open() resolves until the link is   *)
(* closed (hub.ts: there is no window where nothing is listening).          *)
OpenLinkListens ==
  \A t \in Transport : link[t] = "open" => transports[peerOf[t]] = t /\ t \notin closed

(* What a link is handed is an unbroken run of the packets of one           *)
(* connection: buffering, overflow, expiry and reconnection may cut it      *)
(* short at the front but never leave a hole or splice two connections.     *)
NoHoles ==
  \A t \in Transport : link[t] \in {"opening", "open"} =>
     \A i \in 2 .. Len(delivered[t]) :
        delivered[t][i] = [delivered[t][i - 1] EXCEPT !.number = @ + 1]

(* Of an open() that waits exactly one thing is under way: its connect()    *)
(* call, the connection being made for it, or the answer; and of one that   *)
(* does not wait, nothing.  So open() is answered once, whatever else is    *)
(* opened, closed and lost meanwhile (hub.ts:157-188, which awaits the      *)
(* native connect() at 180).                                                *)
UnderWay(t) ==
  LET called == {i \in DOMAIN calls : calls[i].kind = "connect" /\ calls[i].transport = t}
      dials == {p \in Peer : connection[p] = "connecting" /\ pending[p] = t}
      answered == {i \in DOMAIN events : /\ events[i].kind \in {"connected", "refused"}
                                         /\ events[i].transport = t}
  IN  ({"call"} \X called) \cup ({"dial"} \X dials) \cup ({"answer"} \X answered)

AnsweredOnce ==
  \A t \in Transport :
     IF link[t] = "opening" THEN \E x \in UnderWay(t) : UnderWay(t) = {x} ELSE UnderWay(t) = {}

(* The end of the connection under an open link is on its way to the hub as *)
(* long as the hub has not been told (the listener of hub.ts:78-82).        *)
EndIsComing ==
  \A t \in Transport : link[t] = "open" =>
     \/ connection[peerOf[t]] = "ready"
     \/ \E i \in DOMAIN events : events[i].kind = "disconnected" /\ events[i].peer = peerOf[t]

----------------------------------------------------------------------------
(* Liveness.                                                                *)

(* A link whose connection has ended is told so: a session waiting on it    *)
(* never waits forever.                                                     *)
DeadLinksClose ==
  \A t \in Transport :
     (link[t] = "open" /\ connection[peerOf[t]] = "none") ~> link[t] # "open"

(* open() settles: it resolves or rejects.                                  *)
OpenSettles == \A t \in Transport : link[t] = "opening" ~> link[t] # "opening"
=============================================================================
