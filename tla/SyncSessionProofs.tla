------------------------- MODULE SyncSessionProofs ---------------------------
(****************************************************************************)
(* Theorems about sync sessions, for every mesh, id space, hash and limit.  *)
(*                                                                          *)
(* The order matters: types first (with the bound on rounds they need),     *)
(* then the stores together with what is on its way to them, then the turn  *)
(* of a link (and with it that a session runs down and strands nobody),     *)
(* then the honesty of "more", which needs the turn.  The refinement of the *)
(* grow-only log follows from what is on the wire being held by the sender. *)
(****************************************************************************)
EXTENDS SyncSession, AntiEntropyProofs

(* The two ports of a link, seen from one of them.                          *)
LEMMA PeerFacts ==
  ASSUME NEW p \in Port
  PROVE  /\ Peer(p) \in Port
         /\ Peer(Peer(p)) = p
         /\ Peer(p) # p
         /\ LinkOf(p) \in Link
         /\ LinkOf(Peer(p)) = LinkOf(p)
         /\ Holder(p) \in Device
         /\ \A q \in Port : LinkOf(q) = LinkOf(p) => q = p \/ q = Peer(p)
<1>1. PICK l \in Link, s \in Side : p = <<l, s>>
  BY DEF Port
<1> QED BY <1>1, MeshAssumption DEF Port, Side, Peer, LinkOf, Holder

(* The two ends of a link are two different ports, each the other's peer.   *)
LEMMA EndsArePorts ==
  ASSUME NEW l \in Link
  PROVE  /\ <<l, "initiator">> \in Port
         /\ <<l, "responder">> \in Port
         /\ Peer(<<l, "initiator">>) = <<l, "responder">>
         /\ Peer(<<l, "responder">>) = <<l, "initiator">>
         /\ <<l, "initiator">> # <<l, "responder">>
         /\ LinkOf(<<l, "initiator">>) = l
         /\ LinkOf(<<l, "responder">>) = l
         /\ \A q \in Port : LinkOf(q) = l => q = <<l, "initiator">> \/ q = <<l, "responder">>
  BY DEF Port, Side, Peer, LinkOf

----------------------------------------------------------------------------
(* Types.                                                                   *)

(* Ending a session stops one port, names a proper ending and leaves every  *)
(* other port as it was (session.ts finish and finally).                    *)
LEMMA FinishType ==
  ASSUME TypeOK, NEW p \in Port, NEW how \in Ending, Finish(p, how)
  PROVE  /\ pc' \in [Port -> {"idle", "receiving", "sending"}]
         /\ ending' \in [Port -> Ending \cup {"none"}]
         /\ radio' \in [Link -> {"up", "silent", "closed"}]
         /\ pc'[p] = "idle"
         /\ \A q \in Port : q # p => pc'[q] = pc[q]
  BY DEF TypeOK, Finish

(* What a received message does to the store, the queue and the driver.     *)
LEMMA ReceiveType ==
  ASSUME TypeOK, NEW p \in Port, Receive(p)
  PROVE  /\ store' \in [Device -> SUBSET Envelope]
         /\ pending' \in [Port -> SUBSET Envelope]
         /\ out' \in [Port -> Message]
         /\ inbox' \in [Port -> Seq(Message)]
         /\ pc' \in [Port -> {"idle", "receiving", "sending"}]
         /\ ending' \in [Port -> Ending \cup {"none"}]
         /\ radio' \in [Link -> {"up", "silent", "closed"}]
         /\ \A q \in Port : q # p => pc'[q] = pc[q]
<1> DEFINE d    == Holder(p)
           msg  == Head(inbox[p])
           held == Admit(store[d], msg.records, Trusted[d])
           owed == pending[p] \cup EnvelopesFor(held, OutIds(IdsOf(held), msg))
<1>1. msg \in Message /\ inbox' \in [Port -> Seq(Message)]
  BY DEF Receive, TypeOK
<1>2. held \in SUBSET Envelope
  <2>1. store[d] \in SUBSET Envelope
    BY PeerFacts DEF TypeOK
  <2>2. msg.records \in SUBSET Envelope
    BY <1>1 DEF Message
  <2> QED BY <2>1, <2>2, AdmitKeeps
<1>3. owed \in SUBSET Envelope
  BY <1>2 DEF EnvelopesFor, TypeOK
<1>4. PICK chunk \in Chunks(owed) :
        /\ pending' = [pending EXCEPT ![p] = owed \ chunk]
        /\ Answer(p, msg, Reply(IdsOf(held), msg, chunk, owed \ chunk))
  BY DEF Receive
<1> DEFINE reply == Reply(IdsOf(held), msg, chunk, owed \ chunk)
<1>5. reply \in Message
  <2>1. chunk \in SUBSET Envelope
    BY <1>3, <1>4, ChunkIsPart
  <2> QED BY <1>1, <1>2, <2>1, IdsOfEnvelopes, ReplyType
<1>6. [EmptyMessage EXCEPT !.more = "false"] \in Message
  BY EmptyMessageType DEF Message, More
<1>7. store' = [store EXCEPT ![d] = held]
  BY DEF Receive
<1>8. store' \in [Device -> SUBSET Envelope]
  BY <1>2, <1>7 DEF TypeOK
<1>9. pending' \in [Port -> SUBSET Envelope]
  BY <1>3, <1>4 DEF TypeOK
<1> HIDE DEF reply, msg
<1>10. CASE Say(p, reply)
  BY <1>1, <1>5, <1>8, <1>9, <1>10 DEF Say, TypeOK
<1>11. CASE Say(p, [EmptyMessage EXCEPT !.more = "false"])
  BY <1>1, <1>6, <1>8, <1>9, <1>11 DEF Say, TypeOK
<1>12. CASE Finish(p, "complete") /\ UNCHANGED out
  BY <1>1, <1>8, <1>9, <1>12, FinishType DEF TypeOK, Ending
<1> QED BY <1>4, <1>10, <1>11, <1>12 DEF Answer, reply

(* Two changes to a function, one point at a time.                          *)
LEMMA TwoUpdates ==
  ASSUME NEW D, NEW f, f = [q \in D |-> f[q]], NEW a \in D, NEW b \in D, a # b, NEW u, NEW v
  PROVE  [f EXCEPT ![a] = u, ![b] = v] =
           [q \in D |-> IF q = a THEN u ELSE IF q = b THEN v ELSE f[q]]
  OBVIOUS

Started(l, a, b) ==
  /\ a = <<l, "initiator">> /\ b = <<l, "responder">> /\ a # b /\ b = Peer(a) /\ a = Peer(b)
  /\ pc[a] = "idle" /\ pc[b] = "idle"
  /\ inbox' = [q \in Port |-> IF q = a THEN <<>> ELSE IF q = b THEN <<>> ELSE inbox[q]]
  /\ pc' = [q \in Port |-> IF q = a THEN "sending" ELSE IF q = b THEN "receiving" ELSE pc[q]]
  /\ pending' = [q \in Port |-> IF q = a THEN {} ELSE IF q = b THEN {} ELSE pending[q]]
  /\ rounds' = [q \in Port |-> IF q = a THEN 0 ELSE IF q = b THEN 0 ELSE rounds[q]]
  /\ ending' = [q \in Port |-> IF q = a THEN "none" ELSE IF q = b THEN "none" ELSE ending[q]]
  /\ stalled' = [q \in Port |-> IF q = a THEN FALSE ELSE IF q = b THEN FALSE ELSE stalled[q]]
  /\ out' = [out EXCEPT ![a] = StartMessage(Ids(Holder(a)))]

(* A started session sets both ports of one link and no other (session.ts   *)
(* 127-131, both roles).                                                    *)
LEMMA StartSessionPortByPort ==
  ASSUME TypeOK, NEW l \in Link, StartSession(l)
  PROVE  \E a, b \in Port : Started(l, a, b)
<1>1. PICK a \in Port, b \in Port :
        a = <<l, "initiator">> /\ b = <<l, "responder">> /\ a # b /\ b = Peer(a) /\ a = Peer(b)
  BY EndsArePorts
<1>2. /\ inbox' = [inbox EXCEPT ![a] = <<>>, ![b] = <<>>]
      /\ pc' = [pc EXCEPT ![a] = "sending", ![b] = "receiving"]
      /\ pending' = [pending EXCEPT ![a] = {}, ![b] = {}]
      /\ rounds' = [rounds EXCEPT ![a] = 0, ![b] = 0]
      /\ ending' = [ending EXCEPT ![a] = "none", ![b] = "none"]
      /\ stalled' = [stalled EXCEPT ![a] = FALSE, ![b] = FALSE]
      /\ out' = [out EXCEPT ![a] = StartMessage(Ids(Holder(a)))]
      /\ pc[a] = "idle" /\ pc[b] = "idle"
  BY <1>1, Zenon DEF StartSession
<1>3. /\ inbox = [q \in Port |-> inbox[q]]
      /\ pc = [q \in Port |-> pc[q]]
      /\ pending = [q \in Port |-> pending[q]]
      /\ rounds = [q \in Port |-> rounds[q]]
      /\ ending = [q \in Port |-> ending[q]]
      /\ stalled = [q \in Port |-> stalled[q]]
  BY DEF TypeOK
<1>4. /\ inbox' = [q \in Port |-> IF q = a THEN <<>> ELSE IF q = b THEN <<>> ELSE inbox[q]]
      /\ pc' = [q \in Port |-> IF q = a THEN "sending" ELSE IF q = b THEN "receiving" ELSE pc[q]]
      /\ pending' = [q \in Port |-> IF q = a THEN {} ELSE IF q = b THEN {} ELSE pending[q]]
      /\ rounds' = [q \in Port |-> IF q = a THEN 0 ELSE IF q = b THEN 0 ELSE rounds[q]]
      /\ ending' = [q \in Port |-> IF q = a THEN "none" ELSE IF q = b THEN "none" ELSE ending[q]]
      /\ stalled' = [q \in Port |-> IF q = a THEN FALSE ELSE IF q = b THEN FALSE ELSE stalled[q]]
  BY <1>1, <1>2, <1>3, TwoUpdates, Zenon
<1>5. Started(l, a, b)
  BY <1>1, <1>2, <1>4 DEF Started
<1> QED BY <1>5

TypeInv == TypeOK /\ RoundsToSpeak

(* Every message, queue and counter keeps its type and its bound.           *)
THEOREM TypeCorrect == Spec => []TypeInv
<1>1. Init => TypeInv
  BY EmptyMessageType, MeshAssumption DEF Init, TypeInv, TypeOK, RoundsToSpeak
<1>2. TypeInv /\ [Next]_vars => TypeInv'
  <2> SUFFICES ASSUME TypeOK, RoundsToSpeak, [Next]_vars
               PROVE  TypeOK' /\ RoundsToSpeak'
    BY DEF TypeInv
  <2>1. ASSUME NEW d \in Device, NEW e \in Envelope, Seal(d, e)
        PROVE  TypeOK' /\ RoundsToSpeak'
    BY <2>1 DEF Seal, session, TypeOK, RoundsToSpeak
  <2>2. ASSUME NEW l \in Link, StartSession(l)
        PROVE  TypeOK' /\ RoundsToSpeak'
    <3>0. PICK a \in Port, b \in Port : Started(l, a, b)
      BY <2>2, StartSessionPortByPort
    <3>1. Holder(a) \in Device /\ Holder(<<l, "responder">>) \in Device
      BY EndsArePorts, PeerFacts
    <3>2. StartMessage(Ids(Holder(a))) \in Message
      BY <3>1, IdsOfEnvelopes, StartMessageType DEF Ids, TypeOK
    <3>3. out' \in [Port -> Message]
      BY <3>0, <3>2 DEF TypeOK, Started
    <3>4. inbox' \in [Port -> Seq(Message)]
      BY <3>0 DEF TypeOK, Started
    <3>5. began' \in [Link -> SUBSET Envelope] /\ radio' \in [Link -> {"up", "silent", "closed"}]
      BY <2>2, <3>1, <3>0 DEF StartSession, TypeOK, Started
    <3>6. /\ pc' \in [Port -> {"idle", "receiving", "sending"}]
          /\ pending' \in [Port -> SUBSET Envelope]
          /\ ending' \in [Port -> Ending \cup {"none"}]
          /\ stalled' \in [Port -> BOOLEAN]
      BY <3>0 DEF TypeOK, Started
    <3>9. rounds' \in [Port -> 0 .. MaxRounds]
      BY <3>0, MeshAssumption DEF TypeOK, Started
    <3>7. TypeOK'
      BY <2>2, <3>3, <3>4, <3>5, <3>6, <3>9 DEF StartSession, TypeOK
    <3>8. RoundsToSpeak'
      BY <3>0, MeshAssumption DEF RoundsToSpeak, Started
    <3> QED BY <3>7, <3>8
  <2>3. ASSUME NEW p \in Port, Send(p)
        PROVE  TypeOK' /\ RoundsToSpeak'
    <3>1. inbox' \in [Port -> Seq(Message)]
      BY <2>3, PeerFacts DEF Send, TypeOK
    <3>2. out' \in [Port -> Message]
      BY <2>3, EmptyMessageType DEF Send, TypeOK
    <3>3. rounds' = [rounds EXCEPT ![p] = @ + 1] /\ rounds[p] < MaxRounds
      BY <2>3 DEF Send, RoundsToSpeak
    <3>4. rounds' \in [Port -> 0 .. MaxRounds]
      BY <3>3, MeshAssumption DEF TypeOK
    <3>5. CASE RoundsLeft(p)
      BY <2>3, <3>1, <3>2, <3>3, <3>4, <3>5, MeshAssumption
         DEF Send, TypeOK, RoundsToSpeak, RoundsLeft
    <3>6. CASE ~RoundsLeft(p)
      <4>1. Finish(p, "round-limit")
        BY <2>3, <3>6 DEF Send
      <4> QED BY <2>3, <3>1, <3>2, <3>3, <3>4, <4>1, FinishType
              DEF Send, TypeOK, RoundsToSpeak, Ending
    <3> QED BY <3>5, <3>6
  <2>4. ASSUME NEW p \in Port, SendClosed(p)
        PROVE  TypeOK' /\ RoundsToSpeak'
    BY <2>4, FinishType DEF SendClosed, TypeOK, RoundsToSpeak, Ending
  <2>5. ASSUME NEW p \in Port, SendStalled(p) \/ SendFails(p)
        PROVE  TypeOK' /\ RoundsToSpeak'
    <3>1. PICK how \in Ending : Finish(p, how)
      BY <2>5 DEF SendStalled, SendFails, Ending
    <3>2. faults' \in 0 .. MaxFaults
      BY <2>5, MeshAssumption DEF SendStalled, SendFails, TypeOK
    <3> QED BY <2>5, <3>1, <3>2, FinishType DEF SendStalled, SendFails, TypeOK, RoundsToSpeak
  <2>6. ASSUME NEW p \in Port, Receive(p)
        PROVE  TypeOK' /\ RoundsToSpeak'
    <3>1. pc[p] = "receiving" /\ UNCHANGED <<rounds, stalled, faults, began>>
      BY <2>6 DEF Receive
    <3>2. TypeOK'
      BY <2>6, <3>1, ReceiveType DEF TypeOK
    <3>3. RoundsToSpeak'
      BY <2>6, <3>1, ReceiveType DEF RoundsToSpeak
    <3> QED BY <3>2, <3>3
  <2>7. ASSUME NEW p \in Port, RefuseFrame(p)
        PROVE  TypeOK' /\ RoundsToSpeak'
    <3>1. Finish(p, "protocol-error") /\ inbox' \in [Port -> Seq(Message)]
      BY <2>7 DEF RefuseFrame, TypeOK
    <3>2. faults' \in 0 .. MaxFaults
      BY <2>7, MeshAssumption DEF RefuseFrame, TypeOK
    <3> QED BY <2>7, <3>1, <3>2, FinishType DEF RefuseFrame, TypeOK, RoundsToSpeak, Ending
  <2>8. ASSUME NEW p \in Port, ReceiveClosed(p)
        PROVE  TypeOK' /\ RoundsToSpeak'
    BY <2>8, FinishType DEF ReceiveClosed, TypeOK, RoundsToSpeak, Ending
  <2>9. ASSUME NEW p \in Port, Timeout(p)
        PROVE  TypeOK' /\ RoundsToSpeak'
    <3>1. faults' \in 0 .. MaxFaults
      BY <2>9, MeshAssumption DEF Timeout, TypeOK
    <3> QED BY <2>9, <3>1, FinishType DEF Timeout, TypeOK, RoundsToSpeak, Ending
  <2>10. ASSUME NEW l \in Link, NEW how \in {"closed", "silent"}, Break(l, how)
         PROVE  TypeOK' /\ RoundsToSpeak'
    <3>1. inbox' \in [Port -> Seq(Message)]
      BY <2>10 DEF Break, TypeOK
    <3>2. faults' \in 0 .. MaxFaults
      BY <2>10, MeshAssumption DEF Break, TypeOK
    <3> QED BY <2>10, <3>1, <3>2 DEF Break, TypeOK, RoundsToSpeak
  <2>11. CASE UNCHANGED vars
    BY <2>11 DEF vars, session, TypeOK, RoundsToSpeak
  <2> QED BY <2>1, <2>2, <2>3, <2>4, <2>5, <2>6, <2>7, <2>8, <2>9, <2>10, <2>11
          DEF Next, Drop, GoSilent
<1> QED BY <1>1, <1>2, PTL DEF Spec

(* Every message, queue and counter has its type, whatever the limits of a   *)
(* message are (session.ts, anti-entropy.ts AntiEntropy).                    *)
THEOREM TypesHold == Spec => []TypeOK
BY TypeCorrect, PTL DEF TypeInv

----------------------------------------------------------------------------
(* Stores, and what is on its way to them.                                  *)

StoreInv == StoresVerified /\ SendsOnlyWhatItHolds

(* Where every store only grows, and nothing new is queued, in hand or on   *)
(* the wire, what a port sends stays within what it holds.                  *)
LEMMA NothingNewOnTheWire ==
  ASSUME TypeOK, SendsOnlyWhatItHolds,
         \A d \in Device : store[d] \subseteq store'[d],
         \A p \in Port : /\ pending'[p] \subseteq pending[p]
                         /\ out'[p].records \subseteq out[p].records
                         /\ \A i \in DOMAIN inbox'[p] :
                              \E j \in DOMAIN inbox[p] : inbox'[p][i] = inbox[p][j]
  PROVE  SendsOnlyWhatItHolds'
<1> SUFFICES ASSUME NEW p \in Port
             PROVE  /\ pending'[p] \cup out'[p].records \subseteq store'[Holder(p)]
                    /\ \A i \in DOMAIN inbox'[Peer(p)] :
                         inbox'[Peer(p)][i].records \subseteq store'[Holder(p)]
  BY DEF SendsOnlyWhatItHolds
<1>1. Holder(p) \in Device /\ Peer(p) \in Port
  BY PeerFacts
<1> QED BY <1>1 DEF SendsOnlyWhatItHolds

(* A message is absorbed: the receiver's store takes envelopes its sender   *)
(* holds, one per record, and what it queues is in its own store.           *)
LEMMA ReceiveStore ==
  ASSUME TypeOK, StoresVerified, SendsOnlyWhatItHolds, NEW p \in Port, Receive(p)
  PROVE  /\ \E new \in SUBSET {e \in store[Holder(Peer(p))] \cap Accepts[Holder(p)] :
                                  e.recordId \notin Ids(Holder(p))} :
               store' = [store EXCEPT ![Holder(p)] = @ \cup new]
         /\ StoresVerified'
         /\ pending'[p] \subseteq store'[Holder(p)]
         /\ out'[p].records \subseteq store'[Holder(p)]
         /\ \A q \in Port \ {p} : pending'[q] = pending[q] /\ out'[q] = out[q]
<1> DEFINE d    == Holder(p)
           msg  == Head(inbox[p])
           held == Admit(store[d], msg.records, Trusted[d])
           owed == pending[p] \cup EnvelopesFor(held, OutIds(IdsOf(held), msg))
<1>0. d \in Device /\ Peer(p) \in Port /\ Peer(Peer(p)) = p /\ Holder(Peer(p)) \in Device
  BY PeerFacts
<1>1. inbox[p] # <<>> /\ inbox[p] \in Seq(Message) /\ msg = inbox[p][1] /\ 1 \in DOMAIN inbox[p]
  BY DEF Receive, TypeOK
<1>2. msg.records \subseteq store[Holder(Peer(p))]
  BY <1>0, <1>1 DEF SendsOnlyWhatItHolds
<1>3. msg.records \subseteq Envelope
  <2>1. msg \in Message
    BY DEF Receive, TypeOK
  <2> QED BY <2>1 DEF Message
<1>4. store' = [store EXCEPT ![d] = held]
  BY DEF Receive
<1> DEFINE new == {e \in msg.records : e.kid \in Trusted[d] /\ e.recordId \notin IdsOf(store[d])}
<1>5. held = store[d] \cup new
  BY DEF Admit
<1>6. new \in SUBSET {e \in store[Holder(Peer(p))] \cap Accepts[d] : e.recordId \notin Ids(d)}
  BY <1>0, <1>2, <1>3 DEF Accepts, Ids
<1>7. held \subseteq Accepts[d] /\ OneEnvelopePerId(held)
  <2>1. OneEnvelopePerId(store[d]) /\ OneEnvelopePerId(store[Holder(Peer(p))])
    BY <1>0 DEF StoresVerified
  <2>2. OneEnvelopePerId(held)
    BY <1>2, <2>1, AdmitKeepsIdsUnique DEF OneEnvelopePerId
  <2>3. store[d] \subseteq Accepts[d]
    BY <1>0 DEF StoresVerified
  <2> QED BY <1>5, <1>6, <2>2, <2>3
<1>8. StoresVerified'
  <2>1. \A c \in Device : store'[c] = IF c = d THEN held ELSE store[c]
    BY <1>4 DEF TypeOK
  <2>2. Accepts' = Accepts
    BY DEF Accepts
  <2> QED BY <1>7, <2>1, <2>2 DEF StoresVerified, OneEnvelopePerId
<1>9. PICK chunk \in Chunks(owed) :
        /\ pending' = [pending EXCEPT ![p] = owed \ chunk]
        /\ Answer(p, msg, Reply(IdsOf(held), msg, chunk, owed \ chunk))
  BY DEF Receive
<1> DEFINE reply == Reply(IdsOf(held), msg, chunk, owed \ chunk)
<1>10. owed \subseteq held
  <2>1. pending[p] \subseteq store[d]
    BY DEF SendsOnlyWhatItHolds
  <2> QED BY <1>5, <2>1 DEF EnvelopesFor
<1>11. store'[d] = held
  BY <1>0, <1>4 DEF TypeOK
<1>12. chunk \subseteq held /\ owed \ chunk \subseteq held
  BY <1>9, <1>10, ChunkIsPart
<1>13. /\ pending'[p] = owed \ chunk
       /\ \A q \in Port \ {p} : pending'[q] = pending[q]
  BY <1>9 DEF TypeOK
<1>14. out'[p].records \subseteq held /\ \A q \in Port \ {p} : out'[q] = out[q]
  <2>1. reply.records = chunk
    BY DEF Reply
  <2>2. [EmptyMessage EXCEPT !.more = "false"].records = {}
    BY DEF EmptyMessage
  <2>3. out[p].records \subseteq held
    BY <1>5 DEF SendsOnlyWhatItHolds
  <2> HIDE DEF reply, msg
  <2>4. CASE Say(p, reply)
    BY <1>12, <2>1, <2>4 DEF Say, TypeOK
  <2>5. CASE Say(p, [EmptyMessage EXCEPT !.more = "false"])
    BY <2>2, <2>5 DEF Say, TypeOK
  <2>6. CASE UNCHANGED out
    BY <2>3, <2>6
  <2> QED BY <1>9, <2>4, <2>5, <2>6 DEF Answer, reply
<1>15. store' = [store EXCEPT ![d] = @ \cup new]
  BY <1>4, <1>5
<1> QED BY <1>6, <1>8, <1>11, <1>12, <1>13, <1>14, <1>15

(* Stores hold only what verifies, one envelope per record, and nothing a   *)
(* port sends, has queued or has on the wire is missing from its store.     *)
THEOREM StoresAreSound == Spec => []StoreInv
<1>1. Init => StoreInv
  <2> SUFFICES ASSUME Init PROVE StoresVerified /\ SendsOnlyWhatItHolds
    BY DEF StoreInv
  <2>1. StoresVerified
    BY DEF Init, StoresVerified
  <2>2. \A p \in Port : Peer(p) \in Port /\ EmptyMessage.records = {}
    BY PeerFacts DEF EmptyMessage
  <2>3. SendsOnlyWhatItHolds
    BY <2>2 DEF Init, SendsOnlyWhatItHolds
  <2> QED BY <2>1, <2>3
<1>2. TypeOK /\ TypeOK' /\ StoreInv /\ [Next]_vars => StoreInv'
  <2> SUFFICES ASSUME TypeOK, TypeOK', StoresVerified, SendsOnlyWhatItHolds, [Next]_vars
               PROVE  StoresVerified' /\ SendsOnlyWhatItHolds'
    BY DEF StoreInv
  <2>0. ASSUME UNCHANGED store PROVE StoresVerified'
    BY <2>0 DEF StoresVerified, Accepts
  <2>1. ASSUME NEW d \in Device, NEW e \in Envelope, Seal(d, e)
        PROVE  StoresVerified' /\ SendsOnlyWhatItHolds'
    <3>1. \A c \in Device : store'[c] = IF c = d THEN store[d] \cup {e} ELSE store[c]
      BY <2>1 DEF Seal, TypeOK
    <3>2. e \in Accepts[d] /\ e.recordId \notin IdsOf(store[d])
      BY <2>1 DEF Seal, Ids
    <3>3. OneEnvelopePerId(store[d] \cup {e})
      BY <3>2 DEF StoresVerified, OneEnvelopePerId, IdsOf
    <3>4. StoresVerified'
      <4>1. Accepts' = Accepts
        BY DEF Accepts
      <4> QED BY <3>1, <3>2, <3>3, <4>1 DEF StoresVerified, OneEnvelopePerId
    <3>5. SendsOnlyWhatItHolds'
      BY <2>1, <3>1, NothingNewOnTheWire DEF Seal, session
    <3> QED BY <3>4, <3>5
  <2>2. ASSUME NEW l \in Link, StartSession(l)
        PROVE  StoresVerified' /\ SendsOnlyWhatItHolds'
    <3>1. UNCHANGED store
      BY <2>2 DEF StartSession
    <3>2. PICK a \in Port, b \in Port : Started(l, a, b)
      BY <2>2, StartSessionPortByPort
    <3>3. StartMessage(Ids(Holder(a))).records = {}
      BY DEF StartMessage, EmptyMessage
    <3>4. \A p \in Port : /\ pending'[p] \subseteq pending[p]
                          /\ inbox'[p] = <<>> \/ inbox'[p] = inbox[p]
      BY <3>2 DEF Started
    <3>6. \A p \in Port : out'[p].records \subseteq out[p].records
      <4>1. \A p \in Port : out'[p] = IF p = a THEN StartMessage(Ids(Holder(a))) ELSE out[p]
        <5>1. out' = [out EXCEPT ![a] = StartMessage(Ids(Holder(a)))] /\ out \in [Port -> Message]
          BY <3>2 DEF Started, TypeOK
        <5> QED BY <5>1
      <4> QED BY <3>3, <4>1
    <3>5. SendsOnlyWhatItHolds'
      BY <3>1, <3>4, <3>6, NothingNewOnTheWire DEF TypeOK
    <3> QED BY <2>0, <3>1, <3>5
  <2>3. ASSUME NEW p \in Port, Send(p)
        PROVE  StoresVerified' /\ SendsOnlyWhatItHolds'
    <3>1. UNCHANGED <<store, pending>>
      BY <2>3 DEF Send
    <3>2. \A q \in Port : out'[q] = IF q = p THEN EmptyMessage ELSE out[q]
      BY <2>3 DEF Send, TypeOK
    <3>3. \A q \in Port : inbox'[q] = inbox[q] \/ (q = Peer(p) /\ inbox'[q] = Append(inbox[q], out[p]))
      BY <2>3 DEF Send, TypeOK
    <3>4. ASSUME NEW q \in Port, NEW i \in DOMAIN inbox'[Peer(q)]
          PROVE  inbox'[Peer(q)][i].records \subseteq store[Holder(q)]
      <4>0. Peer(q) \in Port /\ Peer(Peer(q)) = q /\ Peer(Peer(p)) = p /\ inbox[Peer(q)] \in Seq(Message)
        BY PeerFacts DEF TypeOK
      <4>1. CASE inbox'[Peer(q)] = inbox[Peer(q)]
        BY <3>4, <4>1 DEF SendsOnlyWhatItHolds
      <4>2. CASE Peer(q) = Peer(p) /\ inbox'[Peer(q)] = Append(inbox[Peer(q)], out[p])
        <5>1. q = p
          BY <4>0, <4>2
        <5>2. out[p].records \subseteq store[Holder(p)]
          BY DEF SendsOnlyWhatItHolds
        <5>3. i \in DOMAIN inbox[Peer(q)] \/ inbox'[Peer(q)][i] = out[p]
          BY <3>4, <4>0, <4>2
        <5>4. i \in DOMAIN inbox[Peer(q)] => inbox'[Peer(q)][i] = inbox[Peer(q)][i]
          BY <3>4, <4>0, <4>2
        <5> QED BY <5>1, <5>2, <5>3, <5>4 DEF SendsOnlyWhatItHolds
      <4> QED BY <3>3, <4>0, <4>1, <4>2
    <3>5. SendsOnlyWhatItHolds'
      BY <3>1, <3>2, <3>4 DEF SendsOnlyWhatItHolds, EmptyMessage
    <3> QED BY <2>0, <3>1, <3>5
  <2>4. ASSUME UNCHANGED <<store, pending, out>>,
               \A p \in Port : inbox'[p] = inbox[p] \/ inbox'[p] = <<>>
                               \/ (inbox[p] # <<>> /\ inbox'[p] = Tail(inbox[p]))
        PROVE  StoresVerified' /\ SendsOnlyWhatItHolds'
    <3>1. \A p \in Port : \A i \in DOMAIN inbox'[p] :
             \E j \in DOMAIN inbox[p] : inbox'[p][i] = inbox[p][j]
      <4> SUFFICES ASSUME NEW p \in Port, NEW i \in DOMAIN inbox'[p]
                   PROVE  \E j \in DOMAIN inbox[p] : inbox'[p][i] = inbox[p][j]
        OBVIOUS
      <4>1. inbox[p] \in Seq(Message)
        BY DEF TypeOK
      <4>2. CASE inbox[p] # <<>> /\ inbox'[p] = Tail(inbox[p])
        <5>1. i + 1 \in DOMAIN inbox[p] /\ inbox'[p][i] = inbox[p][i + 1]
          BY <4>1, <4>2
        <5> QED BY <5>1
      <4>3. CASE inbox'[p] = inbox[p] \/ inbox'[p] = <<>>
        BY <4>3
      <4> QED BY <2>4, <4>2, <4>3
    <3>2. SendsOnlyWhatItHolds'
      BY <2>4, <3>1, NothingNewOnTheWire
    <3> QED BY <2>0, <2>4, <3>2
  <2>5. ASSUME NEW p \in Port, SendClosed(p) \/ SendStalled(p) \/ SendFails(p) \/ ReceiveClosed(p) \/ Timeout(p)
        PROVE  StoresVerified' /\ SendsOnlyWhatItHolds'
    BY <2>4, <2>5 DEF SendClosed, SendStalled, SendFails, ReceiveClosed, Timeout
  <2>6. ASSUME NEW p \in Port, RefuseFrame(p)
        PROVE  StoresVerified' /\ SendsOnlyWhatItHolds'
    <3>1. \A q \in Port : inbox'[q] = inbox[q] \/ (inbox[q] # <<>> /\ inbox'[q] = Tail(inbox[q]))
      BY <2>6 DEF RefuseFrame, TypeOK
    <3> QED BY <2>4, <2>6, <3>1 DEF RefuseFrame
  <2>7. ASSUME NEW l \in Link, NEW how \in {"closed", "silent"}, Break(l, how)
        PROVE  StoresVerified' /\ SendsOnlyWhatItHolds'
    <3>1. \A q \in Port : inbox'[q] = inbox[q] \/ inbox'[q] = <<>>
      BY <2>7 DEF Break
    <3> QED BY <2>4, <2>7, <3>1 DEF Break
  <2>8. ASSUME NEW p \in Port, Receive(p)
        PROVE  StoresVerified' /\ SendsOnlyWhatItHolds'
    <3>1. PICK new : store' = [store EXCEPT ![Holder(p)] = @ \cup new]
      BY <2>8, ReceiveStore
    <3>2. \A d \in Device : store[d] \subseteq store'[d]
      BY <3>1 DEF TypeOK
    <3>3. inbox[p] # <<>> /\ \A q \in Port : inbox'[q] = IF q = p THEN Tail(inbox[p]) ELSE inbox[q]
      BY <2>8 DEF Receive, TypeOK
    <3>4. ASSUME NEW q \in Port
          PROVE  /\ pending'[q] \cup out'[q].records \subseteq store'[Holder(q)]
                 /\ \A i \in DOMAIN inbox'[Peer(q)] :
                      inbox'[Peer(q)][i].records \subseteq store'[Holder(q)]
      <4>1. Holder(q) \in Device /\ Peer(q) \in Port /\ inbox[p] \in Seq(Message)
        BY PeerFacts DEF TypeOK
      <4>2. pending'[q] \cup out'[q].records \subseteq store'[Holder(q)]
        <5>1. CASE q = p
          BY <2>8, <5>1, ReceiveStore
        <5>2. CASE q # p
          BY <2>8, <3>2, <4>1, <5>2, ReceiveStore DEF SendsOnlyWhatItHolds
        <5> QED BY <5>1, <5>2
      <4>3. ASSUME NEW i \in DOMAIN inbox'[Peer(q)]
            PROVE  \E j \in DOMAIN inbox[Peer(q)] : inbox'[Peer(q)][i] = inbox[Peer(q)][j]
        <5>1. CASE Peer(q) = p
          <6>1. inbox'[p] = Tail(inbox[p]) /\ i \in DOMAIN Tail(inbox[p])
            BY <3>3, <4>3, <5>1
          <6>2. i + 1 \in DOMAIN inbox[p] /\ Tail(inbox[p])[i] = inbox[p][i + 1]
            BY <3>3, <4>1, <6>1
          <6> QED BY <5>1, <6>1, <6>2
        <5>2. CASE Peer(q) # p
          BY <3>3, <4>1, <4>3, <5>2
        <5> QED BY <5>1, <5>2
      <4>4. \A i \in DOMAIN inbox'[Peer(q)] : inbox'[Peer(q)][i].records \subseteq store'[Holder(q)]
        BY <3>2, <4>1, <4>3 DEF SendsOnlyWhatItHolds
      <4> QED BY <4>2, <4>4
    <3>5. SendsOnlyWhatItHolds'
      BY <3>4 DEF SendsOnlyWhatItHolds
    <3> QED BY <2>8, <3>5, ReceiveStore
  <2>9. CASE UNCHANGED vars
    BY <2>4, <2>9 DEF vars, session
  <2> QED BY <2>1, <2>2, <2>3, <2>5, <2>6, <2>7, <2>8, <2>9 DEF Next, Drop, GoSilent
<1> QED BY <1>1, <1>2, TypeCorrect, PTL DEF Spec, TypeInv

(* No store ever holds an envelope its registry does not verify, or two     *)
(* envelopes of one record (store.ts admit).                                *)
THEOREM StoresAlwaysVerified == Spec => []StoresVerified
  BY StoresAreSound, PTL DEF StoreInv

(* Whatever a port sends, queues or has on the wire its device holds (anti- *)
(* entropy.ts #pending).                                                    *)
THEOREM NeverSendsWhatItLacks == Spec => []SendsOnlyWhatItHolds
  BY StoresAreSound, PTL DEF StoreInv

(* The stores are a grow-only log: nothing held is ever dropped, and what a *)
(* session adds is a copy of what the device at the other end holds.        *)
THEOREM SyncIsAGrowOnlyLog == Spec => ImplementsGrowOnlyLog
<1>1. Init => Log!Init
  BY DEF Init, Log!Init
<1>2. TypeOK /\ StoresVerified /\ SendsOnlyWhatItHolds /\ [Next]_vars => [Log!Next]_store
  <2> SUFFICES ASSUME TypeOK, StoresVerified, SendsOnlyWhatItHolds, [Next]_vars
               PROVE  Log!Next \/ UNCHANGED store
    OBVIOUS
  <2>1. ASSUME NEW d \in Device, NEW e \in Envelope, Seal(d, e)
        PROVE  Log!Next
    <3>1. e \in Accepts[d] /\ ~Log!Holds(d, e) /\ store' = [store EXCEPT ![d] = @ \cup {e}]
      BY <2>1 DEF Seal, Ids, IdsOf, Log!Holds
    <3> QED BY <3>1 DEF Log!Next, Log!Seal
  <2>2. ASSUME NEW p \in Port, Receive(p)
        PROVE  Log!Next
    <3>1. Holder(p) \in Device /\ Holder(Peer(p)) \in Device
      BY PeerFacts
    <3>2. PICK new \in SUBSET {e \in store[Holder(Peer(p))] \cap Accepts[Holder(p)] :
                                 e.recordId \notin Ids(Holder(p))} :
            store' = [store EXCEPT ![Holder(p)] = @ \cup new]
      BY <2>2, ReceiveStore
    <3>3. new \in SUBSET {e \in store[Holder(Peer(p))] \cap Accepts[Holder(p)] :
                            ~Log!Holds(Holder(p), e)}
      BY <3>2 DEF Ids, IdsOf, Log!Holds
    <3>4. Log!Copy(Holder(p), Holder(Peer(p)))
      BY <3>2, <3>3 DEF Log!Copy
    <3> QED BY <3>1, <3>4 DEF Log!Next
  <2>3. ASSUME NEW l \in Link, StartSession(l) \/ Break(l, "closed") \/ Break(l, "silent")
        PROVE  UNCHANGED store
    BY <2>3 DEF StartSession, Break
  <2>4. ASSUME NEW p \in Port, Send(p) \/ SendClosed(p) \/ SendStalled(p) \/ SendFails(p) \/ RefuseFrame(p)
                              \/ ReceiveClosed(p) \/ Timeout(p)
        PROVE  UNCHANGED store
    BY <2>4 DEF Send, SendClosed, SendStalled, SendFails, RefuseFrame, ReceiveClosed, Timeout
  <2>5. CASE UNCHANGED vars
    BY <2>5 DEF vars
  <2> QED BY <2>1, <2>2, <2>3, <2>4, <2>5 DEF Next, Drop, GoSilent
<1> QED BY <1>1, <1>2, TypeCorrect, StoresAreSound, PTL
        DEF Spec, Log!Spec, ImplementsGrowOnlyLog, TypeInv, StoreInv

----------------------------------------------------------------------------
(* The turn of a link.                                                      *)

(* The turns a port has, in hand and in its inbox, are a number.            *)
LEMMA TokenType ==
  /\ TypeOK => \A p \in Port : Token(p) \in Nat
  /\ TypeOK' => \A p \in Port : Token(p)' \in Nat
<1>1. ASSUME TypeOK, NEW p \in Port
      PROVE  Token(p) \in Nat
  BY <1>1 DEF TypeOK, Token
<1>2. ASSUME TypeOK', NEW p \in Port
      PROVE  Token(p)' \in Nat
  BY <1>2 DEF TypeOK, Token
<1> QED BY <1>1, <1>2

(* A step at one link that leaves at most one token there, and exactly one  *)
(* where both ends run on, keeps the turn everywhere.                       *)
LEMMA OneTokenFrom ==
  ASSUME OneToken, NEW p \in Port,
         \A q \in Port \ {p, Peer(p)} : Token(q)' = Token(q) /\ pc'[q] = pc[q],
         \A l \in Link \ {LinkOf(p)} : radio'[l] = radio[l],
         Token(p)' \in Nat, Token(Peer(p))' \in Nat,
         Token(p)' + Token(Peer(p))' <= 1,
         \/ Token(p)' + Token(Peer(p))' = 1
         \/ pc'[p] = "idle"
         \/ radio'[LinkOf(p)] # "up"
  PROVE  OneToken'
<1>1. ASSUME NEW q \in Port
      PROVE  /\ Token(q)' + Token(Peer(q))' <= 1
             /\ (radio'[LinkOf(q)] = "up" /\ pc'[q] # "idle" /\ pc'[Peer(q)] # "idle")
                  => Token(q)' + Token(Peer(q))' = 1
  <2>0. /\ Peer(p) \in Port /\ Peer(Peer(p)) = p /\ LinkOf(Peer(p)) = LinkOf(p)
        /\ Peer(q) \in Port /\ Peer(Peer(q)) = q /\ LinkOf(q) \in Link
        /\ LinkOf(q) = LinkOf(p) => q = p \/ q = Peer(p)
    BY PeerFacts
  <2>2. CASE q \in {p, Peer(p)}
    BY <2>0, <2>2
  <2>3. CASE q \notin {p, Peer(p)}
    <3>1. Peer(q) \notin {p, Peer(p)} /\ LinkOf(q) # LinkOf(p)
      BY <2>0, <2>3
    <3>2. Token(q)' = Token(q) /\ Token(Peer(q))' = Token(Peer(q))
      BY <2>0, <2>3, <3>1
    <3> QED BY <2>0, <2>3, <3>1, <3>2 DEF OneToken
  <2> QED BY <2>2, <2>3
<1> QED BY <1>1 DEF OneToken

(* The same, for a step that adds no token.                                 *)
LEMMA TurnKept ==
  ASSUME TypeOK, TypeOK', OneToken, NEW p \in Port,
         \A q \in Port \ {p, Peer(p)} : Token(q)' = Token(q) /\ pc'[q] = pc[q],
         \A l \in Link \ {LinkOf(p)} : radio'[l] = radio[l],
         Token(p)' + Token(Peer(p))' <= Token(p) + Token(Peer(p)),
         \/ Token(p)' + Token(Peer(p))' = 1
         \/ pc'[p] = "idle"
         \/ radio'[LinkOf(p)] # "up"
  PROVE  OneToken'
<1>1. /\ Token(p) \in Nat /\ Token(Peer(p)) \in Nat
      /\ Token(p)' \in Nat /\ Token(Peer(p))' \in Nat
      /\ Token(p) + Token(Peer(p)) <= 1
  BY PeerFacts, TokenType DEF OneToken
<1>2. Token(p)' + Token(Peer(p))' <= 1
  BY <1>1
<1> QED BY <1>1, <1>2, OneTokenFrom

(* Exactly one end has the turn while both run on a live link.              *)
THEOREM OneTurn == Spec => []OneToken
<1>1. Init => OneToken
  BY PeerFacts DEF Init, OneToken, Token
<1>2. TypeOK /\ TypeOK' /\ OneToken /\ [Next]_vars => OneToken'
  <2> SUFFICES ASSUME TypeOK, TypeOK', OneToken, [Next]_vars
               PROVE  OneToken'
    OBVIOUS
  <2>0. \A q \in Port : Len(inbox[q]) \in Nat /\ Len(inbox'[q]) \in Nat
    BY DEF TypeOK
  <2>1. ASSUME NEW d \in Device, NEW e \in Envelope, Seal(d, e)
        PROVE  OneToken'
    BY <2>1 DEF Seal, session, OneToken, Token
  <2>2. ASSUME NEW l \in Link, StartSession(l)
        PROVE  OneToken'
    <3>1. PICK a \in Port, b \in Port : Started(l, a, b)
      BY <2>2, StartSessionPortByPort
    <3>2. /\ Token(a)' = 1 /\ Token(b)' = 0 /\ b = Peer(a)
          /\ \A q \in Port \ {a, b} : Token(q)' = Token(q) /\ pc'[q] = pc[q]
      BY <3>1 DEF Started, Token
    <3>3. \A k \in Link \ {l} : radio'[k] = radio[k]
      BY <2>2 DEF StartSession, TypeOK
    <3>4. LinkOf(a) = l
      BY <3>1 DEF Started, LinkOf
    <3> QED BY <3>2, <3>3, <3>4, OneTokenFrom
  <2>3. ASSUME NEW p \in Port, Send(p)
        PROVE  OneToken'
    <3>0. Peer(p) \in Port /\ Peer(p) # p /\ LinkOf(p) \in Link
      BY PeerFacts
    <3>1. /\ pc[p] = "sending"
          /\ pc'[p] \in {"idle", "receiving"}
          /\ pc'[p] = "idle" \/ radio' = radio
          /\ \A q \in Port \ {p} : pc'[q] = pc[q]
          /\ \A k \in Link \ {LinkOf(p)} : radio'[k] = radio[k]
      BY <2>3 DEF Send, Finish, TypeOK
    <3>2. CASE radio[LinkOf(p)] = "up"
      <4>1. inbox' = [inbox EXCEPT ![Peer(p)] = Append(@, out[p])]
        BY <2>3, <3>2 DEF Send
      <4>2. /\ \A q \in Port \ {Peer(p)} : inbox'[q] = inbox[q]
            /\ Len(inbox'[Peer(p)]) = Len(inbox[Peer(p)]) + 1
        BY <3>0, <4>1 DEF TypeOK
      <4>3. \A q \in Port \ {p, Peer(p)} : Token(q)' = Token(q)
        BY <3>1, <4>2 DEF Token
      <4>4. Token(p)' = Token(p) - 1 /\ Token(p) >= 1
        BY <2>0, <3>0, <3>1, <4>2 DEF Token
      <4>5. Token(Peer(p))' = Token(Peer(p)) + 1
        BY <2>0, <3>0, <3>1, <4>2 DEF Token
      <4>6. /\ Token(p)' + Token(Peer(p))' = Token(p) + Token(Peer(p))
            /\ Token(p) + Token(Peer(p)) = 1
        BY <3>0, <4>4, <4>5, TokenType DEF OneToken
      <4> QED BY <3>0, <3>1, <4>3, <4>6, TurnKept
    <3>3. CASE radio[LinkOf(p)] # "up"
      <4>1. inbox' = inbox
        BY <2>3, <3>3 DEF Send
      <4>2. radio'[LinkOf(p)] # "up"
        BY <2>3, <3>0, <3>3 DEF Send, Finish, TypeOK
      <4>3. \A q \in Port \ {p} : Token(q)' = Token(q)
        BY <3>1, <4>1 DEF Token
      <4>4. Token(p)' <= Token(p)
        BY <2>0, <3>1, <4>1 DEF Token
      <4>5. Token(p)' + Token(Peer(p))' <= Token(p) + Token(Peer(p))
        BY <3>0, <4>3, <4>4, TokenType
      <4> QED BY <3>0, <3>1, <4>2, <4>3, <4>5, TurnKept
    <3> QED BY <3>2, <3>3
  <2>4. ASSUME NEW p \in Port, NEW how, Finish(p, how),
               inbox' = inbox \/ (inbox[p] # <<>> /\ inbox' = [inbox EXCEPT ![p] = Tail(@)])
        PROVE  OneToken'
    <3>0. Peer(p) \in Port /\ Peer(p) # p /\ LinkOf(p) \in Link
      BY PeerFacts
    <3>1. /\ pc'[p] = "idle"
          /\ \A q \in Port \ {p} : pc'[q] = pc[q]
          /\ \A k \in Link \ {LinkOf(p)} : radio'[k] = radio[k]
      BY <2>4 DEF Finish, TypeOK
    <3>2. /\ \A q \in Port \ {p} : inbox'[q] = inbox[q]
          /\ Len(inbox'[p]) <= Len(inbox[p]) /\ Len(inbox'[p]) \in Nat
      BY <2>4 DEF TypeOK
    <3>3. \A q \in Port \ {p} : Token(q)' = Token(q)
      BY <3>1, <3>2 DEF Token
    <3>4. Token(p)' <= Token(p)
      BY <2>0, <3>1, <3>2 DEF Token
    <3>5. Token(p)' + Token(Peer(p))' <= Token(p) + Token(Peer(p))
      BY <3>0, <3>3, <3>4, TokenType
    <3> QED BY <3>0, <3>1, <3>3, <3>5, TurnKept
  <2>5. ASSUME NEW p \in Port,
               SendClosed(p) \/ SendStalled(p) \/ SendFails(p) \/ RefuseFrame(p) \/ ReceiveClosed(p) \/ Timeout(p)
        PROVE  OneToken'
    BY <2>4, <2>5 DEF SendClosed, SendStalled, SendFails, RefuseFrame, ReceiveClosed, Timeout
  <2>6. ASSUME NEW p \in Port, Receive(p)
        PROVE  OneToken'
    <3>0. Peer(p) \in Port /\ Peer(p) # p /\ LinkOf(p) \in Link
      BY PeerFacts
    <3>1. inbox[p] # <<>> /\ pc[p] = "receiving" /\ inbox' = [inbox EXCEPT ![p] = Tail(@)]
      BY <2>6 DEF Receive
    <3>2. \/ \E m : Say(p, m)
          \/ Finish(p, "complete")
      BY <2>6 DEF Receive, Answer
    <3>3. CASE Finish(p, "complete")
      BY <2>4, <3>1, <3>3
    <3>4. CASE \E m : Say(p, m)
      <4>1. /\ pc'[p] = "sending"
            /\ \A q \in Port \ {p} : pc'[q] = pc[q]
            /\ radio' = radio
        BY <3>4 DEF Say, TypeOK
      <4>2. /\ \A q \in Port \ {p} : inbox'[q] = inbox[q]
            /\ Len(inbox'[p]) = Len(inbox[p]) - 1 /\ Len(inbox[p]) >= 1
        BY <3>1 DEF TypeOK
      <4>3. \A q \in Port \ {p} : Token(q)' = Token(q)
        BY <4>1, <4>2 DEF Token
      <4>4. Token(p)' = Token(p) /\ Token(p) >= 1
        BY <2>0, <3>1, <4>1, <4>2 DEF Token
      <4>5. /\ Token(p)' + Token(Peer(p))' = Token(p) + Token(Peer(p))
            /\ Token(p) + Token(Peer(p)) = 1
        BY <3>0, <4>3, <4>4, TokenType DEF OneToken
      <4> QED BY <3>0, <4>1, <4>3, <4>5, TurnKept
    <3> QED BY <3>2, <3>3, <3>4
  <2>7. ASSUME NEW l \in Link, NEW how \in {"closed", "silent"}, Break(l, how)
        PROVE  OneToken'
    <3>1. /\ pc' = pc
          /\ radio'[l] # "up"
          /\ \A k \in Link \ {l} : radio'[k] = radio[k]
          /\ \A q \in Port : inbox'[q] = inbox[q] \/ inbox'[q] = <<>>
      BY <2>7 DEF Break, TypeOK
    <3>2. \A q \in Port : LinkOf(q) # l => inbox'[q] = inbox[q]
      BY <2>7 DEF Break, Ends, LinkOf
    <3>3. ASSUME NEW q \in Port
          PROVE  /\ Token(q)' + Token(Peer(q))' <= 1
                 /\ (radio'[LinkOf(q)] = "up" /\ pc'[q] # "idle" /\ pc'[Peer(q)] # "idle")
                      => Token(q)' + Token(Peer(q))' = 1
      <4>0. Peer(q) \in Port /\ LinkOf(Peer(q)) = LinkOf(q) /\ LinkOf(q) \in Link
        BY PeerFacts
      <4>1. CASE LinkOf(q) = l
        <5>1. Token(q)' <= Token(q) /\ Token(Peer(q))' <= Token(Peer(q))
          BY <2>0, <3>1, <4>0 DEF Token
        <5>2. Token(q)' + Token(Peer(q))' <= 1
          BY <4>0, <5>1, TokenType DEF OneToken
        <5> QED BY <3>1, <4>1, <5>2
      <4>2. CASE LinkOf(q) # l
        BY <3>1, <3>2, <4>0, <4>2 DEF Token, OneToken
      <4> QED BY <4>1, <4>2
    <3> QED BY <3>3 DEF OneToken
  <2>8. CASE UNCHANGED vars
    BY <2>8 DEF vars, session, OneToken, Token
  <2> QED BY <2>1, <2>2, <2>3, <2>5, <2>6, <2>7, <2>8 DEF Next, Drop, GoSilent
<1> QED BY <1>1, <1>2, TypeCorrect, PTL DEF Spec, TypeInv

(* Ending a session leaves its link down or silent (session.ts 186-190).    *)
LEMMA BothAtWorkAfterFinish ==
  ASSUME TypeOK, BothAtWork, NEW p \in Port, NEW how, Finish(p, how)
  PROVE  BothAtWork'
<1>1. radio'[LinkOf(p)] # "up"
  BY PeerFacts DEF Finish, TypeOK
<1>2. ASSUME NEW q \in Port, radio'[LinkOf(q)] = "up"
      PROVE  pc'[q] # "idle"
  <2>1. q # p /\ LinkOf(q) # LinkOf(p) /\ LinkOf(q) \in Link
    BY <1>1, <1>2, PeerFacts
  <2>2. radio'[LinkOf(q)] = radio[LinkOf(q)] /\ pc'[q] = pc[q]
    BY <2>1 DEF Finish, TypeOK
  <2> QED BY <1>2, <2>2 DEF BothAtWork
<1> QED BY <1>2 DEF BothAtWork

(* A live link never has an end that has stopped.                           *)
THEOREM LiveLinksAreWorked == Spec => []BothAtWork
<1>1. Init => BothAtWork
  BY PeerFacts DEF Init, BothAtWork
<1>2. TypeOK /\ BothAtWork /\ [Next]_vars => BothAtWork'
  <2> SUFFICES ASSUME TypeOK, BothAtWork, [Next]_vars
               PROVE  BothAtWork'
    OBVIOUS
  <2>1. ASSUME NEW d \in Device, NEW e \in Envelope, Seal(d, e)
        PROVE  BothAtWork'
    BY <2>1 DEF Seal, session, BothAtWork
  <2>2. ASSUME NEW l \in Link, StartSession(l)
        PROVE  BothAtWork'
    <3>1. PICK a \in Port, b \in Port : Started(l, a, b)
      BY <2>2, StartSessionPortByPort
    <3>2. \A k \in Link \ {l} : radio'[k] = radio[k]
      BY <2>2 DEF StartSession, TypeOK
    <3>3. \A q \in Port : pc'[q] = IF q = a THEN "sending" ELSE IF q = b THEN "receiving" ELSE pc[q]
      BY <3>1 DEF Started
    <3>4. \A q \in Port \ {a, b} : LinkOf(q) \in Link \ {l}
      BY <3>1, EndsArePorts, PeerFacts DEF Started
    <3> QED BY <3>2, <3>3, <3>4 DEF BothAtWork
  <2>3. ASSUME NEW p \in Port, Send(p)
        PROVE  BothAtWork'
    <3>1. CASE RoundsLeft(p)
      <4>1. radio' = radio /\ pc' = [pc EXCEPT ![p] = "receiving"]
        BY <2>3, <3>1 DEF Send
      <4>2. \A q \in Port : pc'[q] = "receiving" \/ pc'[q] = pc[q]
        BY <4>1 DEF TypeOK
      <4> QED BY <4>1, <4>2 DEF BothAtWork
    <3>2. CASE ~RoundsLeft(p)
      <4>1. Finish(p, "round-limit")
        BY <2>3, <3>2 DEF Send
      <4> QED BY <4>1, BothAtWorkAfterFinish
    <3> QED BY <3>1, <3>2
  <2>4. ASSUME NEW p \in Port,
               SendClosed(p) \/ SendStalled(p) \/ SendFails(p) \/ RefuseFrame(p) \/ ReceiveClosed(p) \/ Timeout(p)
        PROVE  BothAtWork'
    <3>1. PICK how : Finish(p, how)
      BY <2>4 DEF SendClosed, SendStalled, SendFails, RefuseFrame, ReceiveClosed, Timeout
    <3> QED BY <3>1, BothAtWorkAfterFinish
  <2>5. ASSUME NEW p \in Port, Receive(p)
        PROVE  BothAtWork'
    <3>1. (\E m : Say(p, m)) \/ Finish(p, "complete")
      BY <2>5 DEF Receive, Answer
    <3>2. CASE \E m : Say(p, m)
      <4>1. radio' = radio /\ pc' = [pc EXCEPT ![p] = "sending"]
        BY <3>2 DEF Say
      <4>2. \A q \in Port : pc'[q] = "sending" \/ pc'[q] = pc[q]
        BY <4>1 DEF TypeOK
      <4> QED BY <4>1, <4>2 DEF BothAtWork
    <3> QED BY <3>1, <3>2, BothAtWorkAfterFinish
  <2>6. ASSUME NEW l \in Link, NEW how \in {"closed", "silent"}, Break(l, how)
        PROVE  BothAtWork'
    <3>1. pc' = pc /\ \A k \in Link : radio'[k] = "up" => radio[k] = "up"
      BY <2>6 DEF Break, TypeOK
    <3> QED BY <3>1, PeerFacts DEF BothAtWork
  <2>7. CASE UNCHANGED vars
    BY <2>7 DEF vars, session, BothAtWork
  <2> QED BY <2>1, <2>2, <2>3, <2>4, <2>5, <2>6, <2>7 DEF Next, Drop, GoSilent
<1> QED BY <1>1, <1>2, TypeCorrect, PTL DEF Spec, TypeInv

(* A live link has both its ends at work; they never both wait and never    *)
(* both speak.                                                              *)
THEOREM OneSpeakerAlways == Spec => []OneSpeaker
<1>1. TypeOK /\ OneToken /\ BothAtWork => OneSpeaker
  <2> SUFFICES ASSUME TypeOK, OneToken, BothAtWork, NEW l \in Link, radio[l] = "up"
               PROVE  /\ \A p \in Ends(l) : pc[p] # "idle"
                      /\ Speakers(l) + InFlight(l) = 1
    BY DEF OneSpeaker
  <2>0. \A p \in Ends(l) : pc[p] # "idle"
    BY EndsArePorts DEF Ends, Side, BothAtWork
  <2> SUFFICES Speakers(l) + InFlight(l) = 1
    BY <2>0
  <2>1. PICK a \in Port, b \in Port :
          a = <<l, "initiator">> /\ b = <<l, "responder">> /\ a # b /\ b = Peer(a) /\ LinkOf(a) = l
    BY EndsArePorts
  <2>2. Ends(l) = {a, b}
    BY <2>1 DEF Ends, Side
  <2>3. Token(a) + Token(b) = 1
    BY <2>0, <2>1, <2>2 DEF OneToken
  <2>4. Len(inbox[a]) \in Nat /\ Len(inbox[b]) \in Nat
    BY DEF TypeOK
  <2>5. InFlight(l) = Len(inbox[a]) + Len(inbox[b])
    BY <2>1 DEF InFlight
  <2>6. CASE pc[a] = "sending"
    <3>0. Token(a) = Len(inbox[a]) + 1 /\ Token(b) >= Len(inbox[b])
      BY <2>4, <2>6 DEF Token
    <3>1. Len(inbox[a]) = 0 /\ Len(inbox[b]) = 0 /\ Token(b) = 0
      BY <2>3, <2>4, <3>0, TokenType
    <3>4. pc[b] # "sending"
      BY <2>4, <3>1 DEF Token
    <3>2. {p \in Ends(l) : pc[p] = "sending"} = {a}
      BY <2>2, <2>6, <3>4
    <3>3. Speakers(l) = 1
      BY <3>2, FS_Singleton DEF Speakers
    <3> QED BY <2>5, <3>1, <3>3
  <2>7. CASE pc[b] = "sending"
    <3>0. Token(b) = Len(inbox[b]) + 1 /\ Token(a) >= Len(inbox[a])
      BY <2>4, <2>7 DEF Token
    <3>1. Len(inbox[a]) = 0 /\ Len(inbox[b]) = 0 /\ Token(a) = 0
      BY <2>3, <2>4, <3>0, TokenType
    <3>4. pc[a] # "sending"
      BY <2>4, <3>1 DEF Token
    <3>2. {p \in Ends(l) : pc[p] = "sending"} = {b}
      BY <2>2, <2>7, <3>4
    <3>3. Speakers(l) = 1
      BY <3>2, FS_Singleton DEF Speakers
    <3> QED BY <2>5, <3>1, <3>3
  <2>8. CASE pc[a] # "sending" /\ pc[b] # "sending"
    <3>1. Len(inbox[a]) + Len(inbox[b]) = 1
      BY <2>3, <2>4, <2>8 DEF Token
    <3>2. {p \in Ends(l) : pc[p] = "sending"} = {}
      BY <2>2, <2>8
    <3>3. Speakers(l) = 0
      BY <3>2, FS_EmptySet DEF Speakers
    <3>4. InFlight(l) = 1
      BY <2>5, <3>1
    <3> QED BY <3>3, <3>4
  <2> QED BY <2>6, <2>7, <2>8
<1> QED BY <1>1, TypeCorrect, OneTurn, LiveLinksAreWorked, PTL DEF TypeInv

(* As long as a session runs on a link whose radio is there, one of its two *)
(* ends has a step to take that waits for no timer.                         *)
THEOREM NobodyIsEverStranded == Spec => []NobodyIsStranded
<1>1. TypeOK /\ OneToken /\ BothAtWork => NobodyIsStranded
  <2> SUFFICES ASSUME TypeOK, OneToken, BothAtWork, NEW l \in Link, radio[l] # "silent",
                      NEW p \in Ends(l), pc[p] # "idle"
               PROVE  \E q \in Ends(l) : CanMove(q)
    BY DEF NobodyIsStranded
  <2>1. /\ p \in Port /\ Peer(p) \in Port
        /\ LinkOf(p) = l /\ LinkOf(Peer(p)) = l
        /\ Peer(p) \in Ends(l)
    BY DEF Ends, Port, Side, Peer, LinkOf
  <2>2. pc[p] \in {"receiving", "sending"}
    BY <2>1 DEF TypeOK
  <2>3. CASE radio[l] = "closed"
    BY <2>1, <2>2, <2>3 DEF CanMove
  <2>4. CASE radio[l] = "up"
    <3>1. pc[Peer(p)] # "idle" /\ pc[Peer(p)] \in {"receiving", "sending"}
      BY <2>1, <2>4 DEF BothAtWork, TypeOK
    <3>2. Token(p) + Token(Peer(p)) = 1
      BY <2>1, <2>4, <3>1 DEF OneToken
    <3>3. \A q \in {p, Peer(p)} : Token(q) \in Nat /\ inbox[q] \in Seq(Message)
      BY <2>1, TokenType DEF TypeOK
    <3>4. PICK q \in {p, Peer(p)} : Token(q) = 1
      BY <3>2, <3>3
    <3>5. pc[q] = "sending" \/ Len(inbox[q]) = 1
      BY <3>4 DEF Token
    <3>6. pc[q] = "sending" \/ inbox[q] # <<>>
      BY <3>5
    <3> QED BY <2>1, <2>2, <3>1, <3>6 DEF CanMove
  <2> QED BY <2>1, <2>3, <2>4, PeerFacts DEF TypeOK
<1> QED BY <1>1, TypeCorrect, OneTurn, LiveLinksAreWorked, PTL DEF TypeInv

----------------------------------------------------------------------------
(* What is left of a session.                                               *)

(* A port whose session runs has steps left; one that is idle has none.     *)
LEMMA LeftType ==
  /\ TypeInv => \A p \in Port : /\ Left(p) \in 0 .. 2 * MaxRounds + 1
                                /\ pc[p] # "idle" => Left(p) >= 2
  /\ TypeInv' => \A p \in Port : Left(p)' \in 0 .. 2 * MaxRounds + 1
<1>1. ASSUME TypeInv, NEW p \in Port
      PROVE  /\ Left(p) \in 0 .. 2 * MaxRounds + 1
             /\ pc[p] # "idle" => Left(p) >= 2
  <2>1. /\ pc[p] \in {"idle", "receiving", "sending"}
        /\ rounds[p] \in Nat /\ MaxRounds \in Nat
        /\ rounds[p] <= MaxRounds
        /\ pc[p] # "idle" => rounds[p] < MaxRounds
    BY <1>1, MeshAssumption DEF TypeInv, TypeOK, RoundsToSpeak
  <2> QED BY <2>1 DEF Left
<1>2. ASSUME TypeInv', NEW p \in Port
      PROVE  Left(p)' \in 0 .. 2 * MaxRounds + 1
  <2>1. /\ pc'[p] \in {"idle", "receiving", "sending"}
        /\ rounds'[p] \in Nat /\ MaxRounds \in Nat
        /\ rounds'[p] <= MaxRounds
    BY <1>2, MeshAssumption DEF TypeInv, TypeOK
  <2> QED BY <2>1 DEF Left
<1> QED BY <1>1, <1>2

(* Ending a session leaves nothing of it.                                   *)
LEMMA FinishSpends ==
  ASSUME TypeInv, NEW p \in Port, NEW how, Finish(p, how), pc[p] # "idle"
  PROVE  Left(p)' < Left(p)
<1>1. pc'[p] = "idle"
  BY DEF Finish, TypeInv, TypeOK
<1> QED BY <1>1, LeftType DEF Left

(* A message read or sent, a session ended: each costs its port a step.     *)
LEMMA DriverSpends ==
  ASSUME TypeInv, NEW p \in Port, Driver(p) \/ SendStalled(p) \/ SendFails(p) \/ RefuseFrame(p)
  PROVE  /\ Left(p)' < Left(p)
         /\ \A q \in Port \ {p} : pc'[q] = pc[q] /\ rounds'[q] = rounds[q]
<1>0. /\ TypeOK
      /\ pc[p] # "idle" => rounds[p] \in Nat /\ MaxRounds \in Nat /\ rounds[p] < MaxRounds
  BY MeshAssumption DEF TypeInv, TypeOK, RoundsToSpeak
<1>1. ASSUME NEW how, Finish(p, how), pc[p] # "idle", UNCHANGED rounds
      PROVE  /\ Left(p)' < Left(p)
             /\ \A q \in Port \ {p} : pc'[q] = pc[q] /\ rounds'[q] = rounds[q]
  BY <1>0, <1>1, FinishSpends DEF Finish, TypeOK
<1>2. CASE SendClosed(p) \/ SendStalled(p) \/ SendFails(p) \/ RefuseFrame(p) \/ ReceiveClosed(p) \/ Timeout(p)
  BY <1>1, <1>2 DEF SendClosed, SendStalled, SendFails, RefuseFrame, ReceiveClosed, Timeout
<1>3. CASE Send(p)
  <2>1. pc[p] = "sending" /\ rounds' = [rounds EXCEPT ![p] = @ + 1]
    BY <1>3 DEF Send
  <2>2. /\ rounds'[p] = rounds[p] + 1
        /\ \A q \in Port \ {p} : rounds'[q] = rounds[q]
    BY <1>0, <2>1 DEF TypeOK
  <2>3. CASE RoundsLeft(p)
    <3>1. pc'[p] = "receiving" /\ \A q \in Port \ {p} : pc'[q] = pc[q]
      BY <1>0, <1>3, <2>3 DEF Send, TypeOK
    <3> QED BY <1>0, <2>1, <2>2, <3>1 DEF Left
  <2>4. CASE ~RoundsLeft(p)
    <3>1. Finish(p, "round-limit")
      BY <1>3, <2>4 DEF Send
    <3>2. \A q \in Port \ {p} : pc'[q] = pc[q]
      BY <1>0, <3>1, FinishType DEF Ending
    <3> QED BY <2>1, <2>2, <3>1, <3>2, FinishSpends
  <2> QED BY <2>3, <2>4
<1>4. CASE Receive(p)
  <2>1. pc[p] = "receiving" /\ UNCHANGED rounds /\ ((\E m : Say(p, m)) \/ Finish(p, "complete"))
    BY <1>4 DEF Receive, Answer
  <2>2. CASE \E m : Say(p, m)
    <3>1. pc'[p] = "sending" /\ \A q \in Port \ {p} : pc'[q] = pc[q]
      BY <1>0, <2>2 DEF Say, TypeOK
    <3> QED BY <1>0, <2>1, <3>1 DEF Left
  <2> QED BY <1>1, <2>1, <2>2
<1> QED BY <1>2, <1>3, <1>4 DEF Driver

(* Every session runs down: a driver's step spends one of at most           *)
(* 2 * MaxRounds + 1, and no step of anyone gives any back while it runs.   *)
THEOREM SessionsAlwaysRunDown == Spec => SessionsRunDown
<1>1. TypeInv /\ TypeInv' /\ [Next]_vars =>
        [\A p \in Port : pc[p] # "idle" =>
           /\ Left(p)' <= Left(p)
           /\ (Driver(p) \/ SendStalled(p) \/ SendFails(p) \/ RefuseFrame(p)) => Left(p)' < Left(p)]_vars
  <2> SUFFICES ASSUME TypeInv, TypeInv', Next, NEW p \in Port, pc[p] # "idle"
               PROVE  /\ Left(p)' <= Left(p)
                      /\ (Driver(p) \/ SendStalled(p) \/ SendFails(p) \/ RefuseFrame(p)) => Left(p)' < Left(p)
    BY Zenon
  <2>1. (Driver(p) \/ SendStalled(p) \/ SendFails(p) \/ RefuseFrame(p)) => Left(p)' < Left(p)
    BY DriverSpends
  <2>2. Left(p) \in Int /\ Left(p)' \in Int
    BY LeftType, MeshAssumption
  <2>3. ASSUME pc'[p] = pc[p], rounds'[p] = rounds[p]
        PROVE  Left(p)' <= Left(p)
    <3>1. Left(p)' = Left(p)
      BY <2>3 DEF Left
    <3> QED BY <2>2, <3>1
  <2>4. ASSUME NEW q \in Port, Driver(q) \/ SendStalled(q) \/ SendFails(q) \/ RefuseFrame(q)
        PROVE  Left(p)' <= Left(p)
    <3>1. CASE q = p
      <4>1. Left(p)' < Left(p)
        BY <2>1, <2>4, <3>1
      <4> QED BY <2>2, <4>1
    <3>2. CASE q # p
      BY <2>3, <2>4, <3>2, DriverSpends
    <3> QED BY <3>1, <3>2
  <2>5. ASSUME NEW l \in Link, StartSession(l)
        PROVE  Left(p)' <= Left(p)
    <3>1. PICK a \in Port, b \in Port : Started(l, a, b)
      BY <2>5, StartSessionPortByPort DEF TypeInv
    <3>2. p # a /\ p # b
      BY <3>1 DEF Started
    <3>3. pc'[p] = pc[p] /\ rounds'[p] = rounds[p]
      BY <3>1, <3>2 DEF Started
    <3> QED BY <2>3, <3>3
  <2>6. ASSUME NEW d \in Device, NEW e \in Envelope, Seal(d, e)
        PROVE  Left(p)' <= Left(p)
    BY <2>3, <2>6 DEF Seal, session
  <2>7. ASSUME NEW l \in Link, NEW how, Break(l, how)
        PROVE  Left(p)' <= Left(p)
    BY <2>3, <2>7 DEF Break
  <2>8. Left(p)' <= Left(p)
    BY <2>4, <2>5, <2>6, <2>7 DEF Next, Driver, Drop, GoSilent
  <2> QED BY <2>1, <2>8
<1> QED BY <1>1, TypeCorrect, PTL DEF Spec, SessionsRunDown

----------------------------------------------------------------------------
(* What "more" and "complete" promise.                                      *)

(* Where a link has no turn, neither end is about to speak and nothing is   *)
(* on its way.                                                              *)
LEMMA NoTokenNoTurn ==
  ASSUME TypeOK, NEW p \in Port, Token(p) + Token(Peer(p)) = 0
  PROVE  /\ pc[p] # "sending" /\ inbox[p] = <<>>
         /\ pc[Peer(p)] # "sending" /\ inbox[Peer(p)] = <<>>
<1>1. Peer(p) \in Port
  BY PeerFacts
<1>2. Token(p) = 0 /\ Token(Peer(p)) = 0
  BY <1>1, TokenType
<1>3. \A q \in Port : Len(inbox[q]) \in Nat /\ (Len(inbox[q]) = 0 => inbox[q] = <<>>)
  BY DEF TypeOK
<1> QED BY <1>1, <1>2, <1>3 DEF Token

(* Frames are read one at a time, so the one read is the only one about.    *)
LEMMA OneTokenIsTheFrame ==
  ASSUME TypeOK, OneToken, NEW p \in Port, inbox[p] # <<>>
  PROVE  /\ inbox[Peer(p)] = <<>> /\ pc[p] # "sending" /\ pc[Peer(p)] # "sending"
         /\ Len(inbox[p]) = 1
<1>1. Peer(p) \in Port /\ Token(p) + Token(Peer(p)) <= 1
  BY PeerFacts DEF OneToken
<1>2. \A q \in Port : Len(inbox[q]) \in Nat /\ (inbox[q] # <<>> <=> Len(inbox[q]) >= 1)
  BY DEF TypeOK
<1>3. Token(p) \in Nat /\ Token(Peer(p)) \in Nat
  BY <1>1, TokenType
<1>4. Token(p) >= 1
  BY <1>2 DEF Token
<1>5. Token(p) = 1 /\ Token(Peer(p)) = 0
  BY <1>1, <1>3, <1>4
<1> QED BY <1>1, <1>2, <1>5 DEF Token

(* Reading the only frame of an inbox leaves it empty.                      *)
LEMMA LastFrameRead ==
  ASSUME NEW S, NEW s \in Seq(S), Len(s) = 1
  PROVE  Tail(s) = <<>>
<1>1. \A t \in Seq(S) : Len(t) = 0 => t = <<>>
  OBVIOUS
<1>2. Tail(s) \in Seq(S) /\ Len(Tail(s)) = 0
  <2>1. s # <<>>
    OBVIOUS
  <2> QED BY <2>1
<1> QED BY <1>1, <1>2

(* A port says nothing new, queues nothing and loses at most frames: the    *)
(* promise stands.                                                          *)
LEMMA HonestKept ==
  ASSUME NEW p \in Port, HonestAt(p),
         pending'[p] = pending[p], pending'[Peer(p)] = pending[Peer(p)],
         pc'[p] = "sending" => pc[p] = "sending" /\ out'[p] = out[p],
         inbox'[Peer(p)] = inbox[Peer(p)] \/ inbox'[Peer(p)] = <<>>,
         ending'[p] = "complete" => ending[p] = "complete" /\ Token(p)' + Token(Peer(p))' = 0
  PROVE  HonestAt(p)'
  BY DEF HonestAt

(* One end stops short of "complete", perhaps dropping the frame it read.   *)
LEMMA HonestAfterStop ==
  ASSUME TypeOK, OneToken, MoreIsHonest, NEW p \in Port, NEW how \in Ending \ {"complete"},
         Finish(p, how), pc[p] # "idle", UNCHANGED <<pending, out>>,
         inbox' = inbox \/ (inbox[p] # <<>> /\ inbox' = [inbox EXCEPT ![p] = Tail(@)])
  PROVE  MoreIsHonest'
<1> SUFFICES ASSUME NEW q \in Port PROVE HonestAt(q)'
  BY DEF MoreIsHonest
<1>0. /\ HonestAt(q) /\ Peer(q) \in Port /\ Peer(Peer(q)) = q /\ Peer(p) \in Port
  BY PeerFacts DEF MoreIsHonest
<1>1. /\ \A r \in Port : pc'[r] = IF r = p THEN "idle" ELSE pc[r]
      /\ \A r \in Port : ending'[r] = IF r = p THEN how ELSE ending[r]
  BY DEF Finish, TypeOK
<1>2. /\ \A r \in Port : inbox'[r] = inbox[r] \/ (r = p /\ inbox'[r] = <<>>)
      /\ inbox[p] = <<>> => inbox' = inbox
  <2>1. CASE inbox' = inbox
    BY <2>1
  <2>2. CASE inbox[p] # <<>> /\ inbox' = [inbox EXCEPT ![p] = Tail(@)]
    <3>1. Len(inbox[p]) = 1 /\ inbox[p] \in Seq(Message)
      BY <2>2, OneTokenIsTheFrame DEF TypeOK
    <3>2. Tail(inbox[p]) = <<>>
      BY <3>1, LastFrameRead
    <3> QED BY <2>2, <3>2 DEF TypeOK
  <2> QED BY <2>1, <2>2
<1>3. ASSUME ending'[q] = "complete"
      PROVE  ending[q] = "complete" /\ Token(q)' + Token(Peer(q))' = 0
  <2>1. ending[q] = "complete" /\ q # p
    BY <1>1, <1>3
  <2>2. Token(q) + Token(Peer(q)) = 0
    BY <1>0, <2>1 DEF HonestAt
  <2>3. /\ pc[q] # "sending" /\ inbox[q] = <<>>
        /\ pc[Peer(q)] # "sending" /\ inbox[Peer(q)] = <<>>
    BY <2>2, NoTokenNoTurn
  <2>4. /\ pc'[q] # "sending" /\ inbox'[q] = <<>>
        /\ pc'[Peer(q)] # "sending" /\ inbox'[Peer(q)] = <<>>
    BY <1>0, <1>1, <1>2, <2>3
  <2> QED BY <2>1, <2>4 DEF Token
<1> QED BY <1>0, <1>1, <1>2, <1>3, HonestKept

(* What the receiving port says, and what it still owes.                    *)
LEMMA ReceiveSays ==
  ASSUME TypeOK, NEW p \in Port, Receive(p)
  PROVE  \/ /\ pc'[p] = "sending" /\ UNCHANGED ending
            /\ out'[p].more # "true" => pending'[p] = {}
         \/ /\ Finish(p, "complete") /\ Head(inbox[p]).more # "true"
            /\ pending'[p] = {}
<1> DEFINE d    == Holder(p)
           msg  == Head(inbox[p])
           held == Admit(store[d], msg.records, Trusted[d])
           owed == pending[p] \cup EnvelopesFor(held, OutIds(IdsOf(held), msg))
<1>1. PICK chunk \in Chunks(owed) :
        /\ pending' = [pending EXCEPT ![p] = owed \ chunk]
        /\ Answer(p, msg, Reply(IdsOf(held), msg, chunk, owed \ chunk))
  BY DEF Receive
<1> DEFINE reply == Reply(IdsOf(held), msg, chunk, owed \ chunk)
<1>2. pending'[p] = owed \ chunk
  BY <1>1 DEF TypeOK
<1>3. reply.more # "true" => owed \ chunk = {}
  BY DEF Reply
<1>4. ~HasContent(reply) => owed = {}
  <2>1. reply.records = chunk
    BY DEF Reply
  <2> QED BY <1>1, <2>1, ChunkTakesSomething DEF HasContent
<1>5. \A m : Say(p, m) => out'[p] = m /\ pc'[p] = "sending" /\ UNCHANGED ending
  BY DEF Say, TypeOK
<1>6. Answer(p, msg, reply)
  BY <1>1
<1> HIDE DEF reply, msg, owed
<1>7. CASE HasContent(reply) /\ Say(p, reply)
  BY <1>2, <1>3, <1>5, <1>7
<1>8. CASE ~HasContent(reply) /\ Say(p, [EmptyMessage EXCEPT !.more = "false"])
  BY <1>2, <1>4, <1>5, <1>8
<1>9. CASE ~HasContent(reply) /\ msg.more # "true" /\ Finish(p, "complete")
  BY <1>2, <1>4, <1>9 DEF msg
<1> QED BY <1>6, <1>7, <1>8, <1>9 DEF Answer

(* A message that does not ask for another turn leaves nothing queued, and  *)
(* a complete session has nothing queued at either end.                     *)
THEOREM MoreAlwaysHonest == Spec => []MoreIsHonest
<1>1. Init => MoreIsHonest
  BY PeerFacts DEF Init, MoreIsHonest, HonestAt
<1>2. TypeOK /\ TypeOK' /\ OneToken /\ MoreIsHonest /\ [Next]_vars => MoreIsHonest'
  <2> SUFFICES ASSUME TypeOK, TypeOK', OneToken, MoreIsHonest, [Next]_vars
               PROVE  MoreIsHonest'
    OBVIOUS
  <2>1. ASSUME NEW d \in Device, NEW e \in Envelope, Seal(d, e)
        PROVE  MoreIsHonest'
    BY <2>1 DEF Seal, session, MoreIsHonest, HonestAt, Token
  <2>2. ASSUME NEW l \in Link, StartSession(l)
        PROVE  MoreIsHonest'
    <3> SUFFICES ASSUME NEW q \in Port PROVE HonestAt(q)'
      BY DEF MoreIsHonest
    <3>1. PICK a \in Port, b \in Port : Started(l, a, b)
      BY <2>2, StartSessionPortByPort
    <3>2. /\ HonestAt(q) /\ Peer(q) \in Port /\ Peer(Peer(q)) = q
      BY PeerFacts DEF MoreIsHonest
    <3>3. CASE q \in {a, b}
      BY <3>1, <3>2, <3>3 DEF Started, HonestAt
    <3>4. CASE q \notin {a, b}
      <4>1. Peer(q) \notin {a, b}
        BY <3>1, <3>2, <3>4 DEF Started
      <4>2. out'[q] = out[q]
        BY <3>1, <3>4 DEF Started, TypeOK
      <4>3. Token(q)' = Token(q) /\ Token(Peer(q))' = Token(Peer(q))
        BY <3>1, <3>2, <3>4, <4>1 DEF Started, Token
      <4> QED BY <3>1, <3>2, <3>4, <4>1, <4>2, <4>3 DEF Started, HonestAt
    <3> QED BY <3>3, <3>4
  <2>3. ASSUME NEW p \in Port, Send(p)
        PROVE  MoreIsHonest'
    <3> SUFFICES ASSUME NEW q \in Port PROVE HonestAt(q)'
      BY DEF MoreIsHonest
    <3>0. /\ HonestAt(q) /\ Peer(q) \in Port /\ Peer(Peer(q)) = q
          /\ HonestAt(p) /\ Peer(p) \in Port /\ Peer(Peer(p)) = p
      BY PeerFacts DEF MoreIsHonest
    <3>1. /\ pc[p] = "sending" /\ UNCHANGED pending
          /\ pc'[p] # "sending"
          /\ \A r \in Port \ {p} : pc'[r] = pc[r] /\ ending'[r] = ending[r] /\ out'[r] = out[r]
          /\ ending'[p] = ending[p] \/ ending'[p] = "round-limit"
          /\ \A r \in Port : inbox'[r] = inbox[r] \/ (r = Peer(p) /\ inbox'[r] = Append(inbox[r], out[p]))
      BY <2>3 DEF Send, Finish, TypeOK
    <3>2. CASE q = p
      <4>1. ending[p] # "complete"
        BY <3>0, <3>1, NoTokenNoTurn DEF HonestAt
      <4>2. inbox[Peer(p)] \in Seq(Message)
        BY <3>0 DEF TypeOK
      <4>3. ASSUME NEW i \in DOMAIN inbox'[Peer(p)], inbox'[Peer(p)][i].more # "true"
            PROVE  pending[p] = {}
        <5>1. CASE inbox'[Peer(p)] = inbox[Peer(p)]
          BY <3>0, <4>3, <5>1 DEF HonestAt
        <5>2. CASE inbox'[Peer(p)] = Append(inbox[Peer(p)], out[p])
          <6>1. \/ i \in DOMAIN inbox[Peer(p)] /\ inbox'[Peer(p)][i] = inbox[Peer(p)][i]
                \/ inbox'[Peer(p)][i] = out[p]
            BY <4>2, <4>3, <5>2
          <6> QED BY <3>0, <3>1, <4>3, <6>1 DEF HonestAt
        <5> QED BY <3>0, <3>1, <5>1, <5>2
      <4> QED BY <3>1, <3>2, <4>1, <4>3 DEF HonestAt
    <3>3. CASE q # p
      <4>1. Peer(q) # Peer(p)
        BY <3>0, <3>3
      <4>2. inbox'[Peer(q)] = inbox[Peer(q)]
        BY <3>0, <3>1, <4>1
      <4>3. ending'[q] = "complete" => ending[q] = "complete" /\ Token(q)' + Token(Peer(q))' = 0
        <5> SUFFICES ASSUME ending[q] = "complete"
                     PROVE  Token(q)' + Token(Peer(q))' = 0
          BY <3>1, <3>3
        <5>1. Token(q) + Token(Peer(q)) = 0
          BY <3>0 DEF HonestAt
        <5>2. /\ pc[q] # "sending" /\ inbox[q] = <<>>
              /\ pc[Peer(q)] # "sending" /\ inbox[Peer(q)] = <<>>
          BY <5>1, NoTokenNoTurn
        <5>3. Peer(q) # p /\ q # Peer(p)
          BY <3>0, <3>1, <5>2
        <5>4. /\ pc'[q] # "sending" /\ inbox'[q] = <<>>
              /\ pc'[Peer(q)] # "sending" /\ inbox'[Peer(q)] = <<>>
          BY <3>0, <3>1, <3>3, <5>2, <5>3, <4>2
        <5> QED BY <5>4 DEF Token
      <4> QED BY <3>0, <3>1, <3>3, <4>2, <4>3, HonestKept
    <3> QED BY <3>2, <3>3
  <2>4. ASSUME NEW p \in Port,
               SendClosed(p) \/ SendStalled(p) \/ SendFails(p) \/ RefuseFrame(p) \/ ReceiveClosed(p) \/ Timeout(p)
        PROVE  MoreIsHonest'
    <3>1. /\ \E how \in Ending \ {"complete"} : Finish(p, how)
          /\ pc[p] # "idle"
          /\ UNCHANGED <<pending, out>>
          /\ inbox' = inbox \/ (inbox[p] # <<>> /\ inbox' = [inbox EXCEPT ![p] = Tail(@)])
      BY <2>4 DEF SendClosed, SendStalled, SendFails, RefuseFrame, ReceiveClosed, Timeout, Ending
    <3> QED BY <3>1, HonestAfterStop
  <2>5. ASSUME NEW p \in Port, Receive(p)
        PROVE  MoreIsHonest'
    <3> SUFFICES ASSUME NEW q \in Port PROVE HonestAt(q)'
      BY DEF MoreIsHonest
    <3>0. /\ HonestAt(q) /\ Peer(q) \in Port /\ Peer(Peer(q)) = q
          /\ HonestAt(p) /\ Peer(p) \in Port /\ Peer(Peer(p)) = p /\ Peer(p) # p
          /\ HonestAt(Peer(p))
      BY PeerFacts DEF MoreIsHonest
    <3>1. /\ inbox[p] # <<>> /\ inbox' = [inbox EXCEPT ![p] = Tail(@)]
          /\ inbox[p] \in Seq(Message)
      BY <2>5 DEF Receive, TypeOK
    <3>2. /\ inbox[Peer(p)] = <<>> /\ pc[Peer(p)] # "sending" /\ Len(inbox[p]) = 1
      BY <3>1, OneTokenIsTheFrame
    <3>3. /\ inbox'[p] = <<>> /\ inbox'[Peer(p)] = <<>>
          /\ \A r \in Port \ {p} : inbox'[r] = inbox[r]
      BY <3>0, <3>1, <3>2, LastFrameRead DEF TypeOK
    <3>4. \A r \in Port \ {p} : /\ pending'[r] = pending[r] /\ out'[r] = out[r]
                                 /\ pc'[r] = pc[r] /\ ending'[r] = ending[r]
      BY <2>5 DEF Receive, Answer, Say, Finish, TypeOK
    <3>5. CASE q = p
      <4>1. ending[p] # "complete"
        BY <3>0, <3>1, NoTokenNoTurn DEF HonestAt
      <4>2. CASE /\ pc'[p] = "sending" /\ UNCHANGED ending
                 /\ out'[p].more # "true" => pending'[p] = {}
        BY <3>3, <3>5, <4>1, <4>2 DEF HonestAt
      <4>3. CASE /\ Finish(p, "complete") /\ Head(inbox[p]).more # "true"
                 /\ pending'[p] = {}
        <5>1. pc'[p] = "idle" /\ pc'[Peer(p)] # "sending"
          BY <3>0, <3>2, <3>4, <4>3 DEF Finish, TypeOK
        <5>2. Token(p)' + Token(Peer(p))' = 0
          BY <3>3, <5>1 DEF Token
        <5>3. pending'[Peer(p)] = {}
          <6>1. Head(inbox[p]) = inbox[p][1] /\ 1 \in DOMAIN inbox[p]
            BY <3>1, <3>2
          <6> QED BY <3>0, <3>4, <4>3, <6>1 DEF HonestAt
        <5> QED BY <3>3, <3>5, <4>3, <5>1, <5>2, <5>3 DEF HonestAt
      <4> QED BY <2>5, <4>2, <4>3, ReceiveSays
    <3>6. CASE q = Peer(p)
      <4>1. ending[q] # "complete"
        BY <3>0, <3>1, <3>6, NoTokenNoTurn DEF HonestAt
      <4> QED BY <3>0, <3>2, <3>3, <3>4, <3>6, <4>1 DEF HonestAt
    <3>7. CASE q # p /\ q # Peer(p)
      <4>1. Peer(q) # p
        BY <3>0, <3>7
      <4>2. Token(q)' = Token(q) /\ Token(Peer(q))' = Token(Peer(q))
        BY <3>0, <3>3, <3>4, <3>7, <4>1 DEF Token
      <4> QED BY <3>0, <3>3, <3>4, <3>7, <4>1, <4>2 DEF HonestAt
    <3> QED BY <3>5, <3>6, <3>7
  <2>6. ASSUME NEW l \in Link, NEW how \in {"closed", "silent"}, Break(l, how)
        PROVE  MoreIsHonest'
    <3> SUFFICES ASSUME NEW q \in Port PROVE HonestAt(q)'
      BY DEF MoreIsHonest
    <3>0. HonestAt(q) /\ Peer(q) \in Port
      BY PeerFacts DEF MoreIsHonest
    <3>1. /\ UNCHANGED <<pc, out, pending, ending>>
          /\ \A r \in Port : inbox'[r] = inbox[r] \/ inbox'[r] = <<>>
      BY <2>6 DEF Break
    <3>2. ASSUME ending[q] = "complete"
          PROVE  Token(q)' + Token(Peer(q))' = 0
      <4>1. /\ pc[q] # "sending" /\ inbox[q] = <<>>
            /\ pc[Peer(q)] # "sending" /\ inbox[Peer(q)] = <<>>
        BY <3>0, <3>2, NoTokenNoTurn DEF HonestAt
      <4>2. inbox'[q] = <<>> /\ inbox'[Peer(q)] = <<>>
        BY <3>0, <3>1, <4>1
      <4> QED BY <3>1, <4>1, <4>2 DEF Token
    <3> QED BY <3>0, <3>1, <3>2, HonestKept
  <2>7. CASE UNCHANGED vars
    BY <2>7 DEF vars, session, MoreIsHonest, HonestAt, Token
  <2> QED BY <2>1, <2>2, <2>3, <2>4, <2>5, <2>6, <2>7 DEF Next, Drop, GoSilent
<1> QED BY <1>1, <1>2, TypeCorrect, OneTurn, PTL DEF Spec, TypeInv

(* No chunk is left behind in #pending by a session reported complete.      *)
THEOREM NothingOwed == Spec => []NothingOwedAtComplete
<1>1. MoreIsHonest => NothingOwedAtComplete
  BY DEF MoreIsHonest, HonestAt, NothingOwedAtComplete
<1> QED BY <1>1, MoreAlwaysHonest, PTL

----------------------------------------------------------------------------
(* Catching up.  While the turn is with a port, every envelope due is held  *)
(* by both ends, queued at one, or pursued by what the port says; so when   *)
(* there is nothing left to say and nothing queued, both ends hold all.     *)

Due(p) ==
  {e \in began[LinkOf(p)] : /\ Alone(e.recordId)
                            /\ e \in Accepts[Holder(p)] \cap Accepts[Holder(Peer(p))]}

Settled(p, e) == e.recordId \in Ids(Holder(p)) \cap Ids(Holder(Peer(p)))

(* The message in the hand of a port, and those of it on the wire.          *)
Said(p) ==
  {m \in {out[p]} : pc[p] = "sending"}
    \cup {inbox[Peer(p)][i] : i \in DOMAIN inbox[Peer(p)]}

Pursued(p) ==
  \A m \in Said(p) : \A e \in Due(p) :
     \/ Settled(p, e)
     \/ e \in pending[p] \cup pending[Peer(p)]
     \/ Pursues(m, e, e.recordId \in Ids(Holder(p)))

(* What either end held at the start, one of them holds still.              *)
Kept(p) == began[LinkOf(p)] \subseteq store[Holder(p)] \cup store[Holder(Peer(p))]

CaughtUp(p) == ending[p] = "complete" => \A e \in Due(p) : Settled(p, e)

CatchingUp == \A p \in Port : Pursued(p) /\ Kept(p) /\ CaughtUp(p)

(* Stores grow, and a port says nothing new and takes nothing off a queue:  *)
(* the pursuit goes on.                                                     *)
LEMMA PursuitGoesOn ==
  ASSUME NEW p \in Port, Pursued(p), Kept(p), CaughtUp(p),
         \A d \in Device : store[d] \subseteq store'[d],
         Said(p)' \subseteq Said(p),
         pending'[p] = pending[p], pending'[Peer(p)] = pending[Peer(p)],
         began'[LinkOf(p)] = began[LinkOf(p)],
         ending'[p] = "complete" => ending[p] = "complete"
  PROVE  Pursued(p)' /\ Kept(p)' /\ CaughtUp(p)'
<1>0. Holder(p) \in Device /\ Holder(Peer(p)) \in Device
  BY PeerFacts
<1>1. Kept(p)'
  BY <1>0 DEF Kept
<1>2. Due(p)' = Due(p)
  BY DEF Due, Accepts
<1>3. \A e : Settled(p, e) => Settled(p, e)'
  BY <1>0 DEF Settled, Ids, IdsOf
<1>4. CaughtUp(p)'
  BY <1>2, <1>3 DEF CaughtUp
<1>5. ASSUME NEW m \in Said(p)', NEW e \in Due(p), ~Settled(p, e)'
      PROVE  \/ e \in pending'[p] \cup pending'[Peer(p)]
             \/ Pursues(m, e, e.recordId \in Ids(Holder(p))')
  <2>1. ~Settled(p, e)
    BY <1>3, <1>5
  <2>2. e.recordId \in Ids(Holder(p))' <=> e.recordId \in Ids(Holder(p))
    <3>1. e \in store[Holder(p)] \/ e \in store[Holder(Peer(p))]
      BY DEF Kept, Due
    <3>2. \A d \in Device : e.recordId \in Ids(d) => e.recordId \in Ids(d)'
      BY DEF Ids, IdsOf
    <3>3. \A d : e \in store[d] => e.recordId \in Ids(d)
      BY DEF Ids, IdsOf
    <3> QED BY <1>0, <1>5, <3>1, <3>2, <3>3 DEF Settled
  <2> QED BY <1>5, <2>1, <2>2 DEF Pursued
<1> QED BY <1>1, <1>2, <1>4, <1>5 DEF Pursued

(* The message read has pursued what is not settled; what the port answers  *)
(* pursues it, or it is queued.  A port that ends instead would leave       *)
(* something unsettled, and does not.                                       *)
LEMMA ReceivePursues ==
  ASSUME TypeOK, SendsOnlyWhatItHolds, OneToken, MoreIsHonest,
         NEW p \in Port, Receive(p), Pursued(Peer(p)), Kept(p),
         NEW e \in Due(p), ~Settled(p, e)'
  PROVE  /\ pc'[p] = "sending" /\ ending'[p] = ending[p]
         /\ \A m \in Said(p)' :
              \/ e \in pending'[p] \cup pending'[Peer(p)]
              \/ Pursues(m, e, e.recordId \in Ids(Holder(p))')
<1> DEFINE d    == Holder(p)
           s    == Peer(p)
           x    == e.recordId
           msg  == Head(inbox[p])
           held == Admit(store[d], msg.records, Trusted[d])
           owed == pending[p] \cup EnvelopesFor(held, OutIds(IdsOf(held), msg))
<1>0. /\ d \in Device /\ s \in Port /\ Peer(s) = p /\ s # p /\ Holder(s) \in Device
      /\ Holder(s) # d /\ LinkOf(s) = LinkOf(p)
  <2>1. Holder(s) # d
    BY MeshAssumption DEF Port, Side, Holder, Peer
  <2> QED BY <2>1, PeerFacts
<1>1. /\ inbox[p] # <<>> /\ inbox[p] \in Seq(Message) /\ msg = inbox[p][1] /\ 1 \in DOMAIN inbox[p]
      /\ msg \in Message
  BY DEF Receive, TypeOK
<1>2. PICK chunk \in Chunks(owed) :
        /\ pending' = [pending EXCEPT ![p] = owed \ chunk]
        /\ Answer(p, msg, Reply(IdsOf(held), msg, chunk, owed \ chunk))
  BY DEF Receive
<1> DEFINE reply == Reply(IdsOf(held), msg, chunk, owed \ chunk)
<1>3. store' = [store EXCEPT ![d] = held] /\ inbox' = [inbox EXCEPT ![p] = Tail(@)]
  BY DEF Receive
<1>4. store'[d] = held /\ store'[Holder(s)] = store[Holder(s)]
  BY <1>0, <1>3 DEF TypeOK
<1>5. pending'[p] = owed \ chunk /\ pending'[s] = pending[s]
  BY <1>0, <1>2 DEF TypeOK
<1>6. inbox'[s] = <<>>
  BY <1>0, <1>1, <1>3, OneTokenIsTheFrame DEF TypeOK
<1>7. held \in SUBSET Envelope /\ store[d] \subseteq held
  <2>1. store[d] \in SUBSET Envelope
    BY <1>0 DEF TypeOK
  <2>2. msg.records \in SUBSET Envelope
    BY <1>1 DEF Message
  <2> QED BY <2>1, <2>2, AdmitKeeps
<1>8. Ids(d)' = IdsOf(held) /\ Ids(Holder(s))' = Ids(Holder(s)) /\ IdsOf(held) \in SUBSET Id
  BY <1>4, <1>7, IdsOfEnvelopes DEF Ids
<1>9. /\ e \in Envelope /\ x \in Id /\ \A y \in Id \ {x} : Hash[y] # Hash[x]
      /\ e \in store[d] \/ (e \in store[Holder(s)] /\ e.kid \in Trusted[d])
  <2>1. e \in Envelope
    BY <1>0 DEF Due, Accepts
  <2> QED BY <1>0, <2>1 DEF Due, Accepts, Alone, Kept, Envelope
<1>10. \A t : e \in t => x \in IdsOf(t)
  BY DEF IdsOf
<1>11. x \in IdsOf(held) <=> x \notin Ids(Holder(s))
  <2>1. ~(x \in IdsOf(held) /\ x \in Ids(Holder(s)))
    BY <1>8 DEF Settled
  <2> QED BY <1>7, <1>9, <1>10, <2>1 DEF Ids
<1>12. e \in store[d] \/ x \in Ids(Holder(s))
  BY <1>9, <1>10 DEF Ids
<1>13. e \in pending[s] \/ e \in owed \/ Pursues(reply, e, x \in IdsOf(held))
  <2>1. msg \in Said(s) /\ e \in Due(s)
    BY <1>0, <1>1 DEF Said, Due
  <2>2. ~Settled(s, e)
    <3>1. Ids(d) \subseteq Ids(d)'
      BY <1>4, <1>7 DEF Ids, IdsOf
    <3> QED BY <1>0, <1>8, <3>1 DEF Settled
  <2>3. e \in pending[s] \cup pending[p] \/ Pursues(msg, e, x \in Ids(Holder(s)))
    BY <1>0, <2>1, <2>2 DEF Pursued
  <2>4. CASE Pursues(msg, e, x \in Ids(Holder(s)))
    <3>1. e \notin msg.records
      <4> SUFFICES ASSUME e \in msg.records PROVE FALSE
        OBVIOUS
      <4>1. e \in store[Holder(s)]
        BY <1>0, <1>1 DEF SendsOnlyWhatItHolds
      <4>2. e \in held \/ x \in IdsOf(store[d])
        BY <1>9 DEF Admit
      <4>3. x \in IdsOf(held)
        BY <1>7, <1>10, <4>2 DEF IdsOf
      <4> QED BY <1>10, <1>11, <4>1, <4>3 DEF Ids
    <3>2. Pursues(msg, e, x \notin IdsOf(held))
      BY <1>11, <2>4 DEF Pursues
    <3>3. \/ x \in IdsOf(held) /\ x \in OutIds(IdsOf(held), msg)
          \/ Pursues(reply, e, x \in IdsOf(held))
      BY <1>1, <1>8, <1>9, <3>1, <3>2, ReplyPursues
    <3>4. ASSUME x \in IdsOf(held), x \in OutIds(IdsOf(held), msg) PROVE e \in owed
      <4>1. e \in held
        BY <1>7, <1>11, <1>12, <3>4
      <4> QED BY <3>4, <4>1 DEF EnvelopesFor
    <3> QED BY <3>3, <3>4
  <2> QED BY <2>3, <2>4
<1>14. reply.records = chunk
  BY DEF Reply
<1> HIDE DEF reply, msg, held, owed
<1>15. e \in pending[s] \/ e \in owed \ chunk \/ Pursues(reply, e, x \in IdsOf(held))
  BY <1>13, <1>14 DEF Pursues
<1>16. ASSUME ~HasContent(reply) PROVE e \in pending[s]
  <2>1. ~Pursues(reply, e, x \in IdsOf(held))
    BY <1>16, PursuitIsContent
  <2>2. chunk = {}
    BY <1>14, <1>16 DEF HasContent
  <2>3. owed = {}
    BY <1>2, <2>2, ChunkTakesSomething
  <2> QED BY <1>15, <2>1, <2>3
<1>17. ASSUME NEW m, Say(p, m)
       PROVE  pc'[p] = "sending" /\ ending'[p] = ending[p] /\ out'[p] = m /\ Said(p)' = {m}
  <2>1. pc'[p] = "sending" /\ ending' = ending /\ out'[p] = m
    BY <1>17 DEF Say, TypeOK
  <2>2. inbox'[Peer(p)] = <<>>
    BY <1>6
  <2> QED BY <2>1, <2>2 DEF Said
<1>18. CASE Say(p, reply)
  <2>1. pc'[p] = "sending" /\ ending'[p] = ending[p] /\ Said(p)' = {reply}
    BY <1>17, <1>18
  <2> QED BY <1>5, <1>8, <1>15, <2>1
<1>19. CASE ~HasContent(reply) /\ Say(p, [EmptyMessage EXCEPT !.more = "false"])
  <2>1. pc'[p] = "sending" /\ ending'[p] = ending[p]
    BY <1>17, <1>19
  <2> QED BY <1>5, <1>16, <1>19, <2>1
<1>20. CASE ~HasContent(reply) /\ msg.more # "true" /\ Finish(p, "complete")
  <2>1. pending[s] = {}
    BY <1>0, <1>1, <1>20 DEF MoreIsHonest, HonestAt
  <2> QED BY <1>16, <1>20, <2>1
<1>21. Answer(p, msg, reply)
  BY <1>2 DEF reply, msg, held, owed
<1> QED BY <1>18, <1>19, <1>20, <1>21 DEF Answer

(* A session reported complete has brought both ends to hold whatever       *)
(* either held when it began and the other can verify, colliding truncated  *)
(* ids excepted (anti-entropy.ts receive, session.ts "complete").           *)
THEOREM CompleteIsCaughtUp == Spec => []CompleteMeansCaughtUp
<1>1. Init => CatchingUp
  <2> SUFFICES ASSUME Init, NEW p \in Port PROVE Pursued(p) /\ Kept(p) /\ CaughtUp(p)
    BY DEF CatchingUp
  <2>1. Peer(p) \in Port /\ LinkOf(p) \in Link
    BY PeerFacts
  <2> QED BY <2>1 DEF Init, Pursued, Kept, CaughtUp, Said
<1>2. /\ TypeOK /\ SendsOnlyWhatItHolds /\ OneToken /\ MoreIsHonest /\ CatchingUp
      /\ [Next]_vars
      /\ Log!Next \/ UNCHANGED store
      => CatchingUp'
  <2> SUFFICES ASSUME TypeOK, SendsOnlyWhatItHolds, OneToken, MoreIsHonest, CatchingUp,
                      [Next]_vars, Log!Next \/ UNCHANGED store, NEW q \in Port
               PROVE  Pursued(q)' /\ Kept(q)' /\ CaughtUp(q)'
    BY DEF CatchingUp
  <2>0. /\ Pursued(q) /\ Kept(q) /\ CaughtUp(q)
        /\ Peer(q) \in Port /\ Peer(Peer(q)) = q /\ Peer(q) # q /\ LinkOf(q) \in Link
        /\ Holder(q) \in Device /\ Holder(Peer(q)) \in Device
    BY PeerFacts DEF CatchingUp
  <2>1. \A d \in Device : store[d] \subseteq store'[d]
    BY DEF Log!Next, Log!Seal, Log!Copy, TypeOK
  <2>2. ASSUME UNCHANGED <<pending, began>>, Said(q)' \subseteq Said(q),
               ending'[q] = "complete" => ending[q] = "complete"
        PROVE  Pursued(q)' /\ Kept(q)' /\ CaughtUp(q)'
    BY <2>0, <2>1, <2>2, PursuitGoesOn
  <2>3. ASSUME NEW d \in Device, NEW e \in Envelope, Seal(d, e)
        PROVE  Pursued(q)' /\ Kept(q)' /\ CaughtUp(q)'
    BY <2>2, <2>3 DEF Seal, session, Said
  <2>4. ASSUME NEW l \in Link, StartSession(l)
        PROVE  Pursued(q)' /\ Kept(q)' /\ CaughtUp(q)'
    <3>1. PICK a \in Port, b \in Port : Started(l, a, b)
      BY <2>4, StartSessionPortByPort
    <3>2. /\ began' = [began EXCEPT ![l] = store[Holder(<<l, "initiator">>)] \cup store[Holder(<<l, "responder">>)]]
          /\ UNCHANGED store
      BY <2>4 DEF StartSession
    <3>3. CASE q \in {a, b}
      <4>1. began'[LinkOf(q)] = store[Holder(q)] \cup store[Holder(Peer(q))]
        <5>1. LinkOf(q) = l /\ {q, Peer(q)} = {<<l, "initiator">>, <<l, "responder">>}
          BY <3>1, <3>3, EndsArePorts DEF Started
        <5>2. began'[l] = store[Holder(<<l, "initiator">>)] \cup store[Holder(<<l, "responder">>)]
          BY <3>2 DEF TypeOK
        <5>3. q = <<l, "initiator">> \/ q = <<l, "responder">>
          BY <5>1
        <5> QED BY <3>1, <5>1, <5>2, <5>3 DEF Started
      <4>2. Kept(q)'
        BY <3>2, <4>1 DEF Kept
      <4>3. CaughtUp(q)'
        BY <3>1, <3>3 DEF Started, CaughtUp
      <4>4. Pursued(q)'
        <5>1. CASE q = b
          <6>1. Said(q)' = {}
            BY <2>0, <3>1, <5>1 DEF Started, Said
          <6> QED BY <6>1 DEF Pursued
        <5>2. CASE q = a
          <6> DEFINE opening == StartMessage(Ids(Holder(q)))
          <6>1. inbox'[Peer(q)] = <<>> /\ out'[q] = opening
            BY <2>0, <3>1, <5>2 DEF Started, TypeOK
          <6>2. Said(q)' \subseteq {opening}
            BY <6>1 DEF Said
          <6>3. Ids(Holder(q)) \in SUBSET Id /\ Ids(Holder(q))' = Ids(Holder(q))
            BY <2>0, <3>2, IdsOfEnvelopes DEF Ids, TypeOK
          <6>4. \A e \in Envelope : Pursues(opening, e, e.recordId \in Ids(Holder(q)))
            BY <6>3, StartPursues
          <6>5. Due(q)' \subseteq Envelope
            BY <2>0 DEF Due, Accepts
          <6> HIDE DEF opening
          <6> QED BY <6>2, <6>3, <6>4, <6>5 DEF Pursued
        <5> QED BY <3>3, <5>1, <5>2
      <4> QED BY <4>2, <4>3, <4>4
    <3>4. CASE q \notin {a, b}
      <4>1. Peer(q) \notin {a, b} /\ LinkOf(q) # l
        BY <2>0, <3>1, <3>4, EndsArePorts DEF Started
      <4>2. began'[LinkOf(q)] = began[LinkOf(q)] /\ out'[q] = out[q]
        BY <2>0, <3>1, <3>2, <3>4, <4>1 DEF Started, TypeOK
      <4>3. /\ pending'[q] = pending[q] /\ pending'[Peer(q)] = pending[Peer(q)]
            /\ ending'[q] = ending[q]
            /\ inbox'[Peer(q)] = inbox[Peer(q)] /\ pc'[q] = pc[q]
        BY <2>0, <3>1, <3>4, <4>1 DEF Started
      <4>4. Said(q)' = Said(q)
        BY <4>2, <4>3 DEF Said
      <4> QED BY <2>0, <2>1, <4>2, <4>3, <4>4, PursuitGoesOn
    <3> QED BY <3>3, <3>4
  <2>5. ASSUME NEW p \in Port, Send(p)
        PROVE  Pursued(q)' /\ Kept(q)' /\ CaughtUp(q)'
    <3>1. /\ pc[p] = "sending" /\ pc'[p] # "sending" /\ UNCHANGED <<pending, began>>
          /\ \A r \in Port \ {p} : pc'[r] = pc[r] /\ out'[r] = out[r]
          /\ \A r \in Port : ending'[r] = ending[r] \/ ending'[r] = "round-limit"
          /\ \A r \in Port : inbox'[r] = inbox[r] \/ (r = Peer(p) /\ inbox'[r] = Append(inbox[r], out[p]))
      BY <2>5 DEF Send, Finish, TypeOK
    <3>2. ASSUME NEW i \in DOMAIN inbox'[Peer(q)] PROVE inbox'[Peer(q)][i] \in Said(q)
      <4>1. CASE inbox'[Peer(q)] = inbox[Peer(q)]
        BY <3>2, <4>1 DEF Said
      <4>2. CASE Peer(q) = Peer(p) /\ inbox'[Peer(q)] = Append(inbox[Peer(q)], out[p])
        <5>1. q = p /\ inbox[Peer(q)] \in Seq(Message)
          BY <2>0, <4>2, PeerFacts DEF TypeOK
        <5>2. \/ i \in DOMAIN inbox[Peer(q)] /\ inbox'[Peer(q)][i] = inbox[Peer(q)][i]
              \/ inbox'[Peer(q)][i] = out[q]
          BY <3>2, <4>2, <5>1
        <5> QED BY <3>1, <5>1, <5>2 DEF Said
      <4> QED BY <2>0, <3>1, <4>1, <4>2
    <3>3. Said(q)' \subseteq Said(q)
      BY <3>1, <3>2 DEF Said
    <3> QED BY <2>2, <3>1, <3>3
  <2>6. ASSUME NEW p \in Port,
               SendClosed(p) \/ SendStalled(p) \/ SendFails(p) \/ RefuseFrame(p) \/ ReceiveClosed(p) \/ Timeout(p)
        PROVE  Pursued(q)' /\ Kept(q)' /\ CaughtUp(q)'
    <3>1. /\ \E how \in Ending \ {"complete"} : Finish(p, how)
          /\ UNCHANGED <<pending, out, began>>
          /\ inbox' = inbox \/ (inbox[p] # <<>> /\ inbox' = [inbox EXCEPT ![p] = Tail(@)])
      BY <2>6 DEF SendClosed, SendStalled, SendFails, RefuseFrame, ReceiveClosed, Timeout, Ending
    <3>2. /\ pc'[q] = "sending" => pc[q] = "sending"
          /\ ending'[q] = "complete" => ending[q] = "complete"
      BY <3>1 DEF Finish, TypeOK
    <3>3. inbox'[Peer(q)] = inbox[Peer(q)] \/ inbox'[Peer(q)] = <<>>
      <4>1. CASE inbox[p] # <<>> /\ inbox' = [inbox EXCEPT ![p] = Tail(@)]
        <5>1. Len(inbox[p]) = 1 /\ inbox[p] \in Seq(Message)
          BY <4>1, OneTokenIsTheFrame DEF TypeOK
        <5>2. Tail(inbox[p]) = <<>>
          BY <5>1, LastFrameRead
        <5> QED BY <2>0, <4>1, <5>2 DEF TypeOK
      <4> QED BY <3>1, <4>1
    <3>4. Said(q)' \subseteq Said(q)
      BY <3>1, <3>2, <3>3 DEF Said
    <3> QED BY <2>2, <3>1, <3>2, <3>4
  <2>7. ASSUME NEW p \in Port, Receive(p)
        PROVE  Pursued(q)' /\ Kept(q)' /\ CaughtUp(q)'
    <3>1. /\ inbox[p] # <<>> /\ inbox' = [inbox EXCEPT ![p] = Tail(@)] /\ UNCHANGED began
          /\ pc[p] = "receiving"
          /\ Peer(p) \in Port /\ Peer(Peer(p)) = p /\ Peer(p) # p
      BY <2>7, PeerFacts DEF Receive
    <3>2. \A r \in Port \ {p} : /\ pending'[r] = pending[r] /\ out'[r] = out[r]
                                 /\ pc'[r] = pc[r] /\ ending'[r] = ending[r]
      BY <2>7 DEF Receive, Answer, Say, Finish, TypeOK
    <3>3. \A r \in Port \ {p} : inbox'[r] = inbox[r]
      BY <3>1 DEF TypeOK
    <3>4. CASE q # p /\ q # Peer(p)
      <4>1. Peer(q) # p
        BY <2>0, <3>4
      <4>2. Said(q)' = Said(q)
        BY <2>0, <3>2, <3>3, <3>4, <4>1 DEF Said
      <4>3. pending'[q] = pending[q] /\ pending'[Peer(q)] = pending[Peer(q)]
        BY <2>0, <3>2, <3>4, <4>1
      <4> QED BY <2>0, <2>1, <3>1, <3>2, <3>4, <4>2, <4>3, PursuitGoesOn
    <3>5. ending[p] # "complete" /\ ending[Peer(p)] # "complete"
      BY <3>1, NoTokenNoTurn DEF MoreIsHonest, HonestAt
    <3>6. Due(q)' = Due(q) /\ Kept(q)'
      <4>1. Kept(q)'
        BY <2>0, <2>1, <3>1 DEF Kept
      <4> QED BY <3>1, <4>1 DEF Due, Accepts
    <3>7. CASE q = Peer(p)
      <4>1. Len(inbox[p]) = 1 /\ inbox[p] \in Seq(Message) /\ pc[Peer(p)] # "sending"
        BY <3>1, OneTokenIsTheFrame DEF TypeOK
      <4>2. inbox'[p] = <<>>
        BY <3>1, <4>1, LastFrameRead DEF TypeOK
      <4>3. Said(q)' = {}
        BY <3>1, <3>2, <3>7, <4>1, <4>2 DEF Said
      <4> QED BY <3>1, <3>2, <3>5, <3>6, <3>7, <4>3 DEF Pursued, CaughtUp
    <3>8. CASE q = p
      <4>1. Pursued(Peer(p)) /\ Kept(p)
        BY <3>1 DEF CatchingUp
      <4>2. ASSUME NEW e \in Due(p), ~Settled(p, e)'
            PROVE  /\ ending'[p] = ending[p]
                   /\ \A m \in Said(p)' :
                        \/ e \in pending'[p] \cup pending'[Peer(p)]
                        \/ Pursues(m, e, e.recordId \in Ids(Holder(p))')
        BY <2>7, <4>1, <4>2, ReceivePursues
      <4>3. CaughtUp(p)'
        BY <3>5, <3>6, <3>8, <4>2 DEF CaughtUp
      <4>4. Pursued(p)'
        BY <3>6, <3>8, <4>2 DEF Pursued
      <4> QED BY <3>6, <3>8, <4>3, <4>4
    <3> QED BY <3>4, <3>7, <3>8
  <2>8. ASSUME NEW l \in Link, NEW how \in {"closed", "silent"}, Break(l, how)
        PROVE  Pursued(q)' /\ Kept(q)' /\ CaughtUp(q)'
    <3>1. /\ UNCHANGED <<pc, out, pending, ending, began>>
          /\ inbox'[Peer(q)] = inbox[Peer(q)] \/ inbox'[Peer(q)] = <<>>
      BY <2>0, <2>8 DEF Break
    <3>2. Said(q)' \subseteq Said(q)
      BY <3>1 DEF Said
    <3> QED BY <2>2, <3>1, <3>2
  <2>9. CASE UNCHANGED vars
    BY <2>2, <2>9 DEF vars, session, Said
  <2> QED BY <2>3, <2>4, <2>5, <2>6, <2>7, <2>8, <2>9 DEF Next, Drop, GoSilent
<1>3. CatchingUp => CompleteMeansCaughtUp
  BY DEF CatchingUp, CaughtUp, Due, Settled, CompleteMeansCaughtUp
<1>4. Spec => [][Log!Next]_store
  BY SyncIsAGrowOnlyLog, PTL DEF ImplementsGrowOnlyLog, Log!Spec
<1> QED
  <2>1. [Log!Next]_store => (Log!Next \/ UNCHANGED store)
    OBVIOUS
  <2> QED BY <1>1, <1>2, <1>3, <1>4, <2>1, TypesHold, NeverSendsWhatItLacks, OneTurn,
             MoreAlwaysHonest, PTL DEF Spec

=============================================================================
