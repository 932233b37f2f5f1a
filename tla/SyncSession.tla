----------------------------- MODULE SyncSession -----------------------------
(****************************************************************************)
(* Anti-entropy over links: courier-core's AntiEntropySession driven by     *)
(* courier-transport's syncOverLink.                                        *)
(*                                                                          *)
(* A device keeps one store and may run a session on each of its links at   *)
(* the same time; all of them read and grow that store.  A link joins two   *)
(* devices, and a port is one end of it: the initiator sends the first      *)
(* message, then the ends alternate.  Sessions on a link are repeated       *)
(* forever; nothing of one is remembered in the next but the store.         *)
(*                                                                          *)
(* What the world may do to a link is bounded by MaxFaults: it drops, it    *)
(* goes silent (the radio is gone and nobody has noticed), a write stalls,  *)
(* a frame is late, or it is refused on arrival.                            *)
(****************************************************************************)
EXTENDS AntiEntropy

CONSTANTS Device,       \* devices of the mesh
          Link,         \* the links between them
          Initiator,    \* Link -> the device that speaks first
          Responder,    \* Link -> the device that answers
          Trusted,      \* Device -> the keys its registry resolves
          Local,        \* Device -> envelopes that reach it other than by Link
          MaxRounds,    \* messages one end may send in a session (maxRounds)
          MaxFaults     \* bound: faults of the links in one behaviour

ASSUME MeshAssumption ==
  /\ Initiator \in [Link -> Device]
  /\ Responder \in [Link -> Device]
  /\ \A l \in Link : Initiator[l] # Responder[l]
  /\ Trusted \in [Device -> SUBSET Key]
  /\ Local \in [Device -> SUBSET Envelope]
  /\ MaxRounds \in Nat \ {0}
  /\ MaxFaults \in Nat

VARIABLES store,     \* what each device holds: a set of envelopes
          radio,     \* a link is "up", "silent" or "closed"
          inbox,     \* frames delivered to a port and not yet received
          pc,        \* where the driver of a port stands
          out,       \* the message a port is sending
          pending,   \* envelopes a port owes its peer (#pending)
          rounds,    \* messages a port has sent in this session
          ending,    \* how the last session of a port ended
          stalled,   \* did a send of that session stall
          faults,    \* faults so far
          began      \* history: what both ends held when the session began

session == <<radio, inbox, pc, out, pending, rounds, ending, stalled, began>>
vars == <<store, session, faults>>

Side == {"initiator", "responder"}
Port == Link \X Side

LinkOf(p) == p[1]
Holder(p) == IF p[2] = "initiator" THEN Initiator[p[1]] ELSE Responder[p[1]]
Peer(p) == <<p[1], IF p[2] = "initiator" THEN "responder" ELSE "initiator">>
Ends(l) == {<<l, s>> : s \in Side}

Ending == {"complete", "peer-hung-up", "peer-silent", "round-limit", "protocol-error"}

Ids(d) == IdsOf(store[d])

Accepts == [d \in Device |-> {e \in Envelope : e.kid \in Trusted[d]}]

OneEnvelopePerId(s) == \A e, f \in s : e.recordId = f.recordId => e = f

Init ==
  /\ store \in [Device -> SUBSET Envelope]
  /\ \A d \in Device : store[d] \subseteq Accepts[d] /\ OneEnvelopePerId(store[d])
  /\ radio = [l \in Link |-> "closed"]
  /\ inbox = [p \in Port |-> <<>>]
  /\ pc = [p \in Port |-> "idle"]
  /\ out = [p \in Port |-> EmptyMessage]
  /\ pending = [p \in Port |-> {}]
  /\ rounds = [p \in Port |-> 0]
  /\ ending = [p \in Port |-> "none"]
  /\ stalled = [p \in Port |-> FALSE]
  /\ faults = 0
  /\ began = [l \in Link |-> {}]

----------------------------------------------------------------------------
(* Seeded defect of Seal: an envelope takes the place of one of its record. *)
SealReplacing(d, e) ==
  /\ e \in Local[d]
  /\ e \in Accepts[d]
  /\ store' = [store EXCEPT ![d] = {f \in @ : f.recordId # e.recordId} \cup {e}]
  /\ UNCHANGED <<session, faults>>

(* The device's own records, and those that come as files or over links not *)
(* modelled here: the store may grow at any moment of a session.            *)
Seal(d, e) ==
  /\ e \in Local[d]
  /\ e \in Accepts[d]
  /\ e.recordId \notin Ids(d)
  /\ store' = [store EXCEPT ![d] = @ \cup {e}]
  /\ UNCHANGED <<session, faults>>

----------------------------------------------------------------------------
(* The driver.                                                              *)

(* Every exit of syncOverLink records its ending and closes the link, which *)
(* closes it for both ends unless the radio has already lost the peer.      *)
Finish(p, how) ==
  /\ pc' = [pc EXCEPT ![p] = "idle"]
  /\ ending' = [ending EXCEPT ![p] = how]
  /\ radio' = [radio EXCEPT ![LinkOf(p)] = IF @ = "silent" THEN @ ELSE "closed"]

(* Both ends open a fresh link and a fresh session over their stores.       *)
StartSession(l) ==
  LET a == <<l, "initiator">>
      b == <<l, "responder">>
  IN  /\ pc[a] = "idle" /\ pc[b] = "idle"
      /\ radio' = [radio EXCEPT ![l] = "up"]
      /\ inbox' = [inbox EXCEPT ![a] = <<>>, ![b] = <<>>]
      /\ pc' = [pc EXCEPT ![a] = "sending", ![b] = "receiving"]
      /\ out' = [out EXCEPT ![a] = StartMessage(Ids(Holder(a)))]
      /\ pending' = [pending EXCEPT ![a] = {}, ![b] = {}]
      /\ rounds' = [rounds EXCEPT ![a] = 0, ![b] = 0]
      /\ ending' = [ending EXCEPT ![a] = "none", ![b] = "none"]
      /\ stalled' = [stalled EXCEPT ![a] = FALSE, ![b] = FALSE]
      /\ began' = [began EXCEPT ![l] = store[Holder(a)] \cup store[Holder(b)]]
      /\ UNCHANGED <<store, faults>>

(* Seeded defect of RoundsLeft: one message too many.                       *)
RoundsLeftInclusive(p) == rounds[p] + 1 <= MaxRounds

RoundsLeft(p) == rounds[p] + 1 < MaxRounds

(* The link takes the frame.  A silent link takes it and loses it.          *)
Send(p) ==
  /\ pc[p] = "sending"
  /\ radio[LinkOf(p)] # "closed"
  /\ inbox' = IF radio[LinkOf(p)] = "up"
              THEN [inbox EXCEPT ![Peer(p)] = Append(@, out[p])]
              ELSE inbox
  /\ out' = [out EXCEPT ![p] = EmptyMessage]
  /\ rounds' = [rounds EXCEPT ![p] = @ + 1]
  /\ IF RoundsLeft(p)
     THEN pc' = [pc EXCEPT ![p] = "receiving"] /\ UNCHANGED <<radio, ending>>
     ELSE Finish(p, "round-limit")
  /\ UNCHANGED <<store, pending, stalled, faults, began>>

(* LinkClosedError: the peer or the radio closed the link first.            *)
SendClosed(p) ==
  /\ pc[p] = "sending"
  /\ radio[LinkOf(p)] = "closed"
  /\ Finish(p, "peer-hung-up")
  /\ UNCHANGED <<store, inbox, out, pending, rounds, stalled, faults, began>>

(* LinkStalledError: the stack never drained.  Only the opening send looks  *)
(* at `stalled` when it picks the ending.                                   *)
SendStalled(p) ==
  /\ pc[p] = "sending"
  /\ radio[LinkOf(p)] # "closed"
  /\ faults < MaxFaults
  /\ faults' = faults + 1
  /\ stalled' = [stalled EXCEPT ![p] = TRUE]
  /\ Finish(p, IF p[2] = "initiator" /\ rounds[p] = 0 THEN "peer-silent" ELSE "peer-hung-up")
  /\ UNCHANGED <<store, inbox, out, pending, rounds, began>>

(* Any other error of a send (a frame the link cannot split) leaves by the  *)
(* catch around the whole session.                                          *)
SendFails(p) ==
  /\ pc[p] = "sending"
  /\ radio[LinkOf(p)] # "closed"
  /\ faults < MaxFaults
  /\ faults' = faults + 1
  /\ Finish(p, "protocol-error")
  /\ UNCHANGED <<store, inbox, out, pending, rounds, stalled, began>>

(* The reply is the message to send next.                                   *)
Say(p, m) ==
  /\ out' = [out EXCEPT ![p] = m]
  /\ pc' = [pc EXCEPT ![p] = "sending"]
  /\ UNCHANGED <<radio, ending>>

(* Seeded defects of Answer: a peer that has more is kept waiting; an empty *)
(* reply ends the session although the peer has more.                       *)
AnswerWaits(p, msg, reply) ==
  \/ HasContent(reply) /\ Say(p, reply)
  \/ ~HasContent(reply) /\ msg.more = "true" /\ UNCHANGED <<pc, out, radio, ending>>
  \/ ~HasContent(reply) /\ msg.more # "true" /\ Finish(p, "complete") /\ UNCHANGED out

AnswerEnds(p, msg, reply) ==
  \/ HasContent(reply) /\ Say(p, reply)
  \/ ~HasContent(reply) /\ Finish(p, "complete") /\ UNCHANGED out

(* Content goes out; with nothing to say the turn is handed back to a peer  *)
(* that has more, and the session is complete otherwise.                    *)
Answer(p, msg, reply) ==
  \/ HasContent(reply) /\ Say(p, reply)
  \/ ~HasContent(reply) /\ msg.more = "true" /\ Say(p, [EmptyMessage EXCEPT !.more = "false"])
  \/ ~HasContent(reply) /\ msg.more # "true" /\ Finish(p, "complete") /\ UNCHANGED out

(* AntiEntropySession.receive: absorb the records first, so that everything *)
(* compared in the same message sees them, then queue what is asked for and *)
(* what the peer lacks, and release one chunk.                              *)
Receive(p) ==
  /\ pc[p] = "receiving"
  /\ inbox[p] # <<>>
  /\ inbox' = [inbox EXCEPT ![p] = Tail(@)]
  /\ LET d    == Holder(p)
         msg  == Head(inbox[p])
         held == Admit(store[d], msg.records, Trusted[d])
         owed == pending[p] \cup EnvelopesFor(held, OutIds(IdsOf(held), msg))
     IN  /\ store' = [store EXCEPT ![d] = held]
         /\ \E chunk \in Chunks(owed) :
              /\ pending' = [pending EXCEPT ![p] = owed \ chunk]
              /\ Answer(p, msg, Reply(IdsOf(held), msg, chunk, owed \ chunk))
  /\ UNCHANGED <<rounds, stalled, faults, began>>

(* A frame that will not decode, or one that takes the session past         *)
(* maxBytes (bytes are not counted here, so any frame may be the one).      *)
RefuseFrame(p) ==
  /\ pc[p] = "receiving"
  /\ inbox[p] # <<>>
  /\ faults < MaxFaults
  /\ faults' = faults + 1
  /\ inbox' = [inbox EXCEPT ![p] = Tail(@)]
  /\ Finish(p, "protocol-error")
  /\ UNCHANGED <<store, out, pending, rounds, stalled, began>>

(* receive() drains what has arrived before it reports the closed link.     *)
ReceiveClosed(p) ==
  /\ pc[p] = "receiving"
  /\ inbox[p] = <<>>
  /\ radio[LinkOf(p)] = "closed"
  /\ Finish(p, "peer-hung-up")
  /\ UNCHANGED <<store, inbox, out, pending, rounds, stalled, faults, began>>

(* Nothing came for receiveTimeoutMs: the peer is gone, or its answer is    *)
(* late, which counts as a fault.                                           *)
Timeout(p) ==
  /\ pc[p] = "receiving"
  /\ inbox[p] = <<>>
  /\ \/ radio[LinkOf(p)] = "silent" /\ UNCHANGED faults
     \/ radio[LinkOf(p)] = "up" /\ faults < MaxFaults /\ faults' = faults + 1
  /\ Finish(p, "peer-silent")
  /\ UNCHANGED <<store, inbox, out, pending, rounds, stalled, began>>

----------------------------------------------------------------------------
(* The link.  Frames still in the air are lost with it, those that have     *)
(* arrived may still be read.                                               *)

Break(l, how) ==
  /\ radio[l] = "up"
  /\ faults < MaxFaults
  /\ faults' = faults + 1
  /\ radio' = [radio EXCEPT ![l] = how]
  /\ \E lost \in SUBSET Ends(l) :
       inbox' = [p \in Port |-> IF p \in lost THEN <<>> ELSE inbox[p]]
  /\ UNCHANGED <<store, pc, out, pending, rounds, ending, stalled, began>>

Drop(l) == Break(l, "closed")

GoSilent(l) == Break(l, "silent")

----------------------------------------------------------------------------
Driver(p) == Send(p) \/ SendClosed(p) \/ Receive(p) \/ ReceiveClosed(p) \/ Timeout(p)

Next ==
  \/ \E d \in Device, e \in Envelope : Seal(d, e)
  \/ \E l \in Link : StartSession(l)
  \/ \E p \in Port : Send(p)
  \/ \E p \in Port : SendClosed(p)
  \/ \E p \in Port : SendStalled(p)
  \/ \E p \in Port : SendFails(p)
  \/ \E p \in Port : Receive(p)
  \/ \E p \in Port : RefuseFrame(p)
  \/ \E p \in Port : ReceiveClosed(p)
  \/ \E p \in Port : Timeout(p)
  \/ \E l \in Link : Drop(l)
  \/ \E l \in Link : GoSilent(l)

(* A driver that can move does, and devices in range meet again: the gossip *)
(* schedule opens a new session whenever both ends are free.                *)
Fairness ==
  /\ \A p \in Port : WF_vars(Driver(p))
  /\ \A l \in Link : WF_vars(StartSession(l))

Spec == Init /\ [][Next]_vars

FairSpec == Spec /\ Fairness

----------------------------------------------------------------------------
(* Safety.                                                                  *)

(* Types, and the bounds of rounds and faults.                               *)
TypeOK ==
  /\ store \in [Device -> SUBSET Envelope]
  /\ radio \in [Link -> {"up", "silent", "closed"}]
  /\ inbox \in [Port -> Seq(Message)]
  /\ pc \in [Port -> {"idle", "receiving", "sending"}]
  /\ out \in [Port -> Message]
  /\ pending \in [Port -> SUBSET Envelope]
  /\ rounds \in [Port -> 0 .. MaxRounds]
  /\ ending \in [Port -> Ending \cup {"none"}]
  /\ stalled \in [Port -> BOOLEAN]
  /\ faults \in 0 .. MaxFaults
  /\ began \in [Link -> SUBSET Envelope]

(* A store holds only envelopes its registry verifies, one per record: two  *)
(* envelopes of one record (two signers) never both get in, by whichever    *)
(* links they come (store.ts admit).                                        *)
StoresVerified ==
  \A d \in Device : store[d] \subseteq Accepts[d] /\ OneEnvelopePerId(store[d])

(* Whatever a port has on the wire, in its hand or in its queue is in its   *)
(* device's store: an envelope queued by an early handler and sent frames   *)
(* later is still one the device holds (anti-entropy.ts #pending).          *)
SendsOnlyWhatItHolds ==
  \A p \in Port :
     /\ pending[p] \cup out[p].records \subseteq store[Holder(p)]
     /\ \A i \in DOMAIN inbox[Peer(p)] : inbox[Peer(p)][i].records \subseteq store[Holder(p)]

(* A live link has both its drivers at work, and the turn is with exactly   *)
(* one of them or on the wire: they never wait for each other, nor for an   *)
(* end that has stopped, and never talk over each other, through chunks,    *)
(* bare turn-returns and late admissions.                                   *)
Speakers(l) == Cardinality({p \in Ends(l) : pc[p] = "sending"})
InFlight(l) == Len(inbox[<<l, "initiator">>]) + Len(inbox[<<l, "responder">>])

OneSpeaker ==
  \A l \in Link : radio[l] = "up" =>
     /\ \A p \in Ends(l) : pc[p] # "idle"
     /\ Speakers(l) + InFlight(l) = 1

(* "complete" is only ever reported when neither end owes the other an      *)
(* envelope: no chunk is left behind in #pending.                           *)
NothingOwedAtComplete ==
  \A p \in Port : ending[p] = "complete" => pending[p] = {} /\ pending[Peer(p)] = {}

(* "complete" means caught up: whatever either end held when the session    *)
(* began, and the other can verify, both hold, although both stores moved   *)
(* on between the digests, the id lists and the records.  Ids that share a  *)
(* truncated id are excepted: one session need not settle them.             *)
Alone(x) == \A y \in Id \ {x} : Hash[y] # Hash[x]

CompleteMeansCaughtUp ==
  \A p \in Port : ending[p] = "complete" =>
     \A e \in began[LinkOf(p)] :
        (Alone(e.recordId) /\ e \in Accepts[Holder(p)] \cap Accepts[Holder(Peer(p))])
          => e.recordId \in Ids(Holder(p)) \cap Ids(Holder(Peer(p)))

(* What the invariants above rest on.  The turn of a link is a token: with  *)
(* a port that is about to speak, or in the frame on its way.  There is at  *)
(* most one, and none only where an end has stopped or the radio is gone.   *)
Token(p) == IF pc[p] = "sending" THEN Len(inbox[p]) + 1 ELSE Len(inbox[p])

OneToken ==
  \A p \in Port :
     /\ Token(p) + Token(Peer(p)) <= 1
     /\ (radio[LinkOf(p)] = "up" /\ pc[p] # "idle" /\ pc[Peer(p)] # "idle")
          => Token(p) + Token(Peer(p)) = 1

(* Whoever stops takes the link down with him.                              *)
BothAtWork == \A p \in Port : radio[LinkOf(p)] = "up" => pc[p] # "idle"

(* A port that may still speak has rounds left.                             *)
RoundsToSpeak == \A p \in Port : pc[p] # "idle" => rounds[p] < MaxRounds

(* A message that does not say "more" leaves nothing behind, and a complete *)
(* session has left no message behind.                                      *)
HonestAt(p) ==
  /\ pc[p] = "sending" => (out[p].more # "true" => pending[p] = {})
  /\ \A i \in DOMAIN inbox[Peer(p)] : inbox[Peer(p)][i].more # "true" => pending[p] = {}
  /\ ending[p] = "complete" => /\ pending[p] = {} /\ pending[Peer(p)] = {}
                               /\ Token(p) + Token(Peer(p)) = 0

MoreIsHonest == \A p \in Port : HonestAt(p)

(* The stores implement a grow-only log: nothing is dropped, whatever the   *)
(* link does, and every envelope gained is one some device held.            *)
Log == INSTANCE GrowOnlyLog WITH Entry <- Envelope

ImplementsGrowOnlyLog == Log!Spec

(* What a port has left to do in its session, counted in driver steps: each *)
(* step of its driver spends at least one, and nothing gives any back while *)
(* the session runs, whatever the peer sends (session.ts 144-175, the loop  *)
(* and maxRounds).                                                          *)
Left(p) ==
  IF pc[p] = "idle" THEN 0
  ELSE 2 * (MaxRounds - rounds[p]) + (IF pc[p] = "receiving" THEN 1 ELSE 0)

SessionsRunDown ==
  [][\A p \in Port : pc[p] # "idle" =>
       /\ Left(p)' <= Left(p)
       /\ (Driver(p) \/ SendStalled(p) \/ SendFails(p) \/ RefuseFrame(p)) => Left(p)' < Left(p)]_vars

(* A running session always has a step to take that waits for no timer,     *)
(* except where the radio is gone and nobody has noticed.                   *)
CanMove(p) ==
  \/ pc[p] = "sending"
  \/ pc[p] = "receiving" /\ (inbox[p] # <<>> \/ radio[LinkOf(p)] = "closed")

NobodyIsStranded ==
  \A l \in Link :
     (radio[l] # "silent" /\ \E p \in Ends(l) : pc[p] # "idle") => \E p \in Ends(l) : CanMove(p)

----------------------------------------------------------------------------
(* Liveness.                                                                *)

(* Every session ends at both ends, with no help from the receive timeout   *)
(* when no link fails.                                                      *)
SessionsEnd == \A p \in Port : pc[p] # "idle" ~> pc[p] = "idle"

(* Sessions that keep happening bring the two ends of a link to hold each   *)
(* record either has and the other can verify, colliding ids included.      *)
Behind(p) ==
  {e \in store[Holder(Peer(p))] : e \in Accepts[Holder(p)] /\ e.recordId \notin Ids(Holder(p))}

Converges == \A p \in Port : <>[](Behind(p) = {})

(* A session that ended on a stalled send says the peer went silent.        *)
StallIsSilence == \A p \in Port : stalled[p] => ending[p] = "peer-silent"
=============================================================================
