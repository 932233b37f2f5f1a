------------------------------- MODULE BleLink -------------------------------
(****************************************************************************)
(* One direction of a courier link over Bluetooth: GattLink.send cuts a     *)
(* frame into packets, PluginGattTransport queues them and drains the queue *)
(* across the bridge, the native plugin hands them one at a time to the     *)
(* stack, and the GattLink at the far end puts them back together.          *)
(*                                                                          *)
(* JavaScript runs one task at a time: a handler and the promise            *)
(* continuations it sets off are one step, a function from the record js to *)
(* the next.  A bridge call, its answer and the events are messages between *)
(* JavaScript and the plugin.  On iOS the plugin runs on one serial queue;  *)
(* on Android the calls run on the plugin's thread and the completions on   *)
(* binder threads, so the two interleave.                                   *)
(****************************************************************************)
EXTENDS GattFraming

CONSTANTS MAX_PENDING_WRITES,  \* packets the transport's queue may hold
          Threads,             \* "queue" on iOS, "binder" on Android
          MaxBusy,             \* bound: refusals by an idle stack
          MaxFaults            \* bound: packets lost, stalls of a slow peer

ASSUME BleAssumption ==
  /\ MAX_PENDING_WRITES \in Nat \ {0}
  /\ Threads \in {"queue", "binder"}
  /\ MaxBusy \in Nat
  /\ MaxFaults \in Nat

VARIABLES js,            \* the sender's GattLink and transport
          up,            \* the radio connection is there
          writeInFlight, \* native: a packet is with the stack
          readyOwed,     \* native: a write was refused and wants a wake-up
          freeing,       \* native: a completion stands between its two steps
          hints,         \* wake-ups the plugin has scheduled by itself
          wakes,         \* readyToWrite events on their way to JavaScript
          air,           \* packets with the stack or in the air
          reassembler,   \* the receiver's partial frame
          received,      \* frames handed up to the receiver
          busy, faults,  \* what has been spent of the bounds
          taken          \* history: packets the native side took

native == <<writeInFlight, readyOwed, freeing, hints, wakes>>
receiver == <<reassembler, received>>
vars == <<js, up, native, air, receiver, busy, faults, taken>>

(* js.link is where send() stands: "idle", "awaiting" a ready callback,     *)
(* "woken" by it within the task, "stalled" (LinkStalledError) or "closed". *)
(* js.call is the bridge call of a running #drain, "none" when none runs.   *)
Init ==
  /\ js = [frame |-> 0, link |-> "idle", todo |-> <<>>, outbound |-> <<>>,
           call |-> "none", drainAgain |-> FALSE, owesReady |-> FALSE]
  /\ up = TRUE
  /\ writeInFlight = FALSE /\ readyOwed = FALSE /\ freeing = FALSE
  /\ hints = 0 /\ wakes = 0
  /\ air = <<>>
  /\ reassembler = EmptyReassembler
  /\ received = <<>>
  /\ busy = 0 /\ faults = 0
  /\ taken = <<>>

Open(s) == s.link \notin {"stalled", "closed"}

----------------------------------------------------------------------------
(* The transport and the link, within one task.                             *)

(* Seeded defect of Room: the bound is off by one.                          *)
RoomForOneMore(s) == MAX_PENDING_WRITES + 1 - Len(s.outbound)

Room(s) == MAX_PENDING_WRITES - Len(s.outbound)

Lesser(m, n) == IF m < n THEN m ELSE n

(* send() writes what is left of the frame until the transport refuses; the *)
(* refused packet stays first.  Each write asks for a drain, the refused    *)
(* one too: the first of them starts one if none runs, the rest are noted   *)
(* in drainAgain.                                                           *)
Pump(s) ==
  LET n == Lesser(Room(s), Len(s.todo))
      refused == n < Len(s.todo)
      asks == IF refused THEN n + 1 ELSE n
  IN  [s EXCEPT !.outbound = @ \o SubSeq(s.todo, 1, n),
                !.todo = SubSeq(@, n + 1, Len(@)),
                !.link = IF refused THEN "awaiting" ELSE "idle",
                !.owesReady = @ \/ refused,
                !.call = IF @ = "none" THEN "asked" ELSE @,
                !.drainAgain = s.call # "none" \/ asks > 1]

(* The ready handler resolves the promise send() waits on ...               *)
Ready(s) == IF s.link = "awaiting" THEN [s EXCEPT !.link = "woken"] ELSE s

(* ... and send() goes on when the handlers of the task are through.        *)
Resume(s) == IF s.link = "woken" THEN Pump(s) ELSE s

(* Seeded defect of Settle: the transport forgets whom it refused.          *)
SettleSilently(s) == [s EXCEPT !.call = "none", !.drainAgain = FALSE]

(* The end of a drain: wake the sender if the bound had refused it.         *)
Settle(s) ==
  LET done == [s EXCEPT !.call = "none", !.drainAgain = FALSE]
  IN  IF s.owesReady /\ Open(s) /\ Room(s) > 0 THEN Ready([done EXCEPT !.owesReady = FALSE]) ELSE done

(* Seeded defect of Drain: a request made while a drain runs is dropped.    *)
DrainUnlessRunning(s) ==
  CASE s.call # "none"                         -> s
    [] s.call = "none" /\ s.outbound # <<>>    -> [s EXCEPT !.call = "asked", !.drainAgain = FALSE]
    [] s.call = "none" /\ s.outbound = <<>>    -> Settle(s)

Drain(s) ==
  CASE s.call # "none"                         -> [s EXCEPT !.drainAgain = TRUE]
    [] s.call = "none" /\ s.outbound # <<>>    -> [s EXCEPT !.call = "asked", !.drainAgain = FALSE]
    [] s.call = "none" /\ s.outbound = <<>>    -> Settle(s)

(* The bridge has answered a write: go on with the packets behind it, try   *)
(* the head again if a drain was asked for meanwhile, or stop.              *)
AfterAnswer(s, left) ==
  LET accepted == s.call = "accepted"
      more == IF accepted THEN left # <<>> ELSE s.drainAgain
      rest == [s EXCEPT !.outbound = left]
  IN  IF Open(s) /\ more
      THEN [rest EXCEPT !.call = "asked", !.drainAgain = @ /\ accepted]
      ELSE Settle(rest)

Rest(packets) == IF packets = <<>> THEN <<>> ELSE Tail(packets)

(* Seeded defect of Answered: a refused packet leaves the queue as well.    *)
AnsweredDropping(s) == AfterAnswer(s, Rest(s.outbound))

(* A refused packet stays at the head of the queue.                         *)
Answered(s) == AfterAnswer(s, IF s.call = "accepted" THEN Rest(s.outbound) ELSE s.outbound)

(* Something that ends the wait of a queued packet is under way.            *)
WakeComing ==
  \/ js.call \in {"asked", "noting", "accepted"}
  \/ js.call = "refused" /\ js.drainAgain
  \/ wakes > 0 \/ hints > 0
  \/ readyOwed /\ (writeInFlight \/ freeing)

----------------------------------------------------------------------------
(* Tasks of the sender's JavaScript.                                        *)

SendFrame ==
  /\ js.link = "idle"
  /\ js.frame < Len(Size)
  /\ js' = Pump([js EXCEPT !.frame = @ + 1, !.todo = Split(js.frame + 1)])
  /\ UNCHANGED <<up, native, air, receiver, busy, faults, taken>>

WriteAnswered ==
  /\ js.call \in {"accepted", "refused"}
  /\ js' = Resume(Answered(js))
  /\ UNCHANGED <<up, native, air, receiver, busy, faults, taken>>

ReadyToWrite ==
  /\ wakes > 0
  /\ wakes' = wakes - 1
  /\ js' = IF Open(js) THEN Resume(Ready(Drain(js))) ELSE js
  /\ UNCHANGED <<up, writeInFlight, readyOwed, freeing, hints, air, receiver, busy, faults, taken>>

(* What the session's close leaves: nothing queued, no connection.  What a  *)
(* bridge call still out will answer no longer matters.                     *)
CloseAs(how) ==
  /\ js' = [js EXCEPT !.link = how, !.todo = <<>>, !.outbound = <<>>]
  /\ up' = FALSE
  /\ air' = <<>>

(* readyTimeoutMs: send() throws LinkStalledError, and the session closes   *)
(* the link.  The timer is far longer than any step of the stack: where a   *)
(* wake-up is coming, a stall is the fault of a slow peer.                  *)
Stall ==
  /\ js.link = "awaiting"
  /\ IF WakeComing THEN faults < MaxFaults /\ faults' = faults + 1 ELSE UNCHANGED faults
  /\ CloseAs("stalled")
  /\ UNCHANGED <<native, receiver, busy, taken>>

(* The session ends between two frames.                                     *)
Close ==
  /\ js.link = "idle"
  /\ CloseAs("closed")
  /\ UNCHANGED <<native, receiver, busy, faults, taken>>

(* The `disconnected` event, or a write rejected because there is no        *)
(* connection any more.                                                     *)
Disconnected ==
  /\ ~up
  /\ Open(js)
  /\ js' = [js EXCEPT !.link = "closed", !.todo = <<>>,
                      !.call = IF @ = "rejected" THEN "none" ELSE @]
  /\ UNCHANGED <<up, native, air, receiver, busy, faults, taken>>

----------------------------------------------------------------------------
(* The native plugin and the stack.                                         *)

(* The slot is free and the stack takes the packet.                         *)
StackTakes ==
  /\ js.call = "asked" /\ up /\ ~writeInFlight /\ js.outbound # <<>>
  /\ writeInFlight' = TRUE
  /\ air' = Append(air, Head(js.outbound))
  /\ taken' = Append(taken, Head(js.outbound))
  /\ js' = [js EXCEPT !.call = "accepted"]
  /\ UNCHANGED <<up, readyOwed, freeing, hints, wakes, receiver, busy, faults>>

(* The slot is free and the stack is busy with something else: no           *)
(* completion will come, so the plugin schedules the wake-up itself.        *)
StackBusy ==
  /\ js.call = "asked" /\ up /\ ~writeInFlight
  /\ busy < MaxBusy
  /\ busy' = busy + 1
  /\ readyOwed' = FALSE
  /\ hints' = hints + 1
  /\ js' = [js EXCEPT !.call = "refused"]
  /\ UNCHANGED <<up, writeInFlight, freeing, wakes, air, receiver, faults, taken>>

(* The slot is taken.  On a thread of its own the plugin has lost the       *)
(* compareAndSet here and not yet said that a wake-up is owed.              *)
SlotTaken ==
  /\ js.call = "asked" /\ up /\ writeInFlight
  /\ \/ Threads = "queue" /\ readyOwed' = TRUE /\ js' = [js EXCEPT !.call = "refused"]
     \/ Threads = "binder" /\ js' = [js EXCEPT !.call = "noting"] /\ UNCHANGED readyOwed
  /\ UNCHANGED <<up, writeInFlight, freeing, hints, wakes, air, receiver, busy, faults, taken>>

NoteOwed ==
  /\ js.call = "noting"
  /\ readyOwed' = TRUE
  /\ js' = [js EXCEPT !.call = "refused"]
  /\ UNCHANGED <<up, writeInFlight, freeing, hints, wakes, air, receiver, busy, faults, taken>>

NoConnection ==
  /\ js.call = "asked" /\ ~up
  /\ js' = [js EXCEPT !.call = IF Open(js) THEN "rejected" ELSE "none"]
  /\ UNCHANGED <<up, native, air, receiver, busy, faults, taken>>

SignalIfOwed ==
  /\ wakes' = IF readyOwed THEN wakes + 1 ELSE wakes
  /\ readyOwed' = FALSE

(* onCharacteristicWrite, onNotificationSent, peripheralIsReady.            *)
WriteCompleted ==
  /\ writeInFlight /\ up /\ ~freeing
  /\ writeInFlight' = FALSE
  /\ \/ Threads = "queue" /\ SignalIfOwed /\ UNCHANGED freeing
     \/ Threads = "binder" /\ freeing' = TRUE /\ UNCHANGED <<wakes, readyOwed>>
  /\ UNCHANGED <<js, up, hints, air, receiver, busy, faults, taken>>

SlotFreed ==
  /\ freeing
  /\ freeing' = FALSE
  /\ SignalIfOwed
  /\ UNCHANGED <<js, up, writeInFlight, hints, air, receiver, busy, faults, taken>>

(* scheduleReadyHint: 25 ms later, if the connection is still there.        *)
Hint ==
  /\ hints > 0
  /\ hints' = hints - 1
  /\ wakes' = IF up THEN wakes + 1 ELSE wakes
  /\ UNCHANGED <<js, up, writeInFlight, readyOwed, freeing, air, receiver, busy, faults, taken>>

(* The peer leaves, or the adapter is turned off.                           *)
ConnectionLost ==
  /\ up
  /\ up' = FALSE
  /\ air' = <<>>
  /\ UNCHANGED <<js, native, receiver, busy, faults, taken>>

----------------------------------------------------------------------------
(* The far end.                                                             *)

Arrive ==
  /\ air # <<>>
  /\ LET after == Push(reassembler, Head(air))
     IN  /\ reassembler' = after.state
         /\ received' = IF after.frame = <<>> THEN received ELSE Append(received, after.frame)
  /\ air' = Tail(air)
  /\ UNCHANGED <<js, up, native, busy, faults, taken>>

(* A write the stack had taken fails after all.                             *)
Lose ==
  /\ air # <<>>
  /\ faults < MaxFaults
  /\ faults' = faults + 1
  /\ air' = Tail(air)
  /\ UNCHANGED <<js, up, native, receiver, busy, taken>>

----------------------------------------------------------------------------
Next ==
  \/ SendFrame \/ WriteAnswered \/ ReadyToWrite \/ Stall \/ Close \/ Disconnected
  \/ StackTakes \/ StackBusy \/ SlotTaken \/ NoteOwed \/ NoConnection
  \/ WriteCompleted \/ SlotFreed \/ Hint \/ ConnectionLost
  \/ Arrive \/ Lose

Spec == Init /\ [][Next]_vars

(* The event loop, the plugin and the stack run; that the timer, the peer   *)
(* or the session would ever end a wait is not assumed.                     *)
Fairness ==
  /\ WF_vars(WriteAnswered) /\ WF_vars(ReadyToWrite)
  /\ WF_vars(StackTakes \/ StackBusy \/ SlotTaken \/ NoteOwed \/ NoConnection)
  /\ WF_vars(WriteCompleted) /\ WF_vars(SlotFreed) /\ WF_vars(Hint)
  /\ WF_vars(Arrive)

FairSpec == Spec /\ Fairness

----------------------------------------------------------------------------
(* Safety.                                                                  *)

(* Types; the queue keeps to its bound, and the bridge carries one call.    *)
TypeOK ==
  /\ js.frame \in 0 .. Len(Size)
  /\ js.link \in {"idle", "awaiting", "stalled", "closed"}
  /\ js.todo \in Seq(Packet)
  /\ js.outbound \in Seq(Packet) /\ Len(js.outbound) <= MAX_PENDING_WRITES
  /\ js.call \in {"none", "asked", "noting", "accepted", "refused", "rejected"}
  /\ {js.drainAgain, js.owesReady, up, writeInFlight, readyOwed, freeing} \subseteq BOOLEAN
  /\ hints \in 0 .. MaxBusy /\ wakes \in Nat
  /\ air \in Seq(Packet)
  /\ reassembler.frameId \in {NoFrame} \cup 0 .. FRAME_IDS - 1
  /\ busy \in 0 .. MaxBusy /\ faults \in 0 .. MaxFaults
  /\ taken \in Seq(Packet)

(* A packet follows another: the next of its frame, or the first of the     *)
(* next frame.                                                              *)
Follows(a, b) ==
  b.body = IF a.final THEN <<a.body[1] + 1, 1>> ELSE <<a.body[1], a.body[2] + 1>>

InOrder(packets) ==
  /\ packets # <<>> => packets[1].body = <<1, 1>>
  /\ \A i \in 2 .. Len(packets) : Follows(packets[i - 1], packets[i])

(* All packets of the first f frames, each once and in order.               *)
AllUpTo(packets, f) ==
  /\ InOrder(packets)
  /\ IF f = 0 THEN packets = <<>>
     ELSE packets # <<>> /\ packets[Len(packets)].body = <<f, Size[f]>>

Waiting == (IF js.call = "accepted" THEN Rest(js.outbound) ELSE js.outbound) \o js.todo

(* Every packet of every frame crosses the bridge once and in order,        *)
(* through refusals, retries, early wake-ups and drains asked for while one *)
(* runs (transport.ts: a refused packet stays at the head of the queue).    *)
CrossesOnce ==
  IF Open(js) THEN AllUpTo(taken \o Waiting, js.frame)
  ELSE InOrder(taken) /\ \A i \in DOMAIN taken : taken[i].body[1] <= js.frame

(* The frames handed up, each by its place in what was sent.                *)
FrameOf(parts) ==
  IF \E f \in Frame : parts = Body(f) THEN CHOOSE f \in Frame : parts = Body(f) ELSE 0

Received == [i \in DOMAIN received |-> FrameOf(received[i])]

(* What a queued packet waits for is on its way: no wake-up is lost between *)
(* the queue's bound, a drain that is just ending and the native slot.      *)
WakeUpIsComing ==
  (up /\ Open(js)) =>
     /\ js.outbound # <<>> => WakeComing
     /\ js.link = "awaiting" => js.outbound # <<>>

(* The sender and the receiver implement a link that may lose frames but    *)
(* never tears, splices, repeats or reorders them, although packets are     *)
(* lost and frame ids come round again.                                     *)
Channel == INSTANCE FrameLink WITH sent <- js.frame, received <- Received

ImplementsFrameLink == Channel!Spec

----------------------------------------------------------------------------
(* Liveness.                                                                *)

(* A frame that send() took arrives, if nothing fails and the session keeps *)
(* the link: no packet is left behind in the queue with nobody to move it.  *)
FramesArrive ==
  \A f \in Frame : js.frame >= f ~> (Len(received) >= f \/ ~up \/ faults > 0)
=============================================================================
