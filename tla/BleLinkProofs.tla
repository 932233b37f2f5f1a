---------------------------- MODULE BleLinkProofs ----------------------------
(****************************************************************************)
(* Proofs about one direction of a link over Bluetooth.                     *)
(****************************************************************************)
EXTENDS BleLink, SequenceTheorems, TLAPS

(* The sender's record, between tasks and within one.                       *)
Sender ==
  [frame : 0 .. Len(Size), link : {"idle", "awaiting", "woken", "stalled", "closed"},
   todo : Seq(Packet), outbound : Seq(Packet),
   call : {"none", "asked", "noting", "accepted", "refused", "rejected"},
   drainAgain : BOOLEAN, owesReady : BOOLEAN]

(* A queue within its bound, which still holds what the bridge accepted.    *)
Bounded(s) ==
  /\ s \in Sender
  /\ Len(s.outbound) <= MAX_PENDING_WRITES
  /\ s.call = "accepted" /\ Open(s) => s.outbound # <<>>

(* send() waits with something left to write, and only when it is owed the  *)
(* ready callback.                                                          *)
WellFormed(s) ==
  /\ Bounded(s)
  /\ s.link \in {"idle", "closed", "stalled"} => s.todo = <<>>
  /\ s.link \in {"awaiting", "woken"} => s.todo # <<>>
  /\ s.link = "awaiting" => s.owesReady

(* What has yet to be taken of the frames handed to send().                 *)
WaitingOf(s) == (IF s.call = "accepted" THEN Rest(s.outbound) ELSE s.outbound) \o s.todo

LEMMA Queue ==
  ASSUME NEW S, NEW q \in Seq(S), q # <<>>
  PROVE  /\ Head(q) \in S /\ Head(q) = q[1]
         /\ Tail(q) \in Seq(S)
         /\ Len(q) \in Nat \ {0}
         /\ Len(Tail(q)) = Len(q) - 1
         /\ \A i \in 1 .. Len(q) - 1 : Tail(q)[i] = q[i + 1]
  OBVIOUS

LEMMA RestIsASeq ==
  ASSUME NEW S, NEW q \in Seq(S)
  PROVE  Rest(q) \in Seq(S) /\ Len(Rest(q)) <= Len(q)
<1>1. CASE q = <<>>
  BY <1>1 DEF Rest
<1>2. CASE q # <<>>
  BY <1>2, Queue, Len(q) \in Nat DEF Rest
<1> QED  BY <1>1, <1>2

(* A packet written behind a queue that is not empty leaves its head alone. *)
LEMMA RestOfConcat ==
  ASSUME NEW S, NEW q \in Seq(S), NEW r \in Seq(S), q # <<>>
  PROVE  Rest(q \o r) = Rest(q) \o r /\ q \o r # <<>>
<1>1. /\ q \o r \in Seq(S) /\ Len(q) \in Nat \ {0} /\ Len(r) \in Nat
      /\ Len(q \o r) = Len(q) + Len(r)
      /\ \A i \in 1 .. Len(q) + Len(r) : (q \o r)[i] = IF i <= Len(q) THEN q[i] ELSE r[i - Len(q)]
  BY ConcatProperties, EmptySeq, LenProperties
<1>2. q \o r # <<>>
  BY <1>1, EmptySeq
<1>3. /\ Rest(q) \in Seq(S) /\ Len(Rest(q)) = Len(q) - 1
      /\ \A i \in 1 .. Len(q) - 1 : Rest(q)[i] = q[i + 1]
  BY Queue DEF Rest
<1>4. /\ Rest(q \o r) \in Seq(S) /\ Len(Rest(q \o r)) = Len(q) + Len(r) - 1
      /\ \A i \in 1 .. Len(q) + Len(r) - 1 : Rest(q \o r)[i] = (q \o r)[i + 1]
  BY <1>1, <1>2, Queue DEF Rest
<1>5. /\ Rest(q) \o r \in Seq(S) /\ Len(Rest(q) \o r) = Len(q) - 1 + Len(r)
      /\ \A i \in 1 .. Len(q) - 1 + Len(r) :
           (Rest(q) \o r)[i] = IF i <= Len(q) - 1 THEN Rest(q)[i] ELSE r[i - (Len(q) - 1)]
  <2>1. /\ Rest(q) \o r \in Seq(S) /\ Len(Rest(q) \o r) = Len(Rest(q)) + Len(r)
        /\ \A i \in 1 .. Len(Rest(q)) + Len(r) :
             (Rest(q) \o r)[i] = IF i <= Len(Rest(q)) THEN Rest(q)[i] ELSE r[i - Len(Rest(q))]
    BY <1>3, ConcatProperties
  <2> QED  BY <2>1, <1>3
<1>6. \A i \in 1 .. Len(q) + Len(r) - 1 : Rest(q \o r)[i] = (Rest(q) \o r)[i]
  <2> TAKE i \in 1 .. Len(q) + Len(r) - 1
  <2>1. i + 1 \in 1 .. Len(q) + Len(r) /\ i \in 1 .. Len(q) - 1 + Len(r) /\ i \in Nat
    BY <1>1
  <2>2. Rest(q \o r)[i] = (q \o r)[i + 1]
    BY <1>4
  <2>3. (q \o r)[i + 1] = IF i + 1 <= Len(q) THEN q[i + 1] ELSE r[i + 1 - Len(q)]
    BY <1>1, <2>1
  <2>4. (Rest(q) \o r)[i] = IF i <= Len(q) - 1 THEN Rest(q)[i] ELSE r[i - (Len(q) - 1)]
    BY <1>5, <2>1
  <2>5. CASE i <= Len(q) - 1
    <3>1. i \in 1 .. Len(q) - 1 /\ i + 1 <= Len(q)
      BY <2>1, <2>5, <1>1
    <3> QED  BY <3>1, <2>2, <2>3, <2>4, <2>5, <1>3
  <2>6. CASE ~(i <= Len(q) - 1)
    <3>1. ~(i + 1 <= Len(q)) /\ i + 1 - Len(q) = i - (Len(q) - 1)
      BY <2>1, <2>6, <1>1
    <3> QED  BY <3>1, <2>2, <2>3, <2>4, <2>6
  <2> QED  BY <2>5, <2>6
<1>7. Rest(q \o r) = Rest(q) \o r
  <2>1. Len(Rest(q \o r)) = Len(Rest(q) \o r) /\ Len(Rest(q \o r)) = Len(q) + Len(r) - 1
    BY <1>1, <1>4, <1>5
  <2>2. \A i \in 1 .. Len(Rest(q \o r)) : Rest(q \o r)[i] = (Rest(q) \o r)[i]
    BY <2>1, <1>6
  <2> QED  BY <2>1, <2>2, <1>4, <1>5, SeqEqual
<1> QED  BY <1>2, <1>7

(* A sequence cut in two.                                                   *)
LEMMA Cut ==
  ASSUME NEW S, NEW q \in Seq(S), NEW n \in 0 .. Len(q)
  PROVE  /\ SubSeq(q, 1, n) \in Seq(S) /\ Len(SubSeq(q, 1, n)) = n
         /\ SubSeq(q, n + 1, Len(q)) \in Seq(S) /\ Len(SubSeq(q, n + 1, Len(q))) = Len(q) - n
         /\ SubSeq(q, 1, n) \o SubSeq(q, n + 1, Len(q)) = q
<1>1. Len(q) \in Nat /\ n \in Nat /\ n <= Len(q)
  BY LenProperties
<1>2. \A i \in 1 .. n : q[i] \in S
  BY <1>1, ElementOfSeq
<1>3. SubSeq(q, 1, n) \in Seq(S) /\ Len(SubSeq(q, 1, n)) = IF 1 <= n THEN n - 1 + 1 ELSE 0
  BY <1>1, <1>2, SubSeqProperties
<1>4. \A i \in n + 1 .. Len(q) : q[i] \in S
  BY <1>1, ElementOfSeq
<1>5. /\ SubSeq(q, n + 1, Len(q)) \in Seq(S)
      /\ Len(SubSeq(q, n + 1, Len(q))) = IF n + 1 <= Len(q) THEN Len(q) - (n + 1) + 1 ELSE 0
  BY <1>1, <1>4, SubSeqProperties
<1>6. SubSeq(q, 1, n) \o SubSeq(q, n + 1, Len(q)) = SubSeq(q, 1, Len(q))
  <2>1. /\ 1 \in 1 .. Len(q) + 1 /\ n \in 1 - 1 .. Len(q) /\ Len(q) \in n .. Len(q)
    BY <1>1
  <2> QED  BY <2>1, ConcatAdjacentSubSeq
<1>7. SubSeq(q, 1, Len(q)) = q
  BY SubSeqFull
<1>8. Len(SubSeq(q, 1, n)) = n /\ Len(SubSeq(q, n + 1, Len(q))) = Len(q) - n
  BY <1>1, <1>3, <1>5
<1> QED  BY <1>3, <1>5, <1>6, <1>7, <1>8

LEMMA LesserIsLesser ==
  ASSUME NEW m \in Nat, NEW n \in Nat
  PROVE  Lesser(m, n) \in 0 .. n /\ Lesser(m, n) <= m /\ (Lesser(m, n) < n => Lesser(m, n) = m)
BY DEF Lesser

----------------------------------------------------------------------------
(* The helpers of one task: each keeps the sender well formed and leaves    *)
(* what waits as it was.                                                    *)

LEMMA WaitingIsASeq ==
  ASSUME NEW s \in Sender
  PROVE  WaitingOf(s) \in Seq(Packet)
BY RestIsASeq, ConcatProperties DEF WaitingOf, Sender

LEMMA PumpKeeps ==
  ASSUME NEW s, Bounded(s), Open(s)
  PROVE  /\ WellFormed(Pump(s)) /\ Pump(s).link \in {"idle", "awaiting"}
         /\ Pump(s).frame = s.frame
         /\ WaitingOf(Pump(s)) = WaitingOf(s)
<1> DEFINE n == Lesser(Room(s), Len(s.todo))
           written == SubSeq(s.todo, 1, n)
           left == SubSeq(s.todo, n + 1, Len(s.todo))
           asks == IF n < Len(s.todo) THEN n + 1 ELSE n
           t == Pump(s)
<1>1. /\ s \in Sender /\ s.todo \in Seq(Packet) /\ s.outbound \in Seq(Packet)
      /\ Len(s.todo) \in Nat /\ Len(s.outbound) \in Nat
      /\ Len(s.outbound) <= MAX_PENDING_WRITES /\ MAX_PENDING_WRITES \in Nat \ {0}
  BY BleAssumption, LenProperties DEF Bounded, Sender
<1>2. n \in 0 .. Len(s.todo) /\ n <= MAX_PENDING_WRITES - Len(s.outbound)
  <2>1. Room(s) \in Nat /\ Room(s) = MAX_PENDING_WRITES - Len(s.outbound)
    BY <1>1 DEF Room
  <2> QED  BY <2>1, <1>1, LesserIsLesser
<1>3. /\ written \in Seq(Packet) /\ Len(written) = n
      /\ left \in Seq(Packet) /\ Len(left) = Len(s.todo) - n
      /\ written \o left = s.todo
  BY <1>1, <1>2, Cut
<1> HIDE DEF n, written, left
<1>3a. written \in Seq(Packet) /\ left \in Seq(Packet)
  BY <1>3
<1>3b. \A q \in Seq(Packet) : (q \o written) \o left = q \o (written \o left)
  BY <1>3a, ConcatAssociative
<1>4. t = [s EXCEPT !.outbound = s.outbound \o written, !.todo = left,
                    !.link = IF n < Len(s.todo) THEN "awaiting" ELSE "idle",
                    !.owesReady = s.owesReady \/ n < Len(s.todo),
                    !.call = IF s.call = "none" THEN "asked" ELSE s.call,
                    !.drainAgain = s.call # "none" \/ asks > 1]
  BY DEF Pump, n, written, left, asks
<1> HIDE DEF t
<1>5. s.outbound \o written \in Seq(Packet) /\ Len(s.outbound \o written) = Len(s.outbound) + n
  BY <1>1, <1>3, ConcatProperties
<1>6. /\ t \in Sender
      /\ t.frame = s.frame /\ t.outbound = s.outbound \o written /\ t.todo = left
      /\ t.link = IF n < Len(s.todo) THEN "awaiting" ELSE "idle"
      /\ t.owesReady = (s.owesReady \/ n < Len(s.todo))
      /\ t.call = IF s.call = "none" THEN "asked" ELSE s.call
  BY <1>1, <1>3, <1>4, <1>5 DEF Sender
<1>7. Len(t.outbound) <= MAX_PENDING_WRITES
  BY <1>1, <1>2, <1>5, <1>6
<1>8. t.call = "accepted" => s.call = "accepted" /\ s.outbound # <<>>
  BY <1>6 DEF Bounded
<1>9. t.call = "accepted" => t.outbound # <<>>
  BY <1>1, <1>3, <1>6, <1>8, RestOfConcat
<1>10. Bounded(t)
  BY <1>6, <1>7, <1>9 DEF Bounded
<1>11. t.link = "idle" => t.todo = <<>>
  <2>1. t.link = "idle" => n = Len(s.todo)
    BY <1>1, <1>2, <1>6
  <2> QED  BY <2>1, <1>1, <1>3, <1>6, EmptySeq
<1>12. t.link = "awaiting" => t.todo # <<>> /\ t.owesReady
  <2>1. t.link = "awaiting" => n < Len(s.todo)
    BY <1>6
  <2>2. n < Len(s.todo) => left # <<>>
    <3>1. n < Len(s.todo) => Len(left) # 0
      BY <1>1, <1>2, <1>3
    <3> QED  BY <3>1
  <2> QED  BY <2>1, <2>2, <1>6
<1>13. WellFormed(t) /\ t.link \in {"idle", "awaiting"}
  BY <1>6, <1>10, <1>11, <1>12 DEF WellFormed
<1>14. WaitingOf(t) = WaitingOf(s)
  <2>1. CASE t.call = "accepted"
    <3>1. Rest(t.outbound) = Rest(s.outbound) \o written /\ Rest(s.outbound) \in Seq(Packet)
      BY <2>1, <1>1, <1>3, <1>6, <1>8, RestOfConcat, RestIsASeq
    <3>2. (Rest(s.outbound) \o written) \o left = Rest(s.outbound) \o (written \o left)
      BY <3>1, <1>3b
    <3> QED  BY <2>1, <3>1, <3>2, <1>3, <1>6, <1>8 DEF WaitingOf
  <2>2. CASE t.call # "accepted"
    <3>1. s.call # "accepted"
      BY <2>2, <1>6
    <3>2. (s.outbound \o written) \o left = s.outbound \o (written \o left)
      BY <1>1, <1>3b
    <3> QED  BY <2>2, <3>1, <3>2, <1>3, <1>6 DEF WaitingOf
  <2> QED  BY <2>1, <2>2
<1> QED  BY <1>6, <1>13, <1>14 DEF t

LEMMA ReadyKeeps ==
  ASSUME NEW s, WellFormed(s)
  PROVE  /\ WellFormed(Ready(s)) /\ Ready(s).frame = s.frame
         /\ WaitingOf(Ready(s)) = WaitingOf(s) /\ Open(Ready(s)) = Open(s)
         /\ Ready(s).link # "awaiting"
         /\ Ready(s).call = s.call /\ Ready(s).outbound = s.outbound
         /\ Ready(s).drainAgain = s.drainAgain
<1>1. CASE s.link = "awaiting"
  <2>1. Ready(s) = [s EXCEPT !.link = "woken"]
    BY <1>1 DEF Ready
  <2>2. s \in Sender
    BY DEF WellFormed, Bounded
  <2>3. /\ Ready(s) \in Sender /\ Ready(s).link = "woken" /\ Ready(s).frame = s.frame
        /\ Ready(s).outbound = s.outbound /\ Ready(s).todo = s.todo /\ Ready(s).call = s.call
        /\ Ready(s).drainAgain = s.drainAgain
    BY <2>1, <2>2 DEF Sender
  <2>4. Open(s) /\ Open(Ready(s))
    BY <1>1, <2>3 DEF Open
  <2>5. WellFormed(Ready(s))
    BY <1>1, <2>3, <2>4 DEF WellFormed, Bounded
  <2> QED  BY <2>3, <2>4, <2>5 DEF WaitingOf
<1>2. CASE s.link # "awaiting"
  BY <1>2 DEF Ready
<1> QED  BY <1>1, <1>2

LEMMA ResumeKeeps ==
  ASSUME NEW s, WellFormed(s)
  PROVE  /\ WellFormed(Resume(s)) /\ Resume(s).frame = s.frame
         /\ WaitingOf(Resume(s)) = WaitingOf(s) /\ Open(Resume(s)) = Open(s)
         /\ Resume(s).link # "woken"
<1>1. CASE s.link = "woken"
  <2>1. Bounded(s) /\ Open(s)
    BY <1>1 DEF WellFormed, Open
  <2>2. Resume(s) = Pump(s)
    BY <1>1 DEF Resume
  <2>3. Open(Pump(s)) /\ Pump(s).link # "woken"
    BY <2>1, PumpKeeps DEF Open
  <2> QED  BY <2>1, <2>2, <2>3, PumpKeeps DEF Open
<1>2. CASE s.link # "woken"
  BY <1>2 DEF Resume
<1> QED  BY <1>1, <1>2

(* A drain that ends does so with no call under way.                        *)
LEMMA SettleKeeps ==
  ASSUME NEW s \in Sender, WellFormed([s EXCEPT !.call = "none"])
  PROVE  /\ WellFormed(Settle(s)) /\ Settle(s).frame = s.frame
         /\ WaitingOf(Settle(s)) = s.outbound \o s.todo /\ Open(Settle(s)) = Open(s)
         /\ Settle(s).call = "none" /\ Settle(s).outbound = s.outbound
         /\ s.owesReady /\ Room(s) > 0 => Settle(s).link # "awaiting"
         /\ Settle(s).link = "awaiting" => s.link = "awaiting"
<1> DEFINE done == [s EXCEPT !.call = "none", !.drainAgain = FALSE]
           told == [done EXCEPT !.owesReady = FALSE]
<1>1. /\ done \in Sender /\ done.frame = s.frame /\ done.link = s.link /\ done.todo = s.todo
      /\ done.outbound = s.outbound /\ done.call = "none" /\ done.owesReady = s.owesReady
  BY DEF Sender
<1>2. /\ told \in Sender /\ told.frame = s.frame /\ told.link = s.link /\ told.todo = s.todo
      /\ told.outbound = s.outbound /\ told.call = "none"
  BY DEF Sender
<1>3. /\ Len(s.outbound) <= MAX_PENDING_WRITES
      /\ s.link \in {"idle", "closed", "stalled"} => s.todo = <<>>
      /\ s.link \in {"awaiting", "woken"} => s.todo # <<>>
      /\ s.link = "awaiting" => s.owesReady
  BY DEF WellFormed, Bounded, Sender
<1> HIDE DEF done, told
<1>4. CASE s.owesReady /\ Open(s) /\ Room(s) > 0
  <2>1. Settle(s) = Ready(told)
    BY <1>4 DEF Settle, done, told
  <2>2. CASE s.link = "awaiting"
    <3>1. Settle(s) = [told EXCEPT !.link = "woken"]
      BY <2>1, <2>2, <1>2 DEF Ready
    <3>2. /\ Settle(s) \in Sender /\ Settle(s).frame = s.frame /\ Settle(s).link = "woken"
          /\ Settle(s).todo = s.todo /\ Settle(s).outbound = s.outbound /\ Settle(s).call = "none"
      BY <3>1, <1>2 DEF Sender
    <3>3. WellFormed(Settle(s))
      BY <2>2, <3>2, <1>3 DEF WellFormed, Bounded
    <3> QED  BY <1>4, <3>2, <3>3 DEF WaitingOf, Open
  <2>3. CASE s.link # "awaiting"
    <3>1. Settle(s) = told
      BY <2>1, <2>3, <1>2 DEF Ready
    <3>2. WellFormed(told)
      BY <2>3, <1>2, <1>3 DEF WellFormed, Bounded
    <3> QED  BY <2>3, <3>1, <3>2, <1>2 DEF WaitingOf, Open
  <2> QED  BY <2>2, <2>3
<1>5. CASE ~(s.owesReady /\ Open(s) /\ Room(s) > 0)
  <2>1. Settle(s) = done
    BY <1>5 DEF Settle, done
  <2>2. WellFormed(done)
    BY <1>1, <1>3 DEF WellFormed, Bounded
  <2>3. s.owesReady /\ Room(s) > 0 => s.link # "awaiting"
    BY <1>5 DEF Open
  <2> QED  BY <2>1, <2>2, <2>3, <1>1 DEF WaitingOf, Open
<1> QED  BY <1>4, <1>5

LEMMA DrainKeeps ==
  ASSUME NEW s, WellFormed(s)
  PROVE  /\ WellFormed(Drain(s)) /\ Drain(s).frame = s.frame
         /\ WaitingOf(Drain(s)) = WaitingOf(s) /\ Open(Drain(s)) = Open(s)
         /\ Drain(s).outbound = s.outbound
         /\ s.call # "none" => Drain(s).call = s.call /\ Drain(s).drainAgain
         /\ s.call = "none" /\ s.outbound # <<>> => Drain(s).call = "asked"
         /\ s.call = "none" /\ s.outbound = <<>> => Drain(s).call = "none"
         /\ Drain(s).link = "awaiting" => s.link = "awaiting"
<1> s \in Sender
  BY DEF WellFormed, Bounded
<1>1. CASE s.call # "none"
  <2>1. Drain(s) = [s EXCEPT !.drainAgain = TRUE]
    BY <1>1 DEF Drain
  <2>2. /\ Drain(s) \in Sender /\ Drain(s).frame = s.frame /\ Drain(s).link = s.link
        /\ Drain(s).todo = s.todo /\ Drain(s).outbound = s.outbound /\ Drain(s).call = s.call
        /\ Drain(s).drainAgain /\ Drain(s).owesReady = s.owesReady
    BY <2>1 DEF Sender
  <2>3. WellFormed(Drain(s))
    BY <2>2 DEF WellFormed, Bounded, Open
  <2> QED  BY <1>1, <2>2, <2>3 DEF WaitingOf, Open
<1>2. CASE s.call = "none" /\ s.outbound # <<>>
  <2>1. Drain(s) = [s EXCEPT !.call = "asked", !.drainAgain = FALSE]
    BY <1>2 DEF Drain
  <2>2. /\ Drain(s) \in Sender /\ Drain(s).frame = s.frame /\ Drain(s).link = s.link
        /\ Drain(s).todo = s.todo /\ Drain(s).outbound = s.outbound /\ Drain(s).call = "asked"
        /\ Drain(s).owesReady = s.owesReady
    BY <2>1 DEF Sender
  <2>3. WellFormed(Drain(s))
    BY <2>2 DEF WellFormed, Bounded, Open
  <2> QED  BY <1>2, <2>2, <2>3 DEF WaitingOf, Open
<1>3. CASE s.call = "none" /\ s.outbound = <<>>
  <2>1. Drain(s) = Settle(s)
    BY <1>3 DEF Drain
  <2>2. [s EXCEPT !.call = "none"] = s
    BY <1>3 DEF Sender
  <2>3. WaitingOf(s) = s.outbound \o s.todo
    BY <1>3 DEF WaitingOf
  <2> QED  BY <1>3, <2>1, <2>2, <2>3, SettleKeeps
<1> QED  BY <1>1, <1>2, <1>3

(* The answer of the bridge takes an accepted packet off the queue, which   *)
(* no longer waited; a refused one stays.                                   *)
LEMMA AnsweredKeeps ==
  ASSUME NEW s, WellFormed(s), s.call \in {"accepted", "refused"}
  PROVE  /\ WellFormed(Answered(s)) /\ Answered(s).frame = s.frame
         /\ WaitingOf(Answered(s)) = WaitingOf(s) /\ Open(Answered(s)) = Open(s)
         /\ \/ Answered(s).call = "asked"
            \/ /\ Answered(s).call = "none"
               /\ Open(s) /\ s.call = "accepted" =>
                    Answered(s).outbound = <<>> /\ Answered(s).link # "awaiting"
               /\ Open(s) /\ s.call = "refused" =>
                    /\ ~s.drainAgain /\ Answered(s).outbound = s.outbound
                    /\ Answered(s).link = "awaiting" => s.link = "awaiting"
<1> DEFINE left == IF s.call = "accepted" THEN Rest(s.outbound) ELSE s.outbound
           rest == [s EXCEPT !.outbound = left]
           accepted == s.call = "accepted"
           more == IF accepted THEN left # <<>> ELSE s.drainAgain
           again == [rest EXCEPT !.call = "asked", !.drainAgain = @ /\ accepted]
           still == [rest EXCEPT !.call = "none"]
<1>1. s \in Sender /\ s.outbound \in Seq(Packet) /\ Len(s.outbound) <= MAX_PENDING_WRITES
  BY DEF WellFormed, Bounded, Sender
<1>2. left \in Seq(Packet) /\ Len(left) <= Len(s.outbound)
  BY <1>1, RestIsASeq, LenProperties
<1>3. Len(left) <= MAX_PENDING_WRITES
  BY <1>1, <1>2, BleAssumption, LenProperties
<1>4. Answered(s) = IF Open(s) /\ more THEN again ELSE Settle(rest)
  BY <1>1 DEF Answered, AfterAnswer, Sender
<1>5. WaitingOf(s) = left \o s.todo
  BY DEF WaitingOf
<1> HIDE DEF left
<1>6. /\ rest \in Sender /\ rest.frame = s.frame /\ rest.link = s.link /\ rest.todo = s.todo
      /\ rest.outbound = left /\ rest.owesReady = s.owesReady /\ rest.drainAgain = s.drainAgain
  BY <1>1, <1>2 DEF Sender
<1>7. /\ again \in Sender /\ again.frame = s.frame /\ again.link = s.link /\ again.todo = s.todo
      /\ again.outbound = left /\ again.owesReady = s.owesReady /\ again.call = "asked"
  BY <1>1, <1>2 DEF Sender
<1>8. /\ still \in Sender /\ still.frame = s.frame /\ still.link = s.link /\ still.todo = s.todo
      /\ still.outbound = left /\ still.owesReady = s.owesReady /\ still.call = "none"
  BY <1>1, <1>2 DEF Sender
<1>9. WellFormed(again) /\ WellFormed(still)
  BY <1>3, <1>7, <1>8 DEF WellFormed, Bounded, Open
<1> HIDE DEF rest, again
<1>10. CASE Open(s) /\ more
  <2>1. Answered(s) = again
    BY <1>10, <1>4
  <2> QED  BY <2>1, <1>5, <1>7, <1>9 DEF WaitingOf, Open
<1>11. CASE ~(Open(s) /\ more)
  <2>1. Answered(s) = Settle(rest)
    BY <1>11, <1>4
  <2> HIDE DEF still
  <2>2. WellFormed([rest EXCEPT !.call = "none"])
    BY <1>9 DEF still
  <2>3. /\ WellFormed(Settle(rest)) /\ Settle(rest).frame = s.frame
        /\ WaitingOf(Settle(rest)) = left \o s.todo /\ Open(Settle(rest)) = Open(rest)
        /\ Settle(rest).call = "none" /\ Settle(rest).outbound = left
        /\ s.owesReady /\ Room(rest) > 0 => Settle(rest).link # "awaiting"
        /\ Settle(rest).link = "awaiting" => s.link = "awaiting"
    BY <1>6, <2>2, SettleKeeps
  <2>4. Open(rest) = Open(s)
    BY <1>6 DEF Open
  <2>5. ASSUME Open(s), s.call = "accepted"
        PROVE  left = <<>> /\ Settle(rest).link # "awaiting"
    <3>1. left = <<>>
      BY <2>5, <1>11
    <3>2. Room(rest) > 0
      <4>1. Len(rest.outbound) = 0
        BY <3>1, <1>6
      <4> QED  BY <4>1, BleAssumption DEF Room
    <3>3. s.link = "awaiting" => s.owesReady
      BY DEF WellFormed
    <3> QED  BY <3>1, <3>2, <3>3, <2>3
  <2>6. ASSUME Open(s), s.call = "refused"
        PROVE  ~s.drainAgain /\ left = s.outbound
    BY <2>6, <1>11 DEF left
  <2> QED  BY <2>1, <2>3, <2>4, <2>5, <2>6, <1>5
<1> QED  BY <1>10, <1>11

----------------------------------------------------------------------------
(* Packets and the frames they are cut from.                                *)

LEMMA SizeOfAFrame ==
  ASSUME NEW f \in Frame
  PROVE  f \in Nat \ {0} /\ f <= Len(Size) /\ Size[f] \in Nat \ {0}
BY FramingAssumption, ElementOfSeq, LenProperties DEF Frame

LEMMA SplitIsASeq ==
  ASSUME NEW f \in Frame
  PROVE  /\ Split(f) \in Seq(Packet) /\ Len(Split(f)) = Size[f]
         /\ \A i \in 1 .. Size[f] : Split(f)[i].body = <<f, i>>
<1>1. Size[f] \in Nat
  BY SizeOfAFrame
<1>2. \A i \in 1 .. Size[f] : Split(f)[i] \in Packet
  BY DEF Packet
<1>3. DOMAIN Split(f) = 1 .. Size[f] /\ Split(f) = [i \in 1 .. Size[f] |-> Split(f)[i]]
  BY DEF Split
<1>4. Split(f) \in [1 .. Size[f] -> Packet]
  BY <1>2, <1>3
<1>5. Split(f) \in Seq(Packet)
  BY <1>1, <1>4, SeqDef
<1>6. Len(Split(f)) = Size[f]
  BY <1>1, <1>3, <1>5, LenProperties
<1>7. \A i \in 1 .. Size[f] : Split(f)[i].body = <<f, i>>
  BY DEF Split
<1> QED  BY <1>5, <1>6, <1>7

(* What a packet says of itself.                                            *)
LEMMA PacketFields ==
  ASSUME NEW p \in Packet
  PROVE  \E f \in Frame : \E i \in 1 .. Size[f] :
           /\ p.body = <<f, i>> /\ p.body[1] = f /\ p.body[2] = i
           /\ p.seq = i - 1 /\ (p.final <=> i = Size[f])
           /\ p.frameId = (f - 1) % FRAME_IDS
           /\ p = Split(f)[i]
<1>1. PICK f \in Frame : p \in {Split(f)[i] : i \in 1 .. Size[f]}
  BY DEF Packet
<1>2. PICK i \in 1 .. Size[f] : p = Split(f)[i]
  BY <1>1
<1>3. p = [frameId |-> (f - 1) % FRAME_IDS, seq |-> i - 1, final |-> i = Size[f], body |-> <<f, i>>]
  BY <1>2 DEF Split
<1>4. /\ p.body = <<f, i>> /\ p.seq = i - 1 /\ p.final = (i = Size[f])
      /\ p.frameId = (f - 1) % FRAME_IDS
  BY <1>3
<1>5. p.body[1] = f /\ p.body[2] = i
  BY <1>4
<1> QED  BY <1>2, <1>4, <1>5

LEMMA Times ==
  ASSUME NEW n \in Nat \ {0}, NEW x \in Int, NEW y \in Int, x <= y
  PROVE  n * x <= n * y
OBVIOUS

LEMMA Division ==
  ASSUME NEW n \in Nat \ {0}, NEW a \in Nat
  PROVE  a = n * (a \div n) + (a % n) /\ a \div n \in Int /\ a % n \in 0 .. n - 1
OBVIOUS

LEMMA Round ==
  ASSUME NEW n \in Nat \ {0}, NEW a \in Nat, NEW b \in Nat, b < a, a % n = b % n
  PROVE  a - b >= n
<1> DEFINE x == a \div n
           y == b \div n
           r == a % n
<1>1. x \in Int /\ y \in Int /\ a = n * x + r /\ b = n * y + r /\ r \in 0 .. n - 1
  BY Division
<1> HIDE DEF x, y, r
<1>2. n * x \in Int /\ n * y \in Int /\ n * x - n * y = a - b
  BY <1>1
<1>3. CASE x <= y
  BY <1>1, <1>2, <1>3, Times
<1>4. CASE x >= y + 1
  <2>1. n * (y + 1) <= n * x
    BY <1>1, <1>4, Times
  <2>2. n * (y + 1) = n * y + n
    BY <1>1
  <2> QED  BY <2>1, <2>2, <1>2
<1> QED  BY <1>1, <1>3, <1>4

(* Two frames that bear the same id are a round of the counter apart.       *)
LEMMA IdsComeRound ==
  ASSUME NEW f \in Frame, NEW g \in Frame, g < f,
         (f - 1) % FRAME_IDS = (g - 1) % FRAME_IDS
  PROVE  f - g >= FRAME_IDS
<1>1. f \in Nat \ {0} /\ g \in Nat \ {0}
  BY SizeOfAFrame
<1>2. FRAME_IDS \in Nat \ {0}
  BY FramingAssumption
<1>3. f - 1 \in Nat /\ g - 1 \in Nat /\ g - 1 < f - 1
  BY <1>1
<1>4. (f - 1) - (g - 1) >= FRAME_IDS
  BY <1>2, <1>3, Round
<1> QED  BY <1>1, <1>2, <1>4

LEMMA FrameIdInRange ==
  ASSUME NEW f \in Frame
  PROVE  (f - 1) % FRAME_IDS \in 0 .. FRAME_IDS - 1
<1>1. f - 1 \in Nat /\ FRAME_IDS \in Nat \ {0}
  BY SizeOfAFrame, FramingAssumption
<1> QED  BY <1>1, Division

----------------------------------------------------------------------------
(* The stream of packets: what the native side took and what waits behind.  *)

(* How far apart two packets are that follow one another in the stream: by  *)
(* the parts between them, all of the frames in between included.           *)
Apart(a, b, steps) ==
  /\ a.body[1] <= b.body[1]
  /\ a.body[1] = b.body[1] => steps = b.body[2] - a.body[2]
  /\ a.body[1] < b.body[1] =>
       steps >= (b.body[1] - a.body[1] - 1) + b.body[2] + (Size[a.body[1]] - a.body[2])

Spread(packets) ==
  \A b \in 1 .. Len(packets) : \A a \in 1 .. b - 1 : Apart(packets[a], packets[b], b - a)

Within(packets, f) == \A i \in 1 .. Len(packets) : packets[i].body[1] <= f

Stream(packets, f) ==
  packets \in Seq(Packet) /\ InOrder(packets) /\ Spread(packets) /\ Within(packets, f)

(* The stream ends with the last packet of the frame last sent.             *)
Ends(packets, f) ==
  IF f = 0 THEN packets = <<>> ELSE packets # <<>> /\ packets[Len(packets)].body = <<f, Size[f]>>

LEMMA PrefixOfStream ==
  ASSUME NEW p \in Seq(Packet), NEW q \in Seq(Packet), NEW f, Stream(p \o q, f)
  PROVE  Stream(p, f)
<1>1. /\ Len(p) \in Nat /\ Len(q) \in Nat /\ Len(p \o q) = Len(p) + Len(q)
      /\ \A i \in 1 .. Len(p) + Len(q) : (p \o q)[i] = IF i <= Len(p) THEN p[i] ELSE q[i - Len(p)]
  BY ConcatProperties, LenProperties
<1>2. \A i \in 1 .. Len(p) : i \in 1 .. Len(p \o q) /\ (p \o q)[i] = p[i]
  BY <1>1
<1>3. InOrder(p)
  <2>1. ASSUME p # <<>>  PROVE  p[1].body = <<1, 1>>
    <3>1. 1 \in 1 .. Len(p) /\ p \o q # <<>>
      BY <2>1, <1>1, EmptySeq, ConcatEqualIffEmpty
    <3> QED  BY <3>1, <1>2 DEF Stream, InOrder
  <2>2. ASSUME NEW i \in 2 .. Len(p)  PROVE  Follows(p[i - 1], p[i])
    <3>1. i \in 2 .. Len(p \o q) /\ i \in 1 .. Len(p) /\ i - 1 \in 1 .. Len(p)
      BY <1>1
    <3> QED  BY <3>1, <1>2 DEF Stream, InOrder
  <2> QED  BY <2>1, <2>2 DEF InOrder
<1>4. Spread(p)
  <2> SUFFICES ASSUME NEW b \in 1 .. Len(p), NEW a \in 1 .. b - 1
               PROVE  Apart(p[a], p[b], b - a)
    BY DEF Spread
  <2>1. a \in 1 .. Len(p) /\ b \in 1 .. Len(p \o q)
    BY <1>1
  <2> QED  BY <2>1, <1>2 DEF Stream, Spread
<1>5. Within(p, f)
  BY <1>2 DEF Stream, Within
<1> QED  BY <1>3, <1>4, <1>5 DEF Stream

(* The packets of the next frame go on where the stream ended.              *)
LEMMA StreamGrows ==
  ASSUME NEW p, NEW f \in Nat, f + 1 \in Frame, Stream(p, f), Ends(p, f)
  PROVE  Stream(p \o Split(f + 1), f + 1) /\ Ends(p \o Split(f + 1), f + 1)
<1> DEFINE n == Len(p)
           m == Size[f + 1]
           q == Split(f + 1)
           r == p \o q
<1>1. p \in Seq(Packet) /\ n \in Nat /\ m \in Nat \ {0} /\ q \in Seq(Packet) /\ Len(q) = m
  BY SplitIsASeq, SizeOfAFrame, LenProperties DEF Stream
<1>2. /\ r \in Seq(Packet) /\ Len(r) = n + m
      /\ \A i \in 1 .. n + m : r[i] = IF i <= n THEN p[i] ELSE q[i - n]
  <2>1. /\ p \o q \in Seq(Packet) /\ Len(p \o q) = Len(p) + Len(q)
        /\ \A i \in 1 .. Len(p) + Len(q) : (p \o q)[i] = IF i <= Len(p) THEN p[i] ELSE q[i - Len(p)]
    BY <1>1, ConcatProperties
  <2> QED  BY <2>1, <1>1
<1>3. \A i \in 1 .. m : /\ q[i].body = <<f + 1, i>> /\ q[i].body[1] = f + 1 /\ q[i].body[2] = i
                        /\ (q[i].final <=> i = m)
  BY DEF Split
<1> HIDE DEF n, m, q, r
<1>4. ASSUME n > 0
      PROVE  /\ f \in Frame /\ Size[f] \in Nat \ {0} /\ n \in 1 .. n
             /\ p[n].body = <<f, Size[f]>> /\ p[n].body[1] = f /\ p[n].body[2] = Size[f]
             /\ p[n].final
  <2>1. p # <<>> /\ n \in 1 .. n
    BY <1>1, <1>4, EmptySeq DEF n
  <2>2. f # 0 /\ p[n].body = <<f, Size[f]>>
    BY <2>1 DEF Ends, n
  <2>3. f \in Frame
    BY <2>2 DEF Frame
  <2>4. p[n] \in Packet
    BY <1>1, <2>1, ElementOfSeq DEF n
  <2>5. p[n].body[1] = f /\ p[n].body[2] = Size[f]
    BY <2>2
  <2>6. p[n].final
    BY <2>4, <2>5, PacketFields
  <2> QED  BY <2>1, <2>2, <2>3, <2>5, <2>6, SizeOfAFrame
<1>5. n = 0 => f = 0
  <2>1. n = 0 => p = <<>>
    BY <1>1, EmptySeq DEF n
  <2> QED  BY <2>1 DEF Ends
<1>6. \A a \in 1 .. n : /\ p[a] \in Packet /\ p[a].body[1] \in Frame /\ p[a].body[1] <= f
                        /\ p[a].body[2] \in 1 .. Size[p[a].body[1]]
                        /\ Size[p[a].body[1]] \in Nat \ {0}
  <2> TAKE a \in 1 .. n
  <2>1. p[a] \in Packet
    BY <1>1, ElementOfSeq DEF n
  <2>2. p[a].body[1] <= f
    BY DEF Stream, Within, n
  <2> QED  BY <2>1, <2>2, PacketFields, SizeOfAFrame
<1>7. InOrder(r)
  <2>1. r[1].body = <<1, 1>>
    <3>1. CASE n = 0
      <4>1. r[1] = q[1] /\ 1 \in 1 .. m
        BY <3>1, <1>1, <1>2
      <4> QED  BY <4>1, <3>1, <1>3, <1>5
    <3>2. CASE n > 0
      <4>1. r[1] = p[1] /\ p # <<>>
        BY <3>2, <1>1, <1>2, EmptySeq DEF n
      <4> QED  BY <4>1 DEF Stream, InOrder
    <3> QED  BY <3>1, <3>2, <1>1
  <2>2. ASSUME NEW i \in 2 .. n + m  PROVE  Follows(r[i - 1], r[i])
    <3>1. CASE i <= n
      <4>1. r[i] = p[i] /\ r[i - 1] = p[i - 1] /\ i \in 2 .. n
        BY <3>1, <1>1, <1>2
      <4> QED  BY <4>1 DEF Stream, InOrder, n
    <3>2. CASE i = n + 1
      <4>1. n > 0 /\ r[i] = q[1] /\ r[i - 1] = p[n] /\ 1 \in 1 .. m
        BY <3>2, <1>1, <1>2
      <4> QED  BY <4>1, <1>3, <1>4 DEF Follows
    <3>3. CASE i > n + 1
      <4>1. /\ r[i] = q[i - n] /\ r[i - 1] = q[i - 1 - n]
            /\ i - n \in 1 .. m /\ i - 1 - n \in 1 .. m /\ i - n = (i - 1 - n) + 1
            /\ i - 1 - n # m
        BY <3>3, <1>1, <1>2
      <4> QED  BY <4>1, <1>3 DEF Follows
    <3> QED  BY <3>1, <3>2, <3>3, <1>1
  <2> QED  BY <2>1, <2>2, <1>2 DEF InOrder
<1>8. Spread(r)
  <2> SUFFICES ASSUME NEW b \in 1 .. n + m, NEW a \in 1 .. b - 1
               PROVE  Apart(r[a], r[b], b - a)
    BY <1>2 DEF Spread
  <2>1. CASE b <= n
    <3>1. r[a] = p[a] /\ r[b] = p[b] /\ b \in 1 .. n
      BY <2>1, <1>1, <1>2
    <3> QED  BY <3>1 DEF Stream, Spread, n
  <2>2. CASE a > n
    <3>1. /\ r[a] = q[a - n] /\ r[b] = q[b - n] /\ a - n \in 1 .. m /\ b - n \in 1 .. m
          /\ b - a = (b - n) - (a - n)
      BY <2>2, <1>1, <1>2
    <3> QED  BY <3>1, <1>3 DEF Apart
  <2>3. CASE a <= n /\ b > n
    <3>1. /\ r[a] = p[a] /\ r[b] = q[b - n] /\ b - n \in 1 .. m /\ a \in 1 .. n
          /\ b - a = (n - a) + (b - n) /\ n > 0
      BY <2>3, <1>1, <1>2
    <3> DEFINE g == p[a].body[1]
               j == p[a].body[2]
               k == b - n
    <3>2. /\ g \in Frame /\ g \in Nat /\ g <= f /\ j \in Nat /\ j <= Size[g] /\ Size[g] \in Nat \ {0}
          /\ k \in Nat
      BY <3>1, <1>1, <1>6, SizeOfAFrame
    <3>3. r[b].body[1] = f + 1 /\ r[b].body[2] = k
      BY <3>1, <1>3
    <3>4. n - a >= (f - g) + (Size[g] - j)
      <4>1. CASE a = n
        BY <4>1, <1>4, <3>1, <3>2
      <4>2. CASE a < n
        <5>1. Apart(p[a], p[n], n - a)
          BY <4>2, <3>1, <1>4 DEF Stream, Spread, n
        <5>2. p[n].body[1] = f /\ p[n].body[2] = Size[f] /\ Size[f] \in Nat \ {0}
          BY <1>4, <3>1
        <5>3. g = f => n - a = Size[f] - j
          BY <5>1, <5>2 DEF Apart
        <5>4. g < f => n - a >= (f - g - 1) + Size[f] + (Size[g] - j)
          BY <5>1, <5>2 DEF Apart
        <5> HIDE DEF g, j
        <5>5. n - a \in Int
          BY <1>1, <3>1
        <5> QED  BY <5>2, <5>3, <5>4, <5>5, <3>2
      <4> QED  BY <4>1, <4>2, <3>1, <1>1
    <3> HIDE DEF g, j, k
    <3>5. b - a >= (f + 1 - g - 1) + k + (Size[g] - j) /\ g < f + 1 /\ g <= f + 1 /\ g # f + 1
      <4>1. n - a \in Int /\ b - a = (n - a) + k
        BY <3>1, <1>1 DEF k
      <4> QED  BY <4>1, <3>2, <3>4
    <3>6. r[a].body[1] = g /\ r[a].body[2] = j
      BY <3>1 DEF g, j
    <3>7. r[a].body[1] <= r[b].body[1] /\ r[a].body[1] # r[b].body[1]
      BY <3>3, <3>5, <3>6
    <3>8. b - a >= (r[b].body[1] - r[a].body[1] - 1) + r[b].body[2]
                     + (Size[r[a].body[1]] - r[a].body[2])
      <4>1. f + 1 - g - 1 = (f + 1) - g - 1
        BY <3>2
      <4> QED  BY <4>1, <3>3, <3>5, <3>6
    <3> QED  BY <3>7, <3>8 DEF Apart
  <2> QED  BY <2>1, <2>2, <2>3, <1>1
<1>9. Within(r, f + 1)
  <2> SUFFICES ASSUME NEW i \in 1 .. n + m  PROVE  r[i].body[1] <= f + 1
    BY <1>2 DEF Within
  <2>1. CASE i <= n
    <3>1. r[i] = p[i] /\ i \in 1 .. n
      BY <2>1, <1>1, <1>2
    <3>2. p[i].body[1] <= f /\ p[i].body[1] \in Nat
      BY <3>1, <1>6, SizeOfAFrame
    <3> QED  BY <3>1, <3>2
  <2>2. CASE i > n
    <3>1. r[i] = q[i - n] /\ i - n \in 1 .. m
      BY <2>2, <1>1, <1>2
    <3> QED  BY <3>1, <1>3
  <2> QED  BY <2>1, <2>2, <1>1
<1>10. Ends(r, f + 1)
  <2>1. r[n + m] = q[m] /\ m \in 1 .. m /\ r # <<>> /\ f + 1 # 0
    BY <1>1, <1>2, EmptySeq
  <2> QED  BY <2>1, <1>2, <1>3 DEF Ends, m
<1> QED  BY <1>2, <1>7, <1>8, <1>9, <1>10 DEF Stream, r, q

----------------------------------------------------------------------------
(* The inductive invariants.                                                *)

(* The radio connection goes before the link does.                          *)
Typed ==
  /\ WellFormed(js) /\ js.link # "woken"
  /\ up => Open(js)
  /\ {up, writeInFlight, readyOwed, freeing} \subseteq BOOLEAN
  /\ busy \in 0 .. MaxBusy /\ hints \in 0 .. busy /\ wakes \in Nat
  /\ faults \in 0 .. MaxFaults
  /\ air \in Seq(Packet) /\ taken \in Seq(Packet)
  /\ reassembler.frameId \in {NoFrame} \cup 0 .. FRAME_IDS - 1

(* What was taken and what waits are one stream that ends where send() is;  *)
(* a link that closed leaves what was taken of it.                          *)
Streamed ==
  IF Open(js)
  THEN Stream(taken \o WaitingOf(js), js.frame) /\ Ends(taken \o WaitingOf(js), js.frame)
  ELSE Stream(taken, js.frame)

(* Packets that have left the air, whether they arrived or were lost.       *)
Arrived == Len(taken) - Len(air)

(* The air holds what was taken last.                                       *)
Airborne ==
  IF up THEN Len(air) <= Len(taken) /\ \A i \in 1 .. Len(air) : air[i] = taken[Arrived + i]
  ELSE air = <<>>

(* What the reassembler has after the packet p of a frame.                  *)
PartsUpTo(p) ==
  [frameId |-> p.frameId, parts |-> [i \in 1 .. p.body[2] |-> <<p.body[1], i>>]]

(* The partial frame is the beginning of a frame, with no more packets gone *)
(* by since than were lost.                                                 *)
Partial ==
  \/ reassembler = EmptyReassembler
  \/ \E m \in 1 .. Arrived :
       ~taken[m].final /\ reassembler = PartsUpTo(taken[m]) /\ Arrived - m <= faults

(* The frame handed up last was finished by a packet that has arrived.      *)
Handed ==
  \/ received = <<>>
  \/ \E m \in 1 .. Arrived :
       taken[m].final /\ received[Len(received)] = Body(taken[m].body[1])

Whole ==
  /\ received \in Seq({Body(f) : f \in Frame})
  /\ Airborne
  /\ up => Partial /\ Handed

(* A drain is at work, or will look at the queue again when the bridge has  *)
(* answered.                                                                *)
Moving(s) ==
  \/ s.call \in {"asked", "noting", "accepted"}
  \/ s.call = "refused" /\ s.drainAgain

(* A packet that waits is attended to: by a drain, or by something that is  *)
(* to wake one.                                                             *)
Attended(s, later) ==
  /\ s.outbound # <<>> => Moving(s) \/ later
  /\ s.link = "awaiting" => s.outbound # <<>>

WakeUpLater == wakes > 0 \/ hints > 0 \/ (readyOwed /\ writeInFlight)

Wakeful ==
  /\ ~freeing /\ js.call # "noting"
  /\ js.call = "rejected" => ~up
  /\ up => Attended(js, WakeUpLater)

----------------------------------------------------------------------------
(* Every task keeps the sender well formed.  A task that leaves the link    *)
(* open either leaves the stream alone or, in SendFrame, adds a frame.      *)

SenderKept == js.link # "woken" /\ WellFormed(js)

LEMMA SendFrameKeeps ==
  ASSUME SenderKept, SendFrame
  PROVE  /\ SenderKept' /\ Open(js)' /\ js'.frame = js.frame + 1 /\ js.frame + 1 \in Frame
         /\ WaitingOf(js)' = WaitingOf(js) \o Split(js.frame + 1)
<1> DEFINE s == [js EXCEPT !.frame = js.frame + 1, !.todo = Split(js.frame + 1)]
<1>1. /\ js \in Sender /\ js.link = "idle" /\ js.todo = <<>> /\ js.frame \in 0 .. Len(Size)
      /\ js.frame < Len(Size) /\ Len(Size) \in Nat
  BY FramingAssumption, LenProperties DEF SenderKept, WellFormed, Bounded, SendFrame, Sender
<1>2. js.frame + 1 \in Frame /\ js.frame + 1 \in 0 .. Len(Size)
  BY <1>1 DEF Frame
<1>3. Split(js.frame + 1) \in Seq(Packet)
  BY <1>2, SplitIsASeq
<1>4. js' = Pump(s)
  BY DEF SendFrame
<1>5. /\ s \in Sender /\ s.frame = js.frame + 1 /\ s.link = "idle"
      /\ s.todo = Split(js.frame + 1) /\ s.outbound = js.outbound /\ s.call = js.call
  BY <1>1, <1>2, <1>3 DEF Sender
<1> HIDE DEF s
<1>6. Bounded(s) /\ Open(s)
  BY <1>1, <1>5 DEF SenderKept, WellFormed, Bounded, Open
<1>7. /\ WellFormed(Pump(s)) /\ Pump(s).link \in {"idle", "awaiting"}
      /\ Pump(s).frame = s.frame /\ WaitingOf(Pump(s)) = WaitingOf(s)
  BY <1>6, PumpKeeps
<1>8. WaitingOf(s) = WaitingOf(js) \o Split(js.frame + 1)
  <2> DEFINE front == IF js.call = "accepted" THEN Rest(js.outbound) ELSE js.outbound
  <2>1. front \in Seq(Packet)
    BY <1>1, RestIsASeq DEF Sender
  <2>2. WaitingOf(s) = front \o Split(js.frame + 1) /\ WaitingOf(js) = front \o <<>>
    BY <1>1, <1>5 DEF WaitingOf
  <2> HIDE DEF front
  <2>3. front \o <<>> = front
    BY <2>1, ConcatEmptySeq
  <2> QED  BY <2>2, <2>3
<1>9. WellFormed(js') /\ js'.link # "woken" /\ Open(js') /\ js'.frame = js.frame + 1
  BY <1>4, <1>5, <1>7 DEF Open
<1>10. WaitingOf(js') = WaitingOf(js) \o Split(js.frame + 1)
  BY <1>4, <1>7, <1>8
<1> QED  BY <1>2, <1>9, <1>10 DEF SenderKept, WellFormed, WaitingOf, Open, Bounded

LEMMA WriteAnsweredKeeps ==
  ASSUME SenderKept, WriteAnswered
  PROVE  /\ SenderKept' /\ Open(js)' = Open(js) /\ js'.frame = js.frame
         /\ WaitingOf(js)' = WaitingOf(js)
<1>1. WellFormed(js) /\ js.call \in {"accepted", "refused"} /\ js' = Resume(Answered(js))
  BY DEF SenderKept, WriteAnswered
<1>2. /\ WellFormed(Answered(js)) /\ Answered(js).frame = js.frame
      /\ WaitingOf(Answered(js)) = WaitingOf(js) /\ Open(Answered(js)) = Open(js)
  BY <1>1, AnsweredKeeps
<1>3. /\ WellFormed(js') /\ js'.frame = js.frame /\ js'.link # "woken"
      /\ WaitingOf(js') = WaitingOf(js) /\ Open(js') = Open(js)
  BY <1>1, <1>2, ResumeKeeps
<1> QED  BY <1>3 DEF SenderKept, WellFormed, WaitingOf, Open, Bounded

LEMMA ReadyToWriteKeeps ==
  ASSUME SenderKept, ReadyToWrite
  PROVE  /\ SenderKept' /\ Open(js)' = Open(js) /\ js'.frame = js.frame
         /\ WaitingOf(js)' = WaitingOf(js)
<1>1. CASE Open(js)
  <2>1. WellFormed(js) /\ js' = Resume(Ready(Drain(js)))
    BY <1>1 DEF SenderKept, ReadyToWrite
  <2>2. /\ WellFormed(Drain(js)) /\ Drain(js).frame = js.frame
        /\ WaitingOf(Drain(js)) = WaitingOf(js) /\ Open(Drain(js)) = Open(js)
    BY <2>1, DrainKeeps
  <2>3. /\ WellFormed(Ready(Drain(js))) /\ Ready(Drain(js)).frame = js.frame
        /\ WaitingOf(Ready(Drain(js))) = WaitingOf(js) /\ Open(Ready(Drain(js))) = Open(js)
    BY <2>2, ReadyKeeps
  <2>4. /\ WellFormed(js') /\ js'.frame = js.frame /\ js'.link # "woken"
        /\ WaitingOf(js') = WaitingOf(js) /\ Open(js') = Open(js)
    BY <2>1, <2>3, ResumeKeeps
  <2> QED  BY <2>4 DEF SenderKept, WellFormed, WaitingOf, Open, Bounded
<1>2. CASE ~Open(js)
  <2>1. js' = js
    BY <1>2 DEF ReadyToWrite
  <2> QED  BY <2>1 DEF SenderKept, WellFormed, WaitingOf, Open, Bounded
<1> QED  BY <1>1, <1>2

(* What ends a link.                                                        *)
LEMMA ClosingKeeps ==
  ASSUME SenderKept, Stall \/ Close \/ Disconnected
  PROVE  SenderKept' /\ ~Open(js)' /\ js'.frame = js.frame /\ ~up' /\ taken' = taken
<1>1. js \in Sender
  BY DEF SenderKept, WellFormed, Bounded
<1>2. <<>> \in Seq(Packet) /\ Len(<<>>) = 0 /\ MAX_PENDING_WRITES \in Nat
  BY EmptySeq, BleAssumption
<1>3. CASE Stall \/ Close
  <2>1. PICK how \in {"stalled", "closed"} :
          js' = [js EXCEPT !.link = how, !.todo = <<>>, !.outbound = <<>>] /\ ~up'
    BY <1>3 DEF Stall, Close, CloseAs
  <2>2. /\ js' \in Sender /\ js'.link = how /\ js'.todo = <<>> /\ js'.outbound = <<>>
        /\ js'.frame = js.frame
    BY <2>1, <1>1, <1>2 DEF Sender
  <2>3. WellFormed(js') /\ js'.link # "woken" /\ ~Open(js')
    BY <2>2, <1>2 DEF WellFormed, Bounded, Open
  <2>4. taken' = taken
    BY <1>3 DEF Stall, Close
  <2> QED  BY <2>1, <2>2, <2>3, <2>4 DEF SenderKept, WellFormed, Open, Bounded
<1>4. CASE Disconnected
  <2>1. /\ js' = [js EXCEPT !.link = "closed", !.todo = <<>>,
                            !.call = IF js.call = "rejected" THEN "none" ELSE js.call]
        /\ ~up' /\ taken' = taken
    BY <1>4 DEF Disconnected
  <2>2. /\ js' \in Sender /\ js'.link = "closed" /\ js'.todo = <<>> /\ js'.outbound = js.outbound
        /\ js'.frame = js.frame
    BY <2>1, <1>1, <1>2 DEF Sender
  <2>3. WellFormed(js') /\ js'.link # "woken" /\ ~Open(js')
    BY <2>2 DEF SenderKept, WellFormed, Bounded, Open
  <2> QED  BY <2>1, <2>2, <2>3 DEF SenderKept, WellFormed, Open, Bounded
<1> QED  BY <1>3, <1>4

(* What the plugin says of a call changes nothing else of the sender.       *)
LEMMA AnsweringKeeps ==
  ASSUME SenderKept, NEW call \in {"none", "noting", "refused", "rejected"},
         js.call \in {"asked", "noting"}, js' = [js EXCEPT !.call = call]
  PROVE  /\ SenderKept' /\ Open(js)' = Open(js) /\ js'.frame = js.frame
         /\ WaitingOf(js)' = WaitingOf(js)
<1>1. js \in Sender
  BY DEF SenderKept, WellFormed, Bounded
<1>2. /\ js' \in Sender /\ js'.frame = js.frame /\ js'.link = js.link /\ js'.todo = js.todo
      /\ js'.outbound = js.outbound /\ js'.call = call /\ js'.owesReady = js.owesReady
  BY <1>1 DEF Sender
<1>3. WellFormed(js') /\ js'.link # "woken" /\ WaitingOf(js') = WaitingOf(js) /\ Open(js') = Open(js)
  BY <1>2 DEF SenderKept, WellFormed, Bounded, WaitingOf, Open
<1> QED  BY <1>2, <1>3 DEF SenderKept, WellFormed, WaitingOf, Open, Bounded

LEMMA HeadAndTail ==
  ASSUME NEW S, NEW q \in Seq(S), q # <<>>
  PROVE  <<Head(q)>> \o Tail(q) = q
<1>1. Len(q) \in Nat \ {0} /\ 1 \in 1 .. Len(q) /\ Len(q) \in 1 .. Len(q)
  BY EmptySeq
<1>2. SubSeq(q, 1, Len(q)) = << q[1] >> \o SubSeq(q, 1 + 1, Len(q))
  BY <1>1, SubSeqRecursiveFirst
<1>3. Tail(q) = SubSeq(q, 2, Len(q)) /\ SubSeq(q, 1, Len(q)) = q /\ Head(q) = q[1]
  BY TailIsSubSeq, SubSeqFull, Queue
<1> QED  BY <1>2, <1>3

(* The head of the queue goes from what waits to what was taken.            *)
LEMMA StackTakesKeeps ==
  ASSUME SenderKept, taken \in Seq(Packet), StackTakes
  PROVE  /\ SenderKept' /\ Open(js)' = Open(js) /\ js'.frame = js.frame
         /\ Head(js.outbound) \in Packet
         /\ (taken \o WaitingOf(js))' = taken \o WaitingOf(js)
<1> DEFINE h == Head(js.outbound)
           t == Tail(js.outbound)
<1>1. /\ js \in Sender /\ js.outbound \in Seq(Packet) /\ js.todo \in Seq(Packet)
      /\ js.call = "asked" /\ js.outbound # <<>>
  BY DEF SenderKept, WellFormed, Bounded, StackTakes, Sender
<1>2. h \in Packet /\ t \in Seq(Packet) /\ <<h>> \o t = js.outbound
  BY <1>1, Queue, HeadAndTail
<1>3. js' = [js EXCEPT !.call = "accepted"] /\ taken' = Append(taken, h)
  BY DEF StackTakes
<1> HIDE DEF h, t
<1>4. /\ js' \in Sender /\ js'.frame = js.frame /\ js'.link = js.link /\ js'.todo = js.todo
      /\ js'.outbound = js.outbound /\ js'.call = "accepted" /\ js'.owesReady = js.owesReady
  BY <1>1, <1>3 DEF Sender
<1>5. WellFormed(js') /\ js'.link # "woken" /\ Open(js') = Open(js)
  BY <1>1, <1>4 DEF SenderKept, WellFormed, Bounded, Open
<1>6. WaitingOf(js') = t \o js.todo /\ WaitingOf(js) = js.outbound \o js.todo
  BY <1>1, <1>4 DEF WaitingOf, Rest, t
<1>7. taken' \o WaitingOf(js') = taken \o WaitingOf(js)
  <2>1. taken' = taken \o <<h>>
    BY <1>2, <1>3, AppendIsConcat
  <2>2. <<h>> \in Seq(Packet) /\ t \in Seq(Packet) /\ js.todo \in Seq(Packet)
    BY <1>1, <1>2
  <2>3. t \o js.todo \in Seq(Packet)
    BY <2>2, ConcatProperties
  <2>4. \A q, r, u \in Seq(Packet) : (q \o r) \o u = q \o (r \o u)
    BY ConcatAssociative
  <2>5. (taken \o <<h>>) \o (t \o js.todo) = taken \o (<<h>> \o (t \o js.todo))
    BY <2>2, <2>3, <2>4
  <2>6. (<<h>> \o t) \o js.todo = <<h>> \o (t \o js.todo)
    BY <2>2, <2>4
  <2> QED  BY <2>1, <2>5, <2>6, <1>2, <1>6
<1> QED  BY <1>2, <1>4, <1>5, <1>7 DEF SenderKept, WellFormed, WaitingOf, Open, Bounded, h

(* The plugin and the far end as the sender sees them: a call is answered,  *)
(* or nothing happens.                                                      *)
LEMMA NativeKeeps ==
  ASSUME SenderKept,
         \/ StackBusy \/ SlotTaken \/ NoteOwed \/ NoConnection
         \/ WriteCompleted \/ SlotFreed \/ Hint \/ ConnectionLost \/ Arrive \/ Lose
  PROVE  /\ SenderKept' /\ Open(js)' = Open(js) /\ js'.frame = js.frame
         /\ WaitingOf(js)' = WaitingOf(js) /\ taken' = taken
<1>1. CASE StackBusy \/ SlotTaken \/ NoteOwed \/ NoConnection
  <2>1. taken' = taken /\ js.call \in {"asked", "noting"}
    BY <1>1 DEF StackBusy, SlotTaken, NoteOwed, NoConnection
  <2>2. \E call \in {"none", "noting", "refused", "rejected"} : js' = [js EXCEPT !.call = call]
    BY <1>1 DEF StackBusy, SlotTaken, NoteOwed, NoConnection
  <2> QED  BY <2>1, <2>2, AnsweringKeeps
<1>2. CASE WriteCompleted \/ SlotFreed \/ Hint \/ ConnectionLost \/ Arrive \/ Lose
  <2>1. js' = js /\ taken' = taken
    BY <1>2 DEF WriteCompleted, SlotFreed, Hint, ConnectionLost, Arrive, Lose
  <2> QED  BY <2>1 DEF SenderKept, WellFormed, WaitingOf, Open, Bounded
<1> QED  BY <1>1, <1>2

(* The three ways of a step: a frame is added to the stream, the stream     *)
(* stays, or the link is closed.                                            *)
LEMMA SenderStep ==
  ASSUME SenderKept, taken \in Seq(Packet), Next
  PROVE  /\ SenderKept'
         /\ \/ SendFrame
            \/ /\ Open(js)' = Open(js) /\ js'.frame = js.frame
               /\ (taken \o WaitingOf(js))' = taken \o WaitingOf(js)
               /\ StackTakes \/ taken' = taken
            \/ ~Open(js)' /\ ~up' /\ js'.frame = js.frame /\ taken' = taken
<1>1. CASE SendFrame
  BY <1>1, SendFrameKeeps
<1>2. CASE WriteAnswered
  <2>1. taken' = taken
    BY <1>2 DEF WriteAnswered
  <2> QED  BY <1>2, <2>1, WriteAnsweredKeeps
<1>3. CASE ReadyToWrite
  <2>1. taken' = taken
    BY <1>3 DEF ReadyToWrite
  <2> QED  BY <1>3, <2>1, ReadyToWriteKeeps
<1>4. CASE Stall \/ Close \/ Disconnected
  BY <1>4, ClosingKeeps
<1>5. CASE StackTakes
  BY <1>5, StackTakesKeeps
<1>6. CASE \/ StackBusy \/ SlotTaken \/ NoteOwed \/ NoConnection
           \/ WriteCompleted \/ SlotFreed \/ Hint \/ ConnectionLost \/ Arrive \/ Lose
  BY <1>6, NativeKeeps
<1> QED  BY <1>1, <1>2, <1>3, <1>4, <1>5, <1>6 DEF Next

----------------------------------------------------------------------------
(* Types.                                                                   *)

LEMMA TypedInit == Init => Typed
<1> SUFFICES ASSUME Init  PROVE Typed
  OBVIOUS
<1>1. <<>> \in Seq(Packet) /\ Len(<<>>) = 0 /\ Len(Size) \in Nat
  BY EmptySeq, FramingAssumption
<1>2. MAX_PENDING_WRITES \in Nat /\ MaxBusy \in Nat /\ MaxFaults \in Nat
  BY BleAssumption
<1>3. js \in Sender
  BY <1>1 DEF Init, Sender
<1>4. WellFormed(js) /\ js.link # "woken" /\ Open(js)
  BY <1>1, <1>2, <1>3 DEF Init, WellFormed, Bounded, Open
<1>5. /\ {up, writeInFlight, readyOwed, freeing} \subseteq BOOLEAN
      /\ busy \in 0 .. MaxBusy /\ hints \in 0 .. busy /\ wakes \in Nat /\ faults \in 0 .. MaxFaults
      /\ air \in Seq(Packet) /\ taken \in Seq(Packet)
  <2>1. {up, writeInFlight, readyOwed, freeing} \subseteq BOOLEAN
    BY DEF Init
  <2>2. busy = 0 /\ hints = 0 /\ wakes = 0 /\ faults = 0 /\ air = <<>> /\ taken = <<>>
    BY DEF Init
  <2> QED  BY <2>1, <2>2, <1>1, <1>2
<1>6. reassembler.frameId = NoFrame
  BY DEF Init, EmptyReassembler
<1> QED  BY <1>4, <1>5, <1>6 DEF Typed

LEMMA PushTyped ==
  ASSUME NEW r, NEW p \in Packet
  PROVE  Push(r, p).state.frameId \in {NoFrame} \cup 0 .. FRAME_IDS - 1
<1>1. p.frameId \in 0 .. FRAME_IDS - 1
  BY PacketFields, FrameIdInRange
<1>2. \/ Push(r, p).state = EmptyReassembler
      \/ \E parts : Push(r, p).state = [frameId |-> p.frameId, parts |-> parts]
  BY DEF Push
<1>3. CASE Push(r, p).state = EmptyReassembler
  BY <1>3 DEF EmptyReassembler
<1>4. CASE \E parts : Push(r, p).state = [frameId |-> p.frameId, parts |-> parts]
  BY <1>1, <1>4
<1> QED  BY <1>2, <1>3, <1>4

LEMMA TypedStep == Typed /\ [Next]_vars => Typed'
<1> SUFFICES ASSUME Typed, [Next]_vars  PROVE Typed'
  OBVIOUS
<1>1. CASE UNCHANGED vars
  BY <1>1 DEF Typed, WellFormed, Bounded, Open, vars, native, receiver
<1>2. CASE Next
  <2>1. SenderKept /\ taken \in Seq(Packet) /\ air \in Seq(Packet) /\ (up => Open(js)) /\ js \in Sender
    BY DEF Typed, SenderKept, WellFormed, Bounded
  <2>2. SenderKept'
    BY <1>2, <2>1, SenderStep
  <2>3. (up => Open(js))'
    <3>1. CASE SendFrame
      BY <3>1, <2>1, SendFrameKeeps
    <3>2. CASE ~SendFrame
      <4>1. Open(js)' = Open(js) \/ ~up'
        BY <1>2, <2>1, <3>2, SenderStep
      <4>2. up' => up
        BY <1>2 DEF Next, SendFrame, WriteAnswered, ReadyToWrite, Stall, Close, Disconnected, CloseAs,
             StackTakes, StackBusy, SlotTaken, NoteOwed, NoConnection, WriteCompleted, SlotFreed,
             Hint, ConnectionLost, Arrive, Lose, native
      <4> QED  BY <4>1, <4>2, <2>1 DEF Open
    <3> QED  BY <3>1, <3>2
  <2>4. {up, writeInFlight, readyOwed, freeing}' \subseteq BOOLEAN
    BY <1>2 DEF Typed, Next, SendFrame, WriteAnswered, ReadyToWrite, Stall, Close, Disconnected,
         CloseAs, StackTakes, StackBusy, SlotTaken, NoteOwed, NoConnection, WriteCompleted, SlotFreed,
         Hint, ConnectionLost, Arrive, Lose, SignalIfOwed, native
  <2>5. (busy \in 0 .. MaxBusy /\ hints \in 0 .. busy /\ wakes \in Nat /\ faults \in 0 .. MaxFaults)'
    <3>1. /\ busy \in Nat /\ busy <= MaxBusy /\ hints \in Nat /\ hints <= busy /\ wakes \in Nat
          /\ faults \in Nat /\ faults <= MaxFaults /\ MaxBusy \in Nat /\ MaxFaults \in Nat
      BY BleAssumption DEF Typed
    <3>2. \/ busy' = busy /\ hints' = hints
          \/ busy < MaxBusy /\ busy' = busy + 1 /\ hints' = hints + 1
          \/ busy' = busy /\ hints > 0 /\ hints' = hints - 1
      BY <1>2 DEF Next, SendFrame, WriteAnswered, ReadyToWrite, Stall, Close, Disconnected,
           CloseAs, StackTakes, StackBusy, SlotTaken, NoteOwed, NoConnection, WriteCompleted, SlotFreed,
           Hint, ConnectionLost, Arrive, Lose, SignalIfOwed, native
    <3>3. wakes' = wakes \/ wakes' = wakes + 1 \/ (wakes > 0 /\ wakes' = wakes - 1)
      BY <1>2 DEF Next, SendFrame, WriteAnswered, ReadyToWrite, Stall, Close, Disconnected,
           CloseAs, StackTakes, StackBusy, SlotTaken, NoteOwed, NoConnection, WriteCompleted, SlotFreed,
           Hint, ConnectionLost, Arrive, Lose, SignalIfOwed, native
    <3>4. faults' = faults \/ (faults < MaxFaults /\ faults' = faults + 1)
      BY <1>2 DEF Next, SendFrame, WriteAnswered, ReadyToWrite, Stall, Close, Disconnected,
           CloseAs, StackTakes, StackBusy, SlotTaken, NoteOwed, NoConnection, WriteCompleted, SlotFreed,
           Hint, ConnectionLost, Arrive, Lose, SignalIfOwed, native
    <3> QED  BY <3>1, <3>2, <3>3, <3>4
  <2>6. (taken \in Seq(Packet) /\ air \in Seq(Packet))'
    <3>1. CASE StackTakes
      BY <3>1, <2>1, StackTakesKeeps, AppendProperties DEF StackTakes
    <3>2. CASE ~StackTakes
      <4>1. taken' = taken /\ (air' = air \/ air' = <<>> \/ (air # <<>> /\ air' = Tail(air)))
        BY <1>2, <3>2 DEF Next, SendFrame, WriteAnswered, ReadyToWrite, Stall, Close, Disconnected,
             CloseAs, StackBusy, SlotTaken, NoteOwed, NoConnection, WriteCompleted, SlotFreed,
             Hint, ConnectionLost, Arrive, Lose
      <4> QED  BY <4>1, <2>1, Queue, EmptySeq
    <3> QED  BY <3>1, <3>2
  <2>7. (reassembler.frameId \in {NoFrame} \cup 0 .. FRAME_IDS - 1)'
    <3>1. CASE Arrive
      <4>1. Head(air) \in Packet /\ reassembler' = Push(reassembler, Head(air)).state
        BY <3>1, <2>1, Queue DEF Arrive
      <4> QED  BY <4>1, PushTyped
    <3>2. CASE ~Arrive
      <4>1. reassembler' = reassembler
        BY <1>2, <3>2 DEF Next, SendFrame, WriteAnswered, ReadyToWrite, Stall, Close, Disconnected,
             CloseAs, StackTakes, StackBusy, SlotTaken, NoteOwed, NoConnection, WriteCompleted,
             SlotFreed, Hint, ConnectionLost, Lose, receiver
      <4> QED  BY <4>1 DEF Typed
    <3> QED  BY <3>1, <3>2
  <2> QED  BY <2>2, <2>3, <2>4, <2>5, <2>6, <2>7 DEF Typed, SenderKept
<1> QED  BY <1>1, <1>2

LEMMA TypedImplies == Typed => TypeOK
<1> SUFFICES ASSUME Typed  PROVE TypeOK
  OBVIOUS
<1>1. js \in Sender /\ js.link # "woken" /\ Len(js.outbound) <= MAX_PENDING_WRITES
  BY DEF Typed, WellFormed, Bounded
<1>2. /\ js.frame \in 0 .. Len(Size)
      /\ js.link \in {"idle", "awaiting", "stalled", "closed"}
      /\ js.todo \in Seq(Packet) /\ js.outbound \in Seq(Packet)
      /\ js.call \in {"none", "asked", "noting", "accepted", "refused", "rejected"}
      /\ {js.drainAgain, js.owesReady} \subseteq BOOLEAN
  BY <1>1 DEF Sender
<1>3. hints \in 0 .. MaxBusy
  BY BleAssumption DEF Typed
<1> QED  BY <1>1, <1>2, <1>3 DEF Typed, TypeOK

LEMMA AlwaysTyped == Spec => []Typed
BY TypedInit, TypedStep, PTL DEF Spec

(* Types, and the transport's queue within MAX_PENDING_WRITES, whatever the *)
(* plugin's threads, the stack and the peer do.                             *)
THEOREM QueueKeepsItsBound == Spec => []TypeOK
BY AlwaysTyped, TypedImplies, PTL

----------------------------------------------------------------------------
(* Every packet crosses the bridge once and in order.                       *)

LEMMA StreamedInit == Init => Streamed
<1> SUFFICES ASSUME Init  PROVE Streamed
  OBVIOUS
<1>1. js.frame = 0 /\ js.todo = <<>> /\ js.outbound = <<>> /\ js.call = "none" /\ Open(js)
  BY DEF Init, Open
<1>2. <<>> \in Seq(Packet) /\ Len(<<>>) = 0 /\ <<>> \o <<>> = <<>>
  BY EmptySeq, ConcatEmptySeq
<1>3. taken \o WaitingOf(js) = <<>>
  BY <1>1, <1>2 DEF Init, WaitingOf
<1>4. Stream(<<>>, 0) /\ Ends(<<>>, 0)
  BY <1>2 DEF Stream, InOrder, Spread, Within, Ends
<1> QED  BY <1>1, <1>3, <1>4 DEF Streamed

LEMMA StreamedStep == Typed /\ Streamed /\ [Next]_vars => Streamed'
<1> SUFFICES ASSUME Typed, Streamed, [Next]_vars  PROVE Streamed'
  OBVIOUS
<1>1. CASE UNCHANGED vars
  BY <1>1 DEF Streamed, Open, WaitingOf, vars
<1>2. CASE Next
  <2>1. SenderKept /\ taken \in Seq(Packet) /\ (up => Open(js)) /\ js \in Sender
    BY DEF Typed, SenderKept, WellFormed, Bounded
  <2>2. WaitingOf(js) \in Seq(Packet) /\ js.frame \in Nat
    BY <2>1, WaitingIsASeq DEF Sender
  <2>3. CASE SendFrame
    <3>1. /\ Open(js)' /\ js'.frame = js.frame + 1 /\ js.frame + 1 \in Frame /\ taken' = taken
          /\ WaitingOf(js)' = WaitingOf(js) \o Split(js.frame + 1) /\ Open(js)
      BY <2>1, <2>3, SendFrameKeeps DEF SendFrame, Open
    <3>2. Split(js.frame + 1) \in Seq(Packet)
      BY <3>1, SplitIsASeq
    <3>3. \A q, r, u \in Seq(Packet) : (q \o r) \o u = q \o (r \o u)
      BY ConcatAssociative
    <3>4. (taken \o WaitingOf(js)) \o Split(js.frame + 1) = taken \o (WaitingOf(js) \o Split(js.frame + 1))
      BY <2>1, <2>2, <3>2, <3>3
    <3>5. (taken \o WaitingOf(js))' = (taken \o WaitingOf(js)) \o Split(js.frame + 1)
      BY <3>1, <3>4
    <3>6. Stream(taken \o WaitingOf(js), js.frame) /\ Ends(taken \o WaitingOf(js), js.frame)
      BY <3>1 DEF Streamed
    <3>7. /\ Stream((taken \o WaitingOf(js))', js.frame + 1)
          /\ Ends((taken \o WaitingOf(js))', js.frame + 1)
      BY <3>1, <3>5, <3>6, <2>2, StreamGrows
    <3> QED  BY <3>1, <3>7 DEF Streamed
  <2>4. CASE /\ Open(js)' = Open(js) /\ js'.frame = js.frame
             /\ (taken \o WaitingOf(js))' = taken \o WaitingOf(js)
             /\ StackTakes \/ taken' = taken
    <3>1. Open(js) \/ taken' = taken
      BY <2>1, <2>4 DEF StackTakes
    <3> QED  BY <2>4, <3>1 DEF Streamed
  <2>5. CASE ~Open(js)' /\ ~up' /\ js'.frame = js.frame /\ taken' = taken
    <3>1. Stream(taken, js.frame)
      BY <2>1, <2>2, PrefixOfStream DEF Streamed
    <3> QED  BY <2>5, <3>1 DEF Streamed
  <2> QED  BY <1>2, <2>1, <2>3, <2>4, <2>5, SenderStep
<1> QED  BY <1>1, <1>2

LEMMA StreamedImplies == Typed /\ Streamed => CrossesOnce
<1> SUFFICES ASSUME Typed, Streamed  PROVE CrossesOnce
  OBVIOUS
<1>1. Waiting = WaitingOf(js)
  BY DEF Waiting, WaitingOf
<1>2. CASE Open(js)
  BY <1>1, <1>2 DEF Streamed, CrossesOnce, AllUpTo, Stream, Ends
<1>3. CASE ~Open(js)
  <2>1. DOMAIN taken = 1 .. Len(taken)
    BY LenProperties DEF Typed
  <2> QED  BY <2>1, <1>3 DEF Streamed, CrossesOnce, Stream, Within
<1> QED  BY <1>2, <1>3

LEMMA AlwaysStreamed == Spec => [](Typed /\ Streamed)
BY TypedInit, TypedStep, StreamedInit, StreamedStep, PTL DEF Spec

(* Every packet of every frame crosses the bridge exactly once and in order *)
(* through refusals, retries, early wake-ups and drains asked for while one *)
(* runs, for any frames, any bound of the queue and either kind of thread.  *)
THEOREM PacketsCrossOnce == Spec => []CrossesOnce
BY AlwaysStreamed, StreamedImplies, PTL

----------------------------------------------------------------------------
(* No wake-up is lost where the plugin runs on one queue.                   *)

(* A pass over the queue leaves a drain at work, and a link waits only when *)
(* the queue is full.                                                       *)
LEMMA PumpMoves ==
  ASSUME NEW s, Bounded(s), Open(s), s.call # "rejected"
  PROVE  /\ Moving(Pump(s)) /\ Pump(s).call \in {"asked", s.call}
         /\ Pump(s).link = "awaiting" => Pump(s).outbound # <<>>
<1> DEFINE n == Lesser(Room(s), Len(s.todo))
           written == SubSeq(s.todo, 1, n)
           left == SubSeq(s.todo, n + 1, Len(s.todo))
           asks == IF n < Len(s.todo) THEN n + 1 ELSE n
           t == Pump(s)
<1>1. /\ s \in Sender /\ s.todo \in Seq(Packet) /\ s.outbound \in Seq(Packet)
      /\ Len(s.todo) \in Nat /\ Len(s.outbound) \in Nat
      /\ Len(s.outbound) <= MAX_PENDING_WRITES /\ MAX_PENDING_WRITES \in Nat \ {0}
  BY BleAssumption, LenProperties DEF Bounded, Sender
<1>2. Room(s) \in Nat /\ Room(s) = MAX_PENDING_WRITES - Len(s.outbound)
  BY <1>1 DEF Room
<1>3. n \in 0 .. Len(s.todo) /\ (n < Len(s.todo) => n = MAX_PENDING_WRITES - Len(s.outbound))
  BY <1>1, <1>2, LesserIsLesser
<1>4. written \in Seq(Packet) /\ Len(written) = n
  BY <1>1, <1>3, Cut
<1> HIDE DEF n, written, left
<1>5. t = [s EXCEPT !.outbound = s.outbound \o written, !.todo = left,
                    !.link = IF n < Len(s.todo) THEN "awaiting" ELSE "idle",
                    !.owesReady = s.owesReady \/ n < Len(s.todo),
                    !.call = IF s.call = "none" THEN "asked" ELSE s.call,
                    !.drainAgain = s.call # "none" \/ asks > 1]
  BY DEF Pump, n, written, left, asks
<1> HIDE DEF t
<1>6. /\ t.outbound = s.outbound \o written
      /\ t.link = IF n < Len(s.todo) THEN "awaiting" ELSE "idle"
      /\ t.call = IF s.call = "none" THEN "asked" ELSE s.call
      /\ t.drainAgain = (s.call # "none" \/ asks > 1)
      /\ s.call \in {"none", "asked", "noting", "accepted", "refused"}
  BY <1>1, <1>5 DEF Sender
<1>7. Moving(t) /\ t.call \in {"asked", s.call}
  BY <1>6 DEF Moving
<1>8. t.link = "awaiting" => t.outbound # <<>>
  <2>1. t.outbound \in Seq(Packet) /\ Len(t.outbound) = Len(s.outbound) + n
    BY <1>1, <1>4, <1>6, ConcatProperties
  <2>2. t.link = "awaiting" => Len(t.outbound) # 0
    BY <2>1, <1>1, <1>3, <1>6
  <2> QED  BY <2>2
<1> QED  BY <1>7, <1>8 DEF t

LEMMA ResumeAttends ==
  ASSUME NEW s, WellFormed(s), s.call \notin {"rejected", "noting"}, NEW later,
         s.link # "woken" => Attended(s, later)
  PROVE  Attended(Resume(s), later) /\ Resume(s).call \notin {"rejected", "noting"}
<1>1. CASE s.link = "woken"
  <2>1. Bounded(s) /\ Open(s)
    BY <1>1 DEF WellFormed, Open
  <2>2. Resume(s) = Pump(s)
    BY <1>1 DEF Resume
  <2> QED  BY <2>1, <2>2, PumpMoves DEF Attended
<1>2. CASE s.link # "woken"
  BY <1>2 DEF Resume
<1> QED  BY <1>1, <1>2

LEMMA AnswerAttends ==
  ASSUME NEW s, WellFormed(s), Open(s), s.call \in {"accepted", "refused"}, NEW later,
         Attended(s, later), s.link # "woken"
  PROVE  Attended(Resume(Answered(s)), later) /\ Resume(Answered(s)).call \notin {"rejected", "noting"}
<1> DEFINE a == Answered(s)
<1>1. /\ WellFormed(a) /\ a.call \in {"asked", "none"}
  BY AnsweredKeeps
<1>2. CASE a.call = "asked"
  <2>1. a.link = "awaiting" => a.outbound # <<>>
    <3>1. CASE s.call = "accepted"
      <4> DEFINE left == Rest(s.outbound)
      <4>1. CASE left = <<>>
        <5>1. a = Settle([s EXCEPT !.outbound = left])
          BY <3>1, <4>1 DEF Answered, AfterAnswer
        <5>2. s \in Sender
          BY DEF WellFormed, Bounded
        <5>3. a.call = "none"
          BY <5>1, <5>2 DEF Settle, Ready, Sender
        <5> QED  BY <5>3, <1>2
      <4>2. CASE left # <<>>
        <5>1. a = [[s EXCEPT !.outbound = left] EXCEPT !.call = "asked", !.drainAgain = @ /\ TRUE]
          BY <3>1, <4>2 DEF Answered, AfterAnswer
        <5>2. s \in Sender
          BY DEF WellFormed, Bounded
        <5> QED  BY <5>1, <5>2, <4>2 DEF Sender
      <4> QED  BY <4>1, <4>2
    <3>2. CASE s.call = "refused"
      <4>1. WaitingOf(a) = WaitingOf(s)
        BY AnsweredKeeps
      <4>2. s \in Sender
        BY DEF WellFormed, Bounded
      <4>3. [s EXCEPT !.outbound = s.outbound] = s
        BY <4>2 DEF Sender
      <4>4. a = IF s.drainAgain THEN [s EXCEPT !.call = "asked", !.drainAgain = FALSE] ELSE Settle(s)
        BY <3>2, <4>2, <4>3 DEF Answered, AfterAnswer, Sender
      <4>5. CASE s.drainAgain
        BY <4>2, <4>4, <4>5 DEF Sender, Attended
      <4>6. CASE ~s.drainAgain
        <5>1. a.call = "none"
          BY <4>2, <4>4, <4>6 DEF Settle, Ready, Sender
        <5> QED  BY <5>1, <1>2
      <4> QED  BY <4>5, <4>6
    <3> QED  BY <3>1, <3>2
  <2>2. a.link # "woken" => Attended(a, later)
    BY <2>1, <1>2 DEF Attended, Moving
  <2> QED  BY <2>2, <1>1, ResumeAttends
<1>3. CASE a.call = "none"
  <2>1. \/ a.outbound = <<>> /\ a.link # "awaiting"
        \/ /\ s.call = "refused" /\ ~s.drainAgain /\ a.outbound = s.outbound
           /\ a.link = "awaiting" => s.link = "awaiting"
    BY <1>3, AnsweredKeeps
  <2>2. Attended(a, later)
    BY <2>1 DEF Attended, Moving
  <2> QED  BY <2>2, <1>1, ResumeAttends
<1> QED  BY <1>1, <1>2, <1>3

LEMMA EarlyWakeAttends ==
  ASSUME NEW s, WellFormed(s), Open(s), s.call \notin {"rejected", "noting"}, NEW later,
         s.link # "woken", s.link = "awaiting" => s.outbound # <<>>
  PROVE  /\ Attended(Resume(Ready(Drain(s))), later)
         /\ Resume(Ready(Drain(s))).call \notin {"rejected", "noting"}
<1> DEFINE d == Drain(s)
           r == Ready(d)
<1>1. /\ WellFormed(d) /\ d.outbound = s.outbound
      /\ s.call # "none" => d.call = s.call /\ d.drainAgain
      /\ s.call = "none" /\ s.outbound # <<>> => d.call = "asked"
      /\ s.call = "none" /\ s.outbound = <<>> => d.call = "none"
  BY DrainKeeps
<1>2. /\ WellFormed(r) /\ r.link # "awaiting" /\ r.call = d.call /\ r.outbound = d.outbound
      /\ r.drainAgain = d.drainAgain
  BY <1>1, ReadyKeeps
<1> HIDE DEF d, r
<1>3. s.call \in {"none", "asked", "accepted", "refused"}
  BY DEF WellFormed, Bounded, Sender
<1>4. s.outbound # <<>> => Moving(r)
  BY <1>1, <1>2, <1>3 DEF Moving
<1>5. Attended(r, later) /\ r.call \notin {"rejected", "noting"}
  BY <1>1, <1>2, <1>3, <1>4 DEF Attended
<1> QED  BY <1>2, <1>5, ResumeAttends DEF d, r

LEMMA WakefulInit == Init => Wakeful
BY DEF Init, Wakeful, Attended

(* A step that leaves the queue alone and takes no wake-up away.            *)
LEMMA StillAttended ==
  ASSUME Wakeful, UNCHANGED <<js, freeing>>, up' => up, WakeUpLater => WakeUpLater'
  PROVE  Wakeful'
BY DEF Wakeful, Attended, Moving

(* The plugin answers a call: by taking the packet, by refusing it with a   *)
(* wake-up scheduled or owed, or because there is no connection.            *)
LEMMA AnsweringAttends ==
  ASSUME js \in Sender, Wakeful, NEW call \in {"none", "accepted", "refused", "rejected"},
         js' = [js EXCEPT !.call = call], UNCHANGED freeing, up' = up,
         \/ call = "accepted"
         \/ call = "refused" /\ WakeUpLater'
         \/ ~up
  PROVE  Wakeful'
<1>1. js'.outbound = js.outbound /\ js'.link = js.link /\ js'.call = call
  BY DEF Sender
<1> QED  BY <1>1 DEF Wakeful, Attended, Moving

LEMMA WakefulStep ==
  ASSUME Threads = "queue", Typed, Wakeful, [Next]_vars
  PROVE  Wakeful'
<1>0. /\ SenderKept /\ WellFormed(js) /\ js \in Sender /\ js.link # "woken" /\ (up => Open(js))
      /\ wakes \in Nat /\ hints \in Nat
  BY BleAssumption DEF Typed, SenderKept, WellFormed, Bounded
<1>1. CASE UNCHANGED vars
  BY <1>1, StillAttended DEF vars, native, WakeUpLater
<1>2. CASE SendFrame
  <2> DEFINE s == [js EXCEPT !.frame = js.frame + 1, !.todo = Split(js.frame + 1)]
  <2>1. js' = Pump(s) /\ js.link = "idle" /\ UNCHANGED <<up, freeing>> /\ js.frame + 1 \in Frame
    BY <1>0, <1>2, SendFrameKeeps DEF SendFrame, native
  <2>2. Split(js.frame + 1) \in Seq(Packet) /\ js.frame + 1 \in 0 .. Len(Size)
    BY <2>1, SplitIsASeq, SizeOfAFrame
  <2>3. /\ s \in Sender /\ s.link = "idle" /\ s.outbound = js.outbound /\ s.call = js.call
    BY <1>0, <2>1, <2>2 DEF Sender
  <2> HIDE DEF s
  <2>4. Bounded(s) /\ Open(s)
    BY <1>0, <2>1, <2>3 DEF WellFormed, Bounded, Open
  <2>5. CASE up
    <3>1. s.call \notin {"rejected", "noting"}
      BY <2>3, <2>5 DEF Wakeful
    <3>2. /\ Moving(js') /\ js'.call \in {"asked", s.call}
          /\ js'.link = "awaiting" => js'.outbound # <<>>
      BY <2>1, <2>4, <3>1, PumpMoves
    <3> QED  BY <3>1, <3>2, <2>1 DEF Wakeful, Attended, Moving
  <2>6. CASE ~up
    <3>1. js'.call # "noting"
      <4>1. s.call # "noting"
        BY <2>3 DEF Wakeful
      <4>2. js'.call \in {"asked", s.call}
        BY <2>1, <2>3 DEF Pump, Sender
      <4> QED  BY <4>1, <4>2
    <3> QED  BY <3>1, <2>1, <2>6 DEF Wakeful
  <2> QED  BY <2>5, <2>6
<1>3. CASE WriteAnswered
  <2>1. /\ js.call \in {"accepted", "refused"} /\ js' = Resume(Answered(js))
        /\ UNCHANGED <<up, writeInFlight, readyOwed, freeing, hints, wakes>>
    BY <1>3 DEF WriteAnswered, native
  <2>2. WakeUpLater' = WakeUpLater
    BY <2>1 DEF WakeUpLater
  <2>3. CASE up
    <3>1. Attended(js', WakeUpLater) /\ js'.call \notin {"rejected", "noting"}
      BY <1>0, <2>1, <2>3, AnswerAttends DEF Wakeful
    <3> QED  BY <3>1, <2>1, <2>2 DEF Wakeful, Attended, Moving
  <2>4. CASE ~up
    <3>1. WellFormed(Answered(js)) /\ Answered(js).call \in {"asked", "none"}
      BY <1>0, <2>1, AnsweredKeeps
    <3>2. js'.call # "noting"
      <4>1. Answered(js) \in Sender
        BY <3>1 DEF WellFormed, Bounded
      <4>2. Resume(Answered(js)).call \in {"asked", Answered(js).call}
        BY <4>1 DEF Resume, Pump, Sender
      <4> QED  BY <4>2, <3>1, <2>1
    <3> QED  BY <3>2, <2>1, <2>4 DEF Wakeful
  <2> QED  BY <2>3, <2>4
<1>4. CASE ReadyToWrite
  <2>1. js' = (IF Open(js) THEN Resume(Ready(Drain(js))) ELSE js) /\ UNCHANGED <<up, freeing>>
    BY <1>4 DEF ReadyToWrite
  <2>2. CASE up
    <3>1. /\ Open(js) /\ js.call \notin {"rejected", "noting"}
          /\ js.link = "awaiting" => js.outbound # <<>>
      BY <1>0, <2>2 DEF Wakeful, Attended
    <3>2. js' = Resume(Ready(Drain(js)))
      BY <2>1, <3>1
    <3>3. Attended(js', FALSE) /\ js'.call \notin {"rejected", "noting"}
      BY <1>0, <3>1, <3>2, EarlyWakeAttends
    <3> QED  BY <3>3, <2>1 DEF Wakeful, Attended, Moving
  <2>3. CASE ~up
    <3>1. js'.call # "noting"
      <4>1. CASE Open(js)
        <5>1. WellFormed(Drain(js)) /\ Drain(js).call \in {js.call, "asked", "none"}
          BY <1>0, DrainKeeps
        <5>2. WellFormed(Ready(Drain(js))) /\ Ready(Drain(js)).call = Drain(js).call
          BY <5>1, ReadyKeeps
        <5>3. Ready(Drain(js)) \in Sender
          BY <5>2 DEF WellFormed, Bounded
        <5>4. Resume(Ready(Drain(js))).call \in {"asked", Ready(Drain(js)).call}
          BY <5>3 DEF Resume, Pump, Sender
        <5> QED  BY <5>1, <5>2, <5>4, <4>1, <2>1 DEF Wakeful
      <4>2. CASE ~Open(js)
        BY <4>2, <2>1 DEF Wakeful
      <4> QED  BY <4>1, <4>2
    <3> QED  BY <3>1, <2>1, <2>3 DEF Wakeful
  <2> QED  BY <2>2, <2>3
<1>5. CASE Stall \/ Close \/ Disconnected
  <2>1. ~up' /\ UNCHANGED freeing
    BY <1>5 DEF Stall, Close, CloseAs, Disconnected, native
  <2>2. js'.call \in {js.call, "none"}
    BY <1>0, <1>5 DEF Stall, Close, CloseAs, Disconnected, Sender
  <2> QED  BY <2>1, <2>2 DEF Wakeful
<1>6. CASE StackTakes
  BY <1>0, <1>6, AnsweringAttends DEF StackTakes
<1>7. CASE StackBusy
  <2>1. WakeUpLater'
    BY <1>0, <1>7 DEF StackBusy, WakeUpLater
  <2> QED  BY <1>0, <1>7, <2>1, AnsweringAttends DEF StackBusy
<1>8. CASE SlotTaken
  <2>1. /\ js' = [js EXCEPT !.call = "refused"] /\ readyOwed' = TRUE /\ writeInFlight
        /\ UNCHANGED <<up, writeInFlight, freeing>>
    BY <1>8, Threads = "queue" DEF SlotTaken
  <2>2. WakeUpLater'
    BY <2>1 DEF WakeUpLater
  <2> QED  BY <1>0, <2>1, <2>2, AnsweringAttends
<1>9. CASE NoteOwed
  BY <1>9 DEF NoteOwed, Wakeful
<1>10. CASE NoConnection
  BY <1>0, <1>10, AnsweringAttends DEF NoConnection, native
<1>11. CASE WriteCompleted
  <2>1. /\ UNCHANGED <<js, up, freeing, hints>>
        /\ wakes' = (IF readyOwed THEN wakes + 1 ELSE wakes)
    BY <1>11, Threads = "queue" DEF WriteCompleted, SignalIfOwed
  <2>2. WakeUpLater => WakeUpLater'
    BY <1>0, <2>1 DEF WakeUpLater
  <2> QED  BY <2>1, <2>2, StillAttended
<1>12. CASE SlotFreed
  BY <1>12 DEF SlotFreed, Wakeful
<1>13. CASE Hint
  <2>1. /\ UNCHANGED <<js, up, freeing>>
        /\ hints > 0 /\ wakes' = (IF up THEN wakes + 1 ELSE wakes)
    BY <1>13 DEF Hint
  <2>2. CASE up
    <3>1. WakeUpLater'
      BY <1>0, <2>1, <2>2 DEF WakeUpLater
    <3> QED  BY <2>1, <3>1, StillAttended
  <2>3. CASE ~up
    BY <2>1, <2>3 DEF Wakeful
  <2> QED  BY <2>2, <2>3
<1>14. CASE ConnectionLost
  BY <1>14 DEF ConnectionLost, native, Wakeful
<1>15. CASE Arrive \/ Lose
  <2>1. UNCHANGED <<js, up, native>>
    BY <1>15 DEF Arrive, Lose
  <2> QED  BY <2>1, StillAttended DEF native, WakeUpLater
<1> QED
  BY <1>1, <1>2, <1>3, <1>4, <1>5, <1>6, <1>7, <1>8, <1>9, <1>10, <1>11, <1>12, <1>13, <1>14,
     <1>15 DEF Next

LEMMA WakefulImplies == Typed /\ Wakeful => WakeUpIsComing
BY DEF Wakeful, WakeUpLater, Attended, Moving, WakeUpIsComing, WakeComing

(* Where the plugin runs on one serial queue (iOS), a packet that waits is  *)
(* always attended to by a drain or a wake-up under way, and send() waits   *)
(* only behind a full queue: between the bound, a drain that is just ending *)
(* and the native slot no wake-up is lost.                                  *)
THEOREM NoWakeUpIsLost ==
  ASSUME Threads = "queue"
  PROVE  Spec => []WakeUpIsComing
<1>1. Init => Typed /\ Wakeful
  BY TypedInit, WakefulInit
<1>2. Typed /\ Wakeful /\ [Next]_vars => (Typed /\ Wakeful)'
  BY TypedStep, WakefulStep
<1>3. Typed /\ Wakeful => WakeUpIsComing
  BY WakefulImplies
<1> QED  BY <1>1, <1>2, <1>3, PTL DEF Spec

----------------------------------------------------------------------------
(* The receiver puts together what was cut apart, although packets are lost *)
(* and frame ids come round again.                                          *)

LEMMA BodyOfAFrame ==
  ASSUME NEW f \in Frame
  PROVE  Body(f) # <<>> /\ FrameOf(Body(f)) = f
<1>1. Size[f] \in Nat \ {0} /\ 1 \in 1 .. Size[f]
  BY SizeOfAFrame
<1>2. 1 \in DOMAIN Body(f) /\ Body(f)[1] = <<f, 1>>
  BY <1>1 DEF Body
<1>3. Body(f) # <<>>
  BY <1>2
<1>4. ASSUME NEW g \in Frame, Body(f) = Body(g)  PROVE g = f
  <2>1. 1 \in 1 .. Size[g]
    BY SizeOfAFrame
  <2>2. Body(g)[1] = <<g, 1>>
    BY <2>1 DEF Body
  <2> QED  BY <2>2, <1>2, <1>4
<1>5. (CHOOSE g \in Frame : Body(f) = Body(g)) = f
  BY <1>4
<1> QED  BY <1>3, <1>5 DEF FrameOf

(* Pieces of one frame, and one more.                                       *)
LEMMA OneMorePart ==
  ASSUME NEW f \in Nat, NEW j \in Nat
  PROVE  /\ Len([k \in 1 .. j |-> <<f, k>>]) = j
         /\ Append([k \in 1 .. j |-> <<f, k>>], <<f, j + 1>>) = [k \in 1 .. j + 1 |-> <<f, k>>]
<1> DEFINE a == [k \in 1 .. j |-> <<f, k>>]
           b == [k \in 1 .. j + 1 |-> <<f, k>>]
           S == Nat \X Nat
<1>1. a \in [1 .. j -> S] /\ b \in [1 .. j + 1 -> S] /\ <<f, j + 1>> \in S
  OBVIOUS
<1>2. a \in Seq(S) /\ b \in Seq(S)
  BY <1>1, SeqDef
<1>3. DOMAIN a = 1 .. j /\ DOMAIN b = 1 .. j + 1
  OBVIOUS
<1>4. Len(a) = j /\ Len(b) = j + 1
  BY <1>2, <1>3, LenProperties
<1>5. /\ Append(a, <<f, j + 1>>) \in Seq(S) /\ Len(Append(a, <<f, j + 1>>)) = j + 1
      /\ \A k \in 1 .. j : Append(a, <<f, j + 1>>)[k] = a[k]
      /\ Append(a, <<f, j + 1>>)[j + 1] = <<f, j + 1>>
  <2> HIDE DEF a, b, S
  <2> QED  BY <1>1, <1>2, <1>4, AppendProperties
<1>6. \A k \in 1 .. j + 1 : Append(a, <<f, j + 1>>)[k] = b[k]
  <2> TAKE k \in 1 .. j + 1
  <2>1. CASE k \in 1 .. j
    BY <2>1, <1>5
  <2>2. CASE k = j + 1
    BY <2>2, <1>5
  <2> QED  BY <2>1, <2>2
<1> HIDE DEF a, b, S
<1>7. Append(a, <<f, j + 1>>) = b
  BY <1>2, <1>4, <1>5, <1>6, SeqEqual
<1> QED  BY <1>4, <1>7 DEF a, b

(* What a push leaves, if the packet cannot be mistaken for the next of     *)
(* another frame: nothing, the frame so far, or the frame whole.            *)
LEMMA PushOutcome ==
  ASSUME NEW p \in Packet, NEW r,
         \/ r = EmptyReassembler
         \/ \E t \in Packet :
              /\ r = PartsUpTo(t) /\ ~t.final
              /\ t.frameId = p.frameId /\ t.body[2] = p.seq => t.body[1] = p.body[1]
  PROVE  \/ Push(r, p).state = EmptyReassembler /\ Push(r, p).frame = <<>>
         \/ Push(r, p).state = PartsUpTo(p) /\ ~p.final /\ Push(r, p).frame = <<>>
         \/ /\ Push(r, p).state = EmptyReassembler /\ p.final
            /\ Push(r, p).frame = Body(p.body[1])
<1> DEFINE kept == Abandon(r, p)
           parts == Append(kept.parts, p.body)
           fits == InSequence(kept, p) /\ Len(parts) <= MAX_FRAME_PACKETS
<1>1. /\ Push(r, p).state = IF fits /\ ~p.final
                            THEN [frameId |-> p.frameId, parts |-> parts]
                            ELSE EmptyReassembler
      /\ Push(r, p).frame = IF fits /\ p.final THEN parts ELSE <<>>
  BY DEF Push
<1>a. PICK f \in Frame : \E i \in 1 .. Size[f] :
        /\ p.body = <<f, i>> /\ p.body[1] = f /\ p.body[2] = i
        /\ p.seq = i - 1 /\ (p.final <=> i = Size[f])
  BY PacketFields
<1>2. PICK i \in 1 .. Size[f] :
        /\ p.body = <<f, i>> /\ p.body[1] = f /\ p.body[2] = i
        /\ p.seq = i - 1 /\ (p.final <=> i = Size[f])
  BY <1>a
<1>3. f \in Nat \ {0} /\ Size[f] \in Nat \ {0} /\ i \in Nat \ {0}
  BY SizeOfAFrame
<1>4. ASSUME fits  PROVE parts = [k \in 1 .. i |-> <<f, k>>]
  <2>1. \/ kept = EmptyReassembler
        \/ \E t \in Packet : kept = PartsUpTo(t) /\ t.frameId = p.frameId
                             /\ (t.body[2] = p.seq => t.body[1] = p.body[1])
    <3>1. kept = EmptyReassembler \/ (kept = r /\ r.frameId = p.frameId)
      BY DEF Abandon
    <3>2. \A t : PartsUpTo(t).frameId = t.frameId
      BY DEF PartsUpTo
    <3> HIDE DEF kept
    <3> QED  BY <3>1, <3>2
  <2>2. Len(kept.parts) = i - 1
    BY <1>2, <1>4 DEF InSequence, Expected
  <2>3. kept.parts = [k \in 1 .. i - 1 |-> <<f, k>>]
    <3>1. CASE kept = EmptyReassembler
      <4>1. kept.parts = <<>>
        BY <3>1 DEF EmptyReassembler
      <4>2. i - 1 = 0
        BY <4>1, <2>2, <1>3
      <4>3. 1 .. i - 1 = {}
        BY <4>2
      <4>4. [k \in 1 .. i - 1 |-> <<f, k>>] = <<>>
        BY <4>3
      <4> QED  BY <4>1, <4>4
    <3>2. ASSUME NEW t \in Packet, kept = PartsUpTo(t), t.frameId = p.frameId,
                 t.body[2] = p.seq => t.body[1] = p.body[1]
          PROVE  kept.parts = [k \in 1 .. i - 1 |-> <<f, k>>]
      <4>1. kept.parts = [k \in 1 .. t.body[2] |-> <<t.body[1], k>>]
        BY <3>2 DEF PartsUpTo
      <4>2. t.body[1] \in Nat /\ t.body[2] \in Nat
        BY PacketFields, SizeOfAFrame
      <4>3. t.body[2] = i - 1
        BY <4>1, <4>2, <2>2, OneMorePart
      <4> QED  BY <4>1, <4>3, <3>2, <1>2
    <3> QED  BY <2>1, <3>1, <3>2
  <2>4. i - 1 \in Nat /\ (i - 1) + 1 = i
    BY <1>3
  <2>5. Append([k \in 1 .. i - 1 |-> <<f, k>>], <<f, (i - 1) + 1>>)
          = [k \in 1 .. (i - 1) + 1 |-> <<f, k>>]
    BY <1>3, <2>4, OneMorePart
  <2> QED  BY <2>3, <2>4, <2>5, <1>2
<1> HIDE DEF kept, parts, fits
<1>5. CASE ~fits
  BY <1>1, <1>5
<1>6. CASE fits /\ p.final
  BY <1>1, <1>2, <1>4, <1>6 DEF Body
<1>7. CASE fits /\ ~p.final
  BY <1>1, <1>2, <1>4, <1>7 DEF PartsUpTo
<1> QED  BY <1>5, <1>6, <1>7

(* A packet that would go on with a partial frame belongs to it: before a   *)
(* frame with the same id can offer one, more packets are gone than were    *)
(* ever lost.                                                               *)
LEMMA NoSplice ==
  ASSUME MaxFaults <= FRAME_IDS, NEW q, NEW f, Stream(q, f),
         NEW c \in 1 .. Len(q), NEW m \in 1 .. c - 1, c - 1 - m <= MaxFaults,
         ~q[m].final, q[m].frameId = q[c].frameId, q[m].body[2] = q[c].seq
  PROVE  q[m].body[1] = q[c].body[1]
<1>1. q \in Seq(Packet) /\ Len(q) \in Nat /\ m \in 1 .. Len(q) /\ c \in Nat /\ m \in Nat
  BY LenProperties DEF Stream
<1>2. q[m] \in Packet /\ q[c] \in Packet
  BY <1>1, ElementOfSeq
<1>a. PICK g \in Frame : \E j \in 1 .. Size[g] :
        /\ q[m].body[1] = g /\ q[m].body[2] = j /\ (q[m].final <=> j = Size[g])
        /\ q[m].frameId = (g - 1) % FRAME_IDS
  BY <1>2, PacketFields
<1>b. PICK h \in Frame : \E i \in 1 .. Size[h] :
        /\ q[c].body[1] = h /\ q[c].body[2] = i /\ q[c].seq = i - 1
        /\ q[c].frameId = (h - 1) % FRAME_IDS
  BY <1>2, PacketFields
<1>3. PICK j \in 1 .. Size[g] :
        /\ q[m].body[1] = g /\ q[m].body[2] = j /\ (q[m].final <=> j = Size[g])
        /\ q[m].frameId = (g - 1) % FRAME_IDS
  BY <1>a
<1>4. PICK i \in 1 .. Size[h] :
        /\ q[c].body[1] = h /\ q[c].body[2] = i /\ q[c].seq = i - 1
        /\ q[c].frameId = (h - 1) % FRAME_IDS
  BY <1>b
<1>5. /\ g \in Nat /\ h \in Nat /\ Size[g] \in Nat /\ Size[h] \in Nat /\ j \in Nat \ {0} /\ i \in Nat
      /\ FRAME_IDS \in Nat /\ MaxFaults \in Nat
  BY SizeOfAFrame, FramingAssumption, BleAssumption
<1>6. g <= h /\ (g < h => c - m >= (h - g - 1) + i + (Size[g] - j))
  <2>1. Apart(q[m], q[c], c - m)
    BY <1>1 DEF Stream, Spread
  <2> QED  BY <2>1, <1>3, <1>4 DEF Apart
<1>7. ASSUME g < h  PROVE FALSE
  <2>1. h - g >= FRAME_IDS
    BY <1>3, <1>4, <1>7, IdsComeRound
  <2>2. j < Size[g] /\ i = j + 1
    <3>1. j # Size[g] /\ j = i - 1
      BY <1>3, <1>4
    <3>2. j <= Size[g]
      BY <1>5
    <3> QED  BY <3>1, <3>2, <1>5
  <2>3. c - m >= FRAME_IDS - 1 + 2 + 1
    BY <2>1, <2>2, <1>5, <1>6, <1>7, <1>1
  <2> QED  BY <2>3, <1>1, <1>5
<1> QED  BY <1>3, <1>4, <1>5, <1>6, <1>7

LEMMA WholeInit == Init => Whole
<1> SUFFICES ASSUME Init  PROVE Whole
  OBVIOUS
<1>1. received = <<>> /\ air = <<>> /\ taken = <<>> /\ up /\ reassembler = EmptyReassembler
  BY DEF Init
<1>2. \A S : <<>> \in Seq(S)
  BY EmptySeq
<1>3. Len(<<>>) = 0
  BY EmptySeq
<1> QED  BY <1>1, <1>2, <1>3 DEF Whole, Airborne, Partial, Handed, Arrived

(* What a step does to the packets in the air.                              *)
LEMMA RadioStep ==
  ASSUME Next
  PROVE  \/ StackTakes
         \/ Arrive
         \/ Lose
         \/ ~up' /\ air' = <<>> /\ UNCHANGED receiver
         \/ UNCHANGED <<up, air, taken, receiver, faults>>
BY DEF Next, SendFrame, WriteAnswered, ReadyToWrite, Stall, Close, Disconnected, CloseAs,
   StackBusy, SlotTaken, NoteOwed, NoConnection, WriteCompleted, SlotFreed, Hint, ConnectionLost

LEMMA ArrivedIsANumber ==
  ASSUME Typed, Whole, up
  PROVE  Arrived \in Nat /\ Len(air) \in Nat /\ Len(taken) \in Nat /\ Arrived + Len(air) = Len(taken)
<1>1. Len(air) \in Nat /\ Len(taken) \in Nat /\ Len(air) <= Len(taken)
  BY LenProperties DEF Typed, Whole, Airborne
<1> QED  BY <1>1 DEF Arrived

(* The packet at the head of the air leaves it.                             *)
LEMMA HeadLeaves ==
  ASSUME Typed, Whole, air # <<>>, air' = Tail(air), UNCHANGED <<up, taken>>
  PROVE  /\ up /\ Arrived + 1 \in 1 .. Len(taken) /\ Head(air) = taken[Arrived + 1]
         /\ Arrived' = Arrived + 1 /\ Airborne'
<1>1. up /\ air \in Seq(Packet) /\ taken \in Seq(Packet)
  BY DEF Typed, Whole, Airborne
<1>2. /\ Arrived \in Nat /\ Len(air) \in Nat /\ Len(taken) \in Nat /\ Arrived + Len(air) = Len(taken)
  BY <1>1, ArrivedIsANumber
<1>3. /\ Len(air) # 0 /\ Head(air) = air[1] /\ Len(Tail(air)) = Len(air) - 1
      /\ \A i \in 1 .. Len(air) - 1 : Tail(air)[i] = air[i + 1]
  BY <1>1, Queue
<1>4. \A i \in 1 .. Len(air) : air[i] = taken[Arrived + i]
  BY <1>1 DEF Whole, Airborne
<1>5. Arrived' = Arrived + 1
  <2>1. Len(air') = Len(air) - 1 /\ Len(taken') = Len(taken)
    BY <1>3
  <2> QED  BY <2>1, <1>2 DEF Arrived
<1>6. Head(air) = taken[Arrived + 1] /\ Arrived + 1 \in 1 .. Len(taken)
  <2>1. 1 \in 1 .. Len(air)
    BY <1>2, <1>3
  <2> QED  BY <2>1, <1>2, <1>3, <1>4
<1>7. \A i \in 1 .. Len(air') : air'[i] = taken'[Arrived' + i]
  <2> TAKE i \in 1 .. Len(air')
  <2>1. i \in 1 .. Len(air) - 1 /\ i + 1 \in 1 .. Len(air) /\ Arrived' + i = Arrived + (i + 1)
    BY <1>2, <1>3, <1>5
  <2> QED  BY <2>1, <1>3, <1>4
<1>8. up' /\ Len(air') <= Len(taken')
  BY <1>1, <1>2, <1>3
<1> QED  BY <1>1, <1>5, <1>6, <1>7, <1>8 DEF Airborne

LEMMA WholeWhenTaken ==
  ASSUME Typed, Whole, StackTakes
  PROVE  Whole'
<1> DEFINE h == Head(js.outbound)
<1>1. /\ up /\ up' = up /\ air' = Append(air, h) /\ taken' = Append(taken, h)
      /\ UNCHANGED <<receiver, faults>>
  BY DEF StackTakes
<1>2. h \in Packet /\ air \in Seq(Packet) /\ taken \in Seq(Packet)
  BY StackTakesKeeps DEF Typed, SenderKept
<1> HIDE DEF h
<1>3. /\ Arrived \in Nat /\ Len(air) \in Nat /\ Len(taken) \in Nat /\ Arrived + Len(air) = Len(taken)
  BY <1>1, ArrivedIsANumber
<1>4. /\ Len(air') = Len(air) + 1 /\ air'[Len(air) + 1] = h
      /\ \A i \in 1 .. Len(air) : air'[i] = air[i]
  BY <1>1, <1>2, AppendProperties
<1>5. /\ Len(taken') = Len(taken) + 1 /\ taken'[Len(taken) + 1] = h
      /\ \A i \in 1 .. Len(taken) : taken'[i] = taken[i]
  BY <1>1, <1>2, AppendProperties
<1>6. Arrived' = Arrived
  BY <1>3, <1>4, <1>5 DEF Arrived
<1>7. \A m \in 1 .. Arrived : taken'[m] = taken[m]
  BY <1>3, <1>5
<1>8. Airborne'
  <2>1. \A i \in 1 .. Len(air') : air'[i] = taken'[Arrived' + i]
    <3> TAKE i \in 1 .. Len(air')
    <3>1. CASE i \in 1 .. Len(air)
      <4>1. air[i] = taken[Arrived + i] /\ Arrived + i \in 1 .. Len(taken)
        BY <3>1, <1>1, <1>3 DEF Whole, Airborne
      <4> QED  BY <4>1, <3>1, <1>4, <1>5, <1>6
    <3>2. CASE i = Len(air) + 1
      <4>1. Arrived + i = Len(taken) + 1
        BY <3>2, <1>3
      <4> QED  BY <4>1, <3>2, <1>4, <1>5, <1>6
    <3> QED  BY <3>1, <3>2, <1>3, <1>4
  <2>2. Len(air') <= Len(taken') /\ up'
    BY <1>1, <1>3, <1>4, <1>5
  <2> QED  BY <2>1, <2>2 DEF Airborne
<1>9. UNCHANGED <<reassembler, received, faults>>
  BY <1>1 DEF receiver
<1>10. Partial'
  <2>1. Partial
    BY <1>1 DEF Whole
  <2> QED  BY <2>1, <1>6, <1>7, <1>9 DEF Partial
<1>11. Handed'
  <2>1. Handed
    BY <1>1 DEF Whole
  <2> QED  BY <2>1, <1>6, <1>7, <1>9 DEF Handed
<1> QED  BY <1>8, <1>9, <1>10, <1>11 DEF Whole

LEMMA WholeWhenLost ==
  ASSUME Typed, Whole, Lose
  PROVE  Whole'
<1>1. /\ air # <<>> /\ air' = Tail(air) /\ faults' = faults + 1
      /\ UNCHANGED <<up, taken, reassembler, received>>
  BY DEF Lose, receiver
<1>2. up /\ Arrived' = Arrived + 1 /\ Airborne' /\ Arrived \in Nat /\ faults \in Nat
  BY <1>1, HeadLeaves, ArrivedIsANumber, BleAssumption DEF Typed
<1>3. Partial'
  <2>1. CASE reassembler = EmptyReassembler
    BY <2>1, <1>1 DEF Partial
  <2>2. CASE reassembler # EmptyReassembler
    <3>1. PICK m \in 1 .. Arrived :
            ~taken[m].final /\ reassembler = PartsUpTo(taken[m]) /\ Arrived - m <= faults
      BY <2>2, <1>2 DEF Whole, Partial
    <3>2. m \in 1 .. Arrived' /\ Arrived' - m <= faults'
      BY <3>1, <1>1, <1>2
    <3> QED  BY <3>1, <3>2, <1>1 DEF Partial
  <2> QED  BY <2>1, <2>2
<1>4. Handed'
  <2>1. \A m \in 1 .. Arrived : m \in 1 .. Arrived'
    BY <1>2
  <2>2. Handed
    BY <1>2 DEF Whole
  <2> QED  BY <2>1, <2>2, <1>1 DEF Handed
<1> QED  BY <1>1, <1>2, <1>3, <1>4 DEF Whole

(* What an arrival hands up: nothing, or the frame of the packet, whole and *)
(* later than any before it.                                                *)
LEMMA Arrival ==
  ASSUME MaxFaults <= FRAME_IDS, Typed, Streamed, Whole, Arrive
  PROVE  /\ Whole'
         /\ \/ received' = received
            \/ \E f \in Frame :
                 /\ f <= js.frame /\ received' = Append(received, Body(f))
                 /\ \/ received = <<>>
                    \/ \E g \in Frame : g < f /\ received[Len(received)] = Body(g)
<1> DEFINE p == Head(air)
           c == Arrived + 1
<1>1. /\ air # <<>> /\ air' = Tail(air) /\ UNCHANGED <<js, up, taken, faults>>
      /\ reassembler' = Push(reassembler, p).state
      /\ received' = IF Push(reassembler, p).frame = <<>> THEN received
                     ELSE Append(received, Push(reassembler, p).frame)
  BY DEF Arrive
<1>2. /\ up /\ c \in 1 .. Len(taken) /\ p = taken[c] /\ Arrived' = c /\ Airborne'
  BY <1>1, HeadLeaves
<1>3. /\ Arrived \in Nat /\ Len(taken) \in Nat /\ taken \in Seq(Packet) /\ faults \in Nat
      /\ faults <= MaxFaults /\ MaxFaults \in Nat
  BY <1>2, ArrivedIsANumber, BleAssumption DEF Typed
<1>4. Stream(taken, js.frame)
  <2>1. Open(js) /\ WaitingOf(js) \in Seq(Packet)
    BY <1>2, WaitingIsASeq DEF Typed, WellFormed, Bounded
  <2> QED  BY <2>1, <1>3, PrefixOfStream DEF Streamed
<1>5. p \in Packet
  BY <1>2, <1>3, ElementOfSeq
<1> HIDE DEF p
<1>6. \/ reassembler = EmptyReassembler
      \/ \E t \in Packet :
           /\ reassembler = PartsUpTo(t) /\ ~t.final
           /\ t.frameId = p.frameId /\ t.body[2] = p.seq => t.body[1] = p.body[1]
  <2>1. SUFFICES ASSUME reassembler # EmptyReassembler
                 PROVE  \E t \in Packet :
                          /\ reassembler = PartsUpTo(t) /\ ~t.final
                          /\ t.frameId = p.frameId /\ t.body[2] = p.seq => t.body[1] = p.body[1]
    OBVIOUS
  <2>2. PICK m \in 1 .. Arrived :
          ~taken[m].final /\ reassembler = PartsUpTo(taken[m]) /\ Arrived - m <= faults
    BY <2>1, <1>2 DEF Whole, Partial
  <2>3. m \in 1 .. c - 1 /\ c - 1 - m <= MaxFaults /\ m \in 1 .. Len(taken)
    BY <2>2, <1>2, <1>3
  <2>4. taken[m].frameId = p.frameId /\ taken[m].body[2] = p.seq => taken[m].body[1] = p.body[1]
    <3> HIDE DEF c
    <3> QED  BY <2>2, <2>3, <1>2, <1>4, NoSplice
  <2>5. taken[m] \in Packet
    BY <2>3, <1>3, ElementOfSeq
  <2> QED  BY <2>2, <2>4, <2>5
<1>7. \/ reassembler' = EmptyReassembler /\ received' = received
      \/ reassembler' = PartsUpTo(p) /\ ~p.final /\ received' = received
      \/ /\ reassembler' = EmptyReassembler /\ p.final
         /\ received' = Append(received, Body(p.body[1]))
  <2>1. p.body[1] \in Frame
    BY <1>5, PacketFields
  <2>2. Body(p.body[1]) # <<>>
    BY <2>1, BodyOfAFrame
  <2> QED  BY <1>1, <1>5, <1>6, <2>2, PushOutcome
<1>8. p.body[1] \in Frame /\ p.body[1] <= js.frame /\ Body(p.body[1]) \in {Body(f) : f \in Frame}
  <2>1. p.body[1] \in Frame
    BY <1>5, PacketFields
  <2>2. p.body[1] <= js.frame
    BY <1>2, <1>4 DEF Stream, Within
  <2> QED  BY <2>1, <2>2
<1>9. received \in Seq({Body(f) : f \in Frame})
  BY DEF Whole
<1>10. Partial'
  <2>1. CASE reassembler' = EmptyReassembler
    BY <2>1 DEF Partial
  <2>2. CASE reassembler' = PartsUpTo(p) /\ ~p.final
    <3>1. c \in 1 .. Arrived' /\ Arrived' - c <= faults' /\ taken'[c] = p
      BY <1>1, <1>2, <1>3
    <3> QED  BY <2>2, <3>1 DEF Partial
  <2> QED  BY <2>1, <2>2, <1>7
<1>11. (received' \in Seq({Body(f) : f \in Frame})) /\ Handed'
  <2>1. CASE received' = received
    <3>1. Handed /\ \A m \in 1 .. Arrived : m \in 1 .. Arrived'
      BY <1>2, <1>3 DEF Whole
    <3> QED  BY <2>1, <3>1, <1>1, <1>9 DEF Handed
  <2>2. CASE p.final /\ received' = Append(received, Body(p.body[1]))
    <3>1. /\ received' \in Seq({Body(f) : f \in Frame})
          /\ received'[Len(received')] = Body(p.body[1])
      BY <2>2, <1>8, <1>9, AppendProperties, LenProperties
    <3>2. c \in 1 .. Arrived' /\ taken'[c] = p
      BY <1>1, <1>2, <1>3
    <3> QED  BY <2>2, <3>1, <3>2 DEF Handed
  <2> QED  BY <2>1, <2>2, <1>7
<1>12. Whole'
  BY <1>2, <1>10, <1>11 DEF Whole
<1>13. ASSUME received # <<>>, p.final
       PROVE  \E g \in Frame : g < p.body[1] /\ received[Len(received)] = Body(g)
  <2>1. PICK m \in 1 .. Arrived :
          taken[m].final /\ received[Len(received)] = Body(taken[m].body[1])
    BY <1>13, <1>2 DEF Whole, Handed
  <2>2. m \in 1 .. c - 1 /\ m \in 1 .. Len(taken) /\ c - m \in Nat /\ c - m > 0
    BY <1>2, <1>3
  <2>3. taken[m] \in Packet
    BY <2>2, <1>3, ElementOfSeq
  <2>4. /\ taken[m].body[1] \in Frame /\ taken[m].body[2] = Size[taken[m].body[1]]
        /\ taken[m].body[1] \in Nat /\ Size[taken[m].body[1]] \in Nat
    BY <2>1, <2>3, PacketFields, SizeOfAFrame
  <2>5. /\ p.body[1] \in Nat /\ p.body[2] \in Nat /\ p.body[2] <= Size[p.body[1]]
    BY <1>5, PacketFields, SizeOfAFrame
  <2>6. Apart(taken[m], p, c - m)
    <3> HIDE DEF c
    <3> QED  BY <2>2, <1>2, <1>4 DEF Stream, Spread
  <2>7. taken[m].body[1] # p.body[1]
    <3>1. ASSUME taken[m].body[1] = p.body[1]  PROVE FALSE
      <4>1. c - m = p.body[2] - taken[m].body[2]
        BY <2>6, <3>1 DEF Apart
      <4> HIDE DEF c
      <4> QED  BY <4>1, <3>1, <2>2, <2>4, <2>5
    <3> QED  BY <3>1
  <2>8. taken[m].body[1] <= p.body[1]
    BY <2>6 DEF Apart
  <2> QED  BY <2>1, <2>4, <2>5, <2>7, <2>8
<1> QED  BY <1>7, <1>8, <1>12, <1>13

LEMMA WholeStep ==
  ASSUME MaxFaults <= FRAME_IDS, Typed, Streamed, Whole, [Next]_vars
  PROVE  Whole'
<1>1. CASE UNCHANGED <<up, air, taken, receiver, faults>>
  BY <1>1 DEF Whole, Airborne, Partial, Handed, Arrived, receiver
<1>2. CASE ~up' /\ air' = <<>> /\ UNCHANGED receiver
  BY <1>2 DEF Whole, Airborne, receiver
<1>3. CASE Arrive
  BY <1>3, Arrival
<1>4. CASE StackTakes
  BY <1>4, WholeWhenTaken
<1>5. CASE Lose
  BY <1>5, WholeWhenLost
<1>6. CASE UNCHANGED vars
  BY <1>6, <1>1 DEF vars
<1> QED  BY <1>1, <1>2, <1>3, <1>4, <1>5, <1>6, RadioStep

(* Only an arrival hands anything up, and only SendFrame sends.             *)
LEMMA ChannelStep ==
  ASSUME SenderKept, taken \in Seq(Packet), [Next]_vars
  PROVE  \/ js'.frame = js.frame + 1 /\ received' = received
         \/ Arrive
         \/ js'.frame = js.frame /\ received' = received
<1>1. CASE UNCHANGED vars
  BY <1>1 DEF vars, receiver
<1>2. CASE SendFrame
  BY <1>2, SendFrameKeeps DEF SendFrame, receiver
<1>3. CASE Next /\ ~SendFrame /\ ~Arrive
  <2>1. js'.frame = js.frame
    BY <1>3, SenderStep
  <2>2. received' = received
    BY <1>3 DEF Next, WriteAnswered, ReadyToWrite, Stall, Close, Disconnected, StackTakes, StackBusy,
         SlotTaken, NoteOwed, NoConnection, WriteCompleted, SlotFreed, Hint, ConnectionLost, Lose,
         receiver
  <2> QED  BY <2>1, <2>2
<1> QED  BY <1>1, <1>2, <1>3

LEMMA ReceivedGrows ==
  ASSUME NEW f \in Frame, received \in Seq({Body(g) : g \in Frame}),
         received' = Append(received, Body(f))
  PROVE  Received' = Append(Received, f)
<1> DEFINE n == Len(received)
           S == {Body(g) : g \in Frame}
           a == [i \in 1 .. n |-> FrameOf(received[i])]
           b == [i \in 1 .. n + 1 |-> FrameOf(received'[i])]
           T == {FrameOf(received[i]) : i \in 1 .. n} \cup {f}
<1>1. n \in Nat /\ DOMAIN received = 1 .. n /\ Body(f) \in S
  BY LenProperties
<1>2. /\ received' \in Seq(S) /\ Len(received') = n + 1
      /\ \A i \in 1 .. n : received'[i] = received[i]
      /\ received'[n + 1] = Body(f)
  BY <1>1, AppendProperties
<1>3. DOMAIN received' = 1 .. n + 1
  BY <1>2, LenProperties
<1>4. Received = a /\ Received' = b
  BY <1>1, <1>3 DEF Received
<1>5. FrameOf(Body(f)) = f
  BY BodyOfAFrame
<1>6. /\ DOMAIN a = 1 .. n /\ DOMAIN b = 1 .. n + 1
      /\ \A i \in 1 .. n : a[i] = FrameOf(received[i]) /\ a[i] \in T
      /\ \A i \in 1 .. n : b[i] = a[i]
      /\ b[n + 1] = f
  BY <1>1, <1>2, <1>5
<1>7. a \in [1 .. n -> T] /\ b \in [1 .. n + 1 -> T] /\ f \in T
  <2>1. f \in T
    OBVIOUS
  <2>2. a \in [1 .. n -> T]
    BY <1>6
  <2>3. \A i \in 1 .. n + 1 : b[i] \in T
    <3> TAKE i \in 1 .. n + 1
    <3>1. i \in 1 .. n \/ i = n + 1
      BY <1>1
    <3> HIDE DEF a, b, n, T
    <3> QED  BY <3>1, <2>1, <1>6
  <2>4. b \in [1 .. n + 1 -> T]
    BY <2>3
  <2> QED  BY <2>1, <2>2, <2>4
<1> HIDE DEF a, b, n, T, S
<1>8. a \in Seq(T) /\ b \in Seq(T)
  BY <1>1, <1>7, SeqDef
<1>9. Len(a) = n /\ Len(b) = n + 1
  BY <1>1, <1>6, <1>8, LenProperties
<1>10. /\ Append(a, f) \in Seq(T) /\ Len(Append(a, f)) = n + 1
       /\ \A i \in 1 .. n : Append(a, f)[i] = a[i]
       /\ Append(a, f)[n + 1] = f
  BY <1>7, <1>8, <1>9, AppendProperties
<1>11. \A i \in 1 .. n + 1 : b[i] = Append(a, f)[i]
  <2> TAKE i \in 1 .. n + 1
  <2>1. i \in 1 .. n \/ i = n + 1
    BY <1>1
  <2> QED  BY <2>1, <1>6, <1>10
<1>12. b = Append(a, f)
  BY <1>8, <1>9, <1>10, <1>11, SeqEqual
<1> QED  BY <1>4, <1>12

LEMMA ReceivedLast ==
  ASSUME received \in Seq({Body(g) : g \in Frame})
  PROVE  /\ received = <<>> => Received = <<>>
         /\ received # <<>> => Received[Len(Received)] = FrameOf(received[Len(received)])
<1>1. Len(received) \in Nat /\ DOMAIN received = 1 .. Len(received)
  BY LenProperties
<1>2. CASE received = <<>>
  <2>1. 1 .. Len(received) = {}
    BY <1>2, <1>1, EmptySeq
  <2>2. Received = [i \in {} |-> FrameOf(received[i])]
    BY <1>1, <2>1 DEF Received
  <2> QED  BY <1>2, <2>2
<1>3. CASE received # <<>>
  <2>1. Len(received) \in 1 .. Len(received)
    BY <1>1, <1>3, EmptySeq
  <2>2. DOMAIN Received = 1 .. Len(received)
    BY <1>1 DEF Received
  <2>3. Received \in [1 .. Len(received) -> {FrameOf(received[i]) : i \in 1 .. Len(received)}]
    BY <1>1 DEF Received
  <2>4. Received \in Seq({FrameOf(received[i]) : i \in 1 .. Len(received)})
    BY <1>1, <2>3, SeqDef
  <2>5. Len(Received) = Len(received)
    BY <1>1, <2>2, <2>4, LenProperties
  <2> QED  BY <2>1, <2>5, <1>1, <1>3 DEF Received
<1> QED  BY <1>2, <1>3

LEMMA ChannelInit == Init => Channel!Init
<1> SUFFICES ASSUME Init  PROVE Channel!Init
  OBVIOUS
<1>1. js.frame = 0 /\ received = <<>> /\ received \in Seq({Body(g) : g \in Frame})
  BY EmptySeq DEF Init
<1> QED  BY <1>1, ReceivedLast DEF Channel!Init

LEMMA ChannelNext ==
  ASSUME MaxFaults <= FRAME_IDS, Typed, Streamed, Whole, [Next]_vars
  PROVE  [Channel!Next]_<<js.frame, Received>>
<1>1. SenderKept /\ taken \in Seq(Packet) /\ received \in Seq({Body(g) : g \in Frame})
  BY DEF Typed, SenderKept, Whole
<1>2. CASE js'.frame = js.frame + 1 /\ received' = received
  <2>1. Received' = Received
    BY <1>2 DEF Received
  <2> QED  BY <1>2, <2>1 DEF Channel!Next, Channel!Send
<1>3. CASE js'.frame = js.frame /\ received' = received
  BY <1>3 DEF Received
<1>4. CASE Arrive
  <2>1. js'.frame = js.frame
    BY <1>4 DEF Arrive
  <2>2. CASE received' = received
    BY <2>1, <2>2, <1>3
  <2>3. CASE received' # received
    <3>1. PICK f \in Frame :
            /\ f <= js.frame /\ received' = Append(received, Body(f))
            /\ \/ received = <<>>
               \/ \E g \in Frame : g < f /\ received[Len(received)] = Body(g)
      BY <2>3, <1>4, Arrival
    <3>2. f \in 1 .. js.frame
      <4>1. f \in Nat \ {0} /\ js.frame \in Nat
        BY SizeOfAFrame, FramingAssumption DEF Typed, WellFormed, Bounded, Sender
      <4> QED  BY <4>1, <3>1
    <3>3. Received' = Append(Received, f)
      BY <1>1, <3>1, ReceivedGrows
    <3>4. Channel!Later(f)
      <4>1. CASE received = <<>>
        BY <4>1, <1>1, ReceivedLast DEF Channel!Later
      <4>2. CASE received # <<>>
        <5>1. PICK g \in Frame : g < f /\ received[Len(received)] = Body(g)
          BY <3>1, <4>2
        <5>2. Received[Len(Received)] = g
          BY <1>1, <4>2, <5>1, ReceivedLast, BodyOfAFrame
        <5>3. f > g
          BY <5>1, SizeOfAFrame
        <5> QED  BY <5>2, <5>3 DEF Channel!Later
      <4> QED  BY <4>1, <4>2
    <3>5. Channel!Receive
      BY <2>1, <3>2, <3>3, <3>4 DEF Channel!Receive
    <3> QED  BY <3>5 DEF Channel!Next
  <2> QED  BY <2>2, <2>3
<1> QED  BY <1>1, <1>2, <1>3, <1>4, ChannelStep

(* GattLink over the transport implements a link that may lose frames and   *)
(* never tears, splices, repeats or reorders them, as long as no more       *)
(* packets are lost than there are frame ids: the receiver knows a frame by *)
(* its id alone, and takes the tail of a later one for the rest of the      *)
(* frame it has begun when a whole round of ids was lost in between.        *)
THEOREM LinkImplementsFrameLink ==
  ASSUME MaxFaults <= FRAME_IDS
  PROVE  Spec => ImplementsFrameLink
<1>1. Init => Typed /\ Streamed /\ Whole
  BY TypedInit, StreamedInit, WholeInit
<1>2. (Typed /\ Streamed /\ Whole) /\ [Next]_vars => (Typed /\ Streamed /\ Whole)'
  BY TypedStep, StreamedStep, WholeStep
<1>3. (Typed /\ Streamed /\ Whole) /\ [Next]_vars => [Channel!Next]_<<js.frame, Received>>
  BY ChannelNext
<1> QED  BY <1>1, <1>2, <1>3, ChannelInit, PTL DEF Spec, ImplementsFrameLink, Channel!Spec
=============================================================================
