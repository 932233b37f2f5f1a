----------------------------- MODULE GattFraming -----------------------------
(****************************************************************************)
(* Frames over GATT packets (courier-ble: framing.ts).  A frame is named by *)
(* its place in the order of sending; the body of a packet says which frame *)
(* and which part of it the bytes are, which the receiver cannot see.       *)
(****************************************************************************)
EXTENDS Integers, Sequences

CONSTANTS Size,               \* packets of each frame, in the order of sending
          FRAME_IDS,          \* how many frame ids there are before they repeat
          MAX_FRAME_PACKETS   \* longest frame a reassembler takes

ASSUME FramingAssumption ==
  /\ Size \in Seq(Nat \ {0})
  /\ FRAME_IDS \in Nat \ {0}
  /\ MAX_FRAME_PACKETS \in Nat \ {0}

Frame == 1 .. Len(Size)

Body(f) == [i \in 1 .. Size[f] |-> <<f, i>>]

(* split, under the id the link's counter has reached.                      *)
Split(f) ==
  [i \in 1 .. Size[f] |->
     [frameId |-> (f - 1) % FRAME_IDS, seq |-> i - 1, final |-> i = Size[f], body |-> <<f, i>>]]

Packet == UNION {{Split(f)[i] : i \in 1 .. Size[f]} : f \in Frame}

NoFrame == -1

EmptyReassembler == [frameId |-> NoFrame, parts |-> <<>>]

(* A partial frame gives way to a packet of another frame.                  *)
Abandon(r, packet) == IF r.frameId # packet.frameId THEN EmptyReassembler ELSE r

(* The sequence number a packet must carry to be the next of its frame.     *)
Expected(r) == Len(r.parts)

(* Seeded defect of InSequence: a gap inside a frame goes unnoticed.        *)
AnyAfterHead(r, packet) == packet.seq = 0 \/ r.frameId # NoFrame

InSequence(r, packet) == packet.seq = Expected(r)

(* Reassembler.push: the state left, and the frame completed or <<>>.  A    *)
(* packet out of sequence discards the partial frame, whether it was        *)
(* dropped (joined mid-frame) or refused (FramingError).                    *)
Push(r, packet) ==
  LET kept  == Abandon(r, packet)
      parts == Append(kept.parts, packet.body)
      taken == InSequence(kept, packet) /\ Len(parts) <= MAX_FRAME_PACKETS
  IN  [state |-> IF taken /\ ~packet.final
                 THEN [frameId |-> packet.frameId, parts |-> parts]
                 ELSE EmptyReassembler,
       frame |-> IF taken /\ packet.final THEN parts ELSE <<>>]
=============================================================================
