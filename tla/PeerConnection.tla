--------------------------- MODULE PeerConnection ---------------------------
(***************************************************************************)
(* What definitions.ts promises of connect(), disconnect() and the event   *)
(* `disconnected`: a promise settles, once; a connection that was handed   *)
(* out is alive until its end has been told or asked for.                  *)
(***************************************************************************)
CONSTANT Peer

VARIABLE link

Init == link = [p \in Peer |-> "none"]

Move(p, from, to) == link[p] \in from /\ link' = [link EXCEPT ![p] = to]

Ask(p) == Move(p, {"none"}, "asked")
Settle(p) == Move(p, {"asked"}, "up") \/ Move(p, {"asked"}, "none")
\* A peer that is already connected is handed out at once.
Join(p) == Move(p, {"none"}, "up")
\* Asked for with disconnect(), or told with `disconnected`.
End(p) == Move(p, {"up"}, "none")

\* The radio may go away under every peer at once.
EndAll == link' = [p \in Peer |-> "none"]

Next ==
  \/ \E p \in Peer : Ask(p) \/ Settle(p) \/ Join(p) \/ End(p)
  \/ EndAll

Safety == Init /\ [][Next]_link

Spec == Safety /\ \A p \in Peer : WF_link(Settle(p))
=============================================================================
