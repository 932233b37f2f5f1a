------------------------------ MODULE FrameLink ------------------------------
(****************************************************************************)
(* What a Link promises a sync session (courier-transport: link.ts): frames *)
(* come whole and in the order they were sent, each at most once.  A link   *)
(* may lose frames; it never tears, splices, repeats or reorders them.      *)
(****************************************************************************)
EXTENDS Naturals, Sequences

VARIABLES sent,      \* how many frames have been handed to the link
          received   \* the frames handed up, by their number

Init == sent = 0 /\ received = <<>>

Send == sent' = sent + 1 /\ UNCHANGED received

Later(f) == received = <<>> \/ f > received[Len(received)]

Receive ==
  /\ \E f \in 1 .. sent : Later(f) /\ received' = Append(received, f)
  /\ UNCHANGED sent

Next == Send \/ Receive

Spec == Init /\ [][Next]_<<sent, received>>
=============================================================================
