--------------------------- MODULE Advertisement ---------------------------
(***************************************************************************)
(* What definitions.ts promises of startAdvertising() and                  *)
(* stopAdvertising(): a start settles, and a device that was stopped stays *)
(* off the air until the next start.  A platform may keep the wish while   *)
(* the radio is away ("resting") and resume on its own.                    *)
(*                                                                         *)
(* The weak place is a stop that comes while a start is under way.  If     *)
(* nothing was handed to the stack yet, the start is "withdrawn": it       *)
(* settles off the air.  If the stack is starting, the stop may come too   *)
(* soon to be heard ("late"): the device comes, and stays, on the air      *)
(* until the next stop, start or outage.                                   *)
(***************************************************************************)
VARIABLE phase

Init == phase = "off"

Move(from, to) == phase \in from /\ phase' \in to

Ask == Move({"off", "on", "resting", "withdrawn", "late"}, {"asked"})
Settle ==
  \/ Move({"asked"}, {"on", "off", "resting"})
  \/ Move({"withdrawn"}, {"off"})
Stop ==
  \/ Move({"on", "resting", "late"}, {"off"})
  \/ Move({"asked"}, {"withdrawn"})
\* The stop of what the stack is still starting.
StopUnheard == Move({"asked", "resting"}, {"late"})
\* The radio goes away and comes back.
Lapse ==
  \/ Move({"on"}, {"off", "resting"})
  \/ Move({"late"}, {"off"})
Resume == Move({"resting"}, {"on"})

Next == Ask \/ Settle \/ Stop \/ StopUnheard \/ Lapse \/ Resume

Safety == Init /\ [][Next]_phase

Spec == Safety /\ WF_phase(Settle)
=============================================================================
