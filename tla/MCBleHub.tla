------------------------------- MODULE MCBleHub -------------------------------
(* One peer that is dialled and one that calls us.  What the hub does with  *)
(* a packet does not depend on how its peer came: only the second one talks.*)
EXTENDS BleHub

CONSTANTS dialled, calling

MCPackets == [p \in Peer |-> IF p = calling THEN 3 ELSE 0]
===============================================================================
