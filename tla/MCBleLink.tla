------------------------------ MODULE MCBleLink ------------------------------
(* Three frames of one, three and two packets over a queue of two, with two *)
(* frame ids, so that the third frame bears the id of the first.            *)
EXTENDS BleLink

MCSize == <<1, 3, 2>>

(* The second frame is longer than a reassembler takes.                     *)
MCLong == <<2, 4, 1>>
=============================================================================
