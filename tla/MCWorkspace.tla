----------------------------- MODULE MCWorkspace ------------------------------
(* Small teams for TLC.                                                     *)
EXTENDS Workspace, TLC

Alike == Permutations(Device)
===============================================================================
