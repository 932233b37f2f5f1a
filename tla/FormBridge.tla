----------------------------- MODULE FormBridge ------------------------------
(* ScanBridge under names of its own, to stand beside the view of the stores  *)
(* its records end up in: what it assumes of the payloads, and what it        *)
(* promises.                                                                  *)
CONSTANTS Profile, Payload, App, Reading, MaxRecords, MaxEdits

VARIABLES active, seen, envelopes, store, refused, edits

bridge == <<active, seen, envelopes, store, refused, edits>>

Bridge == INSTANCE ScanBridge

ASSUME ReadingAssumption == Bridge!PayloadAssumption

(* No payload goes under another app's columns: profiles.ts:214.              *)
NeverMisrouted == Bridge!NeverMisrouted

(* A refusal is not remembered as a scan: ingest.ts:221.                      *)
RefusedCanComeBack == Bridge!RefusedCanComeBack

(* A second scan costs a record and not an answer: ingest.ts:88.              *)
RescanKeepsAnswer == Bridge!RescanKeepsAnswer
=============================================================================
