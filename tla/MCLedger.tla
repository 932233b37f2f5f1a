------------------------------- MODULE MCLedger ------------------------------
(* The ledger: the HTTP client that fetches from the two official sources     *)
(* (PoliteClient) and the reconciliation of what they list (OfficialResults). *)
(* One knows nothing of the documents and the other nothing of the network,   *)
(* so each is explored for itself.                                            *)
EXTENDS PoliteClient, TLC

CONSTANTS Played,  \* the matches of the event, by name
          Elsewhere, MaxMistakes, MaxField

VARIABLES part, tba, first, mistakes

official == <<tba, first, mistakes>>

Match == DOMAIN Played

Results == INSTANCE OfficialResults

ASSUME ResultsAssumption == Results!EventAssumption

MCInit == part \in {"client", "results"} /\ Init /\ Results!Init

MCNext ==
  /\ UNCHANGED part
  /\ \/ part = "client" /\ Next /\ UNCHANGED official
     \/ part = "results" /\ Results!Next /\ UNCHANGED vars

MCSpec == MCInit /\ [][MCNext]_<<part, vars, official>> /\ Fairness

\* A match of each level, all of number 1: the ids that could collide.
Held(level, number, compLevel, set, red, blue, score) ==
  [level |-> level, number |-> number, compLevel |-> compLevel, set |-> set,
   tbaNumber |-> IF set = 0 THEN number ELSE 1, red |-> {red}, blue |-> {blue}, score |-> score]
MCPlayed ==
  [practice1 |-> Held("practice", 1, "none", 0, 1, 2, 7),
   qual1 |-> Held("qualification", 1, "qm", 0, 3, 4, 0),
   playoff1 |-> Held("playoff", 1, "sf", 1, 1, 2, 3)]

\* Two callers of one client, as in the Promise.all of tba.ts:201.
Ages == {0, 1}
Asked == {3}

\* What a source said is in the output or in a conflict: reconcile.ts:11.
NothingSilent == Results!NothingSilent

\* A qualification match keeps its own teams and score: first.ts:66.
NeverCrossed == Results!NeverCrossed
=============================================================================
