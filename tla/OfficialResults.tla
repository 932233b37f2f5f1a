--------------------------- MODULE OfficialResults ---------------------------
(* The two official sources of one event as they fill in, and what the ledger *)
(* makes of them at any moment: normaliseMatches (tba.ts),                    *)
(* normaliseFirstMatches (first.ts) and reconcileSnapshots (reconcile.ts),    *)
(* over the match ids of courier-core/src/matchkey.ts.  Both sources are      *)
(* services outside the code: they list the matches of the event, later their *)
(* results, and now and then they are wrong.                                  *)
EXTENDS Integers, FiniteSets

CONSTANTS Match,       \* the matches of the event, practice ones included
          Played,      \* what each is: level, number, TBA's key, alliances, score
          Elsewhere,   \* a team no alliance of the event has
          MaxMistakes, \* wrong rosters and scores the sources list between them
          MaxField     \* widest set or match number (4095)

\* What is taken for granted of an event: a match has one level, which both
\* sources know, a qualification match one number, which is its own, and scores
\* are numbers. MAX_FIELD is what twelve bits hold.
EventAssumption ==
  /\ MaxField \in 1..4095
  /\ \A m \in Match :
       /\ Played[m].score \in Nat
       /\ Played[m].compLevel = "qm" <=> Played[m].level = "qualification"
       /\ Played[m].level = "qualification" => Played[m].tbaNumber = Played[m].number
  /\ \A m, n \in Match :
       /\ Played[m].level = "qualification" /\ Played[n].level = "qualification"
       /\ Played[m].number = Played[n].number
       => m = n

VARIABLES tba,    \* per match, TBA's row of it, if any
          first,  \* per match, FIRST's row of it, listed once or twice, if any
          mistakes

vars == <<tba, first, mistakes>>

\* A row is listed without a result before the match and with one after it;
\* either part of it may be wrong.
Row == [copies : 0..2, result : BOOLEAN, rightRoster : BOOLEAN, rightScore : BOOLEAN]
Unlisted == [copies |-> 0, result |-> FALSE, rightRoster |-> TRUE, rightScore |-> TRUE]

(***************************** match ids ***********************************)

LevelCode == [qm |-> 1, ef |-> 2, qf |-> 3, sf |-> 4, f |-> 5]
SetUnit == 4096        \* << 12
LevelUnit == 16777216  \* << 24
NoId == 0

\* packMatch: level, set and number in one integer, or a refusal.
PackMatch(level, set, number) ==
  IF /\ level \in DOMAIN LevelCode
     /\ set \in 0..MaxField /\ number \in 1..MaxField
     /\ (level = "qm") = (set = 0)
  THEN LevelCode[level] * LevelUnit + set * SetUnit + number
  ELSE NoId

\* unpackMatch, as far as the reconciler asks.
IsQual(id) == (id \div LevelUnit) % 256 = LevelCode["qm"]
Number(id) == id % SetUnit

(**************************** normalisation ********************************)

Alliance(teams, right) == IF right THEN teams ELSE {Elsewhere}
NoScore == -1
Score(m, row) ==
  IF ~row.result THEN NoScore ELSE Played[m].score + (IF row.rightScore THEN 0 ELSE 1)

Entry(m, id, row) ==
  [match |-> id, red |-> Alliance(Played[m].red, row.rightRoster), blue |-> Played[m].blue,
   score |-> Score(m, row)]

\* A qualification match has no set, whatever its row says.
TbaId(m) ==
  LET level == Played[m].compLevel
  IN  PackMatch(level, IF level = "qm" THEN 0 ELSE Played[m].set, Played[m].tbaNumber)

\* normaliseMatches: TBA names each match by its own level, set and number.
TbaEntries ==
  {Entry(m, TbaId(m), tba[m]) : m \in {n \in Match : tba[n] # Unlisted /\ TbaId(n) # NoId}}

\* Seeded defect of CompLevelFor: practice matches are qualification matches,
\* as they once were.
CompLevelForOnce(level) ==
  CASE level \in {"qualification", "practice"} -> "qm" [] level = "playoff" -> "sf" [] OTHER -> "none"

\* compLevelFor: practice is left out of LEVELS.
CompLevelFor(level) ==
  CASE level = "qualification" -> "qm" [] level = "playoff" -> "sf" [] OTHER -> "none"

FirstId(m) ==
  LET level == CompLevelFor(Played[m].level)
  IN  PackMatch(level, IF level = "qm" THEN 0 ELSE 1, Played[m].number)

\* The rows of normaliseFirstMatches before collisions: a row listed twice
\* counts twice.
Imported ==
  {r \in Match \X {1, 2} : r[2] <= first[r[1]].copies /\ FirstId(r[1]) # NoId}

\* Rows that pack to one id are dropped, all of them.
FirstEntries ==
  LET rows == Imported
      alone == {r \in rows : \A s \in rows \ {r} : FirstId(s[1]) # FirstId(r[1])}
  IN  {Entry(r[1], FirstId(r[1]), first[r[1]]) : r \in alone}

(**************************** reconciliation *******************************)

Of(entries, id) == CHOOSE e \in entries : e.match = id
Ids(entries) == {e.match : e \in entries}
\* What each source said is quoted, if it said anything.
Conflict(kind, id, t, f) == [kind |-> kind, match |-> id, tba |-> t, first |-> f]
Roster(e) == <<e.red, e.blue>>

\* Seeded defect of Differences: totals are compared only where the rosters
\* agree.
DifferencesIfSameTeams(t, f) ==
  (IF Roster(t) # Roster(f) THEN {Conflict("roster-mismatch", t.match, {Roster(t)}, {Roster(f)})}
   ELSE IF t.score # f.score THEN {Conflict("score-mismatch", t.match, {<<t.score>>}, {<<f.score>>})}
   ELSE {})

\* What is reported of a qualification match both sources have.
Differences(t, f) ==
  (IF Roster(t) # Roster(f)
   THEN {Conflict("roster-mismatch", t.match, {Roster(t)}, {Roster(f)})} ELSE {})
  \cup
  (IF (t.score = NoScore) # (f.score = NoScore)
   THEN {Conflict("result-presence-mismatch", t.match, {<<t.score>>}, {<<f.score>>})}
   ELSE IF t.score # f.score
   THEN {Conflict("score-mismatch", t.match, {<<t.score>>}, {<<f.score>>})} ELSE {})

\* Identity from TBA; the score from FIRST once it has one.
Merged(t, f) == [t EXCEPT !.score = IF f.score # NoScore THEN f.score ELSE t.score]

\* reconcileSnapshots, of the entries T of TBA and F of FIRST.
Reconcile(T, F) ==
  LET listed == Ids(T) \cup Ids(F)
      both == {id \in Ids(T) \cap Ids(F) : IsQual(id)}
      quoted(entries, id) == {Roster(e) : e \in {x \in entries : x.match = id}}
      single(id) == Conflict(IF IsQual(id) THEN "missing-from-source" ELSE "unreconcilable-level",
                             id, quoted(T, id), quoted(F, id))
      merged == {Merged(Of(T, id), Of(F, id)) : id \in both}
      alone(entries) == {e \in entries : e.match \notin both}
  IN  [matches |-> merged \cup alone(T) \cup {e \in alone(F) : e.match \notin Ids(T)},
       conflicts |-> (UNION {Differences(Of(T, id), Of(F, id)) : id \in both})
                     \cup {single(id) : id \in listed \ both}]

(***************************** the sources *********************************)

Init ==
  /\ tba = [m \in Match |-> Unlisted]
  /\ first = [m \in Match |-> Unlisted]
  /\ mistakes = 0

MayErr(right) == right \/ mistakes < MaxMistakes
Err(right) == mistakes' = IF right THEN mistakes ELSE mistakes + 1

\* TBA has no practice matches, and one row for a key.
TbaLists(m, right) ==
  /\ tba[m] = Unlisted /\ Played[m].level # "practice" /\ MayErr(right)
  /\ tba' = [tba EXCEPT ![m] = [Unlisted EXCEPT !.copies = 1, !.rightRoster = right]]
  /\ Err(right) /\ UNCHANGED first

TbaScores(m, right) ==
  /\ tba[m].copies > 0 /\ ~tba[m].result /\ MayErr(right)
  /\ tba' = [tba EXCEPT ![m].result = TRUE, ![m].rightScore = right]
  /\ Err(right) /\ UNCHANGED first

FirstLists(m, copies, right) ==
  /\ first[m] = Unlisted /\ MayErr(right)
  /\ first' = [first EXCEPT ![m] = [Unlisted EXCEPT !.copies = copies, !.rightRoster = right]]
  /\ Err(right) /\ UNCHANGED tba

FirstScores(m, right) ==
  /\ first[m].copies > 0 /\ ~first[m].result /\ MayErr(right)
  /\ first' = [first EXCEPT ![m].result = TRUE, ![m].rightScore = right]
  /\ Err(right) /\ UNCHANGED tba

Next ==
  \E m \in Match, right \in BOOLEAN :
    \/ TbaLists(m, right)
    \/ TbaScores(m, right)
    \/ \E copies \in {1, 2} : FirstLists(m, copies, right)
    \/ FirstScores(m, right)

Spec == Init /\ [][Next]_vars

(****************************** properties *********************************)

RosterKinds == {"roster-mismatch"}
ScoreKinds == {"score-mismatch", "result-presence-mismatch"}

\* What a source said of a qualification match is in the output, or quoted in
\* a conflict beside it: the value of one source never replaces the other's
\* without a trace, and a clean reconciliation hides nothing (reconcile.ts:11).
NothingSilent ==
  LET T == TbaEntries
      F == FirstEntries
      R == Reconcile(T, F)
      quotes(kinds, id) == {c \in R.conflicts : c.match = id /\ c.kind \in kinds}
      kept(e, source) ==
        \E out \in R.matches :
          /\ out.match = e.match
          /\ Roster(e) = Roster(out)
               \/ \E c \in quotes(RosterKinds, e.match) : c[source] = {Roster(e)}
          /\ e.score = out.score
               \/ \E c \in quotes(ScoreKinds, e.match) : c[source] = {<<e.score>>}
  IN  /\ \A e \in T : IsQual(e.match) => kept(e, "tba")
      /\ \A e \in F : IsQual(e.match) => kept(e, "first")
      /\ \A e, f \in R.matches : e.match = f.match /\ IsQual(e.match) => e = f
      /\ R.conflicts = {} => Ids(T) = Ids(F)

\* While neither source is wrong, every qualification match in the output has
\* its own alliances and its own score, and no disagreement is made up, in
\* whatever order practice, qualification and playoff rows come in and however
\* often FIRST lists one (first.ts:66 to 76, 149).
NeverCrossed ==
  LET R == Reconcile(TbaEntries, FirstEntries)
  IN  mistakes = 0 =>
        /\ \A c \in R.conflicts : c.kind \notin RosterKinds \cup {"score-mismatch"}
        /\ \A e \in {x \in R.matches : IsQual(x.match)} : \E m \in Match :
             /\ Played[m].level = "qualification" /\ Played[m].number = Number(e.match)
             /\ Roster(e) = <<Played[m].red, Played[m].blue>>
             /\ e.score \in {NoScore, Played[m].score}
=============================================================================
