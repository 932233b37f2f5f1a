------------------------------ MODULE ScanBridge -----------------------------
(* The form bridge: payloads of scouting apps, scanned from QR codes, are     *)
(* matched to a profile, sealed and admitted (courier-bridge ingest.ts and    *)
(* profiles.ts, courier-cli commands.ts ingest).  A payload is text; what a   *)
(* profile reads in it depends on the columns that profile names, so a        *)
(* payload may fit the profile of another app and say something else there.   *)
EXTENDS Naturals

CONSTANTS Profile,
          Payload,
          App,         \* the profile of the app a payload comes from
          Reading,     \* per payload, what each profile it fits reads in it
          MaxRecords,  \* bound: records sealed, which bear ids 1 to MaxRecords
          MaxEdits     \* bound: edits of the profile set

\* A reading is the observation (match and team), the scout and the event the
\* payload declares; match "bad" stands for any value that packMatch or
\* makeRecord refuses, for either leaves nothing sealed and nothing remembered.
ReadEvent == {"absent", "ours", "foreign", "malformed"}

\* A payload fits the profile of the app it comes from.
PayloadAssumption == \A p \in Payload : App[p] \in DOMAIN Reading[p]

VARIABLES active,   \* the profiles in bridge_profiles.json
          seen,     \* ScanSuppressor: bodies of this session
          envelopes,\* sealed in this session, not yet in the store
          store,    \* the device's records
          refused,  \* bodies whose last scan was refused
          edits

vars == <<active, seen, envelopes, store, refused, edits>>

Init ==
  /\ active \in SUBSET Profile
  /\ seen = {} /\ envelopes = {} /\ store = {} /\ refused = {} /\ edits = 0

\* matchingProfiles
MatchingProfiles(p) == active \cap DOMAIN Reading[p]

\* Seeded defect of DetectProfile: several fit, and one of them is taken.
DetectProfileAny(p) == MatchingProfiles(p)

\* detectProfile: the one profile that fits, and none if several do.
DetectProfile(p) == {f \in MatchingProfiles(p) : MatchingProfiles(p) = {f}}

\* The event key, the match and what makes a record are checked before anything
\* is sealed.
Acceptable(r) == r.event \in {"absent", "ours"} /\ r.match # "bad"

RecordOf(p, f, id) ==
  [id |-> id, body |-> p, profile |-> f,
   match |-> Reading[p][f].match, team |-> Reading[p][f].team, scout |-> Reading[p][f].scout]

Ids == {r.id : r \in envelopes \cup store}

\* ingestScan of a payload whose body was seen in this session changes nothing.
\* Any unused id may be the next record's: ids are hashes.
Seal(p) ==
  /\ p \notin seen
  /\ \E f \in DetectProfile(p), id \in (1..MaxRecords) \ Ids :
       /\ Acceptable(Reading[p][f])
       /\ envelopes' = envelopes \cup {RecordOf(p, f, id)}
  /\ seen' = seen \cup {p}
  /\ refused' = refused \ {p}
  /\ UNCHANGED <<active, store, edits>>

\* Seeded defect of Refuse: the body is remembered as soon as it is looked at.
RefuseAndRemember(p) ==
  /\ p \notin seen
  /\ \A f \in DetectProfile(p) : ~Acceptable(Reading[p][f])
  /\ refused' = refused \cup {p} /\ seen' = seen \cup {p}
  /\ UNCHANGED <<active, envelopes, store, edits>>

\* Unmatched, ambiguous, wrong event or invalid.
Refuse(p) ==
  /\ p \notin seen
  /\ \A f \in DetectProfile(p) : ~Acceptable(Reading[p][f])
  /\ refused' = refused \cup {p}
  /\ UNCHANGED <<active, seen, envelopes, store, edits>>

\* ingest admits the session's envelopes and writes the store; the next batch
\* has a suppressor of its own.
Save ==
  /\ envelopes # {}
  /\ store' = store \cup envelopes
  /\ envelopes' = {} /\ seen' = {}
  /\ UNCHANGED <<active, refused, edits>>

\* The process ends before it has written the store.
Crash ==
  /\ seen # {}
  /\ envelopes' = {} /\ seen' = {}
  /\ UNCHANGED <<active, store, refused, edits>>

\* Between batches the operator may edit the profile set.
Edit(f) ==
  /\ seen = {} /\ edits < MaxEdits
  /\ active' = IF f \in active THEN active \ {f} ELSE active \cup {f}
  /\ edits' = edits + 1
  /\ UNCHANGED <<seen, envelopes, store, refused>>

Next ==
  \/ \E p \in Payload : Seal(p) \/ Refuse(p)
  \/ Save \/ Crash
  \/ \E f \in Profile : Edit(f)

Spec == Init /\ [][Next]_vars

\* A payload is never filed under another app's columns while its own profile
\* is there to contradict them, nor under an event that is not ours: it is
\* refused instead (profiles.ts:214, ingest.ts:151).
NeverMisrouted ==
  [][\A r \in envelopes' \ envelopes : App[r.body] \in active =>
       /\ r.profile = App[r.body]
       /\ Reading[r.body][App[r.body]].event \in {"absent", "ours"}]_vars

\* Only a body that stands sealed is taken for a second scan of one: a refused
\* payload can be scanned again once the profile set is mended, and so can one
\* whose session was lost (ingest.ts:221).
RefusedCanComeBack ==
  /\ seen = {r.body : r \in envelopes}
  /\ refused \cap seen = {}

(* A re-scan in a later session *)

Latest(rs) == CHOOSE r \in rs : \A s \in rs : s.id <= r.id

\* currentForObservation of the store, all of it at revision 0.
Current(rs, r) ==
  Latest({s \in rs : <<s.match, s.team, s.scout>> = <<r.match, r.team, r.scout>>}).body

\* Scanning a code again in a later session or on another device costs a
\* record, not an answer (ingest.ts:88).
RescanKeepsAnswer ==
  [][\A r \in store : (\A s \in store' \ store : \E t \in store : t.body = s.body) =>
       Current(store', r) = Current(store, r)]_vars
=============================================================================
