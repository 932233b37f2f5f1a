---------------------------- MODULE PoliteClient ----------------------------
(***************************************************************************)
(* The HTTP client of the ledger (src/packages/ledger/src/http.ts): get()  *)
(* with its freshness window, conditional requests, throttle, retries and  *)
(* back-off, called by several callers at once (tba.ts:201 and first.ts:211*)
(* call it twice in one Promise.all) against a server whose documents      *)
(* change.                                                                 *)
(*                                                                         *)
(* Between two awaits JavaScript runs alone, so every action is the code   *)
(* from one await to the next.  Instants are kept as what is left until    *)
(* them: Tick lets one unit of time go by.  The injected clock is          *)
(* punctual: a sleeper wakes at the instant it asked for, in any order     *)
(* with the others due then.                                               *)
(***************************************************************************)
EXTENDS Integers, FiniteSetsExt

CONSTANTS
  Call,         \* callers of get(), each with one call at a time
  Url,
  None,
  Interval,     \* 1000 / requestsPerSecond
  MaxAttempts,
  BaseBackoff,
  MaxBackoff,
  RetryAfter,   \* waits a server asks for in Retry-After
  MaxAge,       \* freshness a server grants in Cache-Control
  MaxVersion    \* bound: how often a document changes

ASSUME ClientAssumption ==
  /\ Interval \in Nat \ {0}
  /\ MaxAttempts \in Nat \ {0}
  /\ BaseBackoff \in Nat /\ MaxBackoff \in Nat
  /\ RetryAfter \subseteq Nat /\ MaxAge \subseteq Nat
  /\ MaxVersion \in Nat

VARIABLES
  phase,         \* where each call is
  wait,          \* what is left of its sleep
  attempt,
  url,
  held,          \* the cache entry it read when it began
  response,      \* what the server answered and has not arrived yet
  untilAllowed,  \* #nextAllowedAt
  cache,
  published,     \* the server's version of each document
  since,         \* history: time since a call's last request, up to Interval
  asked          \* history: the version published when a call began

vars == <<phase, wait, attempt, url, held, response, untilAllowed, cache,
          published, since, asked>>

Phase == {"idle", "throttled", "fetching", "backoff"}
Version == 0..MaxVersion
Entry == [version: Version, fresh: Nat, maxAge: MaxAge]
Response ==
  [status: {"200"}, version: Version, age: MaxAge]
    \cup [status: {"304"}, age: MaxAge \cup {None}]
    \cup [status: {"busy", "refused", "broken"}]

ASSUME NoneAssumption == None \notin Response

TypeOK ==
  /\ phase \in [Call -> Phase]
  /\ wait \in [Call -> Nat]
  /\ attempt \in [Call -> 1..MaxAttempts]
  /\ url \in [Call -> Url]
  /\ held \in [Call -> Entry \cup {None}]
  /\ response \in [Call -> Response \cup {None}]
  /\ untilAllowed \in 0..Interval
  /\ cache \in [Url -> Entry \cup {None}]
  /\ published \in [Url -> Version]
  /\ since \in [Call -> 0..Interval]
  /\ asked \in [Call -> Version]

Init ==
  /\ phase = [c \in Call |-> "idle"]
  /\ wait = [c \in Call |-> 0]
  /\ attempt = [c \in Call |-> 1]
  /\ url = [c \in Call |-> CHOOSE u \in Url : TRUE]
  /\ held = [c \in Call |-> None]
  /\ response = [c \in Call |-> None]
  /\ untilAllowed = 0
  /\ cache = [u \in Url |-> None]
  /\ published = [u \in Url |-> 0]
  /\ since = [c \in Call |-> Interval]
  /\ asked = [c \in Call |-> 0]

-----------------------------------------------------------------------------
(* The throttle: the instant is read before the sleep and written after it.*)

\* Seeded defect of Request: the instant of the next request is not written.
RequestUnnoted(c) ==
  /\ phase' = [phase EXCEPT ![c] = "fetching"]
  /\ untilAllowed' = 0
  /\ since' = [since EXCEPT ![c] = 0]
  /\ UNCHANGED wait

\* The request leaves: the throttle has noted it.
Request(c) ==
  /\ phase' = [phase EXCEPT ![c] = "fetching"]
  /\ untilAllowed' = Interval
  /\ since' = [since EXCEPT ![c] = 0]
  /\ UNCHANGED wait

AwaitTurn(c) ==
  /\ phase' = [phase EXCEPT ![c] = "throttled"]
  /\ wait' = [wait EXCEPT ![c] = untilAllowed]
  /\ UNCHANGED <<untilAllowed, since>>

Throttle(c) == IF untilAllowed = 0 THEN Request(c) ELSE AwaitTurn(c)

\* Full jitter below an exponential ceiling.
Backoffs(n) ==
  LET ceiling == Min({MaxBackoff, BaseBackoff * 2 ^ (n - 1)})
  IN  {0} \cup 0..(ceiling - 1)

-----------------------------------------------------------------------------
(* get().                                                                  *)

Fresh(e) == e # None /\ e.fresh > 0

\* Inside the freshness window the cache answers and nothing changes; outside it
\* the call keeps the entry it read to the end.
Begin(c, u) ==
  /\ phase[c] = "idle"
  /\ ~Fresh(cache[u])
  /\ url' = [url EXCEPT ![c] = u]
  /\ held' = [held EXCEPT ![c] = cache[u]]
  /\ asked' = [asked EXCEPT ![c] = published[u]]
  /\ Throttle(c)
  /\ UNCHANGED <<attempt, response, cache, published>>

\* Seeded defect of TurnComes: who wakes looks again, and sleeps again when
\* another was first.
TurnCheckedAgain(c) ==
  /\ phase[c] = "throttled" /\ wait[c] = 0
  /\ Throttle(c)
  /\ UNCHANGED <<attempt, url, held, response, cache, published, asked>>

TurnComes(c) ==
  /\ phase[c] = "throttled" /\ wait[c] = 0
  /\ Request(c)
  /\ UNCHANGED <<attempt, url, held, response, cache, published, asked>>

BackoffOver(c) ==
  /\ phase[c] = "backoff" /\ wait[c] = 0
  /\ attempt' = [attempt EXCEPT ![c] = @ + 1]
  /\ Throttle(c)
  /\ UNCHANGED <<url, held, response, cache, published, asked>>

\* The call is over: with what it stored, or with an error.
Settle(c) ==
  /\ phase' = [phase EXCEPT ![c] = "idle"]
  /\ response' = [response EXCEPT ![c] = None]
  /\ held' = [held EXCEPT ![c] = None]
  /\ attempt' = [attempt EXCEPT ![c] = 1]
  /\ asked' = [asked EXCEPT ![c] = 0]
  /\ UNCHANGED <<wait, url, untilAllowed, published, since>>

Arrived(c, status) == response[c] # None /\ response[c].status = status

\* The max-age of a response, or what it falls back to (0 is in MaxAge: a 200
\* that grants none).
MaxAgeOf(r, fallback) == IF r.age = None THEN fallback ELSE r.age

Store(c, v, age) ==
  cache' = [cache EXCEPT ![url[c]] =
              [version |-> v, fresh |-> age, maxAge |-> age]]

\* Seeded defect of NotModified: the answer is what the cache holds by now.
NotModifiedFromCache(c) ==
  /\ Arrived(c, "304") /\ held[c] # None
  /\ Store(c, cache[url[c]].version, MaxAgeOf(response[c], held[c].maxAge))
  /\ Settle(c)

\* 304: the entry read at the beginning is put back, validated now.
NotModified(c) ==
  /\ Arrived(c, "304") /\ held[c] # None
  /\ Store(c, held[c].version, MaxAgeOf(response[c], held[c].maxAge))
  /\ Settle(c)

Received(c) ==
  /\ Arrived(c, "200")
  /\ Store(c, response[c].version, response[c].age)
  /\ Settle(c)

\* Errors that end the call: 4xx, a fetch that fails, a 304 out of nowhere,
\* and the last attempt answered by 429 or 5xx.
Failed(c) ==
  /\ \/ Arrived(c, "refused") \/ Arrived(c, "broken")
     \/ Arrived(c, "304") /\ held[c] = None
     \/ Arrived(c, "busy") /\ attempt[c] = MaxAttempts
  /\ Settle(c)
  /\ UNCHANGED cache

MayRetry(c) == attempt[c] < MaxAttempts

\* 429 or 5xx: sleep what the server asks for or a back-off, then try again.
\* The sleep is outside the throttle.
Retry(c) ==
  /\ Arrived(c, "busy") /\ MayRetry(c)
  /\ \E w \in RetryAfter \cup Backoffs(attempt[c]) : wait' = [wait EXCEPT ![c] = w]
  /\ phase' = [phase EXCEPT ![c] = "backoff"]
  /\ response' = [response EXCEPT ![c] = None]
  /\ UNCHANGED <<attempt, url, held, untilAllowed, cache, published, since,
                 asked>>

-----------------------------------------------------------------------------
(* The server and the clock.                                               *)

Publish(u) ==
  /\ published[u] < MaxVersion
  /\ published' = [published EXCEPT ![u] = @ + 1]
  /\ UNCHANGED <<phase, wait, attempt, url, held, response, untilAllowed, cache,
                 since, asked>>

\* A conditional request may be answered 304 while its entry is current (one
\* without a validator gets a 200, which the server may always give); a call that
\* holds nothing may be answered so by a proxy.
Replies(c) ==
  [status: {"200"}, version: {published[url[c]]}, age: MaxAge]
    \cup {r \in [status: {"304"}, age: MaxAge \cup {None}] :
            held[c] # None => held[c].version = published[url[c]]}
    \cup [status: {"busy", "refused", "broken"}]

Handle(c) ==
  /\ phase[c] = "fetching" /\ response[c] = None
  /\ \E r \in Replies(c) : response' = [response EXCEPT ![c] = r]
  /\ UNCHANGED <<phase, wait, attempt, url, held, untilAllowed, cache, published,
                 since, asked>>

Less(n) == IF n = 0 THEN 0 ELSE n - 1

\* Time goes by, unless a sleeper is due.
Tick ==
  /\ \A c \in Call : phase[c] \in {"throttled", "backoff"} => wait[c] > 0
  /\ wait' = [c \in Call |-> Less(wait[c])]
  /\ untilAllowed' = Less(untilAllowed)
  /\ since' = [c \in Call |-> IF since[c] = Interval THEN Interval ELSE since[c] + 1]
  /\ cache' = [u \in Url |-> IF cache[u] = None THEN None
                             ELSE [cache[u] EXCEPT !.fresh = Less(@)]]
  /\ UNCHANGED <<phase, attempt, url, held, response, published, asked>>

Answered(c) == NotModified(c) \/ Received(c) \/ Failed(c) \/ Retry(c)
Woken(c) == TurnComes(c) \/ BackoffOver(c)

Next ==
  \/ \E c \in Call :
       \/ \E u \in Url : Begin(c, u)
       \/ Woken(c) \/ Handle(c) \/ Answered(c)
  \/ \E u \in Url : Publish(u)
  \/ Tick

\* The event loop runs what is due, time goes by, and a fetch settles.
Fairness ==
  /\ WF_vars(Tick)
  /\ \A c \in Call : WF_vars(Woken(c)) /\ WF_vars(Handle(c)) /\ WF_vars(Answered(c))

Spec == Init /\ [][Next]_vars
FairSpec == Spec /\ Fairness

-----------------------------------------------------------------------------
(* Properties.                                                             *)

Sends(c) == phase[c] # "fetching" /\ phase'[c] = "fetching"

\* The requests of one call, retries included, are an interval apart from each
\* other and from those of the caller's last call (http.ts:164): n callers make
\* at most n requests in an interval.
PacedPerCaller == [][\A c \in Call : Sends(c) => since[c] >= Interval]_vars

\* The comment of #throttle (http.ts:163): "Wait for the token bucket.
\* Serialised per client, which is per source." - the requests of a client are
\* an interval apart, whoever makes them.
Serialised == [][\A c, d \in Call : Sends(c) => since[d] >= Interval]_vars

\* A call that went to the network returns, and stores, a version that was
\* current at some time during the call (http.ts:214 to 233), whatever the other
\* calls did to the cache while it waited.
CurrentWhenAsked ==
  [][\A c \in Call :
       LET u == url[c] IN
       phase[c] = "fetching" /\ phase'[c] = "idle" /\ cache'[u] # cache[u]
         => cache'[u].version \in asked[c]..published[u]]_vars

\* What a call has left to do, in steps of its own: an attempt takes four (turn,
\* request, answer, back-off), and there are MaxAttempts of them.
StepsLeft(c) ==
  LET ofAttempt == IF phase[c] = "throttled" THEN 3
                   ELSE IF phase[c] = "backoff" THEN 0
                   ELSE IF response[c] = None THEN 2 ELSE 1
  IN  IF phase[c] = "idle" THEN 0 ELSE 4 * (MaxAttempts - attempt[c]) + ofAttempt

\* Every step of a call brings it nearer its end, and nothing takes it back:
\* neither the other callers, nor the server, nor time (http.ts:207 to 258).
CallsRunDown ==
  [][\A c \in Call : phase[c] # "idle" =>
       /\ StepsLeft(c)' <= StepsLeft(c)
       /\ Woken(c) \/ Handle(c) \/ Answered(c) => StepsLeft(c)' < StepsLeft(c)]_vars

\* Nor is a call ever without a step to come: it sleeps for a known time, its
\* turn no longer than an interval away, or its request is out, or get() has a
\* case for the answer.
NoCallIsStranded ==
  \A c \in Call :
    \/ phase[c] = "idle"
    \/ phase[c] = "throttled" /\ wait[c] \in 0..Interval
    \/ phase[c] = "backoff" /\ wait[c] \in Nat /\ MayRetry(c)
    \/ phase[c] = "fetching" /\ response[c] = None
    \/ phase[c] = "fetching" /\ response[c] # None
       /\ \/ response[c].status \in {"200", "304", "refused", "broken"}
          \/ response[c].status = "busy" /\ (MayRetry(c) \/ attempt[c] = MaxAttempts)

\* Every get() settles (http.ts:207 to 258) when fetch does: attempts are
\* bounded, no call waits for a turn for ever.
EveryGetSettles == \A c \in Call : phase[c] # "idle" ~> phase[c] = "idle"
=============================================================================
