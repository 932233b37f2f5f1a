----------------------------- MODULE LedgerProofs -----------------------------
(* The ledger's client, for any number of callers, documents, attempts and    *)
(* waits: how far apart its requests are, how old what it returns may be, and *)
(* that every call runs down and is never left without a step to come.        *)
(* And the official results, for any matches: that no source is silenced and  *)
(* no match takes another's teams or score.                                   *)
EXTENDS MCLedger, TLAPS

-----------------------------------------------------------------------------
(* The pace.                                                                 *)

\* The instant the throttle keeps lies an interval after every call's last
\* request, and a call that sleeps for its turn sleeps at least that long.
Pace ==
  /\ phase \in [Call -> Phase]
  /\ untilAllowed \in 0..Interval
  /\ since \in [Call -> 0..Interval]
  /\ wait = [c \in Call |-> wait[c]]
  /\ \A c \in Call : untilAllowed >= Interval - since[c]
  /\ \A c \in Call : phase[c] = "throttled" =>
       wait[c] \in Nat /\ wait[c] >= Interval - since[c]

LEMMA PaceInit == Init => Pace
BY ClientAssumption DEF Init, Pace, Phase

\* A request leaves no earlier than the pace allows, and moves it on.
LEMMA PaceRequest ==
  ASSUME Pace, NEW c \in Call, Request(c)
  PROVE  Pace'
BY ClientAssumption DEF Pace, Phase, Request

LEMMA PaceThrottle ==
  ASSUME Pace, NEW c \in Call, Throttle(c)
  PROVE  Pace'
<1>1. CASE Request(c)
  BY <1>1, PaceRequest
<1>2. CASE AwaitTurn(c)
  BY <1>2, ClientAssumption DEF Pace, Phase, AwaitTurn
<1>3. QED BY <1>1, <1>2 DEF Throttle

\* A call that ends touches nothing of the pace but its own phase.
LEMMA PaceSettle ==
  ASSUME Pace, NEW c \in Call, Settle(c)
  PROVE  Pace'
BY ClientAssumption DEF Pace, Phase, Settle

LEMMA PaceRetry ==
  ASSUME Pace, NEW c \in Call, Retry(c)
  PROVE  Pace'
BY ClientAssumption DEF Pace, Phase, Retry

\* Time takes as much from the throttle's instant and from every sleep as it
\* adds to the time since the last request.
LEMMA PaceTick ==
  ASSUME Pace, Tick
  PROVE  Pace'
BY ClientAssumption DEF Pace, Phase, Tick, Less

LEMMA PaceStep == Pace /\ [Next]_vars => Pace'
<1> SUFFICES ASSUME Pace, [Next]_vars PROVE Pace'
  OBVIOUS
<1>1. ASSUME NEW c \in Call, NEW u \in Url, Begin(c, u) PROVE Pace'
  BY <1>1, PaceThrottle DEF Begin
<1>2. ASSUME NEW c \in Call, TurnComes(c) PROVE Pace'
  BY <1>2, PaceRequest DEF TurnComes
<1>3. ASSUME NEW c \in Call, BackoffOver(c) PROVE Pace'
  BY <1>3, PaceThrottle DEF BackoffOver
<1>4. ASSUME NEW c \in Call, Handle(c) PROVE Pace'
  BY <1>4 DEF Handle, Pace
<1>5. ASSUME NEW c \in Call, NotModified(c) \/ Received(c) \/ Failed(c) PROVE Pace'
  BY <1>5, PaceSettle DEF NotModified, Received, Failed
<1>6. ASSUME NEW c \in Call, Retry(c) PROVE Pace'
  BY <1>6, PaceRetry
<1>7. ASSUME NEW u \in Url, Publish(u) PROVE Pace'
  BY <1>7 DEF Publish, Pace
<1>8. CASE Tick
  BY <1>8, PaceTick
<1>9. CASE UNCHANGED vars
  BY <1>9 DEF vars, Pace
<1>10. QED
  BY <1>1, <1>2, <1>3, <1>4, <1>5, <1>6, <1>7, <1>8, <1>9 DEF Next, Woken, Answered

\* Only the throttle sends, at an instant the pace allows.
LEMMA SendsInTime ==
  ASSUME Pace, Next, NEW c \in Call, Sends(c)
  PROVE  since[c] >= Interval
<1>1. ASSUME NEW d \in Call, Throttle(d), phase[d] # "throttled" PROVE since[c] >= Interval
  BY <1>1, ClientAssumption DEF Sends, Pace, Phase, Throttle, Request, AwaitTurn
<1>2. ASSUME NEW d \in Call, NEW u \in Url, Begin(d, u) PROVE since[c] >= Interval
  BY <1>1, <1>2 DEF Begin
<1>3. ASSUME NEW d \in Call, TurnComes(d) PROVE since[c] >= Interval
  BY <1>3, ClientAssumption DEF Sends, Pace, Phase, TurnComes, Request
<1>4. ASSUME NEW d \in Call, BackoffOver(d) PROVE since[c] >= Interval
  BY <1>1, <1>4 DEF BackoffOver
<1>5. ASSUME NEW d \in Call, Handle(d) PROVE FALSE
  BY <1>5 DEF Handle, Sends
<1>6. ASSUME NEW d \in Call, NotModified(d) \/ Received(d) \/ Failed(d) PROVE FALSE
  BY <1>6 DEF NotModified, Received, Failed, Settle, Sends, Pace
<1>7. ASSUME NEW d \in Call, Retry(d) PROVE FALSE
  BY <1>7 DEF Retry, Sends, Pace
<1>8. ASSUME NEW u \in Url, Publish(u) PROVE FALSE
  BY <1>8 DEF Publish, Sends
<1>9. CASE Tick
  BY <1>9 DEF Tick, Sends
<1>10. QED
  BY <1>2, <1>3, <1>4, <1>5, <1>6, <1>7, <1>8, <1>9 DEF Next, Woken, Answered

\* The requests of one call, and of calls that follow each other, are an
\* interval apart, however many callers share the client (http.ts:164).
THEOREM RequestsArePaced == Spec => PacedPerCaller
<1>1. Spec => []Pace
  BY PaceInit, PaceStep, PTL DEF Spec
<1>2. Pace /\ [Next]_vars => [\A c \in Call : Sends(c) => since[c] >= Interval]_vars
  BY SendsInTime
<1>3. QED
  BY <1>1, <1>2, PTL DEF Spec, PacedPerCaller

-----------------------------------------------------------------------------
(* What the calls return.                                                    *)

\* An answer on its way is no older than its call: a 200 carries a version that
\* was current during the call, and a 304 vouches for such a version in the
\* entry that the call has held since it began.
Current(c, v) == v \in asked[c]..published[url[c]]

Vouched ==
  /\ phase \in [Call -> Phase]
  /\ url \in [Call -> Url]
  /\ published \in [Url -> Nat]
  /\ asked \in [Call -> Nat]
  /\ held = [c \in Call |-> held[c]]
  /\ response = [c \in Call |-> response[c]]
  /\ cache = [u \in Url |-> cache[u]]
  /\ \A c \in Call : phase[c] # "idle" => asked[c] <= published[url[c]]
  /\ \A c \in Call : response[c] # None =>
       /\ phase[c] = "fetching"
       /\ response[c].status = "200" => Current(c, response[c].version)
       /\ response[c].status = "304" /\ held[c] # None => Current(c, held[c].version)

\* Calls are only made of documents, so the first state may name any of them.
LEMMA VouchedInit ==
  ASSUME Url # {}, Init
  PROVE  Vouched
BY DEF Init, Vouched, Phase

LEMMA VouchedBegin ==
  ASSUME Vouched, NEW c \in Call, NEW u \in Url, Begin(c, u)
  PROVE  Vouched'
BY DEF Vouched, Current, Begin, Throttle, Request, AwaitTurn, Phase

LEMMA VouchedHandle ==
  ASSUME Vouched, NEW c \in Call, Handle(c)
  PROVE  Vouched'
<1>1. PICK r \in Replies(c) : response' = [response EXCEPT ![c] = r]
  BY DEF Handle
<1>2. r.status = "200" => Current(c, r.version)
  BY DEF Replies, Vouched, Handle, Current
<1>3. r.status = "304" /\ held[c] # None => Current(c, held[c].version)
  BY DEF Replies, Vouched, Handle, Current
<1>4. QED
  BY <1>1, <1>2, <1>3 DEF Vouched, Handle, Current

LEMMA VouchedSettle ==
  ASSUME Vouched, NEW c \in Call, Settle(c), cache' = [u \in Url |-> cache'[u]]
  PROVE  Vouched'
BY DEF Vouched, Settle, Current, Phase

LEMMA VouchedStep == Vouched /\ [Next]_vars => Vouched'
<1> SUFFICES ASSUME Vouched, [Next]_vars PROVE Vouched'
  OBVIOUS
<1>1. ASSUME NEW c \in Call, NEW u \in Url, Begin(c, u) PROVE Vouched'
  BY <1>1, VouchedBegin
<1>2. ASSUME NEW c \in Call, TurnComes(c) PROVE Vouched'
  BY <1>2 DEF Vouched, Current, TurnComes, Request, Phase
<1>3. ASSUME NEW c \in Call, BackoffOver(c) PROVE Vouched'
  BY <1>3 DEF Vouched, Current, BackoffOver, Throttle, Request, AwaitTurn, Phase
<1>4. ASSUME NEW c \in Call, Handle(c) PROVE Vouched'
  BY <1>4, VouchedHandle
<1>5. ASSUME NEW c \in Call, NotModified(c) \/ Received(c) \/ Failed(c) PROVE Vouched'
  <2>1. cache' = [u \in Url |-> cache'[u]]
    BY <1>5 DEF NotModified, Received, Failed, Store, Vouched
  <2>2. QED BY <1>5, <2>1, VouchedSettle DEF NotModified, Received, Failed
<1>6. ASSUME NEW c \in Call, Retry(c) PROVE Vouched'
  BY <1>6 DEF Vouched, Current, Retry, Arrived, Phase
<1>7. ASSUME NEW u \in Url, Publish(u) PROVE Vouched'
  BY <1>7 DEF Vouched, Current, Publish
<1>8. CASE Tick
  <2>1. cache' = [u \in Url |-> cache'[u]]
    BY <1>8 DEF Tick
  <2>2. QED BY <1>8, <2>1 DEF Vouched, Current, Tick
<1>9. CASE UNCHANGED vars
  BY <1>9 DEF Vouched, Current, vars
<1>10. QED
  BY <1>1, <1>2, <1>3, <1>4, <1>5, <1>6, <1>7, <1>8, <1>9 DEF Next, Woken, Answered

\* Only a 200 and a 304 store anything, and both store what was vouched for.
LEMMA StoresWhatIsCurrent ==
  ASSUME Vouched, Next, NEW c \in Call,
         phase[c] = "fetching", phase'[c] = "idle", cache'[url[c]] # cache[url[c]]
  PROVE  cache'[url[c]].version \in asked[c]..published[url[c]]
<1>1. ASSUME NEW d \in Call, NotModified(d) PROVE Current(c, cache'[url[c]].version)
  BY <1>1 DEF NotModified, Arrived, Store, Settle, Vouched
<1>2. ASSUME NEW d \in Call, Received(d) PROVE Current(c, cache'[url[c]].version)
  BY <1>2 DEF Received, Arrived, Store, Settle, Vouched
<1>3. ASSUME NEW d \in Call, Failed(d) PROVE FALSE
  BY <1>3 DEF Failed
<1>4. ASSUME NEW d \in Call, Retry(d) \/ Handle(d) \/ TurnComes(d) \/ BackoffOver(d) PROVE FALSE
  BY <1>4 DEF Retry, Handle, TurnComes, BackoffOver
<1>5. ASSUME NEW d \in Call, NEW u \in Url, Begin(d, u) PROVE FALSE
  BY <1>5 DEF Begin
<1>6. ASSUME NEW u \in Url, Publish(u) PROVE FALSE
  BY <1>6 DEF Publish
<1>7. CASE Tick
  BY <1>7 DEF Tick
<1>8. QED
  BY <1>1, <1>2, <1>3, <1>4, <1>5, <1>6, <1>7 DEF Next, Woken, Answered, Current

\* What a call fetched and stored was the server's version at some time during
\* the call, whatever the others did to the cache meanwhile (http.ts:214).
THEOREM FetchedIsCurrent ==
  ASSUME Url # {}
  PROVE  Spec => CurrentWhenAsked
<1>1. Spec => []Vouched
  BY VouchedInit, VouchedStep, PTL DEF Spec
<1>2. Vouched /\ [Next]_vars =>
        [\A c \in Call :
           LET u == url[c] IN
           phase[c] = "fetching" /\ phase'[c] = "idle" /\ cache'[u] # cache[u]
             => cache'[u].version \in asked[c]..published[u]]_vars
  BY StoresWhatIsCurrent
<1>3. QED
  BY <1>1, <1>2, PTL DEF Spec, CurrentWhenAsked

-----------------------------------------------------------------------------
(* How long the calls last.                                                  *)

Waiting(c) == phase[c] \in {"throttled", "backoff"}

\* A call is in one of its attempts, an answer is there for one that asked, and
\* a sleep has an end.
Going ==
  /\ phase \in [Call -> Phase]
  /\ attempt \in [Call -> 1..MaxAttempts]
  /\ wait = [c \in Call |-> wait[c]]
  /\ url = [c \in Call |-> url[c]]
  /\ response = [c \in Call |-> response[c]]
  /\ untilAllowed \in 0..Interval
  /\ published \in [Url -> Version]
  /\ \A c \in Call :
       /\ phase[c] # "idle" => url[c] \in Url
       /\ response[c] # None => phase[c] = "fetching" /\ response[c] \in Response
       /\ Waiting(c) => wait[c] \in Nat
       /\ phase[c] = "throttled" => wait[c] <= Interval
       /\ phase[c] = "backoff" => attempt[c] < MaxAttempts

LEMMA GoingInit == Init => Going
BY ClientAssumption DEF Init, Going, Phase, Version, Waiting

\* A call that asks for its turn, from any phase in which it has no answer.
LEMMA GoingThrottle ==
  ASSUME Going, NEW c \in Call, Throttle(c) \/ Request(c), response[c] = None,
         url' = [url EXCEPT ![c] = url'[c]], url'[c] \in Url,
         attempt' = [attempt EXCEPT ![c] = attempt'[c]], attempt'[c] \in 1..MaxAttempts,
         UNCHANGED <<response, published>>
  PROVE  Going'
<1>1. CASE Request(c)
  BY <1>1, ClientAssumption DEF Request, Going, Phase, Waiting
<1>2. CASE AwaitTurn(c)
  BY <1>2, ClientAssumption DEF AwaitTurn, Going, Phase, Waiting
<1> QED BY <1>1, <1>2 DEF Throttle

\* Whatever the server answers is something get() knows.
LEMMA RepliesAreResponses ==
  ASSUME Going, NEW c \in Call, phase[c] = "fetching", NEW r \in Replies(c)
  PROVE  r \in Response /\ r # None
<1>1. published[url[c]] \in Version
  BY DEF Going
<1>2. CASE r \in [status: {"200"}, version: {published[url[c]]}, age: MaxAge]
  <2>1. r \in [status: {"200"}, version: Version, age: MaxAge]
    BY <1>1, <1>2
  <2> QED BY <2>1, NoneAssumption DEF Response
<1>3. CASE r \in [status: {"304"}, age: MaxAge \cup {None}]
  BY <1>3, NoneAssumption DEF Response
<1>4. CASE r \in [status: {"busy", "refused", "broken"}]
  BY <1>4, NoneAssumption DEF Response
<1> QED BY <1>2, <1>3, <1>4 DEF Replies

LEMMA BackoffsAreWaits ==
  ASSUME NEW n, NEW w \in RetryAfter \cup Backoffs(n)
  PROVE  w \in Nat
BY ClientAssumption DEF Backoffs

LEMMA GoingTick ==
  ASSUME Going, Tick
  PROVE  Going'
<1>0. ASSUME NEW n \in Nat  PROVE Less(n) \in Nat /\ Less(n) <= n
  BY DEF Less
<1>1. \A c \in Call : Waiting(c) => wait[c] \in Nat /\ wait'[c] \in Nat /\ wait'[c] <= wait[c]
  BY <1>0 DEF Going, Tick
<1>2. untilAllowed' \in 0..Interval
  <2>1. untilAllowed \in Nat /\ untilAllowed <= Interval /\ untilAllowed' = Less(untilAllowed)
    BY ClientAssumption DEF Going, Tick
  <2> QED BY <1>0, <2>1, ClientAssumption
<1>3. wait' = [c \in Call |-> wait'[c]]
  BY DEF Tick
<1>4. UNCHANGED <<phase, attempt, url, response, published>>
  BY DEF Tick
<1>5. ASSUME NEW c \in Call, phase[c] = "throttled"  PROVE wait'[c] <= Interval
  BY <1>1, <1>5, ClientAssumption DEF Going, Waiting
<1> QED BY <1>1, <1>2, <1>3, <1>4, <1>5 DEF Going, Waiting

LEMMA GoingStep == Going /\ [Next]_vars => Going'
<1> SUFFICES ASSUME Going, [Next]_vars PROVE Going'
  OBVIOUS
<1>1. ASSUME NEW c \in Call, NEW u \in Url, Begin(c, u) PROVE Going'
  <2>1. response[c] = None /\ url'[c] = u /\ attempt' = attempt
    BY <1>1 DEF Begin, Going
  <2> QED BY <1>1, <2>1, GoingThrottle DEF Begin, Going
<1>2. ASSUME NEW c \in Call, TurnComes(c) PROVE Going'
  <2>1. response[c] = None /\ url[c] \in Url
    BY <1>2 DEF TurnComes, Going
  <2> QED BY <1>2, <2>1, GoingThrottle DEF TurnComes, Going
<1>3. ASSUME NEW c \in Call, BackoffOver(c) PROVE Going'
  <2>1. response[c] = None /\ url[c] \in Url /\ attempt[c] < MaxAttempts
    BY <1>3 DEF BackoffOver, Going
  <2>2. attempt'[c] = attempt[c] + 1 /\ attempt'[c] \in 1..MaxAttempts
    BY <1>3, <2>1, ClientAssumption DEF BackoffOver, Going
  <2>3. attempt' = [attempt EXCEPT ![c] = attempt'[c]]
    BY <1>3, <2>2 DEF BackoffOver, Going
  <2> QED BY <1>3, <2>1, <2>2, <2>3, GoingThrottle DEF BackoffOver, Going
<1>4. ASSUME NEW c \in Call, Handle(c) PROVE Going'
  BY <1>4, RepliesAreResponses DEF Handle, Going, Waiting
<1>5. ASSUME NEW c \in Call, Settle(c) PROVE Going'
  BY <1>5, ClientAssumption DEF Settle, Going, Waiting, Phase
<1>6. ASSUME NEW c \in Call, Retry(c) PROVE Going'
  <2>1. PICK w \in RetryAfter \cup Backoffs(attempt[c]) : wait' = [wait EXCEPT ![c] = w]
    BY <1>6 DEF Retry
  <2>2. w \in Nat
    BY BackoffsAreWaits
  <2>3. /\ phase' = [phase EXCEPT ![c] = "backoff"] /\ response' = [response EXCEPT ![c] = None]
        /\ attempt[c] < MaxAttempts
        /\ UNCHANGED <<attempt, url, untilAllowed, published>>
    BY <1>6 DEF Retry, MayRetry
  <2>4. /\ phase' \in [Call -> Phase] /\ wait' = [d \in Call |-> wait'[d]]
        /\ response' = [d \in Call |-> response'[d]]
    BY <2>1, <2>3 DEF Going, Phase
  <2>5. phase'[c] = "backoff" /\ wait'[c] = w /\ response'[c] = None /\ url[c] \in Url
    BY <1>6, <2>1, <2>3 DEF Going, Retry, Arrived
  <2>6. \A d \in Call \ {c} : phase'[d] = phase[d] /\ wait'[d] = wait[d] /\ response'[d] = response[d]
    BY <2>1, <2>3 DEF Going
  <2> QED BY <2>2, <2>3, <2>4, <2>5, <2>6 DEF Going, Waiting
<1>7. ASSUME NEW u \in Url, Publish(u) PROVE Going'
  BY <1>7, ClientAssumption DEF Publish, Going, Waiting, Version
<1>8. CASE Tick
  BY <1>8, GoingTick
<1>9. CASE UNCHANGED vars
  BY <1>9 DEF vars, Going, Waiting
<1> QED
  BY <1>1, <1>2, <1>3, <1>4, <1>5, <1>6, <1>7, <1>8, <1>9
     DEF Next, Woken, Answered, NotModified, Received, Failed

LEMMA GoingKnowsItsNextStep == Going => NoCallIsStranded
<1> SUFFICES ASSUME Going, NEW c \in Call  PROVE
      \/ phase[c] = "idle"
      \/ phase[c] = "throttled" /\ wait[c] \in 0..Interval
      \/ phase[c] = "backoff" /\ wait[c] \in Nat /\ MayRetry(c)
      \/ phase[c] = "fetching" /\ response[c] = None
      \/ phase[c] = "fetching" /\ response[c] # None
         /\ \/ response[c].status \in {"200", "304", "refused", "broken"}
            \/ response[c].status = "busy" /\ (MayRetry(c) \/ attempt[c] = MaxAttempts)
  BY DEF NoCallIsStranded
<1>1. phase[c] \in Phase /\ attempt[c] \in 1..MaxAttempts
  BY DEF Going
<1>2. MayRetry(c) \/ attempt[c] = MaxAttempts
  BY <1>1, ClientAssumption DEF MayRetry
<1>3. response[c] # None => response[c].status \in {"200", "304", "busy", "refused", "broken"}
  BY DEF Going, Response
<1>4. phase[c] = "throttled" => wait[c] \in 0..Interval
  BY ClientAssumption DEF Going, Waiting
<1> QED BY <1>1, <1>2, <1>3, <1>4 DEF Going, Phase, Waiting, MayRetry

\* A call that asks for its turn anew has spent an attempt or a sleep.
LEMMA AskingSpends ==
  ASSUME Going, NEW c \in Call, Woken(c)
  PROVE  StepsLeft(c)' < StepsLeft(c)
<1>0. phase[c] \in Phase /\ attempt[c] \in 1..MaxAttempts /\ MaxAttempts \in Nat
  BY ClientAssumption DEF Going
<1>1. CASE TurnComes(c)
  <2>1. phase[c] = "throttled" /\ phase'[c] = "fetching" /\ UNCHANGED <<attempt, response>>
    BY <1>1 DEF TurnComes, Request, Going
  <2>2. response'[c] = None
    BY <2>1 DEF Going
  <2> QED BY <1>0, <2>1, <2>2 DEF StepsLeft
<1>2. CASE BackoffOver(c)
  <2>1. /\ phase[c] = "backoff" /\ phase'[c] \in {"throttled", "fetching"}
        /\ attempt'[c] = attempt[c] + 1 /\ UNCHANGED response
    BY <1>2 DEF BackoffOver, Throttle, Request, AwaitTurn, Going
  <2>2. response'[c] = None
    BY <2>1 DEF Going
  <2>3. StepsLeft(c) = 4 * (MaxAttempts - attempt[c])
    BY <1>0, <2>1 DEF StepsLeft
  <2>4. StepsLeft(c)' = 4 * (MaxAttempts - (attempt[c] + 1)) + (IF phase'[c] = "throttled" THEN 3 ELSE 2)
    <3>1. CASE phase'[c] = "throttled"
      BY <2>1, <3>1 DEF StepsLeft
    <3>2. CASE phase'[c] = "fetching"
      BY <2>1, <2>2, <3>2 DEF StepsLeft
    <3> QED BY <2>1, <3>1, <3>2
  <2> QED BY <1>0, <2>3, <2>4
<1> QED BY <1>1, <1>2 DEF Woken

LEMMA AnswersSpend ==
  ASSUME Going, NEW c \in Call, Handle(c) \/ Answered(c)
  PROVE  StepsLeft(c)' < StepsLeft(c)
<1>0. phase[c] \in Phase /\ attempt[c] \in 1..MaxAttempts /\ MaxAttempts \in Nat
  BY ClientAssumption DEF Going
<1>1. CASE Handle(c)
  <2>1. /\ phase[c] = "fetching" /\ response[c] = None /\ response'[c] # None
        /\ UNCHANGED <<phase, attempt>>
    BY <1>1, RepliesAreResponses DEF Handle, Going
  <2> QED BY <1>0, <2>1 DEF StepsLeft
<1>2. CASE Answered(c)
  <2>1. response[c] # None /\ phase[c] = "fetching"
    BY <1>2 DEF Answered, NotModified, Received, Failed, Retry, Arrived, Going
  <2>2. CASE Settle(c)
    <3>1. phase'[c] = "idle"
      BY <2>2 DEF Settle, Going
    <3> QED BY <1>0, <2>1, <3>1 DEF StepsLeft
  <2>3. CASE Retry(c)
    <3>1. phase'[c] = "backoff" /\ UNCHANGED attempt
      BY <2>3 DEF Retry, Going
    <3> QED BY <1>0, <2>1, <3>1 DEF StepsLeft
  <2> QED BY <1>2, <2>2, <2>3 DEF Answered, NotModified, Received, Failed
<1> QED BY <1>1, <1>2

\* What others do leaves a call where it is.
LEMMA OthersLeaveTheCall ==
  ASSUME Going, NEW c \in Call,
         \/ \E d \in Call \ {c} : (\E u \in Url : Begin(d, u)) \/ Woken(d) \/ Handle(d) \/ Answered(d)
         \/ \E u \in Url : Publish(u)
         \/ Tick
         \/ UNCHANGED vars
  PROVE  StepsLeft(c)' = StepsLeft(c)
<1> SUFFICES phase'[c] = phase[c] /\ attempt'[c] = attempt[c] /\ response'[c] = response[c]
  BY DEF StepsLeft
<1> USE DEF Going
<1>1. ASSUME NEW d \in Call \ {c}, NEW u \in Url, Begin(d, u)
      PROVE  phase'[c] = phase[c] /\ attempt'[c] = attempt[c] /\ response'[c] = response[c]
  BY <1>1 DEF Begin, Throttle, Request, AwaitTurn
<1>2. ASSUME NEW d \in Call \ {c}, Woken(d)
      PROVE  phase'[c] = phase[c] /\ attempt'[c] = attempt[c] /\ response'[c] = response[c]
  BY <1>2 DEF Woken, TurnComes, BackoffOver, Throttle, Request, AwaitTurn
<1>3. ASSUME NEW d \in Call \ {c}, Handle(d)
      PROVE  phase'[c] = phase[c] /\ attempt'[c] = attempt[c] /\ response'[c] = response[c]
  BY <1>3 DEF Handle
<1>4. ASSUME NEW d \in Call \ {c}, Settle(d) \/ Retry(d)
      PROVE  phase'[c] = phase[c] /\ attempt'[c] = attempt[c] /\ response'[c] = response[c]
  BY <1>4 DEF Settle, Retry
<1>5. CASE (\E u \in Url : Publish(u)) \/ Tick \/ UNCHANGED vars
  BY <1>5 DEF Publish, Tick, vars
<1> QED BY <1>1, <1>2, <1>3, <1>4, <1>5 DEF Answered, NotModified, Received, Failed

LEMMA StepsRunDown ==
  ASSUME Going, Next, NEW c \in Call, phase[c] # "idle"
  PROVE  /\ StepsLeft(c)' <= StepsLeft(c)
         /\ Woken(c) \/ Handle(c) \/ Answered(c) => StepsLeft(c)' < StepsLeft(c)
<1>1. Woken(c) \/ Handle(c) \/ Answered(c) => StepsLeft(c)' < StepsLeft(c)
  BY AskingSpends, AnswersSpend
<1>2. StepsLeft(c) \in Int
  <2>1. phase[c] \in Phase /\ attempt[c] \in 1..MaxAttempts /\ MaxAttempts \in Nat
    BY ClientAssumption DEF Going
  <2> QED BY <2>1 DEF StepsLeft
<1>3. CASE Woken(c) \/ Handle(c) \/ Answered(c)
  <2>1. phase'[c] \in Phase /\ attempt'[c] \in 1..MaxAttempts /\ MaxAttempts \in Nat
    BY GoingStep, ClientAssumption DEF Going
  <2>2. StepsLeft(c)' \in Int
    BY <2>1 DEF StepsLeft
  <2> QED BY <1>1, <1>2, <1>3, <2>2
<1>4. CASE ~(Woken(c) \/ Handle(c) \/ Answered(c))
  <2>1. \A u \in Url : ~Begin(c, u)
    BY DEF Begin
  <2>2. StepsLeft(c)' = StepsLeft(c)
    BY <1>4, <2>1, OthersLeaveTheCall DEF Next
  <2> QED BY <1>1, <1>2, <2>2
<1> QED BY <1>3, <1>4

\* Every get() runs down: with whatever answers, back-offs and other callers, each
\* step of a call spends some of what its MaxAttempts allow and nothing gives any
\* back (http.ts:207 to 258).
THEOREM CallsAlwaysRunDown == Spec => CallsRunDown
<1>1. Spec => []Going
  BY GoingInit, GoingStep, PTL DEF Spec
<1>2. Going /\ [Next]_vars =>
        [\A c \in Call : phase[c] # "idle" =>
           /\ StepsLeft(c)' <= StepsLeft(c)
           /\ Woken(c) \/ Handle(c) \/ Answered(c) => StepsLeft(c)' < StepsLeft(c)]_vars
  BY StepsRunDown
<1> QED BY <1>1, <1>2, PTL DEF Spec, CallsRunDown

\* And no get() is left without a step to come: none waits for its turn longer
\* than an interval, a back-off has an end and an attempt after it, and every
\* answer ends an attempt (http.ts:164 to 175, 218 to 252).
THEOREM NoCallIsEverStranded == Spec => []NoCallIsStranded
BY GoingInit, GoingStep, GoingKnowsItsNextStep, PTL DEF Spec

-----------------------------------------------------------------------------
(* Match ids.                                                                *)

Packed(code, set, number) == code * 16777216 + set * 4096 + number
Codes == 1..5
Sets == 0..4095
Numbers == 1..4095
LevelOf(id) == (id \div 16777216) % 256
NumberOf(id) == id % 4096

LEMMA HighField ==
  ASSUME NEW high \in Nat, NEW low \in Nat, low < 16777216
  PROVE  (high * 16777216 + low) \div 16777216 = high
BY SMT

\* The fields of a packed id come out as they went in (matchkey.ts 37 to 66).
LEMMA FieldsOfAnId ==
  ASSUME NEW code \in Codes, NEW set \in Sets, NEW number \in Numbers
  PROVE  /\ LevelOf(Packed(code, set, number)) = code
         /\ NumberOf(Packed(code, set, number)) = number
<1> DEFINE low == set * 4096 + number
           high == code * 4096 + set
<1>1. low \in Nat /\ low < 16777216 /\ Packed(code, set, number) = code * 16777216 + low
  BY SMT DEF Packed, Codes, Sets, Numbers
<1>2. high \in Nat /\ Packed(code, set, number) = high * 4096 + number
  BY SMT DEF Packed, Codes, Sets, Numbers
<1>3. code \in Nat /\ code % 256 = code
  BY SMT DEF Codes
<1> HIDE DEF low, high
<1>4. (code * 16777216 + low) \div 16777216 = code
  BY <1>1, <1>3, HighField, SMT
<1>5. (high * 4096 + number) % 4096 = number
  BY <1>2, SMT DEF Numbers
<1> QED BY <1>1, <1>2, <1>3, <1>4, <1>5, SMT DEF LevelOf, NumberOf

\* A packed id says its level and its number, and a refusal says neither.
LEMMA PackedId ==
  ASSUME NEW level, NEW set, NEW number, NEW id, id = Results!PackMatch(level, set, number),
         id # Results!NoId
  PROVE  /\ Results!IsQual(id) <=> level = "qm"
         /\ Results!Number(id) = number
<1>1. /\ level \in {"qm", "ef", "qf", "sf", "f"} /\ set \in 0..MaxField /\ number \in 1..MaxField
      /\ id = Results!LevelCode[level] * Results!LevelUnit + set * Results!SetUnit + number
  BY DEF Results!PackMatch, Results!LevelCode
<1>2. set \in 0..4095 /\ number \in 1..4095
  <2>1. MaxField \in Nat /\ MaxField <= 4095
    BY ResultsAssumption DEF Results!EventAssumption
  <2>2. set \in Nat /\ set <= MaxField /\ number \in Nat /\ 1 <= number /\ number <= MaxField
    BY <1>1, <2>1
  <2>3. set <= 4095 /\ number <= 4095
    BY <2>1, <2>2
  <2> QED BY <2>2, <2>3
<1>3. /\ Results!LevelCode[level] \in 1..5
      /\ Results!LevelCode[level] = 1 <=> level = "qm"
      /\ Results!LevelCode["qm"] = 1
  BY <1>1 DEF Results!LevelCode
<1> DEFINE code == Results!LevelCode[level]
<1>4. code \in 1..5 /\ id = Packed(code, set, number)
  BY <1>1, <1>3, SMT DEF Packed, Results!LevelUnit, Results!SetUnit
<1> HIDE DEF code
<1>5. LevelOf(id) = code /\ NumberOf(id) = number
  <2>1. code \in Codes /\ set \in Sets /\ number \in Numbers
    BY <1>2, <1>4 DEF Codes, Sets, Numbers
  <2> QED BY <1>4, <2>1, FieldsOfAnId
<1>6. Results!IsQual(id) <=> LevelOf(id) = Results!LevelCode["qm"]
  BY SMT DEF Results!IsQual, Results!LevelUnit, LevelOf
<1>7. Results!Number(id) = NumberOf(id)
  BY SMT DEF Results!Number, Results!SetUnit, NumberOf
<1> QED
  BY <1>3, <1>5, <1>6, <1>7 DEF code

\* Both sources give a qualification match an id of its own number, and no
\* other match such an id (tba.ts 102 to 106, first.ts 79 to 92 and 149).
LEMMA QualIds ==
  ASSUME NEW m \in Match, NEW id \in {Results!TbaId(m), Results!FirstId(m)}, id # Results!NoId
  PROVE  /\ Results!IsQual(id) <=> Played[m].level = "qualification"
         /\ Results!IsQual(id) => Results!Number(id) = Played[m].number
<1>1. CASE id = Results!TbaId(m)
  <2>1. PICK set : id = Results!PackMatch(Played[m].compLevel, set, Played[m].tbaNumber)
    BY <1>1 DEF Results!TbaId
  <2>2. /\ Results!IsQual(id) <=> Played[m].compLevel = "qm"
        /\ Results!Number(id) = Played[m].tbaNumber
    BY <2>1, PackedId
  <2> QED BY <2>2, ResultsAssumption DEF Results!EventAssumption
<1>2. CASE id = Results!FirstId(m)
  <2> DEFINE level == Results!CompLevelFor(Played[m].level)
  <2>1. PICK set : id = Results!PackMatch(level, set, Played[m].number)
    BY <1>2 DEF Results!FirstId
  <2>2. level = "qm" <=> Played[m].level = "qualification"
    BY DEF Results!CompLevelFor
  <2> HIDE DEF level
  <2> QED BY <2>1, <2>2, PackedId
<1> QED BY <1>1, <1>2

\* One number, one qualification match: an id leads back to its match.
LEMMA OneMatchPerId ==
  ASSUME NEW m \in Match, NEW n \in Match,
         NEW id \in {Results!TbaId(m), Results!FirstId(m)},
         id \in {Results!TbaId(n), Results!FirstId(n)},
         id # Results!NoId, Results!IsQual(id)
  PROVE  m = n
BY QualIds, ResultsAssumption DEF Results!EventAssumption

-----------------------------------------------------------------------------
(* Reconciliation.                                                           *)

IsEntry(e) == e = [match |-> e.match, red |-> e.red, blue |-> e.blue, score |-> e.score]

\* The entries of a source, one at most for a qualification match.
Once(entries) ==
  /\ \A e \in entries : IsEntry(e)
  /\ \A e, f \in entries : Results!IsQual(e.match) /\ e.match = f.match => e = f

LEMMA EntryFields ==
  ASSUME NEW m \in Match, NEW id, NEW row
  PROVE  LET e == Results!Entry(m, id, row)
         IN  /\ IsEntry(e)
             /\ e.match = id /\ e.blue = Played[m].blue /\ e.score = Results!Score(m, row)
             /\ e.red = Results!Alliance(Played[m].red, row.rightRoster)
BY DEF Results!Entry, IsEntry

LEMMA TbaOnce == Once(Results!TbaEntries)
<1>1. \A e \in Results!TbaEntries : \E m \in Match :
        e = Results!Entry(m, Results!TbaId(m), tba[m]) /\ Results!TbaId(m) # Results!NoId
  BY DEF Results!TbaEntries
<1> SUFFICES ASSUME NEW e \in Results!TbaEntries
             PROVE  /\ IsEntry(e)
                    /\ \A f \in Results!TbaEntries :
                          Results!IsQual(e.match) /\ e.match = f.match => e = f
  BY DEF Once
<1>2. PICK m \in Match : e = Results!Entry(m, Results!TbaId(m), tba[m]) /\ Results!TbaId(m) # Results!NoId
  BY <1>1
<1>3. IsEntry(e) /\ e.match = Results!TbaId(m)
  BY <1>2, EntryFields
<1>4. ASSUME NEW f \in Results!TbaEntries, Results!IsQual(e.match), e.match = f.match
      PROVE  e = f
  <2>1. PICK n \in Match : f = Results!Entry(n, Results!TbaId(n), tba[n])
    BY <1>1
  <2>2. f.match = Results!TbaId(n)
    BY <2>1, EntryFields
  <2>3. m = n
    BY <1>2, <1>3, <1>4, <2>2, OneMatchPerId
  <2> QED BY <1>2, <2>1, <2>3
<1> QED BY <1>3, <1>4

\* Rows of one id are all dropped, so what is left has an id for itself,
\* whatever the rows are (first.ts 159 to 188).
LEMMA FirstOnce == Once(Results!FirstEntries)
<1> DEFINE Row(r) == Results!Entry(r[1], Results!FirstId(r[1]), first[r[1]])
<1>1. \A e \in Results!FirstEntries : \E r \in Results!Imported :
        /\ e = Row(r)
        /\ \A s \in Results!Imported \ {r} : Results!FirstId(s[1]) # Results!FirstId(r[1])
  BY DEF Results!FirstEntries
<1>2. \A r \in Results!Imported : r[1] \in Match
  BY DEF Results!Imported
<1>3. \A r \in Results!Imported : IsEntry(Row(r)) /\ Row(r).match = Results!FirstId(r[1])
  BY <1>2, EntryFields
<1> HIDE DEF Row
<1> QED BY <1>1, <1>3 DEF Once

Both(T, F) == {id \in Results!Ids(T) \cap Results!Ids(F) : Results!IsQual(id)}
Quoted(entries, id) == {Results!Roster(e) : e \in {x \in entries : x.match = id}}
Single(T, F, id) ==
  Results!Conflict(IF Results!IsQual(id) THEN "missing-from-source" ELSE "unreconcilable-level",
                   id, Quoted(T, id), Quoted(F, id))
AllMatches(T, F) ==
  {Results!Merged(Results!Of(T, id), Results!Of(F, id)) : id \in Both(T, F)}
  \cup {e \in T : e.match \notin Both(T, F)}
  \cup {e \in {x \in F : x.match \notin Both(T, F)} : e.match \notin Results!Ids(T)}
Singles(T, F) ==
  {Single(T, F, id) : id \in (Results!Ids(T) \cup Results!Ids(F)) \ Both(T, F)}
AllDifferences(T, F) ==
  UNION {Results!Differences(Results!Of(T, id), Results!Of(F, id)) : id \in Both(T, F)}
AllConflicts(T, F) == AllDifferences(T, F) \cup Singles(T, F)

\* What reconcileSnapshots answers, part by part (reconcile.ts).
LEMMA Reconciled ==
  ASSUME NEW T, NEW F
  PROVE  /\ Results!Reconcile(T, F).matches = AllMatches(T, F)
         /\ Results!Reconcile(T, F).conflicts = AllConflicts(T, F)
<1>1. Results!Reconcile(T, F) = [matches |-> AllMatches(T, F), conflicts |-> AllConflicts(T, F)]
  BY DEF Results!Reconcile, AllMatches, AllConflicts, AllDifferences, Singles, Both, Single, Quoted
<1> QED BY <1>1

\* The only entry of a qualification match is the one looked up.
LEMMA OfOne ==
  ASSUME NEW entries, Once(entries), NEW e \in entries, Results!IsQual(e.match)
  PROVE  Results!Of(entries, e.match) = e
BY DEF Once, Results!Of

LEMMA MergedFields ==
  ASSUME NEW t, NEW f, IsEntry(t)
  PROVE  LET out == Results!Merged(t, f)
         IN  /\ IsEntry(out)
             /\ out.match = t.match /\ Results!Roster(out) = Results!Roster(t)
             /\ out.score = IF f.score # Results!NoScore THEN f.score ELSE t.score
BY DEF Results!Merged, IsEntry, Results!Roster

LEMMA EntryIsListed ==
  ASSUME NEW entries, NEW e \in entries
  PROVE  e.match \in Results!Ids(entries)
BY DEF Results!Ids

\* A qualification match both sources have comes out once, merged, and so do
\* its differences.
LEMMA InBoth ==
  ASSUME NEW T, NEW F, Once(T), Once(F), NEW t \in T, NEW f \in F,
         t.match = f.match, Results!IsQual(t.match)
  PROVE  /\ Results!Merged(t, f) \in AllMatches(T, F)
         /\ Results!Differences(t, f) \subseteq AllConflicts(T, F)
<1>1. t.match \in Both(T, F)
  BY EntryIsListed DEF Both
<1>2. Results!Of(T, t.match) = t /\ Results!Of(F, t.match) = f
  BY OfOne
<1> QED BY <1>1, <1>2 DEF AllMatches, AllConflicts, AllDifferences

\* One that a single source has comes out as it is, and is reported.
LEMMA InOne ==
  ASSUME NEW T, NEW F,
         NEW e \in (T \cup F), ~ (e.match \in Results!Ids(T) /\ e.match \in Results!Ids(F))
  PROVE  e \in AllMatches(T, F) /\ Single(T, F, e.match) \in AllConflicts(T, F)
<1>1. e.match \in Results!Ids(T) \cup Results!Ids(F) /\ e.match \notin Both(T, F)
  BY EntryIsListed DEF Both
<1>2. Single(T, F, e.match) \in AllConflicts(T, F)
  BY <1>1 DEF AllConflicts, Singles
<1>3. e \in AllMatches(T, F)
  <2>1. e \in {x \in T : x.match \notin Both(T, F)}
          \/ e \in {y \in {x \in F : x.match \notin Both(T, F)} : y.match \notin Results!Ids(T)}
    BY <1>1, EntryIsListed
  <2> QED BY <2>1 DEF AllMatches
<1> QED BY <1>2, <1>3

\* Every match that comes out is one or the other.
LEMMA WhereFrom ==
  ASSUME NEW T, NEW F, Once(T), Once(F), NEW out \in AllMatches(T, F), Results!IsQual(out.match)
  PROVE  \/ \E t \in T, f \in F : t.match = f.match /\ t.match = out.match /\ out = Results!Merged(t, f)
         \/ out \in T /\ out.match \notin Results!Ids(F)
         \/ out \in F /\ out.match \notin Results!Ids(T)
<1>1. CASE \E id \in Both(T, F) : out = Results!Merged(Results!Of(T, id), Results!Of(F, id))
  <2>1. PICK id \in Both(T, F) : out = Results!Merged(Results!Of(T, id), Results!Of(F, id))
    BY <1>1
  <2>2. PICK t \in T, f \in F : t.match = id /\ f.match = id
    BY DEF Both, Results!Ids
  <2>3. Results!Of(T, id) = t /\ Results!Of(F, id) = f
    BY <2>2, OfOne DEF Both
  <2> QED BY <2>1, <2>2, <2>3, MergedFields DEF Once
<1>2. CASE out \in T /\ out.match \notin Both(T, F)
  BY <1>2, EntryIsListed DEF Both
<1>3. CASE out \in F /\ out.match \notin Both(T, F) /\ out.match \notin Results!Ids(T)
  BY <1>3
<1> QED BY <1>1, <1>2, <1>3 DEF AllMatches

\* What the merging of two entries drops, a difference quotes.
LEMMA DroppedIsQuoted ==
  ASSUME NEW t, NEW f, IsEntry(t), t.match = f.match
  PROVE  LET out == Results!Merged(t, f)
         IN  /\ Results!Roster(t) = Results!Roster(out)
             /\ Results!Roster(f) = Results!Roster(out)
                  \/ \E c \in Results!Differences(t, f) :
                        /\ c.match = t.match /\ c.kind \in Results!RosterKinds
                        /\ c.first = {Results!Roster(f)}
             /\ t.score = out.score
                  \/ \E c \in Results!Differences(t, f) :
                        /\ c.match = t.match /\ c.kind \in Results!ScoreKinds
                        /\ c.tba = {<<t.score>>}
             /\ f.score = out.score
                  \/ \E c \in Results!Differences(t, f) :
                        /\ c.match = t.match /\ c.kind \in Results!ScoreKinds
                        /\ c.first = {<<f.score>>}
<1> DEFINE out == Results!Merged(t, f)
<1>1. /\ out.match = t.match /\ Results!Roster(out) = Results!Roster(t)
      /\ out.score = IF f.score # Results!NoScore THEN f.score ELSE t.score
  BY MergedFields
<1> HIDE DEF out
<1>2. ASSUME Results!Roster(t) # Results!Roster(f)
      PROVE  Results!Conflict("roster-mismatch", t.match, {Results!Roster(t)}, {Results!Roster(f)})
               \in Results!Differences(t, f)
  BY <1>2 DEF Results!Differences
<1>3. ASSUME t.score # f.score
      PROVE  \E kind \in Results!ScoreKinds :
               Results!Conflict(kind, t.match, {<<t.score>>}, {<<f.score>>})
                 \in Results!Differences(t, f)
  BY <1>3 DEF Results!Differences, Results!ScoreKinds
<1>4. \A kind, id, x, y :
        LET c == Results!Conflict(kind, id, x, y)
        IN  c.kind = kind /\ c.match = id /\ c.tba = x /\ c.first = y
  BY DEF Results!Conflict
<1>5. CASE t.score = f.score
  BY <1>1, <1>2, <1>4, <1>5 DEF out, Results!RosterKinds
<1>6. CASE t.score # f.score
  BY <1>1, <1>2, <1>3, <1>4, <1>6 DEF out, Results!RosterKinds
<1> QED BY <1>5, <1>6

\* What a source said of a qualification match, in the output or in a conflict.
Kept(T, F, e, source) ==
  \E out \in AllMatches(T, F) :
    /\ out.match = e.match
    /\ Results!Roster(e) = Results!Roster(out)
         \/ \E c \in AllConflicts(T, F) :
              c.match = e.match /\ c.kind \in Results!RosterKinds /\ c[source] = {Results!Roster(e)}
    /\ e.score = out.score
         \/ \E c \in AllConflicts(T, F) :
              c.match = e.match /\ c.kind \in Results!ScoreKinds /\ c[source] = {<<e.score>>}

LEMMA AloneIsKept ==
  ASSUME NEW T, NEW F, NEW e \in (T \cup F), NEW source,
         ~ (e.match \in Results!Ids(T) /\ e.match \in Results!Ids(F))
  PROVE  Kept(T, F, e, source)
BY InOne DEF Kept

LEMMA BothAreKept ==
  ASSUME NEW T, NEW F, Once(T), Once(F), NEW t \in T, NEW f \in F,
         t.match = f.match, Results!IsQual(t.match)
  PROVE  Kept(T, F, t, "tba") /\ Kept(T, F, f, "first")
<1> DEFINE out == Results!Merged(t, f)
<1>1. out \in AllMatches(T, F) /\ Results!Differences(t, f) \subseteq AllConflicts(T, F)
  BY InBoth
<1>2. IsEntry(t)
  BY DEF Once
<1>3. out.match = t.match
  BY <1>2, MergedFields
<1>4. Kept(T, F, t, "tba")
  BY <1>1, <1>2, <1>3, DroppedIsQuoted DEF Kept
<1>5. Kept(T, F, f, "first")
  BY <1>1, <1>2, <1>3, DroppedIsQuoted DEF Kept
<1> QED BY <1>4, <1>5

\* A qualification match comes out once.
LEMMA OutOnce ==
  ASSUME NEW T, NEW F, Once(T), Once(F), NEW x \in AllMatches(T, F), NEW y \in AllMatches(T, F),
         x.match = y.match, Results!IsQual(x.match)
  PROVE  x = y
<1>1. \A t \in T : t.match \in Results!Ids(T)
  BY EntryIsListed
<1>2. \A f \in F : f.match \in Results!Ids(F)
  BY EntryIsListed
<1>3. CASE x.match \in Results!Ids(T) /\ x.match \in Results!Ids(F)
  <2>1. PICK t \in T, f \in F : t.match = f.match /\ t.match = x.match /\ x = Results!Merged(t, f)
    BY <1>3, WhereFrom
  <2>2. PICK u \in T, g \in F : u.match = g.match /\ u.match = y.match /\ y = Results!Merged(u, g)
    BY <1>3, WhereFrom
  <2>3. t = u /\ f = g
    BY <2>1, <2>2 DEF Once
  <2> QED BY <2>1, <2>2, <2>3
<1>4. CASE x.match \notin Results!Ids(F)
  <2>1. x \in T /\ y \in T
    BY <1>1, <1>2, <1>4, WhereFrom
  <2> QED BY <2>1 DEF Once
<1>5. CASE x.match \notin Results!Ids(T)
  <2>1. x \in F /\ y \in F
    BY <1>1, <1>2, <1>5, WhereFrom
  <2> QED BY <2>1 DEF Once
<1> QED BY <1>3, <1>4, <1>5

\* A match only one source has is in a conflict, whatever its level.
LEMMA CleanMeansSame ==
  ASSUME NEW T, NEW F, AllConflicts(T, F) = {}
  PROVE  Results!Ids(T) = Results!Ids(F)
<1>1. \A e \in T \cup F : e.match \in Results!Ids(T) /\ e.match \in Results!Ids(F)
  BY InOne
<1> QED BY <1>1 DEF Results!Ids

\* Nothing a source said of a qualification match is lost without a trace,
\* whatever the matches, the rosters and the scores (reconcile.ts:11).
THEOREM NothingIsSilenced == MCSpec => []NothingSilent
<1> DEFINE T == Results!TbaEntries
           F == Results!FirstEntries
<1>1. Once(T) /\ Once(F)
  BY TbaOnce, FirstOnce
<1>2. /\ Results!Reconcile(T, F).matches = AllMatches(T, F)
      /\ Results!Reconcile(T, F).conflicts = AllConflicts(T, F)
  BY Reconciled
<1> HIDE DEF T, F
<1>3. \A e \in T : Results!IsQual(e.match) => Kept(T, F, e, "tba")
  BY <1>1, AloneIsKept, BothAreKept DEF Results!Ids
<1>4. \A e \in F : Results!IsQual(e.match) => Kept(T, F, e, "first")
  BY <1>1, AloneIsKept, BothAreKept DEF Results!Ids
<1>5. \A e, f \in AllMatches(T, F) : e.match = f.match /\ Results!IsQual(e.match) => e = f
  BY <1>1, OutOnce
<1>6. AllConflicts(T, F) = {} => Results!Ids(T) = Results!Ids(F)
  BY CleanMeansSame
<1>7. NothingSilent
  BY <1>2, <1>3, <1>4, <1>5, <1>6 DEF NothingSilent, Results!NothingSilent, Kept, T, F
<1> QED BY <1>7, PTL

-----------------------------------------------------------------------------
(* While no source is wrong.                                                 *)

\* Until a mistake is counted every row is right.
Right(row) == row.rightRoster /\ row.rightScore
Honest ==
  /\ tba \in [Match -> Results!Row] /\ first \in [Match -> Results!Row] /\ mistakes \in Nat
  /\ mistakes = 0 => \A m \in Match : Right(tba[m]) /\ Right(first[m])

LEMMA HonestInit == Results!Init => Honest
BY DEF Results!Init, Honest, Right, Results!Unlisted, Results!Row

LEMMA RowListed ==
  ASSUME NEW copies \in {1, 2}, NEW right \in BOOLEAN
  PROVE  LET row == [Results!Unlisted EXCEPT !.copies = copies, !.rightRoster = right]
         IN  row \in Results!Row /\ (right => Right(row))
<1>1. Results!Unlisted \in Results!Row /\ Results!Unlisted.rightScore = TRUE
  BY DEF Results!Unlisted, Results!Row
<1> DEFINE once == [Results!Unlisted EXCEPT !.copies = copies]
           row == [once EXCEPT !.rightRoster = right]
<1>2. once \in Results!Row /\ once.rightScore = TRUE
  BY <1>1 DEF Results!Row
<1>3. row \in Results!Row /\ row.rightScore = once.rightScore /\ row.rightRoster = right
  <2> HIDE DEF once
  <2> QED BY <1>2 DEF Results!Row
<1>4. row = [Results!Unlisted EXCEPT !.copies = copies, !.rightRoster = right]
  BY <1>1 DEF Results!Row
<1> HIDE DEF row, once
<1> QED BY <1>2, <1>3, <1>4 DEF Right

LEMMA RowChanges ==
  ASSUME Honest, NEW m \in Match, NEW right \in BOOLEAN, NEW row \in Results!Row, Results!Err(right),
         \/ tba' = [tba EXCEPT ![m] = row] /\ first' = first /\ (right /\ Right(tba[m]) => Right(row))
         \/ first' = [first EXCEPT ![m] = row] /\ tba' = tba /\ (right /\ Right(first[m]) => Right(row))
  PROVE  Honest'
<1>1. mistakes' \in Nat /\ (mistakes' = 0 => right /\ mistakes = 0)
  BY DEF Honest, Results!Err
<1>2. tba' \in [Match -> Results!Row] /\ first' \in [Match -> Results!Row]
  BY DEF Honest
<1>3. ASSUME mistakes' = 0, NEW n \in Match
      PROVE  Right(tba'[n]) /\ Right(first'[n])
  BY <1>1, <1>3 DEF Honest
<1> QED BY <1>1, <1>2, <1>3 DEF Honest, Right

\* A row listed or given a result is wrong only when a mistake is counted.
LEMMA HonestStep ==
  ASSUME Honest, Results!Next
  PROVE  Honest'
<1>1. PICK m \in Match, right \in BOOLEAN :
        \/ Results!TbaLists(m, right) \/ Results!TbaScores(m, right)
        \/ \E copies \in {1, 2} : Results!FirstLists(m, copies, right)
        \/ Results!FirstScores(m, right)
  BY DEF Results!Next
<1>2. tba[m] \in Results!Row /\ first[m] \in Results!Row
  BY DEF Honest
<1>3. CASE Results!TbaLists(m, right)
  <2> DEFINE row == [Results!Unlisted EXCEPT !.copies = 1, !.rightRoster = right]
  <2>1. row \in Results!Row /\ (right => Right(row))
    BY RowListed
  <2> QED BY <1>3, <2>1, RowChanges DEF Results!TbaLists
<1>4. CASE Results!TbaScores(m, right)
  <2> DEFINE row == [tba[m] EXCEPT !.result = TRUE, !.rightScore = right]
  <2>1. row \in Results!Row /\ (right /\ Right(tba[m]) => Right(row))
    BY <1>2 DEF Results!Row, Right
  <2>2. tba' = [tba EXCEPT ![m] = row]
    BY <1>4 DEF Results!TbaScores, Honest
  <2> QED BY <1>4, <2>1, <2>2, RowChanges DEF Results!TbaScores
<1>5. CASE \E copies \in {1, 2} : Results!FirstLists(m, copies, right)
  <2>1. PICK copies \in {1, 2} : Results!FirstLists(m, copies, right)
    BY <1>5
  <2> DEFINE row == [Results!Unlisted EXCEPT !.copies = copies, !.rightRoster = right]
  <2>2. row \in Results!Row /\ (right => Right(row))
    BY RowListed
  <2> QED BY <2>1, <2>2, RowChanges DEF Results!FirstLists
<1>6. CASE Results!FirstScores(m, right)
  <2> DEFINE row == [first[m] EXCEPT !.result = TRUE, !.rightScore = right]
  <2>1. row \in Results!Row /\ (right /\ Right(first[m]) => Right(row))
    BY <1>2 DEF Results!Row, Right
  <2>2. first' = [first EXCEPT ![m] = row]
    BY <1>6 DEF Results!FirstScores, Honest
  <2> QED BY <1>6, <2>1, <2>2, RowChanges DEF Results!FirstScores
<1> QED BY <1>1, <1>3, <1>4, <1>5, <1>6

\* An entry as the match was.
TrueOf(e, m) ==
  /\ e.match \in {Results!TbaId(m), Results!FirstId(m)} /\ e.match # Results!NoId
  /\ Results!Roster(e) = <<Played[m].red, Played[m].blue>>
  /\ e.score \in {Results!NoScore, Played[m].score}

LEMMA RightRowIsTrue ==
  ASSUME NEW m \in Match, NEW id \in {Results!TbaId(m), Results!FirstId(m)}, id # Results!NoId,
         NEW row \in Results!Row, row.rightRoster, row.rightScore
  PROVE  TrueOf(Results!Entry(m, id, row), m)
<1>1. Results!Score(m, row) \in {Results!NoScore, Played[m].score}
  BY ResultsAssumption DEF Results!Score, Results!EventAssumption
<1> QED
  BY <1>1, EntryFields DEF TrueOf, Results!Roster, Results!Alliance

LEMMA EntriesAreTrue ==
  ASSUME Honest, mistakes = 0
  PROVE  /\ \A e \in Results!TbaEntries : \E m \in Match : TrueOf(e, m)
         /\ \A e \in Results!FirstEntries : \E m \in Match : TrueOf(e, m)
<1>1. \A e \in Results!TbaEntries : \E m \in Match :
        e = Results!Entry(m, Results!TbaId(m), tba[m]) /\ Results!TbaId(m) # Results!NoId
  BY DEF Results!TbaEntries
<1>2. \A e \in Results!FirstEntries : \E r \in Results!Imported :
        e = Results!Entry(r[1], Results!FirstId(r[1]), first[r[1]])
  BY DEF Results!FirstEntries
<1>3. \A r \in Results!Imported : r[1] \in Match /\ Results!FirstId(r[1]) # Results!NoId
  BY DEF Results!Imported
<1>4. \A m \in Match : /\ tba[m] \in Results!Row /\ tba[m].rightRoster /\ tba[m].rightScore
                       /\ first[m] \in Results!Row /\ first[m].rightRoster /\ first[m].rightScore
  BY DEF Honest, Right
<1> QED BY <1>1, <1>2, <1>3, <1>4, RightRowIsTrue

\* Two true entries of one qualification match are of the same match.
LEMMA TrueAgree ==
  ASSUME NEW t, NEW f, NEW m \in Match, NEW n \in Match, TrueOf(t, m), TrueOf(f, n),
         t.match = f.match, Results!IsQual(t.match)
  PROVE  m = n /\ Results!Roster(t) = Results!Roster(f)
BY OneMatchPerId DEF TrueOf

\* A qualification match in the output is as the match was.
LEMMA OutIsTrue ==
  ASSUME NEW T, NEW F, Once(T), Once(F),
         \A e \in T \cup F : \E m \in Match : TrueOf(e, m),
         NEW out \in AllMatches(T, F), Results!IsQual(out.match)
  PROVE  \E m \in Match : TrueOf(out, m)
<1>1. CASE \E t \in T, f \in F : t.match = f.match /\ t.match = out.match /\ out = Results!Merged(t, f)
  <2>1. PICK t \in T, f \in F :
          t.match = f.match /\ t.match = out.match /\ out = Results!Merged(t, f)
    BY <1>1
  <2>2. PICK m \in Match : TrueOf(t, m)
    OBVIOUS
  <2>3. PICK n \in Match : TrueOf(f, n)
    OBVIOUS
  <2>4. m = n
    BY <2>1, <2>2, <2>3, TrueAgree
  <2>5. /\ Results!Roster(out) = Results!Roster(t)
        /\ out.score = IF f.score # Results!NoScore THEN f.score ELSE t.score
    BY <2>1, MergedFields DEF Once
  <2> QED BY <2>1, <2>2, <2>3, <2>4, <2>5 DEF TrueOf
<1> QED BY <1>1, WhereFrom

\* Of true entries no roster and no score is reported.
LEMMA NothingIsMadeUp ==
  ASSUME NEW T, NEW F, Once(T), Once(F),
         \A e \in T \cup F : \E m \in Match : TrueOf(e, m),
         NEW c \in AllConflicts(T, F)
  PROVE  c.kind \notin Results!RosterKinds \cup {"score-mismatch"}
<1>1. CASE c \in Singles(T, F)
  BY <1>1 DEF Singles, Single, Results!Conflict, Results!RosterKinds
<1>2. CASE c \in AllDifferences(T, F)
  <2>1. PICK id \in Both(T, F) : c \in Results!Differences(Results!Of(T, id), Results!Of(F, id))
    BY <1>2 DEF AllDifferences
  <2>2. PICK t \in T, f \in F : t.match = id /\ f.match = id
    BY DEF Both, Results!Ids
  <2>3. c \in Results!Differences(t, f) /\ Results!IsQual(t.match)
    BY <2>1, <2>2, OfOne DEF Both
  <2>4. PICK m \in Match : TrueOf(t, m)
    OBVIOUS
  <2>5. PICK n \in Match : TrueOf(f, n)
    OBVIOUS
  <2>6. m = n /\ Results!Roster(t) = Results!Roster(f)
    BY <2>2, <2>3, <2>4, <2>5, TrueAgree
  <2>7. /\ t.score \in {Results!NoScore, Played[m].score}
        /\ f.score \in {Results!NoScore, Played[m].score}
    BY <2>4, <2>5, <2>6 DEF TrueOf
  <2> QED BY <2>3, <2>6, <2>7 DEF Results!Differences, Results!Conflict, Results!RosterKinds
<1> QED BY <1>1, <1>2 DEF AllConflicts

LEMMA HonestCrossesNothing == Honest => NeverCrossed
<1> SUFFICES ASSUME Honest, mistakes = 0
             PROVE  NeverCrossed
  BY DEF NeverCrossed, Results!NeverCrossed
<1> DEFINE T == Results!TbaEntries
           F == Results!FirstEntries
<1>1. Once(T) /\ Once(F) /\ \A e \in T \cup F : \E m \in Match : TrueOf(e, m)
  BY TbaOnce, FirstOnce, EntriesAreTrue
<1>2. /\ Results!Reconcile(T, F).matches = AllMatches(T, F)
      /\ Results!Reconcile(T, F).conflicts = AllConflicts(T, F)
  BY Reconciled
<1> HIDE DEF T, F
<1>3. \A c \in AllConflicts(T, F) : c.kind \notin Results!RosterKinds \cup {"score-mismatch"}
  BY <1>1, NothingIsMadeUp
<1>4. ASSUME NEW e \in AllMatches(T, F), Results!IsQual(e.match)
      PROVE  \E m \in Match :
               /\ Played[m].level = "qualification" /\ Played[m].number = Results!Number(e.match)
               /\ Results!Roster(e) = <<Played[m].red, Played[m].blue>>
               /\ e.score \in {Results!NoScore, Played[m].score}
  <2>1. PICK m \in Match : TrueOf(e, m)
    BY <1>1, <1>4, OutIsTrue
  <2> QED BY <1>4, <2>1, QualIds DEF TrueOf
<1> QED BY <1>2, <1>3, <1>4 DEF NeverCrossed, Results!NeverCrossed, T, F

\* While the sources are right a qualification match keeps its own teams and
\* score, for any practice, qualification and playoff rows (first.ts:66).
THEOREM NothingIsCrossed == MCSpec => []NeverCrossed
<1>1. MCInit => Honest
  BY HonestInit DEF MCInit
<1>2. Honest /\ [MCNext]_<<part, vars, official>> => Honest'
  <2> SUFFICES ASSUME Honest, [MCNext]_<<part, vars, official>>
               PROVE  Honest'
    OBVIOUS
  <2>1. CASE UNCHANGED official
    BY <2>1 DEF Honest, official
  <2>2. CASE Results!Next
    BY <2>2, HonestStep
  <2> QED BY <2>1, <2>2 DEF MCNext
<1> QED
  BY <1>1, <1>2, HonestCrossesNothing, PTL DEF MCSpec
=============================================================================
