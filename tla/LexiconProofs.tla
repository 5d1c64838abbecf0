--------------------------- MODULE LexiconProofs ---------------------------
(***************************************************************************)
(* Proofs about LexiconCache, for any callers, any limits and timeouts:    *)
(* type correctness, one pull at a time, nobody left waiting for a pull    *)
(* that is over, the age of the dictionary, and that it never goes back.   *)
(***************************************************************************)
EXTENDS LexiconCache, FiniteSetTheorems, TLAPS

\* The open request is that of the handle; whoever waits, waits for it.
Handle ==
  /\ \A c \in Caller : request[c].phase # "none" <=> inFlight = c
  /\ \A c \in Caller : call[c].state = "waiting" <=> awaits[c] # None
  /\ \A c \in Caller : awaits[c] # None => awaits[c] = inFlight

\* Nothing is dated in the future, and no request is older than its limits.
Dates ==
  /\ \A v \in DOMAIN curated : curated[v] <= now
  /\ \A c \in Caller : request[c].phase \in {"asked", "read"} =>
       request[c].since <= now /\ now <= request[c].since + RequestTimeout
  /\ \A c \in Caller : request[c].phase = "body" =>
       request[c].since <= now /\ now <= request[c].since + BodyTimeout

\* What a request that was answered will bring.
Answered ==
  \A c \in Caller :
    /\ request[c].phase = "read" => Covers(request[c], request[c].since)
    /\ request[c].phase = "body" =>
         \A t \in Time : t + RequestTimeout <= request[c].since => Covers(request[c], t)

\* A lexicon that holds what its date promises.
Honest(s) ==
  s.fetchedAt <= now /\ \A t \in Time : t + Slack <= s.fetchedAt => Covers(s, t)

Kept == snapshot # None => Honest(snapshot)

Told ==
  \A c \in Caller : call[c].state = "returned" =>
    /\ Honest(call[c].lexicon)
    /\ call[c].at <= now
    /\ call[c].fresh => call[c].at <= call[c].lexicon.fetchedAt + MaxStale

\* No request brings less than what is cached.
Versions ==
  /\ snapshot # None => snapshot.version <= Latest
  /\ \A c \in Caller : request[c].phase \in {"read", "body"} =>
       /\ request[c].version <= Latest
       /\ snapshot # None => snapshot.version <= request[c].version

IInv == TypeOK /\ Handle /\ Dates /\ Answered /\ Kept /\ Told /\ Versions

-----------------------------------------------------------------------------
(* What the operators do. *)

LEMMA FreshType == \A s : Fresh(s) \in BOOLEAN
BY Zenon DEF Fresh

LEMMA AnswerType ==
  ASSUME TypeOK, NEW d \in Caller, NEW s \in Snapshot
  PROVE  Answer(d, s) \in Returned
<1>1. call[d].op \in Op
  BY DEF TypeOK, Call, Returned
<1>2. now \in Time
  BY DEF TypeOK
<1> QED
  BY <1>1, <1>2, FreshType, Zenon DEF Answer, Returned

LEMMA RefusalType ==
  ASSUME TypeOK, NEW d \in Caller
  PROVE  Refusal(d) \in Call
BY DEF Refusal, TypeOK, Call, Returned

\* A pull that is over leaves well-typed variables behind.
LEMMA SettleType ==
  ASSUME TypeOK, NEW c \in Caller, NEW outcome \in [Caller -> Call], Settle(c, outcome)
  PROVE  /\ inFlight' \in Caller \union {None}
         /\ request' \in [Caller -> Request]
         /\ call' \in [Caller -> Call]
         /\ awaits' \in [Caller -> Caller \union {None}]
<1>1. NoRequest \in Request
  BY DEF NoRequest, Request, Time, Version
<1> QED
  BY <1>1 DEF Settle, TypeOK

-----------------------------------------------------------------------------
(* Type correctness. *)

LEMMA InitType == Init => TypeOK
BY DEF Init, TypeOK, Snapshot, Request, NoRequest, Call, Op, Time, Version

LEMMA TypeStep ==
  ASSUME TypeOK, [Next]_vars
  PROVE  TypeOK'
<1>1. ASSUME NEW c \in Caller, ServeCached(c) PROVE TypeOK'
  <2>1. snapshot \in Snapshot
    BY <1>1 DEF ServeCached, Usable, TypeOK
  <2>2. [state |-> "returned", op |-> "ensureFresh", at |-> now,
         fresh |-> TRUE, lexicon |-> snapshot] \in Call
    BY <2>1 DEF TypeOK, Call, Returned, Op
  <2> QED
    BY <1>1, <2>2 DEF ServeCached, TypeOK
<1>2. ASSUME NEW c \in Caller, NEW op \in Op, Pull(c, op) PROVE TypeOK'
  <2>1. [state |-> "waiting", op |-> op] \in Call
    BY DEF TypeOK, Call
  <2>2. [phase |-> "asked", since |-> now, version |-> 0] \in Request
    BY DEF TypeOK, Request, Version, Time
  <2>3. call' \in [Caller -> Call] /\ UNCHANGED <<now, curated, snapshot>>
    BY <1>2, <2>1 DEF Pull, TypeOK
  <2>4. inFlight' \in Caller \union {None} /\ awaits' \in [Caller -> Caller \union {None}]
    BY <1>2 DEF Pull, Fetch, TypeOK
  <2>5. request' \in [Caller -> Request]
    BY <1>2, <2>2 DEF Pull, Fetch, TypeOK
  <2> QED
    BY <2>3, <2>4, <2>5 DEF TypeOK
<1>3. ASSUME NEW c \in Caller, Read(c) \/ Headers(c) PROVE TypeOK'
  <2>1. Latest \in Nat /\ now \in Nat
    BY DEF TypeOK, Latest, Time
  <2>2. request[c] \in Request
    BY DEF TypeOK
  <2>3. /\ [request[c] EXCEPT !.phase = "read", !.version = Latest] \in Request
        /\ [request[c] EXCEPT !.phase = "body", !.since = now] \in Request
    BY <2>1, <2>2 DEF Request, Version, Time
  <2>4. \/ request' = [request EXCEPT ![c] = [@ EXCEPT !.phase = "read", !.version = Latest]]
        \/ request' = [request EXCEPT ![c] = [@ EXCEPT !.phase = "body", !.since = now]]
    BY <1>3, <2>2 DEF Read, Headers, TypeOK, Request
  <2>5. request' \in [Caller -> Request]
    BY <2>3, <2>4 DEF TypeOK
  <2> QED
    BY <1>3, <2>5 DEF Read, Headers, TypeOK
<1>4. ASSUME NEW c \in Caller, Loaded(c) PROVE TypeOK'
  <2> DEFINE s == [version |-> request[c].version, fetchedAt |-> now]
  <2>1. s \in Snapshot
    BY DEF TypeOK, Snapshot, Request
  <2>2. [d \in Caller |-> Answer(d, s)] \in [Caller -> Call]
    BY <2>1, AnswerType DEF Call
  <2>3. snapshot' = s /\ Settle(c, [d \in Caller |-> Answer(d, s)]) /\ UNCHANGED <<now, curated>>
    BY <1>4 DEF Loaded
  <2> HIDE DEF s
  <2> QED
    BY <2>1, <2>2, <2>3, SettleType DEF TypeOK
<1>5. ASSUME NEW c \in Caller, Failed(c) PROVE TypeOK'
  <2> DEFINE o == [d \in Caller |-> IF call[d].op = "ensureFresh" /\ snapshot # None
                                    THEN Answer(d, snapshot) ELSE Refusal(d)]
  <2>1. snapshot # None => snapshot \in Snapshot
    BY DEF TypeOK
  <2>2. o \in [Caller -> Call]
    BY <2>1, AnswerType, RefusalType DEF Call
  <2>3. Settle(c, o) /\ UNCHANGED <<now, curated, snapshot>>
    BY <1>5 DEF Failed
  <2> HIDE DEF o
  <2> QED
    BY <2>2, <2>3, SettleType DEF TypeOK
<1>6. CASE Curate
  BY <1>6 DEF Curate, TypeOK
<1>7. CASE Tick
  BY <1>7 DEF Tick, TypeOK, Time
<1>8. CASE UNCHANGED vars
  BY <1>8 DEF vars, TypeOK
<1> QED
  BY <1>1, <1>2, <1>3, <1>4, <1>5, <1>6, <1>7, <1>8 DEF Next

-----------------------------------------------------------------------------
(* The shared request. *)

LEMMA SettleHandle ==
  ASSUME TypeOK, Handle, NEW c \in Caller, request[c].phase # "none",
         NEW outcome, \A d \in Caller : outcome[d].state # "waiting", Settle(c, outcome)
  PROVE  Handle'
<1>1. inFlight = c
  BY DEF Handle
<1>2. /\ inFlight' = None
      /\ \A d \in Caller : request'[d] = IF d = c THEN NoRequest ELSE request[d]
      /\ \A d \in Caller : call'[d] = IF awaits[d] = c THEN outcome[d] ELSE call[d]
      /\ \A d \in Caller : awaits'[d] = IF awaits[d] = c THEN None ELSE awaits[d]
  BY DEF Settle, TypeOK
<1>3. \A d \in Caller : request'[d].phase = "none"
  BY <1>1, <1>2 DEF Handle, NoRequest
<1>4. \A d \in Caller : awaits'[d] = None /\ call'[d].state # "waiting"
  BY <1>1, <1>2 DEF Handle
<1> QED
  BY <1>2, <1>3, <1>4, NoneAssumption DEF Handle

LEMMA HandleStep ==
  ASSUME TypeOK, Handle, [Next]_vars
  PROVE  Handle'
<1>1. ASSUME NEW c \in Caller, ServeCached(c) PROVE Handle'
  BY <1>1 DEF ServeCached, Handle, TypeOK
<1>2. ASSUME NEW c \in Caller, NEW op \in Op, Pull(c, op) PROVE Handle'
  <2>1. /\ call[c].state # "waiting"
        /\ \A d \in Caller : call'[d].state = "waiting" <=> d = c \/ call[d].state = "waiting"
    BY <1>2 DEF Pull, TypeOK
  <2>2. awaits[c] = None
    BY <2>1 DEF Handle
  <2>3. CASE inFlight # None
    BY <1>2, <2>1, <2>2, <2>3, NoneAssumption DEF Pull, Fetch, TypeOK, Handle
  <2>4. CASE inFlight = None
    <3>1. /\ inFlight' = c
          /\ \A d \in Caller : request'[d] = IF d = c
               THEN [phase |-> "asked", since |-> now, version |-> 0] ELSE request[d]
          /\ \A d \in Caller : awaits'[d] = IF d = c THEN c ELSE awaits[d]
      BY <1>2, <2>4 DEF Pull, Fetch, TypeOK
    <3>2. \A d \in Caller : request[d].phase = "none" /\ awaits[d] = None
      BY <2>4, NoneAssumption DEF Handle
    <3> QED
      BY <2>1, <3>1, <3>2, NoneAssumption DEF Handle
  <2> QED
    BY <2>3, <2>4
<1>3. ASSUME NEW c \in Caller, Read(c) \/ Headers(c) PROVE Handle'
  <2>1. request[c].phase # "none" /\ UNCHANGED <<inFlight, call, awaits>>
    BY <1>3 DEF Read, Headers
  <2>2. \A d \in Caller : request'[d].phase # "none" <=> request[d].phase # "none"
    BY <1>3 DEF Read, Headers, TypeOK, Request
  <2> QED
    BY <2>1, <2>2 DEF Handle
<1>4. ASSUME NEW c \in Caller, Loaded(c) PROVE Handle'
  <2>1. PICK s : Settle(c, [d \in Caller |-> Answer(d, s)])
    BY <1>4 DEF Loaded
  <2>2. \A d \in Caller : [e \in Caller |-> Answer(e, s)][d].state # "waiting"
    BY DEF Answer
  <2> QED
    BY <1>4, <2>1, <2>2, SettleHandle DEF Loaded
<1>5. ASSUME NEW c \in Caller, Failed(c) PROVE Handle'
  <2> DEFINE o == [d \in Caller |-> IF call[d].op = "ensureFresh" /\ snapshot # None
                                    THEN Answer(d, snapshot) ELSE Refusal(d)]
  <2>1. \A d \in Caller : o[d].state # "waiting"
    BY DEF Answer, Refusal
  <2>2. Settle(c, o) /\ request[c].phase # "none"
    BY <1>5 DEF Failed
  <2> HIDE DEF o
  <2> QED
    BY <2>1, <2>2, SettleHandle
<1>6. CASE UNCHANGED <<inFlight, request, call, awaits>>
  BY <1>6 DEF Handle
<1> QED
  BY <1>1, <1>2, <1>3, <1>4, <1>5, <1>6 DEF Next, Curate, Tick, vars

-----------------------------------------------------------------------------
(* Dates and versions. *)

LEMMA DatesStep ==
  ASSUME TypeOK, Dates, [Next]_vars
  PROVE  Dates'
<1> USE TimeAssumption DEF Time
<1>1. ASSUME NEW c \in Caller, UNCHANGED <<now, curated>>,
             request' = [request EXCEPT ![c] = NoRequest]
      PROVE  Dates'
  BY <1>1 DEF Dates, TypeOK, NoRequest
<1>2. ASSUME NEW c \in Caller, NEW op \in Op, Pull(c, op) PROVE Dates'
  <2>1. \A d \in Caller : \/ request'[d] = request[d]
                          \/ request'[d].phase = "asked" /\ request'[d].since = now
    BY <1>2 DEF Pull, Fetch, TypeOK
  <2>2. UNCHANGED <<now, curated>>
    BY <1>2 DEF Pull
  <2> QED
    BY <2>1, <2>2 DEF Dates, TypeOK
<1>3. ASSUME NEW c \in Caller, Read(c) PROVE Dates'
  <2>1. UNCHANGED <<now, curated>> /\ request[c].phase = "asked"
    BY <1>3 DEF Read
  <2>2. \A d \in Caller : \/ request'[d] = request[d]
                          \/ d = c /\ request'[d].phase = "read" /\ request'[d].since = request[d].since
    BY <1>3 DEF Read, TypeOK, Request
  <2> QED
    BY <2>1, <2>2 DEF Dates, TypeOK
<1>4. ASSUME NEW c \in Caller, Headers(c) PROVE Dates'
  <2>1. UNCHANGED <<now, curated>>
    BY <1>4 DEF Headers
  <2>2. \A d \in Caller : \/ request'[d] = request[d]
                          \/ request'[d].phase = "body" /\ request'[d].since = now
    BY <1>4 DEF Headers, TypeOK, Request
  <2> QED
    BY <2>1, <2>2 DEF Dates, TypeOK
<1>5. CASE Curate
  <2>1. UNCHANGED <<now, request>> /\ curated' = Append(curated, now)
    BY <1>5 DEF Curate
  <2>2. \A v \in DOMAIN curated' : curated'[v] <= now
    BY <2>1 DEF Dates, TypeOK
  <2> QED
    BY <2>1, <2>2 DEF Dates
<1>6. CASE Tick
  <2>1. UNCHANGED <<curated, request>> /\ now' = now + 1
    BY <1>6 DEF Tick
  <2>2. \A c \in Caller : request[c] \in Request
    BY DEF TypeOK
  <2>3. \A c \in Caller : request[c].phase \in {"asked", "read"} =>
          ~(now >= request[c].since + RequestTimeout)
    BY <1>6 DEF Tick, Overdue
  <2>4. \A c \in Caller : request[c].phase = "body" =>
          ~(now >= request[c].since + BodyTimeout)
    BY <1>6 DEF Tick, Overdue
  <2>5. \A v \in DOMAIN curated : curated[v] \in Nat
    BY DEF TypeOK
  <2> QED
    BY <2>1, <2>2, <2>3, <2>4, <2>5 DEF Dates, TypeOK, Request
<1>7. CASE UNCHANGED <<now, curated, request>>
  BY <1>7 DEF Dates
<1> QED
  BY <1>1, <1>2, <1>3, <1>4, <1>5, <1>6, <1>7
  DEF Next, ServeCached, Loaded, Failed, Settle, vars

LEMMA VersionsStep ==
  ASSUME TypeOK, Handle, Versions, [Next]_vars
  PROVE  Versions'
<1> USE DEF Version
<1>1. Latest \in Nat /\ \A c \in Caller : request[c] \in Request /\ request[c].version \in Nat
  BY DEF TypeOK, Latest, Request
<1>2. snapshot # None => snapshot.version \in Nat
  BY DEF TypeOK, Snapshot
<1>3. ASSUME UNCHANGED <<curated, snapshot>>,
             \A c \in Caller : \/ request'[c] = request[c]
                               \/ request'[c].phase \notin {"read", "body"}
      PROVE  Versions'
  BY <1>3 DEF Versions, Latest
<1>4. ASSUME NEW c \in Caller, NEW op \in Op, Pull(c, op) PROVE Versions'
  BY <1>3, <1>4 DEF Pull, Fetch, TypeOK
<1>5. ASSUME NEW c \in Caller, Read(c) PROVE Versions'
  <2>1. \A d \in Caller : \/ request'[d] = request[d]
                          \/ request'[d].version = Latest
    BY <1>1, <1>5 DEF Read, TypeOK, Request
  <2>2. UNCHANGED <<curated, snapshot>>
    BY <1>5 DEF Read
  <2> QED
    BY <1>1, <1>2, <2>1, <2>2 DEF Versions, Latest
<1>6. ASSUME NEW c \in Caller, Headers(c) PROVE Versions'
  <2>1. \A d \in Caller : \/ request'[d] = request[d]
                          \/ /\ request[d].phase = "read"
                             /\ request'[d].version = request[d].version
    BY <1>1, <1>6 DEF Headers, TypeOK, Request
  <2>2. UNCHANGED <<curated, snapshot>>
    BY <1>6 DEF Headers
  <2> QED
    BY <2>1, <2>2 DEF Versions, Latest
<1>7. ASSUME NEW c \in Caller, Loaded(c) PROVE Versions'
  <2>1. /\ request[c].phase = "body"
        /\ snapshot' = [version |-> request[c].version, fetchedAt |-> now]
        /\ request' = [request EXCEPT ![c] = NoRequest]
        /\ UNCHANGED curated
    BY <1>7 DEF Loaded, Settle
  <2>2. \A d \in Caller : request'[d].phase = "none"
    BY <2>1, NoneAssumption DEF Handle, TypeOK, NoRequest
  <2>3. snapshot'.version <= Latest
    BY <2>1 DEF Versions
  <2> QED
    BY <2>1, <2>2, <2>3 DEF Versions, Latest
<1>8. ASSUME NEW c \in Caller, Failed(c) PROVE Versions'
  BY <1>3, <1>8 DEF Failed, Settle, NoRequest, TypeOK
<1>9. CASE Curate
  <2>1. UNCHANGED <<snapshot, request>> /\ Latest' = Latest + 1
    BY <1>9 DEF Curate, Latest, TypeOK
  <2> QED
    BY <1>1, <1>2, <2>1 DEF Versions
<1>10. CASE UNCHANGED <<curated, snapshot, request>>
  BY <1>3, <1>10
<1> QED
  BY <1>4, <1>5, <1>6, <1>7, <1>8, <1>9, <1>10 DEF Next, ServeCached, Tick, vars

-----------------------------------------------------------------------------
(* What a lexicon holds. *)

\* Time only goes on, and what comes out is dated when it comes out.
LEMMA Clock ==
  ASSUME TypeOK, [Next]_vars
  PROVE  /\ now' \in Nat /\ now <= now'
         /\ curated' = curated \/ curated' = Append(curated, now)
<1>1. now \in Nat
  BY DEF TypeOK, Time
<1>2. CASE Tick
  BY <1>1, <1>2 DEF Tick
<1>3. CASE Curate
  BY <1>1, <1>3 DEF Curate
<1>4. CASE UNCHANGED <<now, curated>>
  BY <1>1, <1>4
<1>5. ASSUME NEW c \in Caller, Loaded(c) \/ Failed(c) PROVE UNCHANGED <<now, curated>>
  BY <1>5 DEF Loaded, Failed
<1>6. ASSUME NEW c \in Caller, ServeCached(c) \/ Read(c) \/ Headers(c)
      PROVE  UNCHANGED <<now, curated>>
  BY <1>6 DEF ServeCached, Read, Headers
<1> QED
  BY <1>2, <1>3, <1>4, <1>5, <1>6 DEF Next, Pull, vars

\* Nothing is published in the past.
LEMMA CoversStays ==
  ASSUME TypeOK, [Next]_vars, NEW s, NEW t \in Time, t <= now, Covers(s, t)
  PROVE  \A v \in DOMAIN curated' : curated'[v] < t => v <= s.version
<1>1. now \in Nat /\ curated \in Seq(Time)
  BY DEF TypeOK, Time
<1>2. CASE curated' = curated
  BY <1>2 DEF Covers
<1>3. CASE curated' = Append(curated, now)
  <2> SUFFICES ASSUME NEW v \in DOMAIN curated', curated'[v] < t PROVE v <= s.version
    OBVIOUS
  <2>1. v \in DOMAIN curated /\ curated'[v] = curated[v]
    BY <1>1, <1>3 DEF Time
  <2> QED
    BY <2>1 DEF Covers
<1> QED
  BY <1>2, <1>3, Clock

LEMMA HonestStays ==
  ASSUME TypeOK, [Next]_vars, NEW s \in Snapshot, Honest(s)
  PROVE  /\ s.fetchedAt <= now'
         /\ \A t \in Time : t + Slack <= s.fetchedAt =>
              \A v \in DOMAIN curated' : curated'[v] < t => v <= s.version
<1>1. now \in Nat /\ s.fetchedAt \in Nat /\ s.fetchedAt <= now /\ Slack \in Nat
  BY TimeAssumption DEF TypeOK, Time, Honest, Snapshot, Slack
<1>2. s.fetchedAt <= now'
  BY <1>1, Clock
<1>3. ASSUME NEW t \in Time, t + Slack <= s.fetchedAt
      PROVE  \A v \in DOMAIN curated' : curated'[v] < t => v <= s.version
  <2>1. t <= now
    BY <1>1, <1>3 DEF Time
  <2>2. Covers(s, t)
    BY <1>3 DEF Honest
  <2> QED
    BY <2>1, <2>2, CoversStays
<1> QED
  BY <1>2, <1>3

\* What a pull brings: its date is true when it arrives.
LEMMA ArrivesHonest ==
  ASSUME TypeOK, Dates, Answered, NEW c \in Caller, request[c].phase = "body"
  PROVE  Honest([version |-> request[c].version, fetchedAt |-> now])
<1>1. now \in Nat /\ request[c].since \in Nat
  BY DEF TypeOK, Request, Time
<1>2. now <= request[c].since + BodyTimeout
  BY DEF Dates
<1>3. ASSUME NEW t \in Time, t + Slack <= now
      PROVE  Covers([version |-> request[c].version, fetchedAt |-> now], t)
  <2>1. t + RequestTimeout <= request[c].since
    BY <1>1, <1>2, <1>3, TimeAssumption DEF Slack, Time
  <2> QED
    BY <2>1 DEF Answered, Covers
<1> QED
  BY <1>1, <1>3 DEF Honest

LEMMA AnsweredStep ==
  ASSUME TypeOK, Dates, Answered, [Next]_vars
  PROVE  Answered'
<1>1. now \in Nat /\ \A c \in Caller : request[c] \in Request /\ request[c].since \in Nat
  BY DEF TypeOK, Request, Time
<1>2. ASSUME NEW c \in Caller, request'[c] = request[c]
      PROVE  /\ request[c].phase = "read" => Covers(request[c], request[c].since)'
             /\ request[c].phase = "body" =>
                  \A t \in Time : t + RequestTimeout <= request[c].since =>
                    Covers(request[c], t)'
  <2>1. request[c].phase = "read" => Covers(request[c], request[c].since)'
    BY <1>1, <1>2, CoversStays DEF Answered, Dates, Covers, Time
  <2>2. ASSUME request[c].phase = "body", NEW t \in Time, t + RequestTimeout <= request[c].since
        PROVE  Covers(request[c], t)'
    <3>1. t <= now
      BY <1>1, <2>2, TimeAssumption DEF Dates, Time
    <3> QED
      BY <1>2, <2>2, <3>1, CoversStays DEF Answered, Covers
  <2> QED
    BY <2>1, <2>2
<1>3. ASSUME \A c \in Caller : \/ request'[c] = request[c]
                               \/ request'[c].phase \notin {"read", "body"}
      PROVE  Answered'
  BY <1>2, <1>3 DEF Answered
<1>4. ASSUME NEW c \in Caller, NEW op \in Op, Pull(c, op) PROVE Answered'
  BY <1>3, <1>4 DEF Pull, Fetch, TypeOK
<1>5. ASSUME NEW c \in Caller, Read(c) PROVE Answered'
  <2>1. \A d \in Caller : \/ request'[d] = request[d]
                          \/ request'[d].phase = "read" /\ request'[d].version = Latest
    BY <1>1, <1>5 DEF Read, TypeOK, Request
  <2>2. UNCHANGED curated
    BY <1>5 DEF Read
  <2>3. \A d \in Caller : request'[d].version = Latest => Covers(request[d], request[d].since)'
    BY <2>2 DEF Covers, Latest, TypeOK
  <2> QED
    BY <1>2, <2>1, <2>3 DEF Answered
<1>6. ASSUME NEW c \in Caller, Headers(c) PROVE Answered'
  <2>1. UNCHANGED curated /\ request[c].phase = "read"
    BY <1>6 DEF Headers
  <2>2. /\ \A d \in Caller \ {c} : request'[d] = request[d]
        /\ request'[c].phase = "body" /\ request'[c].since = now
        /\ request'[c].version = request[c].version
    BY <1>1, <1>6 DEF Headers, TypeOK, Request
  <2>3. ASSUME NEW t \in Time, t + RequestTimeout <= now
        PROVE  Covers(request[c], t)'
    <3>1. t <= request[c].since
      BY <1>1, <2>1, <2>3, TimeAssumption DEF Dates, Time
    <3>2. Covers(request[c], request[c].since)
      BY <2>1 DEF Answered
    <3>3. \A v \in DOMAIN curated : curated[v] \in Nat
      BY DEF TypeOK, Time
    <3> QED
      BY <1>1, <2>1, <2>2, <3>1, <3>2, <3>3 DEF Covers, Time
  <2> QED
    BY <1>2, <2>2, <2>3 DEF Answered
<1>7. ASSUME NEW c \in Caller, request' = [request EXCEPT ![c] = NoRequest] PROVE Answered'
  BY <1>3, <1>7 DEF NoRequest, TypeOK
<1>8. CASE UNCHANGED request
  BY <1>3, <1>8
<1> QED
  BY <1>4, <1>5, <1>6, <1>7, <1>8
  DEF Next, ServeCached, Loaded, Failed, Settle, Curate, Tick, vars
LEMMA KeptStep ==
  ASSUME TypeOK, Dates, Answered, Kept, [Next]_vars
  PROVE  Kept'
<1>1. ASSUME NEW c \in Caller, Loaded(c) PROVE Kept'
  <2>1. /\ snapshot' = [version |-> request[c].version, fetchedAt |-> now]
        /\ UNCHANGED <<now, curated>>
        /\ Honest([version |-> request[c].version, fetchedAt |-> now])
    BY <1>1, ArrivesHonest DEF Loaded
  <2> QED
    BY <2>1 DEF Kept, Honest, Covers
<1>2. CASE UNCHANGED snapshot
  <2> SUFFICES ASSUME snapshot # None PROVE Honest(snapshot)'
    BY <1>2 DEF Kept
  <2>1. snapshot \in Snapshot /\ Honest(snapshot)
    BY DEF TypeOK, Kept
  <2> QED
    BY <1>2, <2>1, HonestStays DEF Honest, Covers
<1> QED
  BY <1>1, <1>2
  DEF Next, ServeCached, Pull, Read, Headers, Failed, Curate, Tick, vars

\* What an answer says of the lexicon it hands back.
LEMMA AnswerTold ==
  ASSUME TypeOK, NEW d \in Caller, NEW s \in Snapshot, Honest(s)
  PROVE  /\ Answer(d, s).lexicon = s /\ Answer(d, s).at = now
         /\ Answer(d, s).fresh => now <= s.fetchedAt + MaxStale
<1>1. now \in Nat /\ s.fetchedAt \in Nat /\ s.fetchedAt <= now
  BY DEF TypeOK, Time, Snapshot, Honest
<1>2. Fresh(s) => now <= s.fetchedAt + MaxStale
  BY <1>1, TimeAssumption DEF Fresh
<1> QED
  BY <1>2 DEF Answer

LEMMA ToldStep ==
  ASSUME TypeOK, Dates, Answered, Kept, Told, [Next]_vars
  PROVE  Told'
<1>1. now \in Nat
  BY DEF TypeOK, Time
<1>2. ASSUME NEW c \in Caller, call'[c] = call[c], call[c].state = "returned"
      PROVE  /\ Honest(call[c].lexicon)'
             /\ call'[c].at <= now'
             /\ call'[c].fresh => call'[c].at <= call'[c].lexicon.fetchedAt + MaxStale
  <2>1. call[c] \in Returned
    BY <1>2 DEF TypeOK, Call
  <2>2. call[c].lexicon \in Snapshot /\ call[c].at \in Nat
    BY <2>1 DEF Returned, Time
  <2>3. Honest(call[c].lexicon) /\ call[c].at <= now
    BY <1>2 DEF Told
  <2>4. Honest(call[c].lexicon)'
    BY <1>2, <2>2, <2>3, HonestStays DEF Honest, Covers
  <2>5. call[c].at <= now'
    BY <1>1, <2>2, <2>3, Clock
  <2> QED
    BY <1>2, <2>4, <2>5 DEF Told
<1>3. ASSUME \A c \in Caller : call'[c] = call[c] \/ call'[c].state # "returned" PROVE Told'
  BY <1>2, <1>3 DEF Told
<1>4. ASSUME NEW s \in Snapshot, Honest(s)', UNCHANGED now, s.fetchedAt <= now,
             \A c \in Caller : \/ call'[c] = call[c]
                               \/ call'[c].state # "returned"
                               \/ /\ call'[c].lexicon = s /\ call'[c].at = now
                                  /\ call'[c].fresh => now <= s.fetchedAt + MaxStale
      PROVE  Told'
  <2> SUFFICES ASSUME NEW c \in Caller, call'[c].state = "returned", call'[c] # call[c]
               PROVE  /\ Honest(call[c].lexicon)'
                      /\ call'[c].at <= now'
                      /\ call'[c].fresh => call'[c].at <= call'[c].lexicon.fetchedAt + MaxStale
    BY <1>2 DEF Told
  <2>1. /\ call'[c].lexicon = s /\ call'[c].at = now
        /\ call'[c].fresh => now <= s.fetchedAt + MaxStale
    BY <1>4
  <2>2. Honest(call[c].lexicon)'
    BY <1>4, <2>1 DEF Honest, Covers
  <2> QED
    BY <1>1, <1>4, <2>1, <2>2
<1>5. ASSUME NEW c \in Caller, ServeCached(c) PROVE Told'
  <2>1. snapshot \in Snapshot /\ Honest(snapshot) /\ Fresh(snapshot)
    BY <1>5 DEF ServeCached, Usable, TypeOK, Kept
  <2>2. snapshot.fetchedAt \in Nat /\ snapshot.fetchedAt <= now
    BY <2>1 DEF Honest, Snapshot, Time
  <2>3. now <= snapshot.fetchedAt + MaxStale
    BY <1>1, <2>1, <2>2, TimeAssumption DEF Fresh
  <2>4. \A d \in Caller \ {c} : call'[d] = call[d]
    BY <1>5 DEF ServeCached, TypeOK
  <2>5. call'[c].lexicon = snapshot /\ call'[c].at = now
    BY <1>5 DEF ServeCached, TypeOK
  <2>6. UNCHANGED <<now, curated, snapshot>>
    BY <1>5 DEF ServeCached
  <2>7. Honest(snapshot)'
    BY <2>1, <2>6 DEF Honest, Covers
  <2>8. Honest(call[c].lexicon)'
    BY <2>5, <2>6, <2>7 DEF Honest, Covers
  <2> QED
    BY <1>1, <1>2, <2>2, <2>3, <2>4, <2>5, <2>6, <2>8 DEF Told
<1>6. ASSUME NEW c \in Caller, NEW op \in Op, Pull(c, op) PROVE Told'
  BY <1>3, <1>6 DEF Pull, TypeOK
<1>7. ASSUME NEW c \in Caller, Loaded(c) PROVE Told'
  <2>1. PICK s : /\ s = [version |-> request[c].version, fetchedAt |-> now]
                 /\ Settle(c, [d \in Caller |-> Answer(d, s)])
    BY <1>7 DEF Loaded
  <2>2. s \in Snapshot /\ Honest(s) /\ s.fetchedAt = now
    BY <1>7, <2>1, ArrivesHonest DEF Loaded, TypeOK, Snapshot, Request
  <2>3. UNCHANGED <<now, curated>>
    BY <1>7 DEF Loaded
  <2>4. \A d \in Caller : call'[d] = call[d] \/ call'[d] = Answer(d, s)
    BY <2>1 DEF Settle
  <2>5. Honest(s)'
    BY <2>2, <2>3 DEF Honest, Covers
  <2> QED
    BY <1>1, <1>4, <2>2, <2>3, <2>4, <2>5, AnswerTold
<1>8. ASSUME NEW c \in Caller, Failed(c) PROVE Told'
  <2>1. \A d \in Caller : \/ call'[d] = call[d]
                          \/ call'[d] = Refusal(d)
                          \/ snapshot # None /\ call'[d] = Answer(d, snapshot)
    BY <1>8 DEF Failed, Settle
  <2>2. UNCHANGED <<now, curated, snapshot>>
    BY <1>8 DEF Failed
  <2>5. \A d \in Caller : Refusal(d).state # "returned"
    BY DEF Refusal
  <2>3. CASE snapshot = None
    BY <1>3, <2>1, <2>3, <2>5
  <2>4. CASE snapshot # None
    <3>1. snapshot \in Snapshot /\ Honest(snapshot) /\ snapshot.fetchedAt <= now
      BY <2>4 DEF TypeOK, Kept, Honest
    <3>2. PICK s \in Snapshot : s = snapshot
      BY <3>1
    <3>3. Honest(s)' /\ Honest(s) /\ s.fetchedAt <= now
      BY <2>2, <3>1, <3>2 DEF Honest, Covers
    <3>4. \A d \in Caller : \/ call'[d] = call[d]
                            \/ call'[d].state # "returned"
                            \/ call'[d] = Answer(d, s)
      BY <2>1, <2>5, <3>2
    <3> QED
      BY <1>4, <2>2, <3>3, <3>4, AnswerTold
  <2> QED
    BY <2>3, <2>4
<1>9. CASE UNCHANGED call
  BY <1>3, <1>9
<1> QED
  BY <1>5, <1>6, <1>7, <1>8, <1>9 DEF Next, Read, Headers, Curate, Tick, vars

-----------------------------------------------------------------------------
(* Theorems. *)

LEMMA InitIInv == Init => IInv
<1> SUFFICES ASSUME Init PROVE IInv
  OBVIOUS
<1>1. TypeOK
  BY InitType
<1>2. Handle /\ Answered /\ Told /\ Kept /\ Versions
  BY NoneAssumption DEF Init, Handle, Answered, Told, Kept, Versions, NoRequest
<1>3. Dates
  BY DEF Init, Dates, NoRequest
<1> QED
  BY <1>1, <1>2, <1>3 DEF IInv

LEMMA IInvStep == IInv /\ [Next]_vars => IInv'
BY TypeStep, HandleStep, DatesStep, AnsweredStep, KeptStep, ToldStep, VersionsStep DEF IInv

\* The inductive invariant holds in every reachable state of the store.
THEOREM Inductive == Spec => []IInv
BY InitIInv, IInvStep, PTL DEF Spec

\* Every reachable state is well typed (lexicon-store.ts).
THEOREM TypeCorrect == Spec => []TypeOK
<1>1. IInv => TypeOK
  BY DEF IInv
<1> QED
  BY <1>1, Inductive, PTL

\* However calls of ensureFresh() and refresh() overlap, one request is open at
\* most: fetch() joins the one in flight, and its end clears the handle.
THEOREM SharedPull == Spec => []OnePull
<1>1. ASSUME IInv PROVE OnePull
  <2> DEFINE Open == {c \in Caller : request[c].phase # "none"}
  <2>1. Open \subseteq {inFlight}
    BY <1>1 DEF IInv, Handle
  <2>2. IsFiniteSet({inFlight}) /\ Cardinality({inFlight}) = 1
    BY FS_Singleton
  <2>3. Cardinality(Open) \in Nat /\ Cardinality(Open) <= 1
    BY <2>1, <2>2, FS_Subset, FS_CardinalityType
  <2> QED
    BY <2>3 DEF OnePull
<1> QED
  BY <1>1, Inductive, PTL

\* Nobody is left waiting for a request that is over: each call that waits
\* awaits the request that is open now (the finally of fetch()).
THEOREM NobodyForgotten ==
  Spec => [](\A c \in Caller : call[c].state = "waiting" =>
               inFlight \in Caller /\ awaits[c] = inFlight /\ request[inFlight].phase # "none")
<1>1. IInv => \A c \in Caller : call[c].state = "waiting" =>
        inFlight \in Caller /\ awaits[c] = inFlight /\ request[inFlight].phase # "none"
  BY DEF IInv, TypeOK, Handle
<1> QED
  BY <1>1, Inductive, PTL

\* The age a verdict carries is honest, for any timeouts and any overlap of
\* pulls: what was published Slack before the date of the lexicon is in it.
THEOREM HonestAge == Spec => []AgeIsHonest
<1>1. IInv => AgeIsHonest
  BY DEF IInv, Told, Honest, AgeIsHonest, Time
<1> QED
  BY <1>1, Inductive, PTL

\* An answer that is not labelled stale misses nothing older than the limit,
\* whatever outages and shared pulls preceded it (ensureFresh(), staleness()).
THEOREM NeverSilentlyStale == Spec => []NoSilentStaleness
<1>1. ASSUME IInv PROVE NoSilentStaleness
  <2> SUFFICES ASSUME NEW c \in Caller, call[c].state = "returned", call[c].fresh,
                      NEW t \in 0 .. now, t + MaxStale + Slack <= call[c].at
               PROVE  Covers(call[c].lexicon, t)
    BY DEF NoSilentStaleness
  <2>1. call[c] \in Returned
    BY <1>1 DEF IInv, TypeOK, Call
  <2>2. call[c].at \in Nat /\ call[c].lexicon.fetchedAt \in Nat
    BY <2>1 DEF Returned, Snapshot, Time
  <2>3. call[c].at <= call[c].lexicon.fetchedAt + MaxStale /\ Honest(call[c].lexicon)
    BY <1>1 DEF IInv, Told
  <2>4. t \in Nat /\ t + Slack <= call[c].lexicon.fetchedAt
    BY <2>2, <2>3, TimeAssumption DEF Slack
  <2> QED
    BY <2>3, <2>4 DEF Honest, Time
<1> QED
  BY <1>1, Inductive, PTL

\* No pull replaces the cache with an older lexicon, since there is one pull at
\* a time and it was answered after the one before had ended (fetch()).
THEOREM NeverOlder == Spec => NeverBackwards
<1>1. ASSUME IInv, [Next]_vars, snapshot # None
      PROVE  snapshot' # None /\ snapshot'.version >= snapshot.version
  <2>1. snapshot \in Snapshot /\ snapshot.version \in Nat
    BY <1>1 DEF IInv, TypeOK, Snapshot, Version
  <2>2. ASSUME NEW c \in Caller, Loaded(c) PROVE snapshot' # None /\ snapshot'.version >= snapshot.version
    <3>1. snapshot' = [version |-> request[c].version, fetchedAt |-> now]
      BY <2>2 DEF Loaded
    <3>2. request[c].version \in Nat /\ snapshot.version <= request[c].version
      BY <1>1, <2>2 DEF IInv, TypeOK, Request, Version, Versions, Loaded
    <3>3. snapshot' # None
      BY <1>1, <3>1, <3>2, SnapshotAssumption DEF IInv, TypeOK, Snapshot, Version, Time
    <3> QED
      BY <2>1, <3>1, <3>2, <3>3
  <2>3. CASE UNCHANGED snapshot
    BY <1>1, <2>1, <2>3
  <2> QED
    BY <1>1, <2>2, <2>3
    DEF Next, ServeCached, Pull, Read, Headers, Failed, Curate, Tick, vars
<1>2. IInv /\ [Next]_vars => [snapshot # None => snapshot' # None /\ snapshot'.version >= snapshot.version]_vars
  BY <1>1
<1> QED
  BY <1>2, Inductive, PTL DEF Spec, NeverBackwards
=============================================================================
