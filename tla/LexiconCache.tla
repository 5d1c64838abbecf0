---------------------------- MODULE LexiconCache ----------------------------
(***************************************************************************)
(* The lexicon the agent matches with (platform/lexicon-store.ts): one     *)
(* cached snapshot, any number of concurrent callers, a platform whose     *)
(* curator keeps publishing, and a connection that fails.                  *)
(*                                                                         *)
(* Only the order of publications matters here, so a lexicon is the number *)
(* of publications it contains.  Time is counted in ticks of any length.   *)
(***************************************************************************)
EXTENDS Naturals, Sequences, FiniteSets

CONSTANTS
  Caller,          \* concurrent calls of ensureFresh() and refresh()
  None,
  MaxStale,        \* maxStaleHours; 0 asks for a pull on every call
  RequestTimeout,  \* the client's timer: until the response headers are in
  BodyTimeout,     \* the runtime's own limit on reading the body
  MaxTime,         \* bound: the last tick
  MaxVersions      \* bound: publications

ASSUME NoneAssumption == None \notin Caller
ASSUME TimeAssumption ==
  /\ MaxStale \in Nat /\ RequestTimeout \in Nat /\ BodyTimeout \in Nat
  /\ MaxTime \in Nat /\ MaxVersions \in Nat

VARIABLES
  now,
  curated,    \* when each version was published
  snapshot,   \* what is cached
  inFlight,   \* the caller whose request is shared, or None
  request,    \* the request each caller has open, if any
  call,       \* what each call is doing, and what it came back with
  awaits      \* the caller whose request it waits for

vars == <<now, curated, snapshot, inFlight, request, call, awaits>>

NoRequest == [phase |-> "none", since |-> 0, version |-> 0]
Version == Nat
Time == Nat
Snapshot == [version : Version, fetchedAt : Time]
ASSUME SnapshotAssumption == None \notin Snapshot
Request == [phase : {"none", "asked", "read", "body"}, since : Time, version : Version]
Op == {"ensureFresh", "refresh"}
Returned ==
  [state : {"returned"}, op : Op, at : Time, fresh : BOOLEAN, lexicon : Snapshot]
Call == Returned \union [state : {"idle", "waiting", "refused"}, op : Op]

TypeOK ==
  /\ now \in Time
  /\ curated \in Seq(Time)
  /\ snapshot \in Snapshot \union {None}
  /\ inFlight \in Caller \union {None}
  /\ request \in [Caller -> Request]
  /\ call \in [Caller -> Call]
  /\ awaits \in [Caller -> Caller \union {None}]

Init ==
  /\ now = 0
  /\ curated = <<0>>
  /\ snapshot = None
  /\ inFlight = None
  /\ request = [c \in Caller |-> NoRequest]
  /\ call = [c \in Caller |-> [state |-> "idle", op |-> "ensureFresh"]]
  /\ awaits = [c \in Caller |-> None]

Latest == Len(curated)

-----------------------------------------------------------------------------
(* The store. *)

\* staleness() of a snapshot: a limit of 0 never calls anything fresh.
Fresh(s) == MaxStale > 0 /\ now - s.fetchedAt <= MaxStale
\* Faulty variant: the cache is served before anything was pulled.
UsableAlways == MaxStale > 0
Usable == snapshot # None /\ Fresh(snapshot)

\* What ensureFresh() hands back: the lexicon with its age at that moment.
Answer(c, s) ==
  [state |-> "returned", op |-> call[c].op, at |-> now, fresh |-> Fresh(s), lexicon |-> s]

ServeCached(c) ==
  /\ call[c].state # "waiting"
  /\ Usable
  /\ call' = [call EXCEPT ![c] =
                [state |-> "returned", op |-> "ensureFresh", at |-> now,
                 fresh |-> TRUE, lexicon |-> snapshot]]
  /\ UNCHANGED <<now, curated, snapshot, inFlight, request, awaits>>

\* Faulty variant: every caller pulls for itself.
FetchAlone(c) ==
  /\ inFlight' = c
  /\ request' = [request EXCEPT ![c] = [phase |-> "asked", since |-> now, version |-> 0]]
  /\ awaits' = [awaits EXCEPT ![c] = c]

\* fetch(): join the request in flight, or open one.
Fetch(c) ==
  IF inFlight # None
  THEN /\ awaits' = [awaits EXCEPT ![c] = inFlight]
       /\ UNCHANGED <<inFlight, request>>
  ELSE /\ inFlight' = c
       /\ request' = [request EXCEPT ![c] =
                        [phase |-> "asked", since |-> now, version |-> 0]]
       /\ awaits' = [awaits EXCEPT ![c] = c]

Pull(c, op) ==
  /\ call[c].state # "waiting"
  /\ ~(op = "ensureFresh" /\ Usable)
  /\ call' = [call EXCEPT ![c] = [state |-> "waiting", op |-> op]]
  /\ Fetch(c)
  /\ UNCHANGED <<now, curated, snapshot>>

\* The shared request of c is over: the handle is cleared, and every d
\* that awaited it comes to outcome[d] before anything else happens.
Settle(c, outcome) ==
  /\ inFlight' = None
  /\ request' = [request EXCEPT ![c] = NoRequest]
  /\ call' = [d \in Caller |-> IF awaits[d] = c THEN outcome[d] ELSE call[d]]
  /\ awaits' = [d \in Caller |-> IF awaits[d] = c THEN None ELSE awaits[d]]

\* The body is parsed: the new snapshot is dated now.
Loaded(c) ==
  LET s == [version |-> request[c].version, fetchedAt |-> now] IN
  /\ request[c].phase = "body"
  /\ snapshot' = s
  /\ Settle(c, [d \in Caller |-> Answer(d, s)])
  /\ UNCHANGED <<now, curated>>

Refusal(c) == [state |-> "refused", op |-> call[c].op]

\* Faulty variants: a failed pull that renews the date of the cached copy; a
\* degraded answer that is not labelled stale; a failure that leaves the handle
\* in place.
FailedRenews(c) ==
  LET s == [snapshot EXCEPT !.fetchedAt = now] IN
  /\ request[c].phase # "none"
  /\ snapshot' = IF snapshot = None THEN None ELSE s
  /\ Settle(c, [d \in Caller |-> IF snapshot = None THEN Refusal(d) ELSE Answer(d, s)])
  /\ UNCHANGED <<now, curated>>
FailedUnlabelled(c) ==
  /\ request[c].phase # "none"
  /\ Settle(c, [d \in Caller |-> IF snapshot = None THEN Refusal(d)
                                   ELSE [Answer(d, snapshot) EXCEPT !.fresh = TRUE]])
  /\ UNCHANGED <<now, curated, snapshot>>
FailedKeepsHandle(c) ==
  /\ request[c].phase # "none"
  /\ request' = [request EXCEPT ![c] = NoRequest]
  /\ call' = [call EXCEPT ![c] = Refusal(c)]
  /\ awaits' = [awaits EXCEPT ![c] = None]
  /\ UNCHANGED <<now, curated, snapshot, inFlight>>

\* Unreachable, timed out, an error status, a broken body: ensureFresh() falls
\* back on the cached copy if there is one, refresh() does not.
Failed(c) ==
  /\ request[c].phase # "none"
  /\ Settle(c, [d \in Caller |-> IF call[d].op = "ensureFresh" /\ snapshot # None
                                   THEN Answer(d, snapshot)
                                   ELSE Refusal(d)])
  /\ UNCHANGED <<now, curated, snapshot>>

-----------------------------------------------------------------------------
(* The platform and the clock. *)

Curate ==
  /\ Latest < MaxVersions
  /\ curated' = Append(curated, now)
  /\ UNCHANGED <<now, snapshot, inFlight, request, call, awaits>>

\* The platform reads its lexicon to answer.
Read(c) ==
  /\ request[c].phase = "asked"
  /\ request' = [request EXCEPT ![c].phase = "read", ![c].version = Latest]
  /\ UNCHANGED <<now, curated, snapshot, inFlight, call, awaits>>

\* The headers are in: the client's timer is cleared, the body is still to come.
Headers(c) ==
  /\ request[c].phase = "read"
  /\ request' = [request EXCEPT ![c].phase = "body", ![c].since = now]
  /\ UNCHANGED <<now, curated, snapshot, inFlight, call, awaits>>

\* No request outlives its limits.
Overdue(c) ==
  \/ request[c].phase \in {"asked", "read"} /\ now >= request[c].since + RequestTimeout
  \/ request[c].phase = "body" /\ now >= request[c].since + BodyTimeout

Tick ==
  /\ now < MaxTime
  /\ \A c \in Caller : ~Overdue(c)
  /\ now' = now + 1
  /\ UNCHANGED <<curated, snapshot, inFlight, request, call, awaits>>

Next ==
  \/ \E c \in Caller :
       \/ ServeCached(c)
       \/ \E op \in Op : Pull(c, op)
       \/ Read(c) \/ Headers(c) \/ Loaded(c) \/ Failed(c)
  \/ Curate
  \/ Tick

\* A request ends: before its headers by the client's timer, after them by the
\* runtime's limit on the body.
Fairness == \A c \in Caller : WF_vars(Loaded(c) \/ Failed(c))

Spec == Init /\ [][Next]_vars
FairSpec == Spec /\ Fairness

-----------------------------------------------------------------------------
(* Properties. *)

\* Every version published before time t is in lexicon s.
Covers(s, t) == \A v \in DOMAIN curated : curated[v] < t => v <= s.version

\* The longest a term can have been published and still be missing from a pull
\* that ends now.
Slack == RequestTimeout + BodyTimeout

\* The age a verdict carries never flatters the dictionary it was made with by
\* more than the time a pull may take: what was published before is in it.
AgeIsHonest ==
  \A c \in Caller : call[c].state = "returned" =>
    \A t \in 0 .. now : t + Slack <= call[c].lexicon.fetchedAt => Covers(call[c].lexicon, t)

\* "A stale lexicon fails silently": an answer not labelled stale misses nothing
\* that is older than the limit, whatever outages and shared pulls preceded it.
NoSilentStaleness ==
  \A c \in Caller : call[c].state = "returned" /\ call[c].fresh =>
    \A t \in 0 .. now : t + MaxStale + Slack <= call[c].at => Covers(call[c].lexicon, t)

\* Concurrent callers share one request.
OnePull == Cardinality({c \in Caller : request[c].phase # "none"}) <= 1

\* The cache never goes back to an older lexicon.
NeverBackwards ==
  [][snapshot # None => snapshot' # None /\ snapshot'.version >= snapshot.version]_vars

\* Every call comes back, with a lexicon or with a refusal.
CallsReturn == \A c \in Caller : call[c].state = "waiting" ~> call[c].state # "waiting"
=============================================================================
