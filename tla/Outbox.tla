------------------------------- MODULE Outbox -------------------------------
(***************************************************************************)
(* The outbox of the HSMA agent (platform/reporter.ts, platform/client.ts  *)
(* and the outbox half of store.ts): rows queued for the moderation        *)
(* platform, any number of overlapping flushOutbox() calls, and the        *)
(* platform on the far side of a connection that loses requests and        *)
(* answers.                                                                *)
(*                                                                         *)
(* Every SQL statement and every request is a step of its own.  The rows   *)
(* live in SQLite and survive a crash; a flush keeps its snapshot of the   *)
(* rows in memory and loses it.                                            *)
(***************************************************************************)
EXTENDS Naturals, FiniteSets

CONSTANTS
  Row,            \* rows of the outbox table, numbered in created_at order
  SupportedKind,  \* kinds send() has an endpoint for
  OtherKind,      \* kinds send() answers with UnsupportedKind
  ValidatedKind,  \* kinds whose items the platform looks at one by one
  Flusher,        \* calls of flushOutbox() that may overlap
  Nobody,         \* the sender of a request whose caller stopped waiting
  Limit,          \* rows one flush takes (50)
  MaxAttempts,    \* attempts before a row is given up (8)
  MaxCrashes      \* bound: how often a flushing process dies

Kind == SupportedKind \union OtherKind

ASSUME RowAssumption == Row \subseteq Nat
ASSUME KindAssumption ==
  /\ SupportedKind \intersect OtherKind = {} /\ Kind # {}
  /\ ValidatedKind \subseteq SupportedKind
ASSUME FlusherAssumption == IsFiniteSet(Flusher) /\ Nobody \notin Flusher
ASSUME LimitAssumption == Limit \in Nat \ {0}
ASSUME AttemptAssumption == MaxAttempts \in Nat \ {0}
ASSUME CrashAssumption == MaxCrashes \in Nat

VARIABLES
  kind, status, attempts,    \* the outbox table
  batch,                     \* rows each flush still has to look at
  call,                      \* what each flush's request has come to
  requests,                  \* requests travelling to the platform
  processing, seen, ledger,  \* the platform: requests it works on, the
                             \* idempotency keys it knows, and how often
                             \* it has processed each row
  refused,                   \* the rows of which it rejected items then
  crashes                    \* crashes so far

table == <<kind, status, attempts>>
platform == <<requests, processing, seen, ledger, refused>>
vars == <<table, batch, call, platform, crashes>>

Status == {"Absent", "Pending", "Sent", "Failed"}

\* Outcomes of a request as the caller sees them.  Two are a 2xx, "partial" with
\* items in its list of rejected ones; "lost" is an abort or a dropped connection.
Success == {"ok", "partial"}
Error == {"conflict", "unavailable", "rejected", "lost"}
Answer == Success \union Error
CallState == {"none", "waiting"} \union Answer

Request == [from : Flusher \union {Nobody}, row : Row, key : Row]

TypeOK ==
  /\ kind \in [Row -> Kind]
  /\ status \in [Row -> Status]
  /\ attempts \in [Row -> Nat]
  /\ batch \in [Flusher -> SUBSET Row]
  /\ call \in [Flusher -> CallState]
  /\ requests \subseteq Request
  /\ processing \subseteq Request
  /\ seen \subseteq Row
  /\ ledger \in [Row -> Nat]
  /\ refused \subseteq Row
  /\ crashes \in Nat

Init ==
  /\ kind = [r \in Row |-> CHOOSE k \in Kind : TRUE]
  /\ status = [r \in Row |-> "Absent"]
  /\ attempts = [r \in Row |-> 0]
  /\ batch = [f \in Flusher |-> {}]
  /\ call = [f \in Flusher |-> "none"]
  /\ requests = {}
  /\ processing = {}
  /\ seen = {}
  /\ ledger = [r \in Row |-> 0]
  /\ refused = {}
  /\ crashes = 0

-----------------------------------------------------------------------------
(* The outbox table. *)

QueueForPlatform(r, k) ==
  /\ status[r] = "Absent"
  /\ \A q \in Row : q < r => status[q] # "Absent"
  /\ kind' = [kind EXCEPT ![r] = k]
  /\ status' = [status EXCEPT ![r] = "Pending"]
  /\ UNCHANGED <<attempts, batch, call, platform, crashes>>

\* The rows pendingOutbox(limit) returns: the Limit oldest that qualify.
Sendable == {r \in Row : status[r] = "Pending" /\ attempts[r] < MaxAttempts}
PendingOutbox ==
  {r \in Sendable : Cardinality({q \in Sendable : q < r}) < Limit}

SetSent(r) ==
  /\ status' = [status EXCEPT ![r] = "Sent"]
  /\ UNCHANGED <<kind, attempts>>

\* Faulty variants: a status no reader of the table knows; an attempt that is
\* not counted.
CountFailureMisspelt(r) ==
  /\ attempts' = [attempts EXCEPT ![r] = @ + 1]
  /\ status' = [status EXCEPT ![r] =
                  IF attempts[r] + 1 >= MaxAttempts THEN "failed" ELSE "Pending"]
  /\ UNCHANGED kind
CountFailureForgotten(r) ==
  /\ status' = [status EXCEPT ![r] = "Pending"]
  /\ UNCHANGED <<kind, attempts>>

CountFailure(r) ==
  /\ attempts' = [attempts EXCEPT ![r] = @ + 1]
  /\ status' = [status EXCEPT ![r] =
                  IF attempts[r] + 1 >= MaxAttempts THEN "Failed" ELSE "Pending"]
  /\ UNCHANGED kind

-----------------------------------------------------------------------------
(* One flush.  batch[f] is walked oldest row first. *)

\* Flush f is at row r.
At(f, r) == r \in batch[f] /\ \A q \in batch[f] : r <= q

\* Faulty variant: a fresh key for every attempt.
IdempotencyKeyPerAttempt(r) == <<r, attempts[r]>>

\* The row's own request id, drawn once when it was queued: the same on every
\* attempt.
IdempotencyKey(r) == r

\* Flush f is done with row r and comes to the next one.
Advance(f, r) ==
  /\ batch' = [batch EXCEPT ![f] = @ \ {r}]
  /\ call' = [call EXCEPT ![f] = "none"]

FlushOutbox(f) ==
  /\ batch[f] = {}
  /\ PendingOutbox # {}
  /\ batch' = [batch EXCEPT ![f] = PendingOutbox]
  /\ UNCHANGED <<table, call, platform, crashes>>

Skip(f, r) ==
  /\ At(f, r) /\ call[f] = "none"
  /\ kind[r] \in OtherKind
  /\ Advance(f, r)
  /\ UNCHANGED <<table, platform, crashes>>

Send(f, r) ==
  /\ At(f, r) /\ call[f] = "none"
  /\ kind[r] \in SupportedKind
  /\ call' = [call EXCEPT ![f] = "waiting"]
  /\ requests' = requests \union
                   {[from |-> f, row |-> r, key |-> IdempotencyKey(r)]}
  /\ UNCHANGED <<table, batch, processing, seen, ledger, refused, crashes>>

\* What becomes of a set of requests when f stops waiting for its own.
Disown(f, m) ==
  [from |-> IF m.from = f THEN Nobody ELSE m.from, row |-> m.row, key |-> m.key]
Disowned(f, S) == {Disown(f, m) : m \in S}

\* Faulty variants: a wait without a timer; a timeout taken for success.
AbortNever(f) == FALSE /\ UNCHANGED vars
AbortResolves(f) ==
  /\ call[f] = "waiting"
  /\ call' = [call EXCEPT ![f] = "ok"]
  /\ requests' = Disowned(f, requests)
  /\ processing' = Disowned(f, processing)
  /\ UNCHANGED <<table, batch, seen, ledger, refused, crashes>>

\* The 30 s timer or a dropped connection ends the wait, whether or not the
\* request arrived or the answer is already on its way.
Abort(f) ==
  /\ call[f] \in {"waiting"} \union Success
  /\ call' = [call EXCEPT ![f] = "lost"]
  /\ requests' = Disowned(f, requests)
  /\ processing' = Disowned(f, processing)
  /\ UNCHANGED <<table, batch, seen, ledger, refused, crashes>>

\* Faulty variant: response.ok is not looked at.
MarkSentWhateverAnswered(f, r) ==
  /\ At(f, r) /\ call[f] \in Answer \ {"lost"}
  /\ SetSent(r)
  /\ Advance(f, r)
  /\ UNCHANGED <<platform, crashes>>

\* request() resolves with the body of a 2xx, and send() throws the body away.
MarkSent(f, r) ==
  /\ At(f, r) /\ call[f] \in Success
  /\ SetSent(r)
  /\ Advance(f, r)
  /\ UNCHANGED <<platform, crashes>>

\* Faulty variant: the failed row is tried again at once.
MarkFailedAndRetry(f, r) ==
  /\ At(f, r) /\ call[f] \in Error
  /\ CountFailure(r)
  /\ call' = [call EXCEPT ![f] = "none"]
  /\ UNCHANGED <<batch, platform, crashes>>

MarkFailed(f, r) ==
  /\ At(f, r) /\ call[f] \in Error
  /\ CountFailure(r)
  /\ Advance(f, r)
  /\ UNCHANGED <<platform, crashes>>

\* The flushing process dies: its snapshot is gone, its request may not be.
Crash(f) ==
  /\ crashes < MaxCrashes
  /\ batch[f] # {}
  /\ crashes' = crashes + 1
  /\ batch' = [batch EXCEPT ![f] = {}]
  /\ call' = [call EXCEPT ![f] = "none"]
  /\ requests' = Disowned(f, requests)
  /\ processing' = Disowned(f, processing)
  /\ UNCHANGED <<table, seen, ledger, refused>>

FlushStep(f) ==
  \/ Abort(f)
  \/ \E r \in Row : Skip(f, r) \/ Send(f, r) \/ MarkSent(f, r) \/ MarkFailed(f, r)

-----------------------------------------------------------------------------
(* The platform.  Requests nobody waits for are alike, so one element of   *)
(* requests stands for any number of them and may arrive again.            *)

Taken(m) ==
  IF m.from = Nobody THEN {requests, requests \ {m}} ELSE {requests \ {m}}

Reply(m, answer) ==
  call' = IF m.from = Nobody THEN call ELSE [call EXCEPT ![m.from] = answer]

\* The answer about a row that has been processed.
Stored(r) == IF r \in refused THEN "partial" ELSE "ok"

\* A key seen before: the stored response is sent again.
Replay(m) ==
  /\ m.key \in seen
  /\ requests' \in Taken(m)
  /\ Reply(m, Stored(m.row))
  /\ UNCHANGED <<table, batch, processing, seen, ledger, refused, crashes>>

\* 409: a request with this key is still being worked on.
Conflict(m) ==
  /\ \E p \in processing : p.key = m.key
  /\ requests' \in Taken(m)
  /\ Reply(m, "conflict")
  /\ UNCHANGED <<table, batch, processing, seen, ledger, refused, crashes>>

\* A 5xx or 429, or a 401 or 403: the platform did nothing.
Refuse(m) ==
  /\ requests' \in Taken(m)
  /\ \E answer \in {"unavailable", "rejected"} : Reply(m, answer)
  /\ UNCHANGED <<table, batch, processing, seen, ledger, refused, crashes>>

Begin(m) ==
  /\ m.key \notin seen
  /\ \A p \in processing : p.key # m.key
  /\ requests' \in Taken(m)
  /\ processing' = processing \union {m}
  /\ UNCHANGED <<table, batch, call, seen, ledger, refused, crashes>>

\* The request is processed.  Of a payload that is validated item by item some
\* may be rejected; the answer is a 2xx all the same and says which.
Commit(m) ==
  /\ processing' = processing \ {m}
  /\ seen' = seen \union {m.key}
  /\ ledger' = [ledger EXCEPT ![m.row] = @ + 1]
  /\ \/ refused' = refused /\ Reply(m, "ok")
     \/ /\ kind[m.row] \in ValidatedKind
        /\ refused' = refused \union {m.row}
        /\ Reply(m, "partial")
  /\ UNCHANGED <<table, batch, requests, crashes>>

GiveUp(m) ==
  /\ processing' = processing \ {m}
  /\ Reply(m, "unavailable")
  /\ UNCHANGED <<table, batch, requests, seen, ledger, refused, crashes>>

Platform ==
  \/ \E m \in requests : Replay(m) \/ Conflict(m) \/ Refuse(m) \/ Begin(m)
  \/ \E m \in processing : Commit(m) \/ GiveUp(m)

Next ==
  \/ \E r \in Row, k \in Kind : QueueForPlatform(r, k)
  \/ \E f \in Flusher : FlushOutbox(f) \/ FlushStep(f) \/ Crash(f)
  \/ Platform

\* A flush runs on until it ends: every await in it is bounded by the client's
\* timer.  Somebody keeps calling flushOutbox(): the caller's duty, not the
\* code's.
Fairness == \A f \in Flusher : WF_vars(FlushStep(f)) /\ WF_vars(FlushOutbox(f))

Spec == Init /\ [][Next]_vars
FairSpec == Spec /\ Fairness
-----------------------------------------------------------------------------
(* Properties. *)

\* However often a row is sent again, by however many overlapping flushes,
\* after lost answers and crashes, the platform acts on it at most once: every
\* attempt carries the row's one requestId.
RecordedAtMostOnce == \A r \in Row : ledger[r] <= 1

\* A row is only marked Sent when the platform has processed that row, once, and
\* its answer about it was a 2xx (markSent runs after send() resolved).  It does
\* not say that everything in the row was accepted: see RejectedItemsAreActedOn.
SentMeansProcessed == \A r \in Row : status[r] = "Sent" => ledger[r] = 1

\* The attempt budget is checked when a flush takes its snapshot and spent
\* when an attempt fails, so overlapping flushes overrun it, by one attempt
\* for each flush but the first and no more.
BudgetOverrunIsBounded ==
  \A r \in Row : attempts[r] <= MaxAttempts + Cardinality(Flusher) - 1

\* Delivery.tla, with the platform's effects as its ledger.
D == INSTANCE Delivery WITH
       Item <- Row,
       queued <- {r \in Row : status[r] # "Absent"},
       ledger <- ledger,
       partial <- refused,
       confirmed <- {r \in Row : status[r] = "Sent"}
ImplementsDelivery == D!Spec

\* A flush that was started ends: no lost request, lost answer or silent
\* platform can hold it, since request() bounds every wait.
FlushEnds == \A f \in Flusher : batch[f] # {} ~> batch[f] = {}

\* Fewer than Limit rows in front of r are of a kind that stays Pending for ever.
WithinReach(r) ==
  Cardinality({q \in Row : q < r /\ status[q] = "Pending" /\ kind[q] \in OtherKind}) < Limit

\* If flushes keep being started, a row that can be sent at all and is within
\* reach of LIMIT settles for good: sent, or given up with its budget spent.
Settles ==
  \A r \in Row :
    (status[r] = "Pending" /\ kind[r] \in SupportedKind /\ WithinReach(r))
      ~> [](status[r] # "Pending")

\* "Treat `rejected` as a failure to act on, not noise" (client.ts, of the answer
\* to lexicon gaps): a row of which the platform rejected items is not simply
\* marked Sent.
RejectedItemsAreActedOn == \A r \in Row : r \in refused => status[r] # "Sent"
=============================================================================
