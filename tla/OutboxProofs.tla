---------------------------- MODULE OutboxProofs ----------------------------
(***************************************************************************)
(* Proofs about Outbox, for any set of rows and flushes and any limits:    *)
(* type correctness, at-most-once processing, Sent only after processing,  *)
(* and that Outbox implements Delivery.                                    *)
(***************************************************************************)
EXTENDS Outbox, FiniteSetTheorems, TLAPS

Network == requests \union processing

\* A request still owned by a flush is the one that flush is waiting for.
Owned ==
  \A m \in Network :
    /\ m.key = m.row
    /\ status[m.row] # "Absent"
    /\ m.from # Nobody => call[m.from] = "waiting" /\ At(m.from, m.row)

\* A flush owns at most one request, in one place.
Single ==
  \A m, n \in Network :
    m.from # Nobody /\ m.from = n.from
      => m = n /\ ~(m \in requests /\ m \in processing)

\* The platform works on a key once at a time, and on no key it knows.
AtWork ==
  /\ \A m, n \in processing : m.key = n.key => m = n
  /\ \A m \in processing : m.key \notin seen

Books ==
  /\ \A r \in Row : ledger[r] = IF r \in seen THEN 1 ELSE 0
  /\ \A r \in seen : status[r] # "Absent"

\* What each flush holds: queued rows, and an answer only while it is at a row.
Flushing ==
  \A f \in Flusher :
    /\ \A r \in batch[f] : status[r] # "Absent"
    /\ call[f] # "none" => batch[f] # {}
    /\ \A r \in Row : call[f] \in Success /\ At(f, r) => r \in seen

Confirmed == \A r \in Row : status[r] = "Sent" => r \in seen

IInv == TypeOK /\ Owned /\ Single /\ AtWork /\ Books /\ Flushing /\ Confirmed

-----------------------------------------------------------------------------

\* At most one row is the oldest of a batch.
LEMMA AtUnique ==
  ASSUME NEW f \in Flusher, NEW r \in Row, NEW q \in Row, At(f, r), At(f, q)
  PROVE  r = q
  BY RowAssumption DEF At

LEMMA InitIInv == Init => IInv
<1> SUFFICES ASSUME Init PROVE IInv
  OBVIOUS
<1>1. (CHOOSE k \in Kind : TRUE) \in Kind
  BY KindAssumption
<1>2. TypeOK
  BY <1>1, CrashAssumption DEF Init, TypeOK, Status, CallState
<1>3. Owned /\ Single /\ AtWork
  BY DEF Init, Owned, Single, AtWork, Network
<1>4. Books /\ Flushing /\ Confirmed
  BY DEF Init, Books, Flushing, Success, Confirmed
<1> QED
  BY <1>2, <1>3, <1>4 DEF IInv

LEMMA QueueKeeps ==
  ASSUME IInv, NEW r \in Row, NEW k \in Kind, QueueForPlatform(r, k)
  PROVE  IInv'
<1>1. TypeOK'
  BY DEF IInv, TypeOK, QueueForPlatform, platform, Status
<1>2. \A q \in Row : status[q] # "Absent" => status'[q] # "Absent"
  BY DEF IInv, TypeOK, QueueForPlatform
<1>3. Owned' /\ Single' /\ AtWork'
  BY <1>2 DEF IInv, TypeOK, QueueForPlatform, platform, Owned, Single, AtWork,
     Network, At, Request
<1>4. Books' /\ Flushing' /\ Confirmed'
  BY <1>2 DEF IInv, TypeOK, QueueForPlatform, platform, Books, Flushing, Confirmed, At
<1> QED
  BY <1>1, <1>3, <1>4 DEF IInv

LEMMA FlushOutboxKeeps ==
  ASSUME IInv, NEW f \in Flusher, FlushOutbox(f)
  PROVE  IInv'
<1>1. PendingOutbox \subseteq Row /\ \A r \in PendingOutbox : status[r] = "Pending"
  BY DEF PendingOutbox, Sendable
<1>2. TypeOK'
  BY <1>1 DEF IInv, TypeOK, FlushOutbox, table, platform
<1>3. call[f] = "none"
  BY DEF IInv, Flushing, FlushOutbox
<1>4. Owned' /\ Single' /\ AtWork'
  BY <1>3 DEF IInv, TypeOK, FlushOutbox, table, platform, Owned, Single, AtWork,
     Network, At, Request
<1>5. Books' /\ Flushing' /\ Confirmed'
  BY <1>1, <1>3 DEF IInv, TypeOK, FlushOutbox, table, platform, Books, Flushing,
     Success, Confirmed, At
<1> QED
  BY <1>2, <1>4, <1>5 DEF IInv

\* Skip, MarkSent and MarkFailed leave the network alone and end the visit of
\* row r; status[r] stays queued, and becomes Sent only with r recorded.
LEMMA AdvanceKeeps ==
  ASSUME IInv, NEW f \in Flusher, NEW r \in Row, At(f, r), call[f] # "waiting",
         Advance(f, r), UNCHANGED <<platform, crashes, kind>>,
         attempts' \in [Row -> Nat],
         NEW s \in Status \ {"Absent"}, status' = [status EXCEPT ![r] = s],
         s = "Sent" => r \in seen
  PROVE  IInv'
<1>1. TypeOK'
  BY DEF IInv, TypeOK, Advance, platform, CallState
<1>2. \A q \in Row : status[q] # "Absent" => status'[q] # "Absent"
  BY DEF IInv, TypeOK
<1>3. \A m \in Network : m.from # f
  BY FlusherAssumption DEF IInv, Owned
<1>4. Owned'
  BY <1>2, <1>3 DEF IInv, TypeOK, Owned, Network, Advance, platform, At, Request
<1>5. Single' /\ AtWork'
  BY DEF IInv, Single, AtWork, Network, platform
<1>6. Books' /\ Confirmed'
  BY <1>2 DEF IInv, TypeOK, Books, Confirmed, platform
<1>7. Flushing'
  BY <1>2 DEF IInv, TypeOK, Flushing, Success, Advance, platform, At
<1> QED
  BY <1>1, <1>4, <1>5, <1>6, <1>7 DEF IInv

LEMMA SkipKeeps ==
  ASSUME IInv, NEW f \in Flusher, NEW r \in Row, Skip(f, r)
  PROVE  IInv'
<1>1. status[r] \in Status \ {"Absent"}
  BY DEF IInv, TypeOK, Skip, At, Flushing
<1>2. status' = [status EXCEPT ![r] = status[r]] /\ attempts' \in [Row -> Nat]
  BY DEF IInv, TypeOK, Skip, table
<1>3. status[r] = "Sent" => r \in seen
  BY DEF IInv, Confirmed
<1> QED
  BY <1>1, <1>2, <1>3, AdvanceKeeps DEF Skip, table

LEMMA MarkSentKeeps ==
  ASSUME IInv, NEW f \in Flusher, NEW r \in Row, MarkSent(f, r)
  PROVE  IInv'
<1>1. r \in seen
  BY DEF IInv, Flushing, MarkSent
<1>2. "Sent" \in Status \ {"Absent"} /\ attempts' \in [Row -> Nat]
  BY DEF IInv, TypeOK, MarkSent, SetSent, Status
<1> QED
  BY <1>1, <1>2, AdvanceKeeps DEF MarkSent, SetSent, Success

LEMMA MarkFailedKeeps ==
  ASSUME IInv, NEW f \in Flusher, NEW r \in Row, MarkFailed(f, r)
  PROVE  IInv'
<1> DEFINE s == IF attempts[r] + 1 >= MaxAttempts THEN "Failed" ELSE "Pending"
<1>1. s \in Status \ {"Absent"} /\ s # "Sent"
  BY DEF Status
<1>2. status' = [status EXCEPT ![r] = s] /\ attempts' \in [Row -> Nat]
  BY DEF IInv, TypeOK, MarkFailed, CountFailure
<1>3. call[f] # "waiting"
  BY DEF MarkFailed, Error
<1> HIDE DEF s
<1> QED
  BY <1>1, <1>2, <1>3, AdvanceKeeps DEF MarkFailed, CountFailure

LEMMA SendKeeps ==
  ASSUME IInv, NEW f \in Flusher, NEW r \in Row, Send(f, r)
  PROVE  IInv'
<1> DEFINE m == [from |-> f, row |-> r, key |-> IdempotencyKey(r)]
<1>1. m \in Request /\ requests' = requests \union {m}
  BY DEF Send, Request, IdempotencyKey
<1>2. TypeOK'
  BY <1>1 DEF IInv, TypeOK, Send, table, CallState
<1>3. \A n \in Network : n.from # f
  BY FlusherAssumption DEF IInv, Owned, Send
<1>4. status[r] # "Absent"
  BY DEF IInv, Flushing, Send, At
<1>5. Owned'
  BY <1>1, <1>3, <1>4 DEF IInv, TypeOK, Owned, Network, Send, table, At, Request,
     IdempotencyKey
<1>6. Single' /\ AtWork'
  BY <1>1, <1>3 DEF IInv, Single, AtWork, Network, Send
<1>7. Books' /\ Flushing' /\ Confirmed'
  BY DEF IInv, TypeOK, Books, Flushing, Success, Confirmed, Send, table, At
<1> QED
  BY <1>2, <1>5, <1>6, <1>7 DEF IInv

-----------------------------------------------------------------------------
(* Abort and Crash: a flush disowns its request. *)

LEMMA DisownFacts ==
  ASSUME NEW f \in Flusher, NEW m \in Request
  PROVE  /\ Disown(f, m) \in Request
         /\ Disown(f, m).row = m.row /\ Disown(f, m).key = m.key
         /\ Disown(f, m).from # f
         /\ m.from = f => Disown(f, m).from = Nobody
         /\ m.from # f => Disown(f, m) = m
  BY FlusherAssumption DEF Disown, Request

LEMMA DisownKeeps ==
  ASSUME IInv, NEW f \in Flusher,
         requests' = Disowned(f, requests), processing' = Disowned(f, processing),
         UNCHANGED <<table, seen, ledger, refused>>,
         \A g \in Flusher \ {f} : call'[g] = call[g] /\ batch'[g] = batch[g]
  PROVE  /\ requests' \subseteq Request /\ processing' \subseteq Request
         /\ Owned' /\ Single' /\ AtWork' /\ Books' /\ Confirmed'
<1>1. requests \in SUBSET Request /\ processing \in SUBSET Request
  BY DEF IInv, TypeOK
<1>2. requests' \subseteq Request /\ processing' \subseteq Request
  BY <1>1, DisownFacts DEF Disowned
<1>3. \A m \in Network' : m \in Request /\ m.from # f
  BY <1>1, DisownFacts DEF Network, Disowned
<1>4. \A m \in Network' : m.from # Nobody =>
        /\ m \in Network
        /\ m \in requests' => m \in requests
        /\ m \in processing' => m \in processing
  BY <1>1, DisownFacts DEF Network, Disowned
<1>5. \A m \in Network' : \E n \in Network : m.row = n.row /\ m.key = n.key
  BY <1>1, DisownFacts DEF Network, Disowned
<1>6. Owned'
  BY <1>3, <1>4, <1>5 DEF IInv, Owned, Request, table, At
<1>7. Single'
  BY <1>4 DEF IInv, Single
<1>8. AtWork'
  BY <1>1, DisownFacts DEF IInv, AtWork, Disowned
<1>9. Books' /\ Confirmed'
  BY DEF IInv, Books, Confirmed, table
<1> QED
  BY <1>2, <1>6, <1>7, <1>8, <1>9

LEMMA AbortKeeps ==
  ASSUME IInv, NEW f \in Flusher, Abort(f)
  PROVE  IInv'
<1>1. /\ requests' \subseteq Request /\ processing' \subseteq Request
      /\ Owned' /\ Single' /\ AtWork' /\ Books' /\ Confirmed'
  BY DisownKeeps DEF Abort, IInv, TypeOK
<1>2. TypeOK'
  BY <1>1 DEF IInv, TypeOK, Abort, table, CallState, Answer, Error
<1>3. Flushing'
  BY DEF IInv, TypeOK, Flushing, Success, Abort, table, At
<1> QED
  BY <1>1, <1>2, <1>3 DEF IInv

LEMMA CrashKeeps ==
  ASSUME IInv, NEW f \in Flusher, Crash(f)
  PROVE  IInv'
<1>1. /\ requests' \subseteq Request /\ processing' \subseteq Request
      /\ Owned' /\ Single' /\ AtWork' /\ Books' /\ Confirmed'
  BY DisownKeeps DEF Crash, IInv, TypeOK
<1>2. TypeOK'
  BY <1>1, CrashAssumption DEF IInv, TypeOK, Crash, table, CallState
<1>3. Flushing'
  BY DEF IInv, TypeOK, Flushing, Success, Crash, table, At
<1> QED
  BY <1>1, <1>2, <1>3 DEF IInv

-----------------------------------------------------------------------------
(* The platform takes a request, answers it, or works on it. *)

LEMMA TakenSubset ==
  ASSUME NEW m \in requests, requests' \in Taken(m)
  PROVE  /\ requests' \subseteq requests
         /\ m.from # Nobody => m \notin requests'
  BY DEF Taken

\* An answer reaches the flush that waits for it, about the row it is at.
LEMMA ReplyKeeps ==
  ASSUME IInv, NEW m \in Network, NEW answer \in Answer, Reply(m, answer),
         m.from # Nobody => m \notin Network',
         answer \in Success => m.row \in seen',
         Network' \subseteq Network, requests' \subseteq requests,
         processing' \subseteq processing, seen \subseteq seen',
         UNCHANGED <<table, batch>>
  PROVE  /\ call' \in [Flusher -> CallState]
         /\ Owned' /\ Single' /\ Flushing'
<1>1. m.from # Nobody => /\ m.from \in Flusher /\ m.row \in Row
                         /\ At(m.from, m.row) /\ call[m.from] = "waiting"
  BY DEF IInv, TypeOK, Owned, Network, Request
<1>2. call' \in [Flusher -> CallState]
  BY <1>1 DEF IInv, TypeOK, Reply, CallState
<1>3. \A n \in Network' : n.from # Nobody => n.from # m.from
  BY DEF IInv, Single
<1>4. Owned'
  <2> SUFFICES ASSUME NEW n \in Network'
               PROVE  /\ n.key = n.row
                      /\ status'[n.row] # "Absent"
                      /\ n.from # Nobody => call'[n.from] = "waiting" /\ At(n.from, n.row)'
    BY DEF Owned
  <2>1. /\ n.key = n.row
        /\ status[n.row] # "Absent"
        /\ n.from # Nobody => call[n.from] = "waiting" /\ At(n.from, n.row)
    BY DEF IInv, Owned
  <2>2. n.from # Nobody => call'[n.from] = call[n.from]
    BY <1>1, <1>3 DEF IInv, TypeOK, Network, Request, Reply
  <2> QED
    BY <2>1, <2>2 DEF table, At
<1>5. Single'
  BY DEF IInv, Single
<1>6. Flushing'
  <2> SUFFICES ASSUME NEW f \in Flusher
               PROVE  /\ \A r \in batch'[f] : status'[r] # "Absent"
                      /\ call'[f] # "none" => batch'[f] # {}
                      /\ \A r \in Row : call'[f] \in Success /\ At(f, r)' => r \in seen'
    BY DEF Flushing
  <2>1. /\ \A r \in batch[f] : status[r] # "Absent"
        /\ call[f] # "none" => batch[f] # {}
        /\ \A r \in Row : call[f] \in Success /\ At(f, r) => r \in seen
    BY DEF IInv, Flushing
  <2>2. CASE f = m.from
    <3>1. call'[f] = answer /\ At(f, m.row) /\ batch[f] # {}
      BY <1>1, <2>2, FlusherAssumption DEF IInv, TypeOK, Reply, At
    <3>2. \A r \in Row : At(f, r) => r = m.row
      BY <1>1, <2>2, <3>1, AtUnique, FlusherAssumption
    <3> QED
      BY <2>1, <3>1, <3>2 DEF table, At
  <2>3. CASE f # m.from
    <3>1. call'[f] = call[f]
      BY <2>3 DEF IInv, TypeOK, Reply
    <3> QED
      BY <2>1, <3>1 DEF table, At
  <2> QED
    BY <2>2, <2>3
<1> QED
  BY <1>2, <1>4, <1>5, <1>6

\* Replay, Conflict and Refuse: the request is answered and nothing else changes.
LEMMA AnswerKeeps ==
  ASSUME IInv, NEW m \in requests, NEW answer \in Answer,
         requests' \in Taken(m), Reply(m, answer),
         answer \in Success => m.row \in seen,
         UNCHANGED <<table, batch, processing, seen, ledger, refused, crashes>>
  PROVE  IInv'
<1>1. requests' \subseteq requests /\ (m.from # Nobody => m \notin requests')
  BY TakenSubset
<1>2. m.from # Nobody => m \notin processing
  BY DEF IInv, Single, Network
<1>3. call' \in [Flusher -> CallState] /\ Owned' /\ Single' /\ Flushing'
  BY <1>1, <1>2, ReplyKeeps DEF Network
<1>4. TypeOK'
  BY <1>1, <1>3 DEF IInv, TypeOK, table
<1>5. AtWork' /\ Books' /\ Confirmed'
  BY DEF IInv, AtWork, Books, Confirmed, table
<1> QED
  BY <1>3, <1>4, <1>5 DEF IInv

LEMMA ReplayKeeps ==
  ASSUME IInv, NEW m \in requests, Replay(m)
  PROVE  IInv'
<1>1. m.row \in seen
  BY DEF IInv, Owned, Network, Replay
<1> QED
  BY <1>1, AnswerKeeps DEF Replay, Answer, Stored, Success

LEMMA ConflictKeeps ==
  ASSUME IInv, NEW m \in requests, Conflict(m)
  PROVE  IInv'
  BY AnswerKeeps DEF Conflict, Answer, Error, Success

LEMMA RefuseKeeps ==
  ASSUME IInv, NEW m \in requests, Refuse(m)
  PROVE  IInv'
  BY AnswerKeeps DEF Refuse, Answer, Error, Success

LEMMA BeginKeeps ==
  ASSUME IInv, NEW m \in requests, Begin(m)
  PROVE  IInv'
<1>1. requests' \subseteq requests /\ (m.from # Nobody => m \notin requests')
  BY TakenSubset DEF Begin
<1>2. processing' = processing \union {m} /\ Network' \subseteq Network
  BY <1>1 DEF Begin, Network
<1>3. TypeOK'
  BY <1>1, <1>2 DEF IInv, TypeOK, Begin, table
<1>4. Owned'
  BY <1>2 DEF IInv, Owned, Begin, table, At
<1>5. Single'
  BY <1>1, <1>2 DEF IInv, Single, Network
<1>6. AtWork'
  BY <1>2 DEF IInv, AtWork, Begin
<1>7. Books' /\ Flushing' /\ Confirmed'
  BY DEF IInv, Books, Flushing, Confirmed, Begin, table, At
<1> QED
  BY <1>3, <1>4, <1>5, <1>6, <1>7 DEF IInv

LEMMA CommitKeeps ==
  ASSUME IInv, NEW m \in processing, Commit(m)
  PROVE  IInv'
<1>1. m.row \in Row /\ m.key = m.row /\ status[m.row] # "Absent"
  BY DEF IInv, TypeOK, Owned, Network, Request
<1>2. m.row \notin seen /\ ledger[m.row] = 0
  BY <1>1 DEF IInv, AtWork, Books
<1>3. m.from # Nobody => m \notin requests
  BY DEF IInv, Single, Network
<1>4. call' \in [Flusher -> CallState] /\ Owned' /\ Single' /\ Flushing'
  <2>1. PICK answer \in Success : Reply(m, answer)
    BY DEF Commit, Success
  <2> QED
    BY <1>1, <1>3, <2>1, ReplyKeeps DEF Commit, Network, Answer, table
<1>5. TypeOK'
  BY <1>1, <1>4 DEF IInv, TypeOK, Commit, table
<1>6. AtWork'
  BY <1>1 DEF IInv, AtWork, Commit
<1>7. Books' /\ Confirmed'
  BY <1>1, <1>2 DEF IInv, TypeOK, Books, Confirmed, Commit, table
<1> QED
  BY <1>4, <1>5, <1>6, <1>7 DEF IInv

LEMMA GiveUpKeeps ==
  ASSUME IInv, NEW m \in processing, GiveUp(m)
  PROVE  IInv'
<1>1. m.from # Nobody => m \notin requests
  BY DEF IInv, Single, Network
<1>2. call' \in [Flusher -> CallState] /\ Owned' /\ Single' /\ Flushing'
  BY <1>1, ReplyKeeps DEF GiveUp, Network, Answer, Error, Success, table
<1>3. TypeOK'
  BY <1>2 DEF IInv, TypeOK, GiveUp, table
<1>4. AtWork' /\ Books' /\ Confirmed'
  BY DEF IInv, AtWork, Books, Confirmed, GiveUp, table
<1> QED
  BY <1>2, <1>3, <1>4 DEF IInv

LEMMA NextIInv == IInv /\ [Next]_vars => IInv'
<1> SUFFICES ASSUME IInv, [Next]_vars PROVE IInv'
  OBVIOUS
<1>1. ASSUME NEW r \in Row, NEW k \in Kind, QueueForPlatform(r, k) PROVE IInv'
  BY <1>1, QueueKeeps
<1>2. ASSUME NEW f \in Flusher, FlushOutbox(f) PROVE IInv'
  BY <1>2, FlushOutboxKeeps
<1>3. ASSUME NEW f \in Flusher, FlushStep(f) PROVE IInv'
  BY <1>3, AbortKeeps, SkipKeeps, SendKeeps, MarkSentKeeps, MarkFailedKeeps DEF FlushStep
<1>4. ASSUME NEW f \in Flusher, Crash(f) PROVE IInv'
  BY <1>4, CrashKeeps
<1>5. ASSUME Platform PROVE IInv'
  BY <1>5, ReplayKeeps, ConflictKeeps, RefuseKeeps, BeginKeeps, CommitKeeps, GiveUpKeeps
     DEF Platform
<1>6. CASE UNCHANGED vars
  BY <1>6 DEF IInv, TypeOK, Owned, Single, AtWork, Books, Flushing, Confirmed, Network,
     At, vars, table, platform
<1> QED
  BY <1>1, <1>2, <1>3, <1>4, <1>5, <1>6 DEF Next

\* The inductive invariant holds in every reachable state.
THEOREM Invariance == Spec => []IInv
  BY InitIInv, NextIInv, PTL DEF Spec

-----------------------------------------------------------------------------

\* Every variable of the outbox, the flushes and the platform has its type.
THEOREM TypeCorrect == Spec => []TypeOK
<1>1. IInv => TypeOK
  BY DEF IInv
<1> QED
  BY <1>1, Invariance, PTL

\* No row takes effect at the platform twice, whatever flushOutbox() calls
\* overlap, crash or time out: the requestId is the idempotency key.
THEOREM AtMostOnce == Spec => []RecordedAtMostOnce
<1>1. IInv => RecordedAtMostOnce
  BY DEF IInv, Books, RecordedAtMostOnce
<1> QED
  BY <1>1, Invariance, PTL

\* markSent only ever marks rows the platform has processed, exactly once; what it
\* accepted of them is another matter (RejectedItemsAreActedOn).
THEOREM SentIsProcessed == Spec => []SentMeansProcessed
<1>1. IInv => SentMeansProcessed
  BY DEF IInv, Books, Confirmed, SentMeansProcessed
<1> QED
  BY <1>1, Invariance, PTL

-----------------------------------------------------------------------------
(* Refinement. *)

\* A step that changes neither the books nor any row's status is a stutter.
LEMMA Stutters ==
  ASSUME UNCHANGED <<status, ledger, refused>>
  PROVE  UNCHANGED D!vars
  BY DEF D!vars

LEMMA QueueRefines ==
  ASSUME IInv, NEW r \in Row, NEW k \in Kind, QueueForPlatform(r, k)
  PROVE  D!Enqueue(r)
  BY DEF IInv, TypeOK, QueueForPlatform, platform, D!Enqueue

LEMMA MarkSentRefines ==
  ASSUME IInv, NEW f \in Flusher, NEW r \in Row, MarkSent(f, r)
  PROVE  D!Confirm(r)
<1>1. status[r] # "Absent" /\ ledger[r] = 1 /\ UNCHANGED <<ledger, refused>>
  BY DEF IInv, Books, Flushing, MarkSent, platform
<1>2. status' = [status EXCEPT ![r] = "Sent"]
  BY DEF MarkSent, SetSent
<1> QED
  BY <1>1, <1>2 DEF IInv, TypeOK, D!Confirm

LEMMA MarkFailedRefines ==
  ASSUME IInv, NEW f \in Flusher, NEW r \in Row, MarkFailed(f, r)
  PROVE  D!Reopen(r) \/ UNCHANGED D!vars
<1>1. status[r] # "Absent" /\ UNCHANGED <<ledger, refused>>
  BY DEF IInv, Flushing, MarkFailed, At, platform
<1>2. \A q \in Row : q # r => status'[q] = status[q]
  BY DEF IInv, TypeOK, MarkFailed, CountFailure
<1>3. status'[r] \in {"Failed", "Pending"}
  BY DEF IInv, TypeOK, MarkFailed, CountFailure
<1>4. CASE status[r] = "Sent"
  BY <1>1, <1>2, <1>3, <1>4 DEF D!Reopen
<1>5. CASE status[r] # "Sent"
  BY <1>1, <1>2, <1>3, <1>5 DEF D!vars
<1> QED
  BY <1>4, <1>5

LEMMA CommitRefines ==
  ASSUME IInv, NEW m \in processing, Commit(m)
  PROVE  m.row \in Row /\ D!Record(m.row)
<1>1. m.row \in Row /\ m.key = m.row /\ status[m.row] # "Absent"
  BY DEF IInv, TypeOK, Owned, Network, Request
<1>2. ledger[m.row] = 0
  BY <1>1 DEF IInv, AtWork, Books
<1> QED
  BY <1>1, <1>2 DEF IInv, TypeOK, Commit, table, D!Record

LEMMA NextRefines == IInv /\ [Next]_vars => [D!Next]_D!vars
<1> SUFFICES ASSUME IInv, [Next]_vars PROVE [D!Next]_D!vars
  OBVIOUS
<1>1. ASSUME NEW r \in Row, NEW k \in Kind, QueueForPlatform(r, k) PROVE D!Next
  BY <1>1, QueueRefines DEF D!Next
<1>2. ASSUME NEW f \in Flusher, FlushOutbox(f) PROVE UNCHANGED <<status, ledger, refused>>
  BY <1>2 DEF FlushOutbox, table, platform
<1>3. ASSUME NEW f \in Flusher, FlushStep(f) PROVE [D!Next]_D!vars
  <2>1. ASSUME NEW r \in Row, MarkSent(f, r) PROVE D!Next
    BY <2>1, MarkSentRefines DEF D!Next
  <2>2. ASSUME NEW r \in Row, MarkFailed(f, r) PROVE [D!Next]_D!vars
    BY <2>2, MarkFailedRefines DEF D!Next
  <2>3. ASSUME NEW r \in Row, Skip(f, r) \/ Send(f, r) PROVE UNCHANGED <<status, ledger, refused>>
    BY <2>3 DEF Skip, Send, table, platform
  <2>4. ASSUME Abort(f) PROVE UNCHANGED <<status, ledger, refused>>
    BY <2>4 DEF Abort, table
  <2> QED
    BY <1>3, <2>1, <2>2, <2>3, <2>4, Stutters DEF FlushStep
<1>4. ASSUME NEW f \in Flusher, Crash(f) PROVE UNCHANGED <<status, ledger, refused>>
  BY <1>4 DEF Crash, table
<1>5. ASSUME Platform PROVE [D!Next]_D!vars
  <2>1. ASSUME NEW m \in processing, Commit(m) PROVE D!Next
    BY <2>1, CommitRefines DEF D!Next
  <2>2. ASSUME NEW m \in processing, GiveUp(m) PROVE UNCHANGED <<status, ledger, refused>>
    BY <2>2 DEF GiveUp, table
  <2>3. ASSUME NEW m \in requests, Replay(m) \/ Conflict(m) \/ Refuse(m) \/ Begin(m)
        PROVE  UNCHANGED <<status, ledger, refused>>
    BY <2>3 DEF Replay, Conflict, Refuse, Begin, table
  <2> QED
    BY <1>5, <2>1, <2>2, <2>3, Stutters DEF Platform
<1>6. CASE UNCHANGED vars
  BY <1>6, Stutters DEF vars, table, platform
<1> QED
  BY <1>1, <1>2, <1>3, <1>4, <1>5, <1>6, Stutters DEF Next

\* The outbox keeps the promise of Delivery: every step of a flush, of the
\* table or of the platform is a step of it or changes nothing it can see.
THEOREM Refinement == Spec => ImplementsDelivery
<1>1. Init => D!Init
  BY DEF Init, D!Init
<1> QED
  BY <1>1, Invariance, NextRefines, PTL DEF Spec, D!Spec, ImplementsDelivery

-----------------------------------------------------------------------------
(* The attempt budget. *)

Holders(r) == {f \in Flusher : r \in batch[f]}

\* Once a row's budget is spent nobody picks it up any more: its attempts and
\* the flushes that still hold it add up to no more than they did.
Budget ==
  \A r \in Row : attempts[r] >= MaxAttempts
    => attempts[r] + Cardinality(Holders(r)) <= MaxAttempts + Cardinality(Flusher) - 1

LEMMA HoldersFinite ==
  ASSUME NEW S \in SUBSET Flusher
  PROVE  /\ IsFiniteSet(S)
         /\ Cardinality(S) \in Nat
         /\ Cardinality(S) <= Cardinality(Flusher)
         /\ Cardinality(Flusher) \in Nat
         /\ \A f \in S : Cardinality(S \ {f}) = Cardinality(S) - 1
  BY FlusherAssumption, FS_Subset, FS_CardinalityType, FS_RemoveElement

LEMMA NextBudget == IInv /\ Budget /\ [Next]_vars => Budget'
<1> SUFFICES ASSUME IInv, Budget, [Next]_vars, NEW r \in Row
             PROVE  (attempts[r] >= MaxAttempts
                      => attempts[r] + Cardinality(Holders(r))
                           <= MaxAttempts + Cardinality(Flusher) - 1)'
  BY DEF Budget
<1> USE AttemptAssumption
<1>1. /\ Holders(r) \subseteq Flusher /\ Holders(r)' \subseteq Flusher
      /\ attempts[r] \in Nat
  BY DEF Holders, IInv, TypeOK
<1>2. ASSUME Holders(r)' \subseteq Holders(r)
      PROVE  Cardinality(Holders(r)') <= Cardinality(Holders(r))
  BY <1>1, <1>2, HoldersFinite, FS_Subset
<1>3. CASE attempts' = attempts /\ \A f \in Flusher : batch'[f] \subseteq batch[f]
  <2>1. Holders(r)' \subseteq Holders(r)
    BY <1>3 DEF Holders
  <2> QED
    BY <1>1, <1>2, <1>3, <2>1, HoldersFinite DEF Budget
<1>4. ASSUME NEW f \in Flusher, FlushOutbox(f) PROVE Budget'
  <2> SUFFICES ASSUME NEW q \in Row, attempts'[q] >= MaxAttempts
               PROVE  (attempts[q] + Cardinality(Holders(q))
                        <= MaxAttempts + Cardinality(Flusher) - 1)'
    BY DEF Budget
  <2>1. attempts' = attempts /\ q \notin batch'[f]
    BY <1>4 DEF FlushOutbox, table, PendingOutbox, Sendable, IInv, TypeOK
  <2>2. Holders(q)' = Holders(q)
    BY <1>4, <2>1 DEF Holders, FlushOutbox, IInv, TypeOK
  <2> QED
    BY <2>1, <2>2 DEF Budget
<1>5. ASSUME NEW f \in Flusher, NEW q \in Row, MarkFailed(f, q) PROVE Budget'
  <2> SUFFICES ASSUME NEW p \in Row, attempts'[p] >= MaxAttempts
               PROVE  (attempts[p] + Cardinality(Holders(p))
                        <= MaxAttempts + Cardinality(Flusher) - 1)'
    BY DEF Budget
  <2>1. /\ attempts' = [attempts EXCEPT ![q] = @ + 1]
        /\ batch' = [batch EXCEPT ![f] = @ \ {q}]
        /\ q \in batch[f]
    BY <1>5 DEF MarkFailed, CountFailure, Advance, At
  <2>2. Holders(p) \subseteq Flusher
    BY DEF Holders
  <2>3. CASE p = q
    <3>1. f \in Holders(q) /\ Holders(q)' = Holders(q) \ {f}
      BY <2>1 DEF Holders, IInv, TypeOK
    <3>2. attempts'[q] = attempts[q] + 1 /\ attempts[q] \in Nat
      BY <2>1 DEF IInv, TypeOK
    <3>3. Cardinality(Holders(q)') = Cardinality(Holders(q)) - 1
      BY <2>2, <2>3, <3>1, HoldersFinite
    <3> QED
      BY <2>2, <2>3, <3>2, <3>3, HoldersFinite DEF Budget
  <2>4. CASE p # q
    <3>1. attempts'[p] = attempts[p] /\ Holders(p)' = Holders(p)
      BY <2>1, <2>4 DEF Holders, IInv, TypeOK
    <3> QED
      BY <3>1 DEF Budget
  <2> QED
    BY <2>3, <2>4
<1>6. CASE \E q \in Row, k \in Kind : QueueForPlatform(q, k)
  BY <1>3, <1>6 DEF QueueForPlatform
<1>7. ASSUME NEW f \in Flusher, FlushStep(f), \A q \in Row : ~MarkFailed(f, q)
      PROVE  attempts' = attempts /\ \A g \in Flusher : batch'[g] \subseteq batch[g]
  BY <1>7 DEF FlushStep, Abort, Skip, Send, MarkSent, SetSent, Advance, table, IInv, TypeOK
<1>8. ASSUME NEW f \in Flusher, Crash(f)
      PROVE  attempts' = attempts /\ \A g \in Flusher : batch'[g] \subseteq batch[g]
  BY <1>8 DEF Crash, table, IInv, TypeOK
<1>9. CASE Platform
  BY <1>3, <1>9 DEF Platform, Replay, Conflict, Refuse, Begin, Commit, GiveUp, table
<1>10. CASE UNCHANGED vars
  BY <1>3, <1>10 DEF vars, table
<1> QED
  BY <1>3, <1>4, <1>5, <1>6, <1>7, <1>8, <1>9, <1>10 DEF Next, Budget

\* Overlapping flushes overrun a row's eight attempts by at most one attempt
\* for each flush but the first.
THEOREM BudgetOverrun == Spec => []BudgetOverrunIsBounded
<1>1. Init => Budget
  <2>1. Init => \A r \in Row : ~(attempts[r] >= MaxAttempts)
    BY AttemptAssumption DEF Init
  <2> QED
    BY <2>1 DEF Budget
<1>2. IInv /\ Budget => BudgetOverrunIsBounded
  <2> SUFFICES ASSUME IInv, Budget, NEW r \in Row
               PROVE  attempts[r] <= MaxAttempts + Cardinality(Flusher) - 1
    BY DEF BudgetOverrunIsBounded
  <2>1. Cardinality(Flusher) \in Nat /\ Cardinality(Holders(r)) \in Nat /\ attempts[r] \in Nat
    BY HoldersFinite DEF Holders, IInv, TypeOK
  <2>2. CASE attempts[r] >= MaxAttempts
    BY <2>1, <2>2, AttemptAssumption DEF Budget
  <2>3. CASE attempts[r] < MaxAttempts
    BY <2>1, <2>3, AttemptAssumption
  <2> QED
    BY <2>1, <2>2, <2>3, AttemptAssumption
<1> QED
  BY <1>1, <1>2, Invariance, NextBudget, PTL DEF Spec
=============================================================================
