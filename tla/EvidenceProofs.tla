--------------------------- MODULE EvidenceProofs ---------------------------
(***************************************************************************)
(* Proofs about Evidence, for any cases, posts, agents and limits: type    *)
(* correctness, that last activity covers the findings about posts, and    *)
(* that no case is cooled against one, for any number of evaluators; that  *)
(* states only move down, one at a time, for one.  A flagged comment is no *)
(* such finding: the code does not count it (IsActivity).                  *)
(***************************************************************************)
EXTENDS Evidence, TLAPS

\* Verdicts are about posts that are filed.
Filed == \A n \in DOMAIN verdicts : postCase[verdicts[n].post] # None

\* Nothing is dated in the future.
Dates ==
  /\ \A n \in DOMAIN verdicts : verdicts[n].decidedAt <= now
  /\ \A c \in Case : lastActivity[c] # None => lastActivity[c] <= now

\* What an evaluator read covers the findings about posts recorded before.
ReadCovers ==
  \A e \in Evaluator :
    /\ evaluating[e].known \subseteq finished
    /\ \A c \in evaluating[e].todo :
         LET row == evaluating[e].rows[c] IN
         /\ row.lastActivity # None => row.lastActivity <= now
         /\ \A n \in PostFindings(c) \intersect evaluating[e].known :
              row.lastActivity # None /\ row.lastActivity >= verdicts[n].decidedAt

IInv == TypeOK /\ Filed /\ Dates /\ ActivityCoversPostFindings /\ ReadCovers

\* While one evaluator runs, the states it read are those in the table.
RowsAreCurrent ==
  \A e \in Evaluator : \A c \in evaluating[e].todo :
    state[c] # "Unopened" /\ evaluating[e].rows[c].state = state[c]

-----------------------------------------------------------------------------
(* What the operators do. *)

LEMMA NextStateType == \A row \in Row : NextState(row) \in State
BY DEF NextState, Row, State

\* A row moves one step down or not at all.
LEMMA NextStateFalls ==
  ASSUME NEW row \in Row, NextState(row) # row.state
  PROVE  /\ row.lastActivity # None
         /\ \/ row.state = "Active" /\ NextState(row) = "Cooling" /\ Silence(row) > CoolingAfter
            \/ row.state = "Cooling" /\ NextState(row) = "Dormant"
BY DEF NextState

LEMMA RestingType == Resting \in Evaluation
BY DEF Resting, Evaluation, Row, State

LEMMA RowsType == TypeOK => Rows \in [Case -> Row]
BY DEF TypeOK, Rows, Row

-----------------------------------------------------------------------------
(* Type correctness. *)

LEMMA InitType == Init => TypeOK
BY RestingType DEF Init, TypeOK, State

\* The verdicts grow at their end only.
LEMMA VerdictsGrow ==
  ASSUME TypeOK, NEW v \in Verdict, verdicts' = Append(verdicts, v)
  PROVE  /\ verdicts' \in Seq(Verdict) /\ Len(verdicts') = Len(verdicts) + 1
         /\ DOMAIN verdicts \subseteq DOMAIN verdicts'
         /\ \A n \in DOMAIN verdicts' : n \in DOMAIN verdicts \/ n = NewId
         /\ \A n \in DOMAIN verdicts : verdicts'[n] = verdicts[n]
         /\ verdicts'[NewId] = v /\ NewId \in DOMAIN verdicts' /\ NewId \notin DOMAIN verdicts
BY DEF TypeOK, NewId

LEMMA InsertedType ==
  ASSUME TypeOK, NEW p \in Post, NEW about \in About, NEW flagged \in BOOLEAN
  PROVE  [post |-> p, about |-> about, flagged |-> flagged, decidedAt |-> now] \in Verdict
<1>1. now \in Nat
  BY DEF TypeOK
<1> QED
  BY <1>1, Zenon DEF Verdict

LEMMA TypeStep ==
  ASSUME TypeOK, [Next]_vars
  PROVE  TypeOK'
<1>1. ASSUME NEW c \in Case, OpenCase(c) PROVE TypeOK'
  BY <1>1 DEF OpenCase, TypeOK, State, collected
<1>2. ASSUME NEW c \in Case, NEW p \in Post, RecordPost(p, c) PROVE TypeOK'
  BY <1>2 DEF RecordPost, TypeOK, cases
<1>3. ASSUME NEW p \in Post, RecordComment(p) PROVE TypeOK'
  BY <1>3 DEF RecordComment, TypeOK, cases
<1>4. ASSUME NEW a \in Agent, NEW v \in Verdict, InsertVerdict(a, v) PROVE TypeOK'
  <2>1. verdicts' = Append(verdicts, v) /\ UNCHANGED <<now, cases, collected, evaluating, crashes>>
    BY <1>4 DEF InsertVerdict
  <2>2. NewId \in 0 .. Len(verdicts') /\ Len(verdicts) <= Len(verdicts') /\ Len(verdicts) \in Nat
    BY <2>1, VerdictsGrow DEF TypeOK, NewId
  <2>3. recording' \in [Agent -> 0 .. Len(verdicts')]
    BY <1>4, <2>2 DEF InsertVerdict, TypeOK
  <2>4. finished' \subseteq DOMAIN verdicts'
    BY <1>4, <2>1, VerdictsGrow DEF InsertVerdict, TypeOK
  <2> QED
    BY <2>1, <2>3, <2>4, VerdictsGrow DEF TypeOK, cases, collected
<1>5. ASSUME NEW a \in Agent, TouchCase(a) PROVE TypeOK'
  <2>1. /\ recording[a] \in DOMAIN verdicts
        /\ finished' = finished \union {recording[a]}
        /\ recording' = [recording EXCEPT ![a] = 0]
        /\ UNCHANGED <<now, state, collected, verdicts, evaluating, crashes>>
    BY <1>5 DEF TouchCase, TypeOK
  <2>2. lastActivity' \in [Case -> Nat \union {None}]
    BY <1>5 DEF TouchCase, TypeOK, Stamp
  <2> QED
    BY <2>1, <2>2 DEF TypeOK, collected
<1>6. ASSUME NEW a \in Agent, CrashRecording(a) PROVE TypeOK'
  BY <1>6 DEF CrashRecording, TypeOK, cases, collected
<1>7. ASSUME NEW e \in Evaluator, ListCases(e) PROVE TypeOK'
  <2>1. Opened \subseteq Case /\ finished \subseteq Nat
    BY DEF Opened, TypeOK
  <2>2. [todo |-> Opened, rows |-> Rows, known |-> finished] \in Evaluation
    BY <2>1, RowsType DEF Evaluation
  <2> QED
    BY <1>7, <2>2 DEF ListCases, TypeOK, cases, collected
<1>8. ASSUME NEW e \in Evaluator, NEW c \in Case, Evaluate(e, c) PROVE TypeOK'
  <2>1. evaluating[e] \in Evaluation /\ evaluating[e].rows[c] \in Row
    BY DEF TypeOK, Evaluation
  <2>2. Without(evaluating[e], c) \in Evaluation
    BY <2>1, RestingType DEF Evaluation, Without
  <2>3. evaluating' \in [Evaluator -> Evaluation]
    BY <1>8, <2>2 DEF Evaluate, TypeOK
  <2>4. state' \in [Case -> State]
    BY <1>8, <2>1, NextStateType DEF Evaluate, TypeOK
  <2> QED
    BY <1>8, <2>3, <2>4 DEF Evaluate, TypeOK, collected
<1>9. ASSUME NEW e \in Evaluator, CrashEvaluating(e) PROVE TypeOK'
  BY <1>9, RestingType DEF CrashEvaluating, TypeOK, cases, collected
<1>10. CASE Tick
  BY <1>10 DEF Tick, TypeOK, cases, collected
<1>11. CASE UNCHANGED vars
  BY <1>11 DEF vars, TypeOK, cases, collected
<1> QED
  BY <1>1, <1>2, <1>3, <1>4, <1>5, <1>6, <1>7, <1>8, <1>9, <1>10, <1>11, InsertedType
  DEF Next, EvaluateLifecycles

-----------------------------------------------------------------------------
(* What no step takes back. *)

LEMMA Types ==
  ASSUME TypeOK
  PROVE  /\ now \in Nat /\ finished \subseteq DOMAIN verdicts
         /\ \A n \in DOMAIN verdicts : /\ verdicts[n] \in Verdict /\ verdicts[n].post \in Post
                                       /\ verdicts[n].decidedAt \in Nat
         /\ \A c \in Case : lastActivity[c] = None \/ lastActivity[c] \in Nat
         /\ \A e \in Evaluator, c \in Case :
              /\ evaluating[e].rows[c] \in Row
              /\ \/ evaluating[e].rows[c].lastActivity = None
                 \/ evaluating[e].rows[c].lastActivity \in Nat
         /\ \A e \in Evaluator : evaluating[e].todo \subseteq Case
<1>1. \A n \in DOMAIN verdicts : verdicts[n] \in Verdict
  BY DEF TypeOK
<1>2. \A e \in Evaluator : evaluating[e] \in Evaluation
  BY DEF TypeOK
<1>3. \A e \in Evaluator, c \in Case : evaluating[e].rows[c] \in Row
  BY <1>2 DEF Evaluation
<1>4. \A e \in Evaluator : evaluating[e].todo \subseteq Case
  BY <1>2 DEF Evaluation
<1> QED
  BY <1>1, <1>3, <1>4 DEF TypeOK, Verdict, Row

LEMMA Clock ==
  ASSUME TypeOK, [Next]_vars
  PROVE  now' \in Nat /\ now <= now'
<1>1. CASE Tick
  BY <1>1 DEF Tick, TypeOK
<1>2. CASE UNCHANGED now
  BY <1>2 DEF TypeOK
<1>3. ASSUME NEW a \in Agent, NEW v, InsertVerdict(a, v) PROVE UNCHANGED now
  BY <1>3 DEF InsertVerdict
<1>4. ASSUME NEW e \in Evaluator, EvaluateLifecycles(e) \/ CrashEvaluating(e) PROVE UNCHANGED now
  BY <1>4 DEF EvaluateLifecycles, ListCases, Evaluate, CrashEvaluating
<1> QED
  BY <1>1, <1>2, <1>3, <1>4
  DEF Next, vars, OpenCase, RecordPost, RecordComment, TouchCase, CrashRecording

\* A filed post stays where it was filed (recordPost()).
LEMMA PostsStay ==
  ASSUME TypeOK, [Next]_vars, NEW p \in Post, postCase[p] # None
  PROVE  postCase'[p] = postCase[p]
<1>1. ASSUME NEW q \in Post, NEW c \in Case, RecordPost(q, c) PROVE postCase'[p] = postCase[p]
  BY <1>1 DEF RecordPost, TypeOK
<1>2. ASSUME NEW a \in Agent, NEW v, InsertVerdict(a, v) PROVE UNCHANGED postCase
  BY <1>2 DEF InsertVerdict, collected
<1>3. ASSUME NEW e \in Evaluator, EvaluateLifecycles(e) \/ CrashEvaluating(e)
      PROVE  UNCHANGED postCase
  BY <1>3 DEF EvaluateLifecycles, ListCases, Evaluate, CrashEvaluating, collected
<1> QED
  BY <1>1, <1>2, <1>3
  DEF Next, vars, collected, OpenCase, RecordComment, TouchCase, CrashRecording, Tick

LEMMA VerdictsStay ==
  ASSUME TypeOK, [Next]_vars, NEW n \in DOMAIN verdicts
  PROVE  n \in DOMAIN verdicts' /\ verdicts'[n] = verdicts[n]
<1>1. ASSUME NEW a \in Agent, NEW v \in Verdict, InsertVerdict(a, v)
      PROVE  n \in DOMAIN verdicts' /\ verdicts'[n] = verdicts[n]
  BY <1>1, VerdictsGrow DEF InsertVerdict
<1>2. ASSUME NEW e \in Evaluator, EvaluateLifecycles(e) \/ CrashEvaluating(e)
      PROVE  UNCHANGED verdicts
  BY <1>2 DEF EvaluateLifecycles, ListCases, Evaluate, CrashEvaluating
<1> QED
  BY <1>1, <1>2, InsertedType
  DEF Next, vars, OpenCase, RecordPost, RecordComment, TouchCase, CrashRecording, Tick

\* The only new finding is one whose second statement has just run.
LEMMA FindingsStay ==
  ASSUME TypeOK, Filed, [Next]_vars, NEW c \in Case, NEW n \in PostFindings(c)'
  PROVE  /\ n \in DOMAIN verdicts /\ verdicts'[n] = verdicts[n]
         /\ postCase[verdicts[n].post] = c
         /\ \/ n \in PostFindings(c)
            \/ n \notin finished /\ \E a \in Agent : TouchCase(a) /\ recording[a] = n
<1>1. /\ n \in finished' /\ IsActivity(verdicts'[n]) /\ postCase'[verdicts'[n].post] = c
  BY DEF PostFindings, Findings
<1>2. \/ n \in finished
      \/ n \notin finished /\ \E a \in Agent : TouchCase(a) /\ recording[a] = n
  <2>1. ASSUME NEW a \in Agent, NEW v \in Verdict, InsertVerdict(a, v) PROVE n \in finished
    <3>1. CASE IsActivity(v)
      BY <1>1, <2>1, <3>1 DEF InsertVerdict
    <3>2. CASE ~IsActivity(v)
      <4>1. verdicts' = Append(verdicts, v)
        BY <2>1 DEF InsertVerdict
      <4>2. verdicts'[NewId] = v
        BY <4>1, VerdictsGrow
      <4>3. n # NewId
        BY <1>1, <3>2, <4>2
      <4> QED
        BY <1>1, <2>1, <3>2, <4>3 DEF InsertVerdict
    <3> QED
      BY <3>1, <3>2
  <2>2. ASSUME NEW a \in Agent, TouchCase(a) PROVE n \in finished \/ recording[a] = n
    BY <1>1, <2>2 DEF TouchCase
  <2>3. ASSUME NEW e \in Evaluator, EvaluateLifecycles(e) \/ CrashEvaluating(e)
        PROVE  UNCHANGED finished
    BY <2>3 DEF EvaluateLifecycles, ListCases, Evaluate, CrashEvaluating
  <2> QED
    BY <1>1, <2>1, <2>2, <2>3, InsertedType
    DEF Next, vars, OpenCase, RecordPost, RecordComment, CrashRecording, Tick
<1>3. n \in DOMAIN verdicts
  BY <1>2, Types DEF TouchCase, TypeOK
<1>4. verdicts'[n] = verdicts[n] /\ verdicts[n].post \in Post
  BY <1>3, VerdictsStay, Types
<1>5. postCase[verdicts[n].post] = c
  BY <1>1, <1>3, <1>4, PostsStay DEF Filed
<1> QED
  BY <1>1, <1>2, <1>3, <1>4, <1>5 DEF PostFindings, Findings, IsActivity

LEMMA FiledStep ==
  ASSUME TypeOK, Filed, [Next]_vars
  PROVE  Filed'
<1>1. ASSUME NEW n \in DOMAIN verdicts PROVE postCase'[verdicts'[n].post] # None
  BY <1>1, Types, VerdictsStay, PostsStay DEF Filed
<1>2. ASSUME NEW a \in Agent, NEW v \in Verdict, InsertVerdict(a, v) PROVE Filed'
  <2>1. verdicts' = Append(verdicts, v) /\ postCase[v.post] # None /\ UNCHANGED postCase
    BY <1>2 DEF InsertVerdict, collected
  <2> QED
    BY <1>1, <2>1, VerdictsGrow DEF Filed
<1>3. CASE UNCHANGED verdicts
  BY <1>1, <1>3 DEF Filed
<1>4. ASSUME NEW e \in Evaluator, EvaluateLifecycles(e) \/ CrashEvaluating(e)
      PROVE  UNCHANGED verdicts
  BY <1>4 DEF EvaluateLifecycles, ListCases, Evaluate, CrashEvaluating
<1> QED
  BY <1>2, <1>3, <1>4, InsertedType
  DEF Next, vars, OpenCase, RecordPost, RecordComment, TouchCase, CrashRecording, Tick

-----------------------------------------------------------------------------
(* Activity. *)

\* A last activity is replaced by the present only.
LEMMA ActivityStays ==
  ASSUME TypeOK, [Next]_vars, NEW c \in Case
  PROVE  \/ lastActivity'[c] = lastActivity[c]
         \/ lastActivity'[c] = now /\ UNCHANGED <<now, verdicts, postCase>>
<1>1. ASSUME NEW a \in Agent, TouchCase(a)
      PROVE  \/ lastActivity'[c] = lastActivity[c]
             \/ lastActivity'[c] = now /\ UNCHANGED <<now, verdicts, postCase>>
  BY <1>1 DEF TouchCase, TypeOK, Stamp, collected
<1>2. ASSUME NEW a \in Agent, NEW v, InsertVerdict(a, v) PROVE UNCHANGED lastActivity
  BY <1>2 DEF InsertVerdict, cases
<1>3. ASSUME NEW e \in Evaluator, EvaluateLifecycles(e) \/ CrashEvaluating(e)
      PROVE  UNCHANGED lastActivity
  BY <1>3 DEF EvaluateLifecycles, ListCases, Evaluate, CrashEvaluating, cases
<1> QED
  BY <1>1, <1>2, <1>3
  DEF Next, vars, cases, OpenCase, RecordPost, RecordComment, CrashRecording, Tick

LEMMA DatesStep ==
  ASSUME TypeOK, Dates, [Next]_vars
  PROVE  Dates'
<1>1. \A c \in Case : lastActivity'[c] # None => lastActivity'[c] <= now'
  BY ActivityStays, Clock, Types DEF Dates
<1>2. ASSUME NEW n \in DOMAIN verdicts PROVE verdicts'[n].decidedAt <= now'
  BY VerdictsStay, Clock, Types DEF Dates
<1>3. ASSUME NEW a \in Agent, NEW v \in Verdict, InsertVerdict(a, v) PROVE Dates'
  <2>1. verdicts' = Append(verdicts, v) /\ v.decidedAt = now /\ UNCHANGED now
    BY <1>3 DEF InsertVerdict
  <2> QED
    BY <1>1, <1>2, <2>1, VerdictsGrow, Types DEF Dates
<1>4. CASE UNCHANGED verdicts
  BY <1>1, <1>2, <1>4 DEF Dates
<1>5. ASSUME NEW e \in Evaluator, EvaluateLifecycles(e) \/ CrashEvaluating(e)
      PROVE  UNCHANGED verdicts
  BY <1>5 DEF EvaluateLifecycles, ListCases, Evaluate, CrashEvaluating
<1> QED
  BY <1>3, <1>4, <1>5, InsertedType
  DEF Next, vars, OpenCase, RecordPost, RecordComment, TouchCase, CrashRecording, Tick

LEMMA CoverStep ==
  ASSUME TypeOK, Filed, Dates, ActivityCoversPostFindings, [Next]_vars
  PROVE  ActivityCoversPostFindings'
<1> SUFFICES ASSUME NEW c \in Case, NEW n \in PostFindings(c)'
             PROVE  lastActivity'[c] # None /\ lastActivity'[c] >= verdicts'[n].decidedAt
  BY DEF ActivityCoversPostFindings
<1>1. /\ n \in DOMAIN verdicts /\ verdicts'[n] = verdicts[n]
      /\ postCase[verdicts[n].post] = c
  BY FindingsStay
<1>2. now >= verdicts[n].decidedAt /\ now # None /\ now \in Nat /\ verdicts[n].decidedAt \in Nat
  BY <1>1, NoneAssumption, Types DEF Dates
<1>3. CASE n \in PostFindings(c)
  <2>1. lastActivity[c] # None /\ lastActivity[c] >= verdicts[n].decidedAt
    BY <1>3 DEF ActivityCoversPostFindings
  <2> QED
    BY <1>1, <1>2, <2>1, ActivityStays
<1>4. ASSUME NEW a \in Agent, TouchCase(a), recording[a] = n
      PROVE  lastActivity'[c] # None /\ lastActivity'[c] >= verdicts'[n].decidedAt
  <2>1. lastActivity'[c] = now
    BY <1>1, <1>4 DEF TouchCase, TypeOK, Stamp
  <2> QED
    BY <1>1, <1>2, <2>1
<1> QED
  BY <1>3, <1>4, FindingsStay

-----------------------------------------------------------------------------
(* What an evaluator holds. *)

\* An evaluation reads everything anew, or goes on with what it read.
LEMMA EvaluatingStays ==
  ASSUME TypeOK, [Next]_vars, NEW e \in Evaluator
  PROVE  \/ evaluating'[e] = Resting
         \/ /\ evaluating'[e] = [todo |-> Opened, rows |-> Rows, known |-> finished]
            /\ UNCHANGED <<now, cases, collected, verdicts, finished>>
         \/ /\ evaluating'[e].todo \subseteq evaluating[e].todo
            /\ evaluating'[e].rows = evaluating[e].rows
            /\ evaluating'[e].known = evaluating[e].known
<1> DEFINE Goal == \/ evaluating'[e] = Resting
                   \/ /\ evaluating'[e] = [todo |-> Opened, rows |-> Rows, known |-> finished]
                      /\ UNCHANGED <<now, cases, collected, verdicts, finished>>
                   \/ /\ evaluating'[e].todo \subseteq evaluating[e].todo
                      /\ evaluating'[e].rows = evaluating[e].rows
                      /\ evaluating'[e].known = evaluating[e].known
<1>1. evaluating \in [Evaluator -> Evaluation] /\ evaluating[e] \in Evaluation
  BY DEF TypeOK
<1>2. CASE evaluating'[e] = evaluating[e]
  BY <1>2
<1>3. ASSUME NEW f \in Evaluator, ListCases(f) PROVE Goal
  BY <1>1, <1>2, <1>3 DEF ListCases
<1>4. ASSUME NEW f \in Evaluator, NEW c \in Case, Evaluate(f, c) PROVE Goal
  <2>1. CASE f # e
    BY <1>1, <1>2, <1>4, <2>1 DEF Evaluate
  <2>2. CASE f = e
    <3>1. evaluating'[e] = Without(evaluating[e], c)
      BY <1>1, <1>4, <2>2 DEF Evaluate
    <3>2. CASE evaluating[e].todo = {c}
      BY <3>1, <3>2 DEF Without
    <3>3. CASE evaluating[e].todo # {c}
      BY <1>1, <3>1, <3>3 DEF Without, Evaluation
    <3> QED
      BY <3>2, <3>3
  <2> QED
    BY <2>1, <2>2
<1>5. ASSUME NEW f \in Evaluator, CrashEvaluating(f) PROVE Goal
  BY <1>1, <1>2, <1>5 DEF CrashEvaluating
<1>6. ASSUME NEW a \in Agent, NEW v, InsertVerdict(a, v) PROVE UNCHANGED evaluating
  BY <1>6 DEF InsertVerdict
<1> QED
  BY <1>2, <1>3, <1>4, <1>5, <1>6
  DEF Next, EvaluateLifecycles, vars, OpenCase, RecordPost, RecordComment, TouchCase,
      CrashRecording, Tick

LEMMA ReadStep ==
  ASSUME TypeOK, Filed, Dates, ActivityCoversPostFindings, ReadCovers, [Next]_vars
  PROVE  ReadCovers'
<1> SUFFICES ASSUME NEW e \in Evaluator
             PROVE  /\ evaluating'[e].known \subseteq finished'
                    /\ \A c \in evaluating'[e].todo :
                         /\ evaluating'[e].rows[c].lastActivity # None =>
                              evaluating'[e].rows[c].lastActivity <= now'
                         /\ \A n \in PostFindings(c)' \intersect evaluating'[e].known :
                              /\ evaluating'[e].rows[c].lastActivity # None
                              /\ evaluating'[e].rows[c].lastActivity >= verdicts'[n].decidedAt
  BY DEF ReadCovers
<1>1. CASE evaluating'[e] = Resting
  BY <1>1 DEF Resting
<1>2. CASE /\ evaluating'[e] = [todo |-> Opened, rows |-> Rows, known |-> finished]
           /\ UNCHANGED <<now, cases, collected, verdicts, finished>>
  <2>1. \A c \in Case : PostFindings(c)' = PostFindings(c)
    BY <1>2 DEF PostFindings, Findings, collected
  <2>2. \A c \in Opened : c \in Case /\ Rows[c].lastActivity = lastActivity[c]
    BY DEF Opened, Rows
  <2> QED
    BY <1>2, <2>1, <2>2 DEF ActivityCoversPostFindings, Dates
<1>3. CASE /\ evaluating'[e].todo \subseteq evaluating[e].todo
           /\ evaluating'[e].rows = evaluating[e].rows
           /\ evaluating'[e].known = evaluating[e].known
  <2>1. finished \subseteq finished'
    <3>1. ASSUME NEW a \in Agent, NEW v, InsertVerdict(a, v) PROVE finished \subseteq finished'
      BY <3>1 DEF InsertVerdict
    <3>2. ASSUME NEW f \in Evaluator, EvaluateLifecycles(f) \/ CrashEvaluating(f)
          PROVE  UNCHANGED finished
      BY <3>2 DEF EvaluateLifecycles, ListCases, Evaluate, CrashEvaluating
    <3>3. ASSUME NEW a \in Agent, TouchCase(a) PROVE finished \subseteq finished'
      BY <3>3 DEF TouchCase
    <3> QED
      BY <3>1, <3>2, <3>3
      DEF Next, vars, OpenCase, RecordPost, RecordComment, CrashRecording, Tick
  <2>2. ASSUME NEW c \in evaluating[e].todo
        PROVE  /\ evaluating[e].rows[c].lastActivity # None =>
                    evaluating[e].rows[c].lastActivity <= now'
               /\ \A n \in PostFindings(c)' \intersect evaluating[e].known :
                    /\ evaluating[e].rows[c].lastActivity # None
                    /\ evaluating[e].rows[c].lastActivity >= verdicts'[n].decidedAt
    <3>1. c \in Case
      BY Types
    <3>2. evaluating[e].rows[c].lastActivity # None =>
            evaluating[e].rows[c].lastActivity <= now'
      BY <3>1, Types, Clock DEF ReadCovers
    <3>3. \A n \in PostFindings(c)' \intersect evaluating[e].known :
            n \in PostFindings(c) /\ verdicts'[n] = verdicts[n]
      BY <3>1, FindingsStay DEF ReadCovers
    <3> QED
      BY <3>2, <3>3 DEF ReadCovers
  <2> QED
    BY <1>3, <2>1, <2>2 DEF ReadCovers
<1> QED
  BY <1>1, <1>2, <1>3, EvaluatingStays

-----------------------------------------------------------------------------
(* One evaluator. *)

\* Only the one evaluator moves a case it has read, and it looks at each once.
LEMMA RowsStep ==
  ASSUME \A e, f \in Evaluator : e = f,
         TypeOK, RowsAreCurrent, [Next]_vars
  PROVE  RowsAreCurrent'
<1> SUFFICES ASSUME NEW e \in Evaluator, NEW c \in evaluating'[e].todo
             PROVE  state'[c] # "Unopened" /\ evaluating'[e].rows[c].state = state'[c]
  BY DEF RowsAreCurrent
<1>1. CASE evaluating'[e] = Resting
  BY <1>1 DEF Resting
<1>2. CASE /\ evaluating'[e] = [todo |-> Opened, rows |-> Rows, known |-> finished]
           /\ UNCHANGED <<now, cases, collected, verdicts, finished>>
  BY <1>2 DEF Opened, Rows, cases
<1>3. CASE /\ evaluating'[e].todo \subseteq evaluating[e].todo
           /\ evaluating'[e].rows = evaluating[e].rows
           /\ evaluating'[e].known = evaluating[e].known
  <2>1. c \in Case /\ state[c] # "Unopened" /\ evaluating[e].rows[c].state = state[c]
    BY <1>3, Types DEF RowsAreCurrent
  <2>2. ASSUME NEW d \in Case, OpenCase(d) PROVE state'[c] = state[c]
    BY <2>1, <2>2 DEF OpenCase, TypeOK
  <2>3. ASSUME NEW f \in Evaluator, NEW d \in Case, Evaluate(f, d) PROVE state'[c] = state[c]
    <3>1. f = e
      OBVIOUS
    <3>2. evaluating'[e] = Without(evaluating[e], d) /\ evaluating[e] \in Evaluation
      BY <2>3, <3>1 DEF Evaluate, TypeOK
    <3>3. d # c
      BY <3>2 DEF Without, Resting, Evaluation
    <3> QED
      BY <2>1, <2>3, <3>3 DEF Evaluate, TypeOK
  <2>4. ASSUME NEW f \in Evaluator, ListCases(f) \/ CrashEvaluating(f) PROVE UNCHANGED state
    BY <2>4 DEF ListCases, CrashEvaluating, cases
  <2>5. ASSUME NEW a \in Agent, NEW v, InsertVerdict(a, v) PROVE UNCHANGED state
    BY <2>5 DEF InsertVerdict, cases
  <2>6. state'[c] = state[c]
    BY <2>2, <2>3, <2>4, <2>5
    DEF Next, EvaluateLifecycles, vars, cases, RecordPost, RecordComment, TouchCase,
        CrashRecording, Tick
  <2> QED
    BY <1>3, <2>1, <2>6
<1> QED
  BY <1>1, <1>2, <1>3, EvaluatingStays
-----------------------------------------------------------------------------
(* What moves a case. *)

LEMMA CaseMoves ==
  ASSUME TypeOK, [Next]_vars, NEW c \in Case, state'[c] # state[c]
  PROVE  \/ state[c] = "Unopened" /\ state'[c] = "Active" /\ UNCHANGED evaluating
         \/ \E e \in Evaluator :
              /\ Evaluate(e, c)
              /\ NextState(evaluating[e].rows[c]) # evaluating[e].rows[c].state
              /\ state'[c] = NextState(evaluating[e].rows[c])
<1>1. CASE \E d \in Case : OpenCase(d)
  BY <1>1 DEF OpenCase, TypeOK
<1>2. ASSUME NEW e \in Evaluator, NEW d \in Case, Evaluate(e, d)
      PROVE  /\ Evaluate(e, c)
             /\ NextState(evaluating[e].rows[c]) # evaluating[e].rows[c].state
             /\ state'[c] = NextState(evaluating[e].rows[c])
  <2>1. d = c /\ NextState(evaluating[e].rows[d]) # evaluating[e].rows[d].state
    BY <1>2 DEF Evaluate, TypeOK
  <2> QED
    BY <1>2, <2>1 DEF Evaluate, TypeOK
<1>3. ASSUME NEW e \in Evaluator, ListCases(e) \/ CrashEvaluating(e) PROVE UNCHANGED state
  BY <1>3 DEF ListCases, CrashEvaluating, cases
<1>4. ASSUME NEW a \in Agent, NEW v, InsertVerdict(a, v) PROVE UNCHANGED state
  BY <1>4 DEF InsertVerdict, cases
<1> QED
  BY <1>1, <1>2, <1>3, <1>4
  DEF Next, EvaluateLifecycles, vars, cases, RecordPost, RecordComment, TouchCase,
      CrashRecording, Tick

-----------------------------------------------------------------------------
(* Theorems. *)

LEMMA InitIInv == Init => IInv
<1> SUFFICES ASSUME Init PROVE IInv
  OBVIOUS
<1>1. TypeOK
  BY InitType
<1>2. DOMAIN verdicts = {} /\ finished = {} /\ \A c \in Case : PostFindings(c) = {}
  BY DEF Init, PostFindings, Findings
<1>3. Filed /\ Dates /\ ActivityCoversPostFindings
  BY <1>2 DEF Init, Filed, Dates, ActivityCoversPostFindings
<1>4. ReadCovers
  BY <1>2 DEF Init, ReadCovers, Resting
<1> QED
  BY <1>1, <1>3, <1>4 DEF IInv

LEMMA IInvStep == IInv /\ [Next]_vars => IInv'
BY TypeStep, FiledStep, DatesStep, CoverStep, ReadStep DEF IInv

\* The inductive invariant holds in every reachable state of the store.
THEOREM Inductive == Spec => []IInv
BY InitIInv, IInvStep, PTL DEF Spec

\* Every reachable state is well typed (store.ts).
THEOREM TypeCorrect == Spec => []TypeOK
<1>1. IInv => TypeOK
  BY DEF IInv
<1> QED
  BY <1>1, Inductive, PTL

\* However the two statements of recordVerdict() interleave with those of other
\* processes, and whichever of them die, a case's last activity is no older
\* than any finding about a post in it.  Flagged comments are not covered.
THEOREM ActivityCovers == Spec => []ActivityCoversPostFindings
<1>1. IInv => ActivityCoversPostFindings
  BY DEF IInv
<1> QED
  BY <1>1, Inductive, PTL

\* No evaluation cools a case against a finding about a post that was recorded
\* before it read (evaluateLifecycles()), for any number of evaluators.  It does
\* so against a flagged comment: FindingsKeepOutOfCooling fails.
THEOREM CoolingIsEarned == Spec => NoCoolingAgainstPostFindings
<1>1. ASSUME IInv, [Next]_vars,
             NEW e \in Evaluator, NEW c \in evaluating[e].todo \ evaluating'[e].todo,
             state'[c] = "Cooling", state[c] # "Cooling",
             NEW n \in PostFindings(c) \intersect evaluating[e].known
      PROVE  now - verdicts[n].decidedAt > CoolingAfter
  <2>1. TypeOK /\ c \in Case
    BY <1>1, Types DEF IInv
  <2> DEFINE row == evaluating[e].rows[c]
  <2>2. PICK f \in Evaluator :
          /\ Evaluate(f, c)
          /\ NextState(evaluating[f].rows[c]) # evaluating[f].rows[c].state
          /\ state'[c] = NextState(evaluating[f].rows[c])
    BY <1>1, <2>1, CaseMoves
  <2>3. f = e
    BY <1>1, <2>1, <2>2 DEF Evaluate, TypeOK
  <2>4. row \in Row
    BY <2>1, Types
  <2>5. row.lastActivity # None /\ Silence(row) > CoolingAfter
    BY <1>1, <2>2, <2>3, <2>4, NextStateFalls
  <2>6. row.lastActivity \in Nat /\ row.lastActivity <= now /\ row.lastActivity >= verdicts[n].decidedAt
    BY <1>1, <2>1, <2>5, Types DEF IInv, ReadCovers
  <2>7. now \in Nat /\ verdicts[n].decidedAt \in Nat
    BY <1>1, <2>1, Types DEF PostFindings, Findings
  <2> QED
    BY <2>5, <2>6, <2>7, LifecycleAssumption DEF Silence
<1>2. IInv /\ [Next]_vars =>
        [\A e \in Evaluator : \A c \in evaluating[e].todo \ evaluating'[e].todo :
           state'[c] = "Cooling" /\ state[c] # "Cooling"
             => \A n \in PostFindings(c) \intersect evaluating[e].known :
                  now - verdicts[n].decidedAt > CoolingAfter]_vars
  BY <1>1
<1> QED
  BY <1>2, Inductive, PTL DEF Spec, NoCoolingAgainstPostFindings

\* With one evaluator at a time, a case only moves downward and one state at a
\* time (evaluateLifecycles(): "Only ever downward").
THEOREM Downward ==
  ASSUME \A e, f \in Evaluator : e = f
  PROVE  Spec => OneStepDownward
<1>1. Init => RowsAreCurrent
  BY DEF Init, RowsAreCurrent, Resting
<1>2. IInv /\ RowsAreCurrent /\ [Next]_vars => RowsAreCurrent'
  BY RowsStep DEF IInv
<1>3. Spec => []RowsAreCurrent
  BY <1>1, <1>2, Inductive, PTL DEF Spec
<1>4. ASSUME IInv, RowsAreCurrent, [Next]_vars, NEW c \in Case, state'[c] # state[c]
      PROVE  Rank(state'[c]) = Rank(state[c]) - 1
  <2>1. TypeOK
    BY <1>4 DEF IInv
  <2>2. CASE state[c] = "Unopened" /\ state'[c] = "Active"
    BY <2>2 DEF Rank
  <2>3. ASSUME NEW e \in Evaluator, Evaluate(e, c),
               NextState(evaluating[e].rows[c]) # evaluating[e].rows[c].state,
               state'[c] = NextState(evaluating[e].rows[c])
        PROVE  Rank(state'[c]) = Rank(state[c]) - 1
    <3>1. evaluating[e].rows[c] \in Row /\ evaluating[e].rows[c].state = state[c]
      BY <1>4, <2>1, <2>3, Types DEF RowsAreCurrent, Evaluate
    <3> QED
      BY <2>3, <3>1, NextStateFalls DEF Rank
  <2> QED
    BY <1>4, <2>1, <2>2, <2>3, CaseMoves
<1>5. IInv /\ RowsAreCurrent /\ [Next]_vars =>
        [\A c \in Case : state'[c] # state[c] => Rank(state'[c]) = Rank(state[c]) - 1]_vars
  BY <1>4
<1> QED
  BY <1>3, <1>5, Inductive, PTL DEF Spec, OneStepDownward
=============================================================================
