------------------------------ MODULE Evidence ------------------------------
(***************************************************************************)
(* The evidence store (store.ts): cases and their lifecycle, the posts and *)
(* comments collected for them, and the verdicts on them.                  *)
(*                                                                         *)
(* Several processes share the SQLite file.  Each statement commits by     *)
(* itself, so a method of two statements can be interrupted between them,  *)
(* and a loop over rows read before works on values that may be old.       *)
(***************************************************************************)
EXTENDS Naturals, FiniteSets, Sequences

CONSTANTS
  Case, Post,
  None,
  Agent,          \* processes that record findings
  Evaluator,      \* processes that run evaluateLifecycles()
  CoolingAfter,   \* ticks of silence before Cooling (48 h)
  DormantAfter,   \* ticks of silence before Dormant (14 days)
  MaxTime,        \* bound: the last tick
  MaxVerdicts,    \* bound: verdicts recorded
  MaxCrashes      \* bound: processes that die half-way

ASSUME NoneAssumption == None \notin Case /\ None \notin Nat
ASSUME LifecycleAssumption ==
  CoolingAfter \in Nat /\ DormantAfter \in Nat /\ CoolingAfter < DormantAfter
ASSUME BoundAssumption == MaxTime \in Nat /\ MaxVerdicts \in Nat /\ MaxCrashes \in Nat

VARIABLES
  now,
  state, lastActivity,   \* table cases
  postCase,              \* table posts: the case each is filed under
  hasComment,            \* table comments: posts with a comment collected
  verdicts,              \* table verdicts, oldest first
  recording,             \* the verdict each agent still has to follow up, or 0
  finished,              \* history: verdicts whose recordVerdict() returned
  evaluating,            \* what each evaluator read and has yet to look at, and
                         \* (history) the verdicts finished when it read
  crashes

collected == <<postCase, hasComment>>
cases == <<state, lastActivity>>
vars == <<now, cases, collected, verdicts, recording, finished, evaluating, crashes>>

State == {"Unopened", "Active", "Cooling", "Dormant"}
About == {"post", "comment"}
Verdict == [post : Post, about : About, flagged : BOOLEAN, decidedAt : Nat]
Row == [state : State, lastActivity : Nat \union {None}]
Evaluation == [todo : SUBSET Case, rows : [Case -> Row], known : SUBSET Nat]

TypeOK ==
  /\ now \in Nat
  /\ state \in [Case -> State]
  /\ lastActivity \in [Case -> Nat \union {None}]
  /\ postCase \in [Post -> Case \union {None}]
  /\ hasComment \subseteq Post
  /\ verdicts \in Seq(Verdict)
  /\ recording \in [Agent -> 0 .. Len(verdicts)]
  /\ finished \subseteq DOMAIN verdicts
  /\ evaluating \in [Evaluator -> Evaluation]
  /\ crashes \in Nat

Rows == [c \in Case |-> [state |-> state[c], lastActivity |-> lastActivity[c]]]
Opened == {c \in Case : state[c] # "Unopened"}
Resting == [todo |-> {}, known |-> {},
            rows |-> [c \in Case |-> [state |-> "Unopened", lastActivity |-> None]]]

Init ==
  /\ now = 0
  /\ state = [c \in Case |-> "Unopened"]
  /\ lastActivity = [c \in Case |-> None]
  /\ postCase = [p \in Post |-> None]
  /\ hasComment = {}
  /\ verdicts = <<>>
  /\ recording = [a \in Agent |-> 0]
  /\ finished = {}
  /\ evaluating = [e \in Evaluator |-> Resting]
  /\ crashes = 0

-----------------------------------------------------------------------------
(* Collecting. *)

OpenCase(c) ==
  /\ state[c] = "Unopened"
  /\ state' = [state EXCEPT ![c] = "Active"]
  /\ UNCHANGED <<now, lastActivity, collected, verdicts, recording, finished,
                 evaluating, crashes>>

\* A post met again, for whichever case, stays filed where it was.
RecordPost(p, c) ==
  /\ c \in Opened
  /\ postCase' = [postCase EXCEPT ![p] = IF @ = None THEN c ELSE @]
  /\ UNCHANGED <<now, cases, hasComment, verdicts, recording, finished, evaluating, crashes>>

RecordComment(p) ==
  /\ postCase[p] # None
  /\ hasComment' = hasComment \union {p}
  /\ UNCHANGED <<now, cases, postCase, verdicts, recording, finished, evaluating, crashes>>

-----------------------------------------------------------------------------
(* recordVerdict(): the row, then the case's last activity. *)

\* What the UPDATE is guarded by: only a flagged verdict about the post itself
\* counts as activity, one about a comment under it does not.
IsActivity(v) == v.flagged /\ v.about = "post"

\* Faulty variant: the id of the row before.
NewIdStale == Len(verdicts)
NewId == Len(verdicts) + 1

InsertVerdict(a, v) ==
  LET n == NewId IN
  /\ recording[a] = 0
  /\ Len(verdicts) < MaxVerdicts
  /\ postCase[v.post] # None
  /\ v.about = "comment" => v.post \in hasComment
  /\ v.decidedAt = now
  /\ verdicts' = Append(verdicts, v)
  /\ IF IsActivity(v)
     THEN recording' = [recording EXCEPT ![a] = n] /\ UNCHANGED finished
     ELSE finished' = finished \union {n} /\ UNCHANGED recording
  /\ UNCHANGED <<now, cases, collected, evaluating, crashes>>

\* Faulty variants: the time of the verdict; only the first finding counts.
StampDecision(v, c) == v.decidedAt
StampOnce(v, c) == IF lastActivity[c] = None THEN now ELSE lastActivity[c]

\* What a finding writes into last_activity_at: the time of the second statement.
Stamp(v, c) == now

TouchCase(a) ==
  LET n == recording[a]
      c == postCase[verdicts[n].post]
  IN
  /\ n # 0
  /\ lastActivity' = [lastActivity EXCEPT ![c] = Stamp(verdicts[n], c)]
  /\ recording' = [recording EXCEPT ![a] = 0]
  /\ finished' = finished \union {n}
  /\ UNCHANGED <<now, state, collected, verdicts, evaluating, crashes>>

\* The process dies between the two statements.
CrashRecording(a) ==
  /\ crashes < MaxCrashes
  /\ recording[a] # 0
  /\ crashes' = crashes + 1
  /\ recording' = [recording EXCEPT ![a] = 0]
  /\ UNCHANGED <<now, cases, collected, verdicts, finished, evaluating>>

-----------------------------------------------------------------------------
(* evaluateLifecycles(): listCases(), then one UPDATE for each case that moves. *)

ListCases(e) ==
  /\ evaluating[e].todo = {}
  /\ Opened # {}
  /\ evaluating' = [evaluating EXCEPT ![e] = [todo |-> Opened, rows |-> Rows, known |-> finished]]
  /\ UNCHANGED <<now, cases, collected, verdicts, recording, finished, crashes>>

Silence(row) == now - row.lastActivity

\* Faulty variants: a busy case is woken; the second step is missing.
NextStateWaking(row) ==
  IF row.lastActivity = None THEN row.state
  ELSE IF Silence(row) <= CoolingAfter THEN "Active"
  ELSE IF row.state = "Active" THEN "Cooling"
  ELSE IF Silence(row) > DormantAfter THEN "Dormant" ELSE row.state
NextStateNeverDormant(row) ==
  IF row.lastActivity # None /\ row.state = "Active" /\ Silence(row) > CoolingAfter
  THEN "Cooling" ELSE row.state

\* One step down, never up; a case without any finding stays where it is.
NextState(row) ==
  IF row.lastActivity = None THEN row.state
  ELSE IF row.state = "Active" /\ Silence(row) > CoolingAfter THEN "Cooling"
  ELSE IF row.state = "Cooling" /\ Silence(row) > DormantAfter THEN "Dormant"
  ELSE row.state

\* What is left to look at; the rows are forgotten with the last one.
Without(evaluation, c) ==
  IF evaluation.todo = {c} THEN Resting ELSE [evaluation EXCEPT !.todo = @ \ {c}]

Evaluate(e, c) ==
  LET row == evaluating[e].rows[c] IN
  /\ c \in evaluating[e].todo
  /\ state' = IF NextState(row) = row.state
              THEN state
              ELSE [state EXCEPT ![c] = NextState(row)]
  /\ evaluating' = [evaluating EXCEPT ![e] = Without(@, c)]
  /\ UNCHANGED <<now, lastActivity, collected, verdicts, recording, finished, crashes>>

CrashEvaluating(e) ==
  /\ crashes < MaxCrashes
  /\ evaluating[e].todo # {}
  /\ crashes' = crashes + 1
  /\ evaluating' = [evaluating EXCEPT ![e] = Resting]
  /\ UNCHANGED <<now, cases, collected, verdicts, recording, finished>>

Tick ==
  /\ now < MaxTime
  /\ now' = now + 1
  /\ UNCHANGED <<cases, collected, verdicts, recording, finished, evaluating, crashes>>

EvaluateLifecycles(e) == ListCases(e) \/ \E c \in Case : Evaluate(e, c)

Next ==
  \/ \E c \in Case : OpenCase(c) \/ \E p \in Post : RecordPost(p, c)
  \/ \E p \in Post : RecordComment(p)
  \/ \E a \in Agent :
       \/ \E p \in Post, about \in About, flagged \in BOOLEAN :
            InsertVerdict(a, [post |-> p, about |-> about, flagged |-> flagged,
                              decidedAt |-> now])
       \/ TouchCase(a)
       \/ CrashRecording(a)
  \/ \E e \in Evaluator : EvaluateLifecycles(e) \/ CrashEvaluating(e)
  \/ Tick

\* Time passes, evaluateLifecycles() is called again and again, and a method
\* that was entered runs to its end unless its process dies.
Fairness ==
  /\ WF_vars(Tick)
  /\ \A a \in Agent : WF_vars(TouchCase(a))
  /\ \A e \in Evaluator : WF_vars(EvaluateLifecycles(e))

Spec == Init /\ [][Next]_vars
FairSpec == Spec /\ Fairness

-----------------------------------------------------------------------------
(* Properties. *)

\* The flagged verdicts in a case that recordVerdict() finished with, about posts
\* and about comments; those about posts are the ones the code counts.
Findings(c) ==
  {n \in finished : verdicts[n].flagged /\ postCase[verdicts[n].post] = c}
PostFindings(c) == {n \in Findings(c) : IsActivity(verdicts[n])}

\* However the recordings of several processes interleave, a case's last
\* activity is no older than any finding about a post in it.  Flagged comments
\* are left out here, as recordVerdict() leaves them out: see FindingsKeepOutOfCooling.
ActivityCoversPostFindings ==
  \A c \in Case : \A n \in PostFindings(c) :
    lastActivity[c] # None /\ lastActivity[c] >= verdicts[n].decidedAt

Rank(s) == CASE s = "Unopened" -> 3 [] s = "Active" -> 2 [] s = "Cooling" -> 1 [] OTHER -> 0

\* "Only ever downward", and through Cooling, never straight to Dormant.
OneStepDownward ==
  [][\A c \in Case : state'[c] # state[c] => Rank(state'[c]) = Rank(state[c]) - 1]_vars

\* However many evaluators run, one that cools a case has seen no finding about a
\* post, recorded before it read, that is younger than the limit, although it
\* decides on a copy of the row.  A flagged comment does not hold it back.
NoCoolingAgainstPostFindings ==
  [][\A e \in Evaluator : \A c \in evaluating[e].todo \ evaluating'[e].todo :
       state'[c] = "Cooling" /\ state[c] # "Cooling"
         => \A n \in PostFindings(c) \intersect evaluating[e].known :
              now - verdicts[n].decidedAt > CoolingAfter]_vars

\* "A finding is activity: it keeps the case out of Cooling" (store.ts): the same
\* of every finding, flagged comments included.
FindingsKeepOutOfCooling ==
  [][\A e \in Evaluator : \A c \in evaluating[e].todo \ evaluating'[e].todo :
       state'[c] = "Cooling" /\ state[c] # "Cooling"
         => \A n \in Findings(c) \intersect evaluating[e].known :
              now - verdicts[n].decidedAt > CoolingAfter]_vars

\* A case whose activity stopped goes Dormant in the end, whatever state it was
\* in and whichever evaluation died half-way.
QuietCaseGoesDormant ==
  \A c \in Case :
    (lastActivity[c] # None /\ now = MaxTime /\ lastActivity[c] + DormantAfter < now)
      ~> (state[c] = "Dormant" \/ lastActivity[c] = now)
=============================================================================
