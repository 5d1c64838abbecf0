---------------------------- MODULE LanesProofs ----------------------------
(***************************************************************************)
(* Proofs about Lanes, for any finite set of tasks, any sessions and any   *)
(* widths: type correctness, the limits, the order of starts, the last     *)
(* slot, slots and their owners, and that no capacity is left idle.        *)
(***************************************************************************)
EXTENDS Lanes, FiniteSetTheorems, TLAPS

\* Of two tasks, one at most came before the other.
Arrival == \A t, u \in Task : t \in older[u] => u \notin older[t]

\* Without a group no hook has a slot.
HooksInGroup == group = "none" => active[Hook] = {}

\* Of any tasks that hold slots of a lane, one was started when the lane was wide
\* enough for all of them.  LimitsHold only says so of all of them together, which
\* the end of that one task would undo.
Granted ==
  \A l \in Lane : \A S \in SUBSET active[l] :
    S # {} => \E t \in S : Cardinality(S) <= granted[t]

\* The limits of the lanes whose width does not change, and of the group.
WithinWidths ==
  /\ \A l \in Lane \ {Hook, "main"} : Running(l) <= Width(l)
  /\ GroupRunning <= CRON

\* A task that could start will be met by a drain that is under way.
Pending == \A t \in Queued : Admits(LaneOf(t)) => \E l \in pump : LaneOf(t) \in DrainedWith(l)

IInv == TypeOK /\ Arrival /\ SlotsAreLive /\ HooksInGroup /\ Granted /\ WithinWidths /\ Pending

-----------------------------------------------------------------------------
(* Lanes and slots. *)

LEMMA LaneOfType == \A t \in Task : LaneOf(t) \in Lane
BY TaskAssumption DEF LaneOf, InnerLane, Lane, Gateway, Nested

LEMMA GatewayLanes == Nested \in Lane /\ Hook \in Lane /\ Nested # Hook
BY DEF Nested, Hook, Lane, Gateway

\* The slots of a lane can be counted.
LEMMA SlotsFinite ==
  ASSUME TypeOK, NEW l \in Lane
  PROVE  IsFiniteSet(active[l]) /\ Running(l) \in Nat
<1>1. active[l] \in SUBSET Task
  BY DEF TypeOK
<1>2. IsFiniteSet(active[l])
  BY <1>1, TaskAssumption, FS_Subset
<1> QED
  BY <1>2, FS_CardinalityType DEF Running

\* A lane whose slots are untouched or fewer runs no more than before.
LEMMA FewerRun ==
  ASSUME TypeOK, NEW l \in Lane, active'[l] \subseteq active[l]
  PROVE  Running(l)' \in Nat /\ Running(l)' <= Running(l)
<1>1. IsFiniteSet(active[l])
  BY SlotsFinite
<1>2. IsFiniteSet(active'[l]) /\ Cardinality(active'[l]) <= Cardinality(active[l])
  BY <1>1, FS_Subset
<1> QED
  BY <1>2, FS_CardinalityType DEF Running

LEMMA WidthType ==
  ASSUME TypeOK
  PROVE  \A l \in Lane : Width(l) \in Nat
<1>1. main \in Nat
  BY WidthAssumption DEF TypeOK
<1> QED
  BY <1>1, WidthAssumption DEF Width

\* What a start does to the slots: one more in the task's lane.
LEMMA OneMoreRuns ==
  ASSUME TypeOK, SlotsAreLive, NEW l \in Lane, NEW t \in Task, Start(l, t)
  PROVE  /\ Running(LaneOf(t))' = Running(LaneOf(t)) + 1
         /\ \A k \in Lane \ {LaneOf(t)} : Running(k)' = Running(k)
<1> DEFINE m == LaneOf(t)
<1>1. m \in Lane
  BY LaneOfType
<1>2. active'[m] = active[m] \union {t} /\ \A k \in Lane \ {m} : active'[k] = active[k]
  BY <1>1 DEF Start, TypeOK
<1>3. t \notin active[m]
  BY <1>1 DEF Start, Candidates, Queued, SlotsAreLive
<1>4. IsFiniteSet(active[m])
  BY <1>1, SlotsFinite
<1>5. Cardinality(active[m] \union {t}) = Cardinality(active[m]) + 1
  BY <1>3, <1>4, FS_AddElement
<1> QED
  BY <1>2, <1>5 DEF Running

-----------------------------------------------------------------------------

LEMMA InitIInv == Init => IInv
<1> SUFFICES ASSUME Init PROVE IInv
  OBVIOUS
<1>1. TypeOK
  BY DEF Init, TypeOK, Phase, Queued
<1>2. Arrival /\ SlotsAreLive /\ HooksInGroup
  BY GatewayLanes DEF Init, Arrival, SlotsAreLive, HooksInGroup
<1>3. \A l \in Lane : Running(l) = 0
  BY FS_EmptySet DEF Init, Running
<1>4. WithinWidths /\ Granted
  BY <1>3, GatewayLanes, WidthAssumption
  DEF WithinWidths, GroupRunning, Width, Nested, Granted, Init
<1>5. Pending
  BY DEF Init, Pending, Queued
<1> QED
  BY <1>1, <1>2, <1>4, <1>5 DEF IInv

LEMMA TypeStep ==
  ASSUME TypeOK, [Next]_vars
  PROVE  TypeOK'
<1> USE DEF TypeOK, Queued
<1>1. ASSUME NEW l \in Lane, NEW t \in Task, Start(l, t) PROVE TypeOK'
  <2>1. LaneOf(t) \in Lane
    BY LaneOfType
  <2>2. /\ phase' = [phase EXCEPT ![t] = "running"]
        /\ older' = [u \in Task |-> IF u \in {t} THEN {} ELSE older[u] \ {t}]
        /\ active' = [active EXCEPT ![LaneOf(t)] = @ \union {t}]
        /\ granted' = [granted EXCEPT ![t] = Width(LaneOf(t))]
        /\ UNCHANGED <<group, main, closed, pump>>
    BY <1>1 DEF Start, Leave
  <2>3. older' \in [Task -> SUBSET Queued']
    BY <2>2
  <2>4. granted' \in [Task -> Nat]
    BY <2>1, <2>2, WidthType
  <2> QED
    BY <2>1, <2>2, <2>3, <2>4 DEF Phase
<1>2. ASSUME NEW l \in Lane, Drained(l) PROVE TypeOK'
  BY <1>2 DEF Drained
<1>3. ASSUME NEW t \in Task, Enqueue(t) PROVE TypeOK'
  <2>1. /\ phase' = [phase EXCEPT ![t] = "queued"]
        /\ older' = [older EXCEPT ![t] = Queued]
        /\ pump' = {LaneOf(t)}
        /\ UNCHANGED <<active, group, main, closed, granted>>
    BY <1>3 DEF Enqueue
  <2>2. Queued \subseteq Queued'
    BY <2>1
  <2>3. older' \in [Task -> SUBSET Queued']
    BY <2>1, <2>2
  <2> QED
    BY <2>1, <2>3, LaneOfType DEF Phase
<1>4. ASSUME NEW t \in Task, Refuse(t) PROVE TypeOK'
  <2>1. Queued' = Queued
    BY <1>4 DEF Refuse, Submitted
  <2> QED
    BY <1>4, <2>1 DEF Refuse, Phase
<1>5. ASSUME NEW t \in Task, Finish(t) \/ Timeout(t) \/ EndLate(t) PROVE TypeOK'
  <2>1. Queued' = Queued
    BY <1>5 DEF Finish, Timeout, EndLate
  <2> QED
    BY <1>5, <2>1, LaneOfType DEF Finish, Timeout, EndLate, Release, Phase
<1>6. ASSUME NEW l \in Session, Clear(l) PROVE TypeOK'
  <2> DEFINE T == {t \in Queued : LaneOf(t) = l}
  <2>1. /\ phase' = [t \in Task |-> IF t \in T THEN "dropped" ELSE phase[t]]
        /\ older' = [u \in Task |-> IF u \in T THEN {} ELSE older[u] \ T]
        /\ UNCHANGED <<active, group, main, closed, pump, granted>>
    BY <1>6 DEF Clear, Leave
  <2>2. Queued \ T \subseteq Queued'
    BY <2>1
  <2> QED
    BY <2>1, <2>2 DEF Phase
<1>7. ASSUME NEW l \in Stuck, Reset(l) PROVE TypeOK'
  BY <1>7, SessionAssumption DEF Reset, Lane
<1>8. CASE MarkDraining
  BY <1>8 DEF MarkDraining
<1>9. CASE ResetAll
  BY <1>9, LaneOfType DEF ResetAll, Waited
<1>10. ASSUME NEW hooks \in BOOLEAN, NEW width \in MainWidth, Configure(hooks, width) PROVE TypeOK'
  BY <1>10, LaneOfType DEF Configure, Waited
<1>11. CASE UNCHANGED vars
  BY <1>11 DEF vars
<1> QED
  BY <1>1, <1>2, <1>3, <1>4, <1>5, <1>6, <1>7, <1>8, <1>9, <1>10, <1>11 DEF Next, Drain

LEMMA ArrivalStep ==
  ASSUME TypeOK, Arrival, [Next]_vars
  PROVE  Arrival'
<1> USE DEF TypeOK, Arrival
<1>1. ASSUME NEW T \in SUBSET Task, Leave(T) PROVE Arrival'
  BY <1>1 DEF Leave
<1>2. ASSUME NEW l \in Lane, NEW t \in Task, Start(l, t) PROVE Arrival'
  BY <1>1, <1>2 DEF Start
<1>3. ASSUME NEW t \in Task, Enqueue(t) PROVE Arrival'
  BY <1>3 DEF Enqueue, Submitted, Queued
<1>4. ASSUME NEW l \in Session, Clear(l) PROVE Arrival'
  <2>1. {t \in Queued : LaneOf(t) = l} \in SUBSET Task
    BY DEF Queued
  <2> QED
    BY <1>1, <1>4, <2>1 DEF Clear
<1>5. CASE UNCHANGED older
  BY <1>5
<1> QED
  BY <1>2, <1>3, <1>4, <1>5
  DEF Next, Drain, Drained, Refuse, Finish, Timeout, EndLate, Reset, MarkDraining,
      ResetAll, Configure, vars

LEMMA SlotsStep ==
  ASSUME TypeOK, SlotsAreLive, [Next]_vars
  PROVE  SlotsAreLive'
<1> USE DEF TypeOK, SlotsAreLive
<1>1. ASSUME NEW l \in Lane, NEW t \in Task, Start(l, t) PROVE SlotsAreLive'
  <2>1. phase[t] = "queued"
    BY <1>1 DEF Start, Candidates, Queued
  <2> QED
    BY <1>1, <2>1, LaneOfType DEF Start
<1>2. ASSUME NEW t \in Task, Enqueue(t) \/ Refuse(t) PROVE SlotsAreLive'
  BY <1>2 DEF Enqueue, Refuse, Submitted
<1>3. ASSUME NEW t \in Task, Finish(t) \/ Timeout(t) PROVE SlotsAreLive'
  <2>1. active' = [active EXCEPT ![LaneOf(t)] = @ \ {t}]
    BY <1>3 DEF Finish, Timeout, Release
  <2>2. \A u \in Task \ {t} : phase'[u] = phase[u]
    BY <1>3 DEF Finish, Timeout
  <2> QED
    BY <2>1, <2>2, LaneOfType
<1>4. ASSUME NEW t \in Task, EndLate(t) PROVE SlotsAreLive'
  BY <1>4 DEF EndLate
<1>5. ASSUME NEW l \in Session, Clear(l) PROVE SlotsAreLive'
  BY <1>5 DEF Clear, Queued
<1>6. ASSUME NEW l \in Stuck, Reset(l) PROVE SlotsAreLive'
  BY <1>6 DEF Reset
<1>7. CASE ResetAll
  BY <1>7 DEF ResetAll
<1>8. CASE UNCHANGED <<phase, active>>
  BY <1>8
<1> QED
  BY <1>1, <1>2, <1>3, <1>4, <1>5, <1>6, <1>7, <1>8
  DEF Next, Drain, Drained, MarkDraining, Configure, vars

-----------------------------------------------------------------------------
(* The limits. *)

\* Slots that are freed keep the limits, as long as the group stays.
LEMMA FreeingKeepsLimits ==
  ASSUME TypeOK, HooksInGroup, WithinWidths, group' = group, main' = main,
         \A l \in Lane : active'[l] \subseteq active[l]
  PROVE  HooksInGroup' /\ WithinWidths'
<1>1. \A l \in Lane : Running(l) \in Nat /\ Running(l)' \in Nat /\ Running(l)' <= Running(l)
  BY SlotsFinite, FewerRun
<1>2. HooksInGroup'
  BY GatewayLanes DEF HooksInGroup
<1>3. \A l \in Lane \ {Hook, "main"} : Width(l)' = Width(l) /\ Width(l) \in Nat
  BY WidthAssumption DEF Width
<1>4. WithinWidths'
  BY <1>1, <1>3, GatewayLanes, WidthAssumption DEF WithinWidths, GroupRunning
<1> QED
  BY <1>2, <1>4

LEMMA StartKeepsLimits ==
  ASSUME TypeOK, SlotsAreLive, HooksInGroup, WithinWidths,
         NEW l \in Lane, NEW t \in Task, Start(l, t)
  PROVE  HooksInGroup' /\ WithinWidths'
<1> DEFINE m == LaneOf(t)
<1>1. m \in Lane /\ Admits(m) /\ group' = group
  BY LaneOfType DEF Start, Candidates
<1>2. Running(m)' = Running(m) + 1 /\ \A k \in Lane \ {m} : Running(k)' = Running(k)
  BY OneMoreRuns
<1>3. \A k \in Lane : Running(k) \in Nat
  BY SlotsFinite
<1>4. \A k \in Lane \ {Hook, "main"} : Width(k)' = Width(k) /\ Width(k) \in Nat
  BY <1>1, WidthAssumption DEF Width
<1>5. HooksInGroup'
  <2> SUFFICES ASSUME group = "none" PROVE active'[Hook] = {}
    BY <1>1 DEF HooksInGroup
  <2>1. Width(Hook) = 0
    BY DEF Width, Hook, Nested
  <2>2. m # Hook
    BY <1>1, <1>3, <2>1, GatewayLanes DEF Admits
  <2> QED
    BY <1>1, <2>2, GatewayLanes DEF Start, TypeOK, HooksInGroup
<1>6. \A k \in Lane \ {Hook, "main"} : Running(k)' <= Width(k)'
  BY <1>1, <1>2, <1>3, <1>4 DEF Admits, WithinWidths
<1>7. GroupRunning' <= CRON
  <2>1. CASE m \in Grouped
    <3>1. GroupRunning < CRON
      BY <1>1, <2>1 DEF Admits, WithinGroup
    <3> QED
      BY <1>2, <1>3, <3>1, GatewayLanes, WidthAssumption DEF GroupRunning
  <2>2. CASE m \notin Grouped /\ group = "none"
    <3>1. active'[Hook] = {}
      BY <1>1, <1>5, <2>2 DEF HooksInGroup
    <3>2. Running(Hook)' = 0
      BY <3>1, FS_EmptySet DEF Running
    <3>3. Running(Nested)' <= CRON
      BY <1>6, GatewayLanes DEF Width, Nested
    <3> QED
      BY <1>2, <1>3, <3>2, <3>3, GatewayLanes, WidthAssumption DEF GroupRunning
  <2>3. CASE m \notin Grouped /\ group # "none"
    <3>1. m \notin {Nested, Hook}
      BY <2>3 DEF Grouped
    <3> QED
      BY <1>2, <3>1, GatewayLanes DEF GroupRunning, WithinWidths
  <2> QED
    BY <2>1, <2>2, <2>3
<1> QED
  BY <1>5, <1>6, <1>7 DEF WithinWidths

LEMMA LimitsStep ==
  ASSUME TypeOK, SlotsAreLive, HooksInGroup, WithinWidths, [Next]_vars
  PROVE  HooksInGroup' /\ WithinWidths'
<1>1. ASSUME NEW l \in Lane, NEW t \in Task, Start(l, t) PROVE HooksInGroup' /\ WithinWidths'
  BY <1>1, StartKeepsLimits
<1>2. ASSUME NEW hooks \in BOOLEAN, NEW width \in MainWidth, Configure(hooks, width) PROVE HooksInGroup' /\ WithinWidths'
  <2>1. active' = active /\ (group' = "none" => active[Hook] = {})
    BY <1>2 DEF Configure
  <2>2. \A l \in Lane \ {Hook, "main"} : Width(l)' = Width(l)
    BY DEF Width
  <2> QED
    BY <2>1, <2>2 DEF HooksInGroup, WithinWidths, GroupRunning, Running
<1>3. CASE group' = group /\ main' = main /\ \A l \in Lane : active'[l] \subseteq active[l]
  BY <1>3, FreeingKeepsLimits
<1>4. ASSUME NEW t \in Task, Finish(t) \/ Timeout(t)
      PROVE  group' = group /\ main' = main /\ \A l \in Lane : active'[l] \subseteq active[l]
  BY <1>4 DEF Finish, Timeout, Release, TypeOK
<1>5. ASSUME NEW l \in Stuck, Reset(l)
      PROVE  group' = group /\ main' = main /\ \A k \in Lane : active'[k] \subseteq active[k]
  BY <1>5 DEF Reset, TypeOK
<1>6. CASE ResetAll
  BY <1>3, <1>6 DEF ResetAll
<1>7. CASE UNCHANGED <<group, main, active>>
  BY <1>3, <1>7
<1> QED
  BY <1>1, <1>2, <1>3, <1>4, <1>5, <1>6, <1>7
  DEF Next, Drain, Drained, Enqueue, Refuse, EndLate, Clear, MarkDraining, vars

\* Tasks start under the width in force, and a set of slots that was covered
\* stays so when others are freed.
LEMMA GrantedStep ==
  ASSUME TypeOK, SlotsAreLive, Granted, [Next]_vars
  PROVE  Granted'
<1>1. ASSUME NEW l \in Lane, NEW t \in Task, Start(l, t) PROVE Granted'
  <2> DEFINE m == LaneOf(t)
  <2>1. m \in Lane /\ Admits(m)
    BY <1>1, LaneOfType DEF Start, Candidates
  <2>2. /\ active'[m] = active[m] \union {t}
        /\ \A k \in Lane \ {m} : active'[k] = active[k]
        /\ granted'[t] = Width(m)
        /\ \A u \in Task \ {t} : granted'[u] = granted[u]
    BY <1>1, <2>1 DEF Start, TypeOK
  <2>3. \A k \in Lane : t \notin active[k]
    BY <1>1 DEF Start, Candidates, Queued, SlotsAreLive
  <2> SUFFICES ASSUME NEW k \in Lane, NEW S \in SUBSET active'[k], S # {}
               PROVE  \E u \in S : Cardinality(S) <= granted'[u]
    BY DEF Granted
  <2>4. CASE t \notin S
    <3>1. S \in SUBSET active[k] /\ S \subseteq Task
      BY <2>2, <2>4 DEF TypeOK
    <3>2. PICK u \in S : Cardinality(S) <= granted[u]
      BY <3>1 DEF Granted
    <3> QED
      BY <2>2, <2>4, <3>1, <3>2
  <2>5. CASE t \in S
    <3>1. k = m
      BY <2>2, <2>3, <2>5
    <3>2. IsFiniteSet(active'[m]) /\ Cardinality(active'[m]) = Running(m) + 1
      <4>1. IsFiniteSet(active[m])
        BY <2>1, SlotsFinite
      <4>2. IsFiniteSet(active[m] \union {t})
        BY <4>1, FS_AddElement
      <4>3. Cardinality(active'[m]) = Running(m) + 1
        BY <1>1, OneMoreRuns DEF Running
      <4> QED
        BY <2>2, <4>2, <4>3
    <3>3. Cardinality(S) \in Nat /\ Cardinality(S) <= Running(m) + 1
      BY <3>1, <3>2, FS_Subset, FS_CardinalityType
    <3>4. Running(m) < Width(m) /\ Running(m) \in Nat /\ Width(m) \in Nat
      BY <2>1, SlotsFinite, WidthType DEF Admits
    <3>5. Cardinality(S) <= Width(m)
      BY <3>3, <3>4
    <3> QED
      BY <2>2, <2>5, <3>5
  <2> QED
    BY <2>4, <2>5
<1>2. CASE granted' = granted /\ \A l \in Lane : active'[l] \subseteq active[l]
  BY <1>2 DEF Granted
<1>3. ASSUME NEW t \in Task, Finish(t) \/ Timeout(t)
      PROVE  granted' = granted /\ \A l \in Lane : active'[l] \subseteq active[l]
  BY <1>3 DEF Finish, Timeout, Release, TypeOK
<1>4. ASSUME NEW l \in Stuck, Reset(l)
      PROVE  granted' = granted /\ \A k \in Lane : active'[k] \subseteq active[k]
  BY <1>4 DEF Reset, TypeOK
<1>5. CASE ResetAll
  BY <1>2, <1>5 DEF ResetAll
<1>6. CASE UNCHANGED <<granted, active>>
  BY <1>2, <1>6
<1> QED
  BY <1>1, <1>2, <1>3, <1>4, <1>5, <1>6
  DEF Next, Drain, Drained, Enqueue, Refuse, EndLate, Clear, MarkDraining, Configure, vars

LEMMA LimitsFollow == ASSUME IInv PROVE LimitsHold
<1>1. ASSUME NEW l \in Lane, active[l] # {} PROVE \E t \in active[l] : Running(l) <= granted[t]
  BY <1>1 DEF IInv, Granted, Running
<1> QED
  BY <1>1 DEF LimitsHold, IInv, WithinWidths

-----------------------------------------------------------------------------
(* No capacity is left idle. *)

LEMMA DrainsItself == \A k \in Lane : k \in DrainedWith(k) /\ k \in DrainedWith(k)'
BY DEF DrainedWith

\* Whether a lane admits a task does not depend on lanes it shares nothing with.
LEMMA AdmitsIsLocal ==
  ASSUME TypeOK, NEW m \in Lane, NEW k \in Lane, k \notin DrainedWith(m),
         group' = group, main' = main,
         \A j \in Lane \ {m} : active'[j] = active[j]
  PROVE  Admits(k)' => Admits(k)
<1>1. k # m /\ (k \in Grouped => m \notin Grouped)
  BY DEF DrainedWith
<1>2. Running(k)' = Running(k) /\ Width(k)' = Width(k) /\ Grouped' = Grouped
  BY <1>1 DEF Running, Width, Grouped
<1>3. CASE k \notin Grouped
  BY <1>2, <1>3 DEF Admits
<1>4. CASE k \in Grouped
  <2>1. m # Nested /\ m # Hook
    BY <1>1, <1>4 DEF Grouped
  <2>2. \A j \in {Nested, Hook} : Running(j)' = Running(j)
    BY <2>1, GatewayLanes DEF Running
  <2>3. \A j \in {Nested, Hook} : Reservation(j)' = Reservation(j)
    BY DEF Reservation
  <2>4. k \in {Nested, Hook} /\ Sibling(k) \in {Nested, Hook}
    BY <1>4 DEF Grouped, Sibling
  <2>5. WithinGroup(k)' = WithinGroup(k)
    BY <2>2, <2>3, <2>4, GatewayLanes DEF WithinGroup, GroupRunning, Held, Sibling
  <2> QED
    BY <1>2, <2>5 DEF Admits
<1> QED
  BY <1>3, <1>4

\* A start makes room for nobody.
LEMMA StartAdmitsNoMore ==
  ASSUME TypeOK, SlotsAreLive, NEW l \in Lane, NEW t \in Task, Start(l, t), NEW k \in Lane
  PROVE  Admits(k)' => Admits(k)
<1> DEFINE m == LaneOf(t)
<1>1. m \in Lane /\ group' = group /\ main' = main
  BY LaneOfType DEF Start
<1>2. Running(m)' = Running(m) + 1 /\ \A j \in Lane \ {m} : Running(j)' = Running(j)
  BY OneMoreRuns
<1>3. \A j \in Lane : Running(j) \in Nat
  BY SlotsFinite
<1>4. Width(k)' = Width(k) /\ Width(k) \in Nat /\ Grouped' = Grouped
  BY <1>1, WidthType DEF Width, Grouped
<1>5. \A j \in {Nested, Hook} : Reservation(j)' = Reservation(j) /\ Reservation(j) \in Nat
  BY <1>1 DEF Reservation
<1>6. Running(k)' < Width(k)' => Running(k) < Width(k)
  BY <1>1, <1>2, <1>3, <1>4
<1>7. k \in Grouped /\ WithinGroup(k)' => WithinGroup(k)
  <2> SUFFICES ASSUME k \in Grouped, WithinGroup(k)' PROVE WithinGroup(k)
    OBVIOUS
  <2>1. k \in {Nested, Hook}
    BY DEF Grouped
  <2> DEFINE s == Sibling(k)
  <2>2. s \in {Nested, Hook} /\ s # k /\ GroupRunning = Running(k) + Running(s)
        /\ GroupRunning' = Running(k)' + Running(s)'
    BY <2>1, <1>3, <1>2, <1>1, GatewayLanes DEF Sibling, GroupRunning
  <2>3. Running(k)' >= Running(k) /\ Running(s)' >= Running(s)
    BY <1>1, <1>2, <1>3, <2>1, <2>2, GatewayLanes
  <2>4. Held(s)' >= Held(s) - (Running(s)' - Running(s)) /\ Held(s) \in Nat /\ Held(s)' \in Int
    BY <1>1, <1>2, <1>3, <1>5, <2>2, GatewayLanes DEF Held
  <2>5. Held(Sibling(k))' = Held(s)'
    BY DEF Sibling, Held
  <2>6. Running(k) \in Nat /\ Running(s) \in Nat /\ Running(k)' \in Nat /\ Running(s)' \in Nat
    BY <1>1, <1>2, <1>3, <2>1, <2>2, GatewayLanes
  <2>7. GroupRunning < CRON
    BY <2>2, <2>3, <2>6, WidthAssumption DEF WithinGroup
  <2>8. CASE Running(k)' < Reservation(k)'
    BY <1>5, <2>1, <2>3, <2>6, <2>7, <2>8 DEF WithinGroup
  <2>9. CASE GroupRunning' + Held(Sibling(k))' < CRON
    <3>1. GroupRunning + Held(s) < CRON
      BY <2>2, <2>3, <2>4, <2>5, <2>6, <2>9, WidthAssumption
    <3> QED
      BY <2>7, <3>1 DEF WithinGroup
  <2> QED
    BY <2>8, <2>9 DEF WithinGroup
<1> QED
  BY <1>4, <1>6, <1>7 DEF Admits

\* A lane that loses slots is drained together with all that may gain by it.
LEMMA DrainAfterFreeing ==
  ASSUME TypeOK, Pending, pump = {}, Queued' = Queued, group' = group, main' = main,
         NEW m \in Lane,
         \A j \in Lane \ {m} : active'[j] = active[j],
         pump' = {m} \/ active' = active
  PROVE  Pending'
<1> SUFFICES ASSUME NEW u \in Queued, Admits(LaneOf(u))'
             PROVE  \E l \in pump' : LaneOf(u) \in DrainedWith(l)'
  BY DEF Pending
<1> DEFINE k == LaneOf(u)
<1>1. k \in Lane /\ ~Admits(k)
  BY LaneOfType DEF Pending, Queued
<1>2. active' # active
  BY <1>1
  DEF Admits, Running, Width, Grouped, WithinGroup, GroupRunning, Held, Reservation, Sibling
<1>3. k \in DrainedWith(m)
  BY <1>1, AdmitsIsLocal
<1>4. DrainedWith(m)' = DrainedWith(m)
  BY DEF DrainedWith, Grouped
<1> QED
  BY <1>2, <1>3, <1>4

LEMMA PendingStep ==
  ASSUME TypeOK, SlotsAreLive, Pending, [Next]_vars
  PROVE  Pending'
<1>1. ASSUME NEW l \in Lane, NEW t \in Task, Start(l, t) PROVE Pending'
  <2>1. Queued' \subseteq Queued /\ UNCHANGED <<group, main, pump>>
    BY <1>1 DEF Start, TypeOK, Queued
  <2>2. \A k \in Lane : Admits(k)' => Admits(k)
    BY <1>1, StartAdmitsNoMore
  <2>3. \A k \in Lane : DrainedWith(k)' = DrainedWith(k)
    BY <2>1 DEF DrainedWith, Grouped
  <2> QED
    BY <2>1, <2>2, <2>3, LaneOfType DEF Pending, Queued, TypeOK
<1>2. ASSUME NEW l \in Lane, Drained(l) PROVE Pending'
  <2> SUFFICES ASSUME NEW u \in Queued, Admits(LaneOf(u))
               PROVE  \E k \in pump \ {l} : LaneOf(u) \in DrainedWith(k)
    BY <1>2
    DEF Drained, Pending, Queued, DrainedWith, Grouped, Admits, Running, Width, WithinGroup,
        GroupRunning, Held, Reservation, Sibling
  <2>1. PICK k \in pump : LaneOf(u) \in DrainedWith(k)
    BY DEF Pending
  <2>2. k # l
    BY <1>2, <2>1 DEF Drained, Candidates
  <2> QED
    BY <2>1, <2>2
<1>3. ASSUME NEW t \in Task, Enqueue(t) PROVE Pending'
  <2>1. pump = {} /\ pump' = {LaneOf(t)} /\ UNCHANGED <<active, group, main>> /\ Queued' = Queued \union {t}
    BY <1>3 DEF Enqueue, Submitted, TypeOK, Queued
  <2> SUFFICES ASSUME NEW u \in Queued', Admits(LaneOf(u))'
               PROVE  LaneOf(u) \in DrainedWith(LaneOf(t))'
    BY <2>1 DEF Pending
  <2>2. CASE u \in Queued
    <3>1. ~Admits(LaneOf(u))
      BY <2>1, <2>2 DEF Pending
    <3> QED
      BY <2>1, <3>1
      DEF Admits, Running, Width, Grouped, WithinGroup, GroupRunning, Held, Reservation, Sibling
  <2>3. CASE u = t
    BY <2>3, LaneOfType, DrainsItself
  <2> QED
    BY <2>1, <2>2, <2>3
<1>4. ASSUME NEW t \in Task, Finish(t) \/ Timeout(t) PROVE Pending'
  <2> DEFINE m == LaneOf(t)
  <2>1. m \in Lane
    BY LaneOfType
  <2>2. /\ pump = {} /\ group' = group /\ main' = main
        /\ active' = [active EXCEPT ![m] = @ \ {t}]
        /\ pump' = {l \in {m} : t \in active[l]}
    BY <1>4 DEF Finish, Timeout, Release
  <2>3. Queued' = Queued
    BY <1>4 DEF Finish, Timeout, TypeOK, Queued
  <2>4. \A j \in Lane \ {m} : active'[j] = active[j]
    BY <2>1, <2>2 DEF TypeOK
  <2>5. pump' = {m} \/ active' = active
    <3>1. CASE t \in active[m]
      BY <2>2, <3>1
    <3>2. CASE t \notin active[m]
      <4>1. active[m] \ {t} = active[m]
        BY <3>2
      <4> QED
        BY <2>1, <2>2, <4>1 DEF TypeOK
    <3> QED
      BY <3>1, <3>2
  <2> QED
    BY <2>1, <2>2, <2>3, <2>4, <2>5, DrainAfterFreeing
<1>5. ASSUME NEW l \in Stuck, Reset(l) PROVE Pending'
  <2>1. l \in Lane
    BY SessionAssumption DEF Lane
  <2>2. pump = {} /\ pump' = {l} /\ UNCHANGED <<phase, group, main>> /\ \A j \in Lane \ {l} : active'[j] = active[j]
    BY <1>5, <2>1 DEF Reset, TypeOK
  <2>3. Queued' = Queued
    BY <2>2 DEF Queued
  <2> QED
    BY <2>1, <2>2, <2>3, DrainAfterFreeing
<1>6. CASE ResetAll
  <2>1. pump' = Waited /\ Queued' = Queued
    BY <1>6 DEF ResetAll, Queued
  <2> QED
    BY <2>1, LaneOfType, DrainsItself DEF Pending, Waited, Queued
<1>7. ASSUME NEW hooks \in BOOLEAN, NEW width \in MainWidth, Configure(hooks, width) PROVE Pending'
  <2>1. pump = {} /\ pump' = Waited \intersect Gateway /\ Queued' = Queued /\ active' = active
    BY <1>7 DEF Configure, Queued
  <2> SUFFICES ASSUME NEW u \in Queued, Admits(LaneOf(u))'
               PROVE  \E l \in pump' : LaneOf(u) \in DrainedWith(l)'
    BY <2>1 DEF Pending
  <2> DEFINE k == LaneOf(u)
  <2>2. k \in Lane /\ ~Admits(k)
    BY <2>1, LaneOfType DEF Pending, Queued
  <2>3. k \in Gateway
    <3> SUFFICES ASSUME k \notin Gateway PROVE FALSE
      OBVIOUS
    <3>1. k \notin Grouped /\ k \notin Grouped' /\ Width(k)' = Width(k)
      BY DEF Grouped, Gateway, Width, Nested, Hook
    <3>2. Running(k)' = Running(k)
      BY <2>1 DEF Running
    <3> QED
      BY <2>2, <3>1, <3>2 DEF Admits
  <2> QED
    BY <2>1, <2>2, <2>3, DrainsItself DEF Waited
<1>8. ASSUME NEW l \in Session, Clear(l) PROVE Pending'
  <2>1. Queued' \subseteq Queued /\ UNCHANGED <<active, group, main, pump>>
    BY <1>8 DEF Clear, Queued
  <2> QED
    BY <2>1
    DEF Pending, DrainedWith, Grouped, Admits, Running, Width, WithinGroup, GroupRunning, Held,
        Reservation, Sibling
<1>9. CASE Queued' = Queued /\ UNCHANGED <<active, group, main, pump>>
  BY <1>9
  DEF Pending, DrainedWith, Grouped, Admits, Running, Width, WithinGroup, GroupRunning, Held,
      Reservation, Sibling
<1>10. ASSUME NEW t \in Task, Refuse(t) \/ EndLate(t)
       PROVE  Queued' = Queued /\ UNCHANGED <<active, group, main, pump>>
  BY <1>10 DEF Refuse, EndLate, Submitted, TypeOK, Queued
<1>11. MarkDraining \/ UNCHANGED vars => Queued' = Queued /\ UNCHANGED <<active, group, main, pump>>
  BY DEF MarkDraining, vars, Queued
<1> QED
  BY <1>1, <1>2, <1>3, <1>4, <1>5, <1>6, <1>7, <1>8, <1>9, <1>10, <1>11 DEF Next, Drain
-----------------------------------------------------------------------------
(* The theorems. *)

LEMMA Step == IInv /\ [Next]_vars => IInv'
BY TypeStep, ArrivalStep, SlotsStep, LimitsStep, GrantedStep, PendingStep DEF IInv

LEMMA Invariance == Spec => []IInv
<1>1. Init => IInv
  BY InitIInv
<1>2. IInv /\ [Next]_vars => IInv'
  BY Step
<1> QED
  BY <1>1, <1>2, PTL DEF Spec

\* Every phase, slot set and drain list stays of its type; above all, only
\* queued tasks are counted as having come before another (the rings hold no
\* entry that a drain or a clear has removed).
THEOREM TypeCorrect == Spec => []TypeOK
<1>1. IInv => TypeOK
  BY DEF IInv
<1> QED
  BY <1>1, Invariance, PTL

\* In every order of hot reloads, timeouts and resets: no lane runs more than the
\* width under which one of its tasks was started, those of constant width no more
\* than that width, and the two lanes of the group together never more than cron's
\* slots (setCommandLaneConcurrency(), resolveLaneBlockReason()).
THEOREM Limits == Spec => []LimitsHold
<1>1. IInv => LimitsHold
  BY LimitsFollow
<1> QED
  BY <1>1, Invariance, PTL

\* Every slot is held by a running task of that lane (completeTask()).
THEOREM SlotsHeld == Spec => []SlotsAreLive
<1>1. IInv => SlotsAreLive
  BY DEF IInv
<1> QED
  BY <1>1, Invariance, PTL

\* When no drain is under way, every queued task is blocked by a limit: each
\* path that frees or adds capacity drains all lanes that gain by it
\* (drainReadyCommandLane(), publishLaneConfiguration()).
THEOREM NoIdleCapacity == Spec => []WorkConserving
<1>1. IInv => WorkConserving
  BY DEF IInv, Pending, WorkConserving
<1> QED
  BY <1>1, Invariance, PTL

\* While hooks are on and none runs, a start of cron's inner work leaves a slot
\* of the group free (HOOK_DISPATCH_LANE_RESERVATION).
THEOREM LastSlot == Spec => LastSlotIsForHooks
<1> DEFINE Grows == ~(active'[Nested] \subseteq active[Nested])
<1>1. ASSUME IInv, [Next]_vars, group = "reserving", active[Hook] = {}, Grows
      PROVE  Cardinality(active'[Nested]) < CRON
  <2> USE DEF IInv
  <2>1. ASSUME NEW t \in Task, Finish(t) \/ Timeout(t) PROVE FALSE
    BY <1>1, <2>1, GatewayLanes DEF Finish, Timeout, Release, TypeOK
  <2>2. ASSUME NEW l \in Stuck, Reset(l) PROVE FALSE
    BY <1>1, <2>2, GatewayLanes DEF Reset, TypeOK
  <2>3. ASSUME ResetAll PROVE FALSE
    BY <1>1, <2>3, GatewayLanes DEF ResetAll
  <2>4. active' # active
    BY <1>1
  <2>5. PICK l \in Lane, t \in Task : Start(l, t)
    BY <1>1, <2>1, <2>2, <2>3, <2>4
    DEF Next, Drain, Drained, Enqueue, Refuse, EndLate, Clear, MarkDraining, Configure, vars
  <2>6. LaneOf(t) = Nested
    BY <1>1, <2>5, LaneOfType, GatewayLanes DEF Start, TypeOK
  <2>7. Admits(Nested) /\ Nested \in Grouped
    BY <1>1, <2>5, <2>6 DEF Start, Candidates, Grouped
  <2>8. Running(Hook) = 0
    BY <1>1, FS_EmptySet DEF Running
  <2>9. Reservation(Nested) = 0 /\ Reservation(Hook) = 1 /\ Sibling(Nested) = Hook
    BY <1>1, GatewayLanes DEF Reservation, Sibling
  <2>10. Held(Hook) = 1
    BY <2>8, <2>9 DEF Held
  <2>11. Running(Nested) \in Nat
    BY <1>1, SlotsFinite, GatewayLanes
  <2>12. Running(Nested) + 1 < CRON
    BY <2>7, <2>8, <2>9, <2>10, <2>11, WidthAssumption DEF Admits, WithinGroup, GroupRunning
  <2>13. Running(Nested)' = Running(Nested) + 1
    BY <1>1, <2>5, <2>6, OneMoreRuns
  <2> QED
    BY <2>12, <2>13 DEF Running
<1>2. IInv /\ [Next]_vars =>
        [group = "reserving" /\ active[Hook] = {} /\ Grows => Cardinality(active'[Nested]) < CRON]_vars
  BY <1>1
<1> QED
  BY <1>2, Invariance, PTL DEF Spec, LastSlotIsForHooks

\* Starts follow priority, then arrival, in a lane and across the group
\* (resolveNextGroupLane()).
THEOREM Order == Spec => NoOvertaking
<1> DEFINE Overtaken(t, u) ==
      /\ phase[t] = "queued" /\ phase'[t] = "running"
      /\ phase[u] = "queued" /\ phase'[u] = "queued"
      /\ LaneOf(u) = LaneOf(t) \/ ({LaneOf(t), LaneOf(u)} \subseteq Grouped /\ Admits(LaneOf(u)))
<1> DEFINE Fair(t, u) ==
      /\ Priority[t] >= Priority[u]
      /\ Priority[t] = Priority[u] => u \notin older[t]
<1>1. ASSUME IInv, [Next]_vars, NEW t \in Task, NEW u \in Task, Overtaken(t, u)
      PROVE  Fair(t, u)
  <2> USE DEF IInv
  <2>1. PICK l \in Lane, v \in Task : Start(l, v)
    BY <1>1
    DEF Next, Drain, Drained, Enqueue, Refuse, Submitted, Finish, Timeout, EndLate, Clear,
        Reset, MarkDraining, ResetAll, Configure, vars, TypeOK
  <2>2. v = t
    BY <1>1, <2>1 DEF Start, TypeOK
  <2>3. t \in Candidates(l)
    BY <2>1, <2>2 DEF Start
  <2>4. u \in Candidates(l) \ {t}
    <3>1. u \in Queued /\ u # t
      BY <1>1 DEF Queued
    <3>2. LaneOf(u) \in DrainedWith(l) /\ Admits(LaneOf(u))
      BY <1>1, <2>3 DEF Candidates, DrainedWith
    <3> QED
      BY <3>1, <3>2 DEF Candidates
  <2>5. Before(t, u)
    BY <2>1, <2>2, <2>4 DEF Start
  <2>6. Priority[t] \in Int /\ Priority[u] \in Int
    BY TaskAssumption
  <2> QED
    BY <1>1, <2>5, <2>6 DEF Before, Arrival
<1>2. IInv /\ [Next]_vars => [\A t, u \in Task : Overtaken(t, u) => Fair(t, u)]_vars
  BY <1>1
<1> QED
  BY <1>2, Invariance, PTL DEF Spec, NoOvertaking
=============================================================================
