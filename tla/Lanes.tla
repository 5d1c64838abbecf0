------------------------------- MODULE Lanes -------------------------------
(***************************************************************************)
(* The command lanes every agent run passes through (process/              *)
(* command-queue.ts, command-queue.capacity-groups.ts, lanes.ts), as the   *)
(* gateway configures them (gateway/server-lanes.ts): queues per lane,     *)
(* slots, one group of two lanes with a shared budget and a reservation,   *)
(* tasks that enqueue a task and wait for it, timeouts, the recovery of    *)
(* one lane and of all lanes, and the hot reload of the configuration:     *)
(* hooks turned on and off and the main lane made wider and narrower while *)
(* tasks are running.                                                      *)
(*                                                                         *)
(* The code drains synchronously, so a drain here is a run of Start steps  *)
(* that nothing else interrupts: every other action needs pump = {}.       *)
(* A lane's generation grows exactly where its active ids are cleared, and *)
(* ids are never reused: a completion is of the current generation if and  *)
(* only if its task is still in active.  For the same reason a scoped lane *)
(* that is retired when idle and made anew when needed is the same lane.   *)
(***************************************************************************)
EXTENDS Integers, FiniteSets

CONSTANTS
  Task, None,
  Session,     \* the session lanes, one for each session key
  Requested,   \* the lane a task asks for
  Parent,      \* the task whose body enqueues it and waits for it, or None
  Priority,    \* 1 foreground, 0 normal, -1 background
  Timed,       \* the tasks with a timeout
  Stuck,       \* the sessions that the recovery of stuck sessions resets
  CRON,        \* the width of cron, fixed in config/cron-limits.ts
  MainWidth    \* the widths agents.defaults.maxConcurrent gives to main

Gateway == {"cron", "cron-nested", "hook-dispatch", "main"}
Lane == Gateway \union Session

ASSUME TaskAssumption ==
  /\ None \notin Task
  /\ IsFiniteSet(Task)
  /\ Requested \in [Task -> Lane]
  /\ Parent \in [Task -> Task \union {None}]
  /\ Priority \in [Task -> -1 .. 1]
  /\ Timed \subseteq Task
ASSUME SessionAssumption == Session \intersect Gateway = {} /\ Stuck \subseteq Session
\* With one cron slot the reservation would leave none for cron's own work.
ASSUME WidthAssumption ==
  /\ CRON \in Nat /\ CRON > 1
  /\ MainWidth \subseteq Nat \ {0}

VARIABLES
  phase,    \* what has become of each task
  older,    \* for a queued task, the queued tasks that came before it
  active,   \* the slots of each lane: activeTaskIds
  group,    \* the group of cron-nested and hook-dispatch
  main,     \* the width of the main lane
  closed,   \* the gateway is draining for a restart
  pump,     \* lanes still to be drained
  granted   \* history: the width of its lane when a task was last started

vars == <<phase, older, active, group, main, closed, pump, granted>>

Phase == {"new", "queued", "running", "late", "done", "dropped"}

\* The tasks that wait in a queue.
Queued == {t \in Task : phase[t] = "queued"}

TypeOK ==
  /\ phase \in [Task -> Phase]
  /\ older \in [Task -> SUBSET Queued]
  /\ active \in [Lane -> SUBSET Task]
  /\ group \in {"none", "reserving", "retained"}
  /\ main \in MainWidth
  /\ closed \in BOOLEAN
  /\ pump \subseteq Lane
  /\ granted \in [Task -> Nat]

Init ==
  /\ phase = [t \in Task |-> "new"]
  /\ older = [t \in Task |-> {}]
  /\ active = [l \in Lane |-> {}]
  /\ group \in {"none", "reserving"}
  /\ main \in MainWidth
  /\ closed = FALSE
  /\ pump = {}
  /\ granted = [t \in Task |-> 0]

-----------------------------------------------------------------------------
(* Lanes and capacity. *)

Nested == "cron-nested"
Hook == "hook-dispatch"

\* Faulty variant: work inside a cron run asks for the lane it already holds.
InnerLaneOuter(l) == l
\* resolveCronAgentLane(), resolveGlobalLane(): where work inside a run goes.
InnerLane(l) == IF l = "cron" THEN Nested ELSE l

LaneOf(t) == IF Parent[t] = None THEN Requested[t] ELSE InnerLane(Requested[t])

\* What applyGatewayLaneConcurrency() sets; an unconfigured lane has width 1.
Width(l) ==
  CASE l \in {"cron", Nested} -> CRON
    [] l = Hook -> IF group = "reserving" THEN CRON ELSE 0
    [] l = "main" -> main
    [] OTHER -> 1

Grouped == IF group = "none" THEN {} ELSE {Nested, Hook}
Sibling(l) == IF l = Hook THEN Nested ELSE Hook
Reservation(l) == IF l = Hook /\ group = "reserving" THEN 1 ELSE 0

Running(l) == Cardinality(active[l])
GroupRunning == Running(Nested) + Running(Hook)

\* The part of a lane's reservation that it does not use.
Held(l) == IF Running(l) < Reservation(l) THEN Reservation(l) - Running(l) ELSE 0

\* Faulty variant: a sibling's unused reservation can be borrowed.
WithinGroupBorrows(l) == GroupRunning < CRON
\* canAdmitInGroup()
WithinGroup(l) ==
  /\ GroupRunning < CRON
  /\ \/ Running(l) < Reservation(l)
     \/ GroupRunning + Held(Sibling(l)) < CRON

\* resolveLaneBlockReason() is null.
Admits(l) == Running(l) < Width(l) /\ (l \in Grouped => WithinGroup(l))

\* The lanes with something in their queue.
Waited == {LaneOf(t) : t \in Queued}

\* Foreground before normal before background, then in order of arrival.
Before(t, u) == Priority[t] > Priority[u] \/ (Priority[t] = Priority[u] /\ t \in older[u])

\* Faulty variant: a lane never looks at its sibling.
DrainedWithAlone(l) == {l}
\* The lanes a drain of l arbitrates between.
DrainedWith(l) == IF l \in Grouped THEN Grouped ELSE {l}

Candidates(l) == {t \in Queued : LaneOf(t) \in DrainedWith(l) /\ Admits(LaneOf(t))}

-----------------------------------------------------------------------------
(* The drain: drainReadyCommandLane(). *)

\* Faulty variant: it still counts as ahead of the others.
LeaveCounted(T) == older' = [u \in Task |-> IF u \in T THEN {} ELSE older[u]]
\* A task that leaves the queue is no longer ahead of anyone.
Leave(T) == older' = [u \in Task |-> IF u \in T THEN {} ELSE older[u] \ T]

Start(l, t) ==
  /\ l \in pump
  /\ t \in Candidates(l)
  /\ \A u \in Candidates(l) \ {t} : Before(t, u)
  /\ phase' = [phase EXCEPT ![t] = "running"]
  /\ Leave({t})
  /\ active' = [active EXCEPT ![LaneOf(t)] = @ \union {t}]
  /\ granted' = [granted EXCEPT ![t] = Width(LaneOf(t))]
  /\ UNCHANGED <<group, main, closed, pump>>

Drained(l) ==
  /\ l \in pump
  /\ Candidates(l) = {}
  /\ pump' = pump \ {l}
  /\ UNCHANGED <<phase, older, active, group, main, closed, granted>>

-----------------------------------------------------------------------------
(* Tasks. *)

HasBody(t) == phase[t] \in {"running", "late"}
\* What a task enqueued has been answered: resolved, rejected or timed out.
ChildrenAnswered(t) == \A u \in Task : Parent[u] = t => phase[u] \notin {"queued", "running"}

\* A caller, or the body of the parent, asks for t to be run.
Submitted(t) ==
  /\ pump = {}
  /\ phase[t] = "new"
  /\ Parent[t] # None => HasBody(Parent[t])

\* enqueueCommandInLane()
Enqueue(t) ==
  /\ Submitted(t)
  /\ ~closed
  /\ phase' = [phase EXCEPT ![t] = "queued"]
  /\ older' = [older EXCEPT ![t] = Queued]
  /\ pump' = {LaneOf(t)}
  /\ UNCHANGED <<active, group, main, closed, granted>>

\* GatewayDrainingError
Refuse(t) ==
  /\ Submitted(t)
  /\ closed
  /\ phase' = [phase EXCEPT ![t] = "dropped"]
  /\ UNCHANGED <<older, active, group, main, closed, pump, granted>>

\* completeTask(), and a drain unless a reset has taken the slot away.
Release(t) ==
  /\ active' = [active EXCEPT ![LaneOf(t)] = @ \ {t}]
  /\ pump' = {l \in {LaneOf(t)} : t \in active[l]}

\* The body resolves or rejects.
Finish(t) ==
  /\ pump = {}
  /\ phase[t] = "running"
  /\ ChildrenAnswered(t)
  /\ phase' = [phase EXCEPT ![t] = "done"]
  /\ Release(t)
  /\ UNCHANGED <<older, group, main, closed, granted>>

\* Faulty variant: the caller is answered, the slot stays taken.
TimeoutKeepsSlot(t) ==
  /\ pump = {}
  /\ t \in Timed
  /\ phase[t] = "running"
  /\ phase' = [phase EXCEPT ![t] = "late"]
  /\ UNCHANGED <<older, active, group, main, closed, pump, granted>>
\* The caller is told it took too long; the body may go on.
Timeout(t) ==
  /\ pump = {}
  /\ t \in Timed
  /\ phase[t] = "running"
  /\ phase' = [phase EXCEPT ![t] = "late"]
  /\ Release(t)
  /\ UNCHANGED <<older, group, main, closed, granted>>

\* The body ends after its timeout.
EndLate(t) ==
  /\ pump = {}
  /\ phase[t] = "late"
  /\ ChildrenAnswered(t)
  /\ phase' = [phase EXCEPT ![t] = "done"]
  /\ UNCHANGED <<older, active, group, main, closed, pump, granted>>

-----------------------------------------------------------------------------
(* Recovery, restart and configuration. *)

\* clearCommandLane(), for a session.
Clear(l) ==
  /\ pump = {}
  /\ LET T == {t \in Queued : LaneOf(t) = l} IN
     /\ phase' = [t \in Task |-> IF t \in T THEN "dropped" ELSE phase[t]]
     /\ Leave(T)
  /\ UNCHANGED <<active, group, main, closed, pump, granted>>

\* resetCommandLane(), for a session that is stuck.
Reset(l) ==
  /\ pump = {}
  /\ active' = [active EXCEPT ![l] = {}]
  /\ pump' = {l}
  /\ UNCHANGED <<phase, older, group, main, closed, granted>>

\* markGatewayDraining()
MarkDraining ==
  /\ pump = {}
  /\ ~closed
  /\ closed' = TRUE
  /\ UNCHANGED <<phase, older, active, group, main, pump, granted>>

\* resetAllLanes(), in an in-process restart.
ResetAll ==
  /\ pump = {}
  /\ closed
  /\ closed' = FALSE
  /\ active' = [l \in Lane |-> {}]
  /\ pump' = Waited
  /\ UNCHANGED <<phase, older, group, main, granted>>

\* Faulty variant: hooks that still run leave the budget.
ConfigureForgets(hooks, width) ==
  /\ pump = {}
  /\ group' = IF hooks THEN "reserving" ELSE "none"
  /\ main' = width
  /\ pump' = Waited \intersect Gateway
  /\ UNCHANGED <<phase, older, active, closed, granted>>
\* Faulty variant: a lane that was made wider is not drained.
ConfigureHalf(hooks, width) ==
  /\ pump = {}
  /\ group' = IF hooks THEN "reserving" ELSE IF active[Hook] = {} THEN "none" ELSE "retained"
  /\ main' = width
  /\ pump' = Waited \intersect {"cron", Nested, Hook}
  /\ UNCHANGED <<phase, older, active, closed, granted>>
\* applyGatewayLaneConcurrency(), at the start and in a hot reload: what runs
\* goes on, also in a lane that is now too narrow for it.
Configure(hooks, width) ==
  /\ pump = {}
  /\ group' = IF hooks THEN "reserving" ELSE IF active[Hook] = {} THEN "none" ELSE "retained"
  /\ main' = width
  /\ pump' = Waited \intersect Gateway
  /\ UNCHANGED <<phase, older, active, closed, granted>>

Drain(l) == Drained(l) \/ \E t \in Task : Start(l, t)

Next ==
  \/ \E l \in Lane : Drain(l)
  \/ \E t \in Task : Enqueue(t) \/ Refuse(t) \/ Finish(t) \/ Timeout(t) \/ EndLate(t)
  \/ \E l \in Session : Clear(l)
  \/ \E l \in Stuck : Reset(l)
  \/ MarkDraining \/ ResetAll
  \/ \E hooks \in BOOLEAN, width \in MainWidth : Configure(hooks, width)

\* A drain runs to its end.  A task that has its slot, and waits for nothing
\* it enqueued, does not keep it for ever: it ends, or its timer fires.
Fairness ==
  /\ WF_vars(\E l \in Lane : Drain(l))
  /\ \A t \in Task : []<>~(t \in active[LaneOf(t)] /\ ChildrenAnswered(t))

Spec == Init /\ [][Next]_vars
FairSpec == Spec /\ Fairness

-----------------------------------------------------------------------------
(* Properties. *)

\* The limits hold in every order of configuration changes, resets and drains.
\* A lane that was narrowed may go on running more than its new width, but never
\* more than the width in force when one of its running tasks was started; so a
\* lane of constant width never exceeds it.  Cron's inner work and the hooks share
\* cron's slots, also while hooks that were turned off are still running
\* (setCommandLaneConcurrency(), resolveLaneBlockReason(), retainInFlightHookBudget).
LimitsHold ==
  /\ \A l \in Lane : active[l] # {} => \E t \in active[l] : Running(l) <= granted[t]
  /\ \A l \in Lane \ {Hook, "main"} : Running(l) <= Width(l)
  /\ GroupRunning <= CRON

\* While hooks are on and none runs, cron's inner work never takes the last
\* slot ("capacity held inside the cron budget so hook dispatch cannot be
\* starved", HOOK_DISPATCH_LANE_RESERVATION).
LastSlotIsForHooks ==
  [][group = "reserving" /\ active[Hook] = {} /\ ~(active'[Nested] \subseteq active[Nested])
     => Cardinality(active'[Nested]) < CRON]_vars

\* Capacity is never left idle: when no drain is under way, every queued task
\* is blocked by a limit.  Each path that frees or adds capacity must drain the
\* lane and its sibling ("the only remaining obligation is that those paths
\* re-drain the group").
WorkConserving == pump = {} => \A t \in Queued : ~Admits(LaneOf(t))

\* A task that starts overtakes no task of its lane, nor of the sibling lane if
\* that one could have started too, that has a higher priority or the same and
\* came before (resolveNextGroupLane(), the three rings of a lane's queue).
NoOvertaking ==
  [][\A t, u \in Task :
       /\ phase[t] = "queued" /\ phase'[t] = "running"
       /\ phase[u] = "queued" /\ phase'[u] = "queued"
       /\ LaneOf(u) = LaneOf(t) \/ ({LaneOf(t), LaneOf(u)} \subseteq Grouped /\ Admits(LaneOf(u)))
       => /\ Priority[t] >= Priority[u]
          /\ Priority[t] = Priority[u] => u \notin older[t]]_vars

\* A slot is held by a task whose caller still waits for it, in its own lane:
\* no timeout, late completion, clear or reset leaves a slot behind or frees
\* the slot of a task that runs since (completeTask()).
SlotsAreLive == \A l \in Lane : \A t \in active[l] : phase[t] = "running" /\ LaneOf(t) = l

\* A task whose slot a reset took away; whether it ever ends is not this code's.
Abandoned(t) == phase[t] = "running" /\ t \notin active[LaneOf(t)]

\* Everyone who enqueues gets an answer, whatever waits for whatever: a cron
\* run waits inside its slot for its inner work, a session for its global lane.
\* Hooks wait while hooks are off.
EveryTaskIsAnswered ==
  []<>(\A t \in Task :
         \/ phase[t] \notin {"queued", "running"}
         \/ Abandoned(t)
         \/ LaneOf(t) = Hook /\ group # "reserving")
=============================================================================
