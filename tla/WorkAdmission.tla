--------------------------- MODULE WorkAdmission ---------------------------
(***************************************************************************)
(* Admission of root work to the gateway (process/                         *)
(* gateway-work-admission.ts): the requests, timers and detached jobs that *)
(* the process counts, the fences that keep new ones out while the host    *)
(* suspends it or a restart drains it, and the handles by which work stays *)
(* counted after the handler that began it has returned.                   *)
(*                                                                         *)
(* A chain is a chain of promises.  It inherits the root it was begun in   *)
(* (the AsyncLocalStorage store); a root is named after the chain it was   *)
(* created for.  Nested admission in a live root changes nothing and is    *)
(* left out.  A root is released exactly when it leaves activeRootWork.    *)
(***************************************************************************)
EXTENDS Integers, FiniteSets

CONSTANTS
  Work,       \* chains of ordinary work
  Asker,      \* requests of the host that prepare a suspension
  Successor,  \* targeted restart requests of the host
  None,
  MaxRestarts \* restarts in process (bound)

Control == Asker \union Successor
Chain == Work \union Control

ASSUME ChainAssumption ==
  /\ IsFiniteSet(Chain)
  /\ Work \intersect Control = {} /\ Asker \intersect Successor = {}
  /\ None \notin Chain
  /\ MaxRestarts \in Nat

VARIABLES
  stage,    \* how far each chain has got
  root,     \* currentRootWork of each chain
  holds,    \* the chains with a handle they have not released
  refs,     \* references of the root created for each chain
  active,   \* activeRootWork
  retired,  \* roots a restart gave up: retiredByReset
  tasks,    \* the chains that the command lanes count
  parked,   \* suspendOpenWaiters
  draining, \* restartDraining
  signal,   \* restartSignalPending
  phase,    \* suspendPhase
  lease,    \* suspendGeneration
  restarts

chains == <<stage, root, holds, refs, active, retired, tasks>>
gate == <<parked, draining, signal, phase, lease, restarts>>

Stage == {"new", "captured", "queued", "waiting", "running", "emitted", "done", "refused"}

WorkTypeOK ==
  /\ stage \in [Chain -> Stage]
  /\ root \in [Chain -> Chain \union {None}]
  /\ refs \in [Chain -> 0 .. Cardinality(Chain)]
  /\ holds \subseteq Chain /\ active \subseteq Chain /\ retired \subseteq Chain
  /\ tasks \subseteq Work /\ parked \subseteq Chain
  /\ draining \in BOOLEAN /\ signal \in BOOLEAN
  /\ phase \in {"accepting", "preparing", "draining", "prepared"}
  /\ lease \in Nat /\ restarts \in 0 .. MaxRestarts

WorkInit ==
  /\ stage = [c \in Chain |-> "new"]
  /\ root = [c \in Chain |-> None]
  /\ refs = [c \in Chain |-> 0]
  /\ holds = {} /\ active = {} /\ retired = {} /\ tasks = {} /\ parked = {}
  /\ draining = FALSE /\ signal = FALSE
  /\ phase = "accepting" /\ lease = 0 /\ restarts = 0

-----------------------------------------------------------------------------
(* Roots and handles. *)

Open == ~draining /\ ~signal /\ phase = "accepting"

Running(c) == stage[c] \in {"running", "emitted"}
\* The chain is in a root that has not been released.
Live(c) == root[c] \in active

Arrives(c, s) == stage[c] = "new" /\ stage' = [stage EXCEPT ![c] = s]

\* createGatewayRootWorkAdmission(): the chain gets a root of its own.
OwnRoot(c) ==
  /\ root' = [root EXCEPT ![c] = c]
  /\ refs' = [refs EXCEPT ![c] = 1]
  /\ active' = active \union {c}
  /\ holds' = holds \union {c}

\* A further handle on root r, held by c, which runs in it.
ShareRoot(c, r) ==
  /\ root' = [root EXCEPT ![c] = r]
  /\ refs' = [refs EXCEPT ![r] = @ + 1]
  /\ holds' = holds \union {c}
  /\ UNCHANGED active

Inherit(c, p) == root' = [root EXCEPT ![c] = root[p]] /\ UNCHANGED <<refs, active, holds>>

SameRoots == UNCHANGED <<root, refs, active, holds>>

\* Faulty variant: the first handle to be released takes the root with it.
ReleaseAll(c) ==
  /\ holds' = holds \ {c}
  /\ IF c \in holds
       THEN active' = active \ {root[c]} /\ refs' = [refs EXCEPT ![root[c]] = 0]
       ELSE UNCHANGED <<active, refs>>
  /\ UNCHANGED root
\* Faulty variant: a handle of a root that a restart retired still counts down.
ReleaseLate(c) ==
  /\ holds' = holds \ {c}
  /\ IF c \in holds
       THEN /\ refs' = [refs EXCEPT ![root[c]] = @ - 1]
            /\ active' = IF refs[root[c]] = 1 THEN active \ {root[c]} ELSE active
       ELSE UNCHANGED <<active, refs>>
  /\ UNCHANGED root
\* createGatewayRootWorkRelease(): the last handle releases the root; after a
\* reset it is released already and nothing happens.
Release(c) ==
  /\ holds' = holds \ {c}
  /\ IF c \in holds /\ Live(c)
       THEN /\ refs' = [refs EXCEPT ![root[c]] = @ - 1]
            /\ active' = IF refs[root[c]] = 1 THEN active \ {root[c]} ELSE active
       ELSE UNCHANGED <<active, refs>>
  /\ UNCHANGED root

-----------------------------------------------------------------------------
(* Ways into the process. *)

\* tryBeginGatewayRootWorkAdmission(), and for a node that connects while a
\* restart starts up, tryBeginGatewayRestartStartupRootWorkAdmission().
Request(c) ==
  /\ \/ /\ Open \/ ((draining \/ signal) /\ phase = "accepting")
        /\ Arrives(c, "running")
        /\ OwnRoot(c)
     \/ /\ ~Open
        /\ Arrives(c, "refused")
        /\ SameRoots
  /\ UNCHANGED <<retired, tasks, gate>>

\* tryBeginGatewayPreparedRestartRootWorkAdmission()
PreparedRestart(c) ==
  /\ ~draining /\ ~signal /\ phase = "prepared" /\ active = {}
  /\ Arrives(c, "running")
  /\ OwnRoot(c)
  /\ UNCHANGED <<retired, tasks, gate>>

\* A timer or a detached job begins its wait: beginGatewayRootWorkAdmissionWhenOpen(),
\* runWithGatewayIndependentRootWorkAdmission().
Timer(c) ==
  /\ Arrives(c, "waiting")
  /\ SameRoots
  /\ UNCHANGED <<retired, tasks, gate>>

\* One turn of their loop.  A waiter that was woken tries again.
Try(c) ==
  /\ stage[c] = "waiting" /\ c \notin parked
  /\ \/ /\ draining
        /\ stage' = [stage EXCEPT ![c] = "refused"]
        /\ tasks' = tasks \ {c}
        /\ SameRoots /\ UNCHANGED parked
     \/ /\ Open
        /\ stage' = [stage EXCEPT ![c] = "running"]
        /\ OwnRoot(c)
        /\ UNCHANGED <<tasks, parked>>
     \/ /\ ~draining /\ ~Open
        /\ parked' = parked \union {c}
        /\ SameRoots /\ UNCHANGED <<stage, tasks>>
  /\ UNCHANGED <<retired, draining, signal, phase, lease, restarts>>

-----------------------------------------------------------------------------
(* Work that a running chain p begins as chain c. *)

\* runWithGatewayIndependentRootWorkContinuation(): a live root carries its
\* follow-up through any fence; others wait like everyone.
Detach(p, c) ==
  /\ Running(p)
  /\ IF Live(p) THEN Arrives(c, "running") /\ OwnRoot(c)
                ELSE Arrives(c, "waiting") /\ SameRoots
  /\ UNCHANGED <<retired, tasks, gate>>

\* retainGatewayRootWorkAdmissionContinuation(): c outlives p's handler.
Retain(p, c) ==
  /\ Running(p) /\ Live(p)
  /\ Arrives(c, "running")
  /\ ShareRoot(c, root[p])
  /\ UNCHANGED <<retired, tasks, gate>>

\* captureGatewayRootWorkAdmissionContinuationScope(): no handle is taken.
Capture(p, c) ==
  /\ Running(p) /\ Live(p)
  /\ Arrives(c, "captured")
  /\ Inherit(c, p)
  /\ UNCHANGED <<retired, tasks, gate>>

\* run() of a scope: the root must still be there, and stays for the callback.
RunScope(c) ==
  /\ stage[c] = "captured"
  /\ IF Live(c)
       THEN stage' = [stage EXCEPT ![c] = "running"] /\ ShareRoot(c, root[c])
       ELSE stage' = [stage EXCEPT ![c] = "refused"] /\ SameRoots
  /\ UNCHANGED <<retired, tasks, gate>>

\* A promise that nobody awaits: it inherits the root and holds nothing.
Fork(p, c) ==
  /\ Running(p)
  /\ Arrives(c, "running")
  /\ Inherit(c, p)
  /\ UNCHANGED <<retired, tasks, gate>>

\* runOutsideGatewayRootWorkAdmission(): work for the life of the process.
Outside(c) ==
  /\ Arrives(c, "running")
  /\ SameRoots
  /\ UNCHANGED <<retired, tasks, gate>>

\* Faulty variant: a chain that was admitted once may go on.
SubordinateClosedOutside(p) == draining \/ signal \/ (root[p] = None /\ phase # "accepting")
\* isGatewaySubordinateWorkAdmissionClosed()
SubordinateClosed(p) ==
  \/ draining \/ signal
  \/ IF root[p] = None THEN phase # "accepting" ELSE ~Live(p)

\* enqueueCommandInLane(), as far as admission goes.
Enqueue(p, c) ==
  /\ Running(p)
  /\ IF SubordinateClosed(p)
       THEN Arrives(c, "refused") /\ SameRoots /\ UNCHANGED tasks
       ELSE Arrives(c, "queued") /\ Inherit(c, p) /\ tasks' = tasks \union {c}
  /\ UNCHANGED <<retired, gate>>

\* The lane starts it; runWithGatewayRootWorkReadmission() makes an entry that
\* a restart preserved ask for a root of its own.
StartTask(c) ==
  /\ stage[c] = "queued"
  /\ stage' = [stage EXCEPT ![c] = IF root[c] \in retired THEN "waiting" ELSE "running"]
  /\ SameRoots
  /\ UNCHANGED <<retired, tasks, gate>>

Finish(c) ==
  /\ Running(c)
  /\ stage' = [stage EXCEPT ![c] = "done"]
  /\ tasks' = tasks \ {c}
  /\ Release(c)
  /\ UNCHANGED <<retired, gate>>

\* A started task runs out of its time, or is told to let go: the lane stops
\* counting it, and its body runs on.
LaneTimeout(c) ==
  /\ c \in tasks /\ stage[c] # "queued"
  /\ tasks' = tasks \ {c}
  /\ SameRoots
  /\ UNCHANGED <<stage, retired, gate>>

-----------------------------------------------------------------------------
(* The fences. *)

\* resolveSuspendOpenWaiters()
Wake == parked' = {}

\* beginGatewayRestartSignalAdmission(): an admitted chain emits the signal.
\* A chain emits once.
BeginSignal(c) ==
  /\ stage[c] = "running" /\ Live(c)
  /\ ~draining /\ ~signal
  /\ signal' = TRUE
  /\ stage' = [stage EXCEPT ![c] = "emitted"]
  /\ UNCHANGED <<root, holds, refs, active, retired, tasks, parked, draining, phase, lease, restarts>>

\* Faulty variant: those who wait for the fence are not told.
ClearSignalSilently ==
  /\ signal /\ ~draining
  /\ signal' = FALSE
  /\ UNCHANGED <<chains, parked, draining, phase, lease, restarts>>
\* clearRestartSignalFence(): by its lease, or by the run loop that rejects it.
ClearSignal ==
  /\ signal /\ ~draining
  /\ signal' = FALSE
  /\ Wake
  /\ UNCHANGED <<chains, draining, phase, lease, restarts>>

\* tryBeginGatewaySuspendAdmission() and the transitions of its lease, which
\* the coordinator takes in one step: it opens a new generation and leaves the
\* phase at ph.
BeginSuspend(ph) == lease' = lease + 1 /\ phase' = ph

\* transition(): only the lease of the present generation moves the phase.
Transition(g, from, to) ==
  IF g = lease /\ phase \in from
    THEN /\ phase' = to
         /\ IF to = "accepting" THEN Wake ELSE UNCHANGED parked
    ELSE UNCHANGED <<phase, parked>>

\* invalidateSuspendAdmission(); its callback is the coordinator's part.
Invalidate ==
  IF phase = "accepting" THEN UNCHANGED <<phase, lease>>
                         ELSE phase' = "accepting" /\ lease' = lease + 1

\* markGatewayRestartDraining()
MarkDraining ==
  /\ ~draining /\ restarts < MaxRestarts
  /\ draining' = TRUE /\ signal' = FALSE
  /\ restarts' = restarts + 1
  /\ Wake
  /\ Invalidate
  /\ UNCHANGED chains

\* Those who were woken have run: the run loop awaits before it resets.
Settled == \A c \in Chain : stage[c] = "waiting" => c \in parked

\* resetGatewayWorkAdmission(), from resetAllLanes(): running tasks are
\* forgotten, queued ones kept, all roots given up.
Reset ==
  /\ draining /\ Settled
  /\ draining' = FALSE /\ signal' = FALSE
  /\ refs' = [c \in Chain |-> IF c \in active THEN 0 ELSE refs[c]]
  /\ retired' = retired \union active
  /\ active' = {}
  /\ tasks' = {c \in tasks : stage[c] = "queued"}
  /\ phase' = "accepting" /\ lease' = lease + 1
  /\ Wake
  /\ UNCHANGED <<stage, root, holds, restarts>>

\* What chains do by themselves.
WorkStep ==
  \/ \E c \in Work : Request(c) \/ Timer(c) \/ Outside(c) \/ RunScope(c)
                   \/ StartTask(c) \/ LaneTimeout(c)
  \/ \E p, c \in Work : \/ Detach(p, c) \/ Retain(p, c) \/ Capture(p, c)
                        \/ Fork(p, c) \/ Enqueue(p, c)
  \/ \E c \in Successor : PreparedRestart(c)
  \/ \E c \in Work \union Successor : BeginSignal(c)
  \/ \E c \in Chain : Finish(c) \/ Try(c)
  \/ ClearSignal
=============================================================================
