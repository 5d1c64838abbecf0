----------------------------- MODULE Suspension -----------------------------
(***************************************************************************)
(* Suspension of the gateway by its host: the coordinator                  *)
(* (infra/gateway-suspend-coordinator.ts) and the admission it fences      *)
(* (WorkAdmission).  A host prepares, asks how far the drain is, renews,   *)
(* and resumes; the lease expires by itself; the cron scheduler is paused  *)
(* while it is held, and may fail to come back; a restart supersedes it.   *)
(*                                                                         *)
(* Two clocks can end a lease: the timer (setTimeout) and the wall clock   *)
(* that each call compares with expiresAtMs.  Nothing relates them, so     *)
(* they are two flags.  The coordinator runs without an await: each call   *)
(* is one step.                                                            *)
(***************************************************************************)
EXTENDS WorkAdmission

CONSTANTS
  Ticket,    \* the request ids hosts use
  Drains,    \* those that ask for a drain
  MaxCalls,  \* prepare and renew calls of the hosts (bound)
  MaxFaults  \* failures of resumeScheduling() (bound)

ASSUME HostAssumption ==
  Drains \subseteq Ticket /\ None \notin Ticket /\ MaxCalls \in Nat /\ MaxFaults \in Nat

VARIABLES
  kind,    \* the coordinator's entry: none, held or recovering
  mine,    \* the generation of its lease, which also is its suspensionId
  owner,   \* the request that holds it
  ready,   \* phase.status of a held entry
  due,     \* the entry's timer has fired into the queue
  stale,   \* a callback is queued whose timer was re-armed or cleared since
  lapsed,  \* the wall clock has passed expiresAtMs
  paused,  \* the scheduler is paused
  calls, faults

entry == <<kind, mine, owner, ready>>
clocks == <<due, stale, lapsed>>
host == <<entry, clocks, paused, calls, faults>>
vars == <<chains, gate, host>>

TypeOK ==
  /\ WorkTypeOK
  /\ kind \in {"none", "held", "recovering"}
  /\ mine \in Nat
  /\ owner \in Ticket \union {None}
  /\ ready \in BOOLEAN /\ paused \in BOOLEAN
  /\ due \in BOOLEAN /\ stale \in BOOLEAN /\ lapsed \in BOOLEAN
  /\ calls \in 0 .. MaxCalls /\ faults \in 0 .. MaxFaults

Init ==
  /\ WorkInit
  /\ kind = "none" /\ mine = 0 /\ owner = None /\ ready = FALSE
  /\ due = FALSE /\ stale = FALSE /\ lapsed = FALSE
  /\ paused = FALSE /\ calls = 0 /\ faults = 0

-----------------------------------------------------------------------------
(* The entry, its timer and the scheduler. *)

\* createGatewayActiveWorkSnapshot(): roots, and what the lanes count.  A
\* request that is a root itself does not count itself.
Idle(c) == active \subseteq {c} /\ tasks = {}

\* clearEntryTimer(), scheduleEntry(): of the timer's callback, q says whether it
\* is queued and left there.
Rearm(q) == due' = FALSE /\ stale' = (stale \/ q) /\ lapsed' = FALSE

Drop(q) == kind' = "none" /\ owner' = None /\ ready' = FALSE /\ Rearm(q) /\ UNCHANGED mine

\* resumeScheduling() throws, or it does not.
Fault == faults < MaxFaults /\ faults' = faults + 1
Throws == Fault /\ UNCHANGED paused
Resumes == paused' = FALSE /\ UNCHANGED faults

\* transition() to "accepting", by the lease of the entry.
Reopen == Transition(mine, {"preparing", "draining", "prepared"}, "accepting")

\* Faulty variant: admission is reopened before the scheduler is back.
RecoverOpen(q) ==
  /\ kind' = "recovering" /\ owner' = None /\ ready' = FALSE
  /\ Rearm(q)
  /\ Reopen
  /\ UNCHANGED <<mine, lease>>
\* enterSchedulerRecovery(): the fence stays closed, a retry is scheduled.
Recover(q) ==
  /\ kind' = "recovering" /\ owner' = None /\ ready' = FALSE
  /\ Rearm(q)
  /\ UNCHANGED <<mine, phase, parked, lease>>

\* resumeAndReopen()
Lift(q) ==
  \/ Throws /\ Recover(q)
  \/ Resumes /\ Drop(q) /\ Reopen /\ UNCHANGED lease

\* The rest of an action that is about the entry only.
NoWork == UNCHANGED <<chains, draining, signal, restarts>>

-----------------------------------------------------------------------------
(* Prepare. *)

\* A held entry that the wall clock has outrun is lifted first.
Lapsed == kind = "held" /\ lapsed

\* The lease is taken: at once if the process is idle, as a drain otherwise.
Hold(t, idle) ==
  /\ BeginSuspend(IF idle THEN "prepared" ELSE "draining")
  /\ kind' = "held" /\ mine' = lease + 1 /\ owner' = t /\ ready' = idle
  /\ paused' = TRUE
  /\ Rearm(due)
  /\ UNCHANGED faults

\* The preparation is undone: the scheduler comes back, or recovery begins.
GiveUp ==
  \/ /\ Resumes
     /\ BeginSuspend("accepting")
     /\ IF kind = "none" THEN UNCHANGED <<entry, clocks>> ELSE Drop(due)
  \/ /\ Fault /\ paused' = TRUE
     /\ BeginSuspend("preparing")
     /\ kind' = "recovering" /\ mine' = lease + 1 /\ owner' = None /\ ready' = FALSE
     /\ Rearm(due)

\* Without a drain work that is found ends the preparation, and so does a step
\* of it that throws once the scheduler is paused: inspecting the work does, when
\* one of its counters does.  pauseScheduling() sets a flag and cannot throw.
PrepareFresh(t, c) ==
  \/ (Idle(c) \/ t \in Drains) /\ Hold(t, Idle(c))
  \/ GiveUp

\* A prepare that is admitted as a root, which it keeps until it has answered.
Prepare(t, c) ==
  /\ Open /\ calls < MaxCalls
  /\ Arrives(c, "running")
  /\ OwnRoot(c)
  /\ PrepareFresh(t, c)
  /\ calls' = calls + 1
  /\ UNCHANGED <<retired, tasks, parked, draining, signal, restarts>>

\* A prepare that comes while a lease is held and finds it outrun.  It is no
\* root, for admission was closed when it came.  The fence of a signal keeps
\* it from taking a lease of its own.
PrepareLapsed(t) ==
  /\ Lapsed /\ calls < MaxCalls
  /\ \/ Throws /\ Recover(due)
     \/ signal /\ Resumes /\ Drop(due) /\ Reopen /\ UNCHANGED lease
     \/ ~signal /\ PrepareFresh(t, None) /\ Wake
  /\ calls' = calls + 1
  /\ NoWork

\* refreshHeldSuspension(): an idle drain becomes a ready lease.
Refresh ==
  IF kind = "held" /\ ~ready /\ Idle(None)
    THEN /\ ready' = TRUE
         /\ Transition(mine, {"draining"}, "prepared")
    ELSE UNCHANGED <<ready, phase, parked>>

\* The same request prepares again: renewHeldSuspension().
Renew(t) ==
  /\ kind = "held" /\ ~lapsed /\ owner = t /\ calls < MaxCalls
  /\ Rearm(due)
  /\ Refresh
  /\ calls' = calls + 1
  /\ UNCHANGED <<kind, mine, owner, lease, paused, faults>>
  /\ NoWork

-----------------------------------------------------------------------------
(* The other calls, the timer and the restart. *)

\* getGatewaySuspendStatus(), asked with the id it was given.
Status ==
  /\ kind = "held"
  /\ IF lapsed THEN Lift(due)
     ELSE Refresh /\ UNCHANGED <<kind, mine, owner, clocks, lease, paused, faults>>
  /\ UNCHANGED calls
  /\ NoWork

\* resumeGatewaySuspend(), by the id; any call lifts a lease that has lapsed.
Resume(id) ==
  /\ kind = "held"
  /\ lapsed \/ id = mine
  /\ Lift(due)
  /\ UNCHANGED calls
  /\ NoWork

TimerDue ==
  /\ kind # "none" /\ ~due
  /\ due' = TRUE
  /\ UNCHANGED <<entry, stale, lapsed, paused, calls, faults>>
  /\ UNCHANGED <<chains, gate>>

ClockPasses ==
  /\ kind = "held" /\ ~lapsed
  /\ lapsed' = TRUE
  /\ UNCHANGED <<entry, due, stale, paused, calls, faults>>
  /\ UNCHANGED <<chains, gate>>

\* The callback of the entry's timer: it expires, or recovery is tried again.
Fire ==
  /\ kind # "none" /\ due
  /\ Lift(FALSE)
  /\ UNCHANGED calls
  /\ NoWork

\* Faulty variant: timerGeneration is not compared.
FireStaleAnyway ==
  /\ stale /\ kind # "none"
  /\ Resumes /\ kind' = "none" /\ owner' = None /\ ready' = FALSE
  /\ due' = FALSE /\ stale' = FALSE /\ lapsed' = FALSE
  /\ Reopen
  /\ UNCHANGED <<mine, lease, calls>>
  /\ NoWork
\* A callback that was queued before its timer was cleared finds another
\* timerGeneration, and does nothing.
FireStale ==
  /\ stale
  /\ stale' = FALSE
  /\ UNCHANGED <<entry, due, lapsed, paused, calls, faults>>
  /\ UNCHANGED <<chains, gate>>

\* Faulty variant: the coordinator is not told that its lease is gone.
InvalidatedSilently == UNCHANGED <<entry, clocks>>
\* The callback of the invalidated lease; the scheduler stays paused.
Invalidated == IF phase = "accepting" THEN UNCHANGED <<entry, clocks>> ELSE Drop(due)

\* markGatewayRestartDraining() and the callback it runs.
Drain == MarkDraining /\ Invalidated /\ UNCHANGED <<paused, calls, faults>>

\* The restart in process: resetGatewaySuspendCoordinator(), resetAllLanes(),
\* and a scheduler made anew.
Restart ==
  /\ Reset
  /\ Drop(due)
  /\ paused' = FALSE
  /\ UNCHANGED <<calls, faults>>

Ask ==
  \/ \E t \in Ticket : (\E c \in Asker : Prepare(t, c)) \/ PrepareLapsed(t) \/ Renew(t)
  \/ Status
  \/ \E id \in 1 .. lease : Resume(id)

Next ==
  \/ WorkStep /\ UNCHANGED host
  \/ Ask
  \/ TimerDue \/ ClockPasses \/ Fire \/ FireStale
  \/ Drain \/ Restart

Spec == Init /\ [][Next]_vars

\* Fairness: a woken waiter runs (Node's microtasks); timers fire; a signal that
\* the fence is closed for is rejected if no drain takes over.  Not assumed: that
\* work ends, that hosts resume, that restarts happen or come to an end.
FairSpec ==
  /\ Spec
  /\ \A c \in Chain : WF_vars(Try(c) /\ UNCHANGED host)
  /\ WF_vars(TimerDue) /\ WF_vars(Fire)
  /\ WF_vars(ClearSignal /\ UNCHANGED host)

-----------------------------------------------------------------------------
(* Properties. *)

\* A root is counted as long as someone holds a handle on it, no longer, and no
\* handle counts twice: not one that is released late, after a restart gave the
\* root up, nor one of work that outlives the handler that began it.
HandlesAreCounted ==
  /\ \A r \in Chain : refs[r] = Cardinality({c \in holds : root[c] = r /\ r \notin retired})
  /\ active = {r \in Chain : refs[r] > 0}

\* What a host is told when its lease is ready, and may freeze the process on:
\* no root and no task is counted any more, and none comes in, but the request
\* that asked and the one targeted restart.  Uncounted chains (a forked promise,
\* the body of a task that timed out) may run on.  docs/gateway/external-apps.md:76.
PreparedIsQuiet ==
  phase = "prepared" => active \subseteq Control /\ tasks = {}

\* The scheduler is paused as long as admission is suspended: it is back before
\* admission reopens, also when bringing it back failed at first, and no late
\* retry brings it back under a newer lease.
SchedulerFollowsFence == draining \/ (paused <=> phase # "accepting")

\* The coordinator's entry and the admission it fences tell the same story, so
\* no host is told "ready" of a lease that is gone, and no fence is left without
\* the entry whose timer will lift it.
CoordinatorAgrees ==
  /\ kind = "none" <=> phase = "accepting"
  /\ kind # "none" => mine = lease
  /\ kind = "held" => phase = IF ready THEN "prepared" ELSE "draining"

\* A lease ends because it ran out by one of the two clocks, because its host
\* resumed, or because of a restart; a callback left over from before a renewal
\* does not end it.
HeldUntilExpiry ==
  [][kind = "held" /\ kind' # "held" => due \/ lapsed \/ draining' \/ Resume(mine)]_vars

\* Work that waits for admission is admitted or refused, however the suspensions,
\* signals and restarts it waits for end: no reopening forgets to wake it.
EveryWaiterIsAnswered == \A c \in Work : stage[c] = "waiting" ~> stage[c] # "waiting"
=============================================================================
