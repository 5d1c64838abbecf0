-------------------------- MODULE SuspensionProofs --------------------------
(***************************************************************************)
(* Proofs about Suspension, for any finite set of chains, any tickets and  *)
(* any bounds: type correctness, the counting of handles, the quiet of a   *)
(* prepared process, and the agreement of fence, lease and scheduler.      *)
(***************************************************************************)
EXTENDS Suspension, FiniteSetTheorems, TLAPS

\* Chains that have been admitted, if only once.
Admitted == {c \in Chain : stage[c] \in {"running", "emitted", "done"}}

ChainsType ==
  /\ stage \in [Chain -> Stage]
  /\ root \in [Chain -> Chain \union {None}]
  /\ refs \in [Chain -> Nat]
  /\ holds \subseteq Chain /\ active \subseteq Chain /\ retired \subseteq Chain

\* Roots are named after chains that were admitted, and handles are held by
\* chains that run.
Rooted ==
  /\ \A c \in Chain : root[c] # None => root[c] \in Admitted
  /\ retired \subseteq Admitted
  /\ \A c \in holds : Running(c)

\* Whom the references of root r are counted for.
HoldersOf(r) == {c \in holds : root[c] = r /\ r \notin retired}

Handles == ChainsType /\ Rooted /\ HandlesAreCounted

\* Ordinary work never gets into a request of the host.
Apart == \A c \in Work : root[c] # None => root[c] \in Work

Quiet == tasks \subseteq Work /\ Apart /\ PreparedIsQuiet

\* What is true or false, and what is not: the provers do better with each alone.
HostFlags ==
  /\ ready \in BOOLEAN /\ paused \in BOOLEAN
  /\ due \in BOOLEAN /\ stale \in BOOLEAN /\ lapsed \in BOOLEAN

Flags == draining \in BOOLEAN /\ signal \in BOOLEAN /\ HostFlags

HostType ==
  /\ parked \subseteq Chain
  /\ phase \in {"accepting", "preparing", "draining", "prepared"}
  /\ lease \in Nat /\ restarts \in 0 .. MaxRestarts
  /\ kind \in {"none", "held", "recovering"}
  /\ mine \in Nat
  /\ owner \in Ticket \union {None}
  /\ calls \in 0 .. MaxCalls /\ faults \in 0 .. MaxFaults

\* The drain has superseded every suspension, and none begins behind it.
DrainSupersedes == draining => phase = "accepting"

Agreement == HostType /\ DrainSupersedes /\ SchedulerFollowsFence /\ CoordinatorAgrees

IInv == Handles /\ Quiet /\ Flags /\ Agreement

-----------------------------------------------------------------------------
(* Handles. *)

LEMMA HoldersFinite ==
  ASSUME Handles, NEW r \in Chain
  PROVE  IsFiniteSet(HoldersOf(r)) /\ HoldersOf(r) \subseteq Chain
<1>1. HoldersOf(r) \subseteq Chain
  BY DEF Handles, ChainsType, HoldersOf
<1> QED
  BY <1>1, ChainAssumption, FS_Subset

\* HandlesAreCounted in terms of the holders.
LEMMA Counting ==
  HandlesAreCounted <=>
    /\ \A r \in Chain : refs[r] = Cardinality(HoldersOf(r))
    /\ active = {r \in Chain : refs[r] > 0}
BY DEF HandlesAreCounted, HoldersOf

\* A root with a reference was not given up by a restart.
LEMMA ActiveNotRetired == Handles => active \intersect retired = {}
<1> SUFFICES ASSUME Handles, NEW r \in active, r \in retired PROVE FALSE
  OBVIOUS
<1>1. r \in Chain /\ refs[r] > 0 /\ refs[r] = Cardinality(HoldersOf(r))
  BY Counting DEF Handles
<1>2. HoldersOf(r) = {}
  BY DEF HoldersOf
<1> QED
  BY <1>1, <1>2, FS_EmptySet

\* A chain moves on: who was admitted once stays so.
LEMMA AdmittedGrows ==
  ASSUME ChainsType, NEW c \in Chain, NEW s \in Stage,
         c \in Admitted => s \in {"running", "emitted", "done"},
         stage' = [stage EXCEPT ![c] = s]
  PROVE  /\ stage' \in [Chain -> Stage]
         /\ Admitted \subseteq Admitted'
         /\ s \in {"running", "emitted", "done"} => c \in Admitted'
         /\ \A d \in Chain \ {c} : Running(d)' = Running(d)
BY DEF ChainsType, Admitted, Running

\* A new root has one reference, that of the chain it was created for.
LEMMA OwnRootKeeps ==
  ASSUME Handles, NEW c \in Chain, c \notin Admitted,
         stage' = [stage EXCEPT ![c] = "running"], OwnRoot(c), UNCHANGED retired
  PROVE  Handles'
<1> USE DEF Handles
<1>1. /\ root' = [root EXCEPT ![c] = c] /\ refs' = [refs EXCEPT ![c] = 1]
      /\ active' = active \union {c} /\ holds' = holds \union {c}
  BY DEF OwnRoot
<1>2. c \notin holds /\ c \notin retired /\ \A d \in Chain : root[d] # c
  BY ChainAssumption DEF Rooted, Admitted, Running, ChainsType
<1>3. stage' \in [Chain -> Stage] /\ Admitted \subseteq Admitted' /\ c \in Admitted'
  BY AdmittedGrows DEF Stage
<1>4. ChainsType'
  BY <1>1, <1>3 DEF ChainsType
<1>5. Rooted'
  <2>1. \A d \in holds' : Running(d)'
    BY <1>1, AdmittedGrows DEF Rooted, Running, ChainsType, Stage
  <2> QED
    BY <1>1, <1>3, <2>1 DEF Rooted, ChainsType
<1>6. HoldersOf(c)' = {c}
  BY <1>1, <1>2 DEF HoldersOf, ChainsType
<1>7. \A r \in Chain \ {c} : HoldersOf(r)' = HoldersOf(r)
  BY <1>1, <1>2 DEF HoldersOf, ChainsType
<1>8. \A r \in Chain : refs'[r] = Cardinality(HoldersOf(r)')
  BY <1>1, <1>6, <1>7, Counting, FS_Singleton DEF ChainsType
<1>9. active' = {r \in Chain : refs'[r] > 0}
  BY <1>1, Counting DEF ChainsType
<1>10. HandlesAreCounted'
  BY <1>8, <1>9 DEF HandlesAreCounted, HoldersOf
<1> QED
  BY <1>4, <1>5, <1>10

\* A further handle on a live root is one more reference of it.
LEMMA ShareRootKeeps ==
  ASSUME Handles, NEW c \in Chain, c \notin Admitted, NEW r \in active,
         stage' = [stage EXCEPT ![c] = "running"], ShareRoot(c, r), UNCHANGED retired
  PROVE  Handles'
<1> USE DEF Handles
<1>1. /\ root' = [root EXCEPT ![c] = r] /\ refs' = [refs EXCEPT ![r] = refs[r] + 1]
      /\ active' = active /\ holds' = holds \union {c}
  BY DEF ShareRoot
<1>2. r \in Chain /\ r \notin retired /\ refs[r] > 0
  BY ActiveNotRetired, Counting DEF ChainsType
<1>3. c \notin holds
  BY DEF Rooted, Admitted, Running, ChainsType
<1>4. r \in Admitted
  <2>1. HoldersOf(r) # {}
    BY <1>2, Counting, FS_EmptySet
  <2> QED
    BY <1>2, <2>1, ChainAssumption DEF HoldersOf, Rooted, ChainsType
<1>5. stage' \in [Chain -> Stage] /\ Admitted \subseteq Admitted'
  BY AdmittedGrows DEF Stage
<1>6. ChainsType'
  BY <1>1, <1>2, <1>5 DEF ChainsType
<1>7. Rooted'
  <2>1. \A d \in holds' : Running(d)'
    BY <1>1, AdmittedGrows DEF Rooted, Running, ChainsType, Stage
  <2> QED
    BY <1>1, <1>4, <1>5, <2>1 DEF Rooted, ChainsType
<1>8. HoldersOf(r)' = HoldersOf(r) \union {c} /\ c \notin HoldersOf(r)
  BY <1>1, <1>2, <1>3 DEF HoldersOf, ChainsType
<1>9. \A q \in Chain \ {r} : HoldersOf(q)' = HoldersOf(q)
  BY <1>1, <1>3 DEF HoldersOf, ChainsType
<1>10. Cardinality(HoldersOf(r)') = refs[r] + 1
  BY <1>2, <1>8, HoldersFinite, Counting, FS_AddElement
<1>11. \A q \in Chain : refs'[q] = Cardinality(HoldersOf(q)')
  BY <1>1, <1>2, <1>9, <1>10, Counting DEF ChainsType
<1>12. active' = {q \in Chain : refs'[q] > 0}
  BY <1>1, <1>2, Counting DEF ChainsType
<1>13. HandlesAreCounted'
  BY <1>11, <1>12 DEF HandlesAreCounted, HoldersOf
<1> QED
  BY <1>6, <1>7, <1>13

\* A chain that holds nothing may be in any root, and may move on.
LEMMA InheritKeeps ==
  ASSUME Handles, NEW c \in Chain, c \notin holds, NEW p \in Chain, NEW s \in Stage,
         c \in Admitted => s \in {"running", "emitted", "done"},
         stage' = [stage EXCEPT ![c] = s], Inherit(c, p), UNCHANGED retired
  PROVE  Handles'
<1> USE DEF Handles
<1>1. root' = [root EXCEPT ![c] = root[p]] /\ UNCHANGED <<refs, active, holds>>
  BY DEF Inherit
<1>2. /\ stage' \in [Chain -> Stage] /\ Admitted \subseteq Admitted'
      /\ \A d \in Chain \ {c} : Running(d)' = Running(d)
  BY AdmittedGrows
<1>3. ChainsType'
  BY <1>1, <1>2 DEF ChainsType
<1>4. Rooted'
  BY <1>1, <1>2 DEF Rooted, ChainsType
<1>5. \A r \in Chain : HoldersOf(r)' = HoldersOf(r)
  BY <1>1 DEF HoldersOf, ChainsType
<1>6. HandlesAreCounted'
  BY <1>1, <1>5, Counting DEF HandlesAreCounted, HoldersOf
<1> QED
  BY <1>3, <1>4, <1>6

\* Nor does a step that leaves roots and handles alone, unless a holder ends.
LEMMA SameRootsKeeps ==
  ASSUME Handles, NEW c \in Chain, NEW s \in Stage,
         c \in Admitted => s \in {"running", "emitted", "done"},
         c \in holds => s \in {"running", "emitted"},
         stage' = [stage EXCEPT ![c] = s], SameRoots, UNCHANGED retired
  PROVE  Handles'
<1> USE DEF Handles
<1>1. UNCHANGED <<root, refs, active, holds>>
  BY DEF SameRoots
<1>2. /\ stage' \in [Chain -> Stage] /\ Admitted \subseteq Admitted'
      /\ \A d \in Chain \ {c} : Running(d)' = Running(d)
  BY AdmittedGrows
<1>3. Rooted'
  BY <1>1, <1>2 DEF Rooted, ChainsType, Running
<1> QED
  BY <1>1, <1>2, <1>3 DEF ChainsType, HandlesAreCounted

\* The chain ends, and gives up its handle if it has one.
LEMMA FinishKeeps ==
  ASSUME Handles, NEW c \in Chain, Running(c),
         stage' = [stage EXCEPT ![c] = "done"], Release(c), UNCHANGED retired
  PROVE  Handles'
<1> USE DEF Handles
<1>1. holds' = holds \ {c} /\ UNCHANGED <<root, retired>>
  BY DEF Release
<1>2. /\ stage' \in [Chain -> Stage] /\ Admitted \subseteq Admitted'
      /\ \A d \in Chain \ {c} : Running(d)' = Running(d)
  BY AdmittedGrows DEF Stage
<1>3. Rooted'
  BY <1>1, <1>2 DEF Rooted, ChainsType
<1>4. CASE ~(c \in holds /\ Live(c))
  <2>1. UNCHANGED <<active, refs>>
    BY <1>4 DEF Release
  <2>2. ChainsType'
    BY <1>1, <1>2, <2>1 DEF ChainsType
  <2>3. \A r \in Chain : c \notin HoldersOf(r)
    <3> SUFFICES ASSUME NEW r \in Chain, c \in HoldersOf(r) PROVE FALSE
      OBVIOUS
    <3>1. refs[r] # 0 /\ refs[r] \in Nat
      BY Counting, HoldersFinite, FS_EmptySet DEF ChainsType
    <3>2. r \in active
      BY <3>1, Counting
    <3> QED
      BY <1>4, <3>2 DEF HoldersOf, Live
  <2>4. \A r \in Chain : HoldersOf(r)' = HoldersOf(r)
    BY <1>1, <2>3 DEF HoldersOf
  <2>5. HandlesAreCounted'
    BY <2>1, <2>4, Counting DEF HandlesAreCounted, HoldersOf
  <2> QED
    BY <1>3, <2>2, <2>5
<1>5. CASE c \in holds /\ Live(c)
  <2>0. PICK q : q = root[c]
    OBVIOUS
  <2>1. q \in Chain /\ q \in active /\ q \notin retired /\ refs[q] \in Nat /\ refs[q] > 0
    BY <1>5, <2>0, ActiveNotRetired, Counting DEF ChainsType, Live
  <2>2. /\ refs' = [refs EXCEPT ![q] = refs[q] - 1]
        /\ active' = IF refs[q] = 1 THEN active \ {q} ELSE active
    BY <1>5, <2>0 DEF Release
  <2>3. ChainsType'
    BY <1>1, <1>2, <2>1, <2>2 DEF ChainsType
  <2>4. HoldersOf(q)' = HoldersOf(q) \ {c} /\ c \in HoldersOf(q)
    BY <1>1, <1>5, <2>0, <2>1 DEF HoldersOf
  <2>5. \A r \in Chain \ {q} : HoldersOf(r)' = HoldersOf(r)
    BY <1>1, <2>0 DEF HoldersOf
  <2>6. Cardinality(HoldersOf(q)') = refs[q] - 1
    BY <2>1, <2>4, HoldersFinite, Counting, FS_RemoveElement
  <2>7. \A r \in Chain : refs'[r] = Cardinality(HoldersOf(r)')
    BY <2>1, <2>2, <2>5, <2>6, Counting DEF ChainsType
  <2>8. active' = {r \in Chain : refs'[r] > 0}
    BY <2>1, <2>2, Counting DEF ChainsType
  <2>9. HandlesAreCounted'
    BY <2>7, <2>8 DEF HandlesAreCounted, HoldersOf
  <2> QED
    BY <1>3, <2>3, <2>9
<1> QED
  BY <1>4, <1>5

\* The restart gives all roots up; their handles no longer count.
LEMMA ResetKeeps ==
  ASSUME Handles, Reset
  PROVE  Handles'
<1> USE DEF Handles
<1>1. /\ refs' = [c \in Chain |-> IF c \in active THEN 0 ELSE refs[c]]
      /\ retired' = retired \union active /\ active' = {}
      /\ UNCHANGED <<stage, root, holds>>
  BY DEF Reset
<1>2. ChainsType'
  BY <1>1 DEF ChainsType
<1>3. active \subseteq Admitted
  <2> SUFFICES ASSUME NEW r \in active PROVE r \in Admitted
    OBVIOUS
  <2>1. r \in Chain /\ HoldersOf(r) # {}
    BY Counting, FS_EmptySet DEF ChainsType
  <2> QED
    BY <2>1, ChainAssumption DEF HoldersOf, Rooted, ChainsType
<1>4. Rooted'
  BY <1>1, <1>3 DEF Rooted, Admitted, Running
<1>5. \A r \in Chain : refs[r] = Cardinality(HoldersOf(r)) /\ refs[r] \in Nat
  BY Counting DEF ChainsType
<1>6. \A r \in active : HoldersOf(r)' = {}
  BY <1>1 DEF HoldersOf
<1>7. \A r \in Chain \ active : HoldersOf(r)' = HoldersOf(r)
  BY <1>1 DEF HoldersOf
<1>8. \A r \in Chain : refs'[r] = Cardinality(HoldersOf(r)')
  BY <1>1, <1>5, <1>6, <1>7, FS_EmptySet
<1>9. active' = {r \in Chain : refs'[r] > 0}
  BY <1>1, <1>5, Counting
<1>10. HandlesAreCounted'
  BY <1>8, <1>9 DEF HandlesAreCounted, HoldersOf
<1> QED
  BY <1>2, <1>4, <1>10

\* What the whole system does to the handles, action by action.
LEMMA HandlesStep ==
  ASSUME Handles, Apart, [Next]_vars
  PROVE  Handles'
<1> USE ChainAssumption DEF Handles, Arrives, Control
<1>1. \A c \in Chain : stage[c] \notin {"running", "emitted", "done"} => c \notin Admitted /\ c \notin holds
  BY DEF Admitted, Rooted, Running, ChainsType
<1>2. ASSUME NEW c \in Chain, Request(c) PROVE Handles'
  <2>1. CASE stage' = [stage EXCEPT ![c] = "running"] /\ OwnRoot(c)
    BY <1>1, <1>2, <2>1, OwnRootKeeps DEF Request
  <2>2. CASE stage' = [stage EXCEPT ![c] = "refused"] /\ SameRoots
    BY <1>1, <1>2, <2>2, SameRootsKeeps DEF Request, Stage
  <2> QED
    BY <1>2, <2>1, <2>2 DEF Request
<1>3. ASSUME NEW c \in Chain, PreparedRestart(c) PROVE Handles'
  BY <1>1, <1>3, OwnRootKeeps DEF PreparedRestart
<1>4. ASSUME NEW c \in Chain, Timer(c) \/ Outside(c) PROVE Handles'
  BY <1>1, <1>4, SameRootsKeeps DEF Timer, Outside, Stage
<1>5. ASSUME NEW c \in Chain, Try(c) PROVE Handles'
  <2>1. CASE stage' = [stage EXCEPT ![c] = "refused"] /\ SameRoots
    BY <1>1, <1>5, <2>1, SameRootsKeeps DEF Try, Stage
  <2>2. CASE stage' = [stage EXCEPT ![c] = "running"] /\ OwnRoot(c)
    BY <1>1, <1>5, <2>2, OwnRootKeeps DEF Try
  <2>3. CASE UNCHANGED stage /\ SameRoots
    BY <1>5, <2>3 DEF Try, SameRoots, ChainsType, Rooted, Admitted, Running, HandlesAreCounted
  <2> QED
    BY <1>5, <2>1, <2>2, <2>3 DEF Try
<1>6. ASSUME NEW p \in Chain, NEW c \in Chain, Detach(p, c) PROVE Handles'
  <2>1. CASE Live(p)
    BY <1>1, <1>6, <2>1, OwnRootKeeps DEF Detach
  <2>2. CASE ~Live(p)
    BY <1>1, <1>6, <2>2, SameRootsKeeps DEF Detach, Stage
  <2> QED
    BY <2>1, <2>2
<1>7. ASSUME NEW p \in Chain, NEW c \in Chain, Retain(p, c) PROVE Handles'
  <2>1. root[p] \in active
    BY <1>7 DEF Retain, Live
  <2> QED
    BY <1>1, <1>7, <2>1, ShareRootKeeps DEF Retain
<1>8. ASSUME NEW p \in Chain, NEW c \in Chain, Capture(p, c) \/ Fork(p, c) PROVE Handles'
  BY <1>1, <1>8, InheritKeeps DEF Capture, Fork, Stage
<1>9. ASSUME NEW p \in Chain, NEW c \in Chain, Enqueue(p, c) PROVE Handles'
  <2>1. CASE SubordinateClosed(p)
    BY <1>1, <1>9, <2>1, SameRootsKeeps DEF Enqueue, Stage
  <2>2. CASE ~SubordinateClosed(p)
    BY <1>1, <1>9, <2>2, InheritKeeps DEF Enqueue, Stage
  <2> QED
    BY <2>1, <2>2
<1>10. ASSUME NEW c \in Chain, RunScope(c) PROVE Handles'
  <2>1. CASE Live(c)
    <3>1. root[c] \in active
      BY <2>1 DEF Live
    <3> QED
      BY <1>1, <1>10, <2>1, <3>1, ShareRootKeeps DEF RunScope
  <2>2. CASE ~Live(c)
    BY <1>1, <1>10, <2>2, SameRootsKeeps DEF RunScope, Stage
  <2> QED
    BY <2>1, <2>2
<1>11. ASSUME NEW c \in Chain, StartTask(c) PROVE Handles'
  <2>1. PICK s \in {"waiting", "running"} : stage' = [stage EXCEPT ![c] = s]
    BY <1>11 DEF StartTask
  <2> QED
    BY <1>1, <1>11, <2>1, SameRootsKeeps DEF StartTask, Stage
<1>12. ASSUME NEW c \in Chain, Finish(c) PROVE Handles'
  BY <1>12, FinishKeeps DEF Finish
<1>13. ASSUME NEW c \in Chain, BeginSignal(c) PROVE Handles'
  BY <1>13, SameRootsKeeps DEF BeginSignal, Stage, SameRoots, Admitted
<1>14. ASSUME NEW t \in Ticket, NEW c \in Asker, Prepare(t, c) PROVE Handles'
  BY <1>1, <1>14, OwnRootKeeps DEF Prepare, Chain
<1>15. ASSUME UNCHANGED <<stage, root, holds, refs, active, retired>> PROVE Handles'
  BY <1>15 DEF ChainsType, Rooted, Admitted, Running, HandlesAreCounted
<1>23. ASSUME NEW c \in Chain, LaneTimeout(c) PROVE Handles'
  BY <1>15, <1>23 DEF LaneTimeout, SameRoots
<1>16. CASE ClearSignal \/ Drain \/ Status \/ TimerDue \/ ClockPasses \/ Fire \/ FireStale
  BY <1>15, <1>16 DEF ClearSignal, Drain, MarkDraining, Status, TimerDue, ClockPasses, Fire, FireStale,
    NoWork, chains
<1>17. ASSUME NEW t \in Ticket, PrepareLapsed(t) \/ Renew(t) PROVE Handles'
  BY <1>15, <1>17 DEF PrepareLapsed, Renew, NoWork, chains
<1>18. ASSUME NEW id \in 1 .. lease, Resume(id) PROVE Handles'
  BY <1>15, <1>18 DEF Resume, NoWork, chains
<1>19. CASE Restart
  BY <1>19, ResetKeeps DEF Restart
<1>20. CASE UNCHANGED vars
  BY <1>15, <1>20 DEF vars, chains
<1>21. CASE WorkStep
  BY <1>2, <1>3, <1>4, <1>5, <1>6, <1>7, <1>8, <1>9, <1>10, <1>11, <1>12, <1>13, <1>16, <1>21, <1>23
    DEF WorkStep, Chain
<1>22. CASE Ask
  BY <1>14, <1>16, <1>17, <1>18, <1>22 DEF Ask
<1> QED
  BY <1>16, <1>19, <1>20, <1>21, <1>22 DEF Next

-----------------------------------------------------------------------------
(* Quiet. *)

\* While the process is prepared, ordinary work neither has a live root nor may
\* enqueue: there is none, and what is left of it is in no live root.
LEMMA WorkIsOut ==
  ASSUME Handles, Quiet, phase = "prepared", NEW p \in Work
  PROVE  ~Live(p) /\ SubordinateClosed(p)
<1>1. root[p] \notin active
  <2>1. root[p] = None \/ root[p] \in Work
    BY DEF Quiet, Apart
  <2> QED
    BY <2>1, ChainAssumption DEF Quiet, PreparedIsQuiet, Handles, ChainsType
<1> QED
  BY <1>1 DEF Live, SubordinateClosed

\* A root that work gets is its own, that of other work, or none.
LEMMA ApartStep ==
  ASSUME Handles, Apart, [Next]_vars
  PROVE  Apart'
<1> USE ChainAssumption DEF Handles, ChainsType, Apart, Chain, Control
<1>1. \/ UNCHANGED root
      \/ \E c \in Chain : OwnRoot(c)
      \/ \E c \in Work : ShareRoot(c, root[c])
      \/ \E p, c \in Work : Live(p) /\ ShareRoot(c, root[p])
      \/ \E p, c \in Work : Inherit(c, p)
  <2>1. CASE WorkStep
    BY <2>1 DEF WorkStep, Request, PreparedRestart, Timer, Try, Detach, Retain, Capture, RunScope, Fork,
      Outside, Enqueue, StartTask, LaneTimeout, Finish, Release, SameRoots, BeginSignal, ClearSignal, chains
  <2>2. CASE Ask
    BY <2>2 DEF Ask, Prepare, PrepareLapsed, Renew, Status, Resume, NoWork, chains
  <2>3. CASE ~WorkStep /\ ~Ask
    BY <2>3 DEF Next, TimerDue, ClockPasses, Fire, FireStale, Drain, MarkDraining, Restart, Reset, NoWork,
      chains, vars
  <2> QED
    BY <2>1, <2>2, <2>3
<1>2. CASE \E c \in Chain : OwnRoot(c)
  BY <1>2 DEF OwnRoot
<1>3. CASE \E c \in Work : ShareRoot(c, root[c])
  BY <1>3 DEF ShareRoot
<1>4. CASE \E p, c \in Work : Live(p) /\ ShareRoot(c, root[p])
  BY <1>4 DEF ShareRoot, Live
<1>5. CASE \E p, c \in Work : Inherit(c, p)
  BY <1>5 DEF Inherit
<1> QED
  BY <1>1, <1>2, <1>3, <1>4, <1>5

\* Work begins nothing while the process is prepared.
LEMMA QuietWorkStep ==
  ASSUME Handles, Quiet, WorkStep, phase = "prepared"
  PROVE  active' \subseteq active \union Control /\ tasks' \subseteq tasks
<1> USE ChainAssumption DEF Control, Chain
<1>1. ~Open
  BY DEF Open
<1>2. \A p \in Work : ~Live(p) /\ SubordinateClosed(p)
  BY WorkIsOut
<1>3. ASSUME NEW c \in Chain, Request(c) \/ Timer(c) \/ Outside(c) \/ RunScope(c) \/ StartTask(c)
               \/ LaneTimeout(c), c \in Work
      PROVE  active' \subseteq active \union Control /\ tasks' \subseteq tasks
  BY <1>1, <1>2, <1>3 DEF Request, Timer, Outside, RunScope, StartTask, LaneTimeout, SameRoots, gate
<1>4. ASSUME NEW p \in Work, NEW c \in Work,
             Detach(p, c) \/ Retain(p, c) \/ Capture(p, c) \/ Fork(p, c) \/ Enqueue(p, c)
      PROVE  active' \subseteq active \union Control /\ tasks' \subseteq tasks
  BY <1>2, <1>4 DEF Detach, Retain, Capture, Fork, Enqueue, Inherit, SameRoots
<1>5. ASSUME NEW c \in Successor, PreparedRestart(c)
      PROVE  active' \subseteq active \union Control /\ tasks' \subseteq tasks
  BY <1>5 DEF PreparedRestart, OwnRoot
<1>6. ASSUME NEW c \in Chain, Finish(c) \/ Try(c) \/ BeginSignal(c)
      PROVE  active' \subseteq active \union Control /\ tasks' \subseteq tasks
  BY <1>1, <1>6 DEF Finish, Release, Try, SameRoots, BeginSignal
<1>7. CASE ClearSignal
  BY <1>7 DEF ClearSignal, chains
<1> QED
  BY <1>3, <1>4, <1>5, <1>6, <1>7 DEF WorkStep

\* The coordinator lets nobody in, and is told "prepared" by an idle process only.
LEMMA QuietHostStep ==
  ASSUME \/ Status \/ TimerDue \/ ClockPasses \/ Fire \/ FireStale
         \/ \E t \in Ticket : PrepareLapsed(t) \/ Renew(t)
         \/ \E id \in 1 .. lease : Resume(id)
  PROVE  /\ UNCHANGED <<active, tasks>>
         /\ phase' = "prepared" => phase = "prepared" \/ Idle(None)
<1> USE DEF NoWork, chains, gate
<1>2. ASSUME Lift(due) \/ Lift(FALSE) PROVE phase' = "prepared" => phase = "prepared"
  BY <1>2 DEF Lift, Recover, Reopen, Transition
<1>3. ASSUME Refresh PROVE phase' = "prepared" => phase = "prepared" \/ Idle(None)
  BY <1>3 DEF Refresh, Transition
<1>4. ASSUME NEW t \in Ticket, PrepareLapsed(t)
      PROVE  phase' = "prepared" => phase = "prepared" \/ Idle(None)
  BY <1>4 DEF PrepareLapsed, Recover, Reopen, Transition, PrepareFresh, Hold, GiveUp, BeginSuspend
<1>5. ASSUME NEW t \in Ticket, PrepareLapsed(t) PROVE UNCHANGED <<active, tasks>>
  BY <1>5 DEF PrepareLapsed
<1> QED
  BY <1>2, <1>3, <1>4, <1>5 DEF Status, TimerDue, ClockPasses, Fire, FireStale, Renew, Resume

\* No step breaks the quiet of a prepared process.
LEMMA QuietStep ==
  ASSUME Handles, Quiet, [Next]_vars
  PROVE  Quiet'
<1> USE ChainAssumption DEF Control, Chain
<1>1. Apart'
  BY ApartStep DEF Quiet
<1>2. CASE WorkStep /\ UNCHANGED host
  <2>1. phase' = phase
    BY <1>2 DEF WorkStep, Request, PreparedRestart, Timer, Try, Detach, Retain, Capture, RunScope, Fork,
      Outside, Enqueue, StartTask, LaneTimeout, Finish, BeginSignal, ClearSignal, gate
  <2>2. tasks' \subseteq Work
    BY <1>2 DEF Quiet, WorkStep, Request, PreparedRestart, Timer, Try, Detach, Retain, Capture, RunScope,
      Fork, Outside, Enqueue, StartTask, LaneTimeout, Finish, BeginSignal, ClearSignal, chains
  <2>3. PreparedIsQuiet'
    BY <1>2, <2>1, QuietWorkStep DEF Quiet, PreparedIsQuiet
  <2> QED
    BY <1>1, <2>2, <2>3 DEF Quiet
<1>3. ASSUME NEW t \in Ticket, NEW c \in Asker, Prepare(t, c) PROVE Quiet'
  <2>1. active' = active \union {c} /\ tasks' = tasks
    BY <1>3 DEF Prepare, OwnRoot
  <2>2. phase' = "prepared" => Idle(c)
    BY <1>3 DEF Prepare, PrepareFresh, Hold, GiveUp, BeginSuspend
  <2>3. PreparedIsQuiet'
    BY <2>1, <2>2 DEF PreparedIsQuiet, Idle
  <2> QED
    BY <1>1, <2>1, <2>3 DEF Quiet
<1>4. CASE \/ Status \/ TimerDue \/ ClockPasses \/ Fire \/ FireStale
           \/ \E t \in Ticket : PrepareLapsed(t) \/ Renew(t)
           \/ \E id \in 1 .. lease : Resume(id)
  <2>1. /\ UNCHANGED <<active, tasks>>
        /\ phase' = "prepared" => phase = "prepared" \/ Idle(None)
    BY <1>4, QuietHostStep
  <2>2. PreparedIsQuiet'
    BY <2>1 DEF Quiet, PreparedIsQuiet, Idle, Handles, ChainsType
  <2> QED
    BY <1>1, <2>1, <2>2 DEF Quiet
<1>5. CASE Drain
  BY <1>1, <1>5 DEF Drain, MarkDraining, Invalidate, Quiet, PreparedIsQuiet, chains
<1>6. CASE Restart
  BY <1>1, <1>6 DEF Restart, Reset, Quiet, PreparedIsQuiet
<1>7. CASE UNCHANGED vars
  BY <1>1, <1>7 DEF vars, chains, gate, Quiet, PreparedIsQuiet
<1> QED
  BY <1>2, <1>3, <1>4, <1>5, <1>6, <1>7 DEF Next, Ask

-----------------------------------------------------------------------------
(* Fence, lease and scheduler. *)

LEMMA RearmFlags ==
  ASSUME NEW q, Rearm(q)
  PROVE  due' \in BOOLEAN /\ stale' \in BOOLEAN /\ lapsed' \in BOOLEAN
<1>1. due' \in BOOLEAN /\ lapsed' \in BOOLEAN
  BY Zenon DEF Rearm
<1>2. stale' \in BOOLEAN
  BY Zenon DEF Rearm
<1> QED
  BY <1>1, <1>2

LEMMA LiftFlags ==
  ASSUME HostFlags, NEW q, Lift(q)
  PROVE  HostFlags'
<1>1. Rearm(q) /\ ready' = FALSE
  BY Zenon DEF Lift, Recover, Drop
<1>2. paused' = paused \/ paused' = FALSE
  BY Zenon DEF Lift, Throws, Resumes
<1>3. paused' \in BOOLEAN
  BY Zenon, <1>2 DEF HostFlags
<1> QED
  BY Zenon, <1>1, <1>3, RearmFlags DEF HostFlags

LEMMA PrepareFlags ==
  ASSUME HostFlags, NEW t, NEW c, PrepareFresh(t, c)
  PROVE  HostFlags'
<1>1. CASE Hold(t, Idle(c))
  <2>1. ready' \in BOOLEAN
    BY Zenon, <1>1 DEF Hold, Idle
  <2> QED
    BY Zenon, <1>1, <2>1, RearmFlags DEF Hold, HostFlags
<1>2. CASE GiveUp
  <2>1. paused' \in BOOLEAN
    BY Zenon, <1>2 DEF GiveUp, Resumes
  <2>2. CASE UNCHANGED <<entry, clocks>>
    BY Zenon, <2>1, <2>2 DEF entry, clocks, HostFlags
  <2>3. CASE ready' = FALSE /\ Rearm(due)
    BY Zenon, <2>1, <2>3, RearmFlags DEF HostFlags
  <2> QED
    BY Zenon, <1>2, <2>2, <2>3 DEF GiveUp, Drop
<1> QED
  BY Zenon, <1>1, <1>2 DEF PrepareFresh

LEMMA RefreshFlags ==
  ASSUME HostFlags, Refresh, UNCHANGED paused, (UNCHANGED clocks) \/ Rearm(due)
  PROVE  HostFlags'
<1>1. ready' = ready \/ ready' = TRUE
  BY Zenon DEF Refresh
<1>2. ready' \in BOOLEAN /\ paused' \in BOOLEAN
  BY Zenon, <1>1 DEF HostFlags
<1>3. due' \in BOOLEAN /\ stale' \in BOOLEAN /\ lapsed' \in BOOLEAN
  BY Zenon, RearmFlags DEF HostFlags, clocks
<1> QED
  BY Zenon, <1>2, <1>3 DEF HostFlags

LEMMA FlagsStep ==
  ASSUME Flags, [Next]_vars
  PROVE  Flags'
<1>1. CASE WorkStep /\ UNCHANGED host
  <2>1. draining' = draining /\ (signal' = signal \/ signal' = TRUE \/ signal' = FALSE)
    BY <1>1 DEF WorkStep, Request, PreparedRestart, Timer, Try, Detach, Retain, Capture, RunScope, Fork,
      Outside, Enqueue, StartTask, LaneTimeout, Finish, BeginSignal, ClearSignal, gate
  <2> QED
    BY Zenon, <1>1, <2>1 DEF Flags, HostFlags, host, entry, clocks
<1>2. CASE Ask
  <2>1. draining' = draining /\ signal' = signal
    BY Zenon, <1>2 DEF Ask, Prepare, PrepareLapsed, Renew, Status, Resume, NoWork
  <2>2. ASSUME NEW t \in Ticket, NEW c \in Asker, Prepare(t, c) PROVE HostFlags'
    BY Zenon, <2>2, PrepareFlags DEF Prepare, Flags
  <2>3. ASSUME NEW t \in Ticket, PrepareLapsed(t) PROVE HostFlags'
    <3>1. Lift(due) \/ PrepareFresh(t, None)
      BY Zenon, <2>3 DEF PrepareLapsed, Lift
    <3> QED
      BY Zenon, <3>1, LiftFlags, PrepareFlags DEF Flags
  <2>4. ASSUME NEW t \in Ticket, Renew(t) PROVE HostFlags'
    BY Zenon, <2>4, RefreshFlags DEF Renew, Flags
  <2>5. ASSUME Status PROVE HostFlags'
    <3>1. Lift(due) \/ (Refresh /\ UNCHANGED <<clocks, paused>>)
      BY Zenon, <2>5 DEF Status
    <3> QED
      BY <3>1, LiftFlags, RefreshFlags DEF Flags
  <2>6. ASSUME NEW id \in 1 .. lease, Resume(id) PROVE HostFlags'
    BY Zenon, <2>6, LiftFlags DEF Resume, Flags
  <2> QED
    BY Zenon, <1>2, <2>1, <2>2, <2>3, <2>4, <2>5, <2>6 DEF Ask, Flags
<1>3. CASE TimerDue \/ ClockPasses \/ FireStale \/ UNCHANGED vars
  BY Zenon, <1>3 DEF TimerDue, ClockPasses, FireStale, vars, host, entry, clocks, gate, Flags, HostFlags
<1>4. CASE Fire
  BY Zenon, <1>4, LiftFlags DEF Fire, NoWork, Flags
<1>5. CASE Drain
  <2>1. draining' = TRUE /\ signal' = FALSE /\ paused' = paused
    BY Zenon, <1>5 DEF Drain, MarkDraining
  <2>2. (UNCHANGED <<entry, clocks>>) \/ (ready' = FALSE /\ Rearm(due))
    BY Zenon, <1>5 DEF Drain, Invalidated, Drop
  <2> QED
    BY Zenon, <2>1, <2>2, RearmFlags DEF Flags, HostFlags, entry, clocks
<1>6. CASE Restart
  BY Zenon, <1>6, RearmFlags DEF Restart, Reset, Drop, Flags, HostFlags
<1> QED
  BY Zenon, <1>1, <1>2, <1>3, <1>4, <1>5, <1>6 DEF Next

\* Lifting a lease leaves the entry in recovery, with the fence closed, or none
\* and admission open.
LEMMA LiftAgrees ==
  ASSUME Agreement, kind # "none", NEW q, Lift(q), UNCHANGED calls,
         UNCHANGED <<draining, signal, restarts>>
  PROVE  Agreement'
<1> USE HostAssumption DEF Agreement, HostType, DrainSupersedes, SchedulerFollowsFence,
      CoordinatorAgrees
<1>1. phase # "accepting" /\ mine = lease /\ paused
  OBVIOUS
<1>2. CASE Throws /\ Recover(q)
  BY <1>1, <1>2 DEF Throws, Fault, Recover
<1>3. CASE Resumes /\ Drop(q) /\ Reopen /\ UNCHANGED lease
  BY <1>1, <1>3 DEF Resumes, Drop, Reopen, Transition, Wake
<1> QED
  BY <1>2, <1>3 DEF Lift

\* A prepare that may take a lease ends with one, with none, or in recovery.
LEMMA PrepareAgrees ==
  ASSUME Agreement, NEW t \in Ticket, NEW c, PrepareFresh(t, c), calls' \in 0 .. MaxCalls,
         ~draining, kind = "recovering" => FALSE, parked' \subseteq Chain,
         UNCHANGED <<draining, signal, restarts>>
  PROVE  Agreement'
<1> USE HostAssumption DEF Agreement, HostType, DrainSupersedes, SchedulerFollowsFence,
      CoordinatorAgrees, BeginSuspend
<1>2. CASE Hold(t, Idle(c))
  BY <1>2 DEF Hold
<1>3. CASE GiveUp
  BY <1>3 DEF GiveUp, Resumes, Fault, Drop, entry, clocks
<1> QED
  BY <1>2, <1>3 DEF PrepareFresh

\* A drain that has become idle is a ready lease on both sides.
LEMMA RefreshAgrees ==
  ASSUME Agreement, Refresh, calls' \in 0 .. MaxCalls,
         UNCHANGED <<kind, mine, owner, lease, paused, faults, draining, signal, restarts>>
  PROVE  Agreement'
BY DEF Agreement, HostType, DrainSupersedes, SchedulerFollowsFence, CoordinatorAgrees, Refresh, Transition

\* Every step keeps fence, entry and scheduler together.
LEMMA AgreementStep ==
  ASSUME ChainsType, Agreement, [Next]_vars
  PROVE  Agreement'
<1> USE ChainAssumption, HostAssumption DEF Agreement
<1>1. CASE WorkStep /\ UNCHANGED host
  <2>1. UNCHANGED <<phase, lease, draining, restarts>> /\ parked' \subseteq Chain
    BY <1>1 DEF HostType, WorkStep, Request, PreparedRestart, Timer, Try, Detach, Retain, Capture, RunScope,
      Fork, Outside, Enqueue, StartTask, LaneTimeout, Finish, BeginSignal, ClearSignal, Wake, gate, Chain, Control
  <2> QED
    BY <1>1, <2>1 DEF HostType, DrainSupersedes, SchedulerFollowsFence, CoordinatorAgrees, host, entry, clocks
<1>2. ASSUME NEW t \in Ticket, NEW c \in Asker, Prepare(t, c) PROVE Agreement'
  <2>1. kind = "none" /\ ~draining
    BY <1>2 DEF Prepare, Open, CoordinatorAgrees
  <2>2. calls' \in 0 .. MaxCalls
    BY <1>2 DEF Prepare, HostType
  <2> QED
    BY <1>2, <2>1, <2>2, PrepareAgrees DEF Prepare, HostType
<1>3. ASSUME NEW t \in Ticket, PrepareLapsed(t) PROVE Agreement'
  <2>1. kind = "held" /\ ~draining /\ phase # "accepting" /\ mine = lease /\ paused
    BY <1>3 DEF PrepareLapsed, Lapsed, CoordinatorAgrees, DrainSupersedes, SchedulerFollowsFence
  <2>2. calls' \in 0 .. MaxCalls /\ UNCHANGED <<draining, signal, restarts>>
    BY <1>3 DEF PrepareLapsed, HostType, NoWork
  <2>3. CASE Throws /\ Recover(due)
    BY <2>1, <2>2, <2>3 DEF Throws, Fault, Recover, HostType, DrainSupersedes,
      SchedulerFollowsFence, CoordinatorAgrees
  <2>4. CASE Resumes /\ Drop(due) /\ Reopen /\ UNCHANGED lease
    BY <2>1, <2>2, <2>4 DEF Resumes, Drop, Reopen, Transition, Wake, HostType, DrainSupersedes,
      SchedulerFollowsFence, CoordinatorAgrees
  <2>5. CASE PrepareFresh(t, None) /\ Wake
    BY <2>1, <2>2, <2>5, PrepareAgrees DEF Wake
  <2> QED
    BY <1>3, <2>3, <2>4, <2>5 DEF PrepareLapsed
<1>4. ASSUME NEW t \in Ticket, Renew(t) PROVE Agreement'
  BY <1>4, RefreshAgrees DEF Renew, NoWork, HostType
<1>5. CASE Status
  <2>1. UNCHANGED <<draining, signal, restarts, calls>> /\ kind = "held"
    BY <1>5 DEF Status, NoWork
  <2>2. CASE lapsed
    BY <1>5, <2>1, <2>2, LiftAgrees DEF Status, HostType
  <2>3. CASE ~lapsed
    BY <1>5, <2>1, <2>3, RefreshAgrees DEF Status, HostType
  <2> QED
    BY <2>2, <2>3
<1>6. ASSUME NEW id \in 1 .. lease, Resume(id) PROVE Agreement'
  BY <1>6, LiftAgrees DEF Resume, NoWork, HostType
<1>7. CASE TimerDue \/ ClockPasses \/ FireStale \/ UNCHANGED vars
  BY <1>7 DEF TimerDue, ClockPasses, FireStale, vars, host, entry, clocks, gate, HostType, DrainSupersedes,
    SchedulerFollowsFence, CoordinatorAgrees
<1>8. CASE Fire
  BY <1>8, LiftAgrees DEF Fire, NoWork, HostType
<1>9. CASE Drain
  <2>1. /\ draining' /\ parked' = {} /\ restarts' \in 0 .. MaxRestarts
        /\ phase' = "accepting" /\ lease' \in Nat
        /\ UNCHANGED <<paused, calls, faults, mine>>
    BY <1>9 DEF Drain, MarkDraining, Wake, Invalidate, Invalidated, Drop, HostType, entry
  <2>2. CASE phase = "accepting"
    BY <1>9, <2>1, <2>2 DEF Drain, MarkDraining, Invalidate, Invalidated, entry, clocks, HostType,
      DrainSupersedes, SchedulerFollowsFence, CoordinatorAgrees
  <2>3. CASE phase # "accepting"
    BY <1>9, <2>1, <2>3 DEF Drain, Invalidated, Drop, HostType, DrainSupersedes,
      SchedulerFollowsFence, CoordinatorAgrees
  <2> QED
    BY <2>2, <2>3
<1>10. CASE Restart
  BY <1>10 DEF Restart, Reset, Drop, Wake, HostType, DrainSupersedes, SchedulerFollowsFence,
    CoordinatorAgrees
<1> QED
  BY <1>1, <1>2, <1>3, <1>4, <1>5, <1>6, <1>7, <1>8, <1>9, <1>10 DEF Next, Ask

-----------------------------------------------------------------------------

LEMMA InitIInv == Init => IInv
<1> SUFFICES ASSUME Init PROVE IInv
  OBVIOUS
<1> USE ChainAssumption, HostAssumption DEF Init, WorkInit
<1>1. ChainsType /\ Rooted
  BY DEF ChainsType, Rooted, Stage
<1>2. HandlesAreCounted
  <2>1. \A r \in Chain : HoldersOf(r) = {}
    BY DEF HoldersOf
  <2> QED
    BY <2>1, FS_EmptySet, Counting
<1>3. Quiet
  BY DEF Quiet, Apart, PreparedIsQuiet, Chain
<1>4. Agreement
  BY DEF Agreement, HostType, DrainSupersedes, SchedulerFollowsFence, CoordinatorAgrees
<1>5. Flags
  BY DEF Flags, HostFlags
<1> QED
  BY <1>1, <1>2, <1>3, <1>4, <1>5 DEF IInv, Handles

\* Every step of chains, hosts, clocks and restarts preserves it.
LEMMA IInvStep == IInv /\ [Next]_vars => IInv'
BY HandlesStep, QuietStep, FlagsStep, AgreementStep DEF IInv, Quiet, Handles

\* The inductive invariant, from which everything below follows.
THEOREM Inductive == Spec => []IInv
<1> QED
  BY InitIInv, IInvStep, PTL DEF Spec

\* References are counted by chains, so there are no more of them than chains.
LEMMA IInvTypes == IInv => TypeOK
<1> SUFFICES ASSUME IInv PROVE TypeOK
  OBVIOUS
<1>1. ASSUME NEW r \in Chain PROVE refs[r] \in 0 .. Cardinality(Chain)
  <2>1. refs[r] = Cardinality(HoldersOf(r)) /\ refs[r] \in Nat
    BY Counting DEF IInv, Handles, ChainsType
  <2>2. Cardinality(HoldersOf(r)) <= Cardinality(Chain) /\ Cardinality(Chain) \in Nat
    BY HoldersFinite, ChainAssumption, FS_Subset, FS_CardinalityType DEF IInv
  <2> QED
    BY <2>1, <2>2
<1>2. refs \in [Chain -> 0 .. Cardinality(Chain)]
  BY <1>1 DEF IInv, Handles, ChainsType
<1> QED
  BY <1>2 DEF IInv, Handles, ChainsType, Quiet, Flags, HostFlags, Agreement, HostType, TypeOK, WorkTypeOK

-----------------------------------------------------------------------------
(* Theorems. *)

\* Types, for any chains, tickets and bounds; the references of a root never
\* exceed the number of chains (createGatewayRootWorkAdmission()).
THEOREM TypeCorrect == Spec => []TypeOK
BY Inductive, IInvTypes, PTL

\* A root is counted exactly as long as someone holds a handle on it, whatever
\* outlives its handler, across any number of restarts (createGatewayRootWorkRelease()).
THEOREM HandlesCounted == Spec => []HandlesAreCounted
<1>1. IInv => HandlesAreCounted
  BY DEF IInv, Handles
<1> QED
  BY <1>1, Inductive, PTL

\* While a host is told "ready" no ordinary work is counted, neither as a root
\* nor in a lane: chains that outlived their root or their lane's patience may
\* run on, and get neither (tryBeginGatewaySuspendAdmission()).
THEOREM ReadyMeansQuiet == Spec => []PreparedIsQuiet
<1>1. IInv => PreparedIsQuiet
  BY DEF IInv, Quiet
<1> QED
  BY <1>1, Inductive, PTL

\* The cron scheduler is paused exactly while admission is suspended, however
\* often bringing it back fails (resumeAndReopen()).
THEOREM SchedulerAndFence == Spec => []SchedulerFollowsFence
<1>1. IInv => SchedulerFollowsFence
  BY DEF IInv, Agreement
<1> QED
  BY <1>1, Inductive, PTL

\* The coordinator's entry is about the lease that fences admission, and says
\* of it what is so (refreshHeldSuspension(), invalidateSuspendAdmission()).
THEOREM EntryAndLease == Spec => []CoordinatorAgrees
<1>1. IInv => CoordinatorAgrees
  BY DEF IInv, Agreement
<1> QED
  BY <1>1, Inductive, PTL

\* No step but its expiry by one of the clocks, its host or a restart ends a
\* lease; a callback that a renewal left behind does not (scheduleEntry()).
THEOREM LeaseHeld == Spec => HeldUntilExpiry
<1>1. IInv /\ [Next]_vars
        => [kind = "held" /\ kind' # "held" => due \/ lapsed \/ draining' \/ Resume(mine)]_vars
  <2> SUFFICES ASSUME IInv, [Next]_vars, kind = "held", kind' # "held"
               PROVE  due \/ lapsed \/ draining' \/ Resume(mine)
    BY DEF vars
  <2>1. ~draining /\ phase # "accepting"
    BY DEF IInv, Agreement, DrainSupersedes, CoordinatorAgrees
  <2>2. CASE WorkStep /\ UNCHANGED host
    BY <2>2 DEF host, entry
  <2>3. ASSUME NEW t \in Ticket, NEW c \in Asker, Prepare(t, c) PROVE FALSE
    BY <2>1, <2>3 DEF Prepare, Open
  <2>4. ASSUME NEW t \in Ticket, PrepareLapsed(t) \/ Renew(t) PROVE lapsed
    BY <2>4 DEF PrepareLapsed, Renew, Lapsed
  <2>5. CASE Status
    BY <2>5 DEF Status
  <2>6. ASSUME NEW id \in 1 .. lease, Resume(id) PROVE lapsed \/ Resume(mine)
    <3>1. lapsed \/ id = mine
      BY <2>6 DEF Resume
    <3> QED
      BY <2>6, <3>1
  <2>7. CASE TimerDue \/ ClockPasses \/ FireStale \/ UNCHANGED vars
    BY <2>7 DEF TimerDue, ClockPasses, FireStale, vars, host, entry
  <2>8. CASE Fire
    BY <2>8 DEF Fire
  <2>9. CASE Drain
    BY <2>9 DEF Drain, MarkDraining
  <2>10. CASE Restart
    BY <2>1, <2>10 DEF Restart, Reset
  <2> QED
    BY <2>2, <2>3, <2>4, <2>5, <2>6, <2>7, <2>8, <2>9, <2>10 DEF Next, Ask
<1> QED
  BY <1>1, Inductive, PTL DEF Spec, HeldUntilExpiry
=============================================================================
