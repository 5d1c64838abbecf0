------------------------------ MODULE MCLanes ------------------------------
(* Lanes on small instances: cron runs with their inner work, heartbeats   *)
(* and hooks that share cron's slots, and the runs of a session.           *)
EXTENDS Lanes

CONSTANTS c1, c2, n1, n2, p1, p2, h1, h2, s1, s2, m1, m2, m3, X

RequestedLane ==
  [t \in Task |-> CASE t \in {c1, c2, n1, n2} -> "cron"
                    [] t \in {p1, p2} -> Nested
                    [] t \in {h1, h2} -> Hook
                    [] t \in {s1, s2} -> X
                    [] OTHER -> "main"]

\* A cron run holds its slot while its inner work runs, a session while its
\* run is in the main lane.
ParentTask ==
  [t \in Task |-> CASE t = n1 -> c1
                    [] t = n2 -> c2
                    [] t = m1 -> s1
                    [] OTHER -> None]

\* resolveEmbeddedRunSessionQueuePriority(): users first, cron's work last; the
\* outer cron run is enqueued without a priority.
RunPriority ==
  [t \in Task |-> CASE t \in {s1, s2, m1} -> 1
                    [] t \in {n1, n2, p1, p2, h1, h2} -> -1
                    [] OTHER -> 0]

\* The tasks that are submitted at all: cron runs that fill their lane and a
\* hook; heartbeats and hooks; one of each with the runs of a session; runs that
\* fill the main lane.  The others count as dropped from the start.
Mixes == {{c1, c2, n1, n2, h1}, {p1, p2, h1, h2}, {c1, n1, h1, s1, s2, m1}, {s1, m1, m2, m3}}

MixInit ==
  /\ \E mix \in Mixes : phase = [t \in Task |-> IF t \in mix THEN "new" ELSE "dropped"]
  /\ older = [t \in Task |-> {}]
  /\ active = [l \in Lane |-> {}]
  /\ group \in {"none", "reserving"}
  /\ main \in MainWidth
  /\ closed = FALSE
  /\ pump = {}
  /\ granted = [t \in Task |-> 0]

MixSpec == MixInit /\ [][Next]_vars /\ Fairness
=============================================================================
