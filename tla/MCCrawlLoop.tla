---------------------------- MODULE MCCrawlLoop ----------------------------
(* CrawlLoop on small instances: a short day, a page in a case and a page    *)
(* without one for the passing run, and one case with a day of 24 hours for  *)
(* the coverage.                                                             *)
EXTENDS CrawlLoop, TLC

CONSTANTS p1, p2, busy

InAndOut == [p \in Page |-> IF p = p1 THEN busy ELSE None]
OneCase == [p \in Page |-> busy]
Everything == {busy, None}
CaseOnly == {busy}

\* Each one finding away from another, and each on one side of a boundary: one
\* short of the sample (8); a tie for the last place; a place lost to a better
\* hour; a share of exactly a fifth; a share just below it, with three hours
\* left and with two; everywhere the same.
ShortDay == 0 .. 3
Day(a, b, c, d) == (0 :> a) @@ (1 :> b) @@ (2 :> c) @@ (3 :> d)
Boundaries ==
  {Day(2, 2, 2, 1), Day(2, 2, 2, 2), Day(2, 2, 2, 3), Day(2, 2, 3, 3),
   Day(2, 3, 3, 3), Day(2, 2, 3, 4), Day(3, 3, 3, 3)}

FullDay == 0 .. 23
Evenings ==
  {[h \in FullDay |-> IF h \in 20 .. 22 THEN n[h] ELSE 0] : n \in [20 .. 22 -> 0 .. 2]}
=============================================================================
