--------------------------- MODULE CrawlSchedule ---------------------------
(***************************************************************************)
(* The pure part of schedule.ts: the learned window of a case and the      *)
(* baseline sample.                                                        *)
(***************************************************************************)
EXTENDS Naturals, FiniteSets, Functions

CONSTANTS
  Hours,             \* hours of the day, 0 .. 23
  MIN_SAMPLE,        \* findings needed before narrowing (20)
  ACTIVE_HOURS,      \* hours kept (6)
  MIN_HOUR_PERCENT,  \* least share of the findings an hour carries (5)
  BASELINE_EVERY     \* 1 / BASELINE_SHARE, rounded (5)

ASSUME HoursAssumption == Hours \subseteq Nat /\ IsFiniteSet(Hours) /\ Hours # {}
ASSUME ScheduleAssumption ==
  /\ MIN_SAMPLE \in Nat /\ ACTIVE_HOURS \in Nat /\ ACTIVE_HOURS >= 3
  /\ MIN_HOUR_PERCENT \in Nat /\ BASELINE_EVERY \in Nat \ {0}

\* A histogram: how many findings were posted in each hour.
Histogram == [Hours -> Nat]
Findings(counts) == UNION {{h} \X (1 .. counts[h]) : h \in Hours}
Observations(counts) == Cardinality(Findings(counts))

\* The order of the ranking: by count, then the earlier hour.
RanksBefore(counts, g, h) == counts[g] > counts[h] \/ (counts[g] = counts[h] /\ g < h)
TopHours(counts) ==
  {h \in Hours : Cardinality({g \in Hours : RanksBefore(counts, g, h)}) < ACTIVE_HOURS}

\* An hour must carry a real share of the findings.
CarriesShare(counts, h) ==
  counts[h] >= 2 /\ counts[h] * 100 >= Observations(counts) * MIN_HOUR_PERCENT

\* Faulty variant: hours that tie with the last place are all kept.
ChosenWithTies(counts) ==
  {h \in Hours : CarriesShare(counts, h)
               /\ Cardinality({g \in Hours : counts[g] > counts[h]}) < ACTIVE_HOURS}
ChosenHours(counts) == {h \in TopHours(counts) : CarriesShare(counts, h)}

Learned(counts) ==
  Observations(counts) >= MIN_SAMPLE /\ Cardinality(ChosenHours(counts)) >= 3

ActiveHours(counts) == IF Learned(counts) THEN ChosenHours(counts) ELSE Hours

\* Faulty variant: the modulo is compared with the wrong end.
IsBaselineNever(crawlNumber) == crawlNumber % BASELINE_EVERY = BASELINE_EVERY
IsBaselineCrawl(crawlNumber) == crawlNumber % BASELINE_EVERY = 0
=============================================================================
