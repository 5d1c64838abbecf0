---------------------------- MODULE CrawlProofs ----------------------------
(***************************************************************************)
(* Proofs about CrawlSchedule and CrawlLoop, for any crawlers, cases and   *)
(* pages: that the learned window is the one its reference definition      *)
(* gives, for every histogram and all constants of the schedule; type      *)
(* correctness of the loop; and that a drought of the baseline sample has  *)
(* one cause only.                                                         *)
(***************************************************************************)
EXTENDS CrawlLoop, FiniteSetTheorems, TLAPS

-----------------------------------------------------------------------------
(* The window. *)

\* The observations can be counted.
LEMMA ObservationsType ==
  ASSUME NEW hist \in Histogram
  PROVE  Observations(hist) \in Nat
<1> DEFINE S == {{h} \X (1 .. hist[h]) : h \in Hours}
           f == [h \in Hours |-> {h} \X (1 .. hist[h])]
<1>1. f \in Surjection(Hours, S)
  BY DEF Surjection
<1>2. IsFiniteSet(S)
  BY <1>1, HoursAssumption, FS_Surjection
<1>3. ASSUME NEW h \in Hours PROVE IsFiniteSet({h} \X (1 .. hist[h]))
  <2>1. hist[h] \in Int
    BY DEF Histogram
  <2>2. IsFiniteSet({h})
    BY FS_Singleton
  <2>3. IsFiniteSet(1 .. hist[h])
    BY <2>1, FS_Interval
  <2> QED
    BY <2>2, <2>3, FS_Product
<1>4. IsFiniteSet(UNION S)
  BY <1>2, <1>3, FS_UNION
<1> QED
  BY <1>4, FS_CardinalityType DEF Observations, Findings

Before(hist, h) == {g \in Hours : RanksBefore(hist, g, h)}

\* The ranking is a strict order: who comes earlier has fewer before it.
LEMMA RankGrows ==
  ASSUME NEW hist \in Histogram, NEW g \in Hours, NEW h \in Hours, RanksBefore(hist, g, h)
  PROVE  /\ Cardinality(Before(hist, g)) \in Nat
         /\ Cardinality(Before(hist, h)) \in Nat
         /\ Cardinality(Before(hist, g)) < Cardinality(Before(hist, h))
<1>1. \A x \in Hours : x \in Nat /\ hist[x] \in Nat
  BY HoursAssumption DEF Histogram
<1>2. Before(hist, g) \subseteq Hours /\ Before(hist, h) \subseteq Hours
  BY DEF Before
<1>3. IsFiniteSet(Before(hist, g)) /\ IsFiniteSet(Before(hist, h))
  BY <1>2, HoursAssumption, FS_Subset
<1>4. g \notin Before(hist, g)
  BY <1>1 DEF Before, RanksBefore
<1>5. Before(hist, g) \union {g} \subseteq Before(hist, h)
  BY <1>1 DEF Before, RanksBefore
<1>6. /\ IsFiniteSet(Before(hist, g) \union {g})
      /\ Cardinality(Before(hist, g) \union {g}) = Cardinality(Before(hist, g)) + 1
  BY <1>3, <1>4, FS_AddElement
<1>7. Cardinality(Before(hist, g) \union {g}) <= Cardinality(Before(hist, h))
  BY <1>3, <1>5, FS_Subset
<1> QED
  BY <1>3, <1>6, <1>7, FS_CardinalityType

\* The ranking is total, and worth is a matter of the count alone.
LEMMA RankTotal ==
  ASSUME NEW hist \in Histogram, NEW g \in Hours, NEW h \in Hours
  PROVE  /\ g # h => RanksBefore(hist, g, h) \/ RanksBefore(hist, h, g)
         /\ RanksBefore(hist, g, h) /\ CarriesShare(hist, h) => CarriesShare(hist, g)
         /\ CarriesShare(hist, g) /\ ~CarriesShare(hist, h) => RanksBefore(hist, g, h)
<1>1. g \in Nat /\ h \in Nat /\ hist[g] \in Nat /\ hist[h] \in Nat
  BY HoursAssumption DEF Histogram
<1>2. g # h => RanksBefore(hist, g, h) \/ RanksBefore(hist, h, g)
  BY <1>1 DEF RanksBefore
<1>3. PICK n \in Nat : n = Observations(hist) * MIN_HOUR_PERCENT
  BY ObservationsType, ScheduleAssumption
<1>4. \A x \in Hours : CarriesShare(hist, x) <=> hist[x] >= 2 /\ hist[x] * 100 >= n
  BY <1>3 DEF CarriesShare
<1> QED
  BY <1>1, <1>2, <1>4 DEF RanksBefore

Worth(hist) == {h \in Hours : CarriesShare(hist, h)}
Place(hist, h) == Cardinality(Before(hist, h))

LEMMA PlaceType ==
  ASSUME NEW hist \in Histogram, NEW h \in Hours
  PROVE  /\ IsFiniteSet(Before(hist, h)) /\ Place(hist, h) \in Nat
         /\ Place(hist, h) < Cardinality(Hours)
<1>1. Before(hist, h) \subseteq Hours \ {h}
  BY HoursAssumption DEF Before, RanksBefore, Histogram
<1>2. /\ IsFiniteSet(Hours \ {h}) /\ Cardinality(Hours \ {h}) = Cardinality(Hours) - 1
      /\ Cardinality(Hours) \in Nat
  BY HoursAssumption, FS_RemoveElement, FS_CardinalityType
<1>3. /\ IsFiniteSet(Before(hist, h))
      /\ Cardinality(Before(hist, h)) <= Cardinality(Hours \ {h})
  BY <1>1, <1>2, FS_Subset
<1>4. Cardinality(Before(hist, h)) \in Nat
  BY <1>3, FS_CardinalityType
<1> QED
  BY <1>2, <1>3, <1>4 DEF Place

LEMMA TopByPlace ==
  ASSUME NEW hist
  PROVE  TopHours(hist) = {h \in Hours : Place(hist, h) < ACTIVE_HOURS}
  BY DEF TopHours, Place, Before

\* If there are hours enough, every place is taken, and the top is full.
LEMMA TopIsFull ==
  ASSUME NEW hist \in Histogram, ACTIVE_HOURS <= Cardinality(Hours)
  PROVE  Cardinality(TopHours(hist)) = ACTIVE_HOURS
<1> DEFINE N == Cardinality(Hours)
           place == [h \in Hours |-> Place(hist, h)]
           Top == TopHours(hist)
           top == [h \in Top |-> Place(hist, h)]
<1>1. N \in Nat /\ ACTIVE_HOURS \in Nat /\ ACTIVE_HOURS <= N
  BY HoursAssumption, FS_CardinalityType, ScheduleAssumption
<1> HIDE DEF N
<1>2. \A h \in Hours : Place(hist, h) \in Nat /\ Place(hist, h) < N
  BY PlaceType DEF N
<1>3. ASSUME NEW g \in Hours, NEW h \in Hours, g # h PROVE Place(hist, g) # Place(hist, h)
  <2>1. RanksBefore(hist, g, h) \/ RanksBefore(hist, h, g)
    BY <1>3, RankTotal
  <2> QED
    BY <1>2, <2>1, RankGrows DEF Place
<1>4. place \in Injection(Hours, 0 .. N - 1)
  <2>1. place \in [Hours -> 0 .. N - 1]
    BY <1>1, <1>2
  <2> QED
    BY <1>3, <2>1 DEF Injection, IsInjective
<1>5. IsFiniteSet(0 .. N - 1) /\ Cardinality(0 .. N - 1) = N
  BY <1>1, FS_Interval
<1>6. place \in Surjection(Hours, 0 .. N - 1)
  BY <1>4, <1>5, FS_Injection DEF N
<1>7. \A h : h \in Top <=> h \in Hours /\ Place(hist, h) < ACTIVE_HOURS
  BY TopByPlace
<1>8. top \in [Top -> 0 .. ACTIVE_HOURS - 1]
  BY <1>1, <1>2, <1>7
<1>9. top \in Injection(Top, 0 .. ACTIVE_HOURS - 1)
  BY <1>3, <1>7, <1>8 DEF Injection, IsInjective
<1>10. top \in Surjection(Top, 0 .. ACTIVE_HOURS - 1)
  <2>1. ASSUME NEW i \in 0 .. ACTIVE_HOURS - 1 PROVE \E h \in Top : top[h] = i
    <3>1. i \in 0 .. N - 1 /\ i < ACTIVE_HOURS
      BY <1>1
    <3>2. PICK h \in Hours : place[h] = i
      BY <1>6, <3>1 DEF Surjection
    <3>3. Place(hist, h) = i
      BY <3>2
    <3>4. h \in Top
      BY <1>7, <3>1, <3>3
    <3> QED
      BY <3>3, <3>4
  <2> QED
    BY <1>8, <2>1 DEF Surjection
<1>11. /\ IsFiniteSet(0 .. ACTIVE_HOURS - 1)
       /\ Cardinality(0 .. ACTIVE_HOURS - 1) = ACTIVE_HOURS
  BY <1>1, FS_Interval
<1> QED
  BY <1>9, <1>10, <1>11, FS_Injection

\* With room for all, the chosen hours are those that are worth it.
LEMMA AllAreChosen ==
  ASSUME NEW hist \in Histogram, Cardinality(Worth(hist)) <= ACTIVE_HOURS
  PROVE  ChosenHours(hist) = Worth(hist)
<1>1. ASSUME NEW h \in Worth(hist) PROVE h \in TopHours(hist)
  <2>1. h \in Hours /\ CarriesShare(hist, h)
    BY DEF Worth
  <2>2. Before(hist, h) \subseteq Worth(hist) \ {h}
    <3>1. hist[h] \in Nat /\ h \in Nat
      BY <2>1, HoursAssumption DEF Histogram
    <3>2. ~RanksBefore(hist, h, h)
      BY <3>1 DEF RanksBefore
    <3>3. \A g \in Hours : RanksBefore(hist, g, h) => CarriesShare(hist, g)
      BY <2>1, RankTotal
    <3> QED
      BY <3>2, <3>3 DEF Before, Worth
  <2>3. Worth(hist) \subseteq Hours
    BY DEF Worth
  <2>4. IsFiniteSet(Worth(hist))
    BY <2>3, HoursAssumption, FS_Subset
  <2>5. /\ IsFiniteSet(Worth(hist) \ {h})
        /\ Cardinality(Worth(hist) \ {h}) = Cardinality(Worth(hist)) - 1
        /\ Cardinality(Worth(hist)) \in Nat
    BY <2>4, FS_RemoveElement, FS_CardinalityType
  <2>6. Place(hist, h) <= Cardinality(Worth(hist) \ {h})
    BY <2>2, <2>5, FS_Subset DEF Place
  <2>7. Place(hist, h) \in Nat
    BY <2>1, PlaceType
  <2>8. Place(hist, h) < ACTIVE_HOURS
    BY <2>5, <2>6, <2>7, ScheduleAssumption
  <2> QED
    BY <2>1, <2>8, TopByPlace
<1> QED
  BY <1>1 DEF ChosenHours, Worth, TopHours

\* With more than there is room for, the top is made of hours that are worth it.
LEMMA TopIsWorth ==
  ASSUME NEW hist \in Histogram, Cardinality(Worth(hist)) >= ACTIVE_HOURS
  PROVE  /\ ChosenHours(hist) = TopHours(hist)
         /\ Cardinality(ChosenHours(hist)) = ACTIVE_HOURS
<1>1. Worth(hist) \subseteq Hours
  BY DEF Worth
<1>2. /\ IsFiniteSet(Worth(hist)) /\ Cardinality(Worth(hist)) \in Nat
      /\ Cardinality(Worth(hist)) <= Cardinality(Hours) /\ Cardinality(Hours) \in Nat
  BY <1>1, HoursAssumption, FS_Subset, FS_CardinalityType
<1>3. ASSUME NEW h \in TopHours(hist), ~CarriesShare(hist, h) PROVE FALSE
  <2>1. h \in Hours /\ Place(hist, h) < ACTIVE_HOURS
    BY TopByPlace
  <2>2. Worth(hist) \subseteq Before(hist, h)
    BY <1>3, <2>1, RankTotal DEF Worth, Before
  <2>3. IsFiniteSet(Before(hist, h)) /\ Place(hist, h) \in Nat
    BY <2>1, PlaceType
  <2>4. Cardinality(Worth(hist)) <= Place(hist, h)
    BY <2>2, <2>3, FS_Subset DEF Place
  <2> QED
    BY <1>2, <2>1, <2>3, <2>4, ScheduleAssumption
<1>4. ChosenHours(hist) = TopHours(hist)
  BY <1>3 DEF ChosenHours
<1>5. Cardinality(TopHours(hist)) = ACTIVE_HOURS
  BY <1>2, TopIsFull, ScheduleAssumption
<1> QED
  BY <1>4, <1>5

\* A chosen hour ranks before every hour that was worth it and not chosen.
LEMMA BestAreChosen ==
  ASSUME NEW hist \in Histogram,
         NEW h \in ChosenHours(hist), NEW g \in Worth(hist) \ ChosenHours(hist)
  PROVE  RanksBefore(hist, h, g)
<1>1. h \in Hours /\ Place(hist, h) < ACTIVE_HOURS
  BY TopByPlace DEF ChosenHours
<1>2. g \in Hours /\ ~(Place(hist, g) < ACTIVE_HOURS) /\ g # h
  BY TopByPlace DEF ChosenHours, Worth
<1>3. ASSUME RanksBefore(hist, g, h) PROVE FALSE
  <2>1. Place(hist, g) < Place(hist, h) /\ Place(hist, g) \in Nat /\ Place(hist, h) \in Nat
    BY <1>1, <1>2, <1>3, RankGrows DEF Place
  <2> QED
    BY <1>1, <1>2, <2>1, ScheduleAssumption
<1> QED
  BY <1>1, <1>2, <1>3, RankTotal
-----------------------------------------------------------------------------
(* The loop: what is written down. *)

LEMMA HistogramsStep ==
  ASSUME counts \in [Case -> Histogram], [Next]_vars
  PROVE  counts' \in [Case -> Histogram]
<1>1. ASSUME NEW k \in Crawler, NEW h \in Hours, Find(k, h)
      PROVE  counts' \in [Case -> Histogram]
  <2>1. PICK c : counts' = [counts EXCEPT ![c] = [counts[c] EXCEPT ![h] = counts[c][h] + 1]]
    BY <1>1 DEF Find
  <2>2. CASE c \in Case
    <3>1. [counts[c] EXCEPT ![h] = counts[c][h] + 1] \in Histogram
      BY <2>2 DEF Histogram
    <3> QED
      BY <2>1, <3>1
  <2>3. CASE c \notin Case
    BY <2>1, <2>3
  <2> QED
    BY <2>2, <2>3
<1>2. CASE UNCHANGED counts
  BY <1>2
<1>3. ASSUME NEW k \in Crawler, NEW c \in Question, NextCrawl(k, c) PROVE UNCHANGED counts
  BY <1>3 DEF NextCrawl
<1> QED
  BY <1>1, <1>2, <1>3 DEF Next, RecordCrawl, Crash, SetStance, GoDormant, Tick, vars

\* A learned window is what an operator would expect, whatever findings led to it:
\* for every histogram and all constants of the schedule, cutting the ranking and
\* then dropping the poor hours (activeHours()) gives the best of the hours worth
\* watching, no more than ACTIVE_HOURS, or the whole day.
THEOREM Window == Spec => []WindowIsSound
<1> DEFINE I == counts \in [Case -> Histogram]
<1>1. Init => I
  BY PageAssumption DEF Init
<1>2. I /\ [Next]_vars => I'
  BY HistogramsStep
<1>3. ASSUME I PROVE WindowIsSound
  <2> SUFFICES ASSUME NEW c \in Case
               PROVE  LET W == ActiveHours(counts[c]) IN
                      IF Observations(counts[c]) < MIN_SAMPLE \/ Cardinality(Worth(counts[c])) < 3
                      THEN W = Hours
                      ELSE /\ W \subseteq Worth(counts[c])
                           /\ Cardinality(W) = IF Cardinality(Worth(counts[c])) < ACTIVE_HOURS
                                               THEN Cardinality(Worth(counts[c])) ELSE ACTIVE_HOURS
                           /\ \A h \in W, g \in Worth(counts[c]) \ W : RanksBefore(counts[c], h, g)
    BY DEF WindowIsSound, Worth
  <2>1. PICK hist \in Histogram : hist = counts[c]
    BY <1>3
  <2>2. PICK w \in Nat : w = Cardinality(Worth(hist))
    <3>1. Worth(hist) \subseteq Hours
      BY DEF Worth
    <3>2. IsFiniteSet(Worth(hist))
      BY <3>1, HoursAssumption, FS_Subset
    <3> QED
      BY <3>2, FS_CardinalityType
  <2>3. PICK n \in Nat : n = Observations(hist)
    BY ObservationsType
  <2>4. Cardinality(ChosenHours(hist)) = IF w < ACTIVE_HOURS THEN w ELSE ACTIVE_HOURS
    BY <2>2, AllAreChosen, TopIsWorth, ScheduleAssumption
  <2>5. Learned(hist) <=> ~(n < MIN_SAMPLE) /\ ~(w < 3)
    BY <2>2, <2>3, <2>4, ScheduleAssumption DEF Learned
  <2>6. ChosenHours(hist) \subseteq Worth(hist)
    BY DEF ChosenHours, TopHours, Worth
  <2>7. \A h \in ChosenHours(hist), g \in Worth(hist) \ ChosenHours(hist) : RanksBefore(hist, h, g)
    BY BestAreChosen
  <2>8. CASE n < MIN_SAMPLE \/ w < 3
    BY <2>1, <2>2, <2>3, <2>5, <2>8 DEF ActiveHours
  <2>9. CASE ~(n < MIN_SAMPLE \/ w < 3)
    <3>1. ActiveHours(hist) = ChosenHours(hist)
      BY <2>5, <2>9 DEF ActiveHours
    <3> QED
      BY <2>1, <2>2, <2>3, <2>4, <2>6, <2>7, <2>9, <3>1
  <2> QED
    BY <2>8, <2>9
<1> QED
  BY <1>1, <1>2, <1>3, PTL DEF Spec

-----------------------------------------------------------------------------
(* Type correctness. *)

\* The line loses nobody when a page goes to its end.
LEMMA LineStays ==
  ASSUME NEW p \in Page, rotation \in Bijection(Page, Places), MoveToBack(p)
  PROVE  rotation' \in Bijection(Page, Places)
<1> DEFINE N == Cardinality(Page)
<1>1. N \in Nat
  BY PageAssumption, FS_CardinalityType
<1>2. /\ rotation \in [Page -> 1 .. N]
      /\ \A q, r \in Page : rotation[q] = rotation[r] => q = r
      /\ \A i \in 1 .. N : \E q \in Page : rotation[q] = i
  BY DEF Bijection, Injection, Surjection, IsInjective, Places
<1>3. rotation[p] \in 1 .. N
  BY <1>2
<1>4. \A q \in Page : rotation'[q] = IF q = p THEN N
                        ELSE IF rotation[q] > rotation[p] THEN rotation[q] - 1 ELSE rotation[q]
  BY DEF MoveToBack
<1>5. \A q \in Page \ {p} : rotation[q] # rotation[p] /\ rotation[q] \in 1 .. N
  BY <1>2
<1>6. DOMAIN rotation' = Page /\ rotation' = [q \in Page |-> rotation'[q]]
  BY DEF MoveToBack
<1> HIDE DEF N
<1>7. \A q \in Page : rotation'[q] \in 1 .. N
  BY <1>1, <1>3, <1>4, <1>5
<1>8. \A q, r \in Page : rotation'[q] = rotation'[r] => q = r
  BY <1>1, <1>2, <1>3, <1>4, <1>5
<1>9. ASSUME NEW i \in 1 .. N PROVE \E q \in Page : rotation'[q] = i
  <2>1. CASE i = N
    BY <1>4, <2>1
  <2>2. CASE i < rotation[p]
    <3>1. PICK q \in Page : rotation[q] = i
      BY <1>2
    <3> QED
      BY <1>1, <1>3, <1>4, <2>2, <3>1
  <2>3. CASE i # N /\ ~(i < rotation[p])
    <3>1. i + 1 \in 1 .. N /\ i \in Nat
      BY <1>1, <2>3
    <3>2. PICK q \in Page : rotation[q] = i + 1
      BY <1>2, <3>1
    <3> QED
      BY <1>1, <1>3, <1>4, <2>3, <3>1, <3>2
  <2> QED
    BY <2>1, <2>2, <2>3
<1> QED
  BY <1>6, <1>7, <1>8, <1>9 DEF Bijection, Injection, Surjection, IsInjective, Places, N

\* The counter stays below the interval.
LEMMA Wraps ==
  ASSUME NEW n \in 0 .. BASELINE_EVERY - 1
  PROVE  /\ n % BASELINE_EVERY = n
         /\ (n + 1) % BASELINE_EVERY = IF n = BASELINE_EVERY - 1 THEN 0 ELSE n + 1
<1>1. BASELINE_EVERY \in Nat /\ BASELINE_EVERY > 0
  BY ScheduleAssumption
<1>2. CASE n = BASELINE_EVERY - 1
  BY <1>1, <1>2
<1>3. CASE n # BASELINE_EVERY - 1
  BY <1>1, <1>3
<1> QED
  BY <1>2, <1>3
LEMMA HoursWrap ==
  ASSUME NEW h \in Hours
  PROVE  (h + 1) % Cardinality(Hours) \in Hours
<1> DEFINE N == Cardinality(Hours)
<1>1. N \in Nat /\ N # 0
  BY HoursAssumption, FS_CardinalityType, FS_EmptySet
<1>2. h \in 0 .. N - 1 /\ Hours = 0 .. N - 1
  BY LoopAssumption
<1> HIDE DEF N
<1>3. (h + 1) % N \in 0 .. N - 1
  BY <1>1, <1>2
<1> QED
  BY <1>2, <1>3 DEF N

LEMMA InitType == Init => TypeOK
<1> SUFFICES ASSUME Init PROVE TypeOK
  OBVIOUS
<1>1. crawls \in 0 .. BASELINE_EVERY - 1 /\ drought \in 0 .. BASELINE_EVERY
  BY ScheduleAssumption DEF Init
<1>2. counts \in [Case -> Histogram]
  BY PageAssumption DEF Init
<1> QED
  BY <1>1, <1>2 DEF Init, TypeOK

\* Counting a crawl keeps the counters in their ranges.
LEMMA CountCrawlType ==
  ASSUME TypeOK, NEW k \in Crawler, CountCrawl(k)
  PROVE  /\ crawls' \in 0 .. BASELINE_EVERY - 1
         /\ drought' \in 0 .. BASELINE_EVERY
         /\ overtaken' \in BOOLEAN
<1>1. crawls' \in 0 .. BASELINE_EVERY - 1
  BY Wraps, ScheduleAssumption DEF CountCrawl, TypeOK
<1>2. drought' \in 0 .. BASELINE_EVERY
  BY ScheduleAssumption DEF CountCrawl, CountDrought, TypeOK
<1>3. overtaken' \in BOOLEAN
  BY Zenon DEF CountCrawl, CountDrought, TypeOK
<1> QED
  BY <1>1, <1>2, <1>3

LEMMA TypeStep ==
  ASSUME TypeOK, [Next]_vars
  PROVE  TypeOK'
<1>1. ASSUME NEW k \in Crawler, NEW c \in Question, NextCrawl(k, c) PROVE TypeOK'
  <2>1. \A p \in Page : [page |-> p, number |-> crawls] \in Job
    BY DEF Job, TypeOK
  <2>2. job' \in [Crawler -> Job \union {None}]
    BY <1>1, <2>1 DEF NextCrawl, TypeOK
  <2> QED
    BY <1>1, <2>2 DEF NextCrawl, TypeOK
<1>2. ASSUME NEW k \in Crawler, NEW h \in Hours, Find(k, h) PROVE TypeOK'
  <2>1. counts' \in [Case -> Histogram]
    BY HistogramsStep DEF TypeOK
  <2> QED
    BY <1>2, <2>1 DEF Find, TypeOK
<1>3. ASSUME NEW k \in Crawler, RecordCrawl(k) PROVE TypeOK'
  <2>1. job[k].page \in Page
    BY <1>3 DEF RecordCrawl, TypeOK, Job
  <2>2. rotation' \in Bijection(Page, Places)
    BY <1>3, <2>1, LineStays DEF RecordCrawl, TypeOK
  <2>3. /\ crawls' \in 0 .. BASELINE_EVERY - 1
        /\ drought' \in 0 .. BASELINE_EVERY
        /\ overtaken' \in BOOLEAN
    BY <1>3, CountCrawlType DEF RecordCrawl
  <2> QED
    BY <1>3, <2>2, <2>3 DEF RecordCrawl, TypeOK
<1>4. ASSUME NEW k \in Crawler, Crash(k) PROVE TypeOK'
  <2>1. /\ crawls' \in 0 .. BASELINE_EVERY - 1
        /\ drought' \in 0 .. BASELINE_EVERY
        /\ overtaken' \in BOOLEAN
    BY <1>4, CountCrawlType DEF Crash, TypeOK
  <2> QED
    BY <1>4, <2>1 DEF Crash, TypeOK
<1>5. ASSUME NEW p \in Reviewed, NEW s \in Stance, SetStance(p, s) PROVE TypeOK'
  BY <1>5, LoopAssumption DEF SetStance, TypeOK
<1>6. ASSUME NEW c \in Case, GoDormant(c) PROVE TypeOK'
  BY <1>6 DEF GoDormant, TypeOK
<1>7. CASE Tick
  BY <1>7, HoursWrap DEF Tick, TypeOK
<1>8. CASE UNCHANGED vars
  BY <1>8 DEF vars, TypeOK
<1> QED
  BY <1>1, <1>2, <1>3, <1>4, <1>5, <1>6, <1>7, <1>8 DEF Next

\* Every reachable state is well typed, for any agents, cases and pages; in
\* particular the order of last_crawled_at keeps every page in line once
\* (recordCrawl()).
THEOREM TypeCorrect == Spec => []TypeOK
BY InitType, TypeStep, PTL DEF Spec

-----------------------------------------------------------------------------
(* The baseline sample. *)

\* Unless a crawl was overtaken, the drought is no longer than the way of the
\* counter from its last multiple.
Counted ==
  \/ overtaken
  \/ /\ crawls = 0 => drought <= BASELINE_EVERY - 1
     /\ crawls > 0 => drought <= crawls - 1

LEMMA CountedStep ==
  ASSUME TypeOK, Counted, [Next]_vars
  PROVE  Counted'
<1>1. ASSUME NEW k \in Crawler, job[k] # None, CountCrawl(k) PROVE Counted'
  <2>1. /\ crawls \in 0 .. BASELINE_EVERY - 1 /\ drought \in Nat
        /\ BASELINE_EVERY \in Nat \ {0}
    BY ScheduleAssumption DEF TypeOK
  <2>2. PICK n \in 0 .. BASELINE_EVERY - 1 : n = job[k].number
    BY <1>1 DEF TypeOK, Job
  <2>3. IsBaselineCrawl(n) <=> n = 0
    BY <2>2, Wraps DEF IsBaselineCrawl
  <2>4. crawls' = IF crawls = BASELINE_EVERY - 1 THEN 0 ELSE crawls + 1
    BY <1>1, <2>1, Wraps DEF CountCrawl
  <2>5. CASE n = 0
    <3>1. drought' = 0
      BY <1>1, <2>2, <2>3, <2>5 DEF CountCrawl, CountDrought
    <3> QED
      BY <2>1, <2>4, <3>1 DEF Counted
  <2>6. CASE n # 0 /\ ~overtaken'
    <3>1. /\ drought' = IF drought = BASELINE_EVERY THEN drought ELSE drought + 1
          /\ n = crawls /\ ~overtaken
      BY <1>1, <2>2, <2>3, <2>6 DEF CountCrawl, CountDrought
    <3>2. drought <= crawls - 1
      BY <2>1, <2>6, <3>1 DEF Counted
    <3>3. drought' <= crawls
      BY <2>1, <3>1, <3>2
    <3> QED
      BY <2>1, <2>4, <3>3 DEF Counted
  <2> QED
    BY <2>5, <2>6 DEF Counted
<1>2. CASE UNCHANGED <<crawls, drought, overtaken>>
  BY <1>2 DEF Counted
<1>3. ASSUME NEW k \in Crawler, NEW c \in Question, NextCrawl(k, c)
      PROVE  UNCHANGED <<crawls, drought, overtaken>>
  BY <1>3 DEF NextCrawl
<1>4. ASSUME NEW k \in Crawler, NEW h \in Hours, Find(k, h)
      PROVE  UNCHANGED <<crawls, drought, overtaken>>
  BY <1>4 DEF Find
<1> QED
  BY <1>1, <1>2, <1>3, <1>4 DEF Next, RecordCrawl, Crash, SetStance, GoDormant, Tick, vars

\* For any number of agents, whatever they crawl at once and whichever of them
\* die: no BASELINE_EVERY crawls in a row are made without a baseline crawl, but
\* where one of them was decided on by next_crawl before another's recordCrawl()
\* and written down after it.
THEOREM Baseline == Spec => []BaselineComesRound
<1>1. Init => Counted
  BY ScheduleAssumption DEF Init, Counted
<1>2. TypeOK /\ Counted /\ [Next]_vars => Counted'
  BY CountedStep
<1>3. TypeOK /\ Counted => BaselineComesRound
  BY ScheduleAssumption DEF TypeOK, Counted, BaselineComesRound
<1> QED
  BY <1>1, <1>2, <1>3, TypeCorrect, PTL DEF Spec
=============================================================================
