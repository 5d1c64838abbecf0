----------------------------- MODULE CrawlLoop -----------------------------
(***************************************************************************)
(* The crawl loop: the next_crawl tool (index.ts), the queries and records *)
(* it rests on (store.ts), and the agents that ask it, about a case or     *)
(* about no case in particular, crawl what it names, and write down what   *)
(* they found.                                                             *)
(*                                                                         *)
(* The learned window belongs to a case; the counter that decides on       *)
(* baseline crawls counts the crawls of all cases together.                *)
(***************************************************************************)
EXTENDS CrawlSchedule

CONSTANTS
  Case, Page, Crawler,
  None,
  CaseOf,         \* the case each page belongs to, or None
  Routine,        \* the questions that are asked in every hour
  Considered,     \* bound: the histograms looked at
  Stance,         \* stances a human sets
  Reviewed,       \* bound: the pages a human decides about
  MaxCrashes      \* bound: crawls that die half-way

\* What next_crawl is asked about: a case, or None when caseId is left out.
Question == Case \union {None}

ASSUME PageAssumption ==
  /\ IsFiniteSet(Page) /\ CaseOf \in [Page -> Question]
  /\ None \notin Case
  /\ Considered \subseteq Histogram /\ Considered # {}
ASSUME LoopAssumption ==
  /\ Hours = 0 .. Cardinality(Hours) - 1
  /\ Routine \subseteq Question
  /\ Stance \subseteq {"watch", "follow", "muted"}
  /\ Reviewed \subseteq Page
  /\ MaxCrashes \in Nat

VARIABLES
  hour,
  counts,       \* flagged content of each case, by the hour it was posted
  crawls,       \* rows of the crawls table; next_crawl only uses the residue
  rotation,     \* each page's place in line, the longest uncrawled page first
  stance,
  dormant,      \* the cases the lifecycle has put to rest
  job,          \* what each crawler is doing
  asked,        \* the routine questions asked in this hour
  drought,      \* history: crawls recorded since the last baseline crawl, and
  overtaken,    \* whether the counter had moved under one of them
  crashes

vars == <<hour, counts, crawls, rotation, stance, dormant, job, asked, drought,
          overtaken, crashes>>

\* A crawl under way: its page and the counter its baseline decision rests on.
Job == [page : Page, number : 0 .. BASELINE_EVERY - 1]
Places == 1 .. Cardinality(Page)

TypeOK ==
  /\ hour \in Hours
  /\ counts \in [Case -> Histogram]
  /\ crawls \in 0 .. BASELINE_EVERY - 1
  /\ rotation \in Bijection(Page, Places)
  /\ stance \in [Page -> {"watch", "follow", "muted"}]
  /\ dormant \subseteq Case
  /\ job \in [Crawler -> Job \union {None}]
  /\ asked \subseteq Routine
  /\ drought \in 0 .. BASELINE_EVERY
  /\ overtaken \in BOOLEAN
  /\ crashes \in Nat

\* The evidence file may hold findings of earlier campaigns.
Init ==
  /\ hour \in Hours
  /\ counts \in [Case -> Considered]
  /\ crawls = 0
  /\ rotation \in Bijection(Page, Places)
  /\ stance = [p \in Page |-> "watch"]
  /\ dormant = {}
  /\ job = [k \in Crawler |-> None]
  /\ asked = {}
  /\ drought = 0
  /\ overtaken = FALSE
  /\ crashes = 0

-----------------------------------------------------------------------------

\* duePages(): the pages that are not muted, of one case or, without a case, of
\* all.  Neither query looks at the state of the case.
DuePages(c) == {p \in Page : stance[p] # "muted" /\ (c # None => CaseOf[p] = c)}

\* Its order: nothing that is due waits longer than p.
FirstDue(p, c) == p \in DuePages(c) /\ \A q \in DuePages(c) : rotation[p] <= rotation[q]

\* Without a case there is no window to be outside of.
InWindow(c) == c = None \/ hour \in ActiveHours(counts[c])
ShouldCrawl(c) == IsBaselineCrawl(crawls) \/ InWindow(c)

\* An agent asks, and crawls the first page it is given if it is told to.
NextCrawl(k, c) ==
  /\ job[k] = None
  /\ IF ShouldCrawl(c) /\ DuePages(c) # {}
     THEN \E p \in Page :
            /\ FirstDue(p, c)
            /\ job' = [job EXCEPT ![k] = [page |-> p, number |-> crawls]]
     ELSE UNCHANGED job
  /\ asked' = asked \union ({c} \intersect Routine)
  /\ UNCHANGED <<hour, counts, crawls, rotation, stance, dormant, drought, overtaken, crashes>>

\* A flagged verdict on content of hour h of a page that belongs to a case.
Find(k, h) ==
  /\ job[k] # None
  /\ LET c == CaseOf[job[k].page] IN
     /\ c # None
     /\ counts' = [counts EXCEPT ![c] = [counts[c] EXCEPT ![h] = counts[c][h] + 1]]
     /\ counts'[c] \in Considered
  /\ UNCHANGED <<hour, crawls, rotation, stance, dormant, job, asked, drought, overtaken, crashes>>

\* The history of the baseline sample when k's crawl is counted.
CountDrought(k) ==
  IF IsBaselineCrawl(job[k].number)
  THEN drought' = 0 /\ overtaken' = FALSE
  ELSE /\ drought' = IF drought = BASELINE_EVERY THEN drought ELSE drought + 1
       /\ overtaken' = (overtaken \/ job[k].number # crawls)

\* Faulty variant: the counter wraps one crawl late.
CountCrawlWrapsLate(k) == crawls' = (crawls + 1) % (BASELINE_EVERY + 1) /\ CountDrought(k)
CountCrawl(k) == crawls' = (crawls + 1) % BASELINE_EVERY /\ CountDrought(k)

\* Faulty variant: the page keeps its place.
MoveToBackNever(p) == UNCHANGED rotation
MoveToBack(p) ==
  rotation' = [q \in Page |->
                 IF q = p THEN Cardinality(Page)
                 ELSE IF rotation[q] > rotation[p] THEN rotation[q] - 1
                 ELSE rotation[q]]

\* recordCrawl(), with an error or without: the row, then last_crawled_at.
RecordCrawl(k) ==
  /\ job[k] # None
  /\ CountCrawl(k)
  /\ MoveToBack(job[k].page)
  /\ job' = [job EXCEPT ![k] = None]
  /\ UNCHANGED <<hour, counts, stance, dormant, asked, crashes>>

\* The process dies while crawling, or between the two statements.
Crash(k) ==
  /\ job[k] # None
  /\ crashes < MaxCrashes
  /\ crashes' = crashes + 1
  /\ CountCrawl(k) \/ UNCHANGED <<crawls, drought, overtaken>>
  /\ job' = [job EXCEPT ![k] = None]
  /\ UNCHANGED <<hour, counts, rotation, stance, dormant, asked>>

\* A human decides; next_crawl only proposes.
SetStance(p, s) ==
  /\ stance' = [stance EXCEPT ![p] = s]
  /\ UNCHANGED <<hour, counts, crawls, rotation, dormant, job, asked, drought, overtaken, crashes>>

\* evaluateLifecycles() takes a quiet case to Dormant (Evidence.tla); nothing in
\* the code takes it back.
GoDormant(c) ==
  /\ c \notin dormant
  /\ dormant' = dormant \union {c}
  /\ UNCHANGED <<hour, counts, crawls, rotation, stance, job, asked, drought, overtaken, crashes>>

\* The next hour comes once every routine question has been asked.
Tick ==
  /\ asked = Routine
  /\ hour' = (hour + 1) % Cardinality(Hours)
  /\ asked' = {}
  /\ UNCHANGED <<counts, crawls, rotation, stance, dormant, job, drought, overtaken, crashes>>

Next ==
  \/ \E k \in Crawler :
       \/ \E c \in Question : NextCrawl(k, c)
       \/ \E h \in Hours : Find(k, h)
       \/ RecordCrawl(k) \/ Crash(k)
  \/ \E p \in Reviewed, s \in Stance : SetStance(p, s)
  \/ \E c \in Case : GoDormant(c)
  \/ Tick

\* The clock runs, a crawl ends, and some agent asks each routine question in
\* every hour: the last is the scheduler's duty, not this code's.
Fairness ==
  /\ WF_vars(Tick)
  /\ \A k \in Crawler : WF_vars(RecordCrawl(k))
  /\ \A c \in Routine : SF_vars(c \notin asked /\ \E k \in Crawler : NextCrawl(k, c))

Spec == Init /\ [][Next]_vars
FairSpec == Spec /\ Fairness

-----------------------------------------------------------------------------
(* Properties. *)

\* activeHours() ranks all hours, cuts, and then drops the poor ones; what it
\* returns is what an operator would expect of the reverse order: the best of
\* the hours worth watching, all of them if there is room, and the whole day if
\* the sample is small or fewer than three are worth it.
WindowIsSound ==
  \A c \in Case :
    LET Worth == {h \in Hours : CarriesShare(counts[c], h)}
        W == ActiveHours(counts[c])
    IN
    IF Observations(counts[c]) < MIN_SAMPLE \/ Cardinality(Worth) < 3
    THEN W = Hours
    ELSE /\ W \subseteq Worth
         /\ Cardinality(W) = IF Cardinality(Worth) < ACTIVE_HOURS
                             THEN Cardinality(Worth) ELSE ACTIVE_HOURS
         /\ \A h \in W, g \in Worth \ W : RanksBefore(counts[c], h, g)

\* However many agents crawl, and although next_crawl reads the counter and the
\* crawl adds to it later or never: BASELINE_EVERY crawls in a row without a
\* baseline crawl (isBaselineCrawl()) have one cause, that one of them was still
\* under way when another moved the counter on.
BaselineComesRound == drought < BASELINE_EVERY \/ overtaken

\* Every page that is not muted and whose case is not at rest is crawled again and
\* again, if its case, or no case, is asked about routinely, whatever has been
\* learned and whoever takes the baseline crawls (duePages() gives the longest
\* uncrawled page first).  Of the pages of dormant cases it says nothing: see
\* DormantCasesRest.
PagesTakeTurns ==
  \A p \in Page : {CaseOf[p], None} \intersect Routine # {} =>
    []<>(\/ stance[p] = "muted" \/ CaseOf[p] \in dormant
         \/ \E k \in Crawler : job[k] # None /\ job[k].page = p)

\* "A dormant case is not crawled at all" (schema.ts): no crawl of a page is begun
\* once the case of the page is Dormant.
DormantCasesRest ==
  [][\A k \in Crawler : job[k] = None /\ job'[k] # None
       => CaseOf[job'[k].page] \notin dormant]_vars

\* "Deterministic on the crawl counter rather than random, so coverage is even"
\* (schedule.ts): while no case is dormant, one with a page to crawl is looked at in
\* every hour of the day, again and again.
CoverageIsEven ==
  \A h \in Hours :
    \/ <>(dormant # {})
    \/ []<><<\E k \in Crawler, c \in Question : NextCrawl(k, c) /\ hour = h /\ job'[k] # None>>_vars
=============================================================================
