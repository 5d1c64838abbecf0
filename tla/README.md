# HSMA in TLA+

HSMA watches social media for speech against Iraqi minorities: it decides when and
where to crawl, judges what it finds against a lexicon that belongs to a moderation
platform, keeps its own record in SQLite, and reports to the platform over a connection
that drops. It is a plugin, `src/extensions/hsma-domain`, of OpenClaw, whose sources make
up the rest of the repository. This project models the plugin's stateful core and its
judgement of a comment, and the parts of OpenClaw that every agent run passes through: the
command lanes and the admission of work to the gateway. TLC checks them all, and every
safety property that holds is also proved with TLAPS, for all values of the constants.

Paths below are relative to `src/extensions/hsma-domain/src/` unless they say otherwise.

## 1. Inventory

| Component | Source | State | Operations |
| --- | --- | --- | --- |
| Outbox and reporter | `store.ts` 490-537, `platform/reporter.ts`, `platform/client.ts` | table `outbox`; a flush's snapshot of rows; the open request | `queueForPlatform`, `pendingOutbox`, `markSent`, `markFailed`, `flushOutbox`, `request` |
| Lexicon cache | `platform/lexicon-store.ts` | `snapshot`, `inFlight` | `ensureFresh`, `refresh`, `staleness`, `current` |
| Evidence store | `store.ts` 103-403, `schema.ts` | tables `cases`, `pages`, `posts`, `comments`, `verdicts`, `reviews` | `openCase`, `evaluateLifecycles`, `addPage`, `recordPost`, `recordComment`, `recordVerdict`, `reviewQueue`, `recordReview` |
| Crawl schedule | `schedule.ts` | none | `activeHours`, `isBaselineCrawl`, `reviewPages`, `coverage` |
| Crawl loop | `index.ts` `next_crawl`, `store.ts` 226-249 and 404-488 | tables `crawls`, `pages` | `next_crawl`, `duePages`, `recordCrawl`, `setStance`, `flaggedHours`, `crawlCounts`, `pageOutcomes` |
| Judgement | `normalize.ts`, `lexicon.ts`, `tropes.ts`, `exemptions.ts`, `classify` in `index.ts` | the matcher's compiled surfaces | `scan`, `evaluate`, `detectSignals`, `check` |
| Browser sessions | `browser.ts` | profile directories on disk | `openForLogin`, `withSession`, `probe`, `listSessions` |
| Plugin shell | `index.ts` | one store and one lexicon cache per process | tools and gateway read methods |
| Command lanes (OpenClaw) | `src/src/process/command-queue*.ts`, `src/src/gateway/server-lanes.ts` | lanes, queues, active tasks, generations, the group of `cron-nested` and `hook-dispatch` | `enqueueCommandInLane`, `drainLane`, `completeTask`, `clearCommandLane`, `resetCommandLane`, `resetAllLanes`, `publishLaneConfiguration` |
| Work admission (OpenClaw) | `src/src/process/gateway-work-admission.ts` | admitted roots and the handles on them, those who wait, the fences of suspension, restart signal and drain | `tryBegin...Admission`, `begin...WhenOpen`, continuation scopes, `beginGatewayRestartSignalAdmission`, `tryBeginGatewaySuspendAdmission`, `markGatewayRestartDraining`, `resetGatewayWorkAdmission` |
| Suspension (OpenClaw) | `src/src/infra/gateway-suspend-coordinator.ts`, `src/src/infra/gateway-active-work.ts` | the lease, its timer, the paused scheduler | prepare, renew, status, resume, expire, recover, reset |
| The rest of OpenClaw | `src/src`, `src/ui`, `src/apps`, `src/packages`, other extensions | - | - |

**How they interact.** The agent's tools read and write the evidence store directly; the
store is the only state the components share. `classify` asks the lexicon cache, which
asks the platform through the client. Verdicts feed three readers: the case's lifecycle
(`last_activity_at`), the schedule (`flaggedHours`) and the review queue. The schedule
feeds `next_crawl`, whose answer an agent acts on, and the agent's `recordCrawl` feeds
the next answer. The outbox is written by the agent and emptied by `flushOutbox` through
the same client. Nothing calls back; everything asynchronous is an `await` on the
platform or on the browser. Whatever agent does this runs as a task of the gateway's
command lanes: a cron job in `cron` with its inner work in `cron-nested`, a hook in
`hook-dispatch`, a chat in the lane of its session and, inside it, in `main`.

Several of these operations have no caller inside the plugin (`flushOutbox`,
`evaluateLifecycles`, `recordVerdict`, `recordCrawl`, `queueForPlatform`, `withSession`):
they are exported for whatever runs the agent. Who calls them, how often and how many at
a time is therefore not fixed by the code. The models allow overlapping calls where state
outlives a call, and state "somebody keeps calling" as a fairness assumption where a
liveness property needs it.

**What is hard.** Overlapping flushes over one table with a snapshot taken before the
awaits; answers lost after the platform acted; a process dying between two statements
that the code writes one after the other without a transaction; decisions taken on rows
read earlier (`evaluateLifecycles`, `next_crawl`); a shared in-flight request whose
failure, completion and joining race; an age that is dated at the end of a pull; a
counter that decides about crawls and is moved only by crawls; tasks that keep a slot while
they wait for a task, capacity shared by two lanes and freed on many paths, timeouts that
free a lane and not its task; promise chains that outlive the request that admitted them; a
scheduler that fails to come back while admission is fenced; callbacks of timers that were
re-armed since; text compared in two forms, normalised and as written. `PROJECT.json` lists
each with its line under "hazards".

**What makes each component correct.**

- Outbox: a row takes effect at the platform at most once; "Sent" is never said of a row the
  platform has not processed; the attempt budget is not overrun without bound; a flush ends; a
  row that can be sent is sent or given up.
- Lexicon cache: nobody is told a dictionary is younger than it is; no stale answer goes
  unlabelled; one request at a time; the cache never goes backwards; every call returns.
- Evidence: last activity covers every finding in a post; states move down one at a time; a
  case with fresh findings in posts does not cool; a quiet one does.
- Crawl loop: a learned window is the best of the hours worth watching; the baseline sample
  goes on; every unmuted page of a case that is not at rest is visited again.
- Command lanes: nothing starts beyond the limit in force; a slot belongs to a running task; no
  capacity is left idle; order is kept within a lane and across the group; the slot for hooks
  stays; everyone who enqueues is answered.
- Work admission and suspension: admitted work is counted for as long as someone holds it and
  no longer; a host that is told "ready" may freeze the process; fence, lease and scheduler
  agree; nobody who waits for admission is forgotten.
- Judgement: a hit is a whole word and no word is missed; spelling changes no verdict; who
  quotes a libel to reject it is not flagged.

## 2. Modules

| Module | What it is |
| --- | --- |
| `Delivery` | abstract specification of what the outbox promises |
| `Outbox` | store, reporter, client and platform; implements `Delivery` |
| `OutboxProofs` | theorems about `Outbox` |
| `LexiconCache` | the lexicon cache, its callers, the platform and the clock |
| `LexiconProofs` | theorems about `LexiconCache` |
| `Evidence` | cases, posts, comments, verdicts, the lifecycle |
| `EvidenceProofs` | theorems about `Evidence` |
| `CrawlSchedule` | the pure part of the schedule |
| `CrawlLoop` | `next_crawl` and the agents that follow it |
| `CrawlProofs` | theorems about `CrawlSchedule` and `CrawlLoop` |
| `Lanes` | command lanes, capacity group, gateway configuration |
| `LanesProofs` | theorems about `Lanes` |
| `WorkAdmission` | roots, handles, waiters and fences of the gateway |
| `Suspension` | the suspension coordinator and its hosts, over `WorkAdmission` |
| `SuspensionProofs` | theorems about `Suspension` |
| `Judgement` | `normalize`, `scan`, `evaluate`, `check` and the `classify` tool |
| `JudgementProofs` | theorems about `Judgement` |
| `MC...` | instances of the above for TLC |

Each module names faulty variants of a few of its operators, directly before the real
one. They are used by no specification: a run in which one replaces the real operator
has to fail, and does, which shows that the property can see that kind of mistake.

### Outbox

`kind`, `status` and `attempts` are the columns of the table. `batch[f]` is what flush `f`
still has to look at of the rows `pendingOutbox` returned; `call[f]` is what its request
has come to. `requests` are requests on the wire, `processing` those the platform works
on, `seen` the idempotency keys it knows, `ledger` how often it processed each row and
`refused` the rows of which it rejected items then.

- `QueueForPlatform`, `SetSent`, `CountFailure`, `PendingOutbox` are the four SQL
  statements. Rows are numbered in `created_at` order; rows created within one
  millisecond have no order in the code, which no property depends on.
- `FlushOutbox`, `Skip`, `Send`, `MarkSent`, `MarkFailed` are the loop of `flushOutbox`,
  cut at its awaits; the row's `requestId` is the key of every attempt.
- `Abort` is the client's timer and every way a connection can drop, before the request
  arrives, after it arrives and after it was acted upon. A request whose sender went away
  is `Disowned`: it may still arrive, also more than once, and nobody hears the answer.
- `Crash` takes a flush away with its snapshot; the table stays.
- `Commit` may reject items of a row whose kind is validated item by item (`ValidatedKind`, the
  lexicon gaps): the answer is a 2xx all the same (`client.ts` 119-121). `MarkSent` takes every
  2xx alike, since `send()` throws the body away; section 5 has what follows.
- `Replay`, `Conflict`, `Refuse`, `Begin`, `Commit`, `GiveUp` are the platform. It is not
  in the repository: its contract is taken from `client.ts` (409 means the key is being
  worked on, 401 and 403 that nothing was done) and from `test/platform-stub.mjs` (a key
  seen before replays the stored response).

### LexiconCache

Only the order of publications matters, so a lexicon is the number of publications it
contains and `curated[v]` is when version `v` came out. `snapshot` and `inFlight` are the
store's fields; `request[c]` is the one request caller `c` may have opened, with its
phase (asked, read by the platform, body under way); `call[c]` is what `c`'s call is
doing or returned; `awaits[c]` is whose promise it awaits. `ServeCached` and `Pull` are the
two branches of `ensureFresh` (and `refresh`), `Loaded` and `Failed` the two ways a request
ends; both run every awaiting caller's continuation, because the handle is cleared and
the callers continue in the same turn of the event loop. `Overdue` stops the clock from
passing a limit: the client's timer up to the headers, the runtime's limit on the body.

### Evidence

Each of the two statements of `recordVerdict` is an action (`InsertVerdict`, `TouchCase`), and
`evaluateLifecycles` is a read of all rows (`ListCases`) followed by one `Evaluate` for each
case on the row it read, which is then taken from those to do (`Without`). Agents and the
evaluator are processes that share the file, and may die in between. `finished` and `known` are
history variables. Findings in comments are recorded like those in posts, and touch no case, as
in the code (`store.ts` 353): the properties of the passing run are about `PostFindings`, which
their names say, and the run `evidence_comment` is about the others. A post's case is fixed by
whoever recorded it first. Posts filed under no case touch no case and are left out.

### CrawlSchedule and CrawlLoop

`ActiveHours` is `activeHours()`: the top hours of the ranking, then those with a real share,
then all hours if fewer than three are left; observations are counted as a set, hour by hour
(`Findings`). `CrawlLoop` keeps each case's histogram (`flaggedHours`), the number of crawls
modulo the baseline interval, the order of `last_crawled_at` as each page's place in line
(`rotation`), stances, and what each agent is doing between `next_crawl` and `recordCrawl`. A
`Question` is a case, or `None` when `caseId` is left out: then every page that is not muted is
due and there is no window to be outside of. The counter is shared by all questions, as in the
code, and any number of agents ask, crawl and record between each other's steps. `GoDormant` is
the lifecycle's part (`Evidence`); neither `DuePages` nor `NextCrawl` looks at `dormant`, as in
the code. `drought` and `overtaken` are history variables: the crawls since the last baseline
crawl, and whether one of them was counted after another had moved the counter. An agent crawls
the first page it is given; an hour passes when every `Routine` question has been asked in it.

### Lanes

Paths here are relative to `src/src/`. `phase[t]` is what has become of task `t`: queued,
running, "late" (its timeout has answered the caller, its body goes on), done, or dropped
(refused or cleared). The three rings of each lane's queue (`process/command-queue.state.ts`)
are the priorities and `older[t]`, the queued tasks that came before `t`; sequence numbers are
global, so one order serves all lanes. `active[l]` is `activeTaskIds`. A generation changes
exactly when `active[l]` is cleared and ids are never used twice, so "the completion is of this
generation" is "the task is still in `active[l]`". `group` is the group `cron-hooks`: absent,
with the reservation, or kept without it for hooks that still run after hooks were turned off.
`main` is the width of the main lane, `closed` the restart drain. `granted` is a history
variable: the width of its lane when a task was last started.

- `Enqueue`, `Refuse` are `enqueueCommandInLane`. A task with a `Parent` is enqueued by its
  parent's body, which waits for it: session to `main`, `cron` to `cron-nested`.
- The code drains synchronously. `pump` holds the lanes whose drain is under way; `Start` and
  `Drained` are its steps, and every other action waits until `pump` is empty.
  `DrainedWith` is what a drain arbitrates between: one lane, or the group.
- `Finish`, `Timeout` end in `Release` (`completeTask` and the drain after it); `EndLate` is
  a body that ends after its timeout.
- `Clear`, `Reset` are used on session lanes only (`auto-reply/reply`,
  `logging/diagnostic-stuck-session-recovery.runtime.ts`); `MarkDraining`, `ResetAll` are the
  restart in process (`cli/gateway-cli/run-loop.ts`); `Configure` is
  `applyGatewayLaneConcurrency`, which a hot reload calls too (`gateway/server-reload-hot.ts`):
  it turns hooks on and off and gives `main` any of `MainWidth`. A lane made wider is drained;
  what runs in a lane made narrower goes on, so `LimitsHold` is about the width in force when
  a running task was started. The lane `subagent` is set in the same way and left out. The first
  publication finds empty lanes: `Init`.

When several lanes are drained in one event, the model takes them in any order, the code in
that of a `Map`. In `ResetAll` tasks that lost their slot run on, as in the code.

### WorkAdmission and Suspension

Paths here are relative to `src/src/` too. A chain is a chain of promises; `root[c]` is the
root it inherited (the `AsyncLocalStorage` store), `holds` the chains with a handle they have
not released, `refs` and `active` the counters of `process/gateway-work-admission.ts`. `retired`
are roots a restart gave up while they still ran, `parked` is `suspendOpenWaiters`, and
`draining`, `signal` and `phase` are the three fences.

- `Request`, `PreparedRestart`, `Timer`, `Try` are the ways into the process; `Detach`,
  `Retain`, `Capture`, `RunScope`, `Fork`, `Outside` and `Enqueue` what a running chain may
  begin. `Fork` is a promise nobody awaits: it inherits the root and holds nothing.
- `BeginSignal`, `ClearSignal`, `Transition`, `MarkDraining` and `Reset` move the fences. Every
  path that opens one has to `Wake` those who wait.
- The coordinator has no `await`, so each of its calls is one step: `Prepare` (admitted as a
  root), `PrepareLapsed`, `Renew`, `Status`, `Resume`, and the timer's `Fire`. `kind`, `mine`,
  `owner` and `ready` are its entry; `mine` is the generation of the lease.
- A lease ends by its timer or by the wall clock a call compares it with. Nothing relates the
  two, so they are two flags, `due` and `lapsed`. `stale` is a callback that was in the queue
  when its timer was re-armed, the case of `infra/gateway-suspend-coordinator.test.ts` 703.
- A prepare that found the gateway busy, or that a later step breaks off, undoes what it did
  (`GiveUp`, the catch branch included). `pauseScheduling()` sets a flag and cannot throw
  (`cron/service/ops-lifecycle.ts` 226-231), so its own branch does not occur.
- `LaneTimeout` is a task that took longer than its lane waits: it is no longer counted, its
  body runs on (`process/command-queue.ts` 430). "Quiet" is therefore said of what is counted.
- `Lift` resumes the scheduler and then reopens admission; the first may fail, which puts the
  entry into recovery with the fence closed.

Decisions: the restart begins after the drain has let everyone who waited run (the run loop
awaits in between); it makes a new scheduler, so `Restart` leaves it running, and the old
coordinator entry could only clean up the old one. Nested admission in a live root changes
nothing. Of the inspectors behind `createGatewayActiveWorkSnapshot` the model keeps roots and
one set of `tasks`. A restart signal has no generation here: a stale rollback does nothing.

### Judgement

Text is a sequence over a small alphabet: letters, one of them in two spellings, a mark of
decoration, a space, punctuation. `Normalize` is `normalize()`: what is stripped and what white
space goes is said by the places that stay (`Kept`). The matcher's regular expression is
modelled by what it matches: at a place it takes the first clitic that goes and then the longest
surface (`MatchAt`), and goes on behind the match: `Found` are the places at which a match could
begin that lie in no match begun before. `Evaluate` sorts the tropes that are met into fired and
held back; `Negated` reads the window around the first place of the first form that is there,
with the cues as they are written in the source. `DetectSignals` and `Excuses` are the exemption
layer, and `Judged` is the tool, which calls it as the code does: without groups or category.
`Type` lets a stranger write any comment up to `MaxText` characters; `Classify` judges it in
every context. The properties compare the verdict with definitions that search nothing: `Words`
are the words of a text that are a surface, `Places` where a trope's forms stand.

## 3. Runs

| Run | Instance | Shows |
| --- | --- | --- |
| `outbox` | 2 rows, 2 kinds, one sent and validated item by item, one without an endpoint, 2 flushes, batch of 2, 2 attempts, 1 crash | all outbox properties, and that `Outbox` implements `Delivery` |
| `outbox_partial` | 1 flush | violated: a row of which items were rejected is marked Sent |
| `lexicon` | 2 callers, 5 ticks, every limit 1 tick, 2 versions | all cache properties |
| `evidence` | 2 cases, 1 post, 2 agents, 1 evaluator, 4 ticks, 2 verdicts, 1 crash | all evidence properties |
| `evidence_comment` | 1 case, 1 post, 1 agent, 1 evaluator, 2 verdicts | violated: a flagged comment does not keep its case out of Cooling |
| `crawl` | 4 hours, 1 case, 2 pages, one of them in no case, 2 agents, 7 histograms, sample of 8, window of 3, share of a fifth, baseline every third, 1 crash | all crawl properties |
| `crawl_coverage` | 24 hours, 1 case, 1 agent, baseline every fifth | violated: hours outside the window are never sampled |
| `crawl_dormant` | as above | violated: a page of a Dormant case is crawled |
| `lanes` | 4 mixes of tasks: 2 cron runs with inner work and a hook; 2 heartbeats and 2 hooks; a cron run with inner work, a hook, 2 runs of a session and 1 inner run; a run of a session with its inner run and 2 more in `main`. 2 cron slots, 1 or 2 main slots, a timeout for one task of each kind, resets, restart, hooks and the width of `main` reconfigured at any time | all properties of the lanes, safety and liveness |
| `suspension` | 2 chains of work, 1 prepare as a root, 1 targeted restart, 2 tickets, one of which drains, 3 calls, 1 fault of the scheduler, 1 restart | all properties of admission and suspension |
| `judgement` | every comment of up to 5 of 8 characters, 2 parent posts, with and without the group; 4 terms, 2 tropes, 2 cues, window of 3 | a verdict's words, spelling and refutations |
| `judgement_kurdish` | as above, up to 4 characters | violated: a Kurdish refutation is not recognised |

**Bounds, and why they are enough.**

- Outbox: two rows put one behind the other in a batch and let one be unsupported; two flushes
  are what overlap needs; two attempts are the least with which a row can fail once and be tried
  again, or fail for good. One kind is validated item by item. The theorems hold for any number
  of each. Liveness (`FlushEnds`, `Settles`) rests on this instance.
- LexiconCache: a version before and one after a pull are what staleness is about; five
  ticks hold a whole cycle of pulling, going stale, failing and pulling again.
  `Slack`, the time a pull may take, is tight: the run fails with one tick less.
- Evidence: two agents interleave their statements; two verdicts make a later one
  overwrite an earlier; four ticks take a case from activity to Dormant and one further.
- CrawlLoop: four hours and a window of three are the smallest day in which an hour is left out.
  The histograms lie on both sides of every boundary of the schedule: one finding short of the
  sample; a tie for the last place; a place lost to a better hour; a share of exactly a fifth; a
  share just below it with three hours left, and with two; all hours equal. Each is one finding
  away from another, so that `Find` moves between them. Two agents are what overtaking needs.
  The 24-hour runs keep every constant of the code but `MIN_SAMPLE`, lowered from 20 to 6 to
  limit the number of histograms; what they show happens after the window is learned, or without
  one.
- Lanes: two slots, one of them reserved, are the smallest group; two tasks in each of its lanes
  let one of each wait and the other hold a slot. A task runs once. The first mix fills the cron
  lane with outer runs, the situation in which inner work in the same lane could never start;
  the second contends for the group; the third brings in the two-level queue of a session; the
  fourth fills `main`, so that making it wider lets a run start and making it narrower leaves
  more running than it now holds. All thirteen tasks at once are too many for one run, and no
  property relates more than a mix holds. The code's widths are 8 (cron) and the configured
  number of agents; the theorems hold for any.
- Suspension: two chains are what a root and its continuation need; with the asker and the
  targeted restart four chains meet the fences. Three calls are a prepare, a renewal of it and
  a second prepare after it lapsed; one fault is enough for a recovery whose retry succeeds,
  and a second of them repeats the first. The safety properties were also checked with three
  chains of work and two calls (6.3 million states).
- Judgement: the alphabet has one character of each kind the code treats differently. The
  longest surface is a phrase of four, so five characters hold it with one more beside it, or a
  clitic and a word, or a form and a cue around the edge of the window. The lexicon holds what
  can collide: a term that begins like a particle, a phrase that begins with another term, a
  term in a variant spelling, a coded term, a pattern.

**Deadlock** is not checked: the bounds stop every model (time, crashes and findings run
out), and an outbox whose rows are settled has nothing left to do.

**Fairness, and why the code justifies it.**

- `Outbox`: a flush goes on (`FlushStep`), because every await in it is bounded: by the
  30 s timer until the headers are in, by the runtime's own limit on bodies after that.
  Somebody starts flushes again and again (`FlushOutbox`): that is the caller's duty.
  Nothing is assumed of the platform, not even that it answers.
- `LexiconCache`: a request ends, for the same two reasons. Nothing else.
- `Evidence`: time passes, a method that was entered runs on unless its process dies, and
  `evaluateLifecycles` is called again and again (the caller's duty).
- `CrawlLoop`: time passes, a crawl ends, and some agent asks each routine question in each
  hour (the scheduler's duty). The last is strong fairness, because an agent that is
  crawling cannot ask.
- `Lanes`: a drain runs to its end, being synchronous. A task does not hold a slot without an
  unanswered child for ever: it ends, or its timer fires. Nothing is assumed of tasks that a
  reset has abandoned, nor that hooks are ever turned on again, and the property leaves exactly
  those out.
- `Suspension`: a waiter that was woken runs, being a microtask; timers fire; a restart signal
  that no drain follows is withdrawn, by the run loop that rejects it or by its own lease. Not
  assumed: that work ends, that hosts resume or stop renewing (their calls are bounded), that
  restarts happen or end.
- `Judgement` has no liveness: `classify` returns or throws.

## 4. What is proved

`OutboxProofs` proves, for any set of rows, kinds and flushes and any limits:

- `TypeCorrect`, `AtMostOnce`, `SentIsProcessed`, from the inductive invariant `IInv`. The
  properties alone are not inductive: "at most once" needs to know that a key is in `seen`
  exactly when its row is in the ledger, that a row is worked on at most once at a time
  and not after it was recorded, and that requests carry the key of their row; "Sent means
  processed" needs that a 2xx on its way to a flush belongs to the row the flush is at. It
  does not say that each item was accepted, which is false (section 5).
- `Refinement`: `Outbox` implements `Delivery`. A step that records maps to `Record`, one
  that marks a row to `Confirm`, one that counts a failure of a row another flush had sent
  to `Reopen`, queueing to `Enqueue`, everything else to a stutter.
- `BudgetOverrun`: with n flushes, attempts exceed the budget by at most n - 1. The
  invariant behind it counts, for each row, the flushes that still have it in their
  snapshot: attempts plus those never exceed the bound.

`LanesProofs` proves, for any finite set of tasks, any sessions, priorities and timeouts,
and any widths with more than one cron slot: `TypeCorrect`, `Limits`, `SlotsHeld`,
`NoIdleCapacity`, `LastSlot` and `Order`, that is, every safety property of run `lanes`. They
follow from one inductive invariant:

- `Arrival`: of two tasks one at most came before the other, which makes `Before` an order.
- `Granted`: of any set of tasks that hold slots of a lane one was started when the lane was
  at least as wide as the set is large. `LimitsHold` says so of all that hold slots; for the
  invariant it must hold of every subset, since tasks end in any order while the width changes.
- `WithinWidths`: the lanes whose width never changes are within it, and the group within cron's.
- `HooksInGroup`: without the group no hook has a slot. Without this, `LimitsHold` would not
  survive cron's inner work starting alone up to its full width.
- `Pending`: a queued task that its limits admit is in a lane some drain under way will come
  to. It is `WorkConserving` strengthened to hold in the middle of a drain. The lemmas behind it
  say that a start makes room for nobody (`StartAdmitsNoMore`) and that slots freed in a lane
  make room only in lanes drained with it (`AdmitsIsLocal`); what is left is one argument
  for each path that frees or adds capacity.

`LastSlot` and `Order` are action properties: each needs that only a `Start` adds a slot.

`SuspensionProofs` proves, for any finite set of chains, any tickets and any bounds on calls,
faults and restarts, every safety property of run `suspension`: `TypeCorrect`,
`HandlesCounted`, `ReadyMeansQuiet` (of the work that is counted), `SchedulerAndFence`,
`EntryAndLease` and `LeaseHeld`. The
invariant has three parts that are nearly independent:

- `Handles`: a reference count is the number of holders of a root. Its induction needs
  `Rooted`: a root is named after a chain that was admitted, so a chain that is admitted now
  cannot inherit references; and only running chains hold handles. One lemma for each thing
  that can happen to roots (own, share, inherit, finish, reset), then one step per action.
- `Quiet`: while the process is prepared no work is in a live root. It needs `Apart`: ordinary
  work never gets into a request of the host, which is the one root that may still be live.
- `Agreement`: fence, entry and scheduler. It needs `DrainSupersedes`: behind a restart's drain
  there is no suspension and none begins, without which the reset could end a lease unseen.

`LexiconProofs` proves, for any callers, timeouts, limits and number of publications, every
safety property of run `lexicon` (`TypeCorrect`, `SharedPull`, `HonestAge`,
`NeverSilentlyStale`, `NeverOlder`) and that nobody awaits a request that is over
(`NobodyForgotten`). The invariant joins the handle to the requests (`Handle`: the one request
that is open is the one in flight, and who waits awaits it) and both to time: a request is
not older than its timeouts allow (`Dates`), a version that was read had been published by
then and contains all that had been (`Answered`), and what is cached or was told is honest in
that sense (`Kept`, `Told`). `NeverOlder` rests on `Versions`: no request that was answered
brings less than what is cached, since it was begun after the one before had ended.

`EvidenceProofs` proves, for any cases, posts, agents, times and number of evaluators,
`TypeCorrect`, `ActivityCovers` and `CoolingIsEarned`; and `Downward` for one evaluator at a
time. The first two of the properties are about findings in posts, the only ones the code counts
as activity. `ActivityCovers` needs that findings are about filed posts (`Filed`) and that
nothing is dated in the future (`Dates`), so that a stamp written late is no older than any
finding; `CoolingIsEarned` that each row of a read covers what was recorded before it
(`ReadCovers`). `Downward` states its condition because it fails without it: of two evaluators,
the one that read a case as Active when it had long been quiet moves it to Cooling after the
other has brought it to Dormant (`store.ts` 178 writes without looking at the state it replaces,
158-164 say "only ever downward"). Its invariant is `RowsAreCurrent`: of the cases still to do,
the row that was read is the row that is there.

`CrawlProofs` proves, for any cases, pages, agents and constants of the schedule:

- `Window`: the window is what `WindowIsSound` defines without ranking all hours first. The
  ranking is a strict total order (`RankGrows`, `RankTotal`), so the top holds exactly as many
  hours as it has places (`TopIsFull`); if the hours worth watching are no more than that, all
  of them are in it (`AllAreChosen`), otherwise all of it is worth watching (`TopIsWorth`); in
  either case no hour left out is better than one that was chosen (`BestAreChosen`).
- `TypeCorrect`, which holds that `rotation` keeps each page in line exactly once.
- `Baseline`: a missing baseline crawl has one cause. Its invariant is `Counted`: unless a
  crawl was overtaken, the drought is at most the distance of the counter from the last
  multiple of the interval. That crawls are overtaken is not excluded, and is how a multiple
  passes unseen: two agents ask before it and both record.

`JudgementProofs` proves every safety property of run `judgement`, for any alphabet, lexicon,
tropes, cues and window and comments of any length:

- `SpellingIsNoWayAround` from `NormalizeIdempotent`: a normal form is plain, with single spaces
  between words, and what is so is left alone. Behind both is one lemma on `Kept`: the
  characters at a set of places, in their order, are a bijection that grows (`KeptInOrder`).
- `HitsAreExactlyWords`: the search has a result at each place where a match could begin
  (`MatchAtMatches`) and as a whole (`FoundMeets`), what it finds is a word, and a word begins
  where a match could begin.
- `RefutersAreSpared`: the place that is looked at is a place of the trope, and a cue that
  stands in the window is in the part of the text that is read.
- `TypeCorrect`: no trope both fires and is held back.

Its invariant is short, since `classify` keeps nothing: a verdict is the one of the comment and
the context it was asked about.

The proofs use the named assumptions on the constants of the modules and nothing else, but for
`Downward`'s condition on evaluators. `CRON > 1` is one of the assumptions: with one slot, reserved
for hooks, cron's inner work would never start (`config/cron-limits.ts` fixes 8). Another is
that letters fold onto letters that do not fold themselves, as in `FOLD` (`normalize.ts` 30-60);
another that no refutation cue is empty (`tropes.ts` 84-104). Where an argument goes through the
numbers one by one (`FoundMeets`), it takes the least counterexample: the library's
well-foundedness of the natural numbers gives it without an induction theorem.

Model-checked only: all liveness (`FlushEnds`, `Settles`, `CallsReturn`, `QuietCaseGoesDormant`,
`PagesTakeTurns`, `EveryTaskIsAnswered`, `EveryWaiterIsAnswered`; fairness and ENABLED are
outside the prover's reach), and the disagreements of section 5, which are counterexamples.

## 5. Where the code and its documents disagree

1. A platform that rejects items of a report says so in the body of a 2xx, "a failure to act
   on, not noise" (`platform/client.ts` 119-121); the body is discarded and the row is Sent
   (`platform/reporter.ts` 42-44 and 89-92; run `outbox_partial`).
2. "A finding is activity", but not one in a comment (`store.ts` 354 and `test/store.test.ts` 62
   against `store.ts` 353; run `evidence_comment`).
3. "A dormant case is not crawled at all", yet its pages are due and handed out (`schema.ts` 36-38
   against `store.ts` 231-249 and `index.ts` 264-293; run `crawl_dormant`).
4. Baseline crawls do not cover the hours outside the window evenly, or at all
   (`schedule.ts` 33 and 139, `README.md` 40, against `index.ts` 264-272; run `crawl_coverage`).
5. A refutation in Kurdish spares nobody: two of the three Kurdish cues contain a letter that
   normalisation folds, and are looked for in normalised text (`tropes.ts` 96-97, 209 and
   `normalize.ts` 41 against `tropes.ts` 78 and 171-172; run `judgement_kurdish`).

Seen while modelling, and modelled as the code has it, without a run of its own:

- A rejected key spends the budget it is said to spare (`platform/client.ts` 199-201 against
  `platform/reporter.ts` 102-103).
- `maxStaleHours = 0` is documented to refuse without a fresh pull, and a cached copy is served
  (`platform/lexicon-store.ts` 37 and `index.ts` 97 against `lexicon-store.ts` 112-114).
- A case in which nothing was found never leaves Active (`store.ts` 158 and `README.md` 43
  against `store.ts` 169-170).
- `docs/concepts/queue.md` 136 says that per-session lanes guarantee one run at a time; after a
  timeout (`src/src/process/command-queue.ts` 430) the next run starts while the body of the
  first may go on. `EndLate` is that body. Writes to the session's record are fenced separately.
- The exemption layer never applies: `classify` builds the checker without groups and passes no
  category (`index.ts` 138-139), so there are no signals; `exemptions.ts` 3 calls the rules
  enforced.
- "Longest first" (`lexicon.ts` 142) holds among surfaces, after the clitic was taken: a
  term that begins like a particle is read as particle and shorter term if that is a term.
- A coded term in scope never flags by itself: `classify` asks for `in_scope` and `is_explicit`
  (`index.ts` 134), and `is_explicit` alone already implies the former.
- A curator's pattern is not normalised, the text it is matched with is.
- A refutation is looked for around the first place of the first form that is found. A comment
  that rejects the libel there and repeats it further on is held back too.
- `normalize.ts` 62 calls the order of stripping and folding load-bearing. Each works on single
  characters and none folds onto a stripped one, so they commute.

## 6. What is not modelled

- Payloads, wording and layout; SQLite's own locking, of which each statement being
  atomic is what the models use.
- Browser sessions: calls to Playwright and the file system around no state of the code's own.
- Reviews: `recordReview` inserts a row, `reviewQueue` is one query; nothing reads a review.
- Of the judgement: operators inside a curator's regular expression, patterns that do not
  compile (`lexicon.ts` 109-124 reports them and leaves them out of the matcher),
  and the wording of reasons.
- Of work admission: the other inspectors of active work (sessions, terminals, replies), which
  are counts like `tasks`; generations of the restart signal; log lines.
- Of the lanes: `onWait` callbacks (none enqueues), the retirement of idle scoped lanes (an
  empty lane and no lane are the same), timers that progress postpones (a timeout may come
  at any time), suspension and root leases (`WorkAdmission`), groups other than the
  gateway's own.
- The rest of OpenClaw: the gateway, the Control UI, native apps, channel and provider
  plugins, cron. They are inherited, and HSMA's own logic does not depend on their state.
- Clocks that are set back. Ages and lifecycles are computed from the wall clock, so a
  step backwards keeps a lexicon fresh and a case active for its length.

## 7. Plan

Done: `Delivery`, `Outbox`, `OutboxProofs`, `LexiconCache`, `Evidence`, `CrawlSchedule`,
`CrawlLoop`, `Lanes`, `LanesProofs`, `WorkAdmission`, `Suspension`, `SuspensionProofs`,
`Judgement`, `LexiconProofs`, `EvidenceProofs`, `CrawlProofs`, `JudgementProofs`. What crosses
`Evidence` and `CrawlLoop` (Dormant cases that are still offered, findings that feed the window)
is modelled in `CrawlLoop` by `GoDormant` and `Find`.

Left: `HsmaAgent`, the two composed over one store, which would replace those two actions by the
lifecycle and the verdicts themselves. All safety properties of the runs are proved.
