# Verification of fd-open-data-mcp

TLA+ specifications of the parts of fd-open-data-mcp in which several processes
share state, the TLC configurations that model-check them on small instances,
and TLAPS proofs of their main theorems for instances of every size.

    tlc -workers 2 -config MCCrawlRuns.cfg MCCrawlRuns     # a run
    tlapm LeaseQueueProofs.tla                             # the proofs

`PROJECT.json` lists the components, the runs with what each shows, the source
lines every definition stands for, the hazards and the theorems. Paths below are
under `src/fd_open_data_mcp/`.

## The system

fd-open-data-mcp is an MCP server over a catalog of financial concepts. Data is
crawled into an observation store by *policies* (what to crawl, when), planned
into *crawl plans* and executed by pods on worker clusters. Its parts, the state
each keeps, and what makes each correct:

| part | state | operations | hard because | correct if | modules |
|---|---|---|---|---|---|
| **Lease queue** `stream/lease.py` | available list, lease table, done set; in memory or in Redis | enqueue, claim, ack, reclaim_expired, stats; the `run_worker` loop | workers crash and overrun leases; the Redis backend is not atomic | an item is never lost, and completed once | `WorkQueue`, `LeaseQueue`, `RedisLeaseQueue` |
| **Crawl runs** `refresh/reconciler.py`, `runs.py`, `platform_mirror.py`, `yield_report.py`, `policy_tools.py` | `policy_runs`, `crawl_policies.last_run_at`, `crawl_runs`; jobs in executor backends | the tick (scan, poll, close, mirror, launch what is due), trigger-now, ad-hoc launch, cancel, yield reports | ticks, operators and pods interleave between transactions; calls to backends fail or lose their answer; ticks crash | terminal states stand, verdicts tell the truth, a second open run only where two launches overlap, every close is mirrored, every due policy is served | `CrawlRuns` |
| **Leasing runs** `_launch_leasing`, `lease_queue_for` | the parent row; the queue in a process's memory | launch, completion probe, workers | processes end and restart; others probe | a process closes no parent over items of its own | `LeasingRuns` |
| **Crawl planning** `crawl/planner.py`, `crawl/split.py`, `fetch/suppress.py`, `build_date_range` | suppression streaks; observations, from which the watermark is read | plan, split, suppress, clear | what a plan leaves out, boundaries, a watermark over all entities | each path is planned or reported, a split is a partition, no period is skipped unseen | `CrawlPlanning` |
| **Coverage expander** `coverage/expander.py`, `coverage/inventory.py` | `coverage_waves`, their policies and runs, an advisory lock | the tick (plan, launch, pause, verify), resume | two ticks at once, capacity that runs out, deleted policies | one wave per group, judged when all was tried, and every wave settles | `Expander` |
| **Stream plane** `stream/`, `push/listener.py` | the stream with its group and pending entries, observations | publish with fallback, read, land, ack, replay | at-least-once delivery, partial failure, reordering | an accepted observation lands or stays in the stream; older data wins only where order is lost | `StreamPlane` |
| **Rollups** `fetch/cache.py`, `visibility/coverage.py` | observations, `concept_source_stats`, `concept_coverage` | write with bump, projection, rebuild | statements of several transactions under READ COMMITTED | counts stay exact | `Rollups` |
| **Gap filling** `fetch/gapfill.py`, `fetch/coverage.py` | observations, `price_empty_intervals` | coverage, fill_gaps | interval arithmetic, answers that change, concurrent writers | missing days are reported and fetched, and fills come to rest where answers can be remembered | `GapFill` |
| **Read-through** `fetch/dispatch.py`, `fetch/cache.py`, `ranking/scorer.py` | observations, `source_rankings` | read, read_range | staleness by period, a ranking that moves under a reader | what was answered and is over stays answered, a miss has tried all | `ReadThrough` |
| **Egress circuits** `proxy/circuit.py`, `probe/job.py`, `fetch/instrumentation.py` | a hash per source and egress in Redis, addresses | record_outcome, probe_transition, the probe cycle | read-modify-write without a lock, clocks | a banned egress rests, is tried again unless probes keep ending the job, and is retired only when it deserves it | `EgressCircuit` |
| **Entity sync** `sync/engine.py`, `sync/locks/` | watermarks, locks | sync, acquire, release | | | - |
| **Control plane** `platform_tools.py`, `station_ops.py` | stations, crawl sources | register, trigger, cancel | check-then-write | one open run per source | - |
| **Presentation** `panel/`, `server.py`, `cli.py`, `visibility/`, `semantic/`, adapters | read models | queries | | | - |

How they interact: the reconciler (a CronJob, one process per tick) and operators
(panel, MCP server) launch plans through a `Launcher` as jobs, or split them into
items of a lease queue; pods report their yield into the run's row by `job_ref`
and land observations directly or through the stream; `pick_cluster` asks the
circuits; the mirror copies closed runs into `crawl_runs`, which the control
plane reads. The expander plans waves from the inventory of observations and launches
their policies by the reconciler's `launch_policy`. Reads that miss go through
read-through or gap filling to the same sources by `instrumented_fetch`, whose outcomes
move the ranking, the suppression and the circuits; whatever lands an observation goes
through `write_cache_range` and so through the rollups.

## Modules

| module | models | extends / uses |
|---|---|---|
| `WorkQueue` | what a lease queue promises, without leases or workers | |
| `LeaseQueue` | `InMemoryLeaseQueue` and `run_worker` | implements `WorkQueue` |
| `RedisLeaseQueue` | `RedisLeaseQueue`, one Redis command per step | |
| `CrawlRuns` | runs, jobs, ticks, operators, pods | |
| `LeasingRuns` | leasing runs over the queues of several processes | |
| `Rollups` | writes, their rollups and the rebuild, one SQL statement per step | |
| `StreamPlane` | producers, stream, consumers, replay | |
| `GapFill` | coverage arithmetic and fills | |
| `EgressCircuit` | a circuit, the fetches through it and the probe job | |
| `CrawlPlanning` | plans, splits, suppression and the crawl that moves the watermark | |
| `ReadThrough` | reads, cache, ranking | |
| `Expander` | waves, ticks, operators | |
| `OrderLemmas` | nothing: lemmas on least and greatest members, places in an order, quotients | |
| `LeaseQueueProofs`, `RedisLeaseQueueProofs`, `CrawlRunsProofs`, `RollupsProofs`, `StreamPlaneProofs` | theorems about the module they name | that module |
| `FetchProofs` | theorems about `GapFill`, `EgressCircuit`, `ReadThrough` | these, `OrderLemmas` |
| `CrawlWorkProofs` | theorems about `LeasingRuns`, `CrawlPlanning`, `Expander` | these, `OrderLemmas` |
| `MC...` | constants for TLC | the module they name |

Definitions marked `Mutant` are plausible bugs of the definition that follows
them. No specification uses them: each is put in the place of its original to see
that a property notices.

### LeaseQueue

`available`, `lease` and `done` are `_available`, `_leased` and `_done`. Each
method holds one `RLock`, so each is one action; a worker is the loop of
`run_worker` with a stage `pc` before each of its calls, so workers interleave
between calls, and `Crash` may hit at any stage. Fresh ULIDs are increasing
numbers. Of time only what the code compares is kept: whether `until_ms` has
passed. It passes at any moment for a lease nobody can ack any more
(`LeaseExpires`); for a lease whose holder still works (`LeaseOverrun`) it does
so `MaxOverruns` times: nothing renews a lease, so a work item that always takes
longer than `lease_ms` is taken away each time and may never be acked.
`IdleStop` and `MaxItems` are arguments of each `run_worker` call.

### RedisLeaseQueue

The same loops, with `enqueue`, `claim`, `ack` and `reclaim_expired` cut into
their Redis commands. An item between two commands is in no key but in the
variables of a worker (`InHand`). `reclaim_expired` works through an old answer
of HGETALL (`seen`). An exception in `ack` is caught by `run_worker`
(`AckRaises`), one in the other operations ends the loop (`Crash`).

### CrawlRuns

A run is an index under which `status`, `policyOf`, `clusterOf`, `emptyPlan`,
`yields` and `cancelledBy` are the columns of its row and `job` is its executor
job. Rows born closed (refusals, failed launches) have no job and are never read
again; what remains of them is `lastRun`. `yields` is the level that
`classify_yield` tells apart: counters absent, nothing attempted, nothing new,
new rows. `mirrored` holds the `crawl_runs` rows inserted for a run.

The tick is the process `Reconciler`: `Scan` loads open rows *with their
counters* (`seen`); `ProbeEnded`/`ProbeOpen` poll one job each; `CloseRuns` is
the commit, which writes each `verdict` by primary key; `MirrorClose` mirrors
one run each in its own transaction; `LaunchDue` and the launch steps handle one
policy each. Operators share the launch steps (`TriggerNow`, `LaunchAdhoc`) and
cancel (`Cancel` is the compare-and-set and its commit, then `MirrorCancel`,
`DeleteJob`). A launch is `NoOpenRun` (the SELECT), `PickCluster`, `CreateJob`,
`RecordRun` (the commit); `Refuse` covers the plan-size guardrail, a missing
script, no eligible cluster and a backend that rejects. Which clusters are
usable (enabled, tagged, egress not banned) is any subset. What a launch has found out,
that the policy has no open run and that the cluster has room, may be out of date when
its row is inserted: the history variables `outdated` and `raced` record which findings
another launch has overtaken (`Outdates`), and which runs were recorded on such a one.

Faults, at most `MaxFaults` of them: a process dies anywhere (`Crash`), a job is
created and the answer lost (`CreateUnanswered`), a mirror insert or a job
delete fails, a pod dies and the job starts another (`PodDies`), a finished job
is removed by its TTL before a tick polled it (`JobCollected`). An unreachable
backend answers `unknown` at any time and is not counted. The backends modelled
are the Kubernetes launchers; scrapyd's poll is the special case that never says
`failed`. One tick runs at a time, which the code leaves to the CronJob.

### LeasingRuns

`memory[host]` is `_MEMORY_QUEUES` of one process. A host ticks, triggers or runs
workers; a `OneShot` host, the deployed `python -m ...refresh.reconciler`, loses
its memory when its tick ends; `closers` remembers whose tick closed a run. Queues are counts, as `LeaseQueue` has their
operations. Leasing runs are kept apart from `CrawlRuns` because no job, poll or
yield report is involved in them.

### Rollups

A writer is one transaction of `write_cache_range`, `write_cache` or
`write_cache_range_new_only`: `Begin` is its query for existing rows, `Insert` its
flush, `LockStats`, `Probe`, `LockCoverage` and `Project` the statements of
`bump_rollups` and `_project_coverage`, `Commit` and `Abort` its end. What PostgreSQL
does is kept where it matters: a query sees what is committed and its own rows, `SELECT
... FOR UPDATE` locks a row that exists and nothing where there is none
(`SelectForUpdate`), the insert of a key another open transaction has inserted waits, and
fails when that one commits (`InsertIfFresh`). `Bucket` maps a date to the point it
counts as: itself, or the month for monthly concepts. The rebuild is a session of its
own with its three reads and the unit of work's flush, of all concepts or of this one
alone (`whole`), which keeps or makes the coverage row of a concept without observations. `latest_date`, `last_fetch` and
the digest are left out.

### StreamPlane

An entry of the log is a point with the number of its emission, so that "newer" has a
meaning; `landed`, `accepted` and `disturbed` are history. `Emit` returns at once
without a sink, `Publish` adds one record, `PublishFails` degrades to the direct write or
gives the error to the caller. `Read` gives new entries to the group, `Land` commits one
landing key, `Ack` acknowledges a whole batch. `Fail` is an exception or a death in a
session: what it had stays pending. `RedisStreamsSink.reclaim` has no caller under
`src/`, so no process of the model reclaims, and a batch that failed is `Stranded`.
Landing is atomic here, as `Rollups` has its statements.

### GapFill

`Gaps` is `coverage()` as a set expression: maximal runs of days instead of sorted lists,
with clipping to the window, the intervals known to be empty, the stretches outside of
the held span, wide interior holes and the density rule. A fill computes its fetchable
intervals once (`Assess`), asks each (`Ask`: ranked sources, of which any may be down),
records an empty answer or inserts what is new, and goes on. Between any two of these a
crawl may store a day, upstream may publish one, and the other fill may do all of it.
`Outer` does not cut its stretches to the window, and `KnownEmpty` does, as in the code:
what is recorded of a window that lies off the held span (`OffSpan`) is not what is read
back, and such a window is asked for at every read. So is one in which a day was
published, or crawled, that an interval recorded as empty covers (`Refuted`).

### EgressCircuit

The hash with the counters the decisions read; times are what is left of them, so
`Tick` lowers them. Names that `GapFill` and `ReadThrough` share with it carry a prefix
(`CircuitInit`, `ReadNext`), so that one module can prove theorems about the three. `ReadCircuit` and `WriteCircuit` are `get_state` and `HSET` of
`record_outcome`, `ProbeRead` and `ProbeWrite` those of `probe_transition`, and anything
may happen in between; a write leaves the fields it does not name (`HSet`).
`instrumented_fetch` is the caller: acquire, fetch, classify, release, and for a
transient failure one retry of the same upstream through the same address. A probe ends
in one of two ways: `ProbeAsk`, with an answer or an error that `_probe_one` catches and
classifies, or `ProbeEscapes`, with any other exception, which ends the cycle before
anything is written. How often it escapes has no bound, and no fairness is against it.
`ProbeDies`, at most `MaxDeaths` times, is a job that is killed or loses Redis or the
database between its probe and its end.

### CrawlPlanning

`PlanCrawl` is `plan_crawl`: candidates, suppression, identifiers, capability, the chain
bound, snapshots and the cell count; `Items` is `split_plan`. `Rank` has each concept's
dispatchable paths in their order, a chain is the set of the best of them, and a chunk
is the set of the entities whose `Place` in the order of ids falls into it. Both are
operators over sets, and what is checked of them is checked in every state that planning, crawling and
time bring about. `FetchCell` lands or loses one cell of the plan, in any order, and
feeds the suppression; `RunDies` loses the rest. `HolesExplained` is about policies that
`FollowsWatermark`: with one start per plan, an entity that enters a filter scope later,
or a daily concept under a monthly policy, has days behind that start which no plan was
to cover. Even then a concept of which nothing is held has no watermark: the days of a
plan that refused it, say because its paths were suppressed, are behind the start of the
next one; `lost` records them (`RefusedCells`). One run is at a time, as single-flight
has it for one policy; runs of several policies at once are not in this model.

### ReadThrough

`Read` looks into the cache and, on a miss, fixes the chain of sources in the order of
the ranking of that moment: a set of attempts with the scores they had, walked by
`First` and `Rest` in the order `Precedes`. `FetchOk` and `FetchFails` move the ranking,
which other readers use, but not a reader that has fixed its own. The ways in which
a read comes back empty are one action (`GiveUp`). Periods, `is_stale` and the choice
among sources (`_prefer`) are those of `fetch/cache.py`, `Served` is what a read would be answered with.

### Expander

A wave has its group, concepts and status; of a policy's runs the latest is kept, as
`_wave_runs` reads no other. A tick holds the advisory lock from `TickStarts` to `TickEnds`, drives
each active wave (`EarlyPause`, or `BeginLaunching` to `EndLaunching`, or `Verify`) and
then plans new ones (`PlanWave`) and drives them at once. Runs end, rows land, and
operators trigger or delete wave policies and resume without the lock. A tick that dies
drops its session and with it the lock. `launch_policy` is one step here; its inside is
in `CrawlRuns`. Into how many policies a concept is split (`_plan_chunks`) is a constant.
`EndLaunching` may come before any launch: `db_size_ok` looks at the size of the
database, which is not in the model.

## Runs

| run | asks | property by property |
|---|---|---|
| `lease_queue` | the lock-protected queue under crashes, overruns and raising work | `Conservation`: an item is in one place, once. `SoleHolder`: fencing. `CompletedOnce`. `AbstractQueue`: refines `WorkQueue`. `EveryItemDone`: liveness. |
| `redis_queue` | the same loops over separate Redis commands | `LossNeedsFault`: no interleaving of live workers loses an item; only a worker that fails with it in hand does. `DoneWasPerformed`. `EveryItemDone`, except what was so lost. |
| `crawl_runs` | one run, raced by tick, operator and pods | `VerdictNotInflated`, `ActiveJobAccounted`, `CloseAccounted`, `MirroredOnce`, `NaturalCloseStands` |
| `crawl_runs_tick` | two policies and two clusters, one process that launches | `SecondRunOnlyByRace`: the second open run of a policy was recorded by a launch that another overtook after its check. `OverfullOnlyByRace`: the same of runs beyond the capacity of a cluster. `EveryRunCloses`, `DueIsServed`. |
| `leasing_runs` | leasing runs of a server and a one-shot tick | `WorkAccounted`. `UndoneIsElsewhere`: no tick closes a run over items of its own process. |
| `rollups` | transactions and a rebuild statement by statement | `StatsExact`, `CoverageProjected`, `NeverUndercounts`, `CleanRebuildExact` |
| `stream_plane` | publish, consume and replay with failures | `NothingLost`, `NewestWins` (while nothing overlaps), `EveryEventLands` (or is trimmed, or its batch failed) |
| `gap_fill` | two fills, a crawl, late days, an outage | `StoredWasPublished`, `WideHolesReported`, `FillsSettle` (but for windows off the span, and intervals no longer empty) |
| `egress_circuit` | two fetches and the probe job on one hash | `CircuitSound`, `RetirementEarned`, `ProbeDecides` (unless probes escape for ever) |
| `crawl_planning` | plans and splits in every state crawling leads to | `PlanAccounted`, `SplitPartitions`, `HolesExplained` |
| `read_through` | two readers, a moving ranking, revisions | `AnsweredStaysAnswered`: what was answered from a source and is over is served to reads of any source or that one, and to closed ranges. `MissIsHonest`. |
| `expander` | two ticks, runs, rows and an upset | `OneWavePerGroup`, `JudgedWhenTried`, `WavesSettle` |

No run repeats the type invariants: each is a theorem, or, for `GapFill`, part of the
inductive invariant of one.

**Bounds.** `lease_queue` has three items in two batches, so that one is enqueued
while others are leased; two workers, of which `w1` polls for ever and `w2` stops
when idle or after two items, and may die; one raise and one overrun, which is
what it takes to have two workers with the same item. `redis_queue` has two items,
since the interleavings of two commands concern one item and the list's order two.
`crawl_runs` has one run, one operator and two faults: its properties relate the
row, the job and the mirrors of one run. `crawl_runs_tick` has two policies
that fire twice, two jobs, two clusters with one slot each and one fault, so that a
policy could get a second open run and a cluster a run too many; when the jobs are
used up the backend rejects. Its pods report nothing and no plan is empty (`Reported`,
`EmptyPlans`), as its properties do not tell verdicts apart. It has no operator, so no
launch of it is overtaken, and its first two properties say that a policy has one open
run and a cluster no more than it has room for. With an operator who triggers the same
policy and starts ad-hoc runs while the tick launches, TLC finds them true as well in
`MCCrawlRunsLaunch.cfg`, which has 1.2 million states, too many for the liveness of the
run, and for any number of policies, clusters and operators they are theorems.
`leasing_runs` has a server and a one-shot tick, two runs of up to two items, and one of
the processes may be killed. `rollups` has two
sources with three dates in two months, so that sources can meet in a point with and
without sharing a date, and three transactions of which two are at once with one of two
rebuilds: a row can be inserted by one, locked by the next and deleted by a rebuild.
`stream_plane` has two points in two landing keys, so that a batch can be landed in
part, two emissions, by a worker with the stream and one without a sink, so that one can be newer, a stream that trims after three entries,
and one failure. `gap_fill` has six days with a holiday from the third to the fifth, a
window that is the holiday and one that is everything, `min_hole_days` two, one late day
and one crawled: holes below, at and above the threshold occur at either edge, and
while only the first day is held the holiday lies off the span. `egress_circuit` has thresholds of two and
three fetches: enough to open, reopen and give up, and for one write to bury another.
`crawl_planning` has two-day months, a daily and a monthly concept, and caps from below
one entity's cells to above all of them; two plans of a policy and a day between them let
a watermark pass what the first plan missed. `read_through` has a source that loses its
rank by failing and a second, and two months. `expander` has two waves of two policies
each, which an early pause needs, of which one at a time may run (`MaxWavePolicies`), and
one upset: a tick that dies, an operator's order, or a concept that becomes stale;
`MaxUpsets = 2` has 838 thousand states and satisfies the invariants as well.

**Fairness.** A worker that has not died goes on with its loop and time passes
(`LeaseQueue`, `RedisLeaseQueue`): `run_worker` blocks nowhere but in `execute`.
The CronJob keeps starting ticks, so `CrawlRuns` assumes weak fairness of the
tick's steps; jobs end (nothing in the code sets a deadline: a job that hangs
keeps its run open); a backend asked in every tick about an ended job answers
in the end, which is strong fairness of `ProbeEnded` since `unknown` answers come in
between. Stream consumers are services that are started again. Windows are
read again and again, by readers and the scheduled prewarm (`GapFill`). Fetches end, the
probe job runs every minute (`EgressCircuit`); that its probes end in a way the job
handles is not assumed, so `ProbeDecides` has the alternative that they escape
infinitely often. Expander ticks come from a CronJob; runs
of a wave end, by `EveryRunCloses`; and a launch that is tried in tick after tick finds a
cluster, and the database below its ceiling, in the end, which is strong fairness of
`Launched`. Operators, upstreams,
producers and faults are under no fairness.

**Deadlock** is looked for where somebody can always move: `lease_queue`,
`redis_queue`, both runs of `CrawlRuns` and `leasing_runs`. In the others everything
comes to rest once the writes, fetches, plans or waves of the bound are used up.

## What the code says and does not do

Statements of the code's documentation that TLC refutes, each in a configuration of its
own that is kept beside the runs (one that stands here twice has two, which TLC shows
with `-continue`); the counterexample is short in each.

| configuration | refutes | the code |
|---|---|---|
| `MCRedisLeaseQueueLost` | `NeverLost`: "a crashed worker's work is redone, never lost" (`stream/lease.py:6`) | a worker that dies between LPOP and HSET, or HDEL and RPUSH, takes the item with it |
| `MCRedisLeaseQueueTwice` | `CompletedOnce`: "A stale token (lease already reclaimed) -> False" (`lease.py:62`) | between HGET and HDEL of an ack the lease can pass to another worker, and both acks succeed |
| `MCCrawlRunsCancel` | `CancelledIsTerminal`: "Cancelled runs are terminal by the CAS" (`refresh/reconciler.py:1212`); "a cancel racing a natural finish can never orphan a running row" (`refresh/runs.py:4`) | the tick writes the statuses of the rows it had loaded by primary key (`reconciler.py:1232`) and overwrites a cancel that committed after its scan |
| `MCCrawlRunsRace` | `OneOpenRun`: "still enforces single-flight" (`policy_tools.py:282`) | open runs are looked up before the launch and recorded after it: a trigger and a tick can both launch |
| `MCCrawlRunsRace` | `CapacityRespected`: a cluster's capacity is its "max concurrent open runs" (`models.py:747`) | the runs of a cluster are counted before the job is created and the row inserted: two launches take the same slot |
| `MCCrawlRunsStale` | `VerdictFitsCounters` (`reconciler.py:1109`) | the tick classifies with counters it loaded before it polled: a run that landed rows is closed `zero_yield` |
| `MCLeasingRunsTick` | `ClosedMeansDrained`: "closes the parent once the queue drains" (`reconciler.py:1158`), "Production builds a RedisLeaseQueue" (`lease.py:235`) | the reconciler never passes Redis: a tick in a process of its own sees an empty queue and closes the parent with nothing done |
| `MCRollupsCoexist` | `PointsExact`: "stays exact even if cross-source coexistence appears" (`visibility/coverage.py:65`) | two sources that insert a date of one month at once do not see each other's row when they probe; the point is counted twice |
| `MCStreamPlaneUnclaimed` | `ReclaimedInTheEnd`: "the messages stay pending and are reclaimed by another consumer" (`stream/ingest.py:16`) | nothing under `src/` calls `reclaim`: what a consumer had when it failed stays pending |
| `MCGapFillEmpty` | `OutageStaysRetryable`: "a failure proves nothing and must stay retryable" (`fetch/gapfill.py:153`) | one source that answers empty is enough to record the interval, also when a better one was down |
| `MCGapFillEmpty` | `ColdIsMissing`: "A cold series (no points at all) reports the whole window missing" (`fetch/coverage.py:18`) | not when an interval of it was recorded as empty (`coverage.py:147`): a window inside it is answered with nothing, and is not asked for again |
| `MCGapFillDelisted` | `OneProbe`: recording "asked and empty" "turns that into one probe" (`fetch/coverage.py:140`) | the stretch between the held span and a window off it is recorded whole and read back cut to the window (`coverage.py:154`, `164-171`): a window behind the end of a delisted series is asked for at every read |
| `MCEgressCircuitEscapes` | `CircuitRecovers`: "recover OPEN circuits and retire permanently-burned proxies" (`probe/job.py:1`) | `_probe_one` catches `runner.FetchError` alone (`probe/job.py:64`). The probe of `nbs-gdp` raises `errors.FetchError`, another class (`adapters/nbs_gdp.py:97`), and that of `yfinance` what the library raises (`fetch/runner.py:82`): the cycle ends, every minute, and the candidates behind it are never probed |
| `MCCrawlPlanningCaughtUp` | `CaughtUpIsNoOp`: "0 means the plan carries no work (a caught-up watermark)" (`crawl/plan.py:88`) | a start past the end is swapped with it (`planner.py:331`): a caught-up watermark counts two cells per entity, or the month |
| `MCReadThroughPeriod` | `CurrentPeriodChecked`: "only the *current* period (today / this month / this year) ... is subject to the fetched_at TTL" (`fetch/cache.py:25`); "Current period still freshness-checked" (`openspec/specs/observation-reading/spec.md:15`, `tests/test_period_cache_reads.py:145`) | `is_stale` takes the granularity of the row, which is "day" for what a read writes, and not the frequency of its concept: of a monthly concept the past days of the current month are final, and never checked |
| `MCReadThroughFinal` | `ServedForEverIsFinal`: a closed period "is a final fact" (`fetch/cache.py:23`) | a value fetched on the day itself becomes final with midnight, unrevised |
| `MCExpanderDeleted` | `EveryWaveSettles`: `running -> verifying` "when its runs are terminal" (`coverage/expander.py:12`) | a wave policy that was deleted is skipped by the launch loop (`expander.py:371`) and stays in `pending`: the wave is never verified and keeps its slot |
| `MCExpanderTwice` | `CrawledOnce`: "covered concepts are skipped, so resuming never re-crawls" (`expander.py:553`) | an early pause leaves its open runs running, and a concept whose first rows are old moves to the group of the stale while its first wave still runs |

Seen while modelling, without a property: `rebuild_concept_rollups` is called safe on a
live system (`coverage.py:185`), and overwrites the count of a write it overlaps, which
is what `drifted` stands for; the state `half_open` of a circuit is never written, and the cooldown
after a failed probe is twice the base, in every cycle; a probe counts an answer that is
permanent or blocked as a failure of the exit; a source without a probe command is
closed as healthy (`probe/job.py:53`); `read_range` returns the series it has just
fetched, without what the cache already held; a slow reader overwrites a newer value
of the cache; an insert that loses a race raises out of `read`, and in a gap fill makes
the batch add nothing without reporting a failure.

## Proofs

Theorems hold for every value of the constants under the assumptions stated in the
module, which TLC evaluates in its runs: sets the code keeps in memory or in a table
are finite where a cardinality is taken, processes of different kinds are different,
bounds and thresholds are natural numbers. `tlapm` proves every step with SMT, Zenon
and LS4.

`LeaseQueueProofs` proves, for every finite set of items, every set of workers and
every bound, that `LeaseQueue` satisfies `TypeOK`, `Conservation`, `SoleHolder`,
`CompletedOnce` and `OnlyHolderCompletes` and implements `WorkQueue`.
None of the properties is inductive alone. The invariant `IInv` adds three facts:
`TokensFresh` (a lease on record was issued before, and no two items share a
token), `AckedIsPerformed` (a worker at its ack has performed its item) and
`HeldIsSubmitted`. `Conservation` needs that the order in which
`reclaim_expired` returns items is some duplicate-free list of them
(`ClaimOrderIsList`) and two lemmas on concatenating duplicate-free sequences.
There is one lemma per action that touches the queue and one for the moves that
do not; `SoleHolder` follows from `TokensFresh`. The refinement maps `todo` to
what is in the list or leased, and each action to one of `WorkQueue` or a stutter.

`RedisLeaseQueueProofs` proves `TypeOK`, `LossNeedsFault` and `DoneWasPerformed` for the
Redis backend. `LossNeedsFault` is inductive once it is known that what is in hand is an
item (`HandsHoldItems`), `DoneWasPerformed` with `AckedIsPerformed`, over the three
commands of an ack.

`CrawlRunsProofs` proves, for every set of policies, clusters and operators and
every bound, that `CrawlRuns` satisfies `TypeOK`, `VerdictNotInflated`,
`ActiveJobAccounted`, `CloseAccounted`, `MirroredOnce`, `NaturalCloseStands`,
`SecondRunOnlyByRace` and `OverfullOnlyByRace`. The inductive invariant comes in layers, each
preserved where the ones before it hold:

- `RowOK`: a row has a job (so `CreateJob` never touches columns of a run that has a
  row); two launchers never record the same run; what the tick holds was open at its
  scan and is now open or cancelled, never closed by anybody else; whoever mirrors a
  run mirrors a closed one. `NaturalCloseStands` follows, as only `RecordRun`,
  `CloseRuns` and `Cancel` write a status.
- `VerdictOK`: the counters the tick carries are never ahead of the row's, and each
  verdict is justified by counters that only grow. `VerdictNotInflated` is its part
  about committed rows.
- `MirrorOK`: outside of mirroring the tick owes nothing; cancelled rows are marked;
  a run nobody cancelled has no mirror before the one that follows its close.
- `JobOK`: a verdict in the session is about a job that ended, or about one whose
  dead pod was taken for it. Without this fact a commit could close a running job.
- `RacesOK`: what a launch has found out still holds up to its commit, or is marked as
  outdated (`Findings`): the policy has no open run, and the cluster has room for one
  more among the runs that were not recorded by a race. Closing rows only lowers both
  counts (`OpenRunsShrink`), and `RecordRun`, which alone raises them, marks what it
  outdates (`RecordRacesOK`). Nothing is assumed of the operators.

`RollupsProofs` proves `TypeOK` and all that the run checks, for any sources, dates and
writers. Behind `StatsExact` are `WriterRows` (the rows of open transactions of a source
are disjoint from each other and from the committed ones, as the unique key has it),
`WriterCounts` (past its `LockStats` a writer holds the lock of its source's row, and its
count is the committed one and its own rows; one that found no row has counted its own
alone, and its insert fails if somebody else was first), `NoRowNoCount`, and `RebuildRows`
(what the rebuild is about to write was counted by it and what it leaves alone is right,
unless a write overlapped). Nobody but the holder of a row's lock changes its count
(`OthersKeep`). `CoverageProjected` needs in addition that what a writer summed still
stands when it commits (`Sums`): other sources' counts commit together with the coverage
row, and that one is locked. `NeverUndercounts` is not inductive; `NotOvercounted` is, by
counting: the coexisting points are no more than the rows that are not the first of their
point, since a writer's probe sees only rows that stay (`Probed`) and adds to a figure
nobody else may change (`Coexists`). The projection subtracts them from all rows, so what
is left is no less than the points. `CleanRebuildExact` follows from `RebuildRows` and
`RebuildFigure`.

`StreamPlaneProofs` proves `TypeOK`, `NothingLost` and `AckedIsLanded` by `Kept`: what the
group was given is landed, pending or trimmed; what an emission returned for is landed
or was added; sessions and direct writers have done the keys they no longer have to
do. `NewestWins` is proved by `Quiet`, which says what being undisturbed means: one
emission and one landing at a time, a stream in the order of its versions (`InOrder`),
and landed entries before those of the batch in progress (`LandedInOrder`).

`FetchProofs` has three parts. For `GapFill` it proves `StoredWasPublished` by `Sourced`
(what a fill is about to store was published by the source it credits), and
`WideHolesReported` without any induction over steps: for every finite set of held days,
every set of recorded intervals and every window, lemmas on maximal runs of days (`Runs`)
show that each wide hole lies in a leading, trailing or interior gap. For `EgressCircuit`
it proves `CircuitTypeOK`, `CircuitSound` and `RetirementEarned` for all thresholds and
any number of fetches. `CircuitSound` holds since every copy in flight is sound as well
(`CopiesSound`) and each outcome and each probe leads from a sound copy to a sound one;
so it does not matter which write comes last. `RetirementEarned` needs `Earned`: as long
as no write has buried another, the cycles of the hash are the failed probes in a row.
For `ReadThrough` it proves `AnsweredStaysAnswered` by `AnswersCached` (the row of an
answer is never taken away from its source, and a row of a date that is over is never
stale), and the action property
`MissIsHonest` by `Chains`: what a reader has tried and what it has still to try are
together the eligible sources, as the order of a set of attempts has a first member
whatever the scores (`FirstExists`).

`CrawlWorkProofs` has three parts as well. For `LeasingRuns` it proves `TypeOK` and
`WorkAccounted` and `UndoneIsElsewhere` for any processes, one-shot or not. What they need
is `RowsEnqueued`: a row that was committed, loaded or found drained has had its items
enqueued, and a queue that was found empty stays so. In a process that has closed a run
its queue is then empty for ever (`ClosersEmpty`), and by `WorkAccounted` what the run has
not completed is in one other process, or gone with one. For `CrawlPlanning`
it proves `PlanAccounted` and `SplitPartitions`: the ranks order the paths of a concept, so
that a set of which a path is left out has exactly `ChainMax` before it (`FrontCount`);
and the place of an entity, divided by the size of a chunk, is the number of its chunk
and of no other (`ChunksPartition`), of which no more than that many have the same
quotient (`SlotCount`). All that they need of a state is that its plan has finite sets
and integer dates (`PlanTyped`), which watermarks over finitely many observations
preserve. `HolesExplained` is not inductive: it speaks of the time before a start, and the
next start depends on what was fetched since. `Followed` adds that up to the end of the
plan every period is settled or awaited (`Covered`) and that the watermark of some
concept is no later than that end (`Advances`); the next start is then the first period
after it at the latest (`NextIsFirst`), so nothing lies between two plans.
For `Expander` it proves `OneWavePerGroup` and `JudgedWhenTried` by `Driving` (a tick
past its start holds the lock, and the groups of all live waves are among those it plans
no wave for) and `RunsAreTried` (whose latest run is or was a run has been tried).

## Only model-checked

Liveness (`EveryItemDone`, `EveryRunCloses`, `DueIsServed`, `EveryEventLands`,
`FillsSettle`, `ProbeDecides`, `WavesSettle`): fairness and `ENABLED` are out of the
prover's reach. `AbstractQueue` and the other action properties and all invariants of the
passing runs are theorems.

## Not modelled

- **Entity sync.** `EntitySyncEngine` has no caller in the package (only
  `scripts/test_sync_engine.py`); `AdvisoryLockManager.acquire` reads `self.timeout`,
  which is never set, and never acquires; a second `acquire` of the file lock replaces the
  entry of the first. There is no behaviour in use to be faithful to.
- **Control plane** (`platform_tools.py`, `station_ops.py`): single-statement changes of
  stations and sources by one operator; what it does to runs, `policy_trigger_now` and
  the deletion of a policy, is in `CrawlRuns` and `Expander`. Deletion of a policy whose
  run is being probed is not.
- **Presentation**: panel, server, CLI, snapshots, digest, semantic search; adapters of
  upstream libraries; manifests and failure texts of jobs; census refresh; registration of
  sources.
- **Rate limiter and proxy selection**: one atomic Redis counter per window, one query.
- **Other programs**: the forwarder, the executor that expands a plan into cells, Redis,
  PostgreSQL, the executor backends. Each is modelled as far as the code uses it and marked
  external in the map.
- **Inside of what is modelled**: the dedup view of sharded stores in reads; runs of
  several policies at once in `CrawlPlanning`, where an explicit policy has a start and
  ends today, periods are days or months, and an empty list of entities, which
  `split.py:44` tells from none, does not occur; the size of chunks in `Expander`, and its lock when it
  cannot be asked for: `_try_planning_lock` then answers True (`expander.py:473`), and two
  ticks may plan at once; a pinned source, a ranking that moves and exceptions of the
  database within a fill in `GapFill`; the reasons for which a read is empty in
  `ReadThrough`; envelope validation and the health report of the stream; `latest_date` of
  the rollups.
