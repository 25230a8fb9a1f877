------------------------------- MODULE Expander --------------------------------
(***************************************************************************)
(* coverage/expander.py: waves of backfill policies over the gap set of    *)
(* coverage/inventory.py.  A tick of the expander drives every active wave *)
(* and plans new ones under an advisory lock, while runs end, rows land,   *)
(* and operators trigger and delete wave policies or resume a paused       *)
(* expansion without that lock.                                            *)
(*                                                                         *)
(* A policy of a wave is a number; what is kept of its runs is the latest. *)
(* launch_policy is one step here (CrawlRuns has its own).                 *)
(***************************************************************************)
EXTENDS Integers, FiniteSets, FiniteSetsExt, Sequences

CONSTANTS
  Routable,     \* routable concepts
  Kind,         \* concept -> its entity type and frequency
  Ticks,        \* expander processes: the CronJob's, and those started by hand
  Nobody,       \* no process
  PolicyCount,  \* concept -> policies that its cells are split into
  MaxActive,    \* MAX_ACTIVE_WAVES
  MaxPausedGroups, MaxWavePolicies, Capacity,
  MaxWaves,     \* bound: waves
  MaxUpsets     \* bound: ticks that die, orders of operators, concepts that become stale

ASSUME ConceptAssumption == DOMAIN Kind = Routable /\ DOMAIN PolicyCount = Routable
ASSUME TickAssumption == Nobody \notin Ticks

VARIABLES
  coverage,     \* concept -> "never", "stale" or "fresh", as the inventory has it
  waves,        \* coverage_waves, by id
  latest,       \* wave -> policy -> how its latest run stands
  landed,       \* wave -> rows of its concepts were fetched since it was planned
  lock,         \* the advisory lock
  stage,        \* where each tick stands
  toDrive,      \* the waves it has still to drive; it is at the first
  unlaunched,   \* the policies of that wave it has still to launch
  opened,       \* the open runs it counts for that wave
  excluded,     \* groups it plans no wave for
  counted,      \* len(actives)
  upsets,
  tried         \* history: policies that had a run

driveVars  == <<lock, stage, toDrive, unlaunched, opened, excluded, counted>>
expanderVars == <<coverage, waves, latest, landed, driveVars, upsets, tried>>

Active   == {w \in DOMAIN waves : waves[w].status \in {"planned", "running", "verifying"}}
Paused   == {w \in DOMAIN waves : waves[w].status = "paused"}
GroupsOf(W) == {waves[w].group : w \in W}
PoliciesOf(w) == DOMAIN latest[w]
Group(c) == <<Kind[c], coverage[c]>>
Gap(g)   == {c \in Routable : coverage[c] # "fresh" /\ Group(c) = g}
Stopped  == Cardinality(GroupsOf(Paused)) >= MaxPausedGroups

\* _wave_runs: the policies with a latest run that was not refused for want of a cluster.
RunsOf(w) == {i \in PoliciesOf(w) : latest[w][i] \notin {"none", "refused", "deleted"}}
Open(w)   == {i \in PoliciesOf(w) : latest[w][i] = "running"}
Terminal(w) == RunsOf(w) \ Open(w)
Bad(w)    == {i \in PoliciesOf(w) : latest[w][i] = "bad"}

Headroom ==
  MapThenSumSet(LAMBDA w : Cardinality(Open(w)), DOMAIN waves) < Max({Capacity, 1})

ExpanderInit ==
  /\ coverage \in [Routable -> {"never", "stale"}]
  /\ waves = <<>> /\ latest = <<>> /\ landed = <<>>
  /\ lock = Nobody
  /\ stage = [t \in Ticks |-> "idle"]
  /\ toDrive = [t \in Ticks |-> {}]
  /\ unlaunched = [t \in Ticks |-> {}]
  /\ opened = [t \in Ticks |-> 0]
  /\ excluded = [t \in Ticks |-> {}]
  /\ counted = [t \in Ticks |-> 0]
  /\ upsets = 0
  /\ tried = {}

--------------------------------------------------------------------------------
(* The tick                                                                 *)

\* Mutant: the lock is not looked at.
MayStartUnlocked == TRUE

MayStart == lock = Nobody

\* expand_once: a tick that does not get the lock, or finds too many groups
\* paused, does nothing.
TickStarts(t) ==
  /\ stage[t] = "idle"
  /\ MayStart
  /\ ~Stopped
  /\ lock' = t
  /\ stage' = [stage EXCEPT ![t] = "drive"]
  /\ toDrive' = [toDrive EXCEPT ![t] = Active]
  /\ excluded' = [excluded EXCEPT ![t] = GroupsOf(Paused \cup Active)]
  /\ counted' = [counted EXCEPT ![t] = Cardinality(Active)]
  /\ UNCHANGED <<coverage, waves, latest, landed, unlaunched, opened, upsets, tried>>

Wave(t) == Min(toDrive[t])
At(t, where) == stage[t] = where /\ toDrive[t] # {}
Leave(t) == toDrive' = [toDrive EXCEPT ![t] = @ \ {Wave(t)}]

\* All bad so far, and nothing seen of its concepts.
Hopeless(w) ==
  Cardinality(Terminal(w)) >= 2 /\ Terminal(w) \subseteq Bad(w) /\ ~landed[w]

EarlyPause(t) ==
  /\ At(t, "drive")
  /\ waves[Wave(t)].status \in {"planned", "running"}
  /\ Hopeless(Wave(t))
  /\ waves' = [waves EXCEPT ![Wave(t)].status = "paused"]
  /\ Leave(t)
  /\ UNCHANGED <<coverage, latest, landed, lock, stage, unlaunched, opened, excluded, counted,
                 upsets, tried>>

\* Mutant: a policy that was refused for want of a cluster is not tried again.
UnlaunchedOnce(w) == {i \in PoliciesOf(w) : latest[w][i] \in {"none", "deleted"}}

Unlaunched(w) == PoliciesOf(w) \ RunsOf(w)

BeginLaunching(t) ==
  LET w == Wave(t) IN
  /\ At(t, "drive")
  /\ waves[w].status \in {"planned", "running"}
  /\ ~Hopeless(w)
  /\ waves' = [waves EXCEPT ![w].status = "running"]
  /\ unlaunched' = [unlaunched EXCEPT ![t] = Unlaunched(w)]
  /\ opened' = [opened EXCEPT ![t] = Cardinality(Open(w))]
  /\ stage' = [stage EXCEPT ![t] = "launch"]
  /\ UNCHANGED <<coverage, latest, landed, lock, toDrive, excluded, counted, upsets, tried>>

\* The other conditions of the loop than db_size_ok.
MayLaunch(t) == unlaunched[t] # {} /\ opened[t] < MaxWavePolicies /\ Headroom

\* The next policy of the list.
Next1(t) == Min(unlaunched[t])
Popped(t) == unlaunched' = [unlaunched EXCEPT ![t] = @ \ {Next1(t)}]
Ran(w, i, how) ==
  /\ latest' = [latest EXCEPT ![w][i] = how]
  /\ tried' = IF how = "refused" THEN tried ELSE tried \cup {<<w, i>>}

\* Deleted meanwhile, or an operator has triggered it (single-flight).
SkipPolicy(t) ==
  /\ At(t, "launch") /\ MayLaunch(t)
  /\ latest[Wave(t)][Next1(t)] \in {"deleted", "running"}
  /\ Popped(t)
  /\ UNCHANGED <<coverage, waves, latest, landed, lock, stage, toDrive, opened, excluded, counted,
                 upsets, tried>>

Launched(t) ==
  /\ At(t, "launch") /\ MayLaunch(t)
  /\ latest[Wave(t)][Next1(t)] \notin {"deleted", "running"}
  /\ Ran(Wave(t), Next1(t), "running")
  /\ opened' = [opened EXCEPT ![t] = @ + 1]
  /\ Popped(t)
  /\ UNCHANGED <<coverage, waves, landed, lock, stage, toDrive, excluded, counted, upsets>>

\* The plan-size guardrail, or a launcher that raises: a run that failed.
LaunchFails(t) ==
  /\ At(t, "launch") /\ MayLaunch(t)
  /\ latest[Wave(t)][Next1(t)] \notin {"deleted", "running"}
  /\ Ran(Wave(t), Next1(t), "bad")
  /\ Popped(t)
  /\ UNCHANGED <<coverage, waves, landed, lock, stage, toDrive, opened, excluded, counted,
                 upsets>>

\* No eligible cluster: the other policies wait for the next tick.
NoCluster(t) ==
  /\ At(t, "launch") /\ MayLaunch(t)
  /\ latest[Wave(t)][Next1(t)] \notin {"deleted", "running"}
  /\ Ran(Wave(t), Next1(t), "refused")
  /\ unlaunched' = [unlaunched EXCEPT ![t] = {}]
  /\ UNCHANGED <<coverage, waves, landed, lock, stage, toDrive, opened, excluded, counted,
                 upsets>>

\* Mutant: policies without a run are forgotten.
DrainedOfOpen(w) == RunsOf(w) # {} /\ Open(w) = {}

Drained(w) == RunsOf(w) # {} /\ Open(w) = {} /\ RunsOf(w) = PoliciesOf(w)

\* The loop is over: MayLaunch no longer holds, or the database is over its ceiling
\* (db_size_ok), which it may be before any launch.  The runs are read again.
EndLaunching(t) ==
  LET w == Wave(t) IN
  /\ At(t, "launch")
  /\ waves' = [waves EXCEPT ![w].status = IF Drained(w) THEN "verifying" ELSE @]
  /\ unlaunched' = [unlaunched EXCEPT ![t] = {}]
  /\ opened' = [opened EXCEPT ![t] = 0]
  /\ stage' = [stage EXCEPT ![t] = "drive"]
  /\ Leave(t)
  /\ UNCHANGED <<coverage, latest, landed, lock, excluded, counted, upsets, tried>>

\* Most runs bad (PAUSE_FAILURE_FRACTION: of two or three, one), or none left, and
\* no row: neither counted by a run nor seen in the table.
Systemic(w) ==
  /\ RunsOf(w) = {} \/ Cardinality(Bad(w)) * 10 >= 3 * Cardinality(RunsOf(w))
  /\ ~landed[w]

Verify(t) ==
  LET w == Wave(t) IN
  /\ At(t, "drive")
  /\ waves[w].status = "verifying"
  /\ waves' = [waves EXCEPT ![w].status = IF Open(w) # {} THEN @
                                          ELSE IF Systemic(w) THEN "paused" ELSE "done"]
  /\ Leave(t)
  /\ UNCHANGED <<coverage, latest, landed, lock, stage, unlaunched, opened, excluded, counted,
                 upsets, tried>>

\* _plan_chunks, for concepts that are not worth a common policy.
ChunksOf(C) == MapThenSumSet(LAMBDA c : PolicyCount[c], C)

\* plan_next_wave: a group of the live gap set that can be launched in chunks.
PlanWave(t) ==
  /\ stage[t] = "drive" /\ toDrive[t] = {}
  /\ counted[t] < MaxActive /\ Headroom
  /\ Len(waves) < MaxWaves
  /\ \E g \in {Group(c) : c \in Routable} \ excluded[t] :
       /\ Gap(g) # {}
       /\ waves' = Append(waves, [group |-> g, concepts |-> Gap(g), status |-> "planned"])
       /\ latest' = Append(latest, [i \in 1 .. ChunksOf(Gap(g)) |-> "none"])
       /\ excluded' = [excluded EXCEPT ![t] = @ \cup {g}]
  /\ landed' = Append(landed, FALSE)
  /\ toDrive' = [toDrive EXCEPT ![t] = {Len(waves) + 1}]
  /\ counted' = [counted EXCEPT ![t] = @ + 1]
  /\ UNCHANGED <<coverage, lock, stage, unlaunched, opened, upsets, tried>>

Forget(t) ==
  /\ lock' = IF lock = t THEN Nobody ELSE lock
  /\ stage' = [stage EXCEPT ![t] = "idle"]
  /\ toDrive' = [toDrive EXCEPT ![t] = {}]
  /\ unlaunched' = [unlaunched EXCEPT ![t] = {}]
  /\ opened' = [opened EXCEPT ![t] = 0]
  /\ excluded' = [excluded EXCEPT ![t] = {}]
  /\ counted' = [counted EXCEPT ![t] = 0]

\* No slot, no headroom, or no group with a launchable chunk.
TickEnds(t) ==
  /\ stage[t] = "drive" /\ toDrive[t] = {}
  /\ Forget(t)
  /\ UNCHANGED <<coverage, waves, latest, landed, upsets, tried>>

Upset == upsets < MaxUpsets /\ upsets' = upsets + 1

\* The process dies, and its session with the lock.
TickDies(t) ==
  /\ stage[t] # "idle"
  /\ Upset
  /\ Forget(t)
  /\ UNCHANGED <<coverage, waves, latest, landed, tried>>

--------------------------------------------------------------------------------
(* Runs, rows and operators                                                 *)

\* The reconciler closes a run: failed or zero_yield, or anything else.
RunEnds(w, i) ==
  /\ latest[w][i] = "running"
  /\ \E verdict \in {"good", "bad"} : latest' = [latest EXCEPT ![w][i] = verdict]
  /\ UNCHANGED <<coverage, waves, landed, driveVars, upsets, tried>>

\* Rows of a concept, seen by every wave that has it: of another granularity than the
\* inventory looks at, old, or up to date.
Lands(w, c) ==
  /\ Open(w) # {} /\ c \in waves[w].concepts
  /\ \E state \in {coverage[c], "fresh"} \cup (IF coverage[c] = "never" THEN {"stale"} ELSE {}) :
       coverage' = [coverage EXCEPT ![c] = state]
  /\ landed' = [v \in DOMAIN landed |-> landed[v] \/ c \in waves[v].concepts]
  /\ UNCHANGED <<waves, latest, driveVars, upsets, tried>>

Ages(c) ==
  /\ coverage[c] = "fresh"
  /\ Upset
  /\ coverage' = [coverage EXCEPT ![c] = "stale"]
  /\ UNCHANGED <<waves, latest, landed, driveVars, tried>>

\* policy_trigger_now of a policy of a wave.
TriggerPolicy(w, i) ==
  /\ Upset
  /\ latest[w][i] \notin {"running", "deleted"}
  /\ \E how \in {"running", "bad", "refused"} : Ran(w, i, how)
  /\ UNCHANGED <<coverage, waves, landed, driveVars>>

\* policy_delete takes the policy's runs along.
Delete(w, i) ==
  /\ Upset
  /\ latest[w][i] # "deleted"
  /\ latest' = [latest EXCEPT ![w][i] = "deleted"]
  /\ UNCHANGED <<coverage, waves, landed, driveVars, tried>>

\* coverage-expand --resume aborts what is paused.
Resume ==
  /\ Paused # {}
  /\ Upset
  /\ waves' = [w \in DOMAIN waves |->
                 IF w \in Paused THEN [waves[w] EXCEPT !.status = "aborted"] ELSE waves[w]]
  /\ UNCHANGED <<coverage, latest, landed, driveVars, tried>>

DriveStep(t) ==
  \/ TickStarts(t) \/ EarlyPause(t) \/ BeginLaunching(t) \/ SkipPolicy(t) \/ Launched(t)
  \/ LaunchFails(t) \/ NoCluster(t) \/ EndLaunching(t) \/ Verify(t) \/ PlanWave(t) \/ TickEnds(t)

RunStep == \E w \in DOMAIN waves : \E i \in PoliciesOf(w) : RunEnds(w, i)

OperatorStep ==
  \/ \E w \in DOMAIN waves : \E i \in PoliciesOf(w) : TriggerPolicy(w, i) \/ Delete(w, i)
  \/ Resume

ExpanderNext ==
  \/ \E t \in Ticks : DriveStep(t) \/ TickDies(t)
  \/ RunStep \/ OperatorStep
  \/ \E w \in DOMAIN waves, c \in Routable : Lands(w, c)
  \/ \E c \in Routable : Ages(c)

ExpanderSpec == ExpanderInit /\ [][ExpanderNext]_expanderVars

\* Ticks are started again and again and go on; runs end; and a launch that is tried
\* in tick after tick finds a cluster, and the database below its ceiling, in the end.
FairExpanderSpec ==
  /\ ExpanderSpec
  /\ WF_expanderVars(\E t \in Ticks : DriveStep(t))
  /\ \A w \in 1 .. MaxWaves, i \in 1 .. ChunksOf(Routable) :
       WF_expanderVars(w \in DOMAIN waves /\ i \in PoliciesOf(w) /\ RunEnds(w, i))
  /\ SF_expanderVars(\E t \in Ticks : Launched(t))

--------------------------------------------------------------------------------
\* However ticks race, die and meet operators, a group has one wave that is active or
\* holds it paused ("a manual tick job raced a CronJob tick and both planned the same
\* group", _try_planning_lock).
OneWavePerGroup ==
  \A v, w \in Active \cup Paused : waves[v].group = waves[w].group => v = w

\* A wave is judged when each of its policies has been tried: not while some wait for
\* capacity or were refused by every cluster ("with 240 chunks never tried").
JudgedWhenTried ==
  \A w \in DOMAIN waves :
    waves[w].status \in {"verifying", "done"} => \A i \in PoliciesOf(w) : <<w, i>> \in tried

\* Every wave is done, paused or aborted in the end, unless one of its policies was
\* deleted, or so many groups are paused that the expansion stops.
WavesSettle ==
  \A w \in 1 .. MaxWaves :
    w \in Active ~> \/ w \notin Active
                    \/ Stopped
                    \/ \E i \in PoliciesOf(w) : latest[w][i] = "deleted"

\* "A wave advances only on evidence": also one of which a policy was deleted.
EveryWaveSettles ==
  \A w \in 1 .. MaxWaves : w \in Active ~> w \notin Active \/ Stopped

\* No concept is crawled by open runs of two waves ("covered concepts are skipped, so
\* resuming never re-crawls", resume).  An early pause leaves the open runs running, and
\* a first old row moves a concept from the group never to the group stale.
CrawledOnce ==
  \A v, w \in DOMAIN waves :
    v # w /\ Open(v) # {} /\ Open(w) # {} => waves[v].concepts \cap waves[w].concepts = {}
================================================================================
