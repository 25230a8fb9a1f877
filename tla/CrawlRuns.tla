------------------------------- MODULE CrawlRuns -------------------------------
(***************************************************************************)
(* refresh/reconciler.py, refresh/runs.py and refresh/platform_mirror.py:  *)
(* the life of a crawl run.  A row of policy_runs, the executor job it     *)
(* stands for, the pod that reports its yield into the row, and the three  *)
(* parties that change rows: the reconciler's ticks (a fresh process each  *)
(* time), operators who trigger, start ad-hoc crawls and cancel, and the   *)
(* pods.  Every database transaction and every call to an executor backend *)
(* is one step; between two steps anybody else may move.                   *)
(*                                                                         *)
(* Rows born closed (refusals and failed launches) carry no job and are    *)
(* never looked at again: what is kept of them is last_run_at.  Leasing    *)
(* policies, which have no job, are the subject of LeasingRuns.            *)
(***************************************************************************)
EXTENDS Naturals, Sequences, FiniteSets

CONSTANTS
  Policies,     \* enabled crawl policies
  Adhoc,        \* policy_id NULL: the target of an ad-hoc launch
  Attributed,   \* policies (or Adhoc) whose run_sources is not empty
  Clusters,     \* worker clusters
  Capacity,     \* clusters.capacity
  Reconciler,   \* the process of the tick
  Operators,    \* processes of the panel and of the MCP server
  MayLaunch,    \* whether operators launch, or only cancel
  None,         \* no cluster, no policy
  Reported,     \* bound: the levels (see Levels) pods report
  EmptyPlans,   \* bound: the values emptyPlan takes
  MaxRuns,      \* bound: jobs ever created; past it backends reject
  MaxClock,     \* bound: cron instants that pass
  MaxFaults     \* bound: crashes, failed calls and jobs garbage-collected

ASSUME PolicyAssumption ==
  /\ Adhoc \notin Policies
  /\ None \notin Policies \cup {Adhoc} \cup Clusters
  /\ Attributed \subseteq Policies \cup {Adhoc}
ASSUME ClusterAssumption == Capacity \in [Clusters -> Nat]
ASSUME ProcessAssumption == Reconciler \notin Operators /\ MayLaunch \in BOOLEAN
ASSUME BoundAssumption == MaxRuns \in Nat /\ MaxClock \in Nat /\ MaxFaults \in Nat
                          /\ Reported \subseteq 1 .. 3 /\ EmptyPlans \subseteq BOOLEAN

VARIABLES
  status,       \* policy_runs.status, NoRow before the insert commits
  policyOf,     \* policy_runs.policy_id
  clusterOf,    \* policy_runs.cluster_id, the cluster of the job
  emptyPlan,    \* plan_cells = 0
  yields,       \* rows_attempted and rows_new, as a level (see Levels)
  cancelledBy,  \* whether cancelled_by was written
  lastRun,      \* crawl_policies.last_run_at
  mirrored,     \* the crawl_runs statuses inserted for the run
  job,          \* the executor job
  clock,        \* cron instants passed; every policy fires at each
  pc,           \* where each process stands
  now,          \* the now its current call started with
  call,         \* its locals: target, the policy it launches; site, what
                \* pick_cluster returned; run, what it launches or cancels
  toProbe,      \* tick: open rows loaded and not yet probed
  seen,         \* tick: the yield the loaded rows carried
  verdict,      \* tick: status assigned in the session, not committed
  closed,       \* tick: the list handed to mirror_run_close
  todo,         \* tick: policies not considered yet
  faults,
  orphans,      \* history: jobs created whose row was never written
  unmirrored,   \* history: runs whose mirror was lost to a fault
  outdated,     \* history: <<x, finding>>, what launch x found and another launch
                \* has changed since: "policy" idle, "cluster" with room
  raced         \* history: <<r, finding>>, run r was recorded on such a finding

rowVars  == <<status, policyOf, clusterOf, emptyPlan, yields, cancelledBy>>
callVars == <<now, call>>
tickVars == <<toProbe, seen, verdict, closed, todo>>
raceVars == <<outdated, raced>>
vars == <<rowVars, lastRun, mirrored, job, clock, pc, callVars, tickVars,
          faults, orphans, unmirrored, raceVars>>

Runs      == 1 .. MaxRuns
Calls     == [target : Policies \cup {Adhoc, None}, site : Clusters \cup {None},
              run : Runs \cup {0}]
NoCall    == [target |-> None, site |-> None, run |-> 0]
Stages    == {"asleep", "probe", "mirror", "policies", "check", "plan", "create", "record",
              "delete"}
Processes == {Reconciler} \cup Operators

NoRow     == "no row"
Open      == "running"
Cancelled == "cancelled"
Verdicts  == {"success", "redundant", "zero_yield", "no_op"}
Closed    == Verdicts \cup {"failed", Cancelled}
Statuses  == {NoRow, Open} \cup Closed

PlatformStatuses == {"success", "failed", Cancelled}

\* counters absent; nothing attempted; nothing new; new rows
Levels == 0 .. 3

JobStates == {"none", "active", "retrying", "succeeded", "failed", "gone"}

OpenRuns == {r \in Runs : status[r] = Open}

\* The job's pods run, or will: the backend retries a pod that died.
Alive(r) == job[r] \in {"active", "retrying"}

--------------------------------------------------------------------------------
Init ==
  /\ status = [r \in Runs |-> NoRow]
  /\ policyOf = [r \in Runs |-> None]
  /\ clusterOf = [r \in Runs |-> None]
  /\ emptyPlan = [r \in Runs |-> FALSE]
  /\ yields = [r \in Runs |-> 0]
  /\ cancelledBy = [r \in Runs |-> FALSE]
  /\ lastRun = [p \in Policies |-> 0]
  /\ mirrored = [r \in Runs |-> <<>>]
  /\ job = [r \in Runs |-> "none"]
  /\ clock = 0
  /\ pc = [x \in Processes |-> "asleep"]
  /\ now = [x \in Processes |-> 0]
  /\ call = [x \in Processes |-> NoCall]
  /\ toProbe = {}
  /\ seen = [r \in Runs |-> 0]
  /\ verdict = [r \in Runs |-> NoRow]
  /\ closed = {}
  /\ todo = {}
  /\ faults = 0
  /\ orphans = {}
  /\ unmirrored = {}
  /\ outdated = {}
  /\ raced = {}

Goto(x, stage) == pc' = [pc EXCEPT ![x] = stage]

Return(x, stage) == Goto(x, stage) /\ call' = [call EXCEPT ![x] = NoCall]

\* Where a process continues when a launch is over.
Resume(x) == Return(x, IF x = Reconciler THEN "policies" ELSE "asleep")

Fault == faults < MaxFaults /\ faults' = faults + 1

--------------------------------------------------------------------------------
(* launch_policy, launch_adhoc and MultiClusterLauncher.launch             *)

\* policy.last_run_at = now, with the row of a launch or of a refusal.
StampLastRun(x) ==
  lastRun' = [p \in Policies |-> IF p = call[x].target THEN now[x] ELSE lastRun[p]]

\* Mutant: launches do not look for an open run.
HasOpenRunIgnored(p) == FALSE

\* _open_run
HasOpenRun(p) == \E r \in OpenRuns : policyOf[r] = p

\* The policy has no open run: go on to the plan.
NoOpenRun(x) ==
  /\ pc[x] = "check"
  /\ ~HasOpenRun(call[x].target)
  /\ Goto(x, "plan")
  /\ outdated' = outdated \ {<<x, "policy">>}
  /\ UNCHANGED <<rowVars, lastRun, mirrored, job, clock, callVars, tickVars,
                 faults, orphans, unmirrored, raced>>

Skip(x) ==
  /\ pc[x] = "check"
  /\ HasOpenRun(call[x].target)
  /\ Resume(x)
  /\ UNCHANGED <<rowVars, lastRun, mirrored, job, clock, now, tickVars,
                 faults, orphans, unmirrored, raceVars>>

\* The plan is over POLICY_MAX_FETCHES, or a direct policy has no script; or
\* the backend rejected the job: a row born closed is written.  An ad-hoc
\* launch writes no policy, and raises in the second case.
Refuse(x) ==
  /\ pc[x] \in {"plan", "create"}
  /\ StampLastRun(x)
  /\ Resume(x)
  /\ UNCHANGED <<rowVars, mirrored, job, clock, now, tickVars,
                 faults, orphans, unmirrored, raceVars>>

OpenOn(c) == Cardinality({r \in OpenRuns : clusterOf[r] = c})

\* Mutant: a full cluster takes one more.
WithRoomForOneMore(usable) == {c \in usable : OpenOn(c) <= Capacity[c]}

\* The usable clusters (enabled, tagged, egress not banned) with room.
WithRoom(usable) == {c \in usable : OpenOn(c) < Capacity[c]}

\* pick_cluster
PickCluster(x) ==
  /\ pc[x] = "plan"
  /\ \E usable \in SUBSET Clusters : \E c \in WithRoom(usable) :
       /\ \A d \in WithRoom(usable) : OpenOn(c) <= OpenOn(d)
       /\ call' = [call EXCEPT ![x].site = c]
  /\ Goto(x, "create")
  /\ outdated' = outdated \ {<<x, "cluster">>}
  /\ UNCHANGED <<rowVars, lastRun, mirrored, job, clock, now, tickVars,
                 faults, orphans, unmirrored, raced>>

Fresh == {r \in Runs : job[r] = "none"}

\* The backend has created the job of run r.
Submit(r) ==
  /\ r \in Fresh
  /\ \A s \in Fresh : r <= s
  /\ job' = [job EXCEPT ![r] = "active"]

CreateJob(x) ==
  /\ pc[x] = "create"
  /\ \E r \in Runs, empty \in EmptyPlans :
       /\ Submit(r)
       /\ call' = [call EXCEPT ![x].run = r]
       /\ policyOf' = [policyOf EXCEPT ![r] = call[x].target]
       /\ clusterOf' = [clusterOf EXCEPT ![r] = call[x].site]
       /\ emptyPlan' = [emptyPlan EXCEPT ![r] = empty]
  /\ Goto(x, "record")
  /\ UNCHANGED <<status, yields, cancelledBy, lastRun, mirrored, clock, now, tickVars,
                 faults, orphans, unmirrored, raceVars>>

\* The job was created and the answer lost: launch raises all the same.
CreateUnanswered(x) ==
  /\ pc[x] = "create"
  /\ Fault
  /\ \E r \in Runs :
       /\ Submit(r)
       /\ policyOf' = [policyOf EXCEPT ![r] = call[x].target]
       /\ orphans' = orphans \cup {r}
  /\ StampLastRun(x)
  /\ Resume(x)
  /\ UNCHANGED <<status, clusterOf, emptyPlan, yields, cancelledBy, mirrored, clock, now,
                 tickVars, unmirrored, raceVars>>

\* The findings of other launches that the run of x outdates.
Outdates(x) ==
  {<<y, "policy">> : y \in {z \in Processes \ {x} : /\ pc[z] \in {"plan", "create", "record"}
                                                   /\ call[z].target = call[x].target}}
  \cup
  {<<y, "cluster">> : y \in {z \in Processes \ {x} : /\ pc[z] \in {"create", "record"}
                                                    /\ call[z].site = call[x].site}}

\* session.add(PolicyRun(status=_OPEN, ...)) and its commit.
RecordRun(x) ==
  /\ pc[x] = "record"
  /\ outdated' = outdated \cup Outdates(x)
  /\ raced' = raced \cup {<<call[x].run, finding>> :
                            finding \in {f \in {"policy", "cluster"} : <<x, f>> \in outdated}}
  /\ status' = [status EXCEPT ![call[x].run] = Open]
  /\ StampLastRun(x)
  /\ Resume(x)
  /\ UNCHANGED <<policyOf, clusterOf, emptyPlan, yields, cancelledBy, mirrored, job, clock,
                 now, tickVars, faults, orphans, unmirrored>>

LaunchStep(x) ==
  \/ NoOpenRun(x) \/ Skip(x) \/ Refuse(x) \/ PickCluster(x)
  \/ CreateJob(x) \/ CreateUnanswered(x) \/ RecordRun(x)

--------------------------------------------------------------------------------
(* reconcile_once                                                          *)

\* Mutant: the scan is not limited to open rows.
ScannedEveryRow == {r \in Runs : status[r] # NoRow}

Scanned == OpenRuns

\* The tick loads every open row; the objects keep the counters they had.
Scan ==
  /\ pc[Reconciler] = "asleep"
  /\ now' = [now EXCEPT ![Reconciler] = clock]
  /\ toProbe' = Scanned
  /\ seen' = [r \in Runs |-> IF r \in Scanned THEN yields[r] ELSE 0]
  /\ Goto(Reconciler, "probe")
  /\ UNCHANGED <<rowVars, lastRun, mirrored, job, clock, call, verdict, closed, todo,
                 faults, orphans, unmirrored, raceVars>>

\* Mutant: rows fetched and already present count as success.
ClassifyFetched(empty, level) ==
  IF empty THEN "no_op" ELSE IF level <= 1 THEN "zero_yield" ELSE "success"

\* classify_yield, over the plan and the counters of the row object.
Classify(empty, level) ==
  IF empty THEN "no_op"
  ELSE IF level <= 1 THEN "zero_yield"
  ELSE IF level = 2 THEN "redundant"
  ELSE "success"

\* Mutant: a job that is not reported active counts as failed, although its
\* pod may only be pending.
AnswerPendingFailed(r) == IF job[r] = "succeeded" THEN "success" ELSE "failed"

\* Mutant: a failed job is taken for an unreachable one.
AnswerFailedUnknown(r) == IF job[r] = "succeeded" THEN "success" ELSE "unknown"

\* poll, of a backend that answers.  A dead pod is counted in the status
\* field failed, which is looked at before active.
Answer(r) ==
  CASE job[r] = "succeeded" -> "success"
    [] job[r] \in {"failed", "retrying"} -> "failed"
    [] job[r] = "active" -> "running"
    [] OTHER -> "unknown"

ProbeEnded(r) ==
  /\ pc[Reconciler] = "probe"
  /\ r \in toProbe
  /\ Answer(r) \in {"success", "failed"}
  /\ toProbe' = toProbe \ {r}
  /\ verdict' = [verdict EXCEPT ![r] =
       IF Answer(r) = "failed" THEN "failed" ELSE Classify(emptyPlan[r], seen[r])]
  /\ UNCHANGED <<rowVars, lastRun, mirrored, job, clock, pc, callVars, seen, closed, todo,
                 faults, orphans, unmirrored, raceVars>>

\* 'running' or 'unknown'; a backend that does not answer is 'unknown' too.
ProbeOpen(r) ==
  /\ pc[Reconciler] = "probe"
  /\ r \in toProbe
  /\ toProbe' = toProbe \ {r}
  /\ UNCHANGED <<rowVars, lastRun, mirrored, job, clock, pc, callVars, seen, verdict, closed,
                 todo, faults, orphans, unmirrored, raceVars>>

Assigned == {r \in Runs : verdict[r] # NoRow}

\* Mutant: only the runs of successful jobs are kept for the mirror.
ToMirrorSucceeded == {r \in Assigned : verdict[r] \in Verdicts}

ToMirror == Assigned

\* One commit writes every assigned status, by primary key, and expires what
\* the session had loaded.
CloseRuns ==
  /\ pc[Reconciler] = "probe"
  /\ toProbe = {}
  /\ closed' = ToMirror
  /\ status' = [r \in Runs |-> IF r \in Assigned THEN verdict[r] ELSE status[r]]
  /\ seen' = [r \in Runs |-> 0]
  /\ verdict' = [r \in Runs |-> NoRow]
  /\ Goto(Reconciler, "mirror")
  /\ UNCHANGED <<policyOf, clusterOf, emptyPlan, yields, cancelledBy, lastRun, mirrored, job,
                 clock, callVars, toProbe, todo, faults, orphans, unmirrored, raceVars>>

\* Mutant: the statuses of the concept line are written as they are.
PlatformStatusUnmapped(s) == s

\* _STATUS_MAP
PlatformStatus(s) == IF s \in Verdicts THEN "success" ELSE s

\* mirror_run_close: the row is read afresh and a crawl_runs row is inserted
\* in a transaction of its own, whose failure is swallowed.
Mirror(r) ==
  IF policyOf[r] \in Attributed
  THEN \/ /\ mirrored' = [mirrored EXCEPT ![r] = Append(@, PlatformStatus(status[r]))]
          /\ UNCHANGED <<faults, unmirrored>>
       \/ /\ Fault
          /\ unmirrored' = unmirrored \cup {r}
          /\ UNCHANGED mirrored
  ELSE UNCHANGED <<mirrored, faults, unmirrored>>

MirrorClose(r) ==
  /\ pc[Reconciler] = "mirror"
  /\ r \in closed
  /\ closed' = closed \ {r}
  /\ Mirror(r)
  /\ UNCHANGED <<rowVars, lastRun, job, clock, pc, callVars, toProbe, seen, verdict, todo,
                 orphans, raceVars>>

StartPolicies ==
  /\ pc[Reconciler] = "mirror"
  /\ closed = {}
  /\ todo' = Policies
  /\ Goto(Reconciler, "policies")
  /\ UNCHANGED <<rowVars, lastRun, mirrored, job, clock, callVars, toProbe, seen, verdict,
                 closed, faults, orphans, unmirrored, raceVars>>

\* Mutant: the fire that fell into the current tick's instant is missed.
CronDueStrict(p) == lastRun[p] + 1 < now[Reconciler]

\* _cron_due
CronDue(p) == lastRun[p] < now[Reconciler]

NotDue(p) ==
  /\ pc[Reconciler] = "policies"
  /\ p \in todo
  /\ ~CronDue(p)
  /\ todo' = todo \ {p}
  /\ UNCHANGED <<rowVars, lastRun, mirrored, job, clock, pc, callVars, toProbe, seen, verdict,
                 closed, faults, orphans, unmirrored, raceVars>>

LaunchDue(p) ==
  /\ pc[Reconciler] = "policies"
  /\ p \in todo
  /\ CronDue(p)
  /\ todo' = todo \ {p}
  /\ call' = [call EXCEPT ![Reconciler].target = p]
  /\ Goto(Reconciler, "check")
  /\ UNCHANGED <<rowVars, lastRun, mirrored, job, clock, now, toProbe, seen, verdict, closed,
                 faults, orphans, unmirrored, raceVars>>

\* _frozen_window refuses a due policy before launch_policy is called.
RefuseFrozen(p) ==
  /\ pc[Reconciler] = "policies"
  /\ p \in todo
  /\ CronDue(p)
  /\ todo' = todo \ {p}
  /\ lastRun' = [lastRun EXCEPT ![p] = now[Reconciler]]
  /\ UNCHANGED <<rowVars, mirrored, job, clock, pc, callVars, toProbe, seen, verdict, closed,
                 faults, orphans, unmirrored, raceVars>>

TickEnds ==
  /\ pc[Reconciler] = "policies"
  /\ todo = {}
  /\ Goto(Reconciler, "asleep")
  /\ UNCHANGED <<rowVars, lastRun, mirrored, job, clock, callVars, tickVars, faults, orphans,
                 unmirrored, raceVars>>

TickStep ==
  \/ Scan \/ CloseRuns \/ StartPolicies \/ TickEnds
  \/ \E r \in Runs : ProbeEnded(r) \/ ProbeOpen(r) \/ MirrorClose(r)
  \/ \E p \in Policies : NotDue(p) \/ LaunchDue(p) \/ RefuseFrozen(p)

--------------------------------------------------------------------------------
(* Operators: policy_trigger_now, launch_adhoc, cancel_run                 *)

StartLaunch(x, t, stage) ==
  /\ pc[x] = "asleep"
  /\ MayLaunch
  /\ now' = [now EXCEPT ![x] = clock]
  /\ call' = [call EXCEPT ![x].target = t]
  /\ Goto(x, stage)
  /\ UNCHANGED <<rowVars, lastRun, mirrored, job, clock, tickVars, faults, orphans,
                 unmirrored, raceVars>>

TriggerNow(x) == \E p \in Policies : StartLaunch(x, p, "check")

\* No single-flight for an ad-hoc run.
LaunchAdhoc(x) == StartLaunch(x, Adhoc, "plan")

\* Mutant: cancel does not compare the status it replaces.
CancellableAny(r) == status[r] # NoRow

Cancellable(r) == status[r] = Open

\* The CAS of cancel_run and its commit; when it loses nothing changes.
Cancel(x, r) ==
  /\ pc[x] = "asleep"
  /\ Cancellable(r)
  /\ status' = [status EXCEPT ![r] = Cancelled]
  /\ cancelledBy' = [cancelledBy EXCEPT ![r] = TRUE]
  /\ call' = [call EXCEPT ![x].run = r]
  /\ Goto(x, "mirror")
  /\ UNCHANGED <<policyOf, clusterOf, emptyPlan, yields, lastRun, mirrored, job, clock, now,
                 tickVars, faults, orphans, unmirrored, raceVars>>

MirrorCancel(x) ==
  /\ pc[x] = "mirror"
  /\ Mirror(call[x].run)
  /\ Goto(x, "delete")
  /\ UNCHANGED <<rowVars, lastRun, job, clock, callVars, tickVars, orphans, raceVars>>

\* launcher.delete; a job already finished is collected as well.
DeleteJob(x) ==
  /\ pc[x] = "delete"
  /\ job' = [job EXCEPT ![call[x].run] = "gone"]
  /\ Return(x, "asleep")
  /\ UNCHANGED <<rowVars, lastRun, mirrored, clock, now, tickVars, faults, orphans,
                 unmirrored, raceVars>>

DeleteFails(x) ==
  /\ pc[x] = "delete"
  /\ Fault
  /\ Return(x, "asleep")
  /\ UNCHANGED <<rowVars, lastRun, mirrored, job, clock, now, tickVars, orphans,
                 unmirrored, raceVars>>

OperatorStep(x) ==
  \/ TriggerNow(x) \/ LaunchAdhoc(x)
  \/ \E r \in Runs : Cancel(x, r)
  \/ MirrorCancel(x) \/ DeleteJob(x) \/ DeleteFails(x)

--------------------------------------------------------------------------------
(* Pods, executor backends, time, crashes                                  *)

\* report_run_yield: an UPDATE by job_ref, which finds nothing before the row
\* is committed.  An empty plan never flushes.
ReportYield(r) ==
  /\ Alive(r)
  /\ status[r] # NoRow
  /\ ~emptyPlan[r]
  /\ \E level \in Reported :
       /\ level > yields[r]
       /\ yields' = [yields EXCEPT ![r] = level]
  /\ UNCHANGED <<status, policyOf, clusterOf, emptyPlan, cancelledBy, lastRun, mirrored, job,
                 clock, pc, callVars, tickVars, faults, orphans, unmirrored, raceVars>>

\* A pod is evicted or its node lost, and the job starts another one.
PodDies(r) ==
  /\ job[r] = "active"
  /\ Fault
  /\ job' = [job EXCEPT ![r] = "retrying"]
  /\ UNCHANGED <<rowVars, lastRun, mirrored, clock, pc, callVars, tickVars, orphans, unmirrored, raceVars>>

JobEnds(r) ==
  /\ Alive(r)
  /\ \E outcome \in {"succeeded", "failed"} : job' = [job EXCEPT ![r] = outcome]
  /\ UNCHANGED <<rowVars, lastRun, mirrored, clock, pc, callVars, tickVars, faults, orphans,
                 unmirrored, raceVars>>

\* ttlSecondsAfterFinished: a finished job is removed, with its outcome.
JobCollected(r) ==
  /\ job[r] \in {"succeeded", "failed"}
  /\ Fault
  /\ job' = [job EXCEPT ![r] = "gone"]
  /\ UNCHANGED <<rowVars, lastRun, mirrored, clock, pc, callVars, tickVars, orphans, unmirrored, raceVars>>

CronFires ==
  /\ clock < MaxClock
  /\ clock' = clock + 1
  /\ UNCHANGED <<rowVars, lastRun, mirrored, job, pc, callVars, tickVars, faults, orphans,
                 unmirrored, raceVars>>

\* The process dies: what its session had not committed is gone, and so is
\* the list of runs it was going to mirror.
Crash(x) ==
  /\ pc[x] # "asleep"
  /\ Fault
  /\ orphans' = IF pc[x] = "record" THEN orphans \cup {call[x].run} ELSE orphans
  /\ unmirrored' = unmirrored \cup
       (IF pc[x] # "mirror" THEN {} ELSE IF x = Reconciler THEN closed ELSE {call[x].run})
  /\ IF x = Reconciler
     THEN /\ toProbe' = {} /\ closed' = {} /\ todo' = {}
          /\ seen' = [r \in Runs |-> 0]
          /\ verdict' = [r \in Runs |-> NoRow]
     ELSE UNCHANGED tickVars
  /\ Return(x, "asleep")
  /\ UNCHANGED <<rowVars, lastRun, mirrored, job, clock, now, raceVars>>

Next ==
  \/ TickStep
  \/ \E x \in Processes : LaunchStep(x) \/ Crash(x)
  \/ \E x \in Operators : OperatorStep(x)
  \/ \E r \in Runs : ReportYield(r) \/ PodDies(r) \/ JobEnds(r) \/ JobCollected(r)
  \/ CronFires

Spec == Init /\ [][Next]_vars

\* The CronJob keeps starting ticks, and a tick that is not killed runs on;
\* every job ends; a backend that is asked again and again answers one day.
FairSpec ==
  /\ Spec
  /\ WF_vars(TickStep \/ LaunchStep(Reconciler))
  /\ \A r \in Runs : WF_vars(JobEnds(r)) /\ SF_vars(ProbeEnded(r))

--------------------------------------------------------------------------------
(* Properties                                                              *)

\* Every variable holds a value its column or its call may hold.
TypeOK ==
  /\ status \in [Runs -> Statuses]
  /\ policyOf \in [Runs -> Policies \cup {Adhoc, None}]
  /\ clusterOf \in [Runs -> Clusters \cup {None}]
  /\ emptyPlan \in [Runs -> BOOLEAN]
  /\ yields \in [Runs -> Levels]
  /\ cancelledBy \in [Runs -> BOOLEAN]
  /\ lastRun \in [Policies -> Nat]
  /\ mirrored \in [Runs -> Seq(PlatformStatuses)]
  /\ job \in [Runs -> JobStates]
  /\ clock \in Nat
  /\ pc \in [Processes -> Stages]
  /\ now \in [Processes -> Nat]
  /\ call \in [Processes -> Calls]
  /\ toProbe \subseteq Runs
  /\ seen \in [Runs -> Levels]
  /\ verdict \in [Runs -> {NoRow, "failed"} \cup Verdicts]
  /\ closed \subseteq Runs
  /\ todo \subseteq Policies
  /\ faults \in Nat
  /\ orphans \subseteq Runs
  /\ unmirrored \subseteq Runs
  /\ outdated \subseteq Processes \X {"policy", "cluster"}
  /\ raced \subseteq Runs \X {"policy", "cluster"}

\* A verdict never claims more than the pod reported: success needs new rows,
\* redundant needs fetched rows, no_op an empty plan (classify_yield), however
\* old the counters were that the tick classified.
VerdictNotInflated ==
  \A r \in Runs :
    /\ status[r] = "success" => yields[r] = 3
    /\ status[r] = "redundant" => yields[r] >= 2
    /\ status[r] = "no_op" => emptyPlan[r]

\* A job whose pods run is known to somebody: its row is open or was cancelled,
\* its launcher is about to write the row, or a fault is on record for it (a
\* launcher that died or got no answer, a dead pod taken for a dead job).
ActiveJobAccounted ==
  \A r \in Runs : Alive(r) =>
    \/ status[r] = Open \/ cancelledBy[r]
    \/ \E x \in Processes : pc[x] = "record" /\ call[x].run = r
    \/ r \in orphans
    \/ job[r] = "retrying" /\ status[r] = "failed"

\* A closed run that can be attributed to sources is in crawl_runs, or is about
\* to be put there by whoever closed it, or was lost to a fault
\* (mirror_run_close after each close).
CloseAccounted ==
  \A r \in Runs : status[r] \in Closed /\ policyOf[r] \in Attributed =>
    \/ mirrored[r] # <<>>
    \/ r \in unmirrored
    \/ pc[Reconciler] = "mirror" /\ r \in closed
    \/ \E x \in Operators : pc[x] = "mirror" /\ call[x].run = r

\* A run nobody cancelled is mirrored at most once, with the status its row
\* keeps: ticks do not close a run twice.
MirroredOnce ==
  \A r \in Runs : ~cancelledBy[r] => mirrored[r] \in {<<>>, <<PlatformStatus(status[r])>>}

\* The status a run got from a tick is final: neither a late cancel, nor a
\* later tick, nor a late report of the pod replaces it (the CAS of cancel_run).
NaturalCloseStands ==
  [][\A r \in Runs : status[r] \in Closed \ {Cancelled} => status'[r] = status[r]]_vars

\* Single-flight as far as it goes: of the open runs of a policy at most one was
\* recorded by a launch that no other overtook between its look for an open run
\* (_open_run) and its insert.  Nothing but such a race gives a policy two.
SecondRunOnlyByRace ==
  \A p \in Policies :
    Cardinality({r \in OpenRuns : policyOf[r] = p /\ <<r, "policy">> \notin raced}) <= 1

\* pick_cluster as far as it goes: open runs beyond the capacity of a cluster were
\* recorded by launches that another overtook between their count and their insert.
OverfullOnlyByRace ==
  \A c \in Clusters :
    Cardinality({r \in OpenRuns : clusterOf[r] = c /\ <<r, "cluster">> \notin raced})
      <= Capacity[c]

\* Single-flight (_open_run): a policy has at most one open run.
OneOpenRun ==
  \A p \in Policies : Cardinality({r \in OpenRuns : policyOf[r] = p}) <= 1

\* pick_cluster: a cluster never has more open runs than its capacity.
CapacityRespected == \A c \in Clusters : OpenOn(c) <= Capacity[c]

\* An open run is closed in the end, unless its job was removed before a tick
\* could see how it ended: then poll answers 'unknown' for ever.
EveryRunCloses ==
  \A r \in Runs : status[r] = Open ~> (status[r] # Open \/ job[r] = "gone")

\* The open run that single-flight waits for has lost its job.
Blocked(p) == \E r \in OpenRuns : policyOf[r] = p /\ job[r] = "gone"

\* Every instant at which the cron of a policy fires is followed by a launch or
\* a recorded refusal, unless the policy is blocked by a run of a lost job.
DueIsServed ==
  \A p \in Policies, n \in 1 .. MaxClock :
    clock >= n ~> (lastRun[p] >= n \/ Blocked(p))

\* reconciler.py:1212: "Cancelled runs are terminal by the CAS in
\* runs.cancel_run".
CancelledIsTerminal ==
  [][\A r \in Runs : status[r] = Cancelled => status'[r] = Cancelled]_vars

\* reconciler.py:1107: "the verdict is derived HERE, at run closure", from the
\* facts the pod reported.
VerdictFitsCounters ==
  \A r \in Runs : status[r] \in Verdicts => status[r] = Classify(emptyPlan[r], yields[r])
================================================================================
