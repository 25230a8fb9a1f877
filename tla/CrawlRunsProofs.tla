---------------------------- MODULE CrawlRunsProofs ----------------------------
(***************************************************************************)
(* What TLC checks of CrawlRuns on a small instance, proved for any number *)
(* of policies, clusters, operators, runs, cron instants and faults.  The  *)
(* facts come in layers, each preserved by every step that starts where    *)
(* the layers before it hold:                                              *)
(*   RowOK       rows, the launches in flight and the tick's working set;  *)
(*   VerdictOK   counters and verdicts;                                    *)
(*   MirrorOK    who still owes which run its mirror;                      *)
(*   ActiveJobAccounted;                                                   *)
(*   RacesOK     what a launch found out still holds when it is recorded,  *)
(*               unless another launch was recorded meanwhile.             *)
(***************************************************************************)
EXTENDS CrawlRuns, FiniteSetTheorems, TLAPS

\* Control flow, and the groups of variables that UNCHANGED names.
USE DEF Processes, Runs, Goto, Return, Resume, Fault, rowVars, callVars, tickVars, raceVars

\* The rows that exist and the work in flight on them.  A row has a job; a
\* launcher about to record its run is alone with it; the tick holds rows that
\* were open when it scanned; whoever mirrors a run mirrors a closed one.
RowsHaveJobs == \A r \in Runs : status[r] # NoRow => job[r] # "none"

LaunchesApart ==
  /\ \A x \in Processes : pc[x] = "record" =>
       call[x].run \in Runs /\ status[call[x].run] = NoRow /\ job[call[x].run] # "none"
  /\ \A x, y \in Processes :
       pc[x] = "record" /\ pc[y] = "record" /\ call[x].run = call[y].run => x = y

TickHoldsScanned ==
  \A r \in Runs : r \in toProbe \/ verdict[r] # NoRow => status[r] \in {Open, Cancelled}

MirrorsClosed ==
  /\ \A r \in closed : status[r] \in Closed
  /\ \A x \in Operators : pc[x] = "mirror" => call[x].run \in Runs /\ status[call[x].run] \in Closed

RowOK == RowsHaveJobs /\ LaunchesApart /\ TickHoldsScanned /\ MirrorsClosed

\* Assigning one field of a call keeps it a call.
LEMMA CallTypes ==
  /\ NoCall \in Calls
  /\ \A c \in Calls :
       /\ c.target \in Policies \cup {Adhoc, None}
       /\ c.site \in Clusters \cup {None}
       /\ c.run \in Runs \cup {0}
       /\ \A t \in Policies \cup {Adhoc, None} : [c EXCEPT !.target = t] \in Calls
       /\ \A s \in Clusters \cup {None} : [c EXCEPT !.site = s] \in Calls
       /\ \A r \in Runs \cup {0} : [c EXCEPT !.run = r] \in Calls
  BY DEF NoCall, Calls

\* A mirrored run gets a platform status.
LEMMA MirrorTypes ==
  ASSUME NEW s \in Closed, NEW m \in Seq(PlatformStatuses)
  PROVE  Append(m, PlatformStatus(s)) \in Seq(PlatformStatuses)
<1>1. PlatformStatus(s) \in PlatformStatuses
  BY DEF PlatformStatus, PlatformStatuses, Closed, Verdicts, Cancelled
<1>2. QED  BY <1>1

\* Mirroring a closed run.
LEMMA MirrorStep ==
  ASSUME TypeOK, BoundAssumption, NEW r \in Runs, status[r] \in Closed, Mirror(r)
  PROVE  /\ mirrored' \in [Runs -> Seq(PlatformStatuses)]
         /\ faults' \in Nat
         /\ unmirrored' \subseteq Runs
<1>1. mirrored[r] \in Seq(PlatformStatuses)
  BY DEF TypeOK
<1>2. Append(mirrored[r], PlatformStatus(status[r])) \in Seq(PlatformStatuses)
  BY <1>1, MirrorTypes
<1>3. mirrored' = mirrored
      \/ mirrored' = [mirrored EXCEPT ![r] = Append(mirrored[r], PlatformStatus(status[r]))]
  BY DEF Mirror
<1>4. mirrored' \in [Runs -> Seq(PlatformStatuses)]
  <2>1. mirrored \in [Runs -> Seq(PlatformStatuses)]
    BY DEF TypeOK
  <2>2. QED  BY <1>2, <1>3, <2>1
<1>5. faults' \in Nat
  <2>1. faults' = faults \/ faults' = faults + 1
    BY DEF Mirror
  <2>2. QED  BY <2>1 DEF TypeOK
<1>6. unmirrored' \subseteq Runs
  <2>1. unmirrored' = unmirrored \/ unmirrored' = unmirrored \cup {r}
    BY DEF Mirror
  <2>2. QED  BY <2>1 DEF TypeOK
<1>7. QED  BY <1>4, <1>5, <1>6

\* Every action keeps every variable in its type; that a mirror is one of the
\* three platform statuses needs that only closed runs are mirrored.
LEMMA StepTypeOK == TypeOK /\ RowOK /\ [Next]_vars => TypeOK'
<1> SUFFICES ASSUME TypeOK, RowOK, [Next]_vars PROVE TypeOK'
  OBVIOUS
<1> USE BoundAssumption DEF TypeOK
<1>1. ASSUME NEW x \in Processes, NoOpenRun(x) PROVE TypeOK'
  BY <1>1 DEF NoOpenRun, Stages
<1>2. ASSUME NEW x \in Processes, Skip(x) PROVE TypeOK'
  BY <1>2, CallTypes DEF Skip, Stages
<1>3. ASSUME NEW x \in Processes, Refuse(x) PROVE TypeOK'
  BY <1>3, CallTypes DEF Refuse, StampLastRun, Stages
<1>4. ASSUME NEW x \in Processes, PickCluster(x) PROVE TypeOK'
  <2>1. pc' \in [Processes -> Stages] /\ outdated' \subseteq Processes \X {"policy", "cluster"}
    BY <1>4 DEF PickCluster, Stages
  <2>2. call' \in [Processes -> Calls]
    BY <1>4, CallTypes DEF PickCluster, WithRoom
  <2>3. QED  BY <1>4, <2>1, <2>2 DEF PickCluster
<1>5. ASSUME NEW x \in Processes, CreateJob(x) PROVE TypeOK'
  BY <1>5, CallTypes DEF CreateJob, Submit, Stages, JobStates
<1>6. ASSUME NEW x \in Processes, CreateUnanswered(x) PROVE TypeOK'
  <2>1. pc' \in [Processes -> Stages] /\ call' \in [Processes -> Calls] /\ faults' \in Nat
    BY <1>6, CallTypes DEF CreateUnanswered, Stages
  <2>2. PICK r \in Runs : /\ job' = [job EXCEPT ![r] = "active"]
                         /\ policyOf' = [policyOf EXCEPT ![r] = call[x].target]
                         /\ orphans' = orphans \cup {r}
    BY <1>6 DEF CreateUnanswered, Submit
  <2>3. call[x].target \in Policies \cup {Adhoc, None}
    BY CallTypes
  <2>4. /\ job' \in [Runs -> JobStates] /\ policyOf' \in [Runs -> Policies \cup {Adhoc, None}]
        /\ orphans' \subseteq Runs
    BY <2>2, <2>3 DEF JobStates
  <2>5. lastRun' \in [Policies -> Nat]
    BY <1>6 DEF CreateUnanswered, StampLastRun
  <2>6. QED  BY <1>6, <2>1, <2>4, <2>5 DEF CreateUnanswered
<1>7. ASSUME NEW x \in Processes, RecordRun(x) PROVE TypeOK'
  <2>1. call[x].run \in Runs
    BY <1>7 DEF RecordRun, RowOK, LaunchesApart
  <2>2. outdated' \subseteq Processes \X {"policy", "cluster"}
    BY <1>7 DEF RecordRun, Outdates
  <2>3. raced' \subseteq Runs \X {"policy", "cluster"}
    <3>1. raced' = raced \cup {<<call[x].run, finding>> :
                                finding \in {f \in {"policy", "cluster"} : <<x, f>> \in outdated}}
      BY <1>7 DEF RecordRun
    <3>2. \A o \in raced' : o \in raced \/ \E f \in {"policy", "cluster"} : o = <<call[x].run, f>>
      BY <3>1
    <3>3. QED  BY <2>1, <3>2
  <2>4. QED  BY <1>7, <2>2, <2>3, CallTypes
             DEF RecordRun, StampLastRun, Stages, Statuses, Closed, Cancelled, Open
<1>8. ASSUME NEW x \in Processes, Crash(x) PROVE TypeOK'
  <2>1. orphans' \subseteq Runs
    BY <1>8 DEF Crash, RowOK, LaunchesApart
  <2>2. unmirrored' \subseteq Runs
    BY <1>8 DEF Crash, RowOK, MirrorsClosed
  <2>3. /\ toProbe' \subseteq Runs /\ closed' \subseteq Runs /\ todo' \subseteq Policies
        /\ seen' \in [Runs -> Levels]
        /\ verdict' \in [Runs -> {NoRow, "failed"} \cup Verdicts]
    <3>1. CASE x = Reconciler
      BY <1>8, <3>1 DEF Crash, Levels
    <3>2. CASE x # Reconciler
      <4>1. UNCHANGED tickVars
        BY <1>8, <3>2 DEF Crash
      <4>2. QED  BY <4>1
    <3>3. QED  BY <3>1, <3>2
  <2>4. /\ pc' \in [Processes -> Stages] /\ call' \in [Processes -> Calls]
        /\ faults' \in Nat
    BY <1>8, CallTypes DEF Crash, Stages
  <2>5. UNCHANGED <<rowVars, lastRun, mirrored, job, clock, now, raceVars>>
    BY <1>8 DEF Crash
  <2>6. QED  BY <2>1, <2>2, <2>3, <2>4, <2>5
<1>9. ASSUME Scan PROVE TypeOK'
  BY <1>9 DEF Scan, Scanned, OpenRuns, Stages, Levels
<1>10. ASSUME NEW r \in Runs, ProbeEnded(r) PROVE TypeOK'
  BY <1>10 DEF ProbeEnded, Answer, Classify, Verdicts
<1>11. ASSUME NEW r \in Runs, ProbeOpen(r) PROVE TypeOK'
  BY <1>11 DEF ProbeOpen
<1>12. ASSUME CloseRuns PROVE TypeOK'
  <2>1. \A r \in Assigned : verdict[r] \in Statuses
    BY DEF Assigned, Statuses, Closed
  <2>2. status' \in [Runs -> Statuses]
    BY <1>12, <2>1 DEF CloseRuns
  <2>3. verdict' \in [Runs -> {NoRow, "failed"} \cup Verdicts] /\ seen' \in [Runs -> Levels]
    BY <1>12 DEF CloseRuns, Levels
  <2>4. QED  BY <1>12, <2>2, <2>3 DEF CloseRuns, ToMirror, Assigned, Stages
<1>13. ASSUME NEW r \in Runs, MirrorClose(r) PROVE TypeOK'
  <2>1. status[r] \in Closed
    BY <1>13 DEF MirrorClose, RowOK, MirrorsClosed
  <2>2. QED  BY <1>13, <2>1, MirrorStep DEF MirrorClose
<1>14. ASSUME StartPolicies PROVE TypeOK'
  BY <1>14 DEF StartPolicies, Stages
<1>15. ASSUME NEW p \in Policies, NotDue(p) PROVE TypeOK'
  BY <1>15 DEF NotDue
<1>16. ASSUME NEW p \in Policies, LaunchDue(p) PROVE TypeOK'
  BY <1>16, CallTypes DEF LaunchDue, Stages
<1>17. ASSUME NEW p \in Policies, RefuseFrozen(p) PROVE TypeOK'
  BY <1>17 DEF RefuseFrozen
<1>18. ASSUME TickEnds PROVE TypeOK'
  BY <1>18 DEF TickEnds, Stages
<1>19. ASSUME NEW x \in Operators, TriggerNow(x) PROVE TypeOK'
  <2>1. pc' \in [Processes -> Stages] /\ now' \in [Processes -> Nat]
    BY <1>19 DEF TriggerNow, StartLaunch, Stages
  <2>2. call' \in [Processes -> Calls]
    BY <1>19, CallTypes DEF TriggerNow, StartLaunch
  <2>3. QED  BY <1>19, <2>1, <2>2 DEF TriggerNow, StartLaunch
<1>20. ASSUME NEW x \in Operators, LaunchAdhoc(x) PROVE TypeOK'
  BY <1>20, CallTypes DEF LaunchAdhoc, StartLaunch, Stages
<1>21. ASSUME NEW x \in Operators, NEW r \in Runs, Cancel(x, r) PROVE TypeOK'
  BY <1>21, CallTypes DEF Cancel, Cancellable, Stages, Statuses, Closed, Cancelled, Open
<1>22. ASSUME NEW x \in Operators, MirrorCancel(x) PROVE TypeOK'
  <2>1. call[x].run \in Runs /\ status[call[x].run] \in Closed
    BY <1>22 DEF MirrorCancel, RowOK, MirrorsClosed
  <2>2. QED  BY <1>22, <2>1, MirrorStep DEF MirrorCancel, Stages
<1>23. ASSUME NEW x \in Operators, DeleteJob(x) PROVE TypeOK'
  BY <1>23, CallTypes DEF DeleteJob, Stages, JobStates
<1>24. ASSUME NEW x \in Operators, DeleteFails(x) PROVE TypeOK'
  <2>1. pc' \in [Processes -> Stages] /\ call' \in [Processes -> Calls] /\ faults' \in Nat
    BY <1>24, CallTypes DEF DeleteFails, Stages
  <2>2. QED  BY <1>24, <2>1 DEF DeleteFails
<1>25. ASSUME NEW r \in Runs, ReportYield(r) PROVE TypeOK'
  <2>1. PICK level \in Reported : yields' = [yields EXCEPT ![r] = level]
    BY <1>25, Zenon DEF ReportYield
  <2>2. level \in Levels
    BY DEF Levels
  <2>3. yields' \in [Runs -> Levels]
    BY <2>1, <2>2, Zenon
  <2>4. QED  BY <1>25, <2>3 DEF ReportYield
<1>26. ASSUME NEW r \in Runs, PodDies(r) PROVE TypeOK'
  BY <1>26 DEF PodDies, JobStates
<1>27. ASSUME NEW r \in Runs, JobEnds(r) PROVE TypeOK'
  BY <1>27 DEF JobEnds, Alive, JobStates
<1>28. ASSUME NEW r \in Runs, JobCollected(r) PROVE TypeOK'
  BY <1>28 DEF JobCollected, JobStates
<1>29. ASSUME CronFires PROVE TypeOK'
  BY <1>29 DEF CronFires
<1>30. ASSUME UNCHANGED vars PROVE TypeOK'
  BY <1>30 DEF vars
<1>31. QED
  BY <1>1, <1>2, <1>3, <1>4, <1>5, <1>6, <1>7, <1>8, <1>9, <1>10, <1>11, <1>12, <1>13,
     <1>14, <1>15, <1>16, <1>17, <1>18, <1>19, <1>20, <1>21, <1>22, <1>23, <1>24, <1>25,
     <1>26, <1>27, <1>28, <1>29, <1>30 DEF Next, vars, TickStep, LaunchStep, OperatorStep

\* The same for rows and the work in flight.
LEMMA StepRowOK == TypeOK /\ RowOK /\ [Next]_vars => RowOK'
<1> SUFFICES ASSUME TypeOK, RowOK, [Next]_vars PROVE RowOK'
  OBVIOUS
<1> USE ProcessAssumption
    DEF RowOK, RowsHaveJobs, LaunchesApart, TickHoldsScanned, MirrorsClosed
<1>1. ASSUME NEW x \in Processes, NoOpenRun(x) PROVE RowOK'
  BY <1>1 DEF NoOpenRun, TypeOK, NoRow, Open, Cancelled, Verdicts, Closed
<1>2. ASSUME NEW x \in Processes, Skip(x) PROVE RowOK'
  BY <1>2 DEF Skip, TypeOK, NoRow, Open, Cancelled, Verdicts, Closed
<1>3. ASSUME NEW x \in Processes, Refuse(x) PROVE RowOK'
  BY <1>3 DEF Refuse, StampLastRun, TypeOK, NoRow, Open, Cancelled, Verdicts, Closed
<1>4. ASSUME NEW x \in Processes, PickCluster(x) PROVE RowOK'
  <2>1. /\ pc'[x] = "create"
        /\ \A y \in Processes : y # x => pc'[y] = pc[y] /\ call'[y] = call[y]
    BY <1>4 DEF PickCluster, WithRoom, TypeOK
  <2>2. LaunchesApart'
    BY <1>4, <2>1 DEF PickCluster
  <2>3. RowsHaveJobs' /\ TickHoldsScanned'
    BY <1>4 DEF PickCluster
  <2>4. MirrorsClosed'
    BY <1>4, <2>1 DEF PickCluster
  <2>5. QED  BY <2>2, <2>3, <2>4
<1>5. ASSUME NEW x \in Processes, CreateJob(x) PROVE RowOK'
  <2>1. PICK r \in Runs :
          /\ job[r] = "none"
          /\ job' = [job EXCEPT ![r] = "active"]
          /\ call' = [call EXCEPT ![x] = [call[x] EXCEPT !.run = r]]
    BY <1>5 DEF CreateJob, Submit, Fresh
  <2>2. /\ pc'[x] = "record" /\ call'[x].run = r
        /\ \A y \in Processes : y # x => pc'[y] = pc[y] /\ call'[y] = call[y]
    <3>1. call[x] \in Calls
      BY DEF TypeOK
    <3>2. QED  BY <1>5, <2>1, <3>1 DEF CreateJob, TypeOK, Calls
  <2>3. /\ job'[r] = "active" /\ status'[r] = NoRow
        /\ \A s \in Runs : s # r => job'[s] = job[s] /\ status'[s] = status[s]
    BY <1>5, <2>1 DEF CreateJob, TypeOK
  <2>4. RowsHaveJobs'
    BY <2>3
  <2>5. LaunchesApart'
    BY <1>5, <2>1, <2>2, <2>3 DEF CreateJob
  <2>6. TickHoldsScanned'
    BY <1>5 DEF CreateJob
  <2>7. MirrorsClosed'
    BY <1>5, <2>2 DEF CreateJob
  <2>8. QED  BY <2>4, <2>5, <2>6, <2>7
<1>6. ASSUME NEW x \in Processes, CreateUnanswered(x) PROVE RowOK'
  <2>1. PICK r \in Runs : job[r] = "none" /\ job' = [job EXCEPT ![r] = "active"]
    BY <1>6 DEF CreateUnanswered, Submit, Fresh
  <2>2. /\ pc'[x] \notin {"record", "mirror"}
        /\ \A y \in Processes : y # x => pc'[y] = pc[y] /\ call'[y] = call[y]
    BY <1>6 DEF CreateUnanswered, TypeOK
  <2>3. \A s \in Runs : job[s] # "none" => job'[s] # "none"
    BY <2>1 DEF TypeOK
  <2>4. RowsHaveJobs'
    BY <1>6, <2>3 DEF CreateUnanswered
  <2>5. LaunchesApart'
    BY <1>6, <2>2, <2>3 DEF CreateUnanswered
  <2>6. TickHoldsScanned'
    BY <1>6 DEF CreateUnanswered
  <2>7. MirrorsClosed'
    BY <1>6, <2>2 DEF CreateUnanswered
  <2>8. QED  BY <2>4, <2>5, <2>6, <2>7
<1>7. ASSUME NEW x \in Processes, RecordRun(x) PROVE RowOK'
  <2>1. /\ call[x].run \in Runs
        /\ status[call[x].run] = NoRow /\ job[call[x].run] # "none"
        /\ status' = [status EXCEPT ![call[x].run] = Open]
    BY <1>7 DEF RecordRun
  <2>2. /\ pc'[x] \notin {"record", "mirror"}
        /\ \A y \in Processes : y # x => pc'[y] = pc[y] /\ call'[y] = call[y]
    BY <1>7 DEF RecordRun, TypeOK
  <2>3. \A s \in Runs : s # call[x].run => status'[s] = status[s]
    BY <2>1 DEF TypeOK
  <2>4. RowsHaveJobs'
    BY <1>7, <2>1, <2>3 DEF RecordRun
  <2>5. LaunchesApart'
    BY <1>7, <2>1, <2>2, <2>3 DEF RecordRun
  <2>6. TickHoldsScanned'
    BY <1>7, <2>1, <2>3 DEF RecordRun, NoRow, Open, Cancelled
  <2>7. MirrorsClosed'
    <3>1. status[call[x].run] \notin Closed
      BY <2>1 DEF NoRow, Closed, Verdicts, Cancelled
    <3>2. QED  BY <1>7, <2>2, <2>3, <3>1 DEF RecordRun
  <2>8. QED  BY <2>4, <2>5, <2>6, <2>7
<1>8. ASSUME NEW x \in Processes, Crash(x) PROVE RowOK'
  BY <1>8 DEF Crash, TypeOK, NoRow, Open, Cancelled, Verdicts, Closed
<1>9. ASSUME Scan PROVE RowOK'
  BY <1>9 DEF Scan, Scanned, OpenRuns, TypeOK, NoRow, Open, Cancelled, Verdicts, Closed
<1>10. ASSUME NEW r \in Runs, ProbeEnded(r) PROVE RowOK'
  BY <1>10 DEF ProbeEnded, Answer, TypeOK, NoRow, Open, Cancelled, Verdicts, Closed
<1>11. ASSUME NEW r \in Runs, ProbeOpen(r) PROVE RowOK'
  BY <1>11 DEF ProbeOpen, TypeOK, NoRow, Open, Cancelled, Verdicts, Closed
<1>12. ASSUME CloseRuns PROVE RowOK'
  BY <1>12 DEF CloseRuns, ToMirror, Assigned, TypeOK, NoRow, Open, Cancelled, Verdicts,
       Closed
<1>13. ASSUME NEW r \in Runs, MirrorClose(r) PROVE RowOK'
  BY <1>13 DEF MirrorClose, Mirror, TypeOK, NoRow, Open, Cancelled, Verdicts, Closed
<1>14. ASSUME StartPolicies PROVE RowOK'
  BY <1>14 DEF StartPolicies, TypeOK, NoRow, Open, Cancelled, Verdicts, Closed
<1>15. ASSUME NEW p \in Policies, NotDue(p) PROVE RowOK'
  BY <1>15 DEF NotDue, TypeOK, NoRow, Open, Cancelled, Verdicts, Closed
<1>16. ASSUME NEW p \in Policies, LaunchDue(p) PROVE RowOK'
  BY <1>16 DEF LaunchDue, TypeOK, NoRow, Open, Cancelled, Verdicts, Closed
<1>17. ASSUME NEW p \in Policies, RefuseFrozen(p) PROVE RowOK'
  BY <1>17 DEF RefuseFrozen, TypeOK, NoRow, Open, Cancelled, Verdicts, Closed
<1>18. ASSUME TickEnds PROVE RowOK'
  BY <1>18 DEF TickEnds, TypeOK, NoRow, Open, Cancelled, Verdicts, Closed
<1>19. ASSUME NEW x \in Operators, TriggerNow(x) PROVE RowOK'
  <2>1. /\ pc'[x] = "check"
        /\ \A y \in Processes : y # x => pc'[y] = pc[y] /\ call'[y] = call[y]
    BY <1>19 DEF TriggerNow, StartLaunch, TypeOK
  <2>2. RowsHaveJobs' /\ TickHoldsScanned'
    BY <1>19 DEF TriggerNow, StartLaunch
  <2>3. LaunchesApart' /\ MirrorsClosed'
    BY <1>19, <2>1 DEF TriggerNow, StartLaunch
  <2>4. QED  BY <2>2, <2>3
<1>20. ASSUME NEW x \in Operators, LaunchAdhoc(x) PROVE RowOK'
  BY <1>20 DEF LaunchAdhoc, StartLaunch, TypeOK, NoRow, Open, Cancelled, Verdicts, Closed
<1>21. ASSUME NEW x \in Operators, NEW r \in Runs, Cancel(x, r) PROVE RowOK'
  <2>1. status[r] = Open /\ status' = [status EXCEPT ![r] = Cancelled]
    BY <1>21 DEF Cancel, Cancellable
  <2>2. /\ pc'[x] = "mirror" /\ call'[x].run = r
        /\ \A y \in Processes : y # x => pc'[y] = pc[y] /\ call'[y] = call[y]
    <3>1. call[x] \in Calls
      BY DEF TypeOK
    <3>2. QED  BY <1>21, <3>1 DEF Cancel, TypeOK, Calls
  <2>3. status'[r] = Cancelled /\ \A s \in Runs : s # r => status'[s] = status[s]
    BY <2>1 DEF TypeOK
  <2>4. RowsHaveJobs'
    BY <1>21, <2>1, <2>3 DEF Cancel, NoRow, Open
  <2>5. LaunchesApart'
    <3>1. \A y \in Processes : pc'[y] = "record" =>
            y # x /\ pc[y] = "record" /\ call'[y] = call[y]
      BY <2>2
    <3>2. \A y \in Processes : pc[y] = "record" => call[y].run # r
      BY <2>1 DEF NoRow, Open
    <3>3. job' = job
      BY <1>21 DEF Cancel
    <3>4. QED  BY <2>3, <3>1, <3>2, <3>3
  <2>6. TickHoldsScanned'
    BY <1>21, <2>3 DEF Cancel
  <2>7. MirrorsClosed'
    BY <1>21, <2>2, <2>3 DEF Cancel, Closed, TypeOK
  <2>8. QED  BY <2>4, <2>5, <2>6, <2>7
<1>22. ASSUME NEW x \in Operators, MirrorCancel(x) PROVE RowOK'
  BY <1>22 DEF MirrorCancel, Mirror, TypeOK, NoRow, Open, Cancelled, Verdicts, Closed
<1>23. ASSUME NEW x \in Operators, DeleteJob(x) PROVE RowOK'
  BY <1>23 DEF DeleteJob, TypeOK, NoRow, Open, Cancelled, Verdicts, Closed
<1>24. ASSUME NEW x \in Operators, DeleteFails(x) PROVE RowOK'
  BY <1>24 DEF DeleteFails, TypeOK, NoRow, Open, Cancelled, Verdicts, Closed
<1>25. ASSUME NEW r \in Runs, ReportYield(r) PROVE RowOK'
  BY <1>25 DEF ReportYield, Alive, TypeOK, NoRow, Open, Cancelled, Verdicts, Closed
<1>26. ASSUME NEW r \in Runs, PodDies(r) PROVE RowOK'
  BY <1>26 DEF PodDies, TypeOK, NoRow, Open, Cancelled, Verdicts, Closed
<1>27. ASSUME NEW r \in Runs, JobEnds(r) PROVE RowOK'
  BY <1>27 DEF JobEnds, Alive, TypeOK, NoRow, Open, Cancelled, Verdicts, Closed
<1>28. ASSUME NEW r \in Runs, JobCollected(r) PROVE RowOK'
  BY <1>28 DEF JobCollected, TypeOK, NoRow, Open, Cancelled, Verdicts, Closed
<1>29. ASSUME CronFires PROVE RowOK'
  BY <1>29 DEF CronFires, TypeOK, NoRow, Open, Cancelled, Verdicts, Closed
<1>30. ASSUME UNCHANGED vars PROVE RowOK'
  BY <1>30 DEF vars
<1>31. QED
  BY <1>1, <1>2, <1>3, <1>4, <1>5, <1>6, <1>7, <1>8, <1>9, <1>10, <1>11, <1>12, <1>13,
     <1>14, <1>15, <1>16, <1>17, <1>18, <1>19, <1>20, <1>21, <1>22, <1>23, <1>24, <1>25,
     <1>26, <1>27, <1>28, <1>29, <1>30 DEF Next, vars, TickStep, LaunchStep, OperatorStep

--------------------------------------------------------------------------------
\* What a status or a verdict claims is borne out by what the pod reported, which
\* only grows; the counters a tick carries are never ahead of the row's.
Justified(r, s) ==
  /\ s = "success" => yields[r] = 3
  /\ s = "redundant" => yields[r] >= 2
  /\ s = "no_op" => emptyPlan[r]

VerdictOK ==
  \A r \in Runs : seen[r] <= yields[r] /\ Justified(r, verdict[r]) /\ Justified(r, status[r])

\* A verdict stays justified: the tick classifies what it loaded, and counters
\* only grow.
LEMMA StepVerdictOK == TypeOK /\ RowOK /\ VerdictOK /\ [Next]_vars => VerdictOK'
<1> SUFFICES ASSUME TypeOK, RowOK, VerdictOK, [Next]_vars PROVE VerdictOK'
  OBVIOUS
<1> DEFINE Same == UNCHANGED <<status, emptyPlan, yields, seen, verdict>>
<1>1. Same => VerdictOK'
  BY DEF VerdictOK, Justified
<1>2. ASSUME NEW x \in Processes, CreateJob(x) PROVE VerdictOK'
  <2>1. PICK r \in Runs :
          /\ job[r] = "none"
          /\ \A s \in Runs : s # r => emptyPlan'[s] = emptyPlan[s]
    BY <1>2 DEF CreateJob, Submit, Fresh, TypeOK
  <2>2. UNCHANGED <<status, yields, seen, verdict>>
    BY <1>2 DEF CreateJob
  <2>3. status[r] = NoRow /\ verdict[r] = NoRow
    BY <2>1 DEF RowOK, RowsHaveJobs, TickHoldsScanned, NoRow, Open, Cancelled
  <2>4. ASSUME NEW s \in Runs PROVE Justified(s, status[s])'
    BY <2>1, <2>2, <2>3 DEF VerdictOK, Justified, NoRow
  <2>5. ASSUME NEW s \in Runs PROVE Justified(s, verdict[s])'
    BY <2>1, <2>2, <2>3 DEF VerdictOK, Justified, NoRow
  <2>6. QED  BY <2>2, <2>4, <2>5 DEF VerdictOK
<1>3. ASSUME NEW x \in Processes, RecordRun(x) PROVE VerdictOK'
  <2>1. /\ \A r \in Runs : status'[r] = status[r] \/ status'[r] = Open
        /\ UNCHANGED <<emptyPlan, yields, seen, verdict>>
    BY <1>3 DEF RecordRun, TypeOK
  <2>2. QED  BY <2>1 DEF VerdictOK, Justified, Open
<1>4. ASSUME NEW x \in Processes, Crash(x) PROVE VerdictOK'
  <2>1. UNCHANGED <<status, emptyPlan, yields>>
    BY <1>4 DEF Crash
  <2>2. \A r \in Runs : seen'[r] = seen[r] \/ seen'[r] = 0
    BY <1>4 DEF Crash
  <2>3. \A r \in Runs : verdict'[r] = verdict[r] \/ verdict'[r] = NoRow
    BY <1>4 DEF Crash
  <2>4. \A r \in Runs : yields[r] \in 0 .. 3
    BY DEF TypeOK, Levels
  <2>5. \A r \in Runs : seen'[r] <= yields'[r]
    BY <2>1, <2>2, <2>4 DEF VerdictOK
  <2>6. ASSUME NEW r \in Runs PROVE Justified(r, status[r])'
    BY <2>1 DEF VerdictOK, Justified
  <2>7. ASSUME NEW r \in Runs PROVE Justified(r, verdict[r])'
    BY <2>1, <2>3 DEF VerdictOK, Justified, NoRow
  <2>8. QED  BY <2>5, <2>6, <2>7 DEF VerdictOK
<1>5. ASSUME Scan PROVE VerdictOK'
  <2>1. /\ \A r \in Runs : seen'[r] = yields[r] \/ seen'[r] = 0
        /\ UNCHANGED <<status, emptyPlan, yields, verdict>>
    BY <1>5 DEF Scan
  <2>2. \A r \in Runs : yields[r] \in 0 .. 3
    BY DEF TypeOK, Levels
  <2>3. QED  BY <2>1, <2>2 DEF VerdictOK, Justified
<1>6. ASSUME NEW r \in Runs, ProbeEnded(r) PROVE VerdictOK'
  <2>1. /\ verdict'[r] \in {"failed", Classify(emptyPlan[r], seen[r])}
        /\ \A s \in Runs : s # r => verdict'[s] = verdict[s]
        /\ UNCHANGED <<status, emptyPlan, yields, seen>>
    BY <1>6 DEF ProbeEnded, TypeOK
  <2>2. seen[r] \in 0 .. 3 /\ yields[r] \in 0 .. 3 /\ seen[r] <= yields[r]
    BY DEF VerdictOK, TypeOK, Levels
  <2>3. Justified(r, verdict'[r])
    BY <2>1, <2>2 DEF Justified, Classify
  <2>4. QED  BY <2>1, <2>3 DEF VerdictOK, Justified
<1>7. ASSUME CloseRuns PROVE VerdictOK'
  <2>1. /\ \A r \in Runs : status'[r] = status[r] \/ status'[r] = verdict[r]
        /\ \A r \in Runs : seen'[r] = 0 /\ verdict'[r] = NoRow
        /\ UNCHANGED <<emptyPlan, yields>>
    BY <1>7 DEF CloseRuns
  <2>2. \A r \in Runs : yields[r] \in 0 .. 3
    BY DEF TypeOK, Levels
  <2>3. \A r \in Runs : seen'[r] <= yields'[r]
    BY <2>1, <2>2 DEF VerdictOK
  <2>4. ASSUME NEW r \in Runs PROVE Justified(r, status[r])'
    BY <2>1 DEF VerdictOK, Justified
  <2>5. ASSUME NEW r \in Runs PROVE Justified(r, verdict[r])'
    BY <2>1 DEF VerdictOK, Justified, NoRow
  <2>6. QED  BY <2>3, <2>4, <2>5 DEF VerdictOK
<1>8. ASSUME NEW x \in Operators, NEW r \in Runs, Cancel(x, r) PROVE VerdictOK'
  <2>1. /\ \A s \in Runs : status'[s] = status[s] \/ status'[s] = Cancelled
        /\ UNCHANGED <<emptyPlan, yields, seen, verdict>>
    BY <1>8 DEF Cancel, TypeOK
  <2>2. QED  BY <2>1 DEF VerdictOK, Justified, Cancelled
<1>9. ASSUME NEW r \in Runs, ReportYield(r) PROVE VerdictOK'
  <2>1. \A s \in Runs : yields[s] \in 0 .. 3 /\ seen[s] \in 0 .. 3
    BY DEF TypeOK, Levels
  <2>2. PICK level \in 1 .. 3 : level > yields[r] /\ yields' = [yields EXCEPT ![r] = level]
    BY <1>9, BoundAssumption DEF ReportYield
  <2>3. \A s \in Runs : yields'[s] >= yields[s] /\ yields'[s] \in 0 .. 3
    BY <2>1, <2>2 DEF TypeOK
  <2>4. UNCHANGED <<status, emptyPlan, seen, verdict>>
    BY <1>9 DEF ReportYield
  <2>5. QED  BY <2>1, <2>3, <2>4 DEF VerdictOK, Justified
<1>10. ASSUME NEW x \in Processes,
            \/ NoOpenRun(x) \/ Skip(x) \/ Refuse(x) \/ PickCluster(x) \/ CreateUnanswered(x)
     PROVE  Same
  BY <1>10 DEF NoOpenRun, Skip, Refuse, StampLastRun, PickCluster, CreateUnanswered
<1>11. ASSUME NEW r \in Runs,
            \/ ProbeOpen(r) \/ MirrorClose(r) \/ PodDies(r) \/ JobEnds(r) \/ JobCollected(r)
     PROVE  Same
  BY <1>11 DEF ProbeOpen, MirrorClose, Mirror, PodDies, JobEnds, JobCollected
<1>12. ASSUME
            \/ StartPolicies \/ TickEnds \/ CronFires
     PROVE  Same
  BY <1>12 DEF StartPolicies, TickEnds, CronFires
<1>13. ASSUME NEW p \in Policies,
            \/ NotDue(p) \/ LaunchDue(p) \/ RefuseFrozen(p)
     PROVE  Same
  BY <1>13 DEF NotDue, LaunchDue, RefuseFrozen
<1>14. ASSUME NEW x \in Operators,
            \/ TriggerNow(x) \/ LaunchAdhoc(x) \/ MirrorCancel(x) \/ DeleteJob(x) \/ DeleteFails(x)
     PROVE  Same
  BY <1>14 DEF TriggerNow, StartLaunch, LaunchAdhoc, MirrorCancel, Mirror, DeleteJob,
       DeleteFails
<1>15. ASSUME UNCHANGED vars PROVE Same
  BY <1>15 DEF vars
<1> HIDE DEF Same
<1>16. QED
  BY <1>1, <1>2, <1>3, <1>4, <1>5, <1>6, <1>7, <1>8, <1>9, <1>10, <1>11, <1>12, <1>13,
     <1>14, <1>15 DEF Next, vars, TickStep, LaunchStep, OperatorStep

--------------------------------------------------------------------------------
\* Outside of mirroring the tick owes no mirror; cancel is on record wherever it
\* left a trace; a run nobody cancelled has no mirror before its close is mirrored.
MirrorOK ==
  /\ pc[Reconciler] # "mirror" => closed = {}
  /\ \A r \in Runs : status[r] = Cancelled => cancelledBy[r]
  /\ \A x \in Operators : pc[x] = "mirror" => cancelledBy[call[x].run]
  /\ \A r \in Runs : ~cancelledBy[r] =>
       IF status[r] \in Closed /\ r \notin closed
       THEN mirrored[r] \in {<<>>, <<PlatformStatus(status[r])>>}
       ELSE mirrored[r] = <<>>
  /\ CloseAccounted

\* What mirroring a run does to the mirrors.
LEMMA MirrorEffect ==
  ASSUME TypeOK, NEW r \in Runs, Mirror(r)
  PROVE  /\ policyOf[r] \in Attributed => mirrored'[r] # <<>> \/ r \in unmirrored'
         /\ \A s \in Runs : s # r => mirrored'[s] = mirrored[s]
         /\ mirrored[r] # <<>> => mirrored'[r] # <<>>
         /\ mirrored[r] = <<>> => mirrored'[r] \in {<<>>, <<PlatformStatus(status[r])>>}
         /\ unmirrored \subseteq unmirrored'
<1>1. mirrored[r] \in Seq(PlatformStatuses)
  BY DEF TypeOK
<1>2. Append(mirrored[r], PlatformStatus(status[r])) # <<>>
  BY <1>1
<1>3. mirrored[r] = <<>> =>
        Append(mirrored[r], PlatformStatus(status[r])) = <<PlatformStatus(status[r])>>
  OBVIOUS
<1>4. CASE policyOf[r] \in Attributed
  BY <1>2, <1>3, <1>4 DEF Mirror, TypeOK
<1>5. CASE policyOf[r] \notin Attributed
  BY <1>5 DEF Mirror
<1>6. QED  BY <1>4, <1>5

\* Every close is owed a mirror until it is mirrored or lost to a fault.
LEMMA StepMirrorOK == TypeOK /\ RowOK /\ MirrorOK /\ [Next]_vars => MirrorOK'
<1> SUFFICES ASSUME TypeOK, RowOK, MirrorOK, [Next]_vars PROVE MirrorOK'
  OBVIOUS
<1> DEFINE Others(y) == pc'[y] = pc[y] /\ call'[y] = call[y]
           Same == /\ UNCHANGED <<status, policyOf, cancelledBy, mirrored, unmirrored, closed>>
                   /\ \A y \in Processes : Others(y) \/ "mirror" \notin {pc[y], pc'[y]}
<1>1. Same => MirrorOK'
  BY DEF MirrorOK, CloseAccounted
<1>2. ASSUME NEW x \in Processes, CreateJob(x) PROVE MirrorOK'
  <2>1. PICK r \in Runs : job[r] = "none" /\ \A s \in Runs : s # r => policyOf'[s] = policyOf[s]
    BY <1>2 DEF CreateJob, Submit, Fresh, TypeOK
  <2>2. UNCHANGED <<status, cancelledBy, mirrored, unmirrored, closed>>
    BY <1>2 DEF CreateJob
  <2>3. status[r] \notin Closed
    BY <2>1 DEF RowOK, RowsHaveJobs, NoRow, Closed, Verdicts, Cancelled
  <2>4. \A y \in Processes : Others(y) \/ "mirror" \notin {pc[y], pc'[y]}
    BY <1>2 DEF CreateJob, TypeOK
  <2>5. CloseAccounted'
    BY <2>1, <2>2, <2>3, <2>4 DEF MirrorOK, CloseAccounted
  <2>6. QED  BY <2>2, <2>4, <2>5 DEF MirrorOK
<1>3. ASSUME NEW x \in Processes, CreateUnanswered(x) PROVE MirrorOK'
  <2>1. PICK r \in Runs : job[r] = "none" /\ \A s \in Runs : s # r => policyOf'[s] = policyOf[s]
    BY <1>3 DEF CreateUnanswered, Submit, Fresh, TypeOK
  <2>2. UNCHANGED <<status, cancelledBy, mirrored, unmirrored, closed>>
    BY <1>3 DEF CreateUnanswered
  <2>3. status[r] \notin Closed
    BY <2>1 DEF RowOK, RowsHaveJobs, NoRow, Closed, Verdicts, Cancelled
  <2>4. \A y \in Processes : Others(y) \/ "mirror" \notin {pc[y], pc'[y]}
    BY <1>3 DEF CreateUnanswered, TypeOK
  <2>5. CloseAccounted'
    BY <2>1, <2>2, <2>3, <2>4 DEF MirrorOK, CloseAccounted
  <2>6. QED  BY <2>2, <2>4, <2>5 DEF MirrorOK
<1>4. ASSUME NEW x \in Processes, RecordRun(x) PROVE MirrorOK'
  <2>1. /\ call[x].run \in Runs /\ status[call[x].run] = NoRow
        /\ status' = [status EXCEPT ![call[x].run] = Open]
    BY <1>4 DEF RecordRun, RowOK, LaunchesApart
  <2>2. /\ status'[call[x].run] = Open
        /\ \A s \in Runs : s # call[x].run => status'[s] = status[s]
    BY <2>1 DEF TypeOK
  <2>3. UNCHANGED <<policyOf, cancelledBy, mirrored, unmirrored, closed>>
    BY <1>4 DEF RecordRun
  <2>4. \A y \in Processes : Others(y) \/ "mirror" \notin {pc[y], pc'[y]}
    BY <1>4 DEF RecordRun, TypeOK
  <2>5. NoRow \notin Closed /\ Open \notin Closed /\ Open # Cancelled
    BY DEF NoRow, Open, Closed, Verdicts, Cancelled
  <2>6. CloseAccounted'
    BY <2>2, <2>3, <2>4, <2>5 DEF MirrorOK, CloseAccounted
  <2>7. QED  BY <2>1, <2>2, <2>3, <2>4, <2>5, <2>6 DEF MirrorOK
<1>5. ASSUME NEW x \in Processes, Crash(x) PROVE MirrorOK'
  <2>1. UNCHANGED <<status, policyOf, cancelledBy, mirrored>>
    BY <1>5 DEF Crash
  <2>2. pc'[x] = "asleep" /\ \A y \in Processes : y # x => Others(y)
    BY <1>5 DEF Crash, TypeOK
  <2>3. unmirrored \subseteq unmirrored'
    BY <1>5 DEF Crash
  <2>4. CASE x = Reconciler
    <3>1. closed' = {} /\ closed \subseteq unmirrored'
      BY <1>5, <2>4 DEF Crash, MirrorOK
    <3>2. \A y \in Operators : Others(y)
      BY <2>2, <2>4, ProcessAssumption
    <3>3. CloseAccounted'
      BY <2>1, <2>3, <3>1, <3>2 DEF MirrorOK, CloseAccounted
    <3>4. \A r \in Runs : ~cancelledBy[r] /\ r \in closed => mirrored[r] = <<>>
      BY DEF MirrorOK
    <3>5. QED  BY <2>1, <2>2, <2>4, <3>1, <3>2, <3>3, <3>4 DEF MirrorOK
  <2>5. CASE x # Reconciler
    <3>1. x \in Operators /\ closed' = closed
      BY <1>5, <2>5 DEF Crash
    <3>2. pc[x] = "mirror" => call[x].run \in unmirrored'
      BY <1>5, <2>5 DEF Crash
    <3>3. CloseAccounted'
      BY <2>1, <2>2, <2>3, <2>5, <3>1, <3>2 DEF MirrorOK, CloseAccounted
    <3>4. QED  BY <2>1, <2>2, <2>5, <3>1, <3>3 DEF MirrorOK
  <2>6. QED  BY <2>4, <2>5
<1>6. ASSUME CloseRuns PROVE MirrorOK'
  <2>1. /\ pc[Reconciler] = "probe" /\ pc'[Reconciler] = "mirror" /\ closed' = Assigned
        /\ \A y \in Operators : Others(y)
    BY <1>6, ProcessAssumption DEF CloseRuns, ToMirror, TypeOK
  <2>2. UNCHANGED <<policyOf, cancelledBy, mirrored, unmirrored>>
    BY <1>6 DEF CloseRuns
  <2>3. \A r \in Runs : status'[r] = IF r \in Assigned THEN verdict[r] ELSE status[r]
    BY <1>6 DEF CloseRuns
  <2>4. closed = {}
    BY <2>1 DEF MirrorOK
  <2>5. \A r \in Assigned : r \in Runs /\ status[r] \in {Open, Cancelled} /\ verdict[r] # Cancelled
    BY DEF Assigned, RowOK, TickHoldsScanned, TypeOK, Verdicts, Cancelled, NoRow
  <2>6. CloseAccounted'
    BY <2>1, <2>2, <2>3, <2>4 DEF MirrorOK, CloseAccounted
  <2>7. \A r \in Runs : status'[r] = Cancelled => cancelledBy'[r]
    BY <2>2, <2>3, <2>5 DEF MirrorOK
  <2>8. ASSUME NEW r \in Runs, ~cancelledBy'[r]
        PROVE  IF status'[r] \in Closed /\ r \notin closed'
               THEN mirrored'[r] \in {<<>>, <<PlatformStatus(status'[r])>>}
               ELSE mirrored'[r] = <<>>
    <3>1. CASE r \in Assigned
      <4>1. status[r] = Open
        BY <2>2, <2>5, <2>8, <3>1 DEF MirrorOK
      <4>2. mirrored[r] = <<>>
        BY <2>2, <2>8, <4>1 DEF MirrorOK, Open, Closed, Verdicts, Cancelled
      <4>3. QED  BY <2>1, <2>2, <3>1, <4>2
    <3>2. CASE r \notin Assigned
      BY <2>1, <2>2, <2>3, <2>4, <2>8, <3>2 DEF MirrorOK
    <3>3. QED  BY <3>1, <3>2
  <2>9. \A y \in Operators : pc'[y] = "mirror" => cancelledBy'[call'[y].run]
    BY <2>1, <2>2 DEF MirrorOK
  <2>10. QED  BY <2>1, <2>6, <2>7, <2>8, <2>9 DEF MirrorOK
<1>7. ASSUME NEW r \in Runs, MirrorClose(r) PROVE MirrorOK'
  <2>1. /\ pc[Reconciler] = "mirror" /\ r \in closed /\ closed' = closed \ {r} /\ Mirror(r)
        /\ UNCHANGED <<status, policyOf, cancelledBy, pc, call>>
    BY <1>7 DEF MirrorClose
  <2>2. status[r] \in Closed
    BY <2>1 DEF RowOK, MirrorsClosed
  <2>3. CloseAccounted'
    BY <2>1, MirrorEffect DEF MirrorOK, CloseAccounted
  <2>4. ASSUME NEW s \in Runs, ~cancelledBy[s]
        PROVE  IF status[s] \in Closed /\ s \notin closed'
               THEN mirrored'[s] \in {<<>>, <<PlatformStatus(status[s])>>}
               ELSE mirrored'[s] = <<>>
    <3>1. CASE s = r
      <4>1. mirrored[r] = <<>>
        BY <2>1, <2>4, <3>1 DEF MirrorOK
      <4>2. QED  BY <2>1, <2>2, <3>1, <4>1, MirrorEffect
    <3>2. CASE s # r
      <4>1. mirrored'[s] = mirrored[s]
        BY <2>1, <3>2, MirrorEffect
      <4>2. QED  BY <2>1, <2>4, <3>2, <4>1 DEF MirrorOK
    <3>3. QED  BY <3>1, <3>2
  <2>5. QED  BY <2>1, <2>3, <2>4 DEF MirrorOK
<1>8. ASSUME StartPolicies PROVE MirrorOK'
  <2>1. /\ closed = {}
        /\ UNCHANGED <<status, policyOf, cancelledBy, mirrored, unmirrored, closed>>
    BY <1>8 DEF StartPolicies
  <2>2. \A y \in Operators : Others(y)
    BY <1>8, ProcessAssumption DEF StartPolicies, TypeOK
  <2>3. CloseAccounted'
    BY <2>1, <2>2 DEF MirrorOK, CloseAccounted
  <2>4. QED  BY <2>1, <2>2, <2>3 DEF MirrorOK
<1>9. ASSUME NEW x \in Operators, NEW r \in Runs, Cancel(x, r) PROVE MirrorOK'
  <2>1. /\ status[r] = Open
        /\ status'[r] = Cancelled /\ cancelledBy'[r]
        /\ \A s \in Runs : s # r => status'[s] = status[s] /\ cancelledBy'[s] = cancelledBy[s]
    BY <1>9 DEF Cancel, Cancellable, TypeOK
  <2>2. pc'[x] = "mirror" /\ call'[x].run = r /\ \A y \in Processes : y # x => Others(y)
    <3>1. call[x] \in Calls
      BY DEF TypeOK
    <3>2. QED  BY <1>9, <3>1 DEF Cancel, TypeOK, Calls
  <2>3. UNCHANGED <<policyOf, mirrored, unmirrored, closed>>
    BY <1>9 DEF Cancel
  <2>4. pc[x] = "asleep" /\ x # Reconciler
    BY <1>9, ProcessAssumption DEF Cancel
  <2>5. CloseAccounted'
    BY <2>1, <2>2, <2>3, <2>4 DEF MirrorOK, CloseAccounted
  <2>6. \A y \in Operators : pc'[y] = "mirror" => cancelledBy'[call'[y].run]
    BY <2>1, <2>2 DEF MirrorOK, RowOK, MirrorsClosed
  <2>7. QED  BY <2>1, <2>2, <2>3, <2>4, <2>5, <2>6 DEF MirrorOK
<1>10. ASSUME NEW x \in Operators, MirrorCancel(x) PROVE MirrorOK'
  <2>1. /\ pc[x] = "mirror" /\ pc'[x] = "delete" /\ Mirror(call[x].run)
        /\ \A y \in Processes : y # x => Others(y)
        /\ UNCHANGED <<status, policyOf, cancelledBy, closed>>
    BY <1>10 DEF MirrorCancel, TypeOK
  <2>2. call[x].run \in Runs /\ status[call[x].run] \in Closed /\ cancelledBy[call[x].run]
    BY <2>1 DEF RowOK, MirrorsClosed, MirrorOK
  <2>3. x # Reconciler
    BY ProcessAssumption
  <2>4. CloseAccounted'
    BY <2>1, <2>2, <2>3, MirrorEffect DEF MirrorOK, CloseAccounted
  <2>5. \A s \in Runs : ~cancelledBy[s] => mirrored'[s] = mirrored[s]
    BY <2>1, <2>2, MirrorEffect
  <2>6. QED  BY <2>1, <2>3, <2>4, <2>5 DEF MirrorOK
<1>11. ASSUME NEW x \in Processes,
            \/ NoOpenRun(x) \/ Skip(x) \/ Refuse(x) \/ PickCluster(x)
     PROVE  Same
  BY <1>11 DEF NoOpenRun, TypeOK, Skip, Refuse, StampLastRun, PickCluster
<1>12. ASSUME
            \/ Scan \/ TickEnds \/ CronFires
     PROVE  Same
  BY <1>12 DEF Scan, Scanned, OpenRuns, TypeOK, TickEnds, CronFires
<1>13. ASSUME NEW r \in Runs,
            \/ ProbeEnded(r) \/ ProbeOpen(r) \/ ReportYield(r) \/ PodDies(r) \/ JobEnds(r)
     PROVE  Same
  BY <1>13 DEF ProbeEnded, TypeOK, ProbeOpen, ReportYield, PodDies, JobEnds
<1>14. ASSUME NEW r \in Runs, JobCollected(r) PROVE Same
  BY <1>14 DEF JobCollected, TypeOK
<1>15. ASSUME NEW p \in Policies,
            \/ NotDue(p) \/ LaunchDue(p) \/ RefuseFrozen(p)
     PROVE  Same
  BY <1>15 DEF NotDue, TypeOK, LaunchDue, RefuseFrozen
<1>16. ASSUME NEW x \in Operators,
            \/ TriggerNow(x) \/ LaunchAdhoc(x) \/ DeleteJob(x) \/ DeleteFails(x)
     PROVE  Same
  BY <1>16 DEF TriggerNow, StartLaunch, TypeOK, LaunchAdhoc, DeleteJob, DeleteFails
<1>17. ASSUME UNCHANGED vars PROVE Same
  BY <1>17 DEF vars
<1> HIDE DEF Same
<1>18. QED
  BY <1>1, <1>2, <1>3, <1>4, <1>5, <1>6, <1>7, <1>8, <1>9, <1>10, <1>11, <1>12, <1>13,
     <1>14, <1>15, <1>16, <1>17 DEF Next, vars, TickStep, LaunchStep, OperatorStep

--------------------------------------------------------------------------------
\* A job the tick has judged no longer runs, or was judged by its dead pod.
JobOK ==
  /\ \A r \in Runs : verdict[r] # NoRow /\ Alive(r) =>
       job[r] = "retrying" /\ verdict[r] = "failed"
  /\ ActiveJobAccounted

\* A job whose pods run is accounted for.
LEMMA StepJobOK == TypeOK /\ RowOK /\ JobOK /\ [Next]_vars => JobOK'
<1> SUFFICES ASSUME TypeOK, RowOK, JobOK, [Next]_vars PROVE JobOK'
  OBVIOUS
<1> DEFINE Others(y) == pc'[y] = pc[y] /\ call'[y] = call[y]
           Same == /\ UNCHANGED <<status, cancelledBy, job, verdict, orphans>>
                   /\ \A y \in Processes : Others(y) \/ pc[y] # "record"
<1>1. Same => JobOK'
  BY DEF JobOK, ActiveJobAccounted, Alive
<1>2. ASSUME NEW x \in Processes, CreateJob(x) PROVE JobOK'
  <2>1. PICK r \in Runs :
          /\ job[r] = "none"
          /\ \A s \in Runs : s # r => job'[s] = job[s]
          /\ pc'[x] = "record" /\ call'[x].run = r
    <3>1. call[x] \in Calls
      BY DEF TypeOK
    <3>2. QED  BY <1>2, <3>1 DEF CreateJob, Submit, Fresh, TypeOK, Calls
  <2>2. UNCHANGED <<status, cancelledBy, verdict, orphans>>
    BY <1>2 DEF CreateJob
  <2>3. \A y \in Processes : Others(y) \/ pc[y] # "record"
    BY <1>2 DEF CreateJob, TypeOK
  <2>4. verdict[r] = NoRow
    BY <2>1 DEF RowOK, RowsHaveJobs, TickHoldsScanned, NoRow, Open, Cancelled
  <2>5. ActiveJobAccounted'
    BY <2>1, <2>2, <2>3 DEF JobOK, ActiveJobAccounted, Alive
  <2>6. QED  BY <2>1, <2>2, <2>4, <2>5 DEF JobOK, Alive
<1>3. ASSUME NEW x \in Processes, CreateUnanswered(x) PROVE JobOK'
  <2>1. PICK r \in Runs :
          /\ job[r] = "none"
          /\ \A s \in Runs : s # r => job'[s] = job[s]
          /\ orphans' = orphans \cup {r}
    BY <1>3 DEF CreateUnanswered, Submit, Fresh, TypeOK
  <2>2. UNCHANGED <<status, cancelledBy, verdict>>
    BY <1>3 DEF CreateUnanswered
  <2>3. \A y \in Processes : Others(y) \/ pc[y] # "record"
    BY <1>3 DEF CreateUnanswered, TypeOK
  <2>4. verdict[r] = NoRow
    BY <2>1 DEF RowOK, RowsHaveJobs, TickHoldsScanned, NoRow, Open, Cancelled
  <2>5. ActiveJobAccounted'
    BY <2>1, <2>2, <2>3 DEF JobOK, ActiveJobAccounted, Alive
  <2>6. QED  BY <2>1, <2>2, <2>4, <2>5 DEF JobOK, Alive
<1>4. ASSUME NEW x \in Processes, RecordRun(x) PROVE JobOK'
  <2>1. /\ call[x].run \in Runs /\ status[call[x].run] = NoRow
        /\ status'[call[x].run] = Open
        /\ \A s \in Runs : s # call[x].run => status'[s] = status[s]
    BY <1>4 DEF RecordRun, RowOK, LaunchesApart, TypeOK
  <2>2. UNCHANGED <<cancelledBy, job, verdict, orphans>>
    BY <1>4 DEF RecordRun
  <2>3. \A y \in Processes : y # x => Others(y)
    BY <1>4 DEF RecordRun, TypeOK
  <2>4. NoRow # "failed" /\ NoRow # Open
    BY DEF NoRow, Open
  <2>5. ActiveJobAccounted'
    BY <2>1, <2>2, <2>3, <2>4 DEF JobOK, ActiveJobAccounted, Alive
  <2>6. QED  BY <2>2, <2>5 DEF JobOK, Alive
<1>5. ASSUME NEW x \in Processes, Crash(x) PROVE JobOK'
  <2>1. UNCHANGED <<status, cancelledBy, job>>
    BY <1>5 DEF Crash
  <2>2. \A r \in Runs : verdict'[r] = verdict[r] \/ verdict'[r] = NoRow
    BY <1>5 DEF Crash
  <2>3. /\ orphans \subseteq orphans'
        /\ pc[x] = "record" => call[x].run \in orphans'
    BY <1>5 DEF Crash
  <2>4. \A y \in Processes : y # x => Others(y)
    BY <1>5 DEF Crash, TypeOK
  <2>5. ActiveJobAccounted'
    BY <2>1, <2>3, <2>4 DEF JobOK, ActiveJobAccounted, Alive
  <2>6. QED  BY <2>1, <2>2, <2>5 DEF JobOK, Alive
<1>6. ASSUME NEW r \in Runs, ProbeEnded(r) PROVE JobOK'
  <2>1. /\ Answer(r) \in {"success", "failed"}
        /\ Answer(r) = "failed" => verdict'[r] = "failed"
        /\ \A s \in Runs : s # r => verdict'[s] = verdict[s]
        /\ UNCHANGED <<status, cancelledBy, job, orphans, pc, call>>
    BY <1>6 DEF ProbeEnded, TypeOK
  <2>2. Alive(r) => Answer(r) = "failed" /\ job[r] = "retrying"
    BY <2>1 DEF Answer, Alive
  <2>3. ActiveJobAccounted'
    BY <2>1 DEF JobOK, ActiveJobAccounted, Alive
  <2>4. QED  BY <2>1, <2>2, <2>3 DEF JobOK, Alive
<1>7. ASSUME CloseRuns PROVE JobOK'
  <2>1. \A r \in Runs : /\ verdict'[r] = NoRow
                        /\ verdict[r] = NoRow => status'[r] = status[r]
                        /\ verdict[r] # NoRow => status'[r] = verdict[r]
    BY <1>7 DEF CloseRuns, Assigned
  <2>2. UNCHANGED <<cancelledBy, job, orphans>>
    BY <1>7 DEF CloseRuns
  <2>3. \A y \in Processes : Others(y) \/ pc[y] # "record"
    BY <1>7 DEF CloseRuns, TypeOK
  <2>4. ActiveJobAccounted'
    BY <2>1, <2>2, <2>3 DEF JobOK, ActiveJobAccounted, Alive
  <2>5. QED  BY <2>1, <2>4 DEF JobOK
<1>8. ASSUME NEW x \in Operators, NEW r \in Runs, Cancel(x, r) PROVE JobOK'
  <2>1. /\ status[r] = Open /\ cancelledBy'[r]
        /\ \A s \in Runs : s # r => status'[s] = status[s] /\ cancelledBy'[s] = cancelledBy[s]
    BY <1>8 DEF Cancel, Cancellable, TypeOK
  <2>2. UNCHANGED <<job, verdict, orphans>>
    BY <1>8 DEF Cancel
  <2>3. \A y \in Processes : Others(y) \/ pc[y] # "record"
    BY <1>8 DEF Cancel, TypeOK
  <2>4. ActiveJobAccounted'
    BY <2>1, <2>2, <2>3 DEF JobOK, ActiveJobAccounted, Alive
  <2>5. QED  BY <2>2, <2>4 DEF JobOK, Alive
<1>9. ASSUME NEW x \in Operators, DeleteJob(x) PROVE JobOK'
  <2>1. \A s \in Runs : job'[s] = job[s] \/ ~Alive(s)'
    BY <1>9 DEF DeleteJob, Alive, TypeOK
  <2>2. UNCHANGED <<status, cancelledBy, verdict, orphans>>
    BY <1>9 DEF DeleteJob
  <2>3. \A y \in Processes : Others(y) \/ pc[y] # "record"
    BY <1>9 DEF DeleteJob, TypeOK
  <2>4. ActiveJobAccounted'
    BY <2>1, <2>2, <2>3 DEF JobOK, ActiveJobAccounted, Alive
  <2>5. QED  BY <2>1, <2>2, <2>4 DEF JobOK, Alive
<1>10. ASSUME NEW r \in Runs, PodDies(r) PROVE JobOK'
  <2>1. /\ job[r] = "active" /\ job'[r] = "retrying"
        /\ \A s \in Runs : s # r => job'[s] = job[s]
        /\ UNCHANGED <<status, cancelledBy, verdict, orphans, pc, call>>
    BY <1>10 DEF PodDies, TypeOK
  <2>2. Alive(r)
    BY <2>1 DEF Alive
  <2>3. verdict[r] = NoRow
    BY <2>1, <2>2 DEF JobOK
  <2>4. ActiveJobAccounted'
    BY <2>1, <2>2 DEF JobOK, ActiveJobAccounted, Alive
  <2>5. QED  BY <2>1, <2>3, <2>4 DEF JobOK, Alive
<1>11. ASSUME NEW r \in Runs, JobEnds(r) PROVE JobOK'
  <2>1. \A s \in Runs : job'[s] = job[s] \/ ~Alive(s)'
    BY <1>11 DEF JobEnds, Alive, TypeOK
  <2>2. UNCHANGED <<status, cancelledBy, verdict, orphans>>
    BY <1>11 DEF JobEnds
  <2>3. \A y \in Processes : Others(y) \/ pc[y] # "record"
    BY <1>11 DEF JobEnds, TypeOK
  <2>4. ActiveJobAccounted'
    BY <2>1, <2>2, <2>3 DEF JobOK, ActiveJobAccounted, Alive
  <2>5. QED  BY <2>1, <2>2, <2>4 DEF JobOK, Alive
<1>12. ASSUME NEW r \in Runs, JobCollected(r) PROVE JobOK'
  <2>1. \A s \in Runs : job'[s] = job[s] \/ ~Alive(s)'
    BY <1>12 DEF JobCollected, Alive, TypeOK
  <2>2. UNCHANGED <<status, cancelledBy, verdict, orphans>>
    BY <1>12 DEF JobCollected
  <2>3. \A y \in Processes : Others(y) \/ pc[y] # "record"
    BY <1>12 DEF JobCollected, TypeOK
  <2>4. ActiveJobAccounted'
    BY <2>1, <2>2, <2>3 DEF JobOK, ActiveJobAccounted, Alive
  <2>5. QED  BY <2>1, <2>2, <2>4 DEF JobOK, Alive
<1>13. ASSUME NEW x \in Processes,
            \/ NoOpenRun(x) \/ Skip(x) \/ Refuse(x) \/ PickCluster(x)
     PROVE  Same
  BY <1>13 DEF NoOpenRun, TypeOK, Skip, Refuse, StampLastRun, PickCluster
<1>14. ASSUME
            \/ Scan \/ StartPolicies \/ TickEnds \/ CronFires
     PROVE  Same
  BY <1>14 DEF Scan, Scanned, OpenRuns, TypeOK, StartPolicies, TickEnds, CronFires
<1>15. ASSUME NEW r \in Runs,
            \/ ProbeOpen(r) \/ MirrorClose(r) \/ ReportYield(r)
     PROVE  Same
  BY <1>15 DEF ProbeOpen, TypeOK, MirrorClose, Mirror, ReportYield
<1>16. ASSUME NEW p \in Policies,
            \/ NotDue(p) \/ LaunchDue(p) \/ RefuseFrozen(p)
     PROVE  Same
  BY <1>16 DEF NotDue, TypeOK, LaunchDue, RefuseFrozen
<1>17. ASSUME NEW x \in Operators,
            \/ TriggerNow(x) \/ LaunchAdhoc(x) \/ MirrorCancel(x) \/ DeleteFails(x)
     PROVE  Same
  BY <1>17 DEF TriggerNow, StartLaunch, TypeOK, LaunchAdhoc, MirrorCancel, Mirror,
       DeleteFails
<1>18. ASSUME UNCHANGED vars PROVE Same
  BY <1>18 DEF vars
<1> HIDE DEF Same
<1>19. QED
  BY <1>1, <1>2, <1>3, <1>4, <1>5, <1>6, <1>7, <1>8, <1>9, <1>10, <1>11, <1>12, <1>13,
     <1>14, <1>15, <1>16, <1>17, <1>18 DEF Next, vars, TickStep, LaunchStep, OperatorStep

--------------------------------------------------------------------------------
\* The three transactions that change a status leave a tick's verdict alone.
LEMMA StepNaturalClose ==
  ASSUME TypeOK, RowOK, [Next]_vars, NEW r \in Runs, status[r] \in Closed \ {Cancelled}
  PROVE  status'[r] = status[r]
<1> DEFINE Same == UNCHANGED status
<1> USE DEF TypeOK
<1>1. status[r] \notin {NoRow, Open, Cancelled}
  BY DEF NoRow, Open, Cancelled, Closed, Verdicts
<1>2. ASSUME NEW x \in Processes, RecordRun(x) PROVE status'[r] = status[r]
  <2>1. status[call[x].run] = NoRow
    BY <1>2 DEF RecordRun, RowOK, LaunchesApart
  <2>2. QED  BY <1>1, <1>2, <2>1 DEF RecordRun
<1>3. ASSUME CloseRuns PROVE status'[r] = status[r]
  <2>1. verdict[r] = NoRow
    BY <1>1 DEF RowOK, TickHoldsScanned
  <2>2. QED  BY <1>3, <2>1 DEF CloseRuns, Assigned
<1>4. ASSUME NEW x \in Operators, NEW s \in Runs, Cancel(x, s) PROVE status'[r] = status[r]
  BY <1>1, <1>4 DEF Cancel, Cancellable
<1>5. ASSUME NEW x \in Processes,
            \/ NoOpenRun(x) \/ Skip(x) \/ Refuse(x) \/ PickCluster(x) \/ CreateJob(x)
            \/ CreateUnanswered(x) \/ Crash(x)
     PROVE  Same
  BY <1>5 DEF NoOpenRun, Skip, Refuse, StampLastRun, PickCluster, CreateJob,
       CreateUnanswered, Crash
<1>6. ASSUME
            \/ Scan \/ StartPolicies \/ TickEnds \/ CronFires
     PROVE  Same
  BY <1>6 DEF Scan, Scanned, OpenRuns, StartPolicies, TickEnds, CronFires
<1>7. ASSUME NEW s \in Runs,
            \/ ProbeEnded(s) \/ ProbeOpen(s) \/ MirrorClose(s) \/ ReportYield(s) \/ PodDies(s)
            \/ JobEnds(s) \/ JobCollected(s)
     PROVE  Same
  BY <1>7 DEF ProbeEnded, ProbeOpen, MirrorClose, Mirror, ReportYield, PodDies, JobEnds,
       JobCollected
<1>8. ASSUME NEW p \in Policies,
            \/ NotDue(p) \/ LaunchDue(p) \/ RefuseFrozen(p)
     PROVE  Same
  BY <1>8 DEF NotDue, LaunchDue, RefuseFrozen
<1>9. ASSUME NEW x \in Operators,
            \/ TriggerNow(x) \/ LaunchAdhoc(x) \/ MirrorCancel(x) \/ DeleteJob(x) \/ DeleteFails(x)
     PROVE  Same
  BY <1>9 DEF TriggerNow, StartLaunch, LaunchAdhoc, MirrorCancel, Mirror, DeleteJob,
       DeleteFails
<1>10. ASSUME UNCHANGED vars PROVE Same
  BY <1>10 DEF vars
<1> HIDE DEF Same
<1>11. Same => status'[r] = status[r]
  BY DEF Same
<1>12. QED
  BY <1>2, <1>3, <1>4, <1>5, <1>6, <1>7, <1>8, <1>9, <1>10, <1>11
     DEF Next, vars, TickStep, LaunchStep, OperatorStep

--------------------------------------------------------------------------------
\* Initially everything is empty.
LEMMA InitOK == Init => TypeOK /\ RowOK /\ VerdictOK /\ MirrorOK /\ JobOK
<1> SUFFICES ASSUME Init PROVE TypeOK /\ RowOK /\ VerdictOK /\ MirrorOK /\ JobOK
  OBVIOUS
<1>1. TypeOK
  <2>1. <<>> \in Seq(PlatformStatuses)
    OBVIOUS
  <2>2. NoCall \in Calls
    BY CallTypes
  <2>3. QED  BY <2>1, <2>2 DEF Init, TypeOK, Statuses, Levels, JobStates, Stages
<1>2. RowOK
  BY DEF Init, RowOK, RowsHaveJobs, LaunchesApart, TickHoldsScanned, MirrorsClosed
<1>3. VerdictOK
  <2>1. ASSUME NEW r \in Runs
        PROVE  /\ seen[r] = 0 /\ yields[r] = 0
               /\ verdict[r] \notin {"success", "redundant", "no_op"}
               /\ status[r] \notin {"success", "redundant", "no_op"}
    BY DEF Init, NoRow
  <2>2. QED  BY <2>1 DEF VerdictOK, Justified
<1>4. MirrorOK
  BY DEF Init, MirrorOK, CloseAccounted, NoRow, Cancelled, Closed, Verdicts
<1>5. JobOK
  BY DEF Init, JobOK, ActiveJobAccounted, Alive
<1>6. QED  BY <1>1, <1>2, <1>3, <1>4, <1>5

IInv == TypeOK /\ RowOK /\ VerdictOK /\ MirrorOK /\ JobOK

LEMMA InductiveInvariant == Spec => []IInv
<1>1. Init => IInv
  BY InitOK DEF IInv
<1>2. IInv /\ [Next]_vars => IInv'
  BY StepTypeOK, StepRowOK, StepVerdictOK, StepMirrorOK, StepJobOK DEF IInv
<1>3. QED  BY <1>1, <1>2, PTL DEF Spec

\* Every row, job and process of the run engine stays within its type.
THEOREM RunsTypeCorrect == Spec => []TypeOK
<1>1. IInv => TypeOK
  BY DEF IInv
<1>2. QED  BY <1>1, InductiveInvariant, PTL

\* No verdict claims more than the pod reported, whatever ticks, pods and
\* operators do between the tick's transactions.
THEOREM VerdictsHonest == Spec => []VerdictNotInflated
<1>1. IInv => VerdictNotInflated
  BY DEF IInv, VerdictOK, Justified, VerdictNotInflated
<1>2. QED  BY <1>1, InductiveInvariant, PTL

\* No job runs that nobody knows of, short of the faults named.
THEOREM JobsAccounted == Spec => []ActiveJobAccounted
<1>1. IInv => ActiveJobAccounted
  BY DEF IInv, JobOK
<1>2. QED  BY <1>1, InductiveInvariant, PTL

\* No close is forgotten by the mirror, short of the faults named.
THEOREM ClosesAccounted == Spec => []CloseAccounted
<1>1. IInv => CloseAccounted
  BY DEF IInv, MirrorOK
<1>2. QED  BY <1>1, InductiveInvariant, PTL

\* A run nobody cancelled is mirrored at most once, as it was closed.
THEOREM MirrorsOnce == Spec => []MirroredOnce
<1>1. IInv => MirroredOnce
  BY DEF IInv, MirrorOK, MirroredOnce
<1>2. QED  BY <1>1, InductiveInvariant, PTL

\* The status a tick gave a run is final.
THEOREM NaturalCloseIsFinal == Spec => NaturalCloseStands
<1> DEFINE Stands == \A r \in Runs : status[r] \in Closed \ {Cancelled} => status'[r] = status[r]
<1>1. IInv /\ [Next]_vars => [Stands]_vars
  BY StepNaturalClose DEF IInv
<1>2. QED  BY <1>1, InductiveInvariant, PTL DEF Spec, NaturalCloseStands

--------------------------------------------------------------------------------
\* What launch x found out still holds, or is marked as outdated: the policy it
\* launches has no open run, the cluster it picked has room.
Findings(x) ==
  /\ pc[x] \in {"plan", "create", "record"} /\ call[x].target \in Policies
     /\ <<x, "policy">> \notin outdated => ~HasOpenRun(call[x].target)
  /\ pc[x] \in {"create", "record"} =>
       /\ call[x].site \in Clusters
       /\ <<x, "cluster">> \notin outdated =>
            \A c \in Clusters : c = call[x].site => OpenOn(c) < Capacity[c]
  /\ pc[x] = "record" =>
       /\ policyOf[call[x].run] = call[x].target
       /\ clusterOf[call[x].run] = call[x].site

RacesOK == (\A x \in Processes : Findings(x)) /\ SecondRunOnlyByRace /\ OverfullOnlyByRace

\* A step that opens no run and leaves the columns of open ones alone.
OpensNone ==
  \A r \in Runs : status'[r] = Open =>
    status[r] = Open /\ policyOf'[r] = policyOf[r] /\ clusterOf'[r] = clusterOf[r]

LEMMA RunsFinite ==
  ASSUME NEW S \in SUBSET Runs
  PROVE  IsFiniteSet(S) /\ Cardinality(S) \in Nat
<1>1. IsFiniteSet(Runs)
  BY BoundAssumption, FS_Interval
<1>2. IsFiniteSet(S)
  BY <1>1, FS_Subset
<1>3. QED  BY <1>2, FS_CardinalityType

LEMMA RunsCompare ==
  ASSUME NEW S \in SUBSET Runs, NEW T \in SUBSET Runs, T \subseteq S
  PROVE  Cardinality(T) <= Cardinality(S)
BY RunsFinite, FS_Subset

\* It gives no policy a second open run and fills no cluster.
LEMMA OpenRunsShrink ==
  ASSUME OpensNone, raced' = raced
  PROVE  /\ \A p : HasOpenRun(p)' => HasOpenRun(p)
         /\ \A c \in Clusters : OpenOn(c) \in Nat /\ OpenOn(c)' \in Nat /\ OpenOn(c)' <= OpenOn(c)
         /\ SecondRunOnlyByRace => SecondRunOnlyByRace'
         /\ OverfullOnlyByRace => OverfullOnlyByRace'
<1>1. \A p : HasOpenRun(p)' => HasOpenRun(p)
  BY DEF HasOpenRun, OpenRuns, OpensNone
<1>2. ASSUME NEW c \in Clusters
      PROVE  OpenOn(c) \in Nat /\ OpenOn(c)' \in Nat /\ OpenOn(c)' <= OpenOn(c)
  <2> DEFINE S == {r \in OpenRuns : clusterOf[r] = c}
  <2>1. S \in SUBSET Runs /\ S' \in SUBSET Runs /\ S' \subseteq S
    BY DEF OpenRuns, OpensNone
  <2>2. Cardinality(S) \in Nat /\ Cardinality(S') \in Nat /\ Cardinality(S') <= Cardinality(S)
    <3> HIDE DEF S
    <3>1. QED  BY <2>1, RunsFinite, RunsCompare
  <2>3. QED  BY <2>2 DEF OpenOn
<1>3. ASSUME SecondRunOnlyByRace, NEW p \in Policies
      PROVE  Cardinality({r \in OpenRuns' : policyOf'[r] = p /\ <<r, "policy">> \notin raced'}) <= 1
  <2> DEFINE S == {r \in OpenRuns : policyOf[r] = p /\ <<r, "policy">> \notin raced}
  <2>1. S \in SUBSET Runs /\ S' \in SUBSET Runs /\ S' \subseteq S
    BY DEF OpenRuns, OpensNone
  <2>2. Cardinality(S) <= 1
    BY <1>3 DEF SecondRunOnlyByRace
  <2>3. Cardinality(S') <= 1
    <3> HIDE DEF S
    <3>1. Cardinality(S) \in Nat /\ Cardinality(S') \in Nat /\ Cardinality(S') <= Cardinality(S)
      BY <2>1, RunsFinite, RunsCompare
    <3>2. QED  BY <2>2, <3>1
  <2>4. QED  BY <2>3
<1>4. ASSUME OverfullOnlyByRace, NEW c \in Clusters
      PROVE  Cardinality({r \in OpenRuns' : clusterOf'[r] = c /\ <<r, "cluster">> \notin raced'})
               <= Capacity[c]
  <2> DEFINE S == {r \in OpenRuns : clusterOf[r] = c /\ <<r, "cluster">> \notin raced}
  <2>1. S \in SUBSET Runs /\ S' \in SUBSET Runs /\ S' \subseteq S
    BY DEF OpenRuns, OpensNone
  <2>2. Cardinality(S) <= Capacity[c] /\ Capacity[c] \in Nat
    BY <1>4, ClusterAssumption DEF OverfullOnlyByRace
  <2>3. Cardinality(S') <= Capacity[c]
    <3> HIDE DEF S
    <3>1. Cardinality(S) \in Nat /\ Cardinality(S') \in Nat /\ Cardinality(S') <= Cardinality(S)
      BY <2>1, RunsFinite, RunsCompare
    <3>2. QED  BY <2>2, <3>1
  <2>4. QED  BY <2>3
<1>5. QED  BY <1>1, <1>2, <1>3, <1>4 DEF SecondRunOnlyByRace, OverfullOnlyByRace

\* The findings of a launch that such a step leaves where it is.
LEMMA FindingsStay ==
  ASSUME OpensNone, raced' = raced, NEW x \in Processes, Findings(x),
         pc'[x] = pc[x], call'[x] = call[x],
         \A f : <<x, f>> \in outdated => <<x, f>> \in outdated',
         pc[x] = "record" => /\ policyOf'[call[x].run] = policyOf[call[x].run]
                             /\ clusterOf'[call[x].run] = clusterOf[call[x].run]
  PROVE  Findings(x)'
<1>1. /\ \A p : HasOpenRun(p)' => HasOpenRun(p)
      /\ \A c \in Clusters : OpenOn(c) \in Nat /\ OpenOn(c)' \in Nat /\ OpenOn(c)' <= OpenOn(c)
  BY OpenRunsShrink
<1>2. ~HasOpenRun(call[x].target) => ~HasOpenRun(call[x].target)'
  BY <1>1 DEF HasOpenRun, OpenRuns
<1>3. ASSUME NEW c \in Clusters, OpenOn(c) < Capacity[c] PROVE OpenOn(c)' < Capacity[c]
  <2>1. Capacity[c] \in Nat
    BY ClusterAssumption
  <2>2. QED  BY <1>1, <1>3, <2>1
<1>4. QED  BY <1>2, <1>3 DEF Findings

LEMMA FindingsOver ==
  ASSUME NEW x \in Processes, pc'[x] \notin {"plan", "create", "record"}
  PROVE  Findings(x)'
BY DEF Findings

\* Steps that launch nothing: every launch stays where it is or ends.
LEMMA QuietRacesOK ==
  ASSUME RacesOK, OpensNone, raced' = raced, outdated' = outdated,
         \A x \in Processes : \/ pc'[x] \notin {"plan", "create", "record"}
                              \/ pc'[x] = pc[x] /\ call'[x] = call[x],
         \A x \in Processes : pc[x] = "record" =>
           /\ policyOf'[call[x].run] = policyOf[call[x].run]
           /\ clusterOf'[call[x].run] = clusterOf[call[x].run]
  PROVE  RacesOK'
<1>1. ASSUME NEW x \in Processes PROVE Findings(x)'
  <2>1. CASE pc'[x] \notin {"plan", "create", "record"}
    BY <2>1, FindingsOver
  <2>2. CASE pc'[x] = pc[x] /\ call'[x] = call[x]
    BY <2>2, FindingsStay DEF RacesOK
  <2>3. QED  BY <2>1, <2>2
<1>2. SecondRunOnlyByRace' /\ OverfullOnlyByRace'
  BY OpenRunsShrink DEF RacesOK
<1>3. QED  BY <1>1, <1>2 DEF RacesOK

\* A step of one launch that opens no run.
LEMMA LaunchRacesOK ==
  ASSUME RacesOK, OpensNone, raced' = raced, NEW x \in Processes,
         \A y \in Processes \ {x} :
           /\ pc'[y] = pc[y] /\ call'[y] = call[y]
           /\ \A f : <<y, f>> \in outdated => <<y, f>> \in outdated',
         \A y \in Processes \ {x} : pc[y] = "record" =>
           /\ policyOf'[call[y].run] = policyOf[call[y].run]
           /\ clusterOf'[call[y].run] = clusterOf[call[y].run],
         Findings(x)'
  PROVE  RacesOK'
<1>1. \A y \in Processes \ {x} : Findings(y)'
  BY FindingsStay DEF RacesOK
<1>2. SecondRunOnlyByRace' /\ OverfullOnlyByRace'
  BY OpenRunsShrink DEF RacesOK
<1>3. QED  BY <1>1, <1>2 DEF RacesOK

LEMMA RecordRacesOK ==
  ASSUME TypeOK, RowOK, RacesOK, NEW x \in Processes, RecordRun(x)
  PROVE  RacesOK'
<1> DEFINE r == call[x].run
           t == call[x].target
           k == call[x].site
<1>1. /\ pc[x] = "record" /\ r \in Runs /\ status[r] = NoRow
      /\ status' = [status EXCEPT ![r] = Open]
      /\ UNCHANGED <<policyOf, clusterOf>>
  BY DEF RecordRun, RowOK, LaunchesApart
<1>2. /\ pc'[x] \notin {"plan", "create", "record"}
      /\ \A y \in Processes : y # x => pc'[y] = pc[y] /\ call'[y] = call[y]
  BY DEF RecordRun, TypeOK
<1>3. r \notin OpenRuns /\ OpenRuns' = OpenRuns \cup {r}
  <2> HIDE DEF r
  <2>1. status'[r] = Open /\ \A s \in Runs : s # r => status'[s] = status[s]
    BY <1>1 DEF TypeOK
  <2>2. QED  BY <1>1, <2>1 DEF OpenRuns, NoRow, Open
<1>4. policyOf[r] = t /\ clusterOf[r] = k /\ k \in Clusters
  BY <1>1 DEF RacesOK, Findings
<1>5. /\ \A y \in Processes \ {x} :
           /\ pc[y] \in {"plan", "create", "record"} /\ call[y].target = t
                => <<y, "policy">> \in outdated'
           /\ pc[y] \in {"create", "record"} /\ call[y].site = k => <<y, "cluster">> \in outdated'
      /\ outdated \subseteq outdated'
  BY DEF RecordRun, Outdates
<1>6. /\ \A f \in {"policy", "cluster"} : <<x, f>> \in outdated => <<r, f>> \in raced'
      /\ \A s \in Runs, f \in {"policy", "cluster"} :
           s # r => (<<s, f>> \in raced' <=> <<s, f>> \in raced)
  BY DEF RecordRun
<1> HIDE DEF r, t, k
<1>7. ASSUME NEW y \in Processes, y # x PROVE Findings(y)'
  <2>1. pc'[y] = pc[y] /\ call'[y] = call[y] /\ Findings(y)
    BY <1>2, <1>7 DEF RacesOK
  <2>2. ASSUME pc[y] \in {"plan", "create", "record"}, call[y].target \in Policies,
               <<y, "policy">> \notin outdated'
        PROVE  ~HasOpenRun(call[y].target)'
    <3>1. call[y].target # t /\ ~HasOpenRun(call[y].target)
      BY <1>5, <1>7, <2>1, <2>2 DEF Findings
    <3>2. \A s \in OpenRuns' : policyOf'[s] # call'[y].target
      BY <1>1, <1>3, <1>4, <2>1, <3>1 DEF HasOpenRun
    <3>3. QED  BY <3>2 DEF HasOpenRun
  <2>3. ASSUME pc[y] \in {"create", "record"}, <<y, "cluster">> \notin outdated',
               NEW c \in Clusters, c = call[y].site
        PROVE  OpenOn(c)' < Capacity[c]
    <3>1. c # k /\ OpenOn(c) < Capacity[c]
      BY <1>5, <1>7, <2>1, <2>3 DEF Findings
    <3>2. {s \in OpenRuns' : clusterOf'[s] = c} = {s \in OpenRuns : clusterOf[s] = c}
      BY <1>1, <1>3, <1>4, <3>1
    <3>3. OpenOn(c)' = OpenOn(c)
      BY <3>2 DEF OpenOn
    <3>4. QED  BY <3>1, <3>3
  <2>4. QED  BY <1>1, <2>1, <2>2, <2>3 DEF Findings
<1>8. Findings(x)'
  BY <1>2, FindingsOver
<1>9. ASSUME NEW p \in Policies
      PROVE  Cardinality({s \in OpenRuns' : policyOf'[s] = p /\ <<s, "policy">> \notin raced'}) <= 1
  <2> DEFINE S == {s \in OpenRuns : policyOf[s] = p /\ <<s, "policy">> \notin raced}
             T == {s \in OpenRuns' : policyOf'[s] = p /\ <<s, "policy">> \notin raced'}
  <2>1. OpenRuns \subseteq Runs
    BY DEF OpenRuns
  <2>2. CASE p = t /\ <<r, "policy">> \notin raced'
    <3>1. <<x, "policy">> \notin outdated /\ t \in Policies
      BY <1>6, <2>2
    <3>2. ~HasOpenRun(t)
      BY <1>1, <3>1 DEF RacesOK, Findings, t
    <3>3. T = {r}
      BY <1>1, <1>3, <1>4, <2>2, <3>2 DEF HasOpenRun
    <3>4. Cardinality(T) = 1
      <4> HIDE DEF T
      <4>1. QED  BY <3>3, FS_Singleton
    <3>5. QED  BY <3>4
  <2>3. CASE ~(p = t /\ <<r, "policy">> \notin raced')
    <3>1. T = S
      BY <1>1, <1>3, <1>4, <1>6, <2>1, <2>3
    <3>2. Cardinality(S) <= 1
      BY DEF RacesOK, SecondRunOnlyByRace
    <3>3. QED  BY <3>1, <3>2
  <2>4. QED  BY <2>2, <2>3
<1>10. ASSUME NEW c \in Clusters
       PROVE  Cardinality({s \in OpenRuns' : clusterOf'[s] = c /\ <<s, "cluster">> \notin raced'})
                <= Capacity[c]
  <2> DEFINE S == {s \in OpenRuns : clusterOf[s] = c /\ <<s, "cluster">> \notin raced}
             T == {s \in OpenRuns' : clusterOf'[s] = c /\ <<s, "cluster">> \notin raced'}
             U == {s \in OpenRuns : clusterOf[s] = c}
  <2>1. OpenRuns \subseteq Runs /\ S \in SUBSET Runs /\ U \in SUBSET Runs /\ S \subseteq U
    BY DEF OpenRuns
  <2>2. CASE c = k /\ <<r, "cluster">> \notin raced'
    <3>1. <<x, "cluster">> \notin outdated
      BY <1>6, <2>2
    <3>2. OpenOn(c) < Capacity[c] /\ Capacity[c] \in Nat
      BY <1>1, <2>2, <3>1, ClusterAssumption DEF RacesOK, Findings, k
    <3>3. Cardinality(U) < Capacity[c]
      BY <3>2 DEF OpenOn
    <3>4. T = S \cup {r} /\ r \notin S
      BY <1>1, <1>3, <1>4, <1>6, <2>1, <2>2
    <3> HIDE DEF S, T, U
    <3>5. /\ IsFiniteSet(S) /\ Cardinality(S) \in Nat /\ Cardinality(U) \in Nat
          /\ Cardinality(S) <= Cardinality(U)
      BY <2>1, RunsFinite, RunsCompare
    <3>6. Cardinality(T) = Cardinality(S) + 1
      BY <3>4, <3>5, FS_AddElement
    <3>7. Cardinality(T) <= Capacity[c]
      BY <3>2, <3>3, <3>5, <3>6
    <3>8. QED  BY <3>7 DEF T
  <2>3. CASE ~(c = k /\ <<r, "cluster">> \notin raced')
    <3>1. T = S
      BY <1>1, <1>3, <1>4, <1>6, <2>1, <2>3
    <3>2. Cardinality(S) <= Capacity[c]
      BY DEF RacesOK, OverfullOnlyByRace
    <3>3. QED  BY <3>1, <3>2
  <2>4. QED  BY <2>2, <2>3
<1>11. SecondRunOnlyByRace' /\ OverfullOnlyByRace'
  BY <1>9, <1>10 DEF SecondRunOnlyByRace, OverfullOnlyByRace
<1>12. QED  BY <1>7, <1>8, <1>11 DEF RacesOK

\* Between what a launch found out and the commit of its run nobody else opens a run
\* of the policy or on the cluster, or the launch is marked.
LEMMA StepRacesOK == TypeOK /\ RowOK /\ RacesOK /\ [Next]_vars => RacesOK'
<1> SUFFICES ASSUME TypeOK, RowOK, RacesOK, [Next]_vars PROVE RacesOK'
  OBVIOUS
<1> DEFINE Launching == {"plan", "create", "record"}
           Quiet == /\ OpensNone /\ raced' = raced /\ outdated' = outdated
                    /\ \A x \in Processes : \/ pc'[x] \notin Launching
                                            \/ pc'[x] = pc[x] /\ call'[x] = call[x]
                    /\ \A x \in Processes : pc[x] = "record" =>
                         /\ policyOf'[call[x].run] = policyOf[call[x].run]
                         /\ clusterOf'[call[x].run] = clusterOf[call[x].run]
<1>1. Quiet => RacesOK'
  BY QuietRacesOK
<1>2. ASSUME NEW x \in Processes, NoOpenRun(x) PROVE RacesOK'
  <2>1. /\ OpensNone /\ raced' = raced /\ UNCHANGED <<status, policyOf, clusterOf, call>>
        /\ pc[x] = "check" /\ ~HasOpenRun(call[x].target) /\ pc'[x] = "plan"
        /\ outdated' = outdated \ {<<x, "policy">>}
        /\ \A y \in Processes \ {x} : pc'[y] = pc[y]
    BY <1>2 DEF NoOpenRun, OpensNone, TypeOK
  <2>2. ~HasOpenRun(call[x].target)'
    BY <2>1 DEF HasOpenRun, OpenRuns
  <2>3. Findings(x)'
    BY <2>1, <2>2 DEF Findings
  <2>4. \A y \in Processes \ {x} : \A f : <<y, f>> \in outdated => <<y, f>> \in outdated'
    BY <2>1
  <2>5. QED  BY <2>1, <2>3, <2>4, LaunchRacesOK
<1>3. ASSUME NEW x \in Processes, PickCluster(x) PROVE RacesOK'
  <2>1. /\ OpensNone /\ raced' = raced /\ UNCHANGED <<status, policyOf, clusterOf>>
        /\ pc[x] = "plan" /\ pc'[x] = "create"
        /\ outdated' = outdated \ {<<x, "cluster">>}
        /\ \A y \in Processes \ {x} : pc'[y] = pc[y] /\ call'[y] = call[y]
    BY <1>3 DEF PickCluster, OpensNone, TypeOK
  <2>2. PICK c \in Clusters : /\ OpenOn(c) < Capacity[c]
                              /\ call' = [call EXCEPT ![x] = [call[x] EXCEPT !.site = c]]
    BY <1>3 DEF PickCluster, WithRoom
  <2>3. call'[x].site = c /\ call'[x].target = call[x].target
    <3>1. call[x] \in Calls
      BY DEF TypeOK
    <3>2. QED  BY <2>2, <3>1 DEF TypeOK, Calls
  <2>4. <<x, "policy">> \notin outdated' => <<x, "policy">> \notin outdated
    BY <2>1
  <2>5. OpenOn(c)' < Capacity[c]
    BY <2>1, <2>2 DEF OpenOn, OpenRuns
  <2>6. call[x].target \in Policies /\ <<x, "policy">> \notin outdated'
          => ~HasOpenRun(call[x].target)
    BY <2>1, <2>4 DEF RacesOK, Findings
  <2>7. call'[x].target \in Policies /\ <<x, "policy">> \notin outdated'
          => ~HasOpenRun(call[x].target)'
    BY <2>1, <2>3, <2>6 DEF HasOpenRun, OpenRuns
  <2>8. Findings(x)'
    BY <2>1, <2>3, <2>5, <2>7 DEF Findings
  <2>9. \A y \in Processes \ {x} : \A f : <<y, f>> \in outdated => <<y, f>> \in outdated'
    BY <2>1
  <2>10. QED  BY <2>1, <2>8, <2>9, LaunchRacesOK
<1>4. ASSUME NEW x \in Processes, CreateJob(x) PROVE RacesOK'
  <2>1. PICK r \in Runs :
          /\ job[r] = "none"
          /\ policyOf' = [policyOf EXCEPT ![r] = call[x].target]
          /\ clusterOf' = [clusterOf EXCEPT ![r] = call[x].site]
          /\ call' = [call EXCEPT ![x] = [call[x] EXCEPT !.run = r]]
    BY <1>4 DEF CreateJob, Submit, Fresh
  <2>2. /\ pc[x] = "create" /\ pc'[x] = "record" /\ UNCHANGED <<status, raced, outdated>>
        /\ \A y \in Processes \ {x} : pc'[y] = pc[y] /\ call'[y] = call[y]
    BY <1>4, <2>1 DEF CreateJob, TypeOK
  <2>3. status[r] # Open
    BY <2>1 DEF RowOK, RowsHaveJobs, NoRow, Open
  <2>4. OpensNone
    BY <2>1, <2>2, <2>3 DEF TypeOK, OpensNone
  <2>5. /\ call'[x].site = call[x].site /\ call'[x].target = call[x].target
        /\ call'[x].run = r
    <3>1. call[x] \in Calls
      BY DEF TypeOK
    <3>2. QED  BY <2>1, <3>1 DEF TypeOK, Calls
  <2>6. policyOf'[r] = call[x].target /\ clusterOf'[r] = call[x].site
    BY <2>1 DEF TypeOK
  <2>7. \A y \in Processes \ {x} : pc[y] = "record" =>
          /\ policyOf'[call[y].run] = policyOf[call[y].run]
          /\ clusterOf'[call[y].run] = clusterOf[call[y].run]
    BY <2>1 DEF RowOK, LaunchesApart, TypeOK
  <2>8. /\ \A p : HasOpenRun(p)' => HasOpenRun(p)
        /\ \A c \in Clusters : OpenOn(c) \in Nat /\ OpenOn(c)' \in Nat /\ OpenOn(c)' <= OpenOn(c)
    BY <2>2, <2>4, OpenRunsShrink
  <2>9. Findings(x)
    BY DEF RacesOK
  <2>10. ASSUME call[x].target \in Policies, <<x, "policy">> \notin outdated
         PROVE  ~HasOpenRun(call[x].target)'
    <3>1. ~HasOpenRun(call[x].target)
      BY <2>2, <2>9, <2>10 DEF Findings
    <3>2. \A s \in Runs : status'[s] = Open => policyOf'[s] # call'[x].target
      BY <2>4, <2>5, <3>1 DEF HasOpenRun, OpenRuns, OpensNone
    <3>3. QED  BY <3>2 DEF HasOpenRun, OpenRuns
  <2>11. ASSUME NEW c \in Clusters, c = call[x].site, <<x, "cluster">> \notin outdated
         PROVE  OpenOn(c)' < Capacity[c]
    <3>1. OpenOn(c) < Capacity[c] /\ Capacity[c] \in Nat
      BY <2>2, <2>9, <2>11, ClusterAssumption DEF Findings
    <3>2. QED  BY <2>8, <3>1
  <2>12. call[x].site \in Clusters
    BY <2>2, <2>9 DEF Findings
  <2>13. Findings(x)'
    BY <2>2, <2>5, <2>6, <2>10, <2>11, <2>12 DEF Findings
  <2>14. QED  BY <2>2, <2>4, <2>7, <2>13, LaunchRacesOK
<1>5. ASSUME NEW x \in Processes, RecordRun(x) PROVE RacesOK'
  BY <1>5, RecordRacesOK
<1>6. ASSUME NEW x \in Processes, CreateUnanswered(x) PROVE Quiet
  <2>1. PICK r \in Runs : job[r] = "none" /\ policyOf' = [policyOf EXCEPT ![r] = call[x].target]
    BY <1>6 DEF CreateUnanswered, Submit, Fresh
  <2>2. status[r] # Open /\ \A y \in Processes : pc[y] = "record" => call[y].run # r
    BY <2>1 DEF RowOK, RowsHaveJobs, LaunchesApart, NoRow, Open
  <2>3. /\ UNCHANGED <<status, clusterOf, raced, outdated>>
        /\ pc'[x] \notin Launching
        /\ \A y \in Processes \ {x} : pc'[y] = pc[y] /\ call'[y] = call[y]
    BY <1>6 DEF CreateUnanswered, TypeOK
  <2>4. OpensNone
    BY <2>1, <2>2, <2>3 DEF TypeOK, OpensNone
  <2>5. \A y \in Processes : pc[y] = "record" =>
          /\ policyOf'[call[y].run] = policyOf[call[y].run]
          /\ clusterOf'[call[y].run] = clusterOf[call[y].run]
    BY <2>1, <2>2, <2>3 DEF TypeOK, RowOK, LaunchesApart
  <2>6. QED  BY <2>3, <2>4, <2>5
<1>7. ASSUME NEW x \in Processes, Skip(x) \/ Refuse(x) \/ Crash(x) PROVE Quiet
  BY <1>7 DEF Skip, Refuse, Crash, OpensNone, TypeOK
<1>8. ASSUME CloseRuns PROVE Quiet
  <2>1. \A r \in Runs : status'[r] = Open => status[r] = Open
    BY <1>8 DEF CloseRuns, Assigned, TypeOK, Verdicts, NoRow, Open
  <2>2. QED  BY <1>8, <2>1 DEF CloseRuns, OpensNone, TypeOK
<1>9. ASSUME Scan \/ StartPolicies \/ TickEnds PROVE Quiet
  BY <1>9 DEF Scan, StartPolicies, TickEnds, OpensNone, TypeOK
<1>10. ASSUME NEW p \in Policies, LaunchDue(p) PROVE Quiet
  BY <1>10 DEF LaunchDue, OpensNone, TypeOK
<1>11. ASSUME NEW p \in Policies, NotDue(p) \/ RefuseFrozen(p) PROVE Quiet
  BY <1>11 DEF NotDue, RefuseFrozen, OpensNone
<1>12. ASSUME NEW r \in Runs,
            \/ ProbeEnded(r) \/ ProbeOpen(r) \/ MirrorClose(r)
            \/ ReportYield(r) \/ PodDies(r) \/ JobEnds(r) \/ JobCollected(r)
       PROVE Quiet
  BY <1>12 DEF ProbeEnded, ProbeOpen, MirrorClose, ReportYield, PodDies, JobEnds, JobCollected,
               OpensNone
<1>13. ASSUME CronFires \/ UNCHANGED vars PROVE Quiet
  BY <1>13 DEF CronFires, vars, OpensNone
<1>14. ASSUME NEW x \in Operators, TriggerNow(x) PROVE Quiet
  BY <1>14 DEF TriggerNow, StartLaunch, OpensNone, TypeOK
<1>15. ASSUME NEW x \in Operators, LaunchAdhoc(x) PROVE RacesOK'
  <2>1. /\ OpensNone /\ UNCHANGED <<raced, outdated, policyOf, clusterOf>>
        /\ pc'[x] = "plan" /\ call' = [call EXCEPT ![x] = [call[x] EXCEPT !.target = Adhoc]]
        /\ \A y \in Processes \ {x} : pc'[y] = pc[y] /\ call'[y] = call[y]
    BY <1>15 DEF LaunchAdhoc, StartLaunch, OpensNone, TypeOK
  <2>2. call'[x].target = Adhoc
    <3>1. call[x] \in Calls
      BY DEF TypeOK
    <3>2. QED  BY <2>1, <3>1 DEF TypeOK, Calls
  <2>3. Findings(x)'
    BY <2>1, <2>2, PolicyAssumption DEF Findings
  <2>4. QED  BY <2>1, <2>3, LaunchRacesOK
<1>16. ASSUME NEW x \in Operators, NEW r \in Runs, Cancel(x, r) PROVE Quiet
  <2>1. \A s \in Runs : status'[s] = Open => status[s] = Open
    BY <1>16 DEF Cancel, TypeOK, Cancelled, Open
  <2>2. QED  BY <1>16, <2>1 DEF Cancel, OpensNone, TypeOK
<1>17. ASSUME NEW x \in Operators, MirrorCancel(x) \/ DeleteJob(x) \/ DeleteFails(x) PROVE Quiet
  BY <1>17 DEF MirrorCancel, DeleteJob, DeleteFails, OpensNone, TypeOK
<1> HIDE DEF Quiet
<1>18. QED
  BY <1>1, <1>2, <1>3, <1>4, <1>5, <1>6, <1>7, <1>8, <1>9, <1>10, <1>11, <1>12, <1>13, <1>14,
     <1>15, <1>16, <1>17 DEF Next, TickStep, LaunchStep, OperatorStep

LEMMA InitRacesOK == Init => RacesOK
<1> SUFFICES ASSUME Init PROVE RacesOK
  OBVIOUS
<1>1. OpenRuns = {}
  BY DEF Init, OpenRuns, NoRow, Open
<1>2. \A p \in Policies : {r \in OpenRuns : policyOf[r] = p /\ <<r, "policy">> \notin raced} = {}
  BY <1>1
<1>3. \A c \in Clusters : {r \in OpenRuns : clusterOf[r] = c /\ <<r, "cluster">> \notin raced} = {}
  BY <1>1
<1>4. SecondRunOnlyByRace
  <2>1. Cardinality({}) <= 1
    BY FS_EmptySet
  <2>2. QED  BY <1>2, <2>1 DEF SecondRunOnlyByRace
<1>5. OverfullOnlyByRace
  <2>1. \A c \in Clusters : Cardinality({}) <= Capacity[c]
    BY FS_EmptySet, ClusterAssumption
  <2>2. QED  BY <1>3, <2>1 DEF OverfullOnlyByRace
<1>6. \A x \in Processes : Findings(x)
  BY DEF Init, Findings
<1>7. QED  BY <1>4, <1>5, <1>6 DEF RacesOK

LEMMA RacesInvariant == Spec => []RacesOK
<1>1. Init => RacesOK
  BY InitRacesOK
<1>2. IInv /\ RacesOK /\ [Next]_vars => RacesOK'
  BY StepRacesOK DEF IInv
<1>3. QED  BY <1>1, <1>2, InductiveInvariant, PTL DEF Spec

\* However many ticks and operators launch and crash, a policy gets a second open run
\* only from a launch that another overtook between its check and its insert.
THEOREM SingleFlight == Spec => []SecondRunOnlyByRace
<1>1. RacesOK => SecondRunOnlyByRace
  BY DEF RacesOK
<1>2. QED  BY <1>1, RacesInvariant, PTL

\* However many ticks and operators launch, a cluster gets more runs than its capacity
\* only from launches that another overtook between their count and their insert.
THEOREM CapacityKept == Spec => []OverfullOnlyByRace
<1>1. RacesOK => OverfullOnlyByRace
  BY DEF RacesOK
<1>2. QED  BY <1>1, RacesInvariant, PTL
================================================================================
