------------------------------ MODULE LeasingRuns ------------------------------
(***************************************************************************)
(* refresh/reconciler.py, _launch_leasing and the lease branch of          *)
(* reconcile_once, with the queue registry of stream/lease.py: the parent  *)
(* run of a leasing policy is a row all processes share, its items are in  *)
(* _MEMORY_QUEUES, a dict of the process that launched it.                 *)
(*                                                                         *)
(* A host is a process that ticks, triggers or runs workers: the server,   *)
(* or `python -m ...reconciler`, which ends with its tick.  The queue of a *)
(* run is abstracted to two counts (LeaseQueue has the operations); a      *)
(* worker completes an item or lets its lease run out.                     *)
(***************************************************************************)
EXTENDS Naturals, FiniteSets

CONSTANTS
  Hosts,        \* processes
  OneShot,      \* those that end after every tick
  WorkerHosts,  \* those with run_worker threads
  MaxRuns,      \* bound: runs ever launched
  MaxItems,     \* bound: items of a plan
  MaxCrashes    \* bound: processes killed or restarted

ASSUME HostAssumption ==
  IsFiniteSet(Hosts) /\ Hosts # {} /\ OneShot \subseteq Hosts /\ WorkerHosts \subseteq Hosts
ASSUME BoundAssumption ==
  MaxRuns \in Nat /\ MaxItems \in Nat \ {0} /\ MaxCrashes \in Nat

VARIABLES
  status,       \* policy_runs.status
  memory,       \* host -> run -> its queue in _MEMORY_QUEUES
  pc,           \* where each host stands
  run,          \* the run it is launching
  toProbe,      \* open rows its tick loaded
  drained,      \* the rows among them its tick closes
  crashes,
  enqueued,     \* history: items of the run's plan
  executed,     \* history: items of the run completed by a worker
  wiped,        \* history: items gone with the memory of a process
  closers       \* history: the hosts whose tick closed the run

tickVars == <<toProbe, drained>>
vars == <<status, memory, pc, run, tickVars, crashes, enqueued, executed, wiped, closers>>

Runs   == 1 .. MaxRuns
Queue  == [available : Nat, leased : Nat]
Empty  == [available |-> 0, leased |-> 0]
InMemory(h, r) == memory[h][r].available + memory[h][r].leased
Unsent == {r \in Runs : enqueued[r] = 0}

Init ==
  /\ status = [r \in Runs |-> "no row"]
  /\ memory = [h \in Hosts |-> [r \in Runs |-> Empty]]
  /\ pc = [h \in Hosts |-> "idle"]
  /\ run = [h \in Hosts |-> 0]
  /\ toProbe = [h \in Hosts |-> {}]
  /\ drained = [h \in Hosts |-> {}]
  /\ crashes = 0
  /\ enqueued = [r \in Runs |-> 0]
  /\ executed = [r \in Runs |-> 0]
  /\ wiped = [r \in Runs |-> 0]
  /\ closers = [r \in Runs |-> {}]

Goto(h, stage) == pc' = [pc EXCEPT ![h] = stage]

--------------------------------------------------------------------------------
(* The tick: completion probe, close, launch                               *)

StartTick(h) ==
  /\ pc[h] = "idle"
  /\ toProbe' = [toProbe EXCEPT ![h] = {r \in Runs : status[r] = "running"}]
  /\ Goto(h, "probe")
  /\ UNCHANGED <<status, memory, run, drained, crashes, enqueued, executed, wiped, closers>>

\* Mutant: leased items are not counted as in flight.
NothingAvailable(h, r) == memory[h][r].available = 0

\* stats() of lease_queue_for(run.id), which makes an empty queue when this
\* process has none.
NothingInFlight(h, r) == memory[h][r].available = 0 /\ memory[h][r].leased = 0

Probe(h, r) ==
  /\ pc[h] = "probe"
  /\ r \in toProbe[h]
  /\ toProbe' = [toProbe EXCEPT ![h] = @ \ {r}]
  /\ drained' = [drained EXCEPT ![h] = IF NothingInFlight(h, r) THEN @ \cup {r} ELSE @]
  /\ UNCHANGED <<status, memory, pc, run, crashes, enqueued, executed, wiped, closers>>

CloseRuns(h) ==
  /\ pc[h] = "probe"
  /\ toProbe[h] = {}
  /\ status' = [r \in Runs |-> IF r \in drained[h] THEN "closed" ELSE status[r]]
  /\ closers' = [r \in Runs |-> IF r \in drained[h] THEN closers[r] \cup {h} ELSE closers[r]]
  /\ drained' = [drained EXCEPT ![h] = {}]
  /\ Goto(h, "check")
  /\ UNCHANGED <<memory, run, toProbe, crashes, enqueued, executed, wiped>>

\* policy_trigger_now: launch_policy without a tick.
Trigger(h) ==
  /\ pc[h] = "idle"
  /\ h \notin OneShot
  /\ Goto(h, "check")
  /\ UNCHANGED <<status, memory, run, tickVars, crashes, enqueued, executed, wiped, closers>>

NoOpenRun == \A r \in Runs : status[r] # "running"

\* The row is flushed, not committed, and the items of its plan go to the
\* queue of its id.
Enqueue(h) ==
  /\ pc[h] = "check"
  /\ NoOpenRun
  /\ \E r \in Unsent, n \in 1 .. MaxItems :
       /\ \A s \in Unsent : r <= s
       /\ run' = [run EXCEPT ![h] = r]
       /\ memory' = [memory EXCEPT ![h][r].available = n]
       /\ enqueued' = [enqueued EXCEPT ![r] = n]
  /\ Goto(h, "commit")
  /\ UNCHANGED <<status, tickVars, crashes, executed, wiped, closers>>

Commit(h) ==
  /\ pc[h] = "commit"
  /\ status' = [status EXCEPT ![run[h]] = "running"]
  /\ run' = [run EXCEPT ![h] = 0]
  /\ Goto(h, "end")
  /\ UNCHANGED <<memory, tickVars, crashes, enqueued, executed, wiped, closers>>

\* Not due, an open run, or an empty scope.
NoLaunch(h) ==
  /\ pc[h] = "check"
  /\ Goto(h, "end")
  /\ UNCHANGED <<status, memory, run, tickVars, crashes, enqueued, executed, wiped, closers>>

\* The memory of the process is gone.
Wipe(h) ==
  /\ memory' = [memory EXCEPT ![h] = [r \in Runs |-> Empty]]
  /\ wiped' = [r \in Runs |-> wiped[r] + InMemory(h, r)]

End(h) ==
  /\ pc[h] = "end"
  /\ IF h \in OneShot THEN Wipe(h) ELSE UNCHANGED <<memory, wiped>>
  /\ Goto(h, "idle")
  /\ UNCHANGED <<status, run, tickVars, crashes, enqueued, executed, closers>>

\* Killed at any point, or restarted; what was not committed is gone too.
Crash(h) ==
  /\ crashes < MaxCrashes
  /\ crashes' = crashes + 1
  /\ Wipe(h)
  /\ run' = [run EXCEPT ![h] = 0]
  /\ toProbe' = [toProbe EXCEPT ![h] = {}]
  /\ drained' = [drained EXCEPT ![h] = {}]
  /\ Goto(h, "idle")
  /\ UNCHANGED <<status, enqueued, executed, closers>>

--------------------------------------------------------------------------------
(* Workers of the host, over its own queues                                *)

Claimable(h, r) == memory[h][r].available > 0

Claim(h, r) ==
  /\ h \in WorkerHosts
  /\ Claimable(h, r)
  /\ memory' = [memory EXCEPT ![h][r].available = @ - 1, ![h][r].leased = @ + 1]
  /\ UNCHANGED <<status, pc, run, tickVars, crashes, enqueued, executed, wiped, closers>>

Complete(h, r) ==
  /\ memory[h][r].leased > 0
  /\ memory' = [memory EXCEPT ![h][r].leased = @ - 1]
  /\ executed' = [executed EXCEPT ![r] = @ + 1]
  /\ UNCHANGED <<status, pc, run, tickVars, crashes, enqueued, wiped, closers>>

\* Mutant: the reclaimed item is not made available again.
ReturnedDropped(q) == [q EXCEPT !.leased = @ - 1]

Returned(q) == [q EXCEPT !.leased = @ - 1, !.available = @ + 1]

Reclaim(h, r) ==
  /\ memory[h][r].leased > 0
  /\ memory' = [memory EXCEPT ![h][r] = Returned(@)]
  /\ UNCHANGED <<status, pc, run, tickVars, crashes, enqueued, executed, wiped, closers>>

TickStep(h) ==
  \/ StartTick(h) \/ CloseRuns(h) \/ Enqueue(h) \/ Commit(h) \/ NoLaunch(h) \/ End(h)
  \/ \E r \in Runs : Probe(h, r)

WorkerStep(h) == \E r \in Runs : Claim(h, r) \/ Complete(h, r) \/ Reclaim(h, r)

Next == \E h \in Hosts : TickStep(h) \/ Trigger(h) \/ WorkerStep(h) \/ Crash(h)

Spec == Init /\ [][Next]_vars

--------------------------------------------------------------------------------
(* Properties                                                              *)

\* Counts are counts, stages are stages.
TypeOK ==
  /\ status \in [Runs -> {"no row", "running", "closed"}]
  /\ memory \in [Hosts -> [Runs -> Queue]]
  /\ pc \in [Hosts -> {"idle", "probe", "check", "commit", "end"}]
  /\ run \in [Hosts -> Runs \cup {0}]
  /\ toProbe \in [Hosts -> SUBSET Runs]
  /\ drained \in [Hosts -> SUBSET Runs]
  /\ crashes \in Nat
  /\ enqueued \in [Runs -> Nat] /\ executed \in [Runs -> Nat] /\ wiped \in [Runs -> Nat]
  /\ closers \in [Runs -> SUBSET Hosts]

\* Every item of a plan was completed, waits in the memory of one and the same
\* process, or went with it when it ended: nothing else loses an item.
WorkAccounted ==
  \A r \in Runs : \E h \in Hosts :
    /\ \A g \in Hosts \ {h} : memory[g][r] = Empty
    /\ enqueued[r] = executed[r] + InMemory(h, r) + wiped[r]

\* The completion probe is right about the process it runs in: what a closed run
\* still has to do went with a process, or waits in the memory of one that none
\* of the ticks that closed it ran in.  A tick never closes over its own items.
UndoneIsElsewhere ==
  \A r \in Runs : status[r] = "closed" =>
    \/ enqueued[r] = executed[r] + wiped[r]
    \/ \E h \in Hosts \ closers[r] : enqueued[r] = executed[r] + InMemory(h, r) + wiped[r]

\* "The completion probe closes the parent once the queue drains" (the docstring
\* of _launch_leasing): nothing of a closed run is undone.
ClosedMeansDrained == \A r \in Runs : status[r] = "closed" => executed[r] = enqueued[r]
================================================================================
