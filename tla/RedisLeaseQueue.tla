---------------------------- MODULE RedisLeaseQueue ----------------------------
(***************************************************************************)
(* stream/lease.py: RedisLeaseQueue under the same run_worker loops.  No   *)
(* operation here is atomic: enqueue's pipeline, claim, ack and            *)
(* reclaim_expired each issue several Redis commands, and every command is *)
(* a step.                                                                 *)
(*                                                                         *)
(* Worker stages, by the command they are about to send:                   *)
(*   reclaim HGETALL   unlease HDEL     requeue RPUSH    (reclaim_expired)  *)
(*   claim   LPOP      record  HSET                      (claim)           *)
(*   execute --        check   HGET     release HDEL     finish SADD (ack) *)
(* The bounds, tokens and time are those of LeaseQueue.                    *)
(***************************************************************************)
EXTENDS Naturals, Sequences, FiniteSets, Functions

CONSTANTS
  Items, NoItem,
  Plan,         \* the list one launch enqueues
  Workers,
  Mortal,       \* the workers that may die or lose their connection
  IdleStop,     \* the workers called with idle_stop
  MaxRaises, MaxOverruns

ASSUME PlanAssumption == Plan \in Seq(Items) /\ IsInjective(Plan)
ASSUME WorkerAssumption == Mortal \subseteq Workers /\ IdleStop \subseteq Workers
ASSUME BoundAssumption == MaxRaises \in Nat /\ MaxOverruns \in Nat

VARIABLES
  toPush,       \* enqueue: what the pipeline has not pushed yet
  available,    \* the LIST
  lease,        \* the HASH: item -> token and whether until_ms has passed
  done,         \* the SET
  nextToken,
  pc, item, token,
  seen,         \* expired entries of the worker's HGETALL still to handle
  raises, overruns,
  performed,    \* history: items whose execute returned at least once
  credits,      \* history: how often an ack of the item returned True
  dropped       \* history: items in the hands of a worker when it died

redisVars   == <<available, lease, done>>
workerVars  == <<pc, item, token, seen>>
boundVars   == <<raises, overruns>>
historyVars == <<performed, credits, dropped>>
vars == <<toPush, redisVars, nextToken, workerVars, boundVars, historyVars>>

Lease   == [token : Nat, expired : BOOLEAN]
NoLease == [token |-> 0, expired |-> FALSE]
Running == {"reclaim", "unlease", "requeue", "claim", "record",
            "execute", "check", "release", "finish"}
Stages  == Running \cup {"stopped", "crashed"}

Leased    == {i \in Items : lease[i].token # 0}
Expired   == {i \in Leased : lease[i].expired}
Submitted == Range(Plan) \ Range(toPush)

\* The item is in no Redis key but in the variables of a worker between two
\* commands: popped and not recorded, unleased and not requeued or finished.
InHand(w)  == pc[w] \in {"requeue", "record", "finish"}
HandOf(ws) == {item[w] : w \in {v \in ws : InHand(v)}}

Working(w)  == pc[w] \in {"execute", "check", "release"}
Holds(w, i) == Working(w) /\ item[w] = i /\ token[w] = lease[i].token
--------------------------------------------------------------------------------
Init ==
  /\ toPush = Plan
  /\ available = <<>>
  /\ lease = [i \in Items |-> NoLease]
  /\ done = {}
  /\ nextToken = 1
  /\ pc = [w \in Workers |-> "reclaim"]
  /\ item = [w \in Workers |-> NoItem]
  /\ token = [w \in Workers |-> 0]
  /\ seen = [w \in Workers |-> {}]
  /\ raises = 0
  /\ overruns = 0
  /\ performed = {}
  /\ credits = [i \in Items |-> 0]
  /\ dropped = {}

Goto(w, stage) == pc' = [pc EXCEPT ![w] = stage]

\* enqueue: pipeline(transaction=False), so the pushes may be interleaved.
Push ==
  /\ toPush # <<>>
  /\ available' = Append(available, Head(toPush))
  /\ toPush' = Tail(toPush)
  /\ UNCHANGED <<lease, done, nextToken, workerVars, boundVars, historyVars>>

\* reclaim_expired: HGETALL, then HDEL and RPUSH for each expired entry of the
\* answer, whatever has become of the entry in the meantime.
ScanLeases(w) ==
  /\ pc[w] = "reclaim"
  /\ seen' = [seen EXCEPT ![w] = Expired]
  /\ Goto(w, "unlease")
  /\ UNCHANGED <<toPush, redisVars, nextToken, item, token, boundVars, historyVars>>

Unlease(w, i) ==
  /\ pc[w] = "unlease"
  /\ i \in seen[w]
  /\ seen' = [seen EXCEPT ![w] = @ \ {i}]
  /\ lease' = [lease EXCEPT ![i] = NoLease]
  /\ item' = [item EXCEPT ![w] = i]
  /\ Goto(w, "requeue")
  /\ UNCHANGED <<toPush, available, done, nextToken, token, boundVars, historyVars>>

\* Mutant: a reclaimed entry is deleted and its payload forgotten.
RequeueDropped(w) ==
  /\ pc[w] = "requeue"
  /\ Goto(w, "unlease")
  /\ UNCHANGED <<toPush, redisVars, nextToken, item, token, seen, boundVars, historyVars>>

Requeue(w) ==
  /\ pc[w] = "requeue"
  /\ available' = Append(available, item[w])
  /\ Goto(w, "unlease")
  /\ UNCHANGED <<toPush, lease, done, nextToken, item, token, seen, boundVars, historyVars>>

ReclaimEnds(w) ==
  /\ pc[w] = "unlease"
  /\ seen[w] = {}
  /\ Goto(w, "claim")
  /\ UNCHANGED <<toPush, redisVars, nextToken, item, token, seen, boundVars, historyVars>>

\* claim: LPOP, then HSET under a fresh token.
Pop(w) ==
  /\ pc[w] = "claim"
  /\ available # <<>>
  /\ available' = Tail(available)
  /\ item' = [item EXCEPT ![w] = Head(available)]
  /\ Goto(w, "record")
  /\ UNCHANGED <<toPush, lease, done, nextToken, token, seen, boundVars, historyVars>>

PopNone(w) ==
  /\ pc[w] = "claim"
  /\ available = <<>>
  /\ Goto(w, IF w \in IdleStop THEN "stopped" ELSE "reclaim")
  /\ UNCHANGED <<toPush, redisVars, nextToken, item, token, seen, boundVars, historyVars>>

NewEventId == nextToken' = nextToken + 1

RecordLease(w) ==
  /\ pc[w] = "record"
  /\ lease' = [lease EXCEPT ![item[w]] = [token |-> nextToken, expired |-> FALSE]]
  /\ token' = [token EXCEPT ![w] = nextToken]
  /\ NewEventId
  /\ Goto(w, "execute")
  /\ UNCHANGED <<toPush, available, done, item, seen, boundVars, historyVars>>

Execute(w) ==
  /\ pc[w] = "execute"
  /\ performed' = performed \cup {item[w]}
  /\ Goto(w, "check")
  /\ UNCHANGED <<toPush, redisVars, nextToken, item, token, seen, boundVars, credits, dropped>>

\* Mutant: an item whose execution raised is acked like the others.
ExecuteRaisesAcked(w) ==
  /\ pc[w] = "execute"
  /\ raises < MaxRaises
  /\ raises' = raises + 1
  /\ Goto(w, "check")
  /\ UNCHANGED <<toPush, redisVars, nextToken, item, token, seen, overruns, historyVars>>

ExecuteRaises(w) ==
  /\ pc[w] = "execute"
  /\ raises < MaxRaises
  /\ raises' = raises + 1
  /\ Goto(w, "reclaim")
  /\ UNCHANGED <<toPush, redisVars, nextToken, item, token, seen, overruns, historyVars>>

\* ack: HGET and compare, then HDEL, then SADD.
CheckToken(w) ==
  /\ pc[w] = "check"
  /\ Goto(w, IF lease[item[w]].token = token[w] THEN "release" ELSE "reclaim")
  /\ UNCHANGED <<toPush, redisVars, nextToken, item, token, seen, boundVars, historyVars>>

Release(w) ==
  /\ pc[w] = "release"
  /\ lease' = [lease EXCEPT ![item[w]] = NoLease]
  /\ Goto(w, "finish")
  /\ UNCHANGED <<toPush, available, done, nextToken, item, token, seen, boundVars, historyVars>>

Finish(w) ==
  /\ pc[w] = "finish"
  /\ done' = done \cup {item[w]}
  /\ credits' = [credits EXCEPT ![item[w]] = @ + 1]
  /\ Goto(w, "reclaim")
  /\ UNCHANGED <<toPush, available, lease, nextToken, item, token, seen, boundVars, performed, dropped>>

\* A connection error inside ack is caught by run_worker's except clause: the
\* worker lives on, and the item it was acking is nowhere after an HDEL.
AckRaises(w) ==
  /\ w \in Mortal
  /\ pc[w] \in {"check", "release", "finish"}
  /\ raises < MaxRaises
  /\ raises' = raises + 1
  /\ dropped' = dropped \cup HandOf({w})
  /\ Goto(w, "reclaim")
  /\ UNCHANGED <<toPush, redisVars, nextToken, item, token, seen, overruns, performed, credits>>

\* A worker dies, or loses its connection in reclaim_expired or claim, whose
\* exception leaves run_worker.
Crash(w) ==
  /\ w \in Mortal
  /\ pc[w] \in Running
  /\ Goto(w, "crashed")
  /\ dropped' = dropped \cup HandOf({w})
  /\ UNCHANGED <<toPush, redisVars, nextToken, item, token, seen, boundVars, performed, credits>>

LeaseExpires(i) ==
  /\ i \in Leased \ Expired
  /\ \A w \in Workers : ~Holds(w, i)
  /\ lease' = [lease EXCEPT ![i].expired = TRUE]
  /\ UNCHANGED <<toPush, available, done, nextToken, workerVars, boundVars, historyVars>>

LeaseOverrun(i) ==
  /\ i \in Leased \ Expired
  /\ \E w \in Workers : Holds(w, i)
  /\ overruns < MaxOverruns
  /\ overruns' = overruns + 1
  /\ lease' = [lease EXCEPT ![i].expired = TRUE]
  /\ UNCHANGED <<toPush, available, done, nextToken, workerVars, raises, historyVars>>

WorkerStep(w) ==
  \/ ScanLeases(w) \/ (\E i \in Items : Unlease(w, i)) \/ Requeue(w) \/ ReclaimEnds(w)
  \/ Pop(w) \/ PopNone(w) \/ RecordLease(w)
  \/ Execute(w) \/ ExecuteRaises(w)
  \/ CheckToken(w) \/ Release(w) \/ Finish(w)

Next ==
  \/ Push
  \/ \E w \in Workers : WorkerStep(w) \/ AckRaises(w) \/ Crash(w)
  \/ \E i \in Items : LeaseExpires(i) \/ LeaseOverrun(i)

Spec == Init /\ [][Next]_vars

Fairness == /\ WF_vars(Push)
            /\ \A w \in Workers : WF_vars(WorkerStep(w))
            /\ \A i \in Items : WF_vars(LeaseExpires(i))

FairSpec == Spec /\ Fairness
--------------------------------------------------------------------------------
\* Types; a worker with a recorded lease has a token that was issued before.
TypeOK ==
  /\ toPush \in Seq(Items)
  /\ available \in Seq(Items)
  /\ lease \in [Items -> Lease]
  /\ done \in SUBSET Items
  /\ nextToken \in Nat \ {0}
  /\ pc \in [Workers -> Stages]
  /\ item \in [Workers -> Items \cup {NoItem}]
  /\ token \in [Workers -> Nat]
  /\ seen \in [Workers -> SUBSET Items]
  /\ raises \in Nat
  /\ overruns \in Nat
  /\ \A w \in Workers : Working(w) => item[w] \in Items /\ token[w] \in 1 .. nextToken - 1
  /\ performed \in SUBSET Items
  /\ credits \in [Items -> Nat]
  /\ dropped \in SUBSET Items

\* Where an item can still be found.
Reachable == Range(available) \cup Leased \cup done \cup HandOf(Workers)

\* An item can leave Redis only in the hands of a worker, and is gone for good
\* only if that worker fails there: however reclaims, claims and acks overtake
\* each other, no interleaving of live workers loses an item.
LossNeedsFault == Submitted \subseteq Reachable \cup dropped

\* Nothing is recorded done, or credited, that was not performed.
DoneWasPerformed == \A i \in Items : credits[i] > 0 => i \in done /\ i \in performed

\* As long as one worker never dies and never leaves its loop, every planned
\* item is done in the end, unless a worker failed with it in its hands.
EveryItemDone == \A i \in Range(Plan) : <>(i \in done \cup dropped)

\* "A crashed worker's work is redone, never lost" (lease.py, header).
NeverLost == Submitted \subseteq Reachable

\* "a slow worker never double-completes" (tests/test_lease_queue.py): no item
\* has its completion accepted from two workers.
CompletedOnce == \A i \in Items : credits[i] <= 1
================================================================================
