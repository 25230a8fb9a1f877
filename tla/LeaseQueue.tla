------------------------------ MODULE LeaseQueue -------------------------------
(***************************************************************************)
(* stream/lease.py: InMemoryLeaseQueue, whose operations each run under    *)
(* one lock and are therefore one step, and the run_worker loops that      *)
(* drain it.  Every call a loop makes is a step of its own, so two workers *)
(* interleave between reclaim_expired, claim, execute and ack, and a       *)
(* worker may die before any of them.                                      *)
(*                                                                         *)
(* Time is abstracted to the one thing the code compares: whether a        *)
(* lease's until_ms has passed (the field expired).  Tokens, fresh ULIDs   *)
(* in the code, are numbers handed out in increasing order; 0 is no token. *)
(***************************************************************************)
EXTENDS Naturals, Sequences, FiniteSets, Functions

CONSTANTS
  Items,        \* work item ids
  NoItem,       \* what a worker holds before its first claim
  Batches,      \* the lists of items enqueue may be called with
  Workers,      \* the run_worker loops
  Mortal,       \* the workers that may crash (a crashed worker stays dead)
  IdleStop,     \* the workers called with idle_stop, which leave an empty queue
  NoLimit,      \* max_items = None
  MaxItems,     \* worker -> the max_items it was called with, or NoLimit
  MaxRaises,    \* bound: how many execute calls raise
  MaxOverruns   \* bound: how many leases run out under a live holder

ASSUME ItemsAssumption == IsFiniteSet(Items)
ASSUME BatchAssumption ==
  \A b \in Batches : b \in Seq(Items) /\ IsInjective(b)
ASSUME WorkerAssumption ==
  /\ Mortal \subseteq Workers
  /\ IdleStop \subseteq Workers
  /\ MaxItems \in [Workers -> Nat \cup {NoLimit}]
ASSUME BoundAssumption == MaxRaises \in Nat /\ MaxOverruns \in Nat

VARIABLES
  available,    \* _available: the FIFO list
  lease,        \* _leased: item -> token and whether until_ms has passed
  done,         \* _done
  nextToken,    \* source of fresh tokens
  pc,           \* where each loop stands
  item,         \* the item of the worker's current LeasedItem
  token,        \* and its lease_token
  completed,    \* run_worker's counters; its n is their sum
  failed,
  raises, overruns,
  submitted,    \* history: every item enqueued so far
  performed,    \* history: items whose execute returned at least once
  credits       \* history: how often an ack of the item returned True

queueVars   == <<available, lease, done, nextToken>>
workerVars  == <<pc, item, token, completed, failed>>
boundVars   == <<raises, overruns>>
historyVars == <<submitted, performed, credits>>
vars == <<queueVars, workerVars, boundVars, historyVars>>

Lease   == [token : Nat, expired : BOOLEAN]
NoLease == [token |-> 0, expired |-> FALSE]
Stages  == {"reclaim", "claim", "execute", "ack", "stopped", "crashed"}
Running == {"reclaim", "claim", "execute", "ack"}

Leased  == {i \in Items : lease[i].token # 0}
Expired == {i \in Leased : lease[i].expired}

\* w is between its claim and the end of its ack.
Working(w) == pc[w] \in {"execute", "ack"}

\* The lease w was given is still the one on record: its ack would succeed.
Holds(w, i) == Working(w) /\ item[w] = i /\ token[w] = lease[i].token

--------------------------------------------------------------------------------
Init ==
  /\ available = <<>>
  /\ lease = [i \in Items |-> NoLease]
  /\ done = {}
  /\ nextToken = 1
  /\ pc = [w \in Workers |-> "reclaim"]
  /\ item = [w \in Workers |-> NoItem]
  /\ token = [w \in Workers |-> 0]
  /\ completed = [w \in Workers |-> 0]
  /\ failed = [w \in Workers |-> 0]
  /\ raises = 0
  /\ overruns = 0
  /\ submitted = {}
  /\ performed = {}
  /\ credits = [i \in Items |-> 0]

Goto(w, stage) == pc' = [pc EXCEPT ![w] = stage]

\* enqueue.  Item ids are "run:index", so no id is enqueued twice.
Enqueue(b) ==
  /\ Range(b) \cap submitted = {}
  /\ available' = available \o b
  /\ submitted' = submitted \cup Range(b)
  /\ UNCHANGED <<lease, done, nextToken, workerVars, boundVars, performed, credits>>

\* The while condition of run_worker.
MayLoop(w) == MaxItems[w] # NoLimit => completed[w] + failed[w] < MaxItems[w]

\* _leased is a dict: expired leases are met in the order they were claimed.
ClaimOrder(S) ==
  {s \in [1 .. Cardinality(S) -> S] :
     /\ Range(s) = S
     /\ \A j, k \in DOMAIN s : j < k => lease[s[j]].token < lease[s[k]].token}

\* Mutant: the leases are dropped and the items not returned.
BackToPoolDropped == UNCHANGED available

BackToPool == \E s \in ClaimOrder(Expired) : available' = available \o s

ReclaimExpired(w) ==
  /\ pc[w] = "reclaim"
  /\ MayLoop(w)
  /\ BackToPool
  /\ lease' = [i \in Items |-> IF i \in Expired THEN NoLease ELSE lease[i]]
  /\ Goto(w, "claim")
  /\ UNCHANGED <<done, nextToken, item, token, completed, failed, boundVars, historyVars>>

LimitReached(w) ==
  /\ pc[w] = "reclaim"
  /\ ~MayLoop(w)
  /\ Goto(w, "stopped")
  /\ UNCHANGED <<queueVars, item, token, completed, failed, boundVars, historyVars>>

\* Mutant: two claims are given the same token.
NewEventIdReused == UNCHANGED nextToken

NewEventId == nextToken' = nextToken + 1

Claim(w) ==
  /\ pc[w] = "claim"
  /\ available # <<>>
  /\ available' = Tail(available)
  /\ lease' = [lease EXCEPT ![Head(available)] = [token |-> nextToken, expired |-> FALSE]]
  /\ NewEventId
  /\ item' = [item EXCEPT ![w] = Head(available)]
  /\ token' = [token EXCEPT ![w] = nextToken]
  /\ Goto(w, "execute")
  /\ UNCHANGED <<done, completed, failed, boundVars, historyVars>>

\* claim returned None: leave (idle_stop) or sleep and poll again.
ClaimNone(w) ==
  /\ pc[w] = "claim"
  /\ available = <<>>
  /\ Goto(w, IF w \in IdleStop THEN "stopped" ELSE "reclaim")
  /\ UNCHANGED <<queueVars, item, token, completed, failed, boundVars, historyVars>>

Execute(w) ==
  /\ pc[w] = "execute"
  /\ performed' = performed \cup {item[w]}
  /\ Goto(w, "ack")
  /\ UNCHANGED <<queueVars, item, token, completed, failed, boundVars, submitted, credits>>

\* Mutant: an item whose execution raised is acked like the others.
ExecuteRaisesAcked(w) ==
  /\ pc[w] = "execute"
  /\ raises < MaxRaises
  /\ raises' = raises + 1
  /\ Goto(w, "ack")
  /\ UNCHANGED <<queueVars, item, token, completed, failed, overruns, historyVars>>

\* execute raised: the item stays leased and nobody acks it.
ExecuteRaises(w) ==
  /\ pc[w] = "execute"
  /\ raises < MaxRaises
  /\ raises' = raises + 1
  /\ failed' = [failed EXCEPT ![w] = @ + 1]
  /\ Goto(w, "reclaim")
  /\ UNCHANGED <<queueVars, item, token, completed, overruns, historyVars>>

\* Mutants: ack asks for no lease at all, or for any lease of the item.
TokenUnchecked(w)   == TRUE
AnyLeaseAccepted(w) == lease[item[w]].token # 0

\* ack's fencing check.
TokenMatches(w) == lease[item[w]].token = token[w]

Ack(w) ==
  /\ pc[w] = "ack"
  /\ TokenMatches(w)
  /\ lease' = [lease EXCEPT ![item[w]] = NoLease]
  /\ done' = done \cup {item[w]}
  /\ credits' = [credits EXCEPT ![item[w]] = @ + 1]
  /\ completed' = [completed EXCEPT ![w] = @ + 1]
  /\ Goto(w, "reclaim")
  /\ UNCHANGED <<available, nextToken, item, token, failed, boundVars, submitted, performed>>

AckRefused(w) ==
  /\ pc[w] = "ack"
  /\ ~TokenMatches(w)
  /\ failed' = [failed EXCEPT ![w] = @ + 1]
  /\ Goto(w, "reclaim")
  /\ UNCHANGED <<queueVars, item, token, completed, boundVars, historyVars>>

\* The worker's process dies; the queue keeps the lease.
Crash(w) ==
  /\ w \in Mortal
  /\ pc[w] \in Running
  /\ Goto(w, "crashed")
  /\ UNCHANGED <<queueVars, item, token, completed, failed, boundVars, historyVars>>

\* until_ms passes for a lease nobody can ack any more ...
LeaseExpires(i) ==
  /\ i \in Leased \ Expired
  /\ \A w \in Workers : ~Holds(w, i)
  /\ lease' = [lease EXCEPT ![i].expired = TRUE]
  /\ UNCHANGED <<available, done, nextToken, workerVars, boundVars, historyVars>>

\* ... or under a holder that is slow: nothing renews a lease.
LeaseOverrun(i) ==
  /\ i \in Leased \ Expired
  /\ \E w \in Workers : Holds(w, i)
  /\ overruns < MaxOverruns
  /\ overruns' = overruns + 1
  /\ lease' = [lease EXCEPT ![i].expired = TRUE]
  /\ UNCHANGED <<available, done, nextToken, workerVars, raises, historyVars>>

WorkerStep(w) ==
  \/ ReclaimExpired(w) \/ LimitReached(w) \/ Claim(w) \/ ClaimNone(w)
  \/ Execute(w) \/ ExecuteRaises(w) \/ Ack(w) \/ AckRefused(w)

Next ==
  \/ \E b \in Batches : Enqueue(b)
  \/ \E w \in Workers : WorkerStep(w) \/ Crash(w)
  \/ \E i \in Items : LeaseExpires(i) \/ LeaseOverrun(i)

Spec == Init /\ [][Next]_vars

\* A worker that has not died keeps executing its loop, and time passes.
Fairness == /\ \A w \in Workers : WF_vars(WorkerStep(w))
            /\ \A i \in Items : WF_vars(LeaseExpires(i))

FairSpec == Spec /\ Fairness
--------------------------------------------------------------------------------
\* Types; a worker with an item has a token that was issued before.
TypeOK ==
  /\ available \in Seq(Items)
  /\ lease \in [Items -> Lease]
  /\ done \in SUBSET Items
  /\ nextToken \in Nat \ {0}
  /\ pc \in [Workers -> Stages]
  /\ item \in [Workers -> Items \cup {NoItem}]
  /\ token \in [Workers -> Nat]
  /\ completed \in [Workers -> Nat]
  /\ failed \in [Workers -> Nat]
  /\ raises \in Nat
  /\ overruns \in Nat
  /\ \A w \in Workers : Working(w) => item[w] \in Items /\ token[w] \in 1 .. nextToken - 1
  /\ submitted \in SUBSET Items
  /\ performed \in SUBSET Items
  /\ credits \in [Items -> Nat]

\* Whatever workers do and whenever they die, an enqueued item is in exactly
\* one place, once: the list, the lease table or the done set.
Conservation ==
  /\ IsInjective(available)
  /\ Range(available) \cap Leased = {}
  /\ Range(available) \cap done = {}
  /\ Leased \cap done = {}
  /\ submitted = Range(available) \cup Leased \cup done

\* ack's fencing: of all the workers that ever claimed an item, at most one
\* could still complete it, and none could once it is done.
SoleHolder ==
  \A w \in Workers, i \in Items :
    Holds(w, i) => i \notin done /\ \A v \in Workers : Holds(v, i) => w = v

\* An item's completion is reported to exactly one worker (ack returns True
\* once), and only after its work was performed.
CompletedOnce ==
  \A i \in Items : /\ credits[i] = IF i \in done THEN 1 ELSE 0
                   /\ i \in done => i \in performed

\* An item becomes done only by the ack of the worker whose lease is the one
\* on record: a worker whose lease was reclaimed completes nothing.
OnlyHolderCompletes ==
  [][\A i \in Items : i \in done' \ done =>
       \E w \in Workers : pc[w] = "ack" /\ Holds(w, i)]_vars

\* "A crashed worker's work is redone, never lost": every enqueued item is done
\* in the end, as long as one worker never dies and never leaves its loop, and
\* leases outlast executions from some point on.
EveryItemDone == \A i \in Items : i \in submitted ~> i \in done

\* Refinement: with the list and the lease table as the work to do, every step
\* is a step of WorkQueue or leaves it unchanged.
Abstract == INSTANCE WorkQueue WITH
              todo <- Range(available) \cup Leased, performed <- performed,
              done <- done, credits <- credits
AbstractQueue == Abstract!AQSpec
================================================================================
