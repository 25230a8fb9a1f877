---------------------------- MODULE CrawlWorkProofs ----------------------------
(***************************************************************************)
(* What TLC checks of the making of crawl work, proved for any number of   *)
(* processes, runs, policies, concepts and waves.                          *)
(*                                                                         *)
(* LeasingRuns: an item is completed, in the memory of one process, or     *)
(* gone with it, and no tick closes a run over items of its own process.   *)
(* CrawlPlanning: a plan accounts for every concept and path, and   *)
(* its work items partition its entities; no period is left behind a       *)
(* watermark unseen.  Expander: a group has one wave at a time, and a wave *)
(* is verified only when its policies had a run.                           *)
(***************************************************************************)
EXTENDS LeasingRuns, CrawlPlanning, Expander, SequenceTheorems, OrderLemmas

--------------------------------------------------------------------------------
(* Items of leasing runs                                                    *)

\* What is committed, loaded or about to be closed has its items enqueued, once for
\* all: a queue that was found empty stays so.
RowsEnqueued ==
  /\ \A r \in Runs : status[r] # "no row" => enqueued[r] > 0
  /\ \A h \in Hosts : \A r \in toProbe[h] : enqueued[r] > 0
  /\ \A h \in Hosts : \A r \in drained[h] : enqueued[r] > 0 /\ memory[h][r] = Empty
  /\ \A h \in Hosts : pc[h] = "commit" => run[h] \in Runs /\ enqueued[run[h]] > 0

IInv == TypeOK /\ WorkAccounted /\ RowsEnqueued

\* A process that closed a run has, and will have, no item of it.
ClosersEmpty ==
  \A r \in Runs : /\ \A h \in closers[r] : memory[h][r] = Empty
                  /\ closers[r] # {} => enqueued[r] > 0

LEMMA EmptyQueue ==
  /\ Empty \in Queue
  /\ Empty.available = 0 /\ Empty.leased = 0
BY DEF Empty, Queue

\* Runs is a set of positive numbers.
LEMMA RunsAreNumbers == Runs \subseteq Nat /\ 0 \notin Runs
BY BoundAssumption DEF Runs

LEMMA InitInv == Init => IInv
<1> SUFFICES ASSUME Init PROVE IInv
  OBVIOUS
<1>1. TypeOK
  BY EmptyQueue DEF Init, TypeOK
<1>2. WorkAccounted
  <2>1. PICK h \in Hosts : TRUE
    BY HostAssumption
  <2>2. SUFFICES ASSUME NEW r \in Runs
                 PROVE  /\ \A g \in Hosts \ {h} : memory[g][r] = Empty
                        /\ enqueued[r] = executed[r] + InMemory(h, r) + wiped[r]
    BY <2>1 DEF WorkAccounted
  <2>3. memory[h][r] = Empty /\ \A g \in Hosts \ {h} : memory[g][r] = Empty
    BY DEF Init
  <2>4. enqueued[r] = 0 /\ executed[r] = 0 /\ wiped[r] = 0
    BY DEF Init
  <2>5. QED  BY <2>3, <2>4, EmptyQueue DEF InMemory
<1>3. RowsEnqueued
  BY DEF Init, RowsEnqueued
<1>4. QED  BY <1>1, <1>2, <1>3 DEF IInv

\* Nothing enqueued leaves nothing to count.
LEMMA NothingSums ==
  ASSUME NEW e \in Nat, NEW w \in Nat, NEW q \in Queue, 0 = e + (q.available + q.leased) + w
  PROVE  e = 0 /\ w = 0 /\ q = Empty
<1> DEFINE a == q.available
           l == q.leased
<1>1. a \in Nat /\ l \in Nat /\ 0 = e + (a + l) + w
  BY DEF Queue
<1> HIDE DEF a, l
<1>2. e = 0 /\ w = 0 /\ a = 0 /\ l = 0
  BY <1>1
<1>3. QED  BY <1>2 DEF Queue, Empty, a, l

\* A run of which no item is done, held or lost has no item anywhere.
LEMMA UnsentHasNothing ==
  ASSUME TypeOK, WorkAccounted, NEW r \in Runs, enqueued[r] = 0
  PROVE  /\ \A h \in Hosts : memory[h][r] = Empty
         /\ executed[r] = 0 /\ wiped[r] = 0
<1>1. PICK h \in Hosts : /\ \A g \in Hosts \ {h} : memory[g][r] = Empty
                         /\ enqueued[r] = executed[r] + InMemory(h, r) + wiped[r]
  BY DEF WorkAccounted
<1>2. memory[h][r] \in Queue /\ executed[r] \in Nat /\ wiped[r] \in Nat
  BY DEF TypeOK
<1>3. 0 = executed[r] + (memory[h][r].available + memory[h][r].leased) + wiped[r]
  BY <1>1 DEF InMemory
<1>4. executed[r] = 0 /\ wiped[r] = 0 /\ memory[h][r] = Empty
  BY <1>2, <1>3, NothingSums, Zenon
<1>5. QED  BY <1>1, <1>4

--------------------------------------------------------------------------------
(* Types                                                                    *)

\* Wipe leaves an empty queue for every run.
LEMMA WipeTypes ==
  ASSUME TypeOK, NEW h \in Hosts, Wipe(h)
  PROVE  memory' \in [Hosts -> [Runs -> Queue]] /\ wiped' \in [Runs -> Nat]
<1>1. memory' \in [Hosts -> [Runs -> Queue]]
  BY EmptyQueue DEF Wipe, TypeOK
<1>2. ASSUME NEW r \in Runs PROVE InMemory(h, r) \in Nat
  <2>1. memory[h][r] \in Queue
    BY DEF TypeOK
  <2>2. memory[h][r].available \in Nat /\ memory[h][r].leased \in Nat
    BY <2>1 DEF Queue
  <2>3. QED  BY <2>2 DEF InMemory
<1>3. ASSUME NEW r \in Runs PROVE wiped[r] + InMemory(h, r) \in Nat
  <2>1. wiped[r] \in Nat
    BY DEF TypeOK
  <2>2. QED  BY <1>2, <2>1
<1>4. QED  BY <1>1, <1>3 DEF Wipe

\* What a worker does with a queue is a queue, and moves or takes an item.
LEMMA QueueSteps ==
  ASSUME NEW q \in Queue
  PROVE  /\ \A n \in Nat : [q EXCEPT !.available = n] = [available |-> n, leased |-> q.leased]
         /\ q.leased > 0 => /\ [q EXCEPT !.leased = @ - 1] \in Queue
                            /\ [q EXCEPT !.leased = @ - 1].available = q.available
                            /\ [q EXCEPT !.leased = @ - 1].leased = q.leased - 1
         /\ q.leased > 0 => /\ Returned(q) \in Queue
                            /\ Returned(q).available = q.available + 1
                            /\ Returned(q).leased = q.leased - 1
         /\ q.available > 0 =>
              LET c == [q EXCEPT !.available = @ - 1, !.leased = @ + 1]
              IN c \in Queue /\ c.available = q.available - 1 /\ c.leased = q.leased + 1
<1> DEFINE a == q.available
           l == q.leased
<1>1. a \in Nat /\ l \in Nat
  BY DEF Queue
<1>2. \A n \in Nat : [q EXCEPT !.available = n] = [available |-> n, leased |-> q.leased]
  BY DEF Queue
<1>3. ASSUME l > 0 PROVE l - 1 \in Nat
  BY <1>1, <1>3
<1>4. ASSUME a > 0 PROVE a - 1 \in Nat
  BY <1>1, <1>4
<1>5. ASSUME NEW x \in Nat, NEW y \in Nat
      PROVE  LET c == [q EXCEPT !.available = x, !.leased = y]
             IN c \in Queue /\ c.available = x /\ c.leased = y
  BY DEF Queue
<1>6. ASSUME NEW y \in Nat
      PROVE  LET c == [q EXCEPT !.leased = y]
             IN c \in Queue /\ c.available = q.available /\ c.leased = y
  BY DEF Queue
<1>7. ASSUME l > 0
      PROVE  LET c == [q EXCEPT !.leased = l - 1]
             IN c \in Queue /\ c.available = q.available /\ c.leased = l - 1
  BY <1>3, <1>6, <1>7
<1>8. ASSUME l > 0
      PROVE  /\ Returned(q) \in Queue
             /\ Returned(q).available = a + 1 /\ Returned(q).leased = l - 1
  <2>1. Returned(q) = [q EXCEPT !.leased = l - 1, !.available = a + 1]
    BY DEF Returned
  <2>2. a + 1 \in Nat /\ l - 1 \in Nat
    BY <1>1, <1>3, <1>8
  <2> DEFINE x == a + 1
             y == l - 1
  <2>3. x \in Nat /\ y \in Nat /\ Returned(q) = [q EXCEPT !.leased = y, !.available = x]
    BY <2>1, <2>2
  <2> HIDE DEF x, y
  <2>4. Returned(q) \in Queue /\ Returned(q).available = x /\ Returned(q).leased = y
    BY <2>3 DEF Queue
  <2>5. QED  BY <2>4 DEF x, y
<1>9. ASSUME a > 0
      PROVE  LET c == [q EXCEPT !.available = a - 1, !.leased = l + 1]
             IN c \in Queue /\ c.available = a - 1 /\ c.leased = l + 1
  <2>1. a - 1 \in Nat /\ l + 1 \in Nat
    BY <1>1, <1>4, <1>9
  <2>2. QED  BY <1>5, <2>1
<1>10. QED  BY <1>2, <1>7, <1>8, <1>9

LEMMA StepTypes == TypeOK /\ [Next]_vars => TypeOK'
<1> SUFFICES ASSUME TypeOK, [Next]_vars PROVE TypeOK'
  OBVIOUS
<1> USE DEF tickVars, Goto
<1>1. ASSUME NEW h \in Hosts, StartTick(h) PROVE TypeOK'
  BY <1>1 DEF StartTick, TypeOK
<1>2. ASSUME NEW h \in Hosts, NEW r \in Runs, Probe(h, r) PROVE TypeOK'
  <2>1. toProbe' \in [Hosts -> SUBSET Runs] /\ drained' \in [Hosts -> SUBSET Runs]
    BY <1>2 DEF Probe, TypeOK
  <2>2. QED  BY <1>2, <2>1 DEF Probe, TypeOK
<1>3. ASSUME NEW h \in Hosts, CloseRuns(h) PROVE TypeOK'
  BY <1>3 DEF CloseRuns, TypeOK
<1>4. ASSUME NEW h \in Hosts, Trigger(h) \/ NoLaunch(h) PROVE TypeOK'
  BY <1>4 DEF Trigger, NoLaunch, TypeOK
<1>5. ASSUME NEW h \in Hosts, Enqueue(h) PROVE TypeOK'
  <2>1. PICK r \in Unsent, n \in 1 .. MaxItems :
          /\ run' = [run EXCEPT ![h] = r]
          /\ memory' = [memory EXCEPT ![h][r].available = n]
          /\ enqueued' = [enqueued EXCEPT ![r] = n]
    BY <1>5 DEF Enqueue
  <2>2. r \in Runs /\ n \in Nat
    BY <2>1, BoundAssumption DEF Unsent
  <2>3. memory[h][r] \in Queue
    BY <2>2 DEF TypeOK
  <2>4. [memory[h][r] EXCEPT !.available = n] \in Queue
    BY <2>2, <2>3, QueueSteps DEF Queue
  <2>5. memory' = [memory EXCEPT ![h] = [@ EXCEPT ![r] = [memory[h][r] EXCEPT !.available = n]]]
    BY <2>1
  <2>6. memory' \in [Hosts -> [Runs -> Queue]]
    BY <2>2, <2>4, <2>5 DEF TypeOK
  <2>7. QED  BY <1>5, <2>1, <2>2, <2>6 DEF Enqueue, TypeOK
<1>6. ASSUME NEW h \in Hosts, Commit(h) PROVE TypeOK'
  BY <1>6 DEF Commit, TypeOK
<1>7. ASSUME NEW h \in Hosts, End(h) PROVE TypeOK'
  <2>1. memory' \in [Hosts -> [Runs -> Queue]] /\ wiped' \in [Runs -> Nat]
    BY <1>7, WipeTypes DEF End, TypeOK
  <2>2. QED  BY <1>7, <2>1 DEF End, TypeOK
<1>8. ASSUME NEW h \in Hosts, Crash(h) PROVE TypeOK'
  <2>1. memory' \in [Hosts -> [Runs -> Queue]] /\ wiped' \in [Runs -> Nat]
    BY <1>8, WipeTypes DEF Crash
  <2>2. crashes' \in Nat
    <3>1. crashes \in Nat /\ crashes' = crashes + 1
      BY <1>8 DEF Crash, TypeOK
    <3>2. QED  BY <3>1
  <2>3. QED  BY <1>8, <2>1, <2>2 DEF Crash, TypeOK
<1>9. ASSUME NEW h \in Hosts, NEW r \in Runs, Claim(h, r) PROVE TypeOK'
  <2>1. memory[h][r] \in Queue /\ memory[h][r].available > 0
    BY <1>9 DEF Claim, Claimable, TypeOK
  <2>2. [memory[h][r] EXCEPT !.available = @ - 1, !.leased = @ + 1] \in Queue
    BY <2>1, QueueSteps
  <2>3. memory' = [memory EXCEPT ![h] = [@ EXCEPT ![r] =
                     [memory[h][r] EXCEPT !.available = @ - 1, !.leased = @ + 1]]]
    BY <1>9 DEF Claim, TypeOK
  <2>4. memory' \in [Hosts -> [Runs -> Queue]]
    BY <2>2, <2>3 DEF TypeOK
  <2>5. QED  BY <1>9, <2>4 DEF Claim, TypeOK
<1>10. ASSUME NEW h \in Hosts, NEW r \in Runs, Complete(h, r) PROVE TypeOK'
  <2>1. memory[h][r] \in Queue /\ memory[h][r].leased > 0
    BY <1>10 DEF Complete, TypeOK
  <2>2. [memory[h][r] EXCEPT !.leased = @ - 1] \in Queue
    BY <2>1, QueueSteps
  <2>3. memory' = [memory EXCEPT ![h] = [@ EXCEPT ![r] = [memory[h][r] EXCEPT !.leased = @ - 1]]]
    BY <1>10 DEF Complete
  <2>4. memory' \in [Hosts -> [Runs -> Queue]]
    BY <2>2, <2>3 DEF TypeOK
  <2>5. executed' \in [Runs -> Nat]
    <3>1. executed \in [Runs -> Nat] /\ executed' = [executed EXCEPT ![r] = @ + 1]
      BY <1>10 DEF Complete, TypeOK
    <3>2. executed[r] + 1 \in Nat
      BY <3>1
    <3>3. QED  BY <3>1, <3>2
  <2>6. QED  BY <1>10, <2>4, <2>5 DEF Complete, TypeOK
<1>11. ASSUME NEW h \in Hosts, NEW r \in Runs, Reclaim(h, r) PROVE TypeOK'
  <2>1. memory[h][r] \in Queue /\ memory[h][r].leased > 0
    BY <1>11 DEF Reclaim, TypeOK
  <2>2. Returned(memory[h][r]) \in Queue
    BY <2>1, QueueSteps
  <2>3. memory' = [memory EXCEPT ![h] = [@ EXCEPT ![r] = Returned(memory[h][r])]]
    BY <1>11 DEF Reclaim
  <2>4. memory' \in [Hosts -> [Runs -> Queue]]
    BY <2>2, <2>3 DEF TypeOK
  <2>5. QED  BY <1>11, <2>4 DEF Reclaim, TypeOK
<1>12. ASSUME UNCHANGED vars PROVE TypeOK'
  BY <1>12 DEF vars, TypeOK
<1>13. QED
  BY <1>1, <1>2, <1>3, <1>4, <1>5, <1>6, <1>7, <1>8, <1>9, <1>10, <1>11, <1>12
     DEF Next, TickStep, WorkerStep

--------------------------------------------------------------------------------
(* Every item is accounted for                                              *)

\* The items of r are in the memory of h, if they are in any.
Accounted(h, r) ==
  /\ \A g \in Hosts \ {h} : memory[g][r] = Empty
  /\ enqueued[r] = executed[r] + InMemory(h, r) + wiped[r]

LEMMA AccountedIs == WorkAccounted <=> \A r \in Runs : \E h \in Hosts : Accounted(h, r)
BY DEF WorkAccounted, Accounted

\* What a step does to the queue of one run it does to the host that holds it.
LEMMA HolderIs ==
  ASSUME WorkAccounted, NEW h \in Hosts, NEW r \in Runs, memory[h][r] # Empty
  PROVE  Accounted(h, r)
<1>1. PICK g \in Hosts : Accounted(g, r)
  BY AccountedIs
<1>2. g = h
  BY <1>1 DEF Accounted
<1>3. QED  BY <1>1, <1>2

\* Moving an item between the two counts of a queue, and taking one out.
LEMMA MoveItem ==
  ASSUME NEW a \in Nat, NEW l \in Nat
  PROVE  (a - 1) + (l + 1) = a + l /\ (a + 1) + (l - 1) = a + l
OBVIOUS

LEMMA TakeItem ==
  ASSUME NEW e \in Nat, NEW a \in Nat, NEW l \in Nat
  PROVE  e + 1 + (a + (l - 1)) = e + (a + l)
OBVIOUS

\* A step that touches the queue of r in the memory of h alone.
LEMMA OneQueueStep ==
  ASSUME TypeOK, WorkAccounted, NEW h \in Hosts, NEW r \in Runs, NEW q, NEW e, NEW x,
         memory' = [memory EXCEPT ![h] = [@ EXCEPT ![r] = q]],
         enqueued' = [enqueued EXCEPT ![r] = e],
         executed' = [executed EXCEPT ![r] = x],
         UNCHANGED wiped,
         \A g \in Hosts \ {h} : memory[g][r] = Empty,
         e = x + (q.available + q.leased) + wiped[r]
  PROVE  WorkAccounted'
<1>1. memory \in [Hosts -> [Runs -> Queue]] /\ enqueued \in [Runs -> Nat]
      /\ executed \in [Runs -> Nat] /\ wiped \in [Runs -> Nat]
  BY DEF TypeOK
<1>2. memory'[h][r] = q /\ \A g \in Hosts \ {h} : memory'[g][r] = memory[g][r]
  BY <1>1
<1>3. enqueued'[r] = e /\ executed'[r] = x /\ wiped' = wiped
  BY <1>1
<1>4. Accounted(h, r)'
  BY <1>2, <1>3 DEF Accounted, InMemory
<1>5. ASSUME NEW s \in Runs, s # r, NEW g \in Hosts, Accounted(g, s) PROVE Accounted(g, s)'
  <2>1. \A k \in Hosts : memory'[k][s] = memory[k][s]
    BY <1>1, <1>5
  <2>2. enqueued'[s] = enqueued[s] /\ executed'[s] = executed[s] /\ wiped'[s] = wiped[s]
    BY <1>1, <1>3, <1>5
  <2>3. QED  BY <1>5, <2>1, <2>2 DEF Accounted, InMemory
<1>6. \A s \in Runs : \E g \in Hosts : Accounted(g, s)'
  <2>1. SUFFICES ASSUME NEW s \in Runs PROVE \E g \in Hosts : Accounted(g, s)'
    OBVIOUS
  <2>2. PICK g \in Hosts : Accounted(g, s)
    BY AccountedIs
  <2>3. CASE s = r
    BY <1>4, <2>3
  <2>4. CASE s # r
    BY <1>5, <2>2, <2>4
  <2>5. QED  BY <2>3, <2>4
<1>7. QED  BY <1>6 DEF WorkAccounted, Accounted

\* The memory of a process that ends goes to wiped.
LEMMA WipeAccounts ==
  ASSUME TypeOK, WorkAccounted, NEW h \in Hosts, Wipe(h), UNCHANGED <<enqueued, executed>>
  PROVE  WorkAccounted'
<1>1. memory \in [Hosts -> [Runs -> Queue]] /\ wiped \in [Runs -> Nat]
      /\ executed \in [Runs -> Nat]
  BY DEF TypeOK
<1>2. SUFFICES ASSUME NEW r \in Runs PROVE \E g \in Hosts : Accounted(g, r)'
  BY DEF WorkAccounted, Accounted
<1>3. /\ memory'[h][r] = Empty
      /\ \A g \in Hosts \ {h} : memory'[g][r] = memory[g][r]
      /\ wiped'[r] = wiped[r] + InMemory(h, r)
      /\ enqueued'[r] = enqueued[r] /\ executed'[r] = executed[r]
  BY <1>1 DEF Wipe
<1>4. InMemory(h, r) \in Nat
  <2>1. memory[h][r] \in Queue
    BY <1>1
  <2>2. memory[h][r].available \in Nat /\ memory[h][r].leased \in Nat
    BY <2>1 DEF Queue
  <2>3. QED  BY <2>2 DEF InMemory
<1>5. Empty.available + Empty.leased = 0
  BY EmptyQueue
<1>6. PICK g \in Hosts : Accounted(g, r)
  BY AccountedIs
<1>7. CASE g = h
  <2>1. \A k \in Hosts : memory'[k][r] = Empty
    BY <1>3, <1>6, <1>7 DEF Accounted
  <2>2. enqueued[r] = executed[r] + InMemory(h, r) + wiped[r]
    BY <1>6, <1>7 DEF Accounted
  <2>3. enqueued[r] = executed[r] + 0 + (wiped[r] + InMemory(h, r))
    <3>1. executed[r] \in Nat /\ wiped[r] \in Nat
      BY <1>1
    <3>2. QED  BY <1>4, <2>2, <3>1
  <2>4. Accounted(h, r)'
    <3>1. InMemory(h, r)' = 0
      BY <1>3, <1>5 DEF InMemory
    <3>2. QED  BY <1>3, <2>1, <2>3, <3>1 DEF Accounted
  <2>5. QED  BY <2>4
<1>8. CASE g # h
  <2>1. memory[h][r] = Empty
    BY <1>6, <1>8 DEF Accounted
  <2>2. InMemory(h, r) = 0
    BY <1>5, <2>1 DEF InMemory
  <2>3. wiped'[r] = wiped[r]
    BY <1>1, <1>3, <2>2
  <2>4. \A k \in Hosts : memory'[k][r] = memory[k][r]
    BY <1>3, <2>1
  <2>5. Accounted(g, r)'
    BY <1>3, <1>6, <2>3, <2>4 DEF Accounted, InMemory
  <2>6. QED  BY <2>5
<1>9. QED  BY <1>7, <1>8

LEMMA StepAccounts == TypeOK /\ WorkAccounted /\ [Next]_vars => WorkAccounted'
<1> SUFFICES ASSUME TypeOK, WorkAccounted, [Next]_vars PROVE WorkAccounted'
  OBVIOUS
<1>1. memory \in [Hosts -> [Runs -> Queue]] /\ enqueued \in [Runs -> Nat]
      /\ executed \in [Runs -> Nat] /\ wiped \in [Runs -> Nat]
  BY DEF TypeOK
<1>2. ASSUME UNCHANGED <<memory, enqueued, executed, wiped>> PROVE WorkAccounted'
  BY <1>2 DEF WorkAccounted, InMemory
<1>3. ASSUME NEW h \in Hosts,
             \/ StartTick(h) \/ CloseRuns(h) \/ Trigger(h) \/ Commit(h) \/ NoLaunch(h)
             \/ \E r \in Runs : Probe(h, r)
      PROVE  WorkAccounted'
  BY <1>2, <1>3 DEF StartTick, CloseRuns, Trigger, Commit, NoLaunch, Probe
<1>4. ASSUME NEW h \in Hosts, Enqueue(h) PROVE WorkAccounted'
  <2>1. PICK r \in Unsent, n \in 1 .. MaxItems :
          /\ memory' = [memory EXCEPT ![h][r].available = n]
          /\ enqueued' = [enqueued EXCEPT ![r] = n]
    BY <1>4 DEF Enqueue
  <2>2. r \in Runs /\ enqueued[r] = 0 /\ n \in Nat
    BY <2>1, BoundAssumption DEF Unsent
  <2>3. /\ \A g \in Hosts : memory[g][r] = Empty
        /\ executed[r] = 0 /\ wiped[r] = 0
    BY <2>2, UnsentHasNothing
  <2> DEFINE q == [available |-> n, leased |-> 0]
  <2>4. [memory[h][r] EXCEPT !.available = n] = q
    BY <2>3 DEF Empty
  <2>5. memory' = [memory EXCEPT ![h] = [@ EXCEPT ![r] = q]]
    BY <2>1, <2>4
  <2>6. executed' = [executed EXCEPT ![r] = executed[r]] /\ wiped' = wiped
    BY <1>1, <1>4 DEF Enqueue
  <2>7. n = executed[r] + (q.available + q.leased) + wiped[r]
    BY <2>2, <2>3
  <2>8. \A g \in Hosts \ {h} : memory[g][r] = Empty
    BY <2>3
  <2> HIDE DEF q
  <2>9. QED  BY <2>1, <2>2, <2>5, <2>6, <2>7, <2>8, OneQueueStep, Zenon
<1>5. ASSUME NEW h \in Hosts, End(h) PROVE WorkAccounted'
  <2>1. CASE h \in OneShot
    BY <1>5, <2>1, WipeAccounts DEF End
  <2>2. CASE h \notin OneShot
    BY <1>2, <1>5, <2>2 DEF End
  <2>3. QED  BY <2>1, <2>2
<1>6. ASSUME NEW h \in Hosts, Crash(h) PROVE WorkAccounted'
  BY <1>6, WipeAccounts DEF Crash
<1>7. ASSUME NEW h \in Hosts, NEW r \in Runs, NEW q, NEW x \in Nat,
             memory[h][r] # Empty,
             memory' = [memory EXCEPT ![h] = [@ EXCEPT ![r] = q]],
             executed' = [executed EXCEPT ![r] = x],
             UNCHANGED <<enqueued, wiped>>,
             x + (q.available + q.leased)
               = executed[r] + (memory[h][r].available + memory[h][r].leased)
      PROVE  WorkAccounted'
  <2>1. Accounted(h, r)
    BY <1>7, HolderIs
  <2>2. enqueued' = [enqueued EXCEPT ![r] = enqueued[r]]
    BY <1>1, <1>7
  <2>3. enqueued[r] = x + (q.available + q.leased) + wiped[r]
    BY <1>7, <2>1 DEF Accounted, InMemory
  <2>4. \A g \in Hosts \ {h} : memory[g][r] = Empty
    BY <2>1 DEF Accounted
  <2>5. QED  BY <1>7, <2>2, <2>3, <2>4, OneQueueStep
<1>8. ASSUME NEW h \in Hosts, NEW r \in Runs, Claim(h, r) PROVE WorkAccounted'
  <2> DEFINE m == memory[h][r]
             q == [m EXCEPT !.available = @ - 1, !.leased = @ + 1]
  <2>1. m \in Queue /\ m.available > 0
    BY <1>1, <1>8 DEF Claim, Claimable
  <2>2. q.available = m.available - 1 /\ q.leased = m.leased + 1
    BY <2>1, QueueSteps
  <2>3. memory' = [memory EXCEPT ![h] = [@ EXCEPT ![r] = q]]
    BY <1>8 DEF Claim
  <2>4. /\ executed' = [executed EXCEPT ![r] = executed[r]] /\ executed[r] \in Nat
        /\ UNCHANGED <<enqueued, wiped>>
    BY <1>1, <1>8 DEF Claim
  <2>5. memory[h][r] # Empty
    BY <2>1, EmptyQueue
  <2>6. m.available \in Nat /\ m.leased \in Nat
    BY <2>1 DEF Queue
  <2>7. executed[r] + (q.available + q.leased) = executed[r] + (m.available + m.leased)
    <3> HIDE DEF m, q
    <3>1. q.available + q.leased = m.available + m.leased
      BY <2>2, <2>6, MoveItem
    <3>2. QED  BY <3>1
  <2> HIDE DEF q
  <2>8. QED  BY <1>7, <2>3, <2>4, <2>5, <2>7
<1>9. ASSUME NEW h \in Hosts, NEW r \in Runs, Complete(h, r) PROVE WorkAccounted'
  <2> DEFINE m == memory[h][r]
             q == [m EXCEPT !.leased = @ - 1]
  <2>1. m \in Queue /\ m.leased > 0
    BY <1>1, <1>9 DEF Complete
  <2>2. q.available = m.available /\ q.leased = m.leased - 1
    BY <2>1, QueueSteps
  <2>3. memory' = [memory EXCEPT ![h] = [@ EXCEPT ![r] = q]]
    BY <1>9 DEF Complete
  <2>4. /\ executed' = [executed EXCEPT ![r] = executed[r] + 1] /\ executed[r] \in Nat
        /\ UNCHANGED <<enqueued, wiped>>
    BY <1>1, <1>9 DEF Complete
  <2>5. memory[h][r] # Empty
    BY <2>1, EmptyQueue
  <2>6. m.available \in Nat /\ m.leased \in Nat
    BY <2>1 DEF Queue
  <2>7. executed[r] + 1 + (q.available + q.leased) = executed[r] + (m.available + m.leased)
    <3> HIDE DEF m, q
    <3>1. q.available + q.leased = m.available + (m.leased - 1)
      BY <2>2
    <3>2. QED  BY <2>4, <2>6, <3>1, TakeItem
  <2>8. executed[r] + 1 \in Nat
    BY <2>4
  <2> HIDE DEF q
  <2>9. QED  BY <1>7, <2>3, <2>4, <2>5, <2>7, <2>8
<1>10. ASSUME NEW h \in Hosts, NEW r \in Runs, Reclaim(h, r) PROVE WorkAccounted'
  <2> DEFINE m == memory[h][r]
             q == Returned(m)
  <2>1. m \in Queue /\ m.leased > 0
    BY <1>1, <1>10 DEF Reclaim
  <2>2. q.leased = m.leased - 1 /\ q.available = m.available + 1
    BY <2>1, QueueSteps
  <2>3. memory' = [memory EXCEPT ![h] = [@ EXCEPT ![r] = q]]
    BY <1>10 DEF Reclaim
  <2>4. /\ executed' = [executed EXCEPT ![r] = executed[r]] /\ executed[r] \in Nat
        /\ UNCHANGED <<enqueued, wiped>>
    BY <1>1, <1>10 DEF Reclaim
  <2>5. memory[h][r] # Empty
    BY <2>1, EmptyQueue
  <2>6. m.available \in Nat /\ m.leased \in Nat
    BY <2>1 DEF Queue
  <2>7. executed[r] + (q.available + q.leased) = executed[r] + (m.available + m.leased)
    <3> HIDE DEF m, q
    <3>1. q.available + q.leased = m.available + m.leased
      BY <2>2, <2>6, MoveItem
    <3>2. QED  BY <3>1
  <2> HIDE DEF q
  <2>8. QED  BY <1>7, <2>3, <2>4, <2>5, <2>7
<1>11. ASSUME UNCHANGED vars PROVE WorkAccounted'
  BY <1>2, <1>11 DEF vars
<1>12. QED
  BY <1>3, <1>4, <1>5, <1>6, <1>8, <1>9, <1>10, <1>11 DEF Next, TickStep, WorkerStep

--------------------------------------------------------------------------------
(* Closed runs                                                              *)

\* An empty queue is filled by the launch of its run alone.
LEMMA EmptyStays ==
  ASSUME TypeOK, [Next]_vars, NEW g \in Hosts, NEW s \in Runs,
         memory[g][s] = Empty, enqueued[s] > 0
  PROVE  memory'[g][s] = Empty /\ enqueued'[s] = enqueued[s]
<1>1. memory \in [Hosts -> [Runs -> Queue]] /\ enqueued \in [Runs -> Nat]
  BY DEF TypeOK
<1>2. ASSUME NEW h \in Hosts,
             \/ StartTick(h) \/ CloseRuns(h) \/ Trigger(h) \/ Commit(h) \/ NoLaunch(h)
             \/ \E r \in Runs : Probe(h, r)
      PROVE  UNCHANGED <<memory, enqueued>>
  BY <1>2 DEF StartTick, CloseRuns, Trigger, Commit, NoLaunch, Probe
<1>3. ASSUME NEW h \in Hosts, Enqueue(h) PROVE memory'[g][s] = Empty /\ enqueued'[s] = enqueued[s]
  <2>1. PICK r \in Unsent, n \in 1 .. MaxItems :
          /\ memory' = [memory EXCEPT ![h][r].available = n]
          /\ enqueued' = [enqueued EXCEPT ![r] = n]
    BY <1>3 DEF Enqueue
  <2>2. r \in Runs /\ enqueued[r] = 0
    BY <2>1 DEF Unsent
  <2>3. r # s
    BY <2>2
  <2>4. memory' = [memory EXCEPT ![h] = [@ EXCEPT ![r] = [memory[h][r] EXCEPT !.available = n]]]
    BY <2>1
  <2>5. memory'[g][s] = memory[g][s]
    BY <1>1, <2>3, <2>4
  <2>6. QED  BY <1>1, <2>1, <2>3, <2>5
<1>4. ASSUME NEW h \in Hosts, End(h) \/ Crash(h)
      PROVE  memory'[g][s] = Empty /\ enqueued'[s] = enqueued[s]
  BY <1>1, <1>4 DEF End, Crash, Wipe
<1>5. ASSUME NEW h \in Hosts, NEW r \in Runs, NEW q, memory[h][r] # Empty,
             memory' = [memory EXCEPT ![h] = [@ EXCEPT ![r] = q]]
      PROVE  memory'[g][s] = Empty
  BY <1>1, <1>5
<1>6. ASSUME NEW h \in Hosts, NEW r \in Runs, Claim(h, r) \/ Complete(h, r) \/ Reclaim(h, r)
      PROVE  memory'[g][s] = Empty /\ enqueued'[s] = enqueued[s]
  <2>1. memory[h][r] # Empty /\ UNCHANGED enqueued
    BY <1>6, EmptyQueue DEF Claim, Claimable, Complete, Reclaim
  <2>2. \E q : memory' = [memory EXCEPT ![h] = [@ EXCEPT ![r] = q]]
    BY <1>6 DEF Claim, Complete, Reclaim
  <2>3. QED  BY <1>5, <2>1, <2>2
<1>7. ASSUME UNCHANGED vars PROVE UNCHANGED <<memory, enqueued>>
  BY <1>7 DEF vars
<1>8. QED
  BY <1>2, <1>3, <1>4, <1>6, <1>7 DEF Next, TickStep, WorkerStep

\* Items once enqueued stay on record.
LEMMA EnqueuedStays ==
  ASSUME TypeOK, [Next]_vars, NEW s \in Runs, enqueued[s] > 0
  PROVE  enqueued'[s] > 0
<1>1. ASSUME NEW h \in Hosts, Enqueue(h) PROVE enqueued'[s] = enqueued[s]
  <2>1. PICK r \in Unsent, n \in 1 .. MaxItems : enqueued' = [enqueued EXCEPT ![r] = n]
    BY <1>1 DEF Enqueue
  <2>2. r # s
    BY <2>1 DEF Unsent
  <2>3. QED  BY <2>1, <2>2 DEF TypeOK
<1>2. CASE UNCHANGED enqueued
  BY <1>2
<1>3. QED
  BY <1>1, <1>2 DEF Next, TickStep, WorkerStep, StartTick, CloseRuns, Trigger, Commit, NoLaunch,
     Probe, End, Crash, Claim, Complete, Reclaim, vars

LEMMA StepRows == TypeOK /\ RowsEnqueued /\ [Next]_vars => RowsEnqueued'
<1> SUFFICES ASSUME TypeOK, RowsEnqueued, [Next]_vars PROVE RowsEnqueued'
  OBVIOUS
<1> USE DEF tickVars, Goto
<1>1. /\ status \in [Runs -> {"no row", "running", "closed"}]
      /\ pc \in [Hosts -> {"idle", "probe", "check", "commit", "end"}]
      /\ toProbe \in [Hosts -> SUBSET Runs] /\ drained \in [Hosts -> SUBSET Runs]
      /\ run \in [Hosts -> Runs \cup {0}] /\ enqueued \in [Runs -> Nat]
      /\ memory \in [Hosts -> [Runs -> Queue]]
  BY DEF TypeOK
<1>2. \A s \in Runs : enqueued[s] > 0 => enqueued'[s] > 0
  BY EnqueuedStays
<1>3. \A g \in Hosts, s \in Runs :
        enqueued[s] > 0 /\ memory[g][s] = Empty => memory'[g][s] = Empty
  BY EmptyStays
<1>4. ASSUME UNCHANGED <<status, toProbe, drained, pc, run>> PROVE RowsEnqueued'
  BY <1>1, <1>2, <1>3, <1>4 DEF RowsEnqueued
<1>5. ASSUME NEW h \in Hosts, StartTick(h) PROVE RowsEnqueued'
  BY <1>1, <1>2, <1>3, <1>5 DEF StartTick, RowsEnqueued
<1>6. ASSUME NEW h \in Hosts, NEW r \in Runs, Probe(h, r) PROVE RowsEnqueued'
  <2>1. NothingInFlight(h, r) => memory[h][r] = Empty
    <3>1. memory[h][r] \in Queue
      BY <1>1
    <3>2. QED  BY <3>1 DEF NothingInFlight, Queue, Empty
  <2>2. \A s \in drained'[h] : s \in drained[h] \/ (s = r /\ NothingInFlight(h, r))
    BY <1>1, <1>6 DEF Probe
  <2>3. \A g \in Hosts : g # h => drained'[g] = drained[g]
    BY <1>1, <1>6 DEF Probe
  <2>4. \A g \in Hosts : toProbe'[g] \subseteq toProbe[g]
    BY <1>1, <1>6 DEF Probe
  <2>5. UNCHANGED <<status, pc, run, memory, enqueued>> /\ r \in toProbe[h]
    BY <1>6 DEF Probe
  <2>6. \A g \in Hosts : \A s \in drained'[g] : enqueued[s] > 0 /\ memory[g][s] = Empty
    <3>1. SUFFICES ASSUME NEW g \in Hosts, NEW s \in drained'[g]
                   PROVE  enqueued[s] > 0 /\ memory[g][s] = Empty
      OBVIOUS
    <3>2. CASE g = h
      BY <2>1, <2>2, <2>5, <3>1, <3>2 DEF RowsEnqueued
    <3>3. CASE g # h
      BY <2>3, <3>1, <3>3 DEF RowsEnqueued
    <3>4. QED  BY <3>2, <3>3
  <2>7. QED  BY <2>4, <2>5, <2>6 DEF RowsEnqueued
<1>7. ASSUME NEW h \in Hosts, CloseRuns(h) PROVE RowsEnqueued'
  BY <1>1, <1>2, <1>3, <1>7 DEF CloseRuns, RowsEnqueued
<1>8. ASSUME NEW h \in Hosts, Trigger(h) \/ NoLaunch(h) PROVE RowsEnqueued'
  BY <1>1, <1>2, <1>3, <1>8 DEF Trigger, NoLaunch, RowsEnqueued
<1>9. ASSUME NEW h \in Hosts, Enqueue(h) PROVE RowsEnqueued'
  <2>1. PICK r \in Unsent, n \in 1 .. MaxItems :
          run' = [run EXCEPT ![h] = r] /\ enqueued' = [enqueued EXCEPT ![r] = n]
    BY <1>9 DEF Enqueue
  <2>2. r \in Runs /\ enqueued'[r] > 0
    <3>1. r \in Runs /\ n > 0
      BY <2>1 DEF Unsent
    <3>2. QED  BY <1>1, <2>1, <3>1
  <2>3. UNCHANGED <<status, toProbe, drained>> /\ pc' = [pc EXCEPT ![h] = "commit"]
    BY <1>9 DEF Enqueue
  <2>4. \A g \in Hosts : pc'[g] = "commit" => run'[g] \in Runs /\ enqueued'[run'[g]] > 0
    <3>1. SUFFICES ASSUME NEW g \in Hosts, pc'[g] = "commit"
                   PROVE  run'[g] \in Runs /\ enqueued'[run'[g]] > 0
      OBVIOUS
    <3>2. CASE g = h
      BY <1>1, <2>1, <2>2, <3>2
    <3>3. CASE g # h
      <4>1. pc[g] = "commit" /\ run'[g] = run[g]
        BY <1>1, <2>1, <2>3, <3>1, <3>3
      <4>2. QED  BY <1>2, <4>1 DEF RowsEnqueued
    <3>4. QED  BY <3>2, <3>3
  <2>5. QED  BY <1>1, <1>2, <1>3, <2>3, <2>4 DEF RowsEnqueued
<1>10. ASSUME NEW h \in Hosts, Commit(h) PROVE RowsEnqueued'
  <2>1. run[h] \in Runs /\ enqueued[run[h]] > 0
    BY <1>10 DEF Commit, RowsEnqueued
  <2>2. \A s \in Runs : status'[s] # "no row" => enqueued[s] > 0
    BY <1>1, <1>10, <2>1 DEF Commit, RowsEnqueued
  <2>3. UNCHANGED <<toProbe, drained, memory, enqueued>>
    BY <1>10 DEF Commit
  <2>4. \A g \in Hosts : pc'[g] = "commit" => pc[g] = "commit" /\ run'[g] = run[g]
    BY <1>1, <1>10 DEF Commit
  <2>5. QED  BY <2>2, <2>3, <2>4 DEF RowsEnqueued
<1>11. ASSUME NEW h \in Hosts, End(h) PROVE RowsEnqueued'
  BY <1>1, <1>2, <1>3, <1>11 DEF End, RowsEnqueued
<1>12. ASSUME NEW h \in Hosts, Crash(h) PROVE RowsEnqueued'
  <2>1. /\ \A g \in Hosts : toProbe'[g] \subseteq toProbe[g] /\ drained'[g] \subseteq drained[g]
        /\ \A g \in Hosts : pc'[g] = "commit" => pc[g] = "commit" /\ run'[g] = run[g]
        /\ UNCHANGED status
    BY <1>1, <1>12 DEF Crash
  <2>2. QED  BY <1>1, <1>2, <1>3, <2>1 DEF RowsEnqueued
<1>13. ASSUME NEW h \in Hosts, WorkerStep(h) PROVE RowsEnqueued'
  BY <1>4, <1>13 DEF WorkerStep, Claim, Complete, Reclaim
<1>14. ASSUME UNCHANGED vars PROVE RowsEnqueued'
  BY <1>4, <1>14 DEF vars
<1>15. QED
  BY <1>5, <1>6, <1>7, <1>8, <1>9, <1>10, <1>11, <1>12, <1>13, <1>14 DEF Next, TickStep

LEMMA Invariant == Spec => []IInv
<1>1. IInv /\ [Next]_vars => IInv'
  BY StepTypes, StepAccounts, StepRows DEF IInv
<1>2. QED  BY InitInv, <1>1, PTL DEF Spec

\* Every row, queue and process of the leasing runs keeps its type.
THEOREM LeasingTypeCorrect == Spec => []TypeOK
<1>1. IInv => TypeOK
  BY DEF IInv
<1>2. QED  BY <1>1, Invariant, PTL

\* However many processes launch, work and end, every item of a run is done, in the
\* memory of one of them, or gone with it.
THEOREM EveryItemAccounted == Spec => []WorkAccounted
<1>1. IInv => WorkAccounted
  BY DEF IInv
<1>2. QED  BY <1>1, Invariant, PTL

\* A tick closes what its process has no item of, and no item comes back.
LEMMA StepClosersEmpty == IInv /\ ClosersEmpty /\ [Next]_vars => ClosersEmpty'
<1> SUFFICES ASSUME IInv, ClosersEmpty, [Next]_vars, NEW r \in Runs
             PROVE  /\ \A h \in closers'[r] : memory'[h][r] = Empty
                    /\ closers'[r] # {} => enqueued'[r] > 0
  BY DEF ClosersEmpty
<1>1. TypeOK /\ RowsEnqueued
  BY DEF IInv
<1>2. ASSUME NEW h \in closers'[r] PROVE h \in Hosts /\ (h \in closers[r] \/ r \in drained[h])
  <2>1. ASSUME NEW g \in Hosts, CloseRuns(g)
        PROVE  h \in Hosts /\ (h \in closers[r] \/ r \in drained[h])
    <3>1. closers'[r] = IF r \in drained[g] THEN closers[r] \cup {g} ELSE closers[r]
      BY <2>1 DEF CloseRuns
    <3>2. closers[r] \subseteq Hosts
      BY <1>1 DEF TypeOK
    <3>3. QED  BY <1>2, <3>1, <3>2
  <2>2. CASE UNCHANGED closers
    BY <1>1, <1>2, <2>2 DEF TypeOK
  <2>3. QED
    BY <2>1, <2>2 DEF Next, TickStep, WorkerStep, StartTick, Enqueue, Commit, Trigger, NoLaunch,
       Probe, End, Crash, Claim, Complete, Reclaim, vars
<1>3. ASSUME NEW h \in closers'[r] PROVE memory'[h][r] = Empty /\ enqueued'[r] > 0
  <2>1. h \in Hosts /\ enqueued[r] > 0 /\ memory[h][r] = Empty
    BY <1>1, <1>2, <1>3 DEF RowsEnqueued, ClosersEmpty
  <2>2. QED  BY <1>1, <2>1, EmptyStays, EnqueuedStays
<1>4. QED  BY <1>3

\* Whatever processes tick, trigger and work, and whenever they end: a tick that closes
\* a run leaves no item of it in its own process.
THEOREM ClosedLeavesNothing == Spec => []UndoneIsElsewhere
<1>1. Init => ClosersEmpty
  BY DEF Init, ClosersEmpty
<1>2. IInv /\ ClosersEmpty => UndoneIsElsewhere
  <2>1. SUFFICES ASSUME IInv, ClosersEmpty, NEW r \in Runs
                 PROVE  \/ enqueued[r] = executed[r] + wiped[r]
                        \/ \E h \in Hosts \ closers[r] :
                             enqueued[r] = executed[r] + InMemory(h, r) + wiped[r]
    BY DEF UndoneIsElsewhere
  <2>2. PICK h \in Hosts : enqueued[r] = executed[r] + InMemory(h, r) + wiped[r]
    BY <2>1 DEF IInv, WorkAccounted
  <2>3. CASE h \in closers[r]
    <3>1. InMemory(h, r) = 0
      BY <2>1, <2>3, EmptyQueue DEF ClosersEmpty, InMemory
    <3>2. executed[r] \in Nat /\ wiped[r] \in Nat
      BY <2>1 DEF IInv, TypeOK
    <3>3. QED  BY <2>2, <3>1, <3>2
  <2>4. QED  BY <2>2, <2>3
<1>3. IInv /\ ClosersEmpty /\ [Next]_vars => ClosersEmpty'
  BY StepClosersEmpty
<1>4. QED  BY <1>1, <1>2, <1>3, Invariant, PTL DEF Spec

--------------------------------------------------------------------------------
(* Plans and work items                                                     *)

\* What is held can be read by its dates.
HeldTyped == IsFiniteSet(held) /\ \A r \in held : r.d \in Int

PlanTyped(pl) ==
  /\ DOMAIN pl.chains \subseteq Concepts /\ IsFiniteSet(DOMAIN pl.chains)
  /\ pl.scope \subseteq Int /\ IsFiniteSet(pl.scope)
  /\ pl.start \in Int /\ pl.end \in Int

PlanningTypes ==
  /\ today \in Nat \ {0}
  /\ HeldTyped
  /\ streak \in [Concepts \X Paths -> 0 .. SuppressMin]
  /\ PlanTyped(plan)
  /\ \A cell \in pending : /\ cell \in (DOMAIN plan.chains) \X (SUBSET Int) \X Int
                           /\ IsFiniteSet(cell[2])

PlanningInv == PlanningTypes /\ PlanAccounted

\* A path is better than another by its rank, which no other has.
RankOrder(c) == {xx \in (DOMAIN Rank[c]) \X (DOMAIN Rank[c]) : Rank[c][xx[1]] < Rank[c][xx[2]]}

LEMMA RanksOrder ==
  ASSUME NEW c \in Concepts, NEW S \in SUBSET DOMAIN Rank[c]
  PROVE  /\ IsFiniteSet(S) /\ Orders(RankOrder(c), S)
         /\ \A x \in S : Better(c, x, S) = Ahead(x, S, RankOrder(c))
<1>1. /\ Rank[c] \in [DOMAIN Rank[c] -> Int] /\ IsFiniteSet(DOMAIN Rank[c])
      /\ \A x, y \in DOMAIN Rank[c] : Rank[c][x] = Rank[c][y] => x = y
  BY PathAssumption
<1>2. IsFiniteSet(S)
  BY <1>1, FS_Subset
<1>3. \A x \in S : Rank[c][x] \in Int
  BY <1>1
<1>4. \A x, y \in S : <<x, y>> \in RankOrder(c) <=> Rank[c][x] < Rank[c][y]
  BY DEF RankOrder
<1>5. \A x, y \in S : x = y \/ Rank[c][x] < Rank[c][y] \/ Rank[c][y] < Rank[c][x]
  BY <1>1, <1>3
<1>6. Orders(RankOrder(c), S)
  BY <1>3, <1>4, <1>5 DEF Orders
<1>7. \A x \in S : Better(c, x, S) = Ahead(x, S, RankOrder(c))
  BY <1>4 DEF Better, Ahead
<1>8. QED  BY <1>2, <1>6, <1>7

\* Where a set has more paths than a chain may have, its chain is as long as it may be.
LEMMA BoundedIsFull ==
  ASSUME NEW c \in Concepts, NEW S \in SUBSET DOMAIN Rank[c], NEW z \in S \ Bounded(c, S)
  PROVE  Cardinality(Bounded(c, S)) = ChainMax
<1>1. IsFiniteSet(S) /\ Orders(RankOrder(c), S)
  BY RanksOrder
<1>2. \A x \in S : Cardinality(Better(c, x, S)) = PlaceIn(x, S, RankOrder(c))
  BY RanksOrder DEF PlaceIn
<1>3. \A x \in S : PlaceIn(x, S, RankOrder(c)) \in Nat
  BY <1>1, PlaceBound
<1>4. ChainMax \in Nat /\ z \in S /\ ChainMax <= PlaceIn(z, S, RankOrder(c))
  BY <1>2, <1>3, PlanBounds DEF Bounded
<1>5. Bounded(c, S) = {x \in S : PlaceIn(x, S, RankOrder(c)) < ChainMax}
  BY <1>2 DEF Bounded
<1>6. QED  BY <1>1, <1>4, <1>5, FrontCount

LEMMA RunnablePaths ==
  ASSUME NEW c \in Concepts, NEW p
  PROVE  Runnable(c, p) \in SUBSET DOMAIN Rank[c] /\ DOMAIN Rank[c] \subseteq Paths
BY PathAssumption DEF Runnable, Candidates

\* A plan, field by field.
Barren(p) == p.dates = "since_last" /\ Start(p) = NoDate
Wanted(p) == {c \in p.concepts \ Refused : ~Barren(p) /\ Chain(c, p) # {}}
Known(p)  == (p.concepts \ Refused) \X Paths

LEMMA PlanFields ==
  ASSUME NEW p
  PROVE  LET pl == PlanCrawl(p) IN
         /\ pl.chains = [c \in Wanted(p) |-> Chain(c, p)]
         /\ pl.scope = p.scope /\ pl.mode = p.mode /\ pl.filter = p.filter
         /\ pl.start = Start(p) /\ pl.end = today
         /\ pl.concepts = p.concepts /\ pl.unroutable = p.concepts \ Wanted(p)
         /\ pl.truncated = {x \in Known(p) :
              ~Barren(p) /\ x[2] \in Runnable(x[1], p) \ Chain(x[1], p)}
         /\ pl.suppressed = {x \in Known(p) :
              ~Barren(p) /\ x[2] \in Candidates(x[1], p) \ Runnable(x[1], p)}
BY DEF PlanCrawl, EmptyPlan, Barren, Wanted, Known

\* Each concept and path of a plan is carried or reported.
LEMMA PlanAccounts ==
  ASSUME NEW p \in Policies, plan' = PlanCrawl(p)
  PROVE  PlanAccounted'
<1> DEFINE pl == PlanCrawl(p)
<1>0. p.concepts \subseteq Concepts
  BY PolicyAssumption
<1>1. pl.chains = [c \in Wanted(p) |-> Chain(c, p)]
  BY PlanFields
<1>2. DOMAIN pl.chains = Wanted(p)
  BY <1>1
<1>3. pl.concepts = p.concepts /\ pl.unroutable = p.concepts \ Wanted(p)
  BY PlanFields
<1>4. Wanted(p) \subseteq p.concepts \ Refused
  BY DEF Wanted
<1>5. /\ DOMAIN pl.chains \cup pl.unroutable = pl.concepts
      /\ DOMAIN pl.chains \cap (pl.unroutable \cup Refused) = {}
  BY <1>2, <1>3, <1>4
<1>6. ASSUME NEW c \in DOMAIN pl.chains
      PROVE  LET of(S) == {x[2] : x \in {y \in S : y[1] = c}} IN
             /\ Candidates(c, pl) = pl.chains[c] \cup of(pl.truncated) \cup of(pl.suppressed)
             /\ of(pl.truncated) # {} => Cardinality(pl.chains[c]) = ChainMax
             /\ pl.chains[c] \cap of(pl.suppressed) = {}
  <2> DEFINE of(S) == {x[2] : x \in {y \in S : y[1] = c}}
  <2>1. c \in Concepts /\ c \in p.concepts \ Refused /\ ~Barren(p) /\ pl.chains[c] = Chain(c, p)
    BY <1>0, <1>1, <1>2 DEF Wanted
  <2>2. Candidates(c, pl) = Candidates(c, p)
    BY PlanFields DEF Candidates
  <2>3. Candidates(c, p) \subseteq Paths /\ Runnable(c, p) \subseteq Candidates(c, p)
    BY <2>1, PathAssumption DEF Candidates, Runnable
  <2>4. Chain(c, p) = Bounded(c, Runnable(c, p)) /\ Chain(c, p) \subseteq Runnable(c, p)
    BY DEF Chain, Bounded
  <2>5. of(pl.truncated) = Runnable(c, p) \ Chain(c, p)
    <3>1. \A path \in Runnable(c, p) \ Chain(c, p) : <<c, path>> \in pl.truncated
      BY <2>1, <2>3, PlanFields DEF Known
    <3>2. \A x \in pl.truncated : x[2] \in Runnable(x[1], p) \ Chain(x[1], p)
      BY PlanFields
    <3>3. \A path \in Runnable(c, p) \ Chain(c, p) : path \in of(pl.truncated)
      <4> HIDE DEF pl
      <4>1. \A path : <<c, path>>[1] = c /\ <<c, path>>[2] = path
        OBVIOUS
      <4>2. QED  BY <3>1, <4>1
    <3>4. \A path \in of(pl.truncated) : path \in Runnable(c, p) \ Chain(c, p)
      <4> HIDE DEF pl
      <4>1. QED  BY <3>2
    <3> HIDE DEF pl, of
    <3>5. QED  BY <3>3, <3>4
  <2>6. of(pl.suppressed) = Candidates(c, p) \ Runnable(c, p)
    <3>1. \A path \in Candidates(c, p) \ Runnable(c, p) : <<c, path>> \in pl.suppressed
      BY <2>1, <2>3, PlanFields DEF Known
    <3>2. \A x \in pl.suppressed : x[2] \in Candidates(x[1], p) \ Runnable(x[1], p)
      BY PlanFields
    <3>3. \A path \in Candidates(c, p) \ Runnable(c, p) : path \in of(pl.suppressed)
      <4> HIDE DEF pl
      <4>1. \A path : <<c, path>>[1] = c /\ <<c, path>>[2] = path
        OBVIOUS
      <4>2. QED  BY <3>1, <4>1
    <3>4. \A path \in of(pl.suppressed) : path \in Candidates(c, p) \ Runnable(c, p)
      <4> HIDE DEF pl
      <4>1. QED  BY <3>2
    <3> HIDE DEF pl, of
    <3>5. QED  BY <3>3, <3>4
  <2>7. Runnable(c, p) \ Chain(c, p) # {} => Cardinality(Chain(c, p)) = ChainMax
    BY <2>1, <2>4, RunnablePaths, BoundedIsFull
  <2> HIDE DEF pl, of
  <2>8. QED  BY <2>1, <2>2, <2>3, <2>4, <2>5, <2>6, <2>7 DEF of
<1> HIDE DEF pl
<1>7. plan' = pl
  BY DEF pl
<1>8. QED  BY <1>5, <1>6, <1>7 DEF PlanAccounted, Candidates

\* Dates of a plan are days, however they are derived ...
LEMMA MonthTyped ==
  ASSUME NEW d \in Int
  PROVE  Month(d) \in Int /\ FirstDay(d) \in Int
<1>1. d - 1 \in Int /\ MonthLength \in Nat \ {0}
  BY PlanBounds
<1>2. Month(d) \in Int
  BY <1>1, Quotient DEF Month
<1>3. FirstDay(d) \in Int
  BY <1>1 DEF FirstDay
<1>4. QED  BY <1>2, <1>3

LEMMA MonthGrows ==
  ASSUME NEW d \in Int, NEW e \in Int, d <= e
  PROVE  Month(d) <= Month(e)
BY PlanBounds, QuotientGrows DEF Month

LEMMA WatermarkTyped ==
  ASSUME HeldTyped, NEW c, NEW filter
  PROVE  Watermark(c, filter) \in Int
<1> DEFINE R == {x \in held : x.c = c /\ x.g = Cadence[c] /\ (filter = All \/ x.s \in filter)}
           f == [x \in R |-> x.d]
           dates == {r.d : r \in R}
<1>1. IsFiniteSet(R) /\ \A r \in R : r.d \in Int
  BY FS_Subset DEF HeldTyped
<1>2. IsFiniteSet({f[x] : x \in DOMAIN f}) /\ {f[x] : x \in DOMAIN f} = dates
  <2>1. DOMAIN f = R /\ \A x \in R : f[x] = x.d
    OBVIOUS
  <2> HIDE DEF f, R
  <2>2. IsFiniteSet({f[x] : x \in DOMAIN f})
    BY <1>1, <2>1, ImageOfFinite
  <2>3. QED  BY <2>1, <2>2
<1>3. dates \in SUBSET Int /\ IsFiniteSet(dates)
  BY <1>1, <1>2
<1> HIDE DEF f, R
<1>4. dates # {} => Max(dates) \in dates
  <2> HIDE DEF dates
  <2>1. QED  BY <1>3, MaxOfFinite
<1>5. Watermark(c, filter) = IF dates = {} THEN NoDate ELSE Max(dates)
  BY DEF Watermark, R
<1> HIDE DEF dates
<1>6. CASE dates = {}
  BY <1>5, <1>6 DEF NoDate
<1>7. CASE dates # {}
  <2>1. Watermark(c, filter) = Max(dates) /\ Max(dates) \in Int
    BY <1>3, <1>4, <1>5, <1>7
  <2>2. QED  BY <2>1
<1>8. QED  BY <1>6, <1>7

LEMMA StartTyped ==
  ASSUME HeldTyped, today \in Int, NEW p \in Policies
  PROVE  Start(p) \in Int
<1> DEFINE W == Watermarks(p)
           f == [c \in p.concepts |-> Watermark(c, p.filter)]
<1>1. IsFiniteSet({f[x] : x \in DOMAIN f})
  <2>1. IsFiniteSet(DOMAIN f)
    BY PolicyAssumption
  <2> HIDE DEF f
  <2>2. QED  BY <2>1, ImageOfFinite
<1>2. {f[x] : x \in DOMAIN f} = {Watermark(c, p.filter) : c \in p.concepts}
  OBVIOUS
<1>3. W \in SUBSET Int /\ IsFiniteSet(W)
  <2>1. W \in SUBSET {f[x] : x \in DOMAIN f}
    BY <1>2 DEF Watermarks
  <2>2. W \subseteq Int
    BY WatermarkTyped DEF Watermarks
  <2> HIDE DEF f, W
  <2>3. QED  BY <1>1, <2>1, <2>2, FS_Subset
<1>4. W # {} => NextPeriodStart(Min(W), p.cadence) \in Int
  <2> HIDE DEF W
  <2>1. SUFFICES ASSUME W # {} PROVE NextPeriodStart(Min(W), p.cadence) \in Int
    OBVIOUS
  <2>2. Min(W) \in Int
    BY <1>3, <2>1, MinOfFinite
  <2>3. Month(Min(W)) \in Int
    BY <2>2, MonthTyped
  <2>4. FirstDay(Month(Min(W)) + 1) \in Int
    BY <2>3, MonthTyped
  <2>5. QED  BY <2>2, <2>4 DEF NextPeriodStart
<1> HIDE DEF f
<1>5. today - TrailingDays \in Int
  BY PlanBounds
<1>6. QED  BY <1>4, <1>5 DEF Start, NoDate

LEMMA PlanTypes ==
  ASSUME HeldTyped, today \in Int, NEW p \in Policies
  PROVE  PlanTyped(PlanCrawl(p))
<1>1. DOMAIN PlanCrawl(p).chains = Wanted(p)
  <2>1. PlanCrawl(p).chains = [c \in Wanted(p) |-> Chain(c, p)]
    BY PlanFields
  <2>2. QED  BY <2>1
<1>2. Wanted(p) \in SUBSET p.concepts /\ p.concepts \subseteq Concepts /\ IsFiniteSet(p.concepts)
  BY PolicyAssumption DEF Wanted
<1>3. IsFiniteSet(Wanted(p))
  BY <1>2, FS_Subset
<1>4. /\ PlanCrawl(p).scope = p.scope /\ PlanCrawl(p).start = Start(p)
      /\ PlanCrawl(p).end = today
  BY PlanFields
<1>5. p.scope \subseteq Int /\ IsFiniteSet(p.scope)
  BY PolicyAssumption
<1>6. QED  BY <1>1, <1>2, <1>3, <1>4, <1>5, StartTyped DEF PlanTyped

\* ... its entities are numbers, and each has work.
LEMMA EntitiesTyped ==
  ASSUME NEW pl, PlanTyped(pl)
  PROVE  EntitiesOf(pl) \in SUBSET Int /\ IsFiniteSet(EntitiesOf(pl))
<1> DEFINE S == ChainSources(pl.chains)
           I == {y \in Identified : y[2] \in S}
           f == [x \in I |-> x[1]]
<1>1. IsFiniteSet(I) /\ \A x \in I : x[1] \in Int
  BY FoundAssumption, FS_Subset
<1>2. IsFiniteSet({f[x] : x \in DOMAIN f})
  <2>1. IsFiniteSet(DOMAIN f)
    BY <1>1
  <2> HIDE DEF f
  <2>2. QED  BY <2>1, ImageOfFinite
<1>3. {f[x] : x \in DOMAIN f} = Universe(S)
  BY DEF Universe
<1>4. Universe(S) \subseteq Int
  BY <1>1 DEF Universe
<1> HIDE DEF f, I, S
<1>5. IsFiniteSet(Universe(S)) /\ Universe(S) \in SUBSET Int
  BY <1>2, <1>3, <1>4
<1>6. QED  BY <1>5 DEF EntitiesOf, PlanTyped, S

LEMMA DatesPositive ==
  ASSUME NEW pl, PlanTyped(pl), NEW c \in DOMAIN pl.chains
  PROVE  DatesOf(pl, c) \in Nat \ {0}
<1>1. pl.start \in Int /\ pl.end \in Int
  BY DEF PlanTyped
<1> DEFINE first == Min({pl.start, pl.end})
           last  == Max({pl.start, pl.end})
<1>2. first \in Int /\ last \in Int /\ first <= last
  BY <1>1, MinOfTwo, MaxOfTwo
<1> HIDE DEF first, last
<1>3. Month(first) \in Int /\ Month(last) \in Int /\ Month(first) <= Month(last)
  BY <1>2, MonthTyped, MonthGrows
<1>4. /\ Month(last) - Month(first) + 1 \in Nat \ {0}
      /\ last - first + 1 \in Nat \ {0}
  BY <1>2, <1>3
<1>5. DateCount(pl.start, pl.end, Cadence[c]) \in Nat \ {0}
  BY <1>4 DEF DateCount, first, last
<1>6. QED  BY <1>5 DEF DatesOf

LEMMA PerEntityPositive ==
  ASSUME NEW pl, PlanTyped(pl), DOMAIN pl.chains # {}
  PROVE  PerEntity(pl) \in Nat \ {0}
<1> DEFINE D == DOMAIN pl.chains
           f == [c \in D |-> DatesOf(pl, c)]
           dates == {DatesOf(pl, c) : c \in D}
<1>1. IsFiniteSet(D)
  BY DEF PlanTyped
<1>2. Cardinality(D) \in Nat \ {0}
  <2> HIDE DEF D
  <2>1. D # {}
    BY DEF D
  <2>2. QED  BY <1>1, <2>1, FS_CardinalityType, FS_EmptySet
<1>3. IsFiniteSet({f[x] : x \in DOMAIN f})
  <2>1. DOMAIN f = D
    OBVIOUS
  <2> HIDE DEF f, D
  <2>2. QED  BY <1>1, <2>1, ImageOfFinite
<1>4. {f[x] : x \in DOMAIN f} = dates
  OBVIOUS
<1>5. dates \subseteq Nat \ {0} /\ dates # {}
  BY DatesPositive
<1>6. Max(dates) \in Nat \ {0}
  <2> HIDE DEF dates, f, D
  <2>1. dates \in SUBSET Int
    BY <1>5
  <2>2. IsFiniteSet(dates)
    BY <1>3, <1>4, Zenon
  <2>3. Max(dates) \in dates
    BY <1>5, <2>1, <2>2, MaxOfFinite
  <2>4. QED  BY <1>5, <2>3
<1>7. PerEntity(pl) = IF OneDate(pl) THEN Cardinality(D) ELSE Max(dates) * Cardinality(D)
  BY DEF PerEntity
<1> DEFINE m == Max(dates)
           k == Cardinality(D)
<1> HIDE DEF m, k, dates, f, D
<1>8. m * k \in Nat \ {0}
  <2>1. m \in Nat /\ k \in Int /\ m > 0 /\ 1 <= k
    BY <1>2, <1>6 DEF m, k
  <2>2. m * 1 <= m * k
    BY <2>1, TimesGrows
  <2>3. m * k \in Int /\ m * 1 = m
    BY <2>1
  <2>4. QED  BY <2>1, <2>2, <2>3
<1>9. QED  BY <1>2, <1>7, <1>8 DEF m, k

\* The order of the chunks.
Ascending(S) == {ss \in S \X S : ss[1] < ss[2]}

LEMMA NumbersOrder ==
  ASSUME NEW S \in SUBSET Int
  PROVE  /\ Orders(Ascending(S), S)
         /\ \A e \in S : Place(e, S) = PlaceIn(e, S, Ascending(S))
<1>1. \A x, y \in S : <<x, y>> \in Ascending(S) <=> x < y
  BY DEF Ascending
<1>2. Orders(Ascending(S), S)
  <2>1. \A x \in S : x \in Int
    OBVIOUS
  <2>2. QED  BY <1>1, <2>1 DEF Orders
<1>3. \A e \in S : {x \in S : x < e} = Ahead(e, S, Ascending(S))
  BY <1>1 DEF Ahead
<1>4. QED  BY <1>2, <1>3 DEF Place, PlaceIn

\* Chunks of a set cover it, do not overlap, and have no more members than asked for.
LEMMA ChunksPartition ==
  ASSUME NEW S \in SUBSET Int, IsFiniteSet(S), NEW size \in Nat \ {0}
  PROVE  LET groups == Chunks(S, size) IN
         /\ UNION {groups[i] : i \in DOMAIN groups} = S
         /\ \A i, j \in DOMAIN groups : i # j => groups[i] \cap groups[j] = {}
         /\ \A i \in DOMAIN groups :
              Cardinality(groups[i]) \in Nat /\ Cardinality(groups[i]) <= size
<1> DEFINE groups == Chunks(S, size)
           n == Cardinality(S)
           top == ((n + size - 1) \div size) - 1
           at(e) == Place(e, S)
<1>1. n \in Nat
  BY FS_CardinalityType
<1>2. Orders(Ascending(S), S) /\ \A e \in S : at(e) = PlaceIn(e, S, Ascending(S))
  BY NumbersOrder
<1>3. \A e \in S : at(e) \in Nat /\ at(e) < n
  <2> SUFFICES ASSUME NEW e \in S PROVE at(e) \in Nat /\ at(e) < n
    OBVIOUS
  <2>1. PlaceIn(e, S, Ascending(S)) \in Nat /\ PlaceIn(e, S, Ascending(S)) < Cardinality(S)
    BY <1>2, PlaceBound
  <2>2. QED  BY <1>2, <2>1
<1>4. /\ DOMAIN groups = 0 .. top
      /\ \A i \in 0 .. top : groups[i] = {e \in S : at(e) \div size = i}
  BY DEF Chunks
<1>5. ASSUME NEW e \in S PROVE at(e) \div size \in 0 .. top
  <2> DEFINE k == at(e)
             q == at(e) \div size
  <2> HIDE DEF k, q, n
  <2>1. k \in Nat /\ k < n /\ q = k \div size /\ n \in Nat
    BY <1>1, <1>3 DEF k, q
  <2>2. size * 0 <= k
    BY <2>1
  <2>3. q \in Int /\ size * q <= k /\ 0 <= q
    BY <2>1, <2>2, Quotient, QuotientAbove
  <2>4. size * (q + 1) <= n + size - 1
    <3>1. size * (q + 1) = size * q + size /\ size * q \in Int
      BY <2>3
    <3>2. QED  BY <2>1, <2>3, <3>1
  <2>5. n + size - 1 \in Int /\ q + 1 \in Int
    BY <2>1, <2>3
  <2>6. q + 1 <= (n + size - 1) \div size
    BY <2>4, <2>5, QuotientAbove
  <2>7. (n + size - 1) \div size \in Int
    BY <2>5, Quotient
  <2>8. q <= top
    BY <2>3, <2>6, <2>7
  <2>9. top \in Int
    BY <2>7
  <2> HIDE DEF top
  <2>10. QED  BY <2>3, <2>8, <2>9 DEF q
<1> HIDE DEF groups, top, n
<1>6. UNION {groups[i] : i \in DOMAIN groups} = S
  <2>1. \A i \in DOMAIN groups : groups[i] \subseteq S
    BY <1>4
  <2>2. \A e \in S : e \in groups[at(e) \div size] /\ at(e) \div size \in DOMAIN groups
    BY <1>4, <1>5
  <2>3. QED  BY <2>1, <2>2
<1>7. \A i, j \in DOMAIN groups : i # j => groups[i] \cap groups[j] = {}
  BY <1>4
<1>8. ASSUME NEW i \in DOMAIN groups
      PROVE  Cardinality(groups[i]) \in Nat /\ Cardinality(groups[i]) <= size
  <2> DEFINE a == size * i
             b == size * i + size
             T == {x \in S : a <= PlaceIn(x, S, Ascending(S)) /\ PlaceIn(x, S, Ascending(S)) < b}
  <2>1. i \in Nat
    BY <1>4
  <2>2. a \in Nat /\ b \in Nat /\ a <= b /\ b - a = size
    <3>1. size * i \in Nat
      BY <2>1
    <3>2. QED  BY <3>1
  <2>3. \A e \in groups[i] : e \in T
    <3> SUFFICES ASSUME NEW e \in groups[i] PROVE e \in T
      OBVIOUS
    <3>1. e \in S /\ at(e) \div size = i
      BY <1>4
    <3>2. at(e) \in Int
      BY <1>3, <3>1
    <3>3. size * i <= at(e) /\ at(e) < size * i + size
      BY <3>1, <3>2, Quotient
    <3>4. QED  BY <1>2, <3>1, <3>3
  <2> HIDE DEF a, b
  <2>4. IsFiniteSet(T) /\ Cardinality(T) <= b - a
    BY <1>2, <2>2, SlotCount
  <2> HIDE DEF T
  <2>5. /\ IsFiniteSet(groups[i]) /\ Cardinality(groups[i]) <= Cardinality(T)
    BY <2>3, <2>4, FS_Subset
  <2>6. Cardinality(groups[i]) \in Nat /\ Cardinality(T) \in Nat
    BY <2>4, <2>5, FS_CardinalityType
  <2>7. QED  BY <2>2, <2>4, <2>5, <2>6
<1>9. QED  BY <1>6, <1>7, <1>8 DEF groups

\* So do the work items of a plan, each within the cap or of one entity.
LEMMA ItemsPartition ==
  ASSUME NEW pl, PlanTyped(pl), NEW cap \in Nat
  PROVE  LET items == Items(pl, cap) IN
         /\ UNION {items[i].scope : i \in DOMAIN items} =
              IF DOMAIN pl.chains = {} THEN {} ELSE EntitiesOf(pl)
         /\ \A i, j \in DOMAIN items : i # j => items[i].scope \cap items[j].scope = {}
         /\ \A i \in DOMAIN items : items[i].cells <= cap \/ items[i].size = 1
<1>1. CASE EntitiesOf(pl) = {} \/ DOMAIN pl.chains = {}
  <2>1. Items(pl, cap) = <<>> /\ DOMAIN <<>> = {}
    BY <1>1 DEF Items
  <2>2. QED  BY <1>1, <2>1
<1>2. CASE EntitiesOf(pl) # {} /\ DOMAIN pl.chains # {}
  <2> DEFINE per  == PerEntity(pl)
             size == Max({1, cap \div per})
             S    == EntitiesOf(pl)
             groups == Chunks(S, size)
             times == IF pl.mode = "series" THEN 1 ELSE per
             items == Items(pl, cap)
  <2>1. per \in Nat \ {0}
    BY <1>2, PerEntityPositive
  <2>2. S \in SUBSET Int /\ IsFiniteSet(S)
    BY EntitiesTyped
  <2>3. /\ DOMAIN items = DOMAIN groups
        /\ \A i \in DOMAIN groups : /\ items[i].scope = groups[i]
                                    /\ items[i].size = Cardinality(groups[i])
                                    /\ items[i].cells = Cardinality(groups[i]) * times
    <3>1. items = [i \in DOMAIN groups |-> [scope |-> groups[i], size |-> Cardinality(groups[i]),
             cells |-> Cardinality(groups[i]) * times]]
      BY <1>2 DEF Items
    <3> HIDE DEF items, groups, times
    <3>2. QED  BY <3>1
  <2> HIDE DEF per, S, items
  <2>4. size \in Nat \ {0} /\ (size = 1 \/ (size = cap \div per /\ size > 1))
    <3>1. cap \div per \in Int
      BY <2>1, Quotient
    <3>2. QED  BY <3>1, MaxOfTwo
  <2> HIDE DEF size
  <2>5. /\ UNION {groups[i] : i \in DOMAIN groups} = S
        /\ \A i, j \in DOMAIN groups : i # j => groups[i] \cap groups[j] = {}
        /\ \A i \in DOMAIN groups :
             Cardinality(groups[i]) \in Nat /\ Cardinality(groups[i]) <= size
    BY <2>2, <2>4, ChunksPartition
  <2> HIDE DEF groups
  <2>6. ASSUME NEW i \in DOMAIN groups
        PROVE  Cardinality(groups[i]) * times <= cap \/ Cardinality(groups[i]) = 1
    <3> DEFINE k == Cardinality(groups[i])
    <3>1. k \in Nat /\ k <= size /\ times \in Nat \ {0} /\ times <= per
      BY <2>1, <2>5
    <3> HIDE DEF k, times
    <3>2. CASE size = 1
      <4>1. k = 0 \/ k = 1
        BY <3>1, <3>2
      <4>2. k = 0 => k * times = 0
        BY <3>1
      <4>3. QED  BY <4>1, <4>2 DEF k
    <3>3. CASE size = cap \div per /\ size > 1
      <4>1. per * size <= cap /\ size \in Nat /\ per \in Nat
        BY <2>1, <2>4, <3>3, Quotient
      <4>2. per * k <= per * size
        BY <3>1, <4>1, TimesGrows
      <4>3. k * times <= k * per
        BY <3>1, <4>1, TimesGrows
      <4>4. k * per = per * k /\ k * times \in Int /\ per * k \in Int /\ per * size \in Int
        BY <3>1, <4>1
      <4>5. k * times <= cap
        BY <4>1, <4>2, <4>3, <4>4
      <4>6. QED  BY <4>5 DEF k
    <3>4. QED  BY <2>4, <3>2, <3>3
  <2>7. UNION {items[i].scope : i \in DOMAIN items} = S
    <3>1. {items[i].scope : i \in DOMAIN items} = {groups[i] : i \in DOMAIN groups}
      BY <2>3
    <3>2. QED  BY <2>5, <3>1
  <2> HIDE DEF times
  <2>8. \A i \in DOMAIN items : items[i].cells <= cap \/ items[i].size = 1
    BY <2>3, <2>6
  <2>9. \A i, j \in DOMAIN items : i # j => items[i].scope \cap items[j].scope = {}
    BY <2>3, <2>5
  <2>10. QED  BY <1>2, <2>7, <2>8, <2>9 DEF items, S
<1>3. QED  BY <1>1, <1>2

LEMMA PlanningInitInv == PlanningInit => PlanningInv
<1> SUFFICES ASSUME PlanningInit PROVE PlanningInv
  OBVIOUS
<1>1. today \in Nat \ {0}
  BY PlanBounds DEF PlanningInit
<1>2. HeldTyped
  BY FoundAssumption DEF PlanningInit, HeldTyped
<1>3. streak \in [Concepts \X Paths -> 0 .. SuppressMin]
  BY PlanBounds DEF PlanningInit
<1>4. plan = EmptyPlan /\ DOMAIN plan.chains = {} /\ pending = {}
  BY DEF PlanningInit, EmptyPlan
<1>5. PlanTyped(plan)
  BY <1>4, FS_EmptySet DEF PlanTyped, EmptyPlan, All, NoDate
<1>6. PlanningTypes
  BY <1>1, <1>2, <1>3, <1>4, <1>5 DEF PlanningTypes
<1>7. PlanAccounted
  BY <1>4 DEF PlanAccounted, EmptyPlan
<1>8. QED  BY <1>6, <1>7 DEF PlanningInv

\* What the run of a plan fetches: cells of its concepts, entities and dates.
LEMMA CellsTyped ==
  ASSUME NEW pl, PlanTyped(pl), NEW cell \in Cells(pl)
  PROVE  cell \in (DOMAIN pl.chains) \X (SUBSET Int) \X Int /\ IsFiniteSet(cell[2])
<1> DEFINE E == EntitiesOf(pl)
           groups(c) == IF pl.snapshots[c] # {} THEN {E} ELSE {{e} : e \in E}
<1>1. E \in SUBSET Int /\ IsFiniteSet(E)
  BY EntitiesTyped
<1>2. PICK c \in DOMAIN pl.chains : cell \in {c} \X groups(c) \X Expand(pl, c)
  BY DEF Cells
<1>3. ASSUME NEW G \in groups(c) PROVE G \in SUBSET Int /\ IsFiniteSet(G)
  <2>1. CASE G = E
    BY <1>1, <2>1
  <2>2. CASE \E e \in E : G = {e}
    <3>1. PICK e \in E : G = {e}
      BY <2>2
    <3>2. IsFiniteSet({e}) /\ e \in Int
      BY <1>1, FS_Singleton
    <3>3. QED  BY <3>1, <3>2
  <2>3. QED  BY <2>1, <2>2
<1>4. Expand(pl, c) \subseteq Int
  <2> DEFINE days == Min({pl.start, pl.end}) .. Max({pl.start, pl.end})
  <2>1. days \subseteq Int
    OBVIOUS
  <2>2. \A d \in days : FirstDay(Month(d)) \in Int
    BY <2>1, MonthTyped
  <2> HIDE DEF days
  <2>3. Expand(pl, c) = IF OneDate(pl) THEN {NoDate}
                        ELSE IF Cadence[c] = "month" THEN {FirstDay(Month(d)) : d \in days}
                        ELSE days
    BY DEF Expand, days
  <2>4. {NoDate} \subseteq Int /\ {FirstDay(Month(d)) : d \in days} \subseteq Int
    BY <2>2 DEF NoDate
  <2>5. QED  BY <2>1, <2>3, <2>4
<1> HIDE DEF groups
<1>5. /\ cell = <<cell[1], cell[2], cell[3]>>
      /\ cell[1] = c /\ cell[2] \in groups(c) /\ cell[3] \in Expand(pl, c)
  BY <1>2
<1>6. QED  BY <1>3, <1>4, <1>5

LEMMA PlanInv ==
  ASSUME PlanningInv, NEW p \in Policies, Plan(p)
  PROVE  PlanningInv'
<1>1. plan' = PlanCrawl(p) /\ pending' = Cells(plan') /\ UNCHANGED <<today, held, streak>>
  BY DEF Plan
<1>2. HeldTyped /\ today \in Nat \ {0} /\ streak \in [Concepts \X Paths -> 0 .. SuppressMin]
  BY DEF PlanningInv, PlanningTypes
<1>3. PlanTyped(plan')
  BY <1>1, <1>2, PlanTypes
<1>4. \A cell \in pending' : /\ cell \in (DOMAIN plan'.chains) \X (SUBSET Int) \X Int
                             /\ IsFiniteSet(cell[2])
  BY <1>1, <1>3, CellsTyped
<1>5. HeldTyped'
  BY <1>1, <1>2 DEF HeldTyped
<1>6. PlanningTypes'
  BY <1>1, <1>2, <1>3, <1>4, <1>5 DEF PlanningTypes, PlanTyped
<1>7. QED  BY <1>1, <1>6, PlanAccounts DEF PlanningInv

LEMMA OutcomeTyped ==
  ASSUME NEW n \in 0 .. SuppressMin, NEW permanent
  PROVE  Outcome(n, permanent) \in 0 .. SuppressMin
<1>1. SuppressMin \in Nat /\ n + 1 \in Nat
  BY PlanBounds
<1>2. Min({n + 1, SuppressMin}) = IF n + 1 <= SuppressMin THEN n + 1 ELSE SuppressMin
  BY <1>1, MinOfTwo
<1>3. QED  BY <1>1, <1>2 DEF Outcome

LEMMA LandTypes ==
  ASSUME PlanningTypes, NEW cell \in pending, NEW path, NEW permanent, Land(cell, path, permanent)
  PROVE  HeldTyped' /\ streak' \in [Concepts \X Paths -> 0 .. SuppressMin]
<1> DEFINE c    == cell[1]
           days == IF cell[3] = NoDate THEN {today} ELSE {cell[3]}
           E    == {x \in cell[2] : <<x, SourceOf[path]>> \in Identified}
           row(e, d) == [c |-> c, e |-> e, d |-> d, g |-> Cadence[c], s |-> SourceOf[path]]
           rows == {row(e, d) : e \in E, d \in days}
           f    == [x \in E \X days |-> row(x[1], x[2])]
<1>1. held' = held \cup rows
  BY DEF Land
<1>2. HeldTyped /\ today \in Int /\ cell[3] \in Int /\ IsFiniteSet(cell[2])
  BY DEF PlanningTypes
<1>3. IsFiniteSet(days) /\ IsFiniteSet(E) /\ days \subseteq Int
  BY <1>2, FS_Singleton, FS_Subset
<1>4. IsFiniteSet(rows)
  <2>1. IsFiniteSet(E \X days)
    <3> HIDE DEF E, days
    <3>1. QED  BY <1>3, FS_Product
  <2>2. IsFiniteSet({f[x] : x \in DOMAIN f})
    <3>1. DOMAIN f = E \X days
      OBVIOUS
    <3> HIDE DEF f, E, days
    <3>2. QED  BY <2>1, <3>1, ImageOfFinite
  <2> HIDE DEF E, days
  <2>3. \A x \in E \X days : f[x] = row(x[1], x[2])
    OBVIOUS
  <2>4. \A e \in E, d \in days : row(e, d) = f[<<e, d>>] /\ <<e, d>> \in DOMAIN f
    OBVIOUS
  <2> HIDE DEF row, f
  <2>5. ASSUME NEW r \in rows PROVE r \in {f[x] : x \in DOMAIN f}
    <3>1. PICK e \in E, d \in days : r = row(e, d)
      OBVIOUS
    <3>2. r = f[<<e, d>>] /\ <<e, d>> \in DOMAIN f
      BY <2>4, <3>1
    <3>3. QED  BY <3>2
  <2> HIDE DEF rows
  <2>6. QED  BY <2>2, <2>5, FS_Subset
<1>5. ASSUME NEW r \in rows PROVE r.d \in Int
  <2> HIDE DEF days, E
  <2>1. PICK e \in E, d \in days : r = row(e, d)
    OBVIOUS
  <2>2. r.d = d
    BY <2>1
  <2>3. QED  BY <1>3, <2>2
<1>6. HeldTyped'
  <2> HIDE DEF rows
  <2>1. IsFiniteSet(held \cup rows)
    BY <1>2, <1>4, FS_Union DEF HeldTyped
  <2>2. QED  BY <1>1, <1>2, <1>5, <2>1 DEF HeldTyped
<1>7. streak' \in [Concepts \X Paths -> 0 .. SuppressMin]
  <2>1. streak \in [Concepts \X Paths -> 0 .. SuppressMin]
    BY DEF PlanningTypes
  <2>2. streak' = [x \in DOMAIN streak |->
          IF x = <<c, path>> THEN 0
          ELSE IF x[1] = c /\ x[2] \in Better(c, path, plan.chains[c])
               THEN Outcome(streak[x], permanent) ELSE streak[x]]
    BY DEF Land
  <2>3. \A x \in DOMAIN streak : Outcome(streak[x], permanent) \in 0 .. SuppressMin
    BY <2>1, OutcomeTyped
  <2> HIDE DEF c
  <2>4. 0 \in 0 .. SuppressMin
    BY PlanBounds
  <2>5. QED  BY <2>1, <2>2, <2>3, <2>4
<1>8. QED  BY <1>6, <1>7

LEMMA MissTypes ==
  ASSUME PlanningTypes, NEW cell \in pending, NEW permanent, Miss(cell, permanent)
  PROVE  HeldTyped' /\ streak' \in [Concepts \X Paths -> 0 .. SuppressMin]
<1>1. HeldTyped'
  BY DEF Miss, PlanningTypes, HeldTyped
<1>2. streak \in [Concepts \X Paths -> 0 .. SuppressMin]
  BY DEF PlanningTypes
<1>3. \A x \in DOMAIN streak : Outcome(streak[x], permanent) \in 0 .. SuppressMin
  BY <1>2, OutcomeTyped
<1>4. QED  BY <1>1, <1>2, <1>3 DEF Miss

LEMMA FetchCellInv == PlanningInv /\ FetchCell => PlanningInv'
<1> SUFFICES ASSUME PlanningInv, FetchCell PROVE PlanningInv'
  OBVIOUS
<1>1. PlanningTypes /\ PlanAccounted
  BY DEF PlanningInv
<1> DEFINE cell == CHOOSE x \in pending : TRUE
<1>2. cell \in pending
  BY DEF FetchCell
<1>3. PICK permanent \in BOOLEAN :
        (\E path \in plan.chains[cell[1]] : Land(cell, path, permanent)) \/ Miss(cell, permanent)
  BY DEF FetchCell
<1>4. pending' = pending \ {cell} /\ UNCHANGED <<today, plan>>
  BY DEF FetchCell
<1> HIDE DEF cell
<1>5. HeldTyped' /\ streak' \in [Concepts \X Paths -> 0 .. SuppressMin]
  BY <1>1, <1>2, <1>3, LandTypes, MissTypes
<1>6. PlanningTypes'
  BY <1>1, <1>4, <1>5 DEF PlanningTypes, PlanTyped
<1>7. PlanAccounted'
  BY <1>1, <1>4 DEF PlanAccounted, Candidates
<1>8. QED  BY <1>6, <1>7 DEF PlanningInv

LEMMA PlanningStep == PlanningInv /\ [PlanningNext]_planningVars => PlanningInv'
<1> SUFFICES ASSUME PlanningInv, [PlanningNext]_planningVars PROVE PlanningInv'
  OBVIOUS
<1>1. PlanningTypes /\ PlanAccounted
  BY DEF PlanningInv
<1>2. ASSUME NEW p \in Policies, Plan(p) PROVE PlanningInv'
  BY <1>2, PlanInv
<1>3. CASE FetchCell
  BY <1>3, FetchCellInv
<1>4. ASSUME /\ UNCHANGED <<held, plan>>
             /\ today' \in Nat \ {0} /\ pending' \subseteq pending
             /\ streak' \in [Concepts \X Paths -> 0 .. SuppressMin]
      PROVE  PlanningInv'
  <2>1. HeldTyped'
    BY <1>1, <1>4 DEF HeldTyped, PlanningTypes
  <2>2. PlanningTypes'
    BY <1>1, <1>4, <2>1 DEF PlanningTypes, PlanTyped
  <2>3. PlanAccounted'
    BY <1>1, <1>4 DEF PlanAccounted, Candidates
  <2>4. QED  BY <2>2, <2>3 DEF PlanningInv
<1>5. CASE RunDies
  BY <1>1, <1>4, <1>5 DEF RunDies, PlanningTypes
<1>6. CASE Clear
  <2>1. PICK x \in DOMAIN streak : streak' = [streak EXCEPT ![x] = 0]
    BY <1>6 DEF Clear
  <2>2. 0 \in 0 .. SuppressMin
    BY PlanBounds
  <2>3. streak' \in [Concepts \X Paths -> 0 .. SuppressMin]
    BY <1>1, <2>1, <2>2 DEF PlanningTypes
  <2>4. QED  BY <1>1, <1>4, <1>6, <2>3 DEF Clear, PlanningTypes
<1>7. CASE NextDay
  BY <1>1, <1>4, <1>7 DEF NextDay, PlanningTypes
<1>8. CASE UNCHANGED planningVars
  BY <1>1, <1>4, <1>8 DEF planningVars, PlanningTypes
<1>9. QED  BY <1>2, <1>3, <1>5, <1>6, <1>7, <1>8 DEF PlanningNext

LEMMA PlanningInvariant == PlanningSpec => []PlanningInv
BY PlanningInitInv, PlanningStep, PTL DEF PlanningSpec

\* Days, streaks, plans and their cells keep their types.
THEOREM PlanningTypeCorrect == PlanningSpec => []PlanningTypes
<1>1. PlanningInv => PlanningTypes
  BY DEF PlanningInv
<1>2. QED  BY <1>1, PlanningInvariant, PTL

\* Whatever the ranking, the filters, the streaks and the watermarks, plan_crawl drops no
\* concept and no path without reporting it, and truncates only full chains.
THEOREM PlansAccountForAll == PlanningSpec => []PlanAccounted
<1>1. PlanningInv => PlanAccounted
  BY DEF PlanningInv
<1>2. QED  BY <1>1, PlanningInvariant, PTL

\* Whatever the plan and the cap, split_plan's work items cover its entities once.
THEOREM SplitsPartition == PlanningSpec => []SplitPartitions
<1>1. PlanningInv => SplitPartitions
  <2> SUFFICES ASSUME PlanningInv PROVE SplitPartitions
    OBVIOUS
  <2>1. PlanTyped(plan) /\ \A cap \in Caps : cap \in Nat
    BY PlanBounds DEF PlanningInv, PlanningTypes
  <2>2. QED  BY <2>1, ItemsPartition DEF SplitPartitions
<1>2. QED  BY <1>1, PlanningInvariant, PTL

--------------------------------------------------------------------------------
(* Holes behind a watermark                                                 *)

LastOf(pl) == Max({pl.start, pl.end})

Settled(p, c, e, d) == <<c, e, d>> \in lost \/ \E r \in Matching(p, c) : r.e = e /\ r.d = d

Awaited(c, e, d) == \E x \in pending : x[1] = c /\ e \in x[2] /\ x[3] = d

\* A watermark is no later than the plan; up to the end of the plan every period is
\* settled or awaited, and before its start it is settled.
Covered(p) ==
  \A c \in Concepts : base[c] # NoDate =>
    \A d \in base[c] .. LastOf(plan) : IsPeriod(c, d) =>
      \A e \in p.scope : /\ Settled(p, c, e, d) \/ Awaited(c, e, d)
                         /\ d < plan.start => Settled(p, c, e, d)

Advances(p) ==
  /\ plan.start > 0 /\ plan.end > 0
  /\ \E c \in p.concepts : Matching(p, c) # {} /\ \A r \in Matching(p, c) : r.d <= LastOf(plan)
  /\ \A x \in pending : x[3] \in 1 .. LastOf(plan)
  /\ Covered(p)

Followed(p) ==
  /\ \A r \in held : r.d > 0
  /\ plan.filter = p.filter /\ plan.scope = p.scope /\ plan.mode = p.mode
  /\ \A c \in DOMAIN plan.chains : base[c] # NoDate
  /\ \A c \in Concepts : base[c] # NoDate =>
       c \in p.concepts /\ base[c] \in Nat /\ plan.start # NoDate
  /\ plan.start # NoDate => Advances(p)

Unplanned ==
  /\ \A r \in held : r.d > 0
  /\ \A c \in Concepts : base[c] = NoDate
  /\ pending = {}

FollowInv ==
  /\ ran = {} => Unplanned
  /\ \A p \in Policies : ran = {p} /\ FollowsWatermark(p) => Followed(p)

LEMMA DayAndMonth ==
  ASSUME NEW x \in Int
  PROVE  /\ Month(x) \in Int
         /\ MonthLength * Month(x) <= x - 1 /\ x - 1 < MonthLength * (Month(x) + 1)
         /\ FirstDay(Month(x)) <= x /\ x < FirstDay(Month(x) + 1)
<1>1. MonthLength \in Nat \ {0} /\ x - 1 \in Int
  BY PlanBounds
<1>2. Month(x) \in Int /\ MonthLength * Month(x) <= x - 1
      /\ x - 1 < MonthLength * Month(x) + MonthLength
  BY <1>1, Quotient DEF Month
<1> DEFINE m == Month(x)
<1> HIDE DEF m
<1>3. m \in Int /\ MonthLength * m <= x - 1 /\ x - 1 < MonthLength * m + MonthLength
  BY <1>2 DEF m
<1>4. MonthLength * (m + 1) = MonthLength * m + MonthLength /\ MonthLength * m \in Int
  BY <1>1, <1>3
<1>5. MonthLength * m <= x - 1 /\ x - 1 < MonthLength * (m + 1)
  BY <1>3, <1>4
<1>6. FirstDay(m) = MonthLength * m + 1 /\ FirstDay(m + 1) = MonthLength * (m + 1) + 1
  BY <1>1, <1>3 DEF FirstDay
<1>7. FirstDay(m) <= x /\ x < FirstDay(m + 1)
  <2>1. \A a, b \in Int : a <= x - 1 /\ x - 1 < b => a + 1 <= x /\ x < b + 1
    OBVIOUS
  <2>2. MonthLength * m \in Int /\ MonthLength * (m + 1) \in Int
    BY <1>1, <1>3
  <2>3. MonthLength * m + 1 <= x /\ x < MonthLength * (m + 1) + 1
    BY <1>5, <2>1, <2>2
  <2>4. QED  BY <1>6, <2>3
<1>8. QED  BY <1>3, <1>5, <1>7 DEF m

\* The next period is later, and it is the first that is.
LEMMA NextIsLater ==
  ASSUME NEW x \in Int, NEW cadence
  PROVE  NextPeriodStart(x, cadence) \in Int /\ x < NextPeriodStart(x, cadence)
<1>1. Month(x) + 1 \in Int
  BY DayAndMonth
<1>2. FirstDay(Month(x) + 1) \in Int
  BY <1>1, MonthTyped
<1>3. QED  BY <1>2, DayAndMonth DEF NextPeriodStart

LEMMA NextIsFirst ==
  ASSUME NEW p \in Policies, FollowsWatermark(p), NEW c \in p.concepts,
         NEW x \in Int, NEW d \in Int, x < d, IsPeriod(c, d)
  PROVE  NextPeriodStart(x, p.cadence) <= d
<1>1. CASE p.cadence # "month"
  BY <1>1 DEF NextPeriodStart
<1>2. CASE p.cadence = "month"
  <2>1. d = FirstDay(Month(d))
    BY <1>2 DEF FollowsWatermark, IsPeriod
  <2>2. Month(d) \in Int /\ MonthLength \in Nat \ {0} /\ Month(x) \in Int
    BY MonthTyped, PlanBounds
  <2> DEFINE m == Month(d)
             k == Month(x)
  <2>3. k + 1 <= m
    <3>1. x - 1 < MonthLength * m
      <4> HIDE DEF m
      <4>1. d = m * MonthLength + 1 /\ m * MonthLength = MonthLength * m
        BY <2>1, <2>2 DEF m, FirstDay
      <4>2. MonthLength * m \in Int
        BY <2>2 DEF m
      <4>3. QED  BY <4>1, <4>2
    <3>2. k < m
      BY <2>2, <3>1, QuotientBelow DEF Month
    <3> HIDE DEF k, m
    <3>3. QED  BY <2>2, <3>2 DEF k, m
  <2> HIDE DEF k, m
  <2>4. MonthLength * (k + 1) <= MonthLength * m
    BY <2>2, <2>3, TimesGrows DEF k, m
  <2>5. /\ FirstDay(k + 1) = MonthLength * (k + 1) + 1
        /\ FirstDay(m) = MonthLength * m + 1
        /\ MonthLength * (k + 1) \in Int /\ MonthLength * m \in Int
    BY <2>2 DEF FirstDay, k, m
  <2>6. FirstDay(k + 1) <= d
    BY <2>1, <2>4, <2>5 DEF m
  <2>7. QED  BY <1>2, <2>6 DEF NextPeriodStart, k
<1>3. QED  BY <1>1, <1>2

\* The next period of a concept is one of its periods.
LEMMA NextIsPeriod ==
  ASSUME NEW c \in Concepts, NEW x \in Int
  PROVE  IsPeriod(c, NextPeriodStart(x, Cadence[c]))
<1> SUFFICES ASSUME Cadence[c] = "month"
             PROVE  FirstDay(Month(x) + 1) = FirstDay(Month(FirstDay(Month(x) + 1)))
  BY DEF IsPeriod, NextPeriodStart
<1> DEFINE m == Month(x) + 1
           d == FirstDay(m)
<1>1. m \in Int /\ MonthLength \in Nat \ {0}
  BY MonthTyped, PlanBounds
<1> HIDE DEF m
<1>2. d \in Int /\ d - 1 = MonthLength * m
  BY <1>1 DEF FirstDay
<1> HIDE DEF d
<1>3. Month(d) < m + 1
  <2>1. MonthLength * m \in Int /\ MonthLength * (m + 1) = MonthLength * m + MonthLength
    BY <1>1
  <2>2. d - 1 < MonthLength * (m + 1)
    BY <1>1, <1>2, <2>1
  <2>3. QED  BY <1>1, <1>2, <2>2, QuotientBelow DEF Month
<1>4. m <= Month(d)
  <2>1. MonthLength * m <= d - 1 /\ d - 1 \in Int
    BY <1>2
  <2>2. QED  BY <1>1, <2>1, QuotientAbove DEF Month
<1>5. Month(d) = m
  BY <1>1, <1>2, <1>3, <1>4, MonthTyped
<1>6. QED  BY <1>5 DEF d, m

LEMMA MatchingDates ==
  ASSUME HeldTyped, NEW p, NEW c
  PROVE  LET dates == {r.d : r \in Matching(p, c)} IN
         dates \in SUBSET Int /\ IsFiniteSet(dates)
<1> DEFINE R == Matching(p, c)
           f == [x \in R |-> x.d]
           dates == {r.d : r \in R}
<1>1. IsFiniteSet(R) /\ \A r \in R : r.d \in Int
  BY FS_Subset DEF HeldTyped, Matching
<1> HIDE DEF R
<1>2. IsFiniteSet({f[x] : x \in DOMAIN f})
  <2>1. IsFiniteSet(DOMAIN f)
    BY <1>1
  <2> HIDE DEF f
  <2>2. QED  BY <2>1, ImageOfFinite
<1>3. {f[x] : x \in DOMAIN f} = dates
  OBVIOUS
<1>4. dates \in SUBSET Int
  BY <1>1
<1> HIDE DEF f, dates
<1>5. dates \in SUBSET Int /\ IsFiniteSet(dates)
  BY <1>2, <1>3, <1>4
<1>6. QED  BY <1>5 DEF R, dates

\* A watermark is the last of the dates that its policy looks at.
LEMMA WatermarkIsLast ==
  ASSUME HeldTyped, NEW p, NEW c
  PROVE  /\ Matching(p, c) = {} => Watermark(c, p.filter) = NoDate
         /\ Matching(p, c) # {} =>
              /\ \E r \in Matching(p, c) : r.d = Watermark(c, p.filter)
              /\ \A r \in Matching(p, c) : r.d <= Watermark(c, p.filter)
<1> DEFINE dates == {r.d : r \in Matching(p, c)}
<1>1. dates \in SUBSET Int /\ IsFiniteSet(dates)
  BY MatchingDates
<1>2. Watermark(c, p.filter) = IF dates = {} THEN NoDate ELSE Max(dates)
  <2>1. Matching(p, c) =
          {x \in held : x.c = c /\ x.g = Cadence[c] /\ (p.filter = All \/ x.s \in p.filter)}
    BY DEF Matching
  <2>2. QED  BY <2>1 DEF Watermark
<1>3. dates = {} <=> Matching(p, c) = {}
  OBVIOUS
<1>4. dates # {} => Max(dates) \in dates /\ \A y \in dates : Max(dates) >= y
  <2> HIDE DEF dates
  <2>1. QED  BY <1>1, MaxOfFinite
<1>5. ASSUME Matching(p, c) # {}
      PROVE  /\ \E r \in Matching(p, c) : r.d = Watermark(c, p.filter)
             /\ \A r \in Matching(p, c) : r.d <= Watermark(c, p.filter)
  <2>1. Watermark(c, p.filter) = Max(dates) /\ Max(dates) \in dates
    BY <1>2, <1>3, <1>4, <1>5
  <2>2. \A y \in dates : y <= Max(dates)
    BY <1>1, <1>3, <1>4, <1>5
  <2>3. \A r \in Matching(p, c) : r.d \in dates
    OBVIOUS
  <2>4. \E r \in Matching(p, c) : r.d = Max(dates)
    BY <2>1
  <2> HIDE DEF dates
  <2>5. QED  BY <2>1, <2>2, <2>3, <2>4
<1>6. QED  BY <1>2, <1>3, <1>5

\* A plan starts one step after the earliest watermark, which is that of a concept.
LEMMA StartIsNext ==
  ASSUME HeldTyped, \A r \in held : r.d > 0, NEW p \in Policies, p.dates = "since_last",
         \E c \in p.concepts : Matching(p, c) # {}
  PROVE  \E w \in Int :
           /\ w > 0 /\ Start(p) = NextPeriodStart(w, p.cadence)
           /\ \E c \in p.concepts : Matching(p, c) # {} /\ \A r \in Matching(p, c) : r.d <= w
           /\ \A c \in p.concepts : Matching(p, c) # {} => w <= Watermark(c, p.filter)
<1> DEFINE W == Watermarks(p)
           f == [c \in p.concepts |-> Watermark(c, p.filter)]
<1>1. IsFiniteSet({f[x] : x \in DOMAIN f})
  <2>1. IsFiniteSet(DOMAIN f)
    BY PolicyAssumption
  <2> HIDE DEF f
  <2>2. QED  BY <2>1, ImageOfFinite
<1>2. {f[x] : x \in DOMAIN f} = {Watermark(c, p.filter) : c \in p.concepts}
  OBVIOUS
<1>3. W \in SUBSET Int /\ IsFiniteSet(W)
  <2>1. W \in SUBSET {f[x] : x \in DOMAIN f}
    BY <1>2 DEF Watermarks
  <2>2. W \subseteq Int
    BY WatermarkTyped DEF Watermarks
  <2> HIDE DEF f, W
  <2>3. QED  BY <1>1, <2>1, <2>2, FS_Subset
<1>4. ASSUME NEW c \in p.concepts
      PROVE  IF Matching(p, c) = {} THEN Watermark(c, p.filter) = NoDate
             ELSE Watermark(c, p.filter) \in W /\ Watermark(c, p.filter) > 0
  <2>1. CASE Matching(p, c) = {}
    BY <2>1, WatermarkIsLast
  <2>2. CASE Matching(p, c) # {}
    <3>1. PICK r \in Matching(p, c) : r.d = Watermark(c, p.filter)
      BY <2>2, WatermarkIsLast
    <3>2. r \in held
      BY DEF Matching
    <3>3. Watermark(c, p.filter) > 0 /\ Watermark(c, p.filter) \in Int
      BY <3>1, <3>2, WatermarkTyped
    <3>4. Watermark(c, p.filter) # NoDate
      BY <3>3 DEF NoDate
    <3>5. Watermark(c, p.filter) \in W
      BY <3>4 DEF Watermarks
    <3>6. QED  BY <2>2, <3>3, <3>5
  <2>3. QED  BY <2>1, <2>2
<1> HIDE DEF f
<1>5. W # {}
  BY <1>4
<1>6. Min(W) \in W /\ \A y \in W : Min(W) <= y
  <2> HIDE DEF W
  <2>1. QED  BY <1>3, <1>5, MinOfFinite
<1>7. PICK c \in p.concepts : Watermark(c, p.filter) = Min(W) /\ Min(W) # NoDate
  BY <1>6 DEF Watermarks
<1>8. Matching(p, c) # {} /\ Min(W) > 0
  BY <1>4, <1>7
<1>9. \A r \in Matching(p, c) : r.d <= Min(W)
  BY <1>7, <1>8, WatermarkIsLast
<1>10. Start(p) = NextPeriodStart(Min(W), p.cadence)
  BY <1>5 DEF Start
<1>11. \A cc \in p.concepts : Matching(p, cc) # {} => Min(W) <= Watermark(cc, p.filter)
  BY <1>4, <1>6
<1> HIDE DEF W
<1>12. Min(W) \in Int
  BY <1>3, <1>6
<1>13. QED  BY <1>8, <1>9, <1>10, <1>11, <1>12

\* Without anything to look at there is no start.
LEMMA NoStart ==
  ASSUME HeldTyped, NEW p \in Policies, p.dates = "since_last",
         \A c \in p.concepts : Matching(p, c) = {}
  PROVE  Start(p) = NoDate
<1>1. \A c \in p.concepts : Watermark(c, p.filter) = NoDate
  BY WatermarkIsLast
<1>2. Watermarks(p) = {}
  BY <1>1 DEF Watermarks
<1>3. QED  BY <1>2 DEF Start

\* The first day of a concept is not before the start of the plan that brings it.
LEMMA FirstIsCovered ==
  ASSUME HeldTyped, \A r \in held : r.d > 0, NEW p \in Policies, FollowsWatermark(p),
         NEW c \in p.concepts, NEW pl, c \in DOMAIN pl.chains, base[c] = NoDate,
         NEW w \in Int, w > 0, pl.start = NextPeriodStart(w, p.cadence),
         Matching(p, c) # {} => w <= Watermark(c, p.filter)
  PROVE  FirstCovered(p, c, pl) \in Nat /\ pl.start <= FirstCovered(p, c, pl)
<1> DEFINE dates == {r.d : r \in Matching(p, c)}
           last  == Max({NoDate} \cup dates)
<1>1. FirstCovered(p, c, pl) =
        IF last = NoDate THEN pl.start ELSE NextPeriodStart(last, Cadence[c])
  BY DEF FirstCovered
<1>2. /\ {NoDate} \cup dates \in SUBSET Int /\ IsFiniteSet({NoDate} \cup dates)
      /\ {NoDate} \cup dates # {}
  <2>1. dates \in SUBSET Int /\ IsFiniteSet(dates)
    BY MatchingDates
  <2> HIDE DEF dates
  <2>2. IsFiniteSet({NoDate}) /\ NoDate \in Int
    <3>1. IsFiniteSet({NoDate})
      BY FS_Singleton
    <3>2. QED  BY <3>1 DEF NoDate
  <2>3. IsFiniteSet({NoDate} \cup dates)
    BY <2>1, <2>2, FS_Union
  <2>4. QED  BY <2>1, <2>2, <2>3
<1>3. last \in {NoDate} \cup dates /\ \A y \in {NoDate} \cup dates : last >= y
  <2> HIDE DEF dates
  <2>1. QED  BY <1>2, MaxOfFinite
<1>4. pl.start \in Int /\ w < pl.start
  BY NextIsLater
<1>5. CASE last = NoDate
  BY <1>1, <1>4, <1>5
<1>6. CASE last # NoDate
  <2>1. last \in dates /\ last \in Int
    BY <1>2, <1>3, <1>6
  <2>2. Matching(p, c) # {}
    BY <2>1
  <2>3. PICK r \in Matching(p, c) : r.d = Watermark(c, p.filter)
    BY <2>2, WatermarkIsLast
  <2>4. Watermark(c, p.filter) <= last /\ Watermark(c, p.filter) \in Int
    <3>1. Watermark(c, p.filter) \in dates
      BY <2>3
    <3>2. QED  BY <1>3, <2>1, <3>1, WatermarkTyped
  <2> HIDE DEF last, dates
  <2>5. w <= last
    BY <2>1, <2>2, <2>4
  <2> DEFINE d == NextPeriodStart(last, Cadence[c])
  <2>6. d \in Int /\ last < d
    BY <2>1, NextIsLater
  <2>7. c \in Concepts
    BY PolicyAssumption
  <2>8. IsPeriod(c, d)
    BY <2>1, <2>7, NextIsPeriod
  <2> HIDE DEF d
  <2>9. w < d
    BY <2>1, <2>5, <2>6
  <2>10. NextPeriodStart(w, p.cadence) <= d
    BY <2>6, <2>8, <2>9, NextIsFirst
  <2>11. d \in Nat /\ pl.start <= d
    BY <1>4, <2>6, <2>9, <2>10
  <2>12. QED  BY <1>1, <1>6, <2>11 DEF d
<1>7. QED  BY <1>5, <1>6

\* A dated plan covers each period from its start to its end, and nothing else.
LEMMA ExpandCovers ==
  ASSUME NEW pl, PlanTyped(pl), pl.mode = "per_date", pl.start # NoDate, NEW c,
         NEW d \in Int, pl.start <= d, d <= LastOf(pl), IsPeriod(c, d)
  PROVE  d \in Expand(pl, c)
<1>1. pl.start \in Int /\ pl.end \in Int /\ ~OneDate(pl)
  BY DEF PlanTyped, OneDate
<1> DEFINE days == Min({pl.start, pl.end}) .. Max({pl.start, pl.end})
<1>2. d \in days
  <2>1. Min({pl.start, pl.end}) \in Int /\ Min({pl.start, pl.end}) <= pl.start
    BY <1>1, MinOfTwo
  <2>2. Max({pl.start, pl.end}) \in Int
    BY <1>1, MaxOfTwo
  <2>3. QED  BY <1>1, <2>1, <2>2 DEF LastOf
<1> HIDE DEF days
<1>3. Expand(pl, c) = IF Cadence[c] = "month" THEN {FirstDay(Month(x)) : x \in days} ELSE days
  BY <1>1 DEF Expand, days
<1>4. QED  BY <1>2, <1>3 DEF IsPeriod

LEMMA ExpandWithin ==
  ASSUME NEW pl, PlanTyped(pl), pl.mode = "per_date", pl.start > 0, pl.end > 0, NEW c,
         NEW d \in Expand(pl, c)
  PROVE  d \in 1 .. LastOf(pl)
<1>1. pl.start \in Int /\ pl.end \in Int /\ ~OneDate(pl)
  BY DEF PlanTyped, OneDate, NoDate
<1> DEFINE days == Min({pl.start, pl.end}) .. Max({pl.start, pl.end})
<1>2. days \subseteq 1 .. LastOf(pl)
  <2>1. Min({pl.start, pl.end}) \in Int /\ Min({pl.start, pl.end}) >= 1
    BY <1>1, MinOfTwo
  <2>2. Max({pl.start, pl.end}) \in Int
    BY <1>1, MaxOfTwo
  <2>3. QED  BY <2>1, <2>2 DEF LastOf
<1>3. LastOf(pl) \in Int
  BY <1>1, MaxOfTwo DEF LastOf
<1> HIDE DEF days
<1>4. Expand(pl, c) = IF Cadence[c] = "month" THEN {FirstDay(Month(x)) : x \in days} ELSE days
  BY <1>1 DEF Expand, days
<1>5. ASSUME NEW x \in days PROVE FirstDay(Month(x)) \in 1 .. LastOf(pl)
  <2>1. x \in Int /\ 1 <= x /\ x <= LastOf(pl)
    BY <1>2, <1>3
  <2>2. Month(x) \in Int /\ FirstDay(Month(x)) \in Int /\ FirstDay(Month(x)) <= x
    BY <2>1, DayAndMonth, MonthTyped
  <2>3. 0 <= Month(x)
    <3>1. MonthLength \in Nat \ {0} /\ x - 1 \in Int /\ MonthLength * 0 <= x - 1
      BY <2>1, PlanBounds
    <3>2. QED  BY <3>1, QuotientAbove DEF Month
  <2>4. MonthLength * 0 <= MonthLength * Month(x)
    BY <2>2, <2>3, PlanBounds, TimesGrows
  <2>5. FirstDay(Month(x)) = MonthLength * Month(x) + 1 /\ MonthLength * 0 = 0
    BY <2>2, PlanBounds DEF FirstDay
  <2>6. 1 <= FirstDay(Month(x))
    BY <2>2, <2>4, <2>5, PlanBounds
  <2>7. QED  BY <1>3, <2>1, <2>2, <2>6
<1>6. QED  BY <1>2, <1>4, <1>5

\* A plan awaits each of its entities on each of its dates, of the concepts that it
\* carries; of those that it refuses, they are lost.
LEMMA CellsCover ==
  ASSUME NEW pl, NEW c \in DOMAIN pl.chains, NEW e \in EntitiesOf(pl), NEW d \in Expand(pl, c)
  PROVE  \E x \in Cells(pl) : x[1] = c /\ e \in x[2] /\ x[3] = d
<1> DEFINE E == EntitiesOf(pl)
           groups == IF pl.snapshots[c] # {} THEN {E} ELSE {{y} : y \in E}
<1>1. \E G \in groups : e \in G
  OBVIOUS
<1> HIDE DEF groups
<1>2. PICK G \in groups : e \in G
  BY <1>1
<1>3. <<c, G, d>> \in {c} \X groups \X Expand(pl, c)
  BY <1>2
<1>4. <<c, G, d>> \in Cells(pl)
  BY <1>3 DEF Cells, groups
<1>5. <<c, G, d>>[1] = c /\ <<c, G, d>>[2] = G /\ <<c, G, d>>[3] = d
  OBVIOUS
<1>6. QED  BY <1>2, <1>4, <1>5

LEMMA CellsDates ==
  ASSUME NEW pl, NEW x \in Cells(pl)
  PROVE  \E c \in DOMAIN pl.chains : x[3] \in Expand(pl, c)
<1> DEFINE groups(c) == IF pl.snapshots[c] # {} THEN {EntitiesOf(pl)}
                        ELSE {{e} : e \in EntitiesOf(pl)}
<1>1. PICK c \in DOMAIN pl.chains : x \in {c} \X groups(c) \X Expand(pl, c)
  BY DEF Cells
<1> HIDE DEF groups
<1>2. x[3] \in Expand(pl, c)
  BY <1>1
<1>3. QED  BY <1>2

LEMMA RefusedAreLost ==
  ASSUME NEW pl, NEW c \in pl.unroutable, NEW e \in EntitiesOf(pl), NEW d \in Expand(pl, c)
  PROVE  <<c, e, d>> \in RefusedCells(pl)
BY DEF RefusedCells

\* What a plan takes over from the plan before: where it starts behind a day, the day
\* is behind the end of that plan too, and is settled.
LEMMA BehindIsSettled ==
  ASSUME PlanningInv, NEW p \in Policies, FollowsWatermark(p), Followed(p), Advances(p),
         pending = {}, NEW c \in p.concepts, base[c] # NoDate, NEW w \in Int,
         \A x \in p.concepts : Matching(p, x) # {} => w <= Watermark(x, p.filter),
         NEW d \in Int, base[c] <= d, IsPeriod(c, d), d < NextPeriodStart(w, p.cadence),
         NEW e \in p.scope
  PROVE  Settled(p, c, e, d)
<1>1. HeldTyped /\ PlanTyped(plan) /\ c \in Concepts
  BY PolicyAssumption DEF PlanningInv, PlanningTypes
<1>2. d <= w
  <2>1. ~(w < d)
    <3>1. SUFFICES ASSUME w < d PROVE FALSE
      OBVIOUS
    <3>2. NextPeriodStart(w, p.cadence) <= d
      BY <3>1, NextIsFirst
    <3>3. QED  BY <3>2, NextIsLater
  <2>2. QED  BY <2>1
<1>3. LastOf(plan) \in Int
  BY <1>1, MaxOfTwo DEF LastOf, PlanTyped
<1>4. w <= LastOf(plan)
  <2>1. PICK x \in p.concepts :
          Matching(p, x) # {} /\ \A r \in Matching(p, x) : r.d <= LastOf(plan)
    BY DEF Advances
  <2>2. PICK r \in Matching(p, x) : r.d = Watermark(x, p.filter)
    BY <1>1, <2>1, WatermarkIsLast
  <2>3. Watermark(x, p.filter) <= LastOf(plan) /\ w <= Watermark(x, p.filter)
    BY <2>1, <2>2
  <2>4. QED  BY <1>1, <1>3, <2>3, WatermarkTyped
<1>5. base[c] \in Nat
  BY <1>1 DEF Followed
<1>6. d \in base[c] .. LastOf(plan)
  BY <1>2, <1>3, <1>4, <1>5
<1>7. Settled(p, c, e, d) \/ Awaited(c, e, d)
  BY <1>1, <1>6 DEF Advances, Covered
<1>8. QED  BY <1>7 DEF Awaited

\* What is settled stays so.
LEMMA SettledStays ==
  ASSUME held \subseteq held', lost \subseteq lost',
         NEW p, NEW c, NEW e, NEW d, Settled(p, c, e, d)
  PROVE  Settled(p, c, e, d)'
BY DEF Settled, Matching

LEMMA PlanFollows ==
  ASSUME PlanningInv, FollowInv, NEW p \in Policies, Plan(p), ran' = {p}, FollowsWatermark(p)
  PROVE  Followed(p)'
<1>1. /\ plan' = PlanCrawl(p) /\ pending = {} /\ pending' = Cells(plan')
      /\ base' = [c \in Concepts |-> FirstCovered(p, c, plan')]
      /\ lost' = lost \cup RefusedCells(plan')
      /\ ran' = ran \cup {p} /\ UNCHANGED <<today, held, streak>>
  BY DEF Plan
<1>2. HeldTyped /\ today \in Nat \ {0} /\ PlanTyped(plan)
  BY DEF PlanningInv, PlanningTypes
<1>3. ran = {} \/ ran = {p}
  BY <1>1
<1>4. ran = {} => Unplanned
  BY DEF FollowInv
<1>5. ran = {p} => Followed(p)
  BY DEF FollowInv
<1>6. \A r \in held : r.d > 0
  BY <1>3, <1>4, <1>5 DEF Unplanned, Followed
<1>7. /\ p.dates = "since_last" /\ p.mode = "per_date" /\ p.scope # All
      /\ p.concepts \subseteq Concepts
  BY PolicyAssumption DEF FollowsWatermark
<1>8. /\ DOMAIN plan'.chains = Wanted(p) /\ plan'.unroutable = p.concepts \ Wanted(p)
      /\ plan'.scope = p.scope /\ plan'.mode = p.mode /\ plan'.filter = p.filter
      /\ plan'.start = Start(p) /\ plan'.end = today
  <2>1. PlanCrawl(p).chains = [c \in Wanted(p) |-> Chain(c, p)]
    BY PlanFields
  <2>2. DOMAIN PlanCrawl(p).chains = Wanted(p)
    BY <2>1
  <2>3. QED  BY <1>1, <2>2, PlanFields
<1>9. Wanted(p) \subseteq p.concepts
  BY DEF Wanted
<1>10. PlanTyped(plan')
  BY <1>1, <1>2, PlanTypes
<1>11. EntitiesOf(plan') = p.scope
  BY <1>7, <1>8 DEF EntitiesOf
<1>12. \A c \in Concepts : base'[c] = FirstCovered(p, c, plan')
  BY <1>1
<1>13. \A c \in Concepts : base[c] # NoDate => base'[c] = base[c] /\ c \in p.concepts
                                               /\ Followed(p) /\ Advances(p)
  BY <1>3, <1>4, <1>5, <1>12 DEF Unplanned, Followed, FirstCovered
<1>14. CASE \A c \in p.concepts : Matching(p, c) = {}
  <2>1. Start(p) = NoDate
    BY <1>2, <1>7, <1>14, NoStart
  <2>2. Wanted(p) = {}
    BY <1>7, <2>1 DEF Wanted, Barren
  <2>3. \A c \in Concepts : base[c] = NoDate
    BY <1>13, <1>14 DEF Advances
  <2>4. \A c \in Concepts : base'[c] = NoDate
    BY <1>8, <1>12, <2>2, <2>3 DEF FirstCovered
  <2>5. QED  BY <1>1, <1>6, <1>8, <2>1, <2>2, <2>4 DEF Followed
<1>15. CASE \E c \in p.concepts : Matching(p, c) # {}
  <2>1. PICK w \in Int :
          /\ w > 0 /\ Start(p) = NextPeriodStart(w, p.cadence)
          /\ \E c \in p.concepts : Matching(p, c) # {} /\ \A r \in Matching(p, c) : r.d <= w
          /\ \A c \in p.concepts : Matching(p, c) # {} => w <= Watermark(c, p.filter)
    BY <1>2, <1>6, <1>7, <1>15, StartIsNext
  <2>2. plan'.start \in Int /\ w < plan'.start /\ plan'.end \in Int
    BY <1>2, <1>8, <2>1, NextIsLater
  <2>3. plan'.start > 0 /\ plan'.start # NoDate /\ plan'.end > 0
    BY <1>2, <1>8, <2>1, <2>2 DEF NoDate
  <2>4. LastOf(plan') \in Int /\ plan'.start <= LastOf(plan')
    BY <2>2, MaxOfTwo DEF LastOf
  <2>5. ASSUME NEW c \in Concepts, base[c] = NoDate, c \in DOMAIN plan'.chains
        PROVE  base'[c] \in Nat /\ plan'.start <= base'[c]
    <3>1. c \in p.concepts
      BY <1>8, <1>9, <2>5
    <3>2. plan'.start = NextPeriodStart(w, p.cadence)
      BY <1>8, <2>1
    <3>3. FirstCovered(p, c, plan') \in Nat /\ plan'.start <= FirstCovered(p, c, plan')
      BY <1>2, <1>6, <2>1, <2>5, <3>1, <3>2, FirstIsCovered
    <3>4. QED  BY <1>12, <3>3
  <2>6. ASSUME NEW c \in Concepts, base[c] = NoDate, c \notin DOMAIN plan'.chains
        PROVE  base'[c] = NoDate
    BY <1>12, <2>6 DEF FirstCovered
  <2>7. \A c \in Concepts : base'[c] # NoDate => c \in p.concepts /\ base'[c] \in Nat
    BY <1>8, <1>9, <1>13, <2>5, <2>6 DEF Followed
  <2>8. \A c \in DOMAIN plan'.chains : base'[c] # NoDate
    <3>1. SUFFICES ASSUME NEW c \in DOMAIN plan'.chains PROVE base'[c] # NoDate
      OBVIOUS
    <3>2. c \in Concepts
      BY <1>7, <1>8, <1>9
    <3>3. CASE base[c] # NoDate
      BY <1>13, <3>2, <3>3
    <3>4. CASE base[c] = NoDate
      BY <2>2, <2>3, <2>5, <3>2, <3>4 DEF NoDate
    <3>5. QED  BY <3>3, <3>4
  <2>9. \E c \in p.concepts :
          Matching(p, c)' # {} /\ \A r \in Matching(p, c)' : r.d <= LastOf(plan')
    <3>1. PICK c \in p.concepts : Matching(p, c) # {} /\ \A r \in Matching(p, c) : r.d <= w
      BY <2>1
    <3>2. Matching(p, c)' = Matching(p, c)
      BY <1>1 DEF Matching
    <3>3. \A r \in Matching(p, c) : r.d \in Int
      BY <1>2 DEF Matching, HeldTyped
    <3>4. QED  BY <2>2, <2>4, <3>1, <3>2, <3>3
  <2>10. \A x \in pending' : x[3] \in 1 .. LastOf(plan')
    BY <1>1, <1>7, <1>8, <1>10, <2>3, CellsDates, ExpandWithin
  <2>11. ASSUME NEW c \in Concepts, base'[c] # NoDate, NEW d \in base'[c] .. LastOf(plan'),
                IsPeriod(c, d), NEW e \in p.scope
         PROVE  /\ Settled(p, c, e, d)' \/ Awaited(c, e, d)'
                /\ d < plan'.start => Settled(p, c, e, d)'
    <3>1. d \in Int /\ base'[c] <= d /\ d <= LastOf(plan') /\ c \in p.concepts
      BY <2>4, <2>7, <2>11
    <3>2. CASE plan'.start <= d
      <4>1. d \in Expand(plan', c)
        BY <1>7, <1>8, <1>10, <2>3, <2>11, <3>1, <3>2, ExpandCovers
      <4>2. CASE c \in Wanted(p)
        <5>1. \E x \in Cells(plan') : x[1] = c /\ e \in x[2] /\ x[3] = d
          BY <1>8, <1>11, <4>1, <4>2, CellsCover
        <5>2. Awaited(c, e, d)'
          BY <1>1, <5>1 DEF Awaited
        <5>3. QED  BY <2>2, <3>1, <3>2, <5>2
      <4>3. CASE c \notin Wanted(p)
        <5>1. <<c, e, d>> \in RefusedCells(plan')
          BY <1>8, <1>11, <3>1, <4>1, <4>3, RefusedAreLost
        <5>2. Settled(p, c, e, d)'
          BY <1>1, <5>1 DEF Settled
        <5>3. QED  BY <5>2
      <4>4. QED  BY <4>2, <4>3
    <3>3. CASE d < plan'.start
      <4>1. base[c] # NoDate
        BY <2>2, <2>5, <2>6, <2>11, <3>1, <3>3
      <4>2. base[c] <= d /\ Followed(p) /\ Advances(p)
        BY <1>13, <3>1, <4>1
      <4>3. d < NextPeriodStart(w, p.cadence)
        BY <1>8, <2>1, <3>3
      <4>4. Settled(p, c, e, d)
        BY <1>1, <2>1, <2>11, <3>1, <4>1, <4>2, <4>3, BehindIsSettled
      <4>5. Settled(p, c, e, d)'
        BY <1>1, <4>4, SettledStays
      <4>6. QED  BY <4>5
    <3>4. QED  BY <2>2, <3>1, <3>2, <3>3
  <2>12. Covered(p)'
    BY <2>11 DEF Covered
  <2>13. Advances(p)'
    BY <2>3, <2>9, <2>10, <2>12 DEF Advances
  <2>14. QED  BY <1>1, <1>6, <1>8, <2>3, <2>7, <2>8, <2>13 DEF Followed
<1>16. QED  BY <1>14, <1>15

\* Between two plans: what is fetched lies within the plan, and no cell is let go
\* that is not settled.
LEMMA KeepsFollowing ==
  ASSUME NEW p, Followed(p), UNCHANGED <<plan, base>>,
         held \subseteq held', lost \subseteq lost', pending' \subseteq pending,
         \A r \in held' \ held : r.d > 0 /\ r.d <= LastOf(plan),
         \A x \in pending \ pending' : \A e \in x[2] : Settled(p, x[1], e, x[3])'
  PROVE  Followed(p)'
<1>1. \A r \in held' : r.d > 0
  BY DEF Followed
<1>2. ASSUME Advances(p) PROVE Advances(p)'
  <2>1. PICK c \in p.concepts : Matching(p, c) # {} /\ \A r \in Matching(p, c) : r.d <= LastOf(plan)
    BY <1>2 DEF Advances
  <2>2. Matching(p, c)' # {} /\ \A r \in Matching(p, c)' : r.d <= LastOf(plan)
    BY <2>1 DEF Matching
  <2>3. ASSUME NEW cc \in Concepts, base[cc] # NoDate, NEW d \in base[cc] .. LastOf(plan),
               IsPeriod(cc, d), NEW e \in p.scope
        PROVE  /\ Settled(p, cc, e, d)' \/ Awaited(cc, e, d)'
               /\ d < plan.start => Settled(p, cc, e, d)'
    <3>1. /\ Settled(p, cc, e, d) \/ Awaited(cc, e, d)
          /\ d < plan.start => Settled(p, cc, e, d)
      BY <1>2, <2>3 DEF Advances, Covered
    <3>2. Settled(p, cc, e, d) => Settled(p, cc, e, d)'
      BY SettledStays
    <3>3. ASSUME Awaited(cc, e, d) PROVE Settled(p, cc, e, d)' \/ Awaited(cc, e, d)'
      <4>1. PICK x \in pending : x[1] = cc /\ e \in x[2] /\ x[3] = d
        BY <3>3 DEF Awaited
      <4>2. CASE x \in pending'
        BY <4>1, <4>2 DEF Awaited
      <4>3. CASE x \notin pending'
        <5>1. Settled(p, x[1], e, x[3])'
          BY <4>1, <4>3
        <5>2. QED  BY <4>1, <5>1
      <4>4. QED  BY <4>2, <4>3
    <3>4. QED  BY <3>1, <3>2, <3>3
  <2>4. Covered(p)'
    BY <2>3 DEF Covered
  <2>5. \A x \in pending' : x[3] \in 1 .. LastOf(plan)
    BY <1>2 DEF Advances
  <2>6. QED  BY <1>2, <2>2, <2>4, <2>5 DEF Advances
<1>3. QED  BY <1>1, <1>2 DEF Followed

LEMMA FetchFollows ==
  ASSUME PlanningInv, NEW p \in Policies, FollowsWatermark(p), Followed(p), FetchCell
  PROVE  Followed(p)'
<1>1. PICK cell \in pending :
        /\ \E permanent \in BOOLEAN :
             (\E path \in plan.chains[cell[1]] : Land(cell, path, permanent)) \/ Miss(cell, permanent)
        /\ pending' = pending \ {cell}
  BY DEF FetchCell
<1>2. PICK permanent \in BOOLEAN :
        (\E path \in plan.chains[cell[1]] : Land(cell, path, permanent)) \/ Miss(cell, permanent)
  BY <1>1
<1>3. pending' = pending \ {cell} /\ UNCHANGED <<plan, base>>
  BY <1>1 DEF FetchCell
<1> DEFINE c == cell[1]
           d == cell[3]
<1>4. c \in DOMAIN plan.chains /\ PlanTyped(plan)
  BY <1>1 DEF PlanningInv, PlanningTypes
<1>5. Advances(p)
  BY <1>4 DEF Followed, PlanTyped
<1>6. d \in 1 .. LastOf(plan) /\ LastOf(plan) \in Int
  BY <1>1, <1>4, <1>5, MaxOfTwo DEF Advances, LastOf, PlanTyped
<1>7. d # NoDate /\ d > 0 /\ d <= LastOf(plan)
  BY <1>6 DEF NoDate
<1>8. CASE Miss(cell, permanent)
  <2>1. held' = held /\ lost' = lost \cup {<<c, e, d>> : e \in cell[2]}
    BY <1>8 DEF Miss
  <2>2. \A e \in cell[2] : Settled(p, c, e, d)'
    BY <2>1 DEF Settled
  <2>3. QED  BY <1>3, <2>1, <2>2, KeepsFollowing
<1>9. ASSUME NEW path \in plan.chains[c], Land(cell, path, permanent)
      PROVE  Followed(p)'
  <2> DEFINE known(e) == <<e, SourceOf[path]>> \in Identified
             row(e)   == [c |-> c, e |-> e, d |-> d, g |-> Cadence[c], s |-> SourceOf[path]]
  <2>1. held' = held \cup {row(e) : e \in {x \in cell[2] : known(x)}}
    <3>1. held' = held \cup {[c |-> c, e |-> e, d |-> dd, g |-> Cadence[c], s |-> SourceOf[path]] :
                               e \in {x \in cell[2] : known(x)}, dd \in {d}}
      BY <1>7, <1>9 DEF Land
    <3> HIDE DEF c, d
    <3>2. {[c |-> c, e |-> e, d |-> dd, g |-> Cadence[c], s |-> SourceOf[path]] :
             e \in {x \in cell[2] : known(x)}, dd \in {d}} = {row(e) : e \in {x \in cell[2] : known(x)}}
      OBVIOUS
    <3>3. QED  BY <3>1, <3>2
  <2>2. lost' = lost \cup {<<c, e, d>> : e \in {x \in cell[2] : ~known(x)}}
    <3>1. lost' = lost \cup {<<c, e, dd>> : e \in {x \in cell[2] : ~known(x)}, dd \in {d}}
      BY <1>7, <1>9 DEF Land
    <3> HIDE DEF c, d, known
    <3>2. {<<c, e, dd>> : e \in {x \in cell[2] : ~known(x)}, dd \in {d}} =
            {<<c, e, d>> : e \in {x \in cell[2] : ~known(x)}}
      OBVIOUS
    <3>3. QED  BY <3>1, <3>2
  <2>3. p.filter = All \/ SourceOf[path] \in p.filter
    <3>1. path \in Candidates(c, plan)
      BY <1>4, <1>9 DEF PlanningInv, PlanAccounted
    <3>2. plan.filter = p.filter
      BY DEF Followed
    <3>3. QED  BY <3>1, <3>2 DEF Candidates
  <2> HIDE DEF c, d, known
  <2>4. ASSUME NEW e \in cell[2] PROVE Settled(p, c, e, d)'
    <3>1. CASE known(e)
      <4>1. row(e) \in held'
        BY <2>1, <3>1
      <4>2. row(e).c = c /\ row(e).e = e /\ row(e).d = d /\ row(e).g = Cadence[c]
            /\ row(e).s = SourceOf[path]
        OBVIOUS
      <4> HIDE DEF row
      <4>3. row(e) \in Matching(p, c)'
        BY <2>3, <4>1, <4>2 DEF Matching
      <4>4. QED  BY <4>2, <4>3 DEF Settled
    <3>2. CASE ~known(e)
      <4>1. <<c, e, d>> \in lost'
        BY <2>2, <3>2
      <4>2. QED  BY <4>1 DEF Settled
    <3>3. QED  BY <3>1, <3>2
  <2>5. \A r \in held' \ held : r.d > 0 /\ r.d <= LastOf(plan)
    <3>1. \A r \in held' \ held : r.d = d
      BY <2>1
    <3>2. QED  BY <1>7, <3>1 DEF d
  <2>6. \A x \in pending \ pending' : x[1] = c /\ x[3] = d /\ x[2] = cell[2]
    BY <1>3 DEF c, d
  <2>7. QED  BY <1>3, <2>1, <2>2, <2>4, <2>5, <2>6, KeepsFollowing
<1>10. QED  BY <1>2, <1>8, <1>9

LEMMA FollowInit == PlanningInit => FollowInv
<1> SUFFICES ASSUME PlanningInit PROVE FollowInv
  OBVIOUS
<1>1. ran = {} /\ pending = {} /\ \A c \in Concepts : base[c] = NoDate
  BY DEF PlanningInit
<1>2. \A r \in held : r.d > 0
  BY FoundAssumption DEF PlanningInit
<1>3. QED  BY <1>1, <1>2 DEF FollowInv, Unplanned

LEMMA FollowStep == PlanningInv /\ FollowInv /\ [PlanningNext]_planningVars => FollowInv'
<1> SUFFICES ASSUME PlanningInv, FollowInv, [PlanningNext]_planningVars PROVE FollowInv'
  OBVIOUS
<1>1. ASSUME NEW q \in Policies, Plan(q) PROVE FollowInv'
  <2>1. ran' = ran \cup {q}
    BY <1>1 DEF Plan
  <2>2. ASSUME NEW p \in Policies, ran' = {p}, FollowsWatermark(p) PROVE Followed(p)'
    <3>1. p = q
      BY <2>1, <2>2
    <3>2. QED  BY <1>1, <2>2, <3>1, PlanFollows
  <2>3. QED  BY <2>1, <2>2 DEF FollowInv, FollowsWatermark
<1>2. CASE FetchCell
  <2>1. ran' = ran /\ pending # {}
    BY <1>2 DEF FetchCell
  <2>2. ran # {}
    BY <2>1 DEF FollowInv, Unplanned
  <2>3. QED  BY <1>2, <2>1, <2>2, FetchFollows DEF FollowInv, FollowsWatermark
<1>3. CASE RunDies
  <2>1. /\ ran' = ran /\ pending # {} /\ pending' = {}
        /\ lost' = lost \cup UNION {{<<cell[1], e, cell[3]>> : e \in cell[2]} : cell \in pending}
        /\ UNCHANGED <<held, plan, base>>
    BY <1>3 DEF RunDies
  <2>2. ran # {}
    BY <2>1 DEF FollowInv, Unplanned
  <2>3. ASSUME NEW x \in pending, NEW e \in x[2] PROVE <<x[1], e, x[3]>> \in lost'
    BY <2>1
  <2>4. ASSUME NEW p \in Policies, ran = {p}, FollowsWatermark(p) PROVE Followed(p)'
    <3>1. Followed(p)
      BY <2>4 DEF FollowInv
    <3>2. \A x \in pending : \A e \in x[2] : Settled(p, x[1], e, x[3])'
      BY <2>3 DEF Settled
    <3>3. held \subseteq held' /\ held' \ held = {} /\ lost \subseteq lost'
      BY <2>1
    <3>4. QED  BY <2>1, <3>1, <3>2, <3>3, KeepsFollowing
  <2>5. QED  BY <2>1, <2>2, <2>4 DEF FollowInv, FollowsWatermark
<1>4. ASSUME UNCHANGED <<held, plan, pending, ran, base, lost>> PROVE FollowInv'
  <2>1. Unplanned => Unplanned'
    BY <1>4 DEF Unplanned
  <2>2. ASSUME NEW p, Followed(p) PROVE Followed(p)'
    BY <1>4, <2>2, KeepsFollowing
  <2>3. QED  BY <1>4, <2>1, <2>2 DEF FollowInv, FollowsWatermark
<1>5. CASE Clear
  BY <1>4, <1>5 DEF Clear
<1>6. CASE NextDay
  BY <1>4, <1>6 DEF NextDay
<1>7. CASE UNCHANGED planningVars
  BY <1>4, <1>7 DEF planningVars
<1>8. QED  BY <1>1, <1>2, <1>3, <1>5, <1>6, <1>7 DEF PlanningNext

\* Whatever fails, dies, is refused or is suppressed, where a since_last policy alone feeds
\* its concepts no period falls behind the start of a plan that no plan was to fetch.
THEOREM HolesAreExplained == PlanningSpec => []HolesExplained
<1>1. PlanningInv /\ FollowInv => HolesExplained
  <2> SUFFICES ASSUME PlanningInv, FollowInv,
                      NEW p \in Policies, ran = {p}, FollowsWatermark(p),
                      NEW c \in DOMAIN plan.chains, NEW d \in base[c] .. plan.start - 1,
                      IsPeriod(c, d), NEW e \in EntitiesOf(plan)
               PROVE  Settled(p, c, e, d)
    BY DEF HolesExplained, Settled
  <2>1. Followed(p) /\ PlanTyped(plan) /\ c \in Concepts
    BY DEF FollowInv, PlanningInv, PlanningTypes, PlanTyped
  <2>2. base[c] # NoDate /\ base[c] \in Nat /\ Advances(p)
    BY <2>1 DEF Followed
  <2>3. e \in p.scope
    BY <2>1 DEF Followed, FollowsWatermark, EntitiesOf
  <2>4. /\ plan.start \in Int /\ LastOf(plan) \in Int /\ plan.start <= LastOf(plan)
    BY <2>1, MaxOfTwo DEF PlanTyped, LastOf
  <2>5. d \in base[c] .. LastOf(plan) /\ d < plan.start
    BY <2>2, <2>4
  <2>6. QED  BY <2>1, <2>2, <2>3, <2>5 DEF Advances, Covered
<1>2. PlanningSpec => []FollowInv
  <2>1. PlanningInit => PlanningInv /\ FollowInv
    BY PlanningInitInv, FollowInit
  <2>2. PlanningInv /\ FollowInv /\ [PlanningNext]_planningVars => (PlanningInv /\ FollowInv)'
    BY PlanningStep, FollowStep
  <2>3. QED  BY <2>1, <2>2, PTL DEF PlanningSpec
<1>3. QED  BY <1>1, <1>2, PlanningInvariant, PTL

--------------------------------------------------------------------------------
(* Waves of the expander                                                    *)

Groups   == {Kind[c] : c \in Routable} \X {"never", "stale", "fresh"}
Statuses == {"planned", "running", "verifying", "paused", "done", "aborted"}
WaveRows == [group : Groups, concepts : SUBSET Routable, status : Statuses]
RunsHow  == {"none", "refused", "deleted", "running", "good", "bad"}
PolicyRuns == UNION {[D -> RunsHow] : D \in SUBSET Nat}

\* A wave that keeps others of its group from being planned.
Live == Active \cup Paused

ExpanderTypes ==
  /\ coverage \in [Routable -> {"never", "stale", "fresh"}]
  /\ waves \in Seq(WaveRows)
  /\ latest \in Seq(PolicyRuns) /\ Len(latest) = Len(waves)
  /\ landed \in Seq(BOOLEAN) /\ Len(landed) = Len(waves)
  /\ lock \in Ticks \cup {Nobody}
  /\ stage \in [Ticks -> {"idle", "drive", "launch"}]
  /\ toDrive \in [Ticks -> SUBSET (DOMAIN waves)]
  /\ unlaunched \in [Ticks -> SUBSET Nat]
  /\ excluded \in [Ticks -> SUBSET Groups]
  /\ tried \in SUBSET (Nat \X Nat)

\* Who is past Start holds the lock, plans for no group that has a live wave, and
\* finds the wave it launches live until it has done with it.
Driving ==
  \A t \in Ticks :
    /\ stage[t] # "idle" => lock = t /\ GroupsOf(Live) \subseteq excluded[t]
    /\ stage[t] = "launch" => /\ toDrive[t] # {} /\ Wave(t) \in Active
                              /\ unlaunched[t] \subseteq PoliciesOf(Wave(t))

RunsAreTried ==
  \A w \in DOMAIN waves : \A i \in PoliciesOf(w) :
    latest[w][i] \in {"running", "good", "bad"} => <<w, i>> \in tried

ExpanderInv ==
  ExpanderTypes /\ Driving /\ OneWavePerGroup /\ RunsAreTried /\ JudgedWhenTried

LEMMA GroupIsGroup ==
  ASSUME ExpanderTypes, NEW c \in Routable
  PROVE  Group(c) \in Groups
BY ConceptAssumption DEF ExpanderTypes, Group, Groups

\* The wave a tick is at is a wave.
LEMMA WaveOfTick ==
  ASSUME ExpanderTypes, NEW t \in Ticks, toDrive[t] # {}
  PROVE  Wave(t) \in DOMAIN waves /\ Wave(t) \in toDrive[t]
<1>1. toDrive[t] \in SUBSET (DOMAIN waves) /\ DOMAIN waves = 1 .. Len(waves)
  BY DEF ExpanderTypes
<1>2. toDrive[t] \in SUBSET Nat
  BY <1>1 DEF ExpanderTypes
<1>3. QED  BY <1>1, <1>2, MinOfSet DEF Wave

\* The status of one wave changes, and nothing else of any.
LEMMA StatusChanges ==
  ASSUME ExpanderTypes, NEW w \in DOMAIN waves, NEW s \in Statuses,
         waves' = [waves EXCEPT ![w].status = s]
  PROVE  /\ waves' \in Seq(WaveRows) /\ Len(waves') = Len(waves) /\ DOMAIN waves' = DOMAIN waves
         /\ \A v \in DOMAIN waves : /\ waves'[v].group = waves[v].group
                                    /\ waves'[v].status = IF v = w THEN s ELSE waves[v].status
<1>1. waves \in Seq(WaveRows) /\ waves[w] \in WaveRows
  BY DEF ExpanderTypes
<1>2. [waves[w] EXCEPT !.status = s] \in WaveRows
  BY <1>1 DEF WaveRows
<1>3. waves' = [waves EXCEPT ![w] = [waves[w] EXCEPT !.status = s]]
  OBVIOUS
<1>4. waves' \in Seq(WaveRows) /\ Len(waves') = Len(waves) /\ DOMAIN waves' = DOMAIN waves
  BY <1>1, <1>2, <1>3
<1>5. ASSUME NEW v \in DOMAIN waves
      PROVE  /\ waves'[v].group = waves[v].group
             /\ waves'[v].status = IF v = w THEN s ELSE waves[v].status
  <2>1. waves[v] \in WaveRows
    BY <1>1
  <2>2. QED  BY <1>1, <1>3, <2>1 DEF WaveRows
<1>6. QED  BY <1>4, <1>5

\* While no wave becomes live, no group gets a second one.
LEMMA LiveShrinks ==
  ASSUME OneWavePerGroup, DOMAIN waves' = DOMAIN waves, Live' \subseteq Live,
         \A v \in DOMAIN waves : waves'[v].group = waves[v].group
  PROVE  OneWavePerGroup' /\ GroupsOf(Live)' \subseteq GroupsOf(Live)
<1>1. OneWavePerGroup'
  BY DEF OneWavePerGroup, Live, Active, Paused
<1>2. GroupsOf(Live)' \subseteq GroupsOf(Live)
  BY DEF GroupsOf, Live, Active, Paused
<1>3. QED  BY <1>1, <1>2

\* One status changes, of a wave that was live or does not become so.
LEMMA LiveChanges ==
  ASSUME ExpanderTypes, OneWavePerGroup, NEW w \in DOMAIN waves, NEW s \in Statuses,
         waves' = [waves EXCEPT ![w].status = s], w \in Live
  PROVE  OneWavePerGroup' /\ GroupsOf(Live)' \subseteq GroupsOf(Live)
<1>1. Live' \subseteq Live
  BY StatusChanges DEF Live, Active, Paused
<1>2. QED  BY <1>1, LiveShrinks, StatusChanges

\* The holder of the lock is the only tick that is past Start.
LEMMA OthersAreIdle ==
  ASSUME ExpanderInv, NEW t \in Ticks, stage[t] # "idle", NEW u \in Ticks, u # t
  PROVE  stage[u] = "idle"
BY DEF ExpanderInv, Driving

\* What the holder of the lock does keeps Driving if it holds of the holder.
LEMMA HolderDrives ==
  ASSUME ExpanderInv, NEW t \in Ticks, stage[t] # "idle", lock' = lock,
         \A u \in Ticks \ {t} : stage'[u] = stage[u],
         GroupsOf(Live)' \subseteq excluded'[t],
         stage'[t] = "launch" => /\ toDrive'[t] # {} /\ Wave(t)' \in Active'
                                 /\ unlaunched'[t] \subseteq PoliciesOf(Wave(t))'
  PROVE  Driving'
<1> SUFFICES ASSUME NEW u \in Ticks
             PROVE  /\ stage'[u] # "idle" => lock' = u /\ GroupsOf(Live)' \subseteq excluded'[u]
                    /\ stage'[u] = "launch" =>
                         /\ toDrive'[u] # {} /\ Wave(u)' \in Active'
                         /\ unlaunched'[u] \subseteq PoliciesOf(Wave(u))'
  BY DEF Driving
<1>1. lock = t
  BY DEF ExpanderInv, Driving
<1>2. CASE u = t
  BY <1>1, <1>2
<1>3. CASE u # t
  <2>1. stage[u] = "idle" /\ stage'[u] = "idle"
    BY <1>3, OthersAreIdle
  <2>2. QED  BY <2>1
<1>4. QED  BY <1>2, <1>3

\* Runs that were tried stay so, while nothing is launched.
LEMMA NothingLaunched ==
  ASSUME ExpanderInv, DOMAIN waves' = DOMAIN waves, latest' = latest, tried' = tried
  PROVE  RunsAreTried'
BY DEF ExpanderInv, RunsAreTried, PoliciesOf

\* Waves that are judged stay so, while waves are left alone.
LEMMA JudgedBefore ==
  ASSUME ExpanderInv, waves' = waves, tried \subseteq tried',
         \A w \in DOMAIN waves : DOMAIN latest'[w] = DOMAIN latest[w]
  PROVE  JudgedWhenTried'
BY DEF ExpanderInv, JudgedWhenTried, PoliciesOf

LEMMA StartInv ==
  ASSUME ExpanderInv, NEW t \in Ticks, TickStarts(t)
  PROVE  ExpanderInv'
<1>1. ExpanderTypes /\ UNCHANGED <<coverage, waves, latest, landed, unlaunched, tried>>
  BY DEF ExpanderInv, TickStarts
<1>2. /\ lock = Nobody /\ lock' = t
      /\ stage' = [stage EXCEPT ![t] = "drive"]
      /\ toDrive' = [toDrive EXCEPT ![t] = Active]
      /\ excluded' = [excluded EXCEPT ![t] = GroupsOf(Paused \cup Active)]
  BY DEF TickStarts, MayStart
<1>3. GroupsOf(Paused \cup Active) = GroupsOf(Live) /\ GroupsOf(Live)' = GroupsOf(Live)
  BY <1>1 DEF GroupsOf, Live, Active, Paused
<1>4. GroupsOf(Live) \subseteq Groups
  <2>1. \A w \in Live : waves[w] \in WaveRows
    BY <1>1 DEF ExpanderTypes, Live, Active, Paused
  <2>2. QED  BY <2>1 DEF GroupsOf, WaveRows
<1>5. ExpanderTypes'
  <2>1. /\ lock' \in Ticks \cup {Nobody}
        /\ stage' \in [Ticks -> {"idle", "drive", "launch"}]
        /\ toDrive' \in [Ticks -> SUBSET (DOMAIN waves)]
        /\ excluded' \in [Ticks -> SUBSET Groups]
    BY <1>1, <1>2, <1>3, <1>4 DEF ExpanderTypes, Active
  <2>2. QED  BY <1>1, <2>1 DEF ExpanderTypes
<1>6. Driving'
  <2> SUFFICES ASSUME NEW u \in Ticks
               PROVE  /\ stage'[u] # "idle" => lock' = u /\ GroupsOf(Live)' \subseteq excluded'[u]
                      /\ stage'[u] = "launch" =>
                         /\ toDrive'[u] # {} /\ Wave(u)' \in Active'
                         /\ unlaunched'[u] \subseteq PoliciesOf(Wave(u))'
    BY DEF Driving
  <2>1. stage \in [Ticks -> {"idle", "drive", "launch"}] /\ excluded \in [Ticks -> SUBSET Groups]
    BY <1>1 DEF ExpanderTypes
  <2>2. \A v \in Ticks : stage[v] = "idle"
    BY <1>2, TickAssumption DEF ExpanderInv, Driving
  <2>3. CASE u = t
    BY <1>2, <1>3, <2>1, <2>3
  <2>4. CASE u # t
    <3>1. stage'[u] = "idle"
      BY <1>2, <2>1, <2>2, <2>4
    <3>2. QED  BY <3>1
  <2>5. QED  BY <2>3, <2>4
<1>7. OneWavePerGroup'
  BY <1>1 DEF ExpanderInv, OneWavePerGroup, Active, Paused
<1>8. RunsAreTried' /\ JudgedWhenTried'
  BY <1>1, NothingLaunched, JudgedBefore
<1>9. QED  BY <1>5, <1>6, <1>7, <1>8 DEF ExpanderInv

\* One wave at a time changes its status, while nothing is launched.
LEMMA MoveInv ==
  ASSUME ExpanderInv, NEW t \in Ticks, stage[t] # "idle", toDrive[t] # {},
         Wave(t) \in Active, NEW s \in Statuses,
         waves' = [waves EXCEPT ![Wave(t)].status = s],
         s \in {"verifying", "done"} =>
           \/ waves[Wave(t)].status = "verifying"
           \/ \A i \in PoliciesOf(Wave(t)) : <<Wave(t), i>> \in tried,
         UNCHANGED <<coverage, latest, landed, lock, excluded, tried>>,
         unlaunched' \in [Ticks -> SUBSET Nat],
         stage' \in [Ticks -> {"idle", "drive", "launch"}],
         \A u \in Ticks \ {t} : stage'[u] = stage[u],
         toDrive' \in [Ticks -> SUBSET (DOMAIN waves)],
         stage'[t] = "launch" =>
           toDrive' = toDrive /\ s = "running" /\ unlaunched'[t] \subseteq PoliciesOf(Wave(t))
  PROVE  ExpanderInv'
<1> DEFINE w == Wave(t)
<1>1. w \in DOMAIN waves /\ w \in Live
  BY DEF Active, Live
<1>2. ExpanderTypes
  BY DEF ExpanderInv
<1> HIDE DEF w
<1>3. /\ waves' \in Seq(WaveRows) /\ Len(waves') = Len(waves) /\ DOMAIN waves' = DOMAIN waves
      /\ \A v \in DOMAIN waves : /\ waves'[v].group = waves[v].group
                                 /\ waves'[v].status = IF v = w THEN s ELSE waves[v].status
  BY <1>1, <1>2, StatusChanges DEF w
<1>4. OneWavePerGroup' /\ GroupsOf(Live)' \subseteq GroupsOf(Live)
  BY <1>1, <1>2, LiveChanges DEF w, ExpanderInv
<1>5. ExpanderTypes'
  BY <1>2, <1>3 DEF ExpanderTypes
<1>6. Driving'
  <2>1. GroupsOf(Live)' \subseteq excluded'[t]
    BY <1>4 DEF ExpanderInv, Driving
  <2>2. ASSUME stage'[t] = "launch" PROVE  /\ toDrive'[t] # {} /\ Wave(t)' \in Active'
                                             /\ unlaunched'[t] \subseteq PoliciesOf(Wave(t))'
    <3>1. toDrive' = toDrive /\ s = "running" /\ unlaunched'[t] \subseteq PoliciesOf(w)
      BY <2>2 DEF w
    <3>2. Wave(t)' = w
      BY <3>1 DEF w, Wave
    <3>3. waves'[w].status = "running"
      BY <1>1, <1>3, <3>1
    <3>4. QED  BY <1>1, <1>3, <3>1, <3>2, <3>3 DEF Active, PoliciesOf
  <2>3. QED  BY <2>1, <2>2, HolderDrives
<1>7. RunsAreTried'
  BY <1>3, NothingLaunched
<1>8. JudgedWhenTried'
  <2> SUFFICES ASSUME NEW v \in DOMAIN waves, waves'[v].status \in {"verifying", "done"},
                      NEW i \in DOMAIN latest[v]
               PROVE  <<v, i>> \in tried
    BY <1>3 DEF JudgedWhenTried, PoliciesOf
  <2>1. CASE v # w
    BY <1>3, <2>1 DEF ExpanderInv, JudgedWhenTried, PoliciesOf
  <2>2. CASE v = w
    <3>1. s \in {"verifying", "done"}
      BY <1>3, <2>2
    <3>2. \/ waves[v].status = "verifying"
          \/ \A j \in PoliciesOf(v) : <<v, j>> \in tried
      BY <2>2, <3>1 DEF w
    <3>3. QED  BY <3>2 DEF ExpanderInv, JudgedWhenTried, PoliciesOf
  <2>3. QED  BY <2>1, <2>2
<1>9. QED  BY <1>4, <1>5, <1>6, <1>7, <1>8 DEF ExpanderInv

LEMMA EarlyPauseInv ==
  ASSUME ExpanderInv, NEW t \in Ticks, EarlyPause(t)
  PROVE  ExpanderInv'
<1> DEFINE w == Wave(t)
<1>1. ExpanderTypes /\ stage[t] = "drive" /\ toDrive[t] # {}
  BY DEF EarlyPause, At, ExpanderInv
<1>2. w \in DOMAIN waves
  BY <1>1, WaveOfTick
<1>3. Wave(t) \in Active
  BY <1>2 DEF EarlyPause, Active
<1>4. /\ unlaunched' \in [Ticks -> SUBSET Nat]
      /\ stage' \in [Ticks -> {"idle", "drive", "launch"}] /\ stage' = stage
      /\ toDrive' \in [Ticks -> SUBSET (DOMAIN waves)]
  BY <1>1 DEF EarlyPause, Leave, ExpanderTypes
<1>5. "paused" \in Statuses /\ waves' = [waves EXCEPT ![Wave(t)].status = "paused"]
  BY DEF EarlyPause, Statuses
<1>6. QED
  <2>1. UNCHANGED <<coverage, latest, landed, lock, excluded, tried>> /\ stage'[t] # "launch"
    BY <1>1, <1>4 DEF EarlyPause
  <2>2. "paused" \notin {"verifying", "done"} /\ stage[t] # "idle"
    BY <1>1
  <2>3. QED  BY <1>1, <1>3, <1>4, <1>5, <2>1, <2>2, MoveInv

LEMMA BeginLaunchingInv ==
  ASSUME ExpanderInv, NEW t \in Ticks, BeginLaunching(t)
  PROVE  ExpanderInv'
<1>1. ExpanderTypes /\ stage[t] = "drive" /\ toDrive[t] # {}
  BY DEF BeginLaunching, At, ExpanderInv
<1>2. Wave(t) \in DOMAIN waves
  BY <1>1, WaveOfTick
<1>3. Wave(t) \in Active
  BY <1>2 DEF BeginLaunching, Active
<1>4. Unlaunched(Wave(t)) \in SUBSET Nat
  <2>1. latest[Wave(t)] \in PolicyRuns
    BY <1>1, <1>2 DEF ExpanderTypes
  <2>2. DOMAIN latest[Wave(t)] \subseteq Nat
    BY <2>1 DEF PolicyRuns
  <2>3. QED  BY <2>2 DEF Unlaunched, PoliciesOf
<1>5. /\ unlaunched' = [unlaunched EXCEPT ![t] = Unlaunched(Wave(t))]
      /\ stage' = [stage EXCEPT ![t] = "launch"]
      /\ toDrive' = toDrive
      /\ UNCHANGED <<coverage, latest, landed, lock, excluded, tried>>
      /\ waves' = [waves EXCEPT ![Wave(t)].status = "running"]
  BY DEF BeginLaunching
<1>6. /\ unlaunched' \in [Ticks -> SUBSET Nat]
      /\ stage' \in [Ticks -> {"idle", "drive", "launch"}]
      /\ \A u \in Ticks \ {t} : stage'[u] = stage[u]
      /\ toDrive' \in [Ticks -> SUBSET (DOMAIN waves)]
  BY <1>1, <1>4, <1>5 DEF ExpanderTypes
<1>9. unlaunched'[t] \subseteq PoliciesOf(Wave(t))
  BY <1>1, <1>5 DEF Unlaunched, ExpanderTypes
<1>7. "running" \in Statuses /\ "running" \notin {"verifying", "done"} /\ stage[t] # "idle"
  BY <1>1 DEF Statuses
<1>8. QED  BY <1>1, <1>3, <1>5, <1>6, <1>7, <1>9, MoveInv

LEMMA EndLaunchingInv ==
  ASSUME ExpanderInv, NEW t \in Ticks, EndLaunching(t)
  PROVE  ExpanderInv'
<1> DEFINE s == IF Drained(Wave(t)) THEN "verifying" ELSE waves[Wave(t)].status
<1>1. ExpanderTypes /\ stage[t] = "launch" /\ toDrive[t] # {}
  BY DEF EndLaunching, At, ExpanderInv
<1>2. Wave(t) \in DOMAIN waves
  BY <1>1, WaveOfTick
<1>3. Wave(t) \in Active
  BY <1>1 DEF ExpanderInv, Driving
<1>4. s \in Statuses /\ s # "done"
  <2>1. waves[Wave(t)].status \in {"planned", "running", "verifying"}
    BY <1>3 DEF Active
  <2>2. QED  BY <2>1 DEF Statuses
<1>5. /\ unlaunched' = [unlaunched EXCEPT ![t] = {}]
      /\ stage' = [stage EXCEPT ![t] = "drive"]
      /\ toDrive' = [toDrive EXCEPT ![t] = @ \ {Wave(t)}]
      /\ UNCHANGED <<coverage, latest, landed, lock, excluded, tried>>
      /\ waves' = [waves EXCEPT ![Wave(t)].status = s]
  BY DEF EndLaunching, Leave
<1>6. ASSUME s = "verifying", waves[Wave(t)].status # "verifying", NEW i \in PoliciesOf(Wave(t))
      PROVE  <<Wave(t), i>> \in tried
  <2>1. i \in RunsOf(Wave(t)) /\ latest[Wave(t)] \in PolicyRuns
    BY <1>1, <1>2, <1>6 DEF Drained, ExpanderTypes
  <2>2. latest[Wave(t)][i] \in RunsHow
    BY <2>1, <1>6 DEF PolicyRuns, PoliciesOf
  <2>3. latest[Wave(t)][i] \in {"running", "good", "bad"}
    BY <2>1, <2>2 DEF RunsOf, RunsHow
  <2>4. QED  BY <1>2, <1>6, <2>3 DEF ExpanderInv, RunsAreTried
<1>7. /\ unlaunched' \in [Ticks -> SUBSET Nat]
      /\ stage' \in [Ticks -> {"idle", "drive", "launch"}]
      /\ \A u \in Ticks \ {t} : stage'[u] = stage[u]
      /\ toDrive' \in [Ticks -> SUBSET (DOMAIN waves)]
      /\ stage'[t] # "launch" /\ stage[t] # "idle"
  BY <1>1, <1>5 DEF ExpanderTypes
<1> HIDE DEF s
<1>8. QED  BY <1>1, <1>3, <1>4, <1>5, <1>6, <1>7, MoveInv

LEMMA VerifyInv ==
  ASSUME ExpanderInv, NEW t \in Ticks, Verify(t)
  PROVE  ExpanderInv'
<1> DEFINE s == IF Open(Wave(t)) # {} THEN waves[Wave(t)].status
                ELSE IF Systemic(Wave(t)) THEN "paused" ELSE "done"
<1>1. ExpanderTypes /\ stage[t] = "drive" /\ toDrive[t] # {}
  BY DEF Verify, At, ExpanderInv
<1>2. Wave(t) \in DOMAIN waves
  BY <1>1, WaveOfTick
<1>3. Wave(t) \in Active /\ waves[Wave(t)].status = "verifying"
  BY <1>2 DEF Verify, Active
<1>4. s \in Statuses
  BY <1>3 DEF Statuses
<1>5. /\ toDrive' = [toDrive EXCEPT ![t] = @ \ {Wave(t)}]
      /\ UNCHANGED <<coverage, latest, landed, lock, stage, unlaunched, excluded, tried>>
      /\ waves' = [waves EXCEPT ![Wave(t)].status = s]
  BY DEF Verify, Leave
<1>6. /\ unlaunched' \in [Ticks -> SUBSET Nat]
      /\ stage' \in [Ticks -> {"idle", "drive", "launch"}]
      /\ \A u \in Ticks \ {t} : stage'[u] = stage[u]
      /\ toDrive' \in [Ticks -> SUBSET (DOMAIN waves)]
      /\ stage'[t] # "launch" /\ stage[t] # "idle"
  BY <1>1, <1>5 DEF ExpanderTypes
<1> HIDE DEF s
<1>7. QED  BY <1>1, <1>3, <1>4, <1>5, <1>6, MoveInv

\* The latest run of one policy changes, while waves and ticks stay where they are.
LEMMA RunChangesInv ==
  ASSUME ExpanderInv, NEW w \in DOMAIN waves, NEW i \in PoliciesOf(w), NEW how \in RunsHow,
         latest' = [latest EXCEPT ![w][i] = how],
         UNCHANGED <<coverage, waves, landed, lock, stage, toDrive, excluded>>,
         unlaunched' \in [Ticks -> SUBSET Nat],
         \A u \in Ticks : unlaunched'[u] \subseteq unlaunched[u],
         tried \subseteq tried', tried' \subseteq tried \cup {<<w, i>>},
         how \in {"running", "good", "bad"} => <<w, i>> \in tried'
  PROVE  ExpanderInv'
<1>1. ExpanderTypes /\ waves \in Seq(WaveRows) /\ latest \in Seq(PolicyRuns) /\ Len(latest) = Len(waves)
  BY DEF ExpanderInv, ExpanderTypes
<1>2. w \in DOMAIN latest /\ w \in Nat /\ latest[w] \in PolicyRuns
  BY <1>1
<1>3. PICK D \in SUBSET Nat : latest[w] \in [D -> RunsHow]
  BY <1>2 DEF PolicyRuns
<1>4. i \in D
  BY <1>3 DEF PoliciesOf
<1> DEFINE row == [latest[w] EXCEPT ![i] = how]
<1>5. row \in [D -> RunsHow] /\ \A j \in D : row[j] = IF j = i THEN how ELSE latest[w][j]
  BY <1>3, <1>4
<1>6. row \in PolicyRuns
  BY <1>5 DEF PolicyRuns
<1>7. latest' = [latest EXCEPT ![w] = row]
  OBVIOUS
<1> HIDE DEF row
<1>8. /\ latest' \in Seq(PolicyRuns) /\ Len(latest') = Len(latest)
      /\ \A v \in DOMAIN latest : latest'[v] = IF v = w THEN row ELSE latest[v]
  <2>1. latest' \in Seq(PolicyRuns) /\ Len(latest') = Len(latest)
    <3>1. w \in 1 .. Len(latest)
      BY <1>1, <1>2
    <3>2. QED  BY <1>1, <1>6, <1>7, <3>1, ExceptSeq
  <2>2. \A v \in DOMAIN latest : latest'[v] = IF v = w THEN row ELSE latest[v]
    BY <1>7
  <2>3. QED  BY <2>1, <2>2
<1>9. DOMAIN latest = DOMAIN waves /\ \A v \in DOMAIN waves : DOMAIN latest'[v] = DOMAIN latest[v]
  BY <1>1, <1>3, <1>5, <1>8
<1>10. ExpanderTypes'
  <2>1. tried' \in SUBSET (Nat \X Nat)
    BY <1>1, <1>2, <1>4 DEF ExpanderTypes
  <2>2. QED  BY <1>1, <1>8, <2>1 DEF ExpanderTypes
<1>11. Driving' /\ OneWavePerGroup'
  <2>1. /\ Active' = Active /\ Paused' = Paused /\ GroupsOf(Live)' = GroupsOf(Live)
        /\ \A u \in Ticks : Wave(u)' = Wave(u)
    BY DEF GroupsOf, Live, Active, Paused, Wave
  <2>2. \A v \in Active : DOMAIN latest'[v] = DOMAIN latest[v]
    BY <1>9 DEF Active
  <2>3. Driving'
    BY <2>1, <2>2 DEF ExpanderInv, Driving, PoliciesOf
  <2>4. OneWavePerGroup'
    BY <2>1 DEF ExpanderInv, OneWavePerGroup
  <2>5. QED  BY <2>3, <2>4
<1>12. JudgedWhenTried'
  BY <1>9, JudgedBefore
<1>13. RunsAreTried'
  <2> SUFFICES ASSUME NEW v \in DOMAIN waves, NEW j \in DOMAIN latest'[v],
                      latest'[v][j] \in {"running", "good", "bad"}
               PROVE  <<v, j>> \in tried'
    BY DEF RunsAreTried, PoliciesOf
  <2>1. CASE v = w /\ j = i
    BY <2>1, <1>2, <1>4, <1>5, <1>8, <1>9
  <2>2. CASE ~(v = w /\ j = i)
    <3>1. latest'[v][j] = latest[v][j] /\ j \in DOMAIN latest[v]
      BY <2>2, <1>3, <1>5, <1>8, <1>9
    <3>2. QED  BY <3>1 DEF ExpanderInv, RunsAreTried, PoliciesOf
  <2>3. QED  BY <2>1, <2>2
<1>14. QED  BY <1>10, <1>11, <1>12, <1>13 DEF ExpanderInv

\* The policy a tick is at is one of the wave it launches.
LEMMA PolicyOfTick ==
  ASSUME ExpanderInv, NEW t \in Ticks, At(t, "launch"), MayLaunch(t)
  PROVE  Wave(t) \in DOMAIN waves /\ Next1(t) \in PoliciesOf(Wave(t))
<1>1. ExpanderTypes /\ unlaunched[t] # {} /\ unlaunched[t] \in SUBSET Nat
  BY DEF ExpanderInv, ExpanderTypes, MayLaunch
<1>2. Wave(t) \in Active /\ unlaunched[t] \subseteq PoliciesOf(Wave(t))
  BY DEF ExpanderInv, Driving, At
<1>3. Next1(t) \in unlaunched[t]
  BY <1>1, MinOfSet DEF Next1
<1>4. QED  BY <1>2, <1>3 DEF Active

\* A policy that is popped is not launched again, nor any that was dropped with it.
LEMMA PoppedTypes ==
  ASSUME ExpanderTypes, NEW t \in Ticks,
         Popped(t) \/ unlaunched' = [unlaunched EXCEPT ![t] = {}]
  PROVE  /\ unlaunched' \in [Ticks -> SUBSET Nat]
         /\ \A u \in Ticks : unlaunched'[u] \subseteq unlaunched[u]
BY DEF ExpanderTypes, Popped

LEMMA LaunchInv ==
  ASSUME ExpanderInv, NEW t \in Ticks, Launched(t) \/ LaunchFails(t) \/ NoCluster(t)
  PROVE  ExpanderInv'
<1>1. Wave(t) \in DOMAIN waves /\ Next1(t) \in PoliciesOf(Wave(t))
  BY PolicyOfTick DEF Launched, LaunchFails, NoCluster
<1>2. /\ unlaunched' \in [Ticks -> SUBSET Nat]
      /\ \A u \in Ticks : unlaunched'[u] \subseteq unlaunched[u]
  BY PoppedTypes DEF Launched, LaunchFails, NoCluster, ExpanderInv
<1>3. UNCHANGED <<coverage, waves, landed, lock, stage, toDrive, excluded>>
  BY DEF Launched, LaunchFails, NoCluster
<1>4. PICK how \in {"running", "bad", "refused"} : Ran(Wave(t), Next1(t), how)
  BY DEF Launched, LaunchFails, NoCluster
<1>5. QED  BY <1>1, <1>2, <1>3, <1>4, RunChangesInv DEF Ran, RunsHow

LEMMA SkipPolicyInv ==
  ASSUME ExpanderInv, NEW t \in Ticks, SkipPolicy(t)
  PROVE  ExpanderInv'
<1>1. /\ unlaunched' \in [Ticks -> SUBSET Nat]
      /\ \A u \in Ticks : unlaunched'[u] \subseteq unlaunched[u]
  BY PoppedTypes DEF SkipPolicy, ExpanderInv
<1>2. UNCHANGED <<coverage, waves, latest, landed, lock, stage, toDrive, excluded, tried>>
  BY DEF SkipPolicy
<1>3. ExpanderTypes'
  BY <1>1, <1>2 DEF ExpanderInv, ExpanderTypes
<1>4. Driving' /\ OneWavePerGroup'
  BY <1>1, <1>2
  DEF ExpanderInv, Driving, OneWavePerGroup, GroupsOf, Live, Active, Paused, Wave, PoliciesOf
<1>5. RunsAreTried' /\ JudgedWhenTried'
  BY <1>2, NothingLaunched, JudgedBefore
<1>6. QED  BY <1>3, <1>4, <1>5 DEF ExpanderInv

\* The group of a new wave has no live wave: plan_next_wave leaves out the groups of
\* all that were live at Start, and nobody else plans.
LEMMA PlanWaveInv ==
  ASSUME ExpanderInv, NEW t \in Ticks, PlanWave(t)
  PROVE  ExpanderInv'
<1>1. PICK g \in {Group(c) : c \in Routable} \ excluded[t] :
        /\ waves' = Append(waves, [group |-> g, concepts |-> Gap(g), status |-> "planned"])
        /\ latest' = Append(latest, [i \in 1 .. ChunksOf(Gap(g)) |-> "none"])
        /\ excluded' = [excluded EXCEPT ![t] = @ \cup {g}]
  BY DEF PlanWave
<1>2. /\ stage[t] = "drive" /\ toDrive[t] = {}
      /\ landed' = Append(landed, FALSE)
      /\ toDrive' = [toDrive EXCEPT ![t] = {Len(waves) + 1}]
      /\ UNCHANGED <<coverage, lock, stage, unlaunched, tried>>
  BY DEF PlanWave
<1> DEFINE n   == Len(waves)
           new == [group |-> g, concepts |-> Gap(g), status |-> "planned"]
           row == [i \in 1 .. ChunksOf(Gap(g)) |-> "none"]
<1>3. ExpanderTypes /\ g \in Groups
  BY GroupIsGroup DEF ExpanderInv
<1>4. new \in WaveRows
  BY <1>3 DEF WaveRows, Gap, Statuses
<1>5. row \in PolicyRuns /\ \A i \in DOMAIN row : row[i] = "none"
  <2>1. 1 .. ChunksOf(Gap(g)) \in SUBSET Nat
    OBVIOUS
  <2>2. row \in [1 .. ChunksOf(Gap(g)) -> RunsHow]
    BY DEF RunsHow
  <2>3. QED  BY <2>1, <2>2 DEF PolicyRuns
<1>6. waves \in Seq(WaveRows) /\ latest \in Seq(PolicyRuns) /\ Len(latest) = n /\ n \in Nat
  BY <1>3 DEF ExpanderTypes
<1>7. waves' = Append(waves, new) /\ latest' = Append(latest, row)
  BY <1>1
<1>e. new.group = g /\ new.status = "planned"
  OBVIOUS
<1> HIDE DEF new, row
<1>8. /\ waves' \in Seq(WaveRows) /\ Len(waves') = n + 1 /\ DOMAIN waves' = 1 .. n + 1
      /\ DOMAIN waves = 1 .. n
      /\ \A v \in DOMAIN waves : waves'[v] = waves[v]
      /\ waves'[n + 1] = new
  BY <1>4, <1>6, <1>7
<1>9. /\ latest' \in Seq(PolicyRuns) /\ Len(latest') = n + 1
      /\ \A v \in DOMAIN waves : latest'[v] = latest[v]
      /\ latest'[n + 1] = row
  BY <1>5, <1>6, <1>7, <1>8
<1> HIDE DEF n
<1>10. ExpanderTypes'
  <2>1. landed' \in Seq(BOOLEAN) /\ Len(landed') = n + 1
    BY <1>2, <1>3 DEF ExpanderTypes, n
  <2>2. toDrive' \in [Ticks -> SUBSET (DOMAIN waves')]
    BY <1>2, <1>3, <1>6, <1>8 DEF ExpanderTypes, n
  <2>3. excluded' \in [Ticks -> SUBSET Groups]
    BY <1>1, <1>3 DEF ExpanderTypes
  <2>4. QED  BY <1>2, <1>3, <1>8, <1>9, <2>1, <2>2, <2>3 DEF ExpanderTypes
<1>11. Live' \subseteq Live \cup {n + 1}
  BY <1>6, <1>8 DEF Live, Active, Paused
<1>12. GroupsOf(Live)' \subseteq GroupsOf(Live) \cup {g}
  BY <1>8, <1>11, <1>e DEF GroupsOf, Live, Active, Paused
<1>13. GroupsOf(Live) \subseteq excluded[t]
  BY <1>2 DEF ExpanderInv, Driving
<1>14. Driving'
  <2>1. excluded'[t] = excluded[t] \cup {g}
    BY <1>1, <1>3 DEF ExpanderTypes
  <2>2. QED  BY <1>2, <1>12, <1>13, <2>1, HolderDrives
<1>15. OneWavePerGroup'
  <2> SUFFICES ASSUME NEW v \in Live', NEW w \in Live', waves'[v].group = waves'[w].group
               PROVE  v = w
    BY DEF OneWavePerGroup, Live
  <2>1. ASSUME NEW u \in Live PROVE waves'[u].group \in excluded[t]
    BY <2>1, <1>8, <1>13 DEF GroupsOf, Live, Active, Paused
  <2>2. CASE v \in Live /\ w \in Live
    BY <2>2, <1>8 DEF ExpanderInv, OneWavePerGroup, Live, Active, Paused
  <2>3. CASE v = n + 1 /\ w \in Live
    BY <2>1, <2>3, <1>8, <1>e, <1>1
  <2>4. CASE w = n + 1 /\ v \in Live
    BY <2>1, <2>4, <1>8, <1>e, <1>1
  <2>5. QED  BY <1>11, <2>2, <2>3, <2>4
<1>16. RunsAreTried'
  <2> SUFFICES ASSUME NEW v \in DOMAIN waves', NEW j \in DOMAIN latest'[v],
                      latest'[v][j] \in {"running", "good", "bad"}
               PROVE  <<v, j>> \in tried
    BY <1>2 DEF RunsAreTried, PoliciesOf
  <2>1. CASE v \in DOMAIN waves
    BY <2>1, <1>9 DEF ExpanderInv, RunsAreTried, PoliciesOf
  <2>2. CASE v = n + 1
    BY <2>2, <1>5, <1>9
  <2>3. QED  BY <1>6, <1>8, <2>1, <2>2
<1>17. JudgedWhenTried'
  <2> SUFFICES ASSUME NEW v \in DOMAIN waves', waves'[v].status \in {"verifying", "done"},
                      NEW j \in DOMAIN latest'[v]
               PROVE  <<v, j>> \in tried
    BY <1>2 DEF JudgedWhenTried, PoliciesOf
  <2>1. v \in DOMAIN waves
    BY <1>6, <1>8, <1>e
  <2>2. QED  BY <2>1, <1>8, <1>9 DEF ExpanderInv, JudgedWhenTried, PoliciesOf
<1>18. QED  BY <1>10, <1>14, <1>15, <1>16, <1>17 DEF ExpanderInv

\* A tick that ends, or dies, lets go of the lock and of all it had in hand.
LEMMA ForgetInv ==
  ASSUME ExpanderInv, NEW t \in Ticks, Forget(t), stage[t] # "idle",
         UNCHANGED <<coverage, waves, latest, landed, tried>>
  PROVE  ExpanderInv'
<1>1. ExpanderTypes /\ lock = t
  BY DEF ExpanderInv, Driving
<1>2. ExpanderTypes'
  BY <1>1 DEF ExpanderTypes, Forget
<1>3. \A u \in Ticks : stage'[u] = "idle"
  BY <1>1, OthersAreIdle DEF Forget, ExpanderTypes
<1>4. Driving'
  BY <1>3 DEF Driving
<1>5. OneWavePerGroup'
  BY DEF ExpanderInv, OneWavePerGroup, Active, Paused
<1>6. RunsAreTried' /\ JudgedWhenTried'
  BY NothingLaunched, JudgedBefore
<1>7. QED  BY <1>2, <1>4, <1>5, <1>6 DEF ExpanderInv

LEMMA RunEndsInv ==
  ASSUME ExpanderInv, NEW w \in DOMAIN waves, NEW i \in PoliciesOf(w), RunEnds(w, i)
  PROVE  ExpanderInv'
<1>1. PICK verdict \in {"good", "bad"} : latest' = [latest EXCEPT ![w][i] = verdict]
  BY DEF RunEnds
<1>2. UNCHANGED <<coverage, waves, landed, lock, stage, toDrive, unlaunched, excluded, tried>>
  BY DEF RunEnds, driveVars
<1>3. <<w, i>> \in tried /\ verdict \in RunsHow
  BY DEF ExpanderInv, RunsAreTried, RunEnds, RunsHow
<1>4. unlaunched' \in [Ticks -> SUBSET Nat]
  BY <1>2 DEF ExpanderInv, ExpanderTypes
<1>5. QED  BY <1>1, <1>2, <1>3, <1>4, RunChangesInv

LEMMA OperatorInv ==
  ASSUME ExpanderInv, NEW w \in DOMAIN waves, NEW i \in PoliciesOf(w),
         TriggerPolicy(w, i) \/ Delete(w, i)
  PROVE  ExpanderInv'
<1>1. UNCHANGED <<coverage, waves, landed, lock, stage, toDrive, unlaunched, excluded>>
  BY DEF TriggerPolicy, Delete, driveVars
<1>2. unlaunched' \in [Ticks -> SUBSET Nat]
  BY <1>1 DEF ExpanderInv, ExpanderTypes
<1>3. CASE TriggerPolicy(w, i)
  <2>1. PICK how \in {"running", "bad", "refused"} : Ran(w, i, how)
    BY <1>3 DEF TriggerPolicy
  <2>2. QED  BY <1>1, <1>2, <2>1, RunChangesInv DEF Ran, RunsHow
<1>4. CASE Delete(w, i)
  <2>1. latest' = [latest EXCEPT ![w][i] = "deleted"] /\ tried' = tried
    BY <1>4 DEF Delete
  <2>2. QED  BY <1>1, <1>2, <2>1, RunChangesInv DEF RunsHow
<1>5. QED  BY <1>3, <1>4

\* Whatever is aborted was paused, so no tick is at it.
LEMMA ResumeInv ==
  ASSUME ExpanderInv, Resume
  PROVE  ExpanderInv'
<1> DEFINE Aborted(w) == IF w \in Paused THEN [waves[w] EXCEPT !.status = "aborted"] ELSE waves[w]
<1>1. /\ waves' = [w \in DOMAIN waves |-> Aborted(w)]
      /\ UNCHANGED <<coverage, latest, landed, lock, stage, toDrive, unlaunched, excluded, tried>>
  BY DEF Resume, driveVars
<1>2. ExpanderTypes /\ waves \in Seq(WaveRows)
  BY DEF ExpanderInv, ExpanderTypes
<1>3. ASSUME NEW w \in DOMAIN waves
      PROVE  /\ Aborted(w) \in WaveRows /\ Aborted(w).group = waves[w].group
             /\ Aborted(w).status = IF w \in Paused THEN "aborted" ELSE waves[w].status
  <2>1. waves[w] \in WaveRows
    BY <1>2
  <2>2. QED  BY <2>1 DEF WaveRows, Statuses
<1> HIDE DEF Aborted
<1>4. /\ waves' \in Seq(WaveRows) /\ Len(waves') = Len(waves) /\ DOMAIN waves' = DOMAIN waves
      /\ \A w \in DOMAIN waves : waves'[w] = Aborted(w)
  BY <1>1, <1>2, <1>3
<1>5. Active' = Active /\ Paused' = {}
  BY <1>3, <1>4 DEF Active, Paused
<1>6. OneWavePerGroup' /\ GroupsOf(Live)' \subseteq GroupsOf(Live)
  BY <1>3, <1>4, <1>5, LiveShrinks DEF Live, ExpanderInv
<1>7. ExpanderTypes'
  BY <1>1, <1>2, <1>4 DEF ExpanderTypes
<1>8. Driving'
  <2>1. \A t \in Ticks : Wave(t)' = Wave(t) /\ PoliciesOf(Wave(t))' = PoliciesOf(Wave(t))
    BY <1>1 DEF Wave, PoliciesOf
  <2>2. QED  BY <1>1, <1>5, <1>6, <2>1 DEF ExpanderInv, Driving
<1>9. RunsAreTried'
  BY <1>1, <1>4, NothingLaunched
<1>10. JudgedWhenTried'
  BY <1>1, <1>3, <1>4 DEF ExpanderInv, JudgedWhenTried, PoliciesOf
<1>11. QED  BY <1>6, <1>7, <1>8, <1>9, <1>10 DEF ExpanderInv

\* What is stored, or becomes stale, moves concepts between groups, and no wave.
LEMMA CoverageMovesInv ==
  ASSUME ExpanderInv, coverage' \in [Routable -> {"never", "stale", "fresh"}],
         landed' \in Seq(BOOLEAN), Len(landed') = Len(landed),
         UNCHANGED <<waves, latest, lock, stage, toDrive, unlaunched, excluded, tried>>
  PROVE  ExpanderInv'
<1>1. ExpanderTypes'
  BY DEF ExpanderInv, ExpanderTypes
<1>2. Driving' /\ OneWavePerGroup'
  BY DEF ExpanderInv, Driving, OneWavePerGroup, GroupsOf, Live, Active, Paused, Wave, PoliciesOf
<1>3. RunsAreTried' /\ JudgedWhenTried'
  BY NothingLaunched, JudgedBefore
<1>4. QED  BY <1>1, <1>2, <1>3 DEF ExpanderInv

LEMMA LandsInv ==
  ASSUME ExpanderInv, NEW w \in DOMAIN waves, NEW c \in Routable, Lands(w, c)
  PROVE  ExpanderInv'
<1>1. /\ coverage \in [Routable -> {"never", "stale", "fresh"}]
      /\ landed \in Seq(BOOLEAN)
  BY DEF ExpanderInv, ExpanderTypes
<1>2. coverage' \in [Routable -> {"never", "stale", "fresh"}]
  BY <1>1 DEF Lands
<1>3. landed' = [v \in DOMAIN landed |-> landed[v] \/ c \in waves[v].concepts]
  BY DEF Lands
<1>4. landed' \in Seq(BOOLEAN) /\ Len(landed') = Len(landed)
  <2>1. Len(landed) \in Nat /\ DOMAIN landed = 1 .. Len(landed)
    BY <1>1
  <2>2. landed' \in [1 .. Len(landed) -> BOOLEAN]
    BY <1>3, <2>1
  <2>3. QED  BY <2>1, <2>2
<1>5. UNCHANGED <<waves, latest, lock, stage, toDrive, unlaunched, excluded, tried>>
  BY DEF Lands, driveVars
<1>6. QED  BY <1>2, <1>4, <1>5, CoverageMovesInv

LEMMA AgesInv ==
  ASSUME ExpanderInv, NEW c \in Routable, Ages(c)
  PROVE  ExpanderInv'
<1>1. /\ coverage' \in [Routable -> {"never", "stale", "fresh"}]
      /\ landed' \in Seq(BOOLEAN) /\ Len(landed') = Len(landed)
  BY DEF ExpanderInv, ExpanderTypes, Ages
<1>2. UNCHANGED <<waves, latest, lock, stage, toDrive, unlaunched, excluded, tried>>
  BY DEF Ages, driveVars
<1>3. QED  BY <1>1, <1>2, CoverageMovesInv

LEMMA ExpanderInitInv == ExpanderInit => ExpanderInv
<1> SUFFICES ASSUME ExpanderInit PROVE ExpanderInv
  OBVIOUS
<1>1. ExpanderTypes
  BY DEF ExpanderInit, ExpanderTypes
<1>2. Driving
  BY DEF ExpanderInit, Driving
<1>3. DOMAIN waves = {}
  BY DEF ExpanderInit
<1>4. OneWavePerGroup /\ RunsAreTried /\ JudgedWhenTried
  BY <1>3 DEF OneWavePerGroup, RunsAreTried, JudgedWhenTried, Active, Paused
<1>5. QED  BY <1>1, <1>2, <1>4 DEF ExpanderInv

LEMMA ExpanderStep == ExpanderInv /\ [ExpanderNext]_expanderVars => ExpanderInv'
<1> SUFFICES ASSUME ExpanderInv, [ExpanderNext]_expanderVars PROVE ExpanderInv'
  OBVIOUS
<1>1. ASSUME NEW t \in Ticks, DriveStep(t) PROVE ExpanderInv'
  <2>1. CASE TickStarts(t)  BY <2>1, StartInv
  <2>2. CASE EarlyPause(t)  BY <2>2, EarlyPauseInv
  <2>3. CASE BeginLaunching(t)  BY <2>3, BeginLaunchingInv
  <2>4. CASE SkipPolicy(t)  BY <2>4, SkipPolicyInv
  <2>5. CASE Launched(t) \/ LaunchFails(t) \/ NoCluster(t)  BY <2>5, LaunchInv
  <2>6. CASE EndLaunching(t)  BY <2>6, EndLaunchingInv
  <2>7. CASE Verify(t)  BY <2>7, VerifyInv
  <2>8. CASE PlanWave(t)  BY <2>8, PlanWaveInv
  <2>9. CASE TickEnds(t)
    <3>1. Forget(t) /\ stage[t] # "idle" /\ UNCHANGED <<coverage, waves, latest, landed, tried>>
      BY <2>9 DEF TickEnds
    <3>2. QED  BY <3>1, ForgetInv
  <2>10. QED  BY <1>1, <2>1, <2>2, <2>3, <2>4, <2>5, <2>6, <2>7, <2>8, <2>9 DEF DriveStep
<1>2. ASSUME NEW t \in Ticks, TickDies(t) PROVE ExpanderInv'
  <2>1. Forget(t) /\ stage[t] # "idle" /\ UNCHANGED <<coverage, waves, latest, landed, tried>>
    BY <1>2 DEF TickDies
  <2>2. QED  BY <2>1, ForgetInv
<1>3. CASE RunStep
  BY <1>3, RunEndsInv DEF RunStep
<1>4. CASE OperatorStep
  BY <1>4, OperatorInv, ResumeInv DEF OperatorStep
<1>5. ASSUME NEW w \in DOMAIN waves, NEW c \in Routable, Lands(w, c) PROVE ExpanderInv'
  BY <1>5, LandsInv
<1>6. ASSUME NEW c \in Routable, Ages(c) PROVE ExpanderInv'
  BY <1>6, AgesInv
<1>7. CASE UNCHANGED expanderVars
  <2>1. UNCHANGED <<coverage, waves, latest, landed, lock, stage, toDrive, unlaunched, excluded, tried>>
    BY <1>7 DEF expanderVars, driveVars
  <2>2. coverage' \in [Routable -> {"never", "stale", "fresh"}] /\ landed' \in Seq(BOOLEAN)
    BY <2>1 DEF ExpanderInv, ExpanderTypes
  <2>3. QED  BY <2>1, <2>2, CoverageMovesInv
<1>8. QED  BY <1>1, <1>2, <1>3, <1>4, <1>5, <1>6, <1>7 DEF ExpanderNext

LEMMA ExpanderInvariant == ExpanderSpec => []ExpanderInv
BY ExpanderInitInv, ExpanderStep, PTL DEF ExpanderSpec

\* Waves, runs and what the ticks have in hand keep their types (expand_once), and a
\* tick is at waves and policies there are.
THEOREM ExpanderTypeCorrect == ExpanderSpec => []ExpanderTypes
<1>1. ExpanderInv => ExpanderTypes
  BY DEF ExpanderInv
<1>2. QED  BY <1>1, ExpanderInvariant, PTL

\* For any number of ticks, waves and faults, no group has two waves that are active or
\* hold it paused (_try_planning_lock, plan_next_wave).
THEOREM GroupsHaveOneWave == ExpanderSpec => []OneWavePerGroup
<1>1. ExpanderInv => OneWavePerGroup
  BY DEF ExpanderInv
<1>2. QED  BY <1>1, ExpanderInvariant, PTL

\* However capacity, refusals, deletions and crashes fall, no wave is verified before
\* each of its policies had a run (_advance_wave).
THEOREM WavesJudgedWhenTried == ExpanderSpec => []JudgedWhenTried
<1>1. ExpanderInv => JudgedWhenTried
  BY DEF ExpanderInv
<1>2. QED  BY <1>1, ExpanderInvariant, PTL
================================================================================
