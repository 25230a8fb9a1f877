----------------------------- MODULE RollupsProofs -----------------------------
(***************************************************************************)
(* What TLC checks of Rollups, proved for any number of sources, dates and *)
(* writers: the row locks, and the insert that fails where there was no    *)
(* row to lock, are enough for no count of a source to be lost and for the *)
(* coverage to be the projection of the counts; the probes that race for   *)
(* coexisting points never make the points too few.                        *)
(***************************************************************************)
EXTENDS Rollups, FiniteSetTheorems, TLAPS

TxFields == {"source", "new", "fresh", "stats", "delta", "coexisting", "points"}
RbFields == {"counts", "known", "changed", "fresh", "coexisting", "whole"}
Stages == {"idle", "insert", "stats", "probe", "coverage", "project", "commit",
           "load", "flush", "coexist"}
WriterStages == {"idle", "insert", "stats", "probe", "coverage", "project", "commit"}

\* Past LockStats, with the stats row locked or inserted.
Locking(w) ==
  \/ pc[w] = "probe" /\ ~tx[w].fresh
  \/ pc[w] \in {"coverage", "project", "commit"}

Types ==
  /\ held \in [Sources -> SUBSET Dates]
  /\ stored \in SUBSET RollupRows
  /\ stats \in [Sources -> Nat]
  /\ lock \in [RollupRows -> Sessions \cup {Nobody}]
  /\ pc \in [Sessions -> Stages]
  /\ \A w \in Writers : pc[w] \in WriterStages
  /\ drifted \in BOOLEAN /\ overlapped \in BOOLEAN
  /\ tx = [w \in Writers |-> tx[w]] /\ \A w \in Writers : DOMAIN tx[w] = TxFields
  /\ DOMAIN rb = RbFields

\* An open transaction inserts dates its source does not hold, and nobody else.
WriterRows ==
  \A w \in Writers : pc[w] # "idle" =>
    /\ tx[w].source \in Sources /\ tx[w].new \in SUBSET Dates
    /\ Inserted(w) => tx[w].new \cap held[tx[w].source] = {}
    /\ Inserted(w) => \A v \in Writers \ {w} :
         Inserted(v) /\ tx[v].source = tx[w].source => tx[v].new \cap tx[w].new = {}

\* The count it will write is its own on top of the committed one, which nobody
\* else may change; where there was no row, it is its own alone.
WriterCounts ==
  \A w \in Writers :
    /\ Locking(w) => /\ lock[tx[w].source] = w
                     /\ tx[w].stats = stats[tx[w].source] + Cardinality(tx[w].new)
    /\ pc[w] = "probe" /\ tx[w].fresh => tx[w].stats = Cardinality(tx[w].new)

NoRowNoCount == \A s \in Sources : s \notin stored => stats[s] = 0

\* What the rebuild is about to write it has locked; what it leaves alone is right
\* unless a write overlapped.
RebuildRows ==
  /\ pc[Rebuilder] \in {"idle", "load", "flush", "coexist", "commit"}
  /\ pc[Rebuilder] # "idle" =>
       /\ rb.counts \in [Sources -> Nat]
       /\ ~overlapped => rb.counts = CountsOf(held)
  /\ pc[Rebuilder] \in {"flush", "coexist", "commit"} =>
       /\ rb.known \subseteq Sources
       /\ rb.changed \cup rb.fresh \subseteq rb.known
       /\ \A s \in rb.known : rb.counts[s] = 0 => s \in rb.changed
       /\ ~overlapped => \A s \in Sources \ (rb.changed \cup rb.fresh) : stats[s] = rb.counts[s]
  /\ pc[Rebuilder] \in {"coexist", "commit"} =>
       \A s \in rb.changed \cup rb.fresh : lock[s] = Rebuilder

IInv == Types /\ WriterRows /\ WriterCounts /\ NoRowNoCount /\ RebuildRows /\ StatsExact

--------------------------------------------------------------------------------
(* Counting dates                                                           *)

LEMMA DatesFinite ==
  ASSUME NEW D \in SUBSET Dates
  PROVE  IsFiniteSet(D) /\ Cardinality(D) \in Nat
<1>1. IsFiniteSet(D)
  BY DateAssumption, FS_Subset
<1>2. QED  BY <1>1, FS_CardinalityType

\* Dates that are not held are counted once.
LEMMA CountNew ==
  ASSUME NEW D \in SUBSET Dates, NEW E \in SUBSET Dates, E \cap D = {}
  PROVE  Cardinality(D \cup E) = Cardinality(D) + Cardinality(E)
<1>1. /\ IsFiniteSet(D) /\ IsFiniteSet(E)
      /\ Cardinality(D) \in Nat /\ Cardinality(E) \in Nat
  BY DatesFinite
<1>2. D \cap E = {}
  OBVIOUS
<1>3. Cardinality(D \cup E) = Cardinality(D) + Cardinality(E) - Cardinality(D \cap E)
  BY <1>1, FS_Union
<1>4. QED  BY <1>1, <1>2, <1>3, FS_EmptySet

LEMMA InitInv == Init => IInv
<1> SUFFICES ASSUME Init PROVE IInv
  OBVIOUS
<1>1. Types
  <2>1. DOMAIN NoTx = TxFields /\ DOMAIN NoRb = RbFields
    BY DEF NoTx, NoRb, TxFields, RbFields
  <2>2. pc \in [Sessions -> Stages] /\ \A w \in Writers : pc[w] \in WriterStages
    BY DEF Init, Stages, WriterStages, Sessions
  <2>3. QED  BY <2>1, <2>2, SessionAssumption DEF Init, Types
<1>2. \A w \in Writers : pc[w] = "idle"
  BY DEF Init, Sessions
<1>3. WriterRows /\ WriterCounts
  BY <1>2 DEF WriterRows, WriterCounts, Locking
<1>4. NoRowNoCount
  BY DEF Init, NoRowNoCount
<1>5. RebuildRows
  BY DEF Init, RebuildRows, Sessions
<1>6. StatsExact
  BY FS_EmptySet DEF Init, StatsExact, CountsOf
<1>7. QED  BY <1>1, <1>3, <1>4, <1>5, <1>6 DEF IInv

--------------------------------------------------------------------------------
(* What the steps of a writer have in common                                *)

LEMMA SessionsDiffer ==
  /\ Rebuilder \in Sessions /\ Writers \subseteq Sessions
  /\ Rebuilder \notin Writers /\ Nobody \notin Sessions
BY SessionAssumption DEF Sessions

\* A step of one writer leaves the others' transactions, and the rebuild, alone.
Alone(w) ==
  /\ \A x \in Sessions \ {w} : pc'[x] = pc[x]
  /\ \A v \in Writers \ {w} : tx'[v] = tx[v]
  /\ UNCHANGED rb

\* A lock is taken where there was none: no other lock changes hands.
LocksKept(w) == \A r \in RollupRows : lock[r] # Nobody => lock'[r] = lock[r]

\* Steps that change no table and keep the locks of the others keep everything that
\* is said of other sessions.
LEMMA OthersKeep ==
  ASSUME IInv, NEW w \in Writers, Alone(w), UNCHANGED <<held, stored, stats, drifted, overlapped>>,
         Types', \A r \in RollupRows : lock[r] \notin {w, Nobody} => lock'[r] = lock[r]
  PROVE  /\ NoRowNoCount' /\ RebuildRows' /\ StatsExact'
         /\ \A v \in Writers \ {w} :
              /\ Locking(v)' => /\ lock'[tx'[v].source] = v
                                /\ tx'[v].stats = stats'[tx'[v].source] + Cardinality(tx'[v].new)
              /\ pc'[v] = "probe" /\ tx'[v].fresh => tx'[v].stats = Cardinality(tx'[v].new)
<1>1. Types /\ WriterRows /\ WriterCounts /\ NoRowNoCount /\ RebuildRows /\ StatsExact
  BY DEF IInv
<1>2. NoRowNoCount' /\ StatsExact'
  BY <1>1 DEF NoRowNoCount, StatsExact, CountsOf
<1>3. pc'[Rebuilder] = pc[Rebuilder] /\ rb' = rb
  BY SessionsDiffer DEF Alone
<1>4. RebuildRows'
  <2>1. ASSUME pc[Rebuilder] \in {"coexist", "commit"}, NEW s \in rb.changed \cup rb.fresh
        PROVE  lock'[s] = Rebuilder
    <3>1. lock[s] = Rebuilder /\ s \in Sources
      BY <1>1, <2>1 DEF RebuildRows
    <3>2. QED  BY <3>1, SessionsDiffer DEF RollupRows
  <2>2. CountsOf(held)' = CountsOf(held)
    BY DEF CountsOf
  <2>3. QED  BY <1>1, <1>3, <2>1, <2>2 DEF RebuildRows
<1>5. ASSUME NEW v \in Writers \ {w}
      PROVE  /\ Locking(v)' => /\ lock'[tx'[v].source] = v
                               /\ tx'[v].stats = stats'[tx'[v].source] + Cardinality(tx'[v].new)
             /\ pc'[v] = "probe" /\ tx'[v].fresh => tx'[v].stats = Cardinality(tx'[v].new)
  <2>1. pc'[v] = pc[v] /\ tx'[v] = tx[v]
    BY SessionsDiffer DEF Alone
  <2>2. ASSUME Locking(v) PROVE lock'[tx[v].source] = v
    <3>1. lock[tx[v].source] = v
      BY <1>1, <2>2 DEF WriterCounts
    <3>2. tx[v].source \in Sources
      BY <1>1, <2>2 DEF WriterRows, Locking
    <3>3. QED  BY <3>1, <3>2, SessionsDiffer DEF RollupRows
  <2>3. QED  BY <1>1, <2>1, <2>2 DEF WriterCounts, Locking
<1>6. QED  BY <1>2, <1>4, <1>5

\* As long as a writer only goes on with rows it has inserted.
LEMMA RowsKeep ==
  ASSUME IInv, NEW w \in Writers, Alone(w), UNCHANGED held,
         Inserted(w), tx'[w].source = tx[w].source, tx'[w].new = tx[w].new
  PROVE  WriterRows'
<1>1. WriterRows
  BY DEF IInv
<1>2. \A v \in Writers : tx'[v].source = tx[v].source /\ tx'[v].new = tx[v].new
  BY DEF Alone
<1>3. \A v \in Writers : v # w => pc'[v] = pc[v]
  BY SessionsDiffer DEF Alone
<1>4. \A v \in Writers : Inserted(v)' => Inserted(v)
  BY <1>3 DEF Inserted
<1>5. \A v \in Writers : pc'[v] # "idle" => pc[v] # "idle"
  BY <1>3 DEF Inserted
<1>6. QED  BY <1>1, <1>2, <1>4, <1>5 DEF WriterRows

\* The frame of a step of w, from how it moves on and what it writes in its tx.
LEMMA AloneIs ==
  ASSUME Types, NEW w \in Writers, NEW stage, NEW t, Goto(w, stage),
         tx' = [tx EXCEPT ![w] = t], UNCHANGED rb
  PROVE  Alone(w) /\ pc'[w] = stage /\ tx'[w] = t
BY SessionsDiffer DEF Types, Alone, Goto

LEMMA TypesKept ==
  ASSUME Types, NEW w \in Writers, NEW stage \in WriterStages, NEW t, Goto(w, stage),
         tx' = [tx EXCEPT ![w] = t], DOMAIN t = TxFields, UNCHANGED <<rb, drifted>>,
         lock' \in [RollupRows -> Sessions \cup {Nobody}], overlapped' \in BOOLEAN,
         held' \in [Sources -> SUBSET Dates], stored' \in SUBSET RollupRows,
         stats' \in [Sources -> Nat]
  PROVE  Types'
<1>1. pc' \in [Sessions -> Stages] /\ \A v \in Writers : pc'[v] \in WriterStages
  BY SessionsDiffer DEF Types, Goto, Stages, WriterStages
<1>2. tx' = [v \in Writers |-> tx'[v]] /\ \A v \in Writers : DOMAIN tx'[v] = TxFields
  BY DEF Types
<1>3. QED  BY <1>1, <1>2 DEF Types

\* The operators on one lock.
LEMMA LockTypes ==
  ASSUME Types, NEW w \in Writers, NEW r \in RollupRows
  PROVE  /\ Take(w, r) => /\ lock' \in [RollupRows -> Sessions \cup {Nobody}]
                          /\ LocksKept(w) /\ lock'[r] = w
         /\ Release(w) => /\ lock' \in [RollupRows -> Sessions \cup {Nobody}]
                          /\ \A q \in RollupRows : lock[q] # w => lock'[q] = lock[q]
         /\ UNCHANGED lock => /\ lock' \in [RollupRows -> Sessions \cup {Nobody}]
                              /\ LocksKept(w)
BY SessionsDiffer DEF Types, Take, Release, LocksKept

\* A transaction that ends without a commit takes its rows with it.
LEMMA EndKeeps ==
  ASSUME IInv, NEW w \in Writers, Alone(w), UNCHANGED held, pc'[w] = "idle"
  PROVE  WriterRows'
<1>1. WriterRows
  BY DEF IInv
<1>2. \A v \in Writers : v # w => pc'[v] = pc[v] /\ tx'[v] = tx[v]
  BY SessionsDiffer DEF Alone
<1>3. ~Inserted(w)' /\ \A v \in Writers : v # w => (Inserted(v)' <=> Inserted(v))
  BY <1>2 DEF Inserted
<1>4. QED  BY <1>1, <1>2, <1>3 DEF WriterRows

LEMMA StepBegin == ASSUME IInv, NEW w \in Writers, Begin(w) PROVE IInv'
<1>1. Types /\ WriterRows
  BY DEF IInv
<1>2. PICK s \in Sources, D \in SUBSET Dates \ {{}} :
        tx' = [tx EXCEPT ![w] = [NoTx EXCEPT !.source = s, !.new = D \ held[s]]]
  BY DEF Begin
<1> DEFINE t == [NoTx EXCEPT !.source = s, !.new = D \ held[s]]
<1>3. DOMAIN t = TxFields /\ t.source = s /\ t.new = D \ held[s]
  BY DEF NoTx, TxFields
<1> HIDE DEF t
<1>4. /\ Goto(w, "insert") /\ tx' = [tx EXCEPT ![w] = t]
      /\ UNCHANGED <<held, stored, stats, lock, rb, overlapped, drifted>>
  BY <1>2 DEF Begin, tables, t
<1>5. Alone(w) /\ pc'[w] = "insert" /\ tx'[w] = t
  BY <1>1, <1>4, AloneIs
<1>6. Types'
  BY <1>1, <1>3, <1>4, TypesKept DEF WriterStages, Types
<1>7. WriterRows'
  <2>1. \A v \in Writers : v # w => pc'[v] = pc[v] /\ tx'[v] = tx[v]
    BY <1>5, SessionsDiffer DEF Alone
  <2>2. ~Inserted(w)' /\ \A v \in Writers : v # w => (Inserted(v)' <=> Inserted(v))
    BY <1>5, <2>1 DEF Inserted
  <2>3. t.source \in Sources /\ t.new \in SUBSET Dates
    BY <1>3
  <2>4. QED  BY <1>1, <1>4, <1>5, <2>1, <2>2, <2>3 DEF WriterRows
<1>8. ~Locking(w)' /\ pc'[w] # "probe"
  BY <1>5 DEF Locking
<1>9. QED  BY <1>4, <1>5, <1>6, <1>7, <1>8, OthersKeep DEF IInv, WriterCounts

LEMMA StepInsert == ASSUME IInv, NEW w \in Writers, Insert(w) PROVE IInv'
<1>1. Types /\ WriterRows
  BY DEF IInv
<1>2. tx' = [tx EXCEPT ![w] = tx[w]] /\ DOMAIN tx[w] = TxFields
  BY <1>1 DEF Insert, Types
<1>3. /\ Goto(w, "stats") /\ pc[w] = "insert"
      /\ UNCHANGED <<held, stored, stats, lock, tx, rb, overlapped, drifted>>
  BY DEF Insert, tables
<1>4. Alone(w) /\ pc'[w] = "stats" /\ tx' = tx
  BY <1>1, <1>2, <1>3, AloneIs
<1>5. Types'
  BY <1>1, <1>2, <1>3, TypesKept DEF WriterStages, Types
<1>6. WriterRows'
  <2>1. /\ tx[w].new \cap held[tx[w].source] = {}
        /\ \A v \in Writers \ {w} :
             Inserted(v) /\ tx[v].source = tx[w].source => tx[v].new \cap tx[w].new = {}
    BY DEF Insert, Duplicates
  <2>2. \A v \in Writers : v # w => pc'[v] = pc[v]
    BY <1>4, SessionsDiffer DEF Alone
  <2>3. \A v \in Writers : v # w => (Inserted(v)' <=> Inserted(v))
    BY <2>2 DEF Inserted
  <2>4. SUFFICES ASSUME NEW v \in Writers, pc'[v] # "idle"
        PROVE  /\ tx[v].source \in Sources /\ tx[v].new \in SUBSET Dates
               /\ Inserted(v)' => tx[v].new \cap held[tx[v].source] = {}
               /\ Inserted(v)' => \A u \in Writers \ {v} :
                    Inserted(u)' /\ tx[u].source = tx[v].source => tx[u].new \cap tx[v].new = {}
    BY <1>3, <1>4 DEF WriterRows
  <2>5. CASE v = w
    BY <1>1, <1>3, <2>1, <2>3, <2>5 DEF WriterRows
  <2>6. CASE v # w
    <3>1. pc[v] # "idle" /\ (Inserted(v)' <=> Inserted(v))
      BY <2>2, <2>3, <2>4, <2>6
    <3>2. ASSUME Inserted(v), NEW u \in Writers \ {v}, Inserted(u)', tx[u].source = tx[v].source
          PROVE  tx[u].new \cap tx[v].new = {}
      <4>1. CASE u = w
        BY <2>1, <2>6, <3>2, <4>1
      <4>2. CASE u # w
        BY <1>1, <2>3, <3>1, <3>2, <4>2 DEF WriterRows
      <4>3. QED  BY <4>1, <4>2
    <3>3. QED  BY <1>1, <3>1, <3>2 DEF WriterRows
  <2>7. QED  BY <2>5, <2>6
<1>7. ~Locking(w)' /\ pc'[w] # "probe"
  BY <1>4 DEF Locking
<1>8. QED  BY <1>3, <1>4, <1>5, <1>6, <1>7, OthersKeep DEF IInv, WriterCounts

\* The count is read under the lock of its row, or where there is no row to lock.
LEMMA StepLockStats == ASSUME IInv, NEW w \in Writers, LockStats(w) PROVE IInv'
<1>1. Types /\ WriterRows /\ NoRowNoCount
  BY DEF IInv
<1> DEFINE s     == tx[w].source
           fresh == s \notin stored
           count == stats[s] + Cardinality(tx[w].new)
           t     == [tx[w] EXCEPT !.fresh = fresh, !.stats = count]
<1>2. pc[w] = "stats" /\ SelectForUpdate(w, s) /\ Goto(w, "probe")
      /\ UNCHANGED <<held, stored, stats, rb, overlapped, drifted>>
  BY DEF LockStats, tables
<1>3. Inserted(w) /\ s \in Sources /\ tx[w].new \in SUBSET Dates
  BY <1>1, <1>2 DEF Inserted, WriterRows
<1>4. /\ tx' = [tx EXCEPT ![w] = t] /\ DOMAIN t = TxFields
      /\ t.source = s /\ t.new = tx[w].new /\ t.fresh = fresh /\ t.stats = count
  <2>1. tx' = [tx EXCEPT ![w].fresh = fresh, ![w].stats = count]
    BY DEF LockStats
  <2>2. DOMAIN tx[w] = TxFields
    BY <1>1 DEF Types
  <2> HIDE DEF s, fresh, count
  <2>3. tx' = [tx EXCEPT ![w] = t]
    BY <2>1
  <2>4. QED  BY <2>2, <2>3 DEF TxFields, s
<1> HIDE DEF t
<1>5. Alone(w) /\ pc'[w] = "probe" /\ tx'[w] = t
  BY <1>1, <1>2, <1>4, AloneIs
<1>6. /\ lock' \in [RollupRows -> Sessions \cup {Nobody}] /\ LocksKept(w)
      /\ ~fresh => lock'[s] = w
  BY <1>1, <1>2, <1>3, LockTypes DEF SelectForUpdate, RollupRows
<1>7. Types'
  BY <1>1, <1>2, <1>4, <1>6, TypesKept DEF WriterStages, Types
<1>8. WriterRows'
  BY <1>2, <1>3, <1>4, <1>5, RowsKeep
<1>9. /\ ~fresh => t.stats = stats[s] + Cardinality(t.new)
      /\ fresh => t.stats = Cardinality(t.new)
  <2>1. Cardinality(tx[w].new) \in Nat
    BY <1>3, DatesFinite
  <2>2. fresh => stats[s] = 0
    BY <1>1, <1>3 DEF NoRowNoCount
  <2>3. QED  BY <1>4, <2>1, <2>2
<1>10. WriterCounts'
  <2>1. \A q \in RollupRows : lock[q] \notin {w, Nobody} => lock'[q] = lock[q]
    BY <1>6 DEF LocksKept
  <2>2. \A v \in Writers \ {w} :
          /\ Locking(v)' => /\ lock'[tx'[v].source] = v
                            /\ tx'[v].stats = stats'[tx'[v].source] + Cardinality(tx'[v].new)
          /\ pc'[v] = "probe" /\ tx'[v].fresh => tx'[v].stats = Cardinality(tx'[v].new)
    BY <1>2, <1>5, <1>7, <2>1, OthersKeep
  <2>3. Locking(w)' => ~fresh
    BY <1>4, <1>5 DEF Locking
  <2>4. tx'[w].source = s /\ tx'[w].new = t.new /\ tx'[w].stats = t.stats
        /\ (tx'[w].fresh => fresh) /\ stats' = stats
    BY <1>2, <1>4, <1>5
  <2> HIDE DEF s, fresh
  <2>5. QED  BY <1>6, <1>9, <2>2, <2>3, <2>4 DEF WriterCounts
<1>11. QED  BY <1>2, <1>5, <1>6, <1>7, <1>8, <1>10, OthersKeep DEF IInv, LocksKept

\* Past the flush of its stats row every writer has the row to itself.
LEMMA StepProbe == ASSUME IInv, NEW w \in Writers, Probe(w) PROVE IInv'
<1>1. Types /\ WriterRows /\ WriterCounts /\ NoRowNoCount
  BY DEF IInv
<1> DEFINE s     == tx[w].source
           delta == CoexistingDelta(w)
           t     == [tx[w] EXCEPT !.delta = delta]
<1>2. pc[w] = "probe" /\ InsertIfFresh(w, s) /\ Goto(w, "coverage")
      /\ UNCHANGED <<held, stored, stats, rb, overlapped, drifted>>
  BY DEF Probe, tables
<1>3. Inserted(w) /\ s \in Sources /\ tx[w].new \in SUBSET Dates
  BY <1>1, <1>2 DEF Inserted, WriterRows
<1>4. /\ tx' = [tx EXCEPT ![w] = t] /\ DOMAIN t = TxFields
      /\ t.source = s /\ t.new = tx[w].new /\ t.stats = tx[w].stats
  <2>1. tx' = [tx EXCEPT ![w].delta = delta]
    BY DEF Probe
  <2>2. DOMAIN tx[w] = TxFields
    BY <1>1 DEF Types
  <2> HIDE DEF s, delta
  <2>3. tx' = [tx EXCEPT ![w] = t]
    BY <2>1
  <2>4. QED  BY <2>2, <2>3 DEF TxFields, s
<1> HIDE DEF t
<1>5. Alone(w) /\ pc'[w] = "coverage" /\ tx'[w] = t
  BY <1>1, <1>2, <1>4, AloneIs
<1>6. /\ lock' \in [RollupRows -> Sessions \cup {Nobody}] /\ LocksKept(w)
      /\ tx[w].fresh => lock'[s] = w /\ s \notin stored
  BY <1>1, <1>2, <1>3, LockTypes DEF InsertIfFresh, RollupRows
<1>7. Types'
  BY <1>1, <1>2, <1>4, <1>6, TypesKept DEF WriterStages, Types
<1>8. WriterRows'
  BY <1>2, <1>3, <1>4, <1>5, RowsKeep
<1>9. lock'[s] = w /\ t.stats = stats[s] + Cardinality(t.new)
  <2>1. Cardinality(tx[w].new) \in Nat
    BY <1>3, DatesFinite
  <2>2. CASE tx[w].fresh
    BY <1>1, <1>2, <1>3, <1>4, <1>6, <2>1, <2>2 DEF WriterCounts, NoRowNoCount
  <2>3. CASE ~tx[w].fresh
    <3>1. lock[s] = w /\ tx[w].stats = stats[s] + Cardinality(tx[w].new)
      BY <1>1, <1>2, <2>3 DEF WriterCounts, Locking
    <3>2. lock'[s] = lock[s]
      BY <1>3, <1>6, <3>1, SessionsDiffer DEF LocksKept, RollupRows
    <3>3. QED  BY <1>4, <3>1, <3>2
  <2>4. QED  BY <2>2, <2>3
<1>10. WriterCounts'
  BY <1>2, <1>4, <1>5, <1>6, <1>7, <1>9, OthersKeep DEF WriterCounts, LocksKept
<1>11. QED  BY <1>2, <1>5, <1>6, <1>7, <1>8, <1>10, OthersKeep DEF IInv, LocksKept

\* The coverage row is none of the stats rows.
LEMMA StepCoverage ==
  ASSUME IInv, NEW w \in Writers, LockCoverage(w) \/ Project(w)
  PROVE  IInv'
<1>1. Types /\ WriterRows /\ WriterCounts
  BY DEF IInv
<1> DEFINE s == tx[w].source
<1>2. PICK stage, t :
        /\ stage \in {"project", "commit"} /\ Goto(w, stage)
        /\ tx' = [tx EXCEPT ![w] = t] /\ DOMAIN t = TxFields
        /\ t.source = s /\ t.new = tx[w].new /\ t.stats = tx[w].stats
  <2>1. DOMAIN tx[w] = TxFields
    BY <1>1 DEF Types
  <2>2. CASE LockCoverage(w)
    <3> DEFINE fresh == Coverage \notin stored
               coex  == coexisting + tx[w].delta
               t     == [tx[w] EXCEPT !.fresh = fresh, !.coexisting = coex]
    <3>1. tx' = [tx EXCEPT ![w].fresh = fresh, ![w].coexisting = coex] /\ Goto(w, "project")
      BY <2>2 DEF LockCoverage
    <3> HIDE DEF fresh, coex, s
    <3>2. tx' = [tx EXCEPT ![w] = t] /\ DOMAIN t = TxFields
          /\ t.source = s /\ t.new = tx[w].new /\ t.stats = tx[w].stats
      BY <2>1, <3>1 DEF TxFields, s
    <3> HIDE DEF t
    <3>3. QED  BY <3>1, <3>2
  <2>3. CASE Project(w)
    <3> DEFINE sum == Projected(w)
               t   == [tx[w] EXCEPT !.points = sum]
    <3>1. tx' = [tx EXCEPT ![w].points = sum] /\ Goto(w, "commit")
      BY <2>3 DEF Project
    <3> HIDE DEF sum, s
    <3>2. tx' = [tx EXCEPT ![w] = t] /\ DOMAIN t = TxFields
          /\ t.source = s /\ t.new = tx[w].new /\ t.stats = tx[w].stats
      BY <2>1, <3>1 DEF TxFields, s
    <3> HIDE DEF t
    <3>3. QED  BY <3>1, <3>2
  <2>4. QED  BY <2>2, <2>3
<1>3. /\ pc[w] \in {"coverage", "project"}
      /\ UNCHANGED <<held, stored, stats, rb, overlapped, drifted>>
      /\ Take(w, Coverage) \/ UNCHANGED lock
  BY DEF LockCoverage, Project, SelectForUpdate, InsertIfFresh, tables
<1>4. Inserted(w) /\ s \in Sources /\ Locking(w) /\ Coverage \in RollupRows
  BY <1>1, <1>3 DEF Inserted, WriterRows, Locking, RollupRows
<1>5. Alone(w) /\ pc'[w] = stage /\ tx'[w] = t
  BY <1>1, <1>2, <1>3, AloneIs
<1>6. lock' \in [RollupRows -> Sessions \cup {Nobody}] /\ LocksKept(w)
  BY <1>1, <1>3, <1>4, LockTypes
<1>7. Types'
  BY <1>1, <1>2, <1>3, <1>6, TypesKept DEF WriterStages, Types
<1>8. WriterRows'
  BY <1>2, <1>3, <1>4, <1>5, RowsKeep
<1>9. lock'[s] = w /\ t.stats = stats[s] + Cardinality(t.new)
  <2>1. lock[s] = w /\ tx[w].stats = stats[s] + Cardinality(tx[w].new)
    BY <1>1, <1>4 DEF WriterCounts
  <2>2. lock'[s] = lock[s]
    BY <1>4, <1>6, <2>1, SessionsDiffer DEF LocksKept, RollupRows
  <2>3. QED  BY <1>2, <2>1, <2>2
<1>10. WriterCounts'
  BY <1>2, <1>3, <1>5, <1>6, <1>7, <1>9, OthersKeep DEF WriterCounts, LocksKept
<1>11. QED  BY <1>3, <1>5, <1>6, <1>7, <1>8, <1>10, OthersKeep DEF IInv, LocksKept

LEMMA StepAbort == ASSUME IInv, NEW w \in Writers, Abort(w) PROVE IInv'
<1>1. Types
  BY DEF IInv
<1>2. /\ Goto(w, "idle") /\ tx' = [tx EXCEPT ![w] = NoTx] /\ DOMAIN NoTx = TxFields
      /\ UNCHANGED <<held, stored, stats, rb, overlapped, drifted>>
  BY DEF Abort, tables, NoTx, TxFields
<1>3. Alone(w) /\ pc'[w] = "idle"
  BY <1>1, <1>2, AloneIs
<1>4. /\ lock' \in [RollupRows -> Sessions \cup {Nobody}]
      /\ \A q \in RollupRows : lock[q] # w => lock'[q] = lock[q]
  <2>1. Coverage \in RollupRows /\ Release(w)
    BY DEF Abort, RollupRows
  <2>2. QED  BY <1>1, <2>1, LockTypes
<1>5. Types'
  BY <1>1, <1>2, <1>4, TypesKept DEF WriterStages, Types
<1>6. WriterRows'
  BY <1>2, <1>3, EndKeeps
<1>7. ~Locking(w)' /\ pc'[w] # "probe"
  BY <1>3 DEF Locking
<1>8. QED  BY <1>2, <1>3, <1>4, <1>5, <1>6, <1>7, OthersKeep DEF IInv, WriterCounts

\* What is committed is the count that was locked, and rows that nobody else inserts.
LEMMA StepCommit == ASSUME IInv, NEW w \in Writers, Commit(w) PROVE IInv'
<1>1. Types /\ WriterRows /\ WriterCounts /\ NoRowNoCount /\ RebuildRows /\ StatsExact
  BY DEF IInv
<1> DEFINE s == tx[w].source
           n == tx[w].new
<1>2. /\ pc[w] = "commit" /\ Goto(w, "idle") /\ Release(w)
      /\ tx' = [tx EXCEPT ![w] = NoTx]
      /\ held' = [held EXCEPT ![s] = @ \cup n]
      /\ stored' = stored \cup {s, Coverage}
      /\ stats' = [stats EXCEPT ![s] = tx[w].stats]
      /\ overlapped' = (pc[Rebuilder] # "idle")
      /\ UNCHANGED <<rb, drifted>>
  BY DEF Commit
<1>3. Inserted(w) /\ Locking(w) /\ s \in Sources /\ n \in SUBSET Dates /\ n \cap held[s] = {}
  BY <1>1, <1>2 DEF Inserted, Locking, WriterRows
<1>4. lock[s] = w /\ tx[w].stats = stats[s] + Cardinality(n)
  BY <1>1, <1>3 DEF WriterCounts
<1>5. Alone(w) /\ pc'[w] = "idle" /\ tx'[w] = NoTx
  BY <1>1, <1>2, AloneIs
<1> HIDE DEF s, n
<1>6. stats[s] \in Nat /\ Cardinality(n) \in Nat /\ tx[w].stats \in Nat
  <2>1. stats[s] \in Nat /\ Cardinality(n) \in Nat
    BY <1>1, <1>3, DatesFinite DEF Types
  <2>2. QED  BY <1>4, <2>1
<1>7. /\ lock' \in [RollupRows -> Sessions \cup {Nobody}]
      /\ \A q \in RollupRows : lock[q] # w => lock'[q] = lock[q]
  <2>1. Coverage \in RollupRows
    BY DEF RollupRows
  <2>2. QED  BY <1>1, <1>2, <2>1, LockTypes
<1>8. Types'
  <2>1. held' \in [Sources -> SUBSET Dates] /\ stored' \in SUBSET RollupRows
    BY <1>1, <1>2, <1>3 DEF Types, RollupRows
  <2>2. stats' \in [Sources -> Nat]
    BY <1>1, <1>2, <1>6 DEF Types
  <2>3. overlapped' \in BOOLEAN /\ DOMAIN NoTx = TxFields /\ "idle" \in WriterStages
    BY <1>2 DEF NoTx, TxFields, WriterStages
  <2>4. QED  BY <1>1, <1>2, <1>7, <2>1, <2>2, <2>3, TypesKept
<1>9. \A v \in Writers : v # w => pc'[v] = pc[v] /\ tx'[v] = tx[v]
  BY <1>5, SessionsDiffer DEF Alone
<1>10. ~Inserted(w)' /\ \A v \in Writers : v # w => (Inserted(v)' <=> Inserted(v))
  BY <1>5, <1>9 DEF Inserted
<1>11. \A r \in Sources : r # s => held'[r] = held[r] /\ stats'[r] = stats[r]
  BY <1>1, <1>2 DEF Types
<1>12. held'[s] = held[s] \cup n /\ stats'[s] = tx[w].stats
  BY <1>1, <1>2, <1>3 DEF Types
<1>13. WriterRows'
  <2>1. SUFFICES ASSUME NEW v \in Writers, v # w, Inserted(v)
                 PROVE  tx[v].new \cap held'[tx[v].source] = {}
    BY <1>1, <1>5, <1>9, <1>10 DEF WriterRows
  <2>2. tx[v].source \in Sources /\ tx[v].new \cap held[tx[v].source] = {}
    BY <1>1, <2>1 DEF WriterRows, Inserted
  <2>3. CASE tx[v].source = s
    <3>1. tx[v].new \cap n = {}
      BY <1>1, <1>2, <1>3, <2>1, <2>3 DEF WriterRows, s, n
    <3>2. QED  BY <1>12, <2>2, <2>3, <3>1
  <2>4. CASE tx[v].source # s
    BY <1>11, <2>2, <2>4
  <2>5. QED  BY <2>3, <2>4
<1>14. WriterCounts'
  <2>1. SUFFICES ASSUME NEW v \in Writers, v # w
        PROVE  /\ Locking(v) => /\ lock'[tx[v].source] = v
                                /\ tx[v].stats = stats'[tx[v].source] + Cardinality(tx[v].new)
               /\ pc[v] = "probe" /\ tx[v].fresh => tx[v].stats = Cardinality(tx[v].new)
    BY <1>5, <1>9 DEF WriterCounts, Locking
  <2>2. ASSUME Locking(v)
        PROVE  /\ lock'[tx[v].source] = v
               /\ tx[v].stats = stats'[tx[v].source] + Cardinality(tx[v].new)
    <3>1. /\ lock[tx[v].source] = v
          /\ tx[v].stats = stats[tx[v].source] + Cardinality(tx[v].new)
      BY <1>1, <2>2 DEF WriterCounts
    <3>2. tx[v].source \in Sources
      BY <1>1, <2>2 DEF WriterRows, Locking
    <3>3. tx[v].source # s
      BY <1>4, <2>1, <3>1
    <3>4. QED  BY <1>7, <1>11, <2>1, <3>1, <3>2, <3>3 DEF RollupRows
  <2>3. QED  BY <1>1, <2>2 DEF WriterCounts
<1>15. NoRowNoCount'
  BY <1>1, <1>2, <1>11 DEF NoRowNoCount
<1>16. StatsExact'
  <2>1. SUFFICES ASSUME ~drifted, NEW r \in Sources PROVE stats'[r] = Cardinality(held'[r])
    BY <1>2, <1>8 DEF StatsExact, CountsOf, Types
  <2>2. stats = CountsOf(held)
    BY <1>1, <2>1 DEF StatsExact
  <2>3. stats[r] = Cardinality(held[r])
    BY <2>2 DEF CountsOf
  <2>4. CASE r = s
    <3>1. held[s] \in SUBSET Dates
      BY <1>1, <1>3 DEF Types
    <3>2. Cardinality(held[s] \cup n) = Cardinality(held[s]) + Cardinality(n)
      BY <1>3, <3>1, CountNew
    <3>3. QED  BY <1>4, <1>12, <2>3, <2>4, <3>2
  <2>5. CASE r # s
    BY <1>11, <2>3, <2>5
  <2>6. QED  BY <2>4, <2>5
<1>17. RebuildRows'
  <2>1. pc'[Rebuilder] = pc[Rebuilder] /\ rb' = rb
    BY <1>5, SessionsDiffer DEF Alone
  <2>2. ASSUME pc[Rebuilder] \in {"coexist", "commit"}, NEW r \in rb.changed \cup rb.fresh
        PROVE  lock'[r] = Rebuilder
    <3>1. lock[r] = Rebuilder /\ r \in Sources
      BY <1>1, <2>2 DEF RebuildRows
    <3>2. QED  BY <1>7, <3>1, SessionsDiffer DEF RollupRows
  <2>3. QED  BY <1>1, <1>2, <2>1, <2>2 DEF RebuildRows
<1>18. QED  BY <1>8, <1>13, <1>14, <1>15, <1>16, <1>17 DEF IInv

--------------------------------------------------------------------------------
(* The steps of the rebuild                                                 *)

\* What a step of the rebuild leaves alone.
LEMMA RebuildFrame ==
  ASSUME IInv, NEW stage \in Stages, Goto(Rebuilder, stage),
         UNCHANGED <<held, tx>>, DOMAIN rb' = RbFields,
         lock' \in [RollupRows -> Sessions \cup {Nobody}],
         stored' \in SUBSET RollupRows, stats' \in [Sources -> Nat],
         drifted' \in BOOLEAN, overlapped' \in BOOLEAN
  PROVE  /\ Types' /\ WriterRows'
         /\ pc'[Rebuilder] = stage /\ \A w \in Writers : pc'[w] = pc[w]
<1>1. Types /\ WriterRows
  BY DEF IInv
<1>2. /\ pc'[Rebuilder] = stage /\ \A w \in Writers : pc'[w] = pc[w]
      /\ pc' \in [Sessions -> Stages]
  BY <1>1, SessionsDiffer DEF Types, Goto
<1>3. Types'
  BY <1>1, <1>2 DEF Types
<1>4. \A w \in Writers : Inserted(w)' <=> Inserted(w)
  BY <1>2 DEF Inserted
<1>5. WriterRows'
  BY <1>1, <1>2, <1>4 DEF WriterRows
<1>6. QED  BY <1>2, <1>3, <1>5

\* The counts of the writers stand if their locks and the locked counts do.
LEMMA WritersKeep ==
  ASSUME IInv, UNCHANGED tx, \A w \in Writers : pc'[w] = pc[w],
         \A s \in Sources : lock[s] \in Writers => lock'[s] = lock[s] /\ stats'[s] = stats[s]
  PROVE  WriterCounts'
<1>1. Types /\ WriterRows /\ WriterCounts
  BY DEF IInv
<1>2. SUFFICES ASSUME NEW w \in Writers, Locking(w)
               PROVE  /\ lock'[tx[w].source] = w
                      /\ tx[w].stats = stats'[tx[w].source] + Cardinality(tx[w].new)
  BY <1>1 DEF WriterCounts, Locking
<1>3. lock[tx[w].source] = w /\ tx[w].stats = stats[tx[w].source] + Cardinality(tx[w].new)
  BY <1>1, <1>2 DEF WriterCounts
<1>4. tx[w].source \in Sources
  BY <1>1, <1>2 DEF WriterRows, Locking
<1>5. QED  BY <1>3, <1>4

LEMMA StepRebuildCount == ASSUME IInv, RebuildCount PROVE IInv'
<1>1. Types /\ NoRowNoCount /\ StatsExact
  BY DEF IInv
<1>2. /\ Goto(Rebuilder, "load") /\ overlapped' = FALSE
      /\ \E whole \in BOOLEAN : rb' = [NoRb EXCEPT !.counts = CountsOf(held), !.whole = whole]
      /\ UNCHANGED <<held, stored, stats, lock, tx, drifted>>
  BY DEF RebuildCount, tables
<1>3. DOMAIN rb' = RbFields /\ rb'.counts = CountsOf(held)
  BY <1>2 DEF NoRb, RbFields
<1>4. Types' /\ WriterRows' /\ pc'[Rebuilder] = "load" /\ \A w \in Writers : pc'[w] = pc[w]
  BY <1>1, <1>2, <1>3, RebuildFrame DEF Types, Stages
<1>5. WriterCounts'
  BY <1>2, <1>4, WritersKeep
<1>6. CountsOf(held) \in [Sources -> Nat]
  BY <1>1, DatesFinite DEF Types, CountsOf
<1>7. RebuildRows'
  BY <1>2, <1>3, <1>4, <1>6 DEF RebuildRows, CountsOf
<1>8. QED  BY <1>1, <1>2, <1>4, <1>5, <1>7 DEF IInv, NoRowNoCount, StatsExact, CountsOf

LEMMA StepRebuildLoad == ASSUME IInv, RebuildLoad PROVE IInv'
<1>1. Types /\ NoRowNoCount /\ StatsExact /\ RebuildRows
  BY DEF IInv
<1> DEFINE counted == {s \in Sources : rb.counts[s] > 0}
           cached  == stored \ {Coverage}
           changed == {s \in cached : rb.counts[s] = 0 \/ rb.counts[s] # stats[s]}
<1>2. /\ Goto(Rebuilder, "flush") /\ pc[Rebuilder] = "load"
      /\ rb' = [rb EXCEPT !.known = counted \cup cached, !.changed = changed,
                          !.fresh = counted \ cached]
      /\ UNCHANGED <<held, stored, stats, lock, tx, drifted, overlapped>>
  BY DEF RebuildLoad, tables
<1>3. /\ DOMAIN rb' = RbFields /\ rb'.counts = rb.counts
      /\ rb'.known = counted \cup cached /\ rb'.changed = changed
      /\ rb'.fresh = counted \ cached
  <2>1. DOMAIN rb = RbFields
    BY <1>1 DEF Types
  <2> HIDE DEF counted, cached, changed
  <2>2. QED  BY <1>2, <2>1 DEF RbFields
<1>4. Types' /\ WriterRows' /\ pc'[Rebuilder] = "flush" /\ \A w \in Writers : pc'[w] = pc[w]
  BY <1>1, <1>2, <1>3, RebuildFrame DEF Types, Stages
<1>5. WriterCounts'
  BY <1>2, <1>4, WritersKeep
<1>6. rb.counts \in [Sources -> Nat] /\ (~overlapped => rb.counts = CountsOf(held))
  BY <1>1, <1>2 DEF RebuildRows
<1>7. cached \subseteq Sources
  BY <1>1 DEF Types, RollupRows
<1>8. \A s \in Sources \ (changed \cup (counted \ cached)) : stats[s] = rb.counts[s]
  <2>1. SUFFICES ASSUME NEW s \in Sources, s \notin changed, s \notin counted \ cached
                 PROVE  stats[s] = rb.counts[s]
    OBVIOUS
  <2>2. CASE s \in cached
    BY <2>1, <2>2
  <2>3. CASE s \notin cached
    <3>1. rb.counts[s] = 0
      BY <1>6, <2>1, <2>3
    <3>2. s \notin stored
      BY <2>1, <2>3, SourceAssumption
    <3>3. QED  BY <1>1, <3>1, <3>2 DEF NoRowNoCount
  <2>4. QED  BY <2>2, <2>3
<1>9. /\ counted \cup cached \subseteq Sources
      /\ changed \cup (counted \ cached) \subseteq counted \cup cached
      /\ \A s \in counted \cup cached : rb.counts[s] = 0 => s \in changed
  BY <1>7
<1> HIDE DEF counted, cached, changed
<1>10. RebuildRows'
  <2>1. CountsOf(held)' = CountsOf(held)
    BY <1>2 DEF CountsOf
  <2>2. QED  BY <1>2, <1>3, <1>4, <1>6, <1>8, <1>9, <2>1 DEF RebuildRows
<1>11. QED  BY <1>1, <1>2, <1>4, <1>5, <1>10 DEF IInv, NoRowNoCount, StatsExact, CountsOf

LEMMA StepRebuildFlush == ASSUME IInv, RebuildFlush PROVE IInv'
<1>1. Types /\ NoRowNoCount /\ StatsExact /\ RebuildRows
  BY DEF IInv
<1>2. /\ Goto(Rebuilder, "coexist") /\ pc[Rebuilder] = "flush"
      /\ \A s \in rb.changed \cup rb.fresh : lock[s] = Nobody
      /\ lock' = [r \in RollupRows |->
                    IF r \in rb.changed \cup rb.fresh THEN Rebuilder ELSE lock[r]]
      /\ UNCHANGED <<held, stored, stats, tx, rb, drifted, overlapped>>
  BY DEF RebuildFlush, tables
<1>3. lock' \in [RollupRows -> Sessions \cup {Nobody}]
  BY <1>1, <1>2, SessionsDiffer DEF Types
<1>4. Types' /\ WriterRows' /\ pc'[Rebuilder] = "coexist" /\ \A w \in Writers : pc'[w] = pc[w]
  BY <1>1, <1>2, <1>3, RebuildFrame DEF Types, Stages
<1>5. \A s \in Sources : lock[s] \in Writers => lock'[s] = lock[s]
  BY <1>2, SessionsDiffer DEF RollupRows
<1>6. WriterCounts'
  BY <1>2, <1>4, <1>5, WritersKeep
<1>7. \A s \in rb.changed \cup rb.fresh : lock'[s] = Rebuilder
  BY <1>1, <1>2 DEF RebuildRows, RollupRows
<1>8. RebuildRows'
  <2>1. CountsOf(held)' = CountsOf(held)
    BY <1>2 DEF CountsOf
  <2>2. QED  BY <1>1, <1>2, <1>4, <1>7, <2>1 DEF RebuildRows
<1>9. QED  BY <1>1, <1>2, <1>4, <1>6, <1>8 DEF IInv, NoRowNoCount, StatsExact, CountsOf

LEMMA StepRebuildCoexist == ASSUME IInv, RebuildCoexist PROVE IInv'
<1>1. Types /\ NoRowNoCount /\ StatsExact /\ RebuildRows
  BY DEF IInv
<1> DEFINE c == CoexistingOf(held)
<1>2. /\ Goto(Rebuilder, "commit") /\ pc[Rebuilder] = "coexist"
      /\ rb' = [rb EXCEPT !.coexisting = c]
      /\ UNCHANGED <<held, stored, stats, lock, tx, drifted, overlapped>>
  BY DEF RebuildCoexist, tables
<1> HIDE DEF c
<1>3. /\ DOMAIN rb' = RbFields /\ rb'.counts = rb.counts /\ rb'.known = rb.known
      /\ rb'.changed = rb.changed /\ rb'.fresh = rb.fresh
  BY <1>1, <1>2 DEF Types, RbFields
<1>4. Types' /\ WriterRows' /\ pc'[Rebuilder] = "commit" /\ \A w \in Writers : pc'[w] = pc[w]
  BY <1>1, <1>2, <1>3, RebuildFrame DEF Types, Stages
<1>5. WriterCounts'
  BY <1>2, <1>4, WritersKeep
<1>6. RebuildRows'
  <2>1. CountsOf(held)' = CountsOf(held)
    BY <1>2 DEF CountsOf
  <2>2. QED  BY <1>1, <1>2, <1>3, <1>4, <2>1 DEF RebuildRows
<1>7. QED  BY <1>1, <1>2, <1>4, <1>5, <1>6 DEF IInv, NoRowNoCount, StatsExact, CountsOf

\* The rows that are not written hold what was counted, or a write overlapped.
LEMMA StepRebuildCommit == ASSUME IInv, RebuildCommit PROVE IInv'
<1>1. Types /\ NoRowNoCount /\ RebuildRows
  BY DEF IInv
<1> DEFINE written == rb.changed \cup rb.fresh
           kept == {s \in Sources : rb.counts[s] > 0} \cup (stored \ (rb.known \cup {Coverage}))
<1>2. /\ Goto(Rebuilder, "idle") /\ pc[Rebuilder] = "commit" /\ Release(Rebuilder)
      /\ stats' = [s \in Sources |-> IF s \in written THEN rb.counts[s] ELSE stats[s]]
      /\ stored' = kept \cup IF Touched THEN {Coverage} ELSE {}
      /\ rb' = NoRb /\ drifted' = overlapped
      /\ UNCHANGED <<held, tx, overlapped>>
  BY DEF RebuildCommit
<1>3. DOMAIN rb' = RbFields
  BY <1>2 DEF NoRb, RbFields
<1>4. /\ rb.counts \in [Sources -> Nat]
      /\ ~overlapped => rb.counts = CountsOf(held)
      /\ rb.known \subseteq Sources /\ written \subseteq rb.known
      /\ \A s \in rb.known : rb.counts[s] = 0 => s \in rb.changed
      /\ ~overlapped => \A s \in Sources \ written : stats[s] = rb.counts[s]
      /\ \A s \in written : lock[s] = Rebuilder
  BY <1>1, <1>2 DEF RebuildRows
<1>5. kept \subseteq RollupRows /\ \A s \in Sources \ kept : rb.counts[s] = 0
  BY <1>1, <1>4 DEF Types, RollupRows
<1>6. stats' \in [Sources -> Nat] /\ stored' \in SUBSET RollupRows
  <2>1. stats' \in [Sources -> Nat]
    BY <1>1, <1>2, <1>4 DEF Types
  <2>2. stored' \in SUBSET RollupRows
    <3> HIDE DEF kept
    <3>1. QED  BY <1>2, <1>5 DEF RollupRows
  <2>3. QED  BY <2>1, <2>2
<1>7. /\ lock' \in [RollupRows -> Sessions \cup {Nobody}]
      /\ \A q \in RollupRows : lock[q] # Rebuilder => lock'[q] = lock[q]
  BY <1>1, <1>2, SessionsDiffer DEF Release, Types
<1>8. Types' /\ WriterRows' /\ pc'[Rebuilder] = "idle" /\ \A w \in Writers : pc'[w] = pc[w]
  BY <1>1, <1>2, <1>3, <1>6, <1>7, RebuildFrame DEF Types, Stages
<1>9. WriterCounts'
  <2>1. \A s \in Sources : lock[s] \in Writers => lock'[s] = lock[s] /\ stats'[s] = stats[s]
    BY <1>2, <1>4, <1>7, SessionsDiffer DEF RollupRows
  <2>2. QED  BY <1>2, <1>8, <2>1, WritersKeep
<1>10. NoRowNoCount'
  <2>1. SUFFICES ASSUME NEW s \in Sources, s \notin stored' PROVE stats'[s] = 0
    BY DEF NoRowNoCount
  <2>2. s \notin kept
    BY <1>2, <2>1
  <2>3. rb.counts[s] = 0
    BY <1>5, <2>2
  <2>4. CASE s \in written
    BY <1>2, <2>3, <2>4
  <2>5. CASE s \notin written
    <3>1. s \notin rb.known
      BY <1>4, <2>3, <2>5
    <3>2. s \notin stored
      BY <2>2, <3>1, SourceAssumption
    <3>3. QED  BY <1>1, <1>2, <2>5, <3>2 DEF NoRowNoCount
  <2>6. QED  BY <2>4, <2>5
<1>11. StatsExact'
  <2>1. SUFFICES ASSUME ~overlapped PROVE stats' = CountsOf(held)
    BY <1>2 DEF StatsExact, CountsOf
  <2>2. \A s \in Sources : stats'[s] = rb.counts[s]
    BY <1>2, <1>4, <2>1
  <2>3. rb.counts = CountsOf(held)
    BY <1>4, <2>1
  <2>4. QED  BY <1>6, <2>2, <2>3 DEF CountsOf
<1>12. RebuildRows'
  BY <1>8 DEF RebuildRows
<1>13. QED  BY <1>8, <1>9, <1>10, <1>11, <1>12 DEF IInv

LEMMA StepRebuildAbort == ASSUME IInv, RebuildAbort PROVE IInv'
<1>1. Types /\ NoRowNoCount /\ StatsExact
  BY DEF IInv
<1>2. /\ Goto(Rebuilder, "idle") /\ Release(Rebuilder) /\ rb' = NoRb
      /\ UNCHANGED <<held, stored, stats, tx, drifted, overlapped>>
  BY DEF RebuildAbort, tables
<1>3. DOMAIN rb' = RbFields
  BY <1>2 DEF NoRb, RbFields
<1>4. /\ lock' \in [RollupRows -> Sessions \cup {Nobody}]
      /\ \A q \in RollupRows : lock[q] # Rebuilder => lock'[q] = lock[q]
  BY <1>1, <1>2, SessionsDiffer DEF Release, Types
<1>5. Types' /\ WriterRows' /\ pc'[Rebuilder] = "idle" /\ \A w \in Writers : pc'[w] = pc[w]
  BY <1>1, <1>2, <1>3, <1>4, RebuildFrame DEF Types, Stages
<1>6. WriterCounts'
  <2>1. \A s \in Sources : lock[s] \in Writers => lock'[s] = lock[s]
    BY <1>4, SessionsDiffer DEF RollupRows
  <2>2. QED  BY <1>2, <1>5, <2>1, WritersKeep
<1>7. RebuildRows'
  BY <1>5 DEF RebuildRows
<1>8. QED  BY <1>1, <1>2, <1>5, <1>6, <1>7 DEF IInv, NoRowNoCount, StatsExact, CountsOf

LEMMA Invariant == Spec => []IInv
<1>1. IInv /\ [Next]_vars => IInv'
  <2>1. SUFFICES ASSUME IInv, [Next]_vars PROVE IInv'
    OBVIOUS
  <2>2. CASE UNCHANGED vars
    BY <2>1, <2>2 DEF vars, tables, IInv, Types, WriterRows, WriterCounts, NoRowNoCount,
       RebuildRows, StatsExact, Inserted, Locking, CountsOf
  <2>3. QED
    BY <2>1, <2>2, StepBegin, StepInsert, StepLockStats, StepProbe, StepCoverage, StepCommit,
       StepAbort, StepRebuildCount, StepRebuildLoad, StepRebuildFlush, StepRebuildCoexist,
       StepRebuildCommit, StepRebuildAbort DEF Next, WriterStep, RebuildStep
<1>2. QED  BY InitInv, <1>1, PTL DEF Spec

\* However many writers of a source interleave, and whichever of them fail, its count
\* is that of its rows, until a rebuild commits over a write it did not see.
THEOREM StatsStayExact == Spec => []StatsExact
<1>1. IInv => StatsExact
  BY DEF IInv
<1>2. QED  BY <1>1, Invariant, PTL

--------------------------------------------------------------------------------
(* Totals and points                                                        *)

\* Total counts one pair for each row.
Pairs(f) == UNION {{s} \X (1 .. f[s]) : s \in Sources}

LEMMA PairsFinite ==
  ASSUME NEW f \in [Sources -> Nat]
  PROVE  IsFiniteSet(Pairs(f)) /\ Total(f) \in Nat
<1> DEFINE T == {{s} \X (1 .. f[s]) : s \in Sources}
           g == [s \in Sources |-> {s} \X (1 .. f[s])]
<1>1. g \in Surjection(Sources, T)
  BY DEF Surjection
<1>2. IsFiniteSet(T)
  BY <1>1, SourceAssumption, FS_Surjection
<1>3. ASSUME NEW s \in Sources PROVE IsFiniteSet({s} \X (1 .. f[s]))
  <2>1. 1 \in Int /\ f[s] \in Int
    OBVIOUS
  <2>2. IsFiniteSet(1 .. f[s])
    BY <2>1, FS_Interval
  <2>3. IsFiniteSet({s})
    BY FS_Singleton
  <2>4. QED  BY <2>2, <2>3, FS_Product
<1>4. \A U \in T : IsFiniteSet(U)
  BY <1>3
<1> HIDE DEF T
<1>5. IsFiniteSet(UNION T)
  BY <1>2, <1>4, FS_UNION
<1>6. IsFiniteSet(Pairs(f))
  BY <1>5 DEF Pairs, T
<1>7. QED  BY <1>6, FS_CardinalityType DEF Pairs, Total

LEMMA PairIs ==
  ASSUME NEW f \in [Sources -> Nat], NEW s, NEW i
  PROVE  <<s, i>> \in Pairs(f) <=> s \in Sources /\ i \in 1 .. f[s]
BY DEF Pairs

\* Rows that are added to one source add to the total.
LEMMA TotalGrows ==
  ASSUME NEW f \in [Sources -> Nat], NEW s \in Sources, NEW n \in Nat
  PROVE  Total([f EXCEPT ![s] = f[s] + n]) = Total(f) + n
<1> DEFINE g   == [f EXCEPT ![s] = f[s] + n]
           new == {s} \X (f[s] + 1 .. f[s] + n)
<1>1. g \in [Sources -> Nat] /\ g[s] = f[s] + n /\ \A r \in Sources : r # s => g[r] = f[r]
  OBVIOUS
<1>2. IsFiniteSet(new) /\ Cardinality(new) = n
  <2>1. IsFiniteSet({s}) /\ Cardinality({s}) = 1
    BY FS_Singleton
  <2> DEFINE a == f[s] + 1
             b == f[s] + n
  <2>2. a \in Int /\ b \in Int /\ b - a + 1 = n /\ (a > b => n = 0)
    OBVIOUS
  <2> HIDE DEF a, b
  <2>3. IsFiniteSet(a .. b) /\ Cardinality(a .. b) = IF a > b THEN 0 ELSE b - a + 1
    BY <2>2, FS_Interval
  <2>4. IsFiniteSet({s} \X (a .. b)) /\ Cardinality({s} \X (a .. b)) = Cardinality({s}) * Cardinality(a .. b)
    BY <2>1, <2>3, FS_Product
  <2>5. Cardinality(a .. b) = n
    BY <2>2, <2>3
  <2>6. Cardinality({s} \X (a .. b)) = n
    BY <2>1, <2>4, <2>5
  <2>7. QED  BY <2>4, <2>6 DEF a, b
<1>3. Pairs(g) = Pairs(f) \cup new
  <2>1. ASSUME NEW r \in Sources PROVE {r} \X (1 .. g[r]) = ({r} \X (1 .. f[r])) \cup IF r = s THEN new ELSE {}
    <3>1. f[s] \in Nat
      OBVIOUS
    <3>2. 1 .. f[s] + n = (1 .. f[s]) \cup (f[s] + 1 .. f[s] + n)
      BY <3>1
    <3>3. CASE r = s
      BY <1>1, <3>2, <3>3
    <3>4. CASE r # s
      BY <1>1, <3>4
    <3>5. QED  BY <3>3, <3>4
  <2> HIDE DEF g, new
  <2>2. ASSUME NEW x PROVE x \in Pairs(g) <=> x \in Pairs(f) \/ x \in new
    <3>1. x \in Pairs(g) <=> \E r \in Sources : x \in {r} \X (1 .. g[r])
      BY DEF Pairs
    <3>2. x \in Pairs(f) <=> \E r \in Sources : x \in {r} \X (1 .. f[r])
      BY DEF Pairs
    <3>3. \A r \in Sources : x \in {r} \X (1 .. g[r]) <=>
            x \in {r} \X (1 .. f[r]) \/ (r = s /\ x \in new)
      BY <2>1
    <3>4. QED  BY <3>1, <3>2, <3>3, Zenon
  <2>3. QED  BY <2>2
<1>4. Pairs(f) \cap new = {}
  <2>1. ASSUME NEW i \in f[s] + 1 .. f[s] + n, <<s, i>> \in Pairs(f) PROVE FALSE
    BY <2>1, PairIs
  <2>2. QED  BY <2>1
<1> HIDE DEF g, new
<1>5. Cardinality(Pairs(f) \cup new) = Cardinality(Pairs(f)) + Cardinality(new) - Cardinality({})
  BY <1>2, <1>4, PairsFinite, FS_Union
<1>6. Total(g) = Cardinality(Pairs(g)) /\ Total(f) = Cardinality(Pairs(f)) /\ Total(f) \in Nat
  BY PairsFinite DEF Total, Pairs
<1>7. Cardinality({}) = 0
  BY FS_EmptySet
<1>8. Total(g) = Total(f) + n
  BY <1>2, <1>3, <1>5, <1>6, <1>7
<1>9. QED  BY <1>8 DEF g

LEMMA TotalOfNothing ==
  ASSUME NEW f \in [Sources -> Nat], \A s \in Sources : f[s] = 0
  PROVE  Total(f) = 0
<1>1. \A s \in Sources : {s} \X (1 .. f[s]) = {}
  OBVIOUS
<1>2. Pairs(f) = {}
  BY <1>1 DEF Pairs
<1>3. QED  BY <1>2, FS_EmptySet DEF Total, Pairs

Buckets(D) == {Bucket[d] : d \in D}

LEMMA BucketsCount ==
  ASSUME NEW D, IsFiniteSet(D)
  PROVE  /\ IsFiniteSet(Buckets(D))
         /\ Cardinality(Buckets(D)) \in Nat /\ Cardinality(Buckets(D)) <= Cardinality(D)
<1> DEFINE g == [d \in D |-> Bucket[d]]
<1>1. g \in Surjection(D, Buckets(D))
  BY DEF Surjection, Buckets
<1>2. QED  BY <1>1, FS_Surjection, FS_CardinalityType

LEMMA PointsCount ==
  ASSUME NEW h \in [Sources -> SUBSET Dates]
  PROVE  /\ PointsOf(h) = Buckets(UNION {h[s] : s \in Sources})
         /\ IsFiniteSet(PointsOf(h)) /\ Cardinality(PointsOf(h)) \in Nat
<1> DEFINE D == UNION {h[s] : s \in Sources}
<1>1. D \in SUBSET Dates /\ PointsOf(h) = Buckets(D)
  BY DEF PointsOf, Buckets
<1> HIDE DEF D
<1>2. IsFiniteSet(D)
  BY <1>1, DatesFinite
<1>3. QED  BY <1>1, <1>2, BucketsCount DEF D

\* A point has a row: of one source, its number in an enumeration of the dates.
LEMMA PointsAreCovered ==
  ASSUME NEW h \in [Sources -> SUBSET Dates]
  PROVE  /\ CountsOf(h) \in [Sources -> Nat]
         /\ Cardinality(PointsOf(h)) <= Total(CountsOf(h))
<1> DEFINE c == CountsOf(h)
           b == [s \in Sources |-> CHOOSE g : g \in Bijection(1 .. Cardinality(h[s]), h[s])]
           p == [x \in Pairs(c) |-> Bucket[b[x[1]][x[2]]]]
<1>1. c \in [Sources -> Nat] /\ \A s \in Sources : c[s] = Cardinality(h[s])
  BY DatesFinite DEF CountsOf
<1>2. ASSUME NEW s \in Sources PROVE b[s] \in Surjection(1 .. c[s], h[s])
  <2>1. IsFiniteSet(h[s])
    BY DatesFinite
  <2>2. ExistsBijection(1 .. Cardinality(h[s]), h[s])
    BY <2>1, FS_CardinalityType
  <2>3. b[s] \in Bijection(1 .. Cardinality(h[s]), h[s])
    BY <2>2 DEF ExistsBijection
  <2>4. QED  BY <1>1, <2>3 DEF Bijection
<1> HIDE DEF c, b
<1>3. \A x \in Pairs(c) : p[x] \in PointsOf(h)
  <2>1. SUFFICES ASSUME NEW x \in Pairs(c) PROVE p[x] \in PointsOf(h)
    OBVIOUS
  <2>2. PICK s \in Sources : \E i \in 1 .. c[s] : x = <<s, i>>
    BY DEF Pairs
  <2>3. PICK i \in 1 .. c[s] : x = <<s, i>>
    BY <2>2
  <2>4. b[s][i] \in h[s]
    BY <1>2 DEF Surjection
  <2>5. p[x] = Bucket[b[s][i]]
    BY <2>1, <2>3
  <2>6. QED  BY <2>4, <2>5 DEF PointsOf
<1>4. \A y \in PointsOf(h) : \E x \in Pairs(c) : p[x] = y
  <2>1. SUFFICES ASSUME NEW s \in Sources, NEW d \in h[s]
                 PROVE  \E x \in Pairs(c) : p[x] = Bucket[d]
    BY DEF PointsOf
  <2>2. PICK i \in 1 .. c[s] : b[s][i] = d
    BY <1>2 DEF Surjection
  <2>3. <<s, i>> \in Pairs(c)
    BY <1>1, PairIs
  <2>4. p[<<s, i>>] = Bucket[d]
    BY <2>2, <2>3
  <2>5. QED  BY <2>3, <2>4
<1>5. p \in Surjection(Pairs(c), PointsOf(h))
  <2>1. p \in [Pairs(c) -> PointsOf(h)]
    BY <1>3
  <2> HIDE DEF p
  <2>2. QED  BY <1>4, <2>1 DEF Surjection
<1>6. IsFiniteSet(Pairs(c))
  BY <1>1, PairsFinite
<1>7. Cardinality(PointsOf(h)) <= Cardinality(Pairs(c))
  BY <1>5, <1>6, FS_Surjection
<1>8. QED  BY <1>1, <1>7 DEF Total, Pairs, c

--------------------------------------------------------------------------------
(* The coverage row: the figure a writer adds to, and what it sums          *)

\* Past LockCoverage, with the coverage row locked or inserted.
CoverageLocking(w) == pc[w] = "commit" \/ (pc[w] = "project" /\ ~tx[w].fresh)

\* A writer counts as coexisting points of its dates that are held, of some source:
\* held rows stay, so what it counted early is still there when it commits.
Probed(w) ==
  pc[w] \in {"coverage", "project", "commit"} =>
    /\ tx[w].delta \in Nat
    /\ tx[w].delta <= Cardinality(Buckets(tx[w].new) \cap PointsOf(held))

\* It adds them to the figure that is committed, which nobody else may change.
Coexists(w) ==
  /\ CoverageLocking(w) => /\ lock[Coverage] = w
                           /\ tx[w].coexisting = coexisting + tx[w].delta
  /\ pc[w] = "project" /\ tx[w].fresh => tx[w].coexisting = tx[w].delta

\* What it summed still stands: the counts of other sources commit with the coverage
\* row, which is locked.
Sums(w) == pc[w] = "commit" => tx[w].points = Projected(w)

WriterFigures == \A w \in Writers : Probed(w) /\ Coexists(w) /\ Sums(w)

NoRowNoFigure == Coverage \notin stored => coexisting = 0

RebuildFigure ==
  pc[Rebuilder] = "commit" =>
    /\ rb.coexisting \in Nat
    /\ ~overlapped => rb.coexisting = CoexistingOf(held)

\* Coexisting points are counted at most once for each row that is not the first of
\* its point.
NotOvercounted == ~drifted => coexisting + Cardinality(PointsOf(held)) <= Total(stats)

CoverageInv ==
  /\ coexisting \in Nat /\ points \in Int
  /\ WriterFigures /\ NoRowNoFigure /\ RebuildFigure /\ CoverageProjected /\ NotOvercounted

LEMMA InitCoverage == Init => CoverageInv
<1> SUFFICES ASSUME Init PROVE CoverageInv
  OBVIOUS
<1>1. \A x \in Sessions : pc[x] = "idle"
  BY DEF Init
<1>2. WriterFigures /\ RebuildFigure
  BY <1>1, SessionsDiffer DEF WriterFigures, Probed, Coexists, CoverageLocking, Sums, RebuildFigure
<1>3. Total(stats) = 0
  BY TotalOfNothing DEF Init
<1>4. PointsOf(held) = {}
  BY DEF Init, PointsOf
<1>5. coexisting = 0 /\ points = 0 /\ Cardinality(PointsOf(held)) = 0
  BY <1>4, FS_EmptySet DEF Init
<1>6. CoverageProjected /\ NotOvercounted
  BY <1>3, <1>5 DEF CoverageProjected, NotOvercounted
<1>7. QED  BY <1>2, <1>5, <1>6 DEF Init, CoverageInv, NoRowNoFigure

\* The coverage lock of another session is not taken away.
CoverageLockKept(x) == lock[Coverage] \notin {x, Nobody} => lock'[Coverage] = lock[Coverage]

\* What is said of a writer stands while it does nothing and no table changes.
LEMMA FiguresKeep ==
  ASSUME CoverageInv, NEW v \in Writers, NEW x \in Sessions \ {v}, CoverageLockKept(x),
         UNCHANGED tables, pc'[v] = pc[v], tx'[v] = tx[v]
  PROVE  Probed(v)' /\ Coexists(v)' /\ Sums(v)'
<1>1. Probed(v) /\ Coexists(v) /\ Sums(v)
  BY DEF CoverageInv, WriterFigures
<1>2. UNCHANGED <<held, stats, coexisting>>
  BY DEF tables
<1>3. Probed(v)'
  BY <1>1, <1>2 DEF Probed, PointsOf
<1>4. Coexists(v)'
  BY <1>1, <1>2, SessionsDiffer DEF Coexists, CoverageLocking, CoverageLockKept
<1>5. Sums(v)'
  BY <1>1, <1>2 DEF Sums, Projected, Total
<1>6. QED  BY <1>3, <1>4, <1>5

LEMMA TablesKeep ==
  ASSUME CoverageInv, UNCHANGED <<tables, drifted>>
  PROVE  /\ coexisting' \in Nat /\ points' \in Int
         /\ NoRowNoFigure' /\ CoverageProjected' /\ NotOvercounted'
<1>1. UNCHANGED <<held, stats, coexisting, points, stored>>
  BY DEF tables
<1>2. Total(stats)' = Total(stats) /\ PointsOf(held)' = PointsOf(held)
  BY <1>1 DEF Total, PointsOf
<1>3. QED  BY <1>1, <1>2 DEF CoverageInv, NoRowNoFigure, CoverageProjected, NotOvercounted

\* A step of a writer that commits nothing.
LEMMA WriterKeeps ==
  ASSUME CoverageInv, NEW w \in Writers, Alone(w), CoverageLockKept(w),
         UNCHANGED <<tables, drifted, overlapped>>, Probed(w)', Coexists(w)', Sums(w)'
  PROVE  CoverageInv'
<1>1. ASSUME NEW v \in Writers, v # w PROVE Probed(v)' /\ Coexists(v)' /\ Sums(v)'
  BY <1>1, SessionsDiffer, FiguresKeep DEF Alone
<1>2. WriterFigures'
  BY <1>1 DEF WriterFigures
<1>3. RebuildFigure'
  <2>1. pc'[Rebuilder] = pc[Rebuilder] /\ rb' = rb /\ held' = held
    BY SessionsDiffer DEF Alone, tables
  <2>2. CoexistingOf(held)' = CoexistingOf(held)
    BY <2>1 DEF CoexistingOf, CountsOf, PointsOf, Total
  <2>3. QED  BY <2>1, <2>2 DEF CoverageInv, RebuildFigure
<1>4. QED  BY <1>2, <1>3, TablesKeep DEF CoverageInv

\* A step of the rebuild that commits nothing.
LEMMA RebuildKeeps ==
  ASSUME CoverageInv, CoverageLockKept(Rebuilder), UNCHANGED <<tables, drifted, tx>>,
         \A w \in Writers : pc'[w] = pc[w], RebuildFigure'
  PROVE  CoverageInv'
<1>1. WriterFigures'
  BY SessionsDiffer, FiguresKeep DEF WriterFigures
<1>2. QED  BY <1>1, TablesKeep DEF CoverageInv

LEMMA LocksCoverage ==
  ASSUME NEW x \in Sessions, NEW s \in Sources, Types
  PROVE  /\ Take(x, Coverage) => CoverageLockKept(x) /\ (x \in Writers => lock'[Coverage] = x)
         /\ Take(x, s) => CoverageLockKept(x)
         /\ Release(x) => CoverageLockKept(x)
         /\ UNCHANGED lock => CoverageLockKept(x)
BY SourceAssumption DEF Take, Release, CoverageLockKept, RollupRows, Types

\* Before the probe, and after the transaction, there is nothing to say of the writer.
LEMMA CoverageEarly ==
  ASSUME IInv, CoverageInv, NEW w \in Writers,
         Begin(w) \/ Insert(w) \/ LockStats(w) \/ Abort(w)
  PROVE  CoverageInv'
<1>1. Types /\ WriterRows
  BY DEF IInv
<1>2. /\ UNCHANGED <<tables, drifted, overlapped, rb>>
      /\ \E stage \in {"insert", "stats", "probe", "idle"} : Goto(w, stage)
      /\ \A v \in Writers \ {w} : tx'[v] = tx[v]
  BY <1>1 DEF Begin, Insert, LockStats, Abort, Types
<1>3. Alone(w) /\ pc'[w] \in {"insert", "stats", "probe", "idle"}
  BY <1>1, <1>2, SessionsDiffer DEF Goto, Types, Alone
<1>4. CoverageLockKept(w)
  <2>1. CASE Begin(w) \/ Insert(w)
    BY <2>1 DEF Begin, Insert, CoverageLockKept
  <2>2. CASE LockStats(w)
    <3>1. tx[w].source \in Sources
      BY <1>1, <2>2 DEF LockStats, WriterRows
    <3>2. QED  BY <1>1, <2>2, <3>1, SessionsDiffer, LocksCoverage DEF LockStats, SelectForUpdate
  <2>3. CASE Abort(w)
    BY <1>1, <2>3, SessionsDiffer DEF Abort, Release, CoverageLockKept, RollupRows
  <2>4. QED  BY <2>1, <2>2, <2>3
<1>5. Probed(w)' /\ Coexists(w)' /\ Sums(w)'
  BY <1>3 DEF Probed, Coexists, CoverageLocking, Sums
<1>6. QED  BY <1>2, <1>3, <1>4, <1>5, WriterKeeps

\* Of the points of its dates, a writer counts those that are held.
LEMMA CoverageProbe ==
  ASSUME IInv, CoverageInv, NEW w \in Writers, Probe(w)
  PROVE  CoverageInv'
<1>1. Types /\ WriterRows
  BY DEF IInv
<1> DEFINE delta  == CoexistingDelta(w)
           others == UNION {held[s] : s \in Sources \ {tx[w].source}}
           mine   == Buckets(tx[w].new)
<1>2. /\ UNCHANGED <<tables, drifted, overlapped, rb>>
      /\ pc[w] = "probe" /\ Goto(w, "coverage") /\ InsertIfFresh(w, tx[w].source)
      /\ tx' = [tx EXCEPT ![w].delta = delta]
  BY DEF Probe
<1>3. tx[w].source \in Sources /\ tx[w].new \in SUBSET Dates
  BY <1>1, <1>2 DEF WriterRows
<1>4. held \in [Sources -> SUBSET Dates]
  BY <1>1 DEF Types
<1>5. delta = Cardinality(mine \cap Buckets(others))
  BY DEF CoexistingDelta, Buckets
<1>6. Buckets(others) \subseteq PointsOf(held)
  BY DEF Buckets, PointsOf
<1>7. IsFiniteSet(mine \cap PointsOf(held)) /\ mine \cap Buckets(others) \in SUBSET (mine \cap PointsOf(held))
  BY <1>4, <1>6, PointsCount, FS_Intersection
<1>8. delta \in Nat /\ delta <= Cardinality(mine \cap PointsOf(held))
  <2> HIDE DEF delta, mine, others
  <2>1. /\ IsFiniteSet(mine \cap Buckets(others))
        /\ Cardinality(mine \cap Buckets(others)) <= Cardinality(mine \cap PointsOf(held))
    BY <1>7, FS_Subset
  <2>2. QED  BY <1>5, <2>1, FS_CardinalityType
<1> HIDE DEF delta
<1>9. pc'[w] = "coverage" /\ Alone(w)
  BY <1>1, <1>2, SessionsDiffer DEF Goto, Types, Alone
<1>10. tx'[w].delta = delta /\ tx'[w].new = tx[w].new
  BY <1>1, <1>2 DEF Types, TxFields
<1>11. CoverageLockKept(w)
  BY <1>1, <1>2, <1>3, SessionsDiffer, LocksCoverage DEF InsertIfFresh
<1>12. held' = held
  BY <1>2 DEF tables
<1>13. Probed(w)' /\ Coexists(w)' /\ Sums(w)'
  BY <1>8, <1>9, <1>10, <1>12 DEF Probed, PointsOf, Coexists, CoverageLocking, Sums
<1>14. QED  BY <1>2, <1>9, <1>11, <1>13, WriterKeeps

\* The figure is read under the lock of its row, or where there is no row.
LEMMA CoverageRead ==
  ASSUME IInv, CoverageInv, NEW w \in Writers, LockCoverage(w)
  PROVE  CoverageInv'
<1>1. Types /\ Probed(w) /\ NoRowNoFigure /\ coexisting \in Nat
  BY DEF IInv, CoverageInv, WriterFigures
<1> DEFINE fresh == Coverage \notin stored
           coex  == coexisting + tx[w].delta
<1>2. /\ UNCHANGED <<tables, drifted, overlapped, rb>>
      /\ pc[w] = "coverage" /\ Goto(w, "project") /\ SelectForUpdate(w, Coverage)
      /\ tx' = [tx EXCEPT ![w].fresh = fresh, ![w].coexisting = coex]
  BY DEF LockCoverage
<1>3. pc'[w] = "project" /\ Alone(w)
  BY <1>1, <1>2, SessionsDiffer DEF Goto, Types, Alone
<1>4. /\ tx'[w].delta = tx[w].delta /\ tx'[w].new = tx[w].new
      /\ tx'[w].fresh = fresh /\ tx'[w].coexisting = coex
  <2> HIDE DEF fresh, coex
  <2>1. QED  BY <1>1, <1>2 DEF Types, TxFields
<1>5. CoverageLockKept(w) /\ (~fresh => lock'[Coverage] = w)
  BY <1>1, <1>2, SessionsDiffer DEF SelectForUpdate, Take, CoverageLockKept, Types, RollupRows
<1>6. UNCHANGED <<held, coexisting>>
  BY <1>2 DEF tables
<1>7. Probed(w)'
  BY <1>1, <1>2, <1>3, <1>4, <1>6 DEF Probed, PointsOf
<1>8. Coexists(w)'
  <2>1. fresh => coex = tx[w].delta
    BY <1>1, <1>2 DEF NoRowNoFigure, Probed
  <2>2. QED  BY <1>3, <1>4, <1>5, <1>6, <2>1 DEF Coexists, CoverageLocking
<1>9. Sums(w)'
  BY <1>3 DEF Sums
<1>10. QED  BY <1>2, <1>3, <1>5, <1>7, <1>8, <1>9, WriterKeeps

LEMMA CoverageProject ==
  ASSUME IInv, CoverageInv, NEW w \in Writers, Project(w)
  PROVE  CoverageInv'
<1>1. /\ Types /\ Probed(w) /\ Coexists(w) /\ NoRowNoFigure /\ coexisting \in Nat
  BY DEF IInv, CoverageInv, WriterFigures
<1> DEFINE sum == Projected(w)
<1>2. /\ UNCHANGED <<tables, drifted, overlapped, rb>>
      /\ pc[w] = "project" /\ Goto(w, "commit") /\ InsertIfFresh(w, Coverage)
      /\ tx' = [tx EXCEPT ![w].points = sum]
  BY DEF Project
<1> HIDE DEF sum
<1>3. pc'[w] = "commit" /\ Alone(w)
  BY <1>1, <1>2, SessionsDiffer DEF Goto, Types, Alone
<1>4. /\ tx'[w].delta = tx[w].delta /\ tx'[w].new = tx[w].new /\ tx'[w].points = sum
      /\ tx'[w].coexisting = tx[w].coexisting /\ tx'[w].source = tx[w].source
      /\ tx'[w].stats = tx[w].stats
  BY <1>1, <1>2 DEF Types, TxFields
<1>5. CoverageLockKept(w) /\ lock'[Coverage] = w /\ (tx[w].fresh => Coverage \notin stored)
  <2>1. CASE tx[w].fresh
    BY <1>1, <1>2, <2>1, SessionsDiffer DEF InsertIfFresh, Take, CoverageLockKept, Types, RollupRows
  <2>2. CASE ~tx[w].fresh
    BY <1>1, <1>2, <2>2 DEF InsertIfFresh, Coexists, CoverageLocking, CoverageLockKept
  <2>3. QED  BY <2>1, <2>2
<1>6. UNCHANGED <<held, coexisting, stats>>
  BY <1>2 DEF tables
<1>7. Probed(w)'
  BY <1>1, <1>2, <1>3, <1>4, <1>6 DEF Probed, PointsOf
<1>8. tx[w].coexisting = coexisting + tx[w].delta
  <2>1. tx[w].delta \in Nat
    BY <1>1, <1>2 DEF Probed
  <2>2. CASE tx[w].fresh
    BY <1>1, <1>2, <1>5, <2>1, <2>2 DEF Coexists, NoRowNoFigure
  <2>3. CASE ~tx[w].fresh
    BY <1>1, <1>2, <2>3 DEF Coexists, CoverageLocking
  <2>4. QED  BY <2>2, <2>3
<1>9. Coexists(w)'
  BY <1>3, <1>4, <1>5, <1>6, <1>8 DEF Coexists, CoverageLocking
<1>10. Sums(w)'
  BY <1>4, <1>6 DEF Sums, Projected, sum, Total
<1>11. QED  BY <1>2, <1>3, <1>5, <1>7, <1>9, <1>10, WriterKeeps

\* What the committed rows add to the total makes up for the points they add.
LEMMA CommitCounts ==
  ASSUME NEW h \in [Sources -> SUBSET Dates], NEW s \in Sources, NEW D \in SUBSET Dates
  PROVE  LET g == [h EXCEPT ![s] = @ \cup D] IN
         /\ PointsOf(g) = PointsOf(h) \cup Buckets(D)
         /\ Cardinality(PointsOf(g)) + Cardinality(Buckets(D) \cap PointsOf(h)) <=
              Cardinality(PointsOf(h)) + Cardinality(D)
<1> DEFINE g == [h EXCEPT ![s] = @ \cup D]
           P == PointsOf(h)
           B == Buckets(D)
<1>1. g \in [Sources -> SUBSET Dates] /\ g[s] = h[s] \cup D /\ \A r \in Sources : r # s => g[r] = h[r]
  OBVIOUS
<1> HIDE DEF g
<1>2. PointsOf(g) = P \cup B
  <2>1. UNION {g[r] : r \in Sources} = (UNION {h[r] : r \in Sources}) \cup D
    BY <1>1
  <2>2. QED  BY <2>1 DEF PointsOf, Buckets
<1> HIDE DEF P, B
<1>3. IsFiniteSet(P) /\ Cardinality(P) \in Nat
  BY PointsCount DEF P
<1>4. IsFiniteSet(B) /\ Cardinality(B) \in Nat /\ Cardinality(B) <= Cardinality(D) /\ Cardinality(D) \in Nat
  BY DatesFinite, BucketsCount DEF B
<1>5. Cardinality(P \cup B) = Cardinality(P) + Cardinality(B) - Cardinality(P \cap B)
  BY <1>3, <1>4, FS_Union
<1>6. P \cap B = B \cap P
  OBVIOUS
<1>7. Cardinality(B \cap P) \in Nat
  BY <1>4, FS_Intersection, FS_CardinalityType
<1>8. Cardinality(PointsOf(g)) + Cardinality(B \cap P) <= Cardinality(P) + Cardinality(D)
  <2>1. Cardinality(P \cap B) = Cardinality(B \cap P)
    BY <1>6
  <2>2. Cardinality(PointsOf(g)) = Cardinality(P) + Cardinality(B) - Cardinality(B \cap P)
    BY <1>2, <1>5, <2>1
  <2> DEFINE p == Cardinality(P)
             b == Cardinality(B)
             c == Cardinality(B \cap P)
             m == Cardinality(D)
  <2>3. p \in Nat /\ b \in Nat /\ c \in Nat /\ m \in Nat /\ b <= m
    BY <1>3, <1>4, <1>7
  <2> HIDE DEF p, b, c, m
  <2>4. (p + b - c) + c <= p + m
    BY <2>3
  <2>5. QED  BY <2>2, <2>4 DEF p, b, c, m
<1>9. QED  BY <1>2, <1>8 DEF g, P, B

\* The count that is summed with what the others committed is the committed one and
\* the writer's own rows.
LEMMA CoverageCommit ==
  ASSUME IInv, CoverageInv, NEW w \in Writers, Commit(w)
  PROVE  CoverageInv'
<1>1. /\ Types /\ WriterRows /\ WriterCounts /\ StatsExact
      /\ Probed(w) /\ Coexists(w) /\ Sums(w) /\ WriterFigures /\ NotOvercounted
      /\ coexisting \in Nat
  BY DEF IInv, CoverageInv, WriterFigures
<1> DEFINE s == tx[w].source
           n == tx[w].new
           t == tx[w]
<1>2. /\ pc[w] = "commit" /\ Goto(w, "idle") /\ Release(w)
      /\ tx' = [tx EXCEPT ![w] = NoTx]
      /\ held' = [held EXCEPT ![s] = @ \cup n]
      /\ stored' = stored \cup {s, Coverage}
      /\ stats' = [stats EXCEPT ![s] = t.stats]
      /\ coexisting' = t.coexisting /\ points' = t.points
      /\ overlapped' = (pc[Rebuilder] # "idle")
      /\ UNCHANGED <<rb, drifted>>
  BY DEF Commit
<1>3. Locking(w) /\ CoverageLocking(w) /\ s \in Sources /\ n \in SUBSET Dates
  BY <1>1, <1>2 DEF Locking, CoverageLocking, WriterRows
<1>4. /\ t.stats = stats[s] + Cardinality(n)
      /\ lock[Coverage] = w /\ t.coexisting = coexisting + t.delta
      /\ t.delta \in Nat /\ t.delta <= Cardinality(Buckets(n) \cap PointsOf(held))
      /\ t.points = Total([stats EXCEPT ![s] = t.stats]) - t.coexisting
  BY <1>1, <1>2, <1>3 DEF WriterCounts, Coexists, Probed, Sums, Projected
<1> HIDE DEF s, n, t
<1>5. Alone(w) /\ pc'[w] = "idle"
  BY <1>1, <1>2, AloneIs
<1>6. Cardinality(n) \in Nat /\ held \in [Sources -> SUBSET Dates] /\ stats \in [Sources -> Nat]
  BY <1>1, <1>3, DatesFinite DEF Types
<1>7. stats' \in [Sources -> Nat] /\ Total(stats') = Total(stats) + Cardinality(n)
      /\ Total(stats) \in Nat /\ Total(stats') \in Nat
  <2>1. stats' = [stats EXCEPT ![s] = stats[s] + Cardinality(n)]
    BY <1>2, <1>4
  <2>2. stats' \in [Sources -> Nat]
    BY <1>3, <1>6, <2>1
  <2>3. Total(stats') = Total(stats) + Cardinality(n)
    BY <1>3, <1>6, <2>1, TotalGrows
  <2>4. QED  BY <1>6, <2>2, <2>3, PairsFinite
<1>8. /\ PointsOf(held') = PointsOf(held) \cup Buckets(n)
      /\ Cardinality(PointsOf(held')) + Cardinality(Buckets(n) \cap PointsOf(held)) <=
           Cardinality(PointsOf(held)) + Cardinality(n)
  BY <1>2, <1>3, <1>6, CommitCounts
<1>9. held' \in [Sources -> SUBSET Dates]
  BY <1>2, <1>3, <1>6
<1>10. /\ IsFiniteSet(PointsOf(held)) /\ Cardinality(PointsOf(held)) \in Nat
       /\ IsFiniteSet(PointsOf(held')) /\ Cardinality(PointsOf(held')) \in Nat
  BY <1>6, <1>9, PointsCount
<1>11. coexisting' \in Nat /\ points' = Total(stats') - coexisting' /\ points' \in Int
  BY <1>1, <1>2, <1>4, <1>7
<1>12. CoverageProjected'
  BY <1>11 DEF CoverageProjected, Total
<1>13. NotOvercounted'
  <2>1. SUFFICES ASSUME ~drifted PROVE coexisting' + Cardinality(PointsOf(held')) <= Total(stats')
    BY <1>2 DEF NotOvercounted, Total, PointsOf
  <2>2. coexisting + Cardinality(PointsOf(held)) <= Total(stats)
    BY <1>1, <2>1 DEF NotOvercounted
  <2>3. IsFiniteSet(Buckets(n) \cap PointsOf(held))
    BY <1>10, FS_Intersection
  <2>4. Cardinality(Buckets(n) \cap PointsOf(held)) \in Nat
    BY <2>3, FS_CardinalityType
  <2>5. QED  BY <1>1, <1>2, <1>4, <1>6, <1>7, <1>8, <1>10, <2>2, <2>4
<1>14. ASSUME NEW v \in Writers PROVE Probed(v)' /\ Coexists(v)' /\ Sums(v)'
  <2>1. CASE v = w
    BY <1>5, <2>1 DEF Probed, Coexists, CoverageLocking, Sums
  <2>2. CASE v # w
    <3>1. pc'[v] = pc[v] /\ tx'[v] = tx[v]
      BY <1>5, <2>2, SessionsDiffer DEF Alone
    <3>2. Probed(v) /\ Coexists(v)
      BY <1>1 DEF WriterFigures
    <3>3. ~CoverageLocking(v)
      BY <1>4, <2>2, <3>2 DEF Coexists
    <3>4. Coexists(v)' /\ Sums(v)'
      BY <3>1, <3>2, <3>3 DEF Coexists, CoverageLocking, Sums
    <3>5. ASSUME pc[v] \in {"coverage", "project", "commit"}
          PROVE  tx[v].delta <= Cardinality(Buckets(tx[v].new) \cap PointsOf(held'))
      <4> DEFINE B == Buckets(tx[v].new)
      <4>1. tx[v].delta \in Nat /\ tx[v].delta <= Cardinality(B \cap PointsOf(held))
        BY <3>2, <3>5 DEF Probed
      <4> HIDE DEF B
      <4>2. IsFiniteSet(B \cap PointsOf(held')) /\ B \cap PointsOf(held) \in SUBSET (B \cap PointsOf(held'))
        BY <1>8, <1>10, FS_Intersection
      <4>3. /\ Cardinality(B \cap PointsOf(held)) <= Cardinality(B \cap PointsOf(held'))
            /\ IsFiniteSet(B \cap PointsOf(held))
        BY <4>2, FS_Subset
      <4>4. Cardinality(B \cap PointsOf(held)) \in Nat /\ Cardinality(B \cap PointsOf(held')) \in Nat
        BY <4>2, <4>3, FS_CardinalityType
      <4>5. tx[v].delta <= Cardinality(B \cap PointsOf(held'))
        BY <4>1, <4>3, <4>4
      <4>6. QED  BY <4>5 DEF B
    <3>6. Probed(v)'
      BY <3>1, <3>2, <3>5 DEF Probed, PointsOf
    <3>7. QED  BY <3>4, <3>6
  <2>3. QED  BY <2>1, <2>2
<1>15. NoRowNoFigure'
  BY <1>2 DEF NoRowNoFigure
<1>16. RebuildFigure'
  <2>1. pc'[Rebuilder] = pc[Rebuilder] /\ rb' = rb
    BY <1>5, SessionsDiffer DEF Alone
  <2>2. QED  BY <1>2, <2>1 DEF CoverageInv, RebuildFigure
<1>17. QED  BY <1>11, <1>12, <1>13, <1>14, <1>15, <1>16 DEF CoverageInv, WriterFigures

\* The rebuild says nothing of coexistence before it has counted it.
LEMMA CoverageRebuild ==
  ASSUME IInv, CoverageInv,
         RebuildCount \/ RebuildLoad \/ RebuildFlush \/ RebuildAbort \/ RebuildCoexist
  PROVE  CoverageInv'
<1>1. Types /\ RebuildRows
  BY DEF IInv
<1>2. /\ UNCHANGED <<tables, drifted, tx>>
      /\ \E stage \in {"load", "flush", "coexist", "idle", "commit"} : Goto(Rebuilder, stage)
  BY DEF RebuildCount, RebuildLoad, RebuildFlush, RebuildAbort, RebuildCoexist
<1>3. \A w \in Writers : pc'[w] = pc[w]
  BY <1>1, <1>2, SessionsDiffer DEF Goto, Types
<1>4. CoverageLockKept(Rebuilder)
  <2>1. CASE RebuildCount \/ RebuildLoad \/ RebuildCoexist
    BY <2>1 DEF RebuildCount, RebuildLoad, RebuildCoexist, CoverageLockKept
  <2>2. CASE RebuildFlush
    <3>1. Coverage \notin rb.changed \cup rb.fresh /\ Coverage \in RollupRows
      BY <1>1, <2>2, SourceAssumption DEF RebuildFlush, RebuildRows, RollupRows
    <3>2. QED  BY <2>2, <3>1 DEF RebuildFlush, CoverageLockKept
  <2>3. CASE RebuildAbort
    BY <2>3 DEF RebuildAbort, Release, CoverageLockKept, RollupRows
  <2>4. QED  BY <2>1, <2>2, <2>3
<1>5. RebuildFigure'
  <2>1. CASE RebuildCoexist
    <3> DEFINE c == CoexistingOf(held)
    <3>1. rb' = [rb EXCEPT !.coexisting = c] /\ held' = held /\ DOMAIN rb = RbFields
      BY <1>1, <2>1 DEF RebuildCoexist, tables, Types
    <3>2. held \in [Sources -> SUBSET Dates]
      BY <1>1 DEF Types
    <3>3. c \in Nat
      <4> DEFINE k == Total(CountsOf(held))
                 p == Cardinality(PointsOf(held))
      <4>1. k \in Nat /\ p \in Nat /\ p <= k
        BY <3>2, PointsAreCovered, PairsFinite, PointsCount
      <4>2. c = k - p
        BY DEF CoexistingOf
      <4> HIDE DEF k, p
      <4>3. QED  BY <4>1, <4>2
    <3> HIDE DEF c
    <3>4. rb'.coexisting = c
      BY <3>1 DEF RbFields
    <3>5. c = CoexistingOf(held')
      BY <3>1 DEF c
    <3>6. QED  BY <3>3, <3>4, <3>5 DEF RebuildFigure, CoexistingOf, CountsOf, PointsOf, Total
  <2>2. CASE ~RebuildCoexist
    <3>1. \E stage \in {"load", "flush", "coexist", "idle"} : Goto(Rebuilder, stage)
      BY <2>2 DEF RebuildCount, RebuildLoad, RebuildFlush, RebuildAbort
    <3>2. pc'[Rebuilder] # "commit"
      BY <1>1, <3>1, SessionsDiffer DEF Goto, Types
    <3>3. QED  BY <3>2 DEF RebuildFigure
  <2>3. QED  BY <2>1, <2>2
<1>6. QED  BY <1>2, <1>3, <1>4, <1>5, RebuildKeeps

\* What a rebuild that no write overlapped commits: the counts of the rows there are.
LEMMA RebuildWrites ==
  ASSUME IInv, CoverageInv, RebuildCommit, ~overlapped
  PROVE  /\ held \in [Sources -> SUBSET Dates]
         /\ rb.counts = CountsOf(held) /\ stats' = CountsOf(held)
         /\ [s \in Sources |-> IF s \in rb.known THEN rb.counts[s] ELSE stats[s]] = CountsOf(held)
         /\ rb.coexisting = CoexistingOf(held)
         /\ Touched <=> PointsOf(held) # {} \/ ~rb.whole
         /\ ~Touched => Total(CountsOf(held)) = 0
<1>1. Types /\ RebuildRows /\ RebuildFigure
  BY DEF IInv, CoverageInv
<1>2. /\ pc[Rebuilder] = "commit"
      /\ stats' = [s \in Sources |-> IF s \in rb.changed \cup rb.fresh THEN rb.counts[s] ELSE stats[s]]
  BY DEF RebuildCommit
<1>3. held \in [Sources -> SUBSET Dates]
  BY <1>1 DEF Types
<1>4. /\ rb.counts = CountsOf(held) /\ rb.changed \cup rb.fresh \subseteq rb.known
      /\ \A s \in Sources \ (rb.changed \cup rb.fresh) : stats[s] = rb.counts[s]
      /\ rb.coexisting = CoexistingOf(held)
  BY <1>1, <1>2 DEF RebuildRows, RebuildFigure
<1>5. CountsOf(held) \in [Sources -> Nat] /\ \A s \in Sources : CountsOf(held)[s] = Cardinality(held[s])
  BY <1>3, DatesFinite DEF CountsOf
<1>6. stats' = CountsOf(held)
  BY <1>2, <1>4, <1>5
<1>7. [s \in Sources |-> IF s \in rb.known THEN rb.counts[s] ELSE stats[s]] = CountsOf(held)
  BY <1>4, <1>5
<1>8. \A s \in Sources : rb.counts[s] > 0 <=> held[s] # {}
  <2>1. SUFFICES ASSUME NEW s \in Sources PROVE Cardinality(held[s]) > 0 <=> held[s] # {}
    BY <1>4, <1>5
  <2>2. IsFiniteSet(held[s]) /\ Cardinality(held[s]) \in Nat
    BY <1>3, DatesFinite
  <2>3. QED  BY <2>2, FS_EmptySet
<1>9. Touched <=> PointsOf(held) # {} \/ ~rb.whole
  BY <1>8 DEF Touched, Counted, PointsOf
<1>10. ASSUME ~Touched PROVE Total(CountsOf(held)) = 0
  <2>1. \A s \in Sources : CountsOf(held)[s] = 0
    BY <1>4, <1>5, <1>10 DEF Touched, Counted
  <2>2. QED  BY <1>5, <2>1, TotalOfNothing
<1>11. QED  BY <1>3, <1>4, <1>6, <1>7, <1>9, <1>10

\* The projection of exact counts and an exact figure is the number of points.
LEMMA ExactProjection ==
  ASSUME NEW h \in [Sources -> SUBSET Dates]
  PROVE  /\ Total(CountsOf(h)) - CoexistingOf(h) = Cardinality(PointsOf(h))
         /\ CoexistingOf(h) + Cardinality(PointsOf(h)) = Total(CountsOf(h))
<1> DEFINE k == Total(CountsOf(h))
           p == Cardinality(PointsOf(h))
<1>1. k \in Nat /\ p \in Nat
  BY PointsAreCovered, PairsFinite, PointsCount
<1>2. CoexistingOf(h) = k - p
  BY DEF CoexistingOf
<1> HIDE DEF k, p
<1>3. k - CoexistingOf(h) = p /\ CoexistingOf(h) + p = k
  BY <1>1, <1>2
<1>4. QED  BY <1>3 DEF k, p

LEMMA CleanRebuild ==
  ASSUME IInv, CoverageInv, RebuildCommit, ~overlapped
  PROVE  /\ stats' = CountsOf(held')
         /\ points' = Total(stats') - coexisting'
         /\ coexisting' + Cardinality(PointsOf(held')) = Total(stats')
         /\ points' = Cardinality(PointsOf(held'))
         /\ Coverage \in stored' <=> PointsOf(held') # {} \/ ~rb.whole
<1> DEFINE seen == [s \in Sources |-> IF s \in rb.known THEN rb.counts[s] ELSE stats[s]]
           kept == {s \in Sources : rb.counts[s] > 0} \cup (stored \ (rb.known \cup {Coverage}))
<1>1. /\ held' = held
      /\ stored' = kept \cup IF Touched THEN {Coverage} ELSE {}
      /\ coexisting' = IF Touched THEN rb.coexisting ELSE 0
      /\ points' = IF Touched THEN Total(seen) - rb.coexisting ELSE 0
  BY DEF RebuildCommit
<1>2. Coverage \notin kept
  BY SourceAssumption
<1> HIDE DEF seen, kept
<1>3. Coverage \in stored' <=> Touched
  BY <1>1, <1>2
<1>4. /\ held \in [Sources -> SUBSET Dates]
      /\ stats' = CountsOf(held) /\ seen = CountsOf(held) /\ rb.coexisting = CoexistingOf(held)
      /\ Touched <=> PointsOf(held) # {} \/ ~rb.whole
      /\ ~Touched => Total(CountsOf(held)) = 0
  BY RebuildWrites DEF seen
<1>5. /\ Total(CountsOf(held)) - CoexistingOf(held) = Cardinality(PointsOf(held))
      /\ CoexistingOf(held) + Cardinality(PointsOf(held)) = Total(CountsOf(held))
  BY <1>4, ExactProjection
<1>6. CASE Touched
  BY <1>1, <1>3, <1>4, <1>5, <1>6
<1>7. CASE ~Touched
  <2>1. Cardinality(PointsOf(held)) = 0
    BY <1>4, <1>7, FS_EmptySet
  <2>2. QED  BY <1>1, <1>3, <1>4, <1>7, <2>1
<1>8. QED  BY <1>6, <1>7

LEMMA CoverageRebuildCommit ==
  ASSUME IInv, CoverageInv, RebuildCommit
  PROVE  CoverageInv'
<1>1. Types /\ RebuildRows /\ RebuildFigure
  BY DEF IInv, CoverageInv
<1> DEFINE seen == [s \in Sources |-> IF s \in rb.known THEN rb.counts[s] ELSE stats[s]]
           kept == {s \in Sources : rb.counts[s] > 0} \cup (stored \ (rb.known \cup {Coverage}))
<1>2. /\ Goto(Rebuilder, "idle") /\ pc[Rebuilder] = "commit" /\ Release(Rebuilder)
      /\ lock[Coverage] = Nobody
      /\ stored' = kept \cup IF Touched THEN {Coverage} ELSE {}
      /\ coexisting' = IF Touched THEN rb.coexisting ELSE 0
      /\ points' = IF Touched THEN Total(seen) - rb.coexisting ELSE 0
      /\ drifted' = overlapped /\ UNCHANGED <<held, tx, overlapped>>
  BY DEF RebuildCommit
<1>3. /\ pc'[Rebuilder] = "idle" /\ \A w \in Writers : pc'[w] = pc[w]
  BY <1>1, <1>2, SessionsDiffer DEF Goto, Types
<1>4. seen \in [Sources -> Nat] /\ rb.coexisting \in Nat
  BY <1>1, <1>2 DEF Types, RebuildRows, RebuildFigure
<1> HIDE DEF seen, kept
<1>5. coexisting' \in Nat /\ points' \in Int
  BY <1>2, <1>4, PairsFinite
<1>6. ASSUME NEW w \in Writers PROVE Probed(w)' /\ Coexists(w)' /\ Sums(w)'
  <2>1. pc'[w] = pc[w] /\ tx' = tx /\ held' = held
    BY <1>2, <1>3
  <2>2. Probed(w) /\ Coexists(w)
    BY DEF CoverageInv, WriterFigures
  <2>3. ~CoverageLocking(w)
    BY <1>2, <2>2, SessionsDiffer DEF Coexists
  <2>4. Probed(w)'
    BY <2>1, <2>2 DEF Probed, PointsOf
  <2>5. Coexists(w)' /\ Sums(w)'
    BY <2>1, <2>2, <2>3 DEF Coexists, CoverageLocking, Sums
  <2>6. QED  BY <2>4, <2>5
<1>7. NoRowNoFigure'
  BY <1>2 DEF NoRowNoFigure
<1>8. RebuildFigure'
  BY <1>3 DEF RebuildFigure
<1>9. CoverageProjected' /\ NotOvercounted'
  <2>1. CASE overlapped
    BY <1>2, <2>1 DEF CoverageProjected, NotOvercounted
  <2>2. CASE ~overlapped
    <3>1. /\ points' = Total(stats') - coexisting'
          /\ coexisting' + Cardinality(PointsOf(held')) = Total(stats')
      BY <2>2, CleanRebuild
    <3>2. PointsOf(held)' = PointsOf(held') /\ Total(stats)' = Total(stats')
      BY DEF PointsOf, Total
    <3>3. Total(stats') \in Nat
      <4>1. CountsOf(held) \in [Sources -> Nat] /\ stats' = CountsOf(held)
        BY <2>2, RebuildWrites, PointsAreCovered
      <4>2. QED  BY <4>1, PairsFinite
    <3>4. QED  BY <3>1, <3>2, <3>3 DEF CoverageProjected, NotOvercounted
  <2>3. QED  BY <2>1, <2>2
<1>10. QED  BY <1>5, <1>6, <1>7, <1>8, <1>9 DEF CoverageInv, WriterFigures

LEMMA CoverageStep == IInv /\ CoverageInv /\ [Next]_vars => CoverageInv'
<1>1. SUFFICES ASSUME IInv, CoverageInv, [Next]_vars PROVE CoverageInv'
  OBVIOUS
<1>2. CASE UNCHANGED vars
  <2>1. UNCHANGED <<tables, drifted, tx, lock, pc, rb, overlapped, held>>
    BY <1>2 DEF vars, tables
  <2>2. RebuildFigure'
    <3>1. CoexistingOf(held)' = CoexistingOf(held)
      BY <2>1 DEF CoexistingOf, CountsOf, PointsOf, Total
    <3>2. QED  BY <1>1, <2>1, <3>1 DEF CoverageInv, RebuildFigure
  <2>3. QED  BY <1>1, <2>1, <2>2, RebuildKeeps DEF CoverageLockKept
<1>3. QED
  BY <1>1, <1>2, CoverageEarly, CoverageProbe, CoverageRead, CoverageProject, CoverageCommit,
     CoverageRebuild, CoverageRebuildCommit DEF Next, WriterStep, RebuildStep

LEMMA CoverageInvariant == Spec => []CoverageInv
<1>1. IInv /\ CoverageInv /\ [Next]_vars => CoverageInv'
  BY CoverageStep
<1>2. QED  BY Invariant, InitCoverage, <1>1, PTL DEF Spec

\* Whatever writers commit between its statements, the row of the concept is the
\* projection of the counts that stand, until a rebuild commits over a write.
THEOREM CoverageStaysProjected == Spec => []CoverageProjected
<1>1. CoverageInv => CoverageProjected
  BY DEF CoverageInv
<1>2. QED  BY <1>1, CoverageInvariant, PTL

\* The incremental hook never counts a coexisting point twice: the figure it commits is
\* at least the number of points.
THEOREM PointsNeverUndercounted == Spec => []NeverUndercounts
<1>1. IInv /\ CoverageInv => NeverUndercounts
  <2>1. SUFFICES ASSUME IInv, CoverageInv, ~drifted PROVE points >= Cardinality(PointsOf(held))
    BY DEF NeverUndercounts
  <2>2. /\ points = Total(stats) - coexisting /\ coexisting \in Nat
        /\ coexisting + Cardinality(PointsOf(held)) <= Total(stats)
    BY <2>1 DEF CoverageInv, CoverageProjected, NotOvercounted
  <2>3. held \in [Sources -> SUBSET Dates] /\ stats \in [Sources -> Nat]
    BY <2>1 DEF IInv, Types
  <2>4. Cardinality(PointsOf(held)) \in Nat /\ Total(stats) \in Nat
    BY <2>3, PointsCount, PairsFinite
  <2>5. QED  BY <2>2, <2>4
<1>2. QED  BY <1>1, Invariant, CoverageInvariant, PTL

\* A rebuild that no write overlapped repairs every figure, whatever it finds.
THEOREM CleanRebuildRepairs == Spec => CleanRebuildExact
<1>1. IInv /\ CoverageInv /\ [Next]_vars =>
        [RebuildCommit /\ ~overlapped =>
           /\ stats' = CountsOf(held)
           /\ points' = Cardinality(PointsOf(held))
           /\ Coverage \in stored' <=> PointsOf(held) # {} \/ ~rb.whole]_vars
  <2>1. SUFFICES ASSUME IInv, CoverageInv, RebuildCommit, ~overlapped
                 PROVE  /\ stats' = CountsOf(held)
                        /\ points' = Cardinality(PointsOf(held))
                        /\ Coverage \in stored' <=> PointsOf(held) # {} \/ ~rb.whole
    OBVIOUS
  <2>2. held' = held
    BY <2>1 DEF RebuildCommit
  <2>3. QED  BY <2>1, <2>2, CleanRebuild
<1>2. QED  BY <1>1, Invariant, CoverageInvariant, PTL DEF Spec, CleanRebuildExact

\* Whoever locks a row has a transaction open.
LocksOpen == \A r \in RollupRows : lock[r] # Nobody => pc[lock[r]] # "idle"

Bounded ==
  /\ \A w \in Writers : tx[w].source \in Sources /\ tx[w].new \in SUBSET Dates
  /\ writes \in Nat /\ rebuilds \in Nat

LEMMA LocksStep == IInv /\ LocksOpen /\ [Next]_vars => LocksOpen'
<1>1. SUFFICES ASSUME Types, WriterRows, RebuildRows, LocksOpen, [Next]_vars PROVE LocksOpen'
  BY DEF IInv
<1>2. CASE UNCHANGED vars
  BY <1>1, <1>2 DEF vars, tables, LocksOpen
<1>3. ASSUME NEW x \in Sessions, NEW stage, Goto(x, stage), stage # "idle",
             NEW R \in SUBSET RollupRows, \A r \in R : lock'[r] = x,
             \A r \in RollupRows \ R : lock'[r] = lock[r]
      PROVE  LocksOpen'
  BY <1>1, <1>3 DEF LocksOpen, Goto, Types
<1>4. ASSUME NEW x \in Sessions, Goto(x, "idle"), Release(x) PROVE LocksOpen'
  BY <1>1, <1>4 DEF LocksOpen, Goto, Types, Release
<1>5. ASSUME NEW x \in Sessions, NEW stage \in Stages \ {"idle"}, Goto(x, stage), UNCHANGED lock
      PROVE  LocksOpen'
  <2>1. {} \in SUBSET RollupRows /\ stage # "idle" /\ \A r \in RollupRows \ {} : lock'[r] = lock[r]
    BY <1>5
  <2>2. \A r \in {} : lock'[r] = x
    OBVIOUS
  <2>3. QED  BY <1>3, <1>5, <2>1, <2>2
<1>6. ASSUME NEW w \in Writers, NEW stage \in Stages \ {"idle"}, Goto(w, stage),
             NEW r \in RollupRows, Take(w, r)
      PROVE  LocksOpen'
  <2>1. \A q \in RollupRows \ {r} : lock'[q] = lock[q]
    BY <1>1, <1>6 DEF Take, Types
  <2>2. \A q \in {r} : lock'[q] = w
    BY <1>1, <1>6 DEF Take, Types
  <2>3. stage # "idle" /\ w \in Sessions /\ {r} \in SUBSET RollupRows
    BY <1>6, SessionsDiffer
  <2>4. QED  BY <1>3, <1>6, <2>1, <2>2, <2>3
<1>7. ASSUME NEW w \in Writers, WriterStep(w) PROVE LocksOpen'
  <2>1. CASE Begin(w) \/ Insert(w)
    BY <1>5, <1>7, <2>1, SessionsDiffer DEF Begin, Insert, Stages
  <2>2. CASE Commit(w) \/ Abort(w)
    BY <1>4, <1>7, <2>2, SessionsDiffer DEF Commit, Abort
  <2>3. CASE LockStats(w) \/ LockCoverage(w)
    <3>1. PICK r \in RollupRows, stage \in Stages \ {"idle"} : Goto(w, stage) /\ SelectForUpdate(w, r)
      <4>1. ASSUME LockStats(w) PROVE tx[w].source \in RollupRows
        BY <1>1, <1>7, <4>1 DEF LockStats, WriterRows, RollupRows
      <4>2. QED  BY <2>3, <4>1 DEF LockStats, LockCoverage, Stages, RollupRows
    <3>2. QED  BY <1>5, <1>6, <1>7, <3>1, SessionsDiffer DEF SelectForUpdate
  <2>4. CASE Probe(w) \/ Project(w)
    <3>1. PICK r \in RollupRows, stage \in Stages \ {"idle"} : Goto(w, stage) /\ InsertIfFresh(w, r)
      <4>1. ASSUME Probe(w) PROVE tx[w].source \in RollupRows
        BY <1>1, <1>7, <4>1 DEF Probe, WriterRows, RollupRows
      <4>2. QED  BY <2>4, <4>1 DEF Probe, Project, Stages, RollupRows
    <3>2. QED  BY <1>5, <1>6, <1>7, <3>1, SessionsDiffer DEF InsertIfFresh
  <2>5. QED  BY <1>7, <2>1, <2>2, <2>3, <2>4 DEF WriterStep
<1>8. ASSUME RebuildStep PROVE LocksOpen'
  <2>1. CASE RebuildCount \/ RebuildLoad \/ RebuildCoexist
    BY <1>5, <2>1, SessionsDiffer DEF RebuildCount, RebuildLoad, RebuildCoexist, Stages
  <2>2. CASE RebuildCommit \/ RebuildAbort
    BY <1>4, <2>2, SessionsDiffer DEF RebuildCommit, RebuildAbort
  <2>3. CASE RebuildFlush
    <3>1. rb.changed \cup rb.fresh \in SUBSET RollupRows
      BY <1>1, <2>3 DEF RebuildFlush, RebuildRows, RollupRows
    <3>2. QED  BY <1>3, <2>3, <3>1, SessionsDiffer DEF RebuildFlush
  <2>4. QED  BY <1>8, <2>1, <2>2, <2>3 DEF RebuildStep
<1>9. QED  BY <1>1, <1>2, <1>7, <1>8 DEF Next

\* Counts are counts, stages are stages, and whoever locks a row has a transaction open.
THEOREM RollupsTypeCorrect == Spec => []TypeOK
<1>1. NoTx.source \in Sources /\ NoTx.new = {}
  BY SourceAssumption DEF NoTx
<1>2. Init => LocksOpen /\ Bounded
  BY <1>1, SessionsDiffer DEF Init, LocksOpen, Bounded
<1>3. IInv /\ Bounded /\ [Next]_vars => Bounded'
  <2>1. SUFFICES ASSUME Types, Bounded, [Next]_vars PROVE Bounded'
    BY DEF IInv
  <2>2. CASE UNCHANGED vars
    BY <2>1, <2>2 DEF vars, Bounded
  <2>3. ASSUME NEW w \in Writers, Begin(w) PROVE Bounded'
    <3>1. PICK s \in Sources, D \in SUBSET Dates \ {{}} :
            tx' = [tx EXCEPT ![w] = [NoTx EXCEPT !.source = s, !.new = D \ held[s]]]
      BY <2>3 DEF Begin
    <3> DEFINE t == [NoTx EXCEPT !.source = s, !.new = D \ held[s]]
    <3>2. t.source \in Sources /\ t.new \in SUBSET Dates
      BY DEF NoTx
    <3> HIDE DEF t
    <3>3. tx' = [tx EXCEPT ![w] = t] /\ writes' = writes + 1 /\ rebuilds' = rebuilds
      BY <2>3, <3>1 DEF Begin, t
    <3>4. QED  BY <2>1, <3>2, <3>3 DEF Bounded, Types
  <2>4. ASSUME NEW w \in Writers, Insert(w) PROVE Bounded'
    BY <2>1, <2>4 DEF Insert, Bounded
  <2>5. ASSUME NEW w \in Writers, NEW fresh, NEW x,
               \/ tx' = [tx EXCEPT ![w].fresh = fresh, ![w].stats = x]
               \/ tx' = [tx EXCEPT ![w].fresh = fresh, ![w].coexisting = x]
               \/ tx' = [tx EXCEPT ![w].delta = x]
               \/ tx' = [tx EXCEPT ![w].points = x],
               UNCHANGED <<writes, rebuilds>>
        PROVE  Bounded'
    <3>1. \A v \in Writers : tx'[v].source = tx[v].source /\ tx'[v].new = tx[v].new
      BY <2>1, <2>5 DEF Types, TxFields
    <3>2. QED  BY <2>1, <2>5, <3>1 DEF Bounded
  <2>6. ASSUME NEW w \in Writers, LockStats(w) \/ Probe(w) \/ LockCoverage(w) \/ Project(w) PROVE Bounded'
    <3> DEFINE sf == tx[w].source \notin stored
               ss == stats[tx[w].source] + Cardinality(tx[w].new)
               cf == Coverage \notin stored
               cc == coexisting + tx[w].delta
               pd == CoexistingDelta(w)
               pp == Projected(w)
    <3>1. /\ \/ tx' = [tx EXCEPT ![w].fresh = sf, ![w].stats = ss]
             \/ tx' = [tx EXCEPT ![w].fresh = cf, ![w].coexisting = cc]
             \/ tx' = [tx EXCEPT ![w].delta = pd]
             \/ tx' = [tx EXCEPT ![w].points = pp]
          /\ UNCHANGED <<writes, rebuilds>>
      BY <2>6 DEF LockStats, Probe, LockCoverage, Project
    <3> HIDE DEF sf, ss, cf, cc, pd, pp
    <3>2. QED  BY <2>5, <3>1
  <2>7. ASSUME NEW w \in Writers, Commit(w) \/ Abort(w) PROVE Bounded'
    <3>1. tx' = [tx EXCEPT ![w] = NoTx] /\ UNCHANGED <<writes, rebuilds>>
      BY <2>7 DEF Commit, Abort
    <3>2. QED  BY <1>1, <2>1, <3>1 DEF Bounded, Types
  <2>8. ASSUME RebuildStep PROVE Bounded'
    <3>1. UNCHANGED <<tx, writes>> /\ (rebuilds' = rebuilds + 1 \/ rebuilds' = rebuilds)
      BY <2>8 DEF RebuildStep, RebuildCount, RebuildLoad, RebuildFlush, RebuildCoexist,
                  RebuildCommit, RebuildAbort
    <3>2. QED  BY <2>1, <3>1 DEF Bounded
  <2>9. QED  BY <2>1, <2>2, <2>3, <2>4, <2>6, <2>7, <2>8 DEF Next, WriterStep
<1>4. IInv /\ CoverageInv /\ LocksOpen /\ Bounded => TypeOK
  BY DEF IInv, Types, CoverageInv, LocksOpen, Bounded, TypeOK, Stages
<1>5. QED  BY <1>2, <1>3, <1>4, LocksStep, Invariant, CoverageInvariant, PTL DEF Spec
================================================================================
