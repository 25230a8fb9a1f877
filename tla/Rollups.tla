------------------------------- MODULE Rollups ---------------------------------
(***************************************************************************)
(* The observation table and its rollups: write_cache_range of             *)
(* fetch/cache.py, and bump_rollups, _project_coverage and                 *)
(* rebuild_concept_rollups of visibility/coverage.py, for one concept, one *)
(* entity and one granularity.                                             *)
(*                                                                         *)
(* A write is a transaction of several statements, at READ COMMITTED: a    *)
(* query sees what is committed and its own rows.  SELECT ... FOR UPDATE   *)
(* locks a row that exists and nothing where there is none; an INSERT of a *)
(* key that an open transaction inserted waits for it, and fails once that *)
(* one committed.  A rollup row is one source's row of                     *)
(* concept_source_stats, or the concept's row of concept_coverage.         *)
(***************************************************************************)
EXTENDS Integers, FiniteSets

CONSTANTS
  Sources,      \* source_used
  Dates,        \* dates of the observations
  Bucket,       \* date -> its point: itself (day, hour) or its obs_month
  Coverage,     \* names the concept_coverage row
  Writers,      \* sessions that write
  Rebuilder,    \* the session of rebuild_concept_rollups
  Nobody,       \* no session
  MaxWrites,    \* bound: transactions
  MaxRebuilds   \* bound: rebuilds

ASSUME SourceAssumption == IsFiniteSet(Sources) /\ Sources # {} /\ Coverage \notin Sources
ASSUME DateAssumption == IsFiniteSet(Dates) /\ Dates \subseteq DOMAIN Bucket
ASSUME SessionAssumption ==
  /\ Nobody \notin Writers
  /\ Rebuilder \notin Writers \cup {Nobody}
ASSUME BoundAssumption == MaxWrites \in Nat /\ MaxRebuilds \in Nat

VARIABLES
  held,         \* source -> its dates in semantic_observations, committed
  stored,       \* the rollup rows that exist, committed
  stats,        \* concept_source_stats.rows, 0 where there is no row
  coexisting,   \* concept_coverage.coexisting_points
  points,       \* concept_coverage.rows
  lock,         \* rollup row -> the session that locked or inserted it
  pc,           \* where each session stands
  tx,           \* what a writer's transaction has read and computed
  rb,           \* what the rebuild has read and computed
  writes, rebuilds,
  overlapped,   \* history: a write committed since the rebuild's first query
  drifted       \* history: the last rebuild that committed was overlapped

tables == <<held, stored, stats, coexisting, points>>
vars == <<tables, lock, pc, tx, rb, writes, rebuilds, overlapped, drifted>>

RollupRows == Sources \cup {Coverage}
Sessions   == Writers \cup {Rebuilder}

NoTx == [source |-> CHOOSE s \in Sources : TRUE, new |-> {}, fresh |-> FALSE,
         stats |-> 0, delta |-> 0, coexisting |-> 0, points |-> 0]
NoRb == [counts |-> [s \in Sources |-> 0], known |-> {}, changed |-> {}, fresh |-> {},
         coexisting |-> 0, whole |-> TRUE]

PointsOf(h) == {Bucket[d] : d \in UNION {h[s] : s \in Sources}}
CountsOf(h) == [s \in Sources |-> Cardinality(h[s])]
Total(f)    == Cardinality(UNION {{s} \X (1 .. f[s]) : s \in Sources})

Init ==
  /\ held = [s \in Sources |-> {}]
  /\ stored = {}
  /\ stats = [s \in Sources |-> 0]
  /\ coexisting = 0
  /\ points = 0
  /\ lock = [r \in RollupRows |-> Nobody]
  /\ pc = [x \in Sessions |-> "idle"]
  /\ tx = [w \in Writers |-> NoTx]
  /\ rb = NoRb
  /\ writes = 0
  /\ rebuilds = 0
  /\ overlapped = FALSE
  /\ drifted = FALSE

Goto(x, stage) == pc' = [pc EXCEPT ![x] = stage]

Release(x) == lock' = [r \in RollupRows |-> IF lock[r] = x THEN Nobody ELSE lock[r]]

--------------------------------------------------------------------------------
(* One call of write_cache_range, write_cache or write_cache_range_new_only *)

\* The query for existing rows, the first of the transaction.
Begin(w) ==
  /\ pc[w] = "idle"
  /\ writes < MaxWrites
  /\ writes' = writes + 1
  /\ \E s \in Sources, D \in SUBSET Dates \ {{}} :
       tx' = [tx EXCEPT ![w] = [NoTx EXCEPT !.source = s, !.new = D \ held[s]]]
  /\ Goto(w, "insert")
  /\ UNCHANGED <<tables, lock, rb, rebuilds, overlapped, drifted>>

\* Past its insert: the rows of the transaction are there, uncommitted.
Inserted(v) == pc[v] \in {"stats", "probe", "coverage", "project", "commit"}

Duplicates(w) == tx[w].new \cap held[tx[w].source]

Insert(w) ==
  /\ pc[w] = "insert"
  /\ Duplicates(w) = {}
  /\ \A v \in Writers \ {w} :
       Inserted(v) /\ tx[v].source = tx[w].source => tx[v].new \cap tx[w].new = {}
  /\ Goto(w, "stats")
  /\ UNCHANGED <<tables, lock, tx, rb, writes, rebuilds, overlapped, drifted>>

\* Mutant: the rollup row is read without FOR UPDATE.
TakeUnlocked(w, r) == UNCHANGED lock

Take(w, r) == lock[r] = Nobody /\ lock' = [lock EXCEPT ![r] = w]

\* SELECT ... FOR UPDATE of r: locks a row that exists.
SelectForUpdate(w, r) == IF r \in stored THEN Take(w, r) ELSE UNCHANGED lock

\* The flush before the next query: INSERT r if there was no row to lock.
InsertIfFresh(w, r) ==
  IF tx[w].fresh THEN r \notin stored /\ Take(w, r) ELSE UNCHANGED lock

\* bump_rollups: stats.rows += len(inserted_dates).
LockStats(w) ==
  LET s == tx[w].source IN
  /\ pc[w] = "stats"
  /\ SelectForUpdate(w, s)
  /\ tx' = [tx EXCEPT ![w].fresh = s \notin stored,
                      ![w].stats = stats[s] + Cardinality(tx[w].new)]
  /\ Goto(w, "probe")
  /\ UNCHANGED <<tables, rb, writes, rebuilds, overlapped, drifted>>

\* Mutant: every row the probe returns is counted, not every point.
CoexistingDeltaRows(w) ==
  Cardinality({x \in (Sources \ {tx[w].source}) \X Dates :
                 x[2] \in held[x[1]] /\ Bucket[x[2]] \in {Bucket[d] : d \in tx[w].new}})

\* Points of the inserted dates that another source already holds.
CoexistingDelta(w) ==
  LET others == UNION {held[s] : s \in Sources \ {tx[w].source}} IN
  Cardinality({Bucket[d] : d \in tx[w].new} \cap {Bucket[d] : d \in others})

\* The coexistence probe runs before the coverage row is locked.
Probe(w) ==
  /\ pc[w] = "probe"
  /\ InsertIfFresh(w, tx[w].source)
  /\ tx' = [tx EXCEPT ![w].delta = CoexistingDelta(w)]
  /\ Goto(w, "coverage")
  /\ UNCHANGED <<tables, rb, writes, rebuilds, overlapped, drifted>>

LockCoverage(w) ==
  /\ pc[w] = "coverage"
  /\ SelectForUpdate(w, Coverage)
  /\ tx' = [tx EXCEPT ![w].fresh = Coverage \notin stored,
                      ![w].coexisting = coexisting + tx[w].delta]
  /\ Goto(w, "project")
  /\ UNCHANGED <<tables, rb, writes, rebuilds, overlapped, drifted>>

\* Mutant: only the writer's own source is summed.
ProjectedOwn(w) == tx[w].stats - tx[w].coexisting

\* _project_coverage: its own stats row, and what the others committed.
Projected(w) ==
  Total([stats EXCEPT ![tx[w].source] = tx[w].stats]) - tx[w].coexisting

Project(w) ==
  /\ pc[w] = "project"
  /\ InsertIfFresh(w, Coverage)
  /\ tx' = [tx EXCEPT ![w].points = Projected(w)]
  /\ Goto(w, "commit")
  /\ UNCHANGED <<tables, rb, writes, rebuilds, overlapped, drifted>>

Commit(w) ==
  LET t == tx[w] IN
  /\ pc[w] = "commit"
  /\ held' = [held EXCEPT ![t.source] = @ \cup t.new]
  /\ stored' = stored \cup {t.source, Coverage}
  /\ stats' = [stats EXCEPT ![t.source] = t.stats]
  /\ coexisting' = t.coexisting
  /\ points' = t.points
  /\ Release(w)
  /\ tx' = [tx EXCEPT ![w] = NoTx]
  /\ Goto(w, "idle")
  /\ overlapped' = (pc[Rebuilder] # "idle")
  /\ UNCHANGED <<rb, writes, rebuilds, drifted>>

\* An insert met a row committed meanwhile (IntegrityError), or the session
\* died: the transaction is rolled back.
Abort(w) ==
  /\ pc[w] # "idle"
  /\ Release(w)
  /\ tx' = [tx EXCEPT ![w] = NoTx]
  /\ Goto(w, "idle")
  /\ UNCHANGED <<tables, rb, writes, rebuilds, overlapped, drifted>>

--------------------------------------------------------------------------------
(* rebuild_concept_rollups, of every concept or of this one, in one         *)
(* transaction without locking reads                                        *)

RebuildCount ==
  /\ pc[Rebuilder] = "idle"
  /\ rebuilds < MaxRebuilds
  /\ rebuilds' = rebuilds + 1
  /\ \E whole \in BOOLEAN : rb' = [NoRb EXCEPT !.counts = CountsOf(held), !.whole = whole]
  /\ overlapped' = FALSE
  /\ Goto(Rebuilder, "load")
  /\ UNCHANGED <<tables, lock, tx, writes, drifted>>

\* The cached stats rows; the ORM writes those whose count it changes, inserts
\* those that are missing, and deletes those whose source has no row.
RebuildLoad ==
  /\ pc[Rebuilder] = "load"
  /\ LET counted == {s \in Sources : rb.counts[s] > 0}
         cached  == stored \ {Coverage}
     IN rb' = [rb EXCEPT !.known = counted \cup cached,
                         !.changed = {s \in cached : rb.counts[s] = 0 \/ rb.counts[s] # stats[s]},
                         !.fresh = counted \ cached]
  /\ Goto(Rebuilder, "flush")
  /\ UNCHANGED <<tables, lock, tx, writes, rebuilds, overlapped, drifted>>

RebuildFlush ==
  /\ pc[Rebuilder] = "flush"
  /\ rb.fresh \cap stored = {}
  /\ \A s \in rb.changed \cup rb.fresh : lock[s] = Nobody
  /\ lock' = [r \in RollupRows |-> IF r \in rb.changed \cup rb.fresh THEN Rebuilder ELSE lock[r]]
  /\ Goto(Rebuilder, "coexist")
  /\ UNCHANGED <<tables, tx, rb, writes, rebuilds, overlapped, drifted>>

\* Mutant: one per point with several rows.
CoexistingOfOnce(h) ==
  Cardinality({p \in PointsOf(h) : \E x, y \in Sources \X Dates :
                 /\ x # y
                 /\ x[2] \in h[x[1]] /\ Bucket[x[2]] = p
                 /\ y[2] \in h[y[1]] /\ Bucket[y[2]] = p})

\* sum(srcs - 1) over the points of the concept.
CoexistingOf(h) == Total(CountsOf(h)) - Cardinality(PointsOf(h))

RebuildCoexist ==
  /\ pc[Rebuilder] = "coexist"
  /\ rb' = [rb EXCEPT !.coexisting = CoexistingOf(held)]
  /\ Goto(Rebuilder, "commit")
  /\ UNCHANGED <<tables, lock, tx, writes, rebuilds, overlapped, drifted>>

Counted == \E s \in Sources : rb.counts[s] > 0

\* The concept that a rebuild is asked for is touched also without observations.
Touched == Counted \/ ~rb.whole

\* The projection over the rows it wrote, and over rows that appeared meanwhile.
\* A rebuild of every concept deletes the coverage row of one that had no
\* observation at its first query; a rebuild of the concept writes a row of zeros.
RebuildCommit ==
  /\ pc[Rebuilder] = "commit"
  /\ lock[Coverage] = Nobody
  /\ LET seen == [s \in Sources |-> IF s \in rb.known THEN rb.counts[s] ELSE stats[s]]
         kept == {s \in Sources : rb.counts[s] > 0} \cup (stored \ (rb.known \cup {Coverage}))
     IN /\ stats' = [s \in Sources |-> IF s \in rb.changed \cup rb.fresh THEN rb.counts[s] ELSE stats[s]]
        /\ stored' = kept \cup IF Touched THEN {Coverage} ELSE {}
        /\ coexisting' = IF Touched THEN rb.coexisting ELSE 0
        /\ points' = IF Touched THEN Total(seen) - rb.coexisting ELSE 0
  /\ Release(Rebuilder)
  /\ Goto(Rebuilder, "idle")
  /\ rb' = NoRb
  /\ drifted' = overlapped
  /\ UNCHANGED <<held, tx, writes, rebuilds, overlapped>>

RebuildAbort ==
  /\ pc[Rebuilder] # "idle"
  /\ Release(Rebuilder)
  /\ Goto(Rebuilder, "idle")
  /\ rb' = NoRb
  /\ UNCHANGED <<tables, tx, writes, rebuilds, overlapped, drifted>>

WriterStep(w) ==
  \/ Begin(w) \/ Insert(w) \/ LockStats(w) \/ Probe(w) \/ LockCoverage(w)
  \/ Project(w) \/ Commit(w) \/ Abort(w)

RebuildStep ==
  \/ RebuildCount \/ RebuildLoad \/ RebuildFlush \/ RebuildCoexist
  \/ RebuildCommit \/ RebuildAbort

Next == RebuildStep \/ \E w \in Writers : WriterStep(w)

Spec == Init /\ [][Next]_vars

--------------------------------------------------------------------------------
\* Types; a locked rollup row is locked by a transaction that is still open.
TypeOK ==
  /\ held \in [Sources -> SUBSET Dates]
  /\ stored \in SUBSET RollupRows
  /\ stats \in [Sources -> Nat]
  /\ coexisting \in Nat /\ points \in Int
  /\ lock \in [RollupRows -> Sessions \cup {Nobody}]
  /\ pc \in [Sessions -> {"idle", "insert", "stats", "probe", "coverage", "project",
                          "commit", "load", "flush", "coexist"}]
  /\ \A w \in Writers : tx[w].source \in Sources /\ tx[w].new \in SUBSET Dates
  /\ \A r \in RollupRows : lock[r] # Nobody => pc[lock[r]] # "idle"
  /\ writes \in Nat /\ rebuilds \in Nat
  /\ overlapped \in BOOLEAN /\ drifted \in BOOLEAN

\* "rows per source equals the source's covered points by construction"
\* (ConceptSourceStats): whichever writers of the source interleave, and whichever
\* of them fail, no count is lost, until a rebuild commits over a write.
StatsExact == ~drifted => stats = CountsOf(held)

\* concept_coverage is the projection of the stats that committed with it or
\* before it, although each writer sees only its own uncommitted count.
CoverageProjected == ~drifted => points = Total(stats) - coexisting

\* The incremental hook never reports fewer points than there are: what writers
\* miss of each other's rows it counts twice.
NeverUndercounts == ~drifted => points >= Cardinality(PointsOf(held))

\* "The rebuild is the ground truth": one that no write overlapped leaves every
\* figure exact, whatever was wrong before.
CleanRebuildExact ==
  [][RebuildCommit /\ ~overlapped =>
       /\ stats' = CountsOf(held)
       /\ points' = Cardinality(PointsOf(held))
       /\ Coverage \in stored' <=> PointsOf(held) # {} \/ ~rb.whole]_vars

\* "rows = sum(stats.rows) - coexisting_points stays exact even if cross-source
\* coexistence appears" (bump_rollups).
PointsExact == ~drifted => points = Cardinality(PointsOf(held))
================================================================================
