----------------------------- MODULE CrawlPlanning ------------------------------
(***************************************************************************)
(* From a policy to the cells of a crawl and back: build_date_range of     *)
(* refresh/reconciler.py, plan_crawl of crawl/planner.py, split_plan of    *)
(* crawl/split.py, the suppression of fetch/suppress.py, and the crawl     *)
(* that lands the observations from which the next plan takes its start.   *)
(* The executor that expands and fetches the cells is another program.     *)
(*                                                                         *)
(* A day is a number, and a month is MonthLength of them.  A path is one   *)
(* (source, function, column) of a concept; paths are ranked once.         *)
(***************************************************************************)
EXTENDS Integers, FiniteSets, FiniteSetsExt

CONSTANTS
  Cadence,      \* concept -> "day" or "month", its granularity
  Refused,      \* concepts not found, deprecated or of another entity type
  Rank,         \* concept -> the rank of each path that can be dispatched, 1 the best
  SourceOf,     \* path -> source
  BulkHistory, BulkSnapshot, Unresolvable,    \* paths
  Identified,   \* <<entity, source>> with an identifier
  Policies,     \* [concepts, scope, dates, mode, filter, cadence]
  Found,        \* sets of observations found by the first plan
  CapabilityCheck, ChainMax, SuppressMin, MonthLength, TrailingDays,
  Caps,         \* POLICY_MAX_FETCHES, in turn
  FirstDate, LastDay,    \* bound: days
  MaxPlans      \* bound: plans

Concepts == DOMAIN Cadence
Paths    == DOMAIN SourceOf

ASSUME PathAssumption ==
  /\ Cadence \in [Concepts -> {"day", "month"}] /\ DOMAIN Rank = Concepts
  /\ \A c \in Concepts :
       /\ Rank[c] \in [DOMAIN Rank[c] -> Int]
       /\ DOMAIN Rank[c] \subseteq Paths /\ IsFiniteSet(DOMAIN Rank[c])
       /\ \A x, y \in DOMAIN Rank[c] : Rank[c][x] = Rank[c][y] => x = y
ASSUME PolicyAssumption ==
  \A p \in Policies : /\ p.concepts \subseteq Concepts /\ IsFiniteSet(p.concepts)
                      /\ p.scope \subseteq Int /\ IsFiniteSet(p.scope)
ASSUME FoundAssumption ==
  /\ IsFiniteSet(Identified) /\ \A x \in Identified : x[1] \in Int
  /\ \A F \in Found : IsFiniteSet(F) /\ \A x \in F : x.d \in Nat \ {0}
ASSUME PlanBounds ==
  /\ ChainMax \in Nat \ {0} /\ MonthLength \in Nat \ {0} /\ Caps \subseteq Nat
  /\ SuppressMin \in Nat /\ TrailingDays \in Int /\ FirstDate \in Nat \ {0}

VARIABLES
  today,
  held,         \* semantic_observations: [c, e, d, g, s]
  streak,       \* <<concept, path>> -> permanent outcomes since the last ordinary one
  plan,         \* the plan of the last run
  pending,      \* its cells that are still to be fetched
  plans,
  ran,          \* history: the policies planned so far
  base,         \* history: concept -> the first day a plan was to cover
  lost          \* history: <<concept, entity, day>> of cells that landed nothing, or
                \* that a plan would have had of a concept that it refused

planningVars == <<today, held, streak, plan, pending, plans, ran, base, lost>>

NoDate   == 0
All      == {}       \* a filter scope, and no source filter

Month(d)    == (d - 1) \div MonthLength
FirstDay(m) == m * MonthLength + 1

--------------------------------------------------------------------------------
(* Dates                                                                    *)

\* Mutant: rows of every granularity count.
WatermarkAny(c, filter) ==
  LET dates == {r.d : r \in {x \in held : x.c = c /\ (filter = All \/ x.s \in filter)}}
  IN IF dates = {} THEN NoDate ELSE Max(dates)

\* _watermark: over all entities.
Watermark(c, filter) ==
  LET dates == {r.d : r \in {x \in held : /\ x.c = c /\ x.g = Cadence[c]
                                          /\ filter = All \/ x.s \in filter}}
  IN IF dates = {} THEN NoDate ELSE Max(dates)

NextPeriodStart(d, cadence) ==
  IF cadence = "month" THEN FirstDay(Month(d) + 1) ELSE d + 1

Watermarks(p) == {Watermark(c, p.filter) : c \in p.concepts} \ {NoDate}

\* build_date_range, and the start that plan_crawl derives for since_last.
Start(p) ==
  CASE p.dates = "trailing" -> today - TrailingDays
    [] p.dates = "explicit" -> 1
    [] OTHER -> IF Watermarks(p) = {} THEN NoDate
                ELSE NextPeriodStart(Min(Watermarks(p)), p.cadence)

\* _date_count: the ends are swapped if need be.
DateCount(s, e, cadence) ==
  LET first == Min({s, e})
      last  == Max({s, e})
  IN IF cadence = "month" THEN Month(last) - Month(first) + 1 ELSE last - first + 1

--------------------------------------------------------------------------------
(* Chains                                                                   *)

Suppressed(c, path) == streak[<<c, path>>] = SuppressMin

Candidates(c, p) ==
  {path \in DOMAIN Rank[c] : /\ p.filter = All \/ SourceOf[path] \in p.filter
                             /\ p.mode = "series" => path \in BulkHistory}

Excluded(c, path) == Suppressed(c, path) \/ (CapabilityCheck /\ path \in Unresolvable)

Runnable(c, p) == {path \in Candidates(c, p) : ~Excluded(c, path)}

Better(c, path, S) == {q \in S : Rank[c][q] < Rank[c][path]}

\* The best ChainMax paths of a set.
Bounded(c, S) == {path \in S : Cardinality(Better(c, path, S)) < ChainMax}

\* Mutant: the chain is bounded before what cannot run is left out.
ChainBoundedFirst(c, p) == {path \in Bounded(c, Candidates(c, p)) : ~Excluded(c, path)}

Chain(c, p) == Bounded(c, Runnable(c, p))

\* The snapshot covers the scope: all entities, or only identified ones.
Snapshots(c, p) ==
  {path \in Chain(c, p) :
     /\ \E q \in Runnable(c, p) : q \in BulkSnapshot /\ SourceOf[q] = SourceOf[path]
     /\ \A e \in p.scope : <<e, SourceOf[path]>> \in Identified}

--------------------------------------------------------------------------------
(* Plans                                                                    *)

ChainSources(chains) ==
  {SourceOf[path] : path \in UNION {chains[c] : c \in DOMAIN chains}}

Universe(sources) == {x[1] : x \in {y \in Identified : y[2] \in sources}}

\* resolve_entity_ids, and the entities that _count_cells counts.
EntitiesOf(pl) == IF pl.scope # All THEN pl.scope ELSE Universe(ChainSources(pl.chains))

OneDate(pl) == pl.mode = "series" \/ pl.start = NoDate

DatesOf(pl, c) == IF OneDate(pl) THEN 1 ELSE DateCount(pl.start, pl.end, Cadence[c])

\* _count_cells
CellCount(pl) ==
  MapThenSumSet(LAMBDA c : IF pl.snapshots[c] # {} THEN DatesOf(pl, c)
                           ELSE Cardinality(EntitiesOf(pl)) * DatesOf(pl, c),
                DOMAIN pl.chains)

EmptyPlan == [chains |-> <<>>, snapshots |-> <<>>, scope |-> All, mode |-> "per_date",
              filter |-> All,
              start |-> NoDate, end |-> NoDate, concepts |-> {}, unroutable |-> {},
              truncated |-> {}, suppressed |-> {}, cells |-> 0]

\* plan_crawl.  Without a watermark and a start, every concept is refused.
PlanCrawl(p) ==
  LET start  == Start(p)
      barren == p.dates = "since_last" /\ start = NoDate
      wanted == {c \in p.concepts \ Refused : ~barren /\ Chain(c, p) # {}}
      known  == (p.concepts \ Refused) \X Paths
      bare == [EmptyPlan EXCEPT
        !.chains = [c \in wanted |-> Chain(c, p)],
        !.snapshots = [c \in wanted |-> Snapshots(c, p)],
        !.scope = p.scope, !.mode = p.mode, !.filter = p.filter, !.start = start, !.end = today,
        !.concepts = p.concepts, !.unroutable = p.concepts \ wanted,
        !.truncated = {x \in known : ~barren /\ x[2] \in Runnable(x[1], p) \ Chain(x[1], p)},
        !.suppressed = {x \in known : /\ ~barren
                                      /\ x[2] \in Candidates(x[1], p) \ Runnable(x[1], p)}]
  IN [bare EXCEPT !.cells = CellCount(bare)]

--------------------------------------------------------------------------------
(* split_plan                                                               *)

\* _estimate_per_entity: the widest concept's dates, for each concept.
PerEntity(pl) ==
  IF OneDate(pl) THEN Cardinality(DOMAIN pl.chains)
  ELSE Max({DatesOf(pl, c) : c \in DOMAIN pl.chains}) * Cardinality(DOMAIN pl.chains)

Place(e, S) == Cardinality({x \in S : x < e})

\* Mutant: the last chunk is dropped unless it is full.
FullChunks(S, size) ==
  [i \in 0 .. (Cardinality(S) \div size) - 1 |-> {e \in S : Place(e, S) \div size = i}]

\* chunk_ids, of the sorted ids
Chunks(S, size) ==
  [i \in 0 .. ((Cardinality(S) + size - 1) \div size) - 1 |->
     {e \in S : Place(e, S) \div size = i}]

Items(pl, cap) ==
  IF EntitiesOf(pl) = {} \/ DOMAIN pl.chains = {} THEN <<>>
  ELSE LET groups == Chunks(EntitiesOf(pl), Max({1, cap \div PerEntity(pl)}))
       IN [i \in DOMAIN groups |-> [scope |-> groups[i], size |-> Cardinality(groups[i]),
             cells |-> Cardinality(groups[i]) * IF pl.mode = "series" THEN 1 ELSE PerEntity(pl)]]

--------------------------------------------------------------------------------
(* The crawl                                                                *)

PlanningInit ==
  /\ today = FirstDate
  /\ held \in Found
  /\ streak = [x \in Concepts \X Paths |-> 0]
  /\ plan = EmptyPlan
  /\ pending = {}
  /\ plans = 0
  /\ ran = {}
  /\ base = [c \in Concepts |-> NoDate]
  /\ lost = {}

\* The executor's _expand_dates, which _date_count mirrors.
Expand(pl, c) ==
  IF OneDate(pl) THEN {NoDate}
  ELSE LET days == Min({pl.start, pl.end}) .. Max({pl.start, pl.end})
       IN IF Cadence[c] = "month" THEN {FirstDay(Month(d)) : d \in days} ELSE days

\* One per entity and date; a snapshot covers all entities at once.
Cells(pl) ==
  UNION {{c} \X (IF pl.snapshots[c] # {} THEN {EntitiesOf(pl)} ELSE {{e} : e \in EntitiesOf(pl)})
             \X Expand(pl, c) : c \in DOMAIN pl.chains}

\* What a plan would fetch of the concepts that it refuses.
RefusedCells(pl) ==
  UNION {{c} \X EntitiesOf(pl) \X Expand(pl, c) : c \in pl.unroutable}

\* What is held of a concept, as a policy looks at it.
Matching(p, c) ==
  {r \in held : r.c = c /\ r.g = Cadence[c] /\ (p.filter = All \/ r.s \in p.filter)}

\* The first day that p's first plan of a concept is to cover.
FirstCovered(p, c, pl) ==
  IF base[c] # NoDate \/ c \notin DOMAIN pl.chains THEN base[c]
  ELSE LET last == Max({NoDate} \cup {r.d : r \in Matching(p, c)})
       IN IF last = NoDate THEN pl.start ELSE NextPeriodStart(last, Cadence[c])

\* launch_policy, single-flight: the last run is over.
Plan(p) ==
  /\ pending = {}
  /\ plans < MaxPlans /\ plans' = plans + 1
  /\ plan' = PlanCrawl(p)
  /\ pending' = Cells(plan')
  /\ ran' = ran \cup {p}
  /\ base' = [c \in Concepts |-> FirstCovered(p, c, plan')]
  /\ lost' = lost \cup RefusedCells(plan')
  /\ UNCHANGED <<today, held, streak>>

Outcome(n, permanent) == IF ~permanent THEN 0 ELSE Min({n + 1, SuppressMin})

\* A cell walks its chain: the paths before `path` fail, and it lands.  A series
\* lands what there is of the entity.
Land(cell, path, permanent) ==
  LET c     == cell[1]
      days  == IF cell[3] = NoDate THEN {today} ELSE {cell[3]}
      rows  == {[c |-> c, e |-> e, d |-> d, g |-> Cadence[c], s |-> SourceOf[path]] :
                  e \in {x \in cell[2] : <<x, SourceOf[path]>> \in Identified}, d \in days}
  IN /\ rows # {}
     /\ held' = held \cup rows
     /\ streak' = [x \in DOMAIN streak |->
          IF x = <<c, path>> THEN 0
          ELSE IF x[1] = c /\ x[2] \in Better(c, path, plan.chains[c])
               THEN Outcome(streak[x], permanent) ELSE streak[x]]
     /\ lost' = lost \cup {<<c, e, d>> :
                  e \in {x \in cell[2] : <<x, SourceOf[path]>> \notin Identified}, d \in days}

\* Every path fails, or no source knows the entity.
Miss(cell, permanent) ==
  /\ streak' = [x \in DOMAIN streak |->
       IF x[1] = cell[1] /\ x[2] \in plan.chains[cell[1]]
       THEN Outcome(streak[x], permanent) ELSE streak[x]]
  /\ lost' = lost \cup {<<cell[1], e, cell[3]>> : e \in cell[2]}
  /\ UNCHANGED held

\* In an order of the executor's: which cells land and which do not is free.
FetchCell ==
  /\ pending # {}
  /\ LET cell == CHOOSE x \in pending : TRUE IN
     /\ \E permanent \in BOOLEAN :
          (\E path \in plan.chains[cell[1]] : Land(cell, path, permanent)) \/ Miss(cell, permanent)
     /\ pending' = pending \ {cell}
  /\ UNCHANGED <<today, plan, plans, ran, base>>

\* The pod is gone, and so is what it had not fetched.
RunDies ==
  /\ pending # {}
  /\ lost' = lost \cup UNION {{<<cell[1], e, cell[3]>> : e \in cell[2]} : cell \in pending}
  /\ pending' = {}
  /\ UNCHANGED <<today, held, streak, plan, plans, ran, base>>

\* clear_suppression, or an ordinary outcome of a read of the concept.
Clear ==
  /\ pending = {}
  /\ \E x \in DOMAIN streak : streak[x] = SuppressMin /\ streak' = [streak EXCEPT ![x] = 0]
  /\ UNCHANGED <<today, held, plan, pending, plans, ran, base, lost>>

NextDay ==
  /\ pending = {}
  /\ today < LastDay /\ today' = today + 1
  /\ UNCHANGED <<held, streak, plan, pending, plans, ran, base, lost>>

PlanningNext == (\E p \in Policies : Plan(p)) \/ FetchCell \/ RunDies \/ Clear \/ NextDay

PlanningSpec == PlanningInit /\ [][PlanningNext]_planningVars

--------------------------------------------------------------------------------
\* A plan refuses a concept "rather than silently drop" it, and so it does with a
\* path: each candidate runs, or is reported as suppressed or as truncated, and it
\* is truncated by paths that can run.
PlanAccounted ==
  /\ DOMAIN plan.chains \cup plan.unroutable = plan.concepts
  /\ DOMAIN plan.chains \cap (plan.unroutable \cup Refused) = {}
  /\ \A c \in DOMAIN plan.chains :
       LET of(S) == {x[2] : x \in {y \in S : y[1] = c}} IN
       /\ Candidates(c, plan) = plan.chains[c] \cup of(plan.truncated) \cup of(plan.suppressed)
       /\ of(plan.truncated) # {} => Cardinality(plan.chains[c]) = ChainMax
       /\ plan.chains[c] \cap of(plan.suppressed) = {}

\* Work items "do not overlap and together miss nothing", whatever the cap, and
\* each is within the cap or is a single entity.
SplitPartitions ==
  \A cap \in Caps :
    LET items == Items(plan, cap) IN
    /\ UNION {items[i].scope : i \in DOMAIN items} =
         IF DOMAIN plan.chains = {} THEN {} ELSE EntitiesOf(plan)
    /\ \A i, j \in DOMAIN items : i # j => items[i].scope \cap items[j].scope = {}
    /\ \A i \in DOMAIN items : items[i].cells <= cap \/ items[i].size = 1

\* A policy whose plans take their start from the watermarks of a fixed set of
\* entities, and step no coarser than its concepts do.  A filter scope gains
\* entities, and a monthly step over a daily concept jumps to the next month:
\* both leave days behind the start that no plan was to cover.
FollowsWatermark(p) ==
  /\ p.dates = "since_last" /\ p.mode = "per_date" /\ p.scope # All
  /\ p.cadence = "month" => \A c \in p.concepts : Cadence[c] = "month"

\* Days on which a concept has a value: a month is dated by its first day.
IsPeriod(c, d) == Cadence[c] = "month" => d = FirstDay(Month(d))

\* Where such a policy alone feeds its concepts, a period behind the start of its
\* plan is held for every entity of its scope, or its cell was lost, or a plan
\* refused the concept: the watermark never runs ahead of what was planned.
HolesExplained ==
  \A p \in Policies :
    ran = {p} /\ FollowsWatermark(p) =>
      \A c \in DOMAIN plan.chains :
        \A d \in base[c] .. plan.start - 1 :
          IsPeriod(c, d) =>
            \A e \in EntitiesOf(plan) :
              <<c, e, d>> \in lost \/ \E r \in Matching(p, c) : r.e = e /\ r.d = d

\* "0 means the plan carries no work (a caught-up watermark)" (CrawlPlan).
CaughtUpIsNoOp == plan.start > plan.end => plan.cells = 0
================================================================================
