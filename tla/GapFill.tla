-------------------------------- MODULE GapFill --------------------------------
(***************************************************************************)
(* On-demand gap filling of a price series: coverage of fetch/coverage.py, *)
(* fill_gaps and its helpers of fetch/gapfill.py, and                      *)
(* write_cache_range_new_only of fetch/cache.py, for one concept and one   *)
(* entity.  Days are numbers; an interval is <<first, last>>.  Fills of a  *)
(* window come from read_series and from prewarm of fetch/active_pool.py;  *)
(* crawl workers store days as well, and upstream publishes days late.     *)
(***************************************************************************)
EXTENDS Integers, FiniteSets, FiniteSetsExt

CONSTANTS
  LastDay,      \* days are 1 .. LastDay
  Sources,      \* a rank per source bound to the concept, 1 the best
  Fillers,      \* sessions that call fill_gaps
  Window,       \* filler -> the window it is asked for
  MinHole,      \* min_hole_days
  MinCoverage,  \* min_coverage, in percent
  Tradable,     \* days upstream may ever publish
  Published,    \* source -> the days it publishes from the start
  MaxLate,      \* bound: days published later
  MaxCrawls,    \* bound: days a crawl stores
  MaxOutages    \* bound: fills of an interval in which sources fail

Days == 1 .. LastDay
Intervals == {i \in Days \X Days : i[1] <= i[2]}
DaysOf(i) == i[1] .. i[2]

ASSUME DayAssumption == LastDay \in Nat \ {0} /\ Tradable \subseteq Days
ASSUME SourceAssumption == Sources \subseteq Nat \ {0} /\ IsFiniteSet(Sources) /\ Sources # {}
ASSUME PublishedAssumption == Published \in [Sources -> SUBSET Tradable]
ASSUME WindowAssumption == Window \in [Fillers -> Intervals]
ASSUME ThresholdAssumption ==
  MinHole \in Nat \ {0} /\ MinCoverage \in 0 .. 100
ASSUME BoundAssumption == MaxLate \in Nat /\ MaxCrawls \in Nat /\ MaxOutages \in Nat

VARIABLES
  published,    \* source -> the days its upstream answers for
  rows,         \* source -> its days in semantic_observations
  probed,       \* price_empty_intervals
  pc,           \* where each fill stands
  todo,         \* fetchable intervals it has not asked for yet
  answer,       \* what upstream said of the first of them
  late, crawls, outages

boundVars == <<late, crawls, outages>>
vars == <<published, rows, probed, pc, todo, answer, boundVars>>

--------------------------------------------------------------------------------
(* coverage(): a pure function of the held days and the known-empty intervals *)

\* Maximal intervals of a set of days: _merge and _merge_intervals.
Runs(S) ==
  LET first == {d \in S : d - 1 \notin S}
      last  == {d \in S : d + 1 \notin S}
  IN {<<d, Min({e \in last : e >= d})>> : d \in first}

DaysIn(I) == UNION {DaysOf(i) : i \in I}

\* Mutant: a hole must be wider than the threshold.
WideStrictly(i) == i[2] - i[1] + 1 > MinHole

Wide(i) == i[2] - i[1] + 1 >= MinHole

Clip(i, w) == <<Max({i[1], w[1]}), Min({i[2], w[2]})>>
Meets(i, w) == i[1] <= w[2] /\ w[1] <= i[2]

KnownEmpty(known, w) == Runs(DaysIn({Clip(i, w) : i \in {k \in known : Meets(k, w)}}))

\* The stretches of the window before the first and after the last point ever
\* stored.  Neither is cut to the window.
Outer(held, w) ==
  {i \in {<<w[1], Min(held) - 1>>, <<Max(held) + 1, w[2]>>} : i[1] <= i[2] /\ Wide(i)}

\* Holes between the points of the window, unless the window is dense.
Interior(held, w) ==
  LET lo == Max({w[1], Min(held)})
      hi == Min({w[2], Max(held)})
      present == held \cap (w[1] .. w[2])
  IN IF Cardinality(present) * 100 < MinCoverage * (hi - lo + 1)
     THEN {i \in Runs((lo .. hi) \ held) : Wide(i)}
     ELSE {}

Gaps(held, known, w) ==
  IF held = {}
  THEN IF known = {} THEN {w} ELSE KnownEmpty(known, w)
  ELSE Runs(DaysIn(KnownEmpty(known, w) \cup Outer(held, w) \cup Interior(held, w)))

Fetchable(held, known, w) == Gaps(held, known, w) \ KnownEmpty(known, w)

--------------------------------------------------------------------------------
NoAnswer == [source |-> 0, days |-> {}, down |-> {}]
Held     == UNION {rows[s] : s \in Sources}
NextHole(f)  == CHOOSE i \in todo[f] : \A j \in todo[f] : i[1] <= j[1]

Init ==
  /\ published = Published
  /\ rows = [s \in Sources |-> {}]
  /\ probed = {}
  /\ pc = [f \in Fillers |-> "idle"]
  /\ todo = [f \in Fillers |-> {}]
  /\ answer = [f \in Fillers |-> NoAnswer]
  /\ late = 0 /\ crawls = 0 /\ outages = 0

\* fill_gaps judges the window; a window without a fetchable gap is returned as
\* it is.
Assess(f) ==
  /\ pc[f] = "idle"
  /\ LET gaps == Fetchable(Held, probed, Window[f])
     IN /\ gaps # {}
        /\ todo' = [todo EXCEPT ![f] = gaps]
  /\ pc' = [pc EXCEPT ![f] = "ask"]
  /\ UNCHANGED <<published, rows, probed, answer, boundVars>>

\* Mutant: the points are stored under the best source asked, whoever had them.
AnswerGuessed(i, down) ==
  LET asked == Sources \ down
      found == {s \in asked : published[s] \cap DaysOf(i) # {}}
  IN [source |-> IF asked # {} THEN Min(asked) ELSE 0,
      days   |-> IF found # {} THEN published[Min(found)] \cap DaysOf(i) ELSE {},
      down   |-> down]

\* _fetch_interval: the best source that answers with points; otherwise the last
\* one that answered at all; 0 when every source is down.
Answer(i, down) ==
  LET asked == Sources \ down
      found == {s \in asked : published[s] \cap DaysOf(i) # {}}
  IN [source |-> IF found # {} THEN Min(found) ELSE IF asked # {} THEN Max(asked) ELSE 0,
      days   |-> IF found # {} THEN published[Min(found)] \cap DaysOf(i) ELSE {},
      down   |-> down]

Ask(f) ==
  /\ pc[f] = "ask"
  /\ \E down \in SUBSET Sources :
       /\ down # {} => outages < MaxOutages
       /\ outages' = IF down = {} THEN outages ELSE outages + 1
       /\ answer' = [answer EXCEPT ![f] = Answer(NextHole(f), down)]
  /\ pc' = [pc EXCEPT ![f] = IF answer'[f].source = 0 THEN "next" ELSE "store"]
  /\ UNCHANGED <<published, rows, probed, todo, late, crawls>>

\* Mutant: an empty answer is not remembered.
RememberNothing(f) == probed

Remember(f) == probed \cup {NextHole(f)}

\* _record_empty; a row that is there already is kept.
RecordEmpty(f) ==
  /\ pc[f] = "store"
  /\ answer[f].days = {}
  /\ probed' = Remember(f)
  /\ pc' = [pc EXCEPT ![f] = "next"]
  /\ UNCHANGED <<published, rows, todo, answer, boundVars>>

\* write_cache_range_new_only: the query for the rows this source has, ...
ReadExisting(f) ==
  /\ pc[f] = "store"
  /\ answer[f].days # {}
  /\ answer' = [answer EXCEPT ![f].days = @ \ rows[answer[f].source]]
  /\ pc' = [pc EXCEPT ![f] = "insert"]
  /\ UNCHANGED <<published, rows, probed, todo, boundVars>>

\* ... and the insert of the others.  Where a row appeared in between, nothing of
\* the batch is stored.
Insert(f) ==
  LET a == answer[f] IN
  /\ pc[f] = "insert"
  /\ rows' = IF a.days \cap rows[a.source] # {} THEN rows
             ELSE [rows EXCEPT ![a.source] = @ \cup a.days]
  /\ pc' = [pc EXCEPT ![f] = "next"]
  /\ UNCHANGED <<published, probed, todo, answer, boundVars>>

\* The next fetchable interval, or the answer to the caller.
Advance(f) ==
  /\ pc[f] = "next"
  /\ todo' = [todo EXCEPT ![f] = @ \ {NextHole(f)}]
  /\ answer' = [answer EXCEPT ![f] = NoAnswer]
  /\ pc' = [pc EXCEPT ![f] = IF todo'[f] = {} THEN "idle" ELSE "ask"]
  /\ UNCHANGED <<published, rows, probed, boundVars>>

\* A crawl worker stores a day it was given by a source.
Crawl(s, d) ==
  /\ d \in published[s] \ rows[s]
  /\ crawls < MaxCrawls /\ crawls' = crawls + 1
  /\ rows' = [rows EXCEPT ![s] = @ \cup {d}]
  /\ UNCHANGED <<published, probed, pc, todo, answer, late, outages>>

\* A source starts to answer for a day it did not answer for.
PublishDay(s, d) ==
  /\ d \in Tradable \ published[s]
  /\ late < MaxLate /\ late' = late + 1
  /\ published' = [published EXCEPT ![s] = @ \cup {d}]
  /\ UNCHANGED <<rows, probed, pc, todo, answer, crawls, outages>>

FillStep(f) ==
  Assess(f) \/ Ask(f) \/ RecordEmpty(f) \/ ReadExisting(f) \/ Insert(f) \/ Advance(f)

Next ==
  \/ \E f \in Fillers : FillStep(f)
  \/ \E s \in Sources, d \in Tradable : Crawl(s, d) \/ PublishDay(s, d)

Spec == Init /\ [][Next]_vars

\* Windows are read again and again: by readers, and by the scheduled prewarm.
FairSpec == Spec /\ \A f \in Fillers : WF_vars(FillStep(f))

--------------------------------------------------------------------------------
\* A day is stored under a source only if that source has published it, whichever
\* of several answered, failed or was asked last.
StoredWasPublished == \A s \in Sources : rows[s] \subseteq published[s]

WindowDays(w) == w[1] .. w[2]
Dense(w) ==
  LET span == WindowDays(w) \cap (Min(Held) .. Max(Held))
  IN Cardinality(Held \cap WindowDays(w)) * 100 >= MinCoverage * Cardinality(span)

\* "The intervals actually missing": in any window of a series that has a point,
\* a stretch of MinHole days without one is inside a gap, unless it is inside the
\* span of a window that is dense; and a gap has no stored day except where an
\* interval was recorded as empty before.
WideHolesReported ==
  Held # {} =>
    \A w \in Intervals :
      LET gaps == Gaps(Held, probed, w)
      IN /\ \A i \in Runs(WindowDays(w) \ Held) :
              /\ Cardinality(DaysOf(i)) >= MinHole
              /\ ~Dense(w) \/ i[2] < Min(Held) \/ i[1] > Max(Held)
              => \E g \in gaps : DaysOf(i) \subseteq DaysOf(g)
         /\ \A g \in gaps : DaysOf(g) \cap Held \subseteq DaysIn(probed)

\* The window lies off the held span: the stretch between them is asked for and
\* recorded, but read back cut to the window.
OffSpan(w) == Held # {} /\ (w[1] > Max(Held) + 1 \/ w[2] < Min(Held) - 1)

\* A day has appeared in an interval that was recorded as empty: merged with a gap
\* next to it, the interval is asked for again, and the answer is not empty.
Refuted(w) == DaysIn(KnownEmpty(probed, w)) \cap Held # {}

\* Once upstream and the crawl are quiet, a window comes to have nothing left to
\* fetch, unless it lies off the span or an interval of it is no longer empty.
FillsSettle ==
  \A f \in Fillers :
    <>[](pc[f] = "idle") \/ <>[](OffSpan(Window[f]) \/ Refuted(Window[f]))

\* "Recording asked and empty turns that into one probe" (fetch/coverage.py).
OneProbe == \A f \in Fillers : <>[](pc[f] = "idle")

\* "A failure proves nothing and must stay retryable" (fill_gaps): an interval is
\* recorded as empty on answers of every source, none of which failed.
OutageStaysRetryable ==
  [][\A f \in Fillers : RecordEmpty(f) => answer[f].down = {}]_vars

\* "A cold series (no points at all) reports the whole window missing"
\* (fetch/coverage.py).
ColdIsMissing ==
  Held = {} =>
    \A w \in Intervals :
      WindowDays(w) \subseteq DaysIn(Gaps(Held, probed, w))
================================================================================
