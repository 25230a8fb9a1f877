------------------------------ MODULE ReadThrough -------------------------------
(***************************************************************************)
(* read and read_range of fetch/dispatch.py for one concept and one        *)
(* entity: look into the cache of fetch/cache.py, else try the sources in  *)
(* the order of ranking/scorer.py, and write what the first of them gives. *)
(* The dedup view of a coordinator with shards is not there.               *)
(*                                                                         *)
(* Dates are numbered like days, and a day has TicksPerDay instants.  The  *)
(* sources publish one value for a date, revised while its period is the   *)
(* current one.  A value is the number of its revisions.                   *)
(***************************************************************************)
EXTENDS Integers, FiniteSets, FiniteSetsExt

CONSTANTS
  Ranked,       \* the sources with a ranking, numbered, in the order of their names
  Quality,      \* source -> quality
  Identified,   \* sources that know the entity and have a verified binding
  Attempts,     \* source -> its (binding, real_source) pairs
  AccessMin, AccessMax, SuccessStep, FailStep,
  Monthly,      \* the frequency of the concept: monthly, or else daily
  MonthLength, TicksPerDay,
  Ttl,          \* ttl_for, in instants
  Readers,
  Anything,     \* no source is pinned
  Requests,     \* [dates, range, pin]: a date of a read, or a range without a pin
  LastTick, MaxReads, MaxRevisions      \* bounds

ASSUME RankedAssumption ==
  /\ IsFiniteSet(Ranked) /\ Ranked \subseteq Int
  /\ Identified \subseteq Ranked /\ Anything \notin Ranked
  /\ Quality \in [Ranked -> Int] /\ Attempts \in [Ranked -> Nat]
  /\ \A s \in Identified : Attempts[s] > 0
ASSUME AccessAssumption ==
  AccessMin \in Int /\ AccessMax \in Int /\ SuccessStep \in Int /\ FailStep \in Int
ASSUME TimeAssumption == TicksPerDay \in Nat \ {0} /\ LastTick \in Nat

VARIABLES
  now,
  truth,        \* date -> its value upstream
  cache,        \* semantic_observations: source -> date -> [v, at], or NoRow
  access,       \* source_rankings.accessibility
  phase, req,      \* where a reader stands, and what it asks
  chain,        \* the attempts it has still to make
  got,          \* what it has fetched: date -> value
  reads, revisions,
  tried,        \* history: the sources a reader has tried
  answered      \* history: <<source, date>> of what reads have answered

readerVars == <<phase, req, chain, got, tried>>
readVars == <<now, truth, cache, access, readerVars, reads, revisions, answered>>

Day(t) == t \div TicksPerDay
Today  == Day(now)
Dates  == 0 .. Day(LastTick)
NoRow  == [v |-> -1, at |-> -1]
NoReq  == [dates |-> {}, range |-> FALSE, pin |-> Anything]

ASSUME RequestAssumption ==
  Requests \subseteq [dates : SUBSET Dates, range : BOOLEAN, pin : Ranked \cup {Anything}]

\* The period of a date, in days.
Period(d) == IF Monthly THEN {x \in Dates : x \div MonthLength = d \div MonthLength} ELSE {d}

Cached(s, d) == cache[s][d] # NoRow

ReadInit ==
  /\ now = 0
  /\ truth = [d \in Dates |-> 0]
  /\ cache = [s \in Ranked |-> [d \in Dates |-> NoRow]]
  /\ access = [s \in Ranked |-> AccessMax]
  /\ phase = [r \in Readers |-> "idle"]
  /\ req = [r \in Readers |-> NoReq]
  /\ chain = [r \in Readers |-> {}]
  /\ got = [r \in Readers |-> <<>>]
  /\ reads = 0
  /\ revisions = 0
  /\ tried = [r \in Readers |-> {}]
  /\ answered = {}

--------------------------------------------------------------------------------
(* The cache                                                                *)

\* Mutant: the TTL governs every row.
StaleByTtl(row, d) == now - row.at > Ttl

\* is_stale: a row that dispatch writes has granularity "day", whatever the
\* concept's frequency, and its period is over when its day is.
Stale(row, d) == Today <= d /\ now - row.at > Ttl

\* _source_order: by quality, accessibility and name.
Before(s, t) ==
  \/ Quality[s] > Quality[t]
  \/ Quality[s] = Quality[t] /\ access[s] > access[t]
  \/ Quality[s] = Quality[t] /\ access[s] = access[t] /\ s < t

\* _prefer
Preferred(S) == CHOOSE s \in S : \A t \in S \ {s} : Before(s, t)

\* period_prefixes and _pick_period_date: the last held date of the period up to d,
\* or else its first one.
Picked(d, S) ==
  LET dates == {x \in Period(d) : \E s \in S : Cached(s, x)}
      upTo  == {x \in dates : x <= d}
  IN IF upTo # {} THEN Max(upTo) ELSE Min(dates)

\* read_cache answers d, from the sources S.
Served(d, S) ==
  /\ \E x \in Period(d), s \in S : Cached(s, x)
  /\ LET x == Picked(d, S) IN ~Stale(cache[Preferred({s \in S : Cached(s, x)})][x], x)

\* read_cache_range and _dedupe_range, and no row that they return is stale.
ServedRange(D) ==
  LET dates == {d \in D : \E s \in Ranked : Cached(s, d)} IN
  /\ dates # {}
  /\ \A d \in dates : ~Stale(cache[Preferred({s \in Ranked : Cached(s, d)})][d], d)

--------------------------------------------------------------------------------
(* The ranking                                                              *)

\* composite_score; the freshness fit is the concept's, the same for all.
Score(s) == Quality[s] * access[s]

Eligible(pin) == {s \in Identified : pin \in {Anything, s}}

\* Every pair of each source, with the score of the moment.
Chain(pin) ==
  UNION {{[source |-> s, pair |-> j, score |-> Score(s)] : j \in 1 .. Attempts[s]} :
           s \in Eligible(pin)}

\* rank_sources_for_concept, and the pairs of a source in turn.
Precedes(a, b) ==
  \/ a.score > b.score
  \/ a.score = b.score /\ a.source < b.source
  \/ a.score = b.score /\ a.source = b.source /\ a.pair < b.pair

First(C) == CHOOSE a \in C : \A b \in C \ {a} : Precedes(a, b)

\* record_fetch_outcome; all_proxies_unhealthy may put the source on the floor.
RecordOutcome(s, ok) ==
  \E a \in {IF ok THEN Min({AccessMax, access[s] + SuccessStep})
            ELSE Max({AccessMin, access[s] - FailStep}), AccessMin} :
    access' = [access EXCEPT ![s] = a]

--------------------------------------------------------------------------------
(* dispatch_one and _read_range_one                                         *)

AskOnce(r) ==
  /\ phase[r] = "idle"
  /\ reads < MaxReads /\ reads' = reads + 1

\* The read has returned.
Done(r) ==
  /\ phase' = [phase EXCEPT ![r] = "idle"]
  /\ req' = [req EXCEPT ![r] = NoReq]
  /\ chain' = [chain EXCEPT ![r] = {}]
  /\ got' = [got EXCEPT ![r] = <<>>]
  /\ tried' = [tried EXCEPT ![r] = {}]

Hit(q) ==
  IF q.range THEN ServedRange(q.dates)
  ELSE \A d \in q.dates : Served(d, IF q.pin = Anything THEN Ranked ELSE {q.pin})

\* A value of the cache; the reader is done.
ReadHit(r, q) ==
  /\ Hit(q)
  /\ AskOnce(r)
  /\ UNCHANGED <<now, truth, cache, access, readerVars, revisions, answered>>

ReadMiss(r, q) ==
  /\ ~Hit(q)
  /\ AskOnce(r)
  /\ req' = [req EXCEPT ![r] = q]
  /\ phase' = [phase EXCEPT ![r] = "try"]
  /\ chain' = [chain EXCEPT ![r] = Chain(q.pin)]
  /\ UNCHANGED <<now, truth, cache, access, got, tried, revisions, answered>>

Read(r) == \E q \in Requests : ReadHit(r, q) \/ ReadMiss(r, q)

\* The source has values for what has begun.
Begun(D) == {d \in D : \E x \in Period(d) : x <= Today}

\* instrumented_fetch and the extraction succeed.
FetchOk(r) ==
  /\ phase[r] = "try" /\ chain[r] # {}
  /\ Begun(req[r].dates) # {}
  /\ RecordOutcome(First(chain[r]).source, TRUE)
  /\ got' = [got EXCEPT ![r] = [d \in Begun(req[r].dates) |-> truth[d]]]
  /\ phase' = [phase EXCEPT ![r] = "write"]
  /\ UNCHANGED <<now, truth, cache, req, chain, tried, reads, revisions, answered>>

\* Mutant: the first failure ends the chain.
RestNone(C) == {}

Rest(C) == C \ {First(C)}

\* It raises, or the value is not in what came back: fail over.
FetchFails(r) ==
  /\ phase[r] = "try" /\ chain[r] # {}
  /\ RecordOutcome(First(chain[r]).source, FALSE)
  /\ chain' = [chain EXCEPT ![r] = Rest(@)]
  /\ tried' = [tried EXCEPT ![r] = @ \cup {First(chain[r]).source}]
  /\ UNCHANGED <<now, truth, cache, phase, req, got, reads, revisions, answered>>

\* write_cache or write_cache_range, for the source alone, and the answer.
Write(r) ==
  LET s == First(chain[r]).source IN
  /\ phase[r] = "write"
  /\ cache' = [cache EXCEPT ![s] = [d \in Dates |->
       IF d \in DOMAIN got[r] THEN [v |-> got[r][d], at |-> now] ELSE @[d]]]
  /\ answered' = answered \cup ({s} \X DOMAIN got[r])
  /\ Done(r)
  /\ UNCHANGED <<now, truth, access, reads, revisions>>

\* Another reader inserted the row first, and the commit raises.
WriteFails(r) ==
  /\ phase[r] = "write"
  /\ Done(r)
  /\ UNCHANGED <<now, truth, cache, access, reads, revisions, answered>>

\* "no source succeeded", one of the other ways in which none was asked or answered,
\* or an empty range.
GiveUp(r) ==
  /\ phase[r] = "try" /\ chain[r] = {}
  /\ Done(r)
  /\ UNCHANGED <<now, truth, cache, access, reads, revisions, answered>>

\* Upstream revises a date of the current period.
Revise ==
  /\ revisions < MaxRevisions /\ revisions' = revisions + 1
  /\ \E d \in Dates : Today \in Period(d) /\ truth' = [truth EXCEPT ![d] = @ + 1]
  /\ UNCHANGED <<now, cache, access, readerVars, reads, answered>>

TimePasses ==
  /\ now < LastTick /\ now' = now + 1
  /\ UNCHANGED <<truth, cache, access, readerVars, reads, revisions, answered>>

ReaderStep(r) ==
  Read(r) \/ FetchOk(r) \/ FetchFails(r) \/ Write(r) \/ WriteFails(r) \/ GiveUp(r)

ReadNext == (\E r \in Readers : ReaderStep(r)) \/ Revise \/ TimePasses

ReadSpec == ReadInit /\ [][ReadNext]_readVars

--------------------------------------------------------------------------------
\* A read that ends with "no source succeeded" has tried every source that might:
\* neither the ranking, which moves while it tries, nor a failure takes one away.
MissIsHonest ==
  [][\A r \in Readers : GiveUp(r) => tried[r] = Eligible(req[r].pin)]_readVars

\* Once a date was answered from a source and is over, the cache serves it to a read
\* without a pin, to one pinned to that source, and to a range that is over, whatever
\* the ranking prefers by then and whichever sources hold it.  A read pinned to another
\* source, or a range with a date that is due, goes upstream.
AnsweredStaysAnswered ==
  \A a \in answered : a[2] < Today =>
    /\ Served(a[2], Ranked) /\ Served(a[2], {a[1]})
    /\ \A D \in SUBSET {d \in Dates : d < Today} : a[2] \in D => ServedRange(D)

\* "Only the *current* period (today / this month / this year) ... is subject to the
\* fetched_at TTL" (fetch/cache.py): in it no row is served that is older.
CurrentPeriodChecked ==
  \A d \in Dates : Today \in Period(d) /\ Served(d, Ranked) =>
    LET x == Picked(d, Ranked)
    IN now - cache[Preferred({s \in Ranked : Cached(s, x)})][x].at <= Ttl

\* What is served for ever as "a final fact" is the final value.
ServedForEverIsFinal ==
  \A s \in Ranked, d \in Dates :
    Cached(s, d) /\ ~(Today \in Period(d)) /\ d < Today => cache[s][d].v = truth[d]
================================================================================
