------------------------------ MODULE StreamPlane ------------------------------
(***************************************************************************)
(* The stream plane: stream/publish.py and push/listener.py hand records   *)
(* to a stream or, when it fails, to the table; stream/ingest.py lands     *)
(* what it reads; stream/replay.py lands a range again.  The stream is     *)
(* stream/redis_streams.py, one consumer group.                            *)
(*                                                                         *)
(* A record is a point and a version: the number of the emission that made *)
(* it, so that a greater version is the newer value.  Landing is           *)
(* write_cache_range, one commit per group of points; Rollups has its      *)
(* statements.                                                             *)
(***************************************************************************)
EXTENDS Integers, Sequences, FiniteSets, FiniteSetsExt, SequencesExt

CONSTANTS
  Points,       \* landing key and date
  Group,        \* point -> its landing key
  Batches,      \* the lists of points an emission may carry
  Producers,    \* callers of emit_observations
  Sinkless,     \* those without a sink
  Degrading,    \* those with degrade_to_direct
  Consumers,    \* run_ingest_loop processes of the group
  Replayer,     \* the replay tool
  Count,        \* messages per read, chunk_size of a replay
  MaxLen,       \* maxlen of the stream
  MaxEmits,     \* bound: emissions
  MaxOutages,   \* bound: calls that fail, consumers that die
  MaxReplays    \* bound: replays

ASSUME PointAssumption ==
  /\ IsFiniteSet(Points) /\ DOMAIN Group = Points
  /\ \A b \in Batches : b \in Seq(Points) /\ b # <<>>
ASSUME ProcessAssumption ==
  /\ IsFiniteSet(Consumers) /\ Replayer \notin Consumers
  /\ Producers \cap (Consumers \cup {Replayer}) = {}
  /\ Sinkless \subseteq Producers /\ Degrading \subseteq Producers
ASSUME BoundAssumption ==
  /\ Count \in Nat \ {0} /\ MaxLen \in Nat \ {0}
  /\ MaxEmits \in Nat /\ MaxOutages \in Nat /\ MaxReplays \in Nat

VARIABLES
  log,          \* every entry ever added, in order; an entry's id is its index
  trimmed,      \* entries 1 .. trimmed are gone (maxlen)
  cursor,       \* last-delivered-id of the group
  pending,      \* delivered and not acked
  obs,          \* semantic_observations: point -> version, 0 for no row
  pc,           \* where each process stands
  rec,          \* a producer's records: points and version
  batch,        \* the entries a session is landing
  todo,         \* the landing keys not committed yet
  range,        \* what is left of the replay's range
  emits, outages, replays,
  accepted,     \* history: records whose emission returned
  landed,       \* history: records written, or dropped for a later one of their batch
  disturbed     \* history: emissions, sessions or transports have overlapped

streamVars  == <<log, trimmed, cursor, pending>>
sessionVars == <<batch, todo, range>>
boundVars   == <<emits, outages, replays>>
vars == <<streamVars, obs, pc, rec, sessionVars, boundVars, accepted, landed, disturbed>>

Sessions == Consumers \cup {Replayer}
Record   == [points : Batches \cup {<<>>}, version : Nat]
Entry    == [point : Points, version : Nat]
Keys(S)  == {Group[p] : p \in S}
NoRecord == [points |-> <<>>, version |-> 0]

Init ==
  /\ log = <<>>
  /\ trimmed = 0
  /\ cursor = 0
  /\ pending = {}
  /\ obs = [p \in Points |-> 0]
  /\ pc = [x \in Producers \cup Sessions |-> "idle"]
  /\ rec = [x \in Producers |-> NoRecord]
  /\ batch = [x \in Sessions |-> {}]
  /\ todo = [x \in Producers \cup Sessions |-> {}]
  /\ range = {}
  /\ emits = 0 /\ outages = 0 /\ replays = 0
  /\ accepted = {}
  /\ landed = {}
  /\ disturbed = FALSE

Goto(x, stage) == pc' = [pc EXCEPT ![x] = stage]
Outage == outages < MaxOutages /\ outages' = outages + 1
Records(r) == {<<p, r.version>> : p \in ToSet(r.points)}

--------------------------------------------------------------------------------
(* Producers: emit_observations, called by workers and by handle_push       *)

Emit(x) ==
  /\ pc[x] = "idle"
  /\ emits < MaxEmits
  /\ emits' = emits + 1
  /\ \E b \in Batches :
       /\ rec' = [rec EXCEPT ![x] = [points |-> b, version |-> emits']]
       /\ todo' = [todo EXCEPT ![x] = Keys(ToSet(b))]
  /\ Goto(x, IF x \in Sinkless THEN "direct" ELSE "publish")
  /\ disturbed' = (disturbed \/ \E y \in Producers : pc[y] # "idle")
  /\ UNCHANGED <<streamVars, obs, batch, range, outages, replays, accepted, landed>>

\* XADD of the first n records; each may trim the oldest entries (approximate).
Add(x, n) ==
  /\ log' = log \o [k \in 1 .. n |-> [point |-> rec[x].points[k], version |-> rec[x].version]]
  /\ trimmed' \in trimmed .. Max({trimmed, Len(log') - MaxLen})

Publish(x) ==
  /\ pc[x] = "publish"
  /\ Add(x, Len(rec[x].points))
  /\ accepted' = accepted \cup Records(rec[x])
  /\ Goto(x, "idle")
  /\ UNCHANGED <<cursor, pending, obs, rec, sessionVars, boundVars, landed, disturbed>>

\* The pipeline is not a transaction: some of its XADDs are done when it fails.
PublishFails(x) ==
  /\ pc[x] = "publish"
  /\ Outage
  /\ \E n \in 0 .. Len(rec[x].points) : Add(x, n)
  /\ Goto(x, IF x \in Degrading THEN "direct" ELSE "idle")
  /\ disturbed' = TRUE
  /\ UNCHANGED <<cursor, pending, obs, rec, sessionVars, emits, replays, accepted, landed>>

\* _direct_write, one landing key: one commit.
DirectWrite(x, key) ==
  /\ pc[x] = "direct"
  /\ key \in todo[x]
  /\ LET S == {p \in ToSet(rec[x].points) : Group[p] = key}
     IN /\ obs' = [p \in Points |-> IF p \in S THEN rec[x].version ELSE obs[p]]
        /\ landed' = landed \cup {<<p, rec[x].version>> : p \in S}
  /\ todo' = [todo EXCEPT ![x] = @ \ {key}]
  /\ disturbed' = TRUE
  /\ UNCHANGED <<streamVars, pc, rec, batch, range, boundVars, accepted>>

DirectDone(x) ==
  /\ pc[x] = "direct"
  /\ todo[x] = {}
  /\ accepted' = accepted \cup Records(rec[x])
  /\ Goto(x, "idle")
  /\ UNCHANGED <<streamVars, obs, rec, sessionVars, boundVars, landed, disturbed>>

\* The write raises, and with it the run: the caller knows.
DirectFails(x) ==
  /\ pc[x] = "direct"
  /\ Outage
  /\ Goto(x, "idle")
  /\ UNCHANGED <<streamVars, obs, rec, sessionVars, emits, replays, accepted, landed, disturbed>>

--------------------------------------------------------------------------------
(* Sessions that land entries                                               *)

StartLanding(x, B) ==
  /\ batch' = [batch EXCEPT ![x] = B]
  /\ todo' = [todo EXCEPT ![x] = Keys({log[e].point : e \in B})]
  /\ Goto(x, "land")
  /\ disturbed' = (disturbed \/ \E y \in Sessions : pc[y] # "idle")

\* Entries after the cursor that are still there.
Unread == {e \in cursor + 1 .. Len(log) : e > trimmed}

FirstOf(S, n) == {e \in S : Cardinality({d \in S : d <= e}) <= n}

\* Mutant: a read waits for a full batch.
FullBatch == Cardinality(Unread) >= Count

SomethingNew == Unread # {}

\* XREADGROUP >: entries nobody of the group was given.
Read(c) ==
  /\ pc[c] = "idle"
  /\ SomethingNew
  /\ LET B == FirstOf(Unread, Count)
     IN /\ cursor' = Max(B)
        /\ pending' = pending \cup B
        /\ StartLanding(c, B)
  /\ UNCHANGED <<log, trimmed, obs, rec, range, boundVars, accepted, landed>>

\* Mutant: the first record of a date wins in a batch.
LastOfFirst(S) == Min(S)

LastOf(S) == Max(S)

\* land_events, one landing key: {date: value}, where a later record of the same
\* date replaces an earlier one, in one commit.
Land(x, key) ==
  /\ pc[x] = "land"
  /\ key \in todo[x]
  /\ LET mine    == {e \in batch[x] : Group[log[e].point] = key}
         of(p)   == {e \in mine : log[e].point = p}
     IN /\ obs' = [p \in Points |-> IF of(p) = {} THEN obs[p] ELSE log[LastOf(of(p))].version]
        /\ landed' = landed \cup {<<log[e].point, log[e].version>> : e \in mine}
  /\ todo' = [todo EXCEPT ![x] = @ \ {key}]
  /\ UNCHANGED <<streamVars, pc, rec, batch, range, boundVars, accepted, disturbed>>

\* Mutant: the batch is acked before all of it is landed.
MayAckEarly(c) == TRUE

MayAck(c) == todo[c] = {}

Ack(c) ==
  /\ c \in Consumers
  /\ pc[c] = "land"
  /\ MayAck(c)
  /\ pending' = pending \ batch[c]
  /\ batch' = [batch EXCEPT ![c] = {}]
  /\ todo' = [todo EXCEPT ![c] = {}]
  /\ Goto(c, "idle")
  /\ UNCHANGED <<log, trimmed, cursor, obs, rec, range, boundVars, accepted, landed, disturbed>>

\* Landing raises, or the session dies: what it has stays pending.  The loop reads
\* new entries only and nothing calls the stream's reclaim, so it stays there.
Fail(x) ==
  /\ pc[x] = "land"
  /\ Outage
  /\ batch' = [batch EXCEPT ![x] = {}]
  /\ todo' = [todo EXCEPT ![x] = {}]
  /\ range' = IF x = Replayer THEN {} ELSE range
  /\ Goto(x, "idle")
  /\ disturbed' = TRUE
  /\ UNCHANGED <<streamVars, obs, rec, emits, replays, accepted, landed>>

\* iter_range reads the window once; the chunks land one after the other.
ReplayStart ==
  /\ pc[Replayer] = "idle"
  /\ range = {}
  /\ replays < MaxReplays
  /\ replays' = replays + 1
  /\ \E from \in trimmed + 1 .. Len(log) : \E to \in from .. Len(log) : range' = from .. to
  /\ disturbed' = TRUE
  /\ UNCHANGED <<streamVars, obs, pc, rec, batch, todo, emits, outages, accepted, landed>>

ReplayChunk ==
  /\ pc[Replayer] = "idle"
  /\ range # {}
  /\ range' = range \ FirstOf(range, Count)
  /\ StartLanding(Replayer, FirstOf(range, Count))
  /\ UNCHANGED <<streamVars, obs, rec, boundVars, accepted, landed>>

ChunkDone ==
  /\ pc[Replayer] = "land"
  /\ todo[Replayer] = {}
  /\ batch' = [batch EXCEPT ![Replayer] = {}]
  /\ Goto(Replayer, "idle")
  /\ UNCHANGED <<streamVars, obs, rec, todo, range, boundVars, accepted, landed, disturbed>>

\* should_cancel, polled between chunks.
Cancel ==
  /\ pc[Replayer] = "idle"
  /\ range # {}
  /\ range' = {}
  /\ UNCHANGED <<streamVars, obs, pc, rec, batch, todo, boundVars, accepted, landed, disturbed>>

--------------------------------------------------------------------------------
ProducerStep(x) ==
  \/ Emit(x) \/ Publish(x) \/ PublishFails(x) \/ DirectDone(x) \/ DirectFails(x)
  \/ \E key \in Keys(Points) : DirectWrite(x, key)

ConsumerStep(c) ==
  \/ Read(c) \/ Ack(c)
  \/ \E key \in Keys(Points) : Land(c, key)

ReplayStep ==
  \/ ReplayStart \/ ReplayChunk \/ ChunkDone \/ Cancel
  \/ \E key \in Keys(Points) : Land(Replayer, key)

Next ==
  \/ \E x \in Producers : ProducerStep(x)
  \/ \E c \in Consumers : ConsumerStep(c)
  \/ ReplayStep
  \/ \E x \in Sessions : Fail(x)

Spec == Init /\ [][Next]_vars

\* Consumers are services: one that dies is started again.
FairSpec == Spec /\ \A c \in Consumers : WF_vars(ConsumerStep(c))

--------------------------------------------------------------------------------
\* Types; what is pending was delivered.
TypeOK ==
  /\ log \in Seq(Entry)
  /\ trimmed \in 0 .. Len(log) /\ cursor \in 0 .. Len(log)
  /\ pending \in SUBSET (1 .. cursor)
  /\ obs \in [Points -> Nat]
  /\ pc \in [Producers \cup Sessions -> {"idle", "publish", "direct", "land"}]
  /\ rec \in [Producers -> Record]
  /\ batch \in [Sessions -> SUBSET (1 .. Len(log))]
  /\ todo \in [Producers \cup Sessions -> SUBSET Keys(Points)]
  /\ range \in SUBSET (1 .. Len(log))
  /\ emits \in Nat /\ outages \in Nat /\ replays \in Nat
  /\ accepted \in SUBSET (Points \X Nat) /\ landed \in SUBSET (Points \X Nat)
  /\ disturbed \in BOOLEAN

RecordsAt(E) == {<<log[e].point, log[e].version>> : e \in E}
Trimmed == RecordsAt(1 .. trimmed)

\* "An outage never loses data": whatever fails between publish, landing and ack,
\* a record whose emission returned is in the table or still in the stream, unread
\* or pending; only maxlen takes one away.
NothingLost ==
  accepted \subseteq landed \cup RecordsAt(Unread) \cup RecordsAt(pending) \cup Trimmed

\* A consumer never has more of its batch left than its pending entries: what was
\* acked has been landed, in every landing key.
AckedIsLanded == RecordsAt(1 .. cursor) \subseteq landed \cup RecordsAt(pending) \cup Trimmed

\* The table holds the newest of the versions landed for a point, until emissions
\* or landings overlap, a transport is switched, or a range is replayed.
NewestWins == ~disturbed => \A r \in landed : obs[r[1]] >= r[2]

\* What a consumer that failed has left behind: pending, and nobody is at it.
Stranded == pending \ UNION {batch[c] : c \in Consumers}

\* sink.py's contract as far as the ingest loop keeps it: an accepted record is landed
\* in the end, or was trimmed, or its batch failed (emissions are finitely many here).
EveryEventLands == <>[](accepted \subseteq landed \cup Trimmed \cup RecordsAt(Stranded))

\* "Reclaimed by another consumer": a record whose batch failed is landed as well.
ReclaimedInTheEnd == <>[](accepted \subseteq landed \cup Trimmed)
================================================================================
