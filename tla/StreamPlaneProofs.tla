--------------------------- MODULE StreamPlaneProofs ---------------------------
(***************************************************************************)
(* No accepted record is lost between publishing, reading, landing and     *)
(* acknowledging, and an undisturbed stream leaves the newest version,     *)
(* for every number of producers and consumers and every batch.            *)
(***************************************************************************)
EXTENDS StreamPlane, FiniteSetTheorems, SequenceTheorems, WellFoundedInduction, TLAPS

Less == {ss \in Nat \X Nat : ss[1] < ss[2]}

LEMMA LessWellFounded == IsWellFoundedOn(Less, Nat)
BY NatLessThanWellFounded DEF OpToRel, Less

\* A bounded set of naturals has a greatest element.
LEMMA MaxOfSet ==
  ASSUME NEW n \in Nat, NEW S \in SUBSET (0 .. n), S # {}
  PROVE  Max(S) \in S /\ \A y \in S : y <= Max(S)
<1>1. PICK x \in {n - y : y \in S} : \A y \in {n - z : z \in S} : ~(<<y, x>> \in Less)
  <2>1. ASSUME NEW y \in S PROVE n - y \in Nat
    <3>1. y \in 0 .. n
      OBVIOUS
    <3>2. QED  BY <3>1
  <2>2. {n - y : y \in S} \subseteq Nat /\ {n - y : y \in S} # {}
    BY <2>1
  <2>3. QED  BY <2>2, LessWellFounded, WFMin
<1>2. PICK m \in S : x = n - m
  BY <1>1
<1>3. ASSUME NEW y \in S PROVE m >= y
  <2>1. ~(<<n - y, n - m>> \in Less)
    BY <1>1, <1>2
  <2>2. y \in 0 .. n /\ m \in 0 .. n
    OBVIOUS
  <2>3. n - y \in Nat /\ n - m \in Nat
    BY <2>2
  <2>4. ~(n - y < n - m)
    BY <2>1, <2>3 DEF Less
  <2>5. QED  BY <2>2, <2>4
<1>4. \E z \in S : \A y \in S : z >= y
  BY <1>3
<1>5. QED  BY <1>4 DEF Max

\* The first k of a set of entries: some, and none without those before it.
LEMMA FirstOfSet ==
  ASSUME NEW n \in Nat, NEW S \in SUBSET (0 .. n), S # {}, NEW k \in Nat \ {0}
  PROVE  /\ FirstOf(S, k) # {}
         /\ FirstOf(S, k) \subseteq S
         /\ \A e \in FirstOf(S, k), d \in S : d <= e => d \in FirstOf(S, k)
<1>1. PICK m \in S : \A y \in S : ~(<<y, m>> \in Less)
  <2>1. S \subseteq Nat
    OBVIOUS
  <2>2. QED  BY <2>1, LessWellFounded, WFMin
<1>2. \A y \in S : m <= y
  <2>1. SUFFICES ASSUME NEW y \in S PROVE m <= y
    OBVIOUS
  <2>2. y \in 0 .. n /\ m \in 0 .. n
    OBVIOUS
  <2>3. ~(<<y, m>> \in Less)
    BY <1>1
  <2>4. y \in Nat /\ m \in Nat
    BY <2>2
  <2>5. ~(y < m)
    BY <2>3, <2>4 DEF Less
  <2>6. QED  BY <2>4, <2>5
<1>3. {d \in S : d <= m} = {m}
  <2>1. \A d \in S : d \in 0 .. n
    OBVIOUS
  <2>2. \A d \in S : d <= m => d = m
    BY <1>2, <2>1
  <2>3. m <= m
    BY <2>1
  <2>4. QED  BY <2>2, <2>3
<1>4. Cardinality({d \in S : d <= m}) = 1
  BY <1>3, FS_Singleton
<1>5. m \in FirstOf(S, k)
  BY <1>4 DEF FirstOf
<1>6. IsFiniteSet(S)
  <2>1. IsFiniteSet(0 .. n)
    BY FS_Interval
  <2>2. QED  BY <2>1, FS_Subset
<1>7. ASSUME NEW e \in FirstOf(S, k), NEW d \in S, d <= e
      PROVE  d \in FirstOf(S, k)
  <2>1. e \in S /\ Cardinality({c \in S : c <= e}) <= k
    BY <1>7 DEF FirstOf
  <2>a. \A c \in S : c \in 0 .. n
    OBVIOUS
  <2>b. \A c \in S : c <= d => c <= e
    BY <1>7, <2>1, <2>a
  <2>2. {c \in S : c <= d} \in SUBSET {c \in S : c <= e}
    BY <2>b
  <2>3. IsFiniteSet({c \in S : c <= e})
    BY <1>6, FS_Subset
  <2>4. /\ Cardinality({c \in S : c <= d}) <= Cardinality({c \in S : c <= e})
        /\ IsFiniteSet({c \in S : c <= d})
    BY <2>2, <2>3, FS_Subset
  <2>5. Cardinality({c \in S : c <= d}) \in Nat /\ Cardinality({c \in S : c <= e}) \in Nat
    BY <2>3, <2>4, FS_CardinalityType
  <2>6. Cardinality({c \in S : c <= d}) <= k
    BY <2>1, <2>4, <2>5
  <2>7. QED  BY <2>6 DEF FirstOf
<1>8. QED  BY <1>5, <1>7 DEF FirstOf

--------------------------------------------------------------------------------
(* Types                                                                    *)

\* What an XADD of the first n records does to the log.
LEMMA AddGrows ==
  ASSUME TypeOK, NEW x \in Producers, NEW n \in 0 .. Len(rec[x].points), Add(x, n)
  PROVE  /\ log' \in Seq(Entry) /\ Len(log') = Len(log) + n
         /\ Len(log) \in Nat
         /\ \A e \in 1 .. Len(log) : log'[e] = log[e]
         /\ \A k \in 1 .. n : log'[Len(log) + k] = [point |-> rec[x].points[k], version |-> rec[x].version]
         /\ trimmed' \in 0 .. Len(log') /\ trimmed <= trimmed'
<1> DEFINE more == [k \in 1 .. n |-> [point |-> rec[x].points[k], version |-> rec[x].version]]
<1>1. rec[x] \in Record
  BY DEF TypeOK
<1>2. rec[x].points \in Seq(Points) /\ rec[x].version \in Nat
  BY <1>1, PointAssumption, EmptySeq DEF Record
<1>3. n \in Nat /\ \A k \in 1 .. n : rec[x].points[k] \in Points
  BY <1>2, ElementOfSeq, LenProperties
<1>4. more \in [1 .. n -> Entry]
  BY <1>2, <1>3 DEF Entry
<1>5. more \in Seq(Entry) /\ Len(more) = n
  BY <1>3, <1>4, SeqDef, LenProperties
<1>6. log \in Seq(Entry) /\ Len(log) \in Nat
  BY LenProperties DEF TypeOK
<1>7. log' = log \o more
  BY DEF Add
<1>8. /\ log' \in Seq(Entry)
      /\ Len(log') = Len(log) + n
      /\ \A i \in 1 .. Len(log) + n : log'[i] = IF i <= Len(log) THEN log[i] ELSE more[i - Len(log)]
  BY <1>5, <1>6, <1>7, ConcatProperties
<1> HIDE DEF more
<1>9. \A e \in 1 .. Len(log) : log'[e] = log[e]
  BY <1>3, <1>6, <1>8
<1>10. \A k \in 1 .. n : log'[Len(log) + k] = more[k]
  <2>1. SUFFICES ASSUME NEW k \in 1 .. n PROVE log'[Len(log) + k] = more[k]
    OBVIOUS
  <2>2. Len(log) + k \in 1 .. Len(log) + n /\ ~(Len(log) + k <= Len(log))
        /\ (Len(log) + k) - Len(log) = k
    BY <1>3, <1>6
  <2>3. QED  BY <1>8, <2>2
<1>11. trimmed' \in 0 .. Len(log') /\ trimmed <= trimmed'
  <2> DEFINE kept == Len(log') - MaxLen
  <2>1. trimmed \in 0 .. Len(log) /\ MaxLen \in Nat \ {0} /\ kept \in Int /\ kept <= Len(log')
    BY <1>3, <1>6, <1>8, BoundAssumption DEF TypeOK
  <2>2. Max({trimmed, kept}) \in {trimmed, kept}
    <3>1. \E y \in {trimmed, kept} : \A z \in {trimmed, kept} : y >= z
      BY <2>1
    <3>2. QED  BY <3>1 DEF Max
  <2>3. trimmed' \in trimmed .. Max({trimmed, kept})
    BY DEF Add
  <2> HIDE DEF kept
  <2>4. QED  BY <1>3, <1>6, <1>8, <2>1, <2>2, <2>3
<1>12. QED  BY <1>6, <1>8, <1>9, <1>10, <1>11 DEF more

\* The disjuncts of Next, one by one.
LEMMA StepCases ==
  ASSUME [Next]_vars
  PROVE  \/ \E x \in Producers : \/ Emit(x) \/ Publish(x) \/ PublishFails(x) \/ DirectDone(x)
                                  \/ DirectFails(x)
                                  \/ \E key \in Keys(Points) : DirectWrite(x, key)
         \/ \E c \in Consumers : Read(c) \/ Ack(c)
         \/ \E x \in Sessions : Fail(x) \/ \E key \in Keys(Points) : Land(x, key)
         \/ ReplayStart \/ ReplayChunk \/ ChunkDone \/ Cancel
         \/ UNCHANGED vars
BY DEF Next, ProducerStep, ConsumerStep, ReplayStep, Sessions

LEMMA InitTypes == Init => TypeOK
<1>1. SUFFICES ASSUME Init PROVE TypeOK
  OBVIOUS
<1>2. log \in Seq(Entry) /\ Len(log) = 0
  BY <1>1, EmptySeq, LenProperties DEF Init
<1>3. rec \in [Producers -> Record]
  BY <1>1 DEF Init, NoRecord, Record
<1>4. obs \in [Points -> Nat] /\ pc \in [Producers \cup Sessions -> {"idle", "publish", "direct", "land"}]
  BY <1>1 DEF Init
<1>5. /\ batch \in [Sessions -> SUBSET (1 .. Len(log))]
      /\ todo \in [Producers \cup Sessions -> SUBSET Keys(Points)]
  BY <1>1 DEF Init
<1>6. trimmed \in 0 .. Len(log) /\ cursor \in 0 .. Len(log)
  BY <1>1, <1>2 DEF Init
<1>7. QED
  BY <1>1, <1>2, <1>3, <1>4, <1>5, <1>6 DEF Init, TypeOK

\* What a session starts to land is typed like what it was given.
LEMMA StartLandingTypes ==
  ASSUME TypeOK, NEW x \in Sessions, NEW B \in SUBSET (1 .. Len(log)), StartLanding(x, B)
  PROVE  /\ batch' \in [Sessions -> SUBSET (1 .. Len(log))]
         /\ todo' \in [Producers \cup Sessions -> SUBSET Keys(Points)]
         /\ pc' \in [Producers \cup Sessions -> {"idle", "publish", "direct", "land"}]
         /\ disturbed' \in BOOLEAN
<1>a. \A e \in 1 .. Len(log) : log[e] \in Entry
  BY ElementOfSeq DEF TypeOK
<1>1. \A e \in B : log[e].point \in Points
  BY <1>a DEF Entry
<1>2. Keys({log[e].point : e \in B}) \in SUBSET Keys(Points)
  BY <1>1 DEF Keys
<1>3. QED  BY <1>2 DEF TypeOK, StartLanding, Goto

LEMMA NextTypes == TypeOK /\ [Next]_vars => TypeOK'
<1> SUFFICES ASSUME TypeOK, [Next]_vars PROVE TypeOK'
  OBVIOUS
<1> DEFINE Stages == {"idle", "publish", "direct", "land"}
<1>a. Len(log) \in Nat /\ cursor \in Nat /\ trimmed \in Nat
  BY LenProperties DEF TypeOK
<1>b. ASSUME NEW x \in Producers, NEW n \in 0 .. Len(rec[x].points), Add(x, n),
             UNCHANGED <<cursor, pending, batch, range>>
      PROVE  /\ log' \in Seq(Entry)
             /\ trimmed' \in 0 .. Len(log)' /\ cursor' \in 0 .. Len(log)'
             /\ pending' \in SUBSET (1 .. cursor')
             /\ batch' \in [Sessions -> SUBSET (1 .. Len(log)')]
             /\ range' \in SUBSET (1 .. Len(log)')
  <2>1. log' \in Seq(Entry) /\ Len(log') = Len(log) + n /\ trimmed' \in 0 .. Len(log')
    BY <1>b, AddGrows
  <2>2. \A k \in 0 .. Len(log) : k \in 0 .. Len(log')
    BY <1>a, <1>b, <2>1, LenProperties
  <2>3. 1 .. Len(log) \subseteq 1 .. Len(log')
    BY <1>a, <1>b, <2>1
  <2>4. QED  BY <1>b, <2>1, <2>2, <2>3 DEF TypeOK
<1>1. ASSUME NEW x \in Producers, Emit(x) PROVE TypeOK'
  <2>1. PICK b \in Batches : /\ rec' = [rec EXCEPT ![x] = [points |-> b, version |-> emits']]
                             /\ todo' = [todo EXCEPT ![x] = Keys(ToSet(b))]
    BY <1>1 DEF Emit
  <2>2. emits' \in Nat
    BY <1>1 DEF Emit, TypeOK
  <2>3. [points |-> b, version |-> emits'] \in Record
    BY <2>2 DEF Record
  <2>4. Keys(ToSet(b)) \in SUBSET Keys(Points)
    <3>1. \A i \in DOMAIN b : b[i] \in Points
      BY PointAssumption, ElementOfSeq, LenProperties
    <3>2. QED  BY <3>1 DEF Keys, ToSet
  <2>5. rec' \in [Producers -> Record] /\ todo' \in [Producers \cup Sessions -> SUBSET Keys(Points)]
    BY <2>1, <2>3, <2>4 DEF TypeOK
  <2>6. pc' \in [Producers \cup Sessions -> Stages] /\ disturbed' \in BOOLEAN
    BY <1>1 DEF Emit, Goto, TypeOK
  <2>7. QED  BY <1>1, <2>2, <2>5, <2>6 DEF Emit, TypeOK, streamVars
<1>2. ASSUME NEW x \in Producers, Publish(x) PROVE TypeOK'
  <2>0. Len(rec[x].points) \in 0 .. Len(rec[x].points)
    <3>1. rec[x].points \in Seq(Points)
      BY PointAssumption, EmptySeq DEF TypeOK, Record
    <3>2. QED  BY <3>1, LenProperties
  <2>1. /\ log' \in Seq(Entry)
        /\ trimmed' \in 0 .. Len(log)' /\ cursor' \in 0 .. Len(log)'
        /\ pending' \in SUBSET (1 .. cursor')
        /\ batch' \in [Sessions -> SUBSET (1 .. Len(log)')]
        /\ range' \in SUBSET (1 .. Len(log)')
    BY <1>2, <1>b, <2>0 DEF Publish, sessionVars
  <2>2. accepted' \in SUBSET (Points \X Nat)
    <3>1. rec[x].points \in Seq(Points) /\ rec[x].version \in Nat
      BY PointAssumption, EmptySeq DEF TypeOK, Record
    <3>2. \A i \in DOMAIN rec[x].points : rec[x].points[i] \in Points
      BY <3>1, ElementOfSeq, LenProperties
    <3>3. Records(rec[x]) \subseteq Points \X Nat
      BY <3>1, <3>2 DEF Records, ToSet
    <3>4. QED  BY <1>2, <3>3 DEF Publish, TypeOK
  <2>3. pc' \in [Producers \cup Sessions -> Stages]
    BY <1>2 DEF Publish, Goto, TypeOK
  <2>4. QED  BY <1>2, <2>1, <2>2, <2>3 DEF Publish, TypeOK, sessionVars, boundVars
<1>3. ASSUME NEW x \in Producers, PublishFails(x) PROVE TypeOK'
  <2>0. PICK n \in 0 .. Len(rec[x].points) : Add(x, n)
    BY <1>3 DEF PublishFails
  <2>1. /\ log' \in Seq(Entry)
        /\ trimmed' \in 0 .. Len(log)' /\ cursor' \in 0 .. Len(log)'
        /\ pending' \in SUBSET (1 .. cursor')
        /\ batch' \in [Sessions -> SUBSET (1 .. Len(log)')]
        /\ range' \in SUBSET (1 .. Len(log)')
    BY <1>3, <1>b, <2>0 DEF PublishFails, sessionVars
  <2>2. pc' \in [Producers \cup Sessions -> Stages] /\ disturbed' \in BOOLEAN /\ outages' \in Nat
    BY <1>3 DEF PublishFails, Outage, Goto, TypeOK
  <2>3. QED  BY <1>3, <2>1, <2>2 DEF PublishFails, TypeOK, sessionVars
<1>4. ASSUME NEW x \in Producers, DirectDone(x) PROVE TypeOK'
  <2>1. rec[x].points \in Seq(Points) /\ rec[x].version \in Nat
    BY PointAssumption, EmptySeq DEF TypeOK, Record
  <2>2. \A i \in DOMAIN rec[x].points : rec[x].points[i] \in Points
    BY <2>1, ElementOfSeq, LenProperties
  <2>3. Records(rec[x]) \subseteq Points \X Nat
    BY <2>1, <2>2 DEF Records, ToSet
  <2>4. accepted' \in SUBSET (Points \X Nat) /\ pc' \in [Producers \cup Sessions -> Stages]
    BY <1>4, <2>3 DEF DirectDone, Goto, TypeOK
  <2>5. QED  BY <1>4, <2>4 DEF DirectDone, TypeOK, streamVars, sessionVars, boundVars
<1>5. ASSUME NEW x \in Producers, DirectFails(x) PROVE TypeOK'
  <2>1. pc' \in [Producers \cup Sessions -> Stages] /\ outages' \in Nat
    BY <1>5 DEF DirectFails, Outage, Goto, TypeOK
  <2>2. QED  BY <1>5, <2>1 DEF DirectFails, TypeOK, streamVars, sessionVars
<1>6. ASSUME NEW x \in Producers, NEW key \in Keys(Points), DirectWrite(x, key) PROVE TypeOK'
  <2> DEFINE S == {p \in ToSet(rec[x].points) : Group[p] = key}
  <2>1. rec[x].points \in Seq(Points) /\ rec[x].version \in Nat
    BY PointAssumption, EmptySeq DEF TypeOK, Record
  <2>2. ToSet(rec[x].points) \subseteq Points
    BY <2>1, ElementOfSeq, LenProperties DEF ToSet
  <2>3. obs' \in [Points -> Nat] /\ landed' \in SUBSET (Points \X Nat)
    BY <1>6, <2>1, <2>2 DEF DirectWrite, TypeOK
  <2>4. todo' \in [Producers \cup Sessions -> SUBSET Keys(Points)]
    BY <1>6 DEF DirectWrite, TypeOK
  <2>5. QED  BY <1>6, <2>3, <2>4 DEF DirectWrite, TypeOK, streamVars, boundVars
<1>7. ASSUME NEW c \in Consumers, Read(c) PROVE TypeOK'
  <2> DEFINE B == FirstOf(Unread, Count)
  <2>1. Unread \in SUBSET (0 .. Len(log)) /\ Unread # {} /\ Unread \subseteq cursor + 1 .. Len(log)
    BY <1>7, <1>a DEF Unread, SomethingNew, Read
  <2>2. B \subseteq Unread /\ B # {}
    BY <1>a, <2>1, FirstOfSet, BoundAssumption
  <2> HIDE DEF B
  <2>3. B \in SUBSET (0 .. Len(log))
    BY <2>1, <2>2
  <2>4. Max(B) \in B /\ \A y \in B : y <= Max(B)
    BY <1>a, <2>2, <2>3, MaxOfSet
  <2>5. Max(B) \in cursor + 1 .. Len(log)
    BY <2>1, <2>2, <2>4
  <2>6. cursor' = Max(B) /\ pending' = pending \cup B /\ StartLanding(c, B)
    BY <1>7 DEF Read, B
  <2>7. cursor' \in 0 .. Len(log)
    BY <1>a, <2>5, <2>6
  <2>8. pending' \in SUBSET (1 .. cursor')
    <3>1. \A e \in B : e \in 1 .. cursor'
      BY <1>a, <2>1, <2>2, <2>4, <2>5, <2>6
    <3>2. \A e \in pending : e \in 1 .. cursor'
      BY <1>a, <2>5, <2>6 DEF TypeOK
    <3>3. QED  BY <2>6, <3>1, <3>2
  <2>9. B \in SUBSET (1 .. Len(log)) /\ c \in Sessions
    BY <1>a, <2>1, <2>2 DEF Sessions
  <2>10. /\ batch' \in [Sessions -> SUBSET (1 .. Len(log))]
         /\ todo' \in [Producers \cup Sessions -> SUBSET Keys(Points)]
         /\ pc' \in [Producers \cup Sessions -> Stages]
         /\ disturbed' \in BOOLEAN
    BY <2>6, <2>9, StartLandingTypes
  <2>11. QED  BY <1>7, <2>7, <2>8, <2>10 DEF Read, TypeOK, boundVars
<1>8. ASSUME NEW c \in Consumers, Ack(c) PROVE TypeOK'
  <2>1. /\ pending' \in SUBSET (1 .. cursor)
        /\ batch' \in [Sessions -> SUBSET (1 .. Len(log))]
        /\ todo' \in [Producers \cup Sessions -> SUBSET Keys(Points)]
        /\ pc' \in [Producers \cup Sessions -> Stages]
    BY <1>8 DEF Ack, Goto, TypeOK
  <2>2. QED  BY <1>8, <2>1 DEF Ack, TypeOK, boundVars
<1>9. ASSUME NEW x \in Sessions, Fail(x) PROVE TypeOK'
  <2>1. /\ batch' \in [Sessions -> SUBSET (1 .. Len(log))]
        /\ todo' \in [Producers \cup Sessions -> SUBSET Keys(Points)]
        /\ pc' \in [Producers \cup Sessions -> Stages]
        /\ range' \in SUBSET (1 .. Len(log)) /\ outages' \in Nat /\ disturbed' \in BOOLEAN
    BY <1>9 DEF Fail, Outage, Goto, TypeOK
  <2>2. QED  BY <1>9, <2>1 DEF Fail, TypeOK, streamVars
<1>10. ASSUME NEW x \in Sessions, NEW key \in Keys(Points), Land(x, key) PROVE TypeOK'
  <2> DEFINE mine  == {e \in batch[x] : Group[log[e].point] = key}
             of(p) == {e \in mine : log[e].point = p}
  <2>1. \A e \in 1 .. Len(log) : log[e] \in Entry
    BY ElementOfSeq DEF TypeOK
  <2>2. mine \subseteq 1 .. Len(log)
    BY DEF TypeOK
  <2>3. ASSUME NEW p \in Points, of(p) # {} PROVE LastOf(of(p)) \in 1 .. Len(log)
    <3>1. of(p) \in SUBSET (0 .. Len(log)) /\ of(p) \subseteq 1 .. Len(log)
      BY <1>a, <2>2
    <3>2. QED  BY <1>a, <2>3, <3>1, MaxOfSet DEF LastOf
  <2>4. obs' = [p \in Points |-> IF of(p) = {} THEN obs[p] ELSE log[LastOf(of(p))].version]
    BY <1>10 DEF Land
  <2>5. landed' = landed \cup {<<log[e].point, log[e].version>> : e \in mine}
    BY <1>10 DEF Land
  <2> HIDE DEF mine, of
  <2>6. obs' \in [Points -> Nat]
    BY <2>1, <2>3, <2>4 DEF TypeOK, Entry
  <2>7. landed' \in SUBSET (Points \X Nat)
    <3>1. \A e \in mine : log[e].point \in Points /\ log[e].version \in Nat
      BY <2>1, <2>2 DEF Entry
    <3>2. {<<log[e].point, log[e].version>> : e \in mine} \subseteq Points \X Nat
      BY <3>1
    <3>3. QED  BY <2>5, <3>2 DEF TypeOK
  <2>8. todo' \in [Producers \cup Sessions -> SUBSET Keys(Points)]
    BY <1>10 DEF Land, TypeOK
  <2>9. QED  BY <1>10, <2>6, <2>7, <2>8 DEF Land, TypeOK, streamVars, boundVars
<1>11. CASE ReplayStart
  <2>1. PICK from \in trimmed + 1 .. Len(log) :
          \E to \in from .. Len(log) : range' = from .. to
    BY <1>11 DEF ReplayStart
  <2>2. range' \in SUBSET (1 .. Len(log))
    BY <1>a, <2>1
  <2>3. replays' \in Nat /\ disturbed' \in BOOLEAN
    BY <1>11 DEF ReplayStart, TypeOK
  <2>4. QED  BY <1>11, <2>2, <2>3 DEF ReplayStart, TypeOK, streamVars
<1>12. CASE ReplayChunk
  <2> DEFINE B == FirstOf(range, Count)
  <2>1. B \in SUBSET (1 .. Len(log)) /\ Replayer \in Sessions
    BY DEF FirstOf, TypeOK, Sessions
  <2>2. /\ batch' \in [Sessions -> SUBSET (1 .. Len(log))]
        /\ todo' \in [Producers \cup Sessions -> SUBSET Keys(Points)]
        /\ pc' \in [Producers \cup Sessions -> Stages]
        /\ disturbed' \in BOOLEAN
    BY <1>12, <2>1, StartLandingTypes DEF ReplayChunk
  <2>3. range' \in SUBSET (1 .. Len(log))
    BY <1>12 DEF ReplayChunk, TypeOK
  <2>4. QED  BY <1>12, <2>2, <2>3 DEF ReplayChunk, TypeOK, streamVars, boundVars
<1>13. CASE ChunkDone
  <2>1. /\ batch' \in [Sessions -> SUBSET (1 .. Len(log))]
        /\ pc' \in [Producers \cup Sessions -> Stages]
    BY <1>13 DEF ChunkDone, Goto, TypeOK
  <2>2. QED  BY <1>13, <2>1 DEF ChunkDone, TypeOK, streamVars, boundVars
<1>14. CASE Cancel
  BY <1>14 DEF Cancel, TypeOK, streamVars, boundVars
<1>15. CASE UNCHANGED vars
  BY <1>15 DEF vars, TypeOK, streamVars, sessionVars, boundVars
<1>16. QED
  BY StepCases, <1>1, <1>2, <1>3, <1>4, <1>5, <1>6, <1>7, <1>8, <1>9, <1>10, <1>11, <1>12,
     <1>13, <1>14, <1>15

\* The log, the group, the sessions and the table keep their types; what is
\* pending was delivered.
THEOREM StreamTypeCorrect == Spec => []TypeOK
<1>1. QED  BY InitTypes, NextTypes, PTL DEF Spec

--------------------------------------------------------------------------------
(* Nothing is lost                                                          *)

RecordOf(e) == <<log[e].point, log[e].version>>

\* What the group was given is landed, still pending, or trimmed.
Settled == \A e \in 1 .. cursor : RecordOf(e) \in landed \/ e \in pending \/ e <= trimmed

\* What an emission returned for is in the table or was added to the stream.
Written == \A r \in accepted : r \in landed \/ \E e \in 1 .. Len(log) : r = RecordOf(e)

\* A session has landed the keys of its batch that it no longer has to do.
Landing ==
  \A x \in Sessions : pc[x] = "land" =>
    \A e \in batch[x] : Group[log[e].point] \in todo[x] \/ RecordOf(e) \in landed

\* A producer that writes directly has written the keys it no longer has to do.
Writing ==
  \A x \in Producers : pc[x] \in {"publish", "direct"} =>
    \A p \in ToSet(rec[x].points) : Group[p] \in todo[x] \/ <<p, rec[x].version>> \in landed

Kept == Settled /\ Written /\ Landing /\ Writing

\* Added records leave every entry where it is.
LEMMA AddKeeps ==
  ASSUME TypeOK, Kept, NEW x \in Producers, NEW n \in 0 .. Len(rec[x].points), Add(x, n),
         UNCHANGED <<cursor, pending, batch, todo, rec, landed>>,
         pc[x] = "publish",
         \E stage \in {"idle", "direct"} : pc' = [pc EXCEPT ![x] = stage]
  PROVE  /\ Settled' /\ Landing' /\ Writing'
         /\ \A r \in accepted : r \in landed' \/ \E e \in 1 .. Len(log)' : r = RecordOf(e)'
<1>1. /\ Len(log') = Len(log) + n /\ Len(log) \in Nat
      /\ \A e \in 1 .. Len(log) : log'[e] = log[e]
      /\ trimmed' \in 0 .. Len(log') /\ trimmed <= trimmed'
  BY AddGrows
<1>2. \A e \in 1 .. Len(log) : e \in 1 .. Len(log)' /\ RecordOf(e)' = RecordOf(e)
  <2>1. n \in Nat
    OBVIOUS
  <2>2. QED  BY <1>1, <2>1 DEF RecordOf
<1>3. \A e \in 1 .. cursor : e \in 1 .. Len(log)
  BY <1>1 DEF TypeOK
<1>4. Settled'
  <2>1. \A e \in 1 .. cursor : e <= trimmed => e <= trimmed'
    BY <1>1 DEF TypeOK
  <2>2. QED  BY <1>2, <1>3, <2>1 DEF Kept, Settled
<1>5. Landing'
  <2>1. \A y \in Sessions : pc'[y] = "land" => pc[y] = "land"
    BY DEF TypeOK
  <2>2. \A y \in Sessions : \A e \in batch[y] : e \in 1 .. Len(log)
    BY DEF TypeOK
  <2>3. QED  BY <1>1, <1>2, <2>1, <2>2 DEF Kept, Landing
<1>6. Writing'
  BY DEF Kept, Writing, TypeOK
<1>7. QED  BY <1>2, <1>4, <1>5, <1>6 DEF Kept, Written

\* A batch that a session starts is all to be done.
LEMMA StartLandingKeeps ==
  ASSUME TypeOK, Landing, NEW x \in Sessions, NEW B \in SUBSET (1 .. Len(log)), StartLanding(x, B),
         log' = log, landed' = landed
  PROVE  Landing'
<1>1. batch'[x] = B /\ todo'[x] = Keys({log[e].point : e \in B})
  BY DEF StartLanding, TypeOK
<1>2. \A e \in B : Group[log[e].point] \in todo'[x]
  BY <1>1 DEF Keys
<1>3. \A y \in Sessions : y # x => /\ pc'[y] = pc[y] /\ batch'[y] = batch[y] /\ todo'[y] = todo[y]
  BY DEF StartLanding, Goto, TypeOK
<1>4. QED  BY <1>1, <1>2, <1>3 DEF Landing, RecordOf

\* Between the cursor and the last entry read there are only read and trimmed ones.
LEMMA ReadsInOrder ==
  ASSUME TypeOK, NEW c \in Consumers, Read(c)
  PROVE  /\ FirstOf(Unread, Count) \subseteq Unread
         /\ FirstOf(Unread, Count) \in SUBSET (1 .. Len(log))
         /\ \A e \in FirstOf(Unread, Count) : cursor < e
         /\ \A e \in 1 .. cursor' : e <= cursor \/ e \in FirstOf(Unread, Count) \/ e <= trimmed
         /\ cursor' \in Nat /\ cursor < cursor' /\ cursor' <= Len(log)
<1> DEFINE B == FirstOf(Unread, Count)
<1>a. Len(log) \in Nat /\ cursor \in Nat /\ trimmed \in Nat
  BY LenProperties DEF TypeOK
<1>1. Unread \in SUBSET (0 .. Len(log)) /\ Unread # {} /\ Unread \subseteq cursor + 1 .. Len(log)
  BY <1>a DEF Unread, SomethingNew, Read
<1>2. /\ B \subseteq Unread /\ B # {}
      /\ \A e \in B, d \in Unread : d <= e => d \in B
  BY <1>a, <1>1, FirstOfSet, BoundAssumption
<1>3. cursor' = Max(B)
  BY DEF Read
<1> HIDE DEF B
<1>4. B \in SUBSET (0 .. Len(log))
  BY <1>1, <1>2
<1>5. Max(B) \in B
  BY <1>a, <1>2, <1>4, MaxOfSet
<1>6. cursor' \in cursor + 1 .. Len(log)
  BY <1>1, <1>2, <1>3, <1>5
<1>7. ASSUME NEW e \in 1 .. cursor', ~(e <= cursor), ~(e <= trimmed) PROVE e \in B
  <2>1. e \in cursor + 1 .. Len(log) /\ e > trimmed
    BY <1>a, <1>6, <1>7
  <2>2. e \in Unread
    BY <2>1 DEF Unread
  <2>3. e <= Max(B)
    BY <1>3, <1>6, <1>7
  <2>4. QED  BY <1>2, <1>5, <2>2, <2>3
<1>8. \A e \in B : cursor < e /\ e \in 1 .. Len(log)
  BY <1>a, <1>1, <1>2
<1>9. cursor' \in Nat /\ cursor < cursor' /\ cursor' <= Len(log)
  BY <1>a, <1>6
<1>10. QED  BY <1>2, <1>7, <1>8, <1>9 DEF B

LEMMA KeptStep == TypeOK /\ Kept /\ [Next]_vars => Kept'
<1> SUFFICES ASSUME TypeOK, Kept, [Next]_vars PROVE Kept'
  OBVIOUS
<1>0. UNCHANGED <<log, trimmed, cursor, pending, landed>> => Settled'
  BY DEF Kept, Settled, RecordOf
<1>a. UNCHANGED <<log, accepted, landed>> => Written'
  BY DEF Kept, Written, RecordOf
<1>b. Producers \cap Sessions = {}
  BY ProcessAssumption DEF Sessions
<1>c. ASSUME UNCHANGED <<log, batch, landed>>,
             NEW x \in Producers, \A y \in Sessions : pc'[y] = pc[y] /\ todo'[y] = todo[y]
      PROVE  Landing'
  BY <1>c DEF Kept, Landing, RecordOf
<1>d. ASSUME UNCHANGED <<rec, landed>>,
             \A y \in Producers : pc'[y] = pc[y] /\ todo'[y] = todo[y]
      PROVE  Writing'
  BY <1>d DEF Kept, Writing
<1>1. ASSUME NEW x \in Producers, Emit(x) PROVE Kept'
  <2>1. Settled' /\ Written'
    BY <1>1, <1>0, <1>a DEF Emit, streamVars
  <2>2. PICK b \in Batches : /\ rec' = [rec EXCEPT ![x] = [points |-> b, version |-> emits']]
                             /\ todo' = [todo EXCEPT ![x] = Keys(ToSet(b))]
    BY <1>1 DEF Emit
  <2>3. \A y \in Producers \cup Sessions : y # x => pc'[y] = pc[y] /\ todo'[y] = todo[y]
    BY <1>1, <2>2 DEF Emit, Goto, TypeOK
  <2>4. Landing'
    BY <1>1, <1>b, <1>c, <2>3 DEF Emit, streamVars
  <2>5. Writing'
    <3>1. rec'[x].points = b /\ todo'[x] = Keys(ToSet(b))
      BY <2>2 DEF TypeOK
    <3>2. \A p \in ToSet(b) : Group[p] \in todo'[x]
      BY <3>1 DEF Keys
    <3>3. \A y \in Producers : y # x => rec'[y] = rec[y]
      BY <2>2 DEF TypeOK
    <3>4. landed' = landed
      BY <1>1 DEF Emit
    <3>5. QED  BY <2>3, <3>1, <3>2, <3>3, <3>4 DEF Kept, Writing
  <2>6. QED  BY <2>1, <2>4, <2>5 DEF Kept
<1>2. ASSUME NEW x \in Producers, Publish(x) PROVE Kept'
  <2>1. rec[x].points \in Seq(Points)
    BY PointAssumption, EmptySeq DEF TypeOK, Record
  <2>2. Len(rec[x].points) \in 0 .. Len(rec[x].points) /\ DOMAIN rec[x].points = 1 .. Len(rec[x].points)
    BY <2>1, LenProperties
  <2>3. /\ Settled' /\ Landing' /\ Writing'
        /\ \A r \in accepted : r \in landed' \/ \E e \in 1 .. Len(log)' : r = RecordOf(e)'
    BY <1>2, <2>2, AddKeeps DEF Publish, Goto, sessionVars
  <2>4. /\ Len(log') = Len(log) + Len(rec[x].points) /\ Len(log) \in Nat
        /\ \A k \in 1 .. Len(rec[x].points) :
             log'[Len(log) + k] = [point |-> rec[x].points[k], version |-> rec[x].version]
    BY <1>2, <2>2, AddGrows DEF Publish
  <2>5. ASSUME NEW k \in 1 .. Len(rec[x].points)
        PROVE  \E e \in 1 .. Len(log)' : <<rec[x].points[k], rec[x].version>> = RecordOf(e)'
    <3>1. PICK e \in 1 .. Len(log') : e = Len(log) + k
      BY <2>2, <2>4
    <3>2. log'[e] = [point |-> rec[x].points[k], version |-> rec[x].version]
      BY <2>4, <3>1
    <3>3. RecordOf(e)' = <<rec[x].points[k], rec[x].version>>
      BY <3>2 DEF RecordOf
    <3>4. QED  BY <3>3
  <2>6. \A r \in Records(rec[x]) : \E e \in 1 .. Len(log)' : r = RecordOf(e)'
    BY <2>2, <2>5 DEF Records, ToSet
  <2>7. accepted' = accepted \cup Records(rec[x])
    BY <1>2 DEF Publish
  <2>8. QED  BY <2>3, <2>6, <2>7 DEF Kept, Written
<1>3. ASSUME NEW x \in Producers, PublishFails(x) PROVE Kept'
  <2>1. PICK n \in 0 .. Len(rec[x].points) : Add(x, n)
    BY <1>3 DEF PublishFails
  <2>2. /\ Settled' /\ Landing' /\ Writing'
        /\ \A r \in accepted : r \in landed' \/ \E e \in 1 .. Len(log)' : r = RecordOf(e)'
    BY <1>3, <2>1, AddKeeps DEF PublishFails, Goto, sessionVars
  <2>3. QED  BY <1>3, <2>2 DEF Kept, Written, PublishFails
<1>4. ASSUME NEW x \in Producers, DirectDone(x) PROVE Kept'
  <2>1. Settled'
    BY <1>4, <1>0 DEF DirectDone, streamVars
  <2>2. \A y \in Producers \cup Sessions : y # x => pc'[y] = pc[y]
    BY <1>4 DEF DirectDone, Goto, TypeOK
  <2>3. Landing'
    BY <1>4, <1>b, <1>c, <2>2 DEF DirectDone, streamVars, sessionVars
  <2>4. pc'[x] = "idle"
    BY <1>4 DEF DirectDone, Goto, TypeOK
  <2>5. Writing'
    BY <1>4, <2>2, <2>4 DEF DirectDone, Kept, Writing, sessionVars
  <2>6. \A r \in Records(rec[x]) : r \in landed
    BY <1>4 DEF DirectDone, Kept, Writing, Records
  <2>7. Written'
    BY <1>4, <2>6 DEF DirectDone, Kept, Written, RecordOf, streamVars
  <2>8. QED  BY <2>1, <2>3, <2>5, <2>7 DEF Kept
<1>5. ASSUME NEW x \in Producers, DirectFails(x) PROVE Kept'
  <2>1. Settled' /\ Written'
    BY <1>5, <1>0, <1>a DEF DirectFails, streamVars
  <2>2. \A y \in Producers \cup Sessions : y # x => pc'[y] = pc[y]
    BY <1>5 DEF DirectFails, Goto, TypeOK
  <2>3. Landing'
    BY <1>5, <1>b, <1>c, <2>2 DEF DirectFails, streamVars, sessionVars
  <2>4. pc'[x] = "idle"
    BY <1>5 DEF DirectFails, Goto, TypeOK
  <2>5. Writing'
    BY <1>5, <2>2, <2>4 DEF DirectFails, Kept, Writing, sessionVars
  <2>6. QED  BY <2>1, <2>3, <2>5 DEF Kept
<1>6. ASSUME NEW x \in Producers, NEW key \in Keys(Points), DirectWrite(x, key) PROVE Kept'
  <2>1. landed \subseteq landed'
    BY <1>6 DEF DirectWrite
  <2>2. UNCHANGED <<log, trimmed, cursor, pending, pc, rec, batch, accepted>>
    BY <1>6 DEF DirectWrite, streamVars
  <2>3. Settled' /\ Written'
    BY <2>1, <2>2 DEF Kept, Settled, Written, RecordOf
  <2>4. \A y \in Producers \cup Sessions : y # x => todo'[y] = todo[y]
    BY <1>6 DEF DirectWrite, TypeOK
  <2>5. Landing'
    BY <1>b, <2>1, <2>2, <2>4 DEF Kept, Landing, RecordOf
  <2>6. todo'[x] = todo[x] \ {key}
    BY <1>6 DEF DirectWrite, TypeOK
  <2>7. \A p \in ToSet(rec[x].points) : Group[p] = key => <<p, rec[x].version>> \in landed'
    BY <1>6 DEF DirectWrite
  <2>8. Writing'
    BY <2>1, <2>2, <2>4, <2>6, <2>7 DEF Kept, Writing
  <2>9. QED  BY <2>3, <2>5, <2>8 DEF Kept
<1>e. \A c \in Consumers : c \in Sessions /\ c \notin Producers
  BY <1>b DEF Sessions
<1>7. ASSUME NEW c \in Consumers, Read(c) PROVE Kept'
  <2> DEFINE B == FirstOf(Unread, Count)
  <2>1. /\ B \in SUBSET (1 .. Len(log))
        /\ \A e \in 1 .. cursor' : e <= cursor \/ e \in B \/ e <= trimmed
        /\ cursor \in Nat /\ cursor' \in Nat
    BY <1>7, ReadsInOrder DEF TypeOK
  <2>2. StartLanding(c, B) /\ pending' = pending \cup B
        /\ UNCHANGED <<log, trimmed, rec, accepted, landed>>
    BY <1>7 DEF Read
  <2> HIDE DEF B
  <2>3. Settled'
    <3>1. SUFFICES ASSUME NEW e \in 1 .. cursor'
                   PROVE  RecordOf(e) \in landed \/ e \in pending' \/ e <= trimmed
      BY <2>2 DEF Settled, RecordOf
    <3>2. e <= cursor => e \in 1 .. cursor
      BY <2>1
    <3>3. QED  BY <2>1, <2>2, <3>2 DEF Kept, Settled
  <2>4. Written'
    BY <1>a, <2>2
  <2>5. Landing'
    BY <1>e, <2>1, <2>2, StartLandingKeeps DEF Kept
  <2>6. Writing'
    BY <1>d, <1>e, <2>2 DEF StartLanding, Goto, TypeOK
  <2>7. QED  BY <2>3, <2>4, <2>5, <2>6 DEF Kept
<1>8. ASSUME NEW c \in Consumers, Ack(c) PROVE Kept'
  <2>1. pc[c] = "land" /\ todo[c] = {} /\ pending' = pending \ batch[c]
    BY <1>8 DEF Ack, MayAck
  <2>2. \A e \in batch[c] : RecordOf(e) \in landed
    BY <1>e, <2>1 DEF Kept, Landing
  <2>3. UNCHANGED <<log, trimmed, cursor, rec, accepted, landed>>
    BY <1>8 DEF Ack
  <2>4. Settled'
    BY <2>1, <2>2, <2>3 DEF Kept, Settled, RecordOf
  <2>5. /\ pc'[c] = "idle"
        /\ \A y \in Producers \cup Sessions : y # c => pc'[y] = pc[y] /\ todo'[y] = todo[y]
        /\ \A y \in Sessions : y # c => batch'[y] = batch[y]
    BY <1>8, <1>e DEF Ack, Goto, TypeOK
  <2>6. Landing'
    BY <2>3, <2>5 DEF Kept, Landing, RecordOf
  <2>7. Writing'
    BY <1>d, <1>e, <2>3, <2>5
  <2>8. QED  BY <1>a, <2>3, <2>4, <2>6, <2>7 DEF Kept
<1>9. ASSUME NEW x \in Sessions, Fail(x) PROVE Kept'
  <2>1. UNCHANGED <<log, trimmed, cursor, pending, rec, accepted, landed>>
    BY <1>9 DEF Fail, streamVars
  <2>2. /\ pc'[x] = "idle"
        /\ \A y \in Producers \cup Sessions : y # x => pc'[y] = pc[y] /\ todo'[y] = todo[y]
        /\ \A y \in Sessions : y # x => batch'[y] = batch[y]
    BY <1>9 DEF Fail, Goto, TypeOK
  <2>3. Landing'
    BY <2>1, <2>2 DEF Kept, Landing, RecordOf
  <2>4. Writing'
    BY <1>b, <1>d, <2>1, <2>2
  <2>5. QED  BY <1>0, <1>a, <2>1, <2>3, <2>4 DEF Kept
<1>10. ASSUME NEW x \in Sessions, NEW key \in Keys(Points), Land(x, key) PROVE Kept'
  <2>1. landed' = landed \cup {RecordOf(e) : e \in {d \in batch[x] : Group[log[d].point] = key}}
    BY <1>10 DEF Land, RecordOf
  <2>2. UNCHANGED <<log, trimmed, cursor, pending, pc, rec, batch, accepted>>
    BY <1>10 DEF Land, streamVars
  <2>3. Settled' /\ Written'
    BY <2>1, <2>2 DEF Kept, Settled, Written, RecordOf
  <2>4. /\ todo'[x] = todo[x] \ {key}
        /\ \A y \in Producers \cup Sessions : y # x => todo'[y] = todo[y]
    BY <1>10 DEF Land, TypeOK
  <2>5. \A e \in batch[x] : Group[log[e].point] = key => RecordOf(e) \in landed'
    BY <2>1
  <2>6. Landing'
    <3>1. SUFFICES ASSUME NEW y \in Sessions, pc[y] = "land", NEW e \in batch[y]
                   PROVE  Group[log[e].point] \in todo'[y] \/ RecordOf(e) \in landed'
      BY <2>2 DEF Landing, RecordOf
    <3>2. Group[log[e].point] \in todo[y] \/ RecordOf(e) \in landed
      BY <3>1 DEF Kept, Landing
    <3>3. QED  BY <2>1, <2>4, <2>5, <3>2
  <2>7. Writing'
    BY <1>b, <2>1, <2>2, <2>4 DEF Kept, Writing
  <2>8. QED  BY <2>3, <2>6, <2>7 DEF Kept
<1>f. Replayer \in Sessions /\ Replayer \notin Producers
  BY <1>b DEF Sessions
<1>11. CASE ReplayStart \/ Cancel \/ UNCHANGED vars
  <2>1. UNCHANGED <<log, trimmed, cursor, pending, pc, rec, batch, todo, accepted, landed>>
    BY <1>11 DEF ReplayStart, Cancel, vars, streamVars, sessionVars
  <2>2. QED  BY <1>0, <1>a, <2>1 DEF Kept, Landing, Writing, RecordOf
<1>12. CASE ReplayChunk
  <2> DEFINE B == FirstOf(range, Count)
  <2>1. B \in SUBSET (1 .. Len(log))
    BY DEF FirstOf, TypeOK
  <2>2. StartLanding(Replayer, B) /\ UNCHANGED <<log, trimmed, cursor, pending, rec, accepted, landed>>
    BY <1>12 DEF ReplayChunk, streamVars
  <2> HIDE DEF B
  <2>3. Landing'
    BY <1>f, <2>1, <2>2, StartLandingKeeps DEF Kept
  <2>4. Writing'
    BY <1>d, <1>f, <2>2 DEF StartLanding, Goto, TypeOK
  <2>5. QED  BY <1>0, <1>a, <2>2, <2>3, <2>4 DEF Kept
<1>13. CASE ChunkDone
  <2>1. UNCHANGED <<log, trimmed, cursor, pending, rec, todo, accepted, landed>>
    BY <1>13 DEF ChunkDone, streamVars
  <2>2. /\ pc'[Replayer] = "idle"
        /\ \A y \in Producers \cup Sessions : y # Replayer => pc'[y] = pc[y]
        /\ \A y \in Sessions : y # Replayer => batch'[y] = batch[y]
    BY <1>13, <1>f DEF ChunkDone, Goto, TypeOK
  <2>3. Landing'
    BY <2>1, <2>2 DEF Kept, Landing, RecordOf
  <2>4. Writing'
    BY <1>d, <1>f, <2>1, <2>2
  <2>5. QED  BY <1>0, <1>a, <2>1, <2>3, <2>4 DEF Kept
<1>14. QED
  BY StepCases, <1>1, <1>2, <1>3, <1>4, <1>5, <1>6, <1>7, <1>8, <1>9, <1>10, <1>11, <1>12, <1>13

LEMMA KeptInit == Init => Kept
<1> SUFFICES ASSUME Init PROVE Kept
  OBVIOUS
<1>1. Settled
  BY DEF Init, Settled
<1>2. Written
  BY DEF Init, Written
<1>3. Landing
  BY DEF Init, Landing
<1>4. Writing
  BY DEF Init, Writing
<1>5. QED  BY <1>1, <1>2, <1>3, <1>4 DEF Kept

LEMMA KeptSuffices == TypeOK /\ Kept => NothingLost /\ AckedIsLanded
<1> SUFFICES ASSUME TypeOK, Kept PROVE NothingLost /\ AckedIsLanded
  OBVIOUS
<1>a. Len(log) \in Nat /\ cursor \in Nat /\ trimmed \in Nat
  BY LenProperties DEF TypeOK
<1>b. ASSUME NEW e \in 1 .. Len(log), e <= trimmed PROVE RecordOf(e) \in Trimmed
  <2>1. e \in 1 .. trimmed
    BY <1>a, <1>b
  <2>2. QED  BY <2>1 DEF Trimmed, RecordsAt, RecordOf
<1>1. ASSUME NEW e \in 1 .. cursor
      PROVE  RecordOf(e) \in landed \cup RecordsAt(pending) \cup Trimmed
  <2>1. e \in 1 .. Len(log)
    BY <1>a DEF TypeOK
  <2>2. QED  BY <1>b, <2>1 DEF Kept, Settled, RecordsAt, RecordOf
<1>2. AckedIsLanded
  BY <1>1 DEF AckedIsLanded, RecordsAt, RecordOf
<1>3. ASSUME NEW e \in 1 .. Len(log)
      PROVE  RecordOf(e) \in landed \cup RecordsAt(Unread) \cup RecordsAt(pending) \cup Trimmed
  <2>1. CASE e <= cursor
    BY <1>a, <1>1, <2>1
  <2>2. CASE ~(e <= cursor) /\ e <= trimmed
    BY <1>b, <2>2
  <2>3. CASE ~(e <= cursor) /\ ~(e <= trimmed)
    <3>1. e \in Unread
      BY <1>a, <2>3 DEF Unread
    <3>2. QED  BY <3>1 DEF RecordsAt, RecordOf
  <2>4. QED  BY <2>1, <2>2, <2>3
<1>4. NothingLost
  BY <1>3 DEF NothingLost, Kept, Written
<1>5. QED  BY <1>2, <1>4

\* Whatever producers, consumers, outages and replays do, a record whose emission
\* returned is in the table, can still be read or reclaimed, or was taken by
\* maxlen (emit_observations, land_events, ack after landing).
THEOREM NothingIsLost == Spec => []NothingLost
<1>1. QED
  BY InitTypes, NextTypes, KeptInit, KeptStep, KeptSuffices, PTL DEF Spec

\* A consumer group acknowledges nothing that it has not landed (ingest_batch).
THEOREM AckFollowsLanding == Spec => []AckedIsLanded
<1>1. QED
  BY InitTypes, NextTypes, KeptInit, KeptStep, KeptSuffices, PTL DEF Spec

--------------------------------------------------------------------------------
(* The newest wins                                                          *)

\* One emission and one landing at a time, and no replay.
OneAtATime ==
  /\ \A x, y \in Producers : pc[x] # "idle" /\ pc[y] # "idle" => x = y
  /\ \A x, y \in Sessions : pc[x] # "idle" /\ pc[y] # "idle" => x = y
  /\ range = {} /\ pc[Replayer] = "idle"
  /\ \A e \in pending : \E x \in Sessions : pc[x] = "land" /\ e \in batch[x]
  /\ \A x \in Sessions : batch[x] \subseteq 1 .. cursor

\* The stream is in the order of the versions.
InOrder ==
  /\ \A e \in 1 .. Len(log) : log[e].version <= emits
  /\ \A e, f \in 1 .. Len(log) : e <= f => log[e].version <= log[f].version
  /\ \A x \in Producers : rec[x].version <= emits
  /\ \A x \in Producers : pc[x] = "publish" =>
       \A e \in 1 .. Len(log) : log[e].version <= rec[x].version

\* What is landed was read, before a batch in landing or with it, its key done.
LandedInOrder ==
  \A r \in landed : \E e \in 1 .. cursor :
    /\ r = RecordOf(e)
    /\ \A x \in Sessions : pc[x] = "land" =>
         \/ \A b \in batch[x] : e < b
         \/ e \in batch[x] /\ Group[log[e].point] \notin todo[x]

Newest == \A r \in landed : obs[r[1]] >= r[2]

Quiet == OneAtATime /\ InOrder /\ LandedInOrder /\ Newest

LEMMA QuietInit == Init => Quiet
<1> SUFFICES ASSUME Init PROVE Quiet
  OBVIOUS
<1>1. Len(log) = 0
  BY EmptySeq, LenProperties DEF Init
<1>2. OneAtATime
  BY DEF Init, OneAtATime, Sessions
<1>3. InOrder
  BY <1>1 DEF Init, InOrder, NoRecord
<1>4. LandedInOrder /\ Newest
  BY DEF Init, LandedInOrder, Newest
<1>5. QED  BY <1>2, <1>3, <1>4 DEF Quiet

\* Steps of producers that touch neither log nor table.
LEMMA ProducerQuiet ==
  ASSUME TypeOK, Quiet, NEW x \in Producers, Publish(x) \/ DirectDone(x) \/ DirectFails(x) \/ Emit(x)
  PROVE  /\ \A y \in Sessions : pc'[y] = pc[y] /\ todo'[y] = todo[y]
         /\ \A y \in Producers : y # x => pc'[y] = pc[y] /\ rec'[y] = rec[y]
         /\ UNCHANGED <<cursor, pending, obs, batch, range, landed>>
<1>1. x \notin Sessions
  BY ProcessAssumption DEF Sessions
<1>2. UNCHANGED <<cursor, pending, obs, batch, range, landed>>
  BY DEF Publish, DirectDone, DirectFails, Emit, streamVars, sessionVars
<1>3. CASE Publish(x) \/ DirectDone(x) \/ DirectFails(x)
  BY <1>1, <1>2, <1>3 DEF Publish, DirectDone, DirectFails, Goto, TypeOK, sessionVars
<1>4. CASE Emit(x)
  <2>1. PICK b \in Batches : /\ rec' = [rec EXCEPT ![x] = [points |-> b, version |-> emits']]
                             /\ todo' = [todo EXCEPT ![x] = Keys(ToSet(b))]
    BY <1>4 DEF Emit
  <2>2. pc' = [pc EXCEPT ![x] = IF x \in Sinkless THEN "direct" ELSE "publish"]
    BY <1>4 DEF Emit, Goto
  <2>3. QED  BY <1>1, <1>2, <2>1, <2>2 DEF TypeOK
<1>5. QED  BY <1>3, <1>4

\* A batch that starts after everything that is landed.
LEMMA StartQuiet ==
  ASSUME TypeOK, Quiet, NEW c \in Sessions, NEW B, StartLanding(c, B), ~disturbed',
         c # Replayer, B \subseteq 1 .. cursor', cursor \in Nat, cursor' \in Nat, cursor <= cursor',
         pending' \subseteq pending \cup B,
         \A e \in B : cursor < e,
         UNCHANGED <<log, obs, rec, range, emits, landed>>
  PROVE  Quiet'
<1>1. \A y \in Sessions : pc[y] = "idle"
  BY DEF StartLanding
<1>2. /\ pc'[c] = "land" /\ batch'[c] = B
      /\ \A y \in Producers \cup Sessions : y # c => pc'[y] = pc[y]
      /\ \A y \in Sessions : y # c => batch'[y] = batch[y]
  BY DEF StartLanding, Goto, TypeOK
<1>3. c \notin Producers /\ Replayer \in Sessions
  BY ProcessAssumption DEF Sessions
<1>4. OneAtATime'
  <2>1. pending = {}
    BY <1>1 DEF Quiet, OneAtATime
  <2>2. \A e \in pending' : pc'[c] = "land" /\ e \in batch'[c]
    BY <1>2, <2>1
  <2>3. ASSUME NEW y \in Sessions PROVE batch'[y] \subseteq 1 .. cursor'
    <3>1. CASE y = c
      BY <1>2, <3>1
    <3>2. CASE y # c
      <4>1. batch'[y] = batch[y] /\ batch[y] \subseteq 1 .. cursor
        BY <1>2, <3>2 DEF Quiet, OneAtATime
      <4>2. \A e \in 1 .. cursor : e \in 1 .. cursor'
        OBVIOUS
      <4>3. QED  BY <4>1, <4>2
    <3>3. QED  BY <3>1, <3>2
  <2>4. \A y \in Sessions : y # c => pc'[y] = "idle"
    BY <1>1, <1>2
  <2>5. \A y \in Producers : pc'[y] = pc[y]
    BY <1>2, <1>3
  <2>6. QED  BY <1>3, <2>2, <2>3, <2>4, <2>5 DEF Quiet, OneAtATime
<1>5. InOrder'
  BY <1>2, <1>3 DEF Quiet, InOrder
<1>6. LandedInOrder'
  <2>1. SUFFICES ASSUME NEW r \in landed
                 PROVE  \E e \in 1 .. cursor' :
                          /\ r = RecordOf(e)
                          /\ \A x \in Sessions : pc'[x] = "land" =>
                               \/ \A b \in batch'[x] : e < b
                               \/ e \in batch'[x] /\ Group[log[e].point] \notin todo'[x]
    BY DEF LandedInOrder, RecordOf
  <2>2. PICK e \in 1 .. cursor : r = RecordOf(e)
    BY DEF Quiet, LandedInOrder
  <2>3. e \in 1 .. cursor' /\ \A b \in B : e < b
    BY <2>2
  <2>4. \A x \in Sessions : pc'[x] = "land" => x = c
    BY <1>1, <1>2
  <2>5. QED  BY <1>2, <2>2, <2>3, <2>4
<1>7. QED  BY <1>4, <1>5, <1>6 DEF Quiet, Newest

LEMMA LandQuiet ==
  ASSUME TypeOK, Quiet, NEW x \in Sessions, NEW key \in Keys(Points), Land(x, key)
  PROVE  Quiet'
<1> DEFINE mine  == {e \in batch[x] : Group[log[e].point] = key}
           of(p) == {e \in mine : log[e].point = p}
<1>a. Len(log) \in Nat /\ cursor \in Nat /\ cursor <= Len(log)
  BY LenProperties DEF TypeOK
<1>b. ASSUME NEW e \in 1 .. Len(log) PROVE log[e].point \in Points /\ log[e].version \in Nat
  <2>1. log[e] \in Entry
    BY ElementOfSeq DEF TypeOK
  <2>2. QED  BY <2>1 DEF Entry
<1>1. /\ pc[x] = "land" /\ key \in todo[x]
      /\ obs' = [p \in Points |-> IF of(p) = {} THEN obs[p] ELSE log[LastOf(of(p))].version]
      /\ landed' = landed \cup {RecordOf(e) : e \in mine}
      /\ UNCHANGED <<log, cursor, pending, pc, rec, batch, range, emits>>
  BY DEF Land, streamVars, boundVars, RecordOf
<1>2. /\ todo'[x] = todo[x] \ {key}
      /\ \A y \in Sessions : y # x => todo'[y] = todo[y]
  BY DEF Land, TypeOK
<1>3. OneAtATime' /\ InOrder'
  BY <1>1 DEF Quiet, OneAtATime, InOrder
<1>4. mine \subseteq batch[x] /\ batch[x] \subseteq 1 .. cursor /\ mine \subseteq 1 .. Len(log)
  BY <1>a DEF Quiet, OneAtATime, TypeOK
<1>5. \A y \in Sessions : pc[y] = "land" => y = x
  BY <1>1 DEF Quiet, OneAtATime
<1>6. ASSUME NEW p \in Points, of(p) # {}
      PROVE  LastOf(of(p)) \in of(p) /\ \A e \in of(p) : e <= LastOf(of(p))
  <2>1. of(p) \in SUBSET (0 .. Len(log))
    BY <1>4
  <2>2. QED  BY <1>a, <1>6, <2>1, MaxOfSet DEF LastOf
<1>mine. \A e \in mine : e \in batch[x] /\ Group[log[e].point] = key
  OBVIOUS
<1>of. \A p, e : e \in of(p) <=> e \in mine /\ log[e].point = p
  OBVIOUS
<1> HIDE DEF mine, of
<1>7. LandedInOrder'
  <2>1. SUFFICES ASSUME NEW r \in landed'
                 PROVE  \E e \in 1 .. cursor :
                          /\ r = RecordOf(e)
                          /\ \A y \in Sessions : pc[y] = "land" =>
                               \/ \A b \in batch[y] : e < b
                               \/ e \in batch[y] /\ Group[log[e].point] \notin todo'[y]
    BY <1>1 DEF LandedInOrder, RecordOf
  <2>2. CASE r \in landed
    <3>1. PICK e \in 1 .. cursor :
            /\ r = RecordOf(e)
            /\ \A y \in Sessions : pc[y] = "land" =>
                 \/ \A b \in batch[y] : e < b
                 \/ e \in batch[y] /\ Group[log[e].point] \notin todo[y]
      BY <2>2 DEF Quiet, LandedInOrder
    <3>2. \A y \in Sessions : \A k : k \notin todo[y] => k \notin todo'[y]
      BY <1>2
    <3>3. QED  BY <3>1, <3>2
  <2>3. CASE r \notin landed
    <3>1. PICK e \in mine : r = RecordOf(e)
      BY <1>1, <2>1, <2>3
    <3>2. e \in 1 .. cursor /\ e \in batch[x] /\ Group[log[e].point] \notin todo'[x]
      BY <1>2, <1>4, <1>mine, <3>1
    <3>3. QED  BY <1>5, <3>1, <3>2
  <2>4. QED  BY <2>2, <2>3
<1>8. Newest'
  <2>1. SUFFICES ASSUME NEW r \in landed' PROVE obs'[r[1]] >= r[2]
    BY DEF Newest
  <2>2. PICK e \in 1 .. cursor :
          /\ r = RecordOf(e)
          /\ e \notin mine => \/ \A b \in batch[x] : e < b
                              \/ e \in batch[x] /\ Group[log[e].point] \notin todo[x]
          /\ e \notin mine => r \in landed
    <3>1. CASE r \in landed
      <4>1. PICK e \in 1 .. cursor :
              /\ r = RecordOf(e)
              /\ \A y \in Sessions : pc[y] = "land" =>
                   \/ \A b \in batch[y] : e < b
                   \/ e \in batch[y] /\ Group[log[e].point] \notin todo[y]
        BY <3>1 DEF Quiet, LandedInOrder
      <4>2. \/ \A b \in batch[x] : e < b
            \/ e \in batch[x] /\ Group[log[e].point] \notin todo[x]
        BY <1>1, <4>1
      <4>3. QED  BY <3>1, <4>1, <4>2
    <3>2. CASE r \notin landed
      BY <1>1, <1>4, <2>1, <3>2
    <3>3. QED  BY <3>1, <3>2
  <2>3. e \in 1 .. Len(log) /\ r[1] = log[e].point /\ r[2] = log[e].version /\ r[1] \in Points
        /\ r[2] \in Nat
    BY <1>a, <1>b, <2>2 DEF RecordOf
  <2>4. CASE of(r[1]) = {}
    <3>1. e \notin mine
      BY <1>of, <2>3, <2>4
    <3>2. obs[r[1]] >= r[2]
      BY <2>2, <3>1 DEF Quiet, Newest
    <3>3. QED  BY <1>1, <2>3, <2>4, <3>2
  <2>5. CASE of(r[1]) # {}
    <3> DEFINE m == LastOf(of(r[1]))
    <3>1. m \in of(r[1]) /\ \A d \in of(r[1]) : d <= m
      BY <1>6, <2>3, <2>5
    <3> HIDE DEF m
    <3>2. m \in mine /\ log[m].point = r[1] /\ m \in batch[x] /\ Group[r[1]] = key
      BY <1>of, <1>mine, <3>1
    <3>3. e <= m
      <4>1. CASE e \in mine
        BY <1>of, <2>3, <3>1, <4>1
      <4>2. CASE e \notin mine
        <5>1. \A b \in batch[x] : e < b
          BY <1>1, <2>2, <2>3, <3>2, <4>2
        <5>2. m \in 1 .. Len(log)
          BY <1>4, <3>2
        <5>3. QED  BY <2>3, <3>2, <5>1, <5>2
      <4>3. QED  BY <4>1, <4>2
    <3>4. m \in 1 .. Len(log)
      BY <1>4, <3>2
    <3>5. log[e].version <= log[m].version
      BY <2>3, <3>3, <3>4 DEF Quiet, InOrder
    <3>6. obs'[r[1]] = log[m].version
      BY <1>1, <2>3, <2>5 DEF m
    <3>7. QED  BY <1>b, <2>3, <3>4, <3>5, <3>6
  <2>6. QED  BY <2>4, <2>5
<1>9. QED  BY <1>3, <1>7, <1>8 DEF Quiet

LEMMA QuietStep == TypeOK /\ (~disturbed => Quiet) /\ [Next]_vars => (~disturbed' => Quiet')
<1> SUFFICES ASSUME TypeOK, ~disturbed => Quiet, [Next]_vars, ~disturbed' PROVE Quiet'
  OBVIOUS
<1>a. Len(log) \in Nat /\ cursor \in Nat /\ trimmed \in Nat
  BY LenProperties DEF TypeOK
<1>b. Producers \cap Sessions = {} /\ Replayer \in Sessions
  BY ProcessAssumption DEF Sessions
<1>c. ASSUME NEW x \in Producers, Quiet, Publish(x) \/ DirectDone(x) \/ DirectFails(x) \/ Emit(x),
             Emit(x) => \A y \in Producers : pc[y] = "idle", pc[x] # "idle" \/ Emit(x)
      PROVE  OneAtATime'
  <2>1. /\ \A y \in Sessions : pc'[y] = pc[y]
        /\ \A y \in Producers : y # x => pc'[y] = pc[y]
        /\ UNCHANGED <<cursor, pending, batch, range>>
    BY <1>c, ProducerQuiet
  <2>2. \A y \in Producers : y # x => pc'[y] = "idle"
    BY <1>c, <2>1 DEF Quiet, OneAtATime
  <2>3. QED  BY <1>b, <1>c, <2>1, <2>2 DEF Quiet, OneAtATime
<1>1. ASSUME NEW x \in Producers, Emit(x) PROVE Quiet'
  <2>1. ~disturbed /\ \A y \in Producers : pc[y] = "idle"
    BY <1>1 DEF Emit
  <2>2. Quiet
    BY <2>1
  <2>3. OneAtATime'
    BY <1>1, <1>c, <2>1, <2>2
  <2>4. /\ \A y \in Sessions : pc'[y] = pc[y] /\ todo'[y] = todo[y]
        /\ \A y \in Producers : y # x => pc'[y] = pc[y] /\ rec'[y] = rec[y]
        /\ UNCHANGED <<log, cursor, obs, batch, landed>>
    BY <1>1, <2>2, ProducerQuiet DEF Emit, streamVars
  <2>5. rec'[x].version = emits' /\ emits' = emits + 1 /\ emits \in Nat
    BY <1>1 DEF Emit, TypeOK
  <2>6. ASSUME NEW e \in 1 .. Len(log) PROVE log[e].version \in Nat
    <3>1. log[e] \in Entry
      BY ElementOfSeq DEF TypeOK
    <3>2. QED  BY <3>1 DEF Entry
  <2>7. \A y \in Producers : rec[y].version \in Nat
    BY DEF TypeOK, Record
  <2>8. \A e \in 1 .. Len(log) : log[e].version <= emits'
    BY <2>2, <2>5, <2>6 DEF Quiet, InOrder
  <2>9. \A y \in Producers : rec'[y].version <= emits'
    BY <2>2, <2>4, <2>5, <2>7 DEF Quiet, InOrder
  <2>10. \A y \in Producers : pc'[y] = "publish" => y = x
    BY <2>1, <2>4
  <2>11. InOrder'
    BY <2>2, <2>4, <2>5, <2>8, <2>9, <2>10 DEF Quiet, InOrder
  <2>12. LandedInOrder' /\ Newest'
    BY <2>2, <2>4 DEF Quiet, LandedInOrder, Newest, RecordOf
  <2>13. QED  BY <2>3, <2>11, <2>12 DEF Quiet
<1>2. ASSUME NEW x \in Producers, Publish(x) PROVE Quiet'
  <2>1. Quiet /\ pc[x] = "publish"
    BY <1>2 DEF Publish
  <2>2. OneAtATime'
    BY <1>2, <1>c, <2>1 DEF Publish, Emit
  <2>3. /\ \A y \in Sessions : pc'[y] = pc[y] /\ todo'[y] = todo[y]
        /\ \A y \in Producers : y # x => pc'[y] = pc[y]
        /\ UNCHANGED <<cursor, obs, batch, landed>>
    BY <1>2, <2>1, ProducerQuiet
  <2>4. rec' = rec /\ emits' = emits /\ pc'[x] = "idle"
    BY <1>2 DEF Publish, boundVars, Goto, TypeOK
  <2>5. Len(rec[x].points) \in 0 .. Len(rec[x].points)
    <3>1. rec[x].points \in Seq(Points)
      BY PointAssumption, EmptySeq DEF TypeOK, Record
    <3>2. QED  BY <3>1, LenProperties
  <2> DEFINE n == Len(rec[x].points)
  <2>6. /\ Len(log') = Len(log) + n
        /\ \A e \in 1 .. Len(log) : log'[e] = log[e]
        /\ \A k \in 1 .. n : log'[Len(log) + k] = [point |-> rec[x].points[k], version |-> rec[x].version]
    BY <1>2, <2>5, AddGrows DEF Publish
  <2>n. n \in Nat
    BY <2>5
  <2> HIDE DEF n
  <2>7. \A e \in 1 .. Len(log') : e \notin 1 .. Len(log) => log'[e].version = rec[x].version
    <3>1. SUFFICES ASSUME NEW e \in 1 .. Len(log'), e \notin 1 .. Len(log)
                   PROVE  log'[e].version = rec[x].version
      OBVIOUS
    <3>2. \E k \in 1 .. n : e = Len(log) + k
      <4>1. e - Len(log) \in 1 .. n /\ e = Len(log) + (e - Len(log))
        BY <1>a, <2>n, <2>6, <3>1
      <4>2. QED  BY <4>1
    <3>3. PICK k \in 1 .. n : e = Len(log) + k
      BY <3>2
    <3>4. log'[e] = [point |-> rec[x].points[k], version |-> rec[x].version]
      BY <2>6, <3>3
    <3>5. QED  BY <3>4
  <2>8. \A e \in 1 .. Len(log) : log[e].version <= rec[x].version
    BY <2>1 DEF Quiet, InOrder
  <2>9. rec[x].version <= emits /\ rec[x].version \in Nat
    BY <2>1 DEF Quiet, InOrder, TypeOK, Record
  <2>10. InOrder'
    <3>1. \A e \in 1 .. Len(log') : log'[e].version <= emits
      BY <2>1, <2>6, <2>7, <2>9 DEF Quiet, InOrder
    <3>2. \A e, f \in 1 .. Len(log') : e <= f => log'[e].version <= log'[f].version
      <4>1. SUFFICES ASSUME NEW e \in 1 .. Len(log'), NEW f \in 1 .. Len(log'), e <= f
                     PROVE  log'[e].version <= log'[f].version
        OBVIOUS
      <4>2. CASE f \in 1 .. Len(log)
        <5>1. e \in 1 .. Len(log)
          BY <1>a, <4>1, <4>2
        <5>2. QED  BY <2>1, <2>6, <4>1, <4>2, <5>1 DEF Quiet, InOrder
      <4>3. CASE f \notin 1 .. Len(log) /\ e \in 1 .. Len(log)
        BY <2>6, <2>7, <2>8, <4>3
      <4>4. CASE f \notin 1 .. Len(log) /\ e \notin 1 .. Len(log)
        BY <2>7, <2>9, <4>4
      <4>5. QED  BY <4>2, <4>3, <4>4
    <3>3. \A y \in Producers : pc'[y] # "publish"
      BY <2>1, <2>3, <2>4 DEF Quiet, OneAtATime
    <3>4. \A y \in Producers : rec[y].version <= emits
      BY <2>1 DEF Quiet, InOrder
    <3>5. QED  BY <2>4, <3>1, <3>2, <3>3, <3>4 DEF InOrder
  <2>11. LandedInOrder'
    <3>1. \A e \in 1 .. cursor : log'[e] = log[e]
      BY <1>a, <2>6 DEF TypeOK
    <3>2. QED  BY <2>1, <2>3, <3>1 DEF Quiet, LandedInOrder, RecordOf
  <2>12. QED  BY <2>1, <2>2, <2>3, <2>10, <2>11 DEF Quiet, Newest
<1>3. ASSUME NEW x \in Producers, DirectDone(x) \/ DirectFails(x) PROVE Quiet'
  <2>1. Quiet /\ pc[x] = "direct"
    BY <1>3 DEF DirectDone, DirectFails
  <2>2. OneAtATime'
    BY <1>3, <1>c, <2>1 DEF DirectDone, DirectFails, Emit
  <2>3. /\ \A y \in Sessions : pc'[y] = pc[y] /\ todo'[y] = todo[y]
        /\ \A y \in Producers : y # x => pc'[y] = pc[y]
        /\ UNCHANGED <<log, cursor, obs, batch, landed, rec, emits>>
    BY <1>3, <2>1, ProducerQuiet DEF DirectDone, DirectFails, streamVars, boundVars
  <2>4. pc'[x] = "idle"
    BY <1>3 DEF DirectDone, DirectFails, Goto, TypeOK
  <2>5. InOrder'
    BY <2>1, <2>3, <2>4 DEF Quiet, InOrder
  <2>6. LandedInOrder' /\ Newest'
    BY <2>1, <2>3 DEF Quiet, LandedInOrder, Newest, RecordOf
  <2>7. QED  BY <2>2, <2>5, <2>6 DEF Quiet
<1>4. ASSUME NEW x \in Producers, PublishFails(x) \/ \E key \in Keys(Points) : DirectWrite(x, key)
      PROVE Quiet'
  BY <1>4 DEF PublishFails, DirectWrite
<1>5. ASSUME NEW c \in Consumers, Read(c) PROVE Quiet'
  <2> DEFINE B == FirstOf(Unread, Count)
  <2>1. ~disturbed /\ StartLanding(c, B) /\ pending' = pending \cup B
        /\ UNCHANGED <<log, obs, rec, range, emits, landed>>
    BY <1>5 DEF Read, StartLanding, boundVars
  <2>2. cursor' = Max(B) /\ \A e \in B : cursor < e
    BY <1>5, ReadsInOrder DEF Read
  <2>3. cursor' \in Nat /\ cursor < cursor' /\ B \in SUBSET (1 .. Len(log))
    BY <1>5, ReadsInOrder
  <2>4. B \subseteq 1 .. cursor'
    BY <1>5, NextTypes, <2>1 DEF TypeOK
  <2>5. c \in Sessions /\ c # Replayer
    BY ProcessAssumption DEF Sessions
  <2> HIDE DEF B
  <2>6. Quiet /\ cursor <= cursor' /\ pending' \subseteq pending \cup B
    BY <1>a, <2>1, <2>3
  <2>7. QED  BY <1>a, <2>1, <2>2, <2>3, <2>4, <2>5, <2>6, StartQuiet
<1>6. ASSUME NEW c \in Consumers, Ack(c) PROVE Quiet'
  <2>1. /\ Quiet /\ pc[c] = "land" /\ c \in Sessions /\ c \notin Producers
        /\ pending' = pending \ batch[c]
        /\ UNCHANGED <<log, cursor, obs, rec, range, emits, landed>>
    BY <1>6, <1>b DEF Ack, boundVars, Sessions
  <2>2. /\ pc'[c] = "idle" /\ batch'[c] = {}
        /\ \A y \in Producers \cup Sessions : y # c => pc'[y] = pc[y] /\ todo'[y] = todo[y]
        /\ \A y \in Sessions : y # c => batch'[y] = batch[y]
    BY <1>6, <2>1 DEF Ack, Goto, TypeOK
  <2>3. \A y \in Sessions : y # c => pc[y] = "idle"
    BY <2>1 DEF Quiet, OneAtATime
  <2>4. pending' = {}
    BY <2>1, <2>3 DEF Quiet, OneAtATime
  <2>5. OneAtATime'
    <3>1. \A y \in Sessions : pc'[y] = "idle" /\ batch'[y] \subseteq 1 .. cursor
      BY <2>1, <2>2, <2>3 DEF Quiet, OneAtATime
    <3>2. \A y \in Producers : pc'[y] = pc[y]
      BY <2>1, <2>2
    <3>3. QED  BY <1>b, <2>1, <2>4, <3>1, <3>2 DEF Quiet, OneAtATime
  <2>6. InOrder'
    BY <2>1, <2>2 DEF Quiet, InOrder
  <2>7. LandedInOrder'
    <3>1. \A y \in Sessions : pc'[y] # "land"
      BY <2>2, <2>3
    <3>2. QED  BY <2>1, <3>1 DEF Quiet, LandedInOrder, RecordOf
  <2>8. QED  BY <2>1, <2>5, <2>6, <2>7 DEF Quiet, Newest
<1>7. ASSUME NEW x \in Sessions, Fail(x) PROVE Quiet'
  BY <1>7 DEF Fail
<1>8. ASSUME NEW x \in Sessions, NEW key \in Keys(Points), Land(x, key) PROVE Quiet'
  BY <1>8, LandQuiet DEF Land
<1>9. CASE ReplayStart
  BY <1>9 DEF ReplayStart
<1>10. CASE ReplayChunk
  BY <1>10 DEF ReplayChunk, StartLanding, Quiet, OneAtATime
<1>11. CASE ChunkDone
  BY <1>11 DEF ChunkDone, Quiet, OneAtATime
<1>12. CASE Cancel
  BY <1>12 DEF Cancel, Quiet, OneAtATime
<1>13. CASE UNCHANGED vars
  <2>1. Quiet /\ UNCHANGED <<log, cursor, pending, obs, pc, rec, batch, todo, range, emits, landed>>
    BY <1>13 DEF vars, streamVars, sessionVars, boundVars
  <2>2. QED
    BY <2>1 DEF Quiet, OneAtATime, InOrder, LandedInOrder, Newest, RecordOf
<1>14. QED
  BY StepCases, <1>1, <1>2, <1>3, <1>4, <1>5, <1>6, <1>7, <1>8, <1>9, <1>10, <1>11, <1>12, <1>13

\* While emissions and landings do not overlap and nothing fails or is replayed,
\* the table holds the newest version landed of every point (land_events, where a
\* later record of a date replaces an earlier one).
THEOREM UndisturbedNewestWins == Spec => []NewestWins
<1>1. Init => (~disturbed => Quiet)
  BY QuietInit
<1>2. TypeOK /\ (~disturbed => Quiet) /\ [Next]_vars => (~disturbed => Quiet)'
  BY QuietStep
<1>3. (~disturbed => Quiet) => NewestWins
  BY DEF Quiet, Newest, NewestWins
<1>4. QED  BY <1>1, <1>2, <1>3, StreamTypeCorrect, PTL DEF Spec
================================================================================
