--------------------------- MODULE LeaseQueueProofs ----------------------------
(***************************************************************************)
(* What TLC checks of LeaseQueue on a small instance, proved for every set *)
(* of items, batches and workers: the type invariant, conservation of      *)
(* items, fencing, single completion, and the refinement of WorkQueue.     *)
(***************************************************************************)
EXTENDS LeaseQueue, FiniteSetTheorems, SequenceTheorems, TLAPS

\* The elements of a concatenation are those of its parts.
LEMMA RangeConcat ==
  ASSUME NEW S, NEW s \in Seq(S), NEW t \in Seq(S)
  PROVE  Range(s \o t) = Range(s) \cup Range(t)
<1>1. DOMAIN s = 1 .. Len(s) /\ DOMAIN t = 1 .. Len(t) /\ Len(s) \in Nat /\ Len(t) \in Nat
  BY LenProperties
<1>2. /\ s \o t \in Seq(S)
      /\ Len(s \o t) = Len(s) + Len(t)
      /\ \A i \in 1 .. Len(s) + Len(t) :
           (s \o t)[i] = IF i <= Len(s) THEN s[i] ELSE t[i - Len(s)]
  BY ConcatProperties
<1>3. DOMAIN (s \o t) = 1 .. Len(s) + Len(t)
  BY <1>2, LenProperties
<1>4. ASSUME NEW x \in Range(s \o t) PROVE x \in Range(s) \cup Range(t)
  <2>1. PICK i \in 1 .. Len(s) + Len(t) : x = (s \o t)[i]
    BY <1>3, <1>4 DEF Range
  <2>2. CASE i <= Len(s)
    BY <1>1, <1>2, <2>1, <2>2 DEF Range
  <2>3. CASE ~(i <= Len(s))
    <3>1. i - Len(s) \in DOMAIN t
      BY <1>1, <2>3
    <3>2. x = t[i - Len(s)]
      BY <1>2, <2>1, <2>3
    <3>3. QED  BY <3>1, <3>2 DEF Range
  <2>4. QED  BY <2>2, <2>3
<1>5. ASSUME NEW x \in Range(s) PROVE x \in Range(s \o t)
  <2>1. PICK i \in DOMAIN s : x = s[i]
    BY <1>5 DEF Range
  <2>2. i \in DOMAIN (s \o t) /\ (s \o t)[i] = x
    BY <1>1, <1>2, <1>3, <2>1
  <2>3. QED  BY <2>2 DEF Range
<1>6. ASSUME NEW x \in Range(t) PROVE x \in Range(s \o t)
  <2>1. PICK i \in DOMAIN t : x = t[i]
    BY <1>6 DEF Range
  <2>2. i + Len(s) \in DOMAIN (s \o t) /\ (s \o t)[i + Len(s)] = x
    BY <1>1, <1>2, <1>3, <2>1
  <2>3. QED  BY <2>2 DEF Range
<1>7. QED  BY <1>4, <1>5, <1>6

\* Appending what is not there yet repeats nothing.
LEMMA InjectiveConcat ==
  ASSUME NEW S, NEW s \in Seq(S), NEW t \in Seq(S),
         IsInjective(s), IsInjective(t), Range(s) \cap Range(t) = {}
  PROVE  IsInjective(s \o t)
<1>1. DOMAIN s = 1 .. Len(s) /\ DOMAIN t = 1 .. Len(t) /\ Len(s) \in Nat /\ Len(t) \in Nat
  BY LenProperties
<1>2. /\ Len(s \o t) = Len(s) + Len(t)
      /\ s \o t \in Seq(S)
      /\ \A i \in 1 .. Len(s) + Len(t) :
           (s \o t)[i] = IF i <= Len(s) THEN s[i] ELSE t[i - Len(s)]
  BY ConcatProperties
<1>3. DOMAIN (s \o t) = 1 .. Len(s) + Len(t)
  BY <1>2, LenProperties
<1>4. SUFFICES ASSUME NEW a \in 1 .. Len(s) + Len(t), NEW b \in 1 .. Len(s) + Len(t),
                      (s \o t)[a] = (s \o t)[b]
               PROVE  a = b
  BY <1>3 DEF IsInjective
<1>5. \A i \in DOMAIN s, j \in DOMAIN t : s[i] # t[j]
  BY DEF Range
<1>6. CASE a <= Len(s) /\ b <= Len(s)
  BY <1>1, <1>2, <1>4, <1>6 DEF IsInjective
<1>7. CASE a <= Len(s) /\ ~(b <= Len(s))
  <2>1. a \in DOMAIN s /\ b - Len(s) \in DOMAIN t
    BY <1>1, <1>7
  <2>2. s[a] = t[b - Len(s)]
    BY <1>2, <1>4, <1>7
  <2>3. QED  BY <1>5, <2>1, <2>2
<1>8. CASE ~(a <= Len(s)) /\ b <= Len(s)
  <2>1. b \in DOMAIN s /\ a - Len(s) \in DOMAIN t
    BY <1>1, <1>8
  <2>2. s[b] = t[a - Len(s)]
    BY <1>2, <1>4, <1>8
  <2>3. QED  BY <1>5, <2>1, <2>2
<1>9. CASE ~(a <= Len(s)) /\ ~(b <= Len(s))
  <2>1. a - Len(s) \in DOMAIN t /\ b - Len(s) \in DOMAIN t
    BY <1>1, <1>9
  <2>2. t[a - Len(s)] = t[b - Len(s)]
    BY <1>2, <1>4, <1>9
  <2>3. a - Len(s) = b - Len(s)
    BY <2>1, <2>2 DEF IsInjective
  <2>4. QED  BY <1>1, <2>3
<1>10. QED  BY <1>6, <1>7, <1>8, <1>9

\* Popping the head of a list without repetitions removes exactly that element.
LEMMA PopHead ==
  ASSUME NEW S, NEW s \in Seq(S), s # <<>>, IsInjective(s)
  PROVE  /\ Head(s) \in Range(s) /\ Head(s) \in S
         /\ Tail(s) \in Seq(S)
         /\ Range(Tail(s)) = Range(s) \ {Head(s)}
         /\ IsInjective(Tail(s))
<1>1. /\ Head(s) \in S
      /\ Tail(s) \in Seq(S)
      /\ Len(Tail(s)) = Len(s) - 1
      /\ \A i \in 1 .. Len(Tail(s)) : Tail(s)[i] = s[i + 1]
  BY HeadTailProperties
<1>2. /\ DOMAIN s = 1 .. Len(s) /\ Len(s) \in Nat \ {0}
      /\ DOMAIN Tail(s) = 1 .. Len(s) - 1
  BY <1>1, LenProperties, EmptySeq
<1>3. Head(s) = s[1]
  BY <1>2
<1>4. 1 \in DOMAIN s
  BY <1>2
<1>5. \A i \in DOMAIN Tail(s) : i + 1 \in DOMAIN s /\ i + 1 # 1 /\ Tail(s)[i] = s[i + 1]
  BY <1>1, <1>2
<1>6. \A i \in DOMAIN s : i # 1 => i - 1 \in DOMAIN Tail(s) /\ Tail(s)[i - 1] = s[i]
  BY <1>1, <1>2
<1>7. IsInjective(Tail(s))
  BY <1>2, <1>5 DEF IsInjective
<1>8. Range(Tail(s)) \subseteq Range(s) \ {Head(s)}
  BY <1>3, <1>4, <1>5 DEF Range, IsInjective
<1>9. Range(s) \ {Head(s)} \subseteq Range(Tail(s))
  BY <1>3, <1>6 DEF Range
<1>10. QED  BY <1>1, <1>3, <1>4, <1>7, <1>8, <1>9 DEF Range

\* The order in which reclaim_expired returns a set of leased items.
LEMMA ClaimOrderIsList ==
  ASSUME NEW S \in SUBSET Items, NEW s \in ClaimOrder(S), lease \in [Items -> Lease]
  PROVE  s \in Seq(Items) /\ IsInjective(s) /\ Range(s) = S
<1>1. IsFiniteSet(S)
  BY ItemsAssumption, FS_Subset
<1>2. Cardinality(S) \in Nat
  BY <1>1, FS_CardinalityType
<1>3. s \in [1 .. Cardinality(S) -> Items] /\ Range(s) = S /\ DOMAIN s = 1 .. Cardinality(S)
  BY DEF ClaimOrder
<1>4. s \in Seq(Items)
  BY <1>2, <1>3, SeqDef
<1>5. ASSUME NEW j \in DOMAIN s, NEW k \in DOMAIN s, s[j] = s[k] PROVE j = k
  <2>1. s[j] \in Items /\ lease[s[j]].token \in Nat
    BY <1>3 DEF Lease
  <2>2. ~(j < k) /\ ~(k < j)
    BY <1>5, <2>1 DEF ClaimOrder
  <2>3. QED  BY <1>2, <1>3, <2>2
<1>6. QED  BY <1>3, <1>4, <1>5 DEF IsInjective

--------------------------------------------------------------------------------
\* Tokens are never shared and never ahead of their source.
TokensFresh ==
  /\ \A i \in Items : lease[i].token < nextToken
  /\ \A w, v \in Workers : Working(w) /\ Working(v) /\ token[w] = token[v] => w = v

\* A worker about to ack has performed its item.
AckedIsPerformed == \A w \in Workers : pc[w] = "ack" => item[w] \in performed

\* An item in a worker's hands was enqueued.
HeldIsSubmitted == \A w \in Workers : Working(w) => item[w] \in submitted

IInv == TypeOK /\ Conservation /\ TokensFresh /\ AckedIsPerformed /\ HeldIsSubmitted /\ CompletedOnce

LEMMA InitIInv == Init => IInv
<1> SUFFICES ASSUME Init PROVE IInv
  OBVIOUS
<1>1. TypeOK
  BY WorkerAssumption, EmptySeq DEF Init, TypeOK, Lease, NoLease, Stages, Working
<1>2. Conservation
  BY DEF Init, Conservation, IsInjective, Range, Leased, NoLease
<1>3. TokensFresh /\ AckedIsPerformed /\ HeldIsSubmitted /\ CompletedOnce
  BY DEF Init, TokensFresh, AckedIsPerformed, HeldIsSubmitted, CompletedOnce, NoLease, Working
<1>4. QED  BY <1>1, <1>2, <1>3 DEF IInv

--------------------------------------------------------------------------------
\* One lemma per action that touches the queue; the others leave it alone.

LEMMA EnqueueIInv ==
  ASSUME IInv, NEW b \in Batches, Enqueue(b)
  PROVE  IInv'
<1> USE DEF IInv
<1>1. b \in Seq(Items) /\ IsInjective(b) /\ Range(b) \subseteq Items
  BY BatchAssumption, LenProperties DEF Range
<1>2. /\ available' \in Seq(Items)
      /\ Range(available') = Range(available) \cup Range(b)
  BY <1>1, RangeConcat, ConcatProperties DEF Enqueue, TypeOK
<1>3. IsInjective(available')
  <2>1. Range(available) \cap Range(b) = {}
    BY DEF Enqueue, Conservation
  <2>2. QED  BY <1>1, <2>1, InjectiveConcat DEF Enqueue, TypeOK, Conservation
<1>4. TypeOK'
  BY <1>1, <1>2 DEF Enqueue, TypeOK, workerVars, boundVars, Working
<1>5. Conservation'
  BY <1>2, <1>3 DEF Enqueue, Conservation, Leased
<1>6. (TokensFresh /\ AckedIsPerformed /\ HeldIsSubmitted /\ CompletedOnce)'
  BY DEF Enqueue, workerVars, TokensFresh, AckedIsPerformed, HeldIsSubmitted, CompletedOnce, Working
<1>7. QED  BY <1>4, <1>5, <1>6

LEMMA ReclaimIInv ==
  ASSUME IInv, NEW w \in Workers, ReclaimExpired(w)
  PROVE  IInv'
<1> USE DEF IInv
<1>1. PICK s \in ClaimOrder(Expired) : available' = available \o s
  BY DEF ReclaimExpired, BackToPool
<1>2. s \in Seq(Items) /\ IsInjective(s) /\ Range(s) = Expired
  BY ClaimOrderIsList DEF TypeOK, Expired, Leased
<1>3. /\ available' \in Seq(Items)
      /\ Range(available') = Range(available) \cup Expired
  BY <1>1, <1>2, RangeConcat, ConcatProperties DEF TypeOK
<1>4. IsInjective(available')
  <2>1. Range(available) \cap Range(s) = {}
    BY <1>2 DEF Conservation, Expired
  <2>2. QED  BY <1>1, <1>2, <2>1, InjectiveConcat DEF TypeOK, Conservation
<1>5. Leased' = Leased \ Expired
  BY DEF ReclaimExpired, Leased, Expired, NoLease
<1>6. Expired \subseteq Leased
  BY DEF Expired
<1>7. lease' \in [Items -> Lease]
  BY DEF ReclaimExpired, TypeOK, Lease, NoLease
<1>8. TypeOK'
  BY <1>3, <1>7 DEF ReclaimExpired, TypeOK, Goto, boundVars, historyVars, Working, Stages
<1>9. Conservation'
  BY <1>3, <1>4, <1>5, <1>6 DEF ReclaimExpired, Conservation, historyVars
<1>10. TokensFresh'
  BY DEF ReclaimExpired, TokensFresh, TypeOK, Goto, Working, NoLease
<1>11. AckedIsPerformed' /\ HeldIsSubmitted' /\ CompletedOnce'
  BY DEF ReclaimExpired, AckedIsPerformed, HeldIsSubmitted, CompletedOnce, TypeOK, Goto,
         historyVars, Working
<1>12. QED  BY <1>8, <1>9, <1>10, <1>11

LEMMA ClaimIInv ==
  ASSUME IInv, NEW w \in Workers, Claim(w)
  PROVE  IInv'
<1> USE DEF IInv
<1> DEFINE i == Head(available)
<1>1. /\ i \in Range(available) /\ i \in Items
      /\ available' \in Seq(Items)
      /\ Range(available') = Range(available) \ {i}
      /\ IsInjective(available')
  BY PopHead DEF Claim, TypeOK, Conservation
<1>2. /\ lease' = [lease EXCEPT ![i] = [token |-> nextToken, expired |-> FALSE]]
      /\ nextToken' = nextToken + 1
      /\ item' = [item EXCEPT ![w] = i]
      /\ token' = [token EXCEPT ![w] = nextToken]
      /\ pc' = [pc EXCEPT ![w] = "execute"]
      /\ UNCHANGED <<done, completed, failed, raises, overruns, submitted, performed, credits>>
  BY DEF Claim, NewEventId, Goto, boundVars, historyVars
<1> HIDE DEF i
<1>3. lease' \in [Items -> Lease] /\ nextToken \in Nat \ {0}
  BY <1>1, <1>2 DEF TypeOK, Lease
<1>4. Leased' = Leased \cup {i}
  BY <1>1, <1>2, <1>3 DEF Leased, TypeOK
<1>5. TypeOK'
  <2>1. ASSUME NEW v \in Workers, Working(v)'
        PROVE  item'[v] \in Items /\ token'[v] \in 1 .. nextToken' - 1
    <3>1. CASE v = w
      BY <1>1, <1>2, <1>3, <3>1 DEF TypeOK
    <3>2. CASE v # w
      BY <1>2, <1>3, <2>1, <3>2 DEF TypeOK, Working
    <3>3. QED  BY <3>1, <3>2
  <2>2. QED  BY <1>1, <1>2, <1>3, <2>1 DEF TypeOK, Stages
<1>6. Conservation'
  BY <1>1, <1>2, <1>4 DEF Conservation
<1>7. TokensFresh'
  <2>1. ASSUME NEW j \in Items PROVE lease'[j].token < nextToken'
    BY <1>1, <1>2, <1>3 DEF TokensFresh, TypeOK, Lease
  <2>2. ASSUME NEW u \in Workers, NEW v \in Workers, u # v,
               Working(u)', Working(v)', token'[u] = token'[v]
        PROVE  FALSE
    BY <1>2, <1>3, <2>2 DEF TokensFresh, TypeOK, Working
  <2>3. QED  BY <2>1, <2>2 DEF TokensFresh, Working
<1>8. AckedIsPerformed' /\ CompletedOnce'
  BY <1>2 DEF AckedIsPerformed, CompletedOnce, TypeOK
<1>9. HeldIsSubmitted'
  BY <1>1, <1>2 DEF HeldIsSubmitted, Conservation, TypeOK, Working
<1>10. QED  BY <1>5, <1>6, <1>7, <1>8, <1>9

LEMMA AckIInv ==
  ASSUME IInv, NEW w \in Workers, Ack(w)
  PROVE  IInv'
<1> USE DEF IInv
<1> DEFINE i == item[w]
<1>1. /\ pc[w] = "ack" /\ lease[i].token = token[w]
      /\ lease' = [lease EXCEPT ![i] = NoLease]
      /\ done' = done \cup {i}
      /\ credits' = [credits EXCEPT ![i] = @ + 1]
      /\ completed' = [completed EXCEPT ![w] = @ + 1]
      /\ pc' = [pc EXCEPT ![w] = "reclaim"]
      /\ UNCHANGED <<available, nextToken, item, token, failed, raises, overruns, submitted, performed>>
  BY DEF Ack, TokenMatches, Goto, boundVars
<1>2. i \in Items /\ token[w] \in 1 .. nextToken - 1
  BY <1>1 DEF TypeOK, Working
<1> HIDE DEF i
<1>3. i \in Leased /\ i \notin done
  BY <1>1, <1>2 DEF Leased, Conservation, TypeOK
<1>4. Leased' = Leased \ {i}
  BY <1>1, <1>2 DEF Leased, NoLease, TypeOK
<1>5. TypeOK'
  BY <1>1, <1>2 DEF TypeOK, Lease, NoLease, Stages, Working
<1>6. Conservation'
  BY <1>1, <1>3, <1>4 DEF Conservation
<1>7. TokensFresh'
  BY <1>1, <1>2 DEF TokensFresh, TypeOK, Working, NoLease
<1>8. AckedIsPerformed' /\ HeldIsSubmitted'
  BY <1>1 DEF AckedIsPerformed, HeldIsSubmitted, Working, TypeOK
<1>9. CompletedOnce'
  <2>1. i \in performed
    BY <1>1 DEF AckedIsPerformed, i
  <2>2. credits[i] = 0
    BY <1>2, <1>3 DEF CompletedOnce
  <2>3. QED  BY <1>1, <1>2, <2>1, <2>2 DEF CompletedOnce, TypeOK
<1>10. QED  BY <1>5, <1>6, <1>7, <1>8, <1>9

\* Time passing marks a lease and moves nothing.
LEMMA ExpiryIInv ==
  ASSUME IInv, NEW i \in Items, LeaseExpires(i) \/ LeaseOverrun(i)
  PROVE  IInv'
<1> USE DEF IInv
<1>1. /\ lease' = [lease EXCEPT ![i].expired = TRUE]
      /\ overruns' \in Nat
      /\ UNCHANGED <<available, done, nextToken, workerVars, raises, historyVars>>
  BY DEF LeaseExpires, LeaseOverrun, TypeOK, boundVars
<1>2. /\ lease' \in [Items -> Lease]
      /\ \A j \in Items : lease'[j].token = lease[j].token
  BY <1>1 DEF TypeOK, Lease
<1>3. Leased' = Leased
  BY <1>2 DEF Leased
<1>4. TypeOK'
  BY <1>1, <1>2 DEF TypeOK, workerVars, historyVars, Working
<1>5. Conservation'
  BY <1>1, <1>3 DEF Conservation, historyVars
<1>6. TokensFresh'
  BY <1>1, <1>2 DEF TokensFresh, workerVars, Working
<1>7. AckedIsPerformed' /\ HeldIsSubmitted' /\ CompletedOnce'
  BY <1>1 DEF AckedIsPerformed, HeldIsSubmitted, CompletedOnce, workerVars, historyVars, Working
<1>8. QED  BY <1>4, <1>5, <1>6, <1>7

\* The steps that move a worker and leave the queue as it is.
LEMMA WorkerMoveIInv ==
  ASSUME IInv, NEW w \in Workers,
         LimitReached(w) \/ ClaimNone(w) \/ Execute(w) \/ ExecuteRaises(w)
           \/ AckRefused(w) \/ Crash(w)
  PROVE  IInv'
<1> USE DEF IInv
<1>1. PICK stage \in Stages \ {"execute"} :
        /\ pc' = [pc EXCEPT ![w] = stage]
        /\ stage = "ack" => pc[w] = "execute" /\ performed' = performed \cup {item[w]}
  BY WorkerAssumption
     DEF LimitReached, ClaimNone, Execute, ExecuteRaises, AckRefused, Crash, Goto, Stages
<1>2. /\ UNCHANGED <<queueVars, item, token, completed, overruns, submitted, credits>>
      /\ performed \subseteq performed'
      /\ performed' \in SUBSET Items
      /\ raises' \in Nat
      /\ failed' \in [Workers -> Nat]
  <2>1. CASE LimitReached(w) \/ ClaimNone(w) \/ Crash(w)
    BY <2>1 DEF LimitReached, ClaimNone, Crash, TypeOK, boundVars, historyVars
  <2>2. CASE Execute(w)
    BY <2>2 DEF Execute, TypeOK, boundVars, Working
  <2>3. [failed EXCEPT ![w] = @ + 1] \in [Workers -> Nat]
    BY DEF TypeOK
  <2>4. CASE ExecuteRaises(w)
    BY <2>3, <2>4 DEF ExecuteRaises, TypeOK, historyVars
  <2>5. CASE AckRefused(w)
    BY <2>3, <2>5 DEF AckRefused, TypeOK, boundVars, historyVars
  <2>6. QED  BY <2>1, <2>2, <2>4, <2>5
<1>3. \A v \in Workers : Working(v)' => Working(v)
  BY <1>1, <1>2 DEF Working, TypeOK
<1>4. TypeOK'
  <2>1. pc' \in [Workers -> Stages]
    BY <1>1 DEF TypeOK
  <2>2. QED  BY <1>2, <1>3, <2>1 DEF TypeOK, queueVars
<1>5. Conservation'
  BY <1>2 DEF Conservation, Leased, queueVars
<1>6. TokensFresh'
  BY <1>2, <1>3 DEF TokensFresh, queueVars
<1>7. AckedIsPerformed' /\ HeldIsSubmitted'
  BY <1>1, <1>2, <1>3 DEF AckedIsPerformed, HeldIsSubmitted, TypeOK
<1>8. CompletedOnce'
  BY <1>2 DEF CompletedOnce, queueVars
<1>9. QED  BY <1>4, <1>5, <1>6, <1>7, <1>8

LEMMA StepIInv == IInv /\ [Next]_vars => IInv'
<1> SUFFICES ASSUME IInv, [Next]_vars PROVE IInv'
  OBVIOUS
<1>1. CASE UNCHANGED vars
  BY <1>1 DEF vars, queueVars, workerVars, boundVars, historyVars, IInv, TypeOK, Conservation,
              TokensFresh, AckedIsPerformed, HeldIsSubmitted, CompletedOnce, Leased, Working
<1>2. ASSUME NEW b \in Batches, Enqueue(b) PROVE IInv'
  BY <1>2, EnqueueIInv
<1>3. ASSUME NEW w \in Workers, WorkerStep(w) \/ Crash(w) PROVE IInv'
  BY <1>3, ReclaimIInv, ClaimIInv, AckIInv, WorkerMoveIInv DEF WorkerStep
<1>4. ASSUME NEW i \in Items, LeaseExpires(i) \/ LeaseOverrun(i) PROVE IInv'
  BY <1>4, ExpiryIInv
<1>5. QED  BY <1>1, <1>2, <1>3, <1>4 DEF Next

LEMMA InductiveInvariant == Spec => []IInv
<1>1. QED  BY InitIInv, StepIInv, PTL DEF Spec

--------------------------------------------------------------------------------
\* Every variable keeps its type, and workers hold only tokens already issued.
THEOREM TypeCorrect == Spec => []TypeOK
<1>1. IInv => TypeOK
  BY DEF IInv
<1>2. QED  BY <1>1, InductiveInvariant, PTL

\* No interleaving of workers, crashes and lease expiries loses or repeats an
\* item of InMemoryLeaseQueue.
THEOREM ItemsConserved == Spec => []Conservation
<1>1. IInv => Conservation
  BY DEF IInv
<1>2. QED  BY <1>1, InductiveInvariant, PTL

\* Fencing: at most one worker's ack of an item can still be accepted, and none once
\* it is done.
THEOREM Fenced == Spec => []SoleHolder
<1>1. ASSUME IInv, NEW w \in Workers, NEW i \in Items, Holds(w, i)
      PROVE  i \notin done /\ \A v \in Workers : Holds(v, i) => w = v
  <2>1. token[w] \in 1 .. nextToken - 1 /\ token[w] = lease[i].token
    BY <1>1 DEF IInv, TypeOK, Holds
  <2>2. i \in Leased
    BY <2>1 DEF Leased, NoLease
  <2>3. i \notin done
    BY <1>1, <2>2 DEF IInv, Conservation
  <2>4. QED  BY <1>1, <2>3 DEF IInv, TokensFresh, Holds
<1>2. IInv => SoleHolder
  BY <1>1 DEF SoleHolder
<1>3. QED  BY <1>2, InductiveInvariant, PTL

\* One accepted ack per done item, after the item's work was performed.
THEOREM SingleCompletion == Spec => []CompletedOnce
<1>1. IInv => CompletedOnce
  BY DEF IInv
<1>2. QED  BY <1>1, InductiveInvariant, PTL

\* A stale lease completes nothing.
THEOREM StaleAckCompletesNothing == Spec => OnlyHolderCompletes
<1> DEFINE Fair == \A i \in Items : i \in done' \ done =>
                     \E w \in Workers : pc[w] = "ack" /\ Holds(w, i)
<1>1. ASSUME IInv, [Next]_vars PROVE [Fair]_vars
  <2>1. ASSUME NEW i \in Items, i \in done' \ done
        PROVE  \E w \in Workers : pc[w] = "ack" /\ Holds(w, i)
    <3>1. \E w \in Workers : Ack(w)
      BY <1>1, <2>1 DEF Next, vars, queueVars, Enqueue, WorkerStep, ReclaimExpired, LimitReached,
           Claim, ClaimNone, Execute, ExecuteRaises, AckRefused, Crash, LeaseExpires, LeaseOverrun
    <3>2. PICK w \in Workers : Ack(w)
      BY <3>1
    <3>3. i = item[w]
      BY <2>1, <3>2 DEF Ack
    <3>4. QED  BY <3>2, <3>3 DEF Ack, TokenMatches, Holds, Working
  <2>2. QED  BY <2>1
<1>2. QED  BY <1>1, InductiveInvariant, PTL DEF Spec, OnlyHolderCompletes

--------------------------------------------------------------------------------
\* Refinement, initial states.
LEMMA AbstractInit == Init => Abstract!AQInit
<1>1. Init => Range(available) = {} /\ Leased = {}
  BY DEF Init, Range, Leased, NoLease
<1>2. QED  BY <1>1 DEF Init, Abstract!AQInit

\* Refinement, steps: enqueue submits, a return of execute performs, an accepted
\* ack completes; claims, reclaims and expiries move an item between the list
\* and the lease table, which the abstraction does not tell apart.
LEMMA AbstractStep == IInv /\ [Next]_vars => [Abstract!AQNext]_(Abstract!aqVars)
<1> DEFINE todo == Range(available) \cup Leased
<1> SUFFICES ASSUME IInv, [Next]_vars
             PROVE  [Abstract!AQNext]_(Abstract!aqVars)
  OBVIOUS
<1> USE DEF IInv
<1>1. ASSUME NEW b \in Batches, Enqueue(b)
      PROVE  Abstract!AQNext
  <2>1. b \in Seq(Items) /\ Range(b) \in SUBSET Items
    BY BatchAssumption, LenProperties DEF Range
  <2>2. todo' = todo \cup Range(b)
    BY <1>1, <2>1, RangeConcat DEF Enqueue, TypeOK, Leased
  <2>3. Abstract!Submit(Range(b))
    BY <1>1, <2>2 DEF Abstract!Submit, Enqueue, Conservation
  <2>4. QED  BY <2>1, <2>3 DEF Abstract!AQNext
<1>2. ASSUME NEW w \in Workers, ReclaimExpired(w)
      PROVE  UNCHANGED Abstract!aqVars
  <2>1. PICK s \in ClaimOrder(Expired) : available' = available \o s
    BY <1>2 DEF ReclaimExpired, BackToPool
  <2>2. s \in Seq(Items) /\ Range(s) = Expired
    BY ClaimOrderIsList DEF TypeOK, Expired, Leased
  <2>3. Range(available') = Range(available) \cup Expired
    BY <2>1, <2>2, RangeConcat DEF TypeOK
  <2>4. Leased' = Leased \ Expired /\ Expired \subseteq Leased
    BY <1>2 DEF ReclaimExpired, Leased, Expired, NoLease
  <2>5. QED  BY <1>2, <2>3, <2>4 DEF Abstract!aqVars, ReclaimExpired, historyVars
<1>3. ASSUME NEW w \in Workers, Claim(w)
      PROVE  UNCHANGED Abstract!aqVars
  <2>1. /\ Head(available) \in Range(available) /\ Head(available) \in Items
        /\ Range(available') = Range(available) \ {Head(available)}
    BY <1>3, PopHead DEF Claim, TypeOK, Conservation
  <2>2. Leased' = Leased \cup {Head(available)}
    BY <1>3, <2>1 DEF Claim, Leased, TypeOK
  <2>3. QED  BY <1>3, <2>1, <2>2 DEF Abstract!aqVars, Claim, historyVars
<1>4. ASSUME NEW w \in Workers, Execute(w)
      PROVE  Abstract!AQNext
  <2>1. item[w] \in Items /\ item[w] \in todo \cup done
    BY <1>4 DEF Execute, TypeOK, Conservation, HeldIsSubmitted, Working
  <2>2. Abstract!Perform(item[w])
    BY <1>4, <2>1 DEF Abstract!Perform, Execute, queueVars, Leased
  <2>3. QED  BY <2>1, <2>2 DEF Abstract!AQNext
<1>5. ASSUME NEW w \in Workers, Ack(w)
      PROVE  Abstract!AQNext
  <2>1. item[w] \in Items /\ token[w] # 0
    BY <1>5 DEF Ack, TypeOK, Working
  <2>2. item[w] \in Leased /\ item[w] \in performed
    BY <1>5, <2>1 DEF Ack, TokenMatches, Leased, AckedIsPerformed
  <2>3. Leased' = Leased \ {item[w]}
    BY <1>5, <2>1 DEF Ack, Leased, NoLease, TypeOK
  <2>4. Abstract!Complete(item[w])
    BY <1>5, <2>2, <2>3 DEF Abstract!Complete, Ack, Conservation
  <2>5. QED  BY <2>1, <2>4 DEF Abstract!AQNext
<1>6. ASSUME NEW w \in Workers,
             LimitReached(w) \/ ClaimNone(w) \/ ExecuteRaises(w) \/ AckRefused(w) \/ Crash(w)
      PROVE  UNCHANGED Abstract!aqVars
  BY <1>6 DEF LimitReached, ClaimNone, ExecuteRaises, AckRefused, Crash,
              Abstract!aqVars, queueVars, historyVars, Leased
<1>7. ASSUME NEW i \in Items, LeaseExpires(i) \/ LeaseOverrun(i)
      PROVE  UNCHANGED Abstract!aqVars
  <2>1. lease' = [lease EXCEPT ![i].expired = TRUE]
    BY <1>7 DEF LeaseExpires, LeaseOverrun
  <2>2. \A j \in Items : lease'[j].token = lease[j].token
    BY <2>1 DEF TypeOK, Lease
  <2>3. Leased' = Leased
    BY <2>2 DEF Leased
  <2>4. QED  BY <1>7, <2>3 DEF LeaseExpires, LeaseOverrun, Abstract!aqVars, historyVars
<1>8. CASE UNCHANGED vars
  BY <1>8 DEF vars, queueVars, historyVars, Abstract!aqVars, Leased
<1>9. QED
  BY <1>1, <1>2, <1>3, <1>4, <1>5, <1>6, <1>7, <1>8 DEF Next, WorkerStep

\* InMemoryLeaseQueue and its workers implement the abstract work queue.
THEOREM ImplementsWorkQueue == Spec => AbstractQueue
<1>1. QED  BY AbstractInit, AbstractStep, InductiveInvariant, PTL
              DEF Spec, AbstractQueue, Abstract!AQSpec
================================================================================
