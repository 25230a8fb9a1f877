------------------------- MODULE RedisLeaseQueueProofs -------------------------
(***************************************************************************)
(* The safety of RedisLeaseQueue for every set of items and workers and    *)
(* every plan: types, the whereabouts of every submitted item, and that    *)
(* what was credited was performed.                                        *)
(***************************************************************************)
EXTENDS RedisLeaseQueue, SequenceTheorems, TLAPS

\* Pushing adds one element.
LEMMA RangeAppend ==
  ASSUME NEW S, NEW s \in Seq(S), NEW x \in S
  PROVE  Append(s, x) \in Seq(S) /\ Range(Append(s, x)) = Range(s) \cup {x}
<1>1. DOMAIN s = 1 .. Len(s) /\ Len(s) \in Nat
  BY LenProperties
<1>2. /\ Append(s, x) \in Seq(S)
      /\ Len(Append(s, x)) = Len(s) + 1
      /\ \A i \in 1 .. Len(s) : Append(s, x)[i] = s[i]
      /\ Append(s, x)[Len(s) + 1] = x
  BY AppendProperties
<1>3. DOMAIN Append(s, x) = 1 .. Len(s) + 1
  BY <1>2, LenProperties
<1>4. Range(Append(s, x)) \subseteq Range(s) \cup {x}
  <2>1. SUFFICES ASSUME NEW i \in 1 .. Len(s) + 1
                 PROVE  Append(s, x)[i] \in Range(s) \cup {x}
    BY <1>3 DEF Range
  <2>2. CASE i = Len(s) + 1
    BY <1>2, <2>2
  <2>3. CASE i # Len(s) + 1
    <3>1. i \in 1 .. Len(s)
      BY <1>1, <2>3
    <3>2. QED  BY <1>1, <1>2, <3>1 DEF Range
  <2>4. QED  BY <2>2, <2>3
<1>5. Range(s) \subseteq Range(Append(s, x))
  <2>1. \A i \in 1 .. Len(s) : i \in DOMAIN Append(s, x) /\ Append(s, x)[i] = s[i]
    BY <1>1, <1>2, <1>3
  <2>2. QED  BY <1>1, <2>1 DEF Range
<1>6. x \in Range(Append(s, x))
  <2>1. Len(s) + 1 \in DOMAIN Append(s, x)
    BY <1>1, <1>3
  <2>2. QED  BY <1>2, <2>1 DEF Range
<1>7. QED  BY <1>2, <1>4, <1>5, <1>6

\* Popping takes the head and leaves every other element.
LEMMA RangeTail ==
  ASSUME NEW S, NEW s \in Seq(S), s # <<>>
  PROVE  /\ Head(s) \in S
         /\ Tail(s) \in Seq(S)
         /\ Range(s) = Range(Tail(s)) \cup {Head(s)}
<1>1. /\ Head(s) \in S
      /\ Tail(s) \in Seq(S)
      /\ Len(Tail(s)) = Len(s) - 1
      /\ \A i \in 1 .. Len(Tail(s)) : Tail(s)[i] = s[i + 1]
  BY HeadTailProperties
<1>2. /\ DOMAIN s = 1 .. Len(s) /\ Len(s) \in Nat \ {0}
      /\ DOMAIN Tail(s) = 1 .. Len(s) - 1
  BY <1>1, LenProperties, EmptySeq
<1>3. Head(s) = s[1] /\ 1 \in DOMAIN s
  BY <1>2
<1>4. \A i \in DOMAIN Tail(s) : i + 1 \in DOMAIN s /\ Tail(s)[i] = s[i + 1]
  BY <1>1, <1>2
<1>5. \A i \in DOMAIN s : i # 1 => i - 1 \in DOMAIN Tail(s) /\ Tail(s)[i - 1] = s[i]
  BY <1>1, <1>2
<1>6. Range(Tail(s)) \cup {Head(s)} \subseteq Range(s)
  BY <1>3, <1>4 DEF Range
<1>7. Range(s) \subseteq Range(Tail(s)) \cup {Head(s)}
  BY <1>3, <1>5 DEF Range
<1>8. QED  BY <1>1, <1>6, <1>7

--------------------------------------------------------------------------------
\* What is in a hand is an item.
HandsHoldItems == \A w \in Workers : InHand(w) => item[w] \in Items

\* An ack is only under way for an item that was performed.
AckedIsPerformed == \A w \in Workers : pc[w] \in {"check", "release", "finish"} => item[w] \in performed


IInv == TypeOK /\ HandsHoldItems

\* The disjuncts of Next, one by one.
LEMMA StepCases ==
  ASSUME [Next]_vars
  PROVE  \/ Push
         \/ \E w \in Workers :
              \/ ScanLeases(w) \/ (\E i \in Items : Unlease(w, i)) \/ Requeue(w) \/ ReclaimEnds(w)
              \/ Pop(w) \/ PopNone(w) \/ RecordLease(w) \/ Execute(w) \/ ExecuteRaises(w)
              \/ CheckToken(w) \/ Release(w) \/ Finish(w) \/ AckRaises(w) \/ Crash(w)
         \/ \E i \in Items : LeaseExpires(i) \/ LeaseOverrun(i)
         \/ UNCHANGED vars
BY DEF Next, WorkerStep

LEMMA InitTypes == Init => IInv
<1>1. SUFFICES ASSUME Init PROVE IInv
  OBVIOUS
<1>2. toPush \in Seq(Items)
  BY <1>1, PlanAssumption DEF Init
<1>3. lease \in [Items -> Lease]
  BY <1>1 DEF Init, NoLease, Lease
<1>4. available \in Seq(Items)
  BY <1>1, EmptySeq DEF Init
<1>5. TypeOK
  BY <1>1, <1>2, <1>3, <1>4 DEF Init, TypeOK, Stages, Running, Working
<1>6. QED  BY <1>1, <1>5 DEF Init, IInv, HandsHoldItems, InHand

LEMMA NextTypes == IInv /\ [Next]_vars => IInv'
<1> SUFFICES ASSUME IInv, [Next]_vars PROVE IInv'
  OBVIOUS
<1> USE DEF IInv, HandsHoldItems, InHand, TypeOK, Working, Stages, Running
<1>1. CASE Push
  <2>1. Head(toPush) \in Items /\ Tail(toPush) \in Seq(Items)
    BY <1>1, RangeTail DEF Push
  <2>2. available' \in Seq(Items)
    BY <1>1, <2>1, RangeAppend DEF Push
  <2>3. QED
    BY <1>1, <2>1, <2>2 DEF Push, workerVars, boundVars, historyVars
<1>2. ASSUME NEW w \in Workers, ScanLeases(w) PROVE IInv'
  <2>1. Expired \in SUBSET Items
    BY DEF Expired, Leased
  <2>2. QED
    BY <1>2, <2>1 DEF ScanLeases, Goto, redisVars, boundVars, historyVars
<1>3. ASSUME NEW w \in Workers, NEW i \in Items, Unlease(w, i) PROVE IInv'
  <2>1. lease' \in [Items -> Lease]
    BY <1>3 DEF Unlease, NoLease, Lease
  <2>2. QED
    BY <1>3, <2>1 DEF Unlease, Goto, boundVars, historyVars
<1>4. ASSUME NEW w \in Workers, Requeue(w) PROVE IInv'
  <2>1. item[w] \in Items
    BY <1>4 DEF Requeue
  <2>2. available' \in Seq(Items)
    BY <1>4, <2>1, RangeAppend DEF Requeue
  <2>3. QED
    BY <1>4, <2>2 DEF Requeue, Goto, boundVars, historyVars
<1>5. ASSUME NEW w \in Workers, ReclaimEnds(w) PROVE IInv'
  BY <1>5 DEF ReclaimEnds, Goto, redisVars, boundVars, historyVars
<1>6. ASSUME NEW w \in Workers, Pop(w) PROVE IInv'
  <2>1. Head(available) \in Items /\ available' \in Seq(Items)
    BY <1>6, RangeTail DEF Pop
  <2>2. QED
    BY <1>6, <2>1 DEF Pop, Goto, boundVars, historyVars
<1>7. ASSUME NEW w \in Workers, PopNone(w) PROVE IInv'
  BY <1>7 DEF PopNone, Goto, redisVars, boundVars, historyVars
<1>8. ASSUME NEW w \in Workers, RecordLease(w) PROVE IInv'
  <2>1. item[w] \in Items
    BY <1>8 DEF RecordLease
  <2>2. lease' \in [Items -> Lease]
    BY <1>8, <2>1 DEF RecordLease, Lease
  <2>3. nextToken' = nextToken + 1 /\ nextToken \in 1 .. nextToken' - 1
    BY <1>8 DEF RecordLease, NewEventId
  <2>4. \A v \in Workers : Working(v)' => item'[v] \in Items /\ token'[v] \in 1 .. nextToken' - 1
    BY <1>8, <2>1, <2>3 DEF RecordLease, Goto
  <2>5. QED
    BY <1>8, <2>2, <2>3, <2>4 DEF RecordLease, Goto, boundVars, historyVars
<1>9. ASSUME NEW w \in Workers, Execute(w) PROVE IInv'
  BY <1>9 DEF Execute, Goto, redisVars, boundVars
<1>10. ASSUME NEW w \in Workers, ExecuteRaises(w) PROVE IInv'
  BY <1>10 DEF ExecuteRaises, Goto, redisVars, historyVars
<1>11. ASSUME NEW w \in Workers, CheckToken(w) PROVE IInv'
  BY <1>11 DEF CheckToken, Goto, redisVars, boundVars, historyVars
<1>12. ASSUME NEW w \in Workers, Release(w) PROVE IInv'
  <2>1. item[w] \in Items
    BY <1>12 DEF Release
  <2>2. lease' \in [Items -> Lease]
    BY <1>12 DEF Release, NoLease, Lease
  <2>3. QED
    BY <1>12, <2>1, <2>2 DEF Release, Goto, boundVars, historyVars
<1>13. ASSUME NEW w \in Workers, Finish(w) PROVE IInv'
  <2>1. item[w] \in Items
    BY <1>13 DEF Finish
  <2>2. done' \in SUBSET Items /\ credits' \in [Items -> Nat]
    BY <1>13, <2>1 DEF Finish
  <2>3. QED
    BY <1>13, <2>2 DEF Finish, Goto, boundVars
<1>14. ASSUME NEW w \in Workers, AckRaises(w) PROVE IInv'
  <2>1. HandOf({w}) \in SUBSET Items
    BY DEF HandOf
  <2>2. /\ pc' \in [Workers -> Stages]
        /\ \A v \in Workers : InHand(v)' => InHand(v)
        /\ \A v \in Workers : Working(v)' => Working(v)
    BY <1>14 DEF AckRaises, Goto
  <2>3. dropped' \in SUBSET Items
    BY <1>14, <2>1, Zenon DEF AckRaises
  <2>4. raises' \in Nat
    BY <1>14 DEF AckRaises
  <2>5. UNCHANGED <<toPush, available, lease, done, nextToken, item, token, seen, overruns,
                    performed, credits>>
    BY <1>14 DEF AckRaises, redisVars
  <2>6. QED
    BY <2>2, <2>3, <2>4, <2>5
<1>15. ASSUME NEW w \in Workers, Crash(w) PROVE IInv'
  <2>1. HandOf({w}) \in SUBSET Items
    BY DEF HandOf
  <2>2. QED
    BY <1>15, <2>1 DEF Crash, Goto, redisVars, boundVars
<1>16. ASSUME NEW i \in Items, LeaseExpires(i) PROVE IInv'
  <2>1. lease' \in [Items -> Lease]
    BY <1>16 DEF LeaseExpires, Lease
  <2>2. QED
    BY <1>16, <2>1 DEF LeaseExpires, workerVars, boundVars, historyVars
<1>17. ASSUME NEW i \in Items, LeaseOverrun(i) PROVE IInv'
  <2>1. lease' \in [Items -> Lease]
    BY <1>17 DEF LeaseOverrun, Lease
  <2>2. QED
    BY <1>17, <2>1 DEF LeaseOverrun, workerVars, historyVars
<1>18. CASE UNCHANGED vars
  BY <1>18 DEF vars, redisVars, workerVars, boundVars, historyVars
<1>19. QED
  BY StepCases, <1>1, <1>2, <1>3, <1>4, <1>5, <1>6, <1>7, <1>8, <1>9, <1>10,
     <1>11, <1>12, <1>13, <1>14, <1>15, <1>16, <1>17, <1>18

\* Every variable of the Redis queue keeps its type (RedisLeaseQueue under
\* run_worker); a worker with a lease has an item and an issued token.
THEOREM RedisTypeCorrect == Spec => []TypeOK
<1>1. Init => IInv
  BY InitTypes
<1>2. IInv /\ [Next]_vars => IInv'
  BY NextTypes
<1>3. IInv => TypeOK
  BY DEF IInv
<1>4. QED  BY <1>1, <1>2, <1>3, PTL DEF Spec

LEMMA AlwaysTypes == Spec => []IInv
<1>1. Init => IInv
  BY InitTypes
<1>2. IInv /\ [Next]_vars => IInv'
  BY NextTypes
<1>3. QED  BY <1>1, <1>2, PTL DEF Spec

--------------------------------------------------------------------------------
\* A worker failing puts what it holds among the dropped; what the others hold
\* stays where it is.
LEMMA LossStep == IInv /\ IInv' /\ LossNeedsFault /\ [Next]_vars => LossNeedsFault'
<1> SUFFICES ASSUME IInv, IInv', LossNeedsFault, [Next]_vars,
                    NEW i \in Submitted'
             PROVE  i \in Reachable' \/ i \in dropped'
  BY DEF LossNeedsFault
<1> DEFINE Found == \/ i \in Range(available)
                    \/ i \in Items /\ lease[i].token # 0
                    \/ i \in done
                    \/ \E w \in Workers : InHand(w) /\ item[w] = i
                    \/ i \in dropped
<1>a. i \in Submitted => Found
  BY DEF LossNeedsFault, Reachable, Leased, HandOf
<1>b. SUFFICES Found'
  BY DEF Reachable, Leased, HandOf
<1>1. CASE Push
  <2>1. available' = Append(available, Head(toPush)) /\ toPush' = Tail(toPush)
    BY <1>1 DEF Push
  <2>2. Range(toPush) = Range(toPush)' \cup {Head(toPush)} /\ Head(toPush) \in Items
    BY <1>1, <2>1, RangeTail DEF Push, IInv, TypeOK
  <2>3. Range(available)' = Range(available) \cup {Head(toPush)}
    BY <2>1, <2>2, RangeAppend DEF IInv, TypeOK
  <2>4. i \in Submitted \/ i = Head(toPush)
    BY <2>2 DEF Submitted
  <2>5. CASE i = Head(toPush)
    BY <2>3, <2>5
  <2>6. CASE i \in Submitted
    BY <1>a, <2>3, <2>6, <1>1 DEF Push, workerVars, historyVars, InHand
  <2>7. QED  BY <2>4, <2>5, <2>6
<1>2. ASSUME toPush' = toPush PROVE Found
  BY <1>a, <1>2 DEF Submitted
<1>3. ASSUME NEW w \in Workers,
             ScanLeases(w) \/ ReclaimEnds(w) \/ PopNone(w) \/ Execute(w) \/ ExecuteRaises(w)
               \/ CheckToken(w)
      PROVE  Found'
  <2>1. /\ toPush' = toPush /\ available' = available /\ lease' = lease /\ done' = done
        /\ item' = item /\ dropped' = dropped
    BY <1>3 DEF ScanLeases, ReclaimEnds, PopNone, Execute, ExecuteRaises, CheckToken,
                redisVars, historyVars
  <2>2. \A v \in Workers : InHand(v) => InHand(v)'
    BY <1>3 DEF ScanLeases, ReclaimEnds, PopNone, Execute, ExecuteRaises, CheckToken, Goto,
                InHand, IInv, TypeOK
  <2>3. QED  BY <1>2, <2>1, <2>2
<1>4. ASSUME NEW w \in Workers, NEW j \in Items, Unlease(w, j)
      PROVE  Found'
  <2>1. /\ toPush' = toPush /\ available' = available /\ done' = done /\ dropped' = dropped
        /\ \A k \in Items \ {j} : lease'[k] = lease[k]
    BY <1>4 DEF Unlease, historyVars, IInv, TypeOK
  <2>2. InHand(w)' /\ item'[w] = j
    BY <1>4 DEF Unlease, Goto, InHand, IInv, TypeOK
  <2>3. \A v \in Workers : InHand(v) => InHand(v)' /\ item'[v] = item[v]
    BY <1>4 DEF Unlease, Goto, InHand, IInv, TypeOK
  <2>4. QED  BY <1>2, <2>1, <2>2, <2>3
<1>5. ASSUME NEW w \in Workers, Requeue(w)
      PROVE  Found'
  <2>1. item[w] \in Items
    BY <1>5 DEF Requeue, IInv, HandsHoldItems, InHand
  <2>2. Range(available)' = Range(available) \cup {item[w]}
    BY <1>5, <2>1, RangeAppend DEF Requeue, IInv, TypeOK
  <2>3. /\ toPush' = toPush /\ lease' = lease /\ done' = done /\ dropped' = dropped /\ item' = item
    BY <1>5 DEF Requeue, historyVars
  <2>4. \A v \in Workers : v # w /\ InHand(v) => InHand(v)'
    BY <1>5 DEF Requeue, Goto, InHand, IInv, TypeOK
  <2>5. QED  BY <1>2, <2>2, <2>3, <2>4
<1>6. ASSUME NEW w \in Workers, Pop(w)
      PROVE  Found'
  <2>1. Range(available) = Range(available)' \cup {Head(available)}
    BY <1>6, RangeTail DEF Pop, IInv, TypeOK
  <2>2. /\ toPush' = toPush /\ lease' = lease /\ done' = done /\ dropped' = dropped
    BY <1>6 DEF Pop, historyVars
  <2>3. InHand(w)' /\ item'[w] = Head(available)
    BY <1>6 DEF Pop, Goto, InHand, IInv, TypeOK
  <2>4. \A v \in Workers : InHand(v) => InHand(v)' /\ item'[v] = item[v]
    BY <1>6 DEF Pop, Goto, InHand, IInv, TypeOK
  <2>5. QED  BY <1>2, <2>1, <2>2, <2>3, <2>4
<1>7. ASSUME NEW w \in Workers, RecordLease(w)
      PROVE  Found'
  <2>1. item[w] \in Items /\ nextToken # 0
    BY <1>7 DEF RecordLease, IInv, HandsHoldItems, InHand, TypeOK
  <2>2. /\ toPush' = toPush /\ available' = available /\ done' = done /\ dropped' = dropped
        /\ item' = item
    BY <1>7 DEF RecordLease, historyVars
  <2>3. /\ lease'[item[w]].token # 0
        /\ \A k \in Items \ {item[w]} : lease'[k] = lease[k]
    BY <1>7, <2>1 DEF RecordLease, IInv, TypeOK
  <2>4. \A v \in Workers : v # w /\ InHand(v) => InHand(v)'
    BY <1>7 DEF RecordLease, Goto, InHand, IInv, TypeOK
  <2>5. QED  BY <1>2, <2>1, <2>2, <2>3, <2>4
<1>8. ASSUME NEW w \in Workers, Release(w)
      PROVE  Found'
  <2>1. /\ toPush' = toPush /\ available' = available /\ done' = done /\ dropped' = dropped
        /\ item' = item
        /\ \A k \in Items \ {item[w]} : lease'[k] = lease[k]
    BY <1>8 DEF Release, historyVars, IInv, TypeOK
  <2>2. InHand(w)' /\ \A v \in Workers : InHand(v) => InHand(v)'
    BY <1>8 DEF Release, Goto, InHand, IInv, TypeOK
  <2>3. QED  BY <1>2, <2>1, <2>2
<1>9. ASSUME NEW w \in Workers, Finish(w)
      PROVE  Found'
  <2>1. /\ toPush' = toPush /\ available' = available /\ lease' = lease /\ dropped' = dropped
        /\ item' = item /\ done' = done \cup {item[w]}
    BY <1>9 DEF Finish
  <2>2. \A v \in Workers : v # w /\ InHand(v) => InHand(v)'
    BY <1>9 DEF Finish, Goto, InHand, IInv, TypeOK
  <2>3. QED  BY <1>2, <2>1, <2>2
<1>10. ASSUME NEW w \in Workers, AckRaises(w) \/ Crash(w)
       PROVE  Found'
  <2>1. /\ toPush' = toPush /\ available' = available /\ lease' = lease /\ done' = done
        /\ item' = item /\ dropped' = dropped \cup HandOf({w})
    BY <1>10 DEF AckRaises, Crash, redisVars
  <2>2. InHand(w) => item[w] \in dropped'
    BY <2>1 DEF HandOf
  <2>3. \A v \in Workers : v # w /\ InHand(v) => InHand(v)'
    BY <1>10 DEF AckRaises, Crash, Goto, InHand, IInv, TypeOK
  <2>4. QED  BY <1>2, <2>1, <2>2, <2>3
<1>11. ASSUME NEW j \in Items, LeaseExpires(j) \/ LeaseOverrun(j)
       PROVE  Found'
  <2>1. /\ toPush' = toPush /\ available' = available /\ done' = done /\ dropped' = dropped
        /\ item' = item /\ pc' = pc
    BY <1>11 DEF LeaseExpires, LeaseOverrun, workerVars, historyVars
  <2>2. lease' = [lease EXCEPT ![j].expired = TRUE]
    BY <1>11 DEF LeaseExpires, LeaseOverrun
  <2>3. \A k \in Items : lease'[k].token = lease[k].token
    BY <2>2 DEF IInv, TypeOK, Lease
  <2>4. QED  BY <1>2, <2>1, <2>3 DEF InHand
<1>12. CASE UNCHANGED vars
  BY <1>2, <1>12 DEF vars, redisVars, workerVars, historyVars, InHand
<1>13. QED
  BY StepCases, <1>1, <1>3, <1>4, <1>5, <1>6, <1>7, <1>8, <1>9, <1>10, <1>11, <1>12

\* However enqueue, claims, reclaims and acks of the workers overtake each
\* other, a submitted item is in the list, leased, done or in the hands of a
\* worker, unless a worker failed with it in its hands (RedisLeaseQueue.claim,
\* ack and reclaim_expired, each several commands).
THEOREM LossOnlyByFault == Spec => []LossNeedsFault
<1>1. Init => LossNeedsFault
  BY DEF Init, LossNeedsFault, Submitted
<1>2. IInv /\ IInv' /\ LossNeedsFault /\ [Next]_vars => LossNeedsFault'
  BY LossStep
<1>3. QED  BY <1>1, <1>2, AlwaysTypes, PTL DEF Spec

--------------------------------------------------------------------------------
Performed == AckedIsPerformed /\ DoneWasPerformed

LEMMA PerformedStep == IInv /\ Performed /\ [Next]_vars => Performed'
<1> SUFFICES ASSUME IInv, Performed, [Next]_vars PROVE Performed'
  OBVIOUS
<1> USE DEF Performed, AckedIsPerformed, DoneWasPerformed
<1>1. CASE Push \/ UNCHANGED vars
  BY <1>1 DEF Push, vars, redisVars, workerVars, historyVars
<1>2. ASSUME NEW w \in Workers,
             \/ ScanLeases(w) \/ (\E i \in Items : Unlease(w, i)) \/ Requeue(w) \/ ReclaimEnds(w)
             \/ Pop(w) \/ PopNone(w) \/ RecordLease(w) \/ ExecuteRaises(w) \/ AckRaises(w) \/ Crash(w)
      PROVE  Performed'
  <2>1. performed' = performed /\ credits' = credits /\ done' = done
    BY <1>2 DEF ScanLeases, Unlease, Requeue, ReclaimEnds, Pop, PopNone, RecordLease, ExecuteRaises,
                AckRaises, Crash, redisVars, historyVars
  <2>2. \A v \in Workers : pc'[v] \in {"check", "release", "finish"}
                             => pc[v] \in {"check", "release", "finish"} /\ item'[v] = item[v]
    BY <1>2 DEF ScanLeases, Unlease, Requeue, ReclaimEnds, Pop, PopNone, RecordLease, ExecuteRaises,
                AckRaises, Crash, Goto, IInv, TypeOK
  <2>3. QED  BY <2>1, <2>2
<1>3. ASSUME NEW w \in Workers, Execute(w) PROVE Performed'
  BY <1>3 DEF Execute, Goto, redisVars, IInv, TypeOK
<1>4. ASSUME NEW w \in Workers, CheckToken(w) \/ Release(w) PROVE Performed'
  BY <1>4 DEF CheckToken, Release, Goto, redisVars, historyVars, IInv, TypeOK
<1>5. ASSUME NEW w \in Workers, Finish(w) PROVE Performed'
  <2>1. /\ performed' = performed /\ item' = item /\ done' = done \cup {item[w]}
        /\ credits' = [credits EXCEPT ![item[w]] = @ + 1]
        /\ item[w] \in performed
    BY <1>5 DEF Finish
  <2>2. AckedIsPerformed'
    BY <1>5, <2>1 DEF Finish, Goto, IInv, TypeOK
  <2>3. \A i \in Items : i # item[w] => credits'[i] = credits[i]
    BY <2>1 DEF IInv, TypeOK
  <2>4. QED  BY <2>1, <2>2, <2>3
<1>6. ASSUME NEW i \in Items, LeaseExpires(i) \/ LeaseOverrun(i) PROVE Performed'
  BY <1>6 DEF LeaseExpires, LeaseOverrun, workerVars, historyVars
<1>7. QED  BY StepCases, <1>1, <1>2, <1>3, <1>4, <1>5, <1>6

\* An item whose ack was ever accepted is in the done set and was executed to
\* its end (run_worker acks after execute returned, lease.py 144-147).
THEOREM CreditedWasPerformed == Spec => []DoneWasPerformed
<1>1. Init => Performed
  BY DEF Init, Performed, AckedIsPerformed, DoneWasPerformed
<1>2. IInv /\ Performed /\ [Next]_vars => Performed'
  BY PerformedStep
<1>3. Performed => DoneWasPerformed
  BY DEF Performed
<1>4. QED  BY <1>1, <1>2, <1>3, AlwaysTypes, PTL DEF Spec
================================================================================
