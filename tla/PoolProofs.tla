----------------------------- MODULE PoolProofs -----------------------------
(***************************************************************************)
(* Theorems of Queue and of Pool, for every set of jobs, goroutines and    *)
(* people and every bound and capacity.                                    *)
(*                                                                         *)
(* First the queue alone: ListInv is that the order and the slots list the *)
(* same jobs; DeliveryInv says how deliveries, slots and rounds count      *)
(* together.  Then the pool: it uses the queue as module Queue allows, so  *)
(* the queue's theorems hold of it; the throttle is never short of a slot  *)
(* or a token; a redriven job is back.                                     *)
(***************************************************************************)
EXTENDS Pool, SequenceTheorems, FiniteSetTheorems, TLAPS

\* A delivery was made in a round that has begun.
RoundHasBegun ==
  \A w \in Workers : held[w] # None => held[w].round <= round[held[w].job]

\* A delivery of the present round is counted by the slot.
AttemptIsCounted ==
  \A w \in Workers :
    /\ held[w] # None
    /\ slot[held[w].job] # None
    /\ held[w].round = round[held[w].job]
    => held[w].attempt <= slot[held[w].job].attempt

\* No two deliveries have job, round and attempt in common.
DeliveriesDiffer ==
  \A v, w \in Workers :
    v # w /\ held[v] # None /\ held[w] # None
    => \/ held[v].job # held[w].job
       \/ held[v].round # held[w].round
       \/ held[v].attempt # held[w].attempt

ListInv == QueueTypeOK /\ OrderListsTheJobs

DeliveryInv == RoundHasBegun /\ AttemptIsCounted /\ DeliveriesDiffer
-----------------------------------------------------------------------------
\* Taking the k-th element out of a list without repetitions leaves a list
\* without repetitions of all the others: what Ack does to the order.
LEMMA TakenOut ==
  ASSUME NEW S, NEW s \in Seq(S), IsInjective(s), NEW k \in DOMAIN s
  PROVE  /\ RemoveAt(s, k) \in Seq(S)
         /\ IsInjective(RemoveAt(s, k))
         /\ ToSet(RemoveAt(s, k)) = ToSet(s) \ {s[k]}
<1>1. PICK n \in Nat : n = Len(s)
  BY LenProperties
<1>2. DOMAIN s = 1 .. n /\ k \in 1 .. n /\ \A i \in 1 .. n : s[i] \in S
  BY <1>1, LenProperties, ElementOfSeq
<1>3. PICK a : a = SubSeq(s, 1, k - 1)
  OBVIOUS
<1>4. PICK b : b = SubSeq(s, k + 1, n)
  OBVIOUS
<1>5. /\ a \in Seq(S)
      /\ Len(a) = k - 1
      /\ \A i \in 1 .. k - 1 : a[i] = s[i]
  <2>1. k - 1 \in Int /\ 1 \in Int /\ \A i \in 1 .. k - 1 : s[i] \in S
    BY <1>2
  <2>2. /\ SubSeq(s, 1, k - 1) \in Seq(S)
        /\ Len(SubSeq(s, 1, k - 1)) = IF 1 <= k - 1 THEN k - 1 - 1 + 1 ELSE 0
        /\ \A i \in 1 .. k - 1 - 1 + 1 :
             SubSeq(s, 1, k - 1)[i] = s[1 + i - 1]
    BY <2>1, SubSeqProperties
  <2>3. QED
    BY <1>2, <1>3, <2>2
<1>6. /\ b \in Seq(S)
      /\ Len(b) = n - k
      /\ \A i \in 1 .. n - k : b[i] = s[i + k]
  <2>1. k + 1 \in Int /\ n \in Int /\ \A i \in k + 1 .. n : s[i] \in S
    BY <1>2
  <2>2. /\ SubSeq(s, k + 1, n) \in Seq(S)
        /\ Len(SubSeq(s, k + 1, n)) =
             IF k + 1 <= n THEN n - (k + 1) + 1 ELSE 0
        /\ \A i \in 1 .. n - (k + 1) + 1 :
             SubSeq(s, k + 1, n)[i] = s[k + 1 + i - 1]
    BY <2>1, SubSeqProperties
  <2>3. QED
    BY <1>2, <1>4, <2>2
<1>7. PICK r : r = RemoveAt(s, k)
  OBVIOUS
<1>8. /\ r \in Seq(S)
      /\ DOMAIN r = 1 .. n - 1
      /\ \A i \in 1 .. n - 1 : r[i] = IF i < k THEN s[i] ELSE s[i + 1]
  <2>1. r = a \o b
    BY <1>1, <1>3, <1>4, <1>7 DEF RemoveAt
  <2>2. /\ r \in Seq(S)
        /\ Len(r) = Len(a) + Len(b)
        /\ \A i \in 1 .. Len(a) + Len(b) :
             r[i] = IF i <= Len(a) THEN a[i] ELSE b[i - Len(a)]
    BY <2>1, <1>5, <1>6, ConcatProperties
  <2>3. DOMAIN r = 1 .. n - 1
    BY <1>2, <1>5, <1>6, <2>2, LenProperties
  <2>4. ASSUME NEW i \in 1 .. n - 1
        PROVE  r[i] = IF i < k THEN s[i] ELSE s[i + 1]
    <3>1. /\ i \in 1 .. Len(a) + Len(b)
          /\ r[i] = IF i <= k - 1 THEN a[i] ELSE b[i - (k - 1)]
      BY <1>2, <1>5, <1>6, <2>2
    <3>2. CASE i < k
      BY <1>2, <1>5, <3>1, <3>2
    <3>3. CASE i >= k
      <4>1. i - (k - 1) \in 1 .. n - k /\ (i - (k - 1)) + k = i + 1
        BY <1>2, <3>3
      <4>2. b[i - (k - 1)] = s[i + 1]
        BY <4>1, <1>6
      <4>3. QED
        BY <1>2, <3>1, <3>3, <4>2
    <3>4. QED
      BY <1>2, <3>2, <3>3
  <2>5. QED
    BY <2>2, <2>3, <2>4
<1>9. \A i, l \in 1 .. n : s[i] = s[l] => i = l
  BY <1>2 DEF IsInjective
<1>10. IsInjective(r)
  <2> SUFFICES ASSUME NEW i \in 1 .. n - 1, NEW l \in 1 .. n - 1, r[i] = r[l]
               PROVE  i = l
    BY <1>8 DEF IsInjective
  <2> QED
    BY <1>2, <1>8, <1>9
<1>11. ToSet(r) = ToSet(s) \ {s[k]}
  <2>1. ASSUME NEW i \in 1 .. n - 1
        PROVE  r[i] \in ToSet(s) \ {s[k]}
    <3>1. PICK l \in 1 .. n : r[i] = s[l] /\ l # k
      <4>1. CASE i < k
        BY <1>2, <1>8, <4>1
      <4>2. CASE i >= k
        BY <1>2, <1>8, <4>2
      <4>3. QED
        BY <1>2, <4>1, <4>2
    <3>2. QED
      BY <1>2, <1>9, <3>1 DEF ToSet
  <2>2. ASSUME NEW i \in 1 .. n, i # k
        PROVE  s[i] \in ToSet(r)
    <3>1. CASE i < k
      <4>1. i \in 1 .. n - 1 /\ r[i] = s[i]
        BY <1>2, <1>8, <3>1
      <4>2. QED
        BY <4>1, <1>8 DEF ToSet
    <3>2. CASE i > k
      <4>1. i - 1 \in 1 .. n - 1 /\ r[i - 1] = s[i]
        BY <1>2, <1>8, <3>2
      <4>2. QED
        BY <4>1, <1>8 DEF ToSet
    <3>3. QED
      BY <1>2, <2>2, <3>1, <3>2
  <2>3. QED
    BY <2>1, <2>2, <1>2, <1>8 DEF ToSet
<1>12. QED
  BY <1>7, <1>8, <1>10, <1>11
-----------------------------------------------------------------------------
\* What Lease did, with the job it found: a queued job, because the order
\* lists nothing else.
LEMMA LeaseFinds ==
  ASSUME ListInv, NEW w \in Workers, Lease(w)
  PROVE  \E j \in Jobs :
           /\ slot[j] \in Slot
           /\ slot[j].vis = "ready"
           /\ slot' = [slot EXCEPT ![j] = [attempt |-> slot[j].attempt + 1,
                                           vis |-> "leased"]]
           /\ held' = [held EXCEPT
                         ![w] = [job |-> j, attempt |-> slot[j].attempt + 1,
                                 round |-> round[j]]]
           /\ UNCHANGED <<order, round>>
<1>1. PICK j \in Jobs, k \in DOMAIN order :
        /\ Foremost(k, j)
        /\ slot' = [slot EXCEPT ![j] = [attempt |-> slot[j].attempt + 1,
                                        vis |-> "leased"]]
        /\ held' = [held EXCEPT
                      ![w] = [job |-> j, attempt |-> slot[j].attempt + 1,
                              round |-> round[j]]]
  BY DEF Lease
<1>2. order[k] = j /\ slot[j].vis = "ready"
  BY <1>1 DEF Foremost, Visible
<1>3. order[k] \in ToSet(order)
  BY DEF ToSet
<1>4. slot[j] \in Slot
  BY <1>2, <1>3 DEF ListInv, OrderListsTheJobs, QueueTypeOK
<1>5. UNCHANGED <<order, round>>
  BY DEF Lease
<1>6. QED
  BY <1>1, <1>2, <1>4, <1>5

\* Types and the order are kept by every step.  They need each other: Lease
\* would write into no slot if the order listed a job that is gone.
LEMMA ListInvInductive ==
  ListInv /\ [Next]_queueVars => ListInv'
<1> SUFFICES ASSUME ListInv, [Next]_queueVars
             PROVE  ListInv'
  OBVIOUS
<1>t. QueueTypeOK /\ OrderListsTheJobs
  BY DEF ListInv
<1>1. ASSUME NEW j \in Jobs, Enqueue(j)
      PROVE  ListInv'
  <2>1. PICK n \in Nat : n = Len(order)
    BY <1>t, LenProperties DEF QueueTypeOK
  <2>2. DOMAIN order = 1 .. n /\ \A i \in 1 .. n : order[i] \in Jobs
    BY <1>t, <2>1, LenProperties, ElementOfSeq DEF QueueTypeOK
  <2>3. /\ order' \in Seq(Jobs)
        /\ DOMAIN order' = 1 .. n + 1
        /\ \A i \in 1 .. n : order'[i] = order[i]
        /\ order'[n + 1] = j
    BY <1>1, <1>t, <2>1, AppendProperties, LenProperties
       DEF Enqueue, QueueTypeOK
  <2>4. QueueTypeOK'
    BY <1>1, <1>t, <2>3 DEF Enqueue, QueueTypeOK, Slot
  <2>5. \A i \in 1 .. n : order[i] # j
    BY <1>1, <1>t, <2>2 DEF Enqueue, OrderListsTheJobs, ToSet
  <2>6. IsInjective(order')
    BY <1>t, <2>2, <2>3, <2>5 DEF OrderListsTheJobs, IsInjective
  <2>7. ToSet(order') = ToSet(order) \union {j}
    BY <2>2, <2>3 DEF ToSet
  <2>8. {i \in Jobs : slot'[i] # None} = {i \in Jobs : slot[i] # None} \union {j}
    <3>1. [attempt |-> 0, vis |-> "ready"] # None
      BY NoneIsNoSlot DEF Slot
    <3>2. QED
      BY <1>1, <1>t, <3>1 DEF Enqueue, QueueTypeOK
  <2>9. QED
    BY <1>t, <2>4, <2>6, <2>7, <2>8 DEF ListInv, OrderListsTheJobs
<1>2. ASSUME NEW j \in Jobs, slot[j] \in Slot, NEW s \in Slot,
             slot' = [slot EXCEPT ![j] = s], UNCHANGED order
      PROVE  /\ slot' \in [Jobs -> Slot \union {None}]
             /\ OrderListsTheJobs'
  <2>1. \A i \in Jobs : slot'[i] # None <=> slot[i] # None
    BY <1>2, <1>t, NoneIsNoSlot DEF QueueTypeOK
  <2>2. {i \in Jobs : slot'[i] # None} = {i \in Jobs : slot[i] # None}
    BY <2>1
  <2>3. QED
    BY <1>2, <1>t, <2>2 DEF QueueTypeOK, OrderListsTheJobs
<1>3. ASSUME NEW j \in Jobs, Surface(j)
      PROVE  ListInv'
  <2>1. slot[j] \in Slot /\ [slot[j] EXCEPT !.vis = "ready"] \in Slot
    BY <1>3, <1>t DEF Surface, QueueTypeOK, Slot
  <2>2. slot' = [slot EXCEPT ![j] = [slot[j] EXCEPT !.vis = "ready"]]
    BY <1>3 DEF Surface
  <2>3. UNCHANGED <<order, held, round>>
    BY <1>3 DEF Surface
  <2>4. QED
    BY <1>2, <1>t, <2>1, <2>2, <2>3 DEF ListInv, QueueTypeOK
<1>4. ASSUME NEW w \in Workers, Lease(w)
      PROVE  ListInv'
  <2>1. PICK j \in Jobs :
          /\ slot[j] \in Slot
          /\ slot' = [slot EXCEPT ![j] = [attempt |-> slot[j].attempt + 1,
                                          vis |-> "leased"]]
          /\ held' = [held EXCEPT
                        ![w] = [job |-> j, attempt |-> slot[j].attempt + 1,
                                round |-> round[j]]]
          /\ UNCHANGED <<order, round>>
    BY <1>4, LeaseFinds
  <2>2. [attempt |-> slot[j].attempt + 1, vis |-> "leased"] \in Slot
    BY <2>1 DEF Slot
  <2>3. [job |-> j, attempt |-> slot[j].attempt + 1, round |-> round[j]]
          \in Delivery
    BY <1>t, <2>1 DEF Slot, Delivery, QueueTypeOK
  <2>4. QED
    BY <1>2, <1>t, <2>1, <2>2, <2>3 DEF ListInv, QueueTypeOK
<1>5. ASSUME NEW w \in Workers, Ack(w)
      PROVE  ListInv'
  <2>1. held[w] \in Delivery
    BY <1>5, <1>t DEF Ack, Current, QueueTypeOK
  <2>2. PICK j \in Jobs : j = held[w].job
    BY <2>1 DEF Delivery
  <2>3. PICK k \in DOMAIN order :
          order[k] = j /\ order' = RemoveAt(order, k)
    BY <1>5, <2>2 DEF Ack
  <2>4. /\ order' \in Seq(Jobs)
        /\ IsInjective(order')
        /\ ToSet(order') = ToSet(order) \ {j}
    BY <1>t, <2>3, TakenOut DEF QueueTypeOK, OrderListsTheJobs
  <2>5. slot' = [slot EXCEPT ![j] = None]
    BY <1>5, <2>2 DEF Ack
  <2>6. {i \in Jobs : slot'[i] # None} = {i \in Jobs : slot[i] # None} \ {j}
    BY <1>t, <2>5 DEF QueueTypeOK
  <2>7. QueueTypeOK'
    BY <1>5, <1>t, <2>4, <2>5 DEF Ack, QueueTypeOK
  <2>8. QED
    BY <1>t, <2>4, <2>6, <2>7 DEF ListInv, OrderListsTheJobs
<1>6. ASSUME NEW w \in Workers, Nack(w)
      PROVE  ListInv'
  <2>1. held[w] \in Delivery /\ slot[held[w].job] # None
    BY <1>6, <1>t DEF Nack, Current, QueueTypeOK
  <2>2. PICK j \in Jobs : j = held[w].job
    BY <2>1 DEF Delivery
  <2>3. slot[j] \in Slot /\ [slot[j] EXCEPT !.vis = "delayed"] \in Slot
    BY <1>t, <2>1, <2>2 DEF QueueTypeOK, Slot
  <2>4. slot' = [slot EXCEPT ![j] = [slot[j] EXCEPT !.vis = "delayed"]]
    BY <1>6, <2>2 DEF Nack
  <2>5. UNCHANGED <<order, round>> /\ held' = [held EXCEPT ![w] = None]
    BY <1>6 DEF Nack
  <2>6. QED
    BY <1>2, <1>t, <2>3, <2>4, <2>5 DEF ListInv, QueueTypeOK
<1>7. ASSUME NEW w \in Workers, Drop(w)
      PROVE  ListInv'
  BY <1>7, <1>t DEF Drop, ListInv, QueueTypeOK, OrderListsTheJobs
<1>8. CASE UNCHANGED queueVars
  BY <1>8, <1>t DEF queueVars, ListInv, QueueTypeOK, OrderListsTheJobs
<1>9. QED
  BY <1>1, <1>3, <1>4, <1>5, <1>6, <1>7, <1>8 DEF Next

LEMMA ListInvHolds == Spec => []ListInv
<1>1. Init => ListInv
  <2> SUFFICES ASSUME Init PROVE ListInv
    OBVIOUS
  <2>1. QueueTypeOK
    BY DEF Init, QueueTypeOK
  <2>2. DOMAIN order = {}
    BY DEF Init
  <2>3. QED
    BY <2>1, <2>2 DEF Init, ListInv, OrderListsTheJobs, ToSet, IsInjective
<1>2. QED
  BY <1>1, ListInvInductive, PTL DEF Spec
-----------------------------------------------------------------------------
\* Deliveries are numbered within a round: a new one gets a number no other
\* has, because the slot has counted them all.
LEMMA DeliveryInvInductive ==
  ListInv /\ DeliveryInv /\ [Next]_queueVars => DeliveryInv'
<1> SUFFICES ASSUME ListInv, DeliveryInv, [Next]_queueVars
             PROVE  DeliveryInv'
  OBVIOUS
<1>t. /\ slot \in [Jobs -> Slot \union {None}]
      /\ held \in [Workers -> Delivery \union {None}]
      /\ round \in [Jobs -> Nat]
  BY DEF ListInv, QueueTypeOK
<1>d. \A w \in Workers : held[w] # None =>
        held[w].job \in Jobs /\ held[w].attempt \in Nat /\ held[w].round \in Nat
  BY <1>t DEF Delivery
<1>s. \A j \in Jobs : slot[j] # None => slot[j].attempt \in Nat
  BY <1>t DEF Slot
<1>1. ASSUME NEW j \in Jobs, Enqueue(j)
      PROVE  DeliveryInv'
  <2>1. /\ held' = held
        /\ round' = [round EXCEPT ![j] = @ + 1]
        /\ \A i \in Jobs : i # j => slot'[i] = slot[i]
    BY <1>1, <1>t DEF Enqueue
  <2>2. RoundHasBegun'
    BY <2>1, <1>t, <1>d DEF DeliveryInv, RoundHasBegun
  <2>3. AttemptIsCounted'
    BY <2>1, <1>t, <1>d DEF DeliveryInv, RoundHasBegun, AttemptIsCounted
  <2>4. DeliveriesDiffer'
    BY <2>1 DEF DeliveryInv, DeliveriesDiffer
  <2>5. QED
    BY <2>2, <2>3, <2>4 DEF DeliveryInv
<1>2. ASSUME UNCHANGED round,
             \A w \in Workers : held'[w] = held[w] \/ held'[w] = None,
             \A j \in Jobs : slot'[j] # None =>
               slot[j] # None /\ slot'[j].attempt = slot[j].attempt
      PROVE  DeliveryInv'
  <2>1. RoundHasBegun'
    BY <1>2 DEF DeliveryInv, RoundHasBegun
  <2>2. AttemptIsCounted'
    BY <1>2, <1>d DEF DeliveryInv, AttemptIsCounted
  <2>3. DeliveriesDiffer'
    BY <1>2 DEF DeliveryInv, DeliveriesDiffer
  <2>4. QED
    BY <2>1, <2>2, <2>3 DEF DeliveryInv
<1>3. ASSUME NEW j \in Jobs, Surface(j)
      PROVE  DeliveryInv'
  BY <1>2, <1>3, <1>t DEF Surface, Slot
<1>4. ASSUME NEW w \in Workers, Lease(w)
      PROVE  DeliveryInv'
  <2>1. PICK j \in Jobs :
          /\ slot[j] \in Slot
          /\ slot' = [slot EXCEPT ![j] = [attempt |-> slot[j].attempt + 1,
                                          vis |-> "leased"]]
          /\ held' = [held EXCEPT
                        ![w] = [job |-> j, attempt |-> slot[j].attempt + 1,
                                round |-> round[j]]]
          /\ UNCHANGED <<order, round>>
    BY <1>4, LeaseFinds
  <2>2. PICK n \in Nat : n = slot[j].attempt
    BY <2>1 DEF Slot
  <2>3. slot[j] # None
    BY <2>1, NoneIsNoSlot
  <2>4. /\ slot'[j].attempt = n + 1
        /\ \A i \in Jobs : i # j => slot'[i] = slot[i]
    BY <2>1, <2>2, <1>t
  <2>5. /\ held'[w].job = j
        /\ held'[w].attempt = n + 1
        /\ held'[w].round = round[j]
        /\ \A v \in Workers : v # w => held'[v] = held[v]
    BY <2>1, <2>2, <1>t
  <2>6. \A v \in Workers :
          held[v] # None /\ held[v].job = j /\ held[v].round = round[j]
            => held[v].attempt <= n
    BY <2>2, <2>3 DEF DeliveryInv, AttemptIsCounted
  <2>7. RoundHasBegun'
    BY <2>1, <2>5, <1>t DEF DeliveryInv, RoundHasBegun
  <2>8. AttemptIsCounted'
    <3> SUFFICES ASSUME NEW v \in Workers,
                        held'[v] # None,
                        slot'[held'[v].job] # None,
                        held'[v].round = round'[held'[v].job]
                 PROVE  held'[v].attempt <= slot'[held'[v].job].attempt
      BY DEF AttemptIsCounted
    <3>1. CASE v = w
      BY <3>1, <2>4, <2>5
    <3>2. CASE v # w /\ held[v].job = j
      <4>1. held[v].attempt \in Nat /\ held[v].attempt <= n
        BY <3>2, <2>1, <2>5, <2>6, <1>d
      <4>2. QED
        BY <4>1, <3>2, <2>4, <2>5
    <3>3. CASE v # w /\ held[v].job # j
      BY <3>3, <2>1, <2>4, <2>5, <1>d DEF DeliveryInv, AttemptIsCounted
    <3>4. QED
      BY <3>1, <3>2, <3>3
  <2>9. DeliveriesDiffer'
    <3>1. \A v \in Workers : v # w /\ held[v] # None =>
            \/ held[v].job # j
            \/ held[v].round # round[j]
            \/ held[v].attempt # n + 1
      BY <2>6, <1>d
    <3>2. QED
      BY <3>1, <2>5 DEF DeliveryInv, DeliveriesDiffer
  <2>10. QED
    BY <2>7, <2>8, <2>9 DEF DeliveryInv
<1>5. ASSUME NEW w \in Workers, Ack(w)
      PROVE  DeliveryInv'
  BY <1>2, <1>5, <1>t DEF Ack
<1>6. ASSUME NEW w \in Workers, Nack(w)
      PROVE  DeliveryInv'
  BY <1>2, <1>6, <1>t DEF Nack, Current, Slot
<1>7. ASSUME NEW w \in Workers, Drop(w)
      PROVE  DeliveryInv'
  BY <1>2, <1>7, <1>t DEF Drop
<1>8. CASE UNCHANGED queueVars
  BY <1>2, <1>8 DEF queueVars
<1>9. QED
  BY <1>1, <1>3, <1>4, <1>5, <1>6, <1>7, <1>8 DEF Next

LEMMA DeliveryInvHolds == Spec => []DeliveryInv
<1>1. Init => DeliveryInv
  BY DEF Init, DeliveryInv, RoundHasBegun, AttemptIsCounted, DeliveriesDiffer
<1>2. QED
  BY <1>1, ListInvHolds, DeliveryInvInductive, PTL DEF Spec
-----------------------------------------------------------------------------
\* The fields of MemoryQueue keep their types.
THEOREM QueueTypeCorrect == Spec => []QueueTypeOK
<1>1. ListInv => QueueTypeOK
  BY DEF ListInv
<1>2. QED
  BY <1>1, ListInvHolds, PTL

\* MemoryQueue.order lists every queued job once and nothing else, so Lease
\* never reads a slot that Ack deleted, and no job waits unlisted.
THEOREM OrderIsTheJobs == Spec => []OrderListsTheJobs
<1>1. ListInv => OrderListsTheJobs
  BY DEF ListInv
<1>2. QED
  BY <1>1, ListInvHolds, PTL

\* Ack and Nack accept the receipt of at most one delivery of a round: the
\* worker whose lease was taken over can neither finish nor release the job.
THEOREM OneReceiptIsGood == Spec => []OneReceiptARound
<1>1. ListInv /\ DeliveryInv => OneReceiptARound
  BY DEF DeliveryInv, DeliveriesDiffer, OneReceiptARound, Current
<1>2. QED
  BY <1>1, ListInvHolds, DeliveryInvHolds, PTL

\* While a job is leased it is not delivered again: an attempt is added only
\* when the lease has ended.
THEOREM LeaseHidesTheJob == Spec => LeaseHides
<1>1. ASSUME ListInv, [Next]_queueVars, NEW j \in Jobs,
             slot[j] # None, slot'[j] # None, slot[j].vis = "leased"
      PROVE  slot'[j].attempt = slot[j].attempt
  <2>t. slot \in [Jobs -> Slot \union {None}]
    BY <1>1 DEF ListInv, QueueTypeOK
  <2>1. ASSUME NEW w \in Workers, Lease(w)
        PROVE  slot'[j].attempt = slot[j].attempt
    <3>1. PICK i \in Jobs :
            /\ slot[i].vis = "ready"
            /\ slot' = [slot EXCEPT ![i] = [attempt |-> slot[i].attempt + 1,
                                            vis |-> "leased"]]
      BY <1>1, <2>1, LeaseFinds
    <3>2. QED
      BY <1>1, <2>t, <3>1
  <2>2. ASSUME NEW i \in Jobs, Enqueue(i) \/ Surface(i)
        PROVE  slot'[j].attempt = slot[j].attempt
    BY <1>1, <2>t, <2>2 DEF Enqueue, Surface, Slot
  <2>3. ASSUME NEW w \in Workers, Ack(w) \/ Nack(w) \/ Drop(w)
        PROVE  slot'[j].attempt = slot[j].attempt
    BY <1>1, <2>t, <2>3 DEF Ack, Nack, Drop, Current, Slot
  <2>4. QED
    BY <1>1, <2>1, <2>2, <2>3 DEF Next, queueVars
<1>2. ListInv /\ [Next]_queueVars =>
        [\A j \in Jobs : slot[j] # None /\ slot'[j] # None
           /\ slot[j].vis = "leased" => slot'[j].attempt = slot[j].attempt
        ]_queueVars
  BY <1>1
<1>3. QED
  BY <1>2, ListInvHolds, PTL DEF Spec, LeaseHides
-----------------------------------------------------------------------------
(***************************************************************************)
(* The pool around the queue.                                              *)
(***************************************************************************)
Working == {"work", "ask", "blocked", "bucket", "sleep", "send", "done",
            "retry", "ack"}
Busy == {w \in Workers : At(w, {"bucket", "sleep", "send"})}

\* Goroutines asleep for more than n ticks.
AsleepFor(n) == {w \in Workers : At(w, {"sleep"}) /\ wake[w] > n}

\* Slots are taken by the goroutines between Acquire and Release.
SlotsAreHeld == sem = Cardinality(Busy)

\* Of the tokens lent, at most n are earned in n ticks; for each of the others
\* a goroutine sleeps on.
TokensAreOwed == \A n \in Nat : -tokens - n <= Cardinality(AsleepFor(n))

\* The records, the people and the goroutines have the shape of their step.
RecordsTyped ==
  /\ at \in [Workers -> {"loop", "lease", "gone"} \union Working]
  /\ record \in [Jobs -> Letter \union {NoRecord}]
  /\ op \in [Operators -> Errand \union {Idle}]
  /\ slip \in [Jobs -> BOOLEAN]
ThrottleTyped == sem \in Int /\ tokens \in Int /\ wake \in [Workers -> Nat]

\* A goroutine at work has a delivery, of a round that has begun.
WorkIsDelivered ==
  \A w \in Workers : At(w, Working) => held[w] # None

\* A goroutine on its way to the Ack after Park finds the job on record.
ParkedBeforeAck ==
  \A w \in Workers : At(w, {"ack"}) => record[Job(w)] # NoRecord

\* A record was made in a round that has begun.
ParkedInARound == \A j \in Jobs : record[j] # NoRecord => record[j].round <= round[j]

\* What a person knows of a record: it has been parked as often as at the
\* look, or more often; and if not more often, and the job was put back, then
\* in a round after the record's.
LookIsPast ==
  \A o \in Operators : op[o].pc # "idle" =>
    LET r == record[op[o].job]
    IN  /\ r # NoRecord
        /\ op[o].cycles <= r.cycles
        /\ op[o].pc = "resolve" /\ ~op[o].early /\ op[o].cycles = r.cycles
             => round[op[o].job] > r.round

ThrottleInv == ThrottleTyped /\ SlotsAreHeld /\ TokensAreOwed

RedriveInv ==
  RecordsTyped /\ WorkIsDelivered /\ ParkedInARound /\ LookIsPast
  /\ RedriveIsNotLost

\* The mark of a missing record is no record.
LEMMA NoRecordIsNoLetter == NoRecord \notin Letter
BY DEF NoRecord, Letter
-----------------------------------------------------------------------------
\* A step of the pool is a step of the queue or leaves it alone.
LEMMA PoolStepsTheQueue ==
  RecordsTyped /\ [PoolNext]_poolVars => [Next]_queueVars
<1> SUFFICES ASSUME RecordsTyped, [PoolNext]_poolVars PROVE [Next]_queueVars
  OBVIOUS
<1>1. ASSUME NEW w \in Workers, GoOn(w)
      PROVE  [Next]_queueVars
  <2>1. CASE LeaseJob(w)
    BY <2>1 DEF LeaseJob, Next
  <2>2. CASE AckJob(w)
    BY <2>2 DEF AckJob, Next
  <2>3. CASE NackJob(w)
    BY <2>3 DEF NackJob, Next
  <2>4. CASE Loop(w) \/ NoJob(w) \/ Process(w) \/ Park(w) \/ Block(w)
               \/ TakeToken(w)
    BY <2>4 DEF Loop, NoJob, Process, Park, Block, TakeToken
  <2>5. QED
    BY <1>1, <2>1, <2>2, <2>3, <2>4 DEF GoOn
<1>2. ASSUME NEW w \in Workers, Waits(w)
      PROVE  UNCHANGED queueVars
  BY <1>2 DEF Waits, TakeSlot, Unblock, Wake, Cancel, Sent
<1>3. ASSUME NEW w \in Workers, Panic(w)
      PROVE  Next
  BY <1>3 DEF Panic, Next
<1>4. ASSUME NEW o \in Operators, PutBack(o)
      PROVE  [Next]_queueVars
  <2>1. Enqueue(op[o].job) \/ UNCHANGED queueVars
    BY <1>4 DEF PutBack
  <2>2. CASE Enqueue(op[o].job)
    <3>1. op[o].job \in Jobs
      BY <1>4 DEF PutBack, RecordsTyped, Errand, Idle
    <3>2. QED
      BY <2>2, <3>1 DEF Next
  <2>3. QED
    BY <2>1, <2>2
<1>5. ASSUME NEW o \in Operators, NEW j \in Jobs, Look(o, j)
      PROVE  UNCHANGED queueVars
  BY <1>5 DEF Look
<1>6. ASSUME NEW o \in Operators, Resolve(o) \/ Quit(o)
      PROVE  UNCHANGED queueVars
  BY <1>6 DEF Resolve, Quit
<1>7. ASSUME NEW j \in Jobs, DropLetter(j) \/ Produce(j) \/ SurfaceJob(j)
      PROVE  [Next]_queueVars
  BY <1>7 DEF DropLetter, Produce, SurfaceJob, Next
<1>8. CASE Tick \/ Shutdown \/ DrainTimeout \/ Return
  BY <1>8 DEF Tick, Shutdown, DrainTimeout, Return
<1>9. CASE UNCHANGED poolVars
  BY <1>9 DEF poolVars, queueVars
<1>10. QED
  BY <1>1, <1>2, <1>3, <1>4, <1>5, <1>6, <1>7, <1>8, <1>9 DEF PoolNext
-----------------------------------------------------------------------------
\* The sets of goroutines the throttle counts are finite.
LEMMA CountsAreNumbers ==
  \A S \in SUBSET Workers : IsFiniteSet(S) /\ Cardinality(S) \in Nat
BY PoolAssumption, FS_Subset, FS_CardinalityType

\* The throttle stays whole: each step that takes or gives back a slot or a
\* token moves its goroutine in or out of the sets that count them.
LEMMA ThrottleInvInductive ==
  ThrottleInv /\ RecordsTyped /\ [PoolNext]_poolVars => ThrottleInv'
<1> SUFFICES ASSUME ThrottleInv, RecordsTyped, [PoolNext]_poolVars
             PROVE  ThrottleInv'
  OBVIOUS
<1>t. /\ at \in [Workers -> {"loop", "lease", "gone"} \union Working]
      /\ sem \in Int /\ tokens \in Int /\ wake \in [Workers -> Nat]
  BY DEF ThrottleInv, ThrottleTyped, RecordsTyped
<1>o. \A n \in Nat : -tokens - n <= Cardinality(AsleepFor(n))
  BY DEF ThrottleInv, TokensAreOwed
<1>b. Burst \in Nat
  BY PoolAssumption
<1>s. /\ Busy \in SUBSET Workers /\ Busy' \in SUBSET Workers
      /\ \A n \in Nat : /\ AsleepFor(n) \in SUBSET Workers
                        /\ AsleepFor(n)' \in SUBSET Workers
  BY DEF Busy, AsleepFor
<1>1. ASSUME UNCHANGED <<sem, tokens, wake>>,
             \A v \in Workers :
               /\ At(v, {"bucket", "sleep", "send"})' <=>
                    At(v, {"bucket", "sleep", "send"})
               /\ At(v, {"sleep"})' <=> At(v, {"sleep"})
      PROVE  ThrottleInv'
  <2>1. Busy' = Busy /\ \A n \in Nat : AsleepFor(n)' = AsleepFor(n)
    BY <1>1 DEF Busy, AsleepFor
  <2>2. QED
    BY <1>1, <2>1 DEF ThrottleInv, ThrottleTyped, SlotsAreHeld, TokensAreOwed
<1>2. ASSUME NEW w \in Workers, NEW pc, Goto(w, pc)
      PROVE  \A v \in Workers : at'[v] = IF v = w THEN pc ELSE at[v]
  BY <1>2, <1>t DEF Goto
<1>3. ASSUME NEW w \in Workers, Busy' = Busy \ {w}, w \in Busy, sem' = sem - 1
      PROVE  SlotsAreHeld'
  BY <1>3, <1>s, CountsAreNumbers, FS_RemoveElement DEF ThrottleInv, SlotsAreHeld
<1>4. ASSUME NEW w \in Workers,
             \E pc \in (Working \ {"bucket", "sleep", "send"}) \union {"loop"} :
               Goto(w, pc)
      PROVE  /\ Busy' = Busy \ {w}
             /\ \A n \in Nat : AsleepFor(n)' =
                  {v \in Workers : v # w /\ At(v, {"sleep"}) /\ wake'[v] > n}
  BY <1>4, <1>2 DEF Busy, AsleepFor, At
<1>5. ASSUME NEW w \in Workers, GoOn(w)
      PROVE  ThrottleInv'
  <2>1. CASE TakeToken(w)
    <3>1. PICK pc \in {"send", "sleep"} :
            Goto(w, pc) /\ pc = IF tokens > 0 THEN "send" ELSE "sleep"
      BY <2>1 DEF TakeToken
    <3>2. \A v \in Workers : at'[v] = IF v = w THEN pc ELSE at[v]
      BY <3>1, <1>2
    <3>3. Busy' = Busy
      BY <2>1, <3>2 DEF TakeToken, Busy, At
    <3>4. SlotsAreHeld'
      BY <2>1, <3>3 DEF TakeToken, ThrottleInv, SlotsAreHeld
    <3>5. /\ ThrottleTyped'
          /\ tokens' = tokens - 1
          /\ wake'[w] = IF tokens > 0 THEN 0 ELSE 1 - tokens
          /\ \A v \in Workers : v # w => wake'[v] = wake[v]
      BY <2>1, <1>t DEF TakeToken, ThrottleTyped
    <3>6. ASSUME NEW n \in Nat
          PROVE  -tokens' - n <= Cardinality(AsleepFor(n)')
      <4>1. Cardinality(AsleepFor(n)') \in Nat
        BY <1>s, CountsAreNumbers
      <4>2. CASE n < 1 - tokens /\ tokens <= 0
        <5>1. AsleepFor(n)' = AsleepFor(n) \union {w} /\ w \notin AsleepFor(n)
          BY <2>1, <3>1, <3>2, <3>5, <4>2, <1>t DEF TakeToken, AsleepFor, At
        <5>2. Cardinality(AsleepFor(n)') = Cardinality(AsleepFor(n)) + 1
          BY <5>1, <1>s, CountsAreNumbers, FS_AddElement
        <5>3. QED
          BY <5>2, <3>5, <1>o, <1>s, <1>t, CountsAreNumbers
      <4>3. CASE ~(n < 1 - tokens /\ tokens <= 0)
        <5>1. -tokens' - n <= 0
          BY <3>5, <4>3, <1>t
        <5>2. QED
          BY <4>1, <5>1, <3>5, <1>t
      <4>4. QED
        BY <4>2, <4>3
    <3>7. QED
      BY <3>4, <3>5, <3>6 DEF ThrottleInv, TokensAreOwed
  <2>2. CASE Loop(w) \/ LeaseJob(w) \/ NoJob(w) \/ Process(w) \/ Park(w)
               \/ AckJob(w) \/ NackJob(w) \/ Block(w)
    <3>1. /\ UNCHANGED <<sem, tokens, wake>>
          /\ at[w] \notin {"bucket", "sleep", "send"}
          /\ \E pc \in {"lease", "gone", "work", "loop", "ask", "done", "ack",
                        "blocked"} : Goto(w, pc)
      BY <2>2 DEF Loop, LeaseJob, NoJob, Process, Park, AckJob, NackJob, Block,
                  throttle, At
    <3>2. QED
      BY <3>1, <1>1, <1>2 DEF At
  <2>3. QED
    BY <1>5, <2>1, <2>2 DEF GoOn
<1>6. ASSUME NEW w \in Workers, Waits(w)
      PROVE  ThrottleInv'
  <2>1. CASE TakeSlot(w)
    <3>1. /\ at[w] \in {"ask", "blocked"}
          /\ sem' = sem + 1
          /\ UNCHANGED <<tokens, wake>>
          /\ Goto(w, "bucket")
      BY <2>1 DEF TakeSlot, At
    <3>2. /\ Busy' = Busy \union {w} /\ w \notin Busy
          /\ \A n \in Nat : AsleepFor(n)' = AsleepFor(n)
      BY <3>1, <1>2 DEF Busy, AsleepFor, At
    <3>3. SlotsAreHeld'
      BY <3>1, <3>2, <1>s, CountsAreNumbers, FS_AddElement
         DEF ThrottleInv, SlotsAreHeld
    <3>4. QED
      BY <3>1, <3>2, <3>3 DEF ThrottleInv, ThrottleTyped, TokensAreOwed
  <2>2. CASE Unblock(w)
    <3>1. UNCHANGED <<sem, tokens, wake>> /\ at[w] = "blocked" /\ Goto(w, "retry")
      BY <2>2 DEF Unblock, throttle, At
    <3>2. QED
      BY <3>1, <1>1, <1>2 DEF At
  <2>3. CASE Wake(w)
    <3>1. /\ UNCHANGED <<sem, tokens, wake>>
          /\ at[w] = "sleep" /\ wake[w] = 0 /\ Goto(w, "send")
      BY <2>3 DEF Wake, throttle, At
    <3>2. Busy' = Busy /\ \A n \in Nat : AsleepFor(n)' = AsleepFor(n)
      BY <3>1, <1>2 DEF Busy, AsleepFor, At
    <3>3. QED
      BY <3>1, <3>2
         DEF ThrottleInv, ThrottleTyped, SlotsAreHeld, TokensAreOwed
  <2>4. CASE Cancel(w)
    <3>1. /\ at[w] = "sleep" /\ Goto(w, "retry")
          /\ sem' = sem - 1
          /\ tokens' = IF tokens < Burst THEN tokens + 1 ELSE tokens
          /\ \A v \in Workers : v # w => wake'[v] = wake[v]
          /\ ThrottleTyped'
      BY <2>4, <1>t, <1>b DEF Cancel, At, Refilled, ThrottleTyped
    <3>2. /\ w \in Busy /\ Busy' = Busy \ {w}
          /\ \A n \in Nat : AsleepFor(n)' = AsleepFor(n) \ {w}
      BY <3>1, <1>2 DEF Busy, AsleepFor, At
    <3>3. SlotsAreHeld'
      BY <3>1, <3>2, <1>3
    <3>4. ASSUME NEW n \in Nat
          PROVE  -tokens' - n <= Cardinality(AsleepFor(n)')
      <4>1. Cardinality(AsleepFor(n)') \in Nat
        BY <1>s, CountsAreNumbers
      <4>2. Cardinality(AsleepFor(n)') >= Cardinality(AsleepFor(n)) - 1
        BY <3>2, <1>s, CountsAreNumbers, FS_RemoveElement
      <4>3. CASE tokens < Burst
        BY <4>2, <4>3, <4>1, <3>1, <1>o, <1>s, <1>t, CountsAreNumbers
      <4>4. CASE ~(tokens < Burst)
        BY <4>1, <4>4, <3>1, <1>b, <1>t
      <4>5. QED
        BY <4>3, <4>4
    <3>5. QED
      BY <3>1, <3>3, <3>4 DEF ThrottleInv, TokensAreOwed
  <2>5. CASE Sent(w)
    <3>1. /\ at[w] = "send" /\ Goto(w, "done")
          /\ sem' = sem - 1
          /\ UNCHANGED <<tokens, wake>>
      BY <2>5 DEF Sent, At
    <3>2. /\ w \in Busy /\ Busy' = Busy \ {w}
          /\ \A n \in Nat : AsleepFor(n)' = AsleepFor(n)
      BY <3>1, <1>2 DEF Busy, AsleepFor, At
    <3>3. QED
      BY <3>1, <3>2, <1>3, <1>t DEF ThrottleInv, ThrottleTyped, TokensAreOwed
  <2>6. QED
    BY <1>6, <2>1, <2>2, <2>3, <2>4, <2>5 DEF Waits
<1>7. ASSUME NEW w \in Workers, Panic(w)
      PROVE  ThrottleInv'
  <2>1. CASE at[w] = "send"
    <3>1. Goto(w, "loop") /\ sem' = sem - 1 /\ UNCHANGED <<tokens, wake>>
      BY <1>7, <2>1 DEF Panic, At
    <3>2. /\ w \in Busy /\ Busy' = Busy \ {w}
          /\ \A n \in Nat : AsleepFor(n)' = AsleepFor(n)
      BY <2>1, <3>1, <1>2 DEF Busy, AsleepFor, At
    <3>3. QED
      BY <3>1, <3>2, <1>3, <1>t DEF ThrottleInv, ThrottleTyped, TokensAreOwed
  <2>2. CASE at[w] # "send"
    <3>1. /\ Goto(w, "loop") /\ UNCHANGED <<sem, tokens, wake>>
          /\ at[w] \notin {"bucket", "sleep", "send"}
      BY <1>7, <2>2 DEF Panic, At
    <3>2. QED
      BY <3>1, <1>1, <1>2 DEF At
  <2>3. QED
    BY <2>1, <2>2
<1>8. CASE Tick
  <2>1. /\ UNCHANGED <<at, sem>>
        /\ tokens' = IF tokens < Burst THEN tokens + 1 ELSE tokens
        /\ \A w \in Workers :
             wake'[w] = IF wake[w] = 0 THEN 0 ELSE wake[w] - 1
    BY <1>8 DEF Tick, Refilled
  <2>2. ThrottleTyped'
    BY <1>8, <1>t, <1>b DEF Tick, Refilled, ThrottleTyped
  <2>3. Busy' = Busy /\ \A n \in Nat : AsleepFor(n)' = AsleepFor(n + 1)
    BY <2>1, <1>t DEF Busy, AsleepFor, At
  <2>4. ASSUME NEW n \in Nat
        PROVE  -tokens' - n <= Cardinality(AsleepFor(n)')
    <3>1. -tokens - (n + 1) <= Cardinality(AsleepFor(n + 1))
      BY <1>o
    <3>2. Cardinality(AsleepFor(n)') = Cardinality(AsleepFor(n + 1))
      BY <2>3
    <3>3. Cardinality(AsleepFor(n)') \in Nat
      BY <1>s, CountsAreNumbers
    <3>4. CASE tokens < Burst
      BY <3>1, <3>2, <3>3, <3>4, <2>1, <1>t
    <3>5. CASE ~(tokens < Burst)
      BY <3>3, <3>5, <2>1, <1>b, <1>t
    <3>6. QED
      BY <3>4, <3>5
  <2>5. QED
    BY <2>1, <2>2, <2>3, <2>4 DEF ThrottleInv, SlotsAreHeld, TokensAreOwed
<1>9. ASSUME UNCHANGED <<at, sem, tokens, wake>>
      PROVE  ThrottleInv'
  BY <1>9, <1>1 DEF At
<1>10. ASSUME NEW o \in Operators,
              (\E j \in Jobs : Look(o, j)) \/ PutBack(o) \/ Resolve(o) \/ Quit(o)
       PROVE  ThrottleInv'
  BY <1>9, <1>10 DEF Look, PutBack, Resolve, Quit, throttle
<1>11. ASSUME NEW j \in Jobs, DropLetter(j) \/ Produce(j) \/ SurfaceJob(j)
       PROVE  ThrottleInv'
  BY <1>9, <1>11 DEF DropLetter, Produce, SurfaceJob, throttle
<1>12. CASE Shutdown \/ DrainTimeout \/ Return \/ UNCHANGED poolVars
  BY <1>9, <1>12 DEF Shutdown, DrainTimeout, Return, poolVars, throttle
<1>13. QED
  BY <1>5, <1>6, <1>7, <1>8, <1>10, <1>11, <1>12 DEF PoolNext
-----------------------------------------------------------------------------
\* The round of a job never falls.
LEMMA RoundsGrow ==
  ListInv /\ [Next]_queueVars => \A j \in Jobs : round'[j] >= round[j]
<1> SUFFICES ASSUME ListInv, [Next]_queueVars, NEW j \in Jobs
             PROVE  round'[j] >= round[j]
  OBVIOUS
<1>t. round \in [Jobs -> Nat]
  BY DEF ListInv, QueueTypeOK
<1>1. ASSUME NEW i \in Jobs, Enqueue(i)
      PROVE  round'[j] >= round[j]
  BY <1>1, <1>t DEF Enqueue
<1>2. CASE UNCHANGED round
  BY <1>2, <1>t
<1>3. QED
  BY <1>1, <1>2 DEF Next, Surface, Lease, Ack, Nack, Drop, queueVars

\* Records, people and goroutines keep their shape.
LEMMA RecordsTypedInductive ==
  ListInv /\ RecordsTyped /\ WorkIsDelivered /\ [PoolNext]_poolVars
    => RecordsTyped' /\ WorkIsDelivered'
<1> SUFFICES ASSUME ListInv, RecordsTyped, WorkIsDelivered, [PoolNext]_poolVars
             PROVE  RecordsTyped' /\ WorkIsDelivered'
  OBVIOUS
<1>t. /\ at \in [Workers -> {"loop", "lease", "gone"} \union Working]
      /\ record \in [Jobs -> Letter \union {NoRecord}]
      /\ op \in [Operators -> Errand \union {Idle}]
      /\ slip \in [Jobs -> BOOLEAN]
      /\ held \in [Workers -> Delivery \union {None}]
  BY DEF RecordsTyped, ListInv, QueueTypeOK
<1>1. ASSUME NEW w \in Workers,
             NEW pc \in {"loop", "lease", "gone"} \union Working, Goto(w, pc),
             \A v \in Workers : v # w => held'[v] = held[v],
             pc \in Working => held'[w] # None
      PROVE  /\ at' \in [Workers -> {"loop", "lease", "gone"} \union Working]
             /\ WorkIsDelivered'
  BY <1>1, <1>t DEF Goto, WorkIsDelivered, At
<1>2. ASSUME NEW w \in Workers, GoOn(w)
      PROVE  RecordsTyped' /\ WorkIsDelivered'
  <2>1. CASE LeaseJob(w)
    <3>1. held' = [held EXCEPT ![w] = held'[w]] /\ held'[w] # None
      <4>1. PICK j \in Jobs :
              /\ slot[j] \in Slot
              /\ held' = [held EXCEPT
                            ![w] = [job |-> j, attempt |-> slot[j].attempt + 1,
                                    round |-> round[j]]]
        BY <2>1, LeaseFinds DEF LeaseJob
      <4>2. [job |-> j, attempt |-> slot[j].attempt + 1, round |-> round[j]]
              \in Delivery
        BY <4>1 DEF ListInv, QueueTypeOK, Slot, Delivery
      <4>3. QED
        BY <4>1, <4>2, <1>t, NoneIsNoDelivery
    <3>2. Goto(w, "work") /\ UNCHANGED letters
      BY <2>1 DEF LeaseJob
    <3>3. QED
      BY <3>1, <3>2, <1>1, <1>t DEF letters, RecordsTyped, Working
  <2>2. CASE AckJob(w) \/ NackJob(w)
    <3>1. held' = [held EXCEPT ![w] = None]
      BY <2>2 DEF AckJob, NackJob, Ack, Nack, Drop
    <3>2. Goto(w, "loop") /\ UNCHANGED letters
      BY <2>2 DEF AckJob, NackJob
    <3>3. QED
      BY <3>1, <3>2, <1>1, <1>t DEF letters, RecordsTyped, Working
  <2>3. CASE Loop(w) \/ NoJob(w) \/ Process(w) \/ Block(w) \/ TakeToken(w)
    <3>1. PICK pc \in {"loop", "lease", "gone"} \union Working :
            /\ Goto(w, pc)
            /\ pc \in Working => At(w, Working)
      BY <2>3 DEF Loop, NoJob, Process, Block, TakeToken, Working, At
    <3>2. UNCHANGED held /\ UNCHANGED letters
      BY <2>3 DEF Loop, NoJob, Process, Block, TakeToken, queueVars
    <3>3. QED
      BY <3>1, <3>2, <1>1, <1>t DEF letters, RecordsTyped, WorkIsDelivered
  <2>4. CASE Park(w)
    <3>1. held[w] # None
      BY <2>4 DEF Park, At, Working, WorkIsDelivered
    <3>2. held[w] \in Delivery
      BY <3>1, <1>t
    <3>3. record' \in [Jobs -> Letter \union {NoRecord}]
      BY <2>4, <3>2, <1>t DEF Park, Letter, Delivery, Job
    <3>4. Goto(w, "ack") /\ UNCHANGED <<held, op, slip>>
      BY <2>4 DEF Park, queueVars
    <3>5. QED
      BY <3>1, <3>3, <3>4, <1>1, <1>t DEF RecordsTyped, Working
  <2>5. QED
    BY <1>2, <2>1, <2>2, <2>3, <2>4 DEF GoOn
<1>3. ASSUME NEW w \in Workers, Waits(w)
      PROVE  RecordsTyped' /\ WorkIsDelivered'
  <2>1. /\ At(w, Working) /\ UNCHANGED held /\ UNCHANGED letters
        /\ \E pc \in Working : Goto(w, pc)
    BY <1>3 DEF Waits, TakeSlot, Unblock, Wake, Cancel, Sent, queueVars,
                Working, At
  <2>2. QED
    BY <2>1, <1>1, <1>t DEF letters, RecordsTyped, WorkIsDelivered
<1>4. ASSUME NEW w \in Workers, Panic(w)
      PROVE  RecordsTyped' /\ WorkIsDelivered'
  <2>1. held' = [held EXCEPT ![w] = None] /\ Goto(w, "loop") /\ UNCHANGED letters
    BY <1>4 DEF Panic, Drop
  <2>2. QED
    BY <2>1, <1>1, <1>t DEF letters, RecordsTyped, Working
<1>5. ASSUME UNCHANGED <<at, held>>
      PROVE  WorkIsDelivered'
  BY <1>5 DEF WorkIsDelivered, At
<1>6. ASSUME NEW o \in Operators, NEW j \in Jobs, Look(o, j)
      PROVE  RecordsTyped' /\ WorkIsDelivered'
  <2>1. record[j] \in Letter
    BY <1>6, <1>t DEF Look, Parked
  <2>2. [pc |-> "enqueue", job |-> j, early |-> FALSE,
         cycles |-> record[j].cycles] \in Errand
    BY <2>1 DEF Letter, Errand
  <2>3. QED
    BY <1>6, <2>2, <1>5, <1>t DEF Look, RecordsTyped, queueVars
<1>7. ASSUME NEW o \in Operators, PutBack(o)
      PROVE  RecordsTyped' /\ WorkIsDelivered'
  <2>1. op[o] \in Errand
    BY <1>7, <1>t DEF PutBack, Idle
  <2>2. PICK b \in BOOLEAN : b = (/\ slot[op[o].job] # None
                                /\ round[op[o].job] = record[op[o].job].round)
    OBVIOUS
  <2>3. [op[o] EXCEPT !.pc = "resolve", !.early = b] \in Errand
    BY <2>1 DEF Errand
  <2>4. op' = [op EXCEPT ![o] = [op[o] EXCEPT !.pc = "resolve", !.early = b]]
    BY <1>7, <2>2 DEF PutBack
  <2>5. UNCHANGED <<at, held, record, slip>>
    BY <1>7 DEF PutBack, Enqueue, queueVars
  <2>6. QED
    BY <2>3, <2>4, <2>5, <1>5, <1>t DEF RecordsTyped
<1>8. ASSUME NEW j \in Jobs, record[j] # NoRecord, NEW s \in {"redriven", "dropped"}
      PROVE  [record EXCEPT ![j].status = s] \in [Jobs -> Letter \union {NoRecord}]
  <2>1. record[j] \in Letter /\ [record[j] EXCEPT !.status = s] \in Letter
    BY <1>8, <1>t DEF Letter
  <2>2. QED
    BY <2>1, <1>t
<1>9. ASSUME NEW o \in Operators, Resolve(o)
      PROVE  RecordsTyped' /\ WorkIsDelivered'
  <2>1. op[o] \in Errand /\ op[o].job \in Jobs
    BY <1>9, <1>t DEF Resolve, Idle, Errand
  <2>2. /\ op' = [op EXCEPT ![o] = Idle]
        /\ UNCHANGED <<at, held>>
        /\ slip' \in [Jobs -> BOOLEAN]
    BY <1>9, <1>t DEF Resolve, queueVars
  <2>3. record' \in [Jobs -> Letter \union {NoRecord}]
    BY <1>9, <2>1, <1>8, <1>t DEF Resolve, Parked
  <2>4. QED
    BY <2>2, <2>3, <1>5, <1>t DEF RecordsTyped
<1>10. ASSUME NEW j \in Jobs, DropLetter(j)
       PROVE  RecordsTyped' /\ WorkIsDelivered'
  BY <1>10, <1>8, <1>5, <1>t DEF DropLetter, Parked, RecordsTyped, queueVars
<1>11. ASSUME UNCHANGED <<at, held, record, op, slip>>
       PROVE  RecordsTyped' /\ WorkIsDelivered'
  BY <1>11, <1>5, <1>t DEF RecordsTyped
<1>12. ASSUME NEW o \in Operators, Quit(o)
       PROVE  RecordsTyped' /\ WorkIsDelivered'
  BY <1>12, <1>5, <1>t DEF Quit, RecordsTyped, queueVars
<1>13. ASSUME NEW j \in Jobs, Produce(j) \/ SurfaceJob(j)
       PROVE  RecordsTyped' /\ WorkIsDelivered'
  BY <1>13, <1>11 DEF Produce, SurfaceJob, Enqueue, Surface, letters
<1>14. CASE Tick \/ Shutdown \/ DrainTimeout \/ Return \/ UNCHANGED poolVars
  BY <1>14, <1>11
     DEF Tick, Shutdown, DrainTimeout, Return, poolVars, queueVars, letters
<1>15. QED
  BY <1>2, <1>3, <1>4, <1>6, <1>7, <1>9, <1>10, <1>12, <1>13, <1>14 DEF PoolNext
-----------------------------------------------------------------------------
\* Redrive keeps its word: PutBack begins a round after the record's, and
\* between that and Resolve a record only gets another number of cycles.
LEMMA RedriveInvInductive ==
  ListInv /\ DeliveryInv /\ RedriveInv /\ [PoolNext]_poolVars => RedriveInv'
<1> SUFFICES ASSUME ListInv, DeliveryInv, RedriveInv, [PoolNext]_poolVars
             PROVE  RedriveInv'
  OBVIOUS
<1>y. RecordsTyped' /\ WorkIsDelivered'
  BY RecordsTypedInductive DEF RedriveInv
<1>t. /\ record \in [Jobs -> Letter \union {NoRecord}]
      /\ op \in [Operators -> Errand \union {Idle}]
      /\ slip \in [Jobs -> BOOLEAN]
      /\ held \in [Workers -> Delivery \union {None}]
      /\ round \in [Jobs -> Nat] /\ round' \in [Jobs -> Nat]
  BY <1>y, PoolStepsTheQueue, ListInvInductive
     DEF RedriveInv, RecordsTyped, ListInv, QueueTypeOK
<1>g. \A j \in Jobs : round'[j] \in Nat /\ round[j] \in Nat /\ round'[j] >= round[j]
  BY <1>t, PoolStepsTheQueue, RoundsGrow DEF RedriveInv
<1>r. \A j \in Jobs : record[j] # NoRecord =>
        /\ record[j] \in Letter
        /\ record[j].cycles \in Nat /\ record[j].round \in Nat
        /\ record[j].round <= round[j]
  BY <1>t DEF RedriveInv, ParkedInARound, Letter
<1>e. \A o \in Operators : op[o].pc # "idle" =>
        /\ op[o] \in Errand /\ op[o].job \in Jobs /\ op[o].cycles \in Nat
        /\ record[op[o].job] # NoRecord
        /\ op[o].cycles <= record[op[o].job].cycles
        /\ op[o].pc = "resolve" /\ ~op[o].early
           /\ op[o].cycles = record[op[o].job].cycles
             => round[op[o].job] > record[op[o].job].round
  BY <1>t DEF RedriveInv, LookIsPast, Errand, Idle
<1>l. \A j \in Jobs :
        record[j] # NoRecord /\ record[j].status = "redriven" /\ ~slip[j]
          => round[j] > record[j].round
  BY DEF RedriveInv, RedriveIsNotLost
\* A step may change statuses and end errands: cycles and rounds stay.
<1>1. ASSUME \A j \in Jobs :
               /\ record[j] # NoRecord <=> record'[j] # NoRecord
               /\ record[j] # NoRecord => /\ record'[j].cycles = record[j].cycles
                                      /\ record'[j].round = record[j].round,
             \A o \in Operators : op'[o] = op[o] \/ op'[o] = Idle
      PROVE  ParkedInARound' /\ LookIsPast'
  <2>1. ParkedInARound'
    BY <1>1, <1>g, <1>r DEF ParkedInARound
  <2>2. ASSUME NEW o \in Operators, op'[o].pc # "idle"
        PROVE  op'[o] = op[o]
    BY <1>1, <2>2 DEF Idle
  <2>3. LookIsPast'
    BY <1>1, <2>2, <1>e, <1>g, <1>r DEF LookIsPast
  <2>4. QED
    BY <2>1, <2>3
<1>2. ASSUME UNCHANGED <<record, slip>>
      PROVE  RedriveIsNotLost'
  BY <1>2, <1>g, <1>l, <1>r DEF RedriveIsNotLost
<1>3. ASSUME UNCHANGED <<record, slip, op>>
      PROVE  RedriveInv'
  BY <1>1, <1>2, <1>3, <1>y DEF RedriveInv
<1>4. ASSUME NEW w \in Workers, Park(w)
      PROVE  RedriveInv'
  <2>1. CASE Parked(Job(w))
    <3>1. UNCHANGED <<record, slip, op>>
      BY <1>4, <2>1 DEF Park
    <3>2. QED
      BY <3>1, <1>3
  <2>2. CASE ~Parked(Job(w))
    <3>1. held[w] \in Delivery
      BY <1>4, <1>t DEF Park, At, Working, RedriveInv, WorkIsDelivered
    <3>2. PICK j \in Jobs : j = Job(w)
      BY <3>1 DEF Job, Delivery
    <3>3. held[w].round \in Nat /\ held[w].round <= round[j]
      BY <3>1, <3>2, NoneIsNoDelivery DEF DeliveryInv, RoundHasBegun, Job, Delivery
    <3>4. PICK c : c = IF record[j] = NoRecord THEN 0 ELSE record[j].cycles
      OBVIOUS
    <3>5. /\ c \in Nat
          /\ record' = [record EXCEPT
               ![j] = [status |-> "parked", cycles |-> c + 1,
                       round |-> held[w].round]]
          /\ UNCHANGED <<op, slip, round>>
      BY <1>4, <2>2, <3>2, <3>4, <1>r DEF Park, queueVars
    <3>6. /\ record'[j].cycles = c + 1
          /\ record'[j].round = held[w].round
          /\ record'[j].status = "parked"
          /\ \A i \in Jobs : i # j => record'[i] = record[i]
      BY <3>5, <1>t
    <3>7. record'[j] # NoRecord
      <4>1. [status |-> "parked", cycles |-> c + 1, round |-> held[w].round]
              \in Letter
        BY <3>3, <3>5 DEF Letter
      <4>2. QED
        BY <4>1, <3>5, <1>t, NoRecordIsNoLetter
    <3>8. ParkedInARound'
      BY <3>3, <3>5, <3>6, <1>r DEF ParkedInARound
    <3>9. LookIsPast'
      <4> SUFFICES ASSUME NEW o \in Operators, op[o].pc # "idle"
                   PROVE  /\ record'[op[o].job] # NoRecord
                          /\ op[o].cycles <= record'[op[o].job].cycles
                          /\ op[o].pc = "resolve" /\ ~op[o].early
                             /\ op[o].cycles = record'[op[o].job].cycles
                               => round[op[o].job] > record'[op[o].job].round
        BY <3>5 DEF LookIsPast
      <4>1. CASE op[o].job = j
        <5>1. op[o].cycles <= c /\ op[o].cycles \in Nat
          BY <4>1, <3>4, <1>e
        <5>2. op[o].cycles <= c + 1 /\ op[o].cycles # c + 1
          BY <5>1, <3>5
        <5>3. QED
          BY <4>1, <5>2, <3>6, <3>7
      <4>2. CASE op[o].job # j
        BY <4>2, <3>6, <1>e
      <4>3. QED
        BY <4>1, <4>2
    <3>10. RedriveIsNotLost'
      BY <3>5, <3>6, <1>l DEF RedriveIsNotLost
    <3>11. QED
      BY <3>8, <3>9, <3>10, <1>y DEF RedriveInv
  <2>3. QED
    BY <2>1, <2>2
<1>5. ASSUME NEW w \in Workers, GoOn(w)
      PROVE  RedriveInv'
  <2>1. CASE Park(w)
    BY <2>1, <1>4
  <2>2. CASE ~Park(w)
    <3>1. UNCHANGED letters
      BY <1>5, <2>2 DEF GoOn, Loop, LeaseJob, NoJob, Process, AckJob, NackJob,
                        Block, TakeToken
    <3>2. QED
      BY <3>1, <1>3 DEF letters
  <2>3. QED
    BY <2>1, <2>2
<1>6. ASSUME NEW w \in Workers, Waits(w) \/ Panic(w)
      PROVE  RedriveInv'
  <2>1. UNCHANGED letters
    BY <1>6 DEF Waits, TakeSlot, Unblock, Wake, Cancel, Sent, Panic
  <2>2. QED
    BY <2>1, <1>3 DEF letters
<1>7. ASSUME NEW o \in Operators, NEW j \in Jobs, Look(o, j)
      PROVE  RedriveInv'
  <2>1. /\ UNCHANGED <<record, slip, round>>
        /\ record[j] # NoRecord
        /\ op'[o] = [pc |-> "enqueue", job |-> j, early |-> FALSE,
                     cycles |-> record[j].cycles]
        /\ \A p \in Operators : p # o => op'[p] = op[p]
    BY <1>7, <1>t DEF Look, Parked, queueVars
  <2>2. ParkedInARound'
    BY <2>1 DEF RedriveInv, ParkedInARound
  <2>3. LookIsPast'
    <3>1. record[j].cycles \in Nat
      BY <2>1, <1>r
    <3>2. QED
      BY <2>1, <3>1, <1>e DEF LookIsPast
  <2>4. QED
    BY <2>1, <2>2, <2>3, <1>2, <1>y DEF RedriveInv
<1>8. ASSUME NEW o \in Operators, PutBack(o)
      PROVE  RedriveInv'
  <2>1. op[o] \in Errand /\ op[o].pc = "enqueue"
    BY <1>8, <1>t DEF PutBack, Idle
  <2>2. PICK j \in Jobs : j = op[o].job
    BY <2>1 DEF Errand
  <2>3. PICK b \in BOOLEAN : b = (/\ slot[j] # None
                                /\ round[j] = record[j].round)
    OBVIOUS
  <2>4. /\ UNCHANGED <<record, slip>>
        /\ op' = [op EXCEPT ![o] = [op[o] EXCEPT !.pc = "resolve", !.early = b]]
    BY <1>8, <2>2, <2>3 DEF PutBack
  <2>5. /\ op'[o].job = j /\ op'[o].early = b /\ op'[o].cycles = op[o].cycles
        /\ \A p \in Operators : p # o => op'[p] = op[p]
    BY <2>1, <2>2, <2>4, <1>t DEF Errand
  <2>6. ~b => round'[j] = round[j] + 1 \/ round[j] # record[j].round
    BY <1>8, <2>2, <2>3, <1>t DEF PutBack, Enqueue
  <2>7. /\ record[j] # NoRecord
        /\ op[o].cycles <= record[j].cycles
        /\ ~b => round'[j] > record[j].round
    BY <2>1, <2>2, <2>6, <1>e, <1>g, <1>r
  <2>8. ParkedInARound'
    BY <2>4, <1>g, <1>r DEF ParkedInARound
  <2>9. LookIsPast'
    <3> SUFFICES ASSUME NEW p \in Operators, op'[p].pc # "idle"
                 PROVE  /\ record[op'[p].job] # NoRecord
                        /\ op'[p].cycles <= record[op'[p].job].cycles
                        /\ op'[p].pc = "resolve" /\ ~op'[p].early
                           /\ op'[p].cycles = record[op'[p].job].cycles
                             => round'[op'[p].job] > record[op'[p].job].round
      BY <2>4 DEF LookIsPast
    <3>1. CASE p = o
      BY <3>1, <2>5, <2>7
    <3>2. CASE p # o
      BY <3>2, <2>5, <1>e, <1>g, <1>r
    <3>3. QED
      BY <3>1, <3>2
  <2>10. QED
    BY <2>4, <2>8, <2>9, <1>2, <1>y DEF RedriveInv
\* A record that changes nothing but its status.
<1>9. ASSUME NEW j \in Jobs, record[j] # NoRecord, NEW s \in {"redriven", "dropped"},
             record' = [record EXCEPT ![j].status = s]
      PROVE  /\ record'[j].status = s
             /\ \A i \in Jobs : i # j => record'[i] = record[i]
             /\ \A i \in Jobs :
                  /\ record[i] # NoRecord <=> record'[i] # NoRecord
                  /\ record[i] # NoRecord => /\ record'[i].cycles = record[i].cycles
                                         /\ record'[i].round = record[i].round
  <2>1. record[j] \in Letter /\ [record[j] EXCEPT !.status = s] \in Letter
    BY <1>9, <1>r DEF Letter
  <2>2. record' = [record EXCEPT ![j] = [record[j] EXCEPT !.status = s]]
    BY <1>9
  <2>3. /\ record'[j] = [record[j] EXCEPT !.status = s]
        /\ \A i \in Jobs : i # j => record'[i] = record[i]
    BY <2>2, <1>t
  <2>4. record'[j] # NoRecord
    BY <2>1, <2>3, NoRecordIsNoLetter
  <2>5. /\ record'[j].status = s
        /\ record'[j].cycles = record[j].cycles
        /\ record'[j].round = record[j].round
    BY <2>1, <2>3 DEF Letter
  <2>6. QED
    BY <1>9, <2>3, <2>4, <2>5
<1>10. ASSUME NEW o \in Operators, Resolve(o)
       PROVE  RedriveInv'
  <2>1. op[o] \in Errand /\ op[o].pc = "resolve"
    BY <1>10, <1>t DEF Resolve, Idle
  <2>2. PICK j \in Jobs : j = op[o].job
    BY <2>1 DEF Errand
  <2>3. /\ UNCHANGED round
        /\ \A p \in Operators : op'[p] = op[p] \/ op'[p] = Idle
    BY <1>10, <1>t DEF Resolve, queueVars
  <2>4. CASE Parked(j)
    <3>1. /\ record[j] # NoRecord
          /\ record' = [record EXCEPT ![j].status = "redriven"]
          /\ slip' = [slip EXCEPT ![j] = \/ op[o].early
                                      \/ record[j].cycles # op[o].cycles]
      BY <1>10, <2>2, <2>4 DEF Resolve, Parked
    <3>2. /\ \A i \in Jobs : i # j => record'[i] = record[i]
          /\ \A i \in Jobs :
               /\ record[i] # NoRecord <=> record'[i] # NoRecord
               /\ record[i] # NoRecord => /\ record'[i].cycles = record[i].cycles
                                      /\ record'[i].round = record[i].round
      BY <3>1, <1>9
    <3>3. ParkedInARound' /\ LookIsPast'
      BY <3>2, <2>3, <1>1
    <3>4. RedriveIsNotLost'
      <4>1. ~slip'[j] => round[j] > record[j].round
        BY <3>1, <2>1, <2>2, <1>e, <1>t
      <4>2. \A i \in Jobs : i # j => slip'[i] = slip[i]
        BY <3>1, <1>t
      <4>3. QED
        BY <4>1, <4>2, <3>2, <2>3, <1>l DEF RedriveIsNotLost
    <3>5. QED
      BY <3>3, <3>4, <1>y DEF RedriveInv
  <2>5. CASE ~Parked(j)
    <3>1. UNCHANGED <<record, slip>>
      BY <1>10, <2>2, <2>5 DEF Resolve
    <3>2. QED
      BY <3>1, <2>3, <1>1, <1>2, <1>y DEF RedriveInv
  <2>6. QED
    BY <2>4, <2>5
<1>11. ASSUME NEW o \in Operators, Quit(o)
       PROVE  RedriveInv'
  <2>1. /\ UNCHANGED <<record, slip>>
        /\ \A p \in Operators : op'[p] = op[p] \/ op'[p] = Idle
    BY <1>11, <1>t DEF Quit
  <2>2. QED
    BY <2>1, <1>1, <1>2, <1>y DEF RedriveInv
<1>12. ASSUME NEW j \in Jobs, DropLetter(j)
       PROVE  RedriveInv'
  <2>1. /\ record[j] # NoRecord
        /\ record' = [record EXCEPT ![j].status = "dropped"]
        /\ UNCHANGED <<op, slip, round>>
    BY <1>12 DEF DropLetter, Parked, queueVars
  <2>2. /\ record'[j].status = "dropped"
        /\ \A i \in Jobs : i # j => record'[i] = record[i]
        /\ \A i \in Jobs :
             /\ record[i] # NoRecord <=> record'[i] # NoRecord
             /\ record[i] # NoRecord => /\ record'[i].cycles = record[i].cycles
                                    /\ record'[i].round = record[i].round
    BY <2>1, <1>9
  <2>3. RedriveIsNotLost'
    BY <2>1, <2>2, <1>l DEF RedriveIsNotLost
  <2>4. QED
    BY <2>1, <2>2, <2>3, <1>1, <1>y DEF RedriveInv
<1>13. ASSUME NEW j \in Jobs, Produce(j) \/ SurfaceJob(j)
       PROVE  RedriveInv'
  BY <1>13, <1>3 DEF Produce, SurfaceJob, letters
<1>14. CASE Tick \/ Shutdown \/ DrainTimeout \/ Return \/ UNCHANGED poolVars
  BY <1>14, <1>3 DEF Tick, Shutdown, DrainTimeout, Return, poolVars, letters
<1>15. QED
  BY <1>5, <1>6, <1>7, <1>8, <1>10, <1>11, <1>12, <1>13, <1>14 DEF PoolNext
-----------------------------------------------------------------------------
\* Everything the steps need of each other.
PoolInv == ListInv /\ DeliveryInv /\ ThrottleInv /\ RedriveInv

LEMMA PoolInitInv == PoolInit => PoolInv
<1> SUFFICES ASSUME PoolInit PROVE PoolInv
  OBVIOUS
<1>1. ListInv
  <2>1. QueueTypeOK
    BY DEF PoolInit, Init, QueueTypeOK
  <2>2. DOMAIN order = {}
    BY DEF PoolInit, Init
  <2>3. QED
    BY <2>1, <2>2
       DEF PoolInit, Init, ListInv, OrderListsTheJobs, ToSet, IsInjective
<1>2. DeliveryInv
  BY DEF PoolInit, Init, DeliveryInv, RoundHasBegun, AttemptIsCounted,
         DeliveriesDiffer
<1>3. ThrottleInv
  <2>1. ThrottleTyped /\ Burst \in Nat
    BY PoolAssumption DEF PoolInit, ThrottleTyped
  <2>2. Busy = {}
    BY DEF PoolInit, Busy, At
  <2>3. SlotsAreHeld
    BY <2>2, FS_EmptySet DEF PoolInit, SlotsAreHeld
  <2>4. \A n \in Nat : Cardinality(AsleepFor(n)) \in Nat
    BY CountsAreNumbers DEF AsleepFor
  <2>5. TokensAreOwed
    BY <2>1, <2>4 DEF PoolInit, TokensAreOwed
  <2>6. QED
    BY <2>1, <2>3, <2>5 DEF ThrottleInv
<1>4. RedriveInv
  BY DEF PoolInit, RedriveInv, RecordsTyped, WorkIsDelivered, Working, At,
         ParkedInARound, LookIsPast, RedriveIsNotLost, Idle
<1>5. QED
  BY <1>1, <1>2, <1>3, <1>4 DEF PoolInv

LEMMA PoolInvHolds == PoolSpec => []PoolInv
<1>1. PoolInv /\ [PoolNext]_poolVars => PoolInv'
  BY PoolStepsTheQueue, ListInvInductive, DeliveryInvInductive,
     ThrottleInvInductive, RedriveInvInductive DEF PoolInv, RedriveInv
<1>2. QED
  BY <1>1, PoolInitInv, PTL DEF PoolSpec

\* With its own steps hidden the pool is the queue: Run, the throttle and
\* Redrive call Lease, Ack, Nack and Enqueue only where the queue lets them.
LEMMA PoolUsesTheQueue == PoolSpec => Spec
<1>1. PoolInit => Init
  BY DEF PoolInit
<1>2. PoolInv /\ [PoolNext]_poolVars => [Next]_queueVars
  BY PoolStepsTheQueue DEF PoolInv, RedriveInv
<1>3. QED
  BY <1>1, <1>2, PoolInvHolds, PTL DEF PoolSpec, Spec

\* So of the receipts that workers of the pool hold for a job, one a round is
\* good (MemoryQueue.locate), whatever stop, panic or redrive did to the job.
THEOREM PoolHasOneReceipt == PoolSpec => []OneReceiptARound
BY PoolUsesTheQueue, OneReceiptIsGood, PTL

\* And the order of the queue under the pool lists the jobs in it, once.
THEOREM PoolKeepsTheOrder == PoolSpec => []OrderListsTheJobs
BY PoolUsesTheQueue, OrderIsTheJobs, PTL

\* Acquire and Release keep the throttle whole, for every number of
\* goroutines, every capacity and every order of cancellations: slots taken
\* are slots in use, and tokens lent are owed by goroutines asleep.
THEOREM ThrottleStaysWhole == PoolSpec => []ThrottleIsWhole
<1>1. PoolInv => ThrottleIsWhole
  <2> SUFFICES ASSUME PoolInv PROVE ThrottleIsWhole
    OBVIOUS
  <2>1. PICK S \in SUBSET Workers : S = {w \in Workers : At(w, {"sleep"})}
    OBVIOUS
  <2>2. AsleepFor(0) \in SUBSET S
    BY <2>1 DEF AsleepFor
  <2>3. IsFiniteSet(S) /\ Cardinality(S) \in Nat
    BY CountsAreNumbers
  <2>4. Cardinality(AsleepFor(0)) \in Nat
    BY CountsAreNumbers DEF AsleepFor
  <2>5. Cardinality(AsleepFor(0)) <= Cardinality(S)
    BY <2>2, <2>3, FS_Subset
  <2>6. -tokens - 0 <= Cardinality(AsleepFor(0)) /\ tokens \in Int
    BY DEF PoolInv, ThrottleInv, ThrottleTyped, TokensAreOwed
  <2>7. -tokens <= Cardinality(S)
    BY <2>3, <2>4, <2>5, <2>6
  <2>8. QED
    BY <2>1, <2>7 DEF PoolInv, ThrottleInv, SlotsAreHeld, Busy, ThrottleIsWhole
<1>2. QED
  BY <1>1, PoolInvHolds, PTL

\* Redrive loses no job outside its two exceptions: a record that says
\* redriven stands for a round that began after the record was made.
THEOREM RedriveLosesNothing == PoolSpec => []RedriveIsNotLost
<1>1. PoolInv => RedriveIsNotLost
  BY DEF PoolInv, RedriveInv
<1>2. QED
  BY <1>1, PoolInvHolds, PTL
-----------------------------------------------------------------------------
\* No letter is ever taken away.
LEMMA LettersStay ==
  ListInv /\ RecordsTyped /\ WorkIsDelivered /\ [PoolNext]_poolVars
    => \A j \in Jobs : record[j] # NoRecord => record'[j] # NoRecord
<1> SUFFICES ASSUME ListInv, RecordsTyped, WorkIsDelivered, [PoolNext]_poolVars,
                    NEW i \in Jobs, record[i] # NoRecord
             PROVE  record'[i] # NoRecord
  OBVIOUS
<1>t. /\ record \in [Jobs -> Letter \union {NoRecord}]
      /\ record[i] \in Letter
      /\ held \in [Workers -> Delivery \union {None}]
  BY DEF RecordsTyped, ListInv, QueueTypeOK
<1>1. ASSUME NEW j \in Jobs, NEW s \in {"redriven", "dropped"},
             record' = [record EXCEPT ![j].status = s]
      PROVE  record'[i] # NoRecord
  <2>1. [record[i] EXCEPT !.status = s] \in Letter
    BY <1>t DEF Letter
  <2>2. record'[i] = record[i] \/ record'[i] = [record[i] EXCEPT !.status = s]
    BY <1>1, <1>t
  <2>3. QED
    BY <2>1, <2>2, NoRecordIsNoLetter
<1>2. ASSUME NEW w \in Workers, Park(w)
      PROVE  record'[i] # NoRecord
  <2>1. held[w] \in Delivery
    BY <1>2, <1>t DEF Park, At, Working, WorkIsDelivered
  <2>2. PICK c : c = IF record[Job(w)] = NoRecord THEN 0 ELSE record[Job(w)].cycles
    OBVIOUS
  <2>3. c \in Nat /\ Job(w) \in Jobs
    BY <2>1, <2>2, <1>t DEF Letter, Job, Delivery
  <2>4. [status |-> "parked", cycles |-> c + 1, round |-> held[w].round] \in Letter
    BY <2>1, <2>3 DEF Letter, Delivery
  <2>5. \/ record' = record
        \/ record' = [record EXCEPT ![Job(w)] =
              [status |-> "parked", cycles |-> c + 1, round |-> held[w].round]]
    BY <1>2, <2>2 DEF Park
  <2>6. QED
    BY <2>4, <2>5, <1>t, NoRecordIsNoLetter
<1>3. ASSUME NEW o \in Operators, Resolve(o)
      PROVE  record'[i] # NoRecord
  <2>1. op[o] \in Errand /\ op[o].job \in Jobs
    BY <1>3 DEF Resolve, RecordsTyped, Idle, Errand
  <2>2. record' = record \/ record' = [record EXCEPT ![op[o].job].status = "redriven"]
    BY <1>3 DEF Resolve
  <2>3. QED
    BY <2>1, <2>2, <1>1
<1>4. ASSUME NEW j \in Jobs, DropLetter(j)
      PROVE  record'[i] # NoRecord
  BY <1>4, <1>1 DEF DropLetter
<1>5. ASSUME UNCHANGED record
      PROVE  record'[i] # NoRecord
  BY <1>5
<1>6. ASSUME NEW w \in Workers, GoOn(w) \/ Waits(w) \/ Panic(w)
      PROVE  record'[i] # NoRecord
  BY <1>6, <1>2, <1>5
     DEF GoOn, Loop, LeaseJob, NoJob, Process, AckJob, NackJob, Block,
         TakeToken, Waits, TakeSlot, Unblock, Wake, Cancel, Sent, Panic, letters
<1>7. ASSUME NEW o \in Operators,
             (\E j \in Jobs : Look(o, j)) \/ PutBack(o) \/ Quit(o)
      PROVE  record'[i] # NoRecord
  BY <1>7, <1>5 DEF Look, PutBack, Quit
<1>8. ASSUME NEW j \in Jobs, Produce(j) \/ SurfaceJob(j)
      PROVE  record'[i] # NoRecord
  BY <1>8, <1>5 DEF Produce, SurfaceJob, letters
<1>9. CASE Tick \/ Shutdown \/ DrainTimeout \/ Return \/ UNCHANGED poolVars
  BY <1>9, <1>5 DEF Tick, Shutdown, DrainTimeout, Return, poolVars, letters
<1>10. QED
  BY <1>3, <1>4, <1>6, <1>7, <1>8, <1>9 DEF PoolNext

LEMMA ParkedBeforeAckInductive ==
  ListInv /\ RecordsTyped /\ WorkIsDelivered /\ ParkedBeforeAck
    /\ [PoolNext]_poolVars => ParkedBeforeAck'
<1> SUFFICES ASSUME ListInv, RecordsTyped, WorkIsDelivered, ParkedBeforeAck,
                    [PoolNext]_poolVars
             PROVE  ParkedBeforeAck'
  OBVIOUS
<1>t. /\ at \in [Workers -> {"loop", "lease", "gone"} \union Working]
      /\ held \in [Workers -> Delivery \union {None}]
      /\ record \in [Jobs -> Letter \union {NoRecord}]
  BY DEF RecordsTyped, ListInv, QueueTypeOK
<1>d. ASSUME NEW v \in Workers, At(v, Working)
      PROVE  held[v] \in Delivery /\ Job(v) \in Jobs
  BY <1>d, <1>t DEF WorkIsDelivered, Job, Delivery
<1>k. ASSUME NEW v \in Workers, At(v, {"ack"}), held'[v] = held[v]
      PROVE  record'[Job(v)'] # NoRecord
  <2>1. record[Job(v)] # NoRecord /\ Job(v) \in Jobs
    BY <1>k, <1>d DEF ParkedBeforeAck, At, Working
  <2>2. QED
    BY <2>1, <1>k, LettersStay DEF Job
\* Goroutine w moves, and to no Ack; the others keep place and delivery.
<1>1. ASSUME NEW w \in Workers, NEW pc, Goto(w, pc), pc # "ack",
             \A v \in Workers : v # w => held'[v] = held[v]
      PROVE  ParkedBeforeAck'
  <2> SUFFICES ASSUME NEW v \in Workers, at'[v] = "ack"
               PROVE  record'[Job(v)'] # NoRecord
    BY DEF ParkedBeforeAck, At
  <2>1. v # w /\ at[v] = "ack"
    BY <1>1, <1>t DEF Goto
  <2>2. QED
    BY <2>1, <1>1, <1>k DEF At
<1>2. ASSUME UNCHANGED <<at, held>>
      PROVE  ParkedBeforeAck'
  BY <1>2, <1>k DEF ParkedBeforeAck, At
<1>3. ASSUME NEW w \in Workers, GoOn(w) \/ Waits(w) \/ Panic(w)
      PROVE  ParkedBeforeAck'
  <2>1. CASE Park(w)
    <3>1. held[w] \in Delivery /\ Job(w) \in Jobs /\ UNCHANGED held /\ Goto(w, "ack")
      BY <2>1, <1>d DEF Park, At, Working, queueVars
    <3>2. record'[Job(w)] # NoRecord
      <4>1. CASE record[Job(w)] # NoRecord
        BY <4>1, <3>1, LettersStay
      <4>2. CASE record[Job(w)] = NoRecord
        <5>1. record'[Job(w)] = [status |-> "parked", cycles |-> 1,
                                 round |-> held[w].round]
          BY <2>1, <4>2, <3>1, <1>t DEF Park, Parked
        <5>2. [status |-> "parked", cycles |-> 1, round |-> held[w].round] \in Letter
          BY <3>1 DEF Letter, Delivery
        <5>3. QED
          BY <5>1, <5>2, NoRecordIsNoLetter
      <4>3. QED
        BY <4>1, <4>2
    <3>3. ASSUME NEW v \in Workers, at'[v] = "ack"
          PROVE  record'[Job(v)'] # NoRecord
      <4>1. CASE v = w
        BY <4>1, <3>1, <3>2 DEF Job
      <4>2. CASE v # w
        BY <4>2, <3>1, <3>3, <1>k, <1>t DEF Goto, At
      <4>3. QED
        BY <4>1, <4>2
    <3>4. QED
      BY <3>3 DEF ParkedBeforeAck, At
  <2>2. CASE LeaseJob(w)
    <3>1. Goto(w, "work") /\ \A v \in Workers : v # w => held'[v] = held[v]
      BY <2>2, <1>t DEF LeaseJob, Lease
    <3>2. QED
      BY <3>1, <1>1
  <2>3. CASE AckJob(w) \/ NackJob(w) \/ Panic(w)
    <3>1. held' = [held EXCEPT ![w] = None] /\ Goto(w, "loop")
      BY <2>3 DEF AckJob, NackJob, Panic, Ack, Nack, Drop
    <3>2. QED
      BY <3>1, <1>1, <1>t
  <2>4. CASE Loop(w) \/ NoJob(w) \/ Process(w) \/ Block(w) \/ TakeToken(w) \/ Waits(w)
    <3>1. UNCHANGED held /\ \E pc : pc # "ack" /\ Goto(w, pc)
      BY <2>4 DEF Loop, NoJob, Process, Block, TakeToken, Waits, TakeSlot,
                  Unblock, Wake, Cancel, Sent, queueVars
    <3>2. QED
      BY <3>1, <1>1
  <2>5. QED
    BY <1>3, <2>1, <2>2, <2>3, <2>4 DEF GoOn
<1>4. ASSUME NEW o \in Operators,
             (\E j \in Jobs : Look(o, j)) \/ PutBack(o) \/ Resolve(o) \/ Quit(o)
      PROVE  ParkedBeforeAck'
  BY <1>4, <1>2 DEF Look, PutBack, Resolve, Quit, Enqueue, queueVars
<1>5. ASSUME NEW j \in Jobs, DropLetter(j) \/ Produce(j) \/ SurfaceJob(j)
      PROVE  ParkedBeforeAck'
  BY <1>5, <1>2 DEF DropLetter, Produce, SurfaceJob, Enqueue, Surface, queueVars
<1>6. CASE Tick \/ Shutdown \/ DrainTimeout \/ Return \/ UNCHANGED poolVars
  BY <1>6, <1>2 DEF Tick, Shutdown, DrainTimeout, Return, poolVars, queueVars
<1>7. QED
  BY <1>3, <1>4, <1>5, <1>6 DEF PoolNext

\* What a step that empties the slot of a job is: the Ack of one who may.
LEMMA WhoEmptiesTheSlot ==
  ListInv /\ ParkedBeforeAck /\ [PoolNext]_poolVars
    => \A j \in Jobs : slot[j] # None /\ slot'[j] = None => WorkedOff(j)
<1> SUFFICES ASSUME ListInv, ParkedBeforeAck, [PoolNext]_poolVars,
                    NEW j \in Jobs, slot[j] # None, slot'[j] = None
             PROVE  WorkedOff(j)
  OBVIOUS
<1>t. slot \in [Jobs -> Slot \union {None}] /\ slot[j] \in Slot
  BY DEF ListInv, QueueTypeOK
<1>1. slot' # slot
  OBVIOUS
<1>2. ASSUME NEW i \in Jobs, NEW s \in Slot, slot' = [slot EXCEPT ![i] = s]
      PROVE  FALSE
  BY <1>2, <1>t, NoneIsNoSlot
<1>3. ASSUME NEW i \in Jobs, NEW v \in {"ready", "delayed", "leased"},
             slot[i] # None, slot' = [slot EXCEPT ![i].vis = v]
      PROVE  FALSE
  <2>1. slot[i] \in Slot /\ [slot[i] EXCEPT !.vis = v] \in Slot
    BY <1>3, <1>t DEF Slot
  <2>2. QED
    BY <2>1, <1>3, <1>2
<1>4. ASSUME NEW i \in Jobs, Enqueue(i) \/ Surface(i)
      PROVE  FALSE
  <2>1. [attempt |-> 0, vis |-> "ready"] \in Slot
    BY DEF Slot
  <2>2. QED
    BY <1>4, <2>1, <1>2, <1>3 DEF Enqueue, Surface
<1>5. ASSUME NEW w \in Workers, AckJob(w)
      PROVE  WorkedOff(j)
  <2>1. /\ held[w] # None /\ slot' = [slot EXCEPT ![Job(w)] = None]
        /\ At(w, {"done", "ack"})
    BY <1>5, <1>1 DEF AckJob, Ack, Drop, Current, Job
  <2>2. Job(w) = j
    BY <2>1, <1>t
  <2>3. QED
    BY <2>1, <2>2 DEF ParkedBeforeAck, WorkedOff
<1>6. ASSUME NEW w \in Workers, NackJob(w)
      PROVE  FALSE
  <2>1. /\ slot[Job(w)] # None
        /\ slot' = [slot EXCEPT ![Job(w)].vis = "delayed"]
        /\ held[w] \in Delivery
    BY <1>6, <1>1 DEF NackJob, Nack, Drop, Current, Job, ListInv, QueueTypeOK
  <2>2. QED
    BY <2>1, <1>3 DEF Job, Delivery
<1>7. ASSUME NEW w \in Workers, LeaseJob(w)
      PROVE  FALSE
  <2>1. PICK i \in Jobs :
          /\ slot[i] \in Slot
          /\ slot' = [slot EXCEPT
                        ![i] = [attempt |-> slot[i].attempt + 1, vis |-> "leased"]]
    BY <1>7, LeaseFinds DEF LeaseJob
  <2>2. [attempt |-> slot[i].attempt + 1, vis |-> "leased"] \in Slot
    BY <2>1 DEF Slot
  <2>3. QED
    BY <2>1, <2>2, <1>2
<1>8. ASSUME NEW w \in Workers, GoOn(w) \/ Waits(w) \/ Panic(w)
      PROVE  AckJob(w)
  BY <1>8, <1>1, <1>6, <1>7
     DEF GoOn, Loop, NoJob, Process, Park, Block, TakeToken, Waits, TakeSlot,
         Unblock, Wake, Cancel, Sent, Panic, Drop, queueVars
<1>9. ASSUME NEW o \in Operators,
             (\E i \in Jobs : Look(o, i)) \/ PutBack(o) \/ Resolve(o) \/ Quit(o)
      PROVE  FALSE
  <2>1. PutBack(o) /\ Enqueue(op[o].job) /\ slot[op[o].job] = None
    BY <1>9, <1>1 DEF Look, PutBack, Resolve, Quit, queueVars
  <2>2. slot'[j] = slot[j] \/ slot'[j] = [attempt |-> 0, vis |-> "ready"]
    BY <2>1, <1>t DEF Enqueue
  <2>3. [attempt |-> 0, vis |-> "ready"] \in Slot
    BY DEF Slot
  <2>4. QED
    BY <2>2, <2>3, NoneIsNoSlot
<1>10. ASSUME NEW i \in Jobs, DropLetter(i) \/ Produce(i) \/ SurfaceJob(i)
       PROVE  FALSE
  BY <1>10, <1>1, <1>4 DEF DropLetter, Produce, SurfaceJob, queueVars
<1>11. CASE Tick \/ Shutdown \/ DrainTimeout \/ Return \/ UNCHANGED poolVars
  BY <1>11, <1>1 DEF Tick, Shutdown, DrainTimeout, Return, poolVars, queueVars
<1>12. QED
  BY <1>5, <1>8, <1>9, <1>10, <1>11 DEF PoolNext

\* No job leaves the queue but by the Ack of a worker that saw its process
\* end, or that has the job on record with the dead letters.
THEOREM OnlyDoneJobsLeave == PoolSpec => JobsLeaveWorkedOff
<1>1. PoolInit => ParkedBeforeAck
  BY DEF PoolInit, ParkedBeforeAck, At
<1>2. PoolInv /\ ParkedBeforeAck /\ [PoolNext]_poolVars => ParkedBeforeAck'
  BY ParkedBeforeAckInductive DEF PoolInv, RedriveInv
<1>3. PoolSpec => []ParkedBeforeAck
  BY <1>1, <1>2, PoolInvHolds, PTL DEF PoolSpec
<1>4. PoolInv /\ ParkedBeforeAck /\ [PoolNext]_poolVars
        => [\A j \in Jobs : slot[j] # None /\ slot'[j] = None => WorkedOff(j)]_poolVars
  BY WhoEmptiesTheSlot DEF PoolInv
<1>5. QED
  BY <1>3, <1>4, PoolInvHolds, PTL DEF PoolSpec, JobsLeaveWorkedOff
=============================================================================
