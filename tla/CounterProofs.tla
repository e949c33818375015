--------------------------- MODULE CounterProofs ---------------------------
(***************************************************************************)
(* Theorems of Counter, for every set of accounts and callers and every    *)
(* bound, and however Sync is used.                                        *)
(***************************************************************************)
EXTENDS Counter, TLAPS

\* What a reservation says of its account: a fill carries the gap's number;
\* a first send carries the number just behind the counter, and there is no
\* gap then, because Reserve answers ErrGap.
HeldShape ==
  \A h \in Holders : res[h] # None =>
    LET r == res[h]
    IN  IF r.fill THEN gap[r.acct] = r.value
                  ELSE gap[r.acct] = None /\ next[r.acct] = r.value + 1

\* A gap is a number that may have been sent.
GapLive == \A a \in Accounts : gap[a] # None => gap[a] \in live[a]

CounterInv ==
  CounterTypeOK /\ Outstanding /\ HeldShape /\ GapLive /\ NoNumberDropped

\* The counter, and the number of a first send, lie past every live number
\* that no Sync has taken the counter back over.
LiveBehind ==
  /\ \A a \in Accounts : \A n \in live[a] \ undone[a] : n < next[a]
  /\ \A h \in Holders : res[h] # None /\ ~res[h].fill =>
       \A n \in live[res[h].acct] \ undone[res[h].acct] : n < res[h].value

-----------------------------------------------------------------------------
\* Counter's state has the types of account, Reservation and their maps.
LEMMA CounterStepTyped ==
  CounterTypeOK /\ [Next]_counterVars => CounterTypeOK'
<1> SUFFICES ASSUME CounterTypeOK, [Next]_counterVars
             PROVE  CounterTypeOK'
  OBVIOUS
<1> USE CounterAssumption DEF CounterTypeOK
<1>1. ASSUME NEW h \in Holders, NEW a \in Accounts, Reserve(h, a)
      PROVE  CounterTypeOK'
  BY <1>1 DEF Reserve, Give, Reservation
<1>2. ASSUME NEW h \in Holders, NEW a \in Accounts, ReserveGap(h, a)
      PROVE  CounterTypeOK'
  BY <1>2 DEF ReserveGap, Give, ErrGap, Free, Reservation
<1>3. ASSUME NEW h \in Holders, NEW s \in Sent, Resolve(h, s)
      PROVE  CounterTypeOK'
  <2>1. res[h] \in Reservation
    BY <1>3 DEF Resolve
  <2>2. /\ NextAfter(res[h], s) \in Nat
        /\ GapAfter(res[h], s) \in Nat \union {None}
    BY <2>1 DEF NextAfter, GapAfter, Reservation
  <2>3. QED
    BY <1>3, <2>1, <2>2 DEF Resolve, Reservation
<1>4. ASSUME NEW a \in Accounts, Mine(a)
      PROVE  CounterTypeOK'
  BY <1>4 DEF Mine
<1>5. ASSUME NEW a \in Accounts, Sync(a)
      PROVE  CounterTypeOK'
  BY <1>5 DEF Sync, Pending
<1>6. CASE UNCHANGED counterVars
  BY <1>6 DEF counterVars
<1>7. QED
  BY <1>1, <1>2, <1>3, <1>4, <1>5, <1>6 DEF Next

\* Counter's state keeps its types.
LEMMA CounterTypeCorrect == Spec => []CounterTypeOK
<1>1. Init => CounterTypeOK
  BY CounterAssumption DEF Init, CounterTypeOK
<1>2. QED
  BY <1>1, CounterStepTyped, PTL DEF Spec

-----------------------------------------------------------------------------
\* The base invariant is inductive whatever Sync does.
LEMMA CounterInvInductive == CounterInv /\ [Next]_counterVars => CounterInv'
<1> SUFFICES ASSUME CounterInv, CounterTypeOK', [Next]_counterVars
             PROVE  (Outstanding /\ HeldShape /\ GapLive /\ NoNumberDropped)'
  BY CounterStepTyped DEF CounterInv
<1> USE CounterAssumption DEF CounterInv, CounterTypeOK
<1>1. ASSUME NEW h \in Holders, NEW a \in Accounts, Reserve(h, a)
      PROVE  (Outstanding /\ HeldShape /\ GapLive /\ NoNumberDropped)'
  <2> USE <1>1 DEF Reserve, Give, ErrNoGap, Free
  <2>1. \A g \in Holders : res[g] # None => res[g].acct # a
    BY DEF Outstanding, Reservation
  <2>2. Outstanding'
    BY <2>1 DEF Outstanding, Reservation
  <2>3. HeldShape'
    BY <2>1 DEF HeldShape, Reservation
  <2>4. GapLive'
    BY DEF GapLive
  <2>5. NoNumberDropped'
    BY DEF NoNumberDropped
  <2>6. QED
    BY <2>2, <2>3, <2>4, <2>5
<1>2. ASSUME NEW h \in Holders, NEW a \in Accounts, ReserveGap(h, a)
      PROVE  (Outstanding /\ HeldShape /\ GapLive /\ NoNumberDropped)'
  <2> USE <1>2 DEF ReserveGap, Give, ErrGap, Free
  <2>1. \A g \in Holders : res[g] # None => res[g].acct # a
    BY DEF Outstanding, Reservation
  <2>2. Outstanding'
    BY <2>1 DEF Outstanding, Reservation
  <2>3. HeldShape'
    BY <2>1 DEF HeldShape, Reservation
  <2>4. GapLive'
    BY DEF GapLive
  <2>5. NoNumberDropped'
    BY DEF NoNumberDropped
  <2>6. QED
    BY <2>2, <2>3, <2>4, <2>5
<1>3. ASSUME NEW h \in Holders, NEW s \in Sent, Resolve(h, s)
      PROVE  (Outstanding /\ HeldShape /\ GapLive /\ NoNumberDropped)'
  <2> DEFINE r == res[h]
  <2>0. r \in Reservation /\ r # None
    BY <1>3 DEF Resolve
  <2>1. \A g \in Holders : g # h /\ res[g] # None => res[g].acct # r.acct
    BY <1>3 DEF Resolve, Outstanding
  <2>2. Outstanding'
    BY <1>3, <2>0, <2>1 DEF Resolve, Outstanding, Reservation
  <2>3. HeldShape'
    BY <1>3, <2>0, <2>1 DEF Resolve, HeldShape, Reservation
  <2>4. GapLive'
    BY <1>3, <2>0 DEF Resolve, GapLive, GapAfter, Reservation
  <2>5. NoNumberDropped'
    <3> SUFFICES ASSUME NEW a \in Accounts, NEW n \in 0 .. next'[a] - 1
                 PROVE  n \in live'[a] \/ n = out'[a] \/ n < mined'[a]
      BY DEF NoNumberDropped
    <3>1. CASE a # r.acct
      BY <1>3, <2>0, <3>1 DEF Resolve, NoNumberDropped, Reservation
    <3>2. CASE a = r.acct
      <4>1. n \in 0 .. next[a] - 1 /\ (n = r.value => n \in live'[a])
        BY <1>3, <2>0, <3>2
           DEF Resolve, NextAfter, HeldShape, GapLive, Reservation
      <4>2. n \in live[a] \/ n = out[a] \/ n < mined[a]
        BY <4>1 DEF NoNumberDropped
      <4>3. QED
        BY <1>3, <2>0, <3>2, <4>1, <4>2 DEF Resolve, Reservation
    <3>3. QED
      BY <3>1, <3>2
  <2>6. QED
    BY <2>2, <2>3, <2>4, <2>5
<1>4. ASSUME NEW a \in Accounts, Mine(a)
      PROVE  (Outstanding /\ HeldShape /\ GapLive /\ NoNumberDropped)'
  BY <1>4 DEF Mine, Outstanding, HeldShape, GapLive, NoNumberDropped
<1>5. ASSUME NEW a \in Accounts, Sync(a)
      PROVE  (Outstanding /\ HeldShape /\ GapLive /\ NoNumberDropped)'
  <2> USE <1>5 DEF Sync, Free
  <2>1. \A g \in Holders : res[g] # None => res[g].acct # a
    BY DEF Outstanding, Reservation
  <2>2. Outstanding'
    BY DEF Outstanding
  <2>3. HeldShape'
    BY <2>1 DEF HeldShape, Reservation
  <2>4. GapLive'
    BY DEF GapLive
  <2>5. NoNumberDropped'
    BY DEF NoNumberDropped
  <2>6. QED
    BY <2>2, <2>3, <2>4, <2>5
<1>6. CASE UNCHANGED counterVars
  BY <1>6 DEF counterVars, Outstanding, HeldShape, GapLive, NoNumberDropped
<1>7. QED
  BY <1>1, <1>2, <1>3, <1>4, <1>5, <1>6 DEF Next

LEMMA CounterInvHolds == Spec => []CounterInv
<1>1. Init => CounterInv
  BY CounterAssumption
     DEF Init, CounterInv, CounterTypeOK, Outstanding, HeldShape, GapLive,
         NoNumberDropped
<1>2. QED
  BY <1>1, CounterInvInductive, PTL DEF Spec

\* Nothing takes a reservation away from its caller or gives it to a second
\* one: whatever Sync does, Resolve never answers ErrStale.
THEOREM ReservationStaysOutstanding == Spec => []Outstanding
<1>1. CounterInv => Outstanding
  BY DEF CounterInv
<1>2. QED
  BY <1>1, CounterInvHolds, PTL

\* Every number behind the counter was sent, may have been, is out, or is in
\* a block: handing numbers back never leaves one that nobody sent.
THEOREM NoNumberIsDropped == Spec => []NoNumberDropped
<1>1. CounterInv => NoNumberDropped
  BY DEF CounterInv
<1>2. QED
  BY <1>1, CounterInvHolds, PTL
-----------------------------------------------------------------------------
\* The induction step that NeverReissued rests on.
LEMMA LiveBehindInductive ==
  CounterInv /\ LiveBehind /\ [Next]_counterVars => LiveBehind'
<1> SUFFICES ASSUME CounterInv, LiveBehind, [Next]_counterVars
             PROVE  LiveBehind'
  OBVIOUS
<1> USE CounterAssumption DEF CounterInv, CounterTypeOK
<1>1. ASSUME NEW h \in Holders, NEW a \in Accounts, Reserve(h, a)
      PROVE  LiveBehind'
  BY <1>1 DEF Reserve, Give, LiveBehind, Reservation
<1>2. ASSUME NEW h \in Holders, NEW a \in Accounts, ReserveGap(h, a)
      PROVE  LiveBehind'
  BY <1>2 DEF ReserveGap, Give, LiveBehind, Reservation
<1>3. ASSUME NEW h \in Holders, NEW s \in Sent, Resolve(h, s)
      PROVE  LiveBehind'
  <2> DEFINE r == res[h]
  <2>0. r \in Reservation /\ r # None
    BY <1>3 DEF Resolve
  <2>1. \A g \in Holders : g # h /\ res[g] # None => res[g].acct # r.acct
    BY <1>3 DEF Resolve, Outstanding
  <2>2. \A a \in Accounts : \A n \in live'[a] \ undone'[a] : n < next'[a]
    BY <1>3, <2>0
       DEF Resolve, NextAfter, LiveBehind, HeldShape, GapLive, Reservation
  <2>3. \A g \in Holders : res'[g] # None /\ ~res'[g].fill =>
          \A n \in live'[res'[g].acct] \ undone'[res'[g].acct] : n < res'[g].value
    BY <1>3, <2>0, <2>1 DEF Resolve, LiveBehind, Reservation
  <2>4. QED
    BY <2>2, <2>3 DEF LiveBehind
<1>4. ASSUME NEW a \in Accounts, Mine(a)
      PROVE  LiveBehind'
  BY <1>4 DEF Mine, LiveBehind
<1>5. ASSUME NEW a \in Accounts, Sync(a)
      PROVE  LiveBehind'
  BY <1>5 DEF Sync, Free, Pending, Outstanding, LiveBehind, Reservation
<1>6. CASE UNCHANGED counterVars
  BY <1>6 DEF counterVars, LiveBehind
<1>7. QED
  BY <1>1, <1>2, <1>3, <1>4, <1>5, <1>6 DEF Next

LEMMA LiveBehindHolds == Spec => []LiveBehind
<1>1. Init => LiveBehind
  BY DEF Init, LiveBehind
<1>2. CounterInv /\ LiveBehind /\ [Next]_counterVars => LiveBehind'
  BY LiveBehindInductive
<1>3. QED
  BY <1>1, <1>2, CounterInvHolds, PTL DEF Spec

\* A first send never gets a number whose transaction was sent or may have
\* been, unless a Sync has moved the counter back over it since.
THEOREM NoNumberIsReissued == Spec => []NeverReissued
<1>1. CounterInv /\ LiveBehind => NeverReissued
  BY DEF CounterInv, CounterTypeOK, LiveBehind, NeverReissued, Reservation
<1>2. QED
  BY <1>1, CounterInvHolds, LiveBehindHolds, PTL
=============================================================================
