---------------------------- MODULE PayoutProofs ----------------------------
(***************************************************************************)
(* Theorems of Payout, for every file, policy, size of the aligned block,  *)
(* fee of the token and depth of calls inside calls: the escrows of the    *)
(* EVM contract are backed by its money; on every chain nobody is paid but *)
(* the merchants of the list, no intent is paid twice, no token is lost,   *)
(* and the lines that a run on Solana leaves unpaid are those that Trace   *)
(* names.  The root of a list stands for all of it.  The sums and the      *)
(* induction over finite sets are those of JournalProofs, of which nothing *)
(* else is used here: the list it is about is empty.                       *)
(***************************************************************************)
EXTENDS Payout, SequenceTheorems, FiniteSetTheorems, TLAPS

JP == INSTANCE JournalProofs WITH
        Refs <- {}, Assets <- {}, Accounts <- {}, Ids <- {}, Proposals <- {},
        None <- 0, MaxEntries <- 0, rows <- <<>>, resolved <- {}

\* A state of the money, as it is or as a call that may be undone keeps it.
Now == [bal |-> bal, credits |-> credits, paid |-> paid, holds |-> holds]
Reached(k) == IF k = 1 THEN Now ELSE stack[k - 1].saved

Spare(s) == s.bal[Contract] - Promised(s.holds)

IsHold(h) ==
  /\ h.payer = Payer /\ h.merchant \in Merchants
  /\ h.amount \in Nat /\ h.fee \in Nat /\ h.fee <= h.amount

IsState(s) ==
  /\ s = [bal |-> s.bal, credits |-> s.credits, paid |-> s.paid, holds |-> s.holds]
  /\ Contract \in DOMAIN s.bal /\ s.bal[Contract] \in Int
  /\ IsFiniteSet(DOMAIN s.holds)
  /\ \A ref \in DOMAIN s.holds : IsHold(s.holds[ref])
  /\ DOMAIN s.holds \subseteq s.paid
  /\ Spare(s) >= 0

\* Between s and t money and records may have left, and refs were only taken.
Shrinks(t, s) ==
  /\ t.bal[Contract] <= s.bal[Contract]
  /\ DOMAIN t.holds \subseteq DOMAIN s.holds
  /\ s.paid \subseteq t.paid

IsSeq(c) == \E S : c \in Seq(S)

\* The steps from i on: the contract pays out, and the token calls back.
PaysAt(c, i) ==
  /\ c[i].do = "move" /\ c[i].from = Contract
  /\ c[i].to \in Merchants \cup {Payer, Collector}
  /\ c[i].amount \in Nat
  /\ c[i + 1].do = "moved"

\* What is left of pay, settle, settleWithPermit and settleBatch.
Settles(c) ==
  \A i \in 1 .. Len(c) :
    \/ c[i].do = "reserve"
    \/ c[i].do = "moved"
    \/ /\ c[i].do = "move" /\ c[i].from = Payer /\ c[i].to \in Merchants
       /\ c[i].amount \in Nat

\* What is left of release and refund, before and after the record is gone.
Begins(c) ==
  \/ Len(c) = 5 /\ c[1].do = "drop" /\ PaysAt(c, 2) /\ PaysAt(c, 4)
  \/ Len(c) = 3 /\ c[1].do = "drop" /\ PaysAt(c, 2)
Goes(c) ==
  \/ Len(c) = 4 /\ PaysAt(c, 1) /\ PaysAt(c, 3)
  \/ Len(c) = 3 /\ c[1].do = "moved" /\ PaysAt(c, 2)
  \/ Len(c) = 2 /\ PaysAt(c, 1)
  \/ Len(c) = 1 /\ c[1].do = "moved"
  \/ Len(c) = 0

\* What the steps that are left pay out.
Due(c) ==
  LET n == Len(c)
  IN  (IF n >= 4 THEN c[n - 3].amount ELSE 0) + (IF n >= 2 THEN c[n - 1].amount ELSE 0)

\* What is left of hold() for the record h.
Deposits(c, h) ==
  LET n == Len(c)
  IN  /\ n <= 5
      /\ n = 5 => c[1].do = "reserve" /\ c[1].ref = h.ref
      /\ n >= 4 => c[n - 3].do = "measure"
      /\ n >= 3 => /\ c[n - 2].do = "move" /\ c[n - 2].from = Payer
                   /\ c[n - 2].to = Contract /\ c[n - 2].amount = h.amount
      /\ n >= 2 => c[n - 1].do = "moved"
      /\ n >= 1 => c[n].do = "record" /\ c[n].hold = h

\* A call f that has brought the contract to s.
SettlesTo(f, s) ==
  Settles(f.code) /\ Spare(s) = Spare(f.saved) /\ Shrinks(s, f.saved)

BeginsAt(f, s) ==
  /\ Begins(f.code)
  /\ s = f.saved
  /\ f.code[1].ref \in DOMAIN s.holds
  /\ s.holds[f.code[1].ref].amount = Due(f.code)

PaysTo(f, s) ==
  /\ Goes(f.code)
  /\ Spare(s) = Spare(f.saved) + Due(f.code)
  /\ Shrinks(s, f.saved)

\* hold() has taken the ref; got is what the transfer brought, and more than
\* that is not in the contract beyond what was measured.
DepositsBy(f, s, h, n, got) ==
  /\ IsHold(h) /\ Deposits(f.code, h)
  /\ n \in 1 .. 4 => h.ref \in s.paid /\ h.ref \notin DOMAIN s.holds
  /\ n \in {0, 3, 4, 5} => got = 0
  /\ n \in 1 .. 3 => f.before \in Int /\ s.bal[Contract] - f.before <= got
  /\ n \in {1, 2} => got \in 0 .. h.amount

DepositsTo(f, s) ==
  \E h : DepositsBy(f, s, h, Len(f.code), Spare(s) - Spare(f.saved))

Waits(c) == c # <<>> /\ c[1].do \in {"move", "moved"}

FrameOK(f, s, outermost) ==
  /\ DOMAIN f = {"code", "before", "saved"}
  /\ IsState(f.saved) /\ IsSeq(f.code)
  /\ \/ SettlesTo(f, s) \/ BeginsAt(f, s) \/ PaysTo(f, s)
     \/ outermost /\ DepositsTo(f, s)

StackOK ==
  /\ IsState(Now) /\ IsSeq(stack) /\ fee \in Nat
  /\ stack = <<>> => Spare(Now) = 0
  /\ \A k \in 1 .. Len(stack) :
       /\ FrameOK(stack[k], Reached(k), k = Len(stack))
       /\ k > 1 => Waits(stack[k].code)
       /\ k = Len(stack) => Spare(stack[k].saved) = 0
-----------------------------------------------------------------------------
(* What is promised.                                                       *)
Amounts(records) == [ref \in DOMAIN records |-> records[ref].amount]

\* Records of which each has an amount.
HasAmounts(records) ==
  IsFiniteSet(DOMAIN records) /\ \A ref \in DOMAIN records : records[ref].amount \in Int

LEMMA SumsAreThere == JP!JournalAssumption /\ JP!ProposalsAssumption
BY DEF JP!JournalAssumption, JP!ProposalsAssumption

\* Promised is the sum of the amounts.
LEMMA PromisedIsSum ==
  ASSUME NEW records
  PROVE  Promised(records) = JP!SumOver(DOMAIN records, Amounts(records))
BY DEF Promised, Amounts, SumFunction, SumFunctionOnSet, FoldFunctionOnSet, MapThenFoldSet,
       JP!SumOver, JP!FoldFunctionOnSet, JP!MapThenFoldSet

LEMMA PromisedTyped ==
  ASSUME NEW records, HasAmounts(records)
  PROVE  Promised(records) \in Int
<1>1. PICK S, f : S = DOMAIN records /\ f = Amounts(records)
  OBVIOUS
<1>2. JP!Summable(S, f)
  BY <1>1 DEF JP!Summable, HasAmounts, Amounts, JP!IsFiniteSet, IsFiniteSet
<1>3. JP!SumOver(S, f) \in Int
  BY <1>2, SumsAreThere, JP!SumTyped
<1>4. QED
  BY <1>1, <1>3, PromisedIsSum

LEMMA NothingPromised == Promised(<<>>) = 0
<1>1. PICK f : f = Amounts(<<>>)
  OBVIOUS
<1>2. JP!SumOver({}, f) = 0
  BY SumsAreThere, JP!SumOfNone
<1>3. QED
  BY <1>1, <1>2, PromisedIsSum

\* Without one record its amount is promised no more: what Drop does.
LEMMA PromisedWithout ==
  ASSUME NEW records, HasAmounts(records), NEW ref \in DOMAIN records
  PROVE  Promised(Restrict(records, DOMAIN records \ {ref}))
           = Promised(records) - records[ref].amount
<1>1. PICK S, f : S = DOMAIN records /\ f = Amounts(records)
  OBVIOUS
<1>2. PICK T, g : /\ T = S \ {ref}
                  /\ g = Amounts(Restrict(records, DOMAIN records \ {ref}))
  OBVIOUS
<1>3. JP!Summable(S, f)
  BY <1>1 DEF JP!Summable, HasAmounts, Amounts, JP!IsFiniteSet, IsFiniteSet
<1>4. JP!SumOver(S, f) = f[ref] + JP!SumOver(S \ {ref}, f)
  BY <1>1, <1>3, SumsAreThere, JP!SumWithout
<1>5. /\ DOMAIN Restrict(records, DOMAIN records \ {ref}) = T
      /\ \A x \in T : f[x] = g[x]
  BY <1>1, <1>2 DEF Restrict, Amounts
<1>6. JP!SumOver(T, f) = JP!SumOver(T, g)
  BY <1>5, SumsAreThere, JP!SumOfEqual
<1>7. /\ Promised(records) = JP!SumOver(S, f)
      /\ Promised(Restrict(records, DOMAIN records \ {ref})) = JP!SumOver(T, g)
  BY <1>1, <1>2, <1>5, PromisedIsSum
<1>8. JP!Summable(T, f)
  <2>1. IsFiniteSet(T)
    BY <1>1, <1>2, FS_Subset DEF HasAmounts
  <2>2. QED
    BY <1>2, <1>3, <2>1 DEF JP!Summable, JP!IsFiniteSet, IsFiniteSet
<1>9. JP!SumOver(T, f) \in Int /\ f[ref] \in Int
  BY <1>1, <1>3, <1>8, SumsAreThere, JP!SumTyped DEF JP!Summable
<1>10. f[ref] = records[ref].amount
  BY <1>1 DEF Amounts
<1>11. QED
  BY <1>2, <1>4, <1>6, <1>7, <1>9, <1>10

\* With one record more its amount is promised too: what Record does.
LEMMA PromisedWith ==
  ASSUME NEW records, HasAmounts(records), NEW ref, ref \notin DOMAIN records,
         NEW h, h.amount \in Int
  PROVE  /\ HasAmounts(With(records, ref, h))
         /\ Promised(With(records, ref, h)) = Promised(records) + h.amount
<1>1. PICK S, f : S = DOMAIN records /\ f = Amounts(records)
  OBVIOUS
<1>2. PICK T, g : T = S \cup {ref} /\ g = Amounts(With(records, ref, h))
  OBVIOUS
<1>3. /\ DOMAIN With(records, ref, h) = T
      /\ \A x \in S : f[x] = g[x]
      /\ g[ref] = h.amount
      /\ \A x \in T : With(records, ref, h)[x].amount \in Int
  BY <1>1, <1>2 DEF With, Amounts, HasAmounts
<1>4. IsFiniteSet(T)
  BY <1>1, <1>2, FS_AddElement DEF HasAmounts
<1>5. HasAmounts(With(records, ref, h))
  BY <1>3, <1>4 DEF HasAmounts
<1>6. JP!Summable(T, g)
  BY <1>2, <1>3, <1>4 DEF JP!Summable, Amounts, JP!IsFiniteSet, IsFiniteSet
<1>7. JP!SumOver(S \cup {ref}, g) = g[ref] + JP!SumOver(S, g)
  BY <1>1, <1>2, <1>6, SumsAreThere, JP!SumWith
<1>8. JP!SumOver(S, f) = JP!SumOver(S, g)
  BY <1>3, SumsAreThere, JP!SumOfEqual
<1>9. /\ Promised(records) = JP!SumOver(S, f)
      /\ Promised(With(records, ref, h)) = JP!SumOver(T, g)
  BY <1>1, <1>2, <1>3, PromisedIsSum
<1>10. Promised(records) \in Int
  BY PromisedTyped
<1>11. QED
  BY <1>2, <1>3, <1>5, <1>7, <1>8, <1>9, <1>10
-----------------------------------------------------------------------------
(* Calls, and the steps they are made of.                                  *)

\* What Advance and Leave do to a list, and what Call does.
LEMMA TailOf ==
  ASSUME NEW c, IsSeq(c), c # <<>>
  PROVE  /\ Len(c) \in Nat \ {0} /\ Head(c) = c[1]
         /\ IsSeq(Tail(c)) /\ Len(Tail(c)) = Len(c) - 1
         /\ \A i \in 1 .. Len(c) - 1 : Tail(c)[i] = c[i + 1]
<1>1. PICK S : c \in Seq(S)
  BY DEF IsSeq
<1>2. Tail(c) \in Seq(S) /\ Len(c) \in Nat \ {0}
  BY <1>1
<1>3. QED
  BY <1>1, <1>2 DEF IsSeq

LEMMA Pushed ==
  ASSUME NEW c, IsSeq(c), NEW x
  PROVE  /\ Len(c) \in Nat
         /\ IsSeq(<<x>> \o c) /\ Len(<<x>> \o c) = Len(c) + 1
         /\ (<<x>> \o c)[1] = x
         /\ \A i \in 2 .. Len(c) + 1 : (<<x>> \o c)[i] = c[i - 1]
<1>1. PICK S : c \in Seq(S)
  BY DEF IsSeq
<1>2. PICK T : T = S \cup {x}
  OBVIOUS
<1>3. c \in Seq(T) /\ <<x>> \in Seq(T) /\ Len(<<x>>) = 1 /\ <<x>>[1] = x
  BY <1>1, <1>2
<1>4. <<x>> \o c \in Seq(T) /\ Len(<<x>> \o c) = Len(c) + 1
  BY <1>3
<1>5. \A i \in 1 .. Len(c) + 1 : (<<x>> \o c)[i] = IF i <= 1 THEN x ELSE c[i - 1]
  BY <1>3
<1>6. Len(c) \in Nat
  BY <1>1
<1>7. QED
  BY <1>4, <1>5, <1>6 DEF IsSeq

LEMMA EmptyIsSeq == IsSeq(<<>>) /\ Len(<<>>) = 0
<1>1. <<>> \in Seq({})
  OBVIOUS
<1>2. QED
  BY <1>1 DEF IsSeq

LEMMA EmptyCode ==
  ASSUME NEW c, IsSeq(c)
  PROVE  Len(c) \in Nat /\ (Len(c) = 0 <=> c = <<>>)
<1>1. PICK S : c \in Seq(S)
  BY DEF IsSeq
<1>2. QED
  BY <1>1, EmptySeq, LenProperties

\* A call of a kind goes on as that kind.
LEMMA SettlesOn ==
  ASSUME NEW c, IsSeq(c), c # <<>>, Settles(c)
  PROVE  Settles(Tail(c))
<1>1. PICK n \in Nat \ {0} : n = Len(c)
  BY TailOf
<1>2. /\ Len(Tail(c)) = n - 1
      /\ \A i \in 1 .. n - 1 : Tail(c)[i] = c[i + 1] /\ i + 1 \in 1 .. n
  BY <1>1, TailOf
<1>3. QED
  BY <1>1, <1>2 DEF Settles

LEMMA DueIs ==
  ASSUME NEW c
  PROVE  /\ Len(c) = 0 => Due(c) = 0
         /\ Len(c) = 1 => Due(c) = 0
         /\ Len(c) = 2 /\ PaysAt(c, 1) => Due(c) = c[1].amount
         /\ Len(c) = 3 /\ PaysAt(c, 2) => Due(c) = c[2].amount
         /\ Len(c) = 4 /\ PaysAt(c, 1) /\ PaysAt(c, 3)
              => Due(c) = c[1].amount + c[3].amount
         /\ Len(c) = 5 /\ PaysAt(c, 2) /\ PaysAt(c, 4)
              => Due(c) = c[2].amount + c[4].amount
<1>1. Len(c) = 0 => Due(c) = 0
  BY DEF Due
<1>2. Len(c) = 1 => Due(c) = 0
  BY DEF Due
<1>3. Len(c) = 2 /\ PaysAt(c, 1) => Due(c) = c[1].amount
  BY DEF Due, PaysAt
<1>4. Len(c) = 3 /\ PaysAt(c, 2) => Due(c) = c[2].amount
  BY DEF Due, PaysAt
<1>5. Len(c) = 4 /\ PaysAt(c, 1) /\ PaysAt(c, 3) => Due(c) = c[1].amount + c[3].amount
  BY DEF Due, PaysAt
<1>6. Len(c) = 5 /\ PaysAt(c, 2) /\ PaysAt(c, 4) => Due(c) = c[2].amount + c[4].amount
  BY DEF Due, PaysAt
<1>7. QED
  BY <1>1, <1>2, <1>3, <1>4, <1>5, <1>6

LEMMA PaysOn ==
  ASSUME NEW c, IsSeq(c), c # <<>>, Begins(c) \/ Goes(c)
  PROVE  /\ Goes(Tail(c))
         /\ Due(c) \in Nat /\ Due(Tail(c)) \in Nat
         /\ Begins(c) => c[1].do = "drop" /\ Due(Tail(c)) = Due(c)
         /\ Goes(c) => \/ c[1].do = "moved" /\ Due(Tail(c)) = Due(c)
                       \/ /\ c[1].do = "move" /\ c[1].from = Contract
                          /\ c[1].to \in Merchants \cup {Payer, Collector}
                          /\ c[1].amount \in Nat
                          /\ Due(Tail(c)) = Due(c) - c[1].amount
<1>0. PICK t : t = Tail(c)
  OBVIOUS
<1>1. PICK n \in Nat \ {0} : n = Len(c) /\ t = Tail(c)
  BY <1>0, TailOf
<1>2. /\ Len(t) = n - 1
      /\ \A i \in 1 .. n - 1 : t[i] = c[i + 1]
  BY <1>1, TailOf
<1>3. n \in {1, 2, 3, 4, 5}
  BY <1>1 DEF Begins, Goes
<1>4. CASE n = 5
  <2>1. t[1] = c[2] /\ t[2] = c[3] /\ t[3] = c[4] /\ t[4] = c[5] /\ Len(t) = 4
    BY <1>2, <1>4
  <2>2. Begins(c) /\ ~Goes(c) /\ c[1].do = "drop" /\ PaysAt(c, 2) /\ PaysAt(c, 4)
    BY <1>1, <1>4 DEF Begins, Goes
  <2>3. PaysAt(t, 1) /\ PaysAt(t, 3)
    BY <2>1, <2>2 DEF PaysAt
  <2>4. Goes(t)
    BY <2>1, <2>3 DEF Goes
  <2>5. Due(c) = c[2].amount + c[4].amount /\ Due(t) = t[1].amount + t[3].amount
    BY <1>1, <1>4, <2>1, <2>2, <2>3, DueIs
  <2>6. Due(c) \in Nat /\ Due(t) = Due(c)
    BY <2>1, <2>2, <2>5 DEF PaysAt
  <2>7. QED
    BY <1>1, <2>2, <2>4, <2>6
<1>5. CASE n = 4
  <2>1. t[1] = c[2] /\ t[2] = c[3] /\ t[3] = c[4] /\ Len(t) = 3
    BY <1>2, <1>5
  <2>2. Goes(c) /\ ~Begins(c) /\ PaysAt(c, 1) /\ PaysAt(c, 3)
    BY <1>1, <1>5 DEF Begins, Goes
  <2>3. PaysAt(t, 2) /\ t[1].do = "moved"
    BY <2>1, <2>2 DEF PaysAt
  <2>4. Goes(t)
    BY <2>1, <2>3 DEF Goes
  <2>5. Due(c) = c[1].amount + c[3].amount /\ Due(t) = t[2].amount
    BY <1>1, <1>5, <2>1, <2>2, <2>3, DueIs
  <2>6. /\ Due(c) \in Nat /\ Due(t) \in Nat
        /\ Due(t) = Due(c) - c[1].amount
    BY <2>1, <2>2, <2>5 DEF PaysAt
  <2>7. /\ c[1].do = "move" /\ c[1].from = Contract
        /\ c[1].to \in Merchants \cup {Payer, Collector}
        /\ c[1].amount \in Nat
    BY <2>2 DEF PaysAt
  <2>8. QED
    BY <1>1, <2>2, <2>4, <2>6, <2>7
<1>6. CASE n = 3
  <2>1. t[1] = c[2] /\ t[2] = c[3] /\ Len(t) = 2
    BY <1>2, <1>6
  <2>2. /\ PaysAt(c, 2)
        /\ Begins(c) => c[1].do = "drop"
        /\ Goes(c) => c[1].do = "moved"
    BY <1>1, <1>6 DEF Begins, Goes
  <2>3. PaysAt(t, 1)
    BY <2>1, <2>2 DEF PaysAt
  <2>4. Goes(t)
    BY <2>1, <2>3 DEF Goes
  <2>5. Due(c) = c[2].amount /\ Due(t) = t[1].amount
    BY <1>1, <1>6, <2>1, <2>2, <2>3, DueIs
  <2>6. Due(c) \in Nat /\ Due(t) = Due(c)
    BY <2>1, <2>2, <2>5 DEF PaysAt
  <2>7. QED
    BY <1>1, <2>2, <2>4, <2>6
<1>7. CASE n = 2
  <2>1. t[1] = c[2] /\ Len(t) = 1
    BY <1>2, <1>7
  <2>2. Goes(c) /\ ~Begins(c) /\ PaysAt(c, 1)
    BY <1>1, <1>7 DEF Begins, Goes
  <2>3. Goes(t)
    BY <2>1, <2>2 DEF Goes, PaysAt
  <2>4. Due(c) = c[1].amount /\ Due(t) = 0
    BY <1>1, <1>7, <2>1, <2>2, DueIs
  <2>5. QED
    BY <1>1, <2>2, <2>3, <2>4 DEF PaysAt
<1>8. CASE n = 1
  <2>1. Len(t) = 0
    BY <1>2, <1>8
  <2>2. Goes(c) /\ ~Begins(c) /\ c[1].do = "moved"
    BY <1>1, <1>8 DEF Begins, Goes
  <2>3. Due(c) = 0
    BY <1>1, <1>8 DEF Due
  <2>4. Due(t) = 0
    BY <2>1 DEF Due
  <2>5. Goes(t)
    BY <2>1 DEF Goes
  <2>6. QED
    BY <1>1, <2>2, <2>3, <2>4, <2>5
<1>9. QED
  BY <1>3, <1>4, <1>5, <1>6, <1>7, <1>8

\* The steps of hold(), by how many are left.
LEMMA DepositsOn ==
  ASSUME NEW c, IsSeq(c), c # <<>>, NEW h, Deposits(c, h)
  PROVE  /\ Len(c) \in 1 .. 5 /\ Len(Tail(c)) = Len(c) - 1
         /\ Deposits(Tail(c), h)
         /\ Len(c) = 5 <=> c[1].do = "reserve"
         /\ Len(c) = 4 <=> c[1].do = "measure"
         /\ Len(c) = 3 <=> c[1].do = "move"
         /\ Len(c) = 2 <=> c[1].do = "moved"
         /\ Len(c) = 1 <=> c[1].do = "record"
         /\ Len(c) = 5 => c[1].ref = h.ref
         /\ Len(c) = 3 => /\ c[1].from = Payer /\ c[1].to = Contract
                          /\ c[1].amount = h.amount
         /\ Len(c) = 1 => c[1].hold = h
<1>0. PICK t : t = Tail(c)
  OBVIOUS
<1>1. PICK n \in Nat \ {0} : n = Len(c) /\ t = Tail(c)
  BY <1>0, TailOf
<1>2. /\ Len(t) = n - 1
      /\ \A i \in 1 .. n - 1 : t[i] = c[i + 1]
  BY <1>1, TailOf
<1>3. /\ n \in 1 .. 5
      /\ n = 5 => c[1].do = "reserve" /\ c[1].ref = h.ref
      /\ n >= 4 => c[n - 3].do = "measure"
      /\ n >= 3 => /\ c[n - 2].do = "move" /\ c[n - 2].from = Payer
                   /\ c[n - 2].to = Contract /\ c[n - 2].amount = h.amount
      /\ n >= 2 => c[n - 1].do = "moved"
      /\ n >= 1 => c[n].do = "record" /\ c[n].hold = h
  <2>1. Deposits(c, h) /\ Len(c) = n
    BY <1>1
  <2>2. n <= 5
    BY <2>1 DEF Deposits
  <2>3. QED
    BY <2>1, <2>2 DEF Deposits
<1>4. Deposits(t, h)
  <2>1. n - 1 >= 4 => t[n - 4].do = "measure"
    BY <1>2, <1>3
  <2>2. n - 1 >= 3 => /\ t[n - 3].do = "move" /\ t[n - 3].from = Payer
                      /\ t[n - 3].to = Contract /\ t[n - 3].amount = h.amount
    BY <1>2, <1>3
  <2>3. n - 1 >= 2 => t[n - 2].do = "moved"
    BY <1>2, <1>3
  <2>4. n - 1 >= 1 => t[n - 1].do = "record" /\ t[n - 1].hold = h
    BY <1>2, <1>3
  <2>5. QED
    BY <1>2, <1>3, <2>1, <2>2, <2>3, <2>4 DEF Deposits
<1>5. QED
  <2>1. n = 1 \/ n = 2 \/ n = 3 \/ n = 4 \/ n = 5
    BY <1>3
  <2>2. /\ n = 5 => c[1].do = "reserve" /\ c[1].ref = h.ref
        /\ n = 4 => c[1].do = "measure"
        /\ n = 3 => /\ c[1].do = "move" /\ c[1].from = Payer
                    /\ c[1].to = Contract /\ c[1].amount = h.amount
        /\ n = 2 => c[1].do = "moved"
        /\ n = 1 => c[1].do = "record" /\ c[1].hold = h
    BY <1>3
  <2>3. QED
    BY <1>1, <1>2, <1>3, <1>4, <2>1, <2>2
-----------------------------------------------------------------------------
(* The stack of calls.                                                     *)
LEMMA SpareTyped ==
  ASSUME NEW s, IsState(s)
  PROVE  HasAmounts(s.holds) /\ Spare(s) \in Int
<1>1. HasAmounts(s.holds)
  BY DEF IsState, IsHold, HasAmounts
<1>2. QED
  BY <1>1, PromisedTyped DEF IsState, Spare

LEMMA ShrinksOn ==
  ASSUME NEW r, NEW s, NEW t, IsState(r), IsState(s), IsState(t),
         Shrinks(t, s), Shrinks(s, r)
  PROVE  Shrinks(t, r)
BY DEF Shrinks, IsState

\* A call that waits for one inside it does not mind what that one does, as
\* long as money and promises shrink alike.
LEMMA WaitingFrame ==
  ASSUME NEW f, NEW s, NEW t, NEW outermost, FrameOK(f, s, outermost), Waits(f.code),
         IsState(s), IsState(t), Spare(t) = Spare(s), Shrinks(t, s)
  PROVE  FrameOK(f, t, outermost)
<1>1. IsState(f.saved) /\ IsSeq(f.code)
  BY DEF FrameOK
<1>2. CASE SettlesTo(f, s)
  BY <1>1, <1>2, ShrinksOn DEF SettlesTo, FrameOK
<1>3. ~BeginsAt(f, s)
  BY DEF BeginsAt, Begins, Waits
<1>4. CASE PaysTo(f, s)
  BY <1>1, <1>4, ShrinksOn DEF PaysTo, FrameOK
<1>5. CASE outermost /\ DepositsTo(f, s)
  <2>1. PICK h : DepositsBy(f, s, h, Len(f.code), Spare(s) - Spare(f.saved))
    BY <1>5 DEF DepositsTo
  <2>2. Len(f.code) \in {2, 3}
    BY <1>1, <2>1, DepositsOn DEF Waits, DepositsBy
  <2>3. PICK n, got : n = Len(f.code) /\ got = Spare(s) - Spare(f.saved)
    OBVIOUS
  <2>4. n \in {2, 3} /\ DepositsBy(f, s, h, n, got)
    BY <2>1, <2>2, <2>3
  <2>5. got = Spare(t) - Spare(f.saved) /\ got \in Int
    BY <1>1, <2>3, SpareTyped
  <2>6. h.ref \in t.paid /\ h.ref \notin DOMAIN t.holds
    BY <2>4 DEF Shrinks, DepositsBy
  <2>7. f.before \in Int /\ t.bal[Contract] - f.before <= got
    <3>1. f.before \in Int /\ s.bal[Contract] - f.before <= got
      BY <2>4 DEF DepositsBy
    <3>2. QED
      BY <2>5, <3>1 DEF Shrinks, IsState
  <2>8. DepositsTo(f, t)
    <3>1. DepositsBy(f, t, h, n, got)
      BY <2>4, <2>6, <2>7 DEF DepositsBy
    <3>2. QED
      BY <2>3, <2>5, <3>1 DEF DepositsTo
  <2>9. QED
    BY <1>5, <2>8 DEF FrameOK
<1>6. QED
  BY <1>2, <1>3, <1>4, <1>5 DEF FrameOK

\* What is known of the innermost call.
LEMMA Innermost ==
  ASSUME StackOK, stack # <<>>
  PROVE  /\ Len(stack) \in Nat \ {0} /\ Head(stack) = stack[1]
         /\ FrameOK(stack[1], Now, Len(stack) = 1)
         /\ Len(stack) = 1 => Spare(stack[1].saved) = 0
         /\ IsSeq(Tail(stack)) /\ Len(Tail(stack)) = Len(stack) - 1
         /\ \A k \in 1 .. Len(stack) - 1 : Tail(stack)[k] = stack[k + 1]
<1>1. IsSeq(stack)
  BY DEF StackOK
<1>2. PICK n \in Nat \ {0} : n = Len(stack)
  BY <1>1, TailOf
<1>3. 1 \in 1 .. n /\ Reached(1) = Now
  BY <1>2 DEF Reached
<1>4. /\ FrameOK(stack[1], Reached(1), 1 = Len(stack))
      /\ 1 = Len(stack) => Spare(stack[1].saved) = 0
  BY <1>2, <1>3 DEF StackOK
<1>5. (1 = Len(stack)) = (Len(stack) = 1)
  OBVIOUS
<1>6. QED
  BY <1>1, <1>2, <1>3, <1>4, <1>5, TailOf

\* The innermost call takes a step, or is undone or done.
LEMMA TopMoves ==
  ASSUME StackOK, stack # <<>>, NEW f,
         stack' = <<f>> \o Tail(stack), f.saved = stack[1].saved,
         fee' = fee, IsState(Now)', FrameOK(f, Now', Len(stack) = 1)
  PROVE  StackOK'
<1>0. PICK T : T = Tail(stack)
  OBVIOUS
<1>1. PICK n \in Nat \ {0} : n = Len(stack) /\ T = Tail(stack)
  BY <1>0, Innermost, Zenon
<1>2. /\ IsSeq(T) /\ Len(T) = n - 1
      /\ \A k \in 1 .. n - 1 : T[k] = stack[k + 1]
  BY <1>1, Innermost
<1>3. /\ IsSeq(stack') /\ Len(stack') = n
      /\ stack'[1] = f /\ \A k \in 2 .. n : stack'[k] = stack[k]
  <2>1. stack' = <<f>> \o T
    BY <1>1
  <2>2. /\ IsSeq(<<f>> \o T) /\ Len(<<f>> \o T) = Len(T) + 1
        /\ (<<f>> \o T)[1] = f
        /\ \A i \in 2 .. Len(T) + 1 : (<<f>> \o T)[i] = T[i - 1]
    BY <1>2, Pushed
  <2>3. \A k \in 2 .. n : T[k - 1] = stack[k]
    <3>1. ASSUME NEW k \in 2 .. n PROVE T[k - 1] = stack[k]
      <4>1. k - 1 \in 1 .. n - 1 /\ k - 1 + 1 = k
        OBVIOUS
      <4>2. QED
        BY <1>2, <4>1
    <3>2. QED
      BY <3>1
  <2>4. Len(T) + 1 = n
    BY <1>2
  <2>5. QED
    BY <2>1, <2>2, <2>3, <2>4
<1>4. stack' # <<>>
  BY <1>3, EmptyIsSeq
<1>5. ASSUME NEW k \in 1 .. n
      PROVE  /\ FrameOK(stack'[k], Reached(k)', k = n)
             /\ k > 1 => Waits(stack'[k].code)
             /\ k = n => Spare(stack'[k].saved) = 0
  <2>1. /\ FrameOK(stack[k], Reached(k), k = n)
        /\ k > 1 => Waits(stack[k].code)
        /\ k = n => Spare(stack[k].saved) = 0
    BY <1>1 DEF StackOK
  <2>2. CASE k = 1
    <3>1. Reached(k)' = Now' /\ stack'[k] = f
      BY <1>3, <2>2 DEF Reached
    <3>2. (k = n) = (Len(stack) = 1)
      BY <1>1, <2>2
    <3>3. QED
      BY <2>1, <2>2, <3>1, <3>2
  <2>3. CASE k # 1
    <3>1. stack'[k] = stack[k]
      BY <1>3, <2>3
    <3>2. stack'[k - 1].saved = stack[k - 1].saved
      BY <1>3, <2>3
    <3>3. Reached(k)' = Reached(k)
      BY <2>3, <3>2 DEF Reached
    <3>4. QED
      BY <2>1, <3>1, <3>3
  <2>4. QED
    BY <2>2, <2>3
<1>6. fee' \in Nat /\ IsState(Now)'
  BY DEF StackOK
<1>7. QED
  BY <1>3, <1>4, <1>5, <1>6 DEF StackOK

LEMMA TopLeaves ==
  ASSUME StackOK, stack # <<>>, stack' = Tail(stack),
         fee' = fee, IsState(Now)',
         Len(stack) = 1 => Spare(Now') = 0,
         Len(stack) > 1 => FrameOK(stack[2], Now', 2 = Len(stack))
  PROVE  StackOK'
<1>1. PICK n \in Nat \ {0} : n = Len(stack)
  BY Innermost, Zenon
<1>2. /\ IsSeq(stack') /\ Len(stack') = n - 1
      /\ \A k \in 1 .. n - 1 : stack'[k] = stack[k + 1]
  BY <1>1, Innermost
<1>3. stack' = <<>> => Spare(Now)' = 0
  BY <1>1, <1>2, EmptyIsSeq
<1>4. ASSUME NEW k \in 1 .. n - 1
      PROVE  /\ FrameOK(stack'[k], Reached(k)', k = n - 1)
             /\ k > 1 => Waits(stack'[k].code)
             /\ k = n - 1 => Spare(stack'[k].saved) = 0
  <2>1. k + 1 \in 1 .. n /\ k + 1 > 1 /\ k + 1 # 1
    OBVIOUS
  <2>2. /\ FrameOK(stack[k + 1], Reached(k + 1), k + 1 = n)
        /\ Waits(stack[k + 1].code)
        /\ k + 1 = n => Spare(stack[k + 1].saved) = 0
    BY <1>1, <2>1 DEF StackOK
  <2>3. (k + 1 = n) = (k = n - 1)
    OBVIOUS
  <2>4. stack'[k] = stack[k + 1]
    BY <1>2
  <2>5. CASE k = 1
    <3>1. Reached(k)' = Now'
      BY <2>5 DEF Reached
    <3>2. (2 = Len(stack)) = (k = n - 1)
      BY <1>1, <2>5
    <3>3. FrameOK(stack[2], Now', 2 = Len(stack))
      BY <1>1, <2>5
    <3>4. FrameOK(stack'[k], Reached(k)', k = n - 1)
      <4>1. stack'[k] = stack[2]
        <5>1. k + 1 = 2
          BY <2>5
        <5>2. QED
          BY <2>4, <5>1
      <4>2. FrameOK(stack[2], Now', k = n - 1)
        BY <3>2, <3>3
      <4>3. QED
        BY <3>1, <4>1, <4>2
    <3>5. QED
      BY <2>2, <2>3, <2>4, <2>5, <3>4
  <2>6. CASE k # 1
    <3>1. stack'[k - 1] = stack[k]
      BY <1>2, <2>6
    <3>2. Reached(k)' = Reached(k + 1)
      <4>1. k + 1 - 1 = k
        OBVIOUS
      <4>2. Reached(k + 1) = stack[k].saved
        BY <2>1, <4>1 DEF Reached
      <4>3. Reached(k)' = stack'[k - 1].saved
        BY <2>6 DEF Reached
      <4>4. QED
        BY <3>1, <4>2, <4>3
    <3>3. QED
      BY <2>2, <2>3, <2>4, <3>2
  <2>7. QED
    BY <2>5, <2>6
<1>5. fee' \in Nat /\ IsState(Now)'
  BY DEF StackOK
<1>6. QED
  BY <1>2, <1>3, <1>4, <1>5 DEF StackOK

LEMMA TopEnters ==
  ASSUME StackOK, NEW f, stack' = <<f>> \o stack, f.saved = Now,
         fee' = fee, Now' = Now, FrameOK(f, Now, stack = <<>>),
         stack # <<>> => Waits(stack[1].code)
  PROVE  StackOK'
<1>1. IsSeq(stack)
  BY DEF StackOK
<1>2. PICK n \in Nat : n = Len(stack) /\ (n = 0 <=> stack = <<>>)
  BY <1>1, EmptyCode
<1>3. /\ IsSeq(stack') /\ Len(stack') = n + 1 /\ stack'[1] = f
      /\ \A k \in 2 .. n + 1 : stack'[k] = stack[k - 1]
  BY <1>1, <1>2, Pushed
<1>4. stack' # <<>>
  BY <1>3, EmptyIsSeq
<1>5. ASSUME NEW k \in 1 .. n + 1
      PROVE  /\ FrameOK(stack'[k], Reached(k)', k = n + 1)
             /\ k > 1 => Waits(stack'[k].code)
             /\ k = n + 1 => Spare(stack'[k].saved) = 0
  <2>1. CASE k = 1
    <3>1. Reached(k)' = Now /\ stack'[k] = f
      BY <1>3, <2>1 DEF Reached
    <3>2. (k = n + 1) = (stack = <<>>)
      BY <1>2, <2>1
    <3>3. stack = <<>> => Spare(Now) = 0
      BY DEF StackOK
    <3>4. QED
      BY <2>1, <3>1, <3>2, <3>3
  <2>2. CASE k # 1
    <3>1. k - 1 \in 1 .. n /\ stack'[k] = stack[k - 1]
      BY <1>3, <2>2
    <3>2. /\ FrameOK(stack[k - 1], Reached(k - 1), k - 1 = n)
          /\ k - 1 > 1 => Waits(stack[k - 1].code)
          /\ k - 1 = n => Spare(stack[k - 1].saved) = 0
      BY <1>2, <3>1 DEF StackOK
    <3>3. Waits(stack[k - 1].code)
      <4>1. k - 1 = 1 \/ k - 1 > 1
        BY <3>1
      <4>2. k - 1 = 1 => stack # <<>>
        BY <1>2, <3>1
      <4>3. QED
        BY <3>2, <4>1, <4>2
    <3>4. (k = n + 1) = (k - 1 = n)
      OBVIOUS
    <3>5. Reached(k)' = Reached(k - 1)
      <4>1. CASE k - 1 = 1
        <5>1. Reached(k)' = stack'[k - 1].saved
          BY <2>2 DEF Reached
        <5>2. stack'[k - 1] = f
          BY <1>3, <4>1
        <5>3. QED
          BY <4>1, <5>1, <5>2 DEF Reached
      <4>2. CASE k - 1 # 1
        <5>1. stack'[k - 1] = stack[k - 1 - 1]
          BY <1>3, <3>1, <4>2
        <5>2. QED
          BY <2>2, <4>2, <5>1 DEF Reached
      <4>3. QED
        BY <4>1, <4>2
    <3>6. QED
      BY <3>1, <3>2, <3>3, <3>4, <3>5
  <2>3. QED
    BY <2>1, <2>2
<1>6. fee' \in Nat /\ IsState(Now)'
  BY DEF StackOK
<1>7. QED
  BY <1>3, <1>4, <1>5, <1>6 DEF StackOK
-----------------------------------------------------------------------------
(* The steps of a call.                                                    *)

\* The innermost call f in its present state, and what is left after a step.
LEMMA NextStep ==
  ASSUME StackOK, NEW what, Does(what)
  PROVE  /\ stack # <<>> /\ Head(stack) = stack[1]
         /\ stack[1].code # <<>> /\ stack[1].code[1].do = what
         /\ This = stack[1].code[1]
         /\ IsSeq(stack[1].code) /\ IsSeq(Tail(stack[1].code))
         /\ FrameOK(stack[1], Now, Len(stack) = 1)
<1>1. stack # <<>> /\ Head(stack).code # <<>> /\ Head(Head(stack).code).do = what
  BY DEF Does
<1>2. Head(stack) = stack[1] /\ FrameOK(stack[1], Now, Len(stack) = 1)
  BY <1>1, Innermost
<1>3. IsSeq(stack[1].code)
  BY <1>2 DEF FrameOK
<1>4. Head(stack[1].code) = stack[1].code[1] /\ IsSeq(Tail(stack[1].code))
  BY <1>1, <1>2, <1>3, TailOf
<1>5. QED
  BY <1>1, <1>2, <1>3, <1>4 DEF This

\* Advance takes the step off.
LEMMA Advanced ==
  ASSUME StackOK, stack # <<>>, Advance
  PROVE  \E f : /\ stack' = <<f>> \o Tail(stack)
                /\ DOMAIN f = {"code", "before", "saved"}
                /\ f.code = Tail(stack[1].code)
                /\ f.before = stack[1].before /\ f.saved = stack[1].saved
<1>1. Head(stack) = stack[1] /\ DOMAIN stack[1] = {"code", "before", "saved"}
  BY Innermost DEF FrameOK
<1>2. PICK f : f = [Head(stack) EXCEPT !.code = Tail(@)]
  OBVIOUS
<1>3. stack' = <<f>> \o Tail(stack)
  BY <1>2 DEF Advance
<1>4. /\ DOMAIN f = {"code", "before", "saved"}
      /\ f.code = Tail(stack[1].code)
      /\ f.before = stack[1].before /\ f.saved = stack[1].saved
  BY <1>1, <1>2
<1>5. QED
  BY <1>3, <1>4

\* The four kinds of call, for the innermost one.
LEMMA Kinds ==
  ASSUME NEW f, NEW s, NEW outermost, FrameOK(f, s, outermost)
  PROVE  \/ SettlesTo(f, s) \/ BeginsAt(f, s) \/ PaysTo(f, s)
         \/ outermost /\ DepositsTo(f, s)
BY DEF FrameOK

\* The ref is taken: hold() goes on, and a settlement does.
LEMMA ReserveKeeps ==
  ASSUME StackOK, Reserve
  PROVE  StackOK'
<1>1. /\ stack # <<>> /\ stack[1].code # <<>> /\ stack[1].code[1].do = "reserve"
      /\ This = stack[1].code[1]
      /\ IsSeq(stack[1].code) /\ IsSeq(Tail(stack[1].code))
      /\ FrameOK(stack[1], Now, Len(stack) = 1)
  BY NextStep DEF Reserve
<1>2. PICK c : c = stack[1].code
  OBVIOUS
<1>3. PICK f : /\ stack' = <<f>> \o Tail(stack)
               /\ DOMAIN f = {"code", "before", "saved"}
               /\ f.code = Tail(c)
               /\ f.before = stack[1].before /\ f.saved = stack[1].saved
  BY <1>1, <1>2, Advanced DEF Reserve
<1>4. /\ c[1].ref \notin paid /\ paid' = paid \cup {c[1].ref}
      /\ fee' = fee /\ bal' = bal /\ holds' = holds /\ credits' = credits
  BY <1>1, <1>2 DEF Reserve
<1>5. /\ Now'.bal = Now.bal /\ Now'.holds = Now.holds
      /\ Now.holds = holds /\ Now.bal = bal /\ Now.paid = paid
      /\ Now'.paid = Now.paid \cup {c[1].ref}
      /\ Now' = [bal |-> Now'.bal, credits |-> Now'.credits, paid |-> Now'.paid,
                 holds |-> Now'.holds]
  BY <1>4 DEF Now
<1>6. PICK s, t : s = Now /\ t = Now'
  OBVIOUS
<1>7. IsState(s) /\ IsState(t) /\ Spare(t) = Spare(s) /\ Shrinks(t, s)
  <2>1. IsState(s)
    BY <1>6 DEF StackOK
  <2>2. Spare(t) = Spare(s)
    BY <1>5, <1>6 DEF Spare
  <2>3. IsState(t)
    BY <1>5, <1>6, <2>1, <2>2 DEF IsState
  <2>4. Shrinks(t, s)
    BY <1>5, <1>6, <2>1 DEF Shrinks, IsState
  <2>5. QED
    BY <2>1, <2>2, <2>3, <2>4
<1>8. IsState(f.saved) /\ IsSeq(f.code)
  BY <1>1, <1>2, <1>3 DEF FrameOK
<1>9. FrameOK(f, t, Len(stack) = 1)
  <2>1. CASE SettlesTo(stack[1], s)
    BY <1>1, <1>2, <1>3, <1>7, <1>8, <2>1, SettlesOn, ShrinksOn DEF SettlesTo, FrameOK
  <2>2. ~BeginsAt(stack[1], s)
    BY <1>1 DEF BeginsAt, Begins
  <2>3. ~PaysTo(stack[1], s)
    BY <1>1, PaysOn DEF PaysTo
  <2>4. CASE Len(stack) = 1 /\ DepositsTo(stack[1], s)
    <3>1. PICK h : DepositsBy(stack[1], s, h, Len(c), Spare(s) - Spare(f.saved))
      BY <1>2, <1>3, <2>4 DEF DepositsTo
    <3>2. Len(c) = 5 /\ Len(Tail(c)) = 4 /\ Deposits(Tail(c), h) /\ c[1].ref = h.ref
      BY <1>1, <1>2, <3>1, DepositsOn DEF DepositsBy
    <3>3. h.ref \notin DOMAIN t.holds /\ h.ref \in t.paid
      BY <1>4, <1>5, <1>6, <1>7, <3>2 DEF IsState
    <3>4. IsHold(h) /\ Spare(t) - Spare(f.saved) = 0
      BY <1>7, <3>1, <3>2 DEF DepositsBy
    <3>5. DepositsTo(f, t)
      <4>1. DepositsBy(f, t, h, 4, 0)
        BY <1>3, <3>2, <3>3, <3>4 DEF DepositsBy
      <4>2. QED
        BY <1>3, <3>2, <3>4, <4>1 DEF DepositsTo
    <3>6. QED
      BY <1>3, <1>8, <2>4, <3>5 DEF FrameOK
  <2>5. QED
    BY <1>1, <1>6, <2>1, <2>2, <2>3, <2>4, Kinds
<1>10. QED
  BY <1>1, <1>3, <1>4, <1>6, <1>7, <1>9, TopMoves

\* balanceBefore is what the contract has.
LEMMA MeasureKeeps ==
  ASSUME StackOK, Measure
  PROVE  StackOK'
<1>1. /\ stack # <<>> /\ Head(stack) = stack[1] /\ stack[1].code # <<>>
      /\ stack[1].code[1].do = "measure"
      /\ IsSeq(stack[1].code) /\ IsSeq(Tail(stack[1].code))
      /\ FrameOK(stack[1], Now, Len(stack) = 1)
  BY NextStep DEF Measure
<1>2. PICK c : c = stack[1].code
  OBVIOUS
<1>3. PICK f : f = [Head(stack) EXCEPT !.code = Tail(@), !.before = bal[Contract]]
  OBVIOUS
<1>4. stack' = <<f>> \o Tail(stack) /\ fee' = fee /\ Now' = Now
  BY <1>3 DEF Measure, Now
<1>5. DOMAIN stack[1] = {"code", "before", "saved"}
  BY <1>1 DEF FrameOK
<1>6. /\ DOMAIN f = {"code", "before", "saved"}
      /\ f.code = Tail(c) /\ f.before = bal[Contract] /\ f.saved = stack[1].saved
  BY <1>1, <1>2, <1>3, <1>5
<1>7. PICK s : s = Now /\ s = Now'
  BY <1>4
<1>8. IsState(s) /\ IsState(f.saved) /\ IsSeq(f.code) /\ s.bal = bal
  BY <1>1, <1>2, <1>6, <1>7 DEF FrameOK, StackOK, Now
<1>9. FrameOK(f, s, Len(stack) = 1)
  <2>1. ~SettlesTo(stack[1], s)
    <3>1. 1 \in 1 .. Len(c)
      BY <1>1, <1>2, TailOf
    <3>2. QED
      BY <1>1, <1>2, <3>1 DEF SettlesTo, Settles
  <2>2. ~BeginsAt(stack[1], s)
    BY <1>1 DEF BeginsAt, Begins
  <2>3. ~PaysTo(stack[1], s)
    BY <1>1, PaysOn DEF PaysTo
  <2>4. CASE Len(stack) = 1 /\ DepositsTo(stack[1], s)
    <3>1. PICK h : DepositsBy(stack[1], s, h, Len(c), Spare(s) - Spare(f.saved))
      BY <1>2, <1>6, <2>4 DEF DepositsTo
    <3>2. Len(c) = 4 /\ Len(Tail(c)) = 3 /\ Deposits(Tail(c), h)
      BY <1>1, <1>2, <3>1, DepositsOn DEF DepositsBy
    <3>3. /\ h.ref \in s.paid /\ h.ref \notin DOMAIN s.holds
          /\ IsHold(h) /\ Spare(s) - Spare(f.saved) = 0
      BY <3>1, <3>2 DEF DepositsBy
    <3>4. f.before \in Int /\ s.bal[Contract] - f.before <= 0
      BY <1>6, <1>8 DEF IsState
    <3>5. DepositsTo(f, s)
      <4>1. DepositsBy(f, s, h, 3, 0)
        BY <1>6, <3>2, <3>3, <3>4 DEF DepositsBy
      <4>2. QED
        BY <1>6, <3>2, <3>3, <4>1 DEF DepositsTo
    <3>6. QED
      BY <1>6, <1>8, <2>4, <3>5 DEF FrameOK
  <2>5. QED
    BY <1>1, <1>7, <2>1, <2>2, <2>3, <2>4, Kinds
<1>10. QED
  BY <1>1, <1>4, <1>6, <1>7, <1>8, <1>9, TopMoves

\* Money that leaves the contract was due; money that hold() brings in is what
\* the token did not keep.
LEMMA TransferKeeps ==
  ASSUME StackOK, Transfer
  PROVE  StackOK'
<1>1. /\ stack # <<>> /\ stack[1].code # <<>> /\ stack[1].code[1].do = "move"
      /\ This = stack[1].code[1]
      /\ IsSeq(stack[1].code) /\ IsSeq(Tail(stack[1].code))
      /\ FrameOK(stack[1], Now, Len(stack) = 1)
  BY NextStep DEF Transfer
<1>2. PICK c, m : c = stack[1].code /\ m = c[1]
  OBVIOUS
<1>3. PICK f : /\ stack' = <<f>> \o Tail(stack)
               /\ DOMAIN f = {"code", "before", "saved"}
               /\ f.code = Tail(c)
               /\ f.before = stack[1].before /\ f.saved = stack[1].saved
  BY <1>1, <1>2, Advanced DEF Transfer
<1>4. PICK arrived : arrived = IF fee < m.amount THEN m.amount - fee ELSE 0
  OBVIOUS
<1>5. /\ bal' = [bal EXCEPT ![m.from] = @ - m.amount, ![m.to] = @ + arrived]
      /\ fee' = fee /\ paid' = paid /\ holds' = holds
  BY <1>1, <1>2, <1>4 DEF Transfer
<1>6. PICK s, t : s = Now /\ t = Now'
  OBVIOUS
<1>7. /\ s.bal = bal /\ s.holds = holds /\ s.paid = paid
      /\ t.bal = bal' /\ t.holds = holds /\ t.paid = paid
      /\ t = [bal |-> t.bal, credits |-> t.credits, paid |-> t.paid, holds |-> t.holds]
  BY <1>5, <1>6 DEF Now
<1>8. IsState(s) /\ IsState(f.saved) /\ IsSeq(f.code) /\ fee \in Nat
  BY <1>1, <1>2, <1>3, <1>6 DEF StackOK, FrameOK
<1>9. PICK b \in Int : b = bal[Contract]
  BY <1>7, <1>8 DEF IsState
<1>10. /\ Contract \in DOMAIN bal /\ Contract \in DOMAIN bal'
       /\ Contract \notin Merchants /\ Contract # Payer /\ Contract # Collector
  BY <1>5, <1>7, <1>8, PartiesDiffer DEF IsState
<1>11. Spare(s) = b - Promised(holds) /\ Promised(holds) \in Int
  BY <1>7, <1>8, <1>9, SpareTyped, PromisedTyped DEF Spare
<1>12. ASSUME NEW d \in Int, bal'[Contract] = b + d, Spare(s) + d >= 0
       PROVE  IsState(t) /\ Spare(t) = Spare(s) + d
  <2>1. Spare(t) = Spare(s) + d
    BY <1>7, <1>9, <1>11, <1>12 DEF Spare
  <2>2. IsState(t)
    BY <1>7, <1>8, <1>10, <1>12, <2>1 DEF IsState
  <2>3. QED
    BY <2>1, <2>2
<1>13. IsState(t) /\ FrameOK(f, t, Len(stack) = 1)
  <2>1. CASE SettlesTo(stack[1], s)
    <3>1. m.from = Payer /\ m.to \in Merchants
      <4>1. 1 \in 1 .. Len(c)
        BY <1>1, <1>2, TailOf
      <4>2. QED
        BY <1>1, <1>2, <2>1, <4>1 DEF SettlesTo, Settles
    <3>2. bal'[Contract] = b + 0
      BY <1>5, <1>9, <1>10, <3>1
    <3>3. IsState(t) /\ Spare(t) = Spare(s)
      <4>1. Spare(s) + 0 >= 0 /\ Spare(s) \in Int
        BY <1>8, SpareTyped DEF IsState
      <4>2. QED
        BY <1>12, <3>2, <4>1
    <3>4. Shrinks(t, s)
      BY <1>7, <1>9, <3>2 DEF Shrinks
    <3>5. Settles(f.code)
      BY <1>1, <1>2, <1>3, <2>1, SettlesOn DEF SettlesTo
    <3>6. Shrinks(t, f.saved)
      BY <1>3, <1>8, <2>1, <3>3, <3>4, ShrinksOn DEF SettlesTo
    <3>7. SettlesTo(f, t)
      BY <1>3, <2>1, <3>3, <3>5, <3>6 DEF SettlesTo
    <3>8. QED
      BY <1>3, <1>8, <3>3, <3>7 DEF FrameOK
  <2>2. ~BeginsAt(stack[1], s)
    BY <1>1 DEF BeginsAt, Begins
  <2>3. CASE PaysTo(stack[1], s)
    <3>1. /\ Goes(Tail(c)) /\ Due(c) \in Nat /\ Due(Tail(c)) \in Nat
          /\ m.from = Contract /\ m.to \in Merchants \cup {Payer, Collector}
          /\ m.amount \in Nat /\ Due(Tail(c)) = Due(c) - m.amount
      BY <1>1, <1>2, <2>3, PaysOn DEF PaysTo
    <3>2. bal'[Contract] = b - m.amount
      BY <1>5, <1>9, <1>10, <3>1
    <3>3. PICK d \in Int : d = -m.amount
      BY <3>1
    <3>4. Spare(s) = Spare(f.saved) + Due(c) /\ Spare(f.saved) >= 0 /\ Spare(f.saved) \in Int
      BY <1>2, <1>3, <1>8, <2>3, SpareTyped DEF PaysTo, IsState
    <3>5. bal'[Contract] = b + d /\ Spare(s) + d = Spare(f.saved) + Due(Tail(c))
      BY <3>1, <3>2, <3>3, <3>4
    <3>6. Spare(s) + d >= 0
      BY <3>1, <3>4, <3>5
    <3>7. IsState(t) /\ Spare(t) = Spare(f.saved) + Due(f.code)
      BY <1>3, <1>12, <3>5, <3>6
    <3>8. Shrinks(t, s)
      BY <1>7, <1>9, <3>1, <3>2 DEF Shrinks
    <3>9. Shrinks(t, f.saved)
      BY <1>3, <1>8, <2>3, <3>7, <3>8, ShrinksOn DEF PaysTo
    <3>10. PaysTo(f, t)
      BY <1>3, <3>1, <3>7, <3>9 DEF PaysTo
    <3>11. QED
      BY <1>3, <1>8, <3>7, <3>10 DEF FrameOK
  <2>4. CASE Len(stack) = 1 /\ DepositsTo(stack[1], s)
    <3>1. PICK h : DepositsBy(stack[1], s, h, Len(c), Spare(s) - Spare(f.saved))
      BY <1>2, <1>3, <2>4 DEF DepositsTo
    <3>2. /\ Len(c) = 3 /\ Len(Tail(c)) = 2 /\ Deposits(Tail(c), h)
          /\ m.from = Payer /\ m.to = Contract /\ m.amount = h.amount
      BY <1>1, <1>2, <3>1, DepositsOn DEF DepositsBy
    <3>3. /\ h.ref \in s.paid /\ h.ref \notin DOMAIN s.holds
          /\ IsHold(h) /\ Spare(s) - Spare(f.saved) = 0
          /\ f.before \in Int /\ b - f.before <= 0
      BY <1>3, <1>7, <1>9, <3>1, <3>2 DEF DepositsBy
    <3>4. arrived \in Int /\ 0 <= arrived /\ arrived <= h.amount /\ h.amount \in Nat
      BY <1>4, <1>8, <3>2, <3>3 DEF IsHold
    <3>5. bal'[Contract] = b + arrived
      BY <1>5, <1>9, <1>10, <3>2
    <3>6. Spare(s) \in Int /\ Spare(f.saved) \in Int /\ Spare(s) >= 0
      BY <1>8, SpareTyped DEF IsState
    <3>7. IsState(t) /\ Spare(t) = Spare(s) + arrived
      BY <1>12, <3>4, <3>5, <3>6
    <3>8. Spare(t) - Spare(f.saved) = arrived
      BY <3>3, <3>4, <3>6, <3>7
    <3>9. t.bal[Contract] - f.before <= arrived
      BY <1>7, <3>3, <3>4, <3>5
    <3>10. DepositsBy(f, t, h, 2, arrived)
      BY <1>3, <1>7, <3>2, <3>3, <3>4, <3>9 DEF DepositsBy
    <3>11. DepositsTo(f, t)
      BY <1>3, <3>2, <3>8, <3>10 DEF DepositsTo
    <3>12. QED
      BY <1>3, <1>8, <2>4, <3>7, <3>11 DEF FrameOK
  <2>5. QED
    BY <1>1, <1>6, <2>1, <2>2, <2>3, <2>4, Kinds
<1>14. QED
  BY <1>1, <1>3, <1>5, <1>6, <1>13, TopMoves

\* The token's call back ends.
LEMMA MovedKeeps ==
  ASSUME StackOK, Moved
  PROVE  StackOK'
<1>1. /\ stack # <<>> /\ stack[1].code # <<>> /\ stack[1].code[1].do = "moved"
      /\ IsSeq(stack[1].code) /\ IsSeq(Tail(stack[1].code))
      /\ FrameOK(stack[1], Now, Len(stack) = 1)
  BY NextStep DEF Moved
<1>2. PICK c : c = stack[1].code
  OBVIOUS
<1>3. PICK f : /\ stack' = <<f>> \o Tail(stack)
               /\ DOMAIN f = {"code", "before", "saved"}
               /\ f.code = Tail(c)
               /\ f.before = stack[1].before /\ f.saved = stack[1].saved
  BY <1>1, <1>2, Advanced DEF Moved
<1>4. fee' = fee /\ Now' = Now
  BY DEF Moved, Now
<1>5. PICK s : s = Now /\ s = Now'
  BY <1>4
<1>6. IsState(s) /\ IsState(f.saved) /\ IsSeq(f.code)
  BY <1>1, <1>2, <1>3, <1>5 DEF StackOK, FrameOK
<1>7. FrameOK(f, s, Len(stack) = 1)
  <2>1. CASE SettlesTo(stack[1], s)
    <3>1. Settles(f.code)
      BY <1>1, <1>2, <1>3, <2>1, SettlesOn DEF SettlesTo
    <3>2. SettlesTo(f, s)
      BY <1>3, <2>1, <3>1 DEF SettlesTo
    <3>3. QED
      BY <1>3, <1>6, <3>2 DEF FrameOK
  <2>2. ~BeginsAt(stack[1], s)
    BY <1>1 DEF BeginsAt, Begins
  <2>3. CASE PaysTo(stack[1], s)
    <3>1. Goes(Tail(c)) /\ Due(Tail(c)) = Due(c)
      BY <1>1, <1>2, <2>3, PaysOn DEF PaysTo
    <3>2. PaysTo(f, s)
      BY <1>2, <1>3, <2>3, <3>1 DEF PaysTo
    <3>3. QED
      BY <1>3, <1>6, <3>2 DEF FrameOK
  <2>4. CASE Len(stack) = 1 /\ DepositsTo(stack[1], s)
    <3>1. PICK h, got : /\ got = Spare(s) - Spare(f.saved)
                        /\ DepositsBy(stack[1], s, h, Len(c), got)
      BY <1>2, <1>3, <2>4 DEF DepositsTo
    <3>2. Len(c) = 2 /\ Len(Tail(c)) = 1 /\ Deposits(Tail(c), h)
      BY <1>1, <1>2, <3>1, DepositsOn DEF DepositsBy
    <3>3. DepositsBy(f, s, h, 1, got)
      BY <1>3, <3>1, <3>2 DEF DepositsBy
    <3>4. DepositsTo(f, s)
      BY <1>3, <3>1, <3>2, <3>3 DEF DepositsTo
    <3>5. QED
      BY <1>3, <1>6, <2>4, <3>4 DEF FrameOK
  <2>5. QED
    BY <1>1, <1>5, <2>1, <2>2, <2>3, <2>4, Kinds
<1>8. QED
  BY <1>1, <1>3, <1>4, <1>5, <1>6, <1>7, TopMoves

\* hold() writes the record of money that arrived in full: had some call
\* inside taken money out meanwhile, less would be there than was measured.
LEMMA RecordKeeps ==
  ASSUME StackOK, Record
  PROVE  StackOK'
<1>1. /\ stack # <<>> /\ Head(stack) = stack[1]
      /\ stack[1].code # <<>> /\ stack[1].code[1].do = "record"
      /\ This = stack[1].code[1]
      /\ IsSeq(stack[1].code) /\ IsSeq(Tail(stack[1].code))
      /\ FrameOK(stack[1], Now, Len(stack) = 1)
  BY NextStep DEF Record
<1>2. PICK c : c = stack[1].code
  OBVIOUS
<1>3. PICK f : /\ stack' = <<f>> \o Tail(stack)
               /\ DOMAIN f = {"code", "before", "saved"}
               /\ f.code = Tail(c)
               /\ f.before = stack[1].before /\ f.saved = stack[1].saved
  BY <1>1, <1>2, Advanced DEF Record
<1>4. PICK s, t : s = Now /\ t = Now'
  OBVIOUS
<1>5. /\ s.bal = bal /\ s.holds = holds /\ s.paid = paid
      /\ t.bal = bal /\ t.holds = holds' /\ t.paid = paid /\ fee' = fee
      /\ t = [bal |-> t.bal, credits |-> t.credits, paid |-> t.paid, holds |-> t.holds]
  BY <1>4 DEF Now, Record
<1>6. IsState(s) /\ IsState(f.saved) /\ IsSeq(f.code)
  BY <1>1, <1>2, <1>3, <1>4 DEF StackOK, FrameOK
<1>7. Len(stack) = 1 /\ DepositsTo(stack[1], s)
  <2>1. ~SettlesTo(stack[1], s)
    <3>1. 1 \in 1 .. Len(c)
      BY <1>1, <1>2, TailOf
    <3>2. QED
      BY <1>1, <1>2, <3>1 DEF SettlesTo, Settles
  <2>2. ~BeginsAt(stack[1], s)
    BY <1>1 DEF BeginsAt, Begins
  <2>3. ~PaysTo(stack[1], s)
    BY <1>1, PaysOn DEF PaysTo
  <2>4. QED
    BY <1>1, <1>4, <2>1, <2>2, <2>3, Kinds
<1>8. PICK h, got : /\ got = Spare(s) - Spare(f.saved)
                    /\ DepositsBy(stack[1], s, h, Len(c), got)
  BY <1>2, <1>3, <1>7 DEF DepositsTo
<1>9. Len(c) = 1 /\ Len(Tail(c)) = 0 /\ Deposits(Tail(c), h) /\ c[1].hold = h
  BY <1>1, <1>2, <1>8, DepositsOn DEF DepositsBy
<1>10. /\ IsHold(h) /\ h.ref \in paid /\ h.ref \notin DOMAIN holds
       /\ f.before \in Int /\ bal[Contract] - f.before <= got
       /\ got \in 0 .. h.amount
  BY <1>3, <1>5, <1>8, <1>9 DEF DepositsBy
<1>11. bal[Contract] - f.before = h.amount /\ holds' = With(holds, h.ref, h)
  BY <1>1, <1>2, <1>3, <1>9 DEF Record, ArrivedWhole
<1>12. got = h.amount /\ h.amount \in Nat
  BY <1>10, <1>11 DEF IsHold
<1>13. /\ HasAmounts(holds) /\ HasAmounts(holds')
       /\ Promised(holds') = Promised(holds) + h.amount
  <2>1. HasAmounts(holds)
    BY <1>5, <1>6, SpareTyped
  <2>2. QED
    BY <1>10, <1>11, <1>12, <2>1, PromisedWith
<1>14. Spare(t) = Spare(f.saved) /\ Spare(t) - Spare(f.saved) = 0 /\ Spare(t) >= 0
  <2>1. Promised(holds) \in Int /\ Spare(f.saved) \in Int /\ Spare(f.saved) >= 0
    BY <1>6, <1>13, SpareTyped, PromisedTyped DEF IsState
  <2>2. bal[Contract] \in Int
    BY <1>5, <1>6 DEF IsState
  <2>3. Spare(s) = bal[Contract] - Promised(holds)
    BY <1>5 DEF Spare
  <2>4. Spare(t) = bal[Contract] - (Promised(holds) + h.amount)
    BY <1>5, <1>13 DEF Spare
  <2>5. QED
    BY <1>8, <1>12, <2>1, <2>2, <2>3, <2>4
<1>15. IsState(t)
  <2>1. DOMAIN holds' = DOMAIN holds \cup {h.ref}
    BY <1>11 DEF With
  <2>2. \A ref \in DOMAIN holds' : IsHold(holds'[ref])
    <3>1. \A ref \in DOMAIN holds' :
             holds'[ref] = IF ref = h.ref THEN h ELSE holds[ref]
      BY <1>11, <2>1 DEF With
    <3>2. QED
      BY <1>5, <1>6, <1>10, <2>1, <3>1 DEF IsState
  <2>3. IsFiniteSet(DOMAIN holds') /\ DOMAIN holds' \subseteq paid
    BY <1>5, <1>6, <1>10, <1>13, <2>1 DEF IsState, HasAmounts
  <2>4. Contract \in DOMAIN bal /\ bal[Contract] \in Int
    BY <1>5, <1>6 DEF IsState
  <2>5. QED
    BY <1>5, <1>14, <2>2, <2>3, <2>4 DEF IsState
<1>16. FrameOK(f, t, Len(stack) = 1)
  <2>1. DepositsBy(f, t, h, 0, 0)
    BY <1>3, <1>9, <1>10 DEF DepositsBy
  <2>2. DepositsTo(f, t)
    BY <1>3, <1>9, <1>14, <2>1 DEF DepositsTo
  <2>3. QED
    BY <1>3, <1>6, <1>7, <2>2 DEF FrameOK
<1>17. QED
  BY <1>1, <1>3, <1>4, <1>5, <1>15, <1>16, TopMoves

\* release() and refund() delete the record, and owe its amount.
LEMMA DropKeeps ==
  ASSUME StackOK, Drop
  PROVE  StackOK'
<1>1. /\ stack # <<>> /\ stack[1].code # <<>> /\ stack[1].code[1].do = "drop"
      /\ This = stack[1].code[1]
      /\ IsSeq(stack[1].code) /\ IsSeq(Tail(stack[1].code))
      /\ FrameOK(stack[1], Now, Len(stack) = 1)
  BY NextStep DEF Drop
<1>2. PICK c : c = stack[1].code
  OBVIOUS
<1>3. PICK f : /\ stack' = <<f>> \o Tail(stack)
               /\ DOMAIN f = {"code", "before", "saved"}
               /\ f.code = Tail(c)
               /\ f.before = stack[1].before /\ f.saved = stack[1].saved
  BY <1>1, <1>2, Advanced DEF Drop
<1>4. PICK s, t : s = Now /\ t = Now'
  OBVIOUS
<1>5. /\ s.bal = bal /\ s.holds = holds /\ s.paid = paid
      /\ t.bal = bal /\ t.holds = holds' /\ t.paid = paid /\ fee' = fee
      /\ t = [bal |-> t.bal, credits |-> t.credits, paid |-> t.paid, holds |-> t.holds]
  BY <1>4 DEF Now, Drop
<1>6. IsState(s) /\ IsState(f.saved) /\ IsSeq(f.code)
  BY <1>1, <1>2, <1>3, <1>4 DEF StackOK, FrameOK
<1>7. BeginsAt(stack[1], s)
  <2>1. ~SettlesTo(stack[1], s)
    <3>1. 1 \in 1 .. Len(c)
      BY <1>1, <1>2, TailOf
    <3>2. QED
      BY <1>1, <1>2, <3>1 DEF SettlesTo, Settles
  <2>2. ~DepositsTo(stack[1], s)
    <3>1. \A h : ~Deposits(c, h)
      BY <1>1, <1>2, DepositsOn
    <3>2. QED
      BY <1>2, <3>1 DEF DepositsTo, DepositsBy
  <2>3. ~PaysTo(stack[1], s)
    BY <1>1, PaysOn DEF PaysTo
  <2>4. QED
    BY <1>1, <1>4, <2>1, <2>2, <2>3, Kinds
<1>8. PICK ref : ref = c[1].ref
  OBVIOUS
<1>9. /\ s = f.saved /\ ref \in DOMAIN holds /\ holds[ref].amount = Due(c)
      /\ Begins(c)
  BY <1>2, <1>3, <1>5, <1>7, <1>8 DEF BeginsAt
<1>10. Goes(Tail(c)) /\ Due(c) \in Nat /\ Due(Tail(c)) = Due(c)
  BY <1>1, <1>2, <1>9, PaysOn
<1>11. holds' = Restrict(holds, DOMAIN holds \ {ref})
  BY <1>1, <1>2, <1>8 DEF Drop
<1>12. /\ DOMAIN holds' = DOMAIN holds \ {ref}
       /\ \A r \in DOMAIN holds' : holds'[r] = holds[r]
  BY <1>11 DEF Restrict
<1>13. Spare(t) = Spare(f.saved) + Due(Tail(c)) /\ Spare(t) >= 0
  <2>1. HasAmounts(holds) /\ Spare(s) >= 0 /\ Spare(s) \in Int
    BY <1>5, <1>6, SpareTyped DEF IsState
  <2>2. Promised(holds') = Promised(holds) - Due(c) /\ Promised(holds) \in Int
    BY <1>9, <1>11, <2>1, PromisedWithout, PromisedTyped
  <2>3. bal[Contract] \in Int
    BY <1>5, <1>6 DEF IsState
  <2>4. Spare(s) = bal[Contract] - Promised(holds)
    BY <1>5 DEF Spare
  <2>5. Spare(t) = bal[Contract] - (Promised(holds) - Due(c))
    BY <1>5, <2>2 DEF Spare
  <2>6. QED
    BY <1>9, <1>10, <2>1, <2>2, <2>3, <2>4, <2>5
<1>14. IsState(t)
  <2>1. IsFiniteSet(DOMAIN holds')
    BY <1>5, <1>6, <1>12, FS_Subset DEF IsState
  <2>2. QED
    BY <1>5, <1>6, <1>12, <1>13, <2>1 DEF IsState
<1>15. FrameOK(f, t, Len(stack) = 1)
  <2>1. Shrinks(t, f.saved)
    BY <1>5, <1>6, <1>9, <1>12 DEF Shrinks, IsState
  <2>2. PaysTo(f, t)
    BY <1>3, <1>10, <1>13, <2>1 DEF PaysTo
  <2>3. QED
    BY <1>3, <1>6, <2>2 DEF FrameOK
<1>16. QED
  BY <1>1, <1>3, <1>4, <1>5, <1>14, <1>15, TopMoves

\* A call that is over leaves nothing owed.
LEMMA LeaveKeeps ==
  ASSUME StackOK, Leave
  PROVE  StackOK'
<1>1. stack # <<>> /\ Head(stack).code = <<>> /\ stack' = Tail(stack) /\ fee' = fee
  BY DEF Leave
<1>2. PICK s : s = Now /\ s = Now'
  BY DEF Leave, Now
<1>0. PICK e : e = stack[1].saved
  OBVIOUS
<1>3. PICK n \in Nat \ {0} : n = Len(stack) /\ e = stack[1].saved
  BY <1>0, <1>1, Innermost, Zenon
<1>4. /\ stack[1].code = <<>> /\ FrameOK(stack[1], s, n = 1)
      /\ n = 1 => Spare(e) = 0
  BY <1>1, <1>2, <1>3, Innermost
<1>5. IsState(s) /\ IsState(e) /\ Len(stack[1].code) = 0
  BY <1>2, <1>3, <1>4, EmptyIsSeq DEF StackOK, FrameOK
<1>6. Spare(s) \in Int /\ Spare(e) \in Int
  BY <1>5, SpareTyped
<1>7. ~BeginsAt(stack[1], s)
  BY <1>5 DEF BeginsAt, Begins
<1>8. Spare(s) = Spare(e) /\ (n # 1 => Shrinks(s, e))
  <2>1. CASE SettlesTo(stack[1], s)
    BY <1>3, <2>1 DEF SettlesTo
  <2>2. CASE PaysTo(stack[1], s)
    <3>1. Due(stack[1].code) = 0
      BY <1>5, DueIs
    <3>2. QED
      BY <1>3, <1>6, <2>2, <3>1 DEF PaysTo
  <2>3. CASE n = 1 /\ DepositsTo(stack[1], s)
    <3>1. Spare(s) - Spare(e) = 0
      BY <1>3, <1>5, <2>3 DEF DepositsTo, DepositsBy
    <3>2. QED
      BY <1>6, <2>3, <3>1
  <2>4. QED
    BY <1>4, <1>7, <2>1, <2>2, <2>3, Kinds
<1>9. n = 1 => Spare(Now') = 0
  BY <1>2, <1>4, <1>8
<1>10. ASSUME n > 1
       PROVE  FrameOK(stack[2], Now', 2 = n)
  <2>1. 2 \in 1 .. n /\ 2 > 1 /\ Reached(2) = e
    BY <1>3, <1>10 DEF Reached
  <2>2. FrameOK(stack[2], e, 2 = n) /\ Waits(stack[2].code)
    BY <1>3, <2>1 DEF StackOK
  <2>3. Shrinks(s, e)
    BY <1>8, <1>10
  <2>4. FrameOK(stack[2], s, 2 = n)
    BY <1>5, <1>8, <2>2, <2>3, WaitingFrame
  <2>5. QED
    BY <1>2, <2>4
<1>11. IsState(Now)'
  BY <1>2, <1>5
<1>12. QED
  BY <1>1, <1>3, <1>9, <1>10, <1>11, TopLeaves

\* A call that fails leaves everything as it was when it began.
LEMMA RevertKeeps ==
  ASSUME StackOK, Revert
  PROVE  StackOK'
<1>1. stack # <<>> /\ stack' = Tail(stack) /\ fee' = fee
  BY DEF Revert, Fails, Does
<1>0. PICK e : e = stack[1].saved
  OBVIOUS
<1>2. PICK n \in Nat \ {0} : n = Len(stack) /\ e = stack[1].saved
  BY <1>0, <1>1, Innermost, Zenon
<1>3. /\ Head(stack) = stack[1] /\ FrameOK(stack[1], Now, n = 1)
      /\ n = 1 => Spare(e) = 0
  BY <1>1, <1>2, Innermost
<1>4. IsState(e)
  BY <1>2, <1>3 DEF FrameOK
<1>5. Now' = e
  <2>1. Now' = [bal |-> e.bal, credits |-> e.credits, paid |-> e.paid, holds |-> e.holds]
    BY <1>2, <1>3 DEF Now, Revert
  <2>2. QED
    BY <1>4, <2>1 DEF IsState
<1>6. ASSUME n > 1
      PROVE  FrameOK(stack[2], Now', 2 = n)
  <2>1. 2 \in 1 .. n /\ Reached(2) = e
    BY <1>2, <1>6 DEF Reached
  <2>2. FrameOK(stack[2], e, 2 = n)
    BY <1>2, <2>1 DEF StackOK
  <2>3. QED
    BY <1>5, <2>2
<1>7. QED
  BY <1>1, <1>2, <1>3, <1>4, <1>5, <1>6, TopLeaves
-----------------------------------------------------------------------------
(* The entry points.                                                       *)
Ref  == [id : STRING, merchant : Merchants, amount : Nat]
Item == [ref : Ref, account : Merchants, amount : Nat, creates : BOOLEAN]

LEMMA CallKeeps ==
  ASSUME StackOK, NEW who, NEW code, Call(who, code), IsSeq(code),
         \/ Settles(code)
         \/ /\ Begins(code) /\ code[1].ref \in DOMAIN holds
            /\ holds[code[1].ref].amount = Due(code)
         \/ /\ who = Relayer
            /\ \E h : IsHold(h) /\ Deposits(code, h) /\ Len(code) = 5
  PROVE  StackOK'
<1>1. PICK f : f = [code |-> code, before |-> 0, saved |-> Now]
  OBVIOUS
<1>2. stack' = <<f>> \o stack /\ fee' = fee /\ Now' = Now
  BY <1>1 DEF Call, Now
<1>3. f.code = code /\ f.saved = Now /\ DOMAIN f = {"code", "before", "saved"}
  BY <1>1
<1>4. IsState(Now) /\ Now.holds = holds
  BY DEF StackOK, Now
<1>5. stack # <<>> => Waits(stack[1].code) /\ who = Payer
  <2>1. SUFFICES ASSUME stack # <<>> PROVE Waits(stack[1].code) /\ who = Payer
    OBVIOUS
  <2>2. who = Payer /\ (Does("move") \/ Does("moved"))
    BY <2>1 DEF Call, MayCall
  <2>3. QED
    BY <2>2, NextStep DEF Waits
<1>6. PICK s : s = Now
  OBVIOUS
<1>7. Shrinks(s, s)
  BY <1>4, <1>6 DEF Shrinks, IsState
<1>8. CASE Settles(code)
  <2>1. SettlesTo(f, s)
    BY <1>3, <1>6, <1>7, <1>8 DEF SettlesTo
  <2>2. FrameOK(f, Now, stack = <<>>)
    BY <1>3, <1>4, <1>6, <2>1 DEF FrameOK
  <2>3. QED
    BY <1>2, <1>3, <1>5, <2>2, TopEnters
<1>9. CASE /\ Begins(code) /\ code[1].ref \in DOMAIN holds
           /\ holds[code[1].ref].amount = Due(code)
  <2>1. BeginsAt(f, s)
    BY <1>3, <1>4, <1>6, <1>9 DEF BeginsAt
  <2>2. FrameOK(f, Now, stack = <<>>)
    BY <1>3, <1>4, <1>6, <2>1 DEF FrameOK
  <2>3. QED
    BY <1>2, <1>3, <1>5, <2>2, TopEnters
<1>10. CASE /\ who = Relayer
            /\ \E h : IsHold(h) /\ Deposits(code, h) /\ Len(code) = 5
  <2>1. PICK h : IsHold(h) /\ Deposits(code, h) /\ Len(code) = 5
    BY <1>10
  <2>2. stack = <<>>
    BY <1>5, <1>10, PartiesDiffer
  <2>3. Spare(s) - Spare(f.saved) = 0
    BY <1>3, <1>4, <1>6, SpareTyped
  <2>4. DepositsBy(f, s, h, 5, 0)
    BY <1>3, <2>1 DEF DepositsBy
  <2>5. DepositsTo(f, s)
    BY <1>3, <2>1, <2>3, <2>4 DEF DepositsTo
  <2>6. FrameOK(f, Now, stack = <<>>)
    BY <1>3, <1>4, <1>6, <2>2, <2>5 DEF FrameOK
  <2>7. QED
    BY <1>2, <1>3, <1>5, <2>6, TopEnters
<1>11. QED
  BY <1>8, <1>9, <1>10

\* Two lists, one after the other.
LEMMA Joined ==
  ASSUME NEW a, IsSeq(a), NEW b, IsSeq(b)
  PROVE  /\ Len(a) \in Nat /\ Len(b) \in Nat
         /\ IsSeq(a \o b) /\ Len(a \o b) = Len(a) + Len(b)
         /\ \A i \in 1 .. Len(a) : (a \o b)[i] = a[i]
         /\ \A i \in Len(a) + 1 .. Len(a) + Len(b) : (a \o b)[i] = b[i - Len(a)]
<1>1. PICK S, T : a \in Seq(S) /\ b \in Seq(T)
  BY DEF IsSeq
<1>2. PICK U : U = S \cup T
  OBVIOUS
<1>3. a \in Seq(U) /\ b \in Seq(U)
  BY <1>1, <1>2
<1>4. /\ a \o b \in Seq(U) /\ Len(a \o b) = Len(a) + Len(b)
      /\ Len(a) \in Nat /\ Len(b) \in Nat
  BY <1>3
<1>5. \A i \in 1 .. Len(a) + Len(b) :
        (a \o b)[i] = IF i <= Len(a) THEN a[i] ELSE b[i - Len(a)]
  BY <1>3
<1>6. QED
  BY <1>4, <1>5 DEF IsSeq

LEMMA Single ==
  ASSUME NEW x
  PROVE  IsSeq(<<x>>) /\ Len(<<x>>) = 1 /\ <<x>>[1] = x
<1>1. <<x>> \in Seq({x})
  OBVIOUS
<1>2. QED
  BY <1>1 DEF IsSeq

LEMMA MoveIs ==
  ASSUME NEW ref, NEW from, NEW to, NEW amount
  PROVE  LET c == Move(ref, from, to, amount)
         IN  /\ IsSeq(c) /\ Len(c) = 2
             /\ c[1].do = "move" /\ c[1].from = from /\ c[1].to = to
             /\ c[1].amount = amount /\ c[1].ref = ref
             /\ c[2].do = "moved"
<1>1. PICK x, y : /\ x = [do |-> "move", ref |-> ref, from |-> from, to |-> to, amount |-> amount]
                  /\ y = [do |-> "moved"]
  OBVIOUS
<1>2. <<x, y>> \in Seq({x, y})
  OBVIOUS
<1>3. IsSeq(<<x, y>>) /\ Len(<<x, y>>) = 2 /\ <<x, y>>[1] = x /\ <<x, y>>[2] = y
  BY <1>2 DEF IsSeq
<1>4. Move(ref, from, to, amount) = <<x, y>>
  BY <1>1 DEF Move
<1>5. /\ x.do = "move" /\ x.from = from /\ x.to = to /\ x.amount = amount
      /\ x.ref = ref /\ y.do = "moved"
  BY <1>1
<1>6. QED
  BY <1>3, <1>4, <1>5

\* A step and a transfer, and what follows.
LEMMA StepThenMove ==
  ASSUME NEW x, NEW ref, NEW from, NEW to, NEW amount
  PROVE  LET c == <<x>> \o Move(ref, from, to, amount)
         IN  /\ IsSeq(c) /\ Len(c) = 3 /\ c[1] = x
             /\ c[2].do = "move" /\ c[2].from = from /\ c[2].to = to
             /\ c[2].amount = amount /\ c[2].ref = ref
             /\ c[3].do = "moved"
<1>1. PICK a, b : a = <<x>> /\ b = Move(ref, from, to, amount)
  OBVIOUS
<1>2. IsSeq(a) /\ Len(a) = 1 /\ a[1] = x
  BY <1>1, Single
<1>3. /\ IsSeq(b) /\ Len(b) = 2
      /\ b[1].do = "move" /\ b[1].from = from /\ b[1].to = to /\ b[1].amount = amount
      /\ b[1].ref = ref /\ b[2].do = "moved"
  BY <1>1, MoveIs
<1>4. /\ IsSeq(a \o b) /\ Len(a \o b) = 3 /\ (a \o b)[1] = x
      /\ (a \o b)[2] = b[1] /\ (a \o b)[3] = b[2]
  <2>1. /\ IsSeq(a \o b) /\ Len(a \o b) = 3
        /\ \A i \in 1 .. 1 : (a \o b)[i] = a[i]
        /\ \A i \in 2 .. 3 : (a \o b)[i] = b[i - 1]
    <3>1. /\ IsSeq(a \o b) /\ Len(a \o b) = Len(a) + Len(b)
          /\ \A i \in 1 .. Len(a) : (a \o b)[i] = a[i]
          /\ \A i \in Len(a) + 1 .. Len(a) + Len(b) : (a \o b)[i] = b[i - Len(a)]
      BY <1>2, <1>3, Joined, ZenonT(60)
    <3>2. Len(a) = 1 /\ Len(a) + 1 = 2 /\ Len(a) + Len(b) = 3
      BY <1>2, <1>3
    <3>3. QED
      BY <3>1, <3>2
  <2>2. 1 \in 1 .. 1 /\ 2 \in 2 .. 3 /\ 3 \in 2 .. 3 /\ 2 - 1 = 1 /\ 3 - 1 = 2
    OBVIOUS
  <2>3. QED
    BY <1>2, <2>1, <2>2
<1>5. QED
  BY <1>1, <1>3, <1>4

LEMMA SettleOneIs ==
  ASSUME NEW it \in Item
  PROVE  LET c == SettleOne(Payer, it)
         IN  /\ IsSeq(c) /\ Len(c) = 3 /\ Settles(c)
             /\ c[1].do = "reserve" /\ c[3].do = "moved"
             /\ c[2].do = "move" /\ c[2].from = Payer /\ c[2].to \in Merchants
             /\ c[2].amount \in Nat
             /\ c[1].ref = it.ref /\ c[2].ref = it.ref
<1>1. PICK x : x = [do |-> "reserve", ref |-> it.ref]
  OBVIOUS
<1>2. PICK c : c = <<x>> \o Move(it.ref, Payer, it.account, it.amount)
  OBVIOUS
<1>3. /\ IsSeq(c) /\ Len(c) = 3 /\ c[1] = x
      /\ c[2].do = "move" /\ c[2].from = Payer /\ c[2].to = it.account
      /\ c[2].amount = it.amount /\ c[2].ref = it.ref /\ c[3].do = "moved"
  BY <1>2, StepThenMove
<1>4. x.do = "reserve" /\ x.ref = it.ref /\ it.account \in Merchants /\ it.amount \in Nat
  BY <1>1 DEF Item
<1>5. Settles(c)
  <2>1. \A i \in 1 .. 3 : i = 1 \/ i = 2 \/ i = 3
    OBVIOUS
  <2>2. QED
    BY <1>3, <1>4, <2>1 DEF Settles
<1>6. SettleOne(Payer, it) = c
  BY <1>1, <1>2 DEF SettleOne
<1>7. QED
  BY <1>3, <1>4, <1>5, <1>6

\* pay, settle and settleWithPermit.
LEMMA SettleOneKeeps ==
  ASSUME StackOK, NEW it \in Item, NEW who, Call(who, SettleOne(Payer, it))
  PROVE  StackOK'
<1>1. PICK c : c = SettleOne(Payer, it)
  OBVIOUS
<1>2. IsSeq(c) /\ Settles(c) /\ Call(who, c)
  BY <1>1, SettleOneIs
<1>3. QED
  BY <1>2, CallKeeps

LEMMA SettleBatchKeeps ==
  ASSUME StackOK, NEW items \in Seq(Item), SettleBatch(items)
  PROVE  StackOK'
<1>1. PICK n \in Nat : n = Len(items)
  OBVIOUS
<1>2. PICK c : c = [k \in 1 .. 3 * n |->
                      SettleOne(Payer, items[((k - 1) \div 3) + 1])[((k - 1) % 3) + 1]]
  OBVIOUS
<1>3. Call(Relayer, c)
  BY <1>1, <1>2 DEF SettleBatch
<1>4. IsSeq(c) /\ Len(c) = 3 * n
  <2>1. PICK S : S = {c[k] : k \in 1 .. 3 * n}
    OBVIOUS
  <2>2. 3 * n \in Nat
    OBVIOUS
  <2>3. c \in [1 .. 3 * n -> S]
    BY <1>2, <2>1
  <2>4. c \in Seq(S)
    BY <2>2, <2>3
  <2>5. DOMAIN c = 1 .. 3 * n
    BY <1>2
  <2>6. Len(c) = 3 * n
    BY <2>2, <2>4, <2>5, LenProperties
  <2>7. QED
    BY <2>4, <2>6 DEF IsSeq
<1>5. ASSUME NEW k \in 1 .. 3 * n
      PROVE  \/ c[k].do = "reserve"
             \/ c[k].do = "moved"
             \/ /\ c[k].do = "move" /\ c[k].from = Payer /\ c[k].to \in Merchants
                /\ c[k].amount \in Nat
  <2>1. PICK j, r : j = ((k - 1) \div 3) + 1 /\ r = ((k - 1) % 3) + 1
    OBVIOUS
  <2>2. j \in 1 .. n /\ r \in 1 .. 3
    BY <2>1
  <2>3. c[k] = SettleOne(Payer, items[j])[r]
    BY <1>2, <2>1
  <2>4. items[j] \in Item
    BY <1>1, <2>2
  <2>5. PICK d : d = SettleOne(Payer, items[j])
    OBVIOUS
  <2>6. /\ d[1].do = "reserve" /\ d[3].do = "moved"
        /\ d[2].do = "move" /\ d[2].from = Payer /\ d[2].to \in Merchants
        /\ d[2].amount \in Nat
    BY <2>4, <2>5, SettleOneIs
  <2>7. r = 1 \/ r = 2 \/ r = 3
    BY <2>2
  <2>8. QED
    BY <2>3, <2>5, <2>6, <2>7
<1>6. Settles(c)
  BY <1>4, <1>5 DEF Settles
<1>7. QED
  BY <1>3, <1>4, <1>6, CallKeeps

\* hold(): the ref, the balance before, the transfer, the record.
LEMMA HoldKeeps ==
  ASSUME StackOK, NEW it \in Item, NEW due, Hold(it, due), HoldFee \in Nat
  PROVE  StackOK'
<1>1. PICK x, y, z, h : /\ x = [do |-> "reserve", ref |-> it.ref]
                        /\ y = [do |-> "measure"]
                        /\ z = [do |-> "record", hold |-> HoldOf(it, due)]
                        /\ h = HoldOf(it, due)
  OBVIOUS
<1>2. PICK a, b, d : a = <<x, y>> /\ b = Move(it.ref, Payer, Contract, it.amount) /\ d = <<z>>
  OBVIOUS
<1>3. IsSeq(a) /\ Len(a) = 2 /\ a[1] = x /\ a[2] = y
  <2>1. <<x, y>> \in Seq({x, y})
    OBVIOUS
  <2>2. QED
    BY <1>2, <2>1 DEF IsSeq
<1>4. /\ IsSeq(b) /\ Len(b) = 2
      /\ b[1].do = "move" /\ b[1].from = Payer /\ b[1].to = Contract
      /\ b[1].amount = it.amount
      /\ b[2].do = "moved"
  BY <1>2, MoveIs
<1>5. IsSeq(d) /\ Len(d) = 1 /\ d[1] = z
  BY <1>2, Single
<1>6. PICK e : e = a \o b
  OBVIOUS
<1>7. /\ IsSeq(e) /\ Len(e) = 4
      /\ e[1] = x /\ e[2] = y /\ e[3] = b[1] /\ e[4] = b[2]
  <2>1. /\ IsSeq(e) /\ Len(e) = Len(a) + Len(b)
        /\ \A i \in 1 .. Len(a) : e[i] = a[i]
        /\ \A i \in Len(a) + 1 .. Len(a) + Len(b) : e[i] = b[i - Len(a)]
    BY <1>3, <1>4, <1>6, Joined, ZenonT(60)
  <2>2. Len(a) = 2 /\ Len(a) + 1 = 3 /\ Len(a) + Len(b) = 4
    BY <1>3, <1>4
  <2>3. /\ IsSeq(e) /\ Len(e) = 4
        /\ \A i \in 1 .. 2 : e[i] = a[i]
        /\ \A i \in 3 .. 4 : e[i] = b[i - 2]
    BY <2>1, <2>2
  <2>4. 3 - 2 = 1 /\ 4 - 2 = 2
    OBVIOUS
  <2>5. QED
    BY <1>3, <2>3, <2>4
<1>8. PICK c : c = e \o d
  OBVIOUS
<1>9. /\ IsSeq(c) /\ Len(c) = 5
      /\ c[1] = x /\ c[2] = y /\ c[3] = b[1] /\ c[4] = b[2] /\ c[5] = z
  <2>1. /\ IsSeq(c) /\ Len(c) = Len(e) + Len(d)
        /\ \A i \in 1 .. Len(e) : c[i] = e[i]
        /\ \A i \in Len(e) + 1 .. Len(e) + Len(d) : c[i] = d[i - Len(e)]
    BY <1>5, <1>7, <1>8, Joined, ZenonT(60)
  <2>2. Len(e) = 4 /\ Len(e) + 1 = 5 /\ Len(e) + Len(d) = 5
    BY <1>5, <1>7
  <2>3. /\ IsSeq(c) /\ Len(c) = 5
        /\ \A i \in 1 .. 4 : c[i] = e[i]
        /\ \A i \in 5 .. 5 : c[i] = d[i - 4]
    BY <2>1, <2>2
  <2>4. 5 - 4 = 1
    OBVIOUS
  <2>5. QED
    BY <1>5, <1>7, <2>3, <2>4
<1>10. IsHold(h) /\ h.ref = it.ref /\ h.amount = it.amount
  <2>1. HoldFee < it.amount
    BY DEF Hold
  <2>2. QED
    BY <1>1, <2>1 DEF HoldOf, IsHold, Item
<1>11. Deposits(c, h)
  <2>1. /\ x.do = "reserve" /\ x.ref = h.ref /\ y.do = "measure"
        /\ z.do = "record" /\ z.hold = h
    BY <1>1, <1>10
  <2>2. /\ c[1].do = "reserve" /\ c[1].ref = h.ref
        /\ c[2].do = "measure"
        /\ c[3].do = "move" /\ c[3].from = Payer
        /\ c[3].to = Contract /\ c[3].amount = h.amount
        /\ c[4].do = "moved"
        /\ c[5].do = "record" /\ c[5].hold = h
    BY <1>4, <1>9, <1>10, <2>1
  <2>3. 5 - 3 = 2 /\ 5 - 2 = 3 /\ 5 - 1 = 4
    OBVIOUS
  <2>4. QED
    BY <1>9, <2>2, <2>3 DEF Deposits
<1>12. Call(Relayer, c)
  BY <1>1, <1>2, <1>6, <1>8 DEF Hold
<1>13. QED
  BY <1>9, <1>10, <1>11, <1>12, CallKeeps

\* release(): the record, the merchant, the fee if there is one.
LEMMA ReleaseKeeps ==
  ASSUME StackOK, NEW ref, Release(ref)
  PROVE  StackOK'
<1>1. PICK h : h = holds[ref]
  OBVIOUS
<1>2. ref \in DOMAIN holds /\ IsHold(h)
  <2>1. ref \in DOMAIN holds
    BY DEF Release
  <2>2. QED
    BY <1>1, <2>1 DEF StackOK, IsState, Now
<1>3. PICK x : x = [do |-> "drop", ref |-> ref]
  OBVIOUS
<1>4. PICK a : a = <<x>> \o Move(ref, Contract, h.merchant, h.amount - h.fee)
  OBVIOUS
<1>5. /\ IsSeq(a) /\ Len(a) = 3 /\ a[1] = x
      /\ a[2].do = "move" /\ a[2].from = Contract /\ a[2].to = h.merchant
      /\ a[2].amount = h.amount - h.fee
      /\ a[3].do = "moved"
  BY <1>4, StepThenMove
<1>6. x.do = "drop" /\ x.ref = ref
  BY <1>3
<1>7. /\ h.merchant \in Merchants \cup {Payer, Collector}
      /\ h.amount \in Nat /\ h.fee \in Nat /\ h.amount - h.fee \in Nat
  BY <1>2 DEF IsHold
<1>8. PaysAt(a, 2)
  <2>1. 2 + 1 = 3
    OBVIOUS
  <2>2. QED
    BY <1>5, <1>7, <2>1 DEF PaysAt
<1>9. PICK b : b = IF h.fee > 0 THEN Move(ref, Contract, Collector, h.fee) ELSE <<>>
  OBVIOUS
<1>10. PICK c : c = a \o b
  OBVIOUS
<1>11. Call(Relayer, c)
  BY <1>1, <1>3, <1>4, <1>9, <1>10 DEF Release
<1>12. CASE h.fee > 0
  <2>1. /\ IsSeq(b) /\ Len(b) = 2
        /\ b[1].do = "move" /\ b[1].from = Contract /\ b[1].to = Collector
        /\ b[1].amount = h.fee
        /\ b[2].do = "moved"
    BY <1>9, <1>12, MoveIs
  <2>2. /\ IsSeq(c) /\ Len(c) = 5
        /\ c[1] = a[1] /\ c[2] = a[2] /\ c[3] = a[3] /\ c[4] = b[1] /\ c[5] = b[2]
    <3>1. /\ IsSeq(c) /\ Len(c) = Len(a) + Len(b)
          /\ \A i \in 1 .. Len(a) : c[i] = a[i]
          /\ \A i \in Len(a) + 1 .. Len(a) + Len(b) : c[i] = b[i - Len(a)]
      BY <1>5, <1>10, <2>1, Joined, ZenonT(60)
    <3>2. Len(a) = 3 /\ Len(a) + 1 = 4 /\ Len(a) + Len(b) = 5
      BY <1>5, <2>1
    <3>3. /\ IsSeq(c) /\ Len(c) = 5
          /\ \A i \in 1 .. 3 : c[i] = a[i]
          /\ \A i \in 4 .. 5 : c[i] = b[i - 3]
      BY <3>1, <3>2
    <3>4. 4 - 3 = 1 /\ 5 - 3 = 2
      OBVIOUS
    <3>5. QED
      BY <3>3, <3>4
  <2>3. PaysAt(c, 2) /\ PaysAt(c, 4)
    <3>1. 2 + 1 = 3 /\ 4 + 1 = 5
      OBVIOUS
    <3>2. QED
      BY <1>5, <1>7, <2>1, <2>2, <3>1 DEF PaysAt
  <2>4. Begins(c) /\ c[1].ref = ref
    BY <1>5, <1>6, <2>2, <2>3 DEF Begins
  <2>5. Due(c) = c[2].amount + c[4].amount
    BY <2>2, <2>3, DueIs
  <2>6. holds[c[1].ref].amount = Due(c)
    BY <1>1, <1>5, <1>7, <2>1, <2>2, <2>4, <2>5
  <2>7. QED
    BY <1>2, <1>11, <2>2, <2>4, <2>6, CallKeeps
<1>13. CASE ~(h.fee > 0)
  <2>1. IsSeq(b) /\ Len(b) = 0
    BY <1>9, <1>13, EmptyIsSeq
  <2>2. /\ IsSeq(c) /\ Len(c) = 3
        /\ c[1] = a[1] /\ c[2] = a[2] /\ c[3] = a[3]
    <3>1. /\ IsSeq(c) /\ Len(c) = Len(a) + Len(b)
          /\ \A i \in 1 .. Len(a) : c[i] = a[i]
          /\ \A i \in Len(a) + 1 .. Len(a) + Len(b) : c[i] = b[i - Len(a)]
      <4>1. IsSeq(a) /\ IsSeq(b)
        BY <1>5, <2>1
      <4>2. QED
        BY <1>10, <4>1, Joined
    <3>2. Len(a) = 3 /\ Len(a) + Len(b) = 3
      BY <1>5, <2>1
    <3>3. QED
      BY <3>1, <3>2
  <2>3. PaysAt(c, 2)
    <3>1. 2 + 1 = 3
      OBVIOUS
    <3>2. QED
      BY <1>5, <1>7, <2>2, <3>1 DEF PaysAt
  <2>4. Begins(c) /\ c[1].ref = ref
    BY <1>5, <1>6, <2>2, <2>3 DEF Begins
  <2>5. Due(c) = c[2].amount
    BY <2>2, <2>3, DueIs
  <2>6. h.fee = 0
    BY <1>7, <1>13
  <2>7. holds[c[1].ref].amount = Due(c)
    BY <1>1, <1>5, <1>7, <2>2, <2>4, <2>5, <2>6
  <2>8. QED
    BY <1>2, <1>11, <2>2, <2>4, <2>7, CallKeeps
<1>14. QED
  BY <1>12, <1>13

\* refund(): the record, and all of it back to the payer.
LEMMA RefundKeeps ==
  ASSUME StackOK, NEW who, NEW ref, Refund(who, ref)
  PROVE  StackOK'
<1>1. PICK h : h = holds[ref]
  OBVIOUS
<1>2. ref \in DOMAIN holds /\ IsHold(h)
  <2>1. ref \in DOMAIN holds
    BY DEF Refund
  <2>2. QED
    BY <1>1, <2>1 DEF StackOK, IsState, Now
<1>3. PICK x : x = [do |-> "drop", ref |-> ref]
  OBVIOUS
<1>4. PICK c : c = <<x>> \o Move(ref, Contract, h.payer, h.amount)
  OBVIOUS
<1>5. /\ IsSeq(c) /\ Len(c) = 3 /\ c[1] = x
      /\ c[2].do = "move" /\ c[2].from = Contract /\ c[2].to = h.payer
      /\ c[2].amount = h.amount
      /\ c[3].do = "moved"
  BY <1>4, StepThenMove
<1>6. x.do = "drop" /\ x.ref = ref
  BY <1>3
<1>7. PaysAt(c, 2)
  <2>1. 2 + 1 = 3
    OBVIOUS
  <2>2. QED
    BY <1>2, <1>5, <2>1 DEF PaysAt, IsHold
<1>8. Begins(c) /\ c[1].ref = ref
  BY <1>5, <1>6, <1>7 DEF Begins
<1>9. holds[c[1].ref].amount = Due(c)
  BY <1>1, <1>5, <1>7, <1>8, DueIs
<1>10. Call(who, c)
  BY <1>1, <1>3, <1>4 DEF Refund
<1>11. QED
  BY <1>2, <1>5, <1>8, <1>9, <1>10, CallKeeps
-----------------------------------------------------------------------------
(* What Submit makes of a file.  The folds of Bulk take the elements of a  *)
(* list one after the other, the last one last.                            *)

\* As long as g has stayed in V, it folds F over S.
FoldsIn(g, S, V, F, pick) ==
  /\ IsFiniteSet(S) /\ JP!Choice(pick, S)
  /\ \A x \in S, v \in V : F[<<x, v>>] \in V
  /\ g[{}] \in V
  /\ \A s \in SUBSET S :
       s # {} /\ g[s \ {pick[s]}] \in V => g[s] = F[<<pick[s], g[s \ {pick[s]}]>>]

\* What starts in V and is kept in V ends in V.
LEMMA StaysIn ==
  ASSUME NEW g, NEW S, NEW V, NEW F, NEW pick, FoldsIn(g, S, V, F, pick)
  PROVE  g[S] \in V
<1> USE DEF FoldsIn
<1> DEFINE D == {s \in SUBSET S : g[s] \notin V}
<1>1. D = {}
  <2> SUFFICES ASSUME D # {} PROVE FALSE
    OBVIOUS
  <2>1. PICK s \in D : \A u \in SUBSET s : u # s => u \notin D
    <3>1. D \subseteq SUBSET S
      OBVIOUS
    <3>2. JP!IsFiniteSet(S)
      BY DEF JP!IsFiniteSet, IsFiniteSet
    <3> HIDE DEF D
    <3>3. QED
      BY <3>1, <3>2, SumsAreThere, JP!MinimalSubset
  <2>2. s \in SUBSET S /\ g[s] \notin V /\ s # {}
    OBVIOUS
  <2>3. pick[s] \in s
    BY <2>2 DEF JP!Choice
  <2>4. s \ {pick[s]} \in SUBSET s /\ s \ {pick[s]} # s /\ s \ {pick[s]} \in SUBSET S
    BY <2>2, <2>3
  <2>5. g[s \ {pick[s]}] \in V
    BY <2>1, <2>4
  <2>6. g[s] = F[<<pick[s], g[s \ {pick[s]}]>>] /\ pick[s] \in S
    BY <2>2, <2>3, <2>5
  <2>7. QED
    BY <2>2, <2>5, <2>6
<1>2. S \in SUBSET S
  OBVIOUS
<1>3. QED
  BY <1>1, <1>2

LEMMA LastChosen ==
  ASSUME NEW n \in Nat
  PROVE  /\ IsFiniteSet(1 .. n)
         /\ JP!Choice([s \in SUBSET (1 .. n) |-> Max(s)], 1 .. n)
<1>1. IsFiniteSet(1 .. n)
  BY FS_Interval
<1>2. ASSUME NEW s \in SUBSET (1 .. n), s # {}
      PROVE  Max(s) \in s
  <2>1. IsFiniteSet(s) /\ s \subseteq Int
    <3>1. s \subseteq 1 .. n /\ s \subseteq Int
      OBVIOUS
    <3>2. QED
      BY <1>1, <3>1, FS_Subset
  <2>2. JP!IsFiniteSet(s)
    BY <2>1 DEF JP!IsFiniteSet, IsFiniteSet
  <2>3. JP!Max(s) \in s
    BY <1>2, <2>1, <2>2, SumsAreThere, JP!MaxIn
  <2>4. QED
    BY <2>3 DEF JP!Max, Max
<1>3. QED
  BY <1>1, <1>2 DEF JP!Choice

\* Induction from 0 to n, for a set.
LEMMA UpTo ==
  ASSUME NEW n \in Nat, NEW S, 0 \in S,
         \A k \in 0 .. n - 1 : k \in S => k + 1 \in S
  PROVE  \A k \in 0 .. n : k \in S
<1> DEFINE D == {T \in SUBSET (0 .. n) : \E k \in 0 .. n : k \notin S /\ T = 0 .. k}
<1> SUFFICES ASSUME D # {} PROVE FALSE
  <2> SUFFICES ASSUME NEW k \in 0 .. n, k \notin S PROVE D # {}
    OBVIOUS
  <2>1. 0 .. k \in D
    OBVIOUS
  <2>2. QED
    BY <2>1
<1>1. PICK T \in D : \A U \in SUBSET T : U # T => U \notin D
  <2>1. IsFiniteSet(0 .. n)
    BY FS_Interval
  <2>2. D \subseteq SUBSET (0 .. n)
    OBVIOUS
  <2> HIDE DEF D
  <2>3. JP!IsFiniteSet(0 .. n)
    BY <2>1 DEF JP!IsFiniteSet, IsFiniteSet
  <2>4. QED
    BY <2>2, <2>3, SumsAreThere, JP!MinimalSubset
<1>2. PICK k \in 0 .. n : k \notin S /\ T = 0 .. k
  OBVIOUS
<1>3. k # 0 /\ k - 1 \in 0 .. n - 1 /\ k - 1 \in 0 .. n /\ (k - 1) + 1 = k
  BY <1>2
<1>4. 0 .. k - 1 \in SUBSET T /\ k \in T /\ k \notin 0 .. k - 1
  BY <1>2
<1>5. 0 .. k - 1 \notin D
  BY <1>1, <1>4
<1>6. k - 1 \in S
  BY <1>3, <1>5
<1>7. QED
  BY <1>2, <1>3, <1>6

\* Lines goes through the file, line by line.
LEMMA LinesAre ==
  ASSUME NEW file_, NEW n \in Nat, DOMAIN file_ = 1 .. n, NEW chosen
  PROVE  \E c : /\ c[0] = <<>> /\ c[n] = Lines(file_, chosen)
                /\ \A k \in 0 .. n - 1 :
                     c[k + 1] = IF k + 1 \in chosen THEN Append(c[k], k + 1) ELSE c[k]
<1> DEFINE V == Seq(1 .. n)
           e == [i \in DOMAIN file_ |-> i]
           pick == [s \in SUBSET (1 .. n) |-> Max(s)]
           F == [p \in (1 .. n) \X V |->
                   IF p[1] \in chosen THEN Append(p[2], p[1]) ELSE p[2]]
           Q(h) == h = [s \in SUBSET DOMAIN e |->
                          IF s = {} THEN <<>>
                          ELSE IF e[Max(s)] \in chosen
                               THEN Append(h[s \ {Max(s)}], e[Max(s)])
                               ELSE h[s \ {Max(s)}]]
           it == CHOOSE h : Q(h)
<1>1. IsFiniteSet(1 .. n) /\ JP!Choice(pick, 1 .. n) /\ <<>> \in V
  <2>1. IsFiniteSet(1 .. n) /\ JP!Choice(pick, 1 .. n)
    BY LastChosen
  <2>2. QED
    BY <2>1
<1>2. \A x \in 1 .. n, v \in V :
        /\ F[<<x, v>>] = IF x \in chosen THEN Append(v, x) ELSE v
        /\ F[<<x, v>>] \in V
  <2>1. ASSUME NEW x \in 1 .. n, NEW v \in V
        PROVE  (IF x \in chosen THEN Append(v, x) ELSE v) \in V
    <3>1. PICK W : W = 1 .. n
      OBVIOUS
    <3>2. v \in Seq(W) /\ x \in W
      BY <3>1
    <3>3. Append(v, x) \in Seq(W)
      BY <3>2
    <3>4. QED
      BY <3>1, <3>3
  <2>2. \A p \in (1 .. n) \X V : F[p] = IF p[1] \in chosen THEN Append(p[2], p[1]) ELSE p[2]
    OBVIOUS
  <2> HIDE DEF F, V
  <2>3. QED
    BY <2>1, <2>2
<1>3. /\ DOMAIN e = 1 .. n /\ \A x \in 1 .. n : e[x] = x
      /\ \A s \in SUBSET (1 .. n) : pick[s] = Max(s)
  OBVIOUS
<1>4. Lines(file_, chosen) = it[DOMAIN e]
  BY DEF Lines, FoldLeftDomain, FoldLeft, MapThenFoldSet
<1> HIDE DEF F, pick, e, V
<1>5. \E h : Q(h)
  <2>1. JP!IsFiniteSet(1 .. n)
    BY <1>1 DEF JP!IsFiniteSet, IsFiniteSet
  <2>2. PICK g \in [SUBSET (1 .. n) -> V] : JP!Folding(g, 1 .. n, <<>>, pick, F)
    BY <1>1, <1>2, <2>1, SumsAreThere, JP!FoldingExists
  <2>3. ASSUME NEW s \in SUBSET (1 .. n)
        PROVE  g[s] = IF s = {} THEN <<>>
                      ELSE IF e[Max(s)] \in chosen
                           THEN Append(g[s \ {Max(s)}], e[Max(s)])
                           ELSE g[s \ {Max(s)}]
    <3>1. CASE s = {}
      BY <2>2, <3>1 DEF JP!Folding
    <3>2. CASE s # {}
      <4>1. pick[s] \in s /\ pick[s] = Max(s)
        BY <1>1, <1>3, <3>2 DEF JP!Choice
      <4>2. g[s] = F[<<pick[s], g[s \ {pick[s]}]>>]
        BY <2>2, <3>2 DEF JP!Folding
      <4>3. g[s \ {pick[s]}] \in V /\ pick[s] \in 1 .. n
        BY <2>2, <4>1
      <4>4. QED
        BY <1>2, <1>3, <3>2, <4>1, <4>2, <4>3
    <3>3. QED
      BY <3>1, <3>2
  <2>4. g = [s \in SUBSET (1 .. n) |-> g[s]]
    BY <2>2
  <2>5. g = [s \in SUBSET (1 .. n) |->
               IF s = {} THEN <<>>
               ELSE IF e[Max(s)] \in chosen
                    THEN Append(g[s \ {Max(s)}], e[Max(s)])
                    ELSE g[s \ {Max(s)}]]
    BY <2>3, <2>4
  <2>6. Q(g)
    BY <1>3, <2>5
  <2>7. QED
    BY <2>6
<1>6. Q(it)
  <2> HIDE DEF Q
  <2>1. QED
    BY <1>5
<1> HIDE DEF it
<1>7. it[{}] = <<>>
  BY <1>3, <1>6
<1>8. ASSUME NEW s \in SUBSET (1 .. n), s # {}
      PROVE  it[s] = IF Max(s) \in chosen
                     THEN Append(it[s \ {Max(s)}], Max(s)) ELSE it[s \ {Max(s)}]
  <2>1. pick[s] = Max(s) /\ pick[s] \in 1 .. n /\ e[pick[s]] = pick[s]
    BY <1>1, <1>3, <1>8 DEF JP!Choice
  <2>2. it[s] = IF e[Max(s)] \in chosen
                THEN Append(it[s \ {Max(s)}], e[Max(s)])
                ELSE it[s \ {Max(s)}]
    BY <1>3, <1>6, <1>8
  <2>3. QED
    BY <2>1, <2>2
<1> HIDE DEF Q
<1>9. ASSUME NEW k \in 0 .. n - 1
      PROVE  it[1 .. k + 1] = IF k + 1 \in chosen THEN Append(it[1 .. k], k + 1) ELSE it[1 .. k]
  <2>1. PICK s : s = 1 .. k + 1
    OBVIOUS
  <2>2. s \in SUBSET (1 .. n) /\ s # {} /\ k + 1 \in s /\ \A x \in s : x <= k + 1 /\ x \in Int
    BY <2>1
  <2>3. pick[s] = Max(s) /\ pick[s] \in s /\ \A x \in s : pick[s] >= x
    <3>1. IsFiniteSet(s) /\ s \subseteq Int
      BY <1>1, <2>2, FS_Subset
    <3>2. JP!IsFiniteSet(s)
      BY <3>1 DEF JP!IsFiniteSet, IsFiniteSet
    <3>3. JP!Max(s) \in s /\ \A x \in s : x <= JP!Max(s)
      BY <2>2, <3>1, <3>2, SumsAreThere, JP!MaxIn
    <3>4. JP!Max(s) = Max(s)
      BY DEF JP!Max, Max
    <3>5. QED
      BY <1>3, <2>2, <3>3, <3>4
  <2>4. Max(s) = k + 1
    <3>1. PICK x : x = Max(s)
      OBVIOUS
    <3>2. x \in s /\ x >= k + 1
      BY <2>2, <2>3, <3>1
    <3>3. QED
      BY <2>2, <3>1, <3>2
  <2>5. s \ {k + 1} = 1 .. k
    BY <2>1
  <2>6. QED
    BY <1>8, <2>1, <2>2, <2>4, <2>5
<1>10. PICK c : c = [k \in 0 .. n |-> it[1 .. k]]
  OBVIOUS
<1>11. \A k \in 0 .. n : c[k] = it[1 .. k]
  BY <1>10
<1>12. c[0] = <<>>
  <2>1. 1 .. 0 = {} /\ 0 \in 0 .. n
    OBVIOUS
  <2>2. QED
    BY <1>7, <1>11, <2>1
<1>13. c[n] = Lines(file_, chosen)
  <2>1. n \in 0 .. n
    OBVIOUS
  <2>2. QED
    BY <1>3, <1>4, <1>11, <2>1
<1>14. \A k \in 0 .. n - 1 : c[k + 1] = IF k + 1 \in chosen THEN Append(c[k], k + 1) ELSE c[k]
  <2>1. \A k \in 0 .. n - 1 : k \in 0 .. n /\ k + 1 \in 0 .. n
    OBVIOUS
  <2>2. QED
    BY <1>9, <1>11, <2>1
<1>15. QED
  BY <1>12, <1>13, <1>14

Rising(c) == \A i, j \in 1 .. Len(c) : i < j => c[i] < c[j]

\* Each chosen line of the file, one after the other.
LEMMA LinesRise ==
  ASSUME NEW file_, NEW n \in Nat, DOMAIN file_ = 1 .. n, NEW chosen
  PROVE  /\ Lines(file_, chosen) \in Seq(1 .. n)
         /\ Rising(Lines(file_, chosen))
         /\ \A i \in DOMAIN Lines(file_, chosen) : Lines(file_, chosen)[i] \in chosen
<1>1. PICK c : /\ c[0] = <<>> /\ c[n] = Lines(file_, chosen)
               /\ \A k \in 0 .. n - 1 :
                    c[k + 1] = IF k + 1 \in chosen THEN Append(c[k], k + 1) ELSE c[k]
  BY LinesAre
<1> DEFINE Fine(d, k) == /\ d \in Seq(1 .. n) /\ Rising(d)
                         /\ \A i \in 1 .. Len(d) : d[i] \in chosen /\ d[i] <= k
           S == {k \in 0 .. n : Fine(c[k], k)}
<1>2. 0 \in S
  <2>1. Fine(<<>>, 0) /\ 0 \in 0 .. n
    BY DEF Rising
  <2> HIDE DEF Fine
  <2>2. QED
    BY <1>1, <2>1
<1>3. ASSUME NEW k \in 0 .. n - 1, k \in S
      PROVE  k + 1 \in S
  <2>1. PICK d : d = c[k] /\ Fine(d, k)
    BY <1>3
  <2>2. k \in Nat /\ k + 1 \in 1 .. n /\ k + 1 \in 0 .. n
    OBVIOUS
  <2>3. CASE k + 1 \notin chosen
    <3>1. c[k + 1] = d
      BY <1>1, <2>1, <2>3
    <3>2. Fine(d, k + 1)
      BY <2>1, <2>2
    <3>3. QED
      BY <2>2, <3>1, <3>2
  <2>4. CASE k + 1 \in chosen
    <3>1. PICK g, x : g = Append(d, x) /\ x = k + 1
      OBVIOUS
    <3>2. /\ g \in Seq(1 .. n) /\ Len(g) = Len(d) + 1 /\ Len(d) \in Nat
          /\ \A i \in 1 .. Len(d) : g[i] = d[i] /\ d[i] \in 1 .. n
          /\ g[Len(d) + 1] = x
      BY <2>1, <2>2, <3>1
    <3>3. \A i \in 1 .. Len(g) : g[i] \in chosen /\ g[i] <= k + 1
      BY <2>1, <2>2, <2>4, <3>1, <3>2
    <3>4. ASSUME NEW i \in 1 .. Len(g), NEW j \in 1 .. Len(g), i < j
          PROVE  g[i] < g[j]
      <4>1. CASE j = Len(d) + 1
        BY <2>1, <2>2, <3>1, <3>2, <3>4, <4>1
      <4>2. CASE j # Len(d) + 1
        <5>1. i \in 1 .. Len(d) /\ j \in 1 .. Len(d)
          <6>1. PICK m \in Nat : m = Len(d) /\ Len(g) = m + 1
            BY <3>2
          <6>2. QED
            BY <3>4, <4>2, <6>1
        <5>2. d[i] < d[j]
          BY <2>1, <3>4, <5>1 DEF Rising
        <5>3. QED
          BY <3>2, <5>1, <5>2
      <4>3. QED
        BY <4>1, <4>2
    <3>5. Rising(g)
      BY <3>4 DEF Rising
    <3>6. c[k + 1] = g
      BY <1>1, <2>1, <2>4, <3>1
    <3>7. QED
      BY <2>2, <3>2, <3>3, <3>5, <3>6
  <2>5. QED
    BY <2>3, <2>4
<1> HIDE DEF S
<1>4. \A k \in 0 .. n : k \in S
  BY <1>2, <1>3, UpTo
<1>5. Fine(c[n], n)
  BY <1>4 DEF S
<1>6. PICK d : d = Lines(file_, chosen) /\ Fine(d, n)
  BY <1>1, <1>5
<1>7. DOMAIN d = 1 .. Len(d)
  BY <1>6
<1>8. QED
  BY <1>6, <1>7

\* The batches hold items of the list.
LEMMA BatchesTyped ==
  ASSUME NEW S, NEW items \in Seq(S), NEW rules
  PROVE  PackGreedy(items, rules) \in Seq(Seq(S))
<1>0. PICK n \in Nat : n = Len(items) /\ DOMAIN items = 1 .. n /\ \A x \in 1 .. n : items[x] \in S
  OBVIOUS
<1> DEFINE V == Seq(Seq(S))
           Put(batches, it) ==
             IF batches # <<>> /\ FitsRules(Last(batches), rules)
             THEN [batches EXCEPT ![Len(batches)] = Append(@, it)]
             ELSE Append(batches, <<it>>)
           pick == [s \in SUBSET (1 .. n) |-> Max(s)]
           F == [p \in (1 .. n) \X V |-> Put(p[2], items[p[1]])]
           Q(h) == h = [s \in SUBSET DOMAIN items |->
                          IF s = {} THEN <<>>
                          ELSE Put(h[s \ {Max(s)}], items[Max(s)])]
           cut == CHOOSE h : Q(h)
<1>1. IsFiniteSet(1 .. n) /\ JP!Choice(pick, 1 .. n) /\ <<>> \in V
  <2>1. IsFiniteSet(1 .. n) /\ JP!Choice(pick, 1 .. n)
    BY LastChosen
  <2>2. QED
    BY <2>1
<1>2. PackGreedy(items, rules) = cut[DOMAIN items]
  BY DEF PackGreedy, FoldLeft, MapThenFoldSet
<1>3. ASSUME NEW v \in V, NEW it \in S
      PROVE  Put(v, it) \in V
  <2>1. PICK T : T = Seq(S)
    OBVIOUS
  <2>2. v \in Seq(T) /\ <<it>> \in T
    BY <2>1
  <2>3. Append(v, <<it>>) \in Seq(T)
    BY <2>2
  <2>4. ASSUME v # <<>>
        PROVE  [v EXCEPT ![Len(v)] = Append(@, it)] \in Seq(T)
    <3>1. Len(v) \in 1 .. Len(v) /\ v[Len(v)] \in T
      BY <2>2, <2>4
    <3>2. Append(v[Len(v)], it) \in T
      BY <2>1, <3>1
    <3>3. QED
      BY <2>2, <3>1, <3>2
  <2>5. QED
    BY <2>1, <2>3, <2>4
<1>4. \A x \in 1 .. n, v \in V : F[<<x, v>>] = Put(v, items[x]) /\ F[<<x, v>>] \in V
  <2>1. \A p \in (1 .. n) \X V : F[p] = Put(p[2], items[p[1]])
    OBVIOUS
  <2> HIDE DEF F, V, Put
  <2>2. QED
    BY <1>0, <1>3, <2>1
<1>5. \A s \in SUBSET (1 .. n) : pick[s] = Max(s)
  OBVIOUS
<1> HIDE DEF F, pick, V, Put
<1>6. \E h : Q(h)
  <2>1. JP!IsFiniteSet(1 .. n)
    BY <1>1 DEF JP!IsFiniteSet, IsFiniteSet
  <2>2. PICK g \in [SUBSET (1 .. n) -> V] : JP!Folding(g, 1 .. n, <<>>, pick, F)
    BY <1>1, <1>4, <2>1, SumsAreThere, JP!FoldingExists
  <2>3. ASSUME NEW s \in SUBSET (1 .. n)
        PROVE  g[s] = IF s = {} THEN <<>> ELSE Put(g[s \ {Max(s)}], items[Max(s)])
    <3>1. CASE s = {}
      BY <2>2, <3>1 DEF JP!Folding
    <3>2. CASE s # {}
      <4>1. pick[s] \in s /\ pick[s] = Max(s)
        BY <1>1, <1>5, <3>2 DEF JP!Choice
      <4>2. g[s] = F[<<pick[s], g[s \ {pick[s]}]>>]
        BY <2>2, <3>2 DEF JP!Folding
      <4>3. g[s \ {pick[s]}] \in V /\ pick[s] \in 1 .. n
        BY <2>2, <4>1
      <4>4. QED
        BY <1>4, <3>2, <4>1, <4>2, <4>3
    <3>3. QED
      BY <3>1, <3>2
  <2>4. g = [s \in SUBSET (1 .. n) |-> g[s]]
    BY <2>2
  <2>5. g = [s \in SUBSET (1 .. n) |->
               IF s = {} THEN <<>> ELSE Put(g[s \ {Max(s)}], items[Max(s)])]
    BY <2>3, <2>4
  <2>6. Q(g)
    BY <1>0, <2>5
  <2>7. QED
    BY <2>6
<1>7. Q(cut)
  <2> HIDE DEF Q
  <2>1. QED
    BY <1>6
<1> HIDE DEF cut
<1>8. cut[{}] = <<>>
  BY <1>0, <1>7
<1>9. ASSUME NEW s \in SUBSET (1 .. n), s # {}, cut[s \ {pick[s]}] \in V
      PROVE  cut[s] = F[<<pick[s], cut[s \ {pick[s]}]>>]
  <2>1. pick[s] = Max(s) /\ pick[s] \in 1 .. n
    BY <1>1, <1>5, <1>9 DEF JP!Choice
  <2>2. cut[s] = Put(cut[s \ {Max(s)}], items[Max(s)])
    BY <1>0, <1>7, <1>9
  <2>3. PICK x, v : x = pick[s] /\ v = cut[s \ {x}]
    OBVIOUS
  <2>4. F[<<x, v>>] = Put(v, items[x])
    BY <1>4, <1>9, <2>1, <2>3
  <2>5. QED
    BY <2>1, <2>2, <2>3, <2>4
<1> HIDE DEF Q
<1>10. cut[1 .. n] \in V
  <2>1. PICK D : D = 1 .. n
    OBVIOUS
  <2>2. FoldsIn(cut, D, V, F, pick)
    BY <1>1, <1>4, <1>8, <1>9, <2>1 DEF FoldsIn
  <2>3. cut[D] \in V
    BY <2>2, StaysIn
  <2>4. QED
    BY <2>1, <2>3
<1>11. QED
  BY <1>0, <1>2, <1>10 DEF V

-----------------------------------------------------------------------------
(* The tree of a list: what goes up a proof to its root is its block.      *)

\* Powers of two, as the numbers of subsets that they count.
LEMMA Powers ==
  /\ 2 ^ 0 = 1
  /\ \A k \in Nat : 2 ^ k \in Nat \ {0} /\ 2 ^ (k + 1) = 2 * 2 ^ k
<1>1. \A k \in Nat : 2 ^ k \in Nat \ {0} /\ 2 ^ (k + 1) = 2 * 2 ^ k
  <2>1. TAKE k \in Nat
  <2> DEFINE A == SUBSET (1 .. k)
             B == {s \cup {k + 1} : s \in A}
  <2>2. IsFiniteSet(1 .. k) /\ Cardinality(1 .. k) = k
    BY FS_Interval
  <2>3. IsFiniteSet(1 .. k + 1) /\ Cardinality(1 .. k + 1) = k + 1
    <3>1. k + 1 \in Int /\ k + 1 >= 1
      OBVIOUS
    <3>2. QED
      BY <3>1, FS_Interval
  <2>4. IsFiniteSet(A) /\ Cardinality(A) = 2 ^ k /\ Cardinality(A) \in Nat
    BY <2>2, FS_SUBSET, FS_CardinalityType
  <2>5. Cardinality(SUBSET (1 .. k + 1)) = 2 ^ (k + 1)
    BY <2>3, FS_SUBSET
  <2>6. SUBSET (1 .. k + 1) = A \cup B
    <3>1. ASSUME NEW s \in SUBSET (1 .. k + 1), k + 1 \in s
          PROVE  s \in B
      <4>1. s \ {k + 1} \in A /\ s = (s \ {k + 1}) \cup {k + 1}
        BY <3>1
      <4>2. QED
        BY <4>1
    <3>2. ASSUME NEW s \in SUBSET (1 .. k + 1), k + 1 \notin s
          PROVE  s \in A
      BY <3>2
    <3>3. 1 .. k \subseteq 1 .. k + 1 /\ k + 1 \in 1 .. k + 1
      OBVIOUS
    <3>4. A \subseteq SUBSET (1 .. k + 1)
      BY <3>3
    <3>5. \A s \in A : s \cup {k + 1} \in SUBSET (1 .. k + 1)
      BY <3>3
    <3>6. B \subseteq SUBSET (1 .. k + 1)
      BY <3>5, ZenonT(60)
    <3>7. ASSUME NEW s \in SUBSET (1 .. k + 1) PROVE s \in A \cup B
      BY <3>1, <3>2
    <3> HIDE DEF A, B
    <3>8. QED
      BY <3>4, <3>6, <3>7
  <2>7. A \cap B = {}
    OBVIOUS
  <2>8. IsFiniteSet(B) /\ Cardinality(B) = 2 ^ k
    <3> DEFINE f == [s \in A |-> s \cup {k + 1}]
    <3>1. ExistsBijection(A, B)
      <4>1. \A s, t \in A : f[s] = f[t] => s = t
        <5>1. TAKE s \in A, t \in A
        <5>2. s = f[s] \ {k + 1} /\ t = f[t] \ {k + 1}
          OBVIOUS
        <5>3. QED
          BY <5>2
      <4>2. f \in [A -> B] /\ \A u \in B : \E s \in A : f[s] = u
        OBVIOUS
      <4>3. QED
        BY <4>1, <4>2 DEF Bijection, Injection, Surjection, IsInjective, ExistsBijection
    <3>2. QED
      BY <2>4, <3>1, FS_Bijection
  <2>9. Cardinality(A \cup B) = Cardinality(A) + Cardinality(B) - Cardinality(A \cap B)
    BY <2>4, <2>8, FS_Union
  <2>10. Cardinality(A \cap B) = 0
    BY <2>7, FS_EmptySet
  <2>11. Cardinality(A) # 0
    <3>1. {} \in A
      OBVIOUS
    <3>2. QED
      BY <2>4, <3>1, FS_EmptySet
  <2> HIDE DEF A, B
  <2>12. PICK c : c = 2 ^ k /\ c \in Nat /\ c # 0
    BY <2>4, <2>11
  <2>13. 2 ^ (k + 1) = c + c - 0
    BY <2>4, <2>5, <2>6, <2>8, <2>9, <2>10, <2>12
  <2>14. QED
    BY <2>12, <2>13
<1>2. 2 ^ 0 = 1
  OBVIOUS
<1>3. QED
  BY <1>1, <1>2

\* Levels row by row: each is made of the one below.
LEMMA LevelsAre ==
  ASSUME NEW row, NEW top \in Nat
  PROVE  /\ Levels(row, top)[0] = row
         /\ \A d \in 1 .. top : Levels(row, top)[d] = Above(Levels(row, top)[d - 1])
<1> DEFINE Q(h, n) == h = [d \in 0 .. n |-> IF d = 0 THEN row ELSE Above(h[d - 1])]
           S == {n \in 0 .. top : \E h : Q(h, n)}
           level == CHOOSE h : Q(h, top)
<1>1. 0 \in S
  <2> DEFINE h == [d \in 0 .. 0 |-> row]
  <2>1. h = [d \in 0 .. 0 |-> IF d = 0 THEN row ELSE Above(h[d - 1])]
    OBVIOUS
  <2> HIDE DEF h
  <2>2. Q(h, 0)
    BY <2>1
  <2>3. QED
    BY <2>2
<1>2. ASSUME NEW n \in 0 .. top - 1, n \in S
      PROVE  n + 1 \in S
  <2>1. PICK h : Q(h, n)
    BY <1>2
  <2> DEFINE g == [d \in 0 .. n + 1 |-> IF d = n + 1 THEN Above(h[n]) ELSE h[d]]
  <2>2. ASSUME NEW d \in 0 .. n + 1
        PROVE  g[d] = IF d = 0 THEN row ELSE Above(g[d - 1])
    <3>1. CASE d = 0
      BY <2>1, <3>1
    <3>2. CASE d = n + 1
      BY <2>1, <3>2
    <3>3. CASE d \in 1 .. n
      <4>1. h[d] = Above(h[d - 1])
        BY <2>1, <3>3
      <4>2. g[d] = h[d] /\ g[d - 1] = h[d - 1]
        BY <3>3
      <4>3. QED
        BY <3>3, <4>1, <4>2
    <3>4. QED
      BY <3>1, <3>2, <3>3
  <2>3. g = [d \in 0 .. n + 1 |-> g[d]]
    OBVIOUS
  <2> HIDE DEF g
  <2>4. g = [d \in 0 .. n + 1 |-> IF d = 0 THEN row ELSE Above(g[d - 1])]
    BY <2>2, <2>3
  <2>5. Q(g, n + 1)
    BY <2>4
  <2>6. QED
    BY <2>5
<1>3. \A n \in 0 .. top : n \in S
  <2> HIDE DEF S
  <2>1. QED
    BY <1>1, <1>2, UpTo
<1>4. \E h : Q(h, top)
  BY <1>3
<1>5. Q(level, top)
  <2> HIDE DEF Q
  <2>1. QED
    BY <1>4
<1>6. Levels(row, top) = level
  BY DEF Levels
<1> HIDE DEF level
<1>7. QED
  BY <1>5, <1>6

LEMMA Listed ==
  ASSUME NEW w \in Nat, NEW f, f = [i \in 1 .. w |-> f[i]]
  PROVE  Len(f) = w
<1>1. PICK S : S = {f[i] : i \in 1 .. w}
  OBVIOUS
<1>2. f \in [1 .. w -> S]
  BY <1>1
<1>3. f \in Seq(S)
  BY <1>2
<1>4. QED
  BY <1>2, <1>3

\* Each level is half as wide as the one below, and the children of its i-th
\* node are the two at 2i - 1 and 2i.
Halves(T, top) ==
  \A d \in 1 .. top : \A i \in 1 .. 2 ^ (top - d) :
    T[d][i] = Node(T[d - 1][2 * i - 1], T[d - 1][2 * i])

LEMMA TreeIs ==
  ASSUME NEW top \in Nat, NEW row, row = [i \in 1 .. 2 ^ top |-> row[i]],
         NEW T, T = Levels(row, top)
  PROVE  T[0] = row /\ Halves(T, top)
<1>2. T[0] = row /\ \A d \in 1 .. top : T[d] = Above(T[d - 1])
  BY LevelsAre
<1> DEFINE IsRow(d) == T[d] = [i \in 1 .. 2 ^ (top - d) |-> T[d][i]]
           S == {d \in 0 .. top : IsRow(d)}
<1>3. ASSUME NEW d \in 0 .. top - 1, IsRow(d)
      PROVE  T[d + 1] = [i \in 1 .. 2 ^ (top - (d + 1)) |->
                           Node(T[d][2 * i - 1], T[d][2 * i])]
  <2>1. PICK e \in Nat : e = top - (d + 1) /\ top - d = e + 1
    OBVIOUS
  <2>2. PICK w \in Nat : w = 2 ^ e /\ 2 ^ (top - d) = 2 * w
    BY <2>1, Powers
  <2>3. Len(T[d]) = 2 * w
    <3>1. T[d] = [i \in 1 .. 2 * w |-> T[d][i]]
      BY <1>3, <2>2
    <3>2. 2 * w \in Nat
      OBVIOUS
    <3>3. QED
      BY <3>1, <3>2, Listed
  <2>4. Len(T[d]) \div 2 = w
    <3>1. (2 * w) \div 2 = w
      OBVIOUS
    <3>2. QED
      BY <2>3, <3>1
  <2>5. d + 1 \in 1 .. top /\ (d + 1) - 1 = d
    OBVIOUS
  <2>6. T[d + 1] = Above(T[d])
    BY <1>2, <2>5
  <2>7. Above(T[d]) = [i \in 1 .. w |-> Node(T[d][2 * i - 1], T[d][2 * i])]
    BY <2>4 DEF Above
  <2>8. QED
    BY <2>1, <2>2, <2>6, <2>7
<1>4. \A d \in 0 .. top : d \in S
  <2>1. 0 \in S
    BY <1>2
  <2>2. ASSUME NEW d \in 0 .. top - 1, d \in S
        PROVE  d + 1 \in S
    <3>1. IsRow(d)
      BY <2>2
    <3>2. T[d + 1] = [i \in 1 .. 2 ^ (top - (d + 1)) |-> Node(T[d][2 * i - 1], T[d][2 * i])]
      BY <1>3, <3>1
    <3>3. IsRow(d + 1)
      BY <3>2
    <3>4. QED
      BY <3>3
  <2> HIDE DEF S
  <2>3. QED
    BY <2>1, <2>2, UpTo
<1>a. \A d \in 0 .. top : IsRow(d)
  BY <1>4
<1>5. ASSUME NEW d \in 1 .. top
      PROVE  \A i \in 1 .. 2 ^ (top - d) : T[d][i] = Node(T[d - 1][2 * i - 1], T[d - 1][2 * i])
  <2>1. PICK e \in 0 .. top - 1 : e = d - 1 /\ e + 1 = d
    OBVIOUS
  <2>2. IsRow(e)
    <3>1. e \in 0 .. top
      BY <2>1
    <3> HIDE DEF IsRow
    <3>2. QED
      BY <1>a, <3>1
  <2>3. T[e + 1] = [i \in 1 .. 2 ^ (top - (e + 1)) |-> Node(T[e][2 * i - 1], T[e][2 * i])]
    BY <1>3, <2>2
  <2>4. QED
    BY <2>1, <2>3
<1>6. QED
  BY <1>2, <1>5 DEF Halves

LEMMA NodeIs ==
  ASSUME NEW a, NEW b, NEW c, NEW d, Node(a, b) = Node(c, d)
  PROVE  a = c /\ b = d
BY DEF Node

\* A block of this number and size begins behind this many rows.
IsAt(from, block, size) == from = block * size

\* The row b is the part of the row t that follows the place from.
Follows(b, t, c, from) == \A i \in 1 .. c : b[i] = t[from + i]

\* A tree of top levels has a block of this number and size at the level L.
IsOver(top, L, P, block, size) == top = L + P /\ block < 2 ^ P /\ size = 2 ^ L

\* The top of the tree B is this node of the level L of T.
IsTop(B, T, L, block) == B[L][1] = T[L][block + 1]

LEMMA InTheBlock ==
  ASSUME NEW L \in Nat, NEW P \in Nat, NEW T, NEW B, NEW top, NEW block \in Nat,
         NEW c \in Nat, IsOver(top, L, P, block, c), Halves(T, top), Halves(B, L),
         IsTop(B, T, L, block), NEW from \in Nat, IsAt(from, block, c)
  PROVE  Follows(B[0], T[0], c, from)
<1>0. top = L + P /\ block < 2 ^ P /\ c = 2 ^ L /\ from = block * c /\ B[L][1] = T[L][block + 1]
  BY DEF IsOver, IsAt, IsTop
<1> DEFINE Same(j) == /\ block * 2 ^ j + 2 ^ j <= 2 ^ (P + j)
                      /\ \A i \in 1 .. 2 ^ j : B[L - j][i] = T[L - j][block * 2 ^ j + i]
           S == {j \in 0 .. L : Same(j)}
<1>1. Same(0)
  <2>1. P + 0 = P /\ L - 0 = L /\ 2 ^ 0 = 1
    BY Powers
  <2>2. block * 1 = block /\ 2 ^ P \in Nat
    BY Powers
  <2>3. \A i \in 1 .. 2 ^ 0 : i = 1
    BY <2>1
  <2>4. \A i \in 1 .. 2 ^ 0 : B[L - 0][i] = T[L - 0][block * 2 ^ 0 + i]
    BY <1>0, <2>1, <2>2, <2>3
  <2>5. block * 2 ^ 0 + 2 ^ 0 <= 2 ^ (P + 0)
    BY <1>0, <2>1, <2>2
  <2>6. QED
    BY <2>4, <2>5
<1>2. ASSUME NEW j \in 0 .. L - 1, Same(j)
      PROVE  Same(j + 1)
  <2>1. PICK w \in Nat : w = 2 ^ j /\ 2 ^ (j + 1) = 2 * w
    BY Powers
  <2>2. PICK v \in Nat : v = 2 ^ (P + j) /\ 2 ^ (P + (j + 1)) = 2 * v
    <3>1. P + j \in Nat /\ P + (j + 1) = (P + j) + 1
      OBVIOUS
    <3>2. QED
      BY <3>1, Powers
  <2>3. PICK x \in Nat : x = block * w /\ block * (2 * w) = 2 * x
    OBVIOUS
  <2>4. x + w <= v
    BY <1>2, <2>1, <2>2, <2>3
  <2>5. ASSUME NEW p \in 1 .. w
        PROVE  /\ B[L - (j + 1)][2 * p - 1] = T[L - (j + 1)][2 * x + (2 * p - 1)]
               /\ B[L - (j + 1)][2 * p] = T[L - (j + 1)][2 * x + 2 * p]
    <3>1. PICK e \in 1 .. L : e = L - j /\ e - 1 = L - (j + 1)
      OBVIOUS
    <3>2. B[e][p] = T[e][x + p]
      BY <1>2, <2>1, <2>3, <3>1
    <3>3. B[e][p] = Node(B[e - 1][2 * p - 1], B[e - 1][2 * p])
      <4>1. L - e = j
        BY <3>1
      <4>2. p \in 1 .. 2 ^ (L - e)
        BY <2>1, <4>1
      <4>3. QED
        BY <4>2 DEF Halves
    <3>4. T[e][x + p] = Node(T[e - 1][2 * (x + p) - 1], T[e - 1][2 * (x + p)])
      <4>1. (L + P) - e = P + j /\ e \in 1 .. L + P
        BY <3>1
      <4>2. x + p \in 1 .. v
        BY <2>4
      <4>3. x + p \in 1 .. 2 ^ ((L + P) - e)
        BY <2>2, <4>1, <4>2
      <4>4. QED
        BY <1>0, <4>1, <4>3 DEF Halves
    <3>5. 2 * (x + p) - 1 = 2 * x + (2 * p - 1) /\ 2 * (x + p) = 2 * x + 2 * p
      OBVIOUS
    <3>6. B[e - 1][2 * p - 1] = T[e - 1][2 * (x + p) - 1] /\ B[e - 1][2 * p] = T[e - 1][2 * (x + p)]
      <4>1. Node(B[e - 1][2 * p - 1], B[e - 1][2 * p])
              = Node(T[e - 1][2 * (x + p) - 1], T[e - 1][2 * (x + p)])
        BY <3>2, <3>3, <3>4
      <4>2. QED
        BY <4>1, NodeIs
    <3>7. QED
      BY <3>1, <3>5, <3>6
  <2>6. ASSUME NEW i \in 1 .. 2 * w
        PROVE  B[L - (j + 1)][i] = T[L - (j + 1)][2 * x + i]
    <3>1. PICK p \in 1 .. w : i = 2 * p - 1 \/ i = 2 * p
      <4>1. (i + 1) \div 2 \in 1 .. w /\ (i = 2 * ((i + 1) \div 2) - 1 \/ i = 2 * ((i + 1) \div 2))
        OBVIOUS
      <4>2. QED
        BY <4>1
    <3>2. QED
      BY <2>5, <3>1
  <2>7. 2 * x + 2 * w <= 2 * v
    BY <2>4
  <2>8. block * 2 ^ (j + 1) = 2 * x
    BY <2>1, <2>3
  <2>9. QED
    BY <2>1, <2>2, <2>6, <2>7, <2>8
<1>3. \A j \in 0 .. L : j \in S
  <2>1. 0 \in S
    BY <1>1
  <2>2. ASSUME NEW j \in 0 .. L - 1, j \in S
        PROVE  j + 1 \in S
    <3>1. Same(j)
      BY <2>2
    <3> HIDE DEF Same
    <3>2. Same(j + 1)
      BY <1>2, <3>1
    <3>3. QED
      BY <3>2
  <2> HIDE DEF S
  <2>3. QED
    BY <2>1, <2>2, UpTo
<1>4. Same(L)
  BY <1>3
<1>5. L - L = 0
  OBVIOUS
<1>6. QED
  BY <1>0, <1>4, <1>5 DEF Follows

\* The way up a proof, from a block to the root.
IsPath(at, P, proof) ==
  \A k \in 1 .. P :
    at[k] = [hash |-> IF at[k - 1].idx % 2 = 0 THEN Node(at[k - 1].hash, proof[k])
                                              ELSE Node(proof[k], at[k - 1].hash),
             idx  |-> at[k - 1].idx \div 2]

LEMMA Climbs ==
  ASSUME NEW at, NEW P, NEW proof, IsPath(at, P, proof), NEW k \in 1 .. P
  PROVE  /\ at[k].hash = IF at[k - 1].idx % 2 = 0 THEN Node(at[k - 1].hash, proof[k])
                                                  ELSE Node(proof[k], at[k - 1].hash)
         /\ at[k].idx = at[k - 1].idx \div 2
<1>1. PICK h : h = IF at[k - 1].idx % 2 = 0 THEN Node(at[k - 1].hash, proof[k])
                                            ELSE Node(proof[k], at[k - 1].hash)
  OBVIOUS
<1>2. at[k] = [hash |-> h, idx |-> at[k - 1].idx \div 2]
  BY <1>1 DEF IsPath
<1>3. QED
  BY <1>1, <1>2

\* A path that starts at this node of T, and one that ends at the root of T.
StartsAt(at, T, L, block) == at[0].idx = block /\ at[0].hash = T[L][block + 1]
EndsAt(at, P, T, top) == at[P].hash = T[top][1]

LEMMA UpTheProof ==
  ASSUME NEW L \in Nat, NEW P \in Nat, NEW T, NEW at, NEW proof, NEW top, NEW block \in Nat,
         NEW c, IsOver(top, L, P, block, c), Halves(T, top), IsPath(at, P, proof), at[0].idx = block,
         EndsAt(at, P, T, top)
  PROVE  StartsAt(at, T, L, block)
<1> SUFFICES ASSUME top = L + P, block < 2 ^ P, at[P].hash = T[top][1]
             PROVE  at[0].hash = T[L][block + 1]
  BY DEF IsOver, StartsAt, EndsAt
<1> DEFINE Low(k) == at[k].idx \in 0 .. 2 ^ (P - k) - 1
           S == {k \in 0 .. P : Low(k)}
<1>1. Low(0)
  <2>1. P - 0 = P
    OBVIOUS
  <2>2. QED
    BY <2>1
<1>2. ASSUME NEW k \in 0 .. P - 1, Low(k)
      PROVE  Low(k + 1)
  <2>1. PICK e \in Nat : e = P - (k + 1) /\ e + 1 = P - k
    OBVIOUS
  <2>2. PICK w \in Nat : w = 2 ^ e /\ 2 ^ (P - k) = 2 * w
    BY <2>1, Powers
  <2>3. at[k].idx \in 0 .. 2 * w - 1
    BY <1>2, <2>2
  <2>4. at[k + 1].idx = at[k].idx \div 2
    <3>1. k + 1 \in 1 .. P /\ (k + 1) - 1 = k
      OBVIOUS
    <3>2. QED
      BY <3>1, Climbs
  <2>5. at[k + 1].idx \in 0 .. w - 1
    BY <2>3, <2>4
  <2>6. QED
    BY <2>1, <2>2, <2>5
<1>3. \A k \in 0 .. P : k \in S
  <2>1. 0 \in S
    BY <1>1
  <2>2. ASSUME NEW k \in 0 .. P - 1, k \in S
        PROVE  k + 1 \in S
    <3>1. Low(k)
      BY <2>2
    <3> HIDE DEF Low
    <3>2. Low(k + 1)
      BY <1>2, <3>1
    <3>3. QED
      BY <3>2
  <2> HIDE DEF S
  <2>3. QED
    BY <2>1, <2>2, UpTo
<1>4. \A k \in 0 .. P : Low(k)
  BY <1>3
<1> DEFINE On(j) == at[P - j].hash = T[L + (P - j)][at[P - j].idx + 1]
           R == {j \in 0 .. P : On(j)}
<1>5. On(0)
  <2>1. P - 0 = P /\ P - P = 0 /\ 2 ^ 0 = 1 /\ P \in 0 .. P
    BY Powers
  <2>2. at[P].idx \in 0 .. 2 ^ (P - P) - 1
    <3> HIDE DEF Low
    <3>1. Low(P)
      BY <1>4, <2>1
    <3>2. QED
      BY <3>1 DEF Low
  <2>3. at[P].idx = 0
    BY <2>1, <2>2
  <2>4. QED
    BY <2>1, <2>3
<1>6. ASSUME NEW j \in 0 .. P - 1, On(j)
      PROVE  On(j + 1)
  <2>1. PICK k \in 1 .. P : k = P - j /\ k - 1 = P - (j + 1) /\ P - k = j
    OBVIOUS
  <2>2. PICK q \in Nat : q = at[k].idx /\ q + 1 \in 1 .. 2 ^ j
    <3>1. k \in 0 .. P
      OBVIOUS
    <3> HIDE DEF Low
    <3>2. Low(k)
      BY <1>4, <3>1
    <3> USE DEF Low
    <3>3. at[k].idx \in 0 .. 2 ^ j - 1 /\ 2 ^ j \in Nat
      BY <2>1, <3>2, Powers
    <3>4. QED
      BY <3>3
  <2>3. PICK r \in Nat : r = at[k - 1].idx
    <3>1. k - 1 \in 0 .. P
      OBVIOUS
    <3> HIDE DEF Low
    <3>2. Low(k - 1)
      BY <1>4, <3>1
    <3>3. at[k - 1].idx \in Nat
      <4>1. at[k - 1].idx \in 0 .. 2 ^ (P - (k - 1)) - 1
        BY <3>2 DEF Low
      <4>2. QED
        BY <4>1
    <3>4. QED
      BY <3>3
  <2>4. /\ at[k].hash = IF r % 2 = 0 THEN Node(at[k - 1].hash, proof[k])
                                    ELSE Node(proof[k], at[k - 1].hash)
        /\ q = r \div 2
    BY <2>2, <2>3, Climbs
  <2>5. at[k].hash = T[L + k][q + 1]
    BY <1>6, <2>1, <2>2
  <2>6. T[L + k][q + 1] = Node(T[(L + k) - 1][2 * (q + 1) - 1], T[(L + k) - 1][2 * (q + 1)])
    <3>1. L + k \in 1 .. L + P /\ (L + P) - (L + k) = j
      BY <2>1
    <3>2. q + 1 \in 1 .. 2 ^ ((L + P) - (L + k))
      BY <2>2, <3>1
    <3>3. QED
      BY <3>1, <3>2 DEF Halves
  <2>7. at[k - 1].hash = T[(L + k) - 1][r + 1]
    <3>1. CASE r % 2 = 0
      <4>1. r + 1 = 2 * (q + 1) - 1
        BY <2>4, <3>1
      <4>2. at[k - 1].hash = T[(L + k) - 1][2 * (q + 1) - 1]
        <5>1. Node(at[k - 1].hash, proof[k])
                = Node(T[(L + k) - 1][2 * (q + 1) - 1], T[(L + k) - 1][2 * (q + 1)])
          BY <2>4, <2>5, <2>6, <3>1
        <5>2. QED
          BY <5>1, NodeIs
      <4>3. QED
        BY <4>1, <4>2
    <3>2. CASE r % 2 # 0
      <4>1. r + 1 = 2 * (q + 1)
        <5>1. r % 2 = 1 /\ r = 2 * (r \div 2) + (r % 2)
          BY <3>2
        <5>2. QED
          BY <2>4, <5>1
      <4>2. at[k - 1].hash = T[(L + k) - 1][2 * (q + 1)]
        <5>1. Node(proof[k], at[k - 1].hash)
                = Node(T[(L + k) - 1][2 * (q + 1) - 1], T[(L + k) - 1][2 * (q + 1)])
          BY <2>4, <2>5, <2>6, <3>2
        <5>2. QED
          BY <5>1, NodeIs
      <4>3. QED
        BY <4>1, <4>2
    <3>3. QED
      BY <3>1, <3>2
  <2>8. (L + k) - 1 = L + (P - (j + 1))
    BY <2>1
  <2>9. QED
    BY <2>1, <2>3, <2>7, <2>8
<1>7. \A j \in 0 .. P : j \in R
  <2>1. 0 \in R
    BY <1>5
  <2>2. ASSUME NEW j \in 0 .. P - 1, j \in R
        PROVE  j + 1 \in R
    <3>1. On(j)
      BY <2>2
    <3> HIDE DEF On
    <3>2. On(j + 1)
      BY <1>6, <3>1
    <3>3. QED
      BY <3>2
  <2> HIDE DEF R
  <2>3. QED
    BY <2>1, <2>2, UpTo
<1>8. On(P)
  BY <1>7
<1>9. P - P = 0 /\ L + 0 = L
  OBVIOUS
<1>10. QED
  BY <1>8, <1>9

LEMMA RecomputeIs ==
  ASSUME NEW block, NEW its, NEW from, IsAt(from, block, Block), NEW proof,
         NEW n \in Nat, Len(proof) = n,
         NEW top, top = Levels(Padded(its, from, Block), BlockLog2)[BlockLog2][1]
  PROVE  \E at : /\ at[0] = [hash |-> top, idx |-> block]
                 /\ IsPath(at, n, proof)
                 /\ Recompute(block, its, proof) = at[n].hash
<1>2. PICK first : first = [hash |-> top, idx |-> block]
  OBVIOUS
<1> DEFINE JoinTo(a, sibling) ==
             [hash |-> IF a.idx % 2 = 0 THEN Node(a.hash, sibling) ELSE Node(sibling, a.hash),
              idx  |-> a.idx \div 2]
           Q(h, m) == h = [k \in 0 .. m |-> IF k = 0 THEN first ELSE JoinTo(h[k - 1], proof[k])]
           S == {m \in 0 .. n : \E h : Q(h, m)}
           up == CHOOSE h : Q(h, n)
<1>3. 0 \in S
  <2> DEFINE h == [k \in 0 .. 0 |-> first]
  <2>1. h = [k \in 0 .. 0 |-> IF k = 0 THEN first ELSE JoinTo(h[k - 1], proof[k])]
    OBVIOUS
  <2> HIDE DEF h
  <2>2. Q(h, 0)
    BY <2>1
  <2>3. QED
    BY <2>2
<1>4. ASSUME NEW m \in 0 .. n - 1, m \in S
      PROVE  m + 1 \in S
  <2>1. PICK h : Q(h, m)
    BY <1>4
  <2> DEFINE g == [k \in 0 .. m + 1 |-> IF k = m + 1 THEN JoinTo(h[m], proof[k]) ELSE h[k]]
  <2> HIDE DEF JoinTo
  <2>2. ASSUME NEW k \in 0 .. m + 1
        PROVE  g[k] = IF k = 0 THEN first ELSE JoinTo(g[k - 1], proof[k])
    <3>1. CASE k = 0
      BY <2>1, <3>1
    <3>2. CASE k = m + 1
      BY <2>1, <3>2
    <3>3. CASE k \in 1 .. m
      <4>1. h[k] = JoinTo(h[k - 1], proof[k])
        BY <2>1, <3>3
      <4>2. g[k] = h[k] /\ g[k - 1] = h[k - 1]
        BY <3>3
      <4>3. QED
        BY <3>3, <4>1, <4>2
    <3>4. QED
      BY <3>1, <3>2, <3>3
  <2>3. g = [k \in 0 .. m + 1 |-> g[k]]
    OBVIOUS
  <2> HIDE DEF g
  <2>4. g = [k \in 0 .. m + 1 |-> IF k = 0 THEN first ELSE JoinTo(g[k - 1], proof[k])]
    BY <2>2, <2>3
  <2>5. Q(g, m + 1)
    BY <2>4
  <2>6. QED
    BY <2>5
<1>5. \A m \in 0 .. n : m \in S
  <2> HIDE DEF S
  <2>1. QED
    BY <1>3, <1>4, UpTo
<1>6. \E h : Q(h, n)
  <2>1. n \in S
    <3> HIDE DEF S
    <3>1. QED
      BY <1>5
  <2> HIDE DEF Q
  <2>2. QED
    BY <2>1
<1>7. Q(up, n)
  <2> HIDE DEF Q
  <2>1. QED
    BY <1>6
<1>8. Recompute(block, its, proof) = up[n].hash
  BY <1>2 DEF Recompute, IsAt
<1> HIDE DEF up
<1>9. up[0] = first
  BY <1>7
<1>10. ASSUME NEW k \in 1 .. n
       PROVE  up[k] = JoinTo(up[k - 1], proof[k])
  <2> HIDE DEF JoinTo
  <2>1. k \in 0 .. n /\ k # 0
    OBVIOUS
  <2>2. QED
    BY <1>7, <2>1
<1>11. IsPath(up, n, proof)
  BY <1>10 DEF IsPath
<1>12. QED
  BY <1>2, <1>8, <1>9, <1>11

LEMMA ProofHashesAre ==
  ASSUME NEW n \in Nat, BlockLog2 \in Nat
  PROVE  ProofHashes(n) \in 0 .. n /\ Block * 2 ^ ProofHashes(n) >= n
<1>1. PICK c \in Nat \ {0} : c = Block
  BY Powers DEF Block
<1>2. \A k \in 0 .. n : 2 ^ k > k
  <2> DEFINE S == {k \in 0 .. n : 2 ^ k > k}
  <2>1. 0 \in S
    BY Powers
  <2>2. ASSUME NEW k \in 0 .. n - 1, k \in S
        PROVE  k + 1 \in S
    <3>1. PICK w \in Nat : w = 2 ^ k /\ 2 ^ (k + 1) = 2 * w
      BY Powers
    <3>2. w > k
      BY <2>2, <3>1
    <3>3. QED
      BY <3>1, <3>2
  <2> HIDE DEF S
  <2>3. \A k \in 0 .. n : k \in S
    BY <2>1, <2>2, UpTo
  <2> USE DEF S
  <2>4. QED
    BY <2>3
<1> DEFINE Wide(d) == c * 2 ^ d >= n
           S == {k \in 0 .. n : \A e \in 0 .. k : ~ Wide(e)}
<1>3. Wide(n)
  <2>1. PICK w \in Nat : w = 2 ^ n /\ w > n
    BY <1>2, Powers
  <2>2. c * w >= w
    OBVIOUS
  <2>3. QED
    BY <2>1, <2>2
<1>4. \E d \in 0 .. n : Wide(d) /\ \A e \in 0 .. d - 1 : ~ Wide(e)
  <2> HIDE DEF Wide
  <2> SUFFICES ASSUME \A d \in 0 .. n : Wide(d) => \E e \in 0 .. d - 1 : Wide(e)
               PROVE  FALSE
    OBVIOUS
  <2>1. 0 \in S
    <3>1. ~ Wide(0)
      OBVIOUS
    <3>2. QED
      BY <3>1
  <2>2. ASSUME NEW k \in 0 .. n - 1, k \in S
        PROVE  k + 1 \in S
    <3>1. \A e \in 0 .. k : ~ Wide(e)
      BY <2>2
    <3>2. k + 1 \in 0 .. n /\ (k + 1) - 1 = k
      OBVIOUS
    <3>3. ~ Wide(k + 1)
      BY <3>1, <3>2
    <3>4. \A e \in 0 .. k + 1 : e \in 0 .. k \/ e = k + 1
      OBVIOUS
    <3>5. \A e \in 0 .. k + 1 : ~ Wide(e)
      BY <3>1, <3>3, <3>4
    <3>6. QED
      BY <3>2, <3>5
  <2> HIDE DEF S
  <2>3. \A k \in 0 .. n : k \in S
    BY <2>1, <2>2, UpTo
  <2>4. n \in S
    BY <2>3
  <2> USE DEF S
  <2>5. QED
    BY <2>4, <1>3
<1>5. \E d \in 0 .. n : Block * 2 ^ d >= n /\ \A e \in 0 .. d - 1 : Block * 2 ^ e < n
  <2>1. PICK d \in 0 .. n : Wide(d) /\ \A e \in 0 .. d - 1 : ~ Wide(e)
    <3> HIDE DEF Wide
    <3>1. QED
      BY <1>4
  <2>2. ASSUME NEW e \in 0 .. d - 1
        PROVE  c * 2 ^ e < n
    <3>1. PICK w \in Nat : w = 2 ^ e
      BY Powers
    <3>2. c * w \in Int
      OBVIOUS
    <3>3. ~ (c * w >= n)
      BY <2>1, <3>1
    <3>4. QED
      BY <3>1, <3>2, <3>3
  <2>3. QED
    BY <1>1, <2>1, <2>2
<1>6. QED
  BY <1>5 DEF ProofHashes

LEMMA PowerSum ==
  ASSUME NEW a \in Nat, NEW b \in Nat
  PROVE  2 ^ (a + b) = 2 ^ a * 2 ^ b
<1> DEFINE S == {k \in 0 .. b : 2 ^ (a + k) = 2 ^ a * 2 ^ k}
<1>1. PICK v \in Nat : v = 2 ^ a
  BY Powers
<1>2. 0 \in S
  <2>1. a + 0 = a /\ v * 1 = v
    OBVIOUS
  <2>2. QED
    BY <1>1, <2>1, Powers
<1>3. ASSUME NEW k \in 0 .. b - 1, k \in S
      PROVE  k + 1 \in S
  <2>1. PICK w \in Nat : w = 2 ^ k /\ 2 ^ (k + 1) = 2 * w
    BY Powers
  <2>2. 2 ^ (a + k) = v * w
    BY <1>1, <1>3, <2>1
  <2>3. a + k \in Nat /\ a + (k + 1) = (a + k) + 1
    OBVIOUS
  <2>4. 2 ^ (a + (k + 1)) = 2 * (v * w)
    BY <2>2, <2>3, Powers
  <2>5. 2 * (v * w) = v * (2 * w)
    OBVIOUS
  <2>6. QED
    BY <1>1, <2>1, <2>4, <2>5
<1> HIDE DEF S
<1>4. \A k \in 0 .. b : k \in S
  BY <1>2, <1>3, UpTo
<1> USE DEF S
<1>5. QED
  BY <1>4

\* What pay_batch checks is enough, for a list of any length and a block of
\* any size: when the leaves of a batch, hashed from the accounts and amounts
\* it really carries and at the position it claims, go up some proof of the
\* right length to the root of a list, the batch is, item by item, that block
\* of the list.
THEOREM BatchIsOfTheList ==
  ASSUME NEW items, NEW n \in Nat, Len(items) = n, BlockLog2 \in Nat,
         NEW block \in Nat, block * Block < n,
         NEW its, NEW m \in Nat, Len(its) = m, m <= Block, block * Block + m <= n,
         NEW proof, Len(proof) = ProofHashes(n),
         Recompute(block, its, proof) = Root(items)
  PROVE  \A i \in 1 .. m : /\ its[i].account = items[block * Block + i].account
                           /\ its[i].amount = items[block * Block + i].amount
                           /\ its[i].ref = items[block * Block + i].ref
<1>1. PICK L \in Nat : L = BlockLog2
  OBVIOUS
<1>2. PICK P \in Nat : P = ProofHashes(n)
  BY ProofHashesAre
<1>3. PICK c \in Nat \ {0} : c = Block /\ c = 2 ^ L
  BY <1>1, Powers DEF Block
<1>4. block < 2 ^ P
  <2>1. PICK w \in Nat : w = 2 ^ P
    BY Powers
  <2>2. c * w >= n
    BY <1>2, <1>3, <2>1, ProofHashesAre
  <2>3. block * c < c * w
    <3>1. block * c < n /\ block * c \in Nat /\ c * w \in Nat
      BY <1>3
    <3>2. QED
      BY <2>2, <3>1
  <2>4. block < w
    <3> SUFFICES ASSUME block >= w PROVE FALSE
      OBVIOUS
    <3>1. block * c >= w * c /\ w * c = c * w
      OBVIOUS
    <3>2. block * c \in Nat /\ c * w \in Nat
      OBVIOUS
    <3>3. QED
      BY <2>3, <3>1, <3>2
  <2>5. QED
    BY <2>1, <2>4
<1> DEFINE row  == Padded(items, 0, 2 ^ (L + P))
           part == Padded(its, block * c, c)
<1>5. row = [i \in 1 .. 2 ^ (L + P) |-> IF i <= n THEN Leaf(i - 1, items[i]) ELSE PadLeaf]
  BY DEF Padded
<1>6. part = [i \in 1 .. c |-> IF i <= m THEN Leaf(block * c + i - 1, its[i]) ELSE PadLeaf]
  BY DEF Padded
<1>7. row = [i \in 1 .. 2 ^ (L + P) |-> row[i]] /\ part = [i \in 1 .. 2 ^ L |-> part[i]]
  BY <1>3, <1>5, <1>6
<1>t. PICK T : T = Levels(row, L + P)
  OBVIOUS
<1>b. PICK B : B = Levels(part, L)
  OBVIOUS
<1>d. PICK top \in Nat : top = L + P
  OBVIOUS
<1>10. Root(items) = T[top][1]
  BY <1>1, <1>2, <1>t, <1>d DEF Root, Build, Depth
<1>11. PICK at : /\ at[0] = [hash |-> B[L][1], idx |-> block]
                 /\ IsPath(at, P, proof)
                 /\ Root(items) = at[P].hash
  <2>1. PICK from : from = block * Block /\ IsAt(from, block, Block)
    BY DEF IsAt
  <2>2. B[L][1] = Levels(Padded(its, from, Block), BlockLog2)[BlockLog2][1]
    BY <1>1, <1>3, <1>b, <2>1
  <2>3. Len(proof) = P
    BY <1>2
  <2> HIDE DEF part
  <2>4. \E at : /\ at[0] = [hash |-> B[L][1], idx |-> block]
                /\ IsPath(at, P, proof)
                /\ Recompute(block, its, proof) = at[P].hash
    BY <2>1, <2>2, <2>3, RecomputeIs
  <2>5. QED
    BY <2>4
<1> HIDE DEF row, part
<1>8. Halves(T, top) /\ T[0] = row
  BY <1>7, <1>t, <1>d, TreeIs
<1>9. Halves(B, L) /\ B[0] = part
  BY <1>7, <1>b, TreeIs
<1>12. B[L][1] = T[L][block + 1]
  <2>1. at[0].idx = block /\ at[0].hash = B[L][1]
    BY <1>11
  <2>2. at[P].hash = T[top][1]
    BY <1>10, <1>11
  <2>3. at[0].hash = T[L][block + 1]
    <3>1. IsOver(top, L, P, block, c) /\ EndsAt(at, P, T, top)
      BY <1>3, <1>4, <1>d, <2>2 DEF IsOver, EndsAt
    <3>2. StartsAt(at, T, L, block)
      BY <1>8, <1>11, <2>1, <3>1, UpTheProof
    <3>3. QED
      BY <3>2 DEF StartsAt
  <2>4. QED
    BY <2>1, <2>3
<1>13. PICK from \in Nat : from = block * c /\ \A i \in 1 .. c : B[0][i] = T[0][from + i]
  <2>1. PICK from \in Nat : from = block * c /\ IsAt(from, block, c)
    BY DEF IsAt
  <2>2. IsOver(top, L, P, block, c) /\ IsTop(B, T, L, block) /\ c \in Nat
    BY <1>3, <1>4, <1>12, <1>d DEF IsOver, IsTop
  <2>3. Follows(B[0], T[0], c, from)
    BY <1>8, <1>9, <2>1, <2>2, InTheBlock
  <2>4. QED
    BY <2>1, <2>3 DEF Follows
<1>14. ASSUME NEW i \in 1 .. m
       PROVE  Leaf(block * c + i - 1, its[i]) = Leaf(block * c + i - 1, items[block * c + i])
  <2>1. PICK k \in Nat : k = block * c + i /\ k >= 1 /\ k <= n
    <3>1. block * c \in Nat /\ block * c + m <= n
      BY <1>3
    <3>2. QED
      BY <3>1
  <2>2. i \in 1 .. c
    BY <1>3
  <2>3. part[i] = Leaf(block * c + i - 1, its[i])
    BY <1>6, <2>2
  <2>4. k \in 1 .. 2 ^ (L + P)
    <3>1. PICK w \in Nat : w = 2 ^ P
      BY Powers
    <3>2. 2 ^ (L + P) = c * w
      BY <1>3, <3>1, PowerSum
    <3>3. c * w >= n /\ c * w \in Nat
      <4>1. c * w \in Nat
        OBVIOUS
      <4>2. Block * 2 ^ ProofHashes(n) >= n
        BY ProofHashesAre
      <4>3. QED
        BY <1>2, <1>3, <3>1, <4>1, <4>2
    <3>4. QED
      BY <2>1, <3>2, <3>3
  <2>5. row[k] = Leaf(k - 1, items[k])
    BY <1>5, <2>1, <2>4
  <2>6. part[i] = row[k]
    BY <1>3, <1>8, <1>9, <1>13, <2>1, <2>2
  <2>7. block * c + i - 1 = k - 1
    BY <2>1
  <2>8. QED
    BY <2>1, <2>3, <2>5, <2>6, <2>7
<1>15. QED
  <2>1. TAKE i \in 1 .. m
  <2>2. <<"leaf", block * c + i - 1, its[i].account, its[i].amount, its[i].ref>>
          = <<"leaf", block * c + i - 1, items[block * c + i].account,
              items[block * c + i].amount, items[block * c + i].ref>>
    BY <1>14 DEF Leaf
  <2>3. QED
    BY <1>3, <2>2

LEMMA BlockTyped == BlockLog2 \in Nat /\ Block \in Nat \ {0}
<1>1. BlockLog2 \in Nat
  BY PayoutAssumption
<1>2. QED
  BY <1>1, Powers DEF Block

\* An item that says what its ref does.
FairItem == {it \in Item : it.account = it.ref.merchant /\ it.amount = it.ref.amount}

\* A list that was accepted: its items, and the batches where the contract
\* is called with them, or the root under which they are paid.
ListOK(list) ==
  /\ list.items \in Seq(FairItem)
  /\ chain # "solana" => list.batches \in Seq(Seq(FairItem))
  /\ chain = "solana" => list.root = Root(list.items)

FilesOK ==
  /\ chain \in {"evm", "solana", "sui"}
  /\ file \in Seq(FileRow) /\ IsSeq(lists)
  /\ \A l \in DOMAIN lists : ListOK(lists[l])

LEMMA FairIsItem ==
  ASSUME NEW s \in Seq(FairItem)
  PROVE  s \in Seq(Item)
<1>1. FairItem \subseteq Item
  BY DEF FairItem
<1>2. QED
  BY <1>1

LEMMA ListTyped ==
  ASSUME NEW list, ListOK(list)
  PROVE  /\ list.items \in Seq(Item)
         /\ chain # "solana" => list.batches \in Seq(Seq(Item))
<1>1. \A s \in Seq(FairItem) : s \in Seq(Item)
  BY FairIsItem
<1>2. Seq(FairItem) \subseteq Seq(Item)
  BY <1>1
<1>3. QED
  BY <1>2 DEF ListOK

LEMMA ReadTyped ==
  ASSUME file \in Seq(FileRow), NEW policy
  PROVE  Read(file, policy) \in Seq(1 .. Len(file))
<1>1. PICK n \in Nat : n = Len(file) /\ DOMAIN file = 1 .. n
  OBVIOUS
<1>2. Good(file) \in Seq(1 .. n)
  BY <1>1, LinesRise DEF Good
<1>3. Read(file, policy) = <<>> \/ Read(file, policy) = Good(file)
  BY DEF Read
<1>4. <<>> \in Seq(1 .. n)
  OBVIOUS
<1>5. QED
  BY <1>1, <1>2, <1>3, <1>4

LEMMA ReturnedTyped ==
  ASSUME file \in Seq(FileRow), NEW lines
  PROVE  Returned(lines) \in Seq(FileRow)
<1>1. PICK n \in Nat : n = Len(file) /\ DOMAIN file = 1 .. n
  OBVIOUS
<1>2. PICK back : back = Lines(file, {k \in DOMAIN file \ ToSet(lines) :
                                        Reason(file, k) # "duplicate"})
  OBVIOUS
<1>3. back \in Seq(1 .. n)
  BY <1>1, <1>2, LinesRise
<1>4. Returned(lines) = [k \in 1 .. Len(back) |-> [file[back[k]] EXCEPT !.fault = "none"]]
  BY <1>2 DEF Returned
<1>5. \A k \in 1 .. Len(back) : [file[back[k]] EXCEPT !.fault = "none"] \in FileRow
  <2>1. ASSUME NEW row \in FileRow
        PROVE  [row EXCEPT !.fault = "none"] \in FileRow
    <3>1. [row EXCEPT !.fault = "none"]
            = [id |-> row.id, merchant |-> row.merchant, amount |-> row.amount,
               fault |-> "none"]
      BY DEF FileRow
    <3>2. QED
      BY <3>1 DEF FileRow
  <2>2. \A k \in 1 .. Len(back) : file[back[k]] \in FileRow
    BY <1>1, <1>3
  <2>3. QED
    BY <2>1, <2>2
<1>6. Len(back) \in Nat
  BY <1>3
<1>7. QED
  BY <1>4, <1>5, <1>6

LEMMA PlanTyped ==
  ASSUME file \in Seq(FileRow), NEW lines \in Seq(1 .. Len(file)),
         chain \in {"evm", "solana", "sui"}
  PROVE  ListOK(Plan(lines))
<1>1. PICK items : items = [k \in 1 .. Len(lines) |-> PayoutOf(file[lines[k]], open)]
  OBVIOUS
<1>2. items \in Seq(FairItem)
  <2>1. \A row \in FileRow : PayoutOf(row, open) \in FairItem
    BY DEF FileRow, PayoutOf, FairItem, Item, Ref
  <2>2. \A k \in 1 .. Len(lines) : file[lines[k]] \in FileRow
    OBVIOUS
  <2>3. \A k \in 1 .. Len(lines) : PayoutOf(file[lines[k]], open) \in FairItem
    BY <2>1, <2>2
  <2>4. Len(lines) \in Nat
    OBVIOUS
  <2>5. QED
    BY <1>1, <2>3, <2>4
<1>3. Plan(lines).items = items /\ Plan(lines).batches = Batches(items, Limits[chain])
  BY <1>1 DEF Plan
<1>4. ASSUME chain # "solana"
      PROVE  Batches(items, Limits[chain]) \in Seq(Seq(FairItem))
  <2>1. Limits[chain].align = 0
    BY <1>4, PayoutAssumption
  <2>2. QED
    BY <1>2, <2>1, BatchesTyped DEF Batches
<1>5. chain = "solana" => Plan(lines).root = Root(items)
  BY <1>1 DEF Plan
<1>6. QED
  BY <1>2, <1>3, <1>4, <1>5 DEF ListOK

LEMMA SubmitKeepsFiles ==
  ASSUME FilesOK, NEW policy, Submit(policy)
  PROVE  FilesOK'
<1>1. PICK lines : lines = Read(file, policy)
  OBVIOUS
<1>2. /\ chain' = chain /\ file' = Returned(lines)
      /\ lists' = Append(lists, Plan(lines)) \/ lists' = lists
  BY <1>1 DEF Submit
<1>3. ListOK(Plan(lines)) /\ file' \in Seq(FileRow)
  BY <1>1, <1>2, ReadTyped, PlanTyped, ReturnedTyped DEF FilesOK
<1>4. IsSeq(lists') /\ \A l \in DOMAIN lists' : ListOK(lists'[l])
  <2>1. PICK S : lists \in Seq(S)
    BY DEF FilesOK, IsSeq
  <2>2. PICK p, T : p = Plan(lines) /\ T = S \cup {p}
    OBVIOUS
  <2>3. lists \in Seq(T) /\ p \in T
    BY <2>1, <2>2
  <2>4. CASE lists' = Append(lists, Plan(lines))
    <3>1. lists' \in Seq(T) /\ lists' = Append(lists, p)
      BY <2>2, <2>3, <2>4
    <3>2. /\ DOMAIN lists' = 1 .. Len(lists) + 1
          /\ \A l \in 1 .. Len(lists) : lists'[l] = lists[l]
          /\ lists'[Len(lists) + 1] = p
      BY <2>3, <3>1
    <3>3. DOMAIN lists = 1 .. Len(lists) /\ Len(lists) \in Nat
      BY <2>3
    <3>4. ASSUME NEW l \in DOMAIN lists'
          PROVE  ListOK(lists'[l])
      <4>1. l \in DOMAIN lists \/ l = Len(lists) + 1
        BY <3>2, <3>3
      <4>2. \A k \in DOMAIN lists : ListOK(lists[k])
        BY DEF FilesOK
      <4>3. QED
        BY <1>3, <2>2, <3>2, <3>3, <4>1, <4>2
    <3>5. QED
      BY <3>1, <3>4 DEF IsSeq
  <2>5. CASE lists' = lists
    BY <2>5 DEF FilesOK
  <2>6. QED
    BY <1>2, <2>4, <2>5
<1>5. \A list : ListOK(list) => ListOK(list)'
  BY <1>2 DEF ListOK
<1>6. QED
  BY <1>2, <1>3, <1>4, <1>5 DEF FilesOK

\* Nothing but Submit touches the lists.
LEMMA FilesStay ==
  ASSUME FilesOK, UNCHANGED intakeVars
  PROVE  FilesOK'
BY DEF FilesOK, ListOK, intakeVars
-----------------------------------------------------------------------------
(* The other chains: nothing there is paid to the EVM contract, which is   *)
(* at rest.                                                                *)
OthersOK ==
  /\ chain # "evm" => stack = <<>>
  /\ \A h \in DOMAIN escrows : escrows[h].merchant \in Merchants

\* Nothing moved.
LEMMA StackStays ==
  ASSUME StackOK, UNCHANGED <<bal, credits, paid, holds, fee, stack>>
  PROVE  StackOK'
<1>1. Now' = Now /\ stack' = stack /\ fee' = fee
  BY DEF Now
<1>2. \A k \in 1 .. Len(stack) : Reached(k)' = Reached(k)
  BY <1>1 DEF Reached
<1>3. IsState(Now)' /\ IsSeq(stack') /\ fee' \in Nat
  BY <1>1 DEF StackOK
<1>4. stack' = <<>> => Spare(Now)' = 0
  BY <1>1 DEF StackOK
<1>5. ASSUME NEW k \in 1 .. Len(stack')
      PROVE  /\ FrameOK(stack'[k], Reached(k)', k = Len(stack'))
             /\ k > 1 => Waits(stack'[k].code)
             /\ k = Len(stack') => Spare(stack'[k].saved) = 0
  <2>1. k \in 1 .. Len(stack)
    BY <1>1
  <2>2. /\ FrameOK(stack[k], Reached(k), k = Len(stack))
        /\ k > 1 => Waits(stack[k].code)
        /\ k = Len(stack) => Spare(stack[k].saved) = 0
    BY <2>1 DEF StackOK
  <2>3. QED
    BY <1>1, <1>2, <2>1, <2>2
<1>6. QED
  BY <1>3, <1>4, <1>5 DEF StackOK

\* Money moved, but none of the contract's.
LEMMA OthersKeep ==
  ASSUME StackOK, stack = <<>>, UNCHANGED <<paid, holds, fee, stack>>,
         DOMAIN bal' = DOMAIN bal, bal'[Contract] = bal[Contract]
  PROVE  StackOK'
<1>1. PICK s : s = Now
  OBVIOUS
<1>2. /\ IsState(s) /\ Spare(s) = 0
      /\ s.bal = bal /\ s.holds = holds /\ s.paid = paid
  BY <1>1 DEF StackOK, Now
<1>3. PICK t : t = Now'
  OBVIOUS
<1>4. /\ t = [bal |-> t.bal, credits |-> t.credits, paid |-> t.paid, holds |-> t.holds]
      /\ t.bal = bal' /\ t.holds = holds /\ t.paid = paid
  BY <1>3 DEF Now
<1>5. Spare(t) = Spare(s)
  BY <1>2, <1>4 DEF Spare
<1>6. IsState(t)
  BY <1>2, <1>4, <1>5 DEF IsState
<1>7. stack' = <<>> /\ Len(stack') = 0 /\ IsSeq(stack')
  BY EmptyIsSeq
<1>8. fee' \in Nat
  BY DEF StackOK
<1>9. 1 .. Len(stack') = {}
  BY <1>7
<1>10. IsState(Now)' /\ Spare(Now)' = 0
  BY <1>2, <1>3, <1>5, <1>6
<1>11. QED
  BY <1>7, <1>8, <1>9, <1>10 DEF StackOK

\* Paying merchants leaves the contract's balance alone.
LEMMA NothingAdded == ASSUME NEW f PROVE SumFunctionOnSet(f, {}) = 0
<1>1. SumFunctionOnSet(f, {}) = JP!SumOver({}, f)
  BY DEF SumFunctionOnSet, FoldFunctionOnSet, MapThenFoldSet,
         JP!SumOver, JP!FoldFunctionOnSet, JP!MapThenFoldSet
<1>2. QED
  BY <1>1, SumsAreThere, JP!SumOfNone

LEMMA NotToTheContract ==
  ASSUME NEW items, \A i \in DOMAIN items : items[i].account \in Merchants, IsState(Now)
  PROVE  DOMAIN Paid(items) = DOMAIN bal /\ Paid(items)[Contract] = bal[Contract]
<1>1. {i \in DOMAIN items : items[i].account = Contract} = {}
  BY PartiesDiffer
<1>2. Contract \in DOMAIN bal /\ bal[Contract] \in Int
  BY DEF IsState, Now
<1>3. PICK f : f = [i \in DOMAIN items |-> items[i].amount]
  OBVIOUS
<1>4. Paid(items) = [h \in DOMAIN bal |->
                       bal[h] + SumFunctionOnSet(f, {i \in DOMAIN items : items[i].account = h})]
  BY <1>3 DEF Paid
<1>5. SumFunctionOnSet(f, {i \in DOMAIN items : items[i].account = Contract}) = 0
  BY <1>1, NothingAdded
<1>6. QED
  BY <1>2, <1>4, <1>5

LEMMA SuiPaid == ASSUME NEW items PROVE Sui!Paid(items) = Paid(items)
BY DEF Sui!Paid, Paid, Sui!SumFunctionOnSet, SumFunctionOnSet, Sui!FoldFunctionOnSet,
       FoldFunctionOnSet, Sui!MapThenFoldSet, MapThenFoldSet

\* Another first element.
LEMMA FirstChanged ==
  ASSUME NEW S, NEW s \in Seq(S), NEW x, 1 \in 1 .. Len(s) => x \in S
  PROVE  [s EXCEPT ![1] = x] \in Seq(S)
<1>1. PICK n \in Nat : n = Len(s)
  OBVIOUS
<1>2. PICK t : t = [s EXCEPT ![1] = x]
  OBVIOUS
<1>3. DOMAIN t = 1 .. n /\ \A i \in 1 .. n : t[i] \in S
  BY <1>1, <1>2
<1>4. t = [i \in 1 .. n |-> t[i]]
  BY <1>3, <1>2
<1>5. t \in [1 .. n -> S]
  BY <1>3, <1>4
<1>6. t \in Seq(S)
  BY <1>5
<1>7. QED
  BY <1>6, <1>2

\* A payout run pays the items of a message, which are items of the list, or
\* were put together wrongly, but name merchants.
LEMMA MessageTyped ==
  ASSUME NEW list, ListOK(list), NEW b \in Nat, NEW blocks \in Int,
         NEW m \in {PayBatchMessage(list, b)} \cup Misbuilt(PayBatchMessage(list, b), blocks)
  PROVE  m.items \in Seq(Item) /\ m.block \in Nat /\ m.root = list.root
<1>1. list.items \in Seq(Item)
  BY ListTyped
<1>2. PICK n \in Nat, p \in Nat : n = Len(list.items) /\ p = b * Block
  BY <1>1, BlockTyped
<1>3. PICK q \in Int : q = p + BlockSize(n, b) /\ q <= n
  <2>1. Block \in Nat /\ b * Block = p /\ (b + 1) * Block = p + Block
    BY <1>2, BlockTyped
  <2>2. BlockSize(n, b) = IF p + Block <= n THEN Block ELSE n - p
    BY <2>1 DEF BlockSize
  <2>3. QED
    BY <2>1, <2>2
<1>4. PICK o : o = PayBatchMessage(list, b)
  OBVIOUS
<1>5. /\ o = [root |-> o.root, own |-> o.own, block |-> o.block, items |-> o.items, proof |-> o.proof]
      /\ o.block = b /\ o.root = list.root
      /\ o.items = SubSeq(list.items, p + 1, q)
  BY <1>2, <1>3, <1>4 DEF PayBatchMessage
<1>6. o.items \in Seq(Item)
  <2>1. \A i \in p + 1 .. q : list.items[i] \in Item
    BY <1>1, <1>2, <1>3
  <2>2. p + 1 \in Int
    OBVIOUS
  <2>3. QED
    BY <1>5, <2>1, <2>2, SubSeqProperties
<1>7. ASSUME NEW a \in Merchants, m = [o EXCEPT !.items[1].account = a]
      PROVE  m.items \in Seq(Item)
  <2>1. m.items = [o.items EXCEPT ![1] = [o.items[1] EXCEPT !.account = a]]
    BY <1>5, <1>7
  <2>2. \A it \in Item : [it EXCEPT !.account = a] \in Item
    BY DEF Item
  <2>3. 1 \in 1 .. Len(o.items) => [o.items[1] EXCEPT !.account = a] \in Item
    BY <1>6, <2>2
  <2>4. QED
    BY <1>6, <2>1, <2>3, FirstChanged
<1>8. ASSUME m = [o EXCEPT !.items[1].amount = @ + 1]
      PROVE  m.items \in Seq(Item)
  <2>1. PICK x : /\ x = [o.items[1] EXCEPT !.amount = o.items[1].amount + 1]
                 /\ m.items = [o.items EXCEPT ![1] = x]
    BY <1>5, <1>8
  <2>2. \A it \in Item : [it EXCEPT !.amount = it.amount + 1] \in Item
    BY DEF Item
  <2>3. 1 \in 1 .. Len(o.items) => x \in Item
    BY <1>6, <2>1, <2>2
  <2>4. [o.items EXCEPT ![1] = x] \in Seq(Item)
    BY <1>6, <2>3, FirstChanged
  <2>5. QED
    BY <2>1, <2>4
<1>9. ASSUME m = [o EXCEPT !.items = SubSeq(@, 2, Len(@))]
      PROVE  m.items \in Seq(Item)
  <2>1. m.items = SubSeq(o.items, 2, Len(o.items))
    BY <1>5, <1>9
  <2>2. Len(o.items) \in Int /\ \A i \in 2 .. Len(o.items) : o.items[i] \in Item
    BY <1>6
  <2>3. QED
    BY <2>1, <2>2, SubSeqProperties
<1>10. ASSUME NEW c \in 0 .. blocks - 1, m = [o EXCEPT !.block = c]
       PROVE  m.items = o.items /\ m.block \in Nat /\ m.root = list.root
  BY <1>5, <1>10
<1>a. ASSUME m = [o EXCEPT !.own = FALSE]
      PROVE  m.items = o.items /\ m.block \in Nat /\ m.root = list.root
  BY <1>5, <1>a
<1>11. ASSUME m = o \/ (\E its : m = [o EXCEPT !.items = its])
       PROVE  m.block \in Nat /\ m.root = list.root
  BY <1>5, <1>11
<1>12. ASSUME NEW x, m = [o EXCEPT !.items[1].account = x]
       PROVE  \E its : m = [o EXCEPT !.items = its]
  BY <1>5, <1>12
<1>b. ASSUME m = [o EXCEPT !.items[1].amount = @ + 1]
      PROVE  \E its : m = [o EXCEPT !.items = its]
  BY <1>5, <1>b
<1>13. m = o \/ m \in Misbuilt(o, blocks)
  BY <1>4
<1>14. QED
  BY <1>4, <1>6, <1>7, <1>8, <1>9, <1>10, <1>11, <1>12, <1>13, <1>a, <1>b DEF Misbuilt

\* What can be sent to the program about a list.
LEMMA SolanaSteps ==
  ASSUME NEW list, ListOK(list), OnSolana(list)
  PROVE  \/ \E deadline : \E total \in {Total(list.items), Total(list.items) - 1} : InitRun(list, total, deadline)
         \/ \E m : m.items \in Seq(Item) /\ m.block \in Nat /\ m.root = list.root /\ PayBatch(m)
         \/ Clawback(list.root, TRUE)
         \/ UNCHANGED <<runs, bal, credits, signed>>
<1>1. PICK blocks \in Int : blocks = Blocks(Len(list.items))
  <2>1. PICK n \in Nat, c \in Nat \ {0} : n = Len(list.items) /\ c = Block
    BY ListTyped, BlockTyped
  <2>2. (n + c - 1) \div c \in Int
    OBVIOUS
  <2>3. QED
    BY <2>1, <2>2 DEF Blocks
<1>2. ASSUME NEW b \in 0 .. blocks - 1,
             NEW m \in {PayBatchMessage(list, b)} \cup Misbuilt(PayBatchMessage(list, b), blocks)
      PROVE  m.items \in Seq(Item) /\ m.block \in Nat /\ m.root = list.root
  <2>1. b \in Nat
    OBVIOUS
  <2>2. QED
    BY <2>1, MessageTyped
<1>3. ASSUME Clawback(list.root, FALSE) \/ \E batch : Prepare(batch)
      PROVE  UNCHANGED <<runs, bal, credits, signed>>
  BY <1>3 DEF Clawback, Prepare
<1>4. QED
  BY <1>1, <1>2, <1>3 DEF OnSolana

\* The run record, and what a batch makes of it.
IsRun(run) == DOMAIN run = {"total", "leaves", "vault", "paid", "bits", "sent", "deadline"}

Marks(m, run, new) ==
  /\ IsRun(new) /\ new.total = run.total /\ new.leaves = run.leaves
  /\ new.bits = run.bits \cup LeavesOf(m.block, Len(m.items))
  /\ new.paid = run.paid + Total(m.items)

Sends(m, run, new) ==
  /\ new.sent = run.sent \cup LeavesOf(m.block, Len(m.items))
  /\ new.vault = run.vault - Total(m.items)
  /\ credits' = Credited(m.items) /\ bal' = Paid(m.items)

Keeps(run, new) == new.sent = run.sent /\ new.vault = run.vault /\ credits' = credits /\ bal' = bal

LEMMA PayBatchDoes ==
  ASSUME NEW m, PayBatch(m), IsRun(runs[m.root])
  PROVE  /\ m.root \in DOMAIN runs /\ Proven(m) /\ signed' = signed
         /\ DOMAIN runs' = DOMAIN runs /\ \A r \in DOMAIN runs : r # m.root => runs'[r] = runs[r]
         /\ Marks(m, runs[m.root], runs'[m.root])
         /\ Sends(m, runs[m.root], runs'[m.root]) \/ Keeps(runs[m.root], runs'[m.root])
<1>1. m.root \in DOMAIN runs /\ Proven(m) /\ signed' = signed
  BY DEF PayBatch
<1>2. PICK run, u, t : run = runs[m.root] /\ u = LeavesOf(m.block, Len(m.items)) /\ t = Total(m.items)
  OBVIOUS
<1>3. PICK a, z : /\ a = [run EXCEPT !.bits = @ \cup u, !.paid = @ + t]
                  /\ z = [a EXCEPT !.sent = @ \cup u, !.vault = @ - t]
  OBVIOUS
<1>4. /\ Booked(run, m) = a /\ Drawn(run, m, m.items) = z
  BY <1>2, <1>3 DEF Booked, Drawn
<1>5. /\ IsRun(a) /\ a.total = run.total /\ a.leaves = run.leaves /\ a.bits = run.bits \cup u
      /\ a.paid = run.paid + t /\ a.sent = run.sent /\ a.vault = run.vault
  BY <1>2, <1>3 DEF IsRun
<1>6. /\ IsRun(z) /\ z.total = a.total /\ z.leaves = a.leaves /\ z.bits = a.bits
      /\ z.paid = a.paid /\ z.sent = a.sent \cup u /\ z.vault = a.vault - t
  BY <1>3, <1>5 DEF IsRun
<1>7. \/ runs' = [runs EXCEPT ![m.root] = z] /\ credits' = Credited(m.items) /\ bal' = Paid(m.items)
      \/ runs' = [runs EXCEPT ![m.root] = a] /\ credits' = credits /\ bal' = bal
  BY <1>2, <1>4 DEF PayBatch, Transfers, CallsThatDoNothing
<1>8. QED
  BY <1>1, <1>2, <1>5, <1>6, <1>7 DEF Marks, Sends, Keeps

LEMMA SolanaKeeps ==
  ASSUME StackOK, stack = <<>>, UNCHANGED evmVars,
         NEW list, ListOK(list), OnSolana(list)
  PROVE  StackOK'
<1>1. UNCHANGED <<paid, holds, fee, stack>> /\ IsState(Now)
  BY DEF evmVars, StackOK
<1>2. Contract \in DOMAIN bal /\ Contract # Payer
  BY <1>1, PartiesDiffer DEF IsState, Now
<1>3. ASSUME NEW total, NEW deadline, InitRun(list, total, deadline)
      PROVE  StackOK'
  <2>1. DOMAIN bal' = DOMAIN bal /\ bal'[Contract] = bal[Contract]
    BY <1>2, <1>3 DEF InitRun
  <2>2. QED
    BY <1>1, <2>1, OthersKeep
<1>4. ASSUME NEW m, m.items \in Seq(Item), PayBatch(m)
      PROVE  StackOK'
  <2>1. \A i \in DOMAIN m.items : m.items[i] \in Item
    BY <1>4
  <2>2. \A i \in DOMAIN m.items : m.items[i].account \in Merchants
    BY <2>1 DEF Item
  <2>3. bal' = Paid(m.items) \/ bal' = bal
    BY <1>4 DEF PayBatch, Transfers, CallsThatDoNothing
  <2>4. DOMAIN bal' = DOMAIN bal /\ bal'[Contract] = bal[Contract]
    BY <1>1, <2>2, <2>3, NotToTheContract
  <2>5. QED
    BY <1>1, <2>4, OthersKeep
<1>5. CASE Clawback(list.root, TRUE) \/ bal' = bal
  <2>1. DOMAIN bal' = DOMAIN bal /\ bal'[Contract] = bal[Contract]
    BY <1>2, <1>5 DEF Clawback
  <2>2. QED
    BY <1>1, <2>1, OthersKeep
<1>6. QED
  BY <1>3, <1>4, <1>5, SolanaSteps

\* Sui: a Hold is money in an object, none of it the contract's.
LEMMA SuiPayKeeps ==
  ASSUME StackOK, stack = <<>>, UNCHANGED evmVars,
         NEW b, NEW items \in Seq(Item), Sui!Pay(b, items)
  PROVE  StackOK'
<1>1. UNCHANGED <<paid, holds, fee, stack>> /\ IsState(Now)
  BY DEF evmVars, StackOK
<1>2. \A i \in DOMAIN items : items[i].account \in Merchants
  <2>1. \A i \in DOMAIN items : items[i] \in Item
    OBVIOUS
  <2>2. QED
    BY <2>1 DEF Item
<1>3. bal' = [Paid(items) EXCEPT ![Payer] = @ - Sui!Total(items)]
  BY SuiPaid DEF Sui!Pay
<1>4. DOMAIN bal' = DOMAIN bal /\ bal'[Contract] = bal[Contract]
  <2>1. DOMAIN Paid(items) = DOMAIN bal /\ Paid(items)[Contract] = bal[Contract]
    BY <1>1, <1>2, NotToTheContract
  <2>2. Contract # Payer /\ Contract \in DOMAIN bal
    BY <1>1, PartiesDiffer DEF IsState, Now
  <2>3. QED
    BY <1>3, <2>1, <2>2
<1>5. QED
  BY <1>1, <1>4, OthersKeep

LEMMA SuiKeeps ==
  ASSUME StackOK, stack = <<>>, UNCHANGED evmVars, OthersOK, UNCHANGED chain,
         \/ Sui!OpenBook
         \/ \E b, items : items \in Seq(Item) /\ Sui!Pay(b, items)
         \/ \E b, it, due : it \in Item /\ Sui!Hold(b, it, due)
         \/ SuiEscrow
  PROVE  StackOK' /\ OthersOK'
<1>1. /\ UNCHANGED <<paid, holds, fee, stack>>
      /\ IsState(Now) /\ Contract \in DOMAIN bal
      /\ Contract \notin Merchants /\ Contract # Payer /\ Contract # Collector
  BY PartiesDiffer DEF evmVars, StackOK, IsState, Now
<1>2. CASE Sui!OpenBook
  <2>1. bal' = bal /\ escrows' = escrows
    BY <1>2 DEF Sui!OpenBook
  <2>2. QED
    BY <1>1, <2>1, OthersKeep DEF OthersOK
<1>3. ASSUME NEW b, NEW items \in Seq(Item), Sui!Pay(b, items)
      PROVE  StackOK' /\ OthersOK'
  <2>1. escrows' = escrows
    BY <1>3 DEF Sui!Pay
  <2>2. QED
    BY <1>1, <1>3, <2>1, SuiPayKeeps DEF OthersOK
<1>4. ASSUME NEW b, NEW it \in Item, NEW due, Sui!Hold(b, it, due)
      PROVE  StackOK' /\ OthersOK'
  <2>1. DOMAIN bal' = DOMAIN bal /\ bal'[Contract] = bal[Contract]
    BY <1>1, <1>4 DEF Sui!Hold
  <2>2. PICK h : /\ h.merchant = it.account
                 /\ escrows' = Sui!With(escrows, <<b, it.ref>>, h)
    BY <1>4 DEF Sui!Hold
  <2>3. \A x \in DOMAIN escrows' : escrows'[x].merchant \in Merchants
    BY <2>2 DEF Sui!With, OthersOK, Item
  <2>4. QED
    BY <1>1, <2>1, <2>3, OthersKeep DEF OthersOK
<1>5. ASSUME NEW h \in DOMAIN escrows, Sui!Release(h) \/ Sui!Refund(h) \/ Sui!RefundExpired(h)
      PROVE  StackOK' /\ OthersOK'
  <2>1. escrows' = Sui!Restrict(escrows, DOMAIN escrows \ {h})
    BY <1>5 DEF Sui!Release, Sui!Refund, Sui!RefundExpired, Sui!Deleted
  <2>2. \A x \in DOMAIN escrows' : escrows'[x].merchant \in Merchants
    BY <2>1 DEF Sui!Restrict, OthersOK
  <2>3. DOMAIN bal' = DOMAIN bal /\ bal'[Contract] = bal[Contract]
    <3>1. CASE Sui!Release(h)
      <4>1. PICK rest : /\ rest.account = escrows[h].merchant
                        /\ bal' = [Sui!Paid(<<rest>>) EXCEPT ![Collector] = @ + escrows[h].fee]
        BY <3>1 DEF Sui!Release
      <4>2. rest.account \in Merchants
        BY <4>1 DEF OthersOK
      <4>3. \A i \in DOMAIN <<rest>> : <<rest>>[i].account \in Merchants
        BY <4>2
      <4>4. DOMAIN Paid(<<rest>>) = DOMAIN bal /\ Paid(<<rest>>)[Contract] = bal[Contract]
        BY <1>1, <4>3, NotToTheContract
      <4>5. bal' = [Paid(<<rest>>) EXCEPT ![Collector] = @ + escrows[h].fee]
        BY <4>1, SuiPaid
      <4>6. QED
        BY <1>1, <4>4, <4>5
    <3>2. CASE Sui!Refund(h) \/ Sui!RefundExpired(h)
      BY <1>1, <3>2 DEF Sui!Refund, Sui!RefundExpired
    <3>3. QED
      BY <1>5, <3>1, <3>2
  <2>4. QED
    BY <1>1, <2>2, <2>3, OthersKeep DEF OthersOK
<1>6. QED
  BY <1>2, <1>3, <1>4, <1>5 DEF SuiEscrow
-----------------------------------------------------------------------------
(* All steps together.                                                     *)
PayoutInv == StackOK /\ FilesOK /\ OthersOK

LEMMA OnEvmKeeps ==
  ASSUME StackOK, NEW list, ListOK(list), chain = "evm", OnEvm(list)
  PROVE  StackOK'
<1>1. list.items \in Seq(Item) /\ list.batches \in Seq(Seq(Item))
  BY ListTyped
<1>2. ASSUME NEW k \in DOMAIN list.batches, SettleBatch(list.batches[k])
      PROVE  StackOK'
  <2>1. list.batches[k] \in Seq(Item)
    BY <1>1, <1>2
  <2>2. QED
    BY <1>2, <2>1, SettleBatchKeeps
<1>3. ASSUME NEW i \in DOMAIN list.items,
             \/ Pay(list.items[i]) \/ Settle(list.items[i])
             \/ SettleWithPermit(list.items[i]) \/ \E due : Hold(list.items[i], due)
      PROVE  StackOK'
  <2>1. PICK it : it = list.items[i] /\ it \in Item
    BY <1>1
  <2>2. HoldFee \in Nat
    BY PayoutAssumption
  <2>3. CASE \E due : Hold(it, due)
    BY <2>1, <2>2, <2>3, HoldKeeps
  <2>4. CASE Pay(it) \/ Settle(it) \/ SettleWithPermit(it)
    <3>1. \E who : Call(who, SettleOne(Payer, it))
      BY <2>4 DEF Pay, Settle, SettleWithPermit
    <3>2. QED
      BY <2>1, <3>1, SettleOneKeeps
  <2>5. QED
    BY <1>3, <2>1, <2>3, <2>4
<1>4. QED
  BY <1>2, <1>3 DEF OnEvm

LEMMA EvmStepKeeps ==
  ASSUME StackOK, EvmStep
  PROVE  StackOK'
<1>1. ASSUME NEW ref, Release(ref) PROVE StackOK'
  BY <1>1, ReleaseKeeps
<1>2. ASSUME NEW who, NEW ref, Refund(who, ref) PROVE StackOK'
  BY <1>2, RefundKeeps
<1>3. ASSUME NEW allowed, SetRelayer(allowed) PROVE StackOK'
  <2>1. UNCHANGED <<bal, credits, paid, holds, fee, stack>>
    BY <1>3 DEF SetRelayer
  <2>2. QED
    BY <2>1, StackStays
<1>4. CASE Reserve BY <1>4, ReserveKeeps
<1>5. CASE Measure BY <1>5, MeasureKeeps
<1>6. CASE Transfer BY <1>6, TransferKeeps
<1>7. CASE Moved BY <1>7, MovedKeeps
<1>8. CASE Record BY <1>8, RecordKeeps
<1>9. CASE Drop BY <1>9, DropKeeps
<1>10. CASE Leave BY <1>10, LeaveKeeps
<1>11. CASE Revert BY <1>11, RevertKeeps
<1>12. QED
  BY <1>1, <1>2, <1>3, <1>4, <1>5, <1>6, <1>7, <1>8, <1>9, <1>10, <1>11 DEF EvmStep

LEMMA PayoutInitially == Init => PayoutInv
<1> SUFFICES ASSUME Init PROVE PayoutInv
  OBVIOUS
<1>1. stack = <<>> /\ holds = <<>> /\ escrows = <<>> /\ lists = <<>> /\ paid = {}
  BY DEF Init
<1>2. Contract \in DOMAIN bal /\ bal[Contract] = 0
  BY PartiesDiffer DEF Init
<1>3. PICK s : s = Now
  OBVIOUS
<1>4. /\ s = [bal |-> s.bal, credits |-> s.credits, paid |-> s.paid, holds |-> s.holds]
      /\ s.bal = bal /\ s.holds = holds /\ s.paid = paid
  BY <1>3 DEF Now
<1>5. DOMAIN s.holds = {} /\ Spare(s) = 0
  BY <1>1, <1>2, <1>4, NothingPromised DEF Spare
<1>6. IsState(s)
  <2>1. IsFiniteSet({})
    BY FS_EmptySet
  <2>2. QED
    BY <1>2, <1>4, <1>5, <2>1 DEF IsState
<1>7. fee \in Nat
  <2>1. fee \in (IF chain = "evm" THEN Fees ELSE {0})
    BY DEF Init
  <2>2. fee \in Fees \/ fee = 0
    BY <2>1
  <2>3. \A x \in Fees : x \in Nat
    BY PayoutAssumption
  <2>4. CASE fee \in Fees
    BY <2>3, <2>4
  <2>5. CASE fee = 0
    BY <2>5
  <2>6. QED
    BY <2>2, <2>4, <2>5
<1>8. StackOK
  <2>1. IsSeq(stack) /\ Len(stack) = 0
    BY <1>1, EmptyIsSeq
  <2>2. 1 .. Len(stack) = {}
    BY <2>1
  <2>3. QED
    BY <1>3, <1>5, <1>6, <1>7, <2>1, <2>2 DEF StackOK
<1>9. FilesOK
  <2>1. IsSeq(lists) /\ DOMAIN lists = {}
    BY <1>1, EmptyIsSeq
  <2>2. chain \in {"evm", "solana", "sui"} /\ file \in Seq(FileRow)
    BY PayoutAssumption DEF Init
  <2>3. QED
    BY <2>1, <2>2 DEF FilesOK
<1>10. OthersOK
  BY <1>1 DEF OthersOK
<1>11. QED
  BY <1>8, <1>9, <1>10 DEF PayoutInv

LEMMA PayoutStep == PayoutInv /\ [Next]_vars => PayoutInv'
<1> SUFFICES ASSUME PayoutInv, [Next]_vars PROVE PayoutInv'
  OBVIOUS
<1>0. StackOK /\ FilesOK /\ OthersOK
  BY DEF PayoutInv
<1>1. ASSUME NEW policy, Submit(policy)
      PROVE  PayoutInv'
  <2>1. FilesOK'
    BY <1>0, <1>1, SubmitKeepsFiles
  <2>2. UNCHANGED <<bal, credits, paid, holds, fee, stack, chain, escrows>>
    BY <1>1 DEF Submit, evmVars, suiVars
  <2>3. StackOK'
    BY <1>0, <2>2, StackStays
  <2>4. OthersOK'
    BY <1>0, <2>2 DEF OthersOK
  <2>5. QED
    BY <2>1, <2>3, <2>4 DEF PayoutInv
<1>2. CASE /\ chain = "solana"
           /\ \/ \E l \in DOMAIN lists : OnSolana(lists[l])
              \/ \E m \in Merchants : CloseAccount(m)
           /\ UNCHANGED <<evmVars, suiVars, intakeVars>>
  <2>1. FilesOK' /\ OthersOK' /\ stack = <<>>
    <3>1. UNCHANGED intakeVars /\ UNCHANGED <<stack, chain, escrows>>
      BY <1>2 DEF evmVars, suiVars, intakeVars
    <3>2. QED
      BY <1>0, <1>2, <3>1, FilesStay DEF OthersOK
  <2>2. ASSUME NEW l \in DOMAIN lists, OnSolana(lists[l]) PROVE StackOK'
    <3>1. ListOK(lists[l])
      BY <1>0 DEF FilesOK
    <3>2. QED
      BY <1>0, <1>2, <2>1, <2>2, <3>1, SolanaKeeps
  <2>3. ASSUME NEW m, CloseAccount(m) PROVE StackOK'
    <3>1. UNCHANGED <<bal, credits, paid, holds, fee, stack>>
      BY <1>2, <2>3 DEF CloseAccount, evmVars
    <3>2. QED
      BY <1>0, <3>1, StackStays
  <2>4. QED
    BY <1>2, <2>1, <2>2, <2>3 DEF PayoutInv
<1>3. CASE /\ chain = "evm"
           /\ \/ \E l \in DOMAIN lists : OnEvm(lists[l])
              \/ EvmStep
           /\ UNCHANGED <<runVars, suiVars, intakeVars>>
  <2>1. FilesOK' /\ OthersOK'
    <3>1. UNCHANGED intakeVars /\ UNCHANGED <<chain, escrows>>
      BY <1>3 DEF suiVars, intakeVars
    <3>2. QED
      BY <1>0, <1>3, <3>1, FilesStay DEF OthersOK
  <2>2. ASSUME NEW l \in DOMAIN lists, OnEvm(lists[l]) PROVE StackOK'
    <3>1. ListOK(lists[l])
      BY <1>0 DEF FilesOK
    <3>2. QED
      BY <1>0, <1>3, <2>2, <3>1, OnEvmKeeps
  <2>3. ASSUME EvmStep PROVE StackOK'
    BY <1>0, <2>3, EvmStepKeeps
  <2>4. QED
    BY <1>3, <2>1, <2>2, <2>3 DEF PayoutInv
<1>4. CASE /\ chain = "sui"
           /\ \/ \E l \in DOMAIN lists : OnSui(lists[l])
              \/ SuiEscrow \/ Sui!OpenBook
           /\ UNCHANGED <<runVars, evmVars, intakeVars>>
  <2>1. FilesOK' /\ stack = <<>> /\ UNCHANGED evmVars /\ UNCHANGED chain
    <3>1. UNCHANGED intakeVars /\ UNCHANGED evmVars /\ UNCHANGED chain
      BY <1>4 DEF intakeVars
    <3>2. QED
      BY <1>0, <1>4, <3>1, FilesStay DEF OthersOK
  <2>2. ASSUME NEW l \in DOMAIN lists, OnSui(lists[l])
        PROVE  \/ \E b, items : items \in Seq(Item) /\ Sui!Pay(b, items)
               \/ \E b, it, due : it \in Item /\ Sui!Hold(b, it, due)
    <3>1. lists[l].items \in Seq(Item) /\ lists[l].batches \in Seq(Seq(Item))
      BY <1>0, <1>4, ListTyped DEF FilesOK
    <3>2. ASSUME NEW b, NEW k \in DOMAIN lists[l].batches, Sui!Pay(b, lists[l].batches[k])
          PROVE  \E c, items : items \in Seq(Item) /\ Sui!Pay(c, items)
      <4>1. lists[l].batches[k] \in Seq(Item)
        BY <3>1
      <4>2. QED
        BY <3>2, <4>1
    <3>3. ASSUME NEW b, NEW i \in DOMAIN lists[l].items, Sui!Pay(b, <<lists[l].items[i]>>)
          PROVE  \E c, items : items \in Seq(Item) /\ Sui!Pay(c, items)
      <4>1. <<lists[l].items[i]>> \in Seq(Item)
        BY <3>1
      <4>2. QED
        BY <3>3, <4>1
    <3>4. ASSUME NEW b, NEW i \in DOMAIN lists[l].items, NEW due,
             Sui!Hold(b, lists[l].items[i], due)
          PROVE  \E c, it, z : it \in Item /\ Sui!Hold(c, it, z)
      <4>1. lists[l].items[i] \in Item
        BY <3>1
      <4>2. QED
        BY <3>4, <4>1
    <3>5. QED
      BY <2>2, <3>2, <3>3, <3>4 DEF OnSui
  <2>3. StackOK' /\ OthersOK'
    <3>1. \/ Sui!OpenBook
          \/ \E b, items : items \in Seq(Item) /\ Sui!Pay(b, items)
          \/ \E b, it, due : it \in Item /\ Sui!Hold(b, it, due)
          \/ SuiEscrow
      BY <1>4, <2>2
    <3>2. QED
      BY <1>0, <2>1, <3>1, SuiKeeps
  <2>4. QED
    BY <2>1, <2>3 DEF PayoutInv
<1>5. CASE Tick \/ UNCHANGED vars
  <2>1. UNCHANGED <<bal, credits, paid, holds, fee, stack, chain, escrows>>
    BY <1>5 DEF Tick, vars, evmVars, suiVars, intakeVars
  <2>2. UNCHANGED intakeVars
    BY <1>5 DEF Tick, vars, intakeVars
  <2>3. StackOK' /\ FilesOK'
    BY <1>0, <2>1, <2>2, StackStays, FilesStay
  <2>4. OthersOK'
    BY <1>0, <2>1 DEF OthersOK
  <2>5. QED
    BY <2>3, <2>4 DEF PayoutInv
<1>6. QED
  BY <1>1, <1>2, <1>3, <1>4, <1>5 DEF Next

LEMMA PayoutInvHolds == Spec => []PayoutInv
BY PayoutInitially, PayoutStep, PTL DEF Spec

\* EscrowIsBacked: whatever the token keeps of a transfer and however the
\* payer calls back in while the contract is paying, hold() only writes a
\* record for money that arrived, and release() and refund() pay out only
\* what the record they deleted first had promised; so the contract always
\* holds what its records promise, and no more than that between transactions.
THEOREM EscrowStaysBacked == Spec => []EscrowIsBacked
<1>1. PayoutInv => EscrowIsBacked
  <2> SUFFICES ASSUME PayoutInv PROVE EscrowIsBacked
    OBVIOUS
  <2>1. PICK s : s = Now
    OBVIOUS
  <2>2. IsState(s) /\ s.bal = bal /\ s.holds = holds
    BY <2>1 DEF PayoutInv, StackOK, Now
  <2>3. stack = <<>> => Spare(s) = 0
    BY <2>1 DEF PayoutInv, StackOK
  <2>4. Promised(holds) \in Int /\ bal[Contract] \in Int
    BY <2>2, SpareTyped, PromisedTyped DEF IsState
  <2>5. Spare(s) = bal[Contract] - Promised(holds) /\ Spare(s) >= 0
    BY <2>2 DEF Spare, IsState
  <2>6. QED
    BY <2>3, <2>4, <2>5 DEF EscrowIsBacked
<1>2. QED
  BY <1>1, PayoutInvHolds, PTL
-----------------------------------------------------------------------------
(* Who is paid.                                                            *)
MerchantsPaid(sent) == \A key \in DOMAIN sent : key[2] = key[1].merchant

StateSays(s) ==
  /\ MerchantsPaid(s.credits)
  /\ \A ref \in DOMAIN s.holds : s.holds[ref].merchant = ref.merchant

\* A step of a call moves money to the merchant of its ref, or to nobody who
\* is paid, and records no other merchant.
StepSays(x) ==
  /\ x.do = "move" => x.to \in {Payer, Contract, Collector} \/ x.to = x.ref.merchant
  /\ x.do = "record" => x.hold.merchant = x.hold.ref.merchant

CodeSays(c) == \A i \in 1 .. Len(c) : StepSays(c[i])
FrameSays(f) == StateSays(f.saved) /\ CodeSays(f.code)

StackSays == StateSays(Now) /\ \A k \in 1 .. Len(stack) : FrameSays(stack[k])

AmountsSay == chain = "solana" => \A key \in DOMAIN credits : key[3] = key[1].amount

SuiSays == \A h \in DOMAIN escrows : escrows[h].merchant = h[2].merchant

\* A run is open under the root of an accepted list, for as many leaves.
RunsSay ==
  chain = "solana" =>
    \A root \in DOMAIN runs :
      /\ "leaves" \in DOMAIN runs[root]
      /\ \E l \in DOMAIN lists : /\ lists[l].root = root
                                 /\ runs[root].leaves = Len(lists[l].items)

\* What is added to the tally are the transfers.
LEMMA CreditedAre ==
  ASSUME NEW items, NEW key \in DOMAIN Credited(items)
  PROVE  \/ key \in DOMAIN credits
         \/ \E i \in DOMAIN items : key = <<items[i].ref, items[i].account, items[i].amount>>
BY DEF Credited

LEMMA CreditedSays ==
  ASSUME NEW items, \A i \in DOMAIN items : items[i].account = items[i].ref.merchant,
         MerchantsPaid(credits)
  PROVE  MerchantsPaid(Credited(items))
<1>1. ASSUME NEW key \in DOMAIN Credited(items)
      PROVE  key[2] = key[1].merchant
  <2>1. CASE key \in DOMAIN credits
    BY <2>1 DEF MerchantsPaid
  <2>2. ASSUME NEW i \in DOMAIN items,
               key = <<items[i].ref, items[i].account, items[i].amount>>
        PROVE  key[2] = key[1].merchant
    BY <2>2
  <2>3. QED
    BY <2>1, <2>2, CreditedAre
<1>2. QED
  BY <1>1 DEF MerchantsPaid

LEMMA OnlyOne ==
  ASSUME NEW x
  PROVE  \A i \in DOMAIN <<x>> : <<x>>[i] = x
OBVIOUS
-----------------------------------------------------------------------------
(* The EVM contract.                                                       *)

\* The innermost call takes a step.
LEMMA TopSays ==
  ASSUME StackOK, StackSays, stack # <<>>, NEW f,
         stack' = <<f>> \o Tail(stack), f.code = Tail(stack[1].code),
         stack[1].code # <<>>, f.saved = stack[1].saved, StateSays(Now')
  PROVE  StackSays'
<1>0. PICK T : T = Tail(stack)
  OBVIOUS
<1>1. PICK n \in Nat \ {0} : n = Len(stack) /\ T = Tail(stack)
  BY <1>0, Innermost, Zenon
<1>2. IsSeq(T) /\ Len(T) = n - 1 /\ \A k \in 1 .. n - 1 : T[k] = stack[k + 1]
  BY <1>1, Innermost
<1>3. /\ Len(stack') = n /\ stack'[1] = f
      /\ \A i \in 2 .. n : stack'[i] = T[i - 1]
  <2>1. stack' = <<f>> \o T
    BY <1>1
  <2>2. /\ Len(<<f>> \o T) = Len(T) + 1
        /\ (<<f>> \o T)[1] = f
        /\ \A i \in 2 .. Len(T) + 1 : (<<f>> \o T)[i] = T[i - 1]
    BY <1>2, Pushed, ZenonT(60)
  <2>3. Len(T) + 1 = n
    BY <1>2
  <2>4. QED
    BY <2>1, <2>2, <2>3
<1>4. IsSeq(stack[1].code) /\ FrameSays(stack[1])
  <2>1. 1 \in 1 .. n
    OBVIOUS
  <2>2. QED
    BY <1>1, <2>1, Innermost DEF FrameOK, StackSays
<1>5. FrameSays(f)
  <2>0. PICK c : c = stack[1].code
    OBVIOUS
  <2>2. IsSeq(c) /\ c # <<>>
    BY <1>4, <2>0
  <2>1. PICK m \in Nat \ {0} : c = stack[1].code /\ m = Len(c)
    BY <2>0, <2>2, TailOf
  <2>3. Len(Tail(c)) = m - 1 /\ \A i \in 1 .. m - 1 : Tail(c)[i] = c[i + 1]
    BY <2>1, <2>2, TailOf
  <2>4. \A i \in 1 .. m : StepSays(c[i])
    BY <1>4, <2>1 DEF FrameSays, CodeSays
  <2>5. \A i \in 1 .. m - 1 : i + 1 \in 1 .. m
    OBVIOUS
  <2>6. CodeSays(Tail(c))
    BY <2>3, <2>4, <2>5 DEF CodeSays
  <2>7. QED
    BY <1>4, <2>1, <2>6 DEF FrameSays
<1>6. ASSUME NEW k \in 2 .. n
      PROVE  FrameSays(stack'[k])
  <2>1. k - 1 \in 1 .. n - 1 /\ (k - 1) + 1 = k /\ k \in 1 .. n
    OBVIOUS
  <2>2. stack'[k] = stack[k]
    BY <1>2, <1>3, <2>1
  <2>3. QED
    BY <1>1, <2>1, <2>2 DEF StackSays
<1>7. \A k \in 1 .. n : k = 1 \/ k \in 2 .. n
  OBVIOUS
<1>8. \A k \in 1 .. n : FrameSays(stack'[k])
  BY <1>3, <1>5, <1>6, <1>7
<1>9. QED
  BY <1>3, <1>8 DEF StackSays

\* A call is done, or undone.
LEMMA TopGone ==
  ASSUME StackOK, StackSays, stack # <<>>, stack' = Tail(stack), StateSays(Now')
  PROVE  StackSays'
<1>1. PICK n \in Nat \ {0} : n = Len(stack)
  BY Innermost, Zenon
<1>2. Len(stack') = n - 1 /\ \A k \in 1 .. n - 1 : stack'[k] = stack[k + 1]
  BY <1>1, Innermost
<1>3. \A k \in 1 .. n - 1 : k + 1 \in 1 .. n
  OBVIOUS
<1>4. \A k \in 1 .. n - 1 : FrameSays(stack'[k])
  BY <1>1, <1>2, <1>3 DEF StackSays
<1>5. QED
  BY <1>2, <1>4 DEF StackSays

LEMMA CallSays ==
  ASSUME StackOK, StackSays, NEW who, NEW code, CodeSays(code), Call(who, code)
  PROVE  StackSays'
<1>1. PICK f : f = [code |-> code, before |-> 0, saved |-> Now]
  OBVIOUS
<1>2. stack' = <<f>> \o stack /\ Now' = Now
  BY <1>1 DEF Call, Now
<1>3. FrameSays(f)
  BY <1>1 DEF FrameSays, StackSays
<1>4. IsSeq(stack)
  BY DEF StackOK
<1>5. PICK n \in Nat : n = Len(stack)
  BY <1>4, Pushed
<1>6. /\ Len(stack') = n + 1 /\ stack'[1] = f
      /\ \A i \in 2 .. n + 1 : stack'[i] = stack[i - 1]
  BY <1>2, <1>4, <1>5, Pushed
<1>7. ASSUME NEW k \in 2 .. n + 1
      PROVE  FrameSays(stack'[k])
  <2>1. k - 1 \in 1 .. n
    OBVIOUS
  <2>2. QED
    BY <1>5, <1>6, <2>1 DEF StackSays
<1>8. \A k \in 1 .. n + 1 : k = 1 \/ k \in 2 .. n + 1
  OBVIOUS
<1>9. \A k \in 1 .. n + 1 : FrameSays(stack'[k])
  BY <1>3, <1>6, <1>7, <1>8
<1>10. StateSays(Now')
  BY <1>2 DEF StackSays
<1>11. QED
  BY <1>6, <1>9, <1>10 DEF StackSays

\* The steps that leave the tally and the records as they are.
LEMMA QuietSays ==
  ASSUME StackOK, StackSays, stack # <<>>, stack[1].code # <<>>,
         Advance, credits' = credits, holds' = holds
  PROVE  StackSays'
<1>1. PICK f : /\ stack' = <<f>> \o Tail(stack)
               /\ f.code = Tail(stack[1].code) /\ f.saved = stack[1].saved
  BY Advanced
<1>2. StateSays(Now')
  BY DEF StackSays, StateSays, Now
<1>3. QED
  BY <1>1, <1>2, TopSays

LEMMA MeasureSays ==
  ASSUME StackOK, StackSays, Measure
  PROVE  StackSays'
<1>1. /\ stack # <<>> /\ Head(stack) = stack[1] /\ stack[1].code # <<>>
      /\ FrameOK(stack[1], Now, Len(stack) = 1)
  BY NextStep DEF Measure
<1>2. PICK f : /\ stack' = <<f>> \o Tail(stack)
               /\ f.code = Tail(stack[1].code) /\ f.saved = stack[1].saved
  <2>1. PICK f : f = [Head(stack) EXCEPT !.code = Tail(@), !.before = bal[Contract]]
    OBVIOUS
  <2>2. stack' = <<f>> \o Tail(stack)
    BY <2>1 DEF Measure
  <2>3. f.code = Tail(stack[1].code) /\ f.saved = stack[1].saved
    BY <1>1, <2>1 DEF FrameOK
  <2>4. QED
    BY <2>2, <2>3
<1>3. StateSays(Now')
  BY DEF StackSays, StateSays, Now, Measure
<1>4. QED
  BY <1>1, <1>2, <1>3, TopSays

\* The step that is next says what it should.
LEMMA ThisSays ==
  ASSUME StackOK, StackSays, NEW what, Does(what)
  PROVE  StepSays(This)
<1>1. /\ stack # <<>> /\ stack[1].code # <<>> /\ This = stack[1].code[1]
      /\ IsSeq(stack[1].code)
  BY NextStep
<1>2. PICK n \in Nat \ {0} : n = Len(stack)
  BY <1>1, Innermost, Zenon
<1>3. 1 \in 1 .. n
  OBVIOUS
<1>4. CodeSays(stack[1].code)
  BY <1>2, <1>3 DEF StackSays, FrameSays
<1>5. PICK m \in Nat \ {0} : m = Len(stack[1].code)
  BY <1>1, TailOf
<1>6. 1 \in 1 .. m
  OBVIOUS
<1>7. QED
  BY <1>1, <1>4, <1>5, <1>6 DEF CodeSays

LEMMA TransferSays ==
  ASSUME StackOK, StackSays, Transfer
  PROVE  StackSays'
<1>1. /\ stack # <<>> /\ stack[1].code # <<>> /\ This = stack[1].code[1]
      /\ This.do = "move" /\ StepSays(This)
  BY NextStep, ThisSays DEF Transfer
<1>2. PICK f : /\ stack' = <<f>> \o Tail(stack)
               /\ f.code = Tail(stack[1].code) /\ f.saved = stack[1].saved
  BY <1>1, Advanced DEF Transfer
<1>3. MerchantsPaid(credits) /\ \A ref \in DOMAIN holds : holds[ref].merchant = ref.merchant
  BY DEF StackSays, StateSays, Now
<1>4. MerchantsPaid(credits')
  <2>1. CASE This.to \in {Payer, Contract, Collector}
    BY <1>3, <2>1 DEF Transfer
  <2>2. CASE This.to \notin {Payer, Contract, Collector}
    <3>1. PICK x : x = [ref |-> This.ref, account |-> This.to, amount |-> This.amount]
      OBVIOUS
    <3>2. x.account = x.ref.merchant
      BY <1>1, <2>2, <3>1 DEF StepSays
    <3>3. credits' = Credited(<<x>>)
      BY <2>2, <3>1 DEF Transfer
    <3>4. \A i \in DOMAIN <<x>> : <<x>>[i].account = <<x>>[i].ref.merchant
      BY <3>2, OnlyOne
    <3>5. QED
      BY <1>3, <3>3, <3>4, CreditedSays
  <2>3. QED
    BY <2>1, <2>2
<1>5. StateSays(Now')
  <2>1. Now'.credits = credits' /\ Now'.holds = holds
    BY DEF Now, Transfer
  <2>2. QED
    BY <1>3, <1>4, <2>1 DEF StateSays
<1>6. QED
  BY <1>1, <1>2, <1>5, TopSays

LEMMA RecordSays ==
  ASSUME StackOK, StackSays, Record
  PROVE  StackSays'
<1>1. /\ stack # <<>> /\ stack[1].code # <<>> /\ This = stack[1].code[1]
      /\ This.do = "record" /\ StepSays(This)
  BY NextStep, ThisSays DEF Record
<1>2. PICK f : /\ stack' = <<f>> \o Tail(stack)
               /\ f.code = Tail(stack[1].code) /\ f.saved = stack[1].saved
  BY <1>1, Advanced DEF Record
<1>3. MerchantsPaid(credits) /\ \A ref \in DOMAIN holds : holds[ref].merchant = ref.merchant
  BY DEF StackSays, StateSays, Now
<1>4. This.hold.merchant = This.hold.ref.merchant
  BY <1>1 DEF StepSays
<1>5. holds' = With(holds, This.hold.ref, This.hold) /\ credits' = credits
  BY DEF Record
<1>6. \A ref \in DOMAIN holds' : holds'[ref].merchant = ref.merchant
  BY <1>3, <1>4, <1>5 DEF With
<1>7. StateSays(Now')
  <2>1. Now'.credits = credits /\ Now'.holds = holds'
    BY <1>5 DEF Now
  <2>2. QED
    BY <1>3, <1>6, <2>1 DEF StateSays
<1>8. QED
  BY <1>1, <1>2, <1>7, TopSays

LEMMA DropSays ==
  ASSUME StackOK, StackSays, Drop
  PROVE  StackSays'
<1>1. stack # <<>> /\ stack[1].code # <<>>
  BY NextStep DEF Drop
<1>2. PICK f : /\ stack' = <<f>> \o Tail(stack)
               /\ f.code = Tail(stack[1].code) /\ f.saved = stack[1].saved
  BY <1>1, Advanced DEF Drop
<1>3. MerchantsPaid(credits) /\ \A ref \in DOMAIN holds : holds[ref].merchant = ref.merchant
  BY DEF StackSays, StateSays, Now
<1>4. holds' = Restrict(holds, DOMAIN holds \ {This.ref}) /\ credits' = credits
  BY DEF Drop
<1>5. \A ref \in DOMAIN holds' : holds'[ref].merchant = ref.merchant
  BY <1>3, <1>4 DEF Restrict
<1>6. StateSays(Now')
  <2>1. Now'.credits = credits /\ Now'.holds = holds'
    BY <1>4 DEF Now
  <2>2. QED
    BY <1>3, <1>5, <2>1 DEF StateSays
<1>7. QED
  BY <1>1, <1>2, <1>6, TopSays

LEMMA LeaveSays ==
  ASSUME StackOK, StackSays, Leave
  PROVE  StackSays'
<1>1. stack # <<>> /\ stack' = Tail(stack)
  BY DEF Leave
<1>2. StateSays(Now')
  BY DEF StackSays, StateSays, Now, Leave
<1>3. QED
  BY <1>1, <1>2, TopGone

LEMMA RevertSays ==
  ASSUME StackOK, StackSays, Revert
  PROVE  StackSays'
<1>1. stack # <<>> /\ stack' = Tail(stack)
  BY DEF Revert, Fails, Does
<1>2. Head(stack) = stack[1] /\ Len(stack) \in Nat \ {0}
  BY <1>1, Innermost
<1>3. 1 \in 1 .. Len(stack)
  BY <1>2
<1>4. StateSays(stack[1].saved)
  BY <1>3 DEF StackSays, FrameSays
<1>5. credits' = stack[1].saved.credits /\ holds' = stack[1].saved.holds
  BY <1>2 DEF Revert
<1>6. StateSays(Now')
  <2>1. Now'.credits = credits' /\ Now'.holds = holds'
    BY DEF Now
  <2>2. QED
    BY <1>4, <1>5, <2>1 DEF StateSays
<1>7. QED
  BY <1>1, <1>6, TopGone

\* The code of the entry points.
LEMMA JoinedSays ==
  ASSUME NEW a, IsSeq(a), CodeSays(a), NEW b, IsSeq(b), CodeSays(b)
  PROVE  IsSeq(a \o b) /\ CodeSays(a \o b)
<1>1. PICK m \in Nat, n \in Nat : m = Len(a) /\ n = Len(b)
  BY Joined
<1>2. /\ IsSeq(a \o b) /\ Len(a \o b) = m + n
      /\ \A i \in 1 .. m : (a \o b)[i] = a[i]
      /\ \A i \in m + 1 .. m + n : (a \o b)[i] = b[i - m]
  BY <1>1, Joined
<1>3. ASSUME NEW i \in 1 .. m + n
      PROVE  StepSays((a \o b)[i])
  <2>1. CASE i \in 1 .. m
    BY <1>1, <1>2, <2>1 DEF CodeSays
  <2>2. CASE i \in m + 1 .. m + n
    <3>1. i - m \in 1 .. n
      BY <2>2
    <3>2. StepSays(b[i - m])
      BY <1>1, <3>1 DEF CodeSays
    <3>3. QED
      BY <1>2, <2>2, <3>2
  <2>3. i \in 1 .. m \/ i \in m + 1 .. m + n
    OBVIOUS
  <2>4. QED
    BY <2>1, <2>2, <2>3
<1>4. QED
  BY <1>2, <1>3 DEF CodeSays

LEMMA SingleSays ==
  ASSUME NEW x, StepSays(x)
  PROVE  IsSeq(<<x>>) /\ CodeSays(<<x>>)
<1>1. IsSeq(<<x>>) /\ Len(<<x>>) = 1 /\ <<x>>[1] = x
  BY Single
<1>2. \A i \in 1 .. 1 : i = 1
  OBVIOUS
<1>3. QED
  BY <1>1, <1>2 DEF CodeSays

LEMMA MoveSays ==
  ASSUME NEW ref, NEW from, NEW to, NEW amount,
         to \in {Payer, Contract, Collector} \/ to = ref.merchant
  PROVE  IsSeq(Move(ref, from, to, amount)) /\ CodeSays(Move(ref, from, to, amount))
<1>1. PICK x, y : /\ x = [do |-> "move", ref |-> ref, from |-> from, to |-> to, amount |-> amount]
                  /\ y = [do |-> "moved"]
  OBVIOUS
<1>2. StepSays(x)
  <2>1. x.do = "move" /\ x.to = to /\ x.ref = ref
    BY <1>1
  <2>2. QED
    BY <2>1 DEF StepSays
<1>3. StepSays(y)
  <2>1. y.do = "moved"
    BY <1>1
  <2>2. QED
    BY <2>1 DEF StepSays
<1>4. <<x, y>> \in Seq({x, y})
  OBVIOUS
<1>5. IsSeq(<<x, y>>) /\ Len(<<x, y>>) = 2 /\ <<x, y>>[1] = x /\ <<x, y>>[2] = y
  BY <1>4 DEF IsSeq
<1>6. \A i \in 1 .. 2 : i = 1 \/ i = 2
  OBVIOUS
<1>7. CodeSays(<<x, y>>)
  BY <1>2, <1>3, <1>5, <1>6 DEF CodeSays
<1>8. Move(ref, from, to, amount) = <<x, y>>
  BY <1>1 DEF Move
<1>9. QED
  BY <1>5, <1>7, <1>8

LEMMA SettleOneSays ==
  ASSUME NEW it \in FairItem
  PROVE  IsSeq(SettleOne(Payer, it)) /\ CodeSays(SettleOne(Payer, it))
<1>1. PICK x : x = [do |-> "reserve", ref |-> it.ref]
  OBVIOUS
<1>2. StepSays(x)
  <2>1. x.do = "reserve"
    BY <1>1
  <2>2. QED
    BY <2>1 DEF StepSays
<1>3. PICK a, b : a = <<x>> /\ b = Move(it.ref, Payer, it.account, it.amount)
  OBVIOUS
<1>4. IsSeq(a) /\ CodeSays(a)
  BY <1>2, <1>3, SingleSays
<1>5. IsSeq(b) /\ CodeSays(b)
  <2>1. it.account = it.ref.merchant
    BY DEF FairItem
  <2>2. QED
    BY <1>3, <2>1, MoveSays
<1>6. SettleOne(Payer, it) = a \o b
  BY <1>1, <1>3 DEF SettleOne
<1>7. QED
  BY <1>4, <1>5, <1>6, JoinedSays

LEMMA SettleBatchSays ==
  ASSUME StackOK, StackSays, NEW items \in Seq(FairItem), SettleBatch(items)
  PROVE  StackSays'
<1>1. PICK n \in Nat : n = Len(items)
  OBVIOUS
<1>2. PICK c : c = [k \in 1 .. 3 * n |->
                      SettleOne(Payer, items[((k - 1) \div 3) + 1])[((k - 1) % 3) + 1]]
  OBVIOUS
<1>3. Call(Relayer, c)
  BY <1>1, <1>2 DEF SettleBatch
<1>4. Len(c) = 3 * n
  <2>1. 3 * n \in Nat
    OBVIOUS
  <2>2. c = [k \in 1 .. 3 * n |-> c[k]]
    BY <1>2
  <2>3. QED
    BY <2>1, <2>2, Listed
<1>5. ASSUME NEW k \in 1 .. 3 * n
      PROVE  StepSays(c[k])
  <2>1. PICK j, r : j = ((k - 1) \div 3) + 1 /\ r = ((k - 1) % 3) + 1
    OBVIOUS
  <2>2. j \in 1 .. n /\ r \in 1 .. 3
    BY <2>1
  <2>3. c[k] = SettleOne(Payer, items[j])[r]
    BY <1>2, <2>1
  <2>4. items[j] \in FairItem /\ items[j] \in Item
    BY <1>1, <2>2 DEF FairItem
  <2>5. PICK d : d = SettleOne(Payer, items[j])
    OBVIOUS
  <2>6. Len(d) = 3 /\ CodeSays(d)
    BY <2>4, <2>5, SettleOneIs, SettleOneSays
  <2>7. QED
    BY <2>2, <2>3, <2>5, <2>6 DEF CodeSays
<1>6. CodeSays(c)
  BY <1>4, <1>5 DEF CodeSays
<1>7. QED
  BY <1>3, <1>6, CallSays

LEMMA HoldSays ==
  ASSUME StackOK, StackSays, NEW it \in FairItem, NEW due, Hold(it, due)
  PROVE  StackSays'
<1>1. PICK x, y, z : /\ x = [do |-> "reserve", ref |-> it.ref]
                     /\ y = [do |-> "measure"]
                     /\ z = [do |-> "record", hold |-> HoldOf(it, due)]
  OBVIOUS
<1>2. PICK a, b, d : a = <<x, y>> /\ b = Move(it.ref, Payer, Contract, it.amount) /\ d = <<z>>
  OBVIOUS
<1>3. IsSeq(a) /\ CodeSays(a)
  <2>1. <<x, y>> \in Seq({x, y})
    OBVIOUS
  <2>2. IsSeq(a) /\ Len(a) = 2 /\ a[1] = x /\ a[2] = y
    BY <1>2, <2>1 DEF IsSeq
  <2>3. x.do = "reserve" /\ y.do = "measure"
    BY <1>1
  <2>4. StepSays(x) /\ StepSays(y)
    BY <2>3 DEF StepSays
  <2>5. \A i \in 1 .. 2 : i = 1 \/ i = 2
    OBVIOUS
  <2>6. QED
    BY <2>2, <2>4, <2>5 DEF CodeSays
<1>4. IsSeq(b) /\ CodeSays(b)
  BY <1>2, MoveSays
<1>5. IsSeq(d) /\ CodeSays(d)
  <2>1. z.do = "record" /\ z.hold.merchant = it.account /\ z.hold.ref = it.ref
    BY <1>1 DEF HoldOf
  <2>2. z.hold.merchant = z.hold.ref.merchant
    BY <2>1 DEF FairItem
  <2>3. StepSays(z)
    BY <2>1, <2>2 DEF StepSays
  <2>4. QED
    BY <1>2, <2>3, SingleSays
<1>6. PICK e : e = a \o b /\ IsSeq(e) /\ CodeSays(e)
  BY <1>3, <1>4, JoinedSays
<1>7. PICK c : c = e \o d /\ CodeSays(c)
  BY <1>5, <1>6, JoinedSays
<1>8. Call(Relayer, c)
  BY <1>1, <1>2, <1>6, <1>7 DEF Hold
<1>9. QED
  BY <1>7, <1>8, CallSays

LEMMA ReleaseSays ==
  ASSUME StackOK, StackSays, NEW ref, Release(ref)
  PROVE  StackSays'
<1>1. PICK h : h = holds[ref] /\ h.merchant = ref.merchant
  BY DEF Release, StackSays, StateSays, Now
<1>2. PICK x : x = [do |-> "drop", ref |-> ref]
  OBVIOUS
<1>3. PICK a, b, d : /\ a = <<x>>
                     /\ b = Move(ref, Contract, h.merchant, h.amount - h.fee)
                     /\ d = IF h.fee > 0 THEN Move(ref, Contract, Collector, h.fee) ELSE <<>>
  OBVIOUS
<1>4. IsSeq(a) /\ CodeSays(a)
  <2>1. x.do = "drop"
    BY <1>2
  <2>2. StepSays(x)
    BY <2>1 DEF StepSays
  <2>3. QED
    BY <1>3, <2>2, SingleSays
<1>5. IsSeq(b) /\ CodeSays(b)
  BY <1>1, <1>3, MoveSays
<1>6. IsSeq(d) /\ CodeSays(d)
  <2>1. CASE h.fee > 0
    BY <1>3, <2>1, MoveSays
  <2>2. CASE ~(h.fee > 0)
    BY <1>3, <2>2, EmptyIsSeq DEF CodeSays
  <2>3. QED
    BY <2>1, <2>2
<1>7. PICK e : e = a \o b /\ IsSeq(e) /\ CodeSays(e)
  BY <1>4, <1>5, JoinedSays
<1>8. PICK c : c = e \o d /\ CodeSays(c)
  BY <1>6, <1>7, JoinedSays
<1>9. Call(Relayer, c)
  BY <1>1, <1>2, <1>3, <1>7, <1>8 DEF Release
<1>10. QED
  BY <1>8, <1>9, CallSays

LEMMA RefundSays ==
  ASSUME StackOK, StackSays, NEW who, NEW ref, Refund(who, ref)
  PROVE  StackSays'
<1>1. PICK h : h = holds[ref] /\ h.payer = Payer
  BY DEF Refund, StackOK, IsState, IsHold, Now
<1>2. PICK x : x = [do |-> "drop", ref |-> ref]
  OBVIOUS
<1>3. PICK a, b : a = <<x>> /\ b = Move(ref, Contract, h.payer, h.amount)
  OBVIOUS
<1>4. IsSeq(a) /\ CodeSays(a)
  <2>1. x.do = "drop"
    BY <1>2
  <2>2. StepSays(x)
    BY <2>1 DEF StepSays
  <2>3. QED
    BY <1>3, <2>2, SingleSays
<1>5. IsSeq(b) /\ CodeSays(b)
  BY <1>1, <1>3, MoveSays
<1>6. PICK c : c = a \o b /\ CodeSays(c)
  BY <1>4, <1>5, JoinedSays
<1>7. Call(who, c)
  BY <1>1, <1>2, <1>3, <1>6 DEF Refund
<1>8. QED
  BY <1>6, <1>7, CallSays

LEMMA OnEvmSays ==
  ASSUME StackOK, StackSays, NEW list, ListOK(list), chain = "evm", OnEvm(list)
  PROVE  StackSays'
<1>1. list.items \in Seq(FairItem) /\ list.batches \in Seq(Seq(FairItem))
  BY DEF ListOK
<1>2. ASSUME NEW k \in DOMAIN list.batches, SettleBatch(list.batches[k])
      PROVE  StackSays'
  <2>1. list.batches[k] \in Seq(FairItem)
    BY <1>1, <1>2
  <2>2. QED
    BY <1>2, <2>1, SettleBatchSays
<1>3. ASSUME NEW i \in DOMAIN list.items,
             \/ Pay(list.items[i]) \/ Settle(list.items[i])
             \/ SettleWithPermit(list.items[i]) \/ \E due : Hold(list.items[i], due)
      PROVE  StackSays'
  <2>1. PICK it : it = list.items[i] /\ it \in FairItem
    BY <1>1
  <2>2. CASE \E due : Hold(it, due)
    BY <2>1, <2>2, HoldSays
  <2>3. CASE Pay(it) \/ Settle(it) \/ SettleWithPermit(it)
    <3>1. PICK who : Call(who, SettleOne(Payer, it))
      BY <2>3 DEF Pay, Settle, SettleWithPermit
    <3>2. QED
      BY <2>1, <3>1, SettleOneSays, CallSays
  <2>4. QED
    BY <1>3, <2>1, <2>2, <2>3
<1>4. QED
  BY <1>2, <1>3 DEF OnEvm

LEMMA EvmStepSays ==
  ASSUME StackOK, StackSays, EvmStep
  PROVE  StackSays'
<1>1. ASSUME NEW ref, Release(ref) PROVE StackSays'
  BY <1>1, ReleaseSays
<1>2. ASSUME NEW who, NEW ref, Refund(who, ref) PROVE StackSays'
  BY <1>2, RefundSays
<1>3. ASSUME NEW allowed, SetRelayer(allowed) PROVE StackSays'
  BY <1>3 DEF SetRelayer, StackSays, Now
<1>4. CASE Reserve
  <2>1. stack # <<>> /\ stack[1].code # <<>>
    BY <1>4, NextStep DEF Reserve
  <2>2. QED
    BY <1>4, <2>1, QuietSays DEF Reserve
<1>5. CASE Measure BY <1>5, MeasureSays
<1>6. CASE Transfer BY <1>6, TransferSays
<1>7. CASE Moved
  <2>1. stack # <<>> /\ stack[1].code # <<>>
    BY <1>7, NextStep DEF Moved
  <2>2. QED
    BY <1>7, <2>1, QuietSays DEF Moved
<1>8. CASE Record BY <1>8, RecordSays
<1>9. CASE Drop BY <1>9, DropSays
<1>10. CASE Leave BY <1>10, LeaveSays
<1>11. CASE Revert BY <1>11, RevertSays
<1>12. QED
  BY <1>1, <1>2, <1>3, <1>4, <1>5, <1>6, <1>7, <1>8, <1>9, <1>10, <1>11 DEF EvmStep
-----------------------------------------------------------------------------
(* The payout run, and Sui.                                                *)

\* The contract has nothing to do with it.
LEMMA StackSaysOn ==
  ASSUME StackSays, holds' = holds, stack' = stack, MerchantsPaid(credits')
  PROVE  StackSays'
<1>1. Now'.credits = credits' /\ Now'.holds = holds /\ Now.holds = holds
  BY DEF Now
<1>2. StateSays(Now')
  BY <1>1 DEF StackSays, StateSays
<1>3. QED
  BY <1>2 DEF StackSays

LEMMA PaidSoFar ==
  ASSUME StackSays
  PROVE  MerchantsPaid(credits)
BY DEF StackSays, StateSays, Now

\* A batch that pay_batch takes is a block of every list with that root.
LEMMA ProvenIsTheBlock ==
  ASSUME FilesOK, chain = "solana", NEW l \in DOMAIN lists, NEW m, m.block \in Nat,
         m.items \in Seq(Item), lists[l].root = m.root,
         runs[m.root].leaves = Len(lists[l].items), Proven(m)
  PROVE  \E k \in Nat, p \in Nat :
           /\ DOMAIN m.items = 1 .. k /\ Len(m.items) = k /\ k \in 1 .. Block
           /\ p = m.block * Block /\ p + k <= Len(lists[l].items)
           /\ \A i \in 1 .. k : /\ m.items[i].account = lists[l].items[p + i].account
                                /\ m.items[i].amount = lists[l].items[p + i].amount
                                /\ m.items[i].ref = lists[l].items[p + i].ref
<1>2. PICK items : items = lists[l].items /\ items \in Seq(FairItem) /\ m.root = Root(items)
  BY DEF FilesOK, ListOK
<1>3. PICK n \in Nat : n = Len(items) /\ n = runs[m.root].leaves
  BY <1>2
<1>4. /\ m.block * Block < n /\ Len(m.items) = BlockSize(n, m.block)
      /\ Len(m.proof) = ProofHashes(n)
      /\ Recompute(m.block, m.items, m.proof) = Root(items)
  BY <1>2, <1>3 DEF Proven
<1>5. PICK k \in Nat : k = Len(m.items) /\ DOMAIN m.items = 1 .. k
  OBVIOUS
<1>6. PICK p \in Nat : p = m.block * Block
  BY BlockTyped
<1>7. k \in 1 .. Block /\ p + k <= n
  <2>1. (m.block + 1) * Block = p + Block
    BY <1>6, BlockTyped
  <2>2. k = IF p + Block <= n THEN Block ELSE n - p
    BY <1>4, <1>5, <1>6, <2>1 DEF BlockSize
  <2>3. p < n
    BY <1>4, <1>6
  <2>4. QED
    BY <2>2, <2>3, BlockTyped
<1>8. \A i \in 1 .. k : /\ m.items[i].account = items[p + i].account
                         /\ m.items[i].amount = items[p + i].amount
                         /\ m.items[i].ref = items[p + i].ref
  <2>1. PICK its, proof : its = m.items /\ proof = m.proof
    OBVIOUS
  <2>b. PICK b \in Nat : b = m.block
    OBVIOUS
  <2>2. /\ BlockLog2 \in Nat /\ Len(items) = n /\ Len(its) = k
        /\ b * Block < n /\ b * Block + k <= n /\ k <= Block
    BY <1>3, <1>4, <1>5, <1>6, <1>7, <2>1, <2>b, BlockTyped
  <2>3. Len(proof) = ProofHashes(n) /\ Recompute(b, its, proof) = Root(items)
    BY <1>4, <2>1, <2>b
  <2>4. \A i \in 1 .. k : /\ its[i].account = items[b * Block + i].account
                           /\ its[i].amount = items[b * Block + i].amount
                           /\ its[i].ref = items[b * Block + i].ref
    BY <2>2, <2>3, BatchIsOfTheList
  <2>5. QED
    BY <1>6, <2>1, <2>b, <2>4
<1>9. QED
  BY <1>2, <1>3, <1>5, <1>6, <1>7, <1>8, ZenonT(60)

\* However a message was put together: if its hashes go up to the root, each
\* account and each amount in it are those of the ref beside them.
LEMMA ProvenIsListed ==
  ASSUME FilesOK, RunsSay, chain = "solana", NEW m, m.block \in Nat,
         m.items \in Seq(Item), m.root \in DOMAIN runs, Proven(m)
  PROVE  \A i \in DOMAIN m.items : /\ m.items[i].account = m.items[i].ref.merchant
                                   /\ m.items[i].amount = m.items[i].ref.amount
<1>1. PICK l \in DOMAIN lists : /\ lists[l].root = m.root
                                /\ runs[m.root].leaves = Len(lists[l].items)
  BY DEF RunsSay
<1>2. PICK k \in Nat, p \in Nat :
        /\ DOMAIN m.items = 1 .. k /\ p + k <= Len(lists[l].items)
        /\ \A i \in 1 .. k : /\ m.items[i].account = lists[l].items[p + i].account
                             /\ m.items[i].amount = lists[l].items[p + i].amount
                             /\ m.items[i].ref = lists[l].items[p + i].ref
  BY <1>1, ProvenIsTheBlock
<1>3. ASSUME NEW i \in 1 .. k
      PROVE  lists[l].items[p + i] \in FairItem
  <2>1. lists[l].items \in Seq(FairItem) /\ p + i \in 1 .. Len(lists[l].items)
    BY <1>2 DEF FilesOK, ListOK
  <2>2. QED
    BY <2>1, ElementOfSeq
<1>4. QED
  BY <1>2, <1>3 DEF FairItem

LEMMA SolanaSays ==
  ASSUME StackSays, AmountsSay, RunsSay, FilesOK, chain = "solana",
         UNCHANGED <<evmVars, intakeVars>>,
         NEW l \in DOMAIN lists, OnSolana(lists[l])
  PROVE  StackSays' /\ AmountsSay' /\ RunsSay'
<1>1. /\ holds' = holds /\ stack' = stack /\ chain' = chain /\ lists' = lists
      /\ MerchantsPaid(credits)
      /\ \A key \in DOMAIN credits : key[3] = key[1].amount
  BY PaidSoFar DEF evmVars, intakeVars, AmountsSay
<1>2. PICK list : list = lists[l] /\ ListOK(list)
  BY DEF FilesOK
<1>3. \A root \in DOMAIN runs :
        /\ "leaves" \in DOMAIN runs[root]
        /\ \E k \in DOMAIN lists : /\ lists[k].root = root
                                    /\ runs[root].leaves = Len(lists[k].items)
  BY DEF RunsSay
<1>4. ASSUME NEW total, NEW deadline, InitRun(list, total, deadline)
      PROVE  StackSays' /\ AmountsSay' /\ RunsSay'
  <2>1. credits' = credits
    BY <1>4 DEF InitRun
  <2>2. PICK run : /\ "leaves" \in DOMAIN run /\ run.leaves = Len(list.items)
                   /\ runs' = With(runs, list.root, run)
    BY <1>4 DEF InitRun
  <2>3. \A root \in DOMAIN runs' :
          \/ root \in DOMAIN runs /\ runs'[root] = runs[root]
          \/ root = list.root /\ runs'[root] = run
    BY <2>2 DEF With
  <2>4. ASSUME NEW root \in DOMAIN runs'
        PROVE  /\ "leaves" \in DOMAIN runs'[root]
               /\ \E k \in DOMAIN lists : /\ lists[k].root = root
                                           /\ runs'[root].leaves = Len(lists[k].items)
    <3>1. CASE root \in DOMAIN runs /\ runs'[root] = runs[root]
      BY <1>3, <3>1
    <3>2. CASE root = list.root /\ runs'[root] = run
      BY <1>2, <2>2, <3>2
    <3>3. QED
      BY <2>3, <3>1, <3>2
  <2>5. RunsSay'
    BY <1>1, <2>4 DEF RunsSay
  <2>6. QED
    BY <1>1, <2>1, <2>5, StackSaysOn DEF AmountsSay
<1>5. ASSUME NEW m, m.items \in Seq(Item), m.block \in Nat, PayBatch(m)
      PROVE  StackSays' /\ AmountsSay' /\ RunsSay'
  <2>1. /\ m.root \in DOMAIN runs /\ Proven(m)
        /\ credits' = Credited(m.items) \/ credits' = credits
    BY <1>5 DEF PayBatch, Transfers, CallsThatDoNothing
  <2>2. \A i \in DOMAIN m.items : /\ m.items[i].account = m.items[i].ref.merchant
                                  /\ m.items[i].amount = m.items[i].ref.amount
    BY <1>5, <2>1, ProvenIsListed
  <2>3. MerchantsPaid(credits')
    BY <1>1, <2>1, <2>2, CreditedSays
  <2>4. \A key \in DOMAIN credits' : key[3] = key[1].amount
    <3>1. ASSUME NEW key \in DOMAIN Credited(m.items)
          PROVE  key[3] = key[1].amount
      <4>1. CASE key \in DOMAIN credits
        BY <1>1, <4>1
      <4>2. ASSUME NEW i \in DOMAIN m.items,
                   key = <<m.items[i].ref, m.items[i].account, m.items[i].amount>>
            PROVE  key[3] = key[1].amount
        BY <2>2, <4>2
      <4>3. QED
        BY <4>1, <4>2, CreditedAre
    <3>2. QED
      BY <1>1, <2>1, <3>1
  <2>5. \A run : "leaves" \in DOMAIN run =>
          /\ "leaves" \in DOMAIN Booked(run, m) /\ Booked(run, m).leaves = run.leaves
          /\ "leaves" \in DOMAIN Drawn(run, m, m.items) /\ Drawn(run, m, m.items).leaves = run.leaves
    BY DEF Booked, Drawn
  <2>6. \E new : /\ runs' = [runs EXCEPT ![m.root] = new]
                 /\ new = Booked(runs[m.root], m) \/ new = Drawn(runs[m.root], m, m.items)
    BY <1>5 DEF PayBatch, Transfers, CallsThatDoNothing
  <2>7. RunsSay'
    BY <1>1, <1>3, <2>5, <2>6 DEF RunsSay
  <2>8. QED
    BY <1>1, <2>3, <2>4, <2>7, StackSaysOn DEF AmountsSay
<1>6. CASE Clawback(list.root, TRUE) \/ UNCHANGED <<runs, bal, credits, signed>>
  <2>1. credits' = credits /\ DOMAIN runs' \subseteq DOMAIN runs
        /\ \A root \in DOMAIN runs' : runs'[root] = runs[root]
    BY <1>6 DEF Clawback, Restrict
  <2>2. RunsSay'
    BY <1>1, <1>3, <2>1 DEF RunsSay
  <2>3. QED
    BY <1>1, <2>1, <2>2, StackSaysOn DEF AmountsSay
<1>7. QED
  BY <1>2, <1>4, <1>5, <1>6, SolanaSteps

LEMMA SuiCredited == ASSUME NEW items PROVE Sui!Credited(items) = Credited(items)
<1>1. \A s : Sui!Cardinality(s) = Cardinality(s)
  BY DEF Sui!Cardinality, Cardinality
<1>2. \A f, x : Sui!Count(f, x) = Count(f, x)
  BY DEF Sui!Count, Count
<1>3. QED
  BY <1>1, <1>2 DEF Sui!Credited, Credited

LEMMA SuiSaysOn ==
  ASSUME StackSays, SuiSays, UNCHANGED evmVars,
         \/ Sui!OpenBook
         \/ \E b, items : items \in Seq(FairItem) /\ Sui!Pay(b, items)
         \/ \E b, it, due : it \in FairItem /\ Sui!Hold(b, it, due)
         \/ SuiEscrow
  PROVE  StackSays' /\ SuiSays'
<1>1. holds' = holds /\ stack' = stack /\ MerchantsPaid(credits)
  BY PaidSoFar DEF evmVars
<1>2. CASE Sui!OpenBook
  <2>1. credits' = credits /\ escrows' = escrows
    BY <1>2 DEF Sui!OpenBook
  <2>2. QED
    BY <1>1, <2>1, StackSaysOn DEF SuiSays
<1>3. ASSUME NEW b, NEW items \in Seq(FairItem), Sui!Pay(b, items)
      PROVE  StackSays' /\ SuiSays'
  <2>1. escrows' = escrows /\ credits' = Credited(items)
    BY <1>3, SuiCredited DEF Sui!Pay
  <2>2. \A i \in DOMAIN items : items[i].account = items[i].ref.merchant
    <3>1. \A i \in DOMAIN items : items[i] \in FairItem
      OBVIOUS
    <3>2. QED
      BY <3>1 DEF FairItem
  <2>3. MerchantsPaid(credits')
    BY <1>1, <2>1, <2>2, CreditedSays
  <2>4. QED
    BY <1>1, <2>1, <2>3, StackSaysOn DEF SuiSays
<1>4. ASSUME NEW b, NEW it \in FairItem, NEW due, Sui!Hold(b, it, due)
      PROVE  StackSays' /\ SuiSays'
  <2>1. PICK h : h.merchant = it.account /\ escrows' = Sui!With(escrows, <<b, it.ref>>, h)
    BY <1>4 DEF Sui!Hold
  <2>2. credits' = credits
    BY <1>4 DEF Sui!Hold
  <2>3. h.merchant = <<b, it.ref>>[2].merchant
    BY <2>1 DEF FairItem
  <2>4. \A x \in DOMAIN escrows' : escrows'[x].merchant = x[2].merchant
    BY <2>1, <2>3 DEF Sui!With, SuiSays
  <2>5. QED
    BY <1>1, <2>2, <2>4, StackSaysOn DEF SuiSays
<1>5. ASSUME NEW h \in DOMAIN escrows, Sui!Release(h) \/ Sui!Refund(h) \/ Sui!RefundExpired(h)
      PROVE  StackSays' /\ SuiSays'
  <2>1. escrows' = Sui!Restrict(escrows, DOMAIN escrows \ {h})
    BY <1>5 DEF Sui!Release, Sui!Refund, Sui!RefundExpired, Sui!Deleted
  <2>2. SuiSays'
    BY <2>1 DEF Sui!Restrict, SuiSays
  <2>3. MerchantsPaid(credits')
    <3>1. CASE Sui!Release(h)
      <4>1. PICK rest : /\ rest.ref = h[2] /\ rest.account = escrows[h].merchant
                        /\ credits' = Credited(<<rest>>)
        BY <3>1, SuiCredited DEF Sui!Release
      <4>2. rest.account = rest.ref.merchant
        BY <4>1 DEF SuiSays
      <4>3. \A i \in DOMAIN <<rest>> : <<rest>>[i].account = <<rest>>[i].ref.merchant
        BY <4>2, OnlyOne
      <4>4. QED
        BY <1>1, <4>1, <4>3, CreditedSays
    <3>2. CASE Sui!Refund(h) \/ Sui!RefundExpired(h)
      BY <1>1, <3>2 DEF Sui!Refund, Sui!RefundExpired
    <3>3. QED
      BY <1>5, <3>1, <3>2
  <2>4. QED
    BY <1>1, <2>2, <2>3, StackSaysOn
<1>6. QED
  BY <1>2, <1>3, <1>4, <1>5 DEF SuiEscrow

\* An accepted list stays where it is.
LEMMA ListsGrow ==
  ASSUME FilesOK, NEW policy, Submit(policy), NEW l \in DOMAIN lists
  PROVE  l \in DOMAIN lists' /\ lists'[l] = lists[l]
<1>1. PICK S : lists \in Seq(S)
  BY DEF FilesOK, IsSeq
<1>2. PICK p : lists' = Append(lists, p) \/ lists' = lists
  BY DEF Submit
<1>3. PICK T : T = S \cup {p}
  OBVIOUS
<1>4. lists \in Seq(T) /\ p \in T
  BY <1>1, <1>3
<1>5. CASE lists' = Append(lists, p)
  <2>1. /\ DOMAIN lists' = 1 .. Len(lists) + 1
        /\ \A k \in 1 .. Len(lists) : lists'[k] = lists[k]
    BY <1>4, <1>5
  <2>2. DOMAIN lists = 1 .. Len(lists) /\ Len(lists) \in Nat
    BY <1>4
  <2>3. QED
    BY <2>1, <2>2
<1>6. QED
  BY <1>2, <1>5

ListedInv == StackSays /\ AmountsSay /\ SuiSays /\ RunsSay

LEMMA ListedInitially == Init => ListedInv
<1> SUFFICES ASSUME Init PROVE ListedInv
  OBVIOUS
<1>1. stack = <<>> /\ holds = <<>> /\ escrows = <<>> /\ credits = <<>> /\ runs = <<>>
  BY DEF Init
<1>2. Len(stack) = 0
  BY <1>1, EmptyIsSeq
<1>3. 1 .. Len(stack) = {}
  BY <1>2
<1>4. DOMAIN credits = {} /\ DOMAIN holds = {} /\ DOMAIN escrows = {} /\ DOMAIN runs = {}
  BY <1>1
<1>5. Now.credits = credits /\ Now.holds = holds
  BY DEF Now
<1>6. StackSays
  BY <1>3, <1>4, <1>5 DEF StackSays, StateSays, MerchantsPaid
<1>7. AmountsSay /\ SuiSays /\ RunsSay
  BY <1>4 DEF AmountsSay, SuiSays, RunsSay
<1>8. QED
  BY <1>6, <1>7 DEF ListedInv

LEMMA ListedStep == PayoutInv /\ ListedInv /\ [Next]_vars => ListedInv'
<1> SUFFICES ASSUME PayoutInv, ListedInv, [Next]_vars PROVE ListedInv'
  OBVIOUS
<1>0. StackOK /\ FilesOK /\ OthersOK /\ StackSays /\ AmountsSay /\ SuiSays /\ RunsSay
  BY DEF PayoutInv, ListedInv
<1>1. ASSUME NEW policy, Submit(policy)
      PROVE  ListedInv'
  <2>1. UNCHANGED <<credits, holds, stack, chain, escrows, runs>>
    BY <1>1 DEF Submit, runVars, evmVars, suiVars
  <2>2. StackSays' /\ AmountsSay' /\ SuiSays'
    BY <1>0, <2>1, PaidSoFar, StackSaysOn DEF AmountsSay, SuiSays
  <2>3. \A l \in DOMAIN lists : l \in DOMAIN lists' /\ lists'[l] = lists[l]
    BY <1>0, <1>1, ListsGrow
  <2>4. RunsSay'
    BY <1>0, <2>1, <2>3 DEF RunsSay
  <2>5. QED
    BY <2>2, <2>4 DEF ListedInv
<1>2. CASE /\ chain = "solana"
           /\ \/ \E l \in DOMAIN lists : OnSolana(lists[l])
              \/ \E m \in Merchants : CloseAccount(m)
           /\ UNCHANGED <<evmVars, suiVars, intakeVars>>
  <2>1. SuiSays'
    BY <1>0, <1>2 DEF suiVars, SuiSays
  <2>2. ASSUME NEW l \in DOMAIN lists, OnSolana(lists[l])
        PROVE  StackSays' /\ AmountsSay' /\ RunsSay'
    BY <1>0, <1>2, <2>2, SolanaSays
  <2>3. ASSUME NEW m, CloseAccount(m)
        PROVE  StackSays' /\ AmountsSay' /\ RunsSay'
    <3>1. UNCHANGED <<credits, runs, holds, stack, chain, lists>>
      BY <1>2, <2>3 DEF CloseAccount, evmVars, intakeVars
    <3>2. QED
      BY <1>0, <3>1, PaidSoFar, StackSaysOn DEF AmountsSay, RunsSay
  <2>4. QED
    BY <1>2, <2>1, <2>2, <2>3 DEF ListedInv
<1>3. CASE /\ chain = "evm"
           /\ \/ \E l \in DOMAIN lists : OnEvm(lists[l])
              \/ EvmStep
           /\ UNCHANGED <<runVars, suiVars, intakeVars>>
  <2>1. chain' = "evm" /\ escrows' = escrows
    BY <1>3 DEF suiVars, intakeVars
  <2>2. AmountsSay' /\ SuiSays' /\ RunsSay'
    BY <1>0, <2>1 DEF AmountsSay, SuiSays, RunsSay
  <2>3. ASSUME NEW l \in DOMAIN lists, OnEvm(lists[l]) PROVE StackSays'
    <3>1. ListOK(lists[l])
      BY <1>0 DEF FilesOK
    <3>2. QED
      BY <1>0, <1>3, <2>3, <3>1, OnEvmSays
  <2>4. ASSUME EvmStep PROVE StackSays'
    BY <1>0, <2>4, EvmStepSays
  <2>5. QED
    BY <1>3, <2>2, <2>3, <2>4 DEF ListedInv
<1>4. CASE /\ chain = "sui"
           /\ \/ \E l \in DOMAIN lists : OnSui(lists[l])
              \/ SuiEscrow \/ Sui!OpenBook
           /\ UNCHANGED <<runVars, evmVars, intakeVars>>
  <2>1. chain' = "sui" /\ UNCHANGED evmVars
    BY <1>4 DEF intakeVars
  <2>2. AmountsSay' /\ RunsSay'
    BY <2>1 DEF AmountsSay, RunsSay
  <2>3. ASSUME NEW l \in DOMAIN lists, OnSui(lists[l])
        PROVE  \/ \E b, items : items \in Seq(FairItem) /\ Sui!Pay(b, items)
               \/ \E b, it, due : it \in FairItem /\ Sui!Hold(b, it, due)
    <3>1. lists[l].items \in Seq(FairItem) /\ lists[l].batches \in Seq(Seq(FairItem))
      BY <1>0, <1>4 DEF FilesOK, ListOK
    <3>2. ASSUME NEW b, NEW k \in DOMAIN lists[l].batches, Sui!Pay(b, lists[l].batches[k])
          PROVE  \E c, items : items \in Seq(FairItem) /\ Sui!Pay(c, items)
      <4>1. lists[l].batches[k] \in Seq(FairItem)
        BY <3>1
      <4>2. QED
        BY <3>2, <4>1
    <3>3. ASSUME NEW b, NEW i \in DOMAIN lists[l].items, Sui!Pay(b, <<lists[l].items[i]>>)
          PROVE  \E c, items : items \in Seq(FairItem) /\ Sui!Pay(c, items)
      <4>1. <<lists[l].items[i]>> \in Seq(FairItem)
        BY <3>1
      <4>2. QED
        BY <3>3, <4>1
    <3>4. ASSUME NEW b, NEW i \in DOMAIN lists[l].items, NEW due,
             Sui!Hold(b, lists[l].items[i], due)
          PROVE  \E c, it, z : it \in FairItem /\ Sui!Hold(c, it, z)
      <4>1. lists[l].items[i] \in FairItem
        BY <3>1
      <4>2. QED
        BY <3>4, <4>1
    <3>5. QED
      BY <2>3, <3>2, <3>3, <3>4 DEF OnSui
  <2>4. StackSays' /\ SuiSays'
    <3>1. \/ Sui!OpenBook
          \/ \E b, items : items \in Seq(FairItem) /\ Sui!Pay(b, items)
          \/ \E b, it, due : it \in FairItem /\ Sui!Hold(b, it, due)
          \/ SuiEscrow
      BY <1>4, <2>3
    <3>2. QED
      BY <1>0, <2>1, <3>1, SuiSaysOn
  <2>5. QED
    BY <2>2, <2>4 DEF ListedInv
<1>5. CASE Tick \/ UNCHANGED vars
  <2>1. UNCHANGED <<credits, holds, stack, chain, escrows, runs, lists>>
    BY <1>5 DEF Tick, vars, runVars, evmVars, suiVars, intakeVars
  <2>2. StackSays' /\ AmountsSay' /\ SuiSays' /\ RunsSay'
    BY <1>0, <2>1, PaidSoFar, StackSaysOn DEF AmountsSay, SuiSays, RunsSay
  <2>3. QED
    BY <2>2 DEF ListedInv
<1>6. QED
  BY <1>1, <1>2, <1>3, <1>4, <1>5 DEF Next

\* OnlyTheListIsPaid: on no chain is money sent to anyone but the merchant
\* its ref names, and on Solana never another amount: pay_batch hashes the
\* accounts and amounts it was really given, so a message put together in any
\* other way does not go up its proof to the root that the payer signed; on an
\* EVM chain and on Sui the records carry the merchant they were made for.
THEOREM OnlyTheListIsPaidHolds == Spec => []OnlyTheListIsPaid
<1>1. Spec => []ListedInv
  BY ListedInitially, ListedStep, PayoutInvHolds, PTL DEF Spec
<1>2. ListedInv => OnlyTheListIsPaid
  BY PaidSoFar DEF ListedInv, MerchantsPaid, AmountsSay, OnlyTheListIsPaid
<1>3. QED
  BY <1>1, <1>2, PTL

-----------------------------------------------------------------------------
(* Sums, said of the operators of the community modules.                   *)
Adds(S, f) == IsFiniteSet(S) /\ \A x \in S : f[x] \in Int

\* What holds of no element, and of a set when it holds without one of its
\* elements, holds of the whole.
LEMMA OneByOne ==
  ASSUME NEW S, IsFiniteSet(S), NEW G, {} \in G,
         \A T \in SUBSET S : \A x \in T : T \ {x} \in G => T \in G
  PROVE  S \in G
<1> DEFINE D == {T \in SUBSET S : T \notin G}
<1> SUFFICES ASSUME D # {} PROVE FALSE
  OBVIOUS
<1>1. PICK T \in D : \A U \in SUBSET T : U # T => U \notin D
  <2>1. D \subseteq SUBSET S /\ JP!IsFiniteSet(S)
    BY DEF JP!IsFiniteSet, IsFiniteSet
  <2> HIDE DEF D
  <2>2. QED
    BY <2>1, SumsAreThere, JP!MinimalSubset
<1>2. T \in SUBSET S /\ T \notin G /\ T # {}
  OBVIOUS
<1>3. PICK x : x \in T
  BY <1>2
<1>4. T \ {x} \in SUBSET T /\ T \ {x} # T /\ T \ {x} \in SUBSET S
  BY <1>2, <1>3
<1>5. T \ {x} \in G
  BY <1>1, <1>4
<1>6. QED
  BY <1>2, <1>3, <1>5

LEMMA SumIs ==
  ASSUME NEW S, NEW f
  PROVE  /\ SumFunctionOnSet(f, S) = JP!SumOver(S, f)
         /\ MapThenSumSet(LAMBDA x : f[x], S) = JP!SumOver(S, f)
BY DEF SumFunctionOnSet, FoldFunctionOnSet, MapThenFoldSet, MapThenSumSet,
       JP!SumOver, JP!FoldFunctionOnSet, JP!MapThenFoldSet

LEMMA AddsThere ==
  ASSUME NEW S, NEW f, Adds(S, f)
  PROVE  JP!Summable(S, f)
BY DEF Adds, JP!Summable, JP!IsFiniteSet, IsFiniteSet

LEMMA AddsPart ==
  ASSUME NEW S, NEW f, Adds(S, f), NEW T, T \subseteq S
  PROVE  Adds(T, f)
BY FS_Subset DEF Adds

LEMMA SumInt ==
  ASSUME NEW S, NEW f, Adds(S, f)
  PROVE  SumFunctionOnSet(f, S) \in Int
BY AddsThere, SumIs, SumsAreThere, JP!SumTyped

LEMMA SumLess ==
  ASSUME NEW S, NEW f, Adds(S, f), NEW y \in S
  PROVE  SumFunctionOnSet(f, S) = f[y] + SumFunctionOnSet(f, S \ {y})
<1>1. JP!SumOver(S, f) = f[y] + JP!SumOver(S \ {y}, f)
  BY AddsThere, SumsAreThere, JP!SumWithout
<1>2. QED
  BY <1>1, SumIs

LEMMA SumSame ==
  ASSUME NEW S, NEW f, NEW h, \A x \in S : f[x] = h[x]
  PROVE  SumFunctionOnSet(f, S) = SumFunctionOnSet(h, S)
<1>1. JP!SumOver(S, f) = JP!SumOver(S, h)
  BY SumsAreThere, JP!SumOfEqual
<1>2. QED
  BY <1>1, SumIs

\* The elements of one set, then those of another.
LEMMA SumJoined ==
  ASSUME NEW S, NEW T, NEW f, Adds(S \cup T, f), S \cap T = {}
  PROVE  SumFunctionOnSet(f, S \cup T) = SumFunctionOnSet(f, S) + SumFunctionOnSet(f, T)
<1> DEFINE G == {U \in SUBSET T : SumFunctionOnSet(f, S \cup U)
                                    = SumFunctionOnSet(f, S) + SumFunctionOnSet(f, U)}
<1>1. IsFiniteSet(T) /\ Adds(S, f) /\ Adds(T, f)
  <2>1. S \subseteq S \cup T /\ T \subseteq S \cup T
    OBVIOUS
  <2>2. Adds(S, f) /\ Adds(T, f)
    BY <2>1, AddsPart
  <2>3. QED
    BY <2>2 DEF Adds
<1>2. {} \in G
  <2>1. SumFunctionOnSet(f, {}) = 0 /\ SumFunctionOnSet(f, S) \in Int
    BY <1>1, NothingAdded, SumInt
  <2>2. S \cup {} = S
    OBVIOUS
  <2>3. QED
    BY <2>1, <2>2
<1>3. ASSUME NEW U \in SUBSET T, NEW x \in U, U \ {x} \in G
      PROVE  U \in G
  <2>1. PICK V : V = U \ {x} /\ V \in SUBSET T
    OBVIOUS
  <2>2. x \in S \cup U /\ (S \cup U) \ {x} = S \cup V /\ x \in T
    BY <2>1
  <2>3. Adds(S \cup U, f) /\ Adds(U, f) /\ Adds(V, f)
    <3>1. S \cup U \subseteq S \cup T /\ U \subseteq S \cup T /\ V \subseteq S \cup T
      BY <2>1
    <3>2. QED
      BY <3>1, AddsPart
  <2>4. SumFunctionOnSet(f, S \cup U) = f[x] + SumFunctionOnSet(f, S \cup V)
    BY <2>2, <2>3, SumLess
  <2>5. SumFunctionOnSet(f, U) = f[x] + SumFunctionOnSet(f, V)
    BY <2>1, <2>3, SumLess
  <2>6. SumFunctionOnSet(f, S \cup V) = SumFunctionOnSet(f, S) + SumFunctionOnSet(f, V)
    BY <1>3, <2>1
  <2>7. /\ SumFunctionOnSet(f, S) \in Int /\ SumFunctionOnSet(f, V) \in Int
        /\ f[x] \in Int
    BY <1>1, <2>2, <2>3, SumInt DEF Adds
  <2>8. QED
    BY <2>4, <2>5, <2>6, <2>7
<1> HIDE DEF G
<1>4. T \in G
  BY <1>1, <1>2, <1>3, OneByOne
<1>5. QED
  BY <1>4 DEF G

\* Two terms for each element.
LEMMA SumOfBoth ==
  ASSUME NEW S, NEW f, Adds(S, f), NEW g, Adds(S, g),
         NEW h, \A x \in S : h[x] = f[x] + g[x]
  PROVE  SumFunctionOnSet(h, S) = SumFunctionOnSet(f, S) + SumFunctionOnSet(g, S)
<1> DEFINE G == {U \in SUBSET S : SumFunctionOnSet(h, U)
                                    = SumFunctionOnSet(f, U) + SumFunctionOnSet(g, U)}
<1>0. Adds(S, h) /\ IsFiniteSet(S)
  BY DEF Adds
<1>1. {} \in G
  BY NothingAdded
<1>2. ASSUME NEW U \in SUBSET S, NEW x \in U, U \ {x} \in G
      PROVE  U \in G
  <2>1. PICK V : V = U \ {x} /\ V \in SUBSET S
    OBVIOUS
  <2>2. /\ Adds(U, f) /\ Adds(U, g) /\ Adds(U, h)
        /\ Adds(V, f) /\ Adds(V, g) /\ Adds(V, h)
    BY <1>0, <2>1, AddsPart
  <2>3. /\ SumFunctionOnSet(f, U) = f[x] + SumFunctionOnSet(f, V)
        /\ SumFunctionOnSet(g, U) = g[x] + SumFunctionOnSet(g, V)
        /\ SumFunctionOnSet(h, U) = h[x] + SumFunctionOnSet(h, V)
    BY <2>1, <2>2, SumLess
  <2>4. SumFunctionOnSet(h, V) = SumFunctionOnSet(f, V) + SumFunctionOnSet(g, V)
    BY <1>2, <2>1
  <2>5. /\ SumFunctionOnSet(f, V) \in Int /\ SumFunctionOnSet(g, V) \in Int
        /\ f[x] \in Int /\ g[x] \in Int /\ h[x] = f[x] + g[x]
    BY <2>2, SumInt DEF Adds
  <2>6. QED
    BY <2>3, <2>4, <2>5
<1> HIDE DEF G
<1>3. S \in G
  BY <1>0, <1>1, <1>2, OneByOne
<1>4. QED
  BY <1>3 DEF G

\* The elements of S that are counted at h.
At(S, to, h) == {i \in S : to[i] = h}

\* Part by part: each element i of S is counted at to[i].
LEMMA SumByParts ==
  ASSUME NEW S, NEW f, Adds(S, f), NEW H, IsFiniteSet(H),
         NEW to, \A i \in S : to[i] \in H,
         NEW part, \A h \in H : part[h] = SumFunctionOnSet(f, At(S, to, h))
  PROVE  Adds(H, part) /\ SumFunctionOnSet(part, H) = SumFunctionOnSet(f, S)
<1> DEFINE Of(U) == {i \in S : to[i] \in U}
           G == {U \in SUBSET H : SumFunctionOnSet(part, U) = SumFunctionOnSet(f, Of(U))}
<1>0. Adds(H, part)
  <2>1. ASSUME NEW h \in H PROVE part[h] \in Int
    <3>1. At(S, to, h) \subseteq S
      BY DEF At
    <3>2. QED
      BY <3>1, AddsPart, SumInt
  <2>2. QED
    BY <2>1 DEF Adds
<1>1. {} \in G
  <2>1. Of({}) = {}
    OBVIOUS
  <2>2. QED
    BY <2>1, NothingAdded
<1>2. ASSUME NEW U \in SUBSET H, NEW x \in U, U \ {x} \in G
      PROVE  U \in G
  <2>1. PICK V : V = U \ {x} /\ V \in SUBSET H
    OBVIOUS
  <2>2. PICK A, B : A = Of(V) /\ B = At(S, to, x)
    OBVIOUS
  <2>3. Of(U) = A \cup B /\ A \cap B = {} /\ A \subseteq S /\ B \subseteq S /\ A \cup B \subseteq S
    BY <2>1, <2>2 DEF At
  <2>4. Adds(U, part) /\ Adds(V, part) /\ Adds(A, f) /\ Adds(B, f) /\ Adds(A \cup B, f)
    BY <1>0, <2>1, <2>3, AddsPart
  <2>5. SumFunctionOnSet(part, U) = part[x] + SumFunctionOnSet(part, V)
    BY <2>1, <2>4, SumLess
  <2>6. SumFunctionOnSet(f, A \cup B) = SumFunctionOnSet(f, A) + SumFunctionOnSet(f, B)
    BY <2>3, <2>4, SumJoined
  <2>7. SumFunctionOnSet(part, V) = SumFunctionOnSet(f, A)
    BY <1>2, <2>1, <2>2
  <2>8. part[x] = SumFunctionOnSet(f, B)
    BY <2>2
  <2>9. SumFunctionOnSet(f, A) \in Int /\ SumFunctionOnSet(f, B) \in Int
    BY <2>4, SumInt
  <2>10. SumFunctionOnSet(part, U) = SumFunctionOnSet(f, A \cup B)
    <3>1. PICK n, k : n = SumFunctionOnSet(f, A) /\ k = SumFunctionOnSet(f, B)
      OBVIOUS
    <3>2. SumFunctionOnSet(part, U) = k + n
      BY <2>5, <2>7, <2>8, <3>1
    <3>3. SumFunctionOnSet(f, A \cup B) = n + k
      BY <2>6, <3>1
    <3>4. n \in Int /\ k \in Int
      BY <2>9, <3>1
    <3>5. QED
      BY <3>2, <3>3, <3>4
  <2>11. SumFunctionOnSet(part, U) = SumFunctionOnSet(f, Of(U))
    BY <2>3, <2>10
  <2>12. QED
    BY <2>11
<1> HIDE DEF G
<1>3. H \in G
  BY <1>1, <1>2, OneByOne
<1>4. Of(H) = S
  OBVIOUS
<1>5. QED
  BY <1>0, <1>3, <1>4 DEF G

\* One element more, or none.
LEMMA SumNat ==
  ASSUME NEW S, IsFiniteSet(S), NEW f, \A x \in S : f[x] \in Nat
  PROVE  /\ Adds(S, f) /\ SumFunctionOnSet(f, S) \in Nat
         /\ SumFunctionOnSet(f, S) = 0 <=> \A x \in S : f[x] = 0
<1> DEFINE G == {U \in SUBSET S : /\ SumFunctionOnSet(f, U) \in Nat
                                  /\ SumFunctionOnSet(f, U) = 0 <=> \A x \in U : f[x] = 0}
<1>0. Adds(S, f)
  BY DEF Adds
<1>1. {} \in G
  BY NothingAdded
<1>2. ASSUME NEW U \in SUBSET S, NEW x \in U, U \ {x} \in G
      PROVE  U \in G
  <2>1. Adds(U, f)
    BY <1>0, AddsPart
  <2>2. SumFunctionOnSet(f, U) = f[x] + SumFunctionOnSet(f, U \ {x})
    BY <2>1, SumLess
  <2>3. PICK n : n = SumFunctionOnSet(f, U \ {x})
    OBVIOUS
  <2>4. n \in Nat /\ (n = 0 <=> \A y \in U \ {x} : f[y] = 0) /\ f[x] \in Nat
    BY <1>2, <2>3
  <2>5. SumFunctionOnSet(f, U) = f[x] + n
    BY <2>2, <2>3
  <2>6. QED
    BY <2>4, <2>5
<1> HIDE DEF G
<1>3. S \in G
  BY <1>1, <1>2, OneByOne
<1>4. QED
  BY <1>0, <1>3 DEF G

-----------------------------------------------------------------------------
(* The root of a list stands for the whole of it.                          *)

\* T is the tree of the first n items, of depth d.
TreeOf(T, d, items, n) ==
  /\ d \in Nat /\ n <= 2 ^ d /\ Halves(T, d)
  /\ \A i \in 1 .. 2 ^ d : T[0][i] = IF i <= n THEN Leaf(i - 1, items[i]) ELSE PadLeaf

LEMMA RootIsATree ==
  ASSUME NEW items, NEW n \in Nat, Len(items) = n, BlockLog2 \in Nat
  PROVE  \E T, d : TreeOf(T, d, items, n) /\ Root(items) = T[d][1]
<1>1. PICK L \in Nat : L = BlockLog2
  OBVIOUS
<1>2. PICK P \in Nat : P = ProofHashes(n)
  BY ProofHashesAre
<1>3. PICK d \in Nat : d = L + P
  OBVIOUS
<1>4. n <= 2 ^ d
  <2>1. PICK c, w : c = 2 ^ L /\ w = 2 ^ P /\ c \in Nat /\ w \in Nat
    BY Powers
  <2>2. 2 ^ d = c * w
    BY <1>3, <2>1, PowerSum
  <2>3. c * w >= n
    BY <1>1, <1>2, <2>1, ProofHashesAre DEF Block
  <2>4. QED
    BY <2>2, <2>3
<1>5. PICK row : row = Padded(items, 0, 2 ^ d)
  OBVIOUS
<1>6. row = [i \in 1 .. 2 ^ d |-> IF i <= n THEN Leaf(i - 1, items[i]) ELSE PadLeaf]
  BY <1>5 DEF Padded
<1>7. row = [i \in 1 .. 2 ^ d |-> row[i]]
  BY <1>6
<1>8. PICK T : T = Levels(row, d)
  OBVIOUS
<1>9. T[0] = row /\ Halves(T, d)
  BY <1>7, <1>8, TreeIs
<1>10. Root(items) = T[d][1]
  BY <1>1, <1>2, <1>3, <1>5, <1>8 DEF Root, Build, Depth
<1>11. \A i \in 1 .. 2 ^ d : T[0][i] = IF i <= n THEN Leaf(i - 1, items[i]) ELSE PadLeaf
  BY <1>6, <1>9
<1>12. TreeOf(T, d, items, n)
  BY <1>4, <1>9, <1>11 DEF TreeOf
<1>13. QED
  BY <1>10, <1>12

LEMMA LeafIs ==
  /\ \A i, it, j, other :
       Leaf(i, it) = Leaf(j, other) =>
         it.account = other.account /\ it.amount = other.amount /\ it.ref = other.ref
  /\ \A i, it : Leaf(i, it) # PadLeaf
  /\ \A i, it, a, b : Leaf(i, it) # Node(a, b)
  /\ \A a, b : PadLeaf # Node(a, b)
<1>1. ASSUME NEW i, NEW it, NEW j, NEW other, Leaf(i, it) = Leaf(j, other)
      PROVE  it.account = other.account /\ it.amount = other.amount /\ it.ref = other.ref
  <2>1. <<"leaf", i, it.account, it.amount, it.ref>>
          = <<"leaf", j, other.account, other.amount, other.ref>>
    BY <1>1 DEF Leaf
  <2>2. QED
    BY <2>1
<1>2. ASSUME NEW i, NEW it PROVE Leaf(i, it) # PadLeaf
  <2>1. Leaf(i, it)[1] = "leaf" /\ PadLeaf[1] = "pad"
    BY DEF Leaf, PadLeaf
  <2>2. QED
    BY <2>1
<1>3. ASSUME NEW i, NEW it, NEW a, NEW b PROVE Leaf(i, it) # Node(a, b)
  <2>1. Leaf(i, it)[1] = "leaf" /\ Node(a, b)[1] = "node"
    BY DEF Leaf, Node
  <2>2. QED
    BY <2>1
<1>4. ASSUME NEW a, NEW b PROVE PadLeaf # Node(a, b)
  <2>1. PadLeaf[1] = "pad" /\ Node(a, b)[1] = "node"
    BY DEF PadLeaf, Node
  <2>2. QED
    BY <2>1
<1>5. QED
  BY <1>1, <1>2, <1>3, <1>4

LEMMA SameBottom ==
  ASSUME NEW d \in Nat, NEW T, NEW B, Halves(T, d), Halves(B, d), B[d][1] = T[d][1],
         NEW c \in Nat, c = 2 ^ d
  PROVE  \A i \in 1 .. c : B[0][i] = T[0][i]
<1>1. PICK z \in Nat : z = 0
  OBVIOUS
<1>2. PICK block \in Nat : block = 0
  OBVIOUS
<1>3. PICK from \in Nat : from = block * c /\ from = 0
  BY <1>2
<1>4. IsOver(d, d, z, block, c) /\ IsTop(B, T, d, block) /\ IsAt(from, block, c)
  <2>1. d + 0 = d /\ 0 + 1 = 1 /\ 0 < 2 ^ 0
    BY Powers
  <2>2. QED
    BY <1>1, <1>2, <1>3, <2>1 DEF IsOver, IsTop, IsAt
<1>5. SUFFICES ASSUME NEW i \in 1 .. c PROVE B[0][i] = T[0][i]
  OBVIOUS
<1>6. B[0][i] = T[0][from + i]
  <2>1. Follows(B[0], T[0], c, from)
    BY <1>4, InTheBlock
  <2>2. QED
    BY <2>1 DEF Follows
<1>7. from + i = i
  BY <1>3
<1>8. QED
  BY <1>6, <1>7

\* Two trees with the same root are equally deep and equal at the bottom.
LEMMA NotDeeper ==
  ASSUME NEW T, NEW d, NEW items, NEW n \in Nat, TreeOf(T, d, items, n),
         NEW U, NEW e, NEW others, NEW m \in Nat, TreeOf(U, e, others, m),
         T[d][1] = U[e][1]
  PROVE  e <= d
<1> SUFFICES ASSUME d < e PROVE FALSE
  BY DEF TreeOf
<1>1. d \in Nat /\ e \in Nat /\ Halves(T, d) /\ Halves(U, e)
  BY DEF TreeOf
<1>2. PICK x \in Nat : x = e - d /\ x >= 1
  BY <1>1
<1>3. PICK V : V = [k \in 0 .. d |-> U[k + x]]
  OBVIOUS
<1>4. Halves(V, d)
  <2>1. ASSUME NEW k \in 1 .. d, NEW i \in 1 .. 2 ^ (d - k)
        PROVE  V[k][i] = Node(V[k - 1][2 * i - 1], V[k - 1][2 * i])
    <3>1. k + x \in 1 .. e /\ e - (k + x) = d - k /\ (k + x) - 1 = (k - 1) + x
      BY <1>1, <1>2
    <3>2. U[k + x][i] = Node(U[(k - 1) + x][2 * i - 1], U[(k - 1) + x][2 * i])
      BY <1>1, <3>1 DEF Halves
    <3>3. V[k] = U[k + x] /\ V[k - 1] = U[(k - 1) + x]
      BY <1>1, <1>3
    <3>4. QED
      BY <3>2, <3>3
  <2>2. QED
    BY <2>1 DEF Halves
<1>5. PICK c \in Nat : c = 2 ^ d /\ c >= 1
  BY <1>1, Powers
<1>6. V[d][1] = U[e][1]
  BY <1>1, <1>2, <1>3
<1>7. V[0][1] = T[0][1]
  <2>1. Halves(T, d) /\ Halves(V, d) /\ T[d][1] = V[d][1] /\ d \in Nat
    BY <1>1, <1>4, <1>6
  <2>2. \A i \in 1 .. c : T[0][i] = V[0][i]
    BY <1>5, <2>1, SameBottom
  <2>3. QED
    BY <1>5, <2>2
<1>8. PICK a, b : V[0][1] = Node(a, b)
  <2>1. V[0] = U[x]
    BY <1>1, <1>2, <1>3
  <2>2. x \in 1 .. e /\ e - x \in Nat /\ x \in Nat
    BY <1>1, <1>2
  <2>3. 1 \in 1 .. 2 ^ (e - x)
    BY <2>2, Powers
  <2>4. U[x][1] = Node(U[x - 1][2 * 1 - 1], U[x - 1][2 * 1])
    BY <1>1, <2>2, <2>3 DEF Halves
  <2>5. QED
    BY <2>1, <2>4
<1>9. T[0][1] = Leaf(1 - 1, items[1]) \/ T[0][1] = PadLeaf
  <2>1. 1 \in 1 .. 2 ^ d
    BY <1>5
  <2>2. QED
    BY <2>1 DEF TreeOf
<1>10. QED
  BY <1>7, <1>8, <1>9, LeafIs

LEMMA NotLonger ==
  ASSUME NEW T, NEW d, NEW items, NEW n \in Nat, TreeOf(T, d, items, n),
         NEW U, NEW others, NEW m \in Nat, TreeOf(U, d, others, m),
         \A i \in 1 .. 2 ^ d : T[0][i] = U[0][i]
  PROVE  m <= n
<1> SUFFICES ASSUME n < m PROVE FALSE
  OBVIOUS
<1>1. PICK c \in Nat : c = 2 ^ d
  BY Powers DEF TreeOf
<1>2. m \in 1 .. c
  BY <1>1 DEF TreeOf
<1>3. T[0][m] = PadLeaf /\ U[0][m] = Leaf(m - 1, others[m])
  BY <1>1, <1>2 DEF TreeOf
<1>4. QED
  BY <1>1, <1>2, <1>3, LeafIs

\* The root names the list: two lists of any length with the same root are,
\* item by item, one list.  So the address of a run, which is derived from
\* the root, stands for what the payer signed; padding cannot be taken for an
\* item, nor an inner node for a leaf.
THEOREM RootNamesTheList ==
  ASSUME NEW items, NEW n \in Nat, Len(items) = n, BlockLog2 \in Nat,
         NEW others, NEW m \in Nat, Len(others) = m,
         Root(items) = Root(others)
  PROVE  /\ m = n
         /\ \A i \in 1 .. n : /\ items[i].account = others[i].account
                              /\ items[i].amount = others[i].amount
                              /\ items[i].ref = others[i].ref
<1>1. PICK T, d : TreeOf(T, d, items, n) /\ Root(items) = T[d][1]
  BY RootIsATree
<1>2. PICK U, e : TreeOf(U, e, others, m) /\ Root(others) = U[e][1]
  BY RootIsATree
<1>3. e = d
  <2>1. T[d][1] = U[e][1]
    BY <1>1, <1>2
  <2>2. e <= d /\ d <= e
    BY <1>1, <1>2, <2>1, NotDeeper
  <2>3. QED
    BY <1>1, <1>2, <2>2 DEF TreeOf
<1>4. PICK c \in Nat : c = 2 ^ d
  BY <1>1, Powers DEF TreeOf
<1>5. \A i \in 1 .. c : T[0][i] = U[0][i]
  <2>1. d \in Nat /\ Halves(T, d) /\ Halves(U, e)
    BY <1>1, <1>2 DEF TreeOf
  <2>2. T[d][1] = U[d][1] /\ Halves(U, d)
    BY <1>1, <1>2, <1>3, <2>1, Zenon
  <2>3. QED
    BY <1>4, <2>1, <2>2, SameBottom
<1>6. m = n
  <2>1. TreeOf(U, d, others, m) /\ \A i \in 1 .. 2 ^ d : U[0][i] = T[0][i]
    BY <1>2, <1>3, <1>4, <1>5
  <2>2. m <= n /\ n <= m
    BY <1>1, <1>4, <1>5, <2>1, NotLonger
  <2>3. QED
    BY <2>2
<1>7. ASSUME NEW i \in 1 .. n
      PROVE  Leaf(i - 1, items[i]) = Leaf(i - 1, others[i])
  <2>1. i \in 1 .. c
    BY <1>1, <1>4 DEF TreeOf
  <2>2. T[0][i] = Leaf(i - 1, items[i]) /\ U[0][i] = Leaf(i - 1, others[i])
    BY <1>1, <1>2, <1>3, <1>4, <1>6, <2>1 DEF TreeOf
  <2>3. QED
    BY <1>5, <2>1, <2>2
<1>8. QED
  BY <1>6, <1>7, LeafIs

-----------------------------------------------------------------------------
(* The sums of the model, and the balances.                                *)

\* A sum as the model writes it, over a field of g.
SumOfAll(g, name, S) == MapThenSumSet(LAMBDA i : g[i][name], S)

\* It is the sum of the function of those fields.
LEMMA SumOfField ==
  ASSUME NEW S, NEW g, NEW name, NEW f, \A x \in S : f[x] = g[x][name]
  PROVE  SumOfAll(g, name, S) = SumFunctionOnSet(f, S)
<1>1. ASSUME NEW h
      PROVE  [s \in SUBSET S |-> IF s = {} THEN 0
                ELSE f[CHOOSE x \in s : TRUE] + h[s \ {CHOOSE x \in s : TRUE}]]
           = [s \in SUBSET S |-> IF s = {} THEN 0
                ELSE g[(CHOOSE x \in s : TRUE)][name] + h[s \ {CHOOSE x \in s : TRUE}]]
  <2>1. \A s \in SUBSET S : s # {} => (CHOOSE x \in s : TRUE) \in S
    OBVIOUS
  <2>2. \A s \in SUBSET S : s # {} => f[CHOOSE x \in s : TRUE] = g[(CHOOSE x \in s : TRUE)][name]
    BY <2>1
  <2>3. QED
    BY <2>2
<1> DEFINE Qf(h) == h = [s \in SUBSET S |-> IF s = {} THEN 0
                ELSE f[CHOOSE x \in s : TRUE] + h[s \ {CHOOSE x \in s : TRUE}]]
           Qg(h) == h = [s \in SUBSET S |-> IF s = {} THEN 0
                ELSE g[(CHOOSE x \in s : TRUE)][name] + h[s \ {CHOOSE x \in s : TRUE}]]
<1>2. \A h : Qf(h) <=> Qg(h)
  BY <1>1
<1>3. SumFunctionOnSet(f, S) = (CHOOSE h : Qf(h))[S]
  BY DEF SumFunctionOnSet, FoldFunctionOnSet, MapThenFoldSet
<1>4. SumOfAll(g, name, S) = (CHOOSE h : Qg(h))[S]
  BY DEF SumOfAll, MapThenSumSet, MapThenFoldSet
<1> HIDE DEF Qf, Qg
<1>5. (CHOOSE h : Qf(h)) = (CHOOSE h : Qg(h))
  BY <1>2
<1>6. QED
  BY <1>3, <1>4, <1>5

\* So is the one over the rows that bits, counted from 0, stand for.
LEMMA SumOfRows ==
  ASSUME NEW S, NEW items, NEW f, \A x \in S : f[x] = items[x + 1].amount
  PROVE  Rows(items, S) = SumFunctionOnSet(f, S)
<1>1. ASSUME NEW h
      PROVE  [s \in SUBSET S |-> IF s = {} THEN 0
                ELSE f[CHOOSE x \in s : TRUE] + h[s \ {CHOOSE x \in s : TRUE}]]
           = [s \in SUBSET S |-> IF s = {} THEN 0
                ELSE items[(CHOOSE x \in s : TRUE) + 1].amount + h[s \ {CHOOSE x \in s : TRUE}]]
  <2>1. \A s \in SUBSET S : s # {} => (CHOOSE x \in s : TRUE) \in S
    OBVIOUS
  <2>2. \A s \in SUBSET S : s # {} => f[CHOOSE x \in s : TRUE] = items[(CHOOSE x \in s : TRUE) + 1].amount
    BY <2>1
  <2>3. QED
    BY <2>2
<1> DEFINE Qf(h) == h = [s \in SUBSET S |-> IF s = {} THEN 0
                ELSE f[CHOOSE x \in s : TRUE] + h[s \ {CHOOSE x \in s : TRUE}]]
           Qg(h) == h = [s \in SUBSET S |-> IF s = {} THEN 0
                ELSE items[(CHOOSE x \in s : TRUE) + 1].amount + h[s \ {CHOOSE x \in s : TRUE}]]
<1>2. \A h : Qf(h) <=> Qg(h)
  BY <1>1
<1>3. SumFunctionOnSet(f, S) = (CHOOSE h : Qf(h))[S]
  BY DEF SumFunctionOnSet, FoldFunctionOnSet, MapThenFoldSet
<1>4. Rows(items, S) = (CHOOSE h : Qg(h))[S]
  BY DEF Rows, MapThenSumSet, MapThenFoldSet
<1> HIDE DEF Qf, Qg
<1>5. (CHOOSE h : Qf(h)) = (CHOOSE h : Qg(h))
  BY <1>2
<1>6. QED
  BY <1>3, <1>4, <1>5

LEMMA TotalIs ==
  ASSUME NEW items, NEW f, \A x \in DOMAIN items : f[x] = items[x].amount
  PROVE  Total(items) = SumFunctionOnSet(f, DOMAIN items)
<1>1. Total(items) = SumOfAll(items, "amount", DOMAIN items)
  BY DEF Total, SumOfAll, MapThenSumSet, MapThenFoldSet
<1>2. SumOfAll(items, "amount", DOMAIN items) = SumFunctionOnSet(f, DOMAIN items)
  BY SumOfField
<1>3. QED
  BY <1>1, <1>2

LEMMA SuiTotal ==
  ASSUME NEW items
  PROVE  Sui!Total(items) = Total(items)
BY DEF Sui!Total, Total, MapThenSumSet, MapThenFoldSet, Sui!MapThenSumSet, Sui!MapThenFoldSet

Vaults == [root \in DOMAIN runs |-> runs[root].vault]
Funded == [h \in DOMAIN escrows |-> escrows[h].funds]

LEMMA VaultsAre ==
  MapThenSumSet(LAMBDA root : runs[root].vault, DOMAIN runs) = SumFunctionOnSet(Vaults, DOMAIN runs)
<1>1. MapThenSumSet(LAMBDA root : runs[root].vault, DOMAIN runs) = SumOfAll(runs, "vault", DOMAIN runs)
  BY DEF SumOfAll
<1>2. SumOfAll(runs, "vault", DOMAIN runs) = SumFunctionOnSet(Vaults, DOMAIN runs)
  BY SumOfField DEF Vaults
<1>3. QED
  BY <1>1, <1>2

LEMMA FundedAre == Sui!InEscrow = SumFunctionOnSet(Funded, DOMAIN escrows)
<1>1. Sui!InEscrow = SumOfAll(escrows, "funds", DOMAIN escrows)
  BY DEF Sui!InEscrow, SumOfAll, MapThenSumSet, MapThenFoldSet, Sui!MapThenSumSet, Sui!MapThenFoldSet
<1>2. SumOfAll(escrows, "funds", DOMAIN escrows) = SumFunctionOnSet(Funded, DOMAIN escrows)
  BY SumOfField DEF Funded
<1>3. QED
  BY <1>1, <1>2

\* One of the terms changed by d.
LEMMA SumMoved ==
  ASSUME NEW S, NEW f, Adds(S, f), NEW y \in S, NEW d \in Int,
         NEW g, g[y] = f[y] + d, \A x \in S : x # y => g[x] = f[x]
  PROVE  Adds(S, g) /\ SumFunctionOnSet(g, S) = SumFunctionOnSet(f, S) + d
<1>1. Adds(S, g)
  BY DEF Adds
<1>2. PICK T : T = S \ {y}
  OBVIOUS
<1>3. Adds(T, f) /\ Adds(T, g)
  BY <1>1, <1>2, AddsPart
<1>4. PICK n, k : n = SumFunctionOnSet(f, T) /\ k = SumFunctionOnSet(g, T)
  OBVIOUS
<1>5. n = k /\ n \in Int /\ k \in Int
  <2>1. \A x \in T : f[x] = g[x]
    BY <1>2
  <2>2. SumFunctionOnSet(f, T) = SumFunctionOnSet(g, T)
    BY <2>1, SumSame
  <2>3. SumFunctionOnSet(f, T) \in Int /\ SumFunctionOnSet(g, T) \in Int
    BY <1>3, SumInt
  <2>4. QED
    BY <1>4, <2>2, <2>3
<1>6. SumFunctionOnSet(f, S) = f[y] + n /\ SumFunctionOnSet(g, S) = g[y] + k
  BY <1>1, <1>2, <1>4, SumLess
<1>7. f[y] \in Int
  BY DEF Adds
<1>8. QED
  BY <1>1, <1>5, <1>6, <1>7

\* A term more.
LEMMA SumMore ==
  ASSUME NEW S, NEW f, Adds(S, f), NEW y, y \notin S, NEW g, g[y] \in Int,
         \A x \in S : g[x] = f[x]
  PROVE  Adds(S \cup {y}, g) /\ SumFunctionOnSet(g, S \cup {y}) = SumFunctionOnSet(f, S) + g[y]
<1>1. Adds(S \cup {y}, g)
  BY FS_AddElement DEF Adds
<1>2. (S \cup {y}) \ {y} = S
  OBVIOUS
<1>3. SumFunctionOnSet(g, S \cup {y}) = g[y] + SumFunctionOnSet(g, S)
  BY <1>1, <1>2, SumLess
<1>4. SumFunctionOnSet(g, S) = SumFunctionOnSet(f, S)
  BY SumSame
<1>5. SumFunctionOnSet(f, S) \in Int
  BY SumInt
<1>6. QED
  BY <1>1, <1>3, <1>4, <1>5

Holders == Merchants \cup {Payer, Contract, Collector}

LEMMA FiniteHolders == IsFiniteSet(Holders)
<1>1. IsFiniteSet(Merchants)
  BY PayoutAssumption
<1>2. IsFiniteSet({Payer, Contract, Collector})
  <2>1. IsFiniteSet({Payer}) /\ IsFiniteSet({Contract}) /\ IsFiniteSet({Collector})
    BY FS_Singleton
  <2>2. IsFiniteSet(({Payer} \cup {Contract}) \cup {Collector})
    BY <2>1, FS_Union
  <2>3. ({Payer} \cup {Contract}) \cup {Collector} = {Payer, Contract, Collector}
    OBVIOUS
  <2>4. QED
    BY <2>2, <2>3
<1>3. QED
  BY <1>1, <1>2, FS_Union DEF Holders

\* What a batch pays is its total, and nothing else changes.
LEMMA PaidAddsUp ==
  ASSUME bal \in [Holders -> Int], NEW items \in Seq(Item)
  PROVE  /\ Paid(items) \in [Holders -> Int] /\ Total(items) \in Nat
         /\ SumFunctionOnSet(Paid(items), Holders) = SumFunctionOnSet(bal, Holders) + Total(items)
<1>1. PICK n \in Nat : n = Len(items) /\ DOMAIN items = 1 .. n
  OBVIOUS
<1>2. PICK S : S = 1 .. n /\ IsFiniteSet(S) /\ S = DOMAIN items
  BY <1>1, FS_Interval
<1>3. \A i \in S : items[i].account \in Merchants /\ items[i].amount \in Nat
  <2>1. \A i \in S : items[i] \in Item
    BY <1>2
  <2>2. QED
    BY <2>1 DEF Item
<1>4. PICK f : f = [i \in S |-> items[i].amount]
  OBVIOUS
<1>5. PICK to : to = [i \in S |-> items[i].account]
  OBVIOUS
<1>6. Adds(S, f) /\ SumFunctionOnSet(f, S) \in Nat
  BY <1>2, <1>3, <1>4, SumNat
<1>7. Total(items) = SumFunctionOnSet(f, S)
  BY <1>2, <1>4, TotalIs
<1>8. PICK part : part = [h \in Holders |-> SumFunctionOnSet(f, At(S, to, h))]
  OBVIOUS
<1>9. Adds(Holders, part) /\ SumFunctionOnSet(part, Holders) = SumFunctionOnSet(f, S)
  <2>1. \A i \in S : to[i] \in Holders
    BY <1>3, <1>5 DEF Holders
  <2>2. \A h \in Holders : part[h] = SumFunctionOnSet(f, At(S, to, h))
    BY <1>8
  <2>3. Adds(S, f) /\ IsFiniteSet(Holders)
    BY <1>6, FiniteHolders
  <2>4. QED
    BY <2>1, <2>2, <2>3, SumByParts
<1>10. Paid(items) = [h \in Holders |-> bal[h] + part[h]]
  <2>1. Paid(items) = [h \in Holders |->
                         bal[h] + SumFunctionOnSet(f, {i \in S : items[i].account = h})]
    BY <1>2, <1>4 DEF Paid
  <2>2. \A h : {i \in S : items[i].account = h} = At(S, to, h)
    BY <1>5 DEF At
  <2>3. QED
    BY <1>8, <2>1, <2>2
<1>11. Adds(Holders, bal)
  BY FiniteHolders DEF Adds
<1>12. SumFunctionOnSet(Paid(items), Holders)
         = SumFunctionOnSet(bal, Holders) + SumFunctionOnSet(part, Holders)
  BY <1>9, <1>10, <1>11, SumOfBoth
<1>13. Paid(items) \in [Holders -> Int]
  BY <1>9, <1>10 DEF Adds
<1>14. QED
  BY <1>6, <1>7, <1>9, <1>12, <1>13

-----------------------------------------------------------------------------
(* No token is lost, and a run has in its vault what it did not pay.       *)

\* The amounts of a list by the numbers of their bits.
ByBit(items) == [i \in 0 .. Len(items) - 1 |-> items[i + 1].amount]

\* The record init_run writes, and what is true of it ever after.
RunOK(root, run, ls) ==
  /\ IsRun(run) /\ run.total \in Int /\ run.vault \in Int
  /\ \A l \in DOMAIN ls : ls[l].root = root =>
       /\ run.bits \subseteq 0 .. Len(ls[l].items) - 1 /\ run.sent \subseteq run.bits
       /\ run.paid = SumFunctionOnSet(ByBit(ls[l].items), run.bits)
       /\ run.vault = run.total - SumFunctionOnSet(ByBit(ls[l].items), run.sent)

VaultsOK ==
  chain = "solana" =>
    /\ bal \in [Holders -> Int]
    /\ IsFiniteSet(DOMAIN runs)
    /\ \A root \in DOMAIN runs : RunOK(root, runs[root], lists)
    /\ SumFunctionOnSet(bal, Holders) + SumFunctionOnSet(Vaults, DOMAIN runs) = Funds

\* A Hold was made by a call on a Book, which knows its ref.
ObjectsOK ==
  chain = "sui" =>
    /\ bal \in [Holders -> Int]
    /\ IsFiniteSet(DOMAIN escrows) /\ IsSeq(books)
    /\ \A h \in DOMAIN escrows :
         /\ h = <<h[1], h[2]>> /\ h[1] \in DOMAIN books /\ h[2] \in books[h[1]]
         /\ escrows[h].funds \in Int /\ escrows[h].fee \in Int
    /\ SumFunctionOnSet(bal, Holders) + SumFunctionOnSet(Funded, DOMAIN escrows) = Funds

MoneyInv == VaultsOK /\ ObjectsOK

\* Two lists with one root have the same amounts, row by row.
LEMMA SameAmounts ==
  ASSUME NEW a \in Seq(FairItem), NEW b \in Seq(FairItem), Root(a) = Root(b)
  PROVE  Len(a) = Len(b) /\ ByBit(a) = ByBit(b)
<1>3. PICK n \in Nat, m \in Nat : n = Len(a) /\ m = Len(b)
  OBVIOUS
<1>4. /\ m = n
      /\ \A i \in 1 .. n : /\ a[i].account = b[i].account
                           /\ a[i].amount = b[i].amount
                           /\ a[i].ref = b[i].ref
  BY <1>3, BlockTyped, RootNamesTheList
<1>5. ASSUME NEW i \in 0 .. n - 1 PROVE a[i + 1].amount = b[i + 1].amount
  <2>1. i + 1 \in 1 .. n
    OBVIOUS
  <2>2. QED
    BY <1>4, <2>1
<1>6. ByBit(a) = [i \in 0 .. n - 1 |-> a[i + 1].amount] /\ ByBit(b) = [i \in 0 .. n - 1 |-> b[i + 1].amount]
  BY <1>3, <1>4 DEF ByBit
<1>7. QED
  BY <1>3, <1>4, <1>5, <1>6

\* A single term.
LEMMA SumOfOne ==
  ASSUME NEW x, NEW f, f[x] \in Int
  PROVE  Adds({x}, f) /\ SumFunctionOnSet(f, {x}) = f[x]
<1>1. Adds({x}, f)
  BY FS_Singleton DEF Adds
<1>2. {x} \ {x} = {}
  OBVIOUS
<1>3. SumFunctionOnSet(f, {x}) = f[x] + 0
  BY <1>1, <1>2, SumLess, NothingAdded
<1>4. QED
  BY <1>1, <1>3

\* The bits of a block stand for the amounts of its items.
LEMMA BlockAddsUp ==
  ASSUME NEW items \in Seq(Item), NEW p \in Nat, NEW k \in Nat, p + k <= Len(items),
         NEW its, DOMAIN its = 1 .. k, \A i \in 1 .. k : its[i].amount = items[p + i].amount
  PROVE  SumFunctionOnSet(ByBit(items), p .. p + k - 1) = Total(its)
<1>1. PICK S : S = p .. p + k - 1 /\ IsFiniteSet(S)
  BY FS_Interval
<1>2. PICK f : f = ByBit(items)
  OBVIOUS
<1>3. ASSUME NEW j \in S PROVE f[j] = items[j + 1].amount /\ f[j] \in Int
  <2>1. j \in 0 .. Len(items) - 1 /\ j + 1 \in 1 .. Len(items)
    BY <1>1
  <2>2. items[j + 1] \in Item
    BY <2>1
  <2>3. QED
    BY <1>2, <2>1, <2>2 DEF ByBit, Item
<1>4. Adds(S, f)
  BY <1>1, <1>3 DEF Adds
<1>5. PICK to : to = [j \in S |-> j - p + 1]
  OBVIOUS
<1>6. PICK part : part = [i \in 1 .. k |-> its[i].amount]
  OBVIOUS
<1>7. \A j \in S : to[j] \in 1 .. k
  BY <1>1, <1>5
<1>8. ASSUME NEW i \in 1 .. k PROVE part[i] = SumFunctionOnSet(f, At(S, to, i))
  <2>1. PICK j : j = p + i - 1
    OBVIOUS
  <2>2. j \in S /\ j + 1 = p + i
    BY <1>1, <2>1
  <2>3. At(S, to, i) = {j}
    BY <1>1, <1>5, <2>1 DEF At
  <2>4. SumFunctionOnSet(f, {j}) = f[j]
    BY <1>3, <2>2, SumOfOne
  <2>5. part[i] = f[j]
    BY <1>3, <1>6, <2>2
  <2>6. QED
    BY <2>3, <2>4, <2>5
<1>9. IsFiniteSet(1 .. k)
  BY FS_Interval
<1>10. SumFunctionOnSet(part, 1 .. k) = SumFunctionOnSet(f, S)
  <2>1. PICK H : H = 1 .. k
    OBVIOUS
  <2>2. IsFiniteSet(H) /\ (\A j \in S : to[j] \in H)
    BY <1>7, <1>9, <2>1
  <2>3. \A i \in H : part[i] = SumFunctionOnSet(f, At(S, to, i))
    BY <1>8, <2>1
  <2>4. SumFunctionOnSet(part, H) = SumFunctionOnSet(f, S)
    BY <1>4, <2>2, <2>3, SumByParts
  <2>5. QED
    BY <2>1, <2>4
<1>11. Total(its) = SumFunctionOnSet(part, 1 .. k)
  BY <1>6, TotalIs
<1>12. QED
  BY <1>1, <1>2, <1>10, <1>11

\* The bits of a run and its amounts can be added up.
LEMMA BitsAdd ==
  ASSUME NEW items \in Seq(Item), NEW bits, bits \subseteq 0 .. Len(items) - 1
  PROVE  Adds(bits, ByBit(items))
<1>1. IsFiniteSet(bits)
  <2>1. Len(items) \in Nat
    OBVIOUS
  <2>2. IsFiniteSet(0 .. Len(items) - 1)
    BY <2>1, FS_Interval
  <2>3. QED
    BY <2>2, FS_Subset
<1>2. ASSUME NEW i \in bits PROVE ByBit(items)[i] \in Int
  <2>1. i \in 0 .. Len(items) - 1 /\ i + 1 \in 1 .. Len(items)
    OBVIOUS
  <2>2. items[i + 1] \in Item
    BY <2>1
  <2>3. QED
    BY <2>1, <2>2 DEF ByBit, Item
<1>3. QED
  BY <1>1, <1>2 DEF Adds

LEMMA VaultsAdd ==
  ASSUME VaultsOK, chain = "solana"
  PROVE  /\ Adds(Holders, bal) /\ Adds(DOMAIN runs, Vaults)
         /\ SumFunctionOnSet(bal, Holders) \in Int
         /\ SumFunctionOnSet(Vaults, DOMAIN runs) \in Int
<1>1. Adds(Holders, bal) /\ Adds(DOMAIN runs, Vaults)
  BY FiniteHolders DEF VaultsOK, RunOK, Vaults, Adds
<1>2. QED
  BY <1>1, SumInt

LEMMA InitRunMoney ==
  ASSUME VaultsOK, FilesOK, chain = "solana", UNCHANGED <<chain, lists>>,
         NEW list, ListOK(list), NEW total \in Int, NEW deadline, InitRun(list, total, deadline)
  PROVE  VaultsOK'
<1>1. PICK run, root : /\ root = list.root /\ root \notin DOMAIN runs
                       /\ run = [total |-> total, leaves |-> Len(list.items), vault |-> total,
                                 paid |-> 0, bits |-> {}, sent |-> {}, deadline |-> deadline]
                       /\ runs' = With(runs, root, run)
  BY DEF InitRun
<1>2. bal' = [bal EXCEPT ![Payer] = @ - total] /\ Payer \in Holders /\ bal \in [Holders -> Int]
  BY DEF InitRun, Holders, VaultsOK
<1>3. DOMAIN runs' = DOMAIN runs \cup {root} /\ runs'[root] = run
      /\ \A r \in DOMAIN runs : runs'[r] = runs[r]
  BY <1>1 DEF With
<1>4. RunOK(root, run, lists)
  <2>1. \A f : SumFunctionOnSet(f, {}) = 0
    BY NothingAdded
  <2>2. /\ IsRun(run) /\ run.total = total /\ run.vault = total /\ run.paid = 0
        /\ run.bits = {} /\ run.sent = {}
    BY <1>1 DEF IsRun
  <2>3. QED
    BY <2>1, <2>2 DEF RunOK
<1>5. ASSUME NEW r \in DOMAIN runs' PROVE RunOK(r, runs'[r], lists)
  <2>1. CASE r = root
    BY <1>3, <1>4, <2>1
  <2>2. CASE r # root
    <3>1. r \in DOMAIN runs /\ runs'[r] = runs[r]
      BY <1>3, <2>2
    <3>2. RunOK(r, runs[r], lists)
      BY <3>1 DEF VaultsOK
    <3>3. QED
      BY <3>1, <3>2
  <2>3. QED
    BY <2>1, <2>2
<1>6. IsFiniteSet(DOMAIN runs')
  BY <1>3, FS_AddElement DEF VaultsOK
<1>7. bal' \in [Holders -> Int] /\ SumFunctionOnSet(bal', Holders) = SumFunctionOnSet(bal, Holders) - total
  <2>1. PICK d \in Int : d = 0 - total
    OBVIOUS
  <2>2. bal'[Payer] = bal[Payer] + d /\ \A h \in Holders : h # Payer => bal'[h] = bal[h]
    BY <1>2, <2>1
  <2>3. SumFunctionOnSet(bal', Holders) = SumFunctionOnSet(bal, Holders) + d
    <3>1. PICK f, g : f = bal /\ g = bal'
      OBVIOUS
    <3>2. Adds(Holders, f) /\ Payer \in Holders
      BY <1>2, <3>1, VaultsAdd
    <3>3. g[Payer] = f[Payer] + d /\ \A h \in Holders : h # Payer => g[h] = f[h]
      BY <2>2, <3>1
    <3>4. SumFunctionOnSet(g, Holders) = SumFunctionOnSet(f, Holders) + d
      BY <3>2, <3>3, SumMoved
    <3>5. QED
      BY <3>1, <3>4
  <2>4. QED
    BY <1>2, <2>1, <2>3, VaultsAdd
<1>8. SumFunctionOnSet(Vaults', DOMAIN runs') = SumFunctionOnSet(Vaults, DOMAIN runs) + total
  <2>1. PICK f, g, S : f = Vaults /\ g = Vaults' /\ S = DOMAIN runs
    OBVIOUS
  <2>2. g[root] = total /\ \A r \in S : g[r] = f[r]
    <3>1. g = [r \in DOMAIN runs \cup {root} |-> runs'[r].vault]
      BY <1>3, <2>1 DEF Vaults
    <3>2. f = [r \in DOMAIN runs |-> runs[r].vault]
      BY <2>1 DEF Vaults
    <3>3. run.vault = total
      BY <1>1
    <3>4. QED
      BY <1>3, <2>1, <3>1, <3>2, <3>3
  <2>3. Adds(S, f) /\ root \notin S /\ g[root] \in Int
    BY <1>1, <2>1, <2>2, VaultsAdd
  <2>4. SumFunctionOnSet(g, S \cup {root}) = SumFunctionOnSet(f, S) + g[root]
    <3>1. \A r \in S : g[r] = f[r]
      BY <2>2
    <3>2. QED
      BY <2>3, <3>1, SumMore
  <2>5. QED
    BY <1>3, <2>1, <2>2, <2>4
<1>9. SumFunctionOnSet(bal', Holders) + SumFunctionOnSet(Vaults', DOMAIN runs') = Funds
  BY <1>7, <1>8, VaultsAdd DEF VaultsOK
<1>10. QED
  BY <1>5, <1>6, <1>7, <1>9 DEF VaultsOK

LEMMA PayBatchMoney ==
  ASSUME VaultsOK, FilesOK, RunsSay, chain = "solana", UNCHANGED <<chain, lists>>,
         NEW m, m.block \in Nat, m.items \in Seq(Item), PayBatch(m)
  PROVE  VaultsOK'
<1>1. PICK root, run : root = m.root /\ run = runs[root] /\ root \in DOMAIN runs /\ Proven(m)
  BY DEF PayBatch
<1>2. RunOK(root, run, lists)
  BY <1>1 DEF VaultsOK
<1>3. PICK t, new, v, d :
         /\ t \in Nat /\ d \in Nat /\ t = Total(m.items) /\ new = runs'[root] /\ IsRun(new) /\ new.total = run.total
         /\ new.bits = run.bits \cup LeavesOf(m.block, Len(m.items)) /\ new.paid = run.paid + t
         /\ new.sent = run.sent \cup v /\ new.vault = run.vault - d
         /\ \/ v = LeavesOf(m.block, Len(m.items)) /\ d = t /\ bal' = Paid(m.items)
            \/ v = {} /\ d = 0 /\ bal' = bal
  <2>1. Total(m.items) \in Nat
    BY PaidAddsUp DEF VaultsOK
  <2>2. run.vault \in Int /\ IsRun(runs[m.root])
    BY <1>1, <1>2 DEF RunOK
  <2>3. Marks(m, run, runs'[root]) /\ (Sends(m, run, runs'[root]) \/ Keeps(run, runs'[root]))
    BY <1>1, <2>2, PayBatchDoes
  <2>4. run.sent \cup {} = run.sent /\ run.vault - 0 = run.vault
    BY <2>2
  <2>5. QED
    BY <1>1, <2>1, <2>3, <2>4 DEF Marks, Sends, Keeps
<1>4. DOMAIN runs' = DOMAIN runs /\ \A r \in DOMAIN runs : r # root => runs'[r] = runs[r]
  <2>1. IsRun(runs[m.root])
    BY <1>1, <1>2 DEF RunOK
  <2>2. QED
    BY <1>1, <2>1, PayBatchDoes
<1>5. ASSUME NEW l \in DOMAIN lists, lists[l].root = root
      PROVE  /\ new.bits \subseteq 0 .. Len(lists[l].items) - 1 /\ new.sent \subseteq new.bits
             /\ new.paid = SumFunctionOnSet(ByBit(lists[l].items), new.bits)
             /\ new.vault = new.total - SumFunctionOnSet(ByBit(lists[l].items), new.sent)
  <2>1. PICK k \in DOMAIN lists : lists[k].root = root /\ run.leaves = Len(lists[k].items)
    BY <1>1 DEF RunsSay
  <2>2. PICK items \in Seq(Item) : /\ items = lists[l].items
                                   /\ Len(lists[k].items) = Len(items)
    <3>1. ListOK(lists[l]) /\ ListOK(lists[k])
      BY DEF FilesOK
    <3>2. /\ lists[l].items \in Seq(FairItem) /\ lists[k].items \in Seq(FairItem)
          /\ Root(lists[l].items) = Root(lists[k].items)
      BY <1>5, <2>1, <3>1 DEF ListOK
    <3>3. Len(lists[l].items) = Len(lists[k].items)
      BY <3>2, SameAmounts
    <3>4. QED
      BY <3>1, <3>3, ListTyped
  <2>3. runs[m.root].leaves = Len(lists[l].items) /\ lists[l].root = m.root
    BY <1>1, <1>5, <2>1, <2>2
  <2>4. PICK n \in Nat, p \in Nat :
           /\ DOMAIN m.items = 1 .. n /\ Len(m.items) = n /\ n \in 1 .. Block
           /\ p = m.block * Block /\ p + n <= Len(items)
           /\ \A i \in 1 .. n : m.items[i].amount = items[p + i].amount
    BY <2>2, <2>3, <1>1, ProvenIsTheBlock
  <2>5. LeavesOf(m.block, Len(m.items)) = p .. p + n - 1
    BY <2>4 DEF LeavesOf
  <2>6. PICK f : /\ f = ByBit(items) /\ run.bits \subseteq 0 .. Len(items) - 1 /\ run.sent \subseteq run.bits
                 /\ run.paid = SumFunctionOnSet(f, run.bits) /\ run.total \in Int
                 /\ run.vault = run.total - SumFunctionOnSet(f, run.sent)
    BY <1>2, <1>5, <2>2 DEF RunOK
  <2>7. PICK U : U = p .. p + n - 1 /\ U \subseteq 0 .. Len(items) - 1
    BY <2>4
  <2>8. run.bits \cap U = {}
    BY <1>1, <2>5, <2>7 DEF Proven
  <2>9. SumFunctionOnSet(f, U) = t
    <3>1. PICK its : its = m.items
      OBVIOUS
    <3>2. /\ n \in Nat /\ p \in Nat /\ p + n <= Len(items) /\ DOMAIN its = 1 .. n
          /\ \A i \in 1 .. n : its[i].amount = items[p + i].amount
      BY <2>4, <3>1
    <3>3. SumFunctionOnSet(ByBit(items), p .. p + n - 1) = Total(its)
      BY <3>2, BlockAddsUp
    <3>4. QED
      BY <1>3, <2>6, <2>7, <3>1, <3>3
  <2>10. ASSUME NEW S, S \subseteq run.bits
         PROVE  /\ SumFunctionOnSet(f, S) \in Int
                /\ SumFunctionOnSet(f, S \cup U) = SumFunctionOnSet(f, S) + t
    <3>1. S \cup U \subseteq 0 .. Len(items) - 1 /\ S \cap U = {} /\ S \subseteq 0 .. Len(items) - 1
      BY <2>6, <2>7, <2>8, <2>10
    <3>2. Adds(S \cup U, f) /\ Adds(S, f)
      BY <2>6, <3>1, BitsAdd
    <3>3. QED
      BY <2>9, <3>1, <3>2, SumJoined, SumInt
  <2>11. new.bits = run.bits \cup U /\ new.paid = SumFunctionOnSet(f, new.bits)
    BY <1>3, <2>5, <2>6, <2>7, <2>10
  <2>12. new.sent \subseteq new.bits /\ new.vault = new.total - SumFunctionOnSet(f, new.sent)
    <3>1. PICK x \in Int : x = SumFunctionOnSet(f, run.sent)
      BY <2>6, <2>10
    <3>2. CASE v = U /\ d = t
      <4>1. new.sent = run.sent \cup U
        BY <1>3, <3>2
      <4>2. SumFunctionOnSet(f, new.sent) = x + t
        BY <2>6, <2>10, <3>1, <4>1
      <4>3. QED
        BY <1>3, <2>6, <2>11, <3>1, <3>2, <4>1, <4>2
    <3>3. CASE v = {} /\ d = 0
      <4>1. new.sent = run.sent
        BY <1>3, <3>3
      <4>2. QED
        BY <1>3, <2>6, <2>11, <3>1, <3>3, <4>1
    <3>4. QED
      BY <1>3, <2>5, <2>7, <3>2, <3>3
  <2>13. QED
    BY <2>2, <2>6, <2>7, <2>11, <2>12
<1>6. RunOK(root, new, lists)
  <2>1. new.total \in Int /\ new.vault \in Int
    BY <1>2, <1>3 DEF RunOK
  <2>2. QED
    BY <1>3, <1>5, <2>1 DEF RunOK
<1>7. ASSUME NEW r \in DOMAIN runs' PROVE RunOK(r, runs'[r], lists)
  <2>1. CASE r = root
    BY <1>3, <1>6, <2>1
  <2>2. CASE r # root
    <3>1. r \in DOMAIN runs /\ runs'[r] = runs[r]
      BY <1>4, <2>2
    <3>2. RunOK(r, runs[r], lists)
      BY <3>1 DEF VaultsOK
    <3>3. QED
      BY <3>1, <3>2
  <2>3. QED
    BY <2>1, <2>2
<1>8. bal' \in [Holders -> Int] /\ SumFunctionOnSet(bal', Holders) = SumFunctionOnSet(bal, Holders) + d
  <2>1. bal \in [Holders -> Int] /\ SumFunctionOnSet(bal, Holders) \in Int
    BY VaultsAdd DEF VaultsOK
  <2>2. QED
    BY <1>3, <2>1, PaidAddsUp
<1>9. SumFunctionOnSet(Vaults', DOMAIN runs') = SumFunctionOnSet(Vaults, DOMAIN runs) + (0 - d)
  <2>1. PICK f, g, S : f = Vaults /\ g = Vaults' /\ S = DOMAIN runs
    OBVIOUS
  <2>2. f[root] = run.vault /\ g[root] = new.vault /\ \A r \in S : r # root => g[r] = f[r]
    BY <1>1, <1>3, <1>4, <2>1 DEF Vaults
  <2>3. g[root] = f[root] + (0 - d) /\ 0 - d \in Int
    BY <1>2, <1>3, <2>2 DEF RunOK
  <2>4. Adds(S, f) /\ root \in S
    BY <1>1, <2>1, VaultsAdd
  <2>5. SumFunctionOnSet(g, S) = SumFunctionOnSet(f, S) + (0 - d)
    BY <2>2, <2>3, <2>4, SumMoved
  <2>6. QED
    BY <1>4, <2>1, <2>5
<1>10. SumFunctionOnSet(bal', Holders) + SumFunctionOnSet(Vaults', DOMAIN runs') = Funds
  BY <1>3, <1>8, <1>9, VaultsAdd DEF VaultsOK
<1>11. QED
  BY <1>4, <1>7, <1>8, <1>10 DEF VaultsOK

LEMMA ClawbackMoney ==
  ASSUME VaultsOK, chain = "solana", UNCHANGED <<chain, lists>>, NEW root, Clawback(root, TRUE)
  PROVE  VaultsOK'
<1>1. PICK v \in Int : /\ root \in DOMAIN runs /\ v = runs[root].vault
                       /\ bal' = [bal EXCEPT ![Payer] = @ + v]
  <2>1. root \in DOMAIN runs /\ bal' = [bal EXCEPT ![Payer] = @ + runs[root].vault]
    BY DEF Clawback
  <2>2. QED
    BY <2>1 DEF VaultsOK, RunOK
<1>2. DOMAIN runs' = DOMAIN runs \ {root} /\ \A r \in DOMAIN runs' : runs'[r] = runs[r]
  BY DEF Clawback, Restrict
<1>3. Payer \in Holders /\ bal \in [Holders -> Int]
  BY DEF Holders, VaultsOK
<1>4. bal' \in [Holders -> Int] /\ SumFunctionOnSet(bal', Holders) = SumFunctionOnSet(bal, Holders) + v
  <2>1. bal'[Payer] = bal[Payer] + v /\ \A h \in Holders : h # Payer => bal'[h] = bal[h]
    BY <1>1, <1>3
  <2>2. SumFunctionOnSet(bal', Holders) = SumFunctionOnSet(bal, Holders) + v
    BY <1>3, <2>1, VaultsAdd, SumMoved
  <2>3. QED
    BY <1>1, <1>3, <2>2
<1>5. SumFunctionOnSet(Vaults, DOMAIN runs) = v + SumFunctionOnSet(Vaults', DOMAIN runs')
  <2>1. PICK f, g, S, U : f = Vaults /\ g = Vaults' /\ S = DOMAIN runs /\ U = S \ {root}
    OBVIOUS
  <2>2. f[root] = v /\ root \in S /\ \A r \in U : g[r] = f[r]
    BY <1>1, <1>2, <2>1 DEF Vaults
  <2>3. SumFunctionOnSet(f, S) = f[root] + SumFunctionOnSet(f, U)
    BY <2>1, <2>2, VaultsAdd, SumLess
  <2>4. SumFunctionOnSet(f, U) = SumFunctionOnSet(g, U)
    BY <2>2, SumSame
  <2>5. QED
    BY <1>2, <2>1, <2>2, <2>3, <2>4
<1>6. IsFiniteSet(DOMAIN runs') /\ Adds(DOMAIN runs', Vaults')
  <2>1. IsFiniteSet(DOMAIN runs')
    BY <1>2, FS_Subset DEF VaultsOK
  <2>2. \A r \in DOMAIN runs' : Vaults'[r] \in Int
    BY <1>2 DEF Vaults, VaultsOK, RunOK
  <2>3. QED
    BY <2>1, <2>2 DEF Adds
<1>7. SumFunctionOnSet(Vaults', DOMAIN runs') \in Int
  BY <1>6, SumInt
<1>8. SumFunctionOnSet(bal', Holders) + SumFunctionOnSet(Vaults', DOMAIN runs') = Funds
  BY <1>4, <1>5, <1>7, VaultsAdd DEF VaultsOK
<1>9. ASSUME NEW r \in DOMAIN runs' PROVE RunOK(r, runs'[r], lists)
  <2>1. r \in DOMAIN runs /\ runs'[r] = runs[r]
    BY <1>2
  <2>2. RunOK(r, runs[r], lists)
    BY <2>1 DEF VaultsOK
  <2>3. QED
    BY <2>1, <2>2
<1>10. QED
  BY <1>4, <1>6, <1>8, <1>9 DEF VaultsOK

LEMMA ObjectsAdd ==
  ASSUME ObjectsOK, chain = "sui"
  PROVE  /\ Adds(Holders, bal) /\ Adds(DOMAIN escrows, Funded)
         /\ SumFunctionOnSet(bal, Holders) \in Int
         /\ SumFunctionOnSet(Funded, DOMAIN escrows) \in Int
<1>1. Adds(Holders, bal) /\ Adds(DOMAIN escrows, Funded)
  BY FiniteHolders DEF ObjectsOK, Funded, Adds
<1>2. QED
  BY <1>1, SumInt

LEMMA FunctionIsSeq ==
  ASSUME NEW n \in Nat, NEW R, NEW f \in [1 .. n -> R]
  PROVE  f \in Seq(R)
OBVIOUS

\* A Book with more refs in it.
LEMMA BookWritten ==
  ASSUME NEW bs, IsSeq(bs), NEW b \in DOMAIN bs, NEW X, NEW new, new = [bs EXCEPT ![b] = @ \cup X]
  PROVE  /\ IsSeq(new) /\ DOMAIN new = DOMAIN bs /\ X \subseteq new[b]
         /\ \A c \in DOMAIN bs : bs[c] \subseteq new[c] /\ (c # b => new[c] = bs[c])
         /\ new[b] = bs[b] \cup X
<1>1. DOMAIN new = DOMAIN bs /\ new[b] = bs[b] \cup X
      /\ \A c \in DOMAIN bs : c # b => new[c] = bs[c]
  OBVIOUS
<1>2. PICK S : bs \in Seq(S)
  BY DEF IsSeq
<1>3. PICK n \in Nat : DOMAIN bs = 1 .. n /\ n = Len(bs)
  BY <1>2
<1>4. PICK R : R = S \cup {new[b]}
  OBVIOUS
<1>5. new \in Seq(R)
  <2>1. \A c \in 1 .. n : bs[c] \in S
    BY <1>2, <1>3
  <2>2. ASSUME NEW c \in 1 .. n PROVE new[c] \in R
    <3>1. CASE c = b
      BY <1>4, <3>1
    <3>2. CASE c # b
      BY <1>1, <1>3, <1>4, <2>1, <3>2
    <3>3. QED
      BY <3>1, <3>2
  <2>3. new = [c \in DOMAIN bs |-> new[c]]
    OBVIOUS
  <2>4. new = [c \in 1 .. n |-> new[c]]
    BY <1>3, <2>3
  <2>5. new \in [1 .. n -> R]
    BY <2>2, <2>4
  <2>6. QED
    BY <2>5, FunctionIsSeq
<1>6. QED
  BY <1>1, <1>5 DEF IsSeq

\* One balance changed by d.
LEMMA HolderMoved ==
  ASSUME NEW f, f \in [Holders -> Int], NEW y \in Holders, NEW d \in Int, NEW g,
         DOMAIN g = Holders, g[y] = f[y] + d, \A h \in Holders : h # y => g[h] = f[h],
         g = [h \in Holders |-> g[h]]
  PROVE  /\ g \in [Holders -> Int]
         /\ SumFunctionOnSet(g, Holders) = SumFunctionOnSet(f, Holders) + d
<1>1. Adds(Holders, f)
  BY FiniteHolders DEF Adds
<1>3. SumFunctionOnSet(g, Holders) = SumFunctionOnSet(f, Holders) + d
  BY <1>1, SumMoved
<1>4. \A h \in Holders : g[h] \in Int
  OBVIOUS
<1>5. QED
  BY <1>3, <1>4

\* The same as a write to the balances.
Changed(f, y, d) == [f EXCEPT ![y] = @ + d]

LEMMA BalanceChanged ==
  ASSUME NEW f, f \in [Holders -> Int], NEW y \in Holders, NEW d \in Int
  PROVE  /\ Changed(f, y, d) \in [Holders -> Int]
         /\ SumFunctionOnSet(Changed(f, y, d), Holders) = SumFunctionOnSet(f, Holders) + d
<1>1. PICK g : g = [f EXCEPT ![y] = @ + d] /\ g = Changed(f, y, d)
  BY DEF Changed
<1>2. /\ DOMAIN g = Holders /\ g[y] = f[y] + d /\ (\A h \in Holders : h # y => g[h] = f[h])
      /\ g = [h \in Holders |-> g[h]]
  BY <1>1
<1>3. /\ g \in [Holders -> Int]
      /\ SumFunctionOnSet(g, Holders) = SumFunctionOnSet(f, Holders) + d
  BY <1>2, HolderMoved
<1>4. QED
  BY <1>1, <1>3

LEMMA HoldersAre == {Payer, Contract, Collector} \subseteq Holders /\ Merchants \subseteq Holders
BY DEF Holders

LEMMA SuiPayMoney ==
  ASSUME ObjectsOK, chain = "sui", UNCHANGED chain,
         NEW b \in DOMAIN books, NEW items \in Seq(Item), Sui!Pay(b, items)
  PROVE  ObjectsOK'
<1>1. bal' = [Paid(items) EXCEPT ![Payer] = @ - Total(items)] /\ escrows' = escrows
  BY SuiPaid, SuiTotal DEF Sui!Pay
<1>2. PICK t \in Nat, d \in Int : t = Total(items) /\ d = 0 - t
  BY PaidAddsUp DEF ObjectsOK
<1>3. PICK f : /\ f = Paid(items) /\ f \in [Holders -> Int]
               /\ SumFunctionOnSet(f, Holders) = SumFunctionOnSet(bal, Holders) + t
  BY <1>2, PaidAddsUp DEF ObjectsOK
<1>4. bal' = Changed(f, Payer, d)
  <2>1. f[Payer] \in Int /\ Payer \in Holders /\ f[Payer] - t = f[Payer] + d
    BY <1>2, <1>3, HoldersAre
  <2>2. bal' = [f EXCEPT ![Payer] = f[Payer] - t]
    BY <1>1, <1>2, <1>3
  <2>3. QED
    BY <2>1, <2>2 DEF Changed
<1>5. /\ bal' \in [Holders -> Int]
      /\ SumFunctionOnSet(bal', Holders) = SumFunctionOnSet(f, Holders) + d
  BY <1>3, <1>4, HoldersAre, BalanceChanged
<1>6. SumFunctionOnSet(bal', Holders) = SumFunctionOnSet(bal, Holders)
  BY <1>2, <1>3, <1>5, ObjectsAdd
<1>7. Funded' = Funded
  BY <1>1 DEF Funded
<1>8. books' = [books EXCEPT ![b] = @ \cup {items[i].ref : i \in DOMAIN items}]
  BY DEF Sui!Pay, Sui!Reserve
<1>9. IsSeq(books') /\ DOMAIN books' = DOMAIN books /\ \A c \in DOMAIN books : books[c] \subseteq books'[c]
  BY <1>8, BookWritten DEF ObjectsOK
<1>10. QED
  BY <1>1, <1>5, <1>6, <1>7, <1>9 DEF ObjectsOK

LEMMA SuiHoldMoney ==
  ASSUME ObjectsOK, chain = "sui", UNCHANGED chain,
         NEW b \in DOMAIN books, NEW it \in Item, NEW due, Sui!Hold(b, it, due)
  PROVE  ObjectsOK'
<1>1. PICK h, e : /\ h = <<b, it.ref>> /\ e.funds = it.amount /\ e.fee = HoldFee
                  /\ escrows' = With(escrows, h, e)
  BY DEF Sui!Hold, Sui!With, With
<1>2. it.amount \in Nat /\ HoldFee \in Nat
  BY PayoutAssumption DEF Item
<1>3. bal' = [bal EXCEPT ![Payer] = @ - it.amount]
  BY DEF Sui!Hold
<1>4. PICK d \in Int : d = 0 - it.amount
  BY <1>2
<1>5. bal' = Changed(bal, Payer, d)
  <2>1. bal[Payer] \in Int
    BY HoldersAre DEF ObjectsOK
  <2>2. bal[Payer] - it.amount = bal[Payer] + d
    BY <1>2, <1>4, <2>1
  <2>3. QED
    BY <1>3, <2>2 DEF Changed
<1>6. /\ bal' \in [Holders -> Int]
      /\ SumFunctionOnSet(bal', Holders) = SumFunctionOnSet(bal, Holders) + d
  BY <1>5, HoldersAre, BalanceChanged DEF ObjectsOK
<1>7. it.ref \notin books[b] /\ books' = [books EXCEPT ![b] = @ \cup {it.ref}]
  <2>1. PICK its : its = <<it>> /\ Sui!Reserve(b, its)
    BY DEF Sui!Hold
  <2>2. DOMAIN its = {1} /\ its[1] = it
    BY <2>1
  <2>3. {its[i].ref : i \in DOMAIN its} = {it.ref}
    BY <2>2
  <2>4. QED
    BY <2>1, <2>2, <2>3 DEF Sui!Reserve
<1>8. h \notin DOMAIN escrows
  BY <1>1, <1>7 DEF ObjectsOK
<1>9. /\ DOMAIN escrows' = DOMAIN escrows \cup {h} /\ escrows'[h] = e
      /\ \A x \in DOMAIN escrows : escrows'[x] = escrows[x]
  BY <1>1, <1>8 DEF With
<1>10. SumFunctionOnSet(Funded', DOMAIN escrows') = SumFunctionOnSet(Funded, DOMAIN escrows) + it.amount
  <2>1. PICK f, g, S : f = Funded /\ g = Funded' /\ S = DOMAIN escrows
    OBVIOUS
  <2>2. g[h] = it.amount /\ \A x \in S : g[x] = f[x]
    <3>1. g = [x \in DOMAIN escrows \cup {h} |-> escrows'[x].funds]
      BY <1>9, <2>1 DEF Funded
    <3>2. f = [x \in DOMAIN escrows |-> escrows[x].funds]
      BY <2>1 DEF Funded
    <3>3. QED
      BY <1>1, <1>9, <2>1, <3>1, <3>2
  <2>3. Adds(S, f) /\ h \notin S /\ g[h] \in Int
    BY <1>2, <1>8, <2>1, <2>2, ObjectsAdd
  <2>4. SumFunctionOnSet(g, S \cup {h}) = SumFunctionOnSet(f, S) + g[h]
    <3>1. \A x \in S : g[x] = f[x]
      BY <2>2
    <3>2. QED
      BY <2>3, <3>1, SumMore
  <2>5. QED
    BY <1>9, <2>1, <2>2, <2>4
<1>11. SumFunctionOnSet(bal', Holders) + SumFunctionOnSet(Funded', DOMAIN escrows') = Funds
  BY <1>2, <1>4, <1>6, <1>10, ObjectsAdd DEF ObjectsOK
<1>12. /\ IsSeq(books') /\ DOMAIN books' = DOMAIN books /\ it.ref \in books'[b]
       /\ \A c \in DOMAIN books : books[c] \subseteq books'[c]
  <2>1. IsSeq(books)
    BY DEF ObjectsOK
  <2>2. {it.ref} \subseteq books'[b]
    BY <1>7, <2>1, BookWritten
  <2>3. IsSeq(books') /\ DOMAIN books' = DOMAIN books /\ \A c \in DOMAIN books : books[c] \subseteq books'[c]
    BY <1>7, <2>1, BookWritten
  <2>4. QED
    BY <2>2, <2>3
<1>13. ASSUME NEW x \in DOMAIN escrows'
       PROVE  /\ x = <<x[1], x[2]>> /\ x[1] \in DOMAIN books' /\ x[2] \in books'[x[1]]
              /\ escrows'[x].funds \in Int /\ escrows'[x].fee \in Int
  <2>1. CASE x = h
    BY <1>1, <1>2, <1>9, <1>12, <2>1
  <2>2. CASE x \in DOMAIN escrows
    BY <1>9, <1>12, <2>2 DEF ObjectsOK
  <2>3. QED
    BY <1>9, <2>1, <2>2
<1>14. IsFiniteSet(DOMAIN escrows')
  BY <1>9, FS_AddElement DEF ObjectsOK
<1>15. QED
  BY <1>6, <1>11, <1>12, <1>13, <1>14 DEF ObjectsOK

\* A Hold is gone, and the balances have what was in it.
LEMMA ObjectGone ==
  ASSUME ObjectsOK, chain = "sui", UNCHANGED <<chain, books>>, NEW h \in DOMAIN escrows,
         escrows' = Restrict(escrows, DOMAIN escrows \ {h}),
         bal' \in [Holders -> Int],
         SumFunctionOnSet(bal', Holders) = SumFunctionOnSet(bal, Holders) + escrows[h].funds
  PROVE  ObjectsOK'
<1>1. DOMAIN escrows' = DOMAIN escrows \ {h} /\ \A x \in DOMAIN escrows' : escrows'[x] = escrows[x]
  BY DEF Restrict
<1>2. PICK v \in Int : v = escrows[h].funds
  BY DEF ObjectsOK
<1>3. SumFunctionOnSet(Funded, DOMAIN escrows) = v + SumFunctionOnSet(Funded', DOMAIN escrows')
  <2>1. PICK f, g, S, U : f = Funded /\ g = Funded' /\ S = DOMAIN escrows /\ U = S \ {h}
    OBVIOUS
  <2>2. f[h] = v /\ h \in S /\ \A x \in U : g[x] = f[x]
    BY <1>1, <1>2, <2>1 DEF Funded
  <2>3. SumFunctionOnSet(f, S) = f[h] + SumFunctionOnSet(f, U)
    BY <2>1, <2>2, ObjectsAdd, SumLess
  <2>4. SumFunctionOnSet(f, U) = SumFunctionOnSet(g, U)
    BY <2>2, SumSame
  <2>5. QED
    BY <1>1, <2>1, <2>2, <2>3, <2>4
<1>4. IsFiniteSet(DOMAIN escrows')
  BY <1>1, FS_Subset DEF ObjectsOK
<1>5. SumFunctionOnSet(Funded', DOMAIN escrows') \in Int
  <2>1. \A x \in DOMAIN escrows' : Funded'[x] \in Int
    BY <1>1 DEF Funded, ObjectsOK
  <2>2. QED
    BY <1>4, <2>1, SumInt DEF Adds
<1>6. SumFunctionOnSet(bal', Holders) + SumFunctionOnSet(Funded', DOMAIN escrows') = Funds
  BY <1>2, <1>3, <1>5, ObjectsAdd DEF ObjectsOK
<1>7. QED
  BY <1>1, <1>4, <1>6 DEF ObjectsOK

LEMMA EscrowMoney ==
  ASSUME ObjectsOK, OthersOK, chain = "sui", UNCHANGED chain, SuiEscrow
  PROVE  ObjectsOK'
<1>1. ASSUME NEW h \in DOMAIN escrows, Sui!Refund(h)
      PROVE  ObjectsOK'
  <2>1. /\ escrows' = Restrict(escrows, DOMAIN escrows \ {h}) /\ books' = books
        /\ bal' = [bal EXCEPT ![Payer] = @ + escrows[h].funds]
    BY <1>1 DEF Sui!Refund, Sui!Deleted, Sui!Restrict, Restrict
  <2>2. PICK v \in Int : v = escrows[h].funds
    BY DEF ObjectsOK
  <2>a. bal' = Changed(bal, Payer, v)
    BY <2>1, <2>2 DEF Changed
  <2>3. /\ bal' \in [Holders -> Int]
        /\ SumFunctionOnSet(bal', Holders) = SumFunctionOnSet(bal, Holders) + v
    BY <2>a, HoldersAre, BalanceChanged DEF ObjectsOK
  <2>4. QED
    BY <2>1, <2>2, <2>3, ObjectGone
<1>2. ASSUME NEW h \in DOMAIN escrows, Sui!Release(h)
      PROVE  ObjectsOK'
  <2>1. PICK e, rest : /\ e = escrows[h] /\ rest = [ref |-> h[2], account |-> e.merchant, amount |-> e.funds - e.fee]
                       /\ bal' = [Paid(<<rest>>) EXCEPT ![Collector] = @ + e.fee]
    BY <1>2, SuiPaid DEF Sui!Release
  <2>2. escrows' = Restrict(escrows, DOMAIN escrows \ {h}) /\ books' = books
    BY <1>2 DEF Sui!Release, Sui!Deleted, Sui!Restrict, Restrict
  <2>3. e.merchant \in Merchants /\ e.funds \in Int /\ e.fee \in Int
    BY <2>1 DEF OthersOK, ObjectsOK
  <2>4. PICK f : /\ f = Paid(<<rest>>) /\ f = Changed(bal, e.merchant, e.funds - e.fee)
    <3>1. PICK its, amounts : its = <<rest>> /\ amounts = [i \in DOMAIN its |-> its[i].amount]
      OBVIOUS
    <3>2. DOMAIN its = {1} /\ its[1] = rest /\ rest.account = e.merchant /\ rest.amount = e.funds - e.fee
      BY <2>1, <3>1
    <3>3. PICK d \in Int : d = e.funds - e.fee /\ amounts[1] = d
      BY <2>3, <3>1, <3>2
    <3>4. Paid(its) = [x \in DOMAIN bal |->
                         bal[x] + SumFunctionOnSet(amounts, {i \in DOMAIN its : its[i].account = x})]
      BY <3>1 DEF Paid
    <3>5. ASSUME NEW x \in DOMAIN bal
          PROVE  Paid(its)[x] = IF x = e.merchant THEN bal[x] + d ELSE bal[x]
      <4>1. CASE x = e.merchant
        <5>1. {i \in DOMAIN its : its[i].account = x} = {1}
          BY <3>2, <4>1
        <5>2. SumFunctionOnSet(amounts, {1}) = d
          BY <3>3, SumOfOne
        <5>3. QED
          BY <3>4, <4>1, <5>1, <5>2
      <4>2. CASE x # e.merchant
        <5>1. {i \in DOMAIN its : its[i].account = x} = {}
          BY <3>2, <4>2
        <5>2. SumFunctionOnSet(amounts, {}) = 0
          BY NothingAdded
        <5>3. bal[x] \in Int
          BY DEF ObjectsOK
        <5>4. QED
          BY <3>4, <4>2, <5>1, <5>2, <5>3
      <4>3. QED
        BY <4>1, <4>2
    <3>6. bal \in [Holders -> Int]
      BY DEF ObjectsOK
    <3>7. DOMAIN Paid(its) = DOMAIN bal /\ Paid(its) = [x \in DOMAIN bal |-> Paid(its)[x]]
      BY <3>4
    <3>8. Paid(its) = [bal EXCEPT ![e.merchant] = bal[e.merchant] + d]
      BY <3>5, <3>6, <3>7
    <3>9. QED
      BY <3>1, <3>3, <3>8 DEF Changed
  <2>5. PICK d \in Int : d = e.funds - e.fee
    BY <2>3
  <2>6. /\ f \in [Holders -> Int]
        /\ SumFunctionOnSet(f, Holders) = SumFunctionOnSet(bal, Holders) + d
    <3>1. PICK m \in Holders : m = e.merchant
      BY <2>3, HoldersAre
    <3>2. f = Changed(bal, m, d) /\ bal \in [Holders -> Int]
      BY <2>4, <2>5, <3>1 DEF ObjectsOK
    <3>3. QED
      BY <3>2, BalanceChanged
  <2>7. PICK y \in Int : y = e.fee
    BY <2>3
  <2>8. bal' = Changed(f, Collector, y)
    BY <2>1, <2>4, <2>7 DEF Changed
  <2>9. /\ bal' \in [Holders -> Int]
        /\ SumFunctionOnSet(bal', Holders) = SumFunctionOnSet(f, Holders) + y
    BY <2>6, <2>8, HoldersAre, BalanceChanged
  <2>10. SumFunctionOnSet(bal', Holders) = SumFunctionOnSet(bal, Holders) + escrows[h].funds
    BY <2>1, <2>3, <2>5, <2>6, <2>7, <2>9, ObjectsAdd
  <2>11. QED
    BY <2>2, <2>9, <2>10, ObjectGone
<1>3. \A h : Sui!RefundExpired(h) => Sui!Refund(h)
  BY DEF Sui!RefundExpired
<1>4. QED
  BY <1>1, <1>2, <1>3 DEF SuiEscrow

LEMMA OpenBookMoney ==
  ASSUME ObjectsOK, chain = "sui", UNCHANGED chain, Sui!OpenBook
  PROVE  ObjectsOK'
<1>1. bal' = bal /\ escrows' = escrows /\ books' = Append(books, {})
  BY DEF Sui!OpenBook
<1>2. PICK S : books \in Seq(S)
  BY DEF ObjectsOK, IsSeq
<1>3. PICK n \in Nat : DOMAIN books = 1 .. n /\ n = Len(books)
  BY <1>2
<1>4. books' \in Seq(S \cup {{}}) /\ DOMAIN books' = 1 .. n + 1 /\ \A c \in 1 .. n : books'[c] = books[c]
  BY <1>1, <1>2, <1>3
<1>5. IsSeq(books') /\ DOMAIN books \subseteq DOMAIN books' /\ \A c \in DOMAIN books : books'[c] = books[c]
  BY <1>3, <1>4 DEF IsSeq
<1>6. QED
  BY <1>1, <1>5 DEF ObjectsOK, Funded

LEMMA SolanaMoney ==
  ASSUME VaultsOK, FilesOK, RunsSay, chain = "solana", UNCHANGED <<chain, lists>>,
         NEW l \in DOMAIN lists, OnSolana(lists[l])
  PROVE  VaultsOK'
<1>1. PICK list : list = lists[l] /\ ListOK(list)
  BY DEF FilesOK
<1>2. ASSUME NEW total \in {Total(list.items), Total(list.items) - 1}, NEW deadline,
             InitRun(list, total, deadline)
      PROVE  VaultsOK'
  <2>1. Total(list.items) \in Nat
    BY <1>1, ListTyped, PaidAddsUp DEF VaultsOK
  <2>2. total \in Int
    BY <2>1
  <2>3. QED
    BY <1>1, <1>2, <2>2, InitRunMoney
<1>3. ASSUME NEW m, m.block \in Nat, m.items \in Seq(Item), PayBatch(m) PROVE VaultsOK'
  BY <1>3, PayBatchMoney
<1>4. ASSUME UNCHANGED <<runs, bal, credits, signed>> PROVE VaultsOK'
  BY <1>4 DEF VaultsOK, Vaults
<1>5. ASSUME Clawback(list.root, TRUE) PROVE VaultsOK'
  BY <1>5, ClawbackMoney
<1>6. QED
  BY <1>1, <1>2, <1>3, <1>4, <1>5, SolanaSteps

LEMMA SubmitMoney ==
  ASSUME VaultsOK, ObjectsOK, FilesOK, RunsSay, NEW policy, Submit(policy)
  PROVE  VaultsOK' /\ ObjectsOK'
<1>1. UNCHANGED <<chain, bal, runs, books, escrows>>
  BY DEF Submit, runVars, suiVars
<1>2. FilesOK'
  BY SubmitKeepsFiles
<1>3. ASSUME chain = "solana", NEW root \in DOMAIN runs
      PROVE  RunOK(root, runs[root], lists')
  <2>1. RunOK(root, runs[root], lists)
    BY <1>3 DEF VaultsOK
  <2>2. PICK k \in DOMAIN lists : lists[k].root = root
    BY <1>3 DEF RunsSay
  <2>3. k \in DOMAIN lists' /\ lists'[k] = lists[k]
    BY ListsGrow
  <2>4. ASSUME NEW l \in DOMAIN lists', lists'[l].root = root
        PROVE  /\ Len(lists'[l].items) = Len(lists[k].items)
               /\ ByBit(lists'[l].items) = ByBit(lists[k].items)
    <3>1. PICK a, b : a = lists'[l].items /\ b = lists[k].items
      OBVIOUS
    <3>2. a \in Seq(FairItem) /\ root = Root(a)
      BY <1>1, <1>2, <1>3, <2>4, <3>1 DEF FilesOK, ListOK
    <3>3. b \in Seq(FairItem) /\ root = Root(b)
      BY <1>3, <2>2, <3>1 DEF FilesOK, ListOK
    <3>4. QED
      BY <3>1, <3>2, <3>3, SameAmounts
  <2>5. QED
    BY <2>1, <2>2, <2>4 DEF RunOK
<1>4. QED
  BY <1>1, <1>3 DEF VaultsOK, ObjectsOK, Vaults, Funded

LEMMA MoneyStays ==
  ASSUME MoneyInv, UNCHANGED <<chain, bal, runs, books, escrows, lists>>
  PROVE  MoneyInv'
BY DEF MoneyInv, VaultsOK, ObjectsOK, Vaults, Funded

LEMMA MoneyStep == PayoutInv /\ ListedInv /\ MoneyInv /\ [Next]_vars => MoneyInv'
<1> SUFFICES ASSUME PayoutInv, ListedInv, MoneyInv, [Next]_vars PROVE MoneyInv'
  OBVIOUS
<1>0. StackOK /\ FilesOK /\ OthersOK /\ RunsSay /\ VaultsOK /\ ObjectsOK
  BY DEF PayoutInv, ListedInv, MoneyInv
<1>1. ASSUME NEW policy, Submit(policy)
      PROVE  MoneyInv'
  BY <1>0, <1>1, SubmitMoney DEF MoneyInv
<1>2. CASE /\ chain = "solana"
           /\ \/ \E l \in DOMAIN lists : OnSolana(lists[l])
              \/ \E m \in Merchants : CloseAccount(m)
           /\ UNCHANGED <<evmVars, suiVars, intakeVars>>
  <2>1. UNCHANGED <<chain, lists, books, escrows>>
    BY <1>2 DEF suiVars, intakeVars
  <2>2. ObjectsOK'
    BY <1>2, <2>1 DEF ObjectsOK
  <2>3. ASSUME NEW l \in DOMAIN lists, OnSolana(lists[l]) PROVE VaultsOK'
    BY <1>0, <1>2, <2>1, <2>3, SolanaMoney
  <2>4. ASSUME NEW m, CloseAccount(m) PROVE VaultsOK'
    <3>1. bal' = bal /\ runs' = runs
      BY <2>4 DEF CloseAccount
    <3>2. QED
      BY <1>0, <2>1, <3>1 DEF VaultsOK, Vaults
  <2>5. QED
    BY <1>2, <2>2, <2>3, <2>4 DEF MoneyInv
<1>3. CASE /\ chain = "evm"
           /\ \/ \E l \in DOMAIN lists : OnEvm(lists[l])
              \/ EvmStep
           /\ UNCHANGED <<runVars, suiVars, intakeVars>>
  <2>1. chain' = "evm"
    BY <1>3 DEF intakeVars
  <2>2. QED
    BY <2>1 DEF MoneyInv, VaultsOK, ObjectsOK
<1>4. CASE /\ chain = "sui"
           /\ \/ \E l \in DOMAIN lists : OnSui(lists[l])
              \/ SuiEscrow \/ Sui!OpenBook
           /\ UNCHANGED <<runVars, evmVars, intakeVars>>
  <2>1. chain' = "sui" /\ chain' = chain
    BY <1>4 DEF intakeVars
  <2>2. VaultsOK'
    BY <2>1 DEF VaultsOK
  <2>3. ASSUME NEW l \in DOMAIN lists, OnSui(lists[l]) PROVE ObjectsOK'
    <3>1. PICK list : list = lists[l] /\ list.items \in Seq(Item) /\ list.batches \in Seq(Seq(Item))
      BY <1>0, <1>4, ListTyped DEF FilesOK
    <3>2. ASSUME NEW b \in DOMAIN books, NEW k \in DOMAIN list.batches, Sui!Pay(b, list.batches[k])
          PROVE  ObjectsOK'
      <4>1. list.batches[k] \in Seq(Item)
        BY <3>1
      <4>2. QED
        BY <1>0, <1>4, <2>1, <3>2, <4>1, SuiPayMoney
    <3>3. ASSUME NEW b \in DOMAIN books, NEW i \in DOMAIN list.items, Sui!Pay(b, <<list.items[i]>>)
          PROVE  ObjectsOK'
      <4>1. <<list.items[i]>> \in Seq(Item)
        BY <3>1
      <4>2. QED
        BY <1>0, <1>4, <2>1, <3>3, <4>1, SuiPayMoney
    <3>4. ASSUME NEW b \in DOMAIN books, NEW i \in DOMAIN list.items, NEW due,
             Sui!Hold(b, list.items[i], due)
          PROVE  ObjectsOK'
      <4>1. list.items[i] \in Item
        BY <3>1
      <4>2. QED
        BY <1>0, <1>4, <2>1, <3>4, <4>1, SuiHoldMoney
    <3>5. OnSui(list)
      BY <2>3, <3>1
    <3>6. QED
      BY <3>2, <3>3, <3>4, <3>5 DEF OnSui
  <2>4. ASSUME SuiEscrow PROVE ObjectsOK'
    BY <1>0, <1>4, <2>1, <2>4, EscrowMoney
  <2>5. ASSUME Sui!OpenBook PROVE ObjectsOK'
    BY <1>0, <1>4, <2>1, <2>5, OpenBookMoney
  <2>6. QED
    BY <1>4, <2>2, <2>3, <2>4, <2>5 DEF MoneyInv
<1>5. CASE Tick \/ UNCHANGED vars
  <2>1. UNCHANGED <<chain, bal, runs, books, escrows, lists>>
    BY <1>5 DEF Tick, vars, runVars, suiVars, intakeVars
  <2>2. QED
    BY <2>1, MoneyStays
<1>6. QED
  BY <1>1, <1>2, <1>3, <1>4, <1>5 DEF Next

LEMMA MoneyInitially == Init => MoneyInv
<1> SUFFICES ASSUME Init PROVE MoneyInv
  OBVIOUS
<1>1. /\ bal = [h \in Holders |-> IF h = Payer THEN Funds ELSE 0]
      /\ runs = <<>> /\ escrows = <<>> /\ books = <<>>
  BY DEF Init, Holders
<1>2. Funds \in Nat /\ Payer \in Holders
  BY PayoutAssumption, HoldersAre
<1>3. bal \in [Holders -> Int]
  BY <1>1, <1>2
<1>4. SumFunctionOnSet(bal, Holders) = Funds
  <2>1. PICK f : f = [h \in Holders |-> 0]
    OBVIOUS
  <2>2. \A h \in Holders : f[h] \in Nat /\ f[h] = 0
    BY <2>1
  <2>3. Adds(Holders, f) /\ SumFunctionOnSet(f, Holders) = 0
    BY <2>2, FiniteHolders, SumNat
  <2>4. bal[Payer] = f[Payer] + Funds /\ \A h \in Holders : h # Payer => bal[h] = f[h]
    BY <1>1, <1>2, <2>1
  <2>5. SumFunctionOnSet(bal, Holders) = SumFunctionOnSet(f, Holders) + Funds
    BY <1>2, <2>3, <2>4, SumMoved
  <2>6. QED
    BY <1>2, <2>3, <2>5
<1>5. DOMAIN runs = {} /\ DOMAIN escrows = {} /\ IsFiniteSet({})
  BY <1>1, FS_EmptySet
<1>6. SumFunctionOnSet(Vaults, DOMAIN runs) = 0 /\ SumFunctionOnSet(Funded, DOMAIN escrows) = 0
  BY <1>5, NothingAdded
<1>7. IsSeq(books)
  BY <1>1, EmptyIsSeq
<1>8. QED
  BY <1>2, <1>3, <1>4, <1>5, <1>6, <1>7 DEF MoneyInv, VaultsOK, ObjectsOK

LEMMA MoneyInvHolds == Spec => []MoneyInv
<1>1. Spec => []ListedInv
  BY ListedInitially, ListedStep, PayoutInvHolds, PTL DEF Spec
<1>2. QED
  BY <1>1, MoneyInitially, MoneyStep, PayoutInvHolds, PTL DEF Spec

\* VaultIsTheRest: for any list, any block size and any order of init_run,
\* pay_batch, clawback, pay, hold, release and refund, on SPL Token or on a
\* program that moves nothing, the vault of a run is its total less the rows
\* sent, what it counts as paid is the sum of the rows whose bits are set, and
\* the balances with the vaults, or with the Hold objects, are what the payer
\* started with.  (init_run locking the total it records,
\* pay_batch moving money and setting bits for one and the same block,
\* Move's release splitting the fee off what it sends.)
THEOREM VaultIsTheRestHolds == Spec => []VaultIsTheRest
<1>1. PayoutInv /\ ListedInv /\ MoneyInv => VaultIsTheRest
  <2> SUFFICES ASSUME PayoutInv, ListedInv, MoneyInv PROVE VaultIsTheRest
    OBVIOUS
  <2>0. VaultsOK /\ ObjectsOK /\ RunsSay /\ FilesOK
    BY DEF MoneyInv, ListedInv, PayoutInv
  <2>1. MapThenSumSet(LAMBDA h : bal[h], DOMAIN bal) = SumFunctionOnSet(bal, DOMAIN bal)
    BY SumIs
  <2>2. ASSUME NEW l \in DOMAIN lists, chain = "solana", lists[l].root \in DOMAIN runs
        PROVE  LET run == runs[lists[l].root]
               IN  /\ run.sent \subseteq run.bits
                   /\ run.vault = run.total - Rows(lists[l].items, run.sent)
                   /\ run.paid = Rows(lists[l].items, run.bits)
    <3>1. PICK run, items : run = runs[lists[l].root] /\ items = lists[l].items
      OBVIOUS
    <3>2. RunOK(lists[l].root, run, lists)
      BY <2>0, <2>2, <3>1 DEF VaultsOK
    <3>3. /\ run.bits \subseteq 0 .. Len(items) - 1 /\ run.sent \subseteq run.bits
          /\ run.vault = run.total - SumFunctionOnSet(ByBit(items), run.sent)
          /\ run.paid = SumFunctionOnSet(ByBit(items), run.bits)
      BY <2>2, <3>1, <3>2 DEF RunOK
    <3>4. \A i \in run.bits : ByBit(items)[i] = items[i + 1].amount
      BY <3>3 DEF ByBit
    <3>5. \A S \in SUBSET run.bits : Rows(items, S) = SumFunctionOnSet(ByBit(items), S)
      BY <3>4, SumOfRows
    <3>6. QED
      BY <3>1, <3>3, <3>5
  <2>3. ASSUME chain = "solana"
        PROVE  MapThenSumSet(LAMBDA h : bal[h], DOMAIN bal)
                 + MapThenSumSet(LAMBDA root : runs[root].vault, DOMAIN runs) = Funds
    BY <2>0, <2>1, <2>3, VaultsAre DEF VaultsOK
  <2>4. ASSUME chain = "sui"
        PROVE  MapThenSumSet(LAMBDA h : bal[h], DOMAIN bal) + Sui!InEscrow = Funds
    BY <2>0, <2>1, <2>4, FundedAre DEF ObjectsOK
  <2>5. QED
    BY <2>2, <2>3, <2>4 DEF VaultIsTheRest
<1>2. Spec => []ListedInv
  BY ListedInitially, ListedStep, PayoutInvHolds, PTL DEF Spec
<1>3. QED
  BY <1>1, <1>2, MoneyInvHolds, PayoutInvHolds, PTL

-----------------------------------------------------------------------------
(* How often an intent is paid.                                            *)

\* The refs of what was accepted.
Refs(ls) == UNION {{ls[l].items[i].ref : i \in DOMAIN ls[l].items} : l \in DOMAIN ls}

Unreadable(row) == row.fault \in {"fields", "intent_id"}

\* An id is in one row of one list, and no longer in the file; a batch is
\* made of items of its list.
IdsOK ==
  /\ \A n, k \in DOMAIN file :
       Unreadable(file[n]) /\ ~Unreadable(file[k]) => file[n].id # file[k].id
  /\ \A n \in DOMAIN file : \A ref \in Refs(lists) : file[n].id # ref.id
  /\ \A l, m \in DOMAIN lists : \A i \in DOMAIN lists[l].items : \A j \in DOMAIN lists[m].items :
       lists[l].items[i].ref.id = lists[m].items[j].ref.id => l = m /\ i = j

BatchesOK ==
  chain # "solana" =>
    \A l \in DOMAIN lists :
      \A k \in DOMAIN lists[l].batches : \A i \in DOMAIN lists[l].batches[k] :
        \E j \in DOMAIN lists[l].items : lists[l].batches[k][i] = lists[l].items[j]

LEMMA RefsAre ==
  ASSUME NEW ls
  PROVE  \A ref : ref \in Refs(ls)
                    <=> \E l \in DOMAIN ls : \E i \in DOMAIN ls[l].items : ref = ls[l].items[i].ref
BY DEF Refs

\* The lines that are read: good ones, each later than the one before.
LEMMA ReadIs ==
  ASSUME file \in Seq(FileRow), NEW policy, NEW lines, lines = Read(file, policy)
  PROVE  /\ lines \in Seq(1 .. Len(file)) /\ Rising(lines)
         /\ \A i \in DOMAIN lines : Reason(file, lines[i]) = "none"
<1>1. PICK n \in Nat : n = Len(file) /\ DOMAIN file = 1 .. n
  OBVIOUS
<1>2. PICK chosen : chosen = {k \in DOMAIN file : Reason(file, k) = "none"}
  OBVIOUS
<1>3. PICK good : good = Lines(file, chosen)
  OBVIOUS
<1>4. good \in Seq(1 .. n) /\ Rising(good) /\ \A i \in DOMAIN good : good[i] \in chosen
  BY <1>1, <1>3, LinesRise
<1>5. lines = <<>> \/ lines = good
  BY <1>2, <1>3 DEF Read, Good
<1>6. Rising(<<>>) /\ <<>> \in Seq(1 .. n) /\ DOMAIN <<>> = {}
  BY DEF Rising
<1>7. QED
  BY <1>1, <1>2, <1>4, <1>5, <1>6

\* Two rows that both got as far as the duplicate check and have one id: the
\* later one is a duplicate.
LEMMA LaterIsDuplicate ==
  ASSUME NEW n \in Nat, DOMAIN file = 1 .. n, NEW j \in 1 .. n, NEW k \in 1 .. n, j < k,
         ~Unreadable(file[j]), ~Unreadable(file[k]), file[j].id = file[k].id
  PROVE  Reason(file, k) = "duplicate"
<1>1. j \in 1 .. k - 1
  OBVIOUS
<1>2. file[j].id \in Seen(file, k)
  BY <1>1 DEF Seen, Unreadable
<1>3. QED
  BY <1>2 DEF Reason, Unreadable

\* What goes on is readable, and no two of its rows have one id.
LEMMA ReadIds ==
  ASSUME file \in Seq(FileRow), NEW n \in Nat, DOMAIN file = 1 .. n,
         NEW lines \in Seq(1 .. n), Rising(lines),
         \A i \in DOMAIN lines : Reason(file, lines[i]) = "none"
  PROVE  /\ \A i \in DOMAIN lines : lines[i] \in 1 .. n /\ ~Unreadable(file[lines[i]])
         /\ \A i, j \in DOMAIN lines : file[lines[i]].id = file[lines[j]].id => i = j
<1>0. DOMAIN lines = 1 .. Len(lines) /\ Len(lines) \in Nat
  OBVIOUS
<1>1. ASSUME NEW i \in DOMAIN lines
      PROVE  lines[i] \in 1 .. n /\ ~Unreadable(file[lines[i]])
  <2>1. file[lines[i]].fault = "none" \/ Reason(file, lines[i]) = "duplicate"
    BY DEF Reason
  <2>2. QED
    BY <2>1 DEF Unreadable
<1>2. ASSUME NEW i \in DOMAIN lines, NEW j \in DOMAIN lines, i < j,
             file[lines[i]].id = file[lines[j]].id
      PROVE  FALSE
  <2>1. PICK a, b : a = lines[i] /\ b = lines[j]
    OBVIOUS
  <2>2. a < b
    BY <1>0, <1>2, <2>1 DEF Rising
  <2>3. a \in 1 .. n /\ b \in 1 .. n /\ ~Unreadable(file[a]) /\ ~Unreadable(file[b])
    BY <1>1, <2>1
  <2>4. Reason(file, b) = "duplicate"
    BY <1>2, <2>1, <2>2, <2>3, LaterIsDuplicate
  <2>5. QED
    BY <2>1, <2>4
<1>3. ASSUME NEW i \in DOMAIN lines, NEW j \in DOMAIN lines, file[lines[i]].id = file[lines[j]].id
      PROVE  i = j
  <2>1. i < j \/ j < i \/ i = j
    BY <1>0
  <2>2. QED
    BY <1>2, <1>3, <2>1
<1>4. QED
  BY <1>1, <1>3

\* What goes back can be read, and has none of the ids that go on.
LEMMA ReturnedIds ==
  ASSUME file \in Seq(FileRow), NEW n \in Nat, DOMAIN file = 1 .. n,
         \A j, k \in DOMAIN file :
           Unreadable(file[j]) /\ ~Unreadable(file[k]) => file[j].id # file[k].id,
         NEW lines \in Seq(1 .. n), Rising(lines),
         \A i \in DOMAIN lines : Reason(file, lines[i]) = "none"
  PROVE  \A k \in DOMAIN Returned(lines) :
           /\ ~Unreadable(Returned(lines)[k])
           /\ \E j \in DOMAIN file : Returned(lines)[k].id = file[j].id
           /\ \A i \in DOMAIN lines : Returned(lines)[k].id # file[lines[i]].id
<1>1. PICK chosen : chosen = {k \in DOMAIN file \ ToSet(lines) : Reason(file, k) # "duplicate"}
  OBVIOUS
<1>2. PICK back : back = Lines(file, chosen)
  OBVIOUS
<1>3. back \in Seq(1 .. n) /\ \A i \in DOMAIN back : back[i] \in chosen
  BY <1>2, LinesRise
<1>4. Returned(lines) = [k \in 1 .. Len(back) |-> [file[back[k]] EXCEPT !.fault = "none"]]
  BY <1>1, <1>2 DEF Returned
<1>5. ASSUME NEW k \in DOMAIN Returned(lines)
      PROVE  /\ ~Unreadable(Returned(lines)[k])
             /\ \E j \in DOMAIN file : Returned(lines)[k].id = file[j].id
             /\ \A i \in DOMAIN lines : Returned(lines)[k].id # file[lines[i]].id
  <2>1. k \in 1 .. Len(back) /\ Returned(lines)[k] = [file[back[k]] EXCEPT !.fault = "none"]
    BY <1>4, <1>5
  <2>2. PICK j : j = back[k] /\ j \in 1 .. n /\ j \in chosen
    BY <1>3, <2>1
  <2>3. file[j] \in FileRow
    BY <2>2
  <2>4. Returned(lines)[k].fault = "none" /\ Returned(lines)[k].id = file[j].id
    BY <2>1, <2>2, <2>3 DEF FileRow
  <2>5. j \notin ToSet(lines) /\ Reason(file, j) # "duplicate"
    BY <1>1, <2>2
  <2>6. ASSUME NEW i \in DOMAIN lines, file[j].id = file[lines[i]].id
        PROVE  FALSE
    <3>1. PICK a : a = lines[i] /\ a \in 1 .. n /\ ~Unreadable(file[a]) /\ Reason(file, a) = "none"
      BY ReadIds
    <3>2. a \in ToSet(lines)
      BY <3>1 DEF ToSet
    <3>3. ~Unreadable(file[j])
      BY <2>2, <2>6, <3>1
    <3>4. j < a \/ a < j
      BY <2>2, <2>5, <3>1, <3>2
    <3>5. CASE j < a
      BY <2>2, <2>6, <3>1, <3>3, <3>5, LaterIsDuplicate
    <3>6. CASE a < j
      BY <2>2, <2>5, <2>6, <3>1, <3>3, <3>6, LaterIsDuplicate
    <3>7. QED
      BY <3>4, <3>5, <3>6
  <2>7. QED
    BY <2>2, <2>4, <2>6 DEF Unreadable
<1>6. QED
  BY <1>5

-----------------------------------------------------------------------------
(* Submitting a file: its rows, and what goes back.                        *)

\* One list more, or none.
Grown(ls, n, p) ==
  /\ DOMAIN ls = 1 .. n + 1 /\ ls[n + 1] = p
  /\ \A l \in 1 .. n : ls[l] = lists[l]

LEMMA SubmitAdds ==
  ASSUME FilesOK, NEW policy, Submit(policy), NEW lines, lines = Read(file, policy)
  PROVE  /\ chain' = chain /\ file' = Returned(lines)
         /\ \/ lists' = lists
            \/ \E n \in Nat : DOMAIN lists = 1 .. n /\ Grown(lists', n, Plan(lines))
<1>1. /\ chain' = chain /\ file' = Returned(lines)
      /\ lists' = Append(lists, Plan(lines)) \/ lists' = lists
  BY DEF Submit
<1>2. PICK S : lists \in Seq(S)
  BY DEF FilesOK, IsSeq
<1>3. PICK p, T : p = Plan(lines) /\ T = S \cup {p}
  OBVIOUS
<1>4. lists \in Seq(T) /\ p \in T
  BY <1>2, <1>3
<1>5. PICK n \in Nat : n = Len(lists) /\ DOMAIN lists = 1 .. n
  BY <1>4
<1>6. ASSUME lists' = Append(lists, p)
      PROVE  Grown(lists', n, p)
  BY <1>4, <1>5, <1>6 DEF Grown
<1>7. QED
  BY <1>1, <1>3, <1>5, <1>6

\* The items of what is accepted are the rows that were read.
LEMMA PlanIs ==
  ASSUME file \in Seq(FileRow), NEW n \in Nat, DOMAIN file = 1 .. n, NEW lines \in Seq(1 .. n)
  PROVE  /\ DOMAIN Plan(lines).items = DOMAIN lines
         /\ \A i \in DOMAIN lines : Plan(lines).items[i].ref.id = file[lines[i]].id
<1>1. PICK items : items = [k \in 1 .. Len(lines) |-> PayoutOf(file[lines[k]], open)]
  OBVIOUS
<1>2. Plan(lines).items = items
  BY <1>1 DEF Plan
<1>3. DOMAIN lines = 1 .. Len(lines)
  OBVIOUS
<1>4. \A row : PayoutOf(row, open).ref.id = row.id
  BY DEF PayoutOf
<1>5. QED
  BY <1>1, <1>2, <1>3, <1>4

LEMMA SubmitKeepsIds ==
  ASSUME FilesOK, IdsOK, NEW policy, Submit(policy)
  PROVE  IdsOK'
<1>1. PICK lines : lines = Read(file, policy)
  OBVIOUS
<1>2. PICK n \in Nat : n = Len(file) /\ DOMAIN file = 1 .. n /\ file \in Seq(FileRow)
  BY DEF FilesOK
<1>3. /\ lines \in Seq(1 .. n) /\ Rising(lines)
      /\ \A i \in DOMAIN lines : Reason(file, lines[i]) = "none"
  BY <1>1, <1>2, ReadIs
<1>4. /\ \A i \in DOMAIN lines : lines[i] \in 1 .. n /\ ~Unreadable(file[lines[i]])
      /\ \A i, j \in DOMAIN lines : file[lines[i]].id = file[lines[j]].id => i = j
  BY <1>2, <1>3, ReadIds
<1>5. \A k \in DOMAIN file' :
        /\ ~Unreadable(file'[k])
        /\ \E j \in DOMAIN file : file'[k].id = file[j].id
        /\ \A i \in DOMAIN lines : file'[k].id # file[lines[i]].id
  <2>1. \A j, k \in DOMAIN file :
           Unreadable(file[j]) /\ ~Unreadable(file[k]) => file[j].id # file[k].id
    BY DEF IdsOK
  <2>2. file' = Returned(lines)
    BY <1>1 DEF Submit
  <2>3. QED
    BY <1>2, <1>3, <2>1, <2>2, ReturnedIds
<1>6. \A k \in DOMAIN file : \A ref \in Refs(lists) : file[k].id # ref.id
  BY DEF IdsOK
<1>7. \A n_, k \in DOMAIN file' :
        Unreadable(file'[n_]) /\ ~Unreadable(file'[k]) => file'[n_].id # file'[k].id
  BY <1>5
<1>8. CASE lists' = lists
  <2>1. \A k \in DOMAIN file' : \A ref \in Refs(lists) : file'[k].id # ref.id
    BY <1>5, <1>6
  <2>2. QED
    BY <1>7, <1>8, <2>1 DEF IdsOK, Unreadable, Refs
<1>9. ASSUME NEW c \in Nat, DOMAIN lists = 1 .. c, NEW p, p = Plan(lines), Grown(lists', c, p)
      PROVE  IdsOK'
  <2>1. /\ DOMAIN p.items = DOMAIN lines
        /\ \A i \in DOMAIN lines : p.items[i].ref.id = file[lines[i]].id
    BY <1>2, <1>3, <1>9, PlanIs
  <2>2. /\ DOMAIN lists' = 1 .. c + 1 /\ lists'[c + 1] = p
        /\ \A l \in 1 .. c : lists'[l] = lists[l]
    BY <1>9 DEF Grown
  <2>3. \A i \in DOMAIN p.items : \A ref \in Refs(lists) : p.items[i].ref.id # ref.id
    BY <1>2, <1>4, <1>6, <2>1
  <2>4. \A i \in DOMAIN p.items : \A l \in DOMAIN lists : \A j \in DOMAIN lists[l].items :
           p.items[i].ref.id # lists[l].items[j].ref.id
    <3>1. \A l \in DOMAIN lists : \A j \in DOMAIN lists[l].items : lists[l].items[j].ref \in Refs(lists)
      BY RefsAre
    <3>2. QED
      BY <2>3, <3>1
  <2>5. \A i, j \in DOMAIN p.items : p.items[i].ref.id = p.items[j].ref.id => i = j
    BY <1>4, <2>1
  <2>6. \A l, m \in DOMAIN lists : \A i \in DOMAIN lists[l].items : \A j \in DOMAIN lists[m].items :
           lists[l].items[i].ref.id = lists[m].items[j].ref.id => l = m /\ i = j
    BY DEF IdsOK
  <2>7. ASSUME NEW l \in DOMAIN lists', NEW m \in DOMAIN lists',
               NEW i \in DOMAIN lists'[l].items, NEW j \in DOMAIN lists'[m].items,
               lists'[l].items[i].ref.id = lists'[m].items[j].ref.id
        PROVE  l = m /\ i = j
    <3>1. l \in 1 .. c \/ l = c + 1
      BY <2>2
    <3>2. m \in 1 .. c \/ m = c + 1
      BY <2>2
    <3>3. CASE l \in 1 .. c /\ m \in 1 .. c
      BY <1>9, <2>2, <2>6, <2>7, <3>3
    <3>4. CASE l \in 1 .. c /\ m = c + 1
      BY <1>9, <2>2, <2>4, <2>7, <3>4
    <3>5. CASE l = c + 1 /\ m \in 1 .. c
      BY <1>9, <2>2, <2>4, <2>7, <3>5
    <3>6. CASE l = c + 1 /\ m = c + 1
      BY <2>2, <2>5, <2>7, <3>6
    <3>7. QED
      BY <3>1, <3>2, <3>3, <3>4, <3>5, <3>6
  <2>8. ASSUME NEW k \in DOMAIN file', NEW ref \in Refs(lists')
        PROVE  file'[k].id # ref.id
    <3>1. PICK l \in DOMAIN lists' : \E i \in DOMAIN lists'[l].items : ref = lists'[l].items[i].ref
      BY <2>8, RefsAre
    <3>2. PICK i \in DOMAIN lists'[l].items : ref = lists'[l].items[i].ref
      BY <3>1
    <3>3. CASE l \in 1 .. c
      <4>1. ref \in Refs(lists)
        BY <1>9, <2>2, <3>2, <3>3, RefsAre
      <4>2. QED
        BY <1>5, <1>6, <4>1
    <3>4. CASE l = c + 1
      BY <1>5, <2>1, <2>2, <3>2, <3>4
    <3>5. QED
      BY <2>2, <3>3, <3>4
  <2>9. QED
    BY <1>7, <2>7, <2>8 DEF IdsOK, Unreadable, Refs
<1>10. QED
  BY <1>1, <1>8, <1>9, SubmitAdds

LEMMA SubmitKeepsBatches ==
  ASSUME FilesOK, BatchesOK, NEW policy, Submit(policy)
  PROVE  BatchesOK'
<1> DEFINE Made(list) == \A k \in DOMAIN list.batches : \A i \in DOMAIN list.batches[k] :
                           \E j \in DOMAIN list.items : list.batches[k][i] = list.items[j]
<1>1. PICK lines : lines = Read(file, policy) /\ lines \in Seq(1 .. Len(file))
  BY ReadTyped DEF FilesOK
<1>2. chain' = chain
  BY SubmitAdds
<1>3. ASSUME chain # "solana", NEW p, p = Plan(lines)
      PROVE  Made(p)
  <2>1. ListOK(p)
    BY <1>1, <1>3, PlanTyped DEF FilesOK
  <2>2. PICK n \in Nat : n = Len(p.items) /\ DOMAIN p.items = 1 .. n
    BY <2>1 DEF ListOK
  <2>3. PICK items, S : items = p.items /\ S = {items[j] : j \in 1 .. n}
    OBVIOUS
  <2>4. items \in Seq(S)
    <3>1. items \in Seq(FairItem) /\ DOMAIN items = 1 .. n
      BY <2>1, <2>2, <2>3 DEF ListOK
    <3>2. \A j \in 1 .. n : items[j] \in S
      BY <2>3
    <3>3. QED
      BY <3>1, <3>2
  <2>5. PICK rules : rules = Limits[chain].rules
    OBVIOUS
  <2>6. p.batches = PackGreedy(items, rules)
    <3>1. Limits[chain].align = 0
      BY <1>3, PayoutAssumption DEF FilesOK
    <3>2. p.batches = Batches(p.items, Limits[chain])
      BY <1>3 DEF Plan
    <3>3. QED
      BY <2>3, <2>5, <3>1, <3>2 DEF Batches
  <2>7. p.batches \in Seq(Seq(S))
    BY <2>4, <2>6, BatchesTyped
  <2>8. \A k \in DOMAIN p.batches : p.batches[k] \in Seq(S)
    BY <2>7
  <2>9. \A k \in DOMAIN p.batches : \A i \in DOMAIN p.batches[k] : p.batches[k][i] \in S
    BY <2>8
  <2>10. QED
    BY <2>2, <2>3, <2>9
<1> HIDE DEF Made
<1>4. ASSUME chain # "solana"
      PROVE  \A l \in DOMAIN lists' : Made(lists'[l])
  <2>1. \A l \in DOMAIN lists : Made(lists[l])
    BY <1>4 DEF BatchesOK, Made
  <2>2. ASSUME NEW n \in Nat, DOMAIN lists = 1 .. n, Grown(lists', n, Plan(lines))
        PROVE  \A l \in DOMAIN lists' : Made(lists'[l])
    <3>1. Made(Plan(lines))
      BY <1>3, <1>4
    <3>2. \A l \in DOMAIN lists' : l \in 1 .. n \/ l = n + 1
      BY <2>2 DEF Grown
    <3>3. QED
      BY <2>1, <2>2, <3>1, <3>2 DEF Grown
  <2>3. QED
    BY <1>1, <2>1, <2>2, SubmitAdds
<1>5. QED
  BY <1>2, <1>4 DEF BatchesOK, Made

-----------------------------------------------------------------------------
(* The tally of what was sent.                                             *)

\* How often money was sent for a ref.
Sendings(sent, ref) == {key \in DOMAIN sent : key[1] = ref}
SentTo(sent, ref) == SumFunctionOnSet(sent, Sendings(sent, ref))

Counts(sent) == IsFiniteSet(DOMAIN sent) /\ \A key \in DOMAIN sent : sent[key] \in Nat
CreditsOK(sent) == Counts(sent) /\ \A key \in DOMAIN sent : key[1] \in Refs(lists)

LEMMA SentNat ==
  ASSUME NEW sent, Counts(sent), NEW ref
  PROVE  /\ Adds(Sendings(sent, ref), sent) /\ SentTo(sent, ref) \in Nat
         /\ SentTo(sent, ref) = 0 <=> \A key \in Sendings(sent, ref) : sent[key] = 0
<1>1. IsFiniteSet(Sendings(sent, ref)) /\ \A key \in Sendings(sent, ref) : sent[key] \in Nat
  <2>1. Sendings(sent, ref) \subseteq DOMAIN sent
    BY DEF Sendings
  <2>2. QED
    BY <2>1, FS_Subset DEF Counts
<1>2. QED
  BY <1>1, SumNat DEF SentTo

LEMMA NoneSent ==
  ASSUME NEW sent, NEW ref, \A key \in DOMAIN sent : key[1] # ref
  PROVE  SentTo(sent, ref) = 0
<1>1. Sendings(sent, ref) = {}
  BY DEF Sendings
<1>2. QED
  BY <1>1, NothingAdded DEF SentTo

LEMMA NewIsUnsent ==
  ASSUME NEW sent, CreditsOK(sent), NEW ref, ref \notin Refs(lists)
  PROVE  SentTo(sent, ref) = 0
BY NoneSent DEF CreditsOK

\* What is counted of a transfer.
KeyOf(it) == <<it.ref, it.account, it.amount>>
Keys(items) == {KeyOf(items[i]) : i \in DOMAIN items}
Same(items, key) == {i \in DOMAIN items : KeyOf(items[i]) = key}

LEMMA KeysAre ==
  ASSUME NEW items
  PROVE  /\ \A key \in Keys(items) : \E i \in DOMAIN items : key = KeyOf(items[i]) /\ key[1] = items[i].ref
         /\ \A i \in DOMAIN items : KeyOf(items[i]) \in Keys(items) /\ KeyOf(items[i])[1] = items[i].ref
<1>1. \A i : KeyOf(items[i])[1] = items[i].ref
  BY DEF KeyOf
<1>2. \A key : key \in Keys(items) <=> \E i \in DOMAIN items : key = KeyOf(items[i])
  BY DEF Keys
<1>3. QED
  BY <1>1, <1>2

LEMMA CreditedIs ==
  ASSUME NEW items
  PROVE  /\ DOMAIN Credited(items) = DOMAIN credits \cup Keys(items)
         /\ \A key \in DOMAIN Credited(items) :
              Credited(items)[key] = Count(credits, key) + Cardinality(Same(items, key))
BY DEF Credited, KeyOf, Same, Keys

LEMMA CreditedCounts ==
  ASSUME Counts(credits), NEW items, NEW n \in Nat, DOMAIN items = 1 .. n
  PROVE  Counts(Credited(items))
<1>1. IsFiniteSet(1 .. n)
  BY FS_Interval
<1>2. IsFiniteSet(Keys(items))
  <2>1. PICK f, T : f = [i \in 1 .. n |-> KeyOf(items[i])] /\ T = Keys(items)
    OBVIOUS
  <2>2. f \in [1 .. n -> T] /\ \A key \in T : \E i \in 1 .. n : f[i] = key
    BY <2>1, KeysAre
  <2>3. f \in Surjection(1 .. n, T)
    BY <2>2 DEF Surjection
  <2>4. QED
    BY <1>1, <2>1, <2>3, FS_Surjection
<1>3. IsFiniteSet(DOMAIN Credited(items))
  BY <1>2, CreditedIs, FS_Union, ZenonT(60) DEF Counts
<1>4. ASSUME NEW key \in DOMAIN Credited(items)
      PROVE  Credited(items)[key] \in Nat
  <2>1. Same(items, key) \subseteq 1 .. n
    BY DEF Same
  <2>2. Cardinality(Same(items, key)) \in Nat
    BY <1>1, <2>1, FS_Subset, FS_CardinalityType
  <2>3. Count(credits, key) \in Nat
    BY DEF Count, Counts
  <2>4. Credited(items)[key] = Count(credits, key) + Cardinality(Same(items, key))
    BY CreditedIs
  <2>5. QED
    BY <2>2, <2>3, <2>4
<1>5. QED
  BY <1>3, <1>4 DEF Counts

\* Transfers for other refs.
LEMMA CreditedOthers ==
  ASSUME Counts(credits), NEW items, NEW ref, \A i \in DOMAIN items : items[i].ref # ref
  PROVE  SentTo(Credited(items), ref) = SentTo(credits, ref)
<1>1. PICK C : C = Credited(items)
  OBVIOUS
<1>2. \A i : KeyOf(items[i])[1] = items[i].ref
  BY DEF KeyOf
<1>3. Sendings(C, ref) = Sendings(credits, ref)
  <2>1. DOMAIN C = DOMAIN credits \cup Keys(items)
    BY <1>1, CreditedIs
  <2>2. \A key \in Keys(items) : key[1] # ref
    BY KeysAre
  <2>3. QED
    BY <2>1, <2>2 DEF Sendings
<1>4. ASSUME NEW key \in Sendings(credits, ref)
      PROVE  C[key] = credits[key]
  <2>1. key[1] = ref /\ key \in DOMAIN credits /\ key \in DOMAIN C
    BY <1>3 DEF Sendings
  <2>2. Same(items, key) = {}
    BY <1>2, <2>1 DEF Same
  <2>3. Cardinality(Same(items, key)) = 0
    BY <2>2, FS_EmptySet
  <2>4. C[key] = Count(credits, key) + Cardinality(Same(items, key))
    BY <1>1, <2>1, CreditedIs
  <2>5. Count(credits, key) = credits[key] /\ credits[key] \in Nat
    BY <2>1 DEF Count, Counts
  <2>6. QED
    BY <2>3, <2>4, <2>5
<1>5. SumFunctionOnSet(C, Sendings(credits, ref)) = SumFunctionOnSet(credits, Sendings(credits, ref))
  BY <1>4, SumSame
<1>6. QED
  BY <1>1, <1>3, <1>5 DEF SentTo

\* One transfer for this one.
LEMMA CreditedOnce ==
  ASSUME Counts(credits), NEW items, NEW y \in DOMAIN items, NEW ref, ref = items[y].ref,
         \A i \in DOMAIN items : items[i].ref = ref => i = y
  PROVE  SentTo(Credited(items), ref) = SentTo(credits, ref) + 1
<1>1. PICK C, z : C = Credited(items) /\ z = KeyOf(items[y])
  OBVIOUS
<1>2. \A i : KeyOf(items[i])[1] = items[i].ref
  BY DEF KeyOf
<1>3. Sendings(C, ref) = Sendings(credits, ref) \cup {z} /\ z \in DOMAIN C /\ z[1] = ref
  <2>1. DOMAIN C = DOMAIN credits \cup Keys(items)
    BY <1>1, CreditedIs
  <2>2. \A key \in Keys(items) : key[1] = ref => key = z
    BY <1>1, KeysAre
  <2>3. z \in Keys(items) /\ z[1] = ref
    BY <1>1, KeysAre
  <2>4. QED
    BY <2>1, <2>2, <2>3 DEF Sendings
<1>4. ASSUME NEW key \in Sendings(credits, ref), key # z
      PROVE  C[key] = credits[key]
  <2>1. key[1] = ref /\ key \in DOMAIN credits /\ key \in DOMAIN C
    BY <1>3 DEF Sendings
  <2>2. Same(items, key) = {}
    BY <1>1, <1>2, <1>4, <2>1 DEF Same
  <2>3. Cardinality(Same(items, key)) = 0
    BY <2>2, FS_EmptySet
  <2>4. C[key] = Count(credits, key) + Cardinality(Same(items, key))
    BY <1>1, <2>1, CreditedIs
  <2>5. Count(credits, key) = credits[key] /\ credits[key] \in Nat
    BY <2>1 DEF Count, Counts
  <2>6. QED
    BY <2>3, <2>4, <2>5
<1>5. C[z] = Count(credits, z) + 1
  <2>1. Same(items, z) = {y}
    BY <1>1, <1>2 DEF Same
  <2>2. Cardinality(Same(items, z)) = 1
    BY <2>1, FS_Singleton
  <2>3. QED
    BY <1>1, <1>3, <2>2, CreditedIs
<1>6. Adds(Sendings(credits, ref), credits)
  BY SentNat
<1>7. PICK one \in Int : one = 1
  OBVIOUS
<1>8. CASE z \in Sendings(credits, ref)
  <2>1. C[z] = credits[z] + one
    BY <1>5, <1>7, <1>8 DEF Count, Sendings
  <2>2. SumFunctionOnSet(C, Sendings(credits, ref))
          = SumFunctionOnSet(credits, Sendings(credits, ref)) + one
    BY <1>4, <1>6, <1>8, <2>1, SumMoved
  <2>3. Sendings(C, ref) = Sendings(credits, ref)
    BY <1>3, <1>8
  <2>4. QED
    BY <1>1, <1>7, <2>2, <2>3 DEF SentTo
<1>9. CASE z \notin Sendings(credits, ref)
  <2>1. z \notin DOMAIN credits
    BY <1>3, <1>9 DEF Sendings
  <2>2. C[z] = one /\ C[z] \in Int
    BY <1>5, <1>7, <2>1 DEF Count
  <2>3. SumFunctionOnSet(C, Sendings(credits, ref) \cup {z})
          = SumFunctionOnSet(credits, Sendings(credits, ref)) + C[z]
    BY <1>4, <1>6, <1>9, <2>2, SumMore
  <2>4. QED
    BY <1>1, <1>3, <1>7, <2>2, <2>3 DEF SentTo
<1>10. QED
  BY <1>8, <1>9

\* Who was paid keeps to the lists.
LEMMA CreditedOK ==
  ASSUME CreditsOK(credits), NEW items, NEW n \in Nat, DOMAIN items = 1 .. n,
         \A i \in DOMAIN items : items[i].ref \in Refs(lists)
  PROVE  CreditsOK(Credited(items))
<1>1. Counts(Credited(items))
  BY CreditedCounts DEF CreditsOK
<1>2. \A key \in Keys(items) : key[1] \in Refs(lists)
  BY KeysAre
<1>3. DOMAIN Credited(items) = DOMAIN credits \cup Keys(items)
  BY CreditedIs
<1>4. QED
  BY <1>1, <1>2, <1>3 DEF CreditsOK

-----------------------------------------------------------------------------
(* Solana: a run pays each item once.                                      *)

\* Solana: an item is paid as often as the payer signed, and once less while
\* its run has not sent it.
RowOK(root, bit, n, rs, signs) ==
  /\ n <= Count(signs, root)
  /\ root \in DOMAIN rs => IF bit \in rs[root].sent THEN n >= 1 ELSE n < Count(signs, root)

RunsPayOnce ==
  chain = "solana" =>
    /\ CreditsOK(credits)
    /\ \A root \in DOMAIN signed : signed[root] \in Nat
    /\ \A l \in DOMAIN lists : \A i \in DOMAIN lists[l].items :
         RowOK(lists[l].root, i - 1, SentTo(credits, lists[l].items[i].ref), runs, signed)

\* Two lists with one root have the same refs.
LEMMA SameRefs ==
  ASSUME NEW a \in Seq(FairItem), NEW b \in Seq(FairItem), Root(a) = Root(b)
  PROVE  \A i \in DOMAIN a : i \in DOMAIN b /\ a[i].ref = b[i].ref
<1>1. PICK n \in Nat, m \in Nat : n = Len(a) /\ m = Len(b) /\ DOMAIN a = 1 .. n /\ DOMAIN b = 1 .. m
  OBVIOUS
<1>2. m = n /\ \A i \in 1 .. n : a[i].ref = b[i].ref
  BY <1>1, BlockTyped, RootNamesTheList
<1>3. QED
  BY <1>1, <1>2

\* One root, one list.
LEMMA OneList ==
  ASSUME FilesOK, IdsOK, chain = "solana", NEW l \in DOMAIN lists, NEW k \in DOMAIN lists,
         lists[l].root = lists[k].root
  PROVE  \A i \in DOMAIN lists[l].items : k = l
<1>1. /\ lists[l].items \in Seq(FairItem) /\ lists[k].items \in Seq(FairItem)
      /\ Root(lists[l].items) = Root(lists[k].items)
  BY DEF FilesOK, ListOK
<1>2. ASSUME NEW i \in DOMAIN lists[l].items
      PROVE  k = l
  <2>1. i \in DOMAIN lists[k].items /\ lists[l].items[i].ref.id = lists[k].items[i].ref.id
    BY <1>1, SameRefs
  <2>2. QED
    BY <2>1 DEF IdsOK
<1>3. QED
  BY <1>2

LEMMA InitRunOnce ==
  ASSUME RunsPayOnce, chain = "solana", UNCHANGED <<chain, lists>>,
         NEW list, NEW total, NEW deadline, InitRun(list, total, deadline)
  PROVE  RunsPayOnce'
<1>1. PICK run, root : /\ root = list.root /\ root \notin DOMAIN runs
                       /\ run = [total |-> total, leaves |-> Len(list.items), vault |-> total,
                                 paid |-> 0, bits |-> {}, sent |-> {}, deadline |-> deadline]
                       /\ runs' = With(runs, root, run)
                       /\ signed' = With(signed, root, Count(signed, root) + 1)
                       /\ credits' = credits
  BY DEF InitRun
<1>2. DOMAIN runs' = DOMAIN runs \cup {root} /\ runs'[root].sent = {}
      /\ \A r \in DOMAIN runs : runs'[r] = runs[r]
  BY <1>1 DEF With
<1>3. \A r \in DOMAIN signed : signed[r] \in Nat
  BY DEF RunsPayOnce
<1>4. Count(signed, root) \in Nat
  BY <1>3 DEF Count
<1>5. /\ Count(signed', root) = Count(signed, root) + 1
      /\ \A r : r # root => Count(signed', r) = Count(signed, r)
      /\ \A r \in DOMAIN signed' : signed'[r] \in Nat
  BY <1>1, <1>3, <1>4 DEF With, Count
<1>6. CreditsOK(credits)'
  BY <1>1 DEF RunsPayOnce, CreditsOK
<1>7. ASSUME NEW l \in DOMAIN lists, NEW i \in DOMAIN lists[l].items
      PROVE  RowOK(lists[l].root, i - 1, SentTo(credits, lists[l].items[i].ref), runs', signed')
  <2>1. PICK n, r, bit : n = SentTo(credits, lists[l].items[i].ref) /\ r = lists[l].root /\ bit = i - 1
    OBVIOUS
  <2>2. RowOK(r, bit, n, runs, signed)
    BY <2>1 DEF RunsPayOnce
  <2>3. n \in Nat
    BY <2>1, SentNat DEF RunsPayOnce, CreditsOK
  <2>4. CASE r = root
    BY <1>2, <1>4, <1>5, <2>1, <2>2, <2>3, <2>4 DEF RowOK
  <2>5. CASE r # root
    BY <1>2, <1>5, <2>1, <2>2, <2>5 DEF RowOK
  <2>6. QED
    BY <2>4, <2>5
<1>8. QED
  BY <1>1, <1>5, <1>6, <1>7 DEF RunsPayOnce

LEMMA ClawbackOnce ==
  ASSUME RunsPayOnce, chain = "solana", UNCHANGED <<chain, lists>>, NEW root, Clawback(root, TRUE)
  PROVE  RunsPayOnce'
<1>1. DOMAIN runs' \subseteq DOMAIN runs /\ \A r \in DOMAIN runs' : runs'[r] = runs[r]
  BY DEF Clawback, Restrict
<1>2. credits' = credits /\ signed' = signed
  BY DEF Clawback
<1>3. \A r, bit, n : RowOK(r, bit, n, runs, signed) => RowOK(r, bit, n, runs', signed)
  BY <1>1 DEF RowOK
<1>4. QED
  BY <1>2, <1>3 DEF RunsPayOnce, CreditsOK

\* The block's items get one transfer each, and their bits are set.
LEMMA PayBatchOnce ==
  ASSUME RunsPayOnce, IdsOK, FilesOK, RunsSay, VaultsOK, chain = "solana",
         UNCHANGED <<chain, lists>>,
         NEW m, m.block \in Nat, m.items \in Seq(Item), PayBatch(m)
  PROVE  RunsPayOnce'
<1>0. IsRun(runs[m.root])
  BY DEF PayBatch, VaultsOK, RunOK
<1>1. PICK root : /\ root = m.root /\ root \in DOMAIN runs /\ Proven(m) /\ signed' = signed
                  /\ DOMAIN runs' = DOMAIN runs
                  /\ \A r \in DOMAIN runs : r # root => runs'[r] = runs[r]
                  /\ Sends(m, runs[root], runs'[root]) \/ Keeps(runs[root], runs'[root])
  BY <1>0, PayBatchDoes
<1>b. CASE Keeps(runs[root], runs'[root])
  <2>1. credits' = credits /\ \A r \in DOMAIN runs : runs'[r].sent = runs[r].sent
    BY <1>1, <1>b DEF Keeps
  <2>2. \A r, bit, n : RowOK(r, bit, n, runs, signed) => RowOK(r, bit, n, runs', signed)
    BY <1>1, <2>1 DEF RowOK
  <2>3. QED
    BY <1>1, <2>1, <2>2 DEF RunsPayOnce, CreditsOK
<1>c. SUFFICES ASSUME Sends(m, runs[root], runs'[root]) PROVE RunsPayOnce'
  BY <1>1, <1>b
<1>2. PICK g \in DOMAIN lists : lists[g].root = root /\ runs[root].leaves = Len(lists[g].items)
  BY <1>1 DEF RunsSay
<1>a. PICK items : items = lists[g].items
  OBVIOUS
<1>3. PICK c \in Nat : items = lists[g].items /\ c = Len(items) /\ DOMAIN items = 1 .. c
  BY <1>a DEF FilesOK, ListOK
<1>4. PICK n \in Nat, p \in Nat :
           /\ DOMAIN m.items = 1 .. n /\ Len(m.items) = n
           /\ p = m.block * Block /\ p + n <= c
           /\ \A i \in 1 .. n : m.items[i].ref = items[p + i].ref
  BY <1>1, <1>2, <1>3, ProvenIsTheBlock
<1>5. PICK its, b : its = m.items /\ b = p .. p + n - 1
  OBVIOUS
<1>6. runs[root].sent \cap b = {} /\ LeavesOf(m.block, Len(m.items)) = b
  <2>1. runs[root].bits \cap b = {} /\ LeavesOf(m.block, Len(m.items)) = b
    BY <1>1, <1>4, <1>5 DEF Proven, LeavesOf
  <2>2. RunOK(root, runs[root], lists)
    BY <1>1 DEF VaultsOK
  <2>3. runs[root].sent \subseteq runs[root].bits
    BY <1>2, <2>2 DEF RunOK
  <2>4. QED
    BY <2>1, <2>3
<1>7. /\ DOMAIN runs' = DOMAIN runs /\ runs'[root].sent = runs[root].sent \cup b
      /\ \A r \in DOMAIN runs : r # root => runs'[r] = runs[r]
  BY <1>1, <1>6, <1>c DEF Sends
<1>8. credits' = Credited(its) /\ signed' = signed
  BY <1>1, <1>5, <1>c DEF Sends
<1>9. CreditsOK(credits) /\ \A r \in DOMAIN signed : signed[r] \in Nat
  BY DEF RunsPayOnce
<1>10. \A i \in 1 .. n : p + i \in 1 .. c /\ its[i].ref = items[p + i].ref
  BY <1>4, <1>5, SMTT(30)
<1>11. CreditsOK(Credited(its))
  <2>1. \A i \in 1 .. n : its[i].ref \in Refs(lists)
    BY <1>3, <1>10, RefsAre
  <2>2. QED
    BY <1>4, <1>5, <1>9, <2>1, CreditedOK
<1>12. ASSUME NEW l \in DOMAIN lists, NEW i \in DOMAIN lists[l].items
       PROVE  RowOK(lists[l].root, i - 1, SentTo(Credited(its), lists[l].items[i].ref), runs', signed)
  <2>1. PICK ref, r : ref = lists[l].items[i].ref /\ r = lists[l].root
    OBVIOUS
  <2>2. RowOK(r, i - 1, SentTo(credits, ref), runs, signed)
    BY <2>1 DEF RunsPayOnce
  <2>3. i \in Nat \ {0}
    BY DEF FilesOK, ListOK
  <2>4. SentTo(credits, ref) \in Nat
    BY <1>9, SentNat DEF CreditsOK
  <2>5. Count(signed, r) \in Nat
    BY <1>9 DEF Count
  <2>6. \A j \in 1 .. c : items[j].ref = ref => l = g /\ j = i
    BY <1>3, <2>1 DEF IdsOK
  <2>7. CASE l = g /\ i \in p + 1 .. p + n
    <3>1. PICK y \in 1 .. n : i = p + y
      <4>1. i - p \in 1 .. n /\ i = p + (i - p)
        BY <2>3, <2>7
      <4>2. QED
        BY <4>1
    <3>2. its[y].ref = ref
      BY <1>3, <1>10, <2>1, <2>7, <3>1
    <3>3. \A j \in 1 .. n : its[j].ref = ref => j = y
      BY <1>10, <2>6, <3>1
    <3>4. SentTo(Credited(its), ref) = SentTo(credits, ref) + 1
      BY <1>4, <1>5, <1>9, <3>2, <3>3, CreditedOnce, ZenonT(60) DEF CreditsOK
    <3>5. i - 1 \in b
      BY <1>5, <2>3, <2>7
    <3>6. r = root /\ i - 1 \notin runs[root].sent /\ i - 1 \in runs'[root].sent
      BY <1>2, <1>6, <1>7, <2>1, <2>7, <3>5
    <3>7. QED
      BY <1>1, <1>7, <2>1, <2>2, <2>4, <2>5, <3>4, <3>6 DEF RowOK
  <2>8. CASE ~(l = g /\ i \in p + 1 .. p + n)
    <3>1. \A j \in 1 .. n : its[j].ref # ref
      <4>1. ASSUME NEW j \in 1 .. n, its[j].ref = ref
            PROVE  FALSE
        <5>1. l = g /\ p + j = i
          BY <1>10, <2>6, <4>1
        <5>2. QED
          BY <2>8, <5>1
      <4>2. QED
        BY <4>1
    <3>2. SentTo(Credited(its), ref) = SentTo(credits, ref)
      BY <1>4, <1>5, <1>9, <3>1, CreditedOthers, ZenonT(60) DEF CreditsOK
    <3>3. CASE r = root
      <4>1. l = g
        BY <1>2, <2>1, <3>3, OneList
      <4>2. i - 1 \notin b
        BY <1>5, <2>3, <2>8, <4>1
      <4>3. i - 1 \in runs'[r].sent <=> i - 1 \in runs[r].sent
        BY <1>7, <3>3, <4>2
      <4>4. QED
        BY <1>7, <2>1, <2>2, <3>2, <4>3 DEF RowOK
    <3>4. CASE r # root
      BY <1>7, <2>1, <2>2, <3>2, <3>4 DEF RowOK
    <3>5. QED
      BY <3>3, <3>4
  <2>9. QED
    BY <2>7, <2>8
<1>13. /\ chain' = chain /\ lists' = lists /\ credits' = Credited(its) /\ signed' = signed
       /\ CreditsOK(credits')
  BY <1>8, <1>11
<1>14. CreditsOK(credits)'
  BY <1>13 DEF CreditsOK, Counts
<1>15. QED
  BY <1>9, <1>12, <1>13, <1>14 DEF RunsPayOnce

LEMMA SolanaOnce ==
  ASSUME RunsPayOnce, IdsOK, FilesOK, RunsSay, VaultsOK, chain = "solana",
         UNCHANGED <<chain, lists>>, NEW l \in DOMAIN lists, OnSolana(lists[l])
  PROVE  RunsPayOnce'
<1>1. PICK list : list = lists[l] /\ ListOK(list)
  BY DEF FilesOK
<1>2. ASSUME NEW total, NEW deadline, InitRun(list, total, deadline)
      PROVE  RunsPayOnce'
  BY <1>2, InitRunOnce
<1>3. ASSUME NEW m, m.block \in Nat, m.items \in Seq(Item), PayBatch(m) PROVE RunsPayOnce'
  BY <1>3, PayBatchOnce
<1>4. ASSUME UNCHANGED <<runs, bal, credits, signed>> PROVE RunsPayOnce'
  BY <1>4 DEF RunsPayOnce, CreditsOK
<1>5. ASSUME Clawback(list.root, TRUE) PROVE RunsPayOnce'
  BY <1>5, ClawbackOnce
<1>6. QED
  BY <1>1, <1>2, <1>3, <1>4, <1>5, SolanaSteps

\* The refs of a list that was just accepted are new.
LEMMA SubmitIsNew ==
  ASSUME FilesOK, IdsOK, NEW policy, Submit(policy)
  PROVE  /\ Refs(lists) \subseteq Refs(lists')
         /\ \A l \in DOMAIN lists' : \/ l \in DOMAIN lists /\ lists'[l] = lists[l]
                                     \/ \A i \in DOMAIN lists'[l].items :
                                          lists'[l].items[i].ref \notin Refs(lists)
<1>1. \A l \in DOMAIN lists : l \in DOMAIN lists' /\ lists'[l] = lists[l]
  BY ListsGrow
<1>2. Refs(lists) \subseteq Refs(lists')
  <2>1. ASSUME NEW ref \in Refs(lists)
        PROVE  ref \in Refs(lists')
    <3>1. PICK l \in DOMAIN lists : \E i \in DOMAIN lists[l].items : ref = lists[l].items[i].ref
      BY <2>1, RefsAre
    <3>2. QED
      BY <1>1, <3>1, RefsAre
  <2>2. QED
    BY <2>1
<1>3. ASSUME NEW l \in DOMAIN lists', NEW i \in DOMAIN lists'[l].items,
             lists'[l].items[i].ref \in Refs(lists)
      PROVE  l \in DOMAIN lists
  <2>1. PICK ref : ref = lists'[l].items[i].ref
    OBVIOUS
  <2>2. PICK k \in DOMAIN lists : \E j \in DOMAIN lists[k].items : ref = lists[k].items[j].ref
    BY <1>3, <2>1, RefsAre
  <2>3. PICK j \in DOMAIN lists[k].items : ref = lists[k].items[j].ref
    BY <2>2
  <2>4. l = k
    <3>1. IdsOK'
      BY SubmitKeepsIds
    <3>2. \A m, h \in DOMAIN lists' : \A x \in DOMAIN lists'[m].items : \A y \in DOMAIN lists'[h].items :
            lists'[m].items[x].ref.id = lists'[h].items[y].ref.id => m = h
      BY <3>1 DEF IdsOK
    <3>3. k \in DOMAIN lists' /\ lists'[k] = lists[k]
      BY <1>1
    <3>4. QED
      BY <2>1, <2>3, <3>2, <3>3
  <2>5. QED
    BY <2>2, <2>4
<1>4. QED
  BY <1>1, <1>2, <1>3

LEMMA SubmitRuns ==
  ASSUME RunsPayOnce, IdsOK, FilesOK, RunsSay, NEW policy, Submit(policy)
  PROVE  RunsPayOnce'
<1> SUFFICES ASSUME chain = "solana" PROVE RunsPayOnce'
  BY DEF Submit, RunsPayOnce
<1>1. UNCHANGED <<chain, credits, runs, signed>>
  BY DEF Submit, runVars
<1>2. /\ CreditsOK(credits) /\ \A root \in DOMAIN signed : signed[root] \in Nat
      /\ \A l \in DOMAIN lists : \A i \in DOMAIN lists[l].items :
           RowOK(lists[l].root, i - 1, SentTo(credits, lists[l].items[i].ref), runs, signed)
  BY DEF RunsPayOnce
<1>3. CreditsOK(credits)'
  BY <1>1, <1>2, SubmitIsNew DEF CreditsOK, Counts
<1>4. ASSUME NEW l \in DOMAIN lists', NEW i \in DOMAIN lists'[l].items
      PROVE  RowOK(lists'[l].root, i - 1, SentTo(credits, lists'[l].items[i].ref), runs, signed)
  <2>1. CASE l \in DOMAIN lists /\ lists'[l] = lists[l]
    BY <1>2, <2>1
  <2>2. CASE ~(l \in DOMAIN lists /\ lists'[l] = lists[l])
    <3>1. PICK ref, root : ref = lists'[l].items[i].ref /\ root = lists'[l].root
      OBVIOUS
    <3>2. ref \notin Refs(lists)
      BY <2>2, <3>1, SubmitIsNew
    <3>3. SentTo(credits, ref) = 0
      BY <1>2, <3>2, NewIsUnsent
    <3>4. Count(signed, root) \in Nat
      BY <1>2 DEF Count
    <3>5. root \notin DOMAIN runs
      <4>1. ASSUME root \in DOMAIN runs
            PROVE  FALSE
        <5>1. PICK k \in DOMAIN lists : lists[k].root = root
          BY <4>1 DEF RunsSay
        <5>2. k \in DOMAIN lists' /\ lists'[k] = lists[k]
          BY ListsGrow
        <5>3. lists'[l].items \in Seq(FairItem) /\ root = Root(lists'[l].items)
          BY <1>1, <3>1, SubmitKeepsFiles DEF FilesOK, ListOK
        <5>4. lists[k].items \in Seq(FairItem) /\ root = Root(lists[k].items)
          BY <5>1 DEF FilesOK, ListOK
        <5>5. i \in DOMAIN lists[k].items /\ ref = lists[k].items[i].ref
          BY <3>1, <5>3, <5>4, SameRefs, ZenonT(60)
        <5>6. ref \in Refs(lists)
          BY <5>5, RefsAre
        <5>7. QED
          BY <3>2, <5>6
      <4>2. QED
        BY <4>1
    <3>6. QED
      BY <3>1, <3>3, <3>4, <3>5 DEF RowOK
  <2>3. QED
    BY <2>1, <2>2
<1>5. QED
  BY <1>1, <1>2, <1>3, <1>4 DEF RunsPayOnce

-----------------------------------------------------------------------------
(* Sui: a Book pays each item once.                                        *)

\* Sui: an item is paid at most once for each Book that knows its ref and has
\* no Hold for it.
Used(bs, es, ref, b) == ref \in bs[b] /\ <<b, ref>> \notin DOMAIN es
Spent(bs, es, ref) == [b \in DOMAIN bs |-> IF Used(bs, es, ref, b) THEN 1 ELSE 0]
InBooks(bs, es, ref) == SumFunctionOnSet(Spent(bs, es, ref), DOMAIN bs)

BooksPayOnce ==
  chain = "sui" =>
    /\ CreditsOK(credits)
    /\ \A h \in DOMAIN escrows : h[2] \in Refs(lists)
    /\ \A ref \in Refs(lists) : SentTo(credits, ref) <= InBooks(books, escrows, ref)

LEMMA SpentAdds ==
  ASSUME NEW bs, IsSeq(bs), NEW es, NEW ref
  PROVE  /\ Adds(DOMAIN bs, Spent(bs, es, ref)) /\ InBooks(bs, es, ref) \in Nat
         /\ \A b \in DOMAIN bs : Spent(bs, es, ref)[b] = IF Used(bs, es, ref, b) THEN 1 ELSE 0
<1>1. IsFiniteSet(DOMAIN bs)
  <2>1. PICK S : bs \in Seq(S)
    BY DEF IsSeq
  <2>2. PICK n \in Nat : DOMAIN bs = 1 .. n
    BY <2>1
  <2>3. QED
    BY <2>2, FS_Interval
<1>2. \A b \in DOMAIN bs : Spent(bs, es, ref)[b] = IF Used(bs, es, ref, b) THEN 1 ELSE 0
  BY DEF Spent
<1>3. \A b \in DOMAIN bs : Spent(bs, es, ref)[b] \in Nat
  BY <1>2
<1>4. QED
  BY <1>1, <1>2, <1>3, SumNat DEF InBooks

\* A Book that comes to count, or none.
LEMMA SpentSame ==
  ASSUME NEW bs, IsSeq(bs), NEW es, NEW ref, NEW bt, IsSeq(bt), NEW et, DOMAIN bt = DOMAIN bs,
         \A b \in DOMAIN bs : Used(bt, et, ref, b) <=> Used(bs, es, ref, b)
  PROVE  InBooks(bt, et, ref) = InBooks(bs, es, ref)
<1>1. \A b \in DOMAIN bs : Spent(bt, et, ref)[b] = Spent(bs, es, ref)[b]
  BY SpentAdds
<1>2. QED
  BY <1>1, SumSame DEF InBooks

LEMMA SpentMore ==
  ASSUME NEW bs, IsSeq(bs), NEW es, NEW ref, NEW bt, IsSeq(bt), NEW et, DOMAIN bt = DOMAIN bs,
         NEW c \in DOMAIN bs,
         \A b \in DOMAIN bs : b # c => (Used(bt, et, ref, b) <=> Used(bs, es, ref, b)),
         Used(bt, et, ref, c), ~Used(bs, es, ref, c)
  PROVE  InBooks(bt, et, ref) = InBooks(bs, es, ref) + 1
<1>1. PICK f, g, S : f = Spent(bs, es, ref) /\ g = Spent(bt, et, ref) /\ S = DOMAIN bs
  OBVIOUS
<1>2. PICK one \in Int : one = 1
  OBVIOUS
<1>3. g[c] = f[c] + one /\ \A b \in S : b # c => g[b] = f[b]
  BY <1>1, <1>2, SpentAdds
<1>4. Adds(S, f) /\ c \in S
  BY <1>1, SpentAdds
<1>5. SumFunctionOnSet(g, S) = SumFunctionOnSet(f, S) + one
  BY <1>3, <1>4, SumMoved
<1>6. QED
  BY <1>1, <1>2, <1>5 DEF InBooks

LEMMA SuiPayOnce ==
  ASSUME BooksPayOnce, ObjectsOK, chain = "sui", UNCHANGED <<chain, lists>>,
         NEW b \in DOMAIN books, NEW items \in Seq(Item), Sui!Pay(b, items),
         \A i \in DOMAIN items : items[i].ref \in Refs(lists)
  PROVE  BooksPayOnce'
<1>1. credits' = Credited(items) /\ escrows' = escrows
  BY SuiCredited DEF Sui!Pay
<1>2. PICK X : X = {items[i].ref : i \in DOMAIN items}
  OBVIOUS
<1>3. /\ books' = [books EXCEPT ![b] = @ \cup X]
      /\ \A i \in DOMAIN items : items[i].ref \notin books[b]
      /\ \A i, j \in DOMAIN items : items[i].ref = items[j].ref => i = j
  BY <1>2 DEF Sui!Pay, Sui!Reserve
<1>4. IsSeq(books) /\ \A r : <<b, r>> \in DOMAIN escrows => r \in books[b]
  BY DEF ObjectsOK
<1>5. /\ IsSeq(books') /\ DOMAIN books' = DOMAIN books /\ books'[b] = books[b] \cup X
      /\ \A c \in DOMAIN books : c # b => books'[c] = books[c]
  BY <1>3, <1>4, BookWritten
<1>6. PICK n \in Nat : DOMAIN items = 1 .. n
  OBVIOUS
<1>7. CreditsOK(credits) /\ \A ref \in Refs(lists) : SentTo(credits, ref) <= InBooks(books, escrows, ref)
  BY DEF BooksPayOnce
<1>8. CreditsOK(Credited(items))
  BY <1>6, <1>7, CreditedOK
<1>9. ASSUME NEW ref \in Refs(lists)
      PROVE  SentTo(Credited(items), ref) <= InBooks(books', escrows, ref)
  <2>1. SentTo(credits, ref) \in Nat /\ InBooks(books, escrows, ref) \in Nat
    BY <1>4, <1>7, SentNat, SpentAdds DEF CreditsOK
  <2>2. ASSUME NEW y \in DOMAIN items, ref = items[y].ref
        PROVE  SentTo(Credited(items), ref) <= InBooks(books', escrows, ref)
    <3>1. SentTo(Credited(items), ref) = SentTo(credits, ref) + 1
      BY <1>3, <1>7, <2>2, CreditedOnce DEF CreditsOK
    <3>2. ref \in books'[b] /\ ref \notin books[b] /\ <<b, ref>> \notin DOMAIN escrows
      BY <1>2, <1>3, <1>4, <1>5, <2>2
    <3>3. InBooks(books', escrows, ref) = InBooks(books, escrows, ref) + 1
      <4>1. PICK bt : bt = books'
        OBVIOUS
      <4>2. /\ \A c \in DOMAIN books : c # b =>
                 (Used(bt, escrows, ref, c) <=> Used(books, escrows, ref, c))
            /\ Used(bt, escrows, ref, b) /\ ~Used(books, escrows, ref, b)
        BY <1>5, <3>2, <4>1 DEF Used
      <4>3. InBooks(bt, escrows, ref) = InBooks(books, escrows, ref) + 1
        BY <1>4, <1>5, <4>1, <4>2, SpentMore
      <4>4. QED
        BY <4>1, <4>3
    <3>4. QED
      BY <1>7, <2>1, <3>1, <3>3
  <2>3. ASSUME \A i \in DOMAIN items : items[i].ref # ref
        PROVE  SentTo(Credited(items), ref) <= InBooks(books', escrows, ref)
    <3>1. SentTo(Credited(items), ref) = SentTo(credits, ref)
      BY <1>7, <2>3, CreditedOthers DEF CreditsOK
    <3>2. ref \notin X
      BY <1>2, <2>3
    <3>3. InBooks(books', escrows, ref) = InBooks(books, escrows, ref)
      <4>1. PICK bt : bt = books'
        OBVIOUS
      <4>2. \A c \in DOMAIN books : Used(bt, escrows, ref, c) <=> Used(books, escrows, ref, c)
        BY <1>5, <3>2, <4>1 DEF Used
      <4>3. InBooks(bt, escrows, ref) = InBooks(books, escrows, ref)
        BY <1>4, <1>5, <4>1, <4>2, SpentSame
      <4>4. QED
        BY <4>1, <4>3
    <3>4. QED
      BY <1>7, <3>1, <3>3
  <2>4. QED
    BY <2>2, <2>3
<1>10. CreditsOK(credits)'
  BY <1>1, <1>8 DEF CreditsOK, Counts
<1>11. Refs(lists') = Refs(lists) /\ lists' = lists /\ chain' = chain
  OBVIOUS
<1>12. \A ref \in Refs(lists') : SentTo(credits', ref) <= InBooks(books', escrows', ref)
  BY <1>1, <1>9, <1>11
<1>13. \A h \in DOMAIN escrows' : h[2] \in Refs(lists')
  BY <1>1, <1>11 DEF BooksPayOnce
<1>14. QED
  BY <1>10, <1>12, <1>13 DEF BooksPayOnce

LEMMA SuiHoldOnce ==
  ASSUME BooksPayOnce, ObjectsOK, chain = "sui", UNCHANGED <<chain, lists>>,
         NEW b \in DOMAIN books, NEW it \in Item, NEW due, Sui!Hold(b, it, due), it.ref \in Refs(lists)
  PROVE  BooksPayOnce'
<1>1. PICK h : h = <<b, it.ref>> /\ DOMAIN escrows' = DOMAIN escrows \cup {h}
  BY DEF Sui!Hold, Sui!With
<1>2. credits' = credits
  BY DEF Sui!Hold
<1>3. it.ref \notin books[b] /\ books' = [books EXCEPT ![b] = @ \cup {it.ref}]
  <2>1. PICK its : its = <<it>> /\ Sui!Reserve(b, its)
    BY DEF Sui!Hold
  <2>2. DOMAIN its = {1} /\ its[1] = it
    BY <2>1
  <2>3. {its[i].ref : i \in DOMAIN its} = {it.ref}
    BY <2>2
  <2>4. QED
    BY <2>1, <2>2, <2>3 DEF Sui!Reserve
<1>4. IsSeq(books)
  BY DEF ObjectsOK
<1>5. /\ IsSeq(books') /\ DOMAIN books' = DOMAIN books /\ books'[b] = books[b] \cup {it.ref}
      /\ \A c \in DOMAIN books : c # b => books'[c] = books[c]
  BY <1>3, <1>4, BookWritten
<1>6. CreditsOK(credits) /\ \A ref \in Refs(lists) : SentTo(credits, ref) <= InBooks(books, escrows, ref)
  BY DEF BooksPayOnce
<1>7. ASSUME NEW ref \in Refs(lists)
      PROVE  SentTo(credits, ref) <= InBooks(books', escrows', ref)
  <2>1. PICK bt, et : bt = books' /\ et = escrows'
    OBVIOUS
  <2>2. ASSUME NEW c \in DOMAIN books
        PROVE  Used(bt, et, ref, c) <=> Used(books, escrows, ref, c)
    <3>1. CASE c = b /\ ref = it.ref
      BY <1>1, <1>3, <2>1, <3>1 DEF Used
    <3>2. CASE ~(c = b /\ ref = it.ref)
      <4>1. <<c, ref>> \in DOMAIN et <=> <<c, ref>> \in DOMAIN escrows
        BY <1>1, <2>1, <3>2
      <4>2. ref \in bt[c] <=> ref \in books[c]
        BY <1>5, <2>1, <3>2
      <4>3. QED
        BY <4>1, <4>2 DEF Used
    <3>3. QED
      BY <3>1, <3>2
  <2>3. InBooks(bt, et, ref) = InBooks(books, escrows, ref)
    BY <1>4, <1>5, <2>1, <2>2, SpentSame
  <2>4. QED
    BY <1>6, <2>1, <2>3
<1>8. \A x \in DOMAIN escrows' : x[2] \in Refs(lists)
  BY <1>1 DEF BooksPayOnce
<1>9. CreditsOK(credits)'
  BY <1>2, <1>6 DEF CreditsOK, Counts
<1>10. QED
  BY <1>2, <1>7, <1>8, <1>9 DEF BooksPayOnce

\* A Hold is gone; with what was in it its ref may be paid.
LEMMA SuiGoneOnce ==
  ASSUME BooksPayOnce, ObjectsOK, chain = "sui", UNCHANGED <<chain, lists, books>>,
         NEW h \in DOMAIN escrows, escrows' = Restrict(escrows, DOMAIN escrows \ {h}),
         \/ credits' = credits
         \/ \E items : DOMAIN items = {1} /\ items[1].ref = h[2] /\ credits' = Credited(items)
  PROVE  BooksPayOnce'
<1>1. DOMAIN escrows' = DOMAIN escrows \ {h}
  BY DEF Restrict
<1>2. /\ IsSeq(books) /\ h = <<h[1], h[2]>> /\ h[1] \in DOMAIN books /\ h[2] \in books[h[1]]
      /\ \A x \in DOMAIN escrows : x = <<x[1], x[2]>>
  BY DEF ObjectsOK
<1>3. /\ CreditsOK(credits) /\ h[2] \in Refs(lists)
      /\ \A ref \in Refs(lists) : SentTo(credits, ref) <= InBooks(books, escrows, ref)
  BY DEF BooksPayOnce
<1>4. ASSUME NEW ref \in Refs(lists)
      PROVE  InBooks(books, escrows', ref)
               = IF ref = h[2] THEN InBooks(books, escrows, ref) + 1 ELSE InBooks(books, escrows, ref)
  <2>1. PICK et : et = escrows'
    OBVIOUS
  <2>2. ASSUME NEW c, ~(c = h[1] /\ ref = h[2])
        PROVE  Used(books, et, ref, c) <=> Used(books, escrows, ref, c)
    <3>1. <<c, ref>> # h
      BY <2>2
    <3>2. QED
      BY <1>1, <2>1, <3>1 DEF Used
  <2>3. CASE ref = h[2]
    <3>1. Used(books, et, ref, h[1]) /\ ~Used(books, escrows, ref, h[1])
      BY <1>1, <1>2, <2>1, <2>3 DEF Used
    <3>2. InBooks(books, et, ref) = InBooks(books, escrows, ref) + 1
      BY <1>2, <2>2, <3>1, SpentMore
    <3>3. QED
      BY <2>1, <2>3, <3>2
  <2>4. CASE ref # h[2]
    <3>1. InBooks(books, et, ref) = InBooks(books, escrows, ref)
      BY <1>2, <2>2, <2>4, SpentSame
    <3>2. QED
      BY <2>1, <2>4, <3>1
  <2>5. QED
    BY <2>3, <2>4
<1>5. PICK C : C = credits'
  OBVIOUS
<1>6. /\ CreditsOK(C)
      /\ \A ref \in Refs(lists) :
          SentTo(C, ref) = SentTo(credits, ref)
            \/ (ref = h[2] /\ SentTo(C, ref) = SentTo(credits, ref) + 1)
  <2>1. CASE credits' = credits
    BY <1>3, <1>5, <2>1
  <2>2. ASSUME NEW items, DOMAIN items = {1}, items[1].ref = h[2], credits' = Credited(items)
        PROVE  /\ CreditsOK(C)
               /\ \A ref \in Refs(lists) :
                    SentTo(C, ref) = SentTo(credits, ref)
                      \/ (ref = h[2] /\ SentTo(C, ref) = SentTo(credits, ref) + 1)
    <3>1. DOMAIN items = 1 .. 1
      BY <2>2
    <3>2. CreditsOK(Credited(items))
      BY <1>3, <2>2, <3>1, CreditedOK
    <3>3. \A ref : ref # h[2] => SentTo(Credited(items), ref) = SentTo(credits, ref)
      BY <1>3, <2>2, CreditedOthers DEF CreditsOK
    <3>4. SentTo(Credited(items), h[2]) = SentTo(credits, h[2]) + 1
      BY <1>3, <2>2, CreditedOnce DEF CreditsOK
    <3>5. QED
      BY <1>5, <2>2, <3>2, <3>3, <3>4
  <2>3. QED
    BY <2>1, <2>2
<1>7. \A ref \in Refs(lists) : SentTo(credits, ref) \in Nat /\ InBooks(books, escrows, ref) \in Nat
  BY <1>2, <1>3, SentNat, SpentAdds DEF CreditsOK
<1>8. \A ref \in Refs(lists) : SentTo(credits', ref) <= InBooks(books, escrows', ref)
  BY <1>3, <1>4, <1>5, <1>6, <1>7
<1>9. CreditsOK(credits)'
  BY <1>5, <1>6 DEF CreditsOK, Counts
<1>10. \A x \in DOMAIN escrows' : x[2] \in Refs(lists)
  BY <1>1 DEF BooksPayOnce
<1>11. QED
  BY <1>8, <1>9, <1>10 DEF BooksPayOnce

LEMMA EscrowOnce ==
  ASSUME BooksPayOnce, ObjectsOK, chain = "sui", UNCHANGED <<chain, lists>>, SuiEscrow
  PROVE  BooksPayOnce'
<1>1. ASSUME NEW h \in DOMAIN escrows, Sui!Refund(h)
      PROVE  BooksPayOnce'
  <2>1. /\ escrows' = Restrict(escrows, DOMAIN escrows \ {h}) /\ books' = books
        /\ credits' = credits
    BY <1>1 DEF Sui!Refund, Sui!Deleted, Sui!Restrict, Restrict
  <2>2. QED
    BY <2>1, SuiGoneOnce
<1>2. ASSUME NEW h \in DOMAIN escrows, Sui!Release(h)
      PROVE  BooksPayOnce'
  <2>1. escrows' = Restrict(escrows, DOMAIN escrows \ {h}) /\ books' = books
    BY <1>2 DEF Sui!Release, Sui!Deleted, Sui!Restrict, Restrict
  <2>2. PICK rest : rest.ref = h[2] /\ credits' = Credited(<<rest>>)
    BY <1>2, SuiCredited DEF Sui!Release
  <2>3. PICK items : items = <<rest>>
    OBVIOUS
  <2>4. DOMAIN items = {1} /\ items[1].ref = h[2] /\ credits' = Credited(items)
    BY <2>2, <2>3
  <2>5. QED
    BY <2>1, <2>4, SuiGoneOnce
<1>3. \A h : Sui!RefundExpired(h) => Sui!Refund(h)
  BY DEF Sui!RefundExpired
<1>4. QED
  BY <1>1, <1>2, <1>3 DEF SuiEscrow

LEMMA OpenBookOnce ==
  ASSUME BooksPayOnce, ObjectsOK, chain = "sui", UNCHANGED <<chain, lists>>, Sui!OpenBook
  PROVE  BooksPayOnce'
<1>1. credits' = credits /\ escrows' = escrows /\ books' = Append(books, {})
  BY DEF Sui!OpenBook
<1>2. PICK S : books \in Seq(S)
  BY DEF ObjectsOK, IsSeq
<1>3. PICK n \in Nat : DOMAIN books = 1 .. n /\ n = Len(books)
  BY <1>2
<1>4. PICK bt : bt = books'
  OBVIOUS
<1>5. /\ bt \in Seq(S \cup {{}}) /\ DOMAIN bt = 1 .. n + 1 /\ bt[n + 1] = {}
      /\ \A c \in 1 .. n : bt[c] = books[c]
  BY <1>1, <1>2, <1>3, <1>4
<1>6. IsSeq(bt) /\ IsSeq(books) /\ DOMAIN bt = DOMAIN books \cup {n + 1} /\ n + 1 \notin DOMAIN books
  BY <1>3, <1>5 DEF IsSeq, ObjectsOK
<1>7. ASSUME NEW ref
      PROVE  InBooks(bt, escrows, ref) = InBooks(books, escrows, ref)
  <2>1. PICK f, g, D, z : /\ f = Spent(books, escrows, ref) /\ g = Spent(bt, escrows, ref)
                          /\ D = DOMAIN books /\ z = n + 1
    OBVIOUS
  <2>2. \A c \in D : Used(bt, escrows, ref, c) <=> Used(books, escrows, ref, c)
    BY <1>3, <1>5, <2>1 DEF Used
  <2>3. ~Used(bt, escrows, ref, z)
    BY <1>5, <2>1 DEF Used
  <2>4. g[z] = 0 /\ \A c \in D : g[c] = f[c]
    BY <1>6, <2>1, <2>2, <2>3, SpentAdds
  <2>5. Adds(D, f) /\ z \notin D /\ g[z] \in Int
    BY <1>6, <2>1, <2>4, SpentAdds
  <2>6. SumFunctionOnSet(g, D \cup {z}) = SumFunctionOnSet(f, D) + g[z]
    <3>1. \A c \in D : g[c] = f[c]
      BY <2>4
    <3>2. QED
      BY <2>5, <3>1, SumMore
  <2>7. SumFunctionOnSet(f, D) \in Int
    BY <2>5, SumInt
  <2>8. QED
    BY <1>6, <2>1, <2>4, <2>6, <2>7 DEF InBooks
<1>8. \A ref \in Refs(lists) : SentTo(credits, ref) <= InBooks(books', escrows, ref)
  BY <1>4, <1>7 DEF BooksPayOnce
<1>9. CreditsOK(credits)'
  BY <1>1 DEF BooksPayOnce, CreditsOK, Counts
<1>10. QED
  BY <1>1, <1>8, <1>9 DEF BooksPayOnce

LEMMA SuiOnce ==
  ASSUME BooksPayOnce, BatchesOK, ObjectsOK, FilesOK, chain = "sui", UNCHANGED <<chain, lists>>,
         NEW l \in DOMAIN lists, OnSui(lists[l])
  PROVE  BooksPayOnce'
<1>1. PICK list : list = lists[l] /\ list.items \in Seq(Item) /\ list.batches \in Seq(Seq(Item))
  BY ListTyped DEF FilesOK
<1>2. \A i \in DOMAIN list.items : list.items[i].ref \in Refs(lists)
  BY <1>1, RefsAre
<1>3. ASSUME NEW b \in DOMAIN books, NEW k \in DOMAIN list.batches, Sui!Pay(b, list.batches[k])
      PROVE  BooksPayOnce'
  <2>1. list.batches[k] \in Seq(Item)
    BY <1>1
  <2>2. \A i \in DOMAIN list.batches[k] : list.batches[k][i].ref \in Refs(lists)
    <3>1. \A i \in DOMAIN list.batches[k] : \E j \in DOMAIN list.items : list.batches[k][i] = list.items[j]
      BY <1>1 DEF BatchesOK
    <3>2. QED
      BY <1>2, <3>1
  <2>3. QED
    BY <1>3, <2>1, <2>2, SuiPayOnce
<1>4. ASSUME NEW b \in DOMAIN books, NEW i \in DOMAIN list.items, Sui!Pay(b, <<list.items[i]>>)
      PROVE  BooksPayOnce'
  <2>0. <<list.items[i]>> \in Seq(Item)
    BY <1>1
  <2>1. PICK its : its = <<list.items[i]>> /\ its \in Seq(Item)
    BY <2>0
  <2>2. \A j \in DOMAIN its : its[j].ref \in Refs(lists)
    BY <1>2, <2>1, OnlyOne
  <2>3. QED
    BY <1>4, <2>1, <2>2, SuiPayOnce
<1>5. ASSUME NEW b \in DOMAIN books, NEW i \in DOMAIN list.items, NEW due,
             Sui!Hold(b, list.items[i], due)
      PROVE  BooksPayOnce'
  <2>1. list.items[i] \in Item
    BY <1>1
  <2>2. QED
    BY <1>2, <1>5, <2>1, SuiHoldOnce
<1>6. OnSui(list)
  BY <1>1
<1>7. QED
  BY <1>3, <1>4, <1>5, <1>6 DEF OnSui

LEMMA SubmitBooks ==
  ASSUME BooksPayOnce, IdsOK, ObjectsOK, FilesOK, NEW policy, Submit(policy)
  PROVE  BooksPayOnce'
<1> SUFFICES ASSUME chain = "sui" PROVE BooksPayOnce'
  BY DEF Submit, BooksPayOnce
<1>1. UNCHANGED <<chain, credits, books, escrows>>
  BY DEF Submit, suiVars
<1>2. /\ CreditsOK(credits) /\ \A h \in DOMAIN escrows : h[2] \in Refs(lists)
      /\ \A ref \in Refs(lists) : SentTo(credits, ref) <= InBooks(books, escrows, ref)
  BY DEF BooksPayOnce
<1>3. CreditsOK(credits)'
  BY <1>1, <1>2, SubmitIsNew DEF CreditsOK, Counts
<1>4. ASSUME NEW ref, ref \notin Refs(lists)
      PROVE  SentTo(credits, ref) <= InBooks(books, escrows, ref)
  <2>1. SentTo(credits, ref) = 0
    BY <1>2, <1>4, NewIsUnsent
  <2>2. InBooks(books, escrows, ref) \in Nat
    BY SpentAdds DEF ObjectsOK
  <2>3. QED
    BY <2>1, <2>2
<1>5. QED
  BY <1>1, <1>2, <1>3, <1>4, SubmitIsNew DEF BooksPayOnce

\* No more Books count than there are.
LEMMA BooksBound ==
  ASSUME NEW bs, IsSeq(bs), NEW es, NEW ref
  PROVE  InBooks(bs, es, ref) <= Len(bs)
<1>1. PICK S : bs \in Seq(S)
  BY DEF IsSeq
<1>2. PICK n \in Nat : DOMAIN bs = 1 .. n /\ n = Len(bs)
  BY <1>1
<1>3. PICK f : f = Spent(bs, es, ref)
  OBVIOUS
<1>4. Adds(1 .. n, f) /\ \A b \in 1 .. n : f[b] \in Int /\ f[b] <= 1
  BY <1>2, <1>3, SpentAdds
<1> DEFINE G == {k \in 0 .. n : SumFunctionOnSet(f, 1 .. k) <= k}
<1>5. 0 \in G
  <2>1. 1 .. 0 = {} /\ 0 \in 0 .. n
    OBVIOUS
  <2>2. SumFunctionOnSet(f, 1 .. 0) = 0
    BY <2>1, NothingAdded
  <2>3. QED
    BY <2>1, <2>2
<1>6. ASSUME NEW k \in 0 .. n - 1, k \in G
      PROVE  k + 1 \in G
  <2>1. PICK T, x : T = 1 .. k + 1 /\ x = k + 1
    OBVIOUS
  <2>2. x \in T /\ T \ {x} = 1 .. k /\ T \subseteq 1 .. n /\ k + 1 \in 0 .. n /\ 1 .. k \subseteq 1 .. n
    BY <2>1
  <2>3. SumFunctionOnSet(f, T) = f[x] + SumFunctionOnSet(f, T \ {x})
    BY <1>4, <2>2, AddsPart, SumLess
  <2>4. PICK s \in Int : s = SumFunctionOnSet(f, 1 .. k) /\ s <= k
    BY <1>4, <1>6, <2>2, AddsPart, SumInt
  <2>5. f[x] \in Int /\ f[x] <= 1
    BY <1>4, <2>2
  <2>6. SumFunctionOnSet(f, T) <= k + 1
    <3>1. PICK v : v = f[x]
      OBVIOUS
    <3>2. SumFunctionOnSet(f, T) = v + s /\ v \in Int /\ v <= 1
      BY <2>2, <2>3, <2>4, <2>5, <3>1
    <3>3. QED
      BY <2>4, <3>2
  <2>7. QED
    BY <2>1, <2>2, <2>6
<1> HIDE DEF G
<1>7. \A k \in 0 .. n : k \in G
  BY <1>5, <1>6, UpTo
<1>8. n \in G
  BY <1>7
<1>9. QED
  BY <1>2, <1>3, <1>8 DEF G, InBooks

-----------------------------------------------------------------------------
(* EVM: a call pays for what it has taken, also from inside another call.  *)

\* A step that pays a merchant, or puts money in escrow for one, and a step
\* that must come before it.
PaysFor(x, ref) ==
  \/ x.do = "move" /\ x.to \notin {Payer, Contract, Collector} /\ x.ref = ref
  \/ x.do = "record" /\ x.hold.ref = ref
Takes(x, ref) == x.do \in {"reserve", "drop"} /\ x.ref = ref

\* What is left of a call will pay for a ref that it took before.
Claims(c, ref) ==
  \E i \in 1 .. Len(c) : PaysFor(c[i], ref) /\ \A j \in 1 .. i - 1 : ~Takes(c[j], ref)

\* It takes a ref again before it pays for it again.
PaysOnce(c) ==
  \A ref : \A i, j \in 1 .. Len(c) :
    i < j /\ PaysFor(c[i], ref) /\ PaysFor(c[j], ref) => \E k \in i + 1 .. j - 1 : Takes(c[k], ref)

\* What it pays for is of a list.
PaysWithin(c, R) == \A i \in 1 .. Len(c) : \A ref : PaysFor(c[i], ref) => ref \in R

CodeOnce(c, R) == PaysOnce(c) /\ PaysWithin(c, R)

\* Whatever is paid for is taken right before.
Fresh(c) ==
  \A ref : \A i \in 1 .. Len(c) : PaysFor(c[i], ref) =>
    \E k \in 1 .. i - 1 : Takes(c[k], ref) /\ \A j \in k .. i - 1 : ~PaysFor(c[j], ref)

\* A new call claims nothing.
LEMMA FreshIs ==
  ASSUME NEW c, Len(c) \in Nat, Fresh(c)
  PROVE  PaysOnce(c) /\ \A ref : ~Claims(c, ref)
<1>1. PICK n \in Nat : n = Len(c)
  OBVIOUS
<1>2. ASSUME NEW ref, Claims(c, ref)
      PROVE  FALSE
  <2>1. PICK i \in 1 .. n : PaysFor(c[i], ref) /\ \A j \in 1 .. i - 1 : ~Takes(c[j], ref)
    BY <1>1, <1>2 DEF Claims
  <2>2. QED
    BY <1>1, <2>1 DEF Fresh
<1>3. ASSUME NEW ref, NEW i \in 1 .. n, NEW j \in 1 .. n, i < j, PaysFor(c[i], ref), PaysFor(c[j], ref)
      PROVE  \E k \in i + 1 .. j - 1 : Takes(c[k], ref)
  <2>1. PICK k \in 1 .. j - 1 : Takes(c[k], ref) /\ \A h \in k .. j - 1 : ~PaysFor(c[h], ref)
    BY <1>1, <1>3 DEF Fresh
  <2>2. k > i
    BY <1>3, <2>1
  <2>3. k \in i + 1 .. j - 1
    BY <2>2
  <2>4. QED
    BY <2>1, <2>3
<1>4. QED
  BY <1>1, <1>2, <1>3 DEF PaysOnce

\* Its steps are taken one by one.
LEMMA OneStepLess ==
  ASSUME NEW c, IsSeq(c), c # <<>>, NEW R, CodeOnce(c, R)
  PROVE  /\ CodeOnce(Tail(c), R)
         /\ \A ref : PaysFor(c[1], ref) => ref \in R /\ Claims(c, ref) /\ ~Claims(Tail(c), ref)
         /\ \A ref : ~Takes(c[1], ref) /\ Claims(Tail(c), ref) => Claims(c, ref)
<1>0. PICK d : d = Tail(c)
  OBVIOUS
<1>1. PICK n \in Nat \ {0} : n = Len(c) /\ d = Tail(c)
  BY <1>0, TailOf
<1>2. Len(d) = n - 1 /\ \A i \in 1 .. n - 1 : d[i] = c[i + 1]
  BY <1>1, TailOf
<1>3. PaysOnce(d)
  <2>1. ASSUME NEW ref, NEW i \in 1 .. n - 1, NEW j \in 1 .. n - 1, i < j,
               PaysFor(d[i], ref), PaysFor(d[j], ref)
        PROVE  \E k \in i + 1 .. j - 1 : Takes(d[k], ref)
    <3>1. PICK a, b \in 1 .. n : a = i + 1 /\ b = j + 1
      OBVIOUS
    <3>2. a < b /\ PaysFor(c[a], ref) /\ PaysFor(c[b], ref)
      BY <1>2, <2>1, <3>1
    <3>3. PICK h \in a + 1 .. b - 1 : Takes(c[h], ref)
      BY <1>1, <3>2 DEF CodeOnce, PaysOnce
    <3>4. PICK k \in i + 1 .. j - 1 : h = k + 1
      <4>1. h - 1 \in i + 1 .. j - 1 /\ h = (h - 1) + 1
        BY <3>1
      <4>2. QED
        BY <4>1
    <3>5. k \in 1 .. n - 1
      OBVIOUS
    <3>6. QED
      BY <1>2, <3>3, <3>4, <3>5
  <2>2. QED
    BY <1>2, <2>1 DEF PaysOnce
<1>4. PaysWithin(d, R)
  <2>1. \A i \in 1 .. n - 1 : i + 1 \in 1 .. n
    OBVIOUS
  <2>2. QED
    BY <1>1, <1>2, <2>1 DEF CodeOnce, PaysWithin
<1>5. ASSUME NEW ref, PaysFor(c[1], ref)
      PROVE  ref \in R /\ Claims(c, ref) /\ ~Claims(d, ref)
  <2>1. PICK one \in 1 .. n : one = 1
    OBVIOUS
  <2>2. PaysFor(c[one], ref) /\ 1 .. one - 1 = {}
    BY <1>5, <2>1
  <2>3. ref \in R /\ Claims(c, ref)
    BY <1>1, <2>2 DEF Claims, CodeOnce, PaysWithin
  <2>4. ASSUME Claims(d, ref)
        PROVE  FALSE
    <3>1. PICK i \in 1 .. n - 1 : PaysFor(d[i], ref) /\ \A j \in 1 .. i - 1 : ~Takes(d[j], ref)
      BY <1>2, <2>4 DEF Claims
    <3>2. PICK b \in 1 .. n : b = i + 1 /\ one < b
      BY <2>1
    <3>3. PaysFor(c[b], ref)
      BY <1>2, <3>1, <3>2
    <3>4. PICK h \in one + 1 .. b - 1 : Takes(c[h], ref)
      BY <1>1, <2>2, <3>2, <3>3 DEF CodeOnce, PaysOnce
    <3>5. PICK j \in 1 .. i - 1 : h = j + 1
      <4>1. h - 1 \in 1 .. i - 1 /\ h = (h - 1) + 1
        BY <2>1, <3>2
      <4>2. QED
        BY <4>1
    <3>6. j \in 1 .. n - 1
      OBVIOUS
    <3>7. QED
      BY <1>2, <3>1, <3>4, <3>5, <3>6
  <2>5. QED
    BY <2>3, <2>4
<1>6. ASSUME NEW ref, ~Takes(c[1], ref), Claims(d, ref)
      PROVE  Claims(c, ref)
  <2>1. PICK i \in 1 .. n - 1 : PaysFor(d[i], ref) /\ \A j \in 1 .. i - 1 : ~Takes(d[j], ref)
    BY <1>2, <1>6 DEF Claims
  <2>2. PICK b \in 1 .. n : b = i + 1
    OBVIOUS
  <2>3. PaysFor(c[b], ref)
    BY <1>2, <2>1, <2>2
  <2>4. ASSUME NEW h \in 1 .. b - 1
        PROVE  ~Takes(c[h], ref)
    <3>1. CASE h = 1
      BY <1>6, <3>1
    <3>2. CASE h # 1
      <4>1. PICK j \in 1 .. i - 1 : h = j + 1
        <5>1. h - 1 \in 1 .. i - 1 /\ h = (h - 1) + 1
          BY <2>2, <3>2
        <5>2. QED
          BY <5>1
      <4>2. j \in 1 .. n - 1
        OBVIOUS
      <4>3. QED
        BY <1>2, <2>1, <4>1, <4>2
    <3>3. QED
      BY <3>1, <3>2
  <2>5. QED
    BY <1>1, <2>3, <2>4 DEF Claims
<1>7. QED
  BY <1>0, <1>3, <1>4, <1>5, <1>6 DEF CodeOnce

\* The calls from m on that will still pay for a ref.
Claimants(st, m, ref) == {j \in m .. Len(st) : Claims(st[j].code, ref)}

\* A ref was paid, or is in escrow, or is claimed by one call, and only one of
\* these, and then it is taken.
OneOf(n, taken, held, C) ==
  /\ n <= 1
  /\ n = 1 => taken
  /\ held => taken /\ n = 0
  /\ \A j \in C : taken /\ n = 0 /\ ~held /\ \A i \in C : i = j

RefOK(s, st, m, ref) ==
  OneOf(SentTo(s.credits, ref), ref \in s.paid, ref \in DOMAIN s.holds, Claimants(st, m, ref))

\* So it is in the state that the calls from m on will go on from.
Known(s, R) ==
  /\ Counts(s.credits) /\ \A key \in DOMAIN s.credits : key[1] \in R
  /\ DOMAIN s.holds \subseteq R
LevelOK(s, st, m, R) == Known(s, R) /\ \A ref : RefOK(s, st, m, ref)

CallsPayOnce ==
  chain = "evm" =>
    /\ \A k \in 1 .. Len(stack) : CodeOnce(stack[k].code, Refs(lists))
    /\ \A k \in 1 .. Len(stack) + 1 : LevelOK(Reached(k), stack, k, Refs(lists))

\* The calls from k on of one stack are those from m on of another one.
Shifted(st, k, tt, m, d) ==
  \A j \in m .. Len(tt) : j + d \in k .. Len(st) /\ tt[j].code = st[j + d].code

LEMMA LevelShift ==
  ASSUME NEW s, NEW st, NEW k, NEW R, LevelOK(s, st, k, R),
         NEW tt, NEW m, NEW d \in Int, Len(tt) \in Int, m \in Int, Shifted(st, k, tt, m, d)
  PROVE  LevelOK(s, tt, m, R)
<1>1. ASSUME NEW ref
      PROVE  RefOK(s, tt, m, ref)
  <2>1. PICK C, D : C = Claimants(st, k, ref) /\ D = Claimants(tt, m, ref)
    OBVIOUS
  <2>2. \A j \in D : j \in Int /\ j + d \in C
    BY <2>1 DEF Claimants, Shifted
  <2>3. PICK sent, taken, held :
          /\ sent = SentTo(s.credits, ref) /\ taken = (ref \in s.paid)
          /\ held = (ref \in DOMAIN s.holds)
    OBVIOUS
  <2>4. OneOf(sent, taken, held, C)
    BY <2>1, <2>3 DEF LevelOK, RefOK
  <2>5. \A i, j \in D : i + d = j + d => i = j
    BY <2>2
  <2>6. OneOf(sent, taken, held, D)
    BY <2>2, <2>4, <2>5 DEF OneOf
  <2>7. QED
    BY <2>1, <2>3, <2>6 DEF RefOK
<1>2. QED
  BY <1>1 DEF LevelOK

\* The innermost call has taken a step; what the outer ones claim is the same.
LEMMA TopClaims ==
  ASSUME NEW n \in Nat \ {0}, NEW st, NEW tt, Len(st) = n, Len(tt) = n,
         \A j \in 2 .. n : tt[j].code = st[j].code, NEW ref
  PROVE  /\ \A j \in Claimants(tt, 1, ref) : j = 1 \/ j \in Claimants(st, 1, ref)
         /\ 1 \in Claimants(tt, 1, ref) <=> Claims(tt[1].code, ref)
         /\ 1 \in Claimants(st, 1, ref) <=> Claims(st[1].code, ref)
<1>1. 1 \in 1 .. n /\ \A j \in 1 .. n : j = 1 \/ j \in 2 .. n
  OBVIOUS
<1>2. QED
  BY <1>1 DEF Claimants

\* It takes the ref; or pays for it; or puts it in escrow, or out of it; or
\* has nothing to do with it.
LEMMA OneOfOn ==
  ASSUME NEW C, NEW D, \A j \in D : j = 1 \/ j \in C,
         NEW n \in Nat, NEW taken, NEW held, OneOf(n, taken, held, C),
         NEW m, NEW taken2, NEW held2, taken => taken2,
         \/ m = n /\ ~taken /\ taken2 /\ (held2 <=> held)
         \/ m = n + 1 /\ 1 \in C /\ 1 \notin D /\ (held2 <=> held)
         \/ m = n /\ 1 \in C /\ 1 \notin D
         \/ m = n /\ held /\ ~held2
         \/ m = n /\ (held2 <=> held) /\ (1 \in D => 1 \in C)
  PROVE  OneOf(m, taken2, held2, D)
<1>1. CASE m = n /\ ~taken /\ taken2 /\ (held2 <=> held)
  BY <1>1 DEF OneOf
<1>2. CASE m = n + 1 /\ 1 \in C /\ 1 \notin D /\ (held2 <=> held)
  <2>1. taken /\ n = 0 /\ ~held /\ \A i \in C : i = 1
    BY <1>2 DEF OneOf
  <2>2. D = {}
    BY <1>2, <2>1
  <2>3. QED
    BY <1>2, <2>1, <2>2 DEF OneOf
<1>3. CASE m = n /\ 1 \in C /\ 1 \notin D
  <2>1. taken /\ n = 0 /\ ~held /\ \A i \in C : i = 1
    BY <1>3 DEF OneOf
  <2>2. D = {}
    BY <1>3, <2>1
  <2>3. QED
    BY <1>3, <2>1, <2>2 DEF OneOf
<1>4. CASE m = n /\ held /\ ~held2
  <2>1. taken /\ n = 0 /\ C = {}
    BY <1>4 DEF OneOf
  <2>2. QED
    BY <1>4, <2>1 DEF OneOf
<1>5. CASE m = n /\ (held2 <=> held) /\ (1 \in D => 1 \in C)
  <2>1. \A j \in D : j \in C
    BY <1>5
  <2>2. QED
    BY <1>5, <2>1 DEF OneOf
<1>6. QED
  BY <1>1, <1>2, <1>3, <1>4, <1>5

\* What a step x does for a ref.
StepOn(s, t, x, ref) ==
  LET same == SentTo(t.credits, ref) = SentTo(s.credits, ref)
      kept == ref \in DOMAIN t.holds <=> ref \in DOMAIN s.holds
  IN  \/ same /\ kept /\ ref \notin s.paid /\ ref \in t.paid
      \/ PaysFor(x, ref) /\ kept /\ SentTo(t.credits, ref) = SentTo(s.credits, ref) + 1
      \/ PaysFor(x, ref) /\ same
      \/ same /\ ref \in DOMAIN s.holds /\ ref \notin DOMAIN t.holds
      \/ same /\ kept /\ ~Takes(x, ref)

StepOnAll(s, t, x) == \A ref : StepOn(s, t, x, ref)

\* The calls around it are the same.
SameBelow(st, tt) ==
  /\ Len(st) \in Nat \ {0} /\ Len(tt) = Len(st)
  /\ \A j \in 2 .. Len(st) : tt[j].code = st[j].code

\* The state the innermost call goes on from.
LEMMA LevelOn ==
  ASSUME NEW st, NEW tt, SameBelow(st, tt), NEW c, IsSeq(c), c # <<>>, c = st[1].code, tt[1].code = Tail(c),
         NEW R, CodeOnce(c, R), NEW s, NEW t, LevelOK(s, st, 1, R), Known(t, R),
         s.paid \subseteq t.paid, StepOnAll(s, t, c[1])
  PROVE  LevelOK(t, tt, 1, R)
<1>1. ASSUME NEW ref
      PROVE  RefOK(t, tt, 1, ref)
  <2>1. PICK C, D : C = Claimants(st, 1, ref) /\ D = Claimants(tt, 1, ref)
    OBVIOUS
  <2>2. /\ \A j \in D : j = 1 \/ j \in C
        /\ 1 \in D <=> Claims(Tail(c), ref)
        /\ 1 \in C <=> Claims(c, ref)
    BY <2>1, TopClaims DEF SameBelow
  <2>3. PICK a, a2, p, p2, h, h2 :
          /\ a = SentTo(s.credits, ref) /\ a2 = SentTo(t.credits, ref)
          /\ p = (ref \in s.paid) /\ p2 = (ref \in t.paid)
          /\ h = (ref \in DOMAIN s.holds) /\ h2 = (ref \in DOMAIN t.holds)
    OBVIOUS
  <2>4. OneOf(a, p, h, C) /\ a \in Nat
    BY <2>1, <2>3, SentNat DEF LevelOK, RefOK, Known
  <2>5. /\ PaysFor(c[1], ref) => 1 \in C /\ 1 \notin D
        /\ ~Takes(c[1], ref) => (1 \in D => 1 \in C)
    BY <2>2, OneStepLess
  <2>6. p => p2
    BY <2>3
  <2>7. \/ a2 = a /\ ~p /\ p2 /\ (h2 <=> h)
        \/ a2 = a + 1 /\ 1 \in C /\ 1 \notin D /\ (h2 <=> h)
        \/ a2 = a /\ 1 \in C /\ 1 \notin D
        \/ a2 = a /\ h /\ ~h2
        \/ a2 = a /\ (h2 <=> h) /\ (1 \in D => 1 \in C)
    <3>1. StepOn(s, t, c[1], ref)
      BY DEF StepOnAll
    <3>2. \/ a2 = a /\ (h2 <=> h) /\ ~p /\ p2
          \/ PaysFor(c[1], ref) /\ (h2 <=> h) /\ a2 = a + 1
          \/ PaysFor(c[1], ref) /\ a2 = a
          \/ a2 = a /\ h /\ ~h2
          \/ a2 = a /\ (h2 <=> h) /\ ~Takes(c[1], ref)
      BY <2>3, <3>1 DEF StepOn
    <3>3. QED
      BY <2>5, <3>2
  <2>8. OneOf(a2, p2, h2, D)
    BY <2>2, <2>4, <2>6, <2>7, OneOfOn
  <2>9. QED
    BY <2>1, <2>3, <2>8 DEF RefOK
<1>2. QED
  BY <1>1 DEF LevelOK

LEMMA TopOnce ==
  ASSUME StackOK, CallsPayOnce, chain = "evm", UNCHANGED <<chain, lists>>,
         stack # <<>>, stack[1].code # <<>>, NEW f,
         stack' = <<f>> \o Tail(stack), f.code = Tail(stack[1].code),
         f.saved = stack[1].saved,
         Known(Now', Refs(lists)), paid \subseteq paid',
         StepOnAll(Now, Now', stack[1].code[1])
  PROVE  CallsPayOnce'
<1>0. PICK T, c, st, R : T = Tail(stack) /\ c = stack[1].code /\ st = stack /\ R = Refs(lists)
  OBVIOUS
<1>1. PICK n \in Nat \ {0} : n = Len(stack) /\ T = Tail(stack)
  BY <1>0, Innermost, Zenon
<1>2. IsSeq(T) /\ Len(T) = n - 1 /\ \A k \in 1 .. n - 1 : T[k] = stack[k + 1]
  BY <1>1, Innermost
<1>3. /\ Len(stack') = n /\ stack'[1] = f
      /\ \A i \in 2 .. n : stack'[i] = T[i - 1]
  <2>1. stack' = <<f>> \o T
    BY <1>1
  <2>2. /\ Len(<<f>> \o T) = Len(T) + 1
        /\ (<<f>> \o T)[1] = f
        /\ \A i \in 2 .. Len(T) + 1 : (<<f>> \o T)[i] = T[i - 1]
    BY <1>2, Pushed, ZenonT(60)
  <2>3. Len(T) + 1 = n
    BY <1>2
  <2>4. QED
    BY <2>1, <2>2, <2>3
<1>4. \A i \in 2 .. n : stack'[i] = stack[i]
  <2>1. ASSUME NEW i \in 2 .. n
        PROVE  stack'[i] = stack[i]
    <3>1. PICK k \in 1 .. n - 1 : k = i - 1 /\ i = k + 1
      OBVIOUS
    <3>2. QED
      BY <1>2, <1>3, <3>1
  <2>2. QED
    BY <2>1
<1>5. IsSeq(c)
  BY <1>0, Innermost DEF FrameOK
<1>6. /\ \A k \in 1 .. n : CodeOnce(stack[k].code, R)
      /\ \A k \in 1 .. n + 1 : LevelOK(Reached(k), stack, k, R)
  BY <1>0, <1>1 DEF CallsPayOnce
<1>7. 1 \in 1 .. n /\ 1 \in 1 .. n + 1 /\ Reached(1) = Now
  BY DEF Reached
<1>8. \A k \in 1 .. n : CodeOnce(stack'[k].code, R)
  <2>1. CodeOnce(Tail(c), R)
    BY <1>0, <1>5, <1>6, <1>7, OneStepLess
  <2>2. \A k \in 1 .. n : k = 1 \/ k \in 2 .. n
    OBVIOUS
  <2>3. QED
    BY <1>0, <1>3, <1>4, <1>6, <2>1, <2>2
<1>9. LevelOK(Now', stack', 1, R)
  <2>1. PICK t, tt : t = Now' /\ tt = stack'
    OBVIOUS
  <2>2. PICK s : s = Now
    OBVIOUS
  <2>3. s.paid \subseteq t.paid
    BY <2>1, <2>2 DEF Now
  <2>4. SameBelow(st, tt) /\ tt[1].code = Tail(c)
    BY <1>0, <1>1, <1>3, <1>4, <2>1 DEF SameBelow
  <2>5. /\ LevelOK(s, st, 1, R) /\ Known(t, R) /\ StepOnAll(s, t, c[1])
        /\ c # <<>> /\ c = st[1].code /\ CodeOnce(c, R)
    BY <1>0, <1>6, <1>7, <2>1, <2>2
  <2>7. LevelOK(t, tt, 1, R)
    BY <1>5, <2>3, <2>4, <2>5, LevelOn
  <2>8. QED
    BY <2>1, <2>7
<1>10. ASSUME NEW k \in 2 .. n + 1
       PROVE  LevelOK(stack'[k - 1].saved, stack', k, R)
  <2>1. stack'[k - 1].saved = stack[k - 1].saved
    <3>1. k - 1 = 1 \/ k - 1 \in 2 .. n
      OBVIOUS
    <3>2. QED
      BY <1>3, <1>4, <3>1
  <2>2. k \in 1 .. n + 1 /\ k # 1
    OBVIOUS
  <2>3. PICK s, tt : s = stack[k - 1].saved /\ tt = stack'
    OBVIOUS
  <2>4. LevelOK(s, st, k, R)
    BY <1>0, <1>6, <2>2, <2>3 DEF Reached
  <2>5. PICK d \in Int : d = 0
    OBVIOUS
  <2>6. Shifted(st, k, tt, k, d)
    <3>1. \A j \in k .. n : j + d = j /\ j \in 2 .. n
      BY <2>5
    <3>2. QED
      BY <1>0, <1>1, <1>3, <1>4, <2>3, <3>1 DEF Shifted
  <2>7. Len(tt) \in Int /\ k \in Int
    BY <1>3, <2>3
  <2>8. LevelOK(s, tt, k, R)
    BY <2>4, <2>6, <2>7, LevelShift
  <2>9. QED
    BY <2>1, <2>3, <2>8
<1>11. \A k \in 1 .. n + 1 : LevelOK(Reached(k)', stack', k, R)
  <2>1. \A k \in 1 .. n + 1 : k = 1 \/ k \in 2 .. n + 1
    OBVIOUS
  <2>2. Reached(1)' = Now'
    BY DEF Reached
  <2>4. ASSUME NEW k \in 2 .. n + 1
        PROVE  Reached(k)' = stack'[k - 1].saved
    <3>1. k # 1
      OBVIOUS
    <3>2. QED
      BY <3>1 DEF Reached
  <2>3. QED
    BY <1>9, <1>10, <2>1, <2>2, <2>4
<1>12. R = Refs(lists')
  BY <1>0
<1>13. QED
  BY <1>3, <1>8, <1>11, <1>12 DEF CallsPayOnce

-----------------------------------------------------------------------------
(* The steps of a call.                                                    *)

\* The step that is next.
LEMMA NextOnce ==
  ASSUME StackOK, CallsPayOnce, chain = "evm", NEW what, Does(what)
  PROVE  /\ stack # <<>> /\ stack[1].code # <<>> /\ This = stack[1].code[1] /\ This.do = what
         /\ \A ref : PaysFor(This, ref) => ref \in Refs(lists)
         /\ Known(Now, Refs(lists))
<1>1. /\ stack # <<>> /\ stack[1].code # <<>> /\ This = stack[1].code[1] /\ This.do = what
      /\ IsSeq(stack[1].code)
  BY NextStep
<1>2. PICK n \in Nat \ {0} : n = Len(stack)
  BY <1>1, Innermost, Zenon
<1>3. 1 \in 1 .. n /\ 1 \in 1 .. n + 1 /\ Reached(1) = Now
  BY DEF Reached
<1>4. CodeOnce(stack[1].code, Refs(lists)) /\ LevelOK(Now, stack, 1, Refs(lists))
  BY <1>2, <1>3 DEF CallsPayOnce
<1>5. QED
  BY <1>1, <1>4, OneStepLess DEF LevelOK

\* The steps that touch neither the tally nor the records nor the refs.
LEMMA QuietOnce ==
  ASSUME StackOK, CallsPayOnce, chain = "evm", UNCHANGED <<chain, lists>>,
         Moved \/ Measure
  PROVE  CallsPayOnce'
<1>1. PICK what \in {"moved", "measure"} : Does(what)
  BY DEF Moved, Measure
<1>2. /\ stack # <<>> /\ stack[1].code # <<>> /\ This = stack[1].code[1] /\ This.do = what
      /\ Known(Now, Refs(lists))
  BY <1>1, NextOnce
<1>3. Head(stack) = stack[1] /\ DOMAIN stack[1] = {"code", "before", "saved"}
  BY <1>2, Innermost DEF FrameOK
<1>4. PICK f : /\ stack' = <<f>> \o Tail(stack)
               /\ f.code = Tail(stack[1].code) /\ f.saved = stack[1].saved
  <2>1. CASE Moved
    BY <1>2, <2>1, Advanced DEF Moved
  <2>2. CASE Measure
    <3>1. PICK f : f = [Head(stack) EXCEPT !.code = Tail(@), !.before = bal[Contract]]
      OBVIOUS
    <3>2. stack' = <<f>> \o Tail(stack)
      BY <2>2, <3>1 DEF Measure
    <3>3. f.code = Tail(stack[1].code) /\ f.saved = stack[1].saved
      BY <1>3, <3>1
    <3>4. QED
      BY <3>2, <3>3
  <2>3. QED
    BY <2>1, <2>2
<1>5. /\ Now'.credits = Now.credits /\ Now'.holds = Now.holds /\ paid \subseteq paid'
  BY DEF Now, Moved, Measure
<1>6. Known(Now', Refs(lists))
  BY <1>2, <1>5 DEF Known
<1>7. StepOnAll(Now, Now', stack[1].code[1])
  <2>1. \A ref : ~Takes(This, ref)
    BY <1>2 DEF Takes
  <2>2. QED
    BY <1>2, <1>5, <2>1 DEF StepOnAll, StepOn
<1>8. QED
  BY <1>2, <1>4, <1>5, <1>6, <1>7, TopOnce

LEMMA ReserveOnce ==
  ASSUME StackOK, CallsPayOnce, chain = "evm", UNCHANGED <<chain, lists>>, Reserve
  PROVE  CallsPayOnce'
<1>1. /\ stack # <<>> /\ stack[1].code # <<>> /\ This = stack[1].code[1]
      /\ Known(Now, Refs(lists))
  BY NextOnce DEF Reserve
<1>2. PICK f : /\ stack' = <<f>> \o Tail(stack)
               /\ f.code = Tail(stack[1].code) /\ f.saved = stack[1].saved
  BY <1>1, Advanced DEF Reserve
<1>3. /\ Now'.credits = Now.credits /\ Now'.holds = Now.holds
      /\ Now.paid = paid /\ Now'.paid = paid \cup {This.ref}
      /\ This.ref \notin paid /\ paid \subseteq paid'
  BY DEF Now, Reserve
<1>4. Known(Now', Refs(lists))
  BY <1>1, <1>3 DEF Known
<1>5. StepOnAll(Now, Now', stack[1].code[1])
  <2>1. ASSUME NEW ref
        PROVE  StepOn(Now, Now', This, ref)
    <3>1. CASE ref = This.ref
      BY <1>3, <3>1 DEF StepOn
    <3>2. CASE ref # This.ref
      BY <1>3, <3>2 DEF StepOn, Takes
    <3>3. QED
      BY <3>1, <3>2
  <2>2. QED
    BY <1>1, <2>1 DEF StepOnAll
<1>6. QED
  BY <1>1, <1>2, <1>3, <1>4, <1>5, TopOnce

LEMMA TransferOnce ==
  ASSUME StackOK, CallsPayOnce, chain = "evm", UNCHANGED <<chain, lists>>, Transfer
  PROVE  CallsPayOnce'
<1>1. /\ stack # <<>> /\ stack[1].code # <<>> /\ This = stack[1].code[1] /\ This.do = "move"
      /\ Known(Now, Refs(lists)) /\ \A ref : PaysFor(This, ref) => ref \in Refs(lists)
  BY NextOnce DEF Transfer
<1>2. PICK f : /\ stack' = <<f>> \o Tail(stack)
               /\ f.code = Tail(stack[1].code) /\ f.saved = stack[1].saved
  BY <1>1, Advanced DEF Transfer
<1>3. /\ Now.credits = credits /\ Now'.credits = credits'
      /\ Now'.holds = Now.holds /\ paid \subseteq paid'
  BY DEF Now, Transfer
<1>4. CreditsOK(credits)
  BY <1>1, <1>3 DEF Known, CreditsOK
<1>5. Known(Now', Refs(lists)) /\ StepOnAll(Now, Now', This)
  <2>0. \A ref : ~Takes(This, ref)
    BY <1>1 DEF Takes
  <2>1. CASE This.to \in {Payer, Contract, Collector}
    <3>1. credits' = credits
      BY <2>1 DEF Transfer
    <3>2. QED
      BY <1>1, <1>3, <2>0, <3>1 DEF Known, StepOnAll, StepOn
  <2>2. CASE This.to \notin {Payer, Contract, Collector}
    <3>1. PICK x : x = [ref |-> This.ref, account |-> This.to, amount |-> This.amount]
      OBVIOUS
    <3>2. PICK items : items = <<x>>
      OBVIOUS
    <3>3. x.ref = This.ref /\ credits' = Credited(items)
      BY <2>2, <3>1, <3>2 DEF Transfer
    <3>4. DOMAIN items = 1 .. 1 /\ 1 \in DOMAIN items /\ \A i \in DOMAIN items : i = 1 /\ items[i] = x
      BY <3>2, OnlyOne
    <3>5. PaysFor(This, This.ref)
      BY <1>1, <2>2 DEF PaysFor
    <3>6. PICK one \in Nat : one = 1
      OBVIOUS
    <3>7. CreditsOK(Credited(items))
      <4>1. DOMAIN items = 1 .. one /\ \A i \in DOMAIN items : items[i].ref \in Refs(lists)
        BY <1>1, <3>3, <3>4, <3>5, <3>6
      <4>2. QED
        BY <1>4, <4>1, CreditedOK
    <3>8. ASSUME NEW ref
          PROVE  StepOn(Now, Now', This, ref)
      <4>1. CASE ref = This.ref
        <5>1. PICK y \in DOMAIN items : y = 1 /\ items[y] = x
          BY <3>4
        <5>2. ref = items[y].ref /\ \A i \in DOMAIN items : items[i].ref = ref => i = y
          BY <3>3, <3>4, <4>1, <5>1
        <5>3. SentTo(Credited(items), ref) = SentTo(credits, ref) + 1
          BY <1>4, <5>2, CreditedOnce DEF CreditsOK
        <5>4. QED
          BY <1>3, <3>3, <3>5, <4>1, <5>3 DEF StepOn
      <4>2. CASE ref # This.ref
        <5>1. \A i \in DOMAIN items : items[i].ref # ref
          BY <3>3, <3>4, <4>2
        <5>2. SentTo(Credited(items), ref) = SentTo(credits, ref)
          BY <1>4, <5>1, CreditedOthers DEF CreditsOK
        <5>3. QED
          BY <1>3, <2>0, <3>3, <5>2 DEF StepOn
      <4>3. QED
        BY <4>1, <4>2
    <3>9. QED
      BY <1>1, <1>3, <3>3, <3>7, <3>8 DEF Known, CreditsOK, StepOnAll
  <2>3. QED
    BY <2>1, <2>2
<1>6. QED
  BY <1>1, <1>2, <1>3, <1>5, TopOnce

LEMMA RecordOnce ==
  ASSUME StackOK, CallsPayOnce, chain = "evm", UNCHANGED <<chain, lists>>, Record
  PROVE  CallsPayOnce'
<1>1. /\ stack # <<>> /\ stack[1].code # <<>> /\ This = stack[1].code[1] /\ This.do = "record"
      /\ Known(Now, Refs(lists)) /\ \A ref : PaysFor(This, ref) => ref \in Refs(lists)
  BY NextOnce DEF Record
<1>2. PICK f : /\ stack' = <<f>> \o Tail(stack)
               /\ f.code = Tail(stack[1].code) /\ f.saved = stack[1].saved
  BY <1>1, Advanced DEF Record
<1>3. /\ Now'.credits = Now.credits /\ Now.holds = holds /\ Now'.holds = holds'
      /\ paid \subseteq paid' /\ holds' = With(holds, This.hold.ref, This.hold)
  BY DEF Now, Record
<1>4. DOMAIN holds' = DOMAIN holds \cup {This.hold.ref} /\ PaysFor(This, This.hold.ref)
  BY <1>1, <1>3 DEF With, PaysFor
<1>5. Known(Now', Refs(lists))
  BY <1>1, <1>3, <1>4 DEF Known
<1>6. StepOnAll(Now, Now', stack[1].code[1])
  <2>0. \A ref : ~Takes(This, ref)
    BY <1>1 DEF Takes
  <2>1. ASSUME NEW ref
        PROVE  StepOn(Now, Now', This, ref)
    <3>1. CASE ref = This.hold.ref
      BY <1>3, <1>4, <3>1 DEF StepOn
    <3>2. CASE ref # This.hold.ref
      BY <1>3, <1>4, <2>0, <3>2 DEF StepOn
    <3>3. QED
      BY <3>1, <3>2
  <2>2. QED
    BY <1>1, <2>1 DEF StepOnAll
<1>7. QED
  BY <1>1, <1>2, <1>3, <1>5, <1>6, TopOnce

\* The record that is dropped is there.
LEMMA DropIsThere ==
  ASSUME StackOK, Drop
  PROVE  This.ref \in DOMAIN holds
<1>1. /\ stack # <<>> /\ stack[1].code # <<>> /\ stack[1].code[1].do = "drop"
      /\ This = stack[1].code[1] /\ IsSeq(stack[1].code)
      /\ FrameOK(stack[1], Now, Len(stack) = 1)
  BY NextStep DEF Drop
<1>2. PICK c, s : c = stack[1].code /\ s = Now
  OBVIOUS
<1>3. ~SettlesTo(stack[1], s)
  <2>1. 1 \in 1 .. Len(c)
    BY <1>1, <1>2, TailOf
  <2>2. QED
    BY <1>1, <1>2, <2>1 DEF SettlesTo, Settles
<1>4. ~DepositsTo(stack[1], s)
  <2>1. \A h : ~Deposits(c, h)
    BY <1>1, <1>2, DepositsOn
  <2>2. QED
    BY <1>2, <2>1 DEF DepositsTo, DepositsBy
<1>5. ~PaysTo(stack[1], s)
  BY <1>1, PaysOn DEF PaysTo
<1>6. BeginsAt(stack[1], s)
  BY <1>1, <1>2, <1>3, <1>4, <1>5, Kinds
<1>7. QED
  BY <1>1, <1>2, <1>6 DEF BeginsAt, Now

LEMMA DropOnce ==
  ASSUME StackOK, CallsPayOnce, chain = "evm", UNCHANGED <<chain, lists>>, Drop
  PROVE  CallsPayOnce'
<1>1. /\ stack # <<>> /\ stack[1].code # <<>> /\ This = stack[1].code[1]
      /\ Known(Now, Refs(lists))
  BY NextOnce DEF Drop
<1>2. PICK f : /\ stack' = <<f>> \o Tail(stack)
               /\ f.code = Tail(stack[1].code) /\ f.saved = stack[1].saved
  BY <1>1, Advanced DEF Drop
<1>3. /\ Now'.credits = Now.credits /\ Now.holds = holds /\ Now'.holds = holds'
      /\ paid \subseteq paid' /\ holds' = Restrict(holds, DOMAIN holds \ {This.ref})
  BY DEF Now, Drop
<1>4. DOMAIN holds' = DOMAIN holds \ {This.ref}
  BY <1>3 DEF Restrict
<1>5. Known(Now', Refs(lists))
  BY <1>1, <1>3, <1>4 DEF Known
<1>6. StepOnAll(Now, Now', stack[1].code[1])
  <2>1. ASSUME NEW ref
        PROVE  StepOn(Now, Now', This, ref)
    <3>1. CASE ref = This.ref
      BY <1>3, <1>4, <3>1, DropIsThere DEF StepOn
    <3>2. CASE ref # This.ref
      BY <1>3, <1>4, <3>2 DEF StepOn, Takes
    <3>3. QED
      BY <3>1, <3>2
  <2>2. QED
    BY <1>1, <2>1 DEF StepOnAll
<1>7. QED
  BY <1>1, <1>2, <1>3, <1>5, <1>6, TopOnce

\* A call is done, or undone.
LEMMA GoneOnce ==
  ASSUME StackOK, CallsPayOnce, chain = "evm", UNCHANGED <<chain, lists>>,
         stack # <<>>, stack' = Tail(stack),
         NEW h \in {1, 2}, LevelOK(Now', stack, h, Refs(lists))
  PROVE  CallsPayOnce'
<1>0. PICK st, R : st = stack /\ R = Refs(lists)
  OBVIOUS
<1>1. PICK n \in Nat \ {0} : n = Len(stack)
  BY Innermost, Zenon
<1>2. Len(stack') = n - 1 /\ \A k \in 1 .. n - 1 : stack'[k] = stack[k + 1]
  BY <1>1, Innermost
<1>3. /\ \A k \in 1 .. n : CodeOnce(stack[k].code, R)
      /\ \A k \in 1 .. n + 1 : LevelOK(Reached(k), stack, k, R)
  BY <1>0, <1>1 DEF CallsPayOnce
<1>4. PICK one \in Int : one = 1
  OBVIOUS
<1>5. \A k \in 1 .. n - 1 : CodeOnce(stack'[k].code, R)
  <2>1. \A k \in 1 .. n - 1 : k + 1 \in 1 .. n
    OBVIOUS
  <2>2. QED
    BY <1>2, <1>3, <2>1
<1>6. LevelOK(Now', stack', 1, R)
  <2>1. PICK t, tt : t = Now' /\ tt = stack'
    OBVIOUS
  <2>2. Shifted(st, h, tt, one, one)
    <3>1. \A j \in one .. n - 1 : j + one \in h .. n /\ j \in 1 .. n - 1 /\ j + one = j + 1
      BY <1>4
    <3>2. QED
      BY <1>0, <1>1, <1>2, <2>1, <3>1 DEF Shifted
  <2>3. LevelOK(t, st, h, R) /\ Len(tt) \in Int
    BY <1>0, <1>2, <2>1
  <2>4. LevelOK(t, tt, one, R)
    BY <2>2, <2>3, LevelShift
  <2>5. QED
    BY <1>4, <2>1, <2>4
<1>7. ASSUME NEW k \in 2 .. n
      PROVE  LevelOK(stack'[k - 1].saved, stack', k, R)
  <2>1. stack'[k - 1].saved = stack[k].saved
    <3>1. PICK i \in 1 .. n - 1 : i = k - 1 /\ k = i + 1
      OBVIOUS
    <3>2. QED
      BY <1>2, <3>1
  <2>2. PICK s, tt, m : s = stack[k].saved /\ tt = stack' /\ m = k + 1
    OBVIOUS
  <2>3. m \in 1 .. n + 1 /\ m # 1 /\ m - 1 = k
    BY <2>2
  <2>4. LevelOK(s, st, m, R)
    BY <1>0, <1>3, <2>2, <2>3 DEF Reached
  <2>5. Shifted(st, m, tt, k, one)
    <3>1. \A j \in k .. n - 1 : j + one \in m .. n /\ j \in 1 .. n - 1 /\ j + one = j + 1
      BY <1>4, <2>2
    <3>2. QED
      BY <1>0, <1>1, <1>2, <2>2, <3>1 DEF Shifted
  <2>6. Len(tt) \in Int /\ k \in Int
    BY <1>2, <2>2
  <2>7. LevelOK(s, tt, k, R)
    BY <2>4, <2>5, <2>6, LevelShift
  <2>8. QED
    BY <2>1, <2>2, <2>7
<1>8. \A k \in 1 .. n : LevelOK(Reached(k)', stack', k, R)
  <2>1. \A k \in 1 .. n : k = 1 \/ k \in 2 .. n
    OBVIOUS
  <2>2. Reached(1)' = Now'
    BY DEF Reached
  <2>3. ASSUME NEW k \in 2 .. n
        PROVE  Reached(k)' = stack'[k - 1].saved
    <3>1. k # 1
      OBVIOUS
    <3>2. QED
      BY <3>1 DEF Reached
  <2>4. QED
    BY <1>6, <1>7, <2>1, <2>2, <2>3
<1>9. R = Refs(lists') /\ Len(stack') + 1 = n
  BY <1>0, <1>2
<1>10. QED
  BY <1>2, <1>5, <1>8, <1>9 DEF CallsPayOnce

LEMMA LeaveOnce ==
  ASSUME StackOK, CallsPayOnce, chain = "evm", UNCHANGED <<chain, lists>>, Leave
  PROVE  CallsPayOnce'
<1>1. stack # <<>> /\ stack' = Tail(stack) /\ Now' = Now
  BY DEF Leave, Now
<1>2. PICK n \in Nat \ {0} : n = Len(stack)
  BY <1>1, Innermost, Zenon
<1>3. 1 \in 1 .. n + 1 /\ Reached(1) = Now
  BY DEF Reached
<1>4. LevelOK(Now', stack, 1, Refs(lists))
  BY <1>1, <1>2, <1>3 DEF CallsPayOnce
<1>5. QED
  BY <1>1, <1>4, GoneOnce

LEMMA RevertOnce ==
  ASSUME StackOK, CallsPayOnce, chain = "evm", UNCHANGED <<chain, lists>>, Revert
  PROVE  CallsPayOnce'
<1>1. stack # <<>> /\ stack' = Tail(stack)
  BY DEF Revert, Fails, Does
<1>2. PICK e : e = stack[1].saved
  OBVIOUS
<1>3. PICK n \in Nat \ {0} : n = Len(stack)
  BY <1>1, Innermost, Zenon
<1>4. Head(stack) = stack[1] /\ IsState(e)
  BY <1>1, <1>2, Innermost DEF FrameOK
<1>5. Now' = e
  <2>1. Now' = [bal |-> e.bal, credits |-> e.credits, paid |-> e.paid, holds |-> e.holds]
    BY <1>2, <1>4 DEF Now, Revert
  <2>2. QED
    BY <1>4, <2>1 DEF IsState
<1>6. 2 \in 1 .. n + 1 /\ Reached(2) = e
  BY <1>2 DEF Reached
<1>7. LevelOK(Now', stack, 2, Refs(lists))
  BY <1>3, <1>5, <1>6 DEF CallsPayOnce
<1>8. QED
  BY <1>1, <1>7, GoneOnce

\* A call that pays for nothing that it does not take first.
LEMMA CallOnce ==
  ASSUME StackOK, CallsPayOnce, chain = "evm", UNCHANGED <<chain, lists>>,
         NEW who, NEW code, Len(code) \in Nat, Fresh(code), PaysWithin(code, Refs(lists)),
         Call(who, code)
  PROVE  CallsPayOnce'
<1>0. PICK st, R : st = stack /\ R = Refs(lists)
  OBVIOUS
<1>1. PICK f : f = [code |-> code, before |-> 0, saved |-> Now]
  OBVIOUS
<1>2. stack' = <<f>> \o stack /\ Now' = Now /\ f.saved = Now /\ f.code = code
  BY <1>1 DEF Call, Now
<1>3. IsSeq(stack)
  BY DEF StackOK
<1>4. PICK n \in Nat : n = Len(stack)
  BY <1>3, Pushed
<1>5. /\ Len(stack') = n + 1 /\ stack'[1] = f
      /\ \A i \in 2 .. n + 1 : stack'[i] = stack[i - 1]
  BY <1>2, <1>3, <1>4, Pushed, ZenonT(60)
<1>6. /\ \A k \in 1 .. n : CodeOnce(stack[k].code, R)
      /\ \A k \in 1 .. n + 1 : LevelOK(Reached(k), stack, k, R)
  BY <1>0, <1>4 DEF CallsPayOnce
<1>7. \A k \in 1 .. n + 1 : CodeOnce(stack'[k].code, R)
  <2>1. CodeOnce(code, R)
    BY <1>0, FreshIs DEF CodeOnce
  <2>2. \A k \in 1 .. n + 1 : k = 1 \/ (k \in 2 .. n + 1 /\ k - 1 \in 1 .. n)
    OBVIOUS
  <2>3. QED
    BY <1>2, <1>5, <1>6, <2>1, <2>2
<1>8. PICK d \in Int : d = 0 - 1
  OBVIOUS
<1>9. ASSUME NEW k \in 2 .. n + 2
      PROVE  LevelOK(stack'[k - 1].saved, stack', k, R)
  <2>1. PICK m \in 1 .. n + 1 : m = k - 1
    OBVIOUS
  <2>2. stack'[k - 1].saved = Reached(m)
    <3>1. CASE m = 1
      BY <1>2, <1>5, <2>1, <3>1 DEF Reached
    <3>2. CASE m # 1
      <4>1. m \in 2 .. n + 1
        BY <3>2
      <4>2. QED
        BY <1>5, <2>1, <3>2, <4>1 DEF Reached
    <3>3. QED
      BY <3>1, <3>2
  <2>3. PICK s, tt : s = Reached(m) /\ tt = stack'
    OBVIOUS
  <2>4. LevelOK(s, st, m, R)
    BY <1>0, <1>6, <2>3
  <2>5. Shifted(st, m, tt, k, d)
    <3>1. \A j \in k .. n + 1 : j + d \in m .. n /\ j \in 2 .. n + 1 /\ j + d = j - 1
      BY <1>8, <2>1
    <3>2. QED
      BY <1>0, <1>4, <1>5, <2>3, <3>1 DEF Shifted
  <2>6. Len(tt) \in Int /\ k \in Int
    BY <1>5, <2>3
  <2>7. LevelOK(s, tt, k, R)
    BY <2>4, <2>5, <2>6, LevelShift
  <2>8. QED
    BY <2>2, <2>3, <2>7
<1>10. LevelOK(Now', stack', 1, R)
  <2>1. PICK s, tt : s = Now /\ tt = stack'
    OBVIOUS
  <2>2. LevelOK(s, tt, 2, R)
    <3>1. 2 \in 2 .. n + 2 /\ 2 - 1 = 1
      OBVIOUS
    <3>2. stack'[1].saved = Now
      BY <1>2, <1>5
    <3>3. LevelOK(stack'[2 - 1].saved, stack', 2, R)
      BY <1>9, <3>1
    <3>4. QED
      BY <2>1, <3>1, <3>2, <3>3
  <2>3. ASSUME NEW ref
        PROVE  RefOK(s, tt, 1, ref)
    <3>1. ~Claims(tt[1].code, ref)
      BY <1>2, <1>5, <2>1, FreshIs
    <3>2. Claimants(tt, 1, ref) = Claimants(tt, 2, ref)
      <4>1. \A j \in 1 .. n + 1 : j = 1 \/ j \in 2 .. n + 1
        OBVIOUS
      <4>2. Len(tt) = n + 1
        BY <1>5, <2>1
      <4>3. \A j : j \in Claimants(tt, 1, ref) <=> j \in Claimants(tt, 2, ref)
        BY <3>1, <4>1, <4>2 DEF Claimants
      <4>4. QED
        BY <4>3 DEF Claimants
    <3>3. QED
      BY <2>2, <3>2 DEF LevelOK, RefOK
  <2>4. QED
    BY <1>2, <2>1, <2>2, <2>3 DEF LevelOK
<1>11. \A k \in 1 .. n + 2 : LevelOK(Reached(k)', stack', k, R)
  <2>1. \A k \in 1 .. n + 2 : k = 1 \/ k \in 2 .. n + 2
    OBVIOUS
  <2>2. Reached(1)' = Now'
    BY DEF Reached
  <2>3. ASSUME NEW k \in 2 .. n + 2
        PROVE  Reached(k)' = stack'[k - 1].saved
    <3>1. k # 1
      OBVIOUS
    <3>2. QED
      BY <3>1 DEF Reached
  <2>4. QED
    BY <1>9, <1>10, <2>1, <2>2, <2>3
<1>12. R = Refs(lists') /\ Len(stack') + 1 = n + 2
  BY <1>0, <1>5
<1>13. QED
  BY <1>5, <1>7, <1>11, <1>12 DEF CallsPayOnce

-----------------------------------------------------------------------------
(* The calls, as they begin.                                               *)

\* A call that pays for one ref only, in one step p, and takes it first.
Only(c, ref, p) == \A i \in 1 .. Len(c) : \A r : PaysFor(c[i], r) => r = ref /\ i = p
PaysNone(c) == \A i \in 1 .. Len(c) : \A r : ~PaysFor(c[i], r)

LEMMA TakesFirst ==
  ASSUME NEW c, NEW n \in Nat, n = Len(c), NEW ref, NEW p \in 2 .. 5, Takes(c[1], ref),
         Only(c, ref, p), NEW R, ref \in R
  PROVE  Fresh(c) /\ PaysWithin(c, R)
<1>1. ASSUME NEW r, NEW i \in 1 .. n, PaysFor(c[i], r)
      PROVE  /\ r \in R
             /\ \E k \in 1 .. i - 1 : Takes(c[k], r) /\ \A j \in k .. i - 1 : ~PaysFor(c[j], r)
  <2>1. r = ref /\ i = p
    BY <1>1 DEF Only
  <2>2. PICK k \in 1 .. i - 1 : k = 1
    BY <2>1
  <2>3. ASSUME NEW j \in k .. i - 1, PaysFor(c[j], r)
        PROVE  FALSE
    <3>1. j \in 1 .. n /\ j # p
      BY <2>1, <2>2
    <3>2. QED
      BY <2>3, <3>1 DEF Only
  <2>4. QED
    BY <2>1, <2>2, <2>3
<1>2. QED
  BY <1>1 DEF Fresh, PaysWithin

LEMMA JoinedOnly ==
  ASSUME NEW a, IsSeq(a), NEW ref, NEW p, Only(a, ref, p), NEW b, IsSeq(b), PaysNone(b)
  PROVE  /\ IsSeq(a \o b) /\ Len(a \o b) \in Nat /\ Only(a \o b, ref, p)
         /\ Len(a) >= 1 => (a \o b)[1] = a[1]
<1>1. PICK m \in Nat, n \in Nat : m = Len(a) /\ n = Len(b)
  BY Joined
<1>2. PICK c : c = a \o b
  OBVIOUS
<1>3. /\ IsSeq(c) /\ Len(c) = m + n
      /\ \A i \in 1 .. m : c[i] = a[i]
      /\ \A i \in m + 1 .. m + n : c[i] = b[i - m]
  BY <1>1, <1>2, Joined
<1>4. ASSUME NEW i \in 1 .. m + n, NEW r, PaysFor(c[i], r)
      PROVE  r = ref /\ i = p
  <2>1. CASE i \in 1 .. m
    <3>1. PaysFor(a[i], r)
      BY <1>3, <1>4, <2>1
    <3>2. QED
      BY <1>1, <2>1, <3>1 DEF Only
  <2>2. CASE i \in m + 1 .. m + n
    <3>1. i - m \in 1 .. n
      BY <2>2
    <3>2. PaysFor(b[i - m], r)
      BY <1>3, <1>4, <2>2
    <3>3. QED
      BY <1>1, <3>1, <3>2 DEF PaysNone
  <2>3. i \in 1 .. m \/ i \in m + 1 .. m + n
    OBVIOUS
  <2>4. QED
    BY <2>1, <2>2, <2>3
<1>5. Only(c, ref, p)
  BY <1>3, <1>4 DEF Only
<1>6. m >= 1 => c[1] = a[1]
  BY <1>3
<1>7. QED
  BY <1>1, <1>2, <1>3, <1>5, <1>6

\* A step that takes the ref, and a transfer.
LEMMA TakesThenMoves ==
  ASSUME NEW x, NEW ref, Takes(x, ref), NEW from, NEW to, NEW amount
  PROVE  LET c == <<x>> \o Move(ref, from, to, amount)
         IN  IsSeq(c) /\ Len(c) = 3 /\ Takes(c[1], ref) /\ Only(c, ref, 2)
<1>1. PICK c : c = <<x>> \o Move(ref, from, to, amount)
  OBVIOUS
<1>2. /\ IsSeq(c) /\ Len(c) = 3 /\ c[1] = x /\ c[2].do = "move" /\ c[2].ref = ref
      /\ c[3].do = "moved"
  BY <1>1, StepThenMove
<1>3. \A r : ~PaysFor(c[1], r) /\ ~PaysFor(c[3], r) /\ (PaysFor(c[2], r) => r = ref)
  BY <1>2 DEF PaysFor, Takes
<1>4. \A i \in 1 .. 3 : i = 1 \/ i = 2 \/ i = 3
  OBVIOUS
<1>5. QED
  BY <1>1, <1>2, <1>3, <1>4 DEF Only

LEMMA SettleOneOnce ==
  ASSUME NEW it \in Item, NEW R, it.ref \in R
  PROVE  LET c == SettleOne(Payer, it)
         IN  /\ Len(c) = 3 /\ Takes(c[1], it.ref) /\ Only(c, it.ref, 2)
             /\ Fresh(c) /\ PaysWithin(c, R)
<1>1. PICK x : x = [do |-> "reserve", ref |-> it.ref]
  OBVIOUS
<1>2. Takes(x, it.ref)
  <2>1. x.do = "reserve" /\ x.ref = it.ref
    BY <1>1
  <2>2. QED
    BY <2>1 DEF Takes
<1>3. PICK c : c = <<x>> \o Move(it.ref, Payer, it.account, it.amount)
  OBVIOUS
<1>4. IsSeq(c) /\ Len(c) = 3 /\ Takes(c[1], it.ref) /\ Only(c, it.ref, 2)
  BY <1>2, <1>3, TakesThenMoves
<1>5. PICK n \in Nat, p \in 2 .. 5 : n = 3 /\ p = 2
  OBVIOUS
<1>6. Fresh(c) /\ PaysWithin(c, R)
  BY <1>4, <1>5, TakesFirst
<1>7. SettleOne(Payer, it) = c
  BY <1>1, <1>3 DEF SettleOne
<1>8. QED
  BY <1>4, <1>6, <1>7

\* Step 3j + 1 takes the ref of item j + 1, and the next one pays for it.
LEMMA SettleBatchOnce ==
  ASSUME StackOK, CallsPayOnce, chain = "evm", UNCHANGED <<chain, lists>>,
         NEW items \in Seq(Item), SettleBatch(items),
         \A j \in 1 .. Len(items) : items[j].ref \in Refs(lists)
  PROVE  CallsPayOnce'
<1>0. PICK n \in Nat : n = Len(items)
  OBVIOUS
<1>1. PICK R : n = Len(items) /\ R = Refs(lists)
  BY <1>0
<1>2. PICK c : c = [k \in 1 .. 3 * n |->
                      SettleOne(Payer, items[((k - 1) \div 3) + 1])[((k - 1) % 3) + 1]]
  OBVIOUS
<1>3. Call(Relayer, c)
  BY <1>1, <1>2 DEF SettleBatch
<1>4. Len(c) = 3 * n /\ 3 * n \in Nat
  <2>1. 3 * n \in Nat
    OBVIOUS
  <2>2. c = [k \in 1 .. 3 * n |-> c[k]]
    BY <1>2
  <2>3. QED
    BY <2>1, <2>2, Listed
<1>5. ASSUME NEW i \in 1 .. 3 * n, NEW ref, PaysFor(c[i], ref)
      PROVE  /\ ref \in R
             /\ \E k \in 1 .. i - 1 : Takes(c[k], ref) /\ \A j \in k .. i - 1 : ~PaysFor(c[j], ref)
  <2>1. PICK j, r : j = ((i - 1) \div 3) + 1 /\ r = ((i - 1) % 3) + 1
    OBVIOUS
  <2>2. j \in 1 .. n /\ r \in 1 .. 3 /\ i = 3 * (j - 1) + r
    BY <2>1
  <2>3. PICK it, d : it = items[j] /\ d = SettleOne(Payer, it)
    OBVIOUS
  <2>4. it \in Item /\ it.ref \in R
    BY <1>1, <2>2, <2>3
  <2>5. /\ Len(d) = 3 /\ Takes(d[1], it.ref) /\ Only(d, it.ref, 2) /\ PaysWithin(d, R)
    BY <2>3, <2>4, SettleOneOnce
  <2>6. c[i] = d[r]
    BY <1>2, <2>1, <2>3
  <2>7. ref = it.ref /\ r = 2
    BY <1>5, <2>2, <2>5, <2>6 DEF Only
  <2>8. PICK k \in 1 .. i - 1 : k = i - 1
    BY <2>2, <2>7
  <2>9. (k - 1) \div 3 = j - 1 /\ (k - 1) % 3 = 0 /\ k \in 1 .. 3 * n
    <3>1. PICK q \in Nat : q = j - 1 /\ k - 1 = 3 * q
      BY <2>2, <2>7, <2>8
    <3>2. (3 * q) \div 3 = q /\ (3 * q) % 3 = 0
      OBVIOUS
    <3>3. QED
      BY <2>8, <3>1, <3>2
  <2>10. c[k] = SettleOne(Payer, items[((k - 1) \div 3) + 1])[((k - 1) % 3) + 1]
    BY <1>2, <2>9
  <2>11. (j - 1) + 1 = j /\ 0 + 1 = 1
    BY <2>2
  <2>12. c[k] = d[1]
    BY <2>3, <2>9, <2>10, <2>11
  <2>13. ~PaysFor(c[k], ref)
    <3>1. 1 \in 1 .. 3 /\ 1 # 2
      OBVIOUS
    <3>2. QED
      BY <2>5, <2>12, <3>1 DEF Only
  <2>14. \A h \in k .. i - 1 : h = k
    BY <2>8
  <2>15. QED
    BY <2>4, <2>5, <2>7, <2>12, <2>13, <2>14
<1>6. Fresh(c) /\ PaysWithin(c, R)
  BY <1>4, <1>5 DEF Fresh, PaysWithin
<1>7. QED
  BY <1>1, <1>3, <1>4, <1>6, CallOnce

LEMMA HoldOnce ==
  ASSUME StackOK, CallsPayOnce, chain = "evm", UNCHANGED <<chain, lists>>,
         NEW it \in Item, it.ref \in Refs(lists), NEW due, Hold(it, due)
  PROVE  CallsPayOnce'
<1>1. PICK x, y, z : /\ x = [do |-> "reserve", ref |-> it.ref]
                     /\ y = [do |-> "measure"]
                     /\ z = [do |-> "record", hold |-> HoldOf(it, due)]
  OBVIOUS
<1>2. PICK a, b, d : a = <<x, y>> /\ b = Move(it.ref, Payer, Contract, it.amount) /\ d = <<z>>
  OBVIOUS
<1>3. /\ x.do = "reserve" /\ x.ref = it.ref /\ y.do = "measure"
      /\ z.do = "record" /\ z.hold.ref = it.ref
  BY <1>1 DEF HoldOf
<1>4. IsSeq(a) /\ Len(a) = 2 /\ a[1] = x /\ a[2] = y
  <2>1. <<x, y>> \in Seq({x, y})
    OBVIOUS
  <2>2. QED
    BY <1>2, <2>1 DEF IsSeq
<1>5. /\ IsSeq(b) /\ Len(b) = 2
      /\ b[1].do = "move" /\ b[1].to = Contract /\ b[2].do = "moved"
  BY <1>2, MoveIs
<1>6. PaysNone(b)
  <2>1. \A i \in 1 .. 2 : i = 1 \/ i = 2
    OBVIOUS
  <2>2. QED
    BY <1>5, <2>1 DEF PaysNone, PaysFor
<1>7. PICK p : p = 5
  OBVIOUS
<1>8. Only(a, it.ref, p)
  <2>1. \A i \in 1 .. 2 : i = 1 \/ i = 2
    OBVIOUS
  <2>2. QED
    BY <1>3, <1>4, <2>1 DEF Only, PaysFor
<1>9. PICK e : e = a \o b
  OBVIOUS
<1>10. IsSeq(e) /\ Only(e, it.ref, p) /\ e[1] = x
  BY <1>4, <1>5, <1>6, <1>8, <1>9, JoinedOnly
<1>11. Len(e) = 4
  <2>1. Len(e) = Len(a) + Len(b)
    BY <1>4, <1>5, <1>9, Joined
  <2>2. QED
    BY <1>4, <1>5, <2>1
<1>12. PICK c : c = e \o d
  OBVIOUS
<1>13. Len(c) = 5 /\ Takes(c[1], it.ref) /\ Only(c, it.ref, p)
  <2>1. IsSeq(d) /\ Len(d) = 1 /\ d[1] = z
    BY <1>2, Single
  <2>2. /\ Len(c) = Len(e) + Len(d)
        /\ \A i \in 1 .. Len(e) : c[i] = e[i]
        /\ \A i \in Len(e) + 1 .. Len(e) + Len(d) : c[i] = d[i - Len(e)]
    BY <1>10, <1>12, <2>1, Joined
  <2>3. Len(e) + 1 = 5 /\ Len(e) + Len(d) = 5
    BY <1>11, <2>1
  <2>4. /\ Len(c) = 5 /\ \A i \in 1 .. 4 : c[i] = e[i]
        /\ \A i \in 5 .. 5 : c[i] = d[i - 4]
    BY <1>11, <2>2, <2>3
  <2>5. 5 - 4 = 1 /\ 5 \in 5 .. 5 /\ 1 \in 1 .. 4 /\ \A i \in 1 .. 5 : i = 5 \/ i \in 1 .. 4
    OBVIOUS
  <2>6. c[5] = z /\ c[1] = x
    BY <1>10, <2>1, <2>4, <2>5
  <2>7. \A r : PaysFor(c[5], r) => r = it.ref
    BY <1>3, <2>6 DEF PaysFor
  <2>8. Only(c, it.ref, p)
    BY <1>7, <1>10, <1>11, <2>4, <2>5, <2>7 DEF Only
  <2>9. QED
    BY <1>3, <2>4, <2>6, <2>8 DEF Takes
<1>14. Call(Relayer, c)
  BY <1>1, <1>2, <1>9, <1>12 DEF Hold
<1>15. Fresh(c) /\ PaysWithin(c, Refs(lists)) /\ Len(c) \in Nat
  <2>1. PICK n \in Nat : n = Len(c)
    BY <1>13
  <2>2. p \in 2 .. 5
    BY <1>7
  <2>3. QED
    BY <1>13, <2>1, <2>2, TakesFirst
<1>16. QED
  BY <1>14, <1>15, CallOnce

\* What is in escrow is of a list.
LEMMA HeldIsListed ==
  ASSUME CallsPayOnce, chain = "evm", IsSeq(stack), NEW ref \in DOMAIN holds
  PROVE  ref \in Refs(lists)
<1>1. PICK n \in Nat : n = Len(stack)
  BY Pushed
<1>2. 1 \in 1 .. n + 1 /\ Reached(1) = Now
  BY DEF Reached
<1>3. Known(Now, Refs(lists))
  BY <1>1, <1>2 DEF CallsPayOnce, LevelOK
<1>4. QED
  BY <1>3 DEF Known, Now

LEMMA ReleaseOnce ==
  ASSUME StackOK, CallsPayOnce, chain = "evm", UNCHANGED <<chain, lists>>,
         NEW ref, Release(ref)
  PROVE  CallsPayOnce'
<1>0. ref \in Refs(lists)
  BY HeldIsListed DEF Release, StackOK
<1>1. PICK h, x : h = holds[ref] /\ x = [do |-> "drop", ref |-> ref]
  OBVIOUS
<1>2. PICK a, b : /\ a = <<x>> \o Move(ref, Contract, h.merchant, h.amount - h.fee)
                  /\ b = IF h.fee > 0 THEN Move(ref, Contract, Collector, h.fee) ELSE <<>>
  OBVIOUS
<1>3. Takes(x, ref)
  <2>1. x.do = "drop" /\ x.ref = ref
    BY <1>1
  <2>2. QED
    BY <2>1 DEF Takes
<1>4. PICK p \in 2 .. 5 : p = 2
  OBVIOUS
<1>5. IsSeq(a) /\ Len(a) = 3 /\ Takes(a[1], ref) /\ Only(a, ref, p)
  BY <1>2, <1>3, <1>4, TakesThenMoves
<1>6. IsSeq(b) /\ PaysNone(b)
  <2>1. CASE h.fee > 0
    <3>1. /\ IsSeq(b) /\ Len(b) = 2
          /\ b[1].do = "move" /\ b[1].to = Collector /\ b[2].do = "moved"
      BY <1>2, <2>1, MoveIs
    <3>2. \A i \in 1 .. 2 : i = 1 \/ i = 2
      OBVIOUS
    <3>3. QED
      BY <3>1, <3>2 DEF PaysNone, PaysFor
  <2>2. CASE ~(h.fee > 0)
    BY <1>2, <2>2, EmptyIsSeq DEF PaysNone
  <2>3. QED
    BY <2>1, <2>2
<1>7. PICK c : c = a \o b
  OBVIOUS
<1>8. Len(c) \in Nat /\ Only(c, ref, p) /\ Takes(c[1], ref)
  <2>1. IsSeq(a) /\ Only(a, ref, p) /\ Len(a) >= 1
    BY <1>5
  <2>2. Len(c) \in Nat /\ Only(c, ref, p) /\ c[1] = a[1]
    BY <1>6, <1>7, <2>1, JoinedOnly
  <2>3. QED
    BY <1>5, <2>2
<1>9. Fresh(c) /\ PaysWithin(c, Refs(lists))
  <2>1. PICK n \in Nat : n = Len(c)
    BY <1>8
  <2>2. QED
    BY <1>0, <1>8, <2>1, TakesFirst
<1>10. Call(Relayer, c)
  BY <1>1, <1>2, <1>7 DEF Release
<1>11. QED
  BY <1>8, <1>9, <1>10, CallOnce

LEMMA RefundOnce ==
  ASSUME StackOK, CallsPayOnce, chain = "evm", UNCHANGED <<chain, lists>>,
         NEW who, NEW ref, Refund(who, ref)
  PROVE  CallsPayOnce'
<1>0. ref \in Refs(lists)
  BY HeldIsListed DEF Refund, StackOK
<1>1. PICK h, x : h = holds[ref] /\ x = [do |-> "drop", ref |-> ref]
  OBVIOUS
<1>2. PICK c : c = <<x>> \o Move(ref, Contract, h.payer, h.amount)
  OBVIOUS
<1>3. Takes(x, ref)
  <2>1. x.do = "drop" /\ x.ref = ref
    BY <1>1
  <2>2. QED
    BY <2>1 DEF Takes
<1>4. PICK p \in 2 .. 5, n \in Nat : p = 2 /\ n = 3
  OBVIOUS
<1>5. n = Len(c) /\ Takes(c[1], ref) /\ Only(c, ref, p)
  BY <1>2, <1>3, <1>4, TakesThenMoves
<1>6. Fresh(c) /\ PaysWithin(c, Refs(lists))
  BY <1>0, <1>5, TakesFirst
<1>7. Call(who, c)
  BY <1>1, <1>2 DEF Refund
<1>8. QED
  BY <1>5, <1>6, <1>7, CallOnce

LEMMA OnEvmOnce ==
  ASSUME StackOK, CallsPayOnce, BatchesOK, FilesOK, chain = "evm", UNCHANGED <<chain, lists>>,
         NEW l \in DOMAIN lists, OnEvm(lists[l])
  PROVE  CallsPayOnce'
<1>1. PICK list : list = lists[l] /\ list.items \in Seq(Item) /\ list.batches \in Seq(Seq(Item))
  BY ListTyped DEF FilesOK
<1>2. \A i \in DOMAIN list.items : list.items[i].ref \in Refs(lists)
  BY <1>1, RefsAre
<1>3. ASSUME NEW k \in DOMAIN list.batches, SettleBatch(list.batches[k])
      PROVE  CallsPayOnce'
  <2>1. PICK items \in Seq(Item) : items = list.batches[k]
    BY <1>1, <1>3
  <2>2. ASSUME NEW j \in 1 .. Len(items)
        PROVE  items[j].ref \in Refs(lists)
    <3>1. j \in DOMAIN items
      BY <2>1
    <3>2. PICK i \in DOMAIN list.items : items[j] = list.items[i]
      BY <1>1, <1>3, <2>1, <3>1 DEF BatchesOK
    <3>3. QED
      BY <1>2, <3>2
  <2>3. SettleBatch(items)
    BY <1>3, <2>1
  <2>4. QED
    BY <2>2, <2>3, SettleBatchOnce
<1>4. ASSUME NEW i \in DOMAIN list.items,
             \/ Pay(list.items[i]) \/ Settle(list.items[i])
             \/ SettleWithPermit(list.items[i]) \/ \E due : Hold(list.items[i], due)
      PROVE  CallsPayOnce'
  <2>1. PICK it : it = list.items[i] /\ it \in Item /\ it.ref \in Refs(lists)
    BY <1>1, <1>2
  <2>2. CASE \E due : Hold(it, due)
    BY <2>1, <2>2, HoldOnce
  <2>3. CASE Pay(it) \/ Settle(it) \/ SettleWithPermit(it)
    <3>1. PICK who : Call(who, SettleOne(Payer, it))
      BY <2>3 DEF Pay, Settle, SettleWithPermit
    <3>2. PICK c : c = SettleOne(Payer, it)
      OBVIOUS
    <3>3. Len(c) = 3 /\ Fresh(c) /\ PaysWithin(c, Refs(lists))
      BY <2>1, <3>2, SettleOneOnce
    <3>4. Len(c) \in Nat /\ Call(who, c)
      BY <3>1, <3>2, <3>3
    <3>5. QED
      BY <3>3, <3>4, CallOnce
  <2>4. QED
    BY <1>4, <2>1, <2>2, <2>3
<1>5. QED
  BY <1>1, <1>3, <1>4 DEF OnEvm

LEMMA EvmStepOnce ==
  ASSUME StackOK, CallsPayOnce, chain = "evm", UNCHANGED <<chain, lists>>, EvmStep
  PROVE  CallsPayOnce'
<1>1. ASSUME NEW ref, Release(ref) PROVE CallsPayOnce'
  BY <1>1, ReleaseOnce
<1>2. ASSUME NEW who, NEW ref, Refund(who, ref) PROVE CallsPayOnce'
  BY <1>2, RefundOnce
<1>3. ASSUME NEW allowed, SetRelayer(allowed) PROVE CallsPayOnce'
  <2>1. Now' = Now /\ stack' = stack
    BY <1>3 DEF SetRelayer, Now
  <2>2. \A k : Reached(k)' = Reached(k)
    BY <2>1 DEF Reached
  <2>3. QED
    BY <2>1, <2>2 DEF CallsPayOnce
<1>4. CASE Reserve BY <1>4, ReserveOnce
<1>5. CASE Measure \/ Moved BY <1>5, QuietOnce
<1>6. CASE Transfer BY <1>6, TransferOnce
<1>7. CASE Record BY <1>7, RecordOnce
<1>8. CASE Drop BY <1>8, DropOnce
<1>9. CASE Leave BY <1>9, LeaveOnce
<1>10. CASE Revert BY <1>10, RevertOnce
<1>11. QED
  BY <1>1, <1>2, <1>3, <1>4, <1>5, <1>6, <1>7, <1>8, <1>9, <1>10 DEF EvmStep

\* A file more: nothing was paid for its refs.
LEMMA SubmitCalls ==
  ASSUME StackOK, CallsPayOnce, IdsOK, FilesOK, NEW policy, Submit(policy)
  PROVE  CallsPayOnce'
<1> SUFFICES ASSUME chain = "evm" PROVE CallsPayOnce'
  BY DEF Submit, CallsPayOnce
<1>1. stack = <<>> /\ UNCHANGED <<chain, stack, credits, paid, holds, bal>>
  BY DEF Submit, evmVars
<1>2. Len(stack) = 0 /\ Len(stack') = 0 /\ Now' = Now
  BY <1>1, EmptyIsSeq DEF Now
<1>3. 1 \in 1 .. 1 /\ Reached(1) = Now /\ Reached(1)' = Now
  BY <1>2 DEF Reached
<1>4. LevelOK(Now, stack, 1, Refs(lists))
  BY <1>2, <1>3 DEF CallsPayOnce
<1>5. LevelOK(Now, stack, 1, Refs(lists'))
  BY <1>4, SubmitIsNew DEF LevelOK, Known
<1>6. \A k \in 1 .. Len(stack') + 1 : LevelOK(Reached(k)', stack', k, Refs(lists'))
  <2>1. \A k \in 1 .. Len(stack') + 1 : k = 1
    BY <1>2
  <2>2. QED
    BY <1>1, <1>3, <1>5, <2>1
<1>7. \A k \in 1 .. Len(stack') : CodeOnce(stack'[k].code, Refs(lists'))
  BY <1>2
<1>8. QED
  BY <1>6, <1>7 DEF CallsPayOnce

-----------------------------------------------------------------------------
(* The three chains together.                                              *)

\* Who was paid how often, and out of what.
PaidInv == IdsOK /\ BatchesOK /\ RunsPayOnce /\ BooksPayOnce /\ CallsPayOnce

LEMMA IntakeStays ==
  ASSUME IdsOK, BatchesOK, UNCHANGED intakeVars
  PROVE  IdsOK' /\ BatchesOK'
BY DEF IdsOK, BatchesOK, intakeVars

LEMMA PaidStays ==
  ASSUME PaidInv, UNCHANGED <<bal, credits, runVars, evmVars, suiVars, intakeVars>>
  PROVE  PaidInv'
<1>1. IdsOK' /\ BatchesOK'
  BY IntakeStays DEF PaidInv
<1>2. UNCHANGED <<chain, lists, credits, runs, signed, books, escrows>>
  BY DEF runVars, suiVars, intakeVars
<1>3. CreditsOK(credits) => CreditsOK(credits)'
  BY <1>2 DEF CreditsOK, Counts
<1>4. RunsPayOnce' /\ BooksPayOnce'
  BY <1>2, <1>3 DEF PaidInv, RunsPayOnce, BooksPayOnce
<1>5. CallsPayOnce'
  <2>1. Now' = Now /\ stack' = stack
    BY DEF Now, evmVars
  <2>2. \A k : Reached(k)' = Reached(k)
    BY <2>1 DEF Reached
  <2>3. QED
    BY <1>2, <2>1, <2>2 DEF PaidInv, CallsPayOnce
<1>6. QED
  BY <1>1, <1>4, <1>5 DEF PaidInv

LEMMA PaidStep == PayoutInv /\ ListedInv /\ MoneyInv /\ PaidInv /\ [Next]_vars => PaidInv'
<1> SUFFICES ASSUME PayoutInv, ListedInv, MoneyInv, PaidInv, [Next]_vars PROVE PaidInv'
  OBVIOUS
<1>0. /\ StackOK /\ FilesOK /\ RunsSay /\ VaultsOK /\ ObjectsOK
      /\ IdsOK /\ BatchesOK /\ RunsPayOnce /\ BooksPayOnce /\ CallsPayOnce
  BY DEF PayoutInv, ListedInv, MoneyInv, PaidInv
<1>1. ASSUME NEW policy, Submit(policy)
      PROVE  PaidInv'
  BY <1>0, <1>1, SubmitKeepsIds, SubmitKeepsBatches, SubmitRuns, SubmitBooks, SubmitCalls DEF PaidInv
<1>2. CASE /\ chain = "solana"
           /\ \/ \E l \in DOMAIN lists : OnSolana(lists[l])
              \/ \E m \in Merchants : CloseAccount(m)
           /\ UNCHANGED <<evmVars, suiVars, intakeVars>>
  <2>1. UNCHANGED intakeVars /\ UNCHANGED <<chain, lists>> /\ chain' = "solana"
    BY <1>2 DEF intakeVars
  <2>2. IdsOK' /\ BatchesOK' /\ BooksPayOnce' /\ CallsPayOnce'
    BY <1>0, <2>1, IntakeStays DEF BooksPayOnce, CallsPayOnce
  <2>3. ASSUME NEW l \in DOMAIN lists, OnSolana(lists[l]) PROVE RunsPayOnce'
    BY <1>0, <1>2, <2>1, <2>3, SolanaOnce
  <2>4. ASSUME NEW m, CloseAccount(m) PROVE RunsPayOnce'
    <3>1. UNCHANGED <<credits, runs, signed>>
      BY <2>4 DEF CloseAccount
    <3>2. CreditsOK(credits)' <=> CreditsOK(credits)
      BY <2>1, <3>1 DEF CreditsOK, Counts
    <3>3. QED
      BY <1>0, <2>1, <3>1, <3>2 DEF RunsPayOnce
  <2>5. QED
    BY <1>2, <2>2, <2>3, <2>4 DEF PaidInv
<1>3. CASE /\ chain = "evm"
           /\ \/ \E l \in DOMAIN lists : OnEvm(lists[l])
              \/ EvmStep
           /\ UNCHANGED <<runVars, suiVars, intakeVars>>
  <2>1. UNCHANGED intakeVars /\ UNCHANGED <<chain, lists>> /\ chain' = "evm"
    BY <1>3 DEF intakeVars
  <2>2. IdsOK' /\ BatchesOK' /\ RunsPayOnce' /\ BooksPayOnce'
    BY <1>0, <2>1, IntakeStays DEF RunsPayOnce, BooksPayOnce
  <2>3. ASSUME NEW l \in DOMAIN lists, OnEvm(lists[l]) PROVE CallsPayOnce'
    BY <1>0, <1>3, <2>1, <2>3, OnEvmOnce
  <2>4. ASSUME EvmStep PROVE CallsPayOnce'
    BY <1>0, <1>3, <2>1, <2>4, EvmStepOnce
  <2>5. QED
    BY <1>3, <2>2, <2>3, <2>4 DEF PaidInv
<1>4. CASE /\ chain = "sui"
           /\ \/ \E l \in DOMAIN lists : OnSui(lists[l])
              \/ SuiEscrow \/ Sui!OpenBook
           /\ UNCHANGED <<runVars, evmVars, intakeVars>>
  <2>1. UNCHANGED intakeVars /\ UNCHANGED <<chain, lists>> /\ chain' = "sui"
    BY <1>4 DEF intakeVars
  <2>2. IdsOK' /\ BatchesOK' /\ RunsPayOnce' /\ CallsPayOnce'
    BY <1>0, <2>1, IntakeStays DEF RunsPayOnce, CallsPayOnce
  <2>3. ASSUME NEW l \in DOMAIN lists, OnSui(lists[l]) PROVE BooksPayOnce'
    BY <1>0, <1>4, <2>1, <2>3, SuiOnce
  <2>4. ASSUME SuiEscrow PROVE BooksPayOnce'
    BY <1>0, <1>4, <2>1, <2>4, EscrowOnce
  <2>5. ASSUME Sui!OpenBook PROVE BooksPayOnce'
    BY <1>0, <1>4, <2>1, <2>5, OpenBookOnce
  <2>6. QED
    BY <1>4, <2>2, <2>3, <2>4, <2>5 DEF PaidInv
<1>5. CASE Tick \/ UNCHANGED vars
  <2>1. UNCHANGED <<bal, credits, runVars, evmVars, suiVars, intakeVars>>
    BY <1>5 DEF Tick, vars
  <2>2. QED
    BY <2>1, PaidStays
<1>6. QED
  BY <1>1, <1>2, <1>3, <1>4, <1>5 DEF Next

LEMMA PaidInitially == Init => PaidInv
<1> SUFFICES ASSUME Init PROVE PaidInv
  OBVIOUS
<1>1. /\ file \in Files /\ lists = <<>> /\ credits = <<>> /\ stack = <<>> /\ holds = <<>>
      /\ signed = <<>> /\ escrows = <<>> /\ Len(stack) = 0
  BY EmptyIsSeq DEF Init
<1>2. Refs(lists) = {}
  BY <1>1 DEF Refs
<1>3. Counts(credits) /\ DOMAIN credits = {}
  BY <1>1, FS_EmptySet DEF Counts
<1>4. CreditsOK(credits)
  BY <1>3 DEF CreditsOK
<1>5. IdsOK /\ BatchesOK
  <2>1. \A n, k \in DOMAIN file :
          Unreadable(file[n]) /\ ~Unreadable(file[k]) => file[n].id # file[k].id
    BY <1>1, UnreadableIdsAreNew DEF Unreadable
  <2>2. QED
    BY <1>1, <1>2, <2>1 DEF IdsOK, BatchesOK
<1>6. RunsPayOnce /\ BooksPayOnce
  BY <1>1, <1>2, <1>4 DEF RunsPayOnce, BooksPayOnce
<1>7. CallsPayOnce
  <2>1. Known(Now, Refs(lists))
    BY <1>1, <1>3 DEF Known, Now
  <2>2. ASSUME NEW ref
        PROVE  RefOK(Now, stack, 1, ref)
    <3>1. SentTo(credits, ref) = 0
      BY <1>3, NoneSent
    <3>2. Claimants(stack, 1, ref) = {}
      BY <1>1 DEF Claimants
    <3>3. Now.credits = credits /\ ref \notin DOMAIN Now.holds
      BY <1>1 DEF Now
    <3>7. PICK n \in Nat : n = 0 /\ n = SentTo(Now.credits, ref)
      BY <3>1, <3>3
    <3>4. PICK C : C = {} /\ C = Claimants(stack, 1, ref)
      BY <3>2
    <3>5. OneOf(n, ref \in Now.paid, ref \in DOMAIN Now.holds, C)
      BY <3>3, <3>4, <3>7 DEF OneOf
    <3>6. QED
      BY <3>4, <3>5, <3>7 DEF RefOK
  <2>3. LevelOK(Now, stack, 1, Refs(lists))
    BY <2>1, <2>2 DEF LevelOK
  <2>4. Reached(1) = Now /\ \A k \in 1 .. 0 + 1 : k = 1
    BY DEF Reached
  <2>5. QED
    BY <1>1, <2>3, <2>4 DEF CallsPayOnce
<1>8. QED
  BY <1>5, <1>6, <1>7 DEF PaidInv

LEMMA PaidInvHolds == Spec => []PaidInv
<1>1. Spec => []ListedInv
  BY ListedInitially, ListedStep, PayoutInvHolds, PTL DEF Spec
<1>2. QED
  BY <1>1, PaidInitially, PaidStep, MoneyInvHolds, PayoutInvHolds, PTL DEF Spec

\* What is sent for an id is sent for its one ref.
LEMMA SentIs ==
  ASSUME IdsOK, CreditsOK(credits), NEW ref \in Refs(lists)
  PROVE  Sent(ref.id) = SentTo(credits, ref)
<1>1. PICK id, S : id = ref.id /\ S = {key \in DOMAIN credits : key[1].id = id}
  OBVIOUS
<1>2. \A other \in Refs(lists) : other.id = ref.id => other = ref
  BY RefsAre DEF IdsOK
<1>3. S = Sendings(credits, ref)
  BY <1>1, <1>2 DEF CreditsOK, Sendings
<1>4. MapThenSumSet(LAMBDA key : credits[key], S) = SumFunctionOnSet(credits, S)
  BY SumIs
<1>5. Sent(id) = MapThenSumSet(LAMBDA key : credits[key], S)
  BY <1>1 DEF Sent
<1>6. QED
  BY <1>1, <1>3, <1>4, <1>5 DEF SentTo

\* IntentPaidOnce: for any file, policy, block size and list of merchants,
\* and in whatever order the contracts are called, an intent is paid at most
\* once on an EVM chain, once for each time the payer signed its list on
\* Solana, and once for each Book he opened on Sui.  (check() remembering the
\* ids it has seen and Returned leaving the duplicates out, the bitmap that
\* pay_batch sets as it pays, _reserve before every transfer and the record
\* deleted before release() and refund() pay, also when the payer calls back
\* in from inside a transfer, and Move's reserve.)
THEOREM IntentPaidOnceHolds == Spec => []IntentPaidOnce
<1>1. PayoutInv /\ MoneyInv /\ PaidInv => IntentPaidOnce
  <2> SUFFICES ASSUME PayoutInv, MoneyInv, PaidInv,
                      NEW key \in DOMAIN credits
               PROVE  \E l \in DOMAIN lists :
                        /\ Holds(lists[l], key[1].id)
                        /\ Sent(key[1].id) <= Allowed(lists[l])
    BY DEF IntentPaidOnce
  <2>0. /\ FilesOK /\ ObjectsOK /\ StackOK
        /\ IdsOK /\ RunsPayOnce /\ BooksPayOnce /\ CallsPayOnce
    BY DEF PayoutInv, MoneyInv, PaidInv
  <2>1. PICK ref : ref = key[1]
    OBVIOUS
  <2>2. (Known(Now, Refs(lists)) /\ RefOK(Now, stack, 1, ref)) \/ chain # "evm"
    <3>1. SUFFICES ASSUME chain = "evm" PROVE Known(Now, Refs(lists)) /\ RefOK(Now, stack, 1, ref)
      OBVIOUS
    <3>2. PICK n \in Nat : n = Len(stack)
      BY <2>0, Pushed DEF StackOK
    <3>3. 1 \in 1 .. n + 1 /\ Reached(1) = Now
      BY DEF Reached
    <3>4. QED
      BY <2>0, <3>1, <3>2, <3>3 DEF CallsPayOnce, LevelOK
  <2>3. CreditsOK(credits)
    <3>1. CASE chain = "evm"
      BY <2>2, <3>1 DEF Known, CreditsOK, Now
    <3>2. CASE chain # "evm"
      BY <2>0, <3>2 DEF FilesOK, RunsPayOnce, BooksPayOnce
    <3>3. QED
      BY <3>1, <3>2
  <2>4. ref \in Refs(lists)
    BY <2>1, <2>3 DEF CreditsOK
  <2>5. PICK l \in DOMAIN lists : \E i \in DOMAIN lists[l].items : ref = lists[l].items[i].ref
    BY <2>4, RefsAre
  <2>6. PICK i \in DOMAIN lists[l].items : ref = lists[l].items[i].ref
    BY <2>5
  <2>7. Holds(lists[l], ref.id)
    BY <2>6 DEF Holds
  <2>8. Sent(ref.id) = SentTo(credits, ref)
    BY <2>0, <2>3, <2>4, SentIs
  <2>9. SentTo(credits, ref) <= Allowed(lists[l])
    <3>1. CASE chain = "evm"
      <4>1. SentTo(Now.credits, ref) <= 1
        BY <2>2, <3>1 DEF RefOK, OneOf
      <4>2. QED
        BY <3>1, <4>1 DEF Allowed, Now
    <3>2. CASE chain = "solana"
      <4>1. SentTo(credits, ref) <= Count(signed, lists[l].root)
        BY <2>0, <2>6, <3>2 DEF RunsPayOnce, RowOK
      <4>2. QED
        BY <3>2, <4>1 DEF Allowed
    <3>3. CASE chain = "sui"
      <4>1. IsSeq(books)
        BY <2>0, <3>3 DEF ObjectsOK
      <4>2. PICK s, n, m : s = SentTo(credits, ref) /\ n = InBooks(books, escrows, ref) /\ m = Len(books)
        OBVIOUS
      <4>3. s \in Nat /\ n \in Nat /\ m \in Nat
        BY <2>3, <4>1, <4>2, SentNat, SpentAdds, Pushed DEF CreditsOK
      <4>4. s <= n /\ n <= m
        BY <2>0, <2>4, <3>3, <4>1, <4>2, BooksBound DEF BooksPayOnce
      <4>5. s <= m
        BY <4>3, <4>4
      <4>6. QED
        BY <3>3, <4>2, <4>5 DEF Allowed
    <3>4. QED
      BY <2>0, <3>1, <3>2, <3>3 DEF FilesOK
  <2>10. QED
    BY <2>1, <2>7, <2>8, <2>9
<1>2. QED
  BY <1>1, PaidInvHolds, MoneyInvHolds, PayoutInvHolds, PTL

-----------------------------------------------------------------------------
(* Which lines of the file are still to be paid.                           *)

\* Two pieces of a sequence that follow one another.
LEMMA Pieces ==
  ASSUME NEW S, NEW s \in Seq(S), NEW a \in Nat, NEW b \in Nat, a <= b, b <= Len(s)
  PROVE  SubSeq(s, 1, a) \o SubSeq(s, a + 1, b) = SubSeq(s, 1, b)
OBVIOUS

\* Joining the first k blocks of c items gives the first k * c items.
LEMMA FirstBlocks ==
  ASSUME NEW S, NEW items \in Seq(S), NEW c \in Nat, NEW k \in Nat, k * c <= Len(items),
         NEW s, s = [i \in 1 .. k |-> SubSeq(items, (i - 1) * c + 1, i * c)]
  PROVE  FlattenSeq(s) = SubSeq(items, 1, k * c)
<1> DEFINE Q(f) == f = [i \in 1 .. Len(s) |-> IF i = 1 THEN s[i] ELSE f[i - 1] \o s[i]]
           it == CHOOSE f : Q(f)
<1>1. Len(s) = k
  BY Listed
<1>2. CASE k = 0
  <2>1. s = <<>>
    BY <1>2
  <2>2. SubSeq(items, 1, 0) = <<>>
    OBVIOUS
  <2>3. k * c = 0
    BY <1>2
  <2>4. QED
    BY <1>1, <1>2, <2>1, <2>2, <2>3 DEF FlattenSeq
<1>3. CASE k # 0
  <2>1. FlattenSeq(s) = it[k]
    BY <1>1, <1>3 DEF FlattenSeq
  <2>2. PICK n \in Nat : n = Len(items)
    OBVIOUS
  <2>3. PICK f : f = [i \in 1 .. k |-> SubSeq(items, 1, i * c)]
    OBVIOUS
  <2>4. \A i \in 1 .. k : s[i] = SubSeq(items, (i - 1) * c + 1, i * c) /\ f[i] = SubSeq(items, 1, i * c)
    BY <2>3
  <2>5. ASSUME NEW i \in 2 .. k
        PROVE  SubSeq(items, 1, (i - 1) * c) \o s[i] = SubSeq(items, 1, i * c)
    <3>1. PICK a \in Nat : a = (i - 1) * c /\ i * c = a + c
      <4>1. i - 1 \in Nat /\ i * c = (i - 1) * c + c
        OBVIOUS
      <4>2. \A m \in Nat : m * c \in Nat
        OBVIOUS
      <4>3. QED
        BY <4>1, <4>2
    <3>2. a + c <= Len(items)
      <4>1. PICK d \in Nat : k = i + d
        <5>1. k - i \in Nat /\ k = i + (k - i)
          OBVIOUS
        <5>2. QED
          BY <5>1
      <4>2. k * c = i * c + d * c /\ d * c \in Nat
        BY <4>1
      <4>3. PICK x \in Nat, y \in Int, z \in Int : x = d * c /\ y = i * c /\ z = k * c
        BY <4>2
      <4>4. z = y + x /\ y = a + c /\ z <= n
        BY <2>2, <3>1, <4>2, <4>3
      <4>5. QED
        BY <2>2, <4>4
    <3>3. PICK b \in Nat : b = a + c
      OBVIOUS
    <3>4. SubSeq(items, 1, a) \o SubSeq(items, a + 1, b) = SubSeq(items, 1, b)
      <4>1. a <= b /\ b <= Len(items)
        BY <3>2, <3>3
      <4>2. QED
        BY <4>1, Pieces
    <3>5. s[i] = SubSeq(items, a + 1, b)
      BY <2>4, <3>1, <3>3
    <3>6. QED
      BY <3>1, <3>3, <3>4, <3>5
  <2>6. s[1] = SubSeq(items, 1, 1 * c)
    <3>1. s[1] = SubSeq(items, (1 - 1) * c + 1, 1 * c)
      BY <1>3, <2>4
    <3>2. (1 - 1) * c + 1 = 1
      OBVIOUS
    <3>3. QED
      BY <3>1, <3>2
  <2>7. \E g : Q(g)
    <3>1. \A i \in 1 .. k : f[i] = IF i = 1 THEN s[i] ELSE f[i - 1] \o s[i]
      <4>1. TAKE i \in 1 .. k
      <4>2. CASE i = 1
        BY <2>4, <2>6, <4>2
      <4>3. CASE i # 1
        <5>1. i \in 2 .. k /\ i - 1 \in 1 .. k
          BY <4>3
        <5>2. f[i - 1] = SubSeq(items, 1, (i - 1) * c) /\ f[i] = SubSeq(items, 1, i * c)
          BY <2>4, <5>1
        <5>3. QED
          BY <2>5, <4>3, <5>1, <5>2
      <4>4. QED
        BY <4>2, <4>3
    <3>2. f = [i \in 1 .. k |-> f[i]]
      BY <2>3
    <3>3. f = [i \in 1 .. k |-> IF i = 1 THEN s[i] ELSE f[i - 1] \o s[i]]
      BY <3>1, <3>2
    <3>4. Q(f)
      BY <1>1, <3>3
    <3> HIDE DEF Q
    <3>5. QED
      BY <3>4
  <2>8. Q(it)
    <3> HIDE DEF Q
    <3>1. QED
      BY <2>7
  <2> HIDE DEF it
  <2>9. \A i \in 1 .. k : it[i] = IF i = 1 THEN s[i] ELSE it[i - 1] \o s[i]
    BY <1>1, <2>8
  <2> DEFINE D == {i \in 0 .. k - 1 : it[i + 1] = SubSeq(items, 1, (i + 1) * c)}
  <2>10. 0 \in D
    <3>1. it[1] = s[1]
      BY <1>3, <2>9
    <3>2. PICK j : j = 1 /\ j = 0 + 1
      OBVIOUS
    <3>3. it[j] = SubSeq(items, 1, j * c)
      BY <2>6, <3>1, <3>2
    <3>4. it[0 + 1] = SubSeq(items, 1, (0 + 1) * c)
      BY <3>2, <3>3
    <3>5. 0 \in 0 .. k - 1
      BY <1>3
    <3>6. QED
      BY <3>4, <3>5
  <2>11. ASSUME NEW i \in 0 .. (k - 1) - 1, i \in D
         PROVE  i + 1 \in D
    <3>1. PICK j \in 2 .. k : j = i + 2 /\ j - 1 = i + 1 /\ j = (i + 1) + 1
      OBVIOUS
    <3>2. it[j - 1] = SubSeq(items, 1, (j - 1) * c)
      BY <2>11, <3>1
    <3>3. it[j] = it[j - 1] \o s[j]
      <4>1. j \in 1 .. k /\ j # 1
        OBVIOUS
      <4>2. QED
        BY <2>9, <4>1
    <3>4. it[j] = SubSeq(items, 1, j * c)
      BY <2>5, <3>2, <3>3
    <3>5. QED
      BY <3>1, <3>4
  <2>12. k - 1 \in D
    <3>1. PICK l \in Nat : l = k - 1
      BY <1>3
    <3> HIDE DEF D
    <3>2. \A i \in 0 .. l : i \in D
      BY <2>10, <2>11, <3>1, UpTo
    <3>3. QED
      BY <3>1, <3>2
  <2>13. it[k] = SubSeq(items, 1, k * c)
    <3>1. (k - 1) + 1 = k
      OBVIOUS
    <3>2. QED
      BY <2>12, <3>1
  <2>14. QED
    BY <2>1, <2>13
<1>4. QED
  BY <1>2, <1>3

\* k blocks of c are needed for n items exactly when k - 1 are too few.
LEMMA BlocksNeeded ==
  ASSUME NEW n \in Nat, NEW c \in Nat \ {0}
  PROVE  /\ (n + c - 1) \div c \in Nat
         /\ \A k \in Nat \ {0} : k <= (n + c - 1) \div c <=> (k - 1) * c < n
<1>1. PICK a \in Nat : a = n + c - 1
  OBVIOUS
<1>2. PICK q \in Nat : q = a \div c /\ q * c <= a /\ a < q * c + c
  <2>1. a \div c \in Nat
    OBVIOUS
  <2>2. (a \div c) * c <= a /\ a < (a \div c) * c + c
    OBVIOUS
  <2>3. QED
    BY <2>1, <2>2
<1>3. ASSUME NEW k \in Nat \ {0}
      PROVE  k <= q <=> (k - 1) * c < n
  <2>1. PICK x \in Nat, y \in Nat : x = (k - 1) * c /\ y = q * c
    <3>1. k - 1 \in Nat /\ \A m \in Nat : m * c \in Nat
      OBVIOUS
    <3>2. QED
      BY <3>1
  <2>2. CASE k <= q
    <3>1. PICK d \in Nat : q = (k - 1) + 1 + d
      <4>1. q - k \in Nat /\ q = (k - 1) + 1 + (q - k)
        BY <2>2
      <4>2. QED
        BY <4>1
    <3>2. q * c = (k - 1) * c + c + d * c /\ d * c \in Nat
      BY <3>1
    <3>3. PICK z \in Nat : y = x + c + z
      BY <2>1, <3>2
    <3>4. x < n
      BY <1>1, <1>2, <2>1, <3>3
    <3>5. QED
      BY <2>1, <2>2, <3>4
  <2>3. CASE ~(k <= q)
    <3>1. PICK d \in Nat : k - 1 = q + d
      <4>1. k - 1 - q \in Nat /\ k - 1 = q + (k - 1 - q)
        BY <2>3
      <4>2. QED
        BY <4>1
    <3>2. (k - 1) * c = q * c + d * c /\ d * c \in Nat
      BY <3>1
    <3>3. PICK z \in Nat : x = y + z
      BY <2>1, <3>2
    <3>4. ~(x < n)
      BY <1>1, <1>2, <2>1, <3>3
    <3>5. QED
      BY <2>1, <2>3, <3>4
  <2>4. QED
    BY <2>2, <2>3
<1>4. QED
  BY <1>1, <1>2, <1>3

\* The batches of a list are its blocks, and each item has its line.
CutOK(list) ==
  /\ list.batches = PackAligned(list.items, Block)
  /\ list.lines \in Seq(Nat) /\ Len(list.lines) = Len(list.items)

\* What Trace reads off for batch k are the lines of block k - 1.
LEMMA TraceIs ==
  ASSUME NEW list, list.items \in Seq(FairItem), CutOK(list),
         NEW n \in Nat, n = Len(list.items), NEW k
  PROVE  /\ k \in DOMAIN list.batches <=> k \in Nat \ {0} /\ (k - 1) * Block < n
         /\ k \in DOMAIN list.batches =>
              ToSet(Trace(list, k)) = {list.lines[j] : j \in {j \in 1 .. n : (k - 1) * Block < j /\ j <= k * Block}}
<1>1. PICK items, lines, batches : /\ items = list.items /\ lines = list.lines /\ batches = list.batches
  OBVIOUS
<1>2. PICK c \in Nat \ {0} : c = Block
  BY BlockTyped
<1>3. PICK S : S = FairItem
  OBVIOUS
<1>4. items \in Seq(S) /\ lines \in Seq(Nat) /\ Len(items) = n /\ Len(lines) = n /\ Len(list.items) = n
  BY <1>1, <1>3 DEF CutOK
<1>5. PICK q \in Nat : q = (n + c - 1) \div c /\ \A m \in Nat \ {0} : m <= q <=> (m - 1) * c < n
  BY BlocksNeeded
<1>6. batches = [m \in 1 .. q |-> SubSeq(items, (m - 1) * c + 1, IF m * c > n THEN n ELSE m * c)]
  BY <1>1, <1>2, <1>4, <1>5 DEF CutOK, PackAligned
<1>7. k \in DOMAIN list.batches <=> k \in Nat \ {0} /\ (k - 1) * Block < n
  <2>1. DOMAIN batches = 1 .. q
    BY <1>6
  <2>2. k \in 1 .. q <=> k \in Nat \ {0} /\ k <= q
    OBVIOUS
  <2>3. k \in Nat \ {0} => (k <= q <=> (k - 1) * c < n)
    BY <1>5
  <2>4. QED
    BY <1>1, <1>2, <2>1, <2>2, <2>3
<1>8. ASSUME k \in 1 .. q
      PROVE  ToSet(Trace(list, k)) = {lines[j] : j \in {j \in 1 .. n : (k - 1) * c < j /\ j <= k * c}}
  <2>1. PICK h \in Nat : h = k - 1 /\ k = h + 1
    BY <1>8
  <2>2. PICK p \in Nat : p = h * c /\ p = (k - 1) * c /\ k * c = p + c /\ p < n
    <3>1. h * c \in Nat /\ (h + 1) * c = h * c + c
      OBVIOUS
    <3>2. (k - 1) * c < n
      <4>1. k \in Nat \ {0} /\ k <= q
        BY <1>8
      <4>2. QED
        BY <1>5, <4>1
    <3>3. QED
      BY <2>1, <3>1, <3>2
  <2>3. PICK e \in Nat : e = (IF p + c > n THEN n ELSE p + c) /\ p < e /\ e <= n
    BY <2>2
  <2>4. batches[k] = SubSeq(items, p + 1, e) /\ Len(batches[k]) = e - p
    <3>1. batches[k] = SubSeq(items, p + 1, e)
      BY <1>6, <1>8, <2>2, <2>3
    <3>2. Len(SubSeq(items, p + 1, e)) = e - p
      BY <1>4, <2>3
    <3>3. QED
      BY <3>1, <3>2
  <2>5. PICK s : s = [m \in 1 .. h |-> SubSeq(items, (m - 1) * c + 1, m * c)]
    OBVIOUS
  <2>6. SubSeq(batches, 1, h) = s
    <3>1. \A m \in 1 .. h : batches[m] = s[m]
      <4>1. TAKE m \in 1 .. h
      <4>2. m \in 1 .. q
        BY <1>8, <2>1
      <4>3. m * c <= n
        <5>1. m + 1 \in Nat \ {0} /\ m + 1 <= q /\ (m + 1) - 1 = m
          BY <1>8, <2>1
        <5>2. ((m + 1) - 1) * c < n
          BY <1>5, <5>1
        <5>3. PICK x \in Int : x = m * c /\ x < n
          BY <5>1, <5>2
        <5>4. QED
          BY <5>3
      <4>4. ~(m * c > n)
        BY <4>3
      <4>5. batches[m] = SubSeq(items, (m - 1) * c + 1, IF m * c > n THEN n ELSE m * c)
        BY <1>6, <4>2
      <4>6. s[m] = SubSeq(items, (m - 1) * c + 1, m * c)
        BY <2>5
      <4>7. QED
        BY <4>4, <4>5, <4>6
    <3>2. PICK T : T = {batches[m] : m \in 1 .. q}
      OBVIOUS
    <3>3. batches \in Seq(T) /\ Len(batches) = q
      <4>1. PICK f : f = batches
        OBVIOUS
      <4>2. f = [m \in 1 .. q |-> f[m]]
        BY <1>6, <4>1
      <4>3. \A m \in 1 .. q : f[m] \in T
        BY <3>2, <4>1
      <4>4. Len(f) = q
        BY <4>2, Listed
      <4>5. f \in [1 .. q -> T]
        BY <4>2, <4>3
      <4>6. QED
        BY <4>1, <4>4, <4>5
    <3>4. h <= Len(batches)
      BY <1>8, <2>1, <3>3
    <3>5. SubSeq(batches, 1, h) = [m \in 1 .. h |-> batches[m]]
      BY <3>3, <3>4
    <3>6. s = [m \in 1 .. h |-> s[m]]
      BY <2>5
    <3>7. QED
      BY <3>1, <3>5, <3>6
  <2>7. FlattenSeq(s) = SubSeq(items, 1, p)
    <3>1. h * c <= Len(items)
      BY <1>4, <2>2
    <3>2. c \in Nat /\ h \in Nat /\ items \in Seq(S)
      BY <1>4
    <3>3. FlattenSeq(s) = SubSeq(items, 1, h * c)
      BY <2>5, <3>1, <3>2, FirstBlocks
    <3>4. QED
      BY <2>2, <3>3
  <2>8. Len(FlattenSeq(SubSeq(batches, 1, k - 1))) = p
    <3>1. Len(SubSeq(items, 1, p)) = p
      BY <1>4, <2>2
    <3>2. QED
      BY <2>1, <2>6, <2>7, <3>1
  <2>9. Trace(list, k) = SubSeq(lines, p + 1, e)
    <3>1. Trace(list, k) = SubSeq(lines, p + 1, p + Len(batches[k]))
      BY <1>1, <2>8 DEF Trace
    <3>2. p + (e - p) = e
      OBVIOUS
    <3>3. QED
      BY <2>4, <3>1, <3>2
  <2>10. PICK t : t = SubSeq(lines, p + 1, e)
    OBVIOUS
  <2>11. DOMAIN t = 1 .. e - p /\ \A i \in 1 .. e - p : t[i] = lines[p + i]
    BY <1>4, <2>3, <2>10
  <2>12. ToSet(t) = {lines[j] : j \in p + 1 .. e}
    <3>1. ASSUME NEW i \in DOMAIN t
          PROVE  \E j \in p + 1 .. e : t[i] = lines[j]
      <4>1. p + i \in p + 1 .. e
        BY <2>3, <2>11
      <4>2. QED
        BY <2>11, <4>1
    <3>2. ASSUME NEW j \in p + 1 .. e
          PROVE  \E i \in DOMAIN t : lines[j] = t[i]
      <4>1. j - p \in 1 .. e - p /\ p + (j - p) = j
        BY <2>3
      <4>2. QED
        BY <2>11, <4>1
    <3>3. ToSet(t) = {t[i] : i \in DOMAIN t}
      BY DEF ToSet
    <3>4. QED
      BY <3>1, <3>2, <3>3
  <2>13. {j \in 1 .. n : (k - 1) * c < j /\ j <= k * c} = p + 1 .. e
    <3>1. \A j \in Int : j \in 1 .. n /\ p < j /\ j <= p + c <=> j \in p + 1 .. e
      BY <2>3
    <3>2. {j \in 1 .. n : p < j /\ j <= p + c} = p + 1 .. e
      BY <3>1
    <3>3. QED
      BY <2>2, <3>2
  <2>14. QED
    BY <2>9, <2>10, <2>12, <2>13
<1>9. QED
  BY <1>1, <1>2, <1>6, <1>7, <1>8

\* The bits of a run of n leaves are those of whole blocks.
Whole(bits, n) ==
  \A b \in Nat : \A i \in b * Block .. b * Block + Block - 1 :
    i < n => (i \in bits <=> b * Block \in bits)

WholeOK ==
  /\ chain # "solana" => DOMAIN runs = {}
  /\ chain = "solana" =>
       /\ \A l \in DOMAIN lists : CutOK(lists[l])
       /\ \A root \in DOMAIN runs : Whole(runs[root].bits, runs[root].leaves)

\* Two blocks are the same or apart.
LEMMA BlocksApart ==
  ASSUME NEW b \in Nat, NEW d \in Nat, b # d, NEW c \in Nat, NEW i \in b * c .. b * c + c - 1
  PROVE  i \notin d * c .. d * c + c - 1
<1>1. PICK x \in Nat, y \in Nat : x = b * c /\ y = d * c
  <2>1. \A m \in Nat : m * c \in Nat
    OBVIOUS
  <2>2. QED
    BY <2>1
<1>2. ASSUME NEW m \in Nat, NEW k \in Nat, m < k
      PROVE  m * c + c <= k * c
  <2>1. PICK r \in Nat : k = m + 1 + r
    <3>1. k - m - 1 \in Nat /\ k = m + 1 + (k - m - 1)
      BY <1>2
    <3>2. QED
      BY <3>1
  <2>2. k * c = m * c + c + r * c /\ r * c \in Nat /\ m * c \in Nat
    BY <2>1
  <2>3. PICK u \in Nat, v \in Nat : u = r * c /\ v = m * c
    BY <2>2
  <2>4. k * c = v + c + u
    BY <2>2, <2>3
  <2>5. QED
    BY <2>3, <2>4
<1>3. CASE b < d
  <2>1. x + c <= y
    BY <1>1, <1>2, <1>3
  <2>2. QED
    BY <1>1, <2>1
<1>4. CASE d < b
  <2>1. y + c <= x
    BY <1>1, <1>2, <1>4
  <2>2. QED
    BY <1>1, <2>1
<1>5. QED
  BY <1>3, <1>4

\* A block more.
LEMMA WholeGrows ==
  ASSUME NEW bits, NEW n \in Nat, Whole(bits, n), NEW b \in Nat, NEW k \in Nat,
         k = BlockSize(n, b), b * Block < n
  PROVE  Whole(bits \cup LeavesOf(b, k), n)
<1>1. PICK c \in Nat \ {0} : c = Block
  BY BlockTyped
<1>2. PICK p \in Nat : p = b * c /\ p < n /\ (b + 1) * c = p + c
  <2>1. b * c \in Nat /\ (b + 1) * c = b * c + c
    OBVIOUS
  <2>2. QED
    BY <1>1, <2>1
<1>3. k = (IF p + c <= n THEN c ELSE n - p) /\ LeavesOf(b, k) = p .. p + k - 1
  BY <1>1, <1>2 DEF BlockSize, LeavesOf
<1>4. ASSUME NEW d \in Nat, NEW i \in d * c .. d * c + c - 1, i < n
      PROVE  i \in bits \cup (p .. p + k - 1) <=> d * c \in bits \cup (p .. p + k - 1)
  <2>1. i \in bits <=> d * c \in bits
    BY <1>1, <1>4 DEF Whole
  <2>2. PICK q \in Nat : q = d * c
    OBVIOUS
  <2>3. CASE d = b
    <3>1. q = p /\ q \in p .. p + k - 1 /\ i \in p .. p + k - 1
      BY <1>2, <1>3, <1>4, <2>2, <2>3
    <3>2. QED
      BY <2>2, <3>1
  <2>4. CASE d # b
    <3>1. q \in d * c .. d * c + c - 1
      BY <2>2
    <3>2. i \notin b * c .. b * c + c - 1 /\ q \notin b * c .. b * c + c - 1
      BY <1>4, <2>4, <3>1, BlocksApart
    <3>3. p .. p + k - 1 \subseteq p .. p + c - 1
      BY <1>2, <1>3
    <3>4. QED
      BY <1>2, <2>1, <2>2, <3>2, <3>3
  <2>5. QED
    BY <2>3, <2>4
<1>5. QED
  BY <1>1, <1>3, <1>4 DEF Whole

LEMMA RunsStayWhole ==
  ASSUME WholeOK, FilesOK, RunsSay, VaultsOK, chain = "solana", UNCHANGED <<chain, lists>>,
         NEW m, m.block \in Nat, PayBatch(m)
  PROVE  WholeOK'
<1>1. PICK root, n, b, k : /\ root = m.root /\ n = runs[root].leaves /\ b = m.block /\ k = Len(m.items)
  OBVIOUS
<1>2. root \in DOMAIN runs /\ k = BlockSize(n, b) /\ b * Block < n
  BY <1>1 DEF PayBatch, Proven
<1>3. n \in Nat
  <2>1. PICK l \in DOMAIN lists : runs[root].leaves = Len(lists[l].items)
    BY <1>2 DEF RunsSay
  <2>2. QED
    BY <1>1, <2>1 DEF FilesOK, ListOK
<1>4. b \in Nat /\ k \in Nat
  <2>1. b \in Nat
    BY <1>1
  <2>2. k \in Nat
    <3>1. PICK p \in Nat, c \in Nat : c = Block /\ p = b * Block /\ p < n /\ (b + 1) * Block = p + c
      <4>1. PICK c \in Nat : c = Block
        BY BlockTyped
      <4>2. b * c \in Nat /\ (b + 1) * c = b * c + c
        BY <2>1
      <4>3. QED
        BY <1>2, <4>1, <4>2
    <3>2. QED
      BY <1>2, <1>3, <3>1 DEF BlockSize
  <2>3. QED
    BY <2>1, <2>2
<1>5. PICK u : u = LeavesOf(b, k)
  OBVIOUS
<1>6. /\ DOMAIN runs' = DOMAIN runs
      /\ runs'[root].bits = runs[root].bits \cup u /\ runs'[root].leaves = n
      /\ \A r \in DOMAIN runs : r # root => runs'[r] = runs[r]
  <2>1. IsRun(runs[m.root])
    BY <1>1, <1>2 DEF VaultsOK, RunOK
  <2>2. QED
    BY <1>1, <1>5, <2>1, PayBatchDoes DEF Marks
<1>7. Whole(runs'[root].bits, n)
  <2>1. Whole(runs[root].bits, n)
    BY <1>1, <1>2 DEF WholeOK
  <2>2. QED
    BY <1>2, <1>3, <1>4, <1>5, <1>6, <2>1, WholeGrows
<1>8. ASSUME NEW r \in DOMAIN runs' PROVE Whole(runs'[r].bits, runs'[r].leaves)
  <2>1. CASE r = root
    BY <1>6, <1>7, <2>1
  <2>2. CASE r # root
    BY <1>6, <2>2 DEF WholeOK
  <2>3. QED
    BY <2>1, <2>2
<1>9. \A l \in DOMAIN lists : CutOK(lists[l])
  BY DEF WholeOK
<1>10. QED
  BY <1>8, <1>9 DEF WholeOK

\* What is accepted is cut into blocks.
LEMMA PlanIsCut ==
  ASSUME file \in Seq(FileRow), NEW lines \in Seq(1 .. Len(file)), chain = "solana"
  PROVE  CutOK(Plan(lines))
<1>1. PICK items, n : n = Len(lines) /\ items = [k \in 1 .. n |-> PayoutOf(file[lines[k]], open)]
  OBVIOUS
<1>2. n \in Nat /\ Len(items) = n
  <2>1. n \in Nat /\ items = [k \in 1 .. n |-> items[k]]
    BY <1>1
  <2>2. QED
    BY <2>1, Listed
<1>3. Plan(lines).items = items /\ Plan(lines).lines = lines
  BY <1>1 DEF Plan
<1>4. Plan(lines).batches = PackAligned(items, Block)
  <2>1. Limits[chain].align = Block /\ Block # 0
    BY PayoutAssumption, BlockTyped
  <2>2. Plan(lines).batches = Batches(items, Limits[chain])
    BY <1>1 DEF Plan
  <2>3. QED
    BY <2>1, <2>2 DEF Batches
<1>5. lines \in Seq(Nat)
  <2>1. 1 .. Len(file) \subseteq Nat
    OBVIOUS
  <2>2. QED
    BY <2>1
<1>6. QED
  BY <1>1, <1>2, <1>3, <1>4, <1>5 DEF CutOK

LEMMA SubmitCuts ==
  ASSUME FilesOK, WholeOK, NEW policy, Submit(policy)
  PROVE  WholeOK'
<1>1. PICK lines : lines = Read(file, policy) /\ lines \in Seq(1 .. Len(file))
  BY ReadTyped DEF FilesOK
<1>2. chain' = chain /\ runs' = runs
  BY DEF Submit, runVars
<1>3. ASSUME chain = "solana"
      PROVE  \A l \in DOMAIN lists' : CutOK(lists'[l])
  <2>1. \A l \in DOMAIN lists : CutOK(lists[l])
    BY <1>3 DEF WholeOK
  <2>2. ASSUME NEW n \in Nat, DOMAIN lists = 1 .. n, Grown(lists', n, Plan(lines))
        PROVE  \A l \in DOMAIN lists' : CutOK(lists'[l])
    <3>1. CutOK(Plan(lines))
      BY <1>1, <1>3, PlanIsCut DEF FilesOK
    <3>2. \A l \in DOMAIN lists' : l \in 1 .. n \/ l = n + 1
      BY <2>2 DEF Grown
    <3>3. QED
      BY <2>1, <2>2, <3>1, <3>2 DEF Grown
  <2>3. QED
    BY <1>1, <2>1, <2>2, SubmitAdds
<1>4. QED
  BY <1>2, <1>3 DEF WholeOK

LEMMA InitRunWhole ==
  ASSUME WholeOK, chain = "solana", UNCHANGED <<chain, lists>>,
         NEW list, NEW total, NEW deadline, InitRun(list, total, deadline)
  PROVE  WholeOK'
<1>1. PICK run, root : /\ run.bits = {} /\ run.leaves = Len(list.items)
                       /\ runs' = With(runs, root, run)
  BY DEF InitRun
<1>2. DOMAIN runs' = DOMAIN runs \cup {root} /\ runs'[root] = run
      /\ \A r \in DOMAIN runs : r # root => runs'[r] = runs[r]
  BY <1>1 DEF With
<1>3. Whole({}, run.leaves)
  BY DEF Whole
<1>4. \A r \in DOMAIN runs' : Whole(runs'[r].bits, runs'[r].leaves)
  BY <1>1, <1>2, <1>3 DEF WholeOK
<1>5. QED
  BY <1>4 DEF WholeOK

LEMMA OnSolanaWhole ==
  ASSUME WholeOK, FilesOK, RunsSay, VaultsOK, chain = "solana",
         UNCHANGED <<chain, lists>>, NEW l \in DOMAIN lists, OnSolana(lists[l])
  PROVE  WholeOK'
<1>1. PICK list : list = lists[l] /\ ListOK(list)
  BY DEF FilesOK
<1>2. ASSUME NEW total, NEW deadline, InitRun(list, total, deadline)
      PROVE  WholeOK'
  BY <1>2, InitRunWhole
<1>3. ASSUME NEW m, m.block \in Nat, PayBatch(m) PROVE WholeOK'
  BY <1>3, RunsStayWhole
<1>4. ASSUME UNCHANGED <<runs, bal, credits, signed>> PROVE WholeOK'
  BY <1>4 DEF WholeOK
<1>5. ASSUME Clawback(list.root, TRUE) PROVE WholeOK'
  <2>1. DOMAIN runs' \subseteq DOMAIN runs /\ \A r \in DOMAIN runs' : runs'[r] = runs[r]
    BY <1>5 DEF Clawback, Restrict
  <2>2. QED
    BY <2>1 DEF WholeOK
<1>6. QED
  BY <1>1, <1>2, <1>3, <1>4, <1>5, SolanaSteps

LEMMA WholeStep == PayoutInv /\ ListedInv /\ MoneyInv /\ WholeOK /\ [Next]_vars => WholeOK'
<1> SUFFICES ASSUME PayoutInv, ListedInv, MoneyInv, WholeOK, [Next]_vars PROVE WholeOK'
  OBVIOUS
<1>0. FilesOK /\ RunsSay /\ VaultsOK
  BY DEF PayoutInv, ListedInv, MoneyInv
<1>1. ASSUME NEW policy, Submit(policy)
      PROVE  WholeOK'
  BY <1>0, <1>1, SubmitCuts
<1>2. CASE /\ chain = "solana"
           /\ \/ \E l \in DOMAIN lists : OnSolana(lists[l])
              \/ \E m \in Merchants : CloseAccount(m)
           /\ UNCHANGED <<evmVars, suiVars, intakeVars>>
  <2>1. UNCHANGED <<chain, lists>>
    BY <1>2 DEF intakeVars
  <2>2. ASSUME NEW l \in DOMAIN lists, OnSolana(lists[l]) PROVE WholeOK'
    BY <1>0, <1>2, <2>1, <2>2, OnSolanaWhole
  <2>3. ASSUME NEW m, CloseAccount(m) PROVE WholeOK'
    BY <2>1, <2>3 DEF CloseAccount, WholeOK
  <2>4. QED
    BY <1>2, <2>2, <2>3
<1>3. ASSUME UNCHANGED <<runVars, intakeVars>> PROVE WholeOK'
  BY <1>3 DEF runVars, intakeVars, WholeOK
<1>4. CASE /\ chain = "evm"
           /\ \/ \E l \in DOMAIN lists : OnEvm(lists[l])
              \/ EvmStep
           /\ UNCHANGED <<runVars, suiVars, intakeVars>>
  BY <1>3, <1>4
<1>5. CASE /\ chain = "sui"
           /\ \/ \E l \in DOMAIN lists : OnSui(lists[l])
              \/ SuiEscrow \/ Sui!OpenBook
           /\ UNCHANGED <<runVars, evmVars, intakeVars>>
  BY <1>3, <1>5
<1>6. CASE Tick \/ UNCHANGED vars
  BY <1>3, <1>6 DEF Tick, vars
<1>7. QED
  BY <1>1, <1>2, <1>4, <1>5, <1>6 DEF Next

LEMMA WholeHolds == Spec => []WholeOK
<1>1. Spec => []ListedInv
  BY ListedInitially, ListedStep, PayoutInvHolds, PTL DEF Spec
<1>2. Init => WholeOK
  BY DEF Init, WholeOK
<1>3. QED
  BY <1>1, <1>2, WholeStep, MoneyInvHolds, PayoutInvHolds, PTL DEF Spec

\* UnpaidLinesAreNamed: for a file of any size, read with any policy and cut
\* at any block size, the lines for whose intents no money was sent are those
\* that Trace names for the blocks a run has not marked, and those it marked
\* with no transfer, whatever batches were carried to the program and in
\* whatever order.  (Trace counting
\* through the batches, PackAligned keeping the order of the list, pay_batch
\* setting the bits of a whole block as it pays each of its items.)
THEOREM UnpaidLinesAreNamedHolds == Spec => []UnpaidLinesAreNamed
<1>1. PayoutInv /\ PaidInv /\ ListedInv /\ MoneyInv /\ WholeOK => UnpaidLinesAreNamed
  <2> SUFFICES ASSUME PayoutInv, PaidInv, ListedInv, MoneyInv, WholeOK,
                      NEW l \in DOMAIN lists, lists[l].root \in DOMAIN runs,
                      signed[lists[l].root] = 1
               PROVE  {lists[l].lines[i] : i \in {i \in DOMAIN lists[l].items :
                                                    Sent(lists[l].items[i].ref.id) = 0}}
                      = LinesOf(lists[l], runs[lists[l].root].bits \ runs[lists[l].root].sent)
                        \cup UNION {ToSet(Trace(lists[l], k)) :
                                  k \in {k \in DOMAIN lists[l].batches :
                                            (k - 1) * Block \notin runs[lists[l].root].bits}}
    BY DEF UnpaidLinesAreNamed
  <2>0. chain = "solana" /\ IdsOK /\ RunsPayOnce /\ FilesOK /\ RunsSay /\ VaultsOK
    BY DEF PayoutInv, PaidInv, ListedInv, WholeOK, MoneyInv
  <2>1. PICK list, root, bits, sent : /\ list = lists[l] /\ root = list.root /\ bits = runs[root].bits
                                      /\ sent = runs[root].sent /\ sent \subseteq bits
    <3>1. RunOK(lists[l].root, runs[lists[l].root], lists)
      BY <2>0 DEF VaultsOK
    <3>2. QED
      BY <3>1 DEF RunOK
  <2>2. PICK n \in Nat : n = Len(list.items) /\ DOMAIN list.items = 1 .. n
    BY <2>0, <2>1 DEF FilesOK, ListOK
  <2>3. list.items \in Seq(FairItem) /\ CutOK(list) /\ Whole(bits, n)
    <3>1. list.items \in Seq(FairItem) /\ root = Root(list.items)
      BY <2>0, <2>1 DEF FilesOK, ListOK
    <3>2. PICK g \in DOMAIN lists : lists[g].root = root /\ runs[root].leaves = Len(lists[g].items)
      BY <2>0, <2>1 DEF RunsSay
    <3>3. lists[g].items \in Seq(FairItem) /\ root = Root(lists[g].items)
      BY <2>0, <3>2 DEF FilesOK, ListOK
    <3>4. runs[root].leaves = n
      BY <2>2, <3>1, <3>2, <3>3, SameAmounts
    <3>5. CutOK(list) /\ Whole(runs[root].bits, runs[root].leaves)
      BY <2>0, <2>1 DEF WholeOK
    <3>6. QED
      BY <2>1, <3>1, <3>4, <3>5
  <2>4. ASSUME NEW i \in 1 .. n
        PROVE  Sent(list.items[i].ref.id) = 0 <=> i - 1 \notin sent
    <3>1. PICK ref : ref = list.items[i].ref
      OBVIOUS
    <3>2. ref \in Refs(lists)
      BY <2>1, <2>2, <3>1, RefsAre
    <3>3. Sent(ref.id) = SentTo(credits, ref)
      BY <2>0, <3>2, SentIs DEF RunsPayOnce
    <3>4. RowOK(root, i - 1, SentTo(credits, ref), runs, signed)
      BY <2>0, <2>1, <2>2, <3>1 DEF RunsPayOnce
    <3>5. PICK s \in Nat : s = SentTo(credits, ref)
      BY <2>0, SentNat DEF RunsPayOnce, CreditsOK
    <3>6. Count(signed, root) = 1 \/ Count(signed, root) = 0
      BY <2>1 DEF Count
    <3>7. s <= Count(signed, root) /\ IF i - 1 \in sent THEN s >= 1 ELSE s < Count(signed, root)
      BY <2>1, <3>4, <3>5 DEF RowOK
    <3>8. s = 0 <=> i - 1 \notin sent
      BY <3>6, <3>7
    <3>9. QED
      BY <3>1, <3>3, <3>5, <3>8
  <2>5. ASSUME NEW k
        PROVE  /\ k \in DOMAIN list.batches <=> k \in Nat \ {0} /\ (k - 1) * Block < n
               /\ k \in DOMAIN list.batches =>
                    ToSet(Trace(list, k))
                      = {list.lines[j] : j \in {j \in 1 .. n : (k - 1) * Block < j /\ j <= k * Block}}
    BY <2>2, <2>3, TraceIs
  <2>6. PICK c \in Nat \ {0} : c = Block
    BY BlockTyped
  <2>7. ASSUME NEW i \in 1 .. n, NEW b \in Nat, NEW k, k = b + 1,
               b * c < i, i <= (b + 1) * c
        PROVE  i - 1 \in bits <=> b * c \in bits
    <3>1. PICK p \in Nat : p = b * c /\ (b + 1) * c = p + c
      <4>1. b * c \in Nat /\ (b + 1) * c = b * c + c
        OBVIOUS
      <4>2. QED
        BY <4>1
    <3>2. i - 1 \in p .. p + c - 1 /\ i - 1 < n
      BY <2>7, <3>1
    <3>3. QED
      BY <2>3, <2>6, <3>1, <3>2 DEF Whole
  <2>8. ASSUME NEW i \in 1 .. n, i - 1 \notin bits
        PROVE  \E k \in DOMAIN list.batches :
                 (k - 1) * c \notin bits /\ list.lines[i] \in ToSet(Trace(list, k))
    <3>1. PICK a \in Nat : a = i - 1
      OBVIOUS
    <3>2. PICK b \in Nat : b * c <= a /\ a < b * c + c
      <4>1. a \div c \in Nat /\ (a \div c) * c <= a /\ a < (a \div c) * c + c
        OBVIOUS
      <4>2. QED
        BY <4>1
    <3>3. PICK p \in Nat, k \in Nat \ {0} : p = b * c /\ k = b + 1 /\ k - 1 = b /\ k * c = p + c
      <4>1. b * c \in Nat /\ (b + 1) * c = b * c + c /\ b + 1 \in Nat \ {0} /\ (b + 1) - 1 = b
        OBVIOUS
      <4>2. QED
        BY <4>1
    <3>4. p < i /\ i <= p + c /\ p < n
      BY <3>1, <3>2, <3>3
    <3>5. k \in DOMAIN list.batches
      BY <2>5, <2>6, <3>3, <3>4
    <3>6. list.lines[i] \in ToSet(Trace(list, k))
      BY <2>5, <2>6, <3>3, <3>4, <3>5
    <3>7. p \notin bits
      BY <2>7, <2>8, <3>3, <3>4
    <3>8. QED
      BY <3>3, <3>5, <3>6, <3>7
  <2>9. ASSUME NEW k \in DOMAIN list.batches, (k - 1) * c \notin bits,
               NEW x \in ToSet(Trace(list, k))
        PROVE  \E i \in 1 .. n : i - 1 \notin bits /\ x = list.lines[i]
    <3>1. PICK b \in Nat : k = b + 1 /\ k - 1 = b
      BY <2>5
    <3>2. PICK i \in 1 .. n : x = list.lines[i] /\ (k - 1) * c < i /\ i <= k * c
      BY <2>5, <2>6, <2>9
    <3>3. i - 1 \in bits <=> b * c \in bits
      BY <2>7, <3>1, <3>2
    <3>4. QED
      BY <2>9, <3>1, <3>2, <3>3
  <2>10. ASSUME NEW i \in DOMAIN lists[l].items, Sent(lists[l].items[i].ref.id) = 0
         PROVE  \/ i - 1 \in bits \ sent
                \/ \E k \in DOMAIN lists[l].batches :
                     /\ (k - 1) * Block \notin runs[lists[l].root].bits
                     /\ lists[l].lines[i] \in ToSet(Trace(lists[l], k))
    BY <2>1, <2>2, <2>4, <2>6, <2>8, <2>10
  <2>11. ASSUME NEW k \in DOMAIN lists[l].batches, (k - 1) * Block \notin runs[lists[l].root].bits,
                NEW x \in ToSet(Trace(lists[l], k))
         PROVE  \E i \in DOMAIN lists[l].items :
                  Sent(lists[l].items[i].ref.id) = 0 /\ x = lists[l].lines[i]
    BY <2>1, <2>2, <2>4, <2>6, <2>9, <2>11
  <2>12. \A i \in DOMAIN lists[l].items : i - 1 \in bits \ sent => Sent(lists[l].items[i].ref.id) = 0
    BY <2>1, <2>2, <2>4
  <2>13. PICK L : L = LinesOf(lists[l], bits \ sent)
    OBVIOUS
  <2>14. \A x : x \in L <=> \E i \in DOMAIN lists[l].items : i - 1 \in bits \ sent /\ x = lists[l].lines[i]
    BY <2>13 DEF LinesOf
  <2>15. {lists[l].lines[i] : i \in {i \in DOMAIN lists[l].items : Sent(lists[l].items[i].ref.id) = 0}}
           = L \cup UNION {ToSet(Trace(lists[l], k)) :
                             k \in {k \in DOMAIN lists[l].batches :
                                      (k - 1) * Block \notin runs[lists[l].root].bits}}
    BY <2>10, <2>11, <2>12, <2>14
  <2>16. QED
    BY <2>1, <2>13, <2>15
<1>2. Spec => []ListedInv
  BY ListedInitially, ListedStep, PayoutInvHolds, PTL DEF Spec
<1>3. QED
  BY <1>1, <1>2, WholeHolds, PaidInvHolds, MoneyInvHolds, PayoutInvHolds, PTL

-----------------------------------------------------------------------------
(* Every block of a list passes the check.                                 *)

\* A subtree over a block of the bottom row is a subtree of the tree.
LEMMA OverTheBlock ==
  ASSUME NEW L \in Nat, NEW P \in Nat, NEW T, NEW B, NEW top, NEW block \in Nat,
         NEW c \in Nat, IsOver(top, L, P, block, c), Halves(T, top), Halves(B, L),
         NEW from \in Nat, IsAt(from, block, c),
         Follows(B[0], T[0], c, from)
  PROVE  IsTop(B, T, L, block)
<1> DEFINE Twin(k) == \A i \in 1 .. 2 ^ (L - k) : B[k][i] = T[k][block * 2 ^ (L - k) + i]
           S == {k \in 0 .. L : Twin(k)}
<1>0. top = L + P /\ block < 2 ^ P /\ c = 2 ^ L
  BY DEF IsOver
<1>1. Twin(0)
  <2>1. L - 0 = L
    OBVIOUS
  <2>2. QED
    BY <1>0, <2>1 DEF Follows, IsAt
<1>2. ASSUME NEW k \in 0 .. L - 1, Twin(k)
      PROVE  Twin(k + 1)
  <2>1. PICK e \in Nat : e = L - (k + 1) /\ e + 1 = L - k /\ P + e = (L + P) - (k + 1)
    OBVIOUS
  <2>2. PICK w \in Nat : w = 2 ^ e /\ 2 ^ (L - k) = 2 * w
    BY <2>1, Powers
  <2>3. PICK x \in Nat : x = block * w /\ block * (2 * w) = 2 * x
    OBVIOUS
  <2>4. x + w <= 2 ^ (P + e)
    <3>1. PICK v \in Nat : v = 2 ^ P /\ 2 ^ (P + e) = v * w
      BY <2>2, Powers, PowerSum, ZenonT(60)
    <3>2. PICK y \in Nat : v = block + 1 + y
      <4>1. v - block - 1 \in Nat /\ v = block + 1 + (v - block - 1)
        BY <1>0, <3>1
      <4>2. QED
        BY <4>1
    <3>3. v * w = block * w + w + y * w /\ y * w \in Nat
      BY <3>2
    <3>4. QED
      BY <2>3, <3>1, <3>3
  <2>5. ASSUME NEW i \in 1 .. w
        PROVE  B[k + 1][i] = T[k + 1][x + i]
    <3>1. k + 1 \in 1 .. L /\ k + 1 \in 1 .. L + P /\ (k + 1) - 1 = k
      OBVIOUS
    <3>2. B[k + 1][i] = Node(B[k][2 * i - 1], B[k][2 * i])
      BY <2>1, <2>2, <3>1 DEF Halves
    <3>3. x + i \in 1 .. 2 ^ ((L + P) - (k + 1))
      <4>1. PICK z \in Nat : z = 2 ^ (P + e)
        BY Powers
      <4>2. QED
        BY <2>1, <2>4, <4>1
    <3>4. T[k + 1][x + i] = Node(T[k][2 * (x + i) - 1], T[k][2 * (x + i)])
      BY <1>0, <3>1, <3>3 DEF Halves
    <3>5. \A j \in 1 .. 2 * w : B[k][j] = T[k][2 * x + j]
      BY <1>2, <2>2, <2>3
    <3>6. /\ 2 * i - 1 \in 1 .. 2 * w /\ 2 * i \in 1 .. 2 * w
          /\ 2 * (x + i) - 1 = 2 * x + (2 * i - 1) /\ 2 * (x + i) = 2 * x + 2 * i
      OBVIOUS
    <3>7. QED
      BY <3>2, <3>4, <3>5, <3>6
  <2>6. QED
    BY <2>1, <2>2, <2>3, <2>5
<1>3. \A k \in 0 .. L : k \in S
  <2> HIDE DEF Twin
  <2>1. 0 \in S
    BY <1>1
  <2>2. ASSUME NEW k \in 0 .. L - 1, k \in S
        PROVE  k + 1 \in S
    BY <1>2, <2>2
  <2> HIDE DEF S
  <2>3. QED
    BY <2>1, <2>2, UpTo
<1>4. Twin(L)
  <2> HIDE DEF Twin
  <2>1. QED
    BY <1>3
<1>5. L - L = 0 /\ 2 ^ 0 = 1 /\ block * 1 = block
  BY Powers
<1>6. 1 \in 1 .. 2 ^ (L - L) /\ block * 2 ^ (L - L) + 1 = block + 1
  BY <1>5
<1>7. QED
  BY <1>4, <1>6 DEF IsTop

LEMMA Halved ==
  ASSUME NEW a \in Nat, NEW w \in Nat \ {0}
  PROVE  (a \div w) \div 2 = a \div (2 * w)
<1>1. PICK r \in Nat : r = a \div w /\ r * w <= a /\ a < r * w + w
  <2>1. a \div w \in Nat /\ (a \div w) * w <= a /\ a < (a \div w) * w + w
    OBVIOUS
  <2>2. QED
    BY <2>1
<1>2. PICK q \in Nat : q = r \div 2 /\ (r = 2 * q \/ r = 2 * q + 1)
  <2>1. r \div 2 \in Nat /\ (r = 2 * (r \div 2) \/ r = 2 * (r \div 2) + 1)
    OBVIOUS
  <2>2. QED
    BY <2>1
<1>3. PICK c \in Nat \ {0} : c = 2 * w
  OBVIOUS
<1>4. q * c <= a /\ a < q * c + c
  <2>1. q * c = 2 * (q * w) /\ (2 * q + 1) * w = 2 * (q * w) + w /\ (2 * q) * w = 2 * (q * w)
    BY <1>3
  <2>2. PICK x \in Nat : x = q * w
    OBVIOUS
  <2>3. r * w = 2 * x \/ r * w = 2 * x + w
    BY <1>2, <2>1, <2>2
  <2>4. QED
    BY <1>1, <1>3, <2>1, <2>2, <2>3
<1>5. PICK p \in Nat : p = a \div c /\ p * c <= a /\ a < p * c + c
  <2>1. a \div c \in Nat /\ (a \div c) * c <= a /\ a < (a \div c) * c + c
    OBVIOUS
  <2>2. QED
    BY <2>1
<1>6. ASSUME NEW u \in Nat, NEW v \in Nat, u < v
      PROVE  u * c + c <= v * c
  <2>1. PICK y \in Nat : v = u + 1 + y
    <3>1. v - u - 1 \in Nat /\ v = u + 1 + (v - u - 1)
      BY <1>6
    <3>2. QED
      BY <3>1
  <2>2. v * c = u * c + c + y * c /\ y * c \in Nat /\ u * c \in Nat
    BY <2>1
  <2>3. QED
    BY <2>2
<1>7. PICK x \in Nat, y \in Nat : x = p * c /\ y = q * c
  OBVIOUS
<1>8. ~ (p < q) /\ ~ (q < p)
  BY <1>4, <1>5, <1>6, <1>7
<1>9. QED
  BY <1>1, <1>2, <1>3, <1>5, <1>8

SiblingsOf(proof, T, L, P, block) ==
  \A k \in 1 .. P : proof[k] = T[L + k - 1][Sibling(block \div 2 ^ (k - 1)) + 1]

\* With the siblings of its nodes for a proof, a block goes up to the root.
LEMMA UpItsProof ==
  ASSUME NEW L \in Nat, NEW P \in Nat, NEW T, NEW at, NEW proof, NEW top, NEW block \in Nat,
         NEW c, IsOver(top, L, P, block, c), Halves(T, top), IsPath(at, P, proof),
         StartsAt(at, T, L, block), SiblingsOf(proof, T, L, P, block)
  PROVE  EndsAt(at, P, T, top)
<1> SUFFICES ASSUME top = L + P, block < 2 ^ P, at[0].idx = block, at[0].hash = T[L][block + 1]
             PROVE  at[P].hash = T[top][1]
  BY DEF IsOver, StartsAt, EndsAt
<1> DEFINE On(k) == /\ at[k].idx = block \div 2 ^ k /\ at[k].idx \in 0 .. 2 ^ (P - k) - 1
                    /\ at[k].hash = T[L + k][at[k].idx + 1]
           S == {k \in 0 .. P : On(k)}
<1>1. On(0)
  <2>1. P - 0 = P /\ L + 0 = L /\ 2 ^ 0 = 1 /\ block \div 1 = block /\ 2 ^ P \in Nat
    BY Powers
  <2>2. QED
    BY <2>1
<1>2. ASSUME NEW k \in 0 .. P - 1, On(k)
      PROVE  On(k + 1)
  <2>1. PICK j \in 1 .. P : j = k + 1 /\ j - 1 = k
    OBVIOUS
  <2>2. PICK w \in Nat \ {0} : w = 2 ^ k /\ 2 ^ j = 2 * w
    BY <2>1, Powers
  <2>3. PICK e \in Nat, v \in Nat : e = P - j /\ v = 2 ^ e /\ 2 ^ (P - k) = 2 * v
    <3>1. PICK e \in Nat : e = P - j /\ P - k = e + 1
      BY <2>1
    <3>2. QED
      BY <3>1, Powers
  <2>4. PICK r \in 0 .. 2 * v - 1 : r = at[k].idx /\ r = block \div w
    BY <1>2, <2>2, <2>3
  <2>5. PICK q \in 0 .. v - 1 : q = r \div 2
    <3>1. r \div 2 \in 0 .. v - 1
      OBVIOUS
    <3>2. QED
      BY <3>1
  <2>6. at[j].idx = q /\ q = block \div 2 ^ j
    <3>1. (block \div w) \div 2 = block \div (2 * w)
      BY Halved
    <3>2. at[j].idx = at[k].idx \div 2
      BY <2>1, Climbs
    <3>3. QED
      BY <2>2, <2>4, <2>5, <3>1, <3>2
  <2>7. T[L + j][q + 1] = Node(T[L + k][2 * (q + 1) - 1], T[L + k][2 * (q + 1)])
    <3>1. L + j \in 1 .. top /\ top - (L + j) = e /\ (L + j) - 1 = L + k
      BY <2>1, <2>3
    <3>2. q + 1 \in 1 .. v
      OBVIOUS
    <3>3. QED
      BY <2>3, <3>1, <3>2, ZenonT(60) DEF Halves
  <2>8. proof[j] = T[L + k][Sibling(r) + 1]
    <3>1. L + j - 1 = L + k
      BY <2>1
    <3>2. QED
      BY <2>1, <2>2, <2>4, <3>1 DEF SiblingsOf
  <2>9. at[k].hash = T[L + k][r + 1]
    BY <1>2, <2>4
  <2>10. at[j].hash = IF r % 2 = 0 THEN Node(at[k].hash, proof[j]) ELSE Node(proof[j], at[k].hash)
    <3>1. at[j].hash = IF at[j - 1].idx % 2 = 0 THEN Node(at[j - 1].hash, proof[j])
                                                ELSE Node(proof[j], at[j - 1].hash)
      BY Climbs
    <3>2. QED
      BY <2>1, <2>4, <3>1
  <2>11. at[j].hash = T[L + j][q + 1]
    <3>1. CASE r % 2 = 0
      <4>1. r + 1 = 2 * (q + 1) - 1 /\ Sibling(r) + 1 = 2 * (q + 1)
        BY <2>5, <3>1 DEF Sibling
      <4>2. QED
        BY <2>7, <2>8, <2>9, <2>10, <3>1, <4>1
    <3>2. CASE r % 2 # 0
      <4>1. r + 1 = 2 * (q + 1) /\ Sibling(r) + 1 = 2 * (q + 1) - 1
        <5>1. r % 2 = 1 /\ r = 2 * (r \div 2) + (r % 2)
          BY <3>2
        <5>2. Sibling(r) = r - 1
          BY <3>2 DEF Sibling
        <5>3. QED
          BY <2>5, <5>1, <5>2
      <4>2. QED
        BY <2>7, <2>8, <2>9, <2>10, <3>2, <4>1
    <3>3. QED
      BY <3>1, <3>2
  <2>12. QED
    BY <2>1, <2>3, <2>6, <2>11
<1>3. \A k \in 0 .. P : k \in S
  <2> HIDE DEF On
  <2>1. 0 \in S
    BY <1>1
  <2>2. ASSUME NEW k \in 0 .. P - 1, k \in S
        PROVE  k + 1 \in S
    BY <1>2, <2>2
  <2> HIDE DEF S
  <2>3. QED
    BY <2>1, <2>2, UpTo
<1>4. On(P)
  <2> HIDE DEF On
  <2>1. QED
    BY <1>3
<1>5. P - P = 0 /\ 2 ^ 0 = 1
  BY Powers
<1>6. at[P].idx = 0
  BY <1>4, <1>5
<1>7. QED
  BY <1>4, <1>6

\* The block of a list and the proof that BlockProof reads out of its tree are
\* what Recompute takes to the root.
LEMMA BlockGoesUp ==
  ASSUME NEW items, NEW n \in Nat, Len(items) = n, BlockLog2 \in Nat,
         NEW block \in Nat, NEW from \in Nat, IsAt(from, block, Block), from < n,
         NEW its, NEW m \in Nat, Len(its) = m, m <= Block, from + m <= n, m = Block \/ from + m = n,
         Follows(its, items, m, from),
         NEW proof, proof = BlockProof(items, block)
  PROVE  Len(proof) = ProofHashes(n) /\ Recompute(block, its, proof) = Root(items)
<1>0. PICK L \in Nat : L = BlockLog2
  OBVIOUS
<1>1. PICK P \in Nat : L = BlockLog2 /\ P = ProofHashes(n)
  BY <1>0, ProofHashesAre
<1>2. PICK c \in Nat \ {0} : c = Block /\ c = 2 ^ L
  BY <1>1, Powers DEF Block
<1>3. PICK w \in Nat : w = 2 ^ P /\ 2 ^ (L + P) = c * w /\ c * w >= n
  <2>1. PICK w \in Nat : w = 2 ^ P
    BY Powers
  <2>2. 2 ^ (L + P) = c * w
    BY <1>2, <2>1, PowerSum
  <2>3. Block * 2 ^ ProofHashes(n) >= n
    BY ProofHashesAre
  <2>4. QED
    BY <1>1, <1>2, <2>1, <2>2, <2>3
<1>4. from = block * c /\ IsAt(from, block, c)
  BY <1>2 DEF IsAt
<1>5. block < w /\ from + c <= c * w
  <2>1. ASSUME block >= w PROVE FALSE
    <3>1. PICK y \in Nat : block = w + y
      <4>1. block - w \in Nat /\ block = w + (block - w)
        BY <2>1
      <4>2. QED
        BY <4>1
    <3>2. block * c = c * w + y * c /\ y * c \in Nat /\ c * w \in Nat
      BY <3>1
    <3>3. QED
      BY <1>2, <1>3, <1>4, <3>2
  <2>2. PICK y \in Nat : w = block + 1 + y
    <3>1. w - block - 1 \in Nat /\ w = block + 1 + (w - block - 1)
      BY <2>1
    <3>2. QED
      BY <3>1
  <2>3. PICK x \in Nat, z \in Nat : x = block * c /\ z = y * c /\ c * w = x + c + z
    <3>1. c * w = block * c + c + y * c /\ y * c \in Nat /\ block * c \in Nat
      BY <2>2
    <3>2. QED
      BY <3>1
  <2>4. from = x
    BY <1>4, <2>3
  <2>5. QED
    BY <2>2, <2>3, <2>4
<1>6. PICK row, part : row = Padded(items, 0, 2 ^ (L + P)) /\ part = Padded(its, from, c)
  OBVIOUS
<1>7. /\ row = [i \in 1 .. c * w |-> IF i <= n THEN Leaf(i - 1, items[i]) ELSE PadLeaf]
      /\ part = [i \in 1 .. c |-> IF i <= m THEN Leaf(from + i - 1, its[i]) ELSE PadLeaf]
  <2>1. \A i \in 1 .. c * w : 0 + i - 1 = i - 1
    BY <1>3
  <2>2. row = [i \in 1 .. c * w |-> IF i <= n THEN Leaf(0 + i - 1, items[i]) ELSE PadLeaf]
    BY <1>3, <1>6 DEF Padded
  <2>3. part = [i \in 1 .. c |-> IF i <= m THEN Leaf(from + i - 1, its[i]) ELSE PadLeaf]
    BY <1>6 DEF Padded
  <2>4. QED
    BY <2>1, <2>2, <2>3
<1>8. \A i \in 1 .. c : part[i] = row[from + i]
  <2>1. TAKE i \in 1 .. c
  <2>2. from + i \in 1 .. c * w /\ from + i - 1 = (from + i) - 1
    <3>1. PICK u \in Nat : u = c * w
      BY <1>3
    <3>2. from + c <= u
      BY <1>5, <3>1
    <3>3. from + i \in 1 .. u /\ from + i - 1 = (from + i) - 1
      BY <3>2
    <3>4. QED
      BY <3>1, <3>3
  <2>3. i <= m <=> from + i <= n
    BY <1>2, <1>4
  <2>4. i <= m => its[i] = items[from + i]
    BY DEF Follows
  <2>5. QED
    BY <1>7, <2>2, <2>3, <2>4
<1>t. PICK top \in Nat : top = L + P
  OBVIOUS
<1>9. PICK T, B : top = L + P /\ T = Levels(row, top) /\ B = Levels(part, L)
  BY <1>t
<1>10. T[0] = row /\ Halves(T, top) /\ B[0] = part /\ Halves(B, L)
  <2>1. row = [i \in 1 .. 2 ^ top |-> row[i]] /\ part = [i \in 1 .. 2 ^ L |-> part[i]]
    BY <1>2, <1>3, <1>7, <1>9
  <2>2. QED
    BY <1>9, <2>1, TreeIs
<1>11. B[L][1] = T[L][block + 1]
  <2>1. IsOver(top, L, P, block, c) /\ Follows(B[0], T[0], c, from)
    BY <1>2, <1>3, <1>5, <1>8, <1>9, <1>10 DEF Follows, IsOver
  <2>2. Halves(T, top) /\ Halves(B, L) /\ c \in Nat /\ IsAt(from, block, c)
    BY <1>2, <1>4, <1>9, <1>10
  <2>3. IsTop(B, T, L, block)
    BY <2>1, <2>2, OverTheBlock
  <2>4. QED
    BY <2>3 DEF IsTop
<1>12. Build(items) = T /\ Root(items) = T[top][1]
  BY <1>1, <1>6, <1>9 DEF Root, Build, Depth
<1>13. proof = [k \in 1 .. P |-> T[L + k - 1][Sibling(block \div 2 ^ (k - 1)) + 1]]
  BY <1>1, <1>12 DEF BlockProof
<1>14. Len(proof) = P
  <2>1. proof = [k \in 1 .. P |-> proof[k]]
    BY <1>13
  <2>2. QED
    BY <2>1, Listed
<1>15. PICK at : /\ at[0] = [hash |-> B[L][1], idx |-> block]
                 /\ IsPath(at, P, proof)
                 /\ Recompute(block, its, proof) = at[P].hash
  <2>1. B[L][1] = Levels(Padded(its, from, Block), BlockLog2)[BlockLog2][1]
    BY <1>1, <1>2, <1>6, <1>9
  <2>2. IsAt(from, block, Block)
    OBVIOUS
  <2>3. PICK h : h = B[L][1] /\ h = Levels(Padded(its, from, Block), BlockLog2)[BlockLog2][1]
    BY <2>1
  <2>4. \E at : /\ at[0] = [hash |-> h, idx |-> block]
                /\ IsPath(at, P, proof)
                /\ Recompute(block, its, proof) = at[P].hash
    BY <1>14, <2>2, <2>3, RecomputeIs
  <2>5. QED
    BY <2>3, <2>4
<1>16. at[P].hash = T[top][1]
  <2>1. StartsAt(at, T, L, block) /\ IsOver(top, L, P, block, c)
    BY <1>2, <1>3, <1>5, <1>9, <1>11, <1>15 DEF StartsAt, IsOver
  <2>2. SiblingsOf(proof, T, L, P, block)
    BY <1>13 DEF SiblingsOf
  <2>3. EndsAt(at, P, T, top)
    BY <1>10, <1>15, <2>1, <2>2, UpItsProof
  <2>4. QED
    BY <2>3 DEF EndsAt
<1>17. QED
  BY <1>1, <1>12, <1>14, <1>15, <1>16

\* The other half of the check: what PayBatchMessage makes of any block of a
\* list passes it, as long as the run is of that list and no leaf of the block
\* is marked.  So with all lists, and not only those that were tried, the
\* items can be paid block by block, in any order.  (Proof reading the
\* siblings out of the tree, and pay_batch joining them on the side that the
\* position says.)
THEOREM EveryBlockIsProven ==
  ASSUME NEW list, list.items \in Seq(Item), list.root = Root(list.items),
         runs[list.root].leaves = Len(list.items),
         NEW b \in Nat, b * Block < Len(list.items),
         runs[list.root].bits \cap LeavesOf(b, BlockSize(Len(list.items), b)) = {}
  PROVE  Proven(PayBatchMessage(list, b))
<1>0. PICK n \in Nat : n = Len(list.items)
  OBVIOUS
<1>1. PICK items, root : n = Len(items) /\ items = list.items /\ root = list.root
  BY <1>0
<1>2. PICK c \in Nat \ {0} : c = Block
  BY BlockTyped
<1>3. PICK from \in Nat : from = b * c /\ (b + 1) * c = from + c
  <2>1. b * c \in Nat /\ (b + 1) * c = b * c + c
    OBVIOUS
  <2>2. QED
    BY <2>1
<1>4. PICK m \in Nat \ {0} : m = BlockSize(n, b) /\ m <= c /\ from + m <= n /\ (m = c \/ from + m = n)
  <2>1. BlockSize(n, b) = IF from + c <= n THEN c ELSE n - from
    BY <1>2, <1>3 DEF BlockSize
  <2>2. from < n /\ n \in Nat
    BY <1>1, <1>2, <1>3
  <2>3. CASE from + c <= n
    BY <2>1, <2>3
  <2>4. CASE from + c > n
    <3>1. n - from \in Nat \ {0} /\ from + (n - from) = n /\ n - from <= c
      BY <2>2, <2>4
    <3>2. QED
      BY <2>1, <2>4, <3>1
  <2>5. QED
    BY <2>2, <2>3, <2>4
<1>5. PICK its : its = SubSeq(items, from + 1, from + m)
  OBVIOUS
<1>6. Len(its) = m /\ \A i \in 1 .. m : its[i] = items[from + i]
  <2>1. items \in Seq(Item) /\ n \in Nat /\ from + 1 \in 1 .. n + 1 /\ from + m \in 0 .. n
    BY <1>1, <1>4
  <2>0. PICK a \in Nat, e \in Nat : a = from + 1 /\ e = from + m
    OBVIOUS
  <2>2. a \in 1 .. n + 1 /\ e \in 0 .. n /\ a <= e + 1 /\ e - a + 1 = m
    BY <1>4, <2>0, <2>1
  <2>6. its = SubSeq(items, a, e)
    BY <1>5, <2>0
  <2>3. Len(its) = e - a + 1 /\ \A i \in 1 .. e - a + 1 : its[i] = items[a + i - 1]
    BY <1>1, <2>1, <2>2, <2>6, SubSeqProperties
  <2>4. \A i \in 1 .. m : a + i - 1 = from + i
    BY <2>0
  <2>5. QED
    BY <2>2, <2>3, <2>4
<1>7. PICK msg, proof : msg = PayBatchMessage(list, b) /\ proof = BlockProof(items, b)
  OBVIOUS
<1>8. msg = [root |-> root, own |-> TRUE, block |-> b, items |-> its, proof |-> proof]
  BY <1>1, <1>2, <1>3, <1>4, <1>5, <1>7 DEF PayBatchMessage
<1>9. Len(proof) = ProofHashes(n) /\ Recompute(b, its, proof) = Root(items)
  <2>1. BlockLog2 \in Nat /\ IsAt(from, b, Block) /\ from < n /\ m <= Block /\ from + m <= n
    BY <1>1, <1>2, <1>3, <1>4, BlockTyped DEF IsAt
  <2>2. (m = Block \/ from + m = n) /\ Follows(its, items, m, from)
    BY <1>2, <1>4, <1>6 DEF Follows
  <2>3. n \in Nat /\ Len(items) = n /\ Len(its) = m /\ proof = BlockProof(items, b)
    BY <1>1, <1>6, <1>7
  <2>4. QED
    BY <2>1, <2>2, <2>3, BlockGoesUp
<1>10. Proven(msg)
  BY <1>1, <1>4, <1>6, <1>8, <1>9 DEF Proven
<1>11. QED
  BY <1>7, <1>10
=============================================================================
