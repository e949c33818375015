--------------------------- MODULE JournalProofs ---------------------------
(***************************************************************************)
(* Theorems of Journal, for every set of payments, accounts, ids and       *)
(* proposals and every length of the list.  The list first: rows, ids,     *)
(* holds and hashes.  Then sums over finite sets, which other modules use, *)
(* and with them what the projection of the list means.                    *)
(***************************************************************************)
EXTENDS Journal, FiniteSetTheorems, TLAPS

\* The list is a sequence of rows that are numbered and chained, and whose
\* entries passed Validate.
RowsChained ==
  /\ \E S : rows \in Seq(S)
  /\ \A k \in DOMAIN rows : DOMAIN rows[k] = {"entry", "seq", "prev", "hash"}
  /\ \A k \in DOMAIN rows : rows[k].entry \in Entry /\ Valid(rows[k].entry)
  /\ Verify(rows)

\* resolved is what the posts and voids of the list name.
ResolvedIsNamed ==
  resolved = {e.holds : e \in EntriesOf({"post", "void"})}

JournalInv == RowsChained /\ ResolvedIsNamed /\ HoldResolvedOnce
-----------------------------------------------------------------------------
\* What a step of the journal does to the list: one row at its end.
LEMMA OneRowMore ==
  ASSUME RowsChained, NEW e \in Proposals, Append1(e)
  PROVE  /\ Len(rows) \in Nat
         /\ DOMAIN rows = 1 .. Len(rows)
         /\ Len(rows') = Len(rows) + 1
         /\ DOMAIN rows' = 1 .. Len(rows) + 1
         /\ \A k \in 1 .. Len(rows) : rows'[k] = rows[k]
         /\ rows'[Len(rows) + 1] = JournalRow(e)
         /\ \E S : rows' \in Seq(S)
<1>1. PICK S : rows \in Seq(S)
  BY DEF RowsChained
<1> DEFINE T == S \union {JournalRow(e)}
<1>2. rows \in Seq(T) /\ JournalRow(e) \in T
  BY <1>1
<1>3. rows' = Append(rows, JournalRow(e))
  BY DEF Append1
<1> HIDE DEF T
<1>4. rows' \in Seq(T)
  BY <1>2, <1>3
<1>5. QED
  BY <1>2, <1>3, <1>4

LEMMA JournalInvInductive ==
  JournalInv /\ [Next]_journalVars => JournalInv'
<1> SUFFICES ASSUME JournalInv, [Next]_journalVars
             PROVE  JournalInv'
  OBVIOUS
<1>1. ASSUME NEW e \in Proposals, Append1(e)
      PROVE  JournalInv'
  <2>0. PICK n \in Nat : n = Len(rows)
    BY <1>1, OneRowMore DEF JournalInv
  <2>1. /\ n \in Nat /\ DOMAIN rows = 1 .. n
        /\ Len(rows') = n + 1
        /\ DOMAIN rows' = 1 .. n + 1
        /\ \A k \in 1 .. n : rows'[k] = rows[k]
        /\ rows'[n + 1] = JournalRow(e)
        /\ \E S : rows' \in Seq(S)
    BY <1>1, <2>0, OneRowMore DEF JournalInv
  <2>2. /\ e \in Entry /\ Valid(e) /\ ~Known(e)
        /\ e.kind # "hold" => HasHold(e) /\ e.holds \notin resolved
    BY <1>1, ProposalsAssumption
       DEF Append1, Fresh, New, ErrNoSuchHold, ErrAlreadyResolved
  <2>3. rows'[n + 1].entry = e
    BY <2>1 DEF JournalRow, RowOf
  <2>4. RowsChained'
    <3>0. \A k \in DOMAIN rows' :
            DOMAIN rows'[k] = {"entry", "seq", "prev", "hash"}
      <4>1. DOMAIN JournalRow(e) = {"entry", "seq", "prev", "hash"}
        BY DEF JournalRow, RowOf
      <4>2. QED
        BY <2>1, <4>1 DEF JournalInv, RowsChained
    <3>1. \A k \in DOMAIN rows' :
            rows'[k].entry \in Entry /\ Valid(rows'[k].entry)
      BY <2>1, <2>2, <2>3 DEF JournalInv, RowsChained
    <3>2. rows'[n + 1].seq = n + 1
          /\ rows'[n + 1].prev = LastHash
          /\ rows'[n + 1].hash = HashOf(LastHash, n + 1, e)
      BY <2>0, <2>1 DEF JournalRow, RowOf
    <3>3. LastHash = IF n + 1 = 1 THEN None ELSE rows[n].hash
      BY <2>0, <2>1 DEF LastHash, Last, JournalInv, RowsChained
    <3>4. ASSUME NEW k \in DOMAIN rows'
          PROVE  /\ rows'[k].seq = k
                 /\ rows'[k].prev = IF k = 1 THEN None ELSE rows'[k - 1].hash
                 /\ rows'[k].hash = HashOf(rows'[k].prev, k, rows'[k].entry)
      <4>1. CASE k = n + 1
        BY <2>1, <2>3, <3>2, <3>3, <4>1
      <4>2. CASE k \in 1 .. n
        <5>1. rows'[k] = rows[k] /\ (k # 1 => rows'[k - 1] = rows[k - 1])
          BY <2>1, <4>2
        <5>2. QED
          BY <2>1, <4>2, <5>1 DEF JournalInv, RowsChained, Verify
      <4>3. QED
        BY <2>1, <4>1, <4>2
    <3>5. Verify(rows')
      BY <3>4 DEF Verify
    <3>6. QED
      BY <2>1, <3>0, <3>1, <3>5 DEF RowsChained
  <2>5. ResolvedIsNamed'
    <3>1. ASSUME NEW K
          PROVE  EntriesOf(K)' = EntriesOf(K)
                                   \union (IF e.kind \in K THEN {e} ELSE {})
      BY <2>1, <2>3 DEF EntriesOf
    <3>2. resolved' = resolved
                        \union (IF e.kind = "hold" THEN {} ELSE {e.holds})
      BY <1>1 DEF Append1
    <3>3. e.kind \in {"post", "void"} <=> e.kind # "hold"
      BY <2>2 DEF Entry
    <3>4. QED
      BY <3>1, <3>2, <3>3 DEF JournalInv, ResolvedIsNamed
  <2>6. HoldResolvedOnce'
    <3>1. \A j \in 1 .. n : rows[j].entry.id # e.id
      BY <2>1, <2>2 DEF Known, RowsOf
    <3>2. \A j \in 1 .. n : OnceAt(j) /\ Valid(rows[j].entry)
                            /\ rows[j].entry \in Entry
      BY <2>1 DEF JournalInv, HoldResolvedOnce, RowsChained
    <3>3. e.kind # "hold" => \A j \in 1 .. n : rows[j].entry.holds # e.holds
      <4> SUFFICES ASSUME e.kind # "hold", NEW j \in 1 .. n,
                          rows[j].entry.holds = e.holds
                   PROVE  FALSE
        OBVIOUS
      <4>1. rows[j].entry.kind # "hold"
        BY <2>2, <3>2 DEF Valid
      <4>2. rows[j].entry \in EntriesOf({"post", "void"})
        BY <2>1, <3>2, <4>1 DEF EntriesOf, Entry
      <4>3. e.holds \in resolved
        BY <4>2 DEF JournalInv, ResolvedIsNamed
      <4>4. QED
        BY <2>2, <4>3
    <3>4. OnceAt(n + 1)'
      <4>1. RowsOf(e.id)' = {n + 1}
        BY <2>1, <2>3, <3>1 DEF RowsOf
      <4>2. e.kind # "hold" =>
              \E j \in 1 .. n : /\ rows'[j].entry.id = e.holds
                                /\ rows'[j].entry.kind = "hold"
                                /\ rows'[j].entry.ref = e.ref
                                /\ rows'[j].entry.asset = e.asset
        BY <2>1, <2>2 DEF HasHold, RowsOf
      <4>3. QED
        BY <2>1, <2>3, <3>3, <4>1, <4>2 DEF OnceAt
    <3>5. ASSUME NEW k \in 1 .. n
          PROVE  OnceAt(k)'
      <4> DEFINE f == rows[k].entry
      <4>1. rows'[k].entry = f /\ OnceAt(k)
        BY <2>1, <3>2
      <4>2. RowsOf(f.id)' = {k}
        <5>1. \A j \in 1 .. n : rows[j].entry.id = f.id <=> j = k
          BY <2>1, <4>1 DEF RowsOf, OnceAt
        <5>2. e.id # f.id
          BY <3>1
        <5>3. \A j \in 1 .. n + 1 : rows'[j].entry.id = f.id <=> j = k
          BY <2>1, <2>3, <5>1, <5>2
        <5>4. QED
          BY <2>1, <5>3 DEF RowsOf
      <4>3. f.kind # "hold" => f.holds # e.holds
        <5>1. CASE e.kind = "hold"
          BY <2>2, <3>2, <5>1 DEF Valid
        <5>2. CASE e.kind # "hold"
          BY <3>3, <5>2
        <5>3. QED
          BY <5>1, <5>2
      <4>4. f.kind # "hold" =>
              \A j \in 1 .. n + 1 : rows'[j].entry.holds = f.holds => j = k
        BY <2>1, <2>3, <4>1, <4>3 DEF OnceAt
      <4>5. f.kind # "hold" =>
              \E j \in 1 .. k - 1 : /\ rows'[j].entry.id = f.holds
                                    /\ rows'[j].entry.kind = "hold"
                                    /\ rows'[j].entry.ref = f.ref
                                    /\ rows'[j].entry.asset = f.asset
        BY <2>1, <4>1 DEF OnceAt
      <4>6. QED
        BY <2>1, <4>1, <4>2, <4>4, <4>5 DEF OnceAt
    <3>6. QED
      BY <2>1, <3>4, <3>5 DEF HoldResolvedOnce
  <2>7. QED
    BY <2>4, <2>5, <2>6 DEF JournalInv
<1>2. CASE UNCHANGED journalVars
  BY <1>2 DEF journalVars, JournalInv, RowsChained, ResolvedIsNamed, EntriesOf,
              HoldResolvedOnce, OnceAt, RowsOf, Verify
<1>3. QED
  BY <1>1, <1>2 DEF Next

LEMMA JournalInvHolds == Spec => []JournalInv
<1>1. Init => JournalInv
  <2> SUFFICES ASSUME Init PROVE JournalInv
    OBVIOUS
  <2>1. rows = <<>> /\ resolved = {} /\ DOMAIN rows = {}
    BY DEF Init
  <2>2. rows \in Seq({})
    BY <2>1
  <2>3. QED
    BY <2>1, <2>2 DEF JournalInv, RowsChained, Verify, ResolvedIsNamed,
                      EntriesOf, HoldResolvedOnce
<1>2. QED
  BY <1>1, JournalInvInductive, PTL DEF Spec

\* The list holds entries, and resolved is what its posts and voids name.
THEOREM JournalTypeCorrect == Spec => []JournalTypeOK
<1>1. JournalInv => JournalTypeOK
  <2> SUFFICES ASSUME JournalInv PROVE JournalTypeOK
    OBVIOUS
  <2>1. PICK n \in Nat : DOMAIN rows = 1 .. n
    BY DEF JournalInv, RowsChained
  <2>2. \A k \in 1 .. n : rows[k].entry \in Entry
    BY <2>1 DEF JournalInv, RowsChained
  <2>3. [k \in 1 .. n |-> rows[k].entry] \in Seq(Entry)
    BY <2>2
  <2>4. QED
    BY <2>1, <2>3 DEF JournalTypeOK, JournalInv, ResolvedIsNamed
<1>2. QED
  BY <1>1, JournalInvHolds, PTL

\* A hold resolves exactly once: the second post or void of it is refused,
\* whatever was appended before, between and after.
THEOREM HoldIsResolvedOnce == Spec => []HoldResolvedOnce
<1>1. JournalInv => HoldResolvedOnce
  BY DEF JournalInv
<1>2. QED
  BY <1>1, JournalInvHolds, PTL

\* What Append accepted once it accepts in silence for ever, although the
\* hold it resolves is resolved by then: replays are looked for first.
THEOREM ReplayStaysSilent == Spec => []ReplayIsSilent
<1>1. JournalInv => ReplayIsSilent
  <2> SUFFICES ASSUME JournalInv, NEW k \in DOMAIN rows
               PROVE  LET e == rows[k].entry
                      IN  Replay(e) /\ ~ErrNoSuchHold(e) /\ ~ErrAlreadyResolved(e)
    BY DEF ReplayIsSilent
  <2> DEFINE e == rows[k].entry
  <2>1. k \in RowsOf(e.id) /\ Valid(e)
    BY DEF RowsOf, JournalInv, RowsChained
  <2>2. QED
    BY <2>1 DEF Replay, Same, ErrNoSuchHold, ErrAlreadyResolved, New, Known
<1>2. QED
  BY <1>1, JournalInvHolds, PTL
-----------------------------------------------------------------------------
\* A row's hash depends on each of the things it covers.
LEMMA HashCovers ==
  ASSUME NEW p, NEW q, NEW m, NEW n, NEW d, NEW e,
         HashOf(p, m, d) = HashOf(q, n, e)
  PROVE  p = q /\ m = n /\ d = e
BY DEF HashOf

\* Verify finds every edit: another content, with or without a new hash of
\* the row, rows exchanged or cut out, numbered again.
THEOREM VerifyFindsEdits == Spec => []EditsAreFound
<1>1. JournalInv => EditsAreFound
  <2> SUFFICES ASSUME JournalInv PROVE EditsAreFound
    OBVIOUS
  <2>1. PICK n \in Nat : n = Len(rows) /\ DOMAIN rows = 1 .. n
    BY DEF JournalInv, RowsChained
  <2>2. \A k \in 1 .. n :
          /\ rows[k].seq = k
          /\ rows[k].prev = IF k = 1 THEN None ELSE rows[k - 1].hash
          /\ rows[k].hash = HashOf(rows[k].prev, k, rows[k].entry)
    BY <2>1 DEF JournalInv, RowsChained, Verify
  <2>3. \A k \in 1 .. n : DOMAIN rows[k] = {"entry", "seq", "prev", "hash"}
    BY <2>1 DEF JournalInv, RowsChained
  <2>4. ASSUME NEW k \in 1 .. n, NEW e \in Proposals \ {rows[k].entry}
        PROVE  ~Verify(Edited(k, e))
    <3> DEFINE L == Edited(k, e)
    <3>1. DOMAIN L = 1 .. n /\ L[k] = [rows[k] EXCEPT !.entry = e]
      BY <2>1 DEF Edited
    <3>2. L[k].entry = e /\ L[k].prev = rows[k].prev /\ L[k].hash = rows[k].hash
      BY <2>3, <3>1
    <3>3. HashOf(rows[k].prev, k, e) # rows[k].hash
      BY <2>2, HashCovers
    <3> HIDE DEF L
    <3>4. ~Verify(L)
      BY <3>1, <3>2, <3>3 DEF Verify
    <3>5. QED
      BY <3>4 DEF L
  <2>5. ASSUME NEW k \in 1 .. n, NEW e \in Proposals \ {rows[k].entry}, k < n
        PROVE  ~Verify(Rehashed(k, e))
    <3> DEFINE L == Rehashed(k, e)
               h == HashOf(rows[k].prev, k, e)
    <3>1. /\ DOMAIN L = 1 .. n
          /\ L[k] = RowOf(rows[k].prev, k, e)
          /\ L[k + 1] = rows[k + 1]
      BY <2>1, <2>5 DEF Rehashed
    <3>2. L[k].hash = h
      BY <3>1 DEF RowOf
    <3>3. rows[k + 1].prev = rows[k].hash /\ rows[k].hash # h
      BY <2>2, <2>5, HashCovers
    <3> HIDE DEF L, h
    <3>4. ~Verify(L)
      <4>1. k + 1 \in 1 .. n /\ k + 1 # 1 /\ (k + 1) - 1 = k
        BY <2>5
      <4>2. QED
        BY <3>1, <3>2, <3>3, <4>1 DEF Verify
    <3>5. QED
      BY <3>4 DEF L
  <2>6. ASSUME NEW k \in 1 .. n, NEW j \in 1 .. k - 1
        PROVE  ~Verify(Exchanged(j, k))
    <3> DEFINE L == Exchanged(j, k)
    <3>1. /\ DOMAIN L = 1 .. n /\ k \in DOMAIN L /\ j \in 1 .. n
          /\ L[k] = [rows[j] EXCEPT !.seq = k]
      BY <2>1 DEF Exchanged
    <3>2. L[k].hash = rows[j].hash
      BY <2>3, <3>1
    <3>3. rows[j].hash = HashOf(rows[j].prev, j, rows[j].entry) /\ j # k
      BY <2>2, <3>1
    <3>4. rows[j].hash # HashOf(L[k].prev, k, L[k].entry)
      BY <3>3, HashCovers
    <3> HIDE DEF L
    <3>5. ~Verify(L)
      BY <3>1, <3>2, <3>4 DEF Verify
    <3>6. QED
      BY <3>5 DEF L
  <2>7. ASSUME NEW k \in 1 .. n, k < n
        PROVE  ~Verify(CutOut(k))
    <3> DEFINE L == CutOut(k)
    <3>1. /\ DOMAIN L = 1 .. n - 1 /\ k \in DOMAIN L
          /\ L[k] = [rows[k + 1] EXCEPT !.seq = k] /\ k + 1 \in 1 .. n
      BY <2>1, <2>7 DEF CutOut
    <3>2. L[k].hash = rows[k + 1].hash
      BY <2>3, <3>1
    <3>3. rows[k + 1].hash = HashOf(rows[k + 1].prev, k + 1, rows[k + 1].entry)
      BY <2>2, <3>1
    <3>4. rows[k + 1].hash # HashOf(L[k].prev, k, L[k].entry)
      BY <3>3, HashCovers
    <3> HIDE DEF L
    <3>5. ~Verify(L)
      BY <3>1, <3>2, <3>4 DEF Verify
    <3>6. QED
      BY <3>5 DEF L
  <2>8. QED
    BY <2>1, <2>4, <2>5, <2>6, <2>7 DEF EditsAreFound, JournalInv, RowsChained
<1>2. QED
  BY <1>1, JournalInvHolds, PTL
-----------------------------------------------------------------------------
(***************************************************************************)
(* Sums over finite sets.  SumOver takes the elements one after the other, *)
(* in an order CHOOSE gives; the sum does not depend on the order.         *)
(***************************************************************************)

\* Induction over the subsets of a finite set: of some subsets one is minimal.
LEMMA MinimalSubset ==
  ASSUME NEW S, IsFiniteSet(S), NEW D, D \subseteq SUBSET S, D # {}
  PROVE  \E T \in D : \A U \in SUBSET T : U # T => U \notin D
<1>1. IsWellFoundedOn(StrictSubsetOrdering(S), SUBSET S)
  BY FS_StrictSubsetOrderingWellFounded, FS_FiniteSubsetsOfFinite
<1>2. PICK T \in D : \A U \in D : ~ (<<U, T>> \in StrictSubsetOrdering(S))
  BY <1>1, WFMin
<1>3. ASSUME NEW U \in SUBSET T, U # T
      PROVE  U \notin D
  <2>1. <<U, T>> \in StrictSubsetOrdering(S)
    BY <1>2, <1>3 DEF StrictSubsetOrdering
  <2>2. QED
    BY <1>2, <2>1
<1>4. QED
  BY <1>3

\* g says of every subset of S what folding F over it gives; pick says which
\* element goes last.
Choice(pick, S) == \A s \in SUBSET S : s # {} => pick[s] \in s
Folding(g, S, base, pick, F) ==
  g = [s \in SUBSET S |->
         IF s = {} THEN base ELSE F[<<pick[s], g[s \ {pick[s]}]>>]]

\* Two foldings agree on the sets both know.
LEMMA FoldingIsUnique ==
  ASSUME NEW S, IsFiniteSet(S), NEW T, T \subseteq S, NEW base, NEW F,
         NEW pick, Choice(pick, S),
         NEW g, Folding(g, S, base, pick, F),
         NEW h, Folding(h, T, base, pick, F)
  PROVE  \A s \in SUBSET T : g[s] = h[s]
<1> DEFINE D == {s \in SUBSET T : g[s] # h[s]}
<1> SUFFICES ASSUME D # {} PROVE FALSE
  OBVIOUS
<1>1. PICK s \in D : \A u \in SUBSET s : u # s => u \notin D
  <2>1. IsFiniteSet(T)
    BY FS_Subset
  <2>2. D \subseteq SUBSET T
    OBVIOUS
  <2> HIDE DEF D
  <2>3. QED
    BY <2>1, <2>2, MinimalSubset
<1>2. /\ s \in SUBSET T /\ s \in SUBSET S
      /\ g[s] = IF s = {} THEN base ELSE F[<<pick[s], g[s \ {pick[s]}]>>]
      /\ h[s] = IF s = {} THEN base ELSE F[<<pick[s], h[s \ {pick[s]}]>>]
  BY DEF Folding
<1>3. s # {} /\ pick[s] \in s
  BY <1>2 DEF Choice
<1>4. s \ {pick[s]} \in SUBSET s /\ s \ {pick[s]} # s
  BY <1>3
<1>5. g[s \ {pick[s]}] = h[s \ {pick[s]}]
  BY <1>1, <1>2, <1>4
<1>6. QED
  BY <1>2, <1>3, <1>5

\* Every finite set has one.
LEMMA FoldingExists ==
  ASSUME NEW S, IsFiniteSet(S), NEW V, NEW base \in V, NEW F,
         \A x \in S, v \in V : F[<<x, v>>] \in V,
         NEW pick, Choice(pick, S)
  PROVE  \E g \in [SUBSET S -> V] : Folding(g, S, base, pick, F)
<1> DEFINE Has(T) == \E g \in [SUBSET T -> V] : Folding(g, T, base, pick, F)
           D == {T \in SUBSET S : ~Has(T)}
<1> SUFFICES ASSUME D # {} PROVE FALSE
  OBVIOUS
<1>1. PICK T \in D : \A U \in SUBSET T : U # T => U \notin D
  <2>1. D \subseteq SUBSET S
    OBVIOUS
  <2> HIDE DEF D
  <2>2. QED
    BY <2>1, MinimalSubset
<1>2. T \in SUBSET S /\ ~Has(T)
  OBVIOUS
<1>3. \A U \in SUBSET T : U # T => Has(U)
  BY <1>1, <1>2
<1>t. Choice(pick, T) /\ IsFiniteSet(T)
  BY <1>2, FS_Subset DEF Choice
<1> HIDE DEF D
<1> DEFINE Of(U) == CHOOSE g \in [SUBSET U -> V] : Folding(g, U, base, pick, F)
           x == pick[T]
           G == [s \in SUBSET T |->
                   IF s # T THEN Of(s)[s]
                   ELSE IF s = {} THEN base ELSE F[<<x, Of(T \ {x})[T \ {x}]>>]]
<1>4. ASSUME NEW U \in SUBSET T, U # T
      PROVE  Of(U) \in [SUBSET U -> V] /\ Folding(Of(U), U, base, pick, F)
  BY <1>3, <1>4
<1>5. ASSUME NEW U \in SUBSET T, U # T, NEW W \in SUBSET U
      PROVE  Of(U)[W] = Of(W)[W]
  <2>1. W \in SUBSET T /\ W # T
    BY <1>5
  <2>2. IsFiniteSet(U) /\ Choice(pick, U)
    BY <1>t, FS_Subset DEF Choice
  <2>3. Folding(Of(U), U, base, pick, F) /\ Folding(Of(W), W, base, pick, F)
    BY <1>4, <1>5, <2>1
  <2> HIDE DEF Of
  <2>4. QED
    BY <2>2, <2>3, FoldingIsUnique
<1>6. ASSUME NEW s \in SUBSET T
      PROVE  /\ G[s] \in V
             /\ G[s] = IF s = {} THEN base ELSE F[<<pick[s], G[s \ {pick[s]}]>>]
  <2>1. CASE s = T
    <3>1. CASE s = {}
      BY <2>1, <3>1
    <3>2. CASE s # {}
      <4>1. x \in T /\ T \ {x} \in SUBSET T /\ T \ {x} # T /\ x \in S
        BY <2>1, <3>2, <1>2 DEF Choice
      <4>2. G[T \ {x}] = Of(T \ {x})[T \ {x}]
        BY <4>1
      <4>3. Of(T \ {x})[T \ {x}] \in V
        BY <4>1, <1>4
      <4>4. G[s] = F[<<x, G[T \ {x}]>>]
        BY <2>1, <3>2, <4>2
      <4> HIDE DEF G, Of
      <4>5. QED
        BY <2>1, <3>2, <4>1, <4>2, <4>3, <4>4
    <3>3. QED
      BY <3>1, <3>2
  <2>2. CASE s # T
    <3>1. G[s] = Of(s)[s] /\ Of(s) \in [SUBSET s -> V]
      BY <2>2, <1>4
    <3>2. Folding(Of(s), s, base, pick, F)
      BY <2>2, <1>4
    <3>3. CASE s = {}
      <4> HIDE DEF G, Of
      <4>1. Of(s)[s] = base
        BY <3>2, <3>3 DEF Folding
      <4>2. QED
        BY <3>1, <3>3, <4>1
    <3>4. CASE s # {}
      <4> DEFINE w == s \ {pick[s]}
      <4>1. pick[s] \in s /\ w \in SUBSET s /\ w # T /\ w \in SUBSET T
        BY <2>2, <3>4, <1>t DEF Choice
      <4>2. Of(s)[w] = Of(w)[w]
        BY <2>2, <4>1, <1>5
      <4>3. G[w] = Of(w)[w]
        BY <4>1
      <4> HIDE DEF G, Of
      <4>4. Of(s)[s] = F[<<pick[s], Of(s)[w]>>]
        BY <3>2, <3>4, <4>1 DEF Folding
      <4>5. QED
        BY <3>1, <3>4, <4>2, <4>3, <4>4
    <3>5. QED
      BY <3>3, <3>4
  <2>3. QED
    BY <2>1, <2>2
<1>7. G = [s \in SUBSET T |-> G[s]]
  OBVIOUS
<1> HIDE DEF G, Of
<1>8. G \in [SUBSET T -> V]
  BY <1>6, <1>7
<1>9. Folding(G, T, base, pick, F)
  BY <1>6, <1>7 DEF Folding
<1>10. QED
  BY <1>2, <1>8, <1>9
-----------------------------------------------------------------------------
\* A finite set whose elements f maps to numbers.
Summable(S, f) == IsFiniteSet(S) /\ \A x \in S : f[x] \in Int

\* g says what f sums to on every subset of S, one element after the other.
IsSum(g, S, f) ==
  /\ g \in [SUBSET S -> Int]
  /\ \A T \in SUBSET S : SumOver(T, f) = g[T]
  /\ g[{}] = 0
  /\ \A s \in SUBSET S : s # {} => \E x \in s : g[s] = f[x] + g[s \ {x}]

\* SumOver is a folding, the same one for every subset.
LEMMA SumIsFolding ==
  ASSUME NEW S, NEW f, Summable(S, f)
  PROVE  \E g : IsSum(g, S, f)
<1>0. IsFiniteSet(S) /\ \A x \in S : f[x] \in Int
  BY DEF Summable
<1> DEFINE pick == [s \in SUBSET S |-> CHOOSE x \in s : TRUE]
           F == [p \in S \X Int |-> f[p[1]] + p[2]]
<1>1. Choice(pick, S)
  BY DEF Choice
<1>2. \A x \in S, v \in Int : F[<<x, v>>] = f[x] + v /\ F[<<x, v>>] \in Int
  BY <1>0
<1>3. \A s \in SUBSET S : pick[s] = CHOOSE x \in s : TRUE
  OBVIOUS
<1> HIDE DEF pick, F
<1>4. ASSUME NEW T \in SUBSET S
      PROVE  \E g \in [SUBSET T -> Int] :
               Folding(g, T, 0, pick, F) /\ SumOver(T, f) = g[T]
  <2>1. IsFiniteSet(T) /\ Choice(pick, T) /\ \A x \in T, v \in Int : F[<<x, v>>] \in Int
    BY <1>0, <1>1, <1>2, FS_Subset DEF Choice
  <2>2. PICK g \in [SUBSET T -> Int] : Folding(g, T, 0, pick, F)
    <3>1. 0 \in Int
      OBVIOUS
    <3>2. QED
      BY <2>1, <3>1, FoldingExists
  <2> DEFINE Q(h) == h = [s \in SUBSET T |->
                IF s = {} THEN 0
                ELSE f[CHOOSE x \in s : TRUE] + h[s \ {CHOOSE x \in s : TRUE}]]
             sum == CHOOSE h : Q(h)
  <2>3. ASSUME NEW s \in SUBSET T
        PROVE  g[s] = IF s = {} THEN 0
                ELSE f[CHOOSE x \in s : TRUE] + g[s \ {CHOOSE x \in s : TRUE}]
    <3>1. CASE s = {}
      BY <2>2, <3>1 DEF Folding
    <3>2. CASE s # {}
      <4>1. pick[s] \in s /\ pick[s] \in S /\ s \ {pick[s]} \in SUBSET T
        BY <2>1, <3>2 DEF Choice
      <4>2. g[s] = F[<<pick[s], g[s \ {pick[s]}]>>]
        BY <2>2, <3>2 DEF Folding
      <4>3. g[s \ {pick[s]}] \in Int
        BY <2>2, <4>1
      <4>4. g[s] = f[pick[s]] + g[s \ {pick[s]}]
        BY <1>2, <4>1, <4>2, <4>3
      <4>5. QED
        BY <1>3, <3>2, <4>4
    <3>3. QED
      BY <3>1, <3>2
  <2>4. g = [s \in SUBSET T |-> g[s]]
    BY <2>2
  <2>5. Q(g)
    BY <2>3, <2>4
  <2>6. Q(sum)
    <3> HIDE DEF Q
    <3>1. QED
      BY <2>5
  <2>7. SumOver(T, f) = sum[T]
    BY DEF SumOver, FoldFunctionOnSet, MapThenFoldSet
  <2> DEFINE E == {s \in SUBSET T : g[s] # sum[s]}
  <2>8. E = {}
    <3> SUFFICES ASSUME E # {} PROVE FALSE
      OBVIOUS
    <3>1. PICK s \in E : \A u \in SUBSET s : u # s => u \notin E
      <4>1. E \subseteq SUBSET T
        OBVIOUS
      <4> HIDE DEF E
      <4>2. QED
        BY <4>1, <2>1, MinimalSubset
    <3>2. s \in SUBSET T /\ g[s] # sum[s]
      OBVIOUS
    <3> DEFINE x == CHOOSE x \in s : TRUE
    <3>3. sum[s] = IF s = {} THEN 0 ELSE f[x] + sum[s \ {x}]
      <4> HIDE DEF sum
      <4>1. QED
        BY <2>6, <3>2
    <3> HIDE DEF sum
    <3>4. s # {}
      BY <2>3, <3>2, <3>3
    <3>5. x \in s
      BY <3>4
    <3>6. s \ {x} \in SUBSET s /\ s \ {x} # s
      BY <3>5
    <3>7. g[s \ {x}] = sum[s \ {x}]
      BY <3>1, <3>2, <3>6
    <3>8. QED
      BY <2>3, <3>2, <3>3, <3>4, <3>7
  <2> HIDE DEF sum, Q
  <2>9. g[T] = sum[T]
    BY <2>8
  <2>10. QED
    BY <2>2, <2>7, <2>9
<1>5. PICK g \in [SUBSET S -> Int] : Folding(g, S, 0, pick, F) /\ SumOver(S, f) = g[S]
  BY <1>4
<1>6. ASSUME NEW T \in SUBSET S
      PROVE  SumOver(T, f) = g[T]
  <2>1. PICK h \in [SUBSET T -> Int] : Folding(h, T, 0, pick, F) /\ SumOver(T, f) = h[T]
    BY <1>4
  <2>2. g[T] = h[T]
    BY <1>0, <1>1, <1>5, <2>1, FoldingIsUnique
  <2>3. QED
    BY <2>1, <2>2
<1>7. g[{}] = 0
  BY <1>5 DEF Folding
<1>8. ASSUME NEW s \in SUBSET S, s # {}
      PROVE  \E x \in s : g[s] = f[x] + g[s \ {x}]
  <2>1. pick[s] \in s /\ s \ {pick[s]} \in SUBSET S
    BY <1>1, <1>8 DEF Choice
  <2>2. g[s] = F[<<pick[s], g[s \ {pick[s]}]>>] /\ g[s \ {pick[s]}] \in Int
    BY <1>5, <1>8, <2>1 DEF Folding
  <2>3. QED
    BY <1>2, <2>1, <2>2
<1>9. QED
  BY <1>5, <1>6, <1>7, <1>8 DEF IsSum

\* It is a number, zero when there is nothing to add.
LEMMA SumTyped ==
  ASSUME NEW S, NEW f, Summable(S, f)
  PROVE  SumOver(S, f) \in Int
<1>1. PICK g : IsSum(g, S, f)
  BY SumIsFolding
<1>2. SumOver(S, f) = g[S] /\ S \in SUBSET S
  BY <1>1 DEF IsSum
<1>3. QED
  BY <1>1, <1>2 DEF IsSum

LEMMA SumOfNone == ASSUME NEW f PROVE SumOver({}, f) = 0
<1>1. Summable({}, f)
  BY FS_EmptySet DEF Summable
<1>2. PICK g : IsSum(g, {}, f)
  BY <1>1, SumIsFolding
<1>3. QED
  BY <1>2 DEF IsSum

\* The order does not matter: any element may be taken out.
LEMMA SumWithout ==
  ASSUME NEW S, NEW f, Summable(S, f), NEW y \in S
  PROVE  SumOver(S, f) = f[y] + SumOver(S \ {y}, f)
<1>1. PICK g : IsSum(g, S, f)
  BY SumIsFolding
<1> DEFINE D == {T \in SUBSET S : \E z \in T : g[T] # f[z] + g[T \ {z}]}
<1>2. D = {}
  <2> SUFFICES ASSUME D # {} PROVE FALSE
    OBVIOUS
  <2>1. PICK T \in D : \A U \in SUBSET T : U # T => U \notin D
    <3>1. D \subseteq SUBSET S
      OBVIOUS
    <3> HIDE DEF D
    <3>2. QED
      BY <3>1, MinimalSubset DEF Summable
  <2>2. PICK z \in T : g[T] # f[z] + g[T \ {z}]
    OBVIOUS
  <2>3. T \in SUBSET S
    OBVIOUS
  <2>4. PICK x \in T : g[T] = f[x] + g[T \ {x}]
    BY <1>1, <2>2, <2>3 DEF IsSum
  <2>5. x # z
    BY <2>2, <2>4
  <2>6. g[T \ {x}] = f[z] + g[(T \ {x}) \ {z}]
    BY <2>1, <2>2, <2>3, <2>4, <2>5
  <2>7. g[T \ {z}] = f[x] + g[(T \ {z}) \ {x}]
    BY <2>1, <2>2, <2>3, <2>4, <2>5
  <2>8. (T \ {z}) \ {x} = (T \ {x}) \ {z}
    OBVIOUS
  <2>9. PICK n \in Int : n = g[(T \ {x}) \ {z}]
    BY <1>1, <2>3 DEF IsSum
  <2>10. f[x] \in Int /\ f[z] \in Int
    BY <2>2, <2>3, <2>4 DEF Summable
  <2>12. g[(T \ {z}) \ {x}] = n
    BY <2>8, <2>9
  <2> HIDE DEF D
  <2>11. QED
    BY <2>2, <2>4, <2>6, <2>7, <2>12, <2>9, <2>10
<1>3. S \in SUBSET S /\ S \ {y} \in SUBSET S
  OBVIOUS
<1>4. SumOver(S, f) = g[S] /\ SumOver(S \ {y}, f) = g[S \ {y}]
  BY <1>1, <1>3 DEF IsSum
<1>5. S \notin D
  BY <1>2
<1>6. QED
  BY <1>3, <1>4, <1>5

LEMMA SumOfEqual ==
  ASSUME NEW S, NEW f, NEW h, \A x \in S : f[x] = h[x]
  PROVE  SumOver(S, f) = SumOver(S, h)
<1>1. ASSUME NEW g
      PROVE  [s \in SUBSET S |-> IF s = {} THEN 0
                ELSE f[CHOOSE x \in s : TRUE] + g[s \ {CHOOSE x \in s : TRUE}]]
           = [s \in SUBSET S |-> IF s = {} THEN 0
                ELSE h[CHOOSE x \in s : TRUE] + g[s \ {CHOOSE x \in s : TRUE}]]
  <2>1. \A s \in SUBSET S : s # {} => (CHOOSE x \in s : TRUE) \in S
    OBVIOUS
  <2>2. \A s \in SUBSET S : s # {} => f[CHOOSE x \in s : TRUE] = h[CHOOSE x \in s : TRUE]
    BY <2>1
  <2>3. QED
    BY <2>2
<1> DEFINE Qf(g) == g = [s \in SUBSET S |-> IF s = {} THEN 0
                ELSE f[CHOOSE x \in s : TRUE] + g[s \ {CHOOSE x \in s : TRUE}]]
           Qh(g) == g = [s \in SUBSET S |-> IF s = {} THEN 0
                ELSE h[CHOOSE x \in s : TRUE] + g[s \ {CHOOSE x \in s : TRUE}]]
<1>2. \A g : Qf(g) <=> Qh(g)
  BY <1>1
<1>4. SumOver(S, f) = (CHOOSE g : Qf(g))[S] /\ SumOver(S, h) = (CHOOSE g : Qh(g))[S]
  BY DEF SumOver, FoldFunctionOnSet, MapThenFoldSet
<1> HIDE DEF Qf, Qh
<1>5. (CHOOSE g : Qf(g)) = (CHOOSE g : Qh(g))
  BY <1>2
<1>3. QED
  BY <1>4, <1>5

\* And any new one put in.
LEMMA SumWith ==
  ASSUME NEW S, NEW f, NEW y, Summable(S \union {y}, f), y \notin S
  PROVE  SumOver(S \union {y}, f) = f[y] + SumOver(S, f)
<1>1. (S \union {y}) \ {y} = S /\ y \in S \union {y}
  OBVIOUS
<1>2. QED
  BY <1>1, SumWithout

\* Two legs.
LEMMA SumOfTwo ==
  ASSUME NEW x, NEW y, x # y, NEW f, f[x] \in Int, f[y] \in Int
  PROVE  SumOver({x, y}, f) = f[x] + f[y]
<1>1. IsFiniteSet({x, y}) /\ IsFiniteSet({x})
  <2>1. IsFiniteSet({x}) /\ {x, y} = {x} \union {y}
    BY FS_Singleton
  <2>2. QED
    BY <2>1, FS_AddElement
<1>2. Summable({x, y}, f) /\ Summable({x}, f)
  BY <1>1 DEF Summable
<1>3. {x, y} \ {y} = {x} /\ {x} \ {x} = {}
  OBVIOUS
<1>4. SumOver({x, y}, f) = f[y] + SumOver({x}, f)
  BY <1>2, <1>3, SumWithout
<1>5. SumOver({x}, f) = f[x] + SumOver({}, f)
  BY <1>2, <1>3, SumWithout
<1>6. QED
  BY <1>4, <1>5, SumOfNone
-----------------------------------------------------------------------------
\* A finite set of numbers has its maximum.
LEMMA MaxIn ==
  ASSUME NEW S, IsFiniteSet(S), S \subseteq Int, S # {}
  PROVE  Max(S) \in S /\ \A y \in S : Max(S) >= y
<1> DEFINE D == {T \in SUBSET S : T # {} /\ \A x \in T : \E y \in T : y > x}
<1>1. D = {}
  <2> SUFFICES ASSUME D # {} PROVE FALSE
    OBVIOUS
  <2>1. PICK T \in D : \A U \in SUBSET T : U # T => U \notin D
    <3>1. D \subseteq SUBSET S
      OBVIOUS
    <3> HIDE DEF D
    <3>2. QED
      BY <3>1, MinimalSubset
  <2>2. PICK x \in T : TRUE
    OBVIOUS
  <2>3. T \in SUBSET S /\ T \subseteq Int /\ x \in Int
    OBVIOUS
  <2>4. T \ {x} \notin D /\ T \ {x} \in SUBSET S
    BY <2>1, <2>2
  <2>5. PICK y \in T : y > x
    OBVIOUS
  <2>6. PICK z \in T \ {x} : \A w \in T \ {x} : ~(w > z)
    BY <2>4, <2>5
  <2>7. PICK w \in T : w > z
    OBVIOUS
  <2>8. w = x
    BY <2>6, <2>7
  <2> HIDE DEF D
  <2>9. QED
    BY <2>3, <2>5, <2>6, <2>7, <2>8
<1>2. S \notin D
  BY <1>1
<1>3. \E x \in S : \A y \in S : x >= y
  BY <1>2
<1>4. QED
  BY <1>3 DEF Max

(***************************************************************************)
(* Balances folds the list with Step.                                      *)
(***************************************************************************)
Opening == [pending |-> Zero, posted |-> Zero, holds |-> {}]

\* g is such a fold: g[1 .. k] is the projection of the first k rows.
Tallies(g, list) ==
  g = [s \in SUBSET DOMAIN list |->
         IF s = {} THEN Opening ELSE Step(g[s \ {Max(s)}], list[Max(s)].entry)]

Total(S, as, ac) ==
  SumOver({e \in S : e.asset = as}, [e \in S |-> e.legs[ac]])
OpenHolds == {e \in EntriesOf({"hold"}) : e.id \notin resolved}

\* b says what the rows mean.
AreTheBooks(b) ==
  /\ b = [pending |-> b.pending, posted |-> b.posted,
          holds |-> EntriesOf({"hold"})]
  /\ b.pending \in [Assets \X Accounts -> Int]
  /\ b.posted \in [Assets \X Accounts -> Int]
  /\ \A as \in Assets, ac \in Accounts :
       /\ b.pending[<<as, ac>>] = Total(OpenHolds, as, ac)
       /\ b.posted[<<as, ac>>] = Total(EntriesOf({"post"}), as, ac)

\* Whatever folds the list says what the rows mean, and something does.
TalliesAreTheBooks ==
  /\ IsFiniteSet(EntriesOf({"hold"})) /\ IsFiniteSet(EntriesOf({"post"}))
  /\ \E g : Tallies(g, rows)
  /\ \A g : Tallies(g, rows) => AreTheBooks(g[DOMAIN rows])

\* One entry more in a total.
LEMMA TotalWith ==
  ASSUME NEW S \in SUBSET Entry, IsFiniteSet(S), NEW e \in Entry, e \notin S,
         NEW as \in Assets, NEW ac \in Accounts
  PROVE  /\ Total(S, as, ac) \in Int
         /\ Total(S \union {e}, as, ac) =
              Total(S, as, ac) + (IF e.asset = as THEN e.legs[ac] ELSE 0)
<1> DEFINE T == {x \in S : x.asset = as}
           U == {x \in S \union {e} : x.asset = as}
           f == [x \in S |-> x.legs[ac]]
           h == [x \in S \union {e} |-> x.legs[ac]]
<1>1. \A x \in Entry : x.legs[ac] \in Int
  BY DEF Entry
<1>2. IsFiniteSet(T) /\ IsFiniteSet(U)
  <2>1. IsFiniteSet(S \union {e})
    BY FS_AddElement
  <2>2. T \in SUBSET S /\ U \in SUBSET (S \union {e})
    OBVIOUS
  <2>3. QED
    BY <2>1, <2>2, FS_Subset
<1>3. Summable(T, f) /\ Summable(U, h) /\ Summable(T, h)
  BY <1>1, <1>2 DEF Summable
<1>4. SumOver(T, f) = SumOver(T, h)
  BY SumOfEqual
<1>5. SumOver(T, f) \in Int
  BY <1>3, SumTyped
<1>9. /\ Total(S, as, ac) = SumOver(T, f)
      /\ Total(S \union {e}, as, ac) = SumOver(U, h)
  BY DEF Total
<1>6. CASE e.asset = as
  <2>1. U = T \union {e} /\ e \notin T /\ h[e] = e.legs[ac]
    BY <1>6
  <2>2. SumOver(U, h) = h[e] + SumOver(T, h)
    <3> HIDE DEF U, T, h
    <3>1. QED
      BY <1>3, <2>1, SumWith
  <2>3. e.legs[ac] \in Int
    BY <1>1
  <2> HIDE DEF U, T, f, h
  <2>4. QED
    BY <1>4, <1>5, <1>6, <1>9, <2>1, <2>2, <2>3
<1>7. CASE e.asset # as
  <2>1. U = T
    BY <1>7
  <2> HIDE DEF U, T, f, h
  <2>2. QED
    BY <1>4, <1>5, <1>7, <1>9, <2>1
<1>8. QED
  BY <1>6, <1>7

\* m is l, of n rows, and one row more.
Longer(m, l, n) ==
  /\ n \in Nat /\ DOMAIN l = 1 .. n /\ DOMAIN m = 1 .. n + 1
  /\ \A k \in 1 .. n : m[k] = l[k]

\* Every fold of m is one of l and a step more, and there is one.
OneStepLonger(m, l, n) ==
  /\ \E g : Tallies(g, m)
  /\ \A g : Tallies(g, m) =>
       \E h : /\ Tallies(h, l)
              /\ g[DOMAIN m] = Step(h[DOMAIN l], m[n + 1].entry)

\* The fold of a list with one row more takes one step more.
LEMMA OneStepMore ==
  ASSUME NEW l, NEW m, NEW n, Longer(m, l, n), \E g : Tallies(g, l)
  PROVE  OneStepLonger(m, l, n)
<1>0. /\ n \in Nat /\ DOMAIN l = 1 .. n /\ DOMAIN m = 1 .. n + 1
      /\ \A k \in 1 .. n : m[k] = l[k]
  BY DEF Longer
<1> USE <1>0
<1>1. ASSUME NEW s \in SUBSET (1 .. n + 1)
      PROVE  /\ n + 1 \in s => /\ Max(s) = n + 1
                               /\ s \ {n + 1} \in SUBSET (1 .. n)
             /\ n + 1 \notin s => s \in SUBSET (1 .. n)
  <2>1. ASSUME n + 1 \in s PROVE Max(s) = n + 1
    <3>1. \A y \in s : n + 1 >= y
      OBVIOUS
    <3>2. \A x \in s : (\A y \in s : x >= y) => x = n + 1
      BY <2>1
    <3>3. QED
      BY <2>1, <3>1, <3>2 DEF Max
  <2>2. QED
    BY <2>1
<1>2. ASSUME NEW s \in SUBSET (1 .. n), s # {}
      PROVE  Max(s) \in s
  <2>0. IsFiniteSet(1 .. n) /\ s \subseteq Int
    BY FS_Interval
  <2>1. IsFiniteSet(s)
    BY <2>0, FS_Subset
  <2>2. QED
    BY <1>2, <2>0, <2>1, MaxIn
<1>3. \E g : Tallies(g, m)
  <2>1. PICK g : Tallies(g, l)
    OBVIOUS
  <2> DEFINE G == [s \in SUBSET (1 .. n + 1) |->
                     IF n + 1 \in s THEN Step(g[s \ {n + 1}], m[n + 1].entry)
                     ELSE g[s]]
  <2>2. ASSUME NEW s \in SUBSET DOMAIN m
        PROVE  G[s] = IF s = {} THEN Opening
                      ELSE Step(G[s \ {Max(s)}], m[Max(s)].entry)
    <3>1. CASE n + 1 \in s
      <4>1. s \ {n + 1} \in SUBSET (1 .. n + 1) /\ n + 1 \notin s \ {n + 1}
        OBVIOUS
      <4>2. G[s \ {n + 1}] = g[s \ {n + 1}]
        BY <4>1
      <4>3. G[s] = Step(g[s \ {n + 1}], m[n + 1].entry)
        BY <3>1
      <4>4. s # {} /\ Max(s) = n + 1
        BY <3>1, <1>1
      <4> HIDE DEF G
      <4>5. QED
        BY <4>2, <4>3, <4>4
    <3>2. CASE n + 1 \notin s
      <4>1. s \in SUBSET (1 .. n) /\ G[s] = g[s]
        BY <3>2, <1>1
      <4>2. g[s] = IF s = {} THEN Opening
                   ELSE Step(g[s \ {Max(s)}], l[Max(s)].entry)
        BY <2>1, <4>1 DEF Tallies
      <4>3. CASE s # {}
        <5>1. Max(s) \in 1 .. n /\ s \ {Max(s)} \in SUBSET (1 .. n)
          BY <1>2, <4>1, <4>3
        <5>2. G[s \ {Max(s)}] = g[s \ {Max(s)}]
          BY <5>1
        <5> HIDE DEF G
        <5>3. QED
          BY <4>1, <4>2, <4>3, <5>1, <5>2
      <4> HIDE DEF G
      <4>4. QED
        BY <4>1, <4>2, <4>3
    <3>3. QED
      BY <3>1, <3>2
  <2>3. G = [s \in SUBSET DOMAIN m |-> G[s]]
    OBVIOUS
  <2> HIDE DEF G
  <2>4. G = [s \in SUBSET DOMAIN m |->
               IF s = {} THEN Opening
               ELSE Step(G[s \ {Max(s)}], m[Max(s)].entry)]
    BY <2>2, <2>3
  <2>5. Tallies(G, m)
    BY <2>4 DEF Tallies
  <2>6. QED
    BY <2>5
<1>4. ASSUME NEW g, Tallies(g, m)
      PROVE  \E h : /\ Tallies(h, l)
                    /\ g[DOMAIN m] = Step(h[DOMAIN l], m[n + 1].entry)
  <2> DEFINE h == [s \in SUBSET (1 .. n) |-> g[s]]
  <2>1. ASSUME NEW s \in SUBSET DOMAIN m
        PROVE  g[s] = IF s = {} THEN Opening
                      ELSE Step(g[s \ {Max(s)}], m[Max(s)].entry)
    BY <1>4 DEF Tallies
  <2>2. ASSUME NEW s \in SUBSET DOMAIN l
        PROVE  h[s] = IF s = {} THEN Opening
                      ELSE Step(h[s \ {Max(s)}], l[Max(s)].entry)
    <3>1. s \in SUBSET (1 .. n + 1) /\ h[s] = g[s]
      OBVIOUS
    <3>2. CASE s # {}
      <4>1. Max(s) \in 1 .. n /\ s \ {Max(s)} \in SUBSET (1 .. n)
        BY <1>2, <3>2
      <4>2. h[s \ {Max(s)}] = g[s \ {Max(s)}]
        BY <4>1
      <4> HIDE DEF h
      <4>3. QED
        BY <2>1, <3>1, <3>2, <4>1, <4>2
    <3> HIDE DEF h
    <3>3. QED
      BY <2>1, <3>1, <3>2
  <2>3. h = [s \in SUBSET DOMAIN l |-> h[s]]
    OBVIOUS
  <2>4. h[1 .. n] = g[1 .. n]
    OBVIOUS
  <2> HIDE DEF h
  <2>5. h = [s \in SUBSET DOMAIN l |->
               IF s = {} THEN Opening
               ELSE Step(h[s \ {Max(s)}], l[Max(s)].entry)]
    BY <2>2, <2>3
  <2>6. Tallies(h, l)
    BY <2>5 DEF Tallies
  <2>7. g[1 .. n + 1] = Step(g[1 .. n], m[n + 1].entry)
    <3>1. n + 1 \in 1 .. n + 1 /\ (1 .. n + 1) \ {n + 1} = 1 .. n
      OBVIOUS
    <3>2. Max(1 .. n + 1) = n + 1
      BY <1>1, <3>1
    <3>3. QED
      BY <2>1, <3>1, <3>2
  <2>8. QED
    BY <2>4, <2>6, <2>7
<1>5. QED
  BY <1>3, <1>4 DEF OneStepLonger

\* A row leaves the meaning of the books where Step leaves its projection.
LEMMA StepKeepsTheBooks ==
  ASSUME JournalInv, JournalInv', NEW e \in Proposals, Append1(e),
         IsFiniteSet(EntriesOf({"hold"})), IsFiniteSet(EntriesOf({"post"})),
         NEW b, AreTheBooks(b)
  PROVE  /\ AreTheBooks(Step(b, e))'
         /\ IsFiniteSet(EntriesOf({"hold"}))' /\ IsFiniteSet(EntriesOf({"post"}))'
<1> DEFINE holds == EntriesOf({"hold"})
           posts == EntriesOf({"post"})
           open == OpenHolds
           key == Assets \X Accounts
<1>0. PICK n \in Nat : n = Len(rows)
  BY OneRowMore DEF JournalInv
<1>1. /\ DOMAIN rows = 1 .. n /\ DOMAIN rows' = 1 .. n + 1
      /\ \A k \in 1 .. n : rows'[k] = rows[k]
      /\ rows'[n + 1].entry = e
  <2>1. /\ DOMAIN rows = 1 .. n /\ DOMAIN rows' = 1 .. n + 1
        /\ \A k \in 1 .. n : rows'[k] = rows[k]
        /\ rows'[n + 1] = JournalRow(e)
    BY <1>0, OneRowMore DEF JournalInv
  <2>2. JournalRow(e).entry = e
    BY DEF JournalRow, RowOf
  <2>3. QED
    BY <2>1, <2>2
<1>2. /\ e \in Entry /\ Valid(e) /\ ~Known(e)
      /\ e.kind # "hold" => HasHold(e) /\ e.holds \notin resolved
      /\ resolved' = resolved \union (IF e.kind = "hold" THEN {} ELSE {e.holds})
  BY ProposalsAssumption
     DEF Append1, Fresh, New, ErrNoSuchHold, ErrAlreadyResolved
<1>3. ASSUME NEW K
      PROVE  EntriesOf(K)' = EntriesOf(K) \union (IF e.kind \in K THEN {e} ELSE {})
  BY <1>1 DEF EntriesOf
<1>4. \A K : EntriesOf(K) \in SUBSET Entry /\ e \notin EntriesOf(K)
  BY <1>1, <1>2 DEF EntriesOf, JournalInv, RowsChained, Known, RowsOf
<1>5. IsFiniteSet(holds)' /\ IsFiniteSet(posts)'
  BY <1>3, FS_AddElement
<1>6. /\ \A x \in holds : x.kind = "hold" /\ x.id # e.id
      /\ \A x, y \in holds : x.id = y.id => x = y
  <2>1. ASSUME NEW x \in holds, NEW y \in holds, x.id = y.id
        PROVE  x = y
    <3>1. PICK j \in DOMAIN rows : rows[j].entry = x
      BY DEF EntriesOf
    <3>2. PICK k \in DOMAIN rows : rows[k].entry = y
      BY DEF EntriesOf
    <3>3. RowsOf(x.id) = {j} /\ k \in RowsOf(x.id)
      BY <2>1, <3>1, <3>2 DEF JournalInv, HoldResolvedOnce, OnceAt, RowsOf
    <3>4. QED
      BY <3>1, <3>2, <3>3
  <2>2. \A x \in holds : x.kind = "hold" /\ x.id # e.id
    BY <1>2 DEF EntriesOf, Known, RowsOf
  <2>3. QED
    BY <2>1, <2>2
<1>7. e.id \notin resolved
  <2> SUFFICES ASSUME e.id \in resolved PROVE FALSE
    OBVIOUS
  <2>1. PICK x \in EntriesOf({"post", "void"}) : x.holds = e.id
    BY DEF JournalInv, ResolvedIsNamed
  <2>2. PICK k \in DOMAIN rows : rows[k].entry = x /\ x.kind # "hold"
    BY <2>1 DEF EntriesOf
  <2>3. \E j \in 1 .. k - 1 : rows[j].entry.id = e.id
    BY <2>1, <2>2 DEF JournalInv, HoldResolvedOnce, OnceAt
  <2>4. QED
    BY <1>1, <1>2, <2>2, <2>3 DEF Known, RowsOf
<1>b. /\ b = [pending |-> b.pending, posted |-> b.posted, holds |-> holds]
      /\ b.pending \in [key -> Int] /\ b.posted \in [key -> Int]
      /\ b.holds = holds
      /\ \A as \in Assets, ac \in Accounts :
           /\ b.pending[<<as, ac>>] = Total(open, as, ac)
           /\ b.posted[<<as, ac>>] = Total(posts, as, ac)
  BY DEF AreTheBooks
<1>f. /\ open \in SUBSET Entry /\ IsFiniteSet(open)
      /\ open \in SUBSET holds
  <2>1. open \in SUBSET holds
    BY DEF OpenHolds
  <2>2. QED
    BY <2>1, <1>4, FS_Subset
<1>p. ASSUME NEW x \in Entry
      PROVE  /\ Plus(b.pending, x) \in [key -> Int]
             /\ Plus(b.posted, x) \in [key -> Int]
             /\ Minus(b.pending, x) \in [key -> Int]
             /\ \A as \in Assets, ac \in Accounts :
                  LET d == IF x.asset = as THEN x.legs[ac] ELSE 0
                  IN  /\ Plus(b.pending, x)[<<as, ac>>] = b.pending[<<as, ac>>] + d
                      /\ Plus(b.posted, x)[<<as, ac>>] = b.posted[<<as, ac>>] + d
                      /\ Minus(b.pending, x)[<<as, ac>>] = b.pending[<<as, ac>>] - d
                      /\ d \in Int
  <2>1. \A ac \in Accounts : x.legs[ac] \in Int
    BY DEF Entry
  <2>2. DOMAIN b.pending = key /\ DOMAIN b.posted = key
    BY <1>b
  <2>3. \A k \in key : /\ k[1] \in Assets /\ k[2] \in Accounts
                       /\ b.pending[k] \in Int /\ b.posted[k] \in Int
    BY <1>b
  <2>4. QED
    BY <2>1, <2>2, <2>3 DEF Plus, Minus
<1>8. CASE e.kind = "hold"
  <2>1. holds' = holds \union {e} /\ posts' = posts /\ resolved' = resolved
    BY <1>2, <1>3, <1>8
  <2>2. OpenHolds' = open \union {e} /\ e \notin open
    BY <1>4, <1>7, <2>1 DEF OpenHolds
  <2>3. PICK c : c = Step(b, e)
    OBVIOUS
  <2>4. /\ c = [pending |-> Plus(b.pending, e), posted |-> b.posted,
                holds |-> holds \union {e}]
        /\ c.pending = Plus(b.pending, e) /\ c.posted = b.posted
        /\ c.holds = holds \union {e}
    BY <1>8, <1>b, <2>3 DEF Step
  <2>5. ASSUME NEW as \in Assets, NEW ac \in Accounts
        PROVE  /\ c.pending[<<as, ac>>] = Total(OpenHolds', as, ac)
               /\ c.posted[<<as, ac>>] = Total(posts', as, ac)
    <3>1. Total(open \union {e}, as, ac) =
            Total(open, as, ac) + (IF e.asset = as THEN e.legs[ac] ELSE 0)
      BY <1>2, <1>f, <2>2, TotalWith
    <3>2. Plus(b.pending, e)[<<as, ac>>] =
            b.pending[<<as, ac>>] + (IF e.asset = as THEN e.legs[ac] ELSE 0)
      BY <1>2, <1>p
    <3>3. /\ b.pending[<<as, ac>>] = Total(open, as, ac)
          /\ b.posted[<<as, ac>>] = Total(posts, as, ac)
      BY <1>b
    <3> HIDE DEF open, posts, holds
    <3>4. QED
      BY <2>1, <2>2, <2>4, <3>1, <3>2, <3>3
  <2>6. c.pending \in [key -> Int] /\ c.posted \in [key -> Int]
    BY <1>2, <1>b, <1>p, <2>4
  <2>8. AreTheBooks(c)'
    BY <2>1, <2>4, <2>5, <2>6 DEF AreTheBooks
  <2>7. QED
    BY <1>5, <2>3, <2>8
<1>9. CASE e.kind # "hold"
  <2>1. PICK h \in holds : h.id = e.holds /\ h.asset = e.asset
    BY <1>2, <1>9 DEF HasHold, RowsOf, EntriesOf
  <2>2. h = CHOOSE x \in b.holds : x.id = e.holds
    BY <1>6, <1>b, <2>1
  <2>3. /\ holds' = holds
        /\ resolved' = resolved \union {h.id}
        /\ posts' = posts \union (IF e.kind = "post" THEN {e} ELSE {})
    BY <1>2, <1>3, <1>9, <2>1
  <2>4. h \in open /\ h \in Entry
    BY <1>2, <1>4, <1>9, <2>1 DEF OpenHolds
  <2>5. OpenHolds' = open \ {h}
    <3>1. \A x \in holds : x.id = h.id => x = h
      BY <1>6, <2>1
    <3>2. QED
      BY <2>3, <2>4, <3>1 DEF OpenHolds
  <2>6. PICK c : c = Step(b, e)
    OBVIOUS
  <2>7. /\ c = [pending |-> Minus(b.pending, h), posted |-> Plus(b.posted, e),
                holds |-> holds]
        /\ c.pending = Minus(b.pending, h) /\ c.posted = Plus(b.posted, e)
        /\ c.holds = holds
    BY <1>9, <1>b, <2>2, <2>6 DEF Step
  <2>8. c.pending \in [key -> Int] /\ c.posted \in [key -> Int]
    BY <1>2, <1>p, <2>4, <2>7
  <2>9. ASSUME NEW as \in Assets, NEW ac \in Accounts
        PROVE  /\ c.pending[<<as, ac>>] = Total(OpenHolds', as, ac)
               /\ c.posted[<<as, ac>>] = Total(posts', as, ac)
    <3>0. PICK rest : rest = open \ {h}
      OBVIOUS
    <3>1. /\ Total(rest, as, ac) \in Int
          /\ Total(open, as, ac) =
               Total(rest, as, ac) + (IF h.asset = as THEN h.legs[ac] ELSE 0)
      <4>1. /\ rest \in SUBSET Entry /\ h \notin rest /\ open = rest \union {h}
            /\ IsFiniteSet(rest)
        BY <1>f, <2>4, <3>0, FS_Subset
      <4> HIDE DEF open
      <4>2. QED
        BY <2>4, <4>1, TotalWith
    <3>2. Minus(b.pending, h)[<<as, ac>>] =
            b.pending[<<as, ac>>] - (IF h.asset = as THEN h.legs[ac] ELSE 0)
      BY <2>4, <1>p
    <3>3. Plus(b.posted, e)[<<as, ac>>] =
            b.posted[<<as, ac>>] + (IF e.asset = as THEN e.legs[ac] ELSE 0)
      BY <1>2, <1>p
    <3>4. /\ Total(posts, as, ac) \in Int
          /\ Total(posts \union {e}, as, ac) =
               Total(posts, as, ac) + (IF e.asset = as THEN e.legs[ac] ELSE 0)
      BY <1>2, <1>4, TotalWith
    <3>5. e.kind # "post" => e.legs[ac] = 0
      BY <1>2, <1>9 DEF Valid, NoLegs, Entry
    <3>6. /\ b.pending[<<as, ac>>] = Total(open, as, ac)
          /\ b.posted[<<as, ac>>] = Total(posts, as, ac)
      BY <1>b
    <3>7. PICK d \in Int : d = IF h.asset = as THEN h.legs[ac] ELSE 0
      BY <2>4, <1>p
    <3>11. PICK p \in Int : p = IF e.asset = as THEN e.legs[ac] ELSE 0
      BY <1>2, <1>p
    <3> HIDE DEF open, posts, holds
    <3>8. c.pending[<<as, ac>>] = Total(OpenHolds', as, ac)
      <4>1. c.pending[<<as, ac>>] = Total(open, as, ac) - d
        BY <2>7, <3>2, <3>6, <3>7
      <4>2. Total(open, as, ac) = Total(rest, as, ac) + d
        BY <3>1, <3>7
      <4>3. Total(OpenHolds', as, ac) = Total(rest, as, ac)
        BY <2>5, <3>0
      <4>4. QED
        <5>1. PICK m \in Int : m = Total(rest, as, ac)
          BY <3>1
        <5>2. (m + d) - d = m
          OBVIOUS
        <5>3. QED
          BY <4>1, <4>2, <4>3, <5>1, <5>2
    <3>9. c.posted[<<as, ac>>] = Total(posts', as, ac)
      <4>0. c.posted[<<as, ac>>] = Total(posts, as, ac) + p
        BY <2>7, <3>3, <3>6, <3>11
      <4>1. CASE e.kind = "post"
        <5>1. posts' = posts \union {e}
          BY <2>3, <4>1
        <5>2. Total(posts \union {e}, as, ac) = Total(posts, as, ac) + p
          BY <3>4, <3>11
        <5>3. QED
          BY <4>0, <5>1, <5>2
      <4>2. CASE e.kind # "post"
        <5>1. posts' = posts /\ p = 0
          BY <2>3, <3>5, <3>11, <4>2
        <5>2. QED
          <6>1. PICK m \in Int : m = Total(posts, as, ac)
            BY <3>4
          <6>2. m + 0 = m
            OBVIOUS
          <6>3. QED
            BY <4>0, <5>1, <6>1, <6>2
      <4>3. QED
        BY <4>1, <4>2
    <3>10. QED
      BY <3>8, <3>9
  <2>10. AreTheBooks(c)'
    BY <2>3, <2>7, <2>8, <2>9 DEF AreTheBooks
  <2>11. QED
    BY <1>5, <2>6, <2>10
<1>10. QED
  BY <1>8, <1>9

\* So the projection means the books after every row.
LEMMA TalliesHold == Spec => []TalliesAreTheBooks
<1>1. Init => TalliesAreTheBooks
  <2> SUFFICES ASSUME Init PROVE TalliesAreTheBooks
    OBVIOUS
  <2>1. rows = <<>> /\ DOMAIN rows = {} /\ resolved = {}
    BY DEF Init
  <2>2. \A K : EntriesOf(K) = {}
    BY <2>1 DEF EntriesOf
  <2>3. \E g : Tallies(g, rows)
    <3> DEFINE g == [s \in SUBSET DOMAIN rows |-> Opening]
    <3>1. g = [s \in SUBSET DOMAIN rows |->
                 IF s = {} THEN Opening
                 ELSE Step(g[s \ {Max(s)}], rows[Max(s)].entry)]
      BY <2>1
    <3>2. QED
      BY <3>1 DEF Tallies
  <2>4. ASSUME NEW g, Tallies(g, rows)
        PROVE  AreTheBooks(g[DOMAIN rows])
    <3>1. g[DOMAIN rows] = Opening
      BY <2>1, <2>4 DEF Tallies
    <3>2. OpenHolds = {}
      BY <2>2 DEF OpenHolds
    <3>3. \A as \in Assets, ac \in Accounts : Total({}, as, ac) = 0
      BY SumOfNone DEF Total
    <3>4. \A as \in Assets, ac \in Accounts : Zero[<<as, ac>>] = 0
      BY DEF Zero
    <3>5. Zero \in [Assets \X Accounts -> Int]
      BY DEF Zero
    <3>6. PICK o : o = Opening
      OBVIOUS
    <3>7. /\ o = [pending |-> Zero, posted |-> Zero, holds |-> {}]
          /\ o.pending = Zero /\ o.posted = Zero
      BY <3>6 DEF Opening
    <3>8. EntriesOf({"hold"}) = {} /\ EntriesOf({"post"}) = {}
      BY <2>2
    <3>9. AreTheBooks(o)
      BY <3>2, <3>3, <3>4, <3>5, <3>7, <3>8 DEF AreTheBooks
    <3>10. QED
      BY <3>1, <3>6, <3>9
  <2>5. QED
    BY <2>2, <2>3, <2>4, FS_EmptySet DEF TalliesAreTheBooks
<1>2. ASSUME JournalInv, JournalInv', TalliesAreTheBooks, [Next]_journalVars
      PROVE  TalliesAreTheBooks'
  <2>1. CASE UNCHANGED journalVars
    <3>1. rows' = rows /\ resolved' = resolved
      BY <2>1 DEF journalVars
    <3>2. /\ EntriesOf({"hold"})' = EntriesOf({"hold"})
          /\ EntriesOf({"post"})' = EntriesOf({"post"})
      BY <3>1 DEF EntriesOf
    <3>3. OpenHolds' = OpenHolds
      BY <3>1, <3>2 DEF OpenHolds
    <3>4. ASSUME NEW b, AreTheBooks(b)
          PROVE  AreTheBooks(b)'
      BY <3>2, <3>3, <3>4 DEF AreTheBooks
    <3>5. ASSUME NEW g, Tallies(g, rows')
          PROVE  AreTheBooks(g[DOMAIN rows])'
      <4>1. PICK b : b = g[DOMAIN rows]
        OBVIOUS
      <4>2. AreTheBooks(b)
        BY <1>2, <3>1, <3>5, <4>1 DEF TalliesAreTheBooks
      <4>3. AreTheBooks(b)'
        BY <3>4, <4>2
      <4>4. b = g[DOMAIN rows']
        BY <3>1, <4>1
      <4>5. QED
        BY <4>3, <4>4
    <3>6. QED
      BY <1>2, <3>1, <3>2, <3>5 DEF TalliesAreTheBooks
  <2>2. ASSUME NEW e \in Proposals, Append1(e)
        PROVE  TalliesAreTheBooks'
    <3>1. PICK n \in Nat : n = Len(rows)
      BY <1>2, <2>2, OneRowMore DEF JournalInv
    <3>2. /\ DOMAIN rows = 1 .. n /\ DOMAIN rows' = 1 .. n + 1
          /\ \A k \in 1 .. n : rows'[k] = rows[k]
          /\ rows'[n + 1] = JournalRow(e)
      BY <1>2, <2>2, <3>1, OneRowMore DEF JournalInv
    <3>3. rows'[n + 1].entry = e
      BY <3>2 DEF JournalRow, RowOf
    <3>4. /\ \E g : Tallies(g, rows')
          /\ \A g : Tallies(g, rows') =>
               \E h : /\ Tallies(h, rows)
                      /\ g[DOMAIN rows'] = Step(h[DOMAIN rows], e)
      <4>1. PICK l : l = rows
        OBVIOUS
      <4>2. PICK m : m = rows'
        OBVIOUS
      <4>3. \E g : Tallies(g, l)
        BY <1>2, <4>1 DEF TalliesAreTheBooks
      <4>4. Longer(m, l, n) /\ m[n + 1].entry = e
        BY <3>1, <3>2, <3>3, <4>1, <4>2 DEF Longer
      <4>5. OneStepLonger(m, l, n)
        BY <4>3, <4>4, OneStepMore
      <4>6. QED
        BY <4>1, <4>2, <4>4, <4>5 DEF OneStepLonger
    <3>5. ASSUME NEW g, Tallies(g, rows')
          PROVE  AreTheBooks(g[DOMAIN rows])'
      <4>1. PICK h : /\ Tallies(h, rows)
                     /\ g[DOMAIN rows'] = Step(h[DOMAIN rows], e)
        BY <3>4, <3>5
      <4>2. PICK b : b = h[DOMAIN rows]
        OBVIOUS
      <4>3. AreTheBooks(b)
        BY <1>2, <4>1, <4>2 DEF TalliesAreTheBooks
      <4>4. AreTheBooks(Step(b, e))'
        BY <1>2, <2>2, <4>3, StepKeepsTheBooks DEF TalliesAreTheBooks
      <4>5. PICK c : c = Step(b, e)
        OBVIOUS
      <4>6. c = g[DOMAIN rows']
        BY <4>1, <4>2, <4>5
      <4>7. AreTheBooks(c)'
        BY <4>4, <4>5
      <4>8. QED
        BY <4>6, <4>7
    <3>6. IsFiniteSet(EntriesOf({"hold"}))' /\ IsFiniteSet(EntriesOf({"post"}))'
      <4>1. PICK g : Tallies(g, rows)
        BY <1>2 DEF TalliesAreTheBooks
      <4>2. PICK b : b = g[DOMAIN rows]
        OBVIOUS
      <4>3. AreTheBooks(b)
        BY <1>2, <4>1, <4>2 DEF TalliesAreTheBooks
      <4>4. QED
        BY <1>2, <2>2, <4>3, StepKeepsTheBooks DEF TalliesAreTheBooks
    <3>7. QED
      BY <3>4, <3>5, <3>6 DEF TalliesAreTheBooks
  <2>3. QED
    BY <1>2, <2>1, <2>2 DEF Next
<1>3. QED
  BY <1>1, <1>2, JournalInvHolds, PTL DEF Spec

\* The projection of the list, folded row by row, is what the books mean:
\* pending is the holds nobody has resolved, posted is the posts, whatever was
\* appended, replayed and refused in between.
THEOREM BalancesMeanTheBooks == Spec => []BalancesAreTheBooks
<1>1. TalliesAreTheBooks => BalancesAreTheBooks
  <2> SUFFICES ASSUME TalliesAreTheBooks PROVE BalancesAreTheBooks
    OBVIOUS
  <2> DEFINE g == CHOOSE h : Tallies(h, rows)
  <2>1. Balances(rows) = g[DOMAIN rows]
    BY DEF Balances, FoldLeft, MapThenFoldSet, Tallies, Opening
  <2>2. Tallies(g, rows)
    BY DEF TalliesAreTheBooks
  <2> HIDE DEF g
  <2>3. AreTheBooks(g[DOMAIN rows])
    BY <2>2 DEF TalliesAreTheBooks
  <2>4. QED
    BY <2>1, <2>3 DEF BalancesAreTheBooks, AreTheBooks, Total, OpenHolds
<1>2. QED
  BY <1>1, TalliesHold, PTL
=============================================================================
