------------------------------ MODULE Journal ------------------------------
(***************************************************************************)
(* The off-chain ledger, ledger.MemoryJournal: an append-only list of      *)
(* holds, posts and voids.  A hold reserves money on the books, a post or  *)
(* a void of the same payment resolves it, once.  Balances are a           *)
(* projection of the list, and each row's hash covers the row before it.   *)
(*                                                                         *)
(* The hash function is modelled as collision-free: the hash of a row is   *)
(* the value it is computed from.  An Append that answers an error changes *)
(* nothing; the conditions are operators that the callers use.             *)
(***************************************************************************)
EXTENDS Integers, Sequences, FiniteSets, SequencesExt

CONSTANTS Refs,         \* payments (PaymentRef)
          Assets,       \* chain and token
          Accounts,     \* payer:, merchant: and fee: accounts
          Ids,          \* entry ids
          Proposals,    \* the entries callers may try to append
          None,         \* a hold's Holds, the zero hash
          MaxEntries    \* bound: rows appended

ASSUME JournalAssumption == None \notin Ids /\ MaxEntries \in Nat

VARIABLES rows,      \* MemoryJournal.entries
          resolved   \* MemoryJournal.resolved: ids of the holds resolved

journalVars == <<rows, resolved>>

\* The caller's half of an entry.  Legs maps every account to what its leg
\* moves, 0 for an account without a leg; note is By, At, TxHash and Memo.
Entry == [id : Ids, ref : Refs, kind : {"hold", "post", "void"},
          holds : Ids \union {None}, asset : Assets,
          legs : [Accounts -> Int], note : Nat]

ASSUME ProposalsAssumption == Proposals \subseteq Entry

NoLegs == [a \in Accounts |-> 0]
-----------------------------------------------------------------------------
LegsOf(e) == {a \in Accounts : e.legs[a] # 0}
SumOver(S, f) == FoldFunctionOnSet(LAMBDA x, y : x + y, 0, f, S)

\* validateLegs: two legs or more that sum to zero.
Balanced(e) == Cardinality(LegsOf(e)) >= 2 /\ SumOver(Accounts, e.legs) = 0

\* Entry.Validate: what is wrong with an entry by itself.
Valid(e) ==
  /\ (e.kind = "hold") <=> (e.holds = None)
  /\ IF e.kind = "void" THEN e.legs = NoLegs ELSE Balanced(e)

\* The row that has e's id; Get and ByRef read the list the same way.
RowsOf(id) == {k \in DOMAIN rows : rows[k].entry.id = id}
Known(e) == RowsOf(e.id) # {}

\* The same id again: a replay when all the caller wrote is the same
\* (Entry.Same), otherwise ErrConflict.
Same(e) == \E k \in RowsOf(e.id) : rows[k].entry = e
Replay(e) == Valid(e) /\ Same(e)
Conflict(e) == Valid(e) /\ Known(e) /\ ~Same(e)

\* The hold a post or void names is there and is of its payment and asset.
HasHold(e) ==
  \E k \in RowsOf(e.holds) : /\ rows[k].entry.kind = "hold"
                             /\ rows[k].entry.ref = e.ref
                             /\ rows[k].entry.asset = e.asset

\* A replay is looked for before the hold is: the second of two equal posts
\* is not a second attempt to resolve the hold.
New(e) == Valid(e) /\ ~Known(e)
ErrNoSuchHold(e) == New(e) /\ e.kind # "hold" /\ ~HasHold(e)

HoldsMayBeReused(e) == FALSE               \* mutants of ErrAlreadyResolved
HoldsFirst(e) == Valid(e) /\ e.kind # "hold" /\ HasHold(e)
                 /\ e.holds \in resolved

ErrAlreadyResolved(e) ==
  New(e) /\ e.kind # "hold" /\ HasHold(e) /\ e.holds \in resolved

\* Append writes a row.
Fresh(e) == New(e) /\ ~ErrNoSuchHold(e) /\ ~ErrAlreadyResolved(e)
-----------------------------------------------------------------------------
ContentOnly(prev, seq, e) == e             \* mutant of HashOf

\* hashEntry: over the previous hash, the place in the list and the entry.
HashOf(prev, seq, e) == <<prev, seq, e>>

LastHash == IF rows = <<>> THEN None ELSE Last(rows).hash

RowOf(prev, seq, e) ==
  [entry |-> e, seq |-> seq, prev |-> prev, hash |-> HashOf(prev, seq, e)]
JournalRow(e) == RowOf(LastHash, Len(rows) + 1, e)

\* Mutant of Append1: every row marks what it holds as resolved.
MarksEveryRow(e) ==
  /\ Fresh(e)
  /\ Len(rows) < MaxEntries
  /\ rows' = Append(rows, JournalRow(e))
  /\ resolved' = resolved \union {e.holds}

\* MemoryJournal.Append of an entry that is not a replay and not refused.
Append1(e) ==
  /\ Fresh(e)
  /\ Len(rows) < MaxEntries
  /\ rows' = Append(rows, JournalRow(e))
  /\ resolved' = resolved \union (IF e.kind = "hold" THEN {} ELSE {e.holds})

Init == rows = <<>> /\ resolved = {}
Next == \E e \in Proposals : Append1(e)
Spec == Init /\ [][Next]_journalVars
-----------------------------------------------------------------------------
Zero == [k \in Assets \X Accounts |-> 0]
Plus(b, e) == [k \in DOMAIN b |->
                 b[k] + IF k[1] = e.asset THEN e.legs[k[2]] ELSE 0]
Minus(b, e) == [k \in DOMAIN b |->
                  b[k] - IF k[1] = e.asset THEN e.legs[k[2]] ELSE 0]

\* Mutant of Step: a post takes its own legs out of pending.
TakesThePost(b, e) ==
  IF e.kind = "hold"
  THEN [b EXCEPT !.pending = Plus(@, e), !.holds = @ \union {e}]
  ELSE [b EXCEPT !.pending = Minus(@, e), !.posted = Plus(@, e)]

\* One step of Balances: a hold's legs go into pending; a post or void takes
\* the legs of its hold out of pending and adds its own legs to posted.
Step(b, e) ==
  IF e.kind = "hold"
  THEN [b EXCEPT !.pending = Plus(@, e), !.holds = @ \union {e}]
  ELSE LET h == CHOOSE h \in b.holds : h.id = e.holds
       IN  [b EXCEPT !.pending = Minus(@, h), !.posted = Plus(@, e)]

\* Balances: the projection of the list, from its first row to its last.
Balances(list) ==
  FoldLeft(LAMBDA b, row : Step(b, row.entry),
           [pending |-> Zero, posted |-> Zero, holds |-> {}], list)

\* Mutant of Verify: the row's own hash is not computed again.
LinksOnly(list) ==
  \A k \in DOMAIN list :
    /\ list[k].seq = k
    /\ list[k].prev = IF k = 1 THEN None ELSE list[k - 1].hash

\* Verify: dense Seq, PrevHash is the last row's Hash, Hash is computed again.
Verify(list) ==
  \A k \in DOMAIN list :
    /\ list[k].seq = k
    /\ list[k].prev = IF k = 1 THEN None ELSE list[k - 1].hash
    /\ list[k].hash = HashOf(list[k].prev, k, list[k].entry)
-----------------------------------------------------------------------------
EntriesOf(kinds) == {rows[k].entry : k \in {j \in DOMAIN rows :
                                              rows[j].entry.kind \in kinds}}

\* The rows are entries, and resolved is what the posts and voids among them
\* say: the map never runs ahead of the list or behind it.
JournalTypeOK ==
  /\ [k \in DOMAIN rows |-> rows[k].entry] \in Seq(Entry)
  /\ resolved = {e.holds : e \in EntriesOf({"post", "void"})}

\* Row k has an id of its own; a post or void is the only one of its hold, and
\* comes after the hold, which is of its payment and asset.
OnceAt(k) ==
  LET e == rows[k].entry
  IN  /\ RowsOf(e.id) = {k}
      /\ e.kind # "hold" =>
           /\ \A j \in DOMAIN rows : rows[j].entry.holds = e.holds => j = k
           /\ \E j \in 1 .. k - 1 : /\ rows[j].entry.id = e.holds
                                    /\ rows[j].entry.kind = "hold"
                                    /\ rows[j].entry.ref = e.ref
                                    /\ rows[j].entry.asset = e.asset

\* A hold is resolved at most once, by a post or by a void, after it was
\* written and for its own payment and asset; ids are not used twice.
HoldResolvedOnce == \A k \in DOMAIN rows : OnceAt(k)

\* What was accepted once is a silent replay forever: neither the resolution
\* of its hold nor any later row turns the replay into an error.
ReplayIsSilent ==
  \A k \in DOMAIN rows :
    LET e == rows[k].entry
    IN  Replay(e) /\ ~ErrNoSuchHold(e) /\ ~ErrAlreadyResolved(e)

\* The projection, folded row by row, is what the books mean: pending is the
\* holds nobody has resolved, posted is the posts.
BalancesAreTheBooks ==
  LET open == {e \in EntriesOf({"hold"}) : e.id \notin resolved}
      posts == EntriesOf({"post"})
      total(S, as, ac) ==
        SumOver({e \in S : e.asset = as}, [e \in S |-> e.legs[ac]])
      b == Balances(rows)
  IN  \A as \in Assets, ac \in Accounts :
        /\ b.pending[<<as, ac>>] = total(open, as, ac)
        /\ b.posted[<<as, ac>>] = total(posts, as, ac)

\* Lists somebody with write access may leave: another entry in row k, its own
\* hash computed again or not; rows j and k exchanged, or row k cut out, and
\* numbered again.
Edited(k, e) == [rows EXCEPT ![k].entry = e]
Rehashed(k, e) == [rows EXCEPT ![k] = RowOf(rows[k].prev, k, e)]
Exchanged(j, k) == [rows EXCEPT ![j] = [rows[k] EXCEPT !.seq = j],
                                ![k] = [rows[j] EXCEPT !.seq = k]]
CutOut(k) == [n \in 1 .. Len(rows) - 1 |->
                IF n < k THEN rows[n] ELSE [rows[n + 1] EXCEPT !.seq = n]]

\* Verify accepts the list and finds every edit (comment of Verify); only the
\* last row can be rewritten together with its hash, or cut off.
EditsAreFound ==
  /\ Verify(rows)
  /\ \A k \in DOMAIN rows :
       /\ \A e \in Proposals \ {rows[k].entry} :
            /\ ~Verify(Edited(k, e))
            /\ k < Len(rows) => ~Verify(Rehashed(k, e))
       /\ \A j \in 1 .. k - 1 : ~Verify(Exchanged(j, k))
       /\ k < Len(rows) => ~Verify(CutOut(k))
=============================================================================
