--------------------------- MODULE SuiSettlement ----------------------------
(***************************************************************************)
(* The Move module contracts/sui/settlement/sources/settlement.move.       *)
(*                                                                         *)
(* Money and state are objects.  A payer owns his Books, each with the     *)
(* refs paid through it, and hands in coins of exactly the amount; a Hold  *)
(* is a shared object that holds the money of an escrow itself, and whoever *)
(* owns the OperatorCap may end it.  A transaction (PTB) runs alone, calls *)
(* nothing outside and takes effect as a whole or not at all, so each is   *)
(* one step.  Who pays for its gas is not modelled.                        *)
(***************************************************************************)
EXTENDS Token, SequencesExt

CONSTANTS
    Collector,      \* the fee recipient of an escrow
    HoldFee,        \* what the collector gets when an escrow is released
    MaxBooks        \* bound: the Books the payer opens

VARIABLES
    books,          \* the refs paid through each Book
    escrows         \* the Hold objects, by <<book, ref>>

InEscrow == MapThenSumSet(LAMBDA h : escrows[h].funds, DOMAIN escrows)

OpenBook ==
    /\ Len(books) < MaxBooks
    /\ books' = Append(books, {})
    /\ UNCHANGED <<now, bal, credits, escrows>>

\* Each call of the PTB looks its ref up and writes it down, the first
\* before the second looks.
Reserve(b, items) ==
    /\ \A i \in DOMAIN items : items[i].ref \notin books[b]
    /\ \A i, j \in DOMAIN items : items[i].ref = items[j].ref => i = j
    /\ books' = [books EXCEPT ![b] = @ \cup {items[i].ref : i \in DOMAIN items}]

\* A PTB of pay calls: the payer splits the coins off and hands them in.
Pay(b, items) ==
    /\ bal[Payer] >= Total(items)
    /\ Reserve(b, items)
    /\ bal' = [Paid(items) EXCEPT ![Payer] = @ - Total(items)]
    /\ credits' = Credited(items)
    /\ UNCHANGED <<now, escrows>>

Hold(b, it, refundAfter) ==
    /\ bal[Payer] >= it.amount
    /\ HoldFee < it.amount
    /\ now < refundAfter
    /\ Reserve(b, <<it>>)
    /\ escrows' = With(escrows, <<b, it.ref>>,
                       [merchant |-> it.account, funds |-> it.amount,
                        fee |-> HoldFee, refundAfter |-> refundAfter])
    /\ bal' = [bal EXCEPT ![Payer] = @ - it.amount]
    /\ UNCHANGED <<now, credits>>

\* The Hold is taken by value: with its last coin it is gone.
Deleted(h) == escrows' = Restrict(escrows, DOMAIN escrows \ {h})

Release(h) ==
    LET e    == escrows[h]
        rest == [ref |-> h[2], account |-> e.merchant, amount |-> e.funds - e.fee]
    IN  /\ Deleted(h)
        /\ bal' = [Paid(<<rest>>) EXCEPT ![Collector] = @ + e.fee]
        /\ credits' = Credited(<<rest>>)
        /\ UNCHANGED <<now, books>>

\* The ref stays paid: a new try needs a new intent.
Refund(h) ==
    /\ Deleted(h)
    /\ bal' = [bal EXCEPT ![Payer] = @ + escrows[h].funds]
    /\ UNCHANGED <<now, credits, books>>

RefundExpired(h) == now >= escrows[h].refundAfter /\ Refund(h)
=============================================================================
