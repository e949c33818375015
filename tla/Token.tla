------------------------------- MODULE Token --------------------------------
(***************************************************************************)
(* The token ledger of a chain, which is not part of this repository: a    *)
(* balance for each holder, and for the properties a tally of what was     *)
(* sent to merchants.                                                      *)
(***************************************************************************)
EXTENDS Integers, Sequences, FiniteSets, FiniteSetsExt, Functions

CONSTANTS Payer

VARIABLES
    now,            \* the chain's clock
    bal,            \* token balances
    credits         \* times each of <<ref, account, amount>> was sent

\* A write to a mapping.
With(f, x, v) == [y \in DOMAIN f \cup {x} |-> IF y = x THEN v ELSE f[y]]

Count(f, x) == IF x \in DOMAIN f THEN f[x] ELSE 0

Total(items) == MapThenSumSet(LAMBDA i : items[i].amount, DOMAIN items)

\* One more of each of these transfers, and the balances after them.
Credited(items) ==
    LET Key(i) == <<items[i].ref, items[i].account, items[i].amount>>
    IN  [key \in DOMAIN credits \cup {Key(i) : i \in DOMAIN items} |->
            Count(credits, key) + Cardinality({i \in DOMAIN items : Key(i) = key})]

Paid(items) ==
    LET amounts == [i \in DOMAIN items |-> items[i].amount]
    IN  [h \in DOMAIN bal |->
            bal[h] + SumFunctionOnSet(amounts, {i \in DOMAIN items : items[i].account = h})]
=============================================================================
