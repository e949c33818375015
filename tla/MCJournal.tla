----------------------------- MODULE MCJournal -----------------------------
(***************************************************************************)
(* Journal on a small instance: two payments in one asset, one in another; *)
(* a hold, the right post, a post short of a transfer fee, a void, and     *)
(* entries that Append must refuse or must see as a conflict.              *)
(***************************************************************************)
EXTENDS Journal

CONSTANTS r1, r2, usdc, usdt, payer, merchant, fee

MCRefs == {r1, r2}
MCAssets == {usdc, usdt}
MCAccounts == {payer, merchant, fee}
MCIds == MCRefs \X {"hold", "post", "void"}

Moved(p, m, f) ==
  [a \in MCAccounts |-> IF a = payer THEN p ELSE IF a = merchant THEN m ELSE f]

Hold(r, as, note) ==
  [id |-> <<r, "hold">>, ref |-> r, kind |-> "hold", holds |-> None,
   asset |-> as, legs |-> Moved(-2, 2, 0), note |-> note]
Post(r, h, as, legs) ==
  [id |-> <<r, "post">>, ref |-> r, kind |-> "post", holds |-> <<h, "hold">>,
   asset |-> as, legs |-> legs, note |-> 0]
Void(r, h) ==
  [id |-> <<r, "void">>, ref |-> r, kind |-> "void", holds |-> <<h, "hold">>,
   asset |-> usdc, legs |-> Moved(0, 0, 0), note |-> 0]

MCProposals ==
  {Hold(r, as, n) : r \in MCRefs, as \in MCAssets, n \in 0 .. 1}
  \union {Post(r, r, as, legs) : r \in MCRefs, as \in MCAssets,
            legs \in {Moved(-2, 2, 0), Moved(-2, 1, 1), Moved(-2, 1, 0),
                      Moved(0, 2, 0)}}
  \union {Post(r1, r2, usdc, Moved(-2, 2, 0))}
  \union {Void(r, h) : r \in MCRefs, h \in MCRefs}
=============================================================================
