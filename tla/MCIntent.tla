------------------------------ MODULE MCIntent ------------------------------
(***************************************************************************)
(* Intent on a small instance: one intent, two clients that may act for    *)
(* any actor, two transaction hashes.                                      *)
(***************************************************************************)
EXTENDS Intent, TLC

CONSTANTS i1, c1, c2, x1, x2

MCClients == {c1, c2}
MCHashes == {x1, x2}
MCSymmetry == Permutations(MCClients) \union Permutations(MCHashes)
=============================================================================
