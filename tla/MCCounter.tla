----------------------------- MODULE MCCounter -----------------------------
(***************************************************************************)
(* Counter on a small instance: two wallets, two workers.  Holders are     *)
(* interchangeable (no operator orders them), and so are accounts.         *)
(***************************************************************************)
EXTENDS Counter, TLC

CONSTANTS a1, a2, h1, h2

MCAccounts == {a1, a2}
MCHolders == {h1, h2}
MCSymmetry == Permutations(MCAccounts) \union Permutations(MCHolders)
=============================================================================
