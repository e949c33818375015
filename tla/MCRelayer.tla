----------------------------- MODULE MCRelayer -----------------------------
(***************************************************************************)
(* Relayer on small instances.  Workers are interchangeable, and so are    *)
(* intents; symmetry is used in the runs that check no liveness.           *)
(***************************************************************************)
EXTENDS Relayer, TLC

CONSTANTS i1, i2, w1, w2, wallet

MCWorkers == {w1, w2}
OneWorker == {w1}
OneIntent == {i1}
TwoIntents == {i1, i2}
WorkerSymmetry == Permutations(MCWorkers)
MCSymmetry == Permutations(MCWorkers) \union Permutations(TwoIntents)
=============================================================================
