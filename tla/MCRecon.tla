------------------------------ MODULE MCRecon ------------------------------
(***************************************************************************)
(* Recon on a small instance: one payment, an engine that may die, and one *)
(* more listener; two transactions, of the relayer or of strangers.        *)
(***************************************************************************)
EXTENDS Recon

CONSTANTS i1, e1, l1

MCCallers == {e1, l1}

\* The payer pays by himself, with the ref.  A transfer without a ref is only
\* written down and meets nothing else here; the theorems have them all.
MCStrange == {[ref |-> i1, effect |-> "right"]}
=============================================================================
