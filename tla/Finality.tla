------------------------------ MODULE Finality ------------------------------
(***************************************************************************)
(* When is a transaction irreversible?  The decision of package finality:  *)
(* what a node says of a transaction and the rule of its chain give one of *)
(* four verdicts.  A pure function: the listener acts on the verdict.      *)
(***************************************************************************)
EXTENDS Naturals

\* What a node answers: in a block or not, at which height and with which
\* height on top, final by the chain's own marker, executed or reverted.
Observation == [included : BOOLEAN, height : Nat, head : Nat,
                final : BOOLEAN, succeeded : BOOLEAN]

\* A rule: wait for the marker, for so many blocks, and give up or never.
Policy == [marker : BOOLEAN, confirmations : Nat, lostAfter : BOOLEAN]

\* The default rule of all four chains.
Default == [marker |-> TRUE, confirmations |-> 0, lostAfter |-> TRUE]

\* Blocks on top of it, its own included; a node that lags behind counts 0.
Depth(obs) ==
  IF ~obs.included \/ obs.head < obs.height THEN 0
  ELSE obs.head - obs.height + 1

Irreversible(p, obs) ==
  /\ obs.included
  /\ p.confirmations > 0 => Depth(obs) >= p.confirmations
  /\ p.marker => obs.final

\* Mutant of Judge: a revert is reported before it is irreversible.
RevertsAtOnce(p, obs, old) ==
  IF obs.included /\ ~obs.succeeded THEN "failed"
  ELSE IF Irreversible(p, obs) THEN "final"
  ELSE IF ~obs.included /\ p.lostAfter /\ old THEN "lost" ELSE "pending"

\* Judge.  Old: the intent is in confirming for LostAfter or longer.
Judge(p, obs, old) ==
  IF Irreversible(p, obs) THEN IF obs.succeeded THEN "final" ELSE "failed"
  ELSE IF ~obs.included /\ p.lostAfter /\ old THEN "lost" ELSE "pending"
=============================================================================
