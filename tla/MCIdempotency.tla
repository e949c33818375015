--------------------------- MODULE MCIdempotency ---------------------------
(* Four requests with one key, two bodies of which one is refused, a lease *)
(* of one tick and records that live for three.                            *)
EXTENDS Idempotency, TLC

CONSTANTS r1, r2, r3, r4, b1, b2, d1, d2, d3, k1

MCRequests == {r1, r2, r3, r4}
MCBodies == {b1, b2}
MCInvalid == {b2}
MCIds == {d1, d2, d3}
MCSymmetry == Permutations(MCRequests) \union Permutations(MCIds)
=============================================================================
