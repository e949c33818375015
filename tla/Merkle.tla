------------------------------- MODULE Merkle -------------------------------
(***************************************************************************)
(* The tree over a payout list (internal/merkle) and the two ways it is    *)
(* used: off chain the whole tree is built and a proof of one aligned      *)
(* block is read out of it; on chain (contracts/solana/payout-run) the     *)
(* block is hashed again from what the transaction carries and walked up   *)
(* the proof to a root.                                                    *)
(*                                                                         *)
(* A hash is symbolic: it is the tagged tuple of what was hashed, so two   *)
(* hashes are equal exactly when their inputs are.  The tag is the domain  *)
(* byte.  Positions count from 0, as on the wire.                          *)
(***************************************************************************)
EXTENDS Integers, Sequences, SequencesExt

CONSTANT BlockLog2      \* log2 of the aligned block: 3 in the code

Block == 2 ^ BlockLog2

PadLeaf == <<"pad">>
Node(left, right) == <<"node", left, right>>

\* A slip a program could make: the account that is paid is not hashed.
LeafOfNobody(i, it) == <<"leaf", i, "account", it.amount, it.ref>>

\* A leaf covers its position, the token account, the amount and the ref.
Leaf(i, it) == <<"leaf", i, it.account, it.amount, it.ref>>

\* Levels between an aligned block and the root of a list of n leaves; also
\* the number of hashes in a proof.
ProofHashes(n) ==
    CHOOSE d \in 0..n : /\ Block * 2 ^ d >= n
                        /\ \A e \in 0..(d - 1) : Block * 2 ^ e < n

Above(level) == [i \in 1..(Len(level) \div 2) |-> Node(level[2*i - 1], level[2*i])]

\* The level d above a row of hashes, for each d up to top.
Levels(row, top) ==
    LET level[d \in 0..top] == IF d = 0 THEN row ELSE Above(level[d - 1])
    IN  level

\* The leaves of a list, filled with PadLeaf up to width.
Padded(items, from, width) ==
    [i \in 1..width |-> IF i <= Len(items) THEN Leaf(from + i - 1, items[i]) ELSE PadLeaf]

Depth(n) == BlockLog2 + ProofHashes(n)

Build(items) == Levels(Padded(items, 0, 2 ^ Depth(Len(items))), Depth(Len(items)))

Root(items) == Build(items)[Depth(Len(items))][1]

\* idx ^ 1: the other child of the same parent.
Sibling(idx) == IF idx % 2 = 0 THEN idx + 1 ELSE idx - 1

BlockProof(items, block) ==
    LET tree == Build(items)
    IN  [k \in 1..ProofHashes(Len(items)) |->
            tree[BlockLog2 + k - 1][Sibling(block \div 2 ^ (k - 1)) + 1]]

\* What the program computes from a batch: the block's own levels, then up
\* the proof; at each level the position says on which side the sibling is.
Recompute(block, items, proof) ==
    LET top == Levels(Padded(items, block * Block, Block), BlockLog2)[BlockLog2][1]
        Join(below, sibling) ==
            [hash |-> IF below.idx % 2 = 0 THEN Node(below.hash, sibling)
                                           ELSE Node(sibling, below.hash),
             idx  |-> below.idx \div 2]
        at[k \in 0..Len(proof)] == IF k = 0 THEN [hash |-> top, idx |-> block]
                                           ELSE Join(at[k - 1], proof[k])
    IN  at[Len(proof)].hash
=============================================================================
