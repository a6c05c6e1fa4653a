---------------------------- MODULE MerkleBranch ----------------------------
(* The Merkle branch a miner is sent (buildTemplateFor) and what pool and   *)
(* miner make of it (calculateMerkleRootHash). A hash is a sequence: a leaf *)
(* its number, a hash of two the two in brackets, so that different inputs  *)
(* have different hashes.                                                   *)
EXTENDS Integers, Sequences

Leaf(n) == <<n>>
Hash(l, r) == <<-1>> \o l \o r \o <<-2>>

\* No hash at all.
Null == <<>>

\* The next level of the tree of merkle-lib: the last node of an odd level is
\* paired with itself.
Derive(level) ==
    [i \in 1 .. (Len(level) + 1) \div 2 |->
        Hash(level[2 * i - 1], level[IF 2 * i <= Len(level) THEN 2 * i ELSE 2 * i - 1])]

\* All levels up to the root, which is repeated; there are never more than leaves.
Levels(leaves) ==
    LET level[d \in 1 .. Len(leaves)] ==
            IF d = 1 THEN leaves
            ELSE IF Len(level[d - 1]) = 1 THEN level[d - 1] ELSE Derive(level[d - 1])
    IN level

\* The level of the root.
Height(leaves) ==
    CHOOSE d \in 1 .. Len(leaves) :
        Len(Levels(leaves)[d]) = 1 /\ \A e \in 1 .. d - 1 : Len(Levels(leaves)[e]) > 1

MerkleRoot(leaves) == Levels(leaves)[Height(leaves)][1]

\* merkle-lib/proof for the first leaf: of each level below the root the node on
\* the way and its neighbour, the former only where it is the leaf, then the root.
Proof(leaves) ==
    LET h == Height(leaves)
        Node(k) == IF k % 2 = 0 THEN Levels(leaves)[k \div 2][2]
                   ELSE IF k = 1 THEN leaves[1] ELSE Null
    IN [k \in 1 .. 2 * h - 1 |-> IF k = 2 * h - 1 THEN MerkleRoot(leaves) ELSE Node(k)]

\* filter(h => h != null)
WithoutGaps(hashes) ==
    LET kept[k \in 0 .. Len(hashes)] ==
            IF k = 0 THEN <<>>
            ELSE IF hashes[k] = Null THEN kept[k - 1] ELSE Append(kept[k - 1], hashes[k])
    IN kept[Len(hashes)]

\* Mutant: nothing is taken off the front of the proof.
BranchWithLeaf(leaves) ==
    LET hashes == WithoutGaps(Proof(leaves)) IN SubSeq(hashes, 1, Len(hashes) - 1)

\* The branch that goes into mining.notify: the proof without its gaps, without
\* the root at its end (pop) and without the leaf at its front (slice).
Branch(leaves) ==
    LET hashes == WithoutGaps(Proof(leaves)) IN SubSeq(hashes, 2, Len(hashes) - 1)

\* calculateMerkleRootHash
RootFrom(coinbase, branch) ==
    LET root[i \in 0 .. Len(branch)] ==
            IF i = 0 THEN coinbase ELSE Hash(root[i - 1], branch[i])
    IN root[Len(branch)]
=============================================================================
