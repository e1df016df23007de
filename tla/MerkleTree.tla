----------------------------- MODULE MerkleTree -----------------------------
(***************************************************************************)
(* The Merkle tree over leaf pages of src/src/chunkmap.rs: merkle_root,    *)
(* leaf_proof and expected_proof_shape, each cutting the tree on its own,  *)
(* and verify_leaf as one predicate (ChunkTree has its loop).              *)
(*                                                                         *)
(* SHA-256 is collision free and the two domains differ: a hash is the     *)
(* record of what was hashed.                                              *)
(***************************************************************************)
EXTENDS Integers, Sequences

LeafHash(page) == [leaf |-> page]
BranchHash(left, right, leftCount, rightCount) ==
    [left |-> left, right |-> right, lc |-> leftCount, rc |-> rightCount]

(* largest_pow2_below: the largest power of two less than n, n > 1, here     *)
(* doubled from 1 instead of halved from 2^63.                              *)
Pow2Below(n) ==
    LET pow[j \in 0..n] ==
            IF j = 0 THEN 1
            ELSE IF 2 * pow[j - 1] < n THEN 2 * pow[j - 1] ELSE pow[j - 1]
    IN  pow[n]

(* build_subtree: a row for each number of pages, in it the hash of as many *)
(* pages of ps from each position on.                                       *)
Tree(ps) ==
    LET tree[m \in 1..Len(ps)] == [from \in 0..Len(ps) - m |->
            IF m = 1 THEN LeafHash(ps[from + 1])
            ELSE LET k == Pow2Below(m)
                 IN  BranchHash(tree[k][from], tree[m - k][from + k], k, m - k)]
    IN  tree

Subtree(ps, from, n) == Tree(ps)[n][from]
Root(ps) == Subtree(ps, 0, Len(ps))

Step(side, pages, digest) ==
    [side |-> side, pages |-> pages, digest |-> digest]

(* leaf_proof, innermost sibling first; the rows as in Tree. *)
Proofs(ps, i) ==
    LET proof[m \in 1..Len(ps)] == [from \in 0..Len(ps) - m |->
            IF m = 1 THEN << >>
            ELSE LET k == Pow2Below(m)
                 IN  IF i < from + k
                     THEN Append(proof[k][from],
                                 Step("right", m - k, Subtree(ps, from + k, m - k)))
                     ELSE Append(proof[m - k][from + k],
                                 Step("left", k, Subtree(ps, from, k)))]
    IN  proof

LeafProof(ps, i) == Proofs(ps, i)[Len(ps)][0]

(* expected_proof_shape: sides and sibling counts, innermost first. *)
Shapes(count) ==
    LET shape[m \in 1..count] == [j \in 0..m - 1 |->
            IF m = 1 THEN << >>
            ELSE LET k == Pow2Below(m)
                 IN  IF j < k THEN Append(shape[k][j], <<"right", m - k>>)
                     ELSE Append(shape[m - k][j - k], <<"left", k>>)]
    IN  shape

FromRoot(steps) == [n \in DOMAIN steps |-> steps[Len(steps) + 1 - n]]

ShapeFromRoot(count, i) ==       \* mutant of Shape: steps.reverse() forgotten
    FromRoot(Shapes(count)[count][i])
Shape(count, i) == Shapes(count)[count][i]

(* verify_leaf: the proof is on the derived path and leads to the root.     *)
(* Levels is its loop: the hash and the leaf count after so many steps.     *)
Climbed(below, step) ==
    <<IF step.side = "right"
      THEN BranchHash(below[1], step.digest, below[2], step.pages)
      ELSE BranchHash(step.digest, below[1], step.pages, below[2]),
      below[2] + step.pages>>

Levels(hash, proof) ==
    LET cur[n \in 0..Len(proof)] ==
            IF n = 0 THEN <<hash, 1>> ELSE Climbed(cur[n - 1], proof[n])
    IN  cur

Led(hash, proof) == Levels(hash, proof)[Len(proof)]

OnShape(count, i, proof) ==
    /\ i < count /\ Len(proof) = Len(Shape(count, i))
    /\ \A n \in DOMAIN proof : <<proof[n].side, proof[n].pages>> = Shape(count, i)[n]

VerifyPathOnly(count, i, hash, proof, root) ==     \* mutant of VerifyLeaf
    OnShape(count, i, proof)
VerifyLeaf(count, i, hash, proof, root) ==
    OnShape(count, i, proof) /\ Led(hash, proof)[1] = root
=============================================================================
