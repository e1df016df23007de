------------------------------ MODULE ChunkTree -----------------------------
(***************************************************************************)
(* The Merkle tree over the leaf pages of a chunk map, src/src/chunkmap.rs:*)
(* merkle_root, leaf_proof and verify_leaf.                                *)
(*                                                                         *)
(* A client holds page_count and pages_root from an authenticated map and  *)
(* checks a leaf page that comes with a proof.  Leaf and proof are         *)
(* external: any page, any steps put together from hashes of the tree or   *)
(* of a page that is not in it.  Each step of the proof is chosen when     *)
(* verify_leaf's loop reaches it; what follows a step that is refused makes*)
(* no difference.                                                          *)
(***************************************************************************)
EXTENDS MerkleTree

CONSTANTS Trees,   \* the files: non-empty sequences of pages
          Pages    \* all pages, those of no tree included

ASSUME TreesAssumption == Trees \subseteq Seq(Pages) \ {<< >>}

VARIABLES leaves,   \* the pages of the map
          index,    \* page_index the client asked for
          claimed,  \* the page that came back
          length,   \* the number of steps in its proof
          taken,    \* the steps looked at so far
          cur, curCount,
          verdict

vars == <<leaves, index, claimed, length, taken, cur, curCount, verdict>>

-----------------------------------------------------------------------------
MyShape == Shape(Len(leaves), index)

(* What a step may carry: a hash of some part of the tree or a foreign one. *)
Digests ==
    {Subtree(leaves, r[1], r[2]) :
        r \in {r \in (0..Len(leaves) - 1) \X (1..Len(leaves)) :
                  r[1] + r[2] <= Len(leaves)}}
    \cup {LeafHash(page) : page \in Pages}

Steps == [side : {"left", "right"}, pages : 1..Len(leaves), digest : Digests]

-----------------------------------------------------------------------------
Init ==
    /\ leaves \in Trees
    /\ index \in 0..Len(leaves)     \* one past the end included
    /\ claimed \in Pages
    /\ length \in 0..Len(leaves)
    /\ taken = << >> /\ cur = LeafHash(claimed) /\ curCount = 1
    /\ verdict = "pending"

Verdict(v) == /\ verdict' = v
              /\ UNCHANGED <<leaves, index, claimed, length, cur, curCount>>

RefuseCall ==       \* page_index out of range, or a proof of another length
    /\ verdict = "pending" /\ taken = << >>
    /\ ~(index < Len(leaves) /\ length = Len(MyShape))
    /\ Verdict("error") /\ UNCHANGED taken

Climbing == /\ verdict = "pending" /\ index < Len(leaves)
            /\ length = Len(MyShape) /\ Len(taken) < length

AnySide(step) == step.pages = MyShape[Len(taken) + 1][2]  \* mutant of OnPath
OnPath(step)  == <<step.side, step.pages>> = MyShape[Len(taken) + 1]

RefuseStep ==       \* the step is not on the derived path
    /\ Climbing
    /\ \E step \in Steps : /\ ~OnPath(step)
                           /\ taken' = Append(taken, step)
    /\ Verdict("error")

Climb ==
    /\ Climbing
    /\ \E step \in Steps :
         /\ OnPath(step)
         /\ taken' = Append(taken, step)
         /\ cur' = Climbed(<<cur, curCount>>, step)[1]
         /\ curCount' = Climbed(<<cur, curCount>>, step)[2]
    /\ UNCHANGED <<leaves, index, claimed, length, verdict>>

AtRoot ==
    /\ verdict = "pending" /\ index < Len(leaves)
    /\ length = Len(MyShape) /\ Len(taken) = length
    /\ Verdict(IF cur = Root(leaves) THEN "ok" ELSE "error")
    /\ UNCHANGED taken

Next == RefuseCall \/ RefuseStep \/ Climb \/ AtRoot

Spec == Init /\ [][Next]_vars

-----------------------------------------------------------------------------
IsHonest(steps) ==
    /\ Len(steps) <= Len(LeafProof(leaves, index))
    /\ steps = SubSeq(LeafProof(leaves, index), 1, Len(steps))

(* Only the page at the index asked for is accepted, and only with the      *)
(* proof leaf_proof makes of it ("matching the root alone is not enough"):  *)
(* a page moved to another index is refused even though its root matches.   *)
OnlyThePage ==
    verdict = "ok" =>
        /\ claimed = leaves[index + 1]
        /\ Len(taken) = Len(LeafProof(leaves, index)) /\ IsHonest(taken)

(* The page with its own proof is never refused: leaf_proof, merkle_root    *)
(* and expected_proof_shape, written as three loops, cut the tree alike.    *)
HonestAccepted ==
    verdict = "error" =>
        \/ index >= Len(leaves)
        \/ claimed # leaves[index + 1]
        \/ length # Len(LeafProof(leaves, index))
        \/ ~IsHonest(taken)
=============================================================================
