--------------------------- MODULE ChunkTreeProofs --------------------------
(***************************************************************************)
(* verify_leaf against any page and any proof, for files of any number of  *)
(* pages: it accepts the page at the index with the proof leaf_proof makes *)
(* of it, and nothing else.  What the functions compute is in MerkleProofs;*)
(* here the loop is shown to do what they say.                             *)
(***************************************************************************)
EXTENDS ChunkTree, MerkleProofs

-----------------------------------------------------------------------------
(* The inductive invariant. *)
Typed ==
    /\ leaves \in Trees /\ index \in 0..Len(leaves)
    /\ claimed \in Pages /\ length \in Nat
    /\ taken \in Seq(Steps)

(* The loop has gone up the derived path as far as it has taken steps. *)
OnTheWay ==
    verdict = "pending" =>
        /\ <<cur, curCount>> = Led(LeafHash(claimed), taken)
        /\ taken # << >> => /\ index < Len(leaves)
                           /\ length = Len(MyShape) /\ Len(taken) <= length
        /\ \A n \in 1..Len(taken) :
              <<taken[n].side, taken[n].pages>> = MyShape[n]

IInv == Typed /\ OnTheWay /\ OnlyThePage /\ HonestAccepted

-----------------------------------------------------------------------------
LEMMA TreesHaveLength == Typed => Len(leaves) \in Nat \ {0}
<1> SUFFICES ASSUME Typed PROVE Len(leaves) \in Nat \ {0}
  OBVIOUS
<1>1. leaves \in Seq(Pages) /\ leaves # << >>
  BY TreesAssumption DEF Typed
<1> QED
  BY <1>1

(* What MerkleProofs says of the tree at hand. *)
LEMMA MyTreeAgrees ==
    ASSUME Typed, index < Len(leaves)
    PROVE  /\ Agrees(LeafProof(leaves, index), MyShape, LeafHash(leaves[index + 1]),
                     Root(leaves), Len(leaves))
           /\ Len(MyShape) \in Nat /\ Len(LeafProof(leaves, index)) = Len(MyShape)
<1>1. Len(leaves) \in Nat /\ index \in 0..Len(leaves) - 1
  BY TreesHaveLength DEF Typed
<1>2. Agrees(LeafProof(leaves, index), MyShape, LeafHash(leaves[index + 1]),
             Root(leaves), Len(leaves))
  BY <1>1, TreeAgrees DEF MyShape
<1> QED
  BY <1>2 DEF Agrees, Follows

(* The steps an honest prefix consists of. *)
LEMMA HonestSteps ==
    ASSUME Typed, index < Len(leaves), NEW steps \in Seq(Steps)
    PROVE  IsHonest(steps) <=>
             /\ Len(steps) <= Len(LeafProof(leaves, index))
             /\ \A n \in 1..Len(steps) : steps[n] = LeafProof(leaves, index)[n]
<1> DEFINE proof == LeafProof(leaves, index)
<1>1. PICK X : proof \in Seq(X)
  BY MyTreeAgrees DEF Agrees
<1>2. Len(steps) \in Nat /\ Len(proof) \in Nat
  BY <1>1
<1> HIDE DEF proof
<1>3. ASSUME Len(steps) <= Len(proof)
      PROVE  /\ Len(SubSeq(proof, 1, Len(steps))) = Len(steps)
             /\ SubSeq(proof, 1, Len(steps)) \in Seq(X)
             /\ \A n \in 1..Len(steps) : SubSeq(proof, 1, Len(steps))[n] = proof[n]
  BY <1>1, <1>2, <1>3
<1>4. ASSUME Len(steps) <= Len(proof), \A n \in 1..Len(steps) : steps[n] = proof[n]
      PROVE  steps = SubSeq(proof, 1, Len(steps))
  BY <1>2, <1>3, <1>4
<1> QED
  BY <1>3, <1>4 DEF IsHonest, proof

LEMMA InitIInv == Init => IInv
<1> SUFFICES ASSUME Init PROVE IInv
  OBVIOUS
<1>1. << >> \in Seq(Steps) /\ Len(<< >>) = 0
  OBVIOUS
<1>2. Typed
  BY <1>1 DEF Init, Typed
<1>3. Led(LeafHash(claimed), << >>) = <<LeafHash(claimed), 1>>
  BY <1>1, LedByNothing
<1> QED
  BY <1>1, <1>2, <1>3 DEF Init, IInv, OnTheWay, OnlyThePage, HonestAccepted

LEMMA RefuseCallStep == ASSUME IInv, RefuseCall PROVE IInv'
<1>1. /\ UNCHANGED <<leaves, index, claimed, length, taken>> /\ verdict' = "error"
      /\ ~(index < Len(leaves) /\ length = Len(MyShape))
  BY DEF RefuseCall, Verdict
<1>2. Typed'
  BY <1>1 DEF IInv, Typed, Steps, Digests
<1>3. index < Len(leaves) => length # Len(LeafProof(leaves, index))
  BY <1>1, MyTreeAgrees DEF IInv
<1>4. index >= Len(leaves) \/ index < Len(leaves)
  BY TreesHaveLength DEF IInv, Typed
<1> QED
  BY <1>1, <1>2, <1>3, <1>4 DEF IInv, OnTheWay, OnlyThePage, HonestAccepted

(* A step off the path is not the one leaf_proof makes. *)
LEMMA RefuseStepStep == ASSUME IInv, RefuseStep PROVE IInv'
<1>1. PICK step \in Steps : ~OnPath(step) /\ taken' = Append(taken, step)
  BY DEF RefuseStep
<1>2. /\ UNCHANGED <<leaves, index, claimed, length>> /\ verdict' = "error"
      /\ Climbing
  BY DEF RefuseStep, Verdict
<1>3. taken' \in Seq(Steps) /\ Len(taken') = Len(taken) + 1
      /\ taken'[Len(taken) + 1] = step /\ Len(taken) \in Nat
  BY <1>1 DEF IInv, Typed
<1>4. Typed'
  BY <1>2, <1>3 DEF IInv, Typed, Steps, Digests
<1>5. ~IsHonest(taken')
  <2> SUFFICES ASSUME IsHonest(taken') PROVE FALSE
    OBVIOUS
  <2>1. index < Len(leaves)
    BY <1>2 DEF Climbing
  <2>2. /\ Len(taken') <= Len(LeafProof(leaves, index))
        /\ taken'[Len(taken) + 1] = LeafProof(leaves, index)[Len(taken) + 1]
    BY <1>3, <2>1, HonestSteps DEF IInv
  <2>3. /\ Len(MyShape) = Len(LeafProof(leaves, index)) /\ Len(MyShape) \in Nat
        /\ Follows(LeafProof(leaves, index), MyShape)
    BY <2>1, MyTreeAgrees DEF IInv, Agrees
  <2>4. <<step.side, step.pages>> = MyShape[Len(taken) + 1]
    BY <1>3, <2>2, <2>3 DEF Follows
  <2> QED
    BY <1>1, <2>4 DEF OnPath
<1>6. IsHonest(taken)' <=> IsHonest(taken')
  BY <1>2 DEF IsHonest
<1> QED
  BY <1>2, <1>4, <1>5, <1>6 DEF IInv, OnTheWay, OnlyThePage, HonestAccepted

(* A step on the path takes the loop one level up. *)
LEMMA ClimbStep == ASSUME IInv, Climb PROVE IInv'
<1>1. PICK step \in Steps :
        /\ OnPath(step) /\ taken' = Append(taken, step)
        /\ cur' = Climbed(<<cur, curCount>>, step)[1]
        /\ curCount' = Climbed(<<cur, curCount>>, step)[2]
  BY DEF Climb
<1>2. /\ UNCHANGED <<leaves, index, claimed, length, verdict>> /\ Climbing
  BY DEF Climb
<1>3. /\ taken' \in Seq(Steps) /\ Len(taken') = Len(taken) + 1
      /\ taken'[Len(taken')] = step /\ Len(taken) \in Nat
      /\ \A n \in 1..Len(taken) : taken'[n] = taken[n]
  BY <1>1 DEF IInv, Typed
<1>4. Typed'
  BY <1>2, <1>3 DEF IInv, Typed, Steps, Digests
<1>5. OnTheWay'
  <2>1. /\ <<cur, curCount>> = Led(LeafHash(claimed), taken)
        /\ \A n \in 1..Len(taken) : <<taken[n].side, taken[n].pages>> = MyShape[n]
    BY <1>2 DEF IInv, OnTheWay, Climbing
  <2>2. Led(LeafHash(claimed), taken') = Climbed(<<cur, curCount>>, step)
    BY <1>3, <2>1, LedByOneMore
  <2>3. <<cur', curCount'>> = Led(LeafHash(claimed), taken')
    BY <1>1, <2>2 DEF Climbed
  <2>4. index < Len(leaves) /\ length = Len(MyShape) /\ Len(taken') <= length
    BY <1>2, <1>3 DEF Climbing, IInv, Typed
  <2>5. \A n \in 1..Len(taken') : <<taken'[n].side, taken'[n].pages>> = MyShape[n]
    BY <1>1, <1>3, <2>1 DEF OnPath
  <2> QED
    BY <1>2, <2>3, <2>4, <2>5 DEF OnTheWay, MyShape
<1>6. verdict' = "pending"
  BY <1>2 DEF Climbing
<1> QED
  BY <1>4, <1>5, <1>6 DEF IInv, OnlyThePage, HonestAccepted

(* The whole path has been gone up: the hash reached decides. *)
LEMMA AtRootStep == ASSUME IInv, AtRoot PROVE IInv'
<1>1. /\ verdict = "pending" /\ index < Len(leaves)
      /\ length = Len(MyShape) /\ Len(taken) = length
      /\ verdict' = IF cur = Root(leaves) THEN "ok" ELSE "error"
      /\ UNCHANGED <<leaves, index, claimed, length, taken>>
  BY DEF AtRoot, Verdict
<1>2. /\ Agrees(LeafProof(leaves, index), MyShape, LeafHash(leaves[index + 1]),
                Root(leaves), Len(leaves))
      /\ Len(MyShape) \in Nat /\ Len(LeafProof(leaves, index)) = Len(MyShape)
  BY <1>1, MyTreeAgrees DEF IInv
<1>3. taken \in Seq(Steps) /\ Follows(taken, MyShape)
  BY <1>1, <1>2 DEF IInv, Typed, OnTheWay, Follows
<1>4. <<cur, curCount>> = Led(LeafHash(claimed), taken)
  BY <1>1 DEF IInv, OnTheWay
<1>5. Typed'
  BY <1>1 DEF IInv, Typed, Steps, Digests
<1>6. CASE cur = Root(leaves)
  <2>1. /\ LeafHash(claimed) = LeafHash(leaves[index + 1])
        /\ \A n \in 1..Len(taken) :
              IsStep(taken[n]) => taken[n] = LeafProof(leaves, index)[n]
    BY <1>2, <1>3, <1>4, <1>6 DEF Agrees, OnlyWay
  <2>2. claimed = leaves[index + 1]
    BY <2>1 DEF LeafHash
  <2>3. \A n \in 1..Len(taken) : IsStep(taken[n])
    <3> TAKE n \in 1..Len(taken)
    <3>1. taken[n] \in Steps
      BY <1>3
    <3> QED
      BY <3>1 DEF Steps, IsStep, Step
  <2>4. IsHonest(taken)
    BY <1>1, <1>2, <1>3, <2>1, <2>3, HonestSteps DEF IInv
  <2> QED
    BY <1>1, <1>2, <1>5, <1>6, <2>2, <2>4
       DEF IInv, OnTheWay, OnlyThePage, HonestAccepted, IsHonest
<1>7. CASE cur # Root(leaves)
  <2>1. ASSUME claimed = leaves[index + 1], IsHonest(taken) PROVE FALSE
    <3>1. taken = SubSeq(LeafProof(leaves, index), 1, Len(LeafProof(leaves, index)))
      BY <1>1, <1>2, <2>1 DEF IsHonest
    <3>2. PICK X : LeafProof(leaves, index) \in Seq(X)
      BY <1>2 DEF Agrees
    <3>3. taken = LeafProof(leaves, index)
      BY <3>1, <3>2
    <3>4. Led(LeafHash(claimed), taken) = <<Root(leaves), Len(leaves)>>
      BY <1>2, <2>1, <3>3 DEF Agrees
    <3> QED
      BY <1>4, <1>7, <3>4
  <2> QED
    BY <1>1, <1>5, <1>7, <2>1
       DEF IInv, OnTheWay, OnlyThePage, HonestAccepted, IsHonest
<1> QED
  BY <1>6, <1>7

LEMMA Invariance == Spec => []IInv
<1>1. IInv /\ [Next]_vars => IInv'
  <2>1. ASSUME IInv, UNCHANGED vars PROVE IInv'
    BY <2>1 DEF vars, IInv, Typed, Steps, Digests, OnTheWay, MyShape, OnlyThePage,
                HonestAccepted, IsHonest
  <2> QED
    BY <2>1, RefuseCallStep, RefuseStepStep, ClimbStep, AtRootStep DEF Next
<1> QED
  BY <1>1, InitIInv, PTL DEF Spec

-----------------------------------------------------------------------------
(* "Matching the root alone is not enough": of all pages and proofs, only   *)
(* the page at the index asked for passes, with the proof made for it.      *)
THEOREM OnlyThePagePasses == Spec => []OnlyThePage
<1>1. IInv => OnlyThePage
  BY DEF IInv
<1> QED
  BY <1>1, Invariance, PTL

(* And it is never refused: leaf_proof, merkle_root and                     *)
(* expected_proof_shape cut a tree of any size alike.                       *)
THEOREM HonestProofPasses == Spec => []HonestAccepted
<1>1. IInv => HonestAccepted
  BY DEF IInv
<1> QED
  BY <1>1, Invariance, PTL
=============================================================================
