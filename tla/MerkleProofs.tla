---------------------------- MODULE MerkleProofs ----------------------------
(***************************************************************************)
(* What the functions of src/src/chunkmap.rs on the Merkle tree compute,   *)
(* for every number of pages: merkle_root, leaf_proof and                  *)
(* expected_proof_shape cut the tree alike, and verify_leaf accepts, of    *)
(* all hashes and proofs, the one leaf at the index with its own proof.    *)
(*                                                                         *)
(* The functions are recursive.  Each is shown to satisfy its own equation *)
(* at every size, by induction on the size; induction is used in the form  *)
(* of a set of numbers that holds a number when it holds all smaller ones. *)
(***************************************************************************)
EXTENDS MerkleTree, WellFoundedInduction, TLAPS

-----------------------------------------------------------------------------
(* Induction over the natural numbers, as facts about sets of them. *)
LEMMA LeastElement ==
    ASSUME NEW T, T \subseteq Nat, T # {}
    PROVE  \E x \in T : \A y \in T : x <= y
<1> DEFINE R == OpToRel(<, Nat)
<1>1. IsWellFoundedOn(R, Nat)
  BY NatLessThanWellFounded
<1>2. \A x, y \in T : y < x => <<y, x>> \in R
  BY DEF OpToRel
<1> HIDE DEF R
<1>3. PICK x \in T : \A y \in T : ~ (<<y, x>> \in R)
  BY <1>1, WFMin
<1>4. \A y \in T : x <= y
  <2> TAKE y \in T
  <2>1. ~(y < x)
    BY <1>2, <1>3
  <2> QED
    BY <2>1
<1> QED
  BY <1>4

LEMMA StrongInduction ==
    ASSUME NEW S, \A n \in Nat : (\A m \in 0..n - 1 : m \in S) => n \in S
    PROVE  \A n \in Nat : n \in S
<1> DEFINE T == Nat \ S
<1> SUFFICES ASSUME T # {} PROVE FALSE
  OBVIOUS
<1>1. PICK x \in T : \A y \in T : x <= y
  BY LeastElement
<1>2. \A m \in 0..x - 1 : m \in S
  <2> TAKE m \in 0..x - 1
  <2>1. m \in Nat /\ ~(x <= m)
    BY <1>1
  <2> QED
    BY <1>1, <2>1
<1> QED
  BY <1>1, <1>2

-----------------------------------------------------------------------------
(* largest_pow2_below cuts every tree of more than one leaf in two. *)
LEMMA CutsInTwo ==
    ASSUME NEW n \in Nat, n > 1
    PROVE  Pow2Below(n) \in Nat /\ 0 < Pow2Below(n) /\ Pow2Below(n) < n
<1> DEFINE Row(f, j) == IF j = 0 THEN 1
                        ELSE IF 2 * f[j - 1] < n THEN 2 * f[j - 1] ELSE f[j - 1]
           U(f) == f = [j \in 0..n |-> Row(f, j)]
           h    == CHOOSE f : U(f)
           S    == {j \in Nat : \E f : \A i \in 0..j : f[i] = Row(f, i)}
<1>1. \A j \in Nat : j \in S
  <2> SUFFICES ASSUME NEW j \in Nat, \A m \in 0..j - 1 : m \in S PROVE j \in S
    BY StrongInduction
  <2>1. CASE j = 0
    <3> DEFINE f == [i \in {0} |-> 1]
    <3>1. \A i \in 0..0 : f[i] = Row(f, i)
      OBVIOUS
    <3> QED
      BY <2>1, <3>1
  <2>2. CASE j > 0
    <3>1. PICK g : \A i \in 0..j - 1 : g[i] = Row(g, i)
      BY <2>2
    <3> DEFINE f == [i \in 0..j |-> IF i < j THEN g[i] ELSE Row(g, j)]
    <3>2. \A i \in 0..j : f[i] = Row(f, i)
      BY <2>2, <3>1
    <3> QED
      BY <3>2
  <2> QED
    BY <2>1, <2>2
<1>2. U(h)
  <2>1. PICK g : \A i \in 0..n : g[i] = Row(g, i)
    BY <1>1
  <2> DEFINE f == [j \in 0..n |-> g[j]]
  <2>2. U(f)
    BY <2>1
  <2> QED
    BY <2>2
<1>3. Pow2Below(n) = h[n]
  BY DEF Pow2Below
<1> HIDE DEF h
<1> DEFINE Q == {j \in Nat : j <= n => h[j] \in Nat /\ 0 < h[j] /\ h[j] < n}
<1>4. \A j \in Nat : j \in Q
  <2> SUFFICES ASSUME NEW j \in Nat, \A m \in 0..j - 1 : m \in Q PROVE j \in Q
    BY StrongInduction
  <2> SUFFICES ASSUME j <= n PROVE h[j] \in Nat /\ 0 < h[j] /\ h[j] < n
    OBVIOUS
  <2>1. h[j] = Row(h, j)
    BY <1>2
  <2>2. CASE j = 0
    BY <2>1, <2>2
  <2>3. CASE j > 0
    BY <2>1, <2>3
  <2> QED
    BY <2>2, <2>3
<1> QED
  BY <1>3, <1>4

-----------------------------------------------------------------------------
(* build_subtree at every position and size. *)
LEMMA TreeRows ==
    ASSUME NEW ps, Len(ps) \in Nat
    PROVE  \A m \in 1..Len(ps) : \A from \in 0..Len(ps) - m :
             LET k == Pow2Below(m) IN
             /\ m = 1 => Subtree(ps, from, m) = LeafHash(ps[from + 1])
             /\ m > 1 => Subtree(ps, from, m) =
                           BranchHash(Subtree(ps, from, k),
                                      Subtree(ps, from + k, m - k), k, m - k)
<1> DEFINE L == Len(ps)
           Row(t, m) == [from \in 0..L - m |->
                IF m = 1 THEN LeafHash(ps[from + 1])
                ELSE LET k == Pow2Below(m)
                     IN  BranchHash(t[k][from], t[m - k][from + k], k, m - k)]
           U(t) == t = [m \in 1..L |-> Row(t, m)]
           h    == CHOOSE t : U(t)
           S    == {j \in Nat : \E t : \A m \in 1..j : t[m] = Row(t, m)}
<1>1. \A m \in Nat \ {0} : m > 1 => Pow2Below(m) \in 1..m - 1 /\ m - Pow2Below(m) \in 1..m - 1
  BY CutsInTwo
<1>2. ASSUME NEW m \in Nat \ {0}, NEW t, NEW u, \A i \in 1..m - 1 : t[i] = u[i]
      PROVE  Row(t, m) = Row(u, m)
  <2>1. CASE m = 1
    BY <2>1
  <2>2. CASE m > 1
    <3>1. t[Pow2Below(m)] = u[Pow2Below(m)] /\ t[m - Pow2Below(m)] = u[m - Pow2Below(m)]
      BY <1>1, <1>2, <2>2
    <3> QED
      BY <2>2, <3>1
  <2> QED
    BY <2>1, <2>2
<1> HIDE DEF Row
<1>3. \A j \in Nat : j \in S
  <2> SUFFICES ASSUME NEW j \in Nat, \A i \in 0..j - 1 : i \in S PROVE j \in S
    BY StrongInduction
  <2>1. CASE j = 0
    BY <2>1
  <2>2. CASE j > 0
    <3>0. j - 1 \in 0..j - 1
      BY <2>2
    <3>1. PICK g : \A m \in 1..j - 1 : g[m] = Row(g, m)
      <4>1. j - 1 \in S
        BY <3>0, Zenon
      <4> QED
        BY <4>1, Zenon
    <3> DEFINE t == [m \in 1..j |-> IF m < j THEN g[m] ELSE Row(g, j)]
    <3>2. \A m \in 1..j - 1 : t[m] = g[m]
      OBVIOUS
    <3>3. \A m \in 1..j : Row(t, m) = Row(g, m)
      BY <1>2, <3>2
    <3>4. \A m \in 1..j : t[m] = Row(t, m)
      BY <3>1, <3>3
    <3> QED
      BY <3>4
  <2> QED
    BY <2>1, <2>2
<1>4. U(h)
  <2>1. PICK g : \A m \in 1..L : g[m] = Row(g, m)
    BY <1>3
  <2> DEFINE t == [m \in 1..L |-> g[m]]
  <2>2. \A m \in 1..L : Row(t, m) = Row(g, m)
    BY <1>2
  <2>3. U(t)
    BY <2>1, <2>2
  <2> QED
    BY <2>3
<1>5. Tree(ps) = h
  BY DEF Tree, Row
<1> HIDE DEF h
<1>6. \A m \in 1..L : Tree(ps)[m] = Row(Tree(ps), m)
  BY <1>4, <1>5
<1>7. ASSUME NEW m \in 1..L, NEW from \in 0..L - m
      PROVE  Tree(ps)[m][from] =
                IF m = 1 THEN LeafHash(ps[from + 1])
                ELSE LET k == Pow2Below(m)
                     IN  BranchHash(Tree(ps)[k][from], Tree(ps)[m - k][from + k],
                                    k, m - k)
  <2>1. Tree(ps)[m] = Row(Tree(ps), m)
    BY <1>6
  <2> QED
    BY <2>1 DEF Row
<1> QED
  BY <1>7 DEF Subtree
(* leaf_proof at every position and size. *)
LEMMA ProofRows ==
    ASSUME NEW ps, Len(ps) \in Nat, NEW i
    PROVE  \A m \in 1..Len(ps) : \A from \in 0..Len(ps) - m :
             Proofs(ps, i)[m][from] =
                IF m = 1 THEN << >>
                ELSE LET k == Pow2Below(m)
                     IN  IF i < from + k
                         THEN Append(Proofs(ps, i)[k][from],
                                     Step("right", m - k, Subtree(ps, from + k, m - k)))
                         ELSE Append(Proofs(ps, i)[m - k][from + k],
                                     Step("left", k, Subtree(ps, from, k)))
<1> DEFINE L == Len(ps)
           Row(t, m) == [from \in 0..L - m |->
                IF m = 1 THEN << >>
                ELSE LET k == Pow2Below(m)
                     IN  IF i < from + k
                         THEN Append(t[k][from],
                                     Step("right", m - k, Subtree(ps, from + k, m - k)))
                         ELSE Append(t[m - k][from + k],
                                     Step("left", k, Subtree(ps, from, k)))]
           U(t) == t = [m \in 1..L |-> Row(t, m)]
           h    == CHOOSE t : U(t)
           S    == {j \in Nat : \E t : \A m \in 1..j : t[m] = Row(t, m)}
<1>1. \A m \in Nat \ {0} : m > 1 => Pow2Below(m) \in 1..m - 1 /\ m - Pow2Below(m) \in 1..m - 1
  BY CutsInTwo
<1>2. ASSUME NEW m \in Nat \ {0}, NEW t, NEW u, \A n \in 1..m - 1 : t[n] = u[n]
      PROVE  Row(t, m) = Row(u, m)
  <2>1. CASE m = 1
    BY <2>1
  <2>2. CASE m > 1
    <3>1. t[Pow2Below(m)] = u[Pow2Below(m)] /\ t[m - Pow2Below(m)] = u[m - Pow2Below(m)]
      BY <1>1, <1>2, <2>2
    <3> QED
      BY <2>2, <3>1
  <2> QED
    BY <2>1, <2>2
<1> HIDE DEF Row
<1>3. \A j \in Nat : j \in S
  <2> SUFFICES ASSUME NEW j \in Nat, \A n \in 0..j - 1 : n \in S PROVE j \in S
    BY StrongInduction
  <2>1. CASE j = 0
    BY <2>1
  <2>2. CASE j > 0
    <3>0. j - 1 \in 0..j - 1
      BY <2>2
    <3>1. PICK g : \A m \in 1..j - 1 : g[m] = Row(g, m)
      <4>1. j - 1 \in S
        BY <3>0, Zenon
      <4> QED
        BY <4>1, Zenon
    <3> DEFINE t == [m \in 1..j |-> IF m < j THEN g[m] ELSE Row(g, j)]
    <3>2. \A m \in 1..j - 1 : t[m] = g[m]
      OBVIOUS
    <3>3. \A m \in 1..j : Row(t, m) = Row(g, m)
      BY <1>2, <3>2
    <3>4. \A m \in 1..j : t[m] = Row(t, m)
      BY <3>1, <3>3
    <3> QED
      BY <3>4
  <2> QED
    BY <2>1, <2>2
<1>4. U(h)
  <2>1. PICK g : \A m \in 1..L : g[m] = Row(g, m)
    BY <1>3
  <2> DEFINE t == [m \in 1..L |-> g[m]]
  <2>2. \A m \in 1..L : Row(t, m) = Row(g, m)
    BY <1>2
  <2>3. U(t)
    BY <2>1, <2>2
  <2> QED
    BY <2>3
<1>5. Proofs(ps, i) = h
  BY DEF Proofs, Row
<1> HIDE DEF h
<1>6. \A m \in 1..L : Proofs(ps, i)[m] = Row(Proofs(ps, i), m)
  BY <1>4, <1>5
<1> QED
  <2> TAKE m \in 1..L
  <2> TAKE from \in 0..L - m
  <2>1. Proofs(ps, i)[m] = Row(Proofs(ps, i), m)
    BY <1>6
  <2> QED
    BY <2>1 DEF Row

(* expected_proof_shape at every size. *)
LEMMA ShapeRows ==
    ASSUME NEW count \in Nat
    PROVE  \A m \in 1..count : \A pos \in 0..m - 1 :
             Shapes(count)[m][pos] =
                IF m = 1 THEN << >>
                ELSE LET k == Pow2Below(m)
                     IN  IF pos < k THEN Append(Shapes(count)[k][pos], <<"right", m - k>>)
                         ELSE Append(Shapes(count)[m - k][pos - k], <<"left", k>>)
<1> DEFINE L == count
           Row(t, m) == [pos \in 0..m - 1 |->
                IF m = 1 THEN << >>
                ELSE LET k == Pow2Below(m)
                     IN  IF pos < k THEN Append(t[k][pos], <<"right", m - k>>)
                         ELSE Append(t[m - k][pos - k], <<"left", k>>)]
           U(t) == t = [m \in 1..L |-> Row(t, m)]
           h    == CHOOSE t : U(t)
           S    == {j \in Nat : \E t : \A m \in 1..j : t[m] = Row(t, m)}
<1>1. \A m \in Nat \ {0} : m > 1 => Pow2Below(m) \in 1..m - 1 /\ m - Pow2Below(m) \in 1..m - 1
  BY CutsInTwo
<1>2. ASSUME NEW m \in Nat \ {0}, NEW t, NEW u, \A i \in 1..m - 1 : t[i] = u[i]
      PROVE  Row(t, m) = Row(u, m)
  <2>1. CASE m = 1
    BY <2>1
  <2>2. CASE m > 1
    <3>1. t[Pow2Below(m)] = u[Pow2Below(m)] /\ t[m - Pow2Below(m)] = u[m - Pow2Below(m)]
      BY <1>1, <1>2, <2>2
    <3> QED
      BY <2>2, <3>1
  <2> QED
    BY <2>1, <2>2
<1> HIDE DEF Row
<1>3. \A j \in Nat : j \in S
  <2> SUFFICES ASSUME NEW j \in Nat, \A i \in 0..j - 1 : i \in S PROVE j \in S
    BY StrongInduction
  <2>1. CASE j = 0
    BY <2>1
  <2>2. CASE j > 0
    <3>0. j - 1 \in 0..j - 1
      BY <2>2
    <3>1. PICK g : \A m \in 1..j - 1 : g[m] = Row(g, m)
      <4>1. j - 1 \in S
        BY <3>0, Zenon
      <4> QED
        BY <4>1, Zenon
    <3> DEFINE t == [m \in 1..j |-> IF m < j THEN g[m] ELSE Row(g, j)]
    <3>2. \A m \in 1..j - 1 : t[m] = g[m]
      OBVIOUS
    <3>3. \A m \in 1..j : Row(t, m) = Row(g, m)
      BY <1>2, <3>2
    <3>4. \A m \in 1..j : t[m] = Row(t, m)
      BY <3>1, <3>3
    <3> QED
      BY <3>4
  <2> QED
    BY <2>1, <2>2
<1>4. U(h)
  <2>1. PICK g : \A m \in 1..L : g[m] = Row(g, m)
    BY <1>3
  <2> DEFINE t == [m \in 1..L |-> g[m]]
  <2>2. \A m \in 1..L : Row(t, m) = Row(g, m)
    BY <1>2
  <2>3. U(t)
    BY <2>1, <2>2
  <2> QED
    BY <2>3
<1>5. Shapes(count) = h
  BY DEF Shapes, Row
<1> HIDE DEF h
<1>6. \A m \in 1..L : Shapes(count)[m] = Row(Shapes(count), m)
  BY <1>4, <1>5
<1> QED
  <2> TAKE m \in 1..L
  <2> TAKE pos \in 0..m - 1
  <2>1. Shapes(count)[m] = Row(Shapes(count), m)
    BY <1>6
  <2> QED
    BY <2>1 DEF Row

(* The loop of verify_leaf, one step at a time. *)
LEMMA LevelRows ==
    ASSUME NEW hash, NEW proof, Len(proof) \in Nat
    PROVE  /\ Levels(hash, proof)[0] = <<hash, 1>>
           /\ \A n \in 1..Len(proof) :
                Levels(hash, proof)[n] = Climbed(Levels(hash, proof)[n - 1], proof[n])
<1> DEFINE L == Len(proof)
           Row(f, n) == IF n = 0 THEN <<hash, 1>> ELSE Climbed(f[n - 1], proof[n])
           U(f) == f = [n \in 0..L |-> Row(f, n)]
           h    == CHOOSE f : U(f)
           S    == {j \in Nat : \E f : \A n \in 0..j : f[n] = Row(f, n)}
<1> HIDE DEF Row
<1>1. \A j \in Nat : j \in S
  <2> SUFFICES ASSUME NEW j \in Nat, \A m \in 0..j - 1 : m \in S PROVE j \in S
    BY StrongInduction
  <2>1. CASE j = 0
    <3> DEFINE f == [n \in {0} |-> <<hash, 1>>]
    <3>1. \A n \in 0..0 : f[n] = Row(f, n)
      BY DEF Row
    <3> QED
      BY <2>1, <3>1
  <2>2. CASE j > 0
    <3>0. j - 1 \in S
      BY <2>2
    <3>1. PICK g : \A n \in 0..j - 1 : g[n] = Row(g, n)
      BY <3>0
    <3> DEFINE f == [n \in 0..j |-> IF n < j THEN g[n] ELSE Row(g, j)]
    <3>2. \A n \in 0..j : f[n] = Row(f, n)
      BY <2>2, <3>1 DEF Row
    <3> QED
      BY <3>2
  <2> QED
    BY <2>1, <2>2
<1>2. U(h)
  <2>1. PICK g : \A n \in 0..L : g[n] = Row(g, n)
    BY <1>1
  <2> DEFINE f == [n \in 0..L |-> g[n]]
  <2>2. \A n \in 0..L : f[n] = Row(f, n)
    BY <2>1 DEF Row
  <2>3. U(f)
    BY <2>2
  <2> QED
    BY <2>3
<1>3. Levels(hash, proof) = h
  BY DEF Levels, Row
<1> HIDE DEF h
<1>4. \A n \in 0..L : Levels(hash, proof)[n] = Row(Levels(hash, proof), n)
  BY <1>2, <1>3
<1>5. Levels(hash, proof)[0] = <<hash, 1>>
  BY <1>4 DEF Row
<1>6. ASSUME NEW n \in 1..L
      PROVE  Levels(hash, proof)[n] = Climbed(Levels(hash, proof)[n - 1], proof[n])
  <2>1. n \in 0..L /\ n # 0
    OBVIOUS
  <2> QED
    BY <1>4, <2>1 DEF Row
<1> QED
  BY <1>5, <1>6

LEMMA LedByNothing ==
    ASSUME NEW hash, NEW proof, Len(proof) = 0
    PROVE  Led(hash, proof) = <<hash, 1>>
  BY LevelRows DEF Led

(* One step more. *)
LEMMA LedByOneMore ==
    ASSUME NEW hash, NEW p, NEW q, Len(p) \in Nat, Len(q) = Len(p) + 1,
           \A n \in 1..Len(p) : q[n] = p[n]
    PROVE  Led(hash, q) = Climbed(Led(hash, p), q[Len(q)])
<1> DEFINE S == {n \in Nat : n <= Len(p) => Levels(hash, q)[n] = Levels(hash, p)[n]}
<1>1. \A n \in Nat : n \in S
  <2> SUFFICES ASSUME NEW n \in Nat, \A m \in 0..n - 1 : m \in S, n <= Len(p)
               PROVE  Levels(hash, q)[n] = Levels(hash, p)[n]
    BY StrongInduction
  <2>1. CASE n = 0
    BY <2>1, LevelRows
  <2>2. CASE n > 0
    <3>1. Levels(hash, q)[n - 1] = Levels(hash, p)[n - 1]
      BY <2>2
    <3>2. n \in 1..Len(p) /\ n \in 1..Len(q) /\ q[n] = p[n] /\ Len(q) \in Nat
      BY <2>2
    <3>3. Levels(hash, q)[n] = Climbed(Levels(hash, q)[n - 1], q[n])
      BY <3>2, LevelRows
    <3>4. Levels(hash, p)[n] = Climbed(Levels(hash, p)[n - 1], p[n])
      BY <3>2, LevelRows
    <3> QED
      BY <3>1, <3>2, <3>3, <3>4
  <2> QED
    BY <2>1, <2>2
<1>2. Levels(hash, q)[Len(p)] = Levels(hash, p)[Len(p)]
  BY <1>1
<1> QED
  BY <1>2, LevelRows DEF Led

-----------------------------------------------------------------------------
(* A proof and a derived path belong together: the proof is on the path,    *)
(* leads from the leaf's hash up to a subtree of m leaves, and of all that  *)
(* is on the path nothing else does.                                        *)
Sides     == {"left", "right"}
IsStep(s) == s = Step(s.side, s.pages, s.digest)

Follows(q, path) ==
    /\ Len(q) = Len(path)
    /\ \A n \in 1..Len(path) : <<q[n].side, q[n].pages>> = path[n]

OnlyWay(proof, path, leaf, top, m) ==
    \A hash, q : Follows(q, path) =>
        /\ Led(hash, q)[2] = m
        /\ Led(hash, q)[1] = top =>
               /\ hash = leaf
               /\ \A n \in 1..Len(q) : IsStep(q[n]) => q[n] = proof[n]

Agrees(proof, path, leaf, top, m) ==
    /\ \E X : proof \in Seq(X)
    /\ path \in Seq(Sides \X Nat)
    /\ Follows(proof, path)
    /\ Led(leaf, proof) = <<top, m>>
    /\ OnlyWay(proof, path, leaf, top, m)

(* Before the first step there is the leaf alone. *)
LEMMA AgreesAtLeaf == ASSUME NEW leaf PROVE Agrees(<< >>, << >>, leaf, leaf, 1)
<1>1. << >> \in Seq({}) /\ << >> \in Seq(Sides \X Nat) /\ Len(<< >>) = 0
  OBVIOUS
<1>2. ASSUME NEW hash, NEW q, Follows(q, << >>) PROVE Led(hash, q) = <<hash, 1>>
  BY <1>1, <1>2, LedByNothing DEF Follows
<1>3. Follows(<< >>, << >>)
  BY DEF Follows
<1>4. OnlyWay(<< >>, << >>, leaf, leaf, 1)
  <2> SUFFICES ASSUME NEW hash, NEW q, Follows(q, << >>)
               PROVE  /\ Led(hash, q)[2] = 1
                      /\ Led(hash, q)[1] = leaf =>
                           /\ hash = leaf
                           /\ \A n \in 1..Len(q) : IsStep(q[n]) => q[n] = << >>[n]
    BY DEF OnlyWay
  <2>1. Len(q) = 0
    BY <1>1 DEF Follows
  <2> QED
    BY <1>2, <2>1
<1> QED
  BY <1>1, <1>2, <1>3, <1>4 DEF Agrees

(* And with each step upwards they stay together. *)
LEMMA AgreesOneLevelUp ==
    ASSUME NEW proof, NEW path, NEW leaf, NEW top, NEW m \in Nat,
           Agrees(proof, path, leaf, top, m),
           NEW side \in Sides, NEW pages \in Nat, NEW digest
    PROVE  LET step == Step(side, pages, digest) IN
           Agrees(Append(proof, step), Append(path, <<side, pages>>), leaf,
                  Climbed(<<top, m>>, step)[1], m + pages)
<1> DEFINE step   == Step(side, pages, digest)
           proof2 == Append(proof, step)
           path2  == Append(path, <<side, pages>>)
           top2   == Climbed(<<top, m>>, step)[1]
<1>1. PICK X : proof \in Seq(X)
  BY DEF Agrees
<1>2. proof2 \in Seq(X \cup {step}) /\ path2 \in Seq(Sides \X Nat)
  <2>1. proof \in Seq(X \cup {step})
    BY <1>1
  <2> QED
    BY <2>1 DEF Agrees
<1>3. /\ Len(proof) \in Nat /\ Len(path) = Len(proof)
      /\ Len(proof2) = Len(proof) + 1 /\ Len(path2) = Len(path) + 1
      /\ \A n \in 1..Len(proof) : proof2[n] = proof[n] /\ path2[n] = path[n]
      /\ proof2[Len(proof2)] = step /\ path2[Len(path2)] = <<side, pages>>
  BY <1>1 DEF Agrees, Follows
<1>4. step.side = side /\ step.pages = pages /\ step.digest = digest
  BY DEF Step
<1> HIDE DEF step, proof2, path2
<1>5. Follows(proof2, path2)
  BY <1>3, <1>4 DEF Follows, Agrees
<1>6. Led(leaf, proof2) = <<top2, m + pages>>
  <2>1. Led(leaf, proof2) = Climbed(Led(leaf, proof), step)
    BY <1>3, LedByOneMore
  <2> QED
    BY <1>4, <2>1 DEF Agrees, Climbed
<1>7. OnlyWay(proof2, path2, leaf, top2, m + pages)
  <2> SUFFICES ASSUME NEW hash, NEW q, Follows(q, path2)
               PROVE  /\ Led(hash, q)[2] = m + pages
                      /\ Led(hash, q)[1] = top2 =>
                           /\ hash = leaf
                           /\ \A n \in 1..Len(q) : IsStep(q[n]) => q[n] = proof2[n]
    BY DEF OnlyWay
  <2> DEFINE r == [n \in 1..Len(proof) |-> q[n]]
             t == q[Len(q)]
  <2>1. /\ Len(q) = Len(proof) + 1 /\ Len(r) = Len(proof)
        /\ \A n \in 1..Len(r) : q[n] = r[n]
    BY <1>3 DEF Follows
  <2>2. Follows(r, path)
    BY <1>3, <2>1 DEF Follows
  <2>3. t.side = side /\ t.pages = pages
    BY <1>3, <2>1 DEF Follows
  <2> HIDE DEF r, t
  <2>4. Led(hash, q) = Climbed(Led(hash, r), t)
    BY <1>3, <2>1, LedByOneMore DEF t
  <2>5. Led(hash, r)[2] = m
    BY <2>2 DEF Agrees, OnlyWay
  <2>6. Led(hash, q)[2] = m + pages
    BY <2>3, <2>4, <2>5 DEF Climbed
  <2>7. ASSUME Led(hash, q)[1] = top2
        PROVE  Led(hash, r)[1] = top /\ t.digest = digest
    BY <1>4, <2>3, <2>4, <2>5, <2>7 DEF Climbed, BranchHash, Sides
  <2>8. ASSUME Led(hash, q)[1] = top2
        PROVE  /\ hash = leaf
               /\ \A n \in 1..Len(q) : IsStep(q[n]) => q[n] = proof2[n]
    <3>1. /\ hash = leaf
          /\ \A n \in 1..Len(r) : IsStep(r[n]) => r[n] = proof[n]
      BY <2>2, <2>7, <2>8 DEF Agrees, OnlyWay
    <3>2. IsStep(t) => t = step
      BY <2>3, <2>7, <2>8 DEF IsStep, step
    <3> QED
      BY <1>3, <2>1, <3>1, <3>2 DEF t
  <2> QED
    BY <2>6, <2>8
<1> QED
  BY <1>2, <1>5, <1>6, <1>7 DEF Agrees, step, proof2, path2

(* leaf_proof, expected_proof_shape and merkle_root cut every span of pages *)
(* alike, whatever its size and position.                                   *)
LEMMA SpansAgree ==
    ASSUME NEW ps, Len(ps) \in Nat, NEW i \in 0..Len(ps) - 1
    PROVE  \A m \in 1..Len(ps) : \A from \in 0..Len(ps) - m :
             from <= i /\ i < from + m =>
               Agrees(Proofs(ps, i)[m][from], Shapes(Len(ps))[m][i - from],
                      LeafHash(ps[i + 1]), Subtree(ps, from, m), m)
<1> DEFINE L == Len(ps)
           P(m, from) == Agrees(Proofs(ps, i)[m][from], Shapes(L)[m][i - from],
                                LeafHash(ps[i + 1]), Subtree(ps, from, m), m)
           S == {m \in Nat : \A from \in 0..L - m :
                    m # 0 /\ from <= i /\ i < from + m => P(m, from)}
<1>1. \A m \in Nat : m \in S
  <2> SUFFICES ASSUME NEW m \in Nat, \A n \in 0..m - 1 : n \in S,
                      NEW from \in 0..L - m, m # 0, from <= i, i < from + m
               PROVE  P(m, from)
    BY StrongInduction
  <2>0. m \in 1..L /\ i - from \in 0..m - 1 /\ i - from \in Nat
    OBVIOUS
  <2>1. CASE m = 1
    <3>1. Proofs(ps, i)[m][from] = << >>
      BY <2>0, <2>1, ProofRows
    <3>2. Shapes(L)[m][i - from] = << >>
      BY <2>0, <2>1, ShapeRows
    <3>3. Subtree(ps, from, m) = LeafHash(ps[i + 1])
      BY <2>0, <2>1, TreeRows
    <3> QED
      BY <2>1, <3>1, <3>2, <3>3, AgreesAtLeaf
  <2>2. CASE m > 1
    <3> DEFINE k == Pow2Below(m)
    <3>1. /\ k \in Nat /\ 0 < k /\ k < m /\ k \in 0..m - 1 /\ m - k \in 0..m - 1
          /\ k \in 1..L /\ m - k \in 1..L /\ m - k \in Nat
      BY <2>2, CutsInTwo
    <3>2. /\ k \in S /\ m - k \in S
      BY <3>1
    <3> HIDE DEF k, S
    <3>3. Subtree(ps, from, m) =
            BranchHash(Subtree(ps, from, k), Subtree(ps, from + k, m - k), k, m - k)
      BY <2>0, <2>2, TreeRows DEF k
    <3>4. m # 1 /\ L \in Nat
      BY <2>2
    <3>5. Proofs(ps, i)[m][from] =
            IF i < from + k
            THEN Append(Proofs(ps, i)[k][from],
                        Step("right", m - k, Subtree(ps, from + k, m - k)))
            ELSE Append(Proofs(ps, i)[m - k][from + k],
                        Step("left", k, Subtree(ps, from, k)))
      BY <2>0, <3>4, ProofRows, Zenon DEF k
    <3>6. Shapes(L)[m][i - from] =
            IF i - from < k
            THEN Append(Shapes(L)[k][i - from], <<"right", m - k>>)
            ELSE Append(Shapes(L)[m - k][i - from - k], <<"left", k>>)
      BY <2>0, <3>4, ShapeRows, Zenon DEF k
    <3>7. CASE i < from + k
      <4> DEFINE step == Step("right", m - k, Subtree(ps, from + k, m - k))
      <4>1. P(k, from)
        <5>1. from \in 0..L - k
          BY <3>1
        <5> QED
          BY <3>1, <3>2, <3>7, <5>1 DEF S
      <4>2. Proofs(ps, i)[m][from] = Append(Proofs(ps, i)[k][from], step)
        BY <3>7, <3>5
      <4>3. Shapes(L)[m][i - from] = Append(Shapes(L)[k][i - from], <<"right", m - k>>)
        <5>1. i - from < k
          BY <3>1, <3>7
        <5> QED
          BY <3>6, <5>1
      <4>4. Climbed(<<Subtree(ps, from, k), k>>, step)[1] = Subtree(ps, from, m)
        BY <3>3 DEF Climbed, Step
      <4>5. k + (m - k) = m
        BY <3>1
      <4>6. Agrees(Append(Proofs(ps, i)[k][from], step),
                   Append(Shapes(L)[k][i - from], <<"right", m - k>>),
                   LeafHash(ps[i + 1]),
                   Climbed(<<Subtree(ps, from, k), k>>, step)[1], k + (m - k))
        BY <3>1, <4>1, AgreesOneLevelUp DEF Sides
      <4> QED
        BY <4>2, <4>3, <4>4, <4>5, <4>6
    <3>8. CASE ~(i < from + k)
      <4> DEFINE step == Step("left", k, Subtree(ps, from, k))
      <4>0. i - (from + k) = i - from - k /\ from + k \in 0..L - (m - k)
            /\ from + k <= i /\ i < (from + k) + (m - k)
        BY <3>1, <3>8
      <4>1. P(m - k, from + k)
        BY <3>1, <3>2, <4>0 DEF S
      <4>2. Proofs(ps, i)[m][from] = Append(Proofs(ps, i)[m - k][from + k], step)
        BY <3>8, <3>5
      <4>3. Shapes(L)[m][i - from] =
              Append(Shapes(L)[m - k][i - (from + k)], <<"left", k>>)
        <5>1. ~(i - from < k)
          BY <3>1, <3>8
        <5> QED
          BY <3>6, <4>0, <5>1
      <4>4. Climbed(<<Subtree(ps, from + k, m - k), m - k>>, step)[1]
              = Subtree(ps, from, m)
        BY <3>3 DEF Climbed, Step
      <4>5. (m - k) + k = m
        BY <3>1
      <4>6. Agrees(Append(Proofs(ps, i)[m - k][from + k], step),
                   Append(Shapes(L)[m - k][i - (from + k)], <<"left", k>>),
                   LeafHash(ps[i + 1]),
                   Climbed(<<Subtree(ps, from + k, m - k), m - k>>, step)[1],
                   (m - k) + k)
        BY <3>1, <4>1, AgreesOneLevelUp DEF Sides
      <4> QED
        BY <4>2, <4>3, <4>4, <4>5, <4>6
    <3> QED
      BY <3>7, <3>8
  <2> QED
    BY <2>1, <2>2
<1> QED
  BY <1>1

LEMMA TreeAgrees ==
    ASSUME NEW ps, Len(ps) \in Nat, NEW i \in 0..Len(ps) - 1
    PROVE  Agrees(LeafProof(ps, i), Shape(Len(ps), i), LeafHash(ps[i + 1]),
                  Root(ps), Len(ps))
<1>1. Len(ps) \in 1..Len(ps) /\ 0 \in 0..Len(ps) - Len(ps) /\ i - 0 = i
      /\ 0 <= i /\ i < 0 + Len(ps)
  OBVIOUS
<1> QED
  BY <1>1, SpansAgree DEF LeafProof, Shape, Root

-----------------------------------------------------------------------------
(* verify_leaf accepts every page of every file with the proof leaf_proof   *)
(* makes of it: the three functions cut the tree alike.                     *)
THEOREM OwnProofVerifies ==
    ASSUME NEW ps, Len(ps) \in Nat, NEW i \in 0..Len(ps) - 1
    PROVE  VerifyLeaf(Len(ps), i, LeafHash(ps[i + 1]), LeafProof(ps, i), Root(ps))
<1> DEFINE proof == LeafProof(ps, i)
<1>1. /\ \E X : proof \in Seq(X)
      /\ Follows(proof, Shape(Len(ps), i))
      /\ Led(LeafHash(ps[i + 1]), proof) = <<Root(ps), Len(ps)>>
  BY TreeAgrees DEF Agrees
<1>2. DOMAIN proof = 1..Len(proof)
  BY <1>1
<1> QED
  BY <1>1, <1>2 DEF VerifyLeaf, OnShape, Follows

(* It accepts no other page at that index, whatever the steps.              *)
LEMMA OnlyOwnPage ==
    ASSUME NEW ps, Len(ps) \in Nat, NEW i \in Nat, NEW hash, NEW X, NEW proof \in Seq(X),
           VerifyLeaf(Len(ps), i, hash, proof, Root(ps))
    PROVE  /\ i \in 0..Len(ps) - 1 /\ hash = LeafHash(ps[i + 1])
           /\ Len(proof) = Len(LeafProof(ps, i))
           /\ \A n \in 1..Len(proof) : IsStep(proof[n]) => proof[n] = LeafProof(ps, i)[n]
<1>1. /\ i \in 0..Len(ps) - 1
      /\ Follows(proof, Shape(Len(ps), i))
      /\ Led(hash, proof)[1] = Root(ps)
  BY DEF VerifyLeaf, OnShape, Follows
<1>2. /\ Follows(LeafProof(ps, i), Shape(Len(ps), i))
      /\ OnlyWay(LeafProof(ps, i), Shape(Len(ps), i), LeafHash(ps[i + 1]),
                 Root(ps), Len(ps))
  BY <1>1, TreeAgrees DEF Agrees
<1>3. /\ hash = LeafHash(ps[i + 1])
      /\ \A n \in 1..Len(proof) : IsStep(proof[n]) => proof[n] = LeafProof(ps, i)[n]
  BY <1>1, <1>2 DEF OnlyWay
<1>4. Len(proof) = Len(LeafProof(ps, i))
  BY <1>1, <1>2 DEF Follows
<1> QED
  BY <1>1, <1>3, <1>4

(* verify_leaf accepts nothing else: no page that is not at the index in    *)
(* the tree of that root, and no other steps ("matching the root alone is   *)
(* not enough").                                                            *)
THEOREM OnlyOwnProofVerifies ==
    ASSUME NEW ps, Len(ps) \in Nat, NEW i \in Nat, NEW hash,
           NEW X, NEW proof \in Seq(X), \A s \in X : IsStep(s),
           VerifyLeaf(Len(ps), i, hash, proof, Root(ps))
    PROVE  /\ i < Len(ps) /\ hash = LeafHash(ps[i + 1])
           /\ Len(proof) = Len(LeafProof(ps, i))
           /\ \A n \in 1..Len(proof) : proof[n] = LeafProof(ps, i)[n]
<1>1. /\ i \in 0..Len(ps) - 1 /\ hash = LeafHash(ps[i + 1])
      /\ Len(proof) = Len(LeafProof(ps, i))
      /\ \A n \in 1..Len(proof) : IsStep(proof[n]) => proof[n] = LeafProof(ps, i)[n]
  BY OnlyOwnPage
<1>2. \A n \in 1..Len(proof) : proof[n] \in X
  OBVIOUS
<1> QED
  BY <1>1, <1>2
=============================================================================
