---------------------------- MODULE RecordProofs ----------------------------
(***************************************************************************)
(* What the record codecs of src/src/namespace.rs, descriptor.rs,          *)
(* namespace/radix.rs and treeframe.rs promise, for records and bytes of   *)
(* any length and any kind of damage; and that the encodings stay below    *)
(* the limits the encoders do not look at.                                 *)
(***************************************************************************)
EXTENDS RecordExchange, Layout, FiniteSetTheorems,
        SequenceTheorems, WellFoundedInduction, TLAPS

-----------------------------------------------------------------------------
(* Induction on numbers, in set form. *)
LEMMA LeastElement ==
    ASSUME NEW T, T \subseteq Nat, T # {}
    PROVE  \E x \in T : \A y \in T : x <= y
<1> DEFINE R == OpToRel(<, Nat)
<1>1. IsWellFoundedOn(R, Nat)
  BY NatLessThanWellFounded
<1>2. \A x, y \in T : y < x => <<y, x>> \in R
  BY DEF OpToRel
<1> HIDE DEF R
<1>3. PICK x \in T : \A y \in T : ~ (<<y, x>> \in R)
  BY <1>1, WFMin
<1>4. \A y \in T : ~(y < x)
  BY <1>2, <1>3
<1> QED
  BY <1>4

LEMMA StepByStep ==
    ASSUME NEW S, 0 \in S, NEW n \in Nat,
           \A k \in 1..n : k - 1 \in S => k \in S
    PROVE  \A k \in 0..n : k \in S
<1> SUFFICES ASSUME NEW k0 \in 0..n, k0 \notin S PROVE FALSE
  OBVIOUS
<1> DEFINE T == {k \in 0..n : k \notin S}
<1>1. PICK x \in T : \A y \in T : x <= y
  <2>1. T \subseteq Nat /\ T # {}
    OBVIOUS
  <2> HIDE DEF T
  <2> QED
    BY <2>1, LeastElement
<1>2. x \in 1..n
  OBVIOUS
<1>3. x - 1 \in 0..n /\ x - 1 \notin T
  BY <1>1, <1>2
<1> QED
  BY <1>2, <1>3

-----------------------------------------------------------------------------
(* Pieces of a sequence of cells. *)
LEMMA PieceIs ==
    ASSUME NEW c \in Seq(Nat), NEW a \in Nat \ {0}, NEW b \in Nat,
           a <= b + 1, b <= Len(c)
    PROVE  /\ SubSeq(c, a, b) \in Seq(Nat) /\ Len(SubSeq(c, a, b)) = (b + 1) - a
           /\ \A k \in 1..(b + 1) - a : SubSeq(c, a, b)[k] = c[(a + k) - 1]
  OBVIOUS

LEMMA JoinPieces ==
    ASSUME NEW c \in Seq(Nat), NEW a \in Nat \ {0}, NEW b \in Nat, NEW d \in Nat,
           a <= b + 1, b <= d, d <= Len(c)
    PROVE  SubSeq(c, a, b) \o SubSeq(c, b + 1, d) = SubSeq(c, a, d)
<1>1. a \in 1..Len(c) + 1 /\ b \in a - 1..Len(c) /\ d \in b..Len(c)
  OBVIOUS
<1> QED
  BY <1>1, ConcatAdjacentSubSeq

LEMMA OneCell ==
    ASSUME NEW c \in Seq(Nat), NEW a \in 1..Len(c)
    PROVE  SubSeq(c, a, a) = <<c[a]>>
<1> DEFINE s == SubSeq(c, a, a)
           t == <<c[a]>>
<1>1. s \in Seq(Nat) /\ Len(s) = 1 /\ s[1] = c[a]
  <2>1. a \in Nat \ {0} /\ a \in Nat /\ a <= a + 1 /\ a <= Len(c)
    OBVIOUS
  <2>2. /\ s \in Seq(Nat) /\ Len(s) = (a + 1) - a
        /\ \A k \in 1..(a + 1) - a : s[k] = c[(a + k) - 1]
    BY <2>1, PieceIs
  <2>3. (a + 1) - a = 1 /\ (a + 1) - 1 = a /\ 1 \in 1..(a + 1) - a
    OBVIOUS
  <2>4. s[1] = c[(a + 1) - 1]
    BY <2>2, <2>3
  <2> HIDE DEF s
  <2> QED
    BY <2>2, <2>3, <2>4
<1>2. c[a] \in Nat
  OBVIOUS
<1>3. t \in Seq(Nat) /\ Len(t) = 1 /\ t[1] = c[a]
  BY <1>2
<1> HIDE DEF s, t
<1>4. s = t
  BY <1>1, <1>3, SeqEqual
<1> QED
  BY <1>4 DEF s, t

(* A field as it was written: its length, then its cells. *)
LEMMA FieldPiece ==
    ASSUME NEW c \in Seq(Nat), NEW a \in 1..Len(c), a + c[a] <= Len(c)
    PROVE  Field(SubSeq(c, a + 1, a + c[a])) = SubSeq(c, a, a + c[a])
<1>1. a \in Nat \ {0} /\ c[a] \in Nat /\ a + c[a] \in Nat
  OBVIOUS
<1> DEFINE s == SubSeq(c, a + 1, a + c[a])
<1>2. Len(s) = c[a]
  <2>1. a + 1 \in Nat \ {0} /\ a + 1 <= (a + c[a]) + 1
    BY <1>1
  <2>2. Len(s) = ((a + c[a]) + 1) - (a + 1)
    BY <1>1, <2>1, PieceIs
  <2> QED
    BY <1>1, <2>2
<1>3. SubSeq(c, a, a) \o s = SubSeq(c, a, a + c[a])
  <2>1. a <= a + 1 /\ a <= a + c[a] /\ a \in Nat
    BY <1>1
  <2> QED
    BY <1>1, <2>1, JoinPieces
<1> QED
  BY <1>2, <1>3, OneCell DEF Field

-----------------------------------------------------------------------------
(* Input, item by item: where each item begins, and its piece. *)
ScanFirst == [ok |-> TRUE, at |-> 2, pieces |-> << >>]

ScanItem(c, item, before) ==
    LET width == WidthOf(item, c, before.at)
        piece == Take(c, before.at, width)
    IN  IF ~before.ok \/ piece = << >>
        THEN [ok |-> FALSE, at |-> before.at, pieces |-> << >>]
        ELSE [ok |-> TRUE, at |-> before.at + width,
              pieces |-> Append(before.pieces,
                             IF item = "cell" THEN piece[1] ELSE Tail(piece[1]))]

ScanTable(c, items, got) ==
    /\ Scan(c, items) = got[Len(items)] /\ got[0] = ScanFirst
    /\ \A k \in 1..Len(items) : got[k] = ScanItem(c, items[k], got[k - 1])

LEMMA ScanRows ==
    ASSUME NEW c, NEW items, Len(items) \in Nat
    PROVE  \E got : ScanTable(c, items, got)
<1> DEFINE L == Len(items)
           Row(f, k) == IF k = 0 THEN ScanFirst ELSE ScanItem(c, items[k], f[k - 1])
           U(f) == f = [k \in 0..L |-> Row(f, k)]
           h    == CHOOSE f : U(f)
           S    == {j \in Nat : \E f : \A k \in 0..j : f[k] = Row(f, k)}
<1> HIDE DEF Row
<1>1. \A j \in 0..L : j \in S
  <2>1. 0 \in S
    <3> DEFINE f == [k \in 0..0 |-> ScanFirst]
    <3>1. \A k \in 0..0 : f[k] = Row(f, k)
      BY DEF Row
    <3> QED
      BY <3>1
  <2>2. \A j \in 1..L : j - 1 \in S => j \in S
    <3> SUFFICES ASSUME NEW j \in 1..L, j - 1 \in S PROVE j \in S
      OBVIOUS
    <3>1. PICK g : \A k \in 0..j - 1 : g[k] = Row(g, k)
      OBVIOUS
    <3> DEFINE f == [k \in 0..j |-> IF k < j THEN g[k] ELSE Row(g, j)]
    <3>2. ASSUME NEW k \in 0..j, k < j PROVE f[k] = Row(f, k)
      <4>1. f[k] = Row(g, k)
        BY <3>1, <3>2
      <4>2. k # 0 => f[k - 1] = g[k - 1]
        BY <3>2
      <4> HIDE DEF f
      <4> QED
        BY <4>1, <4>2 DEF Row
    <3>3. f[j] = Row(f, j)
      <4>1. f[j] = Row(g, j)
        OBVIOUS
      <4>2. f[j - 1] = g[j - 1]
        OBVIOUS
      <4> HIDE DEF f
      <4> QED
        BY <4>1, <4>2 DEF Row
    <3> HIDE DEF f
    <3>4. \A k \in 0..j : f[k] = Row(f, k)
      BY <3>2, <3>3
    <3> QED
      BY <3>4
  <2> HIDE DEF S
  <2> QED
    BY <2>1, <2>2, StepByStep
<1>2. U(h)
  <2>1. PICK g : \A k \in 0..L : g[k] = Row(g, k)
    <3>1. L \in S
      BY <1>1
    <3> QED
      BY <3>1
  <2> DEFINE f == [k \in 0..L |-> g[k]]
  <2>2. \A k \in 0..L : f[k] = Row(f, k)
    BY <2>1 DEF Row
  <2>3. U(f)
    BY <2>2
  <2> QED
    BY <2>3
<1>3. Scan(c, items) = h[L]
  BY DEF Scan, Row, ScanFirst, ScanItem
<1> HIDE DEF h
<1>4. \A k \in 0..L : h[k] = Row(h, k)
  BY <1>2
<1>5. ScanTable(c, items, h)
  BY <1>3, <1>4 DEF Row, ScanTable
<1> QED
  BY <1>5

ItemKinds == {"cell", "field", "optional"}

(* Items cut at those places. *)
CutAt(c, items, at) ==
    /\ at[0] = 2
    /\ \A k \in 0..Len(items) : at[k] \in Nat /\ at[k] >= 2 /\ at[k] <= Len(c) + 1
    /\ \A k \in 1..Len(items) : /\ at[k - 1] < at[k]
                                /\ at[k] = at[k - 1] + WidthOf(items[k], c, at[k - 1])

PieceOf(c, item, from, to) ==
    IF item = "cell" THEN SubSeq(c, from, to - 1) ELSE SubSeq(c, from + 1, to - 1)

Cuts(c, items, at, scan) ==
    /\ CutAt(c, items, at)
    /\ scan.at = at[Len(items)] /\ Len(scan.pieces) = Len(items)
    /\ \A k \in 1..Len(items) :
         scan.pieces[k] = PieceOf(c, items[k], at[k - 1], at[k])

LEMMA WidthPositive ==
    ASSUME NEW c \in Seq(Nat), NEW item \in ItemKinds, NEW at \in Nat \ {0}
    PROVE  WidthOf(item, c, at) \in Nat \ {0}
<1>1. at <= Len(c) => c[at] \in Nat
  OBVIOUS
<1> QED
  BY <1>1 DEF WidthOf, ItemKinds

(* What taking an item of some width makes of what was scanned before. *)
Takes(c, item, before, after, width) ==
    /\ after.ok <=> before.ok /\ before.at + width <= Len(c) + 1
    /\ after.ok => /\ after.at = before.at + width
                   /\ after.pieces = Append(before.pieces,
                          PieceOf(c, item, before.at, before.at + width))

LEMMA ItemTaken ==
    ASSUME NEW c \in Seq(Nat), NEW item \in ItemKinds, NEW before,
           before.at \in Nat, before.at >= 2, before.at <= Len(c) + 1
    PROVE  Takes(c, item, before, ScanItem(c, item, before), WidthOf(item, c, before.at))
<1> DEFINE a == before.at
           width == WidthOf(item, c, a)
           piece == Take(c, a, width)
<1>1. width \in Nat \ {0} /\ a \in Nat \ {0}
  BY WidthPositive
<1>2. piece # << >> <=> a + width <= Len(c) + 1
  BY <1>1 DEF Take
<1>3. ASSUME a + width <= Len(c) + 1
      PROVE  (IF item = "cell" THEN piece[1] ELSE Tail(piece[1]))
                 = PieceOf(c, item, a, a + width)
  <2> DEFINE s == SubSeq(c, a, (a + width) - 1)
  <2>1. piece[1] = s
    <3>1. a + width - 1 <= Len(c) /\ a + width - 1 = (a + width) - 1
      BY <1>1, <1>3
    <3>2. piece = <<s>>
      <4> HIDE DEF width
      <4> QED
        BY <3>1 DEF Take
    <3> HIDE DEF piece, s
    <3> QED
      BY <3>2
  <2>2. Tail(s) = SubSeq(c, a + 1, (a + width) - 1)
    <3>1. a \in 1..Len(c) /\ (a + width) - 1 \in a..Len(c)
      BY <1>1, <1>3
    <3> QED
      BY <3>1, HeadTailOfSubSeq
  <2> HIDE DEF s, piece, width
  <2>3. CASE item = "cell"
    BY <2>1, <2>3 DEF PieceOf, s
  <2>4. CASE item # "cell"
    BY <2>1, <2>2, <2>4 DEF PieceOf
  <2> QED
    BY <2>3, <2>4
<1> HIDE DEF width, piece
<1>4. ScanItem(c, item, before) =
        IF ~before.ok \/ piece = << >>
        THEN [ok |-> FALSE, at |-> a, pieces |-> << >>]
        ELSE [ok |-> TRUE, at |-> a + width,
              pieces |-> Append(before.pieces,
                             IF item = "cell" THEN piece[1] ELSE Tail(piece[1]))]
  BY DEF ScanItem, width, piece
<1>5. CASE before.ok /\ a + width <= Len(c) + 1
  <2>1. ScanItem(c, item, before) =
          [ok |-> TRUE, at |-> a + width,
           pieces |-> Append(before.pieces, PieceOf(c, item, a, a + width))]
    BY <1>2, <1>3, <1>4, <1>5
  <2> QED
    BY <1>5, <2>1 DEF width, Takes
<1>6. CASE ~(before.ok /\ a + width <= Len(c) + 1)
  <2>1. ScanItem(c, item, before) = [ok |-> FALSE, at |-> a, pieces |-> << >>]
    BY <1>2, <1>4, <1>6
  <2> QED
    BY <1>6, <2>1 DEF width, Takes
<1> QED
  BY <1>5, <1>6

LEMMA PieceType ==
    ASSUME NEW c \in Seq(Nat), NEW item, NEW from \in Nat \ {0}, NEW to \in Nat,
           from < to, to <= Len(c) + 1
    PROVE  /\ PieceOf(c, item, from, to) \in Seq(Nat)
           /\ Len(PieceOf(c, item, from, to)) =
                IF item = "cell" THEN to - from ELSE to - (from + 1)
<1>1. from + 1 \in Nat \ {0} /\ to - 1 \in Nat /\ (to - 1) + 1 = to /\ to - 1 <= Len(c)
  OBVIOUS
<1>2. /\ SubSeq(c, from, to - 1) \in Seq(Nat)
      /\ Len(SubSeq(c, from, to - 1)) = ((to - 1) + 1) - from
  BY <1>1, PieceIs
<1>3. /\ SubSeq(c, from + 1, to - 1) \in Seq(Nat)
      /\ Len(SubSeq(c, from + 1, to - 1)) = ((to - 1) + 1) - (from + 1)
  <2>1. from + 1 <= (to - 1) + 1
    BY <1>1
  <2> QED
    BY <1>1, <2>1, PieceIs
<1> QED
  BY <1>1, <1>2, <1>3 DEF PieceOf

(* A scan that succeeds cuts the cells, and cells that can be cut so are    *)
(* scanned.                                                                 *)
LEMMA ScanCuts ==
    ASSUME NEW c \in Seq(Nat), c # << >>, NEW items \in Seq(ItemKinds)
    PROVE  /\ Scan(c, items).ok => \E at : Cuts(c, items, at, Scan(c, items))
           /\ \A at : CutAt(c, items, at) =>
                /\ Scan(c, items).ok /\ Cuts(c, items, at, Scan(c, items))
<1> DEFINE L == Len(items)
<1>1. L \in Nat /\ (\A k \in 1..L : items[k] \in ItemKinds) /\ Len(c) \in Nat \ {0}
  OBVIOUS
<1>0. PICK h : ScanTable(c, items, h)
  BY <1>1, ScanRows
<1>2. /\ Scan(c, items) = h[L] /\ h[0] = ScanFirst
      /\ \A k \in 1..L : h[k] = ScanItem(c, items[k], h[k - 1])
  BY <1>0 DEF ScanTable
<1> DEFINE Place(k) == h[k].at \in Nat /\ h[k].at >= 2 /\ h[k].at <= Len(c) + 1
           Step(k) == /\ h[k - 1].at < h[k].at
                      /\ h[k].at = h[k - 1].at + WidthOf(items[k], c, h[k - 1].at)
           Got(p, k) == /\ p \in Seq(Seq(Nat)) /\ Len(p) = k
                        /\ \A j \in 1..k :
                             p[j] = PieceOf(c, items[j], h[j - 1].at, h[j].at)
           P(k) == /\ \A j \in 0..k : Place(j)
                   /\ \A j \in 1..k : Step(j)
                   /\ Got(h[k].pieces, k)
           S == {k \in 0..L : h[k].ok => P(k)}
<1>3. \A k \in 0..L : k \in S
  <2>1. 0 \in S
    <3>1. Place(0) /\ h[0].pieces = << >>
      BY <1>1, <1>2 DEF ScanFirst
    <3>2. Got(<< >>, 0)
      OBVIOUS
    <3>3. Got(h[0].pieces, 0)
      BY <3>1, <3>2
    <3> HIDE DEF Got, Place, Step
    <3>4. P(0)
      BY <3>1, <3>3
    <3> HIDE DEF P
    <3> QED
      BY <1>1, <3>4
  <2>2. ASSUME NEW k \in 1..L, k - 1 \in S PROVE k \in S
    <3> SUFFICES ASSUME h[k].ok PROVE P(k)
      OBVIOUS
    <3>1. h[k] = ScanItem(c, items[k], h[k - 1]) /\ items[k] \in ItemKinds
      BY <1>1, <1>2
    <3>2. h[k - 1].ok => Place(k - 1)
      BY <2>2
    <3>3. h[k - 1].ok
      BY <3>1 DEF ScanItem
    <3> DEFINE b == h[k - 1]
               w == WidthOf(items[k], c, b.at)
               x == PieceOf(c, items[k], b.at, h[k].at)
    <3>0. b.at \in Nat \ {0} /\ b.at \in Nat /\ b.at >= 2 /\ b.at <= Len(c) + 1
      BY <3>2, <3>3
    <3>4. w \in Nat \ {0}
      BY <3>0, <3>1, WidthPositive
    <3>5. /\ b.at + w <= Len(c) + 1 /\ h[k].at = b.at + w
          /\ h[k].pieces = Append(b.pieces, x)
      <4> HIDE DEF b
      <4>1. h[k] = ScanItem(c, items[k], b)
        BY <3>1 DEF b
      <4> HIDE DEF Got, Place, Step, S, P
      <4>2. ScanItem(c, items[k], b).ok
        BY <4>1, Zenon
      <4>3. items[k] \in ItemKinds
        BY <3>1, Zenon
      <4>4. Takes(c, items[k], b, ScanItem(c, items[k], b), w)
        BY <3>0, <4>3, ItemTaken, Zenon
      <4> HIDE DEF w
      <4>5. Takes(c, items[k], b, h[k], w) /\ h[k].ok
        BY <4>1, <4>2, <4>4, Zenon
      <4>6. /\ b.at + w <= Len(c) + 1 /\ h[k].at = b.at + w
            /\ h[k].pieces = Append(b.pieces, PieceOf(c, items[k], b.at, b.at + w))
        BY <4>5, Zenon DEF Takes
      <4> QED
        BY <4>6, Zenon
    <3>6. P(k - 1)
      BY <2>2, <3>3
    <3> HIDE DEF w
    <3>7. Place(k) /\ h[k - 1].at < h[k].at
      <4>1. h[k].at = b.at + w /\ b.at + w <= Len(c) + 1 /\ Len(c) \in Nat
        BY <1>1, <3>5
      <4> DEFINE p == b.at
                 q == h[k].at
                 z == Len(c)
      <4>2. /\ p \in Nat /\ p >= 2 /\ w \in Nat \ {0} /\ z \in Nat
            /\ q = p + w /\ p + w <= z + 1
        BY <3>0, <3>4, <4>1, Zenon
      <4> HIDE DEF p, q, z, x, Got, Step, S, P
      <4>3. q \in Nat /\ q >= 2 /\ q <= z + 1 /\ p < q
        BY <4>2
      <4> QED
        BY <4>3, Zenon DEF p, q, z
    <3>8. x \in Seq(Nat)
      <4>1. h[k - 1].at \in Nat \ {0} /\ h[k].at \in Nat /\ h[k].at <= Len(c) + 1
        BY <3>2, <3>3, <3>7
      <4> QED
        BY <3>7, <4>1, PieceType
    <3>9. Step(k)
      BY <3>5, <3>7 DEF w
    <3>10. Got(h[k].pieces, k)
      <4> DEFINE p == h[k - 1].pieces
      <4>1. Got(p, k - 1)
        BY <3>6
      <4>2. p \in Seq(Seq(Nat)) /\ Len(p) = k - 1
        BY <4>1
      <4>3. /\ Append(p, x) \in Seq(Seq(Nat)) /\ Len(Append(p, x)) = k
            /\ Append(p, x)[k] = x
            /\ \A j \in 1..k - 1 : Append(p, x)[j] = p[j]
        <5> HIDE DEF x, p, S
        <5>1. /\ Append(p, x) \in Seq(Seq(Nat)) /\ Len(Append(p, x)) = Len(p) + 1
              /\ \A i \in 1..Len(p) : Append(p, x)[i] = p[i]
              /\ Append(p, x)[Len(p) + 1] = x
          BY <3>8, <4>2, AppendProperties
        <5> QED
          BY <4>2, <5>1
      <4>4. ASSUME NEW j \in 1..k
            PROVE  Append(p, x)[j] = PieceOf(c, items[j], h[j - 1].at, h[j].at)
        <5>1. CASE j = k
          BY <4>3, <5>1
        <5>2. CASE j # k
          <6>1. j \in 1..k - 1
            BY <5>2
          <6> QED
            BY <4>1, <4>3, <6>1
        <5> QED
          BY <5>1, <5>2
      <4> HIDE DEF x
      <4>5. h[k].pieces = Append(p, x)
        BY <3>5
      <4> HIDE DEF p
      <4> QED
        BY <4>3, <4>4, <4>5
    <3> HIDE DEF Got, Place, Step
    <3>11. \A j \in 0..k : Place(j)
      <4>1. \A j \in 0..k - 1 : Place(j)
        BY <3>6
      <4> QED
        BY <3>7, <4>1
    <3>12. \A j \in 1..k : Step(j)
      <4>1. \A j \in 1..k - 1 : Step(j)
        BY <3>6
      <4> QED
        BY <3>9, <4>1
    <3> QED
      BY <3>10, <3>11, <3>12
  <2> HIDE DEF S
  <2> QED
    BY <1>1, <2>1, <2>2, StepByStep
<1>4. h[L].ok => P(L)
  BY <1>1, <1>3
<1> DEFINE here == [k \in 0..L |-> h[k].at]
<1>5. ASSUME NEW at, \A k \in 0..L : at[k] = h[k].at, h[L].ok
      PROVE  Cuts(c, items, at, Scan(c, items))
  <2>1. P(L)
    BY <1>4, <1>5
  <2>2. at[0] = 2
    BY <1>1, <1>2, <1>5 DEF ScanFirst
  <2>3. \A k \in 0..L : at[k] \in Nat /\ at[k] >= 2 /\ at[k] <= Len(c) + 1
    BY <1>5, <2>1
  <2>4. ASSUME NEW k \in 1..L
        PROVE  /\ at[k - 1] < at[k] /\ at[k] = at[k - 1] + WidthOf(items[k], c, at[k - 1])
               /\ Scan(c, items).pieces[k] = PieceOf(c, items[k], at[k - 1], at[k])
    <3>1. at[k - 1] = h[k - 1].at /\ at[k] = h[k].at
      BY <1>5
    <3>2. Step(k) /\ h[L].pieces[k] = PieceOf(c, items[k], h[k - 1].at, h[k].at)
      BY <2>1
    <3> QED
      BY <1>2, <3>1, <3>2
  <2>5. Scan(c, items).at = at[L] /\ Len(Scan(c, items).pieces) = L
    BY <1>1, <1>2, <1>5, <2>1
  <2> QED
    BY <2>2, <2>3, <2>4, <2>5 DEF Cuts, CutAt
<1>6. ASSUME NEW at, CutAt(c, items, at)
      PROVE  h[L].ok /\ \A k \in 0..L : at[k] = h[k].at
  <2> DEFINE T == {k \in 0..L : h[k].ok /\ at[k] = h[k].at}
  <2>1. 0 \in T
    BY <1>1, <1>2, <1>6 DEF ScanFirst, CutAt
  <2>2. ASSUME NEW k \in 1..L, k - 1 \in T PROVE k \in T
    <3>1. h[k] = ScanItem(c, items[k], h[k - 1]) /\ items[k] \in ItemKinds
      BY <1>1, <1>2
    <3>2. h[k - 1].ok /\ at[k - 1] = h[k - 1].at
      BY <2>2
    <3>3. /\ k \in 0..L /\ k - 1 \in 0..L
          /\ at[k - 1] \in Nat /\ at[k - 1] >= 2 /\ at[k - 1] <= Len(c) + 1
          /\ at[k] <= Len(c) + 1
          /\ at[k] = at[k - 1] + WidthOf(items[k], c, at[k - 1])
      BY <1>1, <1>6 DEF CutAt
    <3> DEFINE b == h[k - 1]
               w == WidthOf(items[k], c, b.at)
    <3>4. h[k].ok /\ h[k].at = h[k - 1].at + WidthOf(items[k], c, h[k - 1].at)
      <4>1. /\ b.ok /\ b.at \in Nat /\ b.at >= 2 /\ b.at <= Len(c) + 1
            /\ b.at + w <= Len(c) + 1
        BY <3>2, <3>3
      <4> HIDE DEF b, T
      <4>2. LET after == ScanItem(c, items[k], b) IN after.ok /\ after.at = b.at + w
        <5>1. Takes(c, items[k], b, ScanItem(c, items[k], b), w)
          BY <3>1, <4>1, ItemTaken, Zenon
        <5> HIDE DEF w
        <5> QED
          BY <4>1, <5>1 DEF Takes
      <4> QED
        BY <3>1, <4>2, Zenon DEF b
    <3> HIDE DEF b, w
    <3> QED
      BY <3>2, <3>3, <3>4
  <2> HIDE DEF T
  <2>3. \A k \in 0..L : k \in T
    BY <1>1, <2>1, <2>2, StepByStep
  <2> QED
    BY <1>1, <2>3 DEF T
<1>7. ASSUME h[L].ok PROVE Cuts(c, items, here, Scan(c, items))
  <2>1. \A k \in 0..L : here[k] = h[k].at
    OBVIOUS
  <2> HIDE DEF here
  <2> QED
    BY <1>5, <1>7, <2>1
<1> HIDE DEF P, S, here
<1>8. Scan(c, items).ok <=> h[L].ok
  BY <1>2
<1> QED
  BY <1>2, <1>5, <1>6, <1>7, <1>8

(* What was cut is put together again, item by item. *)
ItemAt(c, item, a, b) ==
    LET piece  == PieceOf(c, item, a, b)
        before == SubSeq(c, 1, a - 1)
        upto   == SubSeq(c, 1, b - 1)
    IN  /\ a \in 1..Len(c) /\ b \in Nat /\ b <= Len(c) + 1 /\ piece \in Seq(Nat)
        /\ item = "field" => before \o Field(piece) = upto
        /\ item = "cell" => /\ b = a + 1 /\ piece = <<c[a]>>
                            /\ before \o <<c[a]>> = upto
        /\ item = "optional" => /\ b = a + IF c[a] = 1 THEN 2 ELSE 1
                                /\ before \o <<c[a]>> \o piece = upto
                                /\ Len(piece) = b - (a + 1)

LEMMA JoinItem ==
    ASSUME NEW c \in Seq(Nat), NEW items, Len(items) \in Nat, NEW at,
           CutAt(c, items, at), NEW k \in 1..Len(items)
    PROVE  ItemAt(c, items[k], at[k - 1], at[k])
<1> DEFINE a == at[k - 1]
           b == at[k]
<1>1. /\ a \in Nat /\ a >= 2 /\ b \in Nat /\ b <= Len(c) + 1 /\ a < b
      /\ b = a + WidthOf(items[k], c, a)
  <2>1. k \in 0..Len(items) /\ k - 1 \in 0..Len(items)
    OBVIOUS
  <2> QED
    BY <2>1 DEF CutAt
<1> HIDE DEF a, b
<1>2. a \in 1..Len(c) /\ a \in Nat \ {0} /\ a - 1 \in Nat /\ b - 1 \in Nat
      /\ (a - 1) + 1 = a /\ b - 1 <= Len(c) /\ c[a] \in Nat /\ 1 \in Nat \ {0}
      /\ 1 <= (a - 1) + 1 /\ a - 1 <= b - 1 /\ a <= b - 1 /\ a - 1 <= a /\ a <= Len(c)
  <2> DEFINE z == Len(c)
  <2>1. z \in Nat
    OBVIOUS
  <2>2. a \in Nat /\ a >= 2 /\ b \in Nat /\ b <= z + 1 /\ a < b
    BY <1>1, Zenon
  <2> HIDE DEF z
  <2>3. /\ a \in 1..z /\ a \in Nat \ {0} /\ a - 1 \in Nat /\ b - 1 \in Nat
        /\ (a - 1) + 1 = a /\ b - 1 <= z /\ 1 \in Nat \ {0}
        /\ 1 <= (a - 1) + 1 /\ a - 1 <= b - 1 /\ a <= b - 1 /\ a - 1 <= a /\ a <= z
    BY <2>1, <2>2
  <2>4. \A i \in 1..Len(c) : c[i] \in Nat
    OBVIOUS
  <2>5. c[a] \in Nat
    BY <2>3, <2>4, Zenon DEF z
  <2> QED
    BY <2>3, <2>5, Zenon DEF z
<1>3. PieceOf(c, items[k], a, b) \in Seq(Nat)
  BY <1>1, <1>2, PieceType
<1>4. SubSeq(c, 1, a - 1) \o SubSeq(c, a, b - 1) = SubSeq(c, 1, b - 1)
  <2>1. SubSeq(c, 1, a - 1) \o SubSeq(c, (a - 1) + 1, b - 1) = SubSeq(c, 1, b - 1)
    BY <1>2, JoinPieces
  <2> QED
    BY <1>2, <2>1
<1>5. SubSeq(c, a, a) = <<c[a]>>
  BY <1>2, OneCell
<1>6. ASSUME items[k] = "field"
      PROVE  SubSeq(c, 1, a - 1) \o Field(PieceOf(c, "field", a, b)) = SubSeq(c, 1, b - 1)
  <2>1. b - 1 = a + c[a]
    <3>1. ~(a > Len(c))
      BY <1>2
    <3>2. WidthOf("field", c, a) = 1 + c[a]
      BY <3>1 DEF WidthOf
    <3>3. a \in Nat /\ c[a] \in Nat /\ b = a + (1 + c[a])
      BY <1>1, <1>2, <1>6, <3>2, Zenon
    <3> DEFINE y == c[a]
    <3> HIDE DEF y
    <3>4. a \in Nat /\ y \in Nat /\ b = a + (1 + y)
      BY <3>3 DEF y
    <3>5. b - 1 = a + y
      BY <3>4
    <3> QED
      BY <3>5 DEF y
  <2>2. PieceOf(c, "field", a, b) = SubSeq(c, a + 1, a + c[a])
    BY <2>1 DEF PieceOf
  <2>3. Field(SubSeq(c, a + 1, a + c[a])) = SubSeq(c, a, a + c[a])
    BY <1>2, <2>1, FieldPiece
  <2> QED
    BY <1>4, <2>1, <2>2, <2>3
<1>7. ASSUME items[k] = "cell"
      PROVE  /\ b = a + 1
             /\ PieceOf(c, "cell", a, b) = <<c[a]>>
             /\ SubSeq(c, 1, a - 1) \o <<c[a]>> = SubSeq(c, 1, b - 1)
  <2>1. b = a + 1 /\ b - 1 = a
    BY <1>1, <1>2, <1>7 DEF WidthOf
  <2>2. PieceOf(c, "cell", a, b) = <<c[a]>>
    BY <1>5, <2>1 DEF PieceOf
  <2> QED
    BY <1>4, <1>5, <2>1, <2>2
<1>8. ASSUME items[k] = "optional"
      PROVE  /\ b = a + IF c[a] = 1 THEN 2 ELSE 1
             /\ SubSeq(c, 1, a - 1) \o <<c[a]>> \o PieceOf(c, "optional", a, b)
                    = SubSeq(c, 1, b - 1)
             /\ Len(PieceOf(c, "optional", a, b)) = b - (a + 1)
  <2>1. b = a + IF c[a] = 1 THEN 2 ELSE 1
    BY <1>1, <1>2, <1>8 DEF WidthOf
  <2>2. PieceOf(c, "optional", a, b) = SubSeq(c, a + 1, b - 1)
    BY DEF PieceOf
  <2>3. SubSeq(c, 1, a - 1) \o <<c[a]>> = SubSeq(c, 1, a)
    <3>1. SubSeq(c, 1, a - 1) \o SubSeq(c, (a - 1) + 1, a) = SubSeq(c, 1, a)
      BY <1>2, JoinPieces
    <3> QED
      BY <1>2, <1>5, <3>1
  <2>4. SubSeq(c, 1, a) \o SubSeq(c, a + 1, b - 1) = SubSeq(c, 1, b - 1)
    <3>1. a \in Nat /\ 1 <= a + 1 /\ a <= b - 1
      BY <1>2
    <3> QED
      BY <1>2, <3>1, JoinPieces
  <2>5. Len(PieceOf(c, "optional", a, b)) = b - (a + 1)
    <3>1. /\ a \in Nat \ {0} /\ b \in Nat /\ a < b /\ b <= Len(c) + 1
      BY <1>1, <1>2
    <3> DEFINE item == "optional"
    <3>2. item # "cell"
      OBVIOUS
    <3> HIDE DEF item
    <3>3. Len(PieceOf(c, item, a, b)) = IF item = "cell" THEN b - a ELSE b - (a + 1)
      BY <3>1, PieceType
    <3> QED
      BY <3>2, <3>3 DEF item
  <2> QED
    BY <2>1, <2>2, <2>3, <2>4, <2>5
<1> QED
  BY <1>1, <1>2, <1>3, <1>6, <1>7, <1>8 DEF a, b, ItemAt

LEMMA FirstCell == ASSUME NEW c \in Seq(Nat), c # << >> PROVE SubSeq(c, 1, 1) = <<c[1]>>
<1>1. 1 \in 1..Len(c)
  OBVIOUS
<1> QED
  BY <1>1, OneCell

LEMMA OneIs ==
    ASSUME NEW piece \in Seq(Nat), One(piece) # 0
    PROVE  piece = <<One(piece)>>
<1>1. Len(piece) = 1 /\ One(piece) = piece[1] /\ piece[1] \in Nat
  BY DEF One
<1> QED
  BY <1>1

(* A snapshot that is read back is the one these cells encode. *)
LEMMA SourceBack ==
    ASSUME NEW c \in Seq(Nat), DecodeSource(c) # Refused
    PROVE  /\ EncodeSource(DecodeSource(c)[1]) = c
           /\ NewSource(DecodeSource(c)[1])
<1> DEFINE items == <<"field", "field", "field", "field", "field">>
           scan == Scan(c, items)
           p == scan.pieces
           r == [source_id |-> One(p[1]), scope_path |-> p[2],
                 commit_oid |-> One(p[4]), root_tree_oid |-> One(p[5])]
<1>1. /\ Opens(c, SourceDomain) /\ Finished(scan, c) /\ p[3] = <<Sha1>> /\ NewSource(r)
      /\ DecodeSource(c) = <<r>>
  BY DEF DecodeSource, Refused
<1>2. items \in Seq(ItemKinds) /\ Len(items) = 5 /\ \A k \in 1..5 : items[k] = "field"
  BY DEF ItemKinds
<1>3. c # << >> /\ c[1] = SourceDomain /\ scan.ok /\ scan.at = Len(c) + 1
  BY <1>1 DEF Opens, Finished
<1> HIDE DEF scan, r, items
<1>4. PICK at : Cuts(c, items, at, scan)
  BY <1>2, <1>3, ScanCuts DEF scan
<1>5. /\ CutAt(c, items, at) /\ at[5] = Len(c) + 1 /\ at[0] = 2
      /\ \A k \in 1..5 : p[k] = PieceOf(c, "field", at[k - 1], at[k])
  BY <1>2, <1>3, <1>4 DEF Cuts, CutAt
<1>6. ASSUME NEW k \in 1..5
      PROVE  /\ p[k] \in Seq(Nat)
             /\ SubSeq(c, 1, at[k - 1] - 1) \o Field(p[k]) = SubSeq(c, 1, at[k] - 1)
  <2>1. ItemAt(c, items[k], at[k - 1], at[k])
    <3>1. Len(items) \in Nat /\ k \in 1..Len(items) /\ CutAt(c, items, at)
      BY <1>2, <1>5
    <3> QED
      BY <3>1, JoinItem
  <2>2. items[k] = "field" /\ p[k] = PieceOf(c, "field", at[k - 1], at[k])
    BY <1>2, <1>5
  <2> HIDE DEF p
  <2> QED
    BY <2>1, <2>2 DEF ItemAt
<1>7. /\ SubSeq(c, 1, at[0] - 1) = <<SourceDomain>>
      /\ SubSeq(c, 1, at[5] - 1) = c
  <2>1. SubSeq(c, 1, 1) = <<SourceDomain>>
    BY <1>3, FirstCell
  <2>2. at[0] - 1 = 1 /\ at[5] - 1 = Len(c)
    BY <1>5
  <2> QED
    BY <2>1, <2>2, SubSeqFull
<1>8. <<SourceDomain>> \o Field(p[1]) \o Field(p[2]) \o Field(p[3]) \o Field(p[4])
         \o Field(p[5]) = c
  <2>1. /\ SubSeq(c, 1, at[0] - 1) \o Field(p[1]) = SubSeq(c, 1, at[1] - 1)
        /\ SubSeq(c, 1, at[1] - 1) \o Field(p[2]) = SubSeq(c, 1, at[2] - 1)
        /\ SubSeq(c, 1, at[2] - 1) \o Field(p[3]) = SubSeq(c, 1, at[3] - 1)
        /\ SubSeq(c, 1, at[3] - 1) \o Field(p[4]) = SubSeq(c, 1, at[4] - 1)
        /\ SubSeq(c, 1, at[4] - 1) \o Field(p[5]) = SubSeq(c, 1, at[5] - 1)
    <3> DEFINE J(k) == SubSeq(c, 1, at[k - 1] - 1) \o Field(p[k]) = SubSeq(c, 1, at[k] - 1)
    <3> HIDE DEF p
    <3>1. J(1) /\ J(2) /\ J(3) /\ J(4) /\ J(5)
      <4> HIDE DEF J
      <4>1. \A k \in 1..5 : J(k)
        BY <1>6 DEF J
      <4> QED
        BY <4>1
    <3>2. 1 - 1 = 0 /\ 2 - 1 = 1 /\ 3 - 1 = 2 /\ 4 - 1 = 3 /\ 5 - 1 = 4
      OBVIOUS
    <3> QED
      BY <3>1, <3>2
  <2> HIDE DEF p
  <2> QED
    BY <1>7, <2>1
<1>9. p[1] = <<r.source_id>> /\ p[4] = <<r.commit_oid>> /\ p[5] = <<r.root_tree_oid>>
  <2>1. r.source_id # 0 /\ r.commit_oid # 0 /\ r.root_tree_oid # 0
    BY <1>1, CellAssumption DEF NewSource
  <2>2. r.source_id = One(p[1]) /\ r.commit_oid = One(p[4]) /\ r.root_tree_oid = One(p[5])
    BY DEF r
  <2>3. p[1] \in Seq(Nat) /\ p[4] \in Seq(Nat) /\ p[5] \in Seq(Nat)
    BY <1>6
  <2> HIDE DEF p
  <2> QED
    BY <2>1, <2>2, <2>3, OneIs
<1>10. r.scope_path = p[2]
  BY DEF r
<1>11. EncodeSource(r) = c
  <2> HIDE DEF p
  <2> QED
    BY <1>1, <1>8, <1>9, <1>10 DEF EncodeSource
<1>12. DecodeSource(c)[1] = r
  BY <1>1
<1> QED
  BY <1>1, <1>11, <1>12

(* All items of a scan that took every cell. *)
ItemOf(c, items, p, at, j, k) ==
    ItemAt(c, items[k], at[j], at[k]) /\ p[k] = PieceOf(c, items[k], at[j], at[k])

Parted(c, items, p, at) ==
    /\ at[0] = 2 /\ at[Len(items)] = Len(c) + 1
    /\ SubSeq(c, 1, at[0] - 1) = <<c[1]>> /\ SubSeq(c, 1, at[Len(items)] - 1) = c
    /\ \A k \in 1..Len(items) : ItemOf(c, items, p, at, k - 1, k)

LEMMA FinishedParts ==
    ASSUME NEW c \in Seq(Nat), c # << >>, NEW items \in Seq(ItemKinds),
           Finished(Scan(c, items), c)
    PROVE  \E at : Parted(c, items, Scan(c, items).pieces, at)
<1> DEFINE scan == Scan(c, items)
<1>1. scan.ok /\ scan.at = Len(c) + 1
  BY DEF Finished
<1>2. PICK at : Cuts(c, items, at, scan)
  BY <1>1, ScanCuts
<1>3. Len(items) \in Nat /\ CutAt(c, items, at)
  BY <1>2 DEF Cuts
<1> HIDE DEF scan
<1>4. at[0] = 2 /\ at[Len(items)] = Len(c) + 1
  BY <1>1, <1>2 DEF Cuts, CutAt
<1>5. SubSeq(c, 1, at[0] - 1) = <<c[1]>>
  BY <1>4, FirstCell
<1>6. SubSeq(c, 1, at[Len(items)] - 1) = c
  <2>1. at[Len(items)] - 1 = Len(c)
    BY <1>4
  <2> QED
    BY <2>1, SubSeqFull
<1>7. ASSUME NEW k \in 1..Len(items)
      PROVE  /\ ItemAt(c, items[k], at[k - 1], at[k])
             /\ scan.pieces[k] = PieceOf(c, items[k], at[k - 1], at[k])
  BY <1>2, <1>3, JoinItem DEF Cuts
<1>8. Parted(c, items, scan.pieces, at)
  BY <1>4, <1>5, <1>6, <1>7 DEF Parted, ItemOf
<1> QED
  BY <1>8 DEF scan

(* A binding that is read back is the one these cells encode. *)
LEMMA BindingBack ==
    ASSUME NEW c \in Seq(Nat), DecodeBinding(c) # Refused
    PROVE  /\ EncodeBinding(DecodeBinding(c)[1]) = c
           /\ NewBinding(DecodeBinding(c)[1])
<1> DEFINE items == <<"field", "field", "field", "cell">>
           p == Scan(c, items).pieces
           source == DecodeSource(p[2])
           r == [mount_path |-> p[1], source |-> source[1], source_subpath |-> p[3],
                 policy |-> IF p[4] = <<1>> THEN "mutable" ELSE "release"]
<1>1. /\ Opens(c, BindingDomain) /\ Finished(Scan(c, items), c) /\ source # Refused
      /\ p[4][1] \in {1, 2} /\ NewBinding(r) /\ DecodeBinding(c) = <<r>>
  BY DEF DecodeBinding, Refused
<1>2. /\ items \in Seq(ItemKinds) /\ Len(items) = 4 /\ items[1] = "field"
      /\ items[2] = "field" /\ items[3] = "field" /\ items[4] = "cell"
  BY DEF ItemKinds
<1>3. c # << >> /\ c[1] = BindingDomain
  BY <1>1 DEF Opens
<1> HIDE DEF r, items
<1>4. PICK at : Parted(c, items, p, at)
  BY <1>1, <1>2, <1>3, FinishedParts
<1> HIDE DEF p
<1>5. /\ ItemOf(c, items, p, at, 0, 1) /\ ItemOf(c, items, p, at, 1, 2)
      /\ ItemOf(c, items, p, at, 2, 3) /\ ItemOf(c, items, p, at, 3, 4)
  <2>1. 1 - 1 = 0 /\ 2 - 1 = 1 /\ 3 - 1 = 2 /\ 4 - 1 = 3
    OBVIOUS
  <2>2. \A k \in 1..4 : ItemOf(c, items, p, at, k - 1, k)
    BY <1>2, <1>4 DEF Parted
  <2> QED
    BY <2>1, <2>2
<1>6. /\ SubSeq(c, 1, at[0] - 1) \o Field(p[1]) = SubSeq(c, 1, at[1] - 1)
      /\ SubSeq(c, 1, at[1] - 1) \o Field(p[2]) = SubSeq(c, 1, at[2] - 1)
      /\ SubSeq(c, 1, at[2] - 1) \o Field(p[3]) = SubSeq(c, 1, at[3] - 1)
      /\ p[2] \in Seq(Nat)
  BY <1>2, <1>5 DEF ItemAt, ItemOf
<1>7. SubSeq(c, 1, at[3] - 1) \o p[4] = SubSeq(c, 1, at[4] - 1) /\ p[4] = <<c[at[3]]>>
  BY <1>2, <1>5 DEF ItemAt, ItemOf
<1>8. SubSeq(c, 1, at[0] - 1) = <<BindingDomain>> /\ SubSeq(c, 1, at[4] - 1) = c
  BY <1>2, <1>3, <1>4 DEF Parted
<1>9. <<BindingDomain>> \o Field(p[1]) \o Field(p[2]) \o Field(p[3]) \o p[4] = c
  BY <1>6, <1>7, <1>8
<1>10. EncodeSource(source[1]) = p[2]
  BY <1>1, <1>6, SourceBack
<1>11. p[4] = <<IF r.policy = "mutable" THEN 1 ELSE 2>>
  <2>1. p[4] = <<p[4][1]>>
    BY <1>7
  <2> QED
    BY <1>1, <2>1 DEF r
<1>12. r.mount_path = p[1] /\ r.source = source[1] /\ r.source_subpath = p[3]
  BY DEF r
<1> HIDE DEF source
<1>13. EncodeBinding(r) = c
  BY <1>9, <1>10, <1>11, <1>12 DEF EncodeBinding
<1> QED
  BY <1>1, <1>13

LEMMA TwoCells ==
    ASSUME NEW V, NEW a \in V, NEW b \in V
    PROVE  <<a>> \o <<b>> = <<a, b>>
<1> DEFINE s == <<a>>
           t == <<b>>
           u == <<a, b>>
<1>1. /\ s \in Seq(V) /\ Len(s) = 1 /\ s[1] = a
      /\ t \in Seq(V) /\ Len(t) = 1 /\ t[1] = b
      /\ u \in Seq(V) /\ Len(u) = 2 /\ u[1] = a /\ u[2] = b
  OBVIOUS
<1> HIDE DEF s, t, u
<1>2. /\ s \o t \in Seq(V) /\ Len(s \o t) = 2
      /\ \A i \in 1..2 : (s \o t)[i] = IF i <= 1 THEN s[i] ELSE t[i - 1]
  BY <1>1, ConcatProperties
<1>3. \A i \in 1..2 : (s \o t)[i] = u[i]
  BY <1>1, <1>2
<1>4. s \o t = u
  BY <1>1, <1>2, <1>3, SeqEqual
<1> QED
  BY <1>4 DEF s, t, u

LEMMA FiveCells ==
    ASSUME NEW V, NEW a \in V, NEW b \in V, NEW c \in V, NEW d \in V, NEW e \in V
    PROVE  /\ <<a, b, c>> \o <<d, e>> = <<a, b, c, d, e>>
           /\ <<a, b, c, d>> \o <<e>> = <<a, b, c, d, e>>
<1> DEFINE s == <<a, b, c>>
           t == <<d, e>>
           v == <<a, b, c, d>>
           w == <<e>>
           u == <<a, b, c, d, e>>
<1>1. /\ s \in Seq(V) /\ Len(s) = 3 /\ s[1] = a /\ s[2] = b /\ s[3] = c
      /\ t \in Seq(V) /\ Len(t) = 2 /\ t[1] = d /\ t[2] = e
  OBVIOUS
<1>2. /\ v \in Seq(V) /\ Len(v) = 4 /\ v[1] = a /\ v[2] = b /\ v[3] = c /\ v[4] = d
      /\ w \in Seq(V) /\ Len(w) = 1 /\ w[1] = e
  OBVIOUS
<1>3. /\ u \in Seq(V) /\ Len(u) = 5 /\ u[1] = a /\ u[2] = b /\ u[3] = c
      /\ u[4] = d /\ u[5] = e
  OBVIOUS
<1> HIDE DEF s, t, u, v, w
<1>4. /\ s \o t \in Seq(V) /\ Len(s \o t) = 5
      /\ \A i \in 1..5 : (s \o t)[i] = IF i <= 3 THEN s[i] ELSE t[i - 3]
  <2>1. /\ s \o t \in Seq(V) /\ Len(s \o t) = Len(s) + Len(t)
        /\ \A i \in 1..Len(s) + Len(t) :
             (s \o t)[i] = IF i <= Len(s) THEN s[i] ELSE t[i - Len(s)]
    <3>1. s \in Seq(V) /\ t \in Seq(V)
      BY <1>1
    <3> QED
      BY <3>1, ConcatProperties
  <2>2. Len(s) = 3 /\ Len(s) + Len(t) = 5
    BY <1>1
  <2> QED
    BY <2>1, <2>2
<1>5. /\ v \o w \in Seq(V) /\ Len(v \o w) = 5
      /\ \A i \in 1..5 : (v \o w)[i] = IF i <= 4 THEN v[i] ELSE w[i - 4]
  <2>1. /\ v \o w \in Seq(V) /\ Len(v \o w) = Len(v) + Len(w)
        /\ \A i \in 1..Len(v) + Len(w) :
             (v \o w)[i] = IF i <= Len(v) THEN v[i] ELSE w[i - Len(v)]
    <3>1. v \in Seq(V) /\ w \in Seq(V)
      BY <1>2
    <3> QED
      BY <3>1, ConcatProperties
  <2>2. Len(v) = 4 /\ Len(v) + Len(w) = 5
    BY <1>2
  <2> QED
    BY <2>1, <2>2
<1>6. \A i \in 1..5 : (s \o t)[i] = u[i]
  BY <1>1, <1>3, <1>4
<1>7. \A i \in 1..5 : (v \o w)[i] = u[i]
  BY <1>2, <1>3, <1>5
<1>8. s \o t = u /\ v \o w = u
  BY <1>3, <1>4, <1>5, <1>6, <1>7, SeqEqual
<1> QED
  BY <1>8 DEF s, t, u, v, w

LEMMA CellsJoin ==
    /\ \A a, b : <<a>> \o <<b>> = <<a, b>>
    /\ \A a, b, c, d, e : /\ <<a, b, c>> \o <<d, e>> = <<a, b, c, d, e>>
                          /\ <<a, b, c, d>> \o <<e>> = <<a, b, c, d, e>>
<1>1. ASSUME NEW a, NEW b PROVE <<a>> \o <<b>> = <<a, b>>
  <2> DEFINE V == {a, b}
  <2>1. a \in V /\ b \in V
    OBVIOUS
  <2> HIDE DEF V
  <2> QED
    BY <2>1, TwoCells
<1>2. ASSUME NEW a, NEW b, NEW c, NEW d, NEW e
      PROVE  /\ <<a, b, c>> \o <<d, e>> = <<a, b, c, d, e>>
             /\ <<a, b, c, d>> \o <<e>> = <<a, b, c, d, e>>
  <2> DEFINE V == {a, b, c, d, e}
  <2>1. a \in V /\ b \in V /\ c \in V /\ d \in V /\ e \in V
    OBVIOUS
  <2> HIDE DEF V
  <2> QED
    BY <2>1, FiveCells
<1> QED
  BY <1>1, <1>2

(* Joining may be grouped either way; named, so that a prover takes the *)
(* law as it is and does not look inside the sequences.                 *)
Again(s, t, u) == (s \o t) \o u = s \o (t \o u)

LEMMA JoinAgain ==
    ASSUME NEW s \in Seq(Nat), NEW t \in Seq(Nat), NEW u \in Seq(Nat)
    PROVE  (s \o t) \o u = s \o (t \o u)
<1>1. \A S : \A a, b, c \in Seq(S) : Again(a, b, c)
  BY ConcatAssociative, Zenon DEF Again
<1>2. Again(s, t, u)
  BY <1>1, Zenon
<1> QED
  BY <1>2, Zenon DEF Again

(* A view that is read back is the one these cells encode. *)
LEMMA ViewBack ==
    ASSUME NEW c \in Seq(Nat), DecodeView(c) # Refused
    PROVE  /\ EncodeView(DecodeView(c)[1]) = c
           /\ NewView(DecodeView(c)[1])
<1> DEFINE items == <<"cell", "field", "field", "cell", "optional", "cell">>
           scan == Scan(c, items)
           p == scan.pieces
           native == DecodeSource(p[3])
           flag == c[scan.at - 2 - Len(p[5])]
           r == [instance_id |-> One(p[2]), native |-> native[1],
                 bindings_root |-> p[4][1], overrides_root |-> p[5]]
<1>1. /\ Opens(c, ViewDomain) /\ Finished(scan, c) /\ p[1] = <<1>>
      /\ native # Refused /\ flag \in {0, 1} /\ p[6] = <<1>> /\ NewView(r)
      /\ DecodeView(c) = <<r>>
  BY DEF DecodeView, Refused
<1>2. /\ items \in Seq(ItemKinds) /\ Len(items) = 6 /\ items[1] = "cell"
      /\ items[2] = "field" /\ items[3] = "field" /\ items[4] = "cell"
      /\ items[5] = "optional" /\ items[6] = "cell"
  BY DEF ItemKinds
<1>3. c # << >> /\ c[1] = ViewDomain
  BY <1>1 DEF Opens
<1> HIDE DEF r, items
<1>4. PICK at : Parted(c, items, p, at)
  BY <1>1, <1>2, <1>3, FinishedParts
<1>s. scan.at = Len(c) + 1
  BY <1>1 DEF Finished
<1> HIDE DEF p
<1>5. /\ ItemOf(c, items, p, at, 0, 1) /\ ItemOf(c, items, p, at, 1, 2)
      /\ ItemOf(c, items, p, at, 2, 3) /\ ItemOf(c, items, p, at, 3, 4)
      /\ ItemOf(c, items, p, at, 4, 5) /\ ItemOf(c, items, p, at, 5, 6)
  <2>1. 1 - 1 = 0 /\ 2 - 1 = 1 /\ 3 - 1 = 2 /\ 4 - 1 = 3 /\ 5 - 1 = 4 /\ 6 - 1 = 5
    OBVIOUS
  <2>2. \A k \in 1..6 : ItemOf(c, items, p, at, k - 1, k)
    BY <1>2, <1>4 DEF Parted
  <2> QED
    BY <2>1, <2>2
<1> DEFINE upto(k) == SubSeq(c, 1, at[k] - 1)
<1>6. /\ upto(0) \o p[1] = upto(1)
      /\ upto(1) \o Field(p[2]) = upto(2) /\ p[2] \in Seq(Nat)
      /\ upto(2) \o Field(p[3]) = upto(3) /\ p[3] \in Seq(Nat)
  BY <1>2, <1>5 DEF ItemAt, ItemOf
<1>n. /\ at[4] \in 1..Len(c) /\ at[5] \in 1..Len(c) /\ at[6] = at[5] + 1
      /\ at[3] \in 1..Len(c)
  BY <1>2, <1>5 DEF ItemAt, ItemOf
<1>7. /\ p[4] = <<c[at[3]]>>
      /\ upto(3) \o <<c[at[3]]>> = upto(4)
      /\ upto(4) \o <<c[at[4]]>> \o p[5] = upto(5) /\ p[5] \in Seq(Nat)
      /\ upto(5) \o p[6] = upto(6)
  BY <1>2, <1>5 DEF ItemAt, ItemOf
<1>8. /\ at[5] = at[4] + IF c[at[4]] = 1 THEN 2 ELSE 1
      /\ Len(p[5]) = at[5] - (at[4] + 1)
  BY <1>2, <1>5 DEF ItemAt, ItemOf
<1>9. upto(0) = <<ViewDomain>> /\ upto(6) = c
  BY <1>2, <1>3, <1>4 DEF Parted
<1>e. at[6] = Len(c) + 1
  BY <1>2, <1>4 DEF Parted
<1>10. flag = c[at[4]] /\ Len(p[5]) = c[at[4]]
  <2>1. scan.at - 2 - Len(p[5]) = at[4]
    <3> DEFINE l == Len(p[5])
               x == scan.at
    <3>1. l = at[5] - (at[4] + 1) /\ x = Len(c) + 1
      BY <1>s, <1>8
    <3> HIDE DEF l, x
    <3> DEFINE a4 == at[4]
               a5 == at[5]
    <3>2. a4 \in Int /\ a5 \in Int /\ x = a5 + 1 /\ l = a5 - (a4 + 1)
      BY <1>n, <1>e, <3>1
    <3> HIDE DEF a4, a5
    <3>3. x - 2 - l = a4
      BY <3>2
    <3> QED
      BY <3>3 DEF l, x, a4
  <2>2. c[at[4]] \in {0, 1}
    BY <1>1, <2>1
  <2> QED
    <3>1. at[5] - (at[4] + 1) = c[at[4]]
      <4> DEFINE a4 == at[4]
                 a5 == at[5]
                 y == c[at[4]]
      <4>1. a5 = a4 + IF y = 1 THEN 2 ELSE 1
        BY <1>8, Zenon
      <4>2. a4 \in Nat /\ a5 \in Nat /\ y \in {0, 1}
        BY <1>n, <2>2
      <4> HIDE DEF a4, a5, y
      <4>3. a5 - (a4 + 1) = y
        BY <4>1, <4>2
      <4> QED
        BY <4>3, Zenon DEF a4, a5, y
    <3> QED
      BY <1>8, <2>1, <3>1
<1>11. /\ r.instance_id = One(p[2]) /\ r.native = native[1]
       /\ r.bindings_root = p[4][1] /\ r.overrides_root = p[5]
  BY DEF r
<1> HIDE DEF upto
<1>12. <<ViewDomain, 1>> \o Field(p[2]) \o Field(p[3]) = upto(3)
  <2>1. <<ViewDomain>> \o <<1>> = <<ViewDomain, 1>>
    <3>1. ViewDomain \in Nat /\ 1 \in Nat
      BY DEF ViewDomain
    <3> QED
      BY <3>1, CellsJoin, Zenon
  <2> QED
    BY <1>1, <1>6, <1>9, <2>1
<1>13. upto(3) \o <<c[at[3]], c[at[4]]>> \o p[5] = upto(5)
  <2>1. upto(3) \in Seq(Nat) /\ <<c[at[3]]>> \in Seq(Nat) /\ <<c[at[4]]>> \in Seq(Nat)
    <3>1. c[at[3]] \in Nat /\ c[at[4]] \in Nat
      <4>1. \A k \in 1..Len(c) : c[k] \in Nat
        OBVIOUS
      <4> QED
        BY <1>n, <4>1, Zenon
    <3>2. 1 \in Nat \ {0} /\ at[3] - 1 \in Nat /\ 1 <= (at[3] - 1) + 1 /\ at[3] - 1 <= Len(c)
      <4> DEFINE a3 == at[3]
                 z == Len(c)
      <4>1. a3 \in 1..z /\ z \in Nat
        BY <1>n
      <4> HIDE DEF a3, z
      <4>2. 1 \in Nat \ {0} /\ a3 - 1 \in Nat /\ 1 <= (a3 - 1) + 1 /\ a3 - 1 <= z
        BY <4>1
      <4> QED
        BY <4>2, Zenon DEF a3, z
    <3>3. upto(3) \in Seq(Nat)
      BY <3>2, PieceIs DEF upto
    <3> QED
      BY <3>1, <3>3
  <2>2. (upto(3) \o <<c[at[3]]>>) \o <<c[at[4]]>> = upto(3) \o (<<c[at[3]]>> \o <<c[at[4]]>>)
    BY <2>1, JoinAgain, Zenon
  <2>3. <<c[at[3]]>> \o <<c[at[4]]>> = <<c[at[3]], c[at[4]]>>
    <3>1. c[at[3]] \in Nat /\ c[at[4]] \in Nat
      <4>1. \A k \in 1..Len(c) : c[k] \in Nat
        OBVIOUS
      <4> QED
        BY <1>n, <4>1, Zenon
    <3> QED
      BY <3>1, CellsJoin, Zenon
  <2> QED
    BY <1>7, <2>2, <2>3
<1>14. p[4][1] = c[at[3]] /\ EncodeSource(native[1]) = p[3]
  <2>1. EncodeSource(native[1]) = p[3]
    BY <1>1, <1>6, SourceBack
  <2> QED
    BY <1>7, <2>1
<1>15. p[2] = <<r.instance_id>>
  <2>1. r.instance_id # 0
    BY <1>1, CellAssumption DEF NewView
  <2> QED
    BY <1>6, <1>11, <2>1, OneIs
<1> HIDE DEF native, flag, scan
<1>16. EncodeView(r) = upto(3) \o <<c[at[3]], c[at[4]]>> \o p[5] \o <<1>>
  <2>1. EncodeView(r) = <<ViewDomain, 1>> \o Field(p[2]) \o Field(p[3])
            \o <<p[4][1], Len(p[5])>> \o p[5] \o <<1>>
    BY <1>11, <1>14, <1>15 DEF EncodeView
  <2> QED
    BY <1>10, <1>12, <1>14, <2>1
<1>17. EncodeView(r) = c
  BY <1>1, <1>7, <1>9, <1>13, <1>16
<1> QED
  BY <1>1, <1>17

LEMMA TwoOf ==
    ASSUME NEW c \in Seq(Nat), NEW a \in Nat \ {0}, a + 1 <= Len(c)
    PROVE  SubSeq(c, a, a + 1) = <<c[a], c[a + 1]>>
<1>1. a \in 1..Len(c) /\ a + 1 \in a..Len(c) /\ a + 1 \in 1..Len(c)
  OBVIOUS
<1>2. SubSeq(c, a, a + 1) = <<c[a]>> \o SubSeq(c, a + 1, a + 1)
  BY <1>1, SubSeqRecursiveFirst
<1>3. SubSeq(c, a + 1, a + 1) = <<c[a + 1]>>
  BY <1>1, OneCell
<1>4. <<c[a]>> \o <<c[a + 1]>> = <<c[a], c[a + 1]>>
  <2>1. \A x, y : <<x>> \o <<y>> = <<x, y>>
    BY CellsJoin
  <2> QED
    BY <2>1, Zenon
<1> QED
  BY <1>2, <1>3, <1>4

(* A descriptor that is read back is the one these cells encode. *)
LEMMA DescriptorBack ==
    ASSUME NEW c \in Seq(Nat), DecodeDescriptor(c) # Refused
    PROVE  EncodeDescriptor(DecodeDescriptor(c)[1]) = c
<1> DEFINE n == c[6]
           scope == SubSeq(c, 7, 6 + n)
           r == [instance_uuid |-> c[4], namespace_view_id |-> c[5],
                 scope |-> scope, metadata_root |-> Last(c)]
<1>0. Len(c) >= 11 /\ Len(c) = 11 + n
  BY DEF DecodeDescriptor, Refused
<1>1. /\ SubSeq(c, 1, 3) = <<DescriptorMagic, 2, 1>>
      /\ SubSeq(c, 7 + n, 10 + n) = <<1, 1, 0, 0>>
      /\ DecodeDescriptor(c) = <<r>>
  BY DEF DecodeDescriptor, Refused
<1>2. /\ n \in Nat /\ Len(c) \in Nat /\ Len(c) = 11 + n /\ c[6] = n
      /\ c[4] \in Nat /\ c[5] \in Nat /\ c[Len(c)] \in Nat
  BY <1>0
<1>r. /\ r.instance_uuid = c[4] /\ r.namespace_view_id = c[5] /\ r.scope = scope
      /\ r.metadata_root = Last(c)
  OBVIOUS
<1> HIDE DEF n, r
<1>3. SubSeq(c, 1, 3) \o SubSeq(c, 4, 5) = SubSeq(c, 1, 5)
  <2>1. /\ 1 \in Nat \ {0} /\ 3 \in Nat /\ 5 \in Nat /\ 1 <= 3 + 1 /\ 3 <= 5
        /\ 5 <= Len(c) /\ 3 + 1 = 4
    BY <1>2
  <2>2. SubSeq(c, 1, 3) \o SubSeq(c, 3 + 1, 5) = SubSeq(c, 1, 5)
    BY <2>1, JoinPieces
  <2> QED
    BY <2>1, <2>2
<1>4. SubSeq(c, 4, 5) = <<c[4], c[5]>>
  <2>1. 4 \in Nat \ {0} /\ 4 + 1 <= Len(c) /\ 4 + 1 = 5
    BY <1>2
  <2>2. SubSeq(c, 4, 4 + 1) = <<c[4], c[4 + 1]>>
    BY <2>1, TwoOf
  <2> QED
    BY <2>1, <2>2
<1>5. SubSeq(c, 1, 5) \o Field(scope) = SubSeq(c, 1, 6 + n)
  <2>1. 6 \in 1..Len(c) /\ 6 + c[6] <= Len(c) /\ 6 + 1 = 7 /\ 5 + 1 = 6
    BY <1>2
  <2>2. Field(SubSeq(c, 6 + 1, 6 + c[6])) = SubSeq(c, 6, 6 + c[6])
    BY <2>1, FieldPiece
  <2>3. /\ 1 \in Nat \ {0} /\ 5 \in Nat /\ 6 + n \in Nat /\ 1 <= 5 + 1 /\ 5 <= 6 + n
        /\ 6 + n <= Len(c)
    BY <1>2
  <2>4. SubSeq(c, 1, 5) \o SubSeq(c, 5 + 1, 6 + n) = SubSeq(c, 1, 6 + n)
    BY <2>3, JoinPieces
  <2> QED
    BY <1>2, <2>1, <2>2, <2>4
<1>6. SubSeq(c, 1, 6 + n) \o SubSeq(c, 7 + n, 10 + n) = SubSeq(c, 1, 10 + n)
  <2>1. /\ 1 \in Nat \ {0} /\ 6 + n \in Nat /\ 10 + n \in Nat /\ 1 <= (6 + n) + 1
        /\ 6 + n <= 10 + n /\ 10 + n <= Len(c) /\ (6 + n) + 1 = 7 + n
    BY <1>2
  <2>2. SubSeq(c, 1, 6 + n) \o SubSeq(c, (6 + n) + 1, 10 + n) = SubSeq(c, 1, 10 + n)
    BY <2>1, JoinPieces
  <2> QED
    BY <2>1, <2>2
<1>7. SubSeq(c, 1, 10 + n) \o <<Last(c)>> = c
  <2>1. /\ 1 \in 1..Len(c) /\ Len(c) \in 1..Len(c) /\ Len(c) - 1 = 10 + n
    BY <1>2
  <2>2. SubSeq(c, 1, Len(c)) = SubSeq(c, 1, Len(c) - 1) \o <<c[Len(c)]>>
    BY <2>1, SubSeqRecursiveSecond
  <2>3. Last(c) = c[Len(c)]
    BY DEF Last
  <2> QED
    BY <2>1, <2>2, <2>3, SubSeqFull
<1> DEFINE magic == <<DescriptorMagic, 2, 1>>
           ids == <<c[4], c[5]>>
           limits == <<1, 1, 0, 0>>
<1>8. limits \in Seq(Nat) /\ <<Last(c)>> \in Seq(Nat)
  BY <1>2 DEF Last
<1>9. /\ magic \o ids = <<DescriptorMagic, 2, 1, c[4], c[5]>>
      /\ limits \o <<Last(c)>> = <<1, 1, 0, 0, Last(c)>>
  <2>1. /\ DescriptorMagic \in Nat /\ 2 \in Nat /\ 1 \in Nat /\ 0 \in Nat
        /\ Last(c) \in Nat
    BY <1>2 DEF DescriptorMagic, Last
  <2>3. c[4] \in Nat /\ c[5] \in Nat
    BY <1>2
  <2>4. magic \o ids = <<DescriptorMagic, 2, 1, c[4], c[5]>>
    <3>1. \A a, b, d, e, g : <<a, b, d>> \o <<e, g>> = <<a, b, d, e, g>>
      BY CellsJoin
    <3> QED
      BY <3>1
  <2>5. limits \o <<Last(c)>> = <<1, 1, 0, 0, Last(c)>>
    <3>1. \A a, b, d, e, g : <<a, b, d, e>> \o <<g>> = <<a, b, d, e, g>>
      BY CellsJoin
    <3> QED
      BY <3>1
  <2> QED
    BY <2>4, <2>5
<1> HIDE DEF scope
<1>10. magic \o ids \o Field(scope) = SubSeq(c, 1, 6 + n)
  BY <1>1, <1>3, <1>4, <1>5
<1>11. SubSeq(c, 1, 6 + n) \o (limits \o <<Last(c)>>) = c
  <2>1. SubSeq(c, 1, 6 + n) \in Seq(Nat)
    <3>1. 1 \in Nat \ {0} /\ 6 + n \in Nat /\ 1 <= (6 + n) + 1 /\ 6 + n <= Len(c)
      BY <1>2
    <3> QED
      BY <3>1, PieceIs
  <2> DEFINE last == <<Last(c)>>
  <2>2. (SubSeq(c, 1, 6 + n) \o limits) \o last = SubSeq(c, 1, 6 + n) \o (limits \o last)
    <3> HIDE DEF limits, last
    <3>1. limits \in Seq(Nat) /\ last \in Seq(Nat)
      BY <1>8 DEF last
    <3> DEFINE upto == SubSeq(c, 1, 6 + n)
    <3>2. upto \in Seq(Nat)
      BY <2>1
    <3> HIDE DEF upto
    <3>3. (upto \o limits) \o last = upto \o (limits \o last)
      BY <3>1, <3>2, JoinAgain, Zenon
    <3> QED
      BY <3>3 DEF upto
  <2> QED
    BY <1>1, <1>6, <1>7, <2>2
<1> HIDE DEF magic, ids, limits
<1>13. EncodeDescriptor(r) = c
  <2>1. EncodeDescriptor(r) = <<DescriptorMagic, 2, 1, c[4], c[5]>> \o Field(scope)
                                \o <<1, 1, 0, 0, Last(c)>>
    BY <1>r DEF EncodeDescriptor
  <2> QED
    BY <1>9, <1>10, <1>11, <2>1 DEF limits
<1> QED
  BY <1>1, <1>13

(* FlattenSeq appends one sequence after the other. *)
LEMMA FlattenRows ==
    ASSUME NEW seqs, Len(seqs) \in Nat \ {0}
    PROVE  \E got : /\ FlattenSeq(seqs) = got[Len(seqs)]
                    /\ \A n \in 1..Len(seqs) :
                         got[n] = IF n = 1 THEN seqs[1] ELSE got[n - 1] \o seqs[n]
<1> DEFINE L == Len(seqs)
           Row(f, n) == IF n = 1 THEN seqs[n] ELSE f[n - 1] \o seqs[n]
           U(f) == f = [n \in 1..L |-> Row(f, n)]
           h    == CHOOSE f : U(f)
           S    == {j \in Nat : \E f : \A n \in 1..j : f[n] = Row(f, n)}
<1> HIDE DEF Row
<1>1. \A j \in 0..L : j \in S
  <2>1. 0 \in S
    OBVIOUS
  <2>2. ASSUME NEW j \in 1..L, j - 1 \in S PROVE j \in S
    <3>1. PICK g : \A n \in 1..j - 1 : g[n] = Row(g, n)
      BY <2>2
    <3> DEFINE f == [n \in 1..j |-> IF n < j THEN g[n] ELSE Row(g, j)]
    <3>2. ASSUME NEW n \in 1..j, n < j PROVE f[n] = Row(f, n)
      <4>1. f[n] = Row(g, n)
        BY <3>1, <3>2
      <4>2. n # 1 => f[n - 1] = g[n - 1]
        BY <3>2
      <4> HIDE DEF f
      <4> QED
        BY <4>1, <4>2 DEF Row
    <3>3. f[j] = Row(f, j)
      <4>1. f[j] = Row(g, j)
        OBVIOUS
      <4>2. j # 1 => f[j - 1] = g[j - 1]
        OBVIOUS
      <4> HIDE DEF f
      <4> QED
        BY <4>1, <4>2 DEF Row
    <3> HIDE DEF f
    <3>4. \A n \in 1..j : f[n] = Row(f, n)
      BY <3>2, <3>3
    <3> QED
      BY <3>4
  <2> HIDE DEF S
  <2> QED
    BY <2>1, <2>2, StepByStep
<1>2. U(h)
  <2>1. PICK g : \A n \in 1..L : g[n] = Row(g, n)
    <3>1. L \in S
      BY <1>1
    <3> QED
      BY <3>1
  <2> DEFINE f == [n \in 1..L |-> g[n]]
  <2>2. \A n \in 1..L : f[n] = Row(f, n)
    BY <2>1 DEF Row
  <2>3. U(f)
    BY <2>2
  <2> QED
    BY <2>3
<1>3. FlattenSeq(seqs) = h[L]
  BY DEF FlattenSeq, Row
<1> HIDE DEF h
<1>4. \A n \in 1..L : h[n] = Row(h, n)
  BY <1>2
<1> QED
  BY <1>3, <1>4 DEF Row

(* Consecutive pieces put together are the cells between them. *)
Consecutive(c, pieces, n, at) ==
    /\ n \in Nat /\ Len(pieces) = n /\ (n = 0 => pieces = << >>)
    /\ \A k \in 0..n : at[k] \in Nat \ {0} /\ at[k] <= Len(c) + 1
    /\ \A k \in 1..n : /\ at[k - 1] <= at[k]
                       /\ pieces[k] = SubSeq(c, at[k - 1], at[k] - 1)

LEMMA Flattened ==
    ASSUME NEW c \in Seq(Nat), NEW pieces, NEW n, NEW at, Consecutive(c, pieces, n, at)
    PROVE  FlattenSeq(pieces) = SubSeq(c, at[0], at[n] - 1)
<1> USE DEF Consecutive
<1>1. CASE n = 0
  <2>1. FlattenSeq(pieces) = << >>
    BY <1>1 DEF FlattenSeq
  <2>2. at[0] \in Nat \ {0}
    BY <1>1
  <2>3. at[0] \in Int /\ at[0] - 1 \in Int /\ at[0] - 1 < at[0]
    BY <2>2
  <2>4. SubSeq(c, at[0], at[0] - 1) = << >>
    BY <2>3, SubSeqEmpty
  <2> QED
    BY <1>1, <2>1, <2>4
<1>2. CASE n # 0
  <2>1. PICK got : /\ FlattenSeq(pieces) = got[n]
                   /\ \A k \in 1..n :
                        got[k] = IF k = 1 THEN pieces[1] ELSE got[k - 1] \o pieces[k]
    <3>1. Len(pieces) = n /\ Len(pieces) \in Nat \ {0}
      BY <1>2
    <3>2. \E got : /\ FlattenSeq(pieces) = got[Len(pieces)]
                   /\ \A k \in 1..Len(pieces) :
                        got[k] = IF k = 1 THEN pieces[1] ELSE got[k - 1] \o pieces[k]
      BY <3>1, FlattenRows, Zenon
    <3> QED
      BY <3>1, <3>2, Zenon
  <2> DEFINE S == {k \in 0..n : /\ at[0] <= at[k]
                                /\ k # 0 => got[k] = SubSeq(c, at[0], at[k] - 1)}
  <2>2. 0 \in S
    <3>1. at[0] \in Nat
      OBVIOUS
    <3> QED
      BY <3>1
  <2>3. ASSUME NEW k \in 1..n, k - 1 \in S PROVE k \in S
    <3> DEFINE a == at[0]
               b == at[k - 1]
               d == at[k]
    <3>1. /\ a \in Nat \ {0} /\ b \in Nat \ {0} /\ d \in Nat \ {0}
          /\ a <= b /\ b <= d /\ d <= Len(c) + 1
          /\ pieces[k] = SubSeq(c, b, d - 1)
          /\ k # 1 => got[k - 1] = SubSeq(c, a, b - 1)
          /\ k = 1 => a = b
      <4>1. k - 1 \in 0..n /\ k \in 0..n /\ 0 \in 0..n
        OBVIOUS
      <4>2. k - 1 # 0 <=> k # 1
        OBVIOUS
      <4>3. /\ a \in Nat \ {0} /\ b \in Nat \ {0} /\ d \in Nat \ {0}
            /\ b <= d /\ d <= Len(c) + 1
            /\ pieces[k] = SubSeq(c, b, d - 1)
        BY <4>1, Zenon
      <4>4. a <= b /\ (k - 1 # 0 => got[k - 1] = SubSeq(c, a, b - 1))
        BY <2>3, Zenon
      <4>5. k = 1 => a = b
        OBVIOUS
      <4> QED
        BY <4>2, <4>3, <4>4, <4>5, Zenon
    <3> HIDE DEF a, b, d
    <3>2. SubSeq(c, a, b - 1) \o SubSeq(c, b, d - 1) = SubSeq(c, a, d - 1)
      <4>1. /\ a \in Nat \ {0} /\ b - 1 \in Nat /\ d - 1 \in Nat /\ a <= (b - 1) + 1
            /\ b - 1 <= d - 1 /\ d - 1 <= Len(c) /\ (b - 1) + 1 = b
        <5>1. Len(c) \in Nat
          OBVIOUS
        <5> DEFINE z == Len(c)
        <5>2. /\ a \in Nat \ {0} /\ b \in Nat \ {0} /\ d \in Nat \ {0}
              /\ a <= b /\ b <= d /\ d <= z + 1 /\ z \in Nat
          BY <3>1, <5>1, Zenon
        <5> HIDE DEF z, S
        <5>3. /\ b - 1 \in Nat /\ d - 1 \in Nat /\ a <= (b - 1) + 1
              /\ b - 1 <= d - 1 /\ d - 1 <= z /\ (b - 1) + 1 = b
          BY <5>2
        <5> QED
          BY <5>2, <5>3, Zenon DEF z
      <4>2. SubSeq(c, a, b - 1) \o SubSeq(c, (b - 1) + 1, d - 1) = SubSeq(c, a, d - 1)
        <5> HIDE DEF S, Consecutive
        <5> QED
          BY <4>1, JoinPieces
      <4> QED
        BY <4>1, <4>2
    <3>3. got[k] = SubSeq(c, a, d - 1)
      <4>1. CASE k = 1
        BY <2>1, <3>1, <4>1
      <4>2. CASE k # 1
        <5>1. got[k] = got[k - 1] \o pieces[k]
          BY <2>1, <4>2
        <5> QED
          BY <3>1, <3>2, <4>2, <5>1
      <4> QED
        BY <4>1, <4>2
    <3>4. a <= d
      BY <3>1
    <3> QED
      BY <3>3, <3>4 DEF a, d
  <2> HIDE DEF S
  <2>4. n \in S
    <3>1. \A k \in 0..n : k \in S
      BY <2>2, <2>3, StepByStep
    <3> QED
      BY <3>1
  <2> QED
    BY <1>2, <2>1, <2>4 DEF S
<1> QED
  BY <1>1, <1>2

LEMMA ThreeOf ==
    ASSUME NEW c \in Seq(Nat), NEW a \in Nat \ {0}, a + 2 <= Len(c)
    PROVE  SubSeq(c, a, a + 2) = <<c[a], c[a + 1], c[a + 2]>>
<1> DEFINE s == SubSeq(c, a, a + 2)
           t == <<c[a], c[a + 1], c[a + 2]>>
<1>1. /\ a \in Nat \ {0} /\ a + 2 \in Nat /\ a <= (a + 2) + 1 /\ ((a + 2) + 1) - a = 3
      /\ (a + 1) - 1 = a /\ (a + 2) - 1 = a + 1 /\ (a + 3) - 1 = a + 2
  OBVIOUS
<1>2. /\ s \in Seq(Nat) /\ Len(s) = ((a + 2) + 1) - a
      /\ \A k \in 1..((a + 2) + 1) - a : s[k] = c[(a + k) - 1]
  BY <1>1, PieceIs
<1>3. t \in Seq(Nat) /\ Len(t) = 3 /\ t[1] = c[a] /\ t[2] = c[a + 1] /\ t[3] = c[a + 2]
  OBVIOUS
<1> HIDE DEF s, t
<1>4. Len(s) = 3 /\ \A k \in 1..3 : s[k] = c[(a + k) - 1]
  BY <1>1, <1>2
<1>5. s[1] = c[a] /\ s[2] = c[a + 1] /\ s[3] = c[a + 2]
  <2>1. s[1] = c[(a + 1) - 1] /\ s[2] = c[(a + 2) - 1] /\ s[3] = c[(a + 3) - 1]
    BY <1>4
  <2> QED
    BY <1>1, <2>1
<1>6. \A k \in 1..3 : s[k] = t[k]
  <2>1. \A k \in 1..3 : k = 1 \/ k = 2 \/ k = 3
    OBVIOUS
  <2> QED
    BY <1>3, <1>5, <2>1, Zenon
<1>7. s = t
  BY <1>2, <1>3, <1>4, <1>6, SeqEqual
<1> QED
  BY <1>7 DEF s, t

(* A row that is read back is the one these cells are. *)
LEMMA RowBack ==
    ASSUME NEW c \in Seq(Nat), DecodeRow(c) # Refused
    PROVE  /\ DecodeRow(c) = <<Decoded(c)>> /\ RowOf(Decoded(c)) = c
           /\ WellKinded(Decoded(c)) /\ Accepts(Decoded(c))
<1> DEFINE l == c[2]
           e == 2 + l
           p == c[e + 1]
           q == e + 2 + p
           m == c[q]
           r == Decoded(c)
           upto(k) == SubSeq(c, 1, k)
<1>1. /\ Readable(c) /\ WellKinded(r) /\ Accepts(r) /\ DecodeRow(c) = <<r>>
  BY DEF DecodeRow, Refused
<1>2. /\ Len(c) \in Nat /\ Len(c) >= 2 /\ c[1] = NodeDomain /\ l \in Nat /\ e \in Nat
      /\ e + 1 <= Len(c) /\ p \in {0, 1} /\ q \in Nat /\ q <= Len(c)
      /\ m \in Nat /\ Len(c) = q + 2 * m
  <2>1. /\ Len(c) >= 2 /\ c[1] = NodeDomain /\ e + 1 <= Len(c) /\ p \in {0, 1}
        /\ q <= Len(c) /\ Len(c) = q + 2 * m
    BY <1>1 DEF Readable, LabelEnd, Present, CountAt
  <2>0. \A k \in 1..Len(c) : c[k] \in Nat
    OBVIOUS
  <2>2. Len(c) \in Nat /\ l \in Nat
    <3>1. Len(c) \in Nat /\ 2 \in 1..Len(c)
      BY <2>1
    <3> QED
      BY <2>0, <3>1
  <2>3. e \in Nat /\ q \in Nat /\ q >= 1
    <3>1. e = 2 + l /\ q = e + 2 + p
      OBVIOUS
    <3> HIDE DEF l, e, p, q, m
    <3> QED
      BY <2>1, <2>2, <3>1
  <2>4. m \in Nat
    <3> HIDE DEF q
    <3>1. q \in 1..Len(c)
      BY <2>1, <2>2, <2>3
    <3> QED
      BY <2>0, <3>1, Zenon
  <2> QED
    <3> HIDE DEF l, e, p, q, m
    <3> QED
      BY <2>1, <2>2, <2>3, <2>4
<1>3. /\ r.label = SubSeq(c, 3, e)
      /\ r.binding = IF p = 1 THEN c[e + 2] ELSE None
      /\ r.list = [k \in 1..m |-> <<c[q + 2 * k - 1], c[q + 2 * k]>>]
  BY DEF Decoded, Made, LabelEnd, Present, CountAt, Children
<1> HIDE DEF r, m, q, p, e, l, upto
<1>4. upto(2) = <<NodeDomain, l>>
  <2>1. 1 \in Nat \ {0} /\ 1 + 1 <= Len(c) /\ 1 + 1 = 2
    BY <1>2
  <2>2. SubSeq(c, 1, 1 + 1) = <<c[1], c[1 + 1]>>
    BY <2>1, TwoOf
  <2> QED
    BY <1>2, <2>1, <2>2 DEF upto, l
<1>5. upto(2) \o r.label = upto(e) /\ Len(r.label) = l
  <2>1. /\ 1 \in Nat \ {0} /\ 2 \in Nat /\ e \in Nat /\ 1 <= 2 + 1 /\ 2 <= e /\ e <= Len(c)
        /\ 2 + 1 = 3 /\ 3 \in Nat \ {0} /\ 3 <= e + 1 /\ (e + 1) - 3 = l
    BY <1>2 DEF e
  <2>2. SubSeq(c, 1, 2) \o SubSeq(c, 2 + 1, e) = SubSeq(c, 1, e)
    BY <2>1, JoinPieces
  <2>3. Len(SubSeq(c, 3, e)) = (e + 1) - 3
    BY <2>1, PieceIs
  <2> QED
    BY <1>3, <2>1, <2>2, <2>3 DEF upto
<1>6. upto(e) \o (IF r.binding = None THEN <<0>> ELSE <<1, r.binding>>) = upto(q - 1)
  <2>1. e + 1 \in 1..Len(c) /\ e + 1 \in Nat \ {0}
    BY <1>2
  <2>2. CASE p = 0
    <3>1. r.binding = None /\ q - 1 = e + 1
      BY <1>2, <1>3, <2>2 DEF q
    <3>2. SubSeq(c, e + 1, e + 1) = <<0>>
      BY <2>1, <2>2, OneCell DEF p
    <3>3. SubSeq(c, 1, e) \o SubSeq(c, e + 1, e + 1) = SubSeq(c, 1, e + 1)
      <4>1. /\ 1 \in Nat \ {0} /\ e \in Nat /\ e + 1 \in Nat /\ 1 <= e + 1 /\ e <= e + 1
            /\ e + 1 <= Len(c)
        BY <1>2
      <4> QED
        BY <4>1, JoinPieces
    <3> QED
      BY <3>1, <3>2, <3>3 DEF upto
  <2>3. CASE p = 1
    <3>1. q - 1 = e + 2 /\ e + 2 \in 1..Len(c) /\ (e + 1) + 1 = e + 2
      BY <1>2, <2>3 DEF q
    <3>2. r.binding = c[e + 2] /\ r.binding # None
      <4>1. c[e + 2] \in Nat
        BY <3>1
      <4> QED
        BY <1>3, <2>3, <4>1, RecordsAssumption
    <3>3. SubSeq(c, e + 1, (e + 1) + 1) = <<c[e + 1], c[(e + 1) + 1]>>
      BY <2>1, <3>1, TwoOf
    <3>4. SubSeq(c, 1, e) \o SubSeq(c, e + 1, e + 2) = SubSeq(c, 1, e + 2)
      <4>1. /\ 1 \in Nat \ {0} /\ e \in Nat /\ e + 2 \in Nat /\ 1 <= e + 1 /\ e <= e + 2
            /\ e + 2 <= Len(c)
        BY <1>2, <3>1
      <4> QED
        BY <4>1, JoinPieces
    <3> QED
      BY <2>3, <3>1, <3>2, <3>3, <3>4 DEF upto, p
  <2> QED
    BY <1>2, <2>2, <2>3
<1>7. upto(q - 1) \o <<Len(r.list)>> = upto(q)
  <2>1. Len(r.list) = c[q]
    <3>1. Len(r.list) = m
      BY <1>2, <1>3
    <3> QED
      BY <3>1 DEF m
  <2>2. q \in 1..Len(c) /\ 1 \in 1..Len(c)
    BY <1>2 DEF q
  <2>3. SubSeq(c, 1, q) = SubSeq(c, 1, q - 1) \o <<c[q]>>
    <3>1. q \in 1..Len(c) /\ 1 \in 1..Len(c)
      BY <2>2
    <3> QED
      BY <3>1, SubSeqRecursiveSecond
  <2> QED
    BY <2>1, <2>3 DEF upto
<1>8. upto(q) \o FlattenSeq(r.list) = c
  <2> DEFINE at == [k \in 0..m |-> q + 1 + 2 * k]
  <2>1. Len(r.list) = m /\ (m = 0 => r.list = << >>)
    BY <1>2, <1>3
  <2>2. \A k \in 0..m : at[k] \in Nat \ {0} /\ at[k] <= Len(c) + 1
    BY <1>2
  <2>2a. \A b \in Nat \ {0} : b + 1 <= Len(c) => SubSeq(c, b, b + 1) = <<c[b], c[b + 1]>>
    BY TwoOf
  <2>3. ASSUME NEW k \in 1..m
        PROVE  at[k - 1] <= at[k] /\ r.list[k] = SubSeq(c, at[k - 1], at[k] - 1)
    <3>1. /\ at[k - 1] = q + 2 * k - 1 /\ at[k] = q + 1 + 2 * k
          /\ at[k] - 1 = q + 2 * k /\ (q + 2 * k - 1) + 1 = q + 2 * k
          /\ q + 2 * k - 1 \in Nat \ {0} /\ q + 2 * k <= Len(c)
      BY <1>2
    <3> DEFINE a == q + 2 * k - 1
    <3>2. SubSeq(c, a, a + 1) = <<c[a], c[a + 1]>>
      <4>1. a \in Nat \ {0} /\ a + 1 <= Len(c)
        BY <3>1
      <4> HIDE DEF a
      <4> QED
        BY <2>2a, <4>1, Zenon
    <3>3. r.list[k] = <<c[a], c[q + 2 * k]>>
      BY <1>3
    <3>4. a + 1 = q + 2 * k /\ at[k - 1] = a /\ at[k] - 1 = a + 1 /\ at[k - 1] <= at[k]
      BY <1>2, <3>1
    <3> HIDE DEF a, at
    <3>5. r.list[k] = <<c[a], c[a + 1]>>
      BY <3>3, <3>4, Zenon
    <3>6. r.list[k] = SubSeq(c, at[k - 1], at[k] - 1)
      BY <3>2, <3>4, <3>5, Zenon
    <3> QED
      BY <3>4, <3>6, Zenon
  <2>4. at[0] = q + 1 /\ at[m] - 1 = Len(c)
    BY <1>2
  <2> HIDE DEF at
  <2>5. FlattenSeq(r.list) = SubSeq(c, at[0], at[m] - 1)
    <3> DEFINE list == r.list
    <3>1. m \in Nat /\ Len(list) = m /\ (m = 0 => list = << >>)
      BY <1>2, <2>1
    <3>2. \A k \in 1..m : at[k - 1] <= at[k] /\ list[k] = SubSeq(c, at[k - 1], at[k] - 1)
      BY <2>3
    <3> HIDE DEF list
    <3>3. Consecutive(c, list, m, at)
      BY <2>2, <3>1, <3>2 DEF Consecutive
    <3>4. FlattenSeq(list) = SubSeq(c, at[0], at[m] - 1)
      BY <3>3, Flattened
    <3> QED
      BY <3>4 DEF list
  <2>6. SubSeq(c, 1, q) \o SubSeq(c, q + 1, Len(c)) = SubSeq(c, 1, Len(c))
    <3>1. /\ 1 \in Nat \ {0} /\ q \in Nat /\ Len(c) \in Nat /\ 1 <= q + 1
          /\ q <= Len(c) /\ Len(c) <= Len(c)
      BY <1>2
    <3> QED
      BY <3>1, JoinPieces
  <2> QED
    BY <2>4, <2>5, <2>6, SubSeqFull DEF upto
<1>9. RowOf(r) = c
  BY <1>4, <1>5, <1>6, <1>7, <1>8 DEF RowOf
<1> QED
  BY <1>1, <1>9 DEF r

(* Running sums, as the offsets of the objects are. *)
LEMMA SumExists ==
    ASSUME NEW L \in Nat, NEW w
    PROVE  \E f : f = [k \in 0..L |-> IF k = 0 THEN 0 ELSE f[k - 1] + w[k]]
<1> DEFINE Row(f, k) == IF k = 0 THEN 0 ELSE f[k - 1] + w[k]
           S == {j \in Nat : \E f : \A k \in 0..j : f[k] = Row(f, k)}
<1> HIDE DEF Row
<1>1. \A j \in 0..L : j \in S
  <2>1. 0 \in S
    <3> DEFINE f == [k \in 0..0 |-> 0]
    <3>1. \A k \in 0..0 : f[k] = Row(f, k)
      BY DEF Row
    <3> QED
      BY <3>1
  <2>2. ASSUME NEW j \in 1..L, j - 1 \in S PROVE j \in S
    <3>1. PICK g : \A k \in 0..j - 1 : g[k] = Row(g, k)
      BY <2>2
    <3> DEFINE f == [k \in 0..j |-> IF k < j THEN g[k] ELSE Row(g, j)]
    <3>2. ASSUME NEW k \in 0..j, k < j PROVE f[k] = Row(f, k)
      <4>1. f[k] = Row(g, k)
        BY <3>1, <3>2
      <4>2. k # 0 => f[k - 1] = g[k - 1]
        BY <3>2
      <4> HIDE DEF f
      <4> QED
        BY <4>1, <4>2 DEF Row
    <3>3. f[j] = Row(f, j)
      <4>1. f[j] = Row(g, j)
        OBVIOUS
      <4>2. f[j - 1] = g[j - 1]
        OBVIOUS
      <4> HIDE DEF f
      <4> QED
        BY <4>1, <4>2 DEF Row
    <3> HIDE DEF f
    <3>4. \A k \in 0..j : f[k] = Row(f, k)
      BY <3>2, <3>3
    <3> QED
      BY <3>4
  <2> HIDE DEF S
  <2> QED
    BY <2>1, <2>2, StepByStep
<1>2. PICK g : \A k \in 0..L : g[k] = Row(g, k)
  <2>1. L \in S
    BY <1>1
  <2> QED
    BY <2>1
<1> DEFINE f == [k \in 0..L |-> g[k]]
<1>3. \A k \in 0..L : f[k] = Row(f, k)
  BY <1>2 DEF Row
<1>4. f = [k \in 0..L |-> Row(f, k)]
  BY <1>3
<1> HIDE DEF f
<1> QED
  BY <1>4 DEF Row

LEMMA ExpectRows ==
    ASSUME NEW c, NEW n \in Nat \ {0}
    PROVE  \E h : /\ ExpectOff(c, n) = h[n - 1]
                  /\ \A k \in 0..n - 1 :
                       h[k] = IF k = 0 THEN 0 ELSE h[k - 1] + LenOf(c, k)
<1> DEFINE U(f) == f = [k \in 0..n - 1 |-> IF k = 0 THEN 0 ELSE f[k - 1] + LenOf(c, k)]
           h == CHOOSE f : U(f)
           w == [k \in 1..n - 1 |-> LenOf(c, k)]
<1>1. PICK f : f = [k \in 0..n - 1 |-> IF k = 0 THEN 0 ELSE f[k - 1] + w[k]]
  <2>1. n - 1 \in Nat
    OBVIOUS
  <2> HIDE DEF w
  <2> QED
    BY <2>1, SumExists
<1>2. U(f)
  <2>1. \A k \in 0..n - 1 : k # 0 => w[k] = LenOf(c, k)
    OBVIOUS
  <2> HIDE DEF w
  <2> QED
    BY <1>1, <2>1
<1>3. U(h)
  BY <1>2
<1>4. ExpectOff(c, n) = h[n - 1]
  BY DEF ExpectOff
<1> HIDE DEF h
<1> QED
  BY <1>3, <1>4

OffsetTable(objs, n, h) ==
    /\ OffsetOf(objs, n) = h[n - 1]
    /\ \A k \in 0..Len(objs) : h[k] = IF k = 0 THEN 0 ELSE h[k - 1] + Len(objs[k])

LEMMA OffsetRows ==
    ASSUME NEW objs, Len(objs) \in Nat, NEW n
    PROVE  \E h : OffsetTable(objs, n, h)
<1> DEFINE L == Len(objs)
           U(f) == f = [k \in 0..L |-> IF k = 0 THEN 0 ELSE f[k - 1] + Len(objs[k])]
           h == CHOOSE f : U(f)
           w == [k \in 1..L |-> Len(objs[k])]
<1>1. PICK f : f = [k \in 0..L |-> IF k = 0 THEN 0 ELSE f[k - 1] + w[k]]
  <2> HIDE DEF w
  <2> QED
    BY SumExists
<1>2. U(f)
  <2>1. \A k \in 0..L : k # 0 => w[k] = Len(objs[k])
    OBVIOUS
  <2> HIDE DEF w
  <2> QED
    BY <1>1, <2>1
<1>3. U(h)
  BY <1>2
<1>4. OffsetOf(objs, n) = h[n - 1]
  BY DEF OffsetOf
<1> HIDE DEF h
<1>5. OffsetTable(objs, n, h)
  BY <1>3, <1>4 DEF OffsetTable
<1> QED
  BY <1>5

(* What the decoder expects grows by each length. *)
LEMMA ExpectNext ==
    ASSUME NEW c, NEW N \in Nat, \A k \in 1..N : LenOf(c, k) \in Nat
    PROVE  /\ ExpectOff(c, 1) = 0 /\ \A n \in 1..N + 1 : ExpectOff(c, n) \in Nat
           /\ \A n \in 1..N : ExpectOff(c, n + 1) = ExpectOff(c, n) + LenOf(c, n)
<1>1. PICK g : \A k \in 0..N : g[k] = IF k = 0 THEN 0 ELSE g[k - 1] + LenOf(c, k)
  <2>1. N + 1 \in Nat \ {0} /\ (N + 1) - 1 = N
    OBVIOUS
  <2>2. \E h : /\ ExpectOff(c, N + 1) = h[(N + 1) - 1]
               /\ \A k \in 0..(N + 1) - 1 :
                    h[k] = IF k = 0 THEN 0 ELSE h[k - 1] + LenOf(c, k)
    BY <2>1, ExpectRows
  <2> QED
    BY <2>1, <2>2
<1>2. ASSUME NEW n \in 1..N + 1 PROVE ExpectOff(c, n) = g[n - 1]
  <2>1. n \in Nat \ {0}
    OBVIOUS
  <2>2. PICK h : /\ ExpectOff(c, n) = h[n - 1]
                 /\ \A k \in 0..n - 1 :
                      h[k] = IF k = 0 THEN 0 ELSE h[k - 1] + LenOf(c, k)
    BY <2>1, ExpectRows
  <2> DEFINE S == {k \in 0..n - 1 : h[k] = g[k]}
  <2>3. 0 \in S
    BY <1>1, <2>2
  <2>4. \A k \in 1..n - 1 : k - 1 \in S => k \in S
    BY <1>1, <2>2
  <2> HIDE DEF S
  <2>5. n - 1 \in S
    <3>1. n - 1 \in Nat /\ n - 1 \in 0..n - 1
      OBVIOUS
    <3>2. \A k \in 0..n - 1 : k \in S
      BY <2>3, <2>4, <3>1, StepByStep
    <3> QED
      BY <3>1, <3>2
  <2> QED
    BY <2>2, <2>5 DEF S
<1>3. \A k \in 0..N : g[k] \in Nat
  <2> DEFINE S == {k \in 0..N : g[k] \in Nat}
  <2>1. 0 \in S
    BY <1>1
  <2>2. ASSUME NEW k \in 1..N, k - 1 \in S PROVE k \in S
    <3>1. g[k] = g[k - 1] + LenOf(c, k) /\ g[k - 1] \in Nat /\ LenOf(c, k) \in Nat
      BY <1>1, <2>2
    <3> QED
      BY <3>1
  <2> HIDE DEF S
  <2>3. \A k \in 0..N : k \in S
    BY <2>1, <2>2, StepByStep
  <2> QED
    BY <2>3 DEF S
<1>4. ASSUME NEW n \in 1..N
      PROVE  ExpectOff(c, n + 1) = ExpectOff(c, n) + LenOf(c, n)
  <2>1. n + 1 \in 1..N + 1 /\ (n + 1) - 1 = n /\ n \in 1..N + 1
    OBVIOUS
  <2>2. ExpectOff(c, n + 1) = g[(n + 1) - 1] /\ ExpectOff(c, n) = g[n - 1]
    BY <1>2, <2>1
  <2>3. g[n] = g[n - 1] + LenOf(c, n)
    BY <1>1
  <2> QED
    BY <2>1, <2>2, <2>3
<1>5. ExpectOff(c, 1) = 0
  <2>1. 1 \in 1..N + 1 /\ 1 - 1 = 0
    OBVIOUS
  <2> QED
    BY <1>1, <1>2, <2>1
<1>6. ASSUME NEW n \in 1..N + 1 PROVE ExpectOff(c, n) \in Nat
  BY <1>2, <1>3
<1> QED
  BY <1>4, <1>5, <1>6

(* And so do the offsets that are written. *)
LEMMA OffsetIs ==
    ASSUME NEW c, NEW objs, Len(objs) \in Nat,
           \A k \in 1..Len(objs) : LenOf(c, k) \in Nat /\ Len(objs[k]) = LenOf(c, k)
    PROVE  \A n \in 1..Len(objs) + 1 : OffsetOf(objs, n) = ExpectOff(c, n)
<1> SUFFICES ASSUME NEW n \in 1..Len(objs) + 1 PROVE OffsetOf(objs, n) = ExpectOff(c, n)
  OBVIOUS
<1> DEFINE N == Len(objs)
<1>1. PICK h : /\ OffsetOf(objs, n) = h[n - 1]
               /\ \A k \in 0..N : h[k] = IF k = 0 THEN 0 ELSE h[k - 1] + Len(objs[k])
  <2>1. \E h : OffsetTable(objs, n, h)
    BY OffsetRows
  <2> QED
    BY <2>1 DEF OffsetTable
<1>2. /\ ExpectOff(c, 1) = 0
      /\ \A k \in 1..N : ExpectOff(c, k + 1) = ExpectOff(c, k) + LenOf(c, k)
  BY ExpectNext
<1> DEFINE S == {k \in 0..N : h[k] = ExpectOff(c, k + 1)}
<1>3. 0 \in S
  <2>1. 0 + 1 = 1 /\ 0 \in 0..N
    OBVIOUS
  <2> QED
    BY <1>1, <1>2, <2>1
<1>4. ASSUME NEW k \in 1..N, k - 1 \in S PROVE k \in S
  <2>1. (k - 1) + 1 = k
    OBVIOUS
  <2>2. h[k - 1] = ExpectOff(c, k)
    BY <1>4, <2>1
  <2>3. h[k] = h[k - 1] + LenOf(c, k)
    <3>1. k \in 0..N /\ k # 0
      OBVIOUS
    <3>2. h[k] = h[k - 1] + Len(objs[k])
      BY <1>1, <3>1
    <3> QED
      BY <3>2
  <2> QED
    BY <1>2, <2>2, <2>3
<1> HIDE DEF S
<1>5. n - 1 \in S
  <2>1. \A k \in 0..N : k \in S
    BY <1>3, <1>4, StepByStep
  <2> QED
    BY <2>1
<1>6. (n - 1) + 1 = n
  OBVIOUS
<1> QED
  BY <1>1, <1>5, <1>6 DEF S

(* What DecodeObjects has looked at when it accepts. *)
LEMMA TableRead ==
    ASSUME NEW c \in Seq(Nat), DecodeObjects(c) # Refused, NEW N, N = c[1]
    PROVE  /\ N \in Nat \ {0} /\ 3 * N + 1 <= Len(c)
           /\ DecodeObjects(c) = <<[n \in 1..N |-> ObjectAt(c, n)]>>
           /\ \A n \in 1..N : /\ LenOf(c, n) \in Nat /\ Off(c, n) \in Nat
                              /\ Off(c, n) = ExpectOff(c, n)
                              /\ Off(c, n) + LenOf(c, n) <= Len(Data(c))
                              /\ ObjectAt(c, n) \in DOMAIN Sha
                              /\ Sha[ObjectAt(c, n)] = Id(c, n)
           /\ \A n \in 1..N : \A k \in 1..n - 1 : Id(c, k) # Id(c, n)
           /\ Len(Data(c)) = ExpectOff(c, N + 1)
<1>1. /\ c # << >> /\ c[1] \in 1..ObjectCountMax /\ 3 * c[1] + 1 <= Len(c)
      /\ (\A n \in 1..c[1] : EntryOk(c, n)) /\ NoneLeft(c)
      /\ DecodeObjects(c) = <<[n \in 1..c[1] |-> ObjectAt(c, n)]>>
  BY DEF DecodeObjects, Refused
<1>2. N \in Nat \ {0} /\ 3 * N + 1 <= Len(c) /\ Len(c) \in Nat
  <2>1. c[1] \in Nat
    BY <1>1
  <2>2. N \in Nat /\ N >= 1
    BY <1>1, <2>1
  <2> QED
    BY <1>1, <2>2
<1>3. ASSUME NEW n \in 1..N PROVE LenOf(c, n) \in Nat /\ Off(c, n) \in Nat
  <2>1. 3 * n \in 1..Len(c) /\ 3 * n + 1 \in 1..Len(c)
    <3> DEFINE z == Len(c)
    <3> HIDE DEF z
    <3>1. N \in Nat /\ 3 * N + 1 <= z /\ z \in Nat
      BY <1>2 DEF z
    <3>2. n \in Nat /\ n >= 1 /\ n <= N
      BY <3>1
    <3>3. 3 * n \in 1..z /\ 3 * n + 1 \in 1..z
      BY <3>1, <3>2
    <3> QED
      BY <3>3 DEF z
  <2>2. \A k \in 1..Len(c) : c[k] \in Nat
    OBVIOUS
  <2> QED
    BY <2>1, <2>2, Zenon DEF LenOf, Off
<1>4. ASSUME NEW n \in 1..N
      PROVE  /\ Off(c, n) = ExpectOff(c, n)
             /\ Off(c, n) + LenOf(c, n) <= Len(Data(c))
             /\ ObjectAt(c, n) \in DOMAIN Sha /\ Sha[ObjectAt(c, n)] = Id(c, n)
             /\ \A k \in 1..n - 1 : Id(c, k) # Id(c, n)
  <2>1. EntryOk(c, n)
    BY <1>1
  <2> QED
    BY <2>1 DEF EntryOk, OffsetOk
<1>5. Len(Data(c)) = ExpectOff(c, N + 1)
  BY <1>1 DEF NoneLeft
<1> QED
  BY <1>1, <1>2, <1>3, <1>4, <1>5

(* A table that is read back is the one these cells encode, and its objects *)
(* are its data, one behind the other.                                      *)
LEMMA ObjectsBack ==
    ASSUME NEW c \in Seq(Nat), DecodeObjects(c) # Refused
    PROVE  /\ EncodeObjects(DecodeObjects(c)[1]) = c
           /\ FlattenSeq(DecodeObjects(c)[1]) = Data(c)
           /\ IsInjective(DecodeObjects(c)[1])
<1> DEFINE N == c[1]
           objs == [n \in 1..N |-> ObjectAt(c, n)]
           data == Data(c)
<1>1. /\ N \in Nat \ {0} /\ 3 * N + 1 <= Len(c) /\ DecodeObjects(c) = <<objs>>
      /\ Len(data) = ExpectOff(c, N + 1)
      /\ \A n \in 1..N : \A k \in 1..n - 1 : Id(c, k) # Id(c, n)
  BY TableRead
<1>2. \A n \in 1..N : /\ LenOf(c, n) \in Nat /\ Off(c, n) \in Nat
                      /\ Off(c, n) = ExpectOff(c, n)
                      /\ Off(c, n) + LenOf(c, n) <= Len(data)
                      /\ Sha[ObjectAt(c, n)] = Id(c, n)
  BY TableRead
<1> HIDE DEF N
<1>3. data \in Seq(Nat) /\ Len(data) \in Nat /\ data = SubSeq(c, 3 * N + 2, Len(c))
  <2>1. /\ 3 * N + 2 \in Nat \ {0} /\ Len(c) \in Nat /\ 3 * N + 2 <= Len(c) + 1
        /\ Len(c) <= Len(c)
    BY <1>1
  <2>2. data = SubSeq(c, 3 * N + 2, Len(c))
    BY DEF Data, N
  <2>3. SubSeq(c, 3 * N + 2, Len(c)) \in Seq(Nat)
    BY <2>1, PieceIs
  <2> QED
    BY <2>2, <2>3
<1>4. /\ ExpectOff(c, 1) = 0 /\ (\A n \in 1..N + 1 : ExpectOff(c, n) \in Nat)
      /\ \A n \in 1..N : ExpectOff(c, n + 1) = ExpectOff(c, n) + LenOf(c, n)
  BY <1>1, <1>2, ExpectNext
<1> HIDE DEF data
<1>5. Len(objs) = N /\ DOMAIN objs = 1..N /\ \A n \in 1..N : objs[n] = ObjectAt(c, n)
  BY <1>1
<1> HIDE DEF objs
<1>6. ASSUME NEW n \in 1..N
      PROVE  /\ ObjectAt(c, n) = SubSeq(data, ExpectOff(c, n) + 1, ExpectOff(c, n + 1))
             /\ Len(objs[n]) = LenOf(c, n) /\ ExpectOff(c, n + 1) <= Len(data)
  <2> DEFINE a == Off(c, n)
             l == LenOf(c, n)
  <2>1. a \in Nat /\ l \in Nat /\ a + l <= Len(data) /\ a = ExpectOff(c, n)
        /\ ExpectOff(c, n + 1) = a + l
    BY <1>2, <1>4
  <2>2. ObjectAt(c, n) = SubSeq(data, a + 1, a + l)
    BY DEF ObjectAt, data
  <2> HIDE DEF a, l
  <2>3. Len(SubSeq(data, a + 1, a + l)) = ((a + l) + 1) - (a + 1)
    <3>1. a + 1 \in Nat \ {0} /\ a + l \in Nat /\ a + 1 <= (a + l) + 1
      BY <2>1
    <3> QED
      BY <1>3, <2>1, <3>1, PieceIs
  <2>4. ((a + l) + 1) - (a + 1) = l
    BY <2>1
  <2>5. Len(objs[n]) = l
    BY <1>5, <2>2, <2>3, <2>4
  <2> QED
    BY <2>1, <2>2, <2>5 DEF l
<1>7. FlattenSeq(objs) = data
  <2> DEFINE at == [k \in 0..N |-> ExpectOff(c, k + 1) + 1]
  <2>1. at[0] = 1 /\ at[N] - 1 = Len(data)
    <3>1. 0 \in 0..N /\ N \in 0..N /\ 0 + 1 = 1
      BY <1>1
    <3> QED
      BY <1>1, <1>3, <1>4, <3>1
  <2>2. ASSUME NEW k \in 0..N PROVE at[k] \in Nat \ {0} /\ at[k] <= Len(data) + 1
    <3>1. at[k] = ExpectOff(c, k + 1) + 1
      OBVIOUS
    <3>2. ExpectOff(c, k + 1) \in Nat
      <4>1. k + 1 \in 1..N + 1
        BY <1>1
      <4> QED
        BY <1>4, <4>1
    <3>3. ExpectOff(c, k + 1) <= Len(data)
      <4>1. CASE k = 0
        <5>1. k + 1 = 1
          BY <4>1
        <5> QED
          BY <1>3, <1>4, <5>1
      <4>2. CASE k # 0
        <5>1. k \in 1..N
          BY <1>1, <4>2
        <5> QED
          BY <1>6, <5>1
      <4> QED
        BY <4>1, <4>2
    <3> HIDE DEF at
    <3> QED
      BY <1>3, <3>1, <3>2, <3>3
  <2>3. ASSUME NEW k \in 1..N
        PROVE  at[k - 1] <= at[k] /\ objs[k] = SubSeq(data, at[k - 1], at[k] - 1)
    <3>1. k - 1 \in 0..N /\ k \in 0..N /\ (k - 1) + 1 = k /\ k \in 1..N + 1
      BY <1>1
    <3>2. at[k - 1] = ExpectOff(c, k) + 1 /\ at[k] = ExpectOff(c, k + 1) + 1
      BY <3>1
    <3>3. /\ ExpectOff(c, k) \in Nat /\ LenOf(c, k) \in Nat
          /\ ExpectOff(c, k + 1) = ExpectOff(c, k) + LenOf(c, k)
      BY <1>2, <1>4, <3>1
    <3> HIDE DEF at
    <3>4. at[k] - 1 = ExpectOff(c, k + 1) /\ at[k - 1] <= at[k]
      BY <3>2, <3>3
    <3>5. objs[k] = SubSeq(data, ExpectOff(c, k) + 1, ExpectOff(c, k + 1))
      BY <1>5, <1>6
    <3> QED
      BY <3>2, <3>4, <3>5
  <2> HIDE DEF at
  <2>4. Consecutive(data, objs, N, at)
    BY <1>1, <1>5, <2>2, <2>3 DEF Consecutive
  <2>5. FlattenSeq(objs) = SubSeq(data, at[0], at[N] - 1)
    <3>1. data \in Seq(Nat)
      BY <1>3
    <3> QED
      BY <2>4, <3>1, Flattened
  <2> QED
    BY <1>3, <2>1, <2>5, SubSeqFull
<1> DEFINE rows == [n \in DOMAIN objs |-> <<Sha[objs[n]], Len(objs[n]), OffsetOf(objs, n)>>]
<1>8. /\ Len(rows) = N
      /\ \A n \in 1..N : rows[n] = <<c[3 * n - 1], c[3 * n], c[3 * n + 1]>>
  <2>1. Len(rows) = N
    BY <1>1, <1>5
  <2>2. ASSUME NEW n \in 1..N
        PROVE  rows[n] = <<c[3 * n - 1], c[3 * n], c[3 * n + 1]>>
    <3>1. rows[n] = <<Sha[objs[n]], Len(objs[n]), OffsetOf(objs, n)>>
      BY <1>5
    <3>2. Sha[objs[n]] = c[3 * n - 1]
      BY <1>2, <1>5 DEF Id
    <3>3. Len(objs[n]) = c[3 * n]
      BY <1>6 DEF LenOf
    <3>4. OffsetOf(objs, n) = c[3 * n + 1]
      <4>1. OffsetOf(objs, n) = ExpectOff(c, n)
        <5>0. \A k \in 1..N : LenOf(c, k) \in Nat /\ Len(objs[k]) = LenOf(c, k)
          BY <1>2, <1>6
        <5>1. /\ Len(objs) \in Nat /\ n \in 1..Len(objs) + 1
              /\ \A k \in 1..Len(objs) : LenOf(c, k) \in Nat /\ Len(objs[k]) = LenOf(c, k)
          BY <1>1, <1>5, <5>0
        <5> QED
          BY <5>1, OffsetIs
      <4> QED
        BY <1>2, <4>1 DEF Off
    <3> QED
      BY <3>1, <3>2, <3>3, <3>4
  <2> QED
    BY <2>1, <2>2
<1>9. FlattenSeq(rows) = SubSeq(c, 2, 3 * N + 1)
  <2> DEFINE at == [k \in 0..N |-> 3 * k + 2]
  <2>1. /\ at[0] = 2 /\ at[N] - 1 = 3 * N + 1
        /\ \A k \in 0..N : at[k] \in Nat \ {0} /\ at[k] <= Len(c) + 1
        /\ \A k \in 1..N : at[k - 1] = 3 * k - 1 /\ at[k] - 1 = 3 * k + 1 /\ at[k - 1] <= at[k]
    BY <1>1
  <2> HIDE DEF rows, at
  <2>2. ASSUME NEW k \in 1..N PROVE rows[k] = SubSeq(c, at[k - 1], at[k] - 1)
    <3> DEFINE a == 3 * k - 1
    <3>1. /\ a \in Nat \ {0} /\ a + 2 <= Len(c) /\ 3 * k = a + 1 /\ 3 * k + 1 = a + 2
          /\ at[k - 1] = a /\ at[k] - 1 = a + 2
      <4>1. at[k - 1] = a /\ at[k] - 1 = 3 * k + 1
        BY <2>1
      <4> QED
        BY <1>1, <4>1
    <3>2. rows[k] = <<c[a], c[3 * k], c[3 * k + 1]>>
      BY <1>8
    <3> HIDE DEF a
    <3>3. rows[k] = <<c[a], c[a + 1], c[a + 2]>>
      BY <3>1, <3>2, Zenon
    <3>4. SubSeq(c, a, a + 2) = <<c[a], c[a + 1], c[a + 2]>>
      BY <3>1, ThreeOf, Zenon
    <3> QED
      BY <3>1, <3>3, <3>4, Zenon
  <2>3. Consecutive(c, rows, N, at)
    BY <1>1, <1>8, <2>1, <2>2 DEF Consecutive
  <2>4. FlattenSeq(rows) = SubSeq(c, at[0], at[N] - 1)
    BY <2>3, Flattened
  <2> QED
    BY <2>1, <2>4
<1>10. EncodeObjects(objs) = c
  <2>1. EncodeObjects(objs) = <<N>> \o FlattenSeq(rows) \o FlattenSeq(objs)
    BY <1>5 DEF EncodeObjects
  <2> HIDE DEF rows
  <2>2. <<N>> \o SubSeq(c, 2, 3 * N + 1) = SubSeq(c, 1, 3 * N + 1)
    <3>1. 1 \in 1..Len(c) /\ 3 * N + 1 \in 1..Len(c) /\ 1 + 1 = 2
      BY <1>1
    <3>2. SubSeq(c, 1, 3 * N + 1) = <<c[1]>> \o SubSeq(c, 1 + 1, 3 * N + 1)
      BY <3>1, SubSeqRecursiveFirst
    <3> QED
      BY <3>1, <3>2 DEF N
  <2>3. SubSeq(c, 1, 3 * N + 1) \o data = c
    <3>1. /\ 1 \in Nat \ {0} /\ 3 * N + 1 \in Nat /\ Len(c) \in Nat
          /\ 1 <= (3 * N + 1) + 1 /\ 3 * N + 1 <= Len(c) /\ Len(c) <= Len(c)
          /\ (3 * N + 1) + 1 = 3 * N + 2
      BY <1>1
    <3>2. SubSeq(c, 1, 3 * N + 1) \o SubSeq(c, (3 * N + 1) + 1, Len(c)) = SubSeq(c, 1, Len(c))
      BY <3>1, JoinPieces
    <3> QED
      BY <1>3, <3>1, <3>2, SubSeqFull
  <2> QED
    BY <1>7, <1>9, <2>1, <2>2, <2>3
<1>11. IsInjective(objs)
  <2>1. ASSUME NEW n \in 1..N, NEW k \in 1..N, k < n PROVE objs[k] # objs[n]
    <3>1. Id(c, k) # Id(c, n)
      BY <1>1, <2>1
    <3>2. Sha[objs[k]] = Id(c, k) /\ Sha[objs[n]] = Id(c, n)
      BY <1>2, <1>5
    <3> QED
      BY <3>1, <3>2
  <2>2. \A n, k \in 1..N : n < k \/ k < n \/ n = k
    BY <1>1
  <2> QED
    BY <1>5, <2>1, <2>2 DEF IsInjective
<1>12. DecodeObjects(c)[1] = objs
  BY <1>1 DEF objs
<1> QED
  BY <1>7, <1>10, <1>11, <1>12 DEF data

-----------------------------------------------------------------------------
(* What is encoded is cells. *)
LEMMA JoinIn ==
    ASSUME NEW s \in Seq(Nat), NEW t \in Seq(Nat)
    PROVE  s \o t \in Seq(Nat)
  OBVIOUS

LEMMA FieldIn == ASSUME NEW s \in Seq(Nat) PROVE Field(s) \in Seq(Nat)
<1>1. <<Len(s)>> \in Seq(Nat)
  OBVIOUS
<1> QED
  BY <1>1, JoinIn DEF Field

LEMMA BytesIn == ASSUME NEW s \in Seq(Byte) PROVE s \in Seq(Nat)
<1>1. Byte \subseteq Nat
  BY DEF Byte
<1> QED
  BY <1>1, SeqMonotonic

LEMMA CellIn == ASSUME NEW a \in Nat PROVE <<a>> \in Seq(Nat)
  OBVIOUS

LEMMA SourceIn == ASSUME NEW r \in Sources PROVE EncodeSource(r) \in Seq(Nat)
<1>1. /\ <<SourceDomain>> \in Seq(Nat) /\ Field(<<r.source_id>>) \in Seq(Nat)
      /\ Field(r.scope_path) \in Seq(Nat) /\ Field(<<Sha1>>) \in Seq(Nat)
      /\ Field(<<r.commit_oid>>) \in Seq(Nat) /\ Field(<<r.root_tree_oid>>) \in Seq(Nat)
  <2>1. /\ SourceDomain \in Nat /\ Sha1 \in Nat /\ r.source_id \in Nat
        /\ r.commit_oid \in Nat /\ r.root_tree_oid \in Nat /\ r.scope_path \in Seq(Byte)
    BY DEF Sources, SourceDomain, Sha1
  <2>2. /\ <<SourceDomain>> \in Seq(Nat) /\ <<Sha1>> \in Seq(Nat)
        /\ <<r.source_id>> \in Seq(Nat) /\ <<r.commit_oid>> \in Seq(Nat)
        /\ <<r.root_tree_oid>> \in Seq(Nat) /\ r.scope_path \in Seq(Nat)
    BY <2>1, CellIn, BytesIn
  <2> QED
    BY <2>2, FieldIn
<1> QED
  BY <1>1, JoinIn DEF EncodeSource

LEMMA BindingIn == ASSUME NEW r \in Mounts PROVE EncodeBinding(r) \in Seq(Nat)
<1>1. /\ <<BindingDomain>> \in Seq(Nat) /\ r.mount_path \in Seq(Nat)
      /\ r.source_subpath \in Seq(Nat) /\ EncodeSource(r.source) \in Seq(Nat)
      /\ <<IF r.policy = "mutable" THEN 1 ELSE 2>> \in Seq(Nat)
  <2>1. r.mount_path \in Seq(Byte) /\ r.source \in Sources /\ r.source_subpath \in Seq(Byte)
    BY DEF Mounts
  <2>2. BindingDomain \in Nat /\ (IF r.policy = "mutable" THEN 1 ELSE 2) \in Nat
    BY DEF BindingDomain
  <2> QED
    BY <2>1, <2>2, CellIn, BytesIn, SourceIn
<1>2. /\ Field(r.mount_path) \in Seq(Nat) /\ Field(EncodeSource(r.source)) \in Seq(Nat)
      /\ Field(r.source_subpath) \in Seq(Nat)
  BY <1>1, FieldIn
<1> QED
  BY <1>1, <1>2, JoinIn DEF EncodeBinding

LEMMA ViewIn == ASSUME NEW r \in Views PROVE EncodeView(r) \in Seq(Nat)
<1>1. /\ r.instance_id \in Nat /\ r.native \in Sources /\ r.bindings_root \in Nat
      /\ r.overrides_root \in Seq(Nat) /\ Len(r.overrides_root) \in Nat
  BY DEF Views
<1>2. /\ <<ViewDomain, 1>> \in Seq(Nat) /\ <<r.instance_id>> \in Seq(Nat)
      /\ <<r.bindings_root, Len(r.overrides_root)>> \in Seq(Nat) /\ <<1>> \in Seq(Nat)
  BY <1>1 DEF ViewDomain
<1>3. EncodeSource(r.native) \in Seq(Nat)
  BY <1>1, SourceIn
<1>4. Field(<<r.instance_id>>) \in Seq(Nat) /\ Field(EncodeSource(r.native)) \in Seq(Nat)
  BY <1>2, <1>3, FieldIn
<1> QED
  BY <1>1, <1>2, <1>4, JoinIn DEF EncodeView

LEMMA DescriptorIn == ASSUME NEW r \in Serving PROVE EncodeDescriptor(r) \in Seq(Nat)
<1>1. /\ r.instance_uuid \in Nat /\ r.namespace_view_id \in Nat /\ r.scope \in Seq(Byte)
      /\ r.metadata_root \in Nat
  BY DEF Serving
<1>2. /\ <<DescriptorMagic, 2, 1, r.instance_uuid, r.namespace_view_id>> \in Seq(Nat)
      /\ <<1, 1, 0, 0, r.metadata_root>> \in Seq(Nat)
  BY <1>1 DEF DescriptorMagic
<1>3. Field(r.scope) \in Seq(Nat)
  BY <1>1, BytesIn, FieldIn
<1> QED
  BY <1>2, <1>3, JoinIn DEF EncodeDescriptor

LEMMA FlattenIn ==
    ASSUME NEW seqs, Len(seqs) \in Nat, Len(seqs) = 0 => seqs = << >>,
           \A k \in 1..Len(seqs) : seqs[k] \in Seq(Nat)
    PROVE  FlattenSeq(seqs) \in Seq(Nat)
<1>1. CASE Len(seqs) = 0
  BY <1>1 DEF FlattenSeq
<1>2. CASE Len(seqs) # 0
  <2> DEFINE n == Len(seqs)
  <2>1. PICK got : /\ FlattenSeq(seqs) = got[n]
                   /\ \A k \in 1..n :
                        got[k] = IF k = 1 THEN seqs[1] ELSE got[k - 1] \o seqs[k]
    BY <1>2, FlattenRows
  <2> DEFINE S == {k \in 0..n : k # 0 => got[k] \in Seq(Nat)}
  <2>2. 0 \in S
    OBVIOUS
  <2>3. ASSUME NEW k \in 1..n, k - 1 \in S PROVE k \in S
    <3>1. seqs[k] \in Seq(Nat)
      OBVIOUS
    <3>2. CASE k = 1
      BY <2>1, <3>1, <3>2
    <3>3. CASE k # 1
      <4>1. got[k] = got[k - 1] \o seqs[k]
        BY <2>1, <3>3
      <4>2. got[k - 1] \in Seq(Nat)
        BY <2>3, <3>3
      <4>3. got[k] \in Seq(Nat)
        BY <3>1, <4>1, <4>2, JoinIn
      <4> QED
        BY <4>3
    <3> QED
      BY <3>2, <3>3
  <2> HIDE DEF S
  <2>4. n \in S
    <3>1. \A k \in 0..n : k \in S
      BY <2>2, <2>3, StepByStep
    <3> QED
      BY <3>1
  <2> QED
    BY <1>2, <2>1, <2>4 DEF S
<1> QED
  BY <1>1, <1>2

LEMMA RowIn == ASSUME NEW r \in Lists PROVE RowOf(r) \in Seq(Nat)
<1>1. /\ r.label \in Seq(Byte) /\ r.binding \in Binding \cup {None}
      /\ r.list \in Seq(Byte \X Binding)
  BY DEF Lists
<1>2. r.label \in Seq(Nat)
  BY <1>1, BytesIn
<1>3. <<NodeDomain, Len(r.label)>> \in Seq(Nat)
  BY <1>1 DEF NodeDomain
<1>4. (IF r.binding = None THEN <<0>> ELSE <<1, r.binding>>) \in Seq(Nat)
  <2>1. CASE r.binding = None
    BY <2>1
  <2>2. CASE r.binding # None
    <3>1. r.binding \in Nat
      BY <1>1, <2>2, RecordsAssumption
    <3> QED
      BY <2>2, <3>1
  <2> QED
    BY <2>1, <2>2
<1>5. /\ Len(r.list) \in Nat /\ (Len(r.list) = 0 => r.list = << >>)
      /\ \A k \in 1..Len(r.list) : r.list[k] \in Byte \X Binding
  BY <1>1
<1>6. ASSUME NEW k \in 1..Len(r.list) PROVE r.list[k] \in Seq(Nat)
  <2>1. PICK a \in Byte, b \in Binding : r.list[k] = <<a, b>>
    BY <1>5
  <2>2. a \in Nat /\ b \in Nat
    <3>1. Binding \subseteq Nat
      BY RecordsAssumption
    <3> QED
      BY <3>1 DEF Byte
  <2>3. <<a, b>> \in Seq(Nat)
    BY <2>2
  <2> QED
    BY <2>1, <2>3, Zenon
<1>7. FlattenSeq(r.list) \in Seq(Nat)
  BY <1>5, <1>6, FlattenIn
<1>8. <<Len(r.list)>> \in Seq(Nat)
  BY <1>5
<1> QED
  BY <1>2, <1>3, <1>4, <1>7, <1>8, JoinIn DEF RowOf

LEMMA ObjectsIn ==
    ASSUME NEW r \in Seq(DOMAIN Sha) PROVE EncodeObjects(r) \in Seq(Nat)
<1> DEFINE n == Len(r)
           rows == [k \in DOMAIN r |-> <<Sha[r[k]], Len(r[k]), OffsetOf(r, k)>>]
<1>1. /\ n \in Nat /\ DOMAIN r = 1..n /\ (n = 0 => r = << >>)
      /\ \A k \in 1..n : r[k] \in DOMAIN Sha
  OBVIOUS
<1>2. \A k \in 1..n : r[k] \in Seq(Nat) /\ Sha[r[k]] \in Nat /\ Len(r[k]) \in Nat
  <2> SUFFICES ASSUME NEW k \in 1..n
               PROVE  r[k] \in Seq(Nat) /\ Sha[r[k]] \in Nat /\ Len(r[k]) \in Nat
    OBVIOUS
  <2>1. r[k] \in Seq(Nat) /\ Sha[r[k]] \in Nat
    BY <1>1, RecordsAssumption
  <2> DEFINE x == r[k]
  <2>2. x \in Seq(Nat)
    BY <2>1
  <2> HIDE DEF x
  <2>3. Len(x) \in Nat
    BY <2>2
  <2> QED
    BY <2>1, <2>3 DEF x
<1>3. ASSUME NEW k \in 1..n PROVE OffsetOf(r, k) \in Nat
  <2>1. PICK h : OffsetTable(r, k, h)
    BY <1>1, OffsetRows
  <2> DEFINE S == {j \in 0..n : h[j] \in Nat}
  <2>2. 0 \in S
    BY <1>1, <2>1 DEF OffsetTable
  <2>3. ASSUME NEW j \in 1..n, j - 1 \in S PROVE j \in S
    <3>1. h[j] = h[j - 1] + Len(r[j])
      BY <2>1 DEF OffsetTable
    <3>2. h[j - 1] \in Nat /\ Len(r[j]) \in Nat
      BY <1>2, <2>3
    <3> QED
      BY <3>1, <3>2
  <2> HIDE DEF S
  <2>4. k - 1 \in S
    <3>1. \A j \in 0..n : j \in S
      BY <1>1, <2>2, <2>3, StepByStep
    <3> QED
      BY <1>1, <3>1
  <2> QED
    BY <2>1, <2>4 DEF S, OffsetTable
<1>4. FlattenSeq(rows) \in Seq(Nat)
  <2>1. /\ Len(rows) = n /\ (n = 0 => rows = << >>)
        /\ \A k \in 1..n : rows[k] = <<Sha[r[k]], Len(r[k]), OffsetOf(r, k)>>
    BY <1>1
  <2>2. ASSUME NEW k \in 1..n PROVE rows[k] \in Seq(Nat)
    <3>1. rows[k] = <<Sha[r[k]], Len(r[k]), OffsetOf(r, k)>>
      BY <2>1
    <3> HIDE DEF rows
    <3>2. <<Sha[r[k]], Len(r[k]), OffsetOf(r, k)>> \in Seq(Nat)
      <4>1. Sha[r[k]] \in Nat /\ Len(r[k]) \in Nat /\ OffsetOf(r, k) \in Nat
        BY <1>2, <1>3
      <4> QED
        BY <4>1
    <3> QED
      BY <3>1, <3>2
  <2> HIDE DEF rows
  <2> QED
    BY <1>1, <2>1, <2>2, FlattenIn
<1>5. FlattenSeq(r) \in Seq(Nat)
  BY <1>1, <1>2, FlattenIn
<1>6. <<n>> \in Seq(Nat)
  BY <1>1
<1>7. EncodeObjects(r) = <<n>> \o FlattenSeq(rows) \o FlattenSeq(r)
  BY DEF EncodeObjects
<1> HIDE DEF rows, n
<1> QED
  BY <1>4, <1>5, <1>6, <1>7, JoinIn

-----------------------------------------------------------------------------
(* Where a record is on its way: what was refused did not pass its          *)
(* constructor, what is kept did; the bytes are cells, those of the record  *)
(* as long as nothing damaged them; what was read is what its decoder makes *)
(* of the bytes as they are.                                                *)
OnItsWay ==
    /\ kind \in Kinds /\ record \in Records[kind]
    /\ pc \in {"new", "kept", "read", "refused"}
    /\ cells \in Seq(Nat) /\ damages \in Nat
    /\ (pc \in {"kept", "read"} => New(kind, record))
    /\ (pc = "refused" => ~New(kind, record))
    /\ (pc \in {"kept", "read"} /\ damages = 0 => cells = Encode(kind, record))
    /\ (pc # "read" => readAs = "none" /\ result = Refused)
    /\ (pc = "read" => readAs \in Kinds /\ result = Decode(readAs, cells))

LEMMA EncodeIn ==
    ASSUME NEW k \in Kinds, NEW r \in Records[k]
    PROVE  Encode(k, r) \in Seq(Nat)
<1>1. CASE k = "source"
  <2>1. r \in Sources
    BY <1>1, RecordsAssumption
  <2> QED
    BY <1>1, <2>1, SourceIn DEF Encode
<1>2. CASE k = "binding"
  <2>1. r \in Mounts
    BY <1>2, RecordsAssumption
  <2> QED
    BY <1>2, <2>1, BindingIn DEF Encode
<1>3. CASE k = "view"
  <2>1. r \in Views
    BY <1>3, RecordsAssumption
  <2> QED
    BY <1>3, <2>1, ViewIn DEF Encode
<1>4. CASE k = "descriptor"
  <2>1. r \in Serving
    BY <1>4, RecordsAssumption
  <2> QED
    BY <1>4, <2>1, DescriptorIn DEF Encode
<1>5. CASE k = "node"
  <2>1. r \in Lists
    BY <1>5, RecordsAssumption
  <2> QED
    BY <1>5, <2>1, RowIn DEF Encode
<1>6. CASE k = "objects"
  <2>1. r \in Seq(DOMAIN Sha)
    BY <1>6, RecordsAssumption
  <2> QED
    BY <1>6, <2>1, ObjectsIn DEF Encode
<1> QED
  BY <1>1, <1>2, <1>3, <1>4, <1>5, <1>6 DEF Kinds

(* Whatever happens to cells, they stay cells. *)
LEMMA DamagedIn ==
    ASSUME NEW c \in Seq(Nat), NEW d,
           \/ \E at \in DOMAIN c, x \in Cells : d = [c EXCEPT ![at] = x]
           \/ \E at \in DOMAIN c : d = RemoveAt(c, at)
           \/ \E at \in 1..Len(c) + 1, x \in Cells : d = InsertAt(c, at, x)
           \/ \E n \in 0..Len(c) - 1 : d = SubSeq(c, 1, n)
    PROVE  d \in Seq(Nat)
<1>0. DOMAIN c = 1..Len(c) /\ Len(c) \in Nat
  OBVIOUS
<1>c. Cells \subseteq Nat
  BY RecordsAssumption
<1>1. ASSUME NEW at \in DOMAIN c, NEW x \in Cells, d = [c EXCEPT ![at] = x]
      PROVE  d \in Seq(Nat)
  <2>1. at \in 1..Len(c) /\ x \in Nat
    BY <1>0, <1>c
  <2> QED
    BY <1>1, <2>1, ExceptSeq
<1>2. \A a \in Nat \ {0}, b \in Nat : a <= b + 1 /\ b <= Len(c) => SubSeq(c, a, b) \in Seq(Nat)
  BY PieceIs
<1>3. ASSUME NEW at \in DOMAIN c, d = RemoveAt(c, at)
      PROVE  d \in Seq(Nat)
  <2>1. /\ at - 1 \in Nat /\ at + 1 \in Nat \ {0} /\ 1 \in Nat \ {0} /\ 1 <= (at - 1) + 1
        /\ at - 1 <= Len(c) /\ at + 1 <= Len(c) + 1 /\ Len(c) <= Len(c)
    BY <1>0
  <2>2. SubSeq(c, 1, at - 1) \in Seq(Nat) /\ SubSeq(c, at + 1, Len(c)) \in Seq(Nat)
    BY <1>0, <1>2, <2>1
  <2> QED
    BY <1>3, <2>2, JoinIn DEF RemoveAt
<1>4. ASSUME NEW at \in 1..Len(c) + 1, NEW x \in Cells, d = InsertAt(c, at, x)
      PROVE  d \in Seq(Nat)
  <2>1. /\ at - 1 \in Nat /\ at \in Nat \ {0} /\ 1 \in Nat \ {0} /\ 1 <= (at - 1) + 1
        /\ at - 1 <= Len(c) /\ at <= Len(c) + 1 /\ Len(c) <= Len(c)
    BY <1>0
  <2>2. SubSeq(c, 1, at - 1) \in Seq(Nat) /\ SubSeq(c, at, Len(c)) \in Seq(Nat)
    BY <1>0, <1>2, <2>1
  <2>3. <<x>> \in Seq(Nat)
    BY <1>c, CellIn
  <2> QED
    BY <1>4, <2>2, <2>3, JoinIn DEF InsertAt
<1>5. ASSUME NEW n \in 0..Len(c) - 1, d = SubSeq(c, 1, n)
      PROVE  d \in Seq(Nat)
  <2>1. n \in Nat /\ 1 \in Nat \ {0} /\ 1 <= n + 1 /\ n <= Len(c)
    BY <1>0
  <2> QED
    BY <1>2, <1>5, <2>1
<1> QED
  BY <1>1, <1>3, <1>4, <1>5

LEMMA OnItsWayInit == Init => OnItsWay
<1> SUFFICES ASSUME Init PROVE OnItsWay
  OBVIOUS
<1>1. cells \in Seq(Nat)
  BY DEF Init
<1> QED
  BY <1>1 DEF Init, OnItsWay

LEMMA OnItsWayNext == OnItsWay /\ [Next]_vars => OnItsWay'
<1> SUFFICES ASSUME OnItsWay, [Next]_vars PROVE OnItsWay'
  OBVIOUS
<1> USE DEF OnItsWay
<1>1. CASE Write
  <2>1. CASE New(kind, record)
    <3>1. pc' = "kept" /\ cells' = Encode(kind, record)
          /\ UNCHANGED <<kind, record, damages, readAs, result>>
      BY <1>1, <2>1 DEF Write
    <3>2. cells' \in Seq(Nat)
      BY <3>1, EncodeIn
    <3>3. pc = "new"
      BY <1>1 DEF Write
    <3>4. New(kind, record)' /\ (cells = Encode(kind, record))'
      BY <2>1, <3>1
    <3> QED
      BY <3>1, <3>2, <3>3, <3>4
  <2>2. CASE ~New(kind, record)
    <3>1. pc = "new" /\ pc' = "refused"
          /\ UNCHANGED <<kind, record, cells, damages, readAs, result>>
      BY <1>1, <2>2 DEF Write
    <3>2. ~New(kind, record)'
      BY <2>2, <3>1
    <3> QED
      BY <3>1, <3>2
  <2> QED
    BY <2>1, <2>2
<1>2. CASE Damage
  <2>1. /\ pc = "kept" /\ damages' = damages + 1
        /\ UNCHANGED <<pc, kind, record, readAs, result>>
    BY <1>2 DEF Damage
  <2>2. cells' \in Seq(Nat)
    BY <1>2, DamagedIn DEF Damage
  <2>3. damages' \in Nat /\ damages' # 0
    BY <2>1
  <2>4. New(kind, record)'
    BY <2>1
  <2> QED
    BY <2>1, <2>2, <2>3, <2>4
<1>3. CASE Read
  <2>1. /\ pc = "kept" /\ pc' = "read" /\ UNCHANGED <<kind, record, cells, damages>>
    BY <1>3 DEF Read
  <2>2. readAs' \in Kinds /\ result' = Decode(readAs', cells')
    BY <1>3, <2>1 DEF Read
  <2>3. New(kind, record)' /\ (damages = 0 => cells = Encode(kind, record))'
    BY <2>1
  <2> QED
    BY <2>1, <2>2, <2>3
<1>4. CASE UNCHANGED vars
  BY <1>4 DEF vars
<1> QED
  BY <1>1, <1>2, <1>3, <1>4 DEF Next

LEMMA AlwaysOnItsWay == Spec => []OnItsWay
  BY OnItsWayInit, OnItsWayNext, PTL DEF Spec

(* What is returned was read from the cells there are. *)
LEMMA ResultIsRead ==
    ASSUME OnItsWay, result # Refused
    PROVE  readAs \in Kinds /\ cells \in Seq(Nat) /\ result = Decode(readAs, cells)
  BY DEF OnItsWay

(* "One byte string per value" (README.md:117): whatever bytes a decoder    *)
(* accepts, of any length and damaged in any way, are the encoding of what  *)
(* it returns.                                                              *)
THEOREM OneByteString == Spec => []CanonicalRecord
<1>1. OnItsWay => CanonicalRecord
  <2> SUFFICES ASSUME OnItsWay, result # Refused
               PROVE  Encode(readAs, result[1]) = cells
    BY DEF CanonicalRecord
  <2>1. readAs \in Kinds /\ cells \in Seq(Nat) /\ result = Decode(readAs, cells)
    BY ResultIsRead
  <2>2. CASE readAs = "source"
    BY <2>1, <2>2, SourceBack DEF Encode, Decode
  <2>3. CASE readAs = "binding"
    BY <2>1, <2>3, BindingBack DEF Encode, Decode
  <2>4. CASE readAs = "view"
    BY <2>1, <2>4, ViewBack DEF Encode, Decode
  <2>5. CASE readAs = "descriptor"
    BY <2>1, <2>5, DescriptorBack DEF Encode, Decode
  <2>6. CASE readAs = "node"
    <3>1. result = DecodeRow(cells)
      BY <2>1, <2>6 DEF Decode
    <3>2. result = <<Decoded(cells)>> /\ RowOf(Decoded(cells)) = cells
      BY <2>1, <3>1, RowBack
    <3>3. result[1] = Decoded(cells)
      BY <3>2
    <3> QED
      BY <2>6, <3>2, <3>3 DEF Encode
  <2>7. CASE readAs = "objects"
    BY <2>1, <2>7, ObjectsBack DEF Encode, Decode
  <2> QED
    BY <2>1, <2>2, <2>3, <2>4, <2>5, <2>6, <2>7 DEF Kinds
<1> QED
  BY <1>1, AlwaysOnItsWay, PTL

(* "OBJECT offsets must concatenate exactly (no holes or overlaps)"         *)
(* (treeframe.rs): whatever a peer wrote into the table, the objects that   *)
(* are returned are the data area, each of its cells once, and no two of    *)
(* them are the same.                                                       *)
THEOREM OffsetsAreExact == Spec => []TableIsExact
<1>1. OnItsWay => TableIsExact
  <2> SUFFICES ASSUME OnItsWay, readAs = "objects", result # Refused
               PROVE  FlattenSeq(result[1]) = Data(cells) /\ IsInjective(result[1])
    BY DEF TableIsExact
  <2>1. cells \in Seq(Nat) /\ result = DecodeObjects(cells)
    BY ResultIsRead DEF Decode
  <2> QED
    BY <2>1, ObjectsBack
<1> QED
  BY <1>1, AlwaysOnItsWay, PTL

-----------------------------------------------------------------------------
(* Two strictly ascending lists of the same numbers are the same. *)
Ascends(a, n) ==
    /\ n \in Nat /\ \A k \in 1..n : a[k] \in Nat
    /\ \A k \in 2..n : a[k - 1] < a[k]

LEMMA AscendsAll ==
    ASSUME NEW n, NEW a, Ascends(a, n)
    PROVE  \A i, j \in 1..n : i < j => a[i] < a[j]
<1> USE DEF Ascends
<1> DEFINE S == {j \in 0..n : \A i \in 1..n : i < j => a[i] < a[j]}
<1>1. 0 \in S
  OBVIOUS
<1>2. ASSUME NEW j \in 1..n, j - 1 \in S PROVE j \in S
  <2> SUFFICES ASSUME NEW i \in 1..n, i < j PROVE a[i] < a[j]
    OBVIOUS
  <2>1. a[j - 1] < a[j] /\ a[j - 1] \in Nat /\ a[j] \in Nat /\ a[i] \in Nat
    OBVIOUS
  <2>2. CASE i = j - 1
    BY <2>1, <2>2
  <2>3. CASE i # j - 1
    <3>1. a[i] < a[j - 1]
      BY <1>2, <2>3
    <3> QED
      BY <2>1, <3>1
  <2> QED
    BY <2>2, <2>3
<1> HIDE DEF S
<1>3. \A j \in 0..n : j \in S
  BY <1>1, <1>2, StepByStep
<1> QED
  BY <1>3 DEF S

Same(a, n, b, m) == {a[k] : k \in 1..n} = {b[k] : k \in 1..m}

LEMMA AscendsHalf ==
    ASSUME NEW n, NEW a, Ascends(a, n), NEW m, NEW b, Ascends(b, m), Same(a, n, b, m)
    PROVE  n <= m /\ \A k \in 1..n : a[k] = b[k]
<1>1. /\ n \in Nat /\ m \in Nat
      /\ \A k \in 1..n : a[k] \in Nat
      /\ \A k \in 1..m : b[k] \in Nat
  BY DEF Ascends
<1>2. \A i, j \in 1..n : i < j => a[i] < a[j]
  BY AscendsAll
<1>3. \A i, j \in 1..m : i < j => b[i] < b[j]
  BY AscendsAll
<1>4. /\ \A k \in 1..n : \E j \in 1..m : a[k] = b[j]
      /\ \A k \in 1..m : \E j \in 1..n : b[k] = a[j]
  BY DEF Same
<1> DEFINE S == {k \in 0..n : k <= m /\ \A j \in 1..k : a[j] = b[j]}
<1>5. 0 \in S
  BY <1>1
<1>6. ASSUME NEW k \in 1..n, k - 1 \in S PROVE k \in S
  <2>1. \A j \in 1..k - 1 : a[j] = b[j]
    BY <1>6
  <2>2. PICK j \in 1..m : a[k] = b[j]
    BY <1>4
  <2>3. j >= k
    <3> SUFFICES ASSUME j \in 1..k - 1 PROVE FALSE
      BY <1>1
    <3>1. a[j] = b[j] /\ j \in 1..n /\ j < k
      BY <1>1, <2>1
    <3>2. a[j] < a[k] /\ a[j] \in Nat
      BY <1>1, <1>2, <3>1
    <3> QED
      BY <2>2, <3>1, <3>2
  <2>4. k \in 1..m
    BY <1>1, <2>3
  <2>5. PICK i \in 1..n : b[k] = a[i]
    BY <1>4, <2>4
  <2>6. i >= k
    <3> SUFFICES ASSUME i \in 1..k - 1 PROVE FALSE
      BY <1>1
    <3>1. a[i] = b[i] /\ i \in 1..m /\ i < k
      BY <1>1, <2>1, <2>4
    <3>2. b[i] < b[k] /\ b[i] \in Nat
      BY <1>1, <1>3, <2>4, <3>1
    <3> QED
      BY <2>5, <3>1, <3>2
  <2>7. a[k] \in Nat /\ b[k] \in Nat /\ a[i] \in Nat /\ b[j] \in Nat
    BY <1>1, <2>4
  <2>8. b[k] <= a[k]
    <3>1. k = j \/ k < j
      BY <1>1, <2>3
    <3>2. k = j \/ b[k] < b[j]
      BY <1>3, <2>4, <3>1
    <3> QED
      BY <2>2, <2>7, <3>2
  <2>9. a[k] <= b[k]
    <3>1. k = i \/ k < i
      BY <1>1, <2>6
    <3>2. k = i \/ a[k] < a[i]
      BY <1>2, <3>1
    <3> QED
      BY <2>5, <2>7, <3>2
  <2>10. a[k] = b[k]
    BY <2>7, <2>8, <2>9
  <2>11. \A x \in 1..k : a[x] = b[x]
    BY <1>1, <2>1, <2>10
  <2> QED
    BY <1>1, <2>4, <2>11
<1> HIDE DEF S
<1>7. \A k \in 0..n : k \in S
  BY <1>1, <1>5, <1>6, StepByStep
<1>8. n \in S
  BY <1>1, <1>7
<1> QED
  BY <1>8 DEF S

(* A node has one list of children. *)
EdgesOf(m) == [k \in 1..Len(m.list) |-> m.list[k][1]]

LEMMA ListEdges ==
    ASSUME NEW m \in Lists, EdgesAscend(m.list)
    PROVE  /\ Ascends(EdgesOf(m), Len(m.list))
           /\ DOMAIN AsNode(m).children = {EdgesOf(m)[k] : k \in 1..Len(m.list)}
           /\ \A k \in 1..Len(m.list) :
                /\ m.list[k] = <<EdgesOf(m)[k], m.list[k][2]>>
                /\ AsNode(m).children[EdgesOf(m)[k]] = m.list[k][2]
<1> DEFINE n == Len(m.list)
           a == EdgesOf(m)
<1>1. m.list \in Seq(Byte \X Binding)
  BY DEF Lists
<1>2. n \in Nat /\ DOMAIN m.list = 1..n /\ \A k \in 1..n : m.list[k] \in Byte \X Binding
  BY <1>1
<1>3. \A k \in 1..n : a[k] = m.list[k][1]
  BY DEF EdgesOf
<1> HIDE DEF n, a
<1>4. \A k \in 1..n : /\ m.list[k] = <<a[k], m.list[k][2]>> /\ a[k] \in Nat
  <2> SUFFICES ASSUME NEW k \in 1..n
               PROVE  m.list[k] = <<a[k], m.list[k][2]>> /\ a[k] \in Nat
    OBVIOUS
  <2>1. PICK e \in Byte, d \in Binding : m.list[k] = <<e, d>>
    BY <1>2
  <2>2. m.list[k][1] = e /\ m.list[k][2] = d
    BY <2>1
  <2>3. e \in Nat
    BY DEF Byte
  <2> QED
    BY <1>3, <2>1, <2>2, <2>3
<1>5. Ascends(a, n)
  <2>1. ASSUME NEW k \in 2..n PROVE a[k - 1] < a[k]
    <3>1. k \in 1..n /\ k - 1 \in 1..n
      BY <1>2
    <3>2. m.list[k - 1][1] < m.list[k][1]
      BY DEF EdgesAscend, n
    <3> QED
      BY <1>3, <3>1, <3>2
  <2> QED
    BY <1>2, <1>4, <2>1 DEF Ascends
<1>6. \A i, j \in 1..n : a[i] = a[j] => i = j
  <2>1. \A i, j \in 1..n : i < j => a[i] < a[j]
    BY <1>5, AscendsAll
  <2> SUFFICES ASSUME NEW i \in 1..n, NEW j \in 1..n, a[i] = a[j] PROVE i = j
    OBVIOUS
  <2>2. ~(i < j) /\ ~(j < i)
    BY <1>4, <2>1
  <2> QED
    BY <1>2, <2>2
<1> DEFINE E == {m.list[k][1] : k \in DOMAIN m.list}
           at(e) == CHOOSE k \in DOMAIN m.list : m.list[k][1] = e
<1>7. AsNode(m).children = [e \in E |-> m.list[at(e)][2]]
  BY DEF AsNode, Node
<1>8. E = {a[k] : k \in 1..n}
  BY <1>2, <1>3
<1>9. ASSUME NEW k \in 1..n
      PROVE  a[k] \in E /\ at(a[k]) = k
  <2>1. k \in DOMAIN m.list /\ m.list[k][1] = a[k]
    BY <1>2, <1>3
  <2>2. at(a[k]) \in DOMAIN m.list /\ m.list[at(a[k])][1] = a[k]
    BY <2>1
  <2> HIDE DEF at
  <2>3. at(a[k]) \in 1..n /\ a[at(a[k])] = a[k]
    BY <1>2, <1>3, <2>2
  <2> QED
    BY <1>6, <2>1, <2>3
<1> HIDE DEF E, at
<1>10. ASSUME NEW k \in 1..n PROVE AsNode(m).children[a[k]] = m.list[k][2]
  BY <1>7, <1>9
<1>11. DOMAIN AsNode(m).children = E
  BY <1>7
<1> QED
  BY <1>4, <1>5, <1>8, <1>10, <1>11 DEF n, a

LEMMA OneList ==
    ASSUME NEW x \in Lists, NEW y \in Lists, EdgesAscend(x.list), EdgesAscend(y.list),
           AsNode(x) = AsNode(y)
    PROVE  x = y
<1> DEFINE n == Len(x.list)
           m == Len(y.list)
           a == EdgesOf(x)
           b == EdgesOf(y)
<1>1. /\ Ascends(a, n) /\ DOMAIN AsNode(x).children = {a[k] : k \in 1..n}
      /\ \A k \in 1..n : /\ x.list[k] = <<a[k], x.list[k][2]>>
                         /\ AsNode(x).children[a[k]] = x.list[k][2]
  BY ListEdges
<1>2. /\ Ascends(b, m) /\ DOMAIN AsNode(y).children = {b[k] : k \in 1..m}
      /\ \A k \in 1..m : /\ y.list[k] = <<b[k], y.list[k][2]>>
                         /\ AsNode(y).children[b[k]] = y.list[k][2]
  BY ListEdges
<1>3. x.label = y.label /\ x.binding = y.binding
  BY DEF AsNode, Node
<1>4. x = [label |-> x.label, binding |-> x.binding, list |-> x.list]
      /\ y = [label |-> y.label, binding |-> y.binding, list |-> y.list]
      /\ x.list \in Seq(Byte \X Binding) /\ y.list \in Seq(Byte \X Binding)
  BY DEF Lists
<1> HIDE DEF a, b
<1>5. Same(a, n, b, m) /\ Same(b, m, a, n)
  BY <1>1, <1>2 DEF Same
<1>6. n <= m /\ (\A k \in 1..n : a[k] = b[k]) /\ m <= n
  <2>1. Ascends(a, n) /\ Ascends(b, m)
    BY <1>1, <1>2
  <2> QED
    BY <1>5, <2>1, AscendsHalf
<1>7. n = m
  BY <1>1, <1>2, <1>6 DEF Ascends
<1>8. ASSUME NEW k \in 1..n PROVE x.list[k] = y.list[k]
  <2>1. x.list[k] = <<a[k], AsNode(x).children[a[k]]>>
    BY <1>1
  <2>2. y.list[k] = <<b[k], AsNode(y).children[b[k]]>>
    BY <1>2, <1>7
  <2> QED
    BY <1>6, <2>1, <2>2
<1>9. x.list = y.list
  <2> DEFINE s == x.list
             t == y.list
             P == Byte \X Binding
  <2>1. /\ s \in Seq(P) /\ t \in Seq(P) /\ Len(s) = Len(t)
        /\ \A k \in 1..Len(s) : s[k] = t[k]
    BY <1>4, <1>7, <1>8
  <2> HIDE DEF s, t, P
  <2>2. s = t
    BY <2>1, SeqEqual
  <2> QED
    BY <2>2 DEF s, t
<1> QED
  BY <1>3, <1>4, <1>9

LEMMA DecodedIn ==
    ASSUME NEW c \in Seq(Nat), DecodeRow(c) # Refused
    PROVE  Decoded(c) \in Lists
<1> DEFINE r == Decoded(c)
           m == c[CountAt(c)]
<1>1. Readable(c) /\ WellKinded(r)
  BY DEF DecodeRow, Refused
<1>2. r = [label |-> r.label, binding |-> r.binding, list |-> r.list]
  BY DEF Decoded, Made
<1>3. r.list = [k \in 1..m |-> <<c[CountAt(c) + 2 * k - 1], c[CountAt(c) + 2 * k]>>]
  BY DEF Decoded, Made, Children
<1> HIDE DEF r
<1>4. m \in Nat
  <2> DEFINE l == c[2]
             p == c[2 + l + 1]
             q == 2 + l + 2 + p
  <2>1. /\ Len(c) >= 2 /\ 2 + l + 1 <= Len(c) /\ p \in {0, 1} /\ q <= Len(c)
        /\ CountAt(c) = q
    BY <1>1 DEF Readable, LabelEnd, Present, CountAt
  <2>2. \A k \in 1..Len(c) : c[k] \in Nat
    OBVIOUS
  <2>3. Len(c) \in Nat /\ l \in Nat
    <3>1. Len(c) \in Nat /\ 2 \in 1..Len(c)
      BY <2>1
    <3> QED
      BY <2>2, <3>1
  <2> HIDE DEF l, p
  <2>4. q \in 1..Len(c)
    BY <2>1, <2>3
  <2> QED
    BY <2>1, <2>2, <2>4, Zenon
<1>5. /\ r.label \in Seq(Byte) /\ r.binding \in Binding \cup {None}
      /\ \A k \in DOMAIN r.list : r.list[k][1] \in Byte /\ r.list[k][2] \in Binding
  BY <1>1 DEF WellKinded
<1> HIDE DEF m
<1>6. r.list \in Seq(Byte \X Binding)
  <2>1. DOMAIN r.list = 1..m
    BY <1>3
  <2>2. ASSUME NEW k \in 1..m PROVE r.list[k] \in Byte \X Binding
    <3> DEFINE e == c[CountAt(c) + 2 * k - 1]
               d == c[CountAt(c) + 2 * k]
    <3>1. r.list[k] = <<e, d>>
      BY <1>3
    <3> HIDE DEF e, d
    <3>2. r.list[k][1] = e /\ r.list[k][2] = d
      BY <3>1
    <3>3. e \in Byte /\ d \in Binding
      BY <1>5, <2>1, <3>2
    <3> QED
      BY <3>1, <3>3
  <2>3. r.list \in [1..m -> Byte \X Binding]
    <3>1. r.list = [k \in 1..m |-> r.list[k]]
      BY <1>3
    <3> QED
      BY <2>2, <3>1
  <2> DEFINE P == Byte \X Binding
  <2>4. r.list \in [1..m -> P]
    BY <2>3
  <2> HIDE DEF P
  <2>5. r.list \in Seq(P)
    <3>1. [1..m -> P] \subseteq Seq(P)
      BY <1>4, SeqDef
    <3> QED
      BY <2>4, <3>1
  <2> QED
    BY <2>5 DEF P
<1> QED
  BY <1>2, <1>5, <1>6 DEF r, Lists

(* One row per node: what any bytes are read as is a node, and no other     *)
(* list of children that RadixNode::new accepts stands for it; the identity *)
(* of a node rests on this.                                                 *)
THEOREM OneRowPerNode == Spec => []NodeHasOneRow
<1>1. OnItsWay => NodeHasOneRow
  <2> SUFFICES ASSUME OnItsWay, readAs = "node", result # Refused
               PROVE  /\ IsNode(AsNode(result[1]))
                      /\ \A m \in Records["node"] :
                           Accepts(m) /\ AsNode(m) = AsNode(result[1]) => m = result[1]
    BY DEF NodeHasOneRow
  <2> DEFINE r == Decoded(cells)
  <2>1. cells \in Seq(Nat) /\ result = DecodeRow(cells)
    BY ResultIsRead DEF Decode
  <2>2. result = <<r>> /\ Accepts(r) /\ r \in Lists
    BY <2>1, RowBack, DecodedIn
  <2>3. result[1] = r
    BY <2>2
  <2> HIDE DEF r
  <2>4. ASSUME NEW m \in Records["node"], Accepts(m), AsNode(m) = AsNode(r)
        PROVE  m = r
    <3>1. m \in Lists
      BY RecordsAssumption
    <3> QED
      BY <2>2, <2>4, <3>1, OneList DEF Accepts
  <2>5. IsNode(AsNode(r))
    <3> DEFINE n == AsNode(r)
    <3>1. /\ r.label \in Seq(Byte) /\ r.binding \in Binding \cup {None}
      BY <2>2 DEF Lists
    <3>2. /\ n = Node(n.label, n.binding, n.children) /\ n.label = r.label
          /\ n.binding = r.binding /\ n.children = [e \in Edges(n) |-> n.children[e]]
      BY DEF AsNode, Node, Edges
    <3>3. Edges(n) \subseteq Byte
      <4>1. Edges(n) = {EdgesOf(r)[k] : k \in 1..Len(r.list)}
        BY <2>2, ListEdges DEF Edges, Accepts
      <4>2. \A k \in 1..Len(r.list) : r.list[k] \in Byte \X Binding
        BY <2>2 DEF Lists
      <4>3. \A k \in 1..Len(r.list) : EdgesOf(r)[k] \in Byte
        BY <4>2 DEF EdgesOf
      <4> QED
        BY <4>1, <4>3
    <3> HIDE DEF n
    <3> QED
      BY <3>1, <3>2, <3>3 DEF IsNode, n
  <2> QED
    BY <2>3, <2>4, <2>5
<1> QED
  BY <1>1, AlwaysOnItsWay, PTL

(* Equal stretches of two texts. *)
Shifted(s, u, d, a, b) ==
    /\ s \in Seq(Byte) /\ u \in Seq(Byte) /\ d \in Nat
    /\ a \in 1..Len(u) + 1 /\ b \in 0..Len(u) /\ b >= a - 1 /\ d + b <= Len(s)
    /\ \A k \in a..b : s[d + k] = u[k]

SamePiece(s, u, d, a, b) == SubSeq(s, d + a, d + b) = SubSeq(u, a, b)

LEMMA ShiftedPieces ==
    ASSUME NEW s, NEW u, NEW d, NEW a, NEW b, Shifted(s, u, d, a, b)
    PROVE  SamePiece(s, u, d, a, b)
<1>q. /\ s \in Seq(Byte) /\ u \in Seq(Byte) /\ d \in Nat
      /\ a \in 1..Len(u) + 1 /\ b \in 0..Len(u) /\ b >= a - 1 /\ d + b <= Len(s)
      /\ \A k \in a..b : s[d + k] = u[k]
  BY Zenon DEF Shifted
<1> DEFINE i == d + a
           j == d + b
           x == SubSeq(s, i, j)
           y == SubSeq(u, a, b)
           n == (b + 1) - a
<1>1. /\ i \in Nat \ {0} /\ j \in Nat /\ i <= j + 1 /\ (j + 1) - i = n /\ n \in Nat
      /\ a \in Nat \ {0} /\ b \in Nat /\ a <= b + 1 /\ b <= Len(u)
  BY <1>q
<1>2. x \in Seq(Byte) /\ Len(x) = n /\ \A k \in 1..n : x[k] = s[i + k - 1]
  <2>1. \A k \in i..j : k \in 1..Len(s)
    BY <1>q, <1>1
  <2>2. \A k \in i..j : s[k] \in Byte
    BY <1>q, <2>1
  <2>3. i \in Int /\ j \in Int /\ j - i + 1 = n /\ (i <= j => n = j - i + 1) /\ (~(i <= j) => n = 0)
    BY <1>1
  <2>4. /\ x \in Seq(Byte) /\ Len(x) = IF i <= j THEN j - i + 1 ELSE 0
        /\ \A k \in 1..j - i + 1 : x[k] = s[i + k - 1]
    BY <1>q, <2>2, <2>3, SubSeqProperties
  <2> HIDE DEF x
  <2> QED
    BY <2>3, <2>4
<1>3. y \in Seq(Byte) /\ Len(y) = n /\ \A k \in 1..n : y[k] = u[a + k - 1]
  <2>1. \A k \in a..b : k \in 1..Len(u)
    <3>1. Len(u) \in Nat
      BY <1>q
    <3> DEFINE z == Len(u)
    <3>2. a \in Nat \ {0} /\ b \in Nat /\ b <= z /\ z \in Nat
      BY <1>1, <3>1
    <3> HIDE DEF x, y, n, z
    <3>3. ASSUME NEW k \in a..b PROVE k \in 1..z
      BY <3>2
    <3> QED
      BY <3>3 DEF z
  <2>2. \A k \in a..b : u[k] \in Byte
    BY <1>q, <2>1
  <2>3. a \in Int /\ b \in Int /\ b - a + 1 = n /\ (a <= b => n = b - a + 1) /\ (~(a <= b) => n = 0)
    BY <1>1
  <2>4. /\ y \in Seq(Byte) /\ Len(y) = IF a <= b THEN b - a + 1 ELSE 0
        /\ \A k \in 1..b - a + 1 : y[k] = u[a + k - 1]
    BY <1>q, <2>2, <2>3, SubSeqProperties
  <2> HIDE DEF y
  <2> QED
    BY <2>3, <2>4
<1> HIDE DEF x, y
<1>4. \A k \in 1..n : x[k] = y[k]
  <2> SUFFICES ASSUME NEW k \in 1..n PROVE x[k] = y[k]
    OBVIOUS
  <2>1. a + k - 1 \in a..b /\ i + k - 1 = d + (a + k - 1)
    BY <1>q, <1>1
  <2>2. s[d + (a + k - 1)] = u[a + k - 1]
    BY <1>q, <2>1
  <2>3. x[k] = s[i + k - 1] /\ y[k] = u[a + k - 1]
    BY <1>2, <1>3
  <2> QED
    BY <2>1, <2>2, <2>3
<1>5. x = y
  BY <1>2, <1>3, <1>4, SeqEqual, Zenon
<1> QED
  BY <1>5 DEF x, y, SamePiece

LEMMA SamePieces ==
    ASSUME NEW s \in Seq(Byte), NEW t \in Seq(Byte),
           NEW i \in 1..Len(t) + 1, NEW j \in 0..Len(t), j >= i - 1, j <= Len(s),
           \A k \in i..j : s[k] = t[k]
    PROVE  SubSeq(s, i, j) = SubSeq(t, i, j)
<1>1. Shifted(s, t, 0, i, j)
  BY DEF Shifted
<1>2. 0 + i = i /\ 0 + j = j
  OBVIOUS
<1>3. SamePiece(s, t, 0, i, j)
  BY <1>1, ShiftedPieces, Zenon
<1> QED
  BY <1>2, <1>3, Zenon DEF SamePiece

-----------------------------------------------------------------------------
(* The parts of a text. *)
IsPart(s, sep, i, j) ==
    /\ i \in 1..Len(s) + 1 /\ j \in 0..Len(s) /\ j >= i - 1
    /\ i = 1 \/ s[i - 1] = sep
    /\ j = Len(s) \/ s[j + 1] = sep
    /\ \A k \in i..j : s[k] # sep

PartOf(s, sep, x) ==
    \E i \in 1..Len(s) + 1, j \in 0..Len(s) : IsPart(s, sep, i, j) /\ x = SubSeq(s, i, j)

LEMMA PartsAre ==
    ASSUME NEW s, NEW sep
    PROVE  \A x : x \in Parts(s, sep) <=> PartOf(s, sep, x)
<1> DEFINE R == {r \in (1..Len(s)+1) \X (0..Len(s)) :
                    /\ r[2] >= r[1] - 1
                    /\ r[1] = 1 \/ s[r[1] - 1] = sep
                    /\ r[2] = Len(s) \/ s[r[2] + 1] = sep
                    /\ \A k \in r[1]..r[2] : s[k] # sep}
<1>1. Parts(s, sep) = {SubSeq(s, r[1], r[2]) : r \in R}
  BY DEF Parts
<1>2. ASSUME NEW i \in 1..Len(s) + 1, NEW j \in 0..Len(s), IsPart(s, sep, i, j)
      PROVE  SubSeq(s, i, j) \in Parts(s, sep)
  <2> DEFINE r == <<i, j>>
  <2>1. r \in (1..Len(s)+1) \X (0..Len(s)) /\ r[1] = i /\ r[2] = j
    OBVIOUS
  <2> HIDE DEF r
  <2>2. r \in R
    BY <1>2, <2>1 DEF IsPart
  <2> HIDE DEF R
  <2> QED
    BY <1>1, <2>1, <2>2
<1>3. ASSUME NEW x \in Parts(s, sep)
      PROVE  \E i \in 1..Len(s) + 1, j \in 0..Len(s) :
                 IsPart(s, sep, i, j) /\ x = SubSeq(s, i, j)
  <2>1. PICK r \in R : x = SubSeq(s, r[1], r[2])
    <3> HIDE DEF R
    <3> QED
      BY <1>1
  <2>2. r[1] \in 1..Len(s) + 1 /\ r[2] \in 0..Len(s)
    OBVIOUS
  <2>3. IsPart(s, sep, r[1], r[2])
    BY <2>2 DEF IsPart
  <2> QED
    BY <2>1, <2>2, <2>3
<1> QED
  BY <1>2, <1>3 DEF PartOf

(* What is between the separators of two texts put together. *)
LEMMA PartsOfTwo ==
    ASSUME NEW t \in Seq(Byte), NEW u \in Seq(Byte), NEW sep \in Byte,
           NEW s, s = t \o <<sep>> \o u
    PROVE  Parts(s, sep) \subseteq Parts(t, sep) \cup Parts(u, sep)
<1> DEFINE L == Len(t)
           M == Len(u)
<1>1. /\ s \in Seq(Byte) /\ Len(s) = L + 1 + M /\ L \in Nat /\ M \in Nat
      /\ (\A k \in 1..L : s[k] = t[k]) /\ s[L + 1] = sep
      /\ \A k \in 1..M : s[L + 1 + k] = u[k]
  OBVIOUS
<1> SUFFICES ASSUME NEW x \in Parts(s, sep)
             PROVE  x \in Parts(t, sep) \cup Parts(u, sep)
  OBVIOUS
<1>p. PartOf(s, sep, x)
  BY PartsAre
<1>q. PICK i \in 1..Len(s) + 1, j \in 0..Len(s) : IsPart(s, sep, i, j) /\ x = SubSeq(s, i, j)
  BY <1>p, Zenon DEF PartOf
<1>2. /\ j >= i - 1 /\ (i = 1 \/ s[i - 1] = sep) /\ (j = Len(s) \/ s[j + 1] = sep)
      /\ \A k \in i..j : s[k] # sep
  BY <1>q DEF IsPart
<1> HIDE DEF L, M
<1>3. CASE j <= L
  <2>1. i \in 1..L + 1 /\ j \in 0..L /\ j >= i - 1
    BY <1>1, <1>2, <1>3
  <2>2. i = 1 \/ t[i - 1] = sep
    <3>1. i = 1 \/ i - 1 \in 1..L
      BY <1>1, <2>1
    <3> QED
      BY <1>1, <1>2, <3>1
  <2>3. j = L \/ t[j + 1] = sep
    <3>1. j = L \/ j + 1 \in 1..L
      BY <1>1, <2>1
    <3>2. j = L \/ s[j + 1] = sep
      BY <1>1, <1>2, <1>3
    <3> QED
      BY <1>1, <3>1, <3>2
  <2>4. \A k \in i..j : t[k] # sep
    <3>1. \A k \in i..j : k \in 1..L
      BY <1>1, <2>1
    <3> QED
      BY <1>1, <1>2, <3>1
  <2>5. IsPart(t, sep, i, j)
    BY <2>1, <2>2, <2>3, <2>4 DEF IsPart, L
  <2>6. SubSeq(s, i, j) = SubSeq(t, i, j)
    <3>1. \A k \in i..j : s[k] = t[k]
      BY <1>1, <2>1
    <3> QED
      BY <1>1, <2>1, <3>1, SamePieces DEF L
  <2>7. SubSeq(t, i, j) \in Parts(t, sep)
    BY <2>1, <2>5, PartsAre DEF L, PartOf
  <2> QED
    BY <1>q, <2>6, <2>7
<1>4. CASE j > L
  <2>1. i >= L + 2
    <3> SUFFICES ASSUME i <= L + 1 PROVE FALSE
      BY <1>1
    <3>1. L + 1 \in i..j
      BY <1>1, <1>4
    <3> QED
      BY <1>1, <1>2, <3>1
  <2> DEFINE a == i - (L + 1)
             b == j - (L + 1)
  <2>2. a \in 1..M + 1 /\ b \in 0..M /\ b >= a - 1 /\ i = L + 1 + a /\ j = L + 1 + b
    BY <1>1, <1>2, <1>4, <2>1
  <2> HIDE DEF a, b
  <2>3. a = 1 \/ u[a - 1] = sep
    <3>1. a = 1 \/ a - 1 \in 1..M
      BY <1>1, <2>2
    <3>2. i - 1 = L + 1 + (a - 1) /\ i # 1
      BY <1>1, <2>2
    <3>3. a - 1 \in 1..M => s[i - 1] = u[a - 1]
      BY <1>1, <3>2
    <3> QED
      BY <1>2, <3>1, <3>2, <3>3
  <2>4. b = M \/ u[b + 1] = sep
    <3>1. b = M \/ b + 1 \in 1..M
      BY <1>1, <2>2
    <3>2. j + 1 = L + 1 + (b + 1) /\ (j = Len(s) => b = M)
      BY <1>1, <2>2
    <3>3. b + 1 \in 1..M => s[j + 1] = u[b + 1]
      BY <1>1, <3>2
    <3> QED
      BY <1>2, <3>1, <3>2, <3>3
  <2>5. \A k \in a..b : s[L + 1 + k] = u[k] /\ u[k] # sep
    <3> SUFFICES ASSUME NEW k \in a..b PROVE s[L + 1 + k] = u[k] /\ u[k] # sep
      OBVIOUS
    <3>1. k \in 1..M /\ L + 1 + k \in i..j
      BY <1>1, <2>2
    <3>2. s[L + 1 + k] = u[k]
      BY <1>1, <3>1
    <3>3. s[L + 1 + k] # sep
      BY <1>2, <3>1
    <3> QED
      BY <3>2, <3>3
  <2>6. IsPart(u, sep, a, b)
    BY <2>2, <2>3, <2>4, <2>5 DEF IsPart, M
  <2>7. SubSeq(s, i, j) = SubSeq(u, a, b)
    <3> DEFINE d == L + 1
    <3>1. d \in Nat /\ i = d + a /\ j = d + b
      BY <1>1, <2>2
    <3>2. \A k \in a..b : s[d + k] = u[k]
      BY <2>5
    <3>3. a \in 1..Len(u) + 1 /\ b \in 0..Len(u) /\ b >= a - 1
      BY <2>2 DEF M
    <3>4. s \in Seq(Byte) /\ d + b <= Len(s)
      BY <1>1, <2>2
    <3>5. Shifted(s, u, d, a, b)
      BY <3>1, <3>2, <3>3, <3>4 DEF Shifted
    <3>6. SamePiece(s, u, d, a, b)
      BY <3>5, ShiftedPieces, Zenon
    <3> QED
      BY <3>1, <3>6, Zenon DEF SamePiece
  <2>8. SubSeq(u, a, b) \in Parts(u, sep)
    BY <2>2, <2>6, PartsAre DEF M, PartOf
  <2> QED
    BY <1>q, <2>7, <2>8
<1> QED
  BY <1>1, <1>3, <1>4

(* Every place that is not a separator is in a part. *)
LEMMA InSomePart ==
    ASSUME NEW s \in Seq(Byte), NEW sep, NEW p \in 1..Len(s), s[p] # sep
    PROVE  \E i \in 1..p, j \in p..Len(s) : IsPart(s, sep, i, j)
<1> DEFINE I == {i \in 1..p : \A k \in i..p : s[k] # sep}
           J == {n \in 0..Len(s) - p : \A k \in p..Len(s) - n : s[k] # sep}
<1>0. Len(s) \in Nat
  OBVIOUS
<1>1. PICK i \in I : \A x \in I : i <= x
  <2>1. I \subseteq Nat /\ p \in I
    OBVIOUS
  <2> HIDE DEF I
  <2> QED
    BY <2>1, LeastElement
<1>2. PICK n \in J : \A x \in J : n <= x
  <2>1. J \subseteq Nat /\ Len(s) - p \in J
    BY <1>0
  <2> HIDE DEF J
  <2> QED
    BY <2>1, LeastElement
<1> DEFINE j == Len(s) - n
<1>3. /\ i \in 1..p /\ (\A k \in i..p : s[k] # sep)
      /\ n \in 0..Len(s) - p /\ j \in p..Len(s) /\ (\A k \in p..j : s[k] # sep)
  BY <1>0
<1>4. i = 1 \/ s[i - 1] = sep
  <2> SUFFICES ASSUME i # 1, s[i - 1] # sep PROVE FALSE
    OBVIOUS
  <2>1. i - 1 \in 1..p /\ ~(i <= i - 1)
    BY <1>3
  <2>2. \A k \in (i - 1)..p : s[k] # sep
    <3> SUFFICES ASSUME NEW k \in (i - 1)..p PROVE s[k] # sep
      OBVIOUS
    <3>1. k = i - 1 \/ k \in i..p
      BY <1>3
    <3> QED
      BY <1>3, <3>1
  <2> QED
    BY <1>1, <2>1, <2>2
<1>5. j = Len(s) \/ s[j + 1] = sep
  <2> SUFFICES ASSUME j # Len(s), s[j + 1] # sep PROVE FALSE
    OBVIOUS
  <2>1. n - 1 \in 0..Len(s) - p /\ ~(n <= n - 1) /\ Len(s) - (n - 1) = j + 1
    BY <1>0, <1>3
  <2>2. \A k \in p..Len(s) - (n - 1) : s[k] # sep
    <3> SUFFICES ASSUME NEW k \in p..j + 1 PROVE s[k] # sep
      BY <2>1
    <3>1. k = j + 1 \/ k \in p..j
      BY <1>3
    <3> QED
      BY <1>3, <3>1
  <2>3. n - 1 \in J
    BY <2>1, <2>2
  <2> QED
    BY <1>2, <2>1, <2>3
<1>6. \A k \in i..j : s[k] # sep
  <2> SUFFICES ASSUME NEW k \in i..j PROVE s[k] # sep
    OBVIOUS
  <2>1. k \in i..p \/ k \in p..j
    BY <1>3
  <2> QED
    BY <1>3, <2>1
<1> HIDE DEF j
<1>7. IsPart(s, sep, i, j)
  BY <1>0, <1>3, <1>4, <1>5, <1>6 DEF IsPart
<1> QED
  BY <1>3, <1>7

(* Names are texts without separators. *)
LEMMA NameIs ==
    ASSUME NEW x \in Name
    PROVE  /\ x \in Seq(Byte) /\ Len(x) \in 1..255
           /\ \A k \in 1..Len(x) : x[k] # Slash /\ x[k] # Nul
<1>1. x \in Seq(Byte \ {Slash, Nul}) /\ Len(x) \in 1..255
  BY NameAssumption
<1>2. \A k \in 1..Len(x) : x[k] \in Byte \ {Slash, Nul}
  BY <1>1, ElementOfSeq, Zenon
<1>3. x \in Seq(Byte)
  <2>1. Byte \ {Slash, Nul} \subseteq Byte
    OBVIOUS
  <2> QED
    BY <1>1, <2>1, SeqMonotonic
<1> QED
  BY <1>1, <1>2, <1>3

LEMMA TailIs ==
    ASSUME NEW s \in Seq(Byte), s # << >>
    PROVE  /\ Tail(s) \in Seq(Byte) /\ Len(Tail(s)) = Len(s) - 1
           /\ \A k \in 1..Len(s) - 1 : Tail(s)[k] = s[k + 1]
           /\ s = <<s[1]>> \o Tail(s)
  OBVIOUS

(* The source path of a binding is a path if it is not too long. *)
LEMMA ComposedPath ==
    ASSUME NEW scope \in Seq(Byte), NEW sub \in Seq(Byte),
           ValidPath(scope), ValidRelative(sub)
    PROVE  ComposedLen(scope, sub) <= PathMaxBytes <=> ValidPath(Compose(scope, sub))
<1>0. /\ Len(scope) \in 1..PathMaxBytes /\ scope[1] = Slash /\ scope # << >>
      /\ PathMaxBytes \in Nat /\ Len(sub) \in Nat /\ Slash \in Byte
      /\ (sub # << >> => Parts(sub, Slash) \subseteq Name)
      /\ (Len(scope) > 1 => Parts(Tail(scope), Slash) \subseteq Name)
  <2>1. Len(scope) \in 1..PathMaxBytes
    BY DEF ValidPath
  <2>2. scope # << >>
    BY <2>1
  <2> QED
    BY <2>1, <2>2, PathMaxAssumption DEF ValidPath, ValidRelative, Byte, Slash
<1>1. CASE sub = << >>
  BY <1>0, <1>1 DEF ComposedLen, Compose
<1>2. CASE sub # << >> /\ scope = <<Slash>>
  <2> DEFINE s == <<Slash>> \o sub
  <2>1. /\ Compose(scope, sub) = s /\ ComposedLen(scope, sub) = 1 + Len(sub)
    BY <1>2 DEF Compose, ComposedLen
  <2>2. /\ Len(s) = 1 + Len(sub) /\ s[1] = Slash /\ Tail(s) = sub /\ Len(sub) >= 1
    BY <1>0, <1>2
  <2> HIDE DEF s
  <2>3. Parts(Tail(s), Slash) \subseteq Name /\ Len(s) > 1
    <3>1. Len(sub) \in Nat /\ Len(sub) >= 1 /\ Len(s) = 1 + Len(sub)
      BY <1>0, <2>2
    <3>2. Parts(Tail(s), Slash) \subseteq Name
      BY <1>0, <1>2, <2>2, Zenon
    <3>3. Len(s) > 1
      BY <3>1
    <3> QED
      BY <3>2, <3>3
  <2>4. Len(s) <= PathMaxBytes <=> ValidPath(s)
    <3>1. Len(s) <= PathMaxBytes <=> Len(s) \in 1..PathMaxBytes
      BY <1>0, <2>2, <2>3
    <3> QED
      BY <2>2, <2>3, <3>1 DEF ValidPath
  <2> QED
    BY <2>1, <2>2, <2>4
<1>3. CASE sub # << >> /\ scope # <<Slash>>
  <2> DEFINE t == Tail(scope)
             s == scope \o <<Slash>> \o sub
             u == t \o <<Slash>> \o sub
  <2>1. Compose(scope, sub) = s /\ ComposedLen(scope, sub) = Len(scope) + 1 + Len(sub)
    BY <1>3 DEF Compose, ComposedLen
  <2>2. /\ t \in Seq(Byte) /\ Len(t) = Len(scope) - 1 /\ scope = <<Slash>> \o t
    BY <1>0, TailIs
  <2>3. Len(scope) > 1
    <3>1. Len(scope) # 1
      <4> SUFFICES ASSUME Len(scope) = 1 PROVE FALSE
        OBVIOUS
      <4>1. scope = <<scope[1]>>
        OBVIOUS
      <4> QED
        BY <1>0, <1>3, <4>1
    <3>2. Len(scope) \in 1..PathMaxBytes
      BY <1>0
    <3>3. \A n \in 1..PathMaxBytes : n # 1 => n > 1
      BY <1>0
    <3> QED
      BY <3>1, <3>2, <3>3, Zenon
  <2>4. /\ s \in Seq(Byte) /\ Len(s) = Len(scope) + 1 + Len(sub)
        /\ \A k \in 1..Len(scope) : s[k] = scope[k]
    BY <1>0
  <2>5. Tail(s) = u
    <3> HIDE DEF t
    <3>1. /\ u \in Seq(Byte) /\ Len(u) = Len(t) + 1 + Len(sub)
      BY <1>0, <2>2
    <3>2. s = <<Slash>> \o u
      <4>1. <<Slash>> \in Seq(Byte)
        BY <1>0
      <4>2. /\ (<<Slash>> \o t) \o <<Slash>> = <<Slash>> \o (t \o <<Slash>>)
            /\ (t \o <<Slash>>) \in Seq(Byte)
        BY <2>2, <4>1, ConcatAssociative, ConcatProperties
      <4>3. (<<Slash>> \o (t \o <<Slash>>)) \o sub = <<Slash>> \o ((t \o <<Slash>>) \o sub)
        BY <4>1, <4>2, ConcatAssociative, SMTT(20)
      <4> QED
        BY <2>2, <4>2, <4>3
    <3> HIDE DEF s, u
    <3> QED
      BY <1>0, <3>1, <3>2
  <2>6. Parts(u, Slash) \subseteq Parts(t, Slash) \cup Parts(sub, Slash)
    <3> HIDE DEF t, s
    <3>1. u = t \o <<Slash>> \o sub /\ t \in Seq(Byte) /\ Slash \in Byte
      BY <1>0, <2>2
    <3> HIDE DEF u
    <3> QED
      BY <3>1, PartsOfTwo
  <2>7. Parts(Tail(s), Slash) \subseteq Name
    BY <1>0, <1>3, <2>3, <2>5, <2>6
  <2>8. s[1] = Slash /\ Len(s) >= 1
    BY <1>0, <2>4
  <2> HIDE DEF s, u, t
  <2> QED
    BY <1>0, <2>1, <2>4, <2>7, <2>8 DEF ValidPath
<1> QED
  BY <1>1, <1>2, <1>3


(* A binding whose parts are accepted is accepted exactly if the source     *)
(* path it leads to is a path, although new_with_policy only adds up its    *)
(* length.                                                                  *)
THEOREM BindingsCompose == Spec => []ComposedIsPath
<1>1. OnItsWay => ComposedIsPath
  <2> SUFFICES ASSUME OnItsWay, kind = "binding", pc # "new", PartsAccepted(record)
               PROVE  pc # "refused" <=>
                      ValidPath(Compose(record.source.scope_path, record.source_subpath))
    BY DEF ComposedIsPath
  <2> DEFINE scope == record.source.scope_path
             sub == record.source_subpath
  <2>1. scope \in Seq(Byte) /\ sub \in Seq(Byte)
    <3>1. record \in Mounts
      <4>1. Records["binding"] \subseteq Mounts
        BY RecordsAssumption
      <4> QED
        BY <4>1 DEF OnItsWay
    <3> QED
      BY <3>1 DEF Mounts, Sources
  <2>2. ValidPath(scope) /\ ValidRelative(sub)
    BY DEF PartsAccepted, NewSource
  <2>3. New(kind, record) <=> ComposedLen(scope, sub) <= PathMaxBytes
    BY DEF New, NewBinding, PartsAccepted
  <2>4. pc # "refused" <=> New(kind, record)
    BY DEF OnItsWay
  <2> HIDE DEF scope, sub
  <2>5. ComposedLen(scope, sub) <= PathMaxBytes <=> ValidPath(Compose(scope, sub))
    BY <2>1, <2>2, ComposedPath
  <2>6. pc # "refused" <=> ValidPath(Compose(scope, sub))
    BY <2>3, <2>4, <2>5
  <2> QED
    BY <2>6 DEF scope, sub
<1> QED
  BY <1>1, AlwaysOnItsWay, PTL

-----------------------------------------------------------------------------
(* validate_scope and validate_absolute_path accept the same texts, up to   *)
(* the number of components.                                                *)
LEMMA PartIs ==
    ASSUME NEW t \in Seq(Byte), NEW c \in Parts(t, Slash)
    PROVE  /\ c \in Seq(Byte) /\ Len(c) \in Nat
           /\ \A k \in 1..Len(c) : c[k] # Slash /\ \E m \in 1..Len(t) : c[k] = t[m]
<1>1. PartOf(t, Slash, c)
  BY PartsAre
<1>2. PICK i \in 1..Len(t) + 1, j \in 0..Len(t) : IsPart(t, Slash, i, j) /\ c = SubSeq(t, i, j)
  BY <1>1, Zenon DEF PartOf
<1>3. j >= i - 1 /\ \A k \in i..j : t[k] # Slash
  BY <1>2 DEF IsPart
<1>4. /\ SubSeq(t, i, j) \in Seq(Byte) /\ Len(SubSeq(t, i, j)) = (j + 1) - i
      /\ \A k \in 1..(j + 1) - i : SubSeq(t, i, j)[k] = t[(i + k) - 1]
  BY <1>3
<1>5. /\ c \in Seq(Byte) /\ Len(c) = (j + 1) - i
      /\ \A k \in 1..(j + 1) - i : c[k] = t[(i + k) - 1]
  BY <1>2, <1>4
<1>6. ASSUME NEW k \in 1..(j + 1) - i
      PROVE  c[k] # Slash /\ \E m \in 1..Len(t) : c[k] = t[m]
  <2>1. (i + k) - 1 \in i..j /\ (i + k) - 1 \in 1..Len(t)
    BY <1>3
  <2>2. c[k] = t[(i + k) - 1]
    BY <1>5
  <2> QED
    BY <1>3, <2>1, <2>2
<1> QED
  BY <1>5, <1>6

LEMMA NulIsInAPart ==
    ASSUME NEW t \in Seq(Byte), NEW p \in 1..Len(t), t[p] = Nul
    PROVE  \E c \in Parts(t, Slash) : \E k \in 1..Len(c) : c[k] = Nul
<1>1. t[p] # Slash
  BY DEF Nul, Slash
<1>2. PICK i \in 1..p, j \in p..Len(t) : IsPart(t, Slash, i, j)
  BY <1>1, InSomePart
<1> DEFINE c == SubSeq(t, i, j)
<1>3. i \in 1..Len(t) + 1 /\ j \in 0..Len(t)
  OBVIOUS
<1>4. c \in Parts(t, Slash)
  BY <1>2, <1>3, PartsAre DEF PartOf
<1>5. /\ Len(c) = (j + 1) - i
      /\ \A k \in 1..(j + 1) - i : c[k] = t[(i + k) - 1]
  BY <1>3
<1>6. (p + 1) - i \in 1..(j + 1) - i /\ (i + ((p + 1) - i)) - 1 = p
  OBVIOUS
<1> HIDE DEF c
<1>7. c[(p + 1) - i] = Nul
  BY <1>5, <1>6
<1> QED
  BY <1>4, <1>5, <1>6, <1>7

LEMMA EmptyBehindASlash ==
    ASSUME NEW t \in Seq(Byte), t = << >> \/ t[Len(t)] = Slash
    PROVE  << >> \in Parts(t, Slash)
<1>1. Len(t) \in Nat /\ Len(t) + 1 \in 1..Len(t) + 1 /\ Len(t) \in 0..Len(t)
  OBVIOUS
<1>2. IsPart(t, Slash, Len(t) + 1, Len(t))
  BY <1>1 DEF IsPart
<1>3. SubSeq(t, Len(t) + 1, Len(t)) = << >>
  BY <1>1
<1>4. PartOf(t, Slash, << >>)
  <2> DEFINE i == Len(t) + 1
             j == Len(t)
  <2>1. i \in 1..Len(t) + 1 /\ j \in 0..Len(t)
    BY <1>1
  <2>2. IsPart(t, Slash, i, j) /\ << >> = SubSeq(t, i, j)
    BY <1>2, <1>3
  <2> HIDE DEF i, j
  <2> QED
    BY <2>1, <2>2, Zenon DEF PartOf
<1> QED
  BY <1>4, PartsAre

LEMMA SameScopes ==
    ASSUME NEW s \in Seq(Byte),
           Len(s) > 1 => \A c \in Parts(Tail(s), Slash) : c \in Name <=> ValidName(c),
           MaxComponents \in Nat, NameMaxBytes \in Nat
    PROVE  ValidScope(s) <=> ValidPath(s) /\ Components(s) <= MaxComponents
<1>0. Len(s) \in Nat /\ PathMaxBytes \in Nat /\ DOMAIN s = 1..Len(s)
  BY PathMaxAssumption
<1>1. CASE s = << >>
  BY <1>1 DEF ValidScope, ValidPath
<1>2. CASE Len(s) = 1
  <2>1. s # << >> /\ DOMAIN s = {1} /\ ~(Len(s) > 1)
    BY <1>0, <1>2
  <2>2. s[1] = Slash => Nul \notin ToSet(s)
    <3> SUFFICES ASSUME s[1] = Slash PROVE Nul \notin {s[k] : k \in DOMAIN s}
      BY DEF ToSet
    <3> QED
      BY <2>1 DEF Slash, Nul
  <2>3. Components(s) = 0 /\ 0 <= MaxComponents
    BY <1>2 DEF Components
  <2>4. Len(s) <= PathMaxBytes <=> Len(s) \in 1..PathMaxBytes
    BY <1>0, <1>2
  <2> QED
    BY <2>1, <2>2, <2>3, <2>4 DEF ValidScope, ValidPath
<1>3. CASE Len(s) > 1
  <2> DEFINE t == Tail(s)
  <2>1. s # << >>
    BY <1>3
  <2>2. /\ t \in Seq(Byte) /\ Len(t) = Len(s) - 1 /\ \A k \in 1..Len(s) - 1 : t[k] = s[k + 1]
    <3>1. /\ Tail(s) \in Seq(Byte) /\ Len(Tail(s)) = Len(s) - 1
          /\ \A k \in 1..Len(s) - 1 : Tail(s)[k] = s[k + 1]
      BY <2>1, TailIs
    <3> QED
      BY <3>1, Zenon
  <2>3. Components(s) = Slashes(s)
    <3>1. \A n \in Nat : n > 1 => n # 1
      OBVIOUS
    <3>2. Len(s) # 1
      BY <1>0, <1>3, <3>1, Zenon
    <3> QED
      BY <3>2 DEF Components
  <2>4. Len(s) <= PathMaxBytes <=> Len(s) \in 1..PathMaxBytes
    BY <1>0, <1>3
  <2>5. \A c \in Parts(t, Slash) : c \in Name <=> ValidName(c)
    BY <1>3
  <2> HIDE DEF t
  <2>6. ASSUME ValidScope(s) PROVE ValidPath(s) /\ Components(s) <= MaxComponents
    <3>1. /\ s[1] = Slash /\ Len(s) <= PathMaxBytes /\ Slashes(s) <= MaxComponents
          /\ \A k \in 1..Len(s) : s[k] # Nul
          /\ \A c \in Parts(t, Slash) : /\ c # << >> /\ c # <<Dot>> /\ c # <<Dot, Dot>>
                                        /\ Len(c) <= NameMaxBytes
      BY <1>0, <1>3, <2>6 DEF ValidScope, FewParts, ToSet, t
    <3>2. ASSUME NEW c \in Parts(t, Slash) PROVE c \in Name
      <4>1. /\ c \in Seq(Byte) /\ Len(c) \in Nat
            /\ \A k \in 1..Len(c) : c[k] # Slash /\ \E m \in 1..Len(t) : c[k] = t[m]
        BY <2>2, PartIs
      <4>2. \A m \in 1..Len(t) : t[m] # Nul
        <5> SUFFICES ASSUME NEW m \in 1..Len(t) PROVE t[m] # Nul
          OBVIOUS
        <5>1. m \in 1..Len(s) - 1 /\ m + 1 \in 1..Len(s)
          BY <1>0, <2>2
        <5> QED
          BY <2>2, <3>1, <5>1
      <4>3. \A k \in 1..Len(c) : c[k] # Slash /\ c[k] # Nul
        BY <4>1, <4>2
      <4>4. DOMAIN c = 1..Len(c) /\ Len(c) # 0
        BY <3>1, <4>1
      <4>5. Len(c) \in 1..NameMaxBytes
        BY <3>1, <4>1, <4>4
      <4>6. ValidName(c)
        BY <3>1, <4>3, <4>4, <4>5 DEF ValidName
      <4> QED
        BY <2>5, <4>6
    <3> QED
      BY <2>3, <2>4, <3>1, <3>2 DEF ValidPath, t
  <2>7. ASSUME ValidPath(s), Components(s) <= MaxComponents PROVE ValidScope(s)
    <3>1. /\ s[1] = Slash /\ Len(s) <= PathMaxBytes /\ FewParts(s)
      BY <2>3, <2>4, <2>7 DEF ValidPath, FewParts
    <3>2. \A c \in Parts(t, Slash) : ValidName(c)
      BY <1>3, <2>5, <2>7 DEF ValidPath, t
    <3>3. \A c \in Parts(t, Slash) :
              /\ c \in Seq(Byte) /\ c # << >> /\ c # <<Dot>> /\ c # <<Dot, Dot>>
              /\ Len(c) <= NameMaxBytes
              /\ \A k \in 1..Len(c) : c[k] # Nul
      <4> SUFFICES ASSUME NEW c \in Parts(t, Slash)
                   PROVE  /\ c \in Seq(Byte) /\ c # << >> /\ c # <<Dot>> /\ c # <<Dot, Dot>>
                          /\ Len(c) <= NameMaxBytes
                          /\ \A k \in 1..Len(c) : c[k] # Nul
        OBVIOUS
      <4>1. c \in Seq(Byte)
        BY <2>2, PartIs
      <4>2. /\ Len(c) \in 1..NameMaxBytes /\ c # <<Dot>> /\ c # <<Dot, Dot>>
            /\ \A k \in DOMAIN c : c[k] # Nul
        BY <3>2 DEF ValidName
      <4>3. c # << >> /\ DOMAIN c = 1..Len(c) /\ Len(c) <= NameMaxBytes
        BY <4>1, <4>2
      <4> QED
        BY <4>1, <4>2, <4>3
    <3>4. \A m \in 1..Len(t) : t[m] # Nul
      BY <2>2, <3>3, NulIsInAPart
    <3>5. Nul \notin ToSet(s)
      <4> SUFFICES ASSUME NEW k \in 1..Len(s), s[k] = Nul PROVE FALSE
        BY <1>0 DEF ToSet
      <4>1. k # 1
        BY <3>1 DEF Slash, Nul
      <4>2. k - 1 \in 1..Len(t) /\ k - 1 \in 1..Len(s) - 1 /\ (k - 1) + 1 = k
        BY <1>0, <2>2, <4>1
      <4>3. t[k - 1] = s[(k - 1) + 1]
        BY <2>2, <4>2
      <4> QED
        BY <3>4, <4>2, <4>3
    <3>6. Last(s) # Slash
      <4>1. ~(t = << >> \/ t[Len(t)] = Slash)
        BY <2>2, <3>3, EmptyBehindASlash
      <4>2. Len(t) \in 1..Len(s) - 1 /\ Len(t) + 1 = Len(s)
        BY <1>0, <1>3, <2>2
      <4>3. t[Len(t)] = s[Len(t) + 1]
        BY <2>2, <4>2
      <4> QED
        BY <4>1, <4>2, <4>3 DEF Last
    <3> QED
      BY <2>1, <3>1, <3>3, <3>5, <3>6 DEF ValidScope, t
  <2> QED
    BY <2>6, <2>7
<1>4. s = << >> \/ Len(s) = 1 \/ Len(s) > 1
  BY <1>0
<1> QED
  BY <1>1, <1>2, <1>3, <1>4

(* The scope of a serving descriptor is accepted exactly if it is a path of *)
(* the namespace of few enough components: validate_scope, written apart    *)
(* from validate_absolute_path, differs in nothing else.                    *)
THEOREM ScopesArePaths == Spec => []ScopeIsPath
<1>1. OnItsWay => ScopeIsPath
  <2> SUFFICES ASSUME OnItsWay, kind = "descriptor", pc # "new",
                      record.instance_uuid \in Uuid
               PROVE  pc # "refused" <=> /\ ValidPath(record.scope)
                                         /\ Components(record.scope) <= MaxComponents
    BY DEF ScopeIsPath
  <2> DEFINE s == record.scope
  <2>1. record \in Records["descriptor"]
    BY DEF OnItsWay
  <2>2. s \in Seq(Byte)
    <3>1. Records["descriptor"] \subseteq Serving
      BY RecordsAssumption
    <3> QED
      BY <2>1, <3>1 DEF Serving
  <2>3. /\ Len(s) > 1 => \A c \in Parts(Tail(s), Slash) : c \in Name <=> ValidName(c)
        /\ MaxComponents \in Nat /\ NameMaxBytes \in Nat
    BY <2>1, ScopesAssumption
  <2>4. New(kind, record) <=> ValidScope(s)
    BY DEF New, NewDescriptor
  <2>5. pc # "refused" <=> New(kind, record)
    BY DEF OnItsWay
  <2> HIDE DEF s
  <2>6. ValidScope(s) <=> ValidPath(s) /\ Components(s) <= MaxComponents
    BY <2>2, <2>3, SameScopes
  <2>7. pc # "refused" <=> ValidPath(s) /\ Components(s) <= MaxComponents
    BY <2>4, <2>5, <2>6
  <2> QED
    BY <2>7 DEF s
<1> QED
  BY <1>1, AlwaysOnItsWay, PTL

-----------------------------------------------------------------------------
(* What is written is read.  Where a text stands in the cells. *)
Joined(c, t, v) ==
    /\ c \in Seq(Nat) /\ Len(c) = Len(t) + Len(v)
    /\ \A k \in 1..Len(t) : c[k] = t[k]
    /\ \A k \in 1..Len(v) : c[Len(t) + k] = v[k]

Standing(c, u, w, v) ==
    /\ c \in Seq(Nat) /\ Len(c) = (Len(u) + Len(w)) + Len(v)
    /\ \A k \in 1..Len(u) : c[k] = u[k]
    /\ \A k \in 1..Len(w) : c[Len(u) + k] = w[k]
    /\ \A k \in 1..Len(v) : c[(Len(u) + Len(w)) + k] = v[k]

LEMMA JoinIs ==
    ASSUME NEW t \in Seq(Nat), NEW v \in Seq(Nat)
    PROVE  Joined(t \o v, t, v)
  BY DEF Joined

LEMMA StandsAt ==
    ASSUME NEW u \in Seq(Nat), NEW w \in Seq(Nat), NEW v \in Seq(Nat)
    PROVE  Standing((u \o w) \o v, u, w, v)
<1> DEFINE t == u \o w
           c == t \o v
<1>1. Joined(t, u, w)
  BY JoinIs
<1>2. t \in Seq(Nat)
  OBVIOUS
<1> HIDE DEF t
<1>3. Joined(c, t, v)
  BY <1>2, JoinIs
<1> HIDE DEF c
<1>4. Len(t) = Len(u) + Len(w) /\ Len(u) \in Nat /\ Len(w) \in Nat
  BY <1>1 DEF Joined
<1>5. \A k \in 1..Len(u) : c[k] = u[k]
  <2> SUFFICES ASSUME NEW k \in 1..Len(u) PROVE c[k] = u[k]
    OBVIOUS
  <2>1. k \in 1..Len(t)
    BY <1>4
  <2> QED
    BY <1>1, <1>3, <2>1, Zenon DEF Joined
<1>6. \A k \in 1..Len(w) : c[Len(u) + k] = w[k]
  <2> SUFFICES ASSUME NEW k \in 1..Len(w) PROVE c[Len(u) + k] = w[k]
    OBVIOUS
  <2>1. Len(u) + k \in 1..Len(t)
    BY <1>4
  <2> QED
    BY <1>1, <1>3, <2>1, Zenon DEF Joined
<1>7. Standing(c, u, w, v)
  BY <1>3, <1>4, <1>5, <1>6, Zenon DEF Joined, Standing
<1> QED
  BY <1>7 DEF c, t

(* x lies in c from a to b. *)
LiesAt(c, x, a, b) ==
    /\ c \in Seq(Nat) /\ x \in Seq(Nat) /\ a \in Nat \ {0} /\ b \in Nat
    /\ b + 1 = a + Len(x) /\ b <= Len(c)
    /\ \A k \in 1..Len(x) : c[(a + k) - 1] = x[k]

LEMMA CutOut ==
    ASSUME NEW c, NEW x, NEW a, NEW b, LiesAt(c, x, a, b)
    PROVE  SubSeq(c, a, b) = x
<1> USE DEF LiesAt
<1> DEFINE s == SubSeq(c, a, b)
<1>1. Len(x) \in Nat /\ a <= b + 1 /\ (b + 1) - a = Len(x)
  OBVIOUS
<1>2. /\ s \in Seq(Nat) /\ Len(s) = (b + 1) - a
      /\ \A k \in 1..(b + 1) - a : s[k] = c[(a + k) - 1]
  BY <1>1, PieceIs
<1> HIDE DEF s
<1>3. Len(s) = Len(x) /\ \A k \in 1..Len(x) : s[k] = x[k]
  BY <1>1, <1>2
<1>4. s = x
  BY <1>2, <1>3, SeqEqual
<1> QED
  BY <1>4 DEF s

(* An item as it is written, and how it is taken again. *)
Spelt(item, x) == IF item = "cell" THEN x ELSE Field(x)

Fits(item, x) == /\ item = "cell" => Len(x) = 1
                 /\ item = "optional" => Len(x) <= 1

FieldOf(w, x) == /\ w \in Seq(Nat) /\ Len(w) = Len(x) + 1 /\ w[1] = Len(x)
                 /\ \A k \in 1..Len(x) : w[k + 1] = x[k]

LEMMA FieldIs == ASSUME NEW x \in Seq(Nat) PROVE FieldOf(Field(x), x)
<1>1. Len(x) \in Nat
  OBVIOUS
<1> QED
  BY <1>1 DEF Field, FieldOf

ItemRead(c, item, x, u, w) ==
    /\ w \in Seq(Nat) /\ Len(w) \in Nat \ {0}
    /\ WidthOf(item, c, Len(u) + 1) = Len(w)
    /\ PieceOf(c, item, Len(u) + 1, (Len(u) + Len(w)) + 1) = x

LEMMA ItemSpelt ==
    ASSUME NEW item \in ItemKinds, NEW x \in Seq(Nat), Fits(item, x),
           NEW u \in Seq(Nat), NEW v \in Seq(Nat),
           NEW w, w = Spelt(item, x), NEW c, c = (u \o w) \o v
    PROVE  ItemRead(c, item, x, u, w)
<1> USE DEF ItemRead
<1> DEFINE a == Len(u) + 1
           b == (Len(u) + Len(w)) + 1
<1>0. Len(u) \in Nat /\ Len(x) \in Nat /\ Len(v) \in Nat
  OBVIOUS
<1>1. CASE item = "cell"
  <2>1. w = x /\ Len(x) = 1
    BY <1>1 DEF Spelt, Fits
  <2>2. /\ c \in Seq(Nat) /\ Len(c) = (Len(u) + Len(w)) + Len(v)
        /\ \A k \in 1..Len(w) : c[Len(u) + k] = w[k]
    <3>1. w \in Seq(Nat)
      BY <2>1
    <3>2. Standing(c, u, w, v)
      BY <3>1, StandsAt
    <3> QED
      BY <3>2 DEF Standing
  <2>3. a <= Len(c) /\ Len(w) = 1
    BY <1>0, <2>1, <2>2
  <2>4. WidthOf(item, c, a) = 1
    BY <1>1, <2>3 DEF WidthOf
  <2>5. SubSeq(c, a, b - 1) = x
    <3>1. /\ a \in Nat \ {0} /\ b - 1 \in Nat /\ (b - 1) + 1 = a + Len(x) /\ b - 1 <= Len(c)
          /\ \A k \in 1..Len(x) : (a + k) - 1 = Len(u) + k
      BY <1>0, <2>1, <2>2
    <3>2. \A k \in 1..Len(x) : c[(a + k) - 1] = x[k]
      BY <2>1, <2>2, <3>1
    <3> HIDE DEF a, b
    <3> QED
      <4>1. LiesAt(c, x, a, b - 1)
        BY <2>2, <3>1, <3>2, Zenon DEF LiesAt
      <4> QED
        BY <4>1, CutOut, Zenon
  <2> QED
    <3>1. PieceOf(c, item, a, b) = x
      BY <1>1, <2>5 DEF PieceOf
    <3>2. w \in Seq(Nat) /\ Len(w) \in Nat \ {0} /\ WidthOf(item, c, a) = Len(w)
      BY <2>1, <2>4
    <3> QED
      BY <3>1, <3>2
<1>2. CASE item # "cell"
  <2>1. w = Field(x)
    BY <1>2 DEF Spelt
  <2>2. /\ w \in Seq(Nat) /\ Len(w) = Len(x) + 1 /\ w[1] = Len(x)
        /\ \A k \in 1..Len(x) : w[k + 1] = x[k]
    <3>1. FieldOf(w, x)
      BY <2>1, FieldIs, Zenon
    <3> QED
      BY <3>1 DEF FieldOf
  <2>3. /\ c \in Seq(Nat) /\ Len(c) = (Len(u) + Len(w)) + Len(v)
        /\ \A k \in 1..Len(w) : c[Len(u) + k] = w[k]
    <3>1. Standing(c, u, w, v)
      BY <2>2, StandsAt, Zenon
    <3> QED
      BY <3>1 DEF Standing
  <2>4. a <= Len(c) /\ c[a] = Len(x) /\ ~(a > Len(c))
    <3>1. 1 \in 1..Len(w)
      BY <1>0, <2>2
    <3>2. c[Len(u) + 1] = w[1]
      BY <2>3, <3>1
    <3>3. a <= Len(c) /\ ~(a > Len(c))
      BY <1>0, <2>2, <2>3
    <3> QED
      BY <2>2, <3>2, <3>3
  <2>5. WidthOf(item, c, a) = Len(w)
    <3>1. CASE item = "field"
      <4>1. WidthOf(item, c, a) = 1 + c[a]
        BY <2>4, <3>1 DEF WidthOf
      <4> HIDE DEF a
      <4> QED
        BY <1>0, <2>2, <2>4, <4>1
    <3>2. CASE item = "optional"
      <4>1. WidthOf(item, c, a) = IF c[a] = 1 THEN 2 ELSE 1
        BY <2>4, <3>2 DEF WidthOf
      <4>2. Len(x) \in {0, 1}
        <5>1. Len(x) <= 1
          BY <3>2, Zenon DEF Fits
        <5>2. \A n \in Nat : n <= 1 => n \in {0, 1}
          OBVIOUS
        <5> QED
          BY <1>0, <5>1, <5>2, Zenon
      <4> HIDE DEF a
      <4>3. \A n \in {0, 1} : (IF n = 1 THEN 2 ELSE 1) = n + 1
        OBVIOUS
      <4> QED
        BY <2>2, <2>4, <4>1, <4>2, <4>3, Zenon
    <3> QED
      BY <1>2, <3>1, <3>2 DEF ItemKinds
  <2>6. SubSeq(c, a + 1, b - 1) = x
    <3>1. /\ a + 1 \in Nat \ {0} /\ b - 1 \in Nat /\ (b - 1) + 1 = (a + 1) + Len(x)
          /\ b - 1 <= Len(c)
          /\ \A k \in 1..Len(x) : ((a + 1) + k) - 1 = Len(u) + (k + 1) /\ k + 1 \in 1..Len(w)
      BY <1>0, <2>2, <2>3
    <3>2. \A k \in 1..Len(x) : c[((a + 1) + k) - 1] = x[k]
      BY <2>2, <2>3, <3>1
    <3> HIDE DEF a, b
    <3> QED
      <4>1. LiesAt(c, x, a + 1, b - 1)
        BY <2>3, <3>1, <3>2, Zenon DEF LiesAt
      <4> QED
        BY <4>1, CutOut, Zenon
  <2>7. Len(w) \in Nat \ {0}
    BY <1>0, <2>2
  <2> QED
    <3>1. PieceOf(c, item, a, b) = x
      BY <1>2, <2>6 DEF PieceOf
    <3> QED
      BY <2>2, <2>5, <2>7, <3>1
<1> QED
  BY <1>1, <1>2

(* All items of a record: growing[k] is what is written when k - 1 are.      *)
Spells(c, items, xs, growing) ==
    /\ growing[1] \in Seq(Nat) /\ Len(growing[1]) = 1
    /\ growing[Len(items) + 1] = c
    /\ \A k \in 1..Len(items) :
         /\ xs[k] \in Seq(Nat) /\ Fits(items[k], xs[k])
         /\ growing[k + 1] = growing[k] \o Spelt(items[k], xs[k])

IsRead(c, items, xs, first) ==
    /\ c \in Seq(Nat) /\ c # << >> /\ c[1] = first[1] /\ Finished(Scan(c, items), c)
    /\ \A k \in 1..Len(items) : Scan(c, items).pieces[k] = xs[k]

LEMMA SpeltIsRead ==
    ASSUME NEW items \in Seq(ItemKinds), NEW c, NEW xs, NEW growing,
           Spells(c, items, xs, growing)
    PROVE  IsRead(c, items, xs, growing[1])
<1> DEFINE n == Len(items)
           g == growing
           W(k) == Spelt(items[k], xs[k])
<1>0. n \in Nat /\ \A k \in 1..n : items[k] \in ItemKinds
  OBVIOUS
<1>1. /\ g[1] \in Seq(Nat) /\ Len(g[1]) = 1 /\ g[n + 1] = c
      /\ \A k \in 1..n : xs[k] \in Seq(Nat) /\ Fits(items[k], xs[k]) /\ g[k + 1] = g[k] \o W(k)
  BY DEF Spells
<1> HIDE DEF g, n
<1>2. ASSUME NEW k \in 1..n PROVE W(k) \in Seq(Nat)
  <2>1. xs[k] \in Seq(Nat)
    BY <1>1
  <2>2. Field(xs[k]) \in Seq(Nat)
    BY <2>1, FieldIn
  <2> QED
    BY <2>1, <2>2 DEF Spelt
<1> HIDE DEF W
<1>3. \A k \in 1..n + 1 : g[k] \in Seq(Nat)
  <2> DEFINE S == {j \in 0..n : g[j + 1] \in Seq(Nat)}
  <2>1. 0 \in S
    BY <1>0, <1>1
  <2>2. \A j \in 1..n : j - 1 \in S => j \in S
    <3> SUFFICES ASSUME NEW j \in 1..n, j - 1 \in S PROVE j \in S
      OBVIOUS
    <3>1. (j - 1) + 1 = j /\ j \in 0..n
      BY <1>0
    <3>2. g[j] \in Seq(Nat)
      BY <3>1
    <3>3. g[j + 1] = g[j] \o W(j) /\ W(j) \in Seq(Nat)
      BY <1>1, <1>2
    <3>4. g[j + 1] \in Seq(Nat)
      BY <3>2, <3>3, JoinIn
    <3> QED
      BY <3>1, <3>4
  <2> HIDE DEF S
  <2>3. \A j \in 0..n : j \in S
    BY <1>0, <2>1, <2>2, StepByStep
  <2> SUFFICES ASSUME NEW k \in 1..n + 1 PROVE g[k] \in Seq(Nat)
    OBVIOUS
  <2>4. k - 1 \in 0..n /\ (k - 1) + 1 = k
    BY <1>0
  <2>5. k - 1 \in S
    BY <2>3, <2>4
  <2> QED
    BY <2>4, <2>5 DEF S
<1> DEFINE Begins(u) == \E v \in Seq(Nat) : c = u \o v
<1>4. \A k \in 1..n + 1 : Begins(g[k])
  <2> DEFINE S == {j \in 0..n : Begins(g[(n + 1) - j])}
  <2>1. 0 \in S
    <3>1. c \in Seq(Nat)
      BY <1>0, <1>1, <1>3
    <3>2. c = c \o << >> /\ << >> \in Seq(Nat)
      BY <3>1
    <3>3. (n + 1) - 0 = n + 1 /\ 0 \in 0..n
      BY <1>0
    <3>4. Begins(g[n + 1])
      BY <1>1, <3>2
    <3> HIDE DEF Begins
    <3> QED
      BY <3>3, <3>4
  <2>2. \A j \in 1..n : j - 1 \in S => j \in S
    <3> SUFFICES ASSUME NEW j \in 1..n, j - 1 \in S PROVE j \in S
      OBVIOUS
    <3> DEFINE k == (n + 1) - j
    <3>1. k \in 1..n /\ k \in 1..n + 1 /\ (n + 1) - (j - 1) = k + 1 /\ j \in 0..n
      BY <1>0
    <3> HIDE DEF k
    <3>2. Begins(g[k + 1])
      BY <3>1
    <3>3. PICK v \in Seq(Nat) : c = g[k + 1] \o v
      BY <3>2
    <3>4. g[k + 1] = g[k] \o W(k) /\ W(k) \in Seq(Nat) /\ g[k] \in Seq(Nat)
      BY <1>1, <1>2, <1>3, <3>1
    <3>5. c = g[k] \o (W(k) \o v) /\ W(k) \o v \in Seq(Nat)
      <4>1. (g[k] \o W(k)) \o v = g[k] \o (W(k) \o v)
        BY <3>4, JoinAgain
      <4>2. W(k) \o v \in Seq(Nat)
        BY <3>4, JoinIn
      <4> QED
        BY <3>3, <3>4, <4>1, <4>2
    <3>6. Begins(g[k])
      BY <3>5
    <3> HIDE DEF Begins
    <3> QED
      BY <3>1, <3>6 DEF k
  <2> HIDE DEF S, Begins
  <2>3. \A j \in 0..n : j \in S
    BY <1>0, <2>1, <2>2, StepByStep
  <2> SUFFICES ASSUME NEW k \in 1..n + 1 PROVE Begins(g[k])
    OBVIOUS
  <2>4. (n + 1) - k \in 0..n /\ (n + 1) - ((n + 1) - k) = k
    BY <1>0
  <2>5. (n + 1) - k \in S
    BY <2>3, <2>4
  <2> QED
    BY <2>4, <2>5 DEF S
<1> DEFINE at == [k \in 0..n |-> Len(g[k + 1]) + 1]
           ReadAt(k) == /\ Len(W(k)) \in Nat \ {0}
                      /\ Len(g[k + 1]) = Len(g[k]) + Len(W(k))
                      /\ WidthOf(items[k], c, Len(g[k]) + 1) = Len(W(k))
                      /\ PieceOf(c, items[k], Len(g[k]) + 1, (Len(g[k]) + Len(W(k))) + 1)
                           = xs[k]
<1>5. ASSUME NEW k \in 1..n PROVE ReadAt(k)
  <2>1. k + 1 \in 1..n + 1 /\ k \in 1..n + 1
    BY <1>0
  <2>2. PICK v \in Seq(Nat) : c = g[k + 1] \o v
    BY <1>4, <2>1
  <2>3. /\ g[k] \in Seq(Nat) /\ W(k) \in Seq(Nat) /\ g[k + 1] = g[k] \o W(k)
        /\ items[k] \in ItemKinds /\ xs[k] \in Seq(Nat) /\ Fits(items[k], xs[k])
    BY <1>0, <1>1, <1>2, <1>3, <2>1
  <2>4. W(k) = Spelt(items[k], xs[k])
    BY DEF W
  <2>5. c = (g[k] \o W(k)) \o v
    BY <2>2, <2>3
  <2>6. /\ Len(W(k)) \in Nat \ {0}
        /\ WidthOf(items[k], c, Len(g[k]) + 1) = Len(W(k))
        /\ PieceOf(c, items[k], Len(g[k]) + 1, (Len(g[k]) + Len(W(k))) + 1) = xs[k]
    <3>1. ItemRead(c, items[k], xs[k], g[k], W(k))
      BY <2>2, <2>3, <2>4, <2>5, ItemSpelt
    <3> QED
      BY <3>1 DEF ItemRead
  <2>7. Len(g[k + 1]) = Len(g[k]) + Len(W(k))
    <3>1. Joined(g[k] \o W(k), g[k], W(k))
      BY <2>3, JoinIs
    <3> QED
      BY <2>3, <3>1 DEF Joined
  <2> QED
    BY <2>6, <2>7
<1>6. /\ c \in Seq(Nat) /\ c # << >> /\ c[1] = g[1][1]
  <2>1. 1 \in 1..n + 1 /\ n + 1 \in 1..n + 1
    BY <1>0
  <2>2. PICK v \in Seq(Nat) : c = g[1] \o v
    BY <1>4, <2>1
  <2>3. Joined(g[1] \o v, g[1], v)
    BY <1>1, JoinIs
  <2>4. 1 \in 1..Len(g[1])
    BY <1>1
  <2>5. c \in Seq(Nat) /\ c[1] = g[1][1]
    BY <2>2, <2>3, <2>4 DEF Joined
  <2>6. Len(c) = 1 + Len(v) /\ Len(v) \in Nat
    BY <1>1, <2>2, <2>3 DEF Joined
  <2> QED
    BY <2>5, <2>6
<1>7. \A k \in 1..n + 1 : Len(g[k]) \in Nat /\ Len(g[k]) <= Len(c)
  <2> SUFFICES ASSUME NEW k \in 1..n + 1 PROVE Len(g[k]) \in Nat /\ Len(g[k]) <= Len(c)
    OBVIOUS
  <2>1. PICK v \in Seq(Nat) : c = g[k] \o v
    BY <1>4
  <2>2. g[k] \in Seq(Nat)
    BY <1>3
  <2>3. Joined(g[k] \o v, g[k], v)
    BY <2>2, JoinIs
  <2>4. Len(c) = Len(g[k]) + Len(v) /\ Len(g[k]) \in Nat /\ Len(v) \in Nat
    BY <2>1, <2>2, <2>3 DEF Joined
  <2> QED
    BY <2>4
<1>8. \A k \in 1..n : /\ at[k - 1] = Len(g[k]) + 1 /\ at[k] = Len(g[k + 1]) + 1
                      /\ at[k] = (Len(g[k]) + Len(W(k))) + 1
  <2> SUFFICES ASSUME NEW k \in 1..n
               PROVE  /\ at[k - 1] = Len(g[k]) + 1 /\ at[k] = Len(g[k + 1]) + 1
                      /\ at[k] = (Len(g[k]) + Len(W(k))) + 1
    OBVIOUS
  <2>1. k - 1 \in 0..n /\ k \in 0..n /\ (k - 1) + 1 = k
    BY <1>0
  <2>2. at[k - 1] = Len(g[(k - 1) + 1]) + 1 /\ at[k] = Len(g[k + 1]) + 1
    BY <2>1
  <2> QED
    BY <1>5, <2>1, <2>2
<1>9. at[0] = 2 /\ at[n] = Len(c) + 1
  <2>1. 0 \in 0..n /\ n \in 0..n /\ 0 + 1 = 1
    BY <1>0
  <2>2. at[0] = Len(g[0 + 1]) + 1 /\ at[n] = Len(g[n + 1]) + 1
    BY <2>1
  <2>3. at[0] = Len(g[1]) + 1
    BY <2>1, <2>2
  <2> HIDE DEF at
  <2> QED
    BY <1>1, <2>2, <2>3
<1>10. \A k \in 0..n : at[k] \in Nat /\ at[k] <= Len(c) + 1 /\ at[k] >= 2
  <2> DEFINE S == {k \in 0..n : at[k] \in Nat /\ at[k] <= Len(c) + 1 /\ at[k] >= 2}
  <2>0. Len(c) \in Nat
    BY <1>6
  <2>1. 0 \in S
    <3>1. at[0] = 2 /\ 0 \in 0..n
      BY <1>0, <1>9
    <3>2. Len(c) >= 1
      BY <1>6
    <3> HIDE DEF at
    <3> QED
      BY <2>0, <3>1, <3>2
  <2>2. \A k \in 1..n : k - 1 \in S => k \in S
    <3> SUFFICES ASSUME NEW k \in 1..n, k - 1 \in S PROVE k \in S
      OBVIOUS
    <3>1. /\ at[k - 1] = Len(g[k]) + 1 /\ at[k] = Len(g[k + 1]) + 1
          /\ at[k] = (Len(g[k]) + Len(W(k))) + 1
      BY <1>8
    <3>2. Len(W(k)) \in Nat
      BY <1>5
    <3>3. k \in 0..n /\ k + 1 \in 1..n + 1 /\ k \in 1..n + 1
      BY <1>0
    <3>4. /\ Len(g[k + 1]) \in Nat /\ Len(g[k + 1]) <= Len(c)
          /\ Len(g[k]) \in Nat
      BY <1>7, <3>3
    <3>5. at[k - 1] >= 2
      OBVIOUS
    <3> HIDE DEF at
    <3>6. at[k] \in Nat /\ at[k] <= Len(c) + 1
      BY <2>0, <3>1, <3>4
    <3>7. at[k] >= 2
      BY <3>1, <3>2, <3>4, <3>5
    <3> QED
      BY <3>3, <3>6, <3>7
  <2> HIDE DEF S
  <2>3. \A k \in 0..n : k \in S
    BY <1>0, <2>1, <2>2, StepByStep
  <2> QED
    BY <2>3 DEF S
<1> HIDE DEF at
<1>11. CutAt(c, items, at)
  <2>1. ASSUME NEW k \in 1..n
        PROVE  at[k - 1] < at[k] /\ at[k] = at[k - 1] + WidthOf(items[k], c, at[k - 1])
    <3>1. /\ at[k - 1] = Len(g[k]) + 1 /\ at[k] = (Len(g[k]) + Len(W(k))) + 1
          /\ WidthOf(items[k], c, at[k - 1]) = Len(W(k))
      BY <1>5, <1>8
    <3>2. Len(W(k)) \in Nat \ {0} /\ Len(g[k]) \in Nat
      BY <1>0, <1>5, <1>7
    <3>3. \A l \in Nat, w \in Nat \ {0} : l + 1 < (l + w) + 1 /\ (l + w) + 1 = (l + 1) + w
      OBVIOUS
    <3> QED
      BY <3>1, <3>2, <3>3, Zenon
  <2> QED
    BY <1>9, <1>10, <2>1 DEF CutAt, n
<1>12. Scan(c, items).ok /\ Cuts(c, items, at, Scan(c, items))
  BY <1>6, <1>11, ScanCuts
<1>13. Finished(Scan(c, items), c)
  BY <1>9, <1>12 DEF Finished, Cuts, n
<1>14. ASSUME NEW k \in 1..n PROVE Scan(c, items).pieces[k] = xs[k]
  <2>1. Scan(c, items).pieces[k] = PieceOf(c, items[k], at[k - 1], at[k])
    BY <1>12 DEF Cuts, n
  <2>2. at[k - 1] = Len(g[k]) + 1 /\ at[k] = (Len(g[k]) + Len(W(k))) + 1
    BY <1>8
  <2>3. PieceOf(c, items[k], Len(g[k]) + 1, (Len(g[k]) + Len(W(k))) + 1) = xs[k]
    BY <1>5
  <2> QED
    BY <2>1, <2>2, <2>3
<1> QED
  BY <1>6, <1>13, <1>14 DEF g, n, IsRead

-----------------------------------------------------------------------------
(* The records, written and read. *)
LEMMA OneOfOne == \A a : One(<<a>>) = a
  BY DEF One

LEMMA SourceRead ==
    ASSUME NEW r \in Sources, NewSource(r), Len(EncodeSource(r)) <= ManifestMaxCells
    PROVE  DecodeSource(EncodeSource(r)) = <<r>>
<1> DEFINE items == <<"field", "field", "field", "field", "field">>
           c  == EncodeSource(r)
           x1 == <<r.source_id>>
           x2 == r.scope_path
           x3 == <<Sha1>>
           x4 == <<r.commit_oid>>
           x5 == <<r.root_tree_oid>>
           g1 == <<SourceDomain>>
           g2 == g1 \o Field(x1)
           g3 == g2 \o Field(x2)
           g4 == g3 \o Field(x3)
           g5 == g4 \o Field(x4)
           g6 == g5 \o Field(x5)
           xs == <<x1, x2, x3, x4, x5>>
           g  == <<g1, g2, g3, g4, g5, g6>>
           scan == Scan(c, items)
<1>1. items \in Seq(ItemKinds) /\ Len(items) = 5 /\ \A k \in 1..5 : items[k] = "field"
  BY DEF ItemKinds
<1>2. c = g6
  BY DEF EncodeSource
<1>3. /\ x1 \in Seq(Nat) /\ x2 \in Seq(Nat) /\ x3 \in Seq(Nat) /\ x4 \in Seq(Nat)
      /\ x5 \in Seq(Nat) /\ g1 \in Seq(Nat) /\ Len(g1) = 1 /\ g1[1] = SourceDomain
  <2>1. /\ r.source_id \in Nat /\ r.commit_oid \in Nat /\ r.root_tree_oid \in Nat
        /\ r.scope_path \in Seq(Byte)
    BY DEF Sources
  <2>2. x2 \in Seq(Nat)
    BY <2>1, BytesIn
  <2>3. Sha1 \in Nat /\ SourceDomain \in Nat
    BY DEF Sha1, SourceDomain
  <2> QED
    BY <2>1, <2>2, <2>3, CellIn
<1> HIDE DEF items, c, x1, x2, x3, x4, x5, g1
<1>x. /\ xs[1] = x1 /\ xs[2] = x2 /\ xs[3] = x3 /\ xs[4] = x4 /\ xs[5] = x5
      /\ g[1] = g1 /\ g[2] = g2 /\ g[3] = g3 /\ g[4] = g4 /\ g[5] = g5 /\ g[6] = g6
  OBVIOUS
<1>g. /\ g2 = g1 \o Field(x1) /\ g3 = g2 \o Field(x2) /\ g4 = g3 \o Field(x3)
      /\ g5 = g4 \o Field(x4) /\ g6 = g5 \o Field(x5)
  OBVIOUS
<1> HIDE DEF xs, g, g2, g3, g4, g5, g6
<1>4. Spells(c, items, xs, g)
  <2>1. ASSUME NEW k \in 1..5
        PROVE  /\ xs[k] \in Seq(Nat) /\ Fits(items[k], xs[k])
               /\ g[k + 1] = g[k] \o Spelt(items[k], xs[k])
    <3>1. items[k] = "field"
      BY <1>1
    <3>2. Fits(items[k], xs[k]) /\ Spelt(items[k], xs[k]) = Field(xs[k])
      BY <3>1 DEF Fits, Spelt
    <3>3. xs[k] \in Seq(Nat) /\ g[k + 1] = g[k] \o Field(xs[k])
      <4>1. k = 1 \/ k = 2 \/ k = 3 \/ k = 4 \/ k = 5
        OBVIOUS
      <4>2. 1 + 1 = 2 /\ 2 + 1 = 3 /\ 3 + 1 = 4 /\ 4 + 1 = 5 /\ 5 + 1 = 6
        OBVIOUS
      <4> QED
        BY <1>3, <1>x, <1>g, <4>1, <4>2, Zenon
    <3> QED
      BY <3>2, <3>3
  <2>2. 5 + 1 = 6
    OBVIOUS
  <2> QED
    BY <1>1, <1>2, <1>3, <1>x, <2>1, <2>2 DEF Spells
<1>5. /\ c # << >> /\ c[1] = SourceDomain /\ Finished(scan, c)
      /\ \A k \in 1..5 : scan.pieces[k] = xs[k]
  <2>1. IsRead(c, items, xs, g1)
    BY <1>1, <1>4, <1>x, SpeltIsRead
  <2> QED
    BY <1>1, <1>3, <2>1 DEF IsRead
<1> DEFINE p == scan.pieces
<1>6. /\ p[1] = x1 /\ p[2] = x2 /\ p[3] = x3 /\ p[4] = x4 /\ p[5] = x5
  BY <1>5, <1>x
<1>7. Opens(c, SourceDomain)
  BY <1>5 DEF Opens, c
<1> DEFINE q == [source_id |-> One(p[1]), scope_path |-> p[2],
                 commit_oid |-> One(p[4]), root_tree_oid |-> One(p[5])]
<1>8. q = r
  <2>1. /\ One(p[1]) = r.source_id /\ One(p[4]) = r.commit_oid
        /\ One(p[5]) = r.root_tree_oid /\ p[2] = r.scope_path
    <3> HIDE DEF p
    <3> QED
      BY <1>6, OneOfOne DEF x1, x2, x4, x5
  <2> HIDE DEF p
  <2> QED
    BY <2>1 DEF Sources
<1>9. p[3] = <<Sha1>>
  BY <1>6 DEF x3
<1>10. DecodeSource(c) = IF /\ Opens(c, SourceDomain) /\ Finished(scan, c)
                            /\ p[3] = <<Sha1>> /\ NewSource(q)
                         THEN <<q>> ELSE Refused
  BY DEF DecodeSource, items
<1> HIDE DEF p, q, scan
<1> QED
  BY <1>5, <1>7, <1>8, <1>9, <1>10 DEF c

LEMMA Longer ==
    ASSUME NEW u \in Seq(Nat), NEW w \in Seq(Nat), NEW n \in Nat
    PROVE  /\ u \o w \in Seq(Nat)
           /\ n <= Len(u) => n <= Len(u \o w)
           /\ n <= Len(w) => n <= Len(u \o w)
<1>1. Joined(u \o w, u, w)
  BY JoinIs
<1>2. u \o w \in Seq(Nat) /\ Len(u \o w) = Len(u) + Len(w) /\ Len(u) \in Nat /\ Len(w) \in Nat
  BY <1>1 DEF Joined
<1> QED
  BY <1>2

LEMMA BindingRead ==
    ASSUME NEW r \in Mounts, NewBinding(r), Len(EncodeBinding(r)) <= ManifestMaxCells,
           ManifestMaxCells \in Nat
    PROVE  DecodeBinding(EncodeBinding(r)) = <<r>>
<1> DEFINE items == <<"field", "field", "field", "cell">>
           c  == EncodeBinding(r)
           x1 == r.mount_path
           x2 == EncodeSource(r.source)
           x3 == r.source_subpath
           x4 == <<IF r.policy = "mutable" THEN 1 ELSE 2>>
           g1 == <<BindingDomain>>
           g2 == g1 \o Field(x1)
           g3 == g2 \o Field(x2)
           g4 == g3 \o Field(x3)
           g5 == g4 \o x4
           xs == <<x1, x2, x3, x4>>
           g  == <<g1, g2, g3, g4, g5>>
           scan == Scan(c, items)
<1>1. /\ items \in Seq(ItemKinds) /\ Len(items) = 4 /\ items[1] = "field"
      /\ items[2] = "field" /\ items[3] = "field" /\ items[4] = "cell"
  BY DEF ItemKinds
<1>2. c = g5
  BY DEF EncodeBinding
<1>t. /\ r.mount_path \in Seq(Byte) /\ r.source \in Sources /\ r.source_subpath \in Seq(Byte)
      /\ r.policy \in {"mutable", "release"}
      /\ r = [mount_path |-> r.mount_path, source |-> r.source,
              source_subpath |-> r.source_subpath, policy |-> r.policy]
  BY DEF Mounts
<1>3. /\ x1 \in Seq(Nat) /\ x2 \in Seq(Nat) /\ x3 \in Seq(Nat) /\ x4 \in Seq(Nat)
      /\ Len(x4) = 1 /\ g1 \in Seq(Nat) /\ Len(g1) = 1 /\ g1[1] = BindingDomain
  <2>1. x1 \in Seq(Nat) /\ x2 \in Seq(Nat) /\ x3 \in Seq(Nat)
    BY <1>t, BytesIn, SourceIn
  <2>2. BindingDomain \in Nat /\ (IF r.policy = "mutable" THEN 1 ELSE 2) \in Nat
    BY DEF BindingDomain
  <2> QED
    BY <2>1, <2>2, CellIn
<1> HIDE DEF items, c, x1, x2, x3, x4, g1
<1>x. /\ xs[1] = x1 /\ xs[2] = x2 /\ xs[3] = x3 /\ xs[4] = x4
      /\ g[1] = g1 /\ g[2] = g2 /\ g[3] = g3 /\ g[4] = g4 /\ g[5] = g5
  OBVIOUS
<1>g. /\ g2 = g1 \o Field(x1) /\ g3 = g2 \o Field(x2) /\ g4 = g3 \o Field(x3) /\ g5 = g4 \o x4
  OBVIOUS
<1> HIDE DEF xs, g, g2, g3, g4, g5
<1>4. Spells(c, items, xs, g)
  <2> DEFINE T(k, l) == /\ xs[k] \in Seq(Nat) /\ Fits(items[k], xs[k])
                        /\ g[l] = g[k] \o Spelt(items[k], xs[k])
  <2>1. T(1, 2) /\ T(2, 3) /\ T(3, 4)
    BY <1>1, <1>3, <1>x, <1>g DEF Fits, Spelt
  <2>2. T(4, 5)
    BY <1>1, <1>3, <1>x, <1>g DEF Fits, Spelt
  <2> HIDE DEF T
  <2>3. ASSUME NEW k \in 1..4 PROVE T(k, k + 1)
    <3>1. k = 1 \/ k = 2 \/ k = 3 \/ k = 4
      OBVIOUS
    <3>2. 1 + 1 = 2 /\ 2 + 1 = 3 /\ 3 + 1 = 4 /\ 4 + 1 = 5
      OBVIOUS
    <3> QED
      BY <2>1, <2>2, <3>1, <3>2, Zenon
  <2>4. 4 + 1 = 5
    OBVIOUS
  <2> QED
    BY <1>1, <1>2, <1>3, <1>x, <2>3, <2>4 DEF Spells, T
<1>5. /\ c # << >> /\ c[1] = BindingDomain /\ Finished(scan, c)
      /\ \A k \in 1..4 : scan.pieces[k] = xs[k]
  <2>1. IsRead(c, items, xs, g1)
    BY <1>1, <1>4, <1>x, SpeltIsRead
  <2> QED
    BY <1>1, <1>3, <2>1 DEF IsRead
<1> DEFINE p == scan.pieces
<1>6. /\ p[1] = x1 /\ p[2] = x2 /\ p[3] = x3 /\ p[4] = x4
  BY <1>5, <1>x
<1>7. Opens(c, BindingDomain)
  BY <1>5 DEF Opens, c
<1>8. DecodeSource(p[2]) = <<r.source>>
  <2>1. Len(x2) \in Nat /\ Len(x2) <= Len(Field(x2)) /\ Field(x2) \in Seq(Nat)
    <3>1. FieldOf(Field(x2), x2) /\ Len(x2) \in Nat
      BY <1>3, FieldIs
    <3>2. Len(Field(x2)) = Len(x2) + 1 /\ Field(x2) \in Seq(Nat)
      BY <3>1 DEF FieldOf
    <3> QED
      BY <3>1, <3>2
  <2>2. Field(x1) \in Seq(Nat) /\ Field(x3) \in Seq(Nat)
    BY <1>3, FieldIn
  <2>3. g2 \in Seq(Nat)
    BY <1>3, <1>g, <2>2, Longer
  <2>4. g3 \in Seq(Nat) /\ Len(x2) <= Len(g3)
    BY <1>g, <2>1, <2>3, Longer
  <2>5. g4 \in Seq(Nat) /\ Len(x2) <= Len(g4)
    BY <1>g, <2>1, <2>2, <2>4, Longer
  <2>6. g5 \in Seq(Nat) /\ Len(x2) <= Len(g5)
    BY <1>3, <1>g, <2>1, <2>5, Longer
  <2>7. Len(g5) \in Nat /\ Len(g5) <= ManifestMaxCells
    BY <1>2, <2>6 DEF c
  <2>8. Len(x2) <= ManifestMaxCells
    BY <2>1, <2>6, <2>7
  <2>9. NewSource(r.source)
    BY DEF NewBinding
  <2>10. DecodeSource(x2) = <<r.source>>
    BY <1>t, <2>8, <2>9, SourceRead DEF x2
  <2> HIDE DEF p
  <2> QED
    BY <1>6, <2>10
<1> DEFINE source == DecodeSource(p[2])
           q == [mount_path |-> p[1], source |-> source[1], source_subpath |-> p[3],
                 policy |-> IF p[4] = <<1>> THEN "mutable" ELSE "release"]
<1> HIDE DEF p
<1>9. p[4][1] \in {1, 2} /\ (IF p[4] = <<1>> THEN "mutable" ELSE "release") = r.policy
  BY <1>t, <1>6 DEF x4
<1>10. q = r
  <2>1. source[1] = r.source /\ p[1] = r.mount_path /\ p[3] = r.source_subpath
    BY <1>6, <1>8 DEF x1, x3
  <2> HIDE DEF source
  <2> QED
    BY <1>t, <1>9, <2>1
<1>11. DecodeBinding(c) = IF /\ Opens(c, BindingDomain) /\ Finished(scan, c)
                             /\ source # Refused /\ p[4][1] \in {1, 2} /\ NewBinding(q)
                          THEN <<q>> ELSE Refused
  BY DEF DecodeBinding, items, p
<1>12. source # Refused
  BY <1>8 DEF Refused
<1> HIDE DEF q, scan, source
<1> QED
  BY <1>5, <1>7, <1>9, <1>10, <1>11, <1>12 DEF c

LEMMA ViewRead ==
    ASSUME NEW r \in Views, NewView(r), Len(EncodeView(r)) <= ManifestMaxCells,
           ManifestMaxCells \in Nat
    PROVE  DecodeView(EncodeView(r)) = <<r>>
<1> DEFINE items == <<"cell", "field", "field", "cell", "optional", "cell">>
           c  == EncodeView(r)
           x1 == <<1>>
           x2 == <<r.instance_id>>
           x3 == EncodeSource(r.native)
           x4 == <<r.bindings_root>>
           x5 == r.overrides_root
           x6 == <<1>>
           g1 == <<ViewDomain>>
           g2 == g1 \o x1
           g3 == g2 \o Field(x2)
           g4 == g3 \o Field(x3)
           g5 == g4 \o x4
           g6 == g5 \o Field(x5)
           g7 == g6 \o x6
           xs == <<x1, x2, x3, x4, x5, x6>>
           g  == <<g1, g2, g3, g4, g5, g6, g7>>
           scan == Scan(c, items)
<1>1. /\ items \in Seq(ItemKinds) /\ Len(items) = 6 /\ items[1] = "cell"
      /\ items[2] = "field" /\ items[3] = "field" /\ items[4] = "cell"
      /\ items[5] = "optional" /\ items[6] = "cell"
  BY DEF ItemKinds
<1>t. /\ r.instance_id \in Nat /\ r.native \in Sources /\ r.bindings_root \in Nat
      /\ r.overrides_root \in Seq(Nat) /\ Len(r.overrides_root) <= 1
      /\ r = [instance_id |-> r.instance_id, native |-> r.native,
              bindings_root |-> r.bindings_root, overrides_root |-> r.overrides_root]
  BY DEF Views
<1>3. /\ x1 \in Seq(Nat) /\ x2 \in Seq(Nat) /\ x3 \in Seq(Nat) /\ x4 \in Seq(Nat)
      /\ x5 \in Seq(Nat) /\ x6 \in Seq(Nat)
      /\ Len(x1) = 1 /\ Len(x4) = 1 /\ Len(x5) <= 1 /\ Len(x6) = 1
      /\ g1 \in Seq(Nat) /\ Len(g1) = 1 /\ g1[1] = ViewDomain
  <2>1. x3 \in Seq(Nat)
    BY <1>t, SourceIn
  <2>2. ViewDomain \in Nat /\ 1 \in Nat
    BY DEF ViewDomain
  <2> QED
    BY <1>t, <2>1, <2>2, CellIn
<1>2. c = g7
  <2>1. <<ViewDomain>> \o <<1>> = <<ViewDomain, 1>>
    <3>1. ViewDomain \in Nat /\ 1 \in Nat
      BY DEF ViewDomain
    <3> QED
      BY <3>1, TwoCells
  <2>2. <<r.bindings_root>> \o <<Len(x5)>> = <<r.bindings_root, Len(x5)>>
    <3>1. Len(x5) \in Nat
      BY <1>3
    <3> HIDE DEF x5
    <3> QED
      BY <1>t, <3>1, TwoCells
  <2>3. Field(x2) \in Seq(Nat) /\ Field(x3) \in Seq(Nat) /\ <<Len(x5)>> \in Seq(Nat)
    <3>1. Len(x5) \in Nat
      BY <1>3
    <3> HIDE DEF x2, x3, x5
    <3> QED
      BY <1>3, <3>1, FieldIn, CellIn
  <2> DEFINE y == <<Len(x5)>>
  <2>4. Field(x5) = y \o x5
    BY DEF Field
  <2>5. c = g4 \o (x4 \o y) \o x5 \o x6
    BY <2>1, <2>2 DEF EncodeView
  <2>6. y \in Seq(Nat)
    BY <2>3
  <2>7. g7 = ((g4 \o x4) \o Field(x5)) \o x6
    OBVIOUS
  <2> HIDE DEF y, c, x1, x2, x3, x4, x5, x6, g1, g7
  <2>8. g4 \in Seq(Nat)
    <3>1. g2 \in Seq(Nat)
      BY <1>3, JoinIn
    <3> HIDE DEF g2
    <3>2. g3 \in Seq(Nat)
      BY <2>3, <3>1, JoinIn
    <3> HIDE DEF g3
    <3> QED
      BY <2>3, <3>2, JoinIn
  <2> HIDE DEF g4
  <2>9. (g4 \o (x4 \o y)) \o x5 = (g4 \o x4) \o (y \o x5)
    <3>a. x4 \in Seq(Nat)
      BY <1>3
    <3>b. (g4 \o x4) \o y = g4 \o (x4 \o y)
      BY <2>6, <2>8, <3>a, JoinAgain, Zenon
    <3>c. g4 \o x4 \in Seq(Nat)
      BY <2>8, <3>a, JoinIn, Zenon
    <3>1. (g4 \o x4) \o y = g4 \o (x4 \o y) /\ g4 \o x4 \in Seq(Nat)
      BY <3>b, <3>c
    <3>2. ((g4 \o x4) \o y) \o x5 = (g4 \o x4) \o (y \o x5)
      <4>1. x5 \in Seq(Nat)
        BY <1>3
      <4> QED
        BY <2>6, <3>c, <4>1, JoinAgain, Zenon
    <3> QED
      BY <3>1, <3>2
  <2> QED
    BY <2>4, <2>5, <2>7, <2>9
<1> HIDE DEF items, c, x1, x2, x3, x4, x5, x6, g1
<1>x. /\ xs[1] = x1 /\ xs[2] = x2 /\ xs[3] = x3 /\ xs[4] = x4 /\ xs[5] = x5 /\ xs[6] = x6
      /\ g[1] = g1 /\ g[2] = g2 /\ g[3] = g3 /\ g[4] = g4 /\ g[5] = g5 /\ g[6] = g6
      /\ g[7] = g7
  OBVIOUS
<1>g. /\ g2 = g1 \o x1 /\ g3 = g2 \o Field(x2) /\ g4 = g3 \o Field(x3)
      /\ g5 = g4 \o x4 /\ g6 = g5 \o Field(x5) /\ g7 = g6 \o x6
  OBVIOUS
<1> HIDE DEF xs, g, g2, g3, g4, g5, g6, g7
<1>4. Spells(c, items, xs, g)
  <2> DEFINE T(k, l) == /\ xs[k] \in Seq(Nat) /\ Fits(items[k], xs[k])
                        /\ g[l] = g[k] \o Spelt(items[k], xs[k])
  <2>1. T(1, 2) /\ T(4, 5) /\ T(6, 7)
    BY <1>1, <1>3, <1>x, <1>g DEF Fits, Spelt
  <2>2. T(2, 3) /\ T(3, 4) /\ T(5, 6)
    BY <1>1, <1>3, <1>x, <1>g DEF Fits, Spelt
  <2> HIDE DEF T
  <2>3. ASSUME NEW k \in 1..6 PROVE T(k, k + 1)
    <3>1. k = 1 \/ k = 2 \/ k = 3 \/ k = 4 \/ k = 5 \/ k = 6
      OBVIOUS
    <3>2. 1 + 1 = 2 /\ 2 + 1 = 3 /\ 3 + 1 = 4 /\ 4 + 1 = 5 /\ 5 + 1 = 6 /\ 6 + 1 = 7
      OBVIOUS
    <3> QED
      BY <2>1, <2>2, <3>1, <3>2, Zenon
  <2>4. 6 + 1 = 7
    OBVIOUS
  <2> QED
    BY <1>1, <1>2, <1>3, <1>x, <2>3, <2>4 DEF Spells, T
<1>5. /\ c # << >> /\ c[1] = ViewDomain /\ Finished(scan, c)
      /\ \A k \in 1..6 : scan.pieces[k] = xs[k]
  <2>1. IsRead(c, items, xs, g1)
    BY <1>1, <1>4, <1>x, SpeltIsRead
  <2> QED
    BY <1>1, <1>3, <2>1 DEF IsRead
<1> DEFINE p == scan.pieces
<1>6. /\ p[1] = x1 /\ p[2] = x2 /\ p[3] = x3 /\ p[4] = x4 /\ p[5] = x5 /\ p[6] = x6
  BY <1>5, <1>x
<1>7. Opens(c, ViewDomain)
  BY <1>5 DEF Opens, c
<1>f. /\ Field(x2) \in Seq(Nat) /\ Field(x3) \in Seq(Nat) /\ Field(x5) \in Seq(Nat)
      /\ Len(Field(x3)) = Len(x3) + 1 /\ Len(x3) \in Nat
      /\ Len(Field(x5)) = Len(x5) + 1 /\ Len(x5) \in Nat /\ Field(x5)[1] = Len(x5)
  <2>1. FieldOf(Field(x2), x2) /\ FieldOf(Field(x3), x3) /\ FieldOf(Field(x5), x5)
    BY <1>3, FieldIs
  <2> QED
    BY <1>3, <2>1 DEF FieldOf
<1>s. /\ g2 \in Seq(Nat) /\ g3 \in Seq(Nat) /\ g4 \in Seq(Nat) /\ g5 \in Seq(Nat)
      /\ g6 \in Seq(Nat) /\ g7 \in Seq(Nat)
  <2>1. g2 \in Seq(Nat)
    BY <1>3, <1>g, JoinIn
  <2>2. g3 \in Seq(Nat)
    BY <1>f, <1>g, <2>1, JoinIn
  <2>3. g4 \in Seq(Nat)
    BY <1>f, <1>g, <2>2, JoinIn
  <2>4. g5 \in Seq(Nat)
    BY <1>3, <1>g, <2>3, JoinIn
  <2>5. g6 \in Seq(Nat)
    BY <1>f, <1>g, <2>4, JoinIn
  <2> QED
    BY <1>3, <1>g, <2>1, <2>2, <2>3, <2>4, <2>5, JoinIn
<1>8. DecodeSource(p[3]) = <<r.native>>
  <2>1. Len(x3) \in Nat /\ Len(x3) <= Len(Field(x3))
    BY <1>f
  <2>4. Len(x3) <= Len(g4)
    BY <1>f, <1>g, <1>s, <2>1, Longer
  <2>5. Len(x3) <= Len(g5)
    BY <1>3, <1>g, <1>s, <2>1, <2>4, Longer
  <2>6. Len(x3) <= Len(g6)
    BY <1>f, <1>g, <1>s, <2>1, <2>5, Longer
  <2>7. Len(x3) <= Len(g7)
    BY <1>3, <1>g, <1>s, <2>1, <2>6, Longer
  <2>8. Len(x3) <= ManifestMaxCells
    <3>1. Len(g7) \in Nat /\ Len(g7) <= ManifestMaxCells
      BY <1>2, <1>s DEF c
    <3> QED
      BY <2>1, <2>7, <3>1
  <2>9. NewSource(r.native)
    BY DEF NewView
  <2>10. DecodeSource(x3) = <<r.native>>
    BY <1>t, <2>8, <2>9, SourceRead DEF x3
  <2> HIDE DEF p
  <2> QED
    BY <1>6, <2>10
<1> DEFINE native == DecodeSource(p[3])
           flag == c[scan.at - 2 - Len(p[5])]
           q == [instance_id |-> One(p[2]), native |-> native[1],
                 bindings_root |-> p[4][1], overrides_root |-> p[5]]
<1>9. flag \in {0, 1}
  <2>1. Standing(c, g5, Field(x5), x6)
    <3>1. c = (g5 \o Field(x5)) \o x6
      BY <1>2, <1>g
    <3> QED
      BY <1>3, <1>f, <1>s, <3>1, StandsAt, Zenon
  <2>2. /\ Len(c) = (Len(g5) + Len(Field(x5))) + Len(x6)
        /\ \A k \in 1..Len(Field(x5)) : c[Len(g5) + k] = Field(x5)[k]
    BY <2>1 DEF Standing
  <2>3. scan.at = Len(c) + 1
    BY <1>5 DEF Finished
  <2>4. scan.at - 2 - Len(x5) = Len(g5) + 1 /\ 1 \in 1..Len(Field(x5))
    <3>1. Len(g5) \in Nat
      BY <1>s
    <3>2. Len(x5) \in Nat /\ Len(Field(x5)) = Len(x5) + 1 /\ Len(x6) = 1
      BY <1>3, <1>f
    <3>3. Len(c) = (Len(g5) + (Len(x5) + 1)) + 1
      BY <2>2, <3>2
    <3> QED
      BY <2>3, <3>1, <3>2, <3>3
  <2>5. c[Len(g5) + 1] = Len(x5)
    BY <1>f, <2>2, <2>4
  <2>6. Len(x5) \in {0, 1}
    <3>1. \A n \in Nat : n <= 1 => n \in {0, 1}
      OBVIOUS
    <3> QED
      BY <1>3, <1>f, <3>1, Zenon
  <2> HIDE DEF p, scan
  <2> QED
    BY <1>6, <2>4, <2>5, <2>6
<1> HIDE DEF p
<1>10. q = r
  <2>1. /\ native[1] = r.native /\ One(p[2]) = r.instance_id /\ p[4][1] = r.bindings_root
        /\ p[5] = r.overrides_root
    BY <1>6, <1>8, OneOfOne DEF x2, x4, x5
  <2> HIDE DEF native
  <2> QED
    BY <1>t, <2>1
<1>11. DecodeView(c) = IF /\ Opens(c, ViewDomain) /\ Finished(scan, c)
                          /\ p[1] = <<1>> /\ native # Refused /\ flag \in {0, 1}
                          /\ p[6] = <<1>> /\ NewView(q)
                       THEN <<q>> ELSE Refused
  BY DEF DecodeView, items, p
<1>12. native # Refused
  BY <1>8 DEF Refused
<1>13. p[1] = <<1>> /\ p[6] = <<1>>
  BY <1>6 DEF x1, x6
<1> HIDE DEF q, scan, native, flag
<1> QED
  BY <1>5, <1>7, <1>9, <1>10, <1>11, <1>12, <1>13 DEF c


LEMMA DescriptorRead ==
    ASSUME NEW r \in Serving, NewDescriptor(r)
    PROVE  DecodeDescriptor(EncodeDescriptor(r)) = <<r>>
<1> DEFINE x == r.scope
           u == <<DescriptorMagic, 2, 1, r.instance_uuid, r.namespace_view_id>>
           w == Field(x)
           v == <<1, 1, 0, 0, r.metadata_root>>
           c == EncodeDescriptor(r)
           n == Len(x)
           head == <<DescriptorMagic, 2, 1>>
           foot == <<1, 1, 0, 0>>
<1>t. /\ r.instance_uuid \in Nat /\ r.namespace_view_id \in Nat /\ x \in Seq(Byte)
      /\ r.metadata_root \in Nat
      /\ r = [instance_uuid |-> r.instance_uuid, namespace_view_id |-> r.namespace_view_id,
              scope |-> r.scope, metadata_root |-> r.metadata_root]
  BY DEF Serving
<1>1. x \in Seq(Nat) /\ n \in Nat
  BY <1>t, BytesIn
<1>2. c = (u \o w) \o v
  BY DEF EncodeDescriptor
<1>3. /\ u \in Seq(Nat) /\ Len(u) = 5 /\ u[1] = DescriptorMagic /\ u[2] = 2 /\ u[3] = 1
      /\ u[4] = r.instance_uuid /\ u[5] = r.namespace_view_id
      /\ v \in Seq(Nat) /\ Len(v) = 5 /\ v[1] = 1 /\ v[2] = 1 /\ v[3] = 0 /\ v[4] = 0
      /\ v[5] = r.metadata_root
      /\ head \in Seq(Nat) /\ Len(head) = 3
      /\ head[1] = DescriptorMagic /\ head[2] = 2 /\ head[3] = 1
      /\ foot \in Seq(Nat) /\ Len(foot) = 4
      /\ foot[1] = 1 /\ foot[2] = 1 /\ foot[3] = 0 /\ foot[4] = 0
  BY <1>t DEF DescriptorMagic
<1> HIDE DEF u, v, c, head, foot
<1>4. w \in Seq(Nat) /\ Len(w) = n + 1 /\ w[1] = n /\ \A k \in 1..n : w[k + 1] = x[k]
  <2>1. FieldOf(w, x)
    BY <1>1, FieldIs
  <2> QED
    BY <2>1 DEF FieldOf
<1> HIDE DEF w, x, n
<1>5. /\ c \in Seq(Nat) /\ Len(c) = 11 + n
      /\ \A k \in 1..5 : c[k] = u[k]
      /\ \A k \in 1..n + 1 : c[5 + k] = w[k]
      /\ \A k \in 1..5 : c[6 + n + k] = v[k]
  <2>1. Standing(c, u, w, v)
    BY <1>2, <1>3, <1>4, StandsAt
  <2>2. Len(u) = 5 /\ Len(w) = n + 1 /\ Len(v) = 5 /\ Len(u) + Len(w) = 6 + n
    BY <1>1, <1>3, <1>4
  <2>3. /\ c \in Seq(Nat) /\ Len(c) = (Len(u) + Len(w)) + Len(v)
        /\ \A k \in 1..Len(u) : c[k] = u[k]
        /\ \A k \in 1..Len(w) : c[Len(u) + k] = w[k]
        /\ \A k \in 1..Len(v) : c[(Len(u) + Len(w)) + k] = v[k]
    BY <2>1 DEF Standing
  <2>4. Len(c) = 11 + n
    BY <1>1, <2>2, <2>3
  <2>5. \A k \in 1..n + 1 : c[5 + k] = w[k]
    BY <2>2, <2>3
  <2>6. \A k \in 1..5 : c[6 + n + k] = v[k]
    BY <2>2, <2>3
  <2> QED
    BY <2>2, <2>3, <2>4, <2>5, <2>6
<1>6. /\ c[1] = DescriptorMagic /\ c[2] = 2 /\ c[3] = 1
      /\ c[4] = r.instance_uuid /\ c[5] = r.namespace_view_id
  BY <1>3, <1>5
<1>7. c[6] = n /\ \A k \in 1..n : c[6 + k] = x[k]
  <2>1. c[5 + 1] = w[1] /\ 5 + 1 = 6
    BY <1>1, <1>5
  <2>2. ASSUME NEW k \in 1..n PROVE c[6 + k] = x[k]
    <3>1. k + 1 \in 1..n + 1 /\ 5 + (k + 1) = 6 + k
      BY <1>1
    <3>2. c[5 + (k + 1)] = w[k + 1] /\ w[k + 1] = x[k]
      BY <1>4, <1>5, <3>1
    <3> QED
      BY <3>1, <3>2
  <2> QED
    BY <1>4, <2>1, <2>2
<1>8. SubSeq(c, 1, 3) = head
  <2>1. \A k \in 1..Len(head) : c[(1 + k) - 1] = head[k]
    <3> SUFFICES ASSUME NEW k \in 1..3 PROVE c[(1 + k) - 1] = head[k]
      BY <1>3
    <3>1. (k = 1 \/ k = 2 \/ k = 3) /\ (1 + k) - 1 = k
      OBVIOUS
    <3> QED
      BY <1>3, <1>6, <3>1
  <2>2. 3 + 1 = 1 + Len(head) /\ 3 <= Len(c) /\ 1 \in Nat \ {0} /\ 3 \in Nat
    BY <1>1, <1>3, <1>5
  <2> QED
    <3>1. LiesAt(c, head, 1, 3)
      BY <1>3, <1>5, <2>1, <2>2, Zenon DEF LiesAt
    <3> QED
      BY <3>1, CutOut, Zenon
<1>9. SubSeq(c, 7, 6 + n) = x
  <2>1. \A k \in 1..Len(x) : c[(7 + k) - 1] = x[k]
    <3> SUFFICES ASSUME NEW k \in 1..n PROVE c[(7 + k) - 1] = x[k]
      BY DEF n
    <3>1. (7 + k) - 1 = 6 + k
      BY <1>1
    <3> QED
      BY <1>7, <3>1
  <2>2. /\ (6 + n) + 1 = 7 + Len(x) /\ 6 + n <= Len(c) /\ 7 \in Nat \ {0} /\ 6 + n \in Nat
    BY <1>1, <1>5 DEF n
  <2> QED
    <3>1. LiesAt(c, x, 7, 6 + n)
      BY <1>1, <1>5, <2>1, <2>2, Zenon DEF LiesAt
    <3> QED
      BY <3>1, CutOut, Zenon
<1>10. SubSeq(c, 7 + n, 10 + n) = foot
  <2>1. \A k \in 1..Len(foot) : c[((7 + n) + k) - 1] = foot[k]
    <3> SUFFICES ASSUME NEW k \in 1..4 PROVE c[((7 + n) + k) - 1] = foot[k]
      BY <1>3
    <3>1. (k = 1 \/ k = 2 \/ k = 3 \/ k = 4) /\ k \in 1..5 /\ ((7 + n) + k) - 1 = 6 + n + k
      BY <1>1
    <3>2. c[((7 + n) + k) - 1] = v[k]
      BY <1>5, <3>1
    <3> QED
      BY <1>3, <3>1, <3>2
  <2>2. /\ (10 + n) + 1 = (7 + n) + Len(foot) /\ 10 + n <= Len(c)
        /\ 7 + n \in Nat \ {0} /\ 10 + n \in Nat
    <3>1. Len(foot) = 4 /\ Len(c) = 11 + n /\ n \in Nat
      BY <1>1, <1>3, <1>5, Zenon
    <3>2. /\ (10 + n) + 1 = (7 + n) + 4 /\ 10 + n <= 11 + n
          /\ 7 + n \in Nat \ {0} /\ 10 + n \in Nat
      BY <3>1
    <3> QED
      BY <3>1, <3>2, Zenon
  <2> QED
    <3>1. LiesAt(c, foot, 7 + n, 10 + n)
      BY <1>3, <1>5, <2>1, <2>2, Zenon DEF LiesAt
    <3> QED
      BY <3>1, CutOut, Zenon
<1>11. Last(c) = r.metadata_root
  <2>1. c[Len(c)] = v[5]
    <3>1. 5 \in 1..5 /\ 6 + n + 5 = 11 + n
      BY <1>1
    <3> QED
      BY <1>5, <3>1
  <2> QED
    BY <1>3, <2>1 DEF Last
<1> DEFINE q == [instance_uuid |-> c[4], namespace_view_id |-> c[5],
                 scope |-> SubSeq(c, 7, 6 + c[6]), metadata_root |-> Last(c)]
<1>12. q = r
  BY <1>t, <1>6, <1>7, <1>9, <1>11 DEF x
<1>13. DecodeDescriptor(c) =
         IF /\ Len(c) >= 11 /\ SubSeq(c, 1, 3) = <<DescriptorMagic, 2, 1>>
            /\ Len(c) = 11 + c[6]
            /\ SubSeq(c, 7 + c[6], 10 + c[6]) = <<1, 1, 0, 0>>
            /\ NewDescriptor(q)
         THEN <<q>> ELSE Refused
  BY DEF DecodeDescriptor
<1>14. Len(c) >= 11 /\ Len(c) = 11 + c[6] /\ SubSeq(c, 7 + c[6], 10 + c[6]) = <<1, 1, 0, 0>>
  BY <1>1, <1>5, <1>7, <1>10 DEF foot
<1>15. SubSeq(c, 1, 3) = <<DescriptorMagic, 2, 1>>
  BY <1>8 DEF head
<1> HIDE DEF q
<1> QED
  BY <1>12, <1>13, <1>14, <1>15 DEF c

(* Where the cells of pieces joined one behind another stand. *)
Heights(pieces, h) ==
    /\ Len(pieces) \in Nat /\ (Len(pieces) = 0 => pieces = << >>) /\ h[0] = 0
    /\ \A k \in 1..Len(pieces) :
         pieces[k] \in Seq(Nat) /\ h[k] = h[k - 1] + Len(pieces[k])

Laid(t, pieces, n, h) ==
    /\ t \in Seq(Nat) /\ Len(t) = h[n]
    /\ \A k \in 0..n : h[k] \in Nat /\ h[k] <= h[n]
    /\ \A k \in 1..n : \A j \in 1..Len(pieces[k]) : t[h[k - 1] + j] = pieces[k][j]

LEMMA LaidNext ==
    ASSUME NEW pieces, NEW h, Heights(pieces, h), NEW n \in 1..Len(pieces),
           NEW t, Laid(t, pieces, n - 1, h)
    PROVE  Laid(t \o pieces[n], pieces, n, h)
<1> DEFINE v == pieces[n]
           c == t \o v
<1>1. /\ v \in Seq(Nat) /\ h[n] = h[n - 1] + Len(v) /\ n \in Nat /\ Len(v) \in Nat
      /\ t \in Seq(Nat) /\ Len(t) = h[n - 1] /\ n - 1 \in 0..n - 1
      /\ \A k \in 0..n - 1 : h[k] \in Nat /\ h[k] <= h[n - 1]
  BY DEF Heights, Laid
<1>2. Joined(c, t, v)
  BY <1>1, JoinIs
<1> HIDE DEF c, v
<1>3. c \in Seq(Nat) /\ Len(c) = h[n] /\ h[n] \in Nat
  BY <1>1, <1>2 DEF Joined
<1>4. ASSUME NEW k \in 0..n PROVE h[k] \in Nat /\ h[k] <= h[n]
  <2>1. CASE k = n
    BY <1>3, <2>1
  <2>2. CASE k # n
    <3>1. k \in 0..n - 1
      BY <1>1, <2>2
    <3>2. h[k] \in Nat /\ h[k] <= h[n - 1] /\ h[n - 1] \in Nat
      BY <1>1, <3>1
    <3> QED
      BY <1>1, <3>2
  <2> QED
    BY <2>1, <2>2
<1>5. ASSUME NEW k \in 1..n, NEW j \in 1..Len(pieces[k])
      PROVE  c[h[k - 1] + j] = pieces[k][j]
  <2>1. CASE k = n
    <3>1. c[Len(t) + j] = v[j]
      BY <1>2, <2>1 DEF Joined, v
    <3> QED
      BY <1>1, <2>1, <3>1 DEF v
  <2>2. CASE k # n
    <3>1. k \in 1..n - 1 /\ k \in 0..n - 1 /\ k - 1 \in 0..n - 1 /\ k \in 1..Len(pieces)
      BY <1>1, <2>2 DEF Heights
    <3>2. t[h[k - 1] + j] = pieces[k][j]
      BY <3>1 DEF Laid
    <3>3. h[k - 1] + j \in 1..Len(t)
      <4>1. h[k - 1] \in Nat /\ h[k] \in Nat /\ h[k] <= h[n - 1] /\ h[n - 1] \in Nat
        BY <1>1, <3>1
      <4>2. h[k] = h[k - 1] + Len(pieces[k]) /\ Len(pieces[k]) \in Nat
        BY <3>1 DEF Heights
      <4>3. \A x, y, z, l \in Nat : \A i \in 1..l : y = x + l /\ y <= z => x + i \in 1..z
        OBVIOUS
      <4> QED
        BY <1>1, <4>1, <4>2, <4>3, Zenon
    <3>4. c[h[k - 1] + j] = t[h[k - 1] + j]
      BY <1>2, <3>3 DEF Joined
    <3> QED
      BY <3>2, <3>4
  <2> QED
    BY <2>1, <2>2
<1>6. Laid(c, pieces, n, h)
  BY <1>3, <1>4, <1>5 DEF Laid
<1> QED
  BY <1>6 DEF c, v

LEMMA FlattenLaid ==
    ASSUME NEW pieces, NEW h, Heights(pieces, h)
    PROVE  Laid(FlattenSeq(pieces), pieces, Len(pieces), h)
<1> DEFINE n == Len(pieces)
<1>1. n \in Nat
  BY DEF Heights
<1>2. Laid(<< >>, pieces, 0, h)
  BY DEF Heights, Laid
<1>3. CASE n = 0
  <2>1. FlattenSeq(pieces) = << >>
    BY <1>3 DEF FlattenSeq, Heights
  <2> QED
    BY <1>2, <1>3, <2>1
<1>4. CASE n # 0
  <2>1. PICK got : /\ FlattenSeq(pieces) = got[n]
                   /\ \A k \in 1..n : got[k] = IF k = 1 THEN pieces[1]
                                               ELSE got[k - 1] \o pieces[k]
    <3>1. Len(pieces) \in Nat \ {0}
      BY <1>1, <1>4
    <3> QED
      BY <3>1, FlattenRows
  <2> DEFINE S == {k \in 0..n : k = 0 \/ Laid(got[k], pieces, k, h)}
  <2>2. 0 \in S
    BY <1>1
  <2>3. \A k \in 1..n : k - 1 \in S => k \in S
    <3> SUFFICES ASSUME NEW k \in 1..n, k - 1 \in S PROVE Laid(got[k], pieces, k, h)
      BY <1>1
    <3>1. CASE k = 1
      <4>1. 1 - 1 = 0 /\ 1 \in 1..Len(pieces)
        BY <1>1, <1>4
      <4>2. Laid(<< >> \o pieces[1], pieces, 1, h)
        <5>1. Laid(<< >>, pieces, 1 - 1, h)
          BY <1>2, <4>1
        <5> QED
          BY <4>1, <5>1, LaidNext
      <4>3. pieces[1] \in Seq(Nat)
        BY <4>1 DEF Heights
      <4>4. << >> \o pieces[1] = pieces[1]
        BY <4>3
      <4>5. got[1] = pieces[1]
        BY <2>1, <3>1
      <4> QED
        BY <3>1, <4>2, <4>4, <4>5
    <3>2. CASE k # 1
      <4>1. k - 1 # 0 /\ k \in 1..Len(pieces)
        BY <3>2
      <4>2. Laid(got[k - 1], pieces, k - 1, h)
        BY <4>1
      <4>3. got[k] = got[k - 1] \o pieces[k]
        BY <2>1, <3>2
      <4>4. Laid(got[k - 1] \o pieces[k], pieces, k, h)
        BY <4>1, <4>2, LaidNext
      <4> QED
        BY <4>3, <4>4
    <3> QED
      BY <3>1, <3>2
  <2> HIDE DEF S
  <2>4. \A k \in 0..n : k \in S
    BY <1>1, <2>2, <2>3, StepByStep
  <2>5. n \in S
    BY <1>1, <2>4
  <2> QED
    BY <1>4, <2>1, <2>5 DEF S
<1> QED
  BY <1>3, <1>4

(* The length, the label, the presence of a binding and the children of a   *)
(* row stand where the decoder looks for them.                              *)
RowAt(c, r, b, f) ==
    LET n == Len(r.label)
        q == (3 + n) + Len(b)
    IN  /\ c \in Seq(Nat) /\ Len(c) = q + Len(f)
        /\ c[1] = NodeDomain /\ c[2] = n
        /\ \A k \in 1..n : c[2 + k] = r.label[k]
        /\ \A k \in 1..Len(b) : c[(2 + n) + k] = b[k]
        /\ c[q] = Len(r.list)
        /\ \A k \in 1..Len(f) : c[q + k] = f[k]

LEMMA JoinedAt ==
    ASSUME NEW s \in Seq(Nat), NEW t \in Seq(Nat)
    PROVE  /\ s \o t \in Seq(Nat) /\ Len(s \o t) = Len(s) + Len(t)
           /\ \A k \in 1..Len(s) : (s \o t)[k] = s[k]
           /\ \A k \in 1..Len(t) : (s \o t)[Len(s) + k] = t[k]
<1>1. Joined(s \o t, s, t)
  BY JoinIs
<1> QED
  BY <1>1 DEF Joined

LEMMA RowStands ==
    ASSUME NEW r \in Lists, NEW b \in Seq(Nat), NEW f \in Seq(Nat),
           NEW c, c = <<NodeDomain, Len(r.label)>> \o r.label \o b \o <<Len(r.list)>> \o f
    PROVE  RowAt(c, r, b, f)
<1> DEFINE l  == r.label
           n  == Len(l)
           a  == <<NodeDomain, n>>
           d  == <<Len(r.list)>>
           s1 == a \o l
           s2 == s1 \o b
           s3 == s2 \o d
           m  == Len(b)
<1>1. /\ l \in Seq(Nat) /\ n \in Nat /\ Len(r.list) \in Nat
  <2>1. l \in Seq(Byte) /\ r.list \in Seq(Byte \X Binding)
    BY DEF Lists
  <2>2. l \in Seq(Nat) /\ Len(r.list) \in Nat
    BY <2>1, BytesIn
  <2> QED
    BY <2>2
<1>2. /\ a \in Seq(Nat) /\ Len(a) = 2 /\ a[1] = NodeDomain /\ a[2] = n
      /\ d \in Seq(Nat) /\ Len(d) = 1 /\ d[1] = Len(r.list)
      /\ m \in Nat /\ Len(f) \in Nat
  BY <1>1 DEF NodeDomain
<1>3. c = s3 \o f
  OBVIOUS
<1> HIDE DEF a, d, l
<1>4. /\ s1 \in Seq(Nat) /\ Len(s1) = 2 + n
      /\ \A k \in 1..2 : s1[k] = a[k]
      /\ \A k \in 1..n : s1[2 + k] = l[k]
  <2>1. /\ s1 \in Seq(Nat) /\ Len(s1) = Len(a) + Len(l)
        /\ \A k \in 1..Len(a) : s1[k] = a[k]
        /\ \A k \in 1..Len(l) : s1[Len(a) + k] = l[k]
    BY <1>1, <1>2, JoinedAt, Zenon
  <2>2. Len(l) = n
    OBVIOUS
  <2> HIDE DEF s1, n
  <2> QED
    BY <1>2, <2>1, <2>2
<1> HIDE DEF s1
<1>5. /\ s2 \in Seq(Nat) /\ Len(s2) = (2 + n) + m
      /\ \A k \in 1..2 + n : s2[k] = s1[k]
      /\ \A k \in 1..m : s2[(2 + n) + k] = b[k]
  <2>1. /\ s2 \in Seq(Nat) /\ Len(s2) = Len(s1) + m
        /\ \A k \in 1..Len(s1) : s2[k] = s1[k]
        /\ \A k \in 1..m : s2[Len(s1) + k] = b[k]
    BY <1>4, JoinedAt
  <2> HIDE DEF s2, m, n
  <2> QED
    BY <1>4, <2>1
<1> HIDE DEF s2
<1>6. /\ s3 \in Seq(Nat) /\ Len(s3) = ((2 + n) + m) + 1
      /\ \A k \in 1..(2 + n) + m : s3[k] = s2[k]
      /\ s3[((2 + n) + m) + 1] = Len(r.list)
  <2>1. /\ s3 \in Seq(Nat) /\ Len(s3) = Len(s2) + Len(d)
        /\ \A k \in 1..Len(s2) : s3[k] = s2[k]
        /\ \A k \in 1..Len(d) : s3[Len(s2) + k] = d[k]
    BY <1>2, <1>5, JoinedAt
  <2>2. 1 \in 1..Len(d)
    BY <1>2
  <2> HIDE DEF s3, m, n
  <2> QED
    BY <1>2, <1>5, <2>1, <2>2
<1> HIDE DEF s3
<1>7. /\ c \in Seq(Nat) /\ Len(c) = (((2 + n) + m) + 1) + Len(f)
      /\ \A k \in 1..((2 + n) + m) + 1 : c[k] = s3[k]
      /\ \A k \in 1..Len(f) : c[(((2 + n) + m) + 1) + k] = f[k]
  <2>1. /\ c \in Seq(Nat) /\ Len(c) = Len(s3) + Len(f)
        /\ \A k \in 1..Len(s3) : c[k] = s3[k]
        /\ \A k \in 1..Len(f) : c[Len(s3) + k] = f[k]
    <3>1. Joined(s3 \o f, s3, f)
      BY <1>6, JoinIs, Zenon
    <3>2. Joined(c, s3, f)
      BY <1>3, <3>1
    <3> QED
      BY <3>2 DEF Joined
  <2> HIDE DEF m, n
  <2> QED
    BY <1>6, <2>1
<1> HIDE DEF m, n
<1>8. ((2 + n) + m) + 1 = (3 + n) + m
  BY <1>1, <1>2
<1>9. c[1] = NodeDomain /\ c[2] = n
  <2>1. ASSUME NEW k \in 1..2 PROVE c[k] = a[k]
    <3>1. k \in 1..2 + n /\ k \in 1..(2 + n) + m /\ k \in 1..((2 + n) + m) + 1
      BY <1>1, <1>2
    <3> QED
      BY <1>4, <1>5, <1>6, <1>7, <3>1
  <2>2. 1 \in 1..2 /\ 2 \in 1..2
    OBVIOUS
  <2> QED
    BY <1>2, <2>1, <2>2
<1>10. ASSUME NEW k \in 1..n PROVE c[2 + k] = l[k]
  <2>1. 2 + k \in 1..2 + n /\ 2 + k \in 1..(2 + n) + m /\ 2 + k \in 1..((2 + n) + m) + 1
    BY <1>1, <1>2
  <2> QED
    <3>1. c[2 + k] = s3[2 + k] /\ s3[2 + k] = s2[2 + k] /\ s2[2 + k] = s1[2 + k]
      BY <1>5, <1>6, <1>7, <2>1, Zenon
    <3>2. s1[2 + k] = l[k]
      BY <1>4, Zenon
    <3> QED
      BY <3>1, <3>2, Zenon
<1>11. ASSUME NEW k \in 1..m PROVE c[(2 + n) + k] = b[k]
  <2>1. (2 + n) + k \in 1..(2 + n) + m /\ (2 + n) + k \in 1..((2 + n) + m) + 1
    BY <1>1, <1>2
  <2> QED
    BY <1>5, <1>6, <1>7, <2>1
<1>12. c[(3 + n) + m] = Len(r.list)
  <2>1. ((2 + n) + m) + 1 \in 1..((2 + n) + m) + 1
    BY <1>1, <1>2
  <2> QED
    BY <1>6, <1>7, <1>8, <2>1
<1>13. \A k \in 1..Len(f) : c[((3 + n) + m) + k] = f[k]
  BY <1>7, <1>8
<1>14. Len(c) = ((3 + n) + m) + Len(f)
  BY <1>7, <1>8
<1> QED
  BY <1>7, <1>9, <1>10, <1>11, <1>12, <1>13, <1>14 DEF RowAt, l, m, n

LEMMA PairsLaid ==
    ASSUME NEW list \in Seq(Byte \X Binding)
    PROVE  /\ FlattenSeq(list) \in Seq(Nat) /\ Len(FlattenSeq(list)) = 2 * Len(list)
           /\ \A k \in 1..Len(list) : /\ FlattenSeq(list)[2 * k - 1] = list[k][1]
                                      /\ FlattenSeq(list)[2 * k] = list[k][2]
<1> DEFINE n == Len(list)
           h == [k \in 0..n |-> 2 * k]
           f == FlattenSeq(list)
<1>1. /\ n \in Nat /\ (n = 0 => list = << >>)
      /\ \A k \in 1..n : list[k] \in Byte \X Binding
  OBVIOUS
<1>2. ASSUME NEW k \in 1..n PROVE list[k] \in Seq(Nat) /\ Len(list[k]) = 2
  <2>1. PICK a \in Byte, b \in Binding : list[k] = <<a, b>>
    BY <1>1
  <2>2. a \in Nat /\ b \in Nat
    <3>1. Binding \subseteq Nat
      BY RecordsAssumption
    <3> QED
      BY <3>1 DEF Byte
  <2>3. <<a, b>> \in Seq(Nat) /\ Len(<<a, b>>) = 2
    BY <2>2
  <2> QED
    BY <2>1, <2>3, Zenon
<1>3. h[0] = 0 /\ h[n] = 2 * n /\ \A k \in 1..n : h[k - 1] = 2 * k - 2 /\ h[k] = 2 * k
  <2>1. 0 \in 0..n /\ n \in 0..n /\ \A k \in 1..n : k \in 0..n /\ k - 1 \in 0..n
    BY <1>1
  <2> HIDE DEF n
  <2>2. \A k \in 1..n : 2 * (k - 1) = 2 * k - 2
    BY <1>1
  <2> QED
    BY <2>1, <2>2
<1> HIDE DEF h
<1>4. Heights(list, h)
  <2>1. ASSUME NEW k \in 1..n PROVE list[k] \in Seq(Nat) /\ h[k] = h[k - 1] + Len(list[k])
    <3>1. list[k] \in Seq(Nat) /\ Len(list[k]) = 2
      BY <1>2
    <3>2. h[k - 1] = 2 * k - 2 /\ h[k] = 2 * k /\ k \in Nat
      BY <1>1, <1>3
    <3>3. \A i \in Nat : 2 * i = (2 * i - 2) + 2
      OBVIOUS
    <3> QED
      BY <3>1, <3>2, <3>3, Zenon
  <2> QED
    BY <1>1, <1>3, <2>1, Zenon DEF Heights
<1>5. Laid(f, list, n, h)
  BY <1>4, FlattenLaid
<1> HIDE DEF f
<1>6. f \in Seq(Nat) /\ Len(f) = 2 * n
  BY <1>3, <1>5 DEF Laid
<1>7. ASSUME NEW k \in 1..n PROVE f[2 * k - 1] = list[k][1] /\ f[2 * k] = list[k][2]
  <2>1. 1 \in 1..Len(list[k]) /\ 2 \in 1..Len(list[k])
    <3>1. 1 \in 1..2 /\ 2 \in 1..2
      OBVIOUS
    <3> QED
      BY <1>2, <3>1, Zenon
  <2>2. f[h[k - 1] + 1] = list[k][1] /\ f[h[k - 1] + 2] = list[k][2]
    BY <1>5, <2>1 DEF Laid
  <2>3. h[k - 1] + 1 = 2 * k - 1 /\ h[k - 1] + 2 = 2 * k
    <3>1. h[k - 1] = 2 * k - 2 /\ k \in Nat
      BY <1>1, <1>3
    <3> QED
      BY <3>1
  <2> QED
    BY <2>2, <2>3
<1> QED
  BY <1>6, <1>7 DEF f

LEMMA RowRead ==
    ASSUME NEW r \in Lists, Accepts(r)
    PROVE  DecodeRow(RowOf(r)) = <<r>>
<1> DEFINE l == r.label
           n == Len(l)
           L == Len(r.list)
           b == IF r.binding = None THEN <<0>> ELSE <<1, r.binding>>
           m == Len(b)
           f == FlattenSeq(r.list)
           c == RowOf(r)
           q == (3 + n) + m
<1>t. /\ l \in Seq(Byte) /\ r.binding \in Binding \cup {None}
      /\ r.list \in Seq(Byte \X Binding)
      /\ r = [label |-> r.label, binding |-> r.binding, list |-> r.list]
  BY DEF Lists
<1>1. l \in Seq(Nat) /\ n \in Nat /\ L \in Nat
  BY <1>t, BytesIn
<1>2. /\ b \in Seq(Nat) /\ m \in {1, 2} /\ b[1] = m - 1
      /\ (m = 1 <=> r.binding = None) /\ (m = 2 => b[2] = r.binding)
  <2>1. CASE r.binding = None
    BY <2>1
  <2>2. CASE r.binding # None
    <3>1. r.binding \in Nat
      BY <1>t, <2>2, RecordsAssumption
    <3>2. b = <<1, r.binding>>
      BY <2>2
    <3> QED
      BY <2>2, <3>1, <3>2
  <2> QED
    BY <2>1, <2>2
<1>3. /\ f \in Seq(Nat) /\ Len(f) = 2 * L
      /\ \A k \in 1..L : f[2 * k - 1] = r.list[k][1] /\ f[2 * k] = r.list[k][2]
  BY <1>t, PairsLaid
<1>4. RowAt(c, r, b, f)
  <2>1. c = <<NodeDomain, n>> \o l \o b \o <<L>> \o f
    BY DEF RowOf
  <2> HIDE DEF c, b, f
  <2> QED
    BY <1>2, <1>3, <2>1, RowStands
<1>5. Len(l) <= PathMaxBytes /\ L <= ChildMaxCount /\ EdgesAscend(r.list)
  BY DEF Accepts, Canonical, AsNode, Node
<1> HIDE DEF b, f, c
<1>6. /\ c \in Seq(Nat) /\ Len(c) = q + Len(f)
      /\ c[1] = NodeDomain /\ c[2] = n
      /\ \A k \in 1..n : c[2 + k] = l[k]
      /\ \A k \in 1..m : c[(2 + n) + k] = b[k]
      /\ c[q] = L
      /\ \A k \in 1..Len(f) : c[q + k] = f[k]
  BY <1>4 DEF RowAt
<1> HIDE DEF l, n, L, m
<1>7. LabelEnd(c) = 2 + n
  BY <1>6 DEF LabelEnd
<1>8. Present(c) = m - 1
  <2>1. 1 \in 1..m
    BY <1>2
  <2>2. c[(2 + n) + 1] = b[1]
    BY <1>6, <2>1
  <2> QED
    BY <1>2, <1>7, <2>2 DEF Present
<1>9. CountAt(c) = q
  BY <1>1, <1>2, <1>7, <1>8 DEF CountAt
<1> HIDE DEF q
<1>10. Children(c) = r.list
  <2>1. Children(c) = [k \in 1..L |-> <<c[q + 2 * k - 1], c[q + 2 * k]>>]
    BY <1>6, <1>9 DEF Children
  <2>2. ASSUME NEW k \in 1..L PROVE <<c[q + 2 * k - 1], c[q + 2 * k]>> = r.list[k]
    <3>0. q \in Nat /\ k \in Nat
      BY <1>1, <1>2 DEF q
    <3>1. /\ q + 2 * k - 1 = q + (2 * k - 1)
          /\ 2 * k - 1 \in 1..Len(f) /\ 2 * k \in 1..Len(f)
      BY <1>1, <1>3, <3>0
    <3>2. c[q + 2 * k - 1] = f[2 * k - 1] /\ c[q + 2 * k] = f[2 * k]
      BY <1>6, <3>1
    <3>3. f[2 * k - 1] = r.list[k][1] /\ f[2 * k] = r.list[k][2]
      BY <1>3
    <3>4. r.list[k] = <<r.list[k][1], r.list[k][2]>>
      BY <1>t DEF L
    <3> QED
      BY <3>2, <3>3, <3>4, Zenon
  <2>3. r.list = [k \in 1..L |-> r.list[k]]
    BY <1>t DEF L
  <2> QED
    BY <2>1, <2>2, <2>3
<1>11. SubSeq(c, 3, LabelEnd(c)) = l
  <2>1. \A k \in 1..Len(l) : c[(3 + k) - 1] = l[k]
    <3> SUFFICES ASSUME NEW k \in 1..n PROVE c[(3 + k) - 1] = l[k]
      BY DEF n
    <3>1. (3 + k) - 1 = 2 + k
      BY <1>1
    <3> QED
      BY <1>6, <3>1
  <2>2. (2 + n) + 1 = 3 + Len(l) /\ 2 + n <= Len(c) /\ 2 + n \in Nat /\ 3 \in Nat \ {0}
    BY <1>1, <1>2, <1>3, <1>6 DEF n, q
  <2>3. SubSeq(c, 3, 2 + n) = l
    <3>1. LiesAt(c, l, 3, 2 + n)
      BY <1>1, <1>6, <2>1, <2>2, Zenon DEF LiesAt
    <3> QED
      BY <3>1, CutOut, Zenon
  <2> QED
    BY <1>7, <2>3
<1>12. (IF Present(c) = 1 THEN c[LabelEnd(c) + 2] ELSE None) = r.binding
  <2>1. CASE m = 1
    BY <1>2, <1>8, <2>1
  <2>2. CASE m = 2
    <3>1. c[(2 + n) + 2] = b[2]
      BY <1>6, <2>2
    <3>2. Present(c) = 1
      BY <1>8, <2>2
    <3> QED
      BY <1>2, <1>7, <2>2, <3>1, <3>2
  <2> QED
    BY <1>2, <2>1, <2>2
<1>13. Decoded(c) = r
  <2>1. Decoded(c) = Made(l, r.binding, r.list)
    BY <1>10, <1>11, <1>12 DEF Decoded
  <2> QED
    BY <1>t, <2>1 DEF Made, l
<1>14. Readable(c)
  <2>1. c[1] = NodeDomain /\ c[2] <= PathMaxBytes
    BY <1>5, <1>6 DEF n
  <2>2. Present(c) \in {0, 1}
    BY <1>2, <1>8
  <2>3. c[CountAt(c)] = L /\ FewEnough(L)
    BY <1>5, <1>6, <1>9 DEF L, FewEnough
  <2>4. /\ Len(c) >= 2 /\ LabelEnd(c) + 1 <= Len(c) /\ CountAt(c) <= Len(c)
        /\ Len(c) = CountAt(c) + 2 * L
    BY <1>1, <1>2, <1>3, <1>6, <1>7, <1>9 DEF q
  <2> QED
    BY <2>1, <2>2, <2>3, <2>4 DEF Readable
<1>15. WellKinded(r)
  <2>1. ASSUME NEW k \in DOMAIN r.list
        PROVE  r.list[k][1] \in Byte /\ r.list[k][2] \in Binding
    <3>1. r.list[k] \in Byte \X Binding
      BY <1>t
    <3> QED
      BY <3>1
  <2> QED
    BY <1>t, <2>1 DEF WellKinded, l
<1> QED
  BY <1>13, <1>14, <1>15 DEF DecodeRow, c

(* The offsets written grow by each length. *)
LEMMA OffsetNext ==
    ASSUME NEW objs, NEW N \in Nat, N = Len(objs), \A k \in 1..N : Len(objs[k]) \in Nat
    PROVE  /\ OffsetOf(objs, 1) = 0 /\ \A n \in 1..N + 1 : OffsetOf(objs, n) \in Nat
           /\ \A n \in 1..N : OffsetOf(objs, n + 1) = OffsetOf(objs, n) + Len(objs[n])
<1>1. PICK g : \A k \in 0..N : g[k] = IF k = 0 THEN 0 ELSE g[k - 1] + Len(objs[k])
  <2>1. PICK h : OffsetTable(objs, N + 1, h)
    BY OffsetRows
  <2> QED
    BY <2>1 DEF OffsetTable
<1>2. ASSUME NEW n \in 1..N + 1 PROVE OffsetOf(objs, n) = g[n - 1]
  <2>1. PICK h : OffsetTable(objs, n, h)
    BY OffsetRows
  <2>2. /\ OffsetOf(objs, n) = h[n - 1]
        /\ \A k \in 0..N : h[k] = IF k = 0 THEN 0 ELSE h[k - 1] + Len(objs[k])
    BY <2>1 DEF OffsetTable
  <2> DEFINE S == {k \in 0..N : h[k] = g[k]}
  <2>3. 0 \in S
    BY <1>1, <2>2
  <2>4. \A k \in 1..N : k - 1 \in S => k \in S
    BY <1>1, <2>2
  <2> HIDE DEF S
  <2>5. n - 1 \in S
    <3>1. n - 1 \in 0..N
      OBVIOUS
    <3>2. \A k \in 0..N : k \in S
      BY <2>3, <2>4, StepByStep
    <3> QED
      BY <3>1, <3>2
  <2> QED
    BY <2>2, <2>5 DEF S
<1>3. \A k \in 0..N : g[k] \in Nat
  <2> DEFINE S == {k \in 0..N : g[k] \in Nat}
  <2>1. 0 \in S
    BY <1>1
  <2>2. ASSUME NEW k \in 1..N, k - 1 \in S PROVE k \in S
    <3>1. g[k] = g[k - 1] + Len(objs[k]) /\ g[k - 1] \in Nat /\ Len(objs[k]) \in Nat
      BY <1>1, <2>2
    <3> QED
      BY <3>1
  <2> HIDE DEF S
  <2>3. \A k \in 0..N : k \in S
    BY <2>1, <2>2, StepByStep
  <2> QED
    BY <2>3 DEF S
<1>4. ASSUME NEW n \in 1..N
      PROVE  OffsetOf(objs, n + 1) = OffsetOf(objs, n) + Len(objs[n])
  <2>1. n + 1 \in 1..N + 1 /\ (n + 1) - 1 = n /\ n \in 1..N + 1
    OBVIOUS
  <2>2. OffsetOf(objs, n + 1) = g[(n + 1) - 1] /\ OffsetOf(objs, n) = g[n - 1]
    BY <1>2, <2>1
  <2>3. g[n] = g[n - 1] + Len(objs[n])
    BY <1>1
  <2> QED
    BY <2>1, <2>2, <2>3
<1>5. OffsetOf(objs, 1) = 0
  <2>1. 1 \in 1..N + 1 /\ 1 - 1 = 0
    OBVIOUS
  <2> QED
    BY <1>1, <1>2, <2>1
<1>6. ASSUME NEW n \in 1..N + 1 PROVE OffsetOf(objs, n) \in Nat
  BY <1>2, <1>3
<1> QED
  BY <1>4, <1>5, <1>6

(* The rows of a table, three cells each. *)
Triples(rows, n, x, y, z) ==
    /\ \A k \in 1..n : x[k] \in Nat /\ y[k] \in Nat /\ z[k] \in Nat
    /\ rows = [k \in 1..n |-> <<x[k], y[k], z[k]>>]

TriplesAt(f, n, x, y, z) ==
    /\ f \in Seq(Nat) /\ Len(f) = 3 * n
    /\ \A k \in 1..n : f[3 * k - 2] = x[k] /\ f[3 * k - 1] = y[k] /\ f[3 * k] = z[k]

LEMMA TriplesLaid ==
    ASSUME NEW n \in Nat, NEW x, NEW y, NEW z, NEW rows, Triples(rows, n, x, y, z)
    PROVE  TriplesAt(FlattenSeq(rows), n, x, y, z)
<1> DEFINE h == [k \in 0..n |-> 3 * k]
           f == FlattenSeq(rows)
<1>0. /\ \A k \in 1..n : x[k] \in Nat /\ y[k] \in Nat /\ z[k] \in Nat
      /\ rows = [k \in 1..n |-> <<x[k], y[k], z[k]>>]
  BY DEF Triples
<1>1. Len(rows) = n /\ (n = 0 => rows = << >>)
  BY <1>0
<1>2. ASSUME NEW k \in 1..n
      PROVE  /\ rows[k] \in Seq(Nat) /\ Len(rows[k]) = 3
             /\ rows[k][1] = x[k] /\ rows[k][2] = y[k] /\ rows[k][3] = z[k]
  <2>1. rows[k] = <<x[k], y[k], z[k]>>
    BY <1>0
  <2>2. \A a, b, d \in Nat : <<a, b, d>> \in Seq(Nat) /\ Len(<<a, b, d>>) = 3
    OBVIOUS
  <2>3. \A a, b, d : <<a, b, d>>[1] = a /\ <<a, b, d>>[2] = b /\ <<a, b, d>>[3] = d
    OBVIOUS
  <2> QED
    BY <1>0, <2>1, <2>2, <2>3, Zenon
<1>3. h[0] = 0 /\ h[n] = 3 * n /\ \A k \in 1..n : h[k - 1] = 3 * k - 3 /\ h[k] = 3 * k
  <2>1. 0 \in 0..n /\ n \in 0..n /\ \A k \in 1..n : k \in 0..n /\ k - 1 \in 0..n
    OBVIOUS
  <2>2. \A k \in 1..n : 3 * (k - 1) = 3 * k - 3
    OBVIOUS
  <2> QED
    BY <2>1, <2>2
<1> HIDE DEF h
<1>4. Heights(rows, h)
  <2>1. ASSUME NEW k \in 1..n PROVE rows[k] \in Seq(Nat) /\ h[k] = h[k - 1] + Len(rows[k])
    <3>1. rows[k] \in Seq(Nat) /\ Len(rows[k]) = 3
      BY <1>2
    <3>2. h[k - 1] = 3 * k - 3 /\ h[k] = 3 * k /\ k \in Nat
      BY <1>3
    <3>3. \A i \in Nat : 3 * i = (3 * i - 3) + 3
      OBVIOUS
    <3> QED
      BY <3>1, <3>2, <3>3, Zenon
  <2> QED
    BY <1>1, <1>3, <2>1, Zenon DEF Heights
<1>5. Laid(f, rows, n, h)
  BY <1>1, <1>4, FlattenLaid
<1> HIDE DEF f
<1>6. f \in Seq(Nat) /\ Len(f) = 3 * n
  BY <1>3, <1>5 DEF Laid
<1>7. ASSUME NEW k \in 1..n
      PROVE  f[3 * k - 2] = x[k] /\ f[3 * k - 1] = y[k] /\ f[3 * k] = z[k]
  <2>1. 1 \in 1..Len(rows[k]) /\ 2 \in 1..Len(rows[k]) /\ 3 \in 1..Len(rows[k])
    <3>1. 1 \in 1..3 /\ 2 \in 1..3 /\ 3 \in 1..3
      OBVIOUS
    <3> QED
      BY <1>2, <3>1, Zenon
  <2>2. /\ f[h[k - 1] + 1] = rows[k][1] /\ f[h[k - 1] + 2] = rows[k][2]
        /\ f[h[k - 1] + 3] = rows[k][3]
    BY <1>5, <2>1, Zenon DEF Laid
  <2>3. /\ h[k - 1] + 1 = 3 * k - 2 /\ h[k - 1] + 2 = 3 * k - 1 /\ h[k - 1] + 3 = 3 * k
    <3>1. h[k - 1] = 3 * k - 3 /\ k \in Nat
      BY <1>3
    <3> QED
      BY <3>1
  <2>4. rows[k][1] = x[k] /\ rows[k][2] = y[k] /\ rows[k][3] = z[k]
    BY <1>2
  <2> QED
    BY <2>2, <2>3, <2>4, Zenon
<1> QED
  BY <1>6, <1>7 DEF f, TriplesAt

(* What the decoder finds in a table that was written. *)
EntryAt(c, r, n) ==
    /\ Id(c, n) = Sha[r[n]] /\ LenOf(c, n) = Len(r[n]) /\ Off(c, n) = OffsetOf(r, n)
    /\ r[n] \in Seq(Nat) /\ OffsetOf(r, n) \in Nat
    /\ OffsetOf(r, n + 1) \in Nat /\ OffsetOf(r, n + 1) <= OffsetOf(r, Len(r) + 1)
    /\ OffsetOf(r, n + 1) = OffsetOf(r, n) + Len(r[n])
    /\ ExpectOff(c, n) = OffsetOf(r, n)
    /\ ObjectAt(c, n) = r[n]

TableAt(c, r) ==
    /\ c \in Seq(Nat) /\ c[1] = Len(r) /\ 3 * Len(r) + 1 <= Len(c)
    /\ Len(Data(c)) = OffsetOf(r, Len(r) + 1)
    /\ ExpectOff(c, Len(r) + 1) = OffsetOf(r, Len(r) + 1)
    /\ \A n \in 1..Len(r) : EntryAt(c, r, n)

LEMMA TableStands ==
    ASSUME NEW r \in Seq(DOMAIN Sha)
    PROVE  TableAt(EncodeObjects(r), r)
<1> DEFINE N == Len(r)
           x == [n \in 1..N |-> Sha[r[n]]]
           y == [n \in 1..N |-> Len(r[n])]
           z == [n \in 1..N |-> OffsetOf(r, n)]
           rows == [n \in DOMAIN r |-> <<Sha[r[n]], Len(r[n]), OffsetOf(r, n)>>]
           h == [n \in 0..N |-> OffsetOf(r, n + 1)]
           a == <<N>>
           T == FlattenSeq(rows)
           D == FlattenSeq(r)
           c == EncodeObjects(r)
<1>1. /\ N \in Nat /\ DOMAIN r = 1..N /\ (N = 0 => r = << >>)
      /\ \A n \in 1..N : r[n] \in DOMAIN Sha
  OBVIOUS
<1>2. \A n \in 1..N : r[n] \in Seq(Nat) /\ Sha[r[n]] \in Nat /\ Len(r[n]) \in Nat
  <2> SUFFICES ASSUME NEW n \in 1..N
               PROVE  r[n] \in Seq(Nat) /\ Sha[r[n]] \in Nat /\ Len(r[n]) \in Nat
    OBVIOUS
  <2>1. r[n] \in Seq(Nat) /\ Sha[r[n]] \in Nat
    BY <1>1, RecordsAssumption
  <2>2. \A s \in Seq(Nat) : Len(s) \in Nat
    OBVIOUS
  <2> QED
    BY <2>1, <2>2, Zenon
<1>3. /\ OffsetOf(r, 1) = 0 /\ \A n \in 1..N + 1 : OffsetOf(r, n) \in Nat
      /\ \A n \in 1..N : OffsetOf(r, n + 1) = OffsetOf(r, n) + Len(r[n])
  <2> HIDE DEF x, y, z, rows, h, a, T, D, c
  <2>1. \A n \in 1..N : Len(r[n]) \in Nat
    BY <1>2
  <2> QED
    BY <1>1, <2>1, OffsetNext
<1>4. \A n \in 1..N : x[n] = Sha[r[n]] /\ y[n] = Len(r[n]) /\ z[n] = OffsetOf(r, n)
  OBVIOUS
<1>5. rows = [n \in 1..N |-> <<x[n], y[n], z[n]>>]
  BY <1>1
<1>6. h[0] = OffsetOf(r, 1) /\ h[N] = OffsetOf(r, N + 1)
      /\ \A n \in 1..N : h[n - 1] = OffsetOf(r, n) /\ h[n] = OffsetOf(r, n + 1)
  <2>1. /\ 0 \in 0..N /\ N \in 0..N /\ 0 + 1 = 1
        /\ \A n \in 1..N : n \in 0..N /\ n - 1 \in 0..N /\ (n - 1) + 1 = n
    BY <1>1
  <2> QED
    BY <2>1
<1> HIDE DEF x, y, z, rows, h
<1>7. /\ T \in Seq(Nat) /\ Len(T) = 3 * N
      /\ \A n \in 1..N : /\ T[3 * n - 2] = Sha[r[n]] /\ T[3 * n - 1] = Len(r[n])
                         /\ T[3 * n] = OffsetOf(r, n)
  <2>1. \A n \in 1..N : x[n] \in Nat /\ y[n] \in Nat /\ z[n] \in Nat
    <3>1. \A n \in 1..N : n \in 1..N + 1
      BY <1>1
    <3> QED
      BY <1>2, <1>3, <1>4, <3>1, Zenon
  <2>2. /\ T \in Seq(Nat) /\ Len(T) = 3 * N
        /\ \A n \in 1..N : T[3 * n - 2] = x[n] /\ T[3 * n - 1] = y[n] /\ T[3 * n] = z[n]
    <3>1. Triples(rows, N, x, y, z)
      BY <1>5, <2>1 DEF Triples
    <3>2. TriplesAt(T, N, x, y, z)
      BY <1>1, <3>1, TriplesLaid
    <3> QED
      BY <3>2 DEF TriplesAt
  <2> HIDE DEF T, N
  <2> QED
    BY <1>4, <2>2, Zenon
<1>8. Heights(r, h)
  <2>1. ASSUME NEW n \in 1..N PROVE r[n] \in Seq(Nat) /\ h[n] = h[n - 1] + Len(r[n])
    <3> HIDE DEF N
    <3> QED
      BY <1>2, <1>3, <1>6, Zenon
  <2> QED
    BY <1>1, <1>3, <1>6, <2>1, Zenon DEF Heights
<1>9. Laid(D, r, N, h)
  BY <1>8, FlattenLaid
<1> HIDE DEF T, D
<1>10. D \in Seq(Nat) /\ Len(D) = OffsetOf(r, N + 1)
  BY <1>6, <1>9, Zenon DEF Laid
<1>11. c = (a \o T) \o D
  BY <1>1 DEF EncodeObjects, T, D, rows
<1>12. a \in Seq(Nat) /\ Len(a) = 1 /\ a[1] = N
  BY <1>1
<1> HIDE DEF a, c, N
<1>13. /\ c \in Seq(Nat) /\ Len(c) = (3 * N + 1) + Len(D) /\ Len(D) \in Nat
       /\ c[1] = N
       /\ \A k \in 1..3 * N : c[1 + k] = T[k]
       /\ \A k \in 1..Len(D) : c[(3 * N + 1) + k] = D[k]
  <2>1. Standing(c, a, T, D)
    BY <1>7, <1>10, <1>11, <1>12, StandsAt
  <2>2. /\ c \in Seq(Nat) /\ Len(c) = (Len(a) + Len(T)) + Len(D)
        /\ \A k \in 1..Len(a) : c[k] = a[k]
        /\ \A k \in 1..Len(T) : c[Len(a) + k] = T[k]
        /\ \A k \in 1..Len(D) : c[(Len(a) + Len(T)) + k] = D[k]
    BY <2>1 DEF Standing
  <2>3. Len(a) + Len(T) = 3 * N + 1 /\ 1 \in 1..Len(a)
    BY <1>1, <1>7, <1>12
  <2>4. c[1] = N
    BY <1>12, <2>2, <2>3
  <2>5. Len(D) \in Nat
    BY <1>10
  <2>6. Len(c) = (3 * N + 1) + Len(D) /\ \A k \in 1..Len(D) : c[(3 * N + 1) + k] = D[k]
    BY <2>2, <2>3
  <2>7. \A k \in 1..3 * N : c[1 + k] = T[k]
    BY <1>7, <1>12, <2>2
  <2> QED
    BY <2>2, <2>4, <2>5, <2>6, <2>7
<1>14. Data(c) = D
  <2>1. \A k \in 1..Len(D) : c[((3 * N + 2) + k) - 1] = D[k]
    <3> SUFFICES ASSUME NEW k \in 1..Len(D) PROVE c[((3 * N + 2) + k) - 1] = D[k]
      OBVIOUS
    <3>1. ((3 * N + 2) + k) - 1 = (3 * N + 1) + k
      BY <1>1, <1>13
    <3> QED
      BY <1>13, <3>1
  <2>2. /\ Len(c) + 1 = (3 * N + 2) + Len(D) /\ Len(c) <= Len(c) /\ Len(c) \in Nat
        /\ 3 * N + 2 \in Nat \ {0}
    BY <1>1, <1>13
  <2>3. SubSeq(c, 3 * N + 2, Len(c)) = D
    <3>1. LiesAt(c, D, 3 * N + 2, Len(c))
      BY <1>10, <1>13, <2>1, <2>2, Zenon DEF LiesAt
    <3> QED
      BY <3>1, CutOut, Zenon
  <2> QED
    BY <1>13, <2>3 DEF Data
<1>15. ASSUME NEW n \in 1..N
       PROVE  Id(c, n) = Sha[r[n]] /\ LenOf(c, n) = Len(r[n]) /\ Off(c, n) = OffsetOf(r, n)
  <2>1. /\ 3 * n - 1 = 1 + (3 * n - 2) /\ 3 * n = 1 + (3 * n - 1) /\ 3 * n + 1 = 1 + 3 * n
        /\ 3 * n - 2 \in 1..3 * N /\ 3 * n - 1 \in 1..3 * N /\ 3 * n \in 1..3 * N
    BY <1>1
  <2>2. /\ c[3 * n - 1] = T[3 * n - 2] /\ c[3 * n] = T[3 * n - 1] /\ c[3 * n + 1] = T[3 * n]
    BY <1>13, <2>1, Zenon
  <2> QED
    BY <1>7, <2>2, Zenon DEF Id, LenOf, Off
<1>16. \A n \in 1..N + 1 : ExpectOff(c, n) = OffsetOf(r, n)
  <2>1. \A n \in 1..N : LenOf(c, n) \in Nat /\ Len(r[n]) = LenOf(c, n)
    BY <1>2, <1>15
  <2> QED
    BY <1>1, <2>1, OffsetIs DEF N
<1>17. ASSUME NEW n \in 1..N PROVE EntryAt(c, r, n)
  <2>1. n \in 1..N + 1 /\ n + 1 \in 1..N + 1 /\ n \in 0..N
    BY <1>1
  <2>2. /\ OffsetOf(r, n) \in Nat /\ OffsetOf(r, n + 1) \in Nat
        /\ OffsetOf(r, n + 1) = OffsetOf(r, n) + Len(r[n])
    BY <1>3, <2>1
  <2>3. OffsetOf(r, n + 1) <= OffsetOf(r, N + 1)
    <3>1. h[n] <= h[N]
      BY <1>9, <2>1 DEF Laid
    <3> QED
      BY <1>6, <3>1
  <2>4. ObjectAt(c, n) = r[n]
    <3> DEFINE o == OffsetOf(r, n)
               l == Len(r[n])
    <3>1. r[n] \in Seq(Nat) /\ l \in Nat /\ o \in Nat /\ o + l <= Len(D)
      BY <1>2, <1>10, <2>2, <2>3
    <3>2. \A k \in 1..l : D[o + k] = r[n][k]
      <4>1. \A k \in 1..Len(r[n]) : D[h[n - 1] + k] = r[n][k]
        BY <1>9 DEF Laid
      <4> QED
        BY <1>6, <4>1, Zenon
    <3>3. l = Len(r[n])
      OBVIOUS
    <3> HIDE DEF o, l
    <3>4. \A k \in 1..Len(r[n]) : D[((o + 1) + k) - 1] = r[n][k]
      <4>1. \A k \in 1..l : ((o + 1) + k) - 1 = o + k
        BY <3>1
      <4> QED
        BY <3>2, <3>3, <4>1
    <3>5. /\ (o + l) + 1 = (o + 1) + Len(r[n]) /\ o + 1 \in Nat \ {0} /\ o + l \in Nat
      <4>1. \A i, j \in Nat : (i + j) + 1 = (i + 1) + j /\ i + 1 \in Nat \ {0} /\ i + j \in Nat
        OBVIOUS
      <4> QED
        BY <3>1, <3>3, <4>1, Zenon
    <3>6. SubSeq(D, o + 1, o + l) = r[n]
      <4>1. LiesAt(D, r[n], o + 1, o + l)
        BY <1>10, <3>1, <3>4, <3>5, Zenon DEF LiesAt
      <4> QED
        BY <4>1, CutOut, Zenon
    <3>7. Off(c, n) = o /\ LenOf(c, n) = l
      BY <1>15, <3>3 DEF o
    <3> QED
      BY <1>14, <3>6, <3>7 DEF ObjectAt
  <2> QED
    BY <1>2, <1>15, <1>16, <2>1, <2>2, <2>3, <2>4 DEF EntryAt, N
<1>18. N + 1 \in 1..N + 1 /\ 3 * N + 1 <= Len(c)
  BY <1>1, <1>13
<1>19. TableAt(c, r)
  BY <1>10, <1>13, <1>14, <1>16, <1>17, <1>18 DEF TableAt, N
<1> QED
  BY <1>19 DEF c

LEMMA WithinU32 ==
    ASSUME NEW a \in Nat, NEW b \in Nat, a <= b, IsU32(b)
    PROVE  IsU32(a)
<1>1. b \in 0..2^Width - 1
  BY DEF IsU32
<1>2. 2^Width \in Int
  BY ShaAssumption, Z3
<1>3. a \in 0..2^Width - 1
  BY <1>1, <1>2, ShaAssumption
<1> QED
  BY <1>3 DEF IsU32

LEMMA ObjectsRead ==
    ASSUME NEW r \in Seq(DOMAIN Sha), ObjectsOk(r)
    PROVE  DecodeObjects(EncodeObjects(r)) = IF IsInjective(r) THEN <<r>> ELSE Refused
<1> DEFINE N == Len(r)
           c == EncodeObjects(r)
           objs == [n \in 1..c[1] |-> ObjectAt(c, n)]
<1>1. /\ N \in Nat /\ DOMAIN r = 1..N /\ r = [n \in 1..N |-> r[n]]
      /\ \A n \in 1..N : r[n] \in DOMAIN Sha
  OBVIOUS
<1>2. /\ N \in 1..ObjectCountMax /\ \A n \in 1..N : Len(r[n]) <= ObjectMaxLen
      /\ IsU32(OffsetOf(r, N + 1)) /\ Len(c) <= ObjectMaxRaw + 1
  BY <1>1 DEF ObjectsOk
<1>3. /\ c \in Seq(Nat) /\ c[1] = N /\ 3 * N + 1 <= Len(c)
      /\ Len(Data(c)) = OffsetOf(r, N + 1) /\ ExpectOff(c, N + 1) = OffsetOf(r, N + 1)
      /\ \A n \in 1..N : EntryAt(c, r, n)
  <2>1. TableAt(c, r)
    BY TableStands
  <2> HIDE DEF c
  <2> QED
    BY <2>1 DEF TableAt
<1> HIDE DEF c, N
<1>4. c # << >>
  BY <1>1, <1>3
<1>5. NoneLeft(c)
  BY <1>3 DEF NoneLeft
<1>6. ASSUME NEW n \in 1..N
      PROVE  EntryOk(c, n) <=> \A k \in 1..n - 1 : Id(c, k) # Id(c, n)
  <2>1. /\ LenOf(c, n) = Len(r[n]) /\ Off(c, n) = OffsetOf(r, n)
        /\ OffsetOf(r, n) \in Nat /\ OffsetOf(r, n + 1) \in Nat
        /\ OffsetOf(r, n + 1) <= OffsetOf(r, N + 1)
        /\ OffsetOf(r, n + 1) = OffsetOf(r, n) + Len(r[n])
        /\ ExpectOff(c, n) = OffsetOf(r, n)
        /\ ObjectAt(c, n) = r[n] /\ Id(c, n) = Sha[r[n]] /\ r[n] \in Seq(Nat)
    BY <1>3 DEF EntryAt, N
  <2>2. Len(r[n]) \in Nat
    <3>1. \A s \in Seq(Nat) : Len(s) \in Nat
      OBVIOUS
    <3> QED
      BY <2>1, <3>1, Zenon
  <2>3. OffsetOf(r, N + 1) \in Nat
    <3>1. \A s \in Seq(Nat) : Len(s) \in Nat
      OBVIOUS
    <3>2. ASSUME NEW b, IsU32(b) PROVE b \in Int
      BY <3>2 DEF IsU32
    <3>3. OffsetOf(r, N + 1) \in Int
      BY <1>2, <3>2
    <3> QED
      BY <2>1, <3>3
  <2>4. Len(r[n]) <= OffsetOf(r, N + 1) /\ OffsetOf(r, n) <= OffsetOf(r, N + 1)
    BY <2>1, <2>2, <2>3
  <2>5. IsU32(Len(r[n])) /\ IsU32(OffsetOf(r, n)) /\ IsU32(OffsetOf(r, n + 1))
    BY <1>2, <2>1, <2>2, <2>3, <2>4, WithinU32
  <2>6. IsU32(LenOf(c, n)) /\ IsU32(Off(c, n)) /\ IsU32(ExpectOff(c, n) + LenOf(c, n))
    BY <2>1, <2>5
  <2>7. LenOk(LenOf(c, n)) /\ OffsetOk(c, n)
    BY <1>2, <2>1 DEF LenOk, OffsetOk
  <2>8. Off(c, n) + LenOf(c, n) <= Len(Data(c))
    BY <1>3, <2>1
  <2>9. ObjectAt(c, n) \in DOMAIN Sha /\ Sha[ObjectAt(c, n)] = Id(c, n)
    BY <1>1, <2>1
  <2> QED
    BY <2>6, <2>7, <2>8, <2>9, Zenon DEF EntryOk
<1>7. (\A n \in 1..N : EntryOk(c, n)) <=> IsInjective(r)
  <2>1. ASSUME IsInjective(r), NEW n \in 1..N, NEW k \in 1..n - 1
        PROVE  Id(c, k) # Id(c, n)
    <3>1. k \in 1..N /\ k # n
      BY <1>1
    <3>2. Id(c, n) = Sha[r[n]] /\ Id(c, k) = Sha[r[k]]
      BY <1>3, <3>1 DEF EntryAt
    <3>3. r[k] # r[n]
      BY <1>1, <2>1, <3>1 DEF IsInjective
    <3>4. Sha[r[k]] # Sha[r[n]]
      BY <1>1, <3>1, <3>3, ShaAssumption DEF IsInjective
    <3> QED
      BY <3>2, <3>4
  <2>2. ASSUME \A n \in 1..N : EntryOk(c, n) PROVE IsInjective(r)
    <3>1. ASSUME NEW i \in 1..N, NEW j \in 1..N, i < j PROVE r[i] # r[j]
      <4>1. i \in 1..j - 1
        BY <1>1, <3>1
      <4>2. Id(c, i) # Id(c, j)
        BY <1>6, <2>2, <4>1
      <4>3. Id(c, i) = Sha[r[i]] /\ Id(c, j) = Sha[r[j]]
        BY <1>3 DEF EntryAt
      <4> QED
        BY <4>2, <4>3
    <3>2. ASSUME NEW i \in 1..N, NEW j \in 1..N, r[i] = r[j] PROVE i = j
      <4>1. i < j \/ j < i \/ i = j
        BY <1>1
      <4> QED
        BY <3>1, <3>2, <4>1
    <3> QED
      BY <1>1, <3>2 DEF IsInjective
  <2> QED
    BY <1>6, <2>1, <2>2
<1>8. objs = r
  BY <1>1, <1>3 DEF EntryAt
<1>9. DecodeObjects(c) =
        IF /\ c # << >> /\ Len(c) <= ObjectMaxRaw + 1
           /\ c[1] \in 1..ObjectCountMax /\ 3 * c[1] + 1 <= Len(c)
           /\ \A n \in 1..c[1] : EntryOk(c, n)
           /\ NoneLeft(c)
        THEN <<objs>> ELSE << >>
  BY DEF DecodeObjects
<1> HIDE DEF objs
<1>10. DecodeObjects(c) = IF \A n \in 1..N : EntryOk(c, n) THEN <<objs>> ELSE << >>
  BY <1>2, <1>3, <1>4, <1>5, <1>9
<1> QED
  BY <1>7, <1>8, <1>10 DEF Refused, c

(* No manifest comes near its limit. *)
LEMMA JoinedLen ==
    ASSUME NEW s \in Seq(Nat), NEW x \in Seq(Nat), NEW n \in Nat, Len(s) = n
    PROVE  /\ s \o x \in Seq(Nat) /\ Len(s \o x) = n + Len(x)
           /\ s \o Field(x) \in Seq(Nat) /\ Len(s \o Field(x)) = (n + 1) + Len(x)
<1>1. FieldOf(Field(x), x)
  BY FieldIs
<1> DEFINE w == Field(x)
<1>2. w \in Seq(Nat) /\ Len(w) = Len(x) + 1 /\ Len(x) \in Nat
  BY <1>1 DEF FieldOf
<1> HIDE DEF w
<1>3. Joined(s \o x, s, x) /\ Joined(s \o w, s, w)
  BY <1>2, JoinIs
<1>4. s \o x \in Seq(Nat) /\ Len(s \o x) = Len(s) + Len(x)
  BY <1>3 DEF Joined
<1>5. s \o w \in Seq(Nat) /\ Len(s \o w) = Len(s) + Len(w)
  BY <1>3 DEF Joined
<1>6. \A i \in Nat : n + (i + 1) = (n + 1) + i
  OBVIOUS
<1>7. Len(s \o w) = (n + 1) + Len(x)
  BY <1>2, <1>5, <1>6, Zenon
<1> QED
  BY <1>4, <1>5, <1>7 DEF w

LEMMA SourceLen ==
    ASSUME NEW r \in Sources
    PROVE  EncodeSource(r) \in Seq(Nat) /\ Len(EncodeSource(r)) = 10 + Len(r.scope_path)
<1> DEFINE x1 == <<r.source_id>>
           x2 == r.scope_path
           x3 == <<Sha1>>
           x4 == <<r.commit_oid>>
           x5 == <<r.root_tree_oid>>
           g1 == <<SourceDomain>>
           g2 == g1 \o Field(x1)
           g3 == g2 \o Field(x2)
           g4 == g3 \o Field(x3)
           g5 == g4 \o Field(x4)
           g6 == g5 \o Field(x5)
           n  == Len(x2)
<1>1. EncodeSource(r) = g6
  BY DEF EncodeSource
<1>2. /\ r.source_id \in Nat /\ r.scope_path \in Seq(Byte) /\ r.commit_oid \in Nat
      /\ r.root_tree_oid \in Nat /\ Sha1 \in Nat /\ SourceDomain \in Nat
  BY DEF Sources, Sha1, SourceDomain
<1>3. /\ x1 \in Seq(Nat) /\ x2 \in Seq(Nat) /\ x3 \in Seq(Nat) /\ x4 \in Seq(Nat)
      /\ x5 \in Seq(Nat) /\ g1 \in Seq(Nat) /\ Len(g1) = 1
      /\ Len(x1) = 1 /\ Len(x3) = 1 /\ Len(x4) = 1 /\ Len(x5) = 1 /\ n \in Nat
  <2>1. x2 \in Seq(Nat)
    BY <1>2, BytesIn
  <2>2. n \in Nat
    BY <2>1
  <2>3. \A a \in Nat : <<a>> \in Seq(Nat) /\ Len(<<a>>) = 1
    OBVIOUS
  <2> QED
    BY <1>2, <2>1, <2>2, <2>3, Zenon
<1> HIDE DEF x1, x2, x3, x4, x5, g1
<1>4. g2 \in Seq(Nat) /\ Len(g2) = 3
  <2>1. g2 \in Seq(Nat) /\ Len(g2) = (1 + 1) + Len(x1)
    <3>1. 1 \in Nat
      OBVIOUS
    <3> QED
      BY <1>3, <3>1, JoinedLen, Zenon
  <2> HIDE DEF g2
  <2> QED
    BY <1>3, <2>1
<1> HIDE DEF g2
<1>5. g3 \in Seq(Nat) /\ Len(g3) = 4 + n
  <2>1. g3 \in Seq(Nat) /\ Len(g3) = (3 + 1) + Len(x2)
    <3>1. 3 \in Nat
      OBVIOUS
    <3> QED
      BY <1>3, <1>4, <3>1, JoinedLen, Zenon
  <2> HIDE DEF g3
  <2> QED
    BY <1>3, <2>1
<1> HIDE DEF g3, n
<1>6. g4 \in Seq(Nat) /\ Len(g4) = 6 + n
  <2>1. 4 + n \in Nat
    BY <1>3
  <2>2. g4 \in Seq(Nat) /\ Len(g4) = ((4 + n) + 1) + Len(x3)
    BY <1>3, <1>5, <2>1, JoinedLen, Zenon
  <2> HIDE DEF g4
  <2> QED
    BY <1>3, <2>2
<1> HIDE DEF g4
<1>7. g5 \in Seq(Nat) /\ Len(g5) = 8 + n
  <2>1. 6 + n \in Nat
    BY <1>3
  <2>2. g5 \in Seq(Nat) /\ Len(g5) = ((6 + n) + 1) + Len(x4)
    BY <1>3, <1>6, <2>1, JoinedLen, Zenon
  <2> HIDE DEF g5
  <2> QED
    BY <1>3, <2>2
<1> HIDE DEF g5
<1>8. g6 \in Seq(Nat) /\ Len(g6) = 10 + n
  <2>1. 8 + n \in Nat
    BY <1>3
  <2>2. g6 \in Seq(Nat) /\ Len(g6) = ((8 + n) + 1) + Len(x5)
    BY <1>3, <1>7, <2>1, JoinedLen, Zenon
  <2> HIDE DEF g6
  <2> QED
    BY <1>3, <2>2
<1> QED
  BY <1>1, <1>8 DEF n, x2

LEMMA BindingLen ==
    ASSUME NEW r \in Mounts
    PROVE  Len(EncodeBinding(r)) = 15 + Len(r.mount_path) + Len(r.source.scope_path)
                                      + Len(r.source_subpath)
<1> DEFINE x1 == r.mount_path
           x2 == EncodeSource(r.source)
           x3 == r.source_subpath
           x4 == <<IF r.policy = "mutable" THEN 1 ELSE 2>>
           g1 == <<BindingDomain>>
           g2 == g1 \o Field(x1)
           g3 == g2 \o Field(x2)
           g4 == g3 \o Field(x3)
           g5 == g4 \o x4
           n1 == Len(x1)
           n2 == Len(r.source.scope_path)
           n3 == Len(x3)
<1>1. EncodeBinding(r) = g5
  BY DEF EncodeBinding
<1>2. /\ r.mount_path \in Seq(Byte) /\ r.source \in Sources /\ r.source_subpath \in Seq(Byte)
      /\ r.source.scope_path \in Seq(Byte)
  BY DEF Mounts, Sources
<1>3. /\ x1 \in Seq(Nat) /\ x2 \in Seq(Nat) /\ x3 \in Seq(Nat) /\ x4 \in Seq(Nat)
      /\ g1 \in Seq(Nat) /\ Len(g1) = 1 /\ Len(x4) = 1 /\ Len(x2) = 10 + n2
      /\ n1 \in Nat /\ n2 \in Nat /\ n3 \in Nat
  <2>1. /\ x1 \in Seq(Nat) /\ x3 \in Seq(Nat) /\ r.source.scope_path \in Seq(Nat)
    BY <1>2, BytesIn
  <2>2. x2 \in Seq(Nat) /\ Len(x2) = 10 + n2
    BY <1>2, SourceLen
  <2>3. \A s \in Seq(Nat) : Len(s) \in Nat
    OBVIOUS
  <2>4. n1 \in Nat /\ n2 \in Nat /\ n3 \in Nat
    BY <2>1, <2>3, Zenon
  <2>5. x4 \in Seq(Nat) /\ Len(x4) = 1 /\ g1 \in Seq(Nat) /\ Len(g1) = 1
    BY DEF BindingDomain
  <2> QED
    BY <2>1, <2>2, <2>4, <2>5, Zenon
<1> HIDE DEF x1, x2, x3, x4, g1, n2
<1>4. g2 \in Seq(Nat) /\ Len(g2) = 2 + n1
  <2>1. g2 \in Seq(Nat) /\ Len(g2) = (1 + 1) + Len(x1)
    <3>1. 1 \in Nat
      OBVIOUS
    <3> QED
      BY <1>3, <3>1, JoinedLen, Zenon
  <2> HIDE DEF g2
  <2> QED
    BY <1>3, <2>1
<1> HIDE DEF g2, n1
<1>5. g3 \in Seq(Nat) /\ Len(g3) = 13 + n1 + n2
  <2>1. 2 + n1 \in Nat
    BY <1>3
  <2>2. g3 \in Seq(Nat) /\ Len(g3) = ((2 + n1) + 1) + Len(x2)
    BY <1>3, <1>4, <2>1, JoinedLen, Zenon
  <2> HIDE DEF g3
  <2> QED
    BY <1>3, <2>2
<1> HIDE DEF g3
<1>6. g4 \in Seq(Nat) /\ Len(g4) = 14 + n1 + n2 + n3
  <2>1. 13 + n1 + n2 \in Nat
    BY <1>3
  <2>2. g4 \in Seq(Nat) /\ Len(g4) = ((13 + n1 + n2) + 1) + Len(x3)
    BY <1>3, <1>5, <2>1, JoinedLen, Zenon
  <2> HIDE DEF g4
  <2> QED
    BY <1>3, <2>2
<1> HIDE DEF g4, n3
<1>7. Len(g5) = 15 + n1 + n2 + n3
  <2>1. 14 + n1 + n2 + n3 \in Nat
    BY <1>3
  <2>2. Len(g5) = (14 + n1 + n2 + n3) + Len(x4)
    BY <1>3, <1>6, <2>1, JoinedLen, Zenon
  <2> HIDE DEF g5
  <2> QED
    BY <1>3, <2>2
<1> QED
  BY <1>1, <1>7 DEF n1, n2, n3, x1, x3

LEMMA ViewLen ==
    ASSUME NEW r \in Views
    PROVE  Len(EncodeView(r)) = 18 + Len(r.native.scope_path) + Len(r.overrides_root)
<1> DEFINE x1 == <<ViewDomain, 1>>
           x2 == <<r.instance_id>>
           x3 == EncodeSource(r.native)
           x4 == <<r.bindings_root, Len(r.overrides_root)>>
           x5 == r.overrides_root
           x6 == <<1>>
           g2 == x1 \o Field(x2)
           g3 == g2 \o Field(x3)
           g4 == g3 \o x4
           g5 == g4 \o x5
           g6 == g5 \o x6
           n1 == Len(r.native.scope_path)
           n2 == Len(x5)
<1>1. EncodeView(r) = g6
  BY DEF EncodeView
<1>2. /\ r.instance_id \in Nat /\ r.native \in Sources /\ r.bindings_root \in Nat
      /\ r.overrides_root \in Seq(Nat) /\ r.native.scope_path \in Seq(Byte)
  BY DEF Views, Sources
<1>3. /\ x1 \in Seq(Nat) /\ Len(x1) = 2 /\ x2 \in Seq(Nat) /\ Len(x2) = 1
      /\ x3 \in Seq(Nat) /\ Len(x3) = 10 + n1 /\ x4 \in Seq(Nat) /\ Len(x4) = 2
      /\ x5 \in Seq(Nat) /\ x6 \in Seq(Nat) /\ Len(x6) = 1 /\ n1 \in Nat /\ n2 \in Nat
  <2>1. x5 \in Seq(Nat) /\ r.native.scope_path \in Seq(Nat)
    BY <1>2, BytesIn
  <2>2. x3 \in Seq(Nat) /\ Len(x3) = 10 + n1
    BY <1>2, SourceLen
  <2>3. \A s \in Seq(Nat) : Len(s) \in Nat
    OBVIOUS
  <2>4. n1 \in Nat /\ n2 \in Nat
    BY <2>1, <2>3, Zenon
  <2>5. \A a, b \in Nat : /\ <<a>> \in Seq(Nat) /\ Len(<<a>>) = 1
                          /\ <<a, b>> \in Seq(Nat) /\ Len(<<a, b>>) = 2
    OBVIOUS
  <2>6. ViewDomain \in Nat /\ 1 \in Nat
    BY DEF ViewDomain
  <2> HIDE DEF x3, n1
  <2> QED
    BY <1>2, <2>1, <2>2, <2>4, <2>5, <2>6, Zenon
<1> HIDE DEF x1, x2, x3, x4, x5, x6, n1
<1>4. g2 \in Seq(Nat) /\ Len(g2) = 4
  <2>1. g2 \in Seq(Nat) /\ Len(g2) = (2 + 1) + Len(x2)
    <3>1. 2 \in Nat /\ x1 \in Seq(Nat) /\ x2 \in Seq(Nat) /\ Len(x1) = 2
      BY <1>3
    <3>2. /\ x1 \o Field(x2) \in Seq(Nat)
          /\ Len(x1 \o Field(x2)) = (2 + 1) + Len(x2)
      BY <3>1, JoinedLen
    <3> QED
      BY <3>2, Zenon
  <2> HIDE DEF g2
  <2> QED
    BY <1>3, <2>1
<1> HIDE DEF g2
<1>5. g3 \in Seq(Nat) /\ Len(g3) = 15 + n1
  <2>1. g3 \in Seq(Nat) /\ Len(g3) = (4 + 1) + Len(x3)
    <3>1. 4 \in Nat
      OBVIOUS
    <3> QED
      BY <1>3, <1>4, <3>1, JoinedLen, Zenon
  <2> HIDE DEF g3
  <2> QED
    BY <1>3, <2>1
<1> HIDE DEF g3
<1>6. g4 \in Seq(Nat) /\ Len(g4) = 17 + n1
  <2>1. 15 + n1 \in Nat
    BY <1>3
  <2>2. g4 \in Seq(Nat) /\ Len(g4) = (15 + n1) + Len(x4)
    BY <1>3, <1>5, <2>1, JoinedLen, Zenon
  <2> HIDE DEF g4
  <2> QED
    BY <1>3, <2>2
<1> HIDE DEF g4
<1>7. g5 \in Seq(Nat) /\ Len(g5) = 17 + n1 + n2
  <2>1. 17 + n1 \in Nat
    BY <1>3
  <2>2. g5 \in Seq(Nat) /\ Len(g5) = (17 + n1) + Len(x5)
    BY <1>3, <1>6, <2>1, JoinedLen, Zenon
  <2> QED
    BY <2>2
<1> HIDE DEF g5, n2
<1>8. Len(g6) = 18 + n1 + n2
  <2>1. 17 + n1 + n2 \in Nat
    BY <1>3
  <2>2. Len(g6) = (17 + n1 + n2) + Len(x6)
    BY <1>3, <1>7, <2>1, JoinedLen, Zenon
  <2> HIDE DEF g6
  <2> QED
    BY <1>3, <2>2
<1> QED
  BY <1>1, <1>8 DEF n1, n2, x5

LEMMA ManifestsOpen ==
    /\ \A r \in Sources : NewSource(r) => Len(EncodeSource(r)) <= ManifestMaxCells
    /\ \A r \in Mounts : NewBinding(r) => Len(EncodeBinding(r)) <= ManifestMaxCells
    /\ \A r \in Views : NewView(r) => Len(EncodeView(r)) <= ManifestMaxCells
<1>0. PathMaxBytes \in Nat /\ ManifestMaxCells \in Nat /\ 3 * PathMaxBytes + 20 <= ManifestMaxCells
  BY PathMaxAssumption, ManifestAssumption
<1>a. \A s \in Seq(Byte) : Len(s) \in Nat
  OBVIOUS
<1>1. ASSUME NEW r \in Sources, NewSource(r)
      PROVE  /\ Len(r.scope_path) \in Nat /\ Len(r.scope_path) <= PathMaxBytes
             /\ Len(EncodeSource(r)) <= ManifestMaxCells
  <2>1. Len(r.scope_path) \in Nat
    <3>1. r.scope_path \in Seq(Byte)
      BY DEF Sources
    <3> QED
      BY <1>a, <3>1, Zenon
  <2>2. Len(r.scope_path) <= PathMaxBytes
    <3>1. Len(r.scope_path) \in 1..PathMaxBytes
      BY <1>1 DEF NewSource, ValidPath
    <3> QED
      BY <1>0, <3>1
  <2>3. Len(EncodeSource(r)) = 10 + Len(r.scope_path)
    BY SourceLen
  <2> QED
    BY <1>0, <2>1, <2>2, <2>3
<1>2. ASSUME NEW r \in Mounts, NewBinding(r)
      PROVE  Len(EncodeBinding(r)) <= ManifestMaxCells
  <2>1. r.mount_path \in Seq(Byte) /\ r.source \in Sources /\ r.source_subpath \in Seq(Byte)
    BY DEF Mounts
  <2>2. Len(r.mount_path) \in Nat /\ Len(r.source_subpath) \in Nat
    BY <1>a, <2>1, Zenon
  <2>3. Len(r.mount_path) <= PathMaxBytes /\ Len(r.source_subpath) <= PathMaxBytes
    <3>1. Len(r.mount_path) \in 1..PathMaxBytes /\ Len(r.source_subpath) <= PathMaxBytes
      BY <1>2 DEF NewBinding, ValidPath, ValidRelative
    <3> QED
      BY <1>0, <3>1
  <2>4. Len(r.source.scope_path) \in Nat /\ Len(r.source.scope_path) <= PathMaxBytes
    <3>1. NewSource(r.source)
      BY <1>2 DEF NewBinding
    <3> QED
      BY <1>1, <2>1, <3>1
  <2>5. Len(EncodeBinding(r)) = 15 + Len(r.mount_path) + Len(r.source.scope_path)
                                   + Len(r.source_subpath)
    BY BindingLen
  <2>6. \A a, b, c, p, m \in Nat :
           a <= p /\ b <= p /\ c <= p /\ 3 * p + 20 <= m => 15 + a + b + c <= m
    OBVIOUS
  <2>7. 15 + Len(r.mount_path) + Len(r.source.scope_path) + Len(r.source_subpath)
          <= ManifestMaxCells
    BY <1>0, <2>2, <2>3, <2>4, <2>6, Zenon
  <2> QED
    BY <2>5, <2>7
<1>3. ASSUME NEW r \in Views, NewView(r)
      PROVE  Len(EncodeView(r)) <= ManifestMaxCells
  <2>1. r.native \in Sources /\ r.overrides_root \in Seq(Nat) /\ Len(r.overrides_root) <= 1
    BY DEF Views
  <2>2. Len(r.overrides_root) \in Nat
    <3>1. \A s \in Seq(Nat) : Len(s) \in Nat
      OBVIOUS
    <3> QED
      BY <2>1, <3>1, Zenon
  <2>3. Len(r.native.scope_path) = 1
    BY <1>3 DEF NewView
  <2>4. Len(EncodeView(r)) = 18 + Len(r.native.scope_path) + Len(r.overrides_root)
    BY ViewLen
  <2>5. \A b, p, m \in Nat : b <= 1 /\ 3 * p + 20 <= m => 18 + 1 + b <= m
    OBVIOUS
  <2> QED
    BY <1>0, <2>1, <2>2, <2>3, <2>4, <2>5
<1> QED
  BY <1>1, <1>2, <1>3

(* The first cell tells the kinds of records apart. *)
Starts(k, x) ==
    /\ k = "source" => x = SourceDomain
    /\ k = "binding" => x = BindingDomain
    /\ k = "view" => x = ViewDomain
    /\ k = "descriptor" => x = DescriptorMagic
    /\ k = "node" => x = NodeDomain
    /\ k = "objects" => x \in 1..ObjectCountMax

LEMMA StartsApart ==
    ASSUME NEW k \in Kinds, NEW m \in Kinds, NEW x, Starts(k, x), Starts(m, x)
    PROVE  k = m
<1>1. ObjectCountMax \in 0..1000
  BY ManifestAssumption DEF SourceDomain
<1> DEFINE Domain == x \in {1001, 1002, 1003, 1004, 1006}
<1>2. x \in 1..ObjectCountMax => ~Domain
  BY <1>1
<1>3. k # "objects" => Domain
  BY DEF Kinds, Starts, SourceDomain, BindingDomain, ViewDomain, DescriptorMagic, NodeDomain
<1>4. m # "objects" => Domain
  BY DEF Kinds, Starts, SourceDomain, BindingDomain, ViewDomain, DescriptorMagic, NodeDomain
<1>5. CASE k = "objects" \/ m = "objects"
  BY <1>2, <1>3, <1>4, <1>5 DEF Starts
<1>6. CASE k # "objects" /\ m # "objects"
  BY <1>6 DEF Kinds, Starts, SourceDomain, BindingDomain, ViewDomain, DescriptorMagic,
     NodeDomain
<1> QED
  BY <1>5, <1>6

LEMMA ReadStarts ==
    ASSUME NEW k \in Kinds, NEW c \in Seq(Nat), Decode(k, c) # Refused
    PROVE  Starts(k, c[1])
<1>1. CASE k = "source"
  BY <1>1 DEF Decode, DecodeSource, Opens, Starts
<1>2. CASE k = "binding"
  BY <1>2 DEF Decode, DecodeBinding, Opens, Starts
<1>3. CASE k = "view"
  BY <1>3 DEF Decode, DecodeView, Opens, Starts
<1>4. CASE k = "descriptor"
  <2>1. Len(c) >= 11 /\ SubSeq(c, 1, 3) = <<DescriptorMagic, 2, 1>>
    BY <1>4 DEF Decode, DecodeDescriptor
  <2>2. SubSeq(c, 1, 3)[1] = c[(1 + 1) - 1]
    <3>1. 1 \in Nat \ {0} /\ 3 \in Nat /\ 1 <= 3 + 1 /\ 3 <= Len(c) /\ 1 \in 1..(3 + 1) - 1
      BY <2>1
    <3> QED
      BY <3>1, PieceIs
  <2>3. c[1] = DescriptorMagic
    <3>1. <<DescriptorMagic, 2, 1>>[1] = DescriptorMagic /\ (1 + 1) - 1 = 1
      OBVIOUS
    <3> QED
      BY <2>1, <2>2, <3>1, Zenon
  <2> QED
    BY <1>4, <2>3 DEF Starts
<1>5. CASE k = "node"
  BY <1>5 DEF Decode, DecodeRow, Readable, Starts, Refused
<1>6. CASE k = "objects"
  BY <1>6 DEF Decode, DecodeObjects, Starts, Refused
<1> QED
  BY <1>1, <1>2, <1>3, <1>4, <1>5, <1>6 DEF Kinds

(* What each encoder writes its own decoder reads, and it starts as its     *)
(* kind does.                                                               *)
LEMMA OwnRead ==
    ASSUME NEW k \in Kinds, NEW r \in Records[k], New(k, r)
    PROVE  /\ Decode(k, Encode(k, r)) =
                IF k = "objects" => IsInjective(r) THEN <<r>> ELSE Refused
           /\ Starts(k, Encode(k, r)[1])
<1>s. ASSUME k # "objects", Decode(k, Encode(k, r)) = <<r>>
      PROVE  Starts(k, Encode(k, r)[1])
  <2>1. Encode(k, r) \in Seq(Nat)
    BY EncodeIn
  <2>2. Decode(k, Encode(k, r)) # Refused
    BY <1>s DEF Refused
  <2> QED
    BY <2>1, <2>2, ReadStarts
<1>m. ManifestMaxCells \in Nat
  BY ManifestAssumption
<1>1. CASE k = "source"
  <2>1. r \in Sources /\ NewSource(r)
    BY <1>1, RecordsAssumption DEF New
  <2>2. Len(EncodeSource(r)) <= ManifestMaxCells
    BY <2>1, ManifestsOpen
  <2>3. DecodeSource(EncodeSource(r)) = <<r>>
    BY <2>1, <2>2, SourceRead
  <2> QED
    BY <1>1, <1>s, <2>3 DEF Encode, Decode
<1>2. CASE k = "binding"
  <2>1. r \in Mounts /\ NewBinding(r)
    BY <1>2, RecordsAssumption DEF New
  <2>2. Len(EncodeBinding(r)) <= ManifestMaxCells
    BY <2>1, ManifestsOpen
  <2>3. DecodeBinding(EncodeBinding(r)) = <<r>>
    BY <1>m, <2>1, <2>2, BindingRead
  <2> QED
    BY <1>2, <1>s, <2>3 DEF Encode, Decode
<1>3. CASE k = "view"
  <2>1. r \in Views /\ NewView(r)
    BY <1>3, RecordsAssumption DEF New
  <2>2. Len(EncodeView(r)) <= ManifestMaxCells
    BY <2>1, ManifestsOpen
  <2>3. DecodeView(EncodeView(r)) = <<r>>
    BY <1>m, <2>1, <2>2, ViewRead
  <2> QED
    BY <1>3, <1>s, <2>3 DEF Encode, Decode
<1>4. CASE k = "descriptor"
  <2>1. r \in Serving /\ NewDescriptor(r)
    BY <1>4, RecordsAssumption DEF New
  <2>2. DecodeDescriptor(EncodeDescriptor(r)) = <<r>>
    BY <2>1, DescriptorRead
  <2> QED
    BY <1>4, <1>s, <2>2 DEF Encode, Decode
<1>5. CASE k = "node"
  <2>1. r \in Lists /\ Accepts(r)
    BY <1>5, RecordsAssumption DEF New
  <2>2. DecodeRow(RowOf(r)) = <<r>>
    BY <2>1, RowRead
  <2> QED
    BY <1>5, <1>s, <2>2 DEF Encode, Decode
<1>6. CASE k = "objects"
  <2>1. r \in Seq(DOMAIN Sha) /\ ObjectsOk(r)
    BY <1>6, RecordsAssumption DEF New
  <2>2. DecodeObjects(EncodeObjects(r)) = IF IsInjective(r) THEN <<r>> ELSE Refused
    BY <2>1, ObjectsRead
  <2>3. EncodeObjects(r)[1] \in 1..ObjectCountMax
    <3>1. TableAt(EncodeObjects(r), r)
      BY <2>1, TableStands
    <3> QED
      BY <2>1, <3>1 DEF TableAt, ObjectsOk
  <2> QED
    BY <1>6, <2>2, <2>3 DEF Encode, Decode, Starts
<1> QED
  BY <1>1, <1>2, <1>3, <1>4, <1>5, <1>6 DEF Kinds

(* Whatever a constructor accepts comes back from its bytes, field for      *)
(* field, and no decoder of another kind accepts those bytes: what new      *)
(* takes, encode writes and decode then refuses is only a payload of        *)
(* objects that repeat (treeframe.rs, ObjectPayload).                       *)
THEOREM NothingIsLost == Spec => []WrittenIsRead
<1>1. OnItsWay => WrittenIsRead
  <2> SUFFICES ASSUME OnItsWay, pc = "read", damages = 0
               PROVE  result = IF readAs = kind /\ (kind = "objects" => IsInjective(record))
                               THEN <<record>> ELSE Refused
    BY DEF WrittenIsRead
  <2>1. /\ kind \in Kinds /\ record \in Records[kind] /\ New(kind, record)
        /\ cells = Encode(kind, record) /\ cells \in Seq(Nat)
        /\ readAs \in Kinds /\ result = Decode(readAs, cells)
    BY DEF OnItsWay
  <2>2. /\ Decode(kind, cells) =
             IF kind = "objects" => IsInjective(record) THEN <<record>> ELSE Refused
        /\ Starts(kind, cells[1])
    BY <2>1, OwnRead
  <2>3. CASE readAs = kind
    BY <2>1, <2>2, <2>3
  <2>4. CASE readAs # kind
    <3>1. result = Refused
      <4> SUFFICES ASSUME result # Refused PROVE FALSE
        OBVIOUS
      <4>1. Starts(readAs, cells[1])
        BY <2>1, ReadStarts
      <4> QED
        BY <2>1, <2>2, <2>4, <4>1, StartsApart
    <3> QED
      BY <2>4, <3>1
  <2> QED
    BY <2>3, <2>4
<1> QED
  BY <1>1, AlwaysOnItsWay, PTL
-----------------------------------------------------------------------------
(* A snapshot is short: its scope is a path. *)
LEMMA SourceIsShort ==
    ASSUME PathMaxBytes <= 4096, NEW r, NewSource(r)
    PROVE  SourceBytes(r) \in Nat /\ SourceBytes(r) <= 4300
<1>1. Len(r.scope_path) \in 1..PathMaxBytes
  BY DEF NewSource, ValidPath
<1> QED
  BY <1>1, PathMaxAssumption DEF SourceBytes, FieldBytes

(* "Every complete manifest is smaller than MANIFEST_MAX_BYTES"             *)
(* (namespace.rs:311-312): what SourceSnapshot, NamespaceBinding and        *)
(* NamespaceView encode is never refused for its length.                    *)
THEOREM ManifestFits ==
    ASSUME PathMaxBytes <= 4096, NEW r
    PROVE  /\ NewSource(r) => SourceBytes(r) < ManifestMaxBytes
           /\ NewBinding(r) /\ r.source_subpath \in Seq(Byte)
                => BindingBytes(r) < ManifestMaxBytes
           /\ NewView(r) /\ Len(r.overrides_root) \in {0, 1}
                => ViewBytes(r) < ManifestMaxBytes
<1>1. ASSUME NewSource(r) PROVE SourceBytes(r) < ManifestMaxBytes
  BY <1>1, SourceIsShort DEF ManifestMaxBytes
<1>2. ASSUME NewBinding(r), r.source_subpath \in Seq(Byte)
      PROVE  BindingBytes(r) < ManifestMaxBytes
  <2>1. SourceBytes(r.source) \in Nat /\ SourceBytes(r.source) <= 4300
    BY <1>2, SourceIsShort DEF NewBinding
  <2>2. Len(r.mount_path) \in 1..PathMaxBytes
    BY <1>2 DEF NewBinding, ValidPath
  <2>3. Len(r.source_subpath) \in Nat /\ Len(r.source_subpath) <= PathMaxBytes
    BY <1>2 DEF NewBinding, ValidRelative
  <2> QED
    BY <2>1, <2>2, <2>3, PathMaxAssumption
    DEF BindingBytes, FieldBytes, ManifestMaxBytes
<1>3. ASSUME NewView(r), Len(r.overrides_root) \in {0, 1}
      PROVE  ViewBytes(r) < ManifestMaxBytes
  <2>1. SourceBytes(r.native) \in Nat /\ SourceBytes(r.native) <= 4300
    BY <1>3, SourceIsShort DEF NewView
  <2> DEFINE source == SourceBytes(r.native)
             roots == Len(r.overrides_root)
  <2>2. ViewBytes(r) = 23 + 2 + (4 + 36) + (4 + source) + 32 + 1 + 32 * roots + 1
    BY DEF ViewBytes, FieldBytes
  <2>3. source \in Nat /\ source <= 4300
    BY <2>1
  <2>4. roots \in {0, 1}
    BY <1>3
  <2> HIDE DEF source, roots
  <2> QED
    BY <2>2, <2>3, <2>4 DEF ManifestMaxBytes
<1> QED
  BY <1>1, <1>2, <1>3

(* The length of a scope survives "as u16" (descriptor.rs:68): a descriptor *)
(* that can be encoded never states another length than its scope has.      *)
THEOREM ScopeLengthFits ==
    ASSUME PathMaxBytes <= 4096, NEW r, NewDescriptor(r), r.scope \in Seq(Byte)
    PROVE  Len(r.scope) % LengthRange = Len(r.scope)
<1>1. Len(r.scope) \in Nat /\ Len(r.scope) <= 4096
  BY PathMaxAssumption DEF NewDescriptor, ValidScope
<1> DEFINE len == Len(r.scope)
<1>2. len \in Nat /\ len <= 4096
  BY <1>1
<1> HIDE DEF len
<1>3. len % LengthRange = len
  BY <1>2 DEF LengthRange
<1> QED
  BY <1>3 DEF len

(* A node has at most 256 children, one for each byte. *)
LEMMA ChildrenAreFew ==
    ASSUME NEW n, IsNode(n)
    PROVE  Cardinality(Edges(n)) \in Nat /\ Cardinality(Edges(n)) <= 256
<1>1. Edges(n) \subseteq 0..255
  BY DEF IsNode, Byte
<1>2. IsFiniteSet(0..255) /\ Cardinality(0..255) = 256
  <2>1. /\ IsFiniteSet(0..255)
        /\ Cardinality(0..255) = IF 0 > 255 THEN 0 ELSE 255 - 0 + 1
    <3>1. 0 \in Int /\ 255 \in Int
      OBVIOUS
    <3> QED
      BY <3>1, FS_Interval, Zenon
  <2> QED
    BY <2>1
<1>3. IsFiniteSet(Edges(n)) /\ Cardinality(Edges(n)) <= Cardinality(0..255)
  BY <1>1, <1>2, FS_Subset
<1>4. Cardinality(Edges(n)) \in Nat
  BY <1>3, FS_CardinalityType
<1> QED
  BY <1>2, <1>3, <1>4

(* RadixNode::encode checks no length: whatever RadixNode::new accepts is   *)
(* within the limit that decode and the index put on a row, so that no      *)
(* update can write a node that no later call can load.                     *)
THEOREM NodeFits ==
    ASSUME PathMaxBytes <= 4096, NEW n, IsNode(n), Canonical(n)
    PROVE  NodeBytes(n) <= NodeMaxBytes
<1>1. Len(n.label) \in Nat /\ Len(n.label) <= 4096
  BY PathMaxAssumption DEF IsNode, Canonical
<1>2. Cardinality(Edges(n)) \in Nat /\ Cardinality(Edges(n)) <= 256
  BY ChildrenAreFew
<1> DEFINE edges == Cardinality(Edges(n))
           label == Len(n.label)
           binding == IF n.binding = None THEN 0 ELSE 32
<1>3. binding \in Nat /\ binding <= 32
  OBVIOUS
<1>4. NodeBytes(n) = 24 + 2 + label + 1 + binding + 2 + 33 * edges
  BY DEF NodeBytes
<1>5. 24 + 2 + label + 1 + binding + 2 + 33 * edges <= 16384
  <2> HIDE DEF edges, label, binding
  <2>1. label \in Nat /\ label <= 4096 /\ edges \in Nat /\ edges <= 256
    BY <1>1, <1>2 DEF edges, label
  <2> QED
    BY <1>3, <2>1
<1> HIDE DEF edges, label, binding
<1> QED
  BY <1>4, <1>5 DEF NodeMaxBytes
=============================================================================
