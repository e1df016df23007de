-------------------------- MODULE RangedReadProofs --------------------------
(***************************************************************************)
(* The ranged read for files of any size, chunks and pages of any size and *)
(* u64s of any width: the arithmetic of the chunk map is exact, an honest  *)
(* server is never turned away, and a read is the bytes of the range.      *)
(***************************************************************************)
EXTENDS RangedRead, MerkleProofs, FiniteSetTheorems, SequenceTheorems

-----------------------------------------------------------------------------
(* Arithmetic.  The quotient is the number with a <= n < a + b around it.   *)
LEMMA Quotient ==
    ASSUME NEW n \in Nat, NEW b \in Nat \ {0}
    PROVE  /\ n \div b \in Nat
           /\ (n \div b) * b <= n /\ n < (n \div b) * b + b
           /\ n % b \in Nat /\ n % b < b /\ n = (n \div b) * b + (n % b)
<1>1. /\ n \div b \in Nat /\ n % b \in Nat /\ n % b < b
      /\ n = b * (n \div b) + (n % b)
  OBVIOUS
<1> QED
  BY <1>1

LEMMA QuotientIs ==
    ASSUME NEW n \in Nat, NEW b \in Nat \ {0}, NEW q \in Int,
           q * b <= n, n < q * b + b
    PROVE  n \div b = q /\ n % b = n - q * b
<1> DEFINE d == n \div b
<1>1. d \in Nat /\ d * b <= n /\ n < d * b + b /\ n = d * b + (n % b)
  BY Quotient
<1> HIDE DEF d
<1>2. ~(d >= q + 1)
  <2> SUFFICES ASSUME d >= q + 1 PROVE FALSE
    OBVIOUS
  <2>1. d * b >= (q + 1) * b
    BY <1>1
  <2>2. (q + 1) * b = q * b + b
    OBVIOUS
  <2> QED
    BY <1>1, <2>1, <2>2
<1>3. ~(q >= d + 1)
  <2> SUFFICES ASSUME q >= d + 1 PROVE FALSE
    OBVIOUS
  <2>1. q * b >= (d + 1) * b
    BY <1>1
  <2>2. (d + 1) * b = d * b + b
    BY <1>1
  <2> QED
    BY <1>1, <2>1, <2>2
<1> QED
  BY <1>1, <1>2, <1>3 DEF d

(* div_ceil: the least number of pieces of size b that hold a. *)
LEMMA CeilingHolds ==
    ASSUME NEW a \in Nat \ {0}, NEW b \in Nat \ {0}
    PROVE  LET q == DivCeil(a, b) IN
           q \in Nat \ {0} /\ (q - 1) * b < a /\ a <= q * b
<1> DEFINE q == (a + b - 1) \div b
<1>1. q \in Nat /\ q * b <= a + b - 1 /\ a + b - 1 < q * b + b
  BY Quotient
<1> HIDE DEF q
<1>2. (q - 1) * b = q * b - b
  BY <1>1
<1>3. q # 0
  BY <1>1
<1> QED
  BY <1>1, <1>2, <1>3 DEF DivCeil, q

(* A larger number of pieces holds at least as much. *)
LEMMA Monotone ==
    ASSUME NEW i \in Int, NEW j \in Int, i <= j, NEW b \in Nat
    PROVE  i * b <= j * b
<1>1. PICK d \in Nat : j = i + d
  <2>1. j - i \in Nat /\ j = i + (j - i)
    OBVIOUS
  <2> QED
    BY <2>1
<1>2. j * b = i * b + d * b
  BY <1>1
<1>3. d * b \in Nat
  BY <1>1
<1> QED
  BY <1>2, <1>3

LEMMA QuotientsInOrder ==
    ASSUME NEW m \in Nat, NEW n \in Nat, m <= n, NEW b \in Nat \ {0}
    PROVE  m \div b <= n \div b
<1> DEFINE d == m \div b
           e == n \div b
<1>1. d \in Nat /\ d * b <= m /\ e \in Nat /\ n < e * b + b
  BY Quotient
<1> HIDE DEF d, e
<1>2. SUFFICES ASSUME e + 1 <= d PROVE FALSE
  BY <1>1 DEF d, e
<1>3. (e + 1) * b <= d * b
  BY <1>1, <1>2, Monotone
<1>4. (e + 1) * b = e * b + b
  BY <1>1
<1> QED
  BY <1>1, <1>3, <1>4

-----------------------------------------------------------------------------
(* What ChunkMap::decode lets through: the last chunk and the last page are *)
(* neither empty nor too many.                                              *)
LEMMA MapCounts ==
    ASSUME NEW m, m.size \in Nat, Decodes(m)
    PROVE  /\ m.chunks \in Nat \ {0} /\ m.pages \in Nat \ {0}
           /\ (m.chunks - 1) * ChunkSize < m.size
           /\ m.size <= m.chunks * ChunkSize
           /\ (m.pages - 1) * ChunksPerPage < m.chunks
           /\ m.chunks <= m.pages * ChunksPerPage
<1>1. /\ m.size \in Nat \ {0} /\ m.chunks = DivCeil(m.size, ChunkSize)
      /\ m.pages = DivCeil(m.chunks, ChunksPerPage)
  BY DEF Decodes
<1>2. /\ m.chunks \in Nat \ {0} /\ (m.chunks - 1) * ChunkSize < m.size
      /\ m.size <= m.chunks * ChunkSize
  BY <1>1, CeilingHolds, ChunkSizeAssumption
<1>3. /\ m.pages \in Nat \ {0} /\ (m.pages - 1) * ChunksPerPage < m.chunks
      /\ m.chunks <= m.pages * ChunksPerPage
  BY <1>1, <1>2, CeilingHolds, ChunksPerPageAssumption
<1> QED
  BY <1>2, <1>3

(* No chunk is empty or too long. *)
LEMMA ChunkLenBounds ==
    ASSUME NEW m, m.size \in Nat, Decodes(m), NEW i \in 0..m.chunks - 1
    PROVE  ChunkLen(m, i) \in 1..ChunkSize
<1>1. /\ m.chunks \in Nat \ {0} /\ (m.chunks - 1) * ChunkSize < m.size
      /\ m.size <= m.chunks * ChunkSize /\ ChunkSize \in Nat \ {0}
      /\ (m.chunks - 1) * ChunkSize = m.chunks * ChunkSize - ChunkSize
      /\ (m.chunks - 1) * ChunkSize \in Nat
  BY MapCounts, ChunkSizeAssumption
<1>2. CASE i < m.chunks - 1
  BY <1>1, <1>2 DEF ChunkLen
<1>3. CASE i = m.chunks - 1
  BY <1>1, <1>3 DEF ChunkLen
<1> QED
  BY <1>1, <1>2, <1>3

(* The chunk a byte of the file is in is its quotient. *)
LEMMA HoldsIsQuotient ==
    ASSUME NEW m, m.size \in Nat, Decodes(m), NEW byte \in 0..m.size - 1
    PROVE  /\ byte \div ChunkSize \in 0..m.chunks - 1
           /\ \A i \in 0..m.chunks - 1 : Holds(m, i, byte) <=> i = byte \div ChunkSize
<1> DEFINE C == ChunkSize
           q == byte \div C
<1>1. /\ m.chunks \in Nat \ {0} /\ (m.chunks - 1) * C < m.size
      /\ m.size <= m.chunks * C /\ C \in Nat \ {0}
  BY MapCounts, ChunkSizeAssumption
<1>2. q \in Nat /\ q * C <= byte /\ byte < q * C + C
  BY <1>1, Quotient
<1>3. q <= m.chunks - 1
  <2> HIDE DEF q
  <2> SUFFICES ASSUME m.chunks <= q PROVE FALSE
    BY <1>1, <1>2
  <2>1. m.chunks * C <= q * C
    BY <1>1, <1>2, Monotone
  <2> QED
    BY <1>1, <1>2, <2>1
<1>4. ASSUME NEW i \in 0..m.chunks - 1, Holds(m, i, byte) PROVE i = q
  <2>1. ChunkLen(m, i) <= C
    BY <1>1, ChunkLenBounds
  <2>2. i * C \in Int /\ ChunkLen(m, i) \in Int /\ i * C <= byte
        /\ byte < i * C + ChunkLen(m, i)
    BY <1>1, <1>4 DEF Holds, Start, ChunkLen
  <2>3. i * C <= byte /\ byte < i * C + C
    BY <1>1, <2>1, <2>2
  <2>4. byte \in Nat /\ i \in Int /\ C \in Nat \ {0}
    BY <1>1
  <2>5. byte \div C = i
    BY <2>3, <2>4, QuotientIs, Zenon
  <2> QED
    BY <2>5
<1>5. Holds(m, q, byte)
  <2> HIDE DEF q
  <2>1. CASE q < m.chunks - 1
    BY <1>1, <1>2, <2>1 DEF Holds, Start, ChunkLen
  <2>2. CASE q = m.chunks - 1
    BY <1>1, <1>2, <2>2 DEF Holds, Start, ChunkLen
  <2> QED
    BY <1>1, <1>2, <1>3, <2>1, <2>2
<1> QED
  BY <1>1, <1>2, <1>3, <1>4, <1>5

(* expected_count: what is left for a page, or as much as a page takes; the *)
(* branch for a count that is a multiple is never reached with a page the   *)
(* map has.                                                                 *)
LEMMA PageCount ==
    ASSUME NEW m, m.size \in Nat, Decodes(m), NEW p \in 0..m.pages - 1
    PROVE  LET left == m.chunks - p * ChunksPerPage IN
           /\ left > 0
           /\ ExpectedCount(m.chunks, p) =
                  IF left < ChunksPerPage THEN left ELSE ChunksPerPage
<1> DEFINE P == ChunksPerPage
           q == m.chunks \div P
           r == m.chunks % P
<1>1. /\ m.chunks \in Nat \ {0} /\ m.pages \in Nat \ {0}
      /\ (m.pages - 1) * P < m.chunks /\ m.chunks <= m.pages * P /\ P \in Nat \ {0}
  BY MapCounts, ChunksPerPageAssumption
<1>2. q \in Nat /\ r \in Nat /\ r < P /\ m.chunks = q * P + r
  BY <1>1, Quotient
<1>3. p * P \in Nat /\ p * P < m.chunks
  <2>1. p * P <= (m.pages - 1) * P
    BY <1>1, Monotone
  <2>2. p * P \in Nat
    BY <1>1
  <2> QED
    BY <1>1, <2>1, <2>2
<1> HIDE DEF q, r
<1>4. CASE p < q
  <2>1. (p + 1) * P <= q * P /\ (p + 1) * P = p * P + P
    BY <1>1, <1>2, <1>4, Monotone
  <2> QED
    BY <1>1, <1>2, <1>3, <1>4, <2>1 DEF ExpectedCount, q
<1>5. CASE ~(p < q)
  <2>1. q * P <= p * P
    BY <1>1, <1>2, <1>5, Monotone
  <2>2. r > 0
    BY <1>1, <1>2, <1>3, <2>1
  <2>3. p = q
    <3> SUFFICES ASSUME q + 1 <= p PROVE FALSE
      BY <1>2, <1>5
    <3>1. (q + 1) * P <= p * P /\ (q + 1) * P = q * P + P
      BY <1>1, <1>2, Monotone
    <3> QED
      BY <1>1, <1>2, <1>3, <3>1
  <2>4. ExpectedCount(m.chunks, p) = r
    BY <1>5, <2>2, <1>2 DEF ExpectedCount, q, r
  <2> QED
    BY <1>1, <1>2, <1>3, <2>3, <2>4
<1> QED
  BY <1>4, <1>5

-----------------------------------------------------------------------------
(* The map the client takes is the one whose identity it knows.             *)
Known ==
    /\ range \in [offset : U64, length : U64]
    /\ \/ file \in Files /\ published = MapOf(file)
       \/ file \in Claims /\ published.layout.size = Len(file)
    /\ map # << >> => map = <<published>> /\ Decodes(published.layout)

LEMMA U64IsNat == U64 \subseteq Nat
  BY DEF U64

LEMMA SizeIsLength ==
    ASSUME Known
    PROVE  published.layout.size = Len(file) /\ Len(file) \in Nat \ {0}
<1>1. Len(file) \in U64 \ {0}
  BY FilesAssumption DEF Known
<1>2. MapOf(file).layout.size = Len(file)
  BY DEF MapOf, MapFor
<1>3. published.layout.size = Len(file)
  BY <1>2 DEF Known
<1> QED
  BY <1>1, <1>3, U64IsNat

LEMMA InitKnown == Init => Known
<1> SUFFICES ASSUME Init PROVE Known
  OBVIOUS
<1>1. ASSUME published \in OtherMaps(file) PROVE published.layout.size = Len(file)
  <2>1. PICK c, p : published = Recounted(MapOf(file), c, p)
    BY <1>1 DEF OtherMaps
  <2> QED
    BY <2>1 DEF Recounted, MapOf, MapFor
<1> QED
  BY <1>1, RangesAssumption DEF Init, Known

LEMMA KnownStep == Known /\ [Next]_vars => Known'
<1> SUFFICES ASSUME Known, [Next]_vars PROVE Known'
  OBVIOUS
<1>1. UNCHANGED <<file, range, published>>
  BY DEF Next, ReceiveMap, Refuse, ReceivePage, ReceiveChunk, Assemble, vars
<1>2. CASE ReceiveMap
  <2>1. PICK m \in SentMaps : MapTaken(m) /\ map' = <<m>>
    BY <1>2 DEF ReceiveMap
  <2>2. m = published /\ Decodes(published.layout)
    BY <2>1 DEF MapTaken, MapId
  <2> QED
    BY <1>1, <2>1, <2>2 DEF Known
<1>3. CASE ~ReceiveMap
  <2>1. UNCHANGED map
    BY <1>3 DEF Next, Refuse, ReceivePage, ReceiveChunk, Assemble, vars
  <2> QED
    BY <1>1, <2>1 DEF Known
<1> QED
  BY <1>2, <1>3

LEMMA AlwaysKnown == Spec => []Known
  BY InitKnown, KnownStep, PTL DEF Spec

-----------------------------------------------------------------------------
LEMMA KnownPartitions == Known => MapPartitions
<1> SUFFICES ASSUME Known, map # << >> PROVE MapPartitions
  BY DEF MapPartitions
<1> DEFINE m == published.layout
<1>1. map[1].layout = m /\ Decodes(m) /\ m.size \in Nat
  BY SizeIsLength DEF Known
<1> HIDE DEF m
<1>2. ASSUME NEW byte \in 0..m.size - 1
      PROVE  \E i \in 0..m.chunks - 1 :
                /\ Holds(m, i, byte)
                /\ \A j \in 0..m.chunks - 1 : Holds(m, j, byte) => j = i
  BY <1>1, HoldsIsQuotient
<1>3. ASSUME NEW i \in 0..m.chunks - 1 PROVE ChunkLen(m, i) \in 1..ChunkSize
  BY <1>1, ChunkLenBounds
<1>4. Start(m.chunks - 1) + ChunkLen(m, m.chunks - 1) = m.size
  <2>1. m.chunks \in Nat /\ (m.chunks - 1) * ChunkSize \in Int
    BY <1>1, MapCounts, ChunkSizeAssumption
  <2> QED
    BY <1>1, <2>1 DEF Start, ChunkLen
<1>5. ASSUME NEW p \in 0..m.pages - 1
      PROVE  LET left == m.chunks - p * ChunksPerPage
             IN  /\ left > 0
                 /\ ExpectedCount(m.chunks, p) =
                        IF left < ChunksPerPage THEN left ELSE ChunksPerPage
  BY <1>1, PageCount
<1>6. m.pages * ChunksPerPage >= m.chunks
  BY <1>1, MapCounts, ChunksPerPageAssumption
<1> QED
  BY <1>1, <1>2, <1>3, <1>4, <1>5, <1>6 DEF MapPartitions

(* The end range_chunks computes, and the range of bytes up to it. *)
LEMMA EndIsClamped ==
    ASSUME NEW offset \in Nat, NEW length \in Nat \ {0}, NEW size \in Nat, offset < size
    PROVE  /\ End(offset, length, size) \in offset + 1..size
           /\ \A byte \in 0..size - 1 :
                byte < offset + length <=> byte < End(offset, length, size)
  BY DEF End

LEMMA RangeChunksExact ==
    ASSUME NEW m, m.size \in Nat, Decodes(m), NEW offset \in Nat, NEW length \in Nat
    PROVE  LET w == RangeChunks(offset, length, m.size)
               needed == IF w.outcome = "ok" THEN w.first..w.last ELSE {}
           IN  needed = {i \in 0..m.chunks - 1 :
                   \E byte \in 0..m.size - 1 :
                      Holds(m, i, byte) /\ byte >= offset /\ byte < offset + length}
<1> DEFINE w == RangeChunks(offset, length, m.size)
           needed == IF w.outcome = "ok" THEN w.first..w.last ELSE {}
           Hit(i) == \E byte \in 0..m.size - 1 :
                        Holds(m, i, byte) /\ byte >= offset /\ byte < offset + length
<1>1. CASE length = 0 \/ offset >= m.size
  <2>1. needed = {}
    BY <1>1 DEF RangeChunks, Refused
  <2>2. \A i \in 0..m.chunks - 1 : ~Hit(i)
    BY <1>1
  <2> QED
    BY <2>1, <2>2
<1>2. CASE length # 0 /\ offset < m.size
  <2> DEFINE e == End(offset, length, m.size)
             C == ChunkSize
             a == offset \div C
             b == (e - 1) \div C
  <2>1. e \in offset + 1..m.size /\ C \in Nat \ {0}
        /\ \A byte \in 0..m.size - 1 : byte < offset + length <=> byte < e
    BY <1>2, EndIsClamped, ChunkSizeAssumption
  <2>2. needed = a..b
    BY <1>2 DEF RangeChunks
  <2> HIDE DEF e
  <2>3. offset \in 0..m.size - 1 /\ e - 1 \in 0..m.size - 1
    BY <1>2, <2>1
  <2>4. a \in 0..m.chunks - 1 /\ b \in 0..m.chunks - 1
    BY <2>3, HoldsIsQuotient
  <2>5. ASSUME NEW i \in 0..m.chunks - 1, Hit(i) PROVE i \in a..b
    <3>1. PICK byte \in 0..m.size - 1 :
            Holds(m, i, byte) /\ byte >= offset /\ byte < e
      BY <2>1, <2>5
    <3>2. i = byte \div C
      BY <3>1, HoldsIsQuotient
    <3>3. a <= byte \div C
      <4>1. offset \in Nat /\ byte \in Nat /\ offset <= byte
        BY <3>1
      <4> QED
        BY <2>1, <4>1, QuotientsInOrder
    <3>4. byte \div C <= b
      <4>1. byte \in Nat /\ e - 1 \in Nat /\ byte <= e - 1
        BY <2>1, <2>3, <3>1
      <4> QED
        BY <2>1, <4>1, QuotientsInOrder
    <3> HIDE DEF a, b
    <3> QED
      BY <2>4, <3>2, <3>3, <3>4
  <2>6. ASSUME NEW i \in a..b PROVE i \in 0..m.chunks - 1 /\ Hit(i)
    <3> DEFINE byte == IF offset <= i * C THEN i * C ELSE offset
    <3>1. a * C <= offset /\ offset < a * C + C /\ a \in Nat
      BY <2>1, Quotient
    <3>2. b * C <= e - 1 /\ b \in Nat
      BY <2>1, <2>3, Quotient
    <3>3. i \in 0..m.chunks - 1
      <4> HIDE DEF a, b
      <4>1. m.chunks \in Nat
        BY MapCounts
      <4> QED
        BY <2>4, <2>6, <4>1
    <3>4. i * C <= b * C /\ a * C <= i * C /\ i * C \in Nat
      <4> HIDE DEF a, b
      <4>1. i \in Nat /\ a <= i /\ i <= b
        BY <2>6, <3>1, <3>2
      <4> QED
        BY <2>1, <3>1, <3>2, <4>1, Monotone
    <3> HIDE DEF a, b
    <3>5. i * C <= byte /\ byte < i * C + C /\ byte \in Nat /\ byte <= e - 1
          /\ offset <= byte
      BY <2>1, <3>1, <3>2, <3>4
    <3> HIDE DEF byte
    <3>6. byte \in 0..m.size - 1
      BY <2>1, <3>5
    <3>7. byte \div C = i
      <4>1. i \in Int /\ C \in Nat \ {0}
        BY <2>1, <3>3
      <4> QED
        BY <3>5, <4>1, QuotientIs, Zenon
    <3>8. Holds(m, i, byte)
      BY <3>3, <3>6, <3>7, HoldsIsQuotient
    <3>9. byte < offset + length
      BY <2>1, <3>5, <3>6
    <3> QED
      BY <3>3, <3>5, <3>6, <3>8, <3>9
  <2> QED
    BY <2>2, <2>5, <2>6
<1> QED
  BY <1>1, <1>2

LEMMA KnownExact == Known => RangeExact
<1> SUFFICES ASSUME Known, map # << >> PROVE RangeExact
  BY DEF RangeExact
<1> DEFINE m == published.layout
<1>1. map[1].layout = m /\ Decodes(m)
  BY DEF Known
<1>2. Wanted = RangeChunks(range.offset, range.length, m.size)
  BY <1>1 DEF Wanted
<1>3. Needed = IF Wanted.outcome = "ok" THEN Wanted.first..Wanted.last ELSE {}
  BY DEF Needed
<1>4. m.size \in Nat /\ range.offset \in Nat /\ range.length \in Nat
  <2>1. range.offset \in U64 /\ range.length \in U64
    BY DEF Known
  <2> QED
    BY <2>1, SizeIsLength, U64IsNat
<1> HIDE DEF m
<1>5. Needed = {i \in 0..m.chunks - 1 :
                  \E byte \in 0..m.size - 1 :
                     /\ Holds(m, i, byte) /\ byte >= range.offset
                     /\ byte < range.offset + range.length}
  BY <1>1, <1>2, <1>3, <1>4, RangeChunksExact
<1> QED
  BY <1>1, <1>5 DEF RangeExact, m

(* A map that was taken, whoever published it, cuts its file into chunks    *)
(* and its chunks into pages without gap, overlap or empty piece.           *)
THEOREM MapsPartition == Spec => []MapPartitions
  BY AlwaysKnown, KnownPartitions, PTL

(* range_chunks names exactly the chunks with a byte of the range, for      *)
(* offsets and lengths whose sum no u64 holds as well.                      *)
THEOREM RangesAreExact == Spec => []RangeExact
  BY AlwaysKnown, KnownExact, PTL

-----------------------------------------------------------------------------
(* What the publisher makes of a file.  The pieces of a sequence are as     *)
(* many as div_ceil says and lie next to each other.                        *)
PieceLen(n, size, g) == IF g * size < n THEN size ELSE n - (g - 1) * size

CutInto(V, s, size, gs, d) ==
    /\ gs \in Seq(Seq(V)) /\ Len(gs) = d /\ d \in Nat \ {0}
    /\ \A g \in 1..d :
         /\ (g - 1) * size \in Nat /\ g * size = (g - 1) * size + size
         /\ (g - 1) * size < Len(s)
         /\ gs[g] \in Seq(V) /\ Len(gs[g]) = PieceLen(Len(s), size, g)
         /\ PieceLen(Len(s), size, g) \in 1..size
         /\ (g - 1) * size + PieceLen(Len(s), size, g) <= Len(s)
         /\ \A k \in 1..PieceLen(Len(s), size, g) : gs[g][k] = s[(g - 1) * size + k]

LEMMA GroupsCut ==
    ASSUME NEW V, NEW s \in Seq(V), s # << >>, NEW size \in Nat \ {0}
    PROVE  CutInto(V, s, size, Groups(s, size), DivCeil(Len(s), size))
<1> DEFINE n == Len(s)
           d == DivCeil(n, size)
           Piece(g) == SubSeq(s, (g - 1) * size + 1, IF g * size < n THEN g * size ELSE n)
<1>1. n \in Nat \ {0}
  OBVIOUS
<1>2. d \in Nat \ {0} /\ (d - 1) * size < n /\ n <= d * size
  BY <1>1, CeilingHolds
<1>3. Groups(s, size) = [g \in 1..d |-> Piece(g)]
  BY DEF Groups
<1> HIDE DEF d
<1>4. ASSUME NEW g \in 1..d
      PROVE  /\ (g - 1) * size \in Nat /\ g * size = (g - 1) * size + size
             /\ (g - 1) * size < n
             /\ Piece(g) \in Seq(V) /\ Len(Piece(g)) = PieceLen(n, size, g)
             /\ PieceLen(n, size, g) \in 1..size
             /\ (g - 1) * size + PieceLen(n, size, g) <= n
             /\ \A k \in 1..PieceLen(n, size, g) : Piece(g)[k] = s[(g - 1) * size + k]
  <2>1. g * size = (g - 1) * size + size /\ (g - 1) * size \in Nat
    <3>1. g - 1 \in Nat /\ g = (g - 1) + 1
      BY <1>2
    <3> QED
      BY <3>1
  <2>2. (g - 1) * size <= (d - 1) * size
    BY <1>2, Monotone
  <2>3. (g - 1) * size < n
    <3>1. (d - 1) * size \in Int
      BY <1>2
    <3> QED
      BY <1>2, <2>1, <2>2, <3>1
  <2> DEFINE a == (g - 1) * size
             b == IF g * size < n THEN g * size ELSE n
  <2>4. b \in a + 1..n /\ b - a = PieceLen(n, size, g) /\ b - a \in 1..size
    <3>1. a \in Nat /\ g * size = a + size /\ a < n
      BY <2>1, <2>3
    <3>2. n <= a + size \/ g * size < n
      BY <1>1, <3>1
    <3>3. PieceLen(n, size, g) = IF g * size < n THEN size ELSE n - a
      BY DEF PieceLen
    <3> HIDE DEF a
    <3> QED
      BY <1>1, <3>1, <3>2, <3>3
  <2> HIDE DEF a, b
  <2>5. a \in Nat
    BY <2>1 DEF a
  <2>6. /\ SubSeq(s, a + 1, b) \in Seq(V) /\ Len(SubSeq(s, a + 1, b)) = b - a
        /\ \A k \in 1..b - a : SubSeq(s, a + 1, b)[k] = s[a + k]
    BY <1>1, <2>4, <2>5
  <2>7. a + (b - a) <= n
    BY <1>1, <2>4, <2>5
  <2>8. Piece(g) = SubSeq(s, a + 1, b)
    BY DEF a, b
  <2>9. (g - 1) * size = a
    BY DEF a
  <2> QED
    BY <2>1, <2>3, <2>4, <2>6, <2>7, <2>8, <2>9
<1>5. Groups(s, size) \in Seq(Seq(V)) /\ Len(Groups(s, size)) = d
  <2> HIDE DEF Piece
  <2>1. \A g \in 1..d : Piece(g) \in Seq(V)
    BY <1>4
  <2> QED
    BY <1>2, <1>3, <2>1
<1>6. \A g \in 1..d : Groups(s, size)[g] = Piece(g)
  <2> HIDE DEF Piece
  <2> QED
    BY <1>3
<1>7. DivCeil(n, size) = d
  BY DEF d
<1> HIDE DEF Piece
<1>8. \A g \in 1..d :
        /\ (g - 1) * size \in Nat /\ g * size = (g - 1) * size + size
        /\ (g - 1) * size < n
        /\ Groups(s, size)[g] \in Seq(V) /\ Len(Groups(s, size)[g]) = PieceLen(n, size, g)
        /\ PieceLen(n, size, g) \in 1..size
        /\ (g - 1) * size + PieceLen(n, size, g) <= n
        /\ \A k \in 1..PieceLen(n, size, g) :
              Groups(s, size)[g][k] = s[(g - 1) * size + k]
  BY <1>4, <1>6
<1> QED
  BY <1>2, <1>5, <1>7, <1>8, Zenon DEF CutInto, n

(* The chunks of a file are as many and as long as its map says, and hold   *)
(* its bytes in order.                                                      *)
LEMMA ChunksCut ==
    ASSUME NEW f \in Seq(Byte), f # << >>
    PROVE  LET m == MapFor(Len(f)) IN
           /\ m.size = Len(f) /\ m.size \in Nat /\ Decodes(m)
           /\ ChunksOf(f) \in Seq(Seq(Byte)) /\ Len(ChunksOf(f)) = m.chunks
           /\ \A i \in 0..m.chunks - 1 :
                /\ ChunksOf(f)[i + 1] \in Seq(Byte)
                /\ Len(ChunksOf(f)[i + 1]) = ChunkLen(m, i)
                /\ i * ChunkSize \in Nat
                /\ i * ChunkSize + ChunkLen(m, i) <= Len(f)
                /\ \A k \in 1..ChunkLen(m, i) :
                      ChunksOf(f)[i + 1][k] = f[i * ChunkSize + k]
<1> DEFINE m == MapFor(Len(f))
           C == ChunkSize
           n == Len(f)
<1>1. /\ m.size = n /\ n \in Nat \ {0} /\ m.chunks = DivCeil(n, C)
      /\ m.pages = DivCeil(m.chunks, ChunksPerPage) /\ C \in Nat \ {0}
  BY ChunkSizeAssumption DEF MapFor
<1> HIDE DEF m
<1>2. m.chunks \in Nat \ {0} /\ (m.chunks - 1) * C < n /\ n <= m.chunks * C
  BY <1>1, CeilingHolds
<1>3. Decodes(m)
  BY <1>1, <1>2 DEF Decodes
<1>4. /\ ChunksOf(f) \in Seq(Seq(Byte)) /\ Len(ChunksOf(f)) = m.chunks
      /\ \A g \in 1..m.chunks :
           /\ (g - 1) * C \in Nat /\ g * C = (g - 1) * C + C /\ (g - 1) * C < n
           /\ ChunksOf(f)[g] \in Seq(Byte)
           /\ Len(ChunksOf(f)[g]) = PieceLen(n, C, g)
           /\ (g - 1) * C + PieceLen(n, C, g) <= n
           /\ \A k \in 1..PieceLen(n, C, g) : ChunksOf(f)[g][k] = f[(g - 1) * C + k]
  <2>1. C \in Nat \ {0} /\ m.chunks = DivCeil(Len(f), C)
    BY <1>1
  <2>2. CutInto(Byte, f, C, Groups(f, C), DivCeil(Len(f), C))
    BY <2>1, GroupsCut, Zenon
  <2>3. ChunksOf(f) = Groups(f, C)
    BY DEF ChunksOf
  <2> QED
    BY <2>1, <2>2, <2>3 DEF CutInto
<1>5. ASSUME NEW i \in 0..m.chunks - 1
      PROVE  /\ ChunksOf(f)[i + 1] \in Seq(Byte)
             /\ Len(ChunksOf(f)[i + 1]) = ChunkLen(m, i)
             /\ i * C \in Nat /\ i * C + ChunkLen(m, i) <= n
             /\ \A k \in 1..ChunkLen(m, i) : ChunksOf(f)[i + 1][k] = f[i * C + k]
  <2>1. i + 1 \in 1..m.chunks /\ (i + 1) - 1 = i
    BY <1>2
  <2>2. /\ i * C \in Nat /\ (i + 1) * C = i * C + C /\ i * C < n
        /\ ChunksOf(f)[i + 1] \in Seq(Byte)
        /\ Len(ChunksOf(f)[i + 1]) = PieceLen(n, C, i + 1)
        /\ i * C + PieceLen(n, C, i + 1) <= n
        /\ \A k \in 1..PieceLen(n, C, i + 1) : ChunksOf(f)[i + 1][k] = f[i * C + k]
    BY <1>4, <2>1
  <2>3. PieceLen(n, C, i + 1) = ChunkLen(m, i)
    <3>1. CASE i = m.chunks - 1
      <4>1. n <= (i + 1) * C
        BY <1>2, <3>1
      <4> QED
        <5>1. PieceLen(n, C, i + 1) = n - ((i + 1) - 1) * C
          <6>1. ~((i + 1) * C < n)
            <7>1. i * C \in Nat /\ C \in Nat /\ (i + 1) * C = i * C + C
              BY <1>1, <2>2, Zenon
            <7> DEFINE a == (i + 1) * C
            <7>2. a \in Nat
              BY <7>1
            <7> HIDE DEF a
            <7>3. n \in Nat /\ n <= a
              BY <1>1, <4>1 DEF a
            <7>4. ~(a < n)
              BY <7>2, <7>3
            <7> QED
              BY <7>4 DEF a
          <6> QED
            BY <6>1, Zenon DEF PieceLen
        <5>2. ChunkLen(m, i) = n - i * C
          <6>1. ~(i < m.chunks - 1)
            BY <1>2, <3>1
          <6> QED
            BY <1>1, <6>1, Zenon DEF ChunkLen
        <5> QED
          BY <2>1, <5>1, <5>2, Zenon
    <3>2. CASE i < m.chunks - 1
      <4>1. (i + 1) * C <= (m.chunks - 1) * C
        BY <1>1, <1>2, <3>2, Monotone
      <4>2. (m.chunks - 1) * C \in Int
        BY <1>1, <1>2
      <4>3. (i + 1) * C < n
        BY <1>1, <1>2, <2>2, <4>1, <4>2
      <4> QED
        BY <3>2, <4>3 DEF PieceLen, ChunkLen
    <3> QED
      BY <1>2, <3>1, <3>2
  <2> QED
    BY <2>2, <2>3
<1> QED
  BY <1>1, <1>3, <1>4, <1>5 DEF m

(* Its leaf pages are as many and as full as the map says, and list its     *)
(* chunks in order.                                                         *)
LEMMA LeavesCut ==
    ASSUME NEW f \in Seq(Byte), f # << >>
    PROVE  LET m == MapFor(Len(f)) IN
           /\ Len(LeavesOf(f)) = m.pages /\ m.pages \in Nat \ {0}
           /\ \A p \in 0..m.pages - 1 :
                /\ LeavesOf(f)[p + 1].page = p /\ LeafOk(LeavesOf(f)[p + 1])
                /\ Len(LeavesOf(f)[p + 1].digests) = ExpectedCount(m.chunks, p)
           /\ \A i \in 0..m.chunks - 1 :
                /\ PageIndex(i) \in 0..m.pages - 1
                /\ LeavesOf(f)[PageIndex(i) + 1].digests[(i % ChunksPerPage) + 1]
                        = ChunksOf(f)[i + 1]
<1> DEFINE m  == MapFor(Len(f))
           P  == ChunksPerPage
           cs == ChunksOf(f)
           gs == Groups(cs, P)
<1>1. /\ m.size \in Nat /\ Decodes(m) /\ P \in Nat \ {0}
      /\ cs \in Seq(Seq(Byte)) /\ Len(cs) = m.chunks
      /\ m.pages = DivCeil(m.chunks, P)
  BY ChunksCut, ChunksPerPageAssumption DEF MapFor
<1> HIDE DEF m
<1>2. /\ m.chunks \in Nat \ {0} /\ m.pages \in Nat \ {0}
      /\ (m.pages - 1) * P < m.chunks /\ m.chunks <= m.pages * P
  BY <1>1, MapCounts
<1> HIDE DEF cs
<1>3. cs # << >>
  BY <1>1, <1>2
<1>4. /\ Len(gs) = m.pages /\ gs \in Seq(Seq(Seq(Byte)))
      /\ \A g \in 1..m.pages :
           /\ (g - 1) * P \in Nat /\ g * P = (g - 1) * P + P
           /\ gs[g] \in Seq(Seq(Byte)) /\ Len(gs[g]) = PieceLen(m.chunks, P, g)
           /\ PieceLen(m.chunks, P, g) \in 1..P
           /\ \A k \in 1..PieceLen(m.chunks, P, g) : gs[g][k] = cs[(g - 1) * P + k]
  <2>1. /\ cs \in Seq(Seq(Byte)) /\ cs # << >> /\ P \in Nat \ {0}
        /\ m.pages = DivCeil(Len(cs), P) /\ m.chunks = Len(cs)
    BY <1>1, <1>3
  <2>2. CutInto(Seq(Byte), cs, P, Groups(cs, P), DivCeil(Len(cs), P))
    BY <2>1, GroupsCut, Zenon
  <2> QED
    BY <2>1, <2>2 DEF CutInto
<1>5. /\ Len(LeavesOf(f)) = m.pages
      /\ \A p \in 0..m.pages - 1 : LeavesOf(f)[p + 1] = ChunkLeaf(p, gs[p + 1])
  <2>1. LeavesOf(f) = [g \in DOMAIN gs |-> ChunkLeaf(g - 1, gs[g])]
    BY DEF LeavesOf, cs
  <2>2. DOMAIN gs = 1..m.pages
    BY <1>4
  <2> HIDE DEF gs
  <2> QED
    BY <1>2, <2>1, <2>2
<1> HIDE DEF gs
<1>6. ASSUME NEW p \in 0..m.pages - 1
      PROVE  /\ LeavesOf(f)[p + 1].page = p /\ LeafOk(LeavesOf(f)[p + 1])
             /\ Len(LeavesOf(f)[p + 1].digests) = ExpectedCount(m.chunks, p)
  <2>1. /\ p + 1 \in 1..m.pages /\ (p + 1) - 1 = p
    BY <1>2
  <2>2. /\ p * P \in Nat /\ (p + 1) * P = p * P + P
        /\ Len(gs[p + 1]) = PieceLen(m.chunks, P, p + 1)
        /\ PieceLen(m.chunks, P, p + 1) \in 1..P
    BY <1>4, <2>1
  <2>3. ExpectedCount(m.chunks, p) =
          IF m.chunks - p * P < P THEN m.chunks - p * P ELSE P
    BY <1>1, PageCount
  <2>4. PieceLen(m.chunks, P, p + 1) = ExpectedCount(m.chunks, p)
    <3> DEFINE a == p * P
               e == (p + 1) * P
               c == m.chunks
    <3>1. /\ a \in Nat /\ e = a + P /\ c \in Nat /\ P \in Nat
          /\ PieceLen(c, P, p + 1) = IF e < c THEN P ELSE c - a
          /\ ExpectedCount(c, p) = IF c - a < P THEN c - a ELSE P
      <4>1. c \in Nat /\ P \in Nat
        BY <1>1, <1>2
      <4>2. PieceLen(c, P, p + 1) = IF (p + 1) * P < c THEN P ELSE c - p * P
        BY <2>1, Zenon DEF PieceLen
      <4> QED
        BY <2>2, <2>3, <4>1, <4>2, Zenon
    <3> HIDE DEF a, e, c
    <3>2. PieceLen(c, P, p + 1) = ExpectedCount(c, p)
      BY <3>1
    <3> QED
      BY <3>2 DEF c
  <2>5. LeavesOf(f)[p + 1].page = p /\ LeavesOf(f)[p + 1].digests = gs[p + 1]
    <3>1. LeavesOf(f)[p + 1] = ChunkLeaf(p, gs[p + 1])
      BY <1>5
    <3> QED
      BY <3>1 DEF ChunkLeaf
  <2> QED
    BY <2>2, <2>4, <2>5 DEF LeafOk
<1>7. ASSUME NEW i \in 0..m.chunks - 1
      PROVE  /\ PageIndex(i) \in 0..m.pages - 1
             /\ LeavesOf(f)[PageIndex(i) + 1].digests[(i % P) + 1] = cs[i + 1]
  <2> DEFINE q == i \div P
             r == i % P
  <2>1. q \in Nat /\ r \in Nat /\ r < P /\ i = q * P + r /\ q * P <= i
    <3>1. i \in Nat
      BY <1>2
    <3> QED
      BY <1>1, <3>1, Quotient
  <2>2. PageIndex(i) = q
    BY DEF PageIndex
  <2> HIDE DEF q, r
  <2>3. q < m.pages
    <3> SUFFICES ASSUME m.pages <= q PROVE FALSE
      BY <1>2, <2>1
    <3>1. m.pages * P <= q * P
      BY <1>1, <1>2, <2>1, Monotone
    <3>2. m.pages * P \in Nat /\ q * P \in Nat
      BY <1>1, <1>2, <2>1
    <3> QED
      BY <1>2, <2>1, <3>1, <3>2
  <2>4. q + 1 \in 1..m.pages /\ (q + 1) - 1 = q /\ q \in 0..m.pages - 1
    BY <1>2, <2>1, <2>3
  <2>5. r + 1 \in 1..PieceLen(m.chunks, P, q + 1)
    <3>1. q * P \in Nat /\ (q + 1) * P = q * P + P
      BY <1>1, <2>1
    <3>2. PieceLen(m.chunks, P, q + 1) =
            IF q * P + P < m.chunks THEN P ELSE m.chunks - q * P
      BY <2>4, <3>1 DEF PieceLen
    <3> QED
      BY <1>1, <1>2, <2>1, <3>1, <3>2
  <2>6. gs[q + 1][r + 1] = cs[q * P + (r + 1)]
    BY <1>4, <2>4, <2>5
  <2>7. q * P + (r + 1) = i + 1
    BY <1>1, <2>1
  <2>8. LeavesOf(f)[q + 1].digests = gs[q + 1]
    <3>1. LeavesOf(f)[q + 1] = ChunkLeaf(q, gs[q + 1])
      BY <1>5, <2>4
    <3> QED
      BY <3>1 DEF ChunkLeaf
  <2> QED
    BY <2>2, <2>4, <2>6, <2>7, <2>8 DEF r
<1> QED
  BY <1>2, <1>5, <1>6, <1>7 DEF m, cs

-----------------------------------------------------------------------------
(* With pages and chunks behind it, the map is the one of the file.         *)
LEMMA FileBehind ==
    ASSUME Known, Behind
    PROVE  /\ published = MapOf(file) /\ file \in Seq(Byte) /\ file # << >>
           /\ published.layout = MapFor(Len(file)) /\ published.content = file
           /\ published.root = Root(LeavesOf(file))
<1>1. file \in Files /\ published = MapOf(file)
  BY ClaimsAssumption DEF Known, Behind
<1>2. file \in Seq(Byte) /\ Len(file) \in U64 \ {0}
  BY <1>1, FilesAssumption
<1> QED
  BY <1>1, <1>2 DEF MapOf

(* The chunks a range needs are chunks the map has. *)
LEMMA NeededAreChunks ==
    ASSUME Known, map # << >>
    PROVE  Needed \subseteq 0..published.layout.chunks - 1
<1>1. map[1].layout = published.layout
  BY DEF Known
<1>2. RangeExact
  BY KnownExact
<1> QED
  BY <1>1, <1>2 DEF RangeExact

LEMMA KnownHonest == Known => HonestIsTaken
<1> SUFFICES ASSUME Known, Behind PROVE HonestIsTaken
  BY DEF HonestIsTaken
<1> DEFINE m  == MapFor(Len(file))
           ps == LeavesOf(file)
<1>1. /\ published = MapOf(file) /\ file \in Seq(Byte) /\ file # << >>
      /\ published.layout = m /\ published.content = file
      /\ published.root = Root(ps)
  BY FileBehind
<1>2. m.size \in Nat /\ Decodes(m) /\ m.chunks \in Nat \ {0}
  BY <1>1, ChunksCut, MapCounts
<1>3. MapTaken(MapOf(file))
  <2> HIDE DEF m
  <2> QED
    BY <1>1, <1>2 DEF MapTaken
<1>4. ASSUME map # << >>, NEW i \in Needed
      PROVE  LET p    == PageIndex(i)
                 leaf == ps[p + 1]
             IN  /\ PageTaken(map[1], p, leaf, LeafProof(ps, p))
                 /\ ChunkTaken(map[1], leaf, i, Payload(map[1], i, ChunksOf(file)[i + 1]))
  <2> DEFINE p     == PageIndex(i)
             leaf  == ps[p + 1]
             bytes == ChunksOf(file)[i + 1]
  <2>1. map[1] = published /\ i \in 0..m.chunks - 1
    BY <1>1, <1>4, NeededAreChunks DEF Known
  <2>2. /\ Len(bytes) = ChunkLen(m, i)
    BY <1>1, <2>1, ChunksCut
  <2>3. /\ Len(ps) = m.pages /\ m.pages \in Nat \ {0} /\ p \in 0..m.pages - 1
        /\ leaf.page = p /\ LeafOk(leaf)
        /\ Len(leaf.digests) = ExpectedCount(m.chunks, p)
        /\ leaf.digests[(i % ChunksPerPage) + 1] = bytes
    BY <1>1, <2>1, LeavesCut
  <2> HIDE DEF m, ps, p, bytes
  <2>4. VerifyLeaf(m.pages, p, LeafHash(leaf), LeafProof(ps, p), Root(ps))
    BY <2>3, OwnProofVerifies
  <2>5. PageTaken(map[1], p, leaf, LeafProof(ps, p))
    BY <1>1, <2>1, <2>3, <2>4 DEF PageTaken
  <2>6. ChunkTaken(map[1], leaf, i, Payload(map[1], i, bytes))
    BY <1>1, <2>1, <2>2, <2>3 DEF ChunkTaken, Payload
  <2> QED
    BY <2>5, <2>6 DEF p, bytes
<1> HIDE DEF m
<1> QED
  BY <1>3, <1>4 DEF HonestIsTaken

(* Whatever an honest server sends for a file is taken, at full and at      *)
(* partial last pages and chunks: what the publisher cuts and what the      *)
(* client computes from the size alone agree.                               *)
THEOREM HonestServerIsTaken == Spec => []HonestIsTaken
  BY AlwaysKnown, KnownHonest, PTL

-----------------------------------------------------------------------------
(* What was verified is what the publisher cut: a page has the tree between *)
(* it and the root of the map, a chunk its page.                            *)
Verified ==
    /\ Known
    /\ \A p \in DOMAIN pages :
         Behind /\ map # << >> /\ pages[p] = LeavesOf(file)[p + 1]
    /\ \A i \in DOMAIN chunks :
         Behind /\ map # << >> /\ chunks[i] = ChunksOf(file)[i + 1]

LEMMA InitVerified == Init => Verified
<1> SUFFICES ASSUME Init PROVE Verified
  OBVIOUS
<1>1. DOMAIN pages = {} /\ DOMAIN chunks = {}
  BY DEF Init
<1> QED
  BY <1>1, InitKnown DEF Verified

LEMMA PageStep == ASSUME Verified, ReceivePage PROVE Verified'
<1>0. PICK p \in {PageIndex(i) : i \in Needed} \ DOMAIN pages :
        \E leaf \in SentLeaves(p), proof \in SentProofs :
          PageTaken(map[1], p, leaf, proof) /\ pages' = With(pages, p, leaf)
  BY DEF ReceivePage
<1>1. PICK leaf \in SentLeaves(p), proof \in SentProofs :
        PageTaken(map[1], p, leaf, proof) /\ pages' = With(pages, p, leaf)
  BY <1>0
<1>2. UNCHANGED <<file, range, published, map, chunks, result>> /\ map # << >>
  BY DEF ReceivePage
<1>3. Known'
  BY KnownStep DEF Verified, Next
<1>4. Behind
  BY <1>1 DEF SentLeaves
<1> DEFINE m  == MapFor(Len(file))
           ps == LeavesOf(file)
<1>5. /\ published.layout = m /\ published.root = Root(ps) /\ map[1] = published
      /\ file \in Seq(Byte) /\ file # << >>
  BY <1>2, <1>4, FileBehind DEF Verified, Known
<1>6. Len(ps) = m.pages /\ m.pages \in Nat
  BY <1>5, LeavesCut
<1>7. p \in Nat
  <2>1. PICK i \in Needed : p = PageIndex(i)
    BY <1>0
  <2>2. i \in 0..m.chunks - 1
    BY <1>2, <1>5, <2>1, NeededAreChunks DEF Verified
  <2>3. p \in 0..m.pages - 1
    BY <1>5, <2>1, <2>2, LeavesCut
  <2> QED
    BY <2>3
<1>8. leaf = ps[p + 1]
  <2>1. PICK i \in 0..Len(ps) - 1 : proof = LeafProof(ps, i)
    BY <1>1 DEF SentProofs
  <2>2. PICK X : proof \in Seq(X)
    BY <1>6, <2>1, TreeAgrees DEF Agrees
  <2>3. VerifyLeaf(Len(ps), p, LeafHash(leaf), proof, Root(ps))
    BY <1>1, <1>5, <1>6 DEF PageTaken
  <2>4. LeafHash(leaf) = LeafHash(ps[p + 1])
    <3> HIDE DEF ps
    <3> QED
      BY <1>6, <1>7, <2>2, <2>3, OnlyOwnPage
  <2> QED
    BY <2>4 DEF LeafHash
<1>9. \A q \in DOMAIN pages' : pages'[q] = ps[q + 1]
  BY <1>1, <1>8 DEF Verified, With
<1> QED
  BY <1>2, <1>3, <1>4, <1>9 DEF Verified, Behind

LEMMA ChunkStep == ASSUME Verified, ReceiveChunk PROVE Verified'
<1>1. PICK i \in Needed \ DOMAIN chunks :
        /\ PageIndex(i) \in DOMAIN pages
        /\ \E payload \in SentPayloads(i) :
             /\ ChunkTaken(map[1], pages[PageIndex(i)], i, payload)
             /\ chunks' = With(chunks, i, payload.bytes)
  BY DEF ReceiveChunk
<1>2. PICK payload : /\ ChunkTaken(map[1], pages[PageIndex(i)], i, payload)
                     /\ chunks' = With(chunks, i, payload.bytes)
  BY <1>1
<1>3. UNCHANGED <<file, range, published, map, pages, result>> /\ map # << >>
  BY DEF ReceiveChunk
<1>4. Known'
  BY KnownStep DEF Verified, Next
<1>5. Behind /\ pages[PageIndex(i)] = LeavesOf(file)[PageIndex(i) + 1]
  BY <1>1 DEF Verified
<1> DEFINE m == MapFor(Len(file))
<1>6. published.layout = m /\ file \in Seq(Byte) /\ file # << >>
  BY <1>5, FileBehind DEF Verified
<1>7. i \in 0..m.chunks - 1
  BY <1>1, <1>3, <1>6, NeededAreChunks DEF Verified
<1>8. payload.bytes = ChunksOf(file)[i + 1]
  <2>1. LeavesOf(file)[PageIndex(i) + 1].digests[(i % ChunksPerPage) + 1]
          = ChunksOf(file)[i + 1]
    BY <1>6, <1>7, LeavesCut
  <2> QED
    BY <1>2, <1>5, <2>1 DEF ChunkTaken
<1>9. \A j \in DOMAIN chunks' : chunks'[j] = ChunksOf(file)[j + 1]
  BY <1>2, <1>8 DEF Verified, With
<1> QED
  BY <1>3, <1>4, <1>5, <1>9 DEF Verified, Behind

LEMMA VerifiedStep == Verified /\ [Next]_vars => Verified'
<1> SUFFICES ASSUME Verified, [Next]_vars PROVE Verified'
  OBVIOUS
<1>1. CASE ReceivePage
  BY <1>1, PageStep
<1>2. CASE ReceiveChunk
  BY <1>2, ChunkStep
<1>3. CASE ~ReceivePage /\ ~ReceiveChunk
  <2>1. UNCHANGED <<file, pages, chunks>> /\ (map # << >> => map' # << >>)
    BY <1>3 DEF Next, ReceiveMap, Refuse, Assemble, vars
  <2>2. Known'
    BY KnownStep DEF Verified
  <2> QED
    BY <2>1, <2>2 DEF Verified, Behind
<1> QED
  BY <1>1, <1>2, <1>3

LEMMA AlwaysVerified == Spec => []Verified
  BY InitVerified, VerifiedStep, PTL DEF Spec

-----------------------------------------------------------------------------
(* Consecutive chunks put together are the bytes between them.  FlattenSeq  *)
(* appends one sequence after the other.                                    *)
LEMMA FlattenRows ==
    ASSUME NEW seqs, Len(seqs) \in Nat \ {0}
    PROVE  \E got : /\ FlattenSeq(seqs) = got[Len(seqs)]
                    /\ \A n \in 1..Len(seqs) :
                         got[n] = IF n = 1 THEN seqs[1] ELSE got[n - 1] \o seqs[n]
<1> DEFINE L == Len(seqs)
           Row(f, n) == IF n = 1 THEN seqs[n] ELSE f[n - 1] \o seqs[n]
           U(f) == f = [n \in 1..L |-> Row(f, n)]
           h    == CHOOSE f : U(f)
           S    == {j \in Nat : \E f : \A n \in 1..j : f[n] = Row(f, n)}
<1> HIDE DEF Row
<1>1. \A j \in Nat : j \in S
  <2> SUFFICES ASSUME NEW j \in Nat, \A m \in 0..j - 1 : m \in S PROVE j \in S
    BY StrongInduction
  <2>1. CASE j = 0
    BY <2>1
  <2>2. CASE j > 0
    <3>1. j - 1 \in S
      <4> HIDE DEF S
      <4>1. j - 1 \in 0..j - 1
        BY <2>2
      <4> QED
        BY <4>1
    <3>2. PICK g : \A n \in 1..j - 1 : g[n] = Row(g, n)
      BY <3>1
    <3> DEFINE f == [n \in 1..j |-> IF n < j THEN g[n] ELSE Row(g, j)]
    <3>3. ASSUME NEW n \in 1..j, n < j PROVE f[n] = Row(f, n)
      <4>1. f[n] = Row(g, n)
        BY <3>2, <3>3
      <4>2. n # 1 => f[n - 1] = g[n - 1]
        BY <3>3
      <4> HIDE DEF f
      <4> QED
        BY <4>1, <4>2 DEF Row
    <3>4. f[j] = Row(f, j)
      <4>1. f[j] = Row(g, j)
        BY <2>2
      <4>2. j # 1 => f[j - 1] = g[j - 1]
        BY <2>2
      <4> HIDE DEF f
      <4> QED
        BY <4>1, <4>2 DEF Row
    <3> HIDE DEF f
    <3>5. \A n \in 1..j : f[n] = Row(f, n)
      BY <3>3, <3>4
    <3> QED
      BY <3>5
  <2> QED
    BY <2>1, <2>2
<1>2. U(h)
  <2>1. PICK g : \A n \in 1..L : g[n] = Row(g, n)
    BY <1>1
  <2> DEFINE f == [n \in 1..L |-> g[n]]
  <2>2. \A n \in 1..L : f[n] = Row(f, n)
    BY <2>1 DEF Row
  <2>3. U(f)
    BY <2>2
  <2> QED
    BY <2>3
<1>3. FlattenSeq(seqs) = h[L]
  BY DEF FlattenSeq, Row
<1> HIDE DEF h
<1>4. \A n \in 1..L : h[n] = Row(h, n)
  BY <1>2
<1> QED
  BY <1>3, <1>4 DEF Row

Upto(f, g) == IF g * ChunkSize < Len(f) THEN g * ChunkSize ELSE Len(f)

LEMMA ChunksTogether ==
    ASSUME NEW f \in Seq(Byte), f # << >>, NEW a \in Nat, NEW N \in Nat \ {0},
           a + N <= MapFor(Len(f)).chunks
    PROVE  /\ a * ChunkSize \in Nat /\ Upto(f, a + N) \in a * ChunkSize + 1..Len(f)
           /\ FlattenSeq([k \in 1..N |-> ChunksOf(f)[a + k]])
                  = SubSeq(f, a * ChunkSize + 1, Upto(f, a + N))
<1> DEFINE C    == ChunkSize
           n    == Len(f)
           d    == MapFor(n).chunks
           seqs == [k \in 1..N |-> ChunksOf(f)[a + k]]
<1>1. /\ C \in Nat \ {0} /\ n \in Nat \ {0} /\ d \in Nat \ {0}
      /\ d = DivCeil(n, C) /\ (d - 1) * C < n /\ a + N <= d
  <2>1. C \in Nat \ {0} /\ n \in Nat \ {0} /\ d = DivCeil(n, C)
    BY ChunkSizeAssumption DEF MapFor
  <2> HIDE DEF d
  <2> QED
    BY <2>1, CeilingHolds DEF d
<1> HIDE DEF d
<1>2. ASSUME NEW g \in 1..d
      PROVE  ChunksOf(f)[g] = SubSeq(f, (g - 1) * C + 1, Upto(f, g))
  <2>1. ChunksOf(f) = [k \in 1..d |-> SubSeq(f, (k - 1) * C + 1, Upto(f, k))]
    BY <1>1, Zenon DEF ChunksOf, Groups, Upto
  <2> QED
    BY <2>1, Zenon
<1>3. ASSUME NEW g \in 0..d - 1
      PROVE  /\ g * C \in Nat /\ g * C < n /\ (g + 1) * C = g * C + C
             /\ Upto(f, g) = g * C /\ Upto(f, g + 1) \in g * C + 1..n
  <2>1. g * C <= (d - 1) * C /\ (d - 1) * C \in Int
    <3>1. g \in Int /\ d - 1 \in Int /\ g <= d - 1 /\ C \in Nat
      BY <1>1
    <3> QED
      BY <3>1, Monotone
  <2>2. g * C \in Nat /\ (g + 1) * C = g * C + C
    BY <1>1
  <2> QED
    BY <1>1, <2>1, <2>2 DEF Upto
<1>4. a \in 0..d - 1 /\ a + N - 1 \in 0..d - 1
  BY <1>1
<1>5. PICK got : /\ FlattenSeq(seqs) = got[N]
                 /\ \A k \in 1..N :
                      got[k] = IF k = 1 THEN seqs[1] ELSE got[k - 1] \o seqs[k]
  <2>1. Len(seqs) = N
    OBVIOUS
  <2> HIDE DEF seqs
  <2> QED
    BY <2>1, FlattenRows
<1> DEFINE S == {k \in Nat : k \in 1..N =>
                    got[k] = SubSeq(f, a * C + 1, Upto(f, a + k))}
<1>6. \A k \in Nat : k \in S
  <2> HIDE DEF S
  <2> SUFFICES ASSUME NEW k \in Nat, \A j \in 0..k - 1 : j \in S PROVE k \in S
    BY StrongInduction
  <2> SUFFICES ASSUME k \in 1..N PROVE got[k] = SubSeq(f, a * C + 1, Upto(f, a + k))
    BY DEF S
  <2>1. a + k \in 1..d /\ (a + k) - 1 = a + (k - 1) /\ a + (k - 1) \in 0..d - 1
        /\ (a + (k - 1)) + 1 = a + k
    BY <1>1
  <2>2. seqs[k] = SubSeq(f, (a + (k - 1)) * C + 1, Upto(f, a + k))
    <3>1. seqs[k] = ChunksOf(f)[a + k]
      OBVIOUS
    <3> HIDE DEF seqs
    <3> QED
      BY <1>2, <2>1, <3>1
  <2> HIDE DEF seqs
  <2>3. CASE k = 1
    <3>1. a + (k - 1) = a
      BY <2>3
    <3> QED
      BY <1>5, <2>2, <2>3, <3>1
  <2>4. CASE k > 1
    <3>1. k - 1 \in S /\ k - 1 \in 1..N
      BY <2>4
    <3>2. got[k - 1] = SubSeq(f, a * C + 1, (a + (k - 1)) * C)
      <4>1. got[k - 1] = SubSeq(f, a * C + 1, Upto(f, a + (k - 1)))
        BY <3>1 DEF S
      <4>2. Upto(f, a + (k - 1)) = (a + (k - 1)) * C
        BY <1>3, <2>1
      <4> QED
        BY <4>1, <4>2
    <3>3. got[k] = got[k - 1] \o seqs[k]
      <4>1. k # 1 /\ k \in 1..N
        BY <2>4
      <4> QED
        BY <1>5, <4>1, Zenon
    <3> DEFINE x == a * C
               y == (a + (k - 1)) * C
               z == Upto(f, a + k)
    <3>4. x \in Nat /\ y \in Nat /\ y < n /\ z \in y + 1..n
      BY <1>3, <1>4, <2>1
    <3>5. x <= y
      BY <1>1, <2>4, Monotone
    <3> HIDE DEF x, y, z
    <3>6. x + 1 \in 1..Len(f) + 1 /\ y \in (x + 1) - 1..Len(f) /\ z \in y..Len(f)
      BY <1>1, <3>4, <3>5
    <3>7. SubSeq(f, x + 1, y) \o SubSeq(f, y + 1, z) = SubSeq(f, x + 1, z)
      BY <3>6, ConcatAdjacentSubSeq
    <3> QED
      BY <2>2, <3>2, <3>3, <3>7 DEF x, y, z
  <2> QED
    BY <2>3, <2>4
<1>7. FlattenSeq(seqs) = SubSeq(f, a * C + 1, Upto(f, a + N))
  <2>1. N \in S
    BY <1>6
  <2>2. got[N] = SubSeq(f, a * C + 1, Upto(f, a + N))
    BY <2>1
  <2> HIDE DEF seqs
  <2> QED
    BY <1>5, <2>2
<1>8. a * C \in Nat /\ Upto(f, a + N) \in a * C + 1..n
  <2>1. a * C <= (a + N - 1) * C
    BY <1>1, Monotone
  <2>2. a * C \in Nat /\ (a + N - 1) * C \in Nat
        /\ Upto(f, (a + N - 1) + 1) \in (a + N - 1) * C + 1..n
    BY <1>3, <1>4
  <2>3. (a + N - 1) + 1 = a + N
    OBVIOUS
  <2> QED
    BY <1>1, <2>1, <2>2, <2>3
<1> QED
  BY <1>7, <1>8

-----------------------------------------------------------------------------
(* The answer.  The bytes of the file that are in the range lie between the *)
(* offset and the end that range_chunks clamps; without an end there is     *)
(* none.                                                                    *)
LEMMA BytesInRange ==
    ASSUME Known, map # << >>
    PROVE  LET e == End(range.offset, range.length, Len(file)) IN
           /\ Wanted.outcome = "error" => Cardinality(Read!InRange) = 0
           /\ Wanted.outcome # "error" =>
                /\ e \in range.offset + 1..Len(file) /\ range.offset \in Nat
                /\ Wanted.first = range.offset \div ChunkSize
                /\ Wanted.last = (e - 1) \div ChunkSize
                /\ Cardinality(Read!InRange) = e - range.offset
<1> DEFINE offset == range.offset
           length == range.length
           n      == Len(file)
           e      == End(offset, length, n)
<1>1. offset \in Nat /\ length \in Nat /\ n \in Nat
  <2>1. offset \in U64 /\ length \in U64
    BY DEF Known
  <2> QED
    BY <2>1, SizeIsLength, U64IsNat
<1>2. Wanted = RangeChunks(offset, length, n)
  BY SizeIsLength DEF Wanted, Known
<1>3. Read!InRange = {k \in 1..n : k > offset /\ k <= offset + length}
  BY DEF Read!InRange
<1> HIDE DEF offset, length, n
<1>4. CASE length = 0 \/ offset >= n
  <2>1. Read!InRange = {}
    BY <1>1, <1>3, <1>4
  <2>2. Wanted.outcome = "error"
    BY <1>2, <1>4 DEF RangeChunks, Refused
  <2> QED
    BY <2>1, <2>2, FS_EmptySet
<1>5. CASE length # 0 /\ offset < n
  <2>1. /\ Wanted.outcome = "ok" /\ Wanted.first = offset \div ChunkSize
        /\ Wanted.last = (e - 1) \div ChunkSize
    BY <1>1, <1>2, <1>5 DEF RangeChunks
  <2>2. e \in offset + 1..n
    BY <1>1, <1>5, EndIsClamped
  <2>3. Read!InRange = offset + 1..e
    BY <1>1, <1>3, <1>5 DEF End
  <2> HIDE DEF e
  <2>4. Cardinality(offset + 1..e) = e - offset
    BY <1>1, <2>2, FS_Interval
  <2> QED
    BY <1>1, <2>1, <2>2, <2>3, <2>4 DEF offset, length, n, e
<1> QED
  BY <1>1, <1>4, <1>5

(* FileRead counts with its own copy of the standard operator. *)
LEMMA SameCardinality == ASSUME NEW S PROVE Read!Cardinality(S) = Cardinality(S)
  BY DEF Read!Cardinality, Cardinality

(* A piece cut from a piece is cut from the whole. *)
LEMMA CutOfCut ==
    ASSUME NEW V, NEW s \in Seq(V), NEW x \in Nat, NEW u \in Nat, NEW o \in Nat,
           NEW e \in Nat, x <= o, o < e, e <= u, u <= Len(s)
    PROVE  SubSeq(SubSeq(s, x + 1, u), o - x + 1, e - x) = SubSeq(s, o + 1, e)
<1> DEFINE i == x + 1
           p == o - x + 1
           q == e - x
<1>1. i \in 1..Len(s) /\ u \in 1..Len(s)
  OBVIOUS
<1>2. p \in 1..u - i + 1 /\ q \in 1..u - i + 1 /\ i + p - 1 = o + 1 /\ i + q - 1 = e
  OBVIOUS
<1> HIDE DEF i, p, q
<1>3. SubSeq(SubSeq(s, i, u), p, q) = SubSeq(s, i + p - 1, i + q - 1)
  BY <1>1, <1>2, SubSeqOfSubSeq
<1> QED
  BY <1>2, <1>3 DEF i, p, q

LEMMA RefuseAnswers == ASSUME Verified, Refuse PROVE Read!Answer
<1>1. Cardinality(Read!InRange) = 0
  BY BytesInRange DEF Verified, Refuse
<1>2. [k \in 1..0 |-> file[range.offset + k]] = << >>
  OBVIOUS
<1> QED
  BY <1>1, <1>2, SameCardinality DEF Refuse, Read!Answer

LEMMA AssembleAnswers == ASSUME Verified, Assemble PROVE Read!Answer
<1> DEFINE C      == ChunkSize
           n      == Len(file)
           offset == range.offset
           e      == End(offset, range.length, n)
           a      == Wanted.first
           b      == Wanted.last
           N      == Cardinality(Needed)
           d      == MapFor(n).chunks
<1>1. /\ map # << >> /\ result = << >> /\ Needed # {} /\ Needed \subseteq DOMAIN chunks
      /\ UNCHANGED <<file, range>>
  BY DEF Assemble
<1>2. /\ Known /\ Behind
      /\ \A i \in Needed : chunks[i] = ChunksOf(file)[i + 1]
  BY <1>1 DEF Verified
<1>3. /\ file \in Seq(Byte) /\ file # << >> /\ map[1].layout = MapFor(n)
      /\ map[1].layout.size = n
  BY <1>1, <1>2, FileBehind, SizeIsLength DEF Known
<1>4. Wanted.outcome = "ok" /\ Needed = a..b
  BY <1>1 DEF Needed
<1>5. /\ e \in offset + 1..n /\ offset \in Nat /\ n \in Nat /\ C \in Nat \ {0}
      /\ a = offset \div C /\ b = (e - 1) \div C
      /\ Cardinality(Read!InRange) = e - offset
  BY <1>1, <1>2, <1>3, <1>4, BytesInRange, ChunkSizeAssumption
<1>6. result' = <<SubSeq(FlattenSeq([k \in 1..N |-> chunks[a + k - 1]]),
                         offset - a * C + 1, e - a * C)>>
  BY <1>3 DEF Assemble
<1> HIDE DEF e, d, n
<1>7. a \in Nat /\ a * C <= offset /\ b \in Nat /\ b * C <= e - 1 /\ e - 1 < b * C + C
  <2>1. e - 1 \in Nat
    BY <1>5
  <2> QED
    BY <1>5, <2>1, Quotient
<1> HIDE DEF a, b, offset
<1>8. a <= b /\ N = b - a + 1 /\ b < d
  <2>1. a <= b
    BY <1>1, <1>4, <1>7
  <2>2. N = b - a + 1
    BY <1>4, <1>7, <2>1, FS_Interval
  <2>3. Needed \subseteq 0..d - 1
    BY <1>1, <1>2, <1>3, NeededAreChunks DEF Known, d
  <2>4. d \in Nat
    BY <1>3, ChunksCut, MapCounts DEF d, n
  <2> QED
    BY <1>4, <1>7, <2>1, <2>2, <2>3, <2>4
<1> HIDE DEF N
<1>9. [k \in 1..N |-> chunks[a + k - 1]] = [k \in 1..N |-> ChunksOf(file)[a + k]]
  <2>1. ASSUME NEW k \in 1..N PROVE chunks[a + k - 1] = ChunksOf(file)[a + k]
    <3>1. a + k - 1 \in Needed /\ (a + k - 1) + 1 = a + k
      BY <1>4, <1>7, <1>8
    <3> QED
      BY <1>2, <3>1
  <2> QED
    BY <2>1
<1> DEFINE x == a * C
           u == Upto(file, a + N)
           got == FlattenSeq([k \in 1..N |-> ChunksOf(file)[a + k]])
<1>10. /\ x \in Nat /\ u \in x + 1..n
       /\ got = SubSeq(file, x + 1, u)
  <2>1. N \in Nat \ {0} /\ a + N <= MapFor(Len(file)).chunks
    <3>1. d \in Nat
      BY <1>3, ChunksCut, MapCounts DEF d, n
    <3> QED
      BY <1>7, <1>8, <3>1 DEF d, n
  <2> QED
    BY <1>3, <1>7, <2>1, ChunksTogether DEF n
<1>11. e <= u
  <2>1. a + N = b + 1 /\ (b + 1) * C = b * C + C /\ b * C \in Nat
    BY <1>5, <1>7, <1>8
  <2> QED
    BY <1>5, <1>7, <2>1 DEF Upto, n
<1> HIDE DEF u, got
<1>12. SubSeq(got, offset - x + 1, e - x) = SubSeq(file, offset + 1, e)
  <2>1. x <= offset
    BY <1>7
  <2> HIDE DEF x
  <2>2. /\ x \in Nat /\ u \in Nat /\ e \in Nat /\ offset \in Nat
        /\ x <= offset /\ offset < e /\ e <= u /\ u <= Len(file)
    BY <1>3, <1>5, <1>10, <1>11, <2>1 DEF n
  <2> QED
    BY <1>3, <1>10, <2>2, CutOfCut
<1>13. SubSeq(file, offset + 1, e) = [k \in 1..e - offset |-> file[offset + k]]
  BY <1>3, <1>5 DEF n
<1>14. result' = <<[k \in 1..Cardinality(Read!InRange) |-> file[offset + k]]>>
  BY <1>5, <1>6, <1>9, <1>10, <1>12, <1>13 DEF got
<1> QED
  BY <1>1, <1>14, SameCardinality DEF Read!Answer, offset

LEMMA StepAnswers == Verified /\ [Next]_vars => [Read!Answer]_<<file, range, result>>
<1> SUFFICES ASSUME Verified, [Next]_vars PROVE [Read!Answer]_<<file, range, result>>
  OBVIOUS
<1>1. CASE Refuse
  BY <1>1, RefuseAnswers
<1>2. CASE Assemble
  BY <1>2, AssembleAnswers
<1>3. CASE ~Refuse /\ ~Assemble
  <2>1. UNCHANGED <<file, range, result>>
    BY <1>3 DEF Next, ReceiveMap, ReceivePage, ReceiveChunk, vars
  <2> QED
    BY <2>1
<1> QED
  BY <1>1, <1>2, <1>3

(* A read, whatever comes back on the way and in whatever order, gives at   *)
(* most one answer, and it is the bytes of the file in the range; a refusal *)
(* only for a range without any.                                            *)
THEOREM ReadsTheRange == Spec => ImplementsFileRead
<1>1. Init => Read!Init
  BY DEF Init, Read!Init
<1> QED
  BY <1>1, AlwaysVerified, StepAnswers, PTL DEF Spec, ImplementsFileRead, Read!Spec
=============================================================================
