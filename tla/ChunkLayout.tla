----------------------------- MODULE ChunkLayout ----------------------------
(***************************************************************************)
(* The arithmetic of src/src/chunkmap.rs: how a file is cut into chunks    *)
(* and the chunks into leaf pages, which chunks a ranged read needs, and   *)
(* what of a map or a leaf page a decoder accepts.                         *)
(***************************************************************************)
EXTENDS Integers, Sequences

CONSTANTS ChunkSize,      \* CHUNK_SIZE
          ChunksPerPage,  \* CHUNKS_PER_PAGE
          Width           \* bits of a u64 (bound)

ASSUME ChunkSizeAssumption     == ChunkSize \in Nat \ {0}
ASSUME ChunksPerPageAssumption == ChunksPerPage \in Nat \ {0}
ASSUME WidthAssumption         == Width \in Nat

U64 == 0..2^Width - 1

Refused == [outcome |-> "error", first |-> 0, last |-> 0]

DivCeil(a, b)  == (a + b - 1) \div b          \* u64::div_ceil

MapFor(size) ==
    LET count == DivCeil(size, ChunkSize)
    IN  [size |-> size, chunks |-> count, pages |-> DivCeil(count, ChunksPerPage)]

(* ChunkMap::decode accepts these fields. *)
Decodes(m) ==
    /\ m.size # 0
    /\ m.chunks = DivCeil(m.size, ChunkSize) /\ m.chunks # 0
    /\ m.pages = DivCeil(m.chunks, ChunksPerPage)

(* chunk_len, for an index the map has. *)
ChunkLenByRemainder(m, index) ==              \* mutant of ChunkLen
    IF index < m.chunks - 1 THEN ChunkSize ELSE m.size % ChunkSize
ChunkLen(m, index) ==
    IF index < m.chunks - 1 THEN ChunkSize ELSE m.size - index * ChunkSize

(* ChunkLeaf::expected_count *)
ExpectedCount(count, page) ==
    IF page < count \div ChunksPerPage THEN ChunksPerPage
    ELSE IF count % ChunksPerPage = 0 THEN 1 ELSE count % ChunksPerPage

(* The end of a range, clamped to the file without computing a sum that     *)
(* u64 cannot hold.                                                         *)
WrappingEnd(offset, length, size) ==          \* mutant of End
    LET sum == (offset + length) % 2^Width IN IF sum > size THEN size ELSE sum
End(offset, length, size) ==
    IF length >= size - offset THEN size ELSE offset + length

RangeChunks(offset, length, size) ==
    IF length = 0 \/ offset >= size THEN Refused
    ELSE [outcome |-> "ok", first |-> offset \div ChunkSize,
          last |-> (End(offset, length, size) - 1) \div ChunkSize]

(* ChunkLeaf::encode and decode: a leaf page is its index and the digests   *)
(* of its chunks, and there is room for ChunksPerPage of them.              *)
ChunkLeaf(page, digests) == [page |-> page, digests |-> digests]

LeafBelowFull(leaf) ==                        \* mutant of LeafOk: 1..256 exclusive
    Len(leaf.digests) \in 1..ChunksPerPage - 1
LeafOk(leaf) == Len(leaf.digests) \in 1..ChunksPerPage
=============================================================================
