----------------------------- MODULE RangedRead -----------------------------
(***************************************************************************)
(* A ranged read of a chunked file: range_chunks, the chunk map, its leaf  *)
(* pages with their proofs and the chunks, put together.                   *)
(*                                                                         *)
(* A publisher cuts a file into chunks and pages and hands out the map's   *)
(* identity; another one commits to a map whose counts may be off, with no *)
(* pages behind it.  The client reads the map, then the pages and chunks   *)
(* its range needs, in any order; whatever comes back is checked with the  *)
(* functions of src/src/chunkmap.rs or dropped.  The loop of the client    *)
(* is outside this repository; it does what those functions are there for: *)
(* it compares the index and the count of a page with the ones it asked    *)
(* for, verifies the leaf, and compares a chunk's map, index, length and   *)
(* digest.  A digest is what was hashed.                                   *)
(***************************************************************************)
EXTENDS ChunkLayout, MerkleTree, SequencesExt

CONSTANTS Files,       \* the files published: non-empty sequences of bytes
          Claims,      \* files of which a map with other counts is published
          Ranges,      \* the ranges asked for: [offset, length]
          Altered      \* a chunk of no file

Byte == 0..255

ASSUME FilesAssumption ==
    /\ Files \cup Claims \subseteq Seq(Byte)
    /\ \A f \in Files \cup Claims : Len(f) \in U64 \ {0}
ASSUME ClaimsAssumption == Files \cap Claims = {}
ASSUME RangesAssumption == Ranges \subseteq [offset : U64, length : U64]

VARIABLES file, range,
          published,  \* the map whose identity the client knows
          map,      \* the chunk map the client verified, << >> or <<map>>
          pages,    \* the leaf pages it verified, by page index
          chunks,   \* the chunks it verified, by chunk index
          result    \* << >>, or <<bytes>>; no bytes for a refusal

vars == <<file, range, published, map, pages, chunks, result>>

-----------------------------------------------------------------------------
(* The publisher's side: chunks, leaf pages, proofs and the map of a file.  *)
Groups(s, size) ==     \* consecutive pieces of a sequence, all but the last full
    [g \in 1..DivCeil(Len(s), size) |->
        SubSeq(s, (g - 1) * size + 1, IF g * size < Len(s) THEN g * size ELSE Len(s))]

ChunksOf(f) == Groups(f, ChunkSize)
LeavesOf(f) ==
    LET groups == Groups(ChunksOf(f), ChunksPerPage)
    IN  [g \in DOMAIN groups |-> ChunkLeaf(g - 1, groups[g])]

MapOf(f) == [layout |-> MapFor(Len(f)), content |-> f, root |-> Root(LeavesOf(f))]
MapId(m) == [map |-> m]

Payload(m, index, bytes) ==
    [map_id |-> MapId(m), content |-> m.content, index |-> index, bytes |-> bytes]

-----------------------------------------------------------------------------
(* What the client takes: the map, a leaf page for index p, a chunk i. *)
MapTaken(m) == MapId(m) = MapId(published) /\ Decodes(m.layout)

PageTaken(m, p, leaf, proof) ==
    /\ LeafOk(leaf)
    /\ leaf.page = p /\ Len(leaf.digests) = ExpectedCount(m.layout.chunks, p)
    /\ VerifyLeaf(m.layout.pages, p, LeafHash(leaf), proof, m.root)

ChunkTaken(m, leaf, i, payload) ==
    /\ payload.map_id = MapId(m) /\ payload.content = m.content
    /\ payload.index = i
    /\ Len(payload.bytes) = ChunkLen(m.layout, i)
    /\ payload.bytes = leaf.digests[(i % ChunksPerPage) + 1]

Wanted == RangeChunks(range.offset, range.length, map[1].layout.size)
Needed == IF Wanted.outcome = "ok" THEN Wanted.first..Wanted.last ELSE {}
PageIndex(i) == i \div ChunksPerPage

With(held, i, what) ==         \* what was verified, and one piece more
    [k \in DOMAIN held \cup {i} |-> IF k = i THEN what ELSE held[k]]

-----------------------------------------------------------------------------
(* What may come back: the right thing, another one of the same or another  *)
(* file, or one with something altered.                                     *)
SentMaps == {MapOf(f) : f \in Files} \cup {published}

Near(n) == {k \in U64 : k \in n - 1..n + 1}

Recounted(m, c, p) ==
    [m EXCEPT !.layout = [size |-> m.layout.size, chunks |-> c, pages |-> p]]

OtherMaps(f) ==        \* counts that are right or off by one
    {Recounted(MapOf(f), c, p) :
        c \in Near(MapOf(f).layout.chunks), p \in Near(MapOf(f).layout.pages)}

Behind == file \in Files         \* there are pages and chunks to be sent

SentLeaves(p) ==
    LET own == IF Behind THEN ToSet(LeavesOf(file)) ELSE {} IN
    own \cup {[leaf EXCEPT !.page = p] : leaf \in own}
        \cup {[leaf EXCEPT !.digests[1] = Altered] : leaf \in own}
        \cup {[leaf EXCEPT !.digests = Append(@, Altered)] : leaf \in own}

SentProofs == {LeafProof(LeavesOf(file), i) : i \in 0..Len(LeavesOf(file)) - 1}

SentPayloads(i) ==
    {Payload(MapOf(file), j, bytes) :
        j \in {i, 0}, bytes \in ToSet(ChunksOf(file)) \cup {Altered}}

-----------------------------------------------------------------------------
Init ==
    /\ range \in Ranges
    /\ \/ file \in Files /\ published = MapOf(file)
       \/ file \in Claims /\ published \in OtherMaps(file)
    /\ map = << >> /\ pages = << >> /\ chunks = << >> /\ result = << >>

ReceiveMap ==
    /\ map = << >>
    /\ \E m \in SentMaps : MapTaken(m) /\ map' = <<m>>
    /\ UNCHANGED <<file, range, published, pages, chunks, result>>

Refuse ==           \* a range without bytes: range_chunks returns an error
    /\ map # << >> /\ result = << >>
    /\ Wanted.outcome = "error"
    /\ result' = << << >> >>
    /\ UNCHANGED <<file, range, published, map, pages, chunks>>

ReceivePage ==
    /\ map # << >> /\ result = << >>
    /\ \E p \in {PageIndex(i) : i \in Needed} \ DOMAIN pages :
       \E leaf \in SentLeaves(p), proof \in SentProofs :
         /\ PageTaken(map[1], p, leaf, proof)
         /\ pages' = With(pages, p, leaf)
    /\ UNCHANGED <<file, range, published, map, chunks, result>>

ReceiveChunk ==
    /\ map # << >> /\ result = << >>
    /\ \E i \in Needed \ DOMAIN chunks :
         /\ PageIndex(i) \in DOMAIN pages
         /\ \E payload \in SentPayloads(i) :
              /\ ChunkTaken(map[1], pages[PageIndex(i)], i, payload)
              /\ chunks' = With(chunks, i, payload.bytes)
    /\ UNCHANGED <<file, range, published, map, pages, result>>

(* All is there: the chunks put together and cut to the range. *)
Assemble ==
    /\ map # << >> /\ result = << >>
    /\ Needed # {} /\ Needed \subseteq DOMAIN chunks
    /\ LET got   == FlattenSeq([k \in 1..Cardinality(Needed) |->
                                   chunks[Wanted.first + k - 1]])
           start == Wanted.first * ChunkSize
           end   == End(range.offset, range.length, map[1].layout.size)
       IN  result' = <<SubSeq(got, range.offset - start + 1, end - start)>>
    /\ UNCHANGED <<file, range, published, map, pages, chunks>>

Next == ReceiveMap \/ Refuse \/ ReceivePage \/ ReceiveChunk \/ Assemble

Spec == Init /\ [][Next]_vars

-----------------------------------------------------------------------------
(* A read gives the bytes of the range, whatever came back on the way, and  *)
(* refuses only ranges that have none.                                      *)
Read == INSTANCE FileRead
ImplementsFileRead == Read!Spec

(* What an honest server sends for the file is never dropped: the map, the  *)
(* pages with their proofs and the chunks that were cut on one side fit     *)
(* what the other side computes from the size of the file alone, at full    *)
(* and at partial last pages and chunks.                                    *)
HonestIsTaken ==
    Behind =>
      /\ MapTaken(MapOf(file))
      /\ map # << >> => \A i \in Needed :
           LET p    == PageIndex(i)
               leaf == LeavesOf(file)[p + 1]
           IN  /\ PageTaken(map[1], p, leaf, LeafProof(LeavesOf(file), p))
               /\ ChunkTaken(map[1], leaf, i, Payload(map[1], i, ChunksOf(file)[i + 1]))

(* Chunk i holds the bytes from Start(i) on; page p lists the chunks from   *)
(* p * ChunksPerPage on.                                                    *)
Start(index) == index * ChunkSize
Holds(m, index, byte) ==
    byte >= Start(index) /\ byte < Start(index) + ChunkLen(m, index)

(* A map that was taken, whoever published it, cuts its file into chunks    *)
(* without gap, overlap or empty chunk, and its chunks into pages the same  *)
(* way: expected_count of every page is the number of chunks left for it.   *)
MapPartitions ==
    map # << >> =>
        LET m == map[1].layout IN
        /\ \A byte \in 0..m.size - 1 :
             \E i \in 0..m.chunks - 1 :
                /\ Holds(m, i, byte)
                /\ \A j \in 0..m.chunks - 1 : Holds(m, j, byte) => j = i
        /\ \A i \in 0..m.chunks - 1 : ChunkLen(m, i) \in 1..ChunkSize
        /\ Start(m.chunks - 1) + ChunkLen(m, m.chunks - 1) = m.size
        /\ \A p \in 0..m.pages - 1 :
             LET left == m.chunks - p * ChunksPerPage
             IN  /\ left > 0
                 /\ ExpectedCount(m.chunks, p) =
                        IF left < ChunksPerPage THEN left ELSE ChunksPerPage
        /\ m.pages * ChunksPerPage >= m.chunks

(* range_chunks names the chunks that hold a byte of the range inside the   *)
(* file, and no other; it refuses exactly the ranges without such a byte,   *)
(* whatever the length adds up to.                                          *)
RangeExact ==
    map # << >> =>
        Needed = {i \in 0..map[1].layout.chunks - 1 :
                    \E byte \in 0..map[1].layout.size - 1 :
                        /\ Holds(map[1].layout, i, byte) /\ byte >= range.offset
                        /\ byte < range.offset + range.length}
=============================================================================
