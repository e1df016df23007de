------------------------------ MODULE TreeFrame -----------------------------
(***************************************************************************)
(* MST/2 frames, src/src/treeframe.rs: what the payload encoders put into  *)
(* a frame and what parse_frame checks before it lets the frame through.   *)
(*                                                                         *)
(* A payload is the sequence of its items: the pages of a META payload, the*)
(* objects of an OBJECT payload, the one chunk of a CHUNK payload, the one *)
(* body of END and ERROR.  An item is the identity it is filed under, the  *)
(* digest of its bytes and their number.  Bytes beyond that are abstracted:*)
(* SHA-256 of a payload is the payload, and what the network does to a     *)
(* frame is recorded in "damage".  The zstd stream (zstd1.rs) is a black   *)
(* box that gives back what was compressed.                                *)
(***************************************************************************)
EXTENDS Integers, Sequences, FiniteSets

DataKinds     == {"META", "OBJECT", "CHUNK"}
TerminalKinds == {"END", "ERROR"}
FrameKinds    == DataKinds \cup TerminalKinds

MetaMaxPages   == 64
ObjectMaxCount == 128
PageMaxBytes   == 16384
ObjectMaxLen   == 262144
ChunkMaxLen    == 1048576

RawLimit(kind) ==
    CASE kind = "META"   -> 1048576
      [] kind = "OBJECT" -> 1048576
      [] kind = "CHUNK"  -> 76 + ChunkMaxLen
      [] kind = "END"    -> 48
      [] kind = "ERROR"  -> 4096

Damages == {"none",      \* as it was sent
            "header",    \* a header constant, flag, kind or length is off
            "payload",   \* the payload's bytes are not those sent
            "cut"}       \* the body ends inside the frame

-----------------------------------------------------------------------------
(* The raw payload's size: fixed part, and fixed part per item. *)
Overhead(kind) == CASE kind \in {"META", "OBJECT"} -> 4
                    [] kind = "CHUNK" -> 76
                    [] kind \in TerminalKinds -> 0
PerItem(kind)  == CASE kind = "META" -> 36
                    [] kind = "OBJECT" -> 40
                    [] kind \in {"CHUNK"} \cup TerminalKinds -> 0

RawLen(p) ==
    LET n == Len(p.items)
        sum[r \in (0..n) \X (0..n)] ==   \* of items r[1] + 1 to r[2], by halves
            LET m == (r[1] + r[2]) \div 2 IN   \* so that TLC does not nest too deep
            IF r[1] >= r[2] THEN 0
            ELSE IF r[2] = r[1] + 1 THEN PerItem(p.kind) + p.items[r[2]].len
            ELSE sum[<<r[1], m>>] + sum[<<m, r[2]>>]
    IN  Overhead(p.kind) + sum[<<0, n>>]

Items(p)      == {p.items[n] : n \in 1..Len(p.items)}
IsFiled(item) == item.id = item.digest
Distinct(p)   == Cardinality({item.id : item \in Items(p)}) = Len(p.items)

CountOk(p) ==
    CASE p.kind = "META"   -> Len(p.items) \in 1..MetaMaxPages
      [] p.kind = "OBJECT" -> Len(p.items) \in 1..ObjectMaxCount
      [] p.kind \in {"CHUNK"} \cup TerminalKinds -> Len(p.items) = 1

(* The checks of the encode functions, which encode_zstd runs as well. *)
ObjectFits(item) == item.len <= ObjectMaxLen

EncodeOk(p) ==
    /\ CountOk(p)
    /\ p.kind \in {"META", "OBJECT"} => \A item \in Items(p) : IsFiled(item)
    /\ p.kind = "OBJECT" => \A item \in Items(p) : ObjectFits(item)
    /\ p.kind = "CHUNK" => p.items[1].len <= ChunkMaxLen
    /\ p.kind \in {"META", "OBJECT", "ERROR"} => RawLen(p) <= RawLimit(p.kind)

(* The frame encode (or encode_zstd) makes of a payload.  The length of a   *)
(* compressed payload is only compared with DATA_MAX_WIRE, which the        *)
(* compressor's worst case stays below, so it is left out.                  *)
SwappedFrame(p, zstd, stream, seq) ==     \* mutant of Frame: offsets 20 and 24
    [kind |-> p.kind, zstd |-> zstd, rawLen |-> RawLen(p), stream |-> seq,
     seq |-> stream, digest |-> p, payload |-> p, damage |-> "none"]

Frame(p, zstd, stream, seq) ==
    [kind |-> p.kind, zstd |-> zstd, rawLen |-> RawLen(p), stream |-> stream,
     seq |-> seq, digest |-> p, payload |-> p, damage |-> "none"]

-----------------------------------------------------------------------------
(* decode_meta, decode_object, decode_chunk, decode_end, decode_error.  The *)
(* offsets of an OBJECT table are those its encoder wrote, so that exact    *)
(* concatenation holds of every payload that passed the digest check.       *)
PageFitsStrictly(item) == item.len < PageMaxBytes   \* mutant of PageFits
PageFits(item) == item.len <= PageMaxBytes

DecodeOk(p) ==
    /\ CountOk(p)
    /\ p.kind \in {"META", "OBJECT"} =>
           Distinct(p) /\ \A item \in Items(p) : IsFiled(item)
    /\ p.kind = "META" => \A item \in Items(p) : PageFits(item)
    /\ p.kind = "OBJECT" => \A item \in Items(p) : ObjectFits(item)
    /\ p.kind = "CHUNK" => p.items[1].len <= ChunkMaxLen
    /\ p.kind = "END" => RawLen(p) = 48

(* parse_frame returns the frame rather than an error, in a reader built    *)
(* with the "zstd" feature or without.                                      *)
ParseOk(f, readerZstd) ==
    /\ f.damage \notin {"cut", "header"}
    /\ f.stream # 0
    /\ f.zstd => f.kind \in DataKinds /\ readerZstd
    /\ f.rawLen <= RawLimit(f.kind)
    /\ f.damage # "payload" /\ f.digest = f.payload
    /\ DecodeOk(f.payload)
=============================================================================
