----------------------------- MODULE ObjectTable ----------------------------
(***************************************************************************)
(* The payload of an OBJECT frame, src/src/treeframe.rs: a count, a table  *)
(* of identities, lengths and offsets, and the data area behind it, as     *)
(* ObjectPayload::encode writes it and decode_object reads it.             *)
(*                                                                         *)
(* The payload is a sequence of cells: a digest, a number, or a piece of   *)
(* an object; lengths and offsets count cells.  The frame around it        *)
(* vouches that it is what the peer sent, not that the peer's table is     *)
(* right: a peer may write any cells, and an object may hold cells that    *)
(* read like a table.                                                      *)
(***************************************************************************)
EXTENDS Integers, SequencesExt

CONSTANTS Sha,           \* SHA-256 of the contents there are, as cells
          ObjectCountMax,  \* OBJECT_MAX_COUNT, 128 in the code
          ObjectMaxLen,    \* OBJECT_MAX_LEN, 256 KiB in the code
          ObjectMaxRaw,    \* OBJECT_MAX_RAW, 1 MiB in the code, in cells here
          Width            \* bits of a u32 (bound)

ASSUME ShaAssumption == IsInjective(Sha) /\ Width \in Nat

IsU32(cell) == cell \in 0..2^Width - 1

-----------------------------------------------------------------------------
(* ObjectPayload::encode.  It does not look for repeated objects. *)
OffsetOf(objs, n) ==
    LET upto[k \in 0..Len(objs)] ==
            IF k = 0 THEN 0 ELSE upto[k - 1] + Len(objs[k])
    IN  upto[n - 1]

EncodeObjects(objs) ==
    <<Len(objs)>>
        \o FlattenSeq([n \in DOMAIN objs |->
               <<Sha[objs[n]], Len(objs[n]), OffsetOf(objs, n)>>])
        \o FlattenSeq(objs)

ObjectsOk(objs) ==
    /\ Len(objs) \in 1..ObjectCountMax
    /\ \A n \in DOMAIN objs : Len(objs[n]) <= ObjectMaxLen
    /\ IsU32(OffsetOf(objs, Len(objs) + 1))      \* checked_add
    /\ Len(EncodeObjects(objs)) <= ObjectMaxRaw + 1

-----------------------------------------------------------------------------
(* decode_object: entry n of the table, the data area and object n in it.   *)
Id(c, n)      == c[3 * n - 1]
LenOf(c, n)   == c[3 * n]
Off(c, n)     == c[3 * n + 1]
Data(c)       == SubSeq(c, 3 * c[1] + 2, Len(c))
ObjectAt(c, n) == SubSeq(Data(c), Off(c, n) + 1, Off(c, n) + LenOf(c, n))

ExpectOff(c, n) ==        \* expect_off when entry n is read
    LET upto[k \in 0..n - 1] == IF k = 0 THEN 0 ELSE upto[k - 1] + LenOf(c, k)
    IN  upto[n - 1]

LenBelow(len) == len < ObjectMaxLen       \* mutant of LenOk
LenOk(len)    == len <= ObjectMaxLen

Inside(c, n)   == Off(c, n) + LenOf(c, n) <= Len(Data(c))    \* mutant of OffsetOk
OffsetOk(c, n) == Off(c, n) = ExpectOff(c, n)

EntryOk(c, n) ==
    /\ IsU32(LenOf(c, n)) /\ IsU32(Off(c, n))
    /\ LenOk(LenOf(c, n)) /\ OffsetOk(c, n)
    /\ IsU32(ExpectOff(c, n) + LenOf(c, n))      \* checked_add
    /\ \A k \in 1..n - 1 : Id(c, k) # Id(c, n)
    /\ Off(c, n) + LenOf(c, n) <= Len(Data(c))
    /\ ObjectAt(c, n) \in DOMAIN Sha /\ Sha[ObjectAt(c, n)] = Id(c, n)

NoMissing(c) == Len(Data(c)) >= ExpectOff(c, c[1] + 1)      \* mutant of NoneLeft
NoneLeft(c)  == Len(Data(c)) = ExpectOff(c, c[1] + 1)

DecodeObjects(c) ==
    IF /\ c # << >> /\ Len(c) <= ObjectMaxRaw + 1
       /\ c[1] \in 1..ObjectCountMax /\ 3 * c[1] + 1 <= Len(c)
       /\ \A n \in 1..c[1] : EntryOk(c, n)
       /\ NoneLeft(c)
    THEN <<[n \in 1..c[1] |-> ObjectAt(c, n)]>> ELSE << >>
=============================================================================
