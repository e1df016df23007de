------------------------------ MODULE FileRead ------------------------------
(***************************************************************************)
(* What a ranged read promises: at most one answer, and it is the bytes of *)
(* the file that are in the range, or a refusal when there are none.       *)
(***************************************************************************)
EXTENDS Integers, Sequences, FiniteSets

VARIABLES file,     \* its bytes
          range,    \* [offset, length]; the offset counts from 0
          result    \* << >>, or <<bytes>>; no bytes for a refusal

InRange == {k \in 1..Len(file) : /\ k > range.offset
                                 /\ k <= range.offset + range.length}

Init == result = << >>

Answer ==
    /\ result = << >>
    /\ result' = <<[k \in 1..Cardinality(InRange) |-> file[range.offset + k]]>>
    /\ UNCHANGED <<file, range>>

Spec == Init /\ [][Answer]_<<file, range, result>>
=============================================================================
