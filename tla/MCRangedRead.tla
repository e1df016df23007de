---------------------------- MODULE MCRangedRead ----------------------------
(* Instances of RangedRead for TLC. *)
EXTENDS RangedRead

(* Files of one to eleven bytes, all different, and files that repeat. *)
MCFiles == {[k \in 1..n |-> k] : n \in 1..11}
           \cup {<<1, 1, 1, 1, 1, 1, 1>>, <<1, 2, 1, 2, 3, 4, 1, 2, 1>>}

(* Files of every other length, of which there is a map only. *)
MCClaims == {[k \in 1..n |-> 0] : n \in 1..2^Width - 1}

(* Every offset and length; many of them run past what a u64 holds. *)
MCRanges == [offset : U64, length : U64]

MCAltered == <<0, 0>>
=============================================================================
