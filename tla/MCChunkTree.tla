---------------------------- MODULE MCChunkTree -----------------------------
(* Instances of ChunkTree for TLC. *)
EXTENDS ChunkTree

MCPages == {"p0", "p1", "p2", "p3", "p4", "foreign"}

Names == <<"p0", "p1", "p2", "p3", "p4">>

(* Trees of one to five different pages, and of pages that repeat. *)
MCTrees == {SubSeq(Names, 1, n) : n \in 1..5}
           \cup {<<"p0", "p0">>, <<"p0", "p1", "p0">>}
=============================================================================
