-------------------------- MODULE DirectoryListing --------------------------
(***************************************************************************)
(* What fetching a directory page by page promises: the client learns      *)
(* entries of the directory, never another one and never less than before, *)
(* and when it has nothing left to ask for it knows them all.              *)
(***************************************************************************)
VARIABLES entries,   \* the directory that was published
          listed,    \* the entries the client has learnt
          done       \* it has no page left to fetch

Init == listed = {} /\ done = FALSE

Learn ==
    \E more \in SUBSET (entries \ listed) :
        /\ listed' = listed \cup more
        /\ done' \in {done, listed' = entries}
        /\ UNCHANGED entries

Spec == Init /\ [][Learn]_<<entries, listed, done>>
=============================================================================
