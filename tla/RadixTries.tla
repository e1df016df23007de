----------------------------- MODULE RadixTries -----------------------------
(***************************************************************************)
(* Which trie a map must have, built from the map alone.  The definition   *)
(* is recursive over maps, so what rests on it is model-checked.           *)
(***************************************************************************)
EXTENDS RadixIndexProps

(* The trie of a map from keys to bindings: the label is what all the keys  *)
(* share, the children are the tries of the rest, by next byte.             *)
SharedPrefix(keys) ==
    LET some == CHOOSE k \in keys : TRUE
        lens == {n \in 0..Len(some) : \A k \in keys : IsPrefixOf(Before(some, n), k)}
    IN  Before(some, CHOOSE n \in lens : \A m \in lens : m <= n)

RECURSIVE TrieNode(_)
TrieNode(m) ==
    IF DOMAIN m = {} THEN EmptyNode
    ELSE LET label == SharedPrefix(DOMAIN m)
             rest  == {From(k, Len(label)) : k \in DOMAIN m} \ {<< >>}
             below(e) == [r \in {r \in rest : r[1] = e} |-> m[label \o r]]
         IN  Node(label, IF label \in DOMAIN m THEN m[label] ELSE None,
                  [e \in {r[1] : r \in rest} |-> Digest(TrieNode(below(e)))])

CanonicalRoot(m) == Digest(TrieNode(m))

(* All maps from some of the paths, and the store that holds such a trie. *)
KeyMaps(paths) ==
    UNION {[{EncodeKey(p) : p \in ps} -> Binding] : ps \in SUBSET paths}

StoreOf(m) ==
    LET root == CanonicalRoot(m)
    IN  [stored |-> Rows(root) \ {EmptyRoot}, missing |-> {}, corrupt |-> {},
         roots |-> {root}]

(* A root's identity depends on the map alone, not on the inserts, splits,  *)
(* deletions and collapses that led to it: every root an update hands out,  *)
(* like every root the caller holds, is the one trie of its map (tests:     *)
(* insertion_order_and_delete_reinsert_have_identical_canonical_roots).     *)
RootIsContent ==
    \A root \in HandedOut :
        LET m == MapOf(root)
        IN  root = CanonicalRoot([k \in {EncodeKey(p) : p \in DOMAIN m}
                                     |-> m[KeyPath(k)]])
=============================================================================
