------------------------------ MODULE RadixMaps -----------------------------
(***************************************************************************)
(* What a trie means, defined over the nodes of RadixNode and apart from   *)
(* how RadixIndex edits them.                                              *)
(***************************************************************************)
EXTENDS RadixNode

IsPrefixOf(a, b) == Len(a) <= Len(b) /\ a = Before(b, Len(a))

-----------------------------------------------------------------------------
(* A place is a node of a trie with the bytes that lead to it. *)
FullKey(place) == place[1] \o NodeOf(place[2]).label

Below(place) ==
    {<<FullKey(place), NodeOf(place[2]).children[e]>> :
        e \in Edges(NodeOf(place[2]))}

(* No key is longer than PathMaxBytes and every edge but those of the root  *)
(* follows a byte, so that no trie of keys has more levels than these.      *)
Depth == PathMaxBytes + 1

Places(root) ==
    LET at[d \in 0..Depth] ==
            IF d = 0 THEN {<< << >>, root >>}
            ELSE UNION {Below(place) : place \in at[d - 1]}
    IN  UNION {at[d] : d \in 0..Depth}

Rows(root) == {place[2] : place \in Places(root)}

(* The map a root stands for, from paths to bindings. *)
BoundPlaces(root) ==
    {place \in Places(root) : NodeOf(place[2]).binding # None}

PathOf(place) == KeyPath(FullKey(place))

MapOf(root) ==
    [path \in {PathOf(place) : place \in BoundPlaces(root)} |->
        NodeOf((CHOOSE place \in BoundPlaces(root) : PathOf(place) = path)[2]).binding]

-----------------------------------------------------------------------------
(* A node whose children hang from the first bytes of their labels. *)
WellLinked(node) ==
    \A e \in Edges(node) : /\ NodeOf(node.children[e]).label # << >>
                           /\ NodeOf(node.children[e]).label[1] = e

(* A trie each of whose nodes makes sense where it is. *)
Sound(root) ==
    \A place \in Places(root) : PositionOk(place[1], NodeOf(place[2]))
=============================================================================
