----------------------------- MODULE RadixNode ------------------------------
(***************************************************************************)
(* The nodes of the namespace radix index: RadixNode of                    *)
(* src/src/namespace/radix.rs, its local canonical shape, and its identity.*)
(*                                                                         *)
(* The identity of a node is the SHA-256 of its encoding.  Hashing is      *)
(* assumed collision free and encoding injective on nodes, so a digest is  *)
(* modelled as a wrapped copy of the node it identifies: two digests are   *)
(* equal exactly when the nodes are, and a node nests the identities of    *)
(* its children, never their rows.                                         *)
(*                                                                         *)
(* A node's children are a function from edge byte to digest, the strictly *)
(* ascending order of the encoded list being the order of its domain.      *)
(* Rows, and that no two are read as one node, are in RadixRow; that a row *)
(* stays below NODE_MAX_BYTES is proved in RecordProofs.                   *)
(***************************************************************************)
EXTENDS RadixKey, FiniteSets

CONSTANTS Binding,   \* binding digests a caller may attach to a path
          None       \* Rust's Option::None

ASSUME NoneAssumption == /\ None \notin Binding
                         /\ None \notin Byte

Digest(node) == [sha256 |-> node]
NodeOf(id)   == id.sha256

Node(label, binding, children) ==
    [label |-> label, binding |-> binding, children |-> children]

NoChildren == [e \in {} |-> None]
EmptyNode  == Node(<< >>, None, NoChildren)
EmptyRoot  == Digest(EmptyNode)

Edges(node) == DOMAIN node.children
Refs(node)  == {node.children[e] : e \in Edges(node)}

-----------------------------------------------------------------------------
(* A node with neither binding nor children holds nothing. *)
Blank(node) == node.binding = None /\ Edges(node) = {}

PassThroughBelowRoot(node) ==   \* mutant of PassThrough: the root may be one
    /\ node.binding = None /\ node.label # << >>
    /\ \E e \in Edges(node) : Edges(node) = {e}

PassThroughUnlabelled(node) ==  \* mutant of PassThrough: a label keeps a node
    /\ node.binding = None /\ node.label = << >>
    /\ \E e \in Edges(node) : Edges(node) = {e}

(* A node that only passes through to one child. *)
PassThrough(node) ==
    node.binding = None /\ \E e \in Edges(node) : Edges(node) = {e}

(* RadixNode::new accepts: no uncompressed chain, no empty leaf but "empty". *)
Canonical(node) ==
    /\ Len(node.label) <= PathMaxBytes
    /\ ~PassThrough(node)
    /\ Blank(node) => node.label = << >>

(* set_child: digest replaces, adds, or with None removes the edge's child. *)
SetChild(node, edge, id) ==
    [node EXCEPT !.children =
        IF id = None
        THEN [e \in Edges(node) \ {edge} |-> node.children[e]]
        ELSE [e \in Edges(node) \cup {edge} |->
                 IF e = edge THEN id ELSE node.children[e]]]

(* How many leading bytes two byte strings share: zip, take_while, count. *)
Common(a, b) ==
    Cardinality({n \in 1..Len(a) : n <= Len(b) /\ \A k \in 1..n : a[k] = b[k]})

From(s, n)   == SubSeq(s, n + 1, Len(s))     \* s[n..]
Before(s, n) == SubSeq(s, 1, n)              \* s[..n]

(* joined_key and validate_position: the assembled key fits, and is a value *)
(* key if the node carries a binding.                                       *)
Joinable(prefix, node) == Len(prefix) + Len(node.label) <= PathMaxBytes

PositionOkByLabel(prefix, node) ==  \* mutant of PositionOk: prefix forgotten
    Joinable(prefix, node) /\ (node.binding # None => DecodesToPath(node.label))

PositionOk(prefix, node) ==
    /\ Joinable(prefix, node)
    /\ node.binding # None => DecodesToPath(prefix \o node.label)

(* A row: the identity of a node of the shape RadixNode::decode can yield. *)
IsNode(n) ==
    /\ n = Node(n.label, n.binding, n.children)
    /\ n.label \in Seq(Byte)
    /\ n.binding \in Binding \cup {None}
    /\ n.children = [e \in Edges(n) |-> n.children[e]]
    /\ Edges(n) \subseteq Byte

IsRow(id) == id = Digest(NodeOf(id)) /\ IsNode(NodeOf(id))
=============================================================================
