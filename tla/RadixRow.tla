------------------------------ MODULE RadixRow ------------------------------
(***************************************************************************)
(* The row of a radix node: RadixNode::new, encode and decode of           *)
(* src/src/namespace/radix.rs.  RadixNode takes it for granted that an     *)
(* encoding is read back as its node and that nothing else is read as a    *)
(* node; here that is checked.                                             *)
(*                                                                         *)
(* A row is a sequence of cells: the domain, a length or count, a byte of  *)
(* the label, the presence of a binding, an edge, a digest.  A caller puts *)
(* a node together with its children in a list of <<edge, digest>>.        *)
(***************************************************************************)
EXTENDS RadixNode, SequencesExt

CONSTANT ChildMaxCount    \* CHILD_MAX_COUNT, 256 in the code

NodeDomain == 1006

Made(label, binding, list) == [label |-> label, binding |-> binding, list |-> list]

-----------------------------------------------------------------------------
EdgesDiffer(list) ==      \* mutant of EdgesAscend: neighbours in any order
    \A k \in 2..Len(list) : list[k - 1][1] # list[k][1]
EdgesAscend(list) == \A k \in 2..Len(list) : list[k - 1][1] < list[k][1]

AsNode(m) ==
    Node(m.label, m.binding,
         [e \in {m.list[k][1] : k \in DOMAIN m.list} |->
             m.list[CHOOSE k \in DOMAIN m.list : m.list[k][1] = e][2]])

(* RadixNode::new. *)
Accepts(m) == /\ Len(m.list) <= ChildMaxCount
              /\ EdgesAscend(m.list) /\ Canonical(AsNode(m))

(* RadixNode::encode. *)
RowOf(m) ==
    <<NodeDomain, Len(m.label)>> \o m.label
        \o (IF m.binding = None THEN <<0>> ELSE <<1, m.binding>>)
        \o <<Len(m.list)>> \o FlattenSeq(m.list)

(* RadixNode::decode, field by field: the label behind its length, the      *)
(* binding behind its presence, the children behind their count.            *)
LabelEnd(c) == 2 + c[2]
Present(c)  == c[LabelEnd(c) + 1]
CountAt(c)  == LabelEnd(c) + 2 + Present(c)

Children(c) == [k \in 1..c[CountAt(c)] |->
                   <<c[CountAt(c) + 2 * k - 1], c[CountAt(c) + 2 * k]>>]

FewBelow(count) == count < ChildMaxCount      \* mutant of FewEnough
FewEnough(count) == count <= ChildMaxCount

Readable(c) ==
    /\ Len(c) >= 2 /\ c[1] = NodeDomain
    /\ c[2] <= PathMaxBytes /\ LabelEnd(c) + 1 <= Len(c)
    /\ Present(c) \in {0, 1} /\ CountAt(c) <= Len(c)
    /\ FewEnough(c[CountAt(c)])
    /\ Len(c) = CountAt(c) + 2 * c[CountAt(c)]      \* nothing behind

Decoded(c) ==
    Made(SubSeq(c, 3, LabelEnd(c)),
         IF Present(c) = 1 THEN c[LabelEnd(c) + 2] ELSE None, Children(c))

(* A digest where a byte is read, or the other way round, is not looked at. *)
WellKinded(m) ==
    /\ m.label \in Seq(Byte) /\ m.binding \in Binding \cup {None}
    /\ \A k \in DOMAIN m.list : m.list[k][1] \in Byte /\ m.list[k][2] \in Binding

DecodeRow(c) ==
    IF Readable(c) /\ WellKinded(Decoded(c)) /\ Accepts(Decoded(c))
    THEN <<Decoded(c)>> ELSE << >>

=============================================================================
