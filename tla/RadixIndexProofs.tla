-------------------------- MODULE RadixIndexProofs --------------------------
(***************************************************************************)
(* TLAPS proofs about RadixIndex, whatever the names, paths, bindings, the *)
(* stores an index is opened over and the faults.                          *)
(*                                                                         *)
(* First the variables: types, no row in the store that refers to a row    *)
(* that is not there, and what an error of the store means (IInv).         *)
(*                                                                         *)
(* Then what the tries mean.  Under a place (the bytes that lead to a row, *)
(* and the row) keys are Bound; Bound has a recursive equation that needs  *)
(* no recursive definition, and the edits of update (bind, split, merge,   *)
(* set_child) are lemmas on it.  The second invariant, SInv, says what the *)
(* nodes a call holds stand for at each of its store calls.  From it: no-op*)
(* updates, rows written, blame for damage, one root per map, and that     *)
(* RadixIndex implements BindingIndex.                                     *)
(***************************************************************************)
EXTENDS RadixIndexProps, FiniteSetTheorems, SequenceTheorems, NaturalsInduction,
        TLAPS

-----------------------------------------------------------------------------
(* Byte strings, and what encode_key makes of them. *)

(* Common counts bytes of both strings, so it never exceeds either length. *)
LEMMA CommonBounds ==
    ASSUME NEW s \in Seq(Byte), NEW t \in Seq(Byte)
    PROVE  Common(s, t) \in 0..Len(t) /\ Common(s, t) <= Len(s)
<1> DEFINE A == {n \in 1..Len(s) : n <= Len(t) /\ \A k \in 1..n : s[k] = t[k]}
<1>1. Len(s) \in Nat /\ Len(t) \in Nat
  OBVIOUS
<1>2. \A n \in Nat : IsFiniteSet(1..n) /\ Cardinality(1..n) = n
  <2> TAKE n \in Nat
  <2>1. /\ IsFiniteSet(1..n)
        /\ Cardinality(1..n) = IF 1 > n THEN 0 ELSE n-1+1
    BY FS_Interval
  <2> QED
    BY <2>1
<1>3. A \in SUBSET (1..Len(s)) /\ A \in SUBSET (1..Len(t))
  BY <1>1
<1>4. IsFiniteSet(A) /\ Cardinality(A) <= Cardinality(1..Len(s))
  BY <1>1, <1>2, <1>3, FS_Subset
<1>5. Cardinality(A) <= Cardinality(1..Len(t))
  BY <1>1, <1>2, <1>3, FS_Subset
<1>6. Cardinality(A) \in Nat
  BY <1>4, FS_CardinalityType
<1>7. Common(s, t) = Cardinality(A)
  BY DEF Common
<1> HIDE DEF A
<1> QED
  BY <1>1, <1>2, <1>4, <1>5, <1>6, <1>7

(* What is left of a byte string from n on, and what is before n. *)
LEMMA Cuts ==
    ASSUME NEW s \in Seq(Byte), NEW n \in 0..Len(s)
    PROVE  /\ From(s, n) \in Seq(Byte) /\ Len(From(s, n)) = Len(s) - n
           /\ Before(s, n) \in Seq(Byte) /\ Len(Before(s, n)) = n
<1>1. \A i \in n+1..Len(s) : s[i] \in Byte
  BY ElementOfSeq
<1>2. \A i \in 1..n : s[i] \in Byte
  BY ElementOfSeq
<1>3. From(s, n) \in Seq(Byte) /\ Len(From(s, n)) = Len(s) - n
  BY <1>1, SubSeqProperties DEF From
<1>4. Before(s, n) \in Seq(Byte) /\ Len(Before(s, n)) = n
  BY <1>2, SubSeqProperties DEF Before
<1> QED
  BY <1>3, <1>4

(* A key is a byte string; so is the path built back from one. *)
LEMMA KeysAreBytes ==
    ASSUME NEW s \in Seq(Byte)
    PROVE  EncodeKey(s) \in Seq(Byte) /\ KeyPath(s) \in Seq(Byte)
<1>1. Nul \in Byte /\ Slash \in Byte
  BY DEF Nul, Slash, Byte
<1>2. \A k \in 1..Len(s) : k # Len(s) => s[k + 1] \in Byte
  BY ElementOfSeq
<1>3. \A k \in 1..Len(s) : k # 1 => s[k - 1] \in Byte
  BY ElementOfSeq
<1>4. [k \in 1..Len(s) |->
          IF k = Len(s) \/ s[k + 1] = Slash THEN Nul ELSE s[k + 1]] \in Seq(Byte)
  BY <1>1, <1>2
<1>5. [k \in 1..Len(s) |->
          IF k = 1 \/ s[k - 1] = Nul THEN Slash ELSE s[k - 1]] \in Seq(Byte)
  BY <1>1, <1>3
<1> QED
  BY <1>1, <1>4, <1>5 DEF EncodeKey, KeyPath

-----------------------------------------------------------------------------
(* Nodes. *)

(* The empty node is a node and refers to nothing. *)
LEMMA EmptyIsNode == IsNode(EmptyNode) /\ Refs(EmptyNode) = {}
                     /\ EmptyNode = NodeOf(EmptyRoot)
  BY DEF IsNode, Node, EmptyNode, Edges, Refs, NoChildren, EmptyRoot, NodeOf, Digest

(* Changing one field of a node leaves a node with the same references. *)
LEMMA NodeEdits ==
    ASSUME NEW n, IsNode(n)
    PROVE  /\ \A s \in Seq(Byte) :
                 /\ IsNode([n EXCEPT !.label = s])
                 /\ Refs([n EXCEPT !.label = s]) = Refs(n)
                 /\ [n EXCEPT !.label = s].label = s
           /\ \A b \in Binding \cup {None} :
                 /\ IsNode([n EXCEPT !.binding = b])
                 /\ Refs([n EXCEPT !.binding = b]) = Refs(n)
  BY DEF IsNode, Node, Edges, Refs

(* set_child yields a node whose references are old ones or the new one. *)
LEMMA SetChildIsNode ==
    ASSUME NEW n, IsNode(n), NEW edge \in Byte, NEW id
    PROVE  /\ IsNode(SetChild(n, edge, id))
           /\ \A r \in Refs(SetChild(n, edge, id)) : r \in Refs(n) \/ (r = id /\ id # None)
<1> DEFINE F == IF id = None
                THEN [e \in Edges(n) \ {edge} |-> n.children[e]]
                ELSE [e \in Edges(n) \cup {edge} |->
                         IF e = edge THEN id ELSE n.children[e]]
           m == SetChild(n, edge, id)
<1>1. m = Node(n.label, n.binding, F)
  <2>1. n = Node(n.label, n.binding, n.children)
    BY DEF IsNode
  <2>2. m = [n EXCEPT !.children = F]
    BY DEF SetChild
  <2> HIDE DEF F, m
  <2> QED
    BY <2>1, <2>2 DEF Node
<1>2. m.label = n.label /\ m.binding = n.binding /\ m.children = F
  BY <1>1 DEF Node
<1>3. Edges(n) \subseteq Byte
  BY DEF IsNode
<1>4. DOMAIN F \subseteq Byte /\ F = [e \in DOMAIN F |-> F[e]]
  BY <1>3
<1>5. \A e \in DOMAIN F : F[e] \in Refs(n) \/ (F[e] = id /\ id # None)
  BY DEF Refs
<1> HIDE DEF F, m
<1>6. IsNode(m)
  BY <1>1, <1>2, <1>4 DEF IsNode, Edges
<1>7. \A r \in Refs(m) : r \in Refs(n) \/ (r = id /\ id # None)
  BY <1>2, <1>5 DEF Refs, Edges
<1> QED
  BY <1>6, <1>7 DEF m

-----------------------------------------------------------------------------
(* The inductive invariant.                                                *)
(*                                                                         *)
(* NoDangling is not inductive by itself: insert writes the node a save is *)
(* working on, so that node, and the one waiting for the result, must      *)
(* already refer to rows only; and set_child files a saved node under its  *)
(* first byte, so a tail or a leaf must have one.                          *)
Saving == pc \in {"collapse", "insert"}

WorkClosed == Refs(job.node) \subseteq stored /\ Refs(parent.node) \subseteq stored

WithinKey ==
    /\ cursor.offset <= Len(Key)
    /\ \A i \in 1..Len(ancestors) : ancestors[i].offset <= Len(Key)
    /\ parent.offset <= Len(Key) /\ parent.at <= Len(Key)

PiecesHaveBytes ==
    /\ Saving /\ job.next # "spine" => job.node.label # << >>
    /\ pc = "collapse" => PassThrough(job.node)

ResultHeld ==
    call.kind = "update" /\ result.outcome = "ok"
        => result.value \in stored \cup {EmptyRoot}

NoFrame ==
    pc = "idle" => /\ call = NoCall /\ cursor = NoCursor /\ ancestors = << >>
                   /\ job = NoJob /\ parent = NoParent /\ replacement = None
                   /\ inserted = {}

Work == WorkClosed /\ WithinKey /\ PiecesHaveBytes /\ ResultHeld /\ NoFrame

IInv == TypeOK /\ NoDangling /\ Work

-----------------------------------------------------------------------------
(* What the actions may use. *)

(* The node at the cursor, and where the key leaves it. *)
LEMMA AtCursor ==
    ASSUME IInv
    PROVE  /\ Key \in Seq(Byte) /\ Len(Key) \in Nat
           /\ IsNode(N) /\ Refs(N) \subseteq stored
           /\ Shared \in 0..Len(N.label)
           /\ At \in Nat /\ At <= Len(Key)
           /\ Before(Key, At) \in Seq(Byte)
           /\ Before(Key, cursor.offset) \in Seq(Byte)
           /\ At < Len(Key) => Key[At + 1] \in Byte
<1>1. call.path \in Seq(Byte) /\ cursor.offset \in Nat
      /\ cursor.id \in stored \cup {EmptyRoot}
  BY DEF IInv, TypeOK
<1>2. Key \in Seq(Byte) /\ Len(Key) \in Nat
  BY <1>1, KeysAreBytes DEF Key
<1>3. IsNode(N) /\ Refs(N) \subseteq stored
  BY <1>1, EmptyIsNode DEF IInv, TypeOK, NoDangling, IsRow, N
<1>4. cursor.offset \in 0..Len(Key)
  BY <1>1, <1>2 DEF IInv, Work, WithinKey
<1>5. Rest \in Seq(Byte) /\ Len(Rest) = Len(Key) - cursor.offset
  BY <1>2, <1>4, Cuts DEF Rest
<1>6. N.label \in Seq(Byte)
  BY <1>3 DEF IsNode
<1>7. Shared \in 0..Len(N.label) /\ Shared <= Len(Rest)
  BY <1>5, <1>6, CommonBounds DEF Shared
<1>8. At \in Nat /\ At <= Len(Key)
  BY <1>1, <1>2, <1>5, <1>6, <1>7 DEF At
<1>9. Before(Key, At) \in Seq(Byte) /\ Before(Key, cursor.offset) \in Seq(Byte)
  BY <1>2, <1>4, <1>8, Cuts
<1>10. At < Len(Key) => Key[At + 1] \in Byte
  BY <1>2, <1>8, ElementOfSeq
<1> QED
  BY <1>2, <1>3, <1>7, <1>8, <1>9, <1>10

(* The three ways save goes on: nothing to keep, an error, a store call. *)
LEMMA SaveEffect ==
    ASSUME NEW node, NEW prefix, NEW next, Save(node, prefix, next)
    PROVE  \/ /\ pc' = "rise" /\ replacement' = None
              /\ UNCHANGED <<job, result>>
           \/ /\ pc' = "return"
              /\ result' = [outcome |-> "codec", value |-> None]
              /\ UNCHANGED <<job, replacement>>
           \/ /\ pc' \in {"collapse", "insert"}
              /\ pc' = "collapse" => PassThrough(node)
              /\ job' = [node |-> node, prefix |-> prefix, next |-> next]
              /\ UNCHANGED <<replacement, result>>
<1>1. CASE Blank(node) /\ next = "spine" /\ pc' = "rise" /\ replacement' = None
           /\ UNCHANGED <<job, result>>
  BY <1>1, Zenon
<1>2. CASE SaveFails("codec")
  BY <1>2, Zenon DEF SaveFails, Fail
<1>3. CASE PassThrough(node) /\ StoreCall("collapse", node, prefix, next)
  BY <1>3 DEF StoreCall
<1>4. CASE StoreCall("insert", node, prefix, next)
  BY <1>4 DEF StoreCall
<1> QED
  BY <1>1, <1>2, <1>3, <1>4, Zenon DEF Save, Insert

(* The leaf a new key ends in, when bytes of the key are left for it. *)
LEMMA LeafIsNode ==
    ASSUME IInv, call.binding # None, NEW n \in Nat, n < Len(Key)
    PROVE  IsNode(Leaf(n)) /\ Refs(Leaf(n)) = {} /\ Leaf(n).label # << >>
<1>1. Key \in Seq(Byte) /\ Len(Key) \in Nat
  BY AtCursor
<1>2. From(Key, n) \in Seq(Byte) /\ Len(From(Key, n)) = Len(Key) - n
  BY <1>1, Cuts, SMTT(30)
<1>3. From(Key, n) # << >>
  BY <1>1, <1>2
<1>4. call.binding \in Binding \cup {None}
  BY DEF IInv, TypeOK
<1> QED
  BY <1>2, <1>3, <1>4 DEF Leaf, IsNode, Node, Edges, Refs, NoChildren

-----------------------------------------------------------------------------
(* The steps that read the store only. *)

(* A call that goes nowhere but to its end, with nothing else touched. *)
LEMMA ReturnStep ==
    ASSUME IInv, pc # "idle",
           pc' = "return", UNCHANGED <<store, roots, call, ancestors, edits,
                                       inserted, bounds>>,
           cursor' = cursor,
           found' \in [path : Seq(Byte), binding : Binding] \cup {None},
           NEW outcome \in {"ok", "store", "codec"}, NEW value,
           result' = [outcome |-> outcome, value |-> value],
           call.kind = "update" /\ outcome = "ok"
               => value \in stored \cup {EmptyRoot}
    PROVE  IInv'
<1> USE DEF store, edits, bounds
<1>1. TypeOK'
  BY DEF IInv, TypeOK, PCs
<1>2. NoDangling'
  BY DEF IInv, NoDangling
<1>3. Work'
  BY DEF IInv, Work, WorkClosed, WithinKey, PiecesHaveBytes, ResultHeld,
         NoFrame, Saving, Key
<1> QED
  BY <1>1, <1>2, <1>3 DEF IInv

(* A path the walk has found is a byte string. *)
LEMMA FoundTyped ==
    ASSUME IInv
    PROVE  /\ found \in [path : Seq(Byte), binding : Binding] \cup {None}
           /\ FoundHere \in [path : Seq(Byte), binding : Binding] \cup {None}
<1>1. found \in [path : Seq(Byte), binding : Binding] \cup {None}
  BY DEF IInv, TypeOK
<1>2. KeyPath(Before(Key, At)) \in Seq(Byte)
  BY AtCursor, KeysAreBytes
<1>3. N.binding \in Binding \cup {None}
  BY AtCursor DEF IsNode
<1> QED
  BY <1>1, <1>2, <1>3 DEF FoundHere

(* The loop's load failing, and the ends of a walk. *)
LEMMA EndStep ==
    ASSUME IInv, LoadFails \/ WalkOffLabel \/ WalkEnds \/ WalkNoChild
    PROVE  IInv'
<1>1. CASE LoadFails
  BY <1>1, ReturnStep, FoundTyped DEF LoadFails, Fail, LoadError, spine
<1>2. CASE WalkOffLabel
  BY <1>2, ReturnStep, FoundTyped DEF WalkOffLabel, Walking, Loaded, Return
<1>3. CASE WalkEnds
  BY <1>3, ReturnStep, FoundTyped DEF WalkEnds, Walking, Loaded, Return
<1>4. CASE WalkNoChild
  BY <1>4, ReturnStep, FoundTyped DEF WalkNoChild, Walking, Loaded, Return
<1> QED
  BY <1>1, <1>2, <1>3, <1>4

(* One node further down, for a walk and for an update. *)
LEMMA ChildTyped ==
    ASSUME IInv, At < Len(Key), Key[At + 1] \in Edges(N)
    PROVE  Child(Key[At + 1]) \in [id : stored \cup {EmptyRoot},
                                    edge : Byte \cup {None}, offset : Nat]
<1>1. N.children[Key[At + 1]] \in stored
  BY AtCursor DEF Refs
<1> QED
  BY <1>1, AtCursor DEF Child

LEMMA WalkDownStep ==
    ASSUME IInv, WalkDown
    PROVE  IInv'
<1> USE DEF WalkDown, Walking, Loaded, store, edits, bounds
<1>1. cursor' = Child(Key[At + 1])
      /\ cursor' \in [id : stored \cup {EmptyRoot},
                       edge : Byte \cup {None}, offset : Nat]
  BY ChildTyped
<1>2. TypeOK'
  BY <1>1, FoundTyped DEF IInv, TypeOK
<1>3. NoDangling'
  BY DEF IInv, NoDangling
<1>4. cursor'.offset <= Len(Key)
  BY <1>1, AtCursor DEF Child
<1>5. Work'
  BY <1>4 DEF IInv, Work, WorkClosed, WithinKey, PiecesHaveBytes, ResultHeld,
              NoFrame, Saving, Key
<1> QED
  BY <1>2, <1>3, <1>5 DEF IInv

LEMMA DescendStep ==
    ASSUME IInv, Descend
    PROVE  IInv'
<1> USE DEF Descend, Updating, Loaded, store, edits, bounds
<1>1. cursor' = Child(Key[At + 1])
      /\ cursor' \in [id : stored \cup {EmptyRoot},
                       edge : Byte \cup {None}, offset : Nat]
  BY ChildTyped
<1> DEFINE Frame == [id : stored \cup {EmptyRoot}, edge : Byte, offset : Nat]
           top == [id |-> cursor.id, edge |-> Key[At + 1], offset |-> cursor.offset]
<1>2. top \in Frame
  BY AtCursor DEF IInv, TypeOK
<1>3. ancestors \in Seq(Frame) /\ ancestors' = Append(ancestors, top)
  BY DEF IInv, TypeOK
<1>4. top.offset = cursor.offset
  OBVIOUS
<1> HIDE DEF Frame, top
<1>5. /\ ancestors' \in Seq(Frame)
      /\ Len(ancestors') = Len(ancestors) + 1
      /\ \A i \in 1..Len(ancestors) : ancestors'[i] = ancestors[i]
      /\ ancestors'[Len(ancestors) + 1] = top
  BY <1>2, <1>3
<1>6. TypeOK'
  BY <1>1, <1>5 DEF IInv, TypeOK, Frame
<1>7. NoDangling'
  BY DEF IInv, NoDangling
<1>8. cursor'.offset <= Len(Key)
  BY <1>1, AtCursor DEF Child
<1>9. \A i \in 1..Len(ancestors') : ancestors'[i].offset <= Len(Key)
  BY <1>3, <1>4, <1>5 DEF IInv, Work, WithinKey
<1>10. Work'
  BY <1>8, <1>9 DEF IInv, Work, WorkClosed, WithinKey, PiecesHaveBytes,
                    ResultHeld, NoFrame, Saving, Key
<1> QED
  BY <1>6, <1>7, <1>10 DEF IInv

-----------------------------------------------------------------------------
(* The steps that start a save, or go on to the next one. *)

(* What such a step must have ready for the invariant to hold after save. *)
StoreReady ==
    /\ stored \subseteq stored'
    /\ \A id \in stored' : IsRow(id) /\ Refs(NodeOf(id)) \subseteq stored'
    /\ missing' \subseteq stored' /\ corrupt' \subseteq stored'
    /\ inserted' \subseteq stored'

ParentReady ==
    /\ parent' = [node |-> parent'.node, offset |-> parent'.offset,
                  at |-> parent'.at]
    /\ IsNode(parent'.node) /\ Refs(parent'.node) \subseteq stored'
    /\ parent'.offset \in Nat /\ parent'.offset <= Len(Key)
    /\ parent'.at \in Nat /\ parent'.at <= Len(Key)

FrameReady ==
    /\ ancestors' \in Seq([id : stored' \cup {EmptyRoot}, edge : Byte,
                            offset : Nat])
    /\ \A i \in 1..Len(ancestors') : ancestors'[i].offset <= Len(Key)
    /\ UNCHANGED <<roots, call, cursor, found, bounds>>

LEMMA SaveStep ==
    ASSUME IInv, pc \notin {"idle", "return"},
           StoreReady, ParentReady, FrameReady,
           NEW node, IsNode(node), Refs(node) \subseteq stored',
           NEW prefix \in Seq(Byte),
           NEW next \in {"tail", "leaf", "spine"},
           next # "spine" => node.label # << >>,
           Save(node, prefix, next)
    PROVE  IInv'
<1> DEFINE A == /\ pc' = "rise" /\ replacement' = None
                /\ UNCHANGED <<job, result>>
           B == /\ pc' = "return"
                /\ result' = [outcome |-> "codec", value |-> None]
                /\ UNCHANGED <<job, replacement>>
           C == /\ pc' \in {"collapse", "insert"}
                /\ pc' = "collapse" => PassThrough(node)
                /\ job' = [node |-> node, prefix |-> prefix, next |-> next]
                /\ UNCHANGED <<replacement, result>>
<1>1. A \/ B \/ C
  BY SaveEffect
<1>2. pc' \in PCs /\ pc' # "idle"
  BY <1>1 DEF PCs
<1>3. /\ result' = [outcome |-> result'.outcome, value |-> result'.value]
      /\ result'.outcome \in {"pending", "ok", "store", "codec"}
      /\ (pc' = "return") = (result'.outcome # "pending")
  BY <1>1 DEF IInv, TypeOK, PCs
<1>4. replacement' \in stored' \cup {None}
  BY <1>1 DEF IInv, TypeOK, StoreReady
<1>5. /\ job' = [node |-> job'.node, prefix |-> job'.prefix, next |-> job'.next]
      /\ IsNode(job'.node) /\ Refs(job'.node) \subseteq stored'
      /\ job'.next \in {"tail", "leaf", "spine"} /\ job'.prefix \in Seq(Byte)
  <2>1. CASE A \/ B
    BY <2>1 DEF IInv, TypeOK, Work, WorkClosed, StoreReady
  <2>2. CASE C
    BY <2>2
  <2> QED
    BY <1>1, <2>1, <2>2
<1>6. /\ call' \in [kind : Kinds, root : stored' \cup {EmptyRoot},
                     path : Seq(Byte), binding : Binding \cup {None}]
      /\ cursor' \in [id : stored' \cup {EmptyRoot}, edge : Byte \cup {None},
                       offset : Nat]
      /\ roots' \subseteq stored' \cup {EmptyRoot}
      /\ found' \in [path : Seq(Byte), binding : Binding] \cup {None}
      /\ calls' \in Nat /\ faults' \in Nat
  BY DEF IInv, TypeOK, FrameReady, StoreReady, bounds
<1>7. TypeOK'
  BY <1>2, <1>3, <1>4, <1>5, <1>6 DEF TypeOK, StoreReady, ParentReady, FrameReady
<1>8. NoDangling'
  BY DEF NoDangling, StoreReady
<1>9. Key' = Key /\ WithinKey'
  BY DEF IInv, Work, WithinKey, Key, FrameReady, ParentReady
<1>10. PiecesHaveBytes'
  BY <1>1 DEF PiecesHaveBytes, Saving
<1>11. ResultHeld'
  BY <1>1 DEF ResultHeld, IInv, TypeOK, PCs
<1>12. Work'
  BY <1>2, <1>5, <1>9, <1>10, <1>11 DEF Work, WorkClosed, NoFrame, ParentReady
<1> QED
  BY <1>7, <1>8, <1>12 DEF IInv

(* A step that leaves the store alone has it ready. *)
LEMMA StoreStaysReady ==
    ASSUME IInv, UNCHANGED <<store, inserted>>
    PROVE  StoreReady
  BY DEF IInv, TypeOK, NoDangling, StoreReady, store

(* So it is with the ancestors, and with the node that waits. *)
LEMMA FrameStaysReady ==
    ASSUME IInv, StoreReady,
           UNCHANGED <<roots, call, cursor, found, bounds, ancestors>>
    PROVE  FrameReady
<1> DEFINE Was == [id : stored \cup {EmptyRoot}, edge : Byte, offset : Nat]
           Is == [id : stored' \cup {EmptyRoot}, edge : Byte, offset : Nat]
<1>1. Was \subseteq Is
  BY DEF StoreReady
<1>2. ancestors \in Seq(Was)
  BY DEF IInv, TypeOK
<1>3. ancestors \in Seq(Is)
  <2> HIDE DEF Was, Is
  <2> QED
    BY <1>1, <1>2, SeqMonotonic
<1>4. \A i \in 1..Len(ancestors) : ancestors[i].offset <= Len(Key)
  BY DEF IInv, Work, WithinKey
<1> QED
  BY <1>3, <1>4 DEF FrameReady

LEMMA ParentStaysReady ==
    ASSUME IInv, StoreReady, UNCHANGED parent
    PROVE  ParentReady
  BY DEF IInv, TypeOK, Work, WorkClosed, WithinKey, StoreReady, ParentReady

-----------------------------------------------------------------------------
(* The actions of update that edit the loaded node. *)

LEMMA UnchangedStep ==
    ASSUME IInv, Unchanged
    PROVE  IInv'
<1>1. call.root \in stored \cup {EmptyRoot} /\ pc # "idle"
  BY DEF IInv, TypeOK, Unchanged, Updating, Loaded
<1> QED
  BY <1>1, ReturnStep, FoundTyped DEF Unchanged, Updating, Loaded, Return

LEMMA SplitLabelStep ==
    ASSUME IInv, SplitLabel
    PROVE  IInv'
<1> USE DEF SplitLabel, Updating, Loaded
<1> DEFINE tail == [N EXCEPT !.label = From(N.label, Shared)]
           head == Node(Before(N.label, Shared), None, NoChildren)
<1>1. StoreReady /\ FrameReady
  BY StoreStaysReady, FrameStaysReady
<1>2. /\ N.label \in Seq(Byte) /\ Shared \in 0..Len(N.label)
      /\ From(N.label, Shared) \in Seq(Byte)
      /\ Len(From(N.label, Shared)) = Len(N.label) - Shared
      /\ Before(N.label, Shared) \in Seq(Byte)
  BY AtCursor, Cuts DEF IsNode
<1>3. From(N.label, Shared) # << >>
  BY <1>2
<1>4. IsNode(tail) /\ Refs(tail) \subseteq stored /\ tail.label # << >>
  BY <1>2, <1>3, AtCursor, NodeEdits
<1>5. IsNode(head) /\ Refs(head) = {}
  BY <1>2 DEF IsNode, Node, NoChildren, Edges, Refs
<1>6. cursor.offset \in Nat /\ cursor.offset <= Len(Key)
  BY DEF IInv, TypeOK, Work, WithinKey
<1>7. ParentReady
  BY <1>5, <1>6, AtCursor DEF ParentReady
<1>8. Save(tail, Before(Key, At), "tail") /\ stored' = stored
  BY DEF store
<1> HIDE DEF tail, head
<1> QED
  BY <1>1, <1>4, <1>7, <1>8, AtCursor, SaveStep

LEMMA RebindStep ==
    ASSUME IInv, Rebind
    PROVE  IInv'
<1> USE DEF Rebind, Updating, Loaded
<1> DEFINE node == [N EXCEPT !.binding = call.binding]
<1>1. StoreReady /\ FrameReady /\ ParentReady
  BY StoreStaysReady, FrameStaysReady, ParentStaysReady
<1>2. IsNode(node) /\ Refs(node) \subseteq stored
  <2>1. IsNode(N) /\ Refs(N) \subseteq stored
    BY AtCursor, Zenon
  <2>2. call.binding \in Binding \cup {None}
    BY DEF IInv, TypeOK
  <2>3. IsNode(node) /\ Refs(node) = Refs(N)
    BY <2>1, <2>2, NodeEdits, Zenon
  <2> QED
    BY <2>1, <2>3
<1>3. Save(node, Before(Key, cursor.offset), "spine") /\ stored' = stored
  BY DEF store
<1> HIDE DEF node
<1> QED
  BY <1>1, <1>2, <1>3, AtCursor, SaveStep

LEMMA AddLeafStep ==
    ASSUME IInv, AddLeaf
    PROVE  IInv'
<1> USE DEF AddLeaf, Updating, Loaded
<1>1. StoreReady /\ FrameReady
  BY StoreStaysReady, FrameStaysReady
<1>2. cursor.offset \in Nat /\ cursor.offset <= Len(Key)
  BY DEF IInv, TypeOK, Work, WithinKey
<1>3. stored' = stored
  BY DEF store
<1>4. ParentReady
  BY <1>2, <1>3, AtCursor DEF ParentReady
<1>5. IsNode(Leaf(At)) /\ Refs(Leaf(At)) = {} /\ Leaf(At).label # << >>
  BY AtCursor, LeafIsNode
<1>6. Save(Leaf(At), Before(Key, At), "leaf")
  OBVIOUS
<1> QED
  BY <1>1, <1>3, <1>4, <1>5, <1>6, AtCursor, SaveStep

-----------------------------------------------------------------------------
(* save's store calls and the climb. *)

LEMMA CollapseStep ==
    ASSUME IInv, Collapse
    PROVE  IInv'
<1> USE DEF Collapse
<1>1. IsNode(job.node) /\ Refs(job.node) \subseteq stored
      /\ job.prefix \in Seq(Byte) /\ job.next \in {"tail", "leaf", "spine"}
  BY DEF IInv, TypeOK, Work, WorkClosed
<1>2. PassThrough(job.node)
  BY DEF IInv, Work, PiecesHaveBytes
<1>3. OnlyEdge \in Edges(job.node)
  BY <1>2 DEF PassThrough, OnlyEdge
<1>4. OnlyId \in stored
  BY <1>1, <1>3 DEF OnlyId, Refs
<1>5. IsNode(NodeOf(OnlyId)) /\ Refs(NodeOf(OnlyId)) \subseteq stored
  BY <1>4 DEF IInv, TypeOK, NoDangling, IsRow
<1>6. job.node.label \o NodeOf(OnlyId).label \in Seq(Byte)
  BY <1>1, <1>5, ConcatProperties DEF IsNode
<1>7. IsNode(Merged) /\ Refs(Merged) \subseteq stored
      /\ Merged.label = job.node.label \o NodeOf(OnlyId).label
  BY <1>5, <1>6 DEF Merged, IsNode, Node, Edges, Refs
<1>8. job.next # "spine" => Merged.label # << >>
  <2>1. job.next # "spine" => job.node.label # << >>
    BY DEF IInv, Work, PiecesHaveBytes, Saving
  <2>2. job.node.label \in Seq(Byte) /\ NodeOf(OnlyId).label \in Seq(Byte)
    BY <1>1, <1>5 DEF IsNode
  <2> QED
    BY <1>7, <2>1, <2>2, ConcatEqualIffEmpty
<1>9. /\ UNCHANGED replacement
      /\ \/ /\ pc' = "insert" /\ UNCHANGED result
            /\ job' = [node |-> Merged, prefix |-> job.prefix, next |-> job.next]
         \/ /\ pc' = "return" /\ UNCHANGED job
            /\ result' \in {[outcome |-> e, value |-> None] : e \in {"store", "codec"}}
  BY DEF Insert, StoreCall, SaveFails, Fail, LoadError
<1>10. TypeOK'
  <2>1. /\ job' = [node |-> job'.node, prefix |-> job'.prefix, next |-> job'.next]
        /\ IsNode(job'.node) /\ job'.next \in {"tail", "leaf", "spine"}
        /\ job'.prefix \in Seq(Byte)
    BY <1>1, <1>7, <1>9 DEF IInv, TypeOK
  <2>2. /\ result' = [outcome |-> result'.outcome, value |-> result'.value]
        /\ result'.outcome \in {"pending", "ok", "store", "codec"}
        /\ (pc' = "return") = (result'.outcome # "pending")
        /\ pc' \in PCs
    BY <1>9 DEF IInv, TypeOK, PCs
  <2> HIDE DEF Collapse
  <2>3. UNCHANGED <<store, roots, call, spine, parent, inserted, bounds, replacement>>
    BY <1>9 DEF Collapse
  <2> QED
    BY <2>1, <2>2, <2>3 DEF IInv, TypeOK, store, spine, bounds
<1>11. NoDangling'
  BY DEF IInv, NoDangling, store
<1>12. Work'
  <2>1. UNCHANGED <<store, call, spine, parent>>
    OBVIOUS
  <2> HIDE DEF Collapse
  <2>2. Refs(job'.node) \subseteq stored
    BY <1>1, <1>7, <1>9
  <2>3. WorkClosed'
    BY <2>1, <2>2 DEF IInv, Work, WorkClosed, store
  <2>4. WithinKey'
    BY <2>1 DEF IInv, Work, WithinKey, Key, spine
  <2>5. PiecesHaveBytes'
    BY <1>8, <1>9 DEF PiecesHaveBytes, Saving
  <2>6. ResultHeld' /\ NoFrame'
    BY <1>9, <2>1 DEF IInv, TypeOK, PCs, Work, ResultHeld, NoFrame, store
  <2> QED
    BY <2>3, <2>4, <2>5, <2>6 DEF Work
<1> QED
  BY <1>10, <1>11, <1>12 DEF IInv

(* The row a save inserts refers to rows, so the store stays closed. *)
LEMMA InsertReady ==
    ASSUME IInv, pc = "insert",
           stored' = stored \cup {Row},
           missing' \subseteq stored', corrupt' \subseteq stored',
           inserted' \subseteq stored'
    PROVE  StoreReady
<1>1. NodeOf(Row) = job.node
  BY DEF Row, NodeOf, Digest
<1>2. IsRow(Row) /\ Refs(NodeOf(Row)) \subseteq stored
  BY <1>1 DEF IInv, TypeOK, Work, WorkClosed, IsRow, Row
<1> QED
  BY <1>2 DEF IInv, TypeOK, NoDangling, StoreReady

LEMMA InsertRowStep ==
    ASSUME IInv, InsertRow
    PROVE  IInv'
<1> USE DEF InsertRow
<1>1. StoreReady
  BY InsertReady DEF IInv, TypeOK
<1>2. FrameReady
  BY <1>1, FrameStaysReady DEF spine
<1>3. /\ IsNode(job.node) /\ job.node.label \in Seq(Byte)
      /\ IsNode(parent.node) /\ Refs(parent.node) \subseteq stored
      /\ parent = [node |-> parent.node, offset |-> parent.offset, at |-> parent.at]
      /\ parent.offset \in Nat /\ parent.offset <= Len(Key)
      /\ parent.at \in Nat /\ parent.at <= Len(Key)
      /\ Key \in Seq(Byte) /\ Len(Key) \in Nat
  BY AtCursor DEF IInv, TypeOK, Work, WorkClosed, WithinKey, IsNode
<1>4. Before(Key, parent.offset) \in Seq(Byte) /\ Before(Key, parent.at) \in Seq(Byte)
  BY <1>3, Cuts
<1> DEFINE node == Attach(Row)
<1>5. ASSUME job.next \in {"tail", "leaf"}
      PROVE  IsNode(node) /\ Refs(node) \subseteq stored'
  <2>1. job.node.label # << >>
    BY <1>5 DEF IInv, Work, PiecesHaveBytes, Saving
  <2>2. job.node.label[1] \in Byte
    BY <1>3, <2>1, ElementOfSeq
  <2> QED
    BY <1>3, <2>2, SetChildIsNode DEF Attach
<1>6. CASE job.next = "tail" /\ AfterTail(node)
  <2>1. CASE parent.at = Len(Key)
    <3> DEFINE bound == [node EXCEPT !.binding = call.binding]
    <3>1. IsNode(bound) /\ Refs(bound) \subseteq stored'
      BY <1>5, <1>6, NodeEdits, ZenonT(40) DEF IInv, TypeOK
    <3>2. parent' = parent /\ Save(bound, Before(Key, parent.offset), "spine")
      BY <1>6, <2>1 DEF AfterTail
    <3>3. ParentReady
      BY <1>1, <3>2, ParentStaysReady
    <3> HIDE DEF bound, node
    <3> QED
      BY <1>1, <1>2, <1>4, <3>1, <3>2, <3>3, SaveStep
  <2>2. CASE parent.at # Len(Key)
    <3>1. /\ parent' = [parent EXCEPT !.node = node]
          /\ Save(Leaf(parent.at), Before(Key, parent.at), "leaf")
      BY <1>6, <2>2 DEF AfterTail
    <3>2. ParentReady
      BY <1>3, <1>5, <1>6, <3>1 DEF ParentReady
    <3>3. CASE call.binding = None
      <4>1. /\ IsNode(Leaf(parent.at)) /\ Refs(Leaf(parent.at)) = {}
            /\ Leaf(parent.at).label # << >>
        <5>1. From(Key, parent.at) \in Seq(Byte)
              /\ Len(From(Key, parent.at)) = Len(Key) - parent.at
          BY <1>3, Cuts
        <5>2. From(Key, parent.at) # << >>
          BY <1>3, <2>2, <5>1
        <5> QED
          BY <3>3, <5>1, <5>2 DEF Leaf, IsNode, Node, Edges, Refs, NoChildren
      <4> HIDE DEF node
      <4> QED
        BY <1>1, <1>2, <1>4, <3>1, <3>2, <4>1, SaveStep
    <3>4. CASE call.binding # None
      <4>1. /\ IsNode(Leaf(parent.at)) /\ Refs(Leaf(parent.at)) = {}
            /\ Leaf(parent.at).label # << >>
        BY <1>3, <2>2, <3>4, LeafIsNode
      <4> HIDE DEF node
      <4> QED
        BY <1>1, <1>2, <1>4, <3>1, <3>2, <4>1, SaveStep
    <3> QED
      BY <3>3, <3>4
  <2> QED
    BY <2>1, <2>2
<1>7. CASE job.next = "leaf" /\ AfterLeaf(node)
  <2>1. parent' = parent /\ Save(node, Before(Key, parent.offset), "spine")
    BY <1>7 DEF AfterLeaf
  <2>2. ParentReady
    BY <1>1, <2>1, ParentStaysReady
  <2>3. IsNode(node) /\ Refs(node) \subseteq stored'
    BY <1>5, <1>7
  <2> HIDE DEF node
  <2> QED
    BY <1>1, <1>2, <1>4, <2>1, <2>2, <2>3, SaveStep
<1>8. CASE /\ job.next = "spine" /\ replacement' = Row /\ pc' = "rise"
           /\ UNCHANGED <<job, parent, result>>
  <2>1. ParentReady
    BY <1>1, <1>8, ParentStaysReady
  <2>2. UNCHANGED <<roots, call, spine, bounds>>
    OBVIOUS
  <2> HIDE DEF InsertRow
  <2>3. TypeOK'
    <3>1. Row \in stored'
      BY DEF InsertRow
    <3>2. pc = "insert"
      BY DEF InsertRow
    <3>3. (pc' = "return") = (result'.outcome # "pending") /\ pc' \in PCs
      BY <1>8, <3>2 DEF IInv, TypeOK, PCs
    <3>4. /\ call' \in [kind : Kinds, root : stored' \cup {EmptyRoot},
                         path : Seq(Byte), binding : Binding \cup {None}]
          /\ cursor' \in [id : stored' \cup {EmptyRoot},
                           edge : Byte \cup {None}, offset : Nat]
          /\ roots' \subseteq stored' \cup {EmptyRoot}
          /\ found' \in [path : Seq(Byte), binding : Binding] \cup {None}
          /\ calls' \in Nat /\ faults' \in Nat
      BY <1>1, <2>2 DEF IInv, TypeOK, StoreReady, spine, bounds
    <3>5. /\ job' = [node |-> job'.node, prefix |-> job'.prefix, next |-> job'.next]
          /\ IsNode(job'.node) /\ job'.next \in {"tail", "leaf", "spine"}
          /\ job'.prefix \in Seq(Byte)
          /\ result' = [outcome |-> result'.outcome, value |-> result'.value]
          /\ result'.outcome \in {"pending", "ok", "store", "codec"}
      BY <1>8 DEF IInv, TypeOK
    <3> QED
      BY <1>1, <1>2, <1>8, <2>1, <3>1, <3>3, <3>4, <3>5
         DEF TypeOK, StoreReady, FrameReady, ParentReady
  <2>4. NoDangling'
    BY <1>1 DEF NoDangling, StoreReady
  <2>5. Work'
    BY <1>1, <1>2, <1>8, <2>1, <2>2
       DEF IInv, TypeOK, Work, WorkClosed, WithinKey, PiecesHaveBytes, ResultHeld,
           NoFrame, Saving, Key, StoreReady, FrameReady, ParentReady, spine
  <2> QED
    BY <2>3, <2>4, <2>5 DEF IInv
<1> QED
  BY <1>6, <1>7, <1>8

LEMMA InsertConflictsStep ==
    ASSUME IInv, InsertConflicts
    PROVE  IInv'
  BY ReturnStep, FoundTyped DEF InsertConflicts, Fail, spine

LEMMA RiseStep ==
    ASSUME IInv, Rise
    PROVE  IInv'
<1> USE DEF Rise
<1> DEFINE Frame == [id : stored \cup {EmptyRoot}, edge : Byte, offset : Nat]
           n   == Len(ancestors)
           top == ancestors[n]
           node == SetChild(NodeOf(top.id), top.edge, replacement)
<1>1. StoreReady /\ ParentReady /\ stored' = stored
  BY StoreStaysReady, ParentStaysReady DEF store
<1>2. ancestors \in Seq(Frame) /\ n \in Nat \ {0}
  BY EmptySeq DEF IInv, TypeOK
<1>3. \A i \in 1..n : ancestors[i] \in Frame /\ ancestors[i].offset <= Len(Key)
  BY <1>2, ElementOfSeq DEF IInv, Work, WithinKey
<1>4. top \in Frame /\ top.offset <= Len(Key)
  BY <1>2, <1>3
<1>5. IsNode(NodeOf(top.id)) /\ Refs(NodeOf(top.id)) \subseteq stored
  BY <1>4, EmptyIsNode DEF IInv, TypeOK, NoDangling, IsRow
<1>6. replacement \in stored \cup {None}
  BY DEF IInv, TypeOK
<1>7. IsNode(node) /\ Refs(node) \subseteq stored
  BY <1>4, <1>5, <1>6, SetChildIsNode
<1>8. Key \in Seq(Byte) /\ Len(Key) \in Nat
  BY AtCursor
<1>9. Before(Key, top.offset) \in Seq(Byte)
  BY <1>4, <1>8, Cuts
<1>10. /\ ancestors' \in Seq(Frame)
       /\ Len(ancestors') = n - 1
       /\ \A i \in 1..n-1 : ancestors'[i] = ancestors[i]
  <2>1. \A i \in 1..n-1 : ancestors[i] \in Frame
    BY <1>2, <1>3
  <2>2. ancestors' = SubSeq(ancestors, 1, n - 1)
    BY DEF Before
  <2> HIDE DEF Frame, n, Rise
  <2> QED
    BY <1>2, <2>1, <2>2, SubSeqProperties
<1>11. FrameReady
  <2>1. \A i \in 1..Len(ancestors') : ancestors'[i].offset <= Len(Key)
    <3> HIDE DEF Frame, Rise
    <3> QED
      BY <1>2, <1>3, <1>10
  <2>2. UNCHANGED <<roots, call, cursor, found, bounds>>
    OBVIOUS
  <2> HIDE DEF Rise
  <2> QED
    BY <1>1, <1>10, <2>1, <2>2 DEF FrameReady
<1>12. Save(node, Before(Key, top.offset), "spine")
  OBVIOUS
<1> HIDE DEF Frame, n, top, node
<1> QED
  BY <1>1, <1>7, <1>9, <1>11, <1>12, SaveStep

LEMMA FinishStep ==
    ASSUME IInv, Finish
    PROVE  IInv'
<1>1. (IF replacement = None THEN EmptyRoot ELSE replacement)
        \in stored \cup {EmptyRoot}
  BY DEF IInv, TypeOK
<1> QED
  BY <1>1, ReturnStep, FoundTyped DEF Finish, Return, spine

-----------------------------------------------------------------------------
(* The store and the caller. *)

LEMMA StoreUnavailableStep ==
    ASSUME IInv, StoreUnavailable
    PROVE  IInv'
<1>1. StoreReady
  <2>1. CASE UNCHANGED <<store, inserted>>
    BY <2>1, StoreStaysReady
  <2>2. CASE /\ pc = "insert" /\ stored' = stored \cup {Row}
             /\ inserted' = inserted \cup {Row} /\ UNCHANGED <<missing, corrupt>>
    BY <2>2, InsertReady DEF IInv, TypeOK
  <2> QED
    BY <2>1, <2>2 DEF StoreUnavailable
<1>2. /\ pc # "idle" /\ pc' = "return"
      /\ result' = [outcome |-> "store", value |-> None]
      /\ UNCHANGED <<roots, call, spine, edits, calls>> /\ faults' = faults + 1
  BY DEF StoreUnavailable, Fail
<1>3. /\ ancestors' \in Seq([id : stored' \cup {EmptyRoot}, edge : Byte,
                              offset : Nat])
  <2> DEFINE Was == [id : stored \cup {EmptyRoot}, edge : Byte, offset : Nat]
             Is == [id : stored' \cup {EmptyRoot}, edge : Byte, offset : Nat]
  <2>1. Was \subseteq Is /\ ancestors \in Seq(Was) /\ ancestors' = ancestors
    BY <1>1, <1>2 DEF StoreReady, IInv, TypeOK, spine
  <2> HIDE DEF Was, Is
  <2>2. ancestors' \in Seq(Is)
    BY <2>1, SeqMonotonic
  <2> QED
    BY <2>2 DEF Is
<1>4. ParentReady
  BY <1>1, <1>2, ParentStaysReady DEF edits
<1>5. TypeOK'
  <2>1. /\ call' \in [kind : Kinds, root : stored' \cup {EmptyRoot},
                       path : Seq(Byte), binding : Binding \cup {None}]
        /\ cursor' \in [id : stored' \cup {EmptyRoot}, edge : Byte \cup {None},
                         offset : Nat]
        /\ roots' \subseteq stored' \cup {EmptyRoot}
        /\ found' \in [path : Seq(Byte), binding : Binding] \cup {None}
        /\ replacement' \in stored' \cup {None}
        /\ calls' \in Nat /\ faults' \in Nat
    BY <1>1, <1>2 DEF IInv, TypeOK, StoreReady, spine, edits
  <2>2. /\ job' = [node |-> job'.node, prefix |-> job'.prefix, next |-> job'.next]
        /\ IsNode(job'.node) /\ job'.next \in {"tail", "leaf", "spine"}
        /\ job'.prefix \in Seq(Byte)
    BY <1>2 DEF IInv, TypeOK, edits
  <2> QED
    BY <1>1, <1>2, <1>3, <1>4, <2>1, <2>2
       DEF TypeOK, PCs, StoreReady, ParentReady
<1>6. NoDangling'
  BY <1>1 DEF NoDangling, StoreReady
<1>7. Work'
  BY <1>1, <1>2 DEF IInv, TypeOK, Work, WorkClosed, WithinKey, PiecesHaveBytes,
                    ResultHeld, NoFrame, Saving, Key, StoreReady, spine, edits
<1> QED
  BY <1>5, <1>6, <1>7 DEF IInv

LEMMA RowFaultStep ==
    ASSUME IInv, Lose \/ Damage
    PROVE  IInv'
<1>1. /\ UNCHANGED <<stored, roots, pc, call, spine, edits, result, inserted>>
      /\ missing' \subseteq stored /\ corrupt' \subseteq stored
      /\ calls' \in Nat /\ faults' \in Nat
  BY DEF Lose, Damage, IInv, TypeOK
<1>2. TypeOK'
  BY <1>1 DEF IInv, TypeOK, spine, edits
<1>3. NoDangling'
  BY <1>1 DEF IInv, NoDangling
<1>4. Work'
  BY <1>1 DEF IInv, Work, WorkClosed, WithinKey, PiecesHaveBytes, ResultHeld,
              NoFrame, Saving, Key, spine, edits
<1> QED
  BY <1>2, <1>3, <1>4 DEF IInv

LEMMA ForgetStep ==
    ASSUME IInv, Forget
    PROVE  IInv'
<1>1. /\ UNCHANGED <<store, pc, call, spine, edits, result, inserted, bounds>>
      /\ roots' \subseteq roots
  BY DEF Forget
<1>2. TypeOK'
  BY <1>1 DEF IInv, TypeOK, store, spine, edits, bounds
<1>3. NoDangling'
  BY <1>1 DEF IInv, NoDangling, store
<1>4. Work'
  BY <1>1 DEF IInv, Work, WorkClosed, WithinKey, PiecesHaveBytes, ResultHeld,
              NoFrame, Saving, Key, store, spine, edits
<1> QED
  BY <1>2, <1>3, <1>4 DEF IInv

(* Between calls no frame holds an identity, so only roots and rows matter. *)
LEMMA IdleIInv ==
    ASSUME \A id \in stored : IsRow(id), NoDangling,
           missing \subseteq stored, corrupt \subseteq stored,
           roots \subseteq stored \cup {EmptyRoot},
           pc = "idle", call = NoCall, result = NoResult,
           cursor = NoCursor, ancestors = << >>, found = None,
           job = NoJob, parent = NoParent, replacement = None,
           inserted = {}, calls \in Nat, faults \in Nat
    PROVE  IInv
<1>1. IsNode(EmptyNode) /\ Refs(EmptyNode) = {} /\ EmptyNode.label = << >>
  BY EmptyIsNode DEF EmptyNode, Node
<1>2. NoCall.path \in Seq(Byte)
  BY DEF NoCall, Slash, Byte
<1>3. TypeOK
  BY <1>1, <1>2 DEF TypeOK, PCs, Kinds, NoCall, NoCursor, NoJob, NoParent, NoResult
<1>4. Key \in Seq(Byte) /\ Len(Key) \in Nat
  BY <1>2, KeysAreBytes DEF Key
<1>5. Work
  BY <1>1, <1>4
     DEF Work, WorkClosed, WithinKey, PiecesHaveBytes, ResultHeld, NoFrame,
         Saving, NoCursor, NoJob, NoParent, NoResult
<1> QED
  BY <1>3, <1>5 DEF IInv

LEMMA InitIInv == Init => IInv
<1> SUFFICES ASSUME Init PROVE IInv
  OBVIOUS
<1>1. PICK o \in Opening : /\ stored  = o.stored
                           /\ missing = o.missing
                           /\ corrupt = o.corrupt
                           /\ roots   = o.roots
  BY DEF Init
<1>2. /\ \A id \in stored : IsRow(id)
      /\ missing \subseteq stored /\ corrupt \subseteq stored
      /\ roots \subseteq stored \cup {EmptyRoot}
  BY <1>1, OpeningAssumption
<1>3. NoDangling
  BY <1>1, OpeningAssumption DEF NoDangling
<1> QED
  BY <1>2, <1>3, IdleIInv DEF Init

LEMMA CollectStep ==
    ASSUME IInv, Collect
    PROVE  IInv'
<1>1. PICK gone \in stored \ roots :
        /\ \A other \in stored : gone \notin Refs(NodeOf(other))
        /\ stored' = stored \ {gone}
        /\ missing' = missing \ {gone}
        /\ corrupt' = corrupt \ {gone}
  BY DEF Collect
<1>2. UNCHANGED <<roots, pc, call, spine, edits, result, inserted, bounds>>
      /\ pc = "idle"
  BY DEF Collect
<1>3. /\ \A id \in stored' : IsRow(id)
      /\ missing' \subseteq stored' /\ corrupt' \subseteq stored'
      /\ roots' \subseteq stored' \cup {EmptyRoot}
  BY <1>1, <1>2 DEF IInv, TypeOK
<1>4. NoDangling'
  BY <1>1 DEF IInv, NoDangling
<1>5. /\ call = NoCall /\ cursor = NoCursor /\ ancestors = << >>
      /\ job = NoJob /\ parent = NoParent /\ replacement = None /\ inserted = {}
  BY <1>2 DEF IInv, Work, NoFrame
<1>6. TypeOK'
  BY <1>2, <1>3, <1>5, EmptyIsNode
     DEF IInv, TypeOK, NoCall, NoCursor, NoJob, NoParent, spine, edits, bounds
<1>7. Work'
  BY <1>2, <1>5, EmptyIsNode
     DEF IInv, TypeOK, Work, WorkClosed, WithinKey, PiecesHaveBytes, ResultHeld,
         NoFrame, Saving, Key, NoJob, NoParent, PCs, spine, edits
<1> QED
  BY <1>4, <1>6, <1>7 DEF IInv

LEMMA ExitStep ==
    ASSUME IInv, Exit
    PROVE  IInv'
<1>1. /\ pc' = "idle" /\ call' = NoCall /\ result' = NoResult
      /\ cursor' = NoCursor /\ ancestors' = << >> /\ found' = None
      /\ job' = NoJob /\ parent' = NoParent /\ replacement' = None
      /\ inserted' = {} /\ UNCHANGED <<store, bounds>>
  BY DEF Exit
<1>2. roots' \subseteq stored \cup {EmptyRoot}
  BY DEF Exit, IInv, TypeOK, Work, ResultHeld
<1>3. IsNode(EmptyNode) /\ Refs(EmptyNode) = {} /\ EmptyNode.label = << >>
  BY EmptyIsNode DEF EmptyNode, Node
<1>4. NoCall.path \in Seq(Byte)
  BY DEF NoCall, Slash, Byte
<1>5. TypeOK'
  BY <1>1, <1>2, <1>3, <1>4
     DEF IInv, TypeOK, PCs, Kinds, NoCall, NoCursor, NoJob, NoParent, NoResult,
         store, bounds
<1>6. NoDangling'
  BY <1>1 DEF IInv, NoDangling, store
<1>7. Key' = EncodeKey(NoCall.path) /\ Len(Key') \in Nat
  BY <1>1, <1>4, KeysAreBytes DEF Key
<1>8. Work'
  BY <1>1, <1>3, <1>7
     DEF Work, WorkClosed, WithinKey, PiecesHaveBytes, ResultHeld, NoFrame,
         Saving, NoCursor, NoJob, NoParent, NoResult
<1> QED
  BY <1>5, <1>6, <1>8 DEF IInv

LEMMA CallStep ==
    ASSUME IInv, Call
    PROVE  IInv'
<1>1. /\ call = NoCall /\ cursor = NoCursor /\ ancestors = << >>
      /\ job = NoJob /\ parent = NoParent /\ replacement = None /\ inserted = {}
      /\ result.outcome # "ok" /\ pc = "idle"
  BY DEF Call, IInv, TypeOK, Work, NoFrame
<1>2. UNCHANGED <<store, roots, ancestors, found, edits, inserted, faults>>
      /\ calls' = calls + 1
  BY DEF Call
<1>3. call' \in [kind : Kinds, root : stored \cup {EmptyRoot},
                 path : Seq(Byte), binding : Binding \cup {None}]
  BY PathAssumption DEF Call, IInv, TypeOK
<1>4. \/ pc' = "load" /\ cursor' = [NoCursor EXCEPT !.id = call'.root]
                      /\ UNCHANGED result
      \/ /\ pc' = "return" /\ UNCHANGED cursor
         /\ result' = [outcome |-> "codec", value |-> None]
  BY DEF Call, Fail
<1>5. cursor' \in [id : stored \cup {EmptyRoot}, edge : Byte \cup {None},
                   offset : Nat] /\ cursor'.offset = 0
  BY <1>1, <1>3, <1>4 DEF NoCursor
<1>6. TypeOK'
  <2>1. /\ result' = [outcome |-> result'.outcome, value |-> result'.value]
        /\ result'.outcome \in {"pending", "ok", "store", "codec"}
        /\ (pc' = "return") = (result'.outcome # "pending")
        /\ pc' \in PCs
    BY <1>1, <1>4 DEF IInv, TypeOK, PCs
  <2> QED
    BY <1>2, <1>3, <1>5, <2>1 DEF IInv, TypeOK, store, edits
<1>7. NoDangling'
  BY <1>2 DEF IInv, NoDangling, store
<1>8. Len(Key') \in Nat
  <2>1. call'.path \in Seq(Byte)
    BY <1>3
  <2>2. EncodeKey(call'.path) \in Seq(Byte)
    BY <2>1, KeysAreBytes
  <2> QED
    BY <2>2 DEF Key
<1>9. Work'
  BY <1>1, <1>2, <1>4, <1>5, <1>8
     DEF IInv, Work, WorkClosed, WithinKey, PiecesHaveBytes, ResultHeld, NoFrame,
         Saving, NoParent, store, edits
<1> QED
  BY <1>6, <1>7, <1>9 DEF IInv

LEMMA StutterStep ==
    ASSUME IInv, UNCHANGED vars
    PROVE  IInv'
<1> USE DEF vars, store, spine, edits, bounds
<1>1. TypeOK'
  BY DEF IInv, TypeOK
<1>2. NoDangling'
  BY DEF IInv, NoDangling
<1>3. Work'
  BY DEF IInv, Work, WorkClosed, WithinKey, PiecesHaveBytes, ResultHeld, NoFrame,
         Saving, Key
<1> QED
  BY <1>1, <1>2, <1>3 DEF IInv

-----------------------------------------------------------------------------
(* Every step of the index, its store and its caller keeps the invariant.  *)
LEMMA NextIInv == IInv /\ [Next]_vars => IInv'
<1> SUFFICES ASSUME IInv, [Next]_vars PROVE IInv'
  OBVIOUS
<1>1. CASE LoadFails \/ WalkOffLabel \/ WalkEnds \/ WalkNoChild
  BY <1>1, EndStep
<1>2. CASE WalkDown
  BY <1>2, WalkDownStep
<1>3. CASE Unchanged
  BY <1>3, UnchangedStep
<1>4. CASE SplitLabel
  BY <1>4, SplitLabelStep
<1>5. CASE Rebind
  BY <1>5, RebindStep
<1>6. CASE Descend
  BY <1>6, DescendStep
<1>7. CASE AddLeaf
  BY <1>7, AddLeafStep
<1>8. CASE Collapse
  BY <1>8, CollapseStep
<1>9. CASE InsertRow
  BY <1>9, InsertRowStep
<1>10. CASE InsertConflicts
  BY <1>10, InsertConflictsStep
<1>11. CASE Rise
  BY <1>11, RiseStep
<1>12. CASE Finish
  BY <1>12, FinishStep
<1>13. CASE Exit
  BY <1>13, ExitStep
<1>14. CASE Call
  BY <1>14, CallStep
<1>15. CASE StoreUnavailable
  BY <1>15, StoreUnavailableStep
<1>16. CASE Lose \/ Damage
  BY <1>16, RowFaultStep
<1>17. CASE Forget
  BY <1>17, ForgetStep
<1>18. CASE Collect
  BY <1>18, CollectStep
<1>19. CASE UNCHANGED vars
  BY <1>19, StutterStep
<1> QED
  BY <1>1, <1>2, <1>3, <1>4, <1>5, <1>6, <1>7, <1>8, <1>9, <1>10, <1>11, <1>12,
     <1>13, <1>14, <1>15, <1>16, <1>17, <1>18, <1>19
     DEF Next, Running, Environment, Walk, Update

LEMMA Invariance == Spec => []IInv
<1>1. Init => IInv
  BY InitIInv
<1>2. IInv /\ [Next]_vars => IInv'
  BY NextIInv
<1> QED
  BY <1>1, <1>2, PTL DEF Spec

(* Types: every row update ever writes decodes as a node, every root it     *)
(* hands out is the empty root or has a row (RadixNode::decode, update).    *)
THEOREM TypeCorrect == Spec => []TypeOK
<1>1. IInv => TypeOK
  BY DEF IInv
<1> QED
  BY <1>1, Invariance, PTL

(* An update that ends anywhere, with an error of the store or of the codec *)
(* between any two inserts, leaves no row that refers to an absent one.     *)
THEOREM NeverDangling == Spec => []NoDangling
<1>1. IInv => NoDangling
  BY DEF IInv
<1> QED
  BY <1>1, Invariance, PTL
-----------------------------------------------------------------------------
(* An error of the store is the store's own: the index never asks for a row *)
(* that nobody wrote.  Until a fault happens every row is there and sound.  *)
Intact == faults = 0 => missing = {} /\ corrupt = {}

StoreBlamed == result.outcome = "store" => faults > 0

(* What load is asked for has a row, so that only a lost one is absent. *)
LEMMA NothingAbsent ==
    ASSUME IInv, Intact, faults = 0
    PROVE  /\ ~Absent(cursor.id)
           /\ pc = "collapse" => ~Absent(OnlyId)
<1>1. cursor.id \in stored \cup {EmptyRoot} /\ missing = {}
  BY DEF IInv, TypeOK, Intact
<1>2. ASSUME pc = "collapse" PROVE OnlyId \in stored
  <2>1. PassThrough(job.node) /\ Refs(job.node) \subseteq stored
    BY <1>2 DEF IInv, Work, PiecesHaveBytes, WorkClosed
  <2>2. OnlyEdge \in Edges(job.node)
    BY <2>1 DEF PassThrough, OnlyEdge
  <2> QED
    BY <2>1, <2>2 DEF OnlyId, Refs
<1> QED
  BY <1>1, <1>2 DEF Absent

(* A step leaves the store as sound as it was, or it is a counted fault. *)
LEMMA FaultsAreCounted ==
    ASSUME [Next]_vars
    PROVE  \/ faults' = faults /\ missing' \subseteq missing /\ corrupt' \subseteq corrupt
           \/ faults' = faults + 1
<1> USE DEF store, bounds
<1>1. CASE LoadFails \/ Exit \/ Call \/ Forget
  BY <1>1 DEF LoadFails, Exit, Call, Forget
<1>2. CASE Walk
  BY <1>2 DEF Walk, WalkOffLabel, WalkEnds, WalkNoChild, WalkDown, Walking, Loaded
<1>3. CASE Unchanged \/ SplitLabel \/ Rebind \/ Descend \/ AddLeaf
  BY <1>3 DEF Unchanged, SplitLabel, Rebind, Descend, AddLeaf, Updating, Loaded
<1>4. CASE Collapse \/ InsertConflicts \/ Rise \/ Finish
  BY <1>4 DEF Collapse, InsertConflicts, Rise, Finish
<1>5. CASE InsertRow
  BY <1>5 DEF InsertRow
<1>6. CASE StoreUnavailable \/ Lose \/ Damage
  BY <1>6 DEF StoreUnavailable, Lose, Damage
<1>7. CASE Collect
  BY <1>7 DEF Collect
<1>8. CASE UNCHANGED vars
  BY <1>8 DEF vars
<1> QED
  BY <1>1, <1>2, <1>3, <1>4, <1>5, <1>6, <1>7, <1>8
     DEF Next, Running, Environment, Walk, Update

LEMMA IntactStep == IInv /\ Intact /\ [Next]_vars => Intact'
<1>1. IInv => faults \in Nat
  BY DEF IInv, TypeOK
<1> QED
  BY <1>1, FaultsAreCounted DEF Intact

LEMMA StoreBlamedStep == IInv /\ Intact /\ StoreBlamed /\ [Next]_vars => StoreBlamed'
<1> SUFFICES ASSUME IInv, Intact, StoreBlamed, [Next]_vars,
                    result'.outcome = "store"
             PROVE  faults' > 0
  BY DEF StoreBlamed
<1>0. result' = result => faults' > 0
  BY FaultsAreCounted DEF StoreBlamed, IInv, TypeOK
<1> USE DEF bounds
<1>1. faults \in Nat
  BY DEF IInv, TypeOK
<1>2. CASE LoadFails
  <2>1. Absent(cursor.id) /\ faults' = faults
    BY <1>2 DEF LoadFails, Fail, LoadError
  <2> QED
    BY <1>1, <2>1, NothingAbsent
<1>3. CASE Collapse
  <2>1. CASE UNCHANGED result
    BY <1>0, <2>1
  <2>2. CASE result' = [outcome |-> LoadError(OnlyId), value |-> None]
    <3>1. pc = "collapse" /\ Absent(OnlyId) /\ faults' = faults
      BY <1>3, <2>2 DEF Collapse, LoadError
    <3> QED
      BY <1>1, <3>1, NothingAbsent
  <2>3. CASE result' = [outcome |-> "codec", value |-> None]
    BY <2>3
  <2> QED
    BY <1>3, <2>1, <2>2, <2>3 DEF Collapse, SaveFails, Fail, Insert, StoreCall
<1>4. CASE InsertConflicts
  <2>1. corrupt # {} /\ faults' = faults
    BY <1>4 DEF InsertConflicts
  <2> QED
    BY <1>1, <2>1 DEF Intact
<1>5. CASE StoreUnavailable
  BY <1>1, <1>5 DEF StoreUnavailable
<1>6. CASE Walk
  <2>1. CASE WalkOffLabel
    BY <2>1 DEF WalkOffLabel, Return
  <2>2. CASE WalkEnds
    BY <2>2 DEF WalkEnds, Return
  <2>3. CASE WalkNoChild
    BY <2>3 DEF WalkNoChild, Return
  <2>4. CASE WalkDown
    BY <1>0, <2>4 DEF WalkDown
  <2> QED
    BY <1>6, <2>1, <2>2, <2>3, <2>4 DEF Walk
<1>7. CASE Unchanged \/ Descend \/ Finish
  BY <1>0, <1>7 DEF Unchanged, Descend, Finish, Return
<1>8. CASE SplitLabel \/ Rebind \/ AddLeaf \/ Rise
  BY <1>0, <1>8, SaveEffect DEF SplitLabel, Rebind, AddLeaf, Rise
<1>9. CASE InsertRow
  BY <1>0, <1>9, SaveEffect DEF InsertRow, AfterTail, AfterLeaf
<1>10. CASE Exit \/ Call
  BY <1>0, <1>10 DEF Exit, Call, NoResult, Fail
<1>11. CASE Lose \/ Damage \/ Forget \/ Collect \/ UNCHANGED vars
  BY <1>0, <1>11 DEF Lose, Damage, Forget, Collect, vars
<1> QED
  BY <1>2, <1>3, <1>4, <1>5, <1>6, <1>7, <1>8, <1>9, <1>10, <1>11
     DEF Next, Running, Environment, Update

(* A call ends with an error of the store only after a fault, if the index  *)
(* was opened over a whole store: no update, failed update, forgotten root  *)
(* or collected row ever leaves it looking for a row that is not there.     *)
THEOREM NoFaultNoStoreError ==
    ASSUME \A o \in Opening : o.missing = {} /\ o.corrupt = {}
    PROVE  Spec => []StoreErrorMeansFault
<1>1. Init => Intact /\ StoreBlamed
  BY DEF Init, Intact, StoreBlamed, NoResult
<1>2. IInv /\ Intact /\ StoreBlamed /\ [Next]_vars => (Intact /\ StoreBlamed)'
  BY IntactStep, StoreBlamedStep
<1>3. StoreBlamed => StoreErrorMeansFault
  BY DEF StoreBlamed, StoreErrorMeansFault
<1> QED
  BY <1>1, <1>2, <1>3, Invariance, PTL DEF Spec
-----------------------------------------------------------------------------
(* Induction over the natural numbers, as a fact about a set of them. *)
LEMMA LeastElement ==
    ASSUME NEW T, T \subseteq Nat, T # {}
    PROVE  \E x \in T : \A y \in T : x <= y
<1> DEFINE R == OpToRel(<, Nat)
<1>1. IsWellFoundedOn(R, Nat)
  BY NatLessThanWellFounded
<1>2. \A x, y \in T : y < x => <<y, x>> \in R
  BY DEF OpToRel
<1> HIDE DEF R
<1>3. PICK x \in T : \A y \in T : ~ (<<y, x>> \in R)
  BY <1>1, WFMin
<1>4. \A y \in T : ~(y < x)
  BY <1>2, <1>3
<1> QED
  BY <1>4

(* A set with 0 and every successor holds all natural numbers. *)
LEMMA EveryNumber ==
    ASSUME NEW S, 0 \in S, \A d \in Nat : d \in S => d + 1 \in S
    PROVE  \A d \in Nat : d \in S
<1> SUFFICES ASSUME NEW d0 \in Nat, d0 \notin S PROVE FALSE
  OBVIOUS
<1> DEFINE T == {d \in Nat : d \notin S}
<1>1. T \subseteq Nat /\ T # {}
  OBVIOUS
<1>2. PICK x \in T : \A y \in T : x <= y
  <2> HIDE DEF T
  <2> QED
    BY <1>1, LeastElement
<1>3. x \in Nat /\ x # 0
  OBVIOUS
<1>4. x - 1 \in Nat /\ x - 1 \notin T /\ (x - 1) + 1 = x
  BY <1>2, <1>3
<1> QED
  BY <1>2, <1>4

-----------------------------------------------------------------------------
(* Going down a trie, one place below the other. *)
Descent(w, d, p) == w[0] = p /\ \A k \in 1..d : w[k] \in Below(w[k - 1])

Leads(p, d, x) == \E w : Descent(w, d, p) /\ w[d] = x
Under(p, x)    == \E d \in Nat : Leads(p, d, x)

(* Paths of no step, of a first step and more, of more and a last step. *)
LEMMA LeadsZero ==
    ASSUME NEW p, NEW x
    PROVE  Leads(p, 0, x) <=> x = p
<1>1. ASSUME x = p PROVE Leads(p, 0, x)
  <2> DEFINE w == [k \in 0..0 |-> p]
  <2>1. Descent(w, 0, p) /\ w[0] = x
    BY <1>1 DEF Descent
  <2> QED
    BY <2>1 DEF Leads
<1>2. ASSUME Leads(p, 0, x) PROVE x = p
  BY <1>2 DEF Leads, Descent
<1> QED
  BY <1>1, <1>2

(* A descent begins with a step below the place it starts from ... *)
LEMMA LeadsFirst ==
    ASSUME NEW p, NEW d \in Nat, NEW x
    PROVE  Leads(p, d + 1, x) <=> \E y \in Below(p) : Leads(y, d, x)
<1>1. ASSUME Leads(p, d + 1, x) PROVE \E y \in Below(p) : Leads(y, d, x)
  <2>1. PICK w : Descent(w, d + 1, p) /\ w[d + 1] = x
    BY <1>1 DEF Leads
  <2> DEFINE v == [k \in 0..d |-> w[k + 1]]
  <2>2. w[0] = p /\ \A k \in 1..d + 1 : w[k] \in Below(w[k - 1])
    BY <2>1 DEF Descent
  <2>3. v[0] = w[1] /\ v[d] = x
    BY <2>1
  <2>4. w[1] \in Below(p)
    BY <2>2
  <2>5. \A k \in 1..d : v[k] \in Below(v[k - 1])
    <3> TAKE k \in 1..d
    <3>1. v[k] = w[k + 1] /\ v[k - 1] = w[(k + 1) - 1]
      OBVIOUS
    <3>2. w[k + 1] \in Below(w[(k + 1) - 1])
      BY <2>2
    <3> QED
      BY <3>1, <3>2
  <2> HIDE DEF v
  <2>6. Leads(w[1], d, x)
    BY <2>3, <2>5 DEF Leads, Descent
  <2> QED
    BY <2>4, <2>6
<1>2. ASSUME NEW y \in Below(p), Leads(y, d, x) PROVE Leads(p, d + 1, x)
  <2>1. PICK w : Descent(w, d, y) /\ w[d] = x
    BY <1>2 DEF Leads
  <2>2. w[0] = y /\ \A k \in 1..d : w[k] \in Below(w[k - 1])
    BY <2>1 DEF Descent
  <2> DEFINE v == [k \in 0..d + 1 |-> IF k = 0 THEN p ELSE w[k - 1]]
  <2>3. v[0] = p /\ v[d + 1] = x
    BY <2>1
  <2>4. \A k \in 1..d + 1 : v[k] \in Below(v[k - 1])
    <3> TAKE k \in 1..d + 1
    <3>1. CASE k = 1
      <4>1. v[k] = y /\ v[k - 1] = p
        BY <3>1, <2>2
      <4> QED
        BY <4>1, <1>2
    <3>2. CASE k # 1
      <4>1. k - 1 \in 1..d /\ v[k] = w[k - 1] /\ v[k - 1] = w[(k - 1) - 1]
        BY <3>2
      <4>2. w[k - 1] \in Below(w[(k - 1) - 1])
        BY <4>1, <2>2
      <4> QED
        BY <4>1, <4>2
    <3> QED
      BY <3>1, <3>2
  <2> HIDE DEF v
  <2> QED
    BY <2>3, <2>4 DEF Leads, Descent
<1> QED
  BY <1>1, <1>2

(* ... and ends with a step below the last but one. *)
LEMMA LeadsLast ==
    ASSUME NEW p, NEW d \in Nat, NEW x
    PROVE  Leads(p, d + 1, x) <=> \E y : Leads(p, d, y) /\ x \in Below(y)
<1>1. ASSUME Leads(p, d + 1, x) PROVE \E y : Leads(p, d, y) /\ x \in Below(y)
  <2>1. PICK w : Descent(w, d + 1, p) /\ w[d + 1] = x
    BY <1>1 DEF Leads
  <2>2. w[0] = p /\ \A k \in 1..d + 1 : w[k] \in Below(w[k - 1])
    BY <2>1 DEF Descent
  <2>3. w[d + 1] \in Below(w[(d + 1) - 1]) /\ (d + 1) - 1 = d
    BY <2>2
  <2>4. Descent(w, d, p)
    <3>1. \A k \in 1..d : k \in 1..d + 1
      OBVIOUS
    <3> QED
      BY <2>2, <3>1 DEF Descent
  <2>5. Leads(p, d, w[d])
    BY <2>4 DEF Leads
  <2> QED
    BY <2>1, <2>3, <2>5
<1>2. ASSUME NEW y, Leads(p, d, y), x \in Below(y) PROVE Leads(p, d + 1, x)
  <2>1. PICK w : Descent(w, d, p) /\ w[d] = y
    BY <1>2 DEF Leads
  <2>2. w[0] = p /\ \A k \in 1..d : w[k] \in Below(w[k - 1])
    BY <2>1 DEF Descent
  <2> DEFINE v == [k \in 0..d + 1 |-> IF k = d + 1 THEN x ELSE w[k]]
  <2>3. v[0] = p /\ v[d + 1] = x
    BY <2>2
  <2>4. \A k \in 1..d + 1 : v[k] \in Below(v[k - 1])
    <3> TAKE k \in 1..d + 1
    <3>1. CASE k = d + 1
      <4>1. v[k] = x /\ v[k - 1] = y
        BY <3>1, <2>1
      <4> QED
        BY <4>1, <1>2
    <3>2. CASE k # d + 1
      <4>1. k \in 1..d /\ v[k] = w[k] /\ v[k - 1] = w[k - 1]
        BY <3>2
      <4> QED
        BY <4>1, <2>2
    <3> QED
      BY <3>1, <3>2
  <2> HIDE DEF v
  <2> QED
    BY <2>3, <2>4 DEF Leads, Descent
<1> QED
  BY <1>1, <1>2

(* So what is under a place is the place itself or under a place below it. *)
LEMMA UnderFirst ==
    ASSUME NEW p, NEW x
    PROVE  Under(p, x) <=> x = p \/ \E y \in Below(p) : Under(y, x)
<1>1. ASSUME Under(p, x) PROVE x = p \/ \E y \in Below(p) : Under(y, x)
  <2>1. PICK d \in Nat : Leads(p, d, x)
    BY <1>1 DEF Under
  <2>2. CASE d = 0
    BY <2>1, <2>2, LeadsZero
  <2>3. CASE d # 0
    <3>1. d - 1 \in Nat /\ Leads(p, (d - 1) + 1, x)
      BY <2>1, <2>3
    <3>2. PICK y \in Below(p) : Leads(y, d - 1, x)
      BY <3>1, LeadsFirst
    <3> QED
      BY <3>1, <3>2 DEF Under
  <2> QED
    BY <2>2, <2>3
<1>2. Under(p, p)
  BY LeadsZero DEF Under
<1>3. ASSUME NEW y \in Below(p), Under(y, x) PROVE Under(p, x)
  <2>1. PICK d \in Nat : Leads(y, d, x)
    BY <1>3 DEF Under
  <2>2. Leads(p, d + 1, x) /\ d + 1 \in Nat
    BY <2>1, LeadsFirst
  <2> QED
    BY <2>2 DEF Under
<1> QED
  BY <1>1, <1>2, <1>3

(* What is below a place under p is under p. *)
LEMMA UnderLast ==
    ASSUME NEW p, NEW x, Under(p, x), NEW y \in Below(x)
    PROVE  Under(p, y)
<1>1. PICK d \in Nat : Leads(p, d, x)
  BY DEF Under
<1>2. Leads(p, d + 1, y) /\ d + 1 \in Nat
  BY <1>1, LeadsLast
<1> QED
  BY <1>2 DEF Under
-----------------------------------------------------------------------------
(* Byte strings that begin alike. *)
Begins(a, b) == Len(a) <= Len(b) /\ \A i \in 1..Len(a) : a[i] = b[i]

(* The bytes of a concatenation. *)
LEMMA Joined ==
    ASSUME NEW a \in Seq(Byte), NEW b \in Seq(Byte)
    PROVE  /\ a \o b \in Seq(Byte) /\ Len(a \o b) = Len(a) + Len(b)
           /\ Begins(a, a \o b)
           /\ \A i \in 1..Len(b) : (a \o b)[Len(a) + i] = b[i]
  BY DEF Begins

LEMMA NoLonger == ASSUME NEW a \in Seq(Byte) PROVE ~(Len(a) > Len(a)) /\ Len(a) \in Nat
  OBVIOUS

LEMMA BeginsSelf == ASSUME NEW a \in Seq(Byte) PROVE Begins(a, a)
  BY DEF Begins

LEMMA FirstBegins ==
    ASSUME NEW a, NEW b, Begins(a, b), Len(a) \in Nat, Len(a) >= 1
    PROVE  b[1] = a[1]
<1>1. 1 \in 1..Len(a)
  OBVIOUS
<1> QED
  BY <1>1 DEF Begins

LEMMA SumBelow ==
    ASSUME NEW a \in Nat, NEW b \in Nat, NEW m \in Nat, a + b <= m
    PROVE  b <= m /\ \A c \in Nat : c <= b => a + c <= m
  OBVIOUS

LEMMA BeginsNothing == ASSUME NEW a \in Seq(Byte) PROVE Begins(<< >>, a)
  BY DEF Begins

(* To begin alike is transitive, and antisymmetric by length. *)
LEMMA BeginsBeyond ==
    ASSUME NEW a \in Seq(Byte), NEW b \in Seq(Byte), NEW c \in Seq(Byte),
           Begins(a, b), Begins(b, c)
    PROVE  Begins(a, c)
  BY DEF Begins

LEMMA BeginsWhole ==
    ASSUME NEW a \in Seq(Byte), NEW b \in Seq(Byte),
           Begins(a, b), Len(b) <= Len(a)
    PROVE  a = b
<1>1. Len(a) = Len(b) /\ \A i \in 1..Len(a) : a[i] = b[i]
  BY DEF Begins
<1> QED
  BY <1>1

LEMMA BeginsBefore ==
    ASSUME NEW a \in Seq(Byte), NEW n \in 0..Len(a)
    PROVE  /\ Begins(Before(a, n), a) /\ Before(a, n) \in Seq(Byte)
           /\ Len(Before(a, n)) = n
           /\ \A i \in 1..n : Before(a, n)[i] = a[i]
<1>1. Before(a, n) \in Seq(Byte) /\ Len(Before(a, n)) = n
  BY Cuts
<1>2. \A i \in 1..n : Before(a, n)[i] = a[i]
  BY SubSeqProperties DEF Before
<1> QED
  BY <1>1, <1>2 DEF Begins

(* IsPrefixOf, which cuts, says the same as Begins, which compares. *)
LEMMA PrefixBegins ==
    ASSUME NEW a \in Seq(Byte), NEW b \in Seq(Byte)
    PROVE  IsPrefixOf(a, b) <=> Begins(a, b)
<1>1. ASSUME IsPrefixOf(a, b) PROVE Begins(a, b)
  BY <1>1, BeginsBefore DEF IsPrefixOf
<1>2. ASSUME Begins(a, b) PROVE IsPrefixOf(a, b)
  <2>1. Len(a) \in 0..Len(b)
    BY <1>2 DEF Begins
  <2> DEFINE c == Before(b, Len(a))
  <2>2. c \in Seq(Byte) /\ Len(c) = Len(a) /\ \A i \in 1..Len(a) : c[i] = b[i]
    BY <2>1, BeginsBefore
  <2> HIDE DEF c
  <2>3. Begins(a, c)
    BY <1>2, <2>2 DEF Begins
  <2>4. a = c
    BY <2>2, <2>3, BeginsWhole
  <2> QED
    BY <2>1, <2>4 DEF IsPrefixOf, c
<1> QED
  BY <1>1, <1>2

-----------------------------------------------------------------------------
(* Rows that refer to one another by first bytes, and places of such rows. *)
IsTree(S) == \A id \in S : /\ IsRow(id) /\ Refs(NodeOf(id)) \subseteq S
                           /\ WellLinked(NodeOf(id))

IsPlace(S, p) == p = <<p[1], p[2]>> /\ p[1] \in Seq(Byte) /\ p[2] \in S

LabelOf(p) == NodeOf(p[2]).label

(* The bytes that lead through a place. *)
LEMMA FullKeyFacts ==
    ASSUME NEW S, IsTree(S), NEW p, IsPlace(S, p)
    PROVE  /\ LabelOf(p) \in Seq(Byte) /\ IsNode(NodeOf(p[2]))
           /\ FullKey(p) \in Seq(Byte)
           /\ Len(FullKey(p)) = Len(p[1]) + Len(LabelOf(p))
           /\ Begins(p[1], FullKey(p))
           /\ \A i \in 1..Len(LabelOf(p)) : FullKey(p)[Len(p[1]) + i] = LabelOf(p)[i]
<1>1. IsNode(NodeOf(p[2])) /\ p[1] \in Seq(Byte)
  BY DEF IsTree, IsRow, IsPlace
<1>2. LabelOf(p) \in Seq(Byte)
  BY <1>1 DEF IsNode, LabelOf
<1>3. FullKey(p) = p[1] \o LabelOf(p)
  BY DEF FullKey, LabelOf
<1> QED
  BY <1>1, <1>2, <1>3, Joined

ChildPlace(p, e) == <<FullKey(p), NodeOf(p[2]).children[e]>>

(* A child is a place that begins with the edge it hangs from. *)
LEMMA BelowFacts ==
    ASSUME NEW S, IsTree(S), NEW p, IsPlace(S, p), NEW e \in Edges(NodeOf(p[2]))
    PROVE  LET y == ChildPlace(p, e) IN
           /\ IsPlace(S, y) /\ y[1] = FullKey(p) /\ y[2] = NodeOf(p[2]).children[e]
           /\ LabelOf(y) # << >> /\ LabelOf(y)[1] = e
           /\ e \in Byte
<1> DEFINE y == ChildPlace(p, e)
<1>1. y[1] = FullKey(p) /\ y[2] = NodeOf(p[2]).children[e] /\ y = <<y[1], y[2]>>
  BY DEF ChildPlace
<1>2. p[2] \in S /\ IsRow(p[2]) /\ Refs(NodeOf(p[2])) \subseteq S
      /\ WellLinked(NodeOf(p[2]))
  BY DEF IsTree, IsPlace
<1>3. y[2] \in S
  BY <1>1, <1>2 DEF Refs
<1>4. LabelOf(y) # << >> /\ LabelOf(y)[1] = e
  BY <1>1, <1>2 DEF WellLinked, LabelOf
<1>5. e \in Byte
  BY <1>2 DEF IsRow, IsNode
<1>6. FullKey(p) \in Seq(Byte)
  BY FullKeyFacts
<1> HIDE DEF y
<1>7. IsPlace(S, y)
  BY <1>1, <1>3, <1>6 DEF IsPlace
<1>8. /\ IsPlace(S, y) /\ y[1] = FullKey(p) /\ y[2] = NodeOf(p[2]).children[e]
      /\ LabelOf(y) # << >> /\ LabelOf(y)[1] = e
      /\ e \in Byte
  BY <1>1, <1>4, <1>5, <1>7
<1> QED
  BY <1>8 DEF y

LEMMA BelowIsChild ==
    ASSUME NEW p, NEW y
    PROVE  y \in Below(p) <=> \E e \in Edges(NodeOf(p[2])) : y = ChildPlace(p, e)
  BY DEF Below, ChildPlace

(* A place below another has longer bytes that begin with its full key. *)
LEMMA BelowGrows ==
    ASSUME NEW S, IsTree(S), NEW p, IsPlace(S, p), NEW y \in Below(p)
    PROVE  /\ IsPlace(S, y) /\ y[1] = FullKey(p) /\ LabelOf(y) # << >>
           /\ Len(FullKey(y)) >= Len(y[1]) + 1 /\ Begins(y[1], FullKey(y))
           /\ FullKey(y) \in Seq(Byte) /\ LabelOf(y) \in Seq(Byte)
<1>1. PICK e \in Edges(NodeOf(p[2])) : y = ChildPlace(p, e)
  BY BelowIsChild
<1>2. IsPlace(S, y) /\ y[1] = FullKey(p) /\ LabelOf(y) # << >>
  BY <1>1, BelowFacts
<1>3. /\ LabelOf(y) \in Seq(Byte) /\ FullKey(y) \in Seq(Byte)
      /\ Len(FullKey(y)) = Len(y[1]) + Len(LabelOf(y))
      /\ Begins(y[1], FullKey(y)) /\ y[1] \in Seq(Byte)
  BY <1>2, FullKeyFacts DEF IsPlace
<1>4. Len(LabelOf(y)) >= 1
  BY <1>2, <1>3
<1>5. Len(LabelOf(y)) \in Nat /\ Len(y[1]) \in Nat
  BY <1>3
<1> QED
  BY <1>2, <1>3, <1>4, <1>5

Deeper(S, p, d, x) ==
    /\ IsPlace(S, x) /\ LabelOf(x) # << >>
    /\ Begins(FullKey(p), x[1]) /\ Len(x[1]) >= Len(FullKey(p)) + d

(* Every step down makes the bytes longer. *)
LEMMA LeadsDeeper ==
    ASSUME NEW S, IsTree(S), NEW p, IsPlace(S, p)
    PROVE  \A d \in Nat : \A x : Leads(p, d + 1, x) => Deeper(S, p, d, x)
<1> DEFINE T == {d \in Nat : \A x : Leads(p, d + 1, x) => Deeper(S, p, d, x)}
<1>0. FullKey(p) \in Seq(Byte)
  BY FullKeyFacts
<1>1. 0 \in T
  <2> SUFFICES ASSUME NEW x, Leads(p, 0 + 1, x) PROVE Deeper(S, p, 0, x)
    OBVIOUS
  <2>1. PICK y : Leads(p, 0, y) /\ x \in Below(y)
    BY LeadsLast
  <2>2. x \in Below(p)
    BY <2>1, LeadsZero
  <2> QED
    BY <2>2, <1>0, BelowGrows, BeginsSelf DEF Deeper
<1>2. \A d \in Nat : d \in T => d + 1 \in T
  <2> SUFFICES ASSUME NEW d \in Nat, d \in T, NEW x, Leads(p, (d + 1) + 1, x)
               PROVE  Deeper(S, p, d + 1, x)
    OBVIOUS
  <2>1. PICK y : Leads(p, d + 1, y) /\ x \in Below(y)
    BY LeadsLast
  <2>2. IsPlace(S, y) /\ LabelOf(y) # << >> /\ Begins(FullKey(p), y[1])
        /\ Len(y[1]) >= Len(FullKey(p)) + d
    BY <2>1 DEF Deeper
  <2>3. IsPlace(S, x) /\ x[1] = FullKey(y) /\ LabelOf(x) # << >>
    BY <2>1, <2>2, BelowGrows
  <2>4. /\ LabelOf(y) \in Seq(Byte) /\ FullKey(y) \in Seq(Byte)
        /\ Len(FullKey(y)) = Len(y[1]) + Len(LabelOf(y))
        /\ Begins(y[1], FullKey(y)) /\ y[1] \in Seq(Byte)
    BY <2>2, FullKeyFacts DEF IsPlace
  <2>5. Len(LabelOf(y)) >= 1
    BY <2>2, <2>4
  <2>6. Begins(FullKey(p), x[1])
    BY <1>0, <2>2, <2>3, <2>4, BeginsBeyond
  <2>7. Len(x[1]) >= Len(FullKey(p)) + (d + 1)
    <3>1. Len(FullKey(p)) \in Nat /\ Len(y[1]) \in Nat /\ Len(LabelOf(y)) \in Nat
      BY <1>0, <2>4
    <3> QED
      BY <2>2, <2>3, <2>4, <2>5, <3>1
  <2> QED
    BY <2>3, <2>6, <2>7 DEF Deeper
<1> HIDE DEF T
<1>3. \A d \in Nat : d \in T
  BY <1>1, <1>2, EveryNumber
<1> QED
  BY <1>3 DEF T

(* All that is under a place is a place, after at least its bytes. *)
LEMMA UnderPlaces ==
    ASSUME NEW S, IsTree(S), NEW p, IsPlace(S, p), NEW x, Under(p, x)
    PROVE  /\ IsPlace(S, x) /\ Begins(p[1], x[1])
           /\ x = p \/ (Begins(FullKey(p), x[1]) /\ LabelOf(x) # << >>)
<1>1. PICK d \in Nat : Leads(p, d, x)
  BY DEF Under
<1>2. p[1] \in Seq(Byte) /\ FullKey(p) \in Seq(Byte) /\ Begins(p[1], FullKey(p))
  BY FullKeyFacts DEF IsPlace
<1>3. CASE d = 0
  BY <1>1, <1>2, <1>3, LeadsZero, BeginsSelf
<1>4. CASE d # 0
  <2>1. d - 1 \in Nat /\ Leads(p, (d - 1) + 1, x)
    BY <1>1, <1>4
  <2>2. Deeper(S, p, d - 1, x)
    BY <2>1, LeadsDeeper
  <2> QED
    BY <1>2, <2>2, BeginsBeyond DEF Deeper, IsPlace
<1> QED
  BY <1>3, <1>4
-----------------------------------------------------------------------------
(* What is bound under a place: a key and its binding. *)
Own(p, k, b)   == b # None /\ FullKey(p) = k /\ NodeOf(p[2]).binding = b
Bound(p, k, b) == \E x : Under(p, x) /\ Own(x, k, b)

(* Bound here, or bound below one of the edges. *)
LEMMA BoundUnfold ==
    ASSUME NEW p, NEW k, NEW b
    PROVE  Bound(p, k, b) <=>
             \/ Own(p, k, b)
             \/ \E e \in Edges(NodeOf(p[2])) : Bound(ChildPlace(p, e), k, b)
<1>1. ASSUME Bound(p, k, b)
      PROVE  \/ Own(p, k, b)
             \/ \E e \in Edges(NodeOf(p[2])) : Bound(ChildPlace(p, e), k, b)
  <2>1. PICK x : Under(p, x) /\ Own(x, k, b)
    BY <1>1 DEF Bound
  <2>2. CASE x = p
    BY <2>1, <2>2
  <2>3. CASE x # p
    <3>1. PICK y \in Below(p) : Under(y, x)
      BY <2>1, <2>3, UnderFirst
    <3>2. PICK e \in Edges(NodeOf(p[2])) : y = ChildPlace(p, e)
      BY BelowIsChild
    <3>3. Bound(y, k, b)
      BY <2>1, <3>1 DEF Bound
    <3> QED
      BY <3>2, <3>3
  <2> QED
    BY <2>2, <2>3
<1>2. ASSUME Own(p, k, b) PROVE Bound(p, k, b)
  BY <1>2, UnderFirst DEF Bound
<1>3. ASSUME NEW e \in Edges(NodeOf(p[2])), Bound(ChildPlace(p, e), k, b)
      PROVE  Bound(p, k, b)
  <2>1. PICK x : Under(ChildPlace(p, e), x) /\ Own(x, k, b)
    BY <1>3 DEF Bound
  <2>2. ChildPlace(p, e) \in Below(p)
    BY BelowIsChild
  <2>3. Under(p, x)
    BY <2>1, <2>2, UnderFirst
  <2> QED
    BY <2>1, <2>3 DEF Bound
<1> QED
  BY <1>1, <1>2, <1>3

(* Every key bound below a place begins with the bytes of the place. *)
LEMMA BoundBegins ==
    ASSUME NEW S, IsTree(S), NEW p, IsPlace(S, p), NEW k, NEW b, Bound(p, k, b)
    PROVE  k \in Seq(Byte) /\ Begins(FullKey(p), k) /\ b \in Binding
<1>1. PICK x : Under(p, x) /\ Own(x, k, b)
  BY DEF Bound
<1>2. /\ IsPlace(S, x)
      /\ x = p \/ (Begins(FullKey(p), x[1]) /\ LabelOf(x) # << >>)
  BY <1>1, UnderPlaces
<1>3. /\ FullKey(x) \in Seq(Byte) /\ IsNode(NodeOf(x[2]))
      /\ Begins(x[1], FullKey(x)) /\ x[1] \in Seq(Byte)
  BY <1>2, FullKeyFacts DEF IsPlace
<1>4. FullKey(p) \in Seq(Byte)
  BY FullKeyFacts
<1>5. Begins(FullKey(p), FullKey(x))
  BY <1>2, <1>3, <1>4, BeginsBeyond, BeginsSelf
<1>6. FullKey(x) = k /\ b # None /\ NodeOf(x[2]).binding = b
  BY <1>1 DEF Own
<1> QED
  BY <1>3, <1>5, <1>6 DEF IsNode

(* A key bound below an edge is longer and goes on with the edge. *)
LEMMA BoundChild ==
    ASSUME NEW S, IsTree(S), NEW p, IsPlace(S, p), NEW e \in Edges(NodeOf(p[2])),
           NEW k, NEW b, Bound(ChildPlace(p, e), k, b)
    PROVE  /\ k \in Seq(Byte) /\ Begins(FullKey(p), k)
           /\ Len(k) > Len(FullKey(p)) /\ k[Len(FullKey(p)) + 1] = e
<1> DEFINE y == ChildPlace(p, e)
<1>1. IsPlace(S, y) /\ y[1] = FullKey(p) /\ LabelOf(y) # << >> /\ LabelOf(y)[1] = e
  BY BelowFacts
<1>2. Bound(y, k, b)
  OBVIOUS
<1> HIDE DEF y
<1>3. /\ LabelOf(y) \in Seq(Byte) /\ FullKey(y) \in Seq(Byte)
      /\ Len(FullKey(y)) = Len(y[1]) + Len(LabelOf(y))
      /\ Begins(y[1], FullKey(y)) /\ y[1] \in Seq(Byte)
      /\ \A i \in 1..Len(LabelOf(y)) : FullKey(y)[Len(y[1]) + i] = LabelOf(y)[i]
  BY <1>1, FullKeyFacts DEF IsPlace
<1>4. k \in Seq(Byte) /\ Begins(FullKey(y), k)
  BY <1>1, <1>2, BoundBegins
<1>5. Len(LabelOf(y)) \in Nat /\ Len(LabelOf(y)) >= 1 /\ Len(y[1]) \in Nat
  BY <1>1, <1>3
<1>6. FullKey(y)[Len(y[1]) + 1] = e
  BY <1>1, <1>3, <1>5
<1>7. Len(y[1]) + 1 \in 1..Len(FullKey(y))
  BY <1>3, <1>5
<1>8. k[Len(y[1]) + 1] = e /\ Len(k) >= Len(FullKey(y))
  BY <1>4, <1>6, <1>7 DEF Begins
<1>9. Begins(y[1], k)
  BY <1>3, <1>4, BeginsBeyond
<1>10. Len(k) \in Nat /\ Len(k) > Len(y[1])
  BY <1>3, <1>4, <1>5, <1>8
<1> QED
  BY <1>1, <1>4, <1>8, <1>9, <1>10

(* A key that ends at a node is bound there; a longer one below one edge. *)
LEMMA BoundHere ==
    ASSUME NEW S, IsTree(S), NEW p, IsPlace(S, p), NEW b
    PROVE  Bound(p, FullKey(p), b) <=> b # None /\ NodeOf(p[2]).binding = b
<1>1. ASSUME NEW e \in Edges(NodeOf(p[2])) PROVE ~Bound(ChildPlace(p, e), FullKey(p), b)
  <2>1. FullKey(p) \in Seq(Byte)
    BY FullKeyFacts
  <2>2. ~(Len(FullKey(p)) > Len(FullKey(p)))
    BY <2>1
  <2> QED
    BY <2>2, BoundChild
<1> QED
  BY <1>1, BoundUnfold DEF Own

(* A key that goes on is bound below the edge it goes on with. *)
LEMMA BoundDown ==
    ASSUME NEW S, IsTree(S), NEW p, IsPlace(S, p), NEW k, NEW b, k # FullKey(p)
    PROVE  Bound(p, k, b) <=>
             /\ k[Len(FullKey(p)) + 1] \in Edges(NodeOf(p[2]))
             /\ Bound(ChildPlace(p, k[Len(FullKey(p)) + 1]), k, b)
<1>1. ~Own(p, k, b)
  BY DEF Own
<1>2. \A e \in Edges(NodeOf(p[2])) :
        Bound(ChildPlace(p, e), k, b) => e = k[Len(FullKey(p)) + 1]
  BY BoundChild
<1> QED
  BY <1>1, <1>2, BoundUnfold

(* No key has two bindings. *)
LEMMA BoundOnce ==
    ASSUME NEW S, IsTree(S), NEW p, IsPlace(S, p), NEW k, NEW b, NEW c,
           Bound(p, k, b), Bound(p, k, c)
    PROVE  b = c
<1> DEFINE T == {d \in Nat : \A q, x : IsPlace(S, q) /\ Leads(q, d, x) /\ Own(x, k, b)
                                   /\ Bound(q, k, c) => b = c}
<1>1. 0 \in T
  <2> SUFFICES ASSUME NEW q, NEW x, IsPlace(S, q), Leads(q, 0, x), Own(x, k, b),
                      Bound(q, k, c)
               PROVE  b = c
    OBVIOUS
  <2>1. x = q
    BY LeadsZero
  <2>2. FullKey(q) = k /\ NodeOf(q[2]).binding = b
    BY <2>1 DEF Own
  <2> QED
    BY <2>2, BoundHere
<1>2. \A d \in Nat : d \in T => d + 1 \in T
  <2> SUFFICES ASSUME NEW d \in Nat, d \in T, NEW q, NEW x, IsPlace(S, q),
                      Leads(q, d + 1, x), Own(x, k, b), Bound(q, k, c)
               PROVE  b = c
    OBVIOUS
  <2>1. PICK y \in Below(q) : Leads(y, d, x)
    BY LeadsFirst
  <2>2. PICK e \in Edges(NodeOf(q[2])) : y = ChildPlace(q, e)
    BY BelowIsChild
  <2>3. Bound(y, k, b) /\ IsPlace(S, y)
    BY <2>1, <2>2, BelowFacts DEF Bound, Under
  <2>4. Len(k) > Len(FullKey(q)) /\ k[Len(FullKey(q)) + 1] = e
    BY <2>2, <2>3, BoundChild
  <2>5. k # FullKey(q)
    <3>1. FullKey(q) \in Seq(Byte)
      BY FullKeyFacts
    <3>2. ~(Len(FullKey(q)) > Len(FullKey(q)))
      BY <3>1
    <3> QED
      BY <2>4, <3>2
  <2>6. Bound(y, k, c)
    BY <2>2, <2>4, <2>5, BoundDown
  <2> QED
    BY <2>1, <2>3, <2>6
<1> HIDE DEF T
<1>3. \A d \in Nat : d \in T
  BY <1>1, <1>2, EveryNumber
<1>4. PICK x : Under(p, x) /\ Own(x, k, b)
  BY DEF Bound
<1>5. PICK d \in Nat : Leads(p, d, x)
  BY <1>4 DEF Under
<1> QED
  BY <1>3, <1>4, <1>5 DEF T

-----------------------------------------------------------------------------
(* A trie whose nodes make sense where they are, and the rows of it that    *)
(* the key leads to.                                                        *)
SoundAt(p) == \A x : Under(p, x) => PositionOk(x[1], NodeOf(x[2]))

(* A place is sound if it makes sense and its children are sound. *)
LEMMA SoundUnfold ==
    ASSUME NEW p
    PROVE  SoundAt(p) <=> /\ PositionOk(p[1], NodeOf(p[2]))
                          /\ \A e \in Edges(NodeOf(p[2])) : SoundAt(ChildPlace(p, e))
<1>1. ASSUME SoundAt(p), NEW e \in Edges(NodeOf(p[2])) PROVE SoundAt(ChildPlace(p, e))
  <2>1. ChildPlace(p, e) \in Below(p)
    BY BelowIsChild
  <2> QED
    BY <1>1, <2>1, UnderFirst DEF SoundAt
<1>2. ASSUME PositionOk(p[1], NodeOf(p[2])),
             \A e \in Edges(NodeOf(p[2])) : SoundAt(ChildPlace(p, e)),
             NEW x, Under(p, x)
      PROVE  PositionOk(x[1], NodeOf(x[2]))
  <2>1. CASE x = p
    BY <1>2, <2>1
  <2>2. CASE x # p
    <3>1. PICK y \in Below(p) : Under(y, x)
      BY <1>2, <2>2, UnderFirst
    <3>2. PICK e \in Edges(NodeOf(p[2])) : y = ChildPlace(p, e)
      BY BelowIsChild
    <3> QED
      BY <1>2, <3>1, <3>2 DEF SoundAt
  <2> QED
    BY <2>1, <2>2
<1>3. SoundAt(p) => PositionOk(p[1], NodeOf(p[2]))
  BY UnderFirst DEF SoundAt
<1> QED
  BY <1>1, <1>2, <1>3 DEF SoundAt

LEMMA SoundUnder ==
    ASSUME NEW p, SoundAt(p), NEW x, Under(p, x)
    PROVE  SoundAt(x)
<1> DEFINE T == {d \in Nat : \A q : SoundAt(q) /\ Leads(q, d, x) => SoundAt(x)}
<1>1. 0 \in T
  BY LeadsZero
<1>2. \A d \in Nat : d \in T => d + 1 \in T
  <2> SUFFICES ASSUME NEW d \in Nat, d \in T, NEW q, SoundAt(q), Leads(q, d + 1, x)
               PROVE  SoundAt(x)
    OBVIOUS
  <2>1. PICK y \in Below(q) : Leads(y, d, x)
    BY LeadsFirst
  <2>2. PICK e \in Edges(NodeOf(q[2])) : y = ChildPlace(q, e)
    BY BelowIsChild
  <2>3. SoundAt(y)
    BY <2>2, SoundUnfold
  <2> QED
    BY <2>1, <2>3
<1> HIDE DEF T
<1>3. \A d \in Nat : d \in T
  BY <1>1, <1>2, EveryNumber
<1>4. PICK d \in Nat : Leads(p, d, x)
  BY DEF Under
<1> QED
  BY <1>3, <1>4 DEF T

(* The row id is at a place under p that the key leads to. *)
Touched(p, id, key) == \E x : Under(p, x) /\ x[2] = id /\ Begins(x[1], key)

(* The rows a key leads to: the one at hand, and those below an edge. *)
LEMMA TouchedHere ==
    ASSUME NEW p, NEW key, Begins(p[1], key)
    PROVE  Touched(p, p[2], key)
  BY UnderFirst DEF Touched

LEMMA TouchedBelow ==
    ASSUME NEW p, NEW e \in Edges(NodeOf(p[2])), NEW id, NEW key,
           Touched(ChildPlace(p, e), id, key)
    PROVE  Touched(p, id, key)
<1>1. PICK x : Under(ChildPlace(p, e), x) /\ x[2] = id /\ Begins(x[1], key)
  BY DEF Touched
<1>2. ChildPlace(p, e) \in Below(p)
  BY BelowIsChild
<1> QED
  BY <1>1, <1>2, UnderFirst DEF Touched
-----------------------------------------------------------------------------
(* Places counts the levels of a trie; no place a key leads to is deeper. *)
Top(root) == << << >>, root >>

(* Induction up to a bound. *)
LEMMA UpTo ==
    ASSUME NEW S, 0 \in S, NEW n \in Nat, \A j \in 1..n : j - 1 \in S => j \in S
    PROVE  \A j \in 0..n : j \in S
<1> DEFINE T == {j \in Nat : j <= n => j \in S}
<1>1. 0 \in T
  OBVIOUS
<1>2. \A d \in Nat : d \in T => d + 1 \in T
  <2> SUFFICES ASSUME NEW d \in Nat, d \in T, d + 1 <= n PROVE d + 1 \in S
    OBVIOUS
  <2>1. d + 1 \in 1..n /\ (d + 1) - 1 = d
    OBVIOUS
  <2>2. (d + 1) - 1 \in S
    BY <2>1
  <2> QED
    BY <2>1, <2>2
<1> HIDE DEF T
<1>3. \A d \in Nat : d \in T
  BY <1>1, <1>2, EveryNumber
<1>4. \A j \in 0..n : j \in Nat /\ j <= n
  OBVIOUS
<1> QED
  BY <1>3, <1>4 DEF T

(* The levels that Places counts satisfy their recursive equation. *)
LEMMA Levels ==
    ASSUME NEW root
    PROVE  \E at : /\ Places(root) = UNION {at[d] : d \in 0..Depth}
                   /\ at[0] = {Top(root)}
                   /\ \A d \in 1..Depth : at[d] = UNION {Below(p) : p \in at[d - 1]}
<1> DEFINE Level(f, d) == IF d = 0 THEN {<< << >>, root >>}
                        ELSE UNION {Below(p) : p \in f[d - 1]}
           U(f) == f = [d \in 0..Depth |-> Level(f, d)]
           h    == CHOOSE f : U(f)
           S    == {j \in Nat : \E f : \A d \in 0..j : f[d] = Level(f, d)}
<1> HIDE DEF Level
<1>0. Depth \in Nat
  BY PathMaxAssumption DEF Depth
<1>1. \A j \in 0..Depth : j \in S
  <2>1. 0 \in S
    <3> DEFINE f == [d \in 0..0 |-> {<< << >>, root >>}]
    <3>1. \A d \in 0..0 : f[d] = Level(f, d)
      BY DEF Level
    <3> QED
      BY <3>1
  <2>2. \A j \in 1..Depth : j - 1 \in S => j \in S
    <3> SUFFICES ASSUME NEW j \in 1..Depth, j - 1 \in S PROVE j \in S
      OBVIOUS
    <3>0. j \in Nat
      BY <1>0
    <3>1. PICK g : \A d \in 0..j - 1 : g[d] = Level(g, d)
      OBVIOUS
    <3> DEFINE f == [d \in 0..j |-> IF d < j THEN g[d] ELSE Level(g, j)]
    <3>2. ASSUME NEW d \in 0..j, d < j PROVE f[d] = Level(f, d)
      <4>1. f[d] = Level(g, d)
        BY <3>0, <3>1, <3>2
      <4>2. d # 0 => f[d - 1] = g[d - 1]
        BY <3>0, <3>2
      <4> HIDE DEF f
      <4> QED
        BY <4>1, <4>2 DEF Level
    <3>3. f[j] = Level(f, j)
      <4>1. f[j] = Level(g, j)
        BY <3>0
      <4>2. f[j - 1] = g[j - 1]
        BY <3>0
      <4> HIDE DEF f
      <4> QED
        BY <4>1, <4>2 DEF Level
    <3> HIDE DEF f
    <3>4. \A d \in 0..j : f[d] = Level(f, d)
      BY <3>0, <3>2, <3>3
    <3> QED
      BY <3>0, <3>4
  <2> HIDE DEF S
  <2> QED
    BY <1>0, <2>1, <2>2, UpTo
<1>2. U(h)
  <2>1. PICK g : \A d \in 0..Depth : g[d] = Level(g, d)
    <3>1. Depth \in S
      BY <1>0, <1>1
    <3> QED
      BY <3>1
  <2> DEFINE f == [d \in 0..Depth |-> g[d]]
  <2>2. ASSUME NEW d \in 0..Depth PROVE f[d] = Level(f, d)
    <3>1. f[d] = Level(g, d)
      BY <2>1
    <3>2. d # 0 => f[d - 1] = g[d - 1]
      BY <1>0
    <3> HIDE DEF f
    <3> QED
      BY <3>1, <3>2 DEF Level
  <2>3. f = [d \in 0..Depth |-> Level(f, d)]
    BY <2>2
  <2> HIDE DEF f
  <2> QED
    BY <2>3
<1>3. Places(root) = UNION {h[d] : d \in 0..Depth}
  BY DEF Places, Level
<1> HIDE DEF h
<1>4. \A d \in 0..Depth : h[d] = Level(h, d)
  BY <1>2
<1>5. h[0] = {Top(root)}
  <2>1. h[0] = Level(h, 0)
    BY <1>0, <1>4
  <2> QED
    BY <2>1 DEF Level, Top
<1>6. ASSUME NEW d \in 1..Depth
      PROVE  h[d] = UNION {Below(p) : p \in h[d - 1]}
  <2>1. d \in 0..Depth /\ d # 0
    BY <1>0
  <2>2. h[d] = Level(h, d)
    BY <1>4, <2>1
  <2> QED
    BY <2>1, <2>2 DEF Level
<1> QED
  BY <1>3, <1>5, <1>6

(* The places of a trie are those some path of at most Depth leads to. *)
LEMMA PlacesLead ==
    ASSUME NEW root, NEW x
    PROVE  x \in Places(root) <=> \E d \in 0..Depth : Leads(Top(root), d, x)
<1>0. Depth \in Nat
  BY PathMaxAssumption DEF Depth
<1>1. PICK at : /\ Places(root) = UNION {at[d] : d \in 0..Depth}
                /\ at[0] = {Top(root)}
                /\ \A d \in 1..Depth : at[d] = UNION {Below(p) : p \in at[d - 1]}
  BY Levels
<1> DEFINE S == {d \in Nat : \A y : y \in at[d] <=> Leads(Top(root), d, y)}
<1>2. 0 \in S
  BY <1>1, LeadsZero
<1>3. \A d \in 1..Depth : d - 1 \in S => d \in S
  <2> SUFFICES ASSUME NEW d \in 1..Depth, d - 1 \in S PROVE d \in S
    OBVIOUS
  <2>1. d \in Nat /\ d - 1 \in Nat /\ (d - 1) + 1 = d
    BY <1>0
  <2>2. \A y : y \in at[d - 1] <=> Leads(Top(root), d - 1, y)
    OBVIOUS
  <2>3. \A y : Leads(Top(root), d, y) <=> \E z : Leads(Top(root), d - 1, z) /\ y \in Below(z)
    BY <2>1, LeadsLast
  <2>4. at[d] = UNION {Below(p) : p \in at[d - 1]}
    BY <1>1
  <2>5. \A y : y \in at[d] <=> Leads(Top(root), d, y)
    BY <2>2, <2>3, <2>4
  <2> QED
    BY <2>1, <2>5
<1> HIDE DEF S
<1>4. \A d \in 0..Depth : d \in S
  BY <1>0, <1>2, <1>3, UpTo
<1>5. \A d \in 0..Depth : x \in at[d] <=> Leads(Top(root), d, x)
  BY <1>4 DEF S
<1> QED
  BY <1>1, <1>5

LEMMA PlacesUnder ==
    ASSUME NEW root, NEW x \in Places(root)
    PROVE  Under(Top(root), x)
<1>1. PICK d \in 0..Depth : Leads(Top(root), d, x)
  BY PlacesLead
<1>2. d \in Nat
  BY PathMaxAssumption DEF Depth
<1> QED
  BY <1>1, <1>2 DEF Under

LEMMA TopIsPlace ==
    ASSUME NEW S, NEW root \in S
    PROVE  IsPlace(S, Top(root)) /\ Top(root)[1] = << >> /\ Top(root)[2] = root
  BY DEF IsPlace, Top

(* No place after at most PathMaxBytes bytes is deeper than Depth. *)
LEMMA UnderInPlaces ==
    ASSUME NEW S, IsTree(S), NEW root \in S, NEW x, Under(Top(root), x),
           Len(x[1]) <= PathMaxBytes
    PROVE  x \in Places(root)
<1>1. PICK d \in Nat : Leads(Top(root), d, x)
  BY DEF Under
<1>2. d <= Depth
  <2>1. CASE d = 0
    BY <2>1, PathMaxAssumption DEF Depth
  <2>2. CASE d # 0
    <3>1. d - 1 \in Nat /\ Leads(Top(root), (d - 1) + 1, x)
      BY <1>1, <2>2
    <3>2. Deeper(S, Top(root), d - 1, x)
      BY <3>1, LeadsDeeper, TopIsPlace
    <3>3. FullKey(Top(root)) \in Seq(Byte) /\ Len(x[1]) >= Len(FullKey(Top(root))) + (d - 1)
          /\ x[1] \in Seq(Byte)
      BY <3>2, FullKeyFacts, TopIsPlace DEF Deeper, IsPlace
    <3>4. Len(FullKey(Top(root))) \in Nat /\ Len(x[1]) \in Nat /\ PathMaxBytes \in Nat
      BY <3>3, PathMaxAssumption
    <3> QED
      BY <3>3, <3>4 DEF Depth
  <2> QED
    BY <2>1, <2>2
<1>3. d \in 0..Depth
  BY <1>2, PathMaxAssumption DEF Depth
<1> QED
  BY <1>1, <1>3, PlacesLead

(* Sound, which looks at Places, says the same as SoundAt. *)
LEMMA SoundThroughout ==
    ASSUME NEW S, IsTree(S), NEW root \in S
    PROVE  Sound(root) <=> SoundAt(Top(root))
<1>1. ASSUME SoundAt(Top(root)) PROVE Sound(root)
  BY <1>1, PlacesUnder DEF Sound, SoundAt
<1>2. ASSUME Sound(root), NEW x, Under(Top(root), x)
      PROVE  PositionOk(x[1], NodeOf(x[2]))
  <2> DEFINE T == {d \in Nat : \A y : Leads(Top(root), d, y) => y \in Places(root)}
  <2>1. 0 \in T
    <3>1. 0 \in 0..Depth
      BY PathMaxAssumption DEF Depth
    <3> QED
      BY <3>1, PlacesLead
  <2>2. \A d \in Nat : d \in T => d + 1 \in T
    <3> SUFFICES ASSUME NEW d \in Nat, d \in T, NEW y, Leads(Top(root), d + 1, y)
                 PROVE  y \in Places(root)
      OBVIOUS
    <3>1. PICK z : Leads(Top(root), d, z) /\ y \in Below(z)
      BY LeadsLast
    <3>2. Under(Top(root), z) /\ z \in Places(root)
      BY <3>1 DEF Under
    <3>3. IsPlace(S, z)
      BY <3>2, UnderPlaces, TopIsPlace
    <3>4. Joinable(z[1], NodeOf(z[2]))
      BY <1>2, <3>2 DEF Sound, PositionOk
    <3>5. y[1] = FullKey(z)
      BY <3>1, <3>3, BelowGrows
    <3>6. Len(y[1]) <= PathMaxBytes
      BY <3>3, <3>4, <3>5, FullKeyFacts DEF Joinable, LabelOf
    <3>7. Under(Top(root), y)
      BY <3>1, <3>2, UnderLast
    <3> QED
      BY <3>6, <3>7, UnderInPlaces
  <2> HIDE DEF T
  <2>3. \A d \in Nat : d \in T
    BY <2>1, <2>2, EveryNumber
  <2>4. PICK d \in Nat : Leads(Top(root), d, x)
    BY <1>2 DEF Under
  <2>5. x \in Places(root)
    BY <2>3, <2>4 DEF T
  <2> QED
    BY <1>2, <2>5 DEF Sound
<1> QED
  BY <1>1, <1>2 DEF SoundAt

-----------------------------------------------------------------------------
(* Keys: encode_key and decode_key undo one another on the paths and keys   *)
(* they accept.                                                             *)
LEMMA GreatestElement ==
    ASSUME NEW n \in Nat, NEW T, T \subseteq 0..n, T # {}
    PROVE  \E x \in T : \A y \in T : y <= x
<1> DEFINE U == {m \in 0..n : n - m \in T}
<1>1. U \subseteq Nat /\ U # {}
  <2>1. PICK y \in T : TRUE
    OBVIOUS
  <2>2. y \in Nat /\ y <= n
    OBVIOUS
  <2>3. n - y \in 0..n /\ n - (n - y) = y
    BY <2>2
  <2>4. n - y \in U
    BY <2>3
  <2>5. U \subseteq Nat
    OBVIOUS
  <2> QED
    BY <2>4, <2>5
<1>2. PICK m \in U : \A y \in U : m <= y
  <2> HIDE DEF U
  <2> QED
    BY <1>1, LeastElement
<1>3. n - m \in T
  OBVIOUS
<1>4. ASSUME NEW y \in T PROVE y <= n - m
  <2>1. y \in Nat /\ y <= n
    OBVIOUS
  <2>2. n - y \in 0..n /\ n - (n - y) = y
    BY <2>1
  <2>3. n - y \in U
    BY <2>2
  <2>4. m <= n - y
    BY <1>2, <2>3
  <2> QED
    BY <2>1, <2>4
<1> QED
  BY <1>3, <1>4

(* Every place of a string that is not a separator lies in a part of it. *)
LEMMA InAPart ==
    ASSUME NEW s \in Seq(Byte), NEW sep, NEW k \in 1..Len(s), s[k] # sep
    PROVE  \E t \in Parts(s, sep) : t \in Seq(Byte) /\ \E i \in 1..Len(t) : t[i] = s[k]
<1>0. Len(s) \in Nat /\ k \in Nat
  OBVIOUS
<1> DEFINE L == {i \in 0..k : i = 0 \/ s[i] = sep}
           R == {i \in k..Len(s)+1 : i = Len(s) + 1 \/ s[i] = sep}
<1>1. PICK a \in L : \A y \in L : y <= a
  <2>1. L \subseteq 0..k /\ L # {}
    <3>1. 0 \in L
      BY <1>0
    <3> QED
      BY <3>1
  <2> HIDE DEF L
  <2> QED
    BY <1>0, <2>1, GreatestElement
<1>2. PICK c \in R : \A y \in R : c <= y
  <2>1. R \subseteq Nat /\ R # {}
    <3>1. Len(s) + 1 \in R
      BY <1>0
    <3> QED
      BY <3>1, <1>0
  <2> HIDE DEF R
  <2> QED
    BY <2>1, LeastElement
<1>3. a \in Nat /\ a < k /\ (a = 0 \/ s[a] = sep)
  BY <1>0
<1>4. c \in Nat /\ k < c /\ c <= Len(s) + 1 /\ (c = Len(s) + 1 \/ s[c] = sep)
  BY <1>0
<1>5. ASSUME NEW i \in a+1..c-1 PROVE s[i] # sep
  <2>1. i \in Nat /\ a < i /\ i < c
    BY <1>3, <1>4
  <2>2. CASE i <= k
    <3>1. i \in 0..k /\ i \notin L
      BY <1>0, <1>1, <1>3, <2>1, <2>2
    <3> QED
      BY <3>1
  <2>3. CASE i > k
    <3>1. i \in k..Len(s)+1 /\ i \notin R
      BY <1>0, <1>2, <1>4, <2>1, <2>3
    <3> QED
      BY <3>1
  <2> QED
    BY <1>0, <2>1, <2>2, <2>3
<1> HIDE DEF L, R
<1> DEFINE r == <<a + 1, c - 1>>
           t == SubSeq(s, a + 1, c - 1)
<1>6. r \in (1..Len(s)+1) \X (0..Len(s)) /\ r[1] = a + 1 /\ r[2] = c - 1
  BY <1>0, <1>3, <1>4
<1>7. /\ r[2] >= r[1] - 1
      /\ r[1] = 1 \/ s[r[1] - 1] = sep
      /\ r[2] = Len(s) \/ s[r[2] + 1] = sep
      /\ \A i \in r[1]..r[2] : s[i] # sep
  BY <1>0, <1>3, <1>4, <1>5, <1>6
<1>8. t \in Parts(s, sep)
  <2> HIDE DEF r
  <2>1. t = SubSeq(s, r[1], r[2])
    BY <1>6
  <2> QED
    BY <1>6, <1>7, <2>1 DEF Parts
<1>9. \A i \in a+1..c-1 : s[i] \in Byte
  <2>1. \A i \in a+1..c-1 : i \in 1..Len(s)
    BY <1>0, <1>3, <1>4
  <2> QED
    BY <2>1, ElementOfSeq
<1>10. t \in Seq(Byte) /\ Len(t) = c - 1 - a /\ \A i \in 1..Len(t) : t[i] = s[a + i]
  <2>1. a + 1 \in Int /\ c - 1 \in Int /\ a + 1 <= c - 1
    BY <1>0, <1>3, <1>4
  <2> HIDE DEF r
  <2> QED
    BY <1>3, <1>4, <1>9, <2>1, SubSeqProperties
<1> HIDE DEF t
<1>11. k - a \in 1..Len(t) /\ a + (k - a) = k
  BY <1>0, <1>3, <1>4, <1>10
<1>12. t[k - a] = s[k]
  BY <1>10, <1>11
<1> QED
  BY <1>8, <1>10, <1>11, <1>12

(* A valid path has no NUL, and begins with a slash. *)
LEMMA NoNul ==
    ASSUME NEW path \in Seq(Byte), ValidPath(path)
    PROVE  /\ Len(path) \in 1..PathMaxBytes /\ path[1] = Slash
           /\ \A k \in 1..Len(path) : path[k] # Nul
<1>1. Len(path) \in 1..PathMaxBytes /\ path[1] = Slash
  BY DEF ValidPath
<1>2. ASSUME NEW k \in 1..Len(path), path[k] = Nul PROVE FALSE
  <2>1. k # 1 /\ Len(path) > 1 /\ path # << >>
    BY <1>1, <1>2 DEF Nul, Slash
  <2> DEFINE s == Tail(path)
  <2>2. s \in Seq(Byte) /\ Len(s) = Len(path) - 1 /\ k - 1 \in 1..Len(s) /\ s[k - 1] = path[k]
    BY <2>1
  <2>3. Parts(s, Slash) \subseteq Name
    BY <2>1 DEF ValidPath
  <2> HIDE DEF s
  <2>4. s[k - 1] # Slash
    BY <1>2, <2>2 DEF Nul, Slash
  <2>5. PICK t \in Parts(s, Slash) : \E i \in 1..Len(t) : t[i] = s[k - 1]
    BY <2>2, <2>4, InAPart
  <2>6. t \in Seq(Byte \ {Slash, Nul})
    BY <2>3, <2>5, NameAssumption
  <2> QED
    BY <1>2, <2>2, <2>5, <2>6
<1> QED
  BY <1>1, <1>2

(* The bytes of the key of a path. *)
Encoded(path, k) == IF k = Len(path) \/ path[k + 1] = Slash THEN Nul ELSE path[k + 1]

(* What encode_key makes of a path, byte by byte. *)
LEMMA KeyBytes ==
    ASSUME NEW path \in Seq(Byte), Len(path) >= 1
    PROVE  /\ EncodeKey(path) \in Seq(Byte)
           /\ Len(path) = 1 => EncodeKey(path) = << >> /\ Len(EncodeKey(path)) = 0
           /\ Len(path) > 1 => /\ Len(EncodeKey(path)) = Len(path)
                               /\ \A k \in 1..Len(path) : EncodeKey(path)[k] = Encoded(path, k)
<1>1. EncodeKey(path) \in Seq(Byte)
  BY KeysAreBytes
<1>2. Len(path) = 1 => EncodeKey(path) = << >> /\ Len(EncodeKey(path)) = 0
  BY DEF EncodeKey
<1>3. ASSUME Len(path) > 1
      PROVE  /\ Len(EncodeKey(path)) = Len(path)
             /\ \A k \in 1..Len(path) : EncodeKey(path)[k] = Encoded(path, k)
  <2>1. EncodeKey(path) = [k \in 1..Len(path) |-> Encoded(path, k)]
    BY <1>3 DEF EncodeKey, Encoded
  <2>2. DOMAIN EncodeKey(path) = 1..Len(path)
    BY <2>1
  <2>3. Len(EncodeKey(path)) = Len(path)
    BY <1>1, <2>2
  <2> QED
    BY <2>1, <2>3
<1> QED
  BY <1>1, <1>2, <1>3

LEMMA OneOrMore == ASSUME NEW n \in Nat, n >= 1 PROVE n = 1 \/ n > 1
  OBVIOUS

LEMMA LengthBelow ==
    ASSUME NEW n \in Nat, NEW m \in Nat, NEW k \in 1..n, k # n, n < m
    PROVE  k + 1 \in 1..n /\ k # m
  OBVIOUS

(* What encode_key accepts, decode_key gives back. *)
LEMMA ValidKey ==
    ASSUME NEW path \in Seq(Byte), ValidPath(path)
    PROVE  /\ EncodeKey(path) \in Seq(Byte) /\ Len(EncodeKey(path)) <= PathMaxBytes
           /\ KeyPath(EncodeKey(path)) = path
           /\ DecodesToPath(EncodeKey(path))
<1> DEFINE key == EncodeKey(path)
<1>0. Len(path) \in Nat /\ Len(path) >= 1 /\ Len(path) <= PathMaxBytes /\ path[1] = Slash
      /\ \A k \in 1..Len(path) : path[k] # Nul
  BY NoNul, PathMaxAssumption
<1>1. /\ key \in Seq(Byte)
      /\ Len(path) = 1 => key = << >> /\ Len(key) = 0
      /\ Len(path) > 1 => /\ Len(key) = Len(path)
                          /\ \A k \in 1..Len(path) : key[k] = Encoded(path, k)
  BY <1>0, KeyBytes
<1> HIDE DEF key
<1>2. CASE Len(path) = 1
  <2>1. path = <<Slash>>
    BY <1>0, <1>2
  <2>2. KeyPath(key) = path
    BY <1>1, <1>2, <2>1 DEF KeyPath
  <2>3. Len(key) <= PathMaxBytes /\ DecodesToPath(key)
    BY <1>0, <1>1, <1>2, PathMaxAssumption DEF DecodesToPath
  <2> QED
    BY <1>1, <2>2, <2>3 DEF key
<1>3. CASE Len(path) > 1
  <2>1. key # << >> /\ Len(key) = Len(path)
    BY <1>1, <1>3
  <2>2. KeyPath(key) = [k \in 1..Len(path) |-> IF k = 1 \/ key[k - 1] = Nul THEN Slash ELSE key[k - 1]]
    BY <2>1 DEF KeyPath
  <2>3. ASSUME NEW k \in 1..Len(path)
        PROVE  (IF k = 1 \/ key[k - 1] = Nul THEN Slash ELSE key[k - 1]) = path[k]
    <3>1. CASE k = 1
      BY <1>0, <3>1
    <3>2. CASE k # 1
      <4>1. k - 1 \in 1..Len(path) /\ k - 1 # Len(path) /\ (k - 1) + 1 = k
        BY <1>0, <3>2
      <4>2. key[k - 1] = Encoded(path, k - 1)
        BY <1>1, <1>3, <4>1
      <4>3. key[k - 1] = IF path[k] = Slash THEN Nul ELSE path[k]
        BY <4>1, <4>2 DEF Encoded
      <4>4. path[k] # Nul
        BY <1>0
      <4> QED
        BY <3>2, <4>3, <4>4
    <3> QED
      BY <3>1, <3>2
  <2>4. KeyPath(key) = [k \in 1..Len(path) |-> path[k]]
    BY <2>2, <2>3
  <2>5. KeyPath(key) = path
    BY <2>4
  <2>6. key[Len(key)] = Nul
    BY <1>0, <1>1, <1>3, <2>1 DEF Encoded
  <2>7. ASSUME NEW k \in 1..Len(key) PROVE key[k] # Slash
    BY <1>1, <1>3, <2>1 DEF Encoded, Nul, Slash
  <2>8. DecodesToPath(key)
    BY <1>0, <2>1, <2>5, <2>6, <2>7 DEF DecodesToPath, key
  <2> QED
    BY <1>0, <1>1, <2>1, <2>5, <2>8 DEF key
<1>4. Len(path) = 1 \/ Len(path) > 1
  <2>1. Len(path) \in Nat /\ Len(path) >= 1
    BY <1>0
  <2> QED
    BY <2>1, OneOrMore
<1> QED
  BY <1>2, <1>3, <1>4

(* A key that a node may carry a binding at. *)
GoodKey(k) == ValidPath(KeyPath(k)) /\ EncodeKey(KeyPath(k)) = k

(* A key that decode_key accepts is the key of a valid path. *)
LEMMA DecodesGood ==
    ASSUME NEW k \in Seq(Byte), DecodesToPath(k)
    PROVE  GoodKey(k) /\ KeyPath(k) \in Seq(Byte)
<1>1. KeyPath(k) \in Seq(Byte)
  BY KeysAreBytes
<1>2. CASE k = << >>
  <2>1. KeyPath(k) = <<Slash>> /\ Len(KeyPath(k)) = 1 /\ KeyPath(k)[1] = Slash
    BY <1>2 DEF KeyPath
  <2>2. ValidPath(KeyPath(k))
    BY <2>1, PathMaxAssumption DEF ValidPath
  <2>3. EncodeKey(KeyPath(k)) = k
    BY <1>2, <2>1 DEF EncodeKey
  <2> QED
    BY <1>1, <2>2, <2>3 DEF GoodKey
<1>3. CASE k # << >>
  BY <1>1, <1>3 DEF DecodesToPath, GoodKey
<1> QED
  BY <1>2, <1>3

(* One key begins another where one path is at or above the other. *)
LEMMA AncestorKeys ==
    ASSUME NEW p \in Seq(Byte), NEW q \in Seq(Byte), ValidPath(p), ValidPath(q)
    PROVE  Begins(EncodeKey(p), EncodeKey(q)) <=> Maps!AtOrAbove(p, q)
<1> DEFINE a == EncodeKey(p)
           b == EncodeKey(q)
<1>1. /\ Len(p) \in Nat /\ Len(p) >= 1 /\ p[1] = Slash /\ \A k \in 1..Len(p) : p[k] # Nul
      /\ Len(q) \in Nat /\ Len(q) >= 1 /\ q[1] = Slash /\ \A k \in 1..Len(q) : q[k] # Nul
  BY NoNul, PathMaxAssumption
<1>2. /\ a \in Seq(Byte)
      /\ Len(p) = 1 => a = << >> /\ Len(a) = 0
      /\ Len(p) > 1 => /\ Len(a) = Len(p)
                       /\ \A k \in 1..Len(p) : a[k] = Encoded(p, k)
  BY <1>1, KeyBytes
<1>3. /\ b \in Seq(Byte)
      /\ Len(q) = 1 => b = << >> /\ Len(b) = 0
      /\ Len(q) > 1 => /\ Len(b) = Len(q)
                       /\ \A k \in 1..Len(q) : b[k] = Encoded(q, k)
  BY <1>1, KeyBytes
<1>4. Maps!AtOrAbove(p, q) <=>
        \/ p = q \/ p = <<Slash>>
        \/ /\ Len(p) < Len(q) /\ q[Len(p) + 1] = Slash
           /\ p = SubSeq(q, 1, Len(p))
  BY DEF Maps!AtOrAbove
<1> HIDE DEF a, b
<1>5. CASE Len(p) = 1
  <2>1. p = <<Slash>>
    BY <1>1, <1>5
  <2>2. Begins(a, b)
    BY <1>2, <1>3, <1>5, BeginsNothing
  <2> QED
    BY <1>4, <2>1, <2>2 DEF a, b
<1>6. CASE Len(p) > 1
  <2>1. ASSUME Len(p) < Len(q), q[Len(p) + 1] = Slash, p = SubSeq(q, 1, Len(p))
        PROVE  Begins(a, b)
    <3>1. \A k \in 1..Len(p) : p[k] = q[k]
      <4>1. Len(p) \in 0..Len(q)
        BY <1>1, <2>1
      <4>2. p = Before(q, Len(p))
        BY <2>1 DEF Before
      <4> QED
        BY <4>1, <4>2, BeginsBefore
    <3>2. Len(q) > 1
      BY <1>1, <1>6, <2>1
    <3>3. ASSUME NEW k \in 1..Len(p) PROVE a[k] = b[k]
      <4>1. a[k] = Encoded(p, k) /\ b[k] = Encoded(q, k)
        BY <1>1, <1>2, <1>3, <1>6, <2>1, <3>2
      <4>2. CASE k = Len(p)
        BY <1>1, <2>1, <4>1, <4>2 DEF Encoded
      <4>3. CASE k # Len(p)
        <5>1. k + 1 \in 1..Len(p) /\ k # Len(q)
          BY <1>1, <2>1, <4>3, LengthBelow
        <5>2. p[k + 1] = q[k + 1]
          BY <3>1, <5>1
        <5> QED
          BY <4>1, <4>3, <5>1, <5>2 DEF Encoded
      <4> QED
        BY <4>2, <4>3
    <3> QED
      BY <1>1, <1>2, <1>3, <1>6, <2>1, <3>2, <3>3 DEF Begins
  <2>2. ASSUME p = q PROVE Begins(a, b)
    BY <1>2, <2>2, BeginsSelf DEF a, b
  <2>3. ASSUME Begins(a, b) PROVE \/ p = q
                                  \/ /\ Len(p) < Len(q) /\ q[Len(p) + 1] = Slash
                                     /\ p = SubSeq(q, 1, Len(p))
    <3>1. Len(a) <= Len(b) /\ \A i \in 1..Len(a) : a[i] = b[i]
      BY <2>3 DEF Begins
    <3>2. Len(q) > 1 /\ Len(p) <= Len(q)
      <4>1. Len(a) = Len(p) /\ (Len(q) = 1 => Len(b) = 0) /\ (Len(q) > 1 => Len(b) = Len(q))
        BY <1>2, <1>3, <1>6
      <4>2. Len(a) <= Len(b)
        BY <3>1
      <4>3. Len(q) = 1 \/ Len(q) > 1
        BY <1>1, OneOrMore
      <4>4. Len(p) \in Nat /\ Len(q) \in Nat
        BY <1>1
      <4> QED
        BY <1>6, <4>1, <4>2, <4>3, <4>4
    <3>3. ASSUME NEW k \in 1..Len(p) PROVE p[k] = q[k]
      <4>1. CASE k = 1
        BY <1>1, <4>1
      <4>2. CASE k # 1
        <5>1. k - 1 \in 1..Len(p) /\ k - 1 # Len(p) /\ k - 1 \in 1..Len(q)
              /\ k - 1 # Len(q) /\ (k - 1) + 1 = k /\ k \in 1..Len(q)
          BY <1>1, <3>2, <4>2
        <5>2. Encoded(p, k - 1) = Encoded(q, k - 1)
          BY <1>2, <1>3, <1>6, <3>1, <3>2, <5>1
        <5>3. p[k] # Nul /\ q[k] # Nul
          BY <1>1, <5>1
        <5> QED
          BY <5>1, <5>2, <5>3 DEF Encoded
      <4> QED
        BY <4>1, <4>2
    <3>4. Begins(p, q)
      BY <3>2, <3>3 DEF Begins
    <3>5. IsPrefixOf(p, q)
      BY <3>4, PrefixBegins
    <3>6. p = SubSeq(q, 1, Len(p))
      BY <3>5 DEF IsPrefixOf, Before
    <3>7. CASE Len(p) = Len(q)
      BY <3>4, <3>7, BeginsWhole
    <3>8. CASE Len(p) < Len(q)
      <4>1. Len(p) \in 1..Len(p) /\ Len(p) \in 1..Len(q) /\ Len(p) + 1 \in 1..Len(q)
        BY <1>1, <3>8
      <4>2. Encoded(p, Len(p)) = Encoded(q, Len(p))
        BY <1>2, <1>3, <1>6, <3>1, <3>2, <4>1
      <4>3. Encoded(q, Len(p)) = Nul
        BY <4>2 DEF Encoded
      <4>4. q[Len(p) + 1] # Nul /\ Len(p) # Len(q)
        BY <1>1, <3>8, <4>1
      <4>5. q[Len(p) + 1] = Slash
        BY <4>3, <4>4 DEF Encoded
      <4> QED
        BY <3>6, <3>8, <4>5
    <3> QED
      BY <1>1, <3>2, <3>7, <3>8
  <2>4. p # <<Slash>>
    <3>1. Len(<<Slash>>) = 1 /\ ~(1 > 1)
      OBVIOUS
    <3> QED
      BY <1>6, <3>1, Zenon
  <2>5. Begins(a, b) <=> Maps!AtOrAbove(p, q)
    BY <1>4, <2>1, <2>2, <2>3, <2>4
  <2> QED
    BY <2>5 DEF a, b
<1>7. Len(p) = 1 \/ Len(p) > 1
  BY <1>1, OneOrMore
<1> QED
  BY <1>5, <1>6, <1>7

(* How many bytes two strings share, and that they differ after those. *)
LEMMA CommonIs ==
    ASSUME NEW s \in Seq(Byte), NEW t \in Seq(Byte)
    PROVE  /\ Common(s, t) \in 0..Len(t) /\ Common(s, t) <= Len(s)
           /\ \A k \in 1..Common(s, t) : s[k] = t[k]
           /\ Common(s, t) < Len(s) /\ Common(s, t) < Len(t)
                => s[Common(s, t) + 1] # t[Common(s, t) + 1]
<1> DEFINE A == {n \in 1..Len(s) : n <= Len(t) /\ \A k \in 1..n : s[k] = t[k]}
           T == {n \in 0..Len(s) : n = 0 \/ n \in A}
<1>0. Len(s) \in Nat /\ Len(t) \in Nat
  OBVIOUS
<1>1. PICK c \in T : \A y \in T : y <= c
  <2>1. T \subseteq 0..Len(s) /\ T # {}
    <3>1. 0 \in T
      BY <1>0
    <3> QED
      BY <3>1
  <2> HIDE DEF T
  <2> QED
    BY <1>0, <2>1, GreatestElement
<1>2. c \in Nat /\ c <= Len(s) /\ c <= Len(t) /\ \A k \in 1..c : s[k] = t[k]
  BY <1>0
<1>3. A = 1..c
  <2>1. ASSUME NEW n \in A PROVE n \in 1..c
    <3>1. n \in T /\ n \in Nat /\ n >= 1
      BY <1>0
    <3>2. n <= c
      BY <1>1, <3>1
    <3> QED
      BY <1>2, <3>1, <3>2
  <2>2. ASSUME NEW n \in 1..c PROVE n \in A
    <3>1. n \in 1..Len(s) /\ n <= Len(t)
      BY <1>0, <1>2
    <3>2. \A k \in 1..n : k \in 1..c
      BY <1>2
    <3> QED
      BY <1>2, <3>1, <3>2
  <2> HIDE DEF A
  <2> QED
    BY <2>1, <2>2
<1>4. Cardinality(1..c) = c
  <2>1. Cardinality(1..c) = IF 1 > c THEN 0 ELSE c - 1 + 1
    BY <1>2, FS_Interval
  <2> QED
    BY <1>2, <2>1
<1>5. Common(s, t) = Cardinality(A)
  BY DEF Common
<1>6. Common(s, t) = c
  <2> HIDE DEF A
  <2> QED
    BY <1>3, <1>4, <1>5
<1>7. ASSUME c < Len(s), c < Len(t), s[c + 1] = t[c + 1] PROVE FALSE
  <2>1. \A k \in 1..c + 1 : s[k] = t[k]
    <3> TAKE k \in 1..c + 1
    <3>1. k = c + 1 \/ k \in 1..c
      BY <1>2
    <3> QED
      BY <1>2, <1>7, <3>1
  <2>2. c + 1 \in 1..Len(s) /\ c + 1 <= Len(t)
    BY <1>0, <1>2, <1>7
  <2>3. c + 1 \in A
    BY <2>1, <2>2
  <2>4. c + 1 \in 1..c
    <3> HIDE DEF A
    <3> QED
      BY <1>3, <2>3
  <2> QED
    BY <1>2, <2>4
<1> QED
  BY <1>0, <1>2, <1>6, <1>7

-----------------------------------------------------------------------------
(* What the map of a root holds is what is bound below it. *)
Holds(m, path, b) == path \in DOMAIN m /\ m[path] = b

(* Every key bound in a sound trie is the key of a valid path. *)
LEMMA BoundGood ==
    ASSUME NEW S, IsTree(S), NEW p, IsPlace(S, p), SoundAt(p),
           NEW k, NEW b, Bound(p, k, b)
    PROVE  /\ k \in Seq(Byte) /\ Len(k) <= PathMaxBytes /\ DecodesToPath(k)
           /\ GoodKey(k) /\ KeyPath(k) \in Seq(Byte) /\ b \in Binding
<1>1. PICK x : Under(p, x) /\ Own(x, k, b)
  BY DEF Bound
<1>2. k \in Seq(Byte) /\ b \in Binding
  BY BoundBegins
<1>3. DecodesToPath(k)
  BY <1>1 DEF SoundAt, Own, PositionOk, FullKey
<1> QED
  BY <1>2, <1>3, DecodesGood DEF DecodesToPath

(* Bound, which looks anywhere below, against BoundPlaces. *)
LEMMA BoundPlace ==
    ASSUME NEW S, IsTree(S), NEW root \in S, SoundAt(Top(root)), NEW k, NEW b
    PROVE  Bound(Top(root), k, b) <=>
             \E x \in BoundPlaces(root) : FullKey(x) = k /\ NodeOf(x[2]).binding = b
<1>1. ASSUME Bound(Top(root), k, b)
      PROVE  \E x \in BoundPlaces(root) : FullKey(x) = k /\ NodeOf(x[2]).binding = b
  <2>1. PICK x : Under(Top(root), x) /\ Own(x, k, b)
    BY <1>1 DEF Bound
  <2>2. Len(k) <= PathMaxBytes /\ k \in Seq(Byte)
    BY <1>1, BoundGood, TopIsPlace
  <2>3. FullKey(x) = k /\ NodeOf(x[2]).binding = b /\ b # None
    BY <2>1 DEF Own
  <2>4. IsPlace(S, x)
    BY <2>1, UnderPlaces, TopIsPlace
  <2>5. Begins(x[1], FullKey(x)) /\ x[1] \in Seq(Byte)
    BY <2>4, FullKeyFacts DEF IsPlace
  <2>6. Len(x[1]) <= PathMaxBytes
    <3>1. Len(x[1]) <= Len(k)
      BY <2>3, <2>5 DEF Begins
    <3>2. Len(x[1]) \in Nat /\ Len(k) \in Nat /\ PathMaxBytes \in Nat
      BY <2>2, <2>5, PathMaxAssumption
    <3> QED
      BY <2>2, <3>1, <3>2
  <2>7. x \in Places(root)
    BY <2>1, <2>6, UnderInPlaces
  <2> QED
    BY <2>3, <2>7 DEF BoundPlaces
<1>2. ASSUME NEW x \in BoundPlaces(root), FullKey(x) = k, NodeOf(x[2]).binding = b
      PROVE  Bound(Top(root), k, b)
  <2>1. x \in Places(root) /\ b # None
    BY <1>2 DEF BoundPlaces
  <2>2. Under(Top(root), x)
    BY <2>1, PlacesUnder
  <2> QED
    BY <1>2, <2>1, <2>2 DEF Bound, Own
<1> QED
  BY <1>1, <1>2

(* MapOf is a map from valid paths, and holds what the trie binds. *)
LEMMA MapMeans ==
    ASSUME NEW S, IsTree(S), NEW root \in S, SoundAt(Top(root))
    PROVE  /\ MapOf(root) = [path \in DOMAIN MapOf(root) |-> MapOf(root)[path]]
           /\ \A path \in DOMAIN MapOf(root) :
                /\ path \in Seq(Byte) /\ ValidPath(path)
                /\ MapOf(root)[path] \in Binding
           /\ \A path \in Seq(Byte) : \A b : ValidPath(path) =>
                (Holds(MapOf(root), path, b) <=> Bound(Top(root), EncodeKey(path), b))
<1> DEFINE B == BoundPlaces(root)
           D == {PathOf(x) : x \in B}
           pick(path) == CHOOSE x \in B : PathOf(x) = path
           m == MapOf(root)
<1>0. IsPlace(S, Top(root))
  BY TopIsPlace
<1>1. m = [path \in D |-> NodeOf(pick(path)[2]).binding]
  BY DEF MapOf
<1>2. \A x \in B : Bound(Top(root), FullKey(x), NodeOf(x[2]).binding)
  BY BoundPlace
<1>3. ASSUME NEW path \in D
      PROVE  /\ pick(path) \in B /\ PathOf(pick(path)) = path
             /\ m[path] = NodeOf(pick(path)[2]).binding
  BY <1>1
<1>4. D = DOMAIN m
  BY <1>1
<1> HIDE DEF pick, B, m
<1>5. ASSUME NEW path \in D
      PROVE  /\ path \in Seq(Byte) /\ ValidPath(path)
             /\ Bound(Top(root), EncodeKey(path), m[path]) /\ m[path] \in Binding
  <2> DEFINE k == FullKey(pick(path))
  <2>1. Bound(Top(root), k, m[path])
    BY <1>2, <1>3
  <2>2. KeyPath(k) = path
    BY <1>3 DEF PathOf
  <2> HIDE DEF k
  <2>3. GoodKey(k) /\ KeyPath(k) \in Seq(Byte) /\ m[path] \in Binding
    BY <1>0, <2>1, BoundGood
  <2> QED
    BY <2>1, <2>2, <2>3 DEF GoodKey
<1>6. ASSUME NEW path \in Seq(Byte), NEW b, ValidPath(path),
             Bound(Top(root), EncodeKey(path), b)
      PROVE  path \in D /\ m[path] = b
  <2>1. PICK x \in B : FullKey(x) = EncodeKey(path) /\ NodeOf(x[2]).binding = b
    BY <1>6, BoundPlace DEF B
  <2>2. PathOf(x) = path
    BY <1>6, <2>1, ValidKey DEF PathOf
  <2>3. path \in D
    BY <2>2
  <2>4. Bound(Top(root), EncodeKey(path), m[path])
    BY <1>5, <2>3
  <2> HIDE DEF D
  <2> QED
    BY <1>0, <1>6, <2>3, <2>4, BoundOnce
<1> HIDE DEF D
<1>7. m = [path \in DOMAIN m |-> m[path]]
  BY <1>1, <1>4 DEF pick
<1>8. \A path \in Seq(Byte) : \A b : ValidPath(path) =>
                (Holds(m, path, b) <=> Bound(Top(root), EncodeKey(path), b))
  BY <1>4, <1>5, <1>6 DEF Holds
<1>9. \A path \in DOMAIN m : path \in Seq(Byte) /\ ValidPath(path) /\ m[path] \in Binding
  BY <1>4, <1>5
<1> QED
  BY <1>7, <1>8, <1>9 DEF m

(* The node of the empty index binds nothing. *)
LEMMA EmptyBinds ==
    /\ NodeOf(EmptyRoot) = EmptyNode /\ EmptyNode.label = << >>
    /\ EmptyNode.binding = None /\ Edges(EmptyNode) = {}
    /\ \A p, k, b : p[2] = EmptyRoot => ~Bound(p, k, b)
    /\ \A p : p[2] = EmptyRoot /\ p[1] = << >> => SoundAt(p)
    /\ Canonical(EmptyNode) /\ WellLinked(EmptyNode) /\ Refs(EmptyNode) = {} /\ IsNode(EmptyNode)
<1>1. /\ NodeOf(EmptyRoot) = EmptyNode /\ EmptyNode.label = << >>
      /\ EmptyNode.binding = None /\ Edges(EmptyNode) = {}
      /\ Refs(EmptyNode) = {} /\ IsNode(EmptyNode)
  BY EmptyIsNode DEF EmptyNode, EmptyRoot, NodeOf, Digest, Node, Edges, NoChildren
<1>2. \A p, k, b : p[2] = EmptyRoot => ~Bound(p, k, b)
  BY <1>1, BoundUnfold DEF Own
<1>3. \A p : p[2] = EmptyRoot /\ p[1] = << >> => SoundAt(p)
  <2> SUFFICES ASSUME NEW p, p[2] = EmptyRoot, p[1] = << >> PROVE SoundAt(p)
    OBVIOUS
  <2>1. PositionOk(p[1], NodeOf(p[2]))
    BY <1>1, PathMaxAssumption DEF PositionOk, Joinable
  <2> QED
    BY <1>1, <2>1, SoundUnfold
<1>4. Canonical(EmptyNode) /\ WellLinked(EmptyNode)
  BY <1>1, PathMaxAssumption DEF Canonical, PassThrough, Blank, WellLinked
<1> QED
  BY <1>1, <1>2, <1>3, <1>4

(* The empty root stands for the empty map. *)
LEMMA EmptyMaps ==
    ASSUME NEW S, IsTree(S), EmptyRoot \in S
    PROVE  MapOf(EmptyRoot) = Maps!EmptyMap
<1>0. Top(EmptyRoot)[1] = << >> /\ Top(EmptyRoot)[2] = EmptyRoot
  BY TopIsPlace
<1>1. SoundAt(Top(EmptyRoot)) /\ \A k, b : ~Bound(Top(EmptyRoot), k, b)
  BY <1>0, EmptyBinds
<1> DEFINE m == MapOf(EmptyRoot)
<1>2. /\ m = [path \in DOMAIN m |-> m[path]]
      /\ \A path \in DOMAIN m : path \in Seq(Byte) /\ ValidPath(path)
      /\ \A path \in Seq(Byte) : \A b : ValidPath(path) =>
                (Holds(m, path, b) <=> Bound(Top(EmptyRoot), EncodeKey(path), b))
  BY <1>1, MapMeans
<1>3. DOMAIN m = {}
  BY <1>1, <1>2 DEF Holds
<1> HIDE DEF m
<1>4. m = Maps!EmptyMap
  BY <1>2, <1>3 DEF Maps!EmptyMap
<1> QED
  BY <1>4 DEF m

-----------------------------------------------------------------------------
(* What the edits of a node do to what is bound below it. *)

(* Option::None is none of the values that Some may hold: the digest of a  *)
(* node, what longest_prefix has found, a request or its answer.           *)
NoneIsApart ==
    /\ \A node : Digest(node) # None
    /\ \A path, b : [path |-> path, binding |-> b] # None
    /\ \A kind, map, path, b :
          [kind |-> kind, map |-> map, path |-> path, binding |-> b] # None
    /\ \A ok, value : [ok |-> ok, value |-> value] # None

At0(prefix, node) == <<prefix, Digest(node)>>

LEMMA AtNode ==
    ASSUME NEW prefix, NEW node
    PROVE  /\ At0(prefix, node)[1] = prefix /\ At0(prefix, node)[2] = Digest(node)
           /\ NodeOf(At0(prefix, node)[2]) = node /\ NodeOf(Digest(node)) = node
           /\ FullKey(At0(prefix, node)) = prefix \o node.label
           /\ LabelOf(At0(prefix, node)) = node.label
           /\ \A e : ChildPlace(At0(prefix, node), e) = <<prefix \o node.label, node.children[e]>>
  BY DEF At0, FullKey, ChildPlace, NodeOf, Digest, LabelOf

LEMMA ChildOfNode ==
    ASSUME NEW prefix, NEW node, NEW e
    PROVE  ChildPlace(At0(prefix, node), e) = <<prefix \o node.label, node.children[e]>>
  BY AtNode

(* A row may be added whose references are there. *)
LEMMA GrowTree ==
    ASSUME NEW S, IsTree(S), NEW node, IsNode(node), Refs(node) \subseteq S,
           WellLinked(node)
    PROVE  /\ IsTree(S \cup {Digest(node)})
           /\ \A prefix \in Seq(Byte) : IsPlace(S \cup {Digest(node)}, At0(prefix, node))
<1>1. NodeOf(Digest(node)) = node
  BY DEF NodeOf, Digest
<1>2. IsRow(Digest(node))
  BY <1>1 DEF IsRow
<1>3. IsTree(S \cup {Digest(node)})
  BY <1>1, <1>2 DEF IsTree
<1> QED
  BY <1>3, AtNode DEF IsPlace, At0

(* The place of a known row, seen as the place of its node. *)
LEMMA PlaceOfNode ==
    ASSUME NEW S, IsTree(S), NEW p, IsPlace(S, p)
    PROVE  p = At0(p[1], NodeOf(p[2])) /\ Digest(NodeOf(p[2])) = p[2]
  BY DEF IsTree, IsPlace, IsRow, At0

(* Two nodes that end at one key with the same binding and children. *)
LEMMA Shift ==
    ASSUME NEW p, NEW q, FullKey(p) = FullKey(q),
           NodeOf(p[2]).binding = NodeOf(q[2]).binding,
           NodeOf(p[2]).children = NodeOf(q[2]).children
    PROVE  /\ \A k, b : Bound(p, k, b) <=> Bound(q, k, b)
           /\ SoundAt(p) /\ PositionOk(q[1], NodeOf(q[2])) => SoundAt(q)
<1>1. Edges(NodeOf(p[2])) = Edges(NodeOf(q[2]))
  BY DEF Edges
<1>2. \A e : ChildPlace(p, e) = ChildPlace(q, e)
  BY DEF ChildPlace
<1>3. \A k, b : Own(p, k, b) <=> Own(q, k, b)
  BY DEF Own
<1> QED
  BY <1>1, <1>2, <1>3, BoundUnfold, SoundUnfold

(* A position makes sense of a node by the key it ends at alone. *)
LEMMA PositionByKey ==
    ASSUME NEW a \in Seq(Byte), NEW m, m.label \in Seq(Byte),
           NEW c \in Seq(Byte), NEW n, n.label \in Seq(Byte),
           a \o m.label = c \o n.label, m.binding = n.binding
    PROVE  PositionOk(a, m) <=> PositionOk(c, n)
<1>1. Len(a \o m.label) = Len(a) + Len(m.label) /\ Len(c \o n.label) = Len(c) + Len(n.label)
  OBVIOUS
<1> QED
  BY <1>1 DEF PositionOk, Joinable

(* What set_child changes. *)
ChildSet(m, n, e, id) ==
    /\ m.label = n.label /\ m.binding = n.binding
    /\ Edges(m) = IF id = None THEN Edges(n) \ {e} ELSE Edges(n) \cup {e}
    /\ \A f \in Edges(m) : f # e => f \in Edges(n) /\ m.children[f] = n.children[f]
    /\ id # None => e \in Edges(m) /\ m.children[e] = id

(* set_child changes one edge and nothing else. *)
LEMMA SetChildFacts ==
    ASSUME NEW n, IsNode(n), NEW e, NEW id
    PROVE  ChildSet(SetChild(n, e, id), n, e, id)
<1> DEFINE F == IF id = None
                THEN [f \in Edges(n) \ {e} |-> n.children[f]]
                ELSE [f \in Edges(n) \cup {e} |->
                         IF f = e THEN id ELSE n.children[f]]
           m == SetChild(n, e, id)
<1>1. n = Node(n.label, n.binding, n.children)
  BY DEF IsNode
<1>2. m = [n EXCEPT !.children = F]
  BY DEF SetChild
<1>3. /\ DOMAIN F = IF id = None THEN Edges(n) \ {e} ELSE Edges(n) \cup {e}
      /\ \A f \in DOMAIN F : f # e => f \in Edges(n) /\ F[f] = n.children[f]
      /\ id # None => e \in DOMAIN F /\ F[e] = id
  OBVIOUS
<1> HIDE DEF F, m
<1>4. m.label = n.label /\ m.binding = n.binding /\ m.children = F
  BY <1>1, <1>2 DEF Node
<1>5. ChildSet(m, n, e, id)
  BY <1>3, <1>4 DEF Edges, ChildSet
<1> QED
  BY <1>5 DEF m

(* A child hangs from the first byte of its label. *)
HangsFrom(id, e) == NodeOf(id).label # << >> /\ NodeOf(id).label[1] = e

LEMMA SetChildLinked ==
    ASSUME NEW n, IsNode(n), WellLinked(n), NEW e, NEW id,
           id # None => HangsFrom(id, e)
    PROVE  WellLinked(SetChild(n, e, id))
<1> DEFINE m == SetChild(n, e, id)
<1>1. /\ Edges(m) = IF id = None THEN Edges(n) \ {e} ELSE Edges(n) \cup {e}
      /\ \A f \in Edges(m) : f # e => f \in Edges(n) /\ m.children[f] = n.children[f]
      /\ id # None => e \in Edges(m) /\ m.children[e] = id
  BY SetChildFacts DEF ChildSet
<1> HIDE DEF m
<1>2. WellLinked(m)
  BY <1>1 DEF WellLinked, HangsFrom
<1> QED
  BY <1>2 DEF m

(* The map below a place with one key set to c, or cleared. *)
Edited(p, key, c, k, b) ==
    IF k = key THEN b # None /\ b = c ELSE Bound(p, k, b)

EditsTo(q, p, key, c) == \A k, b : Bound(q, k, b) <=> Edited(p, key, c, k, b)
Gone(p, key, c)       == \A k, b : ~Edited(p, key, c, k, b)

(* The same, for what is bound below one edge, which may not be there. *)
Via(p, e, k, b) == e \in Edges(NodeOf(p[2])) /\ Bound(ChildPlace(p, e), k, b)

EdgeEdited(p, e, key, c, k, b) ==
    IF k = key THEN b # None /\ b = c ELSE Via(p, e, k, b)

EdgeEditsTo(q, p, e, key, c) ==
    \A k, b : Bound(q, k, b) <=> EdgeEdited(p, e, key, c, k, b)
EdgeGone(p, e, key, c) == \A k, b : ~EdgeEdited(p, e, key, c, k, b)

(* The key passes a place at one of its edges, there or not. *)
PassesAt(p, e, key) ==
    Begins(FullKey(p), key) /\ Len(FullKey(p)) < Len(key) /\ key[Len(FullKey(p)) + 1] = e

ChildEdited(q, p, e, key, c, id) ==
    /\ EditsTo(q, p, key, c)
    /\ FullKey(q) = FullKey(p)
    /\ id # None => e \in Edges(NodeOf(q[2])) /\ ChildPlace(q, e) = <<FullKey(p), id>>

(* set_child: the edit below the edge is the edit of the whole node. *)
LEMMA SetChildEdits ==
    ASSUME NEW S, IsTree(S), NEW p, IsPlace(S, p), NEW key \in Seq(Byte), NEW c, NEW e,
           PassesAt(p, e, key), NEW id,
           id = None => EdgeGone(p, e, key, c),
           id # None => EdgeEditsTo(<<FullKey(p), id>>, p, e, key, c)
    PROVE  ChildEdited(At0(p[1], SetChild(NodeOf(p[2]), e, id)), p, e, key, c, id)
<1> DEFINE n == NodeOf(p[2])
           m == SetChild(n, e, id)
           q == At0(p[1], m)
<1>0. IsNode(n) /\ FullKey(p) \in Seq(Byte)
  BY FullKeyFacts
<1>1. /\ m.label = n.label /\ m.binding = n.binding
      /\ Edges(m) = IF id = None THEN Edges(n) \ {e} ELSE Edges(n) \cup {e}
      /\ \A f \in Edges(m) : f # e => f \in Edges(n) /\ m.children[f] = n.children[f]
      /\ id # None => e \in Edges(m) /\ m.children[e] = id
  <2>1. ChildSet(m, n, e, id)
    BY <1>0, SetChildFacts
  <2> HIDE DEF m, n
  <2> QED
    BY <2>1 DEF ChildSet
<1>2. FullKey(p) = p[1] \o n.label /\ \A f : ChildPlace(p, f) = <<FullKey(p), n.children[f]>>
  BY DEF FullKey, ChildPlace
<1> HIDE DEF m, n
<1>3. /\ q[1] = p[1] /\ NodeOf(q[2]) = m /\ FullKey(q) = FullKey(p)
      /\ \A f : ChildPlace(q, f) = <<FullKey(p), m.children[f]>>
  <2>1. q[1] = p[1] /\ NodeOf(q[2]) = m /\ FullKey(q) = p[1] \o m.label
    BY AtNode
  <2>2. \A f : ChildPlace(q, f) = <<p[1] \o m.label, m.children[f]>>
    BY ChildOfNode
  <2> HIDE DEF q
  <2> QED
    BY <1>1, <1>2, <2>1, <2>2
<1> HIDE DEF q
<1>4. \A f \in Edges(m) : f # e => ChildPlace(q, f) = ChildPlace(p, f)
  BY <1>1, <1>2, <1>3
<1>5. id # None => ChildPlace(q, e) = <<FullKey(p), id>>
  BY <1>1, <1>3
<1>6. FullKey(p) # key
  BY <1>0 DEF PassesAt
<1>7. \A k, b : Own(q, k, b) <=> Own(p, k, b)
  BY <1>1, <1>3 DEF Own, n
<1>8. ASSUME NEW k, NEW b PROVE Bound(q, k, b) <=> Edited(p, key, c, k, b)
  <2>1. Bound(q, k, b) <=> Own(q, k, b) \/ \E f \in Edges(m) : Bound(ChildPlace(q, f), k, b)
    BY <1>3, BoundUnfold
  <2>2. Bound(p, k, b) <=> Own(p, k, b) \/ \E f \in Edges(n) : Bound(ChildPlace(p, f), k, b)
    BY BoundUnfold DEF n
  <2>3. CASE k = key
    <3>1. ~Own(q, k, b)
      BY <1>6, <1>7, <2>3 DEF Own
    <3>2. ASSUME NEW f \in Edges(m), f # e PROVE ~Bound(ChildPlace(q, f), k, b)
      <4>1. f \in Edges(n) /\ ChildPlace(q, f) = ChildPlace(p, f)
        BY <1>1, <1>4, <3>2
      <4>2. ~Bound(ChildPlace(p, f), k, b)
        BY <2>3, <3>2, <4>1, BoundChild DEF PassesAt, n
      <4> QED
        BY <4>1, <4>2
    <3>3. CASE id = None
      BY <1>1, <2>1, <2>3, <3>1, <3>2, <3>3 DEF EdgeGone, EdgeEdited, Edited
    <3>4. CASE id # None
      BY <1>1, <1>5, <2>1, <2>3, <3>1, <3>2, <3>4 DEF EdgeEditsTo, EdgeEdited, Edited
    <3> QED
      BY <3>3, <3>4
  <2>4. CASE k # key
    <3>1. Edited(p, key, c, k, b) <=> Bound(p, k, b)
      BY <2>4 DEF Edited
    <3>2. Bound(p, k, b) <=> \/ Own(p, k, b) \/ Via(p, e, k, b)
                             \/ \E f \in Edges(n) \ {e} : Bound(ChildPlace(p, f), k, b)
      BY <2>2 DEF Via, n
    <3>3. (\E f \in Edges(m) \ {e} : Bound(ChildPlace(q, f), k, b))
            <=> (\E f \in Edges(n) \ {e} : Bound(ChildPlace(p, f), k, b))
      <4>1. Edges(m) \ {e} = Edges(n) \ {e}
        BY <1>1
      <4> QED
        BY <1>4, <4>1
    <3>4. CASE id = None
      <4>1. ~Via(p, e, k, b) /\ e \notin Edges(m)
        BY <1>1, <2>4, <3>4 DEF EdgeGone, EdgeEdited
      <4> QED
        BY <1>7, <2>1, <3>1, <3>2, <3>3, <4>1
    <3>5. CASE id # None
      <4>1. Bound(ChildPlace(q, e), k, b) <=> Via(p, e, k, b)
        BY <1>5, <2>4, <3>5 DEF EdgeEditsTo, EdgeEdited
      <4>2. e \in Edges(m)
        BY <1>1, <3>5
      <4> QED
        BY <1>7, <2>1, <3>1, <3>2, <3>3, <4>1, <4>2
    <3> QED
      BY <3>4, <3>5
  <2> QED
    BY <2>3, <2>4
<1>9. /\ EditsTo(q, p, key, c) /\ FullKey(q) = FullKey(p)
      /\ id # None => e \in Edges(NodeOf(q[2])) /\ ChildPlace(q, e) = <<FullKey(p), id>>
  BY <1>1, <1>3, <1>5, <1>8 DEF EditsTo
<1>10. ChildEdited(q, p, e, key, c, id)
  BY <1>9 DEF ChildEdited
<1> QED
  BY <1>10 DEF q, m, n

(* A sound child in place of another leaves a place sound. *)
LEMMA SetChildSound ==
    ASSUME NEW S, IsTree(S), NEW p, IsPlace(S, p), SoundAt(p), NEW e, NEW id,
           id # None => SoundAt(<<FullKey(p), id>>)
    PROVE  SoundAt(At0(p[1], SetChild(NodeOf(p[2]), e, id)))
<1> DEFINE n == NodeOf(p[2])
           m == SetChild(n, e, id)
           q == At0(p[1], m)
<1>0. IsNode(n) /\ FullKey(p) \in Seq(Byte)
  BY FullKeyFacts
<1>1. /\ m.label = n.label /\ m.binding = n.binding
      /\ \A f \in Edges(m) : f # e => f \in Edges(n) /\ m.children[f] = n.children[f]
      /\ Edges(m) = IF id = None THEN Edges(n) \ {e} ELSE Edges(n) \cup {e}
      /\ id # None => e \in Edges(m) /\ m.children[e] = id
  <2>1. ChildSet(m, n, e, id)
    BY <1>0, SetChildFacts
  <2> HIDE DEF m, n
  <2> QED
    BY <2>1 DEF ChildSet
<1>2. FullKey(p) = p[1] \o n.label /\ \A f : ChildPlace(p, f) = <<FullKey(p), n.children[f]>>
  BY DEF FullKey, ChildPlace
<1>3. PositionOk(p[1], n)
  BY SoundUnfold
<1>4. \A f \in Edges(n) : SoundAt(ChildPlace(p, f))
  BY SoundUnfold
<1> HIDE DEF m, n
<1>5. /\ q[1] = p[1] /\ NodeOf(q[2]) = m
      /\ \A f : ChildPlace(q, f) = <<FullKey(p), m.children[f]>>
  <2>1. q[1] = p[1] /\ NodeOf(q[2]) = m /\ FullKey(q) = p[1] \o m.label
    BY AtNode
  <2>2. \A f : ChildPlace(q, f) = <<p[1] \o m.label, m.children[f]>>
    BY ChildOfNode
  <2> HIDE DEF q
  <2> QED
    BY <1>1, <1>2, <2>1, <2>2
<1> HIDE DEF q
<1>6. PositionOk(q[1], NodeOf(q[2]))
  BY <1>1, <1>3, <1>5 DEF PositionOk, Joinable
<1>7. ASSUME NEW f \in Edges(m) PROVE SoundAt(ChildPlace(q, f))
  <2>1. CASE f = e
    BY <1>1, <1>5, <2>1
  <2>2. CASE f # e
    <3>1. f \in Edges(n) /\ m.children[f] = n.children[f]
      BY <1>1, <2>2, Zenon
    <3>2. ChildPlace(q, f) = ChildPlace(p, f)
      BY <1>2, <1>5, <3>1, Zenon
    <3> QED
      BY <1>4, <3>1, <3>2, Zenon
  <2> QED
    BY <2>1, <2>2
<1>8. SoundAt(q)
  BY <1>5, <1>6, <1>7, SoundUnfold
<1> QED
  BY <1>8 DEF q, m, n

(* Cutting a byte string and joining the pieces. *)
LEMMA Joins ==
    ASSUME NEW a \in Seq(Byte), NEW b \in Seq(Byte), NEW c \in Seq(Byte)
    PROVE  (a \o b) \o c = a \o (b \o c)
<1> DEFINE B == Byte
<1>1. a \in Seq(B) /\ b \in Seq(B) /\ c \in Seq(B)
  OBVIOUS
<1> HIDE DEF B
<1> QED
  BY <1>1, ConcatAssociative

(* A byte string cut in two and joined again. *)
LEMMA CutJoin ==
    ASSUME NEW s \in Seq(Byte), NEW n \in 0..Len(s)
    PROVE  /\ Before(s, n) \o From(s, n) = s
           /\ n < Len(s) => From(s, n) # << >> /\ From(s, n)[1] = s[n + 1]
           /\ From(s, n) \in Seq(Byte) /\ Len(From(s, n)) = Len(s) - n
<1>1. Before(s, n) \in Seq(Byte) /\ Len(Before(s, n)) = n
      /\ \A i \in 1..n : Before(s, n)[i] = s[i]
  BY BeginsBefore
<1>2. From(s, n) \in Seq(Byte) /\ Len(From(s, n)) = Len(s) - n
  BY Cuts
<1>3. \A i \in 1..Len(s) - n : From(s, n)[i] = s[n + i]
  <2>1. \A i \in n+1..Len(s) : s[i] \in Byte
    BY ElementOfSeq
  <2>2. \A i \in 1..Len(s) - n : SubSeq(s, n + 1, Len(s))[i] = s[n + 1 + i - 1]
    BY <2>1, SubSeqProperties
  <2>3. \A i \in 1..Len(s) - n : n + 1 + i - 1 = n + i
    OBVIOUS
  <2> QED
    BY <2>2, <2>3 DEF From
<1> DEFINE t == Before(s, n) \o From(s, n)
<1>4. /\ t \in Seq(Byte) /\ Len(t) = n + (Len(s) - n)
      /\ \A i \in 1..n : t[i] = s[i]
      /\ \A i \in 1..Len(s) - n : t[n + i] = s[n + i]
  <2>1. Begins(Before(s, n), t) /\ \A i \in 1..Len(s) - n : t[n + i] = From(s, n)[i]
    BY <1>1, <1>2, Joined
  <2>2. t \in Seq(Byte) /\ Len(t) = n + (Len(s) - n)
    BY <1>1, <1>2, Joined
  <2> HIDE DEF t
  <2> QED
    BY <1>1, <1>3, <2>1, <2>2 DEF Begins
<1> HIDE DEF t
<1>5. Len(t) = Len(s)
  BY <1>4
<1>6. ASSUME NEW i \in 1..Len(s) PROVE t[i] = s[i]
  <2>1. CASE i <= n
    BY <1>4, <2>1
  <2>2. CASE i > n
    <3>1. i - n \in 1..Len(s) - n /\ n + (i - n) = i
      BY <2>2
    <3>2. \A j \in 1..Len(s) - n : t[n + j] = s[n + j]
      BY <1>4
    <3>3. t[n + (i - n)] = s[n + (i - n)]
      BY <3>1, <3>2
    <3> QED
      BY <3>1, <3>3
  <2> QED
    BY <2>1, <2>2
<1>7. t = s
  BY <1>4, <1>5, <1>6
<1>8. ASSUME n < Len(s) PROVE From(s, n) # << >> /\ From(s, n)[1] = s[n + 1]
  <2>1. 1 \in 1..Len(s) - n /\ Len(s) - n # 0
    BY <1>8
  <2> QED
    BY <1>2, <1>3, <2>1
<1> QED
  BY <1>2, <1>7, <1>8 DEF t

LEMMA CutLabel ==
    ASSUME NEW a \in Seq(Byte), NEW s \in Seq(Byte), NEW n \in 0..Len(s)
    PROVE  (a \o Before(s, n)) \o From(s, n) = a \o s
<1>1. Before(s, n) \o From(s, n) = s
  BY CutJoin
<1>2. Before(s, n) \in Seq(Byte) /\ From(s, n) \in Seq(Byte)
  BY Cuts
<1>3. (a \o Before(s, n)) \o From(s, n) = a \o (Before(s, n) \o From(s, n))
  BY <1>2, Joins
<1> QED
  BY <1>1, <1>3

(* A child that the key leads to is touched. *)
LEMMA TouchChild ==
    ASSUME NEW p, NEW e \in Edges(NodeOf(p[2])), NEW key, Begins(FullKey(p), key)
    PROVE  Touched(p, NodeOf(p[2]).children[e], key)
<1>1. ChildPlace(p, e)[1] = FullKey(p) /\ ChildPlace(p, e)[2] = NodeOf(p[2]).children[e]
  BY DEF ChildPlace
<1> QED
  BY <1>1, TouchedHere, TouchedBelow

(* Setting or clearing the binding where the key ends. *)
LEMMA BindEdits ==
    ASSUME NEW S, IsTree(S), NEW p, IsPlace(S, p), NEW c \in Binding \cup {None}
    PROVE  LET m == [NodeOf(p[2]) EXCEPT !.binding = c]
               q == At0(p[1], m)
           IN  /\ EditsTo(q, p, FullKey(p), c) /\ FullKey(q) = FullKey(p)
               /\ m.label = NodeOf(p[2]).label /\ m.children = NodeOf(p[2]).children
               /\ m.binding = c
               /\ IsNode(m) /\ Refs(m) = Refs(NodeOf(p[2])) /\ WellLinked(m)
               /\ SoundAt(p) /\ PositionOk(p[1], m) => SoundAt(q)
<1> DEFINE n == NodeOf(p[2])
           m == [n EXCEPT !.binding = c]
           q == At0(p[1], m)
<1>0. IsNode(n) /\ FullKey(p) \in Seq(Byte) /\ WellLinked(n) /\ FullKey(p) = p[1] \o n.label
  BY FullKeyFacts DEF IsTree, IsPlace, FullKey
<1>1. m.label = n.label /\ m.children = n.children /\ m.binding = c
  <2> HIDE DEF n
  <2> QED
    BY <1>0 DEF IsNode, Node
<1>2. IsNode(m) /\ Refs(m) = Refs(n)
  <2> HIDE DEF n
  <2> QED
    BY <1>0, NodeEdits
<1>3. \A e : ChildPlace(p, e) = <<FullKey(p), n.children[e]>>
  BY DEF ChildPlace
<1>4. /\ q[1] = p[1] /\ NodeOf(q[2]) = m /\ FullKey(q) = p[1] \o m.label
      /\ \A e : ChildPlace(q, e) = <<p[1] \o m.label, m.children[e]>>
  <2> HIDE DEF m, n
  <2>1. q[1] = p[1] /\ NodeOf(q[2]) = m /\ FullKey(q) = p[1] \o m.label
    BY AtNode
  <2>2. \A e : ChildPlace(q, e) = <<p[1] \o m.label, m.children[e]>>
    BY ChildOfNode
  <2> QED
    BY <2>1, <2>2
<1> HIDE DEF q
<1>5. \A k, b : Bound(p, k, b) <=> Own(p, k, b)
                   \/ \E e \in Edges(n) : Bound(ChildPlace(p, e), k, b)
  BY BoundUnfold
<1>6. \A e \in Edges(n) : \A k, b : Bound(ChildPlace(p, e), k, b) => k # FullKey(p)
  <2> SUFFICES ASSUME NEW e \in Edges(n), NEW b, Bound(ChildPlace(p, e), FullKey(p), b)
               PROVE  FALSE
    OBVIOUS
  <2>1. Len(FullKey(p)) > Len(FullKey(p))
    BY BoundChild
  <2>2. ~(Len(FullKey(p)) > Len(FullKey(p)))
    BY <1>0, NoLonger, Zenon
  <2> QED
    BY <2>1, <2>2
<1>7. \A b : Own(p, FullKey(p), b) <=> b # None /\ n.binding = b
  BY DEF Own
<1>8. SoundAt(p) => \A e \in Edges(n) : SoundAt(ChildPlace(p, e))
  BY SoundUnfold
<1> HIDE DEF m
<1>9. FullKey(q) = FullKey(p) /\ Edges(m) = Edges(n)
      /\ \A e : ChildPlace(q, e) = ChildPlace(p, e)
  BY <1>0, <1>1, <1>3, <1>4 DEF Edges
<1>10. ASSUME NEW k, NEW b PROVE Bound(q, k, b) <=> Edited(p, FullKey(p), c, k, b)
  <2>1. Bound(q, k, b) <=> Own(q, k, b) \/ \E e \in Edges(n) : Bound(ChildPlace(p, e), k, b)
    BY <1>4, <1>9, BoundUnfold
  <2>2. Own(q, k, b) <=> b # None /\ k = FullKey(p) /\ b = c
    BY <1>1, <1>4, <1>9 DEF Own
  <2>3. Own(p, k, b) => k = FullKey(p)
    BY DEF Own
  <2> QED
    BY <1>5, <1>6, <2>1, <2>2, <2>3 DEF Edited
<1>11. WellLinked(m)
  BY <1>0, <1>1, <1>9 DEF WellLinked
<1>12. SoundAt(p) /\ PositionOk(p[1], m) => SoundAt(q)
  BY <1>4, <1>8, <1>9, SoundUnfold
<1>13. EditsTo(q, p, FullKey(p), c)
  BY <1>10 DEF EditsTo
<1> QED
  BY <1>1, <1>2, <1>9, <1>11, <1>12, <1>13 DEF m, q

(* The leaf that a key ends in where it leaves the trie. *)
LeafFor(key, n, c) == Node(From(key, n), c, NoChildren)

(* A new leaf stands for the one key it was made for. *)
LEMMA LeafEdits ==
    ASSUME NEW p, FullKey(p) \in Seq(Byte), NEW key \in Seq(Byte), NEW e,
           PassesAt(p, e, key), e \notin Edges(NodeOf(p[2])),
           NEW c \in Binding, Len(key) <= PathMaxBytes, DecodesToPath(key)
    PROVE  LET leaf == LeafFor(key, Len(FullKey(p)), c) IN
           /\ EdgeEditsTo(<<FullKey(p), Digest(leaf)>>, p, e, key, c)
           /\ SoundAt(<<FullKey(p), Digest(leaf)>>) /\ HangsFrom(Digest(leaf), e)
           /\ IsNode(leaf) /\ Refs(leaf) = {} /\ WellLinked(leaf) /\ Canonical(leaf)
           /\ leaf.label # << >> /\ leaf.label[1] = e /\ ~Blank(leaf) /\ ~PassThrough(leaf)
           /\ PositionOk(FullKey(p), leaf) /\ FullKey(p) = Before(key, Len(FullKey(p)))
<1> DEFINE F == FullKey(p)
           leaf == LeafFor(key, Len(F), c)
           q == <<F, Digest(leaf)>>
<1>0. /\ F \in Seq(Byte) /\ Len(F) \in 0..Len(key) /\ Begins(F, key)
      /\ Len(F) < Len(key) /\ key[Len(F) + 1] = e /\ Len(F) \in Nat /\ Len(key) \in Nat
  BY DEF PassesAt
<1>1. F = Before(key, Len(F))
  <2> HIDE DEF F
  <2>1. IsPrefixOf(F, key)
    BY <1>0, PrefixBegins
  <2> QED
    BY <2>1 DEF IsPrefixOf
<1> HIDE DEF F
<1>2. /\ leaf.label = From(key, Len(F)) /\ leaf.binding = c /\ leaf.children = NoChildren
      /\ leaf = Node(leaf.label, leaf.binding, leaf.children)
  BY DEF LeafFor, Node
<1>3. /\ Before(key, Len(F)) \o From(key, Len(F)) = key
      /\ From(key, Len(F)) # << >> /\ From(key, Len(F))[1] = key[Len(F) + 1]
      /\ From(key, Len(F)) \in Seq(Byte) /\ Len(From(key, Len(F))) = Len(key) - Len(F)
  BY <1>0, CutJoin
<1> HIDE DEF leaf
<1>4. Edges(leaf) = {} /\ Refs(leaf) = {}
  BY <1>2 DEF Edges, Refs, NoChildren
<1>5. IsNode(leaf)
  BY <1>2, <1>3, <1>4 DEF IsNode, Edges, NoChildren
<1>6. c # None
  BY NoneAssumption
<1>7. /\ WellLinked(leaf) /\ ~Blank(leaf) /\ ~PassThrough(leaf)
      /\ leaf.label # << >> /\ leaf.label[1] = e
  BY <1>0, <1>2, <1>3, <1>4, <1>6 DEF WellLinked, Blank, PassThrough
<1>8. Len(leaf.label) <= PathMaxBytes /\ Len(F) + Len(leaf.label) <= PathMaxBytes
  BY <1>0, <1>2, <1>3, PathMaxAssumption
<1>9. Canonical(leaf)
  BY <1>7, <1>8 DEF Canonical
<1>10. F \o leaf.label = key
  BY <1>1, <1>2, <1>3
<1>11. PositionOk(F, leaf)
  BY <1>8, <1>10 DEF PositionOk, Joinable
<1>12. q[1] = F /\ NodeOf(q[2]) = leaf /\ FullKey(q) = key
  BY <1>10 DEF FullKey, NodeOf, Digest
<1>13. HangsFrom(Digest(leaf), e)
  BY <1>7 DEF HangsFrom, NodeOf, Digest
<1> HIDE DEF q
<1>14. SoundAt(q)
  BY <1>4, <1>11, <1>12, SoundUnfold
<1>15. \A k, b : Bound(q, k, b) <=> EdgeEdited(p, e, key, c, k, b)
  <2>1. \A k, b : Bound(q, k, b) <=> Own(q, k, b)
    BY <1>4, <1>12, BoundUnfold
  <2> QED
    BY <1>2, <1>12, <2>1 DEF Own, EdgeEdited, Via
<1>16. EdgeEditsTo(q, p, e, key, c)
  BY <1>15 DEF EdgeEditsTo
<1> QED
  BY <1>1, <1>4, <1>5, <1>7, <1>9, <1>11, <1>13, <1>14, <1>16 DEF q, leaf, F

(* save's collapse: a node that only passes through takes on its child. *)
MergedNode(n, e) ==
    Node(n.label \o NodeOf(n.children[e]).label,
         NodeOf(n.children[e]).binding, NodeOf(n.children[e]).children)

MergesTo(S, p, e, m, q) ==
    LET n  == NodeOf(p[2])
        id == n.children[e]
    IN  /\ \A k, b : Bound(q, k, b) <=> Bound(p, k, b)
        /\ SoundAt(q) /\ PositionOk(p[1], m)
        /\ IsNode(m) /\ Refs(m) \subseteq S /\ WellLinked(m)
        /\ Canonical(m) /\ ~Blank(m)
        /\ n.label # << >> => m.label # << >> /\ m.label[1] = n.label[1]
        /\ n.label = << >> => m = NodeOf(id)
        /\ PositionOk(FullKey(p), NodeOf(id)) /\ HangsFrom(id, e) /\ id \in S

(* A node merged with its only child stands for what they stood for. *)
LEMMA MergeEdits ==
    ASSUME NEW S, IsTree(S), NEW p, IsPlace(S, p), SoundAt(p), NEW e,
           Edges(NodeOf(p[2])) = {e}, NodeOf(p[2]).binding = None,
           \A id \in S : Canonical(NodeOf(id)) \/ id = p[2],
           NodeOf(p[2]).children[e] # p[2]
    PROVE  LET m == MergedNode(NodeOf(p[2]), e) IN
           MergesTo(S, p, e, m, At0(p[1], m))
<1> DEFINE n == NodeOf(p[2])
           id == n.children[e]
           c == NodeOf(id)
           y == ChildPlace(p, e)
           m == MergedNode(n, e)
           q == At0(p[1], m)
<1>1. /\ IsPlace(S, y) /\ y[1] = FullKey(p) /\ y[2] = id
      /\ LabelOf(y) # << >> /\ LabelOf(y)[1] = e
  BY BelowFacts
<1>2. /\ n.label \in Seq(Byte) /\ IsNode(n) /\ p[1] \in Seq(Byte) /\ FullKey(p) = p[1] \o n.label
      /\ FullKey(p) \in Seq(Byte)
  BY FullKeyFacts DEF IsPlace, FullKey, LabelOf
<1>3. /\ c.label \in Seq(Byte) /\ IsNode(c) /\ FullKey(y) = FullKey(p) \o c.label
      /\ c.label # << >> /\ c.label[1] = e
  BY <1>1, FullKeyFacts DEF FullKey, LabelOf
<1>4. id \in S /\ Canonical(c) /\ Refs(c) \subseteq S /\ WellLinked(c)
  BY <1>1 DEF IsPlace, IsTree
<1>5. SoundAt(y)
  BY SoundUnfold
<1>6. PositionOk(y[1], c)
  BY <1>1, <1>5, SoundUnfold
<1>7. \A k, b : Bound(p, k, b) <=> Bound(y, k, b)
  <2>1. \A k, b : ~Own(p, k, b)
    BY DEF Own
  <2> QED
    BY <2>1, BoundUnfold
<1>8. /\ m.label = n.label \o c.label /\ m.binding = c.binding /\ m.children = c.children
      /\ m = Node(m.label, m.binding, m.children)
  BY DEF MergedNode, Node
<1>9. NodeOf(y[2]) = c
  BY <1>1
<1> HIDE DEF m, c, id, n, y
<1>10. m.label \in Seq(Byte) /\ Len(m.label) = Len(n.label) + Len(c.label)
  BY <1>2, <1>3, <1>8, Joined
<1>11. p[1] \o m.label = y[1] \o c.label
  <2>1. (p[1] \o n.label) \o c.label = p[1] \o (n.label \o c.label)
    BY <1>2, <1>3, Joins
  <2>2. y[1] = p[1] \o n.label
    BY <1>1, <1>2
  <2> QED
    BY <1>8, <2>1, <2>2
<1>12. PositionOk(p[1], m)
  <2>1. y[1] \in Seq(Byte)
    BY <1>1, <1>2
  <2>2. PositionOk(p[1], m) <=> PositionOk(y[1], c)
    <3>1. p[1] \in Seq(Byte) /\ m.label \in Seq(Byte) /\ c.label \in Seq(Byte)
      BY <1>2, <1>3, <1>10, Zenon
    <3>2. m.binding = c.binding
      BY <1>8, Zenon
    <3> QED
      BY <1>11, <2>1, <3>1, <3>2, PositionByKey, Zenon
  <2> QED
    BY <1>6, <2>2
<1>13. /\ q[1] = p[1] /\ NodeOf(q[2]) = m /\ FullKey(q) = p[1] \o m.label
  BY AtNode
<1>14. FullKey(q) = FullKey(y)
  BY <1>1, <1>3, <1>11, <1>13
<1> HIDE DEF q
<1>15. /\ \A k, b : Bound(y, k, b) <=> Bound(q, k, b)
       /\ SoundAt(y) /\ PositionOk(q[1], NodeOf(q[2])) => SoundAt(q)
  BY <1>8, <1>9, <1>13, <1>14, Shift
<1>16. SoundAt(q)
  BY <1>5, <1>12, <1>13, <1>15
<1>17. IsNode(m) /\ Refs(m) \subseteq S /\ WellLinked(m)
  BY <1>3, <1>4, <1>8, <1>10 DEF IsNode, Edges, Refs, WellLinked
<1>18. ~Blank(c) /\ ~PassThrough(c)
  BY <1>3, <1>4 DEF Canonical
<1>19. ~Blank(m) /\ ~PassThrough(m)
  BY <1>8, <1>18 DEF Blank, PassThrough, Edges
<1>20. Len(m.label) <= PathMaxBytes
  <2>1. Len(p[1]) + Len(m.label) <= PathMaxBytes
    BY <1>12 DEF PositionOk, Joinable
  <2>2. Len(p[1]) \in Nat /\ Len(m.label) \in Nat /\ PathMaxBytes \in Nat
    <3>1. Len(p[1]) \in Nat /\ Len(m.label) \in Nat
      BY <1>2, <1>10, NoLonger, Zenon
    <3> QED
      BY <3>1, PathMaxAssumption
  <2> QED
    BY <2>1, <2>2, SumBelow, Zenon
<1>21. Canonical(m)
  BY <1>19, <1>20 DEF Canonical
<1>22. ASSUME n.label # << >> PROVE m.label # << >> /\ m.label[1] = n.label[1]
  <2>1. Begins(n.label, m.label)
    BY <1>2, <1>3, <1>8, Joined
  <2>2. Len(n.label) >= 1 /\ Len(n.label) \in Nat
    BY <1>2, <1>22
  <2>3. m.label[1] = n.label[1]
    BY <2>1, <2>2, FirstBegins
  <2>4. m.label # << >>
    <3>1. Len(n.label) <= Len(m.label)
      BY <2>1 DEF Begins
    <3>2. ~(Len(n.label) <= 0) /\ Len(<< >>) = 0
      BY <2>2
    <3> QED
      BY <3>1, <3>2, Zenon
  <2> QED
    BY <2>3, <2>4
<1>23. ASSUME n.label = << >> PROVE m = c
  <2>1. m.label = c.label
    BY <1>3, <1>8, <1>23
  <2> QED
    BY <1>3, <1>8, <2>1 DEF IsNode
<1>24. HangsFrom(id, e)
  BY <1>3 DEF HangsFrom, c
<1> QED
  BY <1>1, <1>4, <1>6, <1>7, <1>12, <1>15, <1>16, <1>17, <1>19, <1>21, <1>22, <1>23, <1>24
     DEF m, c, id, n, y, q, MergesTo

(* The two nodes a label is split into stand for the node it was. *)
HeadOf(n, s) == Node(Before(n.label, s), None, NoChildren)
TailOf(n, s) == [n EXCEPT !.label = From(n.label, s)]

SplitAt(s, n, t, e, m, q, F, p) ==
    /\ IsNode(t) /\ WellLinked(t) /\ Canonical(t)
    /\ ~Blank(t) /\ ~PassThrough(t) /\ PositionOk(F, t)
    /\ t.label # << >> /\ t.label[1] = e /\ e \in Byte
    /\ \A k, b : Bound(q, k, b) <=> Bound(p, k, b)
    /\ SoundAt(q) /\ FullKey(q) = F
    /\ IsNode(m) /\ WellLinked(m)
    /\ m.label = Before(n.label, s) /\ m.binding = None
    /\ Edges(m) = {e} /\ m.children[e] = Digest(t)

(* A split label: the head with the tail as its child. *)
LEMMA SplitEdits ==
    ASSUME NoneIsApart, NEW S, IsTree(S), NEW p, IsPlace(S, p), SoundAt(p), Canonical(NodeOf(p[2])),
           NEW s \in 0..Len(NodeOf(p[2]).label), s < Len(NodeOf(p[2]).label)
    PROVE  LET n == NodeOf(p[2])
               t == TailOf(n, s)
               e == n.label[s + 1]
               m == SetChild(HeadOf(n, s), e, Digest(t))
               q == At0(p[1], m)
               F == p[1] \o Before(n.label, s)
           IN  /\ SplitAt(s, n, t, e, m, q, F, p)
               /\ Refs(t) \subseteq S /\ Refs(m) \subseteq S \cup {Digest(t)}
<1> DEFINE n == NodeOf(p[2])
           t == TailOf(n, s)
           e == n.label[s + 1]
           h == HeadOf(n, s)
           m == SetChild(h, e, Digest(t))
           q == At0(p[1], m)
           F == p[1] \o Before(n.label, s)
           y == At0(F, t)
<1>1. /\ n.label \in Seq(Byte) /\ IsNode(n) /\ p[1] \in Seq(Byte) /\ FullKey(p) = p[1] \o n.label
      /\ FullKey(p) \in Seq(Byte)
  BY FullKeyFacts DEF IsPlace, FullKey, LabelOf
<1>2. Refs(n) \subseteq S /\ WellLinked(n)
  BY DEF IsTree, IsPlace
<1>3. PositionOk(p[1], n)
  BY SoundUnfold
<1>4. n.label # << >>
  BY <1>1
<1>5. ~Blank(n) /\ ~PassThrough(n) /\ Len(n.label) <= PathMaxBytes
  BY <1>4 DEF Canonical
<1>6. /\ From(n.label, s) # << >> /\ From(n.label, s)[1] = e
      /\ From(n.label, s) \in Seq(Byte) /\ Len(From(n.label, s)) = Len(n.label) - s
  BY <1>1, CutJoin
<1>7. Before(n.label, s) \in Seq(Byte) /\ Len(Before(n.label, s)) = s
  BY <1>1, Cuts
<1>8. e \in Byte
  <2>1. s + 1 \in 1..Len(n.label)
    BY <1>1
  <2> QED
    BY <1>1, <2>1, ElementOfSeq
<1>9. F \o From(n.label, s) = p[1] \o n.label
  BY <1>1, CutLabel
<1>10. F \in Seq(Byte)
  BY <1>1, <1>7, Joined
<1>11. SoundAt(p) /\ IsPlace(S, p)
  OBVIOUS
<1>12. NodeOf(p[2]) = n
  OBVIOUS
<1> HIDE DEF n, e, F
<1>13. /\ t.label = From(n.label, s) /\ t.binding = n.binding /\ t.children = n.children
  BY <1>1 DEF TailOf, IsNode, Node
<1>14. IsNode(t) /\ Refs(t) = Refs(n)
  BY <1>1, <1>6, NodeEdits DEF TailOf
<1>15. h.label = Before(n.label, s) /\ h.binding = None /\ h.children = NoChildren
       /\ h = Node(h.label, h.binding, h.children)
  BY DEF HeadOf, Node
<1> HIDE DEF t, h
<1>16. Edges(h) = {} /\ Refs(h) = {}
  BY <1>15 DEF Edges, Refs, NoChildren
<1>17. IsNode(h) /\ WellLinked(h)
  BY <1>7, <1>15, <1>16 DEF IsNode, Edges, NoChildren, WellLinked
<1>18. Edges(t) = Edges(n) /\ WellLinked(t)
  BY <1>2, <1>13 DEF WellLinked, Edges
<1>19. ~Blank(t) /\ ~PassThrough(t)
  BY <1>5, <1>13, <1>18 DEF Blank, PassThrough
<1>20. Len(t.label) <= PathMaxBytes
  <2>1. Len(n.label) \in Nat /\ PathMaxBytes \in Nat /\ s \in Nat
    BY <1>1, PathMaxAssumption
  <2> QED
    BY <1>5, <1>6, <1>13, <2>1
<1>21. Canonical(t)
  BY <1>19, <1>20 DEF Canonical
<1>22. PositionOk(F, t)
  <2>1. t.label \in Seq(Byte) /\ F \o t.label = p[1] \o n.label
    BY <1>6, <1>9, <1>13, Zenon
  <2>2. PositionOk(F, t) <=> PositionOk(p[1], n)
    BY <1>1, <1>10, <1>13, <2>1, PositionByKey, Zenon
  <2> QED
    BY <1>3, <2>2
<1>23. NodeOf(Digest(t)) = t /\ Digest(t) # None
  <2>1. NodeOf(Digest(t)) = t
    BY DEF NodeOf, Digest
  <2>2. Digest(t) # None
    BY DEF NoneIsApart
  <2> QED
    BY <2>1, <2>2
<1>24. HangsFrom(Digest(t), e)
  BY <1>6, <1>13, <1>23 DEF HangsFrom
<1>25. ChildSet(m, h, e, Digest(t)) /\ IsNode(m)
       /\ \A r \in Refs(m) : r \in Refs(h) \/ (r = Digest(t) /\ Digest(t) # None)
  BY <1>8, <1>17, SetChildFacts, SetChildIsNode
<1>26. WellLinked(m)
  BY <1>17, <1>24, SetChildLinked
<1> HIDE DEF m
<1>27. /\ m.label = Before(n.label, s) /\ m.binding = None
       /\ Edges(m) = {e} /\ m.children[e] = Digest(t)
  BY <1>15, <1>16, <1>23, <1>25 DEF ChildSet
<1>28. y[1] = F /\ y[2] = Digest(t) /\ NodeOf(y[2]) = t /\ FullKey(y) = F \o t.label
  BY AtNode
<1>29. q[1] = p[1] /\ q[2] = Digest(m) /\ NodeOf(q[2]) = m /\ FullKey(q) = p[1] \o m.label
  BY AtNode
<1>30. ChildPlace(q, e) = y
  <2>1. ChildPlace(q, e) = <<p[1] \o m.label, m.children[e]>>
    BY ChildOfNode
  <2>2. y = <<F, Digest(t)>>
    BY DEF At0
  <2> HIDE DEF q, y
  <2> QED
    BY <1>27, <2>1, <2>2 DEF F
<1> HIDE DEF q, y
<1>31. FullKey(q) = F
  BY <1>27, <1>29 DEF F
<1>32. FullKey(y) = FullKey(p)
  BY <1>1, <1>9, <1>13, <1>28
<1>33. /\ \A k, b : Bound(p, k, b) <=> Bound(y, k, b)
       /\ SoundAt(p) /\ PositionOk(y[1], NodeOf(y[2])) => SoundAt(y)
  BY <1>12, <1>13, <1>28, <1>32, Shift
<1>34. SoundAt(y)
  BY <1>11, <1>22, <1>28, <1>33
<1>35. PositionOk(p[1], m)
  <2>1. Len(p[1]) + Len(n.label) <= PathMaxBytes
    BY <1>3 DEF PositionOk, Joinable
  <2>2. /\ Len(p[1]) \in Nat /\ Len(n.label) \in Nat /\ PathMaxBytes \in Nat /\ s \in Nat
        /\ s <= Len(n.label)
    <3>1. Len(p[1]) \in Nat /\ Len(n.label) \in Nat
      BY <1>1, NoLonger, Zenon
    <3>2. PathMaxBytes \in Nat
      BY PathMaxAssumption
    <3>3. s \in 0..Len(n.label)
      BY DEF n
    <3> QED
      BY <3>1, <3>2, <3>3
  <2>3. Len(p[1]) + s <= PathMaxBytes
    BY <2>1, <2>2, SumBelow
  <2> QED
    BY <1>7, <1>27, <2>3 DEF PositionOk, Joinable
<1>36. SoundAt(q)
  BY <1>27, <1>29, <1>30, <1>34, <1>35, SoundUnfold
<1>37. \A k, b : Bound(q, k, b) <=> Bound(y, k, b)
  <2>1. \A k, b : ~Own(q, k, b)
    BY <1>27, <1>29 DEF Own
  <2> QED
    BY <1>27, <1>29, <1>30, <2>1, BoundUnfold
<1>38. \A k, b : Bound(q, k, b) <=> Bound(p, k, b)
  BY <1>33, <1>37
<1>39. Refs(m) \subseteq S \cup {Digest(t)}
  BY <1>16, <1>25
<1>40. t.label # << >> /\ t.label[1] = e /\ Refs(t) \subseteq S
  BY <1>2, <1>6, <1>13, <1>14
<1>41. SplitAt(s, n, t, e, m, q, F, p)
  BY <1>8, <1>14, <1>18, <1>19, <1>21, <1>22, <1>26, <1>25, <1>27, <1>31, <1>36, <1>38, <1>39, <1>40
     DEF SplitAt
<1> QED
  BY <1>39, <1>40, <1>41 DEF n, e, F, t, h, m, q

-----------------------------------------------------------------------------
(* The second invariant: what the nodes in the store and the nodes a call   *)
(* holds mean.                                                              *)

Trie == stored \cup {EmptyRoot}

(* Every row is canonical and linked, every root the caller holds is sound. *)
World ==
    /\ \A id \in stored : Canonical(NodeOf(id)) /\ WellLinked(NodeOf(id))
    /\ \A root \in roots : SoundAt(Top(root))

Old  == Top(call.root)                               \* the trie of the call
Here == <<Before(Key, cursor.offset), cursor.id>>    \* the loop's place

(* The ancestors lead from the old root to the hole, where the node that a  *)
(* save is working on will go.                                              *)
PlaceOf(key, a)          == <<Before(key, a.offset), a.id>>
HoleAt(key, old, anc, i) ==
    IF i = 0 THEN old ELSE ChildPlace(PlaceOf(key, anc[i]), anc[i].edge)

OnWay(old, key, p) == Under(old, p) /\ Begins(p[1], key)
Passes(key, a)     == a.edge \in Edges(NodeOf(a.id)) /\ PassesAt(PlaceOf(key, a), a.edge, key)

ChainIn(key, old, anc) ==
    /\ \A i \in 0..Len(anc) : OnWay(old, key, HoleAt(key, old, anc, i))
    /\ \A i \in 1..Len(anc) : /\ PlaceOf(key, anc[i]) = HoleAt(key, old, anc, i - 1)
                              /\ Passes(key, anc[i])

Chain == ChainIn(Key, Old, ancestors)
Hole  == HoleAt(Key, Old, ancestors, Len(ancestors))

(* A node that may go into the hole: it hangs from the hole's edge. *)
Fits(node, anc) ==
    anc # << >> => /\ node.label # << >>
                   /\ node.label[1] = anc[Len(anc)].edge

(* The bindings the key passes, and what a walk that has come down to p has *)
(* made of those above it.                                                  *)
OnKey(old, key, k, b) == Bound(old, k, b) /\ Begins(k, key)

FoundIs(f, k, b) == f = [path |-> KeyPath(k), binding |-> b]

FoundIn(f, old, key, p) ==
    \/ f = None /\ \A k, b : OnKey(old, key, k, b) => Bound(p, k, b)
    \/ \E fk, fb :
         /\ FoundIs(f, fk, fb) /\ OnKey(old, key, fk, fb)
         /\ Len(fk) <= Len(p[1]) /\ Len(fk) < Len(key)
         /\ \A k, b : OnKey(old, key, k, b) => Bound(p, k, b) \/ Len(k) <= Len(fk)

AtLoad ==
    /\ OnWay(Old, Key, Here)
    /\ cursor.edge # None => HangsFrom(cursor.id, cursor.edge)
    /\ inserted = {}
    /\ \A b : Bound(Old, Key, b) <=> Bound(Here, Key, b)
    /\ call.kind = "update" => Chain /\ Hole = Here
    /\ call.kind # "update" => FoundIn(found, Old, Key, Here)

(* The binding the update asks for is not the one that is there. *)
Differs(old, key, c) == \E b : Bound(old, key, b) <=> ~(b # None /\ b = c)

(* A node that stands in the hole for the edited map, with what is inserted. *)
Stands(id, hole, key, c, ins) ==
    /\ EditsTo(<<hole[1], id>>, hole, key, c)
    /\ SoundAt(<<hole[1], id>>)
    /\ \A i \in ins : Touched(<<hole[1], id>>, i, key)

AtSpine ==
    /\ job.prefix = Hole[1]
    /\ Stands(Digest(job.node), Hole, Key, call.binding, inserted)
    /\ Fits(job.node, ancestors)

(* The child of a node that only passes through: the only row inserted so   *)
(* far, below an empty root, or a row of the old trie beside the key.       *)
MayMerge(id, node, ins, old, key) ==
    \/ ins = {id} /\ node.label = << >>
    \/ ins = {} /\ Touched(old, id, key)

AtCollapse ==
    job.next = "spine" /\ AtSpine /\ MayMerge(OnlyId, job.node, inserted, Old, Key)

(* The tail of the label of the node at the cursor is being saved. *)
AtTail ==
    /\ OnWay(Old, Key, Here) /\ Hole = Here
    /\ Shared < Len(N.label)
    /\ job.node = TailOf(N, Shared) /\ job.prefix = Before(Key, At)
    /\ parent = [node |-> HeadOf(N, Shared), offset |-> cursor.offset, at |-> At]
    /\ call.binding # None /\ inserted = {}

(* A node that stands for the old map waits for the leaf being saved. *)
Waits(node, hole, key, at, anc, ins) ==
    LET p == <<hole[1], Digest(node)>>
    IN  /\ FullKey(p) = Before(key, at) /\ key[at + 1] \notin Edges(node)
        /\ \A k, b : Bound(p, k, b) <=> Bound(hole, k, b)
        /\ SoundAt(p) /\ WellLinked(node) /\ Fits(node, anc)
        /\ ins \subseteq Refs(node)
        /\ Edges(node) = {} /\ node.binding = None => ins = {} /\ node.label = << >>

AtLeaf ==
    /\ call.binding # None /\ parent.at < Len(Key)
    /\ job.node = Leaf(parent.at) /\ job.prefix = Before(Key, parent.at)
    /\ Before(Key, parent.offset) = Hole[1]
    /\ Waits(parent.node, Hole, Key, parent.at, ancestors, inserted)

AtInsert ==
    /\ Canonical(job.node)
    /\ job.next = "tail" => AtTail
    /\ job.next = "leaf" => AtLeaf
    /\ job.next = "spine" => AtSpine

AtRise ==
    /\ replacement = None => inserted = {} /\ Gone(Hole, Key, call.binding)
    /\ replacement # None => /\ Stands(replacement, Hole, Key, call.binding, inserted)
                             /\ Fits(NodeOf(replacement), ancestors)

Working ==
    pc \in {"collapse", "insert", "rise"} =>
        /\ call.kind = "update" /\ Chain /\ Differs(Old, Key, call.binding)
        /\ pc = "collapse" => WellLinked(job.node) /\ AtCollapse
        /\ pc = "insert"   => WellLinked(job.node) /\ AtInsert
        /\ pc = "rise"     => AtRise

(* What a call returns. *)
GetIs(v, old, key) == /\ v = None => \A b : ~Bound(old, key, b)
                      /\ v # None => Bound(old, key, v)

PrefixIs(v, old, key) ==
    \/ v = None /\ \A k, b : ~OnKey(old, key, k, b)
    \/ \E fk, fb : /\ FoundIs(v, fk, fb) /\ OnKey(old, key, fk, fb)
                   /\ \A k, b : OnKey(old, key, k, b) => Len(k) <= Len(fk)

UpdateIs(v, old, key, c, ins) ==
    /\ SoundAt(Top(v)) /\ EditsTo(Top(v), old, key, c)
    /\ \/ Top(v) = old /\ ins = {}
       \/ Differs(old, key, c) /\ \A i \in ins : Touched(Top(v), i, key)

Answered ==
    pc = "return" /\ result.outcome = "ok" =>
        /\ call.kind = "get"            => GetIs(result.value, Old, Key)
        /\ call.kind = "longest_prefix" => PrefixIs(result.value, Old, Key)
        /\ call.kind = "update" =>
              UpdateIs(result.value, Old, Key, call.binding, inserted)

(* What a codec error means. *)
Blamed(id) == id \in corrupt /\ (id \in inserted \/ Touched(Old, id, Key))

CodecBlamed ==
    pc = "return" /\ result.outcome = "codec" /\ ValidPath(call.path) =>
        \E id : Blamed(id)

CallSound ==
    /\ pc = "idle" => found = None
    /\ pc # "idle" => /\ SoundAt(Old)
                      /\ pc # "return" => ValidPath(call.path)
                      /\ result.outcome = "ok" => ValidPath(call.path)

SInv ==
    /\ World /\ CallSound
    /\ pc = "load" => AtLoad
    /\ Working /\ Answered /\ CodecBlamed

-----------------------------------------------------------------------------
(* What the store and the call are like under both invariants. *)
LEMMA TrieFacts ==
    ASSUME IInv, World
    PROVE  /\ IsTree(Trie) /\ \A id \in Trie : Canonical(NodeOf(id)) /\ WellLinked(NodeOf(id))
           /\ EmptyRoot \in Trie /\ stored \subseteq Trie
<1>1. \A id \in stored : IsRow(id) /\ Refs(NodeOf(id)) \subseteq stored
  BY DEF IInv, TypeOK, NoDangling
<1>2. IsRow(EmptyRoot)
  BY EmptyBinds DEF IsRow, EmptyRoot, NodeOf, Digest
<1> QED
  BY <1>1, <1>2, EmptyBinds DEF Trie, IsTree, World

(* What the arguments of a call are. *)
LEMMA CallFacts ==
    ASSUME IInv, World
    PROVE  /\ call.root \in Trie /\ call.path \in Seq(Byte) /\ call.binding \in Binding \cup {None}
           /\ Key \in Seq(Byte) /\ Key = EncodeKey(call.path)
           /\ IsPlace(Trie, Old) /\ Old[1] = << >> /\ Old[2] = call.root
           /\ ValidPath(call.path) => /\ DecodesToPath(Key) /\ Len(Key) <= PathMaxBytes
                                      /\ KeyPath(Key) = call.path
<1>1. call.root \in Trie /\ call.path \in Seq(Byte) /\ call.binding \in Binding \cup {None}
  BY DEF IInv, TypeOK, Trie
<1>2. Key \in Seq(Byte) /\ Key = EncodeKey(call.path)
  BY <1>1, KeysAreBytes DEF Key
<1>3. IsPlace(Trie, Old) /\ Old[1] = << >> /\ Old[2] = call.root
  BY <1>1, TopIsPlace DEF Old
<1> QED
  BY <1>1, <1>2, <1>3, ValidKey

(* The node the loop has loaded, and where the key leaves it. *)
LEMMA HereFacts ==
    ASSUME IInv, World, SoundAt(Old), OnWay(Old, Key, Here)
    PROVE  /\ IsTree(Trie) /\ IsPlace(Trie, Here)
           /\ Here[1] = Before(Key, cursor.offset) /\ Here[2] = cursor.id /\ NodeOf(Here[2]) = N
           /\ Len(Here[1]) = cursor.offset /\ cursor.offset \in 0..Len(Key)
           /\ IsNode(N) /\ Canonical(N) /\ WellLinked(N) /\ SoundAt(Here)
           /\ N.label \in Seq(Byte) /\ PositionOk(Here[1], N)
<1>1. IsTree(Trie) /\ \A id \in Trie : Canonical(NodeOf(id)) /\ WellLinked(NodeOf(id))
  BY TrieFacts
<1>2. IsPlace(Trie, Old) /\ Key \in Seq(Byte)
  BY CallFacts
<1>3. Here[1] = Before(Key, cursor.offset) /\ Here[2] = cursor.id /\ NodeOf(Here[2]) = N
  BY DEF Here, N
<1>4. Under(Old, Here) /\ SoundAt(Old)
  BY DEF OnWay
<1>5. IsPlace(Trie, Here)
  BY <1>1, <1>2, <1>4, UnderPlaces
<1>6. SoundAt(Here)
  BY <1>4, SoundUnder
<1>7. cursor.offset \in 0..Len(Key)
  BY <1>2 DEF IInv, TypeOK, Work, WithinKey
<1>8. Len(Here[1]) = cursor.offset
  BY <1>2, <1>3, <1>7, Cuts
<1>9. IsNode(N) /\ N.label \in Seq(Byte)
  BY <1>1, <1>3, <1>5, FullKeyFacts DEF LabelOf
<1>10. Canonical(N) /\ WellLinked(N)
  BY <1>1, <1>3, <1>5 DEF IsPlace
<1>11. PositionOk(Here[1], N)
  BY <1>3, <1>6, SoundUnfold
<1> QED
  BY <1>1, <1>3, <1>5, <1>6, <1>7, <1>8, <1>9, <1>10, <1>11

(* How far the key and the label agree. *)
LEMMA SharedFacts ==
    ASSUME IInv, World, SoundAt(Old), OnWay(Old, Key, Here)
    PROVE  /\ Shared \in 0..Len(N.label) /\ At \in 0..Len(Key) /\ At = cursor.offset + Shared
           /\ Before(Key, At) = Here[1] \o Before(N.label, Shared)
           /\ FullKey(Here) = Here[1] \o N.label
           /\ Shared = Len(N.label) => /\ FullKey(Here) = Before(Key, At)
                                       /\ Begins(FullKey(Here), Key)
                                       /\ Len(FullKey(Here)) = At
           /\ Shared < Len(N.label) => /\ ~Begins(FullKey(Here), Key)
                                       /\ At < Len(Key) => Key[At + 1] # N.label[Shared + 1]
<1>1. /\ Here[1] = Before(Key, cursor.offset) /\ Len(Here[1]) = cursor.offset
      /\ cursor.offset \in 0..Len(Key) /\ N.label \in Seq(Byte) /\ NodeOf(Here[2]) = N
  BY HereFacts
<1>2. Key \in Seq(Byte) /\ Len(Key) \in Nat
  BY CallFacts, NoLonger
<1> DEFINE o == cursor.offset
           l == N.label
           s == Shared
<1>3. Rest \in Seq(Byte) /\ Len(Rest) = Len(Key) - o /\ Before(Key, o) \o Rest = Key
  BY <1>1, <1>2, CutJoin DEF Rest
<1>4. Before(Key, o) \in Seq(Byte) /\ Len(Before(Key, o)) = o
  BY <1>1, <1>2, Cuts
<1>5. \A i \in 1..Len(Rest) : Rest[i] = Key[o + i]
  <2>1. \A i \in 1..Len(Rest) : (Before(Key, o) \o Rest)[Len(Before(Key, o)) + i] = Rest[i]
    BY <1>3, <1>4, Joined
  <2> QED
    BY <1>3, <1>4, <2>1
<1>6. /\ s \in 0..Len(l) /\ s <= Len(Rest)
      /\ \A k \in 1..s : Rest[k] = l[k]
      /\ s < Len(Rest) /\ s < Len(l) => Rest[s + 1] # l[s + 1]
  BY <1>1, <1>3, CommonIs DEF Shared
<1>7. FullKey(Here) = Here[1] \o l
  BY <1>1 DEF FullKey
<1>8. At = o + s
  BY DEF At
<1>9. /\ FullKey(Here) \in Seq(Byte) /\ Len(FullKey(Here)) = o + Len(l)
      /\ Begins(Here[1], FullKey(Here))
      /\ \A i \in 1..Len(l) : FullKey(Here)[o + i] = l[i]
  <2>1. Here[1] \in Seq(Byte) /\ l \in Seq(Byte) /\ Len(Here[1]) = o
    BY <1>1, <1>4
  <2> HIDE DEF l, o
  <2>2. /\ Here[1] \o l \in Seq(Byte) /\ Len(Here[1] \o l) = o + Len(l)
        /\ Begins(Here[1], Here[1] \o l)
        /\ \A i \in 1..Len(l) : (Here[1] \o l)[o + i] = l[i]
    BY <2>1, Joined
  <2> QED
    BY <1>7, <2>2 DEF l
<1>10. Before(l, s) \in Seq(Byte) /\ Len(Before(l, s)) = s
       /\ \A i \in 1..s : Before(l, s)[i] = l[i]
  BY <1>1, <1>6, BeginsBefore
<1> DEFINE F == FullKey(Here)
           b == Here[1] \o Before(l, s)
<1>11. /\ b \in Seq(Byte) /\ Len(b) = o + s
       /\ Begins(Here[1], b)
       /\ \A i \in 1..s : b[o + i] = l[i]
  <2>1. /\ b \in Seq(Byte) /\ Len(b) = o + s /\ Begins(Here[1], b)
    BY <1>1, <1>4, <1>10, Joined
  <2>2. \A i \in 1..s : b[o + i] = Before(l, s)[i]
    BY <1>1, <1>4, <1>10, Joined
  <2> HIDE DEF b
  <2> QED
    BY <1>10, <2>1, <2>2
<1> HIDE DEF b, F, o, l, s
<1>12. o \in Nat /\ s \in Nat /\ Len(l) \in Nat /\ o <= Len(Key) /\ s <= Len(l) /\ s <= Len(Key) - o
  BY <1>1, <1>2, <1>3, <1>6 DEF o, l
<1>13. o + s \in 0..Len(Key)
  BY <1>2, <1>12
<1>14. \A i \in 1..o : Here[1][i] = Key[i]
  <2>1. Here[1] = Before(Key, o) /\ o \in 0..Len(Key)
    BY <1>1, Zenon DEF o
  <2>2. \A i \in 1..o : Before(Key, o)[i] = Key[i]
    BY <1>2, <2>1, BeginsBefore, Zenon
  <2> QED
    BY <2>1, <2>2, Zenon
<1>15. \A i \in 1..s : Key[o + i] = l[i]
  <2> TAKE i \in 1..s
  <2>1. i \in 1..Len(Rest)
    BY <1>2, <1>3, <1>12
  <2> QED
    BY <1>5, <1>6, <2>1
<1>16. Begins(b, Key)
  <2>1. ASSUME NEW i \in 1..o + s PROVE b[i] = Key[i]
    <3>1. CASE i <= o
      <4>1. i \in 1..o /\ o = Len(Here[1])
        BY <1>1, <1>12, <3>1 DEF o
      <4>2. b[i] = Here[1][i]
        BY <1>11, <4>1 DEF Begins
      <4> QED
        BY <1>14, <4>1, <4>2
    <3>2. CASE i > o
      <4>1. i - o \in 1..s /\ o + (i - o) = i
        BY <1>12, <3>2
      <4>2. b[o + (i - o)] = l[i - o] /\ Key[o + (i - o)] = l[i - o]
        BY <1>11, <1>15, <4>1
      <4> QED
        BY <4>1, <4>2
    <3> QED
      BY <1>12, <3>1, <3>2
  <2>2. o + s <= Len(Key)
    BY <1>13
  <2> QED
    BY <1>11, <2>1, <2>2 DEF Begins
<1>17. b = Before(Key, o + s)
  <2>1. IsPrefixOf(b, Key)
    BY <1>2, <1>11, <1>16, PrefixBegins
  <2> QED
    BY <1>11, <2>1 DEF IsPrefixOf
<1>18. ASSUME s = Len(l) PROVE F = b
  <2>1. Before(l, s) = l
    <3>1. Begins(Before(l, s), l) /\ Before(l, s) \in Seq(Byte) /\ l \in Seq(Byte)
          /\ Len(Before(l, s)) = s
      BY <1>1, <1>6, BeginsBefore DEF l
    <3>2. Len(l) <= Len(Before(l, s))
      BY <1>12, <1>18, <3>1
    <3> QED
      BY <3>1, <3>2, BeginsWhole
  <2> QED
    BY <1>7, <2>1 DEF F, b
<1>19. ASSUME s < Len(l), Begins(F, Key) PROVE FALSE
  <2>1. Len(F) <= Len(Key) /\ \A i \in 1..Len(F) : F[i] = Key[i]
    BY <1>19 DEF Begins
  <2>2. Len(F) = o + Len(l) /\ \A i \in 1..Len(l) : F[o + i] = l[i]
    BY <1>9 DEF F
  <2>3. s + 1 \in 1..Len(l) /\ o + (s + 1) \in 1..Len(F) /\ s + 1 \in 1..Len(Rest)
    BY <1>2, <1>3, <1>12, <1>19, <2>1, <2>2
  <2>4. Key[o + (s + 1)] = l[s + 1]
    BY <2>1, <2>2, <2>3
  <2>5. Rest[s + 1] = l[s + 1]
    BY <1>5, <2>3, <2>4
  <2>6. s < Len(Rest)
    BY <1>12, <1>3, <2>3
  <2> QED
    BY <1>6, <1>19, <2>5, <2>6
<1>20. ASSUME s < Len(l), o + s < Len(Key) PROVE Key[(o + s) + 1] # l[s + 1]
  <2>1. s + 1 \in 1..Len(Rest) /\ o + (s + 1) = (o + s) + 1 /\ s < Len(Rest)
    BY <1>2, <1>3, <1>12, <1>20
  <2>2. Rest[s + 1] = Key[o + (s + 1)]
    BY <1>5, <2>1
  <2> QED
    BY <1>6, <1>20, <2>1, <2>2
<1> QED
  BY <1>6, <1>7, <1>8, <1>11, <1>13, <1>16, <1>17, <1>18, <1>19, <1>20 DEF o, l, s, F, b

(* ... which the loop is at whenever it loads a node. *)
LEMMA LoadFacts ==
    ASSUME IInv, SInv, pc = "load"
    PROVE  /\ World /\ SoundAt(Old) /\ OnWay(Old, Key, Here) /\ AtLoad /\ ValidPath(call.path)
           /\ result.outcome = "pending"
  BY DEF SInv, AtLoad, CallSound, IInv, TypeOK

(* Below a place below another. *)
LEMMA UnderBeyond ==
    ASSUME NEW p, NEW x, NEW y, Under(p, x), Under(x, y)
    PROVE  Under(p, y)
<1> DEFINE T == {d \in Nat : \A q, z : Under(p, q) /\ Leads(q, d, z) => Under(p, z)}
<1>1. 0 \in T
  BY LeadsZero
<1>2. \A d \in Nat : d \in T => d + 1 \in T
  <2> SUFFICES ASSUME NEW d \in Nat, d \in T, NEW q, NEW z, Under(p, q), Leads(q, d + 1, z)
               PROVE  Under(p, z)
    OBVIOUS
  <2>1. PICK w : Leads(q, d, w) /\ z \in Below(w)
    BY LeadsLast
  <2> QED
    BY <2>1, UnderLast
<1> HIDE DEF T
<1>3. \A d \in Nat : d \in T
  BY <1>1, <1>2, EveryNumber
<1>4. PICK d \in Nat : Leads(x, d, y)
  BY DEF Under
<1> QED
  BY <1>3, <1>4 DEF T

LEMMA BoundBeyond ==
    ASSUME NEW p, NEW x, Under(p, x), NEW k, NEW b, Bound(x, k, b)
    PROVE  Bound(p, k, b)
<1>1. PICK y : Under(x, y) /\ Own(y, k, b)
  BY DEF Bound
<1> QED
  BY <1>1, UnderBeyond DEF Bound

(* The child of a place on the way that the key goes on to. *)
LEMMA WayDown ==
    ASSUME NEW old, NEW key, NEW p, OnWay(old, key, p), NEW e,
           e \in Edges(NodeOf(p[2])), Begins(FullKey(p), key)
    PROVE  OnWay(old, key, ChildPlace(p, e)) /\ Touched(old, NodeOf(p[2]).children[e], key)
<1>1. ChildPlace(p, e) \in Below(p)
  BY BelowIsChild
<1>2. ChildPlace(p, e)[1] = FullKey(p) /\ ChildPlace(p, e)[2] = NodeOf(p[2]).children[e]
  BY DEF ChildPlace
<1> QED
  BY <1>1, <1>2, UnderLast DEF OnWay, Touched

-----------------------------------------------------------------------------
(* What walk makes of the bindings the key passes. *)

(* Past the node at p, whose own binding is now accounted for. *)
FoundPast(f, old, key, p) ==
    \/ /\ f = None
       /\ \A k, b : OnKey(old, key, k, b) => Bound(p, k, b) /\ k # FullKey(p)
    \/ \E fk, fb :
         /\ FoundIs(f, fk, fb) /\ OnKey(old, key, fk, fb) /\ Len(fk) <= Len(FullKey(p))
         /\ \A k, b : OnKey(old, key, k, b) =>
               (Bound(p, k, b) /\ k # FullKey(p)) \/ Len(k) <= Len(fk)

AfterNode(f, p) ==
    IF NodeOf(p[2]).binding = None THEN f
    ELSE [path |-> KeyPath(FullKey(p)), binding |-> NodeOf(p[2]).binding]

(* A binding on the way is the longest found so far. *)
LEMMA PassNode ==
    ASSUME NEW S, IsTree(S), NEW old, NEW key \in Seq(Byte), NEW p, IsPlace(S, p),
           Under(old, p), Begins(FullKey(p), key), NEW f, FoundIn(f, old, key, p)
    PROVE  FoundPast(AfterNode(f, p), old, key, p)
<1> DEFINE F == FullKey(p)
           n == NodeOf(p[2])
<1>1. /\ F \in Seq(Byte) /\ Len(p[1]) <= Len(F) /\ p[1] \in Seq(Byte)
  BY FullKeyFacts DEF IsPlace, Begins
<1>2. \A b : Bound(p, F, b) <=> b # None /\ n.binding = b
  BY BoundHere
<1> HIDE DEF F, n
<1>3. CASE n.binding = None
  <2>1. \A k, b : Bound(p, k, b) => k # F
    BY <1>2, <1>3
  <2>2. AfterNode(f, p) = f
    BY <1>3 DEF AfterNode, n
  <2>3. CASE f = None /\ \A k, b : OnKey(old, key, k, b) => Bound(p, k, b)
    BY <2>1, <2>2, <2>3 DEF FoundPast, F
  <2>4. CASE \E fk, fb :
         /\ FoundIs(f, fk, fb) /\ OnKey(old, key, fk, fb)
         /\ Len(fk) <= Len(p[1]) /\ Len(fk) < Len(key)
         /\ \A k, b : OnKey(old, key, k, b) => Bound(p, k, b) \/ Len(k) <= Len(fk)
    <3>1. PICK fk, fb :
         /\ FoundIs(f, fk, fb) /\ OnKey(old, key, fk, fb)
         /\ Len(fk) <= Len(p[1]) /\ Len(fk) < Len(key)
         /\ \A k, b : OnKey(old, key, k, b) => Bound(p, k, b) \/ Len(k) <= Len(fk)
      BY <2>4
    <3>2. Bound(old, fk, fb)
      BY <3>1 DEF OnKey
    <3>3. Len(fk) <= Len(F)
      BY <1>1, <3>1
    <3>4. \A k, b : OnKey(old, key, k, b) =>
               (Bound(p, k, b) /\ k # F) \/ Len(k) <= Len(fk)
      BY <2>1, <3>1
    <3> QED
      BY <2>2, <3>1, <3>3, <3>4 DEF FoundPast, F
  <2> QED
    BY <2>3, <2>4 DEF FoundIn
<1>4. CASE n.binding # None
  <2>1. Bound(p, F, n.binding)
    BY <1>2, <1>4
  <2>2. OnKey(old, key, F, n.binding)
    BY <2>1, BoundBeyond DEF OnKey, F
  <2>3. FoundIs(AfterNode(f, p), F, n.binding)
    BY <1>4 DEF FoundIs, AfterNode, F, n
  <2>4. ASSUME NEW k, NEW b, OnKey(old, key, k, b), Bound(p, k, b) => k = F
        PROVE  Len(k) <= Len(F)
    <3>1. CASE k = F
      BY <1>1, <3>1
    <3>2. CASE k # F
      <4>1. ~Bound(p, k, b)
        BY <2>4, <3>2
      <4>2. PICK fk, fb : Len(fk) <= Len(p[1]) /\ OnKey(old, key, fk, fb) /\ Len(k) <= Len(fk)
        BY <2>4, <4>1 DEF FoundIn
      <4>3. PICK m \in Nat : m = Len(p[1])
        BY <1>1
      <4> QED
        BY <1>1, <4>2, <4>3
    <3> QED
      BY <3>1, <3>2
  <2>5. \A k, b : OnKey(old, key, k, b) => (Bound(p, k, b) /\ k # F) \/ Len(k) <= Len(F)
    BY <2>4
  <2>6. Len(F) <= Len(F)
    BY <1>1
  <2> QED
    BY <2>2, <2>3, <2>5, <2>6 DEF FoundPast, F
<1> QED
  BY <1>3, <1>4

(* The walk ends where the key leaves the trie. *)
LEMMA FoundLast ==
    ASSUME NEW f, NEW old, NEW key, NEW p, FoundIn(f, old, key, p),
           \A k, b : OnKey(old, key, k, b) => ~Bound(p, k, b)
    PROVE  PrefixIs(f, old, key)
  BY DEF FoundIn, PrefixIs

LEMMA PastLast ==
    ASSUME NEW f, NEW old, NEW key, NEW p, FoundPast(f, old, key, p),
           \A k, b : OnKey(old, key, k, b) /\ k # FullKey(p) => ~Bound(p, k, b)
    PROVE  PrefixIs(f, old, key)
  BY DEF FoundPast, PrefixIs

(* The walk goes on below p. *)
LEMMA FoundNext ==
    ASSUME NEW S, IsTree(S), NEW old, NEW key \in Seq(Byte), NEW p, IsPlace(S, p),
           Len(FullKey(p)) < Len(key), NEW f, FoundPast(f, old, key, p),
           key[Len(FullKey(p)) + 1] \in Edges(NodeOf(p[2]))
    PROVE  FoundIn(f, old, key, ChildPlace(p, key[Len(FullKey(p)) + 1]))
<1> DEFINE F == FullKey(p)
           e == key[Len(F) + 1]
           y == ChildPlace(p, e)
<1>0. F \in Seq(Byte) /\ Len(F) \in Nat /\ Len(key) \in Nat /\ Len(F) < Len(key)
  BY FullKeyFacts, NoLonger
<1>1. y[1] = F
  BY DEF ChildPlace
<1>2. ASSUME NEW k, NEW b, OnKey(old, key, k, b), Bound(p, k, b), k # F
      PROVE  Bound(y, k, b)
  <2>1. k[Len(F) + 1] \in Edges(NodeOf(p[2])) /\ Bound(ChildPlace(p, k[Len(F) + 1]), k, b)
    BY <1>2, BoundDown
  <2>2. Len(k) > Len(F) /\ k \in Seq(Byte)
    BY <2>1, BoundChild
  <2>3. Len(F) + 1 \in 1..Len(k)
    BY <1>0, <2>2
  <2>4. k[Len(F) + 1] = e
    BY <1>2, <2>3 DEF OnKey, Begins
  <2> QED
    BY <2>1, <2>4
<1> HIDE DEF y, F, e
<1>3. CASE f = None /\ \A k, b : OnKey(old, key, k, b) => Bound(p, k, b) /\ k # F
  BY <1>2, <1>3 DEF FoundIn, y, e, F
<1>4. CASE \E fk, fb :
         /\ FoundIs(f, fk, fb) /\ OnKey(old, key, fk, fb) /\ Len(fk) <= Len(F)
         /\ \A k, b : OnKey(old, key, k, b) => (Bound(p, k, b) /\ k # F) \/ Len(k) <= Len(fk)
  <2>1. PICK fk, fb :
         /\ FoundIs(f, fk, fb) /\ OnKey(old, key, fk, fb) /\ Len(fk) <= Len(F)
         /\ \A k, b : OnKey(old, key, k, b) => (Bound(p, k, b) /\ k # F) \/ Len(k) <= Len(fk)
    BY <1>4
  <2>2. Len(fk) <= Len(y[1])
    BY <1>1, <2>1
  <2>3. \A k, b : OnKey(old, key, k, b) => Bound(y, k, b) \/ Len(k) <= Len(fk)
    BY <1>2, <2>1
  <2>4. ASSUME ~(Len(fk) < Len(key)) PROVE FALSE
    <3>1. Begins(fk, key)
      BY <2>1 DEF OnKey
    <3>2. Len(fk) <= Len(key)
      BY <3>1 DEF Begins
    <3> QED
      BY <1>0, <2>1, <2>4, <3>2
  <2>5. FoundIn(f, old, key, y)
    BY <2>1, <2>2, <2>3, <2>4 DEF FoundIn
  <2> QED
    BY <2>5 DEF y, e, F
<1> QED
  BY <1>3, <1>4 DEF FoundPast, F

-----------------------------------------------------------------------------
(* How a step that leaves some variables alone leaves the invariant.        *)

(* What depends on the call, on the hole and on the store alone. *)
LEMMA SameCall ==
    ASSUME UNCHANGED call
    PROVE  Key' = Key /\ Old' = Old
  BY DEF Key, Old, Top

LEMMA SameHole ==
    ASSUME UNCHANGED <<call, ancestors>>
    PROVE  Key' = Key /\ Old' = Old /\ Hole' = Hole /\ (Chain => Chain')
  BY SameCall DEF Hole, Chain

LEMMA SameWorld ==
    ASSUME World, stored' \subseteq stored, roots' \subseteq roots
    PROVE  World'
  BY DEF World

(* A running call that comes to its end. *)
LEMMA ReturnSound ==
    ASSUME IInv, SInv, pc \notin {"idle", "return"}, pc' = "return",
           UNCHANGED call, World', NEW outcome, NEW value,
           result' = [outcome |-> outcome, value |-> value],
           outcome = "ok" =>
              /\ call.kind = "get"            => GetIs(value, Old, Key)
              /\ call.kind = "longest_prefix" => PrefixIs(value, Old, Key)
              /\ call.kind = "update" => UpdateIs(value, Old, Key, call.binding, inserted'),
           outcome = "codec" =>
              \E id : id \in corrupt' /\ (id \in inserted' \/ Touched(Old, id, Key))
    PROVE  SInv'
<1>1. Key' = Key /\ Old' = Old
  BY SameCall
<1>2. CallSound'
  BY <1>1 DEF SInv, CallSound
<1>3. Working'
  BY DEF Working
<1>4. Answered'
  BY <1>1 DEF Answered
<1>5. CodecBlamed'
  BY <1>1 DEF CodecBlamed, Blamed
<1> QED
  BY <1>2, <1>3, <1>4, <1>5 DEF SInv

(* A running call that goes on working on the spine. *)
LEMMA WorkSound ==
    ASSUME IInv, SInv, pc \notin {"idle", "return"}, pc' \in {"collapse", "insert", "rise"},
           UNCHANGED <<call, result>>, World', Working'
    PROVE  SInv'
<1>1. Key' = Key /\ Old' = Old
  BY SameCall
<1>2. CallSound'
  BY <1>1 DEF SInv, CallSound, IInv, TypeOK
<1> QED
  BY <1>2 DEF SInv, Answered, CodecBlamed

(* A step outside the call: rows are lost, damaged, or nothing happens. *)
LEMMA OutsideSound ==
    ASSUME SInv, corrupt \subseteq corrupt',
           UNCHANGED <<stored, roots, pc, call, spine, edits, result, inserted>>
    PROVE  SInv'
<1> USE DEF spine, edits
<1>1. /\ Key' = Key /\ Old' = Old /\ Hole' = Hole /\ Chain' = Chain /\ Here' = Here
      /\ N' = N /\ Shared' = Shared /\ At' = At /\ OnlyId' = OnlyId
      /\ \A n : Leaf(n)' = Leaf(n)
  BY DEF Key, Old, Hole, Chain, Here, N, Shared, At, Rest, OnlyId, OnlyEdge, Leaf
<1>2. World' /\ CallSound'
  BY <1>1 DEF SInv, World, CallSound
<1>3. (pc = "load" => AtLoad)'
  BY <1>1 DEF SInv, AtLoad
<1>4. AtSpine' = AtSpine /\ AtTail' = AtTail
  BY <1>1 DEF AtSpine, AtTail
<1>5. AtLeaf' = AtLeaf
  BY <1>1 DEF AtLeaf
<1>6. Working'
  BY <1>1, <1>4, <1>5 DEF SInv, Working, AtCollapse, AtInsert, AtRise
<1>7. Answered'
  BY <1>1 DEF SInv, Answered
<1>8. CodecBlamed'
  BY <1>1 DEF SInv, CodecBlamed, Blamed
<1> QED
  BY <1>2, <1>3, <1>6, <1>7, <1>8 DEF SInv

(* A step between two calls. *)
LEMMA IdleSound ==
    ASSUME IInv, SInv, pc' = "idle", found' = None, World'
    PROVE  SInv'
  BY DEF SInv, CallSound, Working, Answered, CodecBlamed

(* The initial states satisfy the invariant, by MadeAssumption. *)
LEMMA InitSound == Init => SInv
<1> SUFFICES ASSUME Init PROVE SInv
  OBVIOUS
<1>1. IInv
  BY InitIInv
<1>2. PICK o \in Opening : stored = o.stored /\ roots = o.roots
  BY DEF Init
<1>3. /\ \A id \in stored : Canonical(NodeOf(id)) /\ WellLinked(NodeOf(id))
      /\ \A root \in roots : Sound(root)
  BY <1>2, MadeAssumption
<1>4. IsTree(Trie)
  <2>1. \A id \in stored : IsRow(id) /\ Refs(NodeOf(id)) \subseteq stored
    BY <1>1 DEF IInv, TypeOK, NoDangling
  <2>2. IsRow(EmptyRoot)
    BY EmptyBinds DEF IsRow, EmptyRoot, NodeOf, Digest
  <2> QED
    BY <1>3, <2>1, <2>2, EmptyBinds DEF Trie, IsTree
<1>5. \A root \in roots : root \in Trie
  BY <1>1 DEF IInv, TypeOK, Trie
<1>6. \A root \in roots : SoundAt(Top(root))
  BY <1>3, <1>4, <1>5, SoundThroughout
<1>7. World
  BY <1>3, <1>6 DEF World
<1> QED
  BY <1>7 DEF SInv, Init, CallSound, Working, Answered, CodecBlamed

LEMMA BetweenSound ==
    ASSUME IInv, SInv, Forget \/ Collect
    PROVE  SInv'
<1>1. pc' = "idle" /\ found' = None
  BY DEF Forget, Collect, spine, SInv, CallSound
<1>2. World'
  BY SameWorld DEF Forget, Collect, store, SInv
<1> QED
  BY <1>1, <1>2, IdleSound

LEMMA ExitSound ==
    ASSUME IInv, SInv, Exit
    PROVE  SInv'
<1>1. pc' = "idle" /\ found' = None /\ stored' = stored
  BY DEF Exit, store
<1>2. ASSUME call.kind = "update", result.outcome = "ok" PROVE SoundAt(Top(result.value))
  BY <1>2 DEF SInv, Answered, UpdateIs, Exit
<1>3. World'
  BY <1>1, <1>2 DEF Exit, World, SInv
<1> QED
  BY <1>1, <1>3, IdleSound

(* A call starts at the root, where nothing has been passed. *)
LEMMA CallStepSound ==
    ASSUME IInv, IInv', SInv, Call
    PROVE  SInv'
<1>1. PICK kind \in Kinds, root \in roots \cup {EmptyRoot}, path \in Path,
           binding \in Binding \cup {None} :
         /\ call' = [kind |-> kind, root |-> root, path |-> path, binding |-> binding]
         /\ IF ValidPath(path)
            THEN /\ pc' = "load"
                 /\ cursor' = [NoCursor EXCEPT !.id = root]
                 /\ UNCHANGED result
            ELSE Fail("codec") /\ UNCHANGED cursor
  BY DEF Call
<1>2. World'
  BY SameWorld DEF Call, SInv, store
<1>3. call'.root = root /\ call'.path = path /\ call'.kind = kind /\ call'.binding = binding
  BY <1>1
<1>4. SoundAt(Old')
  <2>1. Old' = Top(root)
    BY <1>3 DEF Old
  <2>2. CASE root \in roots
    BY <2>1, <2>2 DEF SInv, World
  <2>3. CASE root = EmptyRoot
    BY <2>1, <2>3, EmptyBinds DEF Top
  <2> QED
    BY <2>2, <2>3
<1>5. CASE ~ValidPath(path)
  <2>1. pc' = "return" /\ result'.outcome = "codec"
    BY <1>1, <1>5 DEF Fail
  <2> QED
    BY <1>2, <1>3, <1>4, <1>5, <2>1 DEF SInv, CallSound, Working, Answered, CodecBlamed
<1>6. CASE ValidPath(path)
  <2>1. /\ pc' = "load" /\ result' = result /\ pc = "idle"
        /\ cursor'.id = root /\ cursor'.offset = 0 /\ cursor'.edge = None
    BY <1>1, <1>6 DEF NoCursor, Call
  <2>2. ancestors' = << >> /\ inserted' = {} /\ found' = None
    BY <2>1 DEF Call, IInv, Work, NoFrame, SInv, CallSound
  <2>3. result'.outcome = "pending"
    BY <2>1 DEF IInv, TypeOK
  <2>4. Key' \in Seq(Byte)
    <3>1. call'.path \in Seq(Byte)
      BY DEF IInv, TypeOK
    <3> QED
      BY <3>1, KeysAreBytes DEF Key
  <2>5. Here' = Old'
    <3>1. Before(Key', 0) = << >>
      BY <2>4, Cuts DEF Before
    <3>2. Here' = <<Before(Key', 0), root>>
      BY <2>1 DEF Here
    <3> QED
      BY <1>3, <3>1, <3>2 DEF Old, Top
  <2>6. OnWay(Old', Key', Old')
    <3>1. Under(Old', Old')
      BY UnderFirst
    <3>2. Old'[1] = << >>
      BY <1>3 DEF Old, Top
    <3> QED
      BY <2>4, <3>1, <3>2, BeginsNothing DEF OnWay
  <2>7. Chain' /\ Hole' = Old'
    <3>1. HoleAt(Key', Old', << >>, 0) = Old'
      BY DEF HoleAt
    <3>2. ChainIn(Key', Old', << >>)
      BY <2>6, <3>1 DEF ChainIn
    <3> QED
      BY <2>2, <3>1, <3>2 DEF Chain, Hole
  <2>8. FoundIn(found', Old', Key', Here')
    BY <2>2, <2>5 DEF FoundIn, OnKey
  <2>9. AtLoad'
    BY <2>1, <2>2, <2>5, <2>6, <2>7, <2>8 DEF AtLoad
  <2>10. CallSound'
    BY <1>3, <1>4, <1>6, <2>1 DEF CallSound
  <2> QED
    BY <1>2, <2>1, <2>9, <2>10 DEF SInv, Working, Answered, CodecBlamed
<1> QED
  BY <1>5, <1>6

-----------------------------------------------------------------------------
(* The ends of the loop and of walk. *)

(* A codec error is blamed on the row that was loaded. *)
LEMMA LoadFailsSound ==
    ASSUME IInv, SInv, LoadFails
    PROVE  SInv'
<1>1. /\ pc = "load" /\ ~LoadOk(cursor.id, cursor.edge, Before(Key, cursor.offset))
      /\ pc' = "return" /\ result' = [outcome |-> LoadError(cursor.id), value |-> None]
      /\ UNCHANGED <<call, stored, roots, corrupt, inserted>>
  BY DEF LoadFails, Fail, store
<1>2. World /\ SoundAt(Old) /\ OnWay(Old, Key, Here) /\ AtLoad
  BY <1>1, LoadFacts
<1>3. PositionOk(Before(Key, cursor.offset), NodeOf(cursor.id)) /\ Canonical(NodeOf(cursor.id))
  BY <1>2, HereFacts DEF N
<1>4. cursor.edge # None => NodeOf(cursor.id).label # << >> /\ NodeOf(cursor.id).label[1] = cursor.edge
  BY <1>2 DEF AtLoad, HangsFrom
<1>5. LoadError(cursor.id) = "codec" => cursor.id \in corrupt
  BY <1>1, <1>3, <1>4 DEF LoadOk, LoadError
<1>6. Touched(Old, cursor.id, Key)
  BY <1>2 DEF OnWay, Touched, Here
<1>7. World'
  BY <1>1, <1>2, SameWorld
<1>8. LoadError(cursor.id) # "ok"
  BY DEF LoadError
<1> QED
  BY <1>1, <1>5, <1>6, <1>7, <1>8, ReturnSound

(* Where a walk is, and that its result is about the map below the old root. *)
LEMMA WalkFacts ==
    ASSUME IInv, SInv, Walking
    PROVE  /\ pc = "load" /\ World /\ World' /\ SoundAt(Old) /\ OnWay(Old, Key, Here)
           /\ IsTree(Trie) /\ IsPlace(Trie, Here) /\ Key \in Seq(Byte)
           /\ NodeOf(Here[2]) = N /\ FoundIn(found, Old, Key, Here)
           /\ \A b : Bound(Old, Key, b) <=> Bound(Here, Key, b)
           /\ KeyPath(Key) = call.path /\ IsPlace(Trie, Old)
           /\ UNCHANGED <<call, roots, stored, corrupt, inserted>>
<1>1. pc = "load" /\ UNCHANGED <<call, roots, stored, corrupt, inserted>> /\ call.kind # "update"
  BY DEF Walking, Loaded, store
<1>2. World /\ SoundAt(Old) /\ OnWay(Old, Key, Here) /\ AtLoad /\ ValidPath(call.path)
  BY <1>1, LoadFacts
<1>3. World'
  BY <1>1, <1>2, SameWorld
<1> QED
  BY <1>1, <1>2, <1>3, HereFacts, CallFacts DEF AtLoad

(* A walk that has passed its node. *)
LEMMA PastFacts ==
    ASSUME IInv, SInv, Walking, Shared = Len(N.label)
    PROVE  /\ FullKey(Here) = Before(Key, At) /\ Len(FullKey(Here)) = At
           /\ Begins(FullKey(Here), Key) /\ At \in 0..Len(Key)
           /\ FoundPast(FoundHere, Old, Key, Here)
<1>1. FullKey(Here) = Before(Key, At) /\ Begins(FullKey(Here), Key)
      /\ Len(FullKey(Here)) = At /\ At \in 0..Len(Key)
  BY WalkFacts, SharedFacts
<1>2. FoundHere = AfterNode(found, Here)
  BY <1>1, WalkFacts DEF FoundHere, AfterNode
<1>3. FoundPast(AfterNode(found, Here), Old, Key, Here)
  BY <1>1, WalkFacts, PassNode DEF OnWay
<1> QED
  BY <1>1, <1>2, <1>3

(* What walk answers when it stops here. *)
LEMMA WalkReturns ==
    ASSUME IInv, SInv, Walking, NEW value, Return(value),
           call.kind = "get" => GetIs(value, Old, Key),
           call.kind = "longest_prefix" => PrefixIs(value, Old, Key)
    PROVE  SInv'
<1>1. pc = "load" /\ pc' = "return" /\ result' = [outcome |-> "ok", value |-> value]
      /\ call.kind # "update" /\ UNCHANGED call /\ World'
  BY WalkFacts DEF Return, Walking
<1> QED
  BY <1>1, ReturnSound

LEMMA WalkOffLabelSound ==
    ASSUME IInv, SInv, WalkOffLabel
    PROVE  SInv'
<1>1. Walking /\ Shared < Len(N.label) /\ Return(WalkResult(found, FALSE))
  BY DEF WalkOffLabel
<1>2. ~Begins(FullKey(Here), Key)
  BY <1>1, WalkFacts, SharedFacts
<1>3. ASSUME NEW k, NEW b, Begins(k, Key) PROVE ~Bound(Here, k, b)
  <2>1. SUFFICES ASSUME Bound(Here, k, b) PROVE FALSE
    OBVIOUS
  <2>2. k \in Seq(Byte) /\ Begins(FullKey(Here), k) /\ FullKey(Here) \in Seq(Byte)
    BY <1>1, <2>1, WalkFacts, BoundBegins, FullKeyFacts
  <2>3. Key \in Seq(Byte)
    BY <1>1, WalkFacts
  <2> QED
    BY <1>2, <1>3, <2>2, <2>3, BeginsBeyond
<1>4. PrefixIs(found, Old, Key)
  BY <1>1, <1>3, WalkFacts, FoundLast DEF OnKey
<1>5. GetIs(None, Old, Key)
  <2>1. Begins(Key, Key)
    BY <1>1, WalkFacts, BeginsSelf
  <2> QED
    BY <1>1, <1>3, <2>1, WalkFacts DEF GetIs
<1>6. /\ call.kind = "get" => WalkResult(found, FALSE) = None
      /\ call.kind = "longest_prefix" => WalkResult(found, FALSE) = found
  BY DEF WalkResult
<1> QED
  BY <1>1, <1>4, <1>5, <1>6, WalkReturns

LEMMA WalkNoChildSound ==
    ASSUME IInv, SInv, WalkNoChild
    PROVE  SInv'
<1>1. /\ Walking /\ Shared = Len(N.label) /\ At < Len(Key) /\ Key[At + 1] \notin Edges(N)
      /\ Return(WalkResult(FoundHere, FALSE))
  BY DEF WalkNoChild
<1>2. /\ Len(FullKey(Here)) = At /\ At \in 0..Len(Key)
      /\ FoundPast(FoundHere, Old, Key, Here)
  BY <1>1, PastFacts
<1>3. ASSUME NEW k, NEW b, Begins(k, Key), k # FullKey(Here) PROVE ~Bound(Here, k, b)
  <2>1. SUFFICES ASSUME Bound(Here, k, b) PROVE FALSE
    OBVIOUS
  <2>2. /\ k[Len(FullKey(Here)) + 1] \in Edges(NodeOf(Here[2]))
        /\ Bound(ChildPlace(Here, k[Len(FullKey(Here)) + 1]), k, b)
    BY <1>1, <1>3, <2>1, WalkFacts, BoundDown
  <2>3. k \in Seq(Byte) /\ Len(k) > Len(FullKey(Here))
    BY <1>1, <2>2, WalkFacts, BoundChild
  <2>4. At + 1 \in 1..Len(k)
    BY <1>2, <2>3
  <2>5. k[At + 1] = Key[At + 1]
    BY <1>3, <2>4 DEF Begins
  <2> QED
    BY <1>1, <1>2, <2>2, <2>5, WalkFacts
<1>4. PrefixIs(FoundHere, Old, Key)
  BY <1>2, <1>3, PastLast DEF OnKey
<1>5. GetIs(None, Old, Key)
  <2>1. Begins(Key, Key) /\ Key # FullKey(Here)
    BY <1>1, <1>2, WalkFacts, BeginsSelf
  <2> QED
    BY <1>1, <1>3, <2>1, WalkFacts DEF GetIs
<1>6. /\ call.kind = "get" => WalkResult(FoundHere, FALSE) = None
      /\ call.kind = "longest_prefix" => WalkResult(FoundHere, FALSE) = FoundHere
  BY DEF WalkResult
<1> QED
  BY <1>1, <1>4, <1>5, <1>6, WalkReturns

LEMMA WalkEndsSound ==
    ASSUME NoneIsApart, IInv, SInv, WalkEnds
    PROVE  SInv'
<1>1. /\ Walking /\ Shared = Len(N.label) /\ At = Len(Key)
      /\ Return(WalkResult(FoundHere, TRUE))
  BY DEF WalkEnds
<1>2. /\ FullKey(Here) = Before(Key, At) /\ Len(FullKey(Here)) = At
      /\ Begins(FullKey(Here), Key) /\ FoundPast(FoundHere, Old, Key, Here)
  BY <1>1, PastFacts
<1>3. Key \in Seq(Byte) /\ FullKey(Here) \in Seq(Byte)
  BY <1>1, WalkFacts, FullKeyFacts
<1>4. FullKey(Here) = Key
  <2>1. Len(Key) <= Len(FullKey(Here))
    BY <1>1, <1>2, <1>3
  <2> QED
    BY <1>2, <1>3, <2>1, BeginsWhole
<1>5. ASSUME NEW k, NEW b, Begins(k, Key), k # FullKey(Here) PROVE ~Bound(Here, k, b)
  <2>1. SUFFICES ASSUME Bound(Here, k, b) PROVE FALSE
    OBVIOUS
  <2>2. k \in Seq(Byte) /\ Begins(Key, k)
    BY <1>1, <1>4, <2>1, WalkFacts, BoundBegins
  <2>3. Len(Key) <= Len(k)
    BY <2>2 DEF Begins
  <2>4. k = Key
    BY <1>3, <1>5, <2>2, <2>3, BeginsWhole
  <2> QED
    BY <1>4, <1>5, <2>4
<1>6. PrefixIs(FoundHere, Old, Key)
  BY <1>2, <1>5, PastLast DEF OnKey
<1>7. \A b : Bound(Old, Key, b) <=> b # None /\ N.binding = b
  BY <1>1, <1>4, WalkFacts, BoundHere
<1>8. KeyPath(Key) = call.path /\ Before(Key, At) = Key
  BY <1>1, <1>2, <1>4, WalkFacts
<1>9. ASSUME call.kind = "get" PROVE GetIs(WalkResult(FoundHere, TRUE), Old, Key)
  <2>1. CASE N.binding # None
    <3>1. FoundHere = [path |-> call.path, binding |-> N.binding]
      BY <1>8, <2>1 DEF FoundHere
    <3>2. FoundHere # None
      BY <3>1 DEF NoneIsApart
    <3>3. WalkResult(FoundHere, TRUE) = N.binding
      BY <1>9, <3>1, <3>2 DEF WalkResult
    <3> QED
      BY <1>7, <2>1, <3>3 DEF GetIs
  <2>2. CASE N.binding = None
    <3>1. FoundHere = found
      BY <2>2 DEF FoundHere
    <3>2. ASSUME found # None PROVE found.path # call.path
      <4>1. PICK fk, fb : FoundIs(found, fk, fb) /\ OnKey(Old, Key, fk, fb) /\ Len(fk) < Len(Key)
        BY <1>1, <3>2, WalkFacts DEF FoundIn
      <4>2. GoodKey(fk)
        BY <1>1, <4>1, WalkFacts, BoundGood DEF OnKey
      <4>3. EncodeKey(KeyPath(fk)) = fk /\ EncodeKey(call.path) = Key
        BY <4>2 DEF GoodKey, Key
      <4>4. found.path = KeyPath(fk)
        BY <4>1 DEF FoundIs
      <4>5. fk # Key
        BY <1>3, <4>1, NoLonger
      <4> QED
        BY <4>3, <4>4, <4>5
    <3>3. WalkResult(FoundHere, TRUE) = None
      BY <1>9, <3>1, <3>2 DEF WalkResult
    <3> QED
      BY <1>7, <2>2, <3>3 DEF GetIs
  <2> QED
    BY <2>1, <2>2
<1>10. call.kind = "longest_prefix" => WalkResult(FoundHere, TRUE) = FoundHere
  BY DEF WalkResult
<1> QED
  BY <1>1, <1>6, <1>9, <1>10, WalkReturns

(* One node further down, in a walk or an update. *)
LEMMA DownFacts ==
    ASSUME IInv, SInv, pc = "load", Shared = Len(N.label), At < Len(Key),
           Key[At + 1] \in Edges(N), cursor' = Child(Key[At + 1]), UNCHANGED call
    PROVE  LET y == ChildPlace(Here, Key[At + 1]) IN
           /\ Here' = y /\ OnWay(Old, Key, y) /\ HangsFrom(cursor'.id, cursor'.edge)
           /\ \A b : Bound(Old, Key, b) <=> Bound(y, Key, b)
<1> DEFINE e == Key[At + 1]
           y == ChildPlace(Here, e)
<1>1. World /\ SoundAt(Old) /\ OnWay(Old, Key, Here) /\ AtLoad
  BY LoadFacts
<1>2. /\ IsTree(Trie) /\ IsPlace(Trie, Here) /\ NodeOf(Here[2]) = N
      /\ FullKey(Here) = Before(Key, At) /\ Begins(FullKey(Here), Key)
      /\ Len(FullKey(Here)) = At
  BY <1>1, HereFacts, SharedFacts
<1>3. cursor'.id = N.children[e] /\ cursor'.offset = At /\ cursor'.edge = e
  BY DEF Child
<1>4. Here' = y
  <2>1. Here' = <<Before(Key, At), N.children[e]>>
    BY <1>3, SameCall DEF Here
  <2> QED
    BY <1>2, <2>1 DEF ChildPlace
<1>5. OnWay(Old, Key, y)
  BY <1>1, <1>2, WayDown
<1>6. HangsFrom(N.children[e], e)
  <2>1. WellLinked(N)
    BY <1>1, HereFacts
  <2> QED
    BY <2>1 DEF WellLinked, HangsFrom
<1>7. \A b : Bound(Old, Key, b) <=> Bound(y, Key, b)
  <2>1. FullKey(Here) # Key
    BY <1>2
  <2>2. \A b : Bound(Here, Key, b) <=> Bound(y, Key, b)
    BY <1>2, <2>1, BoundDown
  <2> QED
    BY <1>1, <2>2 DEF AtLoad
<1> QED
  BY <1>3, <1>4, <1>5, <1>6, <1>7

(* walk goes down the edge the key goes on with. *)
LEMMA WalkDownSound ==
    ASSUME IInv, SInv, WalkDown
    PROVE  SInv'
<1>1. /\ Walking /\ Shared = Len(N.label) /\ At < Len(Key) /\ Key[At + 1] \in Edges(N)
      /\ cursor' = Child(Key[At + 1]) /\ found' = FoundHere /\ UNCHANGED <<pc, result>>
  BY DEF WalkDown
<1>2. pc = "load" /\ call.kind # "update" /\ UNCHANGED <<call, inserted>> /\ World'
      /\ IsTree(Trie) /\ IsPlace(Trie, Here) /\ Key \in Seq(Byte) /\ NodeOf(Here[2]) = N
  BY <1>1, WalkFacts DEF Walking
<1> DEFINE y == ChildPlace(Here, Key[At + 1])
<1>3. /\ Here' = y /\ OnWay(Old, Key, y) /\ HangsFrom(cursor'.id, cursor'.edge)
      /\ \A b : Bound(Old, Key, b) <=> Bound(y, Key, b)
  BY <1>1, <1>2, DownFacts
<1>4. Len(FullKey(Here)) = At /\ FoundPast(FoundHere, Old, Key, Here)
  BY <1>1, PastFacts
<1>5. FoundIn(FoundHere, Old, Key, y)
  BY <1>1, <1>2, <1>4, FoundNext
<1> HIDE DEF y
<1>6. Key' = Key /\ Old' = Old
  BY <1>2, SameCall
<1>7. inserted = {} /\ ValidPath(call.path) /\ result.outcome = "pending" /\ SoundAt(Old)
  BY <1>2, LoadFacts DEF AtLoad
<1>8. AtLoad'
  BY <1>1, <1>2, <1>3, <1>5, <1>6, <1>7 DEF AtLoad
<1>9. CallSound'
  BY <1>1, <1>2, <1>6, <1>7 DEF CallSound
<1> QED
  BY <1>1, <1>2, <1>8, <1>9 DEF SInv, Working, Answered, CodecBlamed

-----------------------------------------------------------------------------
(* The chain of ancestors. *)

(* One more ancestor: the old innermost edge leads to the new hole. *)
LEMMA ChainGrows ==
    ASSUME NEW key, NEW old, NEW A, NEW anc \in Seq(A), ChainIn(key, old, anc), NEW a \in A,
           PlaceOf(key, a) = HoleAt(key, old, anc, Len(anc)), Passes(key, a),
           OnWay(old, key, ChildPlace(PlaceOf(key, a), a.edge))
    PROVE  LET more == Append(anc, a) IN
           ChainIn(key, old, more)
           /\ HoleAt(key, old, more, Len(more)) = ChildPlace(PlaceOf(key, a), a.edge)
<1> DEFINE more == Append(anc, a)
<1>1. /\ Len(anc) \in Nat /\ Len(more) = Len(anc) + 1
      /\ more[Len(anc) + 1] = a /\ \A i \in 1..Len(anc) : more[i] = anc[i]
  OBVIOUS
<1> HIDE DEF more
<1>2. \A i \in 0..Len(anc) : HoleAt(key, old, more, i) = HoleAt(key, old, anc, i)
  BY <1>1 DEF HoleAt
<1>3. HoleAt(key, old, more, Len(anc) + 1) = ChildPlace(PlaceOf(key, a), a.edge)
  BY <1>1 DEF HoleAt
<1>4. ASSUME NEW i \in 0..Len(more) PROVE OnWay(old, key, HoleAt(key, old, more, i))
  <2>1. CASE i = Len(anc) + 1
    BY <1>3, <2>1
  <2>2. CASE i # Len(anc) + 1
    <3>1. i \in 0..Len(anc)
      BY <1>1, <2>2
    <3> QED
      BY <1>2, <3>1 DEF ChainIn
  <2> QED
    BY <2>1, <2>2
<1>5. ASSUME NEW i \in 1..Len(more)
      PROVE  PlaceOf(key, more[i]) = HoleAt(key, old, more, i - 1) /\ Passes(key, more[i])
  <2>1. CASE i = Len(anc) + 1
    <3>1. i - 1 = Len(anc) /\ Len(anc) \in 0..Len(anc)
      BY <1>1, <2>1
    <3> QED
      BY <1>1, <1>2, <2>1, <3>1
  <2>2. CASE i # Len(anc) + 1
    <3>1. i \in 1..Len(anc) /\ i - 1 \in 0..Len(anc)
      BY <1>1, <2>2
    <3>2. PlaceOf(key, anc[i]) = HoleAt(key, old, anc, i - 1) /\ Passes(key, anc[i])
      BY <3>1 DEF ChainIn
    <3> QED
      BY <1>1, <1>2, <3>1, <3>2
  <2> QED
    BY <2>1, <2>2
<1>6. ChainIn(key, old, more)
  BY <1>4, <1>5 DEF ChainIn
<1> QED
  BY <1>1, <1>3, <1>6 DEF more

(* One ancestor less: the hole is where that ancestor was. *)
LEMMA ChainShrinks ==
    ASSUME NEW key, NEW old, NEW A, NEW anc \in Seq(A), ChainIn(key, old, anc), anc # << >>
    PROVE  LET less == Before(anc, Len(anc) - 1)
               top  == anc[Len(anc)]
           IN  /\ ChainIn(key, old, less)
               /\ HoleAt(key, old, less, Len(less)) = PlaceOf(key, top)
               /\ HoleAt(key, old, anc, Len(anc)) = ChildPlace(PlaceOf(key, top), top.edge)
               /\ Passes(key, top) /\ top \in A
               /\ OnWay(old, key, PlaceOf(key, top))
<1> DEFINE less == Before(anc, Len(anc) - 1)
           top  == anc[Len(anc)]
<1>1. Len(anc) \in Nat /\ Len(anc) # 0
  OBVIOUS
<1>2. Len(anc) \in 1..Len(anc) /\ Len(anc) \in 0..Len(anc) /\ Len(anc) - 1 \in 0..Len(anc)
  BY <1>1
<1>3. less \in Seq(A) /\ Len(less) = Len(anc) - 1
      /\ \A i \in 1..Len(anc) - 1 : less[i] = anc[i]
  <2>1. \A i \in 1..Len(anc) - 1 : anc[i] \in A
    BY <1>1, ElementOfSeq
  <2> QED
    <3>1. Len(anc) - 1 \in Nat /\ 1 \in Int
      BY <1>1
    <3>2. \A i \in 1..Len(anc) - 1 : anc[i] \in A
      BY <2>1
    <3> DEFINE n == Len(anc) - 1
               t == SubSeq(anc, 1, n)
    <3>3. n \in Nat /\ \A i \in 1..n : anc[i] \in A
      BY <3>1, <3>2
    <3> HIDE DEF n
    <3>4. /\ t \in Seq(A) /\ Len(t) = IF 1 <= n THEN n - 1 + 1 ELSE 0
          /\ \A i \in 1..n - 1 + 1 : t[i] = anc[1 + i - 1]
      BY <3>1, <3>3, SubSeqProperties
    <3> HIDE DEF t
    <3>5. Len(t) = n
      BY <3>3, <3>4
    <3>6. \A i \in 1..n : t[i] = anc[i]
      <4> TAKE i \in 1..n
      <4>1. i \in 1..n - 1 + 1 /\ 1 + i - 1 = i
        BY <3>3
      <4> QED
        BY <3>4, <4>1
    <3>7. t \in Seq(A)
      BY <3>4
    <3> QED
      BY <3>5, <3>6, <3>7 DEF t, n, Before
<1>4. top \in A
  BY <1>2, ElementOfSeq
<1>5. PlaceOf(key, top) = HoleAt(key, old, anc, Len(anc) - 1) /\ Passes(key, top)
  BY <1>2 DEF ChainIn
<1>6. HoleAt(key, old, anc, Len(anc)) = ChildPlace(PlaceOf(key, top), top.edge)
  BY <1>1 DEF HoleAt
<1>7. OnWay(old, key, PlaceOf(key, top))
  BY <1>2, <1>5 DEF ChainIn
<1> HIDE DEF less, top
<1>8. \A i \in 0..Len(anc) - 1 : HoleAt(key, old, less, i) = HoleAt(key, old, anc, i)
  BY <1>1, <1>3 DEF HoleAt
<1>9. HoleAt(key, old, less, Len(less)) = PlaceOf(key, top)
  <2>1. Len(anc) - 1 \in 0..Len(anc) - 1
    BY <1>1
  <2> QED
    BY <1>3, <1>5, <1>8, <2>1
<1>10. ASSUME NEW i \in 0..Len(less) PROVE OnWay(old, key, HoleAt(key, old, less, i))
  <2>1. i \in 0..Len(anc) - 1 /\ i \in 0..Len(anc)
    BY <1>1, <1>3
  <2> QED
    BY <1>8, <2>1 DEF ChainIn
<1>11. ASSUME NEW i \in 1..Len(less)
       PROVE  PlaceOf(key, less[i]) = HoleAt(key, old, less, i - 1) /\ Passes(key, less[i])
  <2>1. i \in 1..Len(anc) - 1 /\ i - 1 \in 0..Len(anc) - 1 /\ i \in 1..Len(anc)
    BY <1>1, <1>3
  <2>2. PlaceOf(key, anc[i]) = HoleAt(key, old, anc, i - 1) /\ Passes(key, anc[i])
    BY <2>1 DEF ChainIn
  <2> QED
    BY <1>3, <1>8, <2>1, <2>2
<1>12. ChainIn(key, old, less)
  BY <1>10, <1>11 DEF ChainIn
<1> QED
  BY <1>4, <1>5, <1>6, <1>7, <1>9, <1>12 DEF less, top

(* The node that was in the hole hangs from the edge that leads there. *)
LEMMA HoleFits ==
    ASSUME NEW S, IsTree(S), NEW key, NEW old, IsPlace(S, old), NEW A, NEW anc \in Seq(A),
           ChainIn(key, old, anc)
    PROVE  LET hole == HoleAt(key, old, anc, Len(anc)) IN
           IsPlace(S, hole) /\ OnWay(old, key, hole) /\ Fits(NodeOf(hole[2]), anc)
<1> DEFINE hole == HoleAt(key, old, anc, Len(anc))
           top  == anc[Len(anc)]
<1>1. OnWay(old, key, hole)
  <2>1. Len(anc) \in 0..Len(anc)
    OBVIOUS
  <2> QED
    BY <2>1 DEF ChainIn
<1>2. IsPlace(S, hole)
  BY <1>1, UnderPlaces DEF OnWay
<1>3. ASSUME anc # << >> PROVE NodeOf(hole[2]).label # << >> /\ NodeOf(hole[2]).label[1] = top.edge
  <2>1. /\ hole = ChildPlace(PlaceOf(key, top), top.edge)
        /\ Passes(key, top) /\ OnWay(old, key, PlaceOf(key, top))
    BY <1>3, ChainShrinks
  <2>2. IsPlace(S, PlaceOf(key, top))
    BY <2>1, UnderPlaces DEF OnWay
  <2>3. top.edge \in Edges(NodeOf(PlaceOf(key, top)[2]))
    BY <2>1 DEF Passes, PlaceOf
  <2> HIDE DEF hole, top
  <2> QED
    BY <2>1, <2>2, <2>3, BelowFacts DEF LabelOf
<1> QED
  BY <1>1, <1>2, <1>3 DEF Fits

-----------------------------------------------------------------------------
(* The loop of update. *)

(* Where the loop of update stands when it decides what to do. *)
LEMMA UpdateFacts ==
    ASSUME IInv, SInv, Updating
    PROVE  /\ pc = "load" /\ call.kind = "update" /\ World /\ World'
           /\ SoundAt(Old) /\ OnWay(Old, Key, Here) /\ IsTree(Trie) /\ IsPlace(Trie, Here)
           /\ IsPlace(Trie, Old) /\ Key \in Seq(Byte) /\ NodeOf(Here[2]) = N
           /\ \A b : Bound(Old, Key, b) <=> Bound(Here, Key, b)
           /\ inserted = {} /\ Chain /\ Hole = Here /\ SoundAt(Here)
           /\ UNCHANGED <<call, roots, stored, corrupt, inserted>>
           /\ ValidPath(call.path) /\ call.binding \in Binding \cup {None}
<1>1. pc = "load" /\ UNCHANGED <<call, roots, stored, corrupt, inserted>> /\ call.kind = "update"
  BY DEF Updating, Loaded, store
<1>2. World /\ SoundAt(Old) /\ OnWay(Old, Key, Here) /\ AtLoad /\ ValidPath(call.path)
  BY <1>1, LoadFacts
<1>3. World'
  BY <1>1, <1>2, SameWorld
<1> QED
  BY <1>1, <1>2, <1>3, HereFacts, CallFacts DEF AtLoad

(* Where the key leaves the label, the key is not bound; where it ends, the *)
(* node's binding is its binding; where no child continues it, it is not.   *)
LEMMA KeyBound ==
    ASSUME IInv, SInv, Updating
    PROVE  /\ Shared < Len(N.label) => \A b : ~Bound(Here, Key, b)
           /\ Shared = Len(N.label) /\ At = Len(Key) =>
                 FullKey(Here) = Key /\ \A b : Bound(Here, Key, b) <=> b # None /\ N.binding = b
           /\ Shared = Len(N.label) /\ At < Len(Key) =>
                 /\ FullKey(Here) = Before(Key, At) /\ Len(FullKey(Here)) = At
                 /\ Begins(FullKey(Here), Key) /\ PassesAt(Here, Key[At + 1], Key)
                 /\ Key[At + 1] \notin Edges(N) => \A b : ~Bound(Here, Key, b)
<1>0. /\ pc = "load" /\ World /\ SoundAt(Old) /\ OnWay(Old, Key, Here) /\ IsTree(Trie)
      /\ IsPlace(Trie, Here) /\ Key \in Seq(Byte) /\ NodeOf(Here[2]) = N
  BY UpdateFacts
<1>1. FullKey(Here) \in Seq(Byte)
  BY <1>0, FullKeyFacts
<1>2. ASSUME Shared < Len(N.label), NEW b, Bound(Here, Key, b) PROVE FALSE
  <2>1. ~Begins(FullKey(Here), Key)
    BY <1>0, <1>2, SharedFacts
  <2> QED
    BY <1>0, <1>2, <2>1, BoundBegins
<1>3. ASSUME Shared = Len(N.label), At = Len(Key)
      PROVE  FullKey(Here) = Key /\ \A b : Bound(Here, Key, b) <=> b # None /\ N.binding = b
  <2>1. Begins(FullKey(Here), Key) /\ Len(FullKey(Here)) = At
    BY <1>0, <1>3, SharedFacts
  <2>2. FullKey(Here) = Key
    BY <1>0, <1>1, <1>3, <2>1, BeginsWhole
  <2> QED
    BY <1>0, <2>2, BoundHere
<1>4. ASSUME Shared = Len(N.label), At < Len(Key)
      PROVE  /\ FullKey(Here) = Before(Key, At) /\ Len(FullKey(Here)) = At
             /\ Begins(FullKey(Here), Key) /\ PassesAt(Here, Key[At + 1], Key)
             /\ Key[At + 1] \notin Edges(N) => \A b : ~Bound(Here, Key, b)
  <2>1. /\ FullKey(Here) = Before(Key, At) /\ Len(FullKey(Here)) = At
        /\ Begins(FullKey(Here), Key)
    BY <1>0, <1>4, SharedFacts
  <2>2. PassesAt(Here, Key[At + 1], Key)
    BY <1>4, <2>1 DEF PassesAt
  <2>3. FullKey(Here) # Key
    BY <1>4, <2>1, <1>0
  <2>4. Key[At + 1] \notin Edges(N) => \A b : ~Bound(Here, Key, b)
    BY <1>0, <2>1, <2>3, BoundDown
  <2> QED
    BY <2>1, <2>2, <2>4
<1> QED
  BY <1>2, <1>3, <1>4

(* Clearing what is not bound, or binding what is, changes nothing. *)
LEMMA UnchangedSound ==
    ASSUME IInv, SInv, Unchanged
    PROVE  SInv'
<1>1. /\ Updating /\ pc' = "return" /\ result' = [outcome |-> "ok", value |-> call.root]
      /\ \/ call.binding = None /\ Shared < Len(N.label)
         \/ /\ call.binding = None /\ Shared = Len(N.label) /\ At < Len(Key)
            /\ Key[At + 1] \notin Edges(N)
         \/ Shared = Len(N.label) /\ At = Len(Key) /\ N.binding = call.binding
  BY DEF Unchanged, Return
<1>2. /\ pc = "load" /\ call.kind = "update" /\ World' /\ UNCHANGED <<call, inserted>>
      /\ SoundAt(Old) /\ inserted = {} /\ \A b : Bound(Old, Key, b) <=> Bound(Here, Key, b)
  BY <1>1, UpdateFacts
<1>3. \A b : Bound(Old, Key, b) <=> b # None /\ b = call.binding
  BY <1>1, <1>2, KeyBound
<1>4. EditsTo(Old, Old, Key, call.binding)
  BY <1>3 DEF EditsTo, Edited
<1>5. UpdateIs(call.root, Old, Key, call.binding, inserted')
  BY <1>2, <1>4 DEF UpdateIs, Old
<1> QED
  BY <1>1, <1>2, <1>5, ReturnSound

(* The loop goes down and notes where it came from. *)
LEMMA DescendSound ==
    ASSUME IInv, SInv, Descend
    PROVE  SInv'
<1> DEFINE e == Key[At + 1]
           a == [id |-> cursor.id, edge |-> e, offset |-> cursor.offset]
           y == ChildPlace(Here, e)
           A == [id : stored \cup {EmptyRoot}, edge : Byte, offset : Nat]
<1>1. /\ Updating /\ Shared = Len(N.label) /\ At < Len(Key) /\ e \in Edges(N)
      /\ cursor' = Child(e) /\ ancestors' = Append(ancestors, a) /\ UNCHANGED <<pc, result>>
  BY DEF Descend
<1>2. /\ pc = "load" /\ call.kind = "update" /\ UNCHANGED <<call, inserted>> /\ World'
      /\ Chain /\ Hole = Here /\ SoundAt(Old) /\ inserted = {} /\ ValidPath(call.path)
      /\ NodeOf(Here[2]) = N
  BY <1>1, UpdateFacts
<1>3. /\ Here' = y /\ OnWay(Old, Key, y) /\ HangsFrom(cursor'.id, cursor'.edge)
      /\ \A b : Bound(Old, Key, b) <=> Bound(y, Key, b)
  BY <1>1, <1>2, DownFacts
<1>4. PassesAt(Here, e, Key)
  BY <1>1, KeyBound
<1>5. a \in A /\ ancestors \in Seq(A) /\ a.edge = e /\ a.id = cursor.id
  <2>1. e \in Byte
    BY <1>1, AtCursor
  <2>2. cursor.id \in stored \cup {EmptyRoot} /\ cursor.offset \in Nat /\ ancestors \in Seq(A)
    BY DEF IInv, TypeOK
  <2> HIDE DEF e
  <2> QED
    BY <2>1, <2>2
<1>6. PlaceOf(Key, a) = Here
  BY DEF PlaceOf, Here
<1>7. Passes(Key, a)
  BY <1>1, <1>4, <1>5, <1>6 DEF Passes, N
<1>8. ChainIn(Key, Old, ancestors) /\ HoleAt(Key, Old, ancestors, Len(ancestors)) = Here
  BY <1>2 DEF Chain, Hole
<1> HIDE DEF A, a, e, y
<1>9. OnWay(Old, Key, ChildPlace(PlaceOf(Key, a), a.edge))
  BY <1>3, <1>5, <1>6 DEF y
<1>10. LET more == Append(ancestors, a) IN
       ChainIn(Key, Old, more)
       /\ HoleAt(Key, Old, more, Len(more)) = ChildPlace(PlaceOf(Key, a), a.edge)
  BY <1>5, <1>6, <1>7, <1>8, <1>9, ChainGrows
<1>11. Key' = Key /\ Old' = Old
  BY <1>2, SameCall
<1>12. Chain' /\ Hole' = Here'
  BY <1>1, <1>3, <1>5, <1>6, <1>10, <1>11 DEF Chain, Hole, y
<1>13. AtLoad'
  BY <1>1, <1>2, <1>3, <1>11, <1>12 DEF AtLoad
<1>14. CallSound'
  BY <1>1, <1>2, <1>11, LoadFacts DEF CallSound
<1> QED
  BY <1>1, <1>2, <1>13, <1>14 DEF SInv, Working, Answered, CodecBlamed

-----------------------------------------------------------------------------
(* Saving a node that stands in the hole. *)

(* save refuses no node that makes sense where it stands. *)
LEMMA SaveGoes ==
    ASSUME NEW node, IsNode(node), NEW prefix \in Seq(Byte), PositionOk(prefix, node),
           NEW next, Save(node, prefix, next), Blank(node) => next = "spine"
    PROVE  \/ /\ Blank(node) /\ pc' = "rise" /\ replacement' = None /\ UNCHANGED <<job, result>>
           \/ /\ PassThrough(node) /\ pc' = "collapse"
              /\ job' = [node |-> node, prefix |-> prefix, next |-> next]
              /\ UNCHANGED <<replacement, result>>
           \/ /\ ~Blank(node) /\ ~PassThrough(node) /\ Canonical(node) /\ pc' = "insert"
              /\ job' = [node |-> node, prefix |-> prefix, next |-> next]
              /\ UNCHANGED <<replacement, result>>
<1>1. Joinable(prefix, node)
  BY DEF PositionOk
<1>2. Len(node.label) <= PathMaxBytes
  <2>1. node.label \in Seq(Byte)
    BY DEF IsNode
  <2>2. Len(prefix) \in Nat /\ Len(node.label) \in Nat
    BY <2>1, NoLonger, Zenon
  <2>3. Len(prefix) + Len(node.label) <= PathMaxBytes /\ PathMaxBytes \in Nat
    BY <1>1, PathMaxAssumption DEF Joinable
  <2> QED
    BY <2>2, <2>3, SumBelow, Zenon
<1>3. ~Blank(node) /\ ~PassThrough(node) => Canonical(node)
  BY <1>2 DEF Canonical
<1>4. CASE Blank(node)
  <2>1. ~PassThrough(node)
    BY <1>4 DEF Blank, PassThrough
  <2> QED
    BY <1>4, <2>1 DEF Save
<1>5. CASE PassThrough(node)
  <2>1. ~Blank(node)
    BY <1>5 DEF Blank, PassThrough
  <2> QED
    BY <1>1, <1>5, <2>1 DEF Save, StoreCall
<1>6. CASE ~Blank(node) /\ ~PassThrough(node)
  BY <1>3, <1>6 DEF Save, Insert, StoreCall
<1> QED
  BY <1>4, <1>5, <1>6

(* A node for the hole that stands for the edited map is saved. *)
LEMMA SpineSave ==
    ASSUME IInv, SInv, pc \notin {"idle", "return"}, World', UNCHANGED call, Chain',
           call.kind = "update", Differs(Old, Key, call.binding),
           NEW node, IsNode(node), WellLinked(node), NEW prefix \in Seq(Byte),
           Save(node, prefix, "spine"), prefix = Hole'[1],
           Stands(Digest(node), Hole', Key, call.binding, inserted'), Fits(node, ancestors'),
           Blank(node) => inserted' = {},
           PassThrough(node) =>
              \A e \in Edges(node) : MayMerge(node.children[e], node, inserted', Old, Key)
    PROVE  SInv'
<1>1. Key' = Key /\ Old' = Old
  BY SameCall
<1> DEFINE q == <<prefix, Digest(node)>>
<1>2. q[1] = prefix /\ q[2] = Digest(node) /\ NodeOf(q[2]) = node /\ NodeOf(Digest(node)) = node
  BY DEF NodeOf, Digest
<1>3. SoundAt(q) /\ EditsTo(q, Hole', Key, call.binding)
  BY DEF Stands
<1> HIDE DEF q
<1>4. PositionOk(prefix, node)
  BY <1>2, <1>3, SoundUnfold
<1>5. \/ /\ Blank(node) /\ pc' = "rise" /\ replacement' = None /\ UNCHANGED <<job, result>>
      \/ /\ PassThrough(node) /\ pc' = "collapse"
         /\ job' = [node |-> node, prefix |-> prefix, next |-> "spine"]
         /\ UNCHANGED <<replacement, result>>
      \/ /\ ~Blank(node) /\ ~PassThrough(node) /\ Canonical(node) /\ pc' = "insert"
         /\ job' = [node |-> node, prefix |-> prefix, next |-> "spine"]
         /\ UNCHANGED <<replacement, result>>
  BY <1>4, SaveGoes
<1>6. CASE pc' = "rise"
  <2>1. Blank(node) /\ replacement' = None /\ inserted' = {} /\ UNCHANGED result
    BY <1>5, <1>6
  <2>2. \A k, b : ~Bound(q, k, b)
    <3>1. \A k, b : ~Own(q, k, b)
      BY <1>2, <2>1 DEF Own, Blank
    <3> QED
      BY <1>2, <2>1, <3>1, BoundUnfold DEF Blank
  <2>3. Gone(Hole', Key, call.binding)
    BY <1>3, <2>2 DEF EditsTo, Gone
  <2>4. Working'
    BY <1>1, <1>6, <2>1, <2>3 DEF Working, AtRise
  <2> QED
    BY <1>6, <2>1, <2>4, WorkSound
<1>7. CASE pc' # "rise"
  <2>1. /\ job' = [node |-> node, prefix |-> prefix, next |-> "spine"] /\ UNCHANGED result
        /\ pc' = "collapse" => PassThrough(node)
        /\ pc' = "insert" => Canonical(node)
        /\ pc' \in {"collapse", "insert"}
    BY <1>5, <1>7
  <2>2. job'.node = node /\ job'.prefix = prefix /\ job'.next = "spine"
    BY <2>1
  <2>3. AtSpine'
    BY <1>1, <2>2 DEF AtSpine
  <2>4. ASSUME pc' = "collapse" PROVE MayMerge(OnlyId', node, inserted', Old, Key)
    <3>1. OnlyEdge' \in Edges(node)
      BY <2>1, <2>2, <2>4 DEF OnlyEdge, PassThrough
    <3>2. OnlyId' = node.children[OnlyEdge']
      BY <2>2 DEF OnlyId
    <3> QED
      BY <2>1, <2>4, <3>1, <3>2
  <2>5. Working'
    BY <1>1, <2>1, <2>2, <2>3, <2>4 DEF Working, AtCollapse, AtInsert
  <2> QED
    BY <2>1, <2>5, WorkSound
<1> QED
  BY <1>6, <1>7

(* The key ends at this node: its binding is set or cleared. *)
LEMMA RebindSound ==
    ASSUME IInv, SInv, Rebind
    PROVE  SInv'
<1> DEFINE m == [N EXCEPT !.binding = call.binding]
           q == At0(Here[1], m)
<1>1. /\ Updating /\ Shared = Len(N.label) /\ At = Len(Key) /\ N.binding # call.binding
      /\ Save(m, Before(Key, cursor.offset), "spine") /\ UNCHANGED <<cursor, ancestors>>
  BY DEF Rebind
<1>2. /\ pc = "load" /\ call.kind = "update" /\ World' /\ UNCHANGED <<call, inserted>>
      /\ IsTree(Trie) /\ IsPlace(Trie, Here) /\ IsPlace(Trie, Old) /\ NodeOf(Here[2]) = N
      /\ \A b : Bound(Old, Key, b) <=> Bound(Here, Key, b)
      /\ inserted = {} /\ Chain /\ Hole = Here /\ SoundAt(Here) /\ OnWay(Old, Key, Here)
      /\ call.binding \in Binding \cup {None} /\ Key \in Seq(Byte) /\ ValidPath(call.path) /\ World
  BY <1>1, UpdateFacts
<1>3. /\ FullKey(Here) = Key /\ \A b : Bound(Here, Key, b) <=> b # None /\ N.binding = b
  BY <1>1, KeyBound
<1>4. Here[1] = Before(Key, cursor.offset) /\ Here[1] \in Seq(Byte)
  BY <1>2 DEF Here, IsPlace
<1>5. /\ EditsTo(q, Here, Key, call.binding) /\ FullKey(q) = Key
      /\ m.label = N.label /\ m.children = N.children /\ m.binding = call.binding
      /\ IsNode(m) /\ Refs(m) = Refs(N) /\ WellLinked(m)
      /\ SoundAt(Here) /\ PositionOk(Here[1], m) => SoundAt(q)
  <2> DEFINE n == NodeOf(Here[2])
             m0 == [n EXCEPT !.binding = call.binding]
             q0 == At0(Here[1], m0)
  <2>1. /\ EditsTo(q0, Here, FullKey(Here), call.binding) /\ FullKey(q0) = FullKey(Here)
        /\ m0.label = n.label /\ m0.children = n.children /\ m0.binding = call.binding
        /\ IsNode(m0) /\ Refs(m0) = Refs(n) /\ WellLinked(m0)
        /\ SoundAt(Here) /\ PositionOk(Here[1], m0) => SoundAt(q0)
    BY <1>2, BindEdits
  <2>2. n = N /\ FullKey(Here) = Key
    BY <1>2, <1>3
  <2>3. m0 = m
    BY <2>2
  <2> HIDE DEF m, m0, n
  <2>4. q0 = q
    BY <2>3
  <2> HIDE DEF q, q0
  <2> QED
    BY <2>1, <2>2, <2>3, <2>4
<1>6. q = <<Here[1], Digest(m)>>
  BY DEF At0
<1> HIDE DEF m, q
<1>7. PositionOk(Here[1], m)
  <2>1. PositionOk(Here[1], N)
    BY <1>2, SoundUnfold
  <2>2. Here[1] \o m.label = Key
    BY <1>2, <1>3, <1>5 DEF FullKey
  <2>3. DecodesToPath(Key)
    BY <1>2, CallFacts
  <2> QED
    BY <1>5, <2>1, <2>2, <2>3 DEF PositionOk, Joinable
<1>8. Differs(Old, Key, call.binding)
  <2>1. CASE call.binding = None
    <3>1. Bound(Old, Key, N.binding)
      BY <1>1, <1>2, <1>3, <2>1
    <3> QED
      BY <2>1, <3>1 DEF Differs
  <2>2. CASE call.binding # None
    <3>1. ~Bound(Old, Key, call.binding)
      BY <1>1, <1>2, <1>3
    <3> QED
      BY <2>2, <3>1 DEF Differs
  <2> QED
    BY <2>1, <2>2
<1>9. Key' = Key /\ Old' = Old /\ Hole' = Hole /\ Chain'
  BY <1>1, <1>2, SameHole
<1>10. Stands(Digest(m), Hole', Key, call.binding, inserted')
  BY <1>2, <1>5, <1>6, <1>7, <1>9 DEF Stands
<1>11. Fits(m, ancestors')
  <2>1. Fits(N, ancestors)
    <3>1. ancestors \in Seq([id : stored \cup {EmptyRoot}, edge : Byte, offset : Nat])
      BY DEF IInv, TypeOK
    <3>2. ChainIn(Key, Old, ancestors) /\ HoleAt(Key, Old, ancestors, Len(ancestors)) = Here
      BY <1>2 DEF Chain, Hole
    <3> QED
      BY <1>2, <3>1, <3>2, HoleFits
  <2> QED
    BY <1>1, <1>5, <2>1 DEF Fits
<1>12. ASSUME NEW e \in Edges(m) PROVE MayMerge(m.children[e], m, inserted', Old, Key)
  <2>1. e \in Edges(NodeOf(Here[2])) /\ m.children[e] = NodeOf(Here[2]).children[e]
    BY <1>2, <1>5 DEF Edges
  <2>2. Begins(FullKey(Here), Key)
    BY <1>2, <1>3, BeginsSelf
  <2>3. Touched(Old, NodeOf(Here[2]).children[e], Key)
    BY <1>2, <2>1, <2>2, WayDown
  <2> QED
    BY <1>2, <2>1, <2>3 DEF MayMerge
<1> QED
  BY <1>1, <1>2, <1>4, <1>5, <1>8, <1>9, <1>10, <1>11, <1>12, SpineSave

-----------------------------------------------------------------------------
(* What the two halves of a split label stand for. *)
LEMMA SplitHere ==
    ASSUME NoneIsApart, IInv, World, SoundAt(Old), OnWay(Old, Key, Here),
           Shared < Len(N.label)
    PROVE  LET t == TailOf(N, Shared)
               e == N.label[Shared + 1]
               m == SetChild(HeadOf(N, Shared), e, Digest(t))
           IN  /\ SplitAt(Shared, N, t, e, m, At0(Here[1], m), Before(Key, At), Here)
               /\ Refs(t) \subseteq Trie /\ Refs(m) \subseteq Trie \cup {Digest(t)}
<1>1. /\ IsTree(Trie) /\ IsPlace(Trie, Here) /\ NodeOf(Here[2]) = N /\ Canonical(N)
      /\ SoundAt(Here)
  BY HereFacts
<1>2. Shared \in 0..Len(N.label) /\ Before(Key, At) = Here[1] \o Before(N.label, Shared)
  BY SharedFacts
<1> DEFINE n == NodeOf(Here[2])
           s == Shared
           t == TailOf(n, s)
           e == n.label[s + 1]
           m == SetChild(HeadOf(n, s), e, Digest(t))
           q == At0(Here[1], m)
           F == Here[1] \o Before(n.label, s)
<1>3. n = N
  BY <1>1
<1>4. Canonical(NodeOf(Here[2])) /\ s \in 0..Len(NodeOf(Here[2]).label)
      /\ s < Len(NodeOf(Here[2]).label)
  BY <1>1, <1>2
<1> HIDE DEF s
<1>5. SplitAt(s, n, t, e, m, q, F, Here) /\ Refs(t) \subseteq Trie
      /\ Refs(m) \subseteq Trie \cup {Digest(t)}
  BY <1>1, <1>4, SplitEdits
<1> HIDE DEF n, t, e, m, q, F
<1>7. /\ F = Before(Key, At) /\ e = N.label[Shared + 1] /\ t = TailOf(N, Shared) /\ s = Shared
  BY <1>2, <1>3 DEF F, e, t, s
<1>8. m = SetChild(HeadOf(N, Shared), N.label[Shared + 1], Digest(t))
  BY <1>3, <1>7 DEF m
<1>9. q = At0(Here[1], m)
  BY DEF q
<1> QED
  BY <1>3, <1>5, <1>7, <1>8, <1>9

(* Facts about the chain as the state has it. *)
LEMMA ChainTyped ==
    ASSUME IInv
    PROVE  ancestors \in Seq([id : stored \cup {EmptyRoot}, edge : Byte, offset : Nat])
  BY DEF IInv, TypeOK

(* The tail is saved first; the head waits for it. *)
LEMMA SplitLabelSound ==
    ASSUME NoneIsApart, IInv, SInv, SplitLabel
    PROVE  SInv'
<1> DEFINE t == TailOf(N, Shared)
<1>1. /\ Updating /\ call.binding # None /\ Shared < Len(N.label)
      /\ parent' = [node |-> HeadOf(N, Shared), offset |-> cursor.offset, at |-> At]
      /\ Save(t, Before(Key, At), "tail") /\ UNCHANGED <<cursor, ancestors>>
  BY DEF SplitLabel, HeadOf, TailOf
<1>2. /\ pc = "load" /\ call.kind = "update" /\ World' /\ UNCHANGED <<call, inserted>> /\ World
      /\ \A b : Bound(Old, Key, b) <=> Bound(Here, Key, b)
      /\ inserted = {} /\ Chain /\ Hole = Here /\ SoundAt(Old) /\ OnWay(Old, Key, Here)
      /\ Key \in Seq(Byte)
  BY <1>1, UpdateFacts
<1>3. IsNode(t) /\ WellLinked(t) /\ ~Blank(t) /\ ~PassThrough(t) /\ PositionOk(Before(Key, At), t)
  BY <1>1, <1>2, SplitHere DEF SplitAt
<1>4. Before(Key, At) \in Seq(Byte)
  BY AtCursor
<1> HIDE DEF t
<1>5. /\ Canonical(t) /\ pc' = "insert" /\ UNCHANGED <<replacement, result>>
      /\ job' = [node |-> t, prefix |-> Before(Key, At), next |-> "tail"]
  BY <1>1, <1>3, <1>4, SaveGoes
<1>6. job'.node = t /\ job'.prefix = Before(Key, At) /\ job'.next = "tail"
  BY <1>5
<1>7. Key' = Key /\ Old' = Old /\ Hole' = Hole /\ Chain'
  BY <1>1, <1>2, SameHole
<1>8. Here' = Here /\ N' = N /\ Shared' = Shared /\ At' = At
  BY <1>1, <1>7 DEF Here, N, Shared, At, Rest
<1>9. AtTail'
  BY <1>1, <1>2, <1>6, <1>7, <1>8 DEF AtTail, t
<1>10. Differs(Old, Key, call.binding)
  <2>1. ~Bound(Old, Key, call.binding)
    BY <1>1, <1>2, KeyBound
  <2> QED
    BY <1>1, <2>1 DEF Differs
<1>11. Working'
  BY <1>2, <1>3, <1>5, <1>6, <1>7, <1>9, <1>10 DEF Working, AtInsert
<1> QED
  BY <1>2, <1>5, <1>11, WorkSound

(* The leaf for the rest of the key, below a node that stands for the old   *)
(* map, is saved without fail.                                              *)
LEMMA LeafSave ==
    ASSUME IInv, SInv, pc \notin {"idle", "return"}, World', UNCHANGED <<call, ancestors>>,
           Chain, call.kind = "update", Differs(Old, Key, call.binding),
           NEW at \in Nat, at < Len(Key), call.binding # None,
           NEW node, Waits(node, Hole, Key, at, ancestors, inserted'),
           Begins(FullKey(<<Hole[1], Digest(node)>>), Key), Len(FullKey(<<Hole[1], Digest(node)>>)) = at,
           parent'.node = node, parent'.at = at, Before(Key, parent'.offset) = Hole[1],
           Save(Leaf(at), Before(Key, at), "leaf")
    PROVE  SInv'
<1> DEFINE leaf == Leaf(at)
           p == <<Hole[1], Digest(node)>>
           e == Key[at + 1]
<1>0. Key \in Seq(Byte) /\ ValidPath(call.path) /\ World
  BY AtCursor DEF SInv, CallSound
<1>1. /\ p[1] = Hole[1] /\ NodeOf(p[2]) = node
      /\ FullKey(p) = Before(Key, at) /\ e \notin Edges(node)
  BY DEF Waits, NodeOf, Digest
<1>2. Before(Key, at) \in Seq(Byte)
  BY <1>0, Cuts
<1>3. PassesAt(p, e, Key) /\ Len(FullKey(p)) = at
  BY <1>1 DEF PassesAt
<1>4. call.binding \in Binding /\ DecodesToPath(Key) /\ Len(Key) <= PathMaxBytes
  BY <1>0, CallFacts
<1> HIDE DEF p, e
<1>5. leaf = LeafFor(Key, Len(FullKey(p)), call.binding)
  BY <1>3 DEF LeafFor, Leaf
<1>6. /\ IsNode(leaf) /\ WellLinked(leaf) /\ ~Blank(leaf) /\ ~PassThrough(leaf)
      /\ PositionOk(Before(Key, at), leaf)
  <2>1. LET l == LeafFor(Key, Len(FullKey(p)), call.binding) IN
        /\ IsNode(l) /\ WellLinked(l) /\ ~Blank(l) /\ ~PassThrough(l)
        /\ PositionOk(FullKey(p), l)
    BY <1>0, <1>1, <1>2, <1>3, <1>4, LeafEdits
  <2> HIDE DEF leaf
  <2> QED
    BY <1>1, <1>5, <2>1
<1> HIDE DEF leaf
<1>7. /\ Canonical(leaf) /\ pc' = "insert" /\ UNCHANGED <<replacement, result>>
      /\ job' = [node |-> leaf, prefix |-> Before(Key, at), next |-> "leaf"]
  <2>1. Save(leaf, Before(Key, at), "leaf")
    BY DEF leaf
  <2> QED
    BY <1>2, <1>6, <2>1, SaveGoes
<1>8. job'.node = leaf /\ job'.prefix = Before(Key, at) /\ job'.next = "leaf"
  BY <1>7
<1>9. Key' = Key /\ Old' = Old /\ Hole' = Hole /\ Chain'
  BY SameHole
<1>10. AtLeaf'
  <2>1. Leaf(parent.at)' = leaf
    BY <1>9 DEF Leaf, leaf
  <2> QED
    BY <1>8, <1>9, <2>1 DEF AtLeaf
<1>11. Working'
  BY <1>6, <1>7, <1>8, <1>9, <1>10 DEF Working, AtInsert
<1> QED
  BY <1>7, <1>11, WorkSound

(* No edge to follow: a leaf is saved and this node waits for it. *)
LEMMA AddLeafSound ==
    ASSUME IInv, SInv, AddLeaf
    PROVE  SInv'
<1>1. /\ Updating /\ call.binding # None /\ Shared = Len(N.label) /\ At < Len(Key)
      /\ Key[At + 1] \notin Edges(N)
      /\ parent' = [node |-> N, offset |-> cursor.offset, at |-> At]
      /\ Save(Leaf(At), Before(Key, At), "leaf") /\ UNCHANGED <<cursor, ancestors>>
  BY DEF AddLeaf
<1>2. /\ pc = "load" /\ call.kind = "update" /\ World' /\ UNCHANGED <<call, inserted>> /\ World
      /\ IsTree(Trie) /\ IsPlace(Trie, Here) /\ IsPlace(Trie, Old) /\ NodeOf(Here[2]) = N
      /\ \A b : Bound(Old, Key, b) <=> Bound(Here, Key, b)
      /\ inserted = {} /\ Chain /\ Hole = Here /\ SoundAt(Here) /\ SoundAt(Old)
      /\ OnWay(Old, Key, Here)
  BY <1>1, UpdateFacts
<1>3. /\ FullKey(Here) = Before(Key, At) /\ Len(FullKey(Here)) = At
      /\ Begins(FullKey(Here), Key)
  BY <1>1, KeyBound
<1>4. <<Hole[1], Digest(N)>> = Here
  BY <1>2, PlaceOfNode DEF At0
<1>5. Fits(N, ancestors)
  <2>1. ChainIn(Key, Old, ancestors) /\ HoleAt(Key, Old, ancestors, Len(ancestors)) = Here
    BY <1>2 DEF Chain, Hole
  <2> QED
    BY <1>2, <2>1, HoleFits, ChainTyped
<1>6. WellLinked(N) /\ Canonical(N)
  BY <1>2, HereFacts
<1>7. Waits(N, Hole, Key, At, ancestors, inserted')
  BY <1>1, <1>2, <1>3, <1>4, <1>5, <1>6 DEF Waits, Canonical, Blank
<1>8. Differs(Old, Key, call.binding)
  <2>1. ~Bound(Old, Key, call.binding)
    BY <1>1, <1>2, KeyBound
  <2> QED
    BY <1>1, <2>1 DEF Differs
<1>9. At \in Nat
  BY AtCursor
<1>10. Before(Key, cursor.offset) = Hole[1]
  BY <1>2 DEF Here
<1> QED
  BY <1>1, <1>2, <1>3, <1>4, <1>7, <1>8, <1>9, <1>10, LeafSave

-----------------------------------------------------------------------------
(* insert, and what it makes of the saved node. *)

(* A row inserted leaves the rest of the store as it was. *)
LEMMA InsertWorld ==
    ASSUME IInv, SInv, InsertRow
    PROVE  /\ pc = "insert" /\ World /\ World' /\ SoundAt(Old) /\ ValidPath(call.path)
           /\ inserted' = inserted \cup {Row}
           /\ call.kind = "update" /\ Chain /\ Differs(Old, Key, call.binding)
           /\ Canonical(job.node) /\ WellLinked(job.node) /\ AtInsert
           /\ NodeOf(Row) = job.node /\ Trie' = Trie \cup {Row}
           /\ IsTree(Trie) /\ IsTree(Trie \cup {Row}) /\ IsPlace(Trie, Old) /\ Key \in Seq(Byte)
           /\ UNCHANGED <<call, roots, spine>>
<1>1. /\ pc = "insert" /\ stored' = stored \cup {Row} /\ inserted' = inserted \cup {Row}
      /\ UNCHANGED <<call, roots, spine>>
  BY DEF InsertRow
<1>2. World /\ SoundAt(Old) /\ ValidPath(call.path) /\ call.kind = "update" /\ Chain
      /\ Differs(Old, Key, call.binding) /\ WellLinked(job.node) /\ AtInsert
  BY <1>1 DEF SInv, CallSound, Working
<1>3. Canonical(job.node)
  BY <1>2 DEF AtInsert
<1>4. NodeOf(Row) = job.node
  BY DEF Row, NodeOf, Digest
<1>5. World'
  BY <1>1, <1>2, <1>3, <1>4 DEF World
<1>6. Trie' = Trie \cup {Row}
  BY <1>1 DEF Trie
<1>7. IsTree(Trie) /\ IsPlace(Trie, Old) /\ Key \in Seq(Byte)
  BY <1>2, TrieFacts, CallFacts
<1>8. IsNode(job.node) /\ Refs(job.node) \subseteq Trie
  BY DEF IInv, TypeOK, Work, WorkClosed, Trie
<1>9. IsTree(Trie \cup {Row})
  BY <1>2, <1>7, <1>8, GrowTree DEF Row
<1> QED
  BY <1>1, <1>2, <1>3, <1>4, <1>5, <1>6, <1>7, <1>9

(* The tail of a split label is in the store. *)
LEMMA TailFacts ==
    ASSUME NoneIsApart, IInv, SInv, InsertRow, job.next = "tail"
    PROVE  LET m == Attach(Row)
               q == <<Hole[1], Digest(m)>>
           IN  /\ IsNode(m) /\ WellLinked(m) /\ m.binding = None
               /\ Refs(m) \subseteq Trie \cup {Row}
               /\ Edges(m) = {N.label[Shared + 1]} /\ m.children[N.label[Shared + 1]] = Row
               /\ SoundAt(q) /\ FullKey(q) = Before(Key, At)
               /\ \A k, b : Bound(q, k, b) <=> Bound(Hole, k, b)
               /\ Fits(m, ancestors) /\ Hole[1] = Before(Key, parent.offset)
               /\ parent.at = At /\ inserted = {} /\ call.binding # None
               /\ At < Len(Key) => Key[At + 1] \notin Edges(m)
<1> DEFINE t == TailOf(N, Shared)
           e == N.label[Shared + 1]
           m == Attach(Row)
           q == <<Hole[1], Digest(m)>>
<1>1. AtTail /\ World /\ SoundAt(Old) /\ Chain /\ IsTree(Trie) /\ IsPlace(Trie, Old)
  BY InsertWorld DEF AtInsert
<1>2. /\ OnWay(Old, Key, Here) /\ Hole = Here /\ Shared < Len(N.label) /\ job.node = t
      /\ parent = [node |-> HeadOf(N, Shared), offset |-> cursor.offset, at |-> At]
      /\ call.binding # None /\ inserted = {}
  BY <1>1 DEF AtTail
<1>3. parent.node = HeadOf(N, Shared) /\ parent.offset = cursor.offset /\ parent.at = At
  BY <1>2
<1> DEFINE m1 == SetChild(HeadOf(N, Shared), e, Digest(t))
<1>4. /\ SplitAt(Shared, N, t, e, m1, At0(Here[1], m1), Before(Key, At), Here)
      /\ Refs(t) \subseteq Trie /\ Refs(m1) \subseteq Trie \cup {Digest(t)}
  BY <1>1, <1>2, SplitHere
<1>5. t.label[1] = e
  BY <1>4 DEF SplitAt
<1>6. m = m1 /\ Row = Digest(t)
  BY <1>2, <1>3, <1>5 DEF Attach, Row
<1>7. q = At0(Here[1], m1)
  BY <1>2, <1>6 DEF At0
<1> HIDE DEF t, e, m, m1, q
<1>8. /\ IsNode(m) /\ WellLinked(m) /\ m.binding = None /\ Refs(m) \subseteq Trie \cup {Row}
      /\ m.label = Before(N.label, Shared)
      /\ Edges(m) = {e} /\ m.children[e] = Row
      /\ SoundAt(q) /\ FullKey(q) = Before(Key, At)
      /\ \A k, b : Bound(q, k, b) <=> Bound(Hole, k, b)
  BY <1>2, <1>4, <1>6, <1>7 DEF SplitAt
<1>9. /\ Shared \in 0..Len(N.label) /\ At = cursor.offset + Shared /\ At \in 0..Len(Key)
      /\ At < Len(Key) => Key[At + 1] # e
  BY <1>1, <1>2, SharedFacts DEF e
<1>10. /\ Here[1] = Before(Key, cursor.offset) /\ Len(Here[1]) = cursor.offset
       /\ N.label \in Seq(Byte) /\ NodeOf(Here[2]) = N
  BY <1>1, <1>2, HereFacts
<1>11. Fits(m, ancestors)
  <2> SUFFICES ASSUME ancestors # << >>
               PROVE  m.label # << >> /\ m.label[1] = ancestors[Len(ancestors)].edge
    BY DEF Fits
  <2> DEFINE top == ancestors[Len(ancestors)]
  <2>1. ChainIn(Key, Old, ancestors) /\ HoleAt(Key, Old, ancestors, Len(ancestors)) = Here
    BY <1>1, <1>2 DEF Chain, Hole
  <2>2. Fits(N, ancestors)
    BY <1>1, <1>10, <2>1, HoleFits, ChainTyped
  <2>3. N.label # << >> /\ N.label[1] = top.edge
    BY <2>2 DEF Fits
  <2>4. Passes(Key, top) /\ Here = ChildPlace(PlaceOf(Key, top), top.edge)
    BY <2>1, ChainShrinks, ChainTyped
  <2> HIDE DEF top
  <2>5. FullKey(PlaceOf(Key, top)) = Here[1]
    BY <2>4 DEF ChildPlace
  <2>6. cursor.offset < Len(Key) /\ Key[cursor.offset + 1] = top.edge
    BY <1>10, <2>4, <2>5 DEF Passes, PassesAt
  <2>7. Shared # 0
    <3> SUFFICES ASSUME Shared = 0 PROVE FALSE
      OBVIOUS
    <3>1. cursor.offset \in Nat
      BY DEF IInv, TypeOK
    <3>2. At = cursor.offset /\ Shared + 1 = 1
      BY <1>9, <3>1
    <3>3. Key[At + 1] # N.label[1]
      BY <1>9, <2>6, <3>2 DEF e
    <3> QED
      BY <2>3, <2>6, <3>2, <3>3
  <2>8. Len(m.label) = Shared /\ \A i \in 1..Shared : m.label[i] = N.label[i]
    BY <1>8, <1>9, <1>10, BeginsBefore
  <2>9. 1 \in 1..Shared /\ Shared \in Nat
    BY <1>9, <1>10, <2>7
  <2>10. m.label[1] = N.label[1]
    BY <2>8, <2>9
  <2>11. m.label # << >>
    BY <2>7, <2>8
  <2> QED
    BY <2>3, <2>10, <2>11 DEF top
<1>12. Hole[1] = Before(Key, parent.offset)
  BY <1>2, <1>3, <1>10
<1>13. At < Len(Key) => Key[At + 1] \notin Edges(m)
  BY <1>8, <1>9
<1> QED
  BY <1>2, <1>3, <1>8, <1>11, <1>12, <1>13 DEF m, q, e

(* The tail is saved and the key ends at the head: it is bound there. *)
LEMMA TailRebindSound ==
    ASSUME NoneIsApart, IInv, SInv, InsertRow, job.next = "tail", parent.at = Len(Key)
    PROVE  SInv'
<1> DEFINE m  == Attach(Row)
           q  == <<Hole[1], Digest(m)>>
           S  == Trie \cup {Row}
           S2 == S \cup {Digest(m)}
           c  == call.binding
           n  == [m EXCEPT !.binding = c]
           q2 == <<Hole[1], Digest(n)>>
           e  == N.label[Shared + 1]
<1>1. /\ pc = "insert" /\ World /\ World' /\ SoundAt(Old) /\ ValidPath(call.path)
      /\ inserted' = inserted \cup {Row} /\ call.kind = "update" /\ Chain
      /\ Differs(Old, Key, call.binding) /\ IsTree(S) /\ IsTree(Trie) /\ IsPlace(Trie, Old)
      /\ Key \in Seq(Byte) /\ UNCHANGED <<call, spine>>
  BY InsertWorld
<1>2. Save(n, Before(Key, parent.offset), "spine")
  BY <1>1 DEF InsertRow, AfterTail
<1>3. /\ IsNode(m) /\ WellLinked(m) /\ m.binding = None /\ Refs(m) \subseteq S
      /\ Edges(m) = {e} /\ m.children[e] = Row
      /\ SoundAt(q) /\ FullKey(q) = Before(Key, At)
      /\ \A k, b : Bound(q, k, b) <=> Bound(Hole, k, b)
      /\ Fits(m, ancestors) /\ Hole[1] = Before(Key, parent.offset)
      /\ parent.at = At /\ inserted = {} /\ c # None
  BY TailFacts
<1>4. c \in Binding \cup {None} /\ DecodesToPath(Key)
  BY <1>1, CallFacts
<1>5. ancestors' = ancestors
  BY <1>1 DEF spine
<1>6. Key' = Key /\ Old' = Old /\ Hole' = Hole /\ Chain'
  BY <1>1, <1>5, SameHole
<1>7. Before(Key, At) = Key
  <2>0. Len(Key) \in Nat
    BY <1>1, NoLonger, Zenon
  <2>1. At = Len(Key) /\ Len(Key) \in Nat /\ Len(Key) \in 0..Len(Key)
    BY <1>3, <2>0
  <2>2. /\ Begins(Before(Key, Len(Key)), Key) /\ Before(Key, Len(Key)) \in Seq(Byte)
        /\ Len(Before(Key, Len(Key))) = Len(Key)
    BY <1>1, <2>1, BeginsBefore
  <2>3. Len(Key) <= Len(Before(Key, Len(Key)))
    BY <2>1, <2>2
  <2>4. Before(Key, Len(Key)) = Key
    BY <1>1, <2>2, <2>3, BeginsWhole
  <2> QED
    BY <2>1, <2>4
<1>8. OnWay(Old, Key, Hole) /\ IsPlace(Trie, Hole)
  BY <1>1, HoleFits, ChainTyped DEF Chain, Hole
<1>9. Hole[1] \in Seq(Byte)
  BY <1>8 DEF IsPlace
<1> HIDE DEF S, S2, m, c, e
<1>10. IsTree(S2) /\ IsPlace(S2, q)
  BY <1>1, <1>3, <1>9, GrowTree DEF S2, At0
<1>11. NodeOf(q[2]) = m /\ q[1] = Hole[1]
  BY DEF NodeOf, Digest
<1> HIDE DEF q
<1>12. /\ EditsTo(q2, q, Key, c) /\ FullKey(q2) = Key
       /\ n.label = m.label /\ n.children = m.children /\ n.binding = c
       /\ IsNode(n) /\ WellLinked(n)
       /\ SoundAt(q) /\ PositionOk(Hole[1], n) => SoundAt(q2)
  <2> DEFINE n0 == [NodeOf(q[2]) EXCEPT !.binding = c]
             q0 == At0(q[1], n0)
  <2>1. /\ EditsTo(q0, q, FullKey(q), c) /\ FullKey(q0) = FullKey(q)
        /\ n0.label = NodeOf(q[2]).label /\ n0.children = NodeOf(q[2]).children
        /\ n0.binding = c
        /\ IsNode(n0) /\ WellLinked(n0)
        /\ SoundAt(q) /\ PositionOk(q[1], n0) => SoundAt(q0)
    BY <1>4, <1>10, BindEdits DEF c
  <2>2. n0 = n
    BY <1>11
  <2>3. q0 = q2
    BY <1>11, <2>2 DEF At0
  <2> HIDE DEF n0, q0, n, q2
  <2> QED
    BY <1>3, <1>7, <1>11, <2>1, <2>2, <2>3
<1>13. PositionOk(Hole[1], n)
  <2>1. PositionOk(q[1], NodeOf(q[2]))
    BY <1>3, SoundUnfold
  <2>2. FullKey(q) = Hole[1] \o m.label
    BY <1>11 DEF FullKey
  <2> HIDE DEF n, q2
  <2> QED
    BY <1>3, <1>4, <1>7, <1>11, <1>12, <2>1, <2>2 DEF PositionOk, Joinable
<1>14. q2[1] = Hole[1] /\ NodeOf(q2[2]) = n
  BY DEF NodeOf, Digest
<1> HIDE DEF n
<1>15. EditsTo(q2, Hole, Key, c)
  BY <1>3, <1>12 DEF EditsTo, Edited
<1>16. Touched(q2, Row, Key)
  <2>1. e \in Edges(NodeOf(q2[2])) /\ NodeOf(q2[2]).children[e] = Row
    BY <1>3, <1>12, <1>14 DEF Edges
  <2>2. Begins(FullKey(q2), Key)
    BY <1>1, <1>12, BeginsSelf
  <2> HIDE DEF q2
  <2> QED
    BY <2>1, <2>2, TouchChild
<1>17. Stands(Digest(n), Hole', Key, c, inserted')
  BY <1>1, <1>3, <1>6, <1>12, <1>13, <1>15, <1>16 DEF Stands
<1>18. Fits(n, ancestors')
  BY <1>3, <1>5, <1>12 DEF Fits
<1>19. ~Blank(n) /\ ~PassThrough(n)
  BY <1>3, <1>12 DEF Blank, PassThrough
<1> QED
  BY <1>1, <1>2, <1>3, <1>6, <1>9, <1>12, <1>17, <1>18, <1>19, SpineSave DEF c

(* The tail is saved and the key goes on: a leaf for the rest is next. *)
LEMMA TailLeafSound ==
    ASSUME NoneIsApart, IInv, SInv, InsertRow, job.next = "tail", parent.at # Len(Key)
    PROVE  SInv'
<1> DEFINE m == Attach(Row)
           q == <<Hole[1], Digest(m)>>
           e == N.label[Shared + 1]
<1>1. /\ pc = "insert" /\ World' /\ inserted' = inserted \cup {Row} /\ call.kind = "update"
      /\ Chain /\ Differs(Old, Key, call.binding) /\ Key \in Seq(Byte) /\ UNCHANGED <<call, spine>>
  BY InsertWorld
<1>2. parent' = [parent EXCEPT !.node = m] /\ Save(Leaf(parent.at), Before(Key, parent.at), "leaf")
  BY <1>1 DEF InsertRow, AfterTail
<1>3. /\ IsNode(m) /\ WellLinked(m) /\ m.binding = None
      /\ Edges(m) = {e} /\ m.children[e] = Row
      /\ SoundAt(q) /\ FullKey(q) = Before(Key, At)
      /\ \A k, b : Bound(q, k, b) <=> Bound(Hole, k, b)
      /\ Fits(m, ancestors) /\ Hole[1] = Before(Key, parent.offset)
      /\ parent.at = At /\ inserted = {} /\ call.binding # None
      /\ At < Len(Key) => Key[At + 1] \notin Edges(m)
  BY TailFacts
<1>4. At \in Nat /\ Len(Key) \in Nat /\ At < Len(Key)
  BY <1>3, AtCursor
<1>5. ancestors' = ancestors
  BY <1>1 DEF spine
<1> HIDE DEF m, e
<1>6. parent'.node = m /\ parent'.at = At /\ parent'.offset = parent.offset
  <2>1. parent = [node |-> parent.node, offset |-> parent.offset, at |-> parent.at]
    BY DEF IInv, TypeOK
  <2> QED
    BY <1>2, <1>3, <2>1
<1>7. inserted' \subseteq Refs(m)
  BY <1>1, <1>3 DEF Refs
<1> HIDE DEF q
<1>8. Waits(m, Hole, Key, At, ancestors, inserted')
  BY <1>3, <1>4, <1>7 DEF Waits, q
<1>9. Begins(FullKey(q), Key) /\ Len(FullKey(q)) = At
  <2>1. At \in 0..Len(Key)
    BY <1>4
  <2> QED
    BY <1>1, <1>3, <2>1, BeginsBefore
<1> QED
  BY <1>1, <1>2, <1>3, <1>4, <1>5, <1>6, <1>8, <1>9, LeafSave DEF q

(* Both edits of a child, and the leaf, for a node given by name. *)
LEMMA ChildEdit ==
    ASSUME NEW S, IsTree(S), NEW p, IsPlace(S, p), SoundAt(p), NEW key \in Seq(Byte), NEW c,
           NEW e, PassesAt(p, e, key), NEW id,
           id = None => EdgeGone(p, e, key, c),
           id # None => EdgeEditsTo(<<FullKey(p), id>>, p, e, key, c),
           id # None => SoundAt(<<FullKey(p), id>>),
           NEW q, q = At0(p[1], SetChild(NodeOf(p[2]), e, id))
    PROVE  ChildEdited(q, p, e, key, c, id) /\ SoundAt(q)
<1> DEFINE r == At0(p[1], SetChild(NodeOf(p[2]), e, id))
<1>1. ChildEdited(r, p, e, key, c, id)
  BY SetChildEdits
<1>2. SoundAt(r)
  BY SetChildSound
<1> HIDE DEF r
<1>3. q = r
  BY DEF r
<1> QED
  BY <1>1, <1>2, <1>3

(* The leaf is saved: the node that waited gets it as a child. *)
LEMMA LeafAt ==
    ASSUME NEW p, FullKey(p) \in Seq(Byte), NEW key \in Seq(Byte), NEW e,
           PassesAt(p, e, key), e \notin Edges(NodeOf(p[2])),
           NEW c \in Binding, Len(key) <= PathMaxBytes, DecodesToPath(key),
           NEW leaf, leaf = LeafFor(key, Len(FullKey(p)), c)
    PROVE  /\ EdgeEditsTo(<<FullKey(p), Digest(leaf)>>, p, e, key, c)
           /\ SoundAt(<<FullKey(p), Digest(leaf)>>) /\ HangsFrom(Digest(leaf), e)
           /\ leaf.label # << >> /\ leaf.label[1] = e
<1> DEFINE l == LeafFor(key, Len(FullKey(p)), c)
<1>1. /\ EdgeEditsTo(<<FullKey(p), Digest(l)>>, p, e, key, c)
      /\ SoundAt(<<FullKey(p), Digest(l)>>) /\ HangsFrom(Digest(l), e)
      /\ l.label # << >> /\ l.label[1] = e
  BY LeafEdits
<1> HIDE DEF l
<1>2. leaf = l
  BY DEF l
<1> QED
  BY <1>1, <1>2

(* The leaf is in the store. *)
LEMMA LeafInsertedSound ==
    ASSUME NoneIsApart, IInv, SInv, InsertRow, job.next = "leaf"
    PROVE  SInv'
<1> DEFINE w  == parent.node
           p  == <<Hole[1], Digest(w)>>
           e  == job.node.label[1]
           m  == Attach(Row)
           q  == <<Hole[1], Digest(m)>>
           c  == call.binding
           at == parent.at
           S  == Trie \cup {Digest(w)}
<1>1. /\ pc = "insert" /\ World /\ World' /\ SoundAt(Old) /\ ValidPath(call.path)
      /\ inserted' = inserted \cup {Row} /\ call.kind = "update" /\ Chain
      /\ Differs(Old, Key, c) /\ IsTree(Trie) /\ IsPlace(Trie, Old) /\ AtInsert
      /\ Key \in Seq(Byte) /\ UNCHANGED <<call, spine>>
  BY InsertWorld
<1>2. Save(m, Before(Key, parent.offset), "spine")
  BY DEF InsertRow, AfterLeaf
<1>3. /\ c # None /\ at < Len(Key) /\ job.node = Leaf(at)
      /\ Before(Key, parent.offset) = Hole[1]
      /\ Waits(w, Hole, Key, at, ancestors, inserted)
  BY <1>1 DEF AtInsert, AtLeaf
<1>4. /\ FullKey(p) = Before(Key, at) /\ Key[at + 1] \notin Edges(w)
      /\ \A k, b : Bound(p, k, b) <=> Bound(Hole, k, b)
      /\ SoundAt(p) /\ WellLinked(w) /\ Fits(w, ancestors)
      /\ inserted \subseteq Refs(w)
      /\ Edges(w) = {} /\ w.binding = None => inserted = {} /\ w.label = << >>
  BY <1>3 DEF Waits
<1>5. at \in Nat /\ IsNode(w) /\ Refs(w) \subseteq Trie /\ at \in 0..Len(Key)
  BY <1>1, <1>3 DEF IInv, TypeOK, Work, WorkClosed, WithinKey, Trie
<1>6. c \in Binding /\ DecodesToPath(Key) /\ Len(Key) <= PathMaxBytes
  BY <1>1, <1>3, CallFacts
<1>7. ancestors' = ancestors
  BY <1>1 DEF spine
<1>8. Key' = Key /\ Old' = Old /\ Hole' = Hole /\ Chain'
  BY <1>1, <1>7, SameHole
<1>9. OnWay(Old, Key, Hole) /\ IsPlace(Trie, Hole)
  BY <1>1, HoleFits, ChainTyped DEF Chain, Hole
<1>10. Hole[1] \in Seq(Byte)
  BY <1>9 DEF IsPlace
<1>11. IsTree(S) /\ IsPlace(S, p)
  BY <1>1, <1>4, <1>5, <1>10, GrowTree DEF At0
<1>12. p[1] = Hole[1] /\ NodeOf(p[2]) = w
  BY DEF NodeOf, Digest
<1> HIDE DEF w, S, c, at
<1>13. Begins(FullKey(p), Key) /\ Len(FullKey(p)) = at /\ FullKey(p) \in Seq(Byte)
  BY <1>1, <1>4, <1>5, BeginsBefore
<1> HIDE DEF p
<1> DEFINE f    == Key[at + 1]
           leaf == LeafFor(Key, Len(FullKey(p)), c)
<1>14. PassesAt(p, f, Key) /\ f \notin Edges(NodeOf(p[2]))
  BY <1>3, <1>4, <1>12, <1>13 DEF PassesAt
<1> HIDE DEF f
<1>15. /\ EdgeEditsTo(<<FullKey(p), Digest(leaf)>>, p, f, Key, c)
       /\ SoundAt(<<FullKey(p), Digest(leaf)>>) /\ HangsFrom(Digest(leaf), f)
       /\ leaf.label # << >> /\ leaf.label[1] = f
  <2> DEFINE l == leaf
  <2>1. l = LeafFor(Key, Len(FullKey(p)), c) /\ c \in Binding
    BY <1>6 DEF c
  <2> HIDE DEF l, leaf
  <2>2. /\ EdgeEditsTo(<<FullKey(p), Digest(l)>>, p, f, Key, c)
        /\ SoundAt(<<FullKey(p), Digest(l)>>) /\ HangsFrom(Digest(l), f)
        /\ l.label # << >> /\ l.label[1] = f
    BY <1>1, <1>6, <1>13, <1>14, <2>1, LeafAt
  <2> QED
    BY <2>2 DEF l
<1>16. job.node = leaf /\ Row = Digest(leaf)
  BY <1>3, <1>13 DEF LeafFor, Leaf, Row, c
<1>17. e = f
  BY <1>15, <1>16
<1>18. m = SetChild(w, f, Row)
  BY <1>17 DEF Attach, w
<1>19. Row # None
  BY <1>16 DEF NoneIsApart
<1>20. EdgeEditsTo(<<FullKey(p), Row>>, p, f, Key, c) /\ SoundAt(<<FullKey(p), Row>>) /\ HangsFrom(Row, f)
  BY <1>15, <1>16
<1> HIDE DEF leaf, e, m
<1>23. q = At0(p[1], SetChild(NodeOf(p[2]), f, Row))
  BY <1>12, <1>18 DEF At0
<1> HIDE DEF q
<1>24. EditsTo(q, p, Key, c) /\ FullKey(q) = FullKey(p) /\ SoundAt(q)
  <2>1. SoundAt(p)
    BY <1>4 DEF p
  <2>2. ChildEdited(q, p, f, Key, c, Row) /\ SoundAt(q)
    BY <1>1, <1>11, <1>14, <1>19, <1>20, <1>23, <2>1, ChildEdit
  <2> QED
    BY <2>2 DEF ChildEdited
<1>25. NodeOf(q[2]) = m
  BY DEF q, NodeOf, Digest
<1>26. ChildSet(m, w, f, Row) /\ IsNode(m) /\ WellLinked(m)
  <2>1. f \in Byte
    <3>1. at + 1 \in 1..Len(Key)
      BY <1>1, <1>3, <1>5
    <3> QED
      BY <1>1, <3>1, ElementOfSeq DEF f
  <2> QED
    BY <1>4, <1>5, <1>18, <1>20, <2>1, SetChildFacts, SetChildIsNode, SetChildLinked
<1>27. /\ m.label = w.label /\ m.binding = w.binding /\ Edges(m) = Edges(w) \cup {f}
       /\ \A g \in Edges(w) : m.children[g] = w.children[g]
       /\ m.children[f] = Row
  BY <1>4, <1>19, <1>26 DEF ChildSet, f
<1>28. EditsTo(q, Hole, Key, c)
  BY <1>4, <1>24 DEF EditsTo, Edited, p
<1>29. \A i \in inserted' : Touched(q, i, Key)
  <2> SUFFICES ASSUME NEW i \in inserted' PROVE Touched(q, i, Key)
    OBVIOUS
  <2>1. \E g \in Edges(m) : m.children[g] = i
    BY <1>1, <1>4, <1>27 DEF Refs
  <2> QED
    BY <1>13, <1>24, <1>25, <2>1, TouchChild
<1>30. Stands(Digest(m), Hole', Key, c, inserted')
  BY <1>8, <1>24, <1>28, <1>29 DEF Stands, q
<1>31. Fits(m, ancestors')
  BY <1>4, <1>7, <1>27 DEF Fits
<1>32. ~Blank(m)
  BY <1>27 DEF Blank
<1>33. ASSUME PassThrough(m), NEW g \in Edges(m)
       PROVE  MayMerge(m.children[g], m, inserted', Old, Key)
  <2>1. Edges(w) = {} /\ w.binding = None /\ g = f
    BY <1>4, <1>27, <1>33 DEF PassThrough, f
  <2>2. inserted = {} /\ w.label = << >>
    BY <1>4, <2>1
  <2> QED
    BY <1>1, <1>27, <2>1, <2>2 DEF MayMerge
<1> QED
  BY <1>1, <1>2, <1>3, <1>8, <1>10, <1>26, <1>30, <1>31, <1>32, <1>33, SpineSave DEF c, m

(* A node of the spine is in the store. *)
LEMMA SpineInserted ==
    ASSUME NoneIsApart, IInv, SInv, InsertRow, job.next = "spine"
    PROVE  SInv'
<1>1. /\ pc = "insert" /\ World /\ World' /\ AtInsert /\ Chain /\ call.kind = "update"
      /\ inserted' = inserted \cup {Row} /\ Differs(Old, Key, call.binding)
      /\ IsTree(Trie) /\ IsPlace(Trie, Old) /\ UNCHANGED <<call, roots, spine>>
      /\ NodeOf(Row) = job.node
  BY InsertWorld
<1>2. pc' = "rise" /\ replacement' = Row /\ UNCHANGED result
  BY DEF InsertRow
<1>3. Stands(Row, Hole, Key, call.binding, inserted) /\ Fits(job.node, ancestors)
  BY <1>1 DEF AtInsert, AtSpine, Row
<1>4. ancestors' = ancestors
  BY <1>1 DEF spine
<1>5. Key' = Key /\ Old' = Old /\ Hole' = Hole /\ Chain'
  BY <1>1, <1>4, SameHole
<1>6. Row # None
  BY DEF NoneIsApart, Row
<1>7. OnWay(Old, Key, Hole)
  BY <1>1, HoleFits, ChainTyped DEF Chain, Hole
<1>8. Touched(<<Hole[1], Row>>, Row, Key)
  <2> DEFINE h == Hole[1]
             r == Row
             p == <<h, r>>
  <2>1. p[1] = h /\ p[2] = r
    OBVIOUS
  <2>2. Begins(h, Key)
    BY <1>7 DEF OnWay
  <2> HIDE DEF p, h, r
  <2>3. Touched(p, p[2], Key)
    BY <2>1, <2>2, TouchedHere
  <2> QED
    BY <2>1, <2>3 DEF p, h, r
<1>9. Stands(Row, Hole, Key, call.binding, inserted')
  BY <1>1, <1>3, <1>8 DEF Stands
<1>10. Working'
  BY <1>1, <1>2, <1>3, <1>4, <1>5, <1>6, <1>9 DEF Working, AtRise
<1> QED
  BY <1>1, <1>2, <1>10, WorkSound

(* insert succeeds: the row stands for what it was made for. *)
LEMMA InsertRowSound ==
    ASSUME NoneIsApart, IInv, SInv, InsertRow
    PROVE  SInv'
<1>1. job.next \in {"tail", "leaf", "spine"}
  BY DEF IInv, TypeOK
<1> QED
  BY <1>1, TailRebindSound, TailLeafSound, LeafInsertedSound, SpineInserted

LEMMA InsertConflictsSound ==
    ASSUME IInv, SInv, InsertConflicts
    PROVE  SInv'
<1>1. /\ pc = "insert" /\ pc' = "return" /\ result' = [outcome |-> "store", value |-> None]
      /\ UNCHANGED <<call, roots, stored>>
  BY DEF InsertConflicts, Fail, store
<1>2. World'
  BY <1>1, SameWorld DEF SInv
<1> QED
  BY <1>1, <1>2, ReturnSound

(* A store call that fails, an insert that may have taken effect. *)
LEMMA StoreUnavailableSound ==
    ASSUME IInv, SInv, StoreUnavailable
    PROVE  SInv'
<1>1. /\ pc \in {"load", "collapse", "insert"} /\ pc' = "return"
      /\ result' = [outcome |-> "store", value |-> None]
      /\ UNCHANGED <<call, roots>>
  BY DEF StoreUnavailable, Fail
<1>2. World'
  <2>1. CASE stored' = stored
    BY <1>1, <2>1, SameWorld DEF SInv
  <2>2. CASE pc = "insert" /\ stored' = stored \cup {Row}
    <3>1. Canonical(job.node) /\ WellLinked(job.node)
      BY <2>2 DEF SInv, Working, AtInsert
    <3>2. NodeOf(Row) = job.node
      BY DEF Row, NodeOf, Digest
    <3> QED
      BY <1>1, <2>2, <3>1, <3>2 DEF World, SInv
  <2> QED
    BY <2>1, <2>2 DEF StoreUnavailable, store
<1> QED
  BY <1>1, <1>2, ReturnSound

(* The spine is rebuilt: what it ends in is the root of the edited map. *)
LEMMA FinishSound ==
    ASSUME IInv, SInv, Finish
    PROVE  SInv'
<1> DEFINE v == IF replacement = None THEN EmptyRoot ELSE replacement
<1>1. /\ pc = "rise" /\ ancestors = << >> /\ pc' = "return"
      /\ result' = [outcome |-> "ok", value |-> v]
      /\ UNCHANGED <<call, roots, stored, inserted>>
  BY DEF Finish, Return, store
<1>2. World' /\ World
  BY <1>1, SameWorld DEF SInv
<1>3. call.kind = "update" /\ Differs(Old, Key, call.binding) /\ AtRise
  BY <1>1 DEF SInv, Working
<1>4. Hole = Old
  BY <1>1 DEF Hole, HoleAt
<1>5. Old[1] = << >>
  BY DEF Old, Top
<1> HIDE DEF v
<1>6. UpdateIs(v, Old, Key, call.binding, inserted)
  <2>1. CASE replacement = None
    <3>1. v = EmptyRoot /\ inserted = {} /\ Gone(Old, Key, call.binding)
      BY <1>3, <1>4, <2>1 DEF v, AtRise
    <3>2. SoundAt(Top(EmptyRoot)) /\ \A k, b : ~Bound(Top(EmptyRoot), k, b)
      <4>1. Top(EmptyRoot)[1] = << >> /\ Top(EmptyRoot)[2] = EmptyRoot
        BY DEF Top
      <4> QED
        BY <4>1, EmptyBinds
    <3>3. EditsTo(Top(v), Old, Key, call.binding)
      BY <3>1, <3>2 DEF EditsTo, Gone
    <3> QED
      BY <1>3, <3>1, <3>2, <3>3 DEF UpdateIs
  <2>2. CASE replacement # None
    <3>1. v = replacement /\ Stands(v, Old, Key, call.binding, inserted)
      BY <1>3, <1>4, <2>2 DEF v, AtRise
    <3>2. Top(v) = <<Old[1], v>>
      BY <1>5 DEF Top
    <3> QED
      BY <1>3, <3>1, <3>2 DEF UpdateIs, Stands
  <2> QED
    BY <2>1, <2>2
<1> QED
  BY <1>1, <1>2, <1>3, <1>6, ReturnSound

-----------------------------------------------------------------------------
(* save takes the only child of a node that passes through into it.         *)
CollapseReady(p, m, q) ==
    /\ p = <<Hole[1], Digest(job.node)>> /\ q = <<Hole[1], Digest(m)>>
    /\ \A k, b : Bound(q, k, b) <=> Bound(p, k, b)
    /\ SoundAt(q) /\ IsNode(m) /\ WellLinked(m) /\ Canonical(m) /\ ~Blank(m)
    /\ PositionOk(job.prefix, m)
    /\ job.node.label # << >> => m.label # << >> /\ m.label[1] = job.node.label[1]
    /\ job.node.label = << >> => Digest(m) = OnlyId
    /\ PositionOk(job.prefix \o job.node.label, NodeOf(OnlyId))
    /\ HangsFrom(OnlyId, OnlyEdge) /\ Canonical(NodeOf(OnlyId))

(* The only child merged into its parent stands for both. *)
LEMMA CollapseFacts ==
    ASSUME IInv, SInv, pc = "collapse"
    PROVE  /\ World /\ call.kind = "update" /\ Chain /\ Differs(Old, Key, call.binding)
           /\ job.next = "spine" /\ AtSpine
           /\ MayMerge(OnlyId, job.node, inserted, Old, Key)
           /\ OnWay(Old, Key, Hole) /\ Hole[1] \in Seq(Byte) /\ Key \in Seq(Byte)
           /\ CollapseReady(<<Hole[1], Digest(job.node)>>, Merged, <<Hole[1], Digest(Merged)>>)
<1>1. /\ World /\ call.kind = "update" /\ Chain /\ Differs(Old, Key, call.binding)
      /\ job.next = "spine" /\ AtSpine
      /\ MayMerge(OnlyId, job.node, inserted, Old, Key) /\ WellLinked(job.node)
  BY DEF SInv, Working, AtCollapse
<1>2. IsTree(Trie) /\ IsPlace(Trie, Old) /\ Key \in Seq(Byte)
      /\ \A id \in Trie : Canonical(NodeOf(id)) /\ WellLinked(NodeOf(id))
  BY <1>1, TrieFacts, CallFacts
<1>3. OnWay(Old, Key, Hole) /\ IsPlace(Trie, Hole)
  BY <1>1, <1>2, HoleFits, ChainTyped DEF Chain, Hole
<1>4. Hole[1] \in Seq(Byte)
  BY <1>3 DEF IsPlace
<1> DEFINE n == job.node
           p == At0(Hole[1], n)
           S == Trie \cup {Digest(n)}
           e == OnlyEdge
           m == MergedNode(n, e)
           q == At0(Hole[1], m)
<1>5. IsNode(n) /\ Refs(n) \subseteq Trie /\ PassThrough(n)
  BY DEF IInv, TypeOK, Work, WorkClosed, PiecesHaveBytes, Trie
<1>6. NodeOf(p[2]) = n /\ p[1] = Hole[1] /\ p[2] = Digest(n) /\ FullKey(p) = Hole[1] \o n.label
  BY AtNode
<1>7. Edges(n) = {e} /\ n.binding = None /\ OnlyId = n.children[e]
  BY <1>5 DEF PassThrough, OnlyEdge, OnlyId
<1>8. OnlyId \in Trie /\ Canonical(NodeOf(OnlyId)) /\ Digest(NodeOf(OnlyId)) = OnlyId
  <2>1. OnlyId \in Refs(n)
    BY <1>7 DEF Refs
  <2> QED
    BY <1>2, <1>5, <2>1 DEF IsTree, IsRow
<1>9. SoundAt(p)
  BY <1>1 DEF AtSpine, Stands, At0
<1>10. IsTree(S) /\ IsPlace(S, p)
  BY <1>1, <1>2, <1>4, <1>5, GrowTree
<1>11. ~Canonical(n)
  BY <1>5 DEF Canonical
<1>12. Merged = m
  BY DEF Merged, MergedNode, OnlyId
<1>13. q = <<Hole[1], Digest(m)>> /\ p = <<Hole[1], Digest(n)>>
  BY DEF At0
<1> HIDE DEF n, p, S, e, m, q
<1>14. OnlyId # p[2]
  BY <1>6, <1>8, <1>11
<1>15. \A id \in S : Canonical(NodeOf(id)) \/ id = p[2]
  BY <1>2, <1>6 DEF S
<1>16. MergesTo(S, p, e, m, q)
  <2>1. MergesTo(S, p, e, MergedNode(NodeOf(p[2]), e), At0(p[1], MergedNode(NodeOf(p[2]), e)))
    BY <1>6, <1>7, <1>9, <1>10, <1>14, <1>15, MergeEdits
  <2> QED
    BY <1>6, <2>1 DEF m, q
<1>17. job.prefix = Hole[1]
  BY <1>1 DEF AtSpine
<1>18. CollapseReady(p, m, q)
  BY <1>6, <1>7, <1>8, <1>13, <1>16, <1>17 DEF CollapseReady, MergesTo, n, e
<1> QED
  BY <1>1, <1>2, <1>3, <1>4, <1>12, <1>13, <1>18 DEF n

(* The merged node takes the place of the one that passed through. *)
LEMMA CollapseSound ==
    ASSUME IInv, SInv, Collapse
    PROVE  SInv'
<1> DEFINE m == Merged
           p == <<Hole[1], Digest(job.node)>>
           q == <<Hole[1], Digest(m)>>
<1>1. pc = "collapse" /\ UNCHANGED <<stored, corrupt, roots, call, ancestors, inserted>>
  BY DEF Collapse, store, spine
<1>2. /\ World /\ call.kind = "update" /\ Chain /\ Differs(Old, Key, call.binding)
      /\ job.next = "spine" /\ AtSpine
      /\ MayMerge(OnlyId, job.node, inserted, Old, Key)
      /\ OnWay(Old, Key, Hole) /\ Hole[1] \in Seq(Byte) /\ Key \in Seq(Byte)
      /\ CollapseReady(p, m, q)
  BY <1>1, CollapseFacts
<1>3. World'
  BY <1>1, <1>2, SameWorld
<1>4. Key' = Key /\ Old' = Old /\ Hole' = Hole /\ Chain'
  BY <1>1, <1>2, SameHole
<1>5. job.prefix = Hole[1] /\ Stands(Digest(job.node), Hole, Key, call.binding, inserted)
      /\ Fits(job.node, ancestors)
  BY <1>2 DEF AtSpine
<1> HIDE DEF m, p, q
<1>6. CASE LoadOk(OnlyId, OnlyEdge, job.prefix \o job.node.label)
  <2>1. ~Blank(m) /\ ~PassThrough(m)
    BY <1>2 DEF CollapseReady, Canonical
  <2>2. Save(m, job.prefix, "spine")
    BY <1>2, <1>6, <2>1 DEF Collapse, Save, m
  <2>3. /\ EditsTo(q, Hole, Key, call.binding) /\ SoundAt(q)
    BY <1>2, <1>5 DEF Stands, EditsTo, CollapseReady
  <2>4. \A i \in inserted : Touched(q, i, Key)
    <3> SUFFICES ASSUME NEW i \in inserted PROVE Touched(q, i, Key)
      OBVIOUS
    <3>1. inserted = {OnlyId} /\ job.node.label = << >>
      BY <1>2 DEF MayMerge
    <3>2. i = q[2] /\ q[1] = Hole[1]
      BY <1>2, <3>1 DEF CollapseReady
    <3>3. Begins(q[1], Key)
      BY <1>2, <3>2 DEF OnWay
    <3> QED
      BY <3>2, <3>3, TouchedHere
  <2>5. Stands(Digest(m), Hole', Key, call.binding, inserted')
    BY <1>1, <1>4, <2>3, <2>4 DEF Stands, q
  <2>6. Fits(m, ancestors')
    BY <1>1, <1>2, <1>5 DEF Fits, CollapseReady
  <2>7. IsNode(m) /\ WellLinked(m)
    BY <1>2 DEF CollapseReady
  <2> QED
    BY <1>1, <1>2, <1>3, <1>4, <1>5, <2>1, <2>2, <2>5, <2>6, <2>7, SpineSave
<1>7. CASE ~LoadOk(OnlyId, OnlyEdge, job.prefix \o job.node.label)
  <2>1. pc' = "return" /\ result' = [outcome |-> LoadError(OnlyId), value |-> None]
    BY <1>7 DEF Collapse, SaveFails, Fail
  <2>2. LoadError(OnlyId) # "ok"
    BY DEF LoadError
  <2>3. ASSUME LoadError(OnlyId) = "codec" PROVE OnlyId \in corrupt
    <3>1. ~Absent(OnlyId)
      BY <2>3 DEF LoadError
    <3> QED
      BY <1>2, <1>7, <3>1 DEF LoadOk, CollapseReady, HangsFrom
  <2>4. OnlyId \in inserted \/ Touched(Old, OnlyId, Key)
    BY <1>2 DEF MayMerge
  <2> QED
    BY <1>1, <1>3, <2>1, <2>2, <2>3, <2>4, ReturnSound
<1> QED
  BY <1>6, <1>7

-----------------------------------------------------------------------------
(* The innermost ancestor, seen as a place that the key passes.             *)
Climbs(P, e, anc) ==
    /\ P[2] = anc[Len(anc)].id /\ e = anc[Len(anc)].edge
    /\ P[1] = Before(Key, anc[Len(anc)].offset) /\ P[1] \in Seq(Byte)
    /\ IsPlace(Trie, P) /\ OnWay(Old, Key, P) /\ SoundAt(P)
    /\ e \in Byte /\ e \in Edges(NodeOf(P[2])) /\ PassesAt(P, e, Key)
    /\ IsNode(NodeOf(P[2])) /\ WellLinked(NodeOf(P[2])) /\ Canonical(NodeOf(P[2]))
    /\ Hole = ChildPlace(P, e) /\ Hole[1] = FullKey(P)

(* The innermost ancestor with the replaced child stands in its hole. *)
LEMMA RiseFacts ==
    ASSUME IInv, SInv, Rise
    PROVE  /\ pc = "rise" /\ World /\ World' /\ call.kind = "update" /\ AtRise
           /\ Differs(Old, Key, call.binding) /\ IsTree(Trie) /\ Key \in Seq(Byte)
           /\ UNCHANGED <<call, inserted>> /\ ancestors # << >> /\ Key' = Key /\ Old' = Old /\ Chain'
           /\ Climbs(Hole', ancestors[Len(ancestors)].edge, ancestors)
           /\ Fits(NodeOf(Hole'[2]), ancestors')
<1> DEFINE top == ancestors[Len(ancestors)]
           P   == PlaceOf(Key, top)
           less == Before(ancestors, Len(ancestors) - 1)
           A   == [id : stored \cup {EmptyRoot}, edge : Byte, offset : Nat]
<1>1. /\ pc = "rise" /\ ancestors # << >> /\ UNCHANGED <<stored, roots, call, inserted>>
      /\ ancestors' = less
  BY DEF Rise, store
<1>2. /\ World /\ call.kind = "update" /\ AtRise /\ Chain /\ SoundAt(Old)
      /\ Differs(Old, Key, call.binding)
  BY <1>1 DEF SInv, Working, CallSound
<1>3. World'
  BY <1>1, <1>2, SameWorld
<1>4. IsTree(Trie) /\ IsPlace(Trie, Old) /\ Key \in Seq(Byte)
      /\ \A id \in Trie : Canonical(NodeOf(id)) /\ WellLinked(NodeOf(id))
  BY <1>2, TrieFacts, CallFacts
<1>5. Key' = Key /\ Old' = Old
  BY <1>1, SameCall
<1>6. ancestors \in Seq(A) /\ ChainIn(Key, Old, ancestors)
  BY <1>2, ChainTyped DEF Chain
<1> HIDE DEF A
<1>7. /\ ChainIn(Key, Old, less)
      /\ HoleAt(Key, Old, less, Len(less)) = P
      /\ HoleAt(Key, Old, ancestors, Len(ancestors)) = ChildPlace(P, top.edge)
      /\ Passes(Key, top) /\ top \in A
      /\ OnWay(Old, Key, P)
  BY <1>1, <1>6, ChainShrinks
<1>8. Hole' = P /\ Chain' /\ Hole = ChildPlace(P, top.edge)
  BY <1>1, <1>5, <1>7 DEF Hole, Chain
<1>9. P[1] = Before(Key, top.offset) /\ P[2] = top.id
  BY DEF PlaceOf
<1>10. top.edge \in Byte
  BY <1>7 DEF A
<1>11. top.edge \in Edges(NodeOf(P[2])) /\ PassesAt(P, top.edge, Key)
  BY <1>7, <1>9 DEF Passes
<1> HIDE DEF P, top, less
<1>12. IsPlace(Trie, P) /\ SoundAt(P)
  <2>1. Under(Old, P)
    BY <1>7 DEF OnWay
  <2> QED
    BY <1>2, <1>4, <2>1, UnderPlaces, SoundUnder
<1>13. IsNode(NodeOf(P[2])) /\ WellLinked(NodeOf(P[2])) /\ Canonical(NodeOf(P[2]))
       /\ P[1] \in Seq(Byte)
  BY <1>4, <1>12, FullKeyFacts DEF IsPlace
<1>14. Hole[1] = FullKey(P)
  BY <1>8 DEF ChildPlace
<1>15. Climbs(P, top.edge, ancestors)
  BY <1>7, <1>8, <1>9, <1>10, <1>11, <1>12, <1>13, <1>14 DEF Climbs, top
<1>16. Fits(NodeOf(P[2]), less)
  <2>1. less \in Seq(A)
    <3>1. Len(ancestors) - 1 \in Nat /\ Len(ancestors) - 1 <= Len(ancestors)
      BY <1>1, <1>6
    <3> QED
      BY <1>6, <3>1 DEF less, Before
  <2>2. LET hole == HoleAt(Key, Old, less, Len(less)) IN
           IsPlace(Trie, hole) /\ OnWay(Old, Key, hole) /\ Fits(NodeOf(hole[2]), less)
    BY <1>4, <1>7, <2>1, HoleFits
  <2> QED
    BY <1>7, <2>2
<1> QED
  BY <1>1, <1>2, <1>3, <1>4, <1>5, <1>8, <1>15, <1>16 DEF top

(* What was saved takes its place below the ancestor.                       *)
LEMMA RiseSound ==
    ASSUME IInv, SInv, Rise
    PROVE  SInv'
<1> DEFINE P == Hole'
           e == ancestors[Len(ancestors)].edge
           n == NodeOf(P[2])
           r == replacement
           m == SetChild(n, e, r)
           q == <<P[1], Digest(m)>>
           c == call.binding
<1>1. /\ pc = "rise" /\ World /\ World' /\ call.kind = "update" /\ AtRise
      /\ Differs(Old, Key, c) /\ IsTree(Trie) /\ Key \in Seq(Byte)
      /\ UNCHANGED <<call, inserted>> /\ ancestors # << >> /\ Key' = Key /\ Old' = Old /\ Chain'
      /\ Climbs(P, e, ancestors) /\ Fits(n, ancestors')
  BY RiseFacts
<1>2. /\ P[1] \in Seq(Byte) /\ IsPlace(Trie, P) /\ OnWay(Old, Key, P) /\ SoundAt(P)
      /\ e \in Byte /\ e \in Edges(n) /\ PassesAt(P, e, Key)
      /\ IsNode(n) /\ WellLinked(n) /\ Canonical(n)
      /\ Hole = ChildPlace(P, e) /\ Hole[1] = FullKey(P)
  BY <1>1 DEF Climbs
<1>3. Save(m, P[1], "spine")
  BY <1>1 DEF Rise, Climbs
<1>4. q = At0(P[1], SetChild(NodeOf(P[2]), e, r)) /\ NodeOf(q[2]) = m /\ q[1] = P[1]
  BY DEF At0, NodeOf, Digest
<1>5. NodeOf(P[2]) = n
  OBVIOUS
<1> HIDE DEF P, e, n, r, q, c
<1>6. r = None => inserted = {} /\ EdgeGone(P, e, Key, c)
  <2> SUFFICES ASSUME r = None PROVE inserted = {} /\ EdgeGone(P, e, Key, c)
    OBVIOUS
  <2>1. inserted = {} /\ Gone(Hole, Key, c)
    BY <1>1 DEF AtRise, r, c
  <2> QED
    BY <1>2, <1>5, <2>1 DEF Gone, Edited, EdgeGone, EdgeEdited, Via
<1>7. ASSUME r # None
      PROVE  /\ EdgeEditsTo(<<FullKey(P), r>>, P, e, Key, c) /\ SoundAt(<<FullKey(P), r>>)
             /\ \A i \in inserted : Touched(<<FullKey(P), r>>, i, Key)
             /\ HangsFrom(r, e)
  <2>1. Stands(r, Hole, Key, c, inserted) /\ Fits(NodeOf(r), ancestors)
    BY <1>1, <1>7 DEF AtRise, r, c
  <2>2. EditsTo(<<FullKey(P), r>>, Hole, Key, c) /\ SoundAt(<<FullKey(P), r>>)
        /\ \A i \in inserted : Touched(<<FullKey(P), r>>, i, Key)
    BY <1>2, <2>1 DEF Stands
  <2>3. HangsFrom(r, e)
    BY <1>1, <2>1 DEF Fits, HangsFrom, e
  <2>4. EdgeEditsTo(<<FullKey(P), r>>, P, e, Key, c)
    BY <1>2, <1>5, <2>2 DEF EditsTo, Edited, EdgeEditsTo, EdgeEdited, Via
  <2> QED
    BY <2>2, <2>3, <2>4
<1>8. ChildEdited(q, P, e, Key, c, r) /\ SoundAt(q)
  BY <1>1, <1>2, <1>4, <1>6, <1>7, ChildEdit
<1>9. /\ EditsTo(q, P, Key, c)
      /\ r # None => e \in Edges(m) /\ ChildPlace(q, e) = <<FullKey(P), r>>
  BY <1>4, <1>8 DEF ChildEdited
<1>10. ChildSet(m, n, e, r) /\ IsNode(m) /\ WellLinked(m)
  BY <1>2, <1>7, SetChildFacts, SetChildIsNode, SetChildLinked
<1> HIDE DEF m
<1>11. /\ m.label = n.label /\ m.binding = n.binding
       /\ Edges(m) = IF r = None THEN Edges(n) \ {e} ELSE Edges(n) \cup {e}
       /\ \A f \in Edges(m) : f # e => f \in Edges(n) /\ m.children[f] = n.children[f]
  BY <1>10 DEF ChildSet
<1>12. \A i \in inserted : Touched(q, i, Key)
  <2> SUFFICES ASSUME NEW i \in inserted PROVE Touched(q, i, Key)
    OBVIOUS
  <2>1. r # None
    BY <1>6
  <2>2. Touched(<<FullKey(P), r>>, i, Key)
    BY <1>7, <2>1
  <2>3. e \in Edges(m) /\ ChildPlace(q, e) = <<FullKey(P), r>>
    BY <1>9, <2>1
  <2>4. Touched(ChildPlace(q, e), i, Key)
    BY <2>2, <2>3
  <2>5. e \in Edges(NodeOf(q[2]))
    BY <1>4, <2>3
  <2> QED
    BY <2>4, <2>5, TouchedBelow
<1>13. Stands(Digest(m), Hole', Key, c, inserted')
  <2>0. <<P[1], Digest(m)>> = q
    BY DEF q
  <2>1. Stands(Digest(m), P, Key, c, inserted)
    BY <1>8, <1>9, <1>12, <2>0 DEF Stands
  <2> QED
    BY <1>1, <2>1 DEF P
<1>14. Fits(m, ancestors')
  BY <1>1, <1>11 DEF Fits
<1>15. ASSUME Blank(m) PROVE inserted' = {}
  BY <1>1, <1>6, <1>11, <1>15 DEF Blank
<1>16. ASSUME PassThrough(m), NEW f \in Edges(m) PROVE MayMerge(m.children[f], m, inserted', Old, Key)
  <2>1. ASSUME r # None PROVE FALSE
    <3>1. Edges(m) = Edges(n)
      BY <1>2, <1>11, <2>1
    <3>2. PassThrough(n)
      BY <1>11, <1>16, <3>1 DEF PassThrough
    <3> QED
      BY <1>2, <3>2 DEF Canonical
  <2>2. f # e /\ inserted = {}
    BY <1>6, <1>11, <2>1
  <2>3. f \in Edges(n) /\ m.children[f] = n.children[f]
    BY <1>11, <2>2
  <2>4. Begins(FullKey(P), Key)
    BY <1>2 DEF PassesAt
  <2>5. Touched(Old, NodeOf(P[2]).children[f], Key)
    BY <1>2, <1>5, <2>3, <2>4, WayDown
  <2> QED
    BY <1>1, <1>5, <2>2, <2>3, <2>5 DEF MayMerge
<1>17. P[1] = Hole'[1] /\ Save(m, P[1], "spine")
  BY <1>3 DEF P, m
<1> QED
  BY <1>1, <1>2, <1>10, <1>13, <1>14, <1>15, <1>16, <1>17, SpineSave DEF c

-----------------------------------------------------------------------------
(* Every step keeps the second invariant.                                   *)
LEMMA NextSound ==
    ASSUME NoneIsApart, IInv, IInv', SInv, [Next]_vars
    PROVE  SInv'
<1>1. CASE LoadFails
  BY <1>1, LoadFailsSound
<1>2. CASE WalkOffLabel \/ WalkEnds \/ WalkNoChild \/ WalkDown
  BY <1>2, WalkOffLabelSound, WalkEndsSound, WalkNoChildSound, WalkDownSound
<1>3. CASE Unchanged
  BY <1>3, UnchangedSound
<1>4. CASE SplitLabel
  BY <1>4, SplitLabelSound
<1>5. CASE Rebind
  BY <1>5, RebindSound
<1>6. CASE Descend
  BY <1>6, DescendSound
<1>7. CASE AddLeaf
  BY <1>7, AddLeafSound
<1>8. CASE Collapse
  BY <1>8, CollapseSound
<1>9. CASE InsertRow
  BY <1>9, InsertRowSound
<1>10. CASE InsertConflicts
  BY <1>10, InsertConflictsSound
<1>11. CASE Rise
  BY <1>11, RiseSound
<1>12. CASE Finish
  BY <1>12, FinishSound
<1>13. CASE Exit
  BY <1>13, ExitSound
<1>14. CASE Call
  BY <1>14, CallStepSound
<1>15. CASE StoreUnavailable
  BY <1>15, StoreUnavailableSound
<1>16. CASE Lose \/ Damage
  <2>1. corrupt \subseteq corrupt'
        /\ UNCHANGED <<stored, roots, pc, call, spine, edits, result, inserted>>
    BY <1>16 DEF Lose, Damage
  <2> QED
    BY <2>1, OutsideSound
<1>17. CASE Forget \/ Collect
  BY <1>17, BetweenSound
<1>18. CASE UNCHANGED vars
  <2>1. corrupt \subseteq corrupt'
        /\ UNCHANGED <<stored, roots, pc, call, spine, edits, result, inserted>>
    BY <1>18 DEF vars, store
  <2> QED
    BY <2>1, OutsideSound
<1> QED
  BY <1>1, <1>2, <1>3, <1>4, <1>5, <1>6, <1>7, <1>8, <1>9, <1>10, <1>11, <1>12,
     <1>13, <1>14, <1>15, <1>16, <1>17, <1>18
     DEF Next, Running, Environment, Walk, Update

(* Both invariants hold throughout. *)
LEMMA SoundInvariance == ASSUME NoneIsApart PROVE Spec => [](IInv /\ SInv)
<1>1. Init => IInv /\ SInv
  BY InitIInv, InitSound
<1>2. IInv /\ SInv /\ [Next]_vars => IInv' /\ SInv'
  BY NextIInv, NextSound
<1> QED
  BY <1>1, <1>2, PTL DEF Spec

-----------------------------------------------------------------------------
(* What the invariant says of what a call leaves behind.                    *)

(* Every row a lookup key leads to is among the places of the trie. *)
LEMMA TouchedIsPlace ==
    ASSUME NEW S, IsTree(S), NEW root \in S, SoundAt(Top(root)), NEW id, NEW key \in Seq(Byte),
           Touched(Top(root), id, key), Len(key) <= PathMaxBytes
    PROVE  \E place \in Places(root) : place[2] = id /\ IsPrefixOf(place[1], key)
<1>1. PICK x : Under(Top(root), x) /\ x[2] = id /\ Begins(x[1], key)
  BY DEF Touched
<1>2. IsPlace(S, Top(root))
  BY TopIsPlace
<1>3. IsPlace(S, x)
  BY <1>1, <1>2, UnderPlaces
<1>4. x[1] \in Seq(Byte)
  BY <1>3 DEF IsPlace
<1>5. IsPrefixOf(x[1], key)
  BY <1>1, <1>4, PrefixBegins
<1>6. Len(x[1]) <= PathMaxBytes
  <2>1. Len(x[1]) <= Len(key)
    BY <1>1 DEF Begins
  <2>2. Len(x[1]) \in Nat /\ Len(key) \in Nat
    BY <1>4, NoLonger, Zenon
  <2> QED
    BY <2>1, <2>2, PathMaxAssumption
<1>7. x \in Places(root)
  BY <1>1, <1>2, <1>6, UnderInPlaces
<1> QED
  BY <1>1, <1>5, <1>7

(* What an update that succeeded has come to. *)
LEMMA UpdatedFacts ==
    ASSUME IInv, SInv, Updated
    PROVE  /\ World /\ IsTree(Trie) /\ SoundAt(Old) /\ ValidPath(call.path)
           /\ call.root \in Trie /\ result.value \in Trie /\ call.path \in Seq(Byte)
           /\ Key \in Seq(Byte) /\ Key = EncodeKey(call.path) /\ Len(Key) <= PathMaxBytes
           /\ UpdateIs(result.value, Old, Key, call.binding, inserted)
           /\ call.binding \in Binding \cup {None}
<1>1. pc = "return" /\ result.outcome = "ok" /\ call.kind = "update"
  BY DEF Updated, Succeeded
<1>2. World /\ SoundAt(Old) /\ ValidPath(call.path)
      /\ UpdateIs(result.value, Old, Key, call.binding, inserted)
  BY <1>1 DEF SInv, CallSound, Answered
<1>3. result.value \in Trie
  BY <1>1 DEF IInv, Work, ResultHeld, Trie
<1> QED
  BY <1>2, <1>3, TrieFacts, CallFacts

(* The same map before and after: the key was bound to this before. *)
LEMMA NoOpFromInvariant ==
    ASSUME IInv, SInv
    PROVE  NoOpWritesNothing
<1> SUFFICES ASSUME Updated, MapOf(result.value) = MapOf(call.root)
             PROVE  result.value = call.root /\ inserted = {}
  BY DEF NoOpWritesNothing
<1> DEFINE v == result.value
           c == call.binding
<1>1. /\ IsTree(Trie) /\ SoundAt(Top(call.root)) /\ ValidPath(call.path) /\ call.path \in Seq(Byte)
      /\ call.root \in Trie /\ v \in Trie /\ Key = EncodeKey(call.path)
      /\ UpdateIs(v, Top(call.root), Key, c, inserted)
  BY UpdatedFacts DEF Old
<1> HIDE DEF v, c
<1>2. SoundAt(Top(v)) /\ EditsTo(Top(v), Top(call.root), Key, c)
  BY <1>1 DEF UpdateIs
<1>3. \A b : Bound(Top(v), Key, b) <=> Bound(Top(call.root), Key, b)
  <2>1. \A b : Holds(MapOf(v), call.path, b) <=> Bound(Top(v), EncodeKey(call.path), b)
    BY <1>1, <1>2, MapMeans
  <2>2. \A b : Holds(MapOf(call.root), call.path, b)
                  <=> Bound(Top(call.root), EncodeKey(call.path), b)
    BY <1>1, MapMeans
  <2> QED
    BY <1>1, <2>1, <2>2 DEF v
<1>4. \A b : Bound(Top(v), Key, b) <=> b # None /\ b = c
  BY <1>2 DEF EditsTo, Edited
<1>5. ~Differs(Top(call.root), Key, c)
  BY <1>3, <1>4 DEF Differs
<1>6. Top(v) = Top(call.root) /\ inserted = {}
  BY <1>1, <1>5 DEF UpdateIs
<1> QED
  BY <1>6 DEF Top, v

(* An update that leaves the map as it was hands back the root it was given *)
(* and has written nothing ("A no-op writes no nodes").                     *)
THEOREM NoOpIsFree ==
    ASSUME NoneIsApart PROVE Spec => []NoOpWritesNothing
<1>1. IInv /\ SInv => NoOpWritesNothing
  BY NoOpFromInvariant
<1> QED
  BY <1>1, SoundInvariance, PTL

(* A row inserted by an update is one the key leads to in the new trie. *)
LEMMA WritesFromInvariant ==
    ASSUME IInv, SInv
    PROVE  WritesOnlyThePath
<1> SUFFICES ASSUME Updated, NEW id \in inserted
             PROVE  \E place \in Places(result.value) : place[2] = id /\ IsPrefixOf(place[1], Key)
  BY DEF WritesOnlyThePath
<1>1. /\ IsTree(Trie) /\ result.value \in Trie /\ Key \in Seq(Byte) /\ Len(Key) <= PathMaxBytes
      /\ UpdateIs(result.value, Old, Key, call.binding, inserted)
  BY UpdatedFacts
<1>2. SoundAt(Top(result.value)) /\ Touched(Top(result.value), id, Key)
  BY <1>1 DEF UpdateIs
<1> QED
  BY <1>1, <1>2, TouchedIsPlace

(* A successful update writes rows of the new trie only, and only where the *)
(* changed key leads ("Copy only changed ancestors").                       *)
THEOREM OnlyThePathIsWritten ==
    ASSUME NoneIsApart PROVE Spec => []WritesOnlyThePath
<1>1. IInv /\ SInv => WritesOnlyThePath
  BY WritesFromInvariant
<1> QED
  BY <1>1, SoundInvariance, PTL

(* A row to blame is among the places of the old trie. *)
LEMMA DamageFromInvariant ==
    ASSUME IInv, SInv
    PROVE  CodecErrorMeansDamage
<1> SUFFICES ASSUME pc = "return", result.outcome = "codec", ValidPath(call.path),
                    inserted \cap corrupt = {}
             PROVE  \E place \in Places(call.root) :
                        place[2] \in corrupt /\ IsPrefixOf(place[1], Key)
  BY DEF CodecErrorMeansDamage
<1>1. PICK id : Blamed(id)
  BY DEF SInv, CodecBlamed
<1>2. id \in corrupt /\ Touched(Top(call.root), id, Key)
  BY <1>1 DEF Blamed, Old
<1>3. World /\ SoundAt(Top(call.root))
  BY DEF SInv, CallSound, Old
<1>4. IsTree(Trie) /\ call.root \in Trie /\ Key \in Seq(Byte) /\ Len(Key) <= PathMaxBytes
  BY <1>3, TrieFacts, CallFacts
<1>5. \E place \in Places(call.root) : place[2] = id /\ IsPrefixOf(place[1], Key)
  BY <1>2, <1>3, <1>4, TouchedIsPlace
<1> QED
  BY <1>2, <1>5

(* A codec error on a good path means that a row the key leads to, or one   *)
(* just inserted, is damaged: damage elsewhere disturbs no call (load,      *)
(* save, RadixIndexError::Codec).                                           *)
THEOREM DamageElsewhereIsHarmless ==
    ASSUME NoneIsApart PROVE Spec => []CodecErrorMeansDamage
<1>1. IInv /\ SInv => CodecErrorMeansDamage
  BY DamageFromInvariant
<1> QED
  BY <1>1, SoundInvariance, PTL

-----------------------------------------------------------------------------
(* The answers are the abstract map's answers.                              *)

(* get answers what the map has at the path. *)
LEMMA GetAnswer ==
    ASSUME NEW S, IsTree(S), NEW root \in S, SoundAt(Top(root)),
           NEW path \in Seq(Byte), ValidPath(path),
           NEW v, GetIs(v, Top(root), EncodeKey(path))
    PROVE  v = Maps!Lookup(MapOf(root), path)
<1> DEFINE m == MapOf(root)
<1>1. \A b : Holds(m, path, b) <=> Bound(Top(root), EncodeKey(path), b)
  BY MapMeans
<1> HIDE DEF m
<1>2. CASE path \in DOMAIN m
  <2>1. Bound(Top(root), EncodeKey(path), m[path])
    BY <1>1, <1>2 DEF Holds
  <2>2. v # None
    BY <2>1 DEF GetIs
  <2>3. Holds(m, path, v)
    BY <1>1, <2>2 DEF GetIs
  <2> QED
    BY <1>2, <2>3 DEF Holds, Maps!Lookup, m
<1>3. CASE path \notin DOMAIN m
  <2>1. \A b : ~Bound(Top(root), EncodeKey(path), b)
    BY <1>1, <1>3 DEF Holds
  <2>2. v = None
    BY <2>1 DEF GetIs
  <2> QED
    BY <1>3, <2>2 DEF Maps!Lookup, m
<1> QED
  BY <1>2, <1>3

(* Two byte strings that begin a third are equal if they are as long. *)
LEMMA BeginsOnce ==
    ASSUME NEW a \in Seq(Byte), NEW b \in Seq(Byte), NEW k, Begins(a, k), Begins(b, k),
           Len(a) = Len(b)
    PROVE  a = b
<1>1. \A i \in 1..Len(a) : a[i] = b[i]
  BY DEF Begins
<1> QED
  BY <1>1

(* A longer path has a longer key. *)
LEMMA KeyLength ==
    ASSUME NEW p \in Seq(Byte), ValidPath(p), NEW q \in Seq(Byte), ValidPath(q)
    PROVE  Len(EncodeKey(p)) <= Len(EncodeKey(q)) <=> Len(p) <= Len(q)
<1>1. ASSUME NEW r \in Seq(Byte), ValidPath(r)
      PROVE  Len(r) \in Nat /\ Len(r) >= 1 /\ Len(EncodeKey(r)) = IF Len(r) = 1 THEN 0 ELSE Len(r)
  <2>1. Len(r) \in Nat /\ Len(r) >= 1
    BY <1>1 DEF ValidPath
  <2>2. CASE Len(r) = 1
    BY <2>1, <2>2 DEF EncodeKey
  <2>3. CASE Len(r) # 1
    <3> DEFINE f == [k \in 1..Len(r) |->
                        IF k = Len(r) \/ r[k + 1] = Slash THEN Nul ELSE r[k + 1]]
    <3>1. EncodeKey(r) = f /\ EncodeKey(r) \in Seq(Byte)
      BY <1>1, <2>3, KeysAreBytes DEF EncodeKey
    <3>2. DOMAIN EncodeKey(r) = 1..Len(r)
      BY <3>1
    <3>3. Len(EncodeKey(r)) = Len(r)
      <4> DEFINE k == EncodeKey(r)
      <4>1. k \in Seq(Byte) /\ DOMAIN k = 1..Len(r)
        BY <3>1, <3>2
      <4> HIDE DEF k, f
      <4>2. Len(k) = Len(r)
        BY <2>1, <4>1, LenProperties
      <4> QED
        BY <4>2 DEF k
    <3> QED
      BY <2>1, <2>3, <3>3
  <2> QED
    BY <2>2, <2>3
<1>2. /\ Len(p) \in Nat /\ Len(p) >= 1 /\ Len(EncodeKey(p)) = IF Len(p) = 1 THEN 0 ELSE Len(p)
      /\ Len(q) \in Nat /\ Len(q) >= 1 /\ Len(EncodeKey(q)) = IF Len(q) = 1 THEN 0 ELSE Len(q)
  BY <1>1
<1> QED
  BY <1>2

(* The longest bound key on the way is the longest path at or above. *)
LEMMA PrefixAnswer ==
    ASSUME NEW S, IsTree(S), NEW root \in S, SoundAt(Top(root)),
           NEW path \in Seq(Byte), ValidPath(path),
           NEW v, PrefixIs(v, Top(root), EncodeKey(path))
    PROVE  v = Maps!LongestPrefix(MapOf(root), path)
<1> DEFINE m   == MapOf(root)
           key == EncodeKey(path)
           A   == Maps!Ancestors(m, path)
<1>0. IsPlace(S, Top(root))
  BY TopIsPlace
<1>1. /\ \A p \in DOMAIN m : p \in Seq(Byte) /\ ValidPath(p)
      /\ \A p \in Seq(Byte) : \A b : ValidPath(p) =>
            (Holds(m, p, b) <=> Bound(Top(root), EncodeKey(p), b))
  BY MapMeans
<1>2. A = {p \in DOMAIN m : Maps!AtOrAbove(p, path)}
  BY DEF Maps!Ancestors
<1> HIDE DEF m, A
<1>3. ASSUME NEW p \in A
      PROVE  p \in Seq(Byte) /\ ValidPath(p) /\ OnKey(Top(root), key, EncodeKey(p), m[p])
  <2>1. p \in DOMAIN m /\ Maps!AtOrAbove(p, path) /\ p \in Seq(Byte) /\ ValidPath(p)
    BY <1>1, <1>2
  <2>2. Begins(EncodeKey(p), key)
    BY <2>1, AncestorKeys
  <2>3. Bound(Top(root), EncodeKey(p), m[p])
    BY <1>1, <2>1 DEF Holds
  <2> QED
    BY <2>1, <2>2, <2>3 DEF OnKey
<1>4. CASE v = None /\ \A k, b : ~OnKey(Top(root), key, k, b)
  <2>1. A = {}
    BY <1>3, <1>4
  <2> QED
    BY <1>4, <2>1 DEF Maps!LongestPrefix, A, m
<1>5. CASE \E fk, fb : /\ FoundIs(v, fk, fb) /\ OnKey(Top(root), key, fk, fb)
                       /\ \A k, b : OnKey(Top(root), key, k, b) => Len(k) <= Len(fk)
  <2>1. PICK fk, fb : /\ FoundIs(v, fk, fb) /\ OnKey(Top(root), key, fk, fb)
                      /\ \A k, b : OnKey(Top(root), key, k, b) => Len(k) <= Len(fk)
    BY <1>5
  <2> DEFINE P == KeyPath(fk)
             longest(p) == \A q \in A : Len(q) <= Len(p)
             w == CHOOSE p \in A : longest(p)
  <2>2. Bound(Top(root), fk, fb) /\ Begins(fk, key)
    BY <2>1 DEF OnKey
  <2>3. GoodKey(fk) /\ P \in Seq(Byte) /\ fk \in Seq(Byte)
    BY <1>0, <2>2, BoundGood
  <2>4. ValidPath(P) /\ EncodeKey(P) = fk
    BY <2>3 DEF GoodKey
  <2> HIDE DEF P
  <2>5. P \in DOMAIN m /\ m[P] = fb
    BY <1>1, <2>2, <2>3, <2>4 DEF Holds
  <2>6. Maps!AtOrAbove(P, path)
    BY <2>2, <2>3, <2>4, AncestorKeys
  <2>7. P \in A
    BY <1>2, <2>5, <2>6
  <2>8. ASSUME NEW q \in A PROVE Len(q) <= Len(P)
    <3>1. q \in Seq(Byte) /\ ValidPath(q) /\ OnKey(Top(root), key, EncodeKey(q), m[q])
      BY <1>3
    <3>2. Len(EncodeKey(q)) <= Len(EncodeKey(P))
      BY <2>1, <2>4, <3>1
    <3> QED
      BY <2>3, <2>4, <3>1, <3>2, KeyLength
  <2>9. w \in A /\ Len(P) <= Len(w)
    BY <2>7, <2>8
  <2> HIDE DEF w
  <2>10. w = P
    <3>1. w \in Seq(Byte) /\ ValidPath(w) /\ OnKey(Top(root), key, EncodeKey(w), m[w])
      BY <1>3, <2>9
    <3>2. Begins(EncodeKey(w), key) /\ Len(EncodeKey(w)) <= Len(fk)
      BY <2>1, <3>1 DEF OnKey
    <3>3. Len(fk) <= Len(EncodeKey(w))
      BY <2>3, <2>4, <2>9, <3>1, KeyLength
    <3>4. EncodeKey(w) \in Seq(Byte) /\ KeyPath(EncodeKey(w)) = w
      BY <3>1, ValidKey
    <3>5. Len(EncodeKey(w)) \in Nat /\ Len(fk) \in Nat
      BY <2>3, <3>4, NoLonger, Zenon
    <3>6. Len(EncodeKey(w)) = Len(fk)
      BY <3>2, <3>3, <3>5
    <3>7. EncodeKey(w) = fk
      BY <2>2, <2>3, <3>2, <3>4, <3>6, BeginsOnce
    <3> QED
      BY <3>4, <3>7 DEF P
  <2>11. Maps!LongestPrefix(m, path) = [path |-> w, binding |-> m[w]]
    BY <2>7 DEF Maps!LongestPrefix, w, A
  <2> QED
    BY <2>1, <2>5, <2>10, <2>11 DEF FoundIs, P, m
<1> QED
  BY <1>4, <1>5 DEF PrefixIs

(* The new root stands for the map with one path set or cleared. *)
LEMMA PutAnswer ==
    ASSUME NEW S, IsTree(S), NEW root \in S, SoundAt(Top(root)),
           NEW path \in Seq(Byte), ValidPath(path), NEW c \in Binding \cup {None},
           NEW v \in S, SoundAt(Top(v)), EditsTo(Top(v), Top(root), EncodeKey(path), c)
    PROVE  MapOf(v) = Maps!Put(MapOf(root), path, c)
<1> DEFINE m == MapOf(root)
           n == MapOf(v)
           put == Maps!Put(m, path, c)
<1>1. /\ \A p \in DOMAIN m : p \in Seq(Byte) /\ ValidPath(p)
      /\ \A p \in Seq(Byte) : \A b : ValidPath(p) =>
            (Holds(m, p, b) <=> Bound(Top(root), EncodeKey(p), b))
  BY MapMeans
<1>2. /\ n = [p \in DOMAIN n |-> n[p]]
      /\ \A p \in DOMAIN n : p \in Seq(Byte) /\ ValidPath(p)
      /\ \A p \in Seq(Byte) : \A b : ValidPath(p) =>
            (Holds(n, p, b) <=> Bound(Top(v), EncodeKey(p), b))
  BY MapMeans
<1>3. put = IF c = None THEN [p \in DOMAIN m \ {path} |-> m[p]]
            ELSE [p \in DOMAIN m \cup {path} |-> IF p = path THEN c ELSE m[p]]
  BY DEF Maps!Put
<1> HIDE DEF m, n, put
<1>4. ASSUME NEW p \in Seq(Byte), ValidPath(p), NEW b
      PROVE  Holds(n, p, b) <=> IF p = path THEN b # None /\ b = c ELSE Holds(m, p, b)
  <2>1. EncodeKey(p) = EncodeKey(path) <=> p = path
    BY <1>4, ValidKey
  <2>2. Bound(Top(v), EncodeKey(p), b) <=> Edited(Top(root), EncodeKey(path), c, EncodeKey(p), b)
    BY DEF EditsTo
  <2>3. CASE p = path
    BY <1>2, <1>4, <2>2, <2>3 DEF Edited
  <2>4. CASE p # path
    BY <1>1, <1>2, <1>4, <2>1, <2>2, <2>4 DEF Edited
  <2> QED
    BY <2>3, <2>4
<1>5. /\ DOMAIN put = IF c = None THEN DOMAIN m \ {path} ELSE DOMAIN m \cup {path}
      /\ \A p \in DOMAIN put : put[p] = IF p = path THEN c ELSE m[p]
      /\ put = [p \in DOMAIN put |-> put[p]]
  BY <1>3
<1>6. ASSUME NEW p \in Seq(Byte), ValidPath(p), NEW b
      PROVE  Holds(put, p, b) <=> Holds(n, p, b)
  <2>1. CASE p = path
    BY <1>4, <1>5, <1>6, <2>1 DEF Holds
  <2>2. CASE p # path
    <3>1. p \in DOMAIN put <=> p \in DOMAIN m
      BY <1>5, <2>2
    <3>2. p \in DOMAIN put => put[p] = m[p]
      BY <1>5, <2>2
    <3>3. Holds(n, p, b) <=> Holds(m, p, b)
      BY <1>4, <1>6, <2>2
    <3> QED
      BY <3>1, <3>2, <3>3 DEF Holds
  <2> QED
    BY <2>1, <2>2
<1>7. \A p \in DOMAIN put : p \in Seq(Byte) /\ ValidPath(p)
  BY <1>1, <1>5
<1>8. ASSUME NEW p \in DOMAIN n PROVE p \in DOMAIN put /\ put[p] = n[p]
  BY <1>2, <1>6 DEF Holds
<1>9. ASSUME NEW p \in DOMAIN put PROVE p \in DOMAIN n /\ put[p] = n[p]
  BY <1>6, <1>7 DEF Holds
<1>10. DOMAIN n = DOMAIN put
  BY <1>8, <1>9
<1>11. n = put
  BY <1>2, <1>5, <1>9, <1>10
<1> QED
  BY <1>11 DEF m, n, put

-----------------------------------------------------------------------------
(* Every step of the index is a step of the abstract map, or none.          *)

(* The maps of the roots, the request and the reply as variables of the     *)
(* abstract map.                                                            *)
HeldMaps == {MapOf(r) : r \in roots}

(* The maps of held roots are maps from valid paths to bindings. *)
LEMMA MapsAreMaps ==
    ASSUME NEW S, IsTree(S), NEW root \in S, SoundAt(Top(root))
    PROVE  Maps!IsMap(MapOf(root))
<1>1. \A path \in DOMAIN MapOf(root) : path \in Seq(Byte) /\ MapOf(root)[path] \in Binding
  BY MapMeans
<1> QED
  BY <1>1 DEF Maps!IsMap

(* The initial states are initial states of the abstract map. *)
LEMMA InitMaps ==
    ASSUME Init, IInv, SInv
    PROVE  Maps!Init
<1>1. World
  BY DEF SInv
<1>2. IsTree(Trie) /\ roots \subseteq Trie
  BY <1>1, TrieFacts DEF IInv, TypeOK, Trie
<1>3. \A r \in roots : Maps!IsMap(MapOf(r))
  BY <1>1, <1>2, MapsAreMaps DEF World
<1>4. pc = "idle"
  BY DEF Init
<1> QED
  BY <1>3, <1>4 DEF Maps!Init, Request, Reply

(* The steps of Next, by what the caller sees of them. *)
LEMMA StepKinds ==
    ASSUME IInv, [Next]_vars
    PROVE  \/ Call \/ Exit \/ Forget
           \/ UNCHANGED <<pc, call, roots, result>>
           \/ pc \notin {"idle", "return"} /\ pc' # "idle" /\ UNCHANGED <<call, roots>>
<1>1. CASE LoadFails \/ Walk
  BY <1>1 DEF LoadFails, Fail, Walk, WalkOffLabel, WalkEnds, WalkNoChild, WalkDown, Walking,
              Loaded, Return
<1>2. CASE Unchanged \/ SplitLabel \/ Rebind \/ Descend \/ AddLeaf
  <2>1. pc = "load" /\ UNCHANGED <<call, roots>>
    BY <1>2 DEF Unchanged, SplitLabel, Rebind, Descend, AddLeaf, Updating, Loaded
  <2>2. pc' # "idle"
    BY <1>2, <2>1 DEF Unchanged, SplitLabel, Rebind, Descend, AddLeaf, Updating, Loaded, Return,
           Save, SaveFails, Fail, StoreCall, Insert
  <2> QED
    BY <2>1, <2>2
<1>3. CASE Collapse \/ InsertRow \/ InsertConflicts \/ Rise \/ Finish
  <2>1. pc \in {"collapse", "insert", "rise"} /\ UNCHANGED <<call, roots>>
    BY <1>3 DEF Collapse, InsertRow, InsertConflicts, Rise, Finish
  <2>2. pc' # "idle"
    BY <1>3 DEF Collapse, InsertRow, InsertConflicts, Rise, Finish, AfterTail, AfterLeaf, Return,
           Save, SaveFails, Fail, StoreCall, Insert
  <2> QED
    BY <2>1, <2>2
<1>4. CASE StoreUnavailable
  BY <1>4 DEF StoreUnavailable, Fail
<1>5. CASE Lose \/ Damage
  BY <1>5 DEF Lose, Damage
<1>6. CASE Collect
  BY <1>6 DEF Collect
<1>7. CASE UNCHANGED vars
  BY <1>7 DEF vars
<1> QED
  BY <1>1, <1>2, <1>3, <1>4, <1>5, <1>6, <1>7
     DEF Next, Running, Environment, Update

(* What the step leaves alone, the abstract map leaves alone. *)
LEMMA HeldStays ==
    ASSUME UNCHANGED roots
    PROVE  HeldMaps' = HeldMaps
  BY DEF HeldMaps

(* The variables of the abstract map, step by step. *)
LEMMA MapsOf == Maps!vars = <<HeldMaps, Request, Reply>>
  BY DEF Maps!vars, HeldMaps

(* A call is a request, refused at once if the path is not valid. *)
LEMMA CallAsks ==
    ASSUME NoneIsApart, IInv, SInv, IInv', Call
    PROVE  Maps!Ask
<1>1. PICK kind \in Kinds, root \in roots \cup {EmptyRoot}, path \in Path,
           binding \in Binding \cup {None} :
         /\ call' = [kind |-> kind, root |-> root, path |-> path, binding |-> binding]
         /\ IF ValidPath(path)
            THEN /\ pc' = "load"
                 /\ cursor' = [NoCursor EXCEPT !.id = root]
                 /\ UNCHANGED result
            ELSE Fail("codec") /\ UNCHANGED cursor
  BY DEF Call
<1>2. pc = "idle" /\ UNCHANGED roots
  BY DEF Call
<1>3. Request = None /\ pc' # "idle"
  BY <1>1, <1>2 DEF Request, Fail
<1>4. Request' = [kind |-> kind, map |-> MapOf(root), path |-> path, binding |-> binding]
  BY <1>1, <1>3 DEF Request
<1>5. MapOf(root) \in HeldMaps \cup {Maps!EmptyMap}
  <2>1. CASE root \in roots
    BY <2>1 DEF HeldMaps
  <2>2. CASE root = EmptyRoot
    <3>1. IsTree(Trie) /\ EmptyRoot \in Trie
      BY TrieFacts DEF SInv
    <3> QED
      BY <2>2, <3>1, EmptyMaps
  <2> QED
    BY <2>1, <2>2
<1>6. path \in Seq(Byte)
  BY PathAssumption
<1>7. Request' \in Maps!Requests
  BY <1>4, <1>5, <1>6 DEF Maps!Requests, Kinds, HeldMaps
<1>8. \/ ValidPath(Request'.path) /\ Reply' = None
      \/ ~ValidPath(Request'.path) /\ Reply' = Maps!Refused
  <2>1. Request'.path = path
    BY <1>4
  <2>2. CASE ValidPath(path)
    BY <1>1, <2>1, <2>2 DEF Reply
  <2>3. CASE ~ValidPath(path)
    <3>1. pc' = "return" /\ result'.outcome = "codec"
      BY <1>1, <2>3 DEF Fail
    <3> QED
      BY <2>1, <2>3, <3>1 DEF Reply, Maps!Refused
  <2> QED
    BY <2>2, <2>3
<1>9. HeldMaps' = HeldMaps
  BY <1>2, HeldStays
<1> QED
  BY <1>3, <1>7, <1>8, <1>9 DEF Maps!Ask, HeldMaps

(* The empty root may always be added to a set of rows. *)
LEMMA RowsAreTree ==
    ASSUME NEW T, \A id \in T : /\ IsRow(id) /\ Refs(NodeOf(id)) \subseteq T
                                /\ WellLinked(NodeOf(id))
    PROVE  IsTree(T \cup {EmptyRoot})
<1>1. IsRow(EmptyRoot)
  BY EmptyBinds DEF IsRow, EmptyRoot, NodeOf, Digest
<1>2. Refs(NodeOf(EmptyRoot)) = {} /\ WellLinked(NodeOf(EmptyRoot))
  BY EmptyBinds
<1> DEFINE U == T \cup {EmptyRoot}
<1>3. ASSUME NEW id \in U PROVE /\ IsRow(id) /\ Refs(NodeOf(id)) \subseteq U
                                   /\ WellLinked(NodeOf(id))
  <2>1. CASE id \in T
    <3>1. /\ IsRow(id) /\ Refs(NodeOf(id)) \subseteq T /\ T \subseteq U
          /\ WellLinked(NodeOf(id))
      BY <2>1
    <3> HIDE DEF U
    <3> QED
      BY <3>1
  <2>2. CASE id = EmptyRoot
    <3> HIDE DEF U
    <3> QED
      BY <1>1, <1>2, <2>2
  <2> QED
    BY <2>1, <2>2
<1> HIDE DEF U
<1>4. IsTree(U)
  BY <1>3 DEF IsTree
<1> QED
  BY <1>4 DEF U

(* A call that goes on, or comes to its end. *)
LEMMA WorkServes ==
    ASSUME NoneIsApart, IInv, IInv', SInv', pc \notin {"idle", "return"}, pc' # "idle",
           UNCHANGED <<call, roots>>
    PROVE  Maps!Serve \/ Maps!Refuse \/ UNCHANGED Maps!vars
<1>1. HeldMaps' = HeldMaps
  BY HeldStays
<1>2. /\ Request = [kind |-> call.kind, map |-> MapOf(call.root), path |-> call.path,
                    binding |-> call.binding]
      /\ Request' = Request /\ Reply = None /\ Request # None
  BY DEF Request, Reply, NoneIsApart
<1>3. CASE pc' # "return"
  <2>1. Reply' = None
    BY <1>3 DEF Reply
  <2> QED
    BY <1>1, <1>2, <2>1, MapsOf DEF Maps!vars, HeldMaps
<1>4. CASE pc' = "return" /\ result'.outcome # "ok"
  <2>1. Reply' = Maps!Refused
    BY <1>4 DEF Reply, Maps!Refused
  <2> QED
    BY <1>1, <1>2, <2>1 DEF Maps!Refuse, HeldMaps
<1>5. CASE pc' = "return" /\ result'.outcome = "ok"
  <2>1. Reply' = [ok |-> TRUE, value |-> Value']
    BY <1>5 DEF Reply
  <2> DEFINE root == call.root
             path == call.path
             c    == call.binding
             v    == result'.value
             S    == Trie'
  <2>2. Key' = Key /\ Old' = Old /\ Key = EncodeKey(path) /\ Old = Top(root)
    BY SameCall DEF Key, Old
  <2>3. /\ call.kind \in Kinds /\ path \in Seq(Byte) /\ c \in Binding \cup {None}
        /\ root \in S
    BY DEF IInv, TypeOK, Trie
  <2>4. IsTree(S)
    <3>1. \A id \in stored' : WellLinked(NodeOf(id))
      BY DEF SInv, World
    <3>2. \A id \in stored' : /\ IsRow(id) /\ Refs(NodeOf(id)) \subseteq stored'
                              /\ WellLinked(NodeOf(id))
      BY <3>1 DEF IInv, TypeOK, NoDangling
    <3>5. S = stored' \cup {EmptyRoot}
      BY DEF Trie
    <3>6. IsTree(stored' \cup {EmptyRoot})
      BY <3>2, RowsAreTree
    <3> HIDE DEF S
    <3> QED
      BY <3>5, <3>6
  <2>5. ValidPath(path) /\ SoundAt(Top(root))
    BY <1>5, <2>2 DEF SInv, CallSound
  <2>6. /\ call.kind = "get" => GetIs(v, Top(root), EncodeKey(path))
        /\ call.kind = "longest_prefix" => PrefixIs(v, Top(root), EncodeKey(path))
        /\ call.kind = "update" => UpdateIs(v, Top(root), EncodeKey(path), c, inserted')
    BY <1>5, <2>2 DEF SInv, Answered
  <2>7. call.kind = "update" => v \in S
    BY <1>5 DEF IInv, Work, ResultHeld, Trie
  <2> HIDE DEF root, path, c, v, S
  <2>8. Value' = Maps!Answer(Request)
    <3>1. CASE call.kind = "get"
      <4>1. v = Maps!Lookup(MapOf(root), path)
        BY <2>3, <2>4, <2>5, <2>6, <3>1, GetAnswer
      <4>2. Value' = v
        BY <3>1 DEF Value, v
      <4> QED
        BY <1>2, <3>1, <4>1, <4>2 DEF Maps!Answer, root, path
    <3>2. CASE call.kind = "longest_prefix"
      <4>1. v = Maps!LongestPrefix(MapOf(root), path)
        BY <2>3, <2>4, <2>5, <2>6, <3>2, PrefixAnswer
      <4>2. Value' = v
        BY <3>2 DEF Value, v
      <4> QED
        BY <1>2, <3>2, <4>1, <4>2 DEF Maps!Answer, root, path
    <3>3. CASE call.kind = "update"
      <4>1. MapOf(v) = Maps!Put(MapOf(root), path, c)
        BY <2>3, <2>4, <2>5, <2>6, <2>7, <3>3, PutAnswer DEF UpdateIs
      <4>2. Value' = MapOf(v)
        BY <3>3 DEF Value, v
      <4> QED
        BY <1>2, <3>3, <4>1, <4>2 DEF Maps!Answer, root, path, c
    <3> QED
      BY <2>3, <3>1, <3>2, <3>3 DEF Kinds
  <2> QED
    BY <1>1, <1>2, <2>1, <2>8 DEF Maps!Serve, HeldMaps
<1> QED
  BY <1>3, <1>4, <1>5

(* The caller takes the answer, of an update the new root with it. *)
LEMMA ExitTakes ==
    ASSUME NoneIsApart, Exit
    PROVE  Maps!Take
<1>1. /\ pc = "return" /\ pc' = "idle"
      /\ roots' = IF call.kind = "update" /\ result.outcome = "ok"
                  THEN roots \cup {result.value} ELSE roots
  BY DEF Exit
<1>2. Request' = None /\ Reply' = None
  BY <1>1 DEF Request, Reply
<1>3. /\ Reply = [ok |-> result.outcome = "ok",
                  value |-> IF result.outcome = "ok" THEN Value ELSE None]
      /\ Request = [kind |-> call.kind, map |-> MapOf(call.root), path |-> call.path,
                    binding |-> call.binding]
  BY <1>1 DEF Request, Reply
<1>4. Reply # None
  BY <1>3 DEF NoneIsApart
<1>5. HeldMaps' = IF Request.kind = "update" /\ Reply.ok
                  THEN HeldMaps \cup {Reply.value} ELSE HeldMaps
  <2>1. CASE call.kind = "update" /\ result.outcome = "ok"
    <3>1. roots' = roots \cup {result.value}
      BY <1>1, <2>1
    <3>2. HeldMaps' = HeldMaps \cup {MapOf(result.value)}
      BY <3>1 DEF HeldMaps
    <3>3. Request.kind = "update" /\ Reply.ok /\ Reply.value = MapOf(result.value)
      BY <1>3, <2>1 DEF Value
    <3> QED
      BY <3>2, <3>3
  <2>2. CASE ~(call.kind = "update" /\ result.outcome = "ok")
    <3>1. roots' = roots
      BY <1>1, <2>2
    <3>2. ~(Request.kind = "update" /\ Reply.ok)
      BY <1>3, <2>2
    <3> QED
      BY <3>1, <3>2, HeldStays
  <2> QED
    BY <2>1, <2>2
<1> QED
  BY <1>2, <1>4, <1>5 DEF Maps!Take, HeldMaps

(* A forgotten root is a map dropped, or another root has that map. *)
LEMMA ForgetDrops ==
    ASSUME Forget
    PROVE  Maps!Drop \/ UNCHANGED Maps!vars
<1>1. /\ pc = "idle" /\ pc' = "idle"
  BY DEF Forget
<1>2. PICK id \in roots : roots' = roots \ {id}
  BY DEF Forget
<1>3. Request = None /\ Request' = None /\ Reply = None /\ Reply' = None
  BY <1>1 DEF Request, Reply
<1>4. CASE \E r \in roots \ {id} : MapOf(r) = MapOf(id)
  <2>1. HeldMaps' = HeldMaps
    BY <1>2, <1>4 DEF HeldMaps
  <2> QED
    BY <1>3, <2>1, MapsOf DEF Maps!vars, HeldMaps
<1>5. CASE ~\E r \in roots \ {id} : MapOf(r) = MapOf(id)
  <2>1. HeldMaps' = HeldMaps \ {MapOf(id)}
    BY <1>2, <1>5 DEF HeldMaps
  <2>2. MapOf(id) \in HeldMaps
    BY <1>2 DEF HeldMaps
  <2> QED
    BY <1>3, <2>1, <2>2 DEF Maps!Drop, HeldMaps
<1> QED
  BY <1>4, <1>5

(* Every step is a step of the abstract map or a stutter. *)
LEMMA NextMaps ==
    ASSUME NoneIsApart, IInv, SInv, IInv', SInv', [Next]_vars
    PROVE  [Maps!Next]_Maps!vars
<1>1. CASE Call
  BY <1>1, CallAsks DEF Maps!Next
<1>2. CASE Exit
  BY <1>2, ExitTakes DEF Maps!Next
<1>3. CASE Forget
  BY <1>3, ForgetDrops DEF Maps!Next
<1>4. CASE UNCHANGED <<pc, call, roots, result>>
  <2>1. HeldMaps' = HeldMaps /\ Request' = Request /\ Reply' = Reply
    BY <1>4 DEF HeldMaps, Request, Reply, Value
  <2> QED
    BY <2>1 DEF Maps!vars, HeldMaps
<1>5. CASE pc \notin {"idle", "return"} /\ pc' # "idle" /\ UNCHANGED <<call, roots>>
  BY <1>5, WorkServes DEF Maps!Next
<1> QED
  BY <1>1, <1>2, <1>3, <1>4, <1>5, StepKinds

(* RadixIndex implements the abstract map: get and longest_prefix answer    *)
(* from the map of the root they are given, update yields that map with one *)
(* path set or cleared, a call that cannot is refused with an error, and no *)
(* root the caller holds ever changes its meaning, whatever fails.          *)
THEOREM IndexImplementsMap ==
    ASSUME NoneIsApart PROVE Spec => ImplementsBindingIndex
<1>1. Init => Maps!Init
  BY InitIInv, InitSound, InitMaps
<1>2. /\ IInv /\ SInv /\ IInv' /\ SInv' /\ [Next]_vars => [Maps!Next]_Maps!vars
  BY NextMaps
<1>3. Spec => [](IInv /\ SInv)
  BY SoundInvariance
<1> QED
  BY <1>1, <1>2, <1>3, PTL DEF Spec, ImplementsBindingIndex, Maps!Spec

-----------------------------------------------------------------------------
(* One map, one trie: canonical nodes that make sense where they are are    *)
(* determined by what is bound below them.                                  *)
CanonicalTree(S) == IsTree(S) /\ \A id \in S : Canonical(NodeOf(id))

(* A place of a canonical trie at which something hangs. *)
Laden(S, p) == IsPlace(S, p) /\ SoundAt(p) /\ ~Blank(NodeOf(p[2]))

(* A child of a sound place is laden, and further down. *)
LEMMA LadenBelow ==
    ASSUME NEW S, CanonicalTree(S), NEW p, IsPlace(S, p), SoundAt(p),
           NEW e \in Edges(NodeOf(p[2]))
    PROVE  /\ Laden(S, ChildPlace(p, e))
           /\ Len(FullKey(ChildPlace(p, e))) >= Len(FullKey(p)) + 1
           /\ Len(FullKey(ChildPlace(p, e))) <= PathMaxBytes
<1> DEFINE y == ChildPlace(p, e)
<1>1. /\ IsPlace(S, y) /\ y[1] = FullKey(p) /\ LabelOf(y) # << >>
      /\ Len(FullKey(y)) >= Len(y[1]) + 1
  BY BelowIsChild, BelowGrows DEF CanonicalTree
<1>2. SoundAt(y)
  BY SoundUnfold
<1> HIDE DEF y
<1>3. Canonical(NodeOf(y[2])) /\ y[2] \in S
  BY <1>1 DEF CanonicalTree, IsPlace
<1>4. ~Blank(NodeOf(y[2]))
  BY <1>1, <1>3 DEF Canonical, LabelOf
<1>5. Len(FullKey(y)) <= PathMaxBytes
  <2>1. Joinable(y[1], NodeOf(y[2]))
    BY <1>2, SoundUnfold DEF PositionOk
  <2> QED
    BY <1>1, <2>1, FullKeyFacts DEF CanonicalTree, Joinable, LabelOf
<1>6. Laden(S, y) /\ Len(FullKey(y)) >= Len(FullKey(p)) + 1 /\ Len(FullKey(y)) <= PathMaxBytes
  BY <1>1, <1>2, <1>4, <1>5 DEF Laden
<1> QED
  BY <1>6 DEF y

(* Room for at most d more bytes below a place. *)
Room(p, d) == Len(FullKey(p)) + d >= PathMaxBytes

(* There is less room below a place than at it. *)
LEMMA RoomBelow ==
    ASSUME NEW S, CanonicalTree(S), NEW p, IsPlace(S, p), SoundAt(p),
           NEW e \in Edges(NodeOf(p[2]))
    PROVE  /\ ~Room(p, 0)
           /\ \A d \in Nat : Room(p, d + 1) => Room(ChildPlace(p, e), d)
<1> DEFINE y == ChildPlace(p, e)
<1>1. IsPlace(S, y) /\ Len(FullKey(y)) >= Len(FullKey(p)) + 1 /\ Len(FullKey(y)) <= PathMaxBytes
  BY LadenBelow DEF Laden
<1> HIDE DEF y
<1>2. FullKey(y) \in Seq(Byte) /\ FullKey(p) \in Seq(Byte)
  BY <1>1, FullKeyFacts DEF CanonicalTree
<1>3. Len(FullKey(y)) \in Nat /\ Len(FullKey(p)) \in Nat /\ PathMaxBytes \in Nat
  BY <1>2, PathMaxAssumption, NoLonger
<1>4. ~Room(p, 0) /\ \A d \in Nat : Room(p, d + 1) => Room(y, d)
  BY <1>1, <1>3 DEF Room
<1> QED
  BY <1>4 DEF y

LEMMA RoomEnough ==
    ASSUME NEW S, IsTree(S), NEW p, IsPlace(S, p)
    PROVE  Room(p, PathMaxBytes)
<1>1. FullKey(p) \in Seq(Byte)
  BY FullKeyFacts
<1>2. Len(FullKey(p)) \in Nat /\ PathMaxBytes \in Nat
  BY <1>1, PathMaxAssumption
<1> QED
  BY <1>2 DEF Room

(* Where something hangs, something is bound. *)
LEMMA LadenBinds ==
    ASSUME NEW S, CanonicalTree(S), NEW p, Laden(S, p)
    PROVE  \E k, b : Bound(p, k, b)
<1> DEFINE T == {d \in Nat : \A q : Laden(S, q) /\ Room(q, d) => \E k, b : Bound(q, k, b)}
<1>1. ASSUME NEW q, Laden(S, q), NodeOf(q[2]).binding # None
      PROVE  \E k, b : Bound(q, k, b)
  <2>1. Bound(q, FullKey(q), NodeOf(q[2]).binding)
    BY <1>1, BoundHere DEF CanonicalTree, Laden
  <2> QED
    BY <2>1
<1>2. ASSUME NEW q, Laden(S, q), NodeOf(q[2]).binding = None
      PROVE  \E e \in Edges(NodeOf(q[2])) : TRUE
  BY <1>2 DEF Laden, Blank
<1>3. 0 \in T
  <2> SUFFICES ASSUME NEW q, Laden(S, q), Room(q, 0) PROVE \E k, b : Bound(q, k, b)
    OBVIOUS
  <2> QED
    BY <1>1, <1>2, RoomBelow DEF Laden
<1>4. \A d \in Nat : d \in T => d + 1 \in T
  <2> SUFFICES ASSUME NEW d \in Nat, d \in T, NEW q, Laden(S, q), Room(q, d + 1)
               PROVE  \E k, b : Bound(q, k, b)
    OBVIOUS
  <2>1. CASE NodeOf(q[2]).binding # None
    BY <1>1, <2>1
  <2>2. CASE NodeOf(q[2]).binding = None
    <3>1. PICK e \in Edges(NodeOf(q[2])) : TRUE
      BY <1>2, <2>2
    <3>2. Laden(S, ChildPlace(q, e)) /\ Room(ChildPlace(q, e), d)
      BY LadenBelow, RoomBelow DEF Laden
    <3>3. PICK k, b : Bound(ChildPlace(q, e), k, b)
      BY <3>2
    <3>4. Bound(q, k, b)
      BY <3>3, BoundUnfold
    <3> QED
      BY <3>4
  <2> QED
    BY <2>1, <2>2
<1> HIDE DEF T
<1>5. \A d \in Nat : d \in T
  BY <1>3, <1>4, EveryNumber
<1>6. PathMaxBytes \in Nat /\ Room(p, PathMaxBytes)
  BY RoomEnough, PathMaxAssumption DEF Laden, CanonicalTree
<1> QED
  BY <1>5, <1>6 DEF T

(* No longer byte string begins every key bound below a place. *)
LEMMA NoLongerShared ==
    ASSUME NEW S, CanonicalTree(S), NEW p, Laden(S, p), NEW f \in Seq(Byte),
           \A k, b : Bound(p, k, b) => Begins(f, k)
    PROVE  Len(f) <= Len(FullKey(p))
<1> DEFINE n == NodeOf(p[2])
           L == Len(FullKey(p))
<1>1. IsTree(S) /\ IsPlace(S, p) /\ SoundAt(p) /\ Canonical(n) /\ ~Blank(n)
  BY DEF CanonicalTree, Laden, IsPlace
<1>2. L \in Nat /\ Len(f) \in Nat
  BY <1>1, FullKeyFacts, NoLonger
<1>3. CASE n.binding # None
  <2>1. Bound(p, FullKey(p), n.binding)
    BY <1>1, <1>3, BoundHere
  <2> QED
    BY <2>1 DEF Begins
<1>4. CASE n.binding = None
  <2>1. PICK d \in Edges(n) : TRUE
    BY <1>1, <1>4 DEF Blank
  <2>2. Edges(n) # {d}
    BY <1>1, <1>4, <2>1 DEF Canonical, PassThrough
  <2>3. PICK e \in Edges(n) : e # d
    BY <2>1, <2>2
  <2>4. ASSUME NEW c \in Edges(n), Len(f) > L
        PROVE  f[L + 1] = c
    <3>1. Laden(S, ChildPlace(p, c))
      BY <1>1, LadenBelow
    <3>2. PICK k, b : Bound(ChildPlace(p, c), k, b)
      BY <3>1, LadenBinds
    <3>3. k[L + 1] = c
      BY <1>1, <3>2, BoundChild
    <3>4. Begins(f, k)
      BY <3>2, BoundUnfold
    <3>5. L + 1 \in 1..Len(f)
      BY <1>2, <2>4
    <3> QED
      BY <3>3, <3>4, <3>5 DEF Begins
  <2>5. ~(Len(f) > L)
    BY <2>1, <2>3, <2>4
  <2> QED
    BY <1>2, <2>5
<1> QED
  BY <1>3, <1>4

(* The same keys are bound to the same bindings. *)
BindAlike(p, q) == \A k, b : Bound(p, k, b) <=> Bound(q, k, b)

(* Laden places that bind alike have the same bytes. *)
LEMMA SameKey ==
    ASSUME NEW S, CanonicalTree(S), NEW p, Laden(S, p), NEW q, Laden(S, q), BindAlike(p, q)
    PROVE  FullKey(p) = FullKey(q)
<1>1. IsTree(S) /\ IsPlace(S, p) /\ IsPlace(S, q)
  BY DEF CanonicalTree, Laden
<1>2. FullKey(p) \in Seq(Byte) /\ FullKey(q) \in Seq(Byte)
  BY <1>1, FullKeyFacts
<1>3. \A k, b : Bound(p, k, b) => Begins(FullKey(p), k) /\ Begins(FullKey(q), k)
  BY <1>1, BoundBegins DEF BindAlike
<1>4. Len(FullKey(q)) <= Len(FullKey(p))
  BY <1>2, <1>3, NoLongerShared
<1>5. Len(FullKey(p)) <= Len(FullKey(q))
  BY <1>2, <1>3, NoLongerShared DEF BindAlike
<1>6. Len(FullKey(p)) = Len(FullKey(q))
  BY <1>2, <1>4, <1>5
<1>7. PICK k, b : Bound(p, k, b)
  BY LadenBinds
<1> QED
  BY <1>2, <1>3, <1>6, <1>7, BeginsOnce

(* What follows the same bytes and gives the same bytes is the same. *)
LEMMA SameLabel ==
    ASSUME NEW a \in Seq(Byte), NEW s \in Seq(Byte), NEW t \in Seq(Byte), a \o s = a \o t
    PROVE  s = t
<1>1. Len(s) = Len(t)
  <2>1. Len(a \o s) = Len(a) + Len(s) /\ Len(a \o t) = Len(a) + Len(t)
    BY Joined
  <2>2. Len(a) \in Nat /\ Len(s) \in Nat /\ Len(t) \in Nat
    BY NoLonger
  <2> QED
    BY <2>1, <2>2
<1>2. \A i \in 1..Len(s) : s[i] = t[i]
  <2>1. /\ \A i \in 1..Len(s) : (a \o s)[Len(a) + i] = s[i]
        /\ \A i \in 1..Len(t) : (a \o t)[Len(a) + i] = t[i]
    BY Joined, Zenon
  <2> QED
    BY <1>1, <2>1, Zenon
<1> QED
  BY <1>1, <1>2

(* Nodes of one label and one binding with the same children. *)
SameFields(m, n) ==
    /\ m.label = n.label /\ m.binding = n.binding /\ Edges(m) = Edges(n)
    /\ \A e \in Edges(m) : m.children[e] = n.children[e]

LEMMA SameNode ==
    ASSUME NEW S, IsTree(S), NEW p, IsPlace(S, p), NEW q, IsPlace(S, q),
           SameFields(NodeOf(p[2]), NodeOf(q[2]))
    PROVE  p[2] = q[2]
<1>1. IsRow(p[2]) /\ IsRow(q[2])
  BY DEF IsTree, IsPlace
<1> DEFINE m == NodeOf(p[2])
           n == NodeOf(q[2])
<1>2. m.children = [e \in Edges(m) |-> m.children[e]] /\ n.children = [e \in Edges(n) |-> n.children[e]]
  BY <1>1 DEF IsRow, IsNode
<1>3. m = Node(m.label, m.binding, m.children) /\ n = Node(n.label, n.binding, n.children)
  BY <1>1 DEF IsRow, IsNode
<1>4. p[2] = Digest(m) /\ q[2] = Digest(n)
  BY <1>1 DEF IsRow
<1>5. /\ m.label = n.label /\ m.binding = n.binding /\ Edges(m) = Edges(n)
      /\ \A e \in Edges(m) : m.children[e] = n.children[e]
  BY DEF SameFields
<1> HIDE DEF m, n
<1>6. m.children = n.children
  BY <1>2, <1>5
<1>7. m = n
  BY <1>3, <1>5, <1>6
<1> QED
  BY <1>4, <1>7

(* The root of the empty map, and it alone, holds nothing. *)
LEMMA BlankAlike ==
    ASSUME NEW S, CanonicalTree(S), NEW p, IsPlace(S, p), NEW q, IsPlace(S, q),
           SoundAt(q), BindAlike(p, q), Blank(NodeOf(p[2]))
    PROVE  p[2] = q[2]
<1>1. IsTree(S) /\ Canonical(NodeOf(p[2])) /\ Canonical(NodeOf(q[2]))
  BY DEF CanonicalTree, IsPlace
<1>2. \A k, b : ~Bound(p, k, b)
  BY BoundUnfold DEF Blank, Own
<1>3. Blank(NodeOf(q[2]))
  BY <1>2, LadenBinds DEF BindAlike, Laden
<1> DEFINE m == NodeOf(p[2])
           n == NodeOf(q[2])
<1>4. /\ m.binding = None /\ Edges(m) = {} /\ m.label = << >>
      /\ n.binding = None /\ Edges(n) = {} /\ n.label = << >>
  BY <1>1, <1>3, Zenon DEF Canonical, Blank
<1>5. SameFields(m, n)
  BY <1>4, Zenon DEF SameFields
<1> QED
  BY <1>1, <1>5, SameNode

(* Children of two laden places that bind alike bind alike. *)
LEMMA ChildrenAlike ==
    ASSUME NEW S, CanonicalTree(S), NEW p, Laden(S, p), NEW q, Laden(S, q), BindAlike(p, q),
           NEW e \in Edges(NodeOf(p[2]))
    PROVE  /\ e \in Edges(NodeOf(q[2]))
           /\ \A k, b : Bound(ChildPlace(p, e), k, b) => Bound(ChildPlace(q, e), k, b)
<1>1. IsTree(S) /\ IsPlace(S, p) /\ IsPlace(S, q) /\ SoundAt(p)
  BY DEF CanonicalTree, Laden
<1>2. FullKey(p) = FullKey(q) /\ FullKey(p) \in Seq(Byte)
  BY <1>1, SameKey, FullKeyFacts
<1>3. ASSUME NEW k, NEW b, Bound(ChildPlace(p, e), k, b)
      PROVE  e \in Edges(NodeOf(q[2])) /\ Bound(ChildPlace(q, e), k, b)
  <2>1. Len(k) > Len(FullKey(p)) /\ k[Len(FullKey(p)) + 1] = e
    BY <1>1, <1>3, BoundChild
  <2>2. k # FullKey(q)
    BY <1>2, <2>1, NoLonger
  <2>3. Bound(q, k, b)
    BY <1>3, BoundUnfold DEF BindAlike
  <2> QED
    BY <1>1, <1>2, <2>1, <2>2, <2>3, BoundDown
<1>4. PICK k, b : Bound(ChildPlace(p, e), k, b)
  BY <1>1, LadenBelow, LadenBinds
<1> QED
  BY <1>3, <1>4

(* Two places after the same bytes that bind alike hold the same row. *)
Twins(S, p, q) ==
    /\ IsPlace(S, p) /\ IsPlace(S, q) /\ p[1] = q[1]
    /\ SoundAt(p) /\ SoundAt(q) /\ BindAlike(p, q)

(* Twins whose twin children are equal are equal. *)
LEMMA TwinNode ==
    ASSUME NEW S, CanonicalTree(S), NEW p, NEW q, Twins(S, p, q),
           \A e \in Edges(NodeOf(p[2])) : Twins(S, ChildPlace(p, e), ChildPlace(q, e)) =>
               NodeOf(p[2]).children[e] = NodeOf(q[2]).children[e]
    PROVE  p[2] = q[2]
<1>1. /\ IsTree(S) /\ IsPlace(S, p) /\ IsPlace(S, q) /\ p[1] = q[1]
      /\ SoundAt(p) /\ SoundAt(q) /\ BindAlike(p, q) /\ BindAlike(q, p)
  BY DEF CanonicalTree, Twins, BindAlike
<1>2. CASE Blank(NodeOf(p[2]))
  BY <1>1, <1>2, BlankAlike
<1>3. CASE Blank(NodeOf(q[2]))
  BY <1>1, <1>3, BlankAlike
<1>4. CASE ~Blank(NodeOf(p[2])) /\ ~Blank(NodeOf(q[2]))
  <2>1. Laden(S, p) /\ Laden(S, q)
    BY <1>1, <1>4 DEF Laden
  <2>2. FullKey(p) = FullKey(q)
    BY <1>1, <2>1, SameKey
  <2>3. NodeOf(p[2]).label = NodeOf(q[2]).label
    <3>1. LabelOf(p) \in Seq(Byte) /\ LabelOf(q) \in Seq(Byte) /\ p[1] \in Seq(Byte)
      BY <1>1, FullKeyFacts DEF IsPlace
    <3>2. p[1] \o LabelOf(p) = p[1] \o LabelOf(q)
      BY <1>1, <2>2 DEF FullKey, LabelOf
    <3>3. LabelOf(p) = LabelOf(q)
      BY <3>1, <3>2, SameLabel
    <3> QED
      BY <3>3 DEF LabelOf
  <2>4. NodeOf(p[2]).binding = NodeOf(q[2]).binding
    <3>1. \A b : b # None =>
            (NodeOf(p[2]).binding = b <=> NodeOf(q[2]).binding = b)
      BY <1>1, <2>2, BoundHere DEF BindAlike
    <3> QED
      BY <3>1
  <2>5. Edges(NodeOf(p[2])) = Edges(NodeOf(q[2]))
    BY <1>1, <2>1, ChildrenAlike
  <2>6. ASSUME NEW e \in Edges(NodeOf(p[2]))
        PROVE  Twins(S, ChildPlace(p, e), ChildPlace(q, e))
    <3>1. e \in Edges(NodeOf(q[2]))
      BY <2>5
    <3>2. BindAlike(ChildPlace(p, e), ChildPlace(q, e))
      BY <1>1, <2>1, <3>1, ChildrenAlike DEF BindAlike
    <3>3. Laden(S, ChildPlace(p, e)) /\ Laden(S, ChildPlace(q, e))
      BY <1>1, <3>1, LadenBelow
    <3>4. ChildPlace(p, e)[1] = ChildPlace(q, e)[1]
      BY <2>2 DEF ChildPlace
    <3> QED
      BY <3>2, <3>3, <3>4 DEF Twins, Laden
  <2> QED
    BY <1>1, <2>3, <2>4, <2>5, <2>6, SameNode DEF SameFields
<1> QED
  BY <1>2, <1>3, <1>4

(* By induction on the room that is left. *)
LEMMA TwinsAreOne ==
    ASSUME NEW S, CanonicalTree(S), NEW p, NEW q, Twins(S, p, q)
    PROVE  p[2] = q[2]
<1> DEFINE T == {d \in Nat : \A x, y : Twins(S, x, y) /\ Room(x, d) => x[2] = y[2]}
<1>1. 0 \in T
  <2> SUFFICES ASSUME NEW x, NEW y, Twins(S, x, y), Room(x, 0) PROVE x[2] = y[2]
    OBVIOUS
  <2>1. Edges(NodeOf(x[2])) = {}
    BY RoomBelow DEF Twins
  <2> QED
    BY <2>1, TwinNode
<1>2. \A d \in Nat : d \in T => d + 1 \in T
  <2> SUFFICES ASSUME NEW d \in Nat, d \in T, NEW x, NEW y, Twins(S, x, y), Room(x, d + 1)
               PROVE  x[2] = y[2]
    OBVIOUS
  <2>1. ASSUME NEW e \in Edges(NodeOf(x[2])), Twins(S, ChildPlace(x, e), ChildPlace(y, e))
        PROVE  NodeOf(x[2]).children[e] = NodeOf(y[2]).children[e]
    <3>1. Room(ChildPlace(x, e), d)
      BY RoomBelow DEF Twins
    <3>2. ChildPlace(x, e)[2] = ChildPlace(y, e)[2]
      BY <2>1, <3>1
    <3> QED
      BY <3>2 DEF ChildPlace
  <2> QED
    BY <2>1, TwinNode
<1> HIDE DEF T
<1>3. \A d \in Nat : d \in T
  BY <1>1, <1>2, EveryNumber
<1>4. PathMaxBytes \in Nat /\ Room(p, PathMaxBytes)
  BY RoomEnough, PathMaxAssumption DEF Twins, CanonicalTree
<1> QED
  BY <1>3, <1>4 DEF T

(* Roots of one map bind alike. *)
LEMMA MapBinds ==
    ASSUME NEW S, IsTree(S), NEW r \in S, SoundAt(Top(r)), NEW s \in S, SoundAt(Top(s)),
           MapOf(r) = MapOf(s), NEW k, NEW b, Bound(Top(r), k, b)
    PROVE  Bound(Top(s), k, b)
<1>1. GoodKey(k) /\ KeyPath(k) \in Seq(Byte)
  BY BoundGood, TopIsPlace
<1>2. ValidPath(KeyPath(k)) /\ EncodeKey(KeyPath(k)) = k
  BY <1>1 DEF GoodKey
<1>3. Holds(MapOf(r), KeyPath(k), b) <=> Bound(Top(r), k, b)
  BY <1>1, <1>2, MapMeans
<1>4. Holds(MapOf(s), KeyPath(k), b) <=> Bound(Top(s), k, b)
  BY <1>1, <1>2, MapMeans
<1> QED
  BY <1>3, <1>4

(* Every root a caller has or is about to get is a sound trie. *)
LEMMA HandedSound ==
    ASSUME IInv, SInv, NEW r \in HandedOut
    PROVE  r \in Trie /\ SoundAt(Top(r))
<1>1. World /\ EmptyRoot \in Trie /\ stored \subseteq Trie
  BY TrieFacts DEF SInv
<1>2. CASE r \in roots
  BY <1>1, <1>2 DEF World, IInv, TypeOK, Trie
<1>3. CASE r = EmptyRoot
  BY <1>1, <1>3, EmptyBinds DEF Top
<1>4. CASE Updated /\ r = result.value
  BY <1>4, UpdatedFacts DEF UpdateIs
<1> QED
  BY <1>2, <1>3, <1>4 DEF HandedOut

LEMMA OneRootFromInvariant ==
    ASSUME IInv, SInv
    PROVE  OneRootPerMap
<1> SUFFICES ASSUME NEW r \in HandedOut, NEW s \in HandedOut, MapOf(r) = MapOf(s)
             PROVE  r = s
  BY DEF OneRootPerMap
<1>1. r \in Trie /\ SoundAt(Top(r)) /\ s \in Trie /\ SoundAt(Top(s))
  BY HandedSound
<1>2. IsTree(Trie) /\ CanonicalTree(Trie)
  BY TrieFacts DEF SInv, CanonicalTree
<1>3. BindAlike(Top(r), Top(s))
  BY <1>1, <1>2, MapBinds DEF BindAlike
<1>4. Twins(Trie, Top(r), Top(s))
  BY <1>1, <1>3, TopIsPlace DEF Twins
<1> QED
  BY <1>2, <1>4, TwinsAreOne, TopIsPlace DEF Top

(* Two roots of one map are the same root, whatever inserts, splits,        *)
(* deletions and collapses led to them (tests:                              *)
(* insertion_order_and_delete_reinsert_have_identical_canonical_roots).     *)
THEOREM OneMapOneRoot ==
    ASSUME NoneIsApart PROVE Spec => []OneRootPerMap
<1>1. IInv /\ SInv => OneRootPerMap
  BY OneRootFromInvariant
<1> QED
  BY <1>1, SoundInvariance, PTL
=============================================================================
