----------------------------- MODULE RadixIndex -----------------------------
(***************************************************************************)
(* RadixIndex of src/src/namespace/radix/index.rs: lookups in and          *)
(* copy-on-write updates of an immutable compressed trie whose nodes live  *)
(* in a byte store that the caller owns.                                   *)
(*                                                                         *)
(* A call is one run of update, get or longest_prefix on a root the caller *)
(* holds.  It is cut at its store calls: each action makes at most one     *)
(* NodeStore::read or NodeStore::insert and does the work around it, so a  *)
(* store call that fails, or a row that is gone or damaged, can end the    *)
(* call anywhere with the rows inserted so far left behind.                *)
(*                                                                         *)
(* The store itself is external.  It is modelled from the NodeStore        *)
(* contract: rows are immutable, an insert that conflicts with the bytes   *)
(* present is rejected, an absent or damaged row is an error.  The caller  *)
(* is external too: it keeps the roots it was given, forgets them, and may *)
(* collect a row nothing refers to between two calls (retention).          *)
(***************************************************************************)
EXTENDS RadixNode

CONSTANTS Path,       \* the strings callers pass as a path, valid or not
          Opening,    \* the stores and held roots an index may be opened over
          MaxCalls,   \* bound: calls in a behaviour
          MaxFaults,  \* bound: store faults in a behaviour
          MaxRoots    \* bound: roots the caller holds at once

VARIABLES
    stored,     \* identities that have a row
    missing,    \* those whose row the store has lost
    corrupt,    \* those whose row no longer hashes to its identity
    roots,      \* roots the caller holds
    pc,         \* where the running call is: see PCs
    call,       \* the arguments of the running or last call
    cursor,     \* the loop's id, edge and offset
    ancestors,  \* the visited nodes that an update may have to rebuild
    found,      \* the deepest binding a walk has seen
    job,        \* the node save is working on, its prefix, what follows it
    parent,     \* the node waiting for the identities of new children
    replacement,\* what the last save of the spine returned
    result,     \* what the last call returned
    inserted,   \* ghost: identities this call has inserted
    calls, faults

store == <<stored, missing, corrupt>>
spine == <<cursor, ancestors, found>>
edits == <<job, parent, replacement>>
bounds == <<calls, faults>>
vars  == <<store, roots, pc, call, spine, edits, result, inserted, bounds>>

ASSUME PathAssumption == Path \subseteq Seq(Byte)

\* Rows found at opening are decodable nodes; what they refer to has a row too
\* (or had one: the opening says which rows are lost or damaged).
ASSUME OpeningAssumption ==
    \A o \in Opening :
        /\ \A id \in o.stored : IsRow(id) /\ Refs(NodeOf(id)) \subseteq o.stored
        /\ o.missing \subseteq o.stored
        /\ o.corrupt \subseteq o.stored
        /\ o.roots \subseteq o.stored \cup {EmptyRoot}

ASSUME BoundsAssumption == {MaxCalls, MaxFaults, MaxRoots} \subseteq Nat

PCs   == {"idle",      \* no call is running
          "load",      \* about to load the node at the cursor
          "collapse",  \* save is about to load the only child of its node
          "insert",    \* save is about to insert its node
          "rise",      \* about to rebuild the next ancestor
          "return"}    \* about to hand its result to the caller
Kinds == {"update", "get", "longest_prefix"}

NoCall   == [kind |-> "get", root |-> EmptyRoot, path |-> <<Slash>>,
             binding |-> None]
NoResult == [outcome |-> "pending", value |-> None]
NoCursor == [id |-> EmptyRoot, edge |-> None, offset |-> 0]
NoJob    == [node |-> EmptyNode, prefix |-> << >>, next |-> "spine"]
NoParent == [node |-> EmptyNode, offset |-> 0, at |-> 0]

-----------------------------------------------------------------------------
Key  == EncodeKey(call.path)
N    == NodeOf(cursor.id)
Rest == From(Key, cursor.offset)

Shared == Common(Rest, N.label)
At     == cursor.offset + Shared

(* load: the store has the row, it hashes to its identity and decodes, it  *)
(* hangs from the edge that led to it, and its place makes sense of it.    *)
(* The empty root is never read.  An absent row is the store's error, any  *)
(* other refusal the codec's.                                              *)
AbsentLikeAny(id) == id \notin stored \ missing   \* mutant: reads empty root
Absent(id) == id # EmptyRoot /\ id \notin stored \ missing

LoadOk(id, edge, prefix) ==
    /\ ~Absent(id)
    /\ id # EmptyRoot => id \notin corrupt /\ Canonical(NodeOf(id))
    /\ edge # None => NodeOf(id).label # << >> /\ NodeOf(id).label[1] = edge
    /\ PositionOk(prefix, NodeOf(id))

LoadError(id) == IF Absent(id) THEN "store" ELSE "codec"

-----------------------------------------------------------------------------
(* The ends of a call; Exit hands the result to the caller. *)
Return(value) == /\ pc' = "return"
                 /\ result' = [outcome |-> "ok", value |-> value]
Fail(error)   == /\ pc' = "return"
                 /\ result' = [outcome |-> error, value |-> None]

(* save, up to its first store call.  "next" says what the identity is for:*)
(* the tail of a split label, the new leaf, or the spine of the update.    *)
StoreCall(kind, node, prefix, next) ==
    /\ pc' = kind
    /\ job' = [node |-> node, prefix |-> prefix, next |-> next]
    /\ UNCHANGED <<replacement, result>>

SaveFails(error) == Fail(error) /\ UNCHANGED <<job, replacement>>

Insert(node, prefix, next) ==
    IF PositionOk(prefix, node) /\ Canonical(node)
    THEN StoreCall("insert", node, prefix, next)
    ELSE SaveFails("codec")

Save(node, prefix, next) ==
    \/ /\ Blank(node) /\ next = "spine"          \* save returns None
       /\ pc' = "rise"
       /\ replacement' = None
       /\ UNCHANGED <<job, result>>
    \/ /\ Blank(node) /\ next # "spine"          \* required_id refuses None
       /\ SaveFails("codec")
    \/ /\ PassThrough(node)
       /\ IF Joinable(prefix, node)
          THEN StoreCall("collapse", node, prefix, next)
          ELSE SaveFails("codec")
    \/ /\ ~Blank(node) /\ ~PassThrough(node)
       /\ Insert(node, prefix, next)

-----------------------------------------------------------------------------
Init ==
    /\ \E o \in Opening : /\ stored  = o.stored
                          /\ missing = o.missing
                          /\ corrupt = o.corrupt
                          /\ roots   = o.roots
    /\ pc = "idle" /\ call = NoCall /\ result = NoResult
    /\ cursor = NoCursor /\ ancestors = << >> /\ found = None
    /\ job = NoJob /\ parent = NoParent /\ replacement = None
    /\ inserted = {}
    /\ calls = 0 /\ faults = 0

(* A call of update, get or longest_prefix; encode_key may refuse the path. *)
Call ==
    /\ pc = "idle" /\ calls < MaxCalls
    /\ \E kind \in Kinds, root \in roots \cup {EmptyRoot}, path \in Path,
          binding \in Binding \cup {None} :
         /\ kind = "update" => Cardinality(roots) < MaxRoots
         /\ kind # "update" => binding = None
         /\ call' = [kind |-> kind, root |-> root, path |-> path,
                     binding |-> binding]
         /\ IF ValidPath(path)
            THEN /\ pc' = "load"
                 /\ cursor' = [NoCursor EXCEPT !.id = root]
                 /\ UNCHANGED result
            ELSE Fail("codec") /\ UNCHANGED cursor
    /\ calls' = calls + 1
    /\ UNCHANGED <<store, roots, ancestors, found, edits, inserted, faults>>

(* The call returns: its frame is gone, the caller holds a new root. *)
Exit ==
    /\ pc = "return" /\ pc' = "idle"
    /\ roots' = IF call.kind = "update" /\ result.outcome = "ok"
                THEN roots \cup {result.value} ELSE roots
    /\ call' = NoCall /\ result' = NoResult
    /\ cursor' = NoCursor /\ ancestors' = << >> /\ found' = None
    /\ job' = NoJob /\ parent' = NoParent /\ replacement' = None
    /\ inserted' = {}
    /\ UNCHANGED <<store, bounds>>

(* The loop's load refuses the node at the cursor, for either kind of call. *)
LoadFails ==
    /\ pc = "load"
    /\ ~LoadOk(cursor.id, cursor.edge, Before(Key, cursor.offset))
    /\ Fail(LoadError(cursor.id))
    /\ UNCHANGED <<store, roots, call, spine, edits, inserted, bounds>>

Loaded ==
    /\ pc = "load"
    /\ LoadOk(cursor.id, cursor.edge, Before(Key, cursor.offset))
    /\ UNCHANGED <<store, roots, call, inserted, bounds>>

Child(edge) == [id |-> N.children[edge], edge |-> edge, offset |-> At]

-----------------------------------------------------------------------------
(* walk: get and longest_prefix. *)
Walking == Loaded /\ call.kind # "update" /\ UNCHANGED <<ancestors, edits>>

FoundFirst ==         \* mutant of FoundHere: the shallowest binding wins
    IF N.binding = None \/ found # None THEN found
    ELSE [path |-> KeyPath(Before(Key, At)), binding |-> N.binding]

(* What the walk has found once it is past the label of the loaded node. *)
FoundHere ==
    IF N.binding = None THEN found
    ELSE [path |-> KeyPath(Before(Key, At)), binding |-> N.binding]

(* walk's result for a caller of get (an exact match) or longest_prefix. *)
WalkResult(f, atEnd) ==
    IF call.kind = "longest_prefix" THEN f
    ELSE IF f # None /\ atEnd /\ f.path = call.path THEN f.binding ELSE None

WalkOffLabel ==       \* the key does not continue with the node's label
    /\ Walking /\ Shared < Len(N.label)
    /\ Return(WalkResult(found, FALSE))
    /\ UNCHANGED <<cursor, found>>

WalkEnds ==           \* the key is used up at this node
    /\ Walking /\ Shared = Len(N.label) /\ At = Len(Key)
    /\ Return(WalkResult(FoundHere, TRUE))
    /\ UNCHANGED <<cursor, found>>

WalkNoChild ==
    /\ Walking /\ Shared = Len(N.label) /\ At < Len(Key)
    /\ Key[At + 1] \notin Edges(N)
    /\ Return(WalkResult(FoundHere, FALSE))
    /\ UNCHANGED <<cursor, found>>

WalkStays ==          \* mutant of WalkDown: the cursor is not advanced
    /\ Walking /\ Shared = Len(N.label) /\ At < Len(Key)
    /\ Key[At + 1] \in Edges(N)
    /\ found' = FoundHere
    /\ UNCHANGED <<cursor, pc, result>>

WalkDown ==
    /\ Walking /\ Shared = Len(N.label) /\ At < Len(Key)
    /\ Key[At + 1] \in Edges(N)
    /\ found' = FoundHere
    /\ cursor' = Child(Key[At + 1])
    /\ UNCHANGED <<pc, result>>

-----------------------------------------------------------------------------
(* update: down to where the key leaves the trie or ends. *)
Updating == Loaded /\ call.kind = "update" /\ UNCHANGED found

Leaf(offset) == Node(From(Key, offset), call.binding, NoChildren)

Unchanged ==          \* nothing to delete there, or the binding is the same
    /\ Updating
    /\ \/ call.binding = None /\ Shared < Len(N.label)
       \/ call.binding = None /\ Shared = Len(N.label) /\ At < Len(Key)
                              /\ Key[At + 1] \notin Edges(N)
       \/ Shared = Len(N.label) /\ At = Len(Key) /\ N.binding = call.binding
    /\ Return(call.root)
    /\ UNCHANGED <<cursor, ancestors, edits>>

SplitLabel ==         \* the key leaves the node's label: save its tail first
    /\ Updating /\ call.binding # None /\ Shared < Len(N.label)
    /\ parent' = [node   |-> Node(Before(N.label, Shared), None, NoChildren),
                  offset |-> cursor.offset, at |-> At]
    /\ Save([N EXCEPT !.label = From(N.label, Shared)], Before(Key, At), "tail")
    /\ UNCHANGED <<cursor, ancestors>>

RebindAlways ==       \* mutant of Rebind: an equal binding is written again
    /\ Updating /\ Shared = Len(N.label) /\ At = Len(Key)
    /\ Save([N EXCEPT !.binding = call.binding],
            Before(Key, cursor.offset), "spine")
    /\ UNCHANGED <<cursor, ancestors, parent>>

Rebind ==             \* the key ends at this node: set or clear its binding
    /\ Updating /\ Shared = Len(N.label) /\ At = Len(Key)
    /\ N.binding # call.binding
    /\ Save([N EXCEPT !.binding = call.binding],
            Before(Key, cursor.offset), "spine")
    /\ UNCHANGED <<cursor, ancestors, parent>>

Descend ==
    /\ Updating /\ Shared = Len(N.label) /\ At < Len(Key)
    /\ Key[At + 1] \in Edges(N)
    /\ ancestors' = Append(ancestors, [id |-> cursor.id, edge |-> Key[At + 1],
                                       offset |-> cursor.offset])
    /\ cursor' = Child(Key[At + 1])
    /\ UNCHANGED <<pc, result, edits>>

AddLeaf ==            \* no child continues the key: save a leaf, then the node
    /\ Updating /\ call.binding # None
    /\ Shared = Len(N.label) /\ At < Len(Key)
    /\ Key[At + 1] \notin Edges(N)
    /\ parent' = [node |-> N, offset |-> cursor.offset, at |-> At]
    /\ Save(Leaf(At), Before(Key, At), "leaf")
    /\ UNCHANGED <<cursor, ancestors>>

-----------------------------------------------------------------------------
(* save: the two store calls it may make, and what the caller does next. *)

(* The only child of a pass-through node is loaded and takes its place. *)
OnlyEdge == CHOOSE e \in Edges(job.node) : TRUE
OnlyId   == job.node.children[OnlyEdge]

Merged ==
    Node(job.node.label \o NodeOf(OnlyId).label,
         NodeOf(OnlyId).binding, NodeOf(OnlyId).children)

Collapse ==
    /\ pc = "collapse"
    /\ IF LoadOk(OnlyId, OnlyEdge, job.prefix \o job.node.label)
       THEN Insert(Merged, job.prefix, job.next)
       ELSE SaveFails(LoadError(OnlyId))
    /\ UNCHANGED <<store, roots, call, spine, parent, inserted, bounds>>

(* set_child under the first byte of what was saved, then the next save. *)
Attach(id) == SetChild(parent.node, job.node.label[1], id)

AfterTailUnsaved(node) ==    \* mutant of AfterTail: the leaf is only named
    /\ parent' = parent
    /\ Save(IF parent.at = Len(Key)
            THEN [node EXCEPT !.binding = call.binding]
            ELSE SetChild(node, Key[parent.at + 1], Digest(Leaf(parent.at))),
            Before(Key, parent.offset), "spine")

AfterTail(node) ==
    IF parent.at = Len(Key)
    THEN /\ parent' = parent
         /\ Save([node EXCEPT !.binding = call.binding],
                 Before(Key, parent.offset), "spine")
    ELSE /\ parent' = [parent EXCEPT !.node = node]
         /\ Save(Leaf(parent.at), Before(Key, parent.at), "leaf")

AfterLeaf(node) ==
    /\ parent' = parent
    /\ Save(node, Before(Key, parent.offset), "spine")

Row == Digest(job.node)

(* insert refuses a row whose bytes are not the node's; else it is there. *)
InsertRow ==
    /\ pc = "insert" /\ Row \notin corrupt \ missing
    /\ stored' = stored \cup {Row}
    /\ missing' = missing \ {Row}
    /\ corrupt' = corrupt \ {Row}
    /\ inserted' = inserted \cup {Row}
    /\ \/ job.next = "tail" /\ AfterTail(Attach(Row))
       \/ job.next = "leaf" /\ AfterLeaf(Attach(Row))
       \/ /\ job.next = "spine"
          /\ replacement' = Row
          /\ pc' = "rise"
          /\ UNCHANGED <<job, parent, result>>
    /\ UNCHANGED <<roots, call, spine, bounds>>

InsertConflicts ==
    /\ pc = "insert" /\ Row \in corrupt \ missing
    /\ Fail("store")
    /\ UNCHANGED <<store, roots, call, spine, edits, inserted, bounds>>

RiseOutermost ==      \* mutant of Rise: ancestors are taken root first
    /\ pc = "rise" /\ ancestors # << >>
    /\ LET top == ancestors[1]
       IN  Save(SetChild(NodeOf(top.id), top.edge, replacement),
                Before(Key, top.offset), "spine")
    /\ ancestors' = Tail(ancestors)
    /\ UNCHANGED <<store, roots, call, cursor, found, parent, inserted, bounds>>

(* The innermost ancestor gets its new child, or loses it, and is saved. *)
Rise ==
    /\ pc = "rise" /\ ancestors # << >>
    /\ LET top == ancestors[Len(ancestors)]
       IN  Save(SetChild(NodeOf(top.id), top.edge, replacement),
                Before(Key, top.offset), "spine")
    /\ ancestors' = Before(ancestors, Len(ancestors) - 1)
    /\ UNCHANGED <<store, roots, call, cursor, found, parent, inserted, bounds>>

FinishBare ==         \* mutant of Finish: no empty_root for an empty trie
    /\ pc = "rise" /\ ancestors = << >>
    /\ Return(replacement)
    /\ UNCHANGED <<store, roots, call, spine, edits, inserted, bounds>>

Finish ==
    /\ pc = "rise" /\ ancestors = << >>
    /\ Return(IF replacement = None THEN EmptyRoot ELSE replacement)
    /\ UNCHANGED <<store, roots, call, spine, edits, inserted, bounds>>

-----------------------------------------------------------------------------
(* The store and the caller. *)

(* A read or an insert in progress is answered with an error; an insert may *)
(* have taken effect all the same.                                          *)
StoreUnavailable ==
    /\ faults < MaxFaults
    /\ \/ pc = "load" /\ cursor.id # EmptyRoot /\ UNCHANGED <<store, inserted>>
       \/ pc = "collapse" /\ OnlyId # EmptyRoot /\ UNCHANGED <<store, inserted>>
       \/ pc = "insert" /\ UNCHANGED <<store, inserted>>
       \/ /\ pc = "insert" /\ Row \notin stored
          /\ stored' = stored \cup {Row}
          /\ inserted' = inserted \cup {Row}
          /\ UNCHANGED <<missing, corrupt>>
    /\ Fail("store")
    /\ faults' = faults + 1
    /\ UNCHANGED <<roots, call, spine, edits, calls>>

Lose ==               \* a row is gone
    /\ faults < MaxFaults
    /\ \E id \in stored \ missing : missing' = missing \cup {id}
    /\ faults' = faults + 1
    /\ UNCHANGED <<stored, corrupt, roots, pc, call, spine, edits, result,
                   inserted, calls>>

Damage ==             \* a row's bytes change
    /\ faults < MaxFaults
    /\ \E id \in stored \ (missing \cup corrupt) : corrupt' = corrupt \cup {id}
    /\ faults' = faults + 1
    /\ UNCHANGED <<stored, missing, roots, pc, call, spine, edits, result,
                   inserted, calls>>

Forget ==             \* the caller drops a root
    /\ pc = "idle"
    /\ \E id \in roots : roots' = roots \ {id}
    /\ UNCHANGED <<store, pc, call, spine, edits, result, inserted, bounds>>

Collect ==            \* retention drops a row that nothing refers to
    /\ pc = "idle"
    /\ \E id \in stored \ roots :
         /\ \A other \in stored : id \notin Refs(NodeOf(other))
         /\ stored' = stored \ {id}
         /\ missing' = missing \ {id}
         /\ corrupt' = corrupt \ {id}
    /\ UNCHANGED <<roots, pc, call, spine, edits, result, inserted, bounds>>

-----------------------------------------------------------------------------
Walk   == WalkOffLabel \/ WalkEnds \/ WalkNoChild \/ WalkDown
Update == \/ Unchanged \/ SplitLabel \/ Rebind \/ Descend \/ AddLeaf
          \/ Collapse \/ InsertRow \/ InsertConflicts \/ Rise \/ Finish

Running     == LoadFails \/ Walk \/ Update \/ Exit
Environment == Call \/ StoreUnavailable \/ Lose \/ Damage \/ Forget \/ Collect

Next == Running \/ Environment

Spec == Init /\ [][Next]_vars

(* A call is a sequential function: once called, it runs. *)
FairSpec == Spec /\ WF_vars(Running)

-----------------------------------------------------------------------------
(* The variables hold values of the types the code gives them; in          *)
(* particular every row in the store is a node RadixNode::decode accepts.   *)
TypeOK ==
    /\ \A id \in stored : IsRow(id)
    /\ missing \subseteq stored /\ corrupt \subseteq stored
    /\ roots \subseteq stored \cup {EmptyRoot}
    /\ pc \in PCs
    /\ call \in [kind : Kinds, root : stored \cup {EmptyRoot}, path : Seq(Byte),
                 binding : Binding \cup {None}]
    /\ cursor \in [id : stored \cup {EmptyRoot}, edge : Byte \cup {None},
                   offset : Nat]
    /\ ancestors \in Seq([id : stored \cup {EmptyRoot}, edge : Byte,
                          offset : Nat])
    /\ found \in [path : Seq(Byte), binding : Binding] \cup {None}
    /\ job = [node |-> job.node, prefix |-> job.prefix, next |-> job.next]
    /\ IsNode(job.node) /\ job.next \in {"tail", "leaf", "spine"}
    /\ job.prefix \in Seq(Byte)
    /\ parent = [node |-> parent.node, offset |-> parent.offset, at |-> parent.at]
    /\ IsNode(parent.node) /\ parent.offset \in Nat /\ parent.at \in Nat
    /\ replacement \in stored \cup {None}
    /\ inserted \subseteq stored
    /\ result = [outcome |-> result.outcome, value |-> result.value]
    /\ result.outcome \in {"pending", "ok", "store", "codec"}
    /\ (pc = "return") = (result.outcome # "pending")
    /\ calls \in Nat /\ faults \in Nat

(* What a row refers to has a row: an update that stops anywhere, because   *)
(* the store failed or the caller gave up, leaves at worst nodes nobody     *)
(* refers to, never a node whose children were not written (update's doc:   *)
(* "On failure no new root is returned; inserted orphan nodes may remain"). *)
NoDangling == \A id \in stored : Refs(NodeOf(id)) \subseteq stored

(* An error of the store means that a store call failed: without faults     *)
(* every row that a held root leads to is there to be read, whatever failed *)
(* updates, forgotten roots and collected rows came before.                 *)
StoreErrorMeansFault ==
    pc = "return" /\ result.outcome = "store" => faults > 0
=============================================================================
