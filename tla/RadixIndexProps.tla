-------------------------- MODULE RadixIndexProps ---------------------------
(***************************************************************************)
(* What RadixIndex must guarantee about the maps its tries stand for, for   *)
(* a store and roots that an index has made.                               *)
(***************************************************************************)
EXTENDS RadixIndex, RadixMaps

(* The rows found at opening are canonical and linked by first bytes, and   *)
(* the nodes below a held root make sense where they are: an index made     *)
(* them.  (Rows may be missing or damaged since.)                           *)
ASSUME MadeAssumption ==
    \A o \in Opening :
        /\ \A id \in o.stored : Canonical(NodeOf(id)) /\ WellLinked(NodeOf(id))
        /\ \A root \in o.roots : Sound(root)

Succeeded == pc = "return" /\ result.outcome = "ok"
Updated   == Succeeded /\ call.kind = "update"

(* The roots the caller holds and the one an update is about to hand over. *)
HandedOut == roots \cup {EmptyRoot} \cup (IF Updated THEN {result.value} ELSE {})

(* A root's identity depends on the map alone, not on the inserts, splits,  *)
(* deletions and collapses that led to it: two roots of one map are the     *)
(* same root (tests:                                                        *)
(* insertion_order_and_delete_reinsert_have_identical_canonical_roots).     *)
OneRootPerMap ==
    \A r, s \in HandedOut : MapOf(r) = MapOf(s) => r = s

(* "Copy only changed ancestors": a successful update inserts only rows of  *)
(* the new trie (no orphans) and only where the changed key leads, the tail *)
(* of a split label and the survivor of a collapse included; whole subtrees *)
(* beside the key are shared with the old root.                             *)
WritesOnlyThePath ==
    Updated =>
        \A id \in inserted :
            \E place \in Places(result.value) :
                place[2] = id /\ IsPrefixOf(place[1], Key)

(* "A no-op writes no nodes": an update that leaves the map as it was gives *)
(* back the very root it was given and has inserted nothing on the way.     *)
NoOpWritesNothing ==
    Updated /\ MapOf(result.value) = MapOf(call.root) =>
        result.value = call.root /\ inserted = {}

(* Damage beside the key does not disturb a call: when a call on a good     *)
(* path fails with a codec error, a row the key leads to, the sibling a     *)
(* deletion must merge, or a row this call has just inserted (the first     *)
(* leaf of an empty index is read back to be merged) is itself damaged.     *)
CodecErrorMeansDamage ==
    pc = "return" /\ result.outcome = "codec" /\ ValidPath(call.path) =>
        \/ inserted \cap corrupt # {}
        \/ \E place \in Places(call.root) :
               place[2] \in corrupt /\ IsPrefixOf(place[1], Key)

(* Every call returns: the descent gets longer with every node, the climb   *)
(* shorter, and save reads at most one node (the loops of update and walk). *)
CallsReturn == (pc # "idle") ~> (pc = "idle")

-----------------------------------------------------------------------------
(* RadixIndex implements the map that BindingIndex describes: a root stands *)
(* for the map of its bound keys, an answer is taken when the call returns. *)
Request ==
    IF pc = "idle" THEN None
    ELSE [kind |-> call.kind, map |-> MapOf(call.root),
          path |-> call.path, binding |-> call.binding]

Value == IF call.kind = "update" THEN MapOf(result.value) ELSE result.value

Reply ==
    IF pc # "return" THEN None
    ELSE [ok    |-> result.outcome = "ok",
          value |-> IF result.outcome = "ok" THEN Value ELSE None]

Maps == INSTANCE BindingIndex WITH
            Paths    <- Seq(Byte),
            Bindings <- Binding,
            IsPath   <- ValidPath,
            held     <- {MapOf(r) : r \in roots},
            request  <- Request,
            reply    <- Reply

(* Every answer is the map's answer or an error, never absence for a lost   *)
(* or damaged row ("Missing/corrupt storage is an error, never an empty     *)
(* node or absent binding"); the roots held before keep their maps.         *)
ImplementsBindingIndex == Maps!Spec
=============================================================================
