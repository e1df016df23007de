--------------------------- MODULE RecordExchange ---------------------------
(***************************************************************************)
(* A record is put together, encoded, stored or sent, and read back,       *)
(* perhaps as a record of another kind and perhaps not as it was written.  *)
(* What keeps and carries the bytes is outside this repository.            *)
(***************************************************************************)
EXTENDS Manifest, RadixRow, ObjectTable

CONSTANTS Records,      \* what callers put together: kind :> records of it
          Fragile,      \* bound: the records whose bytes are damaged, by kind
          Cells,        \* what a cell may be overwritten with
          MaxDamages    \* bound: damages of one record

(* What the fields of the records hold; a text of one UUID, object id or    *)
(* digest is a cell.                                                        *)
Sources == [source_id : Nat, scope_path : Seq(Byte),
            commit_oid : Nat, root_tree_oid : Nat]
Views   == [instance_id : Nat, native : Sources, bindings_root : Nat,
            overrides_root : {s \in Seq(Nat) : Len(s) <= 1}]
Mounts  == [mount_path : Seq(Byte), source : Sources, source_subpath : Seq(Byte),
            policy : {"mutable", "release"}]
Serving == [instance_uuid : Nat, namespace_view_id : Nat, scope : Seq(Byte),
            metadata_root : Nat]
Lists   == [label : Seq(Byte), binding : Binding \cup {None},
            list : Seq(Byte \X Binding)]

ASSUME RecordsAssumption ==
    /\ Cells \subseteq Nat /\ Binding \subseteq Nat /\ None \notin Nat
    /\ Sha \in [DOMAIN Sha -> Nat] /\ DOMAIN Sha \subseteq Seq(Nat)
    /\ Records["source"] \subseteq Sources /\ Records["view"] \subseteq Views
    /\ Records["binding"] \subseteq Mounts /\ Records["descriptor"] \subseteq Serving
    /\ Records["node"] \subseteq Lists /\ Records["objects"] \subseteq Seq(DOMAIN Sha)

(* Name holds those parts of the scopes that validate_name accepts.         *)
ASSUME ScopesAssumption ==
    /\ MaxComponents \in Nat /\ NameMaxBytes \in Nat
    /\ \A r \in Records["descriptor"] :
         Len(r.scope) > 1 =>
             \A c \in Parts(Tail(r.scope), Slash) : c \in Name <=> ValidName(c)

(* No domain reads like a count of objects, and a manifest has room for the *)
(* three paths a binding holds (in bytes: ManifestFits of RecordProofs).    *)
ASSUME ManifestAssumption ==
    /\ ObjectCountMax \in 0..SourceDomain - 1
    /\ ManifestMaxCells \in Nat /\ 3 * PathMaxBytes + 20 <= ManifestMaxCells

Kinds == {"source", "binding", "view", "descriptor", "node", "objects"}

VARIABLES pc,        \* "new", "kept", "read" or "refused"
          kind, record,
          cells,     \* the bytes as they are now
          damages,
          readAs, result

vars == <<pc, kind, record, cells, damages, readAs, result>>

New(k, r) == CASE k = "source"     -> NewSource(r)
               [] k = "binding"    -> NewBinding(r)
               [] k = "view"       -> NewView(r)
               [] k = "descriptor" -> NewDescriptor(r)
               [] k = "node"       -> Accepts(r)
               [] k = "objects"    -> ObjectsOk(r)

Encode(k, r) == CASE k = "source"     -> EncodeSource(r)
                  [] k = "binding"    -> EncodeBinding(r)
                  [] k = "view"       -> EncodeView(r)
                  [] k = "descriptor" -> EncodeDescriptor(r)
                  [] k = "node"       -> RowOf(r)
                  [] k = "objects"    -> EncodeObjects(r)

Decode(k, c) == CASE k = "source"     -> DecodeSource(c)
                  [] k = "binding"    -> DecodeBinding(c)
                  [] k = "view"       -> DecodeView(c)
                  [] k = "descriptor" -> DecodeDescriptor(c)
                  [] k = "node"       -> DecodeRow(c)
                  [] k = "objects"    -> DecodeObjects(c)

-----------------------------------------------------------------------------
Init ==
    /\ kind \in Kinds /\ record \in Records[kind]
    /\ pc = "new" /\ cells = << >> /\ damages = 0
    /\ readAs = "none" /\ result = Refused

Write ==            \* the constructor, then encode
    /\ pc = "new"
    /\ IF New(kind, record)
       THEN pc' = "kept" /\ cells' = Encode(kind, record)
       ELSE pc' = "refused" /\ UNCHANGED cells
    /\ UNCHANGED <<kind, record, damages, readAs, result>>

Damage ==           \* a cell overwritten, dropped or put in, or the end cut off
    /\ pc = "kept" /\ damages < MaxDamages /\ record \in Fragile[kind]
    /\ \/ \E at \in DOMAIN cells, c \in Cells : cells' = [cells EXCEPT ![at] = c]
       \/ \E at \in DOMAIN cells : cells' = RemoveAt(cells, at)
       \/ \E at \in 1..Len(cells) + 1, c \in Cells : cells' = InsertAt(cells, at, c)
       \/ \E n \in 0..Len(cells) - 1 : cells' = SubSeq(cells, 1, n)
    /\ damages' = damages + 1
    /\ UNCHANGED <<pc, kind, record, readAs, result>>

Read ==
    /\ pc = "kept" /\ pc' = "read"
    /\ \E k \in Kinds : readAs' = k /\ result' = Decode(k, cells)
    /\ UNCHANGED <<kind, record, cells, damages>>

Next == Write \/ Damage \/ Read

Spec == Init /\ [][Next]_vars

-----------------------------------------------------------------------------
(* "One byte string per value" (README.md:117): whatever bytes a decoder    *)
(* accepts are the encoding of what it returns, so that no two byte strings *)
(* and no two identities stand for one record.                              *)
CanonicalRecord == result # Refused => Encode(readAs, result[1]) = cells

(* Every field is in the bytes and comes back from them, and the bytes of   *)
(* one kind of record are never read as another kind.  Only objects that    *)
(* repeat are written and not read back, see "frame_twice" in the README.   *)
WrittenIsRead ==
    pc = "read" /\ damages = 0 =>
        result = IF readAs = kind /\ (kind = "objects" => IsInjective(record))
                 THEN <<record>> ELSE Refused

(* One row per node: what a row is read as is a node, and no other list of  *)
(* children that new accepts stands for the same one.  The identities of    *)
(* RadixNode rest on this.                                                  *)
NodeHasOneRow ==
    readAs = "node" /\ result # Refused =>
        /\ IsNode(AsNode(result[1]))
        /\ \A m \in Records["node"] :
             Accepts(m) /\ AsNode(m) = AsNode(result[1]) => m = result[1]

(* "OBJECT offsets must concatenate exactly (no holes or overlaps)": every  *)
(* cell of the data area is in one of the objects returned, and none is     *)
(* returned twice, whatever the peer wrote into the table.                  *)
TableIsExact ==
    readAs = "objects" /\ result # Refused =>
        FlattenSeq(result[1]) = Data(cells) /\ IsInjective(result[1])

(* A binding is accepted exactly if the source path it leads to, which      *)
(* nothing in the code ever puts together, is a path of the namespace.      *)
Compose(scope, subpath) ==
    IF subpath = << >> THEN scope
    ELSE IF scope = <<Slash>> THEN scope \o subpath
    ELSE scope \o <<Slash>> \o subpath

PartsAccepted(r) ==
    NewSource(r.source) /\ ValidPath(r.mount_path) /\ ValidRelative(r.source_subpath)

ComposedIsPath ==
    kind = "binding" /\ pc # "new" /\ PartsAccepted(record) =>
        (pc # "refused" <=>
            ValidPath(Compose(record.source.scope_path, record.source_subpath)))

(* A scope is accepted exactly if it is a path of the namespace of at most  *)
(* 256 components: "MST/2 endpoints must separately enforce their           *)
(* 256-component profile" (radix.rs:139-140), and nothing else differs.     *)
Components(path) == IF Len(path) = 1 THEN 0 ELSE Slashes(path)

ScopeIsPath ==
    kind = "descriptor" /\ pc # "new" /\ record.instance_uuid \in Uuid =>
        (pc # "refused" <=> /\ ValidPath(record.scope)
                            /\ Components(record.scope) <= MaxComponents)
=============================================================================
