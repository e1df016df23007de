------------------------------ MODULE Manifest ------------------------------
(***************************************************************************)
(* The records that name a namespace: SourceSnapshot, NamespaceBinding and *)
(* NamespaceView of src/src/namespace.rs and ServingDescriptor of          *)
(* src/src/descriptor.rs, with the validation of their fields.             *)
(*                                                                         *)
(* An encoding is a sequence of cells.  A byte of a path is a cell, and so *)
(* is whatever has a fixed width and no inner structure here: a domain or  *)
(* magic, a length, a constant, a UUID, an object id, a digest.            *)
(***************************************************************************)
EXTENDS RadixKey, SequencesExt

CONSTANTS NameMaxBytes,      \* bytes of a name, 255 in the code
          MaxComponents,     \* components of a scope, 256 in the code
          ManifestMaxCells,  \* MANIFEST_MAX_BYTES, in cells
          Uuid,              \* UUIDs other than nil
          Oid,               \* hexadecimal object ids of 40 digits
          Value              \* digests

ASSUME CellAssumption == Uuid \cup Oid \subseteq Nat \ {0} /\ Value \subseteq Nat

Dot == 46

SourceDomain  == 1001     \* SOURCE_DOMAIN, BINDING_DOMAIN, VIEW_DOMAIN, "MSD2"
BindingDomain == 1002
ViewDomain    == 1003
DescriptorMagic == 1004
Sha1          == 1005     \* the text "sha1"

-----------------------------------------------------------------------------
(* validate_name, on text that is UTF-8. *)
ValidName(s) ==
    /\ Len(s) \in 1..NameMaxBytes
    /\ \A k \in DOMAIN s : s[k] # Nul /\ s[k] # Slash
    /\ s # <<Dot>> /\ s # <<Dot, Dot>>

(* validate_relative_path. *)
ValidRelative(path) ==
    /\ Len(path) <= PathMaxBytes
    /\ path # << >> => Parts(path, Slash) \subseteq Name

(* validate_scope, written apart from the paths of the namespace. *)
Slashes(path)    == Cardinality({k \in DOMAIN path : path[k] = Slash})
FewSlashes(path) == Slashes(path) < MaxComponents       \* mutant of FewParts
FewParts(path)   == Slashes(path) <= MaxComponents

ValidScope(scope) ==
    /\ scope # << >> /\ scope[1] = Slash
    /\ Nul \notin ToSet(scope)
    /\ Len(scope) <= PathMaxBytes
    /\ Len(scope) > 1 => /\ Last(scope) # Slash /\ FewParts(scope)
                         /\ \A c \in Parts(Tail(scope), Slash) :
                              /\ c # << >> /\ c # <<Dot>> /\ c # <<Dot, Dot>>
                              /\ Len(c) <= NameMaxBytes

-----------------------------------------------------------------------------
(* The constructors accept.  The composed path of a binding is never put    *)
(* together; its length is added up.                                        *)
NewSource(r) == /\ r.source_id \in Uuid /\ ValidPath(r.scope_path)
                /\ r.commit_oid \in Oid /\ r.root_tree_oid \in Oid

ComposedNoSlash(scope, subpath) ==           \* mutant of ComposedLen
    IF subpath = << >> THEN Len(scope) ELSE Len(scope) + Len(subpath)
ComposedLen(scope, subpath) ==
    IF subpath = << >> THEN Len(scope)
    ELSE IF scope = <<Slash>> THEN 1 + Len(subpath)
    ELSE Len(scope) + 1 + Len(subpath)

NewBinding(r) ==
    /\ NewSource(r.source)
    /\ ValidPath(r.mount_path) /\ ValidRelative(r.source_subpath)
    /\ ComposedLen(r.source.scope_path, r.source_subpath) <= PathMaxBytes

NewView(r) == /\ NewSource(r.native)
              /\ r.instance_id \in Uuid /\ r.native.scope_path = <<Slash>>

NewDescriptor(r) == r.instance_uuid \in Uuid /\ ValidScope(r.scope)

-----------------------------------------------------------------------------
(* write_field, and the four encoders. *)
Field(cells) == <<Len(cells)>> \o cells

EncodeSource(r) ==
    <<SourceDomain>> \o Field(<<r.source_id>>) \o Field(r.scope_path)
        \o Field(<<Sha1>>) \o Field(<<r.commit_oid>>) \o Field(<<r.root_tree_oid>>)

EncodeBinding(r) ==
    <<BindingDomain>> \o Field(r.mount_path) \o Field(EncodeSource(r.source))
        \o Field(r.source_subpath) \o <<IF r.policy = "mutable" THEN 1 ELSE 2>>

EncodeView(r) ==          \* overrides_root is << >> for no root, else <<digest>>
    <<ViewDomain, 1>> \o Field(<<r.instance_id>>) \o Field(EncodeSource(r.native))
        \o <<r.bindings_root, Len(r.overrides_root)>> \o r.overrides_root \o <<1>>

EncodeDescriptor(r) ==
    <<DescriptorMagic, 2, 1, r.instance_uuid, r.namespace_view_id>>
        \o Field(r.scope) \o <<1, 1, 0, 0, r.metadata_root>>

-----------------------------------------------------------------------------
(* Input: what a sequence of take, field and byte calls makes of the cells  *)
(* behind the domain, one piece for each item.                              *)
TakeBelow(cells, at, n) ==        \* mutant of Take: never the last cell
    IF at + n - 1 < Len(cells) THEN <<SubSeq(cells, at, at + n - 1)>> ELSE << >>
Take(cells, at, n) ==
    IF at + n - 1 <= Len(cells) THEN <<SubSeq(cells, at, at + n - 1)>> ELSE << >>

(* "optional": the presence byte, then a digest if it is 1. *)
WidthOf(item, cells, at) ==
    IF at > Len(cells) THEN 1
    ELSE CASE item = "cell" -> 1
           [] item = "field" -> 1 + cells[at]
           [] item = "optional" -> IF cells[at] = 1 THEN 2 ELSE 1

Scan(cells, items) ==
    LET go[k \in 0..Len(items)] ==
            IF k = 0 THEN [ok |-> TRUE, at |-> 2, pieces |-> << >>]
            ELSE LET before == go[k - 1]
                     width  == WidthOf(items[k], cells, before.at)
                     piece  == Take(cells, before.at, width)
                 IN  IF ~before.ok \/ piece = << >>
                     THEN [ok |-> FALSE, at |-> before.at, pieces |-> << >>]
                     ELSE [ok |-> TRUE, at |-> before.at + width,
                           pieces |-> Append(before.pieces,
                               IF items[k] = "cell" THEN piece[1]
                               ELSE Tail(piece[1]))]
    IN  go[Len(items)]

AnyTail(scan, cells)  == scan.ok              \* mutant of Finished
Finished(scan, cells)   == scan.ok /\ scan.at = Len(cells) + 1

Opens(cells, domain) ==
    cells # << >> /\ cells[1] = domain /\ Len(cells) <= ManifestMaxCells

Refused == << >>          \* a decoder's error; Some(x) is <<x>>

(* A text that is to hold one UUID, object id or format. *)
One(piece) == IF Len(piece) = 1 THEN piece[1] ELSE 0

(* SourceSnapshot::decode. *)
DecodeSource(cells) ==
    LET scan == Scan(cells, <<"field", "field", "field", "field", "field">>)
        p    == scan.pieces
        r    == [source_id |-> One(p[1]), scope_path |-> p[2],
                 commit_oid |-> One(p[4]), root_tree_oid |-> One(p[5])]
    IN  IF /\ Opens(cells, SourceDomain) /\ Finished(scan, cells)
           /\ p[3] = <<Sha1>> /\ NewSource(r)
        THEN <<r>> ELSE Refused

(* NamespaceBinding::decode. *)
DecodeBinding(cells) ==
    LET scan   == Scan(cells, <<"field", "field", "field", "cell">>)
        p      == scan.pieces
        source == DecodeSource(p[2])
        r      == [mount_path |-> p[1], source |-> source[1],
                   source_subpath |-> p[3],
                   policy |-> IF p[4] = <<1>> THEN "mutable" ELSE "release"]
    IN  IF /\ Opens(cells, BindingDomain) /\ Finished(scan, cells)
           /\ source # Refused /\ p[4][1] \in {1, 2} /\ NewBinding(r)
        THEN <<r>> ELSE Refused

(* NamespaceView::decode.  Behind a presence of neither 0 nor 1 it refuses. *)
DecodeView(cells) ==
    LET scan   == Scan(cells, <<"cell", "field", "field", "cell", "optional", "cell">>)
        p      == scan.pieces
        native == DecodeSource(p[3])
        flag   == cells[scan.at - 2 - Len(p[5])]
        r      == [instance_id |-> One(p[2]), native |-> native[1],
                   bindings_root |-> p[4][1], overrides_root |-> p[5]]
    IN  IF /\ Opens(cells, ViewDomain) /\ Finished(scan, cells)
           /\ p[1] = <<1>> /\ native # Refused /\ flag \in {0, 1} /\ p[6] = <<1>>
           /\ NewView(r)
        THEN <<r>> ELSE Refused

(* ServingDescriptor::decode: fixed places, and the length must be exact.   *)
DecodeDescriptor(cells) ==
    LET n     == cells[6]
        scope == SubSeq(cells, 7, 6 + n)
        r     == [instance_uuid |-> cells[4], namespace_view_id |-> cells[5],
                  scope |-> scope, metadata_root |-> Last(cells)]
    IN  IF /\ Len(cells) >= 11 /\ SubSeq(cells, 1, 3) = <<DescriptorMagic, 2, 1>>
           /\ Len(cells) = 11 + n
           /\ SubSeq(cells, 7 + n, 10 + n) = <<1, 1, 0, 0>>
           /\ NewDescriptor(r)
        THEN <<r>> ELSE Refused
=============================================================================
