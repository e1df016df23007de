------------------------------- MODULE Layout -------------------------------
(***************************************************************************)
(* How many bytes the encodings of src/src/namespace.rs, descriptor.rs and *)
(* namespace/radix.rs take.  None of the encoders looks: each relies on    *)
(* what its constructor let through, and the decoders refuse what is       *)
(* longer than a fixed limit.                                              *)
(***************************************************************************)
EXTENDS Manifest, RadixNode

ManifestMaxBytes == 16384      \* MANIFEST_MAX_BYTES
NodeMaxBytes     == 16384      \* NODE_MAX_BYTES

LengthRange      == 65536      \* 2^16: the u16 a scope's length is cast to

FieldBytes(n) == 4 + n         \* write_field: a u32 in front

SourceBytes(r) ==
    24 + FieldBytes(36) + FieldBytes(Len(r.scope_path))
       + FieldBytes(4) + FieldBytes(40) + FieldBytes(40)

BindingBytes(r) ==
    26 + FieldBytes(Len(r.mount_path)) + FieldBytes(SourceBytes(r.source))
       + FieldBytes(Len(r.source_subpath)) + 1

ViewBytes(r) ==
    23 + 2 + FieldBytes(36) + FieldBytes(SourceBytes(r.native))
       + 32 + 1 + 32 * Len(r.overrides_root) + 1

NodeBytes(n) ==
    24 + 2 + Len(n.label) + 1 + (IF n.binding = None THEN 0 ELSE 32)
       + 2 + 33 * Cardinality(Edges(n))
=============================================================================
