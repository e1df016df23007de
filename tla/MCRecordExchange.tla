---------------------------- MODULE MCRecordExchange ------------------------
(* Records for TLC over the path bytes "/", "a", ".": every short string as *)
(* a scope, and records whose paths reach and pass the limits; nodes with   *)
(* their children in any order; objects that begin or repeat one another,   *)
(* one that is empty, one too long and one that reads like numbers.         *)
EXTENDS RecordExchange

a == 97

Strings(lengths, bytes) == UNION {[1..n -> bytes] : n \in lengths}

MCName == {s \in Strings(1..NameMaxBytes, {a, Dot}) : ValidName(s)}

U == 201
Nil == 0
O == 301
V == 401
W == 402

Source(scope) == [source_id |-> U, scope_path |-> scope, commit_oid |-> O,
                  root_tree_oid |-> O]

Scopes == {<<Slash>>, <<Slash, a>>, <<Slash, a, a>>, <<Slash, a, Slash, a>>}

Descriptors(scopes) ==
    {[instance_uuid |-> u, namespace_view_id |-> V, scope |-> s,
      metadata_root |-> W] : u \in {U, Nil}, s \in scopes}

ViewsOf(scopes) ==
    {[instance_id |-> U, native |-> Source(s), bindings_root |-> V,
      overrides_root |-> o] : s \in scopes, o \in {<< >>, <<W>>}}

Bindings(mounts, scopes, subpaths) ==
    {[mount_path |-> m, source |-> Source(s), source_subpath |-> p, policy |-> x] :
       m \in mounts, s \in scopes, p \in subpaths, x \in {"mutable", "release"}}

(* Every string of up to six of the bytes as a scope, a path of a source    *)
(* and a way below one.                                                     *)
Texts(n) == Strings(0..n, {Slash, a, Dot, Nul})

D1 == 501
D2 == 502

Nodes == {Made(label, binding, list) :
            label \in {<< >>, <<a>>, <<a, 0>>, <<0, 1, a>>},
            binding \in Binding \cup {None},
            list \in SeqOf({<<0, D1>>, <<1, D1>>, <<a, D2>>}, 3)}

Contents == <<<< >>, <<7>>, <<7, 8>>, <<7, 7>>, <<1>>, <<7, 8, 7>>>>
MCSha    == [content \in ToSet(Contents) |->
                600 + CHOOSE k \in DOMAIN Contents : Contents[k] = content]

MCRecords ==
    "source" :> {Source(s) : s \in Texts(6)}
    @@ "binding" :> Bindings({<<Slash, a>>}, Scopes, Texts(4))
    @@ "view" :> ViewsOf(Scopes)
    @@ "descriptor" :> Descriptors(Texts(6))
    @@ "node" :> Nodes
    @@ "objects" :> SeqOf(ToSet(Contents), 3)

(* A few of each kind, to be damaged. *)
MCFragile ==
    "source" :> {[Source(<<Slash, a>>) EXCEPT !.commit_oid = O + 1]}
    @@ "binding" :> Bindings({<<Slash>>}, {<<Slash, a>>}, {<<a>>})
    @@ "view" :> ViewsOf({<<Slash>>})
    @@ "descriptor" :> Descriptors({<<Slash>>, <<Slash, a, Slash, a>>})
    @@ "node" :> {Made(<<a>>, D1, << >>), Made(<< >>, None, <<<<0, D1>>, <<1, D1>>>>),
                  Made(<<a, 0>>, D2, <<<<1, D1>>, <<a, D2>>>>)}
    @@ "objects" :> {<<<<7>>, << >>>>, <<<<7, 8>>, <<7>>>>, <<<<1>>, <<7, 7>>, <<7>>>>}

MCCells == {0, 1, 2, 3, 7, Slash, a, V, D1, 602}
=============================================================================
