---------------------------- MODULE BindingIndex ----------------------------
(***************************************************************************)
(* What the namespace binding index promises, without tries, nodes or      *)
(* store calls (the module documentation and NodeStore contract of         *)
(* src/src/namespace/radix/index.rs, and the oracle of its tests): a root  *)
(* stands for a finite map from paths to bindings; get and longest_prefix  *)
(* answer from that map; update yields the map with one path set or        *)
(* cleared and leaves the map it started from as it was.  A call takes     *)
(* effect at once or is refused with an error; there is no other wrong     *)
(* answer.                                                                 *)
(*                                                                         *)
(* A path is the string the caller passes, "/x/lib".                       *)
(***************************************************************************)
EXTENDS Integers, Sequences

CONSTANTS Paths,      \* the strings callers pass as a path
          Slash,      \* the byte between the components of a path
          Bindings,
          None,
          IsPath(_)   \* the paths the index accepts

VARIABLES held,       \* the maps the caller holds a root of
          request,    \* the call in progress, or None
          reply       \* its answer, or None

vars == <<held, request, reply>>

EmptyMap == [p \in {} |-> None]
IsMap(m) == /\ DOMAIN m \subseteq Paths
            /\ \A p \in DOMAIN m : m[p] \in Bindings

Lookup(m, path) == IF path \in DOMAIN m THEN m[path] ELSE None

(* The path itself, the root, or a path that ends where a component does. *)
AtOrAbove(p, path) ==
    \/ p = path
    \/ p = <<Slash>>
    \/ /\ Len(p) < Len(path) /\ path[Len(p) + 1] = Slash
       /\ p = SubSeq(path, 1, Len(p))

Ancestors(m, path) == {p \in DOMAIN m : AtOrAbove(p, path)}

LongestPrefix(m, path) ==
    IF Ancestors(m, path) = {} THEN None
    ELSE LET p == CHOOSE p \in Ancestors(m, path) :
                     \A q \in Ancestors(m, path) : Len(q) <= Len(p)
         IN  [path |-> p, binding |-> m[p]]

Put(m, path, binding) ==
    IF binding = None
    THEN [p \in DOMAIN m \ {path} |-> m[p]]
    ELSE [p \in DOMAIN m \cup {path} |-> IF p = path THEN binding ELSE m[p]]

Answer(r) ==
    IF r.kind = "get" THEN Lookup(r.map, r.path)
    ELSE IF r.kind = "longest_prefix" THEN LongestPrefix(r.map, r.path)
    ELSE Put(r.map, r.path, r.binding)

Refused == [ok |-> FALSE, value |-> None]

-----------------------------------------------------------------------------
Init == /\ \A m \in held : IsMap(m)
        /\ request = None /\ reply = None

Requests == [kind : {"update", "get", "longest_prefix"},
             map : held \cup {EmptyMap}, path : Paths,
             binding : Bindings \cup {None}]

Ask == /\ request = None
       /\ request' \in Requests
       /\ \/ IsPath(request'.path) /\ reply' = None
          \/ ~IsPath(request'.path) /\ reply' = Refused
       /\ UNCHANGED held

Serve == /\ request # None /\ reply = None
         /\ reply' = [ok |-> TRUE, value |-> Answer(request)]
         /\ UNCHANGED <<held, request>>

Refuse == /\ request # None /\ reply = None
          /\ reply' = Refused
          /\ UNCHANGED <<held, request>>

Take == /\ reply # None
        /\ held' = IF request.kind = "update" /\ reply.ok
                   THEN held \cup {reply.value} ELSE held
        /\ request' = None /\ reply' = None

Drop == /\ request = None
        /\ \E m \in held : held' = held \ {m}
        /\ UNCHANGED <<request, reply>>

Next == Ask \/ Serve \/ Refuse \/ Take \/ Drop

Spec == Init /\ [][Next]_vars
=============================================================================
