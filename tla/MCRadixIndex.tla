---------------------------- MODULE MCRadixIndex ----------------------------
(* Instances of RadixIndex for TLC. *)
EXTENDS RadixTries

CONSTANTS x, y   \* two bindings

a == 97
b == 98

PathRoot == <<Slash>>
PathA    == <<Slash, a>>
PathAB   == <<Slash, a, b>>            \* a sibling whose name extends PathA's
PathA_B  == <<Slash, a, Slash, b>>     \* a component below PathA
PathB    == <<Slash, b>>
PathE1   == <<Slash, 195, 169>>        \* e-acute and e-grave share their
PathE2   == <<Slash, 195, 168>>        \* first byte, which is no name
BadPath  == <<Slash, Slash, a>>        \* an empty component

MCName == {<<a>>, <<b>>, <<a, b>>, <<195, 169>>, <<195, 168>>}

-----------------------------------------------------------------------------
(* Every map over these paths, every call on it. *)
OpsPaths   == {PathRoot, PathA, PathAB, PathA_B, PathE1, PathE2}
OpsPath    == OpsPaths \cup {BadPath}
OpsOpening == {StoreOf(m) : m \in KeyMaps(OpsPaths)}

(* From nothing: sequences of calls, orphans collected or not. *)
EmptyOpening == {[stored |-> {}, missing |-> {}, corrupt |-> {}, roots |-> {}]}
SeqPath      == {PathRoot, PathA, PathAB, PathA_B}

(* Every map over a few paths, with faults. *)
SeqOpening == {StoreOf(m) : m \in KeyMaps(SeqPath)}

RefPaths   == {PathA, PathAB, PathA_B}
RefPath    == RefPaths \cup {BadPath}
RefOpening == {StoreOf(m) : m \in KeyMaps(RefPaths)}
=============================================================================
