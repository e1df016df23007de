------------------------------ MODULE RadixKey ------------------------------
(***************************************************************************)
(* The value-key codec of the namespace radix index: encode_key and        *)
(* decode_key of src/src/namespace/radix.rs, with the path validation of   *)
(* src/src/namespace.rs they rest on.                                      *)
(*                                                                         *)
(* A path is the byte string the caller passes ("/", "/x/lib", ...), a key *)
(* is what the trie is built from: the leading slash is dropped, every     *)
(* other slash becomes NUL and a NUL closes the key, so that a key that is *)
(* a prefix of another one ends on a component boundary.  What makes one   *)
(* component acceptable (1..255 bytes of UTF-8, no NUL, no slash, not "."  *)
(* or "..") is abstracted to membership in the constant Name.              *)
(***************************************************************************)
EXTENDS Integers, Sequences

CONSTANTS Name,           \* the component names validate_name accepts
          PathMaxBytes    \* PATH_MAX_BYTES, 4096 in the code

Byte  == 0..255
Slash == 47
Nul   == 0

ASSUME NameAssumption ==
    Name \subseteq {s \in Seq(Byte \ {Slash, Nul}) : Len(s) \in 1..255}

ASSUME PathMaxAssumption == PathMaxBytes \in Nat \ {0}

-----------------------------------------------------------------------------
(* The parts of s between occurrences of the byte sep, empty parts included. *)
Parts(s, sep) ==
    {SubSeq(s, r[1], r[2]) : r \in
        {r \in (1..Len(s)+1) \X (0..Len(s)) :
            /\ r[2] >= r[1] - 1
            /\ r[1] = 1 \/ s[r[1] - 1] = sep
            /\ r[2] = Len(s) \/ s[r[2] + 1] = sep
            /\ \A k \in r[1]..r[2] : s[k] # sep}}

(* validate_absolute_path: a leading slash, then nothing or valid names. *)
ValidPath(path) ==
    /\ Len(path) \in 1..PathMaxBytes
    /\ path[1] = Slash
    /\ Len(path) > 1 => Parts(Tail(path), Slash) \subseteq Name

(* encode_key on a path that passed validation: path[k+1] lands at k, and   *)
(* the pushed NUL takes the last place.                                     *)
EncodeKey(path) ==
    IF Len(path) = 1
    THEN << >>
    ELSE [k \in 1..Len(path) |->
            IF k = Len(path) \/ path[k + 1] = Slash THEN Nul ELSE path[k + 1]]

(* The path decode_key builds back: a slash, then the key without its NUL. *)
KeyPath(key) ==
    IF key = << >>
    THEN <<Slash>>
    ELSE [k \in 1..Len(key) |->
            IF k = 1 \/ key[k - 1] = Nul THEN Slash ELSE key[k - 1]]

(* decode_key succeeds. *)
DecodesToPath(key) ==
    /\ Len(key) <= PathMaxBytes
    /\ key # << >> =>
         /\ key[Len(key)] = Nul
         /\ \A k \in 1..Len(key) : key[k] # Slash
         /\ ValidPath(KeyPath(key))
         /\ EncodeKey(KeyPath(key)) = key
=============================================================================
