---------------------------- MODULE MCPageFetch -----------------------------
(* Instances of PageFetch for TLC. *)
EXTENDS PageFetch

A == <<97>>           AB == <<97, 98>>
ABC == <<97, 98, 99>> ABD == <<97, 98, 100>>
B == <<98>>
E1 == <<195, 169>>    E2 == <<195, 170>>   \* two characters that share a byte

MCName == {A, AB, ABC, ABD, B, E1, E2}

File(n) == [name |-> n, dir |-> FALSE, content |-> "c"]
Dir(n)  == [name |-> n, dir |-> TRUE, content |-> "c"]

NameOrder == <<A, AB, ABC, ABD, B, E1, E2>>

(* Every directory over the names: the nested ones are files, directories   *)
(* or absent, the others files or absent.                                   *)
MCDirectories ==
    {SelectSeq([k \in 1..7 |-> CASE f[k] = "file" -> File(NameOrder[k])
                                 [] f[k] = "dir"  -> Dir(NameOrder[k])
                                 [] f[k] = "none" -> Dir(<< >>)],
               LAMBDA e : e.name # << >>)
        : f \in {f \in [1..7 -> {"file", "dir", "none"}] :
                    \A k \in 5..7 : f[k] # "dir"}}

(* What may come back instead of a page. *)
MCOthers == {Encoded(Leaf(<<File(AB), File(ABC)>>))}

(* Trees put together from parts that fit and parts that do not: names that *)
(* are out of order, repeated, invalid or under the wrong label, prefixes   *)
(* that jump, counts that are off, zero or add up to more than a u64.       *)
Wrapped(body) == [total |-> TotalEntries(body) % 2^Width, body |-> body]

Leaves == {Wrapped(Leaf(entries)) : entries \in
              {<< >>, <<File(A)>>, <<File(AB)>>, <<File(AB), File(ABC)>>,
               <<File(ABC)>>, <<File(ABC), File(AB)>>, <<File(E1)>>,
               <<[Dir(AB) EXCEPT !.content = Zero]>>}}
          \cup {[total |-> 2, body |-> Leaf(<<File(AB)>>)]}

Under == {Wrapped(Branch(prefix, terminal,
                         <<Child(99, count, PageId(Wrapped(Leaf(<<File(ABC)>>)))),
                           Child(100, 1, PageId(Wrapped(Leaf(<<File(ABD)>>))))>>)) :
             prefix \in {A, AB, ABC}, terminal \in {<< >>, <<File(AB)>>},
             count \in {1, 2}}

MCRoots ==
    {Wrapped(Branch(prefix, terminal, <<Child(97, m, PageId(p)),
                                        Child(label, n, PageId(q))>>)) :
        prefix \in {<< >>, A}, terminal \in {<< >>, <<File(A)>>},
        label \in {97, 195}, m \in {1, 2}, n \in {0, 1, 3, 15},
        p, q \in Leaves \cup Under}
=============================================================================
