---------------------------- MODULE MCZstdFrame ----------------------------
(* Payloads for TLC: every sequence of up to four parts that make up to     *)
(* four bytes behind a header without a content size, shorter ones behind   *)
(* headers with one, and one frame behind every header there is.            *)
EXTENDS ZstdFrame

Kinds == {[last |-> FALSE, bad |-> FALSE], [last |-> TRUE, bad |-> FALSE],
          [last |-> FALSE, bad |-> TRUE]}

Bodies(lengths) ==
    UNION {{[k \in 1..n |-> [upto |-> made[k], last |-> kind[k].last,
                             bad |-> kind[k].bad]] :
              made \in {m \in [1..n -> 0..4] : \A k \in 2..n : m[k - 1] <= m[k]},
              kind \in [1..n -> Kinds]} : n \in lengths}

(* Sizes as an encoder stores them: a two-byte size leaves out the bias. *)
Sizes == {[width |-> w, stored |-> n] : w \in {1, 8}, n \in 0..4}
         \cup {[width |-> 2, stored |-> n] : n \in 0..2}

Plain == [cut |-> FALSE, reserved |-> FALSE, single |-> FALSE, window |-> 8,
          dictionary |-> 0, size |-> << >>]
Sized == {[Plain EXCEPT !.size = s] : s \in Sizes}
Odd   == {h \in [cut : BOOLEAN, reserved : BOOLEAN, single : BOOLEAN,
                 window : {8, 9}, dictionary : {0, 7},
                 size : {<< >>} \cup Sizes] : h.single => h.size # << >>}

With(headers, bodies) ==
    {[magic |-> TRUE, header |-> h, parts |-> b] : h \in headers, b \in bodies}

Whole == <<[upto |-> 3, last |-> TRUE, bad |-> FALSE]>>

MCWires == With({Plain}, Bodies(0..4)) \cup With(Sized, Bodies(0..2))
           \cup With(Odd, {Whole})
           \cup {[magic |-> FALSE, header |-> Plain, parts |-> Whole]}
=============================================================================
