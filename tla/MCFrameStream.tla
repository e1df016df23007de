---------------------------- MODULE MCFrameStream ---------------------------
(* Instances of FrameStream for TLC. *)
EXTENDS FrameStream

Item(id, len) == [id |-> id, digest |-> id, len |-> len]
Payload(kind, items) == [kind |-> kind, items |-> items]

(* Items of the given sizes, told apart by number. *)
Many(kind, lens) == Payload(kind, [n \in DOMAIN lens |-> Item(n, lens[n])])
Times(count, len) == [n \in 1..count |-> len]

End   == Many("END", <<48>>)
Error == Many("ERROR", <<4096>>)

(* Two responses whose frames get mixed, in whatever order: one payload of  *)
(* each role.                                                               *)
Page         == Many("META", <<100>>)
OrderTraffic == {3, 4} \X {Page, End, Error} \X {FALSE}

(* Payloads at every limit an encoder or a decoder has, and one beyond it;  *)
(* every other way a payload can be refused.  A response of each line;      *)
(* those of a large page, object and chunk are compressed in parts as well. *)
Both(kind, upto, beyond) == {Many(kind, upto), Many(kind, beyond)}

Limits == <<
    Both("META", <<16384, 100>>, <<16385, 100>>),            \* a page
    Both("META", Times(63, 16384) \o <<14076>>,              \* 64 pages, 1 MiB
                 Times(63, 16384) \o <<14077>>),
    Both("META", Times(64, 100), Times(65, 100)),            \* pages
    Both("OBJECT", <<262144, 1>>, <<262145, 1>>),            \* an object
    Both("OBJECT", Times(3, 262144) \o <<261980>>,           \* 1 MiB
                   Times(3, 262144) \o <<261981>>),
    Both("OBJECT", Times(128, 8), Times(129, 8)),            \* objects
    Both("CHUNK", <<1048576>>, <<1048577>>),
    Both("ERROR", <<4096>>, <<4097>>),
    {Payload(kind, <<Item(1, 100), Item(1, 100)>>) : kind \in {"META", "OBJECT"}},
    {Many(kind, << >>) : kind \in {"META", "OBJECT"}} \cup
    {Payload(kind, <<[Item(1, 100) EXCEPT !.digest = 2]>>) :  \* not its name
        kind \in {"META", "OBJECT"}} >>

LimitStream(k) == k + 4
Compressing    == {1, 4, 7}
LimitTraffic   ==
    UNION {{LimitStream(k)} \X (Limits[k] \cup {End}) \X {FALSE, (k \in Compressing)} :
              k \in DOMAIN Limits}

(* A response on stream 0.  No other stream has the number of a frame. *)
ZeroTraffic == {0} \X {Page, End} \X {FALSE}

MCStreams  == {0} \cup 3..LimitStream(Len(Limits))
MCPayloads == {Page, End, Error} \cup UNION {Limits[k] : k \in DOMAIN Limits}
MCTraffic  == OrderTraffic \cup LimitTraffic \cup ZeroTraffic
MCMeet     == {{3, 4}} \cup {{s} : s \in MCStreams \ {3, 4}}

(* The same page twice, and a page beyond 16 KiB, which encode lets through.*)
Twice        == {Payload("META", <<Item(1, 100), Item(1, 100)>>), End}
Oversize     == {Many("META", <<16385>>), End}
GapPayloads  == Twice \cup Oversize
GapTraffic   == ({1} \X Twice \X {FALSE}) \cup ({2} \X Oversize \X {FALSE})
GapMeet      == {{1}, {2}}
=============================================================================
