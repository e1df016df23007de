------------------------------ MODULE PageFetch -----------------------------
(***************************************************************************)
(* A client that fetches the pages of one directory and checks each of     *)
(* them against its parent (verify_received_child of src/src/metapage.rs). *)
(*                                                                         *)
(* The client knows the identity of the root page from a serving           *)
(* descriptor.  It asks for pages in any order; a route is the sequence of *)
(* labels that leads to a page.  What comes back is what the server's      *)
(* pages_along_route ends with, the answer to an earlier request or any    *)
(* other page.  The loop that asks is code of the client, outside this     *)
(* repository; the functions it calls are not.                             *)
(*                                                                         *)
(* Two kinds of publishers: one that builds a directory with Page::build,  *)
(* and one that commits to a tree put together in another way, of which    *)
(* the client can only see one edge at a time.                             *)
(***************************************************************************)
EXTENDS MetaPage

CONSTANTS Directories,   \* what an honest publisher builds: sequences of entries
          Roots,         \* what another publisher commits to: root pages
          Pool           \* pages that may come back instead of the right one

ASSUME DirectoriesAssumption ==
    Directories \subseteq {entries \in Seq(Entry) :
                             BuildInput(entries) /\ Len(entries) <= MaxTotalEntries}

VARIABLES dir,      \* <<entries>> of an honest publisher, or << >>
          rootId,   \* the page_id the client knows
          held,     \* the verified pages, by route
          answer    \* the last response: what was asked, came back, and the verdict

vars == <<dir, rootId, held, answer>>

NoAnswer == [route |-> << >>, page |-> Failed, ok |-> TRUE]

-----------------------------------------------------------------------------
Init ==
    /\ \/ \E entries \in Directories :
            dir = <<entries>> /\ rootId = PageId(Build[entries])
       \/ \E root \in Roots : dir = << >> /\ rootId = PageId(root)
    /\ held = << >> /\ answer = NoAnswer

(* The page a publisher has for a route: what pages_along_route ends with, or *)
(* what the other publisher committed to.                                     *)
Served(route) ==
    LET pages == PagesAlongRoute(dir[1], route) IN
    IF dir # << >> THEN IF pages = << >> THEN {} ELSE {Last(pages)}
    ELSE IF route = << >> THEN {rootId.page}
    ELSE {child.id.page : child \in ChildAt(held[Front(route)], Last(route))}

With(pages, route, page) ==
    [r \in DOMAIN pages \cup {route} |-> IF r = route THEN page ELSE pages[r]]

Take(route, page, ok) ==
    /\ answer' = [route |-> route, page |-> page, ok |-> ok]
    /\ held' = IF ok THEN With(held, route, page) ELSE held
    /\ UNCHANGED <<dir, rootId>>

FetchRoot ==        \* the root is checked against the identity alone
    /\ << >> \notin DOMAIN held
    /\ \E page \in Served(<< >>) \cup Pool :
         Take(<< >>, page, PageId(page) = rootId /\ DecodeOk(page))

ChildLabels(page) ==
    IF page.body.kind = "branch"
    THEN {c.label : c \in ToSet(page.body.children)} ELSE {}

FetchChild ==
    \E parent \in DOMAIN held :
      \E label \in ChildLabels(held[parent]) :
        LET route == Append(parent, label) IN
        /\ route \notin DOMAIN held
        /\ \E page \in Served(route) \cup Pool \cup {held[r] : r \in DOMAIN held} :
             Take(route, page, VerifyReceivedChild(held[parent], label, page))

Next == FetchRoot \/ FetchChild

Spec == Init /\ [][Next]_vars

-----------------------------------------------------------------------------
EntriesOn(page) ==
    IF page.body.kind = "leaf" THEN ToSet(page.body.entries)
    ELSE ToSet(page.body.terminal)

Listed   == UNION {EntriesOn(held[r]) : r \in DOMAIN held}
Complete == /\ << >> \in DOMAIN held
            /\ \A r \in DOMAIN held : \A label \in ChildLabels(held[r]) :
                 Append(r, label) \in DOMAIN held

(* Every directory whose entries are valid has a tree: build falls through  *)
(* to a branch when the leaf is too long for a page or too many for one,    *)
(* and what it returns is a page a decoder accepts, with the directory's    *)
(* size in its header ("would make legal directories unbuildable").         *)
LegalDirectoriesBuild ==
    dir # << >> =>
        LET page == Build[dir[1]]
        IN  page # Failed /\ DecodeOk(page) /\ page.total = Len(dir[1])

(* A page that is accepted is the one the server sends for its route, and   *)
(* the server has a page below it for its labels and for no other:          *)
(* pages_along_route repartitions the entries on its own, and must cut them *)
(* where build and the client's checks do.                                  *)
AllLabels == UNION {ToSet(n) : n \in Name}

HeldIsServed ==
    dir # << >> =>
        \A r \in DOMAIN held :
            /\ PagesAlongRoute(dir[1], r) =
                   [k \in 1..Len(r) + 1 |-> held[SubSeq(r, 1, k - 1)]]
            /\ \A label \in AllLabels :
                  (PagesAlongRoute(dir[1], Append(r, label)) # << >>)
                      <=> label \in ChildLabels(held[r])

(* The page the server sends is never refused. *)
HonestNeverRefused ==
    dir # << >> /\ answer.page # Failed /\ answer.page \in Served(answer.route) => answer.ok

(* Checking one edge at a time is enough for the whole tree, whoever put it *)
(* together: no name is on two of the pages held, and the names of a        *)
(* complete tree are as many as its root says.                              *)
NamesOn(page) == {e.name : e \in EntriesOn(page)}

OnePlace ==
    \A r, s \in DOMAIN held : r # s => NamesOn(held[r]) \cap NamesOn(held[s]) = {}

CountsAddUp ==
    Complete => Cardinality({e.name : e \in Listed}) = held[<< >>].total

(* A page that decodes, encodes to the same page ("encoding a decoded page  *)
(* is byte-identical to the input"), and a page that encodes decodes.       *)
PagesRoundTrip ==
    answer.page # Failed =>
        LET page == answer.page IN
        /\ DecodeOk(page) => EncodeOk(page.body) /\ Encoded(page.body) = page
        /\ EncodeOk(page.body) => DecodeOk(Encoded(page.body))

(* What the fetched pages are for: the abstract listing of a directory that *)
(* an honest publisher built.                                               *)
Listing == INSTANCE DirectoryListing WITH
               entries <- IF dir = << >> THEN {} ELSE ToSet(dir[1]),
               listed <- IF dir = << >> THEN {} ELSE Listed,
               done <- dir # << >> /\ Complete
ImplementsListing == Listing!Spec
=============================================================================
