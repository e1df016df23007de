------------------------------ MODULE MetaPage ------------------------------
(***************************************************************************)
(* Directory pages of src/src/metapage.rs: what an encoder lets out, what  *)
(* a decoder lets in, the canonical tree over a directory (build), the     *)
(* pages a server sends along a route (pages_along_route) and the check of *)
(* a page that arrived (verify_received_child).                            *)
(*                                                                         *)
(* Names are byte strings, as they decide the shape of the tree.  A page   *)
(* on the wire is its body and the total_entries of its header; kinds,     *)
(* sizes and digests of files are one value, the content.  SHA-256 is      *)
(* collision free, so the identity of a page is the page, wrapped.         *)
(***************************************************************************)
EXTENDS Integers, SequencesExt

CONSTANTS Name,             \* the names validate_name accepts
          Content,          \* content_id with size and kind, or child_root
          Zero,             \* the all-zero digest
          LeafMaxEntries,   \* LEAF_MAX_ENTRIES, 128 in the code
          PageMaxBytes,     \* PAGE_MAX_BYTES, 16384 in the code
          Width             \* bits of a u64 (bound)

Byte == 0..255

ASSUME NameAssumption  == Name \subseteq {s \in Seq(Byte) : Len(s) \in 1..255}

BranchMaxChildren == 256
MaxDepth          == 255
HeaderLen         == 20
MaxTotalEntries   == 2^(Width - 1) - 1
U64               == 0..2 * MaxTotalEntries + 1     \* up to u64::MAX

ASSUME LimitAssumption == /\ LeafMaxEntries \in Nat /\ PageMaxBytes \in Nat
                          /\ Width \in Nat \ {0}
                          /\ LeafMaxEntries <= MaxTotalEntries

Entry == [name : Name, dir : BOOLEAN, content : Content]

-----------------------------------------------------------------------------
(* Entry::validate and Entry::encoded_len. *)
EntryOk(e)  == e.name \in Name /\ (e.dir => e.content # Zero)
EntryLen(e) == 3 + Len(e.name) + IF e.dir THEN 32 ELSE 40

(* The order of byte strings. *)
Before(s, t) ==
    \/ IsStrictPrefix(s, t)
    \/ \E k \in 1..Len(s) : /\ k <= Len(t) /\ s[k] < t[k]
                            /\ SubSeq(s, 1, k - 1) = SubSeq(t, 1, k - 1)

Ascending(entries) ==
    \A k \in 2..Len(entries) : Before(entries[k - 1].name, entries[k].name)

Leaf(entries) == [kind |-> "leaf", entries |-> entries]
Branch(prefix, terminal, children) ==       \* terminal: at most one entry
    [kind |-> "branch", prefix |-> prefix, terminal |-> terminal,
     children |-> children]
Child(label, count, id) == [label |-> label, count |-> count, id |-> id]

PageId(page) == [page |-> page]

(* The values of a Page: fields have their widths, names need not be valid. *)
RawEntry == [name : Seq(Byte), dir : BOOLEAN, content : Content]

PageValue(body) ==
    \/ body \in [kind : {"leaf"}, entries : Seq(RawEntry)]
    \/ /\ body.kind = "branch" /\ body.prefix \in Seq(Byte)
       /\ body.terminal \in Seq(RawEntry) /\ Len(body.terminal) <= 1
       /\ body.children = [k \in 1..Len(body.children) |-> body.children[k]]
       /\ \A k \in DOMAIN body.children : /\ body.children[k].label \in Byte
                                         /\ body.children[k].count \in U64

SumOf(numbers) ==
    LET upto[k \in 0..Len(numbers)] ==
            IF k = 0 THEN 0 ELSE upto[k - 1] + numbers[k]
    IN  upto[Len(numbers)]

EntriesLen(entries) == SumOf([k \in DOMAIN entries |-> EntryLen(entries[k])])
CountSum(children)  == SumOf([k \in DOMAIN children |-> children[k].count])

PageLen(body) ==
    HeaderLen + IF body.kind = "leaf" THEN EntriesLen(body.entries)
                ELSE 3 + Len(body.prefix) + EntriesLen(body.terminal)
                       + 41 * Len(body.children)

(* Page::total_entries. *)
TotalEntries(body) ==
    IF body.kind = "leaf" THEN Len(body.entries)
    ELSE Len(body.terminal) + CountSum(body.children)

LabelsAscend(children) ==
    \A k \in 2..Len(children) : children[k - 1].label < children[k].label

-----------------------------------------------------------------------------
(* Page::encode returns a page. *)
CountsPositive(children) == \A k \in DOMAIN children : children[k].count # 0

EncodeOk(body) ==
    /\ PageValue(body)
    /\ body.kind = "leaf" =>
         /\ Len(body.entries) <= LeafMaxEntries
         /\ \A k \in DOMAIN body.entries : EntryOk(body.entries[k])
         /\ Ascending(body.entries)
    /\ body.kind = "branch" =>
         /\ Len(body.prefix) <= MaxDepth
         /\ Len(body.children) <= BranchMaxChildren
         /\ \A k \in DOMAIN body.terminal : /\ EntryOk(body.terminal[k])
                                            /\ body.terminal[k].name = body.prefix
         /\ LabelsAscend(body.children) /\ CountsPositive(body.children)
         /\ CountSum(body.children) \in U64
         /\ Len(body.children) + Len(body.terminal) >= 2
         /\ TotalEntries(body) \in U64 /\ TotalEntries(body) <= MaxTotalEntries
    /\ PageLen(body) <= PageMaxBytes

Encoded(body) == [total |-> TotalEntries(body), body |-> body]

(* The header's total of a branch, against its children and terminal entry. *)
(* Sums are checked: one that u64 cannot hold is refused.                   *)
WrappedTotal(page) ==          \* mutant of HeaderAgrees: an unchecked sum
    page.total = (CountSum(page.body.children) + Len(page.body.terminal)) % 2^Width
HeaderAgrees(page) ==
    LET sum == CountSum(page.body.children) IN
    /\ sum \in U64 /\ sum + Len(page.body.terminal) \in U64
    /\ page.total = sum + Len(page.body.terminal)

(* Page::decode accepts the page. *)
DecodeOk(page) ==
    /\ PageValue(page.body) /\ page = [total |-> page.total, body |-> page.body]
    /\ PageLen(page.body) <= PageMaxBytes
    /\ page.total <= MaxTotalEntries
    /\ page.body.kind = "leaf" =>
         LET entries == page.body.entries IN
         /\ Len(entries) <= LeafMaxEntries /\ page.total = Len(entries)
         /\ \A k \in DOMAIN entries :
              /\ EntryOk(entries[k])
              /\ k > 1 => Before(entries[k - 1].name, entries[k].name)
    /\ page.body.kind = "branch" =>
         LET children == page.body.children
             terminal == page.body.terminal
         IN
         /\ Len(page.body.prefix) <= MaxDepth
         /\ \A k \in DOMAIN terminal : /\ EntryOk(terminal[k])
                                       /\ terminal[k].name = page.body.prefix
         /\ Len(children) <= BranchMaxChildren
         /\ LabelsAscend(children)
         /\ \A k \in DOMAIN children : children[k].count # 0
         /\ Len(children) + Len(terminal) >= 2
         /\ HeaderAgrees(page)

-----------------------------------------------------------------------------
Failed == [total |-> 0, body |-> [kind |-> "none"]]

(* Page::lcp, the longest common prefix of the names. *)
Lcp(entries) == LongestCommonPrefix({entries[k].name : k \in DOMAIN entries})

(* The entry that stays in the branch: the one named by the prefix. *)
TerminalOf(entries, prefix) ==
    LET found == {e \in ToSet(entries) : e.name = prefix}
    IN  IF found = {} THEN << >> ELSE <<CHOOSE e \in found : TRUE>>

(* The others go down; consecutive ones with the same next byte together. *)
Joined(groups, e, label) ==
    IF groups # << >> /\ groups[Len(groups)].label = label
    THEN [groups EXCEPT ![Len(groups)].entries = Append(@, e)]
    ELSE Append(groups, [label |-> label, entries |-> <<e>>])

Groups(entries, prefix) ==
    LET upto[k \in 0..Len(entries)] ==
            IF k = 0 THEN << >>
            ELSE IF entries[k].name = prefix THEN upto[k - 1]
            ELSE Joined(upto[k - 1], entries[k], entries[k].name[Len(prefix) + 1])
    IN  upto[Len(entries)]

LeafByCount(entries) ==       \* mutant of StaysLeaf: only the count decides
    Len(entries) <= LeafMaxEntries
StaysLeaf(entries) == Len(entries) <= LeafMaxEntries /\ EncodeOk(Leaf(entries))

BuildInput(entries) ==
    Ascending(entries) /\ \A k \in DOMAIN entries : EntryOk(entries[k])

(* The branch over the pages of the groups. *)
BranchOver(entries, groups, pages) ==
    LET prefix   == Lcp(entries)
        terminal == TerminalOf(entries, prefix)
        branch   == Branch(prefix, terminal, [k \in DOMAIN groups |->
                        Child(groups[k].label, Len(groups[k].entries),
                              PageId(pages[k]))])
    IN  IF \/ Len(groups) + Len(terminal) < 2
           \/ \E k \in DOMAIN groups : pages[k] = Failed
           \/ ~EncodeOk(branch)
        THEN Failed
        ELSE Encoded(branch)

(* Page::build. *)
Build[entries \in Seq(Entry)] ==
    IF ~BuildInput(entries) THEN Failed
    ELSE IF StaysLeaf(entries) THEN Encoded(Leaf(entries))
    ELSE LET groups == Groups(entries, Lcp(entries))
         IN  BranchOver(entries, groups, \* << >> \o: so that TLC keeps the pages
                        << >> \o [k \in DOMAIN groups |-> Build[groups[k].entries]])

(* The child of a decoded page under a label: one or none. *)
ChildAt(page, label) ==
    IF page.body.kind = "branch"
    THEN {c \in ToSet(page.body.children) : c.label = label}
    ELSE {}

(* The entries whose byte after the prefix is one of the labels. *)
Selected(entries, prefix, labels) ==
    LET upto[k \in 0..Len(entries)] ==
            IF k = 0 THEN << >>
            ELSE IF entries[k].name # prefix /\ entries[k].name[Len(prefix) + 1] \in labels
            THEN Append(upto[k - 1], entries[k])
            ELSE upto[k - 1]
    IN  upto[Len(entries)]

(* Its repartition of the entries, written apart from that of build. *)
RouteGroupFrom(entries, prefix, label) ==      \* mutant of RouteGroup
    Selected(entries, prefix, label..255)
RouteGroup(entries, prefix, label) == Selected(entries, prefix, {label})

(* Page::pages_along_route: the pages, root first, or << >> for an error. *)
PagesAlongRoute(entries, route) ==
    LET walk[k \in 0..Len(route)] ==     \* after k labels: group and pages
            IF k = 0
            THEN [group |-> entries,
                  pages |-> IF Build[entries] = Failed THEN << >>
                            ELSE <<Build[entries]>>]
            ELSE LET before == walk[k - 1]
                     page   == before.pages[k]
                     child  == ChildAt(page, route[k])
                     prefix == page.body.prefix
                     group  == RouteGroup(before.group, prefix, route[k])
                     bytes  == Build[group]
                 IN  IF /\ before.pages # << >>
                        /\ DecodeOk(page) /\ child # {}
                        /\ \A e \in ToSet(before.group) : IsPrefix(prefix, e.name)
                        /\ group # << >> /\ bytes # Failed
                        /\ \E c \in child : PageId(bytes) = c.id
                     THEN [group |-> group, pages |-> Append(before.pages, bytes)]
                     ELSE [group |-> << >>, pages |-> << >>]
    IN  walk[Len(route)].pages

(* Page::verify_received_child: a leaf's names and a branch's prefix must   *)
(* extend the parent's prefix and the label; a branch may extend it by more.*)
InPartitionNext(page, expected) ==      \* mutant of InPartition: no jumps
    IF page.body.kind = "leaf"
    THEN \A e \in ToSet(page.body.entries) : IsPrefix(expected, e.name)
    ELSE expected = page.body.prefix
InPartitionLeaf(page, expected) ==      \* mutant of InPartition: leaves only
    page.body.kind = "leaf" =>
        \A e \in ToSet(page.body.entries) : IsPrefix(expected, e.name)
InPartition(page, expected) ==
    IF page.body.kind = "leaf"
    THEN \A e \in ToSet(page.body.entries) : IsPrefix(expected, e.name)
    ELSE IsPrefix(expected, page.body.prefix)

VerifyUnbound(parent, label, received) ==     \* mutant: page_id not compared
    /\ DecodeOk(parent) /\ DecodeOk(received)
    /\ \E child \in ChildAt(parent, label) : received.total = child.count
    /\ InPartition(received, Append(parent.body.prefix, label))
VerifyUncounted(parent, label, received) ==   \* mutant: counts not compared
    /\ DecodeOk(parent) /\ DecodeOk(received)
    /\ \E child \in ChildAt(parent, label) : PageId(received) = child.id
    /\ InPartition(received, Append(parent.body.prefix, label))
VerifyReceivedChild(parent, label, received) ==
    /\ DecodeOk(parent)
    /\ \E child \in ChildAt(parent, label) :
         /\ PageId(received) = child.id
         /\ DecodeOk(received) /\ received.total = child.count
    /\ InPartition(received, Append(parent.body.prefix, label))
=============================================================================
