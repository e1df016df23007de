--------------------------- MODULE PageFetchProofs --------------------------
(***************************************************************************)
(* verify_received_child looks at one edge.  That it is enough for a whole *)
(* tree, whoever put it together, is proved here for any pages: no name is *)
(* on two of the pages a client holds, and a complete tree has as many as  *)
(* its root says.                                                          *)
(*                                                                         *)
(* Of a directory that Page::build split it is proved that there is a tree *)
(* whatever the names are, that pages_along_route cuts it where build did, *)
(* that no page of it is refused, and that a client with nothing left to   *)
(* ask for has exactly its entries.                                        *)
(***************************************************************************)
EXTENDS PageFetch, WellFoundedInduction, FiniteSetTheorems, TLAPS

Bytes == Seq(Byte)

(* s begins with r: IsPrefix, position by position. *)
Begins(r, s) == Len(r) <= Len(s) /\ \A k \in 1..Len(r) : r[k] = s[k]
Apart(r, s)  == ~Begins(r, s) /\ ~Begins(s, r)

LEMMA PrefixBegins ==
    ASSUME NEW r \in Bytes, NEW s \in Bytes
    PROVE  IsPrefix(r, s) <=> Begins(r, s)
<1>1. ASSUME Len(r) <= Len(s)
      PROVE  /\ SubSeq(r, 1, Len(r)) = r
             /\ SubSeq(s, 1, Len(r)) \in Bytes
             /\ Len(SubSeq(s, 1, Len(r))) = Len(r)
             /\ \A k \in 1..Len(r) : SubSeq(s, 1, Len(r))[k] = s[k]
  BY <1>1 DEF Bytes
<1>2. ASSUME Len(r) <= Len(s)
      PROVE  r = SubSeq(s, 1, Len(r)) <=> \A k \in 1..Len(r) : r[k] = s[k]
  <2> DEFINE t == SubSeq(s, 1, Len(r))
  <2>1. t \in Bytes /\ Len(t) = Len(r) /\ \A k \in 1..Len(r) : t[k] = s[k]
    BY <1>1, <1>2
  <2> HIDE DEF t
  <2>2. r = t <=> \A k \in 1..Len(r) : r[k] = t[k]
    BY <2>1 DEF Bytes
  <2> QED
    BY <2>1, <2>2 DEF t
<1> QED
  BY <1>1, <1>2 DEF IsPrefix, Begins

LEMMA BeginsTransitive ==
    ASSUME NEW r \in Bytes, NEW s \in Bytes, NEW t \in Bytes,
           Begins(r, s), Begins(s, t)
    PROVE  Begins(r, t)
BY DEF Begins, Bytes

LEMMA BeginsBoth ==
    ASSUME NEW r \in Bytes, NEW s \in Bytes, Begins(r, s), Begins(s, r)
    PROVE  r = s
BY DEF Begins, Bytes

(* Two that begin the same third string are not apart. *)
LEMMA BeginsSame ==
    ASSUME NEW r \in Bytes, NEW s \in Bytes, NEW t \in Bytes,
           Begins(r, t), Begins(s, t)
    PROVE  ~Apart(r, s)
BY DEF Apart, Begins, Bytes

LEMMA ApartBelow ==
    ASSUME NEW r \in Bytes, NEW s \in Bytes, NEW t \in Bytes, NEW u \in Bytes,
           Apart(r, s), Begins(r, t), Begins(s, u)
    PROVE  Apart(t, u)
BY BeginsTransitive, BeginsSame DEF Apart

LEMMA AppendBegins ==
    ASSUME NEW p \in Bytes, NEW b \in Byte
    PROVE  /\ Append(p, b) \in Bytes /\ Len(Append(p, b)) = Len(p) + 1
           /\ Append(p, b)[Len(p) + 1] = b
           /\ \A k \in 1..Len(p) : Append(p, b)[k] = p[k]
           /\ Begins(p, Append(p, b))
BY DEF Begins, Bytes

(* What begins an extended string is that string or begins what it extends. *)
LEMMA BeginsAppend ==
    ASSUME NEW p \in Bytes, NEW b \in Byte, NEW r \in Bytes,
           Begins(r, Append(p, b))
    PROVE  r = Append(p, b) \/ Begins(r, p)
<1>1. CASE Len(r) <= Len(p)
  BY <1>1, AppendBegins DEF Begins, Bytes
<1>2. CASE Len(r) = Len(p) + 1
  <2>1. Begins(Append(p, b), r)
    BY <1>2, AppendBegins DEF Begins, Bytes
  <2> QED
    BY <2>1, AppendBegins, BeginsBoth
<1> QED
  BY <1>1, <1>2, AppendBegins DEF Begins, Bytes

LEMMA LabelsPart ==
    ASSUME NEW p \in Bytes, NEW b \in Byte, NEW c \in Byte, b # c
    PROVE  Apart(Append(p, b), Append(p, c))
BY AppendBegins DEF Apart, Begins, Bytes

-----------------------------------------------------------------------------
(* What a page that decodes holds. *)
LEMMA PageNames ==
    ASSUME NEW page, DecodeOk(page)
    PROVE  /\ \A n \in NamesOn(page) : n \in Bytes
           /\ page.body.kind # "leaf" =>
                /\ page.body.kind = "branch" /\ page.body.prefix \in Bytes
                /\ \A n \in NamesOn(page) : n = page.body.prefix
           /\ ChildLabels(page) \subseteq Byte
<1>1. CASE page.body.kind = "leaf"
  <2>1. \A e \in EntriesOn(page) : e.name \in Name
    BY <1>1 DEF DecodeOk, EntriesOn, EntryOk, ToSet
  <2>2. ChildLabels(page) = {}
    BY <1>1 DEF ChildLabels
  <2> QED
    BY <1>1, <2>1, <2>2, NameAssumption DEF NamesOn, Bytes
<1>2. CASE page.body.kind # "leaf"
  <2>1. page.body.kind = "branch" /\ page.body.prefix \in Bytes
    BY <1>2 DEF DecodeOk, PageValue, Bytes
  <2>2. \A e \in EntriesOn(page) : e.name = page.body.prefix
    BY <1>2, <2>1 DEF DecodeOk, EntriesOn, ToSet
  <2>3. \A n \in NamesOn(page) : n = page.body.prefix
    BY <2>2 DEF NamesOn
  <2>4. ChildLabels(page) \subseteq Byte
    BY <2>1 DEF DecodeOk, PageValue, ChildLabels, ToSet
  <2> QED
    BY <2>1, <2>3, <2>4
<1> QED
  BY <1>1, <1>2

(* The page is where the string d leads: its names and its prefix begin so. *)
Leads(d, page) ==
    /\ \A n \in NamesOn(page) : Begins(d, n)
    /\ page.body.kind = "branch" => Begins(d, page.body.prefix)

LEMMA VerifiedLeads ==
    ASSUME NEW page, NEW received, NEW label, label \in ChildLabels(page),
           VerifyReceivedChild(page, label, received)
    PROVE  /\ DecodeOk(received)
           /\ page.body.kind = "branch" /\ page.body.prefix \in Bytes
           /\ label \in Byte
           /\ Leads(Append(page.body.prefix, label), received)
<1>1. DecodeOk(page) /\ DecodeOk(received)
  BY DEF VerifyReceivedChild
<1>2. page.body.kind = "branch"
  BY DEF ChildLabels
<1>3. page.body.prefix \in Bytes /\ label \in Byte
  BY <1>1, <1>2, PageNames
<1> DEFINE d == Append(page.body.prefix, label)
<1>4. d \in Bytes
  BY <1>3, AppendBegins
<1>5. InPartition(received, d)
  BY DEF VerifyReceivedChild
<1>6. CASE received.body.kind = "leaf"
  <2>1. \A e \in EntriesOn(received) : IsPrefix(d, e.name)
    BY <1>5, <1>6 DEF InPartition, EntriesOn
  <2>2. \A n \in NamesOn(received) : n \in Bytes /\ IsPrefix(d, n)
    BY <1>1, <2>1, PageNames DEF NamesOn
  <2>3. \A n \in NamesOn(received) : Begins(d, n)
    BY <1>4, <2>2, PrefixBegins
  <2> QED
    BY <1>1, <1>2, <1>3, <1>6, <2>3 DEF Leads
<1>7. CASE received.body.kind # "leaf"
  <2>1. received.body.prefix \in Bytes /\ IsPrefix(d, received.body.prefix)
    BY <1>1, <1>5, <1>7, PageNames DEF InPartition
  <2>2. Begins(d, received.body.prefix)
    BY <1>4, <2>1, PrefixBegins
  <2>3. \A n \in NamesOn(received) : Begins(d, n)
    BY <1>1, <1>7, <2>2, PageNames
  <2> QED
    BY <1>1, <1>2, <1>3, <2>2, <2>3 DEF Leads
<1> QED
  BY <1>6, <1>7

-----------------------------------------------------------------------------
(* The invariant.  h are the pages held and due[r] the string that route r  *)
(* leads to: the prefix of the page above it and the last label.            *)
Readable(h) == \A r \in DOMAIN h : r \in Bytes /\ DecodeOk(h[r])

FromTheRoot(h) ==
    \A s \in DOMAIN h : \A r \in Bytes : Begins(r, s) => r \in DOMAIN h

WhereDue(h, due) == \A r \in DOMAIN h : due[r] \in Bytes /\ Leads(due[r], h[r])

(* Below a page: under its prefix and the label that was followed. *)
Below(h, due) ==
    \A r, s \in DOMAIN h : Begins(r, s) /\ r # s =>
        /\ h[r].body.kind = "branch" /\ s[Len(r) + 1] \in Byte
        /\ Begins(Append(h[r].body.prefix, s[Len(r) + 1]), due[s])

Beside(h, due) == \A r, s \in DOMAIN h : Apart(r, s) => Apart(due[r], due[s])

Routed(h, due) ==
    /\ Readable(h) /\ FromTheRoot(h)
    /\ WhereDue(h, due) /\ Below(h, due) /\ Beside(h, due)

IInv == \E due : Routed(held, due)

(* Names below a page are longer than its prefix, which is all the names a  *)
(* branch has; names beside it lead elsewhere.                              *)
LEMMA RoutedOnePlace ==
    ASSUME NEW due, Routed(held, due)
    PROVE  OnePlace
<1> SUFFICES ASSUME NEW r \in DOMAIN held, NEW s \in DOMAIN held, r # s,
                    NEW n, n \in NamesOn(held[r]), n \in NamesOn(held[s])
             PROVE  FALSE
  BY DEF OnePlace
<1>1. /\ r \in Bytes /\ s \in Bytes /\ n \in Bytes
      /\ DecodeOk(held[r]) /\ DecodeOk(held[s])
  BY PageNames DEF Routed, Readable
<1>2. /\ due[r] \in Bytes /\ due[s] \in Bytes
      /\ Begins(due[r], n) /\ Begins(due[s], n)
  BY DEF Routed, WhereDue, Leads
<1>3. ASSUME NEW p \in DOMAIN held, NEW q \in DOMAIN held, p # q, Begins(p, q),
             n \in NamesOn(held[p]), n \in NamesOn(held[q])
      PROVE  FALSE
  <2> DEFINE prefix == held[p].body.prefix
             under == Append(prefix, q[Len(p) + 1])
  <2>1. /\ held[p].body.kind = "branch" /\ q[Len(p) + 1] \in Byte
        /\ Begins(under, due[q])
    BY <1>3 DEF Routed, Below
  <2>2. DecodeOk(held[p]) /\ prefix \in Bytes /\ n = prefix
    BY <1>3, <2>1, PageNames DEF Routed, Readable
  <2>3. due[q] \in Bytes /\ Begins(due[q], n)
    BY <1>3 DEF Routed, WhereDue, Leads
  <2>4. under \in Bytes /\ Len(under) = Len(prefix) + 1
    BY <2>1, <2>2, AppendBegins
  <2>5. Begins(under, prefix)
    BY <2>1, <2>2, <2>3, <2>4, BeginsTransitive
  <2> QED
    BY <2>2, <2>4, <2>5 DEF Begins, Bytes
<1>4. CASE Begins(r, s)
  BY <1>3, <1>4
<1>5. CASE Begins(s, r)
  BY <1>3, <1>5
<1>6. CASE Apart(r, s)
  <2>1. Apart(due[r], due[s])
    BY <1>6 DEF Routed, Beside
  <2> QED
    BY <1>1, <1>2, <2>1, BeginsSame
<1> QED
  BY <1>4, <1>5, <1>6 DEF Apart

-----------------------------------------------------------------------------
(* The first page: the route is empty, and so is what it leads to. *)
LEMMA RootRouted ==
    ASSUME NEW page, DecodeOk(page), NEW h, DOMAIN h = {<< >>}, h[<< >>] = page
    PROVE  \E due : Routed(h, due)
<1> DEFINE due == [r \in {<< >>} |-> << >>]
<1>1. << >> \in Bytes /\ due[<< >>] = << >> /\ \A s \in Bytes : Begins(<< >>, s)
  BY DEF Begins, Bytes
<1>2. Readable(h)
  BY <1>1 DEF Readable
<1>3. FromTheRoot(h)
  BY <1>1 DEF FromTheRoot, Begins, Bytes
<1>4. WhereDue(h, due)
  <2>1. Leads(<< >>, page)
    <3>1. \A n \in NamesOn(page) : n \in Bytes
      BY PageNames
    <3>2. page.body.kind = "branch" => page.body.prefix \in Bytes
      BY PageNames
    <3> QED
      BY <1>1, <3>1, <3>2 DEF Leads
  <2> QED
    BY <1>1, <2>1 DEF WhereDue
<1>5. Below(h, due)
  BY DEF Below
<1>6. Beside(h, due)
  BY <1>1 DEF Beside, Apart
<1> HIDE DEF due
<1> QED
  BY <1>2, <1>3, <1>4, <1>5, <1>6 DEF Routed

(* A child: what it is due extends what its parent is, and parts from what  *)
(* its siblings are due at the label.                                       *)
LEMMA ChildRouted ==
    ASSUME NEW h, NEW due, Routed(h, due),
           NEW parent \in DOMAIN h, NEW label \in ChildLabels(h[parent]),
           NEW route, route = Append(parent, label), route \notin DOMAIN h,
           NEW page, VerifyReceivedChild(h[parent], label, page),
           NEW g, DOMAIN g = DOMAIN h \cup {route}, g[route] = page,
           \A r \in DOMAIN h : g[r] = h[r]
    PROVE  \E d : Routed(g, d)
<1> DEFINE prefix == h[parent].body.prefix
           its == Append(prefix, label)
           d == [r \in DOMAIN g |-> IF r = route THEN its ELSE due[r]]
<1>1. /\ DecodeOk(page) /\ Leads(its, page) /\ label \in Byte
      /\ h[parent].body.kind = "branch" /\ prefix \in Bytes
  BY VerifiedLeads
<1>2. /\ parent \in Bytes /\ route \in Bytes /\ Begins(parent, route)
      /\ parent # route /\ Len(route) = Len(parent) + 1
      /\ route[Len(parent) + 1] = label
      /\ \A k \in 1..Len(parent) : route[k] = parent[k]
  BY <1>1, AppendBegins DEF Routed, Readable
<1>3. its \in Bytes /\ Begins(prefix, its)
  BY <1>1, AppendBegins
<1>4. d[route] = its /\ \A r \in DOMAIN h : d[r] = due[r]
  OBVIOUS
<1>5. \A r \in DOMAIN h : r \in Bytes /\ due[r] \in Bytes
  BY DEF Routed, Readable, WhereDue
<1>6. Begins(due[parent], prefix) /\ Begins(due[parent], its)
  <2>1. Begins(due[parent], prefix)
    BY <1>1 DEF Routed, WhereDue, Leads
  <2> QED
    BY <1>1, <1>3, <1>5, <2>1, BeginsTransitive
<1>7. ASSUME NEW r \in DOMAIN h, Begins(r, route) PROVE Begins(r, parent)
  BY <1>1, <1>2, <1>5, <1>7, BeginsAppend
<1>8. ASSUME NEW s \in DOMAIN h, Begins(route, s) PROVE FALSE
  BY <1>2, <1>8 DEF Routed, FromTheRoot
<1> HIDE DEF d, its, prefix
<1>9. Readable(g)
  BY <1>1, <1>2 DEF Routed, Readable
<1>10. FromTheRoot(g)
  <2> SUFFICES ASSUME NEW s \in DOMAIN g, NEW r \in Bytes, Begins(r, s)
               PROVE  r \in DOMAIN g
    BY DEF FromTheRoot
  <2>1. CASE s \in DOMAIN h
    BY <2>1 DEF Routed, FromTheRoot
  <2>2. CASE s = route
    <3>1. r = route \/ Begins(r, parent)
      BY <1>1, <1>2, <2>2, BeginsAppend
    <3> QED
      BY <3>1 DEF Routed, FromTheRoot
  <2> QED
    BY <2>1, <2>2
<1>11. WhereDue(g, d)
  BY <1>1, <1>3, <1>4 DEF Routed, WhereDue
<1>12. Below(g, d)
  <2> SUFFICES ASSUME NEW r \in DOMAIN g, NEW s \in DOMAIN g, Begins(r, s), r # s
               PROVE  /\ g[r].body.kind = "branch" /\ s[Len(r) + 1] \in Byte
                      /\ Begins(Append(g[r].body.prefix, s[Len(r) + 1]), d[s])
    BY DEF Below
  <2>1. CASE r \in DOMAIN h /\ s \in DOMAIN h
    BY <1>4, <2>1 DEF Routed, Below
  <2>2. CASE r = route /\ s \in DOMAIN h
    BY <1>8, <2>2
  <2>3. CASE r = parent /\ s = route
    <3>1. Begins(its, its)
      BY <1>3 DEF Begins, Bytes
    <3> QED
      BY <1>1, <1>2, <1>4, <2>3, <3>1 DEF its, prefix
  <2>4. CASE r \in DOMAIN h /\ r # parent /\ s = route
    <3>1. Begins(r, parent)
      BY <1>7, <2>4
    <3>2. /\ h[r].body.kind = "branch" /\ parent[Len(r) + 1] \in Byte
          /\ Begins(Append(h[r].body.prefix, parent[Len(r) + 1]), due[parent])
      BY <2>4, <3>1 DEF Routed, Below
    <3>3. Len(r) + 1 \in 1..Len(parent)
      <4>1. r \in Bytes /\ Len(r) <= Len(parent)
        BY <1>5, <2>4, <3>1 DEF Begins
      <4>2. Len(r) # Len(parent)
        <5>1. SUFFICES ASSUME Len(r) = Len(parent) PROVE r = parent
          BY <2>4
        <5>2. Begins(parent, r)
          BY <3>1, <5>1 DEF Begins
        <5> QED
          BY <1>2, <3>1, <4>1, <5>2, BeginsBoth
      <4> QED
        BY <1>2, <4>1, <4>2 DEF Bytes
    <3>4. s[Len(r) + 1] = parent[Len(r) + 1]
      BY <1>2, <2>4, <3>3
    <3>5. DecodeOk(h[r])
      BY <2>4 DEF Routed, Readable
    <3>6. h[r].body.prefix \in Bytes
      BY <3>2, <3>5, PageNames
    <3> DEFINE under == Append(h[r].body.prefix, parent[Len(r) + 1])
    <3>7. under \in Bytes
      BY <3>2, <3>6, AppendBegins
    <3>8. Begins(under, its)
      BY <1>3, <1>5, <1>6, <3>2, <3>7, BeginsTransitive
    <3> HIDE DEF under
    <3>9. d[s] = its /\ g[r] = h[r]
      BY <1>4, <2>4, Zenon
    <3>10. Append(g[r].body.prefix, s[Len(r) + 1]) = under
      BY <3>4, <3>9, Zenon DEF under
    <3> QED
      BY <3>2, <3>4, <3>8, <3>9, <3>10, Zenon
  <2>5. (r \in DOMAIN h \/ r = route) /\ (s \in DOMAIN h \/ s = route)
    OBVIOUS
  <2> QED
    BY <2>1, <2>2, <2>3, <2>4, <2>5, Zenon
<1>13. ASSUME NEW s \in DOMAIN h, Apart(route, s) PROVE Apart(its, due[s])
  <2>1. CASE Apart(parent, s)
    <3>1. Apart(due[parent], due[s])
      BY <2>1 DEF Routed, Beside
    <3>2. Begins(due[s], due[s])
      BY <1>5 DEF Begins, Bytes
    <3> QED
      BY <1>3, <1>5, <1>6, <3>1, <3>2, ApartBelow
  <2>2. CASE Begins(s, parent)
    BY <1>2, <1>5, <1>13, <2>2, BeginsTransitive DEF Apart
  <2>3. CASE Begins(parent, s) /\ s # parent
    <3> DEFINE other == s[Len(parent) + 1]
               under == Append(prefix, other)
    <3>1. other \in Byte /\ Begins(under, due[s])
      BY <2>3 DEF Routed, Below, prefix
    <3>2. other # label
      <4>1. SUFFICES ASSUME other = label PROVE Begins(route, s)
        BY <1>13 DEF Apart
      <4>2. Len(parent) # Len(s)
        <5>1. SUFFICES ASSUME Len(parent) = Len(s) PROVE s = parent
          BY <2>3
        <5>2. Begins(s, parent)
          BY <2>3, <5>1 DEF Begins
        <5> QED
          BY <1>2, <1>5, <2>3, <5>2, BeginsBoth
      <4> QED
        BY <1>2, <1>5, <2>3, <4>1, <4>2 DEF Begins, Bytes
    <3>3. under \in Bytes /\ Apart(its, under)
      BY <1>1, <3>1, <3>2, AppendBegins, LabelsPart DEF its
    <3>4. Begins(its, its)
      BY <1>3 DEF Begins, Bytes
    <3> HIDE DEF under, other
    <3> QED
      BY <1>3, <1>5, <3>1, <3>3, <3>4, ApartBelow
  <2> QED
    BY <2>1, <2>2, <2>3 DEF Apart
<1>14. Beside(g, d)
  <2> SUFFICES ASSUME NEW r \in DOMAIN g, NEW s \in DOMAIN g, Apart(r, s)
               PROVE  Apart(d[r], d[s])
    BY DEF Beside
  <2>1. CASE r \in DOMAIN h /\ s \in DOMAIN h
    BY <1>4, <2>1 DEF Routed, Beside
  <2>2. CASE r = route /\ s \in DOMAIN h
    BY <1>4, <1>13, <2>2
  <2>3. CASE r \in DOMAIN h /\ s = route
    <3>1. Apart(s, r)
      BY DEF Apart
    <3>2. Apart(its, due[r])
      BY <1>13, <2>3, <3>1
    <3> QED
      BY <1>4, <2>3, <3>2 DEF Apart
  <2>4. CASE r = route /\ s = route
    BY <1>2, <2>4 DEF Apart, Begins, Bytes
  <2> QED
    BY <2>1, <2>2, <2>3, <2>4
<1> QED
  BY <1>9, <1>10, <1>11, <1>12, <1>14 DEF Routed

-----------------------------------------------------------------------------
LEMMA InitRouted == Init => IInv
<1> SUFFICES ASSUME Init PROVE IInv
  OBVIOUS
<1>1. DOMAIN held = {}
  BY DEF Init
<1> DEFINE due == << >>
<1>2. Routed(held, due)
  BY <1>1 DEF Routed, Readable, FromTheRoot, WhereDue, Below, Beside
<1> QED
  BY <1>2 DEF IInv

(* What Take makes of the pages held. *)
LEMMA Taken ==
    ASSUME NEW route, route \notin DOMAIN held, NEW page, NEW ok \in BOOLEAN,
           Take(route, page, ok)
    PROVE  /\ ~ok => held' = held
           /\ ok => /\ DOMAIN held' = DOMAIN held \cup {route}
                    /\ held'[route] = page
                    /\ \A r \in DOMAIN held : held'[r] = held[r]
BY DEF Take, With

LEMMA FetchRootRouted == IInv /\ FetchRoot => IInv'
<1> SUFFICES ASSUME IInv, FetchRoot PROVE IInv'
  OBVIOUS
<1>1. PICK due : Routed(held, due)
  BY DEF IInv
<1>2. << >> \notin DOMAIN held
  BY DEF FetchRoot
<1>3. DOMAIN held = {}
  <2>1. << >> \in Bytes /\ \A s \in Bytes : Begins(<< >>, s)
    BY DEF Begins, Bytes
  <2> QED
    BY <1>1, <1>2, <2>1 DEF Routed, Readable, FromTheRoot
<1>4. PICK page : Take(<< >>, page, PageId(page) = rootId /\ DecodeOk(page))
  BY DEF FetchRoot
<1> DEFINE ok == PageId(page) = rootId /\ DecodeOk(page)
<1>5. ok \in BOOLEAN /\ (ok => DecodeOk(page)) /\ Take(<< >>, page, ok)
  BY <1>4 DEF DecodeOk
<1> HIDE DEF ok
<1>6. CASE ok
  <2>1. DOMAIN held' = {<< >>} /\ held'[<< >>] = page
    BY <1>2, <1>3, <1>5, <1>6, Taken
  <2>2. DecodeOk(page)
    BY <1>5, <1>6, Zenon
  <2>3. \E d : Routed(held', d)
    BY <2>1, <2>2, RootRouted, Zenon
  <2> QED
    BY <2>3, Zenon DEF IInv
<1>7. CASE ~ok
  BY <1>1, <1>2, <1>5, <1>7, Taken DEF IInv
<1> QED
  BY <1>6, <1>7

LEMMA FetchChildRouted == IInv /\ FetchChild => IInv'
<1> SUFFICES ASSUME IInv, FetchChild PROVE IInv'
  OBVIOUS
<1>1. PICK due : Routed(held, due)
  BY DEF IInv
<1>2. PICK parent \in DOMAIN held : \E label \in ChildLabels(held[parent]) : \E page :
          /\ Append(parent, label) \notin DOMAIN held
          /\ Take(Append(parent, label), page,
                  VerifyReceivedChild(held[parent], label, page))
  BY DEF FetchChild
<1>3. PICK label \in ChildLabels(held[parent]) : \E page :
          /\ Append(parent, label) \notin DOMAIN held
          /\ Take(Append(parent, label), page,
                  VerifyReceivedChild(held[parent], label, page))
  BY <1>2
<1>4. PICK page :
          /\ Append(parent, label) \notin DOMAIN held
          /\ Take(Append(parent, label), page,
                  VerifyReceivedChild(held[parent], label, page))
  BY <1>3
<1> DEFINE route == Append(parent, label)
           ok == VerifyReceivedChild(held[parent], label, page)
<1>5. ok \in BOOLEAN /\ Take(route, page, ok) /\ route \notin DOMAIN held
  BY <1>4 DEF VerifyReceivedChild
<1>6. CASE ok
  <2> HIDE DEF route
  <2>1. /\ DOMAIN held' = DOMAIN held \cup {route} /\ held'[route] = page
        /\ \A r \in DOMAIN held : held'[r] = held[r]
    BY <1>5, <1>6, Taken
  <2>2. \E d : Routed(held', d)
    BY <1>1, <1>5, <1>6, <2>1, ChildRouted DEF route
  <2> QED
    BY <2>2 DEF IInv
<1>7. CASE ~ok
  <2>1. held' = held
    <3> HIDE DEF route, ok
    <3> QED
      BY <1>5, <1>7, Zenon DEF Take
  <2> QED
    BY <2>1 DEF IInv
<1> QED
  BY <1>6, <1>7

(* No name is on two of the pages that verify_received_child let through,   *)
(* for any tree anyone may have put together and any answers of the server. *)
THEOREM NoNameTwice == Spec => []OnePlace
<1>1. IInv /\ [Next]_vars => IInv'
  <2> SUFFICES ASSUME IInv, [Next]_vars PROVE IInv'
    OBVIOUS
  <2>1. CASE FetchRoot
    BY <2>1, FetchRootRouted
  <2>2. CASE FetchChild
    BY <2>2, FetchChildRouted
  <2>3. CASE UNCHANGED vars
    BY <2>3 DEF IInv, vars
  <2> QED
    BY <2>1, <2>2, <2>3 DEF Next
<1>2. IInv => OnePlace
  BY RoutedOnePlace DEF IInv
<1> QED
  BY InitRouted, <1>1, <1>2, PTL DEF Spec
-----------------------------------------------------------------------------
(* What a page that decodes says, encode writes again, and the other way    *)
(* round.                                                                   *)
LEMMA DecodedEncodes ==
    ASSUME NEW page, DecodeOk(page)
    PROVE  EncodeOk(page.body) /\ Encoded(page.body) = page
<1> DEFINE body == page.body
<1>1. PageValue(body) /\ page = [total |-> page.total, body |-> body]
  BY DEF DecodeOk
<1>2. CASE body.kind = "leaf"
  <2>1. \A k \in DOMAIN body.entries :
            /\ EntryOk(body.entries[k])
            /\ k > 1 => Before(body.entries[k - 1].name, body.entries[k].name)
    BY <1>2 DEF DecodeOk
  <2>2. body.entries \in Seq(RawEntry)
    BY <1>1, <1>2 DEF PageValue
  <2>3. Ascending(body.entries)
    <3>1. DOMAIN body.entries = 1..Len(body.entries) /\ Len(body.entries) \in Nat
      BY <2>2
    <3>2. \A k \in 2..Len(body.entries) : k \in DOMAIN body.entries /\ k > 1
      BY <3>1
    <3> QED
      BY <2>1, <3>2, Zenon DEF Ascending
  <2>4. EncodeOk(body)
    BY <1>1, <1>2, <2>1, <2>3 DEF DecodeOk, EncodeOk
  <2>5. Encoded(body) = page
    BY <1>1, <1>2 DEF DecodeOk, Encoded, TotalEntries
  <2> QED
    BY <2>4, <2>5
<1>3. CASE body.kind # "leaf"
  <2>1. body.kind = "branch" /\ HeaderAgrees(page)
    BY <1>1, <1>3 DEF PageValue, DecodeOk
  <2>2. Len(body.terminal) \in Nat /\ CountSum(body.children) \in Int
    BY <1>1, <2>1 DEF PageValue, HeaderAgrees, U64
  <2>3. /\ CountSum(body.children) \in U64
        /\ page.total = TotalEntries(body) /\ page.total \in U64
    BY <1>3, <2>1, <2>2 DEF HeaderAgrees, TotalEntries, U64
  <2>4. EncodeOk(body)
    BY <1>1, <1>3, <2>1, <2>3 DEF DecodeOk, EncodeOk, CountsPositive
  <2>5. Encoded(body) = page
    BY <1>1, <2>3 DEF Encoded
  <2> QED
    BY <2>4, <2>5
<1> QED
  BY <1>2, <1>3

LEMMA MaxIsInt == MaxTotalEntries \in Int
BY LimitAssumption DEF MaxTotalEntries

LEMMA EncodedDecodes ==
    ASSUME NEW body, EncodeOk(body)
    PROVE  DecodeOk(Encoded(body))
<1> SUFFICES ASSUME NEW page, page = Encoded(body) PROVE DecodeOk(page)
  OBVIOUS
<1>1. page.body = body /\ page.total = TotalEntries(body)
  BY DEF Encoded
<1>2. PageValue(page.body) /\ page = [total |-> page.total, body |-> page.body]
  BY <1>1 DEF Encoded, EncodeOk
<1>3. CASE body.kind = "leaf"
  <2>1. Len(body.entries) <= LeafMaxEntries /\ Ascending(body.entries)
    BY <1>3 DEF EncodeOk
  <2>2. body.entries \in Seq(RawEntry)
    BY <1>3 DEF PageValue, EncodeOk
  <2>3. page.total = Len(body.entries) /\ page.total <= MaxTotalEntries
    <3>1. MaxTotalEntries \in Int
      BY MaxIsInt
    <3> HIDE DEF MaxTotalEntries
    <3> QED
      BY <1>1, <1>3, <2>1, <2>2, <3>1, LimitAssumption DEF TotalEntries
  <2>4. \A k \in DOMAIN body.entries : k > 1 =>
            Before(body.entries[k - 1].name, body.entries[k].name)
    <3>1. DOMAIN body.entries = 1..Len(body.entries) /\ Len(body.entries) \in Nat
      BY <2>2
    <3>2. \A k \in DOMAIN body.entries : k > 1 => k \in 2..Len(body.entries)
      BY <3>1
    <3> QED
      BY <2>1, <3>2, Zenon DEF Ascending
  <2> QED
    BY <1>1, <1>2, <1>3, <2>1, <2>3, <2>4 DEF DecodeOk, EncodeOk
<1>4. CASE body.kind # "leaf"
  <2>1. body.kind = "branch"
    BY <1>4 DEF PageValue, EncodeOk
  <2>2. Len(body.terminal) \in Nat /\ CountSum(body.children) \in Int
    BY <2>1 DEF PageValue, EncodeOk, U64
  <2>3. HeaderAgrees(page)
    BY <1>1, <2>1, <2>2 DEF HeaderAgrees, EncodeOk, TotalEntries, U64
  <2> QED
    BY <1>1, <1>2, <2>1, <2>3 DEF DecodeOk, EncodeOk, CountsPositive
<1> QED
  BY <1>3, <1>4

(* metapage.rs: "encoding a decoded page is byte-identical to the input",   *)
(* and every page encode lets out, decode lets in.                          *)
THEOREM PagesSurvive == Spec => []PagesRoundTrip
<1>1. PagesRoundTrip
  BY DecodedEncodes, EncodedDecodes DEF PagesRoundTrip
<1> QED
  BY <1>1, PTL
-----------------------------------------------------------------------------
(* How many names a tree has.  Induction is by the least counterexample.    *)
LEMMA LeastElement ==
    ASSUME NEW T, T \subseteq Nat, T # {}
    PROVE  \E x \in T : \A y \in T : x <= y
<1> DEFINE R == OpToRel(<, Nat)
<1>1. IsWellFoundedOn(R, Nat)
  BY NatLessThanWellFounded
<1>2. \A x, y \in T : y < x => <<y, x>> \in R
  BY DEF OpToRel
<1> HIDE DEF R
<1>3. PICK x \in T : \A y \in T : ~ (<<y, x>> \in R)
  BY <1>1, WFMin
<1>4. \A y \in T : ~(y < x)
  BY <1>2, <1>3
<1> QED
  BY <1>4

LEMMA StepByStep ==
    ASSUME NEW S, 0 \in S, NEW n \in Nat,
           \A k \in 1..n : k - 1 \in S => k \in S
    PROVE  \A k \in 0..n : k \in S
<1> SUFFICES ASSUME NEW k0 \in 0..n, k0 \notin S PROVE FALSE
  OBVIOUS
<1> DEFINE T == {k \in 0..n : k \notin S}
<1>1. PICK x \in T : \A y \in T : x <= y
  <2>1. T \subseteq Nat /\ T # {}
    OBVIOUS
  <2> HIDE DEF T
  <2> QED
    BY <2>1, LeastElement
<1>2. x \in 1..n
  OBVIOUS
<1>3. x - 1 \in 0..n /\ x - 1 \notin T
  BY <1>1, <1>2
<1> QED
  BY <1>2, <1>3

(* The byte order, and that ascending names differ. *)
Sooner(s, t) ==
    \/ Begins(s, t) /\ Len(s) < Len(t)
    \/ \E k \in 1..Len(s) : /\ k <= Len(t) /\ s[k] < t[k]
                            /\ \A j \in 1..k - 1 : s[j] = t[j]

LEMMA BytesAreNumbers ==
    ASSUME NEW s \in Bytes
    PROVE  Len(s) \in Nat /\ \A k \in 1..Len(s) : s[k] \in Int
<1>1. Len(s) \in Nat /\ \A k \in 1..Len(s) : s[k] \in Byte
  BY DEF Bytes
<1>2. Byte \subseteq Int
  BY DEF Byte
<1> QED
  BY <1>1, <1>2

LEMMA BeforeSooner ==
    ASSUME NEW s \in Bytes, NEW t \in Bytes, Before(s, t)
    PROVE  Sooner(s, t)
<1>1. CASE IsStrictPrefix(s, t)
  <2>1. Begins(s, t) /\ s # t
    BY <1>1, PrefixBegins DEF IsStrictPrefix
  <2>2. Len(s) # Len(t)
    BY <2>1 DEF Begins, Bytes
  <2> QED
    BY <2>1, <2>2 DEF Sooner, Begins, Bytes
<1>2. CASE ~IsStrictPrefix(s, t)
  <2>1. PICK k \in 1..Len(s) : /\ k <= Len(t) /\ s[k] < t[k]
                               /\ SubSeq(s, 1, k - 1) = SubSeq(t, 1, k - 1)
    BY <1>2 DEF Before
  <2>2. \A j \in 1..k - 1 : /\ SubSeq(s, 1, k - 1)[j] = s[j]
                            /\ SubSeq(t, 1, k - 1)[j] = t[j]
    BY <2>1 DEF Bytes
  <2>3. \A j \in 1..k - 1 : s[j] = t[j]
    BY <2>1, <2>2
  <2> QED
    BY <2>1, <2>3 DEF Sooner
<1> QED
  BY <1>1, <1>2

LEMMA SoonerDiffers ==
    ASSUME NEW s \in Bytes
    PROVE  ~Sooner(s, s)
BY BytesAreNumbers DEF Sooner

LEMMA SoonerTransitive ==
    ASSUME NEW r \in Bytes, NEW s \in Bytes, NEW t \in Bytes,
           Sooner(r, s), Sooner(s, t)
    PROVE  Sooner(r, t)
<1>1. CASE Begins(r, s) /\ Len(r) < Len(s) /\ Begins(s, t)
  BY <1>1, BeginsTransitive DEF Sooner, Begins, Bytes
<1>2. ASSUME Begins(r, s), Len(r) < Len(s), NEW k \in 1..Len(s),
             k <= Len(t), s[k] < t[k], \A j \in 1..k - 1 : s[j] = t[j]
      PROVE  Sooner(r, t)
  <2>1. CASE k <= Len(r)
    BY <1>2, <2>1 DEF Sooner, Begins, Bytes
  <2>2. CASE k > Len(r)
    BY <1>2, <2>2 DEF Sooner, Begins, Bytes
  <2> QED
    BY <2>1, <2>2 DEF Bytes
<1>3. ASSUME NEW k \in 1..Len(r), k <= Len(s), r[k] < s[k],
             \A j \in 1..k - 1 : r[j] = s[j], Begins(s, t)
      PROVE  Sooner(r, t)
  BY <1>3 DEF Sooner, Begins, Bytes
<1>4. ASSUME NEW k \in 1..Len(r), k <= Len(s), r[k] < s[k],
             \A j \in 1..k - 1 : r[j] = s[j],
             NEW m \in 1..Len(s), m <= Len(t), s[m] < t[m],
             \A j \in 1..m - 1 : s[j] = t[j]
      PROVE  Sooner(r, t)
  <2>1. CASE k < m
    BY <1>4, <2>1 DEF Sooner, Bytes
  <2>2. CASE k = m
    <3>1. r[k] \in Int /\ s[k] \in Int /\ t[k] \in Int
      BY <1>4, <2>2, BytesAreNumbers
    <3>2. r[k] < t[k] /\ k <= Len(t)
      BY <1>4, <2>2, <3>1
    <3>3. \A j \in 1..k - 1 : r[j] = t[j]
      BY <1>4, <2>2
    <3> QED
      BY <3>2, <3>3 DEF Sooner
  <2>3. CASE k > m
    BY <1>4, <2>3 DEF Sooner, Bytes
  <2> QED
    BY <2>1, <2>2, <2>3
<1>5. CASE Begins(r, s) /\ Len(r) < Len(s) /\ ~Begins(s, t)
  BY <1>2, <1>5 DEF Sooner
<1>6. CASE ~(Begins(r, s) /\ Len(r) < Len(s))
  <2>1. PICK k \in 1..Len(r) : /\ k <= Len(s) /\ r[k] < s[k]
                              /\ \A j \in 1..k - 1 : r[j] = s[j]
    BY <1>6 DEF Sooner
  <2>2. CASE Begins(s, t)
    BY <1>3, <2>1, <2>2
  <2>3. CASE ~Begins(s, t)
    <3>1. PICK m \in 1..Len(s) : /\ m <= Len(t) /\ s[m] < t[m]
                                /\ \A j \in 1..m - 1 : s[j] = t[j]
      BY <2>3 DEF Sooner
    <3> QED
      BY <1>4, <2>1, <3>1
  <2> QED
    BY <2>2, <2>3
<1> QED
  BY <1>1, <1>5, <1>6

LEMMA AscendingSooner ==
    ASSUME NEW es, Len(es) \in Nat, \A k \in 1..Len(es) : es[k].name \in Bytes,
           Ascending(es)
    PROVE  \A j, k \in 1..Len(es) : j < k => Sooner(es[j].name, es[k].name)
<1> SUFFICES ASSUME NEW j \in 1..Len(es)
             PROVE  \A k \in 1..Len(es) : j < k => Sooner(es[j].name, es[k].name)
  OBVIOUS
<1> DEFINE n == Len(es) - j
           S == {d \in Nat : d = 0 \/ (d <= n => Sooner(es[j].name, es[j + d].name))}
<1>1. \A d \in 1..n : d - 1 \in S => d \in S
  <2> SUFFICES ASSUME NEW d \in 1..n, d - 1 \in S PROVE d \in S
    OBVIOUS
  <2>1. j + d \in 1..Len(es) /\ j + d \in 2..Len(es) /\ (j + d) - 1 \in 1..Len(es)
    OBVIOUS
  <2>2. Before(es[(j + d) - 1].name, es[j + d].name)
    BY <2>1 DEF Ascending
  <2>3. Sooner(es[(j + d) - 1].name, es[j + d].name)
    BY <2>1, <2>2, BeforeSooner
  <2>4. CASE d = 1
    BY <2>3, <2>4
  <2>5. CASE d > 1
    <3>1. j + (d - 1) = (j + d) - 1
      OBVIOUS
    <3>2. Sooner(es[j].name, es[(j + d) - 1].name)
      BY <2>5, <3>1
    <3>3. Sooner(es[j].name, es[j + d].name)
      BY <2>1, <2>3, <3>2, SoonerTransitive
    <3> QED
      BY <3>3
  <2> QED
    BY <2>4, <2>5
<1>2. \A d \in 0..n : d \in S
  <2>1. 0 \in S /\ n \in Nat
    OBVIOUS
  <2> HIDE DEF S, n
  <2> QED
    BY <1>1, <2>1, StepByStep
<1> SUFFICES ASSUME NEW k \in 1..Len(es), j < k PROVE Sooner(es[j].name, es[k].name)
  OBVIOUS
<1>3. k - j \in 0..n /\ k - j # 0 /\ j + (k - j) = k
  OBVIOUS
<1> QED
  BY <1>2, <1>3

LEMMA AscendingDiffer ==
    ASSUME NEW es, Len(es) \in Nat, \A k \in 1..Len(es) : es[k].name \in Bytes,
           Ascending(es)
    PROVE  \A j, k \in 1..Len(es) : j < k => es[j].name # es[k].name
BY AscendingSooner, SoonerDiffers

(* As many names as entries. *)
LEMMA AsManyNames ==
    ASSUME NEW es, Len(es) \in Nat, DOMAIN es = 1..Len(es),
           \A j, k \in 1..Len(es) : j < k => es[j].name # es[k].name
    PROVE  /\ IsFiniteSet({e.name : e \in ToSet(es)})
           /\ Cardinality({e.name : e \in ToSet(es)}) = Len(es)
<1> DEFINE T == {e.name : e \in ToSet(es)}
           f == [k \in 1..Len(es) |-> es[k].name]
<1>1. T = {es[k].name : k \in 1..Len(es)}
  BY DEF ToSet
<1>2. f \in Bijection(1..Len(es), T)
  <2>1. f \in [1..Len(es) -> T]
    BY <1>1
  <2>2. \A j, k \in 1..Len(es) : f[j] = f[k] => j = k
    OBVIOUS
  <2>3. \A x \in T : \E k \in 1..Len(es) : f[k] = x
    BY <1>1
  <2> HIDE DEF f, T
  <2> QED
    BY <2>1, <2>2, <2>3 DEF Bijection, Injection, Surjection, IsInjective
<1>3. IsFiniteSet(1..Len(es)) /\ Cardinality(1..Len(es)) = Len(es)
  BY FS_Interval
<1>4. ExistsBijection(1..Len(es), T)
  BY <1>2 DEF ExistsBijection
<1> HIDE DEF T
<1>5. IsFiniteSet(T) /\ Cardinality(T) = Len(es)
  BY <1>3, <1>4, FS_Bijection
<1> QED
  BY <1>5 DEF T

(* The sums are those of the rows of SumOf. *)
LEMMA SumRows ==
    ASSUME NEW numbers, NEW L \in Nat, Len(numbers) = L
    PROVE  \E got : /\ SumOf(numbers) = got[L] /\ got[0] = 0
                    /\ \A k \in 1..L : got[k] = got[k - 1] + numbers[k]
<1> DEFINE Row(f, k) == IF k = 0 THEN 0 ELSE f[k - 1] + numbers[k]
           U(f) == f = [k \in 0..L |-> Row(f, k)]
           h    == CHOOSE f : U(f)
           S    == {j \in Nat : \E f : \A k \in 0..j : f[k] = Row(f, k)}
<1> HIDE DEF Row
<1>1. \A j \in 0..L : j \in S
  <2>1. 0 \in S
    <3> DEFINE f == [k \in 0..0 |-> 0]
    <3>1. \A k \in 0..0 : f[k] = Row(f, k)
      BY DEF Row
    <3> QED
      BY <3>1
  <2>2. \A j \in 1..L : j - 1 \in S => j \in S
    <3> SUFFICES ASSUME NEW j \in 1..L, j - 1 \in S PROVE j \in S
      OBVIOUS
    <3>1. PICK g : \A k \in 0..j - 1 : g[k] = Row(g, k)
      OBVIOUS
    <3> DEFINE f == [k \in 0..j |-> IF k < j THEN g[k] ELSE Row(g, j)]
    <3>2. ASSUME NEW k \in 0..j, k < j PROVE f[k] = Row(f, k)
      <4>1. f[k] = Row(g, k)
        BY <3>1, <3>2
      <4>2. k # 0 => f[k - 1] = g[k - 1]
        BY <3>2
      <4> HIDE DEF f
      <4> QED
        BY <4>1, <4>2 DEF Row
    <3>3. f[j] = Row(f, j)
      <4>1. f[j] = Row(g, j)
        OBVIOUS
      <4>2. f[j - 1] = g[j - 1]
        OBVIOUS
      <4> HIDE DEF f
      <4> QED
        BY <4>1, <4>2 DEF Row
    <3> HIDE DEF f
    <3>4. \A k \in 0..j : f[k] = Row(f, k)
      BY <3>2, <3>3
    <3> QED
      BY <3>4
  <2> HIDE DEF S
  <2> QED
    BY <2>1, <2>2, StepByStep
<1>2. U(h)
  <2>1. PICK g : \A k \in 0..L : g[k] = Row(g, k)
    <3>1. L \in S
      BY <1>1
    <3> QED
      BY <3>1
  <2> DEFINE f == [k \in 0..L |-> g[k]]
  <2>2. \A k \in 0..L : f[k] = Row(f, k)
    BY <2>1 DEF Row
  <2>3. U(f)
    BY <2>2
  <2> QED
    BY <2>3
<1>3. SumOf(numbers) = h[L]
  BY DEF SumOf, Row
<1> HIDE DEF h
<1>4. \A k \in 0..L : h[k] = Row(h, k)
  BY <1>2
<1> QED
  BY <1>3, <1>4 DEF Row

(* Only what was checked is held, and it is finitely many pages. *)
Linked(h) ==
    /\ IsFiniteSet(DOMAIN h)
    /\ \A r \in Bytes, label \in Byte : Append(r, label) \in DOMAIN h =>
         /\ r \in DOMAIN h /\ label \in ChildLabels(h[r])
         /\ VerifyReceivedChild(h[r], label, h[Append(r, label)])

LEMMA InitLinked == Init => Linked(held)
<1> SUFFICES ASSUME Init PROVE Linked(held)
  OBVIOUS
<1>1. DOMAIN held = {}
  BY DEF Init
<1> QED
  BY <1>1, FS_EmptySet DEF Linked

LEMMA AppendAgain ==
    ASSUME NEW r \in Bytes, NEW b \in Byte, NEW s \in Bytes, NEW c \in Byte,
           Append(r, b) = Append(s, c)
    PROVE  r = s /\ b = c
<1>1. Len(r) = Len(s)
  BY AppendBegins
<1>2. \A k \in 1..Len(r) : r[k] = s[k]
  <2>1. \A k \in 1..Len(r) : Append(r, b)[k] = r[k]
    BY AppendBegins, Zenon
  <2>2. \A k \in 1..Len(s) : Append(s, c)[k] = s[k]
    BY AppendBegins, Zenon
  <2> QED
    BY <1>1, <2>1, <2>2, Zenon
<1>3. Begins(r, s) /\ Begins(s, r)
  BY <1>1, <1>2, BytesAreNumbers DEF Begins
<1>4. b = c
  BY <1>1, AppendBegins
<1> QED
  BY <1>3, <1>4, BeginsBoth

LEMMA FetchRootLinked == IInv /\ Linked(held) /\ FetchRoot => Linked(held')
<1> SUFFICES ASSUME IInv, Linked(held), FetchRoot PROVE Linked(held')
  OBVIOUS
<1>1. << >> \notin DOMAIN held
  BY DEF FetchRoot
<1>2. DOMAIN held = {}
  <2>1. PICK due : Routed(held, due)
    BY DEF IInv
  <2>2. << >> \in Bytes /\ \A s \in Bytes : Begins(<< >>, s)
    BY DEF Begins, Bytes
  <2> QED
    BY <1>1, <2>1, <2>2 DEF Routed, Readable, FromTheRoot
<1>3. PICK page : Take(<< >>, page, PageId(page) = rootId /\ DecodeOk(page))
  BY DEF FetchRoot
<1> DEFINE ok == PageId(page) = rootId /\ DecodeOk(page)
<1>4. ok \in BOOLEAN /\ Take(<< >>, page, ok)
  BY <1>3 DEF DecodeOk
<1> HIDE DEF ok
<1>5. CASE ok
  <2>1. DOMAIN held' = {<< >>}
    BY <1>1, <1>2, <1>4, <1>5, Taken
  <2>2. IsFiniteSet(DOMAIN held')
    BY <2>1, FS_Singleton
  <2>3. \A r \in Bytes, label \in Byte : Append(r, label) # << >>
    <3> SUFFICES ASSUME NEW r \in Bytes, NEW label \in Byte
                 PROVE  Append(r, label) # << >>
      OBVIOUS
    <3>1. Len(Append(r, label)) = Len(r) + 1 /\ Len(r) \in Nat
      BY AppendBegins, BytesAreNumbers
    <3> QED
      BY <3>1
  <2> QED
    BY <2>1, <2>2, <2>3 DEF Linked
<1>6. CASE ~ok
  BY <1>1, <1>4, <1>6, Taken
<1> QED
  BY <1>5, <1>6

LEMMA FetchChildLinked == IInv /\ Linked(held) /\ FetchChild => Linked(held')
<1> SUFFICES ASSUME IInv, Linked(held), FetchChild PROVE Linked(held')
  OBVIOUS
<1>1. PICK due : Routed(held, due)
  BY DEF IInv
<1>2. PICK parent \in DOMAIN held : \E label \in ChildLabels(held[parent]) : \E page :
          /\ Append(parent, label) \notin DOMAIN held
          /\ Take(Append(parent, label), page,
                  VerifyReceivedChild(held[parent], label, page))
  BY DEF FetchChild
<1>3. PICK label \in ChildLabels(held[parent]) : \E page :
          /\ Append(parent, label) \notin DOMAIN held
          /\ Take(Append(parent, label), page,
                  VerifyReceivedChild(held[parent], label, page))
  BY <1>2
<1>4. PICK page :
          /\ Append(parent, label) \notin DOMAIN held
          /\ Take(Append(parent, label), page,
                  VerifyReceivedChild(held[parent], label, page))
  BY <1>3
<1> DEFINE route == Append(parent, label)
           ok == VerifyReceivedChild(held[parent], label, page)
<1>5. ok \in BOOLEAN /\ Take(route, page, ok) /\ route \notin DOMAIN held
  BY <1>4 DEF VerifyReceivedChild
<1>6. parent \in Bytes /\ label \in Byte
  BY <1>1, PageNames DEF Routed, Readable
<1>7. CASE ok
  <2>1. /\ DOMAIN held' = DOMAIN held \cup {route} /\ held'[route] = page
        /\ \A r \in DOMAIN held : held'[r] = held[r]
    <3> HIDE DEF route, ok
    <3> QED
      BY <1>5, <1>7, Taken
  <2>2. IsFiniteSet(DOMAIN held')
    BY <2>1, FS_AddElement DEF Linked
  <2>3. ASSUME NEW r \in Bytes, NEW b \in Byte, Append(r, b) \in DOMAIN held'
        PROVE  /\ r \in DOMAIN held' /\ b \in ChildLabels(held'[r])
               /\ VerifyReceivedChild(held'[r], b, held'[Append(r, b)])
    <3>1. CASE Append(r, b) \in DOMAIN held
      <4>1. /\ r \in DOMAIN held /\ b \in ChildLabels(held[r])
            /\ VerifyReceivedChild(held[r], b, held[Append(r, b)])
        BY <3>1 DEF Linked
      <4>2. r \in DOMAIN held' /\ held'[r] = held[r]
            /\ held'[Append(r, b)] = held[Append(r, b)]
        BY <2>1, <3>1, <4>1
      <4> QED
        BY <4>1, <4>2
    <3>2. CASE Append(r, b) = route
      <4>1. r = parent /\ b = label
        BY <1>6, <3>2, AppendAgain
      <4>2. held'[r] = held[parent] /\ held'[Append(r, b)] = page /\ r \in DOMAIN held'
        BY <2>1, <3>2, <4>1
      <4> QED
        BY <1>7, <4>1, <4>2
    <3> QED
      BY <2>1, <2>3, <3>1, <3>2
  <2> QED
    BY <2>2, <2>3 DEF Linked
<1>8. CASE ~ok
  <2>1. held' = held
    <3> HIDE DEF route, ok
    <3> QED
      BY <1>5, <1>8, Zenon DEF Take
  <2> QED
    BY <2>1
<1> QED
  BY <1>7, <1>8

(* The pages held below a route, the page there included, and their names. *)
Under(r)      == {s \in DOMAIN held : Begins(r, s)}
NamesUnder(r) == UNION {NamesOn(held[s]) : s \in Under(r)}

Counted(r) == /\ IsFiniteSet(NamesUnder(r))
              /\ Cardinality(NamesUnder(r)) = held[r].total

(* What a page holds itself: as many names as it says, or as it has         *)
(* terminal entries.                                                        *)
LEMMA LeafCounted ==
    ASSUME NEW page, DecodeOk(page), page.body.kind = "leaf"
    PROVE  IsFiniteSet(NamesOn(page)) /\ Cardinality(NamesOn(page)) = page.total
<1> DEFINE es == page.body.entries
<1>1. es \in Seq(RawEntry) /\ page.total = Len(es)
  BY DEF DecodeOk, PageValue
<1>2. \A k \in 1..Len(es) : es[k].name \in Name
  BY <1>1 DEF DecodeOk, EntryOk
<1>3. \A k \in 1..Len(es) : es[k].name \in Bytes
  BY <1>2, NameAssumption DEF Bytes
<1>4. Ascending(es)
  BY DecodedEncodes DEF EncodeOk
<1>5. Len(es) \in Nat /\ DOMAIN es = 1..Len(es)
  BY <1>1
<1>6. NamesOn(page) = {e.name : e \in ToSet(es)}
  BY DEF NamesOn, EntriesOn
<1> HIDE DEF es
<1>7. \A j, k \in 1..Len(es) : j < k => es[j].name # es[k].name
  BY <1>3, <1>4, <1>5, AscendingDiffer
<1> QED
  BY <1>1, <1>5, <1>6, <1>7, AsManyNames

LEMMA TerminalCounted ==
    ASSUME NEW page, DecodeOk(page), page.body.kind = "branch"
    PROVE  /\ IsFiniteSet(NamesOn(page)) /\ Len(page.body.terminal) \in Nat
           /\ Cardinality(NamesOn(page)) = Len(page.body.terminal)
<1> DEFINE es == page.body.terminal
<1>1. es \in Seq(RawEntry) /\ Len(es) <= 1
  BY DEF DecodeOk, PageValue
<1>2. Len(es) \in Nat /\ DOMAIN es = 1..Len(es)
  BY <1>1
<1>3. NamesOn(page) = {e.name : e \in ToSet(es)}
  BY DEF NamesOn, EntriesOn
<1>4. \A j, k \in 1..Len(es) : j < k => es[j].name # es[k].name
  BY <1>1, <1>2
<1> HIDE DEF es
<1>5. IsFiniteSet(NamesOn(page)) /\ Cardinality(NamesOn(page)) = Len(es)
  BY <1>2, <1>3, <1>4, AsManyNames
<1> QED
  BY <1>2, <1>5 DEF es

(* A branch: its children, each under a label of its own. *)
Family(page, cs) ==
    /\ Len(cs) \in Nat /\ DOMAIN cs = 1..Len(cs)
    /\ \A k \in 1..Len(cs) : cs[k].label \in Byte /\ cs[k].count \in Nat
    /\ \A j, k \in 1..Len(cs) : j < k => cs[j].label < cs[k].label
    /\ page.total = CountSum(cs) + Len(page.body.terminal)
    /\ ChildLabels(page) = {cs[k].label : k \in 1..Len(cs)}
    /\ \A k \in 1..Len(cs) : \A child \in ChildAt(page, cs[k].label) : child = cs[k]

LEMMA BranchChildren ==
    ASSUME NEW page, DecodeOk(page), page.body.kind = "branch"
    PROVE  Family(page, page.body.children)
<1> SUFFICES ASSUME NEW cs, cs = page.body.children PROVE Family(page, cs)
  OBVIOUS
<1>1. /\ cs = [k \in 1..Len(cs) |-> cs[k]] /\ Len(cs) <= BranchMaxChildren
      /\ \A k \in DOMAIN cs : cs[k].label \in Byte /\ cs[k].count \in U64
      /\ LabelsAscend(cs)
  BY DEF DecodeOk, PageValue
<1>2. DOMAIN cs = 1..Len(cs)
  BY <1>1, Zenon
<1>3. Len(cs) \in Nat
  BY <1>1, <1>2
<1>4. \A k \in 1..Len(cs) : cs[k].label \in Byte /\ cs[k].count \in Nat
  BY <1>1, <1>2 DEF U64
<1>5. \A k \in 1..Len(cs) : cs[k].label \in Int
  <2>1. Byte \subseteq Int
    BY DEF Byte
  <2> QED
    BY <1>4, <2>1
<1>6. \A j, k \in 1..Len(cs) : j < k => cs[j].label < cs[k].label
  <2> SUFFICES ASSUME NEW j \in 1..Len(cs)
               PROVE  \A k \in 1..Len(cs) : j < k => cs[j].label < cs[k].label
    OBVIOUS
  <2> DEFINE n == Len(cs) - j
             S == {d \in Nat : d = 0 \/ (d <= n => cs[j].label < cs[j + d].label)}
  <2>1. \A d \in 1..n : d - 1 \in S => d \in S
    <3> SUFFICES ASSUME NEW d \in 1..n, d - 1 \in S PROVE d \in S
      OBVIOUS
    <3>1. j + d \in 2..Len(cs) /\ (j + d) - 1 \in 1..Len(cs) /\ j + d \in 1..Len(cs)
      BY <1>3
    <3>2. cs[(j + d) - 1].label < cs[j + d].label
      BY <1>1, <3>1 DEF LabelsAscend
    <3>3. /\ cs[j].label \in Int /\ cs[j + d].label \in Int
          /\ cs[(j + d) - 1].label \in Int
      BY <1>5, <3>1
    <3>4. CASE d = 1
      BY <3>2, <3>4
    <3>5. CASE d > 1
      <4>1. j + (d - 1) = (j + d) - 1
        OBVIOUS
      <4>2. cs[j].label < cs[(j + d) - 1].label
        BY <3>5, <4>1
      <4>3. cs[j].label < cs[j + d].label
        <5> DEFINE a == cs[j].label
                   b == cs[(j + d) - 1].label
                   c == cs[j + d].label
        <5>1. a \in Int /\ b \in Int /\ c \in Int /\ a < b /\ b < c
          BY <3>2, <3>3, <4>2
        <5> HIDE DEF a, b, c
        <5>2. a < c
          BY <5>1
        <5> QED
          BY <5>2 DEF a, c
      <4> QED
        BY <4>3
    <3> QED
      BY <3>4, <3>5
  <2>2. \A d \in 0..n : d \in S
    <3>1. 0 \in S /\ n \in Nat
      BY <1>3
    <3> HIDE DEF S, n
    <3> QED
      BY <2>1, <3>1, StepByStep
  <2> SUFFICES ASSUME NEW k \in 1..Len(cs), j < k PROVE cs[j].label < cs[k].label
    OBVIOUS
  <2>3. k - j \in 0..n /\ k - j # 0 /\ j + (k - j) = k
    BY <1>3
  <2> DEFINE d == k - j
  <2>4. d \in S
    BY <2>2, <2>3, Zenon
  <2>5. d # 0 /\ d <= n /\ j + d = k
    BY <1>3, <2>3
  <2> HIDE DEF d, n
  <2>6. d <= n => cs[j].label < cs[j + d].label
    BY <2>4, <2>5
  <2> QED
    BY <2>5, <2>6, Zenon
<1>7. page.total = CountSum(cs) + Len(page.body.terminal)
  BY DEF DecodeOk, HeaderAgrees
<1>8. ChildLabels(page) = {cs[k].label : k \in 1..Len(cs)}
  BY <1>2 DEF ChildLabels, ToSet
<1>9. ASSUME NEW k \in 1..Len(cs), NEW child \in ChildAt(page, cs[k].label)
      PROVE  child = cs[k]
  <2>1. PICK j \in 1..Len(cs) : child = cs[j] /\ cs[j].label = cs[k].label
    BY <1>2 DEF ChildAt, ToSet
  <2>2. cs[j].label \in Int /\ ~(j < k) /\ ~(k < j)
    BY <1>6, <1>5, <2>1
  <2>3. j = k
    BY <1>3, <2>2
  <2> QED
    BY <2>1, <2>3
<1> QED
  BY <1>2, <1>3, <1>4, <1>6, <1>7, <1>8, <1>9 DEF Family

(* Below a branch whose children are all held: the branch, and what is      *)
(* below each of them, apart from each other.                               *)
Routes(r, cs) == [k \in 1..Len(cs) |-> Append(r, cs[k].label)]

Spread(r, cs, R) ==
    /\ \A k \in 1..Len(cs) :
         /\ R[k] \in DOMAIN held /\ held[R[k]].total = cs[k].count
         /\ Under(R[k]) \subseteq Under(r) /\ r \notin Under(R[k])
    /\ \A j, k \in 1..Len(cs) : j < k => Under(R[j]) \cap Under(R[k]) = {}
    /\ \A s \in Under(r) : s = r \/ \E k \in 1..Len(cs) : s \in Under(R[k])
    /\ r \in Under(r)

LEMMA UnderBranch ==
    ASSUME NEW due, Routed(held, due), Linked(held), Complete,
           NEW r \in DOMAIN held, held[r].body.kind = "branch"
    PROVE  Spread(r, held[r].body.children, Routes(r, held[r].body.children))
<1> DEFINE cs == held[r].body.children
           R == Routes(r, cs)
           n == Len(cs)
<1>1. DecodeOk(held[r]) /\ r \in Bytes /\ \A s \in DOMAIN held : s \in Bytes
  BY DEF Routed, Readable
<1>2. /\ n \in Nat /\ DOMAIN cs = 1..n
      /\ \A k \in 1..n : cs[k].label \in Byte /\ cs[k].count \in Nat
      /\ \A j, k \in 1..n : j < k => cs[j].label < cs[k].label
      /\ held[r].total = CountSum(cs) + Len(held[r].body.terminal)
      /\ ChildLabels(held[r]) = {cs[k].label : k \in 1..n}
      /\ \A k \in 1..n : \A child \in ChildAt(held[r], cs[k].label) : child = cs[k]
  <2>1. Family(held[r], cs)
    BY <1>1, BranchChildren
  <2> HIDE DEF cs
  <2> QED
    BY <2>1 DEF Family
<1>3. \A k \in 1..n : R[k] = Append(r, cs[k].label)
  BY DEF Routes
<1> HIDE DEF cs, R, n
<1>4. ASSUME NEW k \in 1..n
      PROVE  /\ R[k] \in Bytes /\ Len(R[k]) = Len(r) + 1 /\ Begins(r, R[k])
             /\ R[k][Len(r) + 1] = cs[k].label
  <2>1. cs[k].label \in Byte /\ R[k] = Append(r, cs[k].label)
    BY <1>2, <1>3
  <2> QED
    BY <1>1, <2>1, AppendBegins
<1>5. ASSUME NEW k \in 1..n PROVE R[k] \in DOMAIN held
  <2>1. cs[k].label \in ChildLabels(held[r])
    BY <1>2
  <2> QED
    BY <1>3, <2>1 DEF Complete
<1>6. ASSUME NEW k \in 1..n PROVE held[R[k]].total = cs[k].count
  <2>1. VerifyReceivedChild(held[r], cs[k].label, held[R[k]])
    <3>1. cs[k].label \in Byte /\ R[k] = Append(r, cs[k].label) /\ R[k] \in DOMAIN held
      BY <1>2, <1>3, <1>5
    <3> QED
      BY <1>1, <3>1 DEF Linked
  <2>2. PICK child \in ChildAt(held[r], cs[k].label) : held[R[k]].total = child.count
    BY <2>1 DEF VerifyReceivedChild
  <2> QED
    BY <1>2, <2>2
<1>7. ASSUME NEW k \in 1..n PROVE Under(R[k]) \subseteq Under(r) /\ r \notin Under(R[k])
  <2>1. \A s \in Under(R[k]) : s \in Under(r)
    BY <1>1, <1>4, BeginsTransitive DEF Under
  <2>2. ~Begins(R[k], r)
    BY <1>1, <1>4, BytesAreNumbers DEF Begins
  <2> QED
    BY <2>1, <2>2 DEF Under
<1>8. ASSUME NEW j \in 1..n, NEW k \in 1..n, j < k
      PROVE  Under(R[j]) \cap Under(R[k]) = {}
  <2>1. cs[j].label # cs[k].label
    <3>1. cs[j].label < cs[k].label /\ cs[j].label \in Byte
      BY <1>2, <1>8
    <3>2. cs[j].label \in Int
      <4>1. Byte \subseteq Int
        BY DEF Byte
      <4> QED
        BY <3>1, <4>1
    <3> QED
      BY <3>1, <3>2
  <2>2. Apart(R[j], R[k])
    BY <1>1, <1>2, <1>3, <2>1, LabelsPart
  <2> QED
    BY <1>1, <1>4, <2>2, BeginsSame DEF Under
<1>9. ASSUME NEW s \in Under(r), s # r
      PROVE  \E k \in 1..n : s \in Under(R[k])
  <2>1. s \in DOMAIN held /\ s \in Bytes /\ Begins(r, s)
    BY <1>1 DEF Under
  <2>2. Len(r) < Len(s)
    <3>1. Len(r) <= Len(s) /\ Len(r) \in Nat /\ Len(s) \in Nat
      BY <1>1, <2>1, BytesAreNumbers DEF Begins
    <3>2. Len(r) # Len(s)
      <4>1. SUFFICES ASSUME Len(r) = Len(s) PROVE FALSE
        OBVIOUS
      <4>2. Begins(s, r)
        BY <2>1, <4>1 DEF Begins
      <4> QED
        BY <1>1, <1>9, <2>1, <4>2, BeginsBoth
    <3> QED
      BY <3>1, <3>2
  <2> DEFINE b == s[Len(r) + 1]
             q == Append(r, b)
  <2>3. b \in Byte
    BY <1>1, <2>1, <2>2 DEF Bytes
  <2>4. /\ q \in Bytes /\ Len(q) = Len(r) + 1 /\ q[Len(r) + 1] = b
        /\ \A k \in 1..Len(r) : q[k] = r[k]
    BY <1>1, <2>3, AppendBegins
  <2>5. Begins(q, s)
    <3>1. Len(r) \in Nat /\ Len(s) \in Nat
      BY <1>1, <2>1, BytesAreNumbers
    <3>2. \A k \in 1..Len(r) : q[k] = s[k]
      BY <2>1, <2>4 DEF Begins
    <3> HIDE DEF q
    <3> QED
      BY <2>2, <2>4, <3>1, <3>2 DEF Begins
  <2>6. q \in DOMAIN held
    <3> HIDE DEF q
    <3> QED
      BY <2>1, <2>4, <2>5 DEF Routed, FromTheRoot
  <2>7. b \in ChildLabels(held[r])
    BY <1>1, <2>3, <2>6 DEF Linked
  <2>8. PICK k \in 1..n : b = cs[k].label
    BY <1>2, <2>7
  <2>9. R[k] = q
    BY <1>3, <2>8
  <2> QED
    BY <2>1, <2>5, <2>9 DEF Under
<1>10. r \in Under(r)
  BY <1>1, BytesAreNumbers DEF Under, Begins
<1> QED
  BY <1>5, <1>6, <1>7, <1>8, <1>9, <1>10 DEF n, Spread, R, cs

LEMMA UnderLeaf ==
    ASSUME NEW due, Routed(held, due),
           NEW r \in DOMAIN held, held[r].body.kind # "branch"
    PROVE  NamesUnder(r) = NamesOn(held[r])
<1>1. r \in Under(r)
  BY BytesAreNumbers DEF Routed, Readable, Under, Begins
<1>2. \A s \in Under(r) : s = r
  BY DEF Under, Routed, Below
<1> QED
  BY <1>1, <1>2 DEF NamesUnder

(* Sets without a common element. *)
LEMMA CountApart ==
    ASSUME NEW S, NEW T, IsFiniteSet(S), IsFiniteSet(T), S \cap T = {}
    PROVE  /\ IsFiniteSet(S \cup T)
           /\ Cardinality(S \cup T) = Cardinality(S) + Cardinality(T)
<1>1. Cardinality({}) = 0 /\ Cardinality(S) \in Nat /\ Cardinality(T) \in Nat
  BY FS_EmptySet, FS_CardinalityType
<1>2. /\ IsFiniteSet(S \cup T)
      /\ Cardinality(S \cup T) = Cardinality(S) + Cardinality(T) - Cardinality(S \cap T)
  BY FS_Union
<1>3. Cardinality(S \cap T) = 0
  BY <1>1
<1> QED
  BY <1>1, <1>2, <1>3

LEMMA BranchCounted ==
    ASSUME NEW due, Routed(held, due), Linked(held), Complete, OnePlace,
           NEW r \in DOMAIN held, held[r].body.kind = "branch",
           \A k \in 1..Len(held[r].body.children) :
               Counted(Routes(r, held[r].body.children)[k])
    PROVE  Counted(r)
<1> DEFINE cs == held[r].body.children
           R == Routes(r, cs)
           n == Len(cs)
           own == NamesOn(held[r])
           t == Len(held[r].body.terminal)
           Upto(k) == own \cup UNION {NamesUnder(R[j]) : j \in 1..k}
<1>1. DecodeOk(held[r])
  BY DEF Routed, Readable
<1>2. /\ n \in Nat /\ \A k \in 1..n : cs[k].count \in Nat
      /\ held[r].total = CountSum(cs) + t /\ DOMAIN cs = 1..n
  <2>1. Family(held[r], cs)
    BY <1>1, BranchChildren
  <2> HIDE DEF cs
  <2> QED
    BY <2>1 DEF Family
<1>3. IsFiniteSet(own) /\ t \in Nat /\ Cardinality(own) = t
  BY <1>1, TerminalCounted
<1>4. /\ \A k \in 1..n : /\ R[k] \in DOMAIN held /\ held[R[k]].total = cs[k].count
                         /\ Under(R[k]) \subseteq Under(r) /\ r \notin Under(R[k])
      /\ \A j, k \in 1..n : j < k => Under(R[j]) \cap Under(R[k]) = {}
      /\ \A s \in Under(r) : s = r \/ \E k \in 1..n : s \in Under(R[k])
      /\ r \in Under(r)
  <2>1. Spread(r, cs, R)
    BY UnderBranch
  <2> HIDE DEF cs, R
  <2> QED
    BY <2>1 DEF Spread
<1>5. PICK got : /\ CountSum(cs) = got[n] /\ got[0] = 0
                 /\ \A k \in 1..n : got[k] = got[k - 1] + cs[k].count
  <2> DEFINE numbers == [k \in DOMAIN cs |-> cs[k].count]
  <2>1. Len(numbers) = n /\ \A k \in 1..n : numbers[k] = cs[k].count
    BY <1>2
  <2>2. CountSum(cs) = SumOf(numbers)
    BY DEF CountSum
  <2> HIDE DEF numbers, n
  <2>3. PICK got : /\ SumOf(numbers) = got[n] /\ got[0] = 0
                   /\ \A k \in 1..n : got[k] = got[k - 1] + numbers[k]
    BY <1>2, <2>1, SumRows
  <2> QED
    BY <2>1, <2>2, <2>3
<1>6. \A k \in 1..n : Counted(R[k])
  OBVIOUS
<1> HIDE DEF cs, R
<1>7. \A k \in 1..n : /\ IsFiniteSet(NamesUnder(R[k]))
                      /\ Cardinality(NamesUnder(R[k])) = cs[k].count
  BY <1>4, <1>6 DEF Counted
<1>8. \A k \in 1..n : Upto(k - 1) \cap NamesUnder(R[k]) = {}
  <2> SUFFICES ASSUME NEW k \in 1..n, NEW x, x \in Upto(k - 1), x \in NamesUnder(R[k])
               PROVE  FALSE
    OBVIOUS
  <2>1. PICK s \in Under(R[k]) : x \in NamesOn(held[s])
    BY DEF NamesUnder
  <2>2. s \in DOMAIN held
    BY <2>1 DEF Under
  <2>3. CASE x \in own
    <3>1. s # r
      BY <1>4, <2>1, Zenon
    <3> QED
      BY <2>1, <2>2, <2>3, <3>1 DEF OnePlace
  <2>4. CASE x \notin own
    <3>1. PICK j \in 1..k - 1 : x \in NamesUnder(R[j])
      BY <2>4
    <3>2. PICK q \in Under(R[j]) : x \in NamesOn(held[q])
      BY <3>1 DEF NamesUnder
    <3>3. j \in 1..n /\ j < k
      BY <1>2
    <3>4. Under(R[j]) \cap Under(R[k]) = {}
      BY <1>4, <3>3, Zenon
    <3>5. q # s /\ q \in DOMAIN held
      BY <2>1, <3>2, <3>4, Zenon DEF Under
    <3> QED
      BY <2>1, <2>2, <3>2, <3>5, Zenon DEF OnePlace
  <2> QED
    BY <2>3, <2>4
<1> DEFINE S == {k \in Nat : /\ got[k] \in Nat /\ IsFiniteSet(Upto(k))
                             /\ Cardinality(Upto(k)) = t + got[k]}
<1>9. 0 \in S
  <2>1. Upto(0) = own
    OBVIOUS
  <2> HIDE DEF Upto
  <2> QED
    BY <1>3, <1>5, <2>1
<1>10. \A k \in 1..n : k - 1 \in S => k \in S
  <2> SUFFICES ASSUME NEW k \in 1..n, k - 1 \in S PROVE k \in S
    OBVIOUS
  <2>1. k \in Nat /\ got[k - 1] \in Nat /\ IsFiniteSet(Upto(k - 1))
        /\ Cardinality(Upto(k - 1)) = t + got[k - 1]
    OBVIOUS
  <2>2. Upto(k) = Upto(k - 1) \cup NamesUnder(R[k])
    <3>1. 1..k = (1..k - 1) \cup {k}
      OBVIOUS
    <3> QED
      BY <3>1
  <2>3. IsFiniteSet(NamesUnder(R[k])) /\ Cardinality(NamesUnder(R[k])) = cs[k].count
    BY <1>7
  <2>4. Upto(k - 1) \cap NamesUnder(R[k]) = {}
    BY <1>8
  <2> HIDE DEF Upto
  <2>5. /\ IsFiniteSet(Upto(k))
        /\ Cardinality(Upto(k)) = (t + got[k - 1]) + cs[k].count
    <3> DEFINE a == Upto(k - 1)
               b == NamesUnder(R[k])
    <3>1. IsFiniteSet(a) /\ IsFiniteSet(b) /\ a \cap b = {}
      BY <2>1, <2>3, <2>4
    <3>2. Upto(k) = a \cup b
      BY <2>2
    <3>3. Cardinality(a) = t + got[k - 1] /\ Cardinality(b) = cs[k].count
      BY <2>1, <2>3
    <3> HIDE DEF a, b
    <3>4. IsFiniteSet(a \cup b) /\ Cardinality(a \cup b) = Cardinality(a) + Cardinality(b)
      BY <3>1, CountApart
    <3> QED
      BY <3>2, <3>3, <3>4, Zenon
  <2>6. cs[k].count \in Nat /\ got[k] = got[k - 1] + cs[k].count
    BY <1>2, <1>5
  <2> HIDE DEF n, t
  <2> QED
    BY <1>3, <2>1, <2>5, <2>6
<1>11. n \in S
  <2> HIDE DEF S, n
  <2>1. \A k \in 0..n : k \in S
    BY <1>2, <1>9, <1>10, StepByStep
  <2> QED
    BY <1>2, <2>1
<1>12. NamesUnder(r) = Upto(n)
  <2>1. ASSUME NEW x \in NamesUnder(r) PROVE x \in Upto(n)
    <3>1. PICK s \in Under(r) : x \in NamesOn(held[s])
      BY DEF NamesUnder
    <3>2. CASE s = r
      BY <3>1, <3>2
    <3>3. CASE s # r
      <4>1. PICK k \in 1..n : s \in Under(R[k])
        BY <1>4, <3>3
      <4>2. x \in NamesUnder(R[k])
        BY <3>1, <4>1 DEF NamesUnder
      <4> QED
        BY <4>2
    <3> QED
      BY <3>2, <3>3
  <2>2. ASSUME NEW x \in Upto(n) PROVE x \in NamesUnder(r)
    <3>1. CASE x \in own
      BY <1>4, <3>1 DEF NamesUnder
    <3>2. CASE x \notin own
      <4>1. PICK k \in 1..n : x \in NamesUnder(R[k])
        BY <2>2, <3>2
      <4>2. PICK s \in Under(R[k]) : x \in NamesOn(held[s])
        BY <4>1 DEF NamesUnder
      <4>3. s \in Under(r)
        BY <1>4, <4>2
      <4> QED
        BY <4>2, <4>3 DEF NamesUnder
    <3> QED
      BY <3>1, <3>2
  <2> HIDE DEF Upto
  <2> QED
    BY <2>1, <2>2
<1>13. /\ got[n] \in Nat /\ IsFiniteSet(Upto(n))
       /\ Cardinality(Upto(n)) = t + got[n]
  BY <1>11
<1> HIDE DEF Upto, n, t
<1> QED
  BY <1>2, <1>3, <1>5, <1>12, <1>13 DEF Counted

(* A complete tree: every page held counts what is below it. *)
LEMMA AllCounted ==
    ASSUME NEW due, Routed(held, due), Linked(held), Complete, OnePlace
    PROVE  \A r \in DOMAIN held : Counted(r)
<1> SUFFICES ASSUME NEW r0 \in DOMAIN held, ~Counted(r0) PROVE FALSE
  OBVIOUS
<1> DEFINE bad == {r \in DOMAIN held : ~Counted(r)}
           T == {Cardinality(Under(r)) : r \in bad}
<1>1. \A r \in DOMAIN held : IsFiniteSet(Under(r)) /\ Cardinality(Under(r)) \in Nat
  <2> SUFFICES ASSUME NEW r \in DOMAIN held
               PROVE  IsFiniteSet(Under(r)) /\ Cardinality(Under(r)) \in Nat
    OBVIOUS
  <2>1. Under(r) \in SUBSET DOMAIN held /\ IsFiniteSet(DOMAIN held)
    BY DEF Under, Linked
  <2>2. IsFiniteSet(Under(r))
    BY <2>1, FS_Subset
  <2> QED
    BY <2>2, FS_CardinalityType
<1>2. PICK x \in T : \A y \in T : x <= y
  <2>1. T \subseteq Nat /\ T # {}
    BY <1>1
  <2> HIDE DEF T
  <2> QED
    BY <2>1, LeastElement
<1>3. PICK r \in bad : x = Cardinality(Under(r))
  OBVIOUS
<1>4. r \in DOMAIN held /\ ~Counted(r) /\ DecodeOk(held[r])
  BY DEF Routed, Readable
<1>5. CASE held[r].body.kind # "branch"
  <2>1. held[r].body.kind = "leaf"
    BY <1>4, <1>5, PageNames
  <2>2. NamesUnder(r) = NamesOn(held[r])
    BY <1>4, <1>5, UnderLeaf
  <2> QED
    BY <1>4, <2>1, <2>2, LeafCounted DEF Counted
<1>6. CASE held[r].body.kind = "branch"
  <2> DEFINE cs == held[r].body.children
             R == Routes(r, cs)
  <2>1. /\ \A k \in 1..Len(cs) :
             /\ R[k] \in DOMAIN held /\ held[R[k]].total = cs[k].count
             /\ Under(R[k]) \subseteq Under(r) /\ r \notin Under(R[k])
        /\ \A j, k \in 1..Len(cs) : j < k => Under(R[j]) \cap Under(R[k]) = {}
        /\ \A s \in Under(r) : s = r \/ \E k \in 1..Len(cs) : s \in Under(R[k])
        /\ r \in Under(r)
    <3>1. Spread(r, cs, R)
      BY <1>4, <1>6, UnderBranch
    <3> HIDE DEF bad, R, cs
    <3> QED
      BY <3>1 DEF Spread
  <2>2. ASSUME NEW k \in 1..Len(cs) PROVE Counted(R[k])
    <3> DEFINE q == R[k]
    <3>1. q \in DOMAIN held /\ Under(q) \subseteq Under(r) /\ Under(q) # Under(r)
      BY <2>1
    <3> HIDE DEF q
    <3>2. Cardinality(Under(q)) < Cardinality(Under(r))
      <4>1. /\ Cardinality(Under(q)) <= Cardinality(Under(r))
            /\ Cardinality(Under(r)) = Cardinality(Under(q)) => Under(r) = Under(q)
        BY <1>1, <1>4, <3>1, FS_Subset
      <4>2. Cardinality(Under(q)) \in Nat /\ Cardinality(Under(r)) \in Nat
        BY <1>1, <1>4, <3>1
      <4> QED
        BY <3>1, <4>1, <4>2
    <3>3. q \notin bad
      <4>1. SUFFICES ASSUME q \in bad PROVE FALSE
        OBVIOUS
      <4>2. Cardinality(Under(q)) \in T
        BY <4>1
      <4>3. Cardinality(Under(r)) <= Cardinality(Under(q))
        BY <1>2, <1>3, <4>2
      <4> QED
        BY <1>1, <1>4, <3>1, <3>2, <4>3
    <3> QED
      BY <3>1, <3>3 DEF q
  <2>3. Counted(r)
    <3>1. \A k \in 1..Len(cs) : Counted(R[k])
      BY <2>2
    <3> HIDE DEF bad
    <3> QED
      BY <1>4, <1>6, <3>1, BranchCounted
  <2> QED
    BY <1>4, <2>3
<1> QED
  BY <1>5, <1>6

(* The names of a complete tree are as many as its root says, whoever put   *)
(* it together: checking the count of every edge is enough.                 *)
THEOREM NamesAreCounted == Spec => []CountsAddUp
<1>1. Init => IInv /\ Linked(held)
  BY InitRouted, InitLinked
<1>2. IInv /\ Linked(held) /\ [Next]_vars => (IInv /\ Linked(held))'
  <2> SUFFICES ASSUME IInv, Linked(held), [Next]_vars PROVE IInv' /\ Linked(held')
    OBVIOUS
  <2>1. CASE FetchRoot
    BY <2>1, FetchRootRouted, FetchRootLinked
  <2>2. CASE FetchChild
    BY <2>2, FetchChildRouted, FetchChildLinked
  <2>3. CASE UNCHANGED vars
    BY <2>3 DEF IInv, vars
  <2> QED
    BY <2>1, <2>2, <2>3 DEF Next
<1>3. IInv /\ Linked(held) => CountsAddUp
  <2> SUFFICES ASSUME IInv, Linked(held), Complete
               PROVE  Cardinality({e.name : e \in Listed}) = held[<< >>].total
    BY DEF CountsAddUp
  <2>1. PICK due : Routed(held, due)
    BY DEF IInv
  <2>2. OnePlace
    BY <2>1, RoutedOnePlace
  <2>3. Counted(<< >>)
    BY <2>1, <2>2, AllCounted DEF Complete
  <2>4. Under(<< >>) = DOMAIN held
    <3>1. \A s \in DOMAIN held : s \in Bytes
      BY <2>1 DEF Routed, Readable
    <3>2. \A s \in Bytes : Begins(<< >>, s)
      BY DEF Begins, Bytes
    <3> QED
      BY <3>1, <3>2 DEF Under
  <2>5. NamesUnder(<< >>) = {e.name : e \in Listed}
    BY <2>4 DEF NamesUnder, NamesOn, Listed
  <2> QED
    BY <2>3, <2>5 DEF Counted
<1> QED
  BY <1>1, <1>2, <1>3, PTL DEF Spec

-----------------------------------------------------------------------------
(* Directories of an honest publisher: entries in order, and what selecting *)
(* and grouping them by a label keeps of that.                              *)
LEMMA SoonerBefore ==
    ASSUME NEW s \in Bytes, NEW t \in Bytes, Sooner(s, t)
    PROVE  Before(s, t)
<1>1. CASE Begins(s, t) /\ Len(s) < Len(t)
  <2>1. s # t
    BY <1>1 DEF Bytes
  <2> QED
    BY <1>1, <2>1, PrefixBegins DEF Before, IsStrictPrefix
<1>2. CASE ~(Begins(s, t) /\ Len(s) < Len(t))
  <2>1. PICK k \in 1..Len(s) : /\ k <= Len(t) /\ s[k] < t[k]
                              /\ \A j \in 1..k - 1 : s[j] = t[j]
    BY <1>2 DEF Sooner
  <2> DEFINE p == SubSeq(s, 1, k - 1)
             q == SubSeq(t, 1, k - 1)
  <2>2. /\ p \in Bytes /\ q \in Bytes /\ Len(p) = k - 1 /\ Len(q) = k - 1
        /\ \A j \in 1..k - 1 : p[j] = s[j] /\ q[j] = t[j]
    BY <2>1 DEF Bytes
  <2>3. \A j \in 1..k - 1 : p[j] = q[j]
    BY <2>1, <2>2
  <2>4. p = q
    <3> HIDE DEF p, q
    <3> QED
      BY <2>2, <2>3 DEF Bytes
  <2> QED
    BY <2>1, <2>4 DEF Before
<1> QED
  BY <1>1, <1>2

(* Entries in order, whatever their number. *)
InOrder(es) == \A j, k \in 1..Len(es) : j < k => Sooner(es[j].name, es[k].name)

LEMMA InputInOrder ==
    ASSUME NEW es \in Seq(Entry)
    PROVE  BuildInput(es) <=> /\ \A k \in 1..Len(es) : EntryOk(es[k])
                              /\ InOrder(es)
<1>1. Len(es) \in Nat /\ DOMAIN es = 1..Len(es)
  OBVIOUS
<1>2. ASSUME \A k \in 1..Len(es) : EntryOk(es[k])
      PROVE  \A k \in 1..Len(es) : es[k].name \in Bytes
  BY <1>2, NameAssumption DEF EntryOk, Bytes
<1>3. ASSUME BuildInput(es)
      PROVE  \A k \in 1..Len(es) : EntryOk(es[k]) /\ InOrder(es)
  <2>1. Ascending(es) /\ \A k \in 1..Len(es) : EntryOk(es[k])
    BY <1>1, <1>3 DEF BuildInput
  <2> QED
    BY <1>1, <1>2, <2>1, AscendingSooner DEF InOrder
<1>4. ASSUME InOrder(es), \A k \in 1..Len(es) : EntryOk(es[k])
      PROVE  BuildInput(es)
  <2>1. ASSUME NEW k \in 2..Len(es)
        PROVE  Before(es[k - 1].name, es[k].name)
    <3>1. k - 1 \in 1..Len(es) /\ k \in 1..Len(es) /\ k - 1 < k
      BY <1>1
    <3> QED
      BY <1>2, <1>4, <3>1, SoonerBefore DEF InOrder
  <2> QED
    BY <1>1, <1>4, <2>1 DEF BuildInput, Ascending
<1>5. BuildInput(es) => \A k \in 1..Len(es) : EntryOk(es[k])
  BY <1>1 DEF BuildInput
<1>6. BuildInput(es) => InOrder(es)
  <2>1. CASE Len(es) = 0
    BY <2>1 DEF InOrder
  <2>2. CASE Len(es) # 0
    BY <1>1, <1>3, <2>2
  <2> QED
    BY <2>1, <2>2
<1> QED
  BY <1>4, <1>5, <1>6

(* What follows in the order, after the same bytes, goes on with the same   *)
(* byte or a larger one.                                                    *)
LEMMA LabelsFollow ==
    ASSUME NEW p \in Bytes, NEW s \in Bytes, NEW t \in Bytes,
           Begins(p, s), Begins(p, t), s # p, t # p
    PROVE  /\ Len(p) < Len(s) /\ Len(p) < Len(t)
           /\ s[Len(p) + 1] \in Byte /\ t[Len(p) + 1] \in Byte
           /\ Sooner(s, t) => s[Len(p) + 1] <= t[Len(p) + 1]
<1>1. Len(p) \in Nat /\ Len(s) \in Nat /\ Len(t) \in Nat
  BY DEF Bytes
<1>2. ASSUME NEW u \in Bytes, Begins(p, u), u # p
      PROVE  Len(p) < Len(u) /\ u[Len(p) + 1] \in Byte
  <2>1. Len(u) # Len(p)
    <3>1. Len(u) = Len(p) => Begins(u, p)
      BY <1>2 DEF Begins
    <3> QED
      BY <1>2, <3>1, BeginsBoth
  <2>2. Len(p) < Len(u)
    BY <1>2, <2>1 DEF Begins, Bytes
  <2> QED
    BY <1>1, <2>2 DEF Bytes
<1>3. Len(p) < Len(s) /\ Len(p) < Len(t) /\ s[Len(p) + 1] \in Byte /\ t[Len(p) + 1] \in Byte
  BY <1>2
<1>4. s[Len(p) + 1] \in Int /\ t[Len(p) + 1] \in Int
  BY <1>1, <1>3, BytesAreNumbers
<1>5. ASSUME Sooner(s, t) PROVE s[Len(p) + 1] <= t[Len(p) + 1]
  <2>1. CASE Begins(s, t)
    <3>1. s[Len(p) + 1] = t[Len(p) + 1]
      BY <1>1, <1>3, <2>1 DEF Begins
    <3> QED
      BY <1>4, <3>1
  <2>2. CASE ~Begins(s, t)
    <3>1. PICK k \in 1..Len(s) : /\ k <= Len(t) /\ s[k] < t[k]
                                /\ \A j \in 1..k - 1 : s[j] = t[j]
      BY <1>5, <2>2 DEF Sooner
    <3>2. CASE k <= Len(p)
      <4>1. s[k] = t[k] /\ s[k] \in Int
        BY <1>1, <3>2, BytesAreNumbers DEF Begins
      <4> QED
        BY <3>1, <4>1
    <3>3. CASE k = Len(p) + 1
      BY <1>4, <3>1, <3>3
    <3>4. CASE k > Len(p) + 1
      <4>1. Len(p) + 1 \in 1..k - 1
        BY <1>1, <3>4
      <4> QED
        BY <1>4, <3>1, <4>1
    <3> QED
      BY <1>1, <3>2, <3>3, <3>4
  <2> QED
    BY <2>1, <2>2
<1> QED
  BY <1>3, <1>5

-----------------------------------------------------------------------------
(* The rows of Selected and of Groups. *)
Goes(e, prefix, labels) == e.name # prefix /\ e.name[Len(prefix) + 1] \in labels

Picks(es, prefix, labels, n, got) ==
    /\ got[0] = << >>
    /\ \A k \in 1..n : got[k] = IF Goes(es[k], prefix, labels)
                               THEN Append(got[k - 1], es[k]) ELSE got[k - 1]

LEMMA SelectRows ==
    ASSUME NEW es, NEW L \in Nat, Len(es) = L, NEW prefix, NEW labels
    PROVE  \E got : Selected(es, prefix, labels) = got[L] /\ Picks(es, prefix, labels, L, got)
<1> DEFINE Row(f, k) == IF k = 0 THEN << >> ELSE
                            IF Goes(es[k], prefix, labels)
                            THEN Append(f[k - 1], es[k]) ELSE f[k - 1]
           U(f) == f = [k \in 0..L |-> Row(f, k)]
           h    == CHOOSE f : U(f)
           S    == {j \in Nat : \E f : \A k \in 0..j : f[k] = Row(f, k)}
<1> HIDE DEF Row
<1>1. \A j \in 0..L : j \in S
  <2>1. 0 \in S
    <3> DEFINE f == [k \in 0..0 |-> << >>]
    <3>1. \A k \in 0..0 : f[k] = Row(f, k)
      BY DEF Row
    <3> QED
      BY <3>1
  <2>2. \A j \in 1..L : j - 1 \in S => j \in S
    <3> SUFFICES ASSUME NEW j \in 1..L, j - 1 \in S PROVE j \in S
      OBVIOUS
    <3>1. PICK g : \A k \in 0..j - 1 : g[k] = Row(g, k)
      OBVIOUS
    <3> DEFINE f == [k \in 0..j |-> IF k < j THEN g[k] ELSE Row(g, j)]
    <3>2. ASSUME NEW k \in 0..j, k < j PROVE f[k] = Row(f, k)
      <4>1. f[k] = Row(g, k)
        BY <3>1, <3>2
      <4>2. k # 0 => f[k - 1] = g[k - 1]
        BY <3>2
      <4> HIDE DEF f
      <4> QED
        BY <4>1, <4>2 DEF Row
    <3>3. f[j] = Row(f, j)
      <4>1. f[j] = Row(g, j)
        OBVIOUS
      <4>2. f[j - 1] = g[j - 1]
        OBVIOUS
      <4> HIDE DEF f
      <4> QED
        BY <4>1, <4>2 DEF Row
    <3> HIDE DEF f
    <3>4. \A k \in 0..j : f[k] = Row(f, k)
      BY <3>2, <3>3
    <3> QED
      BY <3>4
  <2> HIDE DEF S
  <2> QED
    BY <2>1, <2>2, StepByStep
<1>2. U(h)
  <2>1. PICK g : \A k \in 0..L : g[k] = Row(g, k)
    <3>1. L \in S
      BY <1>1
    <3> QED
      BY <3>1
  <2> DEFINE f == [k \in 0..L |-> g[k]]
  <2>2. \A k \in 0..L : f[k] = Row(f, k)
    BY <2>1 DEF Row
  <2>3. U(f)
    BY <2>2
  <2> QED
    BY <2>3
<1>3. Selected(es, prefix, labels) = h[L]
  BY DEF Selected, Goes, Row
<1> HIDE DEF h
<1>4. \A k \in 0..L : h[k] = Row(h, k)
  BY <1>2
<1>5. Picks(es, prefix, labels, L, h)
  BY <1>4 DEF Row, Picks
<1> QED
  BY <1>3, <1>5, Zenon

Cuts(es, prefix, n, got) ==
    /\ got[0] = << >>
    /\ \A k \in 1..n : got[k] = IF es[k].name = prefix THEN got[k - 1]
                               ELSE Joined(got[k - 1], es[k], es[k].name[Len(prefix) + 1])

LEMMA GroupRows ==
    ASSUME NEW es, NEW L \in Nat, Len(es) = L, NEW prefix
    PROVE  \E got : Groups(es, prefix) = got[L] /\ Cuts(es, prefix, L, got)
<1> DEFINE Row(f, k) == IF k = 0 THEN << >> ELSE
                            IF es[k].name = prefix THEN f[k - 1]
                            ELSE Joined(f[k - 1], es[k], es[k].name[Len(prefix) + 1])
           U(f) == f = [k \in 0..L |-> Row(f, k)]
           h    == CHOOSE f : U(f)
           S    == {j \in Nat : \E f : \A k \in 0..j : f[k] = Row(f, k)}
<1> HIDE DEF Row
<1>1. \A j \in 0..L : j \in S
  <2>1. 0 \in S
    <3> DEFINE f == [k \in 0..0 |-> << >>]
    <3>1. \A k \in 0..0 : f[k] = Row(f, k)
      BY DEF Row
    <3> QED
      BY <3>1
  <2>2. \A j \in 1..L : j - 1 \in S => j \in S
    <3> SUFFICES ASSUME NEW j \in 1..L, j - 1 \in S PROVE j \in S
      OBVIOUS
    <3>1. PICK g : \A k \in 0..j - 1 : g[k] = Row(g, k)
      OBVIOUS
    <3> DEFINE f == [k \in 0..j |-> IF k < j THEN g[k] ELSE Row(g, j)]
    <3>2. ASSUME NEW k \in 0..j, k < j PROVE f[k] = Row(f, k)
      <4>1. f[k] = Row(g, k)
        BY <3>1, <3>2
      <4>2. k # 0 => f[k - 1] = g[k - 1]
        BY <3>2
      <4> HIDE DEF f
      <4> QED
        BY <4>1, <4>2 DEF Row
    <3>3. f[j] = Row(f, j)
      <4>1. f[j] = Row(g, j)
        OBVIOUS
      <4>2. f[j - 1] = g[j - 1]
        OBVIOUS
      <4> HIDE DEF f
      <4> QED
        BY <4>1, <4>2 DEF Row
    <3> HIDE DEF f
    <3>4. \A k \in 0..j : f[k] = Row(f, k)
      BY <3>2, <3>3
    <3> QED
      BY <3>4
  <2> HIDE DEF S
  <2> QED
    BY <2>1, <2>2, StepByStep
<1>2. U(h)
  <2>1. PICK g : \A k \in 0..L : g[k] = Row(g, k)
    <3>1. L \in S
      BY <1>1
    <3> QED
      BY <3>1
  <2> DEFINE f == [k \in 0..L |-> g[k]]
  <2>2. \A k \in 0..L : f[k] = Row(f, k)
    BY <2>1 DEF Row
  <2>3. U(f)
    BY <2>2
  <2> QED
    BY <2>3
<1>3. Groups(es, prefix) = h[L]
  BY DEF Groups, Row
<1> HIDE DEF h
<1>4. \A k \in 0..L : h[k] = Row(h, k)
  BY <1>2
<1>5. Cuts(es, prefix, L, h)
  BY <1>4 DEF Cuts, Row
<1> QED
  BY <1>3, <1>5

(* Entries chosen by their label keep their order. *)
Kept(es, prefix, labels, k, got) ==
    /\ got \in Seq(Entry) /\ Len(got) <= k
    /\ \A j \in 1..Len(got) : \E i \in 1..k : /\ got[j] = es[i]
                                           /\ Goes(es[i], prefix, labels)
    /\ \A i \in 1..k : Goes(es[i], prefix, labels) =>
          \E j \in 1..Len(got) : got[j] = es[i]
    /\ InOrder(got)
    /\ (\E i \in 1..k : ~Goes(es[i], prefix, labels)) => Len(got) < k

LEMMA KeptStep ==
    ASSUME NEW es \in Seq(Entry), InOrder(es), NEW prefix, NEW labels,
           NEW k \in 1..Len(es), NEW got, Kept(es, prefix, labels, k - 1, got)
    PROVE  Kept(es, prefix, labels, k,
                IF Goes(es[k], prefix, labels) THEN Append(got, es[k]) ELSE got)
<1>0. es[k] \in Entry /\ Len(got) \in Nat /\ got \in Seq(Entry) /\ Len(got) <= k - 1
  BY DEF Kept
<1>1. CASE ~Goes(es[k], prefix, labels)
  <2>1. \A i \in 1..k - 1 : i \in 1..k
    OBVIOUS
  <2>2. \A i \in 1..k : i = k \/ i \in 1..k - 1
    OBVIOUS
  <2>3. Len(got) <= k /\ Len(got) < k
    BY <1>0
  <2>4. \A j \in 1..Len(got) : \E i \in 1..k : got[j] = es[i] /\ Goes(es[i], prefix, labels)
    BY <2>1 DEF Kept
  <2>5. \A i \in 1..k : Goes(es[i], prefix, labels) => \E j \in 1..Len(got) : got[j] = es[i]
    BY <1>1, <2>2 DEF Kept
  <2>6. InOrder(got)
    BY DEF Kept
  <2> QED
    BY <1>0, <1>1, <2>3, <2>4, <2>5, <2>6 DEF Kept
<1>2. CASE Goes(es[k], prefix, labels)
  <2> DEFINE new == Append(got, es[k])
  <2>1. /\ new \in Seq(Entry) /\ Len(new) = Len(got) + 1
        /\ new[Len(got) + 1] = es[k]
        /\ \A j \in 1..Len(got) : new[j] = got[j]
    BY <1>0
  <2> HIDE DEF new
  <2>2. \A j \in 1..Len(new) : j \in 1..Len(got) \/ j = Len(got) + 1
    BY <1>0, <2>1
  <2>3. \A j \in 1..Len(new) : \E i \in 1..k : new[j] = es[i] /\ Goes(es[i], prefix, labels)
    <3> SUFFICES ASSUME NEW j \in 1..Len(new)
                 PROVE  \E i \in 1..k : new[j] = es[i] /\ Goes(es[i], prefix, labels)
      OBVIOUS
    <3>1. CASE j \in 1..Len(got)
      <4>1. PICK i \in 1..k - 1 : got[j] = es[i] /\ Goes(es[i], prefix, labels)
        BY <3>1 DEF Kept
      <4>2. i \in 1..k
        OBVIOUS
      <4> QED
        BY <2>1, <3>1, <4>1, <4>2
    <3>2. CASE j = Len(got) + 1
      BY <1>2, <2>1, <3>2
    <3> QED
      BY <2>2, <3>1, <3>2
  <2>4. \A i \in 1..k : Goes(es[i], prefix, labels) => \E j \in 1..Len(new) : new[j] = es[i]
    <3> SUFFICES ASSUME NEW i \in 1..k, Goes(es[i], prefix, labels)
                 PROVE  \E j \in 1..Len(new) : new[j] = es[i]
      OBVIOUS
    <3>1. CASE i = k
      <4>1. Len(got) + 1 \in 1..Len(new)
        BY <1>0, <2>1
      <4> QED
        BY <2>1, <3>1, <4>1
    <3>2. CASE i # k
      <4>1. PICK j \in 1..Len(got) : got[j] = es[i]
        <5>1. i \in 1..k - 1
          BY <3>2
        <5> QED
          BY <5>1 DEF Kept
      <4>2. j \in 1..Len(new)
        BY <1>0, <2>1
      <4> QED
        BY <2>1, <4>1, <4>2
    <3> QED
      BY <3>1, <3>2
  <2>5. InOrder(new)
    <3> SUFFICES ASSUME NEW i \in 1..Len(new), NEW j \in 1..Len(new), i < j
                 PROVE  Sooner(new[i].name, new[j].name)
      BY DEF InOrder
    <3>1. i \in 1..Len(got)
      BY <1>0, <2>1
    <3>2. CASE j \in 1..Len(got)
      BY <2>1, <3>1, <3>2 DEF Kept, InOrder
    <3>3. CASE j = Len(got) + 1
      <4>1. PICK m \in 1..k - 1 : got[i] = es[m]
        BY <3>1 DEF Kept
      <4>2. m \in 1..Len(es) /\ m < k
        OBVIOUS
      <4> QED
        BY <2>1, <3>1, <3>3, <4>1, <4>2 DEF InOrder
    <3> QED
      BY <2>2, <3>2, <3>3
  <2>6. Len(new) <= k
    BY <1>0, <2>1
  <2>7. ASSUME NEW i \in 1..k, ~Goes(es[i], prefix, labels) PROVE Len(new) < k
    <3>1. i \in 1..k - 1
      BY <1>2, <2>7
    <3>2. Len(got) < k - 1
      BY <2>7, <3>1 DEF Kept
    <3> QED
      BY <1>0, <2>1, <3>2
  <2> QED
    BY <1>2, <2>1, <2>3, <2>4, <2>5, <2>6, <2>7 DEF Kept, new
<1> QED
  BY <1>1, <1>2

LEMMA SelectedKept ==
    ASSUME NEW es \in Seq(Entry), InOrder(es), NEW prefix, NEW labels
    PROVE  Kept(es, prefix, labels, Len(es), Selected(es, prefix, labels))
<1> DEFINE L == Len(es)
<1>1. L \in Nat
  OBVIOUS
<1>a. PICK got : Selected(es, prefix, labels) = got[L] /\ Picks(es, prefix, labels, L, got)
  <2>1. L \in Nat /\ Len(es) = L
    BY <1>1
  <2> HIDE DEF L
  <2> QED
    BY <2>1, SelectRows, Zenon
<1>2. /\ Selected(es, prefix, labels) = got[L] /\ got[0] = << >>
      /\ \A k \in 1..L : got[k] =
             IF Goes(es[k], prefix, labels)
             THEN Append(got[k - 1], es[k]) ELSE got[k - 1]
  BY <1>a, Zenon DEF Picks
<1> DEFINE S == {k \in 0..L : Kept(es, prefix, labels, k, got[k])}
<1>3. 0 \in S
  <2>1. Kept(es, prefix, labels, 0, << >>)
    BY DEF Kept, InOrder
  <2> QED
    BY <1>1, <1>2, <2>1
<1>4. \A k \in 1..L : k - 1 \in S => k \in S
  BY <1>1, <1>2, KeptStep
<1>5. \A k \in 0..L : k \in S
  <2> HIDE DEF S, L
  <2> QED
    BY <1>1, <1>3, <1>4, StepByStep
<1> QED
  BY <1>1, <1>2, <1>5

-----------------------------------------------------------------------------
(* Groups: one for each label, in the order of the labels. *)
GroupType == [label : Byte, entries : Seq(Entry)]

LEMMA GroupTyped ==
    ASSUME NEW g \in Seq(GroupType)
    PROVE  /\ Len(g) \in Nat
           /\ \A j \in 1..Len(g) : /\ g[j].label \in Byte /\ g[j].label \in Int
                                   /\ g[j].entries \in Seq(Entry)
<1>1. Len(g) \in Nat /\ \A j \in 1..Len(g) : g[j] \in GroupType
  OBVIOUS
<1>2. \A x \in GroupType : x.label \in Byte /\ x.entries \in Seq(Entry)
  BY DEF GroupType
<1>3. Byte \subseteq Int
  BY DEF Byte
<1> QED
  BY <1>1, <1>2, <1>3

(* An entry joins the last group or opens another one. *)
Joins(g, G, e, label) ==
    /\ Len(g) \in 1..Len(g) /\ g[Len(g)].label = label /\ Len(G) = Len(g)
    /\ \A j \in 1..Len(g) - 1 : G[j] = g[j]
    /\ G[Len(g)].label = label
    /\ G[Len(g)].entries = Append(g[Len(g)].entries, e)

Opens(g, G, e, label) ==
    /\ Len(g) \in 1..Len(g) => g[Len(g)].label # label
    /\ Len(G) = Len(g) + 1 /\ \A j \in 1..Len(g) : G[j] = g[j]
    /\ G[Len(g) + 1].label = label /\ G[Len(g) + 1].entries = <<e>>

LEMMA JoinedOne ==
    ASSUME NEW g \in Seq(GroupType), NEW e \in Entry, NEW label \in Byte
    PROVE  LET G == Joined(g, e, label)
           IN  G \in Seq(GroupType) /\ (Joins(g, G, e, label) \/ Opens(g, G, e, label))
<1> DEFINE G == Joined(g, e, label)
           n == Len(g)
<1>1. n \in Nat /\ (g = << >> <=> n = 0)
  OBVIOUS
<1>2. CASE g # << >> /\ g[n].label = label
  <2>1. G = [g EXCEPT ![n].entries = Append(@, e)]
    BY <1>2 DEF Joined
  <2>2. n \in 1..n /\ g[n] \in GroupType
    BY <1>1, <1>2
  <2>3. Append(g[n].entries, e) \in Seq(Entry)
    BY <2>2 DEF GroupType
  <2> DEFINE last == [g[n] EXCEPT !.entries = Append(@, e)]
  <2>4. /\ last \in GroupType /\ last.label = label
        /\ last.entries = Append(g[n].entries, e)
    BY <1>2, <2>2, <2>3 DEF GroupType
  <2>5. G = [g EXCEPT ![n] = last]
    BY <2>1
  <2> HIDE DEF last
  <2>6. G \in Seq(GroupType) /\ Len(G) = n /\ G[n] = last /\ \A j \in 1..n - 1 : G[j] = g[j]
    BY <2>2, <2>4, <2>5
  <2> HIDE DEF G
  <2>7. Joins(g, G, e, label)
    BY <1>2, <2>2, <2>4, <2>6 DEF Joins
  <2> QED
    BY <2>6, <2>7 DEF G
<1>3. CASE ~(g # << >> /\ g[n].label = label)
  <2> DEFINE last == [label |-> label, entries |-> <<e>>]
  <2>1. G = Append(g, last)
    BY <1>3 DEF Joined
  <2>2. last \in GroupType /\ last.label = label /\ last.entries = <<e>>
    BY DEF GroupType
  <2> HIDE DEF last
  <2>3. G \in Seq(GroupType) /\ Len(G) = n + 1 /\ G[n + 1] = last /\ \A j \in 1..n : G[j] = g[j]
    BY <2>1, <2>2
  <2>4. n \in 1..n => g[n].label # label
    BY <1>1, <1>3
  <2> HIDE DEF G
  <2>5. Opens(g, G, e, label)
    BY <2>2, <2>3, <2>4 DEF Opens
  <2> QED
    BY <2>3, <2>5 DEF G
<1> QED
  BY <1>2, <1>3

(* The groups of the first k entries. *)
Rising(g) == \A i, j \in 1..Len(g) : i < j => g[i].label < g[j].label

Grouped(es, prefix, k, g) ==
    /\ g \in Seq(GroupType) /\ Rising(g)
    /\ \A j \in 1..Len(g) : \E i \in 1..k : /\ es[i].name # prefix
                                          /\ es[i].name[Len(prefix) + 1] = g[j].label

LEMMA RisingJoins ==
    ASSUME NEW g \in Seq(GroupType), NEW G \in Seq(GroupType), NEW e, NEW label,
           Rising(g), Joins(g, G, e, label)
    PROVE  Rising(G) /\ \A j \in 1..Len(g) : G[j].label = g[j].label
<1>1. Len(g) \in Nat /\ Len(G) = Len(g)
  BY DEF Joins
<1>2. \A j \in 1..Len(g) : j \in 1..Len(g) - 1 \/ j = Len(g)
  BY <1>1
<1>3. \A j \in 1..Len(g) : G[j].label = g[j].label
  BY <1>2 DEF Joins
<1> QED
  BY <1>1, <1>3 DEF Rising

LEMMA RisingOpens ==
    ASSUME NEW g \in Seq(GroupType), NEW G \in Seq(GroupType), NEW e,
           NEW label \in Int, Rising(g), Opens(g, G, e, label),
           \A j \in 1..Len(g) : g[j].label <= label
    PROVE  Rising(G) /\ \A j \in 1..Len(g) : G[j] = g[j] /\ g[j].label < label
<1>1. Len(g) \in Nat /\ Len(G) = Len(g) + 1
  BY DEF Opens
<1>2. \A j \in 1..Len(g) : g[j].label \in Int
  BY GroupTyped
<1>3. ASSUME NEW j \in 1..Len(g) PROVE g[j].label < label
  <2>1. /\ Len(g) \in 1..Len(g) /\ g[Len(g)].label # label
        /\ g[Len(g)].label <= label /\ g[Len(g)].label \in Int
    BY <1>1, <1>2 DEF Opens
  <2>2. CASE j = Len(g)
    BY <2>1, <2>2
  <2>3. CASE j < Len(g)
    <3>1. g[j].label < g[Len(g)].label /\ g[j].label \in Int
      BY <1>2, <2>1, <2>3 DEF Rising
    <3> QED
      BY <2>1, <3>1
  <2> QED
    BY <1>1, <2>2, <2>3
<1>4. \A j \in 1..Len(g) : G[j] = g[j]
  BY DEF Opens
<1>5. ASSUME NEW i \in 1..Len(G), NEW j \in 1..Len(G), i < j
      PROVE  G[i].label < G[j].label
  <2>1. i \in 1..Len(g)
    BY <1>1, <1>5
  <2>2. CASE j \in 1..Len(g)
    BY <1>4, <1>5, <2>1, <2>2 DEF Rising
  <2>3. CASE j \notin 1..Len(g)
    <3>1. j = Len(g) + 1 /\ G[Len(g) + 1].label = label
      BY <1>1, <2>3 DEF Opens
    <3> QED
      BY <1>3, <1>4, <2>1, <3>1
  <2> QED
    BY <2>2, <2>3
<1> QED
  BY <1>3, <1>4, <1>5 DEF Rising

LEMMA GroupedStep ==
    ASSUME NEW es \in Seq(Entry), BuildInput(es), NEW prefix \in Bytes,
           \A i \in 1..Len(es) : Begins(prefix, es[i].name),
           NEW k \in 1..Len(es), NEW g, Grouped(es, prefix, k - 1, g),
           es[k].name # prefix,
           NEW G, G = Joined(g, es[k], es[k].name[Len(prefix) + 1])
    PROVE  Grouped(es, prefix, k, G)
<1>1. /\ Len(es) \in Nat /\ es[k] \in Entry /\ InOrder(es)
      /\ g \in Seq(GroupType) /\ Len(g) \in Nat /\ Rising(g)
  BY InputInOrder DEF Grouped
<1>2. \A i \in 1..Len(es) : es[i].name \in Bytes
  <2>1. \A i \in 1..Len(es) : es[i].name \in Name
    BY InputInOrder DEF EntryOk
  <2> QED
    BY <2>1, NameAssumption DEF Bytes
<1> DEFINE label == es[k].name[Len(prefix) + 1]
<1>3. label \in Byte /\ label \in Int
  <2>1. label \in Byte
    BY <1>2, LabelsFollow
  <2>2. Byte \subseteq Int
    BY DEF Byte
  <2> QED
    BY <2>1, <2>2
<1>4. \A j \in 1..Len(g) : g[j].label <= label
  <2> SUFFICES ASSUME NEW j \in 1..Len(g) PROVE g[j].label <= label
    OBVIOUS
  <2>1. PICK i \in 1..k - 1 : /\ es[i].name # prefix
                              /\ es[i].name[Len(prefix) + 1] = g[j].label
    BY DEF Grouped
  <2>2. i \in 1..Len(es) /\ i < k
    BY <1>1
  <2>3. Sooner(es[i].name, es[k].name)
    BY <1>1, <2>2 DEF InOrder
  <2> QED
    BY <1>2, <2>1, <2>2, <2>3, LabelsFollow
<1>5. G \in Seq(GroupType) /\ (Joins(g, G, es[k], label) \/ Opens(g, G, es[k], label))
  BY <1>1, <1>3, JoinedOne
<1> HIDE DEF label
<1>6. /\ Rising(G)
      /\ \A j \in 1..Len(G) : \/ G[j].label = label
                              \/ \E m \in 1..Len(g) : G[j].label = g[m].label
  <2>1. CASE Joins(g, G, es[k], label)
    <3>1. Len(G) = Len(g)
      BY <2>1 DEF Joins
    <3> QED
      BY <1>1, <1>5, <2>1, <3>1, RisingJoins
  <2>2. CASE Opens(g, G, es[k], label)
    <3>1. \A j \in 1..Len(G) : j \in 1..Len(g) \/ j = Len(g) + 1
      BY <1>1, <2>2 DEF Opens
    <3>2. Rising(G) /\ \A j \in 1..Len(g) : G[j] = g[j]
      BY <1>1, <1>3, <1>4, <1>5, <2>2, RisingOpens
    <3>3. G[Len(g) + 1].label = label
      BY <2>2 DEF Opens
    <3> QED
      BY <3>1, <3>2, <3>3
  <2> QED
    BY <1>5, <2>1, <2>2
<1>7. ASSUME NEW j \in 1..Len(G)
      PROVE  \E i \in 1..k : /\ es[i].name # prefix
                             /\ es[i].name[Len(prefix) + 1] = G[j].label
  <2>1. CASE G[j].label = label
    BY <2>1 DEF label
  <2>2. CASE G[j].label # label
    <3>1. PICK m \in 1..Len(g) : G[j].label = g[m].label
      BY <1>6, <2>2
    <3>2. PICK i \in 1..k - 1 : /\ es[i].name # prefix
                                /\ es[i].name[Len(prefix) + 1] = g[m].label
      BY DEF Grouped
    <3>3. i \in 1..k
      OBVIOUS
    <3> QED
      BY <3>1, <3>2, <3>3
  <2> QED
    BY <2>1, <2>2
<1> QED
  BY <1>5, <1>6, <1>7 DEF Grouped

LEMMA GroupedSkip ==
    ASSUME NEW es, NEW prefix, NEW k \in Nat \ {0}, NEW g, Grouped(es, prefix, k - 1, g)
    PROVE  Grouped(es, prefix, k, g)
<1>1. \A i \in 1..k - 1 : i \in 1..k
  OBVIOUS
<1> QED
  BY <1>1 DEF Grouped

(* The group of a label is what RouteGroup selects for it. *)
Match(g, label, s) ==
    /\ \A j \in 1..Len(g) : g[j].label = label => g[j].entries = s
    /\ (\A j \in 1..Len(g) : g[j].label # label) => s = << >>

LEMMA MatchStep ==
    ASSUME NEW g \in Seq(GroupType), NEW G \in Seq(GroupType), Rising(g), Rising(G),
           NEW e, NEW own \in Int, Joins(g, G, e, own) \/ Opens(g, G, e, own),
           NEW label, NEW s, Match(g, label, s)
    PROVE  Match(G, label, IF own = label THEN Append(s, e) ELSE s)
<1>1. /\ Len(g) \in Nat /\ Len(G) \in Nat
      /\ \A j \in 1..Len(G) : G[j].label \in Int
  BY GroupTyped
<1>2. CASE Joins(g, G, e, own)
  <2>1. /\ Len(G) = Len(g) /\ \A j \in 1..Len(g) : G[j].label = g[j].label
        /\ Len(g) \in 1..Len(g) /\ g[Len(g)].label = own
        /\ G[Len(g)].entries = Append(g[Len(g)].entries, e)
        /\ \A j \in 1..Len(g) - 1 : G[j] = g[j]
    BY <1>2, RisingJoins DEF Joins
  <2>2. \A j \in 1..Len(g) : j \in 1..Len(g) - 1 \/ j = Len(g)
    BY <1>1
  <2>3. \A j \in 1..Len(g) - 1 : G[j].label # own
    <3>1. \A j \in 1..Len(g) - 1 : G[j].label < G[Len(g)].label
      BY <1>1, <2>1 DEF Rising
    <3> QED
      BY <1>1, <2>1, <3>1
  <2>4. CASE own = label
    <3>1. g[Len(g)].entries = s
      BY <2>1, <2>4 DEF Match
    <3>2. \A j \in 1..Len(G) : G[j].label = label => G[j].entries = Append(s, e)
      BY <2>1, <2>2, <2>3, <2>4, <3>1
    <3> QED
      BY <2>1, <2>4, <3>2 DEF Match
  <2>5. CASE own # label
    <3>1. \A j \in 1..Len(G) : G[j].label = label => G[j].entries = s
      BY <2>1, <2>2, <2>5 DEF Match
    <3> QED
      BY <2>1, <2>5, <3>1 DEF Match
  <2> QED
    BY <2>4, <2>5
<1>3. CASE Opens(g, G, e, own)
  <2>1. /\ Len(G) = Len(g) + 1 /\ \A j \in 1..Len(g) : G[j] = g[j]
        /\ G[Len(g) + 1].label = own /\ G[Len(g) + 1].entries = <<e>>
    BY <1>3 DEF Opens
  <2>2. \A j \in 1..Len(G) : j \in 1..Len(g) \/ j = Len(g) + 1
    BY <1>1, <2>1
  <2>3. Len(g) + 1 \in 1..Len(G) /\ \A j \in 1..Len(g) : j \in 1..Len(G)
    BY <1>1, <2>1
  <2>4. \A j \in 1..Len(g) : G[j].label # own
    <3>1. ASSUME NEW j \in 1..Len(g) PROVE G[j].label < G[Len(g) + 1].label
      <4>1. j \in 1..Len(G) /\ j < Len(g) + 1
        BY <1>1, <2>3
      <4> QED
        BY <2>3, <4>1 DEF Rising
    <3> QED
      BY <1>1, <2>1, <2>3, <3>1
  <2>5. CASE own = label
    <3>1. s = << >>
      BY <2>1, <2>4, <2>5 DEF Match
    <3>2. Append(s, e) = <<e>>
      BY <3>1
    <3>3. \A j \in 1..Len(G) : G[j].label = label => G[j].entries = Append(s, e)
      BY <2>1, <2>2, <2>4, <2>5, <3>2
    <3> QED
      BY <2>1, <2>3, <2>5, <3>3 DEF Match
  <2>6. CASE own # label
    <3>1. \A j \in 1..Len(G) : G[j].label = label => G[j].entries = s
      BY <2>1, <2>2, <2>6 DEF Match
    <3>2. (\A j \in 1..Len(G) : G[j].label # label) => s = << >>
      BY <2>1, <2>3 DEF Match
    <3> QED
      BY <2>6, <3>1, <3>2 DEF Match
  <2> QED
    BY <2>5, <2>6
<1> QED
  BY <1>2, <1>3

LEMMA GroupsCut ==
    ASSUME NEW es \in Seq(Entry), BuildInput(es), NEW prefix \in Bytes,
           \A i \in 1..Len(es) : Begins(prefix, es[i].name)
    PROVE  /\ Grouped(es, prefix, Len(es), Groups(es, prefix))
           /\ \A label \in Byte : Match(Groups(es, prefix), label,
                                        Selected(es, prefix, {label}))
<1> DEFINE L == Len(es)
<1>1. L \in Nat
  OBVIOUS
<1>2. \A i \in 1..L : es[i] \in Entry
  OBVIOUS
<1>3. \A i \in 1..L : es[i].name # prefix => /\ es[i].name[Len(prefix) + 1] \in Byte
                                             /\ es[i].name[Len(prefix) + 1] \in Int
  <2>1. \A i \in 1..L : es[i].name \in Bytes
    <3>1. \A i \in 1..L : es[i].name \in Name
      BY InputInOrder DEF EntryOk
    <3> QED
      BY <3>1, NameAssumption DEF Bytes
  <2>2. \A i \in 1..L : es[i].name # prefix => es[i].name[Len(prefix) + 1] \in Byte
    BY <2>1, LabelsFollow
  <2>3. Byte \subseteq Int
    BY DEF Byte
  <2> QED
    BY <2>2, <2>3
<1>4. PICK g : /\ Groups(es, prefix) = g[L] /\ g[0] = << >>
               /\ \A k \in 1..L : g[k] =
                      IF es[k].name = prefix THEN g[k - 1]
                      ELSE Joined(g[k - 1], es[k], es[k].name[Len(prefix) + 1])
  <2>1. Len(es) = L
    OBVIOUS
  <2> HIDE DEF L
  <2>2. PICK got : Groups(es, prefix) = got[L] /\ Cuts(es, prefix, L, got)
    BY <1>1, <2>1, GroupRows
  <2> QED
    BY <2>2 DEF Cuts
<1> HIDE DEF L
<1>5. \A k \in 0..L : Grouped(es, prefix, k, g[k])
  <2> DEFINE S == {k \in 0..L : Grouped(es, prefix, k, g[k])}
  <2>1. 0 \in S
    <3>1. Grouped(es, prefix, 0, << >>)
      BY DEF Grouped, Rising
    <3> QED
      BY <1>1, <1>4, <3>1
  <2>2. ASSUME NEW k \in 1..L, k - 1 \in S PROVE k \in S
    <3>1. Grouped(es, prefix, k - 1, g[k - 1]) /\ k \in Nat \ {0} /\ k \in 0..L
      BY <1>1, <2>2
    <3>2. CASE es[k].name = prefix
      <4>1. Grouped(es, prefix, k, g[k - 1])
        BY <3>1, GroupedSkip
      <4> QED
        BY <1>4, <3>1, <3>2, <4>1
    <3>3. CASE es[k].name # prefix
      <4>1. g[k] = Joined(g[k - 1], es[k], es[k].name[Len(prefix) + 1])
        BY <1>4, <3>3
      <4>2. Grouped(es, prefix, k, g[k])
        BY <3>1, <3>3, <4>1, GroupedStep DEF L
      <4> QED
        BY <3>1, <4>2
    <3> QED
      BY <3>2, <3>3
  <2> HIDE DEF S
  <2>3. \A k \in 0..L : k \in S
    BY <1>1, <2>1, <2>2, StepByStep
  <2> QED
    BY <2>3 DEF S
<1>6. ASSUME NEW label \in Byte
      PROVE  Match(g[L], label, Selected(es, prefix, {label}))
  <2>1. PICK s : /\ Selected(es, prefix, {label}) = s[L] /\ s[0] = << >>
                 /\ \A k \in 1..L : s[k] =
                        IF Goes(es[k], prefix, {label})
                        THEN Append(s[k - 1], es[k]) ELSE s[k - 1]
    <3> DEFINE labels == {label}
    <3>1. Len(es) = L
      BY DEF L
    <3> HIDE DEF labels
    <3>2. PICK s : Selected(es, prefix, labels) = s[L] /\ Picks(es, prefix, labels, L, s)
      BY <1>1, <3>1, SelectRows, Zenon
    <3>3. /\ Selected(es, prefix, labels) = s[L] /\ s[0] = << >>
          /\ \A k \in 1..L : s[k] =
                 IF Goes(es[k], prefix, labels)
                 THEN Append(s[k - 1], es[k]) ELSE s[k - 1]
      BY <3>2, Zenon DEF Picks
    <3> QED
      BY <3>3, Zenon DEF labels
  <2> DEFINE S == {k \in 0..L : Match(g[k], label, s[k])}
  <2>2. 0 \in S
    <3>1. Match(<< >>, label, << >>)
      BY DEF Match
    <3> QED
      BY <1>1, <1>4, <2>1, <3>1
  <2>3. ASSUME NEW k \in 1..L, k - 1 \in S PROVE k \in S
    <3>1. k \in 0..L /\ k - 1 \in 0..L
      BY <1>1
    <3>2. Match(g[k - 1], label, s[k - 1])
      BY <2>3
    <3>3. CASE es[k].name = prefix
      <4>1. g[k] = g[k - 1] /\ s[k] = s[k - 1]
        BY <1>4, <2>1, <3>3 DEF Goes
      <4> QED
        BY <3>1, <3>2, <4>1
    <3>4. CASE es[k].name # prefix
      <4> DEFINE own == es[k].name[Len(prefix) + 1]
      <4>1. g[k] = Joined(g[k - 1], es[k], own)
        BY <1>4, <3>4
      <4>2. s[k] = IF own = label THEN Append(s[k - 1], es[k]) ELSE s[k - 1]
        BY <2>1, <3>4 DEF Goes
      <4>3. own \in Byte /\ own \in Int /\ es[k] \in Entry
        BY <1>2, <1>3, <3>4
      <4> HIDE DEF own
      <4>4. /\ g[k] \in Seq(GroupType) /\ g[k - 1] \in Seq(GroupType)
            /\ Rising(g[k]) /\ Rising(g[k - 1])
        BY <1>5, <3>1 DEF Grouped
      <4>5. Joins(g[k - 1], g[k], es[k], own) \/ Opens(g[k - 1], g[k], es[k], own)
        BY <4>1, <4>3, <4>4, JoinedOne
      <4>6. Match(g[k], label, s[k])
        BY <3>2, <4>2, <4>3, <4>4, <4>5, MatchStep
      <4> QED
        BY <3>1, <4>6
    <3> QED
      BY <3>3, <3>4
  <2> HIDE DEF S
  <2>4. \A k \in 0..L : k \in S
    BY <1>1, <2>2, <2>3, StepByStep
  <2>5. L \in S
    BY <1>1, <2>4
  <2> QED
    BY <2>1, <2>5 DEF S
<1>7. Grouped(es, prefix, L, g[L])
  BY <1>1, <1>5
<1> QED
  BY <1>4, <1>6, <1>7 DEF L

-----------------------------------------------------------------------------
(* Every entry is the terminal one or in one group. *)
LEMMA SumLast ==
    ASSUME NEW s, NEW n \in Nat, Len(s) = n + 1,
           \A k \in 1..n + 1 : s[k] \in Int,
           NEW t, Len(t) = n, \A k \in 1..n : t[k] = s[k]
    PROVE  SumOf(t) \in Int /\ SumOf(s) = SumOf(t) + s[n + 1]
<1>1. PICK a : /\ SumOf(s) = a[n + 1] /\ a[0] = 0
               /\ \A k \in 1..n + 1 : a[k] = a[k - 1] + s[k]
  <2> DEFINE m == n + 1
  <2>1. m \in Nat /\ Len(s) = m
    OBVIOUS
  <2> HIDE DEF m
  <2>2. \E a : /\ SumOf(s) = a[m] /\ a[0] = 0
               /\ \A k \in 1..m : a[k] = a[k - 1] + s[k]
    BY <2>1, SumRows
  <2> QED
    BY <2>2 DEF m
<1>2. PICK b : /\ SumOf(t) = b[n] /\ b[0] = 0
               /\ \A k \in 1..n : b[k] = b[k - 1] + t[k]
  BY SumRows
<1> DEFINE S == {k \in 0..n : a[k] = b[k] /\ b[k] \in Int}
<1>3. 0 \in S
  BY <1>1, <1>2
<1>4. ASSUME NEW k \in 1..n, k - 1 \in S PROVE k \in S
  <2>1. k \in 0..n /\ k \in 1..n + 1 /\ a[k - 1] = b[k - 1] /\ b[k - 1] \in Int
    BY <1>4
  <2>2. s[k] \in Int /\ t[k] = s[k]
    BY <2>1
  <2>3. a[k] = a[k - 1] + s[k] /\ b[k] = b[k - 1] + t[k]
    BY <1>1, <1>2, <2>1
  <2> QED
    BY <2>1, <2>2, <2>3
<1> HIDE DEF S
<1>5. \A k \in 0..n : k \in S
  BY <1>3, <1>4, StepByStep
<1>6. a[n] = b[n] /\ b[n] \in Int
  BY <1>5 DEF S
<1>7. a[n + 1] = a[(n + 1) - 1] + s[n + 1] /\ (n + 1) - 1 = n
  <2>1. n + 1 \in 1..n + 1
    OBVIOUS
  <2> QED
    BY <1>1, <2>1
<1> QED
  BY <1>1, <1>2, <1>6, <1>7

Sizes(g) == [j \in 1..Len(g) |-> Len(g[j].entries)]

LEMMA SumSizes ==
    ASSUME NEW g \in Seq(GroupType)
    PROVE  /\ Len(Sizes(g)) = Len(g) /\ Len(g) \in Nat
           /\ \A j \in 1..Len(g) : Sizes(g)[j] = Len(g[j].entries) /\ Sizes(g)[j] \in Nat
           /\ SumOf(Sizes(g)) \in Nat
<1> DEFINE s == Sizes(g)
<1>1. \A j \in 1..Len(g) : g[j].entries \in Seq(Entry)
  BY GroupTyped
<1>2. \A j \in 1..Len(g) : Len(g[j].entries) \in Nat
  BY <1>1
<1>3. /\ Len(s) = Len(g) /\ Len(g) \in Nat
      /\ \A j \in 1..Len(g) : s[j] = Len(g[j].entries) /\ s[j] \in Nat
  BY <1>2 DEF Sizes
<1> HIDE DEF s
<1>4. PICK a : /\ SumOf(s) = a[Len(g)] /\ a[0] = 0
               /\ \A k \in 1..Len(g) : a[k] = a[k - 1] + s[k]
  BY <1>3, SumRows
<1> DEFINE S == {k \in Nat : a[k] \in Nat}
<1>5. 0 \in S
  BY <1>4
<1>6. \A k \in 1..Len(g) : k - 1 \in S => k \in S
  BY <1>3, <1>4
<1> HIDE DEF S
<1>7. \A k \in 0..Len(g) : k \in S
  BY <1>3, <1>5, <1>6, StepByStep
<1>8. SumOf(s) \in Nat
  <2>1. Len(g) \in S
    BY <1>3, <1>7
  <2> QED
    BY <1>4, <2>1 DEF S
<1> QED
  BY <1>3, <1>8 DEF s

LEMMA SizesStep ==
    ASSUME NEW g \in Seq(GroupType), NEW G \in Seq(GroupType),
           NEW e, NEW label, Joins(g, G, e, label) \/ Opens(g, G, e, label)
    PROVE  SumOf(Sizes(G)) = SumOf(Sizes(g)) + 1 /\ SumOf(Sizes(g)) \in Int
<1> DEFINE a == Sizes(g)
           b == Sizes(G)
<1>1. Len(g) \in Nat /\ Len(G) \in Nat
  OBVIOUS
<1>2. /\ Len(a) = Len(g) /\ \A j \in 1..Len(g) : a[j] = Len(g[j].entries) /\ a[j] \in Int
      /\ Len(b) = Len(G) /\ \A j \in 1..Len(G) : b[j] = Len(G[j].entries) /\ b[j] \in Int
  BY SumSizes
<1> HIDE DEF a, b
<1>3. CASE Joins(g, G, e, label)
  <2> DEFINE n == Len(g) - 1
             c == [j \in 1..n |-> a[j]]
  <2>1. /\ Len(g) \in 1..Len(g) /\ Len(G) = Len(g)
        /\ G[Len(g)].entries = Append(g[Len(g)].entries, e)
        /\ \A j \in 1..Len(g) - 1 : G[j] = g[j]
    BY <1>3 DEF Joins
  <2>2. n \in Nat /\ Len(g) = n + 1 /\ Len(c) = n /\ \A j \in 1..n : c[j] = a[j]
    BY <1>1, <2>1
  <2>3. \A j \in 1..n : c[j] = b[j]
    <3>1. \A j \in 1..n : j \in 1..Len(g)
      BY <2>2
    <3> QED
      BY <1>2, <2>1, <2>2, <3>1
  <2>4. b[n + 1] = a[n + 1] + 1
    <3>1. n + 1 = Len(g) /\ n + 1 \in 1..Len(g) /\ g[Len(g)].entries \in Seq(Entry)
      BY <2>1, <2>2, GroupTyped
    <3>2. Len(G[Len(g)].entries) = Len(g[Len(g)].entries) + 1
      BY <2>1, <3>1
    <3> QED
      BY <1>2, <2>1, <3>1, <3>2
  <2> HIDE DEF n, c
  <2>5. SumOf(c) \in Int /\ SumOf(a) = SumOf(c) + a[n + 1]
    BY <1>2, <2>2, SumLast
  <2>6. SumOf(b) = SumOf(c) + b[n + 1]
    <3>1. Len(b) = n + 1 /\ \A j \in 1..n + 1 : b[j] \in Int
      BY <1>2, <2>1, <2>2
    <3> QED
      BY <2>2, <2>3, <3>1, SumLast
  <2>7. a[n + 1] \in Int
    BY <1>2, <2>1, <2>2
  <2> QED
    BY <2>4, <2>5, <2>6, <2>7 DEF a, b
<1>4. CASE Opens(g, G, e, label)
  <2>1. /\ Len(G) = Len(g) + 1 /\ \A j \in 1..Len(g) : G[j] = g[j]
        /\ G[Len(g) + 1].entries = <<e>>
    BY <1>4 DEF Opens
  <2>2. Len(g) + 1 \in 1..Len(G) /\ \A j \in 1..Len(g) : j \in 1..Len(G)
    BY <1>1, <2>1
  <2>3. \A j \in 1..Len(g) : a[j] = b[j]
    BY <1>2, <2>1, <2>2
  <2>4. b[Len(g) + 1] = 1
    BY <1>2, <2>1, <2>2
  <2>5. SumOf(a) \in Int /\ SumOf(b) = SumOf(a) + b[Len(g) + 1]
    BY <1>1, <1>2, <2>1, <2>3, SumLast
  <2> QED
    BY <2>4, <2>5 DEF a, b
<1> QED
  BY <1>3, <1>4

LEMMA GroupsCount ==
    ASSUME NEW es \in Seq(Entry), BuildInput(es), NEW prefix \in Bytes,
           \A i \in 1..Len(es) : Begins(prefix, es[i].name)
    PROVE  SumOf(Sizes(Groups(es, prefix)))
               + (IF \E i \in 1..Len(es) : es[i].name = prefix THEN 1 ELSE 0) = Len(es)
<1> DEFINE L == Len(es)
           Top(k) == IF \E i \in 1..k : es[i].name = prefix THEN 1 ELSE 0
<1>1. L \in Nat
  OBVIOUS
<1>2. \A i \in 1..L : es[i] \in Entry
  OBVIOUS
<1>3. /\ \A i \in 1..L : es[i].name # prefix => es[i].name[Len(prefix) + 1] \in Byte
      /\ \A i, k \in 1..L : i < k => es[i].name # es[k].name
  <2>1. \A i \in 1..L : es[i].name \in Bytes
    <3>1. \A i \in 1..L : es[i].name \in Name
      BY InputInOrder DEF EntryOk
    <3> QED
      BY <3>1, NameAssumption DEF Bytes
  <2>2. \A i \in 1..L : es[i].name # prefix => es[i].name[Len(prefix) + 1] \in Byte
    BY <2>1, LabelsFollow
  <2>3. \A i, k \in 1..L : i < k => Sooner(es[i].name, es[k].name)
    BY InputInOrder DEF InOrder
  <2> QED
    BY <2>1, <2>2, <2>3, SoonerDiffers
<1>4. PICK g : /\ Groups(es, prefix) = g[L] /\ g[0] = << >>
               /\ \A k \in 1..L : g[k] =
                      IF es[k].name = prefix THEN g[k - 1]
                      ELSE Joined(g[k - 1], es[k], es[k].name[Len(prefix) + 1])
  <2>1. Len(es) = L
    OBVIOUS
  <2> HIDE DEF L
  <2>2. PICK got : Groups(es, prefix) = got[L] /\ Cuts(es, prefix, L, got)
    BY <1>1, <2>1, GroupRows
  <2> QED
    BY <2>2 DEF Cuts
<1> HIDE DEF L, Top
<1> DEFINE S == {k \in 0..L : g[k] \in Seq(GroupType) /\ SumOf(Sizes(g[k])) + Top(k) = k}
<1>5. 0 \in S
  <2>1. Len(Sizes(<< >>)) = 0 /\ << >> \in Seq(GroupType)
    BY DEF Sizes
  <2>2. SumOf(Sizes(<< >>)) = 0
    <3>1. 0 \in Nat
      OBVIOUS
    <3> QED
      BY <2>1, <3>1, SumRows
  <2>3. Top(0) = 0
    BY DEF Top
  <2>4. g[0] = << >>
    BY <1>4
  <2>5. SumOf(Sizes(g[0])) = 0 /\ g[0] \in Seq(GroupType)
    BY <2>1, <2>2, <2>4
  <2>6. SumOf(Sizes(g[0])) + Top(0) = 0
    BY <2>3, <2>5
  <2>7. 0 \in 0..L
    BY <1>1
  <2> QED
    BY <2>5, <2>6, <2>7
<1>6. ASSUME NEW k \in 1..L, k - 1 \in S PROVE k \in S
  <2>1. k \in 0..L /\ k - 1 \in 0..L /\ k \in Int
    BY <1>1
  <2>2. g[k - 1] \in Seq(GroupType) /\ SumOf(Sizes(g[k - 1])) + Top(k - 1) = k - 1
    BY <1>6
  <2>3. \A i \in 1..k - 1 : i \in 1..L /\ i < k /\ i \in 1..k
    BY <1>1
  <2>4. CASE es[k].name = prefix
    <3>1. g[k] = g[k - 1]
      BY <1>4, <2>4
    <3>2. Top(k - 1) = 0
      BY <1>3, <2>3, <2>4 DEF Top
    <3>3. Top(k) = 1
      <4>1. k \in 1..k
        OBVIOUS
      <4> QED
        BY <2>4, <4>1 DEF Top
    <3>4. SumOf(Sizes(g[k - 1])) = k - 1
      <4>1. SumOf(Sizes(g[k - 1])) \in Int
        BY <2>2, SumSizes
      <4> QED
        BY <2>1, <2>2, <3>2, <4>1
    <3> QED
      BY <2>1, <2>2, <3>1, <3>3, <3>4
  <2>5. CASE es[k].name # prefix
    <3> DEFINE own == es[k].name[Len(prefix) + 1]
    <3>1. g[k] = Joined(g[k - 1], es[k], own) /\ own \in Byte /\ es[k] \in Entry
      BY <1>2, <1>3, <1>4, <2>5
    <3> HIDE DEF own
    <3>2. g[k] \in Seq(GroupType) /\ (Joins(g[k - 1], g[k], es[k], own)
                                      \/ Opens(g[k - 1], g[k], es[k], own))
      BY <2>2, <3>1, JoinedOne
    <3>3. SumOf(Sizes(g[k])) = SumOf(Sizes(g[k - 1])) + 1 /\ SumOf(Sizes(g[k - 1])) \in Int
      BY <2>2, <3>2, SizesStep
    <3>4. Top(k) = Top(k - 1) /\ Top(k) \in Int
      <4>1. \A i \in 1..k : i = k \/ i \in 1..k - 1
        OBVIOUS
      <4> QED
        BY <2>3, <2>5, <4>1 DEF Top
    <3> QED
      BY <2>1, <2>2, <3>2, <3>3, <3>4
  <2> QED
    BY <2>4, <2>5
<1> HIDE DEF S
<1>7. \A k \in 0..L : k \in S
  BY <1>1, <1>5, <1>6, StepByStep
<1>8. SumOf(Sizes(g[L])) + Top(L) = L
  <2>1. L \in S
    BY <1>1, <1>7
  <2> QED
    BY <2>1 DEF S
<1>9. Groups(es, prefix) = g[L]
  BY <1>4
<1>10. SumOf(Sizes(Groups(es, prefix))) + Top(L) = L
  BY <1>8, <1>9, Zenon
<1> QED
  BY <1>10 DEF L, Top

-----------------------------------------------------------------------------
(* What all names share, and no more than that. *)
LEMMA LcpShared ==
    ASSUME NEW es \in Seq(Entry), Len(es) > 0,
           \A i \in 1..Len(es) : es[i].name \in Bytes
    PROVE  /\ Lcp(es) \in Bytes
           /\ \A i \in 1..Len(es) : Begins(Lcp(es), es[i].name)
           /\ ~\E b \in Byte : \A i \in 1..Len(es) :
                  Begins(Append(Lcp(es), b), es[i].name)
<1> DEFINE N == {es[i].name : i \in DOMAIN es}
           C == CommonPrefixes(N)
           first == es[1].name
<1>1. Len(es) \in Nat /\ DOMAIN es = 1..Len(es) /\ 1 \in 1..Len(es) /\ first \in Bytes /\ first \in N
  OBVIOUS
<1>2. \A n \in N : n \in Bytes
  BY <1>1
<1>3. \A c : c \in C <=> c \in Bytes /\ \A n \in N : Begins(c, n)
  <2> HIDE DEF N
  <2>1. ASSUME NEW c \in C PROVE c \in Bytes /\ \A n \in N : Begins(c, n)
    <3>1. PICK n \in N : c \in Prefixes(n)
      BY <2>1 DEF CommonPrefixes
    <3>2. PICK l \in 0..Len(n) : c = SubSeq(n, 1, l)
      BY <3>1 DEF Prefixes
    <3>3. c \in Bytes
      BY <1>2, <3>2 DEF Bytes
    <3>4. \A m \in N : IsPrefix(c, m)
      BY <2>1 DEF CommonPrefixes
    <3> QED
      BY <1>2, <3>3, <3>4, PrefixBegins
  <2>2. ASSUME NEW c \in Bytes, \A n \in N : Begins(c, n) PROVE c \in C
    <3>1. \A m \in N : IsPrefix(c, m)
      BY <1>2, <2>2, PrefixBegins
    <3>2. Len(c) <= Len(first) /\ IsPrefix(c, first) /\ Len(c) \in Nat /\ Len(first) \in Nat
      BY <1>1, <2>2, <3>1, BytesAreNumbers DEF Begins
    <3>3. c = SubSeq(first, 1, Len(c))
      <4> DEFINE t == SubSeq(first, 1, Len(c))
      <4>1. t \in Bytes /\ Len(t) = Len(c) /\ \A k \in 1..Len(c) : t[k] = first[k]
        BY <1>1, <3>2 DEF Bytes
      <4>2. \A k \in 1..Len(c) : t[k] = c[k]
        BY <1>1, <2>2, <4>1 DEF Begins
      <4> HIDE DEF t
      <4>3. t = c
        BY <4>1, <4>2 DEF Bytes
      <4> QED
        BY <4>3 DEF t
    <3>4. c \in Prefixes(first)
      <4> DEFINE l == Len(c)
      <4>1. l \in 0..Len(first) /\ c = SubSeq(first, 1, l)
        BY <3>2, <3>3
      <4> HIDE DEF first, l
      <4> QED
        BY <4>1 DEF Prefixes
    <3> QED
      BY <1>1, <3>1, <3>4 DEF CommonPrefixes
  <2> QED
    BY <2>1, <2>2
<1> HIDE DEF C
<1>4. \A c \in C : Len(c) \in Nat /\ Len(c) <= Len(first)
  BY <1>1, <1>3, BytesAreNumbers DEF Begins
<1>5. \E longest \in C : \A other \in C : Len(other) <= Len(longest)
  <2> DEFINE T == {Len(first) - Len(c) : c \in C}
  <2>1. T \subseteq Nat /\ T # {}
    <3>1. Len(first) \in Nat
      BY <1>1, BytesAreNumbers
    <3>2. << >> \in C
      <4>1. << >> \in Bytes /\ \A n \in Bytes : Begins(<< >>, n)
        BY DEF Bytes, Begins
      <4> HIDE DEF N
      <4> QED
        BY <1>2, <1>3, <4>1
    <3> HIDE DEF first
    <3>3. \A c \in C : Len(first) - Len(c) \in Nat
      BY <1>4, <3>1
    <3> QED
      BY <3>2, <3>3
  <2> HIDE DEF T
  <2>2. PICK x \in T : \A y \in T : x <= y
    BY <2>1, LeastElement
  <2>3. PICK longest \in C : x = Len(first) - Len(longest)
    BY DEF T
  <2>4. ASSUME NEW other \in C PROVE Len(other) <= Len(longest)
    <3>1. Len(first) - Len(longest) <= Len(first) - Len(other)
      BY <2>2, <2>3 DEF T
    <3>2. Len(first) \in Nat
      BY <1>1, BytesAreNumbers
    <3> HIDE DEF first
    <3> QED
      BY <1>4, <3>1, <3>2
  <2> QED
    BY <2>4
<1>6. Lcp(es) = CHOOSE longest \in C : \A other \in C : Len(other) <= Len(longest)
  BY DEF Lcp, LongestCommonPrefix, C
<1>7. Lcp(es) \in C /\ \A other \in C : Len(other) <= Len(Lcp(es))
  <2> HIDE DEF N, first
  <2> QED
    BY <1>5, <1>6
<1>8. Lcp(es) \in Bytes /\ \A i \in 1..Len(es) : Begins(Lcp(es), es[i].name)
  <2>1. \A i \in 1..Len(es) : es[i].name \in N
    BY <1>1
  <2> HIDE DEF N
  <2> QED
    BY <1>3, <1>7, <2>1
<1>9. ASSUME NEW b \in Byte, \A i \in 1..Len(es) : Begins(Append(Lcp(es), b), es[i].name)
      PROVE  FALSE
  <2> DEFINE c == Append(Lcp(es), b)
  <2>1. c \in Bytes /\ Len(c) = Len(Lcp(es)) + 1 /\ Len(Lcp(es)) \in Nat
    BY <1>8, AppendBegins, BytesAreNumbers
  <2>2. \A n \in N : Begins(c, n)
    BY <1>1, <1>9
  <2> HIDE DEF N, c
  <2>3. c \in C
    BY <1>3, <2>1, <2>2
  <2>4. Len(c) <= Len(Lcp(es))
    BY <1>7, <2>3
  <2> QED
    BY <2>1, <2>4
<1> QED
  BY <1>8, <1>9

LEMMA LcpLongest ==
    ASSUME NEW es \in Seq(Entry), Len(es) > 0,
           \A i \in 1..Len(es) : es[i].name \in Bytes,
           NEW q \in Bytes, \A i \in 1..Len(es) : Begins(q, es[i].name)
    PROVE  Begins(q, Lcp(es))
<1> DEFINE p == Lcp(es)
           first == es[1].name
<1>1. /\ p \in Bytes /\ \A i \in 1..Len(es) : Begins(p, es[i].name)
      /\ ~\E b \in Byte : \A i \in 1..Len(es) : Begins(Append(p, b), es[i].name)
  BY LcpShared
<1>2. 1 \in 1..Len(es) /\ first \in Bytes /\ Begins(p, first) /\ Begins(q, first)
  BY <1>1
<1> HIDE DEF p
<1>3. Len(p) \in Nat /\ Len(q) \in Nat
  BY <1>1, BytesAreNumbers
<1>4. CASE Len(q) <= Len(p)
  <2> HIDE DEF first
  <2>1. \A k \in 1..Len(q) : q[k] = p[k]
    BY <1>2, <1>3, <1>4 DEF Begins
  <2> QED
    BY <1>4, <2>1 DEF Begins, p
<1>5. CASE Len(q) > Len(p)
  <2> DEFINE b == q[Len(p) + 1]
             c == Append(p, b)
  <2>1. b \in Byte
    BY <1>3, <1>5 DEF Bytes
  <2>2. /\ c \in Bytes /\ Len(c) = Len(p) + 1 /\ c[Len(p) + 1] = b
        /\ \A k \in 1..Len(p) : c[k] = p[k]
    BY <1>1, <2>1, AppendBegins
  <2>3. \A k \in 1..Len(p) + 1 : k \in 1..Len(p) \/ k = Len(p) + 1
    BY <1>3
  <2>4. \A k \in 1..Len(p) : p[k] = q[k]
    <3> HIDE DEF first
    <3> QED
      BY <1>2, <1>3, <1>5 DEF Begins
  <2>5. Begins(c, q)
    <3> HIDE DEF c
    <3> QED
      BY <1>3, <1>5, <2>2, <2>3, <2>4 DEF Begins
  <2> HIDE DEF c
  <2>6. \A i \in 1..Len(es) : Begins(c, es[i].name)
    BY <2>2, <2>5, BeginsTransitive
  <2> QED
    BY <1>1, <2>1, <2>6 DEF c
<1> QED
  BY <1>3, <1>4, <1>5

(* How the entries of a branch are divided. *)
Division(es, p, g) ==
    /\ p \in Bytes /\ \A i \in 1..Len(es) : Begins(p, es[i].name)
    /\ g \in Seq(GroupType) /\ Rising(g)
    /\ \A j \in 1..Len(g) :
         /\ g[j].entries = Selected(es, p, {g[j].label})
         /\ g[j].entries \in Seq(Entry) /\ BuildInput(g[j].entries)
         /\ g[j].entries # << >> /\ Len(g[j].entries) < Len(es)
    /\ \A i \in 1..Len(es) : es[i].name = p \/ \E j \in 1..Len(g) :
           es[i].name[Len(p) + 1] = g[j].label

LEMMA Parts ==
    ASSUME NEW es \in Seq(Entry), BuildInput(es), Len(es) > 0
    PROVE  Division(es, Lcp(es), Groups(es, Lcp(es)))
<1> DEFINE p == Lcp(es)
           g == Groups(es, p)
<1>1. Len(es) \in Nat /\ InOrder(es) /\ \A i \in 1..Len(es) : EntryOk(es[i])
  BY InputInOrder
<1>2. \A i \in 1..Len(es) : es[i].name \in Bytes
  BY <1>1, NameAssumption DEF EntryOk, Bytes
<1>3. /\ p \in Bytes /\ \A i \in 1..Len(es) : Begins(p, es[i].name)
      /\ ~\E b \in Byte : \A i \in 1..Len(es) : Begins(Append(p, b), es[i].name)
  BY <1>2, LcpShared
<1> HIDE DEF p
<1>4. /\ Grouped(es, p, Len(es), g)
      /\ \A label \in Byte : Match(g, label, Selected(es, p, {label}))
  BY <1>3, GroupsCut
<1> HIDE DEF g
<1>5. g \in Seq(GroupType) /\ Rising(g) /\ Len(g) \in Nat
  BY <1>4 DEF Grouped
<1>6. ASSUME NEW i \in 1..Len(es), es[i].name # p
      PROVE  /\ Len(p) < Len(es[i].name) /\ es[i].name[Len(p) + 1] \in Byte
             /\ Begins(Append(p, es[i].name[Len(p) + 1]), es[i].name)
  <2> DEFINE n == es[i].name
             b == n[Len(p) + 1]
  <2>1. n \in Bytes /\ Begins(p, n) /\ n # p
    BY <1>2, <1>3, <1>6
  <2> HIDE DEF n
  <2>2. Len(p) < Len(n) /\ b \in Byte /\ Len(p) \in Nat /\ Len(n) \in Nat
    BY <1>3, <2>1, LabelsFollow, BytesAreNumbers
  <2>3. /\ Len(Append(p, b)) = Len(p) + 1 /\ Append(p, b)[Len(p) + 1] = b
        /\ \A k \in 1..Len(p) : Append(p, b)[k] = p[k]
    BY <1>3, <2>2, AppendBegins
  <2>4. \A k \in 1..Len(p) + 1 : k \in 1..Len(p) \/ k = Len(p) + 1
    BY <2>2
  <2>5. Begins(Append(p, b), n)
    BY <2>1, <2>2, <2>3, <2>4 DEF Begins
  <2> QED
    BY <2>2, <2>5 DEF n
<1>7. ASSUME NEW j \in 1..Len(g)
      PROVE  /\ g[j].entries = Selected(es, p, {g[j].label})
             /\ g[j].entries \in Seq(Entry) /\ BuildInput(g[j].entries)
             /\ g[j].entries # << >> /\ Len(g[j].entries) < Len(es)
  <2> DEFINE label == g[j].label
             s == g[j].entries
  <2>1. label \in Byte /\ s \in Seq(Entry)
    BY <1>5, GroupTyped
  <2>2. s = Selected(es, p, {label})
    BY <1>4, <2>1 DEF Match
  <2>3. PICK i0 \in 1..Len(es) : es[i0].name # p /\ es[i0].name[Len(p) + 1] = label
    BY <1>4 DEF Grouped
  <2> HIDE DEF s, label
  <2>4. Kept(es, p, {label}, Len(es), s)
    BY <1>1, <2>2, SelectedKept
  <2>5. \E i \in 1..Len(es) : ~Goes(es[i], p, {label})
    <3> SUFFICES ASSUME \A i \in 1..Len(es) : Goes(es[i], p, {label}) PROVE FALSE
      OBVIOUS
    <3>1. \A i \in 1..Len(es) : Begins(Append(p, label), es[i].name)
      BY <1>6 DEF Goes
    <3> QED
      BY <1>3, <2>1, <3>1
  <2>6. Len(s) < Len(es) /\ s # << >>
    <3>1. Goes(es[i0], p, {label})
      BY <2>3 DEF Goes
    <3>2. \E m \in 1..Len(s) : s[m] = es[i0]
      BY <2>4, <3>1 DEF Kept
    <3>3. s # << >>
      BY <3>2
    <3>4. Len(s) < Len(es)
      BY <2>4, <2>5 DEF Kept
    <3> QED
      BY <3>3, <3>4
  <2>7. BuildInput(s)
    <3>1. \A m \in 1..Len(s) : EntryOk(s[m])
      BY <1>1, <2>4 DEF Kept
    <3> QED
      BY <2>1, <2>4, <3>1, InputInOrder DEF Kept
  <2> QED
    BY <2>1, <2>2, <2>6, <2>7 DEF s, label
<1>8. ASSUME NEW i \in 1..Len(es), es[i].name # p
      PROVE  \E j \in 1..Len(g) : es[i].name[Len(p) + 1] = g[j].label
  <2> DEFINE label == es[i].name[Len(p) + 1]
             s == Selected(es, p, {label})
  <2>1. label \in Byte /\ Goes(es[i], p, {label})
    BY <1>6, <1>8 DEF Goes
  <2> HIDE DEF label
  <2>2. Kept(es, p, {label}, Len(es), s) /\ Match(g, label, s)
    BY <1>1, <1>4, <2>1, SelectedKept
  <2>3. s # << >>
    <3> HIDE DEF s
    <3>1. \E m \in 1..Len(s) : s[m] = es[i]
      BY <2>1, <2>2 DEF Kept
    <3> QED
      BY <2>2, <3>1 DEF Kept
  <2>4. \E j \in 1..Len(g) : g[j].label = label
    <3> HIDE DEF s
    <3> QED
      BY <2>2, <2>3 DEF Match
  <2> QED
    BY <2>4 DEF label
<1>9. Division(es, p, g)
  BY <1>3, <1>5, <1>7, <1>8 DEF Division
<1> QED
  BY <1>9 DEF p, g

-----------------------------------------------------------------------------
(* The equation of Build: sub-trees are of shorter directories. *)
Body(s, f) ==
    IF ~BuildInput(s) THEN Failed
    ELSE IF StaysLeaf(s) THEN Encoded(Leaf(s))
    ELSE BranchOver(s, Groups(s, Lcp(s)),
                    << >> \o [k \in DOMAIN Groups(s, Lcp(s)) |->
                                  f[Groups(s, Lcp(s))[k].entries]])

LEMMA BodyLooksBelow ==
    ASSUME NEW s \in Seq(Entry), NEW f, NEW h,
           \A t \in Seq(Entry) : Len(t) < Len(s) => f[t] = h[t]
    PROVE  Body(s, f) = Body(s, h)
<1> DEFINE g == Groups(s, Lcp(s))
<1>1. CASE ~BuildInput(s)
  BY <1>1 DEF Body
<1>2. CASE BuildInput(s)
  <2>1. \A k \in DOMAIN g : f[g[k].entries] = h[g[k].entries]
    <3>1. CASE Len(s) > 0
      <4>1. Division(s, Lcp(s), g)
        BY <1>2, <3>1, Parts
      <4> HIDE DEF g
      <4>2. DOMAIN g = 1..Len(g)
        BY <4>1 DEF Division
      <4> QED
        BY <4>1, <4>2 DEF Division
    <3>2. CASE ~(Len(s) > 0)
      <4>1. Len(s) = 0 /\ 0 \in Nat
        BY <3>2
      <4>2. g = << >>
        BY <4>1, GroupRows DEF Cuts
      <4> HIDE DEF g
      <4>3. DOMAIN g = {}
        BY <4>2
      <4> QED
        BY <4>3
    <3> QED
      BY <3>1, <3>2
  <2>2. [k \in DOMAIN g |-> f[g[k].entries]] = [k \in DOMAIN g |-> h[g[k].entries]]
    <3> HIDE DEF g
    <3> QED
      BY <2>1
  <2> QED
    BY <2>2, Zenon DEF Body
<1> QED
  BY <1>1, <1>2

LEMMA BuildUnfold ==
    ASSUME NEW s \in Seq(Entry)
    PROVE  Build[s] = Body(s, Build)
<1> DEFINE D == Seq(Entry)
           U(f) == f = [t \in D |-> Body(t, f)]
           Upto(n, f) == \A t \in D : Len(t) < n => f[t] = Body(t, f)
           S == {n \in Nat : \E f : Upto(n, f)}
<1>1. Build = CHOOSE f : U(f)
  BY DEF Build, Body
<1> HIDE DEF Body
<1>2. \A n \in Nat : \A f, h : Upto(n, f) /\ Upto(n, h) =>
         \A t \in D : Len(t) < n => f[t] = h[t]
  <2> SUFFICES ASSUME NEW n \in Nat, NEW f, NEW h, Upto(n, f), Upto(n, h),
                      NEW t0 \in D, Len(t0) < n, f[t0] # h[t0]
               PROVE  FALSE
    OBVIOUS
  <2> DEFINE T == {k \in Nat : \E t \in D : Len(t) = k /\ k < n /\ f[t] # h[t]}
  <2>1. T \subseteq Nat /\ T # {}
    <3>1. Len(t0) \in Nat
      OBVIOUS
    <3> QED
      BY <3>1
  <2> HIDE DEF T
  <2>2. PICK x \in T : \A y \in T : x <= y
    BY <2>1, LeastElement
  <2>3. PICK t \in D : Len(t) < n /\ f[t] # h[t] /\ x = Len(t)
    BY <2>2 DEF T
  <2>4. ASSUME NEW u \in D, Len(u) < Len(t) PROVE f[u] = h[u]
    <3> SUFFICES ASSUME f[u] # h[u] PROVE FALSE
      OBVIOUS
    <3>1. Len(u) \in Nat /\ Len(t) \in Nat
      OBVIOUS
    <3>2. Len(u) < n
      BY <2>3, <2>4, <3>1
    <3>3. Len(u) \in T
      BY <3>2 DEF T
    <3> QED
      BY <2>2, <2>3, <2>4, <3>1, <3>3
  <2>5. Body(t, f) = Body(t, h)
    BY <2>4, BodyLooksBelow
  <2> QED
    BY <2>3, <2>5
<1>3. \A n \in Nat : n \in S
  <2> SUFFICES ASSUME NEW n \in Nat PROVE n \in S
    OBVIOUS
  <2>1. 0 \in S
    <3>1. \A t \in D : ~(Len(t) < 0)
      OBVIOUS
    <3>2. Upto(0, << >>)
      BY <3>1
    <3> QED
      BY <3>2
  <2>2. ASSUME NEW k \in 1..n, k - 1 \in S PROVE k \in S
    <3>1. PICK f : Upto(k - 1, f)
      BY <2>2
    <3> DEFINE h == [t \in D |-> IF Len(t) < k - 1 THEN f[t] ELSE Body(t, f)]
    <3>2. \A t \in D : Len(t) < k - 1 => h[t] = f[t]
      OBVIOUS
    <3>3. \A t \in D : Len(t) < k => h[t] = Body(t, f)
      BY <3>1
    <3> HIDE DEF h
    <3>4. ASSUME NEW t \in D, Len(t) < k PROVE h[t] = Body(t, h)
      <4>1. ASSUME NEW u \in D, Len(u) < Len(t) PROVE f[u] = h[u]
        <5>1. Len(u) < k - 1
          <6>1. Len(u) \in Nat /\ Len(t) \in Nat
            OBVIOUS
          <6> QED
            BY <3>4, <4>1, <6>1
        <5> QED
          BY <3>2, <5>1
      <4>2. Body(t, f) = Body(t, h)
        BY <4>1, BodyLooksBelow
      <4> QED
        BY <3>3, <3>4, <4>2
    <3>5. Upto(k, h)
      BY <3>4
    <3> QED
      BY <3>5
  <2> HIDE DEF S
  <2>3. \A k \in 0..n : k \in S
    BY <2>1, <2>2, StepByStep
  <2> QED
    BY <2>3
<1> DEFINE F(n) == CHOOSE f : Upto(n, f)
           all == [t \in D |-> F(Len(t) + 1)[t]]
<1>4. \A n \in Nat : Upto(n, F(n))
  <2> SUFFICES ASSUME NEW n \in Nat PROVE Upto(n, F(n))
    OBVIOUS
  <2>1. \E f : Upto(n, f)
    BY <1>3
  <2> HIDE DEF Upto
  <2> QED
    BY <2>1
<1>5. ASSUME NEW t \in D PROVE all[t] = Body(t, all)
  <2> DEFINE n == Len(t) + 1
             f == F(n)
  <2>1. n \in Nat /\ Len(t) < n /\ Len(t) \in Nat
    OBVIOUS
  <2>2. all[t] = f[t]
    OBVIOUS
  <2>3. Upto(n, f)
    BY <1>4, <2>1
  <2>4. ASSUME NEW u \in D, Len(u) < Len(t) PROVE f[u] = all[u]
    <3> DEFINE m == Len(u) + 1
    <3>1. m \in Nat /\ Len(u) < m /\ Len(u) \in Nat
      OBVIOUS
    <3>2. all[u] = F(m)[u] /\ Upto(m, F(m))
      BY <1>4, <3>1
    <3>3. m < n
      BY <2>1, <2>4, <3>1
    <3> HIDE DEF f, F, all, n, m
    <3>4. Upto(m, f)
      <4> SUFFICES ASSUME NEW v \in D, Len(v) < m PROVE f[v] = Body(v, f)
        OBVIOUS
      <4>1. Len(v) < n
        <5>1. Len(v) \in Nat
          OBVIOUS
        <5> QED
          BY <2>1, <3>1, <3>3, <5>1
      <4> QED
        BY <2>3, <4>1
    <3> HIDE DEF Upto
    <3> QED
      BY <1>2, <3>1, <3>2, <3>4
  <2> HIDE DEF f, all, F
  <2>5. Body(t, f) = Body(t, all)
    BY <2>4, BodyLooksBelow
  <2>6. f[t] = Body(t, f)
    BY <2>1, <2>3
  <2> QED
    BY <2>2, <2>5, <2>6
<1>6. U(all)
  <2>1. all = [t \in D |-> all[t]]
    OBVIOUS
  <2> HIDE DEF all
  <2> QED
    BY <1>5, <2>1
<1>7. U(Build)
  <2> HIDE DEF all, U
  <2> QED
    BY <1>1, <1>6
<1> QED
  BY <1>7

-----------------------------------------------------------------------------
(* A page has room for a branch of any shape, as its 16384 bytes have in    *)
(* the code: header, prefix, terminal entry and a child for every byte.     *)
PagesHaveRoom ==
    /\ LeafMaxEntries >= 1
    /\ PageMaxBytes >= HeaderLen + 3 + MaxDepth + 298 + 41 * BranchMaxChildren

Legal(es) == es \in Seq(Entry) /\ BuildInput(es) /\ Len(es) <= MaxTotalEntries

LEMMA EntryBytes ==
    ASSUME NEW e \in Entry
    PROVE  /\ e \in RawEntry /\ e.name \in Bytes /\ Len(e.name) \in 1..255
           /\ EntryLen(e) \in Nat /\ EntryLen(e) <= 298
<1>1. e.name \in Name /\ e.dir \in BOOLEAN /\ e.content \in Content
      /\ e = [name |-> e.name, dir |-> e.dir, content |-> e.content]
  BY DEF Entry
<1>2. e.name \in Bytes /\ Len(e.name) \in 1..255
  BY <1>1, NameAssumption DEF Bytes
<1>3. e \in RawEntry
  BY <1>1, <1>2 DEF RawEntry, Bytes
<1>4. EntryLen(e) = 3 + Len(e.name) + 32 \/ EntryLen(e) = 3 + Len(e.name) + 40
  BY DEF EntryLen
<1>5. EntryLen(e) \in Nat /\ EntryLen(e) <= 298
  <2> DEFINE n == Len(e.name)
  <2>1. n \in 1..255
    BY <1>2
  <2>2. EntryLen(e) = 3 + n + 32 \/ EntryLen(e) = 3 + n + 40
    BY <1>4
  <2> HIDE DEF n
  <2> QED
    BY <2>1, <2>2
<1> QED
  BY <1>2, <1>3, <1>5

LEMMA RawEntries ==
    ASSUME NEW es \in Seq(Entry)
    PROVE  es \in Seq(RawEntry)
<1>1. \A k \in 1..Len(es) : es[k] \in RawEntry
  <2>1. \A k \in 1..Len(es) : es[k] \in Entry
    OBVIOUS
  <2> QED
    BY <2>1, EntryBytes
<1> QED
  BY <1>1

(* At most one entry. *)
LEMMA OneEntryLen ==
    ASSUME NEW es \in Seq(Entry), Len(es) <= 1
    PROVE  EntriesLen(es) \in Nat /\ EntriesLen(es) <= 298
<1> DEFINE L == Len(es)
           s == [k \in 1..L |-> EntryLen(es[k])]
<1>1. L \in {0, 1} /\ DOMAIN es = 1..L /\ L \in Nat /\ Len(s) = L /\ L = Len(es)
  <2>1. Len(es) \in Nat /\ DOMAIN es = 1..Len(es) /\ Len(es) <= 1
    OBVIOUS
  <2>2. L \in {0, 1} /\ DOMAIN es = 1..L /\ L \in Nat /\ L = Len(es)
    BY <2>1
  <2> HIDE DEF L
  <2>3. Len(s) = L
    BY <2>2
  <2> QED
    BY <2>2, <2>3
<1>2. EntriesLen(es) = SumOf(s)
  BY <1>1 DEF EntriesLen
<1>3. \A k \in 1..L : s[k] \in Nat /\ s[k] <= 298
  <2>1. \A k \in 1..L : es[k] \in Entry /\ s[k] = EntryLen(es[k])
    BY <1>1
  <2> QED
    BY <2>1, EntryBytes
<1> HIDE DEF s, L
<1>4. PICK a : /\ SumOf(s) = a[L] /\ a[0] = 0
               /\ \A k \in 1..L : a[k] = a[k - 1] + s[k]
  BY <1>1, SumRows
<1>5. CASE L = 0
  BY <1>2, <1>4, <1>5
<1>6. CASE L = 1
  <2>1. a[1] = a[0] + s[1] /\ s[1] \in Nat /\ s[1] <= 298
    BY <1>3, <1>4, <1>6
  <2>2. SumOf(s) = s[1]
    BY <1>4, <1>6, <2>1
  <2> QED
    BY <1>2, <2>1, <2>2
<1> QED
  BY <1>1, <1>5, <1>6

LEMMA SmallStays ==
    ASSUME PagesHaveRoom, NEW es, Legal(es), Len(es) <= 1
    PROVE  StaysLeaf(es)
<1> DEFINE body == Leaf(es)
<1>1. es \in Seq(Entry) /\ BuildInput(es) /\ es \in Seq(RawEntry) /\ Len(es) \in Nat
  BY RawEntries DEF Legal
<1>2. body.kind = "leaf" /\ body.entries = es /\ body \in [kind : {"leaf"}, entries : Seq(RawEntry)]
  BY <1>1 DEF Leaf
<1>3. PageLen(body) <= PageMaxBytes
  <2>1. EntriesLen(es) \in Nat /\ EntriesLen(es) <= 298
    BY <1>1, OneEntryLen
  <2>2. PageLen(body) = 20 + EntriesLen(es)
    BY <1>2 DEF PageLen, HeaderLen
  <2>3. PageMaxBytes >= 20 + 3 + 255 + 298 + 41 * 256 /\ PageMaxBytes \in Nat
    BY LimitAssumption DEF PagesHaveRoom, HeaderLen, MaxDepth, BranchMaxChildren
  <2> QED
    BY <2>1, <2>2, <2>3
<1>4. Len(es) <= LeafMaxEntries
  BY <1>1, LimitAssumption DEF PagesHaveRoom
<1> HIDE DEF body
<1>5. EncodeOk(body)
  BY <1>1, <1>2, <1>3, <1>4 DEF EncodeOk, PageValue, BuildInput
<1> QED
  BY <1>4, <1>5 DEF StaysLeaf, body

(* The entry that stays in a branch. *)
LEMMA TerminalStays ==
    ASSUME NEW es \in Seq(Entry), NEW p
    PROVE  LET t == TerminalOf(es, p)
           IN  /\ t \in Seq(Entry) /\ Len(t) <= 1
               /\ Len(t) = IF \E i \in 1..Len(es) : es[i].name = p THEN 1 ELSE 0
               /\ \A k \in 1..Len(t) : /\ t[k].name = p
                                       /\ \E i \in 1..Len(es) : t[k] = es[i]
<1> DEFINE found == {e \in ToSet(es) : e.name = p}
           t == TerminalOf(es, p)
<1>1. ToSet(es) = {es[i] : i \in 1..Len(es)}
  BY DEF ToSet
<1>2. CASE found = {}
  <2>1. t = << >>
    BY <1>2 DEF TerminalOf
  <2>2. ~\E i \in 1..Len(es) : es[i].name = p
    BY <1>1, <1>2
  <2> QED
    BY <2>1, <2>2
<1>3. CASE found # {}
  <2>1. PICK e \in found : t = <<e>>
    <3>1. t = <<CHOOSE e \in found : TRUE>>
      BY <1>3 DEF TerminalOf
    <3>2. (CHOOSE e \in found : TRUE) \in found
      BY <1>3
    <3> HIDE DEF found, t
    <3> QED
      BY <3>1, <3>2
  <2>2. PICK i \in 1..Len(es) : e = es[i] /\ e.name = p
    BY <1>1
  <2>3. e \in Entry
    BY <2>2
  <2> HIDE DEF t, found
  <2>4. t \in Seq(Entry) /\ Len(t) = 1 /\ t[1] = e /\ \A k \in 1..Len(t) : k = 1
    BY <2>1, <2>3
  <2>5. \A k \in 1..Len(t) : t[k].name = p /\ \E m \in 1..Len(es) : t[k] = es[m]
    BY <2>2, <2>4
  <2>6. \E m \in 1..Len(es) : es[m].name = p
    BY <2>2
  <2> QED
    BY <2>4, <2>5, <2>6 DEF t
<1> QED
  BY <1>2, <1>3

LEMMA RisingBytes ==
    ASSUME NEW g \in Seq(GroupType), Rising(g)
    PROVE  Len(g) <= 256
<1> DEFINE n == Len(g)
           f == [j \in 1..n |-> g[j].label]
<1>1. n \in Nat /\ \A j \in 1..n : f[j] \in Int /\ 0 <= f[j] /\ f[j] <= 255
  <2>1. n \in Nat /\ \A j \in 1..n : g[j].label \in Byte
    BY GroupTyped
  <2>2. \A x \in Byte : x \in Int /\ 0 <= x /\ x <= 255
    BY DEF Byte
  <2>3. \A j \in 1..n : f[j] = g[j].label
    OBVIOUS
  <2> HIDE DEF n, f
  <2> QED
    BY <2>1, <2>2, <2>3
<1>2. \A i, j \in 1..n : i < j => f[i] < f[j]
  BY DEF Rising
<1> HIDE DEF n, f
<1> DEFINE S == {k \in Nat : k > 0 => f[k] >= k - 1}
<1>3. 0 \in S
  OBVIOUS
<1>4. ASSUME NEW k \in 1..n, k - 1 \in S PROVE k \in S
  <2>1. k \in Nat /\ f[k] \in Int /\ 0 <= f[k]
    BY <1>1
  <2>2. CASE k = 1
    BY <2>1, <2>2
  <2>3. CASE k > 1
    <3>1. k - 1 \in 1..n /\ k - 1 < k
      BY <1>1, <2>3
    <3>2. f[k - 1] < f[k] /\ f[k - 1] >= (k - 1) - 1 /\ f[k - 1] \in Int
      BY <1>1, <1>2, <1>4, <3>1
    <3> QED
      BY <2>1, <3>2
  <2> QED
    BY <2>2, <2>3
<1> HIDE DEF S
<1>5. \A k \in 0..n : k \in S
  BY <1>1, <1>3, <1>4, StepByStep
<1>6. n > 0 => f[n] >= n - 1 /\ f[n] \in Int /\ f[n] <= 255
  BY <1>1, <1>5 DEF S
<1>7. n <= 256
  BY <1>1, <1>6
<1> QED
  BY <1>7 DEF n

LEMMA NotFailed ==
    ASSUME NEW page, DecodeOk(page)
    PROVE  page # Failed
<1> SUFFICES ASSUME page = Failed PROVE FALSE
  OBVIOUS
<1>1. page.body = [kind |-> "none"]
  BY DEF Failed
<1>2. page.body.kind = "none"
  BY <1>1
<1>3. page.body.kind = "leaf" \/ page.body.kind = "branch"
  BY PageNames
<1> QED
  BY <1>2, <1>3

ChildrenOver(g) ==
    [k \in 1..Len(g) |-> Child(g[k].label, Len(g[k].entries), PageId(Build[g[k].entries]))]

BranchOn(es) ==
    LET p == Lcp(es) IN Branch(p, TerminalOf(es, p), ChildrenOver(Groups(es, p)))

(* Two parts at least. *)
LEMMA TwoParts ==
    ASSUME NEW es \in Seq(Entry), BuildInput(es), Len(es) > 1,
           NEW p, NEW g, p = Lcp(es), g = Groups(es, p)
    PROVE  Len(g) + Len(TerminalOf(es, p)) >= 2
<1>1. Division(es, p, g) /\ Len(es) \in Nat
  BY Parts
<1>2. g \in Seq(GroupType) /\ Len(g) \in Nat
  BY <1>1 DEF Division
<1> DEFINE top == IF \E i \in 1..Len(es) : es[i].name = p THEN 1 ELSE 0
<1>3. Len(TerminalOf(es, p)) = top
  BY TerminalStays
<1>4. SumOf(Sizes(g)) + top = Len(es)
  BY <1>1, GroupsCount DEF Division
<1>5. Len(Sizes(g)) = Len(g) /\ \A j \in 1..Len(g) : Sizes(g)[j] = Len(g[j].entries)
  BY <1>2, SumSizes
<1> SUFFICES ASSUME Len(g) + top < 2 PROVE FALSE
  <2>1. top \in Int
    OBVIOUS
  <2> HIDE DEF top
  <2> QED
    BY <1>2, <1>3, <2>1
<1>6. top \in {0, 1}
  OBVIOUS
<1> HIDE DEF top
<1> DEFINE L == Len(g)
           s == Sizes(g)
<1>7. L \in Nat /\ Len(s) = L
  BY <1>2, <1>5
<1> HIDE DEF L, s
<1>8. PICK a : /\ SumOf(s) = a[L] /\ a[0] = 0
               /\ \A k \in 1..L : a[k] = a[k - 1] + s[k]
  BY <1>7, SumRows
<1>9. CASE L = 0
  <2>1. SumOf(s) = 0
    BY <1>8, <1>9
  <2> QED
    BY <1>1, <1>4, <1>6, <2>1 DEF s
<1>10. CASE L = 1 /\ top = 0
  <2>1. 1 \in 1..Len(g)
    BY <1>10 DEF L
  <2>2. Len(g[1].entries) < Len(es) /\ g[1].entries \in Seq(Entry)
    BY <1>1, <2>1 DEF Division
  <2>3. s[1] = Len(g[1].entries) /\ s[1] \in Nat
    BY <1>5, <2>1, <2>2 DEF s
  <2>4. SumOf(s) = s[1]
    BY <1>8, <1>10, <2>3
  <2> QED
    BY <1>1, <1>4, <1>10, <2>2, <2>3, <2>4 DEF s
<1>11. L + top < 2
  BY DEF L
<1> QED
  BY <1>6, <1>7, <1>9, <1>10, <1>11

LEMMA BranchEncodes ==
    ASSUME PagesHaveRoom, NEW es, Legal(es), Len(es) > 1
    PROVE  /\ EncodeOk(BranchOn(es)) /\ TotalEntries(BranchOn(es)) = Len(es)
           /\ BranchOn(es).kind = "branch"
<1> DEFINE p == Lcp(es)
           g == Groups(es, p)
           t == TerminalOf(es, p)
           cs == ChildrenOver(g)
           body == BranchOn(es)
           top == IF \E i \in 1..Len(es) : es[i].name = p THEN 1 ELSE 0
           M == MaxTotalEntries
<1>1. /\ es \in Seq(Entry) /\ BuildInput(es) /\ Len(es) \in Nat /\ Len(es) <= M
      /\ M \in Int /\ \A i \in 1..Len(es) : EntryOk(es[i])
  BY MaxIsInt, InputInOrder DEF Legal
<1>2. Division(es, p, g)
  BY <1>1, Parts
<1>3. /\ body.kind = "branch" /\ body.prefix = p /\ body.terminal = t /\ body.children = cs
      /\ DOMAIN body = {"kind", "prefix", "terminal", "children"}
  BY DEF BranchOn, Branch
<1>4. Len(g) + Len(t) >= 2
  BY <1>1, TwoParts
<1>5. /\ t \in Seq(Entry) /\ Len(t) <= 1 /\ Len(t) = top
      /\ \A k \in 1..Len(t) : t[k].name = p /\ \E i \in 1..Len(es) : t[k] = es[i]
  BY <1>1, TerminalStays
<1>6. SumOf(Sizes(g)) + top = Len(es)
  BY <1>1, <1>2, GroupsCount DEF Division
<1> HIDE DEF p, g, t, body, M
<1>7. g \in Seq(GroupType) /\ Rising(g) /\ Len(g) \in Nat /\ Len(g) <= 256
  BY <1>2, RisingBytes DEF Division
<1>8. /\ Len(cs) = Len(g) /\ DOMAIN cs = 1..Len(g)
      /\ \A k \in 1..Len(g) : /\ cs[k].label = g[k].label
                              /\ cs[k].count = Len(g[k].entries)
                              /\ cs[k].label \in Byte /\ cs[k].count \in Nat
                              /\ cs[k].count # 0 /\ cs[k].count <= M
  <2>1. \A k \in 1..Len(g) : /\ cs[k].label = g[k].label
                             /\ cs[k].count = Len(g[k].entries)
    BY DEF ChildrenOver, Child
  <2>2. Len(cs) = Len(g) /\ DOMAIN cs = 1..Len(g)
    BY <1>7 DEF ChildrenOver
  <2> HIDE DEF cs
  <2>3. ASSUME NEW k \in 1..Len(g)
        PROVE  /\ g[k].label \in Byte /\ Len(g[k].entries) \in Nat
               /\ Len(g[k].entries) # 0 /\ Len(g[k].entries) <= M
    <3>1. /\ g[k].entries \in Seq(Entry) /\ g[k].entries # << >>
          /\ Len(g[k].entries) < Len(es)
      BY <1>2 DEF Division
    <3>2. Len(g[k].entries) \in Nat /\ Len(g[k].entries) # 0
      BY <3>1
    <3>3. g[k].label \in Byte
      BY <1>7, GroupTyped
    <3> QED
      BY <1>1, <3>1, <3>2, <3>3
  <2> QED
    BY <2>1, <2>2, <2>3
<1>9. CountSum(cs) = SumOf(Sizes(g))
  <2>1. [k \in DOMAIN cs |-> cs[k].count] = Sizes(g)
    <3> HIDE DEF cs
    <3> QED
      BY <1>8 DEF Sizes
  <2> QED
    BY <2>1 DEF CountSum
<1> HIDE DEF cs
<1>10. cs = [k \in 1..Len(cs) |-> cs[k]]
  <2>1. cs = [k \in DOMAIN cs |-> cs[k]]
    BY DEF cs, ChildrenOver
  <2> QED
    BY <1>8, <2>1
<1>11. CountSum(cs) \in Nat /\ top \in {0, 1} /\ CountSum(cs) + top = Len(es)
  BY <1>6, <1>7, <1>9, SumSizes
<1> HIDE DEF top
<1>12. TotalEntries(body) = Len(es)
  BY <1>1, <1>3, <1>5, <1>11 DEF TotalEntries
<1>13. p \in Bytes /\ Len(p) \in Nat /\ Len(p) <= 255
  <2>1. p \in Bytes /\ Begins(p, es[1].name) /\ es[1] \in Entry
    BY <1>1, <1>2 DEF Division
  <2>2. es[1].name \in Bytes /\ Len(es[1].name) \in 1..255
    BY <2>1, EntryBytes
  <2> DEFINE n == Len(es[1].name)
  <2>3. Len(p) \in Nat /\ Len(p) <= n /\ n \in 1..255
    BY <2>1, <2>2, BytesAreNumbers DEF Begins
  <2> HIDE DEF n
  <2> QED
    BY <2>1, <2>3
<1>14. U64 = 0..2 * M + 1
  BY DEF U64, M
<1>15. PageValue(body)
  <2>1. t \in Seq(RawEntry) /\ Len(t) <= 1
    BY <1>5, RawEntries
  <2>2. \A k \in DOMAIN cs : cs[k].label \in Byte /\ cs[k].count \in U64
    BY <1>1, <1>8, <1>14
  <2> QED
    BY <1>3, <1>10, <1>13, <2>1, <2>2 DEF PageValue, Bytes
<1>16. PageLen(body) <= PageMaxBytes
  <2>1. EntriesLen(t) \in Nat /\ EntriesLen(t) <= 298
    BY <1>5, OneEntryLen
  <2>2. PageLen(body) = 20 + (3 + Len(p) + EntriesLen(t) + 41 * Len(g))
    BY <1>3, <1>8 DEF PageLen, HeaderLen
  <2>3. PageMaxBytes >= 20 + 3 + 255 + 298 + 41 * 256 /\ PageMaxBytes \in Nat
    BY LimitAssumption DEF PagesHaveRoom, HeaderLen, MaxDepth, BranchMaxChildren
  <2> QED
    BY <1>7, <1>13, <2>1, <2>2, <2>3
<1>17. \A k \in DOMAIN t : EntryOk(t[k]) /\ t[k].name = p
  <2>1. DOMAIN t = 1..Len(t)
    BY <1>5
  <2> QED
    BY <1>1, <1>5, <2>1
<1>18. LabelsAscend(cs) /\ CountsPositive(cs)
  <2>1. ASSUME NEW k \in 2..Len(cs) PROVE cs[k - 1].label < cs[k].label
    <3>1. k - 1 \in 1..Len(g) /\ k \in 1..Len(g) /\ k - 1 < k
      BY <1>7, <1>8
    <3> QED
      BY <1>7, <1>8, <3>1 DEF Rising
  <2> QED
    BY <1>8, <2>1 DEF LabelsAscend, CountsPositive
<1>19. CountSum(cs) \in U64 /\ Len(es) \in U64
  BY <1>1, <1>11, <1>14
<1>20. Len(cs) + Len(t) >= 2 /\ Len(cs) <= BranchMaxChildren /\ Len(p) <= MaxDepth
  BY <1>4, <1>7, <1>8, <1>13 DEF BranchMaxChildren, MaxDepth
<1>21. EncodeOk(body)
  <2>1. body.kind # "leaf"
    BY <1>3
  <2> QED
    BY <1>1, <1>3, <1>12, <1>15, <1>16, <1>17, <1>18, <1>19, <1>20, <2>1 DEF EncodeOk, M
<1> QED
  BY <1>3, <1>12, <1>21 DEF body

(* Every legal directory has a tree. *)
Works(es) == Build[es] # Failed /\ DecodeOk(Build[es]) /\ Build[es].total = Len(es)

LEMMA LeafWorks ==
    ASSUME NEW es, Legal(es), StaysLeaf(es)
    PROVE  Works(es) /\ Build[es] = Encoded(Leaf(es))
<1>1. Build[es] = Encoded(Leaf(es))
  BY BuildUnfold DEF Legal, Body
<1>2. EncodeOk(Leaf(es))
  BY DEF StaysLeaf
<1>3. DecodeOk(Build[es])
  BY <1>1, <1>2, EncodedDecodes
<1>4. Build[es].total = Len(es)
  BY <1>1 DEF Encoded, Leaf, TotalEntries
<1> QED
  BY <1>1, <1>3, <1>4, NotFailed DEF Works

LEMMA BranchWorks ==
    ASSUME PagesHaveRoom, NEW es, Legal(es), ~StaysLeaf(es),
           \A s : Legal(s) /\ Len(s) < Len(es) => Works(s)
    PROVE  Works(es) /\ Build[es] = Encoded(BranchOn(es))
<1> DEFINE p == Lcp(es)
           g == Groups(es, p)
           fs == [k \in DOMAIN g |-> Build[g[k].entries]]
           pages == << >> \o fs
<1>1. /\ es \in Seq(Entry) /\ BuildInput(es) /\ Len(es) \in Nat
      /\ Len(es) <= MaxTotalEntries /\ MaxTotalEntries \in Int
  BY MaxIsInt DEF Legal
<1>2. Len(es) > 1
  BY <1>1, SmallStays
<1>3. Division(es, p, g)
  BY <1>1, <1>2, Parts
<1>4. Build[es] = BranchOver(es, g, pages)
  <2>1. Build[es] = Body(es, Build)
    BY <1>1, BuildUnfold
  <2> QED
    BY <1>1, <2>1, Zenon DEF Body
<1>5. Len(g) + Len(TerminalOf(es, p)) >= 2
  BY <1>1, <1>2, TwoParts
<1>6. EncodeOk(BranchOn(es)) /\ TotalEntries(BranchOn(es)) = Len(es)
  BY <1>2, BranchEncodes
<1>7. g \in Seq(GroupType) /\ Len(g) \in Nat /\ DOMAIN g = 1..Len(g)
  <2> HIDE DEF g
  <2> QED
    BY <1>3 DEF Division
<1> HIDE DEF g
<1>8. pages = fs
  <2>1. fs \in Seq({fs[k] : k \in 1..Len(g)})
    BY <1>7
  <2> HIDE DEF fs
  <2> QED
    BY <2>1
<1>9. \A k \in 1..Len(g) : pages[k] = Build[g[k].entries] /\ pages[k] # Failed
  <2> SUFFICES ASSUME NEW k \in 1..Len(g)
               PROVE  pages[k] = Build[g[k].entries] /\ pages[k] # Failed
    OBVIOUS
  <2>1. fs[k] = Build[g[k].entries]
    BY <1>7
  <2>2. /\ g[k].entries \in Seq(Entry) /\ BuildInput(g[k].entries)
        /\ Len(g[k].entries) < Len(es)
    BY <1>3 DEF Division
  <2>3. Legal(g[k].entries)
    <3>1. Len(g[k].entries) \in Nat
      BY <2>2
    <3> HIDE DEF fs, pages
    <3> QED
      BY <1>1, <2>2, <3>1 DEF Legal
  <2>4. Works(g[k].entries)
    BY <2>2, <2>3
  <2> HIDE DEF fs, pages
  <2> QED
    BY <1>8, <2>1, <2>4 DEF Works
<1> HIDE DEF pages, fs
<1>10. [k \in DOMAIN g |-> Child(g[k].label, Len(g[k].entries), PageId(pages[k]))]
           = ChildrenOver(g)
  BY <1>7, <1>9 DEF ChildrenOver
<1>11. BranchOver(es, g, pages) = Encoded(BranchOn(es))
  <2>1. ~(Len(g) + Len(TerminalOf(es, p)) < 2)
    <3>1. Len(TerminalOf(es, p)) \in Nat
      BY <1>1, TerminalStays
    <3> HIDE DEF p
    <3> QED
      BY <1>5, <1>7, <3>1
  <2>2. ~\E k \in DOMAIN g : pages[k] = Failed
    BY <1>7, <1>9
  <2>3. BranchOn(es) = Branch(p, TerminalOf(es, p), ChildrenOver(g))
    BY DEF BranchOn, g
  <2> QED
    BY <1>6, <1>10, <2>1, <2>2, <2>3 DEF BranchOver
<1>12. Build[es] = Encoded(BranchOn(es))
  BY <1>4, <1>11
<1>13. DecodeOk(Build[es])
  BY <1>6, <1>12, EncodedDecodes
<1>14. Build[es].total = Len(es)
  BY <1>6, <1>12 DEF Encoded
<1> QED
  BY <1>12, <1>13, <1>14, NotFailed DEF Works

LEMMA AllWork ==
    ASSUME PagesHaveRoom
    PROVE  \A es : Legal(es) => Works(es)
<1> SUFFICES ASSUME NEW s0, Legal(s0), ~Works(s0) PROVE FALSE
  OBVIOUS
<1> DEFINE T == {n \in Nat : \E s : Legal(s) /\ ~Works(s) /\ Len(s) = n}
<1>1. T \subseteq Nat /\ T # {}
  <2>1. Len(s0) \in Nat
    BY DEF Legal
  <2> QED
    BY <2>1
<1> HIDE DEF T
<1>2. PICK n \in T : \A y \in T : n <= y
  BY <1>1, LeastElement
<1>3. PICK es : Legal(es) /\ ~Works(es) /\ Len(es) = n
  BY DEF T
<1>4. ASSUME NEW s, Legal(s), Len(s) < Len(es) PROVE Works(s)
  <2> SUFFICES ASSUME ~Works(s) PROVE FALSE
    OBVIOUS
  <2>1. Len(s) \in Nat
    BY <1>4 DEF Legal
  <2>2. Len(s) \in T
    BY <1>4, <2>1 DEF T
  <2>3. n <= Len(s) /\ n \in Nat
    BY <1>1, <1>2, <2>2
  <2> QED
    BY <1>3, <1>4, <2>1, <2>3
<1> QED
  BY <1>3, <1>4, LeafWorks, BranchWorks

-----------------------------------------------------------------------------
(* The directory of an honest publisher stays what it was. *)
Published == dir # << >> => dir[1] \in Directories

LEMMA DirectoriesLegal == \A es \in Directories : Legal(es)
BY DirectoriesAssumption DEF Legal

LEMMA AlwaysPublished == Spec => []Published
<1>1. Init => Published
  BY DEF Init, Published
<1>2. Published /\ [Next]_vars => Published'
  BY DEF Published, Next, FetchRoot, FetchChild, Take, vars
<1> QED
  BY <1>1, <1>2, PTL DEF Spec

(* "would make legal directories unbuildable": a directory too long for one *)
(* leaf is split until it fits, whatever its names are.                     *)
THEOREM LegalBuild ==
    ASSUME PagesHaveRoom
    PROVE  Spec => []LegalDirectoriesBuild
<1>1. Published => LegalDirectoriesBuild
  BY AllWork, DirectoriesLegal DEF Published, LegalDirectoriesBuild, Works
<1> QED
  BY <1>1, AlwaysPublished, PTL

-----------------------------------------------------------------------------
(* A page of a directory and the pages below it. *)
Lower(es, label) == Selected(es, Lcp(es), {label})

LEMMA PageOfLegal ==
    ASSUME PagesHaveRoom, NEW es, Legal(es)
    PROVE  \/ Build[es] = Encoded(Leaf(es))
           \/ Len(es) > 1 /\ Build[es] = Encoded(BranchOn(es))
<1>1. \A s : Legal(s) => Works(s)
  BY AllWork
<1>2. CASE StaysLeaf(es)
  BY <1>2, LeafWorks
<1>3. CASE ~StaysLeaf(es)
  <2>1. Build[es] = Encoded(BranchOn(es))
    BY <1>1, <1>3, BranchWorks
  <2>2. Len(es) > 1
    <3>1. ~(Len(es) <= 1) /\ Len(es) \in Nat
      BY <1>3, SmallStays DEF Legal
    <3> QED
      BY <3>1
  <2> QED
    BY <2>1, <2>2
<1> QED
  BY <1>2, <1>3

ShowsBranch(es, page, g) ==
    /\ Division(es, Lcp(es), g)
    /\ page.body.kind = "branch" /\ page.body.prefix = Lcp(es)
    /\ page.body.terminal = TerminalOf(es, Lcp(es))
    /\ ChildLabels(page) = {g[j].label : j \in 1..Len(g)}
    /\ \A j \in 1..Len(g) : ChildAt(page, g[j].label) =
         {Child(g[j].label, Len(g[j].entries), PageId(Build[g[j].entries]))}

LEMMA BranchLabels ==
    ASSUME NEW es, Legal(es), Len(es) > 1
    PROVE  ShowsBranch(es, Encoded(BranchOn(es)), Groups(es, Lcp(es)))
<1> DEFINE page == Encoded(BranchOn(es))
           g == Groups(es, Lcp(es))
<1>1. Division(es, Lcp(es), g)
  BY Parts DEF Legal
<1>2. g \in Seq(GroupType) /\ Len(g) \in Nat /\ Rising(g)
  BY <1>1 DEF Division
<1> DEFINE cs == ChildrenOver(g)
           Kid(j) == Child(g[j].label, Len(g[j].entries), PageId(Build[g[j].entries]))
<1>3. /\ page.body.kind = "branch" /\ page.body.prefix = Lcp(es)
      /\ page.body.terminal = TerminalOf(es, Lcp(es))
      /\ page.body.children = cs
  BY DEF Encoded, BranchOn, Branch
<1> HIDE DEF page, g
<1>4. ToSet(cs) = {Kid(j) : j \in 1..Len(g)}
  BY <1>2 DEF ChildrenOver, ToSet
<1>5. \A j \in 1..Len(g) : Kid(j).label = g[j].label
  BY DEF Child
<1> HIDE DEF cs, Kid
<1>6. ChildLabels(page) = {g[j].label : j \in 1..Len(g)}
  BY <1>3, <1>4, <1>5 DEF ChildLabels
<1>7. \A i, j \in 1..Len(g) : g[i].label = g[j].label => i = j
  <2> SUFFICES ASSUME NEW i \in 1..Len(g), NEW j \in 1..Len(g), i < j,
                      g[i].label = g[j].label
               PROVE  FALSE
    BY <1>2
  <2>1. g[i].label < g[j].label /\ g[i].label \in Int
    BY <1>2, GroupTyped DEF Rising
  <2> QED
    BY <2>1
<1>8. ASSUME NEW j \in 1..Len(g) PROVE ChildAt(page, g[j].label) = {Kid(j)}
  <2>1. ChildAt(page, g[j].label) = {c \in ToSet(cs) : c.label = g[j].label}
    BY <1>3 DEF ChildAt
  <2> QED
    BY <1>4, <1>5, <1>7, <2>1
<1>9. ShowsBranch(es, page, g)
  BY <1>1, <1>3, <1>6, <1>8 DEF Kid, ShowsBranch
<1> QED
  BY <1>9 DEF page, g

LEMMA HonestChild ==
    ASSUME PagesHaveRoom, NEW es, Legal(es), NEW label, label \in ChildLabels(Build[es]),
           NEW s, s = Lower(es, label)
    PROVE  /\ Legal(s) /\ s # << >> /\ Len(s) < Len(es) /\ label \in Byte
           /\ Build[es].body.kind = "branch" /\ Build[es].body.prefix = Lcp(es)
           /\ ChildAt(Build[es], label) = {Child(label, Len(s), PageId(Build[s]))}
           /\ \A e \in ToSet(es) : IsPrefix(Lcp(es), e.name)
           /\ VerifyReceivedChild(Build[es], label, Build[s])
<1> DEFINE p == Lcp(es)
           g == Groups(es, p)
           page == Build[es]
<1>1. /\ es \in Seq(Entry) /\ Len(es) \in Nat /\ Len(es) <= MaxTotalEntries
      /\ InOrder(es) /\ MaxTotalEntries \in Int
  BY InputInOrder, MaxIsInt DEF Legal
<1>2. Len(es) > 1 /\ page = Encoded(BranchOn(es))
  <2>1. page = Encoded(Leaf(es)) => ChildLabels(page) = {}
    BY DEF Encoded, Leaf, ChildLabels
  <2> QED
    BY <2>1, PageOfLegal
<1>3. ShowsBranch(es, page, g)
  BY <1>2, BranchLabels
<1> HIDE DEF g
<1>4. PICK j \in 1..Len(g) : label = g[j].label
  BY <1>3 DEF ShowsBranch
<1>5. /\ g[j].entries = s /\ s \in Seq(Entry) /\ BuildInput(s)
      /\ s # << >> /\ Len(s) < Len(es)
  BY <1>3, <1>4 DEF ShowsBranch, Division, Lower
<1>6. label \in Byte /\ p \in Bytes
  BY <1>3, <1>4, GroupTyped DEF ShowsBranch, Division
<1>7. ChildAt(page, label) = {Child(label, Len(s), PageId(Build[s]))}
  BY <1>3, <1>4, <1>5 DEF ShowsBranch
<1>8. Legal(s)
  <2>1. Len(s) \in Nat
    BY <1>5
  <2> QED
    BY <1>1, <1>5, <2>1 DEF Legal
<1>9. \A i \in 1..Len(es) : es[i].name \in Bytes /\ Begins(p, es[i].name)
  <2>1. \A i \in 1..Len(es) : es[i] \in Entry
    BY <1>1
  <2> QED
    BY <1>3, <2>1, EntryBytes DEF ShowsBranch, Division
<1>10. \A e \in ToSet(es) : IsPrefix(p, e.name)
  <2>1. ToSet(es) = {es[i] : i \in 1..Len(es)}
    BY <1>1 DEF ToSet
  <2> HIDE DEF p
  <2> QED
    BY <1>6, <1>9, <2>1, PrefixBegins
<1>11. Works(es) /\ Works(s)
  BY <1>8, AllWork
<1> DEFINE q == Append(p, label)
<1>12. \A k \in 1..Len(s) : s[k].name \in Bytes /\ Begins(q, s[k].name)
  <2> SUFFICES ASSUME NEW k \in 1..Len(s) PROVE s[k].name \in Bytes /\ Begins(q, s[k].name)
    OBVIOUS
  <2>1. Kept(es, p, {label}, Len(es), s)
    BY <1>1, SelectedKept DEF Lower
  <2>2. PICK i \in 1..Len(es) : s[k] = es[i] /\ Goes(es[i], p, {label})
    BY <2>1 DEF Kept
  <2> DEFINE n == es[i].name
  <2>3. n \in Bytes /\ Begins(p, n) /\ n # p /\ n[Len(p) + 1] = label
    BY <1>9, <2>2 DEF Goes
  <2> HIDE DEF n, p
  <2>4. Len(p) < Len(n) /\ Len(p) \in Nat /\ Len(n) \in Nat
    BY <1>6, <2>3, LabelsFollow, BytesAreNumbers
  <2>5. /\ Len(q) = Len(p) + 1 /\ q[Len(p) + 1] = label
        /\ \A m \in 1..Len(p) : q[m] = p[m]
    BY <1>6, AppendBegins
  <2>6. \A m \in 1..Len(p) + 1 : m \in 1..Len(p) \/ m = Len(p) + 1
    BY <2>4
  <2> HIDE DEF q
  <2>7. Begins(q, n)
    <3>1. Len(q) <= Len(n)
      BY <2>4, <2>5
    <3>2. \A m \in 1..Len(p) : q[m] = n[m]
      BY <2>3, <2>5 DEF Begins
    <3>3. \A m \in 1..Len(p) + 1 : q[m] = n[m]
      BY <2>3, <2>5, <2>6, <3>2
    <3> QED
      BY <2>5, <3>1, <3>3 DEF Begins
  <2> QED
    BY <2>2, <2>3, <2>7 DEF n
<1>13. q \in Bytes
  BY <1>6, AppendBegins
<1>14. InPartition(Build[s], q)
  <2>1. CASE Build[s] = Encoded(Leaf(s))
    <3>1. Build[s].body.kind = "leaf" /\ Build[s].body.entries = s
      BY <2>1 DEF Encoded, Leaf
    <3>2. ToSet(s) = {s[k] : k \in 1..Len(s)}
      BY <1>5 DEF ToSet
    <3> HIDE DEF q
    <3>3. \A e \in ToSet(s) : IsPrefix(q, e.name)
      BY <1>12, <1>13, <3>2, PrefixBegins
    <3> QED
      BY <3>1, <3>3 DEF InPartition
  <2>2. CASE Len(s) > 1 /\ Build[s] = Encoded(BranchOn(s))
    <3>1. Build[s].body.kind = "branch" /\ Build[s].body.prefix = Lcp(s)
      BY <2>2 DEF Encoded, BranchOn, Branch
    <3> HIDE DEF q
    <3>2. /\ Lcp(s) \in Bytes /\ \A k \in 1..Len(s) : Begins(Lcp(s), s[k].name)
          /\ ~\E b \in Byte : \A k \in 1..Len(s) : Begins(Append(Lcp(s), b), s[k].name)
      BY <1>5, <1>12, <2>2, LcpShared
    <3>3. Begins(q, Lcp(s))
      BY <1>5, <1>12, <1>13, <2>2, <3>2, LcpLongest
    <3> QED
      BY <1>13, <3>1, <3>2, <3>3, PrefixBegins DEF InPartition
  <2> QED
    BY <1>8, <2>1, <2>2, PageOfLegal
<1>15. VerifyReceivedChild(page, label, Build[s])
  <2>1. PageId(Build[s]) = Child(label, Len(s), PageId(Build[s])).id
        /\ Len(s) = Child(label, Len(s), PageId(Build[s])).count
    BY DEF Child
  <2> QED
    BY <1>3, <1>7, <1>11, <1>14, <2>1 DEF ShowsBranch, VerifyReceivedChild, Works
<1> QED
  BY <1>3, <1>5, <1>6, <1>7, <1>8, <1>10, <1>15 DEF ShowsBranch

(* The entries of a directory are on its page or go below it. *)
LEMMA EntriesBelow ==
    ASSUME PagesHaveRoom, NEW es, Legal(es)
    PROVE  /\ EntriesOn(Build[es]) \subseteq ToSet(es)
           /\ \A e \in ToSet(es) : \/ e \in EntriesOn(Build[es])
                                  \/ \E label \in ChildLabels(Build[es]) :
                                       e \in ToSet(Lower(es, label))
<1>1. es \in Seq(Entry) /\ Len(es) \in Nat /\ InOrder(es)
  BY InputInOrder DEF Legal
<1>2. ToSet(es) = {es[i] : i \in 1..Len(es)}
  BY <1>1 DEF ToSet
<1>3. CASE Build[es] = Encoded(Leaf(es))
  BY <1>3 DEF Encoded, Leaf, EntriesOn
<1>4. CASE Len(es) > 1 /\ Build[es] = Encoded(BranchOn(es))
  <2> DEFINE page == Build[es]
             p == Lcp(es)
             g == Groups(es, p)
             t == TerminalOf(es, p)
  <2>1. ShowsBranch(es, page, g)
    BY <1>4, BranchLabels
  <2>2. EntriesOn(page) = {t[k] : k \in 1..Len(t)}
    <3>1. EntriesOn(page) = ToSet(t)
      BY <2>1 DEF ShowsBranch, EntriesOn
    <3>2. DOMAIN t = 1..Len(t)
      BY <1>1, TerminalStays
    <3> QED
      BY <3>1, <3>2 DEF ToSet
  <2>3. /\ Len(t) = IF \E i \in 1..Len(es) : es[i].name = p THEN 1 ELSE 0
        /\ \A k \in 1..Len(t) : /\ t[k].name = p
                                /\ \E i \in 1..Len(es) : t[k] = es[i]
    BY <1>1, TerminalStays
  <2>4. EntriesOn(page) \subseteq ToSet(es)
    BY <1>2, <2>2, <2>3
  <2>5. ASSUME NEW i \in 1..Len(es), es[i].name = p PROVE es[i] \in EntriesOn(page)
    <3>1. Len(t) = 1 /\ 1 \in 1..Len(t)
      BY <2>3, <2>5
    <3>2. PICK j \in 1..Len(es) : t[1] = es[j]
      BY <2>3, <3>1
    <3>3. es[j].name = p
      BY <2>3, <3>1, <3>2
    <3>4. i = j
      <4>1. \A k \in 1..Len(es) : es[k].name \in Bytes
        <5>1. ASSUME NEW k \in 1..Len(es) PROVE es[k] \in Entry
          BY <1>1
        <5> QED
          BY <5>1, EntryBytes, Zenon
      <4>2. ~(i < j) /\ ~(j < i)
        BY <1>1, <2>5, <3>3, <4>1, SoonerDiffers DEF InOrder
      <4> QED
        BY <4>2
    <3> HIDE DEF t
    <3> QED
      BY <2>2, <3>1, <3>2, <3>4
  <2>6. ASSUME NEW i \in 1..Len(es), es[i].name # p
        PROVE  \E label \in ChildLabels(page) : es[i] \in ToSet(Lower(es, label))
    <3>1. PICK j \in 1..Len(g) : es[i].name[Len(p) + 1] = g[j].label
      BY <2>1, <2>6 DEF ShowsBranch, Division
    <3> DEFINE label == g[j].label
               s == Lower(es, label)
    <3>2. label \in ChildLabels(page)
      BY <2>1 DEF ShowsBranch
    <3>3. Kept(es, p, {label}, Len(es), s)
      BY <1>1, SelectedKept DEF Lower
    <3>4. Goes(es[i], p, {label})
      BY <2>6, <3>1 DEF Goes
    <3> HIDE DEF label, s
    <3>5. PICK k \in 1..Len(s) : s[k] = es[i]
      BY <3>3, <3>4 DEF Kept
    <3>6. es[i] \in ToSet(s)
      BY <3>3, <3>5 DEF Kept, ToSet
    <3> QED
      BY <3>2, <3>6 DEF s
  <2> HIDE DEF page, p
  <2> QED
    BY <1>2, <2>4, <2>5, <2>6 DEF page
<1> QED
  BY <1>3, <1>4, PageOfLegal

LEMMA BelowIsWithin ==
    ASSUME NEW es, Legal(es), NEW label
    PROVE  ToSet(Lower(es, label)) \subseteq ToSet(es)
<1>1. es \in Seq(Entry) /\ Len(es) \in Nat /\ InOrder(es)
  BY InputInOrder DEF Legal
<1> DEFINE s == Lower(es, label)
<1>2. Kept(es, Lcp(es), {label}, Len(es), s)
  BY <1>1, SelectedKept DEF Lower
<1> HIDE DEF s
<1>3. s \in Seq(Entry) /\ \A j \in 1..Len(s) : \E i \in 1..Len(es) : s[j] = es[i]
  BY <1>2 DEF Kept
<1>4. ToSet(s) \subseteq ToSet(es)
  BY <1>1, <1>3 DEF ToSet
<1> QED
  BY <1>4 DEF s

(* One label of a route after another. *)
Start(es) == [group |-> es,
              pages |-> IF Build[es] = Failed THEN << >> ELSE <<Build[es]>>]

Further(before, page, label) ==
    LET child  == ChildAt(page, label)
        prefix == page.body.prefix
        group  == RouteGroup(before.group, prefix, label)
        bytes  == Build[group]
    IN  IF /\ before.pages # << >>
           /\ DecodeOk(page) /\ child # {}
           /\ \A e \in ToSet(before.group) : IsPrefix(prefix, e.name)
           /\ group # << >> /\ bytes # Failed
           /\ \E c \in child : PageId(bytes) = c.id
        THEN [group |-> group, pages |-> Append(before.pages, bytes)]
        ELSE [group |-> << >>, pages |-> << >>]

Walked(es, route, n, w) ==
    /\ w[0] = Start(es)
    /\ \A k \in 1..n : w[k] = Further(w[k - 1], w[k - 1].pages[k], route[k])

LEMMA WalkRows ==
    ASSUME NEW es, NEW route, NEW L \in Nat, Len(route) = L
    PROVE  \E w : Walked(es, route, L, w) /\ PagesAlongRoute(es, route) = w[L].pages
<1> DEFINE Row(f, k) == IF k = 0 THEN Start(es)
                        ELSE Further(f[k - 1], f[k - 1].pages[k], route[k])
           U(f) == f = [k \in 0..L |-> Row(f, k)]
           h    == CHOOSE f : U(f)
           S    == {j \in Nat : \E f : \A k \in 0..j : f[k] = Row(f, k)}
<1>3. PagesAlongRoute(es, route) = h[L].pages
  BY DEF PagesAlongRoute, Start, Further
<1> HIDE DEF Row
<1>1. \A j \in 0..L : j \in S
  <2>1. 0 \in S
    <3> DEFINE f == [k \in 0..0 |-> Start(es)]
    <3>1. \A k \in 0..0 : f[k] = Row(f, k)
      BY DEF Row
    <3> QED
      BY <3>1
  <2>2. \A j \in 1..L : j - 1 \in S => j \in S
    <3> SUFFICES ASSUME NEW j \in 1..L, j - 1 \in S PROVE j \in S
      OBVIOUS
    <3>1. PICK g : \A k \in 0..j - 1 : g[k] = Row(g, k)
      OBVIOUS
    <3> DEFINE f == [k \in 0..j |-> IF k < j THEN g[k] ELSE Row(g, j)]
    <3>2. ASSUME NEW k \in 0..j, k < j PROVE f[k] = Row(f, k)
      <4>1. f[k] = Row(g, k)
        BY <3>1, <3>2
      <4>2. k # 0 => f[k - 1] = g[k - 1]
        BY <3>2
      <4> HIDE DEF f
      <4> QED
        BY <4>1, <4>2 DEF Row
    <3>3. f[j] = Row(f, j)
      <4>1. f[j] = Row(g, j)
        OBVIOUS
      <4>2. f[j - 1] = g[j - 1]
        OBVIOUS
      <4> HIDE DEF f
      <4> QED
        BY <4>1, <4>2 DEF Row
    <3> HIDE DEF f
    <3>4. \A k \in 0..j : f[k] = Row(f, k)
      BY <3>2, <3>3
    <3> QED
      BY <3>4
  <2> HIDE DEF S
  <2> QED
    BY <2>1, <2>2, StepByStep
<1>2. U(h)
  <2>1. PICK g : \A k \in 0..L : g[k] = Row(g, k)
    <3>1. L \in S
      BY <1>1
    <3> QED
      BY <3>1
  <2> DEFINE f == [k \in 0..L |-> g[k]]
  <2>2. \A k \in 0..L : f[k] = Row(f, k)
    <3> SUFFICES ASSUME NEW k \in 0..L PROVE f[k] = Row(f, k)
      OBVIOUS
    <3>1. f[k] = g[k] /\ (k # 0 => f[k - 1] = g[k - 1])
      OBVIOUS
    <3> HIDE DEF f
    <3> QED
      BY <2>1, <3>1 DEF Row
  <2>3. U(f)
    BY <2>2
  <2> QED
    BY <2>3
<1> HIDE DEF h
<1>4. \A k \in 0..L : h[k] = Row(h, k)
  BY <1>2
<1>5. Walked(es, route, L, h)
  BY <1>4 DEF Walked, Row
<1> QED
  BY <1>3, <1>5

LEMMA FurtherDown ==
    ASSUME PagesHaveRoom, NEW es, Legal(es), NEW label, label \in ChildLabels(Build[es]),
           NEW before, before.group = es, before.pages # << >>
    PROVE  Further(before, Build[es], label) =
               [group |-> Lower(es, label),
                pages |-> Append(before.pages, Build[Lower(es, label)])]
<1> DEFINE s == Lower(es, label)
           c == Child(label, Len(s), PageId(Build[s]))
<1>1. /\ Legal(s) /\ s # << >> /\ Build[es].body.prefix = Lcp(es)
      /\ ChildAt(Build[es], label) = {c}
      /\ \A e \in ToSet(es) : IsPrefix(Lcp(es), e.name)
  BY HonestChild
<1>2. RouteGroup(es, Lcp(es), label) = s
  BY DEF RouteGroup, Lower
<1> HIDE DEF s
<1>3. PageId(Build[s]) = c.id
  BY DEF Child
<1>4. DecodeOk(Build[es]) /\ Build[s] # Failed
  BY <1>1, AllWork DEF Works
<1> HIDE DEF c
<1>5. Further(before, Build[es], label) =
          [group |-> s, pages |-> Append(before.pages, Build[s])]
  BY <1>1, <1>2, <1>3, <1>4 DEF Further
<1> QED
  BY <1>5 DEF s

LEMMA FurtherNowhere ==
    ASSUME NEW page, NEW label, label \notin ChildLabels(page), NEW before
    PROVE  Further(before, page, label).pages = << >>
<1>1. ChildAt(page, label) = {}
  BY DEF ChildAt, ChildLabels
<1> QED
  BY <1>1 DEF Further

(* The directories on the way down a route. *)
IsWay(route, gs) ==
    /\ Legal(gs[1])
    /\ \A k \in 1..Len(route) : /\ route[k] \in ChildLabels(Build[gs[k]])
                                /\ gs[k + 1] = Lower(gs[k], route[k])

PagesOfWay(gs, n) == [k \in 1..n |-> Build[gs[k]]]

LEMMA PagesOfWayGrow ==
    ASSUME NEW gs, NEW n \in Nat \ {0}
    PROVE  /\ PagesOfWay(gs, n) # << >> /\ Len(PagesOfWay(gs, n)) = n
           /\ \A k \in 1..n : PagesOfWay(gs, n)[k] = Build[gs[k]]
           /\ Append(PagesOfWay(gs, n), Build[gs[n + 1]]) = PagesOfWay(gs, n + 1)
           /\ PagesOfWay(gs, 1) = <<Build[gs[1]]>>
<1> DEFINE S == {Build[gs[k]] : k \in 1..n + 1}
           f == PagesOfWay(gs, n)
           h == PagesOfWay(gs, n + 1)
<1>1. /\ f \in Seq(S) /\ Len(f) = n /\ \A k \in 1..n : f[k] = Build[gs[k]]
      /\ h \in Seq(S) /\ Len(h) = n + 1 /\ \A k \in 1..n + 1 : h[k] = Build[gs[k]]
      /\ Build[gs[n + 1]] \in S
  BY DEF PagesOfWay
<1>2. PagesOfWay(gs, 1) = <<Build[gs[1]]>>
  BY DEF PagesOfWay
<1> HIDE DEF S, f, h
<1>3. Append(f, Build[gs[n + 1]]) = h
  BY <1>1
<1>4. f # << >>
  BY <1>1
<1> QED
  BY <1>1, <1>2, <1>3, <1>4 DEF f, h

LEMMA WayLegal ==
    ASSUME PagesHaveRoom, NEW route, NEW L \in Nat, Len(route) = L, NEW gs,
           IsWay(route, gs)
    PROVE  \A k \in 0..L : Legal(gs[k + 1])
<1> DEFINE S == {k \in 0..L : Legal(gs[k + 1])}
<1>1. 0 \in S
  BY DEF IsWay
<1>2. ASSUME NEW k \in 1..L, k - 1 \in S PROVE k \in S
  <2>1. Legal(gs[k]) /\ k \in 0..L /\ k - 1 + 1 = k
    BY <1>2
  <2>2. route[k] \in ChildLabels(Build[gs[k]]) /\ gs[k + 1] = Lower(gs[k], route[k])
    BY DEF IsWay
  <2>3. Legal(gs[k + 1])
    BY <2>1, <2>2, HonestChild
  <2> QED
    BY <2>1, <2>3
<1> HIDE DEF S
<1>3. \A k \in 0..L : k \in S
  BY <1>1, <1>2, StepByStep
<1> QED
  BY <1>3 DEF S

(* The walk of pages_along_route along such a route, or one that goes on. *)
LEMMA WayRow ==
    ASSUME PagesHaveRoom, NEW route, NEW L \in Nat, Len(route) = L, NEW gs,
           IsWay(route, gs), NEW R, \A k \in 1..L : R[k] = route[k],
           NEW w, Walked(gs[1], R, L, w)
    PROVE  w[L] = [group |-> gs[L + 1], pages |-> PagesOfWay(gs, L + 1)]
<1> DEFINE Due(k) == [group |-> gs[k + 1], pages |-> PagesOfWay(gs, k + 1)]
           S == {k \in 0..L : w[k] = Due(k)}
<1>1. 0 \in S
  <2>1. Legal(gs[1])
    BY DEF IsWay
  <2>2. Build[gs[1]] # Failed
    BY <2>1, AllWork DEF Works
  <2>3. Start(gs[1]) = Due(0)
    BY <2>2, PagesOfWayGrow DEF Start
  <2> QED
    BY <2>3 DEF Walked
<1>2. ASSUME NEW k \in 1..L, k - 1 \in S PROVE k \in S
  <2> DEFINE b == [group |-> gs[k], pages |-> PagesOfWay(gs, k)]
  <2>1. w[k - 1] = b
    BY <1>2
  <2>2. Legal(gs[k])
    <3>1. k - 1 \in 0..L /\ k - 1 + 1 = k
      OBVIOUS
    <3> QED
      BY <3>1, WayLegal
  <2>3. route[k] \in ChildLabels(Build[gs[k]]) /\ gs[k + 1] = Lower(gs[k], route[k])
    BY DEF IsWay
  <2>4. /\ PagesOfWay(gs, k) # << >> /\ PagesOfWay(gs, k)[k] = Build[gs[k]]
        /\ Append(PagesOfWay(gs, k), Build[gs[k + 1]]) = PagesOfWay(gs, k + 1)
    <3>1. k \in Nat \ {0} /\ k \in 1..k
      OBVIOUS
    <3> QED
      BY <3>1, PagesOfWayGrow
  <2>5. b.group = gs[k] /\ b.pages = PagesOfWay(gs, k)
    OBVIOUS
  <2> DEFINE es == gs[k]
             label == route[k]
  <2> HIDE DEF b
  <2>6. Further(b, Build[gs[k]], route[k]) =
            [group |-> gs[k + 1], pages |-> Append(b.pages, Build[gs[k + 1]])]
    <3>1. /\ Legal(es) /\ label \in ChildLabels(Build[es])
          /\ b.group = es /\ b.pages # << >>
      BY <2>2, <2>3, <2>4, <2>5
    <3> HIDE DEF es, label
    <3>2. Further(b, Build[es], label) =
              [group |-> Lower(es, label),
               pages |-> Append(b.pages, Build[Lower(es, label)])]
      BY <3>1, FurtherDown
    <3>3. Lower(es, label) = gs[k + 1]
      BY <2>3 DEF es, label
    <3> QED
      BY <3>2, <3>3 DEF es, label
  <2>7. w[k] = Further(b, b.pages[k], route[k])
    BY <2>1 DEF Walked
  <2>8. w[k] = Due(k)
    BY <2>4, <2>5, <2>6, <2>7
  <2> QED
    BY <2>8
<1> HIDE DEF S
<1>3. \A k \in 0..L : k \in S
  BY <1>1, <1>2, StepByStep
<1> QED
  BY <1>3 DEF S

(* What the server sends for the route, and for one label more. *)
LEMMA WayServed ==
    ASSUME PagesHaveRoom, NEW route \in Bytes, NEW gs, IsWay(route, gs)
    PROVE  PagesAlongRoute(gs[1], route) = PagesOfWay(gs, Len(route) + 1)
<1>1. Len(route) \in Nat
  BY BytesAreNumbers
<1>2. PICK w : /\ Walked(gs[1], route, Len(route), w)
               /\ PagesAlongRoute(gs[1], route) = w[Len(route)].pages
  BY <1>1, WalkRows
<1>3. w[Len(route)] = [group |-> gs[Len(route) + 1],
                       pages |-> PagesOfWay(gs, Len(route) + 1)]
  BY <1>1, <1>2, WayRow
<1> QED
  BY <1>2, <1>3

LEMMA WayGoesOn ==
    ASSUME PagesHaveRoom, NEW route \in Bytes, NEW gs, IsWay(route, gs),
           NEW label \in Byte
    PROVE  LET last  == gs[Len(route) + 1]
               pages == PagesAlongRoute(gs[1], Append(route, label))
           IN  IF label \in ChildLabels(Build[last])
               THEN /\ pages # << >>
                    /\ Last(pages) = Build[Lower(last, label)]
               ELSE pages = << >>
<1> DEFINE L == Len(route)
           R == Append(route, label)
           last == gs[L + 1]
           f == PagesOfWay(gs, L + 1)
<1>1. /\ L \in Nat /\ Len(R) = L + 1 /\ R[L + 1] = label
      /\ \A k \in 1..L : R[k] = route[k]
  BY BytesAreNumbers, AppendBegins
<1> HIDE DEF R, L
<1>2. PICK w : /\ Walked(gs[1], R, L + 1, w)
               /\ PagesAlongRoute(gs[1], R) = w[L + 1].pages
  <2>1. L + 1 \in Nat
    BY <1>1
  <2> QED
    BY <1>1, <2>1, WalkRows
<1>3. w[L] = [group |-> last, pages |-> f]
  <2>1. Walked(gs[1], R, L, w)
    BY <1>1, <1>2 DEF Walked
  <2>2. Len(route) = L
    BY DEF L
  <2> QED
    BY <1>1, <2>1, <2>2, WayRow
<1>4. /\ f # << >> /\ Len(f) = L + 1 /\ f[L + 1] = Build[last]
      /\ \A k \in 1..L + 1 : f[k] = Build[gs[k]]
  <2>1. L + 1 \in Nat \ {0} /\ L + 1 \in 1..L + 1
    BY <1>1
  <2> QED
    BY <2>1, PagesOfWayGrow
<1>5. Legal(last)
  <2>1. \A k \in 0..L : Legal(gs[k + 1])
    BY <1>1, WayLegal DEF L
  <2>2. L \in 0..L
    BY <1>1
  <2> HIDE DEF last
  <2>3. \A k \in 0..L : k = L => Legal(last)
    BY <2>1 DEF last
  <2> QED
    BY <2>2, <2>3
<1> HIDE DEF last, f
<1>6. w[L + 1] = Further(w[L], Build[last], label)
  <2>1. L + 1 \in 1..L + 1 /\ L + 1 - 1 = L
    BY <1>1
  <2> DEFINE n == L + 1
  <2>2. w[n] = Further(w[n - 1], w[n - 1].pages[n], R[n])
    <3> HIDE DEF n
    <3> QED
      BY <1>2, <2>1 DEF n, Walked
  <2> QED
    BY <1>1, <1>3, <1>4, <2>2
<1>7. CASE label \in ChildLabels(Build[last])
  <2> DEFINE page == Build[Lower(last, label)]
  <2>1. w[L + 1] = [group |-> Lower(last, label), pages |-> Append(w[L].pages, page)]
    BY <1>3, <1>4, <1>5, <1>6, <1>7, FurtherDown
  <2> HIDE DEF page
  <2>2. PagesAlongRoute(gs[1], R) = Append(f, page)
    BY <1>2, <1>3, <2>1
  <2>3. Append(f, page) # << >> /\ Last(Append(f, page)) = page
    <3>1. f \in Seq({page} \cup {Build[gs[k]] : k \in 1..L + 1})
      BY <1>1 DEF f, PagesOfWay
    <3>2. Append(f, page) # << >> /\ Len(Append(f, page)) = Len(f) + 1
          /\ Append(f, page)[Len(f) + 1] = page
      BY <1>1, <1>4, <3>1
    <3> QED
      BY <3>2 DEF Last
  <2> QED
    BY <1>7, <2>2, <2>3 DEF R, L, last, page
<1>8. CASE label \notin ChildLabels(Build[last])
  <2>1. PagesAlongRoute(gs[1], R) = << >>
    BY <1>2, <1>6, <1>8, FurtherNowhere
  <2> QED
    BY <1>8, <2>1 DEF R, L, last
<1> QED
  BY <1>7, <1>8

-----------------------------------------------------------------------------
(* The invariant for an honest publisher of directory d: the page held for  *)
(* a route is the one built over grp[route], the entries that go down it.   *)
Honest(h, d, grp) ==
    /\ \A r \in DOMAIN h : /\ Legal(grp[r]) /\ h[r] = Build[grp[r]]
                           /\ ToSet(grp[r]) \subseteq ToSet(d)
    /\ << >> \in DOMAIN h => grp[<< >>] = d
    /\ \A r \in Bytes, b \in Byte : Append(r, b) \in DOMAIN h =>
           grp[Append(r, b)] = Lower(grp[r], b)

AppendNotEmpty == \A r \in Bytes, b \in Byte : Append(r, b) # << >>

LEMMA NothingAppended == AppendNotEmpty
<1> SUFFICES ASSUME NEW r \in Bytes, NEW b \in Byte PROVE Append(r, b) # << >>
  BY DEF AppendNotEmpty
<1>1. Len(Append(r, b)) = Len(r) + 1 /\ Len(r) \in Nat
  BY AppendBegins, BytesAreNumbers
<1> QED
  BY <1>1

LEMMA RootHonest ==
    ASSUME NEW d, Legal(d), NEW h, DOMAIN h = {<< >>}, h[<< >>] = Build[d]
    PROVE  \E grp : Honest(h, d, grp)
<1> DEFINE grp == [r \in {<< >>} |-> d]
<1>1. Honest(h, d, grp)
  BY NothingAppended DEF Honest, AppendNotEmpty
<1> QED
  BY <1>1

LEMMA ChildHonest ==
    ASSUME PagesHaveRoom, NEW h, NEW d, NEW grp, Honest(h, d, grp), Linked(h),
           NEW parent \in DOMAIN h, parent \in Bytes,
           NEW label \in ChildLabels(h[parent]),
           NEW route, route = Append(parent, label), route \notin DOMAIN h,
           NEW page, VerifyReceivedChild(h[parent], label, page),
           NEW g, DOMAIN g = DOMAIN h \cup {route}, g[route] = page,
           \A r \in DOMAIN h : g[r] = h[r]
    PROVE  \E grp2 : Honest(g, d, grp2)
<1> DEFINE es == grp[parent]
           s == Lower(es, label)
           grp2 == [r \in DOMAIN g |-> IF r = route THEN s ELSE grp[r]]
<1>1. Legal(es) /\ h[parent] = Build[es] /\ ToSet(es) \subseteq ToSet(d)
  BY DEF Honest
<1>2. /\ Legal(s) /\ label \in Byte
      /\ ChildAt(h[parent], label) = {Child(label, Len(s), PageId(Build[s]))}
  BY <1>1, HonestChild
<1>3. page = Build[s]
  <2>1. PageId(page) = Child(label, Len(s), PageId(Build[s])).id
    BY <1>2 DEF VerifyReceivedChild
  <2> HIDE DEF s
  <2>2. PageId(page) = PageId(Build[s])
    BY <2>1 DEF Child
  <2> QED
    BY <2>2 DEF PageId
<1>4. ToSet(s) \subseteq ToSet(d)
  BY <1>1, BelowIsWithin
<1>5. grp2[route] = s /\ \A r \in DOMAIN h : grp2[r] = grp[r]
  OBVIOUS
<1>6. grp2[parent] = es /\ parent # route
  BY <1>5
<1> HIDE DEF grp2, s, es
<1>7. \A r \in DOMAIN g : /\ Legal(grp2[r]) /\ g[r] = Build[grp2[r]]
                         /\ ToSet(grp2[r]) \subseteq ToSet(d)
  BY <1>2, <1>3, <1>4, <1>5 DEF Honest
<1>8. << >> \in DOMAIN g => grp2[<< >>] = d
  <2>1. route # << >>
    BY <1>2, NothingAppended DEF AppendNotEmpty
  <2> QED
    BY <1>5, <2>1 DEF Honest
<1>9. ASSUME NEW r \in Bytes, NEW b \in Byte, Append(r, b) \in DOMAIN g
      PROVE  grp2[Append(r, b)] = Lower(grp2[r], b)
  <2>1. CASE Append(r, b) \in DOMAIN h
    <3>1. r \in DOMAIN h
      BY <2>1 DEF Linked
    <3> QED
      BY <1>5, <2>1, <3>1 DEF Honest
  <2>2. CASE Append(r, b) = route
    <3>1. r = parent /\ b = label
      BY <1>2, <2>2, AppendAgain
    <3> QED
      BY <1>5, <1>6, <2>2, <3>1 DEF s
  <2> QED
    BY <1>9, <2>1, <2>2
<1>10. Honest(g, d, grp2)
  BY <1>7, <1>8, <1>9 DEF Honest
<1> QED
  BY <1>10

(* The routes on the way to a route. *)
LEMMA RouteCut ==
    ASSUME NEW r \in Bytes, NEW k \in 1..Len(r)
    PROVE  /\ SubSeq(r, 1, k) \in Bytes /\ SubSeq(r, 1, k - 1) \in Bytes
           /\ r[k] \in Byte /\ SubSeq(r, 1, k) = Append(SubSeq(r, 1, k - 1), r[k])
           /\ Begins(SubSeq(r, 1, k), r)
BY DEF Begins, Bytes

LEMMA RouteEnds ==
    ASSUME NEW r \in Bytes
    PROVE  SubSeq(r, 1, 0) = << >> /\ SubSeq(r, 1, Len(r)) = r /\ Len(r) \in Nat
           /\ << >> \in Bytes /\ Begins(<< >>, r)
BY DEF Begins, Bytes

WayTo(grp, r) == [k \in 1..Len(r) + 1 |-> grp[SubSeq(r, 1, k - 1)]]

PagesTo(h, r) == [k \in 1..Len(r) + 1 |-> h[SubSeq(r, 1, k - 1)]]

LEMMA HeldWay ==
    ASSUME NEW h, NEW d, NEW grp, Honest(h, d, grp), Linked(h), FromTheRoot(h),
           NEW r \in DOMAIN h, r \in Bytes
    PROVE  /\ IsWay(r, WayTo(grp, r)) /\ WayTo(grp, r)[1] = d
           /\ WayTo(grp, r)[Len(r) + 1] = grp[r]
           /\ PagesOfWay(WayTo(grp, r), Len(r) + 1) = PagesTo(h, r)
<1> DEFINE gs == WayTo(grp, r)
           c(k) == SubSeq(r, 1, k)
<1>1. c(0) = << >> /\ c(Len(r)) = r /\ Len(r) \in Nat /\ c(0) \in DOMAIN h
  BY RouteEnds DEF FromTheRoot
<1>2. \A k \in 1..Len(r) : /\ c(k) \in Bytes /\ c(k - 1) \in Bytes /\ r[k] \in Byte
                           /\ c(k) = Append(c(k - 1), r[k]) /\ c(k) \in DOMAIN h
  BY RouteCut DEF FromTheRoot
<1>3. \A k \in 1..Len(r) + 1 : gs[k] = grp[c(k - 1)]
  BY DEF WayTo
<1> HIDE DEF gs, c
<1>4. \A k \in 1..Len(r) + 1 : c(k - 1) \in DOMAIN h
  <2> SUFFICES ASSUME NEW k \in 1..Len(r) + 1 PROVE c(k - 1) \in DOMAIN h
    OBVIOUS
  <2>1. CASE k = 1
    BY <1>1, <2>1
  <2>2. CASE k # 1
    <3>1. k - 1 \in 1..Len(r)
      BY <1>1, <2>2
    <3> QED
      BY <1>2, <3>1
  <2> QED
    BY <2>1, <2>2
<1>5. gs[1] = d /\ gs[Len(r) + 1] = grp[r]
  <2>1. 1 \in 1..Len(r) + 1 /\ Len(r) + 1 \in 1..Len(r) + 1 /\ 1 - 1 = 0
        /\ Len(r) + 1 - 1 = Len(r)
    BY <1>1
  <2>2. gs[1] = grp[c(0)] /\ gs[Len(r) + 1] = grp[c(Len(r))]
    BY <1>3, <2>1
  <2> QED
    BY <1>1, <2>2 DEF Honest
<1>6. IsWay(r, gs)
  <2>1. Legal(gs[1])
    BY <1>1, <1>5 DEF Honest
  <2>2. ASSUME NEW k \in 1..Len(r)
        PROVE  r[k] \in ChildLabels(Build[gs[k]]) /\ gs[k + 1] = Lower(gs[k], r[k])
    <3>1. k \in 1..Len(r) + 1 /\ k + 1 \in 1..Len(r) + 1 /\ k + 1 - 1 = k
      BY <1>1
    <3>2. gs[k] = grp[c(k - 1)] /\ gs[k + 1] = grp[c(k)]
      BY <1>3, <3>1
    <3> DEFINE a == c(k - 1)
               b == r[k]
    <3>3. a \in Bytes /\ b \in Byte /\ c(k) = Append(a, b) /\ Append(a, b) \in DOMAIN h
      BY <1>2
    <3> HIDE DEF a, b
    <3>4. a \in DOMAIN h /\ b \in ChildLabels(h[a])
      BY <3>3 DEF Linked
    <3>5. grp[c(k)] = Lower(grp[a], b) /\ h[a] = Build[grp[a]]
      BY <3>3, <3>4 DEF Honest
    <3> QED
      BY <3>2, <3>4, <3>5 DEF a, b
  <2> QED
    BY <2>1, <2>2 DEF IsWay
<1>7. PagesOfWay(gs, Len(r) + 1) = [k \in 1..Len(r) + 1 |-> h[c(k - 1)]]
  <2>1. \A k \in 1..Len(r) + 1 : Build[gs[k]] = h[c(k - 1)]
    BY <1>3, <1>4 DEF Honest
  <2> QED
    BY <2>1 DEF PagesOfWay
<1> QED
  BY <1>5, <1>6, <1>7 DEF gs, c, PagesTo

Agreed ==
    dir # << >> => /\ Legal(dir[1]) /\ rootId = PageId(Build[dir[1]])
                   /\ \E grp : Honest(held, dir[1], grp)

LEMMA InitAgreed == Init => Agreed /\ HonestNeverRefused
<1> SUFFICES ASSUME Init PROVE Agreed /\ HonestNeverRefused
  OBVIOUS
<1>1. dir # << >> => Legal(dir[1]) /\ rootId = PageId(Build[dir[1]])
  BY DirectoriesLegal DEF Init
<1>2. DOMAIN held = {}
  BY DEF Init
<1>3. Honest(held, dir[1], << >>)
  BY <1>2 DEF Honest
<1>4. HonestNeverRefused
  BY DEF Init, NoAnswer, HonestNeverRefused
<1> QED
  BY <1>1, <1>3, <1>4 DEF Agreed

(* The first page: no other than the directory's has its identity. *)
LEMMA RootServed ==
    ASSUME PagesHaveRoom, NEW d, Legal(d)
    PROVE  PagesAlongRoute(d, << >>) # << >> /\ Last(PagesAlongRoute(d, << >>)) = Build[d]
<1> DEFINE gs == <<d>>
           r == << >>
<1>1. r \in Bytes /\ Len(r) = 0
  BY DEF Bytes
<1>2. IsWay(r, gs) /\ gs[1] = d
  BY DEF IsWay
<1> HIDE DEF gs, r
<1>3. PagesAlongRoute(d, r) = PagesOfWay(gs, 1)
  BY <1>1, <1>2, WayServed
<1>4. PagesOfWay(gs, 1) = <<Build[d]>>
  <2>1. 1 \in Nat \ {0}
    OBVIOUS
  <2> QED
    BY <1>2, <2>1, PagesOfWayGrow
<1> QED
  BY <1>3, <1>4 DEF r, Last

LEMMA FetchRootHonest ==
    ASSUME PagesHaveRoom, IInv, Agreed, HonestNeverRefused, FetchRoot
    PROVE  (Agreed /\ HonestNeverRefused)'
<1>1. << >> \notin DOMAIN held
  BY DEF FetchRoot
<1>2. DOMAIN held = {}
  <2>1. PICK due : Routed(held, due)
    BY DEF IInv
  <2>2. << >> \in Bytes /\ \A s \in Bytes : Begins(<< >>, s)
    BY DEF Begins, Bytes
  <2> QED
    BY <1>1, <2>1, <2>2 DEF Routed, Readable, FromTheRoot
<1>3. PICK page : Take(<< >>, page, PageId(page) = rootId /\ DecodeOk(page))
  BY DEF FetchRoot
<1> DEFINE ok == PageId(page) = rootId /\ DecodeOk(page)
           d == dir[1]
<1>4. ok \in BOOLEAN /\ Take(<< >>, page, ok)
  BY <1>3 DEF DecodeOk
<1>5. dir' = dir /\ rootId' = rootId /\ answer' = [route |-> << >>, page |-> page, ok |-> ok]
  BY <1>4 DEF Take
<1>6. SUFFICES ASSUME dir # << >>
               PROVE  /\ \E grp : Honest(held', d, grp)
                      /\ page \in Served(<< >>)' => ok
  BY <1>5 DEF Agreed, HonestNeverRefused
<1>7. Legal(d) /\ rootId = PageId(Build[d])
  BY <1>6 DEF Agreed
<1>8. DecodeOk(Build[d])
  BY <1>7, AllWork DEF Works
<1>9. page \in Served(<< >>)' => ok
  <2>1. Served(<< >>)' = {Build[d]}
    BY <1>5, <1>6, <1>7, RootServed DEF Served
  <2> QED
    BY <1>7, <1>8, <2>1
<1>10. ok => page = Build[d]
  BY <1>7 DEF PageId
<1> HIDE DEF ok, d
<1>11. CASE ok
  <2>1. DOMAIN held' = {<< >>} /\ held'[<< >>] = Build[d]
    BY <1>1, <1>2, <1>4, <1>10, <1>11, Taken
  <2> QED
    BY <1>7, <1>9, <2>1, RootHonest
<1>12. CASE ~ok
  <2>1. held' = held
    BY <1>4, <1>12 DEF Take
  <2> QED
    BY <1>6, <1>9, <2>1 DEF Agreed, d
<1> QED
  BY <1>11, <1>12

LEMMA FetchChildHonest ==
    ASSUME PagesHaveRoom, IInv, Linked(held), Agreed, HonestNeverRefused, FetchChild
    PROVE  (Agreed /\ HonestNeverRefused)'
<1>1. PICK due : Routed(held, due)
  BY DEF IInv
<1>2. PICK parent \in DOMAIN held : \E label \in ChildLabels(held[parent]) : \E page :
          /\ Append(parent, label) \notin DOMAIN held
          /\ Take(Append(parent, label), page,
                  VerifyReceivedChild(held[parent], label, page))
  BY DEF FetchChild
<1>3. PICK label \in ChildLabels(held[parent]) : \E page :
          /\ Append(parent, label) \notin DOMAIN held
          /\ Take(Append(parent, label), page,
                  VerifyReceivedChild(held[parent], label, page))
  BY <1>2
<1>4. PICK page :
          /\ Append(parent, label) \notin DOMAIN held
          /\ Take(Append(parent, label), page,
                  VerifyReceivedChild(held[parent], label, page))
  BY <1>3
<1> DEFINE route == Append(parent, label)
           ok == VerifyReceivedChild(held[parent], label, page)
           d == dir[1]
<1>5. ok \in BOOLEAN /\ Take(route, page, ok) /\ route \notin DOMAIN held
  BY <1>4 DEF VerifyReceivedChild
<1>6. parent \in Bytes /\ label \in Byte
  BY <1>1, PageNames DEF Routed, Readable
<1>7. dir' = dir /\ rootId' = rootId /\ answer' = [route |-> route, page |-> page, ok |-> ok]
  BY <1>5 DEF Take
<1>8. SUFFICES ASSUME dir # << >>
               PROVE  /\ \E grp : Honest(held', d, grp)
                      /\ page \in Served(route)' => ok
  BY <1>7 DEF Agreed, HonestNeverRefused
<1>9. PICK grp : Honest(held, d, grp)
  BY <1>8 DEF Agreed
<1> DEFINE es == grp[parent]
           s == Lower(es, label)
           gs == WayTo(grp, parent)
<1>10. Legal(es) /\ held[parent] = Build[es]
  BY <1>9 DEF Honest
<1>11. IsWay(parent, gs) /\ gs[1] = d /\ gs[Len(parent) + 1] = es
  <2>1. FromTheRoot(held) /\ Linked(held)
    BY <1>1 DEF Routed
  <2> HIDE DEF d
  <2> QED
    BY <1>6, <1>9, <2>1, HeldWay
<1>12. page \in Served(route)' => ok
  <2>1. /\ PagesAlongRoute(d, route) # << >>
        /\ Last(PagesAlongRoute(d, route)) = Build[s]
    <3> HIDE DEF gs, es, d
    <3> QED
      BY <1>6, <1>10, <1>11, WayGoesOn
  <2>2. Served(route)' = {Build[s]}
    BY <1>7, <1>8, <2>1 DEF Served
  <2>3. VerifyReceivedChild(held[parent], label, Build[s])
    BY <1>10, HonestChild
  <2> QED
    BY <2>2, <2>3
<1> HIDE DEF es, s, gs, d
<1>13. CASE ok
  <2> HIDE DEF route
  <2>1. /\ DOMAIN held' = DOMAIN held \cup {route} /\ held'[route] = page
        /\ \A r \in DOMAIN held : held'[r] = held[r]
    BY <1>5, <1>13, Taken
  <2>2. route = Append(parent, label)
    BY DEF route
  <2>3. \E grp2 : Honest(held', d, grp2)
    BY <1>5, <1>6, <1>9, <1>13, <2>1, <2>2, ChildHonest
  <2> QED
    BY <1>12, <2>3 DEF route
<1>14. CASE ~ok
  <2>1. held' = held
    <3> HIDE DEF route, ok
    <3> QED
      BY <1>5, <1>14, Zenon DEF Take
  <2> QED
    BY <1>9, <1>12, <2>1
<1> QED
  BY <1>13, <1>14

HonestInv == IInv /\ Linked(held) /\ Agreed /\ HonestNeverRefused

LEMMA HonestAlways ==
    ASSUME PagesHaveRoom
    PROVE  Spec => []HonestInv
<1>1. Init => HonestInv
  BY InitRouted, InitLinked, InitAgreed DEF HonestInv
<1>2. HonestInv /\ [Next]_vars => HonestInv'
  <2> SUFFICES ASSUME HonestInv, [Next]_vars PROVE HonestInv'
    OBVIOUS
  <2>1. CASE FetchRoot
    BY <2>1, FetchRootRouted, FetchRootLinked, FetchRootHonest DEF HonestInv
  <2>2. CASE FetchChild
    BY <2>2, FetchChildRouted, FetchChildLinked, FetchChildHonest DEF HonestInv
  <2>3. CASE UNCHANGED vars
    BY <2>3 DEF HonestInv, IInv, Agreed, HonestNeverRefused, Served, vars
  <2> QED
    BY <2>1, <2>2, <2>3 DEF Next
<1> QED
  BY <1>1, <1>2, PTL DEF Spec

(* pages_along_route, which repartitions the entries on its own, cuts them  *)
(* where build and the client's checks do: it has the pages the client      *)
(* accepted for every route, and a page below them for their labels alone.  *)
THEOREM SentIsBuilt ==
    ASSUME PagesHaveRoom
    PROVE  Spec => []HeldIsServed
<1>1. HonestInv => HeldIsServed
  <2> SUFFICES ASSUME HonestInv, dir # << >>, NEW r \in DOMAIN held
               PROVE  /\ PagesAlongRoute(dir[1], r) = PagesTo(held, r)
                      /\ \A label \in AllLabels :
                            (PagesAlongRoute(dir[1], Append(r, label)) # << >>)
                                <=> label \in ChildLabels(held[r])
    BY DEF HeldIsServed, PagesTo
  <2> DEFINE d == dir[1]
  <2>1. PICK due : Routed(held, due)
    BY DEF HonestInv, IInv
  <2>2. PICK grp : Honest(held, d, grp)
    BY DEF HonestInv, Agreed
  <2> DEFINE gs == WayTo(grp, r)
  <2>3. r \in Bytes /\ Linked(held) /\ FromTheRoot(held)
    BY <2>1 DEF HonestInv, Routed, Readable
  <2> HIDE DEF d
  <2>4. /\ IsWay(r, gs) /\ gs[1] = d /\ gs[Len(r) + 1] = grp[r]
        /\ PagesOfWay(gs, Len(r) + 1) = PagesTo(held, r)
    BY <2>2, <2>3, HeldWay
  <2> HIDE DEF gs
  <2>5. PagesAlongRoute(d, r) = PagesTo(held, r)
    BY <2>3, <2>4, WayServed
  <2>6. held[r] = Build[grp[r]]
    BY <2>2 DEF Honest
  <2>7. ASSUME NEW label \in AllLabels
        PROVE  (PagesAlongRoute(d, Append(r, label)) # << >>)
                   <=> label \in ChildLabels(held[r])
    <3>1. label \in Byte
      <4>1. PICK name \in Name : label \in ToSet(name)
        BY Zenon DEF AllLabels
      <4>2. name \in Seq(Byte)
        BY NameAssumption
      <4>3. PICK k \in DOMAIN name : label = name[k]
        BY <4>1, Zenon DEF ToSet
      <4> QED
        BY <4>2, <4>3
    <3> QED
      BY <2>3, <2>4, <2>6, <3>1, WayGoesOn
  <2> QED
    BY <2>5, <2>7 DEF d
<1>2. Spec => []HonestInv
  BY HonestAlways
<1> QED
  BY <1>1, <1>2, PTL

(* A page the honest server sends is accepted, whatever was fetched before. *)
THEOREM NeverRefused ==
    ASSUME PagesHaveRoom
    PROVE  Spec => []HonestNeverRefused
<1>1. HonestInv => HonestNeverRefused
  BY DEF HonestInv
<1>2. Spec => []HonestInv
  BY HonestAlways
<1> QED
  BY <1>1, <1>2, PTL

(* The entries on the pages of a complete tree.  Induction is on how many   *)
(* entries go down a route.                                                 *)
LEMMA AllListed ==
    ASSUME PagesHaveRoom, NEW d, NEW grp, Honest(held, d, grp), Readable(held), Complete
    PROVE  \A r \in DOMAIN held : ToSet(grp[r]) \subseteq Listed
<1> SUFFICES ASSUME NEW r0 \in DOMAIN held, ~(ToSet(grp[r0]) \subseteq Listed) PROVE FALSE
  OBVIOUS
<1> DEFINE T == {n \in Nat : \E r \in DOMAIN held :
                    ~(ToSet(grp[r]) \subseteq Listed) /\ Len(grp[r]) = n}
<1>1. \A r \in DOMAIN held : Legal(grp[r]) /\ Len(grp[r]) \in Nat /\ r \in Bytes
  BY DEF Honest, Legal, Readable
<1>2. T \subseteq Nat /\ T # {}
  BY <1>1
<1> HIDE DEF T
<1>3. PICK n \in T : \A y \in T : n <= y
  BY <1>2, LeastElement
<1>4. PICK r \in DOMAIN held : ~(ToSet(grp[r]) \subseteq Listed) /\ Len(grp[r]) = n
  BY <1>3 DEF T
<1> DEFINE es == grp[r]
<1>5. PICK e \in ToSet(es) : e \notin Listed
  BY <1>4
<1>6. Legal(es) /\ held[r] = Build[es]
  BY DEF Honest
<1>7. e \notin EntriesOn(Build[es])
  BY <1>5, <1>6 DEF Listed
<1>8. PICK label \in ChildLabels(Build[es]) : e \in ToSet(Lower(es, label))
  BY <1>5, <1>6, <1>7, EntriesBelow
<1> DEFINE s == Lower(es, label)
           q == Append(r, label)
<1>9. q \in DOMAIN held
  BY <1>6 DEF Complete
<1>10. label \in Byte /\ Len(s) < Len(es)
  BY <1>6, HonestChild
<1>11. grp[q] = s
  BY <1>1, <1>9, <1>10 DEF Honest
<1>12. ~(ToSet(grp[q]) \subseteq Listed)
  BY <1>5, <1>8, <1>11
<1>13. Len(grp[q]) \in T
  BY <1>1, <1>9, <1>12 DEF T
<1>14. n <= Len(grp[q]) /\ n \in Nat /\ Len(grp[q]) \in Nat
  BY <1>1, <1>2, <1>3, <1>9, <1>13
<1> QED
  BY <1>4, <1>10, <1>11, <1>14

WellListed ==
    dir # << >> => /\ Listed \subseteq ToSet(dir[1])
                   /\ Complete => Listed = ToSet(dir[1])

LEMMA ListedIsPublished ==
    ASSUME PagesHaveRoom
    PROVE  HonestInv => WellListed
<1> SUFFICES ASSUME HonestInv, dir # << >>
             PROVE  Listed \subseteq ToSet(dir[1]) /\ (Complete => Listed = ToSet(dir[1]))
  BY DEF WellListed
<1> DEFINE d == dir[1]
<1>1. PICK grp : Honest(held, d, grp)
  BY DEF HonestInv, Agreed
<1>2. PICK due : Routed(held, due)
  BY DEF HonestInv, IInv
<1> HIDE DEF d
<1>3. ASSUME NEW r \in DOMAIN held PROVE EntriesOn(held[r]) \subseteq ToSet(d)
  <2>1. Legal(grp[r]) /\ held[r] = Build[grp[r]] /\ ToSet(grp[r]) \subseteq ToSet(d)
    BY <1>1 DEF Honest
  <2>2. EntriesOn(Build[grp[r]]) \subseteq ToSet(grp[r])
    BY <2>1, EntriesBelow
  <2> QED
    BY <2>1, <2>2
<1>4. Listed \subseteq ToSet(d)
  BY <1>3 DEF Listed
<1>5. ASSUME Complete PROVE ToSet(d) \subseteq Listed
  <2>1. << >> \in DOMAIN held /\ grp[<< >>] = d
    BY <1>1, <1>5 DEF Complete, Honest
  <2>2. ToSet(grp[<< >>]) \subseteq Listed
    BY <1>1, <1>2, <1>5, <2>1, AllListed DEF Routed
  <2> QED
    BY <2>1, <2>2
<1> QED
  BY <1>4, <1>5 DEF d

(* What is listed stays listed. *)
LEMMA ListedGrows == HonestInv /\ Next => Listed \subseteq Listed'
<1> SUFFICES ASSUME HonestInv, Next PROVE Listed \subseteq Listed'
  OBVIOUS
<1>1. PICK route, page, ok : route \notin DOMAIN held /\ Take(route, page, ok)
  BY DEF Next, FetchRoot, FetchChild
<1>2. \A r \in DOMAIN held : r \in DOMAIN held' /\ held'[r] = held[r]
  BY <1>1 DEF Take, With
<1> QED
  BY <1>2 DEF Listed

(* A client of an honest publisher learns entries of its directory and no   *)
(* other, forgets none, and knows all of them when no page is left to ask   *)
(* for, in whatever order it asked and whatever else it was sent.           *)
THEOREM FetchImplementsListing ==
    ASSUME PagesHaveRoom
    PROVE  Spec => ImplementsListing
<1> DEFINE entriesBar == IF dir = << >> THEN {} ELSE ToSet(dir[1])
           listedBar == IF dir = << >> THEN {} ELSE Listed
           doneBar == dir # << >> /\ Complete
<1>1. Init => Listing!Init
  <2>1. Init => DOMAIN held = {}
    BY DEF Init
  <2> QED
    BY <2>1 DEF Listing!Init, Listed, Complete
<1>2. HonestInv /\ WellListed' /\ [Next]_vars
          => [Listing!Learn]_<<entriesBar, listedBar, doneBar>>
  <2> SUFFICES ASSUME HonestInv, WellListed', [Next]_vars
               PROVE  [Listing!Learn]_<<entriesBar, listedBar, doneBar>>
    OBVIOUS
  <2>1. CASE UNCHANGED vars
    BY <2>1 DEF vars, Listed, Complete
  <2>2. CASE Next
    <3>1. dir' = dir
      BY <2>2 DEF Next, FetchRoot, FetchChild, Take
    <3>2. CASE dir = << >>
      BY <3>1, <3>2
    <3>3. CASE dir # << >>
      <4>1. ~Complete
        BY <2>2 DEF Next, FetchRoot, FetchChild, Complete
      <4>2. Listed \subseteq Listed'
        BY <2>2, ListedGrows
      <4>3. Listed' \subseteq ToSet(dir[1]) /\ (Complete' => Listed' = ToSet(dir[1]))
        BY <3>1, <3>3 DEF WellListed
      <4>4. Listed' \ Listed \in SUBSET (ToSet(dir[1]) \ Listed)
            /\ Listed' = Listed \cup (Listed' \ Listed)
        BY <4>2, <4>3
      <4> QED
        BY <3>1, <3>3, <4>1, <4>3, <4>4 DEF Listing!Learn
    <3> QED
      BY <3>2, <3>3
  <2> QED
    BY <2>1, <2>2
<1>3. Spec => []HonestInv
  BY HonestAlways
<1>4. HonestInv => WellListed
  BY ListedIsPublished
<1> QED
  BY <1>1, <1>2, <1>3, <1>4, PTL DEF Spec, ImplementsListing, Listing!Spec
=============================================================================
