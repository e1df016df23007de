# A TLA+ model of mst2-codec

`mst2-codec` is the byte-level library of the MST/2 transfer protocol: directory
pages, response frames, chunk maps, serving descriptors, and the namespace
binding index. It has no threads, sockets or files of its own. What makes it hard
is that two programs on two machines must read each other's bytes alike, that
each rule is stated at least twice (in an encoder and a decoder, in a builder and
a verifier), that what arrives was chosen by a peer, and that the namespace index
edits an immutable tree through a byte store that may fail at any call. This
directory models all of the library's components; what a definition leaves out
is listed under "Not modelled".

## Inventory

| Component | Source (under `src/src/`) | State | Operations | Hard about it |
| --- | --- | --- | --- | --- |
| Namespace radix index | `namespace/radix/index.rs` | none of its own; rows in a caller's `NodeStore` | `update`, `get`, `longest_prefix` over `load`, `save`, `walk` | several inserts per update, any of which may fail; canonical shape after any history; copy-on-write |
| Radix nodes and keys | `namespace/radix.rs` | none | `encode_key`, `decode_key`, `RadixNode::{new, encode, decode, id}` | labels split names and UTF-8 anywhere; one row per node |
| Frame codec | `treeframe.rs` | none | `parse_frame`, the decoders, `encode` and `encode_zstd` of five payloads | encoder and reader state their limits separately |
| Frame stream | `treeframe.rs` | the loop of `parse_stream` | `parse_stream` | lost, repeated, reordered, mixed and cut frames |
| ERROR JSON | `treeframe.rs` | scanner position | `parse_error_json`, `JsonScan`, `json_string` | closed schema, fields in any order, escapes |
| Directory pages | `metapage.rs` | none | `Page::{build, encode, decode, pages_along_route}`, `verify_received_child` | canonical partition, verified one edge at a time |
| Chunk map | `chunkmap.rs` | none | `ChunkMap::{new, decode, chunk_len}`, `expected_count`, `range_chunks` | boundaries, u64 overflow |
| Chunk page tree | `chunkmap.rs` | the loop of `verify_leaf` | `merkle_root`, `leaf_proof`, `expected_proof_shape`, `verify_leaf` | three separately written loops must cut one tree |
| zstd frames | `zstd1.rs` | libzstd's context, the loop's counters | `compress`, `decompress_strict` | loop termination, exact length, one frame |
| Serving descriptor | `descriptor.rs` | none | `encode`, `decode`, `validate_scope` | path rules written apart from the namespace's |
| Namespace identities | `namespace.rs` | none | three record codecs, path validation | identity must cover every field; composed paths |
| Helpers | `lib.rs` | none | `validate_name`, `sha256`, integer readers | - |

How they meet: a server turns directory pages, objects and chunks into frames and
a client parses the body back (`treeframe` calls `metapage::page_id`, `zstd1` and
`sha256`). A client that holds a descriptor fetches the directory's pages and
verifies each against its parent. A chunk map's pages are checked by `verify_leaf`
before the chunks of a ranged read are trusted. The radix index calls its
`NodeStore` and is called by code outside this repository that keeps roots,
transactions and retention; its keys are the paths of namespace bindings.

What makes each correct:

- *index*: a root stands for exactly one map and a map has exactly one root, an
  interrupted update damages nothing, answers are the map's or an error;
- *stream*: a body is accepted if and only if it is one whole response;
- *ERROR JSON*: what is written is read back; what is accepted has the three
  fields once each;
- *pages*: every legal directory can be built, the server and the client cut it
  alike, and a chain of verified edges lets no name be in two places;
- *chunked files*: chunks and pages partition the file, a range names exactly the
  chunks it needs, a page is accepted at its own index only, a read returns the
  bytes of the range;
- *zstd*: decompression ends and returns exactly one whole frame of the stated
  length;
- *records*: one encoding per value, and rules written apart from each other
  agree.

`PROJECT.json` lists the hazards at their lines and the properties aimed at them.

## Modules

### The namespace index

- `RadixKey` - paths and keys as byte strings: `ValidPath`, `EncodeKey`,
  `KeyPath`/`DecodesToPath` for `decode_key`. What `validate_name` accepts is
  the constant `Name`. That includes UTF-8: a cut through a two-byte character
  is a string that is not in `Name`.
- `RadixNode` - nodes, the canonical shape of `RadixNode::new`, `set_child`,
  positions, and identities. SHA-256 is taken to be collision free and the
  encoding injective, so a digest is a wrapped copy of its node. The second half
  of that assumption is what `RadixRow` and the run `records` check
  (`CanonicalRecord`, `NodeHasOneRow`).
- `RadixIndex` - the state machine. Local variables of `update` and `walk`
  become variables (`cursor` is `id`, `edge`, `offset`; `ancestors`; `found`;
  `replacement`), `save`'s arguments are in `job`, and `parent` is the node that
  waits for a child to be saved. A call is cut at its store calls:

  | `pc` | next step in the code | actions |
  | --- | --- | --- |
  | `load` | `load` at the head of either loop | `WalkOffLabel`, `WalkEnds`, `WalkNoChild`, `WalkDown`; `Unchanged`, `SplitLabel`, `Rebind`, `Descend`, `AddLeaf`; `LoadFails` |
  | `collapse` | `load` of the only child, inside `save` | `Collapse` |
  | `insert` | `NodeStore::insert`, inside `save` | `InsertRow`, `InsertConflicts` |
  | `rise` | the `while let` over `ancestors` | `Rise`, `Finish` |
  | `return` | the result is handed over | `Exit` |

  The store is the external part: `StoreUnavailable` (a call answered with an
  error, an insert perhaps done all the same), `Lose`, `Damage`; so is the
  caller: `Call`, `Forget` a root, `Collect` an unreferenced row between calls.
- `BindingIndex` - the abstract promise: maps from paths to bindings, requests and
  replies, no tree. A path is the string the caller passes.
- `RadixMaps` - what a trie means, apart from the editing code: the places of a root
  (a row and the bytes that lead to it) and the map of what is bound at them, `MapOf`.
- `RadixIndexProps` - the properties that need those, and the refinement mapping;
  `NoDangling` and `StoreErrorMeansFault`, which do not, are in `RadixIndex`.
- `RadixTries` - which trie a map must have, built from the map alone by a recursive
  definition (`CanonicalRoot`), and the property that rests on it, `RootIsContent`.
- `RadixIndexProofs` - the TLAPS proofs. `MCRadixIndex` - TLC instances.

### Responses

- `TreeFrame` - payloads as sequences of items (identity, digest, length), the
  checks of the encoders (`EncodeOk`) and of `parse_frame` with its decoders
  (`ParseOk`, `DecodeOk`), written separately because the code writes them
  separately.
- `FrameStream` - a server that writes responses with those encoders (which
  payloads of which response, compressed or not, is the constant `Traffic`), a
  network that hands over any of the frames in any order, damaged or cut, and
  `parse_stream` one turn of its loop at a time. The encoders check less than the
  decoders; `LeftToCaller` says what they leave to their callers.
- `ErrorJson` - the body of an ERROR frame as tokens with or without white space,
  strings as pieces of text with the way each is spelled. The variables are the
  scanner's position (`at`, `key`) and the fields read so far; a body's next
  token is chosen when the scanner reaches it: it is taken (`Take`) or ends the
  parse (`Refuse`), and `EndOfBody` makes the checks of `parse_error_json` that
  come after the last token.
- `ZstdFrame` - `decompress_strict`: `Start` is the look at the frame header
  (`validate_frame_header`), `Turn` and `CallFails` are one call of
  `ZSTD_decompressStream` with the checks that follow it. The decoder is external
  and taken as what it promises: it may stop anywhere as long as it got further,
  and must stop when the frame is over, the input is used up or the output is full.
- `ObjectTable` - the table and data area of an OBJECT payload, cell by cell.
- `FrameStreamProofs`, `ZstdFrameProofs` - the TLAPS proofs. `MCFrameStream`,
  `MCErrorJson`, `MCZstdFrame` - TLC instances.

### Directory pages

- `MetaPage` - entries and pages as the encoder checks them (`EncodeOk`) and as the
  decoder does (`DecodeOk`, the counts as u64s of `Width` bits), `Build` as a
  recursive function on sequences of entries, `PagesAlongRoute`, which
  repartitions on its own as the code does, and `InPartition` with the counts of
  `verify_received_child`.
- `PageFetch` - a client that knows a root's identity and fetches pages in any
  order (`FetchRoot`, `FetchChild`); what comes back is the right page or another.
  The publisher either built a directory or committed to a tree put together by
  hand, of which the client can only see one edge at a time.
- `DirectoryListing` - the abstract promise: the client learns entries of the
  directory, and has learnt them all when nothing is left to ask for.
- `PageFetchProofs` - the TLAPS proofs. `MCPageFetch` - the TLC instance.

### Chunked files

- `ChunkLayout` - the arithmetic of maps, chunks, leaf pages and ranges, over u64
  values of `Width` bits.
- `MerkleTree` - `merkle_root`, `leaf_proof`, `expected_proof_shape` as recursive
  functions of the number of pages (a row of `Tree` holds the hashes of all runs of
  so many pages), each cutting the tree on its own as in the code; `verify_leaf` as
  a predicate, with its loop as the function `Levels`.
- `ChunkTree` - `verify_leaf`'s loop as a state machine whose proof steps come from
  outside.
- `RangedRead` - a client that reads a map, the leaf pages and the chunks its range
  needs, in any order, from a peer that may answer with others, altered or
  miscounted; another publisher commits to a map whose counts are off by one.
- `FileRead` - the abstract promise: at most one answer, the bytes of the range.
- `MerkleProofs` (the tree, without a state machine), `ChunkTreeProofs`,
  `RangedReadProofs` - the TLAPS proofs. `MCChunkTree`, `MCRangedRead` - TLC instances.

### Records

- `Manifest` - `SourceSnapshot`, `NamespaceBinding`, `NamespaceView` and
  `ServingDescriptor`: what their constructors accept, their encoders and their
  decoders. An encoding is a sequence of cells: a byte of a path is a cell, and so
  is whatever has a fixed width and no inner structure (a domain, a length, a
  UUID, a digest).
- `RadixRow` - `RadixNode::{new, encode, decode}` in the same way, with the children
  as a list that need not be in order.
- `RecordExchange` - a record of any kind is put together, encoded, damaged and read
  back, perhaps as another kind. It also exercises `ObjectTable`.
- `Layout` - how many bytes the encodings take, against the limits no encoder looks
  at.
- `RecordProofs` - the TLAPS proofs. `MCRecordExchange` - the TLC instance.

A few definitions are marked "mutant": they state a plausible slip in the
definition below them and are used by nothing. Substituting one for its original
must make the property named with it in `PROJECT.json` fail, which shows that
the property can see such a slip at all.

## Runs

A few seconds to two minutes each on two workers.

| Run | Checks | Instance and why it is enough |
| --- | --- | --- |
| `radix_ops` | `TypeOK`, `RootIsContent`, `WritesOnlyThePath`, `NoOpWritesNothing` | every map over six paths with two bindings (729 stores), every call on it, no faults. The paths hold the root, siblings whose names extend each other, a nested path, and two names that part inside a UTF-8 character; since every map is a starting point, one call covers any history that ends in a canonical root |
| `radix_sequences` | `NoDangling`, `RootIsContent`, `OneRootPerMap`, `StoreErrorMeansFault`, `CodecErrorMeansDamage` | four calls from the empty index, one fault anywhere, roots forgotten, rows collected: histories with orphans of failed updates in the store |
| `radix_refines` | `CallsReturn`, `ImplementsBindingIndex` | every map over three nested paths, one call, one fault, a path the index must refuse |
| `frame_stream` | `TypeOK`, `AcceptedIsWhole`, `OnlyTheGapIsRefused` | two responses of up to three frames and any body of up to three of their frames, damaged, cut, repeated or mixed; a reader with zstd and one without. Responses of payloads at a limit or one beyond it: a page of 16384 and 16385 bytes, 64 and 65 pages, a META payload of 1 MiB and a byte more, an object of 256 KiB and a byte more, 128 and 129 objects, an OBJECT payload of 1 MiB and a byte more, a chunk and a byte more, an ERROR body of 4096 and 4097 bytes; and of payloads that are empty, misnamed, or name an item twice, or on stream 0. The first page, object and chunk of these come compressed as well |
| `frame_twice` | `WholeIsAccepted`, violated | see Findings |
| `pages` | `LegalDirectoriesBuild`, `HeldIsServed`, `HonestNeverRefused`, `OnePlace`, `CountsAddUp`, `PagesRoundTrip`, `ImplementsListing` | every directory over seven names of up to three bytes, each a file, a directory or absent, with leaves of at most three entries and 152 bytes: names that begin others (terminal entries), prefixes that jump, characters that share a byte, leaves too long by count or by size. Trees put together from parts that fit and parts that do not: names out of order, repeated, invalid or misplaced, counts that are off, zero or sum to more than a u64. Some of those trees verify to the last page, so that `OnePlace` and `CountsAddUp` are asked of complete trees that `build` did not make |
| `error_body` | `WrittenIsRead`, `ClosedSchema` | every body of up to 14 tokens, where the three fields take 13; bodies of four fields (17 tokens) over the keys; one token with white space |
| `error_escapes` | `EscapesAreJson`, violated | see Findings |
| `records` | `CanonicalRecord`, `WrittenIsRead`, `NodeHasOneRow`, `TableIsExact`, `ComposedIsPath`, `ScopeIsPath` | every string of up to six of the bytes `/`, `a`, `.`, NUL as a scope and a source's path, with names of two bytes, paths of five and scopes of two components, so that each limit is reached and passed; every node over three labels and edges in any order; every payload of up to three of six objects; a few records of each kind with any two cells overwritten, dropped, put in or cut off, read as any kind |
| `zstd_frame` | `TypeOK`, `AcceptedIsOneFrame`, `FrameIsAccepted`, `Terminates` | every payload of up to four parts and bytes behind every header, stated lengths below, at and beyond the limit of three; a part may make nothing (a last empty block, a checksum) |
| `ranged_read` | `HonestIsTaken`, `MapPartitions`, `RangeExact`, `ImplementsFileRead` | files of one to eleven bytes, chunks of two, pages of two chunks: whole and partial last chunks and pages, three pages; every offset and length of four bits, many of which overflow; maps of every size with counts right or off by one |
| `chunk_tree` | `OnlyThePage`, `HonestAccepted` | trees of one to five pages and trees with repeated pages, every index (and one past the end), every proof made of the tree's own hashes and a foreign page; five pages give proofs of three steps on one side and one on the other |

Deadlock checking is off where the system rightly stops: a library is idle
once the bounded number of calls, or the one body, record, page tree or read, has
been dealt with.

Bounds of the state machines: `MaxCalls`, `MaxFaults`, `MaxRoots` (calls, faults
and roots held at once of a behaviour of the index), `MaxFrames`, `MaxBody`, `Meet`
(responses whose frames may be in one body), `MaxTokens`, `MaxLong`, `MaxSpaces`
(tokens of an ERROR body, of one over the keys alone, and tokens of it behind white
space), `MaxDamages`, `Fragile` (damages of a record, and the records damaged), and
`Width`, the bits of an integer whose overflow matters. Limits of the code that are
constants here and small in the runs: `PathMaxBytes`, `NameMaxBytes`,
`MaxComponents`, `ChildMaxCount`, `LeafMaxEntries`, `PageMaxBytes`, `ChunkSize`,
`ChunksPerPage`, `ObjectCountMax`, `ObjectMaxLen`, `ObjectMaxRaw`, `ManifestMaxCells`,
`MaxRaw`, `MaxWindow`, `Bias`. The limits of `TreeFrame` are the code's own.

### Fairness

Two specifications assume some. `FairSpec` of `RadixIndex` has weak fairness of
`Running`, the steps of a call in progress: the functions are sequential and make
no wait of their own, and a store call returns, with an answer or an error.
`FairSpec` of `ZstdFrame` has weak fairness of `Next`: the loop is sequential and a
call of the decoder returns. Nothing is assumed of callers, peers or faults, nor
that a call of the decoder gets anywhere: it is the loop's own checks that end it.
`BindingIndex`, `DirectoryListing` and `FileRead` state no fairness; that calls
return is checked directly by `CallsReturn`.

## Proofs

Each of these holds for every value of the constants that meets the named
assumptions, and for behaviours of any length.

`RadixIndexProofs`, for every set of names, paths and bindings, every store an
index may be opened over and any number of calls and faults:

- `TypeCorrect == Spec => []TypeOK`
- `NeverDangling == Spec => []NoDangling`
- `NoFaultNoStoreError == Spec => []StoreErrorMeansFault`
- `IndexImplementsMap == Spec => ImplementsBindingIndex`
- `OneMapOneRoot == Spec => []OneRootPerMap`
- `OnlyThePathIsWritten == Spec => []WritesOnlyThePath`
- `NoOpIsFree == Spec => []NoOpWritesNothing`
- `DamageElsewhereIsHarmless == Spec => []CodecErrorMeansDamage`

The first three need nothing else. The other five are about what tries mean and
assume what every index makes true of the stores it leaves behind
(`MadeAssumption`: the rows found at opening are canonical, hang from the first
bytes of their labels, and make sense where a held root leads to them) and
`NoneIsApart`, which says of the model's `None` what Rust's types say of `Option`: it
is not an identity, nor what `longest_prefix` finds, nor a request or a reply.

`NoDangling` is not inductive: an insert keeps it only if the node being inserted
refers to stored rows, which depends on everything that was loaded, edited and
carried from one store call to the next. The invariant
`IInv == TypeOK /\ NoDangling /\ Work` adds that: the references of `job.node` and
`parent.node` are stored (`WorkClosed`), offsets stay inside the key
(`WithinKey`), pieces of labels that become edges are not empty
(`PiecesHaveBytes`), results are held where they are claimed (`ResultHeld`), and an
idle index has no frame (`NoFrame`). There is one lemma per action; lemmas on
labels, `SetChild` and `Save` carry most of them. `Collect` is the action that
gives the claim its edge: rows disappear, but none that another row names.

`StoreErrorMeansFault` needs the same invariant and two more: a fault is counted
once and for good (`FaultsAreCounted`), and without one a call only asks for rows
that are there and readable (`IntactStep`), so that every error of the store that
is blamed was injected (`StoreBlamedStep`).

The other five rest on a second invariant, `SInv`. `MapOf` looks at all places of a
root at once, which no step can be reasoned about; so a key and a binding are
`Bound` under a place if some path of children leads from there to them, and the
lemmas `BoundUnfold`, `BoundHere` and `BoundDown` are its equation, by induction on the
length of paths. `MapMeans` ties it to `MapOf`: what a sound trie binds are keys of
valid paths (`ValidKey` and `DecodesGood`: `encode_key` and `decode_key` undo each
other), and its map holds exactly these. Each edit of the code is then a lemma on
nodes alone: `BindEdits`, `SetChildEdits`, `LeafEdits`, `SplitEdits`, `MergeEdits`.
`SInv` says

- of the store (`World`): rows are canonical and linked, held roots are sound;
- of the descent (`AtLoad`, `OnWay`, `Chain`): the loop stands at a place of the old
  trie on the way of the key, the ancestors lead there, and what `walk` has found is
  the longest binding passed (`FoundIn`);
- of a save: the node stands for the old bindings of the hole with the key set or
  cleared (`Stands`), or waits for a child that will (`Waits`), the hole being the
  place the innermost ancestor leaves open (`Hole`); whatever was inserted is
  where the key leads; something does change (`Differs`); a pass-through node may
  merge with its child only if that row is one to blame (`MayMerge`);
- of what is returned (`Answered`, `CodecBlamed`).

There is one lemma per action again (`TailRebindSound` to `RiseSound`); `NextSound` puts
them together. `OnlyThePathIsWritten`, `NoOpIsFree` and `DamageElsewhereIsHarmless`
are read off `Answered` and `CodecBlamed`. For `IndexImplementsMap` every step is shown to
be a step of `BindingIndex` or a stutter (`NextMaps`); that the longest bound key on the
way is the longest path at or above rests on `AncestorKeys`: a key begins another
exactly if its path ends where a component of the other does.

`OneMapOneRoot` needs one fact more than the invariant. Two places after the same
bytes that bind the same keys hold the same row (`TwinsAreOne`): a canonical node
that is not blank binds something (`LadenBinds`), has either a binding of its own or
two children, so that its label is all that its keys share (`NoLongerShared`), and
its children are fixed by the keys that go on with their edges. The induction is on
the bytes a path may still have.

`FrameStreamProofs`, for any number of responses, frames and payloads:

- `FrameTypes == Spec => []TypeOK`
- `OnlyWholeResponses == Spec => []AcceptedIsWhole`. The invariant says how responses
  were numbered and that a terminator is the last frame of one (`Numbered`), that an
  undamaged frame of a body is one that was sent (`Carried`), and that what the loop
  consumed is the beginning of one response, in order (`Consumed`); the terminator
  then fixes the end.
- `GapIsExact == Spec => []OnlyTheGapIsRefused`: a response that arrives as it was
  written is refused if, and only if, one of its frames breaks `LeftToCaller`, that
  is, has stream 0, is compressed for a reader without zstd, holds a page over 16 KiB
  or names a page or an object twice. Nothing is assumed of the server. For every
  payload, then, all other limits of the encoders agree with those of the decoders.
  The invariant is that `parse_frame` takes a sent frame exactly if it keeps to
  `LeftToCaller` (`Fair`), and that the loop took each frame it has passed (`Exact`).
- `WholeResponsesPass == Spec => []WholeIsAccepted`, if every frame the server may
  write keeps to `LeftToCaller` for every build of the reader there is. `frame_twice`
  shows that the claim needs this.

That an END payload has one item of 48 bytes is assumed of the payloads
(`PayloadsAssumption`): the fields of `EndPayload` are of fixed width.

`PageFetchProofs`: `NoNameTwice == Spec => []OnePlace`, with nothing assumed of the
pages that come back or of the tree that was committed to. The client looks at one
edge at a time, and the claim is about pages that may be far apart, so the
invariant carries what each route leads to: there is a function `due` from the
routes of held pages to byte strings such that every page decodes (`Readable`), a
held page's parents are held (`FromTheRoot`), all names of a page begin with what is
due there (`WhereDue`), what is due below a page begins with its prefix and the
label that was followed (`Below`), and what is due on two routes that part does
part (`Beside`). Below a page names are longer than its prefix, which is all the
names a branch has; beside it they differ.

- `NamesAreCounted == Spec => []CountsAddUp`: the names of a complete tree are as many
  as its root says. The invariant adds that every held page passed the check against
  its own parent and that finitely many are held (`Linked`); the rest is counting. Below a branch the routes split into
  those below each child (`BranchChildren`, `UnderBranch`), whose names are disjoint
  (`CountApart`, by `Beside`), and the counts are summed child by child
  (`BranchCounted`); `AllCounted` is the induction, on the number of pages
  held below the page, which is less for every child of a branch.
- `PagesSurvive == Spec => []PagesRoundTrip`, for pages of any size. It rests on
  `PageValue`, what the fields of a `Page` can hold, and on the limit of leaf entries
  being within that of the total (`LimitAssumption`), as in the code.

The other four are about what an honest publisher builds and hold for directories of
any size and any names:

- `LegalBuild == Spec => []LegalDirectoriesBuild`
- `SentIsBuilt == Spec => []HeldIsServed`
- `NeverRefused == Spec => []HonestNeverRefused`
- `FetchImplementsListing == Spec => ImplementsListing`

They have one hypothesis, `PagesHaveRoom`: a leaf may have an entry, and a branch with the
longest prefix, the longest terminal entry and 256 children fits into a page. That is
11072 bytes where the code has 16384; the run `pages` has smaller pages on purpose,
to meet leaves that are too long, with names too few and short to need the room.

`Build` is unfolded into an equation first (`BuildUnfold`), which needs that the groups
are shorter than what is grouped (`BodyLooksBelow`). Then, for a directory that is not
one leaf: the longest common prefix is shared and no longer string is (`LcpShared`,
`LcpLongest`), so entries that go down have a byte after it; as they are in order,
those with the same byte are consecutive, and the groups are rising in their labels and
are what `pages_along_route` selects for these (`GroupsCut`, by `MatchStep` for one entry);
no entry is lost (`GroupsCount`), and there are two parts (`TwoParts`). Hence the branch is
one `encode` lets out (`BranchEncodes`) and, by induction on the number of entries,
every legal directory has its tree (`AllWork`).

Along an honest route (`IsWay`) the server's walk stays on that tree (`WayRow`) and ends
where a label is not on the page (`WayGoesOn`). The invariant `HonestInv` adds to those of
the other theorems that the page held for a route is the one built over the entries
that go down it (`Honest`): a child that passes the check has the identity its parent
names (`ChildHonest`), and the page of the server does pass (`HonestChild`). Each entry is
on a page or goes down (`EntriesBelow`), so when no page is left to ask for all are
listed (`AllListed`, by induction on the number of entries below a route).

`ZstdFrameProofs`: `ZstdTypes`, `OnlyOneFrame == Spec => []AcceptedIsOneFrame` and
`OneFrameIsAccepted == Spec => []FrameIsAccepted`, for payloads of any length and any
way the decoder divides its work. The invariant adds that nothing is taken in before
the loop (`Fresh`), and that while it runs the header has passed, no part taken in
is damaged and only the last of them may end the frame (`Underway`). For the
converse, that a frame is never refused, `FormatAssumption` says what the format
promises of a single-segment frame and `LimitsAssumption` that the limit of raw
bytes is not above that of the window, as in the code.

`MerkleProofs`, for any number of pages, by induction on it:

- `OwnProofVerifies`: `verify_leaf` accepts the proof `leaf_proof` makes of a page, at
  the page's index. The rows of `Tree`, `Proofs` and `Shapes` are unfolded from their
  recursive definitions (`TreeAgrees` and the lemmas around it); all cut `m` pages
  after the largest power of two below `m`, so a proof has the shape and leads,
  step by step, to the hash of a larger run of pages.
- `OnlyOwnProofVerifies`: what `verify_leaf` accepts at an index is the hash of that
  page and that proof. The induction goes from the root down: equal hashes of
  branches have equal halves and counts.

`ChunkTreeProofs` carries both over to the loop: `OnlyThePagePasses == Spec =>
[]OnlyThePage` and `HonestProofPasses == Spec => []HonestAccepted`; the invariant
says that the loop's hash and count after some steps are those of `Levels`.

`RangedReadProofs`, for every file, range, chunk size, page size and width:

- `MapsPartition == Spec => []MapPartitions` and `RangesAreExact == Spec =>
  []RangeExact`, from the arithmetic of `ChunkLayout` and from the invariant `Known`:
  a map that was taken is the published one, well formed and inside u64.
- `HonestServerIsTaken == Spec => []HonestIsTaken`, by `OwnProofVerifies` and the
  lemmas on how a publisher cuts a file (`GroupsCut`, `ChunksCut`, `LeavesCut`).
- `ReadsTheRange == Spec => ImplementsFileRead`: every step is a step of `FileRead` or
  a stutter. The invariant `Verified` says that a page held is the publisher's
  page at that index (by `OnlyOwnProofVerifies`) and a chunk held is the file's
  chunk; then the chunks put together and cut (`ChunksTogether`, `BytesInRange`)
  are the bytes of the range.

`RecordProofs`, for records and bytes of any length, any number of damages and any
kind a record is read as. The invariant is `OnItsWay`: the bytes are cells, what was
refused did not pass its constructor, and what was read is what the decoder makes
of the bytes as they are. What each decoder accepts is then a matter of the codecs:

- `OneByteString == Spec => []CanonicalRecord`, by one lemma per kind (`SourceBack`,
  `BindingBack`, `ViewBack`, `DescriptorBack`, `RowBack`, `ObjectsBack`). `Scan` is
  unfolded into a table of positions (`ScanRows`, `ScanCuts`); the pieces between them are the
  fields with their lengths, and put together they are the bytes (`Consecutive`,
  `Flattened`), as nothing is left behind the last.
- `NothingIsLost == Spec => []WrittenIsRead`: `SpeltIsRead` shows that `Scan` finds each
  field of what was joined field by field (`StandsAt`), and `FlattenLaid` where the
  cells of a list of children, a table or its objects stand; so each decoder
  gives back what was encoded (`SourceRead` to `ObjectsRead`), no manifest is refused
  for its length (`ManifestsOpen`), and objects that repeat are what is refused. That no other
  decoder takes the bytes follows from the first cell (`StartsApart`).
- `OffsetsAreExact == Spec => []TableIsExact`: an object table's offsets are the sums of
  the lengths before them (`OffsetTable`), so the objects are consecutive pieces
  that end with the data.
- `OneRowPerNode == Spec => []NodeHasOneRow`: an ascending list of edges is determined
  by the function it stands for (`ListEdges`, `OneList`).
- `BindingsCompose == Spec => []ComposedIsPath`: the parts of two texts with a slash
  between them are parts of one or the other (`PartsOfTwo`), so only the length of
  the composed path is in question.
- `ScopesArePaths == Spec => []ScopeIsPath`: `SameScopes` shows that `validate_scope`,
  which looks for NUL and a last slash before it looks at parts, accepts the texts
  `validate_absolute_path` accepts.
- Under `PathMaxBytes <= 4096`, the code's value: `ManifestFits` (what the constructors of
  `namespace.rs` accept encodes below `MANIFEST_MAX_BYTES`), `ScopeLengthFits` (the cast
  of a scope's length to u16 loses nothing) and `NodeFits` (no canonical node is longer
  than `NODE_MAX_BYTES`). These sizes are beyond TLC.

The assumptions on constants are named in the modules that declare them: what a
name and a path are (`NameAssumption`, `PathMaxAssumption`, `PathAssumption`,
`NoneAssumption`), that rows found at opening are rows and what they refer to has,
or had, a row (`OpeningAssumption`), what payloads are (`PayloadsAssumption`), that a
file of bytes is not empty and its length a u64 (`FilesAssumption`; an empty file has
no map), that a made-up map is of no file (`ClaimsAssumption`), that offset and length
of a range are u64s (`RangesAssumption`), that the fields of records are texts and
cells and cells are numbers (`RecordsAssumption`, `CellAssumption`, `ShaAssumption`), that
`Name` holds those parts of the scopes that `validate_name` accepts
(`ScopesAssumption`), that no domain is a count of objects and a manifest has room for
three paths (`ManifestAssumption`; 128 objects and 64 KiB in the code), that a published directory is entries `build`
accepts, no more than a count can hold (`DirectoriesAssumption`), the types of streams,
traffic and wires, and that bounds and limits are naturals.

Induction over data is done in set form: the least element of the set of
counterexamples (`LeastElement`, `StrongInduction` in `MerkleProofs`), since the
library's induction theorems with an operator as parameter cannot be instantiated.

Model-checked only: `RootIsContent`, which compares with a recursive definition (that
a root depends on the map alone is `OneMapOneRoot`); the ERROR scanner, whose two
properties are about a small grammar that the runs enumerate. `CallsReturn` and
`Terminates` are liveness, which is out of the prover's reach.

## Findings

`frame_twice`: the README of the library (lines 20-21) says that what the server
wrote and what the client accepts are the same code. `MetaPayload::encode` accepts
a page of 16385 bytes, and `decode_meta` refuses any over 16384; it accepts a payload
that names one page twice, and `decode_meta` refuses it (and likewise objects). The
counterexample is a response of one META frame with such a page and END that arrives
unchanged and is rejected. The encoders also write stream 0, which `parse_frame`
refuses. Apart from zstd, there is no other case: this is `OnlyTheGapIsRefused`,
checked at every limit and proved for all payloads.

`error_escapes`: `JsonScan` is commented as a strict JSON scanner. It hands the four
bytes after `\u` to `u32::from_str_radix`, which takes a leading plus sign too, so
that `\u+041` is read as the letter A.

Two observations no run states as a violation. The library's README says that the
zstd flag is "recognized and rejected" (lines 36-38) and that zstd frames are "not
implemented, by design" (line 137). With the `zstd` feature `parse_frame`
decompresses such a frame (`treeframe.rs:157-162`), and the data payloads have an
`encode_zstd`; only a build without the feature does what the README says.
`OnlyTheGapIsRefused` states what both builds do. And the README promises
`encode(decode(x)) == x`. ERROR bodies are accepted with their fields in any order,
with white space and with escapes the encoder does not write, so it does not hold
there; it holds of pages (`PagesRoundTrip`) and of records (`CanonicalRecord`).

## Not modelled

- Byte layouts: magic numbers, endianness, reserved fields and the integer readers
  and writers of `lib.rs`. A frame whose layout is off is the damage `header`; in
  records and object tables a field of fixed width is one cell, and damage is of
  whole cells.
- The table of META payloads cell by cell (the checks on its items are in
  `TreeFrame`), and the layouts of chunk maps and leaves (their fields are).
- libzstd and SHA-256, taken as what they promise; `compress`, which is a call of
  libzstd.
- Whether a tree whose every edge verifies is the one `build` makes of its entries.
  It need not be, and no code claims it; what follows from the edges is
  `OnePlace` and `CountsAddUp`.
- The clients' and servers' own loops, which are not in this repository: `PageFetch`
  and `RangedRead` use the library's functions for what they are there for.
- Fixtures, examples and CI, which were read as statements about the code.

## Plan

What is left, in this order:

1. *A client session* that composes `FrameStream` with `PageFetch` and `RangedRead`,
   whose answers then arrive in responses; META payloads cell by cell in
   `RecordExchange`.
2. *The ERROR scanner proved*: that what `json_string` writes is read back for bodies of
   any length.
