\* Ranged reads of files of up to six chunks on three pages, and maps of every
\* size with counts that are right or off by one; every range of four-bit u64s.
CONSTANTS
    ChunkSize = 2
    ChunksPerPage = 2
    Width = 4
    Files <- MCFiles
    Claims <- MCClaims
    Ranges <- MCRanges
    Altered <- MCAltered
SPECIFICATION Spec
INVARIANTS
    HonestIsTaken
    MapPartitions
    RangeExact
PROPERTIES
    ImplementsFileRead
CHECK_DEADLOCK FALSE
