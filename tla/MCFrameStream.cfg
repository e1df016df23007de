\* Two responses of up to three frames and any body of up to three of their
\* frames; responses with payloads at, and one beyond, each limit; a reader with
\* zstd and one without.
CONSTANTS
    Streams <- MCStreams
    Payloads <- MCPayloads
    Traffic <- MCTraffic
    Readers = {TRUE, FALSE}
    Meet <- MCMeet
    MaxFrames = 3
    MaxBody = 3
SPECIFICATION Spec
INVARIANTS
    TypeOK
    AcceptedIsWhole
    OnlyTheGapIsRefused
CHECK_DEADLOCK FALSE
