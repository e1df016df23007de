\* A page of 16385 bytes, or one page named twice: encoded, but refused by the
\* reader.
CONSTANTS
    Streams = {1, 2}
    Payloads <- GapPayloads
    Traffic <- GapTraffic
    Readers = {FALSE}
    Meet <- GapMeet
    MaxFrames = 2
    MaxBody = 2
SPECIFICATION Spec
INVARIANTS
    WholeIsAccepted
CHECK_DEADLOCK FALSE
