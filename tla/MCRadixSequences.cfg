\* Sequences of calls from nothing, one of them hit by a store fault, with
\* roots forgotten and unreferenced rows collected between calls.
CONSTANTS
    x = x
    y = y
    None = None
    Name <- MCName
    PathMaxBytes = 4
    Binding = {x}
    Path <- SeqPath
    Opening <- EmptyOpening
    MaxCalls = 4
    MaxFaults = 1
    MaxRoots = 2
SPECIFICATION Spec
INVARIANTS
    NoDangling
    RootIsContent
    OneRootPerMap
    StoreErrorMeansFault
    CodecErrorMeansDamage
CHECK_DEADLOCK FALSE
