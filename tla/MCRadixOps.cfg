\* One call of every kind on every map over six paths: no faults.
CONSTANTS
    x = x
    y = y
    None = None
    Name <- MCName
    PathMaxBytes = 4
    Binding = {x, y}
    Path <- OpsPath
    Opening <- OpsOpening
    MaxCalls = 1
    MaxFaults = 0
    MaxRoots = 2
SPECIFICATION Spec
INVARIANTS
    TypeOK
    RootIsContent
    WritesOnlyThePath
    NoOpWritesNothing
CHECK_DEADLOCK FALSE
