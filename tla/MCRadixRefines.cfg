\* RadixIndex implements the abstract map, faults included, and terminates.
CONSTANTS
    x = x
    y = y
    None = None
    Name <- MCName
    PathMaxBytes = 4
    Binding = {x, y}
    Path <- RefPath
    Opening <- RefOpening
    MaxCalls = 1
    MaxFaults = 1
    MaxRoots = 2
SPECIFICATION FairSpec
PROPERTIES
    CallsReturn
    ImplementsBindingIndex
CHECK_DEADLOCK FALSE
