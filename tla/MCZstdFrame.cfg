\* Frames of up to four bytes, a limit of three, two-byte sizes biased by two.
CONSTANTS
  Wires <- MCWires
  RawLens = {0, 1, 2, 3, 4}
  MaxRaw = 3
  MaxWindow = 8
  Bias = 2
SPECIFICATION FairSpec
INVARIANTS
  TypeOK
  AcceptedIsOneFrame
  FrameIsAccepted
PROPERTIES
  Terminates
CHECK_DEADLOCK FALSE
