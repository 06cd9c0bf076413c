SPECIFICATION Spec
CONSTANTS
  Null = Null
  Buffer = 2
  BigBuffer = 3
  MaxStream = 4
  IntMax = 15
  LongMod = 64
  DirTell = 9
  MaxFds = 2
  Sizes = {0, 1, 5}
  Ranges <- MCRanges
  MaxRequests = 2
  MaxChurn = 1
INVARIANT
  LengthIsBodyLength
CHECK_DEADLOCK FALSE
