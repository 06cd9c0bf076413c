SPECIFICATION Spec
CONSTANTS
  Null = Null
  Clients = {c1, c2}
  Messages_t <- MCMessages
  MaxTaken = 2
  Number <- MCNumber
  IntMax = 3
  LongMod = 16
  Buffer = 1
  BigBuffer = 2
  MaxStream = 2
  DirTell = 2
  MaxFds = 1
  Sizes = {0, 2}
  Ranges = {}
  MaxRequests = 1
  MaxChurn = 1
  HeaderSize = 1
  MaxContent = 2
  StatusText = 1
  ParamSizes = {0}
  Declared = {1}
  Bodies = {0, 1}
  Scripts <- MCScripts
  RecordSizes = {1}
  MaxRecords = 2
  Overread = 1
INVARIANT
  FilesStillServed
CHECK_DEADLOCK FALSE
