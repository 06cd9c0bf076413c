SPECIFICATION Spec
CONSTANTS
  Null = Null
  IntMax = 7
  LongMod = 32
  MaxFds = 1
  HeaderSize = 1
  MaxContent = 3
  StatusText = 1
  ParamSizes = {3}
  Declared = {2, 15}
  Bodies = {0, 2}
  Scripts <- MCScripts
  RecordSizes = {0, 1, 3}
  MaxRecords = 3
  Overread = 2
  MaxRequests = 2
INVARIANTS
  ReplyIsWhole
  CrashesExplained
PROPERTY
  EventuallyAnswered
CHECK_DEADLOCK FALSE
