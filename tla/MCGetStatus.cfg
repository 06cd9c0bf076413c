SPECIFICATION JudgeSpec
CONSTANTS
  Null = Null
  IntMax = 7
  LongMod = 64
  Number <- MCNumber
  Requests_t <- MCRequests
INVARIANTS
  AcceptedIsServable
  StatusFollowsRules
  RangeAsAsked
CHECK_DEADLOCK FALSE
