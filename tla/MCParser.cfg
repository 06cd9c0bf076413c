SPECIFICATION Spec
CONSTANTS
  LenMod = 64
  Inputs <- MCInputs
INVARIANTS
  TypeOK
  ParsesTheGrammar
  ReadsPastTheEnd
  HeapHandled
  ChildrenAreCounted
PROPERTIES
  NeverReadAgain
CHECK_DEADLOCK FALSE
