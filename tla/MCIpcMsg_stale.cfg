SPECIFICATION Spec
CONSTANTS
  N = 2
  FromSigsys <- mcNever
  MaxIntr = 0
  MaxDeath = 0
  Does <- mcAll
  Keys = {0}
  Creates <- mcCreat
  Types = {1}
  Lengths = {2}
  Requests <- mcAny
  MaxSend = 1
  MaxQueue = 1
  MaxRmid = 1
  IdBase = 4
  MaxSize = 3
INVARIANT RemovedIdRefused
CHECK_DEADLOCK FALSE
