SPECIFICATION ShmSpec
CONSTANTS
  N = 2
  FromSigsys <- mcAlways
  MaxIntr = 0
  MaxDeath = 0
  Proc <- mcApart
  Born = {1, 2}
  Keys = {0}
  Creates <- mcCreat
  Sizes = {1}
  Detach = {}
  Exec = {}
  MaxAddr = 2
  MaxShm = 2
  MaxSize = 1
  MaxSerial = 2
  MaxFail = 0
  IdBase = 4
INVARIANT MapsItsSegment
CHECK_DEADLOCK FALSE
