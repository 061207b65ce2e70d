SPECIFICATION MCSpec
CONSTANTS
  N = 2
  FromSigsys <- MCSigsys
  MaxIntr = 1
  MaxDeath = 0
  Proc <- MCApart
  Born = {1, 2}
  Keys = {1}
  Creates <- MCCreates
  Sizes = {1}
  Detach = {1}
  Exec = {1}
  MaxAddr = 2
  MaxShm = 1
  MaxSize = 1
  MaxSerial = 2
  MaxFail = 0
  IdBase = 4
INVARIANTS ReturnsClean MountsSound
PROPERTIES MountsMove Implements CallsReturn ShmatReturns
