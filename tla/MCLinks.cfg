SPECIFICATION MCSpec
CONSTANTS
  p1 = p1
  p2 = p2
  p3 = p3
  P = {p1, p2, p3}
  Parent <- Siblings
  None = None
  AnyPid = AnyPid
  Scripts <- mcScripts
  MaxSignals = 1
  MaxBatch = 3
  N = 2
  FromSigsys <- MCSigsys
  MaxIntr = 0
  MaxDeath = 1
  Proc <- Apart
  Born = {1, 2}
  Keys = {1}
  Creates <- MCCreates
  Sizes = {0, 1}
  Detach <- MCDetach
  Exec = {1}
  MaxAddr = 2
  MaxShm = 1
  MaxSize = 1
  MaxSerial = 2
  MaxFail = 1
  IdBase = 4
INVARIANTS LinksSound WaitSound SegmentsSound
