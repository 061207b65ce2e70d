SPECIFICATION MCSpec
CONSTANTS
  Starts = {"s1", "s2"}
  MaxCrash = 1
  MaxOut = 2
  OutLimit = 1
  MaxSignals = 2
  Codes = {0, 7}
INVARIANTS OneServer RunSound
PROPERTIES Evicted RunEnds
CHECK_DEADLOCK FALSE
