SPECIFICATION FairSpec
CONSTANTS
    Tracee = {t1, t2}
    NoTracee = NoTracee
    MaxSig = 1
    MaxNotif = 1
INVARIANTS Exclusion KilledAtExit
PROPERTIES NotifAnswered LoopReturns
CHECK_DEADLOCK FALSE
