SPECIFICATION Spec
CONSTANTS
    Tracee = {t1, t2}
    NoTracee = NoTracee
    MaxSig = 2
    MaxNotif = 2
INVARIANT HandlerNeverStuck
CHECK_DEADLOCK FALSE
