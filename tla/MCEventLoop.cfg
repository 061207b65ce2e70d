SPECIFICATION MCSpec
CONSTANTS
    p1 = p1
    p2 = p2
    p3 = p3
    Pid <- MCPid
    Root = p1
    NoPid = NoPid
    Status = {0}
    MaxSignals = 1
    MaxQuit = 1
    KillOnExit = TRUE
    MAX_KILL_BATCH = 3
    Guests <- MCGuests
    Pipes = {"a", "b"}
    None = "none"
    Slots = 2
    Ends <- MCEnds
INVARIANTS GuestsReleased NoEscape RegistryTrue WritesReach
PROPERTIES StoppedResumes LoopEnds WritersFreed
