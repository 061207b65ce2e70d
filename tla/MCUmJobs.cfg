SPECIFICATION Spec
CONSTANTS
  Clients <- MCClients
  Plans <- MCPlans
  MaxFaults = 1
INVARIANT OnceAndRight
PROPERTIES Answered SignalEnds
CHECK_DEADLOCK FALSE
