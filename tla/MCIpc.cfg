SPECIFICATION MCSpec
CONSTANTS
  N = 3
  FromSigsys <- MCSigsys
  MaxIntr = 1
  MaxDeath = 1
  Does <- MsgDoes
  Keys = {1}
  Creates <- MCFlags
  Types = {0, 1}
  Lengths = {0, 2}
  Requests <- MCRequests
  MaxSend = 2
  MaxQueue = 1
  MaxRmid = 1
  IdBase = 4
  MaxSize = 3
INVARIANTS Delivered WaitersAgree ReceiversServed ValuesRight PostersServed
CHECK_DEADLOCK FALSE
