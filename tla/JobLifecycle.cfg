SPECIFICATION FairSpec
CONSTANTS
  j1 = j1
  e1 = e1
  e2 = e2
  NoJob = NoJob
  NoExec = NoExec
  Jobs <- OneJob
  Execs <- TwoExecs
  MaxCancels = 2
  MaxRetries = 1
  MaxTimeouts = 1
  MaxRestarts = 1
INVARIANTS TypeOK AtMostOneExecution LiveProcessReserved NoLeakedReservation QueuedRowNotLost
PROPERTIES StopLeavesNothing TerminationCompletes StopCompletes
CHECK_DEADLOCK FALSE
