SPECIFICATION Spec
CONSTANTS
  j1 = j1
  e1 = e1
  e2 = e2
  NoJob = NoJob
  NoExec = NoExec
  Jobs <- OneJob
  Execs <- OneExec
  MaxCancels = 1
  MaxRetries = 0
  MaxTimeouts = 1
  MaxRestarts = 0
PROPERTY TerminalStatesAreFinal
CHECK_DEADLOCK FALSE
