SPECIFICATION ClientsFairSpec
CONSTANTS
  p1 = p1
  p2 = p2
  k1 = k1
  k2 = k2
  k3 = k3
  k4 = k4
  k5 = k5
  None = None
  Procs <- MCProcs
  Keys <- MCKeys
  Invocations <- MCInvocations
  Choosable <- MCChoosable
  Interval = 1
  SlowDown = 2
  Slowest = 2
  Deadline = 3
  MaxChoices = 1
  MaxExpiries = 1
  MaxFaults = 1
CHECK_DEADLOCK FALSE
INVARIANTS
  TellsTheTruth
  StoredSessionLives
PROPERTY CommandsEnd
