\* Two invocations, two brokers, a rotated secret, one failure.
CONSTANTS
  Gone = Gone
  NoServer = NoServer
  p1 = p1
  p2 = p2
  s1 = s1
  s2 = s2
  v1 = v1
  v2 = v2
  Procs <- MCProcs
  Servers <- MCServers
  Aliases = {"x", "y"}
  Values <- MCValues
  Patterned = {v2}
  Wide = {v1}
  Specs <- MCSpecs
  Tokens = {1}
  BufferLimit = 3
  MaxChanges = 1
  MaxFaults = 1
  MaxStarts = 2
  MaxWrites = 2
SPECIFICATION Spec
CONSTRAINT PrintsAlone
SYMMETRY Interchangeable
CHECK_DEADLOCK FALSE
INVARIANTS
  AgentNeverTold
  BrokerConsistent
PROPERTY
  StartsWithItsValues
