\* Three overlapping requests on two aliases and one of an unknown
\* environment, and a crash.
CONSTANTS
  Requests = {r1, r2, r3}
  Aliases = {a, b, u}
  UnknownEnv = {u}
  Intervals = {d30}
  Null = Null
  MaxRestarts = 1
SPECIFICATION Spec
SYMMETRY Symmetry
CHECK_DEADLOCK FALSE
INVARIANTS
  TypeOK
  VersionChain
  AcknowledgedWriteKept
  NoStaleAnswer
  AuditMatchesTable
  BatchAllOrNothing
PROPERTIES
  ImplementsVersionedSecrets
