\* Two overlapping requests in two organizations, one crash.
CONSTANTS
  Null = Null
  A = A
  B = B
  o = o
  a = a
  l = l
  d = d
  b = b
  p = p
  q = q
  t = t
  r1 = r1
  r2 = r2
  Requests <- MCRequests
  Calls <- MCCalls
  Orgs0 <- MCOrgs
  Users0 <- MCUsers
  Owned0 <- MCOwned
  Projects0 <- MCProjects
  Members0 <- MCMembers
  Tokens0 <- MCTokens
  Authors = {a}
  MaxCrashes = 1
SPECIFICATION Spec
SYMMETRY Interchangeable
CHECK_DEADLOCK FALSE
INVARIANTS
  TablesConsistent
  AuditAccountsForTables
PROPERTY
  OnlyByRight
