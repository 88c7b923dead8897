\* Three requests of two members and an admin on a gated alias and an open one,
\* and a crash.  A lead is treated as an admin is, and a user without a
\* membership as a reader.
CONSTANTS
  Requests = {r1, r2, r3}
  Ops = {"read", "test", "grant", "deny"}
  Roles = {"developer", "reader"}
  Members = {m1, m2}
  Admin = root
  Aliases = {prod, staging}
  Gated = {prod}
  Ttls = {1}
  Null = Null
  Screens = {s1}
  FirstPage = 1
  NextPage = 1
  MaxTime = 1
  MaxRestarts = 1
SPECIFICATION ReadingSpec
CONSTRAINT QuietScreens
SYMMETRY Symmetry
CHECK_DEADLOCK FALSE
INVARIANTS
  ExposedOnlyWithRight
  AccessRecorded
  QueueAsShown
  AuditTellsOfApprovals
