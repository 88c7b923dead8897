\* Four overlapping requests of two users, and an expiry or a crash.
CONSTANTS
  Requests = {r1, r2, r3, r4}
  Ops = {"login", "refresh", "logout", "start", "poll", "authorize", "password"}
  Users = {u, v}
  Null = Null
  RefreshTtl = 1
  FlowTtl = 1
  MaxEvents = 1
SPECIFICATION Spec
SYMMETRY Symmetry
CHECK_DEADLOCK FALSE
INVARIANTS
  SessionsConsistent
  ReplayRefused
  ChangeEndsSessions
