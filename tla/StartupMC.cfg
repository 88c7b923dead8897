SPECIFICATION FairSpec
CONSTANTS
  Keys = {k1, k2, k3, k4}
  Secrets = {s1, s2, s3}
  Projects = {p}
  Migrations = 2
  None = None
  Empty = Empty
  MaxCrashes = 3
  MaxLosses = 1
INVARIANTS
  ProjectsReadable
  TokensSurvive
PROPERTY
  ComesUp
