\* A walk and a reader over up to five rows in pages of two, a change by hand, a
\* restart.
CONSTANTS
  Events = {e1, e2}
  Walks = {w1}
  Readers = {p1}
  Keys = {k1, k2}
  Keyless = Keyless
  Null = Null
  PageSize = 2
  MaxRows = 5
  MaxEdits = 1
  MaxRestarts = 1
SPECIFICATION ReadingSpec
CONSTRAINT OneAtATime
SYMMETRY Symmetry
CHECK_DEADLOCK FALSE
INVARIANTS
  LogConsistent
  EveryEntryOnce
PROPERTIES
  NoFalseAlarm
  OkMeansIntact
