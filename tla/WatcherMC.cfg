\* Two rewrites of one file overlap, and the process dies once.
CONSTANTS
  Files = {f1}
  Slots = {s1, s2}
  Inodes = {i1, i2, i3, i4, i5, i6}
  Null = Null
  MaxEntries = 2
  MaxSeconds = 1
  MaxDeaths = 1
  MaxScrubs = 1
  MaxEvents = 1
SPECIFICATION WatchFairSpec
CHECK_DEADLOCK FALSE
INVARIANT Kept
PROPERTY Scrubbed
