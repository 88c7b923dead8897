\* Release 1 is installed, or nothing is; 2 is broken, 3 is not.
CONSTANTS
  Releases = {1, 2, 3}
  First = {1, NoRelease}
  Broken = {2}
  NoRelease = NoRelease
  KeepReleases = 2
  KeepBackups = 1
  MaxRuns = 3
  MaxWrites = 2
  MaxFaults = 2
SPECIFICATION UpdaterFairSpec
CHECK_DEADLOCK FALSE
INVARIANT
  Sound
PROPERTY
  ComesBack
