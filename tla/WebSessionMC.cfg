\* Two tabs, whose requests overlap.
CONSTANTS
  Tabs = {t1, t2}
  Orgs = {home, other}
  Home = home
  Null = Null
  MaxPairs = 6
  MaxClicks = 3
  MaxEvents = 2
SPECIFICATION FairSpec
CHECK_DEADLOCK FALSE
INVARIANT Sound
PROPERTY ComesToRest
