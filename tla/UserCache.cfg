SPECIFICATION FairSpec
CONSTANTS
  Ids = {u1}
  Gets = {g1, g2}
  Patches = {p1, p2}
  MaxVersion = 2
  MaxMishaps = 1
  NoData = NoData
INVARIANTS FreshUnlessMixed
PROPERTIES OldRowsGo
CHECK_DEADLOCK FALSE
