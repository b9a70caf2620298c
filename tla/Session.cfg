SPECIFICATION FairSpec
CONSTANTS
  tab1 = tab1
  tab2 = tab2
  r1 = r1
  r2 = r2
  r3 = r3
  Tabs = {tab1, tab2}
  Requests = {r1, r2}
  TabOf <- MCTabOf
  NoToken = NoToken
  MaxLogins = 1
  MaxExpired = 2
  MaxMishaps = 1
INVARIANTS NobodyIsStranded EndedStaysEnded
PROPERTIES SignedInUntilLeft NothingHangs
CHECK_DEADLOCK FALSE
