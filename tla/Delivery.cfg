SPECIFICATION FairSpec
CONSTANTS
  reserved = reserved
  released = released
  m1 = m1
  m2 = m2
  p1 = p1
  p2 = p2
  NoMember = NoMember
  Events = {reserved, released}
  Processes = {p1, p2}
  Members = {m1, m2}
  BatchSize = 2
  Change <- MCChange
  InitialStock = 2
  Topics <- MCTopics
  MaxMishaps = 2
INVARIANTS EmailAtMostOnce HandledBelowCommit
PROPERTIES Implements EveryRowIsSent StockSettles
CHECK_DEADLOCK FALSE
