SPECIFICATION Spec
CONSTANTS
  token = token
  sliding = sliding
  fixed = fixed
  leaky = leaky
  briefToken = briefToken
  briefLeaky = briefLeaky
  s1 = s1
  s2 = s2
  s3 = s3
  NoRule = NoRule
  Slots = {s1, s2}
  Rules = {token, sliding, fixed, leaky, briefToken, briefLeaky}
  Rule <- MCRule
  Tables <- MCTables
  MaxTime = 3
  MaxMishaps = 1
SYMMETRY Symmetry
INVARIANTS FixedWindowBound SlidingWindowBound BucketBound RetryAfterSuffices
CHECK_DEADLOCK FALSE
