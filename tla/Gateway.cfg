SPECIFICATION Spec
CONSTANTS
  q1 = q1
  q2 = q2
  q3 = q3
  t1 = t1
  t2 = t2
  r1 = r1
  r2 = r2
  Unissued = Unissued
  Deleted = Deleted
  NoRoute = NoRoute
  NoTarget = NoTarget
  Requests = {q1, q2, q3}
  Gets = {q1, q2}
  Resource <- MCResource
  Routes = {r1}
  Targets = {t1, t2}
  Configs <- MCConfigs
  MaxEvents = 2
INVARIANTS OpenHasTimer OpenedByFailures EffectsAsAnswered
PROPERTIES NeverClosesFromOpen EveryRequestIsAnswered OpenEnds
CHECK_DEADLOCK FALSE
