SPECIFICATION Spec
CONSTANTS
  s1 = s1
  s2 = s2
  j1 = j1
  Sagas = {s1}
  Jobs = {j1}
  NoSaga = NoSaga
  Budgets <- OutageBudgets
INVARIANTS ReceivedPaymentIsRefunded
CHECK_DEADLOCK FALSE
