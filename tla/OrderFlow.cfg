SPECIFICATION Spec
CONSTANTS
  s1 = s1
  s2 = s2
  j1 = j1
  Sagas = {s1, s2}
  Jobs = {j1}
  NoSaga = NoSaga
  Budgets <- SafetyBudgets
SYMMETRY Symmetry
INVARIANTS ConfirmedIsPaid ShipmentIsConfirmed RefundIsPaid CompletedIsDelivered CompensationUnderWay CancelledHoldsNoStock
PROPERTIES SagaNeverMovesBack OutcomeIsFinal
CHECK_DEADLOCK FALSE
