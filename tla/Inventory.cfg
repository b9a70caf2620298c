SPECIFICATION Spec
CONSTANTS
  s1 = s1
  s2 = s2
  s3 = s3
  reserve1 = reserve1
  reserve2 = reserve2
  confirm1 = confirm1
  release1 = release1
  NoCommand = NoCommand
  NoWorker = NoWorker
  Sagas = {s1, s2, s3}
  Workers = {reserve1, reserve2, confirm1, release1}
  Commands <- MCCommands
  Topic <- MCTopic
  Quantity <- MCQuantity
  InitialStock = 3
  Budgets <- Singles
SYMMETRY Symmetry
INVARIANTS ReservedCoversHeld NoOversell
PROPERTY Implements
CHECK_DEADLOCK FALSE
