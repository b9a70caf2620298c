SPECIFICATION FairSpec
CONSTANTS
  NBackups = 2
  NRestores = 2
  Requests <- MCRequests
  Emails = {a, b}
  Seeds = {a}
  MaxUsers = 2
  MaxBackups = 1
  MaxMishaps = 1
  NoJob = NoJob
  NoFile = NoFile
  NoRequest = NoRequest
  Dead = Dead
INVARIANTS OneAtATime BackupsAreRestorable RestoreLogIsTrue
PROPERTIES KeepsBackups LogsAreClosed
CHECK_DEADLOCK FALSE
