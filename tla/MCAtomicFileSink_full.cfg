SPECIFICATION Spec
CONSTANTS
  r1 = r1
  r2 = r2
  r3 = r3
  Receive = {r1, r2, r3}
  Name <- MCName
  MaxCollisionAttempts = 1
  Series <- MCSeries
  Absent = Absent
  Reserved = Reserved
  Torn = Torn
INVARIANTS
  NeverTorn
  CommittedIsDurable
  NothingLeftBehind
PROPERTIES
  ReceivedFileStays
CHECK_DEADLOCK FALSE
