SPECIFICATION FairSpec
CONSTANTS
  Request = {r1, r2}
  Device = {d1}
  Text = {t1}
  Empty = Empty
  None = None
  Pin = Pin
  MaxGeneration = 3
INVARIANTS
  TypeOK
  RequestsAreKept
  CancelledIsSilent
PROPERTIES
  PromptAppears
  SendIsReported
CHECK_DEADLOCK FALSE
