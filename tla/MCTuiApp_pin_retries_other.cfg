SPECIFICATION Spec
CONSTANTS
  Request = {}
  Device = {d1}
  Text = {t1, t2}
  Empty = Empty
  None = None
  Pin = Pin
  MaxGeneration = 2
INVARIANTS
  RetriesTheSameSend
CHECK_DEADLOCK FALSE
