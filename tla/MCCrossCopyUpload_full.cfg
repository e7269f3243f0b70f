SPECIFICATION FairSpec
CONSTANTS
  r1 = r1
  r2 = r2
  p1 = p1
  p2 = p2
  None = None
  Request = {r1, r2}
  Upload = {u1, u2}
  Peer = {p1, p2}
  Origin <- MCOrigin
INVARIANTS
  OwnerInOnePlace
PROPERTIES
  ImplementsCustody
  OwnerIsReleased
  ReceivedIsReported
  StopReturns
CHECK_DEADLOCK FALSE
