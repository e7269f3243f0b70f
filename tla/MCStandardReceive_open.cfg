SPECIFICATION Spec
CONSTANTS
  o1 = o1
  o2 = o2
  m = m
  p1 = p1
  p2 = p2
  f1 = f1
  f2 = f2
  None = None
  Offer = {o1, o2}
  Message = {}
  Sender <- MCSender
  Offered <- MCOffered
  Upload = {u1, u2}
  File = {f1, f2}
  Peer = {p1, p2}
SYMMETRY MCSymmetry
INVARIANTS
  ReservationHasHandler
  DoneMeansComplete
  UndisturbedOwnsSlot
  UndisturbedRecorded
PROPERTIES
  ImplementsLifecycle
CHECK_DEADLOCK FALSE
