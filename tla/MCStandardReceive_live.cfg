SPECIFICATION FairSpec
CONSTANTS
  o1 = o1
  o2 = o2
  m = m
  p1 = p1
  p2 = p2
  f1 = f1
  f2 = f2
  None = None
  Offer = {o1, m}
  Message = {m}
  Sender <- MCSenderMsg
  Offered <- MCOfferedMsg
  Upload = {u1}
  File = {f1, f2}
  Peer = {p1, p2}
INVARIANTS
  DoneOnce
PROPERTIES
  OfferIsAnswered
  SlotIsReclaimed
CHECK_DEADLOCK FALSE
