SPECIFICATION FairSpec
CONSTANTS
  Host = {h1, h2, h3}
  Device = {d1, d2}
  Own = Own
  Nameless = Nameless
  Slots = 2
  Interface = {i1, i2}
  Wanted = {d1}
  Capacity = 2
  MaxHeard = 4
  None = None
INVARIANTS
  NoBlindDisclosure
  OutcomeIsExact
  FoundIsConfirmed
  NothingConfirmedIsLost
PROPERTIES
  SearchEnds
CHECK_DEADLOCK FALSE
