SPECIFICATION FairSpec
CONSTANTS
  Peer = {p1, p2, p3}
  Pin = {k1}
  None = None
  MAX_FAILURES = 3
  LOCKOUT = 3
  MAX_TRACKED_PEERS = 2
  U32_MAX = 3
INVARIANTS
  GuessBudget
PROPERTIES
  LockoutHolds
  LockoutEnds
