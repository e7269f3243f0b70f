SPECIFICATION IdentityFairSpec
CONSTANTS
  Process = {p1, p2}
  Identity = {old, i1, i2}
  old = old
  i1 = i1
  i2 = i2
  Old = old
  None = None
  Garbage = Garbage
INVARIANTS
  ErrorsHaveACause
PROPERTIES
  ImplementsOneIdentity
  CallReturns
