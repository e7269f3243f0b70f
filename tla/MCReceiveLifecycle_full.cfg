SPECIFICATION Spec
CONSTANTS
  File = {f1, f2}
  Handler = {h1, h2, h3, h4}
  None = None
SYMMETRY MCSymmetry
INVARIANTS
  OneOwnerPerFile
  LandsOnce
PROPERTIES
  ImplementsDelivery
CHECK_DEADLOCK FALSE
