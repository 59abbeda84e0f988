\* Every pattern of at most tt + 1 errors; the call returns.
SPECIFICATION DecodeSpec
CHECK_DEADLOCK FALSE
CONSTANTS
  mm = 3
  pp <- MCPP
  nn = 7
  tt = 2
  Sent <- MCSent
  Errors <- MCErrors
INVARIANTS
  KeyEquation
  RootsInBounds
  ElpInBounds
PROPERTIES
  ImplementsDecoder
