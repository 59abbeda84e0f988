\* generate_poly of the SystemVerilog package against its comment.
SPECIFICATION SVSpec
CHECK_DEADLOCK FALSE
CONSTANTS
  mm = 8
  pp <- MCPP
  nn = 255
  tt = 8
INVARIANTS
  RootsOfGG
