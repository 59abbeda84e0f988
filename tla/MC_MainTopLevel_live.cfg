\* Progress of the packet loop, two packets for each number of errors.
SPECIFICATION Spec
CONSTANTS
  mm = 3
  pp <- MCPP
  nn = 7
  tt = 2
  NB_BYTE_INPUT = 2
  NUMBER_OF_TEST_VECTOR = 2
  Byte <- MCOneByte
  Zero <- MCZero
  Junk <- MCNoJunk
  ToByte <- MCToByte
  Encode <- MCOneEncode
  InitialMemory <- MCOneMemory
  RandIndex <- MCFewIndices
  RandByte <- MCOneByte
PROPERTIES
  EveryPacketReturns
  Terminates
  EveryStepCounts
