\* Arrays that hold a stale int which is not the value of a symbol.
SPECIFICATION SafetySpec
CONSTANTS
  mm = 3
  pp <- MCPP
  nn = 7
  tt = 2
  NB_BYTE_INPUT = 2
  NUMBER_OF_TEST_VECTOR = 1
  Byte <- MCByte
  Zero <- MCZero
  Junk <- MCJunk
  ToByte <- MCToByte
  Encode <- MCEncode
  InitialMemory <- MCJunkMemory
  RandIndex <- MCRandIndex
  RandByte <- MCRandByte
INVARIANTS
  Recovered
