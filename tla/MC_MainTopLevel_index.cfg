\* rand() % 256 as an index into recd[255].
SPECIFICATION SafetySpec
CONSTANTS
  mm = 3
  pp <- MCPP
  nn = 7
  tt = 2
  NB_BYTE_INPUT = 2
  NUMBER_OF_TEST_VECTOR = 1
  Byte <- MCByte
  Zero <- MCZero
  Junk <- MCJunk
  ToByte <- MCToByte
  Encode <- MCEncode
  InitialMemory <- MCSymbolMemory
  RandIndex <- MCRandIndexOfMod256
  RandByte <- MCRandByte
INVARIANTS
  Recovered
