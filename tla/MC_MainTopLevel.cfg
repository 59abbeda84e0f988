\* The packet loop driven to its end: every choice of corrupted symbols.
SPECIFICATION SafetySpec
CONSTANTS
  mm = 3
  pp <- MCPP
  nn = 7
  tt = 2
  NB_BYTE_INPUT = 2
  NUMBER_OF_TEST_VECTOR = 1
  Byte <- MCByte
  Zero <- MCZero
  Junk <- MCJunk
  ToByte <- MCToByte
  Encode <- MCEncode
  InitialMemory <- MCSymbolMemory
  RandIndex <- MCRandIndex
  RandByte <- MCRandByte
INVARIANTS
  TypeOK
  EncodesTheMessage
  ReceivesTheCodeword
  Recovered
  IInv
PROPERTIES
  MessageKept
  ImplementsStoreAndForward
