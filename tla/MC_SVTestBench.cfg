\* The SystemVerilog bench and the encoder: their waits fit, so that every vector returns.
SPECIFICATION Spec
CONSTANTS
  nn = 11
  tt = 2
  NB_BYTE_INPUT = 3
  Byte <- MCByte
  Zero = 0
  Junk <- MCJunk
  ToByte <- MCToByte
  Encode <- MCEncode
  InitialMemory <- MCMemory
  NUMBER_OF_TEST_VECTOR = 2
  RandomMessages <- MCVectors
  Seeds <- MCSeeds
INVARIANTS
  TypeOK
  WakesOnRise
  ReceivesOneChunkLate
PROPERTY
  EveryVectorReturns
