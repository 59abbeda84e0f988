\* The message the encoder codes is not the vector the bench sent.
SPECIFICATION Spec
CONSTANTS
  nn = 11
  tt = 2
  NB_BYTE_INPUT = 3
  Byte <- MCByte
  Zero = 0
  Junk <- MCJunk
  ToByte <- MCToByte
  Encode <- MCEncode
  InitialMemory <- MCMemory
  NUMBER_OF_TEST_VECTOR = 2
  RandomMessages <- MCVectors
  Seeds <- MCSeeds
INVARIANT
  EncodesTheVector
