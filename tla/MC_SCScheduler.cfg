\* The kernel under the encoder and the test bench, whatever they write.
SPECIFICATION Spec
CONSTANTS
  nn = 5
  tt = 1
  NB_BYTE_INPUT = 1
  Byte <- MCByte
  Zero = 0
  Junk = {}
  ToByte <- MCToByte
  InitialMemory <- MCMemory
  Runnable <- MCProcesses
  PushHead = PushHead
  NULL = NULL
  END = END
  Nobody = Nobody
  Written <- MCWritten
INVARIANTS
  TypeOK
  UpdateListSound
PROPERTIES
  ImplementsKernel
  EveryThreadRuns
