\* The handshake at the sizes of RSCommon.h, with a reset in any cycle.
SPECIFICATION Spec
CONSTANTS
  nn = 255
  tt = 8
  NB_BYTE_INPUT = 16
  Byte <- MCByte
  Zero = 0
  Junk <- MCJunk
  ToByte <- MCToByte
  Encode <- MCEncode
  InitialMemory <- MCMemory
INVARIANTS
  TypeOK
  ReadyThenValid
  ValidThenReady
  ReadyWhileReceiving
  ValidWhileSending
  MutualExclusion
