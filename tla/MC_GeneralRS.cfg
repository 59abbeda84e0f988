\* The executable specification from start to end; it stops.
SPECIFICATION Spec
CHECK_DEADLOCK FALSE
CONSTANTS
  mm = 8
  pp <- MCPP
  nn = 255
  tt = 8
  NB_VECTORS = 1
  RandomData <- MCData
  RandomIndex <- MCIndex
  RandomByte <- MCByte
INVARIANTS
  TypeOK
  AlwaysOK
  UsedOnce
  TablesOfTheField
  GeneratorInIndexForm
  RootsOfGG
  GaloisAgreesWithTables
  RemainderSoFar
  SentIsACodeword
