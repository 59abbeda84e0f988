\* Run lists of four threads, with every operation of the kernel on them.
SPECIFICATION DispatchSpec
CONSTANTS
  p1 = p1
  p2 = p2
  p3 = p3
  p4 = p4
  Runnable <- MCProcesses
  PushHead = PushHead
  NULL = NULL
  END = END
  Nobody = Nobody
INVARIANTS
  DispatchTypeOK
  QueuedOnce
PROPERTIES
  RunsInOrder
