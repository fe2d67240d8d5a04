CONSTANTS
  NumThreads = 2
  MaxMessages = 1
  MaxPackets = 1
SPECIFICATION Spec
INVARIANTS
  TypeOK
  WithinSweep
  PacketsOnce
PROPERTIES
  EventuallyReported
