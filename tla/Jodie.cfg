\* The lines run out: a behaviour that has logged all of them stops.
CONSTANTS
  Batch = 5
  Lengths <- MCLengths
  PacketSize = 8
  BufferSize = 14
  MaxLines = 10
  MaxFailures = 3
SPECIFICATION Spec
CHECK_DEADLOCK FALSE
INVARIANTS
  TypeOK
  LinesOnceInOrder
  IndexBounded
  RestOnlyFirst
