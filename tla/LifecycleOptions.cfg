\* The CPUs are given after the port.
\* The process ends: nothing happens after that.
CONSTANTS
  NULL = NULL
  Arguments <- CpusLast
  MaxSignals = 0
SPECIFICATION Spec
CHECK_DEADLOCK FALSE
INVARIANT PortAsDocumented
