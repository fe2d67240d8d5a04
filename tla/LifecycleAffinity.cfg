\* Two interfaces, two threads each and a CPU for every thread.
\* The process ends: nothing happens after that.
CONSTANTS
  NULL = NULL
  Arguments <- FourCpus
  MaxSignals = 0
SPECIFICATION Spec
CHECK_DEADLOCK FALSE
INVARIANT AffinityAsDocumented
