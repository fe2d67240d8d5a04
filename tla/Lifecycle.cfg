\* Two interfaces with a thread each; two signals.
\* The process ends: nothing happens after that.
CONSTANTS
  NULL = NULL
  Arguments <- TwoInterfaces
  MaxSignals = 2
SPECIFICATION Spec
CHECK_DEADLOCK FALSE
INVARIANTS
  TypeOK
  SocketOutlivesReporters
  ExitIsOrderly
PROPERTY EndsUnlessQuiet
