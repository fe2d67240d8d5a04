\* A buffer of 8 cells that wraps three times; a header of 2 cells, so that a
\* header wraps too; a round limit that a full buffer exceeds.  IndInv contains
\* the type invariant.
CONSTANTS
  a = a
  b = b
  Capacity = 8
  Header = 2
  Data <- MCData
  Payloads <- MCPayloads
  MaxPolls = 2
  MaxPosition = 24
SPECIFICATION FairSpec
INVARIANTS
  CachesLag
  BufferHoldsQueue
  ClaimSparesUnread
  IndInv
PROPERTIES
  ImplementsQueue
  EveryRecordReleased
