\* Every segment is captured and no message is damaged.
\* The stream ends: a behaviour that has sent everything stops.
CONSTANTS
  s1 = s1
  s2 = s2
  Streams <- OneStream
  Sent <- SentThree
  MsgLen <- MCMsgLen
  Stated <- StatedRight
  Damaged <- NoneDamaged
  PatternLen = 2
  HeaderLen = 3
  Capacity = 24
  MaxSegment = 21
  Behind <- MCBehind
  Jumps <- NoJumps
  MaxJumps = 0
SPECIFICATION Spec
CHECK_DEADLOCK FALSE
INVARIANTS
  EveryMessageReported
