\* One stream with a damaged message, whose messages just fit behind a leftover
\* fragment, and one that begins with a message the fragment buffer has no room
\* for and whose BodyLength is too small; a segment is lost or sent again.
\* The streams end: a behaviour that has sent everything stops.
CONSTANTS
  s1 = s1
  s2 = s2
  Streams <- TwoStreams
  Sent <- MCSent
  MsgLen <- MCMsgLen
  Stated <- MCStated
  Damaged <- SecondDamaged
  PatternLen = 2
  HeaderLen = 3
  Capacity = 9
  MaxSegment = 14
  Behind <- MCBehind
  Jumps <- MCJumps
  MaxJumps = 1
SPECIFICATION Spec
CHECK_DEADLOCK FALSE
INVARIANTS
  TypeOK
  RemainingExact
  NoPhantom
  InOrderOnce
  MissesCounted
  UncutPatternReported
