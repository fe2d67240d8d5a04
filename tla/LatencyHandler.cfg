CONSTANTS
  NumRings = 2
  Conversations <- MCConversations
  About <- MCAbout
  Clock <- MCClock
  Header = 1
  Capacity = 14
  MaxPolls = 2
  MaxLatency = 2
  MaxMessages = 5
SPECIFICATION Spec
INVARIANTS
  TypeOK
  TruePairs
  PairsFound
  NextAnswer
  CompletedExact
  NoStarvation
PROPERTIES
  RingsAreQueues
  EveryPairFound
