\* A message is damaged or cut once and followed once: then nothing happens.
CONSTANTS
  Headers <- MCHeaders
  HeaderLen = 2
  Sendable <- MCSendable
  Following <- MCFollowing
  Characters <- MCCharacters
SPECIFICATION Spec
CHECK_DEADLOCK FALSE
INVARIANTS
  Framing
  DamageDetected
  SearchFindsFirst
