\* Three blocks of two packets, five packets: more than a lap when the timer
\* retires them one by one.  After the last packet has been seen nothing happens.
CONSTANTS
  Blocks = 3
  PerBlock = 2
  Packets <- MCPackets
  Port = 1
  MaxPackets = 5
SPECIFICATION Spec
CHECK_DEADLOCK FALSE
INVARIANT IndInv
PROPERTIES
  ImplementsFeed
  EveryPacketSeen
