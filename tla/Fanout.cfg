\* Two interfaces with two threads each, one, both or none misspelt; a packet at
\* any moment (packets change nothing, so one stands for each of many).  When all
\* threads are set up and the packet is through, nothing happens.
CONSTANTS
  NumInterfaces = 2
  NumThreads = 2
  Flows <- TwoFlows
  MaxPackets = 1
SPECIFICATION Spec
CHECK_DEADLOCK FALSE
INVARIANTS
  SeenOnce
  NoGap
