CONSTANTS
  Worker = {w1, w2}
  Planned = 1
  MaxJobEvents = 1
SPECIFICATION FairSpec
PROPERTIES
  RunEnds
  ConsumerGetsTerminal
