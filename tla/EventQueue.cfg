CONSTANTS
  Event <- MCEvent
  Progress <- MCProgress
  Publisher = {p1, p2}
  MaxTrail = 4
SPECIFICATION FairSpec
INVARIANTS
  TypeOK
  NoLostWakeup
  NoCriticalLost
PROPERTY
  FeedFairSpec
