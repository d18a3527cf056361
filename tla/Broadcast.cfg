CONSTANTS
  Capacity = 4
  Words = 2
  Receiver = {rx}
  MaxSends = 9
SPECIFICATION FairSpec
INVARIANTS TypeOK NeverTorn LapIsReal
PROPERTIES InOrder FollowsLog CatchesUp
