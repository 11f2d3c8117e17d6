SPECIFICATION FeedSpec
CONSTANTS
  Nodes = {n1, n2}
  NoNode = NoNode
  LeaseTime = 1
  MaxEvents = 2
  Limit = 1
  MaxClock = 2
  MaxSeq = 4
  MaxLives = 2
  MaxLost = 1
INVARIANTS LogMirrorsToken LogTellsStory NothingMissed
PROPERTY CatchesUp
