SPECIFICATION FairSpec
CONSTANTS
  Client = {c1}
  Engine = engine
  QueueLimit = 2
  MaxEvents = 3
  MaxPings = 1
  c1 = c1
INVARIANTS
  EventOrder
  NothingSkipped
PROPERTIES
  ImplementsFeed
  GiveUpOnlyInRace
  BroadcastEnds
  BrokenClientLeaves
