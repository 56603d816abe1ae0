SPECIFICATION FairSpec
CONSTANTS
  Client = {c1}
  Engine = engine
  QueueLimit = 2
  MaxEvents = 1
  MaxPings = 0
  c1 = c1
INVARIANT HelloFirst
