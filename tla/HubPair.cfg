SPECIFICATION Spec
CONSTANTS
  Client = {c1, c2}
  Engine = engine
  QueueLimit = 1
  MaxEvents = 2
  MaxPings = 0
  c1 = c1
  c2 = c2
SYMMETRY Perms
INVARIANTS
  NothingSkipped
PROPERTY
  ImplementsFeed
