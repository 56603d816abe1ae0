SPECIFICATION FairSpec
CONSTANTS
  Mine = mine
  Other = other
  Nobody = nobody
  Channel = {"ws", "http"}
  Deadline = 3
  Slice = 2
  MaxNoise = 2
INVARIANTS
  ResultIsTrue
  AckNotMissed
  EndsInTime
PROPERTY SendReturns
