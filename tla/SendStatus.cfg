SPECIFICATION FairSpec
CONSTANTS
  Mine = mine
  Other = other
  Nobody = nobody
  Channel = {"http"}
  Deadline = 1
  Slice = 1
  MaxNoise = 0
INVARIANT OkMeansDelivered
