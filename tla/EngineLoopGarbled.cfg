SPECIFICATION FairSpec
CONSTANTS
  MaxLogin = 3
  StoredUid = {TRUE}
  Nets = {"up", "garbled"}
INVARIANT ReloginOnlyIfExpired
