SPECIFICATION FairSpec
CONSTANTS
  Heartbeat = 3
  DeadAfter = 5
  StopPoll = 2
  RecvTimeout = 1
  PingMax = 2
  CloseMax = 1
  Burst = 1
INVARIANT DisconnectMeansBroken
