SPECIFICATION FairSpec
CONSTANTS
  MsgCap = 2
  MaxFrames = 4
INVARIANTS
  FrameConservation
  ErrorMeansDrained
  DoneClosedOnce
PROPERTIES
  EndIsReported
  CloseReleases
  ImplementsStream
