\* Every call comes once, so all may have been answered.
SPECIFICATION Spec
CONSTANTS
  Request = {r1, r2}
  Group = {g1, g2}
  Peer = {p}
  NoId = NoId
  VideoSize = 3
  PartSize = 2
  MaxLogin = 2
  MaxConv = 2
INVARIANTS
  OneLoginPerMessage
  RepliesReachTheChat
  SentOnlyCommitted
SYMMETRY Symmetry
CHECK_DEADLOCK FALSE
