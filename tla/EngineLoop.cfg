SPECIFICATION FairSpec
CONSTANTS
  MaxLogin = 3
  StoredUid = {TRUE, FALSE}
  Nets = {"up", "down", "garbled"}
INVARIANTS
  TypeOK
  StateMatchesEvents
  OneAccount
  NoBusyReconnect
PROPERTIES
  ImplementsCredentials
  ComesOnline
