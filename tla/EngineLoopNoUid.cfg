SPECIFICATION FairSpec
CONSTANTS
  MaxLogin = 3
  StoredUid = {TRUE, FALSE}
  Nets = {"up", "down"}
PROPERTY ValidCookieComesOnline
