SPECIFICATION Spec
CONSTANTS
  MaxSession = 2
  MaxCode = 2
  MaxLines = 2
INVARIANTS
  AccountKept
  NewSession
PROPERTIES
  ImplementsCredentials
  LoginEnds
