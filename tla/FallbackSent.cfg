SPECIFICATION Spec
CONSTANTS
  Full = 2
  Alphabet = {8}
  MaxLen = 1
INVARIANT OwnMessagesAreSent
CHECK_DEADLOCK FALSE
