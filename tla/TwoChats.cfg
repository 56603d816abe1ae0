SPECIFICATION Spec
CONSTANTS
  Full = 2
  Alphabet = {8}
  MaxLen = 1
INVARIANT ChatsAreKeptApart
CHECK_DEADLOCK FALSE
