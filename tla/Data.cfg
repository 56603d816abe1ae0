\* One call of a pure function: nothing follows the choice of its input.
SPECIFICATION Spec
CONSTANTS
  Full = 2
  Alphabet = {8, 10, 17, 2, 49, 58, 128, 255}
  MaxLen = 4
INVARIANTS CutKeepsPrefix RoundTrip FrameEventsAreTrue ConversationsListed VideoComesOutPlain
CHECK_DEADLOCK FALSE
