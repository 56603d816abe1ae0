SPECIFICATION Spec
CONSTANTS
  MaxSession = 2
  MaxCode = 1
  MaxLines = 1
INVARIANT AnswersReachThePrompt
