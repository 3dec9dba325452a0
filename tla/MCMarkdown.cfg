SPECIFICATION DocSpec
CONSTANTS
  SourceLines <- MCLines
  MaxLength <- MCMaxLength
INVARIANTS DocTypeOK LinesInOrder  FailureHasCause
CHECK_DEADLOCK FALSE
