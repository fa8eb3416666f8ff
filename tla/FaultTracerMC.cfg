CONSTANTS
  Size = 3
  ModelLists <- UpToTwo
  IgnoredRanges <- NoneOrOne
  MaxTimeout = 5
SPECIFICATION Spec
INVARIANTS VerdictsAgree SameRun SkippedOnlyIfNotExecuted
CHECK_DEADLOCK FALSE
