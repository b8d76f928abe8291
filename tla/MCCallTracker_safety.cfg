SPECIFICATION Spec
CONSTANTS
  Readings <- Polls
  MaxWork = 5
INVARIANTS MediansAreMiddle QualityHonest
PROPERTY KeepsLog
CHECK_DEADLOCK FALSE
