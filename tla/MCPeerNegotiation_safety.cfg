SPECIFICATION Spec
CONSTANTS
  Plans <- Pairs
  MaxOffers = 12
INVARIANTS
  NeverStranded
  AnswersMatch
CHECK_DEADLOCK FALSE
