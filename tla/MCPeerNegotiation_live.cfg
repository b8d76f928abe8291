SPECIFICATION LiveSpec
CONSTANTS
  Plans <- Singles
  MaxOffers = 12
PROPERTIES
  PairConnects
CHECK_DEADLOCK FALSE
