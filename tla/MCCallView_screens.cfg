CONSTANTS
  None = None
  Me = Me
  r1 = r1
  r2 = r2
  r3 = r3
  Plans <- Screens
SPECIFICATION ScreenSpec
INVARIANTS
  EveryStreamOnce
  StageFits
  FrontHonest
  OverlaysTruthful
PROPERTIES
  PinKept
