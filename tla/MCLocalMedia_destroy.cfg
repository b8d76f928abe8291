CONSTANTS
  Peers = {"old", "new"}
  Able = {"new"}
  Plans <- Leaving
  MaxCalls = 2
  MaxTracks = 5
SPECIFICATION Spec
INVARIANTS DestroyStopsCapture
CHECK_DEADLOCK FALSE
