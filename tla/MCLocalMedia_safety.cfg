CONSTANTS
  Peers = {"old", "late", "new"}
  Able = {"new"}
  Plans <- Tabs
  MaxCalls = 2
  MaxTracks = 6
SPECIFICATION Spec
INVARIANTS MicHeldOnce SendersFollowStream ShareReaches
CHECK_DEADLOCK FALSE
