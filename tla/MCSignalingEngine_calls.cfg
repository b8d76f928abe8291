SPECIFICATION LiveSpec
CONSTANTS
  Rooms = {r1, r2}
  Transports <- MCTransports
  FallbackAfter = 3
  PongMisses = 2
  None = None
  MaxSeats = 2
  MaxEpoch = 3
  MaxFaults = 2
  MaxSessions = 2
INVARIANTS
  TypeOK ConnectionManaged InStep OwnToken LeftForGood
PROPERTIES Settles
CHECK_DEADLOCK FALSE
