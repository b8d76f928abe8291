CONSTANTS
  CIDs = {p1, p2, p3}
  Clients = {c1, c2}
  RIDs = {r1}
  Nil = Nil
  Capabilities = {2, 3}
  Sizes = {3}
  ServerLimit = 3
  EpochModulus = 3
  LivenessClients = {c1, c2}
  WatchClients = {}
SPECIFICATION Spec
SYMMETRY Symmetry
INVARIANTS RoomsInOrder CapacityHolds SeatIsIdentity PeersUpToDate
PROPERTIES EpochAdvances KeepsCalls
