CONSTANTS
  CIDs = {p1, p2}
  Clients = {c1, c2}
  RIDs = {r1}
  Nil = Nil
  Capabilities = {2}
  Sizes = {2}
  ServerLimit = 3
  EpochModulus = 3
  LivenessClients = {}
  WatchClients = {c1}
SPECIFICATION FairSpec
INVARIANTS WatchersUpToDate
PROPERTIES EndedCallStaysEnded PlacesComeFree
