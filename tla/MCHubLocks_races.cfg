CONSTANTS
  CIDs = {p1, p2}
  Clients = {c1, c2}
  Nil = Nil
  Capabilities = {2, 3}
  ServerLimit = 3
  EpochModulus = 1
  Objects = {o1, o2}
  MaxInFlight = 2
  StreamClients = {}
  Plans <- Races
SPECIFICATION Spec
SYMMETRY Symmetry
INVARIANTS PlacesSurvive
PROPERTIES LateDepartureHarmless TimersSpareTheReturned
CHECK_DEADLOCK FALSE
