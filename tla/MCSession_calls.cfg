SPECIFICATION Spec
CONSTANTS
  r1 = r1
  r2 = r2
  Remotes = {r1, r2}
  Sids = {NoSid}
  Revisions = {1, 2}
  Plans <- Calls
  NoSid = NoSid
  None = None
INVARIANTS TimersStopped SuspicionsTracked NewestContentShown OutagesTracked NeverAlone
CHECK_DEADLOCK FALSE
