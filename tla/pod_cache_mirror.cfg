CONSTANTS
  Pods = {p1, p2}
  None = None
  Host = Host
  MaxUid = 2
  MaxRestarts = 1
  MaxKills = 0
  MaxRelists = 1
SPECIFICATION Spec
INVARIANT MirrorsApi
PROPERTIES
  WatchedDeletionsReported
  EventuallyMirrors
CHECK_DEADLOCK FALSE
