CONSTANTS
  Pods = {p1}
  None = None
  Host = Host
  MaxUid = 2
  MaxRestarts = 3
  MaxKills = 1
  MaxRelists = 1
SPECIFICATION Spec
INVARIANTS
  TypeOK
  FoundIsVictim
  KnownContainerResolves
CHECK_DEADLOCK FALSE
