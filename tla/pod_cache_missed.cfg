CONSTANTS
  Pods = {p1}
  None = None
  Host = Host
  MaxUid = 2
  MaxRestarts = 2
  MaxKills = 0
  MaxRelists = 1
SPECIFICATION Spec
PROPERTY DeletedPodsReported
CHECK_DEADLOCK FALSE
