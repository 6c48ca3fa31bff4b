CONSTANTS
  Pods = {p1}
  Containers = {api}
  Restarts = {r1}
  MaxUid = 2
  Unknown = Unknown
  MemoryTypeCount = 1
  Figures = {1}
  None = None
  TTL = 3
  Grace = 3
  ScrapeInterval = 1
  RecordBudget = 1
  MaxEvents = 2
  MaxEventTime = 5
  MaxTime = 6
  Setback = 0
  MaxSetbacks = 0
SPECIFICATION Spec
SYMMETRY RestartSymmetry
INVARIANT OnlyScrapedSeriesEvicted
