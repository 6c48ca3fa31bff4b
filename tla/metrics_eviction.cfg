CONSTANTS
  Pods = {p1}
  Containers = {api}
  Restarts = {r1, r2}
  MaxUid = 1
  Unknown = Unknown
  MemoryTypeCount = 2
  Figures = {1}
  None = None
  TTL = 3
  Grace = 3
  ScrapeInterval = 1
  RecordBudget = 1
  MaxEvents = 2
  MaxEventTime = 4
  MaxTime = 8
  Setback = 3
  MaxSetbacks = 1
SPECIFICATION Spec
INVARIANT OnlyScrapedSeriesEvicted
PROPERTY EventuallyNoSeries
