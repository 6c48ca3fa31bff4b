\* Two edits of either tracepoint, cgroup files of up to four segments.
SPECIFICATION Spec
CONSTANTS
  Ids = {"a", "b"}
  MaxEdits = 2
  MaxSegments = 4
  Sizes = {2, 4, 8}
INVARIANTS LayoutVerdictExact IdAsDocumented
CHECK_DEADLOCK FALSE
