CONSTANTS
  CPUs = {c1, c2}
  RingSlots = 2
  MaxKills = 5
SPECIFICATION Spec
INVARIANTS
  TypeOK
  InOrderExactlyOnce
  NothingLost
  NoStrandedRecord
  DropsReportedWhenQuiet
PROPERTIES
  ImplementsFifo
  DroppedTotalMonotone
