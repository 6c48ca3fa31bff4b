CONSTANTS
  CPUs = {c1}
  RingSlots = 1
  MaxKills = 5
SPECIFICATION Spec
INVARIANT DroppedTotalNotInflated
