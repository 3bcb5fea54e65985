SPECIFICATION Spec
CONSTANTS
  Clips <- MCClips
  Positions <- MCPositions
  None = None
  BufferSize = 2
  ReadAhead = 4
  NumReads = 2
  PoolGoal = 2
  Offset = 0
  Delay = 1
  LastFrame = 11
INVARIANTS
  ReadsDisjoint
  SlotsSuffice
  HeardInStep
  AskedForInTime
