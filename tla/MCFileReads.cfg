SPECIFICATION Spec
CONSTANTS
  s1 = s1
  s2 = s2
  Slot <- MCSlot
  None = None
  MaxReads = 3
  FirstSupply = 2
  PoolGoal = 1
  Capacity = 2
SYMMETRY Symmetry
INVARIANTS
  EngineReadsAlive
  ActiveReadsAlive
  PlayableHasEnded
  FileOpenWhileReading
