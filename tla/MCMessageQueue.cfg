SPECIFICATION FairSpec
CONSTANTS
  ContinueProcess = ContinueProcess
  Play = Play
  p1 = p1
  p2 = p2
  PlainType <- MCPlainType
  ParamType <- MCParamType
  Param <- MCParam
  NoParam = NoParam
  None = None
  Capacity = 3
INVARIANTS
  NoSlotShared
PROPERTIES
  ImplementsBoundedQueue
  EverySlotIsFreed
