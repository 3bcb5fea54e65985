SPECIFICATION FairSpec
CONSTANTS
  Requests <- MCRequests
  Frames <- MCFrames
  MaxItems = 4
  BufferSize = 12
  CompactionPoint = 6
  ShortLength = 6
  None = None
INVARIANTS
  ArrivesWhole
  NeverFull
  AnsweredOnce
PROPERTIES
  MessageIsHandled
  GoneIsDeleted
CHECK_DEADLOCK FALSE
