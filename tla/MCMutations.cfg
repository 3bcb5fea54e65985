SPECIFICATION FairSpec
CONSTANTS
  MaxRequests = 3
  Capacity = 2
INVARIANTS
  PendingIsExact
  NoEditDuringSave
  CleanHasMissedNoEdit
PROPERTIES
  SaveIsAnsweredUnlessLost
