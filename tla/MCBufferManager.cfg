SPECIFICATION FairSpec
CONSTANTS
  Wanted = 2
  OutChannels = 2
  MaxRequests = 3
INVARIANTS
  HandoverExclusive
  OneOwner
  CountNeverOverstates
  OrderCoversDelivery
  ShortageIsOrdered
PROPERTIES
  OrderIsDelivered
