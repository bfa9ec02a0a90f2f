CONSTANTS
  Dispatch = {d1}
  Editor = {e1}
  MaxRule = 2
  MaxInfo = 1
  MaxEdit = 2
  Size = {1}
SPECIFICATION FairSpec
CHECK_DEADLOCK FALSE
INVARIANTS TypeOK InfoAddsUp ContentIsFirst
PROPERTIES DispatchesAdvance ImplementsDelivery DispatchesEnd
