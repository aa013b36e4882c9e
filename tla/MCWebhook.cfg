SPECIFICATION FairSpec
CONSTANTS
  Delivery = {1, 2}
  EventOf <- Retries
  KeyOf <- OwnKey
  Routed <- All
  Rule = {1, 2}
  Matches <- AllMatch
  Item = {1, 2}
  Worker = {w1, w2}
  Req = {q1, q2}
  Kinds <- Switch
  q1 = q1
  q2 = q2
  Asked = {1}
  None = None
  MaxReceive = 2
  FaultKind = {"workerFails", "reappear", "queueError", "storeError", "handlerCrash"}
  MaxFaults = 2
INVARIANTS TypeOK AcceptedIsKept ProcessedIsHandled RepeatsArePaidFor ReprocessedOnlyIfOverlapped PendingEntriesHaveJobs PauseIsNonLossy
PROPERTIES CancelledItemsStand EnqueuedIsSettled
