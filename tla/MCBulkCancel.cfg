SPECIFICATION Spec
CONSTANTS
  Row = {1, 2}
  Tick = {d1}
  Worker = {w1}
  Req = {p1, p2}
  Kind <- CancelBoth
  Inst = {1, 2}
  Mid = {1, 2}
  Msg = {1, 2}
  None = None
  p1 = p1
  p2 = p2
  Plan <- PlanAll
  StartStatus = {"running", "queued"}
  ReleaseCount = 2
  StopAfter = 2
  MaxAttempts = 0
  Outcome = {"ok"}
  Ending = {"completed"}
  CanAge = FALSE
  FaultKind = {"cancelRejected"}
  MaxFaults = 1
INVARIANTS ClosedRunIsQuiet
PROPERTIES OutcomesStand RunLifecycle
