SPECIFICATION Spec
CONSTANTS
  Row = {1}
  Tick = {d1}
  Worker = {w1}
  Req = {p1}
  Kind <- CancelRun
  Inst = {1, 2}
  Mid = {1, 2}
  Msg = {1, 2}
  None = None
  p1 = p1
  p2 = p2
  Plan <- PlanAll
  StartStatus = {"running"}
  ReleaseCount = 2
  StopAfter = 2
  MaxAttempts = 0
  Outcome = {"ok"}
  Ending = {"completed"}
  CanAge = TRUE
  FaultKind = {}
  MaxFaults = 0
INVARIANTS ClosedRunIsQuiet
