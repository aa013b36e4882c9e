SPECIFICATION Spec
CONSTANTS
  Row = {1, 2, 3}
  Tick = {d1, d2}
  Worker = {}
  Req = {p1, p2}
  Kind <- StartPause
  Inst = {1}
  Mid = {1}
  Msg = {1, 2, 3}
  None = None
  p1 = p1
  p2 = p2
  Plan <- PlanAll
  StartStatus = {"draft"}
  ReleaseCount = 1
  StopAfter = 2
  MaxAttempts = 0
  Outcome = {"ok"}
  Ending = {"completed"}
  CanAge = TRUE
  FaultKind = {"dispatchError", "tickCrash"}
  MaxFaults = 1
SYMMETRY TickSymmetry
INVARIANTS RowReleasedOnce LaunchingOnlyInOpenRun LateReleasesBounded CompletionNoticedOnce
