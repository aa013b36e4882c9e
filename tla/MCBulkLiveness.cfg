SPECIFICATION FairSpec
CONSTANTS
  Row = {1}
  Tick = {d1}
  Worker = {w1}
  Req = {p1}
  Kind <- ResumeOnly
  Inst = {1, 2, 3, 4}
  Mid = {1, 2, 3, 4}
  Msg = {1, 2, 3, 4}
  None = None
  p1 = p1
  p2 = p2
  Plan <- PlanAll
  StartStatus = {"running"}
  ReleaseCount = 1
  StopAfter = 1
  MaxAttempts = 2
  Outcome = {"ok", "retryable"}
  Ending = {"completed"}
  CanAge = TRUE
  FaultKind = {"workerCrash", "finalError", "tickCrash"}
  MaxFaults = 1
PROPERTIES LaunchingResolves RunningRunSettles
