SPECIFICATION Spec
CONSTANTS
  Row = {1}
  Tick = {d1}
  Worker = {w1, w2}
  Req = {}
  Kind <- NoRequest
  Inst = {1, 2, 3}
  Mid = {1, 2, 3}
  Msg = {1, 2, 3}
  None = None
  p1 = p1
  p2 = p2
  Plan <- PlanAll
  StartStatus = {"running"}
  ReleaseCount = 1
  StopAfter = 2
  MaxAttempts = 2
  Outcome = {"ok", "retryable", "permanent", "denied"}
  Ending = {"completed"}
  CanAge = TRUE
  FaultKind = {"lostReply", "reappear", "tryError", "cancelRejected"}
  MaxFaults = 1
SYMMETRY WorkerSymmetry
INVARIANTS TypeOK LaunchIsTracked LaunchingIsCarried LadderNotStranded
