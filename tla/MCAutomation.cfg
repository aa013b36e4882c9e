SPECIFICATION Spec
CONSTANTS
  Worker = {w1}
  Req = {q1, q2}
  Kinds <- RetryAndOther
  q1 = q1
  q2 = q2
  Inst = {1, 2}
  Mid = {1, 2, 3}
  Msg = {1, 2, 3, 4, 5}
  None = None
  MaxAttempts = 2
  Deferred = {2}
  MaxReceive = 2
  Outcome = {"ok", "retryable", "permanent", "denied"}
  FaultKind = {"replyLost", "tryError", "catchError", "workerCrash", "reappear", "cancelRejected", "requestCrash"}
  MaxFaults = 1
  MaxEvents = 2
INVARIANTS TypeOK LadderNotStranded OnlyLatestLaunches LaunchIsTracked FailuresCountedOnce CompletionCountedOnce ManualCancelStands SettledAtRest
