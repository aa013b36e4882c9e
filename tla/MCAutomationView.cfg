SPECIFICATION Spec
CONSTANTS
  Worker = {w1}
  Req = {q1, q2}
  Kinds <- CancelAndView
  q1 = q1
  q2 = q2
  Inst = {1, 2}
  Mid = {1, 2, 3}
  Msg = {1, 2, 3, 4, 5}
  None = None
  MaxAttempts = 1
  Deferred = {1}
  MaxReceive = 2
  Outcome = {"ok", "retryable", "permanent", "denied"}
  FaultKind = {}
  MaxFaults = 0
  MaxEvents = 2
INVARIANTS LiveViewKeepsCancel
