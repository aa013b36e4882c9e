SPECIFICATION FairSpec
CONSTANTS
  worker = worker
  request = request
  other = other
  Actor = {worker, request, other}
  Asks <- AsksDef
  Job = {1}
  Token = {1, 2, 3, 4, 5}
  None = None
  MaxReceive = 2
  TokenFault = {"platformDown", "answerLost", "writeFails", "crash"}
  MaxTokenFaults = 1
  Caller = {1, 2, 3}
  Admin = {"a1"}
  Boot = {1, 2}
  Nil = Nil
  SfFault = {"expiry", "writeFails", "crash"}
  MaxSfFaults = 1
  Draft = {1, 2}
  FileRow = {1, 2}
  Problem = {2}
  Wizard = {1, 2, 3}
  NoDraft = NoDraft
  DraftFault = {"unprocessed", "failure"}
  MaxDraftFaults = 1
  Run = {1, 2}
  Row = {1, 2, 3}
  RunOf <- RunOfDef
  Cap = 2
  ReleaseCount = 2
  MaxExcess = 1
  Slot = {1, 2, 3, 4}
  WorkflowOf <- WorkflowOfDef
  Listed = {4}
  Missing = {1}
  Unlinked = {3}
  PageSize = 1
  MaxPages = 2
  MaxFallbacks = 1
  BackoffTicks = 3
  MaxSetbacks = 1
  Cell = {1, 2}
  Nowhere = Nowhere
  Visits = 2
  Early = {1}
  MaxDrops = 2
  MaxElsewhere = 1
  MaxBadRequests = 1
  CanvasStart = {"empty", "legacy"}
INVARIANTS TypeOK RefreshTokenKept NoFalseWarning DeletedStaysDeleted SecretVerifies RotationStands StartedIsWhole CapHolds
PROPERTIES SyncCatchesUp NoSnapBack
CHECK_DEADLOCK FALSE
