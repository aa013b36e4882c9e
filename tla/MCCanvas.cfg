SPECIFICATION CanvasSpec
CONSTANTS
  Cell = {1, 2, 3}
  Nowhere = Nowhere
  Visits = 1
  Early = {1}
  MaxDrops = 2
  MaxElsewhere = 0
  MaxBadRequests = 0
  CanvasStart = {"cell"}
INVARIANTS LastDropStands
CHECK_DEADLOCK FALSE
