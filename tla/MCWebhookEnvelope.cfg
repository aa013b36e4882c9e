SPECIFICATION Spec
CONSTANTS
  Delivery = {1, 2}
  EventOf <- Distinct
  KeyOf <- Envelope
  Routed <- All
  Rule = {1}
  Matches <- AllMatch
  Item = {1, 2}
  Worker = {w1}
  Req = {}
  Kinds <- Nothing
  q1 = q1
  q2 = q2
  Asked = {1}
  None = None
  MaxReceive = 3
  FaultKind = {}
  MaxFaults = 0
INVARIANTS DuplicateIsKept
