\* The same batch twice, by one device.
CONSTANTS
  p1 = p1  r1 = r1  c1 = c1  s1 = s1  n1 = n1  A = A
  NoSlot = NoSlot  NoRequest = NoRequest  NoResult = NoResult  NoName = NoName  NoEntity = NoEntity
  Handler = {p1}
  Request = {r1}
  Slot = {}
  SlotOf <- NoKeys
  BodyOf <- Bodies
  Result <- Results
  MaxFaults = 1
  Slow = FALSE
  Entity <- Entities
  KindOf <- Kinds
  Name = {n1}
  Home = {A}
  HomeOf <- Homes
  InitialRows <- Rows
  Retention = 0
  LastDay = 0
  MaxSends <- Twice
SPECIFICATION ReplaySpec
INVARIANT SameFinalState
\* Both sends may be over.
CHECK_DEADLOCK FALSE
