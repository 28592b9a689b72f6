\* Three batches of two households, racing and repeated.
CONSTANTS
  r1 = r1  r2 = r2  r3 = r3  k1 = k1  c1 = c1  c2 = c2  s1 = s1  n1 = n1  n2 = n2
  A = A  B = B  p1 = p1  p2 = p2
  NoSlot = NoSlot  NoRequest = NoRequest  NoResult = NoResult  NoName = NoName  NoEntity = NoEntity
  Handler = {p1, p2}
  Request <- Requests
  Slot = {k1}
  SlotOf <- Slots
  BodyOf <- Bodies
  Result <- Results
  MaxFaults = 1
  Slow = FALSE
  Entity <- Entities
  KindOf <- Kinds
  Name = {n1, n2}
  Home = {A, B}
  HomeOf <- Homes
  InitialRows <- Rows
  Retention = 0
  LastDay = 1
  MaxSends <- FirstAgain
SYMMETRY HandlerSymmetry
SPECIFICATION PushSpec
INVARIANTS
  PushInvariant
PROPERTIES
  OverwriteJournalled
  HomesIsolated
  KeysSpec
\* Every client may have sent all it had to send.
CHECK_DEADLOCK FALSE
