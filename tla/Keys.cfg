\* Three handlers, two bodies under one key, two faults.
CONSTANTS
  r1 = r1  r2 = r2  r3 = r3  k1 = k1  a = a  b = b  yes = yes  no = no
  NoSlot = NoSlot  NoRequest = NoRequest  NoResult = NoResult
  Handler = {1, 2, 3}
  Request <- Requests
  Slot = {k1}
  SlotOf <- OneKey
  BodyOf <- TwoBodies
  Result = {yes, no}
  MaxFaults = 2
  Slow = FALSE
SPECIFICATION FairKeysSpec
INVARIANTS
  KeysInvariant
PROPERTIES
  RecordFinal
  RetriesEnd
