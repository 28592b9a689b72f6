\* Two instances that never die; a subscription is added during the day.
CONSTANTS
  h1 = h1  h2 = h2  s1 = s1  s2 = s2  c1 = c1  c2 = c2  i1 = i1  i2 = i2
  Household = {h1}
  Sub <- TwoSubs
  SubHome <- SubsOfOne
  Chan = {c1}
  ChanHome <- OneChanHome
  Occ <- SameDay
  Inst = {i1, i2}
  LastDay = 0
  Lead = {1}
  DefaultLead = 1
  AsOf = {}
  MaxAttempts = 3
  Delay <- ShortDelays
  AttemptCap = 5
  Retention = 2
  InitialSubs = {s1}
  EditableSubs = {s2}
  DeletableSubs = {}
  InitialChans = {c1}
  EditableChans = {}
  LosableKeys = {}
  CrashAt = {}
  DbFails = FALSE
  AckLost = FALSE
  Prompt = TRUE
SPECIFICATION Spec
INVARIANTS
  AtMostOneDelivery
