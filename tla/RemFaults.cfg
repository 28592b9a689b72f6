\* Everything may happen: slow runs, crashes, failing statements, edits, lost keys.
CONSTANTS
  h1 = h1  h2 = h2  s1 = s1  s2 = s2  c1 = c1  c2 = c2  i1 = i1  i2 = i2
  Household = {h1}
  Sub <- TwoSubs
  SubHome <- SubsOfOne
  Chan = {c1}
  ChanHome <- OneChanHome
  Occ <- SameDay
  Inst = {i1, i2}
  LastDay = 0
  Lead = {1, 2}
  DefaultLead = 1
  AsOf = {}
  MaxAttempts = 2
  Delay <- OneDelay
  AttemptCap = 3
  Retention = 1
  InitialSubs = {s1}
  EditableSubs = {s2}
  DeletableSubs = {s2}
  InitialChans = {c1}
  EditableChans = {c1}
  LosableKeys = {}
  CrashAt <- Point
  DbFails = TRUE
  AckLost = TRUE
  Prompt = FALSE
SYMMETRY InstSymmetry
SPECIFICATION Spec
INVARIANTS
  DeliveryInvariant
PROPERTIES
  AbandonmentFinal
  AbandonmentVisible
