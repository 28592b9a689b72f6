\* Two instances race, the operator replays dates; nothing fails but sends.
CONSTANTS
  h1 = h1  h2 = h2  s1 = s1  s2 = s2  c1 = c1  c2 = c2  i1 = i1  i2 = i2
  Household = {h1}
  Sub <- TwoSubs
  SubHome <- SubsOfOne
  Chan = {c1}
  ChanHome <- OneChanHome
  Occ <- TwoDays
  Inst = {i1, i2}
  LastDay = 1
  Lead = {1}
  DefaultLead = 1
  AsOf = {0, 1}
  MaxAttempts = 3
  Delay <- ShortDelays
  AttemptCap = 5
  Retention = 2
  InitialSubs = {s1, s2}
  EditableSubs = {}
  DeletableSubs = {}
  InitialChans = {}
  EditableChans = {c1}
  LosableKeys = {}
  CrashAt = {}
  DbFails = FALSE
  AckLost = FALSE
  Prompt = TRUE
SYMMETRY InstSymmetry
SPECIFICATION Spec
INVARIANTS
  DeliveredOnce
  AttemptsBounded
