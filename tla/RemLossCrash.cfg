\* A run may die anywhere, one instance, one occurrence a day.
CONSTANTS
  h1 = h1  h2 = h2  s1 = s1  s2 = s2  c1 = c1  c2 = c2  i1 = i1  i2 = i2
  Household = {h1}
  Sub <- OneSub
  SubHome <- OneSubHome
  Chan = {c1}
  ChanHome <- OneChanHome
  Occ <- OnePerDay
  Inst = {i1}
  LastDay = 1
  Lead = {1}
  DefaultLead = 1
  AsOf = {}
  MaxAttempts = 3
  Delay <- ShortDelays
  AttemptCap = 5
  Retention = 2
  InitialSubs = {s1}
  EditableSubs = {}
  DeletableSubs = {}
  InitialChans = {c1}
  EditableChans = {}
  LosableKeys = {}
  CrashAt <- Point
  DbFails = FALSE
  AckLost = FALSE
  Prompt = TRUE
SPECIFICATION Spec
INVARIANTS
  NoSilentLoss
