\* Slow runs, fair scheduling, no crash: everything owed is settled.
CONSTANTS
  h1 = h1  h2 = h2  s1 = s1  s2 = s2  c1 = c1  c2 = c2  i1 = i1  i2 = i2
  Household = {h1}
  Sub <- OneSub
  SubHome <- OneSubHome
  Chan = {c1}
  ChanHome <- OneChanHome
  Occ <- OnePerDay
  Inst = {i1, i2}
  LastDay = 1
  Lead = {1}
  DefaultLead = 1
  AsOf = {}
  MaxAttempts = 2
  Delay <- OneDelay
  AttemptCap = 3
  Retention = 1
  InitialSubs = {s1}
  EditableSubs = {}
  DeletableSubs = {}
  InitialChans = {c1}
  EditableChans = {c1}
  LosableKeys = {c1}
  CrashAt = {}
  DbFails = FALSE
  AckLost = FALSE
  Prompt = FALSE
SPECIFICATION FairSpec
PROPERTIES
  EverythingSettles
