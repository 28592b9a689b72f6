\* Two households; a run may die once the outbox row is open, secrets come and go.
CONSTANTS
  h1 = h1  h2 = h2  s1 = s1  s2 = s2  c1 = c1  c2 = c2  i1 = i1  i2 = i2
  Household <- TwoHomes
  Sub <- TwoSubs
  SubHome <- SubPerHome
  Chan = {c1, c2}
  ChanHome <- ChanPerHome
  Occ <- SameDay
  Inst = {i1, i2}
  LastDay = 0
  Lead = {1}
  DefaultLead = 1
  AsOf = {}
  MaxAttempts = 3
  Delay <- ShortDelays
  AttemptCap = 5
  Retention = 2
  InitialSubs = {s1, s2}
  EditableSubs = {}
  DeletableSubs = {}
  InitialChans = {c1, c2}
  EditableChans = {}
  LosableKeys = {c1}
  CrashAt <- AfterOpen
  DbFails = FALSE
  AckLost = TRUE
  Prompt = TRUE
SYMMETRY InstSymmetry
SPECIFICATION Spec
INVARIANTS
  OwedToItsHousehold
  RetryPace
