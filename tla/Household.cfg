\* Every request, test, job, write and fault is bounded: the system stops when they are spent.
CHECK_DEADLOCK FALSE
SPECIFICATION Spec
CONSTANTS
  ann = ann
  bob = bob
  cyd = cyd
  old = old
  new1 = new1
  new2 = new2
  bad = bad
  short = short
  p1 = p1
  p2 = p2
  t0 = t0
  t1 = t1
  t2 = t2
  tb = tb
  d0 = d0
  d1 = d1
  ip = ip
  h1 = h1
  h2 = h2
  ch1 = ch1
  ch2 = ch2
  c1 = c1
  c2 = c2
  c3 = c3
  y1 = y1
  m1 = m1
  s1 = s1
  s2 = s2
  None = None
  NoOne = NoOne
  NoOwner = NoOwner
  Nothing = Nothing
  NotAnId = NotAnId
  Blank = Blank
  TicksPerSecond = 1
  Emails = {ann, bob, cyd}
  Passwords = {old, new1, new2, bad, short}
  Procs = {p1, p2}
  Tokens = {t0, t1, t2, tb}
  Devices = {d0, d1}
  Requests <- MCRequests
  TooShort = {short}
  Compromised = {}
  Languages = {"en", "fr"}
  InitialAccounts <- MCAccounts
  InitialSessions <- MCSessions
  InitialDevices <- MCDevices
  MaxAttempts = 1
  LoginWindow = 1
  IdleTtl = 1
  MaxClock = 1
  MaxServed = 3
  MaxFaults = 1
  Homes = {h1, h2}
  ChannelIds = {ch1, ch2}
  TestProcs = {p1, p2}
  CipherKeys = {"k1", "k2"}
  Wanted <- MCWanted
  OwnerLanguage <- MCOwnerLanguage
  Resolutions <- MCResolutions
  AskedForms <- MCAskedForms
  MaxTests = 1
  TestWindow = 1
  MaxInstant = 2
  MaxChannelOps = 2
  MaxTestsAsked = 3
  MaxOutages = 1
  CategoryIds = {c1, c2, c3}
  PayerIds = {y1}
  MethodIds = {m1}
  SubscriptionIds = {s1, s2}
  Owners = {h1, h2}
  Names = {"a", "b"}
  Supported = {"EUR", "USD"}
  FirstCurrency = "EUR"
  FirstRows <- MCRows
  Bundles <- MCBundles
  Jobs = {p1, p2}
  MaxWrites = 1
  MaxJobs = 2
  MaxStops = 1
SYMMETRY Alike
INVARIANTS
  HouseholdTypeOK
  AccessEnds
  FailuresBounded
  ConfigurationKept
  TestsLimited
  AcceptedFormsWork
  HeldReferencesStay
PROPERTIES
  OnlyByItsOwner
  TransfersKeep
