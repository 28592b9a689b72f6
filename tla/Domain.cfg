\* Every edit, request, change and fault is bounded: the system stops when they are spent.
CHECK_DEADLOCK FALSE
SPECIFICATION Spec
CONSTANTS
  None = None
  Unset = Unset
  Unprocessable = Unprocessable
  Entities = {1, 2}
  Seeds = {{}, {1, 2}}
  Writers = {1, 2}
  Retention = 1
  MaxTime = 4
  MaxVersion = 3
  PageSize = 1
  MaxBreaks = 1
  Flushers = {1, 2}
  MaxEdits = 3
  MaxFailures = 2
  FirstYear = 2024
  LastYear = 2025
  MaxU32 = 60
  MaxSteps = 50
  MaxWindow = 31
  NextDueQueries <- MCNextDueQueries
  UpcomingQueries <- MCUpcomingQueries
  ReminderQueries <- MCReminderQueries
  Currencies = {"EUR", "USD", "JPY"}
  Sources <- MCSources
  Refreshers = {1, 2}
  MaxRefreshes = 2
  Requests <- MCRequests
  Grain = 7200
  Decimals <- MCDecimals
  MaxMonths = 3
  StatQueries <- MCStatQueries
  Space = 1
  Folding <- MCFolding
  ListQueries <- MCListQueries
  Connections = {1, 2}
  Environments <- MCEnvironments
  WebRequests <- MCWebRequests
INVARIANTS
  PagesTile
  DeletionsTold
  CursorCovers
  EditsKept
  SendsExplained
  NextDueIsFirst
  ScheduleIsExact
  RemindedOnce
  ConversionsAreExact
  StatisticsAreExact
  ListIsAsAsked
  CutOnlyOverdue
  ServedAsConfigured
PROPERTIES
  ImplementsReplica
  SignalStops
