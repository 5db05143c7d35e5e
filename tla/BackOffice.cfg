SPECIFICATION Spec
CONSTANTS
  h1 = h1
  h2 = h2
  e1 = e1
  t1 = t1
  g1 = g1
  d1 = d1
  i1 = i1
  i2 = i2
  MaxEvents = 3
  ClockTimes = {1}
  Columns <- SomeColumns
  People = {"ada", "ann"}
  RoleOf <- AdminAndEmployee
  Handlers = {h1, h2}
  Expenses = {e1}
  Amounts = {1, 2}
  ExpenseLimit = 1
  Tasks = {t1}
  Goals = {g1}
  TypedProgress = {50, 100, 120}
  Folders = {"f1"}
  FolderLists = {{"ann"}}
  Documents = {d1}
  DocumentInputs <- SomePapers
  Invitations = {i1, i2}
  Emails = {"old", "new"}
  Lifetime = 1
  MaxClock = 1
  ClockIsReread = TRUE
  MaxQueue = 2
  MaxBatch = 2
  MaxActions = 2
  MaxCalls = 2
  MaxSyncs = 2
  MaxBoots = 2
  Staff = {"ada", "ann"}
  Tags = {"tag1", "tag2"}
  Capacity = 1
  Devices = {"door", "hall"}
  Pins = {"1111", "2222"}
  Attempts = {h1, h2}
  MaxRevision = 2
  MaxTicks = 2
  MaxTries = 4
CONSTRAINT FewTroubles
SYMMETRY Symmetry
INVARIANTS
  TypeOK
  PackageTellsWhatWasWritten
  RecordsKeepTheirMeaning
  PagesOfferWhatServerDoes
  InvitationsAreHonest
  StoredActionsCanBeDelivered
  TerminalsStayInStep
CHECK_DEADLOCK FALSE
