CONSTANTS
  first = first
  second = second
  alice = alice
  bob = bob
  carol = carol
  acme = acme
  p1 = p1
  None = None
  Requests = {p1, p2}
  Subjects = {alice, bob, carol}
  Attrs = {acme}
  OrgAttr <- MCOrgAttr
  MaxLogins = 3
  MaxFaults = 1
  Replicas = {first, second}
  Ships <- Images
  Arrivals = {q1}
  PreStop = 1
  DrainPeriod = 1
  ShutdownTimeout = 2
  Grace = 5
  MaxBootFaults = 1
  SessionDuration = 4
  TokenLife = 2
  CountdownStart = 1
  MaxSignIns = 3
  MaxTime = 10
  Sockets = {s1, s2, s3}
  Monitored = {t1, t2}
  NoOne = NoOne
  MaxAttempts = 2
  MaxSetups = 3
  MaxOutages = 1
  ItemIds = {1, 2, 3}
  MaxCalls = 3
  MaxOthers = 1
  Rows = {1, 2, 3}
  AskedLimits = {0, 5}
  DefaultLimit = 1
  MaxLimit = 2
  LastTime = 2
  Inputs = {i1, i2, i3}
  FirstInput = i1
  WithinLimits = {i1, i2}
  MaxQuotes = 2
  MaxConfirmations = 2
SPECIFICATION PortalSpec
INVARIANTS
  OneParty
  ColleaguesShareOrg
  OneWallet
  SeenThrough
  MigratedOnce
  NothingRefused
  GraceGiven
  OneSocket
  ShownIsStored
  SpinnerStops
  NoRowTwice
  AllShown
PROPERTIES
  AnswersFade
  EndsWithSession
  NeverReplaced
  MonitorReconnects
  ReplicaServes
CHECK_DEADLOCK FALSE
