SPECIFICATION PartsSpec
CONSTANTS
  Null = Null
  Nobody = Nobody
  Nothing = Nothing
  root = root
  e1 = e1
  p1 = p1
  p2 = p2
  Collections = {1, 2}
  Books <- MCBooks
  MaxHistory = 2
  Troubles = 2
  Requests = {r1, r2}
  Emails = {e1, e2}
  Seeds = {root}
  SeedUsers <- MCSeeds
  Changes = 1
  Objects = {1, 2, 3, 4, 5, 6}
  MaxRules = 4
  Matches = {m1, m2}
  Imports = 3
  Presses = 2
  Payments = {p1, p2}
  Today = {p1}
  Admins = {a1, a2}
  Batches <- MCBatches
  Refusals = 1
  Others = 2
  MaxVersion = 2
  Writes = 2
  o1 = o1
  mail = mail
  phone = phone
  ip = ip
  Orders = {o1}
  Identifiers = {mail, phone}
  Addresses = {ip}
  Baskets <- MCBaskets
  Pasts <- MCPasts
  MaxRetries = 1
  PerHour = 1
  PerDay = 2
  AmountHour = 20000
  AmountDay = 30000
  MinHistory = 3
  MinAmount = 1000
  MaxAmount = 5000000
  PlatformRate = 150
  PspRate = 50
  Short = 0
  Hour = 0
  Day = 1
  MaxNow = 1
  Acts = 2
  Mishaps = 1
  AtOnce = 2
CHECK_DEADLOCK FALSE
INVARIANTS
  TypeOK
  DoneWasAllowed
  SavedStaysFilled
  SelectedIsShown
  StatsAddUp
  ApprovedIsOwn
  OnlineDraws
  VisitedDrawsOffline
  ListedIsRefused
  OnlyListedIsBlocked
  OverrunBounded
  TwiceOnlyWhenLost
PROPERTIES
  ResultsStay
