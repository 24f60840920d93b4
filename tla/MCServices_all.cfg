SPECIFICATION ServicesSpec
CONSTANTS
  b1 = b1
  b2 = b2
  s1 = s1
  s2 = s2
  NoBank = NoBank
  Banks = {b1, b2}
  Selections = {s1, s2}
  Amounts = {1, 2}
  Limit <- Limits
  MaxChanges = 2
  RedisFaults = TRUE
  h1 = h1
  j1 = j1
  j2 = j2
  c1 = c1
  c2 = c2
  Nobody = Nobody
  Webhooks = {h1}
  Jobs = {j1, j2}
  Callers = {c1, c2}
  Attempts = 2
  Faults = TRUE
  Crashes = TRUE
  Null = Null
  Collections = {1, 2}
  Books <- MCBooks
  MaxHistory = 2
  Troubles = 2
CHECK_DEADLOCK FALSE
INVARIANTS
  NotRefusedWithRoom
  SentWasReceived
PROPERTIES
  LeastWaste
  SelectionEnds
  SentIsFinal
  PendingSettles
  MetricsFollow
  ProbesFollow
