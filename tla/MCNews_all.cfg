SPECIFICATION CleanedSpec
CONSTANTS
  Kinds = {"subscriber", "widget", "page", "caller", "owner", "admin"}
  Troubles = 1
  Underway = 1
  AtOnce = 2
CHECK_DEADLOCK FALSE
INVARIANTS
  TypeOK
  ToldWasTrue
  SubscriberIsCurrent
PROPERTIES
  DecidedScreenStays
  NewsReaches
  
  CacheCatchesUp
