SPECIFICATION FairSpec
CONSTANTS
  Kinds = {"subscriber", "widget", "page"}
  Troubles = 0
  Underway = 1
  AtOnce = 1
CHECK_DEADLOCK FALSE
PROPERTIES
  AdminDecisionReaches
