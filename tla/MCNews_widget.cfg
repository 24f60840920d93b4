SPECIFICATION FairSpec
CONSTANTS
  Kinds = {"widget"}
  Troubles = 0
  Underway = 1
  AtOnce = 1
CHECK_DEADLOCK FALSE
PROPERTIES
  WidgetIsTold
