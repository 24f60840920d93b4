SPECIFICATION FairPaymentSpec
CONSTANTS
  p1 = p1
  p2 = p2
  b1 = b1
  w1 = w1
  w2 = w2
  Nobody = Nobody
  Payments = {p1}
  Banks = {b1}
  Workers = {w1}
  Amount <- OneEach
  Limit <- Limit1
  SlowAt <- NeverSlow
  Faults = FALSE
  Crashes = FALSE
  Handlers = {"create", "confirm", "timeout", "expire", "sweep"}
PROPERTIES
  CollateralReturns
