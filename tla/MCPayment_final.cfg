SPECIFICATION PaymentSpec
CONSTANTS
  p1 = p1
  p2 = p2
  b1 = b1
  w1 = w1
  w2 = w2
  Nobody = Nobody
  Payments = {p1}
  Banks = {b1}
  Workers = {w1, w2}
  Amount <- OneEach
  Limit <- Limit1
  SlowAt <- NeverSlow
  Faults = FALSE
  Crashes = FALSE
  Handlers = {"create", "approve", "expire"}
PROPERTIES
  FinalStays
