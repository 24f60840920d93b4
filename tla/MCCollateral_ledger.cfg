SPECIFICATION SerialSpec
CONSTANTS
  p1 = p1
  p2 = p2
  p3 = p3
  b1 = b1
  b2 = b2
  w1 = w1
  w2 = w2
  Nobody = Nobody
  Payments = {p1, p2}
  Banks = {b1, b2}
  Workers = {w1, w2}
  Amount <- SmallAmounts
  Limit <- Limit2
  SlowAt <- NeverSlow
  Faults = TRUE
  Crashes = FALSE
PROPERTIES
  LedgerSpec
