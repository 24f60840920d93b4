SPECIFICATION Spec
CONSTANTS
  p1 = p1
  p2 = p2
  p3 = p3
  b1 = b1
  b2 = b2
  w1 = w1
  w2 = w2
  Nobody = Nobody
  Payments = {p1, p2, p3}
  Banks = {b1}
  Workers = {w1, w2}
  Amount <- SmallAmounts
  Limit <- Limit3
  SlowAt <- NeverSlow
  Faults = TRUE
  Crashes = TRUE
INVARIANTS
  AccountingExact
  NoOvercommit
  StatusTellsCredit
SYMMETRY Symmetry
