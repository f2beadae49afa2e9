SPECIFICATION Spec
CONSTANTS
  i1 = i1
  half = half
  odd = odd
  dust = dust
  c1 = c1
  c2 = c2
  c3 = c3
  c4 = c4
  c5 = c5
  c6 = c6
  Issuances = {i1}
  Redemptions = {half}
  Calls = {c1}
  Gross <- MCGross
  Amount <- MCAmount
  Task <- MCTask
  IssuanceBps = 2500
  RedemptionBps = 2500
  Deposited = 4
INVARIANTS
  PegExact
