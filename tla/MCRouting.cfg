SPECIFICATION FairSpec
CONSTANTS
  h1 = h1
  h2 = h2
  u1 = u1
  Helper = {h1, h2}
  Main = Main
  NoBot = NoBot
  VNode = {1, 2}
  Top = 8
  Point <- MCPoint
  Key <- MCKey
  User = {u1}
  Process = {p1, p2}
  MaxFaults = 1
INVARIANTS TypeOK ReverseExact DurableWasRouted
PROPERTIES OffPeakBringsHome Served
