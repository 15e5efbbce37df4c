SPECIFICATION MCSpec
CONSTANTS
  u1 = u1
  u2 = u2
  u3 = u3
  anna = anna
  behzad = behzad
  w1 = w1
  w2 = w2
  User = {u1, u2, u3}
  Nobody = Nobody
  Process = {p1, p2}
  Instance = {i1, i2}
  Gift = 2
  MaxMoves = 2
  MaxFaults = 1
  Account = {1, 2, 3}
  Message = {1}
  Scheduler = {s1, s2}
  BatchSize = 2
  MaxCrashes = 1
  Player = {anna, behzad}
  NoPlayer = NoPlayer
  Worker = {w1, w2}
  Game = {1, 2}
  Cell = {1, 2, 3}
  Line <- MCLine
INVARIANTS RewardsOnce CoinsAccounted NoFreeLetter BroadcastReachesAll GamesFair FailedUnplayed
PROPERTIES NewsFollows BroadcastEnds OverStaysOver OrphansEnd
CHECK_DEADLOCK FALSE
