SPECIFICATION MCSpec
CONSTANTS
  u1 = u1
  u2 = u2
  n1 = n1
  n2 = n2
  n3 = n3
  a = a
  s1 = s1
  s2 = s2
  Update = {u1, u2}
  Notice = {n1, n2, n3}
  Job = {u1, u2, n1, n2, n3}
  Urgent = {u2}
  User = {a}
  From <- MCFrom
  Worker = {w1, w2}
  Shard = {s1, s2}
  ShardOf <- MCShardOf
  MaxTries = 3
  Floor = 1
  Seed = 1
  Ceiling = 0
  BudgetBound = 2
  MaxFaults = 2
  Dead = Dead
  None = None
  NoJob = NoJob
INVARIANTS TypeOK LockProtects OkMeansDelivered ChatOrder
PROPERTIES KeepsContract ConfirmedAreHandled CallsEnd
CHECK_DEADLOCK FALSE
