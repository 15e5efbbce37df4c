SPECIFICATION Spec
CONSTANTS
  Payment = {p1}
  Authority = {a1}
  Worker = {w1}
  Http = {h1}
  Scheduler = {s1}
  MaxFailures = 0
  None = None
PROPERTY NoSecondCredit
CHECK_DEADLOCK FALSE
