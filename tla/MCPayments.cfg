SPECIFICATION FairSpec
CONSTANTS
  Payment = {p1}
  Authority = {a1, a2}
  Worker = {w1}
  Http = {h1, h2, h3}
  Scheduler = {s1}
  MaxFailures = 1
  None = None
INVARIANTS TypeOK CardOnce GatewayPaidFor SuccessIsCredited
           CreditPerRequest
PROPERTY OpenPaymentEnds
CHECK_DEADLOCK FALSE
