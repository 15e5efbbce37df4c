--------------------------- MODULE PaymentsProofs ---------------------------
(***************************************************************************)
(* Proofs about Payments, for any number of payments, authorities,         *)
(* handlers and schedulers: type correctness and the four statements on    *)
(* what a payment has been credited for.                                   *)
(***************************************************************************)
EXTENDS Payments, FiniteSetTheorems, TLAPS

-----------------------------------------------------------------------------
(* The inductive invariant.                                                *)

\* The column credited tells the number of approvals.
Flagged == \A p \in Payment : credits[p].card = IF credited[p] THEN 1 ELSE 0

\* An authority is requested once, and whoever holds it (the row, a handler
\* in progress) got it from the payment it was requested for.  A row that says
\* move_gateway has one.
Requested ==
  /\ \A a \in Authority : gate[a] = "unused" => owner[a] = None
  /\ \A p \in Payment : status[p] = "move_gateway" => authority[p] # None
  /\ \A p \in Payment : authority[p] # None => owner[authority[p]] = p
  /\ \A h \in Http : http[h].auth # None => owner[http[h].auth] = http[h].pay

\* A handler is about to credit only after the gateway's confirmation.
Confirmed ==
  \A h \in Http : http[h].pc = "success" => gate[http[h].auth] = "verified"

IndInv == /\ TypeOK
          /\ Flagged
          /\ Requested
          /\ Confirmed
          /\ GatewayPaidFor
          /\ SuccessIsCredited

-----------------------------------------------------------------------------
(* The shape of a handler.                                                 *)

LEMMA NotNone ==
    /\ \A p \in Payment : p # None
    /\ \A a \in Authority : a # None
BY PaymentsAssumption

\* What a handler in progress holds.
LEMMA HandlerShape ==
    ASSUME TypeOK, NEW h \in Http
    PROVE  \/ /\ http[h].pc = "idle"
              /\ http[h].auth = None
           \/ /\ http[h].pc = "request"
              /\ http[h].pay \in Payment
              /\ http[h].auth = None
           \/ /\ http[h].pc \in {"verify", "success"}
              /\ http[h].pay \in Payment
              /\ http[h].auth \in Authority
<1>1. http[h] \in Http_
  BY DEF TypeOK
<1>2. CASE http[h] = IdleHttp
  BY <1>2 DEF IdleHttp, Busy
<1>3. CASE http[h] \in [pc : {"request"}, pay : Payment, auth : {None}]
  BY <1>3
<1>4. CASE http[h] \in [pc : {"verify", "success"}, pay : Payment,
                        auth : Authority]
  BY <1>4
<1> QED
  BY <1>1, <1>2, <1>3, <1>4 DEF Http_

\* A failure is counted up to the bound.
LEMMA FailureTyped ==
    ASSUME failures \in 0..MaxFailures, UNCHANGED failures \/ Failure
    PROVE  failures' \in 0..MaxFailures
BY PaymentsAssumption DEF Failure

\* Every record a step stores is the record of a handler.
LEMMA BusyTyped ==
    /\ IdleHttp \in Http_
    /\ \A p \in Payment : Busy("request", p, None) \in Http_
    /\ \A p \in Payment, a \in Authority, c \in {"verify", "success"} :
         Busy(c, p, a) \in Http_
BY DEF Http_, Busy

-----------------------------------------------------------------------------
(* One lemma per party.  In each, a conjunct of the invariant that mentions *)
(* only variables the step leaves alone is kept by substitution.            *)

\* The buyer and the administrators: the gateway and its handlers rest.
LEMMA IndBot ==
    ASSUME IndInv, Buyer \/ Admin
    PROVE  IndInv'
<1> USE DEF IndInv, TypeOK, Flagged, Requested, Confirmed, GatewayPaidFor,
            SuccessIsCredited
<1>1. ASSUME NEW p \in Payment, BuyCoin(p) PROVE IndInv'
  BY <1>1 DEF BuyCoin, SetStatus, gateway, Status, Open
<1>2. ASSUME NEW w \in Worker, NEW p \in Payment, StartCard(w, p) PROVE IndInv'
  BY <1>2 DEF StartCard, row, gateway
<1>3. ASSUME NEW p \in Payment, SubmitReceipt(p) PROVE IndInv'
  BY <1>3 DEF SubmitReceipt, SetStatus, gateway, Status, Open
<1>4. ASSUME NEW w \in Worker, WriteCard(w) PROVE IndInv'
  <2>1. card[w] \in Payment
    BY <1>4 DEF WriteCard
  <2>2. failures' \in 0..MaxFailures
    BY <1>4, FailureTyped DEF WriteCard
  <2>3. UNCHANGED <<status, age>> \/ SetStatus(card[w], "card_receipt")
    BY <1>4 DEF WriteCard
  <2>4. /\ card' = [card EXCEPT ![w] = None]
        /\ UNCHANGED <<authority, credited, credits, gate, owner, http, batch>>
    BY <1>4 DEF WriteCard, gateway
  <2>5. /\ status' \in [Payment -> Status]
        /\ age' \in [Payment -> 0..2]
        /\ \A p \in Payment : status'[p] \in {"success", "move_gateway"} => status'[p] = status[p]
    <3>1. CASE UNCHANGED <<status, age>>
      BY <3>1
    <3>2. CASE SetStatus(card[w], "card_receipt")
      BY <2>1, <3>2 DEF SetStatus, Status
    <3> QED
      BY <2>3, <3>1, <3>2
  <2>6. card' \in [Worker -> Payment \cup {None}]
    BY <2>4
  <2>7. TypeOK'
    BY <2>2, <2>4, <2>5, <2>6
  <2> QED
    BY <2>4, <2>5, <2>7
<1>5. ASSUME NEW p \in Payment, Reopen(p) PROVE IndInv'
  BY <1>5 DEF Reopen, gateway, Status, Open
<1>6. ASSUME NEW p \in Payment, Reject(p) PROVE IndInv'
  BY <1>6 DEF Reject, SetStatus, gateway, Status, Open
<1>7. ASSUME NEW p \in Payment, Approve(p) PROVE IndInv'
  BY <1>7 DEF Approve, SetStatus, gateway, Status, Open
<1> QED
  BY <1>1, <1>2, <1>3, <1>4, <1>5, <1>6, <1>7 DEF Buyer, Admin

\* The scheduler and the clock.
LEMMA IndExpiry ==
    ASSUME IndInv,
           \/ \E s \in Scheduler : SelectStale(s) \/ ExpireNext(s)
           \/ \E p \in Payment : GrowOld(p)
    PROVE  IndInv'
<1> USE DEF IndInv, TypeOK, Flagged, Requested, Confirmed, GatewayPaidFor,
            SuccessIsCredited
<1>1. ASSUME NEW s \in Scheduler, SelectStale(s) PROVE IndInv'
  BY <1>1 DEF SelectStale, row, gateway
<1>2. ASSUME NEW s \in Scheduler, ExpireNext(s) PROVE IndInv'
  <2>1. PICK p \in batch[s] :
          /\ batch' = [batch EXCEPT ![s] = @ \ {p}]
          /\ \/ /\ status' = [status EXCEPT ![p] = "expired"]
                /\ failures' = failures
             \/ /\ Failure
                /\ status' = status
    BY <1>2 DEF ExpireNext
  <2>2. UNCHANGED <<authority, credited, age, credits, gate, owner, http, card>>
    BY <1>2 DEF ExpireNext, gateway
  <2>3. failures' \in 0..MaxFailures
    BY <2>1, FailureTyped
  <2>4. TypeOK'
    BY <2>1, <2>2, <2>3 DEF Status
  <2> QED
    BY <2>1, <2>2, <2>4
<1>3. ASSUME NEW p \in Payment, GrowOld(p) PROVE IndInv'
  BY <1>3 DEF GrowOld, gateway
<1> QED
  BY <1>1, <1>2, <1>3

\* A handler that reads the row or the gateway: the row rests.
LEMMA IndReads ==
    ASSUME IndInv, NEW h \in Http,
           \/ \E p \in Payment : Request(h, p) \/ ReVerifyPayment(h, p)
           \/ \E a \in Authority : Verify(h, a)
    PROVE  IndInv'
<1> USE NotNone, BusyTyped
<1> USE DEF IndInv, TypeOK, Flagged, Requested, Confirmed, GatewayPaidFor,
            SuccessIsCredited
<1>1. ASSUME NEW p \in Payment, Request(h, p) PROVE IndInv'
  <2>1. http' = [http EXCEPT ![h] = Busy("request", p, None)]
    BY <1>1 DEF Request
  <2>2. Busy("request", p, None) \in Http_
    OBVIOUS
  <2>3. /\ Busy("request", p, None).auth = None
        /\ Busy("request", p, None).pc = "request"
    BY DEF Busy
  <2> HIDE DEF Busy, Http_
  <2> QED
    BY <1>1, <2>1, <2>2, <2>3 DEF Request, row, gateway
<1>2. ASSUME NEW p \in Payment, NEW a \in Authority,
             authority[p] = a,
             http' = [http EXCEPT ![h] = Busy("verify", p, a)],
             UNCHANGED <<row, gateway, card, batch, failures>>
      PROVE  IndInv'
  <2>1. Busy("verify", p, a) \in Http_
    OBVIOUS
  <2>2. /\ Busy("verify", p, a).auth = a
        /\ Busy("verify", p, a).pay = p
        /\ Busy("verify", p, a).pc = "verify"
    BY DEF Busy
  <2>3. owner[a] = p
    BY <1>2
  <2> HIDE DEF Busy, Http_
  <2> QED
    BY <1>2, <2>1, <2>2, <2>3 DEF row, gateway
<1>3. ASSUME NEW p \in Payment, ReVerifyPayment(h, p) PROVE IndInv'
  <2>1. authority[p] \in Authority
    BY <1>3 DEF ReVerifyPayment
  <2> HIDE DEF IndInv
  <2> QED
    BY <1>2, <1>3, <2>1 DEF ReVerifyPayment
<1>4. ASSUME NEW a \in Authority, Verify(h, a) PROVE IndInv'
  <2> HIDE DEF IndInv
  <2> QED
    BY <1>2, <1>4 DEF Verify
<1> QED
  BY <1>1, <1>3, <1>4

\* A handler that ends without a trace.
LEMMA IndEnds ==
    ASSUME IndInv, NEW h \in Http, Refuse(h) \/ Fail(h)
    PROVE  IndInv'
<1> USE DEF IndInv, TypeOK, Flagged, Requested, Confirmed, GatewayPaidFor,
            SuccessIsCredited
<1>1. /\ http' = [http EXCEPT ![h] = IdleHttp]
      /\ UNCHANGED <<row, gateway, card, batch>>
      /\ UNCHANGED failures \/ Failure
  BY DEF Refuse, Fail, Rest
<1>2. failures' \in 0..MaxFailures
  BY <1>1, FailureTyped
<1>3. IdleHttp \in Http_ /\ IdleHttp.auth = None /\ IdleHttp.pc = "idle"
  BY BusyTyped DEF IdleHttp, Busy
<1> HIDE DEF Http_, IdleHttp
<1> QED
  BY <1>1, <1>2, <1>3 DEF row, gateway

\* Request stores a new authority: nobody holds it yet.
LEMMA IndStore ==
    ASSUME IndInv, NEW h \in Http, NEW a \in Authority, StoreAuthority(h, a)
    PROVE  IndInv'
<1> DEFINE p == http[h].pay
<1>1. http[h].pc = "request" /\ p \in Payment
  BY HandlerShape DEF StoreAuthority, IndInv
<1>2. /\ gate[a] = "unused"
      /\ gate' = [gate EXCEPT ![a] = "issued"]
      /\ owner' = [owner EXCEPT ![a] = p]
      /\ http' = [http EXCEPT ![h] = IdleHttp]
      /\ UNCHANGED <<credited, credits, card, batch>>
      /\ UNCHANGED failures \/ Failure
      /\ \/ /\ status' = [status EXCEPT ![p] = "move_gateway"]
            /\ age' = [age EXCEPT ![p] = 0]
            /\ authority' = [authority EXCEPT ![p] = a]
         \/ UNCHANGED <<status, authority, age>>
  BY DEF StoreAuthority, Rest, SetStatus
<1>3. IdleHttp \in Http_ /\ IdleHttp.auth = None /\ IdleHttp.pc = "idle"
  BY BusyTyped DEF IdleHttp, Busy
<1>4. failures' \in 0..MaxFailures
  BY <1>2, FailureTyped DEF IndInv, TypeOK
<1> HIDE DEF p
<1>5. TypeOK'
  <2>1. /\ status' \in [Payment -> Status]
        /\ authority' \in [Payment -> Authority \cup {None}]
        /\ age' \in [Payment -> 0..2]
    <3>1. CASE UNCHANGED <<status, authority, age>>
      BY <3>1 DEF IndInv, TypeOK
    <3>2. CASE /\ status' = [status EXCEPT ![p] = "move_gateway"]
               /\ age' = [age EXCEPT ![p] = 0]
               /\ authority' = [authority EXCEPT ![p] = a]
      BY <1>1, <3>2 DEF IndInv, TypeOK, Status, Open
    <3> QED
      BY <1>2, <3>1, <3>2
  <2>2. /\ gate' \in [Authority -> Gate]
        /\ owner' \in [Authority -> Payment \cup {None}]
    BY <1>1, <1>2 DEF IndInv, TypeOK, Gate
  <2>3. http' \in [Http -> Http_]
    BY <1>2, <1>3 DEF IndInv, TypeOK
  <2> QED
    BY <1>2, <1>4, <2>1, <2>2, <2>3 DEF IndInv, TypeOK
<1>6. Requested'
  <2>1. \A b \in Authority : gate'[b] = "unused" => owner'[b] = None
    BY <1>2 DEF IndInv, Requested, TypeOK
  <2>2. \A q \in Payment : authority'[q] # None => owner'[authority'[q]] = q
    BY <1>1, <1>2, NotNone DEF IndInv, Requested, TypeOK
  <2>3. \A g \in Http :
          http'[g].auth # None => owner'[http'[g].auth] = http'[g].pay
    <3>1. SUFFICES ASSUME NEW g \in Http, http'[g].auth # None
                   PROVE  owner'[http'[g].auth] = http'[g].pay
      OBVIOUS
    <3>2. http'[g] = http[g]
      BY <1>2, <1>3, <3>1 DEF IndInv, TypeOK
    <3>3. http[g].auth \in Authority /\ http[g].pay \in Payment
      BY <3>1, <3>2, HandlerShape DEF IndInv
    <3>4. owner[http[g].auth] = http[g].pay
      BY <3>1, <3>2 DEF IndInv, Requested
    <3>5. http[g].auth # a
      BY <1>2, <3>3, <3>4, NotNone DEF IndInv, Requested
    <3> QED
      BY <1>2, <3>2, <3>3, <3>4, <3>5 DEF IndInv, TypeOK
  <2>4. \A q \in Payment : status'[q] = "move_gateway" => authority'[q] # None
    BY <1>1, <1>2, NotNone DEF IndInv, Requested, TypeOK
  <2> QED
    BY <2>1, <2>2, <2>3, <2>4 DEF Requested
<1>7. Confirmed'
  BY <1>2, <1>3 DEF IndInv, TypeOK, Confirmed
<1>8. GatewayPaidFor'
  <2>1. \A b \in Authority : gate[b] = "verified" =>
          owner'[b] = owner[b] /\ gate'[b] = "verified"
    BY <1>2 DEF IndInv, TypeOK
  <2> QED
    BY <1>2, <2>1 DEF IndInv, GatewayPaidFor
<1>9. Flagged' /\ SuccessIsCredited'
  BY <1>1, <1>2 DEF IndInv, TypeOK, Flagged, SuccessIsCredited
<1> QED
  BY <1>5, <1>6, <1>7, <1>8, <1>9 DEF IndInv

\* The buyer pays, and the gateway confirms: what is verified stays so.
LEMMA IndGateway ==
    ASSUME IndInv,
           \/ \E a \in Authority : Pay(a)
           \/ \E h \in Http : Confirm(h)
    PROVE  IndInv'
<1>1. ASSUME NEW a \in Authority, Pay(a) PROVE IndInv'
  BY <1>1 DEF Pay, row, Gate, IndInv, TypeOK, Flagged, Requested, Confirmed,
              GatewayPaidFor, SuccessIsCredited
<1>2. ASSUME NEW h \in Http, Confirm(h) PROVE IndInv'
  <2> DEFINE p == http[h].pay
             a == http[h].auth
             r == Busy("success", p, a)
  <2>1. p \in Payment /\ a \in Authority /\ http[h].pc = "verify"
    BY <1>2, HandlerShape DEF Confirm, IndInv
  <2>2. owner[a] = p
    BY <2>1, NotNone DEF IndInv, Requested
  <2>3. /\ gate[a] \in {"paid", "verified"}
        /\ gate' = [gate EXCEPT ![a] = "verified"]
        /\ http' = [http EXCEPT ![h] = r]
        /\ UNCHANGED <<row, owner, card, batch, failures>>
    BY <1>2 DEF Confirm
  <2>4. r \in Http_ /\ r.pc = "success" /\ r.pay = p /\ r.auth = a
    <3> HIDE DEF p, a
    <3> QED
      BY <2>1, BusyTyped DEF Busy
  <2> HIDE DEF p, a, r
  <2>5. TypeOK'
    BY <2>3, <2>4 DEF row, Gate, IndInv, TypeOK
  <2>6. Requested'
    BY <2>1, <2>2, <2>3, <2>4 DEF row, IndInv, TypeOK, Requested
  <2>7. Confirmed'
    BY <2>1, <2>3, <2>4, HandlerShape DEF IndInv, TypeOK, Confirmed
  <2>8. GatewayPaidFor'
    BY <2>3 DEF row, IndInv, TypeOK, GatewayPaidFor
  <2>9. Flagged' /\ SuccessIsCredited'
    BY <2>3 DEF row, IndInv, Flagged, SuccessIsCredited
  <2> QED
    BY <2>5, <2>6, <2>7, <2>8, <2>9 DEF IndInv
<1> QED
  BY <1>1, <1>2

\* The transaction of success.
LEMMA IndSuccess ==
    ASSUME IndInv, NEW h \in Http, Success(h)
    PROVE  IndInv'
<1> DEFINE p == http[h].pay
           a == http[h].auth
<1>1. p \in Payment /\ a \in Authority /\ http[h].pc = "success"
  BY HandlerShape DEF Success, IndInv
<1>2. owner[a] = p /\ gate[a] = "verified"
  BY <1>1, NotNone DEF IndInv, Requested, Confirmed
<1>3. /\ http' = [http EXCEPT ![h] = IdleHttp]
      /\ UNCHANGED <<authority, credited, gate, owner, card, batch, failures>>
      /\ \/ /\ status' = [status EXCEPT ![p] = "success"]
            /\ age' = [age EXCEPT ![p] = 0]
            /\ credits' = [credits EXCEPT ![p].gateway = @ + 1]
         \/ UNCHANGED <<status, age, credits>>
  BY DEF Success, Rest, SetStatus, gateway
<1>4. IdleHttp \in Http_ /\ IdleHttp.auth = None /\ IdleHttp.pc = "idle"
  BY BusyTyped DEF IdleHttp, Busy
<1> HIDE DEF p, a
<1>5. /\ credits' \in [Payment -> [card : Nat, gateway : Nat]]
      /\ \A q \in Payment :
           /\ credits'[q].card = credits[q].card
           /\ credits'[q].gateway # credits[q].gateway =>
                q = p /\ credits'[q].gateway > 0
           /\ status'[q] = "move_gateway" => status[q] = "move_gateway"
           /\ status'[q] = "success" =>
                \/ status[q] = "success" /\ credits'[q] = credits[q]
                \/ credits'[q].gateway > 0
  <2>1. CASE UNCHANGED <<status, age, credits>>
    BY <2>1 DEF IndInv, TypeOK
  <2>2. CASE /\ status' = [status EXCEPT ![p] = "success"]
             /\ age' = [age EXCEPT ![p] = 0]
             /\ credits' = [credits EXCEPT ![p].gateway = @ + 1]
    BY <1>1, <2>2 DEF IndInv, TypeOK
  <2> QED
    BY <1>3, <2>1, <2>2
<1>6. TypeOK'
  <2>1. /\ status' \in [Payment -> Status]
        /\ age' \in [Payment -> 0..2]
    BY <1>1, <1>3 DEF IndInv, TypeOK, Status
  <2>2. http' \in [Http -> Http_]
    BY <1>3, <1>4 DEF IndInv, TypeOK
  <2> QED
    BY <1>3, <1>5, <2>1, <2>2 DEF IndInv, TypeOK
<1>7. Requested' /\ Confirmed'
  BY <1>3, <1>4, <1>5 DEF IndInv, TypeOK, Requested, Confirmed
<1>8. GatewayPaidFor'
  BY <1>1, <1>2, <1>3, <1>5 DEF IndInv, GatewayPaidFor
<1>9. Flagged'
  BY <1>3, <1>5 DEF IndInv, Flagged
<1>10. SuccessIsCredited'
  BY <1>5 DEF IndInv, TypeOK, SuccessIsCredited
<1> QED
  BY <1>6, <1>7, <1>8, <1>9, <1>10 DEF IndInv

-----------------------------------------------------------------------------
(* What the gateway handlers have credited is backed by purchases.  The    *)
(* status move_gateway is one credit that may still come, so it is counted *)
(* with those that have come: a request adds a purchase and at most one    *)
(* credit to come, a success turns the one to come into one that came.     *)

ToCome(p) == IF status[p] = "move_gateway" THEN 1 ELSE 0

Backed == \A p \in Payment :
            /\ IsFiniteSet(Purchases(p))
            /\ credits[p].gateway + ToCome(p) <= Cardinality(Purchases(p))

\* A step that requests nothing, credits nothing through the gateway and
\* sends no row there.
Quiet == /\ UNCHANGED owner
         /\ \A p \in Payment :
              /\ credits'[p].gateway = credits[p].gateway
              /\ status'[p] = "move_gateway" => status[p] = "move_gateway"

LEMMA BackedQuiet ==
    ASSUME Backed, TypeOK, Quiet
    PROVE  Backed'
<1>1. SUFFICES ASSUME NEW p \in Payment
               PROVE  /\ IsFiniteSet(Purchases(p)')
                      /\ credits'[p].gateway + ToCome(p)'
                           <= Cardinality(Purchases(p)')
  BY DEF Backed
<1>2. Purchases(p)' = Purchases(p)
  BY DEF Purchases, Quiet
<1>3. IsFiniteSet(Purchases(p)) /\ Cardinality(Purchases(p)) \in Nat
  BY FS_CardinalityType DEF Backed
<1>4. credits[p].gateway \in Nat /\ credits'[p].gateway = credits[p].gateway
  BY DEF TypeOK, Quiet
<1>5. ToCome(p)' <= ToCome(p) /\ ToCome(p) \in Nat /\ ToCome(p)' \in Nat
  BY DEF ToCome, Quiet
<1>6. credits[p].gateway + ToCome(p) <= Cardinality(Purchases(p))
  BY DEF Backed
<1> QED
  BY <1>2, <1>3, <1>4, <1>5, <1>6

\* Nobody but the handlers of the gateway writes move_gateway or credits
\* for it, and of the handlers only the two that store and succeed.
LEMMA QuietSteps ==
    ASSUME TypeOK,
           \/ Buyer
           \/ Admin
           \/ \E a \in Authority : Pay(a)
           \/ \E s \in Scheduler : SelectStale(s) \/ ExpireNext(s)
           \/ \E p \in Payment : GrowOld(p)
           \/ \E h \in Http :
                \/ \E p \in Payment : Request(h, p) \/ ReVerifyPayment(h, p)
                \/ \E a \in Authority : Verify(h, a)
                \/ Confirm(h) \/ Refuse(h) \/ Fail(h)
           \/ UNCHANGED vars
    PROVE  Quiet
<1> USE DEF row, gateway, SetStatus, TypeOK, Quiet
<1>1. CASE Buyer
  <2>1. ASSUME NEW p \in Payment, BuyCoin(p) \/ SubmitReceipt(p) PROVE Quiet
    BY <2>1 DEF BuyCoin, SubmitReceipt
  <2>2. ASSUME NEW w \in Worker, NEW p \in Payment, StartCard(w, p) PROVE Quiet
    BY <2>2 DEF StartCard
  <2>3. ASSUME NEW w \in Worker, WriteCard(w) PROVE Quiet
    BY <2>3 DEF WriteCard
  <2> QED
    BY <1>1, <2>1, <2>2, <2>3 DEF Buyer
<1>2. CASE Admin
  <2>1. ASSUME NEW p \in Payment, Reopen(p) \/ Reject(p) PROVE Quiet
    BY <2>1 DEF Reopen, Reject
  <2>2. ASSUME NEW p \in Payment, Approve(p) PROVE Quiet
    BY <2>2 DEF Approve
  <2> QED
    BY <1>2, <2>1, <2>2 DEF Admin
<1>3. CASE \E a \in Authority : Pay(a)
  BY <1>3 DEF Pay
<1>4. CASE \E s \in Scheduler : SelectStale(s) \/ ExpireNext(s)
  BY <1>4 DEF SelectStale, ExpireNext
<1>5. CASE \E p \in Payment : GrowOld(p)
  BY <1>5 DEF GrowOld
<1>6. ASSUME NEW h \in Http,
             \/ \E p \in Payment : Request(h, p) \/ ReVerifyPayment(h, p)
             \/ \E a \in Authority : Verify(h, a)
             \/ Confirm(h) \/ Refuse(h) \/ Fail(h)
      PROVE  Quiet
  BY <1>6 DEF Request, ReVerifyPayment, Verify, Confirm, Refuse, Fail
<1>7. CASE UNCHANGED vars
  BY <1>7 DEF vars
<1> QED
  BY <1>1, <1>2, <1>3, <1>4, <1>5, <1>6, <1>7

\* The gateway never issues an authority twice, so a request adds a purchase
\* to its payment and to no other.
LEMMA StoreAddsPurchase ==
    ASSUME IndInv, NEW h \in Http, NEW a \in Authority, StoreAuthority(h, a),
           NEW q \in Payment
    PROVE  IF q = http[h].pay
           THEN Purchases(q)' = Purchases(q) \cup {a} /\ a \notin Purchases(q)
           ELSE Purchases(q)' = Purchases(q)
<1>1. owner[a] = None /\ owner' = [owner EXCEPT ![a] = http[h].pay]
  BY DEF StoreAuthority, IndInv, Requested
<1>2. owner \in [Authority -> Payment \cup {None}]
  BY DEF IndInv, TypeOK
<1>3. \A b \in Authority : owner'[b] = IF b = a THEN http[h].pay ELSE owner[b]
  BY <1>1, <1>2
<1>4. q # None
  BY NotNone
<1> QED
  BY <1>1, <1>3, <1>4 DEF Purchases

LEMMA BackedStore ==
    ASSUME IndInv, Backed, NEW h \in Http, NEW a \in Authority,
           StoreAuthority(h, a)
    PROVE  Backed'
<1>1. SUFFICES ASSUME NEW q \in Payment
               PROVE  /\ IsFiniteSet(Purchases(q)')
                      /\ credits'[q].gateway + ToCome(q)'
                           <= Cardinality(Purchases(q)')
  BY DEF Backed
<1>2. /\ IsFiniteSet(Purchases(q)) /\ Cardinality(Purchases(q)) \in Nat
      /\ credits[q].gateway + ToCome(q) <= Cardinality(Purchases(q))
  BY FS_CardinalityType DEF Backed
<1>3. credits' = credits /\ credits[q].gateway \in Nat
  BY DEF StoreAuthority, IndInv, TypeOK
<1>4. ToCome(q) \in 0..1 /\ ToCome(q)' \in 0..1
  BY DEF ToCome
<1>5. CASE q = http[h].pay
  <2>1. Purchases(q)' = Purchases(q) \cup {a} /\ a \notin Purchases(q)
    BY <1>5, StoreAddsPurchase
  <2>2. /\ IsFiniteSet(Purchases(q)')
        /\ Cardinality(Purchases(q)') = Cardinality(Purchases(q)) + 1
    BY <1>2, <2>1, FS_AddElement
  <2> QED
    BY <1>2, <1>3, <1>4, <2>2
<1>6. CASE q # http[h].pay
  <2>1. Purchases(q)' = Purchases(q)
    BY <1>6, StoreAddsPurchase
  <2>2. status'[q] = status[q]
    BY <1>6 DEF StoreAuthority, SetStatus, IndInv, TypeOK
  <2> QED
    BY <1>2, <1>3, <2>1, <2>2 DEF ToCome
<1> QED
  BY <1>5, <1>6

\* A success takes the status it needs away.
LEMMA BackedSuccess ==
    ASSUME IndInv, Backed, NEW h \in Http, Success(h)
    PROVE  Backed'
<1> DEFINE p == http[h].pay
<1>1. CASE status[p] # "move_gateway"
  <2>1. Quiet
    BY <1>1 DEF Success, gateway, Quiet
  <2> QED
    BY <2>1, BackedQuiet DEF IndInv
<1>2. CASE status[p] = "move_gateway"
  <2>1. /\ status' = [status EXCEPT ![p] = "success"]
        /\ credits' = [credits EXCEPT ![p].gateway = @ + 1]
        /\ owner' = owner
    BY <1>2 DEF Success, SetStatus, gateway
  <2>2. SUFFICES ASSUME NEW q \in Payment
                 PROVE  /\ IsFiniteSet(Purchases(q)')
                        /\ credits'[q].gateway + ToCome(q)'
                             <= Cardinality(Purchases(q)')
    BY DEF Backed
  <2>3. /\ IsFiniteSet(Purchases(q)) /\ Cardinality(Purchases(q)) \in Nat
        /\ credits[q].gateway + ToCome(q) <= Cardinality(Purchases(q))
    BY FS_CardinalityType DEF Backed
  <2>4. Purchases(q)' = Purchases(q)
    BY <2>1 DEF Purchases
  <2>5. credits[q].gateway \in Nat
    BY DEF IndInv, TypeOK
  <2>6. credits'[q].gateway + ToCome(q)' = credits[q].gateway + ToCome(q)
    BY <1>2, <2>1, <2>5 DEF ToCome, IndInv, TypeOK
  <2> QED
    BY <2>3, <2>4, <2>6
<1> QED
  BY <1>1, <1>2

LEMMA BackedInit == Init => Backed
<1>1. ASSUME Init, NEW p \in Payment
      PROVE  /\ IsFiniteSet(Purchases(p))
             /\ credits[p].gateway + ToCome(p) <= Cardinality(Purchases(p))
  <2>1. Purchases(p) = {}
    BY <1>1, NotNone DEF Init, Purchases
  <2>2. IsFiniteSet(Purchases(p)) /\ Cardinality(Purchases(p)) = 0
    BY <2>1, FS_EmptySet
  <2> QED
    BY <1>1, <2>2 DEF Init, ToCome
<1> QED
  BY <1>1 DEF Backed

LEMMA BackedNext == IndInv /\ Backed /\ [Next]_vars => Backed'
<1> SUFFICES ASSUME IndInv, Backed, [Next]_vars PROVE Backed'
  OBVIOUS
<1>1. ASSUME NEW h \in Http, NEW a \in Authority, StoreAuthority(h, a)
      PROVE  Backed'
  BY <1>1, BackedStore
<1>2. ASSUME NEW h \in Http, Success(h) PROVE Backed'
  BY <1>2, BackedSuccess
<1>3. CASE Quiet
  BY <1>3, BackedQuiet DEF IndInv
<1> QED
  BY <1>1, <1>2, <1>3, QuietSteps DEF IndInv, Next, Handler

-----------------------------------------------------------------------------
(* The theorems.                                                           *)

LEMMA IndInit == Init => IndInv
<1>1. ASSUME Init PROVE IndInv
  <2>1. IdleHttp \in Http_ /\ IdleHttp.auth = None /\ IdleHttp.pc = "idle"
    BY BusyTyped DEF IdleHttp, Busy
  <2> QED
    BY <1>1, <2>1, PaymentsAssumption
       DEF Init, IndInv, TypeOK, Flagged, Requested, Confirmed, GatewayPaidFor,
           SuccessIsCredited, Status, Gate
<1> QED
  BY <1>1

LEMMA IndNext == IndInv /\ [Next]_vars => IndInv'
<1> SUFFICES ASSUME IndInv, [Next]_vars PROVE IndInv'
  OBVIOUS
<1>1. CASE Buyer \/ Admin
  BY <1>1, IndBot
<1>2. CASE \E a \in Authority : Pay(a)
  BY <1>2, IndGateway
<1>3. ASSUME NEW h \in Http, Handler(h) PROVE IndInv'
  BY <1>3, IndReads, IndEnds, IndStore, IndGateway, IndSuccess DEF Handler
<1>4. CASE \/ \E s \in Scheduler : SelectStale(s) \/ ExpireNext(s)
           \/ \E p \in Payment : GrowOld(p)
  BY <1>4, IndExpiry
<1>5. CASE UNCHANGED vars
  BY <1>5 DEF vars, IndInv, TypeOK, Flagged, Requested, Confirmed,
              GatewayPaidFor, SuccessIsCredited
<1> QED
  BY <1>1, <1>2, <1>3, <1>4, <1>5 DEF Next

\* The invariant holds in every reachable state.
THEOREM Invariant == Spec => []IndInv
<1> QED
  BY IndInit, IndNext, PTL DEF Spec

\* Every state is well typed, for any number of payments and parties.
THEOREM TypeCorrect == Spec => []TypeOK
<1>1. IndInv => TypeOK
  BY DEF IndInv
<1> QED
  BY <1>1, Invariant, PTL

\* No payment is credited twice by the approval of receipts.
THEOREM CardCreditedOnce == Spec => []CardOnce
<1>1. IndInv => CardOnce
  BY DEF IndInv, Flagged, CardOnce
<1> QED
  BY <1>1, Invariant, PTL

\* No payment is credited by the gateway handlers without a confirmed
\* purchase of its own.
THEOREM GatewayCreditIsPaid == Spec => []GatewayPaidFor
<1>1. IndInv => GatewayPaidFor
  BY DEF IndInv
<1> QED
  BY <1>1, Invariant, PTL

\* No payment says success without having been credited.
THEOREM SuccessMeansCredit == Spec => []SuccessIsCredited
<1>1. IndInv => SuccessIsCredited
  BY DEF IndInv
<1> QED
  BY <1>1, Invariant, PTL

\* The gateway handlers never credit a payment more often than a purchase
\* was requested for it, whatever is verified again and by how many.
THEOREM CreditsPerRequest == Spec => []CreditPerRequest
<1>1. Backed /\ TypeOK => CreditPerRequest
  <2> SUFFICES ASSUME Backed, TypeOK, NEW p \in Payment
               PROVE  credits[p].gateway <= Cardinality(Purchases(p))
    BY DEF CreditPerRequest
  <2>1. /\ Cardinality(Purchases(p)) \in Nat
        /\ credits[p].gateway + ToCome(p) <= Cardinality(Purchases(p))
    BY FS_CardinalityType DEF Backed
  <2>2. credits[p].gateway \in Nat /\ ToCome(p) \in Nat
    BY DEF TypeOK, ToCome
  <2> QED
    BY <2>1, <2>2
<1> QED
  BY <1>1, BackedInit, BackedNext, Invariant, TypeCorrect, PTL DEF Spec

=============================================================================
