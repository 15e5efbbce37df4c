------------------------------ MODULE Payments ------------------------------
(***************************************************************************)
(* The life of a purchase of coins.  A row of the table payments is        *)
(* written by five parties that share nothing but the row:                 *)
(*   - the buyer's chat with the bot (bot/static.go): buyCoin,             *)
(*     startCardPayment, submitCardReceipt;                                *)
(*   - the HTTP handlers of the gateway (payments/service.go): Request,    *)
(*     Verify, and the server-side replay ReVerifyPayment;                 *)
(*   - the administrators who review receipts (bot/admin.go);              *)
(*   - expirePayments of the job scheduler of every instance.              *)
(* The gateway itself is external.  A handler reads the row, talks to      *)
(* somebody, and writes the row: a step of the model ends wherever         *)
(* another party can come between.  Single SQL statements and              *)
(* transactions on one row are atomic.  All purchases are one buyer's and  *)
(* of one amount.  The lock of the buyer expires after 30 s and a send may *)
(* take minutes, so several workers may handle the buyer's updates at once.*)
(***************************************************************************)
EXTENDS Naturals, FiniteSets

CONSTANTS
  Payment,      \* the rows of payments
  Authority,    \* the purchase identifiers the gateway can issue
  Worker,       \* the workers that can be in startCardPayment
  Http,         \* the handlers that run at the same time
  Scheduler,    \* the job schedulers, one for each instance
  MaxFailures,  \* bound: statements that fail and processes that die
  None

ASSUME PaymentsAssumption ==
  /\ MaxFailures \in Nat
  /\ None \notin Payment \cup Authority

VARIABLES
  status,     \* payments.status; "none" while the row is not inserted
  authority,  \* payments.authority
  credited,   \* payments.credited
  age,        \* now - updated_at: 0 below 750 s, 1 below 900 s, 2 beyond
  credits,    \* how often users.balance grew by the coins of a payment
  gate,       \* the gateway's view of an authority
  owner,      \* the payment an authority was requested for
  http,       \* the handlers between their steps
  card,       \* the payment a worker's startCardPayment has read, not yet written
  batch,      \* the payments expirePayments has selected and not yet written
  failures    \* how many failures have happened

vars == <<status, authority, credited, age, credits, gate, owner, http, card,
          batch, failures>>

row     == <<status, authority, credited, age, credits>>
gateway == <<gate, owner>>

Open   == {"first_level", "move_gateway"}
Status == Open \cup {"none", "card_receipt", "card_review", "success",
                     "rejected", "expired"}
Gate   == {"unused", "issued", "paid", "verified"}

\* A handler between its steps: the payment it has read, the authority it
\* asks the gateway about.
Busy(pc, p, a) == [pc |-> pc, pay |-> p, auth |-> a]
IdleHttp == Busy("idle", None, None)
Http_ == {IdleHttp}
         \cup [pc : {"request"}, pay : Payment, auth : {None}]
         \cup [pc : {"verify", "success"}, pay : Payment, auth : Authority]

Init ==
  /\ status    = [p \in Payment |-> "none"]
  /\ authority = [p \in Payment |-> None]
  /\ credited  = [p \in Payment |-> FALSE]
  /\ age       = [p \in Payment |-> 0]
  /\ credits   = [p \in Payment |-> [card |-> 0, gateway |-> 0]]
  /\ gate      = [a \in Authority |-> "unused"]
  /\ owner     = [a \in Authority |-> None]
  /\ http      = [h \in Http |-> IdleHttp]
  /\ card      = [w \in Worker |-> None]
  /\ batch     = [s \in Scheduler |-> {}]
  /\ failures  = 0

\* A statement whose error is ignored, or a process that dies.
Failure ==
  /\ failures < MaxFailures
  /\ failures' = failures + 1

\* UPDATE payments SET status=st,updated_at=now.
SetStatus(p, st) ==
  /\ status' = [status EXCEPT ![p] = st]
  /\ age'    = [age EXCEPT ![p] = 0]

Rest(h) == http' = [http EXCEPT ![h] = IdleHttp]

-----------------------------------------------------------------------------
(* The buyer's chat with the bot.                                          *)

\* buyCoin: a recent open payment is used again, else a row is inserted.
BuyCoin(p) ==
  /\ status[p] = "none"
  /\ \A q \in Payment : status[q] \in Open => age[q] > 0
  /\ SetStatus(p, "first_level")
  /\ UNCHANGED <<authority, credited, credits, gateway, http, card, batch,
                 failures>>

\* startCardPayment up to its check of the status.
StartCard(w, p) ==
  /\ card[w] = None
  /\ status[p] \in Open \cup {"card_receipt"}
  /\ card' = [card EXCEPT ![w] = p]
  /\ UNCHANGED <<row, gateway, http, batch, failures>>

\* startCardPayment: the status is written whatever it has become.
WriteCard(w) ==
  /\ card[w] # None
  /\ card' = [card EXCEPT ![w] = None]
  /\ \/ /\ SetStatus(card[w], "card_receipt")
        /\ UNCHANGED failures
     \/ /\ Failure
        /\ UNCHANGED <<status, age>>
  /\ UNCHANGED <<authority, credited, credits, gateway, http, batch>>

\* submitCardReceipt, after enterCardReceiptMode.
SubmitReceipt(p) ==
  /\ status[p] = "card_receipt"
  /\ SetStatus(p, "card_review")
  /\ UNCHANGED <<authority, credited, credits, gateway, http, card, batch,
                 failures>>

-----------------------------------------------------------------------------
(* The administrators: adminReviewCardReceipt.                             *)

Reopen(p) ==
  /\ status[p] = "rejected"
  /\ status' = [status EXCEPT ![p] = "card_review"]
  /\ UNCHANGED <<authority, credited, age, credits, gateway, http, card,
                 batch, failures>>

Reject(p) ==
  /\ status[p] = "card_review"
  /\ SetStatus(p, "rejected")
  /\ UNCHANGED <<authority, credited, credits, gateway, http, card, batch,
                 failures>>

\* Mutant: the approval looks at the status alone.
ApproveAgain(p) ==
  /\ status[p] = "card_review"
  /\ SetStatus(p, "success")
  /\ credited' = [credited EXCEPT ![p] = TRUE]
  /\ credits' = [credits EXCEPT ![p].card = @ + 1]
  /\ UNCHANGED <<authority, gateway, http, card, batch, failures>>

\* One transaction; its UPDATE tests the row again under the row's lock.
Approve(p) ==
  /\ status[p] = "card_review"
  /\ ~credited[p]
  /\ SetStatus(p, "success")
  /\ credited' = [credited EXCEPT ![p] = TRUE]
  /\ credits' = [credits EXCEPT ![p].card = @ + 1]
  /\ UNCHANGED <<authority, gateway, http, card, batch, failures>>

-----------------------------------------------------------------------------
(* The handlers of the gateway.                                            *)

\* Request: payment(id, status IN ('first_level','move_gateway')).
Request(h, p) ==
  /\ http[h] = IdleHttp
  /\ status[p] \in Open
  /\ http' = [http EXCEPT ![h] = Busy("request", p, None)]
  /\ UNCHANGED <<row, gateway, card, batch, failures>>

\* zarinpalRequest, idpayRequest: the gateway issues an authority, the row
\* is written whatever it has become, and the buyer is sent to pay.
StoreAuthority(h, a) ==
  LET p == http[h].pay IN
  /\ http[h].pc = "request"
  /\ gate[a] = "unused"
  /\ gate'  = [gate EXCEPT ![a] = "issued"]
  /\ owner' = [owner EXCEPT ![a] = p]
  /\ Rest(h)
  /\ \/ /\ SetStatus(p, "move_gateway")
        /\ authority' = [authority EXCEPT ![p] = a]
        /\ UNCHANGED failures
     \/ /\ Failure
        /\ UNCHANGED <<status, authority, age>>
  /\ UNCHANGED <<credited, credits, card, batch>>

\* The buyer pays at the gateway.
Pay(a) ==
  /\ gate[a] = "issued"
  /\ gate' = [gate EXCEPT ![a] = "paid"]
  /\ UNCHANGED <<row, owner, http, card, batch, failures>>

\* Verify: paymentByAuthority.  The browser may call it any number of times.
Verify(h, a) ==
  /\ http[h] = IdleHttp
  /\ gate[a] # "unused"
  /\ \E p \in Payment :
       /\ authority[p] = a
       /\ status[p] = "move_gateway"
       /\ http' = [http EXCEPT ![h] = Busy("verify", p, a)]
  /\ UNCHANGED <<row, gateway, card, batch, failures>>

\* Mutant: the replay accepts a payment that never reached the gateway.
ReVerifyOpen(h, p) ==
  /\ http[h] = IdleHttp
  /\ status[p] \in Open
  /\ http' = [http EXCEPT ![h] = Busy("verify", p, authority[p])]
  /\ UNCHANGED <<row, gateway, card, batch, failures>>

\* ReVerifyPayment, on an administrator's command.
ReVerifyPayment(h, p) ==
  /\ http[h] = IdleHttp
  /\ status[p] = "move_gateway"
  /\ http' = [http EXCEPT ![h] = Busy("verify", p, authority[p])]
  /\ UNCHANGED <<row, gateway, card, batch, failures>>

\* Mutant: whatever the gateway answers counts as a confirmation.
ConfirmAny(h) ==
  /\ http[h].pc = "verify"
  /\ gate' = [gate EXCEPT ![http[h].auth] =
                IF @ = "paid" THEN "verified" ELSE @]
  /\ http' = [http EXCEPT ![h] = Busy("success", http[h].pay, http[h].auth)]
  /\ UNCHANGED <<row, owner, card, batch, failures>>

\* The gateway confirms a purchase that was paid: code 100, later 101.
Confirm(h) ==
  /\ http[h].pc = "verify"
  /\ gate[http[h].auth] \in {"paid", "verified"}
  /\ gate' = [gate EXCEPT ![http[h].auth] = "verified"]
  /\ http' = [http EXCEPT ![h] = Busy("success", http[h].pay, http[h].auth)]
  /\ UNCHANGED <<row, owner, card, batch, failures>>

\* The gateway refuses: no authority is issued, or nothing has been paid.
Refuse(h) ==
  /\ \/ http[h].pc = "request"
     \/ /\ http[h].pc = "verify"
        /\ gate[http[h].auth] = "issued"
  /\ Rest(h)
  /\ UNCHANGED <<row, gateway, card, batch, failures>>

\* Mutant: the two statements of success are not one transaction.
SuccessInTwo(h) ==
  LET p == http[h].pay IN
  /\ http[h].pc = "success"
  /\ Rest(h)
  /\ IF status[p] = "move_gateway"
     THEN /\ SetStatus(p, "success")
          /\ \/ /\ credits' = [credits EXCEPT ![p].gateway = @ + 1]
                /\ UNCHANGED failures
             \/ /\ Failure
                /\ UNCHANGED credits
     ELSE UNCHANGED <<status, age, credits, failures>>
  /\ UNCHANGED <<authority, credited, gateway, card, batch>>

\* Mutant: the transaction does not look at the status.
SuccessUnguarded(h) ==
  LET p == http[h].pay IN
  /\ http[h].pc = "success"
  /\ Rest(h)
  /\ SetStatus(p, "success")
  /\ credits' = [credits EXCEPT ![p].gateway = @ + 1]
  /\ UNCHANGED <<authority, credited, gateway, card, batch, failures>>

\* success: one transaction, which ends without a trace unless the row still
\* says move_gateway.  The column credited is left alone.
Success(h) ==
  LET p == http[h].pay IN
  /\ http[h].pc = "success"
  /\ Rest(h)
  /\ IF status[p] = "move_gateway"
     THEN /\ SetStatus(p, "success")
          /\ credits' = [credits EXCEPT ![p].gateway = @ + 1]
     ELSE UNCHANGED <<status, age, credits>>
  /\ UNCHANGED <<authority, credited, gateway, card, batch, failures>>

\* A handler dies, cannot reach the gateway, or its transaction fails.
Fail(h) ==
  /\ http[h] # IdleHttp
  /\ Failure
  /\ Rest(h)
  /\ UNCHANGED <<row, gateway, card, batch>>

-----------------------------------------------------------------------------
(* The job scheduler: expirePayments.                                      *)

\* Mutant: a payment that has been to the gateway is never selected.
SelectStaleFirstLevel(s) ==
  LET stale == {p \in Payment : status[p] = "first_level" /\ age[p] = 2} IN
  /\ batch[s] = {}
  /\ stale # {}
  /\ batch' = [batch EXCEPT ![s] = stale]
  /\ UNCHANGED <<row, gateway, http, card, failures>>

SelectStale(s) ==
  LET stale == {p \in Payment : status[p] \in Open /\ age[p] = 2} IN
  /\ batch[s] = {}
  /\ stale # {}
  /\ batch' = [batch EXCEPT ![s] = stale]
  /\ UNCHANGED <<row, gateway, http, card, failures>>

\* After a message to the buyer the status is written whatever it has become.
ExpireNext(s) ==
  \E p \in batch[s] :
    /\ batch' = [batch EXCEPT ![s] = @ \ {p}]
    /\ \/ /\ status' = [status EXCEPT ![p] = "expired"]
          /\ UNCHANGED failures
       \/ /\ Failure
          /\ UNCHANGED status
    /\ UNCHANGED <<authority, credited, age, credits, gateway, http, card>>

\* now - updated_at passes 750 s, then 900 s.
GrowOld(p) ==
  /\ status[p] # "none"
  /\ age[p] < 2
  /\ age' = [age EXCEPT ![p] = @ + 1]
  /\ UNCHANGED <<status, authority, credited, credits, gateway, http, card,
                 batch, failures>>

-----------------------------------------------------------------------------
Buyer ==
  \/ \E p \in Payment : BuyCoin(p) \/ SubmitReceipt(p)
  \/ \E w \in Worker : WriteCard(w) \/ \E p \in Payment : StartCard(w, p)

Admin == \E p \in Payment : Reopen(p) \/ Reject(p) \/ Approve(p)

Handler(h) ==
  \/ \E p \in Payment : Request(h, p) \/ ReVerifyPayment(h, p)
  \/ \E a \in Authority : StoreAuthority(h, a) \/ Verify(h, a)
  \/ Confirm(h)
  \/ Refuse(h)
  \/ Success(h)
  \/ Fail(h)

Next ==
  \/ Buyer
  \/ Admin
  \/ \E a \in Authority : Pay(a)
  \/ \E h \in Http : Handler(h)
  \/ \E s \in Scheduler : SelectStale(s) \/ ExpireNext(s)
  \/ \E p \in Payment : GrowOld(p)

Spec == Init /\ [][Next]_vars

\* The schedulers run for ever and time passes; nobody else has to act.
FairSpec ==
  /\ Spec
  /\ \A s \in Scheduler : WF_vars(SelectStale(s)) /\ WF_vars(ExpireNext(s))
  /\ \A p \in Payment : WF_vars(GrowOld(p))

-----------------------------------------------------------------------------
(* Properties.                                                             *)

\* The fields have their types; in particular the gateway is never asked to
\* verify a payment that has no authority (paymentByAuthority, payment).
TypeOK ==
  /\ status \in [Payment -> Status]
  /\ authority \in [Payment -> Authority \cup {None}]
  /\ credited \in [Payment -> BOOLEAN]
  /\ age \in [Payment -> 0..2]
  /\ credits \in [Payment -> [card : Nat, gateway : Nat]]
  /\ gate \in [Authority -> Gate]
  /\ owner \in [Authority -> Payment \cup {None}]
  /\ http \in [Http -> Http_]
  /\ card \in [Worker -> Payment \cup {None}]
  /\ batch \in [Scheduler -> SUBSET Payment]
  /\ failures \in 0..MaxFailures

\* However often a payment is rejected, opened again, sent back to the
\* gateway by a late Request and reviewed again, the approval of receipts
\* credits it at most once (adminReviewCardReceipt, the guard on credited).
CardOnce == \A p \in Payment : credits[p].card <= 1

\* The gateway handlers credit a payment only if the gateway has confirmed
\* a purchase that was requested for this payment, although the row's
\* authority may have been replaced in the meantime (success).
GatewayPaidFor ==
  \A p \in Payment : credits[p].gateway > 0 =>
    \E a \in Authority : owner[a] = p /\ gate[a] = "verified"

\* A payment that says success has been credited: the status and the
\* balance are written together by whoever writes success.
SuccessIsCredited ==
  \A p \in Payment : status[p] = "success" =>
    credits[p].card + credits[p].gateway > 0

\* The purchases the gateway was asked to open for a payment.
Purchases(p) == {a \in Authority : owner[a] = p}

\* The gateway handlers credit a payment at most once for each purchase that
\* was requested for it, however often and by however many handlers the
\* purchases are verified: what a success consumes, the status
\* move_gateway, only a new request restores (Verify, success, Request).
CreditPerRequest ==
  \A p \in Payment : credits[p].gateway <= Cardinality(Purchases(p))

\* No payment stays open for ever: expirePayments closes it even if its
\* write fails or a late Request overwrites the expiry.
OpenPaymentEnds ==
  \A p \in Payment : status[p] \in Open ~> status[p] \notin Open

\* "Guard against double credit: skip if already credited"
\* (adminReviewCardReceipt): an approval never credits a payment that the
\* gateway handlers have credited.
NoSecondCredit ==
  [][\A p \in Payment :
       credits'[p].card > credits[p].card => credits[p].gateway = 0]_vars

=============================================================================
