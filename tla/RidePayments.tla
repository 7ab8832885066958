---------------------------- MODULE RidePayments ----------------------------
(***************************************************************************)
(* Rides, payments, webhook events and receipts of one tenant, with the    *)
(* request handlers that write them.                                       *)
(*                                                                         *)
(* The handlers are async functions that talk to PostgreSQL through        *)
(* Prisma.  Each awaited call is one statement under READ COMMITTED, with  *)
(* no transaction around a handler, so a handler is modelled as a sequence *)
(* of steps, one per statement whose result or effect other handlers can   *)
(* see, and requests interleave between the steps.  What a handler has     *)
(* read it keeps in its own locals (req[w]).                               *)
(*                                                                         *)
(* A check followed by a write that the database itself repeats (a unique  *)
(* key, a foreign key, "record to update not found") is one step: the runs *)
(* in which the check and the write disagree end in an exception and       *)
(* change nothing, and Fail covers them.                                   *)
(***************************************************************************)
EXTENDS Naturals

CONSTANTS
    Drivers,        \* active driver profiles of the tenant
    Rides,          \* ride ids (bound: how many rides can be created)
    Payments,       \* payment ids (bound: how many payments can be created)
    Transactions,   \* TransactionIds the card provider issues
    Workers,        \* requests that can be in flight together (bound)
    Amounts,        \* fares and payment amounts
    StartStatuses,  \* rideStatus values clients send to POST driver/rides/start
    Routes,         \* operations the environment calls in this instance
    Serial,         \* TRUE: a driver's app never overlaps its start/end requests
    MaxFails,       \* bound on requests that die half way
    None            \* a SQL NULL

RideStatuses == {"DRAFT", "ONGOING", "COMPLETED", "CANCELLED"}
Providers == {"VIVA", "CASH"}
RouteNames == {"start", "end", "cash", "confirm", "webhook", "receipt",
               "adminCreate", "adminUpdate", "adminDelete"}

ASSUME StartStatusesAssumption == StartStatuses \subseteq RideStatuses
ASSUME RoutesAssumption == Routes \subseteq RouteNames
ASSUME FlagsAssumption == Serial \in BOOLEAN /\ MaxFails \in Nat
ASSUME NoneAssumption ==
    /\ None \notin Drivers /\ None \notin Rides /\ None \notin Payments
    /\ None \notin Transactions /\ None \notin Amounts

VARIABLES
    rides,      \* Ride table
    payments,   \* Payment table
    receipts,   \* Receipt table, keyed by its unique rideId
    events,     \* WebhookEvent table, keyed by its unique externalId
    charges,    \* what the card provider has taken, by TransactionId
    acked,      \* transactions whose payment event was answered 200
    req,        \* locals of the requests in flight
    fails       \* how many requests have died so far

vars == <<rides, payments, receipts, events, charges, acked, req, fails>>

-----------------------------------------------------------------------------
(***************************************************************************)
(* Rows.  A key whose row does not exist maps to a row with a status of    *)
(* its own, so that every row of a table has the same fields.              *)
(***************************************************************************)
NoRide    == [status |-> "NONE", driver |-> None, fare |-> None]
RideRow   == [status : RideStatuses \cup {"NONE"},
              driver : Drivers \cup {None},
              fare   : Amounts \cup {None}]

\* capturedAt is kept as "is it set"; authorizedAt, failureCode, approvalCode
\* and the net/tax split are written and never read by a decision.
Unused    == [status |-> "UNUSED", ride |-> None, amount |-> None,
              provider |-> None, captured |-> FALSE, external |-> None]
Deleted   == [Unused EXCEPT !.status = "DELETED"]
PaymentRow == [status   : {"UNUSED", "PENDING", "PAID", "DELETED"},
               ride     : Rides \cup {None},
               amount   : Amounts \cup {None},
               provider : Providers \cup {None},
               captured : BOOLEAN,
               external : Transactions \cup {None}]

NoReceipt == [payment |-> None, provider |-> None, external |-> None,
              amount |-> None]
ReceiptRow == [payment  : Payments \cup {None},
               provider : Providers \cup {None},
               external : Transactions \cup {None},
               amount   : Amounts \cup {None}]

\* attemptCount is a diagnostic counter that nothing reads.
NoEvent   == [known |-> FALSE, processed |-> FALSE, failed |-> FALSE,
              payment |-> None]
EventRow  == [known : BOOLEAN, processed : BOOLEAN, failed : BOOLEAN,
              payment : Payments \cup {None}]

NoCharge  == [order |-> None, amount |-> None]
ChargeRow == [order : Payments \cup {None}, amount : Amounts \cup {None}]

Steps == {"idle", "promote", "create", "complete", "upsert", "cash",
          "confirm", "find", "settle", "markProcessed", "markFailed", "markOther",
          "receiptPayment", "receiptWrite"}
Idle == [pc |-> "idle", driver |-> None, want |-> None, ride |-> None,
         payment |-> None, tx |-> None, amount |-> None, provider |-> None,
         external |-> None]
Request == [pc : Steps,
            driver   : Drivers \cup {None},
            want     : RideStatuses \cup {None},
            ride     : Rides \cup {None},
            payment  : Payments \cup {None},
            tx       : Transactions \cup {None},
            amount   : Amounts \cup {None},
            provider : Providers \cup {None},
            external : Transactions \cup {None}]

TypeOK ==
    /\ rides    \in [Rides -> RideRow]
    /\ payments \in [Payments -> PaymentRow]
    /\ receipts \in [Rides -> ReceiptRow]
    /\ events   \in [Transactions -> EventRow]
    /\ charges  \in [Transactions -> ChargeRow]
    /\ acked    \subseteq Transactions
    /\ req      \in [Workers -> Request]
    /\ fails    \in 0..MaxFails

Init ==
    /\ rides    = [r \in Rides |-> NoRide]
    /\ payments = [p \in Payments |-> Unused]
    /\ receipts = [r \in Rides |-> NoReceipt]
    /\ events   = [t \in Transactions |-> NoEvent]
    /\ charges  = [t \in Transactions |-> NoCharge]
    /\ acked    = {}
    /\ req      = [w \in Workers |-> Idle]
    /\ fails    = 0

-----------------------------------------------------------------------------
Exists(p) == payments[p].status \in {"PENDING", "PAID"}
PaymentOf(r) == {p \in Payments : Exists(p) /\ payments[p].ride = r}

\* Mutant: a DRAFT ride does not count as open.
OpenRides_OngoingOnly(d) ==
    {r \in Rides : rides[r].driver = d /\ rides[r].status = "ONGOING"}

OpenRides(d) ==
    {r \in Rides : rides[r].driver = d /\ rides[r].status \in {"DRAFT", "ONGOING"}}

HasPayment(r) == PaymentOf(r) # {}

At(w, step) == req[w].pc = step
Goto(w, locals) == req' = [req EXCEPT ![w] = locals]
Return(w) == Goto(w, Idle)

\* A new start or end request of driver d reaches worker w.
DriverCalls(w, d, route) ==
    /\ route \in Routes
    /\ At(w, "idle")
    /\ Serial => \A v \in Workers : req[v].driver # d

Calls(w, route) == route \in Routes /\ At(w, "idle")

-----------------------------------------------------------------------------
(***************************************************************************)
(* POST driver/rides/start                                                 *)
(***************************************************************************)

\* The driver's open ride is looked up; any one of several may be returned.
\* An open ride that is not to be promoted is returned as it is.
StartRide(w, d, want) ==
    /\ DriverCalls(w, d, "start")
    /\ \/ /\ OpenRides(d) = {}
          /\ Goto(w, [Idle EXCEPT !.pc = "create", !.driver = d, !.want = want])
       \/ \E r \in OpenRides(d) :
            /\ rides[r].status = "DRAFT"
            /\ want = "ONGOING"
            /\ Goto(w, [Idle EXCEPT !.pc = "promote", !.driver = d, !.ride = r])
    /\ UNCHANGED <<rides, payments, receipts, events, charges, acked, fails>>

\* ride.update by id alone: the status read before is not in the WHERE.
StartPromote(w) ==
    /\ At(w, "promote")
    /\ rides' = [rides EXCEPT ![req[w].ride].status = "ONGOING"]
    /\ Return(w)
    /\ UNCHANGED <<payments, receipts, events, charges, acked, fails>>

\* The pricing mode has been validated and the row is inserted; no unique key
\* ties an open ride to its driver.
StartCreate(w) ==
    /\ At(w, "create")
    /\ \E r \in Rides :
        /\ rides[r] = NoRide
        /\ rides' = [rides EXCEPT ![r] = [status |-> req[w].want,
                                          driver |-> req[w].driver,
                                          fare   |-> None]]
    /\ Return(w)
    /\ UNCHANGED <<payments, receipts, events, charges, acked, fails>>

(***************************************************************************)
(* POST driver/rides/end                                                   *)
(***************************************************************************)

\* Mutant: the ride is looked up by id and driver alone.
CanEnd_AnyStatus(r) == rides[r].status # "NONE"

CanEnd(r) == rides[r].status = "ONGOING"

\* The ride is found ONGOING and its fare computed from what was read and
\* from the client's distance and time.
EndRide(w, r, fare) ==
    /\ DriverCalls(w, rides[r].driver, "end")
    /\ CanEnd(r)
    /\ Goto(w, [Idle EXCEPT !.pc = "complete", !.driver = rides[r].driver,
                            !.ride = r, !.amount = fare])
    /\ UNCHANGED <<rides, payments, receipts, events, charges, acked, fails>>

\* Mutant: the handler answers before the payment is written.
EndComplete_NoBill(w) ==
    /\ At(w, "complete")
    /\ rides' = [rides EXCEPT ![req[w].ride].status = "COMPLETED",
                              ![req[w].ride].fare = req[w].amount]
    /\ Return(w)
    /\ UNCHANGED <<payments, receipts, events, charges, acked, fails>>

\* ride.update by id alone.
EndComplete(w) ==
    /\ At(w, "complete")
    /\ rides' = [rides EXCEPT ![req[w].ride].status = "COMPLETED",
                              ![req[w].ride].fare = req[w].amount]
    /\ Goto(w, [req[w] EXCEPT !.pc = "upsert"])
    /\ UNCHANGED <<payments, receipts, events, charges, acked, fails>>

\* Mutant: the update branch clears capturedAt, as the create branch does.
Rebilled_Uncaptured(row, fare) ==
    [row EXCEPT !.amount = fare, !.status = "PENDING", !.captured = FALSE]

\* What the upsert writes into a payment that is already there: the amounts
\* and PENDING, whatever the status was; capturedAt, the provider and the
\* external id stay.
Rebilled(row, fare) == [row EXCEPT !.amount = fare, !.status = "PENDING"]

NewBill(r, fare) ==
    [status |-> "PENDING", ride |-> r, amount |-> fare, provider |-> "VIVA",
     captured |-> FALSE, external |-> None]

\* payment.upsert on the unique rideId, one INSERT .. ON CONFLICT statement.
EndUpsert(w) ==
    LET r == req[w].ride
        fare == req[w].amount
    IN  /\ At(w, "upsert")
        /\ \/ \E p \in PaymentOf(r) :
                payments' = [payments EXCEPT ![p] = Rebilled(payments[p], fare)]
           \/ /\ ~HasPayment(r)
              /\ \E p \in Payments :
                    /\ payments[p].status = "UNUSED"
                    /\ payments' = [payments EXCEPT ![p] = NewBill(r, fare)]
        /\ Return(w)
        /\ UNCHANGED <<rides, receipts, events, charges, acked, fails>>

-----------------------------------------------------------------------------
(***************************************************************************)
(* POST driver/payments/:id/confirm/cash, and PaymentsService.confirm-     *)
(* Payment, which no route calls today.  A payment already PAID is         *)
(* answered from what was read and nothing is written.                     *)
(***************************************************************************)

CashPaid(row) ==
    [row EXCEPT !.status = "PAID", !.captured = TRUE, !.provider = "CASH"]

CashPayment(w, p) ==
    /\ Calls(w, "cash")
    /\ Exists(p)
    /\ payments[p].status # "PAID"
    /\ Goto(w, [Idle EXCEPT !.pc = "cash", !.payment = p])
    /\ UNCHANGED <<rides, payments, receipts, events, charges, acked, fails>>

CashWrite(w) ==
    LET p == req[w].payment
    IN  /\ At(w, "cash")
        /\ Exists(p)
        /\ payments' = [payments EXCEPT ![p] = CashPaid(payments[p])]
        /\ Return(w)
        /\ UNCHANGED <<rides, receipts, events, charges, acked, fails>>

\* The external id is the caller's, or the one that was read.
ConfirmPayment(w, p, external) ==
    /\ Calls(w, "confirm")
    /\ payments[p].status = "PENDING"
    /\ Goto(w, [Idle EXCEPT !.pc = "confirm", !.payment = p,
                            !.external = IF external = None
                                           THEN payments[p].external
                                           ELSE external])
    /\ UNCHANGED <<rides, payments, receipts, events, charges, acked, fails>>

ConfirmWrite(w) ==
    LET p == req[w].payment
    IN  /\ At(w, "confirm")
        /\ Exists(p)
        /\ payments' = [payments EXCEPT ![p].status = "PAID",
                                        ![p].captured = TRUE,
                                        ![p].external = req[w].external]
        /\ Return(w)
        /\ UNCHANGED <<rides, receipts, events, charges, acked, fails>>

-----------------------------------------------------------------------------
(***************************************************************************)
(* The card provider and POST api/webhooks/viva.  The provider may deliver *)
(* an event any number of times.  The controller answers 200 whenever the  *)
(* service returns, whatever it decided, and 500 only on an exception; an  *)
(* event that was answered 200 needs no further delivery (Ack).            *)
(***************************************************************************)

\* Mutant: an event that was stored before is taken for a processed one.
AlreadyProcessed_Known(t) == events[t].known

AlreadyProcessed(t) == events[t].processed

\* External: the provider takes an amount for an order; the order code is a
\* payment id.
Charge(t, p, amount) ==
    /\ "webhook" \in Routes
    /\ charges[t] = NoCharge
    /\ Exists(p)
    /\ charges' = [charges EXCEPT ![t] = [order |-> p, amount |-> amount]]
    /\ UNCHANGED <<rides, payments, receipts, events, acked, req, fails>>

Ack(t) == acked' = acked \cup {t}

\* webhookEvent.upsert by TransactionId.  An event already processed goes no
\* further; of the others only those that are well formed, for this merchant
\* and finished reach the payment.
WebhookReceive(w, t) ==
    /\ Calls(w, "webhook")
    /\ charges[t] # NoCharge
    /\ events' = [events EXCEPT ![t].known = TRUE]
    /\ \/ AlreadyProcessed(t) /\ Ack(t) /\ UNCHANGED req
       \/ /\ ~AlreadyProcessed(t)
          /\ Goto(w, [Idle EXCEPT !.pc = "find", !.tx = t])
          /\ UNCHANGED acked
    /\ UNCHANGED <<rides, payments, receipts, charges, fails>>

\* A delivery about the same transaction that is not a finished payment of
\* this merchant: stored, and either ignored or marked failed.
WebhookReceiveOther(w, t) ==
    /\ Calls(w, "webhook")
    /\ events' = [events EXCEPT ![t].known = TRUE]
    /\ \/ UNCHANGED req
       \/ /\ ~AlreadyProcessed(t)
          /\ Goto(w, [Idle EXCEPT !.pc = "markOther", !.tx = t])
    /\ UNCHANGED <<rides, payments, receipts, charges, acked, fails>>

\* Mutant: the amount is not compared.
PaymentFor_AnyAmount(t) ==
    {p \in Payments : p = charges[t].order /\ payments[p].status = "PENDING"}

\* Mutant: the payment is looked up by its amount.
PaymentFor_AnyOrder(t) ==
    {p \in Payments : /\ payments[p].status = "PENDING"
                      /\ payments[p].amount = charges[t].amount}

\* The payment of the order, if it is PENDING and the amounts agree.
PaymentFor(t) ==
    {p \in Payments : /\ p = charges[t].order
                      /\ payments[p].status = "PENDING"
                      /\ payments[p].amount = charges[t].amount}

WebhookFind(w) ==
    LET t == req[w].tx
    IN  /\ At(w, "find")
        /\ \/ \E p \in PaymentFor(t) :
                Goto(w, [req[w] EXCEPT !.pc = "settle", !.payment = p])
           \/ /\ PaymentFor(t) = {}
              /\ Goto(w, [req[w] EXCEPT !.pc = "markFailed"])
        /\ UNCHANGED <<rides, payments, receipts, events, charges, acked, fails>>

\* Mutant: capturedAt is not set.
Settled_Uncaptured(row, t) == [row EXCEPT !.status = "PAID", !.external = t]

Settled(row, t) ==
    [row EXCEPT !.status = "PAID", !.captured = TRUE, !.external = t]

\* payment.update by id alone.
WebhookSettle(w) ==
    LET p == req[w].payment
    IN  /\ At(w, "settle")
        /\ Exists(p)
        /\ payments' = [payments EXCEPT ![p] = Settled(payments[p], req[w].tx)]
        /\ Goto(w, [req[w] EXCEPT !.pc = "markProcessed"])
        /\ UNCHANGED <<rides, receipts, events, charges, acked, fails>>

\* Mutant: the ride's id lands in the payment column.
Processed_RideColumn(row, p) ==
    [row EXCEPT !.processed = TRUE, !.payment = payments[p].ride]

\* Mutant: the link is written without processedAt.
Processed_LinkOnly(row, p) == [row EXCEPT !.payment = p]

Processed(row, p) == [row EXCEPT !.processed = TRUE, !.payment = p]

\* The foreign key refuses a payment that has been deleted meanwhile.
WebhookMarkProcessed(w) ==
    /\ At(w, "markProcessed")
    /\ Exists(req[w].payment)
    /\ events' = [events EXCEPT ![req[w].tx] =
                        Processed(events[req[w].tx], req[w].payment)]
    /\ Ack(req[w].tx)
    /\ Return(w)
    /\ UNCHANGED <<rides, payments, receipts, charges, fails>>

\* Mutant: every failure is taken for a permanent one.
Failed_Permanently(row) == [row EXCEPT !.failed = TRUE, !.processed = TRUE]

Failed(row) == [row EXCEPT !.failed = TRUE]

\* markWebhookFailed: the event keeps its error and stays unprocessed; the
\* answer is 200 all the same.
WebhookMarkFailed(w) ==
    /\ \/ At(w, "markFailed") /\ Ack(req[w].tx)
       \/ At(w, "markOther") /\ UNCHANGED acked
    /\ events' = [events EXCEPT ![req[w].tx] = Failed(events[req[w].tx])]
    /\ Return(w)
    /\ UNCHANGED <<rides, payments, receipts, charges, fails>>

-----------------------------------------------------------------------------
(***************************************************************************)
(* admin/payments                                                          *)
(***************************************************************************)

\* The ride only has to exist; paymentMethod always maps to CASH.  What decides is
\* the unique rideId at the insert, which throws where the look before it did not.
AdminCreatePayment(r, amount) ==
    /\ "adminCreate" \in Routes
    /\ rides[r].status # "NONE"
    /\ ~HasPayment(r)
    /\ \E p \in Payments :
        /\ payments[p].status = "UNUSED"
        /\ payments' = [payments EXCEPT ![p] =
              [status |-> "PAID", ride |-> r, amount |-> amount,
               provider |-> "CASH", captured |-> TRUE, external |-> None]]
    /\ UNCHANGED <<rides, receipts, events, charges, acked, req, fails>>

\* Amount, provider or both; a note is not modelled.
AdminUpdatePayment(p, amount, provider) ==
    /\ "adminUpdate" \in Routes
    /\ Exists(p)
    /\ payments' = [payments EXCEPT ![p].amount = amount, ![p].provider = provider]
    /\ UNCHANGED <<rides, receipts, events, charges, acked, req, fails>>

\* The receipt goes with its payment (ON DELETE CASCADE), the webhook event
\* loses its link (SET NULL).
AdminDeletePayment(p) ==
    /\ "adminDelete" \in Routes
    /\ Exists(p)
    /\ payments' = [payments EXCEPT ![p] = Deleted]
    /\ receipts' = [r \in Rides |-> IF receipts[r].payment = p
                                      THEN NoReceipt ELSE receipts[r]]
    /\ events' = [t \in Transactions |-> IF events[t].payment = p
                                      THEN [events[t] EXCEPT !.payment = None]
                                      ELSE events[t]]
    /\ UNCHANGED <<rides, charges, acked, req, fails>>

-----------------------------------------------------------------------------
(***************************************************************************)
(* Generating a receipt                                                    *)
(***************************************************************************)
GenerateReceipt(w, r) ==
    /\ Calls(w, "receipt")
    /\ rides[r].status = "COMPLETED"
    /\ Goto(w, [Idle EXCEPT !.pc = "receiptPayment", !.ride = r])
    /\ UNCHANGED <<rides, payments, receipts, events, charges, acked, fails>>

\* Mutant: a payment of any status will do.
PaidPaymentOf_AnyStatus(r) == PaymentOf(r)

PaidPaymentOf(r) == {p \in PaymentOf(r) : payments[p].status = "PAID"}

\* The payment is read and must be PAID; the snapshot is built from it.
ReceiptReadPayment(w) ==
    /\ At(w, "receiptPayment")
    /\ \E p \in PaidPaymentOf(req[w].ride) :
        Goto(w, [req[w] EXCEPT !.pc = "receiptWrite", !.payment = p,
                               !.amount = payments[p].amount,
                               !.provider = payments[p].provider,
                               !.external = payments[p].external])
    /\ UNCHANGED <<rides, payments, receipts, events, charges, acked, fails>>

\* The ride's receipt is created, or overwritten with the new snapshot; the
\* foreign key refuses a payment that is gone.
ReceiptWrite(w) ==
    /\ At(w, "receiptWrite")
    /\ Exists(req[w].payment)
    /\ receipts' = [receipts EXCEPT ![req[w].ride] =
            [payment |-> req[w].payment, provider |-> req[w].provider,
             external |-> req[w].external, amount |-> req[w].amount]]
    /\ Return(w)
    /\ UNCHANGED <<rides, payments, events, charges, acked, fails>>

-----------------------------------------------------------------------------
\* A refusal, an exception, a lost connection or a crash ends a request at
\* any of its awaits; what it has written stays, what it has read is lost.
Abandon(w) ==
    /\ ~At(w, "idle")
    /\ Return(w)
    /\ UNCHANGED <<rides, payments, receipts, events, charges, acked>>

\* A write to a payment that is gone: Prisma throws, the request ends.
Throws(w) ==
    /\ req[w].pc \in {"cash", "confirm", "settle", "markProcessed", "receiptWrite"}
    /\ ~Exists(req[w].payment)

\* A receipt request that finds its payment missing or unpaid is refused, and
\* so is a start whose pricing mode or policy does not pass.
Refused(w) ==
    \/ At(w, "receiptPayment") /\ PaidPaymentOf(req[w].ride) = {}
    \/ At(w, "create")

Reject(w) ==
    /\ Throws(w) \/ Refused(w)
    /\ Abandon(w)
    /\ UNCHANGED fails

Fail(w) ==
    /\ fails < MaxFails
    /\ fails' = fails + 1
    /\ Abandon(w)

-----------------------------------------------------------------------------
\* What a request in flight does next.
Step(w) ==
    \/ StartPromote(w) \/ StartCreate(w)
    \/ EndComplete(w) \/ EndUpsert(w)
    \/ CashWrite(w) \/ ConfirmWrite(w)
    \/ WebhookFind(w) \/ WebhookSettle(w)
    \/ WebhookMarkProcessed(w) \/ WebhookMarkFailed(w)
    \/ ReceiptReadPayment(w) \/ ReceiptWrite(w)
    \/ Reject(w)

\* A new request.
Call(w) ==
    \/ \E d \in Drivers, want \in StartStatuses : StartRide(w, d, want)
    \/ \E r \in Rides, fare \in Amounts : EndRide(w, r, fare)
    \/ \E p \in Payments : CashPayment(w, p)
    \/ \E p \in Payments, x \in Transactions \cup {None} : ConfirmPayment(w, p, x)
    \/ \E t \in Transactions : WebhookReceive(w, t) \/ WebhookReceiveOther(w, t)
    \/ \E r \in Rides : GenerateReceipt(w, r)

Admin ==
    \/ \E r \in Rides, a \in Amounts : AdminCreatePayment(r, a)
    \/ \E p \in Payments, a \in Amounts :
          AdminUpdatePayment(p, a, payments[p].provider)
    \/ \E p \in Payments, a \in Amounts : AdminUpdatePayment(p, a, "CASH")
    \/ \E p \in Payments : AdminDeletePayment(p)

Next ==
    \/ \E w \in Workers : Call(w) \/ Step(w) \/ Fail(w)
    \/ \E t \in Transactions, p \in Payments, a \in Amounts : Charge(t, p, a)
    \/ Admin

Spec == Init /\ [][Next]_vars

(***************************************************************************)
(* Node runs every request in flight to its end, and the card provider     *)
(* repeats a delivery until it is answered 200.  Clients, drivers and      *)
(* admins owe nothing.                                                     *)
(***************************************************************************)
Redeliver(t) == t \notin acked /\ \E w \in Workers : WebhookReceive(w, t)

Fairness ==
    /\ \A w \in Workers : WF_vars(Step(w))
    /\ \A t \in Transactions : SF_vars(Redeliver(t))

FairSpec == Spec /\ Fairness

-----------------------------------------------------------------------------
(***************************************************************************)
(* Safety, whatever the clients, the provider and the admins do            *)
(***************************************************************************)

\* A PAID payment carries a capture time (numbering, reports and exports
\* dereference it), whichever of the five writers of "PAID" got there and in
\* whatever order they overlapped.
PaidIsCaptured ==
    \A p \in Payments : payments[p].status = "PAID" => payments[p].captured

\* A receipt always stands for money that was received: the payment it names
\* is still there, is the payment of its own ride, and has been captured, even
\* when the payment changed between the receipt's reads and its write.
ReceiptBacked ==
    \A r \in Rides : receipts[r] # NoReceipt =>
        \E p \in Payments :
            /\ receipts[r].payment = p
            /\ Exists(p)
            /\ payments[p].ride = r
            /\ payments[p].captured

\* A webhook event marked processed points at the payment its transaction was
\* made for, and that payment was captured; the link is empty only when the
\* payment has been deleted since.
ProcessedEventSettled ==
    \A t \in Transactions : events[t].processed =>
        LET p == charges[t].order
        IN  /\ p \in Payments
            /\ \/ events[t].payment = p /\ Exists(p) /\ payments[p].captured
               \/ events[t].payment = None /\ payments[p].status = "DELETED"

\* A card transaction is booked only on the payment it was made for, and only
\* after its webhook event was stored (confirmPayment, which takes any external
\* id from its caller, is left aside).
CardTransactionOnItsOrder ==
    "confirm" \notin Routes =>
        \A p \in Payments, t \in Transactions :
            payments[p].external = t => charges[t].order = p /\ events[t].known

\* The record that money was taken is never lost: once captured, a payment
\* stays captured until an admin deletes it, although the upsert of a late
\* endRide may put its status back to PENDING.
CaptureIsKept ==
    [][\A p \in Payments : payments[p].captured =>
          payments'[p].captured \/ payments'[p].status = "DELETED"]_vars

-----------------------------------------------------------------------------
(***************************************************************************)
(* Properties that need the driver's app to wait for each answer (Serial)  *)
(* and the admins to keep their hands off; the code is run without either  *)
(* assumption too, and the README says what then fails                     *)
(***************************************************************************)

\* A payment that was settled by card is for the amount the card was charged,
\* although the amount is compared one await before the payment is written.
SettledAmount ==
    \A p \in Payments, t \in Transactions :
        (payments[p].status = "PAID" /\ payments[p].external = t)
            => payments[p].amount = charges[t].amount

\* The amount printed on a receipt is the fare of its ride.
ReceiptShowsFare ==
    \A r \in Rides : receipts[r] # NoReceipt => receipts[r].amount = rides[r].fare

\* A payment that is PAID stays PAID until it is deleted: completing a ride
\* again, or settling again, does not reopen it.
PaidIsFinal ==
    [][\A p \in Payments : payments[p].status = "PAID"
          => payments'[p].status \in {"PAID", "DELETED"}]_vars

(***************************************************************************)
(* Refinement: seen through the tables, rides go through the phases of     *)
(* RideLifecycle.                                                          *)
(***************************************************************************)
Phase(r) ==
    IF \E p \in PaymentOf(r) : payments[p].status = "PAID" THEN "settled"
    ELSE IF PaymentOf(r) # {} THEN "billed"
    ELSE CASE rides[r].status = "NONE" -> "none"
           [] rides[r].status \in {"DRAFT", "ONGOING"} -> "open"
           [] OTHER -> "completed"

\* The fare a ride is billed at, before that the fare it was completed at.
BilledFare(r) ==
    IF PaymentOf(r) = {} THEN rides[r].fare
    ELSE payments[CHOOSE p \in PaymentOf(r) : TRUE].amount

Lifecycle == INSTANCE RideLifecycle WITH
    phase  <- [r \in Rides |-> Phase(r)],
    driver <- [r \in Rides |-> rides[r].driver],
    fare   <- [r \in Rides |-> BilledFare(r)]

\* The rows and requests of this module implement RideLifecycle: one open ride
\* per driver, each ride completed, billed at its fare and settled once, in
\* order, however deliveries, cash payments, crashes and receipts interleave.
RefinesLifecycle == Lifecycle!Spec

-----------------------------------------------------------------------------
(***************************************************************************)
(* Liveness, under Fairness                                                *)
(***************************************************************************)

\* A completed ride gets its payment record.
CompletedRideIsBilled ==
    \A r \in Rides : rides[r].status = "COMPLETED" ~> PaymentOf(r) # {}

\* Unless a request dies, a ride for which an end has computed a fare gets its
\* payment record, though a slower promotion makes it ONGOING again or a second
\* end overtakes the first.  A ride that is started as COMPLETED has no fare and
\* is never billed (driver-ride.service.ts:188).
BilledUnlessRequestDies ==
    \A r \in Rides : rides[r].fare # None ~> PaymentOf(r) # {} \/ fails > 0

\* Unless a request dies, a delivery that has found its payment ends with the
\* payment captured and the event marked processed, whatever else settles,
\* completes or confirms in between.
MarkedUnlessRequestDies ==
    \A w \in Workers, t \in Transactions :
        (At(w, "settle") /\ req[w].tx = t)
            ~> \/ events[t].processed /\ payments[charges[t].order].captured
               \/ fails > 0

\* A card charge of the right amount, none of whose deliveries has been handled or is
\* under way, ends with its order captured, though requests die, deliveries repeat
\* and overlap, and ends, cash and manual confirmations race them.  Only a second
\* end that overlaps the first can prevent it, by billing the order anew for another
\* amount; if it bills the same, the order is PENDING again but stays captured.
ChargeIsSettled ==
    \A t \in Transactions, p \in Payments :
        (/\ charges[t].order = p /\ charges[t].amount = payments[p].amount
         /\ t \notin acked /\ \A w \in Workers : req[w].tx # t)
            ~> payments[p].captured \/ charges[t].amount # payments[p].amount
=============================================================================
