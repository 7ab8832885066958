------------------------- MODULE RidePaymentsProofs -------------------------
(***************************************************************************)
(* Theorems about RidePayments, for every value of its constants.          *)
(***************************************************************************)
EXTENDS RidePayments, TLAPS

(***************************************************************************)
(* Types.  A request in flight has filled in the locals its next step      *)
(* uses.                                                                   *)
(***************************************************************************)
FilledIn(locals) ==
    /\ locals.pc = "promote" => locals.ride \in Rides
    /\ locals.pc = "create" =>
          locals.driver \in Drivers /\ locals.want \in RideStatuses
    /\ locals.pc \in {"complete", "upsert"} =>
          locals.ride \in Rides /\ locals.amount \in Amounts
    /\ locals.pc \in {"cash", "confirm", "settle", "markProcessed", "receiptWrite"} =>
          locals.payment \in Payments
    /\ locals.pc \in {"find", "settle", "markProcessed", "markFailed", "markOther"} =>
          locals.tx \in Transactions
    /\ locals.pc \in {"receiptPayment", "receiptWrite"} => locals.ride \in Rides

LocalsOK == \A w \in Workers : FilledIn(req[w])

TypeInv == TypeOK /\ LocalsOK

Tables == <<rides, payments, receipts, events, charges, acked>>

LEMMA InitTypeInv == Init => TypeInv
  BY FlagsAssumption
  DEF Init, TypeInv, TypeOK, LocalsOK, FilledIn, RideRow, NoRide, PaymentRow,
      Unused, ReceiptRow, NoReceipt, EventRow, NoEvent, ChargeRow, NoCharge,
      Request, Idle, Steps

\* Replacing one request's locals by well-typed ones keeps the table typed.
LEMMA GotoType ==
    ASSUME TypeInv, NEW w \in Workers, NEW locals \in Request,
           FilledIn(locals), Goto(w, locals)
    PROVE  req' \in [Workers -> Request] /\ LocalsOK'
  BY DEF TypeInv, TypeOK, LocalsOK, Goto

LEMMA IdleType == Idle \in Request /\ FilledIn(Idle)
  BY DEF Idle, Request, Steps, FilledIn

LEMMA ReturnType ==
    ASSUME TypeInv, NEW w \in Workers, Return(w)
    PROVE  req' \in [Workers -> Request] /\ LocalsOK'
  BY GotoType, IdleType DEF Return

\* A request that only reads.
LEMMA ReadType ==
    ASSUME TypeInv, NEW w \in Workers, NEW locals \in Request,
           FilledIn(locals), Goto(w, locals), UNCHANGED <<Tables, fails>>
    PROVE  TypeInv'
  <1>1. req' \in [Workers -> Request] /\ LocalsOK'
    BY GotoType
  <1>2. QED
    BY <1>1 DEF TypeInv, TypeOK, Tables

LEMMA StartRideType ==
    ASSUME TypeInv, NEW w \in Workers, NEW d \in Drivers,
           NEW want \in StartStatuses, StartRide(w, d, want)
    PROVE  TypeInv'
  <1>1. UNCHANGED <<Tables, fails>>
    BY DEF StartRide, Tables
  <1>2. CASE Goto(w, [Idle EXCEPT !.pc = "create", !.driver = d, !.want = want])
    <2> DEFINE l == [Idle EXCEPT !.pc = "create", !.driver = d, !.want = want]
    <2>1. l \in Request /\ FilledIn(l)
      BY StartStatusesAssumption DEF Idle, Request, Steps, FilledIn
    <2>2. QED
      BY <1>1, <1>2, <2>1, ReadType
  <1>3. ASSUME NEW r \in OpenRides(d),
               Goto(w, [Idle EXCEPT !.pc = "promote", !.driver = d, !.ride = r])
        PROVE  TypeInv'
    <2> DEFINE l == [Idle EXCEPT !.pc = "promote", !.driver = d, !.ride = r]
    <2>1. l \in Request /\ FilledIn(l)
      BY DEF Idle, Request, Steps, FilledIn, OpenRides
    <2>2. QED
      BY <1>1, <1>3, <2>1, ReadType
  <1>4. QED
    BY <1>2, <1>3 DEF StartRide

LEMMA StartPromoteType ==
    ASSUME TypeInv, NEW w \in Workers, StartPromote(w)
    PROVE  TypeInv'
  <1>1. req' \in [Workers -> Request] /\ LocalsOK'
    BY ReturnType DEF StartPromote
  <1>2. rides' \in [Rides -> RideRow]
    BY DEF StartPromote, TypeInv, TypeOK, RideRow, RideStatuses
  <1>3. QED
    BY <1>1, <1>2 DEF StartPromote, TypeInv, TypeOK

LEMMA StartCreateType ==
    ASSUME TypeInv, NEW w \in Workers, StartCreate(w)
    PROVE  TypeInv'
  <1>1. req' \in [Workers -> Request] /\ LocalsOK'
    BY ReturnType DEF StartCreate
  <1>2. rides' \in [Rides -> RideRow]
    BY DEF StartCreate, At, TypeInv, TypeOK, LocalsOK, FilledIn, RideRow
  <1>3. QED
    BY <1>1, <1>2 DEF StartCreate, TypeInv, TypeOK

LEMMA EndRideType ==
    ASSUME TypeInv, NEW w \in Workers, NEW r \in Rides, NEW fare \in Amounts,
           EndRide(w, r, fare)
    PROVE  TypeInv'
  <1> DEFINE l == [Idle EXCEPT !.pc = "complete", !.driver = rides[r].driver,
                               !.ride = r, !.amount = fare]
  <1>1. l \in Request /\ FilledIn(l)
    BY DEF TypeInv, TypeOK, RideRow, Idle, Request, Steps, FilledIn
  <1>2. QED
    BY <1>1, ReadType DEF EndRide, Tables

LEMMA EndCompleteType ==
    ASSUME TypeInv, NEW w \in Workers, EndComplete(w)
    PROVE  TypeInv'
  <1> DEFINE l == [req[w] EXCEPT !.pc = "upsert"]
  <1>1. l \in Request /\ FilledIn(l)
    BY DEF EndComplete, At, TypeInv, TypeOK, LocalsOK, FilledIn, Request, Steps
  <1>2. req' \in [Workers -> Request] /\ LocalsOK'
    BY <1>1, GotoType DEF EndComplete
  <1>3. rides' \in [Rides -> RideRow]
    BY DEF EndComplete, At, TypeInv, TypeOK, LocalsOK, FilledIn, RideRow, RideStatuses
  <1>4. QED
    BY <1>2, <1>3 DEF EndComplete, TypeInv, TypeOK

LEMMA EndUpsertType ==
    ASSUME TypeInv, NEW w \in Workers, EndUpsert(w)
    PROVE  TypeInv'
  <1>1. req' \in [Workers -> Request] /\ LocalsOK'
    BY ReturnType DEF EndUpsert
  <1>2. req[w].ride \in Rides /\ req[w].amount \in Amounts
    BY DEF EndUpsert, At, TypeInv, LocalsOK, FilledIn
  <1>3. NewBill(req[w].ride, req[w].amount) \in PaymentRow
    BY <1>2 DEF NewBill, PaymentRow, Providers
  <1>4. ASSUME NEW p \in Payments
        PROVE  Rebilled(payments[p], req[w].amount) \in PaymentRow
    BY <1>2 DEF TypeInv, TypeOK, Rebilled, PaymentRow
  <1>5. payments' \in [Payments -> PaymentRow]
    BY <1>3, <1>4 DEF EndUpsert, TypeInv, TypeOK, PaymentOf
  <1>6. QED
    BY <1>1, <1>5 DEF EndUpsert, TypeInv, TypeOK

LEMMA CashPaymentType ==
    ASSUME TypeInv, NEW w \in Workers, NEW p \in Payments, CashPayment(w, p)
    PROVE  TypeInv'
  <1> DEFINE l == [Idle EXCEPT !.pc = "cash", !.payment = p]
  <1>1. l \in Request /\ FilledIn(l)
    BY DEF Idle, Request, Steps, FilledIn
  <1>2. QED
    BY <1>1, ReadType DEF CashPayment, Tables

LEMMA CashWriteType ==
    ASSUME TypeInv, NEW w \in Workers, CashWrite(w)
    PROVE  TypeInv'
  <1>1. req' \in [Workers -> Request] /\ LocalsOK'
    BY ReturnType DEF CashWrite
  <1>2. ASSUME NEW p \in Payments PROVE CashPaid(payments[p]) \in PaymentRow
    BY DEF TypeInv, TypeOK, CashPaid, PaymentRow, Providers
  <1>3. payments' \in [Payments -> PaymentRow]
    BY <1>2 DEF CashWrite, At, TypeInv, TypeOK, LocalsOK, FilledIn
  <1>4. QED
    BY <1>1, <1>3 DEF CashWrite, TypeInv, TypeOK

LEMMA ConfirmPaymentType ==
    ASSUME TypeInv, NEW w \in Workers, NEW p \in Payments,
           NEW x \in Transactions \cup {None}, ConfirmPayment(w, p, x)
    PROVE  TypeInv'
  <1> DEFINE ext == IF x = None THEN payments[p].external ELSE x
             l == [Idle EXCEPT !.pc = "confirm", !.payment = p, !.external = ext]
  <1>1. ext \in Transactions \cup {None}
    BY DEF TypeInv, TypeOK, PaymentRow
  <1>2. l \in Request /\ FilledIn(l)
    BY <1>1 DEF Idle, Request, Steps, FilledIn
  <1>3. QED
    BY <1>2, ReadType DEF ConfirmPayment, Tables

\* A row settled with an external id is a payment row again.
LEMMA PaidRowType ==
    ASSUME NEW row \in PaymentRow, NEW x \in Transactions \cup {None}
    PROVE  [row EXCEPT !.status = "PAID", !.captured = TRUE, !.external = x]
              \in PaymentRow
  BY DEF PaymentRow

LEMMA ConfirmWriteType ==
    ASSUME TypeInv, NEW w \in Workers, ConfirmWrite(w)
    PROVE  TypeInv'
  <1>1. req' \in [Workers -> Request] /\ LocalsOK'
    BY ReturnType DEF ConfirmWrite
  <1>2. /\ req[w].payment \in Payments
        /\ req[w].external \in Transactions \cup {None}
    <2>1. req[w] \in Request
      BY DEF TypeInv, TypeOK
    <2>2. req[w].external \in Transactions \cup {None}
      BY <2>1 DEF Request
    <2>3. QED
      BY <2>2 DEF ConfirmWrite, At, TypeInv, LocalsOK, FilledIn
  <1> DEFINE row == [payments[req[w].payment] EXCEPT
                        !.status = "PAID", !.captured = TRUE,
                        !.external = req[w].external]
  <1>3. row \in PaymentRow
    BY <1>2, PaidRowType DEF TypeInv, TypeOK
  <1>4. payments' = [payments EXCEPT ![req[w].payment] = row]
    BY <1>2 DEF ConfirmWrite, TypeInv, TypeOK, PaymentRow
  <1>5. payments' \in [Payments -> PaymentRow]
    BY <1>2, <1>3, <1>4 DEF TypeInv, TypeOK
  <1>6. QED
    BY <1>1, <1>5 DEF ConfirmWrite, TypeInv, TypeOK

LEMMA ChargeType ==
    ASSUME TypeInv, NEW t \in Transactions, NEW p \in Payments,
           NEW a \in Amounts, Charge(t, p, a)
    PROVE  TypeInv'
  BY DEF Charge, TypeInv, TypeOK, LocalsOK, FilledIn, ChargeRow

LEMMA StoredEventType ==
    ASSUME TypeInv, NEW t \in Transactions
    PROVE  [events EXCEPT ![t].known = TRUE] \in [Transactions -> EventRow]
  BY DEF TypeInv, TypeOK, EventRow

LEMMA WebhookReceiveType ==
    ASSUME TypeInv, NEW w \in Workers, NEW t \in Transactions,
           WebhookReceive(w, t) \/ WebhookReceiveOther(w, t)
    PROVE  TypeInv'
  <1> DEFINE l(step) == [Idle EXCEPT !.pc = step, !.tx = t]
  <1>1. ASSUME NEW step \in {"find", "markOther"}
        PROVE  l(step) \in Request /\ FilledIn(l(step))
    BY DEF Idle, Request, Steps, FilledIn
  <1>2. \/ UNCHANGED req
        \/ \E step \in {"find", "markOther"} : Goto(w, l(step))
    BY DEF WebhookReceive, WebhookReceiveOther
  <1>3. req' \in [Workers -> Request] /\ LocalsOK'
    BY <1>1, <1>2, GotoType DEF TypeInv, TypeOK, LocalsOK
  <1>4. events' \in [Transactions -> EventRow]
    BY StoredEventType DEF WebhookReceive, WebhookReceiveOther
  <1>5. acked' \subseteq Transactions
    BY DEF WebhookReceive, WebhookReceiveOther, Ack, TypeInv, TypeOK
  <1>6. QED
    BY <1>3, <1>4, <1>5 DEF WebhookReceive, WebhookReceiveOther, TypeInv, TypeOK

\* A webhook request goes on to its next step with its transaction.
LEMMA WebhookLocalsType ==
    ASSUME NEW locals \in Request, NEW p \in Payments, locals.tx \in Transactions,
           NEW step \in {"settle", "markProcessed", "markFailed"}
    PROVE  LET l == [locals EXCEPT !.pc = step, !.payment = p]
           IN  l \in Request /\ FilledIn(l)
  <1> DEFINE l == [locals EXCEPT !.pc = step, !.payment = p]
  <1>1. l \in Request
    BY DEF Request, Steps
  <1>2. l.pc = step /\ l.payment = p /\ l.tx = locals.tx
    BY DEF Request
  <1> HIDE DEF l
  <1>3. FilledIn(l)
    BY <1>2 DEF FilledIn
  <1>4. QED
    BY <1>1, <1>3 DEF l

LEMMA WebhookFindType ==
    ASSUME TypeInv, NEW w \in Workers, WebhookFind(w)
    PROVE  TypeInv'
  <1>0. req[w] \in Request /\ req[w].tx \in Transactions
    BY DEF WebhookFind, At, TypeInv, TypeOK, LocalsOK, FilledIn
  <1>1. UNCHANGED <<Tables, fails>>
    BY DEF WebhookFind, Tables
  <1>2. ASSUME NEW p \in Payments,
               Goto(w, [req[w] EXCEPT !.pc = "settle", !.payment = p])
        PROVE  TypeInv'
    <2> DEFINE l == [req[w] EXCEPT !.pc = "settle", !.payment = p]
    <2>1. l \in Request /\ FilledIn(l)
      BY <1>0, WebhookLocalsType
    <2>2. QED
      BY <1>1, <1>2, <2>1, ReadType
  <1>3. CASE Goto(w, [req[w] EXCEPT !.pc = "markFailed"])
    <2> DEFINE l == [req[w] EXCEPT !.pc = "markFailed"]
    <2>1. l \in Request /\ l.pc = "markFailed" /\ l.tx = req[w].tx
      BY <1>0 DEF Request, Steps
    <2> HIDE DEF l
    <2>2. FilledIn(l)
      BY <1>0, <2>1 DEF FilledIn
    <2>3. Goto(w, l)
      BY <1>3 DEF l
    <2>4. QED
      BY <1>1, <2>1, <2>2, <2>3, ReadType
  <1>4. QED
    BY <1>2, <1>3 DEF WebhookFind, PaymentFor

LEMMA WebhookSettleType ==
    ASSUME TypeInv, NEW w \in Workers, WebhookSettle(w)
    PROVE  TypeInv'
  <1> DEFINE l == [req[w] EXCEPT !.pc = "markProcessed"]
  <1>1. /\ req[w] \in Request
        /\ req[w].payment \in Payments /\ req[w].tx \in Transactions
    BY DEF WebhookSettle, At, TypeInv, TypeOK, LocalsOK, FilledIn
  <1>2. l \in Request /\ FilledIn(l)
    <2>1. /\ l \in Request
          /\ l.pc = "markProcessed"
          /\ l.payment = req[w].payment /\ l.tx = req[w].tx
      BY <1>1 DEF Request, Steps
    <2> HIDE DEF l
    <2>2. QED
      BY <1>1, <2>1 DEF FilledIn
  <1>3. req' \in [Workers -> Request] /\ LocalsOK'
    BY <1>2, GotoType DEF WebhookSettle
  <1>4. Settled(payments[req[w].payment], req[w].tx) \in PaymentRow
    BY <1>1, PaidRowType DEF TypeInv, TypeOK, Settled
  <1>5. payments' \in [Payments -> PaymentRow]
    BY <1>1, <1>4 DEF WebhookSettle, TypeInv, TypeOK
  <1>6. QED
    BY <1>3, <1>5 DEF WebhookSettle, TypeInv, TypeOK

LEMMA WebhookMarkProcessedType ==
    ASSUME TypeInv, NEW w \in Workers, WebhookMarkProcessed(w)
    PROVE  TypeInv'
  <1>1. req' \in [Workers -> Request] /\ LocalsOK'
    BY ReturnType DEF WebhookMarkProcessed
  <1>2. req[w].payment \in Payments /\ req[w].tx \in Transactions
    BY DEF WebhookMarkProcessed, At, TypeInv, LocalsOK, FilledIn
  <1>3. acked' \subseteq Transactions
    BY <1>2 DEF WebhookMarkProcessed, Ack, TypeInv, TypeOK
  <1>4. events' \in [Transactions -> EventRow]
    BY <1>2 DEF WebhookMarkProcessed, TypeInv, TypeOK, EventRow, Processed
  <1>5. QED
    BY <1>1, <1>3, <1>4 DEF WebhookMarkProcessed, TypeInv, TypeOK

LEMMA WebhookMarkFailedType ==
    ASSUME TypeInv, NEW w \in Workers, WebhookMarkFailed(w)
    PROVE  TypeInv'
  <1>1. req' \in [Workers -> Request] /\ LocalsOK'
    BY ReturnType DEF WebhookMarkFailed
  <1>2. req[w].tx \in Transactions
    BY DEF WebhookMarkFailed, At, TypeInv, LocalsOK, FilledIn
  <1>3. acked' \subseteq Transactions
    BY <1>2 DEF WebhookMarkFailed, Ack, TypeInv, TypeOK
  <1>4. events' \in [Transactions -> EventRow]
    BY <1>2 DEF WebhookMarkFailed, TypeInv, TypeOK, EventRow, Failed
  <1>5. QED
    BY <1>1, <1>3, <1>4 DEF WebhookMarkFailed, TypeInv, TypeOK

LEMMA AdminCreateType ==
    ASSUME TypeInv, NEW r \in Rides, NEW a \in Amounts, AdminCreatePayment(r, a)
    PROVE  TypeInv'
  BY DEF AdminCreatePayment, TypeInv, TypeOK, LocalsOK, FilledIn, PaymentRow, Providers

LEMMA AdminUpdateType ==
    ASSUME TypeInv, NEW p \in Payments, NEW a \in Amounts,
           NEW provider \in Providers \cup {None}, AdminUpdatePayment(p, a, provider)
    PROVE  TypeInv'
  <1>1. [payments[p] EXCEPT !.amount = a, !.provider = provider] \in PaymentRow
    BY DEF TypeInv, TypeOK, PaymentRow
  <1>2. payments' = [payments EXCEPT ![p] = [payments[p] EXCEPT !.amount = a,
                                                                !.provider = provider]]
    BY DEF AdminUpdatePayment, TypeInv, TypeOK, PaymentRow
  <1>3. payments' \in [Payments -> PaymentRow]
    BY <1>1, <1>2 DEF TypeInv, TypeOK
  <1>4. QED
    BY <1>3 DEF AdminUpdatePayment, TypeInv, TypeOK, LocalsOK

LEMMA AdminDeleteType ==
    ASSUME TypeInv, NEW p \in Payments, AdminDeletePayment(p)
    PROVE  TypeInv'
  <1>1. payments' \in [Payments -> PaymentRow]
    BY DEF AdminDeletePayment, TypeInv, TypeOK, PaymentRow, Deleted, Unused
  <1>2. receipts' \in [Rides -> ReceiptRow]
    BY DEF AdminDeletePayment, TypeInv, TypeOK, ReceiptRow, NoReceipt
  <1>3. events' \in [Transactions -> EventRow]
    BY DEF AdminDeletePayment, TypeInv, TypeOK, EventRow
  <1>4. QED
    BY <1>1, <1>2, <1>3 DEF AdminDeletePayment, TypeInv, TypeOK, LocalsOK, FilledIn

LEMMA GenerateReceiptType ==
    ASSUME TypeInv, NEW w \in Workers, NEW r \in Rides, GenerateReceipt(w, r)
    PROVE  TypeInv'
  <1> DEFINE l == [Idle EXCEPT !.pc = "receiptPayment", !.ride = r]
  <1>1. l \in Request /\ FilledIn(l)
    BY DEF Idle, Request, Steps, FilledIn
  <1>2. QED
    BY <1>1, ReadType DEF GenerateReceipt, Tables

LEMMA ReceiptReadPaymentType ==
    ASSUME TypeInv, NEW w \in Workers, ReceiptReadPayment(w)
    PROVE  TypeInv'
  <1> DEFINE l(p) == [req[w] EXCEPT !.pc = "receiptWrite", !.payment = p,
                                    !.amount = payments[p].amount,
                                    !.provider = payments[p].provider,
                                    !.external = payments[p].external]
  <1>1. PICK p \in Payments : Goto(w, l(p))
    BY DEF ReceiptReadPayment, PaidPaymentOf, PaymentOf
  <1>2. /\ payments[p].amount \in Amounts \cup {None}
        /\ payments[p].provider \in Providers \cup {None}
        /\ payments[p].external \in Transactions \cup {None}
    BY DEF TypeInv, TypeOK, PaymentRow
  <1>3. req[w] \in Request /\ req[w].ride \in Rides
    BY DEF ReceiptReadPayment, At, TypeInv, TypeOK, LocalsOK, FilledIn
  <1>4. l(p) \in Request
    BY <1>2, <1>3 DEF Request, Steps
  <1>5. l(p).pc = "receiptWrite" /\ l(p).payment = p /\ l(p).ride = req[w].ride
    BY <1>3 DEF Request
  <1>6. FilledIn(l(p))
    BY <1>3, <1>5 DEF FilledIn
  <1>7. QED
    BY <1>1, <1>4, <1>6, ReadType DEF ReceiptReadPayment, Tables

LEMMA ReceiptWriteType ==
    ASSUME TypeInv, NEW w \in Workers, ReceiptWrite(w)
    PROVE  TypeInv'
  <1>1. req' \in [Workers -> Request] /\ LocalsOK'
    BY ReturnType DEF ReceiptWrite
  <1>2. receipts' \in [Rides -> ReceiptRow]
    BY DEF ReceiptWrite, At, TypeInv, TypeOK, LocalsOK, FilledIn, ReceiptRow, Request
  <1>3. QED
    BY <1>1, <1>2 DEF ReceiptWrite, TypeInv, TypeOK

LEMMA EndOfRequestType ==
    ASSUME TypeInv, NEW w \in Workers, Reject(w) \/ Fail(w)
    PROVE  TypeInv'
  <1>1. req' \in [Workers -> Request] /\ LocalsOK'
    BY ReturnType DEF Reject, Fail, Abandon
  <1>2. fails' \in 0..MaxFails
    BY FlagsAssumption DEF Reject, Fail, TypeInv, TypeOK
  <1>3. QED
    BY <1>1, <1>2 DEF Reject, Fail, Abandon, TypeInv, TypeOK

-----------------------------------------------------------------------------
LEMMA NextTypeInv == TypeInv /\ [Next]_vars => TypeInv'
  <1> SUFFICES ASSUME TypeInv, [Next]_vars PROVE TypeInv'
    OBVIOUS
  <1>1. ASSUME NEW w \in Workers, Call(w) PROVE TypeInv'
    BY <1>1, StartRideType, EndRideType, CashPaymentType, ConfirmPaymentType,
       WebhookReceiveType, GenerateReceiptType DEF Call
  <1>2. ASSUME NEW w \in Workers, Step(w) PROVE TypeInv'
    BY <1>2, StartPromoteType, StartCreateType, EndCompleteType, EndUpsertType,
       CashWriteType, ConfirmWriteType, WebhookFindType, WebhookSettleType,
       WebhookMarkProcessedType, WebhookMarkFailedType, ReceiptReadPaymentType,
       ReceiptWriteType, EndOfRequestType DEF Step
  <1>3. ASSUME NEW w \in Workers, Fail(w) PROVE TypeInv'
    BY <1>3, EndOfRequestType
  <1>4. ASSUME NEW t \in Transactions, NEW p \in Payments, NEW a \in Amounts,
               Charge(t, p, a)
        PROVE  TypeInv'
    BY <1>4, ChargeType
  <1>5. CASE Admin
    <2>1. \A p \in Payments : payments[p].provider \in Providers \cup {None}
      BY DEF TypeInv, TypeOK, PaymentRow
    <2>2. "CASH" \in Providers \cup {None}
      BY DEF Providers
    <2>3. QED
      BY <1>5, <2>1, <2>2, AdminCreateType, AdminUpdateType, AdminDeleteType DEF Admin
  <1>6. CASE UNCHANGED vars
    BY <1>6 DEF vars, TypeInv, TypeOK, LocalsOK, FilledIn
  <1>7. QED
    BY <1>1, <1>2, <1>3, <1>4, <1>5, <1>6 DEF Next

\* The tables hold rows of their types in every reachable state, and a request
\* in flight has the locals its next step dereferences: a handler never writes
\* a row with an id or a fare it did not read.
THEOREM TypeCorrect == Spec => []TypeOK
  <1>1. TypeInv => TypeOK
    BY DEF TypeInv
  <1>2. QED
    BY <1>1, InitTypeInv, NextTypeInv, PTL DEF Spec

-----------------------------------------------------------------------------
(***************************************************************************)
(* Safety.  ReceiptBacked and ProcessedEventSettled speak of rows that     *)
(* were written from locals read some awaits earlier, so the invariant has *)
(* to say what still holds of a payment that a request in flight has seen: *)
(* its row may be gone, but if it is there it has kept its ride and its    *)
(* capture time, and it can never again be a row that was not yet used.    *)
(***************************************************************************)
InFlightOf(w) ==
    /\ req[w].pc = "find" => charges[req[w].tx] # NoCharge
    /\ req[w].pc \in {"settle", "markProcessed"} =>
          req[w].payment = charges[req[w].tx].order
    /\ req[w].pc = "settle" => payments[req[w].payment].status # "UNUSED"
    /\ req[w].pc \in {"markProcessed", "receiptWrite"} =>
          \/ payments[req[w].payment].status = "DELETED"
          \/ Exists(req[w].payment) /\ payments[req[w].payment].captured
    /\ req[w].pc = "receiptWrite" /\ Exists(req[w].payment) =>
          payments[req[w].payment].ride = req[w].ride

InFlight == \A w \in Workers : InFlightOf(w)

\* A charge names an order, which is or was a payment.
ChargedOrders ==
    \A t \in Transactions : charges[t] # NoCharge =>
        /\ charges[t].order \in Payments
        /\ payments[charges[t].order].status # "UNUSED"

\* Only a row that exists carries a capture time: an id that is still unused
\* or whose payment was deleted does not.
CapturedExists == \A p \in Payments : payments[p].captured => Exists(p)

\* Payment.rideId is unique, as the statements that insert assume of each other.
UniqueRideId ==
    \A p, q \in Payments :
        (Exists(p) /\ Exists(q) /\ payments[p].ride = payments[q].ride) => p = q

SafeInv ==
    /\ PaidIsCaptured
    /\ CapturedExists
    /\ UniqueRideId
    /\ ReceiptBacked
    /\ ProcessedEventSettled
    /\ ChargedOrders
    /\ InFlight

\* What every step but a deletion does to the payments: rows that exist keep
\* their ride and their capture time, and deleted rows stay deleted.
Keeps ==
    /\ \A p \in Payments : Exists(p) =>
          /\ Exists(p)'
          /\ payments'[p].ride = payments[p].ride
          /\ payments[p].captured => payments'[p].captured
    /\ \A p \in Payments : payments[p].status = "DELETED" =>
          payments'[p].status = "DELETED"
    /\ PaidIsCaptured' /\ CapturedExists'

LEMMA InitSafeInv == Init => SafeInv
  BY NoneAssumption
  DEF Init, SafeInv, PaidIsCaptured, CapturedExists, UniqueRideId, ReceiptBacked,
      ProcessedEventSettled, ChargedOrders, InFlight, InFlightOf, Exists,
      Unused, NoReceipt, NoEvent, NoCharge, Idle

LEMMA UnchangedKeeps ==
    ASSUME TypeInv, SafeInv, UNCHANGED payments
    PROVE  Keeps
  BY DEF Keeps, SafeInv, PaidIsCaptured, CapturedExists, Exists

LEMMA EndUpsertKeeps ==
    ASSUME TypeInv, SafeInv, NEW w \in Workers, EndUpsert(w)
    PROVE  Keeps
  <1>1. ASSUME NEW p \in PaymentOf(req[w].ride),
               payments' = [payments EXCEPT ![p] = Rebilled(payments[p], req[w].amount)]
        PROVE  Keeps
    BY <1>1 DEF TypeInv, TypeOK, PaymentRow, SafeInv, Keeps, PaidIsCaptured, CapturedExists,
                Exists, PaymentOf, Rebilled
  <1>2. ASSUME NEW p \in Payments, payments[p].status = "UNUSED",
               payments' = [payments EXCEPT ![p] = NewBill(req[w].ride, req[w].amount)]
        PROVE  Keeps
    BY <1>2 DEF TypeInv, TypeOK, PaymentRow, SafeInv, Keeps, PaidIsCaptured, CapturedExists,
                Exists, NewBill
  <1>3. QED
    BY <1>1, <1>2 DEF EndUpsert

LEMMA CashWriteKeeps ==
    ASSUME TypeInv, SafeInv, NEW w \in Workers, CashWrite(w)
    PROVE  Keeps
  BY DEF CashWrite, At, TypeInv, TypeOK, LocalsOK, FilledIn, PaymentRow, SafeInv,
         Keeps, PaidIsCaptured, CapturedExists, Exists, CashPaid

LEMMA ConfirmWriteKeeps ==
    ASSUME TypeInv, SafeInv, NEW w \in Workers, ConfirmWrite(w)
    PROVE  Keeps
  BY DEF ConfirmWrite, At, TypeInv, TypeOK, LocalsOK, FilledIn, PaymentRow, SafeInv,
         Keeps, PaidIsCaptured, CapturedExists, Exists

LEMMA WebhookSettleKeeps ==
    ASSUME TypeInv, SafeInv, NEW w \in Workers, WebhookSettle(w)
    PROVE  Keeps
  BY DEF WebhookSettle, At, TypeInv, TypeOK, LocalsOK, FilledIn, PaymentRow, SafeInv,
         Keeps, PaidIsCaptured, CapturedExists, Exists, Settled

LEMMA AdminCreateKeeps ==
    ASSUME TypeInv, SafeInv, NEW r \in Rides, NEW a \in Amounts,
           AdminCreatePayment(r, a)
    PROVE  Keeps
  BY DEF AdminCreatePayment, TypeInv, TypeOK, PaymentRow, SafeInv, Keeps,
         PaidIsCaptured, CapturedExists, Exists

LEMMA AdminUpdateKeeps ==
    ASSUME TypeInv, SafeInv, NEW p \in Payments, NEW a \in Amounts, NEW provider,
           AdminUpdatePayment(p, a, provider)
    PROVE  Keeps
  BY DEF AdminUpdatePayment, TypeInv, TypeOK, PaymentRow, SafeInv, Keeps,
         PaidIsCaptured, CapturedExists, Exists
\* What a step that deletes nothing leaves true of the requests it does not move.
LEMMA KeepInFlight ==
    ASSUME TypeInv, SafeInv, Keeps, UNCHANGED charges,
           NEW w \in Workers, req'[w] = req[w]
    PROVE  InFlightOf(w)'
  <1>1. InFlightOf(w) /\ FilledIn(req[w])
    BY DEF SafeInv, InFlight, TypeInv, LocalsOK
  <1>2. \A p \in Payments : payments[p].status \in {"UNUSED", "PENDING", "PAID", "DELETED"}
    BY DEF TypeInv, TypeOK, PaymentRow
  <1>3. QED
    BY <1>1, <1>2 DEF InFlightOf, FilledIn, Keeps, Exists

LEMMA KeepReceipts ==
    ASSUME TypeInv, SafeInv, Keeps, UNCHANGED receipts
    PROVE  ReceiptBacked'
  BY DEF SafeInv, ReceiptBacked, Keeps

LEMMA KeepEvents ==
    ASSUME TypeInv, SafeInv, Keeps, UNCHANGED charges,
           \A t \in Transactions : /\ events'[t].processed = events[t].processed
                                   /\ events'[t].payment = events[t].payment
    PROVE  ProcessedEventSettled'
  BY DEF SafeInv, ProcessedEventSettled, Keeps

LEMMA KeepCharged ==
    ASSUME TypeInv, SafeInv, Keeps, UNCHANGED charges
    PROVE  ChargedOrders'
  BY DEF SafeInv, ChargedOrders, Keeps, Exists, TypeInv, TypeOK, PaymentRow

LEMMA KeepSingle ==
    ASSUME TypeInv, SafeInv, Keeps, \A p \in Payments : Exists(p)' => Exists(p)
    PROVE  UniqueRideId'
  BY DEF SafeInv, UniqueRideId, Keeps

\* The step of one request that neither issues a receipt nor closes an event.
LEMMA OrdinaryStep ==
    ASSUME TypeInv, SafeInv, Keeps, UniqueRideId',
           UNCHANGED <<receipts, charges>>,
           \A t \in Transactions : /\ events'[t].processed = events[t].processed
                                   /\ events'[t].payment = events[t].payment,
           NEW w \in Workers, InFlightOf(w)',
           \A v \in Workers \ {w} : req'[v] = req[v]
    PROVE  SafeInv'
  <1>1. \A v \in Workers : InFlightOf(v)'
    BY KeepInFlight
  <1>2. PaidIsCaptured' /\ CapturedExists'
    BY DEF Keeps
  <1>3. QED
    BY <1>1, <1>2, KeepReceipts, KeepEvents, KeepCharged DEF SafeInv, InFlight

LEMMA IdleInFlight ==
    ASSUME TypeInv, NEW w \in Workers, Return(w)
    PROVE  /\ InFlightOf(w)'
           /\ \A v \in Workers \ {w} : req'[v] = req[v]
  BY DEF TypeInv, TypeOK, Return, Goto, Idle, InFlightOf

\* A request that returns having changed payments at most.
LEMMA ReturningStep ==
    ASSUME TypeInv, SafeInv, Keeps, UniqueRideId',
           UNCHANGED <<receipts, events, charges>>,
           NEW w \in Workers, Return(w)
    PROVE  SafeInv'
  BY IdleInFlight, OrdinaryStep

\* A request that reads and goes on to a step of which InFlight says nothing.
LEMMA EnteringStep ==
    ASSUME TypeInv, SafeInv, UNCHANGED <<payments, receipts, charges>>,
           \A t \in Transactions : /\ events'[t].processed = events[t].processed
                                   /\ events'[t].payment = events[t].payment,
           NEW w \in Workers, NEW locals \in Request, Goto(w, locals),
           locals.pc \notin {"find", "settle", "markProcessed", "receiptWrite"}
    PROVE  SafeInv'
  <1>1. Keeps
    BY UnchangedKeeps
  <1>2. UniqueRideId'
    BY <1>1, KeepSingle DEF Exists
  <1>3. InFlightOf(w)' /\ \A v \in Workers \ {w} : req'[v] = req[v]
    BY DEF TypeInv, TypeOK, Goto, InFlightOf
  <1>4. QED
    BY <1>1, <1>2, <1>3, OrdinaryStep
-----------------------------------------------------------------------------
LEMMA CallSafe ==
    ASSUME TypeInv, SafeInv, NEW w \in Workers, Call(w)
    PROVE  SafeInv'
  <1>1. ASSUME NEW d \in Drivers, NEW want \in StartStatuses, StartRide(w, d, want)
        PROVE  SafeInv'
    <2>1. CASE Goto(w, [Idle EXCEPT !.pc = "create", !.driver = d, !.want = want])
      <3> DEFINE l == [Idle EXCEPT !.pc = "create", !.driver = d, !.want = want]
      <3>1. l \in Request /\ l.pc = "create"
        BY StartStatusesAssumption DEF Idle, Request, Steps
      <3>2. QED
        BY <1>1, <2>1, <3>1, EnteringStep DEF StartRide
    <2>2. ASSUME NEW r \in OpenRides(d),
                 Goto(w, [Idle EXCEPT !.pc = "promote", !.driver = d, !.ride = r])
          PROVE  SafeInv'
      <3> DEFINE l == [Idle EXCEPT !.pc = "promote", !.driver = d, !.ride = r]
      <3>1. l \in Request /\ l.pc = "promote"
        BY DEF Idle, Request, Steps, OpenRides
      <3>2. QED
        BY <1>1, <2>2, <3>1, EnteringStep DEF StartRide
    <2>3. QED
      BY <1>1, <2>1, <2>2 DEF StartRide
  <1>2. ASSUME NEW r \in Rides, NEW fare \in Amounts, EndRide(w, r, fare)
        PROVE  SafeInv'
    <2> DEFINE l == [Idle EXCEPT !.pc = "complete", !.driver = rides[r].driver,
                                 !.ride = r, !.amount = fare]
    <2>1. l \in Request /\ l.pc = "complete"
      BY DEF TypeInv, TypeOK, RideRow, Idle, Request, Steps
    <2>2. QED
      BY <1>2, <2>1, EnteringStep DEF EndRide
  <1>3. ASSUME NEW p \in Payments, CashPayment(w, p) PROVE SafeInv'
    <2> DEFINE l == [Idle EXCEPT !.pc = "cash", !.payment = p]
    <2>1. l \in Request /\ l.pc = "cash"
      BY DEF Idle, Request, Steps
    <2>2. QED
      BY <1>3, <2>1, EnteringStep DEF CashPayment
  <1>4. ASSUME NEW p \in Payments, NEW x \in Transactions \cup {None},
               ConfirmPayment(w, p, x)
        PROVE  SafeInv'
    <2> DEFINE ext == IF x = None THEN payments[p].external ELSE x
               l == [Idle EXCEPT !.pc = "confirm", !.payment = p, !.external = ext]
    <2>1. ext \in Transactions \cup {None}
      BY DEF TypeInv, TypeOK, PaymentRow
    <2>2. l \in Request /\ l.pc = "confirm"
      BY <2>1 DEF Idle, Request, Steps
    <2>3. QED
      BY <1>4, <2>2, EnteringStep DEF ConfirmPayment
  <1>5. ASSUME NEW t \in Transactions, WebhookReceive(w, t) PROVE SafeInv'
    <2>1. /\ events' = [events EXCEPT ![t].known = TRUE]
          /\ charges[t] # NoCharge
          /\ UNCHANGED <<rides, payments, receipts, charges, fails>>
      BY <1>5 DEF WebhookReceive
    <2>2. \A u \in Transactions : /\ events'[u].processed = events[u].processed
                                  /\ events'[u].payment = events[u].payment
      BY <2>1 DEF TypeInv, TypeOK, EventRow
    <2>3. Keeps
      BY <2>1, UnchangedKeeps
    <2>4. UniqueRideId'
      BY <2>1, <2>3, KeepSingle DEF Exists
    <2>5. CASE UNCHANGED req
      BY <2>1, <2>2, <2>3, <2>4, <2>5, KeepInFlight, OrdinaryStep
    <2>6. CASE Goto(w, [Idle EXCEPT !.pc = "find", !.tx = t])
      <3>1. InFlightOf(w)' /\ \A v \in Workers \ {w} : req'[v] = req[v]
        BY <2>1, <2>6 DEF TypeInv, TypeOK, Goto, Idle, InFlightOf
      <3>2. QED
        BY <2>1, <2>2, <2>3, <2>4, <3>1, OrdinaryStep
    <2>7. QED
      BY <1>5, <2>5, <2>6 DEF WebhookReceive
  <1>6. ASSUME NEW t \in Transactions, WebhookReceiveOther(w, t) PROVE SafeInv'
    <2>1. /\ events' = [events EXCEPT ![t].known = TRUE]
          /\ UNCHANGED <<rides, payments, receipts, charges, fails>>
      BY <1>6 DEF WebhookReceiveOther
    <2>2. \A u \in Transactions : /\ events'[u].processed = events[u].processed
                                  /\ events'[u].payment = events[u].payment
      BY <2>1 DEF TypeInv, TypeOK, EventRow
    <2>3. CASE UNCHANGED req
      <3>1. Keeps
        BY <2>1, UnchangedKeeps
      <3>2. UniqueRideId'
        BY <2>1, <3>1, KeepSingle DEF Exists
      <3>3. QED
        BY <2>1, <2>2, <2>3, <3>1, <3>2, KeepInFlight, OrdinaryStep
    <2>4. CASE Goto(w, [Idle EXCEPT !.pc = "markOther", !.tx = t])
      <3> DEFINE l == [Idle EXCEPT !.pc = "markOther", !.tx = t]
      <3>1. l \in Request /\ l.pc = "markOther"
        BY DEF Idle, Request, Steps
      <3>2. QED
        BY <2>1, <2>2, <2>4, <3>1, EnteringStep
    <2>5. QED
      BY <1>6, <2>3, <2>4 DEF WebhookReceiveOther
  <1>7. ASSUME NEW r \in Rides, GenerateReceipt(w, r) PROVE SafeInv'
    <2> DEFINE l == [Idle EXCEPT !.pc = "receiptPayment", !.ride = r]
    <2>1. l \in Request /\ l.pc = "receiptPayment"
      BY DEF Idle, Request, Steps
    <2>2. QED
      BY <1>7, <2>1, EnteringStep DEF GenerateReceipt
  <1>8. QED
    BY <1>1, <1>2, <1>3, <1>4, <1>5, <1>6, <1>7 DEF Call
\* The steps that end a request after writing nothing but a ride or a payment.
LEMMA WriteSafe ==
    ASSUME TypeInv, SafeInv, NEW w \in Workers,
           \/ StartPromote(w) \/ StartCreate(w)
           \/ CashWrite(w) \/ ConfirmWrite(w) \/ Reject(w) \/ Fail(w)
    PROVE  SafeInv'
  <1>1. Keeps
    BY UnchangedKeeps, CashWriteKeeps, ConfirmWriteKeeps
    DEF StartPromote, StartCreate, Reject, Fail, Abandon
  <1>2. \A p \in Payments : Exists(p)' => Exists(p)
    BY DEF StartPromote, StartCreate, CashWrite, ConfirmWrite, Reject, Fail,
           Abandon, Exists, TypeInv, TypeOK
  <1>3. UniqueRideId'
    BY <1>1, <1>2, KeepSingle
  <1>4. Return(w) /\ UNCHANGED <<receipts, events, charges>>
    BY DEF StartPromote, StartCreate, CashWrite, ConfirmWrite, Reject, Fail, Abandon
  <1>5. QED
    BY <1>1, <1>3, <1>4, ReturningStep

LEMMA EndCompleteSafe ==
    ASSUME TypeInv, SafeInv, NEW w \in Workers, EndComplete(w)
    PROVE  SafeInv'
  <1> DEFINE l == [req[w] EXCEPT !.pc = "upsert"]
  <1>1. l \in Request /\ l.pc = "upsert"
    BY DEF TypeInv, TypeOK, Request, Steps
  <1>2. QED
    BY <1>1, EnteringStep DEF EndComplete

LEMMA EndUpsertSafe ==
    ASSUME TypeInv, SafeInv, NEW w \in Workers, EndUpsert(w)
    PROVE  SafeInv'
  <1>1. Keeps
    BY EndUpsertKeeps
  <1>2. CASE \E p \in PaymentOf(req[w].ride) :
                payments' = [payments EXCEPT ![p] = Rebilled(payments[p], req[w].amount)]
    <2>1. \A p \in Payments : Exists(p)' => Exists(p)
      BY <1>2 DEF PaymentOf, Exists, TypeInv, TypeOK
    <2>2. QED
      BY <1>1, <2>1, KeepSingle, ReturningStep DEF EndUpsert
  <1>3. ASSUME NEW p \in Payments, payments[p].status = "UNUSED",
               ~HasPayment(req[w].ride),
               payments' = [payments EXCEPT ![p] = NewBill(req[w].ride, req[w].amount)]
        PROVE  SafeInv'
    <2>1. UniqueRideId'
      BY <1>3 DEF UniqueRideId, SafeInv, HasPayment, PaymentOf, Exists,
                  NewBill, TypeInv, TypeOK
    <2>2. QED
      BY <1>1, <2>1, ReturningStep DEF EndUpsert
  <1>4. QED
    BY <1>2, <1>3 DEF EndUpsert

LEMMA WebhookFindSafe ==
    ASSUME TypeInv, SafeInv, NEW w \in Workers, WebhookFind(w)
    PROVE  SafeInv'
  <1>1. UNCHANGED <<rides, payments, receipts, events, charges, fails>>
    BY DEF WebhookFind
  <1>2. Keeps
    BY <1>1, UnchangedKeeps
  <1>3. UniqueRideId'
    BY <1>1, <1>2, KeepSingle DEF Exists
  <1>4. ASSUME NEW p \in PaymentFor(req[w].tx),
               Goto(w, [req[w] EXCEPT !.pc = "settle", !.payment = p])
        PROVE  SafeInv'
    <2>1. InFlightOf(w)' /\ \A v \in Workers \ {w} : req'[v] = req[v]
      BY <1>1, <1>4 DEF TypeInv, TypeOK, Request, Goto, InFlightOf, PaymentFor
    <2>2. QED
      BY <1>1, <1>2, <1>3, <2>1, OrdinaryStep
  <1>5. CASE Goto(w, [req[w] EXCEPT !.pc = "markFailed"])
    <2> DEFINE l == [req[w] EXCEPT !.pc = "markFailed"]
    <2>1. l \in Request /\ l.pc = "markFailed"
      BY DEF TypeInv, TypeOK, Request, Steps
    <2>2. QED
      BY <1>1, <1>5, <2>1, EnteringStep
  <1>6. QED
    BY <1>4, <1>5 DEF WebhookFind

LEMMA WebhookSettleSafe ==
    ASSUME TypeInv, SafeInv, NEW w \in Workers, WebhookSettle(w)
    PROVE  SafeInv'
  <1>1. Keeps
    BY WebhookSettleKeeps
  <1>2. \A p \in Payments : Exists(p)' => Exists(p)
    BY DEF WebhookSettle, Exists, TypeInv, TypeOK
  <1>3. UniqueRideId'
    BY <1>1, <1>2, KeepSingle
  <1>4. req[w].payment \in Payments /\ req[w].payment = charges[req[w].tx].order
    BY DEF WebhookSettle, At, TypeInv, LocalsOK, FilledIn, SafeInv, InFlight, InFlightOf
  <1>5. /\ payments'[req[w].payment].status = "PAID"
        /\ payments'[req[w].payment].captured
    <2>1. payments'[req[w].payment] = Settled(payments[req[w].payment], req[w].tx)
      BY <1>4 DEF WebhookSettle, TypeInv, TypeOK
    <2>2. /\ Settled(payments[req[w].payment], req[w].tx).status = "PAID"
          /\ Settled(payments[req[w].payment], req[w].tx).captured
      BY <1>4 DEF Settled, TypeInv, TypeOK, PaymentRow
    <2>3. QED
      BY <2>1, <2>2
  <1>6. InFlightOf(w)' /\ \A v \in Workers \ {w} : req'[v] = req[v]
    <2>1. /\ req'[w].payment = req[w].payment /\ req'[w].tx = req[w].tx
          /\ req'[w].pc = "markProcessed"
          /\ \A v \in Workers \ {w} : req'[v] = req[v]
      BY DEF WebhookSettle, TypeInv, TypeOK, Request, Goto
    <2>2. charges' = charges
      BY DEF WebhookSettle
    <2>3. QED
      BY <1>4, <1>5, <2>1, <2>2 DEF InFlightOf, Exists
  <1>7. QED
    BY <1>1, <1>3, <1>6, OrdinaryStep DEF WebhookSettle

LEMMA WebhookMarkProcessedSafe ==
    ASSUME TypeInv, SafeInv, NEW w \in Workers, WebhookMarkProcessed(w)
    PROVE  SafeInv'
  <1>1. UNCHANGED <<payments, receipts, charges>> /\ Return(w)
    BY DEF WebhookMarkProcessed
  <1>2. Keeps
    BY <1>1, UnchangedKeeps
  <1>3. UniqueRideId'
    BY <1>1, <1>2, KeepSingle DEF Exists
  <1>4. InFlight'
    BY <1>1, <1>2, KeepInFlight, IdleInFlight DEF InFlight
  <1>5. ProcessedEventSettled'
    <2> DEFINE t == req[w].tx
               p == req[w].payment
    <2>1. /\ t \in Transactions /\ p \in Payments /\ p = charges[t].order
          /\ Exists(p) /\ payments[p].captured
      BY DEF WebhookMarkProcessed, At, TypeInv, LocalsOK, FilledIn, SafeInv,
             InFlight, InFlightOf, Exists
    <2>2. /\ events'[t].payment = p
          /\ \A u \in Transactions \ {t} : events'[u] = events[u]
      BY <2>1 DEF WebhookMarkProcessed, Processed, TypeInv, TypeOK, EventRow
    <2>3. QED
      BY <1>1, <2>1, <2>2 DEF ProcessedEventSettled, SafeInv, Exists
  <1>6. QED
    BY <1>1, <1>2, <1>3, <1>4, <1>5, KeepReceipts, KeepCharged DEF SafeInv, Keeps

LEMMA WebhookMarkFailedSafe ==
    ASSUME TypeInv, SafeInv, NEW w \in Workers, WebhookMarkFailed(w)
    PROVE  SafeInv'
  <1>1. UNCHANGED <<payments, receipts, charges>> /\ Return(w)
    BY DEF WebhookMarkFailed
  <1>2. \A t \in Transactions : /\ events'[t].processed = events[t].processed
                                /\ events'[t].payment = events[t].payment
    BY DEF WebhookMarkFailed, Failed, TypeInv, TypeOK, EventRow
  <1>3. QED
    BY <1>1, <1>2, IdleType, EnteringStep DEF Return, Idle

LEMMA ChargeSafe ==
    ASSUME TypeInv, SafeInv, NEW t \in Transactions, NEW p \in Payments,
           NEW a \in Amounts, Charge(t, p, a)
    PROVE  SafeInv'
  <1>1. /\ charges[t] = NoCharge /\ Exists(p)
        /\ UNCHANGED <<payments, receipts, events, req>>
    BY DEF Charge
  <1>2. /\ charges'[t] = [order |-> p, amount |-> a]
        /\ \A u \in Transactions \ {t} : charges'[u] = charges[u]
    BY DEF Charge, TypeInv, TypeOK
  <1>3. /\ PaidIsCaptured' /\ CapturedExists' /\ UniqueRideId' /\ ReceiptBacked'
    BY <1>1 DEF SafeInv, PaidIsCaptured, CapturedExists, UniqueRideId, ReceiptBacked, Exists
  <1>4. ProcessedEventSettled'
    BY <1>1, <1>2, NoneAssumption DEF SafeInv, ProcessedEventSettled, NoCharge, Exists
  <1>5. ChargedOrders'
    BY <1>1, <1>2 DEF SafeInv, ChargedOrders, Exists
  <1>6. InFlight'
    BY <1>1, <1>2, NoneAssumption
    DEF SafeInv, InFlight, InFlightOf, TypeInv, LocalsOK, FilledIn, NoCharge, Exists
  <1>7. QED
    BY <1>3, <1>4, <1>5, <1>6 DEF SafeInv
LEMMA AdminCreateSafe ==
    ASSUME TypeInv, SafeInv, NEW r \in Rides, NEW a \in Amounts,
           AdminCreatePayment(r, a)
    PROVE  SafeInv'
  <1>1. Keeps
    BY AdminCreateKeeps
  <1>2. UniqueRideId'
    BY DEF AdminCreatePayment, UniqueRideId, SafeInv, HasPayment, PaymentOf,
           Exists, TypeInv, TypeOK
  <1>3. UNCHANGED <<receipts, events, charges, req>>
    BY DEF AdminCreatePayment
  <1>4. InFlight'
    BY <1>1, <1>3, KeepInFlight DEF InFlight
  <1>5. QED
    BY <1>1, <1>2, <1>3, <1>4, KeepReceipts, KeepEvents, KeepCharged DEF SafeInv, Keeps

LEMMA AdminUpdateSafe ==
    ASSUME TypeInv, SafeInv, NEW p \in Payments, NEW a \in Amounts, NEW provider,
           AdminUpdatePayment(p, a, provider)
    PROVE  SafeInv'
  <1>1. Keeps
    BY AdminUpdateKeeps
  <1>2. \A q \in Payments : Exists(q)' => Exists(q)
    BY DEF AdminUpdatePayment, Exists, TypeInv, TypeOK
  <1>3. UNCHANGED <<receipts, events, charges, req>>
    BY DEF AdminUpdatePayment
  <1>4. InFlight'
    BY <1>1, <1>3, KeepInFlight DEF InFlight
  <1>5. QED
    BY <1>1, <1>2, <1>3, <1>4, KeepSingle, KeepReceipts, KeepEvents, KeepCharged
    DEF SafeInv, Keeps

\* The deleted payment takes its receipt and its event's link with it, so no
\* row is left that stands for it.
LEMMA AdminDeleteSafe ==
    ASSUME TypeInv, SafeInv, NEW p \in Payments, AdminDeletePayment(p)
    PROVE  SafeInv'
  <1>1. /\ Exists(p) /\ UNCHANGED <<charges, req>>
        /\ payments'[p] = Deleted
        /\ \A q \in Payments \ {p} : payments'[q] = payments[q]
    BY DEF AdminDeletePayment, TypeInv, TypeOK
  <1>2. Deleted.status = "DELETED"
    BY DEF Deleted, Unused
  <1>3. PaidIsCaptured' /\ UniqueRideId'
    BY <1>1, <1>2 DEF SafeInv, PaidIsCaptured, UniqueRideId, Exists
  <1>4. CapturedExists'
    BY <1>1 DEF SafeInv, CapturedExists, Deleted, Unused, Exists
  <1>5. ReceiptBacked'
    <2>1. \A r \in Rides : receipts'[r] # NoReceipt =>
              receipts'[r] = receipts[r] /\ receipts[r].payment # p
      BY DEF AdminDeletePayment
    <2>2. QED
      BY <1>1, <2>1 DEF SafeInv, ReceiptBacked, Exists
  <1>6. ProcessedEventSettled'
    <2>1. \A t \in Transactions :
              /\ events'[t].processed = events[t].processed
              /\ events'[t].payment = IF events[t].payment = p THEN None
                                                               ELSE events[t].payment
      BY DEF AdminDeletePayment, TypeInv, TypeOK, EventRow
    <2>2. QED
      BY <1>1, <1>2, <2>1, NoneAssumption DEF SafeInv, ProcessedEventSettled, Exists
  <1>7. ChargedOrders'
    BY <1>1, <1>2 DEF SafeInv, ChargedOrders
  <1>8. InFlight'
    BY <1>1, <1>2
    DEF SafeInv, InFlight, InFlightOf, TypeInv, LocalsOK, FilledIn, Exists
  <1>9. QED
    BY <1>3, <1>4, <1>5, <1>6, <1>7, <1>8 DEF SafeInv

LEMMA ReceiptReadPaymentSafe ==
    ASSUME TypeInv, SafeInv, NEW w \in Workers, ReceiptReadPayment(w)
    PROVE  SafeInv'
  <1> DEFINE l(p) == [req[w] EXCEPT !.pc = "receiptWrite", !.payment = p,
                                    !.amount = payments[p].amount,
                                    !.provider = payments[p].provider,
                                    !.external = payments[p].external]
  <1>1. PICK p \in PaidPaymentOf(req[w].ride) : Goto(w, l(p))
    BY DEF ReceiptReadPayment
  <1>2. UNCHANGED <<rides, payments, receipts, events, charges, fails>>
    BY DEF ReceiptReadPayment
  <1>3. Keeps
    BY <1>2, UnchangedKeeps
  <1>4. UniqueRideId'
    BY <1>2, <1>3, KeepSingle DEF Exists
  <1>5. /\ p \in Payments /\ Exists(p) /\ payments[p].captured
        /\ payments[p].ride = req[w].ride
    BY DEF PaidPaymentOf, PaymentOf, SafeInv, PaidIsCaptured
  <1>6. /\ req'[w].pc = "receiptWrite" /\ req'[w].payment = p
        /\ req'[w].ride = req[w].ride
        /\ \A v \in Workers \ {w} : req'[v] = req[v]
    BY <1>1 DEF Goto, TypeInv, TypeOK, Request
  <1>7. InFlightOf(w)'
    BY <1>2, <1>5, <1>6 DEF InFlightOf, Exists
  <1>8. QED
    BY <1>2, <1>3, <1>4, <1>6, <1>7, OrdinaryStep

LEMMA ReceiptWriteSafe ==
    ASSUME TypeInv, SafeInv, NEW w \in Workers, ReceiptWrite(w)
    PROVE  SafeInv'
  <1>1. UNCHANGED <<payments, events, charges>> /\ Return(w)
    BY DEF ReceiptWrite
  <1>2. Keeps
    BY <1>1, UnchangedKeeps
  <1>3. UniqueRideId'
    BY <1>1, <1>2, KeepSingle DEF Exists
  <1>4. InFlight'
    BY <1>1, <1>2, KeepInFlight, IdleInFlight DEF InFlight
  <1>5. ReceiptBacked'
    <2> DEFINE r == req[w].ride
               p == req[w].payment
    <2>1. /\ r \in Rides /\ p \in Payments
          /\ Exists(p) /\ payments[p].captured /\ payments[p].ride = r
      BY DEF ReceiptWrite, At, TypeInv, LocalsOK, FilledIn, SafeInv, InFlight,
             InFlightOf, Exists
    <2>2. /\ receipts'[r].payment = p
          /\ \A s \in Rides \ {r} : receipts'[s] = receipts[s]
      BY <2>1 DEF ReceiptWrite, TypeInv, TypeOK
    <2>3. QED
      BY <1>1, <2>1, <2>2 DEF ReceiptBacked, SafeInv, Exists
  <1>6. QED
    BY <1>1, <1>2, <1>3, <1>4, <1>5, KeepEvents, KeepCharged DEF SafeInv, Keeps

-----------------------------------------------------------------------------
LEMMA NextSafeInv == TypeInv /\ SafeInv /\ [Next]_vars => SafeInv'
  <1> SUFFICES ASSUME TypeInv, SafeInv, [Next]_vars PROVE SafeInv'
    OBVIOUS
  <1>1. ASSUME NEW w \in Workers, Call(w) PROVE SafeInv'
    BY <1>1, CallSafe
  <1>2. ASSUME NEW w \in Workers, Step(w) PROVE SafeInv'
    BY <1>2, WriteSafe, EndCompleteSafe, EndUpsertSafe, WebhookFindSafe,
       WebhookSettleSafe, WebhookMarkProcessedSafe, WebhookMarkFailedSafe,
       ReceiptReadPaymentSafe, ReceiptWriteSafe DEF Step
  <1>3. ASSUME NEW w \in Workers, Fail(w) PROVE SafeInv'
    BY <1>3, WriteSafe
  <1>4. ASSUME NEW t \in Transactions, NEW p \in Payments, NEW a \in Amounts,
               Charge(t, p, a)
        PROVE  SafeInv'
    BY <1>4, ChargeSafe
  <1>5. CASE Admin
    BY <1>5, AdminCreateSafe, AdminUpdateSafe, AdminDeleteSafe DEF Admin
  <1>6. CASE UNCHANGED vars
    BY <1>6 DEF vars, SafeInv, PaidIsCaptured, CapturedExists, UniqueRideId, ReceiptBacked,
                ProcessedEventSettled, ChargedOrders, InFlight, InFlightOf, Exists
  <1>7. QED
    BY <1>1, <1>2, <1>3, <1>4, <1>5, <1>6 DEF Next

\* Every step but a deletion keeps the rows it does not create.
LEMMA NextKeeps ==
    ASSUME TypeInv, SafeInv, Next
    PROVE  Keeps \/ \E p \in Payments : AdminDeletePayment(p)
  <1>1. ASSUME NEW w \in Workers, Call(w) \/ Fail(w) PROVE Keeps
    BY <1>1, UnchangedKeeps
    DEF Call, StartRide, EndRide, CashPayment, ConfirmPayment, WebhookReceive,
        WebhookReceiveOther, GenerateReceipt, Fail, Abandon
  <1>2. ASSUME NEW w \in Workers, Step(w) PROVE Keeps
    <2>1. CASE EndUpsert(w) \/ CashWrite(w) \/ ConfirmWrite(w) \/ WebhookSettle(w)
      BY <2>1, EndUpsertKeeps, CashWriteKeeps, ConfirmWriteKeeps, WebhookSettleKeeps
    <2>2. CASE UNCHANGED payments
      BY <2>2, UnchangedKeeps
    <2>3. QED
      BY <1>2, <2>1, <2>2
      DEF Step, StartPromote, StartCreate, EndComplete, WebhookFind,
          WebhookMarkProcessed, WebhookMarkFailed, ReceiptReadPayment,
          ReceiptWrite, Reject, Abandon
  <1>3. ASSUME NEW t \in Transactions, NEW p \in Payments, NEW a \in Amounts,
               Charge(t, p, a)
        PROVE  Keeps
    BY <1>3, UnchangedKeeps DEF Charge
  <1>4. CASE Admin
    BY <1>4, AdminCreateKeeps, AdminUpdateKeeps DEF Admin
  <1>5. QED
    BY <1>1, <1>2, <1>3, <1>4 DEF Next

LEMMA Safe == Spec => [](TypeInv /\ SafeInv)
  BY InitTypeInv, InitSafeInv, NextTypeInv, NextSafeInv, PTL DEF Spec

\* However many requests overlap, die or are retried, a receipt names a payment
\* that exists, belongs to the receipt's ride and has been captured.
THEOREM ReceiptsAreBacked == Spec => []ReceiptBacked
  <1>1. SafeInv => ReceiptBacked
    BY DEF SafeInv
  <1>2. QED
    BY <1>1, Safe, PTL

\* A webhook event marked processed names its transaction's own payment, which
\* was captured; the link is gone only if the payment is.
THEOREM ProcessedEventsAreSettled == Spec => []ProcessedEventSettled
  <1>1. SafeInv => ProcessedEventSettled
    BY DEF SafeInv
  <1>2. QED
    BY <1>1, Safe, PTL

\* No interleaving of the five writers of PAID leaves a PAID payment without
\* its capture time.
THEOREM PaymentsAreCaptured == Spec => []PaidIsCaptured
  <1>1. SafeInv => PaidIsCaptured
    BY DEF SafeInv
  <1>2. QED
    BY <1>1, Safe, PTL

\* Whatever runs late or twice, money once recorded as received stays recorded:
\* no handler clears a capture time, short of deleting the payment.
THEOREM CapturesAreKept == Spec => CaptureIsKept
  <1> DEFINE A == \A p \in Payments : payments[p].captured =>
                     payments'[p].captured \/ payments'[p].status = "DELETED"
  <1>1. ASSUME TypeInv, SafeInv, [Next]_vars PROVE A
    <2>1. CASE Keeps
      BY <1>1, <2>1 DEF Keeps, SafeInv, CapturedExists
    <2>2. ASSUME NEW p \in Payments, AdminDeletePayment(p) PROVE A
      BY <1>1, <2>2 DEF AdminDeletePayment, Deleted, Unused, TypeInv, TypeOK
    <2>3. CASE UNCHANGED vars
      BY <2>3 DEF vars
    <2>4. QED
      BY <1>1, <2>1, <2>2, <2>3, NextKeeps
  <1>2. QED
    BY <1>1, Safe, PTL DEF Spec, CaptureIsKept

-----------------------------------------------------------------------------
(***************************************************************************)
(* Card transactions.  Without confirmPayment only the webhook books one,  *)
(* and between its deliveries' steps nothing it relies on can be taken     *)
(* back: a charge keeps its order, and an event once stored stays stored.  *)
(***************************************************************************)
Booked ==
    \A p \in Payments, t \in Transactions :
        payments[p].external = t => charges[t].order = p /\ events[t].known

DeliveriesStored ==
    \A w \in Workers : req[w].pc \in {"find", "settle", "markProcessed"} =>
        events[req[w].tx].known

NobodyConfirms == \A w \in Workers : req[w].pc # "confirm"

CardInv == "confirm" \notin Routes => Booked /\ DeliveriesStored /\ NobodyConfirms

LEMMA InitCardInv == Init => CardInv
  BY NoneAssumption
  DEF Init, CardInv, Booked, DeliveriesStored, NobodyConfirms, Unused, Idle

\* What every step does to charges and events: an order is never replaced, a
\* stored event never forgotten.
LEMMA LedgerOnlyGrows ==
    ASSUME TypeInv, SafeInv, [Next]_vars, NEW t \in Transactions
    PROVE  /\ charges[t].order \in Payments => charges'[t] = charges[t]
           /\ events[t].known => events'[t].known
  <1>1. CASE UNCHANGED <<charges, events>>
    BY <1>1
  <1>2. ASSUME NEW w \in Workers, NEW u \in Transactions,
               WebhookReceive(w, u) \/ WebhookReceiveOther(w, u)
        PROVE  charges' = charges /\ (events[t].known => events'[t].known)
    BY <1>2 DEF WebhookReceive, WebhookReceiveOther, TypeInv, TypeOK, EventRow
  <1>3. ASSUME NEW w \in Workers, WebhookMarkProcessed(w) \/ WebhookMarkFailed(w)
        PROVE  charges' = charges /\ (events[t].known => events'[t].known)
    <2>1. charges' = charges
      BY <1>3 DEF WebhookMarkProcessed, WebhookMarkFailed
    <2>2. PICK u, row : /\ events' = [events EXCEPT ![u] = row]
                        /\ u = req[w].tx
                        /\ row \in {Processed(events[u], req[w].payment), Failed(events[u])}
      <3>1. CASE WebhookMarkProcessed(w)
        BY <3>1 DEF WebhookMarkProcessed
      <3>2. CASE WebhookMarkFailed(w)
        BY <3>2 DEF WebhookMarkFailed
      <3>3. QED
        BY <1>3, <3>1, <3>2
    <2>3. events \in [Transactions -> EventRow]
      BY DEF TypeInv, TypeOK
    <2>4. u = t => row.known = events[t].known
      BY <2>2, <2>3 DEF Processed, Failed, EventRow
    <2>5. events'[t].known = events[t].known
      BY <2>2, <2>3, <2>4
    <2>6. QED
      BY <2>1, <2>5
  <1>4. ASSUME NEW u \in Transactions, NEW p \in Payments, NEW a \in Amounts,
               Charge(u, p, a)
        PROVE  /\ charges[t].order \in Payments => charges'[t] = charges[t]
               /\ events' = events
    BY <1>4, NoneAssumption DEF Charge, NoCharge, TypeInv, TypeOK
  <1>5. ASSUME NEW p \in Payments, AdminDeletePayment(p)
        PROVE  charges' = charges /\ (events[t].known => events'[t].known)
    BY <1>5 DEF AdminDeletePayment, TypeInv, TypeOK, EventRow
  <1>6. QED
    BY <1>1, <1>2, <1>3, <1>4, <1>5
    DEF Next, Call, Step, Fail, Admin, vars, StartRide, EndRide, CashPayment,
        ConfirmPayment, GenerateReceipt, StartPromote, StartCreate, EndComplete,
        EndUpsert, CashWrite, ConfirmWrite, WebhookFind, WebhookSettle,
        ReceiptReadPayment, ReceiptWrite, Reject, Abandon, AdminCreatePayment,
        AdminUpdatePayment

\* A step that books nothing: each payment keeps its transaction or loses it.
LEMMA NothingBooked ==
    ASSUME TypeInv, SafeInv, [Next]_vars, Booked,
           \A p \in Payments : payments'[p].external \in {payments[p].external, None}
    PROVE  Booked'
  <1> SUFFICES ASSUME NEW p \in Payments, NEW t \in Transactions,
                      payments'[p].external = t
               PROVE  charges'[t].order = p /\ events'[t].known
    BY DEF Booked
  <1>1. charges[t].order = p /\ events[t].known
    BY NoneAssumption DEF Booked
  <1>2. QED
    BY <1>1, LedgerOnlyGrows

\* A request that moves to a step where it has no transaction in hand.
LEMMA NothingDelivered ==
    ASSUME TypeInv, SafeInv, [Next]_vars, DeliveriesStored, NobodyConfirms,
           NEW w \in Workers,
           \A v \in Workers \ {w} : req'[v] = req[v],
           req'[w].pc # "confirm",
           req'[w].pc \in {"find", "settle", "markProcessed"} =>
              req'[w].tx \in Transactions /\ events'[req'[w].tx].known
    PROVE  DeliveriesStored' /\ NobodyConfirms'
  <1>1. ASSUME NEW v \in Workers \ {w},
               req'[v].pc \in {"find", "settle", "markProcessed"}
        PROVE  events'[req'[v].tx].known
    <2>1. req[v].tx \in Transactions /\ events[req[v].tx].known
      BY <1>1 DEF DeliveriesStored, TypeInv, LocalsOK, FilledIn
    <2>2. QED
      BY <2>1, LedgerOnlyGrows
  <1>2. QED
    BY <1>1 DEF DeliveriesStored, NobodyConfirms

\* A step of one request that books nothing.
LEMMA PlainStepCards ==
    ASSUME TypeInv, SafeInv, [Next]_vars, CardInv, "confirm" \notin Routes,
           NEW w \in Workers,
           \A p \in Payments : payments'[p].external \in {payments[p].external, None},
           \A v \in Workers \ {w} : req'[v] = req[v],
           req'[w].pc # "confirm",
           req'[w].pc \in {"find", "settle", "markProcessed"} =>
              req'[w].tx \in Transactions /\ events'[req'[w].tx].known
    PROVE  CardInv'
  <1>1. DeliveriesStored' /\ NobodyConfirms'
    BY NothingDelivered DEF CardInv
  <1>2. Booked'
    BY NothingBooked DEF CardInv
  <1>3. QED
    BY <1>1, <1>2 DEF CardInv

LEMMA CallCards ==
    ASSUME TypeInv, SafeInv, [Next]_vars, CardInv, "confirm" \notin Routes,
           NEW w \in Workers, Call(w)
    PROVE  CardInv'
  <1>1. payments' = payments
    BY DEF Call, StartRide, EndRide, CashPayment, ConfirmPayment, WebhookReceive,
           WebhookReceiveOther, GenerateReceipt
  <1>2. ASSUME NEW locals \in Request, Goto(w, locals),
               locals.pc \notin {"confirm", "find", "settle", "markProcessed"}
        PROVE  CardInv'
    BY <1>1, <1>2, PlainStepCards DEF Goto, TypeInv, TypeOK
  <1>3. ASSUME NEW d \in Drivers, NEW want \in StartStatuses, StartRide(w, d, want)
        PROVE  CardInv'
    <2>1. [Idle EXCEPT !.pc = "create", !.driver = d, !.want = want] \in Request
      BY StartStatusesAssumption DEF Idle, Request, Steps
    <2>2. \A r \in OpenRides(d) :
              [Idle EXCEPT !.pc = "promote", !.driver = d, !.ride = r] \in Request
      BY DEF Idle, Request, Steps, OpenRides
    <2>3. QED
      BY <1>2, <1>3, <2>1, <2>2 DEF StartRide, Idle
  <1>4. ASSUME NEW r \in Rides, NEW fare \in Amounts, EndRide(w, r, fare)
        PROVE  CardInv'
    <2>1. [Idle EXCEPT !.pc = "complete", !.driver = rides[r].driver, !.ride = r,
                       !.amount = fare] \in Request
      BY DEF TypeInv, TypeOK, RideRow, Idle, Request, Steps
    <2>2. QED
      BY <1>2, <1>4, <2>1 DEF EndRide, Idle
  <1>5. ASSUME NEW p \in Payments, CashPayment(w, p) PROVE CardInv'
    <2>1. [Idle EXCEPT !.pc = "cash", !.payment = p] \in Request
      BY DEF Idle, Request, Steps
    <2>2. QED
      BY <1>2, <1>5, <2>1 DEF CashPayment, Idle
  <1>6. ASSUME NEW r \in Rides, GenerateReceipt(w, r) PROVE CardInv'
    <2>1. [Idle EXCEPT !.pc = "receiptPayment", !.ride = r] \in Request
      BY DEF Idle, Request, Steps
    <2>2. QED
      BY <1>2, <1>6, <2>1 DEF GenerateReceipt, Idle
  <1>7. ASSUME NEW t \in Transactions, WebhookReceive(w, t) \/ WebhookReceiveOther(w, t)
        PROVE  CardInv'
    <2>1. events'[t].known
      BY <1>7 DEF WebhookReceive, WebhookReceiveOther, TypeInv, TypeOK, EventRow
    <2>2. CASE UNCHANGED req
      <3>1. req[w].pc # "confirm"
        BY DEF CardInv, NobodyConfirms
      <3>2. req[w].pc \in {"find", "settle", "markProcessed"} =>
                req[w].tx \in Transactions /\ events'[req[w].tx].known
        BY LedgerOnlyGrows DEF CardInv, DeliveriesStored, TypeInv, LocalsOK, FilledIn
      <3>3. QED
        BY <1>1, <2>2, <3>1, <3>2, PlainStepCards
    <2>3. ASSUME NEW step \in {"find", "markOther"},
                 Goto(w, [Idle EXCEPT !.pc = step, !.tx = t])
          PROVE  CardInv'
      <3>1. /\ \A v \in Workers \ {w} : req'[v] = req[v]
            /\ req'[w].pc = step /\ req'[w].tx = t
        BY <2>3 DEF Goto, Idle, TypeInv, TypeOK
      <3>2. QED
        BY <1>1, <2>1, <3>1, PlainStepCards
    <2>4. QED
      BY <1>7, <2>2, <2>3 DEF WebhookReceive, WebhookReceiveOther
  <1>8. ASSUME NEW p \in Payments, NEW x \in Transactions \cup {None},
               ConfirmPayment(w, p, x)
        PROVE  FALSE
    BY <1>8 DEF ConfirmPayment, Calls
  <1>9. QED
    BY <1>3, <1>4, <1>5, <1>6, <1>7, <1>8 DEF Call

\* The payment the webhook settles is its transaction's order, found by it and
\* unchanged since, and its event was stored before it was looked up.
LEMMA SettleCards ==
    ASSUME TypeInv, SafeInv, [Next]_vars, CardInv, "confirm" \notin Routes,
           NEW w \in Workers, WebhookSettle(w)
    PROVE  CardInv'
  <1> DEFINE t == req[w].tx
             p == req[w].payment
  <1>1. /\ t \in Transactions /\ p \in Payments
        /\ charges[t].order = p /\ events[t].known
    BY DEF WebhookSettle, At, TypeInv, LocalsOK, FilledIn, SafeInv, InFlight,
           InFlightOf, CardInv, DeliveriesStored
  <1>2. /\ charges' = charges /\ events' = events
        /\ payments'[p].external = t
        /\ \A q \in Payments \ {p} : payments'[q] = payments[q]
    BY <1>1 DEF WebhookSettle, Settled, TypeInv, TypeOK, PaymentRow
  <1>3. Booked'
    BY <1>1, <1>2 DEF CardInv, Booked
  <1>4. /\ req'[w].pc = "markProcessed" /\ req'[w].tx = t
        /\ \A v \in Workers \ {w} : req'[v] = req[v]
    BY DEF WebhookSettle, Goto, TypeInv, TypeOK, Request
  <1>5. DeliveriesStored' /\ NobodyConfirms'
    BY <1>1, <1>2, <1>4, NothingDelivered DEF CardInv
  <1>6. QED
    BY <1>3, <1>5 DEF CardInv

LEMMA StepCards ==
    ASSUME TypeInv, SafeInv, [Next]_vars, CardInv, "confirm" \notin Routes,
           NEW w \in Workers, Step(w) \/ Fail(w)
    PROVE  CardInv'
  <1>1. ASSUME \A p \in Payments : payments'[p].external \in {payments[p].external, None},
               Return(w)
        PROVE  CardInv'
    BY <1>1, PlainStepCards DEF Return, Goto, Idle, TypeInv, TypeOK
  <1>2. CASE EndUpsert(w)
    <2>1. Return(w)
      BY <1>2 DEF EndUpsert
    <2>2. ASSUME NEW q \in Payments,
                 payments' = [payments EXCEPT ![q] = Rebilled(payments[q], req[w].amount)]
          PROVE  payments'[q].external = payments[q].external
      BY <2>2 DEF Rebilled, TypeInv, TypeOK, PaymentRow
    <2>3. \A fare, r : NewBill(r, fare).external = None
      BY DEF NewBill
    <2>4. \A p \in Payments : payments'[p].external \in {payments[p].external, None}
      BY <1>2, <2>2, <2>3 DEF EndUpsert, PaymentOf, TypeInv, TypeOK
    <2>5. QED
      BY <1>1, <2>1, <2>4
  <1>3. CASE CashWrite(w)
    BY <1>1, <1>3 DEF CashWrite, CashPaid, TypeInv, TypeOK, PaymentRow
  <1>4. CASE \/ StartPromote(w) \/ StartCreate(w) \/ WebhookMarkProcessed(w)
             \/ WebhookMarkFailed(w) \/ ReceiptWrite(w) \/ Reject(w) \/ Fail(w)
    BY <1>1, <1>4 DEF StartPromote, StartCreate, WebhookMarkProcessed,
       WebhookMarkFailed, ReceiptWrite, Reject, Fail, Abandon
  <1>5. CASE WebhookFind(w)
    <2>1. /\ req[w].tx \in Transactions /\ events[req[w].tx].known
          /\ payments' = payments /\ events' = events
      BY <1>5 DEF WebhookFind, At, TypeInv, LocalsOK, FilledIn, CardInv, DeliveriesStored
    <2>2. \/ \E p \in Payments : Goto(w, [req[w] EXCEPT !.pc = "settle", !.payment = p])
          \/ Goto(w, [req[w] EXCEPT !.pc = "markFailed"])
      BY <1>5 DEF WebhookFind, PaymentFor
    <2>3. /\ \A v \in Workers \ {w} : req'[v] = req[v]
          /\ req'[w].pc \in {"settle", "markFailed"} /\ req'[w].tx = req[w].tx
      <3>1. req \in [Workers -> Request] /\ req[w] \in Request
        BY DEF TypeInv, TypeOK
      <3>2. PICK r : /\ Goto(w, r) /\ r.tx = req[w].tx
                     /\ r.pc \in {"settle", "markFailed"}
        <4>1. /\ \A p : LET r == [req[w] EXCEPT !.pc = "settle", !.payment = p]
                        IN  r.tx = req[w].tx /\ r.pc = "settle"
              /\ LET r == [req[w] EXCEPT !.pc = "markFailed"]
                 IN  r.tx = req[w].tx /\ r.pc = "markFailed"
          BY <3>1 DEF Request
        <4>2. QED
          BY <2>2, <4>1
      <3>3. req' = [req EXCEPT ![w] = r]
        BY <3>2 DEF Goto
      <3>4. QED
        BY ONLY <3>1, <3>2, <3>3, w \in Workers
    <2>4. QED
      BY <2>1, <2>3, PlainStepCards
  <1>6. CASE EndComplete(w) \/ ReceiptReadPayment(w)
    <2>1. /\ payments' = payments
          /\ \A v \in Workers \ {w} : req'[v] = req[v]
          /\ req'[w].pc \in {"upsert", "receiptWrite"}
      <3>1. CASE EndComplete(w)
        BY <3>1 DEF EndComplete, Goto, TypeInv, TypeOK, Request
      <3>2. CASE ReceiptReadPayment(w)
        BY <3>2 DEF ReceiptReadPayment, Goto, TypeInv, TypeOK, Request
      <3>3. QED
        BY <1>6, <3>1, <3>2
    <2>2. QED
      BY <2>1, PlainStepCards
  <1>7. CASE ConfirmWrite(w)
    BY <1>7 DEF ConfirmWrite, At, CardInv, NobodyConfirms
  <1>8. QED
    BY <1>2, <1>3, <1>4, <1>5, <1>6, <1>7, SettleCards DEF Step

LEMMA NextCardInv == TypeInv /\ SafeInv /\ CardInv /\ [Next]_vars => CardInv'
  <1> SUFFICES ASSUME TypeInv, SafeInv, CardInv, [Next]_vars, "confirm" \notin Routes
               PROVE  CardInv'
    BY DEF CardInv
  <1>1. ASSUME UNCHANGED req,
               \A p \in Payments : payments'[p].external \in {payments[p].external, None}
        PROVE  CardInv'
    <2>1. Booked'
      BY <1>1, NothingBooked DEF CardInv
    <2>2. \A w \in Workers : req[w].pc \in {"find", "settle", "markProcessed"} =>
              req[w].tx \in Transactions /\ events'[req[w].tx].known
      BY LedgerOnlyGrows DEF CardInv, DeliveriesStored, TypeInv, LocalsOK, FilledIn
    <2>3. QED
      BY <1>1, <2>1, <2>2 DEF CardInv, DeliveriesStored, NobodyConfirms
  <1>2. ASSUME NEW t \in Transactions, NEW p \in Payments, NEW a \in Amounts,
               Charge(t, p, a)
        PROVE  CardInv'
    BY <1>1, <1>2 DEF Charge
  <1>3. CASE Admin
    <2>1. ASSUME NEW r \in Rides, NEW a \in Amounts, AdminCreatePayment(r, a)
          PROVE  CardInv'
      BY <1>1, <2>1 DEF AdminCreatePayment, TypeInv, TypeOK
    <2>2. ASSUME NEW p \in Payments, NEW a, NEW provider,
                 AdminUpdatePayment(p, a, provider)
          PROVE  CardInv'
      BY <1>1, <2>2 DEF AdminUpdatePayment, TypeInv, TypeOK, PaymentRow
    <2>3. ASSUME NEW p \in Payments, AdminDeletePayment(p) PROVE CardInv'
      BY <1>1, <2>3 DEF AdminDeletePayment, Deleted, Unused, TypeInv, TypeOK
    <2>4. QED
      BY <1>3, <2>1, <2>2, <2>3 DEF Admin
  <1>4. CASE UNCHANGED vars
    BY <1>1, <1>4 DEF vars
  <1>5. QED
    BY <1>2, <1>3, <1>4, CallCards, StepCards DEF Next

\* However deliveries repeat and overlap with cash, admins and deletions, a card
\* transaction is found on no payment but the one it was charged for, and only
\* once its webhook event has been stored.
THEOREM CardTransactionsAreOnTheirOrder == Spec => []CardTransactionOnItsOrder
  <1>1. CardInv => CardTransactionOnItsOrder
    BY DEF CardInv, Booked, CardTransactionOnItsOrder
  <1>2. QED
    BY <1>1, InitTypeInv, InitSafeInv, InitCardInv, NextTypeInv, NextSafeInv,
       NextCardInv, PTL DEF Spec
=============================================================================
