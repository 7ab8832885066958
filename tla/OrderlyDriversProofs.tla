------------------------ MODULE OrderlyDriversProofs ------------------------
(***************************************************************************)
(* Theorems about RidePayments when each driver's app waits for its        *)
(* answers, admins leave payments alone and rides are started as DRAFT or  *)
(* ONGOING: amounts agree everywhere, and the tables implement             *)
(* RideLifecycle.                                                          *)
(***************************************************************************)
EXTENDS RidePaymentsProofs

Orderly ==
    /\ Serial
    /\ Routes \subseteq {"start", "end", "cash", "webhook", "receipt"}
    /\ StartStatuses \subseteq {"DRAFT", "ONGOING"}

\* A driver has at most one request in flight.
OneAtATime ==
    \A v, w \in Workers :
        req[v].driver = req[w].driver /\ req[w].driver # None => v = w

\* Rides are opened, driven and completed at a fare; none is cancelled.
RidesDriven ==
    \A r \in Rides :
        /\ rides[r].status # "CANCELLED"
        /\ rides[r].status = "NONE" => rides[r] = NoRide
        /\ rides[r].status # "NONE" => rides[r].driver \in Drivers
        /\ rides[r].status = "COMPLETED" => rides[r].fare \in Amounts

OneOpenRide ==
    \A d \in Drivers : \A r, s \in OpenRides(d) : r = s

\* A payment stands for a completed ride and asks for its fare; nothing is
\* deleted.
BillsShowFares ==
    \A p \in Payments :
        /\ payments[p].status # "DELETED"
        /\ payments[p].status = "UNUSED" => payments[p] = Unused
        /\ Exists(p) => LET r == payments[p].ride
                        IN  /\ r \in Rides
                            /\ rides[r].status = "COMPLETED"
                            /\ payments[p].amount = rides[r].fare

CardAmounts ==
    \A p \in Payments, t \in Transactions :
        payments[p].external = t => payments[p].amount = charges[t].amount

ReceiptsShowFares ==
    \A r \in Rides : receipts[r] # NoReceipt =>
        rides[r].status = "COMPLETED" /\ receipts[r].amount = rides[r].fare

\* What the requests of a driver may rely on: nobody else moves their ride.
DriverRequest(w) ==
    LET d == req[w].driver
        r == req[w].ride
    IN  /\ req[w].pc \in {"promote", "create", "complete", "upsert"} => d \in Drivers
        /\ req[w].pc \in {"promote", "complete", "upsert"} => rides[r].driver = d
        /\ req[w].pc = "create" =>
              req[w].want \in {"DRAFT", "ONGOING"} /\ OpenRides(d) = {}
        /\ req[w].pc = "promote" => rides[r].status = "DRAFT"
        /\ req[w].pc = "complete" => rides[r].status = "ONGOING"
        /\ req[w].pc = "upsert" => /\ rides[r].status = "COMPLETED"
                                   /\ rides[r].fare = req[w].amount
                                   /\ ~HasPayment(r)

\* What the other requests have read and is still so when they write.
MoneyRequest(w) ==
    /\ req[w].pc \in {"cash", "settle"} => Exists(req[w].payment)
    /\ req[w].pc = "settle" =>
          payments[req[w].payment].amount = charges[req[w].tx].amount
    /\ req[w].pc = "receiptPayment" => rides[req[w].ride].status = "COMPLETED"
    /\ req[w].pc = "receiptWrite" =>
          /\ rides[req[w].ride].status = "COMPLETED"
          /\ req[w].amount = rides[req[w].ride].fare

Requests == \A w \in Workers : DriverRequest(w) /\ MoneyRequest(w)

OrderInv ==
    Orderly => /\ OneAtATime /\ RidesDriven /\ OneOpenRide /\ BillsShowFares
               /\ CardAmounts /\ ReceiptsShowFares /\ Requests

Inv == TypeInv /\ SafeInv /\ CardInv /\ OrderInv

LEMMA InitOrderInv == Init => OrderInv
  BY NoneAssumption
  DEF Init, OrderInv, OneAtATime, RidesDriven, OneOpenRide, OpenRides,
      BillsShowFares, CardAmounts, ReceiptsShowFares, Requests, DriverRequest,
      MoneyRequest, Exists, NoRide, Unused, NoReceipt, Idle

\* What every step but the insertion of a bill does to the payments: those that
\* exist keep their ride and their amount.
BillsKept ==
    \A p \in Payments :
        IF Exists(p)
        THEN /\ Exists(p)'
             /\ payments'[p].ride = payments[p].ride
             /\ payments'[p].amount = payments[p].amount
        ELSE payments'[p] = payments[p]

LEMMA SamePayments ==
    ASSUME BillsKept, rides' = rides, NEW r \in Rides
    PROVE  PaymentOf(r)' = PaymentOf(r)
  BY DEF BillsKept, PaymentOf, Exists

LEMMA KeepBills ==
    ASSUME Orderly, Inv, BillsKept, rides' = rides
    PROVE  BillsShowFares'
  BY DEF Inv, OrderInv, BillsShowFares, BillsKept, Exists

\* The locals of a request that does not move stay valid while rides stay and
\* payments keep their amounts.
LEMMA KeepRequest ==
    ASSUME Orderly, Inv, [Next]_vars, BillsKept, rides' = rides,
           NEW v \in Workers, req'[v] = req[v]
    PROVE  DriverRequest(v)' /\ MoneyRequest(v)'
  <1>1. DriverRequest(v) /\ MoneyRequest(v) /\ FilledIn(req[v]) /\ InFlightOf(v)
    BY DEF Inv, OrderInv, Requests, TypeInv, LocalsOK, SafeInv, InFlight
  <1>2. DriverRequest(v)'
    <2>1. \A d : OpenRides(d)' = OpenRides(d)
      BY DEF OpenRides
    <2>2. req[v].pc = "upsert" => ~HasPayment(req[v].ride)'
      BY <1>1, SamePayments DEF FilledIn, HasPayment, DriverRequest
    <2>3. QED
      BY <1>1, <2>1, <2>2 DEF DriverRequest
  <1>3. CASE req[v].pc = "settle"
    <2>1. /\ req[v].payment \in Payments /\ req[v].tx \in Transactions
          /\ charges[req[v].tx].order = req[v].payment
      BY <1>1, <1>3 DEF FilledIn, InFlightOf
    <2>2. charges'[req[v].tx] = charges[req[v].tx]
      BY <2>1, LedgerOnlyGrows DEF Inv
    <2>3. QED
      BY <1>1, <1>2, <1>3, <2>1, <2>2 DEF MoneyRequest, BillsKept
  <1>4. CASE req[v].pc # "settle"
    BY <1>1, <1>2, <1>4 DEF MoneyRequest, BillsKept, FilledIn
  <1>5. QED
    BY <1>3, <1>4

LEMMA KeepCardAmounts ==
    ASSUME Orderly, Inv, [Next]_vars, BillsKept,
           \A p \in Payments : payments'[p].external = payments[p].external
    PROVE  CardAmounts'
  <1> SUFFICES ASSUME NEW p \in Payments, NEW t \in Transactions,
                      payments'[p].external = t
               PROVE  payments'[p].amount = charges'[t].amount
    BY DEF CardAmounts
  <1>1. charges[t].order = p /\ payments[p].amount = charges[t].amount
    BY DEF Orderly, Inv, CardInv, Booked, OrderInv, CardAmounts
  <1>2. Exists(p)
    BY NoneAssumption
    DEF Inv, OrderInv, BillsShowFares, TypeInv, TypeOK, PaymentRow, Unused, Exists
  <1>3. QED
    BY <1>1, <1>2, LedgerOnlyGrows DEF Inv, BillsKept

\* A step that moves no ride and inserts no bill.
LEMMA QuietStep ==
    ASSUME Orderly, Inv, [Next]_vars, BillsKept, rides' = rides,
           CardAmounts', ReceiptsShowFares',
           NEW w \in Workers,
           \A v \in Workers \ {w} : req'[v] = req[v],
           OneAtATime', DriverRequest(w)', MoneyRequest(w)'
    PROVE  OrderInv'
  <1>1. Requests'
    BY KeepRequest DEF Requests
  <1>2. RidesDriven' /\ OneOpenRide'
    BY DEF Inv, OrderInv, RidesDriven, OneOpenRide, OpenRides
  <1>3. QED
    BY <1>1, <1>2, KeepBills DEF OrderInv

\* A request that goes on, or ends, keeps its driver's place or gives it up.
LEMMA KeepOneAtATime ==
    ASSUME Orderly, Inv, NEW w \in Workers,
           \A v \in Workers \ {w} : req'[v] = req[v],
           req'[w].driver \in {req[w].driver, None}
    PROVE  OneAtATime'
  BY DEF Inv, OrderInv, OneAtATime

LEMMA ReturnOrder ==
    ASSUME Orderly, Inv, NEW w \in Workers, Return(w)
    PROVE  /\ \A v \in Workers \ {w} : req'[v] = req[v]
           /\ OneAtATime' /\ DriverRequest(w)' /\ MoneyRequest(w)'
           /\ req'[w] = Idle
  <1>1. req'[w] = Idle /\ \A v \in Workers \ {w} : req'[v] = req[v]
    BY DEF Return, Goto, Inv, TypeInv, TypeOK
  <1>2. OneAtATime'
    BY <1>1, KeepOneAtATime DEF Idle
  <1>3. QED
    BY <1>1, <1>2 DEF DriverRequest, MoneyRequest, Idle

-----------------------------------------------------------------------------
\* A step that writes no ride, payment or receipt.
LEMMA ReadStep ==
    ASSUME Orderly, Inv, [Next]_vars, UNCHANGED <<rides, payments, receipts>>,
           NEW w \in Workers,
           \A v \in Workers \ {w} : req'[v] = req[v],
           OneAtATime', DriverRequest(w)', MoneyRequest(w)'
    PROVE  OrderInv'
  <1>1. BillsKept
    BY DEF BillsKept, Exists
  <1>2. ReceiptsShowFares'
    BY DEF Inv, OrderInv, ReceiptsShowFares
  <1>3. QED
    BY <1>1, <1>2, KeepCardAmounts, QuietStep

\* A driver's new request finds no other request of the driver in flight.
LEMMA DriverCallOrder ==
    ASSUME Orderly, Inv, [Next]_vars, UNCHANGED <<rides, payments, receipts>>,
           NEW w \in Workers, NEW locals \in Request, Goto(w, locals),
           locals.driver \in Drivers, \A v \in Workers : req[v].driver # locals.driver,
           locals.pc \in {"create", "promote", "complete"},
           locals.pc = "create" => /\ locals.want \in {"DRAFT", "ONGOING"}
                                   /\ OpenRides(locals.driver) = {},
           locals.pc # "create" => rides[locals.ride].driver = locals.driver,
           locals.pc = "promote" => rides[locals.ride].status = "DRAFT",
           locals.pc = "complete" => rides[locals.ride].status = "ONGOING"
    PROVE  OrderInv'
  <1>1. req'[w] = locals /\ \A v \in Workers \ {w} : req'[v] = req[v]
    BY DEF Goto, Inv, TypeInv, TypeOK
  <1>2. OneAtATime'
    BY <1>1 DEF Inv, OrderInv, OneAtATime
  <1>3. DriverRequest(w)' /\ MoneyRequest(w)'
    BY <1>1 DEF DriverRequest, MoneyRequest, OpenRides
  <1>4. QED
    BY <1>1, <1>2, <1>3, ReadStep

LEMMA StartRideOrder ==
    ASSUME Orderly, Inv, [Next]_vars, NEW w \in Workers, NEW d \in Drivers,
           NEW want \in StartStatuses, StartRide(w, d, want)
    PROVE  OrderInv'
  <1>1. /\ \A v \in Workers : req[v].driver # d
        /\ UNCHANGED <<rides, payments, receipts>>
    BY DEF StartRide, DriverCalls, Orderly
  <1>2. ASSUME OpenRides(d) = {},
               Goto(w, [Idle EXCEPT !.pc = "create", !.driver = d, !.want = want])
        PROVE  OrderInv'
    <2> DEFINE l == [Idle EXCEPT !.pc = "create", !.driver = d, !.want = want]
    <2>1. /\ l \in Request /\ l.pc = "create" /\ l.driver = d /\ l.want = want
          /\ want \in {"DRAFT", "ONGOING"}
      BY StartStatusesAssumption DEF Idle, Request, Steps, Orderly
    <2> HIDE DEF l
    <2>2. Goto(w, l)
      BY <1>2 DEF l
    <2>3. QED
      BY <1>1, <1>2, <2>1, <2>2, DriverCallOrder
  <1>3. ASSUME NEW r \in OpenRides(d), rides[r].status = "DRAFT",
               Goto(w, [Idle EXCEPT !.pc = "promote", !.driver = d, !.ride = r])
        PROVE  OrderInv'
    <2> DEFINE l == [Idle EXCEPT !.pc = "promote", !.driver = d, !.ride = r]
    <2>1. l \in Request /\ l.pc = "promote" /\ l.driver = d /\ l.ride = r
      BY DEF Idle, Request, Steps, OpenRides
    <2> HIDE DEF l
    <2>2. Goto(w, l) /\ rides[r].driver = d
      BY <1>3 DEF l, OpenRides
    <2>3. QED
      BY <1>1, <1>3, <2>1, <2>2, DriverCallOrder
  <1>4. QED
    BY <1>2, <1>3 DEF StartRide

LEMMA EndRideOrder ==
    ASSUME Orderly, Inv, [Next]_vars, NEW w \in Workers, NEW r \in Rides,
           NEW fare \in Amounts, EndRide(w, r, fare)
    PROVE  OrderInv'
  <1> DEFINE d == rides[r].driver
             l == [Idle EXCEPT !.pc = "complete", !.driver = d, !.ride = r,
                               !.amount = fare]
  <1>1. /\ \A v \in Workers : req[v].driver # d
        /\ UNCHANGED <<rides, payments, receipts>>
        /\ rides[r].status = "ONGOING" /\ Goto(w, l)
    BY DEF EndRide, DriverCalls, Orderly, CanEnd
  <1>2. d \in Drivers
    BY <1>1 DEF Inv, OrderInv, RidesDriven
  <1>3. l \in Request /\ l.pc = "complete" /\ l.driver = d /\ l.ride = r
    BY <1>2 DEF Idle, Request, Steps
  <1> HIDE DEF l
  <1>4. QED
    BY <1>1, <1>2, <1>3, DriverCallOrder

\* A request that belongs to no driver and has nothing to rely on yet.
LEMMA OtherCallOrder ==
    ASSUME Orderly, Inv, [Next]_vars, UNCHANGED <<rides, payments, receipts>>,
           NEW w \in Workers, NEW locals \in Request, Goto(w, locals),
           locals.driver = None,
           locals.pc \in {"cash", "find", "markOther", "receiptPayment"},
           locals.pc = "cash" => locals.payment \in Payments /\ Exists(locals.payment),
           locals.pc = "receiptPayment" => rides[locals.ride].status = "COMPLETED"
    PROVE  OrderInv'
  <1>1. req'[w] = locals /\ \A v \in Workers \ {w} : req'[v] = req[v]
    BY DEF Goto, Inv, TypeInv, TypeOK
  <1>2. OneAtATime'
    BY <1>1, KeepOneAtATime
  <1>3. DriverRequest(w)' /\ MoneyRequest(w)'
    BY <1>1 DEF DriverRequest, MoneyRequest, Exists
  <1>4. QED
    BY <1>1, <1>2, <1>3, ReadStep

LEMMA CallOrder ==
    ASSUME Orderly, Inv, [Next]_vars, NEW w \in Workers, Call(w)
    PROVE  OrderInv'
  <1>1. ASSUME NEW p \in Payments, CashPayment(w, p) PROVE OrderInv'
    <2> DEFINE l == [Idle EXCEPT !.pc = "cash", !.payment = p]
    <2>1. l \in Request /\ l.pc = "cash" /\ l.payment = p /\ l.driver = None
      BY DEF Idle, Request, Steps
    <2> HIDE DEF l
    <2>2. Goto(w, l) /\ Exists(p) /\ UNCHANGED <<rides, payments, receipts>>
      BY <1>1 DEF CashPayment, l
    <2>3. QED
      BY <2>1, <2>2, OtherCallOrder
  <1>2. ASSUME NEW r \in Rides, GenerateReceipt(w, r) PROVE OrderInv'
    <2> DEFINE l == [Idle EXCEPT !.pc = "receiptPayment", !.ride = r]
    <2>1. l \in Request /\ l.pc = "receiptPayment" /\ l.ride = r /\ l.driver = None
      BY DEF Idle, Request, Steps
    <2> HIDE DEF l
    <2>2. /\ Goto(w, l) /\ rides[r].status = "COMPLETED"
          /\ UNCHANGED <<rides, payments, receipts>>
      BY <1>2 DEF GenerateReceipt, l
    <2>3. QED
      BY <2>1, <2>2, OtherCallOrder
  <1>3. ASSUME NEW t \in Transactions, WebhookReceive(w, t) \/ WebhookReceiveOther(w, t)
        PROVE  OrderInv'
    <2>1. UNCHANGED <<rides, payments, receipts>>
      BY <1>3 DEF WebhookReceive, WebhookReceiveOther
    <2>2. CASE UNCHANGED req
      <3>1. BillsKept
        BY <2>1 DEF BillsKept, Exists
      <3>2. DriverRequest(w)' /\ MoneyRequest(w)' /\ OneAtATime'
        BY <2>1, <2>2, <3>1, KeepRequest, KeepOneAtATime
      <3>3. QED
        BY <2>1, <2>2, <3>2, ReadStep
    <2>3. ASSUME NEW step \in {"find", "markOther"},
                 Goto(w, [Idle EXCEPT !.pc = step, !.tx = t])
          PROVE  OrderInv'
      <3> DEFINE l == [Idle EXCEPT !.pc = step, !.tx = t]
      <3>1. l \in Request /\ l.pc = step /\ l.driver = None
        BY DEF Idle, Request, Steps
      <3> HIDE DEF l
      <3>2. Goto(w, l)
        BY <2>3 DEF l
      <3>3. QED
        BY <2>1, <3>1, <3>2, OtherCallOrder
    <2>4. QED
      BY <1>3, <2>2, <2>3 DEF WebhookReceive, WebhookReceiveOther
  <1>4. ASSUME NEW p \in Payments, NEW x \in Transactions \cup {None},
               ConfirmPayment(w, p, x)
        PROVE  FALSE
    BY <1>4 DEF ConfirmPayment, Calls, Orderly
  <1>5. QED
    BY <1>1, <1>2, <1>3, <1>4, StartRideOrder, EndRideOrder DEF Call

-----------------------------------------------------------------------------
\* A step that writes the one open ride of its driver, or opens one.
LEMMA RideStep ==
    ASSUME Orderly, Inv, [Next]_vars, UNCHANGED <<payments, receipts, charges>>,
           NEW w \in Workers, NEW r \in Rides, NEW d \in Drivers,
           req[w].driver = d,
           \A s \in Rides \ {r} : rides'[s] = rides[s],
           \/ r \in OpenRides(d)
           \/ rides[r] = NoRide /\ OpenRides(d) = {},
           rides'[r].driver = d,
           rides'[r].status \in {"DRAFT", "ONGOING", "COMPLETED"},
           rides'[r].status = "COMPLETED" => rides'[r].fare \in Amounts,
           \A v \in Workers \ {w} : req'[v] = req[v],
           OneAtATime', DriverRequest(w)', MoneyRequest(w)'
    PROVE  OrderInv'
  <1>1. rides[r].status \in {"NONE", "DRAFT", "ONGOING"}
    BY DEF OpenRides, NoRide
  <1>2. RidesDriven'
    BY DEF Inv, OrderInv, RidesDriven
  <1>3. \A e \in Drivers \ {d} : OpenRides(e)' = OpenRides(e)
    BY NoneAssumption DEF OpenRides, NoRide
  <1>4. OpenRides(d)' \subseteq {r}
    BY DEF OpenRides, Inv, OrderInv, OneOpenRide
  <1>5. OneOpenRide'
    BY <1>3, <1>4 DEF Inv, OrderInv, OneOpenRide
  <1>6. BillsShowFares' /\ CardAmounts' /\ ReceiptsShowFares'
    BY <1>1 DEF Inv, OrderInv, BillsShowFares, CardAmounts, ReceiptsShowFares, Exists
  <1>7. ASSUME NEW v \in Workers \ {w} PROVE DriverRequest(v)' /\ MoneyRequest(v)'
    <2>1. DriverRequest(v) /\ MoneyRequest(v) /\ FilledIn(req[v])
      BY DEF Inv, OrderInv, Requests, TypeInv, LocalsOK
    <2>2. req'[v] = req[v] /\ req[v].driver # d
      BY NoneAssumption DEF Inv, OrderInv, OneAtATime
    <2>3. \A s \in Rides : HasPayment(s)' = HasPayment(s)
      BY DEF HasPayment, PaymentOf, Exists
    <2>4. rides[r].driver \in {d, None}
      BY DEF OpenRides, NoRide
    <2>5. DriverRequest(v)'
      BY <1>3, <2>1, <2>2, <2>3, <2>4, NoneAssumption DEF DriverRequest, FilledIn
    <2>6. MoneyRequest(v)'
      BY <1>1, <2>1, <2>2 DEF MoneyRequest, FilledIn, Exists
    <2>7. QED
      BY <2>5, <2>6
  <1>8. Requests'
    BY <1>7 DEF Requests
  <1>9. QED
    BY <1>2, <1>5, <1>6, <1>8 DEF OrderInv

LEMMA StartPromoteOrder ==
    ASSUME Orderly, Inv, [Next]_vars, NEW w \in Workers, StartPromote(w)
    PROVE  OrderInv'
  <1> DEFINE r == req[w].ride
             d == req[w].driver
  <1>1. /\ r \in Rides /\ d \in Drivers
        /\ rides[r].driver = d /\ rides[r].status = "DRAFT"
    BY DEF StartPromote, At, Inv, TypeInv, LocalsOK, FilledIn, OrderInv, Requests,
           DriverRequest
  <1>2. /\ \A s \in Rides \ {r} : rides'[s] = rides[s]
        /\ rides'[r].driver = d /\ rides'[r].status = "ONGOING"
    BY <1>1 DEF StartPromote, Inv, TypeInv, TypeOK, RideRow
  <1>3. QED
    BY <1>1, <1>2, ReturnOrder, RideStep DEF StartPromote, OpenRides

LEMMA StartCreateOrder ==
    ASSUME Orderly, Inv, [Next]_vars, NEW w \in Workers, StartCreate(w)
    PROVE  OrderInv'
  <1> DEFINE d == req[w].driver
  <1>1. d \in Drivers /\ req[w].want \in {"DRAFT", "ONGOING"} /\ OpenRides(d) = {}
    BY DEF StartCreate, At, Inv, OrderInv, Requests, DriverRequest
  <1>2. PICK r \in Rides : /\ rides[r] = NoRide
                           /\ rides' = [rides EXCEPT ![r] = [status |-> req[w].want,
                                                             driver |-> req[w].driver,
                                                             fare   |-> None]]
    BY DEF StartCreate
  <1>3. /\ \A s \in Rides \ {r} : rides'[s] = rides[s]
        /\ rides'[r].driver = d /\ rides'[r].status = req[w].want
    BY <1>2 DEF Inv, TypeInv, TypeOK
  <1>4. QED
    BY <1>1, <1>2, <1>3, ReturnOrder, RideStep DEF StartCreate

LEMMA EndCompleteOrder ==
    ASSUME Orderly, Inv, [Next]_vars, NEW w \in Workers, EndComplete(w)
    PROVE  OrderInv'
  <1> DEFINE r == req[w].ride
             d == req[w].driver
             fare == req[w].amount
  <1>1. /\ r \in Rides /\ d \in Drivers /\ fare \in Amounts
        /\ rides[r].driver = d /\ rides[r].status = "ONGOING"
    BY DEF EndComplete, At, Inv, TypeInv, LocalsOK, FilledIn, OrderInv, Requests,
           DriverRequest
  <1>2. /\ \A s \in Rides \ {r} : rides'[s] = rides[s]
        /\ rides'[r].driver = d /\ rides'[r].status = "COMPLETED"
        /\ rides'[r].fare = fare
    BY <1>1 DEF EndComplete, Inv, TypeInv, TypeOK, RideRow
  <1>3. /\ req'[w].pc = "upsert" /\ req'[w].driver = d /\ req'[w].ride = r
        /\ req'[w].amount = fare
        /\ \A v \in Workers \ {w} : req'[v] = req[v]
    BY DEF EndComplete, Goto, Inv, TypeInv, TypeOK, Request
  <1>4. PaymentOf(r) = {} /\ \A s \in Rides : PaymentOf(s)' = PaymentOf(s)
    BY <1>1 DEF EndComplete, PaymentOf, Exists, Inv, OrderInv, BillsShowFares
  <1>5. DriverRequest(w)' /\ MoneyRequest(w)'
    BY <1>1, <1>2, <1>3, <1>4 DEF DriverRequest, MoneyRequest, HasPayment
  <1>6. OneAtATime'
    BY <1>3, KeepOneAtATime
  <1>7. QED
    BY <1>1, <1>2, <1>3, <1>5, <1>6, RideStep DEF EndComplete, OpenRides

\* The upsert finds no payment of its ride, so it inserts one: nobody else
\* bills the ride of a driver who is waiting for an answer.
LEMMA UpsertInserts ==
    ASSUME Orderly, Inv, NEW w \in Workers, EndUpsert(w)
    PROVE  /\ req[w].ride \in Rides
           /\ rides[req[w].ride].status = "COMPLETED"
           /\ rides[req[w].ride].fare = req[w].amount
           /\ PaymentOf(req[w].ride) = {}
           /\ \E p \in Payments :
                 /\ payments[p].status = "UNUSED"
                 /\ payments' = [payments EXCEPT ![p] = NewBill(req[w].ride, req[w].amount)]
  BY DEF EndUpsert, At, Inv, TypeInv, LocalsOK, FilledIn, OrderInv, Requests,
         DriverRequest, HasPayment

LEMMA EndUpsertOrder ==
    ASSUME Orderly, Inv, [Next]_vars, NEW w \in Workers, EndUpsert(w)
    PROVE  OrderInv'
  <1> DEFINE r == req[w].ride
             bill == NewBill(r, req[w].amount)
  <1>1. PICK p \in Payments : payments[p].status = "UNUSED"
                              /\ payments' = [payments EXCEPT ![p] = bill]
    BY UpsertInserts
  <1>2. /\ r \in Rides /\ rides[r].status = "COMPLETED"
        /\ rides[r].fare = req[w].amount
    BY UpsertInserts
  <1>3. /\ payments'[p] = bill /\ ~Exists(p)
        /\ \A q \in Payments \ {p} : payments'[q] = payments[q]
        /\ UNCHANGED <<rides, receipts, events, charges>> /\ Return(w)
    BY <1>1 DEF EndUpsert, Exists, Inv, TypeInv, TypeOK
  <1>4. /\ bill.status = "PENDING" /\ bill.ride = r /\ bill.amount = req[w].amount
        /\ bill.external = None
    BY DEF NewBill
  <1> HIDE DEF bill
  <1>5. BillsShowFares'
    BY <1>2, <1>3, <1>4 DEF Inv, OrderInv, BillsShowFares, Exists
  <1>6. CardAmounts' /\ ReceiptsShowFares' /\ RidesDriven' /\ OneOpenRide'
    BY <1>3, <1>4, NoneAssumption
    DEF Inv, OrderInv, CardAmounts, ReceiptsShowFares, RidesDriven, OneOpenRide,
        OpenRides
  <1>7. ASSUME NEW v \in Workers \ {w} PROVE DriverRequest(v)' /\ MoneyRequest(v)'
    <2>1. DriverRequest(v) /\ MoneyRequest(v) /\ FilledIn(req[v]) /\ req'[v] = req[v]
      BY <1>3, ReturnOrder DEF Inv, OrderInv, Requests, TypeInv, LocalsOK
    <2>2. \A s \in Rides \ {r} : HasPayment(s)' = HasPayment(s)
      BY <1>3, <1>4 DEF HasPayment, PaymentOf, Exists
    <2>3. req[v].pc = "upsert" => req[v].ride # r
      <3>1. DriverRequest(w) /\ req[w].pc = "upsert"
        BY DEF EndUpsert, At, Inv, OrderInv, Requests
      <3>2. OneAtATime
        BY DEF Inv, OrderInv
      <3>3. QED
        BY <2>1, <3>1, <3>2, NoneAssumption DEF DriverRequest, OneAtATime
    <2>4. DriverRequest(v)'
      BY <1>3, <2>1, <2>2, <2>3 DEF DriverRequest, FilledIn, OpenRides
    <2>5. MoneyRequest(v)'
      BY <1>3, <2>1 DEF MoneyRequest, FilledIn, Exists
    <2>6. QED
      BY <2>4, <2>5
  <1>8. Requests' /\ OneAtATime'
    BY <1>3, <1>7, ReturnOrder DEF Requests
  <1>9. QED
    BY <1>5, <1>6, <1>8 DEF OrderInv

-----------------------------------------------------------------------------
\* Cash and card settlement change neither ride nor amount of the payment.
LEMMA CashWriteOrder ==
    ASSUME Orderly, Inv, [Next]_vars, NEW w \in Workers, CashWrite(w)
    PROVE  OrderInv'
  <1> DEFINE p == req[w].payment
  <1>1. /\ p \in Payments /\ Exists(p)
        /\ UNCHANGED <<rides, receipts, charges>> /\ Return(w)
        /\ \A q \in Payments \ {p} : payments'[q] = payments[q]
    BY DEF CashWrite, At, Inv, TypeInv, TypeOK, LocalsOK, FilledIn
  <1>2. /\ payments'[p].status = "PAID" /\ payments'[p].ride = payments[p].ride
        /\ payments'[p].amount = payments[p].amount
        /\ payments'[p].external = payments[p].external
    BY <1>1 DEF CashWrite, CashPaid, Inv, TypeInv, TypeOK, PaymentRow
  <1>3. BillsKept /\ \A q \in Payments : payments'[q].external = payments[q].external
    BY <1>1, <1>2 DEF BillsKept, Exists
  <1>4. ReceiptsShowFares'
    BY <1>1 DEF Inv, OrderInv, ReceiptsShowFares
  <1>5. QED
    BY <1>1, <1>3, <1>4, KeepCardAmounts, ReturnOrder, QuietStep

LEMMA WebhookSettleOrder ==
    ASSUME Orderly, Inv, [Next]_vars, NEW w \in Workers, WebhookSettle(w)
    PROVE  OrderInv'
  <1> DEFINE p == req[w].payment
             t == req[w].tx
  <1>1. /\ p \in Payments /\ t \in Transactions /\ Exists(p)
        /\ UNCHANGED <<rides, receipts, charges>>
        /\ \A q \in Payments \ {p} : payments'[q] = payments[q]
    BY DEF WebhookSettle, At, Inv, TypeInv, TypeOK, LocalsOK, FilledIn
  <1>2. payments[p].amount = charges[t].amount
    BY DEF WebhookSettle, At, Inv, OrderInv, Requests, MoneyRequest
  <1>3. /\ payments'[p].status = "PAID" /\ payments'[p].ride = payments[p].ride
        /\ payments'[p].amount = payments[p].amount
        /\ payments'[p].external = t
    BY <1>1 DEF WebhookSettle, Settled, Inv, TypeInv, TypeOK, PaymentRow
  <1>4. BillsKept
    BY <1>1, <1>3 DEF BillsKept, Exists
  <1>5. CardAmounts' /\ ReceiptsShowFares'
    BY <1>1, <1>2, <1>3 DEF Inv, OrderInv, CardAmounts, ReceiptsShowFares
  <1>6. /\ req'[w].pc = "markProcessed" /\ req'[w].driver = req[w].driver
        /\ \A v \in Workers \ {w} : req'[v] = req[v]
    BY DEF WebhookSettle, Goto, Inv, TypeInv, TypeOK, Request
  <1>7. DriverRequest(w)' /\ MoneyRequest(w)' /\ OneAtATime'
    BY <1>6, KeepOneAtATime DEF DriverRequest, MoneyRequest
  <1>8. QED
    BY <1>1, <1>4, <1>5, <1>6, <1>7, QuietStep

LEMMA WebhookFindOrder ==
    ASSUME Orderly, Inv, [Next]_vars, NEW w \in Workers, WebhookFind(w)
    PROVE  OrderInv'
  <1>1. UNCHANGED <<rides, payments, receipts, charges>>
    BY DEF WebhookFind
  <1>2. ASSUME NEW p \in PaymentFor(req[w].tx),
               Goto(w, [req[w] EXCEPT !.pc = "settle", !.payment = p])
        PROVE  OrderInv'
    <2>1. /\ req'[w].pc = "settle" /\ req'[w].payment = p /\ req'[w].tx = req[w].tx
          /\ req'[w].driver = req[w].driver
          /\ \A v \in Workers \ {w} : req'[v] = req[v]
      BY <1>2 DEF Goto, Inv, TypeInv, TypeOK, Request
    <2>2. Exists(p) /\ payments[p].amount = charges[req[w].tx].amount
      BY DEF PaymentFor, Exists
    <2>3. DriverRequest(w)' /\ MoneyRequest(w)' /\ OneAtATime'
      BY <1>1, <2>1, <2>2, KeepOneAtATime DEF DriverRequest, MoneyRequest, Exists
    <2>4. QED
      BY <1>1, <2>1, <2>3, ReadStep
  <1>3. CASE Goto(w, [req[w] EXCEPT !.pc = "markFailed"])
    <2>1. /\ req'[w].pc = "markFailed" /\ req'[w].driver = req[w].driver
          /\ \A v \in Workers \ {w} : req'[v] = req[v]
      BY <1>3 DEF Goto, Inv, TypeInv, TypeOK, Request
    <2>2. DriverRequest(w)' /\ MoneyRequest(w)' /\ OneAtATime'
      BY <2>1, KeepOneAtATime DEF DriverRequest, MoneyRequest
    <2>3. QED
      BY <1>1, <2>1, <2>2, ReadStep
  <1>4. QED
    BY <1>2, <1>3 DEF WebhookFind

\* The snapshot a receipt is built from is of the ride's only payment, so its
\* amount is the ride's fare, now and when it is written.
LEMMA ReceiptReadPaymentOrder ==
    ASSUME Orderly, Inv, [Next]_vars, NEW w \in Workers, ReceiptReadPayment(w)
    PROVE  OrderInv'
  <1>1. PICK p \in PaidPaymentOf(req[w].ride) :
            Goto(w, [req[w] EXCEPT !.pc = "receiptWrite", !.payment = p,
                                   !.amount = payments[p].amount,
                                   !.provider = payments[p].provider,
                                   !.external = payments[p].external])
    BY DEF ReceiptReadPayment
  <1>2. /\ req'[w].pc = "receiptWrite" /\ req'[w].ride = req[w].ride
        /\ req'[w].amount = payments[p].amount /\ req'[w].driver = req[w].driver
        /\ \A v \in Workers \ {w} : req'[v] = req[v]
    BY <1>1 DEF Goto, Inv, TypeInv, TypeOK, Request
  <1>3. /\ rides[req[w].ride].status = "COMPLETED"
        /\ payments[p].amount = rides[req[w].ride].fare
    BY DEF PaidPaymentOf, PaymentOf, Inv, OrderInv, BillsShowFares
  <1>4. UNCHANGED <<rides, payments, receipts>>
    BY DEF ReceiptReadPayment
  <1>5. DriverRequest(w)' /\ MoneyRequest(w)' /\ OneAtATime'
    BY <1>2, <1>3, <1>4, KeepOneAtATime DEF DriverRequest, MoneyRequest
  <1>6. QED
    BY <1>2, <1>4, <1>5, ReadStep

LEMMA ReceiptWriteOrder ==
    ASSUME Orderly, Inv, [Next]_vars, NEW w \in Workers, ReceiptWrite(w)
    PROVE  OrderInv'
  <1> DEFINE r == req[w].ride
  <1>1. /\ r \in Rides /\ rides[r].status = "COMPLETED"
        /\ req[w].amount = rides[r].fare
    BY DEF ReceiptWrite, At, Inv, TypeInv, LocalsOK, FilledIn, OrderInv, Requests,
           MoneyRequest
  <1>2. /\ receipts'[r].amount = req[w].amount
        /\ \A s \in Rides \ {r} : receipts'[s] = receipts[s]
        /\ UNCHANGED <<rides, payments, charges>> /\ Return(w)
    BY <1>1 DEF ReceiptWrite, Inv, TypeInv, TypeOK
  <1>3. ReceiptsShowFares'
    BY <1>1, <1>2 DEF Inv, OrderInv, ReceiptsShowFares
  <1>4. BillsKept
    BY <1>2 DEF BillsKept, Exists
  <1>5. QED
    BY <1>2, <1>3, <1>4, KeepCardAmounts, ReturnOrder, QuietStep

LEMMA StepOrder ==
    ASSUME Orderly, Inv, [Next]_vars, NEW w \in Workers, Step(w) \/ Fail(w)
    PROVE  OrderInv'
  <1>1. CASE WebhookMarkProcessed(w) \/ WebhookMarkFailed(w) \/ Reject(w) \/ Fail(w)
    BY <1>1, ReturnOrder, ReadStep
    DEF WebhookMarkProcessed, WebhookMarkFailed, Reject, Fail, Abandon
  <1>2. CASE ConfirmWrite(w)
    BY <1>2 DEF ConfirmWrite, At, Orderly, Inv, CardInv, NobodyConfirms
  <1>3. QED
    BY <1>1, <1>2, StartPromoteOrder, StartCreateOrder, EndCompleteOrder,
       EndUpsertOrder, CashWriteOrder, WebhookFindOrder, WebhookSettleOrder,
       ReceiptReadPaymentOrder, ReceiptWriteOrder DEF Step

LEMMA NextOrderInv == Inv /\ [Next]_vars => OrderInv'
  <1> SUFFICES ASSUME Inv, [Next]_vars, Orderly PROVE OrderInv'
    BY DEF OrderInv, Orderly
  <1>1. ASSUME UNCHANGED <<rides, payments, receipts, req>>
        PROVE  OrderInv'
    <2>1. BillsKept
      BY <1>1 DEF BillsKept, Exists
    <2>2. Requests'
      BY <1>1, <2>1, KeepRequest DEF Requests
    <2>3. CardAmounts'
      BY <1>1, <2>1, KeepCardAmounts
    <2>4. QED
      BY <1>1, <2>1, <2>2, <2>3, KeepBills
      DEF Inv, OrderInv, OneAtATime, RidesDriven, OneOpenRide, OpenRides, ReceiptsShowFares
  <1>2. ASSUME NEW t \in Transactions, NEW p \in Payments, NEW a \in Amounts,
               Charge(t, p, a)
        PROVE  OrderInv'
    BY <1>1, <1>2 DEF Charge
  <1>3. CASE Admin
    BY <1>3 DEF Admin, AdminCreatePayment, AdminUpdatePayment, AdminDeletePayment, Orderly
  <1>4. CASE UNCHANGED vars
    BY <1>1, <1>4 DEF vars
  <1>5. QED
    BY <1>2, <1>3, <1>4, CallOrder, StepOrder DEF Next

LEMMA Invariant == Spec => []Inv
  <1>1. Init => Inv
    BY InitTypeInv, InitSafeInv, InitCardInv, InitOrderInv DEF Inv
  <1>2. Inv /\ [Next]_vars => Inv'
    BY NextTypeInv, NextSafeInv, NextCardInv, NextOrderInv DEF Inv
  <1>3. QED
    BY <1>1, <1>2, PTL DEF Spec

\* A card settlement is for the charged amount, although another await lies
\* between the comparison and the write: no handler that can run meanwhile
\* changes the amount of a bill.
THEOREM SettlementsAreExact ==
    ASSUME Orderly
    PROVE  Spec => []SettledAmount
  <1>1. Inv => SettledAmount
    BY DEF Inv, OrderInv, CardAmounts, SettledAmount
  <1>2. QED
    BY <1>1, Invariant, PTL

\* Every receipt shows its ride's fare, although the fare, the bill and the
\* snapshot are written by three requests.
THEOREM ReceiptsShowTheFare ==
    ASSUME Orderly
    PROVE  Spec => []ReceiptShowsFare
  <1>1. Inv => ReceiptShowsFare
    BY DEF Inv, OrderInv, ReceiptsShowFares, ReceiptShowsFare
  <1>2. QED
    BY <1>1, Invariant, PTL

-----------------------------------------------------------------------------
(***************************************************************************)
(* RidePayments implements RideLifecycle.  Opening, completing and billing *)
(* a ride and the first settlement of its payment are the abstract steps;  *)
(* every other step is a stutter.                                          *)
(***************************************************************************)
PhaseOfRow(r) ==
    CASE rides[r].status = "NONE" -> "none"
      [] rides[r].status \in {"DRAFT", "ONGOING"} -> "open"
      [] OTHER -> "completed"

\* A ride without a payment is as its row says; one with its one payment is
\* billed or settled, at that payment's amount.
LEMMA UnbilledPhase ==
    ASSUME NEW r \in Rides, PaymentOf(r) = {}
    PROVE  Phase(r) = PhaseOfRow(r) /\ BilledFare(r) = rides[r].fare
  BY DEF Phase, BilledFare, PhaseOfRow

LEMMA BilledPhase ==
    ASSUME NEW r \in Rides, NEW p \in Payments, PaymentOf(r) = {p}
    PROVE  /\ Phase(r) = IF payments[p].status = "PAID" THEN "settled" ELSE "billed"
           /\ BilledFare(r) = payments[p].amount
  BY DEF Phase, BilledFare

\* The same after a step.
LEMMA UnbilledPhaseNext ==
    ASSUME NEW r \in Rides, PaymentOf(r)' = {}
    PROVE  Phase(r)' = PhaseOfRow(r)' /\ BilledFare(r)' = rides'[r].fare
  BY DEF Phase, BilledFare, PhaseOfRow

LEMMA BilledPhaseNext ==
    ASSUME NEW r \in Rides, NEW p \in Payments, PaymentOf(r)' = {p}
    PROVE  /\ Phase(r)' = IF payments'[p].status = "PAID" THEN "settled" ELSE "billed"
           /\ BilledFare(r)' = payments'[p].amount
  BY DEF Phase, BilledFare

\* A ride whose row and payment keep what Phase and BilledFare look at.
LEMMA SamePhase ==
    ASSUME NEW r \in Rides,
           rides'[r].status = rides[r].status, rides'[r].fare = rides[r].fare,
           PaymentOf(r)' = PaymentOf(r),
           \A p \in PaymentOf(r) : /\ payments'[p].status = payments[p].status
                                   /\ payments'[p].amount = payments[p].amount
    PROVE  Phase(r)' = Phase(r) /\ BilledFare(r)' = BilledFare(r)
  BY DEF Phase, BilledFare

\* How a step is shown to be an abstract step: by what it does to each ride.
LEMMA Stutter ==
    ASSUME \A r \in Rides : /\ Phase(r)' = Phase(r)
                            /\ rides'[r].driver = rides[r].driver
                            /\ BilledFare(r)' = BilledFare(r)
    PROVE  UNCHANGED Lifecycle!vars
  BY DEF Lifecycle!vars

LEMMA AdvanceRide ==
    ASSUME NEW r \in Rides, NEW from, NEW to,
           Phase(r) = from, Phase(r)' = to,
           \A s \in Rides \ {r} : Phase(s)' = Phase(s)
    PROVE  Lifecycle!Advance(r, from, to)
  BY DEF Lifecycle!Advance

\* A step that changes no ride and of no payment the status.
LEMMA QuietStutter ==
    ASSUME BillsKept, rides' = rides,
           \A p \in Payments : payments'[p].status = payments[p].status
    PROVE  UNCHANGED Lifecycle!vars
  <1>1. ASSUME NEW r \in Rides
        PROVE  Phase(r)' = Phase(r) /\ BilledFare(r)' = BilledFare(r)
    <2>1. PaymentOf(r)' = PaymentOf(r)
      BY SamePayments
    <2>2. \A p \in PaymentOf(r) : payments'[p].amount = payments[p].amount
      BY DEF BillsKept, PaymentOf
    <2>3. QED
      BY <2>1, <2>2, SamePhase DEF PaymentOf
  <1>2. QED
    BY <1>1, Stutter

\* A payment becomes PAID, or is settled once more.
LEMMA SettleStep ==
    ASSUME Orderly, Inv, BillsKept, rides' = rides,
           NEW p \in Payments, Exists(p), payments'[p].status = "PAID",
           \A q \in Payments \ {p} : payments'[q] = payments[q]
    PROVE  [Lifecycle!Next]_Lifecycle!vars
  <1> DEFINE r == payments[p].ride
  <1>1. r \in Rides
    BY DEF Inv, OrderInv, BillsShowFares
  <1>2. PaymentOf(r) = {p}
    BY DEF PaymentOf, Inv, SafeInv, UniqueRideId
  <1>3. CASE payments[p].status = "PAID"
    BY <1>3, QuietStutter
  <1>4. CASE payments[p].status # "PAID"
    <2>1. PICK s \in Rides : s = r
      BY <1>1
    <2>2. PaymentOf(s) = {p} /\ PaymentOf(s)' = {p}
      BY <1>2, <2>1, SamePayments
    <2>3. /\ Phase(s) = "billed" /\ Phase(s)' = "settled"
          /\ BilledFare(s)' = BilledFare(s)
      BY <1>4, <2>2, BilledPhase, BilledPhaseNext DEF BillsKept
    <2>4. ASSUME NEW o \in Rides \ {s}
          PROVE  Phase(o)' = Phase(o) /\ BilledFare(o)' = BilledFare(o)
      <3>1. p \notin PaymentOf(o)
        BY <2>1 DEF PaymentOf
      <3>2. QED
        BY <3>1, SamePayments, SamePhase DEF PaymentOf
    <2>5. Lifecycle!Settle(s)
      BY <2>3, <2>4, AdvanceRide DEF Lifecycle!Settle
    <2>6. QED
      BY <2>5 DEF Lifecycle!Next
  <1>5. QED
    BY <1>3, <1>4

\* A ride that is open or not there has no payment.
LEMMA OpenUnbilled ==
    ASSUME Orderly, Inv, NEW r \in Rides, rides[r].status # "COMPLETED"
    PROVE  PaymentOf(r) = {}
  BY DEF PaymentOf, Inv, OrderInv, BillsShowFares

\* A step on one ride's row, and no payment.
LEMMA OtherRidesStay ==
    ASSUME UNCHANGED payments, NEW r \in Rides,
           \A s \in Rides \ {r} : rides'[s] = rides[s]
    PROVE  /\ PaymentOf(r)' = PaymentOf(r)
           /\ \A s \in Rides \ {r} :
                /\ Phase(s)' = Phase(s) /\ BilledFare(s)' = BilledFare(s)
                /\ rides'[s].driver = rides[s].driver
  <1>1. \A s \in Rides : PaymentOf(s)' = PaymentOf(s)
    BY DEF PaymentOf, Exists
  <1>2. QED
    BY <1>1, SamePhase

LEMMA StartCreateStep ==
    ASSUME Orderly, Inv, NEW w \in Workers, StartCreate(w)
    PROVE  Lifecycle!Next
  <1>1. PICK d \in Drivers : d = req[w].driver
    BY DEF StartCreate, At, Inv, OrderInv, Requests, DriverRequest
  <1>2. PICK r \in Rides : /\ rides[r] = NoRide
                           /\ rides' = [rides EXCEPT ![r] = [status |-> req[w].want,
                                                             driver |-> req[w].driver,
                                                             fare   |-> None]]
    BY DEF StartCreate
  <1>3. /\ rides'[r].status \in {"DRAFT", "ONGOING"} /\ rides'[r].driver = d
        /\ rides'[r].fare = rides[r].fare /\ rides[r].status = "NONE"
        /\ \A s \in Rides \ {r} : rides'[s] = rides[s]
    BY <1>1, <1>2 DEF StartCreate, At, NoRide, Inv, TypeInv, TypeOK, OrderInv,
                      Requests, DriverRequest
  <1>4. /\ PaymentOf(r) = {} /\ PaymentOf(r)' = {}
        /\ \A s \in Rides \ {r} :
             /\ Phase(s)' = Phase(s) /\ BilledFare(s)' = BilledFare(s)
             /\ rides'[s].driver = rides[s].driver
    BY <1>3, OpenUnbilled, OtherRidesStay DEF StartCreate
  <1>5. /\ Phase(r) = "none" /\ Phase(r)' = "open"
        /\ BilledFare(r)' = BilledFare(r)
    BY <1>3, <1>4, UnbilledPhase, UnbilledPhaseNext DEF PhaseOfRow
  <1>6. ASSUME NEW o \in Rides, rides[o].driver = d PROVE Phase(o) # "open"
    <2>1. rides[o].status \notin {"DRAFT", "ONGOING"}
      BY <1>1, <1>6 DEF StartCreate, At, Inv, OrderInv, Requests, DriverRequest, OpenRides
    <2>2. QED
      BY <2>1 DEF Phase
  <1>7. Lifecycle!Advance(r, "none", "open")
    BY <1>4, <1>5, AdvanceRide
  <1>8. Lifecycle!Open(r, d)
    BY <1>3, <1>4, <1>5, <1>6, <1>7 DEF Lifecycle!Open
  <1>9. QED
    BY <1>8 DEF Lifecycle!Next

LEMMA StartPromoteStep ==
    ASSUME Orderly, Inv, NEW w \in Workers, StartPromote(w)
    PROVE  UNCHANGED Lifecycle!vars
  <1>1. PICK r \in Rides : r = req[w].ride
    BY DEF StartPromote, At, Inv, TypeInv, LocalsOK, FilledIn
  <1>2. /\ rides[r].status = "DRAFT" /\ rides'[r].status = "ONGOING"
        /\ rides'[r].driver = rides[r].driver /\ rides'[r].fare = rides[r].fare
        /\ \A s \in Rides \ {r} : rides'[s] = rides[s]
    BY <1>1 DEF StartPromote, At, Inv, TypeInv, TypeOK, RideRow, OrderInv, Requests,
                DriverRequest
  <1>3. /\ PaymentOf(r) = {} /\ PaymentOf(r)' = {}
        /\ \A s \in Rides \ {r} :
             /\ Phase(s)' = Phase(s) /\ BilledFare(s)' = BilledFare(s)
             /\ rides'[s].driver = rides[s].driver
    BY <1>2, OpenUnbilled, OtherRidesStay DEF StartPromote
  <1>4. Phase(r)' = Phase(r) /\ BilledFare(r)' = BilledFare(r)
    BY <1>2, <1>3, UnbilledPhase, UnbilledPhaseNext DEF PhaseOfRow
  <1>5. QED
    BY <1>2, <1>3, <1>4, Stutter

LEMMA EndCompleteStep ==
    ASSUME Orderly, Inv, NEW w \in Workers, EndComplete(w)
    PROVE  Lifecycle!Next
  <1>1. PICK r \in Rides, a \in Amounts : r = req[w].ride /\ a = req[w].amount
    BY DEF EndComplete, At, Inv, TypeInv, LocalsOK, FilledIn
  <1>2. /\ rides[r].status = "ONGOING" /\ rides'[r].status = "COMPLETED"
        /\ rides'[r].driver = rides[r].driver /\ rides'[r].fare = a
        /\ \A s \in Rides \ {r} : rides'[s] = rides[s]
    BY <1>1 DEF EndComplete, At, Inv, TypeInv, TypeOK, RideRow, OrderInv, Requests,
                DriverRequest
  <1>3. /\ PaymentOf(r) = {} /\ PaymentOf(r)' = {}
        /\ \A s \in Rides \ {r} :
             /\ Phase(s)' = Phase(s) /\ BilledFare(s)' = BilledFare(s)
             /\ rides'[s].driver = rides[s].driver
    BY <1>2, OpenUnbilled, OtherRidesStay DEF EndComplete
  <1>4. Phase(r) = "open" /\ Phase(r)' = "completed" /\ BilledFare(r)' = a
    BY <1>2, <1>3, UnbilledPhase, UnbilledPhaseNext DEF PhaseOfRow
  <1>5. Lifecycle!Advance(r, "open", "completed")
    BY <1>3, <1>4, AdvanceRide
  <1>6. Lifecycle!Complete(r, a)
    BY <1>2, <1>3, <1>4, <1>5 DEF Lifecycle!Complete
  <1>7. QED
    BY <1>6 DEF Lifecycle!Next

LEMMA EndUpsertStep ==
    ASSUME Orderly, Inv, NEW w \in Workers, EndUpsert(w)
    PROVE  Lifecycle!Next
  <1>1. PICK r \in Rides : r = req[w].ride
    BY UpsertInserts
  <1>2. PICK p \in Payments :
            /\ payments[p].status = "UNUSED"
            /\ payments' = [payments EXCEPT ![p] = NewBill(r, req[w].amount)]
    BY <1>1, UpsertInserts
  <1>3. /\ payments'[p].status = "PENDING" /\ payments'[p].ride = r
        /\ payments'[p].amount = rides[r].fare
        /\ \A q \in Payments \ {p} : payments'[q] = payments[q]
        /\ rides' = rides /\ rides[r].status = "COMPLETED" /\ PaymentOf(r) = {}
    BY <1>1, <1>2, UpsertInserts DEF NewBill, EndUpsert, Inv, TypeInv, TypeOK
  <1>4. /\ PaymentOf(r)' = {p}
        /\ \A s \in Rides \ {r} : PaymentOf(s)' = PaymentOf(s) /\ p \notin PaymentOf(s)
    BY <1>2, <1>3 DEF PaymentOf, Exists
  <1>5. /\ Phase(r) = "completed" /\ Phase(r)' = "billed"
        /\ BilledFare(r)' = BilledFare(r)
    BY <1>3, <1>4, UnbilledPhase, BilledPhaseNext DEF PhaseOfRow
  <1>6. \A s \in Rides \ {r} : Phase(s)' = Phase(s) /\ BilledFare(s)' = BilledFare(s)
    BY <1>3, <1>4, SamePhase DEF PaymentOf
  <1>7. Lifecycle!Bill(r)
    BY <1>3, <1>5, <1>6, AdvanceRide DEF Lifecycle!Bill
  <1>8. QED
    BY <1>7 DEF Lifecycle!Next

LEMMA CashWriteStep ==
    ASSUME Orderly, Inv, NEW w \in Workers, CashWrite(w)
    PROVE  [Lifecycle!Next]_Lifecycle!vars
  <1>1. PICK p \in Payments : p = req[w].payment
    BY DEF CashWrite, At, Inv, TypeInv, LocalsOK, FilledIn
  <1>2. /\ Exists(p) /\ rides' = rides
        /\ payments'[p].status = "PAID" /\ payments'[p].ride = payments[p].ride
        /\ payments'[p].amount = payments[p].amount
        /\ \A q \in Payments \ {p} : payments'[q] = payments[q]
    BY <1>1 DEF CashWrite, CashPaid, Inv, TypeInv, TypeOK, PaymentRow
  <1>3. BillsKept
    BY <1>2 DEF BillsKept, Exists
  <1>4. QED
    BY <1>2, <1>3, SettleStep

LEMMA WebhookSettleStep ==
    ASSUME Orderly, Inv, NEW w \in Workers, WebhookSettle(w)
    PROVE  [Lifecycle!Next]_Lifecycle!vars
  <1>1. PICK p \in Payments : p = req[w].payment
    BY DEF WebhookSettle, At, Inv, TypeInv, LocalsOK, FilledIn
  <1>2. /\ Exists(p) /\ rides' = rides
        /\ payments'[p].status = "PAID" /\ payments'[p].ride = payments[p].ride
        /\ payments'[p].amount = payments[p].amount
        /\ \A q \in Payments \ {p} : payments'[q] = payments[q]
    BY <1>1 DEF WebhookSettle, Settled, Inv, TypeInv, TypeOK, PaymentRow
  <1>3. BillsKept
    BY <1>2 DEF BillsKept, Exists
  <1>4. QED
    BY <1>2, <1>3, SettleStep

LEMMA UntouchedStutter ==
    ASSUME UNCHANGED <<rides, payments>>
    PROVE  UNCHANGED Lifecycle!vars
  BY QuietStutter DEF BillsKept, Exists

LEMMA NextImplements ==
    ASSUME Orderly, Inv, [Next]_vars
    PROVE  [Lifecycle!Next]_Lifecycle!vars
  <1>1. ASSUME NEW w \in Workers, Call(w) \/ Fail(w)
        PROVE  UNCHANGED <<rides, payments>>
    BY <1>1 DEF Call, StartRide, EndRide, CashPayment, ConfirmPayment,
       WebhookReceive, WebhookReceiveOther, GenerateReceipt, Fail, Abandon
  <1>2. ASSUME NEW w \in Workers, Step(w)
        PROVE  [Lifecycle!Next]_Lifecycle!vars
    <2>1. CASE \/ StartPromote(w) \/ StartCreate(w) \/ EndComplete(w) \/ EndUpsert(w)
               \/ CashWrite(w) \/ WebhookSettle(w)
      BY <2>1, StartPromoteStep, StartCreateStep, EndCompleteStep, EndUpsertStep,
         CashWriteStep, WebhookSettleStep
    <2>2. CASE \/ WebhookFind(w) \/ WebhookMarkProcessed(w) \/ WebhookMarkFailed(w)
               \/ ReceiptReadPayment(w) \/ ReceiptWrite(w) \/ Reject(w)
      BY <2>2, UntouchedStutter
      DEF WebhookFind, WebhookMarkProcessed, WebhookMarkFailed, ReceiptReadPayment,
          ReceiptWrite, Reject, Abandon
    <2>3. ~ConfirmWrite(w)
      BY DEF ConfirmWrite, At, Orderly, Inv, CardInv, NobodyConfirms
    <2>4. QED
      BY <1>2, <2>1, <2>2, <2>3 DEF Step
  <1>3. ASSUME NEW t \in Transactions, NEW p \in Payments, NEW a \in Amounts,
               Charge(t, p, a)
        PROVE  UNCHANGED <<rides, payments>>
    BY <1>3 DEF Charge
  <1>4. ~Admin
    BY DEF Admin, AdminCreatePayment, AdminUpdatePayment, AdminDeletePayment, Orderly
  <1>5. CASE UNCHANGED vars
    BY <1>5, UntouchedStutter DEF vars
  <1>6. QED
    BY <1>1, <1>2, <1>3, <1>4, <1>5, UntouchedStutter DEF Next

LEMMA InitImplements == Init => Lifecycle!Init
  <1> SUFFICES ASSUME Init PROVE Lifecycle!Init
    OBVIOUS
  <1>1. \A r \in Rides : rides[r] = NoRide /\ PaymentOf(r) = {}
    BY DEF Init, PaymentOf, Exists, Unused
  <1>2. \A r \in Rides : Phase(r) = "none" /\ BilledFare(r) = None
    BY <1>1, UnbilledPhase DEF PhaseOfRow, NoRide
  <1>3. QED
    BY <1>1, <1>2 DEF Lifecycle!Init, NoRide

\* Every behaviour of the handlers, seen through the tables, is a behaviour of
\* RideLifecycle: one open ride per driver, each ride completed, billed at its
\* fare and settled once, in that order.
THEOREM LifecycleIsImplemented ==
    ASSUME Orderly
    PROVE  Spec => RefinesLifecycle
  <1>1. Inv /\ [Next]_vars => [Lifecycle!Next]_Lifecycle!vars
    BY NextImplements
  <1>2. QED
    BY <1>1, InitImplements, Invariant, PTL DEF Spec, RefinesLifecycle, Lifecycle!Spec

\* A payment that is PAID stays PAID: the late upsert that would reopen it does
\* not exist when the driver's app waits for its answers.
THEOREM PaidStaysPaid ==
    ASSUME Orderly
    PROVE  Spec => PaidIsFinal
  <1> DEFINE A == \A p \in Payments : payments[p].status = "PAID"
                     => payments'[p].status \in {"PAID", "DELETED"}
  <1>1. ASSUME Inv, [Next]_vars PROVE A
    <2>1. CASE UNCHANGED payments
      BY <2>1
    <2>2. ASSUME NEW w \in Workers, EndUpsert(w) PROVE A
      BY <1>1, <2>2, UpsertInserts DEF Inv, TypeInv, TypeOK
    <2>3. ASSUME NEW w \in Workers, CashWrite(w) \/ WebhookSettle(w) PROVE A
      <3>1. /\ \A q \in Payments \ {req[w].payment} : payments'[q] = payments[q]
            /\ payments'[req[w].payment].status = "PAID"
        <4>1. CASE CashWrite(w)
          BY <1>1, <4>1 DEF CashWrite, CashPaid, At, Inv, TypeInv, TypeOK, LocalsOK,
                            FilledIn, PaymentRow
        <4>2. CASE WebhookSettle(w)
          BY <1>1, <4>2 DEF WebhookSettle, Settled, At, Inv, TypeInv, TypeOK,
                            LocalsOK, FilledIn, PaymentRow
        <4>3. QED
          BY <2>3, <4>1, <4>2
      <3>2. QED
        BY <3>1
    <2>4. ASSUME NEW w \in Workers PROVE ~ConfirmWrite(w)
      BY <1>1 DEF ConfirmWrite, At, Orderly, Inv, CardInv, NobodyConfirms
    <2>5. ~Admin
      BY DEF Admin, AdminCreatePayment, AdminUpdatePayment, AdminDeletePayment, Orderly
    <2>6. QED
      BY <1>1, <2>1, <2>2, <2>3, <2>4, <2>5
      DEF Next, Call, Step, Fail, vars, Charge, StartRide, EndRide, CashPayment,
          ConfirmPayment, WebhookReceive, WebhookReceiveOther, GenerateReceipt,
          StartPromote, StartCreate, EndComplete, WebhookFind, WebhookMarkProcessed,
          WebhookMarkFailed, ReceiptReadPayment, ReceiptWrite, Reject, Abandon
  <1>2. QED
    BY <1>1, Invariant, PTL DEF Spec, PaidIsFinal
=============================================================================
