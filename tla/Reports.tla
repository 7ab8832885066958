------------------------------ MODULE Reports ------------------------------
(***************************************************************************)
(* The reports and dashboards: PaymentsTransactionsService (totals, profit *)
(* timeline), AdminReportService, AdminDashboardService, the summary of    *)
(* NewRidesService and the driver's own summaries.                         *)
(*                                                                         *)
(* A report is several SELECTs without a transaction, awaited one after    *)
(* the other or sent together (Promise.all), so that rides and payments    *)
(* move on in between.  The statements that write them are those of        *)
(* RidePayments, with the dates and columns that the reports select by; a  *)
(* request is seen here only by its writes, each of which may come long    *)
(* after what the request has read (seen), since it is made by id alone.   *)
(***************************************************************************)
EXTENDS Fares, FiniteSetsExt

CONSTANTS
    Drivers,    \* driver profiles that can exist
    Rides,      \* ride ids (bound)
    Amounts,    \* fares of rides: records of subtotal, tax and total
    AdminAmounts, \* amounts an admin enters for a payment
    MaxTime,    \* bound on the clock, in days
    MaxWrites,  \* bound on the writes
    MaxMeanwhile, \* bound on the writes while queries sent together are under way
    MaxBetween, \* bound on the writes while queries are awaited one after the other
    AskingDriver, \* the driver whose history and summary are asked for
    None

Times == 1..MaxTime
Providers == {"VIVA", "CASH"}
Statuses == {"PENDING", "PAID"}
RideStatuses == {"DRAFT", "ONGOING", "COMPLETED", "CANCELLED"}

ASSUME ReportsAssumption ==
    /\ {MaxTime, MaxWrites, MaxMeanwhile, MaxBetween} \subseteq Nat \ {0}
    /\ IsFiniteSet(Drivers) /\ IsFiniteSet(Rides) /\ AdminAmounts \subseteq Int
    /\ AskingDriver \in Drivers /\ None \notin Drivers

\* Every fare is computed by one of the three modes; a metered and a custom fare
\* are a taxed subtotal.
ASSUME AmountsAssumption ==
    \A a \in Amounts : \E n \in 0..a.total : a \in {TaxedSubtotal(n), FixedFare(n)}

VARIABLES
    rides,      \* Ride table
    payments,   \* Payment table, by its unique rideId
    seen,       \* what requests still under way may have read of a ride
    hired,      \* the driver profiles that exist
    clock,
    writes,     \* how many writes so far
    report      \* the report in progress, or its answer

tables == <<rides, payments, seen, hired>>
vars == <<tables, clock, writes, report>>

\* A date of 0 is NULL, and so are the amounts that are 0 below: SUM skips NULL.
NoFare == [subtotal |-> 0, tax |-> 0, total |-> 0]
NoRide == [status |-> "NONE", driver |-> None, started |-> 0, ended |-> 0,
           fare |-> NoFare]
NoPayment == [status |-> "NONE", provider |-> "VIVA", amount |-> 0, net |-> 0,
              created |-> 0, captured |-> 0]

\* draft: a start may have read the ride as a DRAFT.  since: the first date an end may
\* have read of it as ONGOING.  fares: what ends have completed it with.  pending: a
\* settlement may have read its payment, which is still there, as PENDING.
Unseen == [draft |-> FALSE, since |-> 0, fares |-> {}, pending |-> FALSE]

NoReport == [kind |-> "none", from |-> 0, to |-> 0, todo |-> {}, answer |-> <<>>,
             writes |-> 0]

-----------------------------------------------------------------------------
(***************************************************************************)
(* The tables                                                              *)
(***************************************************************************)
InRange(t, from, to) == t # 0 /\ from <= t /\ t <= to    \* gte, lte

Exists(r)    == payments[r].status # "NONE"
Paid(r)      == payments[r].status = "PAID"
Completed(r) == rides[r].status = "COMPLETED"
Ongoing(r)   == rides[r].status = "ONGOING"

SumOf(f) == MapThenSumSet(LAMBDA x : f[x], DOMAIN f)
Fare(S)  == SumOf([r \in S |-> rides[r].fare.total])
Amount(S) == SumOf([r \in S |-> payments[r].amount])
Net(S)   == SumOf([r \in S |-> payments[r].net])

StartedIn(from, to)  == {r \in Rides : InRange(rides[r].started, from, to)}
EndedIn(from, to)    == {r \in Rides : InRange(rides[r].ended, from, to)}
CreatedIn(from, to)  == {r \in Rides : InRange(payments[r].created, from, to)}
CapturedIn(from, to) == {r \in Rides : InRange(payments[r].captured, from, to)}
PaidOf(S)      == {r \in S : Paid(r)}
CompletedOf(S) == {r \in S : Completed(r)}

-----------------------------------------------------------------------------
(***************************************************************************)
(* The queries, by the report that sends them                              *)
(***************************************************************************)
\* PaymentsTransactionsService.getPaymentsTransactions
AmountsByProvider(from, to) ==
    [v \in Providers |-> Amount({r \in PaidOf(CapturedIn(from, to)) : payments[r].provider = v})]
AmountsByStatus(from, to) ==
    [s \in Statuses |-> Amount({r \in CreatedIn(from, to) : payments[r].status = s})]
CountsByProvider(from, to) ==
    [v \in Providers |->
        Cardinality({r \in PaidOf(CreatedIn(from, to)) : payments[r].provider = v})]
CountsByStatus(from, to) ==
    [s \in Statuses |-> Cardinality({r \in CreatedIn(from, to) : payments[r].status = s})]
Count(from, to) == Cardinality(CreatedIn(from, to))

\* AdminReportService.getPaymentMethodReport and getDriverPerformanceReport
PaymentStats(from, to) ==
    [v \in Providers |->
        Cardinality({r \in EndedIn(from, to) : Exists(r) /\ payments[r].provider = v})]
CompletedCount(from, to) == Cardinality(CompletedOf(EndedIn(from, to)))
DriverStats(from, to) ==
    [d \in {rides[r].driver : r \in CompletedOf(EndedIn(from, to))} |->
        Fare({r \in CompletedOf(EndedIn(from, to)) : rides[r].driver = d})]
TotalDrivers == Cardinality(hired)

\* AdminReportService.getDashboardSummary
DashboardRides(from, to) == Cardinality(StartedIn(from, to))
\* Mutant: the period is forgotten.
DashboardStatus_AnyTime(from, to, s) == Cardinality({r \in Rides : rides[r].status = s})

DashboardStatus(from, to, s) ==
    Cardinality({r \in StartedIn(from, to) : rides[r].status = s})
DashboardActiveDrivers(from, to) ==
    Cardinality({rides[r].driver : r \in CompletedOf(StartedIn(from, to))})
DashboardRevenue(from, to) == Fare(CompletedOf(StartedIn(from, to)))
\* Of cards and of cash: two queries, here one answer by provider.
DashboardPaid(from, to) ==
    [v \in Providers |->
        Amount({r \in PaidOf(StartedIn(from, to)) : payments[r].provider = v})]

\* NewRidesService.calculateSummary: the fares of all rides, COMPLETED or not
RidesByStatus(from, to) ==
    [s \in RideStatuses |-> Cardinality({r \in StartedIn(from, to) : rides[r].status = s})]
RidesFare(from, to) == Fare(StartedIn(from, to))
PaymentsOfRides(from, to) ==
    [s \in Statuses |-> Cardinality({r \in StartedIn(from, to) : payments[r].status = s})]

\* AdminDashboardService: getLiveOperations, and the part of getPaymentsSummary that
\* goes by method: by capture date, whatever the status.
OngoingList == {r \in Rides : Ongoing(r)}
SummaryByProvider(from, to) ==
    [v \in Providers |-> Amount({r \in CapturedIn(from, to) : payments[r].provider = v})]

\* DriverRideService, of one driver: getRideHistory, getTodaysSummary
Mine(S) == {r \in S : rides[r].driver = AskingDriver}
HistoryRides(from) ==
    Mine({r \in StartedIn(from, MaxTime) : rides[r].status \in {"COMPLETED", "CANCELLED"}})
PaidToday(day) == Mine(CompletedOf(PaidOf(StartedIn(day, day))))
ActiveRide == Mine({r \in Rides : rides[r].status \in {"DRAFT", "ONGOING"}})

\* Single queries.  AdminDashboardService: getBussinessStatus, getPerformanceTrends
BusinessStatus(from, to) ==
    [total     |-> Cardinality(StartedIn(from, to)),
     completed |-> Cardinality(CompletedOf(StartedIn(from, to))),
     ongoing   |-> Cardinality({r \in StartedIn(from, to) : Ongoing(r)})]
Trends(from, to) ==
    [t \in {rides[r].started : r \in CompletedOf(StartedIn(from, to))} |->
        Cardinality(CompletedOf(StartedIn(t, t)))]

\* Mutant: payments that are not PAID are counted as well.
RevenueOverview_AnyStatus(from, to) == Amount(CapturedIn(from, to))

\* AdminDashboardService.getRevenueOverview
RevenueOverview(from, to) == Amount(PaidOf(CapturedIn(from, to)))

\* AdminReportService.getRevenueReport
RevenueGroups(from, to) ==
    LET ended == CompletedOf(EndedIn(from, to))
    IN  [week \in {WeekKey(rides[r].ended) : r \in ended} |->
            Fare({r \in ended : WeekKey(rides[r].ended) = week})]

\* PaymentsTransactionsService.getProfitTimeline: a bucket for each day or week
\* from the one of from to the one of to, whatever falls into it.
Timeline(from, to, bucket) ==
    [start \in {bucket[t] : t \in from..to} |->
        Net({r \in PaidOf(CreatedIn(1, MaxTime)) : bucket[payments[r].created] = start})]

-----------------------------------------------------------------------------
(***************************************************************************)
(* What each report shows, as the tables are now.                          *)
(***************************************************************************)
\* An answer keeps the counts and lists: no two sums of money of one answer have to
\* agree (ScreensAgree compares them as they are at one moment).
Screen(kind, from, to) ==
    CASE kind = "overview" ->
            [countsByProvider |-> CountsByProvider(from, to),
             countsByStatus   |-> CountsByStatus(from, to),
             count            |-> Count(from, to)]
      [] kind = "methods" ->
            [payments |-> PaymentStats(from, to), rides |-> CompletedCount(from, to)]
      [] kind = "drivers" ->
            [stats |-> DriverStats(from, to), drivers |-> TotalDrivers]
      [] kind = "dashboard" ->
            [rides     |-> DashboardRides(from, to),
             completed |-> DashboardStatus(from, to, "COMPLETED"),
             cancelled |-> DashboardStatus(from, to, "CANCELLED"),
             ongoing   |-> DashboardStatus(from, to, "ONGOING"),
             active    |-> DashboardActiveDrivers(from, to)]
      [] kind = "rides" ->
            [count    |-> DashboardRides(from, to),
             byStatus |-> RidesByStatus(from, to),
             payments |-> PaymentsOfRides(from, to)]
      [] kind = "live" ->
            [list |-> OngoingList, count |-> Cardinality(OngoingList)]
      [] kind = "history" ->
            [rides |-> HistoryRides(from), count |-> Cardinality(HistoryRides(from))]
      [] kind = "today" ->
            [paid |-> PaidToday(to), active |-> ActiveRide]

Kinds == {"overview", "methods", "drivers", "dashboard", "rides", "live", "history",
          "today"}

\* Mutant: the drivers are counted before their rides.
Order_DriversFirst(kind) == IF kind = "drivers" THEN <<"drivers", "stats">> ELSE <<>>

\* The order of the queries that are awaited one after the other; those of the
\* other reports are sent together.
Order(kind) ==
    CASE kind = "overview" -> <<"countsByProvider", "countsByStatus", "count">>
      [] kind = "methods"  -> <<"payments", "rides">>
      [] kind = "drivers"  -> <<"stats", "drivers">>
      [] kind = "live"     -> <<"list", "count">>
      [] kind = "today"    -> <<"paid", "active">>
      [] OTHER -> <<>>

\* Whether query p is answered before query q is sent.
Precedes(kind, p, q) ==
    \E i, j \in DOMAIN Order(kind) : i < j /\ Order(kind)[i] = p /\ Order(kind)[j] = q

-----------------------------------------------------------------------------
Init ==
    /\ rides    = [r \in Rides |-> NoRide]
    /\ payments = [r \in Rides |-> NoPayment]
    /\ seen     = [r \in Rides |-> Unseen]
    /\ hired    = {AskingDriver}
    /\ clock    = 1
    /\ writes   = 0
    /\ report   = NoReport

\* Nothing is written any more before the report is answered (bounds).
Bound(kind) == IF Order(kind) = <<>> THEN MaxMeanwhile ELSE MaxBetween
LastWrite == writes = MaxWrites \/ report.writes = Bound(report.kind)

\* A write is seen by the queries that have not been answered yet; a report whose
\* queries are all answered has been sent, and is not looked at any more.
Written ==
    /\ writes < MaxWrites /\ writes' = writes + 1
    /\ IF report.todo = {} THEN report' = NoReport
       ELSE /\ report.writes < Bound(report.kind)
            /\ report' = [report EXCEPT !.writes = @ + 1]
    /\ UNCHANGED clock

Hire(d) ==
    /\ hired' = hired \cup {d}
    /\ UNCHANGED <<rides, payments, seen>>
    /\ Written

\* ride.create, with any of the four statuses; starts that overlap have each seen
\* no open ride of their driver.
StartRide(r, d, status) ==
    /\ rides[r] = NoRide /\ d \in hired
    /\ rides' = [rides EXCEPT ![r] =
            [status |-> status, driver |-> d, started |-> clock, ended |-> 0, fare |-> NoFare]]
    /\ seen' = [seen EXCEPT ![r] =
            [draft |-> status = "DRAFT", since |-> IF status = "ONGOING" THEN clock ELSE 0,
             fares |-> {}, pending |-> FALSE]]
    /\ UNCHANGED <<payments, hired>>
    /\ Written

\* ride.update of a start that has read the ride as a DRAFT: it may have been
\* promoted, ended and paid since.
PromoteRide(r) ==
    /\ seen[r].draft
    /\ rides' = [rides EXCEPT ![r].status = "ONGOING", ![r].started = clock]
    /\ seen' = [seen EXCEPT ![r].since = IF @ = 0 THEN clock ELSE @]
    /\ UNCHANGED <<payments, hired>>
    /\ Written

End(ride, fare, ended) ==
    [ride EXCEPT !.status = "COMPLETED", !.ended = ended, !.fare = fare]

\* ride.update of an end; the client says when the ride ended.
CompleteRide(r, fare, ended) ==
    /\ seen[r].since # 0 /\ seen[r].since <= ended
    /\ rides' = [rides EXCEPT ![r] = End(@, fare, ended)]
    /\ seen' = [seen EXCEPT ![r].fares = @ \cup {fare}]
    /\ UNCHANGED <<payments, hired>>
    /\ Written

\* A payment is written; pending: from now on settlements may have read it PENDING.
WritePayment(r, payment, pending) ==
    /\ payments' = [payments EXCEPT ![r] = payment]
    /\ seen' = [seen EXCEPT ![r].pending = pending]
    /\ UNCHANGED <<rides, hired>>
    /\ Written

Bill(fare, created) ==
    [status |-> "PENDING", provider |-> "VIVA", amount |-> fare.total, net |-> fare.subtotal,
     created |-> created, captured |-> 0]
BillAgain(payment, fare) ==
    [payment EXCEPT !.status = "PENDING", !.amount = fare.total, !.net = fare.subtotal]

\* Mutant: the payment is dated with the start of the ride.
BillRide_AtStart(r, fare) ==
    /\ fare \in seen[r].fares
    /\ WritePayment(r, IF Exists(r) THEN BillAgain(payments[r], fare)
                       ELSE Bill(fare, rides[r].started - 1), TRUE)

\* payment.upsert of an end, with the fare it has computed: a payment that is there,
\* PAID or not, becomes PENDING, keeping its provider and dates.
BillRide(r, fare) ==
    /\ fare \in seen[r].fares
    /\ WritePayment(r, IF Exists(r) THEN BillAgain(payments[r], fare)
                       ELSE Bill(fare, clock), TRUE)

Capture(payment, provider) ==
    [payment EXCEPT !.status = "PAID", !.captured = clock, !.provider = provider]

\* payment.update by card webhook or confirmation, which keep the provider, or in cash.
SettleRide(r, provider) ==
    /\ seen[r].pending
    /\ WritePayment(r, Capture(payments[r], provider), TRUE)

\* The amount is what the admin says; netAmount stays NULL.
AdminCreate(r, amount) ==
    /\ rides[r] # NoRide /\ ~Exists(r)
    /\ WritePayment(r, [status |-> "PAID", provider |-> "CASH", amount |-> amount, net |-> 0,
                        created |-> clock, captured |-> clock], FALSE)

AdminUpdate(r, amount, provider) ==
    /\ Exists(r)
    /\ WritePayment(r, [payments[r] EXCEPT !.amount = amount, !.provider = provider],
                    seen[r].pending)

AdminDelete(r) == Exists(r) /\ WritePayment(r, NoPayment, FALSE)

Tick ==
    /\ clock < MaxTime /\ clock' = clock + 1
    /\ report' = IF report.todo = {} THEN NoReport ELSE report
    /\ UNCHANGED <<tables, writes>>

\* A report over the days from a date until now.
BeginReport(kind, from) ==
    /\ report = NoReport
    /\ report' = [kind |-> kind, from |-> from, to |-> clock, writes |-> 0,
                  todo |-> DOMAIN Screen(kind, from, clock), answer |-> <<>>]
    /\ UNCHANGED <<tables, clock, writes>>

\* getLiveOperations counts nothing when it has found no ongoing ride.
NothingToCount(Q) == report.kind = "live" /\ "list" \in Q /\ OngoingList = {}

AnswerAll(Q) ==
    /\ report' = IF NothingToCount(Q) THEN NoReport ELSE [report EXCEPT
            !.todo = @ \ Q,
            !.answer = [p \in DOMAIN @ \cup Q |->
                           IF p \in Q THEN Screen(report.kind, report.from, report.to)[p]
                                      ELSE @[p]]]
    /\ UNCHANGED <<tables, clock, writes>>

Answer(q) ==
    /\ q \in report.todo /\ ~LastWrite
    /\ \A p \in report.todo : ~Precedes(report.kind, p, q)
    /\ AnswerAll({q})

\* After the last write, the order of the answers makes no difference.
AnswerRest == report.todo # {} /\ LastWrite /\ AnswerAll(report.todo)

Next ==
    \/ \E d \in Drivers : Hire(d)
    \/ \E r \in Rides :
          \/ \E d \in Drivers, status \in RideStatuses : StartRide(r, d, status)
          \/ PromoteRide(r)
          \/ \E fare \in Amounts, ended \in Times : CompleteRide(r, fare, ended)
          \/ \E fare \in Amounts : BillRide(r, fare)
          \/ \E v \in {payments[r].provider, "CASH"} : SettleRide(r, v)
          \/ \E amount \in AdminAmounts : AdminCreate(r, amount)
          \/ \E amount \in AdminAmounts \cup {payments[r].amount},
               v \in {payments[r].provider, "CASH"} : AdminUpdate(r, amount, v)
          \/ AdminDelete(r)
    \/ Tick
    \/ \E kind \in Kinds, from \in 1..clock : BeginReport(kind, from)
    \/ \E q \in report.todo : Answer(q)
    \/ AnswerRest

Spec == Init /\ [][Next]_vars

-----------------------------------------------------------------------------
Done(kind) == report.kind = kind /\ report.todo = {}

RideRow == [status : RideStatuses \cup {"NONE"}, driver : hired \cup {None},
            started : 0..clock, ended : 0..MaxTime, fare : Amounts \cup {NoFare}]
PaymentRow == [status : Statuses \cup {"NONE"}, provider : Providers, amount : Int,
               net : Nat, created : 0..clock, captured : 0..clock]
Seen == [draft : BOOLEAN, since : 0..clock, fares : SUBSET Amounts, pending : BOOLEAN]

\* Types, and what the columns of one row say of each other: a ride that is there has
\* a start, and an end of the ride comes after it was ONGOING; a payment that is there
\* has a date of creation, and one that is PAID was captured after it.
TypeOK ==
    /\ rides \in [Rides -> RideRow] /\ payments \in [Rides -> PaymentRow]
    /\ seen \in [Rides -> Seen] /\ hired \subseteq Drivers
    /\ clock \in Times /\ writes \in 0..MaxWrites
    /\ \A r \in Rides :
        /\ rides[r] = NoRide => ~Exists(r) /\ seen[r] = Unseen
        /\ rides[r] # NoRide =>
              rides[r].status # "NONE" /\ rides[r].driver # None /\ rides[r].started # 0
        /\ seen[r].since <= rides[r].started
        /\ rides[r].ended = 0 => rides[r].fare = NoFare /\ seen[r].fares = {}
        /\ rides[r].ended # 0 => seen[r].since # 0 /\ seen[r].since <= rides[r].ended
        /\ ~Exists(r) => payments[r] = NoPayment /\ ~seen[r].pending
        /\ Exists(r) => payments[r].created # 0
        /\ Paid(r) => payments[r].captured # 0
        /\ payments[r].captured # 0 => payments[r].created <= payments[r].captured
    /\ report.todo \cap DOMAIN report.answer = {}

\* Rides that have ended and that the late write of a start has made ONGOING again.
Reopened(from, to) == {r \in EndedIn(from, to) : ~Completed(r)}

\* No query is repeated and none is in a transaction with another, so each write
\* while a report is made may put its counts apart, but by one at most: the parts of
\* a total (an overview, the dashboard, the rides), the rows of a list and its length
\* (live operations, the driver's history), the rides a driver is shown as paid and
\* the one shown as open, and the payments of a method report and its rides, of which
\* there are fewer only by those a late start has reopened.  Drivers are never
\* deleted and are counted last, so that there are never fewer than active ones.
ApartByWritesOnly ==
    LET a == report.answer
        Within(m, n) == m <= n + report.writes
        Near(m, n) == Within(m, n) /\ Within(n, m)
    IN  /\ Done("overview") =>
              /\ Near(SumOf(a.countsByProvider), a.countsByStatus["PAID"])
              /\ Near(SumOf(a.countsByStatus), a.count)
        /\ Done("methods") =>
              Within(SumOf(a.payments),
                     a.rides + Cardinality(Reopened(report.from, report.to)))
        /\ Done("drivers") => Cardinality(DOMAIN a.stats) <= a.drivers
        /\ Done("dashboard") =>
              /\ Within(a.completed + a.cancelled + a.ongoing, a.rides)
              /\ Within(a.active, a.completed)
        /\ Done("rides") =>
              Near(SumOf(a.byStatus), a.count) /\ Within(SumOf(a.payments), a.count)
        /\ Done("live")    => Near(Cardinality(a.list), a.count)
        /\ Done("history") => Near(Cardinality(a.rides), a.count)
        /\ Done("today")   => Within(Cardinality(a.paid \cap a.active), 0)

\* The fares that the reports add up: those in the table, and those of every amount,
\* fare mode, VAT rate and surcharge window, are right to the cent (Fares).
FaresHold ==
    /\ \A r \in Rides : AddsUp(rides[r].fare)
    /\ FaresAddUp /\ SurchargeHolds

\* Over all the time there is, the screens that add up the same column show the same
\* money, though one selects payments by capture, one by creation and one by the
\* start of the ride, and they group it by provider, status, day or week.  The
\* payments summary, which asks for captured payments of any status, shows what was
\* captured and reopened on top.
ScreensAgree ==
    LET to == clock
        revenue == RevenueOverview(1, to)
        recalled == {r \in CapturedIn(1, to) : ~Paid(r)}
    IN  /\ revenue = SumOf(AmountsByProvider(1, to))
        /\ revenue = AmountsByStatus(1, to)["PAID"]
        /\ revenue = SumOf(DashboardPaid(1, to))
        /\ revenue + Amount(recalled) = SumOf(SummaryByProvider(1, to))
        /\ SumOf(RevenueGroups(1, MaxTime)) = DashboardRevenue(1, to)
        /\ DashboardRevenue(1, to) + Fare(Reopened(1, MaxTime)) = RidesFare(1, to)
        /\ SumOf(Trends(1, to)) = BusinessStatus(1, to).completed
        /\ \A from \in 1..to :
            /\ SumOf(Timeline(from, to, [t \in Times |-> t])) = Net(PaidOf(CreatedIn(from, to)))
            /\ SumOf(Timeline(from, to, [t \in Times |-> TruncWeek(t)])) =
                    Net(PaidOf(CreatedIn(TruncWeek(from), to)))

=============================================================================
