# Verification of the taxi meter backend

TLA+ models, model-checking runs and machine-checked proofs for the NestJS
backend in this repository. Source references are paths in the repository.

## 1. The system

One Node process (or several behind a load balancer) answers HTTP requests;
all durable state is in PostgreSQL, reached through Prisma. There are no
background jobs. Handlers are `async` functions: between two `await`s nothing
else runs in the process, at each `await` any other request may run. Prisma
calls are single statements under READ COMMITTED. Three places open a
transaction: `PricingService.create`, `PricingService.activate` and
`NumberingService.assignSimplifiedReceiptNumbers`. Everything else that is hard
here follows from that: a handler that reads, decides and writes does so in
several statements, and others move in between, or the process dies.

| Component | State it keeps | Operations that change it | What makes it correct |
|---|---|---|---|
| Rides `src/drivers/rides/services/driver-ride.service.ts` | `Ride` | `startRide` (promote or insert), `endRide` (complete, upsert the payment) | one open ride per driver; completed once; every completed ride billed once at its fare |
| Driver payments `src/drivers/payments/payments-service.ts` | `Payment` | `cashPayment`, `confirmPayment` | PAID means captured; PAID is not lost |
| Card webhook `src/viva-webhook/` | `WebhookEvent`, `Payment` | `processPaymentCreatedEvent`, `markWebhookFailed` | repeated, concurrent and foreign deliveries book a charge once, on its own order, for the right amount; a charge is booked eventually |
| Admin payments `src/admin/services/admin-payment.service.ts` | `Payment` (with its cascades) | `createPayment`, `updatePayment`, `deletePayment` | nothing dangling after a deletion; captures survive (a second payment of a ride is refused by the unique key on `rideId`, which is taken from the schema and not checked) |
| Receipts `src/drivers/receipts/receipt.service.ts` | `Receipt` | `generateReceipt` | a receipt stands for a captured payment of its ride and shows its fare |
| Pricing policies `src/pricings/pricing.service.ts` | `PricingPolicy` | `create`, `activate`, `update`; fixed price policies | exactly one active meter policy per tenant that has one |
| Receipt numbering `src/admin/exports/numbering.service.ts` | `NumberSequence`, `Payment.receiptNumber` | `assignSimplifiedReceiptNumbers` | unique, gapless, final numbers per month, in order |
| Payment exports `src/admin/exports/` | files, `ExportArchive` | export, preview | an archive row has its files, its rows are numbered, and nothing of the period is missing |
| Fare calculation (in `driver-ride.service.ts`, `export-data.service.ts`) | none | three fare modes, night surcharge, VAT split | total = subtotal + tax after rounding; windows cover what they say |
| Admin listings `src/admin/newRides`, `src/admin/newPaymetns&Transactions.ts` | none | next / previous page | walking the pages shows every row once |
| Dashboards and reports (the same services, `admin-report.service.ts`, `admin/dashboard`, the driver's summaries) | none | queries | the counts of one answer fit together but for what is written meanwhile; screens that add up one column show the same money |
| Sessions `src/auth` | token and user revocations in the cache | login, select tenant, logout, revoke, the guard's checks | a revoked token is refused, a deactivated driver locked out |
| Onboarding `src/auth/auth.service.ts`, `admin-invitation.service.ts`, `admin-driver.service.ts` | `User`, `Tenant`, `Membership`, `DriverProfile`, `Invitation` | register, create and update driver, invite, resend, cancel | no user is left half made; one pending invitation per address |
| Tenant scoping `src/common` | none | condition on every query | one tenant never sees another's rows |
| Profiles, export rendering, health, seeds | single rows, or none | single-row updates, layout | nothing that spans steps |

How they interact: `endRide` writes rides and payments; the webhook, the cash
route, the unused `confirmPayment` and the admin routes all write
payments; receipts read rides and payments and keep a snapshot; numbering reads
captured payments and writes their numbers; exports call numbering and then read
the payments again; fares read the active pricing policy; reports and listings
read what all of them write, in several queries; every guarded route runs behind
the checks of sessions, and the routes of onboarding write the rows those checks
read. They share the database and the revocation cache and nothing else, so each
interaction is an interleaving of statements.

Hard behaviours: check-then-write without a transaction (start, end, admin
create, cash, webhook); writes by id alone of what was decided earlier; a
process that dies between two statements; events delivered twice, late or
together; transactions that decide on a stale snapshot or wait for each other;
clocks that are read before the row is committed; answers put together from
queries that see different states; cursors and cache entries that outlive what
they were made from. `PROJECT.json` lists each
hazard at its line with the properties that cover it.

## 2. Modules

| Module | Models | State, as in the code | Steps |
|---|---|---|---|
| `RidePayments` | rides, payments, webhook, receipts, admin payments | `rides`, `payments`, `receipts`, `events` are the four tables; `charges`, `acked` are the card provider; `req[w]` holds the locals of the request in flight at `w`, `pc` its next statement | one action per awaited statement |
| `RideLifecycle` | what those services promise together | a phase, a driver and a fare per ride | Open, Complete, Bill, Settle |
| `PricingPolicies` | `create` and `activate` of meter policies | `policies` is the committed table, `pending[w]` what transaction `w` has written and locked | one action per statement, plus what PostgreSQL does with locks, the unique index and deadlocks |
| `ReceiptNumbering` | numbering among captures, reopenings, deletions | `payments`, `sequence` are the tables; `req[w]` the locals, with the snapshot `seen`, `base` and the uncommitted `issued` numbers | collect, begin, assign one, commit, abandon |
| `ReceiptBook` | what numbering promises | one sequence of payments per month | one export enters lines |
| `Exports` (extends `ReceiptNumbering`) | exports and previews | `job[w]` the locals of an export, `files` the directory, `archive` the table | number, load rows, load exceptions, name, JSON, PDF, archive row, die |
| `Fares` | fare modes, surcharge windows, VAT split, weeks | none: operators over cents, minutes and days | |
| `Listings` | `getPaymentsList`, `getRidesList` | `rows` the table, `pages` what the client has got, `next` and `prev` its cursors | open, forward, back, and the writes of others |
| `Reports` (extends `Fares`) | reports and dashboards | `rides`, `payments` are the columns reports read; `seen` what requests under way have read; `report` the answer so far | begin, one query, and each write of others |
| `Onboarding` | users, tenants, memberships, profiles, invitations | five tables; `requests[r]` the locals | one action per INSERT or UPDATE, die |
| `Sessions` (extends `Onboarding`) | tokens, tickets, revocation, the guard | `tokens`, `tickets`, the two kinds of cache entries | one action per await of the guard; logins; logouts; the clock |
| `RidePaymentsProofs`, `OrderlyDriversProofs`, `PricingPoliciesProofs`, `ReceiptNumberingProofs`, `ExportsProofs`, `ListingsProofs`, `ReportsProofs`, `SessionsProofs` (with `Onboarding`) | theorems (section 4) | | |
| `MCRidePayments`, `MCPricingPolicies`, `MCReceiptNumbering`, `MCExports`, `MCListings`, `MCReports`, `MCSessions` | symmetry sets and constants for the runs | | |

### RidePayments

`startRide` is `StartRide` (find the open ride), then `StartPromote` or
`StartCreate`. `endRide` is `EndRide` (find the ONGOING ride, compute the
fare), `EndComplete` (`ride.update`), `EndUpsert` (`payment.upsert`). A webhook
delivery is `WebhookReceive` (upsert of the event), `WebhookFind`,
`WebhookSettle`, `WebhookMarkProcessed` or `WebhookMarkFailed`;
`WebhookReceiveOther` is a delivery about the same transaction that is malformed,
unfinished or for another merchant. Cash, confirm and receipts are read and
write; the admin operations are single steps because their check is repeated by
a unique or foreign key of the same statement. `Reject` ends a request whose
write the database refuses, `Fail` is a process or connection that dies, at any
`await`, at most `MaxFails` times. A start request that names a policy or a
pricing mode the database refuses is a `Reject` too.

Fares are values of `Amounts` given by the environment; capture times are kept as
"is it set". Columns nothing decides on (net and tax split, approval codes,
attempt counters) are left out. `Charge`, the card provider, is external:
it is modelled from the fields the webhook reads.

`Serial = TRUE` says that a driver's app waits for the answer of a start or
end request before the next one. The server does not enforce it: `OverlappingEnds`
shows what fails without, `AnyInterleaving` what holds all the same.

### PricingPolicies

`CreatePolicy` reads the count outside the transaction, as line 94 does.
`DeactivateBegin` and `DeactivateOthers` are `updateMany`: its snapshot decides
which rows it visits, it waits for their locks and looks at them again.
`WritePolicy` inserts or updates; `EnterIndex` is the check of the partial
unique index of migration `20250829181128_pp_partial_unique_index`, which waits
for transactions whose outcome decides it; `Collide` is its P2002 error.
`Deadlocked` is a set of transactions that wait for each other;
PostgreSQL aborts one (`AbortDeadlocked`). `Lose` is a lost connection. Prices
are left out, nothing here depends on them. `ActivatePolicy` on a policy read
active is answered without a step.

### ReceiptNumbering

`Collect` is everything before the transaction: the single-month check, the
candidates, the refusal to mix periods. `Begin` is the transaction's first
statement with its snapshot, `AssignNext` one turn of the loop of lines 126 to
167, `Commit` the counter and the commit. SERIALIZABLE is modelled by what
PostgreSQL enforces on written rows: the commit fails if a row it has written
has been changed since the snapshot (`Serializable`), and `Abandon` stands for
every other abort, refusal and crash, so the model allows each commit the
database could. Time is a bounded clock, a month
is `MonthLength` instants, and `Lag` is how much older than its commit a
capture time may be (the application reads its clock before the write). The row
of a deleted payment keeps its number in the model as history, which lets
`NumberedOnce` speak of numbers that must not be used again.

### Exports

An export asks `ReceiptNumbering` for numbers (`AskToNumber`, then `Number` and
`Numbered` are that module's steps), reads the payments of the period
(`LoadRows`), then the rides without a PAID payment (`LoadExceptions`), takes a
file name of period and second (`TakeName`), writes the JSON and the PDF and
inserts the archive row. `Die` may end it at each. Payments are captured,
reopened and deleted meanwhile (`Touch`), and an export remembers which, so that
`ExportIsComplete` can speak of all the others. A snapshot is a record of its
rows; rendering and hashing are left out.

### Fares

Money is in cents, multipliers in tenths, a day has `DayLength` minutes. The
three modes follow the order in which `toDP(2)` rounds. `FaresAddUp` and `SurchargeHolds`
say what is right of them for all values up to the bounds; `FaresHold` of `Reports`
has both checked.

### Listings

A row is its creation time, the value it is sorted by and whether the filters
keep it. A column is sorted by what never changes ("created"), by what may change
but is never NULL ("changing") or by what is NULL until a ride ends ("nullable").
`NullFree` says that none of the sorted values has been NULL since the listing was
opened: in nullable columns the properties hold as long as it does, and `NullKeys`
shows what happens when it does not. `Selected`, `Taken` and `Shown` are the query and what is cut and
reversed; `CursorOf` and `Beyond` are the two ends of a cursor. `Selected` keeps
the code's merge of the filters, in which the cursor's `OR` replaces the one of
the text search.

### Reports

`rides` and `payments` hold the columns that reports select by and add up: status,
driver, dates and fare of a ride; status, provider, amount, net amount and dates of a
payment. Every statement that writes them is an action: `Hire`, `StartRide` (with any
of the four statuses), `PromoteRide`, `CompleteRide`, `BillRide` (the upsert, which
reopens a payment that is there), `SettleRide` (webhook, cash and confirmation),
`AdminCreate`, `AdminUpdate` and `AdminDelete`. What `RidePayments` keeps in the locals
of a request is one bit or date per row here: `seen` says which writes by id may
still come from what a request has read (a DRAFT to promote, an ONGOING ride to
complete, a fare to bill, a PENDING payment to settle). It never forgets a read while the
row is there, so the model allows every order of writes that `RidePayments` does. A date of 0 is NULL, and so
is the net amount 0 of a payment that an admin has created.

`BeginReport` fixes a period; `Answer` sends one query, which sees the tables as they
are. Queries awaited one after the other keep their `Order`; those of a
`Promise.all` are answered in any. `Screen` says what each query counts or lists; the sums of
money are operators of their own, compared at one moment in `ScreensAgree`, because two
sums of one answer need not agree. So are reports that are a single query.
`getLiveOperations` counts nothing when its list is empty (`NothingToCount`). After the last
write that the bounds allow, the open queries are answered in one step (`AnswerRest`).

### Onboarding and Sessions

Each INSERT is an action, none is in a transaction, and a request may die before
the next (`Leave` with `deaths`). The initial state is the seeded one
(`prisma/seed.ts`): an admin of two tenants and a driver of one. In `Sessions` a
guarded request is `Arrive` (token read and not expired), `CheckRevoked` (the two cache
entries), `CheckStanding` (membership or driver profile), then a handler of
`Onboarding` or a logout. The clock counts ticks, `TicksPerSecond` of them to the
second a token's `iat` is cut down to. `gone`, `barred` and `crossed` in a request
and `loggedOut` are history that the properties read and no action depends on.
A logout of one device revokes nothing, as in the code (section 5).

## 3. Runs

| Run | Question | Result |
|---|---|---|
| `AnyInterleaving` | Whatever overlaps, is repeated, is deleted or dies: do payments, receipts and events agree? | `TypeOK`, `PaidIsCaptured`, `ReceiptBacked`, `ProcessedEventSettled`, `CardTransactionOnItsOrder`, `CaptureIsKept` hold |
| `OrderlyDrivers` | With drivers that wait for answers, are rides driven, billed and settled as `RideLifecycle` says? | `SettledAmount`, `ReceiptShowsFare`, `RefinesLifecycle` hold |
| `Progress` | Does the order of a charge end up captured although a request may die, ends overlap and others race it? Are rides with a fare billed and events marked, unless one does? | `ChargeIsSettled`, `BilledUnlessRequestDies`, `MarkedUnlessRequestDies` hold |
| `OneActivePolicy` | Do concurrent create and activate calls keep one active policy, and do they all end? | `TypeOK`, `ExactlyOneActive`, `EveryRequestEnds` hold |
| `OneBook` | Are numbers unique, gapless and final whatever exports overlap? | `TypeOK`, `NumberedOnce`, `NumberIsFinal`, `RefinesReceiptBook` hold |
| `Exports` | Is an archived export complete, are its files there, and do all archives agree, whatever is written meanwhile and wherever it dies? | `ExportsTypeOK`, `ArchivedFilesExist`, `ArchivesAgree`, `ExportIsComplete` hold |
| `Paging` | Does a walk through the pages show every row once while rows come, go and change, and what does going back show? | `TypeOK`, `NoRowTwice`, `NothingSkipped`, `BackReverses` hold |
| `Reports` | How far apart can the parts of one answer be, which screens show the same money, and what sets the others apart? Do fares add up? | `TypeOK`, `ApartByWritesOnly`, `ScreensAgree`, `FaresHold` hold |
| `Accounts` | Do logouts and deactivations hold against the requests under way, and what do crashes and refused bodies leave behind? | `SessionsTypeOK`, `LogoutAllHolds`, `DeactivationHolds`, `TokensAreBacked`, `StrandedAreExplained`, `DuplicatesAreExplained` hold |
| `OverlappingEnds` | "Idempotent ride completion logic" (`README.md:110`) | `PaidIsFinal` violated |
| `CrashBeforeBill` | "Automatic payment record creation" (`README.md:130`) | `CompletedRideIsBilled` violated |
| `NullKeys` | "This handles NULL values and ensures stable pagination" (`newRides-service.ts:422`) | `StablePagination` violated |

`ChargeIsSettled` asks for `capturedAt`, not for PAID: when two ends of a ride overlap, the
slower one's upsert can put the settled order back to PENDING (`PaidIsFinal`), and can
change its amount before it is settled, which the property sets aside. `ApartByWritesOnly`
allows each write between two queries of an answer to part its counts by one and no
more; `ScreensAgree` compares sums of one moment.

Every property of a passing run is broken by a mutant of the model, a
plausible bug kept beside the definition it changes (`Name_Bug`) and named in
`PROJECT.json`. The mutants are never part of a run.

### Bounds

- *RidePayments*: two requests in flight, one ride (two, with two drivers, where
  rides interact), one or two payments, one transaction, two amounts. Every rule
  here is about one payment, ride or event and the requests that touch it; two
  requests give every overlap of a pair, two payments let one be deleted and
  another created for the same ride, two amounts tell right from wrong. One
  failure is enough for every "dies between these two statements"; a
  request that survives is not affected by the number of the others that died.
- *PricingPolicies*: three requests, so that a third can act between two that wait
  for each other, and two policies; collisions and deadlocks occur within these
  bounds (three policies give 175,142 states and the same result, in minutes
  instead of seconds).
- *ReceiptNumbering*: two exports, two payments, two months of one instant each
  with `Lag` 1, so that a capture can be older than its commit, and a payment
  can move to the other month.
- *Exports*: two exports or previews, two payments, one ride ended in each month,
  and four writes by others: enough to reopen, recapture or delete both payments
  between any two of the exports' statements. `Lag` is 0, its effect is in `OneBook`.
- *Listings*: four rows, two of them created at the same time, in an order their ids do not
  follow; two values, so that ties occur at page boundaries; pages of one and
  two; one row written during the walk, at any moment and in any way; two steps
  back. A cursor relates one position to the rows around it, so one moving row
  among three others is every case.
- *Reports*: two drivers and rides, two days (a day boundary), five writes, of which
  up to three fall into a report whose queries are awaited one by one (hiring a driver,
  starting and completing his ride between two queries takes three). While the queries of a `Promise.all` are under
  way only one write comes in: each is answered before or after it. Five writes
  start, end, bill, pay and reopen a ride. One fare and one amount entered by an admin,
  different, tell the fare of a ride from the amount of its payment. Fares up to
  12.00 EUR at every cent, which is every way the roundings can fall many times over;
  windows of a day of seven minutes, all pairs.
- *Sessions*, *Onboarding*: the seeded users and a new address, a third tenant to
  register, two requests in flight, four calls (logins among them), one that dies, two
  tokens, one ticket, five ticks at two to the second. Tokens live two seconds, revocations
  as long in ticks (the least that `RevocationTTL >= AccessTTL` allows, the
  defaults are 12 and 8 hours), invitations three ticks: each expires within the run.
- The theorems of section 4 have none of these bounds: they hold for any finite or
  infinite set of requests, workers and payments, and for any bound on time, calls,
  writes and failures. Sets that the code adds up or sorts (rides, drivers, rows and
  their values) are finite.
- Ids, calls or time run out, so most runs may stop, and their cfgs turn the
  deadlock check off; `PricingPolicies` never stops (a policy can always be
  activated once one is inactive, a request can be lost) and is checked for deadlock.

### Fairness

Only `Progress`, `CrashBeforeBill` and `OneActivePolicy` assume any.

- `WF(Step(w))` in `RidePayments`: Node resumes each pending `await`; a handler
  whose process lives runs to its end. Clients, drivers and admins are not
  assumed to do anything.
- `SF(Redeliver(t))`: the provider repeats a delivery until it is answered 200,
  which the controller (`viva-webhook.controller.ts:42`) relies on by answering
  200 to whatever it has handled and 500 to exceptions. Strong, because a delivery
  needs a free worker, which in the model comes and goes.
- `SF(Step(w))` in `PricingPolicies`: PostgreSQL grants a lock to its waiters in
  turn, although others keep taking it, and its deadlock detector ends a cycle.

One assumption about time is not fairness but patience: in `Sessions` the clock does
not pass, while a request waits for the cache, the moment at which a revocation
made when its token was issued would have ended. With the defaults that is a wait of
four hours or more; a request that could wait that long for Redis would find the
revocation gone, and `LogoutAllHolds` would not hold.

## 4. Proofs

TLAPS proves every safety property, action property and refinement that a passing
run checks, for every value of the constants. The theorems assume only the `ASSUME`s
of the modules:

- `None` and `NoOne` are no id, status, amount, address or tenant;
- flags, bounds and durations have their types, a month, a second, an
  invitation and the clock's range are not empty;
- ids and values are numbers where the code sorts by them, and finitely many where it
  sorts or adds up;
- a revocation lives at least as long as an access token (`RevocationTTL`, 12
  hours against 8 by default);
- in `Reports`, a fare is what one of the fare modes computes from a subtotal
  or a fixed price (`AmountsAssumption`), which is what `endRide` writes.

The finite sets, `AmountsAssumption`, the amounts an admin enters being integers and
what is said of `NoOne` are there for the proofs; TLC evaluates them in every run, as it does the others.

| Theorem | States | Inductive invariant |
|---|---|---|
| `TypeCorrect` | `Spec => []TypeOK` of `RidePayments` | `TypeInv`: `TypeOK` and, at each statement, the locals it uses are filled in |
| `ReceiptsAreBacked` | `[]ReceiptBacked` | `TypeInv /\ SafeInv` |
| `ProcessedEventsAreSettled` | `[]ProcessedEventSettled` | the same |
| `PaymentsAreCaptured` | `[]PaidIsCaptured` | the same |
| `CapturesAreKept` | `CaptureIsKept` | the same |
| `CardTransactionsAreOnTheirOrder` | `[]CardTransactionOnItsOrder` (the property sets `confirm` aside) | the same `/\ CardInv` |
| `SettlementsAreExact` | `[]SettledAmount`, for `Orderly` drivers | `Inv` of `OrderlyDriversProofs` |
| `ReceiptsShowTheFare` | `[]ReceiptShowsFare`, for `Orderly` drivers | the same |
| `LifecycleIsImplemented` | `RefinesLifecycle`, for `Orderly` drivers | the same |
| `PaidStaysPaid` | `PaidIsFinal`, for `Orderly` drivers | the same |
| `OneActivePolicyPerTenant` | `[]ExactlyOneActive` | `Inv` of `PricingPoliciesProofs` |
| `IndexIsExclusive` | `[](TypeOK /\ Locks /\ Exclusive)` | the same |
| `NumbersAreUnique` | `[]NumberedOnce` | `Inv` of `ReceiptNumberingProofs` |
| `NumberingTypeCorrect` | `[]TypeOK` of `ReceiptNumbering` | the same |
| `NumbersAreFinal` | `NumberIsFinal` | the same |
| `ReceiptBookIsImplemented` | `RefinesReceiptBook` | the same |
| `ExportsImplementNumbering` | `ExportsSpec => Spec` of `ReceiptNumbering` | none, step by step |
| `ExportsTypeCorrect` | `[]ExportsTypeOK` | `ExportInv` |
| `ArchiveHasItsFiles` | `[]ArchivedFilesExist` | the same |
| `AllExportsAgree` | `[]ArchivesAgree` | the same |
| `ExportsAreComplete` | `ExportIsComplete` | the same |
| `ListingsTypeCorrect` | `[]TypeOK` of `Listings` | `BaseInv` |
| `NoRowIsShownTwice` | `[]NoRowTwice` | `WalkInv` |
| `NoRowIsSkipped` | `[]NothingSkipped` | the same |
| `BackReversesThePageBefore` | `[]BackReverses` | `BackInv` |
| `ReportsTypeCorrect` | `[]TypeOK` of `Reports` | `Base` |
| `FaresAreRight` | `[]FaresHold` | the same |
| `ScreensShowTheSame` | `[]ScreensAgree` | the same |
| `AnswersAreApartByWrites` | `[]ApartByWritesOnly` | `Base /\ FiguresInv` |
| `SessionsTypeCorrect` | `[]SessionsTypeOK` | `SessionInv` |
| `TokensSpeakForRows` | `[]TokensAreBacked` | the same |
| `LogoutAllIsFinal` | `[]LogoutAllHolds` | the same |
| `DeactivationIsFinal` | `[]DeactivationHolds` | the same |
| `PendingTwiceIsExplained` | `[]DuplicatesAreExplained` | the same |
| `StrandingIsExplained` | `[]StrandedAreExplained` | the same |

Why the invariants are stronger than the properties:

- *RidePayments*: a request in flight writes what it decided some statements
  ago, so the tables alone say nothing about its write. `SafeInv` adds what is
  still true of a request's locals at each statement: the payment a webhook or
  receipt request holds still is of the ride, order or charge it was read for, or
  has been deleted, and once seen captured it still is. That rests on three
  facts kept by every action: a payment never changes its ride, a
  charge never changes, and `captured` is never unset.
- *Orderly drivers*: `Orderly` names what the `OrderlyDrivers` run assumes: apps wait
  for their answers, admins do not write payments, rides start as DRAFT or
  ONGOING. Then `OneAtATime` gives each driver one request, so the ride a
  request read is still in the state it read (`DriverRequest`), nothing else bills
  the ride before its upsert, and an amount compared with a charge is the one that
  is settled (`MoneyRequest`, `BillsShowFares`). In the refinement the
  upsert inserts and only the first settlement of a payment is a Settle; the
  promotion, receipts, events and repeated settlements are stutters.
- *PricingPolicies*: `ExactlyOneActive` speaks of committed rows, and a commit
  copies pending rows over them. `Stage` and `Plain` say what an open transaction
  has written at each statement, `Locks` that no row is held twice, `Exclusive`
  that at most one transaction has passed the index and that it has deactivated
  every other active row. The step that matters is `EnterIndex`: the wait for
  `IndexHolders` gives the first half, `~Duplicate` the second.
- *ReceiptNumbering*: `Counted` says that a month's counter is its largest number,
  `Issued` that an open transaction's numbers are exactly `base + 1 .. current`,
  each for one payment that had none in its snapshot. The commit is safe because
  `Serializable` gives `sequence = base` and the rows unchanged. The unique
  key of the table (`KeepsUnique`) is not used: the counter alone is enough. The
  book of the refinement is read off the tables (`Line` is the payment with a
  number), and a commit appends the issued numbers in their order.
- *Exports*: every step is a step of `ReceiptNumbering` or leaves its state alone,
  so that its invariant holds as it is. `RowsTrue` carries finality over to the rows a
  request or an archive has copied. `OneTaker` and `FilesWritten` say that a file
  name taken once has one writer. `Complete` follows a payment nobody has touched
  through an export: among the candidates or already issued, then numbered, then
  listed or excused.
- *Listings*: the place of a row in the list is the number of rows before it; that these
  places are all taken, by one row each, is proved of any finite strict order
  (`RanksGrow`, `RanksAreTaken`) and then used for the sorted query of either direction.
  `SeenIsBehind` and `LeftIsAhead` say what a cursor divides while rows
  move; `Blocks` that, when nothing moves, the last page and the one before are
  neighbours in the list.
- *Reports*: `Linked` says what the columns of one ride, its payment and what has been
  read of them say of each other; each write keeps it of its ride and leaves the others
  alone (`Moved`). Screens are counts and sums over sets of rides, so sums come first:
  adding, splitting and grouping a finite set (`SumUnion`, `SumOfGroups`), by an
  induction that takes the set of the subsets for which a statement holds, because the
  library's takes a predicate. For an answer put together from several queries, a
  figure is what was answered or would be answered now (`Figure`). Answering leaves
  figures alone. A write concerns one ride, so each figure that is still open moves by
  at most one, and those that are bound to each other move together or apart by one
  (`WriteChanges`), which `report.writes` makes up for in `FiguresInv`. The fares need only that 110
  and 114 hundredths never put a half cent into both the tax and the rest.
- *Sessions* and *Onboarding*: a request checks in three statements what its
  handler relies on. `Revocation` says that the request still waiting for the cache
  has waited less than a revocation lives, `Deactivation` that a request overtaken by a
  deactivation has not passed the check it will fail. `Makers` says that a
  half made user has one maker, who knows what is there, so that only a death or a
  registration without a tenant leaves it so; `Inviters` that of two requests for one
  invitation each knows of the other.

Only model-checked:

- Liveness and everything under fairness, which the prover cannot do:
  `ChargeIsSettled`, `BilledUnlessRequestDies`, `MarkedUnlessRequestDies` and
  `EveryRequestEnds`. That `PricingPolicies` never stops is a matter of ENABLED, and is
  model-checked as well.
- The three violated properties, which a counterexample refutes. The positive half of
  the first is `PaidStaysPaid`; that of the third is `NoRowIsSkipped` and
  `NoRowIsShownTwice`, which hold while `NullFree` does.

## 5. What the models found

With a run of their own, listed with their lines in `PROJECT.json`: a paid payment
reopened by a second `endRide`; a completed ride that is never billed when its
request dies; listings sorted by a column with NULLs that skip or repeat rows.

Met while modelling and described here only:

*Rides and payments*

- Two overlapping start requests of a driver both find no open ride and both insert
  one, against "Single active ride enforcement per driver" (`README.md:106`).
- A promotion of a DRAFT ride that is delayed past the end of the ride reopens it
  (`driver-ride.service.ts:147`, the update names the id alone).
- A ride can be created COMPLETED or CANCELLED: the client chooses the status
  (line 188). `README.md:105` names a state machine that begins at DRAFT. A ride
  created COMPLETED has no fare and is never billed.
- The end of a ride is what the client says (`dto.endedAt`, line 309), bounded below by
  the start that was read and not bounded above.
- A payment that an admin creates and settles between the completion of a ride and
  `endRide`'s upsert is put back to PENDING by the upsert.
- A delivery that dies after the payment is PAID and before its event is marked
  leaves the event unprocessed: the repeated one no longer finds a PENDING payment.
- A cash confirmation that read PENDING overwrites the provider of a payment
  settled by card meanwhile (`payments-service.ts:199`); the card
  transaction stays on it. In the other order the charge finds no PENDING payment
  and is answered 200 as `payment_not_found` (`viva-webhook.service.ts:95`): the
  second sum is booked nowhere.
- A charge refused for its amount is answered 200 and not sent again, also when a second
  `endRide` then changes the amount to the one that was charged.

*Pricing, numbering, exports*

- Two first policies created together are both activated unasked, one after
  the other (`pricing.service.ts:93`, "we auto-activate the first one").
- Two `activate` calls can deadlock in PostgreSQL: one waits for the other's row,
  the other for the first one's index entry. The detector ends it, and one caller
  gets an error that the service does not retry.
- The fare is computed from the policy as it is when the ride ends; one activated
  meanwhile changes the price (`driver-ride.service.ts:817`).
- Numbers do not follow the captures from one export to the next, nor within one when
  a candidate is captured again before it is numbered, although line 110 of
  `numbering.service.ts` says "guarantees uniqueness & order".
- A payment numbered in one month, reopened by a late `endRide` and captured again
  in the next keeps its number, and every later export whose window holds it is
  refused ("Refuse to mix periods", `numbering.service.ts:84`).
- Two exports of a period in one second write the same two files, and both archive rows
  name them (`exports.controller.ts:94`, "for unique names"). A crash leaves files
  without a row.
- The stored JSON has the hash added to it, so it is not the text that was hashed,
  although the comment at line 99 says so.

*Listings and reports*

- A page gone back to is in the opposite order: Prisma returns it in list order for
  a negative `take`, and the code reverses it (`paymentsTransactions.service.ts:577`).
  `docs/CURSOR_PAGINATION_EXPLAINED.md:323-345` shows it in list order. `BackReverses`
  says what the code does: the same rows, upside down.
- From the second page on, the text search is lost: the cursor's `OR` replaces it.
  A page of rides that was gone back to has no previous page, a first one has.
- `getPaymentsSummary` selects its two halves by different dates, and the half by method has
  no condition on the status (`admin-dashboard.service.ts:183`): a payment captured
  and then reopened by a late `endRide` still counts there as revenue. The overview's previous
  period and its period share their boundary.
- Some screens add up the fares of rides, others the amounts of payments; once an admin has
  created or changed a payment the two differ. A payment created by an admin has no
  net amount and is missing from the profit timeline (`admin-payment.service.ts:177`).
- The summary of the ride list adds up the fares of all rides, so a ride reopened by a
  late promotion counts there and not on the dashboard (`newRides-service.ts:512`); it keeps its
  payment, so the payment rate of the method report can exceed 100 %.
- In the weekly revenue groups a Sunday counts to the next Monday
  (`admin-report.service.ts:317`, "Get Monday of the week"), elsewhere to the one before.
- A revenue report from and to the instant at which a ride ended divides by zero days
  (`admin-report.service.ts:83`).
- In the export's summary by rate and method the method is always UNKNOWN: the
  provider is not selected (`export-data.service.ts`).

*Sessions and onboarding*

- `logoutDriver` revokes nothing: `exp` is read from `req.user`, which has none,
  and the lifetime becomes NaN (`jwt-revocation.service.ts:20`). It answers
  "Successfully logged out".
- The token that `register` answers with has neither version nor id, and every guarded
  route refuses it (`jwt-v1-strategy.ts:102`).
- A token issued in the same second as a logout from all devices counts as revoked.
- A request that dies between the inserts of `register` or `createDriver` leaves
  an address that can neither log in nor be created again. So does, without any
  crash, a registration whose body has no `tenant`: the DTO validates the object only
  when it is there, the user is inserted (`auth.service.ts:471`), and then
  `registerDto.tenant.name` throws (line 482). `StrandedAreExplained` shows that
  nothing else does.
- A driver invitation writes the new profile under the inviting user
  (`admin-invitation.service.ts:226`): an admin's second one is refused, also
  after the first was cancelled. No operation accepts an invitation.
- Overlapping calls or a resend give an address two pending invitations.

## 6. Not modelled

- *Public receipt page, link tokens, PDF and HTML, export rendering*: formatting
  and signing.
- *Pricing `update` and fixed price policies*: single-row writes of columns that no
  decision of the model reads.
- *Averages, sorting and labels of reports; the details of one ride or payment;
  flags on lists*: computed from rows read once, in one statement or about one row.
- *Tenant scoping, profiles*: the tenant is a constant of the request and a
  condition of every query; single-row updates. `Sessions` has two tenants and
  models which of them a token speaks for.
- *Signatures, passwords, rate limits, logging.*
- *PostgreSQL, Prisma, the card provider, the cache, time*: modelled by what the code
  relies on, and marked external in `PROJECT.json`.

## 7. Plan

In order of importance; the first twelve are done.

1. `RidePayments`, `RideLifecycle`: rides, payments, webhook, receipts, admin.
2. `RidePaymentsProofs`: types, receipts, events, payments, captures.
3. `PricingPolicies` and its proofs.
4. `ReceiptNumbering`, refining `ReceiptBook`.
5. `ReceiptNumberingProofs`: types, uniqueness and finality.
6. `Exports`, extending `ReceiptNumbering`.
7. `Fares`.
8. `Listings`.
9. `Reports`, with every writer of the two tables.
10. `Onboarding` and `Sessions`.
11. `OrderlyDriversProofs` and `ReceiptBookIsImplemented`: amounts, receipts and the
    two refinements.
12. `ExportsProofs`, `SessionsProofs`, `ListingsProofs`, `ReportsProofs`.
13. The safety facts that the liveness properties rest on: which steps can lose a
    charge, which leave an event unmarked, and that requests waiting for locks in
    `PricingPolicies` always have one that can move or a cycle that is broken.
14. The flags of the admin lists (which rides and payments a crash leaves behind they
    show) on top of `RidePayments`; the price of a ride composed with `PricingPolicies`.


Runs are kept few: runs of one component that differ only in a bound are merged.
