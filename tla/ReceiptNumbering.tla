-------------------------- MODULE ReceiptNumbering --------------------------
(***************************************************************************)
(* Receipt numbers of one tenant: the numbering of PAID payments that      *)
(* every export and preview starts with (NumberingService), run by several *)
(* requests at once while payments are captured, reopened and deleted.     *)
(*                                                                         *)
(* Numbers are assigned in one SERIALIZABLE transaction: it reads the      *)
(* tables as they were when it began, its writes are seen at the commit,   *)
(* and the commit succeeds only if nobody has changed meanwhile a row that *)
(* it has written.                                                         *)
(***************************************************************************)
EXTENDS Integers, FiniteSets

CONSTANTS
    Payments,       \* payment ids, numbers because the code sorts by id
    Workers,        \* export requests that can be in flight together (bound)
    MonthLength,    \* instants in a calendar month
    MaxTime,        \* bound on the clock
    Lag             \* a capture time may be this much older than its commit

ASSUME PaymentsAssumption == Payments \subseteq Nat
ASSUME TimeAssumption ==
    MonthLength \in Nat \ {0} /\ MaxTime \in Nat \ {0} /\ Lag \in Nat

VARIABLES
    payments,   \* Payment table
    sequence,   \* NumberSequence table, "RECEIPT" rows: last number by month
    req,        \* locals and open transactions of the export requests
    clock

vars == <<payments, sequence, req, clock>>

Times == 1..MaxTime
Month(t) == (t - 1) \div MonthLength
Months == {Month(t) : t \in Times}

\* numberPeriod and receiptNumber are number (0: NULL) and period; the row of a
\* deleted payment keeps its number here as history, no operation reads it.
NewPayment == [status |-> "PENDING", capturedAt |-> 0, number |-> 0, period |-> 0]
PaymentRow == [status : {"PENDING", "PAID", "DELETED"}, capturedAt : 0..MaxTime,
               number : Nat, period : Months \cup {0}]

Candidate == [id : Payments, capturedAt : 0..MaxTime]

Unnumbered == [p \in Payments |-> 0]
Idle == [pc |-> "idle", period |-> 0, todo |-> {}, current |-> 0,
         seen |-> [p \in Payments |-> NewPayment], base |-> 0,
         issued |-> Unnumbered]
Request == [pc : {"idle", "begin", "assign"},
            period : Months \cup {0}, todo : SUBSET Candidate, current : Nat,
            seen : [Payments -> PaymentRow], base : Nat,
            issued : [Payments -> Nat]]

TypeOK ==
    /\ payments \in [Payments -> PaymentRow]
    /\ sequence \in [Months -> Nat]
    /\ req \in [Workers -> Request]
    /\ clock \in Times

Init ==
    /\ payments = [p \in Payments |-> NewPayment]
    /\ sequence = [m \in Months |-> 0]
    /\ req      = [w \in Workers |-> Idle]
    /\ clock    = 1

-----------------------------------------------------------------------------
At(w, step) == req[w].pc = step
Goto(w, locals) == req' = [req EXCEPT ![w] = locals]

Within(row, from, to) ==
    row.status = "PAID" /\ row.capturedAt >= from /\ row.capturedAt < to

\* capturedAt, then id.
Before(a, b) ==
    \/ a.capturedAt < b.capturedAt
    \/ a.capturedAt = b.capturedAt /\ a.id < b.id

\* assertSingleMonth
SingleMonth(from, to) == from < to /\ Month(from) = Month(to - 1)

\* Some payment in the window has a number of another month: the request is
\* refused.
MixesPeriods(from, to) ==
    \E p \in Payments :
        /\ Within(payments[p], from, to)
        /\ payments[p].number # 0
        /\ payments[p].period # Month(from)

\* The candidates are collected before, and outside, the transaction; with none
\* the request only reads.
Collect(w, from, to) ==
    LET unnumbered == {p \in Payments : /\ Within(payments[p], from, to)
                                        /\ payments[p].number = 0}
    IN  /\ At(w, "idle")
        /\ SingleMonth(from, to)
        /\ ~MixesPeriods(from, to)
        /\ unnumbered # {}
        /\ Goto(w, [Idle EXCEPT !.pc = "begin", !.period = Month(from),
              !.todo = {[id |-> p, capturedAt |-> payments[p].capturedAt] :
                           p \in unnumbered}])
        /\ UNCHANGED <<payments, sequence, clock>>

\* Mutant: the next number is the count of numbered payments plus one.
LastNumber_Counted(m) ==
    Cardinality({p \in Payments : /\ payments[p].status # "DELETED"
                                  /\ payments[p].number # 0
                                  /\ payments[p].period = m})

\* Mutant: the counter is taken for the next number to give.
LastNumber_Next(m) == sequence[m] - 1

LastNumber(m) == sequence[m]

\* The transaction begins: its snapshot of the candidates, and the counter as it
\* finds it.
Begin(w) ==
    /\ At(w, "begin")
    /\ Goto(w, [req[w] EXCEPT !.pc = "assign",
                              !.seen = [p \in Payments |->
                                  IF \E c \in req[w].todo : c.id = p
                                    THEN payments[p] ELSE NewPayment],
                              !.base = sequence[req[w].period],
                              !.current = LastNumber(req[w].period)])
    /\ UNCHANGED <<payments, sequence, clock>>

\* Mutant: the row is not read again inside the transaction.
StillUnnumbered_Trusted(row) == TRUE

StillUnnumbered(row) == row.status = "PAID" /\ row.number = 0

\* The next candidate, read again inside the transaction: numbered, or skipped
\* because it is gone, no longer PAID or numbered by another export.  A payment
\* that now belongs to another month makes the handler throw (Abandon).
AssignNext(w) ==
    /\ At(w, "assign")
    /\ \E c \in req[w].todo :
        LET row  == req[w].seen[c.id]
            rest == req[w].todo \ {c}
            next == req[w].current + 1
        IN  /\ \A d \in rest : Before(c, d)
            /\ \/ /\ StillUnnumbered(row)
                  /\ Month(row.capturedAt) = req[w].period
                  /\ Goto(w, [req[w] EXCEPT !.todo = rest, !.current = next,
                                            !.issued[c.id] = next])
               \/ /\ ~StillUnnumbered(row)
                  /\ Goto(w, [req[w] EXCEPT !.todo = rest])
    /\ UNCHANGED <<payments, sequence, clock>>

Written(w) == {p \in Payments : req[w].issued[p] # 0}

\* Mutant: the isolation level does not reach the database.
Serializable_Ignored(w) == TRUE

\* No row written by the transaction has changed since it began.
Serializable(w) ==
    /\ sequence[req[w].period] = req[w].base
    /\ \A p \in Written(w) : payments[p] = req[w].seen[p]

\* The unique key (tenant, period, number).
KeepsUnique(w) ==
    \A p \in Written(w), q \in Payments \ Written(w) :
        ~ /\ payments[q].status # "DELETED"
          /\ payments[q].period = req[w].period
          /\ payments[q].number = req[w].issued[p]

Commit(w) ==
    /\ At(w, "assign")
    /\ req[w].todo = {}
    /\ Serializable(w)
    /\ KeepsUnique(w)
    /\ payments' = [p \in Payments |->
            IF p \in Written(w)
              THEN [payments[p] EXCEPT !.number = req[w].issued[p],
                                       !.period = req[w].period]
              ELSE payments[p]]
    /\ sequence' = [sequence EXCEPT ![req[w].period] = req[w].current]
    /\ Goto(w, Idle)
    /\ UNCHANGED clock

\* A refusal, a serialization failure or a crash: the transaction is rolled back.
Abandon(w) ==
    /\ ~At(w, "idle")
    /\ Goto(w, Idle)
    /\ UNCHANGED <<payments, sequence, clock>>

-----------------------------------------------------------------------------
(***************************************************************************)
(* The other writers of the Payment table, as RidePayments has them        *)
(***************************************************************************)

\* A payment is settled; its capture time was taken a little earlier.
Capture(p, t) ==
    /\ payments[p].status = "PENDING"
    /\ t <= clock /\ t + Lag >= clock
    /\ payments' = [payments EXCEPT ![p].status = "PAID", ![p].capturedAt = t]
    /\ UNCHANGED <<sequence, req, clock>>

\* A late endRide puts a payment back to PENDING; its number stays.
Reopen(p) ==
    /\ payments[p].status = "PAID"
    /\ payments' = [payments EXCEPT ![p].status = "PENDING"]
    /\ UNCHANGED <<sequence, req, clock>>

DeletePayment(p) ==
    /\ payments[p].status # "DELETED"
    /\ payments' = [payments EXCEPT ![p].status = "DELETED"]
    /\ UNCHANGED <<sequence, req, clock>>

Tick ==
    /\ clock < MaxTime
    /\ clock' = clock + 1
    /\ UNCHANGED <<payments, sequence, req>>

Next ==
    \/ \E w \in Workers :
          \/ \E from \in Times, to \in 2..(MaxTime + 1) : Collect(w, from, to)
          \/ Begin(w) \/ AssignNext(w) \/ Commit(w) \/ Abandon(w)
    \/ \E p \in Payments : Reopen(p) \/ DeletePayment(p) \/ \E t \in Times : Capture(p, t)
    \/ Tick

Spec == Init /\ [][Next]_vars

-----------------------------------------------------------------------------
\* Two payments never get the same number of the same month, not even when the
\* first was deleted, and no number up to the counter is left out, whatever
\* exports overlap, abort or skip payments that changed under them.
NumberedOnce ==
    /\ \A p, q \in Payments :
          (/\ payments[p].number # 0
           /\ payments[p].number = payments[q].number
           /\ payments[p].period = payments[q].period) => p = q
    /\ \A m \in Months : \A n \in 1..sequence[m] :
          \E p \in Payments : payments[p].number = n /\ payments[p].period = m

\* A number, once given, is never changed, cleared or moved to another month, not
\* by a second export, nor by a payment that is reopened and captured again.
NumberIsFinal ==
    [][\A p \in Payments : payments[p].number # 0 =>
          /\ payments'[p].number = payments[p].number
          /\ payments'[p].period = payments[p].period]_vars

Book == INSTANCE ReceiptBook WITH
    book <- [m \in Months |-> [n \in 1..sequence[m] |->
                CHOOSE p \in Payments :
                    payments[p].number = n /\ payments[p].period = m]]

\* The tables implement the receipt book: every export that commits adds lines
\* after the last one of its month, for payments that were not in any book.
RefinesReceiptBook == Book!Spec
=============================================================================
