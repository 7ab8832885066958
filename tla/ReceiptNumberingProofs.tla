----------------------- MODULE ReceiptNumberingProofs -----------------------
(***************************************************************************)
(* For any number of payments, months and concurrent exports: a number is  *)
(* given once, without gaps, and for good.  The tables alone are not       *)
(* inductive: the invariant also says which numbers an open transaction    *)
(* has issued and has not committed yet, counted from the last number it   *)
(* has read; the commit finds that number unchanged.                       *)
(***************************************************************************)
EXTENDS ReceiptNumbering, SequenceTheorems, TLAPS

\* The counter of a month is the largest number of that month.
Counted ==
    \A p \in Payments : payments[p].number # 0 =>
        payments[p].period \in Months /\ payments[p].number <= sequence[payments[p].period]

\* What request w has collected, and issued so far.
Collected(w) ==
    /\ req[w].pc # "idle" => req[w].period \in Months
    /\ \A c, d \in req[w].todo : c.id = d.id => c = d
    /\ \A c \in req[w].todo : req[w].issued[c.id] = 0
    /\ req[w].pc = "begin" => \A p \in Payments : req[w].issued[p] = 0

Issued(w) ==
    /\ req[w].current >= req[w].base
    /\ \A p \in Payments : req[w].issued[p] # 0 =>
          /\ req[w].issued[p] > req[w].base
          /\ req[w].issued[p] <= req[w].current
          /\ req[w].seen[p].number = 0
    /\ \A p, q \in Payments :
          req[w].issued[p] # 0 /\ req[w].issued[p] = req[w].issued[q] => p = q
    /\ \A n \in (req[w].base + 1)..req[w].current :
          \E p \in Payments : req[w].issued[p] = n

Requests == \A w \in Workers : Collected(w) /\ (req[w].pc = "assign" => Issued(w))

Inv == TypeOK /\ Counted /\ Requests /\ NumberedOnce

LEMMA MonthsOfTimes == \A t \in Times : Month(t) \in Months
  BY DEF Months

LEMMA IdleType == Idle \in Request /\ NewPayment \in PaymentRow
  BY TimeAssumption DEF Idle, Request, NewPayment, PaymentRow, Unnumbered, Candidate

LEMMA InitInv == Init => Inv
<1> SUFFICES ASSUME Init PROVE Inv
  OBVIOUS
<1>1. TypeOK
  BY IdleType, TimeAssumption DEF Init, TypeOK, Times
<1>2. Counted
  BY DEF Init, Counted, NewPayment
<1>3. Requests
  BY DEF Init, Requests, Collected, Idle, Unnumbered
<1>4. NumberedOnce
  BY DEF Init, NumberedOnce, NewPayment
<1> QED
  BY <1>1, <1>2, <1>3, <1>4 DEF Inv

-----------------------------------------------------------------------------
\* A step of w that changes only its own locals.
LEMMA LocalStep ==
    ASSUME Inv, NEW w \in Workers, NEW locals \in Request,
           req' = [req EXCEPT ![w] = locals],
           UNCHANGED <<payments, sequence, clock>>,
           Collected(w)', req'[w].pc = "assign" => Issued(w)'
    PROVE  Inv'
<1>1. TypeOK'
  BY DEF Inv, TypeOK
<1>2. Counted' /\ NumberedOnce'
  BY DEF Inv, Counted, NumberedOnce
<1>3. ASSUME NEW v \in Workers
      PROVE  Collected(v)' /\ (req'[v].pc = "assign" => Issued(v)')
  <2>1. CASE v = w
    BY <2>1
  <2>2. CASE v # w
    <3>1. req'[v] = req[v]
      BY <2>2 DEF Inv, TypeOK
    <3> QED
      BY <3>1 DEF Inv, Requests, Collected, Issued
  <2> QED
    BY <2>1, <2>2
<1> QED
  BY <1>1, <1>2, <1>3 DEF Inv, Requests

LEMMA CollectKeeps ==
    ASSUME Inv, NEW w \in Workers, NEW from \in Times, NEW to \in 2..(MaxTime + 1),
           Collect(w, from, to)
    PROVE  Inv'
<1> DEFINE unnumbered == {p \in Payments : /\ Within(payments[p], from, to)
                                           /\ payments[p].number = 0}
           todo == {[id |-> p, capturedAt |-> payments[p].capturedAt] : p \in unnumbered}
           locals == [Idle EXCEPT !.pc = "begin", !.period = Month(from), !.todo = todo]
<1>1. req' = [req EXCEPT ![w] = locals] /\ UNCHANGED <<payments, sequence, clock>>
  BY DEF Collect, Goto
<1>2. todo \subseteq Candidate
  BY DEF Inv, TypeOK, PaymentRow, Candidate
<1>3. Month(from) \in Months
  BY MonthsOfTimes
<1>4. locals \in Request
  BY <1>2, <1>3, IdleType DEF Idle, Request
<1>5. req'[w] = locals
  BY <1>1 DEF Inv, TypeOK
<1>6. /\ req'[w].pc = "begin" /\ req'[w].period = Month(from) /\ req'[w].todo = todo
      /\ req'[w].issued = Unnumbered
  BY <1>5 DEF Idle
<1>7. \A c, d \in todo : c.id = d.id => c = d
  OBVIOUS
<1>8. \A c \in todo : c.id \in Payments
  OBVIOUS
<1>9. Collected(w)'
  BY <1>3, <1>6, <1>7, <1>8 DEF Collected, Unnumbered
<1> HIDE DEF locals
<1> QED
  BY <1>1, <1>4, <1>6, <1>9, LocalStep

LEMMA BeginKeeps ==
    ASSUME Inv, NEW w \in Workers, Begin(w)
    PROVE  Inv'
<1> DEFINE seen == [p \in Payments |-> IF \E c \in req[w].todo : c.id = p
                                         THEN payments[p] ELSE NewPayment]
           locals == [req[w] EXCEPT !.pc = "assign", !.seen = seen,
                                    !.base = sequence[req[w].period],
                                    !.current = LastNumber(req[w].period)]
<1>1. req' = [req EXCEPT ![w] = locals] /\ UNCHANGED <<payments, sequence, clock>>
  BY DEF Begin, Goto
<1>2. req[w] \in Request /\ req[w].pc = "begin"
  BY DEF Inv, TypeOK, Begin, At
<1>3. sequence[req[w].period] \in Nat
  BY <1>2 DEF Inv, TypeOK, Requests, Collected
<1>4. seen \in [Payments -> PaymentRow]
  BY IdleType DEF Inv, TypeOK
<1>5. locals \in Request
  BY <1>2, <1>3, <1>4 DEF Request, LastNumber
<1>6. req'[w] = locals
  BY <1>1 DEF Inv, TypeOK
<1>7. /\ req'[w].period = req[w].period /\ req'[w].todo = req[w].todo
      /\ req'[w].issued = req[w].issued /\ req'[w].pc = "assign"
      /\ req'[w].base = sequence[req[w].period]
      /\ req'[w].current = sequence[req[w].period]
  BY <1>2, <1>6 DEF Request, LastNumber
<1>8. Collected(w)'
  BY <1>2, <1>7 DEF Inv, Requests, Collected
<1>9. \A p \in Payments : req'[w].issued[p] = 0
  BY <1>2, <1>7 DEF Inv, Requests, Collected
<1>10. Issued(w)'
  BY <1>3, <1>7, <1>9 DEF Issued
<1> HIDE DEF locals
<1> QED
  BY <1>1, <1>5, <1>8, <1>10, LocalStep

-----------------------------------------------------------------------------
\* A candidate gets the number after the last one issued, or is skipped.
LEMMA AssignKeeps ==
    ASSUME Inv, NEW w \in Workers, AssignNext(w)
    PROVE  Inv'
<1>1. PICK c \in req[w].todo :
        LET row  == req[w].seen[c.id]
            rest == req[w].todo \ {c}
            next == req[w].current + 1
        IN  \/ /\ StillUnnumbered(row)
               /\ Goto(w, [req[w] EXCEPT !.todo = rest, !.current = next,
                                         !.issued[c.id] = next])
            \/ Goto(w, [req[w] EXCEPT !.todo = rest])
  BY DEF AssignNext
<1> DEFINE rest == req[w].todo \ {c}
           next == req[w].current + 1
           issued == [req[w].issued EXCEPT ![c.id] = next]
           numbered == [req[w] EXCEPT !.todo = rest, !.current = next, !.issued = issued]
           skipped == [req[w] EXCEPT !.todo = rest]
<1>2. req[w] \in Request /\ req[w].pc = "assign"
  BY DEF Inv, TypeOK, AssignNext, At
<1>3. c.id \in Payments /\ next \in Nat /\ req[w].base \in Nat /\ req[w].current \in Nat
  BY <1>2 DEF Request, Candidate
<1>4. Collected(w) /\ Issued(w)
  BY <1>2 DEF Inv, Requests
<1>5. UNCHANGED <<payments, sequence, clock>>
  BY DEF AssignNext
<1>6. CASE StillUnnumbered(req[w].seen[c.id]) /\ req' = [req EXCEPT ![w] = numbered]
  <2>1. numbered \in Request
    BY <1>2, <1>3 DEF Request
  <2>2. req'[w] = numbered
    BY <1>6 DEF Inv, TypeOK
  <2>3. /\ req'[w].pc = "assign" /\ req'[w].period = req[w].period
        /\ req'[w].todo = rest /\ req'[w].issued = issued
        /\ req'[w].current = next /\ req'[w].base = req[w].base
        /\ req'[w].seen = req[w].seen
    BY <1>2, <2>2 DEF Request
  <2>4. \A p \in Payments : issued[p] = IF p = c.id THEN next ELSE req[w].issued[p]
    BY <1>2, <1>3 DEF Request
  <2>5. \A p \in Payments : req[w].issued[p] \in Nat
    BY <1>2 DEF Request
  <2>6. \A d \in rest : d.id # c.id /\ d.id \in Payments
    BY <1>2, <1>4 DEF Collected, Request, Candidate
  <2>7. Collected(w)'
    BY <1>2, <1>4, <2>3, <2>4, <2>6 DEF Collected
  <2>8. ASSUME NEW p \in Payments, issued[p] # 0
        PROVE  issued[p] > req[w].base /\ issued[p] <= next /\ req[w].seen[p].number = 0
    BY <1>3, <1>4, <1>6, <2>4, <2>5, <2>8 DEF Issued, StillUnnumbered
  <2>9. ASSUME NEW p \in Payments, NEW q \in Payments, issued[p] # 0,
               issued[p] = issued[q]
        PROVE  p = q
    BY <1>3, <1>4, <2>4, <2>5, <2>9 DEF Issued
  <2>10. ASSUME NEW n \in (req[w].base + 1)..next
         PROVE  \E p \in Payments : issued[p] = n
    <3>1. CASE n = next
      BY <1>3, <2>4, <3>1
    <3>2. CASE n # next
      <4>1. n \in (req[w].base + 1)..req[w].current
        BY <1>3, <3>2
      <4>2. PICK p \in Payments : req[w].issued[p] = n
        BY <1>4, <4>1 DEF Issued
      <4>3. p # c.id
        BY <1>3, <1>4, <4>1, <4>2 DEF Collected
      <4> QED
        BY <2>4, <4>2, <4>3
    <3> QED
      BY <3>1, <3>2
  <2>11. Issued(w)'
    BY <1>3, <1>4, <2>3, <2>8, <2>9, <2>10 DEF Issued
  <2> HIDE DEF numbered
  <2> QED
    BY <1>5, <1>6, <2>1, <2>7, <2>11, LocalStep
<1>7. CASE req' = [req EXCEPT ![w] = skipped]
  <2>1. skipped \in Request
    BY <1>2 DEF Request
  <2>2. req'[w] = skipped
    BY <1>7 DEF Inv, TypeOK
  <2>3. /\ req'[w].pc = "assign" /\ req'[w].period = req[w].period
        /\ req'[w].todo = rest /\ req'[w].issued = req[w].issued
        /\ req'[w].current = req[w].current /\ req'[w].base = req[w].base
        /\ req'[w].seen = req[w].seen
    BY <1>2, <2>2 DEF Request
  <2>4. Collected(w)' /\ Issued(w)'
    BY <1>2, <1>4, <2>3 DEF Collected, Issued
  <2> HIDE DEF skipped
  <2> QED
    BY <1>5, <1>7, <2>1, <2>4, LocalStep
<1> QED
  BY <1>1, <1>6, <1>7 DEF Goto

LEMMA AbandonKeeps ==
    ASSUME Inv, NEW w \in Workers, Abandon(w)
    PROVE  Inv'
<1>1. req' = [req EXCEPT ![w] = Idle] /\ UNCHANGED <<payments, sequence, clock>>
  BY DEF Abandon, Goto
<1>2. req'[w] = Idle
  BY <1>1 DEF Inv, TypeOK
<1>3. Collected(w)' /\ req'[w].pc # "assign"
  BY <1>2 DEF Collected, Idle, Unnumbered
<1> QED
  BY <1>1, <1>3, IdleType, LocalStep

-----------------------------------------------------------------------------
\* The rows a commit writes had no number, and the counter is the one that the
\* transaction counted from.
LEMMA CommitEffect ==
    ASSUME Inv, NEW w \in Workers, Commit(w)
    PROVE  /\ \A p \in Payments :
                 IF req[w].issued[p] # 0
                   THEN /\ payments[p].number = 0
                        /\ payments'[p].number = req[w].issued[p]
                        /\ payments'[p].period = req[w].period
                   ELSE payments'[p] = payments[p]
           /\ sequence[req[w].period] = req[w].base
           /\ req[w].period \in Months
           /\ Issued(w)
<1>1. Issued(w) /\ req[w].period \in Months
  BY DEF Inv, Requests, Collected, Commit, At
<1>2. sequence[req[w].period] = req[w].base
  BY DEF Commit, Serializable
<1>3. ASSUME NEW p \in Payments, req[w].issued[p] # 0
      PROVE  /\ payments[p].number = 0
             /\ payments'[p].number = req[w].issued[p]
             /\ payments'[p].period = req[w].period
  <2>1. p \in Written(w)
    BY <1>3 DEF Written
  <2>2. payments[p].number = 0
    BY <1>1, <1>3, <2>1 DEF Commit, Serializable, Issued
  <2>3. payments'[p] = [payments[p] EXCEPT !.number = req[w].issued[p],
                                           !.period = req[w].period]
    BY <2>1 DEF Commit
  <2> QED
    BY <2>2, <2>3 DEF Inv, TypeOK, PaymentRow
<1>4. \A p \in Payments : req[w].issued[p] = 0 => payments'[p] = payments[p]
  BY DEF Commit, Written
<1> QED
  BY <1>1, <1>2, <1>3, <1>4

LEMMA CommitKeeps ==
    ASSUME Inv, NEW w \in Workers, Commit(w)
    PROVE  Inv'
<1> DEFINE m == req[w].period
<1>1. /\ \A p \in Payments :
            IF req[w].issued[p] # 0
              THEN /\ payments[p].number = 0
                   /\ payments'[p].number = req[w].issued[p]
                   /\ payments'[p].period = m
              ELSE payments'[p] = payments[p]
      /\ sequence[m] = req[w].base
      /\ m \in Months
      /\ Issued(w)
  BY CommitEffect
<1>2. req[w] \in Request
  BY DEF Inv, TypeOK
<1>3. /\ req[w].base \in Nat /\ req[w].current \in Nat
      /\ \A p \in Payments : req[w].issued[p] \in Nat
  BY <1>2 DEF Request
<1>4. \A k \in Months : sequence'[k] = IF k = m THEN req[w].current ELSE sequence[k]
  BY <1>1 DEF Commit, Inv, TypeOK
<1>5. \A k \in Months : sequence[k] \in Nat /\ sequence'[k] \in Nat
  BY <1>3, <1>4 DEF Inv, TypeOK
<1>6. \A p \in Payments : payments[p] \in PaymentRow /\ payments[p].number \in Nat
  BY DEF Inv, TypeOK, PaymentRow
<1>7. TypeOK'
  <2>1. payments' \in [Payments -> PaymentRow]
    <3>1. \A p \in Payments : [payments[p] EXCEPT !.number = req[w].issued[p],
                                                  !.period = m] \in PaymentRow
      BY <1>1, <1>3, <1>6 DEF PaymentRow
    <3> QED
      BY <1>6, <3>1 DEF Commit
  <2>2. sequence' \in [Months -> Nat]
    BY <1>1, <1>3 DEF Commit, Inv, TypeOK
  <2>3. req' \in [Workers -> Request] /\ clock' \in Times
    BY IdleType DEF Commit, Goto, Inv, TypeOK
  <2> QED
    BY <2>1, <2>2, <2>3 DEF TypeOK
<1>8. Counted'
  <2> SUFFICES ASSUME NEW p \in Payments, payments'[p].number # 0
      PROVE  /\ payments'[p].period \in Months
             /\ payments'[p].number <= sequence'[payments'[p].period]
    BY DEF Counted
  <2>1. CASE req[w].issued[p] # 0
    BY <1>1, <1>4, <2>1 DEF Issued
  <2>2. CASE req[w].issued[p] = 0
    <3>1. /\ payments'[p] = payments[p] /\ payments[p].period \in Months
          /\ payments[p].number <= sequence[payments[p].period]
      BY <1>1, <2>2 DEF Inv, Counted
    <3> QED
      BY <1>1, <1>3, <1>4, <1>5, <1>6, <3>1 DEF Issued
  <2> QED
    BY <2>1, <2>2
<1>9. Requests'
  <2> SUFFICES ASSUME NEW v \in Workers
      PROVE  Collected(v)' /\ (req'[v].pc = "assign" => Issued(v)')
    BY DEF Requests
  <2>1. CASE v = w
    <3>1. req'[v] = Idle
      BY <2>1 DEF Commit, Goto, Inv, TypeOK
    <3> QED
      BY <3>1 DEF Collected, Idle, Unnumbered
  <2>2. CASE v # w
    <3>1. req'[v] = req[v]
      BY <2>2 DEF Commit, Goto, Inv, TypeOK
    <3> QED
      BY <3>1 DEF Inv, Requests, Collected, Issued
  <2> QED
    BY <2>1, <2>2
<1>10. ASSUME NEW p \in Payments, NEW q \in Payments,
              req[w].issued[p] # 0, req[w].issued[q] = 0,
              payments'[p].number = payments'[q].number,
              payments'[p].period = payments'[q].period
       PROVE  FALSE
  <2>1. payments[q].number = req[w].issued[p] /\ payments[q].period = m
    BY <1>1, <1>10
  <2>2. payments[q].number <= req[w].base
    BY <1>1, <1>10, <2>1 DEF Inv, Counted
  <2> QED
    BY <1>1, <1>3, <1>10, <2>1, <2>2 DEF Issued
<1>11. ASSUME NEW p \in Payments, NEW q \in Payments, payments'[p].number # 0,
              payments'[p].number = payments'[q].number,
              payments'[p].period = payments'[q].period
       PROVE  p = q
  <2>1. CASE req[w].issued[p] # 0 /\ req[w].issued[q] # 0
    BY <1>1, <1>11, <2>1 DEF Issued
  <2>2. CASE req[w].issued[p] = 0 /\ req[w].issued[q] = 0
    BY <1>1, <1>11, <2>2 DEF Inv, NumberedOnce
  <2> QED
    BY <1>10, <1>11, <2>1, <2>2
<1>12. ASSUME NEW k \in Months, NEW n \in 1..sequence'[k]
       PROVE  \E p \in Payments : payments'[p].number = n /\ payments'[p].period = k
  <2>1. CASE n \in 1..sequence[k]
    <3>1. PICK p \in Payments : payments[p].number = n /\ payments[p].period = k
      BY <2>1 DEF Inv, NumberedOnce
    <3>2. payments'[p] = payments[p]
      BY <1>1, <2>1, <3>1
    <3> QED
      BY <3>1, <3>2
  <2>2. CASE n \notin 1..sequence[k]
    <3>1. k = m /\ n \in (req[w].base + 1)..req[w].current
      BY <1>1, <1>3, <1>4, <1>5, <2>2
    <3>2. PICK p \in Payments : req[w].issued[p] = n
      BY <1>1, <3>1 DEF Issued
    <3> QED
      BY <1>1, <3>1, <3>2
  <2> QED
    BY <2>1, <2>2
<1>13. NumberedOnce'
  BY <1>11, <1>12 DEF NumberedOnce
<1> QED
  BY <1>7, <1>8, <1>9, <1>13 DEF Inv

-----------------------------------------------------------------------------
\* Settling, reopening and deleting a payment, and time, touch no number.
LEMMA OthersKeep ==
    ASSUME Inv,
           \/ \E p \in Payments : Reopen(p) \/ DeletePayment(p) \/ \E t \in Times : Capture(p, t)
           \/ Tick
    PROVE  /\ Inv'
           /\ \A p \in Payments : /\ payments'[p].number = payments[p].number
                                  /\ payments'[p].period = payments[p].period
<1> DEFINE Kept == /\ payments' \in [Payments -> PaymentRow]
                   /\ \A q \in Payments : /\ payments'[q].number = payments[q].number
                                          /\ payments'[q].period = payments[q].period
<1>1. ASSUME NEW p \in Payments, NEW row \in PaymentRow,
             row.number = payments[p].number, row.period = payments[p].period,
             payments' = [payments EXCEPT ![p] = row]
      PROVE  Kept
  BY <1>1 DEF Inv, TypeOK
<1>2. Kept
  <2>1. ASSUME NEW p \in Payments PROVE payments[p] \in PaymentRow
    BY DEF Inv, TypeOK
  <2>2. ASSUME NEW p \in Payments, Reopen(p) PROVE Kept
    <3> DEFINE row == [payments[p] EXCEPT !.status = "PENDING"]
    <3>1. /\ row \in PaymentRow /\ row.number = payments[p].number
          /\ row.period = payments[p].period
      BY <2>1 DEF PaymentRow
    <3>2. payments' = [payments EXCEPT ![p] = row]
      BY <2>2 DEF Reopen
    <3> HIDE DEF row
    <3> QED
      BY <1>1, <3>1, <3>2
  <2>3. ASSUME NEW p \in Payments, DeletePayment(p) PROVE Kept
    <3> DEFINE row == [payments[p] EXCEPT !.status = "DELETED"]
    <3>1. /\ row \in PaymentRow /\ row.number = payments[p].number
          /\ row.period = payments[p].period
      BY <2>1 DEF PaymentRow
    <3>2. payments' = [payments EXCEPT ![p] = row]
      BY <2>3 DEF DeletePayment
    <3> HIDE DEF row
    <3> QED
      BY <1>1, <3>1, <3>2
  <2>4. ASSUME NEW p \in Payments, NEW t \in Times, Capture(p, t) PROVE Kept
    <3> DEFINE row == [payments[p] EXCEPT !.status = "PAID", !.capturedAt = t]
    <3>1. /\ row \in PaymentRow /\ row.number = payments[p].number
          /\ row.period = payments[p].period
      <4>1. t \in 0..MaxTime
        BY TimeAssumption DEF Times
      <4> QED
        BY <2>1, <4>1 DEF PaymentRow
    <3>2. payments' = [payments EXCEPT ![p] = row]
      <4>1. payments' = [[payments EXCEPT ![p].status = "PAID"] EXCEPT ![p].capturedAt = t]
        BY <2>4 DEF Capture
      <4>2. payments \in [Payments -> PaymentRow]
        BY DEF Inv, TypeOK
      <4> QED
        BY <4>1, <4>2
    <3> HIDE DEF row
    <3> QED
      BY <1>1, <3>1, <3>2
  <2>5. CASE Tick
    BY <2>5 DEF Tick, Inv, TypeOK
  <2> QED
    BY <2>2, <2>3, <2>4, <2>5
<1>3. clock' \in Times /\ UNCHANGED <<sequence, req>>
  <2>1. CASE Tick
    BY <2>1, TimeAssumption DEF Inv, TypeOK, Tick, Times
  <2>2. CASE ~Tick
    BY <2>2 DEF Inv, TypeOK, Reopen, DeletePayment, Capture
  <2> QED
    BY <2>1, <2>2
<1>4. TypeOK'
  BY <1>2, <1>3 DEF Inv, TypeOK
<1>5. Counted' /\ NumberedOnce'
  BY <1>2, <1>3 DEF Inv, Counted, NumberedOnce
<1>6. Requests'
  BY <1>3 DEF Inv, Requests, Collected, Issued
<1> QED
  BY <1>2, <1>4, <1>5, <1>6 DEF Inv

LEMMA NextKeeps == Inv /\ [Next]_vars => Inv'
<1> SUFFICES ASSUME Inv, [Next]_vars PROVE Inv'
  OBVIOUS
<1>1. ASSUME NEW w \in Workers,
             \/ \E from \in Times, to \in 2..(MaxTime + 1) : Collect(w, from, to)
             \/ Begin(w) \/ AssignNext(w) \/ Commit(w) \/ Abandon(w)
      PROVE  Inv'
  BY <1>1, CollectKeeps, BeginKeeps, AssignKeeps, CommitKeeps, AbandonKeeps
<1>2. CASE UNCHANGED vars
  BY <1>2 DEF vars, Inv, TypeOK, Counted, Requests, Collected, Issued, NumberedOnce
<1> QED
  BY <1>1, <1>2, OthersKeep DEF Next

\* However many exports overlap, abort or find their candidates changed, and
\* whichever payments are reopened or deleted meanwhile, the numbers of a month
\* are 1 up to its counter, each given to one payment.
THEOREM NumbersAreUnique == Spec => []NumberedOnce
<1>1. Inv => NumberedOnce
  BY DEF Inv
<1> QED
  BY InitInv, NextKeeps, <1>1, PTL DEF Spec

\* Whatever exports overlap, abort or die, tables, counters and the locals of every
\* request keep their types.
THEOREM NumberingTypeCorrect == Spec => []TypeOK
<1>1. Inv => TypeOK
  BY DEF Inv
<1> QED
  BY InitInv, NextKeeps, <1>1, PTL DEF Spec

LEMMA NumbersStay ==
    ASSUME Inv, [Next]_vars, NEW p \in Payments, payments[p].number # 0
    PROVE  /\ payments'[p].number = payments[p].number
           /\ payments'[p].period = payments[p].period
<1>1. ASSUME NEW w \in Workers, Commit(w)
      PROVE  payments'[p] = payments[p]
  BY <1>1, CommitEffect
<1>2. ASSUME NEW w \in Workers,
             \/ \E from \in Times, to \in 2..(MaxTime + 1) : Collect(w, from, to)
             \/ Begin(w) \/ AssignNext(w) \/ Abandon(w)
      PROVE  payments'[p] = payments[p]
  BY <1>2 DEF Collect, Begin, AssignNext, Abandon
<1>3. CASE UNCHANGED vars
  BY <1>3 DEF vars
<1> QED
  BY <1>1, <1>2, <1>3, OthersKeep DEF Next

\* A payment that has its receipt number keeps it: no export, re-billing or new
\* capture changes, clears or moves it to another month.
THEOREM NumbersAreFinal == Spec => NumberIsFinal
<1> DEFINE Kept == \A p \in Payments : payments[p].number # 0 =>
                      /\ payments'[p].number = payments[p].number
                      /\ payments'[p].period = payments[p].period
<1>1. Inv /\ [Next]_vars => [Kept]_vars
  BY NumbersStay
<1>2. Spec => []Inv
  BY InitInv, NextKeeps, PTL DEF Spec
<1> QED
  BY <1>1, <1>2, PTL DEF Spec, NumberIsFinal

-----------------------------------------------------------------------------
(***************************************************************************)
(* ReceiptNumbering implements ReceiptBook.  The book is read off the      *)
(* tables: line n of month m is the payment that has number n of month m.  *)
(* A commit enters the lines it has numbered; no other step touches a      *)
(* number.                                                                 *)
(***************************************************************************)
Line(m, n) == CHOOSE p \in Payments : payments[p].number = n /\ payments[p].period = m
MonthBook(m) == [n \in 1..sequence[m] |-> Line(m, n)]
bookBar == [m \in Months |-> MonthBook(m)]

\* Every line up to the counter is one payment, the one with that number.
LEMMA LineIsPayment ==
    ASSUME Inv, NEW m \in Months, NEW n \in 1..sequence[m]
    PROVE  /\ Line(m, n) \in Payments
           /\ payments[Line(m, n)].number = n /\ payments[Line(m, n)].period = m
<1>1. \E p \in Payments : payments[p].number = n /\ payments[p].period = m
  BY DEF Inv, NumberedOnce
<1> QED
  BY <1>1 DEF Line

LEMMA LineIsPaymentNext ==
    ASSUME Inv', NEW m \in Months, NEW n \in 1..sequence'[m]
    PROVE  /\ Line(m, n)' \in Payments
           /\ payments'[Line(m, n)'].number = n /\ payments'[Line(m, n)'].period = m
<1>1. \E p \in Payments : payments'[p].number = n /\ payments'[p].period = m
  BY DEF Inv, NumberedOnce
<1> QED
  BY <1>1 DEF Line

\* A step that leaves a number where it is leaves its line where it is.
LEMMA LineStays ==
    ASSUME Inv, Inv', NEW m \in Months, NEW n \in 1..sequence[m],
           n \in 1..sequence'[m],
           \A p \in Payments : payments[p].number # 0 =>
              /\ payments'[p].number = payments[p].number
              /\ payments'[p].period = payments[p].period
    PROVE  Line(m, n)' = Line(m, n)
<1> DEFINE p == Line(m, n)
<1>1. p \in Payments /\ payments[p].number = n /\ payments[p].period = m
  BY LineIsPayment
<1>2. n # 0
  BY DEF Inv, TypeOK
<1>3. payments'[p].number = n /\ payments'[p].period = m
  BY <1>1, <1>2
<1>4. /\ Line(m, n)' \in Payments
      /\ payments'[Line(m, n)'].number = n /\ payments'[Line(m, n)'].period = m
  BY LineIsPaymentNext
<1> HIDE DEF p
<1>5. Line(m, n)' = p
  BY <1>1, <1>2, <1>3, <1>4 DEF Inv, NumberedOnce
<1> QED
  BY <1>5 DEF p

LEMMA BookStutter ==
    ASSUME Inv, Inv', UNCHANGED sequence,
           \A p \in Payments : /\ payments'[p].number = payments[p].number
                               /\ payments'[p].period = payments[p].period
    PROVE  bookBar' = bookBar
<1>1. ASSUME NEW m \in Months, NEW n \in 1..sequence[m]
      PROVE  Line(m, n)' = Line(m, n)
  BY LineStays
<1>2. \A m \in Months : MonthBook(m)' = MonthBook(m)
  BY <1>1 DEF MonthBook
<1> QED
  BY <1>2 DEF bookBar

\* A sequence is its first n elements and the rest.
LEMMA SplitSeq ==
    ASSUME NEW S, NEW s \in Seq(S), NEW t \in Seq(S), Len(s) <= Len(t),
           \A i \in 1..Len(s) : t[i] = s[i]
    PROVE  t = s \o SubSeq(t, Len(s) + 1, Len(t))
<1> DEFINE rest == SubSeq(t, Len(s) + 1, Len(t))
<1>1. /\ rest \in Seq(S) /\ Len(rest) = Len(t) - Len(s)
      /\ \A i \in 1..Len(rest) : rest[i] = t[Len(s) + i]
  <2>1. Len(s) \in Nat /\ Len(t) \in Nat /\ \A i \in 1..Len(t) : t[i] \in S
    BY LenProperties, ElementOfSeq
  <2>2. \A i \in (Len(s) + 1)..Len(t) : t[i] \in S
    BY <2>1
  <2> QED
    BY <2>1, <2>2, SubSeqProperties
<1> HIDE DEF rest
<1>2. Len(s) \in Nat /\ Len(t) \in Nat
  BY LenProperties
<1>3. /\ s \o rest \in Seq(S) /\ Len(s \o rest) = Len(t)
      /\ \A i \in 1..Len(t) : (s \o rest)[i] = t[i]
  <2>1. /\ s \o rest \in Seq(S) /\ Len(s \o rest) = Len(t)
        /\ \A i \in 1..Len(t) : (s \o rest)[i] =
              IF i <= Len(s) THEN s[i] ELSE rest[i - Len(s)]
    BY <1>1, <1>2, ConcatProperties
  <2>2. ASSUME NEW i \in 1..Len(t) PROVE (s \o rest)[i] = t[i]
    <3>1. CASE i <= Len(s)
      BY <1>2, <2>1, <3>1
    <3>2. CASE i > Len(s)
      <4>1. i - Len(s) \in 1..Len(rest) /\ Len(s) + (i - Len(s)) = i
        BY <1>1, <1>2, <3>2
      <4>2. rest[i - Len(s)] = t[i]
        BY <1>1, <4>1
      <4> QED
        BY <1>2, <2>1, <3>2, <4>2
    <3>3. i <= Len(s) \/ i > Len(s)
      BY <1>2
    <3> QED
      BY <3>1, <3>2, <3>3, Zenon
  <2> QED
    BY <2>1, <2>2
<1>4. t = s \o rest
  BY <1>3, SeqEqual
<1> QED
  BY <1>4 DEF rest

LEMMA MonthBookIsSeq ==
    ASSUME Inv, NEW m \in Months
    PROVE  /\ MonthBook(m) \in Seq(Payments) /\ Len(MonthBook(m)) = sequence[m]
           /\ \A n \in 1..sequence[m] : MonthBook(m)[n] = Line(m, n)
<1>1. sequence[m] \in Nat
  BY DEF Inv, TypeOK
<1>2. MonthBook(m) \in [1..sequence[m] -> Payments]
  BY LineIsPayment DEF MonthBook
<1> QED
  BY <1>1, <1>2, SeqDef DEF MonthBook

LEMMA MonthBookIsSeqNext ==
    ASSUME Inv', NEW m \in Months
    PROVE  /\ MonthBook(m)' \in Seq(Payments) /\ Len(MonthBook(m)') = sequence'[m]
           /\ \A n \in 1..sequence'[m] : MonthBook(m)'[n] = Line(m, n)'
<1>1. sequence'[m] \in Nat
  BY DEF Inv, TypeOK
<1>2. MonthBook(m)' \in [1..sequence'[m] -> Payments]
  BY LineIsPaymentNext DEF MonthBook
<1> QED
  BY <1>1, <1>2, SeqDef DEF MonthBook

LEMMA CommitEnters ==
    ASSUME Inv, NEW w \in Workers, Commit(w)
    PROVE  Book!Next
<1>1. PICK m \in Months, base \in Nat, now \in Nat :
          m = req[w].period /\ base = req[w].base /\ now = req[w].current
  BY CommitEffect DEF Inv, TypeOK, Request
<1>2. /\ \A p \in Payments :
            IF req[w].issued[p] # 0
              THEN /\ payments[p].number = 0
                   /\ payments'[p].number = req[w].issued[p]
                   /\ payments'[p].period = m
              ELSE payments'[p] = payments[p]
      /\ sequence[m] = base
      /\ Issued(w)
  BY <1>1, CommitEffect
<1>3. Inv'
  BY CommitKeeps
<1>4. base <= now
  BY <1>1, <1>2 DEF Issued
<1>5. sequence'[m] = now /\ \A k \in Months \ {m} : sequence'[k] = sequence[k]
  BY <1>1 DEF Commit, Inv, TypeOK
<1>6. \A p \in Payments : payments[p].number # 0 =>
          /\ payments'[p].number = payments[p].number
          /\ payments'[p].period = payments[p].period
  BY <1>2
<1>7. ASSUME NEW k \in Months \ {m} PROVE MonthBook(k)' = MonthBook(k)
  <2>1. \A n \in 1..sequence[k] : Line(k, n)' = Line(k, n)
    BY <1>3, <1>5, <1>6, LineStays
  <2> QED
    BY <1>5, <2>1 DEF MonthBook
<1>8. \A n \in 1..base : MonthBook(m)'[n] = MonthBook(m)[n]
  <2>1. ASSUME NEW n \in 1..base PROVE n \in 1..sequence'[m] /\ Line(m, n)' = Line(m, n)
    <3>1. n \in 1..sequence[m] /\ n \in 1..sequence'[m]
      BY <1>2, <1>4, <1>5
    <3> QED
      BY <1>3, <1>6, <3>1, LineStays
  <2> QED
    BY <1>2, <1>3, <2>1, MonthBookIsSeq, MonthBookIsSeqNext
<1> DEFINE lines == SubSeq(MonthBook(m)', Len(MonthBook(m)) + 1, Len(MonthBook(m)'))
<1>9. MonthBook(m)' = MonthBook(m) \o lines
  BY <1>2, <1>3, <1>4, <1>5, <1>8, MonthBookIsSeq, MonthBookIsSeqNext, SplitSeq
\* The lines entered: one for each number the transaction has issued.
<1>10. /\ DOMAIN lines = 1..(now - base)
       /\ \A i \in DOMAIN lines :
            /\ lines[i] \in Payments
            /\ payments'[lines[i]].number = base + i /\ payments'[lines[i]].period = m
  <2>1. /\ MonthBook(m)' \in Seq(Payments) /\ Len(MonthBook(m)') = now
        /\ Len(MonthBook(m)) = base
    BY <1>2, <1>3, <1>5, MonthBookIsSeq, MonthBookIsSeqNext
  <2>2. \A n \in (base + 1)..now : MonthBook(m)'[n] \in Payments
    BY <1>4, <2>1, ElementOfSeq
  <2>3. /\ lines \in Seq(Payments) /\ Len(lines) = now - base
        /\ \A i \in 1..(now - base) : lines[i] = MonthBook(m)'[base + i]
    BY <1>4, <2>1, <2>2, SubSeqProperties
  <2>4. DOMAIN lines = 1..(now - base)
    BY <2>3, LenProperties
  <2>5. ASSUME NEW i \in 1..(now - base)
        PROVE  /\ lines[i] \in Payments
               /\ payments'[lines[i]].number = base + i
               /\ payments'[lines[i]].period = m
    <3>1. PICK n \in 1..sequence'[m] : n = base + i
      BY <1>4, <1>5
    <3>2. lines[i] = Line(m, n)'
      BY <1>3, <2>3, <3>1, MonthBookIsSeqNext
    <3>3. /\ Line(m, n)' \in Payments
          /\ payments'[Line(m, n)'].number = n /\ payments'[Line(m, n)'].period = m
      BY <1>3, LineIsPaymentNext
    <3> QED
      BY <3>1, <3>2, <3>3
  <2> QED
    BY <2>4, <2>5
<1> HIDE DEF lines
<1>11. \A i \in DOMAIN lines : payments[lines[i]].number = 0
  <2>1. ASSUME NEW i \in DOMAIN lines, payments[lines[i]].number # 0 PROVE FALSE
    <3>1. /\ lines[i] \in Payments /\ payments[lines[i]].number = base + i
          /\ payments[lines[i]].period = m
      BY <1>6, <1>10, <2>1
    <3>2. payments[lines[i]].number <= base
      BY <1>2, <2>1, <3>1 DEF Inv, Counted
    <3> QED
      BY <1>4, <1>10, <3>1, <3>2
  <2> QED
    BY <2>1
<1>12. \A k \in Months : \A n \in 1..sequence[k] : payments[Line(k, n)].number # 0
  BY LineIsPayment DEF Inv, TypeOK
<1>13. \A i \in DOMAIN lines : lines[i] \in Payments \ Book!Entered
  <2>1. ASSUME NEW p \in Book!Entered PROVE payments[p].number # 0
    <3>1. Book!Entered = UNION {{bookBar[k][n] : n \in DOMAIN bookBar[k]} : k \in Months}
      BY DEF Book!Entered, bookBar, MonthBook, Line
    <3>2. PICK k \in Months : p \in {bookBar[k][n] : n \in DOMAIN bookBar[k]}
      BY <3>1
    <3>3. bookBar[k] = MonthBook(k)
      BY DEF bookBar
    <3>4. PICK n \in 1..sequence[k] : p = Line(k, n)
      BY <3>2, <3>3 DEF MonthBook
    <3> QED
      BY <1>12, <3>4
  <2> QED
    BY <1>10, <1>11, <2>1
<1>14. \A i, j \in DOMAIN lines : lines[i] = lines[j] => i = j
  BY <1>4, <1>10
<1>15. bookBar' = [bookBar EXCEPT ![m] = @ \o lines]
  BY <1>7, <1>9 DEF bookBar
<1> QED
  BY <1>13, <1>14, <1>15 DEF Book!Next, Book!Enter, bookBar, MonthBook, Line, lines

LEMMA StepKeepsBook ==
    ASSUME Inv, Inv', [Next]_vars
    PROVE  Book!Next \/ bookBar' = bookBar
<1> DEFINE Untouched == /\ UNCHANGED sequence
                        /\ \A p \in Payments : /\ payments'[p].number = payments[p].number
                                               /\ payments'[p].period = payments[p].period
<1>1. ASSUME NEW w \in Workers,
             \/ \E from \in Times, to \in 2..(MaxTime + 1) : Collect(w, from, to)
             \/ Begin(w) \/ AssignNext(w) \/ Abandon(w)
      PROVE  Untouched
  BY <1>1 DEF Collect, Begin, AssignNext, Abandon
<1>2. ASSUME \/ \E p \in Payments : Reopen(p) \/ DeletePayment(p) \/ \E t \in Times : Capture(p, t)
             \/ Tick
      PROVE  Untouched
  BY <1>2, OthersKeep DEF Reopen, DeletePayment, Capture, Tick
<1>3. ASSUME UNCHANGED vars PROVE Untouched
  BY <1>3 DEF vars
<1>4. Untouched => bookBar' = bookBar
  BY BookStutter
<1>5. Untouched \/ \E w \in Workers : Commit(w)
  <2>1. CASE \E w \in Workers :
               \/ \E from \in Times, to \in 2..(MaxTime + 1) : Collect(w, from, to)
               \/ Begin(w) \/ AssignNext(w) \/ Abandon(w)
    BY <1>1, <2>1
  <2>2. CASE \/ \E p \in Payments : Reopen(p) \/ DeletePayment(p) \/ \E t \in Times : Capture(p, t)
             \/ Tick
    BY <1>2, <2>2
  <2>3. \/ <2>1!1 \/ <2>2!1 \/ UNCHANGED vars \/ \E w \in Workers : Commit(w)
    BY DEF Next
  <2> QED
    BY <1>3, <2>1, <2>2, <2>3
<1> QED
  BY <1>4, <1>5, CommitEnters

\* The numbers of a month are a book: an export adds lines after the last one, for
\* payments that were in no book, and nothing else ever happens to a line, whatever
\* exports overlap, abort or find their candidates changed.
THEOREM ReceiptBookIsImplemented == Spec => RefinesReceiptBook
<1>1. Init => Book!Init
  <2> SUFFICES ASSUME Init PROVE Book!Init
    OBVIOUS
  <2>1. ASSUME NEW m \in Months PROVE MonthBook(m) = <<>>
    <3>1. sequence[m] = 0
      BY DEF Init
    <3>2. Inv
      BY InitInv
    <3> QED
      BY <3>1, <3>2, MonthBookIsSeq, EmptySeq
  <2> QED
    BY <2>1 DEF Book!Init, MonthBook, Line
<1>2. bookBar' = bookBar => UNCHANGED [m \in Months |-> [n \in 1..sequence[m] |->
          CHOOSE p \in Payments : payments[p].number = n /\ payments[p].period = m]]
  BY DEF bookBar, MonthBook, Line
<1>3. Inv /\ Inv' /\ [Next]_vars =>
      [Book!Next]_[m \in Months |-> [n \in 1..sequence[m] |->
          CHOOSE p \in Payments : payments[p].number = n /\ payments[p].period = m]]
  BY <1>2, StepKeepsBook
<1> QED
  BY <1>1, <1>3, InitInv, NextKeeps, PTL DEF Spec, RefinesReceiptBook, Book!Spec
=============================================================================
