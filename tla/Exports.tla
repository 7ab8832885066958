------------------------------ MODULE Exports ------------------------------
(***************************************************************************)
(* Exports and previews of a period (ExportsController, SnapshotService,   *)
(* ExportDataService) on top of the numbering of ReceiptNumbering: a       *)
(* request has the numbers assigned, reads the payments and then the rides *)
(* without payment, renders, writes two files and inserts the archive row. *)
(* Every step is an await of its own; the request may die at any of them.  *)
(*                                                                         *)
(* Payment p is the payment of ride p.                                     *)
(***************************************************************************)
EXTENDS ReceiptNumbering

CONSTANTS
    Ended,          \* Ride.endedAt, by payment
    MaxExports,     \* bound on the exports asked for
    MaxTouches      \* bound on the writes of payments by others

ASSUME ExportsAssumption ==
    Ended \in [Payments -> Times] /\ MaxExports \in Nat /\ MaxTouches \in Nat

VARIABLES
    job,        \* the exports in flight: their locals
    files,      \* the export directory, by file name
    archive,    \* ExportArchive table
    asked,      \* exports asked for so far
    touches     \* writes of payments by others so far

exportVars == <<vars, job, files, archive, asked, touches>>

\* touched: the payments that others have written since the export began.
NoJob == [step |-> "none", from |-> 0, to |-> 0, rows |-> {}, exceptions |-> {},
          name |-> <<>>, touched |-> {}]

Names == Months \X Times
NoFile == [json |-> {}, pdf |-> {}, takers |-> 0]

ExportsInit ==
    /\ Init
    /\ job     = [w \in Workers |-> NoJob]
    /\ files   = [name \in Names |-> NoFile]
    /\ archive = {}
    /\ asked   = 0 /\ touches = 0

-----------------------------------------------------------------------------
Step(w, s) == job[w].step = s
Set(w, j) == job' = [job EXCEPT ![w] = j]
Working == {w \in Workers : ~Step(w, "none")}

\* A request has passed the checks on role, type and dates.
Ask(w, from, to, s) ==
    /\ Step(w, "none")
    /\ asked < MaxExports
    /\ asked' = asked + 1
    /\ Set(w, [NoJob EXCEPT !.step = s, !.from = from, !.to = to])
    /\ UNCHANGED <<files, archive, touches>>

AskToNumber(w, from, to) == Ask(w, from, to, "number") /\ Collect(w, from, to)

\* With nothing to number the transaction is not begun.
AskNumbered(w, from, to) ==
    /\ SingleMonth(from, to)
    /\ ~MixesPeriods(from, to)
    /\ \A p \in Payments : Within(payments[p], from, to) => payments[p].number # 0
    /\ Ask(w, from, to, "rows")
    /\ UNCHANGED vars

Number(w) ==
    /\ Begin(w) \/ AssignNext(w)
    /\ UNCHANGED <<job, files, archive, asked, touches>>

Numbered(w) ==
    /\ Commit(w)
    /\ Set(w, [job[w] EXCEPT !.step = "rows"])
    /\ UNCHANGED <<files, archive, asked, touches>>

\* loadPaymentsDataset, first query: the rows of the period.
RowsOf(from, to) ==
    {[id |-> p, number |-> payments[p].number, period |-> payments[p].period] :
        p \in {q \in Payments : Within(payments[q], from, to)}}

LoadRows(w) ==
    /\ Step(w, "rows")
    /\ Set(w, [job[w] EXCEPT !.step = "exceptions", !.rows = RowsOf(job[w].from, job[w].to)])
    /\ UNCHANGED <<vars, files, archive, asked, touches>>

\* Mutant: only rides that have a payment are looked at.
Unpaid_WithPayment(p) == payments[p].status = "PENDING"

\* No payment, or one that is not PAID.
Unpaid(p) == payments[p].status # "PAID"

\* Second query: the rides of the period without a PAID payment.
LoadExceptions(w) ==
    /\ Step(w, "exceptions")
    /\ Set(w, [job[w] EXCEPT !.step = "render",
            !.exceptions = {p \in Payments : /\ Ended[p] >= job[w].from
                                             /\ Ended[p] < job[w].to /\ Unpaid(p)}])
    /\ UNCHANGED <<vars, files, archive, asked, touches>>

\* A preview is answered with the rendered snapshot and keeps nothing.
Preview(w) ==
    /\ Step(w, "render")
    /\ Set(w, NoJob)
    /\ UNCHANGED <<vars, files, archive, asked, touches>>

\* A file name is made from the period and the second.
TakeName(w) ==
    LET name == <<Month(job[w].from), clock>>
    IN  /\ Step(w, "render")
        /\ Set(w, [job[w] EXCEPT !.step = "json", !.name = name])
        /\ files' = [files EXCEPT ![name].takers = @ + 1]
        /\ UNCHANGED <<vars, archive, asked, touches>>

\* What is stored, hashed and printed; a set of one snapshot stands for a file.
Snapshot(w) ==
    [from |-> job[w].from, to |-> job[w].to, rows |-> job[w].rows,
     exceptions |-> job[w].exceptions]

WriteJson(w) ==
    /\ Step(w, "json")
    /\ files' = [files EXCEPT ![job[w].name].json = {Snapshot(w)}]
    /\ Set(w, [job[w] EXCEPT !.step = "pdf"])
    /\ UNCHANGED <<vars, archive, asked, touches>>

\* Mutant: the archive row is inserted without waiting for the PDF.
WritePdf_NotAwaited(w) ==
    /\ Step(w, "pdf")
    /\ Set(w, [job[w] EXCEPT !.step = "row"])
    /\ UNCHANGED <<vars, files, archive, asked, touches>>

WritePdf(w) ==
    /\ Step(w, "pdf")
    /\ files' = [files EXCEPT ![job[w].name].pdf = {Snapshot(w)}]
    /\ Set(w, [job[w] EXCEPT !.step = "row"])
    /\ UNCHANGED <<vars, archive, asked, touches>>

Archive(w) ==
    /\ Step(w, "row")
    /\ archive' = archive \cup {[name |-> job[w].name, content |-> Snapshot(w)]}
    /\ Set(w, NoJob)
    /\ UNCHANGED <<vars, files, asked, touches>>

\* Mutant: the transaction of a request that dies is left open.
Die_LeavesTransaction(w) ==
    /\ ~Step(w, "none")
    /\ Set(w, NoJob)
    /\ UNCHANGED <<vars, files, archive, asked, touches>>

\* The request is refused, fails or dies.
Die(w) ==
    /\ ~Step(w, "none")
    /\ IF At(w, "idle") THEN UNCHANGED vars ELSE Abandon(w)
    /\ Set(w, NoJob)
    /\ UNCHANGED <<files, archive, asked, touches>>

\* Another request writes payment p.
Touch(p) ==
    /\ touches < MaxTouches /\ touches' = touches + 1
    /\ Reopen(p) \/ DeletePayment(p) \/ \E t \in Times : Capture(p, t)
    /\ job' = [w \in Workers |-> IF w \in Working THEN [job[w] EXCEPT !.touched = @ \cup {p}]
                                                  ELSE job[w]]
    /\ UNCHANGED <<files, archive, asked>>

ExportsNext ==
    \/ \E w \in Workers :
          \/ \E from \in Times, to \in 2..(MaxTime + 1) :
                AskToNumber(w, from, to) \/ AskNumbered(w, from, to)
          \/ Number(w) \/ Numbered(w) \/ LoadRows(w) \/ LoadExceptions(w)
          \/ Preview(w) \/ TakeName(w) \/ WriteJson(w) \/ WritePdf(w) \/ Archive(w)
          \/ Die(w)
    \/ \E p \in Payments : Touch(p)
    \/ Tick /\ UNCHANGED <<job, files, archive, asked, touches>>

ExportsSpec == ExportsInit /\ [][ExportsNext]_exportVars

-----------------------------------------------------------------------------
Contents == {row.content : row \in archive}
RowsArchived == UNION {c.rows : c \in Contents}

\* Types; a request that numbers has its transaction or is about to begin it.
ExportsTypeOK ==
    /\ \A w \in Workers :
        /\ job[w].step \in {"none", "number", "rows", "exceptions", "render", "json", "pdf",
                            "row"}
        /\ job[w].touched \subseteq Payments /\ job[w].exceptions \subseteq Payments
        /\ job[w].name # <<>> => job[w].name \in Names
        /\ Step(w, "number") <=> ~At(w, "idle")
    /\ DOMAIN files = Names
    /\ \A row \in archive : row.name \in Names
    /\ asked \in 0..MaxExports

\* The archive never lists an export whose files are not there, wherever a request
\* dies; and the files are the ones of the row, if no other export took their name.
ArchivedFilesExist ==
    \A row \in archive :
        LET f == files[row.name] IN
            /\ f.json # {} /\ f.pdf # {}
            /\ f.takers = 1 => f.json = {row.content} /\ f.pdf = {row.content}

\* All exports of all times tell the same story: a payment has one number in all of
\* them, and a number is the one of one payment.
ArchivesAgree ==
    \A a, b \in RowsArchived :
        a.number # 0 /\ b.number # 0 =>
            (a.id = b.id <=> (a.number = b.number /\ a.period = b.period))

\* An export is complete but for what was written while it was made: the payments of
\* its period are listed, each under a number of its month, and the rides without a
\* PAID payment, deleted ones included, are its exceptions.
ExportIsComplete ==
    [][\A w \in Workers :
        Step(w, "row") /\ Step(w, "none")' /\ archive' # archive =>
            LET Covers(t) == job[w].from <= t /\ t < job[w].to IN
            \A p \in Payments \ job[w].touched :
                LET listed == {r \in job[w].rows : r.id = p} IN
                /\ listed # {} <=> payments[p].status = "PAID" /\ Covers(payments[p].capturedAt)
                /\ \A r \in listed : r.number # 0 /\ r.period = Month(job[w].from)
                /\ p \in job[w].exceptions <=> payments[p].status # "PAID" /\ Covers(Ended[p])
      ]_exportVars
=============================================================================
