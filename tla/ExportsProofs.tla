--------------------------- MODULE ExportsProofs ---------------------------
(***************************************************************************)
(* For any number of payments, months and overlapping requests: exports    *)
(* number their payments as ReceiptNumbering says, the archive lists only  *)
(* exports whose files are there, all exports agree on every number, and   *)
(* an export is complete but for what was written while it was made.       *)
(*                                                                         *)
(* The invariant follows a request through its steps.  While it numbers,   *)
(* a payment of its period that nobody has touched is numbered, or among   *)
(* the candidates left, or issued; after the commit it is numbered; after  *)
(* each query the rows and the exceptions are right for it.  The rows a    *)
(* request or an archive holds stay true because numbers are final, and a  *)
(* file is the one of its export while it has one taker.                   *)
(***************************************************************************)
EXTENDS Exports, ReceiptNumberingProofs

Row == [id : Payments, number : Nat, period : Months \cup {0}]
Content == [from : Times, to : 2..(MaxTime + 1), rows : SUBSET Row,
            exceptions : SUBSET Payments]
File == [json : SUBSET Content, pdf : SUBSET Content, takers : Nat]
Job == [step : {"none", "number", "rows", "exceptions", "render", "json", "pdf", "row"},
        from : Int, to : Int, rows : SUBSET Row, exceptions : SUBSET Payments,
        name : Names \cup {<<>>}, touched : SUBSET Payments]

Writing(w) == job[w].step \in {"json", "pdf", "row"}

\* The locals of a request have their types, and it numbers one month.
JobOK(w) ==
    /\ job[w] \in Job
    /\ Step(w, "number") <=> ~At(w, "idle")
    /\ ~Step(w, "none") => /\ job[w].from \in Times /\ job[w].to \in 2..(MaxTime + 1)
                           /\ SingleMonth(job[w].from, job[w].to)
    /\ Writing(w) => job[w].name \in Names

ExportTypes ==
    /\ job \in [Workers -> Job]
    /\ \A w \in Workers : JobOK(w)
    /\ files \in [Names -> File]
    /\ archive \subseteq [name : Names, content : Content]
    /\ asked \in 0..MaxExports

\* The export of a name that was taken once is the only one that has it.
OneTaker ==
    /\ \A w \in Workers : Writing(w) => files[job[w].name].takers >= 1
    /\ \A row \in archive : files[row.name].takers >= 1
    /\ \A v, w \in Workers : v # w /\ Writing(v) /\ Writing(w) /\ job[v].name = job[w].name =>
          files[job[w].name].takers >= 2
    /\ \A w \in Workers, row \in archive : Writing(w) /\ row.name = job[w].name =>
          files[row.name].takers >= 2

FilesWritten ==
    \A w \in Workers :
        LET f == files[job[w].name] IN
        /\ job[w].step \in {"pdf", "row"} =>
              f.json # {} /\ (f.takers = 1 => f.json = {Snapshot(w)})
        /\ job[w].step = "row" =>
              f.pdf # {} /\ (f.takers = 1 => f.pdf = {Snapshot(w)})

\* A row that was read with a number shows the number the payment has.
TrueRow(r) == r.number # 0 => /\ payments[r.id].number = r.number
                              /\ payments[r.id].period = r.period

RowsTrue ==
    /\ \A w \in Workers : \A r \in job[w].rows : TrueRow(r)
    /\ \A row \in archive : \A r \in row.content.rows : TrueRow(r)

\* A transaction issues numbers of its month to payments captured in it.
IssuedInMonth ==
    \A w \in Workers : req[w].pc = "assign" =>
        \A p \in Payments : req[w].issued[p] # 0 =>
            Month(req[w].seen[p].capturedAt) = req[w].period

InWindow(w, p) == Within(payments[p], job[w].from, job[w].to)

\* Payment p, which nobody has touched, on its way to its number.
OnItsWay(w, p) ==
    /\ req[w].period = Month(job[w].from)
    /\ InWindow(w, p) /\ payments[p].number = 0 =>
          (\E c \in req[w].todo : c.id = p) \/ req[w].issued[p] # 0
    /\ InWindow(w, p) /\ payments[p].number # 0 => payments[p].period = Month(job[w].from)
    /\ req[w].pc = "assign" /\ (\E c \in req[w].todo : c.id = p) =>
          /\ req[w].seen[p].status = payments[p].status
          /\ req[w].seen[p].number # 0 => payments[p].number # 0

ListedRight(w, p) ==
    /\ (\E r \in job[w].rows : r.id = p) <=> InWindow(w, p)
    /\ \A r \in job[w].rows : r.id = p => r.number # 0 /\ r.period = Month(job[w].from)

ExcusedRight(w, p) ==
    p \in job[w].exceptions <=>
        /\ payments[p].status # "PAID"
        /\ job[w].from <= Ended[p] /\ Ended[p] < job[w].to

RightFor(w, p) ==
    /\ job[w].step = "number" => OnItsWay(w, p)
    /\ job[w].step \notin {"none", "number"} /\ InWindow(w, p) =>
          payments[p].number # 0 /\ payments[p].period = Month(job[w].from)
    /\ job[w].step \notin {"none", "number", "rows"} => ListedRight(w, p)
    /\ job[w].step \notin {"none", "number", "rows", "exceptions"} => ExcusedRight(w, p)

Complete == \A w \in Workers : \A p \in Payments \ job[w].touched : RightFor(w, p)

FilesInv == OneTaker /\ FilesWritten /\ ArchivedFilesExist

ExportInv == Inv /\ ExportTypes /\ FilesInv /\ RowsTrue /\ IssuedInMonth /\ Complete

-----------------------------------------------------------------------------
\* A step of one request.
WorkerStep(w) ==
    \/ \E from \in Times, to \in 2..(MaxTime + 1) :
          AskToNumber(w, from, to) \/ AskNumbered(w, from, to)
    \/ Number(w) \/ Numbered(w) \/ LoadRows(w) \/ LoadExceptions(w)
    \/ Preview(w) \/ TakeName(w) \/ WriteJson(w) \/ WritePdf(w) \/ Archive(w)
    \/ Die(w)

OtherStep == (\E p \in Payments : Touch(p))
                \/ (Tick /\ UNCHANGED <<job, files, archive, asked, touches>>)

LEMMA StepsAre == ExportsNext => (\E w \in Workers : WorkerStep(w)) \/ OtherStep
  BY DEF ExportsNext, WorkerStep, OtherStep

\* To the numbering, every step of the exports is a step of its own or none.
LEMMA WorkerNumbers ==
    ASSUME NEW w \in Workers, WorkerStep(w)
    PROVE  [Next]_vars
<1>1. CASE \E from \in Times, to \in 2..(MaxTime + 1) : AskToNumber(w, from, to)
  BY <1>1 DEF AskToNumber, Next
<1>2. CASE Number(w) \/ Numbered(w)
  BY <1>2 DEF Number, Numbered, Next
<1>3. CASE Die(w)
  BY <1>3 DEF Die, Next
<1>4. CASE \/ \E from \in Times, to \in 2..(MaxTime + 1) : AskNumbered(w, from, to)
           \/ LoadRows(w) \/ LoadExceptions(w) \/ Preview(w) \/ TakeName(w)
           \/ WriteJson(w) \/ WritePdf(w) \/ Archive(w)
  BY <1>4 DEF AskNumbered, LoadRows, LoadExceptions, Preview, TakeName, WriteJson,
              WritePdf, Archive
<1> QED
  BY <1>1, <1>2, <1>3, <1>4 DEF WorkerStep

LEMMA ExportsNumber == [ExportsNext]_exportVars => [Next]_vars
<1> SUFFICES ASSUME [ExportsNext]_exportVars PROVE [Next]_vars
  OBVIOUS
<1>1. CASE \E w \in Workers : WorkerStep(w)
  BY <1>1, WorkerNumbers
<1>2. CASE OtherStep
  BY <1>2 DEF OtherStep, Touch, Next
<1>3. CASE UNCHANGED exportVars
  BY <1>3 DEF exportVars
<1> QED
  BY <1>1, <1>2, <1>3, StepsAre

\* The exports number their payments as ReceiptNumbering says, so that whatever
\* is proved of it holds while exports read, write files, archive and die.
THEOREM ExportsImplementNumbering == ExportsSpec => Spec
<1>1. ExportsInit => Init
  BY DEF ExportsInit
<1> QED
  BY <1>1, ExportsNumber, PTL DEF ExportsSpec, Spec

-----------------------------------------------------------------------------
\* What a step of one request does to the locals.
LEMMA JobSet ==
    ASSUME ExportTypes, NEW w \in Workers, NEW j \in Job, Set(w, j)
    PROVE  /\ job' \in [Workers -> Job] /\ job'[w] = j
           /\ \A v \in Workers \ {w} : job'[v] = job[v]
  BY DEF ExportTypes, Set

LEMMA NoJobType == NoJob \in Job
  BY DEF NoJob, Job

LEMMA WorkerSteps ==
    ASSUME Inv, ExportTypes, NEW w \in Workers, WorkerStep(w)
    PROVE  /\ \A v \in Workers \ {w} : req'[v] = req[v]
           /\ clock' = clock
  BY DEF WorkerStep, AskToNumber, AskNumbered, Number, Numbered, Die, LoadRows,
         LoadExceptions, Preview, TakeName, WriteJson, WritePdf, Archive, Collect,
         Begin, AssignNext, Commit, Abandon, Goto, vars, Inv, TypeOK

LEMMA AskEffect ==
    ASSUME ExportTypes, NEW w \in Workers, NEW from \in Times, NEW to \in 2..(MaxTime + 1),
           NEW s \in {"number", "rows"}, Ask(w, from, to, s)
    PROVE  /\ job' \in [Workers -> Job]
           /\ \A v \in Workers \ {w} : job'[v] = job[v]
           /\ job'[w].step = s /\ job'[w].from = from /\ job'[w].to = to
           /\ job[w].step = "none"
           /\ UNCHANGED <<files, archive>>
           /\ job'[w].rows = {} /\ asked' \in 0..MaxExports
<1> DEFINE j == [NoJob EXCEPT !.step = s, !.from = from, !.to = to]
<1>1. j \in Job
  <2>1. from \in Int /\ to \in Int
    BY DEF Times
  <2> QED
    BY <2>1, NoJobType DEF Job
<1>2. Set(w, j)
  BY DEF Ask
<1>3. /\ j.step = s /\ j.from = from /\ j.to = to /\ j.rows = {}
  BY DEF NoJob
<1>4. asked' \in 0..MaxExports
  BY ExportsAssumption DEF Ask, ExportTypes
<1> HIDE DEF j
<1> QED
  BY <1>1, <1>2, <1>3, <1>4, JobSet DEF Ask, Step

LEMMA RowsOfType ==
    ASSUME Inv, NEW from, NEW to
    PROVE  RowsOf(from, to) \subseteq Row
  BY DEF Inv, TypeOK, PaymentRow, RowsOf, Row

LEMMA SnapshotType ==
    ASSUME ExportTypes, NEW w \in Workers, Writing(w)
    PROVE  Snapshot(w) \in Content
  BY DEF ExportTypes, JobOK, Writing, Step, Job, Snapshot, Content

\* A step that reads, or goes on, after the numbering.
LEMMA ReadEffect ==
    ASSUME Inv, ExportTypes, NEW w \in Workers,
           LoadRows(w) \/ LoadExceptions(w) \/ TakeName(w)
    PROVE  /\ job' \in [Workers -> Job]
           /\ \A v \in Workers \ {w} : job'[v] = job[v]
           /\ job'[w].from = job[w].from /\ job'[w].to = job[w].to
           /\ job'[w].touched = job[w].touched
           /\ job[w].step # "none" /\ ~Writing(w) /\ job[w].step # "number"
           /\ UNCHANGED <<vars, archive, asked>>
           /\ LoadRows(w) =>
                 /\ job'[w].rows = RowsOf(job[w].from, job[w].to)
                 /\ job[w].step = "rows" /\ job'[w].step = "exceptions"
           /\ LoadExceptions(w) =>
                 /\ job'[w].exceptions = {p \in Payments :
                       Ended[p] >= job[w].from /\ Ended[p] < job[w].to /\ Unpaid(p)}
                 /\ job'[w].rows = job[w].rows
                 /\ job[w].step = "exceptions" /\ job'[w].step = "render"
           /\ TakeName(w) =>
                 /\ job'[w].rows = job[w].rows /\ job'[w].exceptions = job[w].exceptions
                 /\ job'[w].name = <<Month(job[w].from), clock>>
                 /\ job'[w].name \in Names
                 /\ job[w].step = "render" /\ job'[w].step = "json"
           /\ (LoadRows(w) \/ LoadExceptions(w)) => UNCHANGED files
<1>1. job[w] \in Job /\ (job[w].step # "none" => job[w].from \in Times)
  BY DEF ExportTypes, JobOK, Step
<1>2. CASE LoadRows(w)
  <2> DEFINE j == [job[w] EXCEPT !.step = "exceptions",
                                 !.rows = RowsOf(job[w].from, job[w].to)]
  <2>1. j \in Job
    BY <1>1, RowsOfType DEF Job
  <2>2. Set(w, j)
    BY <1>2 DEF LoadRows
  <2>3. /\ j.from = job[w].from /\ j.to = job[w].to /\ j.touched = job[w].touched
        /\ j.rows = RowsOf(job[w].from, job[w].to) /\ j.step = "exceptions"
    BY <1>1 DEF Job
  <2> HIDE DEF j
  <2> QED
    BY <1>2, <2>1, <2>2, <2>3, JobSet DEF LoadRows, LoadExceptions, TakeName, Step, Writing
<1>3. CASE LoadExceptions(w)
  <2> DEFINE found == {p \in Payments : /\ Ended[p] >= job[w].from
                                        /\ Ended[p] < job[w].to /\ Unpaid(p)}
             j == [job[w] EXCEPT !.step = "render", !.exceptions = found]
  <2>1. j \in Job
    BY <1>1 DEF Job
  <2>2. Set(w, j)
    BY <1>3 DEF LoadExceptions
  <2>3. /\ j.from = job[w].from /\ j.to = job[w].to /\ j.touched = job[w].touched
        /\ j.rows = job[w].rows /\ j.exceptions = found /\ j.step = "render"
    BY <1>1 DEF Job
  <2> HIDE DEF j
  <2> QED
    BY <1>3, <2>1, <2>2, <2>3, JobSet DEF LoadRows, LoadExceptions, TakeName, Step, Writing
<1>4. CASE TakeName(w)
  <2> DEFINE name == <<Month(job[w].from), clock>>
             j == [job[w] EXCEPT !.step = "json", !.name = name]
  <2>1. name \in Names
    BY <1>1, <1>4, MonthsOfTimes DEF TakeName, Step, Names, Inv, TypeOK
  <2>2. j \in Job
    BY <1>1, <2>1 DEF Job
  <2>3. Set(w, j)
    BY <1>4 DEF TakeName
  <2>4. /\ j.from = job[w].from /\ j.to = job[w].to /\ j.touched = job[w].touched
        /\ j.rows = job[w].rows /\ j.exceptions = job[w].exceptions /\ j.step = "json"
        /\ j.name = name
    BY <1>1 DEF Job
  <2> HIDE DEF j
  <2> QED
    BY <1>4, <2>1, <2>2, <2>3, <2>4, JobSet DEF LoadRows, LoadExceptions, TakeName, Step,
       Writing
<1> QED
  BY <1>2, <1>3, <1>4

\* A step that writes a file or the archive row.
LEMMA WriteEffect ==
    ASSUME Inv, ExportTypes, NEW w \in Workers,
           WriteJson(w) \/ WritePdf(w) \/ Archive(w)
    PROVE  /\ job' \in [Workers -> Job]
           /\ \A v \in Workers \ {w} : job'[v] = job[v]
           /\ Writing(w) /\ UNCHANGED <<vars, asked>>
           /\ ~Archive(w) =>
                 /\ job'[w].from = job[w].from /\ job'[w].to = job[w].to
                 /\ job'[w].touched = job[w].touched /\ job'[w].rows = job[w].rows
                 /\ job'[w].exceptions = job[w].exceptions /\ job'[w].name = job[w].name
                 /\ UNCHANGED archive
           /\ WriteJson(w) =>
                 /\ job[w].step = "json" /\ job'[w].step = "pdf"
                 /\ files' = [files EXCEPT ![job[w].name].json = {Snapshot(w)}]
           /\ WritePdf(w) =>
                 /\ job[w].step = "pdf" /\ job'[w].step = "row"
                 /\ files' = [files EXCEPT ![job[w].name].pdf = {Snapshot(w)}]
           /\ Archive(w) => job[w].step = "row" /\ job'[w] = NoJob /\ UNCHANGED files
<1>1. job[w] \in Job
  BY DEF ExportTypes
<1>2. ASSUME NEW s \in {"pdf", "row"}, Set(w, [job[w] EXCEPT !.step = s])
      PROVE  /\ job' \in [Workers -> Job]
             /\ \A v \in Workers \ {w} : job'[v] = job[v]
             /\ job'[w].from = job[w].from /\ job'[w].to = job[w].to
             /\ job'[w].touched = job[w].touched /\ job'[w].rows = job[w].rows
             /\ job'[w].exceptions = job[w].exceptions /\ job'[w].name = job[w].name
             /\ job'[w].step = s
  <2> DEFINE j == [job[w] EXCEPT !.step = s]
  <2>1. j \in Job
    BY <1>1 DEF Job
  <2>2. /\ j.from = job[w].from /\ j.to = job[w].to /\ j.touched = job[w].touched
        /\ j.rows = job[w].rows /\ j.exceptions = job[w].exceptions
        /\ j.name = job[w].name /\ j.step = s
    BY <1>1 DEF Job
  <2>3. Set(w, j)
    BY <1>2
  <2> HIDE DEF j
  <2> QED
    BY <2>1, <2>2, <2>3, JobSet
<1>3. CASE WriteJson(w)
  BY <1>2, <1>3 DEF WriteJson, WritePdf, Archive, Step, Writing
<1>4. CASE WritePdf(w)
  BY <1>2, <1>4 DEF WriteJson, WritePdf, Archive, Step, Writing
<1>5. CASE Archive(w)
  BY <1>5, JobSet, NoJobType DEF WriteJson, WritePdf, Archive, Step, Writing
<1> QED
  BY <1>3, <1>4, <1>5

LEMMA NumberedEffect ==
    ASSUME ExportTypes, NEW w \in Workers, Numbered(w)
    PROVE  /\ job' \in [Workers -> Job]
           /\ \A v \in Workers \ {w} : job'[v] = job[v]
           /\ job'[w].from = job[w].from /\ job'[w].to = job[w].to
           /\ job'[w].touched = job[w].touched /\ job'[w].rows = job[w].rows
           /\ job[w].step = "number" /\ job'[w].step = "rows"
           /\ UNCHANGED <<files, archive, asked>> /\ Commit(w)
<1> DEFINE j == [job[w] EXCEPT !.step = "rows"]
<1>1. job[w] \in Job
  BY DEF ExportTypes
<1>2. j \in Job
  BY <1>1 DEF Job
<1>3. /\ j.from = job[w].from /\ j.to = job[w].to /\ j.touched = job[w].touched
      /\ j.rows = job[w].rows /\ j.step = "rows"
  BY <1>1 DEF Job
<1>4. Set(w, j) /\ UNCHANGED <<files, archive, asked>> /\ Commit(w)
  BY DEF Numbered
<1>5. job[w].step = "number"
  BY <1>4 DEF Commit, At, ExportTypes, JobOK, Step
<1> HIDE DEF j
<1> QED
  BY <1>2, <1>3, <1>4, <1>5, JobSet

\* A request that ends without an archive row.
LEMMA EndEffect ==
    ASSUME Inv, ExportTypes, NEW w \in Workers, Preview(w) \/ Die(w)
    PROVE  /\ job' \in [Workers -> Job]
           /\ \A v \in Workers \ {w} : job'[v] = job[v]
           /\ job'[w] = NoJob /\ req'[w].pc = "idle"
           /\ UNCHANGED <<files, archive, asked, payments, sequence>>
<1>1. job'[w] = NoJob /\ job' \in [Workers -> Job] /\ \A v \in Workers \ {w} : job'[v] = job[v]
  BY JobSet, NoJobType DEF Preview, Die
<1>2. CASE Preview(w)
  <2>1. At(w, "idle")
    BY <1>2 DEF Preview, Step, ExportTypes, JobOK
  <2> QED
    BY <1>1, <1>2, <2>1 DEF Preview, vars, At
<1>3. CASE Die(w)
  <2>1. CASE At(w, "idle")
    BY <1>1, <1>3, <2>1 DEF Die, vars, At
  <2>2. CASE ~At(w, "idle")
    <3>1. Abandon(w) /\ req'[w] = Idle
      BY <1>3, <2>2 DEF Die, Abandon, Goto, Inv, TypeOK
    <3> QED
      BY <1>1, <1>3, <3>1 DEF Die, Abandon, Idle
  <2>3. UNCHANGED <<files, archive, asked>>
    BY <1>3 DEF Die
  <2> QED
    BY <1>1, <2>1, <2>2, <2>3
<1> QED
  BY <1>2, <1>3

\* A write of a payment by others touches it for every request at work.
LEMMA TouchEffect ==
    ASSUME Inv, ExportTypes, NEW p \in Payments, Touch(p)
    PROVE  /\ job' \in [Workers -> Job]
           /\ \A v \in Workers :
                 /\ job'[v].step = job[v].step /\ job'[v].from = job[v].from
                 /\ job'[v].to = job[v].to /\ job'[v].rows = job[v].rows
                 /\ job'[v].exceptions = job[v].exceptions /\ job'[v].name = job[v].name
                 /\ job[v].touched \subseteq job'[v].touched
                 /\ job[v].step # "none" => p \in job'[v].touched
           /\ \A q \in Payments \ {p} : payments'[q] = payments[q]
           /\ UNCHANGED <<files, archive, asked, req, clock>>
<1>1. ASSUME NEW v \in Workers
      PROVE  /\ job'[v] \in Job
             /\ job'[v].step = job[v].step /\ job'[v].from = job[v].from
             /\ job'[v].to = job[v].to /\ job'[v].rows = job[v].rows
             /\ job'[v].exceptions = job[v].exceptions /\ job'[v].name = job[v].name
             /\ job[v].touched \subseteq job'[v].touched
             /\ job[v].step # "none" => p \in job'[v].touched
  <2>1. job[v] \in Job
    BY DEF ExportTypes
  <2>2. job'[v] = IF v \in Working THEN [job[v] EXCEPT !.touched = @ \cup {p}] ELSE job[v]
    BY DEF Touch
  <2>3. v \in Working <=> job[v].step # "none"
    BY DEF Working, Step
  <2> QED
    BY <2>1, <2>2, <2>3 DEF Job
<1>2. DOMAIN job' = Workers /\ job' = [v \in Workers |-> job'[v]]
  BY DEF Touch
<1>3. \A q \in Payments \ {p} : payments'[q] = payments[q]
  BY DEF Touch, Reopen, DeletePayment, Capture, Inv, TypeOK
<1>4. UNCHANGED <<files, archive, asked, req, clock>>
  BY DEF Touch, Reopen, DeletePayment, Capture
<1> QED
  BY <1>1, <1>2, <1>3, <1>4

-----------------------------------------------------------------------------
LEMMA InitTypes == ExportsInit => ExportTypes
<1> SUFFICES ASSUME ExportsInit PROVE ExportTypes
  OBVIOUS
<1>1. job \in [Workers -> Job] /\ \A w \in Workers : JobOK(w)
  BY NoJobType DEF ExportsInit, Init, JobOK, Step, At, NoJob, Idle, Writing
<1>2. files \in [Names -> File]
  BY DEF ExportsInit, NoFile, File
<1> QED
  BY <1>1, <1>2, ExportsAssumption DEF ExportsInit, ExportTypes

\* The locals of the other requests are not touched.
LEMMA OneJob ==
    ASSUME Inv, ExportTypes, NEW w \in Workers, WorkerStep(w),
           job' \in [Workers -> Job], \A v \in Workers \ {w} : job'[v] = job[v],
           JobOK(w)'
    PROVE  job' \in [Workers -> Job] /\ \A v \in Workers : JobOK(v)'
<1>1. ASSUME NEW v \in Workers \ {w} PROVE JobOK(v)'
  <2>1. req'[v] = req[v] /\ job'[v] = job[v]
    BY WorkerSteps
  <2> QED
    BY <2>1 DEF ExportTypes, JobOK, Step, At, Writing
<1> QED
  BY <1>1

LEMMA WorkerTypes ==
    ASSUME Inv, ExportTypes, NEW w \in Workers, WorkerStep(w)
    PROVE  ExportTypes'
<1> USE DEF JobOK, Step, At, Writing
<1> DEFINE Fine == /\ job' \in [Workers -> Job]
                   /\ \A v \in Workers \ {w} : job'[v] = job[v]
                   /\ JobOK(w)'
                   /\ files' \in [Names -> File]
                   /\ archive' \subseteq [name : Names, content : Content]
                   /\ asked' \in 0..MaxExports
<1>1. JobOK(w) /\ job[w] \in Job
  BY DEF ExportTypes
<1>2. ASSUME NEW from \in Times, NEW to \in 2..(MaxTime + 1), AskToNumber(w, from, to)
      PROVE  Fine
  <2>1. req'[w].pc = "begin" /\ SingleMonth(from, to)
    BY <1>2 DEF AskToNumber, Collect, Goto, Idle, Inv, TypeOK
  <2> QED
    BY <1>2, <2>1, AskEffect DEF AskToNumber, ExportTypes
<1>3. ASSUME NEW from \in Times, NEW to \in 2..(MaxTime + 1), AskNumbered(w, from, to)
      PROVE  Fine
  <2>1. req'[w] = req[w] /\ SingleMonth(from, to)
    BY <1>3 DEF AskNumbered, vars
  <2> QED
    BY <1>1, <1>3, <2>1, AskEffect DEF AskNumbered, ExportTypes
<1>4. ASSUME Number(w) PROVE Fine
  <2>1. req'[w].pc # "idle" /\ req[w].pc # "idle"
    BY <1>4 DEF Number, Begin, AssignNext, Goto, Inv, TypeOK, Request
  <2> QED
    BY <1>1, <1>4, <2>1 DEF Number, ExportTypes
<1>5. ASSUME Numbered(w) PROVE Fine
  <2>1. req'[w].pc = "idle"
    BY <1>5 DEF Numbered, Commit, Goto, Idle, Inv, TypeOK
  <2> QED
    BY <1>1, <1>5, <2>1, NumberedEffect DEF ExportTypes
<1>6. ASSUME LoadRows(w) \/ LoadExceptions(w) PROVE Fine
  BY <1>1, <1>6, ReadEffect DEF vars, ExportTypes
<1>7. ASSUME TakeName(w) PROVE Fine
  <2>1. files' = [files EXCEPT ![job'[w].name].takers = @ + 1]
    BY <1>7, ReadEffect DEF TakeName
  <2>2. files' \in [Names -> File]
    BY <1>7, <2>1, ReadEffect DEF File, ExportTypes
  <2> QED
    BY <1>1, <1>7, <2>2, ReadEffect DEF vars, ExportTypes
<1>8. ASSUME WriteJson(w) \/ WritePdf(w) PROVE Fine
  <2>1. Snapshot(w) \in Content
    BY <1>8, WriteEffect, SnapshotType
  <2>2. files' \in [Names -> File]
    <3>1. \/ files' = [files EXCEPT ![job[w].name].json = {Snapshot(w)}]
          \/ files' = [files EXCEPT ![job[w].name].pdf = {Snapshot(w)}]
      BY <1>8, WriteEffect
    <3>2. {Snapshot(w)} \in SUBSET Content
      BY <2>1
    <3> QED
      BY <3>1, <3>2 DEF File, ExportTypes
  <2>3. ~Archive(w)
    BY <1>8, WriteEffect
  <2> QED
    BY <1>1, <1>8, <2>2, <2>3, WriteEffect DEF vars, ExportTypes
<1>9. ASSUME Archive(w) PROVE Fine
  <2>1. Snapshot(w) \in Content /\ job[w].name \in Names
    BY <1>1, <1>9, WriteEffect, SnapshotType
  <2>2. archive' \subseteq [name : Names, content : Content]
    BY <1>9, <2>1 DEF Archive, ExportTypes
  <2>3. job'[w] \in Job /\ job'[w].step = "none" /\ job[w].step = "row"
    <3>1. job'[w] = NoJob /\ job[w].step = "row"
      BY <1>9, WriteEffect
    <3>2. NoJob.step = "none"
      BY DEF NoJob
    <3> QED
      BY <3>1, <3>2, NoJobType
  <2>4. req' = req
    BY <1>9, WriteEffect DEF vars
  <2> QED
    BY <1>1, <1>9, <2>2, <2>3, <2>4, WriteEffect DEF ExportTypes
<1>10. ASSUME Preview(w) \/ Die(w) PROVE Fine
  BY <1>10, EndEffect, NoJobType DEF NoJob, ExportTypes
<1>11. Fine
  BY <1>2, <1>3, <1>4, <1>5, <1>6, <1>7, <1>8, <1>9, <1>10 DEF WorkerStep
<1> QED
  BY <1>11, OneJob DEF ExportTypes

LEMMA OtherTypes ==
    ASSUME Inv, ExportTypes, OtherStep
    PROVE  ExportTypes'
<1> USE DEF JobOK, Step, At, Writing
<1>1. CASE \E p \in Payments : Touch(p)
  <2>1. PICK p \in Payments : Touch(p)
    BY <1>1
  <2>2. ASSUME NEW v \in Workers PROVE JobOK(v)'
    BY <2>1, TouchEffect DEF ExportTypes
  <2> QED
    BY <2>1, <2>2, TouchEffect DEF ExportTypes
<1>2. CASE Tick /\ UNCHANGED <<job, files, archive, asked, touches>>
  BY <1>2 DEF ExportTypes, Tick
<1> QED
  BY <1>1, <1>2 DEF OtherStep

-----------------------------------------------------------------------------
\* Files: a step that ends a request, or does not write yet, changes nothing.
LEMMA QuietStep ==
    ASSUME FilesInv, NEW w \in Workers, \A v \in Workers \ {w} : job'[v] = job[v],
           ~Writing(w)', UNCHANGED <<files, archive>>
    PROVE  FilesInv'
<1>1. ASSUME NEW v \in Workers, Writing(v)'
      PROVE  v # w /\ job'[v] = job[v] /\ Writing(v) /\ Snapshot(v)' = Snapshot(v)
  BY <1>1 DEF Writing, Snapshot
<1>2. OneTaker'
  <2>1. \A v \in Workers : Writing(v)' => files'[job'[v].name].takers >= 1
    BY <1>1 DEF FilesInv, OneTaker
  <2>2. \A row \in archive' : files'[row.name].takers >= 1
    BY DEF FilesInv, OneTaker
  <2>3. \A u, v \in Workers :
           u # v /\ Writing(u)' /\ Writing(v)' /\ job'[u].name = job'[v].name =>
              files'[job'[v].name].takers >= 2
    BY <1>1 DEF FilesInv, OneTaker
  <2>4. \A v \in Workers, row \in archive' : Writing(v)' /\ row.name = job'[v].name =>
           files'[row.name].takers >= 2
    BY <1>1 DEF FilesInv, OneTaker
  <2> QED
    BY <2>1, <2>2, <2>3, <2>4 DEF OneTaker
<1>3. FilesWritten'
  BY <1>1 DEF FilesInv, FilesWritten, Writing
<1>4. ArchivedFilesExist'
  BY DEF FilesInv, ArchivedFilesExist
<1> QED
  BY <1>2, <1>3, <1>4 DEF FilesInv

\* The taker of a name is the first, or makes one more.
LEMMA TakeNameFiles ==
    ASSUME Inv, ExportTypes, FilesInv, NEW w \in Workers, TakeName(w)
    PROVE  FilesInv'
<1> DEFINE name == job'[w].name
<1>1. /\ name \in Names /\ files' = [files EXCEPT ![name].takers = @ + 1]
      /\ UNCHANGED archive /\ job'[w].step = "json" /\ ~Writing(w)
      /\ \A v \in Workers \ {w} : job'[v] = job[v]
  BY ReadEffect DEF TakeName
<1>2. PICK taken \in Names : taken = name
  BY <1>1
<1>3. /\ files[taken] \in File /\ files[taken].takers \in Nat
      /\ files'[taken].takers = files[taken].takers + 1
      /\ files'[taken].json = files[taken].json /\ files'[taken].pdf = files[taken].pdf
      /\ \A n \in Names \ {taken} : files'[n] = files[n]
  BY <1>1, <1>2 DEF ExportTypes, File
<1>4. ASSUME NEW v \in Workers, v # w, Writing(v)'
      PROVE  /\ job'[v] = job[v] /\ Writing(v) /\ job[v].name \in Names
             /\ Snapshot(v)' = Snapshot(v)
  BY <1>1, <1>4 DEF Writing, Snapshot, ExportTypes, JobOK
<1>5. \A row \in archive : row.name \in Names
  BY DEF ExportTypes
<1>6. \A n \in Names : files[n].takers \in Nat
  BY DEF ExportTypes, File
<1>7. OneTaker'
  <2>1. \A v \in Workers : Writing(v)' => files'[job'[v].name].takers >= 1
    BY <1>2, <1>3, <1>4, <1>6 DEF FilesInv, OneTaker
  <2>2. \A row \in archive' : files'[row.name].takers >= 1
    BY <1>1, <1>3, <1>5, <1>6 DEF FilesInv, OneTaker
  <2>3. ASSUME NEW u \in Workers, NEW v \in Workers, u # v, Writing(u)', Writing(v)',
               job'[u].name = job'[v].name
        PROVE  files'[job'[v].name].takers >= 2
    <3>1. CASE u # w /\ v # w
      BY <1>3, <1>4, <1>6, <2>3, <3>1 DEF FilesInv, OneTaker
    <3>2. CASE u = w
      BY <1>2, <1>3, <1>4, <2>3, <3>2 DEF FilesInv, OneTaker
    <3>3. CASE v = w
      BY <1>2, <1>3, <1>4, <2>3, <3>3 DEF FilesInv, OneTaker
    <3> QED
      BY <3>1, <3>2, <3>3
  <2>4. ASSUME NEW v \in Workers, NEW row \in archive', Writing(v)', row.name = job'[v].name
        PROVE  files'[row.name].takers >= 2
    <3>1. CASE v = w
      BY <1>1, <1>2, <1>3, <2>4, <3>1 DEF FilesInv, OneTaker
    <3>2. CASE v # w
      BY <1>1, <1>3, <1>4, <1>5, <1>6, <2>4, <3>2 DEF FilesInv, OneTaker
    <3> QED
      BY <3>1, <3>2
  <2> QED
    BY <2>1, <2>2, <2>3, <2>4 DEF OneTaker
<1>8. FilesWritten'
  <2> SUFFICES ASSUME NEW v \in Workers, job'[v].step \in {"pdf", "row"}
      PROVE  LET f == files'[job'[v].name] IN
             /\ f.json # {} /\ (f.takers = 1 => f.json = {Snapshot(v)'})
             /\ job'[v].step = "row" => f.pdf # {} /\ (f.takers = 1 => f.pdf = {Snapshot(v)'})
    BY DEF FilesWritten
  <2>1. v # w /\ Writing(v)'
    BY <1>1 DEF Writing
  <2>2. /\ job'[v] = job[v] /\ Writing(v) /\ job[v].name \in Names
        /\ Snapshot(v)' = Snapshot(v)
    BY <1>4, <2>1
  <2>3. CASE job[v].name # taken
    <3>1. files'[job[v].name] = files[job[v].name]
      BY <1>3, <2>2, <2>3
    <3> QED
      BY <2>2, <3>1 DEF FilesInv, FilesWritten
  <2>4. CASE job[v].name = taken
    <3>1. files[taken].takers >= 1
      BY <2>2, <2>4 DEF FilesInv, OneTaker
    <3> QED
      BY <1>3, <2>2, <2>4, <3>1 DEF FilesInv, FilesWritten
  <2> QED
    BY <2>3, <2>4
<1>9. ArchivedFilesExist'
  <2> SUFFICES ASSUME NEW row \in archive'
      PROVE  LET f == files'[row.name] IN
             /\ f.json # {} /\ f.pdf # {}
             /\ f.takers = 1 => f.json = {row.content} /\ f.pdf = {row.content}
    BY DEF ArchivedFilesExist
  <2>1. row \in archive /\ row.name \in Names
    BY <1>1, <1>5
  <2>2. files[row.name].takers >= 1
    BY <2>1 DEF FilesInv, OneTaker
  <2> QED
    BY <1>3, <2>1, <2>2 DEF FilesInv, ArchivedFilesExist
<1> QED
  BY <1>7, <1>8, <1>9 DEF FilesInv

\* Who writes a file that others have taken too changes nothing that is promised.
LEMMA WriteFiles ==
    ASSUME Inv, ExportTypes, FilesInv, NEW w \in Workers, WriteJson(w) \/ WritePdf(w)
    PROVE  FilesInv'
<1>1. ~Archive(w)
  BY WriteEffect
<1>2. /\ Writing(w) /\ Writing(w)' /\ job'[w].name = job[w].name
      /\ Snapshot(w)' = Snapshot(w) /\ UNCHANGED archive
      /\ \A v \in Workers \ {w} : job'[v] = job[v]
  BY <1>1, WriteEffect DEF Snapshot, Writing
<1>3. PICK name \in Names : name = job[w].name
  BY <1>2 DEF ExportTypes, JobOK
<1>4. /\ files[name] \in File
      /\ \A n \in Names : /\ files'[n].takers = files[n].takers
                          /\ n # name => files'[n] = files[n]
      /\ files[name].json # {} => files'[name].json # {}
      /\ files[name].pdf # {} => files'[name].pdf # {}
      /\ WriteJson(w) => /\ files'[name].json = {Snapshot(w)}
                         /\ files'[name].pdf = files[name].pdf
      /\ WritePdf(w) => /\ files'[name].pdf = {Snapshot(w)}
                        /\ files'[name].json = files[name].json
  <2>1. files[name] \in File /\ files \in [Names -> File]
    BY DEF ExportTypes
  <2>2. CASE WriteJson(w)
    <3>1. ~WritePdf(w) /\ files' = [files EXCEPT ![name].json = {Snapshot(w)}]
      BY <1>3, <2>2, WriteEffect
    <3> QED
      BY <2>1, <2>2, <3>1 DEF File
  <2>3. CASE WritePdf(w)
    <3>1. ~WriteJson(w) /\ files' = [files EXCEPT ![name].pdf = {Snapshot(w)}]
      BY <1>3, <2>3, WriteEffect
    <3> QED
      BY <2>1, <2>3, <3>1 DEF File
  <2> QED
    BY <2>2, <2>3
<1>5. ASSUME NEW v \in Workers, v # w, Writing(v)'
      PROVE  /\ job'[v] = job[v] /\ Writing(v) /\ job[v].name \in Names
             /\ Snapshot(v)' = Snapshot(v)
  BY <1>2, <1>5 DEF Writing, Snapshot, ExportTypes, JobOK
<1>6. \A row \in archive : row.name \in Names
  BY DEF ExportTypes
<1>7. OneTaker'
  <2>1. \A v \in Workers : Writing(v)' => /\ job'[v].name \in Names /\ Writing(v)
                                          /\ job'[v].name = job[v].name
    BY <1>2, <1>3, <1>5
  <2>2. \A v \in Workers : Writing(v)' => files'[job'[v].name].takers >= 1
    BY <1>4, <2>1 DEF FilesInv, OneTaker
  <2>3. \A row \in archive' : files'[row.name].takers >= 1
    BY <1>2, <1>4, <1>6 DEF FilesInv, OneTaker
  <2>4. \A u, v \in Workers :
           u # v /\ Writing(u)' /\ Writing(v)' /\ job'[u].name = job'[v].name =>
              files'[job'[v].name].takers >= 2
    BY <1>4, <2>1 DEF FilesInv, OneTaker
  <2>5. \A v \in Workers, row \in archive' : Writing(v)' /\ row.name = job'[v].name =>
           files'[row.name].takers >= 2
    BY <1>2, <1>4, <1>6, <2>1 DEF FilesInv, OneTaker
  <2> QED
    BY <2>2, <2>3, <2>4, <2>5 DEF OneTaker
<1>8. FilesWritten'
  <2> SUFFICES ASSUME NEW v \in Workers, job'[v].step \in {"pdf", "row"}
      PROVE  LET f == files'[job'[v].name] IN
             /\ f.json # {} /\ (f.takers = 1 => f.json = {Snapshot(v)'})
             /\ job'[v].step = "row" => f.pdf # {} /\ (f.takers = 1 => f.pdf = {Snapshot(v)'})
    BY DEF FilesWritten
  <2>1. CASE v = w /\ WriteJson(w)
    <3>1. job'[v].step = "pdf"
      BY <2>1, WriteEffect
    <3> QED
      BY <1>2, <1>3, <1>4, <2>1, <3>1
  <2>2. CASE v = w /\ WritePdf(w)
    <3>1. job[v].step = "pdf" /\ files[name].json # {}
          /\ (files[name].takers = 1 => files[name].json = {Snapshot(v)})
      BY <1>3, <2>2, WriteEffect DEF FilesInv, FilesWritten
    <3> QED
      BY <1>2, <1>3, <1>4, <2>2, <3>1
  <2>3. CASE v # w
    <3>1. /\ job'[v] = job[v] /\ Writing(v) /\ job[v].name \in Names
          /\ Snapshot(v)' = Snapshot(v)
      BY <1>5, <2>3 DEF Writing
    <3>2. CASE job[v].name # name
      BY <1>4, <3>1, <3>2 DEF FilesInv, FilesWritten
    <3>3. CASE job[v].name = name
      <4>1. files[name].takers >= 2 /\ files'[name].takers = files[name].takers
        BY <1>2, <1>3, <1>4, <2>3, <3>1, <3>3 DEF FilesInv, OneTaker
      <4>2. files[name].takers \in Nat
        BY <1>4 DEF File
      <4> QED
        BY <1>4, <3>1, <3>3, <4>1, <4>2 DEF FilesInv, FilesWritten
    <3> QED
      BY <3>2, <3>3
  <2> QED
    BY <2>1, <2>2, <2>3
<1>9. ArchivedFilesExist'
  <2> SUFFICES ASSUME NEW row \in archive'
      PROVE  LET f == files'[row.name] IN
             /\ f.json # {} /\ f.pdf # {}
             /\ f.takers = 1 => f.json = {row.content} /\ f.pdf = {row.content}
    BY DEF ArchivedFilesExist
  <2>1. row \in archive /\ row.name \in Names
    BY <1>2, <1>6
  <2>2. CASE row.name # name
    BY <1>4, <2>1, <2>2 DEF FilesInv, ArchivedFilesExist
  <2>3. CASE row.name = name
    <3>1. files[name].takers >= 2 /\ files'[name].takers = files[name].takers
      BY <1>2, <1>3, <1>4, <2>1, <2>3 DEF FilesInv, OneTaker
    <3>2. files[name].takers \in Nat
      BY <1>4 DEF File
    <3> QED
      BY <1>4, <2>1, <2>3, <3>1, <3>2 DEF FilesInv, ArchivedFilesExist
  <2> QED
    BY <2>2, <2>3
<1> QED
  BY <1>7, <1>8, <1>9 DEF FilesInv

\* The row is inserted when both files are written.
LEMMA ArchiveFiles ==
    ASSUME Inv, ExportTypes, FilesInv, NEW w \in Workers, Archive(w)
    PROVE  FilesInv'
<1>1. /\ Writing(w) /\ job[w].step = "row" /\ job'[w] = NoJob /\ UNCHANGED files
      /\ \A v \in Workers \ {w} : job'[v] = job[v]
      /\ archive' = archive \cup {[name |-> job[w].name, content |-> Snapshot(w)]}
  BY WriteEffect DEF Archive
<1>2. ~Writing(w)'
  BY <1>1 DEF Writing, NoJob
<1>3. ASSUME NEW v \in Workers, Writing(v)'
      PROVE  v # w /\ job'[v] = job[v] /\ Writing(v) /\ Snapshot(v)' = Snapshot(v)
  BY <1>1, <1>2, <1>3 DEF Writing, Snapshot
<1>4. ASSUME NEW row \in archive', row \notin archive
      PROVE  row.name = job[w].name /\ row.content = Snapshot(w)
  BY <1>1, <1>4
<1>5. OneTaker'
  <2>1. \A v \in Workers : Writing(v)' => files'[job'[v].name].takers >= 1
    BY <1>1, <1>3 DEF FilesInv, OneTaker
  <2>2. \A row \in archive' : files'[row.name].takers >= 1
    BY <1>1, <1>4 DEF FilesInv, OneTaker
  <2>3. \A u, v \in Workers :
           u # v /\ Writing(u)' /\ Writing(v)' /\ job'[u].name = job'[v].name =>
              files'[job'[v].name].takers >= 2
    BY <1>1, <1>3 DEF FilesInv, OneTaker
  <2>4. ASSUME NEW v \in Workers, NEW row \in archive', Writing(v)', row.name = job'[v].name
        PROVE  files'[row.name].takers >= 2
    <3>1. CASE row \in archive
      BY <1>1, <1>3, <2>4, <3>1 DEF FilesInv, OneTaker
    <3>2. CASE row \notin archive
      BY <1>1, <1>3, <1>4, <2>4, <3>2 DEF FilesInv, OneTaker
    <3> QED
      BY <3>1, <3>2
  <2> QED
    BY <2>1, <2>2, <2>3, <2>4 DEF OneTaker
<1>6. FilesWritten'
  BY <1>1, <1>3 DEF FilesInv, FilesWritten, Writing
<1>7. ArchivedFilesExist'
  <2> SUFFICES ASSUME NEW row \in archive'
      PROVE  LET f == files[row.name] IN
             /\ f.json # {} /\ f.pdf # {}
             /\ f.takers = 1 => f.json = {row.content} /\ f.pdf = {row.content}
    BY <1>1 DEF ArchivedFilesExist
  <2>1. CASE row \in archive
    BY <2>1 DEF FilesInv, ArchivedFilesExist
  <2>2. CASE row \notin archive
    BY <1>1, <1>4, <2>2 DEF FilesInv, FilesWritten
  <2> QED
    BY <2>1, <2>2
<1> QED
  BY <1>5, <1>6, <1>7 DEF FilesInv

LEMMA StepFiles ==
    ASSUME Inv, ExportTypes, FilesInv, ExportsNext
    PROVE  FilesInv'
<1>1. ASSUME NEW w \in Workers, WorkerStep(w) PROVE FilesInv'
  <2>1. ASSUME NEW from \in Times, NEW to \in 2..(MaxTime + 1),
               AskToNumber(w, from, to) \/ AskNumbered(w, from, to)
        PROVE  FilesInv'
    <3>1. PICK s \in {"number", "rows"} : Ask(w, from, to, s)
      BY <2>1 DEF AskToNumber, AskNumbered
    <3> QED
      BY <3>1, AskEffect, QuietStep DEF Writing
  <2>2. CASE Number(w)
    BY <2>2 DEF Number, FilesInv, OneTaker, FilesWritten, ArchivedFilesExist, Writing, Snapshot
  <2>3. CASE Numbered(w)
    BY <2>3, NumberedEffect, QuietStep DEF Writing
  <2>4. CASE LoadRows(w) \/ LoadExceptions(w)
    BY <2>4, ReadEffect, QuietStep DEF Writing
  <2>5. CASE Preview(w) \/ Die(w)
    BY <2>5, EndEffect, QuietStep DEF Writing, NoJob
  <2> QED
    BY <1>1, <2>1, <2>2, <2>3, <2>4, <2>5, TakeNameFiles, WriteFiles, ArchiveFiles
    DEF WorkerStep
<1>2. ASSUME NEW p \in Payments, Touch(p) PROVE FilesInv'
  <2>1. /\ UNCHANGED <<files, archive>>
        /\ \A v \in Workers : /\ job'[v].step = job[v].step /\ job'[v].name = job[v].name
                              /\ Snapshot(v)' = Snapshot(v)
    BY <1>2, TouchEffect DEF Snapshot
  <2> QED
    BY <2>1 DEF FilesInv, OneTaker, FilesWritten, ArchivedFilesExist, Writing
<1>3. CASE UNCHANGED <<job, files, archive, asked, touches>>
  BY <1>3 DEF FilesInv, OneTaker, FilesWritten, ArchivedFilesExist, Writing, Snapshot
<1> QED
  BY <1>1, <1>2, <1>3, StepsAre DEF OtherStep

-----------------------------------------------------------------------------
\* Months follow each other, and a window of one month holds instants of that month.
LEMMA MonthsFollow ==
    ASSUME NEW s \in Int, NEW t \in Int, s <= t
    PROVE  Month(s) \in Int /\ Month(t) \in Int /\ Month(s) <= Month(t)
  BY TimeAssumption DEF Month

LEMMA InWindowMonth ==
    ASSUME Inv, ExportTypes, NEW w \in Workers, job[w].step # "none",
           NEW p \in Payments, InWindow(w, p)
    PROVE  Month(payments[p].capturedAt) = Month(job[w].from)
<1> DEFINE t == payments[p].capturedAt
<1>1. /\ job[w].from \in Int /\ job[w].to \in Int
      /\ Month(job[w].from) = Month(job[w].to - 1)
  BY DEF ExportTypes, JobOK, Step, Job, SingleMonth
<1>2. t \in Int /\ job[w].from <= t /\ t <= job[w].to - 1
  BY <1>1 DEF Inv, TypeOK, PaymentRow, InWindow, Within
<1> HIDE DEF t
<1>3. /\ Month(job[w].from) \in Int /\ Month(t) \in Int
      /\ Month(job[w].from) <= Month(t) /\ Month(t) <= Month(job[w].to - 1)
  BY <1>1, <1>2, MonthsFollow
<1>4. Month(t) = Month(job[w].from)
  BY <1>1, <1>3
<1> QED
  BY <1>4 DEF t

\* A candidate is numbered in the month it was seen captured in, or skipped.
LEMMA AssignEffect ==
    ASSUME Inv, NEW w \in Workers, AssignNext(w)
    PROVE  /\ req'[w].seen = req[w].seen /\ req'[w].period = req[w].period
           /\ req'[w].pc = "assign"
           /\ \E c \in req[w].todo :
                 /\ c.id \in Payments /\ req'[w].todo = req[w].todo \ {c}
                 /\ \A p \in Payments \ {c.id} : req'[w].issued[p] = req[w].issued[p]
                 /\ \/ /\ Month(req[w].seen[c.id].capturedAt) = req[w].period
                       /\ req'[w].issued[c.id] # 0
                    \/ /\ ~StillUnnumbered(req[w].seen[c.id])
                       /\ req'[w].issued[c.id] = req[w].issued[c.id]
<1>1. req[w] \in Request /\ req[w].pc = "assign"
  BY DEF AssignNext, At, Inv, TypeOK
<1>2. PICK c \in req[w].todo :
        LET row  == req[w].seen[c.id]
            rest == req[w].todo \ {c}
            next == req[w].current + 1
        IN  \/ /\ Month(row.capturedAt) = req[w].period
               /\ Goto(w, [req[w] EXCEPT !.todo = rest, !.current = next,
                                         !.issued[c.id] = next])
            \/ /\ ~StillUnnumbered(row)
               /\ Goto(w, [req[w] EXCEPT !.todo = rest])
  BY DEF AssignNext
<1> DEFINE rest == req[w].todo \ {c}
           next == req[w].current + 1
           issued == [req[w].issued EXCEPT ![c.id] = next]
           numbered == [req[w] EXCEPT !.todo = rest, !.current = next, !.issued = issued]
           skipped == [req[w] EXCEPT !.todo = rest]
<1>3. c.id \in Payments /\ next # 0
  BY <1>1 DEF Request, Candidate
<1>4. CASE /\ Month(req[w].seen[c.id].capturedAt) = req[w].period
           /\ req' = [req EXCEPT ![w] = numbered]
  <2>1. req'[w] = numbered
    BY <1>4 DEF Inv, TypeOK
  <2>2. \A p \in Payments : issued[p] = IF p = c.id THEN next ELSE req[w].issued[p]
    BY <1>1, <1>3 DEF Request
  <2>3. /\ req'[w].seen = req[w].seen /\ req'[w].period = req[w].period
        /\ req'[w].pc = "assign" /\ req'[w].todo = rest /\ req'[w].issued = issued
    BY <1>1, <2>1 DEF Request
  <2> HIDE DEF issued
  <2> QED
    BY <1>3, <1>4, <2>2, <2>3
<1>5. CASE ~StillUnnumbered(req[w].seen[c.id]) /\ req' = [req EXCEPT ![w] = skipped]
  <2>1. req'[w] = skipped
    BY <1>5 DEF Inv, TypeOK
  <2>2. /\ req'[w].seen = req[w].seen /\ req'[w].period = req[w].period
        /\ req'[w].pc = "assign" /\ req'[w].todo = rest
        /\ req'[w].issued = req[w].issued
    BY <1>1, <2>1 DEF Request
  <2> QED
    BY <1>3, <1>5, <2>2
<1> QED
  BY <1>2, <1>4, <1>5 DEF Goto

\* A transaction numbers a payment only in the month it was captured in.
LEMMA StepIssued ==
    ASSUME Inv, IssuedInMonth, [Next]_vars
    PROVE  IssuedInMonth'
<1> DEFINE Fine(w) == req'[w].pc = "assign" =>
        \A p \in Payments : req'[w].issued[p] # 0 =>
            Month(req'[w].seen[p].capturedAt) = req'[w].period
<1>1. ASSUME NEW w \in Workers, req'[w] = req[w] PROVE Fine(w)
  BY <1>1 DEF IssuedInMonth
<1>2. ASSUME NEW w \in Workers, NEW from \in Times, NEW to \in 2..(MaxTime + 1),
             Collect(w, from, to)
      PROVE  Fine(w)
  BY <1>2 DEF Collect, Goto, Idle, Inv, TypeOK
<1>3. ASSUME NEW w \in Workers, Begin(w) PROVE Fine(w)
  <2>1. req'[w].issued = req[w].issued
    BY <1>3 DEF Begin, Goto, Inv, TypeOK, Request
  <2>2. \A p \in Payments : req[w].issued[p] = 0
    BY <1>3 DEF Begin, At, Inv, Requests, Collected
  <2> QED
    BY <2>1, <2>2
<1>4. ASSUME NEW w \in Workers, AssignNext(w) PROVE Fine(w)
  <2>1. req[w].pc = "assign"
    BY <1>4 DEF AssignNext, At
  <2>2. /\ req'[w].seen = req[w].seen /\ req'[w].period = req[w].period
        /\ \A p \in Payments : \/ req'[w].issued[p] = req[w].issued[p]
                               \/ Month(req[w].seen[p].capturedAt) = req[w].period
    BY <1>4, AssignEffect
  <2> QED
    BY <2>1, <2>2 DEF IssuedInMonth
<1>5. ASSUME NEW w \in Workers, Commit(w) \/ Abandon(w) PROVE Fine(w)
  <2>1. req'[w] = Idle
    BY <1>5 DEF Commit, Abandon, Goto, Inv, TypeOK
  <2> QED
    BY <2>1 DEF Idle
<1>6. ASSUME NEW w \in Workers,
             \/ \E from \in Times, to \in 2..(MaxTime + 1) : Collect(w, from, to)
             \/ Begin(w) \/ AssignNext(w) \/ Commit(w) \/ Abandon(w)
      PROVE  \A v \in Workers \ {w} : req'[v] = req[v]
  BY <1>6 DEF Collect, Begin, AssignNext, Commit, Abandon, Goto, Inv, TypeOK
<1>7. CASE \E w \in Workers :
             \/ \E from \in Times, to \in 2..(MaxTime + 1) : Collect(w, from, to)
             \/ Begin(w) \/ AssignNext(w) \/ Commit(w) \/ Abandon(w)
  <2>1. PICK w \in Workers :
             \/ \E from \in Times, to \in 2..(MaxTime + 1) : Collect(w, from, to)
             \/ Begin(w) \/ AssignNext(w) \/ Commit(w) \/ Abandon(w)
    BY <1>7
  <2>2. Fine(w)
    BY <1>2, <1>3, <1>4, <1>5, <2>1
  <2>3. \A v \in Workers \ {w} : Fine(v)
    BY <1>1, <1>6, <2>1
  <2> QED
    BY <2>2, <2>3 DEF IssuedInMonth
<1>8. CASE req' = req
  BY <1>1, <1>8 DEF IssuedInMonth
<1> QED
  BY <1>7, <1>8 DEF Next, vars, Reopen, DeletePayment, Capture, Tick

-----------------------------------------------------------------------------
\* The rows of a request and of the archive stay true.
LEMMA StepRows ==
    ASSUME Inv, ExportTypes, RowsTrue, ExportsNext
    PROVE  RowsTrue'
<1>1. ASSUME NEW r \in Row, TrueRow(r) PROVE TrueRow(r)'
  <2>1. r.id \in Payments /\ r.number \in Nat
    BY DEF Row
  <2>2. [Next]_vars
    BY ExportsNumber
  <2> QED
    BY <1>1, <2>1, <2>2, NumbersStay DEF TrueRow
<1>2. \A w \in Workers : job[w].rows \subseteq Row
  BY DEF ExportTypes, Job
<1>3. \A row \in archive : row.content.rows \subseteq Row
  BY DEF ExportTypes, Content
<1>4. ASSUME NEW v \in Workers, job'[v].rows = job[v].rows \/ job'[v].rows = {}
      PROVE  \A r \in job'[v].rows : TrueRow(r)'
  BY <1>1, <1>2, <1>4 DEF RowsTrue
<1>5. \A row \in archive : \A r \in row.content.rows : TrueRow(r)'
  BY <1>1, <1>3 DEF RowsTrue
<1>6. ASSUME NEW w \in Workers, WorkerStep(w)
      PROVE  RowsTrue'
  <2> DEFINE Fine == /\ \A v \in Workers \ {w} : job'[v] = job[v]
                     /\ \A r \in job'[w].rows : TrueRow(r)'
                     /\ \A row \in archive' : \A r \in row.content.rows : TrueRow(r)'
  <2>1. ASSUME NEW from \in Times, NEW to \in 2..(MaxTime + 1),
               AskToNumber(w, from, to) \/ AskNumbered(w, from, to)
        PROVE  Fine
    <3>1. PICK s \in {"number", "rows"} : Ask(w, from, to, s)
      BY <2>1 DEF AskToNumber, AskNumbered
    <3> QED
      BY <1>5, <3>1, AskEffect
  <2>2. ASSUME Number(w) PROVE Fine
    BY <1>4, <1>5, <2>2 DEF Number
  <2>3. ASSUME Numbered(w) PROVE Fine
    BY <1>4, <1>5, <2>3, NumberedEffect
  <2>4. ASSUME LoadExceptions(w) \/ TakeName(w) PROVE Fine
    BY <1>4, <1>5, <2>4, ReadEffect
  <2>5. ASSUME LoadRows(w) PROVE Fine
    <3>1. job'[w].rows = RowsOf(job[w].from, job[w].to) /\ UNCHANGED <<vars, archive>>
      BY <2>5, ReadEffect
    <3>2. \A r \in job'[w].rows : TrueRow(r)'
      BY <3>1 DEF RowsOf, TrueRow, vars
    <3> QED
      BY <1>5, <2>5, <3>1, <3>2, ReadEffect
  <2>6. ASSUME WriteJson(w) \/ WritePdf(w) PROVE Fine
    <3>1. ~Archive(w)
      BY <2>6, WriteEffect
    <3> QED
      BY <1>4, <1>5, <2>6, <3>1, WriteEffect
  <2>7. ASSUME Archive(w) PROVE Fine
    <3>1. \A r \in job[w].rows : TrueRow(r)'
      BY <1>1, <1>2 DEF RowsTrue
    <3>2. Snapshot(w).rows = job[w].rows
      BY DEF Snapshot
    <3>3. \A row \in archive' : row \in archive \/ row.content = Snapshot(w)
      BY <2>7 DEF Archive
    <3>4. job'[w].rows = {}
      <4>1. job'[w] = NoJob
        BY <2>7, WriteEffect
      <4> QED
        BY <4>1 DEF NoJob
    <3> QED
      BY <1>5, <2>7, <3>1, <3>2, <3>3, <3>4, WriteEffect
  <2>8. ASSUME Preview(w) \/ Die(w) PROVE Fine
    <3>1. job'[w].rows = {}
      BY <2>8, EndEffect DEF NoJob
    <3> QED
      BY <1>5, <2>8, <3>1, EndEffect
  <2>9. Fine
    BY <1>6, <2>1, <2>2, <2>3, <2>4, <2>5, <2>6, <2>7, <2>8 DEF WorkerStep
  <2> QED
    BY <1>4, <2>9 DEF RowsTrue
<1>7. CASE OtherStep
  <2>1. \A v \in Workers : job'[v].rows = job[v].rows
    BY <1>7, TouchEffect DEF OtherStep
  <2>2. archive' = archive
    BY <1>7 DEF OtherStep, Touch
  <2> QED
    BY <1>4, <1>5, <2>1, <2>2 DEF RowsTrue
<1> QED
  BY <1>6, <1>7, StepsAre

-----------------------------------------------------------------------------
\* What a request may do to a payment: give it the number of its month.
LEMMA WorkerPayments ==
    ASSUME Inv, IssuedInMonth, NEW w \in Workers, WorkerStep(w), NEW p \in Payments
    PROVE  /\ payments'[p].status = payments[p].status
           /\ payments'[p].capturedAt = payments[p].capturedAt
           /\ \/ payments'[p] = payments[p]
              \/ /\ payments[p].number = 0 /\ payments'[p].number # 0
                 /\ payments'[p].period = Month(payments[p].capturedAt)
<1>1. CASE Commit(w)
  <2>1. CASE req[w].issued[p] = 0
    BY <1>1, <2>1, CommitEffect
  <2>2. CASE req[w].issued[p] # 0
    <3>1. payments[p] = req[w].seen[p] /\ req[w].pc = "assign"
      BY <1>1, <2>2 DEF Commit, At, Serializable, Written
    <3>2. req[w].period = Month(payments[p].capturedAt)
      BY <2>2, <3>1 DEF IssuedInMonth
    <3>3. payments'[p] = [payments[p] EXCEPT !.number = req[w].issued[p],
                                             !.period = req[w].period]
      BY <1>1, <2>2 DEF Commit, Written
    <3>4. /\ payments'[p].status = payments[p].status
          /\ payments'[p].capturedAt = payments[p].capturedAt
      BY <3>3 DEF Inv, TypeOK, PaymentRow
    <3>5. /\ payments[p].number = 0 /\ payments'[p].number = req[w].issued[p]
          /\ payments'[p].period = req[w].period
      BY <1>1, <2>2, CommitEffect
    <3> QED
      BY <2>2, <3>2, <3>4, <3>5
  <2> QED
    BY <2>1, <2>2
<1>2. CASE ~Commit(w)
  <2>1. payments' = payments
    BY <1>2 DEF WorkerStep, AskToNumber, AskNumbered, Number, Numbered, Die, LoadRows,
       LoadExceptions, Preview, TakeName, WriteJson, WritePdf, Archive, Collect, Begin,
       AssignNext, Abandon, vars
  <2> QED
    BY <2>1
<1> QED
  BY <1>1, <1>2

\* A request that does not move stays right about payments that nobody touches.
LEMMA RightStays ==
    ASSUME Inv, ExportTypes, NEW v \in Workers, NEW p \in Payments, RightFor(v, p),
           job'[v].step = job[v].step, job'[v].from = job[v].from,
           job'[v].to = job[v].to, job'[v].rows = job[v].rows,
           job'[v].exceptions = job[v].exceptions, req'[v] = req[v],
           payments'[p].status = payments[p].status,
           payments'[p].capturedAt = payments[p].capturedAt,
           \/ payments'[p] = payments[p]
           \/ /\ payments[p].number = 0 /\ payments'[p].number # 0
              /\ payments'[p].period = Month(payments[p].capturedAt)
    PROVE  RightFor(v, p)'
<1>1. InWindow(v, p)' <=> InWindow(v, p)
  BY DEF InWindow, Within
<1>2. job[v].step # "none" /\ InWindow(v, p) =>
        Month(payments[p].capturedAt) = Month(job[v].from)
  BY InWindowMonth
<1>3. job'[v].step = "number" => OnItsWay(v, p)'
  BY <1>1, <1>2 DEF RightFor, OnItsWay
<1>4. job'[v].step \notin {"none", "number"} /\ InWindow(v, p)' =>
         payments'[p].number # 0 /\ payments'[p].period = Month(job'[v].from)
  BY <1>1, <1>2 DEF RightFor
<1>5. ListedRight(v, p) => ListedRight(v, p)'
  BY <1>1 DEF ListedRight
<1>6. ExcusedRight(v, p) => ExcusedRight(v, p)'
  BY DEF ExcusedRight
<1> QED
  BY <1>3, <1>4, <1>5, <1>6 DEF RightFor

LEMMA AskIsRight ==
    ASSUME Inv, ExportTypes, NEW w \in Workers, NEW p \in Payments,
           NEW from \in Times, NEW to \in 2..(MaxTime + 1),
           AskToNumber(w, from, to) \/ AskNumbered(w, from, to)
    PROVE  RightFor(w, p)'
<1>1. PICK s \in {"number", "rows"} :
          /\ Ask(w, from, to, s)
          /\ s = "number" => Collect(w, from, to)
          /\ s = "rows" => /\ payments' = payments
                           /\ \A q \in Payments : Within(payments[q], from, to) =>
                                 payments[q].number # 0
          /\ ~MixesPeriods(from, to) /\ payments' = payments
  BY DEF AskToNumber, AskNumbered, Collect, vars
<1>2. job'[w].step = s /\ job'[w].from = from /\ job'[w].to = to
  BY <1>1, AskEffect
<1>3. InWindow(w, p)' => /\ Within(payments[p], from, to)
                         /\ payments'[p].number # 0 => payments'[p].period = Month(from)
  BY <1>1, <1>2 DEF InWindow, Within, MixesPeriods
<1>4. CASE s = "rows"
  BY <1>1, <1>2, <1>3, <1>4 DEF RightFor
<1>5. CASE s = "number"
  <2>1. /\ req'[w].pc = "begin" /\ req'[w].period = Month(from)
        /\ req'[w].todo = {[id |-> q, capturedAt |-> payments[q].capturedAt] :
              q \in {r \in Payments : Within(payments[r], from, to) /\ payments[r].number = 0}}
    BY <1>1, <1>5 DEF Collect, Goto, Idle, Inv, TypeOK
  <2>2. ASSUME InWindow(w, p)', payments'[p].number = 0
        PROVE  \E c \in req'[w].todo : c.id = p
    <3>1. [id |-> p, capturedAt |-> payments[p].capturedAt] \in req'[w].todo
      BY <1>1, <1>3, <2>1, <2>2
    <3> QED
      BY <3>1
  <2>3. OnItsWay(w, p)'
    BY <1>2, <1>3, <2>1, <2>2 DEF OnItsWay
  <2> QED
    BY <1>2, <1>5, <2>3 DEF RightFor
<1> QED
  BY <1>4, <1>5

\* The transaction numbers a candidate, or finds that it has its number.
LEMMA NumberIsRight ==
    ASSUME Inv, ExportTypes, NEW w \in Workers, NEW p \in Payments, RightFor(w, p), Number(w)
    PROVE  RightFor(w, p)'
<1>1. /\ job' = job /\ payments' = payments /\ (Begin(w) \/ AssignNext(w))
      /\ job[w].step = "number"
  BY DEF Number, Begin, AssignNext, At, ExportTypes, JobOK, Step
<1>2. OnItsWay(w, p) /\ (InWindow(w, p)' <=> InWindow(w, p))
  BY <1>1 DEF RightFor, InWindow
<1>3. CASE Begin(w)
  <2>1. /\ req'[w].period = req[w].period /\ req'[w].todo = req[w].todo
        /\ req'[w].issued = req[w].issued
        /\ (\E c \in req[w].todo : c.id = p) => req'[w].seen[p] = payments[p]
    BY <1>3 DEF Begin, Goto, Inv, TypeOK, Request
  <2>2. OnItsWay(w, p)'
    BY <1>1, <1>2, <2>1 DEF OnItsWay
  <2> QED
    BY <1>1, <2>2 DEF RightFor
<1>4. CASE AssignNext(w)
  <2>1. PICK c \in req[w].todo :
           /\ c.id \in Payments /\ req'[w].todo = req[w].todo \ {c}
           /\ \A q \in Payments \ {c.id} : req'[w].issued[q] = req[w].issued[q]
           /\ \/ /\ Month(req[w].seen[c.id].capturedAt) = req[w].period
                 /\ req'[w].issued[c.id] # 0
              \/ /\ ~StillUnnumbered(req[w].seen[c.id])
                 /\ req'[w].issued[c.id] = req[w].issued[c.id]
    BY <1>4, AssignEffect
  <2>2. /\ req'[w].seen = req[w].seen /\ req'[w].period = req[w].period
        /\ req'[w].pc = "assign" /\ req[w].pc = "assign"
    BY <1>4, AssignEffect DEF AssignNext, At
  <2>3. InWindow(w, p) /\ payments[p].number = 0 =>
           (\E d \in req'[w].todo : d.id = p) \/ req'[w].issued[p] # 0
    <3>1. CASE c.id # p
      BY <1>2, <2>1, <3>1 DEF OnItsWay
    <3>2. CASE c.id = p
      BY <1>2, <2>1, <2>2, <3>2 DEF OnItsWay, StillUnnumbered, InWindow, Within
    <3> QED
      BY <3>1, <3>2
  <2>4. OnItsWay(w, p)'
    BY <1>1, <1>2, <2>1, <2>2, <2>3 DEF OnItsWay
  <2> QED
    BY <1>1, <2>4 DEF RightFor
<1> QED
  BY <1>1, <1>3, <1>4

\* The commit leaves no payment of the period without its number.
LEMMA NumberedIsRight ==
    ASSUME Inv, ExportTypes, IssuedInMonth, NEW w \in Workers, NEW p \in Payments,
           RightFor(w, p), Numbered(w)
    PROVE  RightFor(w, p)'
<1>1. /\ job'[w].from = job[w].from /\ job'[w].to = job[w].to
      /\ job[w].step = "number" /\ job'[w].step = "rows" /\ Commit(w)
  BY NumberedEffect
<1>2. OnItsWay(w, p) /\ req[w].todo = {}
  BY <1>1 DEF RightFor, Commit
<1>3. /\ payments'[p].status = payments[p].status
      /\ payments'[p].capturedAt = payments[p].capturedAt
  BY WorkerPayments DEF WorkerStep
<1>4. InWindow(w, p)' <=> InWindow(w, p)
  BY <1>1, <1>3 DEF InWindow, Within
<1>5. IF req[w].issued[p] # 0
        THEN /\ payments[p].number = 0
             /\ payments'[p].number = req[w].issued[p]
             /\ payments'[p].period = req[w].period
        ELSE payments'[p] = payments[p]
  BY <1>1, CommitEffect
<1>6. InWindow(w, p)' => payments'[p].number # 0 /\ payments'[p].period = Month(job'[w].from)
  BY <1>1, <1>2, <1>4, <1>5 DEF OnItsWay
<1> QED
  BY <1>1, <1>6 DEF RightFor

\* Each query lists what is there.
LEMMA ReadIsRight ==
    ASSUME Inv, ExportTypes, NEW w \in Workers, NEW p \in Payments, RightFor(w, p),
           LoadRows(w) \/ LoadExceptions(w) \/ TakeName(w)
    PROVE  RightFor(w, p)'
<1>1. /\ job'[w].from = job[w].from /\ job'[w].to = job[w].to /\ payments' = payments
  BY ReadEffect DEF vars
<1>2. (InWindow(w, p)' <=> InWindow(w, p)) /\ job[w].step \notin {"none", "number"}
  BY <1>1, ReadEffect DEF InWindow
<1>3. InWindow(w, p) => payments[p].number # 0 /\ payments[p].period = Month(job[w].from)
  BY <1>2 DEF RightFor
<1>4. CASE LoadRows(w)
  <2>1. /\ job'[w].rows = RowsOf(job[w].from, job[w].to)
        /\ job'[w].step = "exceptions"
    BY <1>4, ReadEffect
  <2>2. ASSUME NEW r \in job'[w].rows, r.id = p
        PROVE  InWindow(w, p) /\ r.number = payments[p].number /\ r.period = payments[p].period
    BY <2>1, <2>2 DEF RowsOf, InWindow
  <2>3. ASSUME InWindow(w, p) PROVE \E r \in job'[w].rows : r.id = p
    <3>1. [id |-> p, number |-> payments[p].number, period |-> payments[p].period]
             \in job'[w].rows
      BY <2>1, <2>3 DEF RowsOf, InWindow
    <3> QED
      BY <3>1
  <2>4. ListedRight(w, p)'
    BY <1>1, <1>2, <1>3, <2>2, <2>3 DEF ListedRight
  <2> QED
    BY <1>1, <1>2, <1>3, <2>1, <2>4 DEF RightFor
<1>5. CASE LoadExceptions(w)
  <2>1. /\ job'[w].exceptions = {q \in Payments :
              Ended[q] >= job[w].from /\ Ended[q] < job[w].to /\ Unpaid(q)}
        /\ job'[w].rows = job[w].rows
        /\ job[w].step = "exceptions" /\ job'[w].step = "render"
    BY <1>5, ReadEffect
  <2>2. ListedRight(w, p)'
    BY <1>1, <1>2, <2>1 DEF RightFor, ListedRight
  <2>3. ExcusedRight(w, p)'
    BY <1>1, <2>1, ExportsAssumption DEF ExcusedRight, Unpaid, ExportTypes, Job, Times
  <2> QED
    BY <1>1, <1>2, <1>3, <2>1, <2>2, <2>3 DEF RightFor
<1>6. CASE TakeName(w)
  <2>1. /\ job'[w].rows = job[w].rows /\ job'[w].exceptions = job[w].exceptions
        /\ job[w].step = "render" /\ job'[w].step = "json"
    BY <1>6, ReadEffect
  <2>2. ListedRight(w, p)' /\ ExcusedRight(w, p)'
    BY <1>1, <1>2, <2>1 DEF RightFor, ListedRight, ExcusedRight
  <2> QED
    BY <1>1, <1>2, <1>3, <2>1, <2>2 DEF RightFor
<1> QED
  BY <1>4, <1>5, <1>6

LEMMA WriteIsRight ==
    ASSUME Inv, ExportTypes, NEW w \in Workers, NEW p \in Payments, RightFor(w, p),
           WriteJson(w) \/ WritePdf(w)
    PROVE  RightFor(w, p)'
<1>1. ~Archive(w)
  BY WriteEffect
<1>2. /\ job'[w].from = job[w].from /\ job'[w].to = job[w].to /\ payments' = payments
      /\ job'[w].rows = job[w].rows /\ job'[w].exceptions = job[w].exceptions
      /\ job[w].step \in {"json", "pdf"} /\ job'[w].step \in {"pdf", "row"}
  BY <1>1, WriteEffect DEF vars
<1>3. (InWindow(w, p)' <=> InWindow(w, p)) /\ ListedRight(w, p)' /\ ExcusedRight(w, p)'
  BY <1>2 DEF RightFor, ListedRight, ExcusedRight, InWindow
<1> QED
  BY <1>2, <1>3 DEF RightFor

LEMMA StepComplete ==
    ASSUME Inv, ExportTypes, IssuedInMonth, Complete, ExportsNext
    PROVE  Complete'
<1>1. ASSUME NEW w \in Workers, WorkerStep(w) PROVE Complete'
  <2>1. ASSUME NEW v \in Workers \ {w}, job'[v] = job[v], NEW p \in Payments \ job'[v].touched
        PROVE  RightFor(v, p)'
    <3>1. RightFor(v, p) /\ req'[v] = req[v]
      BY <1>1, <2>1, WorkerSteps DEF Complete
    <3> QED
      BY <1>1, <2>1, <3>1, WorkerPayments, RightStays
  <2> DEFINE Fine == /\ \A v \in Workers \ {w} : job'[v] = job[v]
                     /\ \A p \in Payments \ job'[w].touched : RightFor(w, p)'
  <2>2. ASSUME NEW from \in Times, NEW to \in 2..(MaxTime + 1),
               AskToNumber(w, from, to) \/ AskNumbered(w, from, to)
        PROVE  Fine
    <3>1. PICK s \in {"number", "rows"} : Ask(w, from, to, s)
      BY <2>2 DEF AskToNumber, AskNumbered
    <3> QED
      BY <2>2, <3>1, AskEffect, AskIsRight
  <2>3. ASSUME Number(w) PROVE Fine
    <3>1. job' = job
      BY <2>3 DEF Number
    <3> QED
      BY <2>3, <3>1, NumberIsRight DEF Complete
  <2>4. ASSUME Numbered(w) PROVE Fine
    BY <2>4, NumberedEffect, NumberedIsRight DEF Complete
  <2>5. ASSUME LoadRows(w) \/ LoadExceptions(w) \/ TakeName(w) PROVE Fine
    BY <2>5, ReadEffect, ReadIsRight DEF Complete
  <2>6. ASSUME WriteJson(w) \/ WritePdf(w) PROVE Fine
    <3>1. ~Archive(w)
      BY <2>6, WriteEffect
    <3> QED
      BY <2>6, <3>1, WriteEffect, WriteIsRight DEF Complete
  <2>7. ASSUME Archive(w) \/ Preview(w) \/ Die(w) PROVE Fine
    <3>1. job'[w] = NoJob /\ \A v \in Workers \ {w} : job'[v] = job[v]
      BY <2>7, WriteEffect, EndEffect
    <3>2. job'[w].step = "none"
      BY <3>1 DEF NoJob
    <3> QED
      BY <3>1, <3>2 DEF RightFor
  <2>8. Fine
    BY <1>1, <2>2, <2>3, <2>4, <2>5, <2>6, <2>7 DEF WorkerStep
  <2> QED
    BY <2>1, <2>8 DEF Complete
<1>2. ASSUME NEW q \in Payments, Touch(q) PROVE Complete'
  <2> SUFFICES ASSUME NEW v \in Workers, NEW p \in Payments \ job'[v].touched
      PROVE  RightFor(v, p)'
    BY DEF Complete
  <2>1. /\ job'[v].step = job[v].step /\ job'[v].from = job[v].from
        /\ job'[v].to = job[v].to /\ job'[v].rows = job[v].rows
        /\ job'[v].exceptions = job[v].exceptions /\ req'[v] = req[v]
        /\ job[v].touched \subseteq job'[v].touched
        /\ job[v].step # "none" => q \in job'[v].touched
        /\ p # q => payments'[p] = payments[p]
    BY <1>2, TouchEffect
  <2>2. CASE job[v].step = "none"
    BY <2>1, <2>2 DEF RightFor
  <2>3. CASE job[v].step # "none"
    <3>1. payments'[p] = payments[p] /\ RightFor(v, p)
      BY <2>1, <2>3 DEF Complete
    <3> QED
      BY <2>1, <3>1, RightStays
  <2> QED
    BY <2>2, <2>3
<1>3. CASE Tick /\ UNCHANGED <<job, files, archive, asked, touches>>
  <2>1. job' = job /\ req' = req /\ payments' = payments
    BY <1>3 DEF Tick
  <2> QED
    BY <2>1, RightStays DEF Complete
<1> QED
  BY <1>1, <1>2, <1>3, StepsAre DEF OtherStep

-----------------------------------------------------------------------------
LEMMA InitExportInv == ExportsInit => ExportInv
<1> SUFFICES ASSUME ExportsInit PROVE ExportInv
  OBVIOUS
<1>1. Init /\ \A w \in Workers : job[w] = NoJob
  BY DEF ExportsInit
<1>2. \A w \in Workers : job[w].step = "none" /\ job[w].rows = {}
  BY <1>1 DEF NoJob
<1>3. archive = {}
  BY DEF ExportsInit
<1>4. FilesInv
  BY <1>2, <1>3 DEF FilesInv, OneTaker, FilesWritten, ArchivedFilesExist, Writing
<1>5. RowsTrue
  BY <1>2, <1>3 DEF RowsTrue
<1>6. IssuedInMonth
  BY <1>1 DEF Init, Idle, IssuedInMonth
<1>7. Complete
  BY <1>2 DEF Complete, RightFor
<1> QED
  BY <1>1, <1>4, <1>5, <1>6, <1>7, InitInv, InitTypes DEF ExportInv

LEMMA NextExportInv == ExportInv /\ [ExportsNext]_exportVars => ExportInv'
<1> SUFFICES ASSUME ExportInv, [ExportsNext]_exportVars PROVE ExportInv'
  OBVIOUS
<1>1. Inv /\ ExportTypes /\ FilesInv /\ RowsTrue /\ IssuedInMonth /\ Complete
  BY DEF ExportInv
<1>2. Inv' /\ IssuedInMonth'
  BY <1>1, ExportsNumber, NextKeeps, StepIssued
<1>3. CASE ExportsNext
  <2>1. ExportTypes'
    BY <1>1, <1>3, StepsAre, WorkerTypes, OtherTypes
  <2> QED
    BY <1>1, <1>2, <1>3, <2>1, StepFiles, StepRows, StepComplete DEF ExportInv
<1>4. CASE UNCHANGED exportVars
  <2>1. /\ job' = job /\ files' = files /\ archive' = archive /\ asked' = asked
        /\ payments' = payments /\ sequence' = sequence /\ req' = req /\ clock' = clock
    BY <1>4 DEF exportVars, vars
  <2>2. ExportTypes'
    BY <1>1, <2>1 DEF ExportTypes, JobOK, Step, At, Writing
  <2>3. FilesInv'
    BY <1>1, <2>1 DEF FilesInv, OneTaker, FilesWritten, ArchivedFilesExist, Writing, Snapshot
  <2>4. RowsTrue'
    BY <1>1, <2>1 DEF RowsTrue, TrueRow
  <2>5. Complete'
    BY <1>1, <2>1, RightStays DEF Complete
  <2> QED
    BY <1>2, <2>2, <2>3, <2>4, <2>5 DEF ExportInv
<1> QED
  BY <1>3, <1>4

LEMMA ExportsInvariant == ExportsSpec => []ExportInv
  BY InitExportInv, NextExportInv, PTL DEF ExportsSpec

\* Whatever requests overlap or die, their locals, the files and the archive keep
\* their types, and a request that numbers has its transaction or is about to
\* begin it.
THEOREM ExportsTypeCorrect == ExportsSpec => []ExportsTypeOK
<1>1. ExportInv => ExportsTypeOK
  <2> SUFFICES ASSUME ExportInv PROVE ExportsTypeOK
    OBVIOUS
  <2>1. ExportTypes
    BY DEF ExportInv
  <2>2. ASSUME NEW w \in Workers
        PROVE  /\ job[w].step \in {"none", "number", "rows", "exceptions", "render",
                                   "json", "pdf", "row"}
               /\ job[w].touched \subseteq Payments /\ job[w].exceptions \subseteq Payments
               /\ job[w].name # <<>> => job[w].name \in Names
               /\ Step(w, "number") <=> ~At(w, "idle")
    BY <2>1 DEF ExportTypes, JobOK, Job
  <2> QED
    BY <2>1, <2>2 DEF ExportsTypeOK, ExportTypes
<1> QED
  BY <1>1, ExportsInvariant, PTL

\* The archive never lists an export whose files are not there; they are the ones of
\* the row if no other export took their name.
THEOREM ArchiveHasItsFiles == ExportsSpec => []ArchivedFilesExist
<1>1. ExportInv => ArchivedFilesExist
  BY DEF ExportInv, FilesInv
<1> QED
  BY <1>1, ExportsInvariant, PTL

\* All exports of all times agree on the number of a payment and on the payment of a
\* number.
THEOREM AllExportsAgree == ExportsSpec => []ArchivesAgree
<1>1. ExportInv => ArchivesAgree
  <2> SUFFICES ASSUME ExportInv, NEW a \in RowsArchived, NEW b \in RowsArchived,
                      a.number # 0, b.number # 0
      PROVE  a.id = b.id <=> (a.number = b.number /\ a.period = b.period)
    BY DEF ArchivesAgree
  <2>1. ASSUME NEW r \in RowsArchived PROVE r \in Row /\ TrueRow(r)
    <3>1. PICK row \in archive : r \in row.content.rows
      BY DEF RowsArchived, Contents
    <3>2. row.content.rows \subseteq Row
      BY DEF ExportInv, ExportTypes, Content
    <3> QED
      BY <3>1, <3>2 DEF ExportInv, RowsTrue
  <2>2. /\ a.id \in Payments /\ payments[a.id].number = a.number
        /\ payments[a.id].period = a.period
        /\ b.id \in Payments /\ payments[b.id].number = b.number
        /\ payments[b.id].period = b.period
    BY <2>1 DEF TrueRow, Row
  <2> QED
    BY <2>2 DEF ExportInv, Inv, NumberedOnce
<1> QED
  BY <1>1, ExportsInvariant, PTL

\* An export lists every payment of its period that nobody wrote while it was made,
\* each under a number of its month, and its exceptions are the rides without a PAID
\* payment, whatever other exports did meanwhile.
THEOREM ExportsAreComplete == ExportsSpec => ExportIsComplete
<1> DEFINE Covers(w, t) == job[w].from <= t /\ t < job[w].to
           Listed(w, p) == {r \in job[w].rows : r.id = p}
           Told(w) ==
               \A p \in Payments \ job[w].touched :
                  /\ Listed(w, p) # {} <=>
                        payments[p].status = "PAID" /\ Covers(w, payments[p].capturedAt)
                  /\ \A r \in Listed(w, p) : r.number # 0 /\ r.period = Month(job[w].from)
                  /\ p \in job[w].exceptions <=>
                        payments[p].status # "PAID" /\ Covers(w, Ended[p])
           Act == \A w \in Workers :
                     Step(w, "row") /\ Step(w, "none")' /\ archive' # archive => Told(w)
<1>1. ExportInv => Act
  <2> SUFFICES ASSUME ExportInv, NEW w \in Workers, Step(w, "row"),
                      NEW p \in Payments \ job[w].touched
      PROVE  /\ Listed(w, p) # {} <=>
                   payments[p].status = "PAID" /\ Covers(w, payments[p].capturedAt)
             /\ \A r \in Listed(w, p) : r.number # 0 /\ r.period = Month(job[w].from)
             /\ p \in job[w].exceptions <=>
                   payments[p].status # "PAID" /\ Covers(w, Ended[p])
    BY DEF Step
  <2>1. ListedRight(w, p) /\ ExcusedRight(w, p)
    BY DEF ExportInv, Complete, RightFor, Step
  <2>2. InWindow(w, p) <=>
           payments[p].status = "PAID" /\ Covers(w, payments[p].capturedAt)
    BY DEF InWindow, Within, ExportInv, ExportTypes, Job, Inv, TypeOK, PaymentRow
  <2> QED
    BY <2>1, <2>2 DEF ListedRight, ExcusedRight
<1>2. ExportInv => [Act]_exportVars
  BY <1>1
<1> QED
  BY <1>2, ExportsInvariant, PTL DEF ExportIsComplete
=============================================================================
