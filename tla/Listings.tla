------------------------------ MODULE Listings ------------------------------
(***************************************************************************)
(* The two cursor-paged admin listings: PaymentsTransactionsService        *)
(* .getPaymentsList and NewRidesService.getRidesList.  A client opens a    *)
(* listing and follows its cursors while other requests insert rows and    *)
(* change them; each page is one SELECT.                                   *)
(*                                                                         *)
(* A row is reduced to what selects and orders it: its creation time (set  *)
(* once), the value of the sorted column, and whether the filters keep it. *)
(***************************************************************************)
EXTENDS Integers, FiniteSets, Sequences, SequencesExt, FiniteSetsExt

CONSTANTS
    Ids,        \* row ids, ordered as numbers (bound on the table)
    Created,    \* createdAt of each id
    Values,     \* values of the other columns
    Limits,     \* page sizes clients ask for
    Columns,    \* kinds of columns clients sort by
    MaxChanges, \* bound on the writes of other requests during a walk
    MaxBacks    \* bound on how often the client goes back

Null == -1          \* SQL NULL
NoCursor == [value |-> Null, id |-> Null]

ASSUME IdsAssumption ==
    Ids \subseteq Nat /\ IsFiniteSet(Ids) /\ Created \in [Ids -> Nat]
ASSUME ValuesAssumption ==
    /\ Values \subseteq Nat \ {0} /\ IsFiniteSet(Values) /\ Values # {}
    /\ Limits \subseteq Nat \ {0}
ASSUME ColumnsAssumption == Columns \subseteq {"created", "changing", "nullable"}
ASSUME BoundsAssumption == {MaxChanges, MaxBacks} \subseteq Nat

(***************************************************************************)
(* "created" never changes (createdAt of payments); "changing" may change  *)
(* and is never NULL (amount; startedAt, which the promotion of a DRAFT    *)
(* ride sets again); "nullable" is NULL until a ride ends or a payment is  *)
(* captured (fareTotal, durationMin, distanceKm, capturedAt).              *)
(***************************************************************************)
Query == {q \in [list : {"payments", "rides"}, column : Columns, desc : BOOLEAN,
                 search : BOOLEAN, limit : Limits] :
            /\ q.column = "created" => q.list = "payments"
            /\ q.search => q.column # "nullable"}

VARIABLES
    rows,       \* the table: [show, value] of each id
    query,      \* the parameters of the client, the same for every page
    pages,      \* the pages the client has got, in order
    next, prev, \* the cursors of the last page
    dir,        \* the direction of the last request
    changed,    \* ids written by other requests since the listing was opened
    backs       \* how often the client has gone back

vars == <<rows, query, pages, next, prev, dir, changed, backs>>

\* show: "absent" (no such row), "listed" (every filter keeps it), "unsearched"
\* (only the text search drops it), "excluded" (another filter drops it).
Row == [show : {"absent", "listed", "unsearched", "excluded"},
        value : Values \cup {Null}]
Cursor == [value : Values \cup {Created[i] : i \in Ids} \cup {0}, id : Ids]

TypeOK ==
    /\ rows \in [Ids -> Row]
    /\ query \in Query
    /\ pages \in Seq(Seq(Ids))
    /\ {next, prev} \subseteq Cursor \cup {NoCursor}
    /\ dir \in {"next", "prev"}
    /\ changed \subseteq Ids
    /\ backs \in 0..MaxBacks

Init ==
    /\ query \in Query
    /\ rows \in [Ids -> [show : {"listed", IF query.search THEN "unsearched" ELSE "absent"},
                         value : CASE query.column = "created"  -> {Null}
                                   [] query.column = "changing"   -> Values
                                   [] query.column = "nullable" -> Values \cup {Null}]]
    /\ pages = <<>>
    /\ next = NoCursor /\ prev = NoCursor /\ dir = "next"
    /\ changed = {} /\ backs = 0

-----------------------------------------------------------------------------
Key(id) == IF query.column = "created" THEN Created[id] ELSE rows[id].value

Less(x, y) == x[1] < y[1] \/ (x[1] = y[1] /\ x[2] < y[2])

\* ORDER BY column, id: PostgreSQL sorts NULL as the largest value.
Top == Max(Values) + 1
Position(id) == <<IF Key(id) = Null THEN Top ELSE Key(id), id>>
Before(a, b) == IF query.desc THEN Less(Position(b), Position(a))
                              ELSE Less(Position(a), Position(b))
InOrder(S) ==
    [i \in 1..Cardinality(S) |->
        CHOOSE a \in S : Cardinality({b \in S : Before(b, a)}) = i - 1]

\* The filters of the first page.
Matches(id) == rows[id].show \in {"listed"} \cup IF query.search THEN {} ELSE {"unsearched"}

\* Mutant: the row of the cursor is selected again.
Beyond_Inclusive(cursor, d, id) ==
    LET here == <<Key(id), id>>  there == <<cursor.value, cursor.id>>
    IN  here = there \/ IF query.desc = (d = "next") THEN Less(here, there) ELSE Less(there, here)

\* Mutant: the comparison of the ids is left out.
Beyond_NoTieBreak(cursor, d, id) ==
    IF query.desc = (d = "next") THEN Key(id) < cursor.value ELSE Key(id) > cursor.value

\* The cursor condition; a comparison with NULL is not true.
Beyond(cursor, d, id) ==
    LET here == <<Key(id), id>>  there == <<cursor.value, cursor.id>>
    IN  /\ Key(id) # Null
        /\ IF query.desc = (d = "next") THEN Less(here, there) ELSE Less(there, here)

\* The cursor condition and the text search are both called OR, and the
\* spread of the former replaces the latter: later pages are not searched.
Selected(cursor, d) ==
    IF cursor = NoCursor
      THEN {id \in Ids : Matches(id)}
      ELSE {id \in Ids : rows[id].show \in {"listed", "unsearched"} /\ Beyond(cursor, d, id)}

\* take limit + 1, or -(limit + 1): the rows next to the cursor, in list order.
Taken(cursor, d) ==
    LET found == InOrder(Selected(cursor, d))
        n == Len(found)
    IN  IF n <= query.limit + 1 THEN found
        ELSE IF d = "next" THEN SubSeq(found, 1, query.limit + 1)
                           ELSE SubSeq(found, n - query.limit, n)

More(taken) == Len(taken) > query.limit

\* Mutant: the extra row is dropped from the other end.
Shown_WrongEnd(taken, d) ==
    IF More(taken) THEN SubSeq(taken, 1, query.limit) ELSE taken

\* Both listings reverse a page they have gone back to, which was in list
\* order already.
Shown(taken, d) ==
    IF d = "prev" THEN Reverse(IF More(taken) THEN Tail(taken) ELSE taken)
    ELSE IF More(taken) THEN SubSeq(taken, 1, query.limit) ELSE taken

\* Mutant: the cursor is the sorted value alone.
CursorOf_ValueOnly(id) == [value |-> Key(id), id |-> Null]

\* A NULL is encoded as the creation time (payments) or as zero (rides).
CursorOf(id) ==
    [value |-> IF Key(id) # Null THEN Key(id)
               ELSE IF query.list = "payments" THEN Created[id] ELSE 0,
     id |-> id]

\* hasNext and hasPrev of getPaymentsList.
PaymentsNext(cursor, d, taken) == IF d = "next" THEN More(taken) ELSE cursor # NoCursor
PaymentsPrev(cursor, d, taken) == IF d = "prev" THEN More(taken) ELSE cursor # NoCursor

\* generatePageInfo: a page that was gone back to has no previous page, a first
\* page has one.
RidesNext(taken) == More(taken)
RidesPrev(d) == d = "next"

HasNext(cursor, d, taken) == IF query.list = "payments" THEN PaymentsNext(cursor, d, taken)
                                                        ELSE RidesNext(taken)
HasPrev(cursor, d, taken) == IF query.list = "payments" THEN PaymentsPrev(cursor, d, taken)
                                                        ELSE RidesPrev(d)

\* getPaymentsList and getRidesList.
GetPage(cursor, d) ==
    LET taken == Taken(cursor, d)
        shown == Shown(taken, d)
    IN  /\ pages' = Append(pages, shown)
        /\ next' = IF shown # <<>> /\ HasNext(cursor, d, taken)
                     THEN CursorOf(Last(shown)) ELSE NoCursor
        /\ prev' = IF shown # <<>> /\ HasPrev(cursor, d, taken)
                     THEN CursorOf(Head(shown)) ELSE NoCursor
        /\ dir' = d
        /\ UNCHANGED <<rows, query, changed>>

Open == pages = <<>> /\ GetPage(NoCursor, "next") /\ UNCHANGED backs

Forward == next # NoCursor /\ GetPage(next, "next") /\ UNCHANGED backs

Back ==
    /\ prev # NoCursor
    /\ backs < MaxBacks
    /\ GetPage(prev, "prev")
    /\ backs' = backs + 1

-----------------------------------------------------------------------------
\* A write of another request; pages already got are not affected.
Write(id, row) ==
    /\ pages # <<>>
    /\ Cardinality(changed) < MaxChanges
    /\ rows' = [rows EXCEPT ![id] = row]
    /\ changed' = changed \cup {id}
    /\ UNCHANGED <<query, pages, next, prev, dir, backs>>

\* startRide, endRide and the admin create insert a row.
Insert(id) ==
    /\ rows[id].show = "absent"
    /\ \E row \in [show : {"listed", "unsearched"}, value : {rows[id].value}] : Write(id, row)

\* A status, driver or external id changes, or the row is deleted.
Refilter(id) ==
    /\ rows[id].show # "absent"
    /\ \E show \in {"listed", "unsearched", "excluded"} \ {rows[id].show} :
         Write(id, [rows[id] EXCEPT !.show = show])

\* The sorted column is set or set again: a fare, an amount, a start, a capture.
Revalue(id) ==
    /\ rows[id].show # "absent" /\ query.column # "created"
    /\ \E v \in Values \ {rows[id].value} : Write(id, [rows[id] EXCEPT !.value = v])

Next ==
    \/ Open \/ Forward \/ Back
    \/ \E id \in Ids : Insert(id) \/ Refilter(id) \/ Revalue(id)

Spec == Init /\ [][Next]_vars

-----------------------------------------------------------------------------
OnePass == backs = 0
AtEnd == pages # <<>> /\ next = NoCursor
OnPages == {n \in (1..Len(pages)) \X Ids : \E k \in 1..Len(pages[n[1]]) : pages[n[1]][k] = n[2]}

\* No NULL has been among the sorted values since the listing was opened; where a
\* value can be NULL, a row that was changed may have had one before.
NullFree ==
    query.column # "nullable" \/ (changed = {} /\ \A id \in Ids : rows[id].value # Null)

\* Following the next cursor shows no row a second time, unless the sorted value
\* of the row itself was changed meanwhile: the cursor is a position, and no
\* insertion or removal moves the rows around it.
NoRowTwice ==
    OnePass /\ NullFree =>
        \A m, n \in OnPages :
            m[2] = n[2] /\ (m[2] \notin changed \/ query.column = "created") => m = n

\* A row that was in the list all the time is on some page by the end, however
\* rows before and after it come and go, and also in a searched list whose later
\* pages have lost their search.
NothingSkipped ==
    OnePass /\ AtEnd /\ NullFree =>
        \A id \in Ids \ changed : Matches(id) => \E n \in OnPages : n[2] = id

\* Going back from a page shows the page before it upside down, if nothing has
\* changed: the same rows, each once, from the last to the first, though the
\* documentation shows them in list order.  Not in a searched list, whose search
\* the way back drops.
BackReverses ==
    dir = "prev" /\ backs = 1 /\ changed = {} /\ NullFree /\ ~query.search /\ Len(pages) > 2
        => LET n == Len(pages) IN pages[n] = Reverse(pages[n - 2])

\* With nothing changed, the pages partition the list, whatever it is sorted by:
\* "This handles NULL values and ensures stable pagination".
StablePagination ==
    OnePass /\ changed = {} /\ ~query.search =>
        /\ \A m, n \in OnPages : m[2] = n[2] => m = n
        /\ AtEnd => \A id \in Ids : Matches(id) => \E n \in OnPages : n[2] = id
=============================================================================
