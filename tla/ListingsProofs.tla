--------------------------- MODULE ListingsProofs ---------------------------
(***************************************************************************)
(* For any rows, values, page sizes and writes of others: a walk through   *)
(* the pages of a listing shows no row twice and leaves none out, and      *)
(* going back returns the page before, upside down.                        *)
(*                                                                         *)
(* Sorting first: the place of a row in the list is the number of rows     *)
(* before it.  Then the walk: every row on a page is at or before the      *)
(* cursor, every row of the list that is on none is after it.              *)
(***************************************************************************)
EXTENDS Listings, SequenceTheorems, FiniteSetTheorems, TLAPS

Table == rows \in [Ids -> Row] /\ query \in Query

-----------------------------------------------------------------------------
\* A finite set with a strict total order: its elements have the ranks from 0 on.
Orders(R, S) ==
    /\ \A a \in S : <<a, a>> \notin R
    /\ \A a, b, c \in S : <<a, b>> \in R /\ <<b, c>> \in R => <<a, c>> \in R
    /\ \A a, b \in S : a = b \/ <<a, b>> \in R \/ <<b, a>> \in R

Rank(R, S, a) == Cardinality({b \in S : <<b, a>> \in R})

LEMMA RanksGrow ==
    ASSUME NEW S, NEW R, IsFiniteSet(S), Orders(R, S)
    PROVE  /\ \A a \in S : Rank(R, S, a) \in 0..(Cardinality(S) - 1)
           /\ \A a, b \in S : <<a, b>> \in R => Rank(R, S, a) < Rank(R, S, b)
<1> DEFINE Low(a) == {b \in S : <<b, a>> \in R}
<1>1. Cardinality(S) \in Nat
  BY FS_CardinalityType
<1>2. ASSUME NEW a \in S
      PROVE  IsFiniteSet(Low(a)) /\ Cardinality(Low(a)) \in Nat
  <2>1. Low(a) \in SUBSET S
    OBVIOUS
  <2>2. IsFiniteSet(Low(a))
    BY <2>1, FS_Subset
  <2> QED
    BY <2>2, FS_CardinalityType
<1>3. ASSUME NEW a \in S, NEW T, IsFiniteSet(T), a \in T, Low(a) \subseteq T
      PROVE  Cardinality(Low(a)) <= Cardinality(T) - 1
  <2>1. IsFiniteSet(T \ {a}) /\ Cardinality(T \ {a}) = Cardinality(T) - 1
    BY <1>3, FS_RemoveElement
  <2>2. Low(a) \in SUBSET (T \ {a})
    BY <1>3 DEF Orders
  <2> QED
    BY <2>1, <2>2, FS_Subset
<1>4. ASSUME NEW a \in S PROVE Rank(R, S, a) \in 0..(Cardinality(S) - 1)
  <2>1. Cardinality(Low(a)) <= Cardinality(S) - 1
    BY <1>3
  <2> QED
    BY <1>1, <1>2, <2>1 DEF Rank
<1>5. ASSUME NEW a \in S, NEW b \in S, <<a, b>> \in R PROVE Rank(R, S, a) < Rank(R, S, b)
  <2>1. Low(a) \subseteq Low(b) /\ a \in Low(b)
    BY <1>5 DEF Orders
  <2>2. Cardinality(Low(a)) <= Cardinality(Low(b)) - 1
    BY <1>2, <1>3, <2>1
  <2> QED
    BY <1>2, <2>2 DEF Rank
<1> QED
  BY <1>4, <1>5

\* The rows of a finite injective sequence.
LEMMA RowsOf ==
    ASSUME NEW S, NEW s \in Seq(S), \A j, k \in 1..Len(s) : s[j] = s[k] => j = k
    PROVE  /\ ToSet(s) = {s[k] : k \in 1..Len(s)}
           /\ IsFiniteSet(ToSet(s)) /\ Cardinality(ToSet(s)) = Len(s)
<1>1. ToSet(s) = {s[k] : k \in 1..Len(s)} /\ Len(s) \in Nat
  <2>1. DOMAIN s = 1..Len(s)
    OBVIOUS
  <2> QED
    BY <2>1 DEF ToSet
<1>2. IsFiniteSet(1..Len(s)) /\ Cardinality(1..Len(s)) = Len(s)
  <2>1. \A n \in Nat : IsFiniteSet(1..n) /\ Cardinality(1..n) = n
    BY FS_Interval
  <2> QED
    BY <1>1, <2>1
<1>3. s \in [1..Len(s) -> ToSet(s)]
  BY <1>1
<1>4. s \in Surjection(1..Len(s), ToSet(s)) /\ s \in Injection(1..Len(s), ToSet(s))
  BY <1>1, <1>3 DEF Injection, Surjection, IsInjective
<1> QED
  BY <1>1, <1>2, <1>4, FS_Surjection

\* s lists the elements of S in their order.
Lined(R, S, s) ==
    /\ s \in Seq(S)
    /\ \A j, k \in 1..Len(s) : j < k => <<s[j], s[k]>> \in R
    /\ \A a \in S : \E k \in 1..Len(s) : s[k] = a

\* The order gives an element its place in the list ...
LEMMA RankOfPlace ==
    ASSUME NEW S, NEW R, Orders(R, S), NEW s, Lined(R, S, s)
    PROVE  \A k \in 1..Len(s) : Rank(R, S, s[k]) = k - 1
<1> SUFFICES ASSUME NEW k \in 1..Len(s) PROVE Rank(R, S, s[k]) = k - 1
  OBVIOUS
<1> DEFINE low == [j \in 1..(k - 1) |-> s[j]]
           Low == {b \in S : <<b, s[k]>> \in R}
<1>1. /\ Len(s) \in Nat /\ k \in Nat /\ k - 1 \in Nat
      /\ \A j \in 1..Len(s) : s[j] \in S
      /\ \A j \in 1..(k - 1) : j \in 1..Len(s) /\ j < k
  BY DEF Lined
<1>2. low \in Seq(S) /\ Len(low) = k - 1
  BY <1>1
<1>3. \A i, j \in 1..Len(s) : s[i] = s[j] => i = j
  <2> SUFFICES ASSUME NEW i \in 1..Len(s), NEW j \in 1..Len(s), s[i] = s[j], i # j PROVE FALSE
    OBVIOUS
  <2>1. i < j \/ j < i
    BY <1>1
  <2> QED
    BY <1>1, <2>1 DEF Orders, Lined
<1>4. \A i, j \in 1..Len(low) : low[i] = low[j] => i = j
  BY <1>1, <1>2, <1>3
<1>5. ToSet(low) = {low[j] : j \in 1..(k - 1)} /\ Cardinality(ToSet(low)) = k - 1
  BY <1>2, <1>4, RowsOf
<1>6. ASSUME NEW j \in 1..Len(s) PROVE <<s[j], s[k]>> \in R <=> j < k
  <2>1. j < k \/ j = k \/ k < j
    BY <1>1
  <2> QED
    BY <1>1, <2>1 DEF Orders, Lined
<1>7. Low = {low[j] : j \in 1..(k - 1)}
  <2>1. ASSUME NEW b \in Low PROVE b \in {low[j] : j \in 1..(k - 1)}
    <3>1. PICK j \in 1..Len(s) : s[j] = b
      BY DEF Lined
    <3>2. j \in 1..(k - 1) /\ low[j] = b
      BY <1>1, <1>6, <3>1
    <3> QED
      BY <3>2
  <2>2. \A j \in 1..(k - 1) : low[j] \in Low
    BY <1>1 DEF Lined
  <2> QED
    BY <2>1, <2>2
<1> QED
  BY <1>5, <1>7 DEF Rank

\* ... so that a set is listed from the last to the first in one way only.
LEMMA OneWayBack ==
    ASSUME NEW S, NEW R, IsFiniteSet(S), Orders(R, S), NEW s, Lined(R, S, s), NEW t \in Seq(S),
           \A j, k \in 1..Len(t) : j < k => <<t[k], t[j]>> \in R,
           \A a \in S : \E k \in 1..Len(t) : t[k] = a,
           Len(s) = Len(t)
    PROVE  t = Reverse(s)
<1> DEFINE n == Len(s)
           u == [k \in 1..n |-> t[n + 1 - k]]
<1>1. n \in Nat /\ \A k \in 1..n : n + 1 - k \in 1..n /\ n + 1 - (n + 1 - k) = k
  <2>1. n \in Nat
    BY DEF Lined
  <2> HIDE DEF n
  <2> QED
    BY <2>1
<1>2. u \in Seq(S) /\ Len(u) = n
  BY <1>1
<1>3. \A j, k \in 1..Len(u) : j < k => <<u[j], u[k]>> \in R
  <2> SUFFICES ASSUME NEW j \in 1..n, NEW k \in 1..n, j < k
               PROVE  <<t[n + 1 - j], t[n + 1 - k]>> \in R
    BY <1>2
  <2>1. n + 1 - j \in 1..Len(t) /\ n + 1 - k \in 1..Len(t) /\ n + 1 - k < n + 1 - j
    BY <1>1
  <2> QED
    BY <2>1
<1>4. \A a \in S : \E k \in 1..Len(u) : u[k] = a
  <2> SUFFICES ASSUME NEW a \in S PROVE \E k \in 1..n : u[k] = a
    BY <1>2
  <2>1. PICK j \in 1..n : t[j] = a
    OBVIOUS
  <2>2. n + 1 - j \in 1..n /\ u[n + 1 - j] = a
    BY <1>1, <2>1
  <2> QED
    BY <2>2
<1>5. \A k \in 1..n : Rank(R, S, s[k]) = k - 1
  BY RankOfPlace
<1>6. \A k \in 1..n : Rank(R, S, u[k]) = k - 1
  <2> HIDE DEF u
  <2>1. Lined(R, S, u)
    BY <1>2, <1>3, <1>4 DEF Lined
  <2>2. \A k \in 1..Len(u) : Rank(R, S, u[k]) = k - 1
    BY <2>1, RankOfPlace
  <2> QED
    BY <1>2, <2>2
<1>7. \A k \in 1..n : s[k] \in S /\ u[k] \in S
  <2> HIDE DEF u
  <2>1. \A k \in 1..Len(u) : u[k] \in S
    BY <1>2
  <2>2. \A k \in 1..Len(s) : s[k] \in S
    BY DEF Lined
  <2> QED
    BY <1>2, <2>1, <2>2
<1> HIDE DEF u
<1>8. ASSUME NEW k \in 1..n PROVE u[k] = s[k]
  <2>1. s[k] \in S /\ u[k] \in S /\ Rank(R, S, s[k]) = Rank(R, S, u[k])
    BY <1>5, <1>6, <1>7
  <2>2. Rank(R, S, s[k]) \in Int
    BY <1>1, <1>5
  <2>3. \A a, b \in S : <<a, b>> \in R => Rank(R, S, a) < Rank(R, S, b)
    BY RanksGrow
  <2>4. PICK a, b, i : a = s[k] /\ b = u[k] /\ i = Rank(R, S, a)
    OBVIOUS
  <2>5. <<a, b>> \notin R /\ <<b, a>> \notin R
    BY <2>1, <2>2, <2>3, <2>4
  <2> QED
    BY <2>1, <2>4, <2>5 DEF Orders
<1>9. ASSUME NEW k \in 1..n PROVE t[k] = s[n - k + 1]
  <2>1. n + 1 - k \in 1..n /\ n + 1 - (n + 1 - k) = k /\ n + 1 - k = n - k + 1
    BY <1>1
  <2>2. u[n + 1 - k] = t[k]
    BY <2>1 DEF u
  <2> QED
    BY <1>8, <2>1, <2>2
<1>10. t = [k \in 1..n |-> t[k]]
  OBVIOUS
<1> QED
  BY <1>9, <1>10 DEF Reverse

LEMMA RanksAreTaken ==
    ASSUME NEW S, NEW R, IsFiniteSet(S), Orders(R, S)
    PROVE  \A i \in 0..(Cardinality(S) - 1) : \E a \in S : Rank(R, S, a) = i
<1> DEFINE n == Cardinality(S)
           T == 0..(n - 1)
           f == [a \in S |-> Rank(R, S, a)]
<1>1. n \in Nat
  BY FS_CardinalityType
<1>2. IsFiniteSet(T) /\ Cardinality(T) = n
  BY <1>1, FS_Interval
<1>3. f \in [S -> T]
  BY RanksGrow
<1>4. \A a, b \in S : f[a] = f[b] => a = b
  <2> SUFFICES ASSUME NEW a \in S, NEW b \in S, Rank(R, S, a) = Rank(R, S, b), a # b PROVE FALSE
    OBVIOUS
  <2>1. <<a, b>> \in R \/ <<b, a>> \in R
    BY DEF Orders
  <2>2. Rank(R, S, a) \in Int /\ Rank(R, S, b) \in Int
    BY <1>1, RanksGrow
  <2> QED
    BY <2>1, <2>2, RanksGrow
<1>5. f \in Injection(S, T)
  BY <1>3, <1>4 DEF Injection, IsInjective
<1>6. f \in Surjection(S, T)
  BY <1>2, <1>5, FS_Injection
<1> QED
  BY <1>6 DEF Surjection

LEMMA MaxIsIn ==
    ASSUME NEW S \in SUBSET Int, IsFiniteSet(S), S # {}
    PROVE  Max(S) \in S /\ \A x \in S : x <= Max(S)
<1>1. PICK R : \A a, b \in S : <<a, b>> \in R <=> a < b
  <2> WITNESS {p \in S \X S : p[1] < p[2]}
  <2> QED
    OBVIOUS
<1>2. Orders(R, S)
  BY <1>1 DEF Orders
<1>3. Cardinality(S) \in Nat \ {0}
  BY FS_CardinalityType, FS_EmptySet
<1>4. PICK a \in S : Rank(R, S, a) = Cardinality(S) - 1
  <2>1. \A Q : Orders(Q, S) => \A i \in 0..(Cardinality(S) - 1) : \E a \in S : Rank(Q, S, a) = i
    <3> SUFFICES ASSUME NEW Q, Orders(Q, S)
                 PROVE  \A i \in 0..(Cardinality(S) - 1) : \E a \in S : Rank(Q, S, a) = i
      OBVIOUS
    <3> QED
      BY ONLY IsFiniteSet(S), Orders(Q, S), RanksAreTaken
  <2>2. Cardinality(S) - 1 \in 0..(Cardinality(S) - 1)
    BY <1>3
  <2> QED
    BY <1>2, <2>1, <2>2
<1>5. ASSUME NEW b \in S PROVE a >= b
  <2> SUFFICES ASSUME a < b PROVE FALSE
    OBVIOUS
  <2>1. Rank(R, S, a) < Rank(R, S, b) /\ Rank(R, S, b) \in 0..(Cardinality(S) - 1)
    BY <1>1, <1>2, RanksGrow
  <2> QED
    BY <1>3, <1>4, <2>1
<1>6. Max(S) \in S /\ \A y \in S : Max(S) >= y
  BY <1>4, <1>5 DEF Max
<1> QED
  BY <1>6

-----------------------------------------------------------------------------
(***************************************************************************)
(* The walk.  SeenIsBehind and LeftIsAhead say what the cursor divides;    *)
(* Blocks, for a table nobody writes to, that the last page and the one    *)
(* before it are neighbouring blocks of the list.                          *)
(***************************************************************************)
ValuesKept == query.column = "changing" => \A id \in Ids : rows[id].value \in Values

Unopened == pages = <<>> => next = NoCursor /\ prev = NoCursor /\ changed = {}

Fixed(id) == id \notin changed \/ query.column = "created"

SeenIsBehind ==
    OnePass /\ NullFree /\ next # NoCursor =>
        \A n \in OnPages : Fixed(n[2]) => ~Beyond(next, "next", n[2])

LeftIsAhead ==
    OnePass /\ NullFree /\ pages # <<>> =>
        \A id \in Ids \ changed : Matches(id) =>
            (\E n \in OnPages : n[2] = id) \/ (next # NoCursor /\ Beyond(next, "next", id))

Still == OnePass /\ NullFree /\ changed = {} /\ ~query.search

\* A page of consecutive rows of the list, in its order.
Block(page) ==
    /\ \A k \in 1..Len(page) : Matches(page[k])
    /\ \A j, k \in 1..Len(page) : j < k => Before(page[j], page[k])
    /\ \A b \in Ids : Matches(b) =>
         \/ \E k \in 1..Len(page) : page[k] = b
         \/ \A k \in 1..Len(page) : Before(b, page[k])
         \/ \A k \in 1..Len(page) : Before(page[k], b)

\* The rows of a full page are the last ones of the list before a row.
JustBefore(page, row) ==
    /\ Len(page) = query.limit
    /\ \A j, k \in 1..Len(page) : j < k => Before(page[j], page[k])
    /\ \A k \in 1..Len(page) : Matches(page[k]) /\ Before(page[k], row)
    /\ \A b \in Ids : Matches(b) /\ Before(b, row) =>
         \/ \E k \in 1..Len(page) : page[k] = b
         \/ \A k \in 1..Len(page) : Before(b, page[k])

Blocks ==
    Still /\ pages # <<>> =>
        LET n == Len(pages)  page == pages[n]
        IN  /\ Block(page)
            /\ next # NoCursor => Len(page) = query.limit /\ next = CursorOf(page[Len(page)])
            /\ prev # NoCursor => page # <<>> /\ prev = CursorOf(page[1])
            /\ n > 1 /\ page # <<>> => JustBefore(pages[n - 1], page[1])

-----------------------------------------------------------------------------
(***************************************************************************)
(* The order of the list.                                                  *)
(***************************************************************************)
Place(id) == IF Key(id) = Null THEN Top ELSE Key(id)

LEMMA PlaceIs ==
    ASSUME Table, NEW id \in Ids
    PROVE  /\ Place(id) \in Int /\ id \in Nat
           /\ Key(id) \in Nat \cup {Null}
           /\ Key(id) # Null => Place(id) = Key(id)
<1>1. Top \in Int
  <2>1. Values \in SUBSET Int /\ Values # {} /\ IsFiniteSet(Values)
    BY ValuesAssumption
  <2>2. Max(Values) \in Values
    BY <2>1, MaxIsIn
  <2>3. Max(Values) \in Int
    BY <2>1, <2>2
  <2> QED
    BY <2>3 DEF Top
<1>2. Key(id) \in Nat \cup {Null}
  BY IdsAssumption, ValuesAssumption DEF Table, Row, Key
<1> QED
  BY <1>1, <1>2, IdsAssumption DEF Place, Null

LEMMA BeforeIs ==
    ASSUME NEW a \in Ids, NEW b \in Ids
    PROVE  Before(a, b) <=>
             \/ query.desc /\ (Place(b) < Place(a) \/ (Place(b) = Place(a) /\ b < a))
             \/ ~query.desc /\ (Place(a) < Place(b) \/ (Place(a) = Place(b) /\ a < b))
BY DEF Before, Less, Position, Place

LEMMA BeforeIsOrder ==
    ASSUME Table
    PROVE  /\ \A a \in Ids : ~Before(a, a)
           /\ \A a, b, c \in Ids : Before(a, b) /\ Before(b, c) => Before(a, c)
           /\ \A a, b \in Ids : a = b \/ Before(a, b) \/ Before(b, a)
<1>1. ASSUME NEW a \in Ids PROVE Place(a) \in Int /\ a \in Int
  BY PlaceIs
<1>2. ASSUME NEW a \in Ids PROVE ~Before(a, a)
  BY <1>1, BeforeIs
<1>3. ASSUME NEW a \in Ids, NEW b \in Ids, NEW c \in Ids, Before(a, b), Before(b, c)
      PROVE  Before(a, c)
  BY <1>1, <1>3, BeforeIs
<1>4. ASSUME NEW a \in Ids, NEW b \in Ids PROVE a = b \/ Before(a, b) \/ Before(b, a)
  BY <1>1, BeforeIs
<1> QED
  BY <1>2, <1>3, <1>4

\* A sequence of the rows of S in the order of the list.
Lists(s, S) ==
    /\ s \in Seq(S)
    /\ \A j, k \in 1..Len(s) : j < k => Before(s[j], s[k])
    /\ \A a \in S : \E k \in 1..Len(s) : s[k] = a

LEMMA InOrderIs ==
    ASSUME Table, NEW S \in SUBSET Ids
    PROVE  /\ Lists(InOrder(S), S)
           /\ Len(InOrder(S)) = Cardinality(S) /\ Cardinality(S) \in Nat
<1>1. PICK R : \A a, b \in S : <<a, b>> \in R <=> Before(a, b)
  <2> WITNESS {p \in S \X S : Before(p[1], p[2])}
  <2> QED
    OBVIOUS
<1>2. IsFiniteSet(S) /\ Cardinality(S) \in Nat
  BY IdsAssumption, FS_Subset, FS_CardinalityType
<1>3. Orders(R, S)
  BY <1>1, BeforeIsOrder DEF Orders
<1>4. ASSUME NEW a \in S PROVE Cardinality({b \in S : Before(b, a)}) = Rank(R, S, a)
  <2>1. {b \in S : Before(b, a)} = {b \in S : <<b, a>> \in R}
    BY <1>1
  <2> QED
    BY <2>1 DEF Rank
<1> DEFINE n == Cardinality(S)
           s == InOrder(S)
           At(a, i) == a \in S /\ Rank(R, S, a) = i - 1
<1>5. ASSUME NEW i \in 1..n PROVE At(CHOOSE a \in S : Rank(R, S, a) = i - 1, i)
  <2>1. i - 1 \in 0..(n - 1)
    BY <1>2
  <2>2. \E a \in S : Rank(R, S, a) = i - 1
    BY <1>2, <1>3, <2>1, RanksAreTaken
  <2> QED
    BY <2>2
<1>6. s = [i \in 1..n |-> CHOOSE a \in S : Rank(R, S, a) = i - 1]
  <2> DEFINE f(i) == CHOOSE a \in S : Cardinality({b \in S : Before(b, a)}) = i - 1
             g(i) == CHOOSE a \in S : Rank(R, S, a) = i - 1
  <2>1. \A i \in 1..n : f(i) = g(i)
    BY <1>4
  <2>2. s = [i \in 1..n |-> f(i)]
    BY DEF InOrder
  <2> HIDE DEF f, g, s, n
  <2>3. s = [i \in 1..n |-> g(i)]
    BY <2>1, <2>2
  <2> QED
    BY <2>3 DEF g
<1>7. /\ s \in [1..n -> S]
      /\ \A i \in 1..n : Rank(R, S, s[i]) = i - 1
  BY <1>5, <1>6
<1>8. s \in Seq(S) /\ Len(s) = n
  BY <1>2, <1>7
<1>9. \A a \in S : Rank(R, S, a) \in 0..(n - 1)
  BY <1>2, <1>3, RanksGrow
<1>10. \A a, b \in S : Before(a, b) => Rank(R, S, a) < Rank(R, S, b)
  BY <1>1, <1>2, <1>3, RanksGrow
<1> HIDE DEF s, n
<1>11. ASSUME NEW j \in 1..n, NEW k \in 1..n, j < k PROVE Before(s[j], s[k])
  <2>1. s[j] \in S /\ s[k] \in S /\ Rank(R, S, s[j]) = j - 1 /\ Rank(R, S, s[k]) = k - 1
    BY <1>7
  <2>2. s[j] # s[k] /\ ~Before(s[k], s[j])
    BY <1>10, <1>11, <2>1
  <2> QED
    BY <2>1, <2>2, BeforeIsOrder
<1>12. ASSUME NEW a \in S PROVE \E k \in 1..n : s[k] = a
  <2> DEFINE k == Rank(R, S, a) + 1
  <2>1. k \in 1..n
    BY <1>2, <1>9 DEF n
  <2>2. s[k] \in S /\ Rank(R, S, s[k]) = Rank(R, S, a) /\ Rank(R, S, a) \in Int
    BY <1>7, <1>9, <2>1
  <2>3. s[k] = a \/ Before(s[k], a) \/ Before(a, s[k])
    BY <2>2, BeforeIsOrder
  <2>4. s[k] = a
    BY <1>10, <2>2, <2>3
  <2> QED
    BY <2>1, <2>4
<1> QED
  BY <1>2, <1>8, <1>11, <1>12 DEF Lists, n, s

-----------------------------------------------------------------------------
(***************************************************************************)
(* What a request returns.                                                 *)
(***************************************************************************)
LEMMA SelectedIs == \A cursor, d : Selected(cursor, d) \in SUBSET Ids
BY DEF Selected

LEMMA LimitIs == query \in Query => query.limit \in Nat \ {0}
BY ValuesAssumption DEF Query

\* Forward: the first rows of the list of the selected ones.
LEMMA ShownNext ==
    ASSUME Table, NEW cursor
    PROVE  LET found == InOrder(Selected(cursor, "next"))
               taken == Taken(cursor, "next")
               shown == Shown(taken, "next")
           IN  /\ shown \in Seq(Selected(cursor, "next"))
               /\ IF More(taken) THEN Len(shown) = query.limit /\ Len(shown) < Len(found)
                                 ELSE Len(shown) = Len(found)
               /\ \A k \in 1..Len(shown) : shown[k] = found[k]
<1> DEFINE S == Selected(cursor, "next")
           found == InOrder(S)
           taken == Taken(cursor, "next")
           shown == Shown(taken, "next")
           n == Len(found)
           l == query.limit
<1>1. found \in Seq(S) /\ n \in Nat
  BY SelectedIs, InOrderIs DEF Lists
<1>2. l \in Nat \ {0}
  BY LimitIs DEF Table
<1>3. taken = IF n <= l + 1 THEN found ELSE SubSeq(found, 1, l + 1)
  BY DEF Taken
<1>4. shown = IF Len(taken) > l THEN SubSeq(taken, 1, l) ELSE taken
  BY DEF Shown, More
<1> HIDE DEF S, found, taken, shown, l
<1>5. CASE n <= l
  <2>1. shown = found /\ ~(Len(taken) > l)
    BY <1>1, <1>2, <1>3, <1>4, <1>5
  <2> QED
    BY <1>1, <2>1 DEF More, l, S, found, taken, shown
<1>6. CASE n > l
  <2>1. /\ taken \in Seq(S) /\ Len(taken) = l + 1
        /\ \A k \in 1..l : taken[k] = found[k]
    <3>1. CASE n = l + 1
      BY <1>1, <1>2, <1>3, <3>1
    <3>2. CASE n > l + 1
      <4>1. taken = SubSeq(found, 1, l + 1)
        BY <1>1, <1>2, <1>3, <3>2
      <4> QED
        BY <1>1, <1>2, <3>2, <4>1
    <3> QED
      BY <1>1, <1>2, <1>6, <3>1, <3>2
  <2>2. shown = SubSeq(taken, 1, l)
    BY <1>2, <1>4, <2>1
  <2>3. /\ shown \in Seq(S) /\ Len(shown) = l
        /\ \A k \in 1..l : shown[k] = taken[k]
    BY <1>2, <2>1, <2>2
  <2>4. \A k \in 1..l : shown[k] = found[k]
    BY <2>1, <2>3
  <2>5. More(taken)
    BY <1>2, <2>1 DEF More, l
  <2>6. Len(shown) = query.limit /\ Len(shown) < Len(found)
    BY <1>6, <2>3 DEF l
  <2> QED
    BY <2>3, <2>4, <2>5, <2>6 DEF l, S, found, taken, shown
<1> QED
  BY <1>1, <1>2, <1>5, <1>6

\* Back: the last rows, last first.
LEMMA ShownPrev ==
    ASSUME Table, NEW cursor
    PROVE  LET found == InOrder(Selected(cursor, "prev"))
               shown == Shown(Taken(cursor, "prev"), "prev")
               n == Len(found)
           IN  /\ shown \in Seq(Selected(cursor, "prev"))
               /\ Len(shown) = IF n > query.limit THEN query.limit ELSE n
               /\ \A k \in 1..Len(shown) : shown[k] = found[n + 1 - k]
<1> DEFINE S == Selected(cursor, "prev")
           found == InOrder(S)
           taken == Taken(cursor, "prev")
           rest == IF More(taken) THEN Tail(taken) ELSE taken
           shown == Shown(taken, "prev")
           n == Len(found)
           l == query.limit
<1>1. found \in Seq(S) /\ n \in Nat
  BY SelectedIs, InOrderIs DEF Lists
<1>2. l \in Nat \ {0}
  BY LimitIs DEF Table
<1>3. taken = IF n <= l + 1 THEN found ELSE SubSeq(found, n - l, n)
  BY DEF Taken
<1>4. shown = Reverse(rest) /\ rest = IF Len(taken) > l THEN Tail(taken) ELSE taken
  BY DEF Shown, More
<1>5. /\ rest \in Seq(S)
      /\ Len(rest) = IF n > l THEN l ELSE n
      /\ \A k \in 1..Len(rest) : rest[k] = found[n - Len(rest) + k]
  <2> HIDE DEF S, found, taken, rest, shown, l
  <2>1. CASE n <= l
    <3>1. rest = found
      BY <1>1, <1>2, <1>3, <1>4, <2>1
    <3> QED
      BY <1>1, <1>2, <2>1, <3>1
  <2>2. CASE n > l
    <3>1. /\ taken \in Seq(S) /\ Len(taken) = l + 1
          /\ \A k \in 1..(l + 1) : taken[k] = found[n - l - 1 + k]
      <4>1. CASE n = l + 1
        BY <1>1, <1>2, <1>3, <4>1
      <4>2. CASE n > l + 1
        <5>1. taken = SubSeq(found, n - l, n)
          BY <1>1, <1>2, <1>3, <4>2
        <5>2. n - l \in 1..n
          BY <1>1, <1>2, <4>2
        <5> QED
          BY <1>1, <1>2, <4>2, <5>1, <5>2
      <4> QED
        BY <1>1, <1>2, <2>2, <4>1, <4>2
    <3>2. rest = Tail(taken)
      BY <1>2, <1>4, <3>1
    <3>3. /\ rest \in Seq(S) /\ Len(rest) = l
          /\ \A k \in 1..l : rest[k] = taken[k + 1]
      BY <1>2, <3>1, <3>2
    <3>4. ASSUME NEW k \in 1..l PROVE rest[k] = found[n - l + k]
      <4>1. k + 1 \in 1..(l + 1) /\ n - l - 1 + (k + 1) = n - l + k
        BY <1>1, <1>2
      <4> QED
        BY <3>1, <3>3, <4>1
    <3> QED
      BY <1>1, <1>2, <2>2, <3>3, <3>4
  <2> QED
    BY <1>1, <1>2, <2>1, <2>2
<1>6. shown = [k \in 1..Len(rest) |-> rest[(Len(rest) - k) + 1]]
  BY <1>4 DEF Reverse
<1> HIDE DEF S, found, taken, rest, shown, l
<1>7. Len(rest) \in Nat
  BY <1>5
<1>8. shown \in Seq(S) /\ Len(shown) = Len(rest)
  <2>1. \A k \in 1..Len(rest) : rest[(Len(rest) - k) + 1] \in S
    BY <1>5, <1>7
  <2> QED
    BY <1>6, <1>7, <2>1
<1>9. ASSUME NEW k \in 1..Len(shown) PROVE shown[k] = found[n + 1 - k]
  <2> DEFINE m == Len(rest) - k + 1
  <2>1. m \in 1..Len(rest) /\ n - Len(rest) + m = n + 1 - k
    BY <1>1, <1>7, <1>8
  <2> QED
    BY <1>5, <1>6, <1>8, <2>1
<1> QED
  BY <1>5, <1>8, <1>9 DEF S, found, taken, shown, l

-----------------------------------------------------------------------------
(***************************************************************************)
(* Types.                                                                  *)
(***************************************************************************)
LEMMA CursorOfType ==
    ASSUME rows \in [Ids -> Row], NEW id \in Ids
    PROVE  CursorOf(id) \in Cursor /\ CursorOf(id).id = id /\ CursorOf(id) # NoCursor
<1>1. Key(id) # Null => Key(id) \in Values \cup {Created[i] : i \in Ids}
  BY DEF Key, Row
<1>2. CursorOf(id) \in Cursor /\ CursorOf(id).id = id
  BY <1>1 DEF CursorOf, Cursor
<1>3. NoCursor.id \notin Ids
  BY IdsAssumption DEF NoCursor, Null
<1> QED
  BY <1>2, <1>3

\* Every page is a sequence of rows.
LEMMA ShownType ==
    ASSUME Table, NEW cursor, NEW d \in {"next", "prev"}
    PROVE  Shown(Taken(cursor, d), d) \in Seq(Selected(cursor, d))
<1>1. CASE d = "next"
  BY <1>1, ShownNext
<1>2. CASE d = "prev"
  BY <1>2, ShownPrev
<1> QED
  BY <1>1, <1>2

LEMMA PageType ==
    ASSUME TypeOK, NEW cursor, NEW d \in {"next", "prev"}, GetPage(cursor, d)
    PROVE  /\ pages' \in Seq(Seq(Ids))
           /\ {next', prev'} \subseteq Cursor \cup {NoCursor}
           /\ dir' = d /\ UNCHANGED <<rows, query, changed>>
<1> DEFINE shown == Shown(Taken(cursor, d), d)
<1>1. shown \in Seq(Ids)
  BY ShownType, SelectedIs DEF TypeOK, Table
<1>2. pages' = Append(pages, shown)
  BY DEF GetPage
<1>3. pages' \in Seq(Seq(Ids))
  BY <1>1, <1>2 DEF TypeOK
<1>4. shown # <<>> => Last(shown) \in Ids /\ Head(shown) \in Ids
  BY <1>1 DEF Last
<1>5. shown # <<>> => CursorOf(Last(shown)) \in Cursor /\ CursorOf(Head(shown)) \in Cursor
  BY <1>4, CursorOfType DEF TypeOK
<1>6. {next', prev'} \subseteq Cursor \cup {NoCursor}
  BY <1>5 DEF GetPage
<1> QED
  BY <1>3, <1>6 DEF GetPage

\* A write of another request changes one row to a row.
LEMMA WriteIs ==
    ASSUME TypeOK, ValuesKept, NEW id \in Ids, Insert(id) \/ Refilter(id) \/ Revalue(id)
    PROVE  /\ pages # <<>> /\ changed' = changed \cup {id}
           /\ UNCHANGED <<query, pages, next, prev, dir, backs>>
           /\ \E row \in Row : /\ rows' = [rows EXCEPT ![id] = row]
                               /\ query.column = "changing" => row.value \in Values
<1>1. rows[id] \in Row
  BY DEF TypeOK
<1>2. CASE Insert(id)
  <2>1. PICK row \in [show : {"listed", "unsearched"}, value : {rows[id].value}] : Write(id, row)
    BY <1>2 DEF Insert
  <2>2. row \in Row /\ row.value = rows[id].value
    BY <1>1, <2>1 DEF Row
  <2> QED
    BY <2>1, <2>2 DEF Write, ValuesKept
<1>3. CASE Refilter(id)
  <2>1. PICK show \in {"listed", "unsearched", "excluded"} :
          Write(id, [rows[id] EXCEPT !.show = show])
    BY <1>3 DEF Refilter
  <2> DEFINE row == [rows[id] EXCEPT !.show = show]
  <2>2. row \in Row /\ row.value = rows[id].value
    BY <1>1, <2>1 DEF Row
  <2> HIDE DEF row
  <2> QED
    BY <2>1, <2>2 DEF Write, ValuesKept, row
<1>4. CASE Revalue(id)
  <2>1. PICK v \in Values : Write(id, [rows[id] EXCEPT !.value = v])
    BY <1>4 DEF Revalue
  <2> DEFINE row == [rows[id] EXCEPT !.value = v]
  <2>2. row \in Row /\ row.value = v
    BY <1>1, <2>1 DEF Row
  <2> HIDE DEF row
  <2> QED
    BY <2>1, <2>2 DEF Write, row
<1> QED
  BY <1>2, <1>3, <1>4

BaseInv == TypeOK /\ ValuesKept /\ Unopened

LEMMA BaseInit == Init => BaseInv
<1> SUFFICES ASSUME Init PROVE BaseInv
  OBVIOUS
<1>1. query \in Query
  BY DEF Init
<1>2. rows \in [Ids -> Row]
  <2>1. [show : {"listed", IF query.search THEN "unsearched" ELSE "absent"},
         value : CASE query.column = "created"  -> {Null}
                   [] query.column = "changing" -> Values
                   [] query.column = "nullable" -> Values \cup {Null}] \subseteq Row
    BY <1>1, ColumnsAssumption DEF Query, Row
  <2> QED
    BY <2>1 DEF Init
<1>3. ValuesKept
  <2> SUFFICES ASSUME query.column = "changing" PROVE \A id \in Ids : rows[id].value \in Values
    BY DEF ValuesKept
  <2>1. rows \in [Ids -> [show : {"listed", IF query.search THEN "unsearched" ELSE "absent"},
                          value : Values]]
    BY DEF Init
  <2> QED
    BY <2>1
<1>4. TypeOK
  BY <1>1, <1>2, BoundsAssumption DEF Init, TypeOK
<1> QED
  BY <1>3, <1>4 DEF BaseInv, Unopened, Init

LEMMA BaseStep == BaseInv /\ [Next]_vars => BaseInv'
<1> SUFFICES ASSUME BaseInv, [Next]_vars PROVE BaseInv'
  OBVIOUS
<1> USE DEF BaseInv
<1>1. ASSUME NEW cursor, NEW d \in {"next", "prev"}, GetPage(cursor, d), backs' \in 0..MaxBacks
      PROVE  BaseInv'
  <2>1. /\ pages' \in Seq(Seq(Ids)) /\ dir' = d
        /\ {next', prev'} \subseteq Cursor \cup {NoCursor}
        /\ UNCHANGED <<rows, query, changed>>
    BY <1>1, PageType
  <2>2. pages' # <<>>
    BY <1>1 DEF GetPage, TypeOK
  <2> QED
    BY <1>1, <2>1, <2>2 DEF TypeOK, ValuesKept, Unopened
<1>2. CASE Open
  BY <1>1, <1>2 DEF Open, TypeOK
<1>3. CASE Forward
  BY <1>1, <1>3 DEF Forward, TypeOK
<1>4. CASE Back
  <2>1. backs' \in 0..MaxBacks
    BY <1>4, BoundsAssumption DEF Back, TypeOK
  <2> QED
    BY <1>1, <1>4, <2>1 DEF Back
<1>5. ASSUME NEW id \in Ids, Insert(id) \/ Refilter(id) \/ Revalue(id) PROVE BaseInv'
  <2>1. /\ pages # <<>> /\ changed' = changed \cup {id}
        /\ UNCHANGED <<query, pages, next, prev, dir, backs>>
        /\ \E row \in Row : /\ rows' = [rows EXCEPT ![id] = row]
                            /\ query.column = "changing" => row.value \in Values
    BY <1>5, WriteIs
  <2>2. PICK row \in Row : /\ rows' = [rows EXCEPT ![id] = row]
                           /\ query.column = "changing" => row.value \in Values
    BY <2>1
  <2>3. rows' \in [Ids -> Row]
    BY <2>2 DEF TypeOK
  <2>4. ValuesKept'
    BY <2>1, <2>2 DEF ValuesKept, TypeOK
  <2> QED
    BY <2>1, <2>3, <2>4 DEF TypeOK, Unopened
<1>6. CASE UNCHANGED vars
  BY <1>6 DEF vars, TypeOK, ValuesKept, Unopened
<1> QED
  BY <1>2, <1>3, <1>4, <1>5, <1>6 DEF Next

\* The listings keep rows, pages and cursors of their types.
THEOREM ListingsTypeCorrect == Spec => []TypeOK
<1>1. BaseInv => TypeOK
  BY DEF BaseInv
<1> QED
  BY <1>1, BaseInit, BaseStep, PTL DEF Spec

-----------------------------------------------------------------------------
(***************************************************************************)
(* The walk.                                                               *)
(***************************************************************************)
LEMMA NoNulls ==
    ASSUME BaseInv, NullFree, NEW id \in Ids
    PROVE  Key(id) \in Nat /\ Key(id) # Null /\ id \in Nat /\ Place(id) = Key(id)
<1>1. Table
  BY DEF BaseInv, TypeOK, Table
<1>2. Key(id) # Null
  <2>1. CASE query.column = "created"
    BY <2>1, IdsAssumption DEF Key, Null
  <2>2. CASE query.column = "changing"
    BY <2>2, ValuesAssumption DEF BaseInv, ValuesKept, Key, Null
  <2>3. CASE query.column = "nullable"
    BY <2>3 DEF NullFree, Key
  <2>4. query.column \in {"created", "changing", "nullable"}
    BY <1>1, ColumnsAssumption DEF Table, Query
  <2> QED
    BY <2>1, <2>2, <2>3, <2>4
<1> QED
  BY <1>1, <1>2, PlaceIs

LEMMA BeyondCursorOf ==
    ASSUME BaseInv, NullFree, NEW a \in Ids, NEW b \in Ids
    PROVE  /\ Beyond(CursorOf(a), "next", b) <=> Before(a, b)
           /\ Beyond(CursorOf(a), "prev", b) <=> Before(b, a)
<1>1. CursorOf(a).value = Key(a) /\ CursorOf(a).id = a
  BY NoNulls DEF CursorOf
<1>2. Place(a) = Key(a) /\ Place(b) = Key(b) /\ Key(b) # Null
  BY NoNulls
<1>3. query.desc \in BOOLEAN
  BY DEF BaseInv, TypeOK, Query
<1>4. Before(a, b) <=> IF query.desc THEN Less(<<Key(b), b>>, <<Key(a), a>>)
                                     ELSE Less(<<Key(a), a>>, <<Key(b), b>>)
  BY <1>2, <1>3 DEF Before, Position, Place
<1>5. Before(b, a) <=> IF query.desc THEN Less(<<Key(a), a>>, <<Key(b), b>>)
                                     ELSE Less(<<Key(b), b>>, <<Key(a), a>>)
  BY <1>2, <1>3 DEF Before, Position, Place
<1> QED
  BY <1>1, <1>2, <1>3, <1>4, <1>5 DEF Beyond

\* What is after a row that is beyond the cursor is beyond it too.
LEMMA BeyondGoesOn ==
    ASSUME BaseInv, NullFree, NEW c \in Cursor, NEW a \in Ids, NEW b \in Ids,
           Beyond(c, "next", a), Before(a, b)
    PROVE  Beyond(c, "next", b)
<1>1. c.value \in Int /\ c.id \in Int
  <2>1. \A v \in Values \cup {Created[i] : i \in Ids} \cup {0} : v \in Int
    BY IdsAssumption, ValuesAssumption
  <2>2. \A i \in Ids : i \in Int
    BY IdsAssumption
  <2> QED
    BY <2>1, <2>2 DEF Cursor
<1>2. /\ Key(a) \in Int /\ Key(b) \in Int /\ Key(b) # Null /\ a \in Int /\ b \in Int
      /\ Place(a) = Key(a) /\ Place(b) = Key(b)
  BY NoNulls
<1>3. query.desc \in BOOLEAN
  BY DEF BaseInv, TypeOK, Query
<1>4. CASE query.desc
  <2>1. Key(a) < c.value \/ (Key(a) = c.value /\ a < c.id)
    BY <1>4 DEF Beyond, Less
  <2>2. Key(b) < Key(a) \/ (Key(b) = Key(a) /\ b < a)
    BY <1>2, <1>4, BeforeIs
  <2>3. Key(b) < c.value \/ (Key(b) = c.value /\ b < c.id)
    BY <1>1, <1>2, <2>1, <2>2
  <2> QED
    BY <1>2, <1>4, <2>3 DEF Beyond, Less
<1>5. CASE ~query.desc
  <2>1. c.value < Key(a) \/ (c.value = Key(a) /\ c.id < a)
    BY <1>3, <1>5 DEF Beyond, Less
  <2>2. Key(a) < Key(b) \/ (Key(a) = Key(b) /\ a < b)
    BY <1>2, <1>5, BeforeIs
  <2>3. c.value < Key(b) \/ (c.value = Key(b) /\ c.id < b)
    BY <1>1, <1>2, <2>1, <2>2
  <2> QED
    BY <1>2, <1>3, <1>5, <2>3 DEF Beyond, Less
<1> QED
  BY <1>4, <1>5

\* A page forward: the first selected rows, in the order of the list, and the
\* cursor of the last one when there are more.
NextPage(S, page) ==
    /\ page \in Seq(S)
    /\ pages' = Append(pages, page)
    /\ \A j, k \in 1..Len(page) : j < k => Before(page[j], page[k])
    /\ next' # NoCursor => /\ Len(page) = query.limit /\ page # <<>>
                           /\ next' = CursorOf(page[Len(page)])
    /\ prev' # NoCursor => page # <<>> /\ prev' = CursorOf(page[1])
    /\ \A b \in S : \/ \E k \in 1..Len(page) : page[k] = b
                    \/ next' # NoCursor /\ \A k \in 1..Len(page) : Before(page[k], b)

LEMMA ForwardGives ==
    ASSUME BaseInv, NEW cursor, GetPage(cursor, "next")
    PROVE  \E page : NextPage(Selected(cursor, "next"), page)
<1> DEFINE S == Selected(cursor, "next")
           found == InOrder(S)
           taken == Taken(cursor, "next")
           page == Shown(taken, "next")
<1>1. Table
  BY DEF BaseInv, TypeOK, Table
<1>2. S \in SUBSET Ids
  BY SelectedIs
<1>3. /\ page \in Seq(S)
      /\ IF More(taken) THEN Len(page) = query.limit /\ Len(page) < Len(found)
                        ELSE Len(page) = Len(found)
      /\ \A k \in 1..Len(page) : page[k] = found[k]
  BY <1>1, ShownNext
<1>4. Lists(found, S)
  BY <1>1, <1>2, InOrderIs
<1>5. query.limit \in Nat \ {0}
  BY <1>1, LimitIs DEF Table
<1>6. /\ pages' = Append(pages, page)
      /\ next' = IF page # <<>> /\ More(taken) THEN CursorOf(Last(page)) ELSE NoCursor
      /\ prev' \in {CursorOf(Head(page)), NoCursor}
      /\ prev' # NoCursor => page # <<>>
  BY DEF GetPage, HasNext, PaymentsNext, RidesNext
<1> HIDE DEF S, found, taken, page
<1>7. Len(page) \in Nat /\ Len(found) \in Nat
  BY <1>3, <1>4 DEF Lists
<1>8. More(taken) => page # <<>>
  BY <1>3, <1>5
<1>9. \A j, k \in 1..Len(page) : j < k => Before(page[j], page[k])
  <2> SUFFICES ASSUME NEW j \in 1..Len(page), NEW k \in 1..Len(page), j < k
               PROVE  Before(page[j], page[k])
    OBVIOUS
  <2>1. j \in 1..Len(found) /\ k \in 1..Len(found)
    BY <1>3, <1>7
  <2> QED
    BY <1>3, <1>4, <2>1 DEF Lists
<1>10. next' # NoCursor => /\ Len(page) = query.limit /\ page # <<>>
                           /\ next' = CursorOf(page[Len(page)])
  BY <1>3, <1>6 DEF Last
<1>11. prev' # NoCursor => page # <<>> /\ prev' = CursorOf(page[1])
  BY <1>3, <1>6
<1>12. ASSUME NEW b \in S
       PROVE  \/ \E k \in 1..Len(page) : page[k] = b
              \/ next' # NoCursor /\ \A k \in 1..Len(page) : Before(page[k], b)
  <2>1. PICK i \in 1..Len(found) : found[i] = b
    BY <1>4 DEF Lists
  <2>2. CASE i <= Len(page)
    <3>1. i \in 1..Len(page) /\ page[i] = b
      BY <1>3, <1>7, <2>1, <2>2
    <3> QED
      BY <3>1
  <2>3. CASE i > Len(page)
    <3>1. More(taken) /\ page # <<>>
      BY <1>3, <1>7, <1>8, <2>3
    <3>2. Last(page) \in Ids
      BY <1>2, <1>3, <3>1 DEF Last
    <3>3. next' # NoCursor
      BY <1>1, <1>6, <3>1, <3>2, CursorOfType DEF Table
    <3>4. ASSUME NEW k \in 1..Len(page) PROVE Before(page[k], b)
      <4>1. k \in 1..Len(found) /\ k < i /\ page[k] = found[k]
        BY <1>3, <1>7, <2>3
      <4> QED
        BY <1>4, <2>1, <4>1 DEF Lists
    <3> QED
      BY <3>3, <3>4
  <2> QED
    BY <1>7, <2>2, <2>3
<1>13. NextPage(S, page)
  BY <1>3, <1>6, <1>9, <1>10, <1>11, <1>12 DEF NextPage
<1> QED
  BY <1>13 DEF S

LEMMA OnPagesGrow ==
    ASSUME pages \in Seq(Seq(Ids)), NEW page \in Seq(Ids), pages' = Append(pages, page)
    PROVE  OnPages' = OnPages \cup {<<Len(pages) + 1, page[k]>> : k \in 1..Len(page)}
<1>1. /\ Len(pages) \in Nat /\ Len(pages') = Len(pages) + 1
      /\ pages'[Len(pages) + 1] = page
      /\ \A i \in 1..Len(pages) : pages'[i] = pages[i] /\ i # Len(pages) + 1
  OBVIOUS
<1>2. \A k \in 1..Len(page) : page[k] \in Ids
  OBVIOUS
<1>3. ASSUME NEW n \in OnPages' 
      PROVE  n \in OnPages \cup {<<Len(pages) + 1, page[k]>> : k \in 1..Len(page)}
  <2>1. /\ n \in (1..Len(pages')) \X Ids
        /\ \E k \in 1..Len(pages'[n[1]]) : pages'[n[1]][k] = n[2]
    BY DEF OnPages
  <2>2. CASE n[1] = Len(pages) + 1
    <3>1. PICK k \in 1..Len(page) : page[k] = n[2]
      BY <1>1, <2>1, <2>2
    <3>2. n = <<Len(pages) + 1, page[k]>>
      BY <2>1, <2>2, <3>1
    <3> QED
      BY <3>2
  <2>3. CASE n[1] # Len(pages) + 1
    <3>1. n[1] \in 1..Len(pages)
      BY <1>1, <2>1, <2>3
    <3>2. pages'[n[1]] = pages[n[1]]
      BY <1>1, <3>1
    <3> QED
      BY <2>1, <3>1, <3>2 DEF OnPages
  <2> QED
    BY <2>2, <2>3
<1>4. ASSUME NEW n \in OnPages PROVE n \in OnPages'
  <2>1. /\ n \in (1..Len(pages)) \X Ids
        /\ \E k \in 1..Len(pages[n[1]]) : pages[n[1]][k] = n[2]
    BY DEF OnPages
  <2>2. n[1] \in 1..Len(pages') /\ pages'[n[1]] = pages[n[1]]
    BY <1>1, <2>1
  <2> QED
    BY <2>1, <2>2 DEF OnPages
<1>5. ASSUME NEW k \in 1..Len(page) PROVE <<Len(pages) + 1, page[k]>> \in OnPages'
  <2>1. Len(pages) + 1 \in 1..Len(pages')
    BY <1>1
  <2> QED
    BY <1>1, <1>2, <2>1 DEF OnPages
<1> QED
  BY <1>3, <1>4, <1>5

-----------------------------------------------------------------------------
(***************************************************************************)
(* The cursor divides what was seen from what is left.                     *)
(***************************************************************************)
WalkInv == BaseInv /\ SeenIsBehind /\ LeftIsAhead /\ NoRowTwice

LEMMA WalkInit == Init => WalkInv
<1> SUFFICES ASSUME Init PROVE WalkInv
  OBVIOUS
<1>1. BaseInv
  BY BaseInit
<1>2. pages = <<>> /\ next = NoCursor
  BY DEF Init
<1>3. OnPages = {}
  BY <1>2 DEF OnPages
<1> QED
  BY <1>1, <1>2, <1>3 DEF WalkInv, SeenIsBehind, LeftIsAhead, NoRowTwice

\* A page got by going forward, from the start or from the cursor.
LEMMA WalkForward ==
    ASSUME WalkInv, NEW cursor, GetPage(cursor, "next"), UNCHANGED backs,
           \/ pages = <<>> /\ cursor = NoCursor
           \/ pages # <<>> /\ cursor = next /\ next # NoCursor
    PROVE  (SeenIsBehind /\ LeftIsAhead /\ NoRowTwice)'
<1>1. BaseInv /\ BaseInv'
  <2>1. /\ pages' \in Seq(Seq(Ids)) /\ dir' = "next"
        /\ {next', prev'} \subseteq Cursor \cup {NoCursor}
        /\ UNCHANGED <<rows, query, changed>>
    BY PageType DEF WalkInv, BaseInv
  <2>2. pages' # <<>>
    BY DEF GetPage, WalkInv, BaseInv, TypeOK
  <2> QED
    BY <2>1, <2>2 DEF WalkInv, BaseInv, TypeOK, ValuesKept, Unopened
<1>2. UNCHANGED <<rows, query, changed, backs>>
  BY DEF GetPage
<1>3. /\ \A id : Key(id)' = Key(id) /\ Matches(id)' = Matches(id) /\ Fixed(id)' = Fixed(id)
      /\ NullFree' = NullFree /\ OnePass' = OnePass
  BY <1>2 DEF Key, Matches, Fixed, NullFree, OnePass
<1>4. \A c, id : Beyond(c, "next", id)' = Beyond(c, "next", id)
  BY <1>2 DEF Beyond, Key
<1> DEFINE S == Selected(cursor, "next")
<1>5. PICK page : NextPage(S, page)
  BY <1>1, ForwardGives
<1> SUFFICES ASSUME OnePass, NullFree PROVE (SeenIsBehind /\ LeftIsAhead /\ NoRowTwice)'
  BY <1>3 DEF SeenIsBehind, LeftIsAhead, NoRowTwice
<1>6. S \in SUBSET Ids
  BY SelectedIs
<1>7. page \in Seq(Ids) /\ pages \in Seq(Seq(Ids)) /\ Len(page) \in Nat
  BY <1>1, <1>5, <1>6 DEF NextPage, BaseInv, TypeOK
<1> DEFINE new == {<<Len(pages) + 1, page[k]>> : k \in 1..Len(page)}
<1>8. OnPages' = OnPages \cup new
  BY <1>5, <1>7, OnPagesGrow DEF NextPage
<1>9. cursor # NoCursor => \A id \in S : Beyond(cursor, "next", id)
  BY DEF Selected
<1>10. pages = <<>> => OnPages = {}
  BY DEF OnPages
<1>11. \A k \in 1..Len(page) : page[k] \in S
  BY <1>5 DEF NextPage
<1>12. \A n \in OnPages : n[1] \in 1..Len(pages) /\ n[2] \in Ids /\ Len(pages) \in Nat
  BY <1>7 DEF OnPages
<1>13. Table
  BY <1>1 DEF BaseInv, TypeOK, Table
<1> HIDE DEF S, new
<1>14. SeenIsBehind'
  <2> SUFFICES ASSUME next' # NoCursor, NEW n \in OnPages', Fixed(n[2]),
                      Beyond(next', "next", n[2])
               PROVE  FALSE
    BY <1>3, <1>4 DEF SeenIsBehind
  <2>1. /\ page # <<>> /\ next' = CursorOf(page[Len(page)])
        /\ Len(page) \in 1..Len(page)
    BY <1>5, <1>7 DEF NextPage
  <2>2. page[Len(page)] \in S /\ page[Len(page)] \in Ids
    BY <1>6, <1>11, <2>1
  <2>3. n[2] \in Ids
    BY <1>6, <1>8, <1>11, <1>12 DEF new
  <2>4. Before(page[Len(page)], n[2])
    BY <1>1, <2>1, <2>2, <2>3, BeyondCursorOf
  <2>5. CASE n \in OnPages
    <3>1. cursor = next /\ next # NoCursor /\ next \in Cursor
      BY <1>1, <1>10, <2>5 DEF BaseInv, TypeOK
    <3>2. Beyond(next, "next", page[Len(page)])
      BY <1>9, <2>2, <3>1
    <3>3. Beyond(next, "next", n[2])
      BY <1>1, <2>2, <2>3, <2>4, <3>1, <3>2, BeyondGoesOn
    <3> QED
      BY <2>5, <3>1, <3>3 DEF WalkInv, SeenIsBehind
  <2>6. CASE n \in new
    <3>1. PICK k \in 1..Len(page) : n[2] = page[k]
      BY <2>6 DEF new
    <3>2. n[2] = page[Len(page)] \/ Before(n[2], page[Len(page)])
      BY <1>5, <1>7, <2>1, <3>1 DEF NextPage
    <3> QED
      BY <1>13, <2>2, <2>3, <2>4, <3>2, BeforeIsOrder
  <2> QED
    BY <1>8, <2>5, <2>6
<1>15. LeftIsAhead'
  <2> SUFFICES ASSUME NEW id \in Ids \ changed, Matches(id)
               PROVE  \/ \E n \in OnPages' : n[2] = id
                      \/ next' # NoCursor /\ Beyond(next', "next", id)
    BY <1>2, <1>3, <1>4 DEF LeftIsAhead
  <2>1. CASE \E n \in OnPages : n[2] = id
    BY <1>8, <2>1
  <2>2. CASE ~\E n \in OnPages : n[2] = id
    <3>1. id \in S
      <4>1. CASE cursor = NoCursor
        BY <4>1 DEF S, Selected
      <4>2. CASE cursor # NoCursor
        <5>1. Beyond(cursor, "next", id)
          BY <2>2, <4>2 DEF WalkInv, LeftIsAhead
        <5>2. rows[id].show \in {"listed", "unsearched"}
          BY DEF Matches
        <5> QED
          BY <4>2, <5>1, <5>2 DEF S, Selected
      <4> QED
        BY <4>1, <4>2
    <3>2. CASE \E k \in 1..Len(page) : page[k] = id
      <4>1. PICK k \in 1..Len(page) : page[k] = id
        BY <3>2
      <4>2. <<Len(pages) + 1, page[k]>> \in OnPages'
        BY <1>8 DEF new
      <4> QED
        BY <4>1, <4>2
    <3>3. CASE next' # NoCursor /\ \A k \in 1..Len(page) : Before(page[k], id)
      <4>1. next' = CursorOf(page[Len(page)]) /\ Len(page) \in 1..Len(page)
        BY <1>5, <1>7, <3>3 DEF NextPage
      <4>2. Beyond(next', "next", id)
        BY <1>1, <1>6, <1>11, <3>3, <4>1, BeyondCursorOf
      <4> QED
        BY <3>3, <4>2
    <3> QED
      BY <1>5, <3>1, <3>2, <3>3 DEF NextPage
  <2> QED
    BY <2>1, <2>2
<1>16. NoRowTwice'
  <2> SUFFICES ASSUME NEW m \in OnPages', NEW n \in OnPages',
                      m[2] = n[2], Fixed(m[2])
               PROVE  m = n
    BY <1>2, <1>3 DEF NoRowTwice, Fixed
  <2>1. ASSUME NEW a \in OnPages, NEW b \in new, a[2] = b[2], Fixed(a[2]) PROVE FALSE
    <3>1. cursor = next /\ next # NoCursor
      BY <1>10
    <3>2. b[2] \in S
      BY <1>11 DEF new
    <3>3. Beyond(next, "next", a[2])
      BY <1>9, <2>1, <3>1, <3>2
    <3> QED
      BY <2>1, <3>1, <3>3 DEF WalkInv, SeenIsBehind
  <2>2. CASE m \in OnPages /\ n \in OnPages
    BY <2>2 DEF WalkInv, NoRowTwice, Fixed
  <2>3. CASE m \in new /\ n \in new
    BY <2>3 DEF new
  <2> QED
    BY <1>8, <2>1, <2>2, <2>3
<1> QED
  BY <1>14, <1>15, <1>16

\* A write of another request: the cursor stays, and so do the values of the
\* rows it does not write.
LEMMA WalkWrite ==
    ASSUME WalkInv, NEW id \in Ids, Insert(id) \/ Refilter(id) \/ Revalue(id)
    PROVE  (SeenIsBehind /\ LeftIsAhead /\ NoRowTwice)'
<1>1. /\ pages # <<>> /\ changed' = changed \cup {id}
      /\ UNCHANGED <<query, pages, next, prev, dir, backs>>
      /\ \E row \in Row : /\ rows' = [rows EXCEPT ![id] = row]
                          /\ query.column = "changing" => row.value \in Values
  BY WriteIs DEF WalkInv, BaseInv
<1>2. \A other \in Ids \ {id} : rows'[other] = rows[other]
  BY <1>1 DEF WalkInv, BaseInv, TypeOK
<1>3. OnPages' = OnPages /\ OnePass' = OnePass /\ (NullFree' => NullFree)
  <2>1. NullFree' => NullFree
    BY <1>1 DEF NullFree
  <2> QED
    BY <1>1, <2>1 DEF OnPages, OnePass
<1>4. ASSUME NEW other \in Ids, Fixed(other)'
      PROVE  /\ Fixed(other) /\ Key(other)' = Key(other)
             /\ \A c : Beyond(c, "next", other)' = Beyond(c, "next", other)
  <2>1. Fixed(other)
    BY <1>1, <1>4 DEF Fixed
  <2>2. Key(other)' = Key(other)
    BY <1>1, <1>2, <1>4 DEF Fixed, Key
  <2> QED
    BY <1>1, <2>1, <2>2 DEF Beyond
<1>5. \A n \in OnPages : n[2] \in Ids
  BY DEF OnPages
<1>6. SeenIsBehind'
  BY <1>1, <1>3, <1>4, <1>5 DEF SeenIsBehind, WalkInv
<1>7. LeftIsAhead'
  <2> SUFFICES ASSUME OnePass, NullFree, NEW other \in Ids \ changed', Matches(other)'
               PROVE  (\E n \in OnPages : n[2] = other)
                        \/ (next # NoCursor /\ Beyond(next, "next", other)')
    BY <1>1, <1>3 DEF LeftIsAhead
  <2>1. other \in Ids \ changed /\ Matches(other) /\ Fixed(other)'
    BY <1>1, <1>2 DEF Matches, Fixed
  <2> QED
    BY <1>1, <1>4, <2>1 DEF LeftIsAhead, WalkInv
<1>8. NoRowTwice'
  BY <1>1, <1>3 DEF NoRowTwice, WalkInv
<1> QED
  BY <1>6, <1>7, <1>8

LEMMA WalkStep == WalkInv /\ [Next]_vars => WalkInv'
<1> SUFFICES ASSUME WalkInv, [Next]_vars PROVE WalkInv'
  OBVIOUS
<1>1. BaseInv'
  BY BaseStep DEF WalkInv
<1>2. CASE Open
  BY <1>1, <1>2, WalkForward DEF Open, WalkInv
<1>3. CASE Forward
  <2>1. pages # <<>>
    BY <1>3 DEF Forward, WalkInv, BaseInv, Unopened
  <2> QED
    BY <1>1, <1>3, <2>1, WalkForward DEF Forward, WalkInv
<1>4. CASE Back
  <2>1. ~OnePass'
    BY <1>4 DEF Back, OnePass, WalkInv, BaseInv, TypeOK
  <2> QED
    BY <1>1, <2>1 DEF WalkInv, SeenIsBehind, LeftIsAhead, NoRowTwice
<1>5. ASSUME NEW id \in Ids, Insert(id) \/ Refilter(id) \/ Revalue(id) PROVE WalkInv'
  BY <1>1, <1>5, WalkWrite DEF WalkInv
<1>6. CASE UNCHANGED vars
  <2>1. /\ OnPages' = OnPages /\ OnePass' = OnePass /\ NullFree' = NullFree
        /\ \A id : Matches(id)' = Matches(id) /\ Beyond(next, "next", id)' = Beyond(next, "next", id)
    BY <1>6 DEF vars, OnPages, OnePass, NullFree, Matches, Beyond, Key
  <2> QED
    BY <1>1, <1>6, <2>1 DEF vars, WalkInv, SeenIsBehind, LeftIsAhead, NoRowTwice, Fixed
<1> QED
  BY <1>2, <1>3, <1>4, <1>5, <1>6 DEF Next

\* getPaymentsList, getRidesList: following the next cursor shows no row a second
\* time unless its sorted value changed, for any page size and any number of
\* writes between the pages.
THEOREM NoRowIsShownTwice == Spec => []NoRowTwice
<1>1. WalkInv => NoRowTwice
  BY DEF WalkInv
<1> QED
  BY <1>1, WalkInit, WalkStep, PTL DEF Spec

\* And by the last page it has left out no row that was in the list all the time.
THEOREM NoRowIsSkipped == Spec => []NothingSkipped
<1>1. WalkInv => NothingSkipped
  BY DEF WalkInv, LeftIsAhead, NothingSkipped, AtEnd
<1> QED
  BY <1>1, WalkInit, WalkStep, PTL DEF Spec

-----------------------------------------------------------------------------
(***************************************************************************)
(* The way back.                                                           *)
(***************************************************************************)
BackInv == WalkInv /\ Blocks /\ BackReverses

\* In a table nobody writes to, a page forward is the block after the last page.
LEMMA BlocksForward ==
    ASSUME WalkInv, Blocks, NEW cursor, GetPage(cursor, "next"), UNCHANGED backs,
           BaseInv',
           \/ pages = <<>> /\ cursor = NoCursor
           \/ pages # <<>> /\ cursor = next /\ next # NoCursor
    PROVE  Blocks'
<1>1. BaseInv /\ Table
  BY DEF WalkInv, BaseInv, TypeOK, Table
<1>2. UNCHANGED <<rows, query, changed, backs>>
  BY DEF GetPage
<1>3. /\ \A id : Key(id)' = Key(id) /\ Matches(id)' = Matches(id)
      /\ \A a, b : Before(a, b)' = Before(a, b)
      /\ \A id : CursorOf(id)' = CursorOf(id)
      /\ Still' = Still
  BY <1>2 DEF Key, Matches, Before, Position, CursorOf, Still, NullFree, OnePass
<1> DEFINE S == Selected(cursor, "next")
<1>4. PICK page : NextPage(S, page)
  BY <1>1, ForwardGives
<1> SUFFICES ASSUME Still PROVE Blocks'
  BY <1>3 DEF Blocks
<1>5. S \in SUBSET Ids /\ NullFree
  BY SelectedIs DEF Still
<1>6. page \in Seq(Ids) /\ pages \in Seq(Seq(Ids)) /\ Len(page) \in Nat /\ Len(pages) \in Nat
  BY <1>1, <1>4, <1>5 DEF NextPage, BaseInv, TypeOK
<1>7. /\ pages' = Append(pages, page) /\ Len(pages') = Len(pages) + 1
      /\ pages'[Len(pages) + 1] = page
      /\ \A k \in 1..Len(pages) : pages'[k] = pages[k]
  BY <1>4, <1>6 DEF NextPage
<1>8. /\ \A id \in S : Matches(id) /\ (cursor # NoCursor => Beyond(cursor, "next", id))
      /\ \A id \in Ids : Matches(id) /\ (cursor # NoCursor => Beyond(cursor, "next", id)) => id \in S
  BY DEF Selected, Matches, Still
<1>9. \A k \in 1..Len(page) : page[k] \in S /\ page[k] \in Ids
  BY <1>4, <1>5 DEF NextPage
<1> HIDE DEF S
<1> DEFINE m == Len(pages)
           old == pages[m]
           last == old[Len(old)]
\* What the last page says of the cursor.
<1>10. ASSUME pages # <<>>
       PROVE  /\ m \in 1..m /\ old \in Seq(Ids) /\ Len(old) = query.limit
              /\ Len(old) \in 1..Len(old) /\ last \in Ids /\ Block(old)
              /\ \A id \in Ids : Beyond(cursor, "next", id) <=> Before(last, id)
  <2>1. m \in 1..m /\ old \in Seq(Ids)
    BY <1>6, <1>10
  <2>2. Block(old) /\ Len(old) = query.limit /\ cursor = CursorOf(last)
    BY <1>10 DEF Blocks
  <2>3. Len(old) \in 1..Len(old)
    BY <1>1, <2>1, <2>2, LimitIs DEF Table
  <2>4. last \in Ids
    BY <2>1, <2>3
  <2>5. \A id \in Ids : Beyond(cursor, "next", id) <=> Before(last, id)
    BY <1>1, <1>5, <2>2, <2>4, BeyondCursorOf
  <2> QED
    BY <2>1, <2>2, <2>3, <2>4, <2>5
<1> HIDE DEF last
<1>11. Block(page)
  <2>1. ASSUME NEW b \in Ids, Matches(b), b \notin S
        PROVE  \A k \in 1..Len(page) : Before(b, page[k])
    <3>1. pages # <<>> /\ ~Before(last, b) /\ last \in Ids
      BY <1>8, <1>10, <2>1
    <3>2. b = last \/ Before(b, last)
      BY <1>1, <3>1, BeforeIsOrder
    <3>3. ASSUME NEW k \in 1..Len(page) PROVE Before(b, page[k])
      <4>1. Before(last, page[k])
        BY <1>8, <1>9, <1>10, <3>1
      <4> QED
        BY <1>1, <1>9, <3>1, <3>2, <4>1, BeforeIsOrder
    <3> QED
      BY <3>3
  <2> QED
    BY <1>4, <1>8, <1>9, <2>1 DEF Block, NextPage
<1>12. ASSUME m > 0, page # <<>> PROVE JustBefore(old, page[1])
  <2>1. pages # <<>> /\ 1 \in 1..Len(page)
    BY <1>6, <1>12
  <2>2. page[1] \in S /\ page[1] \in Ids /\ Before(last, page[1])
    BY <1>8, <1>9, <1>10, <2>1
  <2>3. \A k \in 1..Len(old) : old[k] \in Ids /\ (old[k] = last \/ Before(old[k], last))
    <3> SUFFICES ASSUME NEW k \in 1..Len(old)
                 PROVE  old[k] \in Ids /\ (old[k] = last \/ Before(old[k], last))
      OBVIOUS
    <3>1. k = Len(old) \/ k < Len(old)
      BY <1>10, <2>1
    <3> QED
      BY <1>10, <2>1, <3>1 DEF Block, last
  <2>4. \A k \in 1..Len(old) : Matches(old[k]) /\ Before(old[k], page[1])
    BY <1>1, <1>10, <2>1, <2>2, <2>3, BeforeIsOrder DEF Block
  <2>5. \A j, k \in 1..Len(old) : j < k => Before(old[j], old[k])
    BY <1>10, <2>1 DEF Block
  <2>6. ASSUME NEW b \in Ids, Matches(b), Before(b, page[1]),
               ~\E k \in 1..Len(old) : old[k] = b
        PROVE  \A k \in 1..Len(old) : Before(b, old[k])
    <3> SUFFICES ASSUME \A k \in 1..Len(old) : Before(old[k], b) PROVE FALSE
      BY <1>10, <2>1, <2>6 DEF Block
    <3>1. Before(last, b)
      BY <1>10, <2>1 DEF last
    <3>2. b \in S
      BY <1>8, <1>10, <2>1, <2>6, <3>1
    <3>3. \/ \E k \in 1..Len(page) : page[k] = b
          \/ \A k \in 1..Len(page) : Before(page[k], b)
      BY <1>4, <3>2 DEF NextPage
    <3>4. b = page[1] \/ Before(page[1], b)
      <4>1. ASSUME NEW k \in 1..Len(page), page[k] = b PROVE b = page[1] \/ Before(page[1], b)
        <5>1. k = 1 \/ 1 < k
          OBVIOUS
        <5> QED
          BY <1>4, <2>1, <4>1, <5>1 DEF NextPage
      <4> QED
        BY <2>1, <3>3, <4>1
    <3> QED
      BY <1>1, <2>2, <2>6, <3>4, BeforeIsOrder
  <2> QED
    BY <1>10, <2>1, <2>4, <2>5, <2>6 DEF JustBefore
<1> DEFINE B == /\ Block(page)
                /\ next' # NoCursor => Len(page) = query.limit /\ next' = CursorOf(page[Len(page)])
                /\ prev' # NoCursor => page # <<>> /\ prev' = CursorOf(page[1])
                /\ Len(pages) + 1 > 1 /\ page # <<>> => JustBefore(old, page[1])
<1>13. B
  <2>1. Len(pages) + 1 > 1 => m > 0
    BY <1>6
  <2> QED
    BY <1>4, <1>11, <1>12, <2>1 DEF NextPage
<1>14. Block(page)'
  BY <1>2, <1>3, <1>13 DEF Block
<1>15. PICK q : q = old
  OBVIOUS
<1>16. Len(pages') > 1 /\ page # <<>> => JustBefore(q, page[1])'
  BY <1>2, <1>3, <1>7, <1>13, <1>15 DEF JustBefore
<1>17. pages'[Len(pages')] = page /\ (Len(pages') > 1 => pages'[Len(pages') - 1] = q)
  <2>1. Len(pages') > 1 => Len(pages') - 1 \in 1..Len(pages) /\ Len(pages') - 1 = m
    BY <1>6, <1>7
  <2> QED
    BY <1>7, <1>15, <2>1
<1>18. /\ next' # NoCursor => Len(page) = query'.limit /\ next' = CursorOf(page[Len(page)])'
       /\ prev' # NoCursor => page # <<>> /\ prev' = CursorOf(page[1])'
  BY <1>2, <1>3, <1>13
<1> QED
  BY <1>14, <1>16, <1>17, <1>18 DEF Blocks

\* A page back: the last of the selected rows, upside down.
PrevPage(S, page) ==
    /\ page \in Seq(S) /\ Len(page) <= query.limit
    /\ pages' = Append(pages, page)
    /\ \A j, k \in 1..Len(page) : j < k => Before(page[k], page[j])
    /\ \A b \in S : \/ \E k \in 1..Len(page) : page[k] = b
                    \/ /\ Len(page) = query.limit
                       /\ \A k \in 1..Len(page) : Before(b, page[k])

LEMMA BackGives ==
    ASSUME BaseInv, NEW cursor, GetPage(cursor, "prev")
    PROVE  \E page : PrevPage(Selected(cursor, "prev"), page)
<1> DEFINE S == Selected(cursor, "prev")
           found == InOrder(S)
           page == Shown(Taken(cursor, "prev"), "prev")
           n == Len(found)
<1>1. Table
  BY DEF BaseInv, TypeOK, Table
<1>2. S \in SUBSET Ids
  BY SelectedIs
<1>3. /\ page \in Seq(S)
      /\ Len(page) = IF n > query.limit THEN query.limit ELSE n
      /\ \A k \in 1..Len(page) : page[k] = found[n + 1 - k]
  BY <1>1, ShownPrev
<1>4. Lists(found, S)
  BY <1>1, <1>2, InOrderIs
<1>5. query.limit \in Nat \ {0}
  BY <1>1, LimitIs DEF Table
<1>6. pages' = Append(pages, page)
  BY DEF GetPage
<1> HIDE DEF S, found, page
<1>7. /\ Len(page) \in Nat /\ n \in Nat
      /\ Len(page) <= n /\ Len(page) <= query.limit
  BY <1>3, <1>4, <1>5 DEF Lists
<1>8. \A k \in 1..Len(page) : n + 1 - k \in 1..n
  BY <1>7
<1>9. \A i \in 1..n : found[i] \in Ids
  BY <1>2, <1>4 DEF Lists
<1>10. ASSUME NEW j \in 1..Len(page), NEW k \in 1..Len(page), j < k PROVE Before(page[k], page[j])
  <2>1. n + 1 - j \in 1..n /\ n + 1 - k \in 1..n /\ n + 1 - k < n + 1 - j
    BY <1>7, <1>8, <1>10
  <2> QED
    BY <1>3, <1>4, <2>1 DEF Lists
<1>11. ASSUME NEW b \in S
       PROVE  \/ \E k \in 1..Len(page) : page[k] = b
              \/ /\ Len(page) = query.limit
                 /\ \A k \in 1..Len(page) : Before(b, page[k])
  <2>1. PICK i \in 1..n : found[i] = b
    BY <1>4 DEF Lists
  <2>2. CASE n + 1 - i <= Len(page)
    <3>1. n + 1 - i \in 1..Len(page) /\ n + 1 - (n + 1 - i) = i
      BY <1>7, <2>1, <2>2
    <3>2. page[n + 1 - i] = b
      BY <1>3, <2>1, <3>1
    <3> QED
      BY <3>1, <3>2
  <2>3. CASE n + 1 - i > Len(page)
    <3>1. Len(page) = query.limit
      BY <1>3, <1>7, <2>1, <2>3
    <3>2. ASSUME NEW k \in 1..Len(page) PROVE Before(b, page[k])
      <4>1. n + 1 - k \in 1..n /\ i < n + 1 - k
        BY <1>7, <1>8, <2>3
      <4> QED
        BY <1>3, <1>4, <2>1, <4>1 DEF Lists
    <3> QED
      BY <3>1, <3>2
  <2> QED
    BY <1>7, <2>2, <2>3
<1>12. PrevPage(S, page)
  BY <1>3, <1>6, <1>7, <1>10, <1>11 DEF PrevPage
<1> QED
  BY <1>12 DEF S

\* Going back from a page returns the block before it, upside down.
LEMMA BackFinds ==
    ASSUME WalkInv, Blocks, Back, BaseInv'
    PROVE  BackReverses'
<1>1. BaseInv /\ Table
  BY DEF WalkInv, BaseInv, TypeOK, Table
<1>2. UNCHANGED <<rows, query, changed>> /\ backs' = backs + 1 /\ GetPage(prev, "prev") /\ prev # NoCursor
  BY DEF GetPage, Back
<1>3. PICK page : PrevPage(Selected(prev, "prev"), page)
  BY <1>1, <1>2, BackGives
<1> DEFINE S == Selected(prev, "prev")
<1>4. S \in SUBSET Ids
  BY SelectedIs
<1>5. pages # <<>>
  BY <1>1, <1>2 DEF BaseInv, Unopened
<1>6. /\ page \in Seq(Ids) /\ pages \in Seq(Seq(Ids)) /\ Len(page) \in Nat
      /\ Len(pages) \in 1..Len(pages) /\ Len(pages) \in Nat
  BY <1>1, <1>3, <1>4, <1>5 DEF PrevPage, BaseInv, TypeOK
<1>7. /\ Len(pages') = Len(pages) + 1 /\ pages'[Len(pages) + 1] = page
      /\ \A k \in 1..Len(pages) : pages'[k] = pages[k]
  BY <1>3, <1>6 DEF PrevPage
<1> SUFFICES ASSUME Still, Len(pages) > 1
             PROVE  page = Reverse(pages[Len(pages) - 1])
  <2>1. backs' = 1 => backs = 0
    BY <1>1, <1>2 DEF BaseInv, TypeOK
  <2>2. dir' = "prev" /\ backs' = 1 /\ changed' = {} /\ NullFree' /\ ~query'.search => Still
    BY <1>2, <2>1 DEF Still, NullFree, OnePass
  <2>3. Len(pages') > 2 => Len(pages) > 1 /\ Len(pages') - 2 = Len(pages) - 1
                            /\ Len(pages) - 1 \in 1..Len(pages)
    BY <1>6, <1>7
  <2>4. Len(pages') > 2 => /\ pages'[Len(pages')] = page
                           /\ pages'[Len(pages') - 2] = pages[Len(pages) - 1]
    BY <1>7, <2>3
  <2> QED
    BY <2>2, <2>3, <2>4 DEF BackReverses
<1> DEFINE here == pages[Len(pages)]
           old == pages[Len(pages) - 1]
<1>8. /\ here # <<>> /\ prev = CursorOf(here[1]) /\ JustBefore(old, here[1])
  BY <1>2, <1>5 DEF Blocks
<1>9. here \in Seq(Ids) /\ here[1] \in Ids /\ old \in Seq(Ids)
  <2>1. here \in Seq(Ids) /\ old \in Seq(Ids)
    BY <1>6
  <2>2. 1 \in 1..Len(here)
    BY <1>8, <2>1
  <2> QED
    BY <2>1, <2>2
<1>10. \A id \in Ids : id \in S <=> Matches(id) /\ Before(id, here[1])
  <2>1. NullFree /\ ~query.search
    BY DEF Still
  <2>2. \A id \in Ids : Beyond(prev, "prev", id) <=> Before(id, here[1])
    BY <1>1, <1>8, <1>9, <2>1, BeyondCursorOf
  <2> QED
    BY <1>2, <2>1, <2>2 DEF Selected, Matches
<1> HIDE DEF S, here, old
<1>11. PICK R : \A a, b \in Ids : <<a, b>> \in R <=> Before(a, b)
  <2> WITNESS {p \in Ids \X Ids : Before(p[1], p[2])}
  <2> QED
    OBVIOUS
<1>12. Orders(R, Ids)
  BY <1>1, <1>11, BeforeIsOrder DEF Orders
<1>13. \A j, k \in 1..Len(old) : j < k => Before(old[j], old[k])
  BY <1>8 DEF JustBefore
<1>14. \A j, k \in 1..Len(page) : j < k => Before(page[k], page[j])
  BY <1>3 DEF PrevPage
<1>15. \A j, k \in 1..Len(old) : old[j] = old[k] => j = k
  <2> SUFFICES ASSUME NEW j \in 1..Len(old), NEW k \in 1..Len(old), old[j] = old[k], j # k PROVE FALSE
    OBVIOUS
  <2>1. old[j] \in Ids /\ (j < k \/ k < j)
    BY <1>9
  <2> QED
    BY <1>1, <1>13, <2>1, BeforeIsOrder
<1>16. \A j, k \in 1..Len(page) : page[j] = page[k] => j = k
  <2> SUFFICES ASSUME NEW j \in 1..Len(page), NEW k \in 1..Len(page), page[j] = page[k], j # k PROVE FALSE
    OBVIOUS
  <2>1. page[j] \in Ids /\ (j < k \/ k < j)
    BY <1>6
  <2> QED
    BY <1>1, <1>14, <2>1, BeforeIsOrder
<1>17. /\ ToSet(old) = {old[k] : k \in 1..Len(old)}
       /\ IsFiniteSet(ToSet(old)) /\ Cardinality(ToSet(old)) = query.limit
       /\ Len(old) = query.limit
  BY <1>8, <1>9, <1>15, RowsOf DEF JustBefore
<1>18. /\ ToSet(page) = {page[k] : k \in 1..Len(page)}
       /\ IsFiniteSet(ToSet(page)) /\ Cardinality(ToSet(page)) = Len(page)
  BY <1>6, <1>16, RowsOf
<1>19. ToSet(page) \subseteq S /\ ToSet(old) \subseteq S
  <2>1. \A k \in 1..Len(page) : page[k] \in S
    BY <1>3 DEF PrevPage, S
  <2>2. \A k \in 1..Len(old) : old[k] \in Ids /\ old[k] \in S
    BY <1>8, <1>9, <1>10 DEF JustBefore
  <2> QED
    BY <1>17, <1>18, <2>1, <2>2
<1>20. query.limit \in Nat \ {0}
  BY <1>1, LimitIs DEF Table
<1>21. \A b \in S : b \notin ToSet(page) => /\ Len(page) = query.limit
                                            /\ \A a \in ToSet(page) : Before(b, a)
  <2> SUFFICES ASSUME NEW b \in S, b \notin ToSet(page)
               PROVE  Len(page) = query.limit /\ \A a \in ToSet(page) : Before(b, a)
    OBVIOUS
  <2>1. ~\E k \in 1..Len(page) : page[k] = b
    BY <1>18
  <2>2. Len(page) = query.limit /\ \A k \in 1..Len(page) : Before(b, page[k])
    BY <1>3, <2>1 DEF PrevPage, S
  <2> QED
    BY <1>18, <2>2
<1>22. \A b \in S : b \notin ToSet(old) => \A a \in ToSet(old) : Before(b, a)
  BY <1>4, <1>8, <1>10, <1>17 DEF JustBefore, S
<1>23. ToSet(old) \subseteq ToSet(page) \/ ToSet(page) \subseteq ToSet(old)
  <2> SUFFICES ASSUME NEW a \in ToSet(old), a \notin ToSet(page),
                      NEW b \in ToSet(page), b \notin ToSet(old)
               PROVE  FALSE
    OBVIOUS
  <2>1. Before(a, b) /\ Before(b, a) /\ a \in Ids /\ b \in Ids
    BY <1>4, <1>19, <1>21, <1>22 DEF S
  <2> QED
    BY <1>1, <2>1, BeforeIsOrder
<1>24. ASSUME ToSet(page) \subseteq ToSet(old) PROVE ToSet(page) = ToSet(old)
  <2>1. ASSUME NEW a \in ToSet(old), a \notin ToSet(page) PROVE FALSE
    <3>1. Cardinality(ToSet(page)) = Cardinality(ToSet(old))
      BY <1>17, <1>18, <1>19, <1>21, <2>1
    <3>2. ToSet(page) = ToSet(old)
      BY <1>17, <1>24, <3>1, FS_Subset
    <3> QED
      BY <2>1, <3>2
  <2> QED
    BY <1>24, <2>1
<1>25. ASSUME ToSet(old) \subseteq ToSet(page) PROVE ToSet(page) = ToSet(old)
  <2>1. Cardinality(ToSet(old)) <= Cardinality(ToSet(page))
    BY <1>18, <1>25, FS_Subset
  <2>2. Len(page) <= query.limit
    BY <1>3 DEF PrevPage
  <2>3. Cardinality(ToSet(page)) = Cardinality(ToSet(old))
    <3>1. PICK a, b, l : a = Cardinality(ToSet(page)) /\ b = Cardinality(ToSet(old)) /\ l = query.limit
      OBVIOUS
    <3>2. a = Len(page) /\ b = l
      BY <1>17, <1>18, <3>1
    <3>3. a \in Nat /\ l \in Nat /\ b <= a /\ a <= l
      BY <1>6, <1>20, <2>1, <2>2, <3>1, <3>2
    <3>4. a = b
      BY ONLY <3>2, <3>3
    <3> QED
      BY <3>1, <3>4
  <2>4. ToSet(page) = ToSet(old)
    BY <1>18, <1>25, <2>3, FS_Subset
  <2> QED
    BY <2>4
<1>26. ToSet(page) = ToSet(old)
  BY <1>23, <1>24, <1>25
<1>27. Len(page) = Len(old)
  BY <1>17, <1>18, <1>26
<1> DEFINE T == ToSet(old)
<1>28. /\ T \subseteq Ids /\ old \in Seq(T) /\ page \in Seq(T)
       /\ \A a \in T : \E k \in 1..Len(old) : old[k] = a
       /\ \A a \in T : \E k \in 1..Len(page) : page[k] = a
  <2>1. \A k \in 1..Len(old) : old[k] \in T /\ old[k] \in Ids
    BY <1>9, <1>17
  <2>2. \A k \in 1..Len(page) : page[k] \in T
    BY <1>18, <1>26
  <2> HIDE DEF T
  <2>3. old \in Seq(T)
    BY <1>9, <2>1
  <2>4. page \in Seq(T)
    BY <1>6, <2>2
  <2>5. \A a \in T : \E k \in 1..Len(old) : old[k] = a
    BY <1>17 DEF T
  <2>6. \A a \in T : \E k \in 1..Len(page) : page[k] = a
    BY <1>18, <1>26 DEF T
  <2>7. T \subseteq Ids
    BY <2>1, <2>5
  <2> QED
    BY <2>3, <2>4, <2>5, <2>6, <2>7
<1> HIDE DEF T
<1>29. Orders(R, T) /\ IsFiniteSet(T)
  BY <1>17, <1>12, <1>28 DEF Orders, T
<1>30. Lined(R, T, old)
  <2>1. \A k \in 1..Len(old) : old[k] \in Ids
    BY <1>9
  <2> QED
    BY <1>11, <1>13, <1>28, <2>1 DEF Lined
<1>31. \A j, k \in 1..Len(page) : j < k => <<page[k], page[j]>> \in R
  <2>1. \A k \in 1..Len(page) : page[k] \in Ids
    BY <1>6
  <2> QED
    BY <1>11, <1>14, <2>1
<1>32. page = Reverse(old)
  <2>1. page \in Seq(T) /\ \A a \in T : \E k \in 1..Len(page) : page[k] = a
    BY <1>28
  <2>2. Len(old) = Len(page)
    BY <1>27
  <2> QED
    BY ONLY <1>29, <1>30, <1>31, <2>1, <2>2, OneWayBack
<1> QED
  BY <1>32 DEF old

LEMMA BackInit == Init => BackInv
<1> SUFFICES ASSUME Init PROVE BackInv
  OBVIOUS
<1>1. WalkInv
  BY WalkInit
<1>2. pages = <<>> /\ dir = "next"
  BY DEF Init
<1> QED
  BY <1>1, <1>2 DEF BackInv, Blocks, BackReverses

LEMMA BackStep == BackInv /\ [Next]_vars => BackInv'
<1> SUFFICES ASSUME BackInv, [Next]_vars PROVE BackInv'
  OBVIOUS
<1>1. WalkInv /\ WalkInv' /\ BaseInv /\ BaseInv'
  BY WalkStep DEF BackInv, WalkInv
<1>2. CASE Open
  <2>1. Blocks'
    BY <1>1, <1>2, BlocksForward DEF Open, BackInv
  <2>2. dir' = "next"
    BY <1>2 DEF Open, GetPage
  <2> QED
    BY <1>1, <2>1, <2>2 DEF BackInv, BackReverses
<1>3. CASE Forward
  <2>1. pages # <<>>
    BY <1>1, <1>3 DEF Forward, BaseInv, Unopened
  <2>2. Blocks'
    BY <1>1, <1>3, <2>1, BlocksForward DEF Forward, BackInv
  <2>3. dir' = "next"
    BY <1>3 DEF Forward, GetPage
  <2> QED
    BY <1>1, <2>2, <2>3 DEF BackInv, BackReverses
<1>4. CASE Back
  <2>1. ~OnePass'
    BY <1>1, <1>4 DEF Back, OnePass, BaseInv, TypeOK
  <2>2. BackReverses'
    BY <1>1, <1>4, BackFinds DEF BackInv
  <2> QED
    BY <1>1, <2>1, <2>2 DEF BackInv, Blocks, Still
<1>5. ASSUME NEW id \in Ids, Insert(id) \/ Refilter(id) \/ Revalue(id) PROVE BackInv'
  <2>1. changed' # {}
    BY <1>1, <1>5, WriteIs DEF BaseInv
  <2> QED
    BY <1>1, <2>1 DEF BackInv, Blocks, Still, BackReverses
<1>6. CASE UNCHANGED vars
  <2>1. /\ \A id : Matches(id)' = Matches(id) /\ CursorOf(id)' = CursorOf(id)
        /\ \A a, b : Before(a, b)' = Before(a, b)
        /\ NullFree' = NullFree /\ Still' = Still
    BY <1>6 DEF vars, Matches, CursorOf, Key, Before, Position, NullFree, Still, OnePass
  <2>2. Blocks'
    <3> SUFFICES ASSUME Still, pages # <<>> PROVE Blocks'
      BY <1>6, <2>1 DEF Blocks, vars
    <3>1. PICK page, old : page = pages[Len(pages)] /\ old = pages[Len(pages) - 1]
      OBVIOUS
    <3>2. /\ Block(page)
          /\ next # NoCursor => Len(page) = query.limit /\ next = CursorOf(page[Len(page)])
          /\ prev # NoCursor => page # <<>> /\ prev = CursorOf(page[1])
          /\ Len(pages) > 1 /\ page # <<>> => JustBefore(old, page[1])
      BY <3>1 DEF BackInv, Blocks
    <3>3. Block(page)' /\ (Len(pages) > 1 /\ page # <<>> => JustBefore(old, page[1])')
      BY <1>6, <2>1, <3>2 DEF vars, Block, JustBefore
    <3>4. /\ next' # NoCursor => Len(page) = query'.limit /\ next' = CursorOf(page[Len(page)])'
          /\ prev' # NoCursor => page # <<>> /\ prev' = CursorOf(page[1])'
          /\ pages'[Len(pages')] = page /\ pages'[Len(pages') - 1] = old /\ pages' = pages
      BY <1>6, <2>1, <3>1, <3>2 DEF vars
    <3> QED
      BY <3>3, <3>4 DEF Blocks
  <2>3. BackReverses'
    BY <1>6, <2>1 DEF vars, BackInv, BackReverses
  <2> QED
    BY <1>1, <2>2, <2>3 DEF BackInv
<1> QED
  BY <1>2, <1>3, <1>4, <1>5, <1>6 DEF Next

\* Both listings, direction "prev": going back from a page of a table nobody has
\* written to returns the rows of the page before it from the last to the first,
\* for any page size and any length of the list.
THEOREM BackReversesThePageBefore == Spec => []BackReverses
<1>1. BackInv => BackReverses
  BY DEF BackInv
<1> QED
  BY <1>1, BackInit, BackStep, PTL DEF Spec
=============================================================================
