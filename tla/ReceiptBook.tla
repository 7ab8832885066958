---------------------------- MODULE ReceiptBook ----------------------------
(***************************************************************************)
(* What receipt numbering promises a book-keeper: one book per month, in   *)
(* which a payment is entered at most once in its life, lines are numbered *)
(* 1, 2, 3, ... and no line is ever changed, removed or used again.        *)
(***************************************************************************)
EXTENDS Naturals, Sequences

CONSTANTS Payments, Months

VARIABLE book   \* for each month, the payments in the order of their numbers

Entered == UNION {{book[m][n] : n \in DOMAIN book[m]} : m \in Months}

Init == book = [m \in Months |-> <<>>]

\* One export enters some payments of one month after the last line.
Enter(m, lines) ==
    /\ \A n \in DOMAIN lines : lines[n] \in Payments \ Entered
    /\ \A i, j \in DOMAIN lines : lines[i] = lines[j] => i = j
    /\ book' = [book EXCEPT ![m] = @ \o lines]

\* The lines entered are read off the book itself.
Next == \E m \in Months :
    Enter(m, SubSeq(book'[m], Len(book[m]) + 1, Len(book'[m])))

Spec == Init /\ [][Next]_book
=============================================================================
