--------------------------- MODULE MCRidePayments ---------------------------
(***************************************************************************)
(* Symmetry sets for the runs of RidePayments that check safety only.      *)
(***************************************************************************)
EXTENDS RidePayments, TLC

Symmetry == Permutations(Workers) \cup Permutations(Payments)
            \cup Permutations(Rides) \cup Permutations(Transactions)
            \cup Permutations(Drivers)
=============================================================================
