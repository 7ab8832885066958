------------------------- MODULE MCReceiptNumbering -------------------------
(***************************************************************************)
(* Symmetry set for the runs of ReceiptNumbering: requests are alike, ids  *)
(* of payments are not, the code sorts by them.                            *)
(***************************************************************************)
EXTENDS ReceiptNumbering, TLC

Symmetry == Permutations(Workers)
=============================================================================
