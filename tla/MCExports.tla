----------------------------- MODULE MCExports -----------------------------
(***************************************************************************)
(* Exports for model checking: the rides of the payments end one month     *)
(* after the other; requests are alike.                                    *)
(***************************************************************************)
EXTENDS Exports, TLC

MCEnded == [p \in Payments |-> p]

MCSymmetry == Permutations(Workers)
=============================================================================
