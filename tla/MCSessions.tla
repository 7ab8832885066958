----------------------------- MODULE MCSessions -----------------------------
(***************************************************************************)
(* Sessions for model checking: the seeded admin and driver and one new    *)
(* address; half-second ticks.  Requests and invitations are alike.        *)
(***************************************************************************)
EXTENDS Sessions, TLC

MCSymmetry == Permutations(Requests) \union Permutations(Invitations)
=============================================================================
