----------------------------- MODULE MCListings -----------------------------
(***************************************************************************)
(* Creation times for the runs of Listings: two rows of the four were      *)
(* created at the same time, and the ids do not follow the times.          *)
(***************************************************************************)
EXTENDS Listings

MCCreated == 1 :> 2 @@ 2 :> 1 @@ 3 :> 2 @@ 4 :> 3
MCCreated3 == [id \in 1..3 |-> MCCreated[id]]
=============================================================================
