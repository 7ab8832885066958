----------------------------- MODULE MCReports -----------------------------
(***************************************************************************)
(* Reports over two rides at a metered fare, with a surcharge.             *)
(***************************************************************************)
EXTENDS Reports, TLC

MCSymmetry == Permutations(Rides)

MCAmounts == {MeterFare([base |-> 350, perKm |-> 190, perMin |-> 55], 31, 122, 13)}
=============================================================================
