------------------------- MODULE MCPricingPolicies -------------------------
(***************************************************************************)
(* Symmetry sets for the runs of PricingPolicies that check safety only.   *)
(***************************************************************************)
EXTENDS PricingPolicies, TLC

Symmetry == Permutations(Workers) \cup Permutations(Policies)
=============================================================================
