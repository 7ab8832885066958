---------------------------- MODULE RideLifecycle ----------------------------
(***************************************************************************)
(* What the ride and payment services promise together, with no requests,  *)
(* rows or retries in sight: a driver drives one ride at a time; a ride is *)
(* opened, completed at a fare, billed at that fare and settled, each once *)
(* and in that order.                                                      *)
(***************************************************************************)
CONSTANTS Drivers, Rides, Amounts, None

VARIABLES
    phase,   \* how far each ride has come
    driver,  \* who drives it
    fare     \* what it costs, once completed

vars == <<phase, driver, fare>>

Init ==
    /\ phase  = [r \in Rides |-> "none"]
    /\ driver = [r \in Rides |-> None]
    /\ fare   = [r \in Rides |-> None]

Advance(r, from, to) ==
    /\ phase[r] = from
    /\ phase' = [phase EXCEPT ![r] = to]

Open(r, d) ==
    /\ \A other \in Rides : driver[other] = d => phase[other] # "open"
    /\ Advance(r, "none", "open")
    /\ driver' = [driver EXCEPT ![r] = d]
    /\ UNCHANGED fare

Complete(r, amount) ==
    /\ Advance(r, "open", "completed")
    /\ fare' = [fare EXCEPT ![r] = amount]
    /\ UNCHANGED driver

Bill(r)   == Advance(r, "completed", "billed") /\ UNCHANGED <<driver, fare>>

Settle(r) == Advance(r, "billed", "settled") /\ UNCHANGED <<driver, fare>>

Next == \E r \in Rides :
    \/ \E d \in Drivers : Open(r, d)
    \/ \E amount \in Amounts : Complete(r, amount)
    \/ Bill(r)
    \/ Settle(r)

Spec == Init /\ [][Next]_vars
=============================================================================
