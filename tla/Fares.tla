------------------------------- MODULE Fares -------------------------------
(***************************************************************************)
(* The money arithmetic: the three fare modes of endRide                   *)
(* (DriverRideService), the surcharge windows of a tenant, and the VAT     *)
(* lines of an export (ExportDataService).  Pure functions; the properties *)
(* at the end compare them with what they are to compute, over bounded     *)
(* inputs.                                                                 *)
(*                                                                         *)
(* Money is in cents.  Distances, minutes and multipliers are in tenths:   *)
(* the code keeps more decimals, and rounds products of them to cents in   *)
(* the same way.                                                           *)
(***************************************************************************)
EXTENDS Integers, Sequences

CONSTANTS
    TaxPercent,   \* DEFAULT_TAX_RATE, in percent
    MaxMoney,     \* bound of the inputs checked, in cents
    DayLength     \* units of time in a day (bound: 1440 minutes in the code)

ASSUME FaresAssumption ==
    TaxPercent \in 0..99 /\ MaxMoney \in Nat /\ DayLength \in Nat \ {0}

\* toDP(2): n/d to the nearest integer, a half upwards.
Rounded(n, d) == (2 * n + d) \div (2 * d)

Tax(amount) == Rounded(amount * TaxPercent, 100)

\* Mutant: the total is rounded from its own tax.
TaxedSubtotal_Twice(subtotal) ==
    [subtotal |-> subtotal, tax |-> Tax(subtotal), total |-> subtotal + Tax(subtotal + 1)]

\* The subtotal is the price before tax.
TaxedSubtotal(subtotal) ==
    [subtotal |-> subtotal, tax |-> Tax(subtotal), total |-> subtotal + Tax(subtotal)]

\* calculateMeterFare: base fare, distance and time, times the multiplier.
MeterFare(policy, km, minutes, multiplier) ==
    TaxedSubtotal(Rounded(
        (10 * policy.base + policy.perKm * km + policy.perMin * minutes) * multiplier, 100))

\* calculateFixedPriceFare: the amount is the total, and the tax is taken of it.
FixedFare(amount) ==
    [subtotal |-> amount - Tax(amount), tax |-> Tax(amount), total |-> amount]

\* calculateCustomFixedFare: the amount is the subtotal.
CustomFare(amount) == TaxedSubtotal(amount)

-----------------------------------------------------------------------------
\* Mutant: a window that wraps midnight is not recognised.
InWindow_NoWrap(w, now) == now >= w.start /\ now < w.end

\* A window may wrap midnight.
InWindow(w, now) ==
    IF w.start <= w.end THEN now >= w.start /\ now < w.end
                        ELSE now >= w.start \/ now < w.end

\* getNightTimeMultiplier: the first window that holds and has a multiplier;
\* otherwise the fare is not multiplied.
Multiplier(windows, now) ==
    LET holding == {i \in DOMAIN windows : InWindow(windows[i], now)
                                           /\ windows[i].multiplier > 0}
    IN  IF holding = {} THEN 10
        ELSE windows[CHOOSE i \in holding : \A j \in holding : i <= j].multiplier

-----------------------------------------------------------------------------
\* vatRateFor: by the day the ride ended, 14 without one.
VatRate(serviceDate, cutoff) ==
    IF serviceDate # 0 /\ serviceDate < cutoff THEN 10 ELSE 14

\* computeAmounts, when the ride has no fare: base and tax are split off the
\* payment without rounding, and rounded when the row is written.
Derived(total, rate) ==
    [subtotal |-> Rounded(total * 100, 100 + rate),
     tax      |-> Rounded(total * rate, 100 + rate),
     total    |-> total]

\* computeAmounts: the ride's own figures are trusted.
ExportAmounts(rideFare, hasFare, paid, rate) ==
    IF hasFare THEN rideFare ELSE Derived(paid, rate)

-----------------------------------------------------------------------------
(***************************************************************************)
(* Weeks.  Day 0 is a Sunday.                                              *)
(***************************************************************************)
DayOfWeek(day) == day % 7

\* DATE_TRUNC('week'): weeks begin on Monday.
TruncWeek(day) == day - ((day - 1) % 7)

\* groupRidesByPeriod, "weekly"
WeekKey(day) == day - DayOfWeek(day) + 1

-----------------------------------------------------------------------------
Money == 0..MaxMoney
Minutes == 0..(DayLength - 1)

AddsUp(f) == f.subtotal + f.tax = f.total /\ f.tax >= 0 /\ f.subtotal >= 0

\* Within half a cent of the rate.
TaxOf(amount, tax) ==
    2 * (100 * tax - TaxPercent * amount) \in (-100)..100

\* However the rounding falls, subtotal and tax of a ride add up to its total, and
\* the tax is the rate of the subtotal (of the total, for a fixed price) to the
\* nearest cent; a longer ride never costs less.  The row of an export adds up as
\* well, taken from the ride or derived from the payment alone, at the VAT rate of
\* the day the ride ended.
FaresAddUp ==
    \A n \in Money :
        /\ AddsUp(CustomFare(n)) /\ TaxOf(n, CustomFare(n).tax)
        /\ AddsUp(FixedFare(n)) /\ TaxOf(n, FixedFare(n).tax)
        /\ \A multiplier \in {5, 10, 13, 15} :
            LET policy == [base |-> n, perKm |-> 7, perMin |-> 3]
                f == MeterFare(policy, 9, 5, multiplier)
            IN  /\ AddsUp(f) /\ TaxOf(f.subtotal, f.tax)
                /\ MeterFare(policy, 10, 5, multiplier).total >= f.total
                /\ MeterFare(policy, 9, 6, multiplier).total >= f.total
        /\ \A day \in 0..2, hasFare \in BOOLEAN :
            LET row == ExportAmounts(CustomFare(n), hasFare, n, VatRate(day, 2))
                rate == IF day = 1 THEN 10 ELSE 14
            IN  /\ AddsUp(row)
                /\ hasFare \/ 2 * (row.tax * (100 + rate) - n * rate) \in (-114)..114

\* A surcharge applies during the time from its start to its end on the clock, over
\* midnight or not; a window whose start is its end never applies; of two that
\* overlap the first one counts.
SurchargeHolds ==
    \A s, e, s2, e2, now \in Minutes :
        LET Covers(a, b) == (now - a) % DayLength < (b - a) % DayLength
            windows == <<[start |-> s, end |-> e, multiplier |-> 13],
                         [start |-> s2, end |-> e2, multiplier |-> 15]>>
        IN  Multiplier(windows, now) = IF Covers(s, e) THEN 13
                                       ELSE IF Covers(s2, e2) THEN 15 ELSE 10

=============================================================================
