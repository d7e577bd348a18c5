-------------------------- MODULE HalvingCalculation --------------------------
(***************************************************************************)
(* The pure functions of x/inflation/v1/types/halving_calculation.go: the  *)
(* halving period of an epoch, the emission of a period, the test for a    *)
(* halving and the epoch of the next one.                                  *)
(***************************************************************************)
EXTENDS Integers

CONSTANTS
    MaxHalvingPeriod,   \* line 32: 63, so that 1 << period fits an int64
    Pow2                \* Pow2[n] is 1 << n, for n up to MaxHalvingPeriod

ASSUME Pow2Assumption ==
    /\ MaxHalvingPeriod \in Nat \ {0}
    /\ Pow2 \in [0 .. MaxHalvingPeriod -> Nat \ {0}]
    /\ Pow2[0] = 1
    /\ \A n \in 0 .. (MaxHalvingPeriod - 1) : Pow2[n + 1] = 2 * Pow2[n]

\* The division is over unsigned 64-bit integers; interval = 0 panics, and is
\* kept away by the callers' guards.
CalculateHalvingPeriod(epoch, start, interval) ==
    IF epoch < start THEN 0 ELSE (epoch - start) \div interval

CalculateDailyEmission(dailyEmission, p) ==
    IF p >= MaxHalvingPeriod THEN 0 ELSE dailyEmission \div Pow2[p]

\* Variant: any epoch of the last halving's period counts as a halving.
ShouldHalveAgain(epoch, start, lastHalvingEpoch, interval) ==
    CalculateHalvingPeriod(epoch, start, interval)
        >= CalculateHalvingPeriod(lastHalvingEpoch, start, interval)

ShouldHalve(epoch, start, lastHalvingEpoch, interval) ==
    CalculateHalvingPeriod(epoch, start, interval)
        > CalculateHalvingPeriod(lastHalvingEpoch, start, interval)
=============================================================================
