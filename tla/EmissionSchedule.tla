--------------------------- MODULE EmissionSchedule ---------------------------
(***************************************************************************)
(* What the halving promises while the emission and the interval stand:    *)
(* the end of a day issues the scheduled amount of that day or nothing.    *)
(* x/inflation implements it, whatever makes it withhold a day.            *)
(***************************************************************************)
EXTENDS HalvingCalculation

CONSTANTS DailyEmission, Interval

\* The theorems about the schedule assume it.
ScheduleAssumption == DailyEmission \in Nat /\ Interval \in Nat \ {0}

VARIABLES
    startEpoch,   \* the first day of period 0 (HalvingData.StartEpoch)
    day,          \* the number of days that have ended
    issued        \* what they issued in all

scheduleVars == <<startEpoch, day, issued>>

Scheduled(d) ==
    CalculateDailyEmission(DailyEmission, CalculateHalvingPeriod(d, startEpoch, Interval))

Init == startEpoch \in Nat \ {0} /\ day = 0 /\ issued = 0

Issue    == day' = day + 1 /\ issued' = issued + Scheduled(day + 1) /\ UNCHANGED startEpoch
Withhold == day' = day + 1 /\ UNCHANGED <<issued, startEpoch>>

Next == Issue \/ Withhold

Spec == Init /\ [][Next]_scheduleVars

-----------------------------------------------------------------------------
(***************************************************************************)
(* The whole issuance is bounded although the days are not: the days       *)
(* before startEpoch pay in full (CalculateHalvingPeriod gives them period *)
(* 0) and all the periods together pay less than twice the first one.      *)
(***************************************************************************)
IssuanceBounded == issued <= (startEpoch - 1 + 2 * Interval) * DailyEmission

(***************************************************************************)
(* What may still be issued from day d on: the full days before startEpoch *)
(* and then, k days into period p, 2 * Interval - k days at the emission   *)
(* of p.  A halving at k = Interval leaves room for 2 * Interval days at   *)
(* half the emission.                                                      *)
(***************************************************************************)
Remaining(d) ==
    IF d < startEpoch
    THEN (startEpoch - d + 2 * Interval) * DailyEmission
    ELSE (2 * Interval - ((d - startEpoch) % Interval)) * Scheduled(d)

\* The inductive strengthening of IssuanceBounded.
IssuedAndRemaining ==
    issued + Remaining(day + 1) <= (startEpoch - 1 + 2 * Interval) * DailyEmission
=============================================================================
