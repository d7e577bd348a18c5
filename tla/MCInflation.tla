----------------------------- MODULE MCInflation -----------------------------
(* Constants for checking Inflation: a day of two time units, a week of six. *)
EXTENDS Inflation

CONSTANTS alice, bob, module

MCDuration == [id \in Ids |-> IF id = DayEpochID THEN 2 ELSE 6]

MCPow2 == [n \in 0 .. MaxHalvingPeriod |-> 2 ^ n]

MCParams(enable, emission, interval, cap, to) ==
    [EnableInflation |-> enable, DailyEmission |-> emission,
     HalvingIntervalEpochs |-> interval, MaxSupply |-> cap, MultiSigAddress |-> to]

MCGenesisParams == MCParams(TRUE, 4, 2, 15, NoAddress)

\* Governance switches inflation off, shortens or stretches the interval,
\* raises or lowers the cap, changes the emission, or returns to the emission
\* and the interval of the genesis.
MCProposals ==
    {MCParams(FALSE, 4, 2, 9, NoAddress), MCParams(TRUE, 4, 1, 20, alice),
     MCParams(TRUE, 3, 3, 30, NoAddress), MCParams(TRUE, 4, 2, 15, Malformed),
     MCParams(TRUE, 4, 2, 30, alice)}
=============================================================================
