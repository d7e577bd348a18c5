---------------------------- MODULE MCFeeMarket ----------------------------
(* Constants for checking FeeMarket: a block limit of 6 units of gas, fees *)
(* below 10 and decimals in halves.                                        *)
EXTENDS FeeMarket

MCParams(baseFee, elasticity, minGasPrice) ==
    [noBaseFee |-> FALSE, enableHeight |-> 1, baseFee |-> baseFee,
     denominator |-> 4, elasticity |-> elasticity,
     minGasPrice |-> minGasPrice, minGasMultiplier |-> 1]

MCDisabled == [MCParams(7, 2, 0) EXCEPT !.noBaseFee = TRUE]
MCEnabledLater == [MCParams(5, 2, 7) EXCEPT !.enableHeight = 3]
MCAllWantedCounts == [MCParams(6, 3, 0) EXCEPT !.minGasMultiplier = 2]

\* Floors of 0, 3 and 4 (the last one truncated from 4.5), base fees below and
\* above them, and an elasticity of zero, which stops the chain.
MCParamSets ==
    {MCParams(8, 2, 0), MCParams(2, 2, 6), MCParams(9, 2, 9),
     MCDisabled, MCEnabledLater, MCAllWantedCounts, MCParams(8, 0, 0)}
=============================================================================
