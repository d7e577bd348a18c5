------------------------------ MODULE MCEvmTx ------------------------------
(* Constants for checking EvmTx: two accounts, one of which sends calls and *)
(* deployments and the other calls only, blocks of 4 units of gas, decimals *)
(* in halves.                                                               *)
EXTENDS EvmTx

CONSTANTS a, b

MCParams(noBaseFee, minGasPrice) ==
    [noBaseFee |-> noBaseFee, enableHeight |-> 1, baseFee |-> 1,
     denominator |-> 2, elasticity |-> 2,
     minGasPrice |-> minGasPrice, minGasMultiplier |-> 1]

MCMessage(from, n, gas, cap, kind, value, to) ==
    [from |-> from, nonce |-> n, gas |-> gas, cap |-> cap, tip |-> 1,
     kind |-> kind, value |-> value, to |-> to]

\* A message with a cap above its effective price, one that sends a coin, one
\* whose gas is below the intrinsic gas, and a deployment.
MCMessages ==
    {MCMessage(a, n, 2, 3, "call", 1, b) : n \in 0 .. 1}
    \cup {MCMessage(a, n, 2, 2, "create", 0, a) : n \in 0 .. 1}
    \cup {MCMessage(b, 0, 1, 2, "call", 0, a), MCMessage(b, 0, 0, 2, "call", 0, a)}

\* A minimum price of 1.5, and no base fee with all of the gas limit charged.
MCParamSets ==
    {MCParams(FALSE, 3), [MCParams(TRUE, 0) EXCEPT !.minGasMultiplier = 2]}

\* A Cosmos transaction with a fee that its gas does not divide.
MCCosmosTxs == {[from |-> b, gas |-> 4, fee |-> 9, tip |-> 1]}
=============================================================================
