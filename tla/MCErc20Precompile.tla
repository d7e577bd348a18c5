------------------------- MODULE MCErc20Precompile --------------------------
(* One owner with a spender, the native coin and two vouchers.              *)
EXTENDS Erc20Precompile

CONSTANTS alice, bob

MCAccounts == {alice, bob}
MCPairs == {<<alice, bob>>}
=============================================================================
