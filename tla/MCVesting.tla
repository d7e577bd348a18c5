----------------------------- MODULE MCVesting ------------------------------
(* One account that becomes a vesting account, two funders, and grants of   *)
(* one or two coins: one with both schedules, one that unlocks at once and  *)
(* began earlier, one that vests at once and begins later.                  *)
EXTENDS StakingGate

CONSTANTS holder, funder1, funder2, pool

P(length, amount) == [length |-> length, amount |-> amount]

MCGrants ==
    {[start |-> 1, lockup |-> <<P(2, 2)>>, vesting |-> <<P(1, 1), P(1, 1)>>],
     [start |-> 0, lockup |-> <<>>, vesting |-> <<P(3, 1)>>],
     [start |-> 2, lockup |-> <<P(1, 1)>>, vesting |-> <<>>]}

MCBalance == [a \in {holder, funder1, funder2, pool} |->
                CASE a = holder -> 0 [] a = funder1 -> 3 [] OTHER -> 0]

\* An operator that is approved, while the requirements cannot be read; and one
\* that is not.
MCApproved == {[approved |-> TRUE, required |-> Failed, nfts |-> 1]}
MCAnswers ==
    MCApproved \cup
    {[approved |-> FALSE, required |-> [tokens |-> 1, nfts |-> 1], nfts |-> 0]}
=============================================================================
