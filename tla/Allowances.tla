----------------------------- MODULE Allowances -----------------------------
(***************************************************************************)
(* What IERC20.sol promises of a token's allowances, for several tokens    *)
(* whose allowances of one owner to one spender end at the same time: an   *)
(* owner's call changes one allowance in one token, a spender moves the    *)
(* owner's coins only against its allowance in that very token, and        *)
(* nothing else moves coins or changes allowances before they end.         *)
(***************************************************************************)
EXTENDS Integers

CONSTANTS
    Accounts, Tokens,
    Pairs,       \* of an owner and a spender
    Amounts,     \* the numbers that a call may name
    Lifetime

VARIABLES
    allowance,   \* of each pair of owner and spender, in each token
    expires,     \* when the allowances of a pair end
    revoked,     \* revocations outside the tokens, of each pair
    balance,
    now

None == [t \in Tokens |-> 0]
Moved(from, to, t, n) ==
    [a \in Accounts |-> [balance[a] EXCEPT
        ![t] = @ - (IF a = from THEN n ELSE 0) + (IF a = to THEN n ELSE 0)]]

Init ==
    /\ allowance = [p \in Pairs |-> None]
    /\ expires = [p \in Pairs |-> 0]
    /\ revoked = [p \in Pairs |-> 0]
    /\ balance \in [Accounts -> [Tokens -> Nat]]
    /\ now = 0

\* approve, increaseAllowance or decreaseAllowance: the first allowance of a
\* pair starts the time, and the last to be taken back ends it.
Set(p, t, n) ==
    /\ allowance' = [allowance EXCEPT ![p][t] = n]
    /\ expires' = [expires EXCEPT ![p] =
         IF allowance'[p] = None THEN 0
         ELSE IF allowance[p] = None THEN now + Lifetime ELSE @]
    /\ UNCHANGED <<revoked, balance, now>>

\* transferFrom
Spend(p, t, n, to) ==
    /\ 0 < n
    /\ n <= allowance[p][t]
    /\ n <= balance[p[1]][t]
    /\ allowance' = [allowance EXCEPT ![p][t] = @ - n]
    /\ expires' = [expires EXCEPT ![p] = IF allowance'[p] = None THEN 0 ELSE @]
    /\ balance' = Moved(p[1], to, t, n)
    /\ UNCHANGED <<revoked, now>>

\* transfer
Pay(from, to, t, n) ==
    /\ n <= balance[from][t]
    /\ balance' = Moved(from, to, t, n)
    /\ UNCHANGED <<allowance, expires, revoked, now>>

\* The owner ends the allowances of a pair in every token.
Revoke(p) ==
    /\ revoked' = [revoked EXCEPT ![p] = @ + 1]
    /\ allowance' = [allowance EXCEPT ![p] = None]
    /\ expires' = [expires EXCEPT ![p] = 0]
    /\ UNCHANGED <<balance, now>>

Tick ==
    /\ now' = now + 1
    /\ LET ended == {p \in Pairs : expires[p] < now'}
       IN  /\ allowance' = [p \in Pairs |-> IF p \in ended THEN None ELSE allowance[p]]
           /\ expires' = [p \in Pairs |-> IF p \in ended THEN 0 ELSE expires[p]]
    /\ UNCHANGED <<revoked, balance>>

Next ==
    \/ \E p \in Pairs, t \in Tokens, n \in Amounts : Set(p, t, n)
    \/ \E p \in Pairs, t \in Tokens, n \in Amounts, to \in Accounts : Spend(p, t, n, to)
    \/ \E from, to \in Accounts, t \in Tokens, n \in Amounts : Pay(from, to, t, n)
    \/ \E p \in Pairs : Revoke(p)
    \/ Tick

Spec == Init /\ [][Next]_<<allowance, expires, revoked, balance, now>>
=============================================================================
