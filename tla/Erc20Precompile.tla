-------------------------- MODULE Erc20Precompile ---------------------------
(***************************************************************************)
(* Coins as tokens of the EVM: the registry of the ERC-20 precompiles,     *)
(* which receipts over IBC and governance both write, with the code hash   *)
(* of their accounts, and the calls of the precompiles, which keep all     *)
(* allowances of one owner to one spender in one SendAuthorization of the  *)
(* authz module.  The native coin is a token under NativePrecompiles.  A   *)
(* call that fails changes nothing and is not a step.                      *)
(***************************************************************************)
EXTENDS Integers, FiniteSets

CONSTANTS
    Accounts,
    Pairs,         \* owners with spenders, the owner never the spender
    Native,        \* the native coin
    Vouchers,      \* IBC coins of a single hop
    Lifetime,      \* ApprovalExpiration
    MaxAmount,     \* bound: allowances, and the owners' coins of each kind
    MaxTime,       \* bound: the clock
    MaxRevoked     \* bound: authz messages of each owner for each spender

Tokens == Vouchers \union {Native}

ASSUME PrecompileAssumption ==
    /\ Native \notin Vouchers
    /\ Lifetime \in Nat
    /\ MaxAmount \in Nat

VARIABLES
    enableErc20,   \* EnableErc20
    registered,    \* vouchers with a token pair
    dynamic,       \* DynamicPrecompiles
    codes,         \* accounts of vouchers with the code hash of the precompile
    grants,
    revoked,
    balance,
    now

registry == <<enableErc20, registered, dynamic, codes>>
precompileVars == <<registry, grants, revoked, balance, now>>

Nothing == [t \in Tokens |-> 0]
NoGrant == [kind |-> "none", limit |-> Nothing, expiration |-> 0]

PrecompileInit ==
    /\ enableErc20 = TRUE
    /\ registered = {}
    /\ dynamic = {}
    /\ codes = {}
    /\ grants = [p \in Pairs |-> NoGrant]
    /\ revoked = [p \in Pairs |-> 0]
    /\ balance = [a \in Accounts |-> [t \in Tokens |->
                    IF \E p \in Pairs : p[1] = a THEN MaxAmount ELSE 0]]
    /\ now = 0

-----------------------------------------------------------------------------
(* The registry.                                                           *)

\* mutant: the difference is taken after the new list is stored
CodeHashesOfStored(list) == codes

\* UpdateCodeHash: vouchers that leave the list lose the code, new ones get it.
UpdateCodeHash(list) == (codes \ (dynamic \ list)) \union (list \ dynamic)

SetParams(enable, list) ==
    /\ codes' = UpdateCodeHash(list)
    /\ enableErc20' = enable
    /\ dynamic' = list

\* OnRecvPacket of a voucher without a pair: RegisterERC20Extension; if the
\* address is on the list already, the error acknowledgement reverts it all.
RegisterERC20Extension(v) ==
    /\ enableErc20
    /\ v \notin registered
    /\ v \notin dynamic
    /\ registered' = registered \union {v}
    /\ SetParams(enableErc20, dynamic \union {v})
    /\ UNCHANGED <<grants, revoked, balance, now>>

\* Governance replaces all parameters by those of a proposal, written days ago
\* and unaware of what was registered since.
PrecompileUpdateParams(enable, list) ==
    /\ SetParams(enable, list)
    /\ UNCHANGED <<registered, grants, revoked, balance, now>>

\* GetERC20PrecompileInstance: a listed voucher without a pair is an error.
Available(t) == t = Native \/ (t \in dynamic /\ t \in registered)

-----------------------------------------------------------------------------
(* Calls.                                                                  *)

Saved(limit, expiration) ==
    [kind |-> "send", limit |-> limit, expiration |-> expiration]

createAuthorization(t, n) == Saved([Nothing EXCEPT ![t] = n], now + Lifetime)

updateAuthorization(g, t, n) == Saved([g.limit EXCEPT ![t] = n], g.expiration)

\* mutant: the whole authorization goes with the allowance in one token
DeleteAuthorization(g, t) == NoGrant

removeSpendLimitOrDeleteAuthorization(g, t) ==
    LET limit == [g.limit EXCEPT ![t] = 0]
    IN  IF limit = Nothing THEN NoGrant ELSE Saved(limit, g.expiration)

Stored(p, g) ==
    /\ grants' = [grants EXCEPT ![p] = g]
    /\ UNCHANGED <<registry, revoked, balance, now>>

\* Without a grant, approving nothing succeeds and stores nothing; with a
\* grant that has no limit in this token it fails.
Approve(p, t, n) ==
    LET g == grants[p]
    IN  /\ Available(t)
        /\ \/ /\ g = NoGrant
              /\ n > 0
              /\ Stored(p, createAuthorization(t, n))
           \/ /\ g.kind = "send"
              /\ n = 0
              /\ g.limit[t] > 0
              /\ Stored(p, removeSpendLimitOrDeleteAuthorization(g, t))
           \/ /\ g.kind = "send"
              /\ n > 0
              /\ Stored(p, updateAuthorization(g, t, n))

IncreaseAllowance(p, t, n) ==
    LET g == grants[p]
    IN  /\ Available(t)
        /\ n > 0
        /\ \/ g = NoGrant /\ Stored(p, createAuthorization(t, n))
           \/ /\ g.kind = "send"
              /\ g.limit[t] + n <= MaxAmount
              /\ Stored(p, updateAuthorization(g, t, g.limit[t] + n))

DecreaseAllowance(p, t, n) ==
    LET g == grants[p]
    IN  /\ Available(t)
        /\ n > 0
        /\ g.kind = "send"
        /\ \/ /\ n < g.limit[t]
              /\ Stored(p, updateAuthorization(g, t, g.limit[t] - n))
           \/ /\ n = g.limit[t]
              /\ Stored(p, removeSpendLimitOrDeleteAuthorization(g, t))

Paid(from, to, t, n) ==
    [a \in Accounts |-> [balance[a] EXCEPT
        ![t] = @ - (IF a = from THEN n ELSE 0) + (IF a = to THEN n ELSE 0)]]

\* SendAuthorization.Accept: the limit falls by the amount, and the grant is
\* deleted with the last of its limits.
Accept(g, t, n) ==
    LET limit == [g.limit EXCEPT ![t] = @ - n]
    IN  IF limit = Nothing THEN NoGrant ELSE Saved(limit, g.expiration)

\* transferFrom by the spender: GetAuthzExpirationAndAllowance fails unless
\* the grant is a SendAuthorization, and DispatchActions executes the message.
TransferFrom(p, to, t, n) ==
    LET g == grants[p]
    IN  /\ Available(t)
        /\ n > 0
        /\ g.kind = "send"
        /\ n <= g.limit[t]
        /\ n <= balance[p[1]][t]
        /\ balance' = Paid(p[1], to, t, n)
        /\ grants' = [grants EXCEPT ![p] = Accept(g, t, n)]
        /\ UNCHANGED <<registry, revoked, now>>

\* transfer, and transferFrom by the owner.
PrecompileTransfer(from, to, t, n) ==
    /\ Available(t)
    /\ n > 0
    /\ n <= balance[from][t]
    /\ balance' = Paid(from, to, t, n)
    /\ UNCHANGED <<registry, grants, revoked, now>>

-----------------------------------------------------------------------------
(* The authz module.                                                       *)

\* The owner revokes the grant, or puts a GenericAuthorization in its place.
AuthzMessage(p, g) ==
    /\ revoked[p] < MaxRevoked
    /\ revoked' = [revoked EXCEPT ![p] = @ + 1]
    /\ grants' = [grants EXCEPT ![p] = g]
    /\ UNCHANGED <<registry, balance, now>>

Generic == [kind |-> "generic", limit |-> Nothing, expiration |-> 0]

\* Time passes; expired grants are neither found nor kept.
NextBlock ==
    /\ now < MaxTime
    /\ now' = now + 1
    /\ grants' = [p \in Pairs |->
         IF grants[p].kind = "send" /\ grants[p].expiration < now'
         THEN NoGrant ELSE grants[p]]
    /\ UNCHANGED <<registry, revoked, balance>>

CallAmounts == 0 .. MaxAmount

PrecompileNext ==
    \/ \E v \in Vouchers : RegisterERC20Extension(v)
    \/ \E enable \in BOOLEAN, list \in SUBSET Vouchers : PrecompileUpdateParams(enable, list)
    \/ \E p \in Pairs, t \in Tokens, n \in CallAmounts : Approve(p, t, n)
    \/ \E p \in Pairs, t \in Tokens, n \in CallAmounts : IncreaseAllowance(p, t, n)
    \/ \E p \in Pairs, t \in Tokens, n \in CallAmounts : DecreaseAllowance(p, t, n)
    \/ \E p \in Pairs, to \in Accounts, t \in Tokens, n \in CallAmounts :
          TransferFrom(p, to, t, n)
    \/ \E from, to \in Accounts, t \in Tokens, n \in CallAmounts :
          PrecompileTransfer(from, to, t, n)
    \/ \E p \in Pairs, g \in {NoGrant, Generic} : AuthzMessage(p, g)
    \/ NextBlock

PrecompileSpec == PrecompileInit /\ [][PrecompileNext]_precompileVars

-----------------------------------------------------------------------------
(* Properties.                                                             *)

\* The accounts with the precompile's code are those of the listed vouchers,
\* however receipts that register and proposals that replace the list follow
\* one another: no voucher is called without code and none keeps the code of
\* a precompile that is no longer there.
PrecompilesHaveCode == codes = dynamic

Tokens_allowance == [p \in Pairs |-> grants[p].limit]
Tokens_expires == [p \in Pairs |-> grants[p].expiration]

Abstract == INSTANCE Allowances WITH
    Amounts <- CallAmounts,
    allowance <- Tokens_allowance, expires <- Tokens_expires

\* The precompiles keep the promises of ERC-20 although all tokens share one
\* authorization per owner and spender: approving, taking back or spending
\* the allowance in one token leaves the others as they were, and coins move
\* only by their owner or against an allowance in that token.
ImplementsAllowances == Abstract!Init /\ [][Abstract!Next]_<<Tokens_allowance,
                            Tokens_expires, revoked, balance, now>>
=============================================================================
