------------------------------ MODULE Vesting -------------------------------
(***************************************************************************)
(* x/vesting: accounts whose coins vest, unlock and can be clawed back, by *)
(* the funder or by a vote, together with what else moves their coins: the *)
(* bank, Ethereum transactions (the check of the ante handler), and        *)
(* delegations as the message server of x/staking admits them.             *)
(*                                                                         *)
(* Coins are of one denomination, which is bonded and pays for gas.  A     *)
(* message that fails changes nothing, so only the ones that succeed are   *)
(* steps.                                                                  *)
(***************************************************************************)
EXTENDS VestingSchedule

CONSTANTS
    Addrs,          \* the accounts of the model
    Pool,           \* the community pool, an account of a module
    Blocked,        \* the addresses the bank sends nothing to, Pool is one
    Holders,        \* the accounts that may be turned into vesting accounts
    Payee,          \* whom they pay
    Grants,         \* what FundVestingAccount may carry: a start and two schedules
    Proposals,      \* ids of clawback proposals
    InitBalance,    \* Addrs -> coins at genesis
    MaxAmount,      \* bound: the coins of one transfer or delegation
    MaxGrants,      \* bound: the grants to one vesting account
    MaxTime         \* bound: the time at which the blocks stop

ASSUME VestingAssumption == Holders \subseteq Addrs

ASSUME CoinsAssumption ==
    /\ {Pool, Payee} \subseteq Addrs
    /\ InitBalance \in [Addrs -> Nat]
    /\ MaxAmount \in Nat

\* ValidateBasic of MsgFundVestingAccount.
ASSUME GrantsAssumption ==
    /\ Grants \subseteq [start : Int, lockup : Seq(Period), vesting : Seq(Period)]
    /\ \A g \in Grants : g.lockup # <<>> /\ g.vesting # <<>>
                        => TotalAmount(g.lockup) = TotalAmount(g.vesting)

VARIABLES
    time,           \* the time of the block, in seconds
    acc,            \* address -> account, see Eth and NewVesting
    balance,        \* address -> coins in the bank
    staked,         \* address -> bonded and unbonding coins
    govDisabled,    \* the accounts a vote cannot claw back
    activeProposal, \* the accounts marked as having an active proposal
    proposal,       \* id -> the proposal, as x/gov keeps it
    grants,         \* history: address -> the grants its account has had
    govChoice,      \* history: address -> EnableGovClawback of its account
    slashed         \* history: address -> coins lost to slashing

govVars == <<activeProposal, proposal>>
history == <<grants, govChoice, slashed>>
vars == <<time, acc, balance, staked, govDisabled, govVars, history>>

Eth == [kind |-> "eth"]
NewVesting(funder) ==
    [kind |-> "clawback", funder |-> funder, start |-> 0, end |-> 0,
     lockup |-> <<>>, vesting |-> <<>>, original |-> 0,
     delegatedFree |-> 0, delegatedVesting |-> 0]

IsClawback(a) == acc[a].kind = "clawback"

-----------------------------------------------------------------------------
\* The views of an account at time t.

GetVestedCoins(va, t) == ReadSchedule(va.start, va.end, va.vesting, va.original, t)
GetUnlockedCoins(va, t) == ReadSchedule(va.start, va.end, va.lockup, va.original, t)
GetVestingCoins(va, t) == va.original - GetVestedCoins(va, t)
GetUnlockedVestedCoins(va, t) == Min64(GetUnlockedCoins(va, t), GetVestedCoins(va, t))
GetLockedUpVestedCoins(va, t) == GetVestedCoins(va, t) - GetUnlockedVestedCoins(va, t)
HasLockedCoins(va, t) == va.original # GetUnlockedCoins(va, t)

\* Mutant: coins that are unlocked before they vest can be spent.
LockedCoinsOfLockup(va, t) ==
    Max64(0, va.original - (GetUnlockedCoins(va, t)
                            + Min64(va.delegatedFree, GetLockedUpVestedCoins(va, t))))

LockedCoins(va, t) ==
    Max64(0, va.original - (GetUnlockedVestedCoins(va, t)
                            + Min64(va.delegatedFree, GetLockedUpVestedCoins(va, t))))

\* What the bank lets an account send (subUnlockedCoins), and what the ante
\* handler lets its Ethereum transactions be worth.
Locked(a) == IF IsClawback(a) THEN LockedCoins(acc[a], time) ELSE 0
Spendable(a) == Max64(0, balance[a] - Locked(a))

\* The account with all future vesting events removed, and its clawback.
ComputeClawback(va, t) ==
    LET vested == GetVestedCoins(va, t)
        passed == ReadPastPeriodCount(va.start, va.end, va.vesting, t)
        vesting == SubSeq(va.vesting, 1, passed)
        cap == <<[length |-> 0, amount |-> vested]>>
        lockup == ConjunctPeriods(va.start, va.start, va.lockup, cap)
    IN  [account |-> [va EXCEPT !.original = vested,
                                !.end = Max64(va.start + TotalLength(vesting), lockup.end),
                                !.lockup = lockup.periods,
                                !.vesting = vesting],
         clawback |-> GetVestingCoins(va, t)]

\* SendCoins takes the coins before it adds them, also if the two are one.
Move(from, to, n) ==
    LET taken == [balance EXCEPT ![from] = @ - n]
    IN  [taken EXCEPT ![to] = @ + n]

\* ConvertVestingAccount and transferClawback leave an EthAccount behind and
\* forget that votes could not claw it back.
BackToEth(a) ==
    /\ acc' = [acc EXCEPT ![a] = Eth]
    /\ govDisabled' = govDisabled \ {a}
    /\ grants' = [grants EXCEPT ![a] = <<>>]

-----------------------------------------------------------------------------
\* The messages of x/vesting.

CreateClawbackVestingAccount(a, funder, enableGov) ==
    /\ a \in Holders \ Blocked
    /\ acc[a] = Eth
    /\ acc' = [acc EXCEPT ![a] = NewVesting(funder)]
    /\ govDisabled' = IF enableGov THEN govDisabled ELSE govDisabled \cup {a}
    /\ govChoice' = [govChoice EXCEPT ![a] = enableGov]
    /\ UNCHANGED <<time, balance, staked, govVars, grants, slashed>>

\* A schedule that the message leaves out takes effect at once.
OrInstant(periods, other) ==
    IF periods = <<>> THEN <<[length |-> 0, amount |-> TotalAmount(other)]>> ELSE periods

\* addGrant: the schedules are merged, and the coins that are really delegated
\* are split anew into vesting and free ones.
AddGrant(va, g, delegated, t) ==
    LET start == IF va.lockup = <<>> /\ va.vesting = <<>> THEN g.start ELSE va.start
        lockup == DisjunctPeriods(start, g.start, va.lockup, OrInstant(g.lockup, g.vesting))
        vesting == DisjunctPeriods(start, g.start, va.vesting, OrInstant(g.vesting, g.lockup))
        merged == [va EXCEPT !.start = lockup.start,
                             !.end = Max64(lockup.end, vesting.end),
                             !.lockup = lockup.periods,
                             !.vesting = vesting.periods,
                             !.original = @ + TotalAmount(OrInstant(g.vesting, g.lockup))]
        dv == Min64(delegated, GetVestingCoins(merged, t))
    IN  [merged EXCEPT !.delegatedVesting = dv, !.delegatedFree = delegated - dv]

FundVestingAccount(a, g) ==
    /\ a \notin Blocked
    /\ IsClawback(a)
    /\ Len(grants[a]) < MaxGrants
    /\ LET amount == TotalAmount(OrInstant(g.vesting, g.lockup))
       IN  /\ amount <= Spendable(acc[a].funder)
           /\ acc' = [acc EXCEPT ![a] = AddGrant(@, g, staked[a], time)]
           /\ balance' = Move(acc[a].funder, a, amount)
    /\ grants' = [grants EXCEPT ![a] = Append(@, g)]
    /\ UNCHANGED <<time, staked, govDisabled, govVars, govChoice, slashed>>

\* Mutant: the entry of an account that votes cannot claw back stays.
TransferClawbackOnly(a, dest) ==
    /\ acc' = [acc EXCEPT ![a] = Eth]
    /\ balance' = Move(a, dest, ComputeClawback(acc[a], time).clawback)
    /\ grants' = [grants EXCEPT ![a] = <<>>]
    /\ UNCHANGED govDisabled

\* The account is converted first, so that the bank lets its locked coins go.
TransferClawback(a, dest) ==
    /\ ComputeClawback(acc[a], time).clawback <= balance[a]
    /\ BackToEth(a)
    /\ balance' = Move(a, dest, ComputeClawback(acc[a], time).clawback)

HasPeriods(a) == IsClawback(a) /\ (acc[a].vesting # <<>> \/ acc[a].lockup # <<>>)

Clawback(a, dest) ==
    /\ a \notin activeProposal
    /\ dest \notin Blocked
    /\ HasPeriods(a)
    /\ TransferClawback(a, dest)
    /\ UNCHANGED <<time, staked, govVars, govChoice, slashed>>

UpdateVestingFunder(a, newFunder) ==
    /\ a \notin activeProposal
    /\ newFunder \notin Blocked
    /\ IsClawback(a)
    /\ newFunder # acc[a].funder
    /\ acc' = [acc EXCEPT ![a].funder = newFunder]
    /\ UNCHANGED <<time, balance, staked, govDisabled, govVars, history>>

ConvertVestingAccount(a) ==
    /\ IsClawback(a)
    /\ GetVestingCoins(acc[a], time) = 0
    /\ ~HasLockedCoins(acc[a], time)
    /\ BackToEth(a)
    /\ UNCHANGED <<time, balance, staked, govVars, govChoice, slashed>>

-----------------------------------------------------------------------------
\* Clawback by a vote: on a ClawbackProposal, the content of a legacy message,
\* or on a MsgClawback whose funder is the authority of x/gov.  A deposit is
\* below the minimum, reaches it, or is of a denomination of which the minimum
\* says nothing.

Deposits == {"below", "reaching", "foreign"}
NoProposal == [status |-> "none", legacy |-> FALSE, foreign |-> FALSE]

CanGovClawback(a) == HasPeriods(a) /\ a \notin govDisabled

\* AfterProposalDeposit: the account is marked unless all of the deposit is
\* below the minimum (IsAllLT, which a foreign denomination makes false).
\* getClawbackProposals finds legacy contents only.
AfterProposalDeposit(a, p) ==
    activeProposal' = IF p.legacy /\ (p.status = "voting" \/ p.foreign)
                      THEN activeProposal \cup {a} ELSE activeProposal

Deposited(p, kind) ==
    [p EXCEPT !.status = IF kind = "reaching" THEN "voting" ELSE @,
              !.foreign = @ \/ kind = "foreign"]

\* x/gov executes a legacy content once, without keeping the result, and takes
\* the first deposit.
SubmitProposal(id, a, legacy, kind) ==
    /\ proposal[id].status = "none"
    /\ legacy => CanGovClawback(a)
    /\ LET p == Deposited([status |-> "deposit", legacy |-> legacy,
                           foreign |-> FALSE, account |-> a], kind)
       IN  /\ proposal' = [proposal EXCEPT ![id] = p]
           /\ AfterProposalDeposit(a, p)
    /\ UNCHANGED <<time, acc, balance, staked, govDisabled, history>>

AddDeposit(id, kind) ==
    /\ proposal[id].status \in {"deposit", "voting"}
    /\ LET p == Deposited(proposal[id], kind)
       IN  /\ proposal' = [proposal EXCEPT ![id] = p]
           /\ AfterProposalDeposit(p.account, p)
    /\ UNCHANGED <<time, acc, balance, staked, govDisabled, history>>

\* AfterProposalFailedMinDeposit does nothing.
FailMinDeposit(id) ==
    /\ proposal[id].status = "deposit"
    /\ proposal' = [proposal EXCEPT ![id].status = "failed"]
    /\ UNCHANGED <<time, acc, balance, staked, govDisabled, activeProposal, history>>

\* Mutant: the mark is left when the vote does not pass.
MarkAfterVoting(id, passes) ==
    activeProposal' = IF passes THEN activeProposal \ {proposal[id].account}
                                ELSE activeProposal

\* AfterProposalVotingPeriodEnded, after the messages of a proposal that passed.
AfterProposalVotingPeriodEnded(id, passes) ==
    activeProposal' = IF proposal[id].legacy THEN activeProposal \ {proposal[id].account}
                                             ELSE activeProposal

\* Either kind claws back as the authority, which marks do not bind.
EndVoting(id, passes) ==
    LET a == proposal[id].account IN
    /\ proposal[id].status = "voting"
    /\ proposal' = [proposal EXCEPT ![id].status = "over"]
    /\ AfterProposalVotingPeriodEnded(id, passes)
    /\ IF passes /\ CanGovClawback(a)
       THEN TransferClawback(a, Pool)
       ELSE UNCHANGED <<acc, balance, govDisabled, grants>>
    /\ UNCHANGED <<time, staked, govChoice, slashed>>

-----------------------------------------------------------------------------
\* The bank and Ethereum transactions.

Send(a, n) ==
    /\ a \in Holders
    /\ n <= balance[a] - Locked(a)
    /\ balance' = Move(a, Payee, n)
    /\ UNCHANGED <<time, acc, staked, govDisabled, govVars, history>>

\* CheckVesting: the values of a sender's messages add up within what was
\* spendable when the first of them was checked.
EthereumTx(a, values) ==
    /\ a \in Holders
    /\ IsClawback(a) => balance[a] > 0
    /\ FoldLeft(+, 0, values) <= Spendable(a)
    /\ balance' = Move(a, Payee, FoldLeft(+, 0, values))
    /\ UNCHANGED <<time, acc, staked, govDisabled, govVars, history>>

\* x/staking.  Mutant: the check of the message server is missing.
DelegatableBalance(a) == balance[a]

\* validateDelegationAmountNotUnvested
Delegatable(a) ==
    IF IsClawback(a) THEN Max64(0, balance[a] - GetVestingCoins(acc[a], time))
                     ELSE balance[a]

TrackDelegation(a, n) ==
    IF IsClawback(a) THEN [acc EXCEPT ![a].delegatedFree = @ + n] ELSE acc

Delegate(a, n) ==
    /\ a \in Holders
    /\ n <= Delegatable(a)
    /\ acc' = TrackDelegation(a, n)
    /\ balance' = [balance EXCEPT ![a] = @ - n]
    /\ staked' = [staked EXCEPT ![a] = @ + n]
    /\ UNCHANGED <<time, govDisabled, govVars, history>>

\* The end of an unbonding: TrackUndelegation of the SDK takes free coins first.
CompleteUnbonding(a, n) ==
    /\ n <= staked[a]
    /\ acc' = IF ~IsClawback(a) THEN acc
              ELSE LET free == Min64(n, acc[a].delegatedFree)
                   IN  [acc EXCEPT ![a].delegatedFree = @ - free,
                                   ![a].delegatedVesting = @ - Min64(n - free, @)]
    /\ balance' = [balance EXCEPT ![a] = @ + n]
    /\ staked' = [staked EXCEPT ![a] = @ - n]
    /\ UNCHANGED <<time, govDisabled, govVars, history>>

Slash(a, n) ==
    /\ n <= staked[a]
    /\ staked' = [staked EXCEPT ![a] = @ - n]
    /\ slashed' = [slashed EXCEPT ![a] = @ + n]
    /\ UNCHANGED <<time, acc, balance, govDisabled, govVars, grants, govChoice>>

NextBlock ==
    /\ time < MaxTime
    /\ time' = time + 1
    /\ UNCHANGED <<acc, balance, staked, govDisabled, govVars, history>>

-----------------------------------------------------------------------------
Init ==
    /\ time = 1
    /\ acc = [a \in Addrs |-> Eth]
    /\ balance = InitBalance
    /\ staked = [a \in Addrs |-> 0]
    /\ govDisabled = {}
    /\ activeProposal = {}
    /\ proposal = [id \in Proposals |-> NoProposal]
    /\ grants = [a \in Addrs |-> <<>>]
    /\ govChoice = [a \in Addrs |-> FALSE]
    /\ slashed = [a \in Addrs |-> 0]

Amounts == 1..MaxAmount
Funders == Addrs \ (Holders \cup {Pool})

Messages ==
    \/ \E a \in Holders, f \in Funders, e \in BOOLEAN : CreateClawbackVestingAccount(a, f, e)
    \/ \E a \in Holders, g \in Grants : FundVestingAccount(a, g)
    \/ \E a \in Holders, d \in Funders : Clawback(a, d)
    \/ \E a \in Holders, f \in Funders : UpdateVestingFunder(a, f)
    \/ \E a \in Holders : ConvertVestingAccount(a)

Governance ==
    \/ \E id \in Proposals, a \in Holders, legacy \in BOOLEAN, k \in Deposits :
          SubmitProposal(id, a, legacy, k)
    \/ \E id \in Proposals, k \in Deposits : AddDeposit(id, k)
    \/ \E id \in Proposals : FailMinDeposit(id)
    \/ \E id \in Proposals, passes \in BOOLEAN : EndVoting(id, passes)

Movements ==
    \/ \E a \in Holders, n \in Amounts : Send(a, n)
    \/ \E a \in Holders, n, m \in Amounts : EthereumTx(a, <<n, m>>)
    \/ \E a \in Holders, n \in Amounts : Delegate(a, n)
    \/ \E a \in Holders, n \in Amounts : CompleteUnbonding(a, n)
    \/ \E a \in Holders, n \in Amounts : Slash(a, n)

Next == Messages \/ Governance \/ Movements \/ NextBlock

Spec == Init /\ [][Next]_vars

-----------------------------------------------------------------------------
\* Properties.

\* The coins that have not vested are in the account: a clawback, whenever it
\* comes, finds what ComputeClawback takes (transferClawback relies on it).
UnvestedAtHand ==
    \A a \in Holders : IsClawback(a) => GetVestingCoins(acc[a], time) <= balance[a]

\* Coins that have vested but are still locked can be staked but not spent,
\* whatever sequence of grants, delegations and undelegations the account has
\* seen: they are in the account, staked, or were slashed (LockedCoins and the
\* split that addGrant makes of the delegated coins).
LockedStaysIn ==
    \A a \in Holders : IsClawback(a) =>
        acc[a].original - GetUnlockedVestedCoins(acc[a], time)
            <= balance[a] + staked[a] + slashed[a]

\* What a schedule has released by t: the events up to t.
Due(start, periods, t) ==
    TotalAmount([i \in DOMAIN periods |->
                   [length |-> 0,
                    amount |-> IF EventTime(start, periods, i) <= t THEN periods[i].amount ELSE 0]])

\* What the grants of an account have released by t, as their sum.
Granted(g, lockups) ==
    IF lockups THEN OrInstant(g.lockup, g.vesting) ELSE OrInstant(g.vesting, g.lockup)

DueOfAll(gs, lockups, t) ==
    TotalAmount([i \in DOMAIN gs |->
                   [length |-> 0, amount |-> Due(gs[i].start, Granted(gs[i], lockups), t)]])

\* After the start of an account the merged schedules read, at any time past
\* or future, as the sum of the grants they were merged from (DisjunctPeriods).
GrantsAddUp ==
    \A a \in Holders : \A t \in 0..(MaxTime + 1) :
        IsClawback(a) /\ t > acc[a].start =>
            /\ GetVestedCoins(acc[a], t) = DueOfAll(grants[a], FALSE, t)
            /\ GetUnlockedCoins(acc[a], t) = DueOfAll(grants[a], TRUE, t)

\* The schedule that ComputeClawback returns keeps the unlocking events, up to
\* what has vested by now, and vests nothing more (ConjunctPeriods).
ClawbackKeepsUnlocking ==
    \A a \in Holders : \A t \in time..(MaxTime + 1) :
        IsClawback(a) =>
            LET after == ComputeClawback(acc[a], time).account
                vested == GetVestedCoins(acc[a], time)
            IN  /\ GetVestedCoins(after, t) = vested
                /\ GetUnlockedCoins(after, t) = Min64(GetUnlockedCoins(acc[a], t), vested)

\* Merged schedules say what their parts say, at every time: the sum of the
\* grants (DisjunctPeriods) and, after a clawback, the smaller of two schedules
\* (ConjunctPeriods).
SchedulesCombine == GrantsAddUp /\ ClawbackKeepsUnlocking

\* An account is exempt from votes exactly while it is a vesting account that
\* was created so, also when it was clawed back or converted and created again.
GovChoiceKept ==
    \A a \in Holders : a \in govDisabled <=> IsClawback(a) /\ ~govChoice[a]

\* The funder cannot overrule a vote on a ClawbackProposal for his account: it
\* is marked while one is voted on, unless another one for the account has
\* ended, and the mark goes with the vote unless a foreign deposit has made it
\* (AfterProposalDeposit and AfterProposalVotingPeriodEnded).  A vote on a
\* MsgClawback neither makes the mark nor takes it away.
VotesMarked ==
    \A a \in Holders :
        LET about(status) == {id \in Proposals : /\ proposal[id].status = status
                                                /\ proposal[id].legacy
                                                /\ proposal[id].account = a}
        IN  /\ about("voting") # {} /\ about("over") = {} => a \in activeProposal
            /\ a \in activeProposal =>
                 \/ about("voting") # {}
                 \/ \E id \in about("deposit") \cup about("failed") : proposal[id].foreign

\* Refuted by TLC when the run's cfg names it, with a vote on a MsgClawback:
\* "adds a store entry for the vesting account for the time the proposal is
\* active in order to prevent manual clawback from the funder, which could
\* overrule the community vote", hooks.go:34-36.
EveryVoteMarked ==
    \A id \in Proposals :
        proposal[id].status = "voting" => proposal[id].account \in activeProposal
=============================================================================
