CONSTANTS
    holder = holder
    funder1 = funder1
    funder2 = funder2
    pool = pool
    Addrs = {holder, funder1, funder2, pool}
    Pool = pool
    Blocked = {pool}
    Holders = {holder}
    Payee = funder2
    Grants <- MCGrants
    Proposals = {"p1"}
    InitBalance <- MCBalance
    MaxAmount = 3
    MaxGrants = 2
    MaxTime = 3
    Failed = Failed
    ContractAnswers <- MCApproved
    MinSelfDelegations = {1}
    DefaultTokens = 1
    DefaultNFTs = 1
SPECIFICATION GateSpec
CHECK_DEADLOCK FALSE
INVARIANTS UnvestedAtHand LockedStaysIn SchedulesCombine GovChoiceKept VotesMarked
