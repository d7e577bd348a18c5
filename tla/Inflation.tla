------------------------------ MODULE Inflation ------------------------------
(***************************************************************************)
(* x/inflation/v1 driven by x/epochs: the daily mint whose amount halves   *)
(* every HalvingIntervalEpochs days, the supply cap, the multi-signature   *)
(* recipient, governance updates of the parameters, and a restart of the   *)
(* chain from an exported genesis.                                         *)
(***************************************************************************)
EXTENDS Epochs, HalvingCalculation, Sequences, FiniteSets

CONSTANTS
    GenesisParams,      \* the parameters of the genesis file
    GenesisSupply,      \* the bank supply of the mint denomination at genesis
    GenesisStartEpochs, \* the StartEpoch values a genesis file may carry
    ParamProposals,     \* the inflation parameters governance may propose
    Unset,              \* an amount that the message or file leaves out (nil)
    Recipients,         \* the well-formed bech32 addresses
    Blocked,            \* those among them the bank blocks (module accounts)
    NoAddress,          \* the empty string
    Malformed,          \* an address that is not bech32
    DefaultMultiSigAddress,
    MultiSigProposals,  \* the EVM MultiSigAddress values governance may propose
    BurnAmounts,        \* the amounts other modules may burn (slashing, gov)
    MaxEvents           \* bound: governance updates, burns and restarts in all

Amounts == Nat \cup {Unset}
AddressStrings == Recipients \cup {NoAddress, Malformed}

ProposedParams == [EnableInflation : BOOLEAN, DailyEmission : Amounts,
                   HalvingIntervalEpochs : Nat, MaxSupply : Amounts,
                   MultiSigAddress : AddressStrings]

Params == [EnableInflation : BOOLEAN, DailyEmission : Nat,
           HalvingIntervalEpochs : Nat, MaxSupply : Nat,
           MultiSigAddress : Recipients \cup {NoAddress}]

DayEpochID == "day"

ASSUME InflationAssumption ==
    /\ DayEpochID \in Ids
    /\ GenesisParams \in ProposedParams
    /\ ParamProposals \subseteq ProposedParams
    /\ GenesisSupply \in Nat
    /\ GenesisStartEpochs \subseteq Nat \ {0}
    /\ Unset \notin Nat
    /\ {NoAddress, Malformed} \cap Recipients = {} /\ NoAddress # Malformed
    /\ Blocked \subseteq Recipients
    /\ DefaultMultiSigAddress \in Recipients
    /\ MultiSigProposals \subseteq AddressStrings
    /\ BurnAmounts \subseteq Nat \ {0}
    /\ MaxEvents \in Nat

VARIABLES
    params,              \* the stored module parameters
    evmMultiSig,         \* MultiSigAddress of the x/evm parameters
    supply,              \* bank supply of the mint denomination
    halvingData,         \* CurrentPeriod, LastHalvingEpoch, StartEpoch
    skippedEpochs,
    period,
    epochMintProvision,  \* what the mint of the last minting day stored
    halted,              \* a panic in BeginBlock stopped the chain
    events,              \* governance updates, burns and restarts so far
    history,             \* what each ended day's hook did (history variable)
    issued,              \* what the hook minted in all (history variable)
    highestCap           \* the highest MaxSupply ever stored (history variable)

\* What the hook writes, apart from the supply.
hookVars == <<halvingData, skippedEpochs, period, epochMintProvision, history, issued>>
mintVars == <<supply, hookVars>>
paramVars == <<params, evmMultiSig, highestCap>>
vars == <<epochVars, mintVars, paramVars, halted, events>>

Outcomes == {"disabled", "no emission", "cap reached", "minted"}

DayRecord == [epochNumber : Nat, outcome : Outcomes, amount : Nat, period : Nat,
              interval : Nat]

-----------------------------------------------------------------------------
(* Parameters *)

ValidMultiSigAddress(a) == a \in Recipients \cup {NoAddress}

\* A nil emission or cap skips the halving checks (lines 107-110).
ValidHalvingParams(p) ==
    Unset \notin {p.DailyEmission, p.MaxSupply} =>
        /\ p.DailyEmission > 0
        /\ p.HalvingIntervalEpochs > 0
        /\ p.MaxSupply > 0
        /\ p.DailyEmission <= p.MaxSupply
        /\ ValidMultiSigAddress(p.MultiSigAddress)

ValidParams(p) == ValidMultiSigAddress(p.MultiSigAddress) /\ ValidHalvingParams(p)

\* A nil amount is marshalled, and read back, as zero.
StoredAmount(a) == IF a = Unset THEN 0 ELSE a

Stored(p) == [p EXCEPT !.DailyEmission = StoredAmount(@), !.MaxSupply = StoredAmount(@)]

Larger(a, b) == IF a >= b THEN a ELSE b

-----------------------------------------------------------------------------
(* The halving arithmetic over the stored state *)

PeriodOf(epoch) ==
    CalculateHalvingPeriod(epoch, halvingData.StartEpoch, params.HalvingIntervalEpochs)

\* Variant: the emission of the stored period instead of the calculated one.
EmissionOfStoredPeriod(epoch) ==
    CalculateDailyEmission(params.DailyEmission, halvingData.CurrentPeriod)

EmissionOf(epoch) == CalculateDailyEmission(params.DailyEmission, PeriodOf(epoch))

\* The division by a zero interval panics.
PeriodPanics(epoch) ==
    epoch >= halvingData.StartEpoch /\ params.HalvingIntervalEpochs = 0

NaturalHalving(epoch) ==
    ShouldHalve(epoch, halvingData.StartEpoch, halvingData.LastHalvingEpoch,
                params.HalvingIntervalEpochs)

\* Variant: the supply before the mint is compared with the cap.
UnderSupplyCap(amount) == supply < params.MaxSupply

WithinSupplyCap(amount) == supply + amount <= params.MaxSupply

Recipient ==
    IF evmMultiSig # NoAddress THEN evmMultiSig
    ELSE IF params.MultiSigAddress # NoAddress THEN params.MultiSigAddress
    ELSE DefaultMultiSigAddress

-----------------------------------------------------------------------------
(* The AfterEpochEnd hook.  It is called with the number n of the epoch    *)
(* that starts; the code subtracts one to get the epoch that ended.        *)

DayEnded(n, outcome, amount) ==
    [epochNumber |-> n, outcome |-> outcome, amount |-> amount,
     period |-> IF params.EnableInflation THEN PeriodOf(n - 1) ELSE 0,
     interval |-> params.HalvingIntervalEpochs]

SkipDisabled(n) ==
    /\ ~params.EnableInflation
    /\ skippedEpochs' = skippedEpochs + 1
    /\ history' = Append(history, DayEnded(n, "disabled", 0))
    /\ UNCHANGED <<supply, halvingData, period, epochMintProvision, issued>>

RefuseZeroEmission(n) ==
    /\ params.EnableInflation
    /\ EmissionOf(n - 1) = 0
    /\ history' = Append(history, DayEnded(n, "no emission", 0))
    /\ UNCHANGED <<supply, halvingData, skippedEpochs, period, epochMintProvision,
                   issued>>

RefuseSupplyCap(n) ==
    /\ params.EnableInflation
    /\ EmissionOf(n - 1) > 0
    /\ ~WithinSupplyCap(EmissionOf(n - 1))
    /\ history' = Append(history, DayEnded(n, "cap reached", 0))
    /\ UNCHANGED <<supply, halvingData, skippedEpochs, period, epochMintProvision,
                   issued>>

\* Variant: the stored period follows natural halvings only.
HalvingDataWithoutReconciliation(ended) ==
    IF NaturalHalving(ended)
    THEN [halvingData EXCEPT !.LastHalvingEpoch = ended, !.CurrentPeriod = PeriodOf(ended)]
    ELSE halvingData

\* Lines 113-137: LastHalvingEpoch moves on a natural halving only, and
\* CurrentPeriod is stored when that happens or when the two differ.
ReconciledHalvingData(ended) ==
    [halvingData EXCEPT
        !.LastHalvingEpoch = IF NaturalHalving(ended) THEN ended ELSE @,
        !.CurrentPeriod = PeriodOf(ended)]

MintAndSendToMultiSig(n) ==
    /\ params.EnableInflation
    /\ EmissionOf(n - 1) > 0
    /\ WithinSupplyCap(EmissionOf(n - 1))
    /\ supply' = supply + EmissionOf(n - 1)
    /\ halvingData' = ReconciledHalvingData(n - 1)
    /\ period' = PeriodOf(n - 1)
    /\ epochMintProvision' = EmissionOf(n - 1)
    /\ issued' = issued + EmissionOf(n - 1)
    /\ history' = Append(history, DayEnded(n, "minted", EmissionOf(n - 1)))
    /\ UNCHANGED skippedEpochs

AfterEpochEnd(n) ==
    \/ SkipDisabled(n)
    \/ RefuseZeroEmission(n)
    \/ RefuseSupplyCap(n)
    \/ MintAndSendToMultiSig(n)

\* The hook panics on a zero interval, and when the bank refuses to credit
\* the recipient of a mint that would otherwise happen.
HookPanics(n) ==
    /\ params.EnableInflation
    /\ \/ PeriodPanics(n - 1)
       \/ /\ EmissionOf(n - 1) > 0
          /\ WithinSupplyCap(EmissionOf(n - 1))
          /\ Recipient \in Blocked

-----------------------------------------------------------------------------
(* The steps of the chain *)

\* Variant: the hook gets the number of the day that ended.
EndingDay == epochInfo[DayEpochID].CurrentEpoch

NextDay == epochInfo[DayEpochID].CurrentEpoch + 1

\* BeginBlock of x/epochs with the inflation hook.  The hook returns at once
\* for an identifier other than "day", so only the end of a day matters to it.
BeginBlock(t) ==
    /\ ~halted
    /\ ~(EndsAt(DayEpochID, t) /\ HookPanics(NextDay))
    /\ BeginBlocker(t)
    /\ IF EndsAt(DayEpochID, t) THEN AfterEpochEnd(NextDay) ELSE UNCHANGED mintVars
    /\ UNCHANGED <<paramVars, halted, events>>

\* The panic of the hook propagates out of BeginBlock: no node commits the block.
BeginBlockPanic(t) ==
    /\ ~halted
    /\ EndsAt(DayEpochID, t) /\ HookPanics(NextDay)
    /\ halted' = TRUE
    /\ UNCHANGED <<epochVars, mintVars, paramVars, events>>

Event ==
    /\ ~halted
    /\ events < MaxEvents
    /\ events' = events + 1

\* MsgUpdateParams of x/inflation, executed by a passed proposal.
UpdateParams(p) ==
    /\ Event
    /\ ValidParams(p)
    /\ params' = Stored(p)
    /\ highestCap' = Larger(highestCap, Stored(p).MaxSupply)
    /\ UNCHANGED <<epochVars, mintVars, evmMultiSig, halted>>

\* MsgUpdateParams of x/evm, for the one field the hook reads.
UpdateEvmParams(a) ==
    /\ Event
    /\ ValidMultiSigAddress(a)
    /\ evmMultiSig' = a
    /\ UNCHANGED <<epochVars, mintVars, params, highestCap, halted>>

\* Coins of the mint denomination destroyed by another module.
Burn(amount) ==
    /\ Event
    /\ amount <= supply
    /\ supply' = supply - amount
    /\ UNCHANGED <<epochVars, hookVars, paramVars, halted>>

\* A new chain starts from the exported state: ExportGenesis leaves out the
\* stored mint provision, and InitGenesis validates the parameters again.
ExportImport ==
    /\ Event
    /\ ValidParams(params)
    /\ epochMintProvision' = 0
    /\ UNCHANGED <<epochVars, supply, halvingData, skippedEpochs, period, history,
                   issued, paramVars, halted>>

Init ==
    /\ InitEpochs
    /\ ValidParams(GenesisParams)
    /\ params = Stored(GenesisParams)
    /\ highestCap = Stored(GenesisParams).MaxSupply
    /\ evmMultiSig = NoAddress
    /\ supply = GenesisSupply
    /\ \E start \in GenesisStartEpochs :
          halvingData = [CurrentPeriod |-> 0, LastHalvingEpoch |-> 0, StartEpoch |-> start]
    /\ skippedEpochs = 0
    /\ period = 0
    /\ epochMintProvision = 0
    /\ halted = FALSE
    /\ events = 0
    /\ history = << >>
    /\ issued = 0

Blocks == \E t \in BlockTimes : BeginBlock(t) \/ BeginBlockPanic(t)

Next ==
    \/ Blocks
    \/ \E p \in ParamProposals : UpdateParams(p)
    \/ \E a \in MultiSigProposals : UpdateEvmParams(a)
    \/ \E amount \in BurnAmounts : Burn(amount)
    \/ ExportImport

\* Consensus keeps producing blocks; nobody has to propose or to burn.
Spec == Init /\ [][Next]_vars /\ WF_vars(Blocks)

-----------------------------------------------------------------------------
(* Properties *)

DaysEnded == IF epochInfo[DayEpochID].EpochCountingStarted
             THEN epochInfo[DayEpochID].CurrentEpoch - 1 ELSE 0

Minted(i) == i \in DOMAIN history /\ history[i].outcome = "minted"

LastMint(i) == Minted(i) /\ \A j \in DOMAIN history : j > i => ~Minted(j)

\* Every variable keeps its type.
TypeOK ==
    /\ EpochsTypeOK
    /\ params \in Params
    /\ evmMultiSig \in Recipients \cup {NoAddress}
    /\ supply \in Nat
    /\ halvingData \in [CurrentPeriod : Nat, LastHalvingEpoch : Nat,
                        StartEpoch : Nat \ {0}]
    /\ skippedEpochs \in Nat
    /\ period \in Nat
    /\ epochMintProvision \in Nat
    /\ halted \in BOOLEAN
    /\ events \in 0 .. MaxEvents
    /\ history \in Seq(DayRecord)
    /\ issued \in Nat
    /\ highestCap \in Nat

(***************************************************************************)
(* Through catch-up after outages, updates of the parameters and restarts, *)
(* the hook settles every ended day once and in order: the i-th record is  *)
(* the one of day i, called with i + 1, and skippedEpochs counts the       *)
(* records of disabled days (hooks.go:24-45, epochs/keeper/abci.go:36-47). *)
(***************************************************************************)
EveryDaySettledOnce ==
    /\ Len(history) = DaysEnded
    /\ \A i \in DOMAIN history : history[i].epochNumber = i + 1
    /\ skippedEpochs =
         Cardinality({i \in DOMAIN history : history[i].outcome = "disabled"})

(***************************************************************************)
(* However governance moves MaxSupply, the supply stays within the highest *)
(* cap there has been (or the genesis supply, which no code compares with  *)
(* the cap): types.ValidateSupplyCap in hooks.go:74-84.                    *)
(***************************************************************************)
SupplyUnderHighestCap == supply <= Larger(GenesisSupply, highestCap)

(***************************************************************************)
(* The halving state, the legacy period and the legacy provision all       *)
(* describe the same day, the last one that minted, even when governance   *)
(* changed the interval so that the period fell or jumped without a        *)
(* halving (hooks.go:113-164).  An imported genesis loses the provision.   *)
(***************************************************************************)
StoredStateOfLastMint ==
    /\ \A i \in DOMAIN history : LastMint(i) =>
         /\ halvingData.CurrentPeriod = history[i].period
         /\ period = history[i].period
         /\ epochMintProvision \in {history[i].amount, 0}
    /\ (\A i \in DOMAIN history : ~Minted(i)) =>
         halvingData.CurrentPeriod = 0 /\ period = 0 /\ epochMintProvision = 0

Schedule == INSTANCE EmissionSchedule
    WITH DailyEmission <- Stored(GenesisParams).DailyEmission,
         Interval <- GenesisParams.HalvingIntervalEpochs,
         startEpoch <- halvingData.StartEpoch,
         day <- DaysEnded

SameSchedule ==
    /\ params.DailyEmission = Stored(GenesisParams).DailyEmission
    /\ params.HalvingIntervalEpochs = GenesisParams.HalvingIntervalEpochs

(***************************************************************************)
(* While the parameters have the emission and the interval of the genesis, *)
(* x/inflation implements the schedule: every ended day issues the amount  *)
(* scheduled for it or nothing, whatever governance did before and however *)
(* many days an outage left to catch up with (hooks.go:24-164).            *)
(***************************************************************************)
ImplementsSchedule ==
    /\ Schedule!Init
    /\ [][SameSchedule => Schedule!Next]_<<halvingData.StartEpoch, DaysEnded, issued>>

\* While no proposal touches them at all, the whole issuance is bounded.
TotalIssuanceBounded == Schedule!IssuanceBounded

\* The days that minted did so with one interval between the halvings.
OneInterval ==
    \A i, j \in DOMAIN history :
        Minted(i) /\ Minted(j) => history[i].interval = history[j].interval

(***************************************************************************)
(* The recorded halving is the one that started the stored period: days    *)
(* minted from LastHalvingEpoch on are in CurrentPeriod, earlier ones in an*)
(* earlier period (hooks.go:120-137), unless days minted under several     *)
(* intervals: a stretched interval may then count a halving again.         *)
(***************************************************************************)
HalvingRecordExact ==
    OneInterval => \A i \in DOMAIN history : Minted(i) =>
        IF i >= halvingData.LastHalvingEpoch
        THEN history[i].period = halvingData.CurrentPeriod
        ELSE history[i].period < halvingData.CurrentPeriod

(***************************************************************************)
(* The stored halving data, the legacy period and provision and the record *)
(* of the last halving all describe what was minted (hooks.go:113-164).    *)
(***************************************************************************)
HalvingStateExact == StoredStateOfLastMint /\ HalvingRecordExact

EpochIsBehind(id) ==
    /\ epochInfo[id].EpochCountingStarted
    /\ blockTime > epochInfo[id].CurrentEpochStartTime + Duration[id]

(***************************************************************************)
(* After an outage the epochs catch up with the clock, one per block,      *)
(* unless a panic stops the chain.                                         *)
(***************************************************************************)
CatchesUp ==
    \A id \in Ids :
        EpochIsBehind(id) ~> (halted \/ ~EpochIsBehind(id))
=============================================================================
