--------------------------- MODULE Inflation_proofs ---------------------------
(***************************************************************************)
(* Theorems about x/inflation driven by x/epochs, for every set of epochs, *)
(* durations, outages, parameters and proposals.                           *)
(***************************************************************************)
EXTENDS Inflation, FiniteSetTheorems, SequenceTheorems, TLAPS

-----------------------------------------------------------------------------
(* Types *)

(***************************************************************************)
(* Accepted parameters, once stored, have the type the store declares.     *)
(***************************************************************************)
LEMMA StoredType ==
    ASSUME NEW p \in ProposedParams, ValidParams(p)
    PROVE  Stored(p) \in Params
  BY InflationAssumption
  DEF ProposedParams, Amounts, AddressStrings, ValidParams, ValidMultiSigAddress,
      Stored, StoredAmount, Params

(***************************************************************************)
(* The schedule arithmetic over the stored state is defined unless the     *)
(* hook panics.                                                            *)
(***************************************************************************)
LEMMA PeriodAndEmissionType ==
    ASSUME TypeOK, NEW e \in Nat, ~PeriodPanics(e)
    PROVE  PeriodOf(e) \in Nat /\ EmissionOf(e) \in Nat
  <1>1. PeriodOf(e) \in Nat
    <2>1. params.HalvingIntervalEpochs \in Nat /\ halvingData.StartEpoch \in Nat
      BY DEF TypeOK, Params
    <2>2. CASE e < halvingData.StartEpoch
      BY <2>2 DEF PeriodOf, CalculateHalvingPeriod
    <2>3. CASE e >= halvingData.StartEpoch
      <3>1. params.HalvingIntervalEpochs \in Nat \ {0} /\ e - halvingData.StartEpoch \in Nat
        BY <2>1, <2>3 DEF PeriodPanics
      <3> QED
        BY <2>1, <2>3, <3>1 DEF PeriodOf, CalculateHalvingPeriod
    <2> QED
      BY <2>1, <2>2, <2>3
  <1>2. EmissionOf(e) \in Nat
    <2>1. params.DailyEmission \in Nat
      BY DEF TypeOK, Params
    <2>2. CASE PeriodOf(e) >= MaxHalvingPeriod
      BY <2>2 DEF EmissionOf, CalculateDailyEmission
    <2>3. CASE PeriodOf(e) < MaxHalvingPeriod
      <3>1. Pow2[PeriodOf(e)] \in Nat \ {0}
        BY <1>1, <2>3, Pow2Assumption
      <3>2. params.DailyEmission \div Pow2[PeriodOf(e)] \in Nat
        BY <2>1, <3>1
      <3> QED
        BY <2>3, <3>2, <1>1, Pow2Assumption DEF EmissionOf, CalculateDailyEmission
    <2> QED
      BY <1>1, <2>2, <2>3, Pow2Assumption
  <1> QED
    BY <1>1, <1>2

(***************************************************************************)
(* A block keeps the types of the epochs and of the clock.                 *)
(***************************************************************************)
LEMMA BeginBlockerType ==
    ASSUME EpochsTypeOK, NEW t \in BlockTimes, BeginBlocker(t)
    PROVE  EpochsTypeOK'
  <1> USE EpochsAssumption
  <1>1. t \in Nat /\ t <= MaxTime
    BY DEF EpochsTypeOK, BlockTimes
  <1>2. ASSUME NEW id \in Ids
        PROVE  Tick(id, epochInfo[id], t) \in EpochInfo
    <2>1. epochInfo[id] \in EpochInfo /\ Duration[id] \in Nat
      BY DEF EpochsTypeOK
    <2>2. StartInitialEpoch(epochInfo[id]) \in EpochInfo
      BY <2>1 DEF StartInitialEpoch, EpochInfo
    <2>3. EndEpoch(id, epochInfo[id]) \in EpochInfo
      <3>1. /\ epochInfo[id].CurrentEpoch + 1 \in Nat
            /\ epochInfo[id].CurrentEpochStartTime + Duration[id] \in Nat
        BY <2>1 DEF EpochInfo
      <3> QED
        BY <2>1, <3>1 DEF EndEpoch, EpochInfo
    <2> QED
      BY <2>1, <2>2, <2>3 DEF Tick
  <1> QED
    BY <1>1, <1>2 DEF EpochsTypeOK, BeginBlocker

(***************************************************************************)
(* The variables keep their types.                                         *)
(***************************************************************************)
LEMMA InitType == Init => TypeOK
  <1> SUFFICES ASSUME Init PROVE TypeOK
    OBVIOUS
  <1> USE EpochsAssumption, InflationAssumption
  <1>1. EpochsTypeOK
    <2>1. PICK start \in [Ids -> StartTimes] : epochInfo = [id \in Ids |-> FreshEpoch(start[id])]
      BY DEF Init, InitEpochs
    <2>2. ASSUME NEW s \in StartTimes PROVE FreshEpoch(s) \in EpochInfo
      BY DEF FreshEpoch, EpochInfo
    <2> QED
      BY <2>1, <2>2 DEF Init, InitEpochs, EpochsTypeOK
  <1>2. params \in Params /\ highestCap \in Nat
    <2>1. Stored(GenesisParams) \in Params
      BY StoredType DEF Init
    <2> QED
      BY <2>1 DEF Init, Params
  <1>3. halvingData \in [CurrentPeriod : Nat, LastHalvingEpoch : Nat, StartEpoch : Nat \ {0}]
    BY DEF Init
  <1>4. history \in Seq(DayRecord)
    BY DEF Init
  <1>5. /\ evmMultiSig \in Recipients \cup {NoAddress}
        /\ supply \in Nat /\ skippedEpochs \in Nat /\ period \in Nat
        /\ epochMintProvision \in Nat /\ events \in 0 .. MaxEvents /\ issued \in Nat
    BY DEF Init
  <1>6. halted \in BOOLEAN
    BY DEF Init
  <1> QED
    BY <1>1, <1>2, <1>3, <1>4, <1>5, <1>6 DEF TypeOK

(***************************************************************************)
(* What the hook of an ended day writes is well typed.                     *)
(***************************************************************************)
LEMMA HookType ==
    ASSUME TypeOK, NEW n \in Nat \ {0}, ~HookPanics(n), AfterEpochEnd(n)
    PROVE  /\ supply' \in Nat
           /\ halvingData' \in [CurrentPeriod : Nat, LastHalvingEpoch : Nat,
                                StartEpoch : Nat \ {0}]
           /\ skippedEpochs' \in Nat
           /\ period' \in Nat
           /\ epochMintProvision' \in Nat
           /\ history' \in Seq(DayRecord)
           /\ issued' \in Nat
  <1>1. n - 1 \in Nat
    OBVIOUS
  <1>2. params.EnableInflation => PeriodOf(n - 1) \in Nat /\ EmissionOf(n - 1) \in Nat
    BY <1>1, PeriodAndEmissionType DEF HookPanics
  <1>0. /\ supply \in Nat /\ skippedEpochs \in Nat /\ period \in Nat
        /\ epochMintProvision \in Nat /\ issued \in Nat
        /\ halvingData \in [CurrentPeriod : Nat, LastHalvingEpoch : Nat,
                            StartEpoch : Nat \ {0}]
    BY DEF TypeOK
  <1>3. ASSUME NEW o \in Outcomes, NEW a \in Nat,
               history' = Append(history, DayEnded(n, o, a))
        PROVE  history' \in Seq(DayRecord)
    <2>1. DayEnded(n, o, a) \in DayRecord
      BY <1>2 DEF DayEnded, DayRecord, TypeOK, Params
    <2> QED
      BY <1>3, <2>1 DEF TypeOK
  <1>4. CASE SkipDisabled(n)
    <2>1. history' \in Seq(DayRecord)
      BY <1>3, <1>4 DEF SkipDisabled, Outcomes
    <2> QED
      BY <1>0, <1>4, <2>1 DEF SkipDisabled
  <1>5. CASE RefuseZeroEmission(n)
    <2>1. history' \in Seq(DayRecord)
      BY <1>3, <1>5 DEF RefuseZeroEmission, Outcomes
    <2> QED
      BY <1>0, <1>5, <2>1 DEF RefuseZeroEmission
  <1>6. CASE RefuseSupplyCap(n)
    <2>1. history' \in Seq(DayRecord)
      BY <1>3, <1>6 DEF RefuseSupplyCap, Outcomes
    <2> QED
      BY <1>0, <1>6, <2>1 DEF RefuseSupplyCap
  <1>7. CASE MintAndSendToMultiSig(n)
    <2>1. PeriodOf(n - 1) \in Nat /\ EmissionOf(n - 1) \in Nat
      BY <1>2, <1>7 DEF MintAndSendToMultiSig
    <2>2. history' \in Seq(DayRecord)
      BY <1>3, <1>7, <2>1 DEF MintAndSendToMultiSig, Outcomes
    <2>3. halvingData' \in [CurrentPeriod : Nat, LastHalvingEpoch : Nat,
                            StartEpoch : Nat \ {0}]
      BY <1>1, <1>7, <2>1 DEF MintAndSendToMultiSig, ReconciledHalvingData, TypeOK
    <2>4. supply + EmissionOf(n - 1) \in Nat /\ issued + EmissionOf(n - 1) \in Nat
      BY <1>0, <2>1
    <2> QED
      BY <1>0, <1>7, <2>1, <2>2, <2>3, <2>4 DEF MintAndSendToMultiSig
  <1> QED
    BY <1>4, <1>5, <1>6, <1>7 DEF AfterEpochEnd

(***************************************************************************)
(* Every step keeps the types.                                             *)
(***************************************************************************)
LEMMA NextType == TypeOK /\ [Next]_vars => TypeOK'
  <1> SUFFICES ASSUME TypeOK, [Next]_vars PROVE TypeOK'
    OBVIOUS
  <1> USE EpochsAssumption, InflationAssumption
  <1>1. ASSUME NEW t \in BlockTimes, BeginBlock(t)
        PROVE  TypeOK'
    <2>1. EpochsTypeOK'
      BY <1>1, BeginBlockerType DEF BeginBlock, TypeOK
    <2>2. NextDay \in Nat \ {0}
      BY DEF NextDay, TypeOK, EpochsTypeOK, EpochInfo
    <2>3. /\ supply' \in Nat /\ skippedEpochs' \in Nat /\ period' \in Nat
          /\ epochMintProvision' \in Nat /\ issued' \in Nat
          /\ halvingData' \in [CurrentPeriod : Nat, LastHalvingEpoch : Nat,
                               StartEpoch : Nat \ {0}]
          /\ history' \in Seq(DayRecord)
      <3>1. CASE EndsAt(DayEpochID, t)
        BY <1>1, <2>2, <3>1, HookType DEF BeginBlock
      <3>2. CASE ~EndsAt(DayEpochID, t)
        BY <1>1, <3>2 DEF BeginBlock, mintVars, hookVars, TypeOK
      <3> QED
        BY <3>1, <3>2
    <2> QED
      BY <1>1, <2>1, <2>3 DEF BeginBlock, paramVars, TypeOK
  <1>2. ASSUME NEW t \in BlockTimes, BeginBlockPanic(t)
        PROVE  TypeOK'
    <2>1. UNCHANGED <<epochVars, mintVars, paramVars, events>>
      BY <1>2 DEF BeginBlockPanic
    <2>2. halted' \in BOOLEAN
      BY <1>2 DEF BeginBlockPanic
    <2> QED
      BY <2>1, <2>2 DEF TypeOK, EpochsTypeOK, epochVars, mintVars, hookVars, paramVars
  <1>3. ASSUME NEW p \in ParamProposals, UpdateParams(p)
        PROVE  TypeOK'
    <2>1. Stored(p) \in Params
      BY <1>3, StoredType DEF UpdateParams
    <2>2. params' \in Params /\ highestCap' \in Nat
      BY <1>3, <2>1 DEF UpdateParams, Params, Larger, TypeOK
    <2>3. events' \in 0 .. MaxEvents
      BY <1>3 DEF UpdateParams, Event, TypeOK
    <2>4. UNCHANGED <<epochVars, mintVars, evmMultiSig, halted>>
      BY <1>3 DEF UpdateParams
    <2> QED
      BY <2>2, <2>3, <2>4 DEF TypeOK, EpochsTypeOK, epochVars, mintVars, hookVars
  <1>4. ASSUME NEW a \in MultiSigProposals, UpdateEvmParams(a)
        PROVE  TypeOK'
    <2>1. evmMultiSig' \in Recipients \cup {NoAddress}
      BY <1>4 DEF UpdateEvmParams, ValidMultiSigAddress
    <2>2. events' \in 0 .. MaxEvents
      BY <1>4 DEF UpdateEvmParams, Event, TypeOK
    <2>3. UNCHANGED <<epochVars, mintVars, params, highestCap, halted>>
      BY <1>4 DEF UpdateEvmParams
    <2> QED
      BY <2>1, <2>2, <2>3 DEF TypeOK, EpochsTypeOK, epochVars, mintVars, hookVars
  <1>5. ASSUME NEW amount \in BurnAmounts, Burn(amount)
        PROVE  TypeOK'
    <2>1. supply' \in Nat /\ events' \in 0 .. MaxEvents
      BY <1>5 DEF Burn, Event, TypeOK
    <2>2. UNCHANGED <<epochVars, hookVars, paramVars, halted>>
      BY <1>5 DEF Burn
    <2> QED
      BY <2>1, <2>2 DEF TypeOK, EpochsTypeOK, epochVars, hookVars, paramVars
  <1>6. CASE ExportImport
    <2>1. epochMintProvision' \in Nat /\ events' \in 0 .. MaxEvents
      BY <1>6 DEF ExportImport, Event, TypeOK
    <2>2. UNCHANGED <<epochVars, supply, halvingData, skippedEpochs, period, history,
                      issued, paramVars, halted>>
      BY <1>6 DEF ExportImport
    <2> QED
      BY <2>1, <2>2 DEF TypeOK, EpochsTypeOK, epochVars, paramVars
  <1>7. CASE UNCHANGED vars
    BY <1>7 DEF vars, TypeOK, EpochsTypeOK, epochVars, mintVars, hookVars, paramVars
  <1> QED
    BY <1>1, <1>2, <1>3, <1>4, <1>5, <1>6, <1>7 DEF Next, Blocks

(***************************************************************************)
(* Type correctness, the invariant on which the other theorems rest.       *)
(***************************************************************************)
THEOREM TypeCorrect == Spec => []TypeOK
  BY InitType, NextType, PTL DEF Spec

-----------------------------------------------------------------------------
(***************************************************************************)
(* The supply stays within the highest cap ever in force, or the genesis   *)
(* supply, whatever governance does to the cap, the emission, the interval *)
(* and the switch: hooks.go:74-84 is the only place that adds to it.       *)
(***************************************************************************)
LEMMA NextSupply ==
    TypeOK /\ SupplyUnderHighestCap /\ params.MaxSupply <= highestCap /\ [Next]_vars
        => (SupplyUnderHighestCap /\ params.MaxSupply <= highestCap)'
  <1> SUFFICES ASSUME TypeOK, SupplyUnderHighestCap, params.MaxSupply <= highestCap,
                      [Next]_vars
               PROVE  (SupplyUnderHighestCap /\ params.MaxSupply <= highestCap)'
    OBVIOUS
  <1> USE InflationAssumption
  <1>1. supply \in Nat /\ highestCap \in Nat /\ params.MaxSupply \in Nat
    BY DEF TypeOK, Params
  <1>2. ASSUME NEW t \in BlockTimes, BeginBlock(t)
        PROVE  SupplyUnderHighestCap'
    <2>1. UNCHANGED <<params, highestCap>>
      BY <1>2 DEF BeginBlock, paramVars
    <2>2. CASE supply' = supply
      BY <2>1, <2>2 DEF SupplyUnderHighestCap
    <2>3. CASE MintAndSendToMultiSig(NextDay)
      <3>1. supply' <= params.MaxSupply
        BY <2>3 DEF MintAndSendToMultiSig, WithinSupplyCap
      <3>2. supply' \in Nat
        BY <1>2, NextType DEF Next, Blocks, TypeOK
      <3> QED
        BY <1>1, <2>1, <3>1, <3>2 DEF SupplyUnderHighestCap, Larger
    <2> QED
      BY <1>2, <2>2, <2>3
      DEF BeginBlock, AfterEpochEnd, SkipDisabled, RefuseZeroEmission, RefuseSupplyCap,
          mintVars
  <1>3. ASSUME NEW p \in ParamProposals, UpdateParams(p)
        PROVE  (SupplyUnderHighestCap /\ params.MaxSupply <= highestCap)'
    <2>1. Stored(p).MaxSupply \in Nat
      BY <1>3, StoredType DEF UpdateParams, Params
    <2>2. /\ highestCap' = Larger(highestCap, Stored(p).MaxSupply)
          /\ params'.MaxSupply = Stored(p).MaxSupply
          /\ supply' = supply
      BY <1>3 DEF UpdateParams, mintVars
    <2> QED
      BY <1>1, <2>1, <2>2 DEF SupplyUnderHighestCap, Larger
  <1>4. ASSUME NEW amount \in BurnAmounts, Burn(amount)
        PROVE  SupplyUnderHighestCap'
    BY <1>1, <1>4 DEF Burn, paramVars, SupplyUnderHighestCap, Larger
  <1>5. ASSUME NEW t \in BlockTimes, BeginBlockPanic(t)
        PROVE  UNCHANGED <<supply, params, highestCap>>
    BY <1>5 DEF BeginBlockPanic, mintVars, paramVars
  <1>6. ASSUME NEW a \in MultiSigProposals, UpdateEvmParams(a)
        PROVE  UNCHANGED <<supply, params, highestCap>>
    BY <1>6 DEF UpdateEvmParams, mintVars
  <1>7. CASE ExportImport \/ UNCHANGED vars
    BY <1>7 DEF ExportImport, vars, mintVars, paramVars, SupplyUnderHighestCap
  <1>8. ASSUME UNCHANGED <<supply, params, highestCap>>
        PROVE  (SupplyUnderHighestCap /\ params.MaxSupply <= highestCap)'
    BY <1>8 DEF SupplyUnderHighestCap
  <1>9. ASSUME NEW t \in BlockTimes, BeginBlock(t)
        PROVE  UNCHANGED <<params, highestCap>>
    BY <1>9 DEF BeginBlock, paramVars
  <1>10. ASSUME NEW amount \in BurnAmounts, Burn(amount)
         PROVE  UNCHANGED <<params, highestCap>>
    BY <1>10 DEF Burn, paramVars
  <1> QED
    BY <1>2, <1>3, <1>4, <1>5, <1>6, <1>7, <1>8, <1>9, <1>10 DEF Next, Blocks

\* However governance moves MaxSupply, the supply stays within the highest cap
\* there has been (types.ValidateSupplyCap in hooks.go:74-84).
THEOREM SupplyCapped == Spec => []SupplyUnderHighestCap
  <1>1. Init => SupplyUnderHighestCap /\ params.MaxSupply <= highestCap
    <2> SUFFICES ASSUME Init PROVE SupplyUnderHighestCap /\ params.MaxSupply <= highestCap
      OBVIOUS
    <2>1. supply \in Nat /\ highestCap \in Nat /\ params.MaxSupply = highestCap
      BY InitType DEF Init, TypeOK
    <2>2. supply = GenesisSupply
      BY DEF Init
    <2> QED
      BY <2>1, <2>2 DEF SupplyUnderHighestCap, Larger
  <1> QED
    BY <1>1, NextSupply, TypeCorrect, PTL DEF Spec

-----------------------------------------------------------------------------
(***************************************************************************)
(* Epochs stay on the grid of their start time, and behind the clock.      *)
(***************************************************************************)
OnGrid(id, ei, now) ==
    IF ei.EpochCountingStarted
    THEN /\ ei.CurrentEpoch >= 1
         /\ ei.CurrentEpochStartTime = ei.StartTime + (ei.CurrentEpoch - 1) * Duration[id]
         /\ ei.CurrentEpochStartTime <= now
    ELSE ei.CurrentEpoch = 0

\* BeginBlocker leaves an epoch's start on its grid and not in the future.
LEMMA TickOnGrid ==
    ASSUME NEW id \in Ids, NEW ei \in EpochInfo, NEW now \in Nat, NEW t \in Nat,
           OnGrid(id, ei, now), now <= t
    PROVE  OnGrid(id, Tick(id, ei, t), t)
  <1> USE EpochsAssumption
  <1>1. Duration[id] \in Nat \ {0}
    OBVIOUS
  <1>2. CASE ShouldInitialEpochStart(ei, t)
    <2>1. /\ Tick(id, ei, t).EpochCountingStarted = TRUE
          /\ Tick(id, ei, t).CurrentEpoch = 1
          /\ Tick(id, ei, t).CurrentEpochStartTime = ei.StartTime
          /\ Tick(id, ei, t).StartTime = ei.StartTime
      BY <1>2 DEF Tick, StartInitialEpoch, EpochInfo
    <2>2. ei.StartTime \in Nat /\ ei.StartTime <= t
      BY <1>2 DEF ShouldInitialEpochStart, EpochInfo
    <2> QED
      BY <1>1, <2>1, <2>2 DEF OnGrid
  <1>3. CASE ~ShouldInitialEpochStart(ei, t) /\ ShouldEpochEnd(id, ei, t)
    <2>1. ei.EpochCountingStarted
      BY <1>3 DEF ShouldInitialEpochStart, ShouldEpochEnd, EpochInfo
    <2>2. /\ Tick(id, ei, t).EpochCountingStarted = ei.EpochCountingStarted
          /\ Tick(id, ei, t).CurrentEpoch = ei.CurrentEpoch + 1
          /\ Tick(id, ei, t).CurrentEpochStartTime = ei.CurrentEpochStartTime + Duration[id]
          /\ Tick(id, ei, t).StartTime = ei.StartTime
      BY <1>3 DEF Tick, EndEpoch, EpochInfo
    <2>3. ei.CurrentEpochStartTime + Duration[id] < t
      BY <1>3 DEF ShouldEpochEnd
    <2>4. /\ ei.CurrentEpoch \in Nat /\ ei.CurrentEpoch >= 1
          /\ ei.StartTime \in Nat /\ ei.CurrentEpochStartTime \in Nat
          /\ ei.CurrentEpochStartTime = ei.StartTime + (ei.CurrentEpoch - 1) * Duration[id]
      BY <2>1 DEF OnGrid, EpochInfo
    <2>5. (ei.CurrentEpoch - 1) * Duration[id] + Duration[id] = ei.CurrentEpoch * Duration[id]
      BY <1>1, <2>4
    <2>6. /\ (ei.CurrentEpoch + 1) - 1 = ei.CurrentEpoch
          /\ ei.CurrentEpoch + 1 >= 1
          /\ ei.CurrentEpochStartTime + Duration[id] = ei.StartTime + ei.CurrentEpoch * Duration[id]
          /\ ei.CurrentEpochStartTime + Duration[id] <= t
      BY <1>1, <2>3, <2>4, <2>5
    <2> QED
      BY <2>1, <2>2, <2>6 DEF OnGrid
  <1>4. CASE ~ShouldInitialEpochStart(ei, t) /\ ~ShouldEpochEnd(id, ei, t)
    BY <1>4 DEF Tick, OnGrid, EpochInfo
  <1> QED
    BY <1>2, <1>3, <1>4

\* Epochs stay on the grid of their duration and never run ahead of the clock
\* (types/epoch_info.go:22).
THEOREM EpochsOnGrid == Spec => []EpochGrid
  <1> USE EpochsAssumption
  <1>1. EpochGrid <=> \A id \in Ids : OnGrid(id, epochInfo[id], blockTime)
    BY DEF EpochGrid, OnGrid
  <1>2. EpochGrid' <=> \A id \in Ids : OnGrid(id, epochInfo'[id], blockTime')
    BY DEF EpochGrid, OnGrid
  <1>3. Init => EpochGrid
    <2> SUFFICES ASSUME Init, NEW id \in Ids
                 PROVE  ~epochInfo[id].EpochCountingStarted /\ epochInfo[id].CurrentEpoch = 0
      BY DEF EpochGrid
    <2>1. PICK start \in [Ids -> StartTimes] : epochInfo = [i \in Ids |-> FreshEpoch(start[i])]
      BY DEF Init, InitEpochs
    <2> QED
      BY <2>1 DEF FreshEpoch
  <1>4. TypeOK /\ EpochGrid /\ [Next]_vars => EpochGrid'
    <2> SUFFICES ASSUME TypeOK, EpochGrid, [Next]_vars PROVE EpochGrid'
      OBVIOUS
    <2>1. ASSUME NEW t \in BlockTimes, BeginBlock(t) PROVE EpochGrid'
      <3>1. t \in Nat /\ blockTime \in Nat /\ blockTime <= t
        BY DEF BlockTimes, TypeOK, EpochsTypeOK
      <3>2. ASSUME NEW id \in Ids PROVE OnGrid(id, epochInfo'[id], blockTime')
        <4>1. epochInfo[id] \in EpochInfo /\ OnGrid(id, epochInfo[id], blockTime)
          BY <1>1 DEF TypeOK, EpochsTypeOK
        <4>2. epochInfo'[id] = Tick(id, epochInfo[id], t) /\ blockTime' = t
          BY <2>1 DEF BeginBlock, BeginBlocker
        <4> QED
          BY <3>1, <4>1, <4>2, TickOnGrid
      <3> QED
        BY <1>2, <3>2
    <2>2. CASE UNCHANGED epochVars
      BY <2>2 DEF epochVars, EpochGrid
    <2> QED
      BY <2>1, <2>2
      DEF Next, Blocks, BeginBlockPanic, UpdateParams, UpdateEvmParams, Burn, ExportImport, vars
  <1> QED
    BY <1>3, <1>4, TypeCorrect, PTL DEF Spec

-----------------------------------------------------------------------------
(***************************************************************************)
(* The hook settles every ended day exactly once, in order.                *)
(***************************************************************************)
DisabledDays(h) == {i \in DOMAIN h : h[i].outcome = "disabled"}

SettledOnce(h, days, skipped) ==
    /\ Len(h) = days
    /\ \A i \in DOMAIN h : h[i].epochNumber = i + 1
    /\ skipped = Cardinality(DisabledDays(h))

(***************************************************************************)
(* Settling the next day with its own number keeps the record complete.    *)
(***************************************************************************)
LEMMA SettleNextDay ==
    ASSUME NEW h \in Seq(DayRecord), NEW days \in Nat, NEW skipped \in Nat,
           SettledOnce(h, days, skipped),
           NEW r \in DayRecord, r.epochNumber = days + 2
    PROVE  SettledOnce(Append(h, r), days + 1,
                       IF r.outcome = "disabled" THEN skipped + 1 ELSE skipped)
  <1> DEFINE h1 == Append(h, r)
  <1>1. /\ Len(h) \in Nat /\ DOMAIN h = 1 .. Len(h)
        /\ h1 \in Seq(DayRecord) /\ Len(h1) = Len(h) + 1
        /\ \A i \in 1 .. Len(h) : h1[i] = h[i]
        /\ h1[Len(h) + 1] = r
    BY LenProperties, AppendProperties
  <1>2. DOMAIN h1 = 1 .. (Len(h) + 1)
    BY <1>1, LenProperties
  <1> HIDE DEF h1
  <1>3. Len(h) = days /\ (\A i \in 1 .. days : h[i].epochNumber = i + 1)
        /\ skipped = Cardinality(DisabledDays(h))
    BY <1>1 DEF SettledOnce
  <1>4. \A i \in DOMAIN h1 : h1[i].epochNumber = i + 1
    <2> SUFFICES ASSUME NEW i \in 1 .. (days + 1) PROVE h1[i].epochNumber = i + 1
      BY <1>2, <1>3
    <2>1. CASE i = days + 1
      BY <2>1, <1>1, <1>3
    <2>2. CASE i # days + 1
      BY <2>2, <1>1, <1>3
    <2> QED
      BY <2>1, <2>2
  <1>5. IsFiniteSet(DisabledDays(h)) /\ Len(h) + 1 \notin DisabledDays(h)
    <2>1. IsFiniteSet(1 .. Len(h))
      BY <1>1, FS_Interval
    <2>2. DisabledDays(h) \in SUBSET (1 .. Len(h))
      BY <1>1 DEF DisabledDays
    <2> QED
      BY <1>1, <2>1, <2>2, FS_Subset
  <1>6. CASE r.outcome = "disabled"
    <2>1. DisabledDays(h1) = DisabledDays(h) \cup {Len(h) + 1}
      BY <1>1, <1>2, <1>6 DEF DisabledDays
    <2>2. Cardinality(DisabledDays(h1)) = Cardinality(DisabledDays(h)) + 1
      BY <1>5, <2>1, FS_AddElement
    <2> QED
      BY <1>1, <1>3, <1>4, <1>6, <2>2 DEF SettledOnce, h1
  <1>7. CASE r.outcome # "disabled"
    <2>1. DisabledDays(h1) = DisabledDays(h)
      BY <1>1, <1>2, <1>7 DEF DisabledDays
    <2> QED
      BY <1>1, <1>3, <1>4, <1>7, <2>1 DEF SettledOnce, h1
  <1> QED
    BY <1>6, <1>7

(***************************************************************************)
(* The hook appends one record with its own number and counts the day as   *)
(* skipped exactly when inflation is disabled.                             *)
(***************************************************************************)
LEMMA HookSettles ==
    ASSUME TypeOK, NEW n \in Nat \ {0}, ~HookPanics(n), AfterEpochEnd(n)
    PROVE  \E r \in DayRecord :
              /\ r.epochNumber = n
              /\ history' = Append(history, r)
              /\ skippedEpochs' = IF r.outcome = "disabled" THEN skippedEpochs + 1
                                  ELSE skippedEpochs
  <1>1. n - 1 \in Nat
    OBVIOUS
  <1>2. params.EnableInflation => PeriodOf(n - 1) \in Nat /\ EmissionOf(n - 1) \in Nat
    BY <1>1, PeriodAndEmissionType DEF HookPanics
  <1>3. ASSUME NEW o \in Outcomes, NEW a \in Nat
        PROVE  /\ DayEnded(n, o, a) \in DayRecord
               /\ DayEnded(n, o, a).epochNumber = n
               /\ DayEnded(n, o, a).outcome = o
    BY <1>2 DEF DayEnded, DayRecord, TypeOK, Params
  <1>4. CASE SkipDisabled(n)
    <2>1. "disabled" \in Outcomes /\ 0 \in Nat
      BY DEF Outcomes
    <2> QED
      BY <1>3, <1>4, <2>1 DEF SkipDisabled
  <1>5. CASE RefuseZeroEmission(n)
    <2>1. "no emission" \in Outcomes /\ 0 \in Nat /\ "no emission" # "disabled"
      BY DEF Outcomes
    <2> QED
      BY <1>3, <1>5, <2>1 DEF RefuseZeroEmission
  <1>6. CASE RefuseSupplyCap(n)
    <2>1. "cap reached" \in Outcomes /\ 0 \in Nat /\ "cap reached" # "disabled"
      BY DEF Outcomes
    <2> QED
      BY <1>3, <1>6, <2>1 DEF RefuseSupplyCap
  <1>7. CASE MintAndSendToMultiSig(n)
    <2>1. "minted" \in Outcomes /\ "minted" # "disabled"
      BY DEF Outcomes
    <2>2. EmissionOf(n - 1) \in Nat
      BY <1>2, <1>7 DEF MintAndSendToMultiSig
    <2> QED
      BY <1>3, <1>7, <2>1, <2>2 DEF MintAndSendToMultiSig
  <1> QED
    BY <1>4, <1>5, <1>6, <1>7 DEF AfterEpochEnd

(***************************************************************************)
(* A block ends at most one day, and only the hook's branch of BeginBlock  *)
(* runs when it does.                                                      *)
(***************************************************************************)
LEMMA DaysOfABlock ==
    ASSUME TypeOK, EpochGrid, NEW t \in BlockTimes, BeginBlock(t)
    PROVE  /\ DaysEnded \in Nat
           /\ EndsAt(DayEpochID, t) => /\ DaysEnded' = DaysEnded + 1
                                       /\ NextDay = DaysEnded + 2
                                       /\ AfterEpochEnd(NextDay)
                                       /\ ~HookPanics(NextDay)
           /\ ~EndsAt(DayEpochID, t) => DaysEnded' = DaysEnded /\ UNCHANGED mintVars
  <1> USE InflationAssumption
  <1> DEFINE ei == epochInfo[DayEpochID]
  <1>1. ei \in EpochInfo /\ DayEpochID \in Ids
    BY DEF TypeOK, EpochsTypeOK
  <1>2. epochInfo'[DayEpochID] = Tick(DayEpochID, ei, t)
    BY <1>1 DEF BeginBlock, BeginBlocker
  <1>3. ei.EpochCountingStarted => ei.CurrentEpoch >= 1
    BY <1>1 DEF EpochGrid
  <1>4. DaysEnded \in Nat
    BY <1>1, <1>3 DEF DaysEnded, EpochInfo
  <1>5. CASE EndsAt(DayEpochID, t)
    <2>1. ShouldEpochEnd(DayEpochID, ei, t) /\ ~ShouldInitialEpochStart(ei, t)
      BY <1>5 DEF EndsAt, ShouldEpochEnd
    <2>2. ei.EpochCountingStarted
      BY <1>1, <2>1 DEF ShouldEpochEnd, ShouldInitialEpochStart, EpochInfo
    <2>3. /\ epochInfo'[DayEpochID].EpochCountingStarted = ei.EpochCountingStarted
          /\ epochInfo'[DayEpochID].CurrentEpoch = ei.CurrentEpoch + 1
      BY <1>1, <1>2, <2>1 DEF Tick, EndEpoch, EpochInfo
    <2>4. ei.CurrentEpoch \in Nat
      BY <1>1 DEF EpochInfo
    <2>5. DaysEnded' = DaysEnded + 1 /\ NextDay = DaysEnded + 2
      BY <2>2, <2>3, <2>4 DEF DaysEnded, NextDay
    <2> QED
      BY <1>4, <1>5, <2>5 DEF BeginBlock
  <1>6. CASE ~EndsAt(DayEpochID, t)
    <2>1. CASE ShouldInitialEpochStart(ei, t)
      <3>1. /\ epochInfo'[DayEpochID].EpochCountingStarted = TRUE
            /\ epochInfo'[DayEpochID].CurrentEpoch = 1
        BY <1>1, <1>2, <2>1 DEF Tick, StartInitialEpoch, EpochInfo
      <3>2. ~ei.EpochCountingStarted
        BY <2>1 DEF ShouldInitialEpochStart
      <3> QED
        BY <1>4, <1>6, <3>1, <3>2 DEF DaysEnded, BeginBlock
    <2>2. CASE ~ShouldInitialEpochStart(ei, t)
      <3>1. epochInfo'[DayEpochID] = ei
        BY <1>2, <1>6, <2>2 DEF Tick, EndsAt
      <3> QED
        BY <1>4, <1>6, <3>1 DEF DaysEnded, BeginBlock
    <2> QED
      BY <2>1, <2>2
  <1> QED
    BY <1>4, <1>5, <1>6

(***************************************************************************)
(* Every step but a block leaves the ended days and the hook's records.    *)
(***************************************************************************)
LEMMA OnlyBlocksSettle ==
    ASSUME [Next]_vars, \A t \in BlockTimes : ~BeginBlock(t)
    PROVE  UNCHANGED <<epochVars, history, skippedEpochs, issued, halvingData>>
  BY DEF Next, Blocks, BeginBlockPanic, UpdateParams, UpdateEvmParams, Burn, ExportImport,
         vars, mintVars, hookVars

\* The hook settles every ended day once and in order, through catch-up, updates
\* and restarts (hooks.go:24-45, epochs/keeper/abci.go:36-47).
THEOREM DaysSettledOnce == Spec => []EveryDaySettledOnce
  <1>1. EveryDaySettledOnce <=> SettledOnce(history, DaysEnded, skippedEpochs)
    BY DEF EveryDaySettledOnce, SettledOnce, DisabledDays
  <1>2. EveryDaySettledOnce' <=> SettledOnce(history', DaysEnded', skippedEpochs')
    BY DEF EveryDaySettledOnce, SettledOnce, DisabledDays
  <1>3. Init => EveryDaySettledOnce
    <2> SUFFICES ASSUME Init PROVE EveryDaySettledOnce
      OBVIOUS
    <2>1. history = << >> /\ skippedEpochs = 0
      BY DEF Init
    <2>2. DaysEnded = 0
      <3>1. PICK start \in [Ids -> StartTimes] : epochInfo = [i \in Ids |-> FreshEpoch(start[i])]
        BY DEF Init, InitEpochs
      <3> QED
        BY <3>1, InflationAssumption DEF DaysEnded, FreshEpoch
    <2>3. Len(history) = 0 /\ DOMAIN history = {}
      BY <2>1
    <2>4. {i \in DOMAIN history : history[i].outcome = "disabled"} = {}
      BY <2>3
    <2> QED
      BY <2>1, <2>2, <2>3, <2>4, FS_EmptySet DEF EveryDaySettledOnce
  <1>4. TypeOK /\ EpochGrid /\ EveryDaySettledOnce /\ [Next]_vars => EveryDaySettledOnce'
    <2> SUFFICES ASSUME TypeOK, EpochGrid, EveryDaySettledOnce, [Next]_vars
                 PROVE  EveryDaySettledOnce'
      OBVIOUS
    <2>1. ASSUME NEW t \in BlockTimes, BeginBlock(t), EndsAt(DayEpochID, t)
          PROVE  EveryDaySettledOnce'
      <3>1. /\ DaysEnded \in Nat /\ DaysEnded' = DaysEnded + 1
            /\ NextDay = DaysEnded + 2 /\ AfterEpochEnd(NextDay) /\ ~HookPanics(NextDay)
        BY <2>1, DaysOfABlock
      <3>2. NextDay \in Nat \ {0}
        BY <3>1
      <3>3. PICK r \in DayRecord :
               /\ r.epochNumber = NextDay
               /\ history' = Append(history, r)
               /\ skippedEpochs' = IF r.outcome = "disabled" THEN skippedEpochs + 1
                                   ELSE skippedEpochs
        BY <3>1, <3>2, HookSettles
      <3>4. history \in Seq(DayRecord) /\ skippedEpochs \in Nat
        BY DEF TypeOK
      <3>5. r.epochNumber = DaysEnded + 2
        BY <3>1, <3>3
      <3>6. SettledOnce(history, DaysEnded, skippedEpochs)
        BY <1>1
      <3>7. SettledOnce(Append(history, r), DaysEnded + 1,
                        IF r.outcome = "disabled" THEN skippedEpochs + 1 ELSE skippedEpochs)
        BY <3>1, <3>4, <3>5, <3>6, SettleNextDay
      <3> QED
        BY <1>2, <3>1, <3>3, <3>7
    <2>2. ASSUME NEW t \in BlockTimes, BeginBlock(t), ~EndsAt(DayEpochID, t)
          PROVE  EveryDaySettledOnce'
      <3>1. DaysEnded' = DaysEnded /\ history' = history /\ skippedEpochs' = skippedEpochs
        BY <2>2, DaysOfABlock DEF mintVars, hookVars
      <3> QED
        BY <1>1, <1>2, <3>1
    <2>3. CASE \A t \in BlockTimes : ~BeginBlock(t)
      <3>1. DaysEnded' = DaysEnded /\ history' = history /\ skippedEpochs' = skippedEpochs
        BY <2>3, OnlyBlocksSettle DEF DaysEnded, epochVars
      <3> QED
        BY <1>1, <1>2, <3>1
    <2> QED
      BY <2>1, <2>2, <2>3
  <1> QED
    BY <1>3, <1>4, TypeCorrect, EpochsOnGrid, PTL DEF Spec

-----------------------------------------------------------------------------
(* The stored halving state.                                               *)

\* The state that the hook stores, against the records h of the ended days.
MintedIn(h, i) == i \in DOMAIN h /\ h[i].outcome = "minted"

DescribesLastMint(h, currentPeriod, legacyPeriod, provision) ==
    /\ \A i \in DOMAIN h :
         MintedIn(h, i) /\ (\A j \in DOMAIN h : j > i => ~MintedIn(h, j)) =>
            /\ currentPeriod = h[i].period
            /\ legacyPeriod = h[i].period
            /\ provision \in {h[i].amount, 0}
    /\ (\A i \in DOMAIN h : ~MintedIn(h, i)) =>
         currentPeriod = 0 /\ legacyPeriod = 0 /\ provision = 0

\* If all the days that minted did so with interval k: the recorded halving is
\* in the stored period, and parts the days of that period from the earlier ones.
RecordsHalving(h, data, k) ==
    LET P(d) == CalculateHalvingPeriod(d, data.StartEpoch, k)
        last == data.LastHalvingEpoch
    IN  (\A i \in DOMAIN h : MintedIn(h, i) => h[i].interval = k) =>
          /\ last <= Len(h)
          /\ k = 0 => last < data.StartEpoch
          /\ data.CurrentPeriod = P(last)
          /\ \A i \in DOMAIN h : MintedIn(h, i) =>
               /\ h[i].period = P(i)
               /\ IF i >= last THEN P(i) = P(last) ELSE P(i) < P(last)

HalvingData == [CurrentPeriod : Nat, LastHalvingEpoch : Nat, StartEpoch : Nat \ {0}]

(***************************************************************************)
(* The records after one more day.                                         *)
(***************************************************************************)
LEMMA OneMoreDay ==
    ASSUME NEW h \in Seq(DayRecord), NEW r \in DayRecord
    PROVE  /\ Len(h) \in Nat /\ DOMAIN h = 1 .. Len(h)
           /\ DOMAIN Append(h, r) = 1 .. (Len(h) + 1) /\ Len(Append(h, r)) = Len(h) + 1
           /\ \A i \in 1 .. Len(h) : /\ Append(h, r)[i] = h[i]
                                     /\ MintedIn(Append(h, r), i) <=> MintedIn(h, i)
           /\ Append(h, r)[Len(h) + 1] = r
           /\ MintedIn(Append(h, r), Len(h) + 1) <=> r.outcome = "minted"
  <1>1. /\ Len(h) \in Nat /\ DOMAIN h = 1 .. Len(h)
        /\ Append(h, r) \in Seq(DayRecord) /\ Len(Append(h, r)) = Len(h) + 1
        /\ \A i \in 1 .. Len(h) : Append(h, r)[i] = h[i]
        /\ Append(h, r)[Len(h) + 1] = r
    BY LenProperties, AppendProperties
  <1>2. DOMAIN Append(h, r) = 1 .. (Len(h) + 1)
    BY <1>1, LenProperties
  <1> QED
    BY <1>1, <1>2 DEF MintedIn

(***************************************************************************)
(* What the hook of an ended day records, and stores when it mints.        *)
(***************************************************************************)
LEMMA HookRecords ==
    ASSUME TypeOK, NEW n \in Nat \ {0}, ~HookPanics(n), AfterEpochEnd(n)
    PROVE  \E r \in DayRecord :
              /\ history' = Append(history, r)
              /\ \/ r.outcome # "minted"
                    /\ UNCHANGED <<halvingData, period, epochMintProvision>>
                 \/ /\ r.outcome = "minted"
                    /\ r.interval = params.HalvingIntervalEpochs
                    /\ r.period = PeriodOf(n - 1) /\ r.amount = EmissionOf(n - 1)
                    /\ params.EnableInflation
                    /\ halvingData' = ReconciledHalvingData(n - 1)
                    /\ period' = PeriodOf(n - 1)
                    /\ epochMintProvision' = EmissionOf(n - 1)
  <1>1. n - 1 \in Nat
    OBVIOUS
  <1>2. params.EnableInflation => PeriodOf(n - 1) \in Nat /\ EmissionOf(n - 1) \in Nat
    BY <1>1, PeriodAndEmissionType DEF HookPanics
  <1>3. params.HalvingIntervalEpochs \in Nat
    BY DEF TypeOK, Params
  <1>4. ASSUME NEW o \in Outcomes, NEW a \in Nat
        PROVE  /\ DayEnded(n, o, a) \in DayRecord
               /\ DayEnded(n, o, a).outcome = o /\ DayEnded(n, o, a).amount = a
               /\ DayEnded(n, o, a).interval = params.HalvingIntervalEpochs
               /\ params.EnableInflation => DayEnded(n, o, a).period = PeriodOf(n - 1)
    BY <1>2, <1>3 DEF DayEnded, DayRecord
  <1>5. /\ {"disabled", "no emission", "cap reached", "minted"} \subseteq Outcomes
        /\ 0 \in Nat
    BY DEF Outcomes
  <1>6. CASE SkipDisabled(n)
    <2>1. DayEnded(n, "disabled", 0) \in DayRecord
          /\ DayEnded(n, "disabled", 0).outcome # "minted"
      BY <1>4, <1>5
    <2> QED
      BY <1>6, <2>1 DEF SkipDisabled
  <1>7. CASE RefuseZeroEmission(n)
    <2>1. DayEnded(n, "no emission", 0) \in DayRecord
          /\ DayEnded(n, "no emission", 0).outcome # "minted"
      BY <1>4, <1>5
    <2> QED
      BY <1>7, <2>1 DEF RefuseZeroEmission
  <1>8. CASE RefuseSupplyCap(n)
    <2>1. DayEnded(n, "cap reached", 0) \in DayRecord
          /\ DayEnded(n, "cap reached", 0).outcome # "minted"
      BY <1>4, <1>5
    <2> QED
      BY <1>8, <2>1 DEF RefuseSupplyCap
  <1>9. CASE MintAndSendToMultiSig(n)
    <2>1. EmissionOf(n - 1) \in Nat /\ params.EnableInflation
      BY <1>2, <1>9 DEF MintAndSendToMultiSig
    <2>2. "minted" \in Outcomes
      BY <1>5
    <2> DEFINE r == DayEnded(n, "minted", EmissionOf(n - 1))
    <2>3. /\ r \in DayRecord /\ r.outcome = "minted" /\ r.amount = EmissionOf(n - 1)
          /\ r.interval = params.HalvingIntervalEpochs /\ r.period = PeriodOf(n - 1)
      BY <1>4, <2>1, <2>2
    <2>4. /\ history' = Append(history, r)
          /\ halvingData' = ReconciledHalvingData(n - 1)
          /\ period' = PeriodOf(n - 1) /\ epochMintProvision' = EmissionOf(n - 1)
      BY <1>9 DEF MintAndSendToMultiSig
    <2> QED
      BY <2>1, <2>3, <2>4
  <1> QED
    BY <1>6, <1>7, <1>8, <1>9 DEF AfterEpochEnd

(***************************************************************************)
(* A day that mints stores its own period and amount; another leaves them. *)
(***************************************************************************)
LEMMA LastMintRecorded ==
    ASSUME NEW h \in Seq(DayRecord), NEW r \in DayRecord, NEW c, NEW p, NEW e,
           \/ r.outcome # "minted" /\ DescribesLastMint(h, c, p, e)
           \/ r.outcome = "minted" /\ c = r.period /\ p = r.period /\ e = r.amount
    PROVE  DescribesLastMint(Append(h, r), c, p, e)
  <1> DEFINE g == Append(h, r)
  <1>1. /\ Len(h) \in Nat /\ DOMAIN h = 1 .. Len(h) /\ DOMAIN g = 1 .. (Len(h) + 1)
        /\ \A i \in 1 .. Len(h) : g[i] = h[i] /\ (MintedIn(g, i) <=> MintedIn(h, i))
        /\ g[Len(h) + 1] = r /\ (MintedIn(g, Len(h) + 1) <=> r.outcome = "minted")
    BY OneMoreDay
  <1> HIDE DEF g
  <1>2. \A i \in DOMAIN g : i \in 1 .. Len(h) \/ i = Len(h) + 1
    BY <1>1
  <1>3. CASE r.outcome = "minted"
    <2>1. Len(h) + 1 \in DOMAIN g /\ MintedIn(g, Len(h) + 1)
          /\ \A i \in 1 .. Len(h) : Len(h) + 1 > i
      BY <1>1, <1>3
    <2>2. \A i \in DOMAIN g : (\A j \in DOMAIN g : j > i => ~MintedIn(g, j)) => i = Len(h) + 1
      BY <1>2, <2>1
    <2> QED
      BY <1>1, <1>3, <2>1, <2>2 DEF DescribesLastMint, g
  <1>4. CASE r.outcome # "minted"
    <2>1. DescribesLastMint(h, c, p, e) /\ ~MintedIn(g, Len(h) + 1)
      BY <1>1, <1>4
    <2>2. ASSUME NEW i \in DOMAIN g, MintedIn(g, i),
                 \A j \in DOMAIN g : j > i => ~MintedIn(g, j)
          PROVE  c = g[i].period /\ p = g[i].period /\ e \in {g[i].amount, 0}
      <3>1. i \in DOMAIN h /\ MintedIn(h, i) /\ g[i] = h[i]
        BY <1>1, <1>2, <2>1, <2>2
      <3>2. \A j \in DOMAIN h : j > i => ~MintedIn(h, j)
        BY <1>1, <2>2
      <3> QED
        BY <2>1, <3>1, <3>2 DEF DescribesLastMint
    <2>3. ASSUME \A i \in DOMAIN g : ~MintedIn(g, i) PROVE c = 0 /\ p = 0 /\ e = 0
      <3>1. \A i \in DOMAIN h : ~MintedIn(h, i)
        BY <1>1, <2>3
      <3> QED
        BY <2>1, <3>1 DEF DescribesLastMint
    <2> QED
      BY <2>2, <2>3 DEF DescribesLastMint, g
  <1> QED
    BY <1>3, <1>4

(***************************************************************************)
(* Halving periods never decrease.                                         *)
(***************************************************************************)
LEMMA QuotientMonotone ==
    ASSUME NEW a \in Nat, NEW b \in Nat, a <= b, NEW k \in Nat \ {0}
    PROVE  a \div k \in Nat /\ b \div k \in Nat /\ a \div k <= b \div k
  OBVIOUS

\* Later days are in later periods.
LEMMA PeriodMonotone ==
    ASSUME NEW s \in Nat \ {0}, NEW k \in Nat, NEW d \in Nat, NEW e \in Nat, d <= e,
           k = 0 => e < s
    PROVE  /\ CalculateHalvingPeriod(d, s, k) \in Nat
           /\ CalculateHalvingPeriod(e, s, k) \in Nat
           /\ CalculateHalvingPeriod(d, s, k) <= CalculateHalvingPeriod(e, s, k)
  <1>1. CASE e < s
    BY <1>1 DEF CalculateHalvingPeriod
  <1>2. CASE e >= s /\ d < s
    <2>1. k \in Nat \ {0} /\ e - s \in Nat
      BY <1>2
    <2>2. (e - s) \div k \in Nat
      BY <2>1, QuotientMonotone
    <2> QED
      BY <1>2, <2>2 DEF CalculateHalvingPeriod
  <1>3. CASE d >= s
    <2>1. k \in Nat \ {0} /\ e - s \in Nat /\ d - s \in Nat /\ d - s <= e - s
      BY <1>3
    <2> QED
      BY <1>3, <2>1, QuotientMonotone DEF CalculateHalvingPeriod
  <1> QED
    BY <1>1, <1>2, <1>3

(***************************************************************************)
(* An ended day keeps the record of the halvings exact: the day e after    *)
(* those of h either does not mint, or mints and reconciles the data.      *)
(***************************************************************************)
LEMMA HalvingRecorded ==
    ASSUME NEW h \in Seq(DayRecord), NEW r \in DayRecord, NEW k \in Nat,
           NEW d0 \in HalvingData, NEW d1 \in HalvingData, RecordsHalving(h, d0, k),
           NEW e \in Nat, e = Len(h) + 1,
           \/ r.outcome # "minted" /\ d1 = d0
           \/ /\ r.outcome = "minted"
              /\ r.interval = 0 => e < d0.StartEpoch
              /\ r.period = CalculateHalvingPeriod(e, d0.StartEpoch, r.interval)
              /\ d1.StartEpoch = d0.StartEpoch
              /\ d1.CurrentPeriod = r.period
              /\ d1.LastHalvingEpoch =
                   IF ShouldHalve(e, d0.StartEpoch, d0.LastHalvingEpoch, r.interval)
                   THEN e ELSE d0.LastHalvingEpoch
    PROVE  RecordsHalving(Append(h, r), d1, k)
  <1> DEFINE g == Append(h, r)
             s == d0.StartEpoch
             P(d) == CalculateHalvingPeriod(d, s, k)
             l0 == d0.LastHalvingEpoch
             l1 == d1.LastHalvingEpoch
  <1>1. /\ Len(h) \in Nat /\ DOMAIN h = 1 .. Len(h) /\ DOMAIN g = 1 .. e /\ Len(g) = e
        /\ \A i \in 1 .. Len(h) : g[i] = h[i] /\ (MintedIn(g, i) <=> MintedIn(h, i))
        /\ g[e] = r /\ (MintedIn(g, e) <=> r.outcome = "minted")
    BY OneMoreDay
  <1>2. s \in Nat \ {0} /\ l0 \in Nat /\ l1 \in Nat /\ d1.StartEpoch = s
    BY DEF HalvingData
  <1> HIDE DEF g
  <1>3. \A i \in DOMAIN g : i \in 1 .. Len(h) \/ i = e
    BY <1>1
  <1> SUFFICES ASSUME \A i \in DOMAIN g : MintedIn(g, i) => g[i].interval = k
               PROVE  /\ l1 <= Len(g)
                      /\ k = 0 => l1 < s
                      /\ d1.CurrentPeriod = P(l1)
                      /\ \A i \in DOMAIN g : MintedIn(g, i) =>
                           /\ g[i].period = P(i)
                           /\ IF i >= l1 THEN P(i) = P(l1) ELSE P(i) < P(l1)
    BY <1>2 DEF RecordsHalving, g
  <1>4. \A i \in DOMAIN h : MintedIn(h, i) => h[i].interval = k
    BY <1>1
  <1>5. /\ l0 <= Len(h)
        /\ k = 0 => l0 < s
        /\ d0.CurrentPeriod = P(l0)
        /\ \A i \in DOMAIN h : MintedIn(h, i) =>
             /\ h[i].period = P(i)
             /\ IF i >= l0 THEN P(i) = P(l0) ELSE P(i) < P(l0)
    BY <1>4 DEF RecordsHalving
  <1>6. CASE r.outcome # "minted" /\ d1 = d0
    <2>1. ASSUME NEW i \in DOMAIN g, MintedIn(g, i)
          PROVE  i \in DOMAIN h /\ MintedIn(h, i) /\ g[i] = h[i]
      BY <1>1, <1>3, <1>6, <2>1
    <2> QED
      BY <1>1, <1>2, <1>5, <1>6, <2>1
  <1>7. CASE /\ r.outcome = "minted"
             /\ r.interval = 0 => e < s
             /\ r.period = CalculateHalvingPeriod(e, s, r.interval)
             /\ d1.CurrentPeriod = r.period
             /\ l1 = IF ShouldHalve(e, s, l0, r.interval) THEN e ELSE l0
    <2>1. r.interval = k
      <3>1. e \in DOMAIN g /\ MintedIn(g, e) /\ g[e] = r
        BY <1>1, <1>7
      <3> QED
        BY <3>1
    <2>2. k = 0 => e < s
      BY <1>7, <2>1
    <2>3. r.period = P(e) /\ d1.CurrentPeriod = P(e)
      BY <1>7, <2>1
    <2>4. P(l0) \in Nat /\ P(e) \in Nat /\ P(l0) <= P(e)
      <3>1. l0 <= e
        BY <1>1, <1>2, <1>5
      <3> HIDE DEF s, l0
      <3> QED
        BY <1>2, <2>2, <3>1, PeriodMonotone
    <2>5. l1 = IF P(e) > P(l0) THEN e ELSE l0
      BY <1>7, <2>1 DEF ShouldHalve
    <2>6. ASSUME NEW i \in DOMAIN h PROVE P(i) \in Nat
      <3>1. i \in Nat /\ i <= e
        BY <1>1
      <3> HIDE DEF s
      <3> QED
        BY <1>2, <2>2, <3>1, PeriodMonotone
    <2> HIDE DEF P, s, l0, l1
    <2>7. CASE P(e) > P(l0)
      <3>1. l1 = e
        BY <2>5, <2>7
      <3>2. ASSUME NEW i \in DOMAIN g, MintedIn(g, i), i # e
            PROVE  g[i].period = P(i) /\ ~(i >= e) /\ P(i) < P(e)
        <4>1. i \in DOMAIN h /\ i \in 1 .. Len(h) /\ MintedIn(h, i) /\ g[i] = h[i]
          BY <1>1, <1>3, <3>2
        <4>2. h[i].period = P(i) /\ (IF i >= l0 THEN P(i) = P(l0) ELSE P(i) < P(l0))
          BY <1>5, <4>1
        <4>3. P(i) \in Nat
          BY <2>6, <4>1
        <4>4. ~(i >= e)
          BY <1>1, <4>1
        <4> QED
          BY <2>4, <2>7, <4>1, <4>2, <4>3, <4>4
      <3>3. g[e].period = P(e) /\ e >= e
        BY <1>1, <2>3
      <3> QED
        BY <1>1, <2>2, <2>3, <3>1, <3>2, <3>3
    <2>8. CASE ~(P(e) > P(l0))
      <3>1. l1 = l0 /\ P(e) = P(l0)
        BY <2>4, <2>5, <2>8
      <3>2. ASSUME NEW i \in DOMAIN g, MintedIn(g, i), i # e
            PROVE  g[i].period = P(i) /\ (IF i >= l0 THEN P(i) = P(l0) ELSE P(i) < P(l0))
        <4>1. i \in DOMAIN h /\ MintedIn(h, i) /\ g[i] = h[i]
          BY <1>1, <1>3, <3>2
        <4> QED
          BY <1>5, <4>1
      <3>3. g[e].period = P(e) /\ e >= l0
        BY <1>1, <1>2, <1>5, <2>3 DEF l0
      <3>4. l1 <= Len(g)
        BY <1>1, <1>2, <1>5, <3>1
      <3> QED
        BY <1>1, <1>5, <2>3, <3>1, <3>2, <3>3, <3>4
    <2> QED
      BY <2>7, <2>8
  <1> QED
    BY <1>2, <1>6, <1>7

HalvingInv ==
    /\ DescribesLastMint(history, halvingData.CurrentPeriod, period, epochMintProvision)
    /\ \A k \in Nat : RecordsHalving(history, halvingData, k)

\* The records are exact at genesis.
LEMMA InitHalving == Init => HalvingInv
  <1> SUFFICES ASSUME Init PROVE HalvingInv
    OBVIOUS
  <1>1. /\ history = << >> /\ period = 0 /\ epochMintProvision = 0
        /\ halvingData.CurrentPeriod = 0 /\ halvingData.LastHalvingEpoch = 0
        /\ halvingData.StartEpoch \in Nat \ {0}
    BY InflationAssumption DEF Init
  <1>2. Len(history) = 0 /\ DOMAIN history = {}
    BY <1>1
  <1>3. DescribesLastMint(history, halvingData.CurrentPeriod, period, epochMintProvision)
    BY <1>1, <1>2 DEF DescribesLastMint
  <1>4. ASSUME NEW k \in Nat
        PROVE  CalculateHalvingPeriod(0, halvingData.StartEpoch, k) = 0
    BY <1>1 DEF CalculateHalvingPeriod
  <1> QED
    BY <1>1, <1>2, <1>3, <1>4 DEF HalvingInv, RecordsHalving

\* Every step keeps them exact.
LEMMA NextHalving ==
    TypeOK /\ EpochGrid /\ EveryDaySettledOnce /\ HalvingInv /\ [Next]_vars => HalvingInv'
  <1> SUFFICES ASSUME TypeOK, EpochGrid, EveryDaySettledOnce, HalvingInv, [Next]_vars
               PROVE  HalvingInv'
    OBVIOUS
  <1>1. ASSUME NEW t \in BlockTimes, BeginBlock(t), EndsAt(DayEpochID, t)
        PROVE  HalvingInv'
    <2>1. /\ DaysEnded \in Nat /\ NextDay = DaysEnded + 2
          /\ AfterEpochEnd(NextDay) /\ ~HookPanics(NextDay)
      BY <1>1, DaysOfABlock
    <2> DEFINE e == NextDay - 1
    <2>2. NextDay \in Nat \ {0} /\ e \in Nat /\ e = Len(history) + 1
      BY <2>1 DEF EveryDaySettledOnce
    <2>3. PICK r \in DayRecord :
             /\ history' = Append(history, r)
             /\ \/ r.outcome # "minted"
                   /\ UNCHANGED <<halvingData, period, epochMintProvision>>
                \/ /\ r.outcome = "minted"
                   /\ r.interval = params.HalvingIntervalEpochs
                   /\ r.period = PeriodOf(e) /\ r.amount = EmissionOf(e)
                   /\ params.EnableInflation
                   /\ halvingData' = ReconciledHalvingData(e)
                   /\ period' = PeriodOf(e)
                   /\ epochMintProvision' = EmissionOf(e)
      BY <2>1, <2>2, HookRecords
    <2>4. history \in Seq(DayRecord) /\ halvingData \in HalvingData
          /\ halvingData' \in HalvingData
      <3>1. TypeOK'
        BY NextType
      <3> QED
        BY <3>1 DEF TypeOK, HalvingData
    <2>5. CASE r.outcome # "minted" /\ UNCHANGED <<halvingData, period, epochMintProvision>>
      <3>1. DescribesLastMint(history', halvingData'.CurrentPeriod, period',
                              epochMintProvision')
        BY <2>3, <2>4, <2>5, LastMintRecorded DEF HalvingInv
      <3>2. ASSUME NEW k \in Nat PROVE RecordsHalving(history', halvingData', k)
        <4>1. RecordsHalving(history, halvingData, k)
          BY DEF HalvingInv
        <4> QED
          BY <2>2, <2>3, <2>4, <2>5, <4>1, HalvingRecorded
      <3> QED
        BY <3>1, <3>2 DEF HalvingInv
    <2>6. CASE /\ r.outcome = "minted"
               /\ r.interval = params.HalvingIntervalEpochs
               /\ r.period = PeriodOf(e) /\ r.amount = EmissionOf(e)
               /\ params.EnableInflation
               /\ halvingData' = ReconciledHalvingData(e)
               /\ period' = PeriodOf(e)
               /\ epochMintProvision' = EmissionOf(e)
      <3>1. /\ halvingData'.StartEpoch = halvingData.StartEpoch
            /\ halvingData'.CurrentPeriod = PeriodOf(e)
            /\ halvingData'.LastHalvingEpoch =
                 IF NaturalHalving(e) THEN e ELSE halvingData.LastHalvingEpoch
        BY <2>4, <2>6 DEF ReconciledHalvingData, HalvingData
      <3>2. DescribesLastMint(history', halvingData'.CurrentPeriod, period',
                              epochMintProvision')
        BY <2>3, <2>4, <2>6, <3>1, LastMintRecorded
      <3>3. r.interval = 0 => e < halvingData.StartEpoch
        <4>1. ~PeriodPanics(e)
          BY <2>1, <2>6 DEF HookPanics
        <4>2. halvingData.StartEpoch \in Nat
          BY <2>4 DEF HalvingData
        <4> QED
          BY <2>2, <2>6, <4>1, <4>2 DEF PeriodPanics
      <3>4. ASSUME NEW k \in Nat PROVE RecordsHalving(history', halvingData', k)
        <4>1. RecordsHalving(history, halvingData, k)
          BY DEF HalvingInv
        <4>2. r.period = CalculateHalvingPeriod(e, halvingData.StartEpoch, r.interval)
          BY <2>6 DEF PeriodOf
        <4>3. halvingData'.LastHalvingEpoch =
                IF ShouldHalve(e, halvingData.StartEpoch, halvingData.LastHalvingEpoch,
                               r.interval)
                THEN e ELSE halvingData.LastHalvingEpoch
          BY <2>6, <3>1 DEF NaturalHalving
        <4>4. halvingData'.CurrentPeriod = r.period
          BY <2>6, <3>1
        <4> HIDE DEF e
        <4> QED
          BY <2>2, <2>3, <2>4, <2>6, <3>1, <3>3, <4>1, <4>2, <4>3, <4>4, HalvingRecorded
      <3> QED
        BY <3>2, <3>4 DEF HalvingInv
    <2> QED
      BY <2>3, <2>5, <2>6
  <1>2. ASSUME UNCHANGED <<history, halvingData, period, epochMintProvision>>
        PROVE  HalvingInv'
    BY <1>2 DEF HalvingInv
  <1>3. CASE ExportImport
    <2>1. UNCHANGED <<history, halvingData, period>> /\ epochMintProvision' = 0
      BY <1>3 DEF ExportImport
    <2> QED
      BY <2>1 DEF HalvingInv, DescribesLastMint
  <1>4. ASSUME NEW t \in BlockTimes, BeginBlock(t), ~EndsAt(DayEpochID, t)
        PROVE  HalvingInv'
    BY <1>2, <1>4, DaysOfABlock DEF mintVars, hookVars
  <1> QED
    BY <1>1, <1>2, <1>3, <1>4
    DEF Next, Blocks, BeginBlockPanic, UpdateParams, UpdateEvmParams, Burn, vars, mintVars,
        hookVars

(***************************************************************************)
(* HalvingStateExact: the halving data, the legacy period and provision    *)
(* describe the last day that minted, and the recorded halving is the one  *)
(* that started its period, for every sequence of outages, parameters and  *)
(* restarts.                                                               *)
(***************************************************************************)
THEOREM HalvingStateIsExact == Spec => []HalvingStateExact
  <1>1. TypeOK /\ HalvingInv => HalvingStateExact
    <2> SUFFICES ASSUME TypeOK, HalvingInv PROVE HalvingStateExact
      OBVIOUS
    <2>1. StoredStateOfLastMint
      BY DEF HalvingInv, DescribesLastMint, StoredStateOfLastMint, LastMint, Minted, MintedIn
    <2>2. HalvingRecordExact
      <3> SUFFICES ASSUME OneInterval, NEW i \in DOMAIN history, Minted(i)
                   PROVE  IF i >= halvingData.LastHalvingEpoch
                          THEN history[i].period = halvingData.CurrentPeriod
                          ELSE history[i].period < halvingData.CurrentPeriod
        BY DEF HalvingRecordExact
      <3>1. history[i] \in DayRecord
        BY DEF TypeOK
      <3>2. PICK k \in Nat : k = history[i].interval
        BY <3>1 DEF DayRecord
      <3>3. \A j \in DOMAIN history : MintedIn(history, j) => history[j].interval = k
        BY <3>2 DEF OneInterval, Minted, MintedIn
      <3>4. RecordsHalving(history, halvingData, k)
        BY DEF HalvingInv
      <3> QED
        BY <3>3, <3>4 DEF RecordsHalving, Minted, MintedIn
    <2> QED
      BY <2>1, <2>2 DEF HalvingStateExact
  <1> QED
    BY <1>1, InitHalving, NextHalving, TypeCorrect, EpochsOnGrid, DaysSettledOnce, PTL
    DEF Spec

-----------------------------------------------------------------------------
(* Refinement: x/inflation implements the emission schedule while          *)
(* governance leaves the emission and the interval alone, and so inherits  *)
(* the bound of the schedule.                                              *)

\* No valid proposal touches the emission or the interval, and the genesis
\* file gives an interval.
FixedSchedule ==
    /\ GenesisParams.HalvingIntervalEpochs # 0
    /\ \A p \in ParamProposals : ValidParams(p) =>
         /\ Stored(p).DailyEmission = Stored(GenesisParams).DailyEmission
         /\ p.HalvingIntervalEpochs = GenesisParams.HalvingIntervalEpochs

(***************************************************************************)
(* Quotient and remainder of the next number: the remainder grows by one   *)
(* until it wraps, and the quotient grows when it does.                    *)
(***************************************************************************)
LEMMA DivModNext ==
    ASSUME NEW a \in Nat, NEW b \in Nat \ {0}
    PROVE  /\ a \div b \in Nat
           /\ a % b \in 0 .. (b - 1)
           /\ a % b = b - 1 => (a + 1) \div b = (a \div b) + 1 /\ (a + 1) % b = 0
           /\ a % b # b - 1 => (a + 1) \div b = a \div b /\ (a + 1) % b = (a % b) + 1
  BY SMTT(60)

(***************************************************************************)
(* Dividing by twice the divisor gives at most half the quotient.          *)
(***************************************************************************)
LEMMA HalfQuotient ==
    ASSUME NEW d \in Nat, NEW a \in Nat \ {0}
    PROVE  2 * (d \div (2 * a)) <= d \div a
  OBVIOUS

(***************************************************************************)
(* Emissions are natural numbers and each period pays at most half of what *)
(* the period before it pays; from MaxHalvingPeriod on they pay nothing.   *)
(***************************************************************************)
LEMMA EmissionHalves ==
    ASSUME NEW e \in Nat, NEW p \in Nat
    PROVE  /\ CalculateDailyEmission(e, p) \in Nat
           /\ CalculateDailyEmission(e, p) <= e
           /\ 2 * CalculateDailyEmission(e, p + 1) <= CalculateDailyEmission(e, p)
  <1>1. \A q \in 0 .. MaxHalvingPeriod : Pow2[q] \in Nat \ {0}
    BY Pow2Assumption
  <1>2. ASSUME NEW q \in Nat
        PROVE  /\ CalculateDailyEmission(e, q) \in Nat
               /\ CalculateDailyEmission(e, q) <= e
    <2>1. CASE q >= MaxHalvingPeriod
      BY <2>1, Pow2Assumption DEF CalculateDailyEmission
    <2>2. CASE q < MaxHalvingPeriod
      <3>1. Pow2[q] \in Nat \ {0}
        BY <1>1, <2>2, Pow2Assumption
      <3>2. ASSUME NEW b \in Nat \ {0} PROVE e \div b \in Nat /\ e \div b <= e
        OBVIOUS
      <3>3. e \div Pow2[q] \in Nat /\ e \div Pow2[q] <= e
        BY <3>1, <3>2
      <3>4. CalculateDailyEmission(e, q) = e \div Pow2[q]
        BY <2>2, Pow2Assumption DEF CalculateDailyEmission
      <3> QED
        BY <3>3, <3>4
    <2> QED
      BY <2>1, <2>2, Pow2Assumption
  <1>3. 2 * CalculateDailyEmission(e, p + 1) <= CalculateDailyEmission(e, p)
    <2>1. CASE p + 1 >= MaxHalvingPeriod
      BY <2>1, <1>2, Pow2Assumption DEF CalculateDailyEmission
    <2>2. CASE p + 1 < MaxHalvingPeriod
      <3>1. Pow2[p] \in Nat \ {0} /\ Pow2[p + 1] = 2 * Pow2[p]
        BY <1>1, <2>2, Pow2Assumption
      <3>2. 2 * (e \div (2 * Pow2[p])) <= e \div Pow2[p]
        BY <3>1, HalfQuotient
      <3> QED
        BY <2>2, <3>1, <3>2, Pow2Assumption DEF CalculateDailyEmission
    <2> QED
      BY <2>1, <2>2, Pow2Assumption
  <1> QED
    BY <1>2, <1>3

\* What the schedule issues on day d, and what it may issue from then on, as
\* functions of the emission, the interval and the first day of the schedule.
ScheduledFor(emission, interval, first, d) ==
    CalculateDailyEmission(emission, CalculateHalvingPeriod(d, first, interval))
RemainingFor(emission, interval, first, d) ==
    IF d < first
    THEN (first - d + 2 * interval) * emission
    ELSE (2 * interval - ((d - first) % interval)) * ScheduledFor(emission, interval, first, d)

(***************************************************************************)
(* What day d issues and what may be issued after it fit into what might   *)
(* be issued from d on; this is the step of the induction.                 *)
(***************************************************************************)
LEMMA RemainingShrinks ==
    ASSUME NEW DailyEmission \in Nat, NEW Interval \in Nat \ {0},
           NEW startEpoch \in Nat \ {0}, NEW d \in Nat \ {0}
    PROVE  LET Scheduled(c) == ScheduledFor(DailyEmission, Interval, startEpoch, c)
               Remaining(c) == RemainingFor(DailyEmission, Interval, startEpoch, c)
           IN  /\ Scheduled(d) \in Nat
               /\ Remaining(d) \in Nat
               /\ Scheduled(d) + Remaining(d + 1) <= Remaining(d)
  <1> DEFINE Scheduled(c) == ScheduledFor(DailyEmission, Interval, startEpoch, c)
             Remaining(c) == RemainingFor(DailyEmission, Interval, startEpoch, c)
             E(p) == CalculateDailyEmission(DailyEmission, p)
             k(c) == (c - startEpoch) % Interval
             q(c) == (c - startEpoch) \div Interval
  <1>1. ASSUME NEW p \in Nat
        PROVE  E(p) \in Nat /\ E(p) <= DailyEmission /\ 2 * E(p + 1) <= E(p)
    BY EmissionHalves
  <1>2. ASSUME NEW c \in Nat, c < startEpoch
        PROVE  Scheduled(c) = E(0)
    BY <1>2 DEF ScheduledFor, CalculateHalvingPeriod
  <1>3. ASSUME NEW c \in Nat, c >= startEpoch
        PROVE  /\ Scheduled(c) = E(q(c))
               /\ q(c) \in Nat
               /\ k(c) \in 0 .. (Interval - 1)
               /\ Remaining(c) = (2 * Interval - k(c)) * E(q(c))
    BY <1>3, DivModNext DEF ScheduledFor, CalculateHalvingPeriod, RemainingFor
  <1> HIDE DEF E, k, q
  <1>4. ASSUME NEW c \in Nat
        PROVE  Scheduled(c) \in Nat /\ Scheduled(c) <= DailyEmission
    <2>1. CASE c < startEpoch
      BY <2>1, <1>1, <1>2
    <2>2. CASE c >= startEpoch
      BY <2>2, <1>1, <1>3
    <2> QED
      BY <2>1, <2>2
  <1>5. Remaining(d) \in Nat
    <2>1. CASE d < startEpoch
      BY <2>1 DEF RemainingFor
    <2>2. CASE d >= startEpoch
      <3>1. 2 * Interval - k(d) \in Nat /\ E(q(d)) \in Nat
        <4>1. k(d) \in 0 .. (Interval - 1) /\ q(d) \in Nat
          BY <2>2, <1>3
        <4> QED
          BY <4>1, <1>1
      <3>2. ASSUME NEW a \in Nat, NEW b \in Nat PROVE a * b \in Nat
        OBVIOUS
      <3> QED
        BY <3>1, <3>2, <2>2, <1>3
    <2> QED
      BY <2>1, <2>2
  <1>6. CASE d + 1 < startEpoch
    <2>1. Scheduled(d) <= DailyEmission /\ Scheduled(d) \in Nat
      BY <1>4
    <2>2. Remaining(d) = Remaining(d + 1) + DailyEmission
      BY <1>6 DEF RemainingFor
    <2>3. Remaining(d + 1) \in Nat
      BY <1>6 DEF RemainingFor
    <2> QED
      BY <1>5, <2>1, <2>2, <2>3
  <1>7. CASE d + 1 = startEpoch
    <2>1. Remaining(d) = DailyEmission + 2 * Interval * DailyEmission
      BY <1>7 DEF RemainingFor
    <2>2. k(d + 1) = 0 /\ q(d + 1) = 0
      BY <1>7 DEF k, q
    <2>3. Remaining(d + 1) = 2 * Interval * E(0)
      BY <1>3, <1>7, <2>2, <1>1
    <2>4. E(0) \in Nat /\ E(0) <= DailyEmission
      BY <1>1
    <2>5. 2 * Interval * E(0) <= 2 * Interval * DailyEmission
      BY <2>4
    <2> QED
      BY <1>4, <1>5, <2>1, <2>3, <2>4, <2>5
  <1>8. CASE d >= startEpoch
    <2>1. /\ Scheduled(d) = E(q(d)) /\ E(q(d)) \in Nat
          /\ Remaining(d) = (2 * Interval - k(d)) * E(q(d))
          /\ Remaining(d + 1) = (2 * Interval - k(d + 1)) * E(q(d + 1))
          /\ q(d) \in Nat /\ k(d) \in 0 .. (Interval - 1)
      <3>1. d + 1 \in Nat /\ d + 1 >= startEpoch
        BY <1>8
      <3> QED
        BY <3>1, <1>8, <1>3, <1>1
    <2>2. d - startEpoch \in Nat /\ (d + 1) - startEpoch = (d - startEpoch) + 1
      BY <1>8
    <2>3. CASE k(d) = Interval - 1
      <3>1. k(d + 1) = 0 /\ q(d + 1) = q(d) + 1
        BY <2>2, <2>3, DivModNext, ZenonT(60) DEF k, q
      <3>2. 2 * E(q(d) + 1) <= E(q(d)) /\ E(q(d) + 1) \in Nat
        BY <2>1, <1>1
      <3>3. Remaining(d + 1) = Interval * (2 * E(q(d) + 1))
        BY <2>1, <3>1, <3>2
      <3>4. Interval * (2 * E(q(d) + 1)) <= Interval * E(q(d))
        BY <2>1, <3>2
      <3>5. Remaining(d) = E(q(d)) + Interval * E(q(d))
        BY <2>1, <2>3
      <3> QED
        BY <1>5, <2>1, <3>2, <3>3, <3>4, <3>5
    <2>4. CASE k(d) # Interval - 1
      <3>1. k(d + 1) = k(d) + 1 /\ q(d + 1) = q(d)
        BY <2>2, <2>4, DivModNext DEF k, q
      <3> QED
        BY <1>5, <2>1, <3>1
    <2> QED
      BY <2>3, <2>4
  <1> QED
    BY <1>4, <1>5, <1>6, <1>7, <1>8

(***************************************************************************)
(* The stored parameters keep the emission and interval of the genesis.    *)
(***************************************************************************)
LEMMA ScheduleStands == ASSUME FixedSchedule PROVE Spec => []SameSchedule
  <1> USE InflationAssumption
  <1>1. ASSUME NEW p \in ProposedParams
        PROVE  Stored(p).HalvingIntervalEpochs = p.HalvingIntervalEpochs
    BY <1>1 DEF Stored, ProposedParams
  <1>2. Init => SameSchedule
    BY <1>1 DEF Init, SameSchedule
  <1>3. SameSchedule /\ [Next]_vars => SameSchedule'
    <2> SUFFICES ASSUME SameSchedule, [Next]_vars PROVE SameSchedule'
      OBVIOUS
    <2>1. CASE \E p \in ParamProposals : UpdateParams(p)
      <3>1. PICK p \in ParamProposals : ValidParams(p) /\ params' = Stored(p)
        BY <2>1 DEF UpdateParams
      <3> QED
        BY <3>1, <1>1 DEF FixedSchedule, SameSchedule
    <2>2. CASE UNCHANGED params
      BY <2>2 DEF SameSchedule
    <2> QED
      BY <2>1, <2>2 DEF Next, Blocks, BeginBlock, BeginBlockPanic, UpdateEvmParams, Burn,
                        ExportImport, vars, paramVars
  <1> QED
    BY <1>2, <1>3, PTL DEF Spec

(***************************************************************************)
(* The hook issues the scheduled emission of the ended day, or nothing.    *)
(***************************************************************************)
LEMMA HookIssues ==
    ASSUME TypeOK, SameSchedule, NEW n \in Nat \ {0}, AfterEpochEnd(n)
    PROVE  /\ issued' \in {issued, issued + Schedule!Scheduled(n - 1)}
           /\ UNCHANGED halvingData.StartEpoch
  <1>1. EmissionOf(n - 1) = Schedule!Scheduled(n - 1)
    BY DEF SameSchedule, EmissionOf, PeriodOf, CalculateDailyEmission, CalculateHalvingPeriod,
           Schedule!Scheduled, Schedule!CalculateDailyEmission,
           Schedule!CalculateHalvingPeriod
  <1>2. CASE MintAndSendToMultiSig(n)
    <2>1. halvingData' = ReconciledHalvingData(n - 1) /\ issued' = issued + EmissionOf(n - 1)
      BY <1>2 DEF MintAndSendToMultiSig
    <2>2. ReconciledHalvingData(n - 1).StartEpoch = halvingData.StartEpoch
      BY DEF ReconciledHalvingData, TypeOK
    <2> QED
      BY <1>1, <2>1, <2>2
  <1>3. CASE UNCHANGED <<halvingData, issued>>
    BY <1>3
  <1> QED
    BY <1>2, <1>3 DEF AfterEpochEnd, SkipDisabled, RefuseZeroEmission, RefuseSupplyCap

(***************************************************************************)
(* Every step of the module is a step of the schedule or leaves it alone.  *)
(***************************************************************************)
LEMMA StepOfSchedule ==
    TypeOK /\ EpochGrid /\ SameSchedule /\ [Next]_vars
        => [Schedule!Next]_<<halvingData.StartEpoch, DaysEnded, issued>>
  <1> SUFFICES ASSUME TypeOK, EpochGrid, SameSchedule, [Next]_vars
               PROVE  [Schedule!Next]_<<halvingData.StartEpoch, DaysEnded, issued>>
    OBVIOUS
  <1>1. ASSUME NEW t \in BlockTimes, BeginBlock(t), EndsAt(DayEpochID, t)
        PROVE  Schedule!Next
    <2>1. /\ DaysEnded \in Nat /\ DaysEnded' = DaysEnded + 1
          /\ NextDay = DaysEnded + 2 /\ AfterEpochEnd(NextDay)
      BY <1>1, DaysOfABlock
    <2>2. NextDay \in Nat \ {0} /\ NextDay - 1 = DaysEnded + 1
      BY <2>1
    <2>3. /\ issued' \in {issued, issued + Schedule!Scheduled(DaysEnded + 1)}
          /\ UNCHANGED halvingData.StartEpoch
      BY <2>1, <2>2, HookIssues
    <2> QED
      BY <2>1, <2>3 DEF Schedule!Next, Schedule!Issue, Schedule!Withhold
  <1>2. ASSUME NEW t \in BlockTimes, BeginBlock(t), ~EndsAt(DayEpochID, t)
        PROVE  UNCHANGED <<halvingData.StartEpoch, DaysEnded, issued>>
    BY <1>2, DaysOfABlock DEF mintVars, hookVars
  <1>3. CASE \A t \in BlockTimes : ~BeginBlock(t)
    BY <1>3, OnlyBlocksSettle DEF epochVars, DaysEnded
  <1> QED
    BY <1>1, <1>2, <1>3

\* The chain begins where the schedule begins.
LEMMA InitOfSchedule == Init => Schedule!Init
  <1> SUFFICES ASSUME Init PROVE Schedule!Init
    OBVIOUS
  <1>1. DaysEnded = 0
    <2>1. PICK start \in [Ids -> StartTimes] : epochInfo = [i \in Ids |-> FreshEpoch(start[i])]
      BY DEF Init, InitEpochs
    <2> QED
      BY <2>1, InflationAssumption DEF DaysEnded, FreshEpoch
  <1>2. issued = 0 /\ halvingData.StartEpoch \in Nat \ {0}
    BY InitType DEF Init, TypeOK
  <1> QED
    BY <1>1, <1>2 DEF Schedule!Init

\* The emission and the interval of a schedule that no proposal touches.
LEMMA ScheduleConstants ==
    ASSUME FixedSchedule
    PROVE  Schedule!ScheduleAssumption
  BY InflationAssumption
  DEF FixedSchedule, ProposedParams, Amounts, Stored, StoredAmount, Schedule!ScheduleAssumption

\* The days that have ended are counted from one.
LEMMA DaysAreCounted == TypeOK /\ EpochGrid => DaysEnded \in Nat
  <1> SUFFICES ASSUME TypeOK, EpochGrid PROVE DaysEnded \in Nat
    OBVIOUS
  <1> DEFINE ei == epochInfo[DayEpochID]
  <1>1. ei \in EpochInfo /\ DayEpochID \in Ids
    BY InflationAssumption DEF TypeOK, EpochsTypeOK
  <1>2. ei.EpochCountingStarted => ei.CurrentEpoch >= 1
    BY <1>1 DEF EpochGrid
  <1> QED
    BY <1>1, <1>2 DEF DaysEnded, EpochInfo

\* What remains of the schedule, as the function of the lemmas above.
LEMMA RemainingIs ==
    \A d : Schedule!Remaining(d)
              = RemainingFor(Stored(GenesisParams).DailyEmission,
                             GenesisParams.HalvingIntervalEpochs, halvingData.StartEpoch, d)
  BY DEF Schedule!Remaining, Schedule!Scheduled, RemainingFor, ScheduledFor,
         Schedule!CalculateDailyEmission, Schedule!CalculateHalvingPeriod,
         CalculateDailyEmission, CalculateHalvingPeriod

(***************************************************************************)
(* x/inflation implements the schedule while the parameters keep to it.    *)
(***************************************************************************)
THEOREM RefinesSchedule == Spec => ImplementsSchedule
  <1>1. Init => Schedule!Init
    BY InitOfSchedule
  <1>2. TypeOK /\ EpochGrid /\ [Next]_vars
            => [SameSchedule => Schedule!Next]_<<halvingData.StartEpoch, DaysEnded, issued>>
    BY StepOfSchedule
  <1> QED
    BY <1>1, <1>2, TypeCorrect, EpochsOnGrid, PTL DEF Spec, ImplementsSchedule

\* Where the schedule begins, the bound is what there is to issue.
LEMMA NothingIssuedYet ==
    ASSUME FixedSchedule, Schedule!Init
    PROVE  Schedule!IssuedAndRemaining
  <1> DEFINE E == Stored(GenesisParams).DailyEmission
             I == GenesisParams.HalvingIntervalEpochs
             s == halvingData.StartEpoch
  <1>1. E \in Nat /\ I \in Nat \ {0} /\ s \in Nat \ {0} /\ DaysEnded = 0 /\ issued = 0
    BY ScheduleConstants DEF Schedule!Init, Schedule!ScheduleAssumption
  <1>2. Schedule!Remaining(1) = RemainingFor(E, I, s, 1)
    BY RemainingIs
  <1>3. Schedule!IssuedAndRemaining
           <=> issued + Schedule!Remaining(DaysEnded + 1) <= (s - 1 + 2 * I) * E
    BY DEF Schedule!IssuedAndRemaining
  <1> HIDE DEF E, I, s
  <1>4. RemainingFor(E, I, s, 1) <= (s - 1 + 2 * I) * E /\ RemainingFor(E, I, s, 1) \in Int
    <2>1. CASE s > 1
      BY <1>1, <2>1 DEF RemainingFor
    <2>2. CASE s = 1
      <3>1. ScheduledFor(E, I, s, 1) <= E /\ ScheduledFor(E, I, s, 1) \in Nat
        <4>1. CalculateHalvingPeriod(1, s, I) = 0
          BY <1>1, <2>2 DEF CalculateHalvingPeriod
        <4> QED
          BY <1>1, <4>1, EmissionHalves DEF ScheduledFor
      <3>2. RemainingFor(E, I, s, 1) = 2 * I * ScheduledFor(E, I, s, 1)
        BY <1>1, <2>2, <3>1 DEF RemainingFor
      <3>3. 2 * I * ScheduledFor(E, I, s, 1) <= 2 * I * E
        BY <1>1, <3>1
      <3> QED
        BY <1>1, <2>2, <3>1, <3>2, <3>3
    <2> QED
      BY <1>1, <2>1, <2>2
  <1>5. DaysEnded + 1 = 1
    BY <1>1
  <1>6. issued + Schedule!Remaining(DaysEnded + 1) = RemainingFor(E, I, s, 1)
    BY <1>1, <1>2, <1>4, <1>5
  <1> QED
    BY <1>3, <1>4, <1>6

\* A day that ends takes from what remains what it issues at most.
LEMMA DayIsPaidFor ==
    ASSUME FixedSchedule, TypeOK, DaysEnded \in Nat, Schedule!IssuedAndRemaining,
           [Schedule!Next]_<<halvingData.StartEpoch, DaysEnded, issued>>
    PROVE  Schedule!IssuedAndRemaining'
  <1> DEFINE E == Stored(GenesisParams).DailyEmission
             I == GenesisParams.HalvingIntervalEpochs
             s == halvingData.StartEpoch
             total == (s - 1 + 2 * I) * E
             d == DaysEnded + 1
  <1>1. E \in Nat /\ I \in Nat \ {0} /\ s \in Nat \ {0} /\ issued \in Nat
        /\ d \in Nat \ {0} /\ d + 1 \in Nat \ {0} /\ total \in Int
    BY ScheduleConstants, SMTT(60) DEF TypeOK, Schedule!ScheduleAssumption
  <1>2. issued + RemainingFor(E, I, s, d) <= total
    BY RemainingIs DEF Schedule!IssuedAndRemaining
  <1>3. /\ ScheduledFor(E, I, s, d) \in Nat
        /\ RemainingFor(E, I, s, d) \in Nat
        /\ RemainingFor(E, I, s, d + 1) \in Nat
        /\ ScheduledFor(E, I, s, d) + RemainingFor(E, I, s, d + 1) <= RemainingFor(E, I, s, d)
    <2> HIDE DEF E, I, s, d
    <2> QED
      BY <1>1, RemainingShrinks
  <1>4. CASE UNCHANGED <<halvingData.StartEpoch, DaysEnded, issued>>
    BY <1>4 DEF Schedule!IssuedAndRemaining, Schedule!Remaining, Schedule!Scheduled
  <1>5. CASE Schedule!Next
    <2>1. s' = s /\ DaysEnded' = d
      BY <1>5 DEF Schedule!Next, Schedule!Issue, Schedule!Withhold
    <2>2. Schedule!Scheduled(d) = ScheduledFor(E, I, s, d)
      BY DEF Schedule!Scheduled, ScheduledFor, Schedule!CalculateDailyEmission,
             Schedule!CalculateHalvingPeriod, CalculateDailyEmission, CalculateHalvingPeriod
    <2>3. issued' \in {issued, issued + ScheduledFor(E, I, s, d)}
      BY <1>5, <2>2 DEF Schedule!Next, Schedule!Issue, Schedule!Withhold
    <2>4. Schedule!IssuedAndRemaining' <=> issued' + RemainingFor(E, I, s, d + 1) <= total
      BY <2>1, RemainingIs
      DEF Schedule!IssuedAndRemaining, Schedule!Remaining, Schedule!Scheduled, RemainingFor,
          ScheduledFor, Schedule!CalculateDailyEmission,
          Schedule!CalculateHalvingPeriod, CalculateDailyEmission, CalculateHalvingPeriod
    <2> HIDE DEF E, I, s, d, total
    <2> QED
      BY <1>1, <1>2, <1>3, <2>3, <2>4
  <1> QED
    BY <1>4, <1>5

(***************************************************************************)
(* What is issued and what the schedule may still issue never exceed what  *)
(* the schedule has to give at the start, if no proposal touches the       *)
(* emission or the interval; the inductive form of the bound below.        *)
(***************************************************************************)
THEOREM IssuedAndRemainingBounded ==
    ASSUME FixedSchedule PROVE Spec => []Schedule!IssuedAndRemaining
  <1>1. Init => Schedule!Init
    BY InitOfSchedule
  <1>2. Schedule!Init => Schedule!IssuedAndRemaining
    BY NothingIssuedYet
  <1>3. TypeOK /\ EpochGrid /\ SameSchedule /\ [Next]_vars
          => (Schedule!IssuedAndRemaining => Schedule!IssuedAndRemaining')
    BY StepOfSchedule, DayIsPaidFor, DaysAreCounted
  <1> QED
    BY <1>1, <1>2, <1>3, TypeCorrect, EpochsOnGrid, ScheduleStands, PTL DEF Spec

(***************************************************************************)
(* All that x/inflation ever issues is bounded by the schedule, if no      *)
(* proposal touches the emission or the interval.                          *)
(***************************************************************************)
THEOREM IssuanceBounded == ASSUME FixedSchedule PROVE Spec => []TotalIssuanceBounded
  <1>1. TypeOK /\ EpochGrid /\ Schedule!IssuedAndRemaining => TotalIssuanceBounded
    <2> SUFFICES ASSUME TypeOK, EpochGrid, Schedule!IssuedAndRemaining
                 PROVE  TotalIssuanceBounded
      OBVIOUS
    <2> DEFINE E == Stored(GenesisParams).DailyEmission
               I == GenesisParams.HalvingIntervalEpochs
               s == halvingData.StartEpoch
               total == (s - 1 + 2 * I) * E
               d == DaysEnded + 1
    <2>1. E \in Nat /\ I \in Nat \ {0} /\ s \in Nat \ {0} /\ issued \in Nat
          /\ d \in Nat \ {0} /\ total \in Int
      BY ScheduleConstants, DaysAreCounted, SMTT(60) DEF TypeOK, Schedule!ScheduleAssumption
    <2>2. issued + RemainingFor(E, I, s, d) <= total
      BY RemainingIs DEF Schedule!IssuedAndRemaining
    <2>3. TotalIssuanceBounded <=> issued <= total
      BY DEF TotalIssuanceBounded, Schedule!IssuanceBounded
    <2> HIDE DEF E, I, s, d, total
    <2>4. RemainingFor(E, I, s, d) \in Nat
      BY <2>1, RemainingShrinks
    <2> QED
      BY <2>1, <2>2, <2>3, <2>4
  <1> QED
    BY <1>1, TypeCorrect, EpochsOnGrid, IssuedAndRemainingBounded, PTL
===============================================================================
