------------------------------- MODULE Epochs -------------------------------
(***************************************************************************)
(* x/epochs: the timers of the chain.  Every BeginBlock looks at every     *)
(* stored EpochInfo; a timer that has not started and whose start time has *)
(* come starts counting, and a timer whose current epoch has elapsed moves *)
(* to the next one and calls the hooks of other modules.                   *)
(*                                                                         *)
(* Time is the block time, in units far coarser than the one millisecond   *)
(* by which consensus makes block times increase, so a block may leave the *)
(* modelled time where it was.                                             *)
(***************************************************************************)
EXTENDS Integers

CONSTANTS
    Ids,          \* the epoch identifiers stored at genesis
    Duration,     \* the length of each identifier's epoch
    GenesisTime,  \* the block time of InitGenesis
    StartTimes,   \* the start times a genesis file may give an epoch
    NoStartTime,  \* the zero time.Time of a genesis file that gives none
    MaxTime,      \* bound: the block time at which the clock stops
    MaxGap        \* bound: the longest time between two blocks (an outage)

\* InitGenesis' Validate rejects a zero duration (types/epoch_info.go:30).
ASSUME EpochsAssumption ==
    /\ Duration \in [Ids -> Nat \ {0}]
    /\ GenesisTime \in Nat
    /\ StartTimes \subseteq Nat \cup {NoStartTime}
    /\ NoStartTime \notin Nat
    /\ MaxTime \in Nat
    /\ MaxGap \in Nat
    /\ GenesisTime <= MaxTime

VARIABLES
    blockTime,    \* ctx.BlockTime()
    epochInfo     \* identifier -> EpochInfo

epochVars == <<blockTime, epochInfo>>

EpochInfo == [StartTime : Nat,
              EpochCountingStarted : BOOLEAN,
              CurrentEpoch : Nat,
              CurrentEpochStartTime : Nat]

-----------------------------------------------------------------------------
\* A fresh EpochInfo.  InitGenesis replaces a zero StartTime by the block
\* time; CurrentEpochStartTime is not read before the epoch starts.
FreshEpoch(start) ==
    [StartTime |-> IF start = NoStartTime THEN GenesisTime ELSE start,
     EpochCountingStarted |-> FALSE,
     CurrentEpoch |-> 0,
     CurrentEpochStartTime |-> 0]

InitEpochs ==
    /\ blockTime = GenesisTime
    /\ \E start \in [Ids -> StartTimes] :
          epochInfo = [id \in Ids |-> FreshEpoch(start[id])]

ShouldInitialEpochStart(ei, t) ==
    /\ ~ei.EpochCountingStarted
    /\ ei.StartTime <= t

\* Variant: a block that lands past the end of the epoch misses it.
ShouldEpochEndOnTheDot(id, ei, t) ==
    /\ ei.CurrentEpochStartTime + Duration[id] = t
    /\ ~ShouldInitialEpochStart(ei, t)
    /\ ei.StartTime <= t

ShouldEpochEnd(id, ei, t) ==
    /\ ei.CurrentEpochStartTime + Duration[id] < t
    /\ ~ShouldInitialEpochStart(ei, t)
    /\ ei.StartTime <= t

StartInitialEpoch(ei) ==
    [ei EXCEPT !.EpochCountingStarted = TRUE,
               !.CurrentEpoch = 1,
               !.CurrentEpochStartTime = ei.StartTime]

EndEpoch(id, ei) ==
    [ei EXCEPT !.CurrentEpoch = ei.CurrentEpoch + 1,
               !.CurrentEpochStartTime = ei.CurrentEpochStartTime + Duration[id]]

\* Variant: the next epoch starts at the block that ended the last one.
TickFromBlockTime(id, ei, t) ==
    IF ShouldInitialEpochStart(ei, t) THEN StartInitialEpoch(ei)
    ELSE IF ShouldEpochEnd(id, ei, t)
    THEN [EndEpoch(id, ei) EXCEPT !.CurrentEpochStartTime = t]
    ELSE ei

\* What one BeginBlock at time t makes of the EpochInfo of id.
Tick(id, ei, t) ==
    IF ShouldInitialEpochStart(ei, t) THEN StartInitialEpoch(ei)
    ELSE IF ShouldEpochEnd(id, ei, t) THEN EndEpoch(id, ei)
    ELSE ei

\* The identifiers whose AfterEpochEnd hooks run in a BeginBlock at time t,
\* with the number Tick has already moved them to.
EndsAt(id, t) == ShouldEpochEnd(id, epochInfo[id], t)

BeginBlocker(t) ==
    /\ blockTime' = t
    /\ epochInfo' = [id \in Ids |-> Tick(id, epochInfo[id], t)]

\* Block times never decrease; MaxGap and MaxTime bound the model.
BlockTimes == {t \in blockTime .. (blockTime + MaxGap) : t <= MaxTime}

-----------------------------------------------------------------------------
EpochsTypeOK ==
    /\ blockTime \in Nat
    /\ blockTime <= MaxTime
    /\ epochInfo \in [Ids -> EpochInfo]

(***************************************************************************)
(* Epochs lie on the grid StartTime + k * Duration and never run ahead of  *)
(* the clock: however late the blocks were, EndEpoch adds exactly one      *)
(* Duration (types/epoch_info.go:22), so a delayed block never shifts the  *)
(* later epochs, and the epoch being counted has begun.                    *)
(***************************************************************************)
EpochGrid ==
    \A id \in Ids :
        LET ei == epochInfo[id] IN
        IF ei.EpochCountingStarted
        THEN /\ ei.CurrentEpoch >= 1
             /\ ei.CurrentEpochStartTime =
                  ei.StartTime + (ei.CurrentEpoch - 1) * Duration[id]
             /\ ei.CurrentEpochStartTime <= blockTime
        ELSE ei.CurrentEpoch = 0
=============================================================================
