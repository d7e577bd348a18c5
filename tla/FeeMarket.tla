----------------------------- MODULE FeeMarket -----------------------------
(***************************************************************************)
(* x/feemarket: the base fee, which BeginBlock computes from the gas of the*)
(* block before, and the gas that EndBlock records for the next one.  The  *)
(* transactions are the environment here, they count the gas they want and *)
(* consume the gas of the block (module EvmTx says how).                   *)
(*                                                                         *)
(* The parameters live in the module's store, the base fee among them; the *)
(* gas wanted is in the transient store, which every Commit empties, and   *)
(* the gas used in the block gas meter, which baseapp makes anew for every *)
(* block.  Decimals (MinGasPrice and MinGasMultiplier) are numbers of      *)
(* 1/Unit.                                                                 *)
(***************************************************************************)
EXTENDS Integers

CONSTANTS
    Word,             \* 2^64: the gas counters are uint64
    Unit,             \* the denominator of the decimals (10^18)
    MaxGas,           \* the consensus parameter Block.MaxGas, -1 for no limit
    ParamSets,        \* what genesis and governance may set the parameters to
    TxGas,            \* the gas that transactions want
    HighestCap,       \* nobody offers a higher price per unit of gas
    MaxPrice,         \* bound: at a base fee above this one the blocks are empty
    MaxUpdates,       \* bound: the parameter changes
    MaxHeight         \* bound: heights from here on count as this one

VARIABLES
    params,           \* the parameters, see FeeMarketParams
    blockGas,         \* KeyPrefixBlockGasWanted
    gasWanted,        \* KeyPrefixTransientBlockGasWanted
    gasUsed,          \* ctx.BlockGasMeter().GasConsumedToLimit()
    height,
    phase,            \* where the block is, see Phases
    updates           \* the parameter changes so far

feeVars == <<params, blockGas, gasWanted, gasUsed, height, phase, updates>>

\* "txs": BeginBlock is over, transactions are delivered; "ending": they are
\* over, governance's EndBlock has run; "committed"; "halted": BeginBlock has
\* panicked, no node gets past this block.
Phases == {"txs", "ending", "committed", "halted"}

-----------------------------------------------------------------------------
MaxInt64 == Word \div 2 - 1
MaxUint64 == Word - 1

FeeMarketParams == [noBaseFee : BOOLEAN, enableHeight : Int, baseFee : Int,
                    denominator : Nat, elasticity : Nat,
                    minGasPrice : Int, minGasMultiplier : Int]

\* Params.Validate.  Nothing is asked of the elasticity.
Validate(p) ==
    /\ p.denominator # 0
    /\ p.baseFee >= 0
    /\ p.enableHeight >= 0
    /\ p.minGasMultiplier \in 0 .. Unit
    /\ p.minGasPrice >= 0

ASSUME FeeMarketAssumption ==
    /\ Word \in Nat /\ Word > 1
    /\ Unit \in Nat \ {0}
    /\ MaxGas \in Int /\ MaxGas >= -1 /\ MaxGas < Word
    /\ ParamSets \subseteq FeeMarketParams
    /\ TxGas \subseteq 0 .. Word - 1
    /\ HighestCap \in Nat
    /\ MaxPrice \in Nat /\ MaxPrice >= HighestCap
    /\ MaxUpdates \in Nat
    /\ MaxHeight \in Nat

LargerOf(a, b) == IF a >= b THEN a ELSE b
SmallerOf(a, b) == IF a <= b THEN a ELSE b

IsBaseFeeEnabled(p, h) == ~p.noBaseFee /\ h >= p.enableHeight

\* The gas limit that CalculateBaseFee starts from.
GasLimit == IF MaxGas > -1 THEN MaxGas ELSE MaxUint64

GasTarget(p) == GasLimit \div p.elasticity

\* What the block gas meter counts up to: a limit of zero is none to baseapp.
MeterLimit == IF MaxGas > 0 THEN MaxGas ELSE MaxUint64

Floor(p) == p.minGasPrice \div Unit

\* By how much the base fee changes for a distance of delta from the target.
BaseFeeDelta(p, delta) ==
    ((p.baseFee * delta) \div GasTarget(p)) \div p.denominator

\* Variant: the aliased big.Int is read after it has been overwritten, and the
\* price never comes down.
LoweredNever(p, delta) == LargerOf(p.baseFee, Floor(p))

\* The base fee after a block that asked for delta less than the target.
Lowered(p, delta) ==
    LargerOf(p.baseFee - BaseFeeDelta(p, delta), Floor(p))

\* Variant: an increase that rounds to nothing leaves the base fee alone.
RaisedOrEqual(p, delta) == p.baseFee + BaseFeeDelta(p, delta)

\* The base fee after a block that asked for delta more than the target.
Raised(p, delta) == p.baseFee + LargerOf(BaseFeeDelta(p, delta), 1)

\* Variant: the base fee is lowered past the floor.
NextBaseFeeNoFloor(p, gas) ==
    IF gas = GasTarget(p) THEN p.baseFee
    ELSE IF gas > GasTarget(p) THEN Raised(p, gas - GasTarget(p))
    ELSE p.baseFee - BaseFeeDelta(p, GasTarget(p) - gas)

NextBaseFee(p, gas) ==
    IF gas = GasTarget(p) THEN p.baseFee
    ELSE IF gas > GasTarget(p) THEN Raised(p, gas - GasTarget(p))
    ELSE Lowered(p, GasTarget(p) - gas)

\* A division by zero: by the elasticity, or by the target of a block that
\* asked for more than that.
Panics(p, gas) ==
    p.elasticity # 0 => GasTarget(p) = 0 /\ gas > 0

\* The base fee as the EVM sees it: the module's GetBaseFee, and zero for nil.
EvmBaseFee == IF params.noBaseFee THEN 0 ELSE params.baseFee

\* Variant: only the gas used is recorded.
GasToRecordUsed(wanted, used) == used

\* What EndBlock records: the larger of the gas used and a part of the gas
\* wanted, so that wanting gas and not using it does not go unpunished.
GasToRecord(wanted, used) ==
    LargerOf((wanted * params.minGasMultiplier) \div Unit, used)

-----------------------------------------------------------------------------
FeeInit ==
    /\ params \in {p \in ParamSets : Validate(p)}
    /\ blockGas = 0
    /\ gasWanted = 0
    /\ gasUsed = 0
    /\ height = 0
    /\ phase = "committed"
    /\ updates = 0

NextHeight == SmallerOf(height + 1, MaxHeight)

\* BeginBlock, after the Commit of the block before has emptied the transient
\* store and baseapp has made a new block gas meter.
BeginBlock ==
    /\ phase = "committed"
    /\ height' = NextHeight
    /\ gasWanted' = 0
    /\ gasUsed' = 0
    /\ \/ /\ \/ ~IsBaseFeeEnabled(params, NextHeight)
             \/ NextHeight = params.enableHeight
          /\ phase' = "txs"
          /\ UNCHANGED params
       \/ /\ IsBaseFeeEnabled(params, NextHeight)
          /\ NextHeight # params.enableHeight
          /\ ~Panics(params, blockGas)
          /\ params' = [params EXCEPT !.baseFee = NextBaseFee(params, blockGas)]
          /\ phase' = "txs"
       \/ /\ IsBaseFeeEnabled(params, NextHeight)
          /\ NextHeight # params.enableHeight
          /\ Panics(params, blockGas)
          /\ phase' = "halted"
          /\ UNCHANGED params
    /\ UNCHANGED <<blockGas, updates>>

\* AddTransientGasWanted: an unchecked addition, made only for transactions
\* that can pay the base fee and only when the base fee is enabled.
CountGasWanted(gas) ==
    /\ phase = "txs"
    /\ IsBaseFeeEnabled(params, height)
    /\ EvmBaseFee <= HighestCap
    /\ gasWanted' = (gasWanted + gas) % Word
    /\ UNCHANGED <<params, blockGas, gasUsed, height, phase, updates>>

BlockIsFull == MaxGas > 0 /\ gasUsed >= MaxGas

\* A transaction ends, or is rejected by its ante handler, which a base fee
\* that it cannot pay is a reason for: the block gas meter takes the gas it
\* used, up to its limit.
ConsumeBlockGas(gas) ==
    /\ phase = "txs"
    /\ ~BlockIsFull
    /\ EvmBaseFee <= MaxPrice
    /\ gasUsed' = SmallerOf(gasUsed + gas, MeterLimit)
    /\ UNCHANGED <<params, blockGas, gasWanted, height, phase, updates>>

\* A proposal passes: governance's EndBlock comes before this module's.  The
\* new parameters have been validated, the base fee is one of them.
UpdateParams(p) ==
    /\ phase \in {"txs", "ending"}
    /\ updates < MaxUpdates
    /\ Validate(p)
    /\ params' = p
    /\ phase' = "ending"
    /\ updates' = updates + 1
    /\ UNCHANGED <<blockGas, gasWanted, gasUsed, height>>

\* EndBlock.  Counters beyond an int64 are only logged: the record of the
\* block before stays.
EndBlock ==
    /\ phase \in {"txs", "ending"}
    /\ \/ /\ gasWanted <= MaxInt64 /\ gasUsed <= MaxInt64
          /\ blockGas' = GasToRecord(gasWanted, gasUsed)
       \/ /\ gasWanted > MaxInt64 \/ gasUsed > MaxInt64
          /\ UNCHANGED blockGas
    /\ phase' = "committed"
    /\ UNCHANGED <<params, gasWanted, gasUsed, height, updates>>

FeeNext ==
    \/ BeginBlock
    \/ \E gas \in TxGas : CountGasWanted(gas)
    \/ \E gas \in TxGas : ConsumeBlockGas(gas)
    \/ \E p \in ParamSets : UpdateParams(p)
    \/ EndBlock

FeeSpec == FeeInit /\ [][FeeNext]_feeVars

\* The consensus engine keeps making blocks, with or without transactions.
FeeFairness == WF_feeVars(BeginBlock) /\ WF_feeVars(EndBlock)

FeeLiveSpec == FeeSpec /\ FeeFairness

-----------------------------------------------------------------------------
FeeTypeOK ==
    /\ params \in {p \in FeeMarketParams : Validate(p)}
    /\ blockGas \in Nat
    /\ gasWanted \in 0 .. MaxUint64
    /\ gasUsed \in 0 .. MaxUint64
    /\ height \in Nat
    /\ phase \in Phases
    /\ updates \in Nat

\* A step that computes a new base fee: BeginBlock at a height where the base
\* fee is enabled, other than the first one.
NewBaseFee ==
    /\ phase = "committed"
    /\ phase' = "txs"
    /\ IsBaseFeeEnabled(params, height')
    /\ height' # params.enableHeight

\* The counters of the block that has just ended fit an int64.
Counted == gasWanted <= MaxInt64 /\ gasUsed <= MaxInt64

\* A block whose transactions used more than the target raises the price of
\* the next one, whatever was counted as wanted (EndBlock, abci.go:66-69, and
\* CalculateBaseFee, eip1559.go:69-81).
BusyBlockRaisesPrice ==
    [][ NewBaseFee /\ Counted /\ gasUsed > GasTarget(params)
          => params'.baseFee > params.baseFee ]_feeVars

\* A block that wanted and used no more than the target does not raise the
\* price, but for the floor (eip1559.go:65-67, 83-93).
QuietBlockRaisesNothing ==
    [][ NewBaseFee /\ Counted
          /\ LargerOf(gasWanted, gasUsed) <= GasTarget(params)
          => params'.baseFee <= LargerOf(params.baseFee, Floor(params)) ]_feeVars

\* Wanting more than the target and using nothing does not keep the price
\* down: when the part of it that counts is above the target, it rises
\* (abci.go:62-69, "to prevent BaseFee manipulation").
UnusedGasRaisesPrice ==
    [][ NewBaseFee /\ Counted
          /\ gasWanted * params.minGasMultiplier > Unit * (GasTarget(params) + 1)
          => params'.baseFee > params.baseFee ]_feeVars

\* No block takes the price from the floor or above to below it, nor lowers
\* it by more than the share that the denominator allows (eip1559.go:83-93).
PriceFallsWithinBounds ==
    [][ NewBaseFee =>
          /\ params.baseFee >= Floor(params) => params'.baseFee >= Floor(params)
          /\ params'.baseFee >= params.baseFee - params.baseFee \div params.denominator
      ]_feeVars

\* The smallest price that an idle chain comes down to: the floor, or where
\* the share of the denominator rounds to nothing.
RestingPrice(p) == LargerOf(Floor(p), p.denominator - 1)

\* In a block that nobody can pay for, no gas is used.
IdleWhenUnpayable == EvmBaseFee > HighestCap => gasUsed = 0

\* The chain does not price everybody out for good: when nobody offers the
\* base fee it comes down to where it rests, unless governance ends the base
\* fee or an elasticity of zero the chain.  This is so once the blocks that
\* nobody can pay for are empty: proposers that go on including transactions
\* that the ante handler rejects keep the price up with the gas of those
\* (eip1559.go:83-93 with abci.go:66-70).
PriceComesDown ==
    <>[]IdleWhenUnpayable =>
      ((EvmBaseFee > HighestCap)
          ~> \/ params.baseFee <= LargerOf(HighestCap, RestingPrice(params))
             \/ ~IsBaseFeeEnabled(params, height)
             \/ phase = "halted")
=============================================================================
