---------------------------- MODULE EvmTx_proofs ----------------------------
(***************************************************************************)
(* Theorems about x/feemarket and about the transactions of x/evm that move*)
(* its counters, for every value of their constants.                       *)
(*                                                                         *)
(* First FeeMarket by itself: the types, and what a block does to the base *)
(* fee of the next one.  Then EvmTx, which extends it: the books of a      *)
(* transaction as sums over its messages, the invariant TxInv of the       *)
(* actions, and what follows from it.                                      *)
(***************************************************************************)
EXTENDS EvmTx, Sums_proofs

-----------------------------------------------------------------------------
(* The fee market.                                                         *)

USE FeeMarketAssumption

Parameters == {p \in FeeMarketParams : Validate(p)}

-----------------------------------------------------------------------------
(* Arithmetic.                                                             *)

\* Integer division by a positive number rounds down.
LEMMA DivBounds ==
    ASSUME NEW a \in Nat, NEW d \in Nat \ {0}
    PROVE  /\ a \div d \in Nat
           /\ d * (a \div d) <= a
           /\ a < d * (a \div d) + d
  BY Z3

\* A quotient is at most q when the dividend is at most q times the divisor.
LEMMA DivAtMost ==
    ASSUME NEW a \in Nat, NEW d \in Nat \ {0}, NEW q \in Nat, a <= d * q
    PROVE  a \div d <= q
  <1>1. d * (a \div d) <= a /\ a \div d \in Nat
    BY DivBounds
  <1> QED
    BY <1>1, Z3

\* A larger dividend has no smaller quotient.
LEMMA DivMonotone ==
    ASSUME NEW a \in Nat, NEW b \in Nat, NEW d \in Nat \ {0}, a <= b
    PROVE  a \div d <= b \div d
  <1>1. /\ b \div d \in Nat /\ b < d * (b \div d) + d
        /\ a \div d \in Nat /\ d * (a \div d) <= a
    BY DivBounds
  <1> QED
    BY <1>1, Z3

\* The share of a fee for a part of the target is at most the share for all of it.
LEMMA ShareAtMost ==
    ASSUME NEW fee \in Nat, NEW target \in Nat \ {0}, NEW delta \in 0 .. target,
           NEW d \in Nat \ {0}
    PROVE  /\ ((fee * delta) \div target) \div d \in Nat
           /\ ((fee * delta) \div target) \div d <= fee \div d
           /\ fee \div d <= fee
  <1>1. fee * delta \in Nat /\ fee * delta <= target * fee
    BY Z3
  <1>2. (fee * delta) \div target \in Nat
    BY <1>1, DivBounds
  <1>3. (fee * delta) \div target <= fee
    BY <1>1, DivAtMost
  <1>4. ((fee * delta) \div target) \div d <= fee \div d
    BY <1>2, <1>3, DivMonotone
  <1>5. fee <= d * fee
    BY Z3
  <1>6. fee \div d <= fee
    BY <1>5, DivAtMost
  <1> QED
    BY <1>2, <1>4, <1>6, DivBounds

-----------------------------------------------------------------------------
(* The base fee.                                                           *)

\* The types of a valid parameter set's fields.
LEMMA ParameterTypes ==
    ASSUME NEW p \in Parameters
    PROVE  /\ p.baseFee \in Nat
           /\ p.denominator \in Nat \ {0}
           /\ p.elasticity \in Nat
           /\ p.minGasPrice \in Nat
           /\ p.minGasMultiplier \in Nat
           /\ p.enableHeight \in Nat
           /\ p.noBaseFee \in BOOLEAN
  BY DEF Parameters, FeeMarketParams, Validate

\* The gas limit is a uint64.
LEMMA GasLimitType == GasLimit \in 0 .. MaxUint64 /\ MaxUint64 \in Nat
  BY DEF GasLimit, MaxUint64

\* What the block gas meter counts up to is a uint64 as well.
LEMMA MeterLimitType == MeterLimit \in 0 .. MaxUint64
  BY FeeMarketAssumption DEF MeterLimit, MaxUint64

\* The floor of the base fee is a natural number.
LEMMA FloorType ==
    ASSUME NEW p \in Parameters
    PROVE  Floor(p) \in Nat
  BY ParameterTypes, DivBounds DEF Floor

\* Where BeginBlock does not panic, the target is a number, and a positive one
\* unless the block asked for none.
LEMMA TargetType ==
    ASSUME NEW p \in Parameters, NEW gas \in Nat, ~Panics(p, gas)
    PROVE  /\ GasTarget(p) \in Nat
           /\ gas > 0 => GasTarget(p) > 0
  <1>1. p.elasticity \in Nat \ {0}
    BY ParameterTypes DEF Panics
  <1>2. GasTarget(p) \in Nat
    BY <1>1, GasLimitType, DivBounds DEF GasTarget
  <1> QED
    BY <1>2 DEF Panics

\* What the next base fee is at least and at most, in each of the three cases.
LEMMA NextBaseFeeBounds ==
    ASSUME NEW p \in Parameters, NEW gas \in Nat, ~Panics(p, gas)
    PROVE  /\ NextBaseFee(p, gas) \in Nat
           /\ gas > GasTarget(p) => NextBaseFee(p, gas) > p.baseFee
           /\ gas <= GasTarget(p)
                => NextBaseFee(p, gas) <= LargerOf(p.baseFee, Floor(p))
           /\ p.baseFee >= Floor(p) => NextBaseFee(p, gas) >= Floor(p)
           /\ NextBaseFee(p, gas) >= p.baseFee - p.baseFee \div p.denominator
  <1> DEFINE target == GasTarget(p)
             share == p.baseFee \div p.denominator
  <1>1. target \in Nat /\ (gas > 0 => target > 0)
    BY TargetType
  <1>2. p.baseFee \in Nat /\ p.denominator \in Nat \ {0} /\ Floor(p) \in Nat
    BY ParameterTypes, FloorType
  <1>3. share \in Nat
    BY <1>2, DivBounds
  <1>4. CASE gas = target
    <2>1. NextBaseFee(p, gas) = p.baseFee
      BY <1>4 DEF NextBaseFee
    <2> QED
      BY <1>1, <1>2, <1>3, <1>4, <2>1 DEF LargerOf
  <1>5. CASE gas > target
    <2>1. NextBaseFee(p, gas) = Raised(p, gas - target)
      BY <1>1, <1>5 DEF NextBaseFee
    <2>2. BaseFeeDelta(p, gas - target) \in Nat
      <3>1. target \in Nat \ {0} /\ gas - target \in Nat
        BY <1>1, <1>5
      <3>2. p.baseFee * (gas - target) \in Nat
        BY <1>2, <3>1, Z3
      <3>3. (p.baseFee * (gas - target)) \div target \in Nat
        BY <3>1, <3>2, DivBounds
      <3> QED
        BY <1>2, <3>3, DivBounds DEF BaseFeeDelta
    <2>3. Raised(p, gas - target) \in Nat /\ Raised(p, gas - target) > p.baseFee
      BY <1>2, <2>2 DEF Raised, LargerOf
    <2> HIDE DEF target, share
    <2> QED
      BY <1>1, <1>2, <1>3, <1>5, <2>1, <2>3 DEF target, share
  <1>6. CASE gas < target
    <2>1. NextBaseFee(p, gas) = Lowered(p, target - gas)
      BY <1>1, <1>6 DEF NextBaseFee
    <2>2. target \in Nat \ {0} /\ target - gas \in 0 .. target
      BY <1>1, <1>6
    <2>3. /\ BaseFeeDelta(p, target - gas) \in Nat
          /\ BaseFeeDelta(p, target - gas) <= share
          /\ share <= p.baseFee
      BY <1>2, <2>2, ShareAtMost DEF BaseFeeDelta
    <2> DEFINE delta == BaseFeeDelta(p, target - gas)
    <2>4. Lowered(p, target - gas) = LargerOf(p.baseFee - delta, Floor(p))
      BY DEF Lowered
    <2> HIDE DEF target, share, delta
    <2>5. /\ LargerOf(p.baseFee - delta, Floor(p)) \in Nat
          /\ LargerOf(p.baseFee - delta, Floor(p)) >= Floor(p)
          /\ LargerOf(p.baseFee - delta, Floor(p)) >= p.baseFee - share
          /\ LargerOf(p.baseFee - delta, Floor(p)) <= LargerOf(p.baseFee, Floor(p))
      BY <1>2, <1>3, <2>3 DEF LargerOf, delta
    <2> QED
      BY <1>1, <1>6, <2>1, <2>4, <2>5 DEF target, share
  <1> QED
    BY <1>1, <1>4, <1>5, <1>6

\* The gas recorded for the next block.
LEMMA GasToRecordType ==
    ASSUME FeeTypeOK
    PROVE  /\ GasToRecord(gasWanted, gasUsed) \in Nat
           /\ (gasWanted * params.minGasMultiplier) \div Unit \in Nat
  <1>1. params \in Parameters /\ gasWanted \in Nat /\ gasUsed \in Nat
    BY DEF FeeTypeOK, Parameters
  <1>2. params.minGasMultiplier \in Nat
    BY <1>1, ParameterTypes
  <1>3. gasWanted * params.minGasMultiplier \in Nat
    BY <1>1, <1>2, Z3
  <1>4. (gasWanted * params.minGasMultiplier) \div Unit \in Nat
    BY <1>3, DivBounds
  <1> QED
    BY <1>1, <1>4 DEF GasToRecord, LargerOf

-----------------------------------------------------------------------------
(* Types.                                                                  *)

\* Every step preserves the types: the base fee stays a natural number, the
\* parameters valid and the counters within a uint64.
LEMMA TypeStep ==
    ASSUME FeeTypeOK, [FeeNext]_feeVars
    PROVE  FeeTypeOK'
  <1> USE DEF FeeTypeOK
  <1>0. MaxUint64 \in Nat /\ MeterLimit \in 0 .. MaxUint64
    BY GasLimitType, MeterLimitType
  <1>1. CASE BeginBlock
    <2>1. height' \in Nat
      BY <1>1 DEF BeginBlock, NextHeight, SmallerOf
    <2>2. gasWanted' = 0 /\ gasUsed' = 0 /\ phase' \in Phases
      BY <1>1 DEF BeginBlock, Phases
    <2>3. params' \in {p \in FeeMarketParams : Validate(p)}
      <3>1. CASE UNCHANGED params
        BY <3>1
      <3>2. CASE /\ ~Panics(params, blockGas)
                 /\ params' = [params EXCEPT !.baseFee = NextBaseFee(params, blockGas)]
        <4>1. params \in Parameters
          BY DEF Parameters
        <4>2. NextBaseFee(params, blockGas) \in Nat
          BY <3>2, <4>1, NextBaseFeeBounds
        <4>3. params' \in FeeMarketParams /\ params'.baseFee \in Nat
          BY <3>2, <4>2 DEF FeeMarketParams
        <4>4. /\ params'.denominator = params.denominator
              /\ params'.enableHeight = params.enableHeight
              /\ params'.minGasMultiplier = params.minGasMultiplier
              /\ params'.minGasPrice = params.minGasPrice
          BY <3>2 DEF FeeMarketParams
        <4> QED
          BY <4>3, <4>4 DEF Validate
      <3> QED
        BY <1>1, <3>1, <3>2 DEF BeginBlock
    <2> QED
      BY <1>0, <1>1, <2>1, <2>2, <2>3 DEF BeginBlock
  <1>2. ASSUME NEW gas \in TxGas, CountGasWanted(gas)
        PROVE  FeeTypeOK'
    <2>1. gasWanted' \in 0 .. MaxUint64
      <3>1. gasWanted + gas \in Nat
        BY <1>0
      <3> QED
        BY <1>2, <3>1, Z3 DEF CountGasWanted, MaxUint64
    <2> QED
      BY <1>2, <2>1 DEF CountGasWanted
  <1>3. ASSUME NEW gas \in TxGas, ConsumeBlockGas(gas)
        PROVE  FeeTypeOK'
    <2>1. gasUsed' \in 0 .. MaxUint64
      BY <1>0, <1>3 DEF ConsumeBlockGas, SmallerOf
    <2> QED
      BY <1>3, <2>1 DEF ConsumeBlockGas
  <1>4. ASSUME NEW p \in ParamSets, UpdateParams(p)
        PROVE  FeeTypeOK'
    BY <1>4 DEF UpdateParams, Phases
  <1>5. CASE EndBlock
    <2>1. blockGas' \in Nat
      BY <1>5, GasToRecordType DEF EndBlock
    <2> QED
      BY <1>5, <2>1 DEF EndBlock, Phases
  <1>6. CASE UNCHANGED feeVars
    BY <1>6 DEF feeVars
  <1> QED
    BY <1>1, <1>2, <1>3, <1>4, <1>5, <1>6 DEF FeeNext

\* The types hold in every reachable state.
THEOREM TypeCorrect == FeeSpec => []FeeTypeOK
  <1>1. FeeInit => FeeTypeOK
    BY DEF FeeInit, FeeTypeOK, MaxUint64, Phases
  <1>2. FeeTypeOK /\ [FeeNext]_feeVars => FeeTypeOK'
    BY TypeStep
  <1> QED
    BY <1>1, <1>2, PTL DEF FeeSpec

-----------------------------------------------------------------------------
(* What a block does to the price of the next one.                         *)

\* Between two blocks the record is that of the block just ended, when its
\* counters fit: nothing after EndBlock changes the record, the counters or
\* the multiplier.
RecordOfLastBlock ==
    phase = "committed" /\ Counted => blockGas = GasToRecord(gasWanted, gasUsed)

\* The record of the last block holds at the start, where no block has been.
LEMMA RecordInit ==
    ASSUME FeeInit
    PROVE  RecordOfLastBlock
  <1>1. params \in Parameters
    BY DEF FeeInit, Parameters
  <1>2. params.minGasMultiplier \in Nat
    BY <1>1, ParameterTypes
  <1>3. 0 * params.minGasMultiplier = 0
    BY <1>2, Z3
  <1>4. 0 \div Unit = 0
    BY Z3
  <1> QED
    BY <1>3, <1>4 DEF FeeInit, RecordOfLastBlock, GasToRecord, LargerOf

\* Each step keeps it: EndBlock alone writes the recorded gas and the phase.
LEMMA RecordStep ==
    ASSUME FeeTypeOK, RecordOfLastBlock, [FeeNext]_feeVars
    PROVE  RecordOfLastBlock'
  <1> USE DEF RecordOfLastBlock, Counted, GasToRecord
  <1>1. CASE BeginBlock
    BY <1>1 DEF BeginBlock
  <1>2. ASSUME NEW gas \in TxGas, CountGasWanted(gas)
        PROVE  RecordOfLastBlock'
    BY <1>2 DEF CountGasWanted
  <1>3. ASSUME NEW gas \in TxGas, ConsumeBlockGas(gas)
        PROVE  RecordOfLastBlock'
    BY <1>3 DEF ConsumeBlockGas
  <1>4. ASSUME NEW p \in ParamSets, UpdateParams(p)
        PROVE  RecordOfLastBlock'
    BY <1>4 DEF UpdateParams
  <1>5. CASE EndBlock
    <2>1. /\ gasWanted \in Int /\ gasUsed \in Int /\ MaxInt64 \in Int
      BY DEF FeeTypeOK, MaxInt64, MaxUint64
    <2> QED
      BY <1>5, <2>1 DEF EndBlock
  <1>6. CASE UNCHANGED feeVars
    BY <1>6 DEF feeVars
  <1> QED
    BY <1>1, <1>2, <1>3, <1>4, <1>5, <1>6 DEF FeeNext

\* In every reachable state between two blocks, the record is that of the block.
LEMMA RecordCorrect == FeeSpec => []RecordOfLastBlock
  <1>1. FeeInit => RecordOfLastBlock
    BY RecordInit
  <1>2. FeeTypeOK /\ RecordOfLastBlock /\ [FeeNext]_feeVars => RecordOfLastBlock'
    BY RecordStep
  <1> QED
    BY <1>1, <1>2, TypeCorrect, PTL DEF FeeSpec

\* The step that computes a new base fee is BeginBlock's second disjunct.
LEMMA NewBaseFeeStep ==
    ASSUME FeeTypeOK, [FeeNext]_feeVars, NewBaseFee
    PROVE  /\ params \in Parameters
           /\ ~Panics(params, blockGas)
           /\ params'.baseFee = NextBaseFee(params, blockGas)
  <1>1. phase = "committed" /\ phase' = "txs"
    BY DEF NewBaseFee
  <1>2. BeginBlock
    BY <1>1 DEF FeeNext, feeVars, CountGasWanted, ConsumeBlockGas, UpdateParams,
                EndBlock
  <1>3. /\ IsBaseFeeEnabled(params, NextHeight)
        /\ NextHeight # params.enableHeight
    BY <1>2 DEF BeginBlock, NewBaseFee
  <1>4. /\ ~Panics(params, blockGas)
        /\ params' = [params EXCEPT !.baseFee = NextBaseFee(params, blockGas)]
    BY <1>1, <1>2, <1>3 DEF BeginBlock
  <1>5. params \in Parameters /\ params \in FeeMarketParams
    BY DEF FeeTypeOK, Parameters
  <1>6. params'.baseFee = NextBaseFee(params, blockGas)
    BY <1>4, <1>5 DEF FeeMarketParams
  <1> QED
    BY <1>4, <1>5, <1>6

\* A block that used more than the target raises the price of the next one,
\* whatever it was counted to want.
THEOREM BusyBlocks == FeeSpec => BusyBlockRaisesPrice
  <1>1. FeeTypeOK /\ RecordOfLastBlock /\ [FeeNext]_feeVars
          => [NewBaseFee /\ Counted /\ gasUsed > GasTarget(params)
                => params'.baseFee > params.baseFee]_feeVars
    <2> SUFFICES ASSUME FeeTypeOK, RecordOfLastBlock, [FeeNext]_feeVars,
                        NewBaseFee, Counted, gasUsed > GasTarget(params)
                 PROVE  params'.baseFee > params.baseFee
      OBVIOUS
    <2>1. /\ params \in Parameters
          /\ ~Panics(params, blockGas)
          /\ params'.baseFee = NextBaseFee(params, blockGas)
      BY NewBaseFeeStep
    <2>2. blockGas = GasToRecord(gasWanted, gasUsed)
      BY DEF RecordOfLastBlock, NewBaseFee
    <2>3. blockGas \in Nat /\ gasUsed \in Nat
      BY DEF FeeTypeOK
    <2>4. GasTarget(params) \in Nat
      BY <2>1, <2>3, TargetType
    <2>5. blockGas > GasTarget(params)
      BY <2>2, <2>3, <2>4, GasToRecordType DEF GasToRecord, LargerOf
    <2> QED
      BY <2>1, <2>3, <2>5, NextBaseFeeBounds
  <1> QED
    BY <1>1, TypeCorrect, RecordCorrect, PTL DEF FeeSpec, BusyBlockRaisesPrice

\* A block that wanted and used no more than the target raises the price to the
\* floor at most: the part of the gas wanted that counts is no more than all.
THEOREM QuietBlocks == FeeSpec => QuietBlockRaisesNothing
  <1>1. FeeTypeOK /\ RecordOfLastBlock /\ [FeeNext]_feeVars
          => [NewBaseFee /\ Counted
                /\ LargerOf(gasWanted, gasUsed) <= GasTarget(params)
                => params'.baseFee <= LargerOf(params.baseFee, Floor(params))]_feeVars
    <2> SUFFICES ASSUME FeeTypeOK, RecordOfLastBlock, [FeeNext]_feeVars,
                        NewBaseFee, Counted,
                        LargerOf(gasWanted, gasUsed) <= GasTarget(params)
                 PROVE  params'.baseFee <= LargerOf(params.baseFee, Floor(params))
      OBVIOUS
    <2>1. /\ params \in Parameters
          /\ ~Panics(params, blockGas)
          /\ params'.baseFee = NextBaseFee(params, blockGas)
      BY NewBaseFeeStep
    <2>2. blockGas = GasToRecord(gasWanted, gasUsed)
      BY DEF RecordOfLastBlock, NewBaseFee
    <2>3. blockGas \in Nat /\ gasUsed \in Nat /\ gasWanted \in Nat
      BY DEF FeeTypeOK
    <2>4. GasTarget(params) \in Nat
      BY <2>1, <2>3, TargetType
    <2> DEFINE part == (gasWanted * params.minGasMultiplier) \div Unit
    <2>5. part <= gasWanted
      <3>1. params.minGasMultiplier \in 0 .. Unit
        BY <2>1 DEF Parameters, Validate
      <3>2. /\ gasWanted * params.minGasMultiplier \in Nat
            /\ gasWanted * params.minGasMultiplier <= Unit * gasWanted
        BY <2>3, <3>1, Z3
      <3> QED
        BY <2>3, <3>2, DivAtMost
    <2>6. part \in Nat
      BY GasToRecordType
    <2>7. blockGas = LargerOf(part, gasUsed)
      BY <2>2 DEF GasToRecord
    <2> HIDE DEF part
    <2>8. blockGas <= GasTarget(params)
      BY <2>3, <2>4, <2>5, <2>6, <2>7 DEF LargerOf
    <2> QED
      BY <2>1, <2>3, <2>8, NextBaseFeeBounds
  <1> QED
    BY <1>1, TypeCorrect, RecordCorrect, PTL DEF FeeSpec, QuietBlockRaisesNothing

\* Gas that was wanted and not used raises the price, when the part of it that
\* counts is above the target.
THEOREM UnusedGas == FeeSpec => UnusedGasRaisesPrice
  <1>1. FeeTypeOK /\ RecordOfLastBlock /\ [FeeNext]_feeVars
          => [NewBaseFee /\ Counted
                /\ gasWanted * params.minGasMultiplier
                     > Unit * (GasTarget(params) + 1)
                => params'.baseFee > params.baseFee]_feeVars
    <2> SUFFICES ASSUME FeeTypeOK, RecordOfLastBlock, [FeeNext]_feeVars,
                        NewBaseFee, Counted,
                        gasWanted * params.minGasMultiplier
                          > Unit * (GasTarget(params) + 1)
                 PROVE  params'.baseFee > params.baseFee
      OBVIOUS
    <2>1. /\ params \in Parameters
          /\ ~Panics(params, blockGas)
          /\ params'.baseFee = NextBaseFee(params, blockGas)
      BY NewBaseFeeStep
    <2>2. blockGas = GasToRecord(gasWanted, gasUsed)
      BY DEF RecordOfLastBlock, NewBaseFee
    <2>3. blockGas \in Nat /\ gasUsed \in Nat /\ gasWanted \in Nat
      BY DEF FeeTypeOK
    <2>4. GasTarget(params) \in Nat
      BY <2>1, <2>3, TargetType
    <2> DEFINE wanted == gasWanted * params.minGasMultiplier
               part == wanted \div Unit
    <2>5. wanted \in Nat
      BY <2>1, <2>3, ParameterTypes, Z3
    <2>6. part \in Nat /\ wanted < Unit * part + Unit
      BY <2>5, DivBounds
    <2>7. blockGas = LargerOf(part, gasUsed)
      BY <2>2 DEF GasToRecord
    <2>8. wanted > Unit * (GasTarget(params) + 1)
      OBVIOUS
    <2> HIDE DEF wanted, part
    <2>9. part > GasTarget(params)
      BY <2>4, <2>5, <2>6, <2>8, Z3
    <2>10. blockGas > GasTarget(params)
      BY <2>3, <2>4, <2>6, <2>7, <2>9 DEF LargerOf
    <2> QED
      BY <2>1, <2>3, <2>10, NextBaseFeeBounds
  <1> QED
    BY <1>1, TypeCorrect, RecordCorrect, PTL DEF FeeSpec, UnusedGasRaisesPrice

\* No block takes the price below the floor, nor lowers it by more than the
\* denominator's share.
THEOREM PriceFalls == FeeSpec => PriceFallsWithinBounds
  <1>1. FeeTypeOK /\ [FeeNext]_feeVars
          => [NewBaseFee =>
                /\ params.baseFee >= Floor(params) => params'.baseFee >= Floor(params)
                /\ params'.baseFee
                     >= params.baseFee - params.baseFee \div params.denominator]_feeVars
    <2> SUFFICES ASSUME FeeTypeOK, [FeeNext]_feeVars, NewBaseFee
                 PROVE  /\ params.baseFee >= Floor(params)
                             => params'.baseFee >= Floor(params)
                        /\ params'.baseFee
                             >= params.baseFee - params.baseFee \div params.denominator
      OBVIOUS
    <2>1. blockGas \in Nat
      BY DEF FeeTypeOK
    <2> QED
      BY <2>1, NewBaseFeeStep, NextBaseFeeBounds
  <1> QED
    BY <1>1, TypeCorrect, PTL DEF FeeSpec, PriceFallsWithinBounds

HIDE FeeMarketAssumption

-----------------------------------------------------------------------------
(* The books of a transaction, message by message.                         *)

\* The fields of an Ethereum message.
LEMMA MessageTypes ==
    ASSUME NEW m \in Messages
    PROVE  /\ m.from \in Accounts /\ m.to \in Accounts
           /\ m.nonce \in Nat /\ m.gas \in Nat /\ m.cap \in Nat /\ m.tip \in Nat
           /\ m.value \in Nat
           /\ m.cap <= HighestCap
  BY EvmTxAssumption DEF Message

\* The price that a message pays is a natural number.
LEMMA PriceType ==
    ASSUME NEW fee \in Nat, NEW m \in Messages
    PROVE  EffectiveGasPrice(fee, m) \in Nat
  BY MessageTypes DEF EffectiveGasPrice, SmallerOf

\* The summands are natural numbers.
LEMMA SummandTypes ==
    ASSUME NEW fee \in Nat, NEW msgs \in Seq(Messages), NEW rs \in Seq(Receipt),
           NEW i \in DOMAIN msgs
    PROVE  /\ GasPaid(fee, msgs, rs)[i] \in Nat
           /\ ValueMoved(msgs, rs)[i] \in Nat
  <1>1. msgs[i] \in Messages
    OBVIOUS
  <1>2. msgs[i].gas \in Nat /\ msgs[i].value \in Nat
    BY <1>1, MessageTypes
  <1>3. EffectiveGasPrice(fee, msgs[i]) \in Nat
    BY <1>1, PriceType
  <1> DEFINE g == IF i \in DOMAIN rs THEN rs[i].gas ELSE msgs[i].gas
  <1>4. g \in Nat
    <2>1. i \in DOMAIN rs => rs[i] \in Receipt
      OBVIOUS
    <2> QED
      BY <1>2, <2>1 DEF Receipt
  <1>5. GasPaid(fee, msgs, rs)[i] = g * EffectiveGasPrice(fee, msgs[i])
    BY DEF GasPaid
  <1> HIDE DEF g
  <1>6. g * EffectiveGasPrice(fee, msgs[i]) \in Nat
    BY <1>3, <1>4, Z3
  <1>7. ValueMoved(msgs, rs)[i] \in Nat
    BY <1>2 DEF ValueMoved
  <1> QED
    BY <1>5, <1>6, <1>7

\* A sequence has a finite domain, which is what the lemmas on sums ask for.
LEMMA FiniteDomain ==
    ASSUME NEW S, NEW s \in Seq(S)
    PROVE  /\ IsFiniteSet(DOMAIN s)
           /\ DOMAIN s = 1 .. Len(s)
           /\ Len(s) \in Nat
  BY FS_Interval

\* The sums are numbers.
LEMMA BooksTypes ==
    ASSUME NEW fee \in Nat, NEW msgs \in Seq(Messages), NEW rs \in Seq(Receipt),
           NEW T \in SUBSET DOMAIN msgs
    PROVE  /\ SumFunctionOnSet(GasPaid(fee, msgs, rs), T) \in Nat
           /\ SumFunctionOnSet(ValueMoved(msgs, rs), T) \in Nat
  <1>1. IsFiniteSet(DOMAIN msgs)
    BY FiniteDomain
  <1>2. \A i \in T : GasPaid(fee, msgs, rs)[i] \in Nat /\ ValueMoved(msgs, rs)[i] \in Nat
    BY SummandTypes
  <1> QED
    BY <1>1, <1>2, SumType

\* Nothing is paid before the first message.
LEMMA BooksOfNothing ==
    ASSUME NEW fee, NEW before \in Stores
    PROVE  BooksAfter(fee, before, << >>, << >>, before)
  <1>1. DOMAIN << >> = {}
    OBVIOUS
  <1>2. \A f : SumFunctionOnSet(f, {}) = 0
    BY SumStep, FS_EmptySet
  <1>3. SumFunction(GasPaid(fee, << >>, << >>)) = 0
    BY <1>1, <1>2 DEF SumFunction, GasPaid
  <1>4. \A a : SentBy(<< >>, a) = {} /\ CallsTo(<< >>, a) = {}
    BY <1>1 DEF SentBy, CallsTo
  <1>5. \A a \in Accounts : before.balance[a] \in Nat
    BY DEF Stores
  <1>6. before.collector \in Nat
    BY DEF Stores
  <1> QED
    <2>1. SumFunction(GasPaid(fee, << >>, << >>)) = 0
      BY <1>3
    <2>2. before.collector = before.collector + 0
      BY <1>6
    <2>3. ASSUME NEW a \in Accounts
          PROVE  before.balance[a]
                   = BalanceAfter(fee, before.balance[a], << >>, << >>, a)
      <3>1. before.balance[a] = before.balance[a] - 0 - 0 + 0
        BY <1>5
      <3> QED
        BY <1>2, <1>4, <3>1 DEF BalanceAfter
    <2> QED
      BY <2>1, <2>2, <2>3 DEF BooksAfter

\* A message that the ante handler passes pays for its gas limit.
LEMMA BooksAppend ==
    ASSUME NEW fee \in Nat, NEW before \in Stores, NEW store \in Stores,
           NEW msgs \in Seq(Messages), NEW m \in Messages, NEW next,
           BooksAfter(fee, before, msgs, << >>, store),
           next.collector = store.collector + EffectiveGasPrice(fee, m) * m.gas,
           next.balance = [store.balance EXCEPT
                             ![m.from] = @ - EffectiveGasPrice(fee, m) * m.gas]
    PROVE  BooksAfter(fee, before, Append(msgs, m), << >>, next)
  <1> DEFINE ms == Append(msgs, m)
             n == Len(msgs) + 1
             G == GasPaid(fee, msgs, << >>)
             H == GasPaid(fee, ms, << >>)
             V == ValueMoved(msgs, << >>)
             W == ValueMoved(ms, << >>)
             price == EffectiveGasPrice(fee, m)
             paid == m.gas * price
  <1>1. /\ ms \in Seq(Messages) /\ << >> \in Seq(Receipt)
        /\ DOMAIN ms = 1 .. n /\ DOMAIN msgs = 1 .. (n - 1) /\ n \in Nat \ {0}
        /\ n \in DOMAIN ms /\ n \notin DOMAIN msgs
        /\ ms[n] = m /\ \A i \in DOMAIN msgs : ms[i] = msgs[i]
    OBVIOUS
  <1>2. IsFiniteSet(DOMAIN ms)
    BY <1>1, FiniteDomain
  <1>3. /\ \A i \in DOMAIN msgs : H[i] = G[i] /\ G[i] \in Int
        /\ H[n] = paid
        /\ \A i \in DOMAIN ms : H[i] \in Int
    <2>1. \A i \in DOMAIN ms : H[i] \in Int
      <3> HIDE DEF ms
      <3> TAKE i \in DOMAIN ms
      <3>1. H[i] \in Nat
        BY <1>1, SummandTypes
      <3> QED
        BY <3>1
    <2>2. \A i \in DOMAIN msgs : G[i] \in Int
      <3> TAKE i \in DOMAIN msgs
      <3>1. G[i] \in Nat
        BY <1>1, SummandTypes
      <3> QED
        BY <3>1
    <2>3. DOMAIN << >> = {}
      OBVIOUS
    <2> HIDE DEF ms, n
    <2>4. \A i \in DOMAIN msgs : H[i] = G[i]
      BY <1>1, <2>3 DEF GasPaid
    <2>5. H[n] = paid
      BY <1>1, <2>3 DEF GasPaid
    <2> QED
      BY <2>1, <2>2, <2>4, <2>5
  <1>4. /\ \A i \in DOMAIN msgs : W[i] = V[i] /\ V[i] \in Int
        /\ W[n] = 0
        /\ \A i \in DOMAIN ms : W[i] \in Int
    <2>1. DOMAIN << >> = {}
      OBVIOUS
    <2> HIDE DEF ms, n
    <2> QED
      BY <1>1, <2>1 DEF ValueMoved
  <1>5. price \in Nat /\ paid \in Nat /\ price * m.gas = paid
    <2>1. m.gas \in Nat /\ price \in Nat
      BY MessageTypes, PriceType
    <2> HIDE DEF price
    <2> QED
      BY <2>1, Z3
  <1> HIDE DEF ms, n, G, H, V, W
  <1>6. ASSUME NEW T \in SUBSET DOMAIN msgs, NEW U \in SUBSET DOMAIN ms,
               T \ {n} = U \ {n}
        PROVE  /\ SumFunctionOnSet(G, T) \in Int
               /\ SumFunctionOnSet(H, U)
                    = SumFunctionOnSet(G, T) + (IF n \in U THEN paid ELSE 0)
               /\ SumFunctionOnSet(V, T) \in Int
               /\ SumFunctionOnSet(W, U) = SumFunctionOnSet(V, T)
    <2>1. n \notin T /\ T \in SUBSET DOMAIN ms
      BY <1>1
    <2>2. DifferIn(n, G, T, H, U) /\ DifferIn(n, V, T, W, U)
      BY <1>3, <1>4, <1>6, <2>1 DEF DifferIn
    <2>3. /\ Share(n, G, T) = 0 /\ Share(n, H, U) = (IF n \in U THEN paid ELSE 0)
          /\ Share(n, V, T) = 0 /\ Share(n, W, U) = 0
      BY <1>3, <1>4, <2>1 DEF Share
    <2>4. /\ SumFunctionOnSet(G, T) \in Int
          /\ Share(n, H, U) \in Int
          /\ SumFunctionOnSet(H, U)
               = SumFunctionOnSet(G, T) - Share(n, G, T) + Share(n, H, U)
      BY <1>2, <1>6, <2>1, <2>2, SumChange
    <2>5. /\ SumFunctionOnSet(V, T) \in Int
          /\ SumFunctionOnSet(W, U)
               = SumFunctionOnSet(V, T) - Share(n, V, T) + Share(n, W, U)
      BY <1>2, <1>6, <2>1, <2>2, SumChange
    <2>6. SumFunctionOnSet(H, U) = SumFunctionOnSet(G, T) + Share(n, H, U)
      BY <2>3, <2>4
    <2> QED
      BY <2>3, <2>4, <2>5, <2>6
  <1>7. next.collector = before.collector + SumFunction(H)
    <2>1. DOMAIN G = DOMAIN msgs /\ DOMAIN H = DOMAIN ms
      BY DEF G, H, GasPaid
    <2>2. SumFunctionOnSet(H, DOMAIN ms) = SumFunctionOnSet(G, DOMAIN msgs) + paid
      <3>1. DOMAIN msgs \ {n} = DOMAIN ms \ {n} /\ n \in DOMAIN ms
        BY <1>1
      <3> QED
        BY <1>6, <3>1
    <2>3. store.collector = before.collector + SumFunctionOnSet(G, DOMAIN msgs)
      BY <2>1 DEF BooksAfter, SumFunction, G
    <2>4. SumFunctionOnSet(G, DOMAIN msgs) \in Int /\ before.collector \in Int
      <3>1. before.collector \in Int
        BY DEF Stores
      <3>2. DOMAIN msgs \ {n} = DOMAIN ms \ {n}
        BY <1>1
      <3> QED
        BY <1>6, <3>1, <3>2
    <2> HIDE DEF price, paid
    <2>5. next.collector = store.collector + paid
      BY <1>5 DEF price
    <2> QED
      BY <1>5, <2>1, <2>2, <2>3, <2>4, <2>5 DEF SumFunction
  <1>8. ASSUME NEW a \in Accounts
        PROVE  next.balance[a] = BalanceAfter(fee, before.balance[a], ms, << >>, a)
    <2> DEFINE T == SentBy(msgs, a)
               U == SentBy(ms, a)
               X == CallsTo(msgs, a)
               Y == CallsTo(ms, a)
    <2>1. /\ T \in SUBSET DOMAIN msgs /\ U \in SUBSET DOMAIN ms /\ T \ {n} = U \ {n}
          /\ X \in SUBSET DOMAIN msgs /\ Y \in SUBSET DOMAIN ms /\ X \ {n} = Y \ {n}
          /\ n \in U <=> m.from = a
      BY <1>1 DEF SentBy, CallsTo
    <2> HIDE DEF T, U, X, Y
    <2>2. /\ SumFunctionOnSet(G, T) \in Int /\ SumFunctionOnSet(V, T) \in Int
          /\ SumFunctionOnSet(V, X) \in Int
          /\ SumFunctionOnSet(H, U)
               = SumFunctionOnSet(G, T) + (IF m.from = a THEN paid ELSE 0)
          /\ SumFunctionOnSet(W, U) = SumFunctionOnSet(V, T)
          /\ SumFunctionOnSet(W, Y) = SumFunctionOnSet(V, X)
      BY <1>6, <2>1
    <2>3. store.balance[a] = before.balance[a] - SumFunctionOnSet(G, T)
                               - SumFunctionOnSet(V, T) + SumFunctionOnSet(V, X)
      BY DEF BooksAfter, BalanceAfter, G, V, T, X
    <2>4. store.balance \in [Accounts -> Nat] /\ before.balance[a] \in Int
      BY DEF Stores
    <2> HIDE DEF price, paid
    <2>5. next.balance[a] = store.balance[a] - (IF m.from = a THEN paid ELSE 0)
      BY <1>5, <2>4 DEF price
    <2>6. BalanceAfter(fee, before.balance[a], ms, << >>, a)
            = before.balance[a] - SumFunctionOnSet(H, U)
                - SumFunctionOnSet(W, U) + SumFunctionOnSet(W, Y)
      BY DEF BalanceAfter, H, W, U, Y
    <2> DEFINE d == IF m.from = a THEN paid ELSE 0
               b == before.balance[a]
               s == store.balance[a]
    <2>7. d \in Int /\ b \in Int
      BY <1>5, <2>4
    <2>8. SumFunctionOnSet(H, U) = SumFunctionOnSet(G, T) + d /\ next.balance[a] = s - d
      BY <2>2, <2>5
    <2>9. s = b - SumFunctionOnSet(G, T) - SumFunctionOnSet(V, T) + SumFunctionOnSet(V, X)
      BY <2>3
    <2> HIDE DEF d, s
    <2>10. next.balance[a] = b - SumFunctionOnSet(H, U)
                               - SumFunctionOnSet(V, T) + SumFunctionOnSet(V, X)
      <3> HIDE DEF b
      <3> QED
        BY <2>2, <2>7, <2>8, <2>9, SMTT(60)
    <2> QED
      BY <2>2, <2>6, <2>10
  <1> QED
    BY <1>7, <1>8 DEF BooksAfter, ms, H

\* What a message that has run pays, as an amount for an account.
Settlement(fee, m, r, a) ==
    (IF m.from = a THEN (m.gas - r.gas) * EffectiveGasPrice(fee, m)
                          - (IF r.failed THEN 0 ELSE m.value) ELSE 0)
    + (IF m.kind = "call" /\ m.to = a /\ ~r.failed THEN m.value ELSE 0)

\* A message that has run gets back what it paid for the gas it is not charged,
\* and its value moves unless it failed.
LEMMA BooksSettle ==
    ASSUME NEW fee \in Nat, NEW before \in Stores, NEW store \in Stores,
           NEW msgs \in Seq(Messages), NEW rs \in Seq(Receipt),
           Len(rs) < Len(msgs), NEW r \in Receipt,
           NEW m, m = msgs[Len(rs) + 1], NEW next,
           BooksAfter(fee, before, msgs, rs, store),
           next.collector = store.collector
                              - (m.gas - r.gas) * EffectiveGasPrice(fee, m),
           \A a \in Accounts :
             next.balance[a] = store.balance[a] + Settlement(fee, m, r, a)
    PROVE  BooksAfter(fee, before, msgs, Append(rs, r), next)
  <1> DEFINE qs == Append(rs, r)
             n == Len(rs) + 1
             D == DOMAIN msgs
             G == GasPaid(fee, msgs, rs)
             H == GasPaid(fee, msgs, qs)
             V == ValueMoved(msgs, rs)
             W == ValueMoved(msgs, qs)
             price == EffectiveGasPrice(fee, m)
             back == (m.gas - r.gas) * price
             moved == IF r.failed THEN 0 ELSE m.value
  <1>1. /\ qs \in Seq(Receipt)
        /\ DOMAIN qs = 1 .. n /\ DOMAIN rs = 1 .. (n - 1) /\ n \in Nat \ {0}
        /\ n \in D /\ n \in DOMAIN qs /\ n \notin DOMAIN rs
        /\ qs[n] = r /\ (\A i \in DOMAIN rs : qs[i] = rs[i])
        /\ \A i \in D \ {n} : i \in DOMAIN qs <=> i \in DOMAIN rs
        /\ m \in Messages /\ msgs[n] = m
    OBVIOUS
  <1>2. IsFiniteSet(D)
    BY FiniteDomain
  <1>3. \A i \in D : /\ G[i] \in Int /\ H[i] \in Int
                     /\ V[i] \in Int /\ W[i] \in Int
    <2> HIDE DEF qs, n
    <2> TAKE i \in D
    <2>1. G[i] \in Nat /\ V[i] \in Nat
      BY SummandTypes
    <2>2. H[i] \in Nat /\ W[i] \in Nat
      BY <1>1, SummandTypes
    <2> QED
      BY <2>1, <2>2, SMTT(60)
  <1>4. /\ \A i \in D \ {n} : H[i] = G[i] /\ W[i] = V[i]
        /\ G[n] = m.gas * price /\ H[n] = r.gas * price
        /\ V[n] = 0 /\ W[n] = moved
    <2> HIDE DEF qs, n
    <2>1. \A i \in D \ {n} : H[i] = G[i]
      BY <1>1 DEF GasPaid
    <2>2. \A i \in D \ {n} : W[i] = V[i]
      BY <1>1 DEF ValueMoved
    <2>3. G[n] = m.gas * price /\ H[n] = r.gas * price
      BY <1>1 DEF GasPaid
    <2>4. V[n] = 0 /\ W[n] = moved
      BY <1>1 DEF ValueMoved
    <2> QED
      BY <2>1, <2>2, <2>3, <2>4
  <1>5. /\ back \in Int /\ moved \in Int
        /\ H[n] = G[n] - back /\ G[n] \in Int /\ H[n] \in Int
    <2>1. m.gas \in Nat /\ price \in Nat /\ m.value \in Nat
      BY <1>1, MessageTypes, PriceType
    <2>2. r.gas \in Nat /\ r.failed \in BOOLEAN
      BY DEF Receipt
    <2>3. moved \in Int
      BY <2>1, <2>2
    <2> HIDE DEF price
    <2>4. back \in Int /\ r.gas * price = m.gas * price - back /\ m.gas * price \in Int
          /\ r.gas * price \in Int
      BY <2>1, <2>2, SMTT(60)
    <2> QED
      BY <1>4, <2>3, <2>4
  <1> HIDE DEF qs, n, G, H, V, W
  <1>6. ASSUME NEW T \in SUBSET D
        PROVE  /\ SumFunctionOnSet(G, T) \in Int
               /\ SumFunctionOnSet(H, T)
                    = SumFunctionOnSet(G, T) - (IF n \in T THEN back ELSE 0)
               /\ SumFunctionOnSet(V, T) \in Int
               /\ SumFunctionOnSet(W, T)
                    = SumFunctionOnSet(V, T) + (IF n \in T THEN moved ELSE 0)
    <2>1. DifferIn(n, G, T, H, T) /\ DifferIn(n, V, T, W, T)
      BY <1>3, <1>4, <1>6 DEF DifferIn
    <2>2. /\ SumFunctionOnSet(G, T) \in Int
          /\ Share(n, G, T) \in Int /\ Share(n, H, T) \in Int
          /\ SumFunctionOnSet(H, T)
               = SumFunctionOnSet(G, T) - Share(n, G, T) + Share(n, H, T)
      BY <1>2, <1>6, <2>1, SumChange
    <2>3. /\ SumFunctionOnSet(V, T) \in Int
          /\ Share(n, V, T) \in Int /\ Share(n, W, T) \in Int
          /\ SumFunctionOnSet(W, T)
               = SumFunctionOnSet(V, T) - Share(n, V, T) + Share(n, W, T)
      BY <1>2, <1>6, <2>1, SumChange
    <2>4. CASE n \in T
      <3>1. /\ Share(n, G, T) = G[n] /\ Share(n, H, T) = H[n]
            /\ Share(n, V, T) = 0 /\ Share(n, W, T) = moved
        BY <1>4, <2>4 DEF Share
      <3> HIDE DEF back, moved
      <3> QED
        BY <1>5, <2>2, <2>3, <2>4, <3>1
    <2>5. CASE n \notin T
      <3>1. /\ Share(n, G, T) = 0 /\ Share(n, H, T) = 0
            /\ Share(n, V, T) = 0 /\ Share(n, W, T) = 0
        BY <2>5 DEF Share
      <3> QED
        BY <2>2, <2>3, <2>5, <3>1
    <2> QED
      BY <2>4, <2>5
  <1>7. next.collector = before.collector + SumFunction(H)
    <2>1. DOMAIN G = D /\ DOMAIN H = D
      BY DEF G, H, GasPaid
    <2>2. store.collector = before.collector + SumFunctionOnSet(G, D)
      BY <2>1 DEF BooksAfter, SumFunction, G
    <2>3. before.collector \in Int
      BY DEF Stores
    <2>4. next.collector = store.collector - back
      OBVIOUS
    <2> HIDE DEF back, D
    <2>5. SumFunctionOnSet(G, D) \in Int
          /\ SumFunctionOnSet(H, D) = SumFunctionOnSet(G, D) - back
      BY <1>1, <1>6
    <2> QED
      BY <1>5, <2>1, <2>2, <2>3, <2>4, <2>5 DEF SumFunction
  <1>8. ASSUME NEW a \in Accounts
        PROVE  next.balance[a] = BalanceAfter(fee, before.balance[a], msgs, qs, a)
    <2> DEFINE T == SentBy(msgs, a)
               X == CallsTo(msgs, a)
               paid == IF m.from = a THEN back ELSE 0
               sent == IF m.from = a THEN moved ELSE 0
               got == IF m.kind = "call" /\ m.to = a THEN moved ELSE 0
               b == before.balance[a]
               s == store.balance[a]
    <2>1. /\ T \in SUBSET D /\ X \in SUBSET D
          /\ n \in T <=> m.from = a
          /\ n \in X <=> m.kind = "call" /\ m.to = a
      BY <1>1 DEF SentBy, CallsTo
    <2>2. next.balance[a] = s + (paid - sent) + got
      <3>1. Settlement(fee, m, r, a)
              = (IF m.from = a THEN back - moved ELSE 0)
                + (IF m.kind = "call" /\ m.to = a /\ ~r.failed THEN m.value ELSE 0)
        BY DEF Settlement
      <3>2. (IF m.kind = "call" /\ m.to = a /\ ~r.failed THEN m.value ELSE 0) = got
        OBVIOUS
      <3>3. next.balance[a] = s + Settlement(fee, m, r, a)
        OBVIOUS
      <3>4. s \in Int
        BY DEF Stores
      <3> HIDE DEF back, moved, s
      <3>5. (IF m.from = a THEN back - moved ELSE 0) = paid - sent
        BY <1>5
      <3>6. paid \in Int /\ sent \in Int /\ got \in Int
        BY <1>5
      <3> HIDE DEF paid, sent, got
      <3> QED
        BY <3>1, <3>2, <3>3, <3>4, <3>5, <3>6, SMTT(60)
    <2>3. s = b - SumFunctionOnSet(G, T) - SumFunctionOnSet(V, T) + SumFunctionOnSet(V, X)
      BY DEF BooksAfter, BalanceAfter, G, V, T, X
    <2>4. BalanceAfter(fee, b, msgs, qs, a)
            = b - SumFunctionOnSet(H, T) - SumFunctionOnSet(W, T) + SumFunctionOnSet(W, X)
      BY DEF BalanceAfter, H, W, T, X
    <2>5. b \in Int /\ s \in Int
      BY DEF Stores
    <2> HIDE DEF T, X, b, s, back, moved, D
    <2>6. /\ SumFunctionOnSet(G, T) \in Int /\ SumFunctionOnSet(V, T) \in Int
          /\ SumFunctionOnSet(V, X) \in Int
          /\ SumFunctionOnSet(H, T) = SumFunctionOnSet(G, T) - paid
          /\ SumFunctionOnSet(W, T) = SumFunctionOnSet(V, T) + sent
          /\ SumFunctionOnSet(W, X) = SumFunctionOnSet(V, X) + got
      BY <1>6, <2>1
    <2>7. paid \in Int /\ sent \in Int /\ got \in Int
      BY <1>5
    <2> HIDE DEF paid, sent, got
    <2>8. next.balance[a] = b - SumFunctionOnSet(H, T) - SumFunctionOnSet(W, T)
                              + SumFunctionOnSet(W, X)
      <3> DEFINE g == SumFunctionOnSet(G, T)
                 v == SumFunctionOnSet(V, T)
                 x == SumFunctionOnSet(V, X)
      <3>1. g \in Int /\ v \in Int /\ x \in Int
        BY <2>6
      <3>2. s = b - g - v + x
        BY <2>3
      <3>3. next.balance[a] = (b - g - v + x) + (paid - sent) + got
        BY <2>2, <3>2
      <3> HIDE DEF g, v, x
      <3>4. (b - g - v + x) + (paid - sent) + got = b - (g - paid) - (v + sent) + (x + got)
        BY <2>5, <2>7, <3>1
      <3> QED
        BY <2>6, <3>3, <3>4 DEF g, v, x
    <2> QED
      BY <2>4, <2>8 DEF b
  <1> QED
    BY <1>7, <1>8 DEF BooksAfter, qs, H

-----------------------------------------------------------------------------
(* Gas and nonces.                                                         *)

\* The gas of the receipts.
ReceiptGas(rs) == SumFunction([i \in DOMAIN rs |-> rs[i].gas])

\* One more receipt adds its gas to the total (ApplyTransaction).
LEMMA ReceiptGasAppend ==
    ASSUME NEW rs \in Seq(Receipt), NEW r \in Receipt
    PROVE  /\ ReceiptGas(rs) \in Nat
           /\ ReceiptGas(Append(rs, r)) = ReceiptGas(rs) + r.gas
  <1> DEFINE qs == Append(rs, r)
             n == Len(rs) + 1
             f == [i \in DOMAIN rs |-> rs[i].gas]
             g == [i \in DOMAIN qs |-> qs[i].gas]
             D == DOMAIN qs
             E == DOMAIN rs
  <1>1. /\ qs \in Seq(Receipt) /\ IsFiniteSet(D) /\ IsFiniteSet(E)
        /\ E \in SUBSET D /\ D \in SUBSET D /\ D \ {n} = E \ {n}
        /\ n \in D /\ n \notin E
    <2>1. qs \in Seq(Receipt)
      OBVIOUS
    <2> HIDE DEF qs
    <2>2. IsFiniteSet(D) /\ IsFiniteSet(E)
      BY <2>1, FiniteDomain
    <2>3. D = 1 .. n /\ E = 1 .. (n - 1) /\ n \in Nat \ {0}
      BY DEF qs
    <2> QED
      BY <2>1, <2>2, <2>3
  <1>2. \A i \in E : f[i] \in Nat /\ g[i] = f[i]
    <2>1. \A i \in E : rs[i] \in Receipt /\ qs[i] = rs[i]
      OBVIOUS
    <2> QED
      BY <1>1, <2>1 DEF Receipt
  <1>3. g[n] = r.gas /\ r.gas \in Nat
    <2>1. qs[n] = r
      OBVIOUS
    <2> QED
      BY <1>1, <2>1 DEF Receipt
  <1>4. DOMAIN f = E /\ DOMAIN g = D
    OBVIOUS
  <1> HIDE DEF qs, n, f, g, D, E
  <1>5. DifferIn(n, f, E, g, D)
    BY <1>1, <1>2, <1>3 DEF DifferIn
  <1>6. /\ SumFunctionOnSet(f, E) \in Int
        /\ SumFunctionOnSet(g, D) = SumFunctionOnSet(f, E) - Share(n, f, E) + Share(n, g, D)
    BY <1>1, <1>5, SumChange
  <1>7. Share(n, f, E) = 0 /\ Share(n, g, D) = r.gas
    BY <1>1, <1>3 DEF Share
  <1>8. SumFunctionOnSet(f, E) \in Nat
    BY <1>1, <1>2, SumType
  <1>9. SumFunctionOnSet(g, D) = SumFunctionOnSet(f, E) + r.gas
    BY <1>3, <1>6, <1>7
  <1> QED
    BY <1>4, <1>8, <1>9 DEF ReceiptGas, SumFunction, f, g, qs

\* No receipts have no gas.
LEMMA NoReceipts == ReceiptGas(<< >>) = 0
  <1>1. DOMAIN << >> = {}
    OBVIOUS
  <1>2. \A f : SumFunctionOnSet(f, {}) = 0
    BY SumStep, FS_EmptySet
  <1> QED
    BY <1>1, <1>2 DEF ReceiptGas, SumFunction

\* What the messages are charged is within what they declare.
LEMMA ReceiptsWithinTotal ==
    ASSUME NEW rs \in Seq(Receipt), NEW msgs \in Seq(Messages), Len(rs) <= Len(msgs),
           \A i \in DOMAIN rs : rs[i].gas <= msgs[i].gas
    PROVE  ReceiptGas(rs) <= TotalGas(msgs) /\ TotalGas(msgs) \in Nat
  <1> DEFINE f == [i \in DOMAIN rs |-> rs[i].gas]
             g == [i \in DOMAIN msgs |-> msgs[i].gas]
             D == DOMAIN msgs
             E == DOMAIN rs
  <1>1. IsFiniteSet(D) /\ E \in SUBSET D
    <2>1. IsFiniteSet(D)
      BY FiniteDomain
    <2>2. E \in SUBSET D
      OBVIOUS
    <2> QED
      BY <2>1, <2>2
  <1>2. \A i \in D : g[i] \in Nat
    <2>1. \A i \in D : msgs[i] \in Messages
      OBVIOUS
    <2> QED
      BY <2>1, MessageTypes
  <1>3. \A i \in E : f[i] \in Nat /\ f[i] <= g[i]
    <2>1. \A i \in E : rs[i] \in Receipt
      OBVIOUS
    <2> QED
      BY <1>1, <2>1 DEF Receipt
  <1>4. DOMAIN f = E /\ DOMAIN g = D
    OBVIOUS
  <1> HIDE DEF f, g, D, E
  <1>5. SumFunctionOnSet(f, E) <= SumFunctionOnSet(g, D)
    BY <1>1, <1>2, <1>3, SumSmaller
  <1>6. SumFunctionOnSet(g, D) \in Nat
    BY <1>1, <1>2, SumType
  <1> QED
    BY <1>4, <1>5, <1>6 DEF ReceiptGas, TotalGas, SumFunction, f, g

\* A charge is at least the part k of the message's gas limit, rounded down.
AboveMinimum(k, m, charged) == Unit * (charged + 1) > k * m.gas

\* A message is charged between its minimum and its limit.
LEMMA ChargedBounds ==
    ASSUME params \in Parameters, NEW m \in Messages, NEW used \in Nat, used <= m.gas
    PROVE  /\ Charged(m, used) \in Nat
           /\ Charged(m, used) <= m.gas
           /\ AboveMinimum(params.minGasMultiplier, m, Charged(m, used))
  <1> DEFINE k == params.minGasMultiplier
             g == m.gas
             q == (g * k) \div Unit
  <1>1. g \in Nat /\ k \in Nat /\ k <= Unit /\ Unit \in Nat \ {0}
    <2>1. params.minGasMultiplier \in Nat /\ params.minGasMultiplier <= Unit
      BY FeeMarketAssumption DEF Parameters, FeeMarketParams, Validate
    <2> QED
      BY <2>1, MessageTypes, FeeMarketAssumption
  <1>2. Charged(m, used) = LargerOf(q, used)
    BY DEF Charged
  <1> HIDE DEF k, g
  <1>3. g * k \in Nat /\ g * k <= Unit * g /\ g * k = k * g
    BY <1>1, Z3
  <1>4. q \in Nat /\ g * k < Unit * q + Unit
    BY <1>1, <1>3, DivBounds
  <1>5. q <= g
    BY <1>1, <1>3, DivAtMost
  <1> HIDE DEF q
  <1> DEFINE c == Charged(m, used)
  <1>6. c \in Nat /\ c <= g /\ q <= c
    BY <1>1, <1>2, <1>4, <1>5 DEF LargerOf, g
  <1> HIDE DEF c
  <1>7. Unit * (c + 1) >= Unit * q + Unit
    BY <1>1, <1>4, <1>6, Z3
  <1>8. Unit * (c + 1) > k * g
    BY <1>1, <1>3, <1>4, <1>6, <1>7, Z3
  <1> QED
    BY <1>6, <1>8 DEF c, g, k, AboveMinimum

\* The messages of an account.
Sent(msgs, a) == Cardinality(SentBy(msgs, a))

\* The messages of a sender are counted, and none are where there is none.
LEMMA SentType ==
    ASSUME NEW msgs \in Seq(Messages), NEW a
    PROVE  /\ Sent(msgs, a) \in Nat
           /\ SentBy(msgs, a) = {} <=> Sent(msgs, a) = 0
  <1>1. SentBy(msgs, a) \subseteq DOMAIN msgs
    BY DEF SentBy
  <1>2. IsFiniteSet(SentBy(msgs, a))
    BY <1>1, FiniteDomain, FS_Subset
  <1> QED
    BY <1>2, FS_CardinalityType, FS_EmptySet DEF Sent

\* One more message counts for its sender alone.
LEMMA SentAppend ==
    ASSUME NEW msgs \in Seq(Messages), NEW m \in Messages, NEW a
    PROVE  /\ Sent(msgs, a) \in Nat
           /\ SentBy(msgs, a) = {} <=> Sent(msgs, a) = 0
           /\ Sent(Append(msgs, m), a) = Sent(msgs, a) + (IF a = m.from THEN 1 ELSE 0)
  <1> DEFINE n == Len(msgs) + 1
             T == SentBy(msgs, a)
             U == SentBy(Append(msgs, m), a)
  <1>1. IsFiniteSet(T)
    <2>1. T \subseteq DOMAIN msgs
      BY DEF SentBy
    <2> QED
      BY <2>1, FiniteDomain, FS_Subset
  <1>2. n \notin T /\ U = (IF a = m.from THEN T \cup {n} ELSE T)
    <2> DEFINE ms == Append(msgs, m)
    <2>1. /\ DOMAIN ms = DOMAIN msgs \cup {n} /\ n \notin DOMAIN msgs
          /\ ms[n] = m /\ \A i \in DOMAIN msgs : ms[i] = msgs[i]
      OBVIOUS
    <2> HIDE DEF ms, n
    <2>3. \A i : i # n => (i \in T <=> i \in U)
      BY <2>1 DEF SentBy, ms
    <2>4. n \notin T
      BY <2>1 DEF SentBy
    <2>5. n \in U <=> a = m.from
      BY <2>1 DEF SentBy, ms
    <2> HIDE DEF T, U
    <2>6. CASE a = m.from
      <3>1. U = T \cup {n}
        <4>1. \A i : i \in U <=> i \in T \cup {n}
          BY <2>3, <2>5, <2>6
        <4> QED
          BY <4>1
      <3> QED
        BY <2>4, <2>6, <3>1
    <2>7. CASE a # m.from
      <3>1. U = T
        <4>1. \A i : i \in U <=> i \in T
          BY <2>3, <2>4, <2>5, <2>7
        <4> QED
          BY <4>1
      <3> QED
        BY <2>4, <2>7, <3>1
    <2> QED
      BY <2>6, <2>7
  <1> HIDE DEF n, T, U
  <1>3. Cardinality(T) \in Nat /\ (T = {} <=> Cardinality(T) = 0)
    BY <1>1, FS_CardinalityType, FS_EmptySet
  <1>4. Cardinality(T \cup {n}) = Cardinality(T) + 1
    BY <1>1, <1>2, FS_AddElement
  <1> QED
    BY <1>2, <1>3, <1>4 DEF Sent, T, U

\* No messages have no sender.
LEMMA NothingSent == \A a : Sent(<< >>, a) = 0
  <1>1. \A a : SentBy(<< >>, a) = {}
    BY DEF SentBy
  <1> QED
    BY <1>1, FS_EmptySet DEF Sent

-----------------------------------------------------------------------------
(* What holds of a transaction of Ethereum messages t, while the stores    *)
(* outside its cache are store, the base fee is fee, and enabled or not.   *)

\* Each message can pay the base fee, and its nonce is one of its sender's.
MessagesFit(fee, t) ==
    \A i \in DOMAIN t.msgs :
        LET m == t.msgs[i] IN
        /\ fee <= m.cap
        /\ m.nonce >= t.before.nonce[m.from]
        /\ m.nonce < t.before.nonce[m.from] + Sent(t.msgs, m.from)

\* The nonces of a store count the messages.
NoncesCount(t, store) ==
    \A a \in Accounts : store.nonce[a] = t.before.nonce[a] + Sent(t.msgs, a)

\* The nonces of a store are used but not beyond the messages.
NoncesWithin(t, store) ==
    \A a \in Accounts :
        IF SentBy(t.msgs, a) = {} THEN store.nonce[a] = t.before.nonce[a]
        ELSE /\ store.nonce[a] > t.before.nonce[a]
             /\ store.nonce[a] <= t.before.nonce[a] + Sent(t.msgs, a)

\* In the ante handler only the cache has changed.
AnteOK(fee, enabled, t, store) ==
    /\ t.before = store
    /\ t.cache.txGasUsed = 0
    /\ t.receipts = << >>
    /\ t.meter = 0
    /\ Len(t.msgs) <= t.count
    /\ ~enabled => t.cache.gasWanted = store.gasWanted
    /\ MessagesFit(fee, t)
    /\ BooksAfter(fee, t.before, t.msgs, << >>, t.cache)
    /\ NoncesCount(t, t.cache)

ReceiptsFit(multiplier, t) ==
    \A i \in DOMAIN t.receipts :
        /\ t.receipts[i].gas <= t.msgs[i].gas
        /\ AboveMinimum(multiplier, t.msgs[i], t.receipts[i].gas)

\* While the messages run, the store has what the ante handler did and the
\* cache also what the receipts say.
RunOK(fee, multiplier, t, store) ==
    /\ Len(t.msgs) = t.count
    /\ Len(t.receipts) <= t.count
    /\ t.gas = TotalGas(t.msgs)
    /\ t.gas <= BlockGasLimit
    /\ t.cache.gasWanted = store.gasWanted
    /\ t.meter = ReceiptGas(t.receipts)
    /\ t.cache.txGasUsed = t.meter
    /\ MessagesFit(fee, t)
    /\ BooksAfter(fee, t.before, t.msgs, << >>, store)
    /\ BooksAfter(fee, t.before, t.msgs, t.receipts, t.cache)
    /\ NoncesCount(t, store)
    /\ NoncesWithin(t, t.cache)
    /\ ReceiptsFit(multiplier, t)

\* The types of the parts of a transaction and of a store.
LEMMA TxParts ==
    ASSUME NEW t \in EthereumTxType
    PROVE  /\ t.count \in Nat \ {0} /\ t.gas \in Nat /\ t.meter \in Nat
           /\ t.msgs \in Seq(Messages) /\ t.receipts \in Seq(Receipt)
           /\ t.cache \in Stores /\ t.before \in Stores
           /\ t.stage \in {"ante", "run"}
  BY EvmTxAssumption DEF EthereumTxType

\* The fields of a store.
LEMMA StoreParts ==
    ASSUME NEW c \in Stores
    PROVE  /\ c.balance \in [Accounts -> Nat] /\ c.nonce \in [Accounts -> Nat]
           /\ c.collector \in Nat /\ c.txGasUsed \in Nat
           /\ c.gasWanted \in 0 .. MaxUint64
  BY DEF Stores

\* A round of the ante handler's loop.
AfterMessage(t, m) == [t EXCEPT !.msgs = Append(@, m), !.cache = Deducted(@, m, t.gas)]

\* What a round of the ante handler's loop makes of the transaction.
LEMMA AfterMessageParts ==
    ASSUME NEW t \in EthereumTxType, NEW m \in Messages, NEW u, u = AfterMessage(t, m)
    PROVE  /\ u.msgs = Append(t.msgs, m)
           /\ u.cache = Deducted(t.cache, m, t.gas)
           /\ u.stage = t.stage /\ u.count = t.count /\ u.gas = t.gas
           /\ u.before = t.before /\ u.receipts = t.receipts /\ u.meter = t.meter
           /\ Append(t.msgs, m) \in Seq(Messages) /\ u.cache \in Stores
                => u \in EthereumTxType
  BY DEF AfterMessage, EthereumTxType

\* Each field of a store has its type.
FieldsTyped(c) ==
    /\ c.balance \in [Accounts -> Nat] /\ c.nonce \in [Accounts -> Nat]
    /\ c.collector \in Nat /\ c.txGasUsed \in Nat
    /\ c.gasWanted \in 0 .. MaxUint64

\* What the ante handler's loop writes, field by field.
LEMMA DeductedParts ==
    ASSUME NEW c \in Stores, NEW m \in Messages, NEW gas, NEW d, d = Deducted(c, m, gas)
    PROVE  /\ d.balance = [c.balance EXCEPT ![m.from] = @ - Price(m) * m.gas]
           /\ d.collector = c.collector + Price(m) * m.gas
           /\ d.nonce = [c.nonce EXCEPT ![m.from] = @ + 1]
           /\ d.txGasUsed = c.txGasUsed
           /\ d.gasWanted = CountedGas(c.gasWanted, gas)
           /\ FieldsTyped(d) => d \in Stores
  <1> DEFINE cost == Price(m) * m.gas
  <1> HIDE DEF cost
  <1>1. d = [c EXCEPT !.balance[m.from] = @ - cost, !.collector = @ + cost,
                      !.nonce[m.from] = @ + 1, !.gasWanted = CountedGas(@, gas)]
    BY DEF Deducted, cost
  <1>2. /\ d.balance = [c.balance EXCEPT ![m.from] = @ - cost]
        /\ d.collector = c.collector + cost
        /\ d.nonce = [c.nonce EXCEPT ![m.from] = @ + 1]
        /\ d.txGasUsed = c.txGasUsed
        /\ d.gasWanted = CountedGas(c.gasWanted, gas)
    BY <1>1 DEF Stores
  <1>3. d = [balance |-> d.balance, nonce |-> d.nonce, collector |-> d.collector,
             txGasUsed |-> d.txGasUsed, gasWanted |-> d.gasWanted]
    <2> DEFINE b == [c.balance EXCEPT ![m.from] = @ - cost]
               k == c.collector + cost
               n == [c.nonce EXCEPT ![m.from] = @ + 1]
               g == CountedGas(c.gasWanted, gas)
    <2>1. d = [[[[c EXCEPT !.balance = b] EXCEPT !.collector = k]
                   EXCEPT !.nonce = n] EXCEPT !.gasWanted = g]
      BY <1>1 DEF Stores
    <2> HIDE DEF b, k, n, g
    <2> QED
      BY <2>1 DEF Stores
  <1>4. FieldsTyped(d) => d \in Stores
    BY <1>3 DEF Stores, FieldsTyped
  <1> QED
    BY <1>2, <1>4 DEF cost

\* The gas of the whole transaction is counted.
LEMMA DeductedCount ==
    ASSUME NEW c \in Stores, NEW m \in Messages, NEW gas
    PROVE  Deducted(c, m, gas).gasWanted = CountedGas(c.gasWanted, gas)
  <1> DEFINE cost == Price(m) * m.gas
             wanted == CountedGas(c.gasWanted, gas)
  <1>1. Deducted(c, m, gas)
          = [c EXCEPT !.balance[m.from] = @ - cost, !.collector = @ + cost,
                      !.nonce[m.from] = @ + 1, !.gasWanted = wanted]
    BY DEF Deducted, Stores
  <1> HIDE DEF cost, wanted
  <1>2. Deducted(c, m, gas).gasWanted = wanted
    BY <1>1 DEF Stores
  <1> QED
    BY <1>2 DEF wanted

\* The counter stays a uint64, and is left alone without a base fee.
LEMMA CountedGasType ==
    ASSUME NEW wanted \in 0 .. MaxUint64, NEW gas \in Nat
    PROVE  /\ CountedGas(wanted, gas) \in 0 .. MaxUint64
           /\ ~IsBaseFeeEnabled(params, height) => CountedGas(wanted, gas) = wanted
  <1>1. wanted + gas \in Nat /\ Word \in Nat \ {0} /\ MaxUint64 = Word - 1
    BY FeeMarketAssumption DEF MaxUint64
  <1>2. (wanted + gas) % Word \in 0 .. MaxUint64
    BY <1>1, Z3
  <1> QED
    BY <1>2 DEF CountedGas

\* The price of gas below a cap costs at most what the cap does.
LEMMA CostAtMost ==
    ASSUME NEW p \in Nat, NEW c \in Nat, NEW g \in Nat, p <= c
    PROVE  p * g \in Nat /\ c * g \in Nat /\ p * g <= c * g
  BY Z3

\* The base fee that the messages are charged is a natural number.
LEMMA BaseFeeType ==
    ASSUME params \in Parameters
    PROVE  EvmBaseFee \in Nat
  BY ParameterTypes DEF EvmBaseFee

\* What the loop asks of the next message, as far as the books need it.
Passes(fee, t, m) ==
    /\ Len(t.msgs) < t.count
    /\ CanPay(t.cache, m)
    /\ fee <= m.cap
    /\ m.nonce = t.cache.nonce[m.from]

\* A nonce that fits a sender's messages fits them when there are more.
Between(n, first, count) == n >= first /\ n < first + count

\* How the bounds of a nonce move: with a message of the sender, and with a
\* deployment that sets it one above the message's own.
LEMMA BetweenMore ==
    ASSUME NEW n \in Nat, NEW first \in Nat, NEW count \in Nat, NEW more \in {0, 1}
    PROVE  /\ Between(n, first, count) => Between(n, first, count + more)
           /\ n = first + count => Between(n, first, count + 1)
  BY DEF Between

\* The one place of a function that changes.
LEMMA OneMore ==
    ASSUME NEW f \in [Accounts -> Nat], NEW a \in Accounts, NEW g,
           g = [f EXCEPT ![a] = @ + 1]
    PROVE  /\ g \in [Accounts -> Nat]
           /\ \A b \in Accounts : g[b] = f[b] + (IF b = a THEN 1 ELSE 0)
  OBVIOUS

\* A round of the loop keeps the books: what it deducts is the limit of the
\* message, which is what an unsettled message pays.
LEMMA AnteMessageKeeps ==
    ASSUME params \in Parameters, NEW enabled, enabled = IsBaseFeeEnabled(params, height),
           NEW fee, fee = EvmBaseFee, NEW t \in EthereumTxType,
           NEW store \in Stores, AnteOK(fee, enabled, t, store),
           NEW m \in Messages, Passes(fee, t, m),
           NEW u, u = AfterMessage(t, m)
    PROVE  u \in EthereumTxType /\ AnteOK(fee, enabled, u, store)
  <1> DEFINE price == Price(m)
             cost == price * m.gas
  <1>1. /\ t.msgs \in Seq(Messages) /\ t.cache \in Stores /\ t.before \in Stores
        /\ t.count \in Nat /\ t.gas \in Nat
    BY TxParts
  <1>2. /\ m.from \in Accounts /\ m.gas \in Nat /\ m.cap \in Nat /\ m.value \in Nat
        /\ m.nonce \in Nat /\ m.tip \in Nat
    BY MessageTypes
  <1>3. price \in Nat /\ price <= m.cap
    <2>1. fee \in Nat
      BY BaseFeeType
    <2> QED
      BY <1>2, <2>1 DEF Price, EffectiveGasPrice, SmallerOf
  <1>4. cost \in Nat /\ cost <= m.cap * m.gas /\ m.cap * m.gas \in Nat
    <2> HIDE DEF price
    <2>1. price * m.gas \in Nat /\ m.cap * m.gas \in Nat /\ price * m.gas <= m.cap * m.gas
      BY <1>2, <1>3, CostAtMost
    <2> QED
      BY <2>1
  <1>5. /\ u.msgs = Append(t.msgs, m) /\ u.cache = Deducted(t.cache, m, t.gas)
        /\ u.stage = t.stage /\ u.count = t.count /\ u.gas = t.gas
        /\ u.before = t.before /\ u.receipts = t.receipts /\ u.meter = t.meter
    BY AfterMessageParts
  <1>5a. /\ u.cache.balance = [t.cache.balance EXCEPT ![m.from] = @ - cost]
         /\ u.cache.collector = t.cache.collector + cost
         /\ u.cache.nonce = [t.cache.nonce EXCEPT ![m.from] = @ + 1]
         /\ u.cache.txGasUsed = t.cache.txGasUsed
         /\ u.cache.gasWanted = CountedGas(t.cache.gasWanted, t.gas)
    <2> DEFINE d == u.cache
               c == t.cache
    <2>1. c \in Stores /\ d = Deducted(c, m, t.gas)
      BY <1>1, <1>5
    <2> HIDE DEF c, d
    <2>2. /\ d.balance = [c.balance EXCEPT ![m.from] = @ - cost]
          /\ d.collector = c.collector + cost
          /\ d.nonce = [c.nonce EXCEPT ![m.from] = @ + 1]
          /\ d.txGasUsed = c.txGasUsed
          /\ d.gasWanted = CountedGas(c.gasWanted, t.gas)
      BY <2>1, DeductedParts
    <2> QED
      BY <2>2 DEF c, d
  <1> HIDE DEF cost, price
  <1>6. t.cache.balance \in [Accounts -> Nat] /\ t.cache.nonce \in [Accounts -> Nat]
        /\ t.cache.collector \in Nat /\ t.cache.txGasUsed \in Nat
    BY <1>1, StoreParts
  <1>7. u.cache \in Stores
    <2>1. t.cache.balance[m.from] - cost \in Nat
      <3>1. t.cache.balance[m.from] >= m.cap * m.gas + m.value
        BY DEF Passes, CanPay
      <3>2. t.cache.balance[m.from] \in Nat
        BY <1>2, <1>6
      <3> QED
        BY <1>2, <1>4, <3>1, <3>2
    <2>2. u.cache.balance \in [Accounts -> Nat]
      BY <1>2, <1>5a, <1>6, <2>1
    <2>3. u.cache.nonce \in [Accounts -> Nat]
      BY <1>2, <1>5a, <1>6, OneMore
    <2>4. u.cache.collector \in Nat
      BY <1>4, <1>5a, <1>6
    <2>5. u.cache.gasWanted \in 0 .. MaxUint64
      BY <1>1, <1>5a, StoreParts, CountedGasType
    <2>6. u.cache.txGasUsed \in Nat
      BY <1>5a, <1>6
    <2>7. FieldsTyped(u.cache)
      BY <2>2, <2>3, <2>4, <2>5, <2>6 DEF FieldsTyped
    <2> DEFINE d == u.cache
               c == t.cache
    <2>8. c \in Stores /\ d = Deducted(c, m, t.gas) /\ FieldsTyped(d)
      BY <1>1, <1>5, <2>7
    <2> HIDE DEF c, d
    <2>9. d \in Stores
      BY <2>8, DeductedParts
    <2> QED
      BY <2>9 DEF d
  <1>8. u.msgs \in Seq(Messages) /\ Len(u.msgs) = Len(t.msgs) + 1
    BY <1>1, <1>5
  <1>9. u \in EthereumTxType
    BY <1>1, <1>5, <1>7, <1>8, AfterMessageParts
  <1>10. BooksAfter(fee, u.before, u.msgs, << >>, u.cache)
    <2>1. BooksAfter(fee, t.before, t.msgs, << >>, t.cache)
      BY DEF AnteOK
    <2>2. /\ u.cache.collector = t.cache.collector + EffectiveGasPrice(fee, m) * m.gas
          /\ u.cache.balance = [t.cache.balance EXCEPT
                                  ![m.from] = @ - EffectiveGasPrice(fee, m) * m.gas]
      BY <1>5a DEF cost, price, Price
    <2>b. fee \in Nat
      BY BaseFeeType
    <2>3. BooksAfter(fee, t.before, Append(t.msgs, m), << >>, u.cache)
      BY <1>1, <2>1, <2>2, <2>b, BooksAppend
    <2> QED
      BY <1>5, <2>3
  <1>11. \A a : /\ Sent(t.msgs, a) \in Nat
                /\ Sent(u.msgs, a) = Sent(t.msgs, a) + (IF a = m.from THEN 1 ELSE 0)
    BY <1>1, <1>5, SentAppend
  <1>12. NoncesCount(u, u.cache)
    <2> SUFFICES ASSUME NEW a \in Accounts
                 PROVE  u.cache.nonce[a] = u.before.nonce[a] + Sent(u.msgs, a)
      BY DEF NoncesCount
    <2>1. t.cache.nonce[a] = t.before.nonce[a] + Sent(t.msgs, a)
      BY DEF AnteOK, NoncesCount
    <2>2. t.before.nonce[a] \in Nat
      BY <1>1, StoreParts
    <2>3. u.cache.nonce[a] = t.cache.nonce[a] + (IF a = m.from THEN 1 ELSE 0)
      BY <1>2, <1>5a, <1>6, OneMore
    <2> DEFINE k == t.before.nonce[a]
               s == Sent(t.msgs, a)
               d == IF a = m.from THEN 1 ELSE 0
    <2>4. k \in Nat /\ s \in Nat /\ d \in Nat
      BY <1>11, <2>2
    <2>5. Sent(u.msgs, a) = s + d /\ u.before.nonce[a] = k
      BY <1>5, <1>11
    <2>6. u.cache.nonce[a] = (k + s) + d
      BY <2>1, <2>3
    <2> HIDE DEF k, s, d
    <2> QED
      BY <2>4, <2>5, <2>6
  <1>13. MessagesFit(fee, u)
    <2> SUFFICES ASSUME NEW i \in DOMAIN u.msgs, NEW x, x = u.msgs[i]
                 PROVE  /\ fee <= x.cap
                        /\ Between(x.nonce, u.before.nonce[x.from], Sent(u.msgs, x.from))
      BY DEF MessagesFit, Between
    <2>1. CASE i \in DOMAIN t.msgs
      <3>1. x = t.msgs[i] /\ x \in Messages
        BY <1>1, <1>5, <2>1
      <3>2. fee <= x.cap /\ Between(x.nonce, t.before.nonce[x.from], Sent(t.msgs, x.from))
        BY <2>1, <3>1 DEF AnteOK, MessagesFit, Between
      <3> DEFINE n == x.nonce
                 k == t.before.nonce[x.from]
                 s == Sent(t.msgs, x.from)
                 d == IF x.from = m.from THEN 1 ELSE 0
      <3>3. n \in Nat /\ k \in Nat /\ s \in Nat /\ d \in {0, 1}
        BY <1>1, <1>11, <3>1, MessageTypes, StoreParts
      <3>4. Sent(u.msgs, x.from) = s + d /\ u.before.nonce[x.from] = k
        BY <1>5, <1>11
      <3> HIDE DEF n, k, s, d
      <3>5. Between(n, k, s + d)
        BY <3>2, <3>3, BetweenMore, SMTT(60) DEF n, k, s
      <3> QED
        BY <3>2, <3>4, <3>5 DEF n
    <2>2. CASE i \notin DOMAIN t.msgs
      <3>1. x = m
        BY <1>1, <1>5, <2>2
      <3> DEFINE n == m.nonce
                 k == t.before.nonce[m.from]
                 s == Sent(t.msgs, m.from)
      <3>2. n = k + s
        <4>1. t.cache.nonce[m.from] = k + s
          BY <1>2 DEF AnteOK, NoncesCount
        <4>2. n = t.cache.nonce[m.from]
          BY DEF Passes
        <4> QED
          BY <4>1, <4>2
      <3>3. n \in Nat /\ k \in Nat /\ s \in Nat
        BY <1>1, <1>2, <1>11, StoreParts
      <3>4. Sent(u.msgs, m.from) = s + 1 /\ u.before.nonce[m.from] = k
        BY <1>5, <1>11
      <3> HIDE DEF n, k, s
      <3>5. Between(n, k, s + 1)
        BY <3>2, <3>3, BetweenMore
      <3>6. fee <= m.cap
        BY DEF Passes
      <3> QED
        BY <3>1, <3>4, <3>5, <3>6 DEF n
    <2> QED
      BY <2>1, <2>2
  <1>14. AnteOK(fee, enabled, u, store)
    <2>1. /\ t.before = store /\ t.cache.txGasUsed = 0 /\ t.receipts = << >>
          /\ t.meter = 0 /\ (~enabled => t.cache.gasWanted = store.gasWanted)
      BY DEF AnteOK
    <2>2. Len(u.msgs) <= u.count
      BY <1>1, <1>5, <1>8 DEF Passes
    <2>3. /\ u.cache.txGasUsed = t.cache.txGasUsed
          /\ ~enabled => u.cache.gasWanted = t.cache.gasWanted
      BY <1>1, <1>5a, StoreParts, CountedGasType
    <2> QED
      BY <1>5, <1>10, <1>12, <1>13, <2>1, <2>2, <2>3 DEF AnteOK
  <1> QED
    BY <1>9, <1>14
-----------------------------------------------------------------------------
(* A message that runs.                                                    *)

\* The value of a message moves: from its sender, and to whom it calls.
Outgoing(m, a) == IF m.from = a THEN m.value ELSE 0
Incoming(m, a) == IF m.kind = "call" /\ m.to = a THEN m.value ELSE 0

\* What a message does to a store, field by field.
LEMMA ExecutedParts ==
    ASSUME NEW c \in Stores, NEW m \in Messages, c.balance[m.from] >= m.value,
           NEW e, e = Executed(c, m)
    PROVE  /\ e \in Stores
           /\ e.collector = c.collector /\ e.txGasUsed = c.txGasUsed
           /\ e.gasWanted = c.gasWanted
           /\ \A a \in Accounts :
                e.balance[a] = c.balance[a] - Outgoing(m, a) + Incoming(m, a)
           /\ \A a \in Accounts :
                e.nonce[a] = IF m.kind # "call" /\ m.from = a THEN m.nonce + 1
                             ELSE c.nonce[a]
  <1> DEFINE b == [c.balance EXCEPT ![m.from] = @ - m.value]
             p == [c EXCEPT !.balance = b]
             b2 == [b EXCEPT ![m.to] = @ + m.value]
             n2 == [c.nonce EXCEPT ![m.from] = m.nonce + 1]
  <1>1. /\ m.from \in Accounts /\ m.to \in Accounts
        /\ m.nonce \in Nat /\ m.value \in Nat
    BY MessageTypes
  <1>2. c.balance \in [Accounts -> Nat] /\ c.nonce \in [Accounts -> Nat]
    BY StoreParts
  <1>3. b \in [Accounts -> Nat]
        /\ \A a \in Accounts : b[a] = c.balance[a] - Outgoing(m, a)
    <2>1. c.balance[m.from] - m.value \in Nat
      BY <1>1, <1>2
    <2>2. b \in [Accounts -> Nat]
      BY <1>1, <1>2, <2>1
    <2>3. \A a \in Accounts : c.balance[a] \in Nat
      BY <1>2
    <2>4. \A a \in Accounts : b[a] = c.balance[a] - Outgoing(m, a)
      BY <1>1, <1>2, <2>3 DEF Outgoing
    <2> QED
      BY <2>2, <2>4
  <1>4. b2 \in [Accounts -> Nat]
        /\ \A a \in Accounts : b2[a] = b[a] + (IF m.to = a THEN m.value ELSE 0)
    <2> HIDE DEF b
    <2>1. b[m.to] + m.value \in Nat
      BY <1>1, <1>3
    <2>2. b2 \in [Accounts -> Nat]
      BY <1>1, <1>3, <2>1
    <2>3. \A a \in Accounts : b[a] \in Nat
      BY <1>3
    <2>4. \A a \in Accounts : b2[a] = b[a] + (IF m.to = a THEN m.value ELSE 0)
      BY <1>1, <1>3, <2>3
    <2> QED
      BY <2>2, <2>4
  <1>5. n2 \in [Accounts -> Nat]
        /\ \A a \in Accounts : n2[a] = IF m.from = a THEN m.nonce + 1 ELSE c.nonce[a]
    BY <1>1, <1>2
  <1>6. e = IF m.kind = "call" THEN [p EXCEPT !.balance = b2]
            ELSE [p EXCEPT !.nonce = n2]
    BY DEF Executed, Stores
  <1> HIDE DEF b, b2, n2
  <1>7. CASE m.kind = "call"
    <2>1. /\ e \in Stores /\ e.balance = b2 /\ e.nonce = c.nonce
          /\ e.collector = c.collector /\ e.txGasUsed = c.txGasUsed
          /\ e.gasWanted = c.gasWanted
      BY <1>3, <1>4, <1>6, <1>7 DEF Stores
    <2>2. \A a \in Accounts :
             e.balance[a] = c.balance[a] - Outgoing(m, a) + Incoming(m, a)
      BY <1>3, <1>4, <1>7, <2>1 DEF Incoming
    <2> QED
      BY <1>7, <2>1, <2>2
  <1>8. CASE m.kind # "call"
    <2>1. /\ e \in Stores /\ e.balance = b /\ e.nonce = n2
          /\ e.collector = c.collector /\ e.txGasUsed = c.txGasUsed
          /\ e.gasWanted = c.gasWanted
      BY <1>3, <1>5, <1>6, <1>8 DEF Stores
    <2>2. \A a \in Accounts :
             e.balance[a] = c.balance[a] - Outgoing(m, a) + Incoming(m, a)
      <3> TAKE a \in Accounts
      <3>1. Incoming(m, a) = 0
        BY <1>8 DEF Incoming
      <3>2. b[a] \in Nat /\ b[a] = c.balance[a] - Outgoing(m, a)
        BY <1>3
      <3> QED
        BY <2>1, <3>1, <3>2
    <2> QED
      BY <1>5, <1>8, <2>1, <2>2
  <1> QED
    BY <1>7, <1>8

\* What a message gets back for the gas that it is not charged.
Back(m, charged) == (m.gas - charged) * Price(m)

\* What RefundGas writes, when the collector has it: only coins move.
LEMMA RefundedParts ==
    ASSUME params \in Parameters, NEW c \in Stores, NEW m \in Messages,
           NEW charged \in Nat, charged <= m.gas,
           NEW d, d = Refunded(c, m, charged), d.collector >= 0
    PROVE  /\ d \in Stores
           /\ Back(m, charged) \in Nat
           /\ d.collector = c.collector - Back(m, charged)
           /\ d.nonce = c.nonce /\ d.txGasUsed = c.txGasUsed
           /\ d.gasWanted = c.gasWanted
           /\ \A a \in Accounts :
                d.balance[a] = c.balance[a] + (IF m.from = a THEN Back(m, charged) ELSE 0)
  <1> DEFINE back == Back(m, charged)
             b == [c.balance EXCEPT ![m.from] = @ + back]
             k == c.collector - back
  <1>1. m.from \in Accounts /\ m.gas \in Nat
    BY MessageTypes
  <1>2. c.balance \in [Accounts -> Nat] /\ c.collector \in Nat
    BY StoreParts
  <1>3. back \in Nat
    <2>1. EvmBaseFee \in Nat
      BY BaseFeeType
    <2>2. Price(m) \in Nat
      BY <2>1, PriceType DEF Price
    <2>3. m.gas - charged \in Nat
      BY <1>1
    <2> QED
      BY <2>2, <2>3, CostAtMost DEF Back
  <1>4. d = [[c EXCEPT !.balance = b] EXCEPT !.collector = k]
    BY DEF Refunded, Stores, Back
  <1> HIDE DEF back
  <1>5. b \in [Accounts -> Nat]
        /\ \A a \in Accounts : b[a] = c.balance[a] + (IF m.from = a THEN back ELSE 0)
    BY <1>1, <1>2, <1>3
  <1>6. k \in Int
    BY <1>2, <1>3
  <1>7. d.collector = k
    BY <1>4 DEF Stores
  <1>8. k \in Nat
    <2> HIDE DEF k
    <2> QED
      BY <1>6, <1>7
  <1> HIDE DEF b, k
  <1>9. /\ d \in Stores /\ d.balance = b /\ d.nonce = c.nonce
        /\ d.txGasUsed = c.txGasUsed /\ d.gasWanted = c.gasWanted
    BY <1>4, <1>5, <1>8 DEF Stores
  <1> QED
    BY <1>3, <1>5, <1>7, <1>9 DEF back, k

\* The store and the transaction after a message.
Settled(c, m, charged, failed) ==
    Refunded(IF failed THEN c ELSE Executed(c, m), m, charged)

AfterRun(t, m, charged, failed) ==
    [t EXCEPT !.cache = [Settled(t.cache, m, charged, failed)
                           EXCEPT !.txGasUsed = @ + charged],
              !.meter = t.cache.txGasUsed + charged,
              !.receipts = Append(@, [gas |-> charged, failed |-> failed])]

\* The transaction u is t with the store d and the receipt r of a message.
Advances(t, u, r, d) ==
    /\ u.msgs = t.msgs /\ u.stage = t.stage /\ u.count = t.count
    /\ u.gas = t.gas /\ u.before = t.before
    /\ u.meter = t.cache.txGasUsed + r.gas
    /\ u.receipts = Append(t.receipts, r)
    /\ u.cache.balance = d.balance /\ u.cache.nonce = d.nonce
    /\ u.cache.collector = d.collector /\ u.cache.gasWanted = d.gasWanted
    /\ u.cache.txGasUsed = d.txGasUsed + r.gas

\* What ApplyTransaction makes of the transaction, whatever it settled.
LEMMA AfterRunParts ==
    ASSUME NEW t \in EthereumTxType, NEW m, NEW charged \in Nat, NEW failed \in BOOLEAN,
           NEW r, r = [gas |-> charged, failed |-> failed],
           NEW d, d = Settled(t.cache, m, charged, failed), d \in Stores,
           NEW u, u = AfterRun(t, m, charged, failed)
    PROVE  u \in EthereumTxType /\ Advances(t, u, r, d)
  <1> DEFINE k == [d EXCEPT !.txGasUsed = @ + charged]
             e == t.cache.txGasUsed + charged
             q == Append(t.receipts, r)
  <1>1. u = [t EXCEPT !.cache = k, !.meter = e, !.receipts = q]
    BY DEF AfterRun, EthereumTxType
  <1>2. /\ k.balance = d.balance /\ k.nonce = d.nonce
        /\ k.collector = d.collector /\ k.gasWanted = d.gasWanted
        /\ k.txGasUsed = d.txGasUsed + charged
        /\ k \in Stores
    BY DEF Stores
  <1>3. e \in Nat /\ q \in Seq(Receipt) /\ r.gas = charged
    <2>1. t.cache \in Stores /\ t.receipts \in Seq(Receipt)
      BY TxParts
    <2>2. t.cache.txGasUsed \in Nat
      BY <2>1, StoreParts
    <2>3. r \in Receipt
      BY DEF Receipt
    <2> QED
      BY <2>1, <2>2, <2>3
  <1> HIDE DEF k, e, q
  <1>4. /\ u.msgs = t.msgs /\ u.stage = t.stage /\ u.count = t.count
        /\ u.gas = t.gas /\ u.before = t.before
        /\ u.meter = e /\ u.receipts = q /\ u.cache = k
        /\ u \in EthereumTxType
    BY <1>1, <1>2, <1>3 DEF EthereumTxType
  <1> QED
    BY <1>2, <1>3, <1>4 DEF Advances, e, q

\* A message that does not fail has the value that it sends.
Affords(c, m, failed) == failed \/ c.balance[m.from] >= m.value

\* The store d is c after message m, with its receipt r.
Settles(fee, c, m, r, d) ==
    /\ d \in Stores
    /\ d.collector = c.collector - (m.gas - r.gas) * EffectiveGasPrice(fee, m)
    /\ d.txGasUsed = c.txGasUsed /\ d.gasWanted = c.gasWanted
    /\ \A a \in Accounts : d.balance[a] = c.balance[a] + Settlement(fee, m, r, a)
    /\ \A a \in Accounts :
         d.nonce[a] = c.nonce[a] \/ (m.from = a /\ d.nonce[a] = m.nonce + 1)

\* What an account has got from a message that has run, and its nonces.
LEMMA SettledParts ==
    ASSUME params \in Parameters, NEW fee, fee = EvmBaseFee,
           NEW c \in Stores, NEW m \in Messages,
           NEW charged \in Nat, charged <= m.gas, NEW failed \in BOOLEAN,
           Affords(c, m, failed),
           NEW r, r = [gas |-> charged, failed |-> failed],
           NEW d, d = Settled(c, m, charged, failed), d.collector >= 0
    PROVE  Settles(fee, c, m, r, d)
  <1> DEFINE e == IF failed THEN c ELSE Executed(c, m)
             back == Back(m, charged)
             Out(a) == IF failed THEN 0 ELSE Outgoing(m, a)
             In(a) == IF failed THEN 0 ELSE Incoming(m, a)
  <1>1. m.value \in Nat
    BY MessageTypes
  <1>2. \A a \in Accounts : c.balance[a] \in Nat
    BY StoreParts
  <1>3. /\ e \in Stores /\ e.collector = c.collector
        /\ e.txGasUsed = c.txGasUsed /\ e.gasWanted = c.gasWanted
        /\ \A a \in Accounts : e.balance[a] = c.balance[a] - Out(a) + In(a)
        /\ \A a \in Accounts :
             e.nonce[a] = c.nonce[a] \/ (m.from = a /\ e.nonce[a] = m.nonce + 1)
    <2>1. CASE failed
      <3>1. e = c
        BY <2>1
      <3>2. \A a \in Accounts : c.balance[a] = c.balance[a] - Out(a) + In(a)
        BY <1>2, <2>1
      <3> QED
        BY <3>1, <3>2
    <2>2. CASE ~failed
      <3>1. e = Executed(c, m) /\ c.balance[m.from] >= m.value
        BY <2>2 DEF Affords
      <3> HIDE DEF e
      <3>2. /\ e \in Stores
            /\ e.collector = c.collector /\ e.txGasUsed = c.txGasUsed
            /\ e.gasWanted = c.gasWanted
            /\ \A a \in Accounts :
                 e.balance[a] = c.balance[a] - Outgoing(m, a) + Incoming(m, a)
            /\ \A a \in Accounts :
                 e.nonce[a] = IF m.kind # "call" /\ m.from = a THEN m.nonce + 1
                              ELSE c.nonce[a]
        BY <3>1, ExecutedParts
      <3>3. \A a \in Accounts : Out(a) = Outgoing(m, a) /\ In(a) = Incoming(m, a)
        BY <2>2
      <3> HIDE DEF Out, In
      <3> QED
        BY <3>2, <3>3
    <2> QED
      BY <2>1, <2>2
  <1>4. d = Refunded(e, m, charged)
    BY DEF Settled
  <1> HIDE DEF e
  <1>5. /\ d \in Stores /\ back \in Nat
        /\ d.collector = e.collector - back
        /\ d.nonce = e.nonce /\ d.txGasUsed = e.txGasUsed
        /\ d.gasWanted = e.gasWanted
        /\ \A a \in Accounts :
             d.balance[a] = e.balance[a] + (IF m.from = a THEN back ELSE 0)
    BY <1>3, <1>4, RefundedParts
  <1>6. r.gas = charged /\ r.failed = failed
    OBVIOUS
  <1>7. back = (m.gas - r.gas) * EffectiveGasPrice(fee, m)
    BY <1>6 DEF Back, Price
  <1> HIDE DEF back, Out, In
  <1>8. ASSUME NEW a \in Accounts
        PROVE  d.balance[a] = c.balance[a] + Settlement(fee, m, r, a)
    <2> DEFINE p == IF m.from = a THEN back ELSE 0
               o == Out(a)
               n == In(a)
               b == c.balance[a]
    <2>1. p \in Nat /\ o \in Nat /\ n \in Nat /\ b \in Nat
      BY <1>1, <1>2, <1>5 DEF Out, In, Outgoing, Incoming
    <2>2. d.balance[a] = (b - o + n) + p
      BY <1>3, <1>5
    <2>3. Settlement(fee, m, r, a) = p - o + n
      <3>1. Settlement(fee, m, r, a)
              = (IF m.from = a THEN back - (IF r.failed THEN 0 ELSE m.value) ELSE 0)
                + (IF m.kind = "call" /\ m.to = a /\ ~r.failed THEN m.value ELSE 0)
        BY <1>7 DEF Settlement
      <3>2. (IF m.kind = "call" /\ m.to = a /\ ~r.failed THEN m.value ELSE 0) = n
        BY <1>6 DEF In, Incoming
      <3>3. (IF m.from = a THEN back - (IF r.failed THEN 0 ELSE m.value) ELSE 0) = p - o
        BY <1>1, <1>5, <1>6 DEF Out, Outgoing
      <3> HIDE DEF p, o, n
      <3> QED
        BY <3>1, <3>2, <3>3
    <2> HIDE DEF p, o, n, b
    <2>4. (b - o + n) + p = b + (p - o + n)
      BY <2>1
    <2> QED
      BY <2>2, <2>3, <2>4 DEF b
  <1> QED
    BY <1>3, <1>5, <1>7, <1>8 DEF Settles

\* Its receipt agrees with what it did, so the books stay balanced.
LEMMA RunKept ==
    ASSUME NEW fee \in Nat, NEW k, NEW t \in EthereumTxType, NEW u,
           NEW store \in Stores, RunOK(fee, k, t, store), Len(t.receipts) < t.count,
           NEW m, m = t.msgs[Len(t.receipts) + 1],
           NEW r \in Receipt, r.gas <= m.gas, AboveMinimum(k, m, r.gas),
           NEW d, Settles(fee, t.cache, m, r, d), Advances(t, u, r, d)
    PROVE  RunOK(fee, k, u, store)
  <1> DEFINE c == t.cache
             n == Len(t.receipts) + 1
             rs == t.receipts
  <1>1. /\ t.msgs \in Seq(Messages) /\ rs \in Seq(Receipt)
        /\ c \in Stores /\ t.before \in Stores /\ t.count \in Nat /\ t.meter \in Nat
    BY TxParts
  <1>2. Len(t.msgs) = t.count /\ n \in DOMAIN t.msgs /\ m \in Messages /\ m = t.msgs[n]
    <2>1. Len(t.msgs) = t.count
      BY DEF RunOK
    <2> QED
      BY <1>1, <2>1
  <1>6. /\ d \in Stores
        /\ d.collector = c.collector - (m.gas - r.gas) * EffectiveGasPrice(fee, m)
        /\ d.txGasUsed = c.txGasUsed /\ d.gasWanted = c.gasWanted
        /\ \A a \in Accounts : d.balance[a] = c.balance[a] + Settlement(fee, m, r, a)
        /\ \A a \in Accounts :
             d.nonce[a] = c.nonce[a] \/ (m.from = a /\ d.nonce[a] = m.nonce + 1)
    BY DEF Settles
  <1>7. /\ u.msgs = t.msgs /\ u.stage = t.stage /\ u.count = t.count
        /\ u.gas = t.gas /\ u.before = t.before
        /\ u.meter = c.txGasUsed + r.gas
        /\ u.receipts = Append(rs, r)
        /\ u.cache.balance = d.balance /\ u.cache.nonce = d.nonce
        /\ u.cache.collector = d.collector /\ u.cache.gasWanted = d.gasWanted
        /\ u.cache.txGasUsed = d.txGasUsed + r.gas
    BY DEF Advances
  <1>8. /\ t.gas = TotalGas(t.msgs) /\ t.gas <= BlockGasLimit
        /\ c.gasWanted = store.gasWanted
        /\ t.meter = ReceiptGas(rs) /\ c.txGasUsed = t.meter
        /\ MessagesFit(fee, t) /\ NoncesCount(t, store) /\ NoncesWithin(t, c)
        /\ BooksAfter(fee, t.before, t.msgs, << >>, store)
        /\ BooksAfter(fee, t.before, t.msgs, rs, c)
        /\ ReceiptsFit(k, t)
    BY DEF RunOK
  <1>9. /\ Len(rs) < Len(t.msgs) /\ m = t.msgs[Len(rs) + 1]
    BY <1>2
  <1> HIDE DEF c, n, rs
  <1>10. /\ Len(u.receipts) = n /\ n \in Nat /\ Len(u.receipts) <= u.count
         /\ DOMAIN u.receipts = DOMAIN rs \cup {n}
         /\ u.receipts[n] = r /\ \A i \in DOMAIN rs : u.receipts[i] = rs[i]
    <2>1. n = Len(rs) + 1 /\ Len(rs) \in Nat /\ DOMAIN rs = 1 .. Len(rs)
      BY <1>1, FiniteDomain DEF n, rs
    <2> DEFINE q == Append(rs, r)
    <2>2. /\ Len(q) = Len(rs) + 1 /\ DOMAIN q = 1 .. (Len(rs) + 1)
          /\ q[Len(rs) + 1] = r /\ \A i \in DOMAIN rs : q[i] = rs[i]
      BY <1>1, <2>1
    <2>3. u.receipts = q
      BY <1>7
    <2> HIDE DEF q
    <2>4. DOMAIN q = DOMAIN rs \cup {n} /\ Len(q) = n /\ n \in Nat
      BY <2>1, <2>2
    <2>5. n <= u.count
      BY <1>1, <1>2, <1>7
    <2> QED
      BY <2>1, <2>2, <2>3, <2>4, <2>5
  <1>11. u.meter = ReceiptGas(u.receipts) /\ u.cache.txGasUsed = u.meter
    <2>1. ReceiptGas(u.receipts) = ReceiptGas(rs) + r.gas
      BY <1>1, <1>7, ReceiptGasAppend
    <2> QED
      BY <1>6, <1>7, <1>8, <2>1
  <1>12. BooksAfter(fee, u.before, u.msgs, u.receipts, u.cache)
    <2> DEFINE next == u.cache
    <2>1. /\ next.collector = c.collector - (m.gas - r.gas) * EffectiveGasPrice(fee, m)
          /\ \A a \in Accounts :
               next.balance[a] = c.balance[a] + Settlement(fee, m, r, a)
      BY <1>6, <1>7
    <2> HIDE DEF next
    <2>3. BooksAfter(fee, t.before, t.msgs, Append(rs, r), next)
      BY <1>1, <1>8, <1>9, <2>1, BooksSettle
    <2> QED
      BY <1>7, <2>3 DEF next
  <1>13. NoncesWithin(u, u.cache)
    <2> SUFFICES ASSUME NEW a \in Accounts
                 PROVE  IF SentBy(t.msgs, a) = {} THEN d.nonce[a] = t.before.nonce[a]
                        ELSE /\ d.nonce[a] > t.before.nonce[a]
                             /\ d.nonce[a] <= t.before.nonce[a] + Sent(t.msgs, a)
      BY <1>7 DEF NoncesWithin
    <2> DEFINE old == t.before.nonce[a]
               s == Sent(t.msgs, a)
    <2>1. IF SentBy(t.msgs, a) = {} THEN c.nonce[a] = old
          ELSE c.nonce[a] > old /\ c.nonce[a] <= old + s
      BY <1>8 DEF NoncesWithin
    <2>2. d.nonce[a] = c.nonce[a] \/ (m.from = a /\ d.nonce[a] = m.nonce + 1)
      BY <1>6
    <2>3. CASE d.nonce[a] = c.nonce[a]
      BY <2>1, <2>3
    <2>4. CASE m.from = a /\ d.nonce[a] = m.nonce + 1
      <3> DEFINE o == m.nonce
      <3>1. Between(o, old, s)
        <4>1. Between(m.nonce, t.before.nonce[m.from], Sent(t.msgs, m.from))
          BY <1>2, <1>8 DEF MessagesFit, Between
        <4> QED
          BY <2>4, <4>1
      <3>2. SentBy(t.msgs, a) # {}
        BY <1>2, <2>4 DEF SentBy
      <3>3. o \in Nat /\ old \in Nat /\ s \in Nat
        BY <1>1, <1>2, MessageTypes, StoreParts, SentAppend
      <3>4. d.nonce[a] = o + 1
        BY <2>4
      <3> HIDE DEF o, old, s
      <3>5. o + 1 > old /\ o + 1 <= old + s
        BY <3>1, <3>3 DEF Between
      <3> QED
        BY <3>2, <3>4, <3>5 DEF old, s
    <2> QED
      BY <2>2, <2>3, <2>4
  <1>14. ReceiptsFit(k, u)
    <2> SUFFICES ASSUME NEW i \in DOMAIN u.receipts, NEW q, q = u.receipts[i]
                 PROVE  /\ q.gas <= t.msgs[i].gas
                        /\ AboveMinimum(k, t.msgs[i], q.gas)
      BY <1>7 DEF ReceiptsFit
    <2>1. CASE i \in DOMAIN rs
      <3>1. q = rs[i]
        BY <1>10, <2>1
      <3> QED
        BY <1>8, <2>1, <3>1 DEF ReceiptsFit, rs
    <2>2. CASE i = n
      <3>1. q.gas = r.gas /\ t.msgs[i] = m
        BY <1>2, <1>10, <2>2
      <3> QED
        BY <3>1
    <2> QED
      BY <1>10, <2>1, <2>2
  <1>15. MessagesFit(fee, u) /\ NoncesCount(u, store)
    BY <1>7, <1>8 DEF MessagesFit, NoncesCount
  <1>16. u.cache.gasWanted = store.gasWanted
    BY <1>6, <1>7, <1>8
  <1>17. /\ Len(u.msgs) = u.count /\ u.gas = TotalGas(u.msgs) /\ u.gas <= BlockGasLimit
         /\ BooksAfter(fee, u.before, u.msgs, << >>, store)
    BY <1>2, <1>7, <1>8
  <1> QED
    BY <1>10, <1>11, <1>12, <1>13, <1>14, <1>15, <1>16, <1>17 DEF RunOK

\* ApplyTransaction keeps what holds while the messages run.
LEMMA ApplyKeeps ==
    ASSUME params \in Parameters, NEW fee, fee = EvmBaseFee,
           NEW t \in EthereumTxType,
           NEW store \in Stores, RunOK(fee, params.minGasMultiplier, t, store),
           Len(t.receipts) < t.count, NEW m, m = t.msgs[Len(t.receipts) + 1],
           NEW used \in Nat, used <= m.gas,
           NEW charged, charged = Charged(m, used), NEW failed \in BOOLEAN,
           Affords(t.cache, m, failed),
           Settled(t.cache, m, charged, failed).collector >= 0,
           NEW u, u = AfterRun(t, m, charged, failed)
    PROVE  u \in EthereumTxType /\ RunOK(fee, params.minGasMultiplier, u, store)
  <1> DEFINE r == [gas |-> charged, failed |-> failed]
             d == Settled(t.cache, m, charged, failed)
             c == t.cache
  <1>1. /\ t.msgs \in Seq(Messages) /\ t.receipts \in Seq(Receipt)
        /\ c \in Stores /\ t.count \in Nat
    BY TxParts
  <1>2. m \in Messages
    <2>1. Len(t.msgs) = t.count
      BY DEF RunOK
    <2> QED
      BY <1>1, <2>1
  <1>3. charged \in Nat /\ charged <= m.gas
        /\ AboveMinimum(params.minGasMultiplier, m, charged)
    BY <1>2, ChargedBounds
  <1>4. r \in Receipt /\ r.gas = charged /\ r = [gas |-> charged, failed |-> failed]
    BY <1>3 DEF Receipt
  <1>5. fee \in Nat
    BY BaseFeeType
  <1>6. d = Settled(c, m, charged, failed) /\ d.collector >= 0 /\ Affords(c, m, failed)
    OBVIOUS
  <1>7. d = Settled(t.cache, m, charged, failed)
    OBVIOUS
  <1> HIDE DEF r, d
  <1>8. Settles(fee, t.cache, m, r, d)
    <2> HIDE DEF c
    <2>1. Settles(fee, c, m, r, d)
      BY <1>1, <1>2, <1>3, <1>4, <1>6, SettledParts
    <2> QED
      BY <2>1 DEF c
  <1>9. d \in Stores
    BY <1>8 DEF Settles
  <1>10. u \in EthereumTxType /\ Advances(t, u, r, d)
    BY <1>3, <1>4, <1>7, <1>9, AfterRunParts
  <1>11. RunOK(fee, params.minGasMultiplier, u, store)
    BY <1>3, <1>4, <1>5, <1>8, <1>10, RunKept
  <1> QED
    BY <1>10, <1>11

-----------------------------------------------------------------------------
(* The first and the last step of the ante handler.                        *)

BeginAt(count, gas, store) ==
    [stage |-> "ante", count |-> count, gas |-> gas, msgs |-> << >>,
     cache |-> [store EXCEPT !.txGasUsed = 0], before |-> store,
     receipts |-> << >>, meter |-> 0]

\* A transaction that begins has empty books.
LEMMA BeginKeeps ==
    ASSUME NEW fee, NEW enabled, NEW store \in Stores, NEW count \in 1 .. MaxMsgs,
           NEW gas \in Nat, NEW u, u = BeginAt(count, gas, store)
    PROVE  u \in EthereumTxType /\ AnteOK(fee, enabled, u, store)
  <1> DEFINE c == [store EXCEPT !.txGasUsed = 0]
  <1>1. /\ c \in Stores /\ c.txGasUsed = 0 /\ c.gasWanted = store.gasWanted
        /\ c.balance = store.balance /\ c.nonce = store.nonce
        /\ c.collector = store.collector
    BY DEF Stores
  <1> HIDE DEF c
  <1>2. u = [stage |-> "ante", count |-> count, gas |-> gas, msgs |-> << >>,
             cache |-> c, before |-> store, receipts |-> << >>, meter |-> 0]
    BY DEF BeginAt, c
  <1>3. << >> \in Seq(Messages) /\ << >> \in Seq(Receipt) /\ Len(<< >>) = 0
    OBVIOUS
  <1>4. u \in EthereumTxType
    BY <1>1, <1>2, <1>3 DEF EthereumTxType
  <1>5. /\ u.before = store /\ u.cache = c /\ u.receipts = << >> /\ u.meter = 0
        /\ u.msgs = << >> /\ u.count = count
    BY <1>2
  <1>6. Len(u.msgs) <= u.count
    <2>1. count \in Nat
      BY EvmTxAssumption
    <2> QED
      BY <1>3, <1>5, <2>1
  <1>7. BooksAfter(fee, store, << >>, << >>, c)
    <2>1. BooksAfter(fee, store, << >>, << >>, store)
      BY BooksOfNothing
    <2> QED
      BY <1>1, <2>1 DEF BooksAfter
  <1>8. NoncesCount(u, c)
    <2> SUFFICES ASSUME NEW a \in Accounts
                 PROVE  c.nonce[a] = store.nonce[a] + 0
      BY <1>5, NothingSent DEF NoncesCount
    <2>1. store.nonce[a] \in Nat
      BY StoreParts
    <2> QED
      BY <1>1, <2>1
  <1>9. MessagesFit(fee, u)
    BY <1>5 DEF MessagesFit
  <1> QED
    BY <1>1, <1>4, <1>5, <1>6, <1>7, <1>8, <1>9 DEF AnteOK

\* The stores outside the cache are then what the cache was.
LEMMA AnteDoneKeeps ==
    ASSUME NEW fee, NEW enabled, NEW k, NEW t \in EthereumTxType, NEW store,
           AnteOK(fee, enabled, t, store), Len(t.msgs) = t.count,
           t.gas = TotalGas(t.msgs), t.gas <= BlockGasLimit,
           NEW u, u = [t EXCEPT !.stage = "run"]
    PROVE  u \in EthereumTxType /\ RunOK(fee, k, u, t.cache)
  <1>1. /\ u.msgs = t.msgs /\ u.count = t.count /\ u.gas = t.gas
        /\ u.before = t.before /\ u.receipts = t.receipts /\ u.meter = t.meter
        /\ u.cache = t.cache
        /\ u \in EthereumTxType
    BY DEF EthereumTxType
  <1>2. /\ t.cache.txGasUsed = 0 /\ t.receipts = << >> /\ t.meter = 0
        /\ MessagesFit(fee, t) /\ NoncesCount(t, t.cache)
        /\ BooksAfter(fee, t.before, t.msgs, << >>, t.cache)
    BY DEF AnteOK
  <1>3. t.msgs \in Seq(Messages) /\ t.before \in Stores /\ t.count \in Nat
    BY TxParts
  <1>4. NoncesWithin(t, t.cache)
    <2> SUFFICES ASSUME NEW a \in Accounts
                 PROVE  IF SentBy(t.msgs, a) = {} THEN t.cache.nonce[a] = t.before.nonce[a]
                        ELSE /\ t.cache.nonce[a] > t.before.nonce[a]
                             /\ t.cache.nonce[a] <= t.before.nonce[a] + Sent(t.msgs, a)
      BY DEF NoncesWithin
    <2> DEFINE n == t.before.nonce[a]
               s == Sent(t.msgs, a)
    <2>1. t.cache.nonce[a] = n + s
      BY <1>2 DEF NoncesCount
    <2>2. n \in Nat
      BY <1>3, StoreParts
    <2>3. s \in Nat /\ (SentBy(t.msgs, a) = {} <=> s = 0)
      BY <1>3, SentType
    <2> HIDE DEF n, s
    <2> QED
      BY <2>1, <2>2, <2>3 DEF n, s
  <1>5. NoncesCount(u, u.cache) /\ NoncesWithin(u, u.cache) /\ MessagesFit(fee, u)
    BY <1>1, <1>2, <1>4 DEF NoncesCount, NoncesWithin, MessagesFit
  <1>6. ReceiptsFit(k, u)
    BY <1>1, <1>2 DEF ReceiptsFit
  <1>7. Len(u.receipts) <= u.count /\ u.meter = ReceiptGas(u.receipts)
    BY <1>1, <1>2, <1>3, NoReceipts
  <1> QED
    BY <1>1, <1>2, <1>5, <1>6, <1>7 DEF RunOK

-----------------------------------------------------------------------------
(* The transactions of the chain.                                          *)

\* Between the actions: a transaction runs in an open block that is not full;
\* what holds of one of Ethereum messages; and a Cosmos one has paid the price.
TxInv ==
    /\ Store \in Stores
    /\ tx \in TxType \cup {NoTx}
    /\ tx # NoTx => phase = "txs" /\ ~BlockIsFull
    /\ tx # NoTx /\ tx.stage = "ante"
         => AnteOK(EvmBaseFee, IsBaseFeeEnabled(params, height), tx, Store)
    /\ Running => RunOK(EvmBaseFee, params.minGasMultiplier, tx, Store)
    /\ tx # NoTx /\ tx.stage = "cosmos"
         => EvmBaseFee <= HighestCap /\ tx.gas <= BlockGasLimit

EvmInv == FeeTypeOK /\ TxInv /\ rejectedGas \in Nat

\* Which transaction it is can be told from its stage.
LEMMA TxCases ==
    ASSUME TxInv, tx # NoTx
    PROVE  /\ tx.stage \in {"ante", "run"} => tx \in EthereumTxType
           /\ tx.stage = "cosmos" => tx \in CosmosTxType
  BY DEF TxInv, TxType, EthereumTxType, CosmosTxType

\* The variables of the store have their types.
LEMMA StoreVars ==
    ASSUME TxInv
    PROVE  /\ balance \in [Accounts -> Nat] /\ nonce \in [Accounts -> Nat]
           /\ collector \in Nat /\ txGasUsed \in Nat /\ gasWanted \in 0 .. MaxUint64
  <1>1. Store \in Stores
    BY DEF TxInv
  <1>2. /\ Store.balance = balance /\ Store.nonce = nonce
        /\ Store.collector = collector /\ Store.txGasUsed = txGasUsed
        /\ Store.gasWanted = gasWanted
    BY DEF Store
  <1> QED
    BY <1>1, <1>2, StoreParts

\* What is to be shown of a step that leaves no transaction behind.
LEMMA Idle ==
    ASSUME tx' = NoTx,
           balance' \in [Accounts -> Nat], nonce' \in [Accounts -> Nat],
           collector' \in Nat, txGasUsed' \in Nat, gasWanted' \in 0 .. MaxUint64
    PROVE  TxInv'
  <1>1. Store' \in Stores
    BY DEF Store, Stores
  <1> QED
    BY <1>1 DEF TxInv, Running

\* Writing a cache makes it the store.
LEMMA Written ==
    ASSUME NEW c \in Stores, WriteCache(c)
    PROVE  Store' = c
  BY DEF WriteCache, Store, Stores

\* The block's limit on the gas of a transaction fits the counters.
LEMMA BlockGasLimitType == BlockGasLimit \in 0 .. MaxUint64
  BY FeeMarketAssumption DEF BlockGasLimit, MaxUint64

\* The messages could pay the base fee, so it is no higher than what is offered.
LEMMA CapFits ==
    ASSUME NEW fee \in Nat, NEW t \in EthereumTxType, Len(t.msgs) = t.count,
           MessagesFit(fee, t)
    PROVE  fee <= HighestCap
  <1>1. t.msgs \in Seq(Messages) /\ t.count \in Nat \ {0}
    BY TxParts
  <1>2. 1 \in DOMAIN t.msgs
    BY <1>1
  <1>3. t.msgs[1] \in Messages
    BY <1>1, <1>2
  <1> DEFINE cap == t.msgs[1].cap
  <1>4. fee <= cap
    BY <1>2 DEF MessagesFit
  <1>5. cap \in Nat /\ cap <= HighestCap
    BY <1>3, MessageTypes
  <1> HIDE DEF cap
  <1> QED
    BY <1>4, <1>5, FeeMarketAssumption

\* A transaction whose ante handler has passed could pay the base fee, and its
\* meter has no more than the gas it declared.
LEMMA RunFacts ==
    ASSUME EvmInv, Running
    PROVE  /\ EvmBaseFee <= HighestCap
           /\ tx.gas \in 0 .. MaxUint64 /\ tx.meter \in 0 .. MaxUint64
           /\ tx.meter <= tx.gas
           /\ phase = "txs" /\ ~BlockIsFull
  <1> DEFINE fee == EvmBaseFee
             k == params.minGasMultiplier
             store == Store
  <1>1. tx \in EthereumTxType
    BY TxCases DEF EvmInv, Running
  <1>2. RunOK(fee, k, tx, store)
    BY DEF EvmInv, TxInv
  <1>3. phase = "txs" /\ ~BlockIsFull
    BY DEF EvmInv, TxInv, Running
  <1>4. fee \in Nat
    <2>1. params \in Parameters
      BY DEF EvmInv, FeeTypeOK, Parameters
    <2> QED
      BY <2>1, BaseFeeType
  <1> HIDE DEF fee, k, store
  <1>5. /\ tx.msgs \in Seq(Messages) /\ tx.receipts \in Seq(Receipt)
        /\ tx.count \in Nat \ {0} /\ tx.gas \in Nat /\ tx.meter \in Nat
    BY <1>1, TxParts
  <1>6. /\ Len(tx.msgs) = tx.count /\ Len(tx.receipts) <= tx.count
        /\ tx.gas = TotalGas(tx.msgs) /\ tx.gas <= BlockGasLimit
        /\ tx.meter = ReceiptGas(tx.receipts)
        /\ MessagesFit(fee, tx) /\ ReceiptsFit(k, tx)
    BY <1>2 DEF RunOK
  <1>7. fee <= HighestCap
    BY <1>1, <1>4, <1>6, CapFits
  <1>8. tx.meter <= tx.gas
    <2>1. \A i \in DOMAIN tx.receipts : tx.receipts[i].gas <= tx.msgs[i].gas
      BY <1>6 DEF ReceiptsFit
    <2> QED
      BY <1>5, <1>6, <2>1, ReceiptsWithinTotal
  <1>9. tx.gas \in 0 .. MaxUint64 /\ tx.meter \in 0 .. MaxUint64
    <2>1. BlockGasLimit \in Nat /\ BlockGasLimit <= MaxUint64 /\ MaxUint64 \in Nat
      BY BlockGasLimitType, GasLimitType
    <2> QED
      BY <1>5, <1>6, <1>8, <2>1
  <1> QED
    BY <1>3, <1>7, <1>8, <1>9 DEF fee

\* A transaction that ends, or is rejected, moves the gas of the block as
\* FeeMarket says.
LEMMA Consumes ==
    ASSUME EvmInv, EvmBaseFee <= HighestCap \/ EvmBaseFee <= MaxPrice,
           NEW gas \in 0 .. MaxUint64, phase = "txs", ~BlockIsFull, TakeBlockGas(gas),
           UNCHANGED <<params, blockGas, gasWanted, height, phase, updates>>
    PROVE  FeeNext
  <1>1. gas \in TxGas
    BY EvmTxAssumption
  <1>2. EvmBaseFee <= MaxPrice
    <2>1. params \in Parameters
      BY DEF EvmInv, FeeTypeOK, Parameters
    <2>2. EvmBaseFee \in Nat
      BY <2>1, BaseFeeType
    <2> QED
      BY <2>2, FeeMarketAssumption
  <1>3. ConsumeBlockGas(gas)
    BY <1>2 DEF ConsumeBlockGas, TakeBlockGas
  <1> QED
    BY <1>1, <1>3 DEF FeeNext

\* So does one that is counted: whatever the counter becomes, there is a gas
\* that takes it there.
LEMMA Counts ==
    ASSUME EvmBaseFee <= HighestCap, phase = "txs",
           gasWanted \in 0 .. MaxUint64, gasWanted' \in 0 .. MaxUint64,
           IsBaseFeeEnabled(params, height) \/ gasWanted' = gasWanted,
           UNCHANGED <<params, blockGas, gasUsed, height, phase, updates>>
    PROVE  [FeeNext]_feeVars
  <1>1. CASE gasWanted' = gasWanted
    BY <1>1 DEF feeVars
  <1>2. CASE IsBaseFeeEnabled(params, height)
    <2> DEFINE w == gasWanted
               v == gasWanted'
               gas == IF v >= w THEN v - w ELSE v - w + Word
    <2>1. w \in 0 .. Word - 1 /\ v \in 0 .. Word - 1 /\ Word \in Nat \ {0}
      BY FeeMarketAssumption DEF MaxUint64
    <2> HIDE DEF w, v
    <2>2. gas \in 0 .. Word - 1 /\ (w + gas = v \/ w + gas = v + Word)
      BY <2>1
    <2> HIDE DEF gas
    <2>3. (w + gas) % Word = v
      BY <2>1, <2>2, Z3
    <2>4. gas \in TxGas
      BY <2>2, EvmTxAssumption DEF MaxUint64
    <2>5. CountGasWanted(gas)
      BY <1>2, <2>3 DEF CountGasWanted, w, v
    <2> QED
      BY <2>4, <2>5 DEF FeeNext
  <1> QED
    BY <1>1, <1>2

\* What is to be shown of a step of a transaction of Ethereum messages.
LEMMA Ongoing ==
    ASSUME params' = params, height' = height, phase' = "txs", ~BlockIsFull',
           Store' \in Stores, tx' \in EthereumTxType,
           tx'.stage = "ante" =>
             AnteOK(EvmBaseFee, IsBaseFeeEnabled(params, height), tx', Store'),
           tx'.stage = "run" =>
             RunOK(EvmBaseFee, params.minGasMultiplier, tx', Store')
    PROVE  TxInv'
  <1>1. tx' \in TxType /\ tx' # NoTx /\ tx'.stage # "cosmos"
    <2>1. tx'.stage \in {"ante", "run"}
      BY DEF EthereumTxType
    <2> QED
      BY <2>1, EvmTxAssumption DEF TxType
  <1>2. EvmBaseFee' = EvmBaseFee
        /\ IsBaseFeeEnabled(params, height)' = IsBaseFeeEnabled(params, height)
    BY DEF EvmBaseFee, IsBaseFeeEnabled
  <1> QED
    BY <1>1, <1>2 DEF TxInv, Running

\* A step of the block leaves no transaction behind.
LEMMA BlockSteps ==
    ASSUME EvmInv, \/ EvmBeginBlock \/ EvmEndBlock
                   \/ \E p \in ParamSets : EvmUpdateParams(p)
    PROVE  [FeeNext]_feeVars /\ TxInv'
  <1>1. FeeNext
    BY DEF EvmBeginBlock, EvmEndBlock, EvmUpdateParams, FeeNext
  <1>2. tx = NoTx
    <2>1. CASE EvmBeginBlock
      BY <2>1 DEF EvmInv, TxInv, EvmBeginBlock, BeginBlock
    <2>2. CASE EvmEndBlock \/ \E p \in ParamSets : EvmUpdateParams(p)
      BY <2>2 DEF EvmEndBlock, EvmUpdateParams
    <2> QED
      BY <2>1, <2>2
  <1>3. FeeTypeOK'
    BY <1>1, TypeStep DEF EvmInv
  <1>4. /\ tx' = tx /\ balance' = balance /\ nonce' = nonce
        /\ collector' = collector \/ collector' = 0
        /\ txGasUsed' = txGasUsed \/ txGasUsed' = 0
    BY DEF EvmBeginBlock, EvmEndBlock, EvmUpdateParams, storeVars
  <1>5. /\ balance \in [Accounts -> Nat] /\ nonce \in [Accounts -> Nat]
        /\ collector \in Nat /\ txGasUsed \in Nat
    BY StoreVars DEF EvmInv
  <1>6. gasWanted' \in 0 .. MaxUint64
    BY <1>3 DEF FeeTypeOK
  <1>7. collector' \in Nat /\ txGasUsed' \in Nat
    BY <1>4, <1>5
  <1>8. TxInv'
    BY <1>2, <1>4, <1>5, <1>6, <1>7, Idle
  <1> QED
    BY <1>1, <1>8

\* The types of the store that most steps leave alone.
LEMMA SameStore ==
    ASSUME EvmInv, UNCHANGED feeVars, UNCHANGED storeVars
    PROVE  /\ Store' = Store /\ Store \in Stores
           /\ params' = params /\ height' = height /\ phase' = phase
           /\ BlockIsFull' = BlockIsFull
           /\ [FeeNext]_feeVars
  BY DEF EvmInv, TxInv, feeVars, storeVars, Store, BlockIsFull

\* BeginTx moves nothing of the fee market.
LEMMA BeginTxStep ==
    ASSUME EvmInv, NEW count \in 1 .. MaxMsgs, NEW gas \in DeclaredGas,
           BeginTx(count, gas)
    PROVE  [FeeNext]_feeVars /\ TxInv' /\ tx' \in EthereumTxType
  <1> DEFINE store == Store
             fee == EvmBaseFee
             enabled == IsBaseFeeEnabled(params, height)
  <1>1. UNCHANGED feeVars /\ UNCHANGED storeVars /\ phase = "txs" /\ ~BlockIsFull
    BY DEF BeginTx
  <1>2. /\ Store' = store /\ store \in Stores
        /\ params' = params /\ height' = height /\ phase' = "txs" /\ ~BlockIsFull'
        /\ [FeeNext]_feeVars
    BY <1>1, SameStore
  <1>3. tx' = BeginAt(count, gas, store)
    BY DEF BeginTx, BeginAt
  <1> DEFINE u == tx'
  <1>4. gas \in Nat /\ u = BeginAt(count, gas, store) /\ u.stage = "ante"
    BY <1>3, EvmTxAssumption DEF BeginAt
  <1> HIDE DEF store, fee, enabled, u
  <1>5. u \in EthereumTxType /\ AnteOK(fee, enabled, u, store)
    BY <1>2, <1>4, BeginKeeps
  <1>6. TxInv'
    BY <1>2, <1>4, <1>5, Ongoing DEF fee, enabled, u
  <1> QED
    BY <1>2, <1>5, <1>6 DEF u

\* Nor does a round of the loop, which works on the cache.
LEMMA AnteMessageStep ==
    ASSUME EvmInv, NEW m \in Messages, AnteMessage(m)
    PROVE  [FeeNext]_feeVars /\ TxInv' /\ tx' \in EthereumTxType
  <1> DEFINE store == Store
             fee == EvmBaseFee
             enabled == IsBaseFeeEnabled(params, height)
             t == tx
             u == tx'
  <1>1. /\ UNCHANGED feeVars /\ UNCHANGED storeVars /\ phase = "txs" /\ ~BlockIsFull
        /\ params \in Parameters
    BY DEF AnteMessage, EvmInv, TxInv, FeeTypeOK, Parameters
  <1>2. /\ Store' = store /\ store \in Stores
        /\ params' = params /\ height' = height /\ phase' = "txs" /\ ~BlockIsFull'
        /\ [FeeNext]_feeVars
    BY <1>1, SameStore
  <1>3. t \in EthereumTxType /\ t.stage = "ante" /\ AnteOK(fee, enabled, t, store)
    BY TxCases DEF AnteMessage, EvmInv, TxInv
  <1>4. Passes(fee, t, m)
    <2>1. m.cap \in Nat /\ fee \in Nat
      BY <1>1, MessageTypes, BaseFeeType
    <2>2. m.cap >= fee
      BY DEF AnteMessage
    <2>3. fee <= m.cap
      <3> HIDE DEF fee
      <3> QED
        BY <2>1, <2>2
    <2> QED
      BY <2>3 DEF AnteMessage, Passes
  <1>5. u = AfterMessage(t, m)
    BY DEF AnteMessage, AfterMessage
  <1>6. fee = EvmBaseFee /\ enabled = IsBaseFeeEnabled(params, height)
    OBVIOUS
  <1> HIDE DEF store, fee, enabled, t, u
  <1>7. u \in EthereumTxType /\ AnteOK(fee, enabled, u, store)
    BY <1>1, <1>2, <1>3, <1>4, <1>5, <1>6, AnteMessageKeeps
  <1>8. u.stage = "ante"
    BY <1>3, <1>5, AfterMessageParts
  <1>9. TxInv'
    BY <1>2, <1>6, <1>7, <1>8, Ongoing DEF u
  <1> QED
    BY <1>2, <1>7, <1>9 DEF u

\* The end of the ante handler writes what it counted: transactions of FeeMarket
\* that want gas, as many as there were messages.
LEMMA AnteDoneStep ==
    ASSUME EvmInv, AnteDone
    PROVE  [FeeNext]_feeVars /\ TxInv' /\ tx' \in EthereumTxType
  <1> DEFINE store == Store
             fee == EvmBaseFee
             enabled == IsBaseFeeEnabled(params, height)
             k == params.minGasMultiplier
             t == tx
             u == tx'
             c == t.cache
  <1>1. /\ phase = "txs" /\ ~BlockIsFull /\ params \in Parameters
        /\ params' = params /\ height' = height /\ phase' = "txs"
        /\ UNCHANGED <<params, blockGas, gasUsed, height, phase, updates>>
    BY DEF AnteDone, EvmInv, TxInv, FeeTypeOK, Parameters
  <1>2. t \in EthereumTxType /\ AnteOK(fee, enabled, t, store)
    BY TxCases DEF AnteDone, EvmInv, TxInv
  <1>3. /\ Len(t.msgs) = t.count /\ t.gas = TotalGas(t.msgs) /\ t.gas <= BlockGasLimit
        /\ WriteCache(c) /\ u = [t EXCEPT !.stage = "run"]
    BY DEF AnteDone
  <1>4. c \in Stores
    BY <1>2, TxParts
  <1>5. Store' = c
    <2> HIDE DEF c
    <2> QED
      BY <1>3, <1>4, Written
  <1>6. gasWanted \in 0 .. MaxUint64 /\ store.gasWanted = gasWanted
    BY StoreVars DEF EvmInv, Store
  <1>7. gasWanted' = c.gasWanted
    BY <1>3 DEF WriteCache
  <1>8. c.gasWanted \in 0 .. MaxUint64
    <2> HIDE DEF c
    <2> QED
      BY <1>4, StoreParts
  <1>9. enabled \/ gasWanted' = gasWanted
    BY <1>2, <1>6, <1>7 DEF AnteOK
  <1>10. fee \in Nat /\ ~BlockIsFull'
    BY <1>1, BaseFeeType DEF BlockIsFull
  <1>11. u.stage = "run"
    BY <1>2, <1>3 DEF EthereumTxType
  <1>12. fee = EvmBaseFee /\ enabled = IsBaseFeeEnabled(params, height)
         /\ k = params.minGasMultiplier
    OBVIOUS
  <1> HIDE DEF store, fee, enabled, t, u, k
  <1>13. fee <= HighestCap
    BY <1>2, <1>3, <1>10, CapFits DEF AnteOK
  <1>14. [FeeNext]_feeVars
    BY <1>1, <1>6, <1>7, <1>8, <1>9, <1>12, <1>13, Counts
  <1>15. u \in EthereumTxType /\ RunOK(fee, k, u, c)
    BY <1>2, <1>3, AnteDoneKeeps
  <1>16. TxInv'
    BY <1>1, <1>4, <1>5, <1>10, <1>11, <1>12, <1>15, Ongoing DEF u
  <1> QED
    BY <1>14, <1>15, <1>16 DEF u

\* A failing ante handler leaves no trace.
LEMMA AnteFailsStep ==
    ASSUME EvmInv, AnteFails
    PROVE  [FeeNext]_feeVars /\ TxInv'
  <1>1. /\ UNCHANGED feeVars /\ UNCHANGED storeVars /\ tx' = NoTx
    BY DEF AnteFails
  <1>2. TxInv'
    BY <1>1, StoreVars, Idle DEF EvmInv, storeVars, feeVars
  <1> QED
    BY <1>1, <1>2

\* The end of a transaction whose messages come to nothing.
LEMMA FailStep ==
    ASSUME EvmInv, Running, NEW gas \in 0 .. MaxUint64, FailTx(gas)
    PROVE  [FeeNext]_feeVars /\ TxInv'
  <1>1. EvmBaseFee <= HighestCap /\ phase = "txs" /\ ~BlockIsFull
    BY RunFacts
  <1>2. FeeNext
    BY <1>1, Consumes DEF FailTx
  <1>3. TxInv'
    BY StoreVars, Idle DEF EvmInv, FailTx, storeVars
  <1> QED
    BY <1>2, <1>3

\* A transaction that fails after its ante handler uses the gas of its meter.
LEMMA FailSteps ==
    ASSUME EvmInv, RefuseMessage \/ MessageErrors
    PROVE  [FeeNext]_feeVars /\ TxInv'
  <1>1. Running /\ (FailTx(tx.meter) \/ FailTx(tx.gas))
    BY DEF RefuseMessage, MessageErrors
  <1>2. tx.gas \in 0 .. MaxUint64 /\ tx.meter \in 0 .. MaxUint64
    BY <1>1, RunFacts
  <1> QED
    BY <1>1, <1>2, FailStep

\* A transaction whose messages have all run is kept or, when the block is full,
\* dropped; either way the block takes the gas of its meter.
LEMMA FinishStep ==
    ASSUME EvmInv, FinishTx
    PROVE  [FeeNext]_feeVars /\ TxInv'
  <1>1. Running /\ tx.meter \in 0 .. MaxUint64
    BY RunFacts DEF FinishTx
  <1>2. CASE FailTx(tx.meter)
    BY <1>1, <1>2, FailStep
  <1>3. CASE /\ TakeBlockGas(tx.meter)
             /\ WriteCache(tx.cache)
             /\ tx' = NoTx
             /\ UNCHANGED <<params, blockGas, height, phase, updates>>
    <2> DEFINE c == tx.cache
    <2>1. EvmBaseFee <= HighestCap /\ phase = "txs" /\ ~BlockIsFull
      BY <1>1, RunFacts
    <2>2. tx \in EthereumTxType
      BY <1>1, TxCases DEF EvmInv, Running
    <2>3. c \in Stores
      BY <2>2, TxParts
    <2>4. c.gasWanted = gasWanted
      BY <1>1 DEF EvmInv, TxInv, RunOK, Store
    <2>5. /\ balance' = c.balance /\ nonce' = c.nonce /\ collector' = c.collector
          /\ txGasUsed' = c.txGasUsed /\ gasWanted' = c.gasWanted
      BY <1>3 DEF WriteCache
    <2> HIDE DEF c
    <2>6. FeeNext
      BY <1>1, <1>3, <2>1, <2>4, <2>5, Consumes
    <2>7. TxInv'
      BY <1>3, <2>3, <2>5, StoreParts, Idle
    <2> QED
      BY <2>6, <2>7
  <1> QED
    BY <1>2, <1>3 DEF FinishTx

\* A message is applied to the cache.
LEMMA ApplyStep ==
    ASSUME EvmInv, NEW used \in TxGas, NEW failed \in BOOLEAN,
           ApplyTransaction(used, failed)
    PROVE  /\ [FeeNext]_feeVars /\ TxInv'
           /\ tx' \in EthereumTxType /\ tx'.stage = "run" /\ tx'.gas = tx.gas
  <1> DEFINE store == Store
             fee == EvmBaseFee
             t == tx
             u == tx'
             m == Current
             charged == Charged(m, used)
  <1>1. /\ UNCHANGED feeVars /\ UNCHANGED storeVars /\ phase = "txs" /\ ~BlockIsFull
        /\ params \in Parameters
    BY RunFacts DEF ApplyTransaction, EvmInv, FeeTypeOK, Parameters
  <1>2. /\ Store' = store /\ store \in Stores
        /\ params' = params /\ height' = height /\ phase' = "txs" /\ ~BlockIsFull'
        /\ [FeeNext]_feeVars
    BY <1>1, SameStore
  <1>3. /\ t \in EthereumTxType /\ t.stage = "run"
        /\ RunOK(fee, params.minGasMultiplier, t, store)
        /\ Len(t.receipts) < t.count /\ m = t.msgs[Len(t.receipts) + 1]
    BY TxCases, ZenonT(60) DEF ApplyTransaction, EvmInv, TxInv, Running, Current
  <1>4. used \in Nat /\ used <= m.gas
    <2>1. used \in Nat
      BY EvmTxAssumption
    <2>2. used \in Intrinsic .. m.gas
      BY DEF ApplyTransaction
    <2> QED
      BY <2>1, <2>2
  <1>5. /\ Affords(t.cache, m, failed)
        /\ Settled(t.cache, m, charged, failed).collector >= 0
        /\ u = AfterRun(t, m, charged, failed)
    BY DEF ApplyTransaction, Affords, Settled, AfterRun
  <1>6. fee = EvmBaseFee /\ charged = Charged(m, used)
    OBVIOUS
  <1> HIDE DEF store, fee, t, u, m, charged
  <1>7. u \in EthereumTxType /\ RunOK(fee, params.minGasMultiplier, u, store)
    BY <1>1, <1>2, <1>3, <1>4, <1>5, <1>6, ApplyKeeps
  <1>8. u.stage = "run" /\ u.gas = t.gas
    <2> DEFINE k == [Settled(t.cache, m, charged, failed) EXCEPT !.txGasUsed = @ + charged]
               e == t.cache.txGasUsed + charged
               q == Append(t.receipts, [gas |-> charged, failed |-> failed])
    <2>1. u = [t EXCEPT !.cache = k, !.meter = e, !.receipts = q]
      BY <1>3, <1>5 DEF AfterRun, EthereumTxType
    <2> HIDE DEF k, e, q
    <2> QED
      BY <1>3, <2>1 DEF EthereumTxType
  <1>9. TxInv'
    BY <1>2, <1>6, <1>7, <1>8, Ongoing DEF u
  <1> QED
    BY <1>2, <1>7, <1>8, <1>9 DEF t, u

\* A Cosmos transaction is one that wants gas at a price within the bounds.
LEMMA CosmosAnteStep ==
    ASSUME EvmInv, NEW c \in CosmosTxs, CosmosAnte(c)
    PROVE  [FeeNext]_feeVars /\ TxInv'
  <1> DEFINE cap == c.fee \div c.gas
             fee == EvmBaseFee
             price == SmallerOf(fee + c.tip, cap)
             cost == price * c.gas
  <1>1. /\ c.from \in Accounts /\ c.gas \in Nat \ {0} /\ c.fee \in Nat /\ c.tip \in Nat
        /\ cap <= HighestCap
    <2>1. c \in CosmosTx /\ c.gas > 0 /\ cap <= HighestCap
      BY EvmTxAssumption
    <2>2. c.from \in Accounts /\ c.gas \in Nat /\ c.fee \in Nat /\ c.tip \in Nat
      BY <2>1 DEF CosmosTx
    <2> HIDE DEF cap
    <2> QED
      BY <2>1, <2>2
  <1>2. fee \in Nat /\ params \in Parameters
    <2>1. params \in Parameters
      BY DEF EvmInv, FeeTypeOK, Parameters
    <2> QED
      BY <2>1, BaseFeeType
  <1>3. cap \in Nat
    BY <1>1, DivBounds
  <1>4. /\ phase = "txs" /\ ~BlockIsFull /\ cap >= fee
        /\ balance[c.from] >= cost /\ c.gas <= BlockGasLimit
        /\ balance' = [balance EXCEPT ![c.from] = @ - cost]
        /\ collector' = collector + cost
        /\ nonce' = [nonce EXCEPT ![c.from] = @ + 1]
        /\ gasWanted' = CountedGas(gasWanted, c.gas)
        /\ tx' = [stage |-> "cosmos", gas |-> c.gas, fee |-> c.fee]
        /\ UNCHANGED <<params, blockGas, gasUsed, height, phase, updates>>
        /\ UNCHANGED txGasUsed
    BY DEF CosmosAnte
  <1>5. cost \in Nat
    <2>1. price \in Nat
      <3> HIDE DEF cap, fee
      <3> QED
        BY <1>1, <1>2, <1>3 DEF SmallerOf
    <2> HIDE DEF price
    <2> QED
      BY <1>1, <2>1, CostAtMost
  <1>6. /\ balance \in [Accounts -> Nat] /\ nonce \in [Accounts -> Nat]
        /\ collector \in Nat /\ txGasUsed \in Nat /\ gasWanted \in 0 .. MaxUint64
    BY StoreVars DEF EvmInv
  <1>7. fee <= HighestCap
    <2> HIDE DEF cap, fee
    <2> QED
      BY <1>1, <1>2, <1>3, <1>4, FeeMarketAssumption
  <1> HIDE DEF cap, price, cost
  <1>8. balance' \in [Accounts -> Nat]
    <2>1. balance[c.from] \in Nat
      BY <1>1, <1>6
    <2>2. balance[c.from] - cost \in Nat
      BY <1>4, <1>5, <2>1
    <2> QED
      BY <1>1, <1>4, <1>6, <2>2
  <1>9. nonce' \in [Accounts -> Nat]
    BY <1>1, <1>4, <1>6, OneMore
  <1>10. collector' \in Nat
    BY <1>4, <1>5, <1>6
  <1>11. /\ gasWanted' \in 0 .. MaxUint64
         /\ IsBaseFeeEnabled(params, height) \/ gasWanted' = gasWanted
    BY <1>1, <1>4, <1>6, CountedGasType
  <1>12. [FeeNext]_feeVars
    BY <1>4, <1>6, <1>7, <1>11, Counts
  <1>13. Store' \in Stores
    BY <1>4, <1>6, <1>8, <1>9, <1>10, <1>11 DEF Store, Stores
  <1>14. /\ tx' \in CosmosTxType /\ tx'.stage = "cosmos" /\ tx'.gas = c.gas
         /\ tx' # NoTx /\ tx' \in TxType
    <2>1. tx' \in CosmosTxType
      BY <1>1, <1>4 DEF CosmosTxType
    <2> QED
      BY <1>4, <2>1, EvmTxAssumption DEF TxType
  <1>15. /\ phase' = "txs" /\ ~BlockIsFull' /\ EvmBaseFee' <= HighestCap
    BY <1>4, <1>7 DEF BlockIsFull, EvmBaseFee
  <1>16. TxInv'
    BY <1>4, <1>13, <1>14, <1>15 DEF TxInv, Running
  <1> QED
    BY <1>12, <1>16

\* Its messages use gas of the block, and its post handler burns coins.
LEMMA CosmosRunStep ==
    ASSUME EvmInv, NEW used \in TxGas, CosmosRun(used)
    PROVE  [FeeNext]_feeVars /\ TxInv'
  <1>1. /\ tx \in CosmosTxType /\ tx.gas <= BlockGasLimit
        /\ EvmBaseFee <= HighestCap /\ phase = "txs" /\ ~BlockIsFull
    BY TxCases DEF EvmInv, TxInv, CosmosRun
  <1>2. used \in 0 .. MaxUint64
    BY EvmTxAssumption
  <1>3. /\ TakeBlockGas(used) /\ tx' = NoTx
        /\ UNCHANGED <<params, blockGas, gasWanted, height, phase, updates>>
        /\ UNCHANGED <<balance, nonce, txGasUsed>>
        /\ collector' = collector - SmallerOf(tx.fee, collector) \/ collector' = collector
    BY DEF CosmosRun
  <1>4. FeeNext
    BY <1>1, <1>2, <1>3, Consumes
  <1>5. /\ balance \in [Accounts -> Nat] /\ nonce \in [Accounts -> Nat]
        /\ collector \in Nat /\ txGasUsed \in Nat /\ gasWanted \in 0 .. MaxUint64
    BY StoreVars DEF EvmInv
  <1>6. collector' \in Nat
    <2>1. tx.fee \in Nat
      BY <1>1 DEF CosmosTxType
    <2> QED
      BY <1>3, <1>5, <2>1 DEF SmallerOf
  <1>7. TxInv'
    BY <1>3, <1>5, <1>6, Idle
  <1> QED
    BY <1>4, <1>7

\* A sum that grows by the growth of another number keeps its distance from it.
LEMMA AddsDifference ==
    ASSUME NEW r \in Nat, NEW a \in Nat, NEW b \in Nat
    PROVE  /\ a <= b => r + (b - a) \in Nat
           /\ b - (r + (b - a)) = a - r
  OBVIOUS

\* A number that grows by g at most, less one that stays.
LEMMA GrowsAtMost ==
    ASSUME NEW r \in Nat, NEW a \in Nat, NEW b \in Nat, NEW g \in Nat, b <= a + g
    PROVE  b - r \in Int /\ b - r <= (a - r) + g
  OBVIOUS

\* A meter that has room left takes the gas it is given or a part of it.
LEMMA TakesGas ==
    ASSUME FeeTypeOK, ~BlockIsFull, NEW gas \in Nat, TakeBlockGas(gas)
    PROVE  gasUsed \in Nat /\ gasUsed' \in Nat /\ gasUsed <= gasUsed'
  <1>1. gasUsed \in 0 .. MaxUint64 /\ MeterLimit \in 0 .. MaxUint64 /\ MaxUint64 \in Nat
    BY MeterLimitType, GasLimitType DEF FeeTypeOK
  <1>2. gasUsed <= MeterLimit
    BY <1>1, FeeMarketAssumption DEF BlockIsFull, MeterLimit
  <1>3. gasUsed' = SmallerOf(gasUsed + gas, MeterLimit)
    BY DEF TakeBlockGas
  <1> HIDE DEF MeterLimit
  <1> QED
    BY <1>1, <1>2, <1>3 DEF SmallerOf

\* A rejected Cosmos transaction uses gas of the block, and nothing else.
LEMMA RejectTxStep ==
    ASSUME EvmInv, NEW gas \in RejectedGas, RejectTx(gas)
    PROVE  [FeeNext]_feeVars /\ TxInv' /\ rejectedGas' \in Nat
  <1>1. gas \in 0 .. MaxUint64 /\ MaxUint64 \in Nat
    BY EvmTxAssumption, GasLimitType
  <1>2. /\ EvmBaseFee <= MaxPrice /\ phase = "txs" /\ tx = NoTx /\ ~BlockIsFull
        /\ TakeBlockGas(gas)
        /\ rejectedGas' = rejectedGas + (gasUsed' - gasUsed)
        /\ UNCHANGED <<params, blockGas, gasWanted, height, phase, updates>>
        /\ UNCHANGED storeVars /\ tx' = tx
    BY DEF RejectTx
  <1>3. FeeNext
    BY <1>1, <1>2, Consumes
  <1>4. TxInv'
    BY <1>2, StoreVars, Idle DEF EvmInv, storeVars
  <1>5. rejectedGas' \in Nat
    <2>1. FeeTypeOK /\ rejectedGas \in Nat
      BY Zenon DEF EvmInv
    <2>2. gas \in Nat
      BY <1>1
    <2>3. ~BlockIsFull /\ TakeBlockGas(gas)
      BY <1>2, Zenon
    <2>4. gasUsed \in Nat /\ gasUsed' \in Nat /\ gasUsed <= gasUsed'
      BY <2>1, <2>2, <2>3, TakesGas, Zenon
    <2>5. rejectedGas + (gasUsed' - gasUsed) \in Nat
      BY <2>1, <2>4, AddsDifference, Zenon
    <2> QED
      BY <1>2, <2>5, Zenon
  <1> QED
    BY <1>3, <1>4, <1>5

\* Only a rejected transaction adds to what rejected ones have taken.
LEMMA RejectedStep ==
    ASSUME EvmInv, [EvmNext]_evmVars
    PROVE  rejectedGas' \in Nat
  <1>1. rejectedGas \in Nat
    BY DEF EvmInv
  <1>2. CASE \E gas \in RejectedGas : RejectTx(gas)
    BY <1>2, RejectTxStep
  <1>3. CASE EvmBeginBlock
    BY <1>3 DEF EvmBeginBlock
  <1>4. CASE rejectedGas' = rejectedGas
    BY <1>1, <1>4
  <1>5. \/ \E gas \in RejectedGas : RejectTx(gas)
        \/ EvmBeginBlock
        \/ rejectedGas' = rejectedGas
    BY DEF EvmNext, evmVars, EvmEndBlock, EvmUpdateParams, BeginTx, AnteMessage,
           AnteDone, AnteFails, RefuseMessage, MessageErrors, FailTx,
           ApplyTransaction, FinishTx, CosmosAnte, CosmosRun
  <1> QED
    BY <1>2, <1>3, <1>4, <1>5

\* Every step keeps the invariant, and is a step of the fee market or none.
LEMMA EvmStep ==
    ASSUME EvmInv, [EvmNext]_evmVars
    PROVE  [FeeNext]_feeVars /\ EvmInv'
  <1>1. [FeeNext]_feeVars /\ TxInv'
    <2>1. CASE \/ EvmBeginBlock \/ EvmEndBlock
               \/ \E p \in ParamSets : EvmUpdateParams(p)
      BY <2>1, BlockSteps
    <2>2. ASSUME NEW count \in 1 .. MaxMsgs, NEW gas \in DeclaredGas, BeginTx(count, gas)
          PROVE  [FeeNext]_feeVars /\ TxInv'
      BY <2>2, BeginTxStep
    <2>3. ASSUME NEW m \in Messages, AnteMessage(m)
          PROVE  [FeeNext]_feeVars /\ TxInv'
      BY <2>3, AnteMessageStep
    <2>4. CASE AnteDone
      BY <2>4, AnteDoneStep
    <2>5. CASE AnteFails
      BY <2>5, AnteFailsStep
    <2>6. CASE RefuseMessage \/ MessageErrors
      BY <2>6, FailSteps
    <2>7. ASSUME NEW used \in TxGas, NEW failed \in BOOLEAN,
                 ApplyTransaction(used, failed)
          PROVE  [FeeNext]_feeVars /\ TxInv'
      BY <2>7, ApplyStep
    <2>8. CASE FinishTx
      BY <2>8, FinishStep
    <2>9. ASSUME NEW c \in CosmosTxs, CosmosAnte(c)
          PROVE  [FeeNext]_feeVars /\ TxInv'
      BY <2>9, CosmosAnteStep
    <2>10. ASSUME NEW used \in TxGas, CosmosRun(used)
           PROVE  [FeeNext]_feeVars /\ TxInv'
      BY <2>10, CosmosRunStep
    <2>12. ASSUME NEW gas \in RejectedGas, RejectTx(gas)
           PROVE  [FeeNext]_feeVars /\ TxInv'
      BY <2>12, RejectTxStep
    <2>11. CASE UNCHANGED evmVars
      <3>1. UNCHANGED feeVars /\ UNCHANGED storeVars /\ tx' = tx
        BY <2>11 DEF evmVars
      <3>2. /\ Store' = Store /\ EvmBaseFee' = EvmBaseFee /\ BlockIsFull' = BlockIsFull
            /\ params' = params /\ height' = height /\ phase' = phase
        BY <3>1 DEF Store, EvmBaseFee, BlockIsFull, storeVars, feeVars
      <3>3. TxInv
        BY DEF EvmInv
      <3>4. IsBaseFeeEnabled(params, height)' = IsBaseFeeEnabled(params, height)
        BY <3>2
      <3>5. TxInv'
        BY <3>1, <3>2, <3>3, <3>4 DEF TxInv, Running
      <3> QED
        BY <3>1, <3>5
    <2> QED
      BY <2>1, <2>2, <2>3, <2>4, <2>5, <2>6, <2>7, <2>8, <2>9, <2>10, <2>11,
         <2>12
         DEF EvmNext
  <1>2. FeeTypeOK'
    BY <1>1, TypeStep DEF EvmInv
  <1> QED
    BY <1>1, <1>2, RejectedStep DEF EvmInv

\* The invariant holds at genesis.
LEMMA EvmStart ==
    ASSUME EvmInit
    PROVE  EvmInv
  <1>1. FeeInit /\ FeeTypeOK
    <2>1. FeeInit
      BY DEF EvmInit
    <2> QED
      BY <2>1, FeeMarketAssumption DEF FeeInit, FeeTypeOK, MaxUint64, Phases
  <1>2. Store \in Stores
    <2>1. MaxUint64 \in Nat /\ gasWanted = 0
      BY <1>1, GasLimitType DEF FeeInit
    <2>2. /\ balance \in [Accounts -> Nat] /\ nonce \in [Accounts -> Nat]
          /\ collector \in Nat /\ txGasUsed \in Nat
      BY EvmTxAssumption DEF EvmInit
    <2> QED
      BY <2>1, <2>2 DEF Store, Stores
  <1>3. tx = NoTx /\ rejectedGas \in Nat
    BY DEF EvmInit
  <1> QED
    BY <1>1, <1>2, <1>3 DEF EvmInv, TxInv, Running

\* The invariant holds.
LEMMA EvmInvariant == EvmSpec => []EvmInv
  <1>1. EvmInit => EvmInv
    BY EvmStart
  <1>2. EvmInv /\ [EvmNext]_evmVars => EvmInv'
    BY EvmStep
  <1> QED
    BY <1>1, <1>2, PTL DEF EvmSpec

-----------------------------------------------------------------------------
(* What is proved of every chain of transactions.                          *)

\* Type correctness: balances and the collector are never negative, although
\* RefundGas subtracts from both what the ante handler put there
\* (gas.go:33-57), and a cache is a store at every stage.
THEOREM EvmTypeCorrect == EvmSpec => []EvmTypeOK
  <1>1. EvmInv => EvmTypeOK
    BY DEF EvmInv, TxInv, EvmTypeOK
  <1> QED
    BY <1>1, EvmInvariant, PTL

\* The transactions move the fee market's counters as FeeMarket says: each step
\* of the ante handlers, of EthereumTx and of the block's end is one of its
\* steps, or touches none of its state.  So all that is proved of the base fee
\* above holds of a chain that runs transactions.
THEOREM RefinesFeeMarket == EvmSpec => ImplementsFeeMarket
  <1>1. EvmInit => FeeInit
    BY DEF EvmInit
  <1>2. EvmInv /\ [EvmNext]_evmVars => [FeeNext]_feeVars
    BY EvmStep
  <1> QED
    BY <1>1, <1>2, EvmInvariant, PTL DEF EvmSpec, FeeSpec, ImplementsFeeMarket

\* Nobody is charged less than MinGasMultiplier says of the gas limit, nor more
\* than the limit (state_transition.go:359-375).
THEOREM ChargesFit == EvmSpec => []ChargedWithinLimits
  <1>1. EvmInv => ChargedWithinLimits
    BY DEF EvmInv, TxInv, ChargedWithinLimits, RunOK, ReceiptsFit, AboveMinimum
  <1> QED
    BY <1>1, EvmInvariant, PTL

\* The ways in which a transaction whose ante handler has passed can end.
LEMMA Ends ==
    ASSUME EvmInv, [EvmNext]_evmVars, EndsRun
    PROVE  \/ ~KeepsRun /\ UNCHANGED storeVars
           \/ KeepsRun /\ WriteCache(tx.cache)
  <1>0. /\ tx # NoTx /\ tx.stage = "run" /\ tx' = NoTx /\ phase = "txs"
    BY DEF EndsRun, Running, EvmInv, TxInv
  <1>1. CASE RefuseMessage \/ MessageErrors
    <2>1. Len(tx.receipts) < tx.count /\ UNCHANGED storeVars
      BY <1>1 DEF RefuseMessage, MessageErrors, FailTx
    <2>2. tx \in EthereumTxType
      BY <1>0, TxCases DEF EvmInv
    <2>3. Len(tx.receipts) # tx.count
      BY <2>1, <2>2, TxParts
    <2> QED
      BY <2>1, <2>3 DEF KeepsRun
  <1>2. CASE FinishTx
    BY <1>2 DEF FinishTx, FailTx, KeepsRun
  <1>3. ASSUME NEW used \in TxGas, NEW failed \in BOOLEAN, ApplyTransaction(used, failed)
        PROVE  FALSE
    <2>1. tx' \in EthereumTxType
      BY <1>3, ApplyStep
    <2> QED
      BY <1>0, <2>1, EvmTxAssumption DEF TxType
  <1>4. ~EvmBeginBlock /\ ~EvmEndBlock /\ \A p \in ParamSets : ~EvmUpdateParams(p)
    BY <1>0 DEF EvmBeginBlock, BeginBlock, EvmEndBlock, EvmUpdateParams
  <1>5. ~AnteDone /\ ~AnteFails /\ \A m \in Messages : ~AnteMessage(m)
    BY <1>0 DEF AnteDone, AnteFails, AnteMessage
  <1>6. /\ \A count \in 1 .. MaxMsgs, gas \in DeclaredGas : ~BeginTx(count, gas)
        /\ \A c \in CosmosTxs : ~CosmosAnte(c)
        /\ \A used \in TxGas : ~CosmosRun(used)
        /\ \A gas \in RejectedGas : ~RejectTx(gas)
    BY <1>0 DEF BeginTx, CosmosAnte, CosmosRun, RejectTx
  <1>7. ~UNCHANGED evmVars
    BY <1>0 DEF evmVars
  <1> QED
    BY <1>1, <1>2, <1>3, <1>4, <1>5, <1>6, <1>7 DEF EvmNext

\* When a transaction ends, what its senders and the collector have is what its
\* receipts say, and the gas limits if it failed (mono.go:246-258,
\* gas.go:33-57, state_transition.go:165-193).
THEOREM BooksBalance == EvmSpec => BooksMatchReceipts
  <1>1. EvmInv /\ [EvmNext]_evmVars
          => [EndsRun =>
                BooksAfter(EvmBaseFee, tx.before, tx.msgs,
                           IF KeepsRun THEN tx.receipts ELSE << >>,
                           [collector |-> collector', balance |-> balance'])]_evmVars
    <2> SUFFICES ASSUME EvmInv, [EvmNext]_evmVars, EndsRun
                 PROVE  BooksAfter(EvmBaseFee, tx.before, tx.msgs,
                                   IF KeepsRun THEN tx.receipts ELSE << >>,
                                   [collector |-> collector', balance |-> balance'])
      OBVIOUS
    <2> DEFINE fee == EvmBaseFee
               next == [collector |-> collector', balance |-> balance']
    <2>1. /\ BooksAfter(fee, tx.before, tx.msgs, << >>, Store)
          /\ BooksAfter(fee, tx.before, tx.msgs, tx.receipts, tx.cache)
      BY DEF EvmInv, TxInv, EndsRun, RunOK
    <2>2. next.collector = collector' /\ next.balance = balance'
      OBVIOUS
    <2>3. CASE ~KeepsRun /\ UNCHANGED storeVars
      <3>1. Store.collector = next.collector /\ Store.balance = next.balance
        BY <2>2, <2>3 DEF Store, storeVars
      <3> HIDE DEF fee, next
      <3>2. BooksAfter(fee, tx.before, tx.msgs, << >>, next)
        BY <2>1, <3>1 DEF BooksAfter
      <3> QED
        BY <2>3, <3>2 DEF fee, next
    <2>4. CASE KeepsRun /\ WriteCache(tx.cache)
      <3>1. tx.cache.collector = next.collector /\ tx.cache.balance = next.balance
        BY <2>2, <2>4 DEF WriteCache
      <3> HIDE DEF fee, next
      <3>2. BooksAfter(fee, tx.before, tx.msgs, tx.receipts, next)
        BY <2>1, <3>1 DEF BooksAfter
      <3> QED
        BY <2>4, <3>2 DEF fee, next
    <2> QED
      BY <2>3, <2>4, Ends
  <1> QED
    BY <1>1, EvmInvariant, PTL DEF EvmSpec, BooksMatchReceipts

\* A transaction whose ante handler has passed uses at least a nonce of each of
\* its senders and at most one for each message, whether or not the messages
\* succeed (10_increment_sequence.go:17-41, state_transition.go:315-319).
THEOREM NoncesUsed == EvmSpec => NonceUsed
  <1>1. EvmInv /\ [EvmNext]_evmVars
          => [EndsRun =>
                \A a \in Accounts :
                  IF SentBy(tx.msgs, a) = {} THEN nonce'[a] = tx.before.nonce[a]
                  ELSE /\ nonce'[a] > tx.before.nonce[a]
                       /\ nonce'[a] <= tx.before.nonce[a]
                                         + Cardinality(SentBy(tx.msgs, a))]_evmVars
    <2> SUFFICES ASSUME EvmInv, [EvmNext]_evmVars, EndsRun, NEW a \in Accounts
                 PROVE  IF SentBy(tx.msgs, a) = {} THEN nonce'[a] = tx.before.nonce[a]
                        ELSE /\ nonce'[a] > tx.before.nonce[a]
                             /\ nonce'[a] <= tx.before.nonce[a]
                                               + Cardinality(SentBy(tx.msgs, a))
      OBVIOUS
    <2>1. NoncesCount(tx, Store) /\ NoncesWithin(tx, tx.cache)
      BY DEF EvmInv, TxInv, EndsRun, RunOK
    <2>2. tx.msgs \in Seq(Messages) /\ tx.before \in Stores
      <3>1. tx \in EthereumTxType
        BY TxCases DEF EndsRun, Running, EvmInv
      <3> QED
        BY <3>1, TxParts
    <2>3. CASE UNCHANGED storeVars
      <3> DEFINE n == tx.before.nonce[a]
                 s == Sent(tx.msgs, a)
      <3>1. nonce'[a] = n + s
        BY <2>1, <2>3 DEF NoncesCount, Store, storeVars
      <3>2. n \in Nat
        BY <2>2, StoreParts
      <3>3. s \in Nat /\ (SentBy(tx.msgs, a) = {} <=> s = 0)
        BY <2>2, SentType
      <3>4. s = Cardinality(SentBy(tx.msgs, a))
        BY DEF Sent
      <3> HIDE DEF n, s
      <3> QED
        BY <3>1, <3>2, <3>3, <3>4 DEF n
    <2>4. CASE WriteCache(tx.cache)
      <3>1. nonce' = tx.cache.nonce
        BY <2>4 DEF WriteCache
      <3> QED
        BY <2>1, <3>1 DEF NoncesWithin, Sent
    <2> QED
      BY <2>3, <2>4, Ends
  <1> QED
    BY <1>1, EvmInvariant, PTL DEF EvmSpec, NonceUsed
-----------------------------------------------------------------------------
(* The gas used against the gas wanted.                                    *)

\* The gas used by the transactions that are counted: the others are rejected.
UsedByCounted == gasUsed - rejectedGas

\* The gas wanted by the block suffices for what it used and transaction t may
\* still use.
Room(used, wanted, t) ==
    /\ t = NoTx => used <= wanted
    /\ t # NoTx /\ t.stage = "ante" =>
         /\ used <= wanted
         /\ wanted <= t.cache.gasWanted
         /\ t.msgs # << >> => wanted + t.gas <= t.cache.gasWanted
    /\ t # NoTx /\ t.stage # "ante" => used + t.gas <= wanted

Provided ==
    phase = "txs" /\ IsBaseFeeEnabled(params, height) => Room(UsedByCounted, gasWanted, tx)

\* The step does not take the counter, or the counter in the cache, past 2^64:
\* it is never lower after a transaction than before.
CounterGrows ==
    /\ phase = "txs" /\ phase' = "txs" => gasWanted <= gasWanted'
    /\ tx # NoTx /\ tx' # NoTx /\ tx.stage = "ante"
         => tx.cache.gasWanted <= tx'.cache.gasWanted

\* An addition modulo 2^64 that does not lower the counter has not wrapped.
LEMMA CountedExactly ==
    ASSUME NEW w \in 0 .. MaxUint64, NEW gas \in 0 .. MaxUint64,
           IsBaseFeeEnabled(params, height), NEW v, v = CountedGas(w, gas), w <= v
    PROVE  v = w + gas
  <1>1. w \in 0 .. Word - 1 /\ gas \in 0 .. Word - 1 /\ Word \in Nat \ {0}
    BY FeeMarketAssumption DEF MaxUint64
  <1>2. v = (w + gas) % Word
    BY DEF CountedGas
  <1>3. CASE w + gas < Word
    <2>1. (w + gas) % Word = w + gas
      BY <1>1, <1>3, Z3
    <2> QED
      BY <1>2, <2>1
  <1>4. CASE w + gas >= Word
    <2>1. (w + gas) % Word = w + gas - Word
      BY <1>1, <1>4, Z3
    <2> QED
      BY <1>1, <1>2, <2>1
  <1> QED
    BY <1>1, <1>3, <1>4

\* The block gas meter takes no more than the gas it is given.
LEMMA TakesAtMost ==
    ASSUME gasUsed \in Nat, NEW gas \in Nat, TakeBlockGas(gas)
    PROVE  gasUsed' \in Nat /\ gasUsed' <= gasUsed + gas
  <1>1. MeterLimit \in Nat
    BY MeterLimitType, GasLimitType
  <1> QED
    BY <1>1 DEF TakeBlockGas, SmallerOf

\* While a block's transactions run, the base fee stays enabled or not.
LEMMA SameFee ==
    ASSUME phase = "txs", params' = params, height' = height, Provided,
           IsBaseFeeEnabled(params, height)'
    PROVE  IsBaseFeeEnabled(params, height) /\ Room(UsedByCounted, gasWanted, tx)
  BY DEF Provided, IsBaseFeeEnabled

\* A round of the ante handler's loop counts the gas of the transaction.
LEMMA RoomAnte ==
    ASSUME EvmInv, NEW m \in Messages, AnteMessage(m), CounterGrows,
           IsBaseFeeEnabled(params, height), Room(UsedByCounted, gasWanted, tx)
    PROVE  Room(UsedByCounted', gasWanted', tx')
  <1> DEFINE t == tx
             u == tx'
             c == t.cache
             d == u.cache
             w == c.gasWanted
             v == d.gasWanted
             g == t.gas
  <1>1. /\ t # NoTx /\ t.stage = "ante" /\ phase = "txs"
        /\ UsedByCounted' = UsedByCounted /\ gasWanted' = gasWanted
        /\ u = AfterMessage(t, m) /\ g <= BlockGasLimit
    BY DEF AnteMessage, feeVars, EvmInv, TxInv, AfterMessage, UsedByCounted
  <1>2. t \in EthereumTxType /\ u \in EthereumTxType /\ u # NoTx
    <2>1. u \in EthereumTxType
      BY AnteMessageStep
    <2> QED
      BY <1>1, <2>1, TxCases, EvmTxAssumption DEF EvmInv, TxType
  <1>3. w <= v
    BY <1>1, <1>2 DEF CounterGrows
  <1>4. UsedByCounted <= gasWanted /\ gasWanted <= w
    BY <1>1 DEF Room
  <1> HIDE DEF t, u
  <1>5. /\ c \in Stores /\ d \in Stores /\ d = Deducted(c, m, g)
        /\ u.stage = "ante" /\ u.gas = g /\ g \in Nat
    BY <1>1, <1>2, AfterMessageParts, TxParts
  <1> HIDE DEF c, d, g
  <1>6. w \in 0 .. MaxUint64 /\ v = CountedGas(w, g)
    <2>1. d.gasWanted = CountedGas(c.gasWanted, g)
      BY <1>5, DeductedCount
    <2>2. c.gasWanted \in 0 .. MaxUint64
      BY <1>5, StoreParts
    <2> QED
      BY <2>1, <2>2
  <1>7. g \in 0 .. MaxUint64 /\ MaxUint64 \in Nat
    <2>1. BlockGasLimit \in 0 .. MaxUint64 /\ MaxUint64 \in Nat
      BY BlockGasLimitType, GasLimitType
    <2> QED
      BY <1>1, <1>5, <2>1
  <1> HIDE DEF w, v
  <1>8. v = w + g
    BY <1>3, <1>6, <1>7, CountedExactly
  <1>9. gasWanted <= v /\ gasWanted + g <= v
    <2>1. w \in Nat /\ g \in Nat /\ gasWanted \in Nat
      BY <1>6, <1>7 DEF EvmInv, FeeTypeOK
    <2> QED
      BY <1>4, <1>8, <2>1
  <1>10. Room(UsedByCounted, gasWanted, u)
    BY <1>2, <1>4, <1>5, <1>9 DEF Room, v, d
  <1> QED
    BY <1>1, <1>10 DEF u

\* When the ante handler is over, the transaction's gas has been counted.
LEMMA RoomDone ==
    ASSUME EvmInv, AnteDone, Room(UsedByCounted, gasWanted, tx)
    PROVE  Room(UsedByCounted', gasWanted', tx')
  <1> DEFINE t == tx
             u == tx'
             v == t.cache.gasWanted
             g == t.gas
  <1>1. /\ t # NoTx /\ t.stage = "ante" /\ Len(t.msgs) = t.count
        /\ UsedByCounted' = UsedByCounted /\ gasWanted' = v
        /\ u = [t EXCEPT !.stage = "run"]
    BY DEF AnteDone, WriteCache, UsedByCounted
  <1>2. t \in EthereumTxType /\ u \in EthereumTxType /\ u # NoTx
    <2>1. u \in EthereumTxType
      BY AnteDoneStep
    <2> QED
      BY <1>1, <2>1, TxCases, EvmTxAssumption DEF EvmInv, TxType
  <1> HIDE DEF u
  <1>3. u.stage = "run" /\ u.gas = g
    BY <1>1, <1>2 DEF EthereumTxType
  <1>4. t.msgs # << >>
    <2>1. t.count \in Nat \ {0}
      BY <1>2, TxParts
    <2> QED
      BY <1>1, <2>1
  <1>5. UsedByCounted <= gasWanted /\ gasWanted + g <= v
    BY <1>1, <1>4 DEF Room
  <1>6. g \in Nat /\ v \in Nat /\ UsedByCounted \in Int /\ gasWanted \in Nat
    <2>1. t.gas \in Nat /\ t.cache \in Stores
      BY <1>2, TxParts
    <2>2. t.cache.gasWanted \in 0 .. MaxUint64
      BY <2>1, StoreParts
    <2> QED
      BY <2>1, <2>2 DEF EvmInv, FeeTypeOK, UsedByCounted
  <1> HIDE DEF t, v, g
  <1>7. UsedByCounted + g <= v
    BY <1>5, <1>6
  <1>8. Room(UsedByCounted, v, u)
    BY <1>2, <1>3, <1>7 DEF Room
  <1> QED
    BY <1>1, <1>8 DEF u

\* A transaction that ends has used no more than the gas that was counted.
LEMMA RoomEnd ==
    ASSUME EvmInv, tx # NoTx, tx.stage # "ante", Room(UsedByCounted, gasWanted, tx),
           NEW gas \in Nat, gas <= tx.gas, tx.gas \in Nat, TakeBlockGas(gas),
           gasWanted' = gasWanted, rejectedGas' = rejectedGas, tx' = NoTx
    PROVE  Room(UsedByCounted', gasWanted', tx')
  <1> DEFINE g == tx.gas
             used == UsedByCounted'
  <1>1. UsedByCounted + g <= gasWanted
    BY DEF Room
  <1>2. /\ gasUsed \in Nat /\ gasWanted \in Nat /\ rejectedGas \in Nat
        /\ UsedByCounted \in Int
    BY DEF EvmInv, FeeTypeOK, UsedByCounted
  <1>3. used \in Int /\ used <= UsedByCounted + gas
    <2>1. gasUsed' \in Nat /\ gasUsed' <= gasUsed + gas
      BY <1>2, TakesAtMost
    <2>2. /\ gasUsed' - rejectedGas \in Int
          /\ gasUsed' - rejectedGas <= (gasUsed - rejectedGas) + gas
      BY <1>2, <2>1, GrowsAtMost, Zenon
    <2> QED
      BY <2>2, Zenon DEF UsedByCounted
  <1>4. g \in Nat /\ gas <= g
    OBVIOUS
  <1> HIDE DEF g, used
  <1>5. used <= gasWanted
    BY <1>1, <1>2, <1>3, <1>4
  <1>6. Room(used, gasWanted, NoTx)
    BY <1>5 DEF Room
  <1> QED
    BY <1>6 DEF used

\* A Cosmos transaction is counted when its ante handler is over.
LEMMA RoomCosmos ==
    ASSUME EvmInv, NEW c \in CosmosTxs, CosmosAnte(c), CounterGrows,
           IsBaseFeeEnabled(params, height), Room(UsedByCounted, gasWanted, tx)
    PROVE  Room(UsedByCounted', gasWanted', tx')
  <1> DEFINE u == tx'
             w == gasWanted
             v == gasWanted'
             g == c.gas
  <1>1. /\ phase = "txs" /\ phase' = "txs" /\ tx = NoTx
        /\ u = [stage |-> "cosmos", gas |-> g, fee |-> c.fee]
        /\ UsedByCounted' = UsedByCounted /\ v = CountedGas(w, g) /\ g <= BlockGasLimit
    BY DEF CosmosAnte, UsedByCounted
  <1>2. g \in Nat /\ c.fee \in Nat
    BY EvmTxAssumption DEF CosmosTx
  <1>3. u # NoTx /\ u.stage = "cosmos" /\ u.gas = g
    <2>1. u \in CosmosTxType
      BY <1>1, <1>2 DEF CosmosTxType
    <2> QED
      BY <1>1, <2>1, EvmTxAssumption DEF TxType
  <1>4. w \in 0 .. MaxUint64 /\ UsedByCounted \in Int /\ UsedByCounted <= w
    BY <1>1 DEF EvmInv, FeeTypeOK, Room, UsedByCounted
  <1>5. g \in 0 .. MaxUint64 /\ MaxUint64 \in Nat
    <2>1. BlockGasLimit \in 0 .. MaxUint64 /\ MaxUint64 \in Nat
      BY BlockGasLimitType, GasLimitType
    <2> QED
      BY <1>1, <1>2, <2>1
  <1>6. w <= v
    BY <1>1 DEF CounterGrows
  <1> HIDE DEF u, w, v, g
  <1>7. v = w + g
    BY <1>1, <1>4, <1>5, <1>6, CountedExactly
  <1>8. UsedByCounted + g <= v
    BY <1>4, <1>5, <1>7
  <1>9. Room(UsedByCounted, v, u)
    BY <1>3, <1>8 DEF Room
  <1> QED
    BY <1>1, <1>9 DEF u, v

\* Each step keeps the room, as long as the counter does not wrap.
LEMMA ProvidedStep ==
    ASSUME EvmInv, Provided, [EvmNext]_evmVars, CounterGrows
    PROVE  Provided'
  <1> SUFFICES ASSUME phase' = "txs", IsBaseFeeEnabled(params, height)'
               PROVE  Room(UsedByCounted', gasWanted', tx')
    BY DEF Provided
  <1> DEFINE Same == phase = "txs" /\ params' = params /\ height' = height
             Kept == Same => IsBaseFeeEnabled(params, height) /\ Room(UsedByCounted, gasWanted, tx)
  <1>a. Kept
    BY SameFee
  <1>b. tx # NoTx => phase = "txs"
    BY DEF EvmInv, TxInv
  <1> HIDE DEF Kept
  <1>1. CASE EvmBeginBlock
    <2>1. UsedByCounted' = 0 /\ gasWanted' = 0 /\ tx' = tx /\ phase # "txs"
      BY <1>1 DEF EvmBeginBlock, BeginBlock, UsedByCounted
    <2> QED
      BY <1>b, <2>1 DEF Room
  <1>2. CASE EvmEndBlock \/ \E p \in ParamSets : EvmUpdateParams(p)
    BY <1>2 DEF EvmEndBlock, EndBlock, EvmUpdateParams, UpdateParams
  <1>3. ASSUME NEW count \in 1 .. MaxMsgs, NEW gas \in DeclaredGas, BeginTx(count, gas)
        PROVE  Room(UsedByCounted', gasWanted', tx')
    <2>1. /\ Same /\ tx = NoTx /\ UsedByCounted' = UsedByCounted /\ gasWanted' = gasWanted
          /\ tx'.stage = "ante" /\ tx'.msgs = << >>
          /\ tx'.cache = [Store EXCEPT !.txGasUsed = 0]
      BY <1>3 DEF BeginTx, feeVars, UsedByCounted
    <2>2. tx'.cache.gasWanted = gasWanted
      BY <2>1 DEF Store
    <2>3. UsedByCounted <= gasWanted
      BY <1>a, <2>1 DEF Kept, Room
    <2>4. tx' \in EthereumTxType
      BY <1>3, BeginTxStep
    <2>5. tx' # NoTx /\ gasWanted \in Nat
      BY <2>4, EvmTxAssumption DEF TxType, EvmInv, FeeTypeOK
    <2> QED
      BY <2>1, <2>2, <2>3, <2>5 DEF Room
  <1>4. ASSUME NEW m \in Messages, AnteMessage(m)
        PROVE  Room(UsedByCounted', gasWanted', tx')
    <2>1. Same
      BY <1>4, <1>b DEF AnteMessage, feeVars
    <2> QED
      BY <1>4, <1>a, <2>1, RoomAnte DEF Kept
  <1>5. CASE AnteDone
    <2>1. Same
      BY <1>5, <1>b DEF AnteDone
    <2> QED
      BY <1>5, <1>a, <2>1, RoomDone DEF Kept
  <1>6. CASE AnteFails
    <2>1. /\ Same /\ tx # NoTx /\ tx.stage = "ante" /\ tx' = NoTx
          /\ UsedByCounted' = UsedByCounted /\ gasWanted' = gasWanted
      BY <1>6, <1>b DEF AnteFails, feeVars, UsedByCounted
    <2> QED
      BY <1>a, <2>1 DEF Kept, Room
  <1>7. ASSUME Running, NEW gas \in {tx.meter, tx.gas}, TakeBlockGas(gas), tx' = NoTx,
               gasWanted' = gasWanted, rejectedGas' = rejectedGas,
               params' = params, height' = height
        PROVE  Room(UsedByCounted', gasWanted', tx')
    <2>1. /\ tx.meter \in Nat /\ tx.gas \in Nat /\ tx.meter <= tx.gas
      BY <1>7, RunFacts
    <2>2. tx # NoTx /\ tx.stage # "ante" /\ Room(UsedByCounted, gasWanted, tx)
      BY <1>7, <1>a, <1>b DEF Running, Kept
    <2>3. gas \in Nat /\ gas <= tx.gas
      BY <2>1
    <2> QED
      BY <1>7, <2>1, <2>2, <2>3, RoomEnd
  <1>8. CASE RefuseMessage \/ MessageErrors
    <2>1. Running /\ \E gas \in {tx.meter, tx.gas} : FailTx(gas)
      BY <1>8 DEF RefuseMessage, MessageErrors
    <2> QED
      BY <1>7, <2>1 DEF FailTx
  <1>9. CASE FinishTx
    <2>1. /\ Running /\ TakeBlockGas(tx.meter) /\ tx' = NoTx
          /\ params' = params /\ height' = height /\ rejectedGas' = rejectedGas
          /\ gasWanted' = gasWanted \/ gasWanted' = tx.cache.gasWanted
      BY <1>9 DEF FinishTx, FailTx, WriteCache
    <2>2. tx.cache.gasWanted = gasWanted
      BY <2>1 DEF EvmInv, TxInv, RunOK, Store
    <2> QED
      BY <1>7, <2>1, <2>2
  <1>10. ASSUME NEW used \in TxGas, NEW failed \in BOOLEAN, ApplyTransaction(used, failed)
         PROVE  Room(UsedByCounted', gasWanted', tx')
    <2> DEFINE t == tx
               u == tx'
    <2>1. /\ Same /\ t # NoTx /\ t.stage = "run"
          /\ UsedByCounted' = UsedByCounted /\ gasWanted' = gasWanted
      BY <1>10, <1>b DEF ApplyTransaction, Running, feeVars, UsedByCounted
    <2>2. Room(UsedByCounted, gasWanted, t)
      BY <1>a, <2>1 DEF Kept
    <2>3. t \in EthereumTxType /\ u \in EthereumTxType /\ u # NoTx
      <3>1. u \in EthereumTxType
        BY <1>10, ApplyStep
      <3> QED
        BY <2>1, <3>1, TxCases, EvmTxAssumption DEF EvmInv, TxType
    <2>5. u.stage = t.stage /\ u.gas = t.gas
      BY <1>10, <2>1, ApplyStep
    <2> HIDE DEF t, u
    <2>6. Room(UsedByCounted, gasWanted, u)
      BY <2>1, <2>2, <2>3, <2>5 DEF Room
    <2> QED
      BY <2>1, <2>6 DEF u
  <1>11. ASSUME NEW c \in CosmosTxs, CosmosAnte(c)
         PROVE  Room(UsedByCounted', gasWanted', tx')
    <2>1. Same
      BY <1>11 DEF CosmosAnte
    <2> QED
      BY <1>11, <1>a, <2>1, RoomCosmos DEF Kept
  <1>12. ASSUME NEW used \in TxGas, CosmosRun(used)
         PROVE  Room(UsedByCounted', gasWanted', tx')
    <2>1. /\ Same /\ tx # NoTx /\ tx.stage = "cosmos" /\ used \in 1 .. tx.gas
          /\ TakeBlockGas(used) /\ tx' = NoTx /\ gasWanted' = gasWanted
          /\ rejectedGas' = rejectedGas
      BY <1>12, <1>b DEF CosmosRun
    <2>2. tx.gas \in Nat
      <3>1. tx \in CosmosTxType
        BY <2>1, TxCases DEF EvmInv
      <3> QED
        BY <3>1 DEF CosmosTxType
    <2>3. used \in Nat /\ used <= tx.gas
      BY <2>1, <2>2
    <2> QED
      BY <1>a, <2>1, <2>2, <2>3, RoomEnd DEF Kept
  <1>13. ASSUME NEW gas \in RejectedGas, RejectTx(gas)
         PROVE  Room(UsedByCounted', gasWanted', tx')
    <2>1. /\ Same /\ tx = NoTx /\ tx' = NoTx /\ gasWanted' = gasWanted
          /\ ~BlockIsFull /\ TakeBlockGas(gas)
          /\ rejectedGas' = rejectedGas + (gasUsed' - gasUsed)
      BY <1>13 DEF RejectTx
    <2>2. gas \in Nat /\ rejectedGas \in Nat /\ FeeTypeOK
      BY <1>13, EvmTxAssumption, GasLimitType DEF EvmInv
    <2>3. gasUsed \in Nat /\ gasUsed' \in Nat
      BY <2>1, <2>2, TakesGas
    <2>4. UsedByCounted' = UsedByCounted
      <3>1. gasUsed' - (rejectedGas + (gasUsed' - gasUsed)) = gasUsed - rejectedGas
        BY <2>2, <2>3, AddsDifference, Zenon
      <3> QED
        BY <2>1, <3>1, Zenon DEF UsedByCounted
    <2>5. UsedByCounted <= gasWanted
      BY <1>a, <2>1 DEF Kept, Room
    <2> QED
      BY <2>1, <2>4, <2>5 DEF Room
  <1>14. CASE UNCHANGED evmVars
    <2>1. /\ UsedByCounted' = UsedByCounted /\ gasWanted' = gasWanted /\ tx' = tx /\ Same
      BY <1>14 DEF evmVars, feeVars, UsedByCounted
    <2> QED
      BY <1>a, <2>1 DEF Kept
  <1> QED
    BY <1>1, <1>2, <1>3, <1>4, <1>5, <1>6, <1>8, <1>9, <1>10, <1>11, <1>12, <1>13, <1>14
       DEF EvmNext

\* While the base fee is enabled a block uses no more gas than it was counted to
\* want, but for what rejected transactions have taken, and no message more than
\* its limit (11_gas_wanted.go:48-82 against state_transition.go:204-210).  The
\* counter is a uint64 that the code adds to unchecked; CounterGrows says that it
\* has not wrapped.
THEOREM GasWithin == EvmSpec /\ [][CounterGrows]_evmVars => []GasWithinLimits
  <1>1. EvmInit => Provided
    BY DEF EvmInit, FeeInit, Provided
  <1>2. EvmInv /\ Provided /\ [EvmNext]_evmVars /\ [CounterGrows]_evmVars => Provided'
    <2>1. ASSUME EvmInv, Provided, [EvmNext]_evmVars, CounterGrows
          PROVE  Provided'
      BY <2>1, ProvidedStep
    <2>2. ASSUME Provided, UNCHANGED evmVars
          PROVE  Provided'
      BY <2>2 DEF Provided, evmVars, feeVars, UsedByCounted
    <2> QED
      BY <2>1, <2>2
  <1>3. EvmInv /\ Provided => UsedWithinWanted
    <2> SUFFICES ASSUME EvmInv, Provided, phase = "txs", tx = NoTx,
                        IsBaseFeeEnabled(params, height)
                 PROVE  gasUsed <= gasWanted + rejectedGas
      BY DEF UsedWithinWanted
    <2>1. gasUsed \in Nat /\ gasWanted \in Nat /\ rejectedGas \in Nat
      BY DEF EvmInv, FeeTypeOK
    <2>2. gasUsed - rejectedGas <= gasWanted
      BY DEF Provided, Room, UsedByCounted
    <2> QED
      BY <2>1, <2>2
  <1>4. UsedWithinWanted /\ ChargedWithinLimits => GasWithinLimits
    BY DEF GasWithinLimits
  <1> QED
    BY <1>1, <1>2, <1>3, <1>4, EvmInvariant, ChargesFit, PTL DEF EvmSpec
=============================================================================
