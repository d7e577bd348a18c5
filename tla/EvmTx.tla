------------------------------- MODULE EvmTx -------------------------------
(***************************************************************************)
(* The life of a transaction within a block: what the ante handlers take,  *)
(* what the execution of its messages gives back, and what is left of both *)
(* when it fails.  Extends FeeMarket, whose counters it moves.             *)
(*                                                                         *)
(* As in baseapp.runTx, a stage works on a cache of the state, which is    *)
(* written when the stage is over and dropped when it fails: the ante      *)
(* handler's writes stay when the messages fail.  A transaction is either  *)
(* one of Ethereum messages (stages "ante" and "run") or a Cosmos one      *)
(* (stage "cosmos", after its ante handler).                               *)
(*                                                                         *)
(* Left out: the gate (module TxGate), of which RefuseMessage is the       *)
(* outcome, vesting locks and the rewards claimed to pay fees.             *)
(***************************************************************************)
EXTENDS FeeMarket, Sequences, FiniteSets, Functions

CONSTANTS
    Accounts,         \* externally owned accounts
    Messages,         \* the Ethereum messages offered
    CosmosTxs,        \* the Cosmos transactions offered
    DeclaredGas,      \* the gas that transactions of messages declare
    RejectedGas,      \* the gas that a Cosmos transaction has used when its
                      \* ante handler rejects it
    Intrinsic,        \* the gas a message costs before it runs
    GenesisBalance,   \* of every account
    MaxMsgs,          \* bound: the messages of a transaction
    NoTx

VARIABLES
    balance,          \* account -> its spendable coins
    nonce,            \* account -> its sequence
    collector,        \* the balance of the fee collector
    txGasUsed,        \* KeyPrefixTransientGasUsed
    tx,               \* the transaction being delivered, or NoTx
    rejectedGas       \* observed: the gas of the block that rejected Cosmos
                      \* transactions have taken

storeVars == <<balance, nonce, collector, txGasUsed>>
evmVars == <<feeVars, storeVars, tx, rejectedGas>>

-----------------------------------------------------------------------------
\* A dynamic fee message has a cap and a tip; one with a gas price has it for
\* both.  "to" is the recipient of a call.
Message == [from : Accounts, nonce : Nat, gas : Nat, cap : Nat, tip : Nat,
            kind : {"call", "create"}, value : Nat, to : Accounts]

CosmosTx == [from : Accounts, gas : Nat, fee : Nat, tip : Nat]

Stores == [balance : [Accounts -> Nat], nonce : [Accounts -> Nat],
           collector : Nat, txGasUsed : Nat, gasWanted : 0 .. MaxUint64]

Receipt == [gas : Nat, failed : BOOLEAN]

EthereumTxType ==
    [stage : {"ante", "run"}, count : 1 .. MaxMsgs, gas : Nat,
     msgs : Seq(Messages), cache : Stores, before : Stores,
     receipts : Seq(Receipt), meter : Nat]

CosmosTxType == [stage : {"cosmos"}, gas : Nat, fee : Nat]

TxType == EthereumTxType \cup CosmosTxType

\* Any gas that fits the counters may be wanted, and nobody offers a price
\* above HighestCap: so the transactions are among those of FeeMarket.
ASSUME EvmTxAssumption ==
    /\ Messages \subseteq Message
    /\ \A m \in Messages : m.cap <= HighestCap
    /\ CosmosTxs \subseteq CosmosTx
    /\ \A c \in CosmosTxs : c.gas > 0 /\ c.fee \div c.gas <= HighestCap
    /\ TxGas = 0 .. MaxUint64
    /\ DeclaredGas \subseteq Nat
    /\ RejectedGas \subseteq TxGas
    /\ Intrinsic \in Nat
    /\ GenesisBalance \in Nat
    /\ MaxMsgs \in Nat
    /\ NoTx \notin TxType

\* The state that a cache starts from.
Store == [balance |-> balance, nonce |-> nonce, collector |-> collector,
          txGasUsed |-> txGasUsed, gasWanted |-> gasWanted]

WriteCache(c) ==
    /\ balance' = c.balance
    /\ nonce' = c.nonce
    /\ collector' = c.collector
    /\ txGasUsed' = c.txGasUsed
    /\ gasWanted' = c.gasWanted

EffectiveGasPrice(baseFee, m) == SmallerOf(m.tip + baseFee, m.cap)

Price(m) == EffectiveGasPrice(EvmBaseFee, m)

\* types.BlockGasLimit
BlockGasLimit == IF MaxGas = -1 THEN MaxUint64 ELSE MaxGas

\* Variant: the base fee need not be enabled.
CountedGasAlways(wanted, gas) == (wanted + gas) % Word

\* CheckGasWanted: the transient counter with the gas of a transaction added.
CountedGas(wanted, gas) ==
    IF IsBaseFeeEnabled(params, height) THEN (wanted + gas) % Word ELSE wanted

TotalGas(msgs) == SumFunction([i \in DOMAIN msgs |-> msgs[i].gas])

-----------------------------------------------------------------------------
EvmInit ==
    /\ FeeInit
    /\ balance = [a \in Accounts |-> GenesisBalance]
    /\ nonce = [a \in Accounts |-> 0]
    /\ collector = 0
    /\ txGasUsed = 0
    /\ tx = NoTx
    /\ rejectedGas = 0

\* The distribution module's BeginBlock takes what is in the collector.
EvmBeginBlock ==
    /\ BeginBlock
    /\ collector' = 0
    /\ txGasUsed' = 0
    /\ rejectedGas' = 0
    /\ UNCHANGED <<balance, nonce, tx>>

EvmEndBlock ==
    /\ tx = NoTx
    /\ EndBlock
    /\ UNCHANGED <<storeVars, tx, rejectedGas>>

EvmUpdateParams(p) ==
    /\ tx = NoTx
    /\ UpdateParams(p)
    /\ UNCHANGED <<storeVars, tx, rejectedGas>>

\* Variant: the gas used by the transaction before is not reset.
BeginTxWithoutReset(count, gas) ==
    /\ phase = "txs"
    /\ tx = NoTx
    /\ ~BlockIsFull
    /\ tx' = [stage |-> "ante", count |-> count, gas |-> gas, msgs |-> << >>,
              cache |-> Store, before |-> Store, receipts |-> << >>, meter |-> 0]
    /\ UNCHANGED <<feeVars, storeVars, rejectedGas>>

\* A transaction of count messages, which declares gas in its fee.  The ante
\* handler first resets the gas used by the transaction (SetupContext).
BeginTx(count, gas) ==
    /\ phase = "txs"
    /\ tx = NoTx
    /\ ~BlockIsFull
    /\ tx' = [stage |-> "ante", count |-> count, gas |-> gas, msgs |-> << >>,
              cache |-> [Store EXCEPT !.txGasUsed = 0], before |-> Store,
              receipts |-> << >>, meter |-> 0]
    /\ UNCHANGED <<feeVars, storeVars, rejectedGas>>

\* VerifyAccountBalance: the cost at the cap.
CanPay(c, m) == c.balance[m.from] >= m.cap * m.gas + m.value

\* What the loop writes for a message: the fee goes to the collector, the nonce
\* is used and the gas of the whole transaction is counted as wanted.
Deducted(c, m, gas) ==
    [c EXCEPT !.balance[m.from] = @ - Price(m) * m.gas,
              !.collector = @ + Price(m) * m.gas,
              !.nonce[m.from] = @ + 1,
              !.gasWanted = CountedGas(@, gas)]

\* One round of the mono decorator's loop, for a message that passes: the
\* global minimum price, the balance for the cost at the cap, the base fee
\* and the nonce.
AnteMessage(m) ==
    /\ tx # NoTx
    /\ tx.stage = "ante"
    /\ Len(tx.msgs) < tx.count
    /\ Unit * Price(m) * m.gas >= params.minGasPrice * m.gas
    /\ CanPay(tx.cache, m)
    /\ m.cap >= EvmBaseFee
    /\ m.nonce = tx.cache.nonce[m.from]
    /\ tx.gas <= BlockGasLimit
    /\ tx' = [tx EXCEPT !.msgs = Append(@, m), !.cache = Deducted(@, m, tx.gas)]
    /\ UNCHANGED <<feeVars, storeVars, rejectedGas>>

\* The rest of the ante handler: the declared gas is the sum of the messages',
\* and within the limit of a block.
AnteDone ==
    /\ tx # NoTx
    /\ tx.stage = "ante"
    /\ Len(tx.msgs) = tx.count
    /\ tx.gas = TotalGas(tx.msgs)
    /\ tx.gas <= BlockGasLimit
    /\ WriteCache(tx.cache)
    /\ tx' = [tx EXCEPT !.stage = "run"]
    /\ UNCHANGED <<params, blockGas, gasUsed, height, phase, updates, rejectedGas>>

\* A check of the ante handler fails, one of AnteMessage's, AnteDone's or one
\* that is left out (a signature): its writes are dropped.
AnteFails ==
    /\ tx # NoTx
    /\ tx.stage = "ante"
    /\ tx' = NoTx
    /\ UNCHANGED <<feeVars, storeVars, rejectedGas>>

-----------------------------------------------------------------------------
Running == tx # NoTx /\ tx.stage = "run"

Current == tx.msgs[Len(tx.receipts) + 1]

\* The end of a transaction, with the gas of its meter: the block gas meter
\* takes it, up to its limit.
TakeBlockGas(gas) == gasUsed' = SmallerOf(gasUsed + gas, MeterLimit)

FitsBlock(gas) == MaxGas > 0 => gasUsed + gas <= MaxGas

\* The transaction's messages come to nothing; what the ante handler wrote
\* stays.
FailTx(gas) ==
    /\ TakeBlockGas(gas)
    /\ tx' = NoTx
    /\ UNCHANGED <<params, blockGas, gasWanted, height, phase, updates>>
    /\ UNCHANGED <<storeVars, rejectedGas>>

\* EthereumTx returns before ApplyTransaction: the chain is closed or the
\* wallet locked.  The meter is left as it is.
RefuseMessage ==
    /\ Running
    /\ Len(tx.receipts) < tx.count
    /\ FailTx(tx.meter)

\* ApplyMessage fails, because the gas is less than the intrinsic gas or the
\* state cannot be written: the meter takes the gas of the whole transaction.
MessageErrors ==
    /\ Running
    /\ Len(tx.receipts) < tx.count
    /\ FailTx(tx.gas)

\* Variant: what is charged is the gas that was used.
ChargedUsed(m, used) == used

\* Gas is charged for the part of the limit that MinGasMultiplier says.
Charged(m, used) == LargerOf((m.gas * params.minGasMultiplier) \div Unit, used)

\* Variant: the nonce of a deployment is the message's own.
ExecutedSameNonce(c, m) ==
    LET paid == [c EXCEPT !.balance[m.from] = @ - m.value] IN
    IF m.kind = "call"
      THEN [paid EXCEPT !.balance[m.to] = @ + m.value]
      ELSE [paid EXCEPT !.nonce[m.from] = m.nonce]

\* The state after a message has run: the value has moved (to the new
\* contract, for a deployment), and a deployment has set the sender's nonce.
Executed(c, m) ==
    LET paid == [c EXCEPT !.balance[m.from] = @ - m.value] IN
    IF m.kind = "call"
      THEN [paid EXCEPT !.balance[m.to] = @ + m.value]
      ELSE [paid EXCEPT !.nonce[m.from] = m.nonce + 1]

\* Variant: the gas left over is returned at the price offered.
RefundedAtCap(c, m, charged) ==
    [c EXCEPT !.balance[m.from] = @ + (m.gas - charged) * m.cap,
              !.collector = @ - (m.gas - charged) * m.cap]

\* RefundGas
Refunded(c, m, charged) ==
    [c EXCEPT !.balance[m.from] = @ + (m.gas - charged) * Price(m),
              !.collector = @ - (m.gas - charged) * Price(m)]

\* ApplyTransaction: the virtual machine uses some gas and may fail, which
\* drops what the message did but not the transaction.
ApplyTransaction(used, failed) ==
    /\ Running
    /\ Len(tx.receipts) < tx.count
    /\ LET m == Current
           charged == Charged(m, used)
           ran == IF failed THEN tx.cache ELSE Executed(tx.cache, m)
           settled == Refunded(ran, m, charged)
       IN /\ used \in Intrinsic .. m.gas
          /\ failed \/ tx.cache.balance[m.from] >= m.value
          /\ settled.collector >= 0
          /\ tx' = [tx EXCEPT
                      !.cache = [settled EXCEPT !.txGasUsed = @ + charged],
                      !.meter = tx.cache.txGasUsed + charged,
                      !.receipts = Append(@, [gas |-> charged, failed |-> failed])]
    /\ UNCHANGED <<feeVars, storeVars, rejectedGas>>

\* All messages have run.  When the block's gas does not suffice, what they
\* did is dropped after all.
FinishTx ==
    /\ Running
    /\ Len(tx.receipts) = tx.count
    /\ \/ /\ FitsBlock(tx.meter)
          /\ TakeBlockGas(tx.meter)
          /\ WriteCache(tx.cache)
          /\ tx' = NoTx
          /\ UNCHANGED <<params, blockGas, height, phase, updates, rejectedGas>>
       \/ /\ ~FitsBlock(tx.meter)
          /\ FailTx(tx.meter)

-----------------------------------------------------------------------------
\* The ante handler of a Cosmos transaction: the fee over the gas, rounded
\* down, is its cap, and what is deducted is the effective price of its gas.
CosmosAnte(c) ==
    LET price == SmallerOf(EvmBaseFee + c.tip, c.fee \div c.gas) IN
    /\ phase = "txs"
    /\ tx = NoTx
    /\ ~BlockIsFull
    /\ c.fee \div c.gas >= EvmBaseFee
    /\ Unit * c.fee >= params.minGasPrice * c.gas
    /\ balance[c.from] >= price * c.gas
    /\ c.gas <= BlockGasLimit
    /\ balance' = [balance EXCEPT ![c.from] = @ - price * c.gas]
    /\ collector' = collector + price * c.gas
    /\ nonce' = [nonce EXCEPT ![c.from] = @ + 1]
    /\ gasWanted' = CountedGas(gasWanted, c.gas)
    /\ tx' = [stage |-> "cosmos", gas |-> c.gas, fee |-> c.fee]
    /\ UNCHANGED <<params, blockGas, gasUsed, height, phase, updates>>
    /\ UNCHANGED <<txGasUsed, rejectedGas>>

\* Its messages, and after them the post handler, which burns the fee that the
\* transaction names, as far as the collector has it.
CosmosRun(used) ==
    /\ tx # NoTx
    /\ tx.stage = "cosmos"
    /\ used \in 1 .. tx.gas
    /\ TakeBlockGas(used)
    /\ \/ /\ FitsBlock(used)
          /\ collector' = collector - SmallerOf(tx.fee, collector)
       \/ UNCHANGED collector
    /\ tx' = NoTx
    /\ UNCHANGED <<params, blockGas, gasWanted, height, phase, updates>>
    /\ UNCHANGED <<balance, nonce, txGasUsed, rejectedGas>>

\* The ante handler of a Cosmos transaction fails, in one of the checks of
\* CosmosAnte or in one that is left out: its writes are dropped, the counter
\* of the gas wanted among them, but baseapp's deferred consumeBlockGas still
\* takes what the meter has by then.  That is some part of the limit, or, when
\* the handler fails before SetUpContext has made a meter for the transaction,
\* what the block's own has.  (An Ethereum transaction that fails after its
\* SetupContext has a new meter that has counted nothing: AnteFails.)
RejectTx(gas) ==
    /\ phase = "txs"
    /\ tx = NoTx
    /\ ~BlockIsFull
    /\ EvmBaseFee <= MaxPrice
    /\ TakeBlockGas(gas)
    /\ rejectedGas' = rejectedGas + (gasUsed' - gasUsed)
    /\ UNCHANGED <<params, blockGas, gasWanted, height, phase, updates>>
    /\ UNCHANGED <<storeVars, tx>>

EvmNext ==
    \/ EvmBeginBlock
    \/ EvmEndBlock
    \/ \E p \in ParamSets : EvmUpdateParams(p)
    \/ \E count \in 1 .. MaxMsgs, gas \in DeclaredGas : BeginTx(count, gas)
    \/ \E m \in Messages : AnteMessage(m)
    \/ AnteDone
    \/ AnteFails
    \/ RefuseMessage
    \/ MessageErrors
    \/ \E used \in TxGas, failed \in BOOLEAN : ApplyTransaction(used, failed)
    \/ FinishTx
    \/ \E c \in CosmosTxs : CosmosAnte(c)
    \/ \E used \in TxGas : CosmosRun(used)
    \/ \E gas \in RejectedGas : RejectTx(gas)

EvmSpec == EvmInit /\ [][EvmNext]_evmVars

-----------------------------------------------------------------------------
EvmTypeOK ==
    /\ FeeTypeOK
    /\ Store \in Stores
    /\ tx \in TxType \cup {NoTx}
    /\ rejectedGas \in Nat

\* The step that ends a transaction whose ante handler has passed.
EndsRun == Running /\ tx' = NoTx

\* It keeps what its messages did.
KeepsRun == Len(tx.receipts) = tx.count /\ FitsBlock(tx.meter)

SentBy(msgs, a) == {i \in DOMAIN msgs : msgs[i].from = a}
CallsTo(msgs, a) == {i \in DOMAIN msgs : msgs[i].kind = "call" /\ msgs[i].to = a}

\* What each message has paid for gas, when those that are settled pay what
\* their receipts say and the others their limits, and the value it has moved.
GasPaid(baseFee, msgs, settled) ==
    [i \in DOMAIN msgs |->
       (IF i \in DOMAIN settled THEN settled[i].gas ELSE msgs[i].gas)
         * EffectiveGasPrice(baseFee, msgs[i])]
ValueMoved(msgs, settled) ==
    [i \in DOMAIN msgs |->
       IF i \in DOMAIN settled /\ ~settled[i].failed THEN msgs[i].value ELSE 0]

\* What an account has left of its balance.
BalanceAfter(baseFee, balanceBefore, msgs, settled, a) ==
    balanceBefore
      - SumFunctionOnSet(GasPaid(baseFee, msgs, settled), SentBy(msgs, a))
      - SumFunctionOnSet(ValueMoved(msgs, settled), SentBy(msgs, a))
      + SumFunctionOnSet(ValueMoved(msgs, settled), CallsTo(msgs, a))

\* The books that a store must have after messages, from those before.
BooksAfter(baseFee, before, msgs, settled, store) ==
    /\ store.collector
         = before.collector + SumFunction(GasPaid(baseFee, msgs, settled))
    /\ \A a \in Accounts :
         store.balance[a]
           = BalanceAfter(baseFee, before.balance[a], msgs, settled, a)

\* The books agree with the receipts: a transaction that is kept costs each
\* sender the gas its messages are charged, at the effective price, and the
\* values that moved; one that fails costs the gas limits; and the collector
\* has what the senders paid for gas (mono.go:246-258, gas.go:33-57 and the
\* caches of state_transition.go:165-193).
BooksMatchReceipts ==
    [][ EndsRun =>
          BooksAfter(EvmBaseFee, tx.before, tx.msgs,
                     IF KeepsRun THEN tx.receipts ELSE << >>,
                     [collector |-> collector', balance |-> balance']) ]_evmVars

\* Whatever happens to the messages, a transaction whose ante handler has
\* passed uses a nonce of each of its senders, so that it cannot be delivered
\* again as it is, and no more than it has messages of the sender
\* (10_increment_sequence.go:17-41, state_transition.go:315-319).
NonceUsed ==
    [][ EndsRun =>
          \A a \in Accounts :
            IF SentBy(tx.msgs, a) = {} THEN nonce'[a] = tx.before.nonce[a]
            ELSE /\ nonce'[a] > tx.before.nonce[a]
                 /\ nonce'[a] <= tx.before.nonce[a] + Cardinality(SentBy(tx.msgs, a))
      ]_evmVars

\* While the base fee is enabled, the block never uses more gas than its
\* transactions were counted to want, but for what the rejected ones have
\* taken, which nothing counts (11_gas_wanted.go:48-82 against
\* state_transition.go:204-210, which sums the gas of a transaction in a
\* counter that the ante handler resets).
UsedWithinWanted ==
    phase = "txs" /\ tx = NoTx /\ IsBaseFeeEnabled(params, height)
        => gasUsed <= gasWanted + rejectedGas

\* Nobody is charged less than the part of the gas limit that MinGasMultiplier
\* says, nor more than the limit (state_transition.go:359-375).
ChargedWithinLimits ==
    Running => \A i \in DOMAIN tx.receipts :
                 /\ tx.receipts[i].gas <= tx.msgs[i].gas
                 /\ Unit * (tx.receipts[i].gas + 1)
                      > params.minGasMultiplier * tx.msgs[i].gas

\* The three accounts that the code keeps of gas agree: what the block used
\* against what it wanted, and what each message is charged against its limit.
GasWithinLimits == UsedWithinWanted /\ ChargedWithinLimits

\* The transactions move the fee market's counters as FeeMarket says.
ImplementsFeeMarket == FeeSpec

\* Refuted by TLC when the run's cfg names it:
\* "they'll be accepted", 10_increment_sequence.go:25, and "increase sender's
\* nonce by one no matter the result", state_transition.go:316.
NonceCountsMessages ==
    [][ EndsRun =>
          \A a \in Accounts :
            nonce'[a] = tx.before.nonce[a] + Cardinality(SentBy(tx.msgs, a)) ]_evmVars
=============================================================================
