# A verification development for nexqloud-chain

nexqloud-chain (`nxqd`) is a Cosmos SDK 0.47 chain with an EVM, a fork of Evmos
v19.  Its own additions are a halving of the daily emission, a gate in front of
every Ethereum message (an "online server" count and wallet locks, both asked
from contracts) and a gate in front of validators.  This directory holds TLA+
models of the parts of it where orders of events, failures and arithmetic at
boundaries matter, the TLC configurations that check them on small instances,
and proofs of the main results for every value of the constants.

Every definition translates code under `src/`; `PROJECT.json` maps each one to
the lines it stands for.  What the models take from the Cosmos SDK or CometBFT
(caches of `baseapp`, the bank) is marked external there.

## 1. The system and its parts

| Part | State | Operations | What is hard |
|---|---|---|---|
| epochs (`x/epochs`) | per identifier: number, start time, started | BeginBlocker ticks each identifier and calls hooks; genesis export/import | catch-up of one epoch per block after an outage; the hook gets the *next* number |
| inflation (`x/inflation/v1`) | halving data, legacy period and provision, skipped epochs, parameters | daily hook: skip, refuse, or mint and send; parameter updates; genesis | a sequence of refused days, parameter changes and halvings; panics in BeginBlock |
| transaction gate (`x/evm/keeper/msg_server.go`) | two maps of the *process*, shared by deliveries and simulations | IsChainOpen, IsWalletUnlocked | check then act across a contract call; roll-backs that do not undo the maps; restarts |
| fee market (`x/feemarket`) | base fee (a parameter), gas record of the last block, transient sum | BeginBlock, EndBlock, counting of wanted gas, parameter updates | truncating arithmetic, boundaries at zero and at int64/uint64, order of EndBlockers |
| Ethereum transactions (`app/ante/evm`, `x/evm/keeper`) | balances, sequences, fee collector, transient gas | ante handler, ApplyTransaction, gas refund, burning of Cosmos fees | partial failure: stages that are kept while later ones are dropped; two messages in one transaction |
| StateDB (`x/evm/statedb`) | objects, journal, revisions, access list, refund counter, a cached store for precompiles | everything the EVM asks of the state; Snapshot, Revert, Commit | undoing in the right order; two representations of balances; failing calls in the middle |
| precompiles (`precompiles/*`) | the cached store of the StateDB, authorisations, code hashes of the ERC-20 precompiles | RunSetup, the methods, AddJournalEntries; approve, transferFrom; registration | balances changed behind the EVM's back; one authorisation for the allowances of all tokens |
| RPC event system (`rpc/.../filters`, `rpc/ethereum/pubsub`) | index of subscriptions, topics, channels, filters with deadlines | subscribe, install/uninstall, publish, poll, time-out | goroutines that look up under one lock and act under another |
| staking gate (`x/staking/keeper`) | none of its own; asks contracts | approval, NFT count, minimum self-delegation of a validator; unvested coins of delegations | error paths |
| vesting (`x/vesting`) | clawback accounts with lockup and vesting schedules, accounts exempt from votes, accounts with an active proposal | create, fund, claw back, change the funder, convert; hooks of x/gov | sequences of grants, delegations, slashes and clawbacks; marks shared by proposals |
| erc20 and IBC (`x/erc20`, `x/ibc/transfer`) | token pairs, switches, the tokens held for coins | convert; Transfer; callbacks of receipts, acknowledgements and time-outs; registration by vote | a conversion that fails half way; refunds retried under other parameters; contracts that change |
| transaction indexer (`server/indexer_service.go`, `indexer`) | the index; heights shared by a service and its goroutine | follow headers, index a block; the offline command in two directions | crashes that lose unsynced batches; headers missed between two calls |
| the rest | see `components` in `PROJECT.json` | | |

How they interact: `x/epochs` calls the inflation hook inside BeginBlock, so a
panic of the hook stops the chain (`app/app.go:611-616`).  The fee market's
BeginBlock computes the base fee from the record that its own EndBlock left;
governance's EndBlock comes before it, so a proposal changes the parameters of
the block it ends in (`app/app.go:757-786`).  The ante handler counts wanted
gas for the fee market and takes fees; the execution refunds; baseapp takes the
block's gas.  The gate stands in `EthereumTx` before ApplyTransaction: a
refusal is an ordinary failure of the message.  ApplyMessage works on one
StateDB; precompiles share its cached store.  Delegations pass the message
server of `x/staking`, which asks the schedules of `x/vesting`; so does the ante
handler for Ethereum transactions; `x/gov` calls the hooks of `x/vesting`.  The
IBC stack calls the callbacks of `x/erc20` after ICS-20, and these register the
precompiles of the EVM.  The indexer follows the blocks of CometBFT.

The hazards of this code, each at its line, with the properties that cover it
or the reason why none does, are the list `hazards` of `PROJECT.json`.

## 2. Modules and the code they model

### Inflation: `Epochs`, `HalvingCalculation`, `EmissionSchedule`, `Inflation`

`Epochs` is `x/epochs/keeper/abci.go` for every identifier: `BeginBlocker(t)`
moves each identifier that is due, by one epoch at most.
`HalvingCalculation` holds the four pure functions of
`types/halving_calculation.go`.  `Inflation` extends both: `AfterEpochEnd` is
the hook with its four ways out (`SkipDisabled`, `RefuseZeroEmission`,
`RefuseSupplyCap`, `MintAndSendToMultiSig`), `BeginBlockPanic` its panics,
`UpdateParams`, `UpdateEvmParams`, `Burn` and `ExportImport` what else changes
its state.  `EmissionSchedule` is the abstract promise: the end of a day issues
the scheduled amount or nothing.  `Inflation` implements it step by step: every
step taken while the parameters have the emission and the interval of the
genesis is a step of the schedule, whatever governance did before
(`ImplementsSchedule`).

Abstracted: block height and CurrentEpochStartHeight, the denomination (one),
events and logs; a chain that imports a genesis has a clock at or after the
genesis time.  `history`, `issued` and `highestCap` are observers.

With the shipped numbers (7200 a day, an interval of 1461 days) the schedule
sums up to 2·7200·1461 = 21,038,400, which is above the cap of 21,000,000: the
cap binds in the tail, and `RefuseSupplyCap` is not a theoretical case.

### The gate: `TxGate`

One message passes through the phases that the code's control flow has:
`IsChainOpen` looks at the map and may ask the contract, `StoreChainStatus`
writes the answer, `IsWalletUnlocked` and `StoreWalletStatus` the same for the
wallet, `ApplyMessage` or `RefuseTx` ends it.  Between asking and storing other
runs of the same process may take their steps: that is what the maps being
shared by DeliverTx and the gRPC simulation means.  `Restart` empties the maps
between blocks.  A transaction has several messages and may fail at its end,
which undoes its state and not the maps.  What the contracts answer is state
that transactions change (`setCount`, `setLock`), with reverts and empty
answers.  `lastSeen` is an observer: the last height at which a fact held in
some state that a run could see.

Abstracted: fees and gas; one simulation at a time per node; the Go map
accesses themselves are guarded by mutexes and atomic.

### Fees: `FeeMarket`, `EvmTx`

`FeeMarket` has the block as phases: BeginBlock (base fee), transactions that
count wanted gas and take block gas, proposals, EndBlock (record).  Gas is
counted modulo `Word`, the int64 limit is `Word/2 - 1`; decimals are integers
over `Unit`.  An elasticity of zero halts, as the division by zero does.

`EvmTx` extends it with the life of a transaction: `AnteMessage` per message,
`AnteDone` (the ante handler's writes are kept from there on), `ApplyTransaction`
per message with success, failure in the virtual machine and error, `FinishTx`,
and the Cosmos transactions whose fee the post handler burns.  `RejectTx` is a
Cosmos transaction whose ante handler fails, for a fee below the base fee or any
other reason: baseapp's deferred consumeBlockGas takes the gas it has used until
then, while the last decorator, which counts the gas wanted, is not reached.
The observer `rejectedGas` adds up what such transactions take.  Stages work on
caches as in baseapp.  `ImplementsFeeMarket` says that this is an
implementation of `FeeMarket`, with the gas counters as shared state.
Abstracted: signatures, rewards claimed to pay fees, and vesting locks, which
`Vesting` has; the gate, of which `RefuseMessage` is the outcome; distribution
empties the collector at BeginBlock; London rules apply.

### State: `CallFrames`, `StateDB`

`StateDB` has the lazily loaded objects, the journal with one entry per change
and its dirty counts, the revisions, the refund counter, the access list with
its slots in one array, and the cached store of the precompiles.  Each
operation is the function of the code; the EVM's calls are sequences of them as
data (`Op`, `Called`, `After`).  The driver is the EVM as far as it calls the
state: messages that call, deploy or call the precompile; calls, deployments,
SSTORE with its refund rules, LOG, SELFDESTRUCT; frames that return or fail at
any point (which stands for running out of gas anywhere).  The precompile has
methods of the distribution and staking precompiles, `claimRewards`,
`fundCommunityPool`, `delegate` and `undelegate`, under one address, with
`RunSetup`, what each method mirrors in the objects, and `AddJournalEntries`.
A delegation withdraws the pending rewards, which are not mirrored: `unmirrored`
is an observer that counts them, `ReadsMatchCommit` speaks of the states where
there are none, and `CoinsConserved` bounds the loss by them.

`CallFrames` is the abstract promise: a frame that fails leaves the state as it
was on entry, except for warm addresses and a creator's nonce, and nothing in a
frame changes what the frames around it would return to.  The refinement maps
the state "as Commit would leave it now" (`ledger`) and, for each open frame,
the state that its failure would restore (`saved`).

Left out: the other call variants, CREATE2, value sent to precompiles, plain
transfers at the top level, delegations above the balance before the rewards,
hash collisions, code as bytes, gas.

### Filters: `EventSystem`

The block filters of the JSON-RPC server with everything under them: the API's
map and its mutex, `subscribe`, `eventLoop`, `consumeEvents`, the bus, one
publisher per topic channel and one consumer per filter.  An action is what one
goroutine does between two points where another may be seen: `FindTopic` and
`Register` are two because `memEventBus.Subscribe` takes two locks, `LookUp` and
`Send` are two because the channel is used after the lock is released,
`CloseAllSubscribers` and `DeleteTopic` are two because a publisher ends in two
critical sections.  A creation holds `filtersMu` (`creator`) over all its steps,
as the code does.  A topic channel bears the name of the filter that installed
it, so a channel of an earlier installation, its publisher still to come to its
end, stays visible beside the current one.  `panic` ends the process.

The three kinds of filters have a topic each and share nothing but the mutex,
the capacity (which may refuse a creation at any time here), `eventLoop` and
`consumeEvents`.  Log filters store other data; the consumer of a pending
transaction filter lacks a `return` (section 5).  NewHeads, Logs and
NewPendingTransactions need a notifier, which the HTTP server does not have.
The websocket server has an event system of its own, in which nothing is ever
uninstalled.  A non-blocking send may miss a consumer that has not come back to
its select, so `Publish` reaches any subset.  `polled` is an observer.

### Vesting and the staking gate: `VestingSchedule`, `Vesting`, `StakingGate`

`VestingSchedule` has the functions of `x/vesting/types/schedule.go`: reading a
schedule at a time, counting past periods, and the two merges, which walk two
lists of events at once; the walks are folds over the sorted events of both.
`Vesting` has the account with its views (`GetVestedCoins`, `LockedCoins`,
`ComputeClawback`), one action per message, the hooks of governance
(`SubmitProposal`, `AddDeposit`, `FailMinDeposit`, `EndVoting`) on proposals of
both kinds that claw back (a ClawbackProposal, the content of a legacy message,
and a MsgClawback whose funder is the authority of `x/gov`), and what else moves the coins of such an account: the bank, Ethereum transactions under the
ante handler's check, delegations under the message server's, the end of an
unbonding, slashes.  Deposits are below the minimum, reach it, or are of a
denomination that the minimum does not name: the hook tells these apart.
`StakingGate` extends it with MsgCreateValidator: the verdict of
`customValidatorChecks` on what the contracts answer, then the delegation.
`grants`, `govChoice`, `slashed` and `admitted` are observers.

Abstracted: several denominations (amounts of one, which is also bonded and
pays for gas), validators that a delegation chooses, the unbonding time.

### Coins and tokens: `Erc20`, `Erc20Precompile`, `Allowances`

`Erc20` is the pair of one contract: `ConvertERC20`, `Transfer` with the
conversion of what the sender lacks, `Refund` (OnAcknowledgementPacket and
OnTimeoutPacket), `OnRecvPacket`, the proposals and parameters, and the contract
itself, which may begin to deliver short, to refuse or to self-destruct at any
time.  A packet is in flight, failed on the other side, or gone; a refund whose
conversion fails, or for which the escrow lacks the coins, leaves the packet for
another try, as the relayer's message fails.  Coins are received by users and by
the channel's escrow account, which the bank does not block and which is no
module account: it may be sent coins, be the receiver of a conversion, and be
the receiver of a packet that returns, which moves its own coins to itself and
then converts all that it holds.  The observer `surplus` is what the escrow was
given, less what was converted there.  The conversions are the checks of the code: balances are compared after
the call, the result and the approval events are examined (`TransferChecked`).

Left out: contracts that take a fee from the sender beside the amount, and
contracts redeployed at the same address by CREATE2 with other balances.  In
both, coins may outnumber the tokens held, and the code has no check against it.

`Erc20Precompile` is the other kind of pair, coins that look like tokens: the
registry (`SetParams`, receipts of new vouchers), and the methods of the
precompile, whose allowances of one owner to one spender are all in a single
authorisation with one limit per token and one expiration.  `Allowances` is the
abstract promise of ERC-20, one allowance per owner, spender and token, from
which the methods take; it is implemented (`ImplementsAllowances`), except that
an authorisation that expires or is revoked takes the allowances of all tokens
with it, which the abstract module allows as a step of its own.

### Indexing: `Indexer`

The service's OnStart (status, subscription, last indexed block), its loop and
the goroutine that takes headers interleave; `indexer_cmd.go` runs while the
node is down.  The database is the sequence of blocks whose batches were
written, of which a crash keeps a prefix.  Which transactions of a block have
entries is `Entries`: valid, decoded, Ethereum, parsed, and mentioned by events
unless the transaction failed.  A block without entries leaves no trace, so the
service begins with the last block that has some.

Abstracted: what an entry says.  `latestBlock` is an int64 that two goroutines
share without a lock; it is taken as atomic here, which holds on 64-bit builds.

## 3. The runs

| Run | What it asks | Distinct states |
|---|---|---|
| `inflation` | every day is settled once; stored halving state, cap, epochs' grid; catch-up ends; implements `EmissionSchedule` | 59,792 |
| `gate` | a lock, a closing and an opening take hold although the maps are shared, stale and lost | 666,233 |
| `gate_replicas` | violation: nodes that executed the same transactions differ | |
| `fees` | the base fee follows the load within its bounds; a price nobody offers comes down | 242,300 |
| `evmtx` | books, nonces and gas counters agree through partial failure; implements `FeeMarket` | 1,896,085 |
| `statedb` | frames keep `CallFrames`; no panic; commit agrees with reads and makes no coins | 550,341 |
| `events` | channels, consumers, polls and time-outs of two filters; creations and uninstalls end | 311,064 |
| `vesting` | unvested coins are at hand, locked ones stay in, merged schedules add up, votes are marked | 158,992 |
| `validators` | violation: an operator that is not approved becomes a validator | |
| `erc20` | coins are backed, the escrow is accounted for, conversions cost nobody anything, refunds end | 119,368 |
| `precompiles` | codes and list agree; the shared authorisation implements `Allowances` | 100,032 |
| `indexer` | the index has no gap through crashes and commands; the service reaches what it knows of | 76,946 |

Bounds and why they are enough:

* `inflation`: a day of 2 time units, a week of 6, blocks up to 5 units apart
  so that more than one day is missed, 16 units in all: eight days and three
  periods with an interval of 2.  Governance shortens the interval to 1 and
  stretches it to 3, lowers and raises the cap, disables minting; two events
  (`MaxEvents`) are enough for a change and its reversal.  `MaxHalvingPeriod`
  is 3 instead of 63, so that the emission reaches zero.
* `gate`: windows of one block each and a cleanup every two, three blocks of
  two transactions.  The windows are parameters of the code's comparison: a
  window of one has the block inside, the last block of it and the first
  outside.  `MCSpec` keeps two scenarios apart (the wallet's lock, the chain's
  status): a state constraint that each step obeys, so that locks and counts
  are not multiplied.
* `fees`: a word of 16 and a block of 6 units, so that the counters pass the
  int64 limit and wrap; floors of 0, 3 and 4 below and above the fees; four
  heights saturate, so that liveness is about cycles and not about the end.
  `HighestCap` is the highest price that a user offers.  Transactions that are
  rejected take gas at base fees up to `MaxPrice`; at those above it, which they
  could raise without end, the blocks are empty.
* `evmtx`: blocks of 4 units with transactions of one or two messages of two
  senders, so that the second transaction may not fit the block.  `TxGas`
  spans the word: it is the set over which `FeeMarket`'s actions quantify and
  restricts nothing.  A rejected transaction has used 3 units, more than an
  accepted one may leave, and the base fee reaches a price nobody offers.
* `statedb`: six addresses (an origin, the precompile, two contracts, an
  address for a deployment of the origin and one of a contract), one key with
  values 0 and 1, three operations beside the frames' entries and ends, two
  precompile calls allowed.  Three operations with nesting are enough for a
  change, a change of it in an inner frame and a failure of either, and for the
  third precompile call that is refused.  `Failures = {}` leaves out calls of
  the precompile that fail after RunSetup: with them the promise does not hold
  (`SavedStatesKept`, section 5).  What contracts see is restored even then:
  `RevertsRestore`, which is proved (section 4) and in no configuration.
  `ImplementsCallFrames` says more where no call fails in between; TLC confirms
  `RevertsRestore` when the configuration names it, and with
  `Failures = {"setup", "gas"}` and two operations as well.
* `events`: two filters and two events.  Two filters have the one that installs
  the topic and the one that finds it, and an installation that overtakes the
  publisher of the one before; two events have one behind the other in every
  place.  The invariants do not depend on the number (section 4).
* `vesting`: one account that is created, clawed back and created again, two
  funders, up to two of three grants (with both schedules, without lockup and
  starting before the account, without vesting and starting after it), four
  points of time, one proposal of either kind, transfers of up to 3 coins.  The
  account begins without coins, and has some of its own when a clawback or a
  conversion leaves it what has vested.  Two grants are the
  least that merge, and the third point of time lies after the last event but
  one.  With a second proposal the marks of the first are lost, which is what
  the premise of `VotesMarked` excludes (section 5).
* `erc20`: four tokens, two users, two packets in flight.  An amount of two can
  be delivered short by one and still be positive, and a refund can find the
  escrow with another packet's coins.  A gift to the escrow and a packet that
  empties it meet transfers that fail.
* `precompiles`: one owner with a spender, the native coin and two vouchers, so
  that a call in one token has two others to spoil; allowances of up to 2, a
  lifetime of one unit in three, so that a grant ends while another call is to
  come.
* `indexer`: five blocks, the last without Ethereum transactions and one with a
  transaction that leaves no entry; two crashes, so that a recovery is itself
  interrupted, and one failed fetch or write.

Deadlock is not checked where the system stops: `events` (clients may be done,
and a panic ends the process), `inflation` (a panic halts the chain, and time is
bounded), `fees` (the elasticity of zero halts), `statedb` (the transaction
ends), `vesting` and `validators` (time and grants are bounded and all coins may
be gone) and `indexer` (blocks are bounded).  The other runs check it.

Fairness: `inflation` has weak fairness of blocks, `fees` of BeginBlock and
EndBlock.  Both say that consensus keeps committing blocks; neither assumes a
transaction or a proposal.  `events` has weak fairness of every goroutine that
is not a client: Go's scheduler runs what can run, `select` chooses at random
among what is ready, and `sync.Mutex` does not starve a waiter.  No client calls
again, no deadline fires and no event comes by assumption.  `indexer` has weak
fairness of the service's and the receiver's goroutines; the node may crash,
stay down and prune.  `erc20` has weak fairness of `Refund` alone: relayers are
paid per packet and try again; that the contract is not in the way for ever, and
that no packet returned to the escrow has left it short for ever, are premises of
`RefundsSettle`, not assumptions.  `PriceComesDown` likewise has the premise that
the blocks nobody can pay for are empty in the end: with proposers that go on
including transactions which the ante handler rejects, TLC shows a price that
stays up.

Each property of a passing run has a variant of a mapped definition in
`mutants` (a dropped guard, a missing reset, a wrong comparison) under which it
fails: that is how the properties are known to say something of the code.

## 4. The proofs

| Module | Theorems |
|---|---|
| `Inflation_proofs` | type correctness; the supply stays under the highest cap; epochs stay on their grid; every day is settled exactly once; the stored halving state is that of the last mint; `Inflation` implements `EmissionSchedule`, and while no proposal touches emission or interval its whole issuance is bounded |
| `TxGate_proofs` | type correctness; `LockTakesHold`, `StatusTakesHold` |
| `EvmTx_proofs` | of `FeeMarket`: type correctness and the action properties of the base fee.  Of `EvmTx`: type correctness; it implements `FeeMarket`; charges fit the limits; `BooksMatchReceipts`, `NonceUsed`, `GasWithinLimits` |
| `StateDB_proofs` | `NeverPanics`; `RevertsRestore` |
| `Vesting_proofs` | `GovChoiceKept`, `VotesMarked`, `UnvestedAtHand`, `LockedStaysIn`, `SchedulesCombine`; what the two merges of schedules and a clawback return, for schedules of any length; the staking gate implements `Vesting`, so all of it holds behind it |
| `Erc20_proofs` | `Backed`, `EscrowMatches`, `NobodyPoorer`; of `Erc20Precompile`: `PrecompilesHaveCode`, and it implements `Allowances` |
| `Rpc_proofs` | of `Indexer`: type correctness; `NoGaps`, `ReachedIsIndexed`.  Of `EventSystem`: type correctness; `NeverClosedTwice`, `TopicsServed`, `PollNeverWaits`, `NoLostConsumer`, `SeenOnce` |
| `Sums_proofs` | lemmas: what a sum over a finite set does when a summand or the set changes |

Assumptions are those on the constants (`...Assumption` in the modules, which
TLC evaluates in the runs): bounds are natural numbers, the sets of messages and
parameters have their types, sets that are summed over are finite, distinct
roles are distinct (`None` is no event, the module account no user).  The grants of
`Vesting` are those that `ValidateBasic` lets pass: of two schedules the totals
are the same.  `StateDB` has finitely many addresses and keys, and its genesis
has an origin with a nonce (the ante handler has counted the transaction) and
neither coins nor storage where there is no account (`DeleteAccount` clears the
storage before it removes the account).  Where a deployment's address lies is
free: two deployments may even meet at one.  No value of a bound is among them:
the theorems hold for any number of nodes, users, proposals, filters, frames,
blocks and tokens.  Two results need more.

* The bound on the whole issuance assumes `FixedSchedule`: no valid proposal
  changes DailyEmission or HalvingIntervalEpochs, and the interval of the
  genesis is positive.  The refinement itself (`RefinesSchedule`) holds under
  any governance: it speaks of the steps taken while the parameters are those
  of the genesis.
* `GasWithin` concludes from `EvmSpec` and `[][CounterGrows]_evmVars`: the
  transient counter of wanted gas, a uint64 that the code adds to without a
  check, does not wrap within a block.  Where it may wrap, `FeeMarket` says what
  the record becomes.  Everything else about `EvmTx` holds without it.

### The inductive invariants

* **Issuance.** The bound `issued <= (start - 1 + 2·interval)·emission` is not
  inductive.  `IssuedAndRemaining` adds what may still be issued, counted as
  `2·interval - k` days at the current emission on day k of a period; a halving
  at k = interval leaves `2·interval` days at half the emission, and truncation
  only helps.
* **Grid and days.** A tick adds one duration and one number.  One BeginBlock
  ends at most one day, and every way out of the hook appends one record.
* **Halving state.** The stored period is the one of the last record that
  minted (`RecordsHalving`), not of the last day.  That the record of the last
  *halving* is exact needs that all minting days had one interval: when
  governance stretches the interval the period falls without a halving and may
  then be reached a second time, which is why the property has that premise.
* **Base fee.** The action properties speak of the block that ended, the code
  computes from the record; `RecordOfLastBlock` (the record is what EndBlock
  computed from the counters, which stand until BeginBlock) connects them, and
  `NextBaseFeeBounds` is the arithmetic.
* **Transactions.** `TxInv` says what each stage of a transaction has done to its
  cache: the messages counted so far have paid their limit, the ones executed
  have got back what they did not use, and the nonces are those of the store
  before, plus the messages of each sender.  `BooksMatchReceipts` is then one sum
  that all stages agree on, and a failure after the ante handler leaves the
  terms of the fees and drops the others.  For the gas, `Room` says that wanted
  gas covers what was used, without what rejected transactions took
  (`UsedByCounted`), and what the open transaction may still use.
* **The gate.** `lastSeen` of a fact only grows.  `RunOK` says of a run in each
  phase that the checks behind it rested on something seen within the window,
  and that what it is about to store was seen at its height; `EntriesOK` that an
  entry of the maps is no younger than a sighting.  Neither is inductive without
  the other: a store turns the first into the second, a hit the second into the
  first.
* **Filters.** The safety properties need one another and one thing more,
  `UninstalledOnce`: a filter that is stored, or not yet stored, has never been
  handed to eventLoop, and a request that waits has not been served.  Only with
  it does a second `close(f.err)` stay out.  `SeenOnce` needs that an event on its
  way (on the bus, with `consumeEvents`, or with a publisher) is in one place
  and has arrived at no filter, and that a filter it has arrived at has it once.
* **Votes.** `VotesMarked` without the sets, and that a ClawbackProposal which made
  a mark still accounts for it; the other kind of proposal makes none.  The premise about votes that have ended is what makes
  it true for more than one proposal.
* **Schedules.** `DisjunctAdds` and `ConjunctLeast` say what a merge releases at
  every time.  The walk over the two lists is unrolled into its rounds; the
  invariant of the loop says that what has been emitted up to the last event is
  the sum (or the minimum) of the two prefixes read, and that the next events
  of both come later.  `FromGrants` carries this to the account: its schedules
  release what its grants release.
* **Vesting coins.** `UnvestedAtHand` and `LockedStaysIn` are the first two
  conjuncts of `Covered`, and `Covered` needs a third: what counts as delegated
  free coins is staked or was slashed.  A grant resets that count and an
  unbonding lowers it first, so the coins which are locked have to be found
  without it.  Votes come in because the end of one claws back: the account it
  names must be one that can hold coins.
* **Coins and tokens.** `Backed` and `EscrowMatches` are inductive together with
  the types.  `EscrowMatches` equates the escrow with the coins abroad, the coins
  in packets, a sum over packets in flight, and `surplus`.
* **Allowances.** A single authorisation has a limit per token; `GrantsOK` says
  that one without any limit is not stored, so an allowance is nonzero only
  through a grant that is there, and deleting an authorisation takes nothing
  with it that the abstract module would keep.
* **Index.** `Gapless` of the sequence of blocks holds for every prefix of it,
  which is why a crash that keeps a prefix does no harm; `UpTo` and `DownTo` say
  how far the round in progress may rely on it.

* **Journal.** That a revert does not panic depends on every state that it passes
  through, so `Kept` speaks of all of them: `History(d)` is the sequence of the
  states that undoing `d` entry by entry leads to.  Each is `Fine` (a dirty
  address has an object, the access list points into its slots and has no empty
  set there, nothing has panicked), the entry above it applies to it, and the
  snapshots point into it in order.  An operation appends entries and leaves the
  history below as it was, up to `Same`: objects are loaded without a journal
  entry, so a revert does not restore the StateDB but one that looks the same to
  contracts, which is what `View` and `RevertsRestore` say.  `RefundCovers` is
  why SubRefund never panics: the refund counter holds the clearing refund of each slot that is
  empty now and was not in the store, in the state and at each open snapshot.
  `FramesOK` ties the frames of the EVM to the snapshots, and says that the
  address a frame runs at stays in the access list, on which the adding and
  deleting of warm slots relies.  Each operation of the code is shown to do this
  once (`Goes`); an action of the EVM is a sequence of operations (`After`), so
  it does it too, and a frame that is entered, returns or fails `Moves` the
  snapshots accordingly.

Sums are folds over sets, and folds are recursive.  `Sums_proofs` unfolds the
definition of the fold and replaces induction by a least counterexample: a
nonempty family of subsets of a finite set has a minimal member
(`MinimalMember`, from the well-foundedness of strict inclusion), and one step
of the recursion below it contradicts it.  `StateDB_proofs` does the same for
numbers: the history of a journal and the states of a sequence of operations are
functions on an interval, and a claim about all of them fails at a least index.

### What is only model-checked

* Liveness under fairness, in `Inflation`, `FeeMarket`, `EventSystem`, `Indexer`
  and `Erc20`: out of the proof system's reach.
* `StateDB`: `ReadsMatchCommit`, `CoinsConserved` and the refinement of
  `CallFrames`.  The first two are about Commit, a sum over the dirty accounts
  and two stores.  The refinement speaks of what Commit would leave of every
  state that a failure returns to, cached store included; it needs that
  deployments find fresh addresses, as hashes are, which `NoPanic` and
  `FramesReturn` do without.
* The two violations, and the claims of comments in section 5.

## 5. Where the code and its comments part

Two disagreements have a run that shows them (`findings` in `PROJECT.json`):
nodes that decide the same transaction differently, and operators that become
validators without approval.  Six more are stated as properties beside the
others, in the modules, and TLC refutes them when a configuration names them:

* `NonceCountsMessages` (`EvmTx`): `10_increment_sequence.go:25` says that several
  messages of one sender in a transaction are accepted; a deployment sets the
  nonce to its own plus one (`state_transition.go:319`), although the ante
  handler has counted the messages behind it.
* `SavedStatesKept` (`StateDB`, with `Failures` switched on): `precompile.go:51`
  speaks of reverting; a call that fails after RunSetup has written the objects
  to the cached store (`precompile.go:97`) is journaled nowhere, so the frame
  around it does not undo them.
* `RewardsKept` (`StateDB`): `precompiles/staking/tx.go:232` says "This ensures
  that the changes in the bank keeper are correctly mirrored to the EVM stateDB";
  the rewards that a delegation withdraws are not, and a delegator whose object
  is dirty loses them at commit.
* `RemovedOnlyWhenUnused` (`EventSystem`): "remove topic only when channel is not
  used by other subscriptions"; a filter that found the topic and is not yet in
  the index does not count.
* `EveryVoteMarked` (`Vesting`): `hooks.go:34-36` says that the account is marked
  "for the time the proposal is active in order to prevent manual clawback from
  the funder"; `getClawbackProposals` (`hooks.go:151-160`) finds legacy contents
  only, so a vote on a MsgClawback of the authority runs without a mark, and the
  funder may claw back meanwhile.
* `EscrowCovers` (`Erc20`): that the escrow holds at least what the packets and
  the other chain are owed.  A packet that returns to the escrow account itself
  has the whole balance converted to tokens of an address without a key
  (`ibc_callbacks.go:79-84,138-139`), and refunds wait until somebody gives the
  escrow coins again.

Others were met while modelling; the models do what the code does, so no
property claims them:

* **Hook number.** `AfterEpochEnd` is documented to get the epoch that ended;
  it gets the one that starts, and the hook subtracts one.
* **Refused days.** `hooks.go:114` says that the stored state is always
  reconciled; a refused day returns before.
* **Zero interval.** A genesis file without the halving fields stores an
  interval of zero, and the first ended day divides by it in BeginBlock.
* **Blocked recipient.** The multisig address may be set to a module account
  the bank blocks: the mint panics in BeginBlock.
* **Exported provision.** The export leaves out the epoch mint provision, and
  the query falls back to the legacy formula after an import.
* **Revert data.** `IsChainOpen` and the checks of the staking gate parse the
  bytes of a reverted call as an answer.
* **Amount locks.** A verdict for one amount answers for every smaller one for
  the window, without the balance used up in between.
* **Previous block.** The count is said to be read at the block before; the call
  runs on the state in the middle of the current one.
* **Whitelist.** Entries are validated in any hex form and compared in one.
* **Elasticity.** `eip1559.go:53` relies on a check of ElasticityMultiplier that
  `Params.Validate` does not make.
* **Floor.** The global minimum is a lower bound only where the price falls.
* **Enable height.** `GetBaseFee` does not look at it, although
  `x/evm/keeper/keeper.go:302` distinguishes "not enabled".
* **Refused message.** It fails the transaction without consuming its gas,
  while `state_transition.go:173` says that a failure takes all of it.
* **Burned fee.** `PostHandle` burns the fee that the transaction names, which
  may exceed what was deducted.
* **Wanted gas.** The gas of a transaction is counted once per message, and that
  of a Cosmos transaction which the ante handler rejects not at all, although it
  takes the block's gas: such transactions alone can keep the price up.
* **Closed topic channel.** consumeEvents writes to a channel it has looked up
  under a lock it no longer holds; when the last filter is uninstalled in
  between, the write panics and the node ends (`SendOnClosed`, reachable).
* **Overtaken publisher.** A publisher that ends closes the channels of filters
  that have been registered since, and takes their topic off the bus; the
  filters are gone for the client, their subscriptions stay in the index.
* **Pending transaction filter.** Its consumer does not return when the err
  channel is closed (`api.go:184`): it spins until the topic is removed.  The
  variant `ErrClosedGoesOn` is that code, and `RequestsEnd` fails under it.
* **Marks of votes.** Two proposals for one account share a mark, which the end
  of the first takes away; a deposit of a denomination that the minimum does not
  name sets it before voting; a proposal that fails for its deposit never clears
  it, so the funder cannot claw back until a vote on the account ends.
* **Clawed back accounts.** `clawback_vesting_account.go:199-200` says that future
  unlocking events are preserved; the message server converts the account to an
  ordinary one, without a schedule.
* **Nothing approved.** `approve` of zero succeeds without a grant and fails with
  a grant for other tokens only; a new approval keeps the old expiration.
* **Stale list.** A parameter proposal written before a voucher was registered
  drops its precompile; one that names a voucher not yet registered makes every
  receipt of it fail.
* **Destroyed contract.** Refunds of its coins fail until somebody calls
  ConvertERC20, which deletes the pair and returns success.
* **Skipped blocks.** The indexer logs an error of IndexBlock and goes on, while
  the command starts at the ends of the index only, "to avoid creating gaps"
  (`indexer_cmd.go:22`); a block that is pruned before it is indexed stops the service for ever.
* **Shared height.** `latestBlock` of the indexer is read and written by two
  goroutines without synchronisation.

## 6. Not modelled, and the plan

Not modelled and not planned:

* the websocket server (its event system never uninstalls anything), the checks
  of the Cosmos ante handler that keep no state, the RPC backend's queries, the
  rate limit middleware (a library), one-shot upgrades, telemetry;
* the interpreter's opcodes and gas: a fork of go-ethereum's, of which `StateDB`
  has what it asks of the state;
* encodings and signatures (EIP-712, wallets, crypto), the command line and
  server start-up.

Close to half of the repository's lines are generated code and tables of
addresses for an upgrade that has run; much of the rest is conversion, queries,
flags and wiring.  The models are about the part that keeps state and decides,
which is why the map names a small share of the lines.

Planned, in this order, are proofs for what is only model-checked so far:

1. `StateDB`: the refinement of `CallFrames`, from the history of the journal and
   the cached stores that its entries keep, for deployments at fresh addresses.
2. `StateDB`: `CoinsConserved`, a sum over the addresses that Commit writes.
