------------------------------- MODULE TxGate -------------------------------
(***************************************************************************)
(* The checks x/evm makes before it applies an Ethereum message: the chain *)
(* is open when a contract counts enough online servers, and the sender's  *)
(* wallet is unlocked according to another contract.  Both answers are     *)
(* kept in maps of the node's process (chainStatusCacheMap and             *)
(* walletLockCacheMap), which DeliverTx and the gRPC simulation of         *)
(* transactions share, which no rollback undoes and a restart empties.     *)
(*                                                                         *)
(* A message runs through the phases of its run: "chain" (IsChainOpen),    *)
(* "storeChain" (EthCall has answered, the map is not written yet),        *)
(* "wallet" (IsWalletUnlocked), "storeWallet", "apply" (the gate let the   *)
(* message through) or "refused".                                          *)
(*                                                                         *)
(* Gas and fees are left out: they are the subject of FeeMarket.           *)
(***************************************************************************)
EXTENDS Integers, Sequences, FiniteSets

CONSTANTS
    Nodes,            \* the nodes that execute the same transactions
    Wallets,          \* the addresses that send messages
    Contracts,        \* the addresses that may hold the gate's contracts
    NoContract,       \* the zero address
    Reverted,         \* the count of a contract that reverts with a reason
    Txs,              \* the transactions offered, see TxType
    ParamSets,        \* what governance may set the parameters to
    GenesisStates,    \* the states the chain may start from
    Threshold,        \* online servers for an open chain (1000)
    Tolerance,        \* of the amount lock (10^14 wei)
    CacheDuration,    \* age at which an entry is of no use (30 s)
    ChainWindow,      \* heights a chain status answers for (10)
    WalletWindow,     \* heights a wallet status answers for (5)
    CleanupInterval,  \* heights between two cleanups (10)
    MaxBlockTxs,      \* bound: the transactions of a block
    MaxHeight,        \* bound: the last block
    MaxClock          \* bound: the time at which the wall clock stops

VARIABLES
    now,              \* time.Now(), the same clock for all nodes
    height,           \* the block being executed
    tx,               \* the transaction of the block being executed, or NoTx
    blockTxs,         \* how many transactions the block has had
    done,             \* the nodes that have executed it
    chain,            \* node -> its state, as deliverState holds it
    committed,        \* node -> its state at the end of the previous block
    run,              \* node -> kind of run -> the run in progress, or Idle
    chainCache,       \* node -> chainStatusCacheMap["chain_status"], or Miss
    walletCache,      \* node -> wallet -> walletLockCacheMap, or Miss
    lastSeen          \* observer, see Observe

cacheVars == <<chainCache, walletCache>>
chainVars == <<height, tx, blockTxs, done, chain, committed>>
vars == <<now, chainVars, run, cacheVars, lastSeen>>

Kinds == {"deliver", "simulate"}
Facts == {"open", "closed"} \cup Wallets

-----------------------------------------------------------------------------
\* What the wallet contract says of a wallet: the lock status and amount of
\* getWalletLock, or "reverted" (with a reason string) or "empty" (no data).
Lock == [status : {"none", "amount", "absolute", "unknown", "reverted", "empty"},
         amount : Nat]

\* The gate's parameters.  The check compares the checksummed form of an
\* address (address.Hex()) with the strings of the list; the validation
\* accepts any hex form, so an entry may be in another form.
GateParams == [chainCheck : BOOLEAN, walletCheck : BOOLEAN,
               countContract : Contracts \cup {NoContract},
               walletContract : Contracts \cup {NoContract},
               whitelist : SUBSET (Wallets \X {"checksummed", "otherForm"})]

ChainState == [params : GateParams,
               count : [Contracts -> Nat \cup {Reverted}],
               lock : [Contracts -> [Wallets -> Lock]],
               balance : [Wallets -> Nat]]

MessageType ==
    [from : Wallets, value : Nat, kind : {"transfer"}, to : Wallets]
    \cup [from : Wallets, value : {0}, kind : {"setCount"},
          contract : Contracts, count : Nat \cup {Reverted}]
    \cup [from : Wallets, value : {0}, kind : {"setLock"},
          contract : Contracts, wallet : Wallets, lock : Lock]

\* A transaction: its Ethereum messages, and whether it fails after the last
\* of them (out of gas), which rolls all of them back.
TxType == [msgs : Seq(MessageType), fails : BOOLEAN]

IsContractSet(c) == c # NoContract

IsBootstrapMode(p) == ~p.chainCheck /\ ~p.walletCheck

ValidParams(p) ==
    /\ p.chainCheck => IsContractSet(p.countContract)
    /\ p.walletCheck => IsContractSet(p.walletContract)

ASSUME TxGateAssumption ==
    /\ Txs \subseteq TxType
    /\ \A t \in Txs : t.msgs # << >>
    /\ ParamSets \subseteq GateParams
    /\ GenesisStates \subseteq ChainState
    /\ \A s \in GenesisStates : ValidParams(s.params)
    /\ NoContract \notin Contracts
    /\ Reverted \notin Nat
    /\ Wallets \cap {"open", "closed"} = {}
    /\ {Threshold, CleanupInterval} \subseteq Nat \ {0}
    /\ {Tolerance, CacheDuration, ChainWindow, WalletWindow,
        MaxBlockTxs, MaxClock} \subseteq Nat
    /\ MaxHeight \in Nat \ {0}

NoTx == [msgs |-> << >>, fails |-> FALSE]
Miss == [height |-> -1]
Idle == [phase |-> "idle"]

Run(phase, msgs, fails, st, h) ==
    [phase |-> phase, msgs |-> msgs, fails |-> fails, st |-> st, height |-> h]

-----------------------------------------------------------------------------
\* The answers of the two contracts, as the gate reads them.

\* The return data of the count contract as a big integer.  The reason of a
\* reverted call is return data like any other, and a huge number.
CountOf(st) ==
    LET c == st.count[st.params.countContract]
    IN IF c = Reverted THEN Threshold ELSE c

IsOpen(st) == CountOf(st) >= Threshold

LockOf(st, w) == st.lock[st.params.walletContract][w]

\* The verdict of the lock status on a transfer.  The reason of a reverted
\* call is longer than 96 bytes and reads as status 0; an answer without data
\* is an error.
UnlockedFor(st, w, value) ==
    LET lock == LockOf(st, w)
        exceeded == st.balance[w] < lock.amount
        maxAllowed == st.balance[w] - lock.amount
    IN \/ lock.status \in {"none", "reverted"}
       \/ /\ lock.status = "amount"
          /\ ~exceeded
          /\ value <= maxAllowed + Tolerance

IsWhitelisted(st, w) == <<w, "checksummed">> \in st.params.whitelist

Exempt(st, w) == IsWhitelisted(st, w) \/ IsBootstrapMode(st.params)

ChainCheckSkipped(p) == ~p.chainCheck \/ ~IsContractSet(p.countContract)
WalletCheckSkipped(p) == ~p.walletCheck \/ ~IsContractSet(p.walletContract)

-----------------------------------------------------------------------------
\* The two maps.

Abs(i) == IF i < 0 THEN -i ELSE i

\* Variant: the height condition holds for closed entries only.
ChainHitOpenAtAnyHeight(entry, h) ==
    /\ entry # Miss
    /\ now - entry.timestamp < CacheDuration
    /\ entry.isOpen \/ Abs(h - entry.height) <= ChainWindow

\* Variant: a closed entry answers one block longer than the window.
ChainHitClosedOneBlockLate(entry, h) ==
    /\ entry # Miss
    /\ now - entry.timestamp < CacheDuration
    /\ Abs(h - entry.height) <= ChainWindow + (IF entry.isOpen THEN 0 ELSE 1)

\* Variant: a wallet entry answers one block longer than the window.
WalletHitOneBlockLate(entry, h, value) ==
    /\ entry # Miss
    /\ now - entry.timestamp < CacheDuration
    /\ Abs(h - entry.height) <= WalletWindow + 1
    /\ value <= entry.amount

\* A hit needs an entry that is young enough and of a height close enough,
\* before or after.
ChainHit(entry, h) ==
    /\ entry # Miss
    /\ now - entry.timestamp < CacheDuration
    /\ Abs(h - entry.height) <= ChainWindow

WalletHit(entry, h, value) ==
    /\ entry # Miss
    /\ now - entry.timestamp < CacheDuration
    /\ Abs(h - entry.height) <= WalletWindow
    /\ value <= entry.amount

Kept(entry) ==
    IF entry # Miss /\ now - entry.timestamp > CacheDuration THEN Miss ELSE entry

CleanupDue(h) == h % CleanupInterval = 0

\* The entries a look at height h finds: cleanupCache first, when it is due.
ChainEntry(n, h) == IF CleanupDue(h) THEN Kept(chainCache[n]) ELSE chainCache[n]
WalletEntry(n, w, h) ==
    IF CleanupDue(h) THEN Kept(walletCache[n][w]) ELSE walletCache[n][w]

Cleanup(n, h) ==
    /\ chainCache' = [chainCache EXCEPT ![n] = ChainEntry(n, h)]
    /\ walletCache' = [walletCache EXCEPT
                         ![n] = [w \in Wallets |-> WalletEntry(n, w, h)]]

-----------------------------------------------------------------------------
\* The gate, for the head message of run k of node n.

Message(n, k) == Head(run[n][k].msgs)

Enter(n, k, phase) == run' = [run EXCEPT ![n][k].phase = phase]

\* The whitelist, bootstrap mode, a disabled check and a cached status let the
\* message go on; a miss asks the contract.
IsChainOpen(n, k) ==
    LET r == run[n][k]
        entry == ChainEntry(n, r.height)
        hit == ChainHit(entry, r.height)
    IN /\ r.phase = "chain"
       /\ \/ /\ Exempt(r.st, Message(n, k).from)
             /\ Enter(n, k, "apply")
             /\ UNCHANGED cacheVars
          \/ /\ ~Exempt(r.st, Message(n, k).from)
             /\ ChainCheckSkipped(r.st.params)
             /\ Enter(n, k, "wallet")
             /\ UNCHANGED cacheVars
          \/ /\ ~Exempt(r.st, Message(n, k).from)
             /\ ~ChainCheckSkipped(r.st.params)
             /\ Enter(n, k, IF ~hit THEN "storeChain"
                            ELSE IF entry.isOpen THEN "wallet" ELSE "closed")
             /\ Cleanup(n, r.height)
       /\ UNCHANGED <<now, chainVars>>

\* EthCall has run on the state of this run; the answer is stored whether the
\* chain is open or not.
StoreChainStatus(n, k) ==
    LET r == run[n][k] IN
    /\ r.phase = "storeChain"
    /\ chainCache' = [chainCache EXCEPT
                        ![n] = [isOpen |-> IsOpen(r.st), timestamp |-> now,
                                height |-> r.height]]
    /\ Enter(n, k, IF IsOpen(r.st) THEN "wallet" ELSE "closed")
    /\ UNCHANGED <<now, chainVars, walletCache>>

\* A cached status answers for transfers up to the amount it was asked for;
\* only statuses that let a message through are ever stored.
IsWalletUnlocked(n, k) ==
    LET r == run[n][k]
        m == Message(n, k)
        hit == WalletHit(WalletEntry(n, m.from, r.height), r.height, m.value)
    IN /\ r.phase = "wallet"
       /\ \/ /\ WalletCheckSkipped(r.st.params)
             /\ Enter(n, k, "apply")
             /\ UNCHANGED cacheVars
          \/ /\ ~WalletCheckSkipped(r.st.params)
             /\ Enter(n, k, IF hit THEN "apply"
                            ELSE IF UnlockedFor(r.st, m.from, m.value)
                                 THEN "storeWallet" ELSE "locked")
             /\ Cleanup(n, r.height)
       /\ UNCHANGED <<now, chainVars>>

StoreWalletStatus(n, k) ==
    LET r == run[n][k]
        m == Message(n, k)
    IN /\ r.phase = "storeWallet"
       /\ walletCache' = [walletCache EXCEPT
                            ![n][m.from] = [timestamp |-> now, height |-> r.height,
                                            amount |-> m.value]]
       /\ Enter(n, k, "apply")
       /\ UNCHANGED <<now, chainVars, chainCache>>

-----------------------------------------------------------------------------
\* ApplyTransaction on a state: a transfer the balance covers, or a call that
\* changes what one of the gate's contracts answers.
Apply(m, st) ==
    CASE m.kind = "transfer" ->
           IF m.value > st.balance[m.from] \/ m.to = m.from THEN st
           ELSE [st EXCEPT !.balance[m.from] = @ - m.value,
                           !.balance[m.to] = @ + m.value]
      [] m.kind = "setCount" -> [st EXCEPT !.count[m.contract] = m.count]
      [] m.kind = "setLock" -> [st EXCEPT !.lock[m.contract][m.wallet] = m.lock]

\* The end of a run.  A delivery commits the state st to the block; a
\* simulation leaves nothing but what it cached.
Finish(n, k, st) ==
    /\ run' = [run EXCEPT ![n][k] = Idle]
    /\ IF k = "deliver"
       THEN /\ chain' = [chain EXCEPT ![n] = st]
            /\ done' = IF done \cup {n} = Nodes THEN {} ELSE done \cup {n}
            /\ tx' = IF done \cup {n} = Nodes THEN NoTx ELSE tx
       ELSE UNCHANGED <<chain, done, tx>>
    /\ UNCHANGED <<now, height, blockTxs, committed, cacheVars>>

\* EthereumTx goes on to ApplyTransaction; after the last message the
\* transaction commits or is rolled back.
ApplyMessage(n, k) ==
    LET r == run[n][k]
        st == Apply(Message(n, k), r.st)
    IN /\ r.phase = "apply"
       /\ IF Len(r.msgs) > 1
          THEN /\ run' = [run EXCEPT
                   ![n][k] = Run("chain", Tail(r.msgs), r.fails, st, r.height)]
               /\ UNCHANGED <<now, chainVars, cacheVars>>
          ELSE Finish(n, k, IF r.fails THEN chain[n] ELSE st)

\* A message the gate refuses fails its transaction.
RefuseTx(n, k) ==
    /\ run[n][k].phase \in {"closed", "locked"}
    /\ Finish(n, k, chain[n])

-----------------------------------------------------------------------------
\* Consensus, the client and the clock.

DecideTx ==
    /\ tx = NoTx
    /\ blockTxs < MaxBlockTxs
    /\ blockTxs' = blockTxs + 1
    /\ \E t \in Txs : tx' = t
    /\ UNCHANGED <<now, height, done, chain, committed, run, cacheVars>>

\* The node executes the transaction of the block.
DeliverTx(n) ==
    /\ tx # NoTx
    /\ n \notin done
    /\ run[n]["deliver"] = Idle
    /\ run' = [run EXCEPT
                 ![n]["deliver"] = Run("chain", tx.msgs, tx.fails, chain[n], height)]
    /\ UNCHANGED <<now, chainVars, cacheVars>>

\* A client asks the node to simulate a transaction, on the last committed
\* block and next to whatever the node executes.
Simulate(n) ==
    /\ run[n]["simulate"] = Idle
    /\ \E t \in Txs :
          run' = [run EXCEPT
            ![n]["simulate"] = Run("chain", t.msgs, t.fails, committed[n], height - 1)]
    /\ UNCHANGED <<now, chainVars, cacheVars>>

\* The end of the block, in which governance may change the parameters.
EndBlock ==
    /\ tx = NoTx
    /\ height < MaxHeight
    /\ height' = height + 1
    /\ blockTxs' = 0
    /\ \/ chain' = chain
       \/ \E p \in ParamSets :
             /\ ValidParams(p)
             /\ chain' = [n \in Nodes |-> [chain[n] EXCEPT !.params = p]]
    /\ committed' = chain'
    /\ UNCHANGED <<now, tx, done, run, cacheVars>>

\* A restart empties the maps.  A node that stops within a block executes the
\* block again from its start, so it is enough to restart between two blocks.
Restart(n) ==
    /\ tx = NoTx
    /\ chain[n] = committed[n]
    /\ run' = [run EXCEPT ![n] = [k \in Kinds |-> Idle]]
    /\ chainCache' = [chainCache EXCEPT ![n] = Miss]
    /\ walletCache' = [walletCache EXCEPT ![n] = [w \in Wallets |-> Miss]]
    /\ UNCHANGED <<now, chainVars>>

Tick ==
    /\ now < MaxClock
    /\ now' = now + 1
    /\ UNCHANGED <<chainVars, run, cacheVars>>

-----------------------------------------------------------------------------
\* The observer: the last height at which the node held a state - its own or
\* that of a run - in which the chain was open, in which it was closed, and in
\* which a wallet was not absolutely locked.  It constrains nothing.

NotAbsolutelyLocked(st, w) ==
    \/ ~IsContractSet(st.params.walletContract)
    \/ LockOf(st, w).status # "absolute"

Holds(st, f) ==
    CASE f = "open" -> ~IsContractSet(st.params.countContract) \/ IsOpen(st)
      [] f = "closed" -> ~IsContractSet(st.params.countContract) \/ ~IsOpen(st)
      [] OTHER -> NotAbsolutelyLocked(st, f)

\* The heights at which node n holds a state with f.
Sightings(n, f, ch, h, r) ==
    (IF Holds(ch[n], f) THEN {h} ELSE {})
    \cup {r[n][k].height : k \in {j \in Kinds : r[n][j] # Idle /\ Holds(r[n][j].st, f)}}

Latest(S) == CHOOSE i \in S : \A j \in S : i >= j

Observe ==
    lastSeen' = [n \in Nodes |-> [f \in Facts |->
        Latest({lastSeen[n][f]} \cup Sightings(n, f, chain', height', run'))]]

Init ==
    /\ now = 0
    /\ height = 1
    /\ tx = NoTx
    /\ blockTxs = 0
    /\ done = {}
    /\ \E st \in GenesisStates : chain = [n \in Nodes |-> st]
    /\ committed = chain
    /\ run = [n \in Nodes |-> [k \in Kinds |-> Idle]]
    /\ chainCache = [n \in Nodes |-> Miss]
    /\ walletCache = [n \in Nodes |-> [w \in Wallets |-> Miss]]
    /\ lastSeen = [n \in Nodes |-> [f \in Facts |->
                     Latest({-1} \cup Sightings(n, f, chain, height, run))]]

GateStep(n, k) ==
    \/ IsChainOpen(n, k)
    \/ StoreChainStatus(n, k)
    \/ IsWalletUnlocked(n, k)
    \/ StoreWalletStatus(n, k)
    \/ ApplyMessage(n, k)
    \/ RefuseTx(n, k)

Step ==
    \/ DecideTx
    \/ EndBlock
    \/ Tick
    \/ \E n \in Nodes :
          \/ DeliverTx(n)
          \/ Simulate(n)
          \/ Restart(n)
          \/ \E k \in Kinds : GateStep(n, k)

Next == Step /\ Observe

Spec == Init /\ [][Next]_vars

-----------------------------------------------------------------------------
\* What a delivery's gate has just decided.

Passed(n) == run[n]["deliver"].phase = "apply"

PassedChainCheck(n) ==
    LET r == run[n]["deliver"] IN
    /\ Passed(n)
    /\ ~Exempt(r.st, Message(n, "deliver").from)
    /\ ~ChainCheckSkipped(r.st.params)

PassedWalletCheck(n) ==
    LET r == run[n]["deliver"] IN
    /\ Passed(n)
    /\ ~Exempt(r.st, Message(n, "deliver").from)
    /\ ~WalletCheckSkipped(r.st.params)

CacheEntryOrMiss(fields) == {Miss} \cup fields

RunType ==
    {Idle} \cup
    [phase : {"chain", "storeChain", "wallet", "storeWallet", "apply", "closed", "locked"},
     msgs : Seq(MessageType) \ {<< >>}, fails : BOOLEAN, st : ChainState,
     height : 0..MaxHeight]

\* Every variable stays within its type; the parameters stay valid, so the
\* gate never asks the zero address.
TypeOK ==
    /\ now \in 0..MaxClock
    /\ height \in 1..MaxHeight
    /\ tx \in Txs \cup {NoTx}
    /\ blockTxs \in 0..MaxBlockTxs
    /\ done \subseteq Nodes
    /\ chain \in [Nodes -> ChainState]
    /\ committed \in [Nodes -> ChainState]
    /\ \A n \in Nodes : LET p == chain[n].params IN
          /\ p.chainCheck => p.countContract \in Contracts
          /\ p.walletCheck => p.walletContract \in Contracts
    /\ run \in [Nodes -> [Kinds -> RunType]]
    /\ chainCache \in [Nodes -> CacheEntryOrMiss(
          [isOpen : BOOLEAN, timestamp : 0..MaxClock, height : 0..MaxHeight])]
    /\ walletCache \in [Nodes -> [Wallets -> CacheEntryOrMiss(
          [timestamp : 0..MaxClock, height : 0..MaxHeight, amount : Nat])]]
    /\ lastSeen \in [Nodes -> [Facts -> (-1)..MaxHeight]]

\* An absolute lock takes hold: more than WalletWindow blocks after the last
\* state in which a wallet was not absolutely locked, no message of the wallet
\* passes the check (IsWalletUnlocked's height condition), whatever was cached
\* by simulations, by rolled back transactions or before the parameters named
\* another contract.
LockTakesHold ==
    \A n \in Nodes :
       PassedWalletCheck(n) =>
          run[n]["deliver"].height
             <= lastSeen[n][Message(n, "deliver").from] + WalletWindow

\* A closed chain takes hold: more than ChainWindow blocks after the last
\* state in which the chain was open, no message passes IsChainOpen.
ClosingTakesHold ==
    \A n \in Nodes :
       PassedChainCheck(n) =>
          run[n]["deliver"].height <= lastSeen[n]["open"] + ChainWindow

\* An open chain takes hold: more than ChainWindow blocks after the last state
\* in which the chain was closed, no message is refused because it is closed.
OpeningTakesHold ==
    \A n \in Nodes :
       run[n]["deliver"].phase = "closed" =>
          run[n]["deliver"].height <= lastSeen[n]["closed"] + ChainWindow

\* The administration's switch takes hold in both directions within ChainWindow
\* blocks, whatever the cached statuses of simulations and of transactions that
\* were rolled back say (IsChainOpen).
StatusTakesHold == ClosingTakesHold /\ OpeningTakesHold

\* "Cache structures to reduce EthCall frequency" (msg_server.go): the maps
\* save calls and decide nothing, so nodes that have executed the same
\* transactions hold the same state.
ReplicasAgree ==
    tx = NoTx => \A n, o \in Nodes : chain[n] = chain[o]
=============================================================================
