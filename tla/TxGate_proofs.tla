---------------------------- MODULE TxGate_proofs ----------------------------
(***************************************************************************)
(* Proofs about TxGate: its variables keep their types, and locks and the  *)
(* chain's status take hold although the maps of the process are shared,   *)
(* stale and lost.                                                         *)
(***************************************************************************)
EXTENDS TxGate, WellFoundedInduction, TLAPS

-----------------------------------------------------------------------------
(* The observer.                                                           *)

\* A bounded set of integers has a largest element.
LEMMA LargestExists ==
    ASSUME NEW S \in SUBSET Int, S # {}, NEW b \in Int, \A s \in S : s <= b
    PROVE  \E m \in S : \A s \in S : m >= s
<1> DEFINE T == {b - s : s \in S}
           R == OpToRel(<, Nat)
<1> HIDE DEF R
<1>1. T \subseteq Nat /\ T # {}
  <2>1. ASSUME NEW s \in S PROVE b - s \in Nat
    <3>1. s \in Int /\ s <= b
      OBVIOUS
    <3> QED BY <3>1
  <2>2. PICK s \in S : TRUE
    OBVIOUS
  <2>3. b - s \in T
    OBVIOUS
  <2> QED BY <2>1, <2>3
<1>2. PICK x \in T : \A y \in T : <<y, x>> \notin R
  <2> HIDE DEF T
  <2> QED BY <1>1, WFMin, NatLessThanWellFounded DEF R
<1>3. PICK m \in S : x = b - m
  OBVIOUS
<1>4. ASSUME NEW s \in S PROVE m >= s
  <2>1. b - s \in T /\ b - s \in Nat /\ x \in Nat
    BY <1>1, <1>2
  <2>2. ~(b - s < x)
    BY <2>1, <1>2 DEF OpToRel, R
  <2> QED BY <2>1, <2>2, <1>3
<1> QED BY <1>4

\* What Observe stores: no less than before and than each sighting.
LEMMA LatestOfSightings ==
    ASSUME NEW top \in Nat, NEW l \in (-1)..top, NEW S \in SUBSET ((-1)..top)
    PROVE  /\ Latest({l} \cup S) \in (-1)..top
           /\ \A s \in {l} \cup S : Latest({l} \cup S) >= s
<1> DEFINE U == {l} \cup S
<1>1. \E m \in U : \A s \in U : m >= s
  <2>1. U \in SUBSET Int
    OBVIOUS
  <2>2. l \in U /\ top \in Int
    OBVIOUS
  <2>3. \A s \in U : s <= top
    OBVIOUS
  <2> HIDE DEF U
  <2>4. U # {}
    BY <2>2
  <2> QED BY <2>1, <2>2, <2>3, <2>4, LargestExists
<1>2. Latest(U) \in U /\ \A s \in U : Latest(U) >= s
  <2> HIDE DEF U
  <2> QED BY <1>1 DEF Latest
<1> QED BY <1>2

-----------------------------------------------------------------------------
(* Types.                                                                  *)

\* What ValidateBasic of the parameters gives the gate.
Configured(st) ==
    /\ st.params.chainCheck => st.params.countContract \in Contracts
    /\ st.params.walletCheck => st.params.walletContract \in Contracts

States == {st \in ChainState : Configured(st)}

RunsOK ==
    /\ run \in [Nodes -> [Kinds -> RunType]]
    /\ \A n \in Nodes, k \in Kinds : run[n][k] # Idle => run[n][k].st \in States

ChainEntries == CacheEntryOrMiss(
    [isOpen : BOOLEAN, timestamp : 0..MaxClock, height : 0..MaxHeight])
WalletEntries == CacheEntryOrMiss(
    [timestamp : 0..MaxClock, height : 0..MaxHeight, amount : Nat])

CachesOK ==
    /\ chainCache \in [Nodes -> ChainEntries]
    /\ walletCache \in [Nodes -> [Wallets -> WalletEntries]]

\* TypeOK of everything but the observer, with valid parameters also in the
\* states that a run or the last block holds.
CoreOK ==
    /\ now \in 0..MaxClock
    /\ height \in 1..MaxHeight
    /\ tx \in Txs \cup {NoTx}
    /\ blockTxs \in 0..MaxBlockTxs
    /\ done \subseteq Nodes
    /\ chain \in [Nodes -> States]
    /\ committed \in [Nodes -> States]
    /\ RunsOK
    /\ CachesOK

SeenOK == lastSeen \in [Nodes -> [Facts -> (-1)..MaxHeight]]

TypeInv == CoreOK /\ SeenOK

\* The run's type invariant follows from the one that is inductive.
LEMMA TypeInvImpliesTypeOK == TypeInv => TypeOK
  BY DEF TypeInv, CoreOK, RunsOK, CachesOK, ChainEntries, WalletEntries, SeenOK,
         TypeOK, States, Configured

\* A record of a run in progress.
LEMMA RunsTyped ==
    ASSUME CoreOK, NEW n \in Nodes, NEW k \in Kinds, run[n][k].phase # "idle"
    PROVE  LET r == run[n][k] IN
           /\ r # Idle
           /\ r \in RunType
           /\ r.st \in States
           /\ r.height \in 0..MaxHeight
           /\ r.msgs \in Seq(MessageType)
           /\ r.msgs # << >>
           /\ r.fails \in BOOLEAN
           /\ Head(r.msgs) \in MessageType
<1>1. run[n][k] \in RunType /\ run[n][k] # Idle
  BY DEF CoreOK, RunsOK, Idle
<1>2. run[n][k].st \in States
  BY <1>1 DEF CoreOK, RunsOK
<1> QED BY <1>1, <1>2 DEF RunType, Idle

\* The fields of a message that the gate reads.
LEMMA MessageFields ==
    ASSUME NEW m \in MessageType
    PROVE  m.from \in Wallets /\ m.value \in Nat
  BY DEF MessageType

\* ApplyTransaction keeps a well-formed state well-formed and the parameters
\* as they are.
LEMMA ApplyType ==
    ASSUME NEW m \in MessageType, NEW st \in States
    PROVE  Apply(m, st) \in States
<1>1. st \in ChainState /\ Configured(st)
  BY DEF States
<1>2. CASE m.kind = "transfer"
  <2>1. m.from \in Wallets /\ m.to \in Wallets /\ m.value \in Nat
    BY <1>2 DEF MessageType
  <2>2. CASE m.value > st.balance[m.from] \/ m.to = m.from
    BY <1>2, <2>2 DEF Apply
  <2>3. CASE ~(m.value > st.balance[m.from] \/ m.to = m.from)
    <3> DEFINE b == [[st.balance EXCEPT ![m.from] = @ - m.value]
                        EXCEPT ![m.to] = @ + m.value]
    <3>1. st.balance \in [Wallets -> Nat]
      BY <1>1 DEF ChainState
    <3>2. b \in [Wallets -> Nat]
      BY <2>1, <2>3, <3>1
    <3>3. Apply(m, st) = [st EXCEPT !.balance = b]
      BY <1>1, <1>2, <2>3, ZenonT(60) DEF Apply, ChainState
    <3> HIDE DEF b
    <3> QED BY <1>1, <3>2, <3>3 DEF States, ChainState, Configured
  <2> QED BY <2>2, <2>3
<1>3. CASE m.kind = "setCount"
  <2>1. m.contract \in Contracts /\ m.count \in Nat \cup {Reverted}
    BY <1>3 DEF MessageType
  <2>2. Apply(m, st) = [st EXCEPT !.count[m.contract] = m.count]
    BY <1>3 DEF Apply
  <2> QED BY <1>1, <2>1, <2>2, ZenonT(60) DEF States, ChainState, Configured
<1>4. CASE m.kind = "setLock"
  <2>1. m.contract \in Contracts /\ m.wallet \in Wallets /\ m.lock \in Lock
    BY <1>4 DEF MessageType
  <2> DEFINE l == [st.lock EXCEPT ![m.contract][m.wallet] = m.lock]
  <2>2. l \in [Contracts -> [Wallets -> Lock]]
    BY <1>1, <2>1 DEF ChainState
  <2>3. Apply(m, st) = [st EXCEPT !.lock = l]
    BY <1>1, <1>4 DEF Apply, ChainState
  <2> HIDE DEF l
  <2> QED BY <1>1, <2>2, <2>3 DEF States, ChainState, Configured
<1> QED BY <1>2, <1>3, <1>4 DEF MessageType

\* What the gate's steps do to the run: it enters another phase.
Phases == {"chain", "storeChain", "wallet", "storeWallet", "apply", "closed", "locked"}

\* A run that enters a phase keeps its type.
LEMMA EnterType ==
    ASSUME CoreOK, NEW n \in Nodes, NEW k \in Kinds, run[n][k].phase # "idle",
           NEW p \in Phases, Enter(n, k, p)
    PROVE  RunsOK'
<1> DEFINE r == [run[n][k] EXCEPT !.phase = p]
<1>1. run[n][k] \in RunType /\ run[n][k] # Idle /\ run[n][k].st \in States
  BY RunsTyped
<1>2. r \in RunType /\ r.st \in States
  BY <1>1 DEF RunType, Idle, Phases
<1>3. run' = [run EXCEPT ![n][k] = r]
  BY DEF Enter, CoreOK, RunsOK
<1> HIDE DEF r
<1> QED BY <1>2, <1>3 DEF CoreOK, RunsOK

\* A run that starts, goes on with its next message, or ends.
LEMMA ReplacedRunType ==
    ASSUME CoreOK, NEW n \in Nodes, NEW k \in Kinds,
           NEW r \in RunType, r = Idle \/ r.st \in States,
           run' = [run EXCEPT ![n][k] = r]
    PROVE  RunsOK'
  BY DEF CoreOK, RunsOK

\* A run begins with the messages of its transaction.
LEMMA NewRunType ==
    ASSUME NEW msgs \in Seq(MessageType), msgs # << >>, NEW fails \in BOOLEAN,
           NEW st \in States, NEW h \in 0..MaxHeight
    PROVE  /\ Run("chain", msgs, fails, st, h) \in RunType
           /\ Run("chain", msgs, fails, st, h).st \in States
  BY DEF Run, RunType, States

\* When a message is passed, those behind it are left.
LEMMA MessagesBehind ==
    ASSUME NEW S, NEW s \in Seq(S), Len(s) > 1
    PROVE  Tail(s) \in Seq(S) /\ Tail(s) # << >>
<1>1. s # << >>
  OBVIOUS
<1>2. Tail(s) \in Seq(S) /\ Len(Tail(s)) = Len(s) - 1
  BY <1>1
<1>3. Len(Tail(s)) # 0 /\ Len(<< >>) = 0
  BY <1>2
<1> QED BY <1>2, <1>3, Zenon

\* Cleanup leaves entries or misses.
LEMMA CleanupType ==
    ASSUME CoreOK, NEW n \in Nodes, NEW h \in 0..MaxHeight, Cleanup(n, h)
    PROVE  CachesOK'
<1>1. chainCache[n] \in ChainEntries /\ walletCache[n] \in [Wallets -> WalletEntries]
  BY DEF CoreOK, CachesOK
<1>2. ChainEntry(n, h) \in ChainEntries
  BY <1>1 DEF ChainEntry, Kept, ChainEntries, CacheEntryOrMiss
<1>3. [w \in Wallets |-> WalletEntry(n, w, h)] \in [Wallets -> WalletEntries]
  BY <1>1 DEF WalletEntry, Kept, WalletEntries, CacheEntryOrMiss
<1> QED BY <1>2, <1>3 DEF CoreOK, CachesOK, Cleanup

\* The end of a run, with the state that it leaves.
LEMMA FinishType ==
    ASSUME CoreOK, NEW n \in Nodes, NEW k \in Kinds, NEW st \in States,
           Finish(n, k, st)
    PROVE  CoreOK'
<1>1. RunsOK'
  BY ReplacedRunType DEF Finish, RunType
<1>2. CachesOK'
  BY DEF Finish, cacheVars, CoreOK, CachesOK
<1>3. chain' \in [Nodes -> States] /\ done' \subseteq Nodes /\ tx' \in Txs \cup {NoTx}
  BY DEF Finish, CoreOK
<1> QED BY <1>1, <1>2, <1>3 DEF Finish, CoreOK

\* Each step of the gate keeps the types.
LEMMA GateStepType ==
    ASSUME CoreOK, NEW n \in Nodes, NEW k \in Kinds, GateStep(n, k)
    PROVE  CoreOK'
<1> USE TxGateAssumption
<1> DEFINE r == run[n][k]
<1>0. r.phase # "idle"
  BY DEF GateStep, IsChainOpen, StoreChainStatus, IsWalletUnlocked,
         StoreWalletStatus, ApplyMessage, RefuseTx
<1>r. /\ r \in RunType /\ r.st \in States /\ r.height \in 0..MaxHeight
      /\ r.msgs \in Seq(MessageType) /\ r.msgs # << >> /\ r.fails \in BOOLEAN
      /\ Message(n, k) \in MessageType
  BY <1>0, RunsTyped DEF Message
<1>1. CASE IsChainOpen(n, k)
  <2>1. RunsOK'
    <3>1. PICK p \in Phases : Enter(n, k, p)
      BY <1>1 DEF IsChainOpen, Phases
    <3> QED BY <1>0, <3>1, EnterType
  <2>2. CachesOK'
    <3>1. CASE UNCHANGED cacheVars
      BY <3>1 DEF cacheVars, CoreOK, CachesOK
    <3>2. CASE Cleanup(n, r.height)
      BY <1>r, <3>2, CleanupType
    <3> QED BY <1>1, <3>1, <3>2 DEF IsChainOpen
  <2> QED BY <1>1, <2>1, <2>2 DEF IsChainOpen, chainVars, CoreOK
<1>2. CASE StoreChainStatus(n, k)
  <2>1. RunsOK'
    <3>1. PICK p \in Phases : Enter(n, k, p)
      BY <1>2 DEF StoreChainStatus, Phases
    <3> QED BY <1>0, <3>1, EnterType
  <2>2. CachesOK'
    <3>1. [isOpen |-> IsOpen(r.st), timestamp |-> now, height |-> r.height] \in ChainEntries
      BY <1>r DEF ChainEntries, CacheEntryOrMiss, CoreOK, IsOpen
    <3> QED BY <1>2, <3>1 DEF StoreChainStatus, CoreOK, CachesOK
  <2> QED BY <1>2, <2>1, <2>2 DEF StoreChainStatus, chainVars, CoreOK
<1>3. CASE IsWalletUnlocked(n, k)
  <2>1. RunsOK'
    <3>1. PICK p \in Phases : Enter(n, k, p)
      BY <1>3 DEF IsWalletUnlocked, Phases
    <3> QED BY <1>0, <3>1, EnterType
  <2>2. CachesOK'
    <3>1. CASE UNCHANGED cacheVars
      BY <3>1 DEF cacheVars, CoreOK, CachesOK
    <3>2. CASE Cleanup(n, r.height)
      BY <1>r, <3>2, CleanupType
    <3> QED BY <1>3, <3>1, <3>2 DEF IsWalletUnlocked
  <2> QED BY <1>3, <2>1, <2>2 DEF IsWalletUnlocked, chainVars, CoreOK
<1>4. CASE StoreWalletStatus(n, k)
  <2>1. RunsOK'
    <3>1. Enter(n, k, "apply") /\ "apply" \in Phases
      BY <1>4 DEF StoreWalletStatus, Phases
    <3> QED BY <1>0, <3>1, EnterType
  <2>2. CachesOK'
    <3>1. Message(n, k).from \in Wallets /\ Message(n, k).value \in Nat
      BY <1>r, MessageFields
    <3>2. [timestamp |-> now, height |-> r.height, amount |-> Message(n, k).value]
             \in WalletEntries
      BY <1>r, <3>1 DEF WalletEntries, CacheEntryOrMiss, CoreOK
    <3> QED BY <1>4, <3>1, <3>2 DEF StoreWalletStatus, CoreOK, CachesOK
  <2> QED BY <1>4, <2>1, <2>2 DEF StoreWalletStatus, chainVars, CoreOK
<1>5. CASE ApplyMessage(n, k)
  <2> DEFINE st == Apply(Message(n, k), r.st)
             next == Run("chain", Tail(r.msgs), r.fails, st, r.height)
  <2>1. st \in States
    BY <1>r, ApplyType
  <2> HIDE DEF st
  <2>2. CASE Len(r.msgs) > 1
    <3>1. Tail(r.msgs) \in Seq(MessageType) /\ Tail(r.msgs) # << >>
      <4> HIDE DEF r
      <4> QED BY <1>r, <2>2, MessagesBehind
    <3>2. next \in RunType /\ next.st \in States
      BY <1>r, <2>1, <3>1, NewRunType
    <3>3. run' = [run EXCEPT ![n][k] = next] /\ UNCHANGED <<now, chainVars, cacheVars>>
      BY <1>5, <2>2 DEF ApplyMessage, st
    <3> HIDE DEF next
    <3>4. RunsOK'
      BY <3>2, <3>3, ReplacedRunType
    <3> QED BY <3>3, <3>4 DEF chainVars, cacheVars, CoreOK, CachesOK
  <2>3. CASE ~(Len(r.msgs) > 1)
    <3>1. Finish(n, k, IF r.fails THEN chain[n] ELSE st)
      BY <1>5, <2>3 DEF ApplyMessage, st
    <3>2. (IF r.fails THEN chain[n] ELSE st) \in States
      BY <2>1 DEF CoreOK
    <3> QED BY <3>1, <3>2, FinishType
  <2> QED BY <2>2, <2>3
<1>6. CASE RefuseTx(n, k)
  <2>1. chain[n] \in States
    BY DEF CoreOK
  <2> QED BY <1>6, <2>1, FinishType DEF RefuseTx
<1> QED BY <1>1, <1>2, <1>3, <1>4, <1>5, <1>6 DEF GateStep

\* So does each step of the system.
LEMMA StepType == ASSUME CoreOK, Step PROVE CoreOK'
<1> USE TxGateAssumption
<1>1. CASE DecideTx
  BY <1>1 DEF DecideTx, CoreOK, RunsOK, CachesOK, cacheVars
<1>2. CASE EndBlock
  <2>1. chain' \in [Nodes -> States]
    <3>1. ASSUME NEW p \in ParamSets, ValidParams(p), NEW st \in States
          PROVE  [st EXCEPT !.params = p] \in States
      BY <3>1 DEF ValidParams, IsContractSet, States, ChainState, Configured, GateParams
    <3> QED BY <1>2, <3>1 DEF EndBlock, CoreOK
  <2> QED BY <1>2, <2>1 DEF EndBlock, CoreOK, RunsOK, CachesOK, cacheVars
<1>3. CASE Tick
  BY <1>3 DEF Tick, CoreOK, RunsOK, CachesOK, cacheVars, chainVars
<1>4. ASSUME NEW n \in Nodes, DeliverTx(n) PROVE CoreOK'
  <2>1. tx.msgs \in Seq(MessageType) /\ tx.msgs # << >> /\ tx.fails \in BOOLEAN
    BY <1>4 DEF DeliverTx, CoreOK, TxType
  <2>2. chain[n] \in States /\ height \in 0..MaxHeight
    BY DEF CoreOK
  <2>3. RunsOK'
    BY <1>4, <2>1, <2>2, NewRunType, ReplacedRunType DEF DeliverTx, Kinds
  <2> QED BY <1>4, <2>3 DEF DeliverTx, CoreOK, CachesOK, cacheVars, chainVars
<1>5. ASSUME NEW n \in Nodes, Simulate(n) PROVE CoreOK'
  <2>1. PICK t \in Txs : run' = [run EXCEPT
            ![n]["simulate"] = Run("chain", t.msgs, t.fails, committed[n], height - 1)]
    BY <1>5 DEF Simulate
  <2>2. t.msgs \in Seq(MessageType) /\ t.msgs # << >> /\ t.fails \in BOOLEAN
    BY DEF TxType
  <2>3. committed[n] \in States /\ height - 1 \in 0..MaxHeight
    BY DEF CoreOK
  <2>4. RunsOK'
    BY <2>1, <2>2, <2>3, NewRunType, ReplacedRunType DEF Kinds
  <2> QED BY <1>5, <2>4 DEF Simulate, CoreOK, CachesOK, cacheVars, chainVars
<1>6. ASSUME NEW n \in Nodes, Restart(n) PROVE CoreOK'
  <2>1. RunsOK'
    BY <1>6 DEF Restart, CoreOK, RunsOK, RunType
  <2>2. CachesOK'
    BY <1>6 DEF Restart, CoreOK, CachesOK, ChainEntries, WalletEntries, CacheEntryOrMiss
  <2> QED BY <1>6, <2>1, <2>2 DEF Restart, CoreOK, chainVars
<1>7. ASSUME NEW n \in Nodes, NEW k \in Kinds, GateStep(n, k) PROVE CoreOK'
  BY <1>7, GateStepType
<1> QED BY <1>1, <1>2, <1>3, <1>4, <1>5, <1>6, <1>7 DEF Step

\* The initial state has its types.
LEMMA InitCore == Init => CoreOK
<1> SUFFICES ASSUME Init PROVE CoreOK
  OBVIOUS
<1> USE TxGateAssumption
<1>1. \A st \in GenesisStates : st \in States
  BY DEF States, ChainState, GateParams, Configured, ValidParams, IsContractSet
<1>2. chain \in [Nodes -> States] /\ committed \in [Nodes -> States]
  BY <1>1 DEF Init
<1>3. RunsOK
  BY DEF Init, RunsOK, RunType
<1>4. CachesOK
  BY DEF Init, CachesOK, ChainEntries, WalletEntries, CacheEntryOrMiss
<1> QED BY <1>2, <1>3, <1>4 DEF Init, CoreOK

\* Every state that a run holds has been seen.
RunsSeen ==
    \A n \in Nodes, k \in Kinds, f \in Facts :
        run[n][k] # Idle /\ Holds(run[n][k].st, f)
            => run[n][k].height <= lastSeen[n][f]

\* What a replica can have seen of a fact are heights, or none.
LEMMA SightingsType ==
    ASSUME NEW n \in Nodes, NEW f \in Facts, NEW ch, NEW h \in 1..MaxHeight, NEW r,
           \A k \in Kinds : r[n][k] # Idle => r[n][k].height \in 0..MaxHeight
    PROVE  Sightings(n, f, ch, h, r) \in SUBSET ((-1)..MaxHeight)
<1>1. h \in (-1)..MaxHeight /\ \A i \in 0..MaxHeight : i \in (-1)..MaxHeight
  BY TxGateAssumption
<1> QED BY <1>1 DEF Sightings

\* A sighting once made is never taken back: lastSeen only grows.
LEMMA ObserveStep ==
    ASSUME TypeInv, CoreOK', Observe
    PROVE  /\ SeenOK'
           /\ RunsSeen'
           /\ \A n \in Nodes, f \in Facts : lastSeen'[n][f] >= lastSeen[n][f]
<1>1. ASSUME NEW n \in Nodes, NEW f \in Facts
      PROVE  /\ lastSeen'[n][f] \in (-1)..MaxHeight
             /\ \A s \in {lastSeen[n][f]} \cup Sightings(n, f, chain', height', run') :
                   lastSeen'[n][f] >= s
  <2> DEFINE S == Sightings(n, f, chain', height', run')
  <2>1. S \in SUBSET ((-1)..MaxHeight)
    <3>1. \A k \in Kinds : run'[n][k] # Idle => run'[n][k].height \in 0..MaxHeight
      BY DEF CoreOK, RunsOK, RunType, Idle
    <3>2. height' \in 1..MaxHeight
      BY DEF CoreOK
    <3> QED BY <3>1, <3>2, SightingsType
  <2>2. lastSeen[n][f] \in (-1)..MaxHeight /\ MaxHeight \in Nat
    BY TxGateAssumption DEF TypeInv, SeenOK
  <2>3. lastSeen'[n][f] = Latest({lastSeen[n][f]} \cup S)
    BY DEF Observe
  <2> HIDE DEF S
  <2>4. /\ Latest({lastSeen[n][f]} \cup S) \in (-1)..MaxHeight
        /\ \A s \in {lastSeen[n][f]} \cup S : Latest({lastSeen[n][f]} \cup S) >= s
    BY <2>1, <2>2, LatestOfSightings
  <2> QED BY <2>3, <2>4 DEF S
<1>2. SeenOK'
  BY <1>1 DEF Observe, SeenOK
<1>3. RunsSeen'
  <2> SUFFICES ASSUME NEW n \in Nodes, NEW k \in Kinds, NEW f \in Facts,
                      run'[n][k] # Idle, Holds(run'[n][k].st, f)
               PROVE  run'[n][k].height <= lastSeen'[n][f]
    BY DEF RunsSeen
  <2>1. run'[n][k].height \in Sightings(n, f, chain', height', run')
    BY DEF Sightings
  <2>2. lastSeen'[n][f] >= run'[n][k].height
    BY <1>1, <2>1
  <2>3. run'[n][k].height \in Int /\ lastSeen'[n][f] \in Int
    BY <1>1 DEF CoreOK, RunsOK, RunType, Idle
  <2> QED BY <2>2, <2>3
<1>4. \A n \in Nodes, f \in Facts : lastSeen'[n][f] >= lastSeen[n][f]
  BY <1>1
<1> QED BY <1>2, <1>3, <1>4

\* Nothing has been seen at the start.
LEMMA InitSeen == Init => SeenOK /\ RunsSeen
<1> SUFFICES ASSUME Init PROVE SeenOK /\ RunsSeen
  OBVIOUS
<1> USE TxGateAssumption
<1>1. ASSUME NEW n \in Nodes, NEW f \in Facts
      PROVE  Latest({-1} \cup Sightings(n, f, chain, height, run)) \in (-1)..MaxHeight
  <2> DEFINE S == Sightings(n, f, chain, height, run)
  <2>1. S \in SUBSET ((-1)..MaxHeight)
    BY SightingsType, SMTT(60) DEF Init
  <2> DEFINE l == -1
  <2>2. l \in (-1)..MaxHeight /\ MaxHeight \in Nat
    OBVIOUS
  <2> HIDE DEF S, l
  <2>3. Latest({l} \cup S) \in (-1)..MaxHeight
    BY <2>1, <2>2, LatestOfSightings
  <2> QED BY <2>3 DEF l, S
<1>2. SeenOK
  BY <1>1 DEF Init, SeenOK
<1>3. RunsSeen
  BY DEF Init, RunsSeen
<1> QED BY <1>2, <1>3

\* The types are inductive.
LEMMA StepTypeInv ==
    ASSUME TypeInv, [Next]_vars
    PROVE  TypeInv'
<1>1. CASE Next
  BY <1>1, StepType, ObserveStep DEF Next, TypeInv
<1>2. CASE UNCHANGED vars
  BY <1>2 DEF vars, chainVars, cacheVars, TypeInv, CoreOK, RunsOK, CachesOK, SeenOK
<1> QED BY <1>1, <1>2

\* TypeOK: every variable stays within its type, the parameters valid, whatever
\* the transactions, the parameter changes and the windows are.
THEOREM TypeCorrect == Spec => []TypeOK
<1>1. Init => TypeInv
  BY InitCore, InitSeen DEF TypeInv
<1>2. TypeInv /\ [Next]_vars => TypeInv'
  BY StepTypeInv
<1>3. TypeInv => TypeOK
  BY TypeInvImpliesTypeOK
<1> QED BY <1>1, <1>2, <1>3, PTL DEF Spec

-----------------------------------------------------------------------------
(* Locks and the chain's status.                                           *)

\* The height h is not too far behind the last sighting of f in seen.
Fresh(h, seen, f, window) == h <= seen[f] + window

ChainFresh(r, seen) ==
    ChainCheckSkipped(r.st.params) \/ Fresh(r.height, seen, "open", ChainWindow)

WalletFresh(r, seen) ==
    \/ WalletCheckSkipped(r.st.params)
    \/ Fresh(r.height, seen, Head(r.msgs).from, WalletWindow)

\* What a run has established when it is in a phase: the checks it has passed
\* were fresh, and what it is about to store was seen.
RunOK(r, seen) ==
    /\ r.phase \in {"storeChain", "wallet", "storeWallet"} =>
          ~Exempt(r.st, Head(r.msgs).from)
    /\ r.phase = "storeChain" => ~ChainCheckSkipped(r.st.params)
    /\ r.phase \in {"wallet", "storeWallet"} => ChainFresh(r, seen)
    /\ r.phase = "storeWallet" =>
          /\ ~WalletCheckSkipped(r.st.params)
          /\ NotAbsolutelyLocked(r.st, Head(r.msgs).from)
    /\ r.phase = "closed" => Fresh(r.height, seen, "closed", ChainWindow)
    /\ r.phase = "apply" =>
          \/ Exempt(r.st, Head(r.msgs).from)
          \/ ChainFresh(r, seen) /\ WalletFresh(r, seen)

\* No entry of a map is younger than the last sighting of what it says.
ChainEntryOK(e, seen) ==
    e # Miss => e.height <= seen[IF e.isOpen THEN "open" ELSE "closed"]

WalletEntryOK(e, w, seen) == e # Miss => e.height <= seen[w]

EntriesOK ==
    \A n \in Nodes :
        /\ ChainEntryOK(chainCache[n], lastSeen[n])
        /\ \A w \in Wallets : WalletEntryOK(walletCache[n][w], w, lastSeen[n])

RunsOKSeen == \A n \in Nodes, k \in Kinds : RunOK(run[n][k], lastSeen[n])

GateInv == TypeInv /\ RunsSeen /\ EntriesOK /\ RunsOKSeen

\* Later sightings leave all of it true.
LEMMA LaterSightings ==
    ASSUME NEW s \in [Facts -> (-1)..MaxHeight], NEW l \in [Facts -> (-1)..MaxHeight],
           \A f \in Facts : l[f] >= s[f]
    PROVE  /\ \A r \in RunType : RunOK(r, s) => RunOK(r, l)
           /\ \A e \in ChainEntries : ChainEntryOK(e, s) => ChainEntryOK(e, l)
           /\ \A e \in WalletEntries, w \in Wallets :
                 WalletEntryOK(e, w, s) => WalletEntryOK(e, w, l)
<1> USE TxGateAssumption
<1>1. "open" \in Facts /\ "closed" \in Facts /\ Wallets \subseteq Facts
  BY DEF Facts
<1>2. ASSUME NEW h \in 0..MaxHeight, NEW f \in Facts, NEW w \in Nat, Fresh(h, s, f, w)
      PROVE  Fresh(h, l, f, w)
  BY <1>2, SMTT(60) DEF Fresh
<1>3. ASSUME NEW r \in RunType, RunOK(r, s)
      PROVE  RunOK(r, l)
  <2>1. CASE r = Idle
    BY <2>1 DEF RunOK, Idle
  <2>2. CASE r # Idle
    <3>1. r.height \in 0..MaxHeight /\ Head(r.msgs).from \in Facts
      <4>1. r.msgs \in Seq(MessageType) /\ r.msgs # << >> /\ r.height \in 0..MaxHeight
        BY <2>2 DEF RunType
      <4>2. Head(r.msgs) \in MessageType
        BY <4>1
      <4> QED BY <1>1, <4>1, <4>2, MessageFields
    <3>2. ChainFresh(r, s) => ChainFresh(r, l)
      BY <1>1, <1>2, <3>1 DEF ChainFresh
    <3>3. WalletFresh(r, s) => WalletFresh(r, l)
      BY <1>1, <1>2, <3>1 DEF WalletFresh
    <3>4. r.phase = "closed" => Fresh(r.height, l, "closed", ChainWindow)
      BY <1>1, <1>2, <1>3, <3>1 DEF RunOK
    <3> QED BY <1>3, <3>2, <3>3, <3>4 DEF RunOK
  <2> QED BY <2>1, <2>2
<1>4. ASSUME NEW e \in ChainEntries, ChainEntryOK(e, s)
      PROVE  ChainEntryOK(e, l)
  BY <1>1, <1>4, SMTT(60) DEF ChainEntryOK, ChainEntries, CacheEntryOrMiss, Miss
<1>5. ASSUME NEW e \in WalletEntries, NEW w \in Wallets, WalletEntryOK(e, w, s)
      PROVE  WalletEntryOK(e, w, l)
  BY <1>1, <1>5, SMTT(60) DEF WalletEntryOK, WalletEntries, CacheEntryOrMiss, Miss
<1> QED BY <1>3, <1>4, <1>5

\* A cleanup drops entries and invents none.
LEMMA CleanedEntries ==
    ASSUME TypeInv, EntriesOK, NEW n \in Nodes, NEW h
    PROVE  /\ ChainEntryOK(ChainEntry(n, h), lastSeen[n])
           /\ \A w \in Wallets : WalletEntryOK(WalletEntry(n, w, h), w, lastSeen[n])
  BY DEF EntriesOK, ChainEntryOK, WalletEntryOK, ChainEntry, WalletEntry, Kept, Miss

\* A hit is at most the window away from a sighting.
LEMMA HitsAreFresh ==
    ASSUME TypeInv, EntriesOK, NEW n \in Nodes, NEW h \in 0..MaxHeight
    PROVE  /\ LET e == ChainEntry(n, h) IN
              ChainHit(e, h) =>
                 Fresh(h, lastSeen[n], IF e.isOpen THEN "open" ELSE "closed", ChainWindow)
           /\ \A w \in Wallets, v \in Nat :
                 WalletHit(WalletEntry(n, w, h), h, v)
                    => Fresh(h, lastSeen[n], w, WalletWindow)
<1> USE TxGateAssumption
<1>1. chainCache[n] \in ChainEntries /\ walletCache[n] \in [Wallets -> WalletEntries]
  BY DEF TypeInv, CoreOK, CachesOK
<1>2. "open" \in Facts /\ "closed" \in Facts /\ Wallets \subseteq Facts
  BY DEF Facts
<1>3. lastSeen[n] \in [Facts -> (-1)..MaxHeight]
  BY DEF TypeInv, SeenOK
<1>4. ASSUME NEW e \in ChainEntries, ChainEntryOK(e, lastSeen[n]), ChainHit(e, h)
      PROVE  Fresh(h, lastSeen[n], IF e.isOpen THEN "open" ELSE "closed", ChainWindow)
  <2>1. e.height \in 0..MaxHeight /\ e.isOpen \in BOOLEAN
    BY <1>4 DEF ChainHit, ChainEntries, CacheEntryOrMiss
  <2>2. e.height <= lastSeen[n][IF e.isOpen THEN "open" ELSE "closed"]
    BY <1>4 DEF ChainHit, ChainEntryOK
  <2>3. h - e.height <= ChainWindow
    BY <1>4, <2>1 DEF ChainHit, Abs
  <2> DEFINE f == IF e.isOpen THEN "open" ELSE "closed"
  <2>4. lastSeen[n][f] \in Int /\ ChainWindow \in Nat
    BY <1>2, <1>3
  <2>5. e.height <= lastSeen[n][f]
    BY <2>2
  <2> HIDE DEF f
  <2>6. h <= lastSeen[n][f] + ChainWindow
    BY <2>1, <2>3, <2>4, <2>5, SMTT(60)
  <2> QED BY <2>6 DEF Fresh, f
<1>5. ASSUME NEW w \in Wallets, NEW v \in Nat, NEW e \in WalletEntries,
             WalletEntryOK(e, w, lastSeen[n]), WalletHit(e, h, v)
      PROVE  Fresh(h, lastSeen[n], w, WalletWindow)
  <2>1. e.height \in 0..MaxHeight
    BY <1>5 DEF WalletHit, WalletEntries, CacheEntryOrMiss
  <2>2. e.height <= lastSeen[n][w]
    BY <1>5 DEF WalletHit, WalletEntryOK
  <2>3. h - e.height <= WalletWindow
    BY <1>5, <2>1 DEF WalletHit, Abs
  <2>4. lastSeen[n][w] \in Int /\ WalletWindow \in Nat
    BY <1>2, <1>3
  <2> QED BY <2>1, <2>2, <2>3, <2>4, SMTT(60) DEF Fresh
<1>6. ChainEntry(n, h) \in ChainEntries
  BY <1>1 DEF ChainEntry, Kept, ChainEntries, CacheEntryOrMiss
<1>7. \A w \in Wallets : WalletEntry(n, w, h) \in WalletEntries
  BY <1>1 DEF WalletEntry, Kept, WalletEntries, CacheEntryOrMiss
<1> QED BY <1>4, <1>5, <1>6, <1>7, CleanedEntries

\* A run that enters another phase, or is replaced, and caches that change.
LEMMA RunsKept ==
    ASSUME RunsOKSeen, NEW n \in Nodes, NEW k \in Kinds, NEW r,
           run \in [Nodes -> [Kinds -> RunType]],
           run' = [run EXCEPT ![n][k] = r], RunOK(r, lastSeen[n])
    PROVE  \A m \in Nodes, j \in Kinds : RunOK(run'[m][j], lastSeen[m])
  BY DEF RunsOKSeen

\* A run that is not there promises nothing.
LEMMA IdleOK == ASSUME NEW s PROVE RunOK(Idle, s)
  BY DEF RunOK, Idle

\* Nor does one that has read nothing yet.
LEMMA NewRunOK == ASSUME NEW m, NEW b, NEW st, NEW h, NEW s
                  PROVE  RunOK(Run("chain", m, b, st, h), s)
  BY DEF RunOK, Run

\* The runs and the entries after a step, measured by the sightings before it.
NextOK ==
    /\ \A n \in Nodes, k \in Kinds : RunOK(run'[n][k], lastSeen[n])
    /\ \A n \in Nodes :
        /\ ChainEntryOK(chainCache'[n], lastSeen[n])
        /\ \A w \in Wallets : WalletEntryOK(walletCache'[n][w], w, lastSeen[n])

\* Entries stay as good as they were while the caches are left alone.
LEMMA CachesUntouched ==
    ASSUME EntriesOK, UNCHANGED cacheVars
    PROVE  \A n \in Nodes :
              /\ ChainEntryOK(chainCache'[n], lastSeen[n])
              /\ \A w \in Wallets : WalletEntryOK(walletCache'[n][w], w, lastSeen[n])
  BY DEF EntriesOK, cacheVars

\* Cleanup removes entries and adds none.
LEMMA CachesCleaned ==
    ASSUME TypeInv, EntriesOK, NEW n \in Nodes, NEW h, Cleanup(n, h)
    PROVE  \A m \in Nodes :
              /\ ChainEntryOK(chainCache'[m], lastSeen[m])
              /\ \A w \in Wallets : WalletEntryOK(walletCache'[m][w], w, lastSeen[m])
<1>1. ASSUME NEW m \in Nodes, m = n
      PROVE  /\ ChainEntryOK(chainCache'[m], lastSeen[m])
             /\ \A w \in Wallets : WalletEntryOK(walletCache'[m][w], w, lastSeen[m])
  <2>1. /\ chainCache'[m] = ChainEntry(n, h)
        /\ \A w \in Wallets : walletCache'[m][w] = WalletEntry(n, w, h)
    BY <1>1 DEF Cleanup, TypeInv, CoreOK, CachesOK
  <2> QED BY <1>1, <2>1, CleanedEntries
<1>2. ASSUME NEW m \in Nodes, m # n
      PROVE  /\ ChainEntryOK(chainCache'[m], lastSeen[m])
             /\ \A w \in Wallets : WalletEntryOK(walletCache'[m][w], w, lastSeen[m])
  <2>1. chainCache'[m] = chainCache[m] /\ walletCache'[m] = walletCache[m]
    BY <1>2 DEF Cleanup, TypeInv, CoreOK, CachesOK
  <2> QED BY <2>1 DEF EntriesOK
<1> QED BY <1>1, <1>2

\* A step of the gate reads the cache or the state, fills the cache from the state
\* it read, or decides.
LEMMA GateStepOK ==
    ASSUME GateInv, NEW n \in Nodes, NEW k \in Kinds, GateStep(n, k)
    PROVE  NextOK
<1> DEFINE r == run[n][k]
           m == Message(n, k)
           s == lastSeen[n]
<1>t. TypeInv /\ CoreOK /\ EntriesOK /\ RunsSeen /\ RunsOKSeen
  BY DEF GateInv, TypeInv
<1>u. run \in [Nodes -> [Kinds -> RunType]]
  BY <1>t DEF CoreOK, RunsOK
<1>0. r.phase # "idle"
  BY DEF GateStep, IsChainOpen, StoreChainStatus, IsWalletUnlocked,
         StoreWalletStatus, ApplyMessage, RefuseTx
<1>r. /\ r # Idle /\ r \in RunType /\ r.st \in States /\ r.height \in 0..MaxHeight
      /\ m \in MessageType /\ m = Head(r.msgs)
      /\ m.from \in Wallets /\ m.value \in Nat /\ m.from \in Facts
  BY <1>0, <1>t, RunsTyped, MessageFields DEF Message, Facts
<1>o. RunOK(r, s)
  BY <1>t DEF RunsOKSeen
\* A phase entered is a run replaced.
<1>e. ASSUME NEW p \in Phases, Enter(n, k, p), RunOK([r EXCEPT !.phase = p], s)
      PROVE  \A a \in Nodes, j \in Kinds : RunOK(run'[a][j], lastSeen[a])
  <2> DEFINE q == [r EXCEPT !.phase = p]
  <2>1. run' = [run EXCEPT ![n][k] = q]
    BY <1>e, <1>u DEF Enter
  <2>2. RunOK(q, s)
    BY <1>e
  <2> HIDE DEF q
  <2> QED BY <1>t, <1>u, <2>1, <2>2, RunsKept
<1>f. ASSUME NEW p \in Phases
      PROVE  LET q == [r EXCEPT !.phase = p] IN
             /\ q.phase = p /\ q.msgs = r.msgs /\ q.st = r.st /\ q.height = r.height
  BY <1>r DEF RunType, Idle
<1>1. CASE IsChainOpen(n, k)
  <2> DEFINE e == ChainEntry(n, r.height)
  <2>1. CASE Exempt(r.st, m.from)
    <3>1. Enter(n, k, "apply") /\ UNCHANGED cacheVars
      BY <1>1, <2>1 DEF IsChainOpen
    <3>2. RunOK([r EXCEPT !.phase = "apply"], s)
      BY <1>f, <1>r, <2>1 DEF RunOK, Phases
    <3> QED BY <1>e, <1>t, <3>1, <3>2, CachesUntouched DEF NextOK, Phases
  <2>2. CASE ~Exempt(r.st, m.from) /\ ChainCheckSkipped(r.st.params)
    <3>1. Enter(n, k, "wallet") /\ UNCHANGED cacheVars
      BY <1>1, <2>2 DEF IsChainOpen
    <3>2. RunOK([r EXCEPT !.phase = "wallet"], s)
      BY <1>f, <1>r, <2>2 DEF RunOK, Phases, ChainFresh
    <3> QED BY <1>e, <1>t, <3>1, <3>2, CachesUntouched DEF NextOK, Phases
  <2>3. CASE ~Exempt(r.st, m.from) /\ ~ChainCheckSkipped(r.st.params)
    <3>1. Cleanup(n, r.height)
      BY <1>1, <2>3 DEF IsChainOpen
    <3>2. \A a \in Nodes, j \in Kinds : RunOK(run'[a][j], lastSeen[a])
      <4>1. CASE ~ChainHit(e, r.height)
        <5>1. Enter(n, k, "storeChain")
          BY <1>1, <2>3, <4>1 DEF IsChainOpen
        <5>2. RunOK([r EXCEPT !.phase = "storeChain"], s)
          BY <1>f, <1>r, <2>3 DEF RunOK, Phases
        <5> QED BY <1>e, <5>1, <5>2 DEF Phases
      <4>2. CASE ChainHit(e, r.height) /\ e.isOpen
        <5>1. Enter(n, k, "wallet")
          BY <1>1, <2>3, <4>2 DEF IsChainOpen
        <5>2. Fresh(r.height, s, "open", ChainWindow)
          BY <1>r, <1>t, <4>2, HitsAreFresh
        <5>3. RunOK([r EXCEPT !.phase = "wallet"], s)
          BY <1>f, <1>r, <2>3, <5>2 DEF RunOK, Phases, ChainFresh
        <5> QED BY <1>e, <5>1, <5>3 DEF Phases
      <4>3. CASE ChainHit(e, r.height) /\ ~e.isOpen
        <5>1. Enter(n, k, "closed")
          BY <1>1, <2>3, <4>3 DEF IsChainOpen
        <5>2. Fresh(r.height, s, "closed", ChainWindow)
          BY <1>r, <1>t, <4>3, HitsAreFresh
        <5>3. RunOK([r EXCEPT !.phase = "closed"], s)
          BY <1>f, <1>r, <5>2 DEF RunOK, Phases
        <5> QED BY <1>e, <5>1, <5>3 DEF Phases
      <4> QED BY <4>1, <4>2, <4>3
    <3> QED BY <1>t, <3>1, <3>2, CachesCleaned DEF NextOK
  <2> QED BY <2>1, <2>2, <2>3
<1>2. CASE StoreChainStatus(n, k)
  <2> DEFINE f == IF IsOpen(r.st) THEN "open" ELSE "closed"
             p == IF IsOpen(r.st) THEN "wallet" ELSE "closed"
             e == [isOpen |-> IsOpen(r.st), timestamp |-> now, height |-> r.height]
  <2>1. r.phase = "storeChain" /\ ~Exempt(r.st, m.from)
        /\ ~ChainCheckSkipped(r.st.params)
    BY <1>2, <1>o, <1>r DEF StoreChainStatus, RunOK
  <2>2. Holds(r.st, f) /\ f \in Facts
    BY <2>1 DEF Holds, ChainCheckSkipped, Facts
  <2>3. r.height <= s[f]
    BY <1>r, <1>t, <2>2 DEF RunsSeen
  <2>4. Fresh(r.height, s, f, ChainWindow)
    <3>1. s[f] \in Int /\ r.height \in Int /\ ChainWindow \in Nat
      BY <1>r, <1>t, <2>2, TxGateAssumption DEF TypeInv, SeenOK
    <3> HIDE DEF f
    <3> QED BY <2>3, <3>1 DEF Fresh
  <2>5. Enter(n, k, p) /\ p \in Phases
    BY <1>2 DEF StoreChainStatus, Phases
  <2>6. RunOK([r EXCEPT !.phase = p], s)
    <3>1. CASE IsOpen(r.st)
      BY <1>f, <1>r, <2>1, <2>4, <3>1 DEF RunOK, Phases, ChainFresh
    <3>2. CASE ~IsOpen(r.st)
      BY <1>f, <1>r, <2>4, <3>2 DEF RunOK, Phases
    <3> QED BY <3>1, <3>2
  <2>7. \A a \in Nodes, j \in Kinds : RunOK(run'[a][j], lastSeen[a])
    <3> HIDE DEF p
    <3> QED BY <1>e, <2>5, <2>6
  <2>8. ChainEntryOK(e, s)
    BY <2>3 DEF ChainEntryOK
  <2>9. chainCache' = [chainCache EXCEPT ![n] = e] /\ walletCache' = walletCache
    BY <1>2 DEF StoreChainStatus
  <2> HIDE DEF e
  <2>10. \A a \in Nodes : ChainEntryOK(chainCache'[a], lastSeen[a])
    BY <1>t, <2>8, <2>9 DEF EntriesOK, CoreOK, CachesOK
  <2> QED BY <1>t, <2>7, <2>9, <2>10 DEF NextOK, EntriesOK
<1>3. CASE IsWalletUnlocked(n, k)
  <2>1. r.phase = "wallet" /\ ~Exempt(r.st, m.from) /\ ChainFresh(r, s)
    BY <1>3, <1>o, <1>r DEF IsWalletUnlocked, RunOK
  <2>2. CASE WalletCheckSkipped(r.st.params)
    <3>1. Enter(n, k, "apply") /\ UNCHANGED cacheVars
      BY <1>3, <2>2 DEF IsWalletUnlocked
    <3>2. RunOK([r EXCEPT !.phase = "apply"], s)
      BY <1>f, <1>r, <2>1, <2>2 DEF RunOK, Phases, ChainFresh, WalletFresh
    <3> QED BY <1>e, <1>t, <3>1, <3>2, CachesUntouched DEF NextOK, Phases
  <2>3. CASE ~WalletCheckSkipped(r.st.params)
    <3> DEFINE hit == WalletHit(WalletEntry(n, m.from, r.height), r.height, m.value)
    <3>1. Cleanup(n, r.height)
      BY <1>3, <2>3 DEF IsWalletUnlocked
    <3>2. \A a \in Nodes, j \in Kinds : RunOK(run'[a][j], lastSeen[a])
      <4>1. CASE hit
        <5>1. Enter(n, k, "apply")
          BY <1>3, <2>3, <4>1 DEF IsWalletUnlocked
        <5>2. Fresh(r.height, s, m.from, WalletWindow)
          BY <1>r, <1>t, <4>1, HitsAreFresh
        <5>3. RunOK([r EXCEPT !.phase = "apply"], s)
          BY <1>f, <1>r, <2>1, <5>2 DEF RunOK, Phases, ChainFresh, WalletFresh
        <5> QED BY <1>e, <5>1, <5>3 DEF Phases
      <4>2. CASE ~hit /\ UnlockedFor(r.st, m.from, m.value)
        <5>1. Enter(n, k, "storeWallet")
          BY <1>3, <2>3, <4>2 DEF IsWalletUnlocked
        <5>2. NotAbsolutelyLocked(r.st, m.from)
          BY <4>2 DEF UnlockedFor, NotAbsolutelyLocked
        <5>3. RunOK([r EXCEPT !.phase = "storeWallet"], s)
          BY <1>f, <1>r, <2>1, <2>3, <5>2 DEF RunOK, Phases, ChainFresh
        <5> QED BY <1>e, <5>1, <5>3 DEF Phases
      <4>3. CASE ~hit /\ ~UnlockedFor(r.st, m.from, m.value)
        <5>1. Enter(n, k, "locked")
          BY <1>3, <2>3, <4>3 DEF IsWalletUnlocked
        <5>2. RunOK([r EXCEPT !.phase = "locked"], s)
          BY <1>f DEF RunOK, Phases
        <5> QED BY <1>e, <5>1, <5>2 DEF Phases
      <4> QED BY <4>1, <4>2, <4>3
    <3> QED BY <1>t, <3>1, <3>2, CachesCleaned DEF NextOK
  <2> QED BY <2>2, <2>3
<1>4. CASE StoreWalletStatus(n, k)
  <2> DEFINE e == [timestamp |-> now, height |-> r.height, amount |-> m.value]
  <2>1. /\ r.phase = "storeWallet" /\ ~Exempt(r.st, m.from) /\ ChainFresh(r, s)
        /\ NotAbsolutelyLocked(r.st, m.from)
    BY <1>4, <1>o, <1>r DEF StoreWalletStatus, RunOK
  <2>2. Holds(r.st, m.from)
    BY <1>r, <2>1, TxGateAssumption DEF Holds
  <2>3. r.height <= s[m.from]
    BY <1>r, <1>t, <2>2 DEF RunsSeen
  <2>4. Fresh(r.height, s, m.from, WalletWindow)
    <3>1. s[m.from] \in Int /\ r.height \in Int /\ WalletWindow \in Nat
      BY <1>r, <1>t, TxGateAssumption, SMTT(60) DEF TypeInv, SeenOK
    <3> QED BY <2>3, <3>1 DEF Fresh
  <2>5. RunOK([r EXCEPT !.phase = "apply"], s)
    BY <1>f, <1>r, <2>1, <2>4 DEF RunOK, Phases, ChainFresh, WalletFresh
  <2>6. \A a \in Nodes, j \in Kinds : RunOK(run'[a][j], lastSeen[a])
    BY <1>4, <1>e, <2>5 DEF StoreWalletStatus, Phases
  <2>7. WalletEntryOK(e, m.from, s)
    BY <2>3 DEF WalletEntryOK
  <2>8. walletCache' = [walletCache EXCEPT ![n][m.from] = e] /\ chainCache' = chainCache
    BY <1>4 DEF StoreWalletStatus
  <2> HIDE DEF e
  <2>9. \A a \in Nodes, w \in Wallets : WalletEntryOK(walletCache'[a][w], w, lastSeen[a])
    BY <1>r, <1>t, <2>7, <2>8 DEF EntriesOK, CoreOK, CachesOK
  <2> QED BY <1>t, <2>6, <2>8, <2>9 DEF NextOK, EntriesOK
<1>5. CASE ApplyMessage(n, k)
  <2>1. UNCHANGED cacheVars
    BY <1>5 DEF ApplyMessage, Finish
  <2>2. \A a \in Nodes, j \in Kinds : RunOK(run'[a][j], lastSeen[a])
    <3>1. PICK q : run' = [run EXCEPT ![n][k] = q] /\ RunOK(q, s)
      BY <1>5, IdleOK, NewRunOK DEF ApplyMessage, Finish
    <3> QED BY <1>t, <1>u, <3>1, RunsKept
  <2> QED BY <1>t, <2>1, <2>2, CachesUntouched DEF NextOK
<1>6. CASE RefuseTx(n, k)
  <2>1. UNCHANGED cacheVars /\ run' = [run EXCEPT ![n][k] = Idle]
    BY <1>6 DEF RefuseTx, Finish
  <2>2. \A a \in Nodes, j \in Kinds : RunOK(run'[a][j], lastSeen[a])
    BY <1>t, <1>u, <2>1, IdleOK, RunsKept
  <2> QED BY <1>t, <2>1, <2>2, CachesUntouched DEF NextOK
<1> QED BY <1>1, <1>2, <1>3, <1>4, <1>5, <1>6 DEF GateStep

\* Every step keeps what the caches and the runs promise.
LEMMA StepOK == ASSUME GateInv, Step PROVE NextOK
<1>t. TypeInv /\ EntriesOK /\ RunsOKSeen /\ run \in [Nodes -> [Kinds -> RunType]]
  BY DEF GateInv, TypeInv, CoreOK, RunsOK
<1>1. CASE DecideTx \/ EndBlock \/ Tick
  <2>1. UNCHANGED <<run, cacheVars>>
    BY <1>1 DEF DecideTx, EndBlock, Tick
  <2> QED BY <1>t, <2>1, CachesUntouched DEF NextOK, RunsOKSeen
<1>2. ASSUME NEW n \in Nodes, DeliverTx(n) \/ Simulate(n) PROVE NextOK
  <2>1. UNCHANGED cacheVars
    BY <1>2 DEF DeliverTx, Simulate
  <2>k. PICK k \in Kinds : \E q : run' = [run EXCEPT ![n][k] = q] /\ RunOK(q, lastSeen[n])
    BY <1>2, NewRunOK DEF DeliverTx, Simulate, Kinds
  <2>2. PICK q : run' = [run EXCEPT ![n][k] = q] /\ RunOK(q, lastSeen[n])
    BY <2>k
  <2>3. \A a \in Nodes, j \in Kinds : RunOK(run'[a][j], lastSeen[a])
    BY <1>t, <2>2, RunsKept
  <2> QED BY <1>t, <2>1, <2>3, CachesUntouched DEF NextOK
<1>3. ASSUME NEW n \in Nodes, Restart(n) PROVE NextOK
  <2>1. \A a \in Nodes, j \in Kinds : RunOK(run'[a][j], lastSeen[a])
    BY <1>3, <1>t, IdleOK DEF Restart, RunsOKSeen
  <2>2. \A a \in Nodes : ChainEntryOK(chainCache'[a], lastSeen[a])
    BY <1>3, <1>t DEF Restart, EntriesOK, ChainEntryOK, TypeInv, CoreOK, CachesOK
  <2>3. \A a \in Nodes, w \in Wallets : WalletEntryOK(walletCache'[a][w], w, lastSeen[a])
    BY <1>3, <1>t DEF Restart, EntriesOK, WalletEntryOK, TypeInv, CoreOK, CachesOK
  <2> QED BY <2>1, <2>2, <2>3 DEF NextOK
<1>4. ASSUME NEW n \in Nodes, NEW k \in Kinds, GateStep(n, k) PROVE NextOK
  BY <1>4, GateStepOK
<1> QED BY <1>1, <1>2, <1>3, <1>4 DEF Step

\* So the invariant is inductive.
LEMMA StepGateInv == ASSUME GateInv, [Next]_vars PROVE GateInv'
<1>1. CASE Next
  <2>1. NextOK
    BY <1>1, StepOK DEF Next
  <2>2. TypeInv' /\ CoreOK' /\ SeenOK'
    BY StepTypeInv DEF GateInv, TypeInv
  <2>3. RunsSeen' /\ \A n \in Nodes, f \in Facts : lastSeen'[n][f] >= lastSeen[n][f]
    BY <1>1, <2>2, ObserveStep DEF Next, GateInv
  <2>4. ASSUME NEW n \in Nodes
        PROVE  /\ \A r \in RunType : RunOK(r, lastSeen[n]) => RunOK(r, lastSeen'[n])
               /\ \A e \in ChainEntries :
                     ChainEntryOK(e, lastSeen[n]) => ChainEntryOK(e, lastSeen'[n])
               /\ \A e \in WalletEntries, w \in Wallets :
                     WalletEntryOK(e, w, lastSeen[n]) => WalletEntryOK(e, w, lastSeen'[n])
    <3>1. lastSeen[n] \in [Facts -> (-1)..MaxHeight]
          /\ lastSeen'[n] \in [Facts -> (-1)..MaxHeight]
      BY <2>2 DEF GateInv, TypeInv, SeenOK
    <3> QED BY <2>3, <3>1, LaterSightings
  <2>5. RunsOKSeen'
    BY <2>1, <2>2, <2>4 DEF NextOK, RunsOKSeen, CoreOK, RunsOK
  <2>6. EntriesOK'
    BY <2>1, <2>2, <2>4 DEF NextOK, EntriesOK, CoreOK, CachesOK
  <2> QED BY <2>2, <2>3, <2>5, <2>6 DEF GateInv
<1>2. CASE UNCHANGED vars
  <2>1. TypeInv'
    BY StepTypeInv DEF GateInv
  <2>2. UNCHANGED <<run, lastSeen, chainCache, walletCache>>
    BY <1>2 DEF vars, cacheVars
  <2> QED BY <2>1, <2>2 DEF GateInv, RunsSeen, EntriesOK, RunsOKSeen
<1> QED BY <1>1, <1>2

\* It holds in the initial state.
LEMMA InitGateInv == Init => GateInv
<1> SUFFICES ASSUME Init PROVE GateInv
  OBVIOUS
<1>1. TypeInv /\ RunsSeen
  BY InitCore, InitSeen DEF TypeInv
<1>2. EntriesOK
  BY DEF Init, EntriesOK, ChainEntryOK, WalletEntryOK
<1>3. RunsOKSeen
  BY IdleOK DEF Init, RunsOKSeen
<1> QED BY <1>1, <1>2, <1>3 DEF GateInv

\* It holds always.
LEMMA GateInvariant == Spec => []GateInv
<1>1. GateInv /\ [Next]_vars => GateInv'
  BY StepGateInv
<1> QED BY <1>1, InitGateInv, PTL DEF Spec

\* LockTakesHold: more than WalletWindow blocks after the last state in which a
\* wallet was not absolutely locked no message of the wallet passes
\* IsWalletUnlocked, for every set of transactions, every length of the windows
\* and of the cache, and every interleaving with simulations and restarts.
THEOREM LocksHold == Spec => []LockTakesHold
<1>1. ASSUME GateInv, NEW n \in Nodes, PassedWalletCheck(n)
      PROVE  run[n]["deliver"].height
                <= lastSeen[n][Message(n, "deliver").from] + WalletWindow
  <2>1. RunOK(run[n]["deliver"], lastSeen[n])
    BY <1>1 DEF GateInv, RunsOKSeen, Kinds
  <2> QED BY <1>1, <2>1
          DEF PassedWalletCheck, Passed, Message, RunOK, WalletFresh, Fresh
<1>2. GateInv => LockTakesHold
  BY <1>1 DEF LockTakesHold
<1> QED BY <1>2, GateInvariant, PTL

\* StatusTakesHold: more than ChainWindow blocks after the last state in which
\* the chain was open no message passes IsChainOpen, and as long after the last
\* state in which it was closed none is refused, whatever simulations and
\* rolled back transactions have left in the map.
THEOREM StatusHolds == Spec => []StatusTakesHold
<1>1. ASSUME GateInv, NEW n \in Nodes, PassedChainCheck(n)
      PROVE  run[n]["deliver"].height <= lastSeen[n]["open"] + ChainWindow
  <2>1. RunOK(run[n]["deliver"], lastSeen[n])
    BY <1>1 DEF GateInv, RunsOKSeen, Kinds
  <2> QED BY <1>1, <2>1
          DEF PassedChainCheck, Passed, Message, RunOK, ChainFresh, Fresh
<1>2. ASSUME GateInv, NEW n \in Nodes, run[n]["deliver"].phase = "closed"
      PROVE  run[n]["deliver"].height <= lastSeen[n]["closed"] + ChainWindow
  <2>1. RunOK(run[n]["deliver"], lastSeen[n])
    BY <1>2 DEF GateInv, RunsOKSeen, Kinds
  <2> QED BY <1>2, <2>1 DEF RunOK, Fresh
<1>3. GateInv => StatusTakesHold
  BY <1>1, <1>2 DEF StatusTakesHold, ClosingTakesHold, OpeningTakesHold
<1> QED BY <1>3, GateInvariant, PTL
=============================================================================
