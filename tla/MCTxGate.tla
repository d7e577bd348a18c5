------------------------------ MODULE MCTxGate ------------------------------
(* Constants for checking TxGate: a user, an operator who may change what   *)
(* the contracts answer, and windows of one or two blocks.                  *)
EXTENDS TxGate

CONSTANTS user, operator, c1, c2

MCWallets == {user, operator}

MCParams(chainCheck, walletCheck, countContract, walletContract, whitelist) ==
    [chainCheck |-> chainCheck, walletCheck |-> walletCheck,
     countContract |-> countContract, walletContract |-> walletContract,
     whitelist |-> whitelist]

OperatorListed == {<<operator, "checksummed">>}

Unlocked == [status |-> "none", amount |-> 0]
Absolute == [status |-> "absolute", amount |-> 0]
\* Both contracts start with the same answers.
MCState(params, count, lock, balance) ==
    [params |-> params, count |-> [c \in Contracts |-> count],
     lock |-> [c \in Contracts |-> [w \in Wallets |->
                 IF w = user THEN lock ELSE Unlocked]],
     balance |-> [w \in Wallets |-> IF w = user THEN balance ELSE 0]]

MCTransfer(v) == [from |-> user, value |-> v, kind |-> "transfer", to |-> operator]
MCSetCount(c, n) == [from |-> operator, value |-> 0, kind |-> "setCount",
                     contract |-> c, count |-> n]
MCSetLock(c, l) == [from |-> operator, value |-> 0, kind |-> "setLock",
                    contract |-> c, wallet |-> user, lock |-> l]

MCTx(msgs) == [msgs |-> msgs, fails |-> FALSE]
MCFailingTx(msgs) == [msgs |-> msgs, fails |-> TRUE]

OtherWalletContract == MCParams(FALSE, TRUE, NoContract, c2, OperatorListed)
OnlyWalletCheck == MCParams(FALSE, TRUE, NoContract, c1, OperatorListed)
OnlyChainCheck == MCParams(TRUE, FALSE, c1, NoContract, OperatorListed)
Bootstrap == MCParams(FALSE, FALSE, NoContract, NoContract, {})
CheckWithoutContract == MCParams(TRUE, TRUE, NoContract, c1, OperatorListed)

\* The wallet check: the user's wallet is locked, and transactions that are
\* rolled back or only simulated unlock it.  The chain check: the servers go
\* and come back.
MCGenesis ==
    {[MCState(OnlyWalletCheck, Threshold, Unlocked, 1)
        EXCEPT !.lock[c2][user] = Absolute]}
    \cup {MCState(OnlyChainCheck, n, Unlocked, 0) : n \in {0, Threshold}}
MCTxs ==
    {MCTx(<<MCTransfer(1)>>), MCTx(<<MCSetLock(c1, Absolute)>>),
     MCFailingTx(<<MCSetLock(c1, Unlocked), MCTransfer(0)>>),
     MCTx(<<MCSetCount(c1, 0)>>), MCTx(<<MCSetCount(c1, Threshold)>>)}
MCParamSets ==
    {OtherWalletContract, Bootstrap, OnlyChainCheck, CheckWithoutContract}

\* One scenario checks the wallet, the other the chain's status: each leaves
\* the contract and the parameters of the other one alone.
LocksMatter == \E n \in Nodes : chain[n].lock[c2][user] = Absolute

InScenario(m) ==
    /\ m.kind = "setLock" => LocksMatter
    /\ m.kind = "setCount" => ~LocksMatter

OneScenario ==
    /\ \A n \in Nodes : chain[n].params.walletCheck <=> LocksMatter
    /\ \A n \in Nodes, k \in Kinds :
          run[n][k] # Idle => \A i \in DOMAIN run[n][k].msgs : InScenario(run[n][k].msgs[i])
    /\ \A i \in DOMAIN tx.msgs : InScenario(tx.msgs[i])

MCSpec == Init /\ [][Next /\ OneScenario']_vars

\* For the run with two nodes: a lock, and a transfer of the wallet.

MCReplicaGenesis == {MCState(OnlyWalletCheck, Threshold, Unlocked, 1)}
MCReplicaTxs == {MCTx(<<MCTransfer(1)>>), MCTx(<<MCSetLock(c1, Absolute)>>)}
=============================================================================
