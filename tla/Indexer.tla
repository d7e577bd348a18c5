------------------------------ MODULE Indexer -------------------------------
(***************************************************************************)
(* The index of Ethereum transactions: the service that follows the chain  *)
(* (EVMIndexerService, with the goroutine that receives block headers),    *)
(* the offline command that fills the index in either direction, and the   *)
(* database, whose batches are atomic and of which a crash may lose the    *)
(* latest.                                                                 *)
(*                                                                         *)
(* pc is where the process is: "down", "started" (OnStart has read the     *)
(* status), "subscribed", "loop", "wait", "index" (in the inner loop), or  *)
(* the direction of the command that runs while the node is down.          *)
(***************************************************************************)
EXTENDS Integers, Sequences, SequencesExt, FiniteSetsExt

CONSTANTS
    Chain,        \* the blocks: each a sequence of transactions, see Entries
    MaxCrashes,   \* bound: crashes of the process
    MaxFaults     \* bound: failed fetches and failed writes

\* A transaction of a block, as IndexBlock sees it with its results.
TxType == [valid : BOOLEAN, decodes : BOOLEAN, eth : BOOLEAN, parses : BOOLEAN,
           failed : BOOLEAN, msgs : Seq([found : BOOLEAN])]

ASSUME IndexerAssumption ==
    /\ Chain \in Seq(Seq(TxType))
    /\ MaxCrashes \in Nat
    /\ MaxFaults \in Nat

MaxHeight == Len(Chain)

VARIABLES
    height,       \* the latest block of the node
    base,         \* the lowest block that is not pruned
    db,           \* the blocks with entries, in the order they were written
    pc,
    latestBlock,  \* shared by OnStart and its goroutine
    seen,         \* the last header the subscription has delivered
    signal,       \* newBlockSignal is full
    lastBlock,
    i,            \* the block of the inner loop, or of the command
    skipped,      \* history: blocks whose batch the service failed to write
    crashes,
    faults

volatile == <<latestBlock, seen, signal, lastBlock>>
vars == <<height, base, db, pc, volatile, i, skipped, crashes, faults>>

-----------------------------------------------------------------------------
\* The messages of a block that IndexBlock saves: those of the transactions
\* that succeeded or ran out of the block's gas (valid), decode and parse, and
\* of these the ones that the events mention, unless the transaction failed.
Entries(b) ==
    LET saved(tx) == IF tx.valid /\ tx.decodes /\ tx.eth /\ tx.parses
                     THEN SelectSeq(tx.msgs, LAMBDA m : tx.failed \/ m.found)
                     ELSE <<>>
    IN  FlattenSeq([t \in DOMAIN Chain[b] |-> saved(Chain[b][t])])

HasEntries(b) == Entries(b) # <<>>

Indexed == ToSet(db)
LastIndexedBlock == IF db = <<>> THEN -1 ELSE Max(Indexed)
FirstIndexedBlock == IF db = <<>> THEN -1 ELSE Min(Indexed)

\* IndexBlock, and its batch written.
Write(b) == db' = IF HasEntries(b) THEN Append(db, b) ELSE db

Serving == pc \in {"loop", "wait", "index"}

-----------------------------------------------------------------------------
\* The service.

ReadStatus ==
    /\ pc = "down"
    /\ height > 0
    /\ pc' = "started"
    /\ latestBlock' = height
    /\ UNCHANGED <<height, base, db, seen, signal, lastBlock, i, skipped, crashes, faults>>

\* The headers of the blocks from now on; those committed since the status was
\* read have gone by.
Subscribe ==
    /\ pc = "started"
    /\ pc' = "subscribed"
    /\ seen' = height
    /\ signal' = FALSE
    /\ UNCHANGED <<height, base, db, latestBlock, lastBlock, i, skipped, crashes, faults>>

\* The goroutine.
ReceiveHeader ==
    /\ pc \in {"subscribed", "loop", "wait", "index"}
    /\ seen < height
    /\ seen' = seen + 1
    /\ IF seen + 1 > latestBlock
       THEN latestBlock' = seen + 1 /\ signal' = TRUE
       ELSE UNCHANGED <<latestBlock, signal>>
    /\ UNCHANGED <<height, base, db, pc, lastBlock, i, skipped, crashes, faults>>

\* Mutant: the service always begins with the latest block.
StartFromLatest == latestBlock

StartFrom == IF LastIndexedBlock = -1 THEN latestBlock ELSE LastIndexedBlock

ReadLastIndexed ==
    /\ pc = "subscribed"
    /\ pc' = "loop"
    /\ lastBlock' = StartFrom
    /\ UNCHANGED <<height, base, db, latestBlock, seen, signal, i, skipped, crashes, faults>>

Loop ==
    /\ pc = "loop"
    /\ IF latestBlock <= lastBlock
       THEN pc' = "wait" /\ UNCHANGED i
       ELSE pc' = "index" /\ i' = lastBlock + 1
    /\ UNCHANGED <<height, base, db, volatile, skipped, crashes, faults>>

\* Mutant: nothing ends the wait.
WakeNever == FALSE /\ UNCHANGED vars

\* The signal or the timeout, whichever comes first.
Wake ==
    /\ pc = "wait"
    /\ pc' = "loop"
    /\ signal' \in {FALSE, signal}
    /\ UNCHANGED <<height, base, db, latestBlock, seen, lastBlock, i, skipped, crashes, faults>>

\* The end of a round of the inner loop.
EndRound ==
    /\ lastBlock' = i
    /\ i' = i + 1
    /\ pc' = IF i + 1 <= latestBlock THEN "index" ELSE "loop"
    /\ UNCHANGED <<height, base, latestBlock, seen, signal, crashes>>

\* Mutant: a block that cannot be fetched is left out.
FetchFailsGoesOn ==
    /\ pc = "index"
    /\ faults < MaxFaults
    /\ faults' = faults + 1
    /\ EndRound
    /\ UNCHANGED <<db, skipped>>

\* Block or BlockResults fails: always if the block is pruned.
FetchFails ==
    /\ pc = "index"
    /\ \/ i < base /\ UNCHANGED faults
       \/ i >= base /\ faults < MaxFaults /\ faults' = faults + 1
    /\ pc' = "loop"
    /\ UNCHANGED <<height, base, db, volatile, i, skipped, crashes>>

IndexBlock ==
    /\ pc = "index"
    /\ i >= base
    /\ Write(i)
    /\ EndRound
    /\ UNCHANGED <<skipped, faults>>

\* An error of IndexBlock is logged, and the next block follows.
IndexBlockFails ==
    /\ pc = "index"
    /\ i >= base
    /\ faults < MaxFaults
    /\ faults' = faults + 1
    /\ skipped' = skipped \cup {i}
    /\ EndRound
    /\ UNCHANGED db

-----------------------------------------------------------------------------
\* The command, while the node is down.

\* Mutant: one block too low.
BackwardFromBelow == IF FirstIndexedBlock = -1 THEN height - 1 ELSE FirstIndexedBlock - 2

BackwardFrom == IF FirstIndexedBlock = -1 THEN height - 1 ELSE FirstIndexedBlock - 1
ForwardFrom == IF LastIndexedBlock = -1 THEN 1 ELSE LastIndexedBlock + 1

StartCommand(direction) ==
    /\ pc = "down"
    /\ pc' = direction
    /\ i' = IF direction = "backward" THEN BackwardFrom ELSE ForwardFrom
    /\ UNCHANGED <<height, base, db, volatile, skipped, crashes, faults>>

CommandDone == IF pc = "backward" THEN i <= 0 ELSE i > height

CommandIndexes ==
    /\ pc \in {"backward", "forward"}
    /\ ~CommandDone
    /\ i >= base
    /\ Write(i)
    /\ i' = IF pc = "backward" THEN i - 1 ELSE i + 1
    /\ UNCHANGED <<height, base, pc, volatile, skipped, crashes, faults>>

\* The command ends: it is done, a block is not found, or a write fails.
CommandEnds ==
    /\ pc \in {"backward", "forward"}
    /\ \/ (CommandDone \/ i < base) /\ UNCHANGED faults
       \/ ~CommandDone /\ i >= base /\ faults < MaxFaults /\ faults' = faults + 1
    /\ pc' = "down"
    /\ UNCHANGED <<height, base, db, volatile, i, skipped, crashes>>

-----------------------------------------------------------------------------
\* The node and its crashes.

NewBlock ==
    /\ pc \notin {"backward", "forward"}
    /\ height < MaxHeight
    /\ height' = height + 1
    /\ UNCHANGED <<base, db, pc, volatile, i, skipped, crashes, faults>>

Prune ==
    /\ pc \notin {"backward", "forward"}
    /\ base < height
    /\ base' = base + 1
    /\ UNCHANGED <<height, db, pc, volatile, i, skipped, crashes, faults>>

\* Batches are written without syncing: the latest of them may be lost.
Crash ==
    /\ pc # "down"
    /\ crashes < MaxCrashes
    /\ crashes' = crashes + 1
    /\ pc' = "down"
    /\ \E n \in 0..Len(db) : db' = SubSeq(db, 1, n)
    /\ latestBlock' = 0 /\ seen' = 0 /\ signal' = FALSE /\ lastBlock' = 0 /\ i' = 0
    /\ UNCHANGED <<height, base, skipped, faults>>

Init ==
    /\ height = 0
    /\ base = 1
    /\ db = <<>>
    /\ pc = "down"
    /\ latestBlock = 0 /\ seen = 0 /\ signal = FALSE /\ lastBlock = 0 /\ i = 0
    /\ skipped = {}
    /\ crashes = 0 /\ faults = 0

OnStart == ReadStatus \/ Subscribe \/ ReadLastIndexed
Service == Loop \/ Wake \/ FetchFails \/ IndexBlock \/ IndexBlockFails

Next ==
    \/ OnStart
    \/ Service
    \/ ReceiveHeader
    \/ \E direction \in {"backward", "forward"} : StartCommand(direction)
    \/ CommandIndexes
    \/ CommandEnds
    \/ NewBlock
    \/ Prune
    \/ Crash

\* The goroutines of a process that runs get their turn.
Spec == Init /\ [][Next]_vars /\ WF_vars(Service) /\ WF_vars(ReceiveHeader)

-----------------------------------------------------------------------------
\* Properties.

TypeOK ==
    /\ height \in 0..MaxHeight
    /\ base \in 1..(MaxHeight + 1)
    /\ db \in Seq(1..MaxHeight)
    /\ pc \in {"down", "started", "subscribed", "loop", "wait", "index", "backward", "forward"}
    /\ latestBlock \in 0..MaxHeight /\ seen \in 0..MaxHeight
    /\ lastBlock \in 0..MaxHeight
    /\ signal \in BOOLEAN
    /\ i \in -1..(MaxHeight + 1)
    /\ skipped \subseteq 1..MaxHeight
    /\ crashes \in 0..MaxCrashes /\ faults \in 0..MaxFaults

Complete(from, to) ==
    \A b \in from..to : HasEntries(b) => b \in Indexed \cup skipped

\* The index has no gap: between its first and its last block every block with
\* Ethereum transactions is in it, through crashes, lost batches and commands
\* in either direction, except for blocks whose write failed (OnStart goes on
\* after an error of IndexBlock).
NoGaps == db # <<>> => Complete(FirstIndexedBlock, LastIndexedBlock)

\* What was reached is indexed: from the first indexed block to the one that
\* the running service has reached, to the last block when a forward command
\* ends well, and down to the first block of the chain when a backward one does.
ReachedIsIndexed ==
    /\ Serving /\ db # <<>> => Complete(FirstIndexedBlock, lastBlock)
    /\ pc = "backward" /\ CommandDone => Complete(1, LastIndexedBlock)
    /\ pc = "forward" /\ CommandDone /\ db # <<>> => Complete(FirstIndexedBlock, height)

\* A block that the service knows of is reached, unless the process crashes or
\* the node has pruned a block that comes before it: the wait ends without a
\* signal too, and a fetch that failed is repeated.
CatchesUp ==
    \A b \in 1..MaxHeight :
        Serving /\ b <= latestBlock
            ~> b <= lastBlock \/ ~Serving \/ lastBlock + 1 < base
=============================================================================
