------------------------------- MODULE StateDB -------------------------------
(***************************************************************************)
(* x/evm/statedb: the state of one EVM transaction.  Objects are loaded    *)
(* lazily from the store of the transaction's context, every change is     *)
(* journaled, a frame that fails undoes the journal down to its snapshot,  *)
(* and Commit writes the dirty objects.  A precompiled contract works on   *)
(* the Cosmos stores instead: before it runs the dirty objects are written *)
(* to a cache of the store, it changes the cache, and what it changes of a *)
(* balance is mirrored in the objects.                                     *)
(*                                                                         *)
(* The EVM around it is modelled as far as it calls the state: frames,     *)
(* value transfers, SSTORE with its refunds and access list, LOG, CREATE,  *)
(* SELFDESTRUCT and the precompiles of x/distribution (claimRewards and    *)
(* fundCommunityPool) and x/staking (delegate and undelegate), at one      *)
(* address.  Left out: gas (a frame may fail at any point), the other call *)
(* variants, CREATE2, code as bytes, collisions of hashes.                 *)
(***************************************************************************)
EXTENDS Integers, Sequences, FiniteSetsExt, SequencesExt

CONSTANTS
    Addrs,            \* the addresses
    Origin,           \* the externally owned account that sends the message
    Targets,          \* bound: the addresses that are called or inherit
    Precompile,       \* the address of the precompiled contract
    Keys, Values,     \* of a contract's storage; 0 is the empty value
    Children,         \* <<creator, nonce>> -> the address of the deployment
    GenesisStores,    \* the stores a transaction may start from
    MaxPrecompileCalls,
    Failures,         \* how a run of the precompile may fail, see RunPrecompile
    MaxOps,           \* bound: the operations of a transaction
    NoAccount, NoObj, NoCache, Clean

VARIABLES
    phase,            \* "start", "run", "end" (frames are over), "done"
    store,            \* the store of the context the transaction runs in
    db,               \* the StateDB
    frames,           \* the open frames, the innermost last
    ops,              \* how many operations there have been
    outcome,          \* how the last call ended
    ledger,           \* observer: what the transaction would leave now
    saved             \* observer: what each open frame would return to

vars == <<phase, store, db, frames, ops, outcome, ledger, saved>>

-----------------------------------------------------------------------------
\* The accounts of x/auth, the balances of x/bank, the storage of x/evm, the
\* pools of x/distribution and x/staking and the rewards that the origin has
\* not claimed.
Account == [nonce : Nat, code : BOOLEAN]

Store == [acct : [Addrs -> Account \cup {NoAccount}], bal : [Addrs -> Nat],
          slot : [Addrs -> [Keys -> Values]], pool : Nat, rewards : Nat,
          unmirrored : Nat]

\* A stateObject; a key that is Clean is not in dirtyStorage.
Object == [nonce : Nat, bal : Int, code : BOOLEAN, suicided : BOOLEAN,
           dirty : [Keys -> Values \cup {Clean}]]

EmptyObject == [nonce |-> 0, bal |-> 0, code |-> FALSE, suicided |-> FALSE,
                dirty |-> [k \in Keys |-> Clean]]

ASSUME StateDBAssumption ==
    /\ {Origin, Precompile} \cup Targets \subseteq Addrs
    /\ Precompile \notin Targets
    /\ 0 \in Values
    /\ Values \subseteq Nat
    /\ GenesisStores \subseteq Store
    /\ \A st \in GenesisStores :
          /\ st.acct[Origin] # NoAccount
          /\ st.acct[Origin].nonce > 0
          /\ \A a \in Addrs : st.acct[a] = NoAccount =>
                st.bal[a] = 0 /\ \A k \in Keys : st.slot[a][k] = 0
    /\ DOMAIN Children \subseteq Addrs \X Nat
    /\ \A c \in DOMAIN Children : Children[c] \in Addrs
    /\ Failures \subseteq {"setup", "gas"}
    /\ {MaxPrecompileCalls, MaxOps} \subseteq Nat
    /\ IsFiniteSet(Addrs) /\ IsFiniteSet(Keys)
    /\ NoObj \notin Object /\ Clean \notin Values

Absent == -2          \* not in the access list
NoSlots == -1         \* in the access list without slots

New == [obj |-> [a \in Addrs |-> NoObj], cache |-> NoCache,
        journal |-> << >>, dirties |-> [a \in Addrs |-> 0],
        revisions |-> << >>, nextRevision |-> 0,
        refund |-> 0, logs |-> 0, calls |-> 0,
        warm |-> [a \in Addrs |-> Absent], slots |-> << >>, panic |-> FALSE]

-----------------------------------------------------------------------------
\* The journal.

Dirtying == {"create", "suicide", "balance", "nonce", "storage", "code"}

Entry(op, a, prev) == [op |-> op, addr |-> a, prev |-> prev]

Journal(d, e) ==
    [d EXCEPT !.journal = Append(@, e),
              !.dirties[e.addr] = IF e.op \in Dirtying THEN @ + 1 ELSE @]

\* getStateObject
Obj(d, a) ==
    IF d.obj[a] = NoObj /\ store.acct[a] # NoAccount
      THEN [EmptyObject EXCEPT !.nonce = store.acct[a].nonce,
                               !.code = store.acct[a].code,
                               !.bal = store.bal[a]]
      ELSE d.obj[a]

Exists(d, a) == Obj(d, a) # NoObj

CreateObject(d, a) ==
    [Journal(d, IF Exists(d, a) THEN Entry("reset", a, Obj(d, a))
                                ELSE Entry("create", a, NoObj))
       EXCEPT !.obj[a] = EmptyObject]

CreateAccount(d, a) ==
    [CreateObject(d, a) EXCEPT !.obj[a].bal = IF Exists(d, a) THEN Obj(d, a).bal ELSE 0]

\* getOrNewStateObject
Load(d, a) ==
    IF Exists(d, a) THEN [d EXCEPT !.obj[a] = Obj(d, a)] ELSE CreateObject(d, a)

SetNonce(d, a, n) ==
    LET e == Load(d, a) IN
    [Journal(e, Entry("nonce", a, e.obj[a].nonce)) EXCEPT !.obj[a].nonce = n]

SetCode(d, a) ==
    LET e == Load(d, a) IN
    [Journal(e, Entry("code", a, e.obj[a].code)) EXCEPT !.obj[a].code = TRUE]

\* AddBalance and SubBalance, which journal nothing for an amount of zero.
ChangeBalance(d, a, amount) ==
    LET e == Load(d, a) IN
    IF amount = 0 THEN e
    ELSE [Journal(e, Entry("balance", a, e.obj[a].bal)) EXCEPT !.obj[a].bal = @ + amount]

Slot(d, a, k) ==
    IF Exists(d, a) /\ Obj(d, a).dirty[k] # Clean THEN Obj(d, a).dirty[k]
    ELSE IF Exists(d, a) THEN store.slot[a][k] ELSE 0

SetState(d, a, k, v) ==
    LET e == Load(d, a) IN
    IF Slot(e, a, k) = v THEN e
    ELSE [Journal(e, Entry("storage", a, [key |-> k, value |-> Slot(e, a, k)]))
            EXCEPT !.obj[a].dirty[k] = v]

Suicide(d, a) ==
    LET e == Load(d, a)
        prev == [suicided |-> e.obj[a].suicided, bal |-> e.obj[a].bal]
    IN [Journal(e, Entry("suicide", a, prev))
          EXCEPT !.obj[a].suicided = TRUE, !.obj[a].bal = 0]

\* Variant: the refund counter is not journaled.
ChangeRefundUnjournaled(d, amount) == [d EXCEPT !.refund = @ + amount]

\* AddRefund and SubRefund; the latter panics below zero.
ChangeRefund(d, amount) ==
    [Journal(d, Entry("refund", Origin, d.refund))
       EXCEPT !.refund = @ + amount, !.panic = @ \/ d.refund + amount < 0]

AddLog(d) == [Journal(d, Entry("log", Origin, 0)) EXCEPT !.logs = @ + 1]

AddAddressToAccessList(d, a) ==
    IF d.warm[a] # Absent THEN d
    ELSE [Journal(d, Entry("warmAddress", a, 0)) EXCEPT !.warm[a] = NoSlots]

SlotIsWarm(d, a, k) == d.warm[a] >= 0 /\ k \in d.slots[d.warm[a] + 1]

\* AddSlotToAccessList, for an address that is in the list: SSTORE panics for
\* another one.
AddSlotToAccessList(d, a, k) ==
    IF SlotIsWarm(d, a, k) THEN d
    ELSE LET e == Journal(d, Entry("warmSlot", a, k)) IN
         IF d.warm[a] >= 0
           THEN [e EXCEPT !.slots[d.warm[a] + 1] = @ \cup {k}]
           ELSE [e EXCEPT !.warm[a] = Len(d.slots), !.slots = Append(@, {k}),
                          !.panic = @ \/ d.warm[a] = Absent]

\* DeleteSlot: the last slot of an address takes the tail of the list with it.
DeleteSlot(d, a, k) ==
    IF d.warm[a] < 0 THEN [d EXCEPT !.panic = TRUE]
    ELSE LET left == d.slots[d.warm[a] + 1] \ {k} IN
         IF left # {} THEN [d EXCEPT !.slots[d.warm[a] + 1] = left]
         ELSE [d EXCEPT !.slots = SubSeq(@, 1, d.warm[a]), !.warm[a] = NoSlots]

-----------------------------------------------------------------------------
\* d after Op with each element of s in turn.  It is FoldLeft, with the state in
\* between bound to a variable, so that TLC evaluates it once.
Fold(Op(_, _), d, s) ==
    LET f[i \in 0 .. Len(s)] ==
            IF i = 0 THEN d ELSE CHOOSE r \in {Op(x, s[i]) : x \in {f[i - 1]}} : TRUE
    IN f[Len(s)]

-----------------------------------------------------------------------------
\* Snapshots.

Undo(d, e) ==
    CASE e.op = "create"      -> [d EXCEPT !.obj[e.addr] = NoObj]
      [] e.op = "reset"       -> [d EXCEPT !.obj[e.addr] = e.prev]
      [] e.op = "suicide"     -> [d EXCEPT !.obj[e.addr].suicided = e.prev.suicided,
                                           !.obj[e.addr].bal = e.prev.bal]
      [] e.op = "balance"     -> [d EXCEPT !.obj[e.addr].bal = e.prev]
      [] e.op = "nonce"       -> [d EXCEPT !.obj[e.addr].nonce = e.prev]
      [] e.op = "code"        -> [d EXCEPT !.obj[e.addr].code = e.prev]
      [] e.op = "storage"     -> [d EXCEPT !.obj[e.addr].dirty[e.prev.key] = e.prev.value]
      [] e.op = "refund"      -> [d EXCEPT !.refund = e.prev]
      [] e.op = "log"         -> [d EXCEPT !.logs = @ - 1]
      [] e.op = "warmAddress" -> [d EXCEPT !.warm[e.addr] = Absent]
      [] e.op = "warmSlot"    -> DeleteSlot(d, e.addr, e.prev)
      [] e.op = "precompile"  -> [d EXCEPT !.cache = e.prev]

\* One round of journal.Revert.
UndoEntry(d, e) ==
    [Undo(d, e) EXCEPT !.dirties[e.addr] = IF e.op \in Dirtying THEN @ - 1 ELSE @]

Snapshot(d) ==
    [d EXCEPT !.revisions = Append(@, [id |-> d.nextRevision, index |-> Len(d.journal)]),
              !.nextRevision = @ + 1]

\* journal.Revert: the entries after the first n are undone, newest first.
Undone(d, n) ==
    LET f[i \in n .. Len(d.journal)] ==
            IF i = Len(d.journal) THEN d
            ELSE CHOOSE r \in {UndoEntry(x, d.journal[i + 1]) : x \in {f[i + 1]}} : TRUE
    IN [f[n] EXCEPT !.journal = SubSeq(@, 1, n)]

\* RevertToSnapshot, which panics when the revision is gone.
RevertTo(d, id) ==
    LET at == {i \in DOMAIN d.revisions : d.revisions[i].id = id} IN
    IF at = {} THEN [d EXCEPT !.panic = TRUE]
    ELSE CHOOSE reverted \in
           {[Undone(d, d.revisions[i].index) EXCEPT !.revisions = SubSeq(@, 1, i - 1)] :
              i \in at} : TRUE

-----------------------------------------------------------------------------
\* The calls that the EVM makes of the state, as data.

Op(name, a, arg) == [name |-> name, addr |-> a, arg |-> arg]

Called(d, c) ==
    CASE c.name = "CreateAccount" -> CreateAccount(d, c.addr)
      [] c.name = "ChangeBalance" -> ChangeBalance(d, c.addr, c.arg)
      [] c.name = "SetNonce"      -> SetNonce(d, c.addr, c.arg)
      [] c.name = "SetCode"       -> SetCode(d, c.addr)
      [] c.name = "SetState"      -> SetState(d, c.addr, c.arg.key, c.arg.value)
      [] c.name = "Suicide"       -> Suicide(d, c.addr)
      [] c.name = "ChangeRefund"  -> ChangeRefund(d, c.arg)
      [] c.name = "AddLog"        -> AddLog(d)
      [] c.name = "Warm"          -> AddAddressToAccessList(d, c.addr)
      [] c.name = "WarmSlot"      -> AddSlotToAccessList(d, c.addr, c.arg)
      [] c.name = "Snapshot"      -> Snapshot(d)

After(d, calls) == Fold(Called, d, calls)

Warm(a) == Op("Warm", a, 0)
TakeSnapshot == Op("Snapshot", Origin, 0)
Transfer(from, to, amount) ==
    <<Op("ChangeBalance", from, -amount), Op("ChangeBalance", to, amount)>>

-----------------------------------------------------------------------------
\* Writing the dirty objects.

Dirty(d) == {a \in Addrs : d.dirties[a] > 0}

\* commitWithCtx on the store st: DeleteAccount for an object that destructed
\* itself, SetAccount - the balance by a mint or a burn - and SetState for the
\* others.  A dirty address without an object would panic (NeverPanics).
Written(d, st) ==
    LET Live(a) == a \in Dirty(d) /\ d.obj[a] # NoObj
        Deleted(a) == Live(a) /\ d.obj[a].suicided
        Set(a) == Live(a) /\ ~d.obj[a].suicided
        Cleared(a) == Deleted(a) /\ st.acct[a] # NoAccount
    IN [st EXCEPT
          !.acct = [a \in Addrs |->
                      IF Deleted(a) THEN NoAccount
                      ELSE IF Set(a) THEN [nonce |-> d.obj[a].nonce, code |-> d.obj[a].code]
                      ELSE @[a]],
          !.bal = [a \in Addrs |->
                     IF Cleared(a) THEN 0 ELSE IF Set(a) THEN d.obj[a].bal ELSE @[a]],
          !.slot = [a \in Addrs |-> [k \in Keys |->
                      IF Cleared(a) THEN 0
                      ELSE IF Set(a) /\ d.obj[a].dirty[k] # Clean THEN d.obj[a].dirty[k]
                      ELSE @[a][k]]]]

\* GetCacheContext
CacheOf(d) == IF d.cache = NoCache THEN store ELSE d.cache

\* Variant: the cache of the precompiles is not written.
CommittedWithoutCache(d) == Written(d, store)

\* Commit: the cache first, then the dirty objects.
Committed(d) == Written(d, CacheOf(d))

-----------------------------------------------------------------------------
\* The distribution and the staking precompile.  A method is [name, who]: the
\* rewards and the delegation are the origin's, a deposit is the origin's or
\* the calling contract's.  A delegation is of a coin that the origin holds
\* before its rewards are withdrawn.

MethodsFor(caller) ==
    {[name |-> n, who |-> Origin] : n \in {"claim", "delegate", "undelegate"}}
    \cup {[name |-> "fund", who |-> a] : a \in {Origin, caller}}

\* What a method takes from the account; the rest, whatever changes the
\* delegation included, pays it its rewards.
Paid(m) == IF m.name \in {"fund", "delegate"} THEN 1 ELSE 0
Withdrawn(m, st) == IF m.name = "fund" THEN 0 ELSE st.rewards

CanRun(m, st) == st.bal[m.who] >= Paid(m)

\* Variant: the change of the balance is not mirrored.
NothingMirrored(caller, m, st) == 0

\* What is mirrored in the objects when a contract calls: a claim and what is
\* paid, and nothing of the rewards that come with a change of the delegation.
Mirrored(caller, m, st) ==
    IF caller = Origin THEN 0
    ELSE (IF m.name = "claim" THEN Withdrawn(m, st) ELSE 0) - Paid(m)

\* st.unmirrored is an observer: coins paid out behind the objects' back.
RunMethod(caller, m, st) ==
    [st EXCEPT !.bal[m.who] = @ + Withdrawn(m, st) - Paid(m),
               !.rewards = @ - Withdrawn(m, st),
               !.pool = @ + Paid(m),
               !.unmirrored = @ + IF caller # Origin /\ m.name \in {"delegate", "undelegate"}
                                  THEN Withdrawn(m, st) ELSE 0]

\* evm.Call up to the contract's code: the snapshot, the account, the value.
EnterCall(d, from, to, value) ==
    <<TakeSnapshot>>
    \o (IF Exists(d, to) THEN << >> ELSE <<Op("CreateAccount", to, 0)>>)
    \o Transfer(from, to, value)

\* RunSetup writes the dirty objects to the cache; entered is the state d
\* within the precompile's frame.
RunSetup(entered) == [entered EXCEPT !.cache = Written(entered, CacheOf(entered))]

\* The method on the cache, and the event it logs.
MethodRun(caller, m, set) == [AddLog(set) EXCEPT !.cache = RunMethod(caller, m, @)]

\* AddJournalEntries, with the cache as it was before RunSetup.
AddJournalEntries(ran, caller, m, entered, set) ==
    LET gain == Mirrored(caller, m, set.cache)
        d == IF gain = 0 THEN ran ELSE ChangeBalance(ran, m.who, gain)
    IN [Journal(d, Entry("precompile", Precompile, CacheOf(entered)))
          EXCEPT !.calls = (@ + 1) % 256]

-----------------------------------------------------------------------------
\* The frames.

Self == Last(frames).self
Running == phase = "run" /\ frames # << >>
CanWork == Running /\ ops < MaxOps

Balance(d, a) == IF Exists(d, a) THEN Obj(d, a).bal ELSE 0
HasCode(d, a) == Exists(d, a) /\ Obj(d, a).code

Frame(a, kind, d) == [self |-> a, kind |-> kind, revision |-> d.nextRevision]

\* A call of the state that leaves the frames alone.
WorkOn(d) ==
    /\ db' = d
    /\ ops' = ops + 1
    /\ UNCHANGED <<phase, store, frames, outcome>>

\* The message calls, or deploys, after the access list has been prepared.
Prepared(to) == After(New, <<Warm(Origin), Warm(to), Warm(Precompile)>>)

StartCall(a, value) ==
    /\ phase = "start"
    /\ HasCode(New, a)
    /\ Balance(New, Origin) >= value
    /\ db' = After(Prepared(a), EnterCall(New, Origin, a, value))
    /\ frames' = <<Frame(a, "call", New)>>
    /\ phase' = "run"
    /\ UNCHANGED <<store, ops, outcome>>

\* Deployments: the creator's nonce and the access list come before the
\* snapshot.
EnterCreate(creator, nonce, a, value) ==
    <<Op("SetNonce", creator, nonce + 1), Warm(a), TakeSnapshot,
      Op("CreateAccount", a, 0), Op("SetNonce", a, 1)>> \o Transfer(creator, a, value)

\* ApplyMessageWithConfig resets the nonce that the ante handler has counted.
StartCreate(value) ==
    LET n == store.acct[Origin].nonce - 1
        child == Children[<<Origin, n>>]
    IN /\ phase = "start"
       /\ <<Origin, n>> \in DOMAIN Children
       /\ Balance(New, Origin) >= value
       /\ db' = After(Prepared(Origin), <<Op("SetNonce", Origin, n)>>
                                        \o EnterCreate(Origin, n, child, value))
       /\ frames' = <<Frame(child, "create", New)>>
       /\ phase' = "run"
       /\ UNCHANGED <<store, ops, outcome>>

\* The amounts added to the refund counter by makeGasSStoreFunc (EIP-3529).
ClearingRefund == 4800
ResetToEmptyRefund == 19900
ResetRefund == 2800

\* Variant: the refund of clearing is taken back for slots that started empty.
RefundTakenBackAnyway(original, current, value) ==
    IF current = value THEN << >>
    ELSE IF value = 0 THEN <<ClearingRefund>>
    ELSE IF current = 0 THEN <<-ClearingRefund>> ELSE << >>

\* The changes of the refund counter, in their order.
Refunds(original, current, value) ==
    IF current = value THEN << >>
    ELSE (CASE original # 0 /\ value = 0 -> <<ClearingRefund>>
            [] original # 0 /\ current = 0 -> <<-ClearingRefund>>
            [] OTHER -> << >>)
         \o (IF original = current \/ original # value THEN << >>
             ELSE IF original = 0 THEN <<ResetToEmptyRefund>> ELSE <<ResetRefund>>)

Sstore(k, v) ==
    LET amounts == Refunds(store.slot[Self][k], Slot(db, Self, k), v)
    IN /\ CanWork
       /\ WorkOn(After(db,
             <<Op("WarmSlot", Self, k)>>
             \o [i \in DOMAIN amounts |-> Op("ChangeRefund", Origin, amounts[i])]
             \o <<Op("SetState", Self, [key |-> k, value |-> v])>>))

Log == CanWork /\ WorkOn(AddLog(db))

\* A call of a contract opens a frame; a call of another account is over at
\* once, and without a value nothing happens to an account that is not there.
Call(a, value) ==
    /\ CanWork
    /\ Balance(db, Self) >= value
    /\ \/ /\ HasCode(db, a)
          /\ db' = After(db, <<Warm(a)>> \o EnterCall(db, Self, a, value))
          /\ frames' = Append(frames, Frame(a, "call", db))
          /\ ops' = ops + 1
          /\ UNCHANGED <<phase, store, outcome>>
       \/ /\ ~HasCode(db, a)
          /\ WorkOn(After(db, <<Warm(a)>> \o
                (IF Exists(db, a) \/ value > 0 THEN EnterCall(db, Self, a, value)
                                               ELSE <<TakeSnapshot>>)))

Create(value) ==
    LET n == Obj(db, Self).nonce
        child == Children[<<Self, n>>]
    IN /\ CanWork
       /\ <<Self, n>> \in DOMAIN Children
       /\ Balance(db, Self) >= value
       /\ db' = After(db, EnterCreate(Self, n, child, value))
       /\ frames' = Append(frames, Frame(child, "create", db))
       /\ ops' = ops + 1
       /\ UNCHANGED <<phase, store, outcome>>

\* A call of the precompile on the state d, from its snapshot to its end.  It
\* fails before it runs (the gas it requires), in RunSetup or the method's
\* checks, or out of gas after the method; or there have been too many calls.
RunPrecompile(d, caller, m) ==
    \E entered \in {After(d, EnterCall(d, caller, Precompile, 0))} :
    \E set \in {RunSetup(entered)} :
    LET runs == CanRun(m, set.cache)
        journaled == AddJournalEntries(MethodRun(caller, m, set), caller, m, entered, set)
        tooMany == d.calls + 1 > MaxPrecompileCalls
        Fails(at) == db' = RevertTo(at, d.nextRevision) /\ outcome' = "failed"
    IN \/ runs /\ ~tooMany /\ db' = journaled /\ outcome' = "ok"
       \/ runs /\ tooMany /\ Fails(journaled)
       \/ Fails(entered)
       \/ "setup" \in Failures /\ Fails(set)
       \/ "gas" \in Failures /\ runs /\ Fails(MethodRun(caller, m, set))

StartPrecompile(m) ==
    /\ phase = "start"
    /\ m \in MethodsFor(Origin)
    /\ RunPrecompile(Prepared(Precompile), Origin, m)
    /\ phase' = "end"
    /\ UNCHANGED <<store, frames, ops>>

CallPrecompile(m) ==
    /\ CanWork
    /\ m \in MethodsFor(Self)
    /\ RunPrecompile(AddAddressToAccessList(db, Precompile), Self, m)
    /\ ops' = ops + 1
    /\ UNCHANGED <<phase, store, frames>>

\* The end of the innermost frame; a message that deploys sets the nonce again.
Leave(d, how) ==
    LET over == Len(frames) = 1
        n == store.acct[Origin].nonce
    IN /\ db' = IF over /\ Last(frames).kind = "create" THEN SetNonce(d, Origin, n) ELSE d
       /\ frames' = Front(frames)
       /\ phase' = IF over THEN "end" ELSE "run"
       /\ outcome' = how
       /\ UNCHANGED <<store, ops>>

Return ==
    /\ Running
    /\ Leave(IF Last(frames).kind = "create" THEN SetCode(db, Self) ELSE db, "ok")

Fail == Running /\ Leave(RevertTo(db, Last(frames).revision), "failed")

SelfDestruct(beneficiary) ==
    /\ CanWork
    /\ Leave(After(db, <<Warm(beneficiary),
                         Op("ChangeBalance", beneficiary, Balance(db, Self)),
                         Op("Suicide", Self, 0)>>), "ok")

\* The message's state is committed, or discarded with the transaction.
Commit ==
    /\ phase = "end"
    /\ phase' = "done"
    /\ store' = IF outcome = "ok" THEN Committed(db) ELSE store
    /\ outcome' = "done"
    /\ UNCHANGED <<db, frames, ops>>

-----------------------------------------------------------------------------
\* The observers, which follow from the other variables.

\* What the transaction would leave if it ended now in the state d, of which st
\* is what Commit would write.
LedgerOf(d, st) ==
    [nonce |-> [a \in Addrs |-> IF st.acct[a] = NoAccount THEN 0 ELSE st.acct[a].nonce],
     warm |-> {a \in Addrs : d.warm[a] # Absent},
     rest |-> [code |-> {a \in Addrs : st.acct[a] # NoAccount /\ st.acct[a].code},
               exists |-> {a \in Addrs : st.acct[a] # NoAccount},
               bal |-> st.bal, slot |-> st.slot, pool |-> st.pool,
               rewards |-> st.rewards, logs |-> d.logs, refund |-> d.refund,
               slots |-> {p \in Addrs \X Keys : SlotIsWarm(d, p[1], p[2])}]]

Ledger(d) ==
    CHOOSE l \in {LedgerOf(p[1], p[2]) : p \in {<<x, Committed(x)>> : x \in {d}}} : TRUE

\* The state that frame i would return to.
StateBefore(i) == RevertTo(db, frames[i].revision)

Observe ==
    /\ ledger' = Ledger(db)'
    /\ saved' = [i \in DOMAIN frames |-> Ledger(StateBefore(i))]'

Init ==
    /\ phase = "start"
    /\ store \in GenesisStores
    /\ db = New
    /\ frames = << >>
    /\ ops = 0
    /\ outcome = "none"
    /\ ledger = Ledger(db)
    /\ saved = << >>

Step ==
    \/ \E a \in Targets, value \in {0, 1} : StartCall(a, value)
    \/ \E value \in {0, 1} : StartCreate(value)
    \/ \E m \in MethodsFor(Origin) : StartPrecompile(m)
    \/ \E k \in Keys, v \in Values : Sstore(k, v)
    \/ Log
    \/ \E a \in Targets, value \in {0, 1} : Call(a, value)
    \/ \E value \in {0, 1} : Create(value)
    \/ Running /\ \E m \in MethodsFor(Self) : CallPrecompile(m)
    \/ Return
    \/ Fail
    \/ \E a \in Targets : SelfDestruct(a)
    \/ Commit

Next == Step /\ Observe

Spec == Init /\ [][Next]_vars

-----------------------------------------------------------------------------
TypeOK ==
    /\ phase \in {"start", "run", "end", "done"}
    /\ store \in Store
    /\ db.obj \in [Addrs -> Object \cup {NoObj}]
    /\ db.cache \in Store \cup {NoCache}
    /\ db.dirties \in [Addrs -> Nat]
    /\ \A e \in Range(db.journal) : e.addr \in Addrs
    /\ db.refund \in Int
    /\ {db.logs, db.calls} \subseteq Nat
    /\ db.warm \in [Addrs -> NoSlots - 1 .. Len(db.slots) - 1]
    /\ db.slots \in Seq(SUBSET Keys)
    /\ \A f \in Range(frames) : f.self \in Addrs /\ f.kind \in {"call", "create"}
    /\ ops \in 0 .. MaxOps
    /\ outcome \in {"none", "ok", "failed", "done"}

\* Neither what happened nor the failure of any open frame panics: the refund
\* counter stays above zero, the slots of the access list are deleted while
\* their address is there, the revisions of open frames are valid, and every
\* dirty address has the object that commitWithCtx dereferences
\* (statedb.go:150-157, 490-503 and 525-534, access_list.go:92-110).
NeverPanics ==
    \A d \in {db} \cup {StateBefore(i) : i \in DOMAIN frames} :
        /\ ~d.panic
        /\ \A a \in Dirty(d) : d.obj[a] # NoObj

\* What contracts read is what Commit would write: nonces, code, balances and
\* storage of every account that has not destructed itself, although objects
\* are loaded from the store and precompiles work on the cache
\* (statedb.go:257-272 and 507-546, precompile.go:181-199).  A change of the
\* delegation that pays rewards is the exception (staking/tx.go:230-236).
ReadsMatchCommit ==
    LET st == Committed(db) IN
    phase = "run" /\ st.unmirrored = 0 =>
        \A a \in Addrs :
            IF ~Exists(db, a) THEN st.acct[a] = NoAccount /\ st.bal[a] = 0
            ELSE Obj(db, a).suicided \/
                 /\ st.acct[a] = [nonce |-> Obj(db, a).nonce, code |-> Obj(db, a).code]
                 /\ st.bal[a] = Obj(db, a).bal
                 /\ \A k \in Keys : st.slot[a][k] = Slot(db, a, k)

Coins(st) == MapThenSumSet(LAMBDA a : st.bal[a], Addrs) + st.pool + st.rewards

\* Commit, which mints and burns to reach the balances of the objects, makes
\* no coins and destroys only those of contracts that destructed themselves
\* and rewards that a change of the delegation has paid to an account whose
\* object is written over it (x/evm/keeper/statedb.go:83-113,
\* precompiles/staking/tx.go:230-236).
CoinsConserved ==
    LET after == Coins(Committed(db)) IN
    phase # "done" =>
        /\ after <= Coins(store)
        /\ (\A a \in Addrs : Exists(db, a) => ~Obj(db, a).suicided)
              => after >= Coins(store) - Committed(db).unmirrored

\* What contracts see of a state: accounts, storage, the refund counter, the
\* logs and the access list.
View(d) ==
    [account |-> [a \in Addrs |->
                    IF Exists(d, a) THEN LET s == Obj(d, a)
                                         IN  <<s.nonce, s.bal, s.code, s.suicided>>
                    ELSE << >>],
     slot |-> [a \in Addrs |-> [k \in Keys |-> Slot(d, a, k)]],
     refund |-> d.refund, logs |-> d.logs, warm |-> d.warm, slots |-> d.slots]

\* Whatever happens in a frame - operations, calls, deployments, precompiles,
\* reverts of the frames within - every frame that stays open would still
\* return to the same view of the state, although objects are loaded into it
\* meanwhile (journal.go:76-90, statedb.go:490-503).
RevertsRestore ==
    [][ \A i \in DOMAIN frames \cap DOMAIN frames' :
            \A before \in {StateBefore(i)}, after \in {StateBefore(i)'} :
                View(after)' = View(before) ]_vars

Abstract == INSTANCE CallFrames

\* The frames get what CallFrames promises (journal.go:76-90,
\* statedb.go:490-503, precompile.go:181-199).
ImplementsCallFrames == Abstract!FramesSpec

\* Refuted by TLC with Failures = {"setup", "gas"} in the run's cfg:
\* "This is needed to allow us to revert the changes during the EVM execution"
\* (precompiles/common/precompile.go:51-52): what happens in a frame does not
\* change the states that the frames around it would return to.
SavedStatesKept ==
    [][ \A i \in DOMAIN frames \cap DOMAIN frames' :
            saved'[i] = saved[i] ]_vars

\* Refuted by TLC when the run's cfg names it: "This ensures that the changes in
\* the bank keeper are correctly mirrored to the EVM stateDB"
\* (precompiles/staking/tx.go:232): without self-destructs the transaction
\* keeps all coins, rewards that come with a delegation included.
RewardsKept ==
    phase # "done" /\ (\A a \in Addrs : Exists(db, a) => ~Obj(db, a).suicided)
        => Coins(Committed(db)) = Coins(store)
=============================================================================
