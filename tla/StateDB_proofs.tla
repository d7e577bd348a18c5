---------------------------- MODULE StateDB_proofs ----------------------------
(***************************************************************************)
(* The journal of the StateDB, for all programs: whatever a frame has done,*)
(* undoing the journal down to its snapshot shows the state that the       *)
(* snapshot was taken in, although objects have been loaded since; and no  *)
(* panic of the StateDB is reached, by the operations or by a revert.      *)
(***************************************************************************)
EXTENDS StateDB, FiniteSetTheorems, SequenceTheorems, WellFoundedInduction, TLAPS

-----------------------------------------------------------------------------
(* Types.                                                                  *)

\* The stores that the cache may hold.  That balances are not negative is of
\* no importance here.
Caches == [acct : [Addrs -> Account \cup {NoAccount}], bal : [Addrs -> Int],
           slot : [Addrs -> [Keys -> Values]], pool : Int, rewards : Int,
           unmirrored : Int]

Entries ==
    [op : {"create"}, addr : Addrs, prev : {NoObj}]
    \cup [op : {"reset"}, addr : Addrs, prev : Object]
    \cup [op : {"suicide"}, addr : Addrs, prev : [suicided : BOOLEAN, bal : Int]]
    \cup [op : {"balance", "refund", "log", "warmAddress"}, addr : Addrs, prev : Int]
    \cup [op : {"nonce"}, addr : Addrs, prev : Nat]
    \cup [op : {"code"}, addr : Addrs, prev : BOOLEAN]
    \cup [op : {"storage"}, addr : Addrs, prev : [key : Keys, value : Values]]
    \cup [op : {"warmSlot"}, addr : Addrs, prev : Keys]
    \cup [op : {"precompile"}, addr : Addrs, prev : Caches]

Revision == [id : Nat, index : Nat]

Objs == [Addrs -> Object \cup {NoObj}]

States == [obj : Objs, cache : Caches \cup {NoCache},
           journal : Seq(Entries), dirties : [Addrs -> Int],
           revisions : Seq(Revision), nextRevision : Nat,
           refund : Int, logs : Int, calls : Nat,
           warm : [Addrs -> Int], slots : Seq(SUBSET Keys), panic : BOOLEAN]

-----------------------------------------------------------------------------
(* States that look the same.                                              *)

\* What is in the store for an address, as an object.
Stored(a) ==
    [EmptyObject EXCEPT !.nonce = store.acct[a].nonce,
                        !.code = store.acct[a].code,
                        !.bal = store.bal[a]]

\* getStateObject, of an object o that may not have been loaded.
Seen(o, a) == IF o = NoObj /\ store.acct[a] # NoAccount THEN Stored(a) ELSE o

\* GetState of the object s.
SlotSeen(s, a, k) == IF s.dirty[k] # Clean THEN s.dirty[k] ELSE store.slot[a][k]

\* The objects o and p of an address look the same, p loaded if o is.
SameObject(o, p, a) ==
    LET s == Seen(o, a)
        t == Seen(p, a)
    IN  /\ p = NoObj => o = NoObj
        /\ s = NoObj <=> t = NoObj
        /\ s # NoObj =>
              /\ s.nonce = t.nonce /\ s.bal = t.bal
              /\ s.code = t.code /\ s.suicided = t.suicided
              /\ \A k \in Keys : SlotSeen(s, a, k) = SlotSeen(t, a, k)

\* Two states look the same but for the store's cache, and every object loaded
\* in the first is loaded in the second.
Same(d, e) ==
    /\ \A a \in Addrs : SameObject(d.obj[a], e.obj[a], a)
    /\ e.dirties = d.dirties /\ e.refund = d.refund /\ e.logs = d.logs
    /\ e.warm = d.warm /\ e.slots = d.slots /\ e.panic = d.panic

LEMMA SameReflexive == ASSUME NEW d PROVE Same(d, d)
  BY DEF Same, SameObject

LEMMA SameTransitive ==
    ASSUME NEW d, NEW e, NEW f, Same(d, e), Same(e, f)
    PROVE  Same(d, f)
  <1>1. ASSUME NEW a \in Addrs PROVE SameObject(d.obj[a], f.obj[a], a)
    <2>1. SameObject(d.obj[a], e.obj[a], a) /\ SameObject(e.obj[a], f.obj[a], a)
      BY DEF Same
    <2> DEFINE s == Seen(d.obj[a], a)
               t == Seen(e.obj[a], a)
               u == Seen(f.obj[a], a)
    <2> HIDE DEF s, t, u
    <2>2. QED
      BY <2>1 DEF SameObject, s, t, u
  <1> QED BY <1>1 DEF Same

\* What an entry changes is there when it is undone.
NeedsObject == {"suicide", "balance", "nonce", "code", "storage"}
Applies(d, x) ==
    /\ x.op \in NeedsObject => d.obj[x.addr] # NoObj
    /\ x.op = "warmSlot" => d.warm[x.addr] \in 0 .. Len(d.slots) - 1

\* The objects after an entry has been undone.
ObjUndone(o, x) ==
    CASE x.op = "create"  -> NoObj
      [] x.op = "reset"   -> x.prev
      [] x.op = "suicide" -> [o EXCEPT !.suicided = x.prev.suicided, !.bal = x.prev.bal]
      [] x.op = "balance" -> [o EXCEPT !.bal = x.prev]
      [] x.op = "nonce"   -> [o EXCEPT !.nonce = x.prev]
      [] x.op = "code"    -> [o EXCEPT !.code = x.prev]
      [] x.op = "storage" -> [o EXCEPT !.dirty[x.prev.key] = x.prev.value]
      [] OTHER            -> o

\* A state as a record.
Fields == {"obj", "cache", "journal", "dirties", "revisions", "nextRevision",
           "refund", "logs", "calls", "warm", "slots", "panic"}

IsRecord(d) == DOMAIN d = Fields /\ d = [g \in Fields |-> d[g]]

LEMMA StateIsRecord == ASSUME NEW d \in States PROVE IsRecord(d)
  BY DEF States, IsRecord, Fields

\* What the entries of the journal and of the snapshots have nothing to do with.
Rest(d) == <<d.journal, d.revisions, d.nextRevision, d.calls>>

\* f is d with the entry x undone, field by field.
UndoLike(d, x, f) ==
    /\ \/ f.obj = [d.obj EXCEPT ![x.addr] = ObjUndone(@, x)]
       \/ f.obj = d.obj /\ ObjUndone(d.obj[x.addr], x) = d.obj[x.addr]
    /\ f.dirties = d.dirties
    /\ f.refund = IF x.op = "refund" THEN x.prev ELSE d.refund
    /\ f.logs = IF x.op = "log" THEN d.logs - 1 ELSE d.logs
    /\ f.cache = IF x.op = "precompile" THEN x.prev ELSE d.cache
    /\ x.op = "warmAddress" => f.warm = [d.warm EXCEPT ![x.addr] = Absent]
    /\ x.op \notin {"warmAddress", "warmSlot"} => f.warm = d.warm
    /\ x.op # "warmSlot" => f.slots = d.slots /\ f.panic = d.panic
    /\ x.op = "warmSlot" => f = DeleteSlot(d, x.addr, x.prev)
    /\ Rest(f) = Rest(d)
    /\ IsRecord(f)

LEMMA UndoFields ==
    ASSUME NEW d, IsRecord(d), NEW x \in Entries
    PROVE  UndoLike(d, x, Undo(d, x))
  <1> DEFINE f == Undo(d, x)
             v == [d.obj EXCEPT ![x.addr] = ObjUndone(@, x)]
  <1>1. CASE x.op \in {"create", "reset", "suicide", "balance", "nonce", "code", "storage"}
    <2>1. f = [d EXCEPT !.obj = v]
      <3>1. CASE x.op = "create" BY <3>1 DEF Undo, ObjUndone
      <3>2. CASE x.op = "reset" BY <3>2 DEF Undo, ObjUndone
      <3>3. CASE x.op = "suicide" BY <3>3 DEF Undo, ObjUndone
      <3>4. CASE x.op = "balance" BY <3>4 DEF Undo, ObjUndone
      <3>5. CASE x.op = "nonce" BY <3>5 DEF Undo, ObjUndone
      <3>6. CASE x.op = "code" BY <3>6 DEF Undo, ObjUndone
      <3>7. CASE x.op = "storage" BY <3>7 DEF Undo, ObjUndone
      <3> QED BY <1>1, <3>1, <3>2, <3>3, <3>4, <3>5, <3>6, <3>7
    <2> HIDE DEF v, f
    <2>2. f.obj = v /\ f.dirties = d.dirties /\ f.refund = d.refund /\ f.logs = d.logs
          /\ f.cache = d.cache /\ f.warm = d.warm /\ f.slots = d.slots /\ f.panic = d.panic
          /\ Rest(f) = Rest(d) /\ IsRecord(f)
      BY <2>1 DEF IsRecord, Fields, Rest
    <2>3. UndoLike(d, x, f)
      <3>1. f.obj = [d.obj EXCEPT ![x.addr] = ObjUndone(@, x)]
        BY <2>2 DEF v
      <3> QED BY <1>1, <2>2, <3>1 DEF UndoLike
    <2> QED BY <2>3 DEF f
  <1>2. CASE x.op \in {"refund", "log", "precompile", "warmAddress"}
    <2>1. ObjUndone(d.obj[x.addr], x) = d.obj[x.addr]
      BY <1>2 DEF ObjUndone
    <2>2. CASE x.op = "refund"
      <3>1. f = [d EXCEPT !.refund = x.prev] BY <2>2 DEF Undo
      <3> QED BY <2>1, <2>2, <3>1 DEF IsRecord, Fields, Rest, UndoLike
    <2>3. CASE x.op = "log"
      <3>1. f = [d EXCEPT !.logs = @ - 1] BY <2>3 DEF Undo
      <3> QED BY <2>1, <2>3, <3>1 DEF IsRecord, Fields, Rest, UndoLike
    <2>4. CASE x.op = "precompile"
      <3>1. f = [d EXCEPT !.cache = x.prev] BY <2>4 DEF Undo
      <3> QED BY <2>1, <2>4, <3>1 DEF IsRecord, Fields, Rest, UndoLike
    <2>5. CASE x.op = "warmAddress"
      <3>1. f = [d EXCEPT !.warm[x.addr] = Absent] BY <2>5 DEF Undo
      <3> QED BY <2>1, <2>5, <3>1 DEF IsRecord, Fields, Rest, UndoLike
    <2> QED BY <1>2, <2>2, <2>3, <2>4, <2>5
  <1>3. CASE x.op = "warmSlot"
    <2>1. ObjUndone(d.obj[x.addr], x) = d.obj[x.addr]
      BY <1>3 DEF ObjUndone
    <2>2. f = DeleteSlot(d, x.addr, x.prev)
      BY <1>3 DEF Undo
    <2>3. /\ f.obj = d.obj /\ f.dirties = d.dirties /\ f.refund = d.refund /\ f.logs = d.logs
          /\ f.cache = d.cache /\ Rest(f) = Rest(d) /\ IsRecord(f)
      BY <2>2 DEF DeleteSlot, IsRecord, Fields, Rest
    <2> QED BY <1>3, <2>1, <2>2, <2>3 DEF UndoLike
  <1>4. x.op \in {"create", "reset", "suicide", "balance", "nonce", "code", "storage",
                  "refund", "log", "precompile", "warmAddress", "warmSlot"}
    BY DEF Entries
  <1> QED BY <1>1, <1>2, <1>3, <1>4

\* The same of a round of journal.Revert.
RoundLike(d, x, g, f) ==
    /\ f.obj = g.obj
    /\ f.dirties = [d.dirties EXCEPT ![x.addr] = IF x.op \in Dirtying THEN @ - 1 ELSE @]
    /\ f.refund = g.refund /\ f.logs = g.logs /\ f.cache = g.cache
    /\ f.warm = g.warm /\ f.slots = g.slots /\ f.panic = g.panic
    /\ Rest(f) = Rest(d)
    /\ IsRecord(f)

LEMMA RoundFields ==
    ASSUME NEW d, IsRecord(d), NEW x \in Entries
    PROVE  /\ UndoLike(d, x, Undo(d, x))
           /\ RoundLike(d, x, Undo(d, x), UndoEntry(d, x))
  <1> DEFINE g == Undo(d, x)
  <1>1. /\ g.dirties = d.dirties /\ IsRecord(g) /\ Rest(g) = Rest(d)
        /\ UndoLike(d, x, g)
    BY UndoFields DEF UndoLike
  <1> DEFINE f == UndoEntry(d, x)
  <1>2. f = [g EXCEPT !.dirties[x.addr] = IF x.op \in Dirtying THEN @ - 1 ELSE @]
    BY DEF UndoEntry
  <1> HIDE DEF f, g
  <1>3. /\ f.obj = g.obj
        /\ f.dirties = [g.dirties EXCEPT ![x.addr] = IF x.op \in Dirtying THEN @ - 1 ELSE @]
        /\ f.refund = g.refund /\ f.logs = g.logs /\ f.cache = g.cache
        /\ f.warm = g.warm /\ f.slots = g.slots /\ f.panic = g.panic
        /\ Rest(f) = Rest(g) /\ IsRecord(f)
    BY <1>1, <1>2 DEF IsRecord, Fields, Rest
  <1>4. RoundLike(d, x, g, f)
    BY <1>1, <1>3 DEF RoundLike
  <1> QED BY <1>1, <1>4 DEF f, g

\* An entry that applies can be undone.
LEMMA UndoneObject ==
    ASSUME NEW x \in Entries, NEW o \in Object \cup {NoObj},
           x.op \in NeedsObject => o # NoObj
    PROVE  ObjUndone(o, x) \in Object \cup {NoObj}
  <1>1. CASE x.op = "reset" BY <1>1 DEF Entries, ObjUndone
  <1>2. CASE x.op = "suicide" BY <1>2 DEF Entries, ObjUndone, NeedsObject, Object
  <1>3. CASE x.op = "balance" BY <1>3 DEF Entries, ObjUndone, NeedsObject, Object
  <1>4. CASE x.op = "nonce" BY <1>4 DEF Entries, ObjUndone, NeedsObject, Object
  <1>5. CASE x.op = "code" BY <1>5 DEF Entries, ObjUndone, NeedsObject, Object
  <1>6. CASE x.op = "storage"
    <2>1. x.prev.key \in Keys /\ x.prev.value \in Values /\ o \in Object
      BY <1>6 DEF Entries, NeedsObject
    <2>2. ObjUndone(o, x) = [o EXCEPT !.dirty = [o.dirty EXCEPT ![x.prev.key] = x.prev.value]]
      BY <1>6 DEF ObjUndone
    <2>3. [o.dirty EXCEPT ![x.prev.key] = x.prev.value] \in [Keys -> Values \cup {Clean}]
      BY <2>1 DEF Object
    <2> QED BY <2>1, <2>2, <2>3 DEF Object
  <1> QED BY <1>1, <1>2, <1>3, <1>4, <1>5, <1>6 DEF ObjUndone

LEMMA UndoTyped ==
    ASSUME NEW d \in States, NEW x \in Entries, Applies(d, x)
    PROVE  UndoEntry(d, x) \in States
  <1> DEFINE g == Undo(d, x)
             f == UndoEntry(d, x)
  <1>1. IsRecord(d) /\ x.addr \in Addrs
    BY StateIsRecord DEF Entries
  <1>2. g.obj \in Objs
    <2>1. d.obj \in Objs /\ d.obj[x.addr] \in Object \cup {NoObj}
      BY <1>1 DEF States, Objs
    <2>2. ObjUndone(d.obj[x.addr], x) \in Object \cup {NoObj}
      BY <2>1, UndoneObject DEF Applies
    <2>3. g.obj = [d.obj EXCEPT ![x.addr] = ObjUndone(@, x)] \/ g.obj = d.obj
      BY <1>1, UndoFields DEF UndoLike
    <2> HIDE DEF g
    <2> QED BY <2>1, <2>2, <2>3 DEF Objs
  <1>3. g.warm \in [Addrs -> Int] /\ g.slots \in Seq(SUBSET Keys) /\ g.panic \in BOOLEAN
    <2>1. d.warm \in [Addrs -> Int] /\ d.slots \in Seq(SUBSET Keys) /\ d.panic \in BOOLEAN
      BY DEF States
    <2>2. CASE x.op # "warmSlot"
      <3>1. /\ x.op = "warmAddress" => g.warm = [d.warm EXCEPT ![x.addr] = Absent]
            /\ x.op \notin {"warmAddress", "warmSlot"} => g.warm = d.warm
            /\ g.slots = d.slots /\ g.panic = d.panic
        BY <1>1, <2>2, UndoFields DEF UndoLike
      <3> HIDE DEF g
      <3> QED BY <2>1, <2>2, <3>1 DEF Absent
    <2>3. CASE x.op = "warmSlot"
      <3> DEFINE w == d.warm[x.addr]
                 k == x.prev
                 left == d.slots[w + 1] \ {k}
      <3>1. g = DeleteSlot(d, x.addr, k)
        BY <1>1, <2>3, UndoFields DEF UndoLike
      <3>2. w \in 0 .. Len(d.slots) - 1
        BY <2>3 DEF Applies
      <3>3. \/ g = [d EXCEPT !.slots[w + 1] = left]
            \/ g = [d EXCEPT !.slots = SubSeq(@, 1, w), !.warm[x.addr] = NoSlots]
        BY <3>1, <3>2 DEF DeleteSlot
      <3> HIDE DEF g, w, left
      <3>4. \/ g.slots = [d.slots EXCEPT ![w + 1] = left] /\ g.warm = d.warm
            \/ g.slots = SubSeq(d.slots, 1, w) /\ g.warm = [d.warm EXCEPT ![x.addr] = NoSlots]
        BY <1>1, <3>3 DEF IsRecord, Fields
      <3>5. g.panic = d.panic
        BY <1>1, <3>3 DEF IsRecord, Fields
      <3>6. left \in SUBSET Keys /\ w + 1 \in 1 .. Len(d.slots)
        BY <2>1, <3>2 DEF left
      <3>7. [d.slots EXCEPT ![w + 1] = left] \in Seq(SUBSET Keys) /\ SubSeq(d.slots, 1, w) \in Seq(SUBSET Keys)
        BY <2>1, <3>2, <3>6
      <3>8. g.warm \in [Addrs -> Int]
        BY <2>1, <3>4 DEF NoSlots
      <3>9. g.slots \in Seq(SUBSET Keys)
        BY <3>4, <3>7
      <3> QED BY <2>1, <3>5, <3>8, <3>9
    <2> QED BY <2>2, <2>3
  <1>4. /\ x.op = "refund" => x.prev \in Int
        /\ x.op = "precompile" => x.prev \in Caches
    BY DEF Entries
  <1>5. /\ f.obj = g.obj
        /\ f.dirties = [d.dirties EXCEPT ![x.addr] = IF x.op \in Dirtying THEN @ - 1 ELSE @]
        /\ f.refund = IF x.op = "refund" THEN x.prev ELSE d.refund
        /\ f.logs = IF x.op = "log" THEN d.logs - 1 ELSE d.logs
        /\ f.cache = IF x.op = "precompile" THEN x.prev ELSE d.cache
        /\ f.warm = g.warm /\ f.slots = g.slots /\ f.panic = g.panic
        /\ Rest(f) = Rest(d)
        /\ IsRecord(f)
    <2>1. RoundLike(d, x, g, f) /\ UndoLike(d, x, g)
      BY <1>1, RoundFields
    <2> HIDE DEF f, g
    <2> QED BY <2>1 DEF RoundLike, UndoLike
  <1> HIDE DEF f, g
  <1>6. /\ f.refund \in Int /\ f.logs \in Int /\ f.cache \in Caches \cup {NoCache}
        /\ f.dirties \in [Addrs -> Int]
    <2>1. /\ d.refund \in Int /\ d.logs \in Int /\ d.cache \in Caches \cup {NoCache}
          /\ d.dirties \in [Addrs -> Int]
      BY DEF States
    <2>2. f.refund \in Int /\ f.logs \in Int
      BY <1>4, <1>5, <2>1
    <2>3. f.cache \in Caches \cup {NoCache}
      BY <1>4, <1>5, <2>1
    <2>4. f.dirties \in [Addrs -> Int]
      <3>1. CASE x.op \in Dirtying
        <4>1. f.dirties = [d.dirties EXCEPT ![x.addr] = @ - 1]
          BY <1>5, <3>1
        <4>2. d.dirties[x.addr] - 1 \in Int
          BY <1>1, <2>1
        <4> QED BY <2>1, <4>1, <4>2
      <3>2. CASE x.op \notin Dirtying
        <4>1. f.dirties = [d.dirties EXCEPT ![x.addr] = @]
          BY <1>5, <3>2
        <4> QED BY <2>1, <4>1
      <3> QED BY <3>1, <3>2
    <2> QED BY <2>2, <2>3, <2>4
  <1>7. /\ f.journal \in Seq(Entries) /\ f.revisions \in Seq(Revision)
        /\ f.nextRevision \in Nat /\ f.calls \in Nat
    BY <1>5 DEF Rest, States
  <1>8. f \in States
    BY <1>2, <1>3, <1>5, <1>6, <1>7 DEF States, IsRecord, Fields
  <1> QED BY <1>8 DEF f

\* What two objects that look the same become when an entry is undone.
LEMMA UndoSameObject ==
    ASSUME NEW x \in Entries, NEW a, NEW o \in Object \cup {NoObj}, NEW p \in Object \cup {NoObj},
           SameObject(o, p, a), x.op \in NeedsObject => o # NoObj
    PROVE  SameObject(ObjUndone(o, x), ObjUndone(p, x), a)
  <1> USE StateDBAssumption
  <1>1. CASE x.op \in {"create", "reset"}
    BY <1>1 DEF ObjUndone, SameObject
  <1>2. CASE x.op \in {"refund", "log", "precompile", "warmAddress", "warmSlot"}
    BY <1>2 DEF ObjUndone
  <1>3. CASE x.op \in NeedsObject
    <2> DEFINE q == ObjUndone(o, x)
               r == ObjUndone(p, x)
    <2>1. /\ o \in Object /\ p \in Object /\ o # NoObj /\ p # NoObj
          /\ o.nonce = p.nonce /\ o.bal = p.bal /\ o.code = p.code /\ o.suicided = p.suicided
          /\ \A k \in Keys : SlotSeen(o, a, k) = SlotSeen(p, a, k)
      BY <1>3 DEF SameObject, Seen
    <2> DEFINE Like ==
          /\ q \in Object /\ r \in Object
          /\ q.nonce = r.nonce /\ q.bal = r.bal /\ q.code = r.code /\ q.suicided = r.suicided
          /\ \A k \in Keys : SlotSeen(q, a, k) = SlotSeen(r, a, k)
    <2>2. ASSUME x.op = "suicide" PROVE Like
      <3>1. q = [o EXCEPT !.suicided = x.prev.suicided, !.bal = x.prev.bal]
            /\ r = [p EXCEPT !.suicided = x.prev.suicided, !.bal = x.prev.bal]
            /\ x.prev.suicided \in BOOLEAN /\ x.prev.bal \in Int
        BY <2>2 DEF ObjUndone, Entries
      <3> HIDE DEF q, r
      <3> QED BY <2>1, <3>1 DEF Object, SlotSeen
    <2>3. ASSUME x.op = "balance" PROVE Like
      <3>1. q = [o EXCEPT !.bal = x.prev] /\ r = [p EXCEPT !.bal = x.prev] /\ x.prev \in Int
        BY <2>3 DEF ObjUndone, Entries
      <3> HIDE DEF q, r
      <3> QED BY <2>1, <3>1 DEF Object, SlotSeen
    <2>4. ASSUME x.op = "nonce" PROVE Like
      <3>1. q = [o EXCEPT !.nonce = x.prev] /\ r = [p EXCEPT !.nonce = x.prev] /\ x.prev \in Nat
        BY <2>4 DEF ObjUndone, Entries
      <3> HIDE DEF q, r
      <3> QED BY <2>1, <3>1 DEF Object, SlotSeen
    <2>5. ASSUME x.op = "code" PROVE Like
      <3>1. q = [o EXCEPT !.code = x.prev] /\ r = [p EXCEPT !.code = x.prev] /\ x.prev \in BOOLEAN
        BY <2>5 DEF ObjUndone, Entries
      <3> HIDE DEF q, r
      <3> QED BY <2>1, <3>1 DEF Object, SlotSeen
    <2>6. ASSUME x.op = "storage" PROVE Like
      <3> DEFINE k == x.prev.key
                 v == x.prev.value
      <3>1. q = [o EXCEPT !.dirty = [o.dirty EXCEPT ![k] = v]] /\ r = [p EXCEPT !.dirty = [p.dirty EXCEPT ![k] = v]]
            /\ k \in Keys /\ v \in Values
        BY <2>6 DEF ObjUndone, Entries
      <3> HIDE DEF q, r, k, v
      <3>2. /\ [o.dirty EXCEPT ![k] = v] \in [Keys -> Values \cup {Clean}]
            /\ [p.dirty EXCEPT ![k] = v] \in [Keys -> Values \cup {Clean}]
        BY <2>1, <3>1 DEF Object
      <3>3. q \in Object /\ r \in Object
        BY <2>1, <3>1, <3>2 DEF Object
      <3>4. /\ q.nonce = r.nonce /\ q.bal = r.bal /\ q.code = r.code /\ q.suicided = r.suicided
            /\ q.dirty = [o.dirty EXCEPT ![k] = v] /\ r.dirty = [p.dirty EXCEPT ![k] = v]
        BY <2>1, <3>1 DEF Object
      <3>5. ASSUME NEW l \in Keys PROVE SlotSeen(q, a, l) = SlotSeen(r, a, l)
        <4>1. SlotSeen(o, a, l) = SlotSeen(p, a, l) /\ o.dirty \in [Keys -> Values \cup {Clean}] /\ p.dirty \in [Keys -> Values \cup {Clean}]
          BY <2>1 DEF Object
        <4> QED BY <3>4, <4>1 DEF SlotSeen
      <3> QED BY <3>3, <3>4, <3>5
    <2>7. Like
      BY <1>3, <2>2, <2>3, <2>4, <2>5, <2>6 DEF NeedsObject
    <2> HIDE DEF q, r
    <2>8. SameObject(q, r, a)
      BY <2>7 DEF SameObject, Seen
    <2> QED BY <2>8 DEF q, r
  <1> QED BY <1>1, <1>2, <1>3 DEF Entries, NeedsObject

LEMMA UndoSame ==
    ASSUME NEW d \in States, NEW e \in States, NEW x \in Entries, Applies(d, x), Same(d, e)
    PROVE  /\ Applies(e, x)
           /\ UndoEntry(d, x) \in States /\ UndoEntry(e, x) \in States
           /\ Same(UndoEntry(d, x), UndoEntry(e, x))
  <1> DEFINE b == x.addr
             f == UndoEntry(d, x)
             g == UndoEntry(e, x)
  <1>1. IsRecord(d) /\ IsRecord(e) /\ b \in Addrs /\ d.obj \in Objs /\ e.obj \in Objs
    BY StateIsRecord DEF Entries, States
  <1>2. Applies(e, x)
    BY <1>1 DEF Applies, Same, SameObject
  <1>3. f \in States /\ g \in States
    BY <1>2, UndoTyped
  <1>R. RoundLike(d, x, Undo(d, x), f) /\ RoundLike(e, x, Undo(e, x), g)
    BY <1>1, RoundFields
  <1> HIDE DEF f, g
  <1>4. ASSUME NEW a \in Addrs PROVE SameObject(f.obj[a], g.obj[a], a)
    <2>1. f.obj = Undo(d, x).obj /\ g.obj = Undo(e, x).obj
      BY <1>R DEF RoundLike
    <2>2. /\ f.obj = [d.obj EXCEPT ![b] = ObjUndone(@, x)] \/ (f.obj = d.obj /\ ObjUndone(d.obj[b], x) = d.obj[b])
          /\ g.obj = [e.obj EXCEPT ![b] = ObjUndone(@, x)] \/ (g.obj = e.obj /\ ObjUndone(e.obj[b], x) = e.obj[b])
      BY <1>1, <2>1, UndoFields DEF UndoLike
    <2>3. f.obj[a] = (IF a = b THEN ObjUndone(d.obj[a], x) ELSE d.obj[a])
          /\ g.obj[a] = (IF a = b THEN ObjUndone(e.obj[a], x) ELSE e.obj[a])
      BY <1>1, <2>2 DEF Objs
    <2>4. /\ d.obj[a] \in Object \cup {NoObj} /\ e.obj[a] \in Object \cup {NoObj}
          /\ SameObject(d.obj[a], e.obj[a], a)
      BY <1>1 DEF Objs, Same
    <2>5. a = b => SameObject(ObjUndone(d.obj[a], x), ObjUndone(e.obj[a], x), a)
      BY <2>4, UndoSameObject DEF Applies
    <2> QED BY <2>3, <2>4, <2>5
  <1>5. /\ d.dirties = e.dirties /\ d.refund = e.refund /\ d.logs = e.logs
        /\ d.warm = e.warm /\ d.slots = e.slots /\ d.panic = e.panic
    BY DEF Same
  <1>6. f.dirties = g.dirties /\ f.refund = g.refund /\ f.logs = g.logs
    <2>1. UndoLike(d, x, Undo(d, x)) /\ UndoLike(e, x, Undo(e, x))
      BY <1>1, RoundFields
    <2> QED BY <1>5, <1>R, <2>1 DEF RoundLike, UndoLike
  <1>7. f.warm = g.warm /\ f.slots = g.slots /\ f.panic = g.panic
    <2>1. f.warm = Undo(d, x).warm /\ f.slots = Undo(d, x).slots /\ f.panic = Undo(d, x).panic
      BY <1>R DEF RoundLike
    <2>2. g.warm = Undo(e, x).warm /\ g.slots = Undo(e, x).slots /\ g.panic = Undo(e, x).panic
      BY <1>R DEF RoundLike
    <2>3. CASE x.op # "warmSlot"
      <3>1. \A h \in {d, e} :
               /\ x.op = "warmAddress" => Undo(h, x).warm = [h.warm EXCEPT ![b] = Absent]
               /\ x.op \notin {"warmAddress", "warmSlot"} => Undo(h, x).warm = h.warm
               /\ Undo(h, x).slots = h.slots /\ Undo(h, x).panic = h.panic
        BY <1>1, <2>3, UndoFields DEF UndoLike
      <3> QED BY <1>5, <2>1, <2>2, <3>1, <2>3
    <2>4. CASE x.op = "warmSlot"
      <3>1. Undo(d, x) = DeleteSlot(d, b, x.prev) /\ Undo(e, x) = DeleteSlot(e, b, x.prev)
        BY <1>1, <2>4, UndoFields DEF UndoLike
      <3>2. /\ DeleteSlot(d, b, x.prev).warm = DeleteSlot(e, b, x.prev).warm
            /\ DeleteSlot(d, b, x.prev).slots = DeleteSlot(e, b, x.prev).slots
            /\ DeleteSlot(d, b, x.prev).panic = DeleteSlot(e, b, x.prev).panic
        BY <1>1, <1>5 DEF DeleteSlot, IsRecord, Fields
      <3> QED BY <2>1, <2>2, <3>1, <3>2
    <2> QED BY <2>3, <2>4
  <1>8. Same(f, g)
    BY <1>4, <1>5, <1>6, <1>7 DEF Same
  <1> QED BY <1>2, <1>3, <1>8 DEF f, g

-----------------------------------------------------------------------------
(* What a revert computes.                                                 *)

\* Induction up to n, I the numbers that a fact holds of.
LEMMA BoundedInduction ==
    ASSUME NEW n \in Nat, NEW I, 0 \in I, \A k \in 1..n : k - 1 \in I => k \in I
    PROVE  \A k \in 0..n : k \in I
  <1> DEFINE B == {k \in 0..n : k \notin I}
             R == OpToRel(<, Nat)
  <1>1. SUFFICES ASSUME B # {} PROVE FALSE
    OBVIOUS
  <1>2. PICK k \in B : \A j \in B : <<j, k>> \notin R
    <2>1. B \subseteq Nat
      OBVIOUS
    <2> HIDE DEF B, R
    <2>2. IsWellFoundedOn(R, Nat)
      BY NatLessThanWellFounded DEF R
    <2> QED BY <1>1, <2>1, <2>2, WFMin
  <1>3. k \in 1..n /\ k - 1 \in 0..n
    <2>1. k \in 0..n /\ k # 0
      OBVIOUS
    <2> HIDE DEF B
    <2> QED BY <2>1
  <1>4. k - 1 \notin B
    <2>1. k - 1 < k /\ k - 1 \in Nat /\ k \in Nat
      BY <1>3
    <2> QED BY <1>2, <2>1 DEF OpToRel
  <1> QED BY <1>2, <1>3, <1>4

\* g gives the state after each entry from the n-th on, d being the last one.
Rewound(d, n, g) ==
    g = [i \in n .. Len(d.journal) |->
           IF i = Len(d.journal) THEN d ELSE UndoEntry(g[i + 1], d.journal[i + 1])]

LEMMA RewindExists ==
    ASSUME NEW d, Len(d.journal) \in Nat, NEW n \in 0 .. Len(d.journal)
    PROVE  \E g : Rewound(d, n, g)
  <1> DEFINE l == Len(d.journal)
             I == {k \in 0 .. l : \E g : Rewound(d, l - k, g)}
  <1>0. l \in Nat
    OBVIOUS
  <1> HIDE DEF l
  <1>1. 0 \in I
    <2>1. Rewound(d, l - 0, [i \in l .. l |-> d])
      BY <1>0 DEF Rewound, l
    <2> QED BY <1>0, <2>1
  <1>2. ASSUME NEW k \in 1 .. l, k - 1 \in I PROVE k \in I
    <2> DEFINE m == l - k
    <2>1. m \in Nat /\ m < l /\ l - (k - 1) = m + 1 /\ k \in 0 .. l
      BY <1>0
    <2>2. PICK g : Rewound(d, m + 1, g)
      BY <1>2, <2>1
    <2> DEFINE h == [i \in m .. l |-> IF i = m THEN UndoEntry(g[m + 1], d.journal[m + 1]) ELSE g[i]]
    <2>3. ASSUME NEW i \in m .. l
          PROVE  h[i] = IF i = l THEN d ELSE UndoEntry(h[i + 1], d.journal[i + 1])
      <3>1. CASE i = m
        BY <1>0, <2>1, <3>1
      <3>2. CASE i # m
        <4>1. i \in m + 1 .. l /\ h[i] = g[i] /\ (i # l => h[i + 1] = g[i + 1])
          BY <1>0, <2>1, <3>2
        <4>2. g[i] = IF i = l THEN d ELSE UndoEntry(g[i + 1], d.journal[i + 1])
          BY <2>2, <4>1 DEF Rewound, l
        <4> QED BY <4>1, <4>2
      <3> QED BY <3>1, <3>2
    <2>4. h = [i \in m .. l |-> h[i]]
      OBVIOUS
    <2> HIDE DEF h
    <2>5. h = [i \in m .. l |-> IF i = l THEN d ELSE UndoEntry(h[i + 1], d.journal[i + 1])]
      BY <2>3, <2>4
    <2>6. Rewound(d, m, h)
      BY <2>5 DEF Rewound, l
    <2> QED BY <2>1, <2>6
  <1>3. \A k \in 0 .. l : k \in I
    <2> HIDE DEF I
    <2> QED BY <1>0, <1>1, <1>2, BoundedInduction
  <1>4. l - n \in 0 .. l /\ l - (l - n) = n
    BY <1>0 DEF l
  <1> QED BY <1>3, <1>4

LEMMA RewindUnique ==
    ASSUME NEW d, Len(d.journal) \in Nat, NEW n \in 0 .. Len(d.journal),
           NEW g, Rewound(d, n, g), NEW h, Rewound(d, 0, h)
    PROVE  \A i \in n .. Len(d.journal) : g[i] = h[i]
  <1> DEFINE l == Len(d.journal)
             I == {k \in 0 .. l : l - k >= n => g[l - k] = h[l - k]}
  <1>0. l \in Nat
    OBVIOUS
  <1>1. \A i \in n .. l : g[i] = IF i = l THEN d ELSE UndoEntry(g[i + 1], d.journal[i + 1])
    BY DEF Rewound
  <1>2. \A i \in 0 .. l : h[i] = IF i = l THEN d ELSE UndoEntry(h[i + 1], d.journal[i + 1])
    BY DEF Rewound
  <1>3. n \in 0 .. l
    OBVIOUS
  <1> HIDE DEF l
  <1>4. 0 \in I
    BY <1>0, <1>1, <1>2, <1>3
  <1>5. ASSUME NEW k \in 1 .. l, k - 1 \in I PROVE k \in I
    <2>1. CASE l - k >= n
      <3> DEFINE i == l - k
      <3>1. i \in n .. l /\ i \in 0 .. l /\ i # l /\ l - (k - 1) = i + 1 /\ i + 1 >= n
        BY <1>0, <1>3, <2>1
      <3>2. g[i + 1] = h[i + 1]
        BY <1>5, <3>1
      <3> QED BY <1>0, <1>1, <1>2, <3>1, <3>2
    <2> QED BY <1>0, <2>1
  <1>6. \A k \in 0 .. l : k \in I
    <2> HIDE DEF I
    <2> QED BY <1>0, <1>4, <1>5, BoundedInduction
  <1>7. ASSUME NEW i \in n .. l PROVE g[i] = h[i]
    <2>1. l - i \in 0 .. l /\ l - (l - i) = i /\ i >= n
      BY <1>0, <1>3
    <2> QED BY <1>6, <2>1
  <1> QED BY <1>7 DEF l

\* The states that d would be undone to, entry by entry.
History(d) == CHOOSE h : Rewound(d, 0, h)

LEMMA HistoryFrom ==
    ASSUME NEW d, Len(d.journal) \in Nat
    PROVE  /\ History(d)[Len(d.journal)] = d
           /\ \A i \in 0 .. Len(d.journal) - 1 :
                 History(d)[i] = UndoEntry(History(d)[i + 1], d.journal[i + 1])
  <1>1. Rewound(d, 0, History(d))
    BY RewindExists DEF History
  <1> QED BY <1>1 DEF Rewound

\* journal.Revert.
LEMMA UndoneIs ==
    ASSUME NEW d, Len(d.journal) \in Nat, NEW n \in 0 .. Len(d.journal)
    PROVE  Undone(d, n) = [History(d)[n] EXCEPT !.journal = SubSeq(@, 1, n)]
  <1> DEFINE Made(g) == g = [i \in n .. Len(d.journal) |->
                IF i = Len(d.journal) THEN d
                ELSE CHOOSE r \in {UndoEntry(x, d.journal[i + 1]) : x \in {g[i + 1]}} : TRUE]
             f == CHOOSE g : Made(g)
  <1>1. \A y, z : (CHOOSE r \in {UndoEntry(x, y) : x \in {z}} : TRUE) = UndoEntry(z, y)
    OBVIOUS
  <1>2. \A g : Made(g) <=> Rewound(d, n, g)
    BY <1>1 DEF Rewound
  <1>3. Undone(d, n) = [f[n] EXCEPT !.journal = SubSeq(@, 1, n)]
    BY DEF Undone
  <1> HIDE DEF Made
  <1>4. Made(f)
    BY <1>2, RewindExists
  <1>5. Rewound(d, n, f) /\ Rewound(d, 0, History(d))
    BY <1>2, <1>4, RewindExists DEF History
  <1> HIDE DEF f
  <1>6. f[n] = History(d)[n]
    BY <1>5, RewindUnique
  <1> QED BY <1>3, <1>6

-----------------------------------------------------------------------------
(* The invariant of a state.                                               *)

\* The journal counts what makes an address dirty; a dirty address has its
\* object; and the access list is in order.
Fine(c) ==
    /\ \A a \in Addrs : /\ c.dirties[a] >= 0
                        /\ c.dirties[a] > 0 => c.obj[a] # NoObj
                        /\ c.warm[a] \in Absent .. Len(c.slots) - 1
    /\ \A i \in 1 .. Len(c.slots) : c.slots[i] # {}
    /\ ~c.panic

\* The slots that the transaction has emptied.
EmptiedOf(slot, c) ==
    {p \in Addrs \X Keys :
        /\ c.obj[p[1]] # NoObj
        /\ slot[p[1]][p[2]] # 0 /\ c.obj[p[1]].dirty[p[2]] = 0}

Emptied(c) == EmptiedOf(store.slot, c)

\* What the refund counter has got for clearing them may be taken back.
RefundCovers(c) == c.refund >= ClearingRefund * Cardinality(Emptied(c))

LEMMA FineSame ==
    ASSUME NEW c, NEW e, Same(c, e), Fine(c)
    PROVE  Fine(e)
  BY DEF Same, SameObject, Fine

LEMMA EmptiedSame ==
    ASSUME NEW c, NEW e, Same(c, e)
    PROVE  Emptied(e) = Emptied(c) /\ (RefundCovers(c) => RefundCovers(e))
  <1>1. ASSUME NEW p \in Addrs \X Keys
        PROVE  p \in Emptied(e) <=> p \in Emptied(c)
    <2> DEFINE a == p[1]
               k == p[2]
               o == c.obj[a]
               q == e.obj[a]
               s == Seen(o, a)
               t == Seen(q, a)
    <2>1. a \in Addrs /\ k \in Keys
      OBVIOUS
    <2>2. SameObject(o, q, a)
      BY <2>1 DEF Same
    <2>3. /\ q = NoObj => o = NoObj
          /\ s = NoObj <=> t = NoObj
          /\ s # NoObj => SlotSeen(s, a, k) = SlotSeen(t, a, k)
      BY <2>1, <2>2 DEF SameObject
    <2>4. o = NoObj /\ s # NoObj => SlotSeen(s, a, k) = store.slot[a][k]
      <3>1. Stored(a).dirty[k] = Clean
        BY <2>1 DEF Stored, EmptyObject
      <3> QED BY <3>1 DEF Seen, SlotSeen
    <2>5. /\ o # NoObj => s = o
          /\ q # NoObj => t = q
          /\ Clean # 0
      BY StateDBAssumption DEF Seen
    <2> HIDE DEF o, q, s, t, a, k
    <2>6. store.slot[a][k] # 0 => (o # NoObj /\ o.dirty[k] = 0 <=> q # NoObj /\ q.dirty[k] = 0)
      BY <2>3, <2>4, <2>5 DEF SlotSeen
    <2> QED BY <2>6 DEF Emptied, EmptiedOf, o, q, a, k
  <1>2. Emptied(e) = Emptied(c)
    BY <1>1 DEF Emptied, EmptiedOf
  <1> QED BY <1>2 DEF RefundCovers, Same

\* The states that d would be undone to are in order, and the snapshots were
\* taken in states whose refund counter covers what it owes.
Kept(d) ==
    /\ d \in States
    /\ \A i \in 0 .. Len(d.journal) :
          /\ History(d)[i] \in States /\ Fine(History(d)[i])
          /\ i > 0 => Applies(History(d)[i], d.journal[i])
    /\ \A p \in 1 .. Len(d.revisions) :
          /\ d.revisions[p].index <= Len(d.journal)
          /\ d.revisions[p].id < d.nextRevision
          /\ RefundCovers(History(d)[d.revisions[p].index])
          /\ \A q \in 1 .. Len(d.revisions) : p < q =>
                /\ d.revisions[p].id < d.revisions[q].id
                /\ d.revisions[p].index <= d.revisions[q].index

\* What may still be undone looks in e as it does in d, up to the n-th entry
\* and the r-th snapshot.
SameBefore(d, e, n, r) ==
    /\ n \in 0 .. Len(d.journal) /\ n <= Len(e.journal)
    /\ r \in 0 .. Len(d.revisions) /\ r <= Len(e.revisions)
    /\ \A i \in 0 .. n : Same(History(d)[i], History(e)[i])
    /\ \A p \in 1 .. r : e.revisions[p] = d.revisions[p]

\* e is a state after d, in the same frame or one that it has entered.
Later(d, e) ==
    /\ SameBefore(d, e, Len(d.journal), Len(d.revisions))
    /\ d.nextRevision <= e.nextRevision
    /\ \A a \in Addrs : d.warm[a] # Absent => e.warm[a] # Absent

\* What is needed of the lengths.
LEMMA Lengths ==
    ASSUME NEW d \in States
    PROVE  /\ d.journal \in Seq(Entries) /\ Len(d.journal) \in Nat
           /\ d.revisions \in Seq(Revision) /\ Len(d.revisions) \in Nat
           /\ \A p \in 1 .. Len(d.revisions) :
                 d.revisions[p].id \in Nat /\ d.revisions[p].index \in Nat
           /\ d.nextRevision \in Nat
           /\ History(d)[Len(d.journal)] = d
  <1>1. /\ d.journal \in Seq(Entries) /\ d.revisions \in Seq(Revision) /\ d.nextRevision \in Nat
    BY DEF States
  <1>2. \A p \in 1 .. Len(d.revisions) : d.revisions[p] \in Revision
    BY <1>1
  <1>3. Len(d.journal) \in Nat /\ Len(d.revisions) \in Nat
    BY <1>1
  <1>4. History(d)[Len(d.journal)] = d
    BY <1>3, HistoryFrom
  <1> QED BY <1>1, <1>2, <1>3, <1>4 DEF Revision

\* Where two journals agree, and the states after the agreement look the same,
\* all states before look the same.
LEMMA HistorySame ==
    ASSUME NEW d, Kept(d), NEW e \in States, NEW n \in 0 .. Len(d.journal), n <= Len(e.journal),
           \A i \in 1 .. n : e.journal[i] = d.journal[i],
           History(e)[n] \in States, Same(History(d)[n], History(e)[n])
    PROVE  \A i \in 0 .. n :
              /\ Same(History(d)[i], History(e)[i])
              /\ History(e)[i] \in States /\ Fine(History(e)[i])
              /\ i > 0 => Applies(History(e)[i], e.journal[i])
  <1> DEFINE D(i) == History(d)[i]
             E(i) == History(e)[i]
             Ok(i) == Same(D(i), E(i)) /\ E(i) \in States
             I == {k \in 0 .. n : Ok(n - k)}
  <1>0. /\ n \in Nat /\ Len(d.journal) \in Nat /\ Len(e.journal) \in Nat
        /\ d.journal \in Seq(Entries) /\ e.journal \in Seq(Entries)
    <2>1. d \in States
      BY DEF Kept
    <2> QED BY <2>1, Lengths
  <1>1. 0 \in I
    BY <1>0
  <1>2. ASSUME NEW i \in 1 .. n, Ok(i) PROVE Ok(i - 1) /\ Applies(E(i), e.journal[i])
    <2> DEFINE x == e.journal[i]
    <2>1. i \in 1 .. Len(d.journal) /\ i \in 1 .. Len(e.journal) /\ i - 1 + 1 = i
          /\ i - 1 \in 0 .. Len(d.journal) - 1 /\ i - 1 \in 0 .. Len(e.journal) - 1
      BY <1>0
    <2>2. x \in Entries /\ d.journal[i] = x
      BY <1>0, <2>1
    <2>3. D(i - 1) = UndoEntry(D(i), x) /\ E(i - 1) = UndoEntry(E(i), x)
      BY <1>0, <2>1, <2>2, HistoryFrom
    <2>4. D(i) \in States /\ Applies(D(i), x)
      BY <1>0, <2>1, <2>2 DEF Kept
    <2> HIDE DEF D, E, x
    <2>5. QED BY <1>2, <2>2, <2>3, <2>4, UndoSame
  <1>3. ASSUME NEW k \in 1 .. n, k - 1 \in I PROVE k \in I
    <2>1. n - k + 1 \in 1 .. n /\ n - (k - 1) = n - k + 1 /\ n - k + 1 - 1 = n - k
      BY <1>0
    <2> HIDE DEF Ok
    <2>2. Ok(n - k + 1)
      BY <1>3, <2>1
    <2> QED BY <1>2, <2>1, <2>2
  <1>4. \A k \in 0 .. n : k \in I
    <2> HIDE DEF I
    <2> QED BY <1>0, <1>1, <1>3, BoundedInduction
  <1>5. ASSUME NEW i \in 0 .. n PROVE Ok(i)
    <2> HIDE DEF Ok
    <2>1. n - i \in 0 .. n /\ n - (n - i) = i
      BY <1>0
    <2> QED BY <1>4, <2>1
  <1>6. ASSUME NEW i \in 0 .. n
        PROVE  /\ Same(D(i), E(i)) /\ E(i) \in States /\ Fine(E(i))
               /\ i > 0 => Applies(E(i), e.journal[i])
    <2>1. Ok(i)
      BY <1>5
    <2>2. Fine(D(i))
      BY <1>0 DEF Kept
    <2>3. i > 0 => Applies(E(i), e.journal[i])
      BY <1>0, <1>2, <2>1
    <2> HIDE DEF D, E
    <2> QED BY <2>1, <2>2, <2>3, FineSame
  <1> QED BY <1>6

LEMMA SameBeforeTransitive ==
    ASSUME NEW d, NEW e, NEW f, NEW n, NEW r, SameBefore(d, e, n, r), SameBefore(e, f, n, r),
           Len(e.journal) \in Nat, Len(d.journal) \in Nat, Len(d.revisions) \in Nat, Len(e.revisions) \in Nat
    PROVE  SameBefore(d, f, n, r)
  <1>1. ASSUME NEW i \in 0 .. n PROVE Same(History(d)[i], History(f)[i])
    BY SameTransitive DEF SameBefore
  <1> QED BY <1>1 DEF SameBefore

\* One step of the StateDB: an object is loaded, or a change is journaled whose
\* entry undoes it.
Stepped(d, e) ==
    /\ e \in States /\ Fine(e)
    /\ e.revisions = d.revisions /\ e.nextRevision = d.nextRevision
    /\ \A a \in Addrs : d.warm[a] # Absent => e.warm[a] # Absent
    /\ \/ e.journal = d.journal /\ Same(d, e)
       \/ \E x \in Entries :
             /\ e.journal = Append(d.journal, x)
             /\ Applies(e, x)
             /\ Same(d, UndoEntry(e, x))

\* Snapshots that are in order stay so where the states before look the same.
RevisionsOK(d, n) ==
    \A p \in 1 .. Len(d.revisions) :
          /\ d.revisions[p].index <= n
          /\ d.revisions[p].id < d.nextRevision
          /\ RefundCovers(History(d)[d.revisions[p].index])
          /\ \A q \in 1 .. Len(d.revisions) : p < q =>
                /\ d.revisions[p].id < d.revisions[q].id
                /\ d.revisions[p].index <= d.revisions[q].index

LEMMA StepKept ==
    ASSUME NEW d, Kept(d), NEW e, Stepped(d, e)
    PROVE  Kept(e) /\ Later(d, e) /\ e.nextRevision = d.nextRevision
  <1> DEFINE n == Len(d.journal)
             l == Len(e.journal)
  <1>1. d \in States /\ e \in States /\ Fine(e) /\ e.revisions = d.revisions /\ e.nextRevision = d.nextRevision
    BY DEF Kept, Stepped
  <1>2. /\ d.journal \in Seq(Entries) /\ n \in Nat /\ History(d)[n] = d
        /\ e.journal \in Seq(Entries) /\ l \in Nat /\ History(e)[l] = e
        /\ Len(d.revisions) \in Nat
        /\ \A p \in 1 .. Len(d.revisions) : d.revisions[p].index \in Nat
    BY <1>1, Lengths
  <1> DEFINE Grown ==
        /\ l = n \/ (l = n + 1 /\ Applies(e, e.journal[l]))
        /\ \A i \in 1 .. n : e.journal[i] = d.journal[i]
        /\ History(e)[n] \in States /\ Same(History(d)[n], History(e)[n])
  <1>3. Grown
    <2>1. CASE e.journal = d.journal /\ Same(d, e)
      BY <1>1, <1>2, <2>1
    <2>2. ASSUME NEW x \in Entries, e.journal = Append(d.journal, x), Applies(e, x),
                 Same(d, UndoEntry(e, x))
          PROVE  Grown
      <3>1. l = n + 1 /\ e.journal[l] = x /\ \A i \in 1 .. n : e.journal[i] = d.journal[i]
        BY <1>2, <2>2
      <3>2. History(e)[n] = UndoEntry(e, x)
        <4>1. n \in 0 .. l - 1 /\ n + 1 = l
          BY <1>2, <3>1
        <4> HIDE DEF n, l
        <4>2. History(e)[n] = UndoEntry(History(e)[n + 1], e.journal[n + 1])
          BY <1>2, <4>1, HistoryFrom DEF l
        <4> QED BY <1>2, <3>1, <4>1, <4>2
      <3>3. UndoEntry(e, x) \in States
        BY <1>1, <2>2, UndoTyped
      <3> QED BY <1>2, <2>2, <3>1, <3>2, <3>3
    <2> QED BY <2>1, <2>2 DEF Stepped
  <1> HIDE DEF n, l
  <1>4. \A i \in 0 .. n :
              /\ Same(History(d)[i], History(e)[i])
              /\ History(e)[i] \in States /\ Fine(History(e)[i])
              /\ i > 0 => Applies(History(e)[i], e.journal[i])
    <2>1. n \in 0 .. Len(d.journal) /\ n <= Len(e.journal)
      BY <1>2, <1>3 DEF n, l
    <2> QED BY <1>1, <1>3, <2>1, HistorySame
  <1>5. ASSUME NEW i \in 0 .. l
        PROVE  /\ History(e)[i] \in States /\ Fine(History(e)[i])
               /\ i > 0 => Applies(History(e)[i], e.journal[i])
    <2>1. CASE i \in 0 .. n
      BY <1>4, <2>1
    <2>2. CASE i \notin 0 .. n
      <3>1. i = l /\ l = n + 1
        BY <1>2, <1>3, <2>2
      <3> QED BY <1>1, <1>2, <1>3, <3>1
    <2> QED BY <2>1, <2>2
  <1>6. RevisionsOK(e, l)
    <2>1. RevisionsOK(d, n)
      BY DEF Kept, RevisionsOK, n
    <2>2. \A i \in 0 .. n : RefundCovers(History(d)[i]) => RefundCovers(History(e)[i])
      BY <1>4, EmptiedSame
    <2>3. \A p \in 1 .. Len(d.revisions) : d.revisions[p].index \in 0 .. n /\ d.revisions[p].index <= l
      BY <1>2, <1>3, <2>1 DEF RevisionsOK
    <2> QED BY <1>1, <2>1, <2>2, <2>3 DEF RevisionsOK
  <1>7. Kept(e)
    BY <1>1, <1>5, <1>6 DEF Kept, RevisionsOK, l
  <1>8. Later(d, e)
    <2>1. n \in 0 .. n /\ n <= l /\ Len(d.revisions) \in 0 .. Len(d.revisions)
      BY <1>2, <1>3
    <2>2. SameBefore(d, e, n, Len(d.revisions))
      BY <1>1, <1>2, <1>4, <2>1 DEF SameBefore, n, l
    <2>3. d.nextRevision <= e.nextRevision
      BY <1>1 DEF States
    <2> QED BY <2>2, <2>3 DEF Later, Stepped, n
  <1> QED BY <1>1, <1>7, <1>8

\* A snapshot, and the states before it.
LEMMA SnapshotKept ==
    ASSUME NEW d, Kept(d), RefundCovers(d)
    PROVE  LET e == Snapshot(d)
           IN  /\ Kept(e) /\ Later(d, e) /\ RefundCovers(e) /\ Same(d, e)
               /\ Len(e.revisions) = Len(d.revisions) + 1
               /\ e.revisions[Len(d.revisions) + 1] = [id |-> d.nextRevision, index |-> Len(d.journal)]
               /\ e.nextRevision = d.nextRevision + 1
               /\ e.journal = d.journal
  <1> DEFINE n == Len(d.journal)
             r == Len(d.revisions)
             new == [id |-> d.nextRevision, index |-> n]
             e == Snapshot(d)
  <1>1. d \in States /\ IsRecord(d)
    BY StateIsRecord DEF Kept
  <1>2. /\ d.journal \in Seq(Entries) /\ n \in Nat /\ History(d)[n] = d
        /\ d.revisions \in Seq(Revision) /\ r \in Nat /\ d.nextRevision \in Nat
        /\ \A p \in 1 .. r : d.revisions[p].index \in Nat
    BY <1>1, Lengths
  <1>3. /\ e.revisions = Append(d.revisions, new) /\ e.nextRevision = d.nextRevision + 1
        /\ e.obj = d.obj /\ e.dirties = d.dirties /\ e.refund = d.refund /\ e.logs = d.logs
        /\ e.cache = d.cache /\ e.warm = d.warm /\ e.slots = d.slots /\ e.panic = d.panic
        /\ e.journal = d.journal /\ e.calls = d.calls /\ IsRecord(e)
    BY <1>1 DEF Snapshot, IsRecord, Fields
  <1> HIDE DEF e
  <1>4. new \in Revision
    BY <1>2 DEF Revision
  <1> HIDE DEF new
  <1>5. e \in States
    <2>1. e.revisions \in Seq(Revision) /\ e.nextRevision \in Nat
      BY <1>2, <1>3, <1>4
    <2> HIDE DEF n, r
    <2> QED BY <1>1, <1>3, <2>1 DEF States, IsRecord, Fields
  <1>6. /\ Len(e.revisions) = r + 1 /\ e.revisions[r + 1] = new
        /\ \A p \in 1 .. r : e.revisions[p] = d.revisions[p]
    BY <1>2, <1>3
  <1>7. Same(d, e)
    BY <1>3 DEF Same, SameObject
  <1>8. History(e)[n] = e
    BY <1>3, <1>5, Lengths
  <1>9. \A i \in 0 .. n :
              /\ Same(History(d)[i], History(e)[i])
              /\ History(e)[i] \in States /\ Fine(History(e)[i])
              /\ i > 0 => Applies(History(e)[i], e.journal[i])
    <2>1. n \in 0 .. Len(d.journal) /\ n <= Len(e.journal) /\ \A i \in 1 .. n : e.journal[i] = d.journal[i]
      BY <1>2, <1>3
    <2> HIDE DEF n
    <2> QED BY <1>2, <1>5, <1>7, <1>8, <2>1, HistorySame
  <1>10. RefundCovers(e)
    BY <1>7, EmptiedSame
  <1>11. RevisionsOK(e, n)
    <2>1. RevisionsOK(d, n)
      BY DEF Kept, RevisionsOK
    <2>2. \A i \in 0 .. n : RefundCovers(History(d)[i]) => RefundCovers(History(e)[i])
      BY <1>9, EmptiedSame
    <2>3. new.index = n /\ new.id = d.nextRevision
      BY DEF new
    <2> HIDE DEF n, r
    <2>4. ASSUME NEW p \in 1 .. r
          PROVE  /\ e.revisions[p].index <= n
                 /\ e.revisions[p].id < e.nextRevision
                 /\ RefundCovers(History(e)[e.revisions[p].index])
                 /\ \A q \in 1 .. r + 1 : p < q =>
                        /\ e.revisions[p].id < e.revisions[q].id
                        /\ e.revisions[p].index <= e.revisions[q].index
      <3>1. /\ d.revisions[p].index \in 0 .. n /\ d.revisions[p].id < d.nextRevision
            /\ RefundCovers(History(d)[d.revisions[p].index])
            /\ d.revisions[p].id \in Nat
            /\ \A q \in 1 .. r : p < q =>
                  /\ d.revisions[p].id < d.revisions[q].id
                  /\ d.revisions[p].index <= d.revisions[q].index
        <4>1. d.revisions[p].id \in Nat
          BY <1>1, Lengths DEF r
        <4> QED BY <1>2, <2>1, <4>1 DEF RevisionsOK, r
      <3>2. e.revisions[p] = d.revisions[p]
        BY <1>6
      <3>3. ASSUME NEW q \in 1 .. r + 1, p < q
            PROVE  /\ e.revisions[p].id < e.revisions[q].id
                   /\ e.revisions[p].index <= e.revisions[q].index
        <4>1. CASE q \in 1 .. r
          BY <1>6, <3>1, <3>2, <3>3, <4>1
        <4>2. CASE q = r + 1
          BY <1>6, <2>3, <3>1, <3>2, <4>2
        <4> QED BY <1>2, <4>1, <4>2
      <3>4. e.revisions[p].id < e.nextRevision
        BY <1>2, <1>3, <3>1, <3>2
      <3> QED BY <2>2, <3>1, <3>2, <3>3, <3>4
    <2>5. /\ e.revisions[r + 1].index = n
          /\ e.revisions[r + 1].id < e.nextRevision
          /\ RefundCovers(History(e)[n])
      BY <1>2, <1>3, <1>6, <1>8, <1>10, <2>3
    <2> QED
      <3>1. \A p \in 1 .. r + 1 : p \in 1 .. r \/ p = r + 1
        BY <1>2
      <3>2. \A q \in 1 .. r + 1 : ~(r + 1 < q)
        BY <1>2
      <3>3. n <= n
        BY <1>2
      <3> QED BY <1>6, <2>4, <2>5, <3>1, <3>2, <3>3 DEF RevisionsOK
  <1>12. Kept(e)
    BY <1>3, <1>5, <1>9, <1>11 DEF Kept, RevisionsOK
  <1>13. Later(d, e)
    <2>1. n \in 0 .. n /\ n <= Len(e.journal) /\ r \in 0 .. r /\ r <= Len(e.revisions)
      BY <1>2, <1>3, <1>6
    <2>2. SameBefore(d, e, n, r)
      BY <1>6, <1>9, <2>1 DEF SameBefore
    <2> QED BY <1>2, <1>3, <2>2 DEF Later
  <1> QED BY <1>3, <1>6, <1>7, <1>10, <1>12, <1>13 DEF e, new

\* Undoing leaves the journal and the snapshots to journal.Revert and its caller.
LEMMA HistoryRest ==
    ASSUME NEW d, Kept(d)
    PROVE  \A i \in 0 .. Len(d.journal) : Rest(History(d)[i]) = Rest(d)
  <1> DEFINE l == Len(d.journal)
             I == {k \in 0 .. l : Rest(History(d)[l - k]) = Rest(d)}
  <1>1. /\ d.journal \in Seq(Entries) /\ l \in Nat /\ History(d)[l] = d
    <2>1. d \in States
      BY DEF Kept
    <2> QED BY <2>1, Lengths
  <1>2. 0 \in I
    BY <1>1
  <1>3. ASSUME NEW k \in 1 .. l, k - 1 \in I PROVE k \in I
    <2> DEFINE i == l - k
               h == History(d)[i + 1]
               x == d.journal[i + 1]
    <2>1. i \in 0 .. l - 1 /\ i + 1 \in 0 .. l /\ i + 1 \in 1 .. l /\ l - (k - 1) = i + 1 /\ k \in 0 .. l
      BY <1>1
    <2>2. IsRecord(h) /\ x \in Entries
      BY <1>1, <2>1, StateIsRecord DEF Kept
    <2>3. Rest(UndoEntry(h, x)) = Rest(h)
      BY <2>2, RoundFields DEF RoundLike
    <2>4. History(d)[i] = UndoEntry(h, x)
      BY <1>1, <2>1, HistoryFrom
    <2> QED BY <1>3, <2>1, <2>3, <2>4
  <1>4. \A k \in 0 .. l : k \in I
    <2> HIDE DEF I
    <2> QED BY <1>1, <1>2, <1>3, BoundedInduction
  <1>5. ASSUME NEW i \in 0 .. l PROVE Rest(History(d)[i]) = Rest(d)
    <2>1. l - i \in 0 .. l /\ l - (l - i) = i
      BY <1>1
    <2> QED BY <1>4, <2>1
  <1> QED BY <1>5

\* A revert to the p-th snapshot shows what there was when it was taken.
LEMMA RevertKept ==
    ASSUME NEW d, Kept(d), NEW p \in 1 .. Len(d.revisions)
    PROVE  LET e == RevertTo(d, d.revisions[p].id)
               n == d.revisions[p].index
           IN  /\ Kept(e) /\ RefundCovers(e)
               /\ Same(History(d)[n], e)
               /\ SameBefore(d, e, n, p - 1)
               /\ Len(e.revisions) = p - 1 /\ Len(e.journal) = n
               /\ e.nextRevision = d.nextRevision
  <1> DEFINE id == d.revisions[p].id
             n == d.revisions[p].index
             e == RevertTo(d, id)
             h == History(d)[n]
  <1>1. d \in States
    BY DEF Kept
  <1>2. /\ d.journal \in Seq(Entries) /\ Len(d.journal) \in Nat
        /\ d.revisions \in Seq(Revision) /\ Len(d.revisions) \in Nat
        /\ p \in Nat /\ n \in Nat /\ id \in Nat /\ n \in 0 .. Len(d.journal)
        /\ \A q \in 1 .. Len(d.revisions) : d.revisions[q].id \in Nat /\ d.revisions[q].index \in Nat
    BY <1>1, Lengths DEF Kept
  <1>3. \A q \in 1 .. Len(d.revisions) : d.revisions[q].id = id => q = p
    <2> TAKE q \in 1 .. Len(d.revisions)
    <2>1. p < q => id < d.revisions[q].id
      BY DEF Kept
    <2>2. q < p => d.revisions[q].id < id
      BY DEF Kept
    <2> QED BY <1>2, <2>1, <2>2
  <1>4. e = [Undone(d, n) EXCEPT !.revisions = SubSeq(@, 1, p - 1)]
    <2> DEFINE at == {i \in DOMAIN d.revisions : d.revisions[i].id = id}
               back(i) == [Undone(d, d.revisions[i].index) EXCEPT !.revisions = SubSeq(@, 1, i - 1)]
    <2>1. at = {p}
      BY <1>2, <1>3
    <2>2. e = CHOOSE reverted \in {back(i) : i \in at} : TRUE
      BY <2>1 DEF RevertTo
    <2> HIDE DEF at, back
    <2>3. {back(i) : i \in at} = {back(p)}
      BY <2>1
    <2>4. e = back(p)
      BY <2>2, <2>3
    <2> QED BY <2>4 DEF back
  <1>5. Undone(d, n) = [h EXCEPT !.journal = SubSeq(@, 1, n)]
    BY <1>2, UndoneIs
  <1>6. h \in States /\ IsRecord(h) /\ Fine(h) /\ RefundCovers(h)
    BY <1>2, StateIsRecord DEF Kept
  <1> HIDE DEF e, h
  <1>7. /\ e.revisions = SubSeq(h.revisions, 1, p - 1) /\ e.journal = SubSeq(h.journal, 1, n)
        /\ e.obj = h.obj /\ e.dirties = h.dirties /\ e.refund = h.refund /\ e.logs = h.logs
        /\ e.cache = h.cache /\ e.warm = h.warm /\ e.slots = h.slots /\ e.panic = h.panic
        /\ e.nextRevision = h.nextRevision /\ e.calls = h.calls /\ IsRecord(e)
    BY <1>4, <1>5, <1>6 DEF IsRecord, Fields
  <1>8. h.journal = d.journal /\ h.revisions = d.revisions /\ h.nextRevision = d.nextRevision
    BY <1>2, HistoryRest DEF h, Rest

  <1>9. e.journal = SubSeq(d.journal, 1, n) /\ e.revisions = SubSeq(d.revisions, 1, p - 1)
        /\ e.nextRevision = d.nextRevision
    BY <1>7, <1>8
  <1>10. /\ e.journal \in Seq(Entries) /\ Len(e.journal) = n
         /\ \A i \in 1 .. n : e.journal[i] = d.journal[i]
         /\ e.revisions \in Seq(Revision) /\ Len(e.revisions) = p - 1
         /\ \A q \in 1 .. p - 1 : e.revisions[q] = d.revisions[q]
    <2>1. p - 1 \in 0 .. Len(d.revisions)
      BY <1>2
    <2> HIDE DEF n, id
    <2> QED BY <1>2, <1>9, <2>1
  <1> HIDE DEF n, id
  <1>11. e \in States
    BY <1>6, <1>7, <1>10 DEF States, IsRecord, Fields
  <1>12. Same(h, e)
    BY <1>7 DEF Same, SameObject
  <1>13. History(e)[n] = e
    BY <1>10, <1>11, Lengths
  <1>14. \A i \in 0 .. n :
              /\ Same(History(d)[i], History(e)[i])
              /\ History(e)[i] \in States /\ Fine(History(e)[i])
              /\ i > 0 => Applies(History(e)[i], e.journal[i])
    <2>1. n \in 0 .. Len(d.journal) /\ n <= Len(e.journal)
      BY <1>2, <1>10
    <2>2. History(e)[n] \in States /\ Same(History(d)[n], History(e)[n])
      BY <1>11, <1>12, <1>13 DEF h
    <2>3. \A i \in 1 .. n : e.journal[i] = d.journal[i]
      BY <1>10
    <2> QED BY <1>11, <2>1, <2>2, <2>3, HistorySame
  <1>15. RefundCovers(e)
    BY <1>6, <1>12, EmptiedSame
  <1>16. RevisionsOK(e, n)
    <2>1. \A i \in 0 .. n : RefundCovers(History(d)[i]) => RefundCovers(History(e)[i])
      BY <1>14, EmptiedSame
    <2>2. \A q \in 1 .. p - 1 :
             /\ q \in 1 .. Len(d.revisions) /\ q < p
             /\ d.revisions[q].index \in 0 .. n
             /\ d.revisions[q].id < d.nextRevision
             /\ RefundCovers(History(d)[d.revisions[q].index])
             /\ \A r \in 1 .. Len(d.revisions) : q < r =>
                   /\ d.revisions[q].id < d.revisions[r].id
                   /\ d.revisions[q].index <= d.revisions[r].index
      BY <1>2 DEF Kept, n
    <2>3. \A q \in 1 .. p - 1 : d.revisions[q].index <= n
      BY <2>2
    <2> QED BY <1>9, <1>10, <2>1, <2>2, <2>3 DEF RevisionsOK
  <1>17. Kept(e)
    BY <1>10, <1>11, <1>14, <1>16 DEF Kept, RevisionsOK
  <1>18. SameBefore(d, e, n, p - 1)
    <2>1. n \in 0 .. Len(d.journal) /\ n <= Len(e.journal)
          /\ p - 1 \in 0 .. Len(d.revisions) /\ p - 1 <= Len(e.revisions)
      BY <1>2, <1>10
    <2> QED BY <1>10, <1>14, <2>1 DEF SameBefore
  <1> QED BY <1>9, <1>10, <1>12, <1>15, <1>17, <1>18 DEF e, h, n, id

-----------------------------------------------------------------------------
(* The operations.                                                         *)

\* The store that the transaction runs on; an account that is not there has no
\* storage, as DeleteAccount leaves none.
StoreOK ==
    /\ store \in Store
    /\ \A a \in Addrs : store.acct[a] = NoAccount => \A k \in Keys : store.slot[a][k] = 0

LEMMA ObjectSeen ==
    ASSUME StoreOK, NEW d \in States, NEW a \in Addrs
    PROVE  /\ Obj(d, a) = Seen(d.obj[a], a)
           /\ d.obj[a] \in Object \cup {NoObj} /\ Obj(d, a) \in Object \cup {NoObj}
           /\ Obj(d, a) # NoObj => Obj(d, a) \in Object
           /\ d.obj[a] # NoObj => Obj(d, a) = d.obj[a]
           /\ Seen(Obj(d, a), a) = Obj(d, a)
  <1>1. d.obj[a] \in Object \cup {NoObj}
    BY DEF States, Objs
  <1>2. store.acct[a] \in Account \cup {NoAccount} /\ store.bal[a] \in Int
    BY DEF StoreOK, Store
  <1>3. EmptyObject \in Object
    BY DEF EmptyObject, Object
  <1>4. store.acct[a] # NoAccount => Stored(a) \in Object
    BY <1>2, <1>3 DEF Stored, Object, Account
  <1> QED BY <1>1, <1>4, StateDBAssumption DEF Obj, Seen, Stored

\* Journaling an entry.
LEMMA JournalFields ==
    ASSUME NEW d, IsRecord(d), NEW x
    PROVE  LET f == Journal(d, x)
           IN  /\ f.journal = Append(d.journal, x)
               /\ f.dirties = [d.dirties EXCEPT ![x.addr] = IF x.op \in Dirtying THEN @ + 1 ELSE @]
               /\ f.obj = d.obj /\ f.refund = d.refund /\ f.logs = d.logs /\ f.cache = d.cache
               /\ f.warm = d.warm /\ f.slots = d.slots /\ f.panic = d.panic /\ f.calls = d.calls
               /\ f.revisions = d.revisions /\ f.nextRevision = d.nextRevision
               /\ IsRecord(f)
  BY DEF Journal, IsRecord, Fields

LEMMA KeptIsFine ==
    ASSUME NEW d, Kept(d)
    PROVE  d \in States /\ IsRecord(d) /\ Fine(d)
  <1>1. d \in States
    BY DEF Kept
  <1>2. Len(d.journal) \in 0 .. Len(d.journal) /\ History(d)[Len(d.journal)] = d
    BY <1>1, Lengths
  <1>3. Fine(d)
    BY <1>2 DEF Kept
  <1> QED BY <1>1, <1>3, StateIsRecord

\* The operation changes one object, as its entry says.
ObjectOps == {"create", "reset"} \cup NeedsObject
Touched(d, x, q) == [Journal(d, x) EXCEPT !.obj = [d.obj EXCEPT ![x.addr] = q]]

LEMMA ObjectStep ==
    ASSUME NEW d, Kept(d), NEW x \in Entries, x.op \in ObjectOps, NEW q \in Object,
           SameObject(d.obj[x.addr], ObjUndone(q, x), x.addr)
    PROVE  LET e == Touched(d, x, q)
           IN  /\ Stepped(d, e)
               /\ e.obj = [d.obj EXCEPT ![x.addr] = q] /\ e.refund = d.refund
               /\ e.cache = d.cache
  <1> DEFINE a == x.addr
             j == Journal(d, x)
             e == Touched(d, x, q)
  <1>e. e = [j EXCEPT !.obj = [d.obj EXCEPT ![a] = q]]
    BY DEF Touched
  <1>1. d \in States /\ IsRecord(d) /\ Fine(d) /\ a \in Addrs /\ q # NoObj
    BY KeptIsFine, StateDBAssumption DEF Entries
  <1>2. /\ j.journal = Append(d.journal, x)
        /\ j.dirties = [d.dirties EXCEPT ![x.addr] = IF x.op \in Dirtying THEN @ + 1 ELSE @]
        /\ j.obj = d.obj /\ j.refund = d.refund /\ j.logs = d.logs /\ j.cache = d.cache
        /\ j.warm = d.warm /\ j.slots = d.slots /\ j.panic = d.panic /\ j.calls = d.calls
        /\ j.revisions = d.revisions /\ j.nextRevision = d.nextRevision
        /\ IsRecord(j)
    BY <1>1, JournalFields
  <1> HIDE DEF j, e
  <1>3. /\ e.obj = [d.obj EXCEPT ![a] = q]
        /\ e.journal = j.journal /\ e.dirties = j.dirties
        /\ e.refund = j.refund /\ e.logs = j.logs /\ e.cache = j.cache
        /\ e.warm = j.warm /\ e.slots = j.slots /\ e.panic = j.panic /\ e.calls = j.calls
        /\ e.revisions = j.revisions /\ e.nextRevision = j.nextRevision
        /\ IsRecord(e)
    BY <1>2, <1>e DEF IsRecord, Fields
  <1>4. /\ d.obj \in Objs /\ d.journal \in Seq(Entries) /\ d.dirties \in [Addrs -> Int]
        /\ d.warm \in [Addrs -> Int]
    BY <1>1 DEF States
  <1>5. e.obj \in Objs /\ e.obj[a] = q /\ \A b \in Addrs : b # a => e.obj[b] = d.obj[b]
    BY <1>1, <1>3, <1>4 DEF Objs
  <1>6. e.dirties \in [Addrs -> Int] /\ e.journal \in Seq(Entries)
    <2>1. d.dirties[a] \in Int /\ d.dirties[a] + 1 \in Int
      BY <1>1, <1>4
    <2>2. e.journal \in Seq(Entries)
      <3>1. e.journal = Append(d.journal, x)
        BY <1>2, <1>3
      <3> QED BY <1>4, <3>1
    <2>3. CASE x.op \in Dirtying
      <3>1. e.dirties = [d.dirties EXCEPT ![a] = d.dirties[a] + 1]
        BY <1>2, <1>3, <2>3
      <3>2. e.dirties \in [Addrs -> Int]
        BY <1>4, <2>1, <3>1
      <3> QED BY <2>2, <3>2
    <2>4. CASE x.op \notin Dirtying
      <3>1. e.dirties = [d.dirties EXCEPT ![a] = d.dirties[a]]
        BY <1>2, <1>3, <2>4
      <3>2. e.dirties \in [Addrs -> Int]
        BY <1>4, <2>1, <3>1
      <3> QED BY <2>2, <3>2
    <2> QED BY <2>3, <2>4
  <1>7. e \in States
    BY <1>1, <1>2, <1>3, <1>5, <1>6 DEF States, IsRecord, Fields
  <1>8. Fine(e)
    <2>1. ASSUME NEW b \in Addrs
          PROVE  e.dirties[b] >= 0 /\ (e.dirties[b] > 0 => e.obj[b] # NoObj)
      <3>1. d.dirties[b] >= 0 /\ (d.dirties[b] > 0 => d.obj[b] # NoObj) /\ d.dirties[b] \in Int
        BY <1>1, <1>4 DEF Fine
      <3>2. CASE b = a
        <4>1. e.dirties[b] = IF x.op \in Dirtying THEN d.dirties[b] + 1 ELSE d.dirties[b]
          BY <1>2, <1>3, <1>4, <3>2
        <4> QED BY <1>1, <1>5, <3>1, <3>2, <4>1
      <3>3. CASE b # a
        BY <1>2, <1>3, <1>4, <1>5, <3>1, <3>3
      <3> QED BY <3>2, <3>3
    <2> QED BY <1>1, <1>2, <1>3, <2>1 DEF Fine
  <1>9. Applies(e, x)
    BY <1>1, <1>5 DEF Applies, ObjectOps, NeedsObject
  <1>10. Same(d, UndoEntry(e, x))
    <2> DEFINE u == UndoEntry(e, x)
               g == Undo(e, x)
    <2>1. UndoLike(e, x, g) /\ RoundLike(e, x, g, u)
      BY <1>3, RoundFields
    <2> HIDE DEF u, g
    <2>2. /\ x.op \notin {"refund", "log", "warmAddress", "warmSlot", "precompile"}
      BY DEF ObjectOps, NeedsObject
    <2>3. /\ u.refund = e.refund /\ u.logs = e.logs
          /\ u.warm = e.warm /\ u.slots = e.slots /\ u.panic = e.panic
      BY <2>1, <2>2 DEF UndoLike, RoundLike
    <2>4. u.dirties = d.dirties
      <3>1. u.dirties = [e.dirties EXCEPT ![a] = IF x.op \in Dirtying THEN @ - 1 ELSE @]
        BY <2>1 DEF RoundLike
      <3>2. d.dirties[a] \in Int
        BY <1>1, <1>4
      <3>3. CASE x.op \in Dirtying
        <4>1. /\ u.dirties = [e.dirties EXCEPT ![a] = @ - 1]
              /\ e.dirties = [d.dirties EXCEPT ![a] = @ + 1]
          BY <1>2, <1>3, <3>1, <3>3
        <4>2. e.dirties = [b \in Addrs |-> IF b = a THEN d.dirties[a] + 1 ELSE d.dirties[b]]
          BY <1>4, <4>1
        <4>3. u.dirties = [b \in Addrs |-> IF b = a THEN e.dirties[a] - 1 ELSE e.dirties[b]]
          BY <4>1, <4>2
        <4>4. u.dirties = [b \in Addrs |-> d.dirties[b]]
          BY <3>2, <4>2, <4>3, <1>1
        <4> QED BY <1>4, <4>4
      <3>4. CASE x.op \notin Dirtying
        <4>1. /\ u.dirties = [e.dirties EXCEPT ![a] = @]
              /\ e.dirties = [d.dirties EXCEPT ![a] = @]
          BY <1>2, <1>3, <3>1, <3>4
        <4> QED BY <1>4, <4>1
      <3> QED BY <3>3, <3>4
    <2>5. u.obj[a] = ObjUndone(q, x) /\ \A b \in Addrs : b # a => u.obj[b] = d.obj[b]
      BY <1>1, <1>5, <2>1 DEF UndoLike, RoundLike, Objs
    <2>6. \A b \in Addrs : SameObject(d.obj[b], u.obj[b], b)
      BY <2>5 DEF SameObject
    <2> QED BY <1>2, <1>3, <2>3, <2>4, <2>6 DEF Same, u
  <1>11. Stepped(d, e)
    BY <1>2, <1>3, <1>7, <1>8, <1>9, <1>10 DEF Stepped
  <1> QED BY <1>2, <1>3, <1>11 DEF e

\* An operation that leaves the objects alone, as its entry says.
LEMMA OtherStep ==
    ASSUME NEW d, Kept(d), NEW x \in Entries, x.op \in {"refund", "log", "warmAddress", "warmSlot", "precompile"},
           NEW e \in States,
           e.journal = Append(d.journal, x), e.obj = d.obj, e.dirties = d.dirties,
           e.revisions = d.revisions, e.nextRevision = d.nextRevision, e.panic = d.panic,
           x.op # "refund" => e.refund = d.refund,
           x.op = "refund" => x.prev = d.refund,
           e.logs = IF x.op = "log" THEN d.logs + 1 ELSE d.logs,
           x.op \notin {"warmAddress", "warmSlot"} => e.warm = d.warm /\ e.slots = d.slots,
           x.op = "warmAddress" => /\ d.warm[x.addr] = Absent /\ e.slots = d.slots
                                   /\ e.warm = [d.warm EXCEPT ![x.addr] = NoSlots],
           x.op = "warmSlot" => /\ \A a \in Addrs : d.warm[a] # Absent => e.warm[a] # Absent
                                /\ \A a \in Addrs : e.warm[a] \in Absent .. Len(e.slots) - 1
                                /\ \A i \in 1 .. Len(e.slots) : e.slots[i] # {}
                                /\ e.warm[x.addr] >= 0
                                /\ DeleteSlot(e, x.addr, x.prev).warm = d.warm
                                /\ DeleteSlot(e, x.addr, x.prev).slots = d.slots
                                /\ DeleteSlot(e, x.addr, x.prev).panic = d.panic
    PROVE  Stepped(d, e)
  <1> DEFINE a == x.addr
             g == Undo(e, x)
             u == UndoEntry(e, x)
  <1>1. d \in States /\ IsRecord(d) /\ Fine(d) /\ a \in Addrs /\ IsRecord(e)
    BY KeptIsFine, StateIsRecord DEF Entries
  <1>2. UndoLike(e, x, g) /\ RoundLike(e, x, g, u)
    BY <1>1, RoundFields
  <1>3. /\ d.warm \in [Addrs -> Int] /\ d.dirties \in [Addrs -> Int] /\ d.logs \in Int
        /\ d.slots \in Seq(SUBSET Keys) /\ e.slots \in Seq(SUBSET Keys)
        /\ Len(d.slots) \in Nat /\ Len(e.slots) \in Nat
    <2>1. /\ d.warm \in [Addrs -> Int] /\ d.dirties \in [Addrs -> Int] /\ d.logs \in Int
          /\ d.slots \in Seq(SUBSET Keys)
      BY <1>1 DEF States
    <2>2. e.slots \in Seq(SUBSET Keys)
      BY DEF States
    <2>3. Len(d.slots) \in Nat /\ Len(e.slots) \in Nat
      <3> DEFINE s == d.slots
                 t == e.slots
      <3>1. s \in Seq(SUBSET Keys) /\ t \in Seq(SUBSET Keys)
        BY <2>1, <2>2
      <3> HIDE DEF s, t
      <3>2. Len(s) \in Nat /\ Len(t) \in Nat
        BY <3>1
      <3> QED BY <3>2 DEF s, t
    <2> QED BY <2>1, <2>2, <2>3
  <1> HIDE DEF g, u
  <1>4. Fine(e)
    <2>1. \A b \in Addrs : e.warm[b] \in Absent .. Len(e.slots) - 1
      <3>1. \A b \in Addrs : d.warm[b] \in Absent .. Len(d.slots) - 1
        BY <1>1 DEF Fine
      <3>2. CASE x.op = "warmAddress"
        <4> TAKE b \in Addrs
        <4>1. e.warm = [d.warm EXCEPT ![a] = NoSlots] /\ e.slots = d.slots
          BY <3>2
        <4>2. e.warm[b] = d.warm[b] \/ e.warm[b] = NoSlots
          BY <1>3, <4>1
        <4>3. NoSlots \in Absent .. Len(d.slots) - 1
          BY <1>3 DEF Absent, NoSlots
        <4> QED BY <3>1, <4>1, <4>2, <4>3
      <3> QED BY <3>1, <3>2
    <2>2. \A i \in 1 .. Len(e.slots) : e.slots[i] # {}
      BY <1>1 DEF Fine
    <2> QED BY <1>1, <2>1, <2>2 DEF Fine
  <1>5. Applies(e, x)
    <2>1. x.op = "warmSlot" => e.warm[a] \in 0 .. Len(e.slots) - 1
      BY <1>1, <1>3 DEF Absent
    <2> QED BY <2>1 DEF Applies, NeedsObject
  <1>6. \A b \in Addrs : d.warm[b] # Absent => e.warm[b] # Absent
    BY <1>3 DEF Absent, NoSlots
  <1>7. Same(d, u)
    <2>1. u.obj = d.obj
      <3>1. ObjUndone(e.obj[a], x) = e.obj[a]
        BY DEF ObjUndone
      <3>2. e.obj \in Objs
        BY DEF States
      <3>3. u.obj = e.obj
        BY <1>2, <3>1, <3>2 DEF UndoLike, RoundLike, Objs
      <3> QED BY <3>3
    <2>2. u.dirties = d.dirties
      <3>1. u.dirties = [e.dirties EXCEPT ![a] = @]
        BY <1>2 DEF RoundLike, Dirtying
      <3> QED BY <1>3, <3>1
    <2>3. u.refund = d.refund /\ u.logs = d.logs
      BY <1>2, <1>3 DEF UndoLike, RoundLike
    <2>4. u.warm = d.warm /\ u.slots = d.slots /\ u.panic = d.panic
      <3>1. CASE x.op = "warmAddress"
        <4>1. u.warm = [[d.warm EXCEPT ![a] = NoSlots] EXCEPT ![a] = Absent]
          BY <1>2, <3>1 DEF UndoLike, RoundLike
        <4>2. u.warm = d.warm
          BY <1>1, <1>3, <3>1, <4>1
        <4> QED BY <1>2, <3>1, <4>2 DEF UndoLike, RoundLike
      <3>2. CASE x.op = "warmSlot"
        BY <1>2, <3>2 DEF UndoLike, RoundLike
      <3>3. CASE x.op \notin {"warmAddress", "warmSlot"}
        BY <1>2, <3>3 DEF UndoLike, RoundLike
      <3> QED BY <3>1, <3>2, <3>3
    <2> QED BY <2>1, <2>2, <2>3, <2>4 DEF Same, SameObject
  <1> QED BY <1>4, <1>5, <1>6, <1>7 DEF Stepped, u

\* The refund counter covers what it owes as long as no more slots are emptied.
LEMMA EmptiedFinite ==
    ASSUME NEW d
    PROVE  /\ IsFiniteSet(Emptied(d)) /\ Emptied(d) \subseteq Addrs \X Keys
           /\ Cardinality(Emptied(d)) \in Nat
  <1>1. IsFiniteSet(Addrs \X Keys)
    BY StateDBAssumption, FS_Product
  <1>2. Emptied(d) \subseteq Addrs \X Keys
    BY DEF Emptied, EmptiedOf
  <1>3. IsFiniteSet(Emptied(d))
    BY <1>1, <1>2, FS_Subset
  <1> QED BY <1>2, <1>3, FS_CardinalityType

LEMMA StillCovers ==
    ASSUME NEW d \in States, NEW e, RefundCovers(d), e.refund = d.refund,
           Emptied(e) \subseteq Emptied(d)
    PROVE  RefundCovers(e)
  <1>1. Cardinality(Emptied(e)) <= Cardinality(Emptied(d))
        /\ Cardinality(Emptied(e)) \in Nat /\ Cardinality(Emptied(d)) \in Nat
    BY EmptiedFinite, FS_Subset
  <1>2. d.refund \in Int
    BY DEF States
  <1> QED BY <1>1, <1>2 DEF RefundCovers, ClearingRefund

\* They are not when one object is exchanged for one that has not emptied more.
LEMMA ObjectEmpties ==
    ASSUME NEW d \in States, NEW e, NEW a \in Addrs, NEW q \in Object,
           e.obj = [d.obj EXCEPT ![a] = q],
           \A k \in Keys : store.slot[a][k] # 0 /\ q.dirty[k] = 0
                             => d.obj[a] # NoObj /\ d.obj[a].dirty[k] = 0
    PROVE  Emptied(e) \subseteq Emptied(d)
  <1>1. d.obj \in Objs
    BY DEF States
  <1>2. e.obj[a] = q /\ \A b \in Addrs : b # a => e.obj[b] = d.obj[b]
    BY <1>1 DEF Objs
  <1>3. ASSUME NEW p \in Emptied(e) PROVE p \in Emptied(d)
    <2>1. p[1] \in Addrs /\ p[2] \in Keys /\ p \in Addrs \X Keys
      BY DEF Emptied, EmptiedOf
    <2>2. CASE p[1] = a
      BY <1>2, <2>1, <2>2 DEF Emptied, EmptiedOf
    <2>3. CASE p[1] # a
      BY <1>2, <2>1, <2>3 DEF Emptied, EmptiedOf
    <2> QED BY <2>2, <2>3
  <1> QED BY <1>3

\* What an operation keeps: the invariant, what may be undone, and the cover of
\* the refund counter.
Goes(d, e) ==
    /\ Kept(e) /\ Later(d, e) /\ e.nextRevision = d.nextRevision
    /\ RefundCovers(d) => RefundCovers(e)

LEMMA LaterTransitive ==
    ASSUME NEW d, Kept(d), NEW e, Kept(e), NEW f, Kept(f), Later(d, e), Later(e, f)
    PROVE  Later(d, f)
  <1> DEFINE n == Len(d.journal)
             r == Len(d.revisions)
  <1>1. /\ n \in Nat /\ Len(e.journal) \in Nat /\ Len(f.journal) \in Nat
        /\ r \in Nat /\ Len(e.revisions) \in Nat /\ Len(f.revisions) \in Nat
        /\ d.nextRevision \in Nat /\ e.nextRevision \in Nat /\ f.nextRevision \in Nat
    BY Lengths DEF Kept
  <1>2. /\ SameBefore(d, e, n, r) /\ SameBefore(e, f, Len(e.journal), Len(e.revisions))
        /\ d.nextRevision <= e.nextRevision /\ e.nextRevision <= f.nextRevision
        /\ \A a \in Addrs : d.warm[a] # Absent => f.warm[a] # Absent
    BY DEF Later
  <1> HIDE DEF n, r
  <1>3. /\ n <= Len(e.journal) /\ r <= Len(e.revisions) /\ Len(e.journal) <= Len(f.journal)
        /\ Len(e.revisions) <= Len(f.revisions)
        /\ \A i \in 0 .. n : Same(History(d)[i], History(e)[i])
        /\ \A i \in 0 .. Len(e.journal) : Same(History(e)[i], History(f)[i])
        /\ \A p \in 1 .. r : e.revisions[p] = d.revisions[p]
        /\ \A p \in 1 .. Len(e.revisions) : f.revisions[p] = e.revisions[p]
    BY <1>2 DEF SameBefore
  <1>4. ASSUME NEW i \in 0 .. n PROVE Same(History(d)[i], History(f)[i])
    <2>1. i \in 0 .. Len(e.journal)
      BY <1>1, <1>3
    <2> QED BY <1>3, <2>1, SameTransitive
  <1>5. \A p \in 1 .. r : f.revisions[p] = d.revisions[p]
    BY <1>1, <1>3
  <1>6. SameBefore(d, f, n, r)
    BY <1>1, <1>2, <1>3, <1>4, <1>5 DEF SameBefore, n, r
  <1> QED BY <1>1, <1>2, <1>6 DEF Later, n, r

LEMMA GoesTransitive ==
    ASSUME NEW d, Kept(d), NEW e, Goes(d, e), NEW f, Goes(e, f)
    PROVE  Goes(d, f)
  BY LaterTransitive DEF Goes

\* Going nowhere.
LEMMA GoesReflexive ==
    ASSUME NEW d, Kept(d)
    PROVE  Goes(d, d)
  <1>1. Len(d.journal) \in Nat /\ Len(d.revisions) \in Nat /\ d.nextRevision \in Nat
    BY Lengths DEF Kept
  <1>2. SameBefore(d, d, Len(d.journal), Len(d.revisions))
    BY <1>1, SameReflexive DEF SameBefore
  <1> QED BY <1>1, <1>2 DEF Goes, Later

\* createObject.
LEMMA CreateObjectGoes ==
    ASSUME StoreOK, NEW d, Kept(d), NEW a \in Addrs
    PROVE  LET x == IF Exists(d, a) THEN Entry("reset", a, Obj(d, a))
                                    ELSE Entry("create", a, NoObj)
           IN  /\ x \in Entries /\ x.op \in ObjectOps /\ x.addr = a
               /\ \A q \in Object : SameObject(d.obj[a], ObjUndone(q, x), a)
               /\ CreateObject(d, a) = Touched(d, x, EmptyObject)
  <1> DEFINE x == IF Exists(d, a) THEN Entry("reset", a, Obj(d, a))
                                  ELSE Entry("create", a, NoObj)
  <1>1. d \in States /\ IsRecord(d)
    BY KeptIsFine
  <1>2. /\ Obj(d, a) = Seen(d.obj[a], a)
        /\ Obj(d, a) # NoObj => Obj(d, a) \in Object
        /\ d.obj[a] # NoObj => Obj(d, a) = d.obj[a]
        /\ Seen(Obj(d, a), a) = Obj(d, a)
    BY <1>1, ObjectSeen
  <1>3. x \in Entries /\ x.op \in ObjectOps /\ x.addr = a
    BY <1>2 DEF Exists, Entry, Entries, ObjectOps
  <1>4. ASSUME NEW q \in Object PROVE SameObject(d.obj[a], ObjUndone(q, x), a)
    <2>1. ObjUndone(q, x) = Obj(d, a)
      BY DEF ObjUndone, Exists, Entry
    <2>2. SameObject(d.obj[a], Obj(d, a), a)
      BY <1>2 DEF SameObject
    <2> QED BY <2>1, <2>2
  <1>5. CreateObject(d, a) = Touched(d, x, EmptyObject)
    <2> DEFINE j == Journal(d, x)
    <2>1. IsRecord(j) /\ j.obj = d.obj
      BY <1>1, JournalFields
    <2>2. CreateObject(d, a) = [j EXCEPT !.obj[a] = EmptyObject]
      BY DEF CreateObject
    <2> HIDE DEF j
    <2>3. [j EXCEPT !.obj[a] = EmptyObject] = [j EXCEPT !.obj = [d.obj EXCEPT ![a] = EmptyObject]]
      BY <2>1
    <2> QED BY <1>3, <2>2, <2>3 DEF j, Touched
  <1> QED BY <1>3, <1>4, <1>5

\* An object without storage has emptied nothing.
LEMMA EmptyEmpties ==
    ASSUME NEW d \in States, NEW e, NEW a \in Addrs,
           NEW q \in Object, q.dirty = [k \in Keys |-> Clean], e.obj = [d.obj EXCEPT ![a] = q]
    PROVE  Emptied(e) \subseteq Emptied(d)
  <1>1. \A k \in Keys : q.dirty[k] = Clean /\ Clean # 0
    BY StateDBAssumption
  <1>2. \A k \in Keys : store.slot[a][k] # 0 /\ q.dirty[k] = 0
                          => d.obj[a] # NoObj /\ d.obj[a].dirty[k] = 0
    BY <1>1
  <1> QED BY <1>2, ObjectEmpties

\* getOrNewStateObject.
LEMMA LoadGoes ==
    ASSUME StoreOK, NEW d, Kept(d), NEW a \in Addrs
    PROVE  LET e == Load(d, a)
           IN  /\ Goes(d, e) /\ e.obj[a] \in Object /\ e.obj[a] # NoObj
               /\ e.cache = d.cache /\ e.refund = d.refund
               /\ Emptied(e) \subseteq Emptied(d)
  <1> DEFINE e == Load(d, a)
  <1>1. d \in States /\ IsRecord(d) /\ Fine(d) /\ d.obj \in Objs
    BY KeptIsFine DEF States
  <1>2. EmptyObject \in Object /\ EmptyObject.dirty = [k \in Keys |-> Clean]
    BY DEF EmptyObject, Object
  <1>3. CASE Exists(d, a)
    <2> DEFINE q == Obj(d, a)
    <2>1. /\ q \in Object /\ q # NoObj /\ q = Seen(d.obj[a], a) /\ Seen(q, a) = q
          /\ d.obj[a] # NoObj => q = d.obj[a]
      BY <1>1, <1>3, ObjectSeen DEF Exists
    <2>2. e = [d EXCEPT !.obj = [d.obj EXCEPT ![a] = q]]
      BY <1>3 DEF Load
    <2> HIDE DEF e, q
    <2>3. /\ e.obj = [d.obj EXCEPT ![a] = q]
          /\ e.refund = d.refund /\ e.dirties = d.dirties /\ e.logs = d.logs /\ e.cache = d.cache
          /\ e.warm = d.warm /\ e.slots = d.slots /\ e.panic = d.panic /\ e.calls = d.calls
          /\ e.journal = d.journal /\ e.revisions = d.revisions /\ e.nextRevision = d.nextRevision
          /\ IsRecord(e)
      BY <1>1, <2>2 DEF IsRecord, Fields
    <2>4. e.obj \in Objs /\ e.obj[a] = q /\ \A b \in Addrs : b # a => e.obj[b] = d.obj[b]
      BY <1>1, <2>1, <2>3 DEF Objs
    <2>5. e \in States
      BY <1>1, <2>3, <2>4 DEF States, IsRecord, Fields
    <2>6. Same(d, e)
      <3>1. SameObject(d.obj[a], q, a)
        BY <2>1 DEF SameObject
      <3>2. \A b \in Addrs : SameObject(d.obj[b], e.obj[b], b)
        BY <2>4, <3>1 DEF SameObject
      <3> QED BY <2>3, <3>2 DEF Same
    <2>7. Stepped(d, e)
      BY <1>1, <2>3, <2>5, <2>6, FineSame DEF Stepped
    <2>8. Goes(d, e)
      BY <2>6, <2>7, StepKept, EmptiedSame DEF Goes
    <2>9. Emptied(e) \subseteq Emptied(d)
      BY <2>6, EmptiedSame
    <2> QED BY <2>1, <2>3, <2>4, <2>8, <2>9 DEF e
  <1>4. CASE ~Exists(d, a)
    <2> DEFINE x == Entry("create", a, NoObj)
    <2>1. /\ x \in Entries /\ x.op \in ObjectOps /\ x.addr = a
          /\ \A q \in Object : SameObject(d.obj[a], ObjUndone(q, x), a)
          /\ e = Touched(d, x, EmptyObject)
      BY <1>4, CreateObjectGoes DEF Load
    <2> HIDE DEF x, e
    <2>2. /\ Stepped(d, e) /\ e.obj = [d.obj EXCEPT ![a] = EmptyObject]
          /\ e.refund = d.refund /\ e.cache = d.cache
      <3>1. SameObject(d.obj[x.addr], ObjUndone(EmptyObject, x), x.addr)
        BY <1>2, <2>1
      <3> QED BY <1>2, <2>1, <3>1, ObjectStep
    <2>3. Emptied(e) \subseteq Emptied(d)
      BY <1>1, <1>2, <2>2, EmptyEmpties
    <2>4. e.obj[a] = EmptyObject
      BY <1>1, <2>2 DEF Objs
    <2>5. RefundCovers(d) => RefundCovers(e)
      BY <1>1, <2>2, <2>3, StillCovers
    <2> QED BY <1>2, <2>2, <2>3, <2>4, <2>5, StepKept, StateDBAssumption DEF Goes, e
  <1> QED BY <1>3, <1>4

\* CreateAccount, which keeps the balance.
LEMMA CreateAccountGoes ==
    ASSUME StoreOK, NEW d, Kept(d), NEW a \in Addrs
    PROVE  LET e == CreateAccount(d, a) IN Goes(d, e) /\ e.cache = d.cache
  <1> DEFINE x == IF Exists(d, a) THEN Entry("reset", a, Obj(d, a))
                                  ELSE Entry("create", a, NoObj)
             b == IF Exists(d, a) THEN Obj(d, a).bal ELSE 0
             q == [EmptyObject EXCEPT !.bal = b]
             e == CreateAccount(d, a)
             c == CreateObject(d, a)
  <1>1. d \in States /\ IsRecord(d) /\ d.obj \in Objs
    BY KeptIsFine DEF States
  <1>2. b \in Int
    BY <1>1, ObjectSeen DEF Exists, Object
  <1>3. q \in Object /\ q.dirty = [k \in Keys |-> Clean]
    BY <1>2 DEF EmptyObject, Object
  <1>4. /\ x \in Entries /\ x.op \in ObjectOps /\ x.addr = a
        /\ \A y \in Object : SameObject(d.obj[a], ObjUndone(y, x), a)
        /\ c = Touched(d, x, EmptyObject)
    BY CreateObjectGoes
  <1>5. e = [c EXCEPT !.obj[a].bal = b]
    BY DEF CreateAccount
  <1>6. IsRecord(Journal(d, x))
    BY <1>1, JournalFields
  <1> HIDE DEF e, c, x, b
  <1>7. e = Touched(d, x, q)
    <2> DEFINE j == Journal(d, x)
               o == [d.obj EXCEPT ![a] = EmptyObject]
    <2>1. IsRecord(j) /\ c = [j EXCEPT !.obj = o]
      BY <1>4, <1>6 DEF Touched
    <2> HIDE DEF j, o
    <2>2. e = [j EXCEPT !.obj = [o EXCEPT ![a].bal = b]]
      BY <1>5, <2>1 DEF IsRecord, Fields
    <2>3. [o EXCEPT ![a].bal = b] = [d.obj EXCEPT ![a] = q]
      BY <1>1 DEF o, Objs
    <2> QED BY <1>4, <2>2, <2>3 DEF j, Touched
  <1> HIDE DEF q
  <1>8. /\ Stepped(d, e) /\ e.obj = [d.obj EXCEPT ![a] = q]
        /\ e.refund = d.refund /\ e.cache = d.cache
    <2>1. SameObject(d.obj[x.addr], ObjUndone(q, x), x.addr)
      BY <1>3, <1>4
    <2> QED BY <1>3, <1>4, <1>7, <2>1, ObjectStep
  <1>9. RefundCovers(d) => RefundCovers(e)
    BY <1>1, <1>3, <1>8, EmptyEmpties, StillCovers
  <1> QED BY <1>8, <1>9, StepKept DEF Goes, e

\* An operation that loads an object and then changes it.
LEMMA ChangeKept ==
    ASSUME StoreOK, NEW d, Kept(d), NEW x \in Entries, x.op \in NeedsObject, NEW q \in Object,
           SameObject(Load(d, x.addr).obj[x.addr], ObjUndone(q, x), x.addr)
    PROVE  LET e == Load(d, x.addr)
               f == Touched(e, x, q)
           IN  /\ Kept(f) /\ Later(d, f) /\ f.nextRevision = d.nextRevision
               /\ f.obj = [e.obj EXCEPT ![x.addr] = q]
               /\ f.refund = e.refund /\ f.cache = d.cache
  <1> DEFINE e == Load(d, x.addr)
             f == Touched(e, x, q)
  <1>1. x.addr \in Addrs /\ x.op \in ObjectOps
    BY DEF Entries, ObjectOps
  <1>2. Goes(d, e) /\ Kept(e) /\ e.cache = d.cache
    BY <1>1, LoadGoes DEF Goes
  <1>3. SameObject(e.obj[x.addr], ObjUndone(q, x), x.addr)
    OBVIOUS
  <1> HIDE DEF e
  <1>4. /\ Stepped(e, f) /\ f.obj = [e.obj EXCEPT ![x.addr] = q]
        /\ f.refund = e.refund /\ f.cache = e.cache
    BY <1>1, <1>2, <1>3, ObjectStep
  <1> HIDE DEF f
  <1>5. Kept(f) /\ Later(e, f) /\ f.nextRevision = e.nextRevision
    BY <1>2, <1>4, StepKept
  <1>6. Later(d, f) /\ f.nextRevision = d.nextRevision
    BY <1>2, <1>5, LaterTransitive DEF Goes
  <1> QED BY <1>2, <1>4, <1>5, <1>6 DEF e, f

\* When it leaves the slots, the cover of the refund counter stays.
LEMMA ChangeGoes ==
    ASSUME StoreOK, NEW d, Kept(d), NEW x \in Entries, x.op \in NeedsObject,
           NEW q \in Object, q.dirty = Load(d, x.addr).obj[x.addr].dirty,
           ObjUndone(q, x) = Load(d, x.addr).obj[x.addr]
    PROVE  LET f == Touched(Load(d, x.addr), x, q) IN Goes(d, f) /\ f.cache = d.cache
  <1> DEFINE a == x.addr
             e == Load(d, a)
             f == Touched(e, x, q)
  <1>1. a \in Addrs
    BY DEF Entries
  <1>2. /\ Goes(d, e) /\ Kept(e) /\ e \in States
        /\ e.obj[a] \in Object /\ e.obj[a] # NoObj
    BY <1>1, LoadGoes, KeptIsFine DEF Goes
  <1>3. SameObject(e.obj[a], ObjUndone(q, x), a)
    BY DEF SameObject
  <1>4. /\ Kept(f) /\ Later(d, f) /\ f.obj = [e.obj EXCEPT ![a] = q]
        /\ f.refund = e.refund /\ f.cache = d.cache /\ f.nextRevision = d.nextRevision
    BY <1>3, ChangeKept
  <1>5. q.dirty = e.obj[a].dirty
    OBVIOUS
  <1> HIDE DEF e, f, a
  <1>6. Emptied(f) \subseteq Emptied(e)
    BY <1>1, <1>2, <1>4, <1>5, ObjectEmpties
  <1>7. RefundCovers(e) => RefundCovers(f)
    BY <1>2, <1>4, <1>6, StillCovers
  <1>8. Goes(d, f) /\ f.cache = d.cache
    BY <1>2, <1>4, <1>7 DEF Goes
  <1> QED BY <1>8 DEF a, e, f

LEMMA SetNonceGoes ==
    ASSUME StoreOK, NEW d, Kept(d), NEW a \in Addrs, NEW n \in Nat
    PROVE  Goes(d, SetNonce(d, a, n)) /\ SetNonce(d, a, n).cache = d.cache
  <1> DEFINE e == Load(d, a)
             o == e.obj[a]
             x == Entry("nonce", a, o.nonce)
             q == [o EXCEPT !.nonce = n]
             f == SetNonce(d, a, n)
  <1>1. o \in Object /\ IsRecord(Journal(e, x)) /\ Journal(e, x).obj = e.obj
    BY LoadGoes, KeptIsFine, JournalFields DEF Goes
  <1>2. x \in Entries /\ x.op \in NeedsObject /\ x.addr = a
    BY <1>1 DEF Entry, Entries, NeedsObject, Object
  <1>3. q \in Object /\ q.dirty = o.dirty /\ ObjUndone(q, x) = o
    BY <1>1 DEF Object, ObjUndone, Entry
  <1>4. f = Touched(e, x, q)
    BY <1>1, <1>2 DEF SetNonce, Touched
  <1> HIDE DEF f, x, q
  <1>5. Goes(d, f) /\ f.cache = d.cache
    BY <1>2, <1>3, <1>4, ChangeGoes
  <1> QED BY <1>5 DEF f

LEMMA SetCodeGoes ==
    ASSUME StoreOK, NEW d, Kept(d), NEW a \in Addrs
    PROVE  Goes(d, SetCode(d, a)) /\ SetCode(d, a).cache = d.cache
  <1> DEFINE e == Load(d, a)
             o == e.obj[a]
             x == Entry("code", a, o.code)
             q == [o EXCEPT !.code = TRUE]
             f == SetCode(d, a)
  <1>1. o \in Object /\ IsRecord(Journal(e, x)) /\ Journal(e, x).obj = e.obj
    BY LoadGoes, KeptIsFine, JournalFields DEF Goes
  <1>2. x \in Entries /\ x.op \in NeedsObject /\ x.addr = a
    BY <1>1 DEF Entry, Entries, NeedsObject, Object
  <1>3. q \in Object /\ q.dirty = o.dirty /\ ObjUndone(q, x) = o
    BY <1>1 DEF Object, ObjUndone, Entry
  <1>4. f = Touched(e, x, q)
    BY <1>1, <1>2 DEF SetCode, Touched
  <1> HIDE DEF f, x, q
  <1>5. Goes(d, f) /\ f.cache = d.cache
    BY <1>2, <1>3, <1>4, ChangeGoes
  <1> QED BY <1>5 DEF f

LEMMA ChangeBalanceGoes ==
    ASSUME StoreOK, NEW d, Kept(d), NEW a \in Addrs, NEW n \in Int
    PROVE  Goes(d, ChangeBalance(d, a, n)) /\ ChangeBalance(d, a, n).cache = d.cache
  <1> DEFINE e == Load(d, a)
             o == e.obj[a]
             x == Entry("balance", a, o.bal)
             m == o.bal + n
             q == [o EXCEPT !.bal = m]
             f == ChangeBalance(d, a, n)
  <1>1. o \in Object /\ IsRecord(Journal(e, x)) /\ Journal(e, x).obj = e.obj
    BY LoadGoes, KeptIsFine, JournalFields DEF Goes
  <1>2. x \in Entries /\ x.op \in NeedsObject /\ x.addr = a
    BY <1>1 DEF Entry, Entries, NeedsObject, Object
  <1>3. m \in Int
    BY <1>1 DEF Object
  <1>4. f = IF n = 0 THEN e ELSE Touched(e, x, q)
    BY <1>1, <1>2 DEF ChangeBalance, Touched
  <1> HIDE DEF m
  <1>5. q \in Object /\ q.dirty = o.dirty /\ ObjUndone(q, x) = o
    BY <1>1, <1>3 DEF Object, ObjUndone, Entry
  <1>6. CASE n = 0
    BY <1>4, <1>6, LoadGoes
  <1>7. CASE n # 0
    <2> HIDE DEF f, x, q
    <2>1. Goes(d, f) /\ f.cache = d.cache
      BY <1>2, <1>4, <1>5, <1>7, ChangeGoes
    <2> QED BY <2>1 DEF f
  <1> QED BY <1>6, <1>7

LEMMA SuicideGoes ==
    ASSUME StoreOK, NEW d, Kept(d), NEW a \in Addrs
    PROVE  Goes(d, Suicide(d, a)) /\ Suicide(d, a).cache = d.cache
  <1> DEFINE e == Load(d, a)
             o == e.obj[a]
             x == Entry("suicide", a, [suicided |-> o.suicided, bal |-> o.bal])
             q == [o EXCEPT !.suicided = TRUE, !.bal = 0]
             f == Suicide(d, a)
  <1>1. o \in Object /\ IsRecord(Journal(e, x)) /\ Journal(e, x).obj = e.obj
    BY LoadGoes, KeptIsFine, JournalFields DEF Goes
  <1>2. x \in Entries /\ x.op \in NeedsObject /\ x.addr = a
    BY <1>1 DEF Entry, Entries, NeedsObject, Object
  <1>3. q \in Object /\ q.dirty = o.dirty
    <2> DEFINE p == [o EXCEPT !.suicided = TRUE]
    <2>1. p \in Object /\ p.dirty = o.dirty
      BY <1>1 DEF Object
    <2>2. q = [p EXCEPT !.bal = 0]
      BY <1>1 DEF Object
    <2> HIDE DEF p, q
    <2> QED BY <2>1, <2>2 DEF Object
  <1>4. ObjUndone(q, x) = o
    <2>1. x.op = "suicide" /\ x.prev.suicided = o.suicided /\ x.prev.bal = o.bal
      BY DEF Entry
    <2>2. ObjUndone(q, x) = [q EXCEPT !.suicided = o.suicided, !.bal = o.bal]
      BY <2>1 DEF ObjUndone
    <2> QED BY <1>1, <2>2 DEF Object
  <1>5. f = Touched(e, x, q)
    BY <1>1, <1>2 DEF Suicide, Touched
  <1> HIDE DEF f, x, q
  <1>6. Goes(d, f) /\ f.cache = d.cache
    BY <1>2, <1>3, <1>4, <1>5, ChangeGoes
  <1> QED BY <1>6 DEF f

\* An operation that leaves the objects and the refund counter alone.
LEMMA OthersGo ==
    ASSUME NEW d, Kept(d), NEW e, Stepped(d, e), e.obj = d.obj, e.refund = d.refund
    PROVE  Goes(d, e)
  <1>1. Kept(e) /\ Later(d, e) /\ e.nextRevision = d.nextRevision /\ d \in States
    BY StepKept, KeptIsFine
  <1>2. Emptied(e) \subseteq Emptied(d)
    BY DEF Emptied, EmptiedOf
  <1> QED BY <1>1, <1>2, StillCovers DEF Goes

LEMMA AddLogGoes ==
    ASSUME NEW d, Kept(d)
    PROVE  Goes(d, AddLog(d)) /\ AddLog(d).cache = d.cache /\ AddLog(d).obj = d.obj
  <1> DEFINE x == Entry("log", Origin, 0)
             j == Journal(d, x)
             e == AddLog(d)
  <1>1. d \in States /\ IsRecord(d)
    BY KeptIsFine
  <1>2. /\ x \in Entries /\ x.op = "log"
    BY StateDBAssumption DEF Entry, Entries
  <1>3. /\ j.journal = Append(d.journal, x)
        /\ j.dirties = [d.dirties EXCEPT ![x.addr] = IF x.op \in Dirtying THEN @ + 1 ELSE @]
        /\ j.obj = d.obj /\ j.refund = d.refund /\ j.logs = d.logs /\ j.cache = d.cache
        /\ j.warm = d.warm /\ j.slots = d.slots /\ j.panic = d.panic /\ j.calls = d.calls
        /\ j.revisions = d.revisions /\ j.nextRevision = d.nextRevision
        /\ IsRecord(j)
    BY <1>1, JournalFields
  <1>4. e = [j EXCEPT !.logs = @ + 1]
    BY DEF AddLog
  <1> HIDE DEF e, j, x
  <1>5. /\ e.journal = Append(d.journal, x) /\ e.logs = d.logs + 1
        /\ e.dirties = [d.dirties EXCEPT ![x.addr] = IF x.op \in Dirtying THEN @ + 1 ELSE @]
        /\ e.obj = d.obj /\ e.refund = d.refund /\ e.cache = d.cache
        /\ e.warm = d.warm /\ e.slots = d.slots /\ e.panic = d.panic /\ e.calls = d.calls
        /\ e.revisions = d.revisions /\ e.nextRevision = d.nextRevision
        /\ IsRecord(e)
    BY <1>3, <1>4 DEF IsRecord, Fields
  <1>6. e.dirties = d.dirties
    <2>1. e.dirties = [d.dirties EXCEPT ![x.addr] = @]
      BY <1>2, <1>5 DEF Dirtying
    <2> QED BY <1>1, <2>1 DEF States
  <1>7. e \in States
    <2>1. /\ d.journal \in Seq(Entries) /\ d.logs \in Int
      BY <1>1 DEF States
    <2>2. e.journal \in Seq(Entries) /\ e.logs \in Int
      BY <1>2, <1>5, <2>1
    <2> QED BY <1>1, <1>5, <1>6, <2>2 DEF States, IsRecord, Fields
  <1>8. Stepped(d, e)
    BY <1>2, <1>5, <1>6, <1>7, OtherStep
  <1> QED BY <1>5, <1>8, OthersGo DEF e

\* A journaled entry that makes nothing dirty.
LEMMA PlainJournal ==
    ASSUME NEW d \in States, NEW x \in Entries, x.op \notin Dirtying
    PROVE  LET j == Journal(d, x)
           IN  /\ j \in States /\ IsRecord(j) /\ j.journal = Append(d.journal, x)
               /\ j.dirties = d.dirties
               /\ j.obj = d.obj /\ j.refund = d.refund /\ j.logs = d.logs /\ j.cache = d.cache
               /\ j.warm = d.warm /\ j.slots = d.slots /\ j.panic = d.panic /\ j.calls = d.calls
               /\ j.revisions = d.revisions /\ j.nextRevision = d.nextRevision
  <1> DEFINE j == Journal(d, x)
  <1>1. IsRecord(d) /\ d.journal \in Seq(Entries)
    BY StateIsRecord DEF States
  <1>2. /\ j.journal = Append(d.journal, x)
        /\ j.dirties = [d.dirties EXCEPT ![x.addr] = IF x.op \in Dirtying THEN @ + 1 ELSE @]
        /\ j.obj = d.obj /\ j.refund = d.refund /\ j.logs = d.logs /\ j.cache = d.cache
        /\ j.warm = d.warm /\ j.slots = d.slots /\ j.panic = d.panic /\ j.calls = d.calls
        /\ j.revisions = d.revisions /\ j.nextRevision = d.nextRevision
        /\ IsRecord(j)
    BY <1>1, JournalFields
  <1> HIDE DEF j
  <1>3. j.dirties = d.dirties
    <2>1. j.dirties = [d.dirties EXCEPT ![x.addr] = @]
      BY <1>2
    <2> QED BY <2>1 DEF States
  <1>4. j.journal \in Seq(Entries)
    BY <1>1, <1>2
  <1>5. j \in States
    BY <1>2, <1>3, <1>4 DEF States, IsRecord, Fields
  <1> QED BY <1>2, <1>3, <1>5 DEF j

LEMMA WarmGoes ==
    ASSUME NEW d, Kept(d), NEW a \in Addrs
    PROVE  LET e == AddAddressToAccessList(d, a)
           IN  Goes(d, e) /\ e.cache = d.cache /\ e.warm[a] # Absent
  <1> DEFINE x == Entry("warmAddress", a, 0)
             j == Journal(d, x)
             e == AddAddressToAccessList(d, a)
  <1>1. d \in States /\ d.warm \in [Addrs -> Int]
    BY KeptIsFine DEF States
  <1>2. CASE d.warm[a] # Absent
    BY <1>2, GoesReflexive DEF AddAddressToAccessList
  <1>3. CASE d.warm[a] = Absent
    <2>1. x \in Entries /\ x.op = "warmAddress" /\ x.addr = a /\ x.op \notin Dirtying
      BY DEF Entry, Entries, Dirtying
    <2>2. /\ j \in States /\ IsRecord(j) /\ j.journal = Append(d.journal, x)
          /\ j.dirties = d.dirties
          /\ j.obj = d.obj /\ j.refund = d.refund /\ j.logs = d.logs /\ j.cache = d.cache
          /\ j.warm = d.warm /\ j.slots = d.slots /\ j.panic = d.panic
          /\ j.revisions = d.revisions /\ j.nextRevision = d.nextRevision
      BY <1>1, <2>1, PlainJournal
    <2>3. e = [j EXCEPT !.warm[a] = NoSlots]
      BY <1>3 DEF AddAddressToAccessList
    <2> HIDE DEF e, j, x
    <2>4. /\ e.journal = Append(d.journal, x) /\ e.dirties = d.dirties
          /\ e.warm = [d.warm EXCEPT ![a] = NoSlots]
          /\ e.obj = d.obj /\ e.refund = d.refund /\ e.logs = d.logs /\ e.cache = d.cache
          /\ e.slots = d.slots /\ e.panic = d.panic
          /\ e.revisions = d.revisions /\ e.nextRevision = d.nextRevision
      BY <2>2, <2>3 DEF IsRecord, Fields
    <2>5. e.warm \in [Addrs -> Int] /\ e.warm[a] # Absent
      BY <1>1, <2>4 DEF NoSlots, Absent
    <2>6. e \in States
      BY <2>2, <2>3, <2>4, <2>5 DEF States, IsRecord, Fields
    <2>7. Stepped(d, e)
      BY <1>3, <2>1, <2>4, <2>6, OtherStep
    <2> QED BY <2>4, <2>5, <2>7, OthersGo DEF e
  <1> QED BY <1>2, <1>3

\* AddRefund and SubRefund, of what the counter has.
LEMMA RefundKept ==
    ASSUME NEW d, Kept(d), NEW n \in Int, d.refund + n >= 0
    PROVE  LET e == ChangeRefund(d, n)
           IN  /\ Kept(e) /\ Later(d, e) /\ e.nextRevision = d.nextRevision
               /\ e.refund = d.refund + n /\ e.obj = d.obj /\ e.cache = d.cache
  <1> DEFINE x == Entry("refund", Origin, d.refund)
             j == Journal(d, x)
             e == ChangeRefund(d, n)
  <1>1. d \in States /\ d.refund \in Int /\ d.panic \in BOOLEAN
    BY KeptIsFine DEF States
  <1>2. x \in Entries /\ x.op = "refund" /\ x.prev = d.refund /\ x.op \notin Dirtying
    BY <1>1, StateDBAssumption DEF Entry, Entries, Dirtying
  <1>3. /\ j \in States /\ IsRecord(j) /\ j.journal = Append(d.journal, x)
        /\ j.dirties = d.dirties
        /\ j.obj = d.obj /\ j.refund = d.refund /\ j.logs = d.logs /\ j.cache = d.cache
        /\ j.warm = d.warm /\ j.slots = d.slots /\ j.panic = d.panic
        /\ j.revisions = d.revisions /\ j.nextRevision = d.nextRevision
    BY <1>1, <1>2, PlainJournal
  <1>4. e = [j EXCEPT !.refund = @ + n, !.panic = @ \/ d.refund + n < 0]
    BY DEF ChangeRefund
  <1> HIDE DEF e, j, x
  <1>5. ~(d.refund + n < 0) /\ d.refund + n \in Int
    BY <1>1
  <1>6. /\ e.journal = Append(d.journal, x) /\ e.dirties = d.dirties
        /\ e.refund = d.refund + n
        /\ e.obj = d.obj /\ e.logs = d.logs /\ e.cache = d.cache
        /\ e.warm = d.warm /\ e.slots = d.slots
        /\ e.revisions = d.revisions /\ e.nextRevision = d.nextRevision
        /\ e.panic = (d.panic \/ d.refund + n < 0)
    BY <1>3, <1>4 DEF IsRecord, Fields
  <1>7. e.panic = d.panic
    BY <1>1, <1>5, <1>6
  <1>8. e \in States
    <2>1. e = [j EXCEPT !.refund = e.refund, !.panic = e.panic]
      BY <1>3, <1>4, <1>6
    <2> QED BY <1>1, <1>3, <1>5, <1>6, <1>7, <2>1 DEF States, IsRecord, Fields
  <1>9. Stepped(d, e)
    BY <1>2, <1>6, <1>7, <1>8, OtherStep
  <1> QED BY <1>6, <1>9, StepKept DEF e

\* AddSlotToAccessList of an address that is in the list.
LEMMA WarmSlotGoes ==
    ASSUME NEW d, Kept(d), NEW a \in Addrs, d.warm[a] # Absent, NEW k \in Keys
    PROVE  LET e == AddSlotToAccessList(d, a, k)
           IN  Goes(d, e) /\ e.cache = d.cache /\ e.obj = d.obj /\ e.refund = d.refund
  <1> DEFINE x == Entry("warmSlot", a, k)
             j == Journal(d, x)
             e == AddSlotToAccessList(d, a, k)
             w == d.warm[a]
             l == Len(d.slots)
             u == DeleteSlot(e, a, k)
  <1>1. /\ d \in States /\ d.warm \in [Addrs -> Int] /\ d.slots \in Seq(SUBSET Keys)
        /\ l \in Nat /\ d.panic \in BOOLEAN
        /\ \A b \in Addrs : d.warm[b] \in Absent .. l - 1
        /\ \A i \in 1 .. l : d.slots[i] # {}
    <2>1. d \in States /\ Fine(d)
      BY KeptIsFine
    <2>2. d.warm \in [Addrs -> Int] /\ d.slots \in Seq(SUBSET Keys) /\ d.panic \in BOOLEAN
      BY <2>1 DEF States
    <2> QED BY <2>1, <2>2 DEF Fine
  <1>2. w \in NoSlots .. l - 1
    BY <1>1 DEF Absent, NoSlots
  <1>3. /\ x \in Entries /\ x.op = "warmSlot" /\ x.addr = a /\ x.prev = k /\ x.op \notin Dirtying
    BY DEF Entry, Entries, Dirtying
  <1>4. /\ j \in States /\ IsRecord(j) /\ j.journal = Append(d.journal, x)
        /\ j.dirties = d.dirties
        /\ j.obj = d.obj /\ j.refund = d.refund /\ j.logs = d.logs /\ j.cache = d.cache
        /\ j.warm = d.warm /\ j.slots = d.slots /\ j.panic = d.panic
        /\ j.revisions = d.revisions /\ j.nextRevision = d.nextRevision
    BY <1>1, <1>3, PlainJournal
  <1>5. CASE SlotIsWarm(d, a, k)
    BY <1>5, GoesReflexive DEF AddSlotToAccessList
  <1>6. CASE ~SlotIsWarm(d, a, k) /\ w >= 0
    <2> DEFINE s == d.slots[w + 1] \cup {k}
    <2>1. w + 1 \in 1 .. l /\ k \notin d.slots[w + 1] /\ w # Absent
      BY <1>1, <1>2, <1>6 DEF SlotIsWarm, Absent, NoSlots
    <2>2. e = [j EXCEPT !.slots[w + 1] = @ \cup {k}]
      BY <1>6 DEF AddSlotToAccessList
    <2>3. e = [j EXCEPT !.slots = [d.slots EXCEPT ![w + 1] = s]]
      BY <1>4, <2>2
    <2> HIDE DEF e, j, x, s
    <2>4. /\ e.journal = Append(d.journal, x) /\ e.dirties = d.dirties
          /\ e.slots = [d.slots EXCEPT ![w + 1] = s]
          /\ e.obj = d.obj /\ e.refund = d.refund /\ e.logs = d.logs /\ e.cache = d.cache
          /\ e.warm = d.warm /\ e.panic = d.panic
          /\ e.revisions = d.revisions /\ e.nextRevision = d.nextRevision
          /\ IsRecord(e)
      BY <1>4, <2>3 DEF IsRecord, Fields
    <2>5. s \in SUBSET Keys /\ s # {} /\ s \ {k} = d.slots[w + 1]
      BY <1>1, <2>1 DEF s
    <2>6. /\ e.slots \in Seq(SUBSET Keys) /\ Len(e.slots) = l
          /\ e.slots[w + 1] = s
          /\ \A i \in 1 .. l : i # w + 1 => e.slots[i] = d.slots[i]
      BY <1>1, <2>1, <2>4, <2>5
    <2>7. e \in States
      BY <1>4, <2>3, <2>4, <2>6 DEF States, IsRecord, Fields
    <2>8. u.warm = d.warm /\ u.slots = d.slots /\ u.panic = d.panic
      <3>1. e.warm[a] = w /\ ~(w < 0) /\ s \ {k} # {}
        BY <1>1, <2>1, <2>4, <2>5
      <3>2. u = [e EXCEPT !.slots[w + 1] = s \ {k}]
        BY <2>6, <3>1 DEF DeleteSlot
      <3> HIDE DEF u
      <3>3. u.warm = e.warm /\ u.panic = e.panic /\ u.slots = [e.slots EXCEPT ![w + 1] = s \ {k}]
        BY <2>4, <3>2 DEF IsRecord, Fields
      <3>4. u.slots = d.slots
        <4>1. /\ u.slots \in Seq(SUBSET Keys) /\ Len(u.slots) = l
              /\ \A i \in 1 .. l : u.slots[i] = d.slots[i]
          <5>1. d.slots[w + 1] \in SUBSET Keys
            BY <1>1, <2>1
          <5>2. u.slots = [e.slots EXCEPT ![w + 1] = d.slots[w + 1]]
            BY <2>5, <3>3
          <5> HIDE DEF w, l
          <5> QED BY <1>1, <2>1, <2>6, <5>1, <5>2
        <4> QED BY <1>1, <4>1, SeqEqual
      <3> QED BY <2>4, <3>3, <3>4
    <2>9. \A i \in 1 .. Len(e.slots) : e.slots[i] # {}
      BY <1>1, <2>5, <2>6
    <2>10. /\ e.warm[a] >= 0
           /\ \A b \in Addrs : e.warm[b] \in Absent .. Len(e.slots) - 1
           /\ \A b \in Addrs : d.warm[b] # Absent => e.warm[b] # Absent
      BY <1>1, <1>6, <2>4, <2>6
    <2>11. Stepped(d, e)
      <3> HIDE DEF w, l
      <3>1. u = DeleteSlot(e, x.addr, x.prev)
        BY <1>3 DEF u
      <3> QED BY <1>3, <2>4, <2>7, <2>8, <2>9, <2>10, <3>1, OtherStep
    <2> QED BY <2>4, <2>11, OthersGo DEF e
  <1>7. CASE ~SlotIsWarm(d, a, k) /\ ~(w >= 0)
    <2>1. w = NoSlots /\ w # Absent
      BY <1>2, <1>7 DEF NoSlots, Absent
    <2>2. e = [j EXCEPT !.warm[a] = l, !.slots = Append(@, {k}), !.panic = @ \/ w = Absent]
      BY <1>7 DEF AddSlotToAccessList
    <2> HIDE DEF e, j, x, w, l
    <2>3. /\ e.journal = Append(d.journal, x) /\ e.dirties = d.dirties
          /\ e.slots = Append(d.slots, {k}) /\ e.warm = [d.warm EXCEPT ![a] = l]
          /\ e.obj = d.obj /\ e.refund = d.refund /\ e.logs = d.logs /\ e.cache = d.cache
          /\ e.revisions = d.revisions /\ e.nextRevision = d.nextRevision
          /\ e.panic = (d.panic \/ w = Absent)
          /\ IsRecord(e)
      BY <1>4, <2>2 DEF IsRecord, Fields
    <2>4. e.panic = d.panic
      BY <1>1, <2>1, <2>3
    <2>5. /\ e.slots \in Seq(SUBSET Keys) /\ Len(e.slots) = l + 1
          /\ e.slots[l + 1] = {k} /\ \A i \in 1 .. l : e.slots[i] = d.slots[i]
      BY <1>1, <2>3 DEF l
    <2>6. e.warm \in [Addrs -> Int] /\ e.warm[a] = l /\ \A b \in Addrs : b # a => e.warm[b] = d.warm[b]
      BY <1>1, <2>3
    <2>7. e \in States
      <3>1. e.calls = j.calls
        BY <1>4, <2>2 DEF IsRecord, Fields
      <3> QED BY <1>1, <1>4, <2>3, <2>4, <2>5, <2>6, <3>1 DEF States, IsRecord, Fields
    <2>8. u.warm = d.warm /\ u.slots = d.slots /\ u.panic = d.panic
      <3>1. ~(e.warm[a] < 0) /\ e.slots[e.warm[a] + 1] \ {k} = {}
        BY <1>1, <2>5, <2>6
      <3>2. u = [e EXCEPT !.slots = SubSeq(@, 1, e.warm[a]), !.warm[a] = NoSlots]
        BY <3>1 DEF DeleteSlot
      <3> HIDE DEF u
      <3>3. /\ u.warm = [e.warm EXCEPT ![a] = NoSlots] /\ u.panic = e.panic
            /\ u.slots = SubSeq(e.slots, 1, l)
        BY <2>3, <2>6, <3>2 DEF IsRecord, Fields
      <3>4. u.slots = d.slots
        <4>1. /\ u.slots \in Seq(SUBSET Keys) /\ Len(u.slots) = l
              /\ \A i \in 1 .. l : u.slots[i] = d.slots[i]
          BY <1>1, <2>5, <3>3
        <4> QED BY <1>1, <4>1, SeqEqual DEF l
      <3>5. u.warm = d.warm
        <4>1. u.warm \in [Addrs -> Int] /\ \A b \in Addrs : u.warm[b] = d.warm[b]
          BY <1>1, <2>1, <2>6, <3>3 DEF NoSlots, w
        <4> QED BY <1>1, <4>1
      <3> QED BY <2>4, <3>3, <3>4, <3>5
    <2>9. \A i \in 1 .. Len(e.slots) : e.slots[i] # {}
      <3> TAKE i \in 1 .. Len(e.slots)
      <3>1. i \in 1 .. l \/ i = l + 1
        BY <1>1, <2>5
      <3> QED BY <1>1, <2>5, <3>1 DEF l
    <2>10. /\ e.warm[a] >= 0
           /\ \A b \in Addrs : e.warm[b] \in Absent .. Len(e.slots) - 1
           /\ \A b \in Addrs : d.warm[b] # Absent => e.warm[b] # Absent
      <3>1. l \in Nat /\ l # Absent
        BY <1>1 DEF Absent, l
      <3>2. \A b \in Addrs : d.warm[b] \in Absent .. l - 1
        BY <1>1 DEF l
      <3>3. ASSUME NEW b \in Addrs
            PROVE  /\ e.warm[b] \in Absent .. Len(e.slots) - 1
                   /\ d.warm[b] # Absent => e.warm[b] # Absent
        <4>1. CASE b = a
          BY <2>5, <2>6, <3>1, <4>1 DEF Absent
        <4>2. CASE b # a
          BY <2>5, <2>6, <3>1, <3>2, <4>2 DEF Absent
        <4> QED BY <4>1, <4>2
      <3> QED BY <2>6, <3>1, <3>3
    <2>11. Stepped(d, e)
      BY <1>3, <2>3, <2>4, <2>7, <2>8, <2>9, <2>10, OtherStep DEF u
    <2> QED BY <2>3, <2>11, OthersGo DEF e
  <1> QED BY <1>5, <1>6, <1>7

\* A new cache of the store, and the entry with the one before.
LEMMA CacheGoes ==
    ASSUME NEW d, Kept(d), NEW c \in Caches
    PROVE  LET e == [d EXCEPT !.cache = c] IN Goes(d, e) /\ e.cache = c /\ e.obj = d.obj
  <1> DEFINE e == [d EXCEPT !.cache = c]
  <1>1. d \in States /\ IsRecord(d) /\ Fine(d)
    BY KeptIsFine
  <1>2. /\ e.journal = d.journal /\ e.dirties = d.dirties /\ e.cache = c
        /\ e.obj = d.obj /\ e.refund = d.refund /\ e.logs = d.logs
        /\ e.warm = d.warm /\ e.slots = d.slots /\ e.panic = d.panic
        /\ e.revisions = d.revisions /\ e.nextRevision = d.nextRevision
    BY <1>1 DEF IsRecord, Fields
  <1>3. e \in States
    BY <1>1 DEF States, IsRecord, Fields
  <1> HIDE DEF e
  <1>4. Same(d, e)
    BY <1>2 DEF Same, SameObject
  <1>5. Stepped(d, e)
    BY <1>1, <1>2, <1>3, <1>4, FineSame DEF Stepped
  <1> QED BY <1>2, <1>5, OthersGo DEF e

LEMMA PrecompileEntryGoes ==
    ASSUME NEW d, Kept(d), NEW c \in Caches
    PROVE  LET e == [Journal(d, Entry("precompile", Precompile, c)) EXCEPT !.calls = (@ + 1) % 256]
           IN  Goes(d, e)
  <1> DEFINE x == Entry("precompile", Precompile, c)
             j == Journal(d, x)
             e == [j EXCEPT !.calls = (@ + 1) % 256]
  <1>1. d \in States /\ d.calls \in Nat
    BY KeptIsFine DEF States
  <1>2. x \in Entries /\ x.op = "precompile" /\ x.op \notin Dirtying
    BY StateDBAssumption DEF Entry, Entries, Dirtying
  <1>3. /\ j \in States /\ IsRecord(j) /\ j.journal = Append(d.journal, x)
        /\ j.dirties = d.dirties
        /\ j.obj = d.obj /\ j.refund = d.refund /\ j.logs = d.logs /\ j.cache = d.cache
        /\ j.warm = d.warm /\ j.slots = d.slots /\ j.panic = d.panic /\ j.calls = d.calls
        /\ j.revisions = d.revisions /\ j.nextRevision = d.nextRevision
    BY <1>1, <1>2, PlainJournal
  <1> HIDE DEF j, x
  <1>4. /\ e.journal = Append(d.journal, x) /\ e.dirties = d.dirties
        /\ e.obj = d.obj /\ e.refund = d.refund /\ e.logs = d.logs
        /\ e.warm = d.warm /\ e.slots = d.slots /\ e.panic = d.panic
        /\ e.revisions = d.revisions /\ e.nextRevision = d.nextRevision
    BY <1>3 DEF IsRecord, Fields
  <1>5. e \in States
    <2>1. (j.calls + 1) % 256 \in Nat
      BY <1>1, <1>3
    <2> QED BY <1>3, <2>1 DEF States, IsRecord, Fields
  <1> HIDE DEF e
  <1>6. Stepped(d, e)
    BY <1>2, <1>4, <1>5, OtherStep
  <1>7. Goes(d, e)
    BY <1>4, <1>6, OthersGo
  <1> QED BY <1>7 DEF e, j, x

\* SetState, which empties no other slot.
LEMMA SetStateKept ==
    ASSUME StoreOK, NEW d, Kept(d), NEW a \in Addrs, NEW k \in Keys, NEW v \in Values
    PROVE  LET e == SetState(d, a, k, v)
           IN  /\ Kept(e) /\ Later(d, e) /\ e.nextRevision = d.nextRevision
               /\ e.refund = d.refund /\ e.cache = d.cache
               /\ Emptied(e) \subseteq Emptied(d) \cup {<<a, k>>}
               /\ <<a, k>> \in Emptied(e) => v = 0 /\ store.slot[a][k] # 0
  <1> DEFINE e == Load(d, a)
             o == e.obj[a]
             prev == Slot(e, a, k)
             x == Entry("storage", a, [key |-> k, value |-> prev])
             dirty == [o.dirty EXCEPT ![k] = v]
             q == [o EXCEPT !.dirty = dirty]
             f == SetState(d, a, k, v)
             u == ObjUndone(q, x)
  <1>1. /\ o \in Object /\ o # NoObj /\ Goes(d, e) /\ Kept(e) /\ e \in States
        /\ e.cache = d.cache /\ e.refund = d.refund /\ Emptied(e) \subseteq Emptied(d)
        /\ IsRecord(Journal(e, x)) /\ Journal(e, x).obj = e.obj
    BY LoadGoes, KeptIsFine, JournalFields DEF Goes
  <1>2. Obj(e, a) = o
    BY <1>1 DEF Obj
  <1>3. prev = SlotSeen(o, a, k)
    BY <1>1, <1>2 DEF Slot, Exists, SlotSeen
  <1>4. /\ o.dirty \in [Keys -> Values \cup {Clean}] /\ o.dirty[k] \in Values \cup {Clean}
        /\ store.slot[a][k] \in Values /\ prev \in Values
    BY <1>1, <1>3 DEF Object, StoreOK, Store, SlotSeen
  <1>5. x \in Entries /\ x.op \in NeedsObject /\ x.addr = a /\ x.op = "storage"
        /\ x.prev.key = k /\ x.prev.value = prev
    BY <1>4 DEF Entry, Entries, NeedsObject
  <1>6. f = IF prev = v THEN e ELSE Touched(e, x, q)
    <2>1. [Journal(e, x) EXCEPT !.obj[a].dirty[k] = v] = Touched(e, x, q)
      BY <1>1, <1>5 DEF Touched
    <2> HIDE DEF q
    <2> QED BY <2>1 DEF SetState
  <1>7. dirty \in [Keys -> Values \cup {Clean}]
    BY <1>4
  <1> HIDE DEF dirty
  <1>8. q \in Object /\ q.dirty = dirty
    BY <1>1, <1>7 DEF Object
  <1> HIDE DEF prev, x, e, f
  <1>9. <<a, k>> \in Emptied(e) => prev = 0 /\ store.slot[a][k] # 0
    <2>1. <<a, k>> \in Emptied(e) => o.dirty[k] = 0 /\ store.slot[a][k] # 0
      BY DEF Emptied, EmptiedOf
    <2> QED BY <1>3, <2>1, StateDBAssumption DEF SlotSeen
  <1>10. CASE prev = v
    <2>1. f = e
      BY <1>6, <1>10
    <2> HIDE DEF o, q, u
    <2>2. Kept(e) /\ Later(d, e) /\ e.nextRevision = d.nextRevision
      BY <1>1 DEF Goes
    <2> QED BY <1>1, <1>9, <1>10, <2>1, <2>2 DEF f
  <1>11. CASE prev # v
    <2>1. f = Touched(e, x, q)
      BY <1>6, <1>11
    <2>2. u = [o EXCEPT !.dirty = [o.dirty EXCEPT ![k] = prev]]
      <3>1. u = [q EXCEPT !.dirty = [dirty EXCEPT ![k] = prev]]
        BY <1>1, <1>5, <1>8 DEF ObjUndone
      <3>2. [dirty EXCEPT ![k] = prev] = [o.dirty EXCEPT ![k] = prev]
        BY <1>4 DEF dirty
      <3> QED BY <1>1, <3>1, <3>2 DEF Object
    <2>3. SameObject(o, u, a)
      <3> DEFINE w == [o.dirty EXCEPT ![k] = prev]
      <3>1. w \in [Keys -> Values \cup {Clean}] /\ w[k] = prev /\ \A l \in Keys : l # k => w[l] = o.dirty[l]
        BY <1>4
      <3> HIDE DEF w
      <3>2. u = [o EXCEPT !.dirty = w]
        BY <2>2 DEF w
      <3> HIDE DEF u
      <3>3. /\ u \in Object /\ u.dirty = w /\ u.nonce = o.nonce /\ u.bal = o.bal
            /\ u.code = o.code /\ u.suicided = o.suicided
        BY <1>1, <3>1, <3>2 DEF Object
      <3>4. Seen(u, a) = u /\ Seen(o, a) = o /\ u # NoObj
        BY <1>1, <3>3, StateDBAssumption DEF Seen
      <3>5. ASSUME NEW l \in Keys PROVE SlotSeen(o, a, l) = SlotSeen(u, a, l)
        <4>1. CASE l = k
          BY <1>3, <1>4, <3>1, <3>3, <4>1, StateDBAssumption DEF SlotSeen
        <4>2. CASE l # k
          BY <3>1, <3>3, <4>2 DEF SlotSeen
        <4> QED BY <4>1, <4>2
      <3> HIDE DEF o
      <3> QED BY <1>1, <3>3, <3>4, <3>5 DEF SameObject
    <2>4. /\ Kept(f) /\ Later(d, f) /\ f.nextRevision = d.nextRevision
          /\ f.obj = [e.obj EXCEPT ![a] = q]
          /\ f.refund = e.refund /\ f.cache = d.cache
      <3>1. SameObject(Load(d, x.addr).obj[x.addr], ObjUndone(q, x), x.addr)
        BY <1>5, <2>3 DEF e
      <3> HIDE DEF q
      <3>2. /\ f = Touched(Load(d, x.addr), x, q) /\ e = Load(d, x.addr)
        BY <1>5, <2>1 DEF e
      <3> QED BY <1>5, <1>8, <3>1, <3>2, ChangeKept
    <2> HIDE DEF q, u
    <2>5. e.obj \in Objs
      BY <1>1 DEF States
    <2>6. f.obj[a] = q /\ \A b \in Addrs : b # a => f.obj[b] = e.obj[b]
      BY <2>4, <2>5 DEF Objs
    <2>7. ASSUME NEW p \in Emptied(f), p # <<a, k>> PROVE p \in Emptied(e)
      <3>1. p[1] \in Addrs /\ p[2] \in Keys /\ p \in Addrs \X Keys /\ p = <<p[1], p[2]>>
        BY DEF Emptied, EmptiedOf
      <3>2. CASE p[1] = a
        <4>1. p[2] # k
          BY <2>7, <3>1, <3>2
        <4>2. q.dirty[p[2]] = o.dirty[p[2]]
          BY <1>4, <1>8, <3>1, <4>1 DEF dirty
        <4> QED BY <1>1, <2>6, <3>1, <3>2, <4>2 DEF Emptied, EmptiedOf
      <3>3. CASE p[1] # a
        BY <2>6, <3>1, <3>3 DEF Emptied, EmptiedOf
      <3> QED BY <3>2, <3>3
    <2>8. <<a, k>> \in Emptied(f) => v = 0 /\ store.slot[a][k] # 0
      <3>1. q.dirty[k] = v
        BY <1>4, <1>8 DEF dirty
      <3> QED BY <2>6, <3>1 DEF Emptied, EmptiedOf
    <2> QED BY <1>1, <2>4, <2>7, <2>8 DEF f
  <1> QED BY <1>10, <1>11

\* A slot that had a value and reads as 0 has been emptied.
LEMMA ReadsEmptied ==
    ASSUME StoreOK, NEW d \in States, NEW a \in Addrs, NEW k \in Keys,
           store.slot[a][k] # 0, Slot(d, a, k) = 0
    PROVE  <<a, k>> \in Emptied(d)
  <1>1. store.acct[a] # NoAccount
    BY DEF StoreOK
  <1>2. d.obj[a] # NoObj
    <2>1. SUFFICES ASSUME d.obj[a] = NoObj PROVE FALSE
      OBVIOUS
    <2>2. Obj(d, a) = Stored(a) /\ Stored(a).dirty[k] = Clean
      BY <1>1, <2>1 DEF Obj, Stored, EmptyObject
    <2>3. Stored(a) \in Object
      <3>1. store.acct[a] \in Account /\ store.bal[a] \in Int
        BY <1>1 DEF StoreOK, Store
      <3>2. EmptyObject \in Object
        BY DEF EmptyObject, Object
      <3> QED BY <3>1, <3>2 DEF Stored, Object, Account
    <2> QED BY <2>2, <2>3, StateDBAssumption DEF Slot, Exists
  <1>3. Obj(d, a) = d.obj[a]
    BY <1>2 DEF Obj
  <1>4. d.obj[a].dirty[k] = 0
    BY <1>2, <1>3 DEF Slot, Exists
  <1> QED BY <1>2, <1>4 DEF Emptied, EmptiedOf

-----------------------------------------------------------------------------
(* Calls in a row.                                                         *)

\* g gives the state after each of the calls s.
Folds(d, s, g) == g[0] = d /\ \A i \in 1 .. Len(s) : g[i] = Called(g[i - 1], s[i])

LEMMA FoldExists ==
    ASSUME NEW d, NEW s, Len(s) \in Nat
    PROVE  \E g : Folds(d, s, g)
  <1> DEFINE l == Len(s)
             Upto(k, g) == g[0] = d /\ \A i \in 1 .. k : g[i] = Called(g[i - 1], s[i])
             I == {k \in 0 .. l : \E g : Upto(k, g)}
  <1>0. l \in Nat
    OBVIOUS
  <1> HIDE DEF l
  <1>1. 0 \in I
    <2>1. Upto(0, [i \in {0} |-> d])
      OBVIOUS
    <2> HIDE DEF Upto
    <2> QED BY <1>0, <2>1
  <1>2. ASSUME NEW k \in 1 .. l, k - 1 \in I PROVE k \in I
    <2>1. PICK g : Upto(k - 1, g)
      BY <1>2
    <2> DEFINE h == [i \in 0 .. k |-> IF i = k THEN Called(g[k - 1], s[k]) ELSE g[i]]
    <2>2. k \in 0 .. l /\ k # 0 /\ k \in Nat
      BY <1>0
    <2>3. h[0] = d
      BY <2>1, <2>2
    <2>4. ASSUME NEW i \in 1 .. k PROVE h[i] = Called(h[i - 1], s[i])
      <3>1. i - 1 \in 0 .. k /\ i - 1 # k /\ h[i - 1] = g[i - 1]
        BY <2>2
      <3>2. CASE i = k
        BY <2>2, <3>1, <3>2
      <3>3. CASE i # k
        <4>1. i \in 1 .. k - 1 /\ h[i] = g[i]
          BY <2>2, <3>3
        <4> QED BY <2>1, <3>1, <4>1
      <3> QED BY <3>2, <3>3
    <2> HIDE DEF h
    <2>5. Upto(k, h)
      BY <2>3, <2>4
    <2> QED BY <2>2, <2>5
  <1>3. \A k \in 0 .. l : k \in I
    <2> HIDE DEF I
    <2> QED BY <1>0, <1>1, <1>2, BoundedInduction
  <1>4. l \in I
    BY <1>0, <1>3
  <1> QED BY <1>4 DEF Folds, l

\* Fold computes that.
LEMMA AfterIs ==
    ASSUME NEW d, NEW s, Len(s) \in Nat, NEW g, Folds(d, s, g)
    PROVE  After(d, s) = g[Len(s)]
  <1> DEFINE l == Len(s)
             Made(f) == f = [i \in 0 .. Len(s) |->
                IF i = 0 THEN d
                ELSE CHOOSE r \in {Called(x, s[i]) : x \in {f[i - 1]}} : TRUE]
             f == CHOOSE h : Made(h)
  <1>1. \A y, z : (CHOOSE r \in {Called(x, y) : x \in {z}} : TRUE) = Called(z, y)
    OBVIOUS
  <1>2. \A h : Made(h) <=> h = [i \in 0 .. l |-> IF i = 0 THEN d ELSE Called(h[i - 1], s[i])]
    BY <1>1
  <1>3. After(d, s) = f[l]
    BY DEF After, Fold
  <1>4. \E h : Made(h)
    <2> DEFINE h == [i \in 0 .. l |-> g[i]]
    <2>1. ASSUME NEW i \in 0 .. l
          PROVE  h[i] = IF i = 0 THEN d ELSE Called(h[i - 1], s[i])
      <3>1. CASE i = 0
        BY <3>1 DEF Folds
      <3>2. CASE i # 0
        <4>1. i \in 1 .. l /\ i - 1 \in 0 .. l
          BY <3>2
        <4> QED BY <3>2, <4>1 DEF Folds
      <3> QED BY <3>1, <3>2
    <2>2. h = [i \in 0 .. l |-> h[i]]
      OBVIOUS
    <2> HIDE DEF h, l, Made
    <2>3. h = [i \in 0 .. l |-> IF i = 0 THEN d ELSE Called(h[i - 1], s[i])]
      BY <2>1, <2>2
    <2> QED BY <1>2, <2>3
  <1> HIDE DEF Made
  <1>5. Made(f)
    BY <1>4
  <1> HIDE DEF f
  <1>6. f = [i \in 0 .. l |-> IF i = 0 THEN d ELSE Called(f[i - 1], s[i])]
    BY <1>2, <1>5
  <1>7. f[0] = d /\ \A i \in 1 .. l : f[i] = Called(f[i - 1], s[i])
    <2>1. \A i \in 0 .. l : f[i] = IF i = 0 THEN d ELSE Called(f[i - 1], s[i])
      BY <1>6
    <2>2. 0 \in 0 .. l /\ \A i \in 1 .. l : i \in 0 .. l /\ i # 0
      OBVIOUS
    <2> HIDE DEF l
    <2> QED BY <2>1, <2>2
  <1> DEFINE I == {k \in 0 .. l : f[k] = g[k]}
  <1>8. 0 \in I
    BY <1>7 DEF Folds
  <1>9. ASSUME NEW k \in 1 .. l, k - 1 \in I PROVE k \in I
    <2>1. g[k] = Called(g[k - 1], s[k]) /\ k \in 0 .. l
      BY DEF Folds
    <2> QED BY <1>7, <1>9, <2>1
  <1>10. \A k \in 0 .. l : k \in I
    <2> HIDE DEF I
    <2> QED BY <1>8, <1>9, BoundedInduction
  <1> QED BY <1>3, <1>10

LEMMA AfterNone == ASSUME NEW d PROVE After(d, << >>) = d
  <1> DEFINE g == [i \in {0} |-> d]
  <1>1. Folds(d, << >>, g)
    BY DEF Folds
  <1> QED BY <1>1, AfterIs

LEMMA AfterOne == ASSUME NEW d, NEW c PROVE After(d, <<c>>) = Called(d, c)
  <1> DEFINE g == [i \in {0, 1} |-> IF i = 0 THEN d ELSE Called(d, c)]
  <1>1. Len(<<c>>) = 1 /\ <<c>>[1] = c
    OBVIOUS
  <1>2. \A i \in 1 .. 1 : i = 1
    OBVIOUS
  <1>3. g[0] = d /\ g[1] = Called(d, c)
    OBVIOUS
  <1> HIDE DEF g
  <1>4. Folds(d, <<c>>, g)
    BY <1>1, <1>2, <1>3 DEF Folds
  <1> QED BY <1>1, <1>3, <1>4, AfterIs

LEMMA AfterBoth ==
    ASSUME NEW d, NEW S, NEW s \in Seq(S), NEW t \in Seq(S)
    PROVE  After(d, s \o t) = After(After(d, s), t)
  <1> DEFINE m == Len(s)
             n == Len(t)
             b == After(d, s)
  <1>1. /\ m \in Nat /\ n \in Nat /\ Len(s \o t) = m + n
        /\ \A i \in 1 .. m : (s \o t)[i] = s[i]
        /\ \A i \in m + 1 .. m + n : (s \o t)[i] = t[i - m]
    OBVIOUS
  <1>2. PICK g : Folds(d, s, g)
    BY <1>1, FoldExists
  <1>3. PICK h : Folds(b, t, h)
    BY <1>1, FoldExists
  <1>4. b = g[m] /\ After(b, t) = h[n]
    BY <1>1, <1>2, <1>3, AfterIs
  <1> HIDE DEF b
  <1> DEFINE c == [i \in 0 .. m + n |-> IF i <= m THEN g[i] ELSE h[i - m]]
             u == s \o t
  <1>5. g[0] = d /\ h[0] = b /\ (\A i \in 1 .. m : g[i] = Called(g[i - 1], s[i]))
        /\ (\A i \in 1 .. n : h[i] = Called(h[i - 1], t[i]))
    BY <1>2, <1>3 DEF Folds
  <1> HIDE DEF u, m, n
  <1>6. ASSUME NEW i \in 1 .. m + n PROVE c[i] = Called(c[i - 1], u[i])
    <2>1. CASE i \in 1 .. m
      <3>1. c[i] = g[i] /\ c[i - 1] = g[i - 1] /\ u[i] = s[i]
        BY <1>1, <2>1 DEF u
      <3> HIDE DEF c
      <3> QED BY <1>5, <2>1, <3>1
    <2>2. CASE i \in m + 1 .. m + n
      <3>1. /\ c[i] = h[i - m] /\ u[i] = t[i - m] /\ i - m \in 1 .. n
            /\ i = m + 1 => c[i - 1] = g[m] /\ i - m - 1 = 0
            /\ i # m + 1 => c[i - 1] = h[i - m - 1]
        <4>1. /\ i \in 0 .. m + n /\ i - 1 \in 0 .. m + n /\ ~(i <= m) /\ i - m \in 1 .. n
              /\ i = m + 1 => i - 1 = m /\ i - m - 1 = 0 /\ m <= m
              /\ i # m + 1 => ~(i - 1 <= m) /\ i - 1 - m = i - m - 1
          BY <1>1, <2>2
        <4>2. u[i] = t[i - m]
          BY <1>1, <2>2 DEF u
        <4> QED BY <4>1, <4>2
      <3> HIDE DEF c
      <3>2. c[i - 1] = h[i - m - 1]
        BY <1>4, <1>5, <3>1
      <3> QED BY <1>5, <3>1, <3>2
    <2> QED BY <1>1, <2>1, <2>2
  <1>7. c[0] = d
    BY <1>1, <1>5
  <1>8. c[m + n] = h[n]
    <2>1. CASE n = 0
      <3>1. c[m + n] = g[m]
        BY <1>1, <2>1
      <3> QED BY <1>4, <1>5, <2>1, <3>1
    <2>2. CASE n # 0
      BY <1>1, <2>2
    <2> QED BY <2>1, <2>2
  <1> HIDE DEF c
  <1>9. Len(u) = m + n /\ m + n \in Nat
    BY <1>1 DEF u
  <1>10. Folds(d, u, c)
    BY <1>6, <1>7, <1>9 DEF Folds
  <1>11. After(d, u) = c[m + n]
    BY <1>9, <1>10, AfterIs
  <1> QED BY <1>4, <1>8, <1>11 DEF u, b

\* The calls that do not need more than the address of an account; SSTORE's
\* are taken one by one.
PlainCalls ==
    [name : {"CreateAccount", "SetCode", "Suicide", "AddLog", "Warm"}, addr : Addrs, arg : {0}]
    \cup [name : {"ChangeBalance"}, addr : Addrs, arg : Int]
    \cup [name : {"SetNonce"}, addr : Addrs, arg : Nat]

LEMMA CallGoes ==
    ASSUME StoreOK, NEW d, Kept(d), NEW c \in PlainCalls
    PROVE  LET e == Called(d, c)
           IN  /\ Goes(d, e) /\ e.cache = d.cache
               /\ c.name = "Warm" => e.warm[c.addr] # Absent
  <1> DEFINE e == Called(d, c)
  <1>1. c.addr \in Addrs
    BY DEF PlainCalls
  <1>2. CASE c.name = "CreateAccount"
    <2>1. e = CreateAccount(d, c.addr)
      BY <1>2 DEF Called
    <2> HIDE DEF e
    <2>2. Goes(d, e) /\ e.cache = d.cache
      BY <1>1, <2>1, CreateAccountGoes
    <2> QED BY <1>2, <2>2 DEF e
  <1>3. CASE c.name = "SetCode"
    <2>1. e = SetCode(d, c.addr)
      BY <1>3 DEF Called
    <2> HIDE DEF e
    <2>2. Goes(d, e) /\ e.cache = d.cache
      BY <1>1, <2>1, SetCodeGoes
    <2> QED BY <1>3, <2>2 DEF e
  <1>4. CASE c.name = "Suicide"
    <2>1. e = Suicide(d, c.addr)
      BY <1>4 DEF Called
    <2> HIDE DEF e
    <2>2. Goes(d, e) /\ e.cache = d.cache
      BY <1>1, <2>1, SuicideGoes
    <2> QED BY <1>4, <2>2 DEF e
  <1>5. CASE c.name = "AddLog"
    <2>1. e = AddLog(d)
      BY <1>5 DEF Called
    <2> HIDE DEF e
    <2>2. Goes(d, e) /\ e.cache = d.cache
      BY <2>1, AddLogGoes
    <2> QED BY <1>5, <2>2 DEF e
  <1>6. CASE c.name = "Warm"
    <2>1. e = AddAddressToAccessList(d, c.addr)
      BY <1>6 DEF Called
    <2> HIDE DEF e
    <2>2. Goes(d, e) /\ e.cache = d.cache /\ e.warm[c.addr] # Absent
      BY <1>1, <2>1, WarmGoes
    <2> QED BY <1>6, <2>2 DEF e
  <1>7. CASE c.name = "ChangeBalance"
    <2>1. e = ChangeBalance(d, c.addr, c.arg) /\ c.arg \in Int
      BY <1>7 DEF Called, PlainCalls
    <2> HIDE DEF e
    <2>2. Goes(d, e) /\ e.cache = d.cache
      BY <1>1, <2>1, ChangeBalanceGoes
    <2> QED BY <1>7, <2>2 DEF e
  <1>8. CASE c.name = "SetNonce"
    <2>1. e = SetNonce(d, c.addr, c.arg) /\ c.arg \in Nat
      BY <1>8 DEF Called, PlainCalls
    <2> HIDE DEF e
    <2>2. Goes(d, e) /\ e.cache = d.cache
      BY <1>1, <2>1, SetNonceGoes
    <2> QED BY <1>8, <2>2 DEF e
  <1>9. c.name \in {"CreateAccount", "SetCode", "Suicide", "AddLog", "Warm", "ChangeBalance", "SetNonce"}
    BY DEF PlainCalls
  <1> HIDE DEF e
  <1>10. Goes(d, e) /\ e.cache = d.cache /\ (c.name = "Warm" => e.warm[c.addr] # Absent)
    BY <1>2, <1>3, <1>4, <1>5, <1>6, <1>7, <1>8, <1>9 DEF e
  <1> QED BY <1>10 DEF e

LEMMA CallsGo ==
    ASSUME StoreOK, NEW d, Kept(d), NEW s \in Seq(PlainCalls)
    PROVE  LET e == After(d, s)
           IN  /\ Goes(d, e) /\ e.cache = d.cache
               /\ \A j \in 1 .. Len(s) : s[j].name = "Warm" => e.warm[s[j].addr] # Absent
  <1> DEFINE l == Len(s)
             e == After(d, s)
  <1>1. l \in Nat /\ \A j \in 1 .. l : s[j] \in PlainCalls
    OBVIOUS
  <1>2. PICK g : Folds(d, s, g)
    BY <1>1, FoldExists
  <1>3. g[0] = d /\ \A j \in 1 .. l : g[j] = Called(g[j - 1], s[j])
    BY <1>2 DEF Folds
  <1>4. e = g[l]
    BY <1>1, <1>2, AfterIs
  <1> HIDE DEF l, e
  <1> DEFINE Ok(k) == /\ Goes(d, g[k]) /\ g[k].cache = d.cache
                      /\ \A j \in 1 .. k : s[j].name = "Warm" => g[k].warm[s[j].addr] # Absent
             I == {k \in 0 .. l : Ok(k)}
  <1>5. Ok(0)
    BY <1>3, GoesReflexive
  <1>6. ASSUME NEW k \in 1 .. l, Ok(k - 1) PROVE Ok(k)
    <2> DEFINE a == g[k - 1]
               b == g[k]
               c == s[k]
    <2>1. c \in PlainCalls /\ b = Called(a, c) /\ k \in Nat
      BY <1>1, <1>3
    <2>2. Goes(d, a) /\ a.cache = d.cache /\ Kept(a)
          /\ \A j \in 1 .. k - 1 : s[j].name = "Warm" => a.warm[s[j].addr] # Absent
      BY <1>6 DEF Goes
    <2> HIDE DEF a, b
    <2>3. Goes(a, b) /\ b.cache = a.cache /\ (c.name = "Warm" => b.warm[c.addr] # Absent)
      BY <2>1, <2>2, CallGoes
    <2>4. Goes(d, b)
      BY <2>2, <2>3, GoesTransitive
    <2>5. ASSUME NEW j \in 1 .. k, s[j].name = "Warm" PROVE b.warm[s[j].addr] # Absent
      <3>1. CASE j = k
        BY <2>3, <2>5, <3>1
      <3>2. CASE j # k
        <4>1. j \in 1 .. k - 1 /\ j \in 1 .. l
          BY <1>1, <2>1, <3>2
        <4>2. s[j].addr \in Addrs
          BY <1>1, <4>1 DEF PlainCalls
        <4>3. a.warm[s[j].addr] # Absent
          BY <2>2, <2>5, <4>1
        <4> QED BY <2>3, <4>2, <4>3 DEF Goes, Later
      <3> QED BY <3>1, <3>2
    <2> QED BY <2>2, <2>3, <2>4, <2>5 DEF b
  <1> HIDE DEF Ok
  <1>7. 0 \in I /\ \A k \in 1 .. l : k - 1 \in I => k \in I
    BY <1>1, <1>5, <1>6
  <1>8. \A k \in 0 .. l : k \in I
    <2> HIDE DEF I
    <2> QED BY <1>1, <1>7, BoundedInduction
  <1>9. Ok(l)
    BY <1>1, <1>8
  <1> QED BY <1>4, <1>9 DEF Ok, e, l

\* e is in a frame that has been entered in d.
Entered(d, e) ==
    /\ Kept(e) /\ Later(d, e) /\ RefundCovers(e)
    /\ Len(d.revisions) + 1 \in 1 .. Len(e.revisions)
    /\ e.revisions[Len(d.revisions) + 1] = [id |-> d.nextRevision, index |-> Len(d.journal)]

LEMMA EnteredLater ==
    ASSUME NEW d, Kept(d), NEW e, Entered(d, e), NEW f, Goes(e, f)
    PROVE  Entered(d, f)
  <1>1. Later(d, f) /\ Kept(f) /\ RefundCovers(f)
    BY LaterTransitive DEF Entered, Goes
  <1>2. /\ Len(e.revisions) <= Len(f.revisions)
        /\ \A p \in 1 .. Len(e.revisions) : f.revisions[p] = e.revisions[p]
    BY DEF Goes, Later, SameBefore
  <1>3. Len(e.revisions) \in Nat /\ Len(f.revisions) \in Nat /\ Len(d.revisions) \in Nat
    BY Lengths DEF Kept, Entered, Goes
  <1>4. Len(d.revisions) + 1 \in 1 .. Len(f.revisions)
    BY <1>2, <1>3 DEF Entered
  <1>5. f.revisions[Len(d.revisions) + 1] = e.revisions[Len(d.revisions) + 1]
    BY <1>2 DEF Entered
  <1> QED BY <1>1, <1>4, <1>5 DEF Entered

\* A snapshot and calls.
LEMMA EnterKept ==
    ASSUME StoreOK, NEW d, Kept(d), RefundCovers(d), NEW s \in Seq(PlainCalls)
    PROVE  LET e == After(d, <<TakeSnapshot>> \o s)
           IN  Entered(d, e) /\ e.cache = d.cache
  <1> DEFINE f == Snapshot(d)
             e == After(f, s)
             S == PlainCalls \cup {TakeSnapshot}
  <1>1. After(d, <<TakeSnapshot>> \o s) = After(After(d, <<TakeSnapshot>>), s)
    <2> DEFINE t == <<TakeSnapshot>>
    <2>1. t \in Seq(S) /\ s \in Seq(S)
      <3>1. TakeSnapshot \in S /\ PlainCalls \subseteq S
        OBVIOUS
      <3> HIDE DEF S
      <3> QED BY <3>1
    <2> HIDE DEF S, t
    <2>2. After(d, t \o s) = After(After(d, t), s)
      BY <2>1, AfterBoth
    <2> QED BY <2>2 DEF t
  <1>2. After(d, <<TakeSnapshot>>) = f
    <2>1. Called(d, TakeSnapshot) = f
      BY DEF Called, TakeSnapshot, Op
    <2> QED BY <2>1, AfterOne
  <1>3. /\ Kept(f) /\ Later(d, f) /\ RefundCovers(f)
        /\ Len(f.revisions) = Len(d.revisions) + 1
        /\ f.revisions[Len(d.revisions) + 1] = [id |-> d.nextRevision, index |-> Len(d.journal)]
    BY SnapshotKept
  <1>4. f.cache = d.cache
    <2>1. IsRecord(d)
      BY KeptIsFine
    <2> QED BY <2>1 DEF Snapshot, IsRecord, Fields
  <1> HIDE DEF f
  <1>5. Goes(f, e) /\ e.cache = f.cache
    BY <1>3, CallsGo
  <1>6. Entered(d, f)
    <2>1. Len(d.revisions) \in Nat
      BY Lengths DEF Kept
    <2> QED BY <1>3, <2>1 DEF Entered
  <1>7. Entered(d, e)
    BY <1>5, <1>6, EnteredLater
  <1> QED BY <1>1, <1>2, <1>4, <1>5, <1>7 DEF f

\* The call that enters a frame.
LEMMA EnterCallKept ==
    ASSUME StoreOK, NEW d, Kept(d), RefundCovers(d),
           NEW c, NEW from \in Addrs, NEW to \in Addrs, NEW value \in Int
    PROVE  LET e == After(d, EnterCall(c, from, to, value))
           IN  Entered(d, e) /\ e.cache = d.cache
  <1> DEFINE first == IF Exists(c, to) THEN << >> ELSE <<Op("CreateAccount", to, 0)>>
             next == Transfer(from, to, value)
  <1>1. Op("CreateAccount", to, 0) \in PlainCalls
    BY DEF Op, PlainCalls
  <1>2. first \in Seq(PlainCalls)
    BY <1>1
  <1>3. next \in Seq(PlainCalls)
    <2>1. Op("ChangeBalance", from, -value) \in PlainCalls /\ Op("ChangeBalance", to, value) \in PlainCalls
      BY DEF Op, PlainCalls
    <2> QED BY <2>1 DEF Transfer
  <1>4. EnterCall(c, from, to, value) = (<<TakeSnapshot>> \o first) \o next
    BY DEF EnterCall
  <1> HIDE DEF first, next
  <1>5. first \o next \in Seq(PlainCalls)
    BY <1>2, <1>3
  <1>6. (<<TakeSnapshot>> \o first) \o next = <<TakeSnapshot>> \o (first \o next)
    <2> DEFINE S == PlainCalls \cup {TakeSnapshot}
    <2>1. <<TakeSnapshot>> \in Seq(S) /\ first \in Seq(S) /\ next \in Seq(S)
      <3>1. TakeSnapshot \in S /\ PlainCalls \subseteq S
        OBVIOUS
      <3> HIDE DEF S
      <3> QED BY <1>2, <1>3, <3>1
    <2> HIDE DEF S
    <2> QED BY <2>1, ConcatAssociative
  <1> QED BY <1>4, <1>5, <1>6, EnterKept

\* The calls that enter frames.
FrameCalls == PlainCalls \cup {TakeSnapshot}

LEMMA AfterFrameCalls ==
    ASSUME NEW d, NEW s \in Seq(FrameCalls), NEW t \in Seq(FrameCalls)
    PROVE  After(d, s \o t) = After(After(d, s), t)
  BY AfterBoth

LEMMA PlainAreFrameCalls ==
    /\ \A s \in Seq(PlainCalls) : s \in Seq(FrameCalls)
    /\ <<TakeSnapshot>> \in Seq(FrameCalls)
  <1>1. PlainCalls \subseteq FrameCalls /\ TakeSnapshot \in FrameCalls
    BY DEF FrameCalls
  <1> QED BY <1>1

LEMMA EnterCallTyped ==
    ASSUME NEW c, NEW from \in Addrs, NEW to \in Addrs, NEW value \in Int
    PROVE  EnterCall(c, from, to, value) \in Seq(FrameCalls)
  <1> DEFINE first == IF Exists(c, to) THEN << >> ELSE <<Op("CreateAccount", to, 0)>>
             next == Transfer(from, to, value)
  <1>1. first \in Seq(PlainCalls)
    <2>1. Op("CreateAccount", to, 0) \in PlainCalls
      BY DEF Op, PlainCalls
    <2> QED BY <2>1
  <1>2. next \in Seq(PlainCalls)
    <2>1. Op("ChangeBalance", from, -value) \in PlainCalls /\ Op("ChangeBalance", to, value) \in PlainCalls
      BY DEF Op, PlainCalls
    <2> QED BY <2>1 DEF Transfer
  <1>3. EnterCall(c, from, to, value) = (<<TakeSnapshot>> \o first) \o next
    BY DEF EnterCall
  <1> HIDE DEF first, next
  <1> QED BY <1>1, <1>2, <1>3, PlainAreFrameCalls

\* e is in a frame of a that has been entered from d.
FrameEntered(d, e, a) ==
    \E b : Goes(d, b) /\ b.warm[a] # Absent /\ Entered(b, e) /\ e.cache = d.cache

LEMMA WarmTyped == ASSUME NEW a \in Addrs PROVE Warm(a) \in PlainCalls /\ Warm(a).name = "Warm" /\ Warm(a).addr = a
  BY DEF Warm, Op, PlainCalls

LEMMA CallFrameEntered ==
    ASSUME StoreOK, NEW d, Kept(d), RefundCovers(d), NEW c, NEW from \in Addrs,
           NEW a \in Addrs, NEW value \in Int
    PROVE  FrameEntered(d, After(d, <<Warm(a)>> \o EnterCall(c, from, a, value)), a)
  <1> DEFINE s == <<Warm(a)>>
             t == EnterCall(c, from, a, value)
             b == After(d, s)
             e == After(b, t)
  <1>1. s \in Seq(PlainCalls) /\ Len(s) = 1 /\ s[1].name = "Warm" /\ s[1].addr = a
    BY WarmTyped
  <1>2. t \in Seq(FrameCalls)
    BY EnterCallTyped
  <1> HIDE DEF s
  <1>3. /\ Goes(d, b) /\ b.cache = d.cache
        /\ \A j \in 1 .. Len(s) : s[j].name = "Warm" => b.warm[s[j].addr] # Absent
    BY <1>1, CallsGo
  <1>4. b.warm[a] # Absent
    BY <1>1, <1>3
  <1> HIDE DEF b
  <1>5. Entered(b, e) /\ e.cache = b.cache
    BY <1>3, EnterCallKept DEF Goes
  <1> HIDE DEF t
  <1>6. After(d, s \o t) = e
    BY <1>1, <1>2, PlainAreFrameCalls, AfterFrameCalls DEF b
  <1> HIDE DEF e
  <1>7. FrameEntered(d, e, a)
    BY <1>3, <1>4, <1>5 DEF FrameEntered
  <1> QED BY <1>6, <1>7 DEF s, t

LEMMA CreateFrameEntered ==
    ASSUME StoreOK, NEW d, Kept(d), RefundCovers(d), NEW creator \in Addrs, NEW nonce \in Nat,
           NEW a \in Addrs, NEW value \in Int
    PROVE  /\ FrameEntered(d, After(d, EnterCreate(creator, nonce, a, value)), a)
           /\ EnterCreate(creator, nonce, a, value) \in Seq(FrameCalls)
  <1> DEFINE c1 == Op("SetNonce", creator, nonce + 1)
             c2 == Warm(a)
             c3 == Op("CreateAccount", a, 0)
             c4 == Op("SetNonce", a, 1)
             c5 == Op("ChangeBalance", creator, -value)
             c6 == Op("ChangeBalance", a, value)
             s == <<c1, c2>>
             t == <<c3, c4, c5, c6>>
             b == After(d, s)
             w == <<TakeSnapshot>> \o t
             e == After(b, w)
  <1>1. /\ c1 \in PlainCalls /\ c2 \in PlainCalls /\ c3 \in PlainCalls
        /\ c4 \in PlainCalls /\ c5 \in PlainCalls /\ c6 \in PlainCalls
        /\ c2.name = "Warm" /\ c2.addr = a
    BY WarmTyped DEF Op, PlainCalls
  <1>2. EnterCreate(creator, nonce, a, value) = s \o w
    <2>1. EnterCreate(creator, nonce, a, value) = <<c1, c2, TakeSnapshot, c3, c4>> \o <<c5, c6>>
      BY DEF EnterCreate, Transfer
    <2> DEFINE u == <<TakeSnapshot>>
               v == <<c1, c2, TakeSnapshot, c3, c4>>
               x == <<c5, c6>>
    <2>2. /\ TakeSnapshot \in FrameCalls
          /\ c1 \in FrameCalls /\ c2 \in FrameCalls /\ c3 \in FrameCalls
          /\ c4 \in FrameCalls /\ c5 \in FrameCalls /\ c6 \in FrameCalls
      BY <1>1 DEF FrameCalls
    <2> HIDE DEF c1, c2, c3, c4, c5, c6
    <2>3. /\ s \in Seq(FrameCalls) /\ Len(s) = 2 /\ s[1] = c1 /\ s[2] = c2
          /\ u \in Seq(FrameCalls) /\ Len(u) = 1 /\ u[1] = TakeSnapshot
      BY <2>2
    <2>4. /\ t \in Seq(FrameCalls) /\ Len(t) = 4
          /\ t[1] = c3 /\ t[2] = c4 /\ t[3] = c5 /\ t[4] = c6
      BY <2>2
    <2>5. /\ v \in Seq(FrameCalls) /\ Len(v) = 5
          /\ v[1] = c1 /\ v[2] = c2 /\ v[3] = TakeSnapshot /\ v[4] = c3 /\ v[5] = c4
          /\ x \in Seq(FrameCalls) /\ Len(x) = 2 /\ x[1] = c5 /\ x[2] = c6
      BY <2>2
    <2> HIDE DEF s, t, u, v, x
    <2>6. w = u \o t
      BY DEF u
    <2> HIDE DEF w
    <2>7. w \in Seq(FrameCalls) /\ Len(w) = 5 /\ w[1] = TakeSnapshot /\ w[2] = c3
          /\ w[3] = c4 /\ w[4] = c5 /\ w[5] = c6
      <3>1. /\ w \in Seq(FrameCalls) /\ Len(w) = 5
            /\ \A i \in 1 .. 5 : w[i] = IF i <= 1 THEN u[i] ELSE t[i - 1]
        <4>1. /\ u \o t \in Seq(FrameCalls)
              /\ Len(u \o t) = Len(u) + Len(t)
              /\ \A i \in 1 .. Len(u) + Len(t) :
                    (u \o t)[i] = IF i <= Len(u) THEN u[i] ELSE t[i - Len(u)]
          BY <2>3, <2>4, ConcatProperties
        <4> QED BY <2>3, <2>4, <4>1, <2>6
      <3>2. w[1] = u[1] /\ w[2] = t[1] /\ w[3] = t[2] /\ w[4] = t[3] /\ w[5] = t[4]
        BY <3>1
      <3> QED BY <2>3, <2>4, <3>1, <3>2
    <2>8. /\ s \o w \in Seq(FrameCalls) /\ Len(s \o w) = 7
          /\ (s \o w)[1] = c1 /\ (s \o w)[2] = c2 /\ (s \o w)[3] = TakeSnapshot
          /\ (s \o w)[4] = c3 /\ (s \o w)[5] = c4 /\ (s \o w)[6] = c5 /\ (s \o w)[7] = c6
      <3> DEFINE y == s \o w
      <3>1. /\ y \in Seq(FrameCalls) /\ Len(y) = 7
            /\ \A i \in 1 .. 7 : y[i] = IF i <= 2 THEN s[i] ELSE w[i - 2]
        <4>1. /\ s \o w \in Seq(FrameCalls)
              /\ Len(s \o w) = Len(s) + Len(w)
              /\ \A i \in 1 .. Len(s) + Len(w) :
                    (s \o w)[i] = IF i <= Len(s) THEN s[i] ELSE w[i - Len(s)]
          BY <2>3, <2>7, ConcatProperties
        <4> QED BY <2>3, <2>7, <4>1
      <3> HIDE DEF y
      <3>2. /\ y[1] = s[1] /\ y[2] = s[2] /\ y[3] = w[1] /\ y[4] = w[2]
            /\ y[5] = w[3] /\ y[6] = w[4] /\ y[7] = w[5]
        BY <3>1
      <3> QED BY <2>3, <2>7, <3>1, <3>2 DEF y
    <2>9. /\ v \o x \in Seq(FrameCalls) /\ Len(v \o x) = 7
          /\ (v \o x)[1] = c1 /\ (v \o x)[2] = c2 /\ (v \o x)[3] = TakeSnapshot
          /\ (v \o x)[4] = c3 /\ (v \o x)[5] = c4 /\ (v \o x)[6] = c5 /\ (v \o x)[7] = c6
      <3> DEFINE y == v \o x
      <3>1. /\ y \in Seq(FrameCalls) /\ Len(y) = 7
            /\ \A i \in 1 .. 7 : y[i] = IF i <= 5 THEN v[i] ELSE x[i - 5]
        <4>1. /\ v \o x \in Seq(FrameCalls)
              /\ Len(v \o x) = Len(v) + Len(x)
              /\ \A i \in 1 .. Len(v) + Len(x) :
                    (v \o x)[i] = IF i <= Len(v) THEN v[i] ELSE x[i - Len(v)]
          BY <2>5, ConcatProperties
        <4> QED BY <2>5, <4>1
      <3> HIDE DEF y
      <3>2. /\ y[1] = v[1] /\ y[2] = v[2] /\ y[3] = v[3] /\ y[4] = v[4]
            /\ y[5] = v[5] /\ y[6] = x[1] /\ y[7] = x[2]
        BY <3>1
      <3> QED BY <2>5, <3>1, <3>2 DEF y
    <2>10. \A i \in 1 .. 7 : (v \o x)[i] = (s \o w)[i]
      <3>1. \A i \in 1 .. 7 : i \in {1, 2, 3, 4, 5, 6, 7}
        OBVIOUS
      <3> QED BY <2>8, <2>9, <3>1
    <2>11. v \o x = s \o w
      BY <2>8, <2>9, <2>10, SeqEqual
    <2> QED BY <2>1, <2>11 DEF v, x
  <1> HIDE DEF c1, c2, c3, c4, c5, c6
  <1>3. s \in Seq(PlainCalls) /\ Len(s) = 2 /\ s[2] = c2
    BY <1>1
  <1>4. t \in Seq(PlainCalls)
    BY <1>1
  <1> HIDE DEF s, t
  <1>5. s \in Seq(FrameCalls) /\ w \in Seq(FrameCalls)
    BY <1>3, <1>4, PlainAreFrameCalls
  <1>6. /\ Goes(d, b) /\ b.cache = d.cache
        /\ \A j \in 1 .. Len(s) : s[j].name = "Warm" => b.warm[s[j].addr] # Absent
    BY <1>3, CallsGo
  <1>7. b.warm[a] # Absent
    BY <1>1, <1>3, <1>6
  <1> HIDE DEF b
  <1>8. Entered(b, e) /\ e.cache = b.cache
    BY <1>4, <1>6, EnterKept DEF Goes
  <1> HIDE DEF w
  <1>9. After(d, s \o w) = e
    BY <1>5, AfterFrameCalls DEF b
  <1> HIDE DEF e
  <1>10. FrameEntered(d, e, a)
    BY <1>6, <1>7, <1>8 DEF FrameEntered
  <1>11. s \o w \in Seq(FrameCalls)
    BY <1>5
  <1> QED BY <1>2, <1>9, <1>10, <1>11

\* From a state before, too.
LEMMA FrameEnteredFrom ==
    ASSUME NEW d, Kept(d), NEW c, Goes(d, c), c.cache = d.cache, NEW a, NEW e, FrameEntered(c, e, a)
    PROVE  FrameEntered(d, e, a)
  <1>1. PICK b : Goes(c, b) /\ b.warm[a] # Absent /\ Entered(b, e) /\ e.cache = c.cache
    BY DEF FrameEntered
  <1>2. Goes(d, b)
    BY <1>1, GoesTransitive
  <1> QED BY <1>1, <1>2 DEF FrameEntered

-----------------------------------------------------------------------------
(* The frames.                                                             *)

FrameType == [self : Addrs, kind : {"call", "create"}, revision : Nat]

\* The snapshot of every open frame is there, its own address and the addresses
\* of the frames around it are in the access list, and those were when it was
\* entered.
FramesOK(d, fs) ==
    /\ fs \in Seq(FrameType)
    /\ \A i \in 1 .. Len(fs) : d.warm[fs[i].self] # Absent
    /\ \A i \in 1 .. Len(fs) :
          \E p \in 1 .. Len(d.revisions) :
             /\ d.revisions[p].id = fs[i].revision
             /\ \A j \in 1 .. i - 1 :
                   History(d)[d.revisions[p].index].warm[fs[j].self] # Absent
    /\ \A i, j \in 1 .. Len(fs) : i < j => fs[i].revision < fs[j].revision

LEMMA FramesLater ==
    ASSUME NEW d, Kept(d), NEW e, Later(d, e), NEW fs, FramesOK(d, fs)
    PROVE  FramesOK(e, fs)
  <1>1. fs \in Seq(FrameType) /\ \A i \in 1 .. Len(fs) : fs[i].self \in Addrs
    <2>1. fs \in Seq(FrameType)
      BY DEF FramesOK
    <2>2. \A i \in 1 .. Len(fs) : fs[i] \in FrameType
      BY <2>1
    <2> QED BY <2>1, <2>2 DEF FrameType
  <1>2. \A i \in 1 .. Len(fs) : e.warm[fs[i].self] # Absent
    BY <1>1 DEF FramesOK, Later
  <1>3. ASSUME NEW i \in 1 .. Len(fs)
        PROVE  \E p \in 1 .. Len(e.revisions) :
                  /\ e.revisions[p].id = fs[i].revision
                  /\ \A j \in 1 .. i - 1 :
                        History(e)[e.revisions[p].index].warm[fs[j].self] # Absent
    <2>1. PICK p \in 1 .. Len(d.revisions) :
             /\ d.revisions[p].id = fs[i].revision
             /\ \A j \in 1 .. i - 1 :
                   History(d)[d.revisions[p].index].warm[fs[j].self] # Absent
      BY DEF FramesOK
    <2> DEFINE n == d.revisions[p].index
    <2>2. d \in States /\ n <= Len(d.journal)
      BY DEF Kept
    <2>3. n \in 0 .. Len(d.journal) /\ Len(d.revisions) \in Nat /\ Len(e.revisions) >= Len(d.revisions)
      BY <2>2, Lengths DEF Later, SameBefore
    <2>4. e.revisions[p] = d.revisions[p] /\ Same(History(d)[n], History(e)[n])
      BY <2>3 DEF Later, SameBefore
    <2>5. History(e)[n].warm = History(d)[n].warm
      BY <2>4 DEF Same
    <2>6. p \in 1 .. Len(e.revisions)
      <3>1. Len(e.revisions) \in Int
        BY <2>3 DEF Later, SameBefore
      <3> QED BY <2>3, <3>1
    <2> QED BY <2>1, <2>4, <2>5, <2>6
  <1> QED BY <1>1, <1>2, <1>3 DEF FramesOK

\* The innermost frame is left.
LEMMA FramesFront ==
    ASSUME NEW d, NEW fs, FramesOK(d, fs), fs # << >>
    PROVE  /\ FramesOK(d, Front(fs)) /\ Len(fs) \in 1 .. Len(fs) /\ Last(fs) \in FrameType
           /\ Len(Front(fs)) = Len(fs) - 1
           /\ \A i \in 1 .. Len(fs) - 1 : Front(fs)[i] = fs[i]
  <1>1. fs \in Seq(FrameType)
    BY DEF FramesOK
  <1>2. Len(fs) \in Nat /\ Len(fs) > 0
    BY <1>1
  <1>3. /\ Front(fs) \in Seq(FrameType) /\ Len(Front(fs)) = Len(fs) - 1
        /\ \A i \in 1 .. Len(fs) - 1 : Front(fs)[i] = fs[i]
    <2> DEFINE m == Len(fs) - 1
    <2>1. m \in Nat /\ m \in 0 .. Len(fs)
      BY <1>2
    <2>2. Front(fs) = SubSeq(fs, 1, m)
      BY DEF Front
    <2> HIDE DEF m
    <2>3. /\ SubSeq(fs, 1, m) \in Seq(FrameType) /\ Len(SubSeq(fs, 1, m)) = m
          /\ \A i \in 1 .. m : SubSeq(fs, 1, m)[i] = fs[i]
      BY <1>1, <2>1
    <2> QED BY <2>2, <2>3 DEF m
  <1>4. Last(fs) \in FrameType /\ Len(fs) \in 1 .. Len(fs)
    BY <1>1, <1>2 DEF Last
  <1>5. \A i \in 1 .. Len(fs) - 1 : i \in 1 .. Len(fs) /\ \A j \in 1 .. i - 1 : j \in 1 .. Len(fs) - 1
    BY <1>2
  <1>6. FramesOK(d, Front(fs))
    <2> DEFINE gs == Front(fs)
               l == Len(fs) - 1
    <2>1. /\ gs \in Seq(FrameType) /\ Len(gs) = l /\ \A i \in 1 .. l : gs[i] = fs[i]
          /\ \A i \in 1 .. l : i \in 1 .. Len(fs) /\ \A j \in 1 .. i - 1 : j \in 1 .. l
      BY <1>3, <1>5
    <2> HIDE DEF gs, l
    <2>2. \A i \in 1 .. l : d.warm[gs[i].self] # Absent
      BY <2>1 DEF FramesOK
    <2>3. ASSUME NEW i \in 1 .. l
          PROVE  \E p \in 1 .. Len(d.revisions) :
                    /\ d.revisions[p].id = gs[i].revision
                    /\ \A j \in 1 .. i - 1 :
                          History(d)[d.revisions[p].index].warm[gs[j].self] # Absent
      <3>1. PICK p \in 1 .. Len(d.revisions) :
                    /\ d.revisions[p].id = fs[i].revision
                    /\ \A j \in 1 .. i - 1 :
                          History(d)[d.revisions[p].index].warm[fs[j].self] # Absent
        BY <2>1 DEF FramesOK
      <3>2. gs[i] = fs[i] /\ \A j \in 1 .. i - 1 : gs[j] = fs[j]
        BY <2>1
      <3> QED BY <3>1, <3>2
    <2>4. \A i, j \in 1 .. l : i < j => gs[i].revision < gs[j].revision
      BY <2>1 DEF FramesOK
    <2>5. FramesOK(d, gs)
      BY <2>1, <2>2, <2>3, <2>4 DEF FramesOK
    <2> QED BY <2>5 DEF gs
  <1> QED BY <1>3, <1>4, <1>6

\* A frame is entered.
LEMMA FramesEnter ==
    ASSUME NEW d, Kept(d), RefundCovers(d), NEW fs, FramesOK(d, fs),
           NEW a \in Addrs, NEW kind \in {"call", "create"}, NEW e, FrameEntered(d, e, a)
    PROVE  /\ Kept(e) /\ RefundCovers(e)
           /\ FramesOK(e, Append(fs, Frame(a, kind, d)))
  <1>1. PICK b : Goes(d, b) /\ b.warm[a] # Absent /\ Entered(b, e)
    BY DEF FrameEntered
  <1>2. /\ Kept(b) /\ RefundCovers(b) /\ b.nextRevision = d.nextRevision
        /\ Kept(e) /\ RefundCovers(e) /\ Later(b, e)
    BY <1>1 DEF Goes, Entered
  <1> DEFINE f == Frame(a, kind, d)
             gs == Append(fs, f)
             l == Len(fs)
             r == Len(b.revisions) + 1
             n == Len(b.journal)
  <1>3. FramesOK(b, fs) /\ FramesOK(e, fs)
    BY <1>1, <1>2, FramesLater DEF Goes
  <1>4. /\ f \in FrameType /\ f.self = a /\ f.revision = b.nextRevision
        /\ b.nextRevision \in Nat /\ n \in Nat
    <2>1. b \in States
      BY <1>2 DEF Kept
    <2> QED BY <1>2, <2>1, Lengths DEF Frame, FrameType
  <1> HIDE DEF f
  <1>5. /\ gs \in Seq(FrameType) /\ Len(gs) = l + 1 /\ gs[l + 1] = f
        /\ l \in Nat /\ \A i \in 1 .. l : gs[i] = fs[i]
        /\ \A i \in 1 .. l : fs[i] \in FrameType
    <2>1. fs \in Seq(FrameType)
      BY DEF FramesOK
    <2> QED BY <1>4, <2>1
  <1> HIDE DEF gs, l
  <1>6. \A i \in 1 .. l : fs[i].self \in Addrs /\ fs[i].revision \in Nat
    BY <1>5 DEF FrameType
  <1>7. ASSUME NEW i \in 1 .. l + 1 PROVE e.warm[gs[i].self] # Absent
    <2>1. CASE i \in 1 .. l
      BY <1>3, <1>5, <2>1 DEF FramesOK, l
    <2>2. CASE i = l + 1
      BY <1>1, <1>2, <1>4, <1>5, <2>2 DEF Later
    <2> QED BY <1>5, <2>1, <2>2
  <1>8. r \in 1 .. Len(e.revisions) /\ e.revisions[r].id = b.nextRevision /\ e.revisions[r].index = n
    BY <1>1 DEF Entered
  <1>9. History(e)[n].warm = b.warm
    <2>1. n \in 0 .. n /\ History(b)[n] = b
      BY <1>2, <1>4, Lengths DEF Kept
    <2>2. Same(History(b)[n], History(e)[n])
      BY <1>2, <2>1 DEF Later, SameBefore
    <2> QED BY <2>1, <2>2 DEF Same
  <1>10. ASSUME NEW i \in 1 .. l + 1
         PROVE  \E p \in 1 .. Len(e.revisions) :
                   /\ e.revisions[p].id = gs[i].revision
                   /\ \A j \in 1 .. i - 1 :
                         History(e)[e.revisions[p].index].warm[gs[j].self] # Absent
    <2>1. CASE i \in 1 .. l
      <3>1. PICK p \in 1 .. Len(e.revisions) :
                   /\ e.revisions[p].id = fs[i].revision
                   /\ \A j \in 1 .. i - 1 :
                         History(e)[e.revisions[p].index].warm[fs[j].self] # Absent
        BY <1>3, <2>1 DEF FramesOK, l
      <3>2. gs[i] = fs[i] /\ \A j \in 1 .. i - 1 : gs[j] = fs[j]
        BY <1>5, <2>1
      <3> QED BY <3>1, <3>2
    <2>2. CASE i = l + 1
      <3>1. ASSUME NEW j \in 1 .. i - 1 PROVE b.warm[gs[j].self] # Absent
        <4>1. j \in 1 .. l
          BY <1>5, <2>2
        <4> QED BY <1>3, <1>5, <4>1 DEF FramesOK, l
      <3>2. gs[i].revision = b.nextRevision
        BY <1>4, <1>5, <2>2
      <3> HIDE DEF r, n
      <3>3. \A j \in 1 .. i - 1 : History(e)[e.revisions[r].index].warm[gs[j].self] # Absent
        BY <1>8, <1>9, <3>1
      <3> QED BY <1>8, <3>2, <3>3
    <2> QED BY <1>5, <2>1, <2>2
  <1>11. ASSUME NEW i \in 1 .. l PROVE fs[i].revision < b.nextRevision
    <2>1. PICK p \in 1 .. Len(b.revisions) : b.revisions[p].id = fs[i].revision
      BY <1>3 DEF FramesOK, l
    <2> QED BY <1>2, <2>1 DEF Kept
  <1>12. ASSUME NEW i \in 1 .. l + 1, NEW j \in 1 .. l + 1, i < j
         PROVE  gs[i].revision < gs[j].revision
    <2>1. i \in 1 .. l
      BY <1>5, <1>12
    <2>2. CASE j \in 1 .. l
      BY <1>3, <1>5, <1>12, <2>1, <2>2 DEF FramesOK, l
    <2>3. CASE j = l + 1
      BY <1>4, <1>5, <1>11, <2>1, <2>3
    <2> QED BY <1>5, <2>2, <2>3
  <1>13. FramesOK(e, gs)
    BY <1>5, <1>7, <1>10, <1>12 DEF FramesOK
  <1> QED BY <1>2, <1>13 DEF gs, f

\* The innermost frame fails.
LEMMA FramesRevert ==
    ASSUME NEW d, Kept(d), NEW fs, FramesOK(d, fs), NEW i \in 1 .. Len(fs)
    PROVE  LET e == RevertTo(d, fs[i].revision)
           IN  /\ Kept(e) /\ RefundCovers(e)
               /\ i = Len(fs) => FramesOK(e, Front(fs))
  <1> DEFINE e == RevertTo(d, fs[i].revision)
  <1>1. PICK p \in 1 .. Len(d.revisions) :
             /\ d.revisions[p].id = fs[i].revision
             /\ \A j \in 1 .. i - 1 :
                   History(d)[d.revisions[p].index].warm[fs[j].self] # Absent
    BY DEF FramesOK
  <1> DEFINE n == d.revisions[p].index
  <1>2. /\ Kept(e) /\ RefundCovers(e) /\ Same(History(d)[n], e)
        /\ SameBefore(d, e, n, p - 1)
        /\ Len(e.revisions) = p - 1 /\ Len(e.journal) = n
    BY <1>1, RevertKept
  <1> HIDE DEF e
  <1>3. ASSUME i = Len(fs) PROVE FramesOK(e, Front(fs))
    <2> DEFINE gs == Front(fs)
               l == Len(fs) - 1
    <2>1. fs \in Seq(FrameType) /\ Len(fs) \in Nat
      BY DEF FramesOK
    <2>2. fs # << >>
      BY <2>1
    <2>3. FramesOK(d, gs) /\ Len(gs) = l /\ \A j \in 1 .. l : gs[j] = fs[j]
      BY <2>2, FramesFront
    <2>4. gs \in Seq(FrameType)
      BY <2>3 DEF FramesOK
    <2> HIDE DEF gs
    <2>5. ASSUME NEW j \in 1 .. l PROVE e.warm[gs[j].self] # Absent
      BY <1>1, <1>2, <1>3, <2>3 DEF Same
    <2>6. ASSUME NEW j \in 1 .. l
          PROVE  \E q \in 1 .. Len(e.revisions) :
                   /\ e.revisions[q].id = gs[j].revision
                   /\ \A k \in 1 .. j - 1 :
                         History(e)[e.revisions[q].index].warm[gs[k].self] # Absent
      <3>1. PICK q \in 1 .. Len(d.revisions) :
                   /\ d.revisions[q].id = gs[j].revision
                   /\ \A k \in 1 .. j - 1 :
                         History(d)[d.revisions[q].index].warm[gs[k].self] # Absent
        BY <2>3 DEF FramesOK
      <3> DEFINE m == d.revisions[q].index
      <3>2. d.revisions[q].id < d.revisions[p].id
        <4>1. j \in 1 .. Len(fs) /\ j < i
          BY <1>3, <2>1
        <4> QED BY <1>1, <2>3, <3>1, <4>1 DEF FramesOK
      <3>3. /\ Len(d.revisions) \in Nat /\ m \in Nat /\ n \in Nat
            /\ d.revisions[q].id \in Nat /\ d.revisions[p].id \in Nat
        BY Lengths DEF Kept
      <3>4. q < p /\ m <= n
        <4>1. ~(p < q)
          BY <3>2, <3>3 DEF Kept
        <4>2. q < p
          BY <3>2, <3>3, <4>1
        <4> QED BY <4>2 DEF Kept
      <3>5. q \in 1 .. p - 1 /\ m \in 0 .. n
        BY <3>3, <3>4
      <3>6. e.revisions[q] = d.revisions[q] /\ Same(History(d)[m], History(e)[m])
        BY <1>2, <3>5 DEF SameBefore
      <3>7. History(e)[m].warm = History(d)[m].warm
        BY <3>6 DEF Same
      <3> QED BY <1>2, <3>1, <3>5, <3>6, <3>7
    <2>7. \A j, k \in 1 .. l : j < k => gs[j].revision < gs[k].revision
      BY <2>3 DEF FramesOK
    <2> QED BY <2>3, <2>4, <2>5, <2>6, <2>7 DEF FramesOK, gs
  <1> QED BY <1>2, <1>3 DEF e

\* A frame fails in which no other one is open: the state looks as it did before.
LEMMA FailKept ==
    ASSUME NEW d, Kept(d), NEW c, Entered(d, c)
    PROVE  LET e == RevertTo(c, d.nextRevision)
           IN  Kept(e) /\ RefundCovers(e) /\ Later(d, e) /\ Same(d, e)
  <1> DEFINE p == Len(d.revisions) + 1
             n == Len(d.journal)
             e == RevertTo(c, d.nextRevision)
  <1>1. /\ Kept(c) /\ Later(d, c) /\ p \in 1 .. Len(c.revisions)
        /\ c.revisions[p].id = d.nextRevision /\ c.revisions[p].index = n
    BY DEF Entered
  <1>2. /\ Kept(e) /\ RefundCovers(e) /\ Same(History(c)[n], e)
        /\ SameBefore(c, e, n, p - 1) /\ e.nextRevision = c.nextRevision
    BY <1>1, RevertKept
  <1> HIDE DEF e
  <1>3. n \in Nat /\ Len(d.revisions) \in Nat /\ History(d)[n] = d /\ d.nextRevision \in Nat
        /\ Len(c.journal) \in Nat /\ Len(c.revisions) \in Nat
    BY <1>1, Lengths DEF Kept
  <1>4. SameBefore(d, c, n, p - 1) /\ d.nextRevision <= c.nextRevision
    BY <1>1, <1>3 DEF Later
  <1>5. SameBefore(d, e, n, p - 1)
    BY <1>2, <1>3, <1>4, SameBeforeTransitive
  <1>6. Same(d, e)
    <2>1. Same(History(d)[n], History(c)[n])
      BY <1>3, <1>4 DEF SameBefore
    <2> QED BY <1>2, <1>3, <2>1, SameTransitive
  <1>7. Later(d, e)
    <2>1. p - 1 = Len(d.revisions) /\ d.nextRevision <= e.nextRevision
      BY <1>2, <1>3, <1>4
    <2>2. \A a \in Addrs : d.warm[a] # Absent => e.warm[a] # Absent
      BY <1>6 DEF Same
    <2> QED BY <1>5, <2>1, <2>2 DEF Later
  <1> QED BY <1>2, <1>6, <1>7 DEF e

-----------------------------------------------------------------------------
(* The first state, SSTORE and the precompiles.                            *)

LEMMA NewKept == ASSUME StoreOK PROVE Kept(New) /\ RefundCovers(New)
  <1>1. New \in States
    BY DEF New, States, Objs, Absent
  <1>2. /\ New.journal = << >> /\ New.revisions = << >> /\ New.refund = 0 /\ ~New.panic
        /\ New.slots = << >> /\ \A a \in Addrs : /\ New.obj[a] = NoObj /\ New.dirties[a] = 0
                                                 /\ New.warm[a] = Absent
    BY DEF New
  <1>3. Len(New.journal) = 0 /\ Len(New.revisions) = 0 /\ Len(New.slots) = 0
    BY <1>2
  <1>4. Fine(New)
    BY <1>2, <1>3 DEF Fine, Absent
  <1>5. History(New)[0] = New
    BY <1>1, <1>3, Lengths
  <1>6. Kept(New)
    <2>1. \A i \in 0 .. 0 : i = 0
      OBVIOUS
    <2>2. \A p \in 1 .. 0 : FALSE
      OBVIOUS
    <2> QED BY <1>1, <1>3, <1>4, <1>5, <2>1, <2>2 DEF Kept
  <1>7. Emptied(New) = {}
    BY <1>2 DEF Emptied, EmptiedOf
  <1>8. RefundCovers(New)
    BY <1>2, <1>7, FS_EmptySet DEF RefundCovers, ClearingRefund
  <1> QED BY <1>6, <1>8

\* What makeGasSStoreFunc adds to the refund counter.
LEMMA RefundsAre ==
    ASSUME NEW original \in Nat, NEW current \in Nat, NEW value \in Nat
    PROVE  LET s == Refunds(original, current, value)
           IN  \/ s = << >> /\ (original # 0 /\ value = 0 => current = 0)
               \/ s = <<4800>> /\ original # 0 /\ value = 0
               \/ s = <<-4800>> /\ original # 0 /\ value # 0 /\ current = 0
               \/ s = <<-4800, 2800>> /\ original # 0 /\ value # 0 /\ current = 0
               \/ s = <<19900>> /\ original = 0
               \/ s = <<2800>> /\ original # 0 /\ value # 0
  <1> DEFINE s == Refunds(original, current, value)
             first == CASE original # 0 /\ value = 0 -> <<4800>>
                        [] original # 0 /\ current = 0 -> <<-4800>>
                        [] OTHER -> << >>
             next == IF original = current \/ original # value THEN << >>
                     ELSE IF original = 0 THEN <<19900>> ELSE <<2800>>
  <1>1. s = IF current = value THEN << >> ELSE first \o next
    BY DEF Refunds, ClearingRefund, ResetToEmptyRefund, ResetRefund
  <1> HIDE DEF s
  <1>2. CASE current = value
    BY <1>1, <1>2 DEF s
  <1>3. CASE current # value /\ original # 0 /\ value = 0
    <2>1. first = <<4800>> /\ next = << >>
      BY <1>3
    <2>2. <<4800>> \o << >> = <<4800>>
      OBVIOUS
    <2> QED BY <1>1, <1>3, <2>1, <2>2 DEF s
  <1>4. CASE current # value /\ original # 0 /\ value # 0 /\ current = 0
    <2> DEFINE u == <<-4800>>
               v == <<2800>>
               w == <<-4800, 2800>>
    <2>1. first = u /\ (next = << >> \/ next = v)
      BY <1>4
    <2>2. u \o << >> = u /\ u \o v = w
      <3>1. /\ u \in Seq(Int) /\ Len(u) = 1 /\ u[1] = -4800
            /\ v \in Seq(Int) /\ Len(v) = 1 /\ v[1] = 2800
            /\ w \in Seq(Int) /\ Len(w) = 2 /\ w[1] = -4800 /\ w[2] = 2800
        OBVIOUS
      <3>2. u \o << >> = u
        OBVIOUS
      <3> HIDE DEF u, v, w
      <3>3. /\ u \o v \in Seq(Int) /\ Len(u \o v) = 2
            /\ (u \o v)[1] = u[1] /\ (u \o v)[2] = v[1]
        <4>1. /\ u \o v \in Seq(Int) /\ Len(u \o v) = Len(u) + Len(v)
              /\ \A i \in 1 .. Len(u) + Len(v) :
                    (u \o v)[i] = IF i <= Len(u) THEN u[i] ELSE v[i - Len(u)]
          BY <3>1, ConcatProperties
        <4>2. Len(u) + Len(v) = 2 /\ Len(u) = 1
          BY <3>1
        <4>3. (u \o v)[1] = u[1]
          BY <4>1, <4>2
        <4>4. (u \o v)[2] = v[2 - 1]
          BY <4>1, <4>2
        <4> QED BY <4>1, <4>2, <4>3, <4>4
      <3>4. \A i \in 1 .. 2 : (u \o v)[i] = w[i]
        <4>1. \A i \in 1 .. 2 : i = 1 \/ i = 2
          OBVIOUS
        <4> QED BY <3>1, <3>3, <4>1
      <3>5. u \o v = w
        BY <3>1, <3>3, <3>4, SeqEqual
      <3> QED BY <3>2, <3>5
    <2>3. s = first \o next
      BY <1>1, <1>4
    <2> HIDE DEF first, next, u, v, w
    <2>4. s = u \/ s = w
      <3>1. CASE next = << >>
        <4>1. s = u \o << >>
          BY <2>1, <2>3, <3>1, Zenon
        <4> QED BY <2>2, <4>1, Zenon
      <3>2. CASE next = v
        <4>1. s = u \o v
          BY <2>1, <2>3, <3>2, Zenon
        <4> QED BY <2>2, <4>1, Zenon
      <3> QED BY <2>1, <3>1, <3>2
    <2>5. \/ s = <<-4800>> /\ original # 0 /\ value # 0 /\ current = 0
          \/ s = <<-4800, 2800>> /\ original # 0 /\ value # 0 /\ current = 0
      BY <1>4, <2>4 DEF u, w
    <2> QED BY <2>5 DEF s
  <1>5. CASE current # value /\ original # 0 /\ value # 0 /\ current # 0
    <2>1. first = << >> /\ (next = << >> \/ next = <<2800>>)
      BY <1>5
    <2>2. << >> \o << >> = << >> /\ << >> \o <<2800>> = <<2800>>
      OBVIOUS
    <2> QED BY <1>1, <1>5, <2>1, <2>2 DEF s
  <1>6. CASE current # value /\ original = 0
    <2>1. first = << >> /\ (next = << >> \/ next = <<19900>>)
      BY <1>6
    <2>2. << >> \o << >> = << >> /\ << >> \o <<19900>> = <<19900>>
      OBVIOUS
    <2> QED BY <1>1, <1>6, <2>1, <2>2 DEF s
  <1> QED BY <1>2, <1>3, <1>4, <1>5, <1>6 DEF s

\* What is known of a state within SSTORE: only the refund counter has changed
\* of what is emptied.
Refunding(d, e, n) ==
    /\ Kept(e) /\ Later(d, e) /\ e.nextRevision = d.nextRevision
    /\ e.refund = d.refund + n /\ Emptied(e) = Emptied(d)

LEMMA RefundStep ==
    ASSUME NEW d, Kept(d), NEW n \in Int, NEW e, Refunding(d, e, n), NEW m \in Int, d.refund + n + m >= 0
    PROVE  Refunding(d, Called(e, Op("ChangeRefund", Origin, m)), n + m)
  <1> DEFINE f == ChangeRefund(e, m)
  <1>1. Called(e, Op("ChangeRefund", Origin, m)) = f
    BY DEF Called, Op
  <1>2. d.refund \in Int /\ e.refund + m >= 0 /\ Kept(e)
    <2>1. d.refund \in Int
      BY DEF Kept, States
    <2> QED BY <2>1 DEF Refunding
  <1>3. /\ Kept(f) /\ Later(e, f) /\ f.nextRevision = e.nextRevision
        /\ f.refund = e.refund + m /\ f.obj = e.obj
    BY <1>2, RefundKept
  <1> HIDE DEF f
  <1>4. Emptied(f) = Emptied(e)
    BY <1>3 DEF Emptied, EmptiedOf
  <1>5. Later(d, f)
    BY <1>2, <1>3, LaterTransitive DEF Refunding
  <1>6. f.refund = d.refund + (n + m)
    BY <1>2, <1>3 DEF Refunding
  <1> QED BY <1>1, <1>3, <1>4, <1>5, <1>6 DEF Refunding

\* How the refund counter covers the slots after SSTORE.
LEMMA SstoreCovers ==
    ASSUME NEW d, Kept(d), RefundCovers(d), NEW p \in Addrs \X Keys, NEW n \in Int,
           NEW e, Kept(e), e.refund = d.refund + n, Emptied(e) \subseteq Emptied(d) \cup {p},
           n >= 0 \/ (n >= -4800 /\ p \in Emptied(d)),
           p \in Emptied(e) => n >= 4800 \/ (n >= 0 /\ p \in Emptied(d))
    PROVE  RefundCovers(e)
  <1> DEFINE D == Emptied(d)
             E == Emptied(e)
  <1>1. /\ IsFiniteSet(D) /\ IsFiniteSet(E)
        /\ Cardinality(D) \in Nat /\ Cardinality(E) \in Nat
    BY EmptiedFinite
  <1>2. d.refund \in Int /\ d.refund >= 4800 * Cardinality(D)
    BY DEF RefundCovers, ClearingRefund, Kept, States
  <1> HIDE DEF D, E
  <1>3. CASE E \subseteq D /\ n >= 0
    <2>1. Cardinality(E) <= Cardinality(D)
      BY <1>1, <1>3, FS_Subset
    <2>2. e.refund >= 4800 * Cardinality(E)
      BY <1>1, <1>2, <1>3, <2>1
    <2> QED BY <2>2 DEF RefundCovers, ClearingRefund, E
  <1>4. CASE E \subseteq D \ {p} /\ n >= -4800 /\ p \in D
    <2>1. IsFiniteSet(D \ {p}) /\ Cardinality(D \ {p}) = Cardinality(D) - 1
      BY <1>1, <1>4, FS_RemoveElement
    <2>2. Cardinality(E) <= Cardinality(D) - 1
      BY <1>4, <2>1, FS_Subset
    <2>3. e.refund >= 4800 * Cardinality(E)
      BY <1>1, <1>2, <1>4, <2>2
    <2> QED BY <2>3 DEF RefundCovers, ClearingRefund, E
  <1>5. CASE n >= 4800
    <2>1. IsFiniteSet(D \cup {p}) /\ Cardinality(D \cup {p}) <= Cardinality(D) + 1
          /\ Cardinality(D \cup {p}) \in Nat
      <3>1. IsFiniteSet(D \cup {p}) /\ Cardinality(D \cup {p}) = IF p \in D THEN Cardinality(D) ELSE Cardinality(D) + 1
        BY <1>1, FS_AddElement
      <3> QED BY <1>1, <3>1
    <2>2. E \subseteq D \cup {p}
      BY DEF D, E
    <2>3. Cardinality(E) <= Cardinality(D) + 1
      <3>1. Cardinality(E) <= Cardinality(D \cup {p})
        BY <2>1, <2>2, FS_Subset
      <3> QED BY <1>1, <2>1, <3>1
    <2>4. e.refund >= 4800 * Cardinality(E)
      BY <1>1, <1>2, <1>5, <2>3
    <2> QED BY <2>4 DEF RefundCovers, ClearingRefund, E
  <1>6. E \subseteq D \cup {p} /\ (p \in E => n >= 4800 \/ (n >= 0 /\ p \in D))
        /\ (n >= 0 \/ (n >= -4800 /\ p \in D))
    BY DEF D, E
  <1> QED BY <1>3, <1>4, <1>5, <1>6

\* At most two calls.
LEMMA AfterShort ==
    ASSUME NEW d, NEW s, Len(s) \in 0 .. 2
    PROVE  After(d, s) = IF Len(s) = 0 THEN d
                         ELSE IF Len(s) = 1 THEN Called(d, s[1])
                         ELSE Called(Called(d, s[1]), s[2])
  <1> DEFINE f == Called(d, s[1])
             h == Called(f, s[2])
             g == [i \in 0 .. 2 |-> IF i = 0 THEN d ELSE IF i = 1 THEN f ELSE h]
  <1>1. g[0] = d /\ g[1] = f /\ g[2] = h
    OBVIOUS
  <1>2. Len(s) \in Nat /\ (Len(s) = 0 \/ Len(s) = 1 \/ Len(s) = 2)
    OBVIOUS
  <1>3. ASSUME NEW i \in 1 .. Len(s) PROVE g[i] = Called(g[i - 1], s[i])
    <2>1. i = 1 \/ i = 2
      <3> DEFINE l == Len(s)
      <3>1. l = 0 \/ l = 1 \/ l = 2
        BY <1>2
      <3>2. i \in 1 .. l
        OBVIOUS
      <3> HIDE DEF l
      <3> QED BY <3>1, <3>2
    <2>2. CASE i = 1
      <3>1. i - 1 = 0
        BY <2>2
      <3> HIDE DEF g
      <3> QED BY <1>1, <2>2, <3>1
    <2>3. CASE i = 2
      <3>1. i - 1 = 1
        BY <2>3
      <3> HIDE DEF g
      <3> QED BY <1>1, <2>3, <3>1
    <2> QED BY <2>1, <2>2, <2>3
  <1> HIDE DEF g, f, h
  <1>4. Folds(d, s, g)
    BY <1>1, <1>3 DEF Folds
  <1>5. After(d, s) = g[Len(s)]
    BY <1>2, <1>4, AfterIs
  <1> QED BY <1>1, <1>2, <1>5 DEF f, h

\* The refunds s of one SSTORE: what is taken back is of a slot that is empty
\* now and was not, and one that becomes so is refunded.
RefundsFor(s, original, current, value) ==
    LET m == IF Len(s) = 0 THEN 0 ELSE s[1]
        n == IF Len(s) = 2 THEN s[2] ELSE 0
    IN  /\ s \in Seq(Int) /\ Len(s) \in 0 .. 2 /\ m \in Int /\ n \in Int
        /\ m >= 0 \/ (m = -4800 /\ original # 0 /\ current = 0)
        /\ n >= 0
        /\ original # 0 /\ value = 0 => m + n >= 4800 \/ (m + n = 0 /\ current = 0)

LEMMA RefundsFit ==
    ASSUME NEW original \in Nat, NEW current \in Nat, NEW value \in Nat
    PROVE  RefundsFor(Refunds(original, current, value), original, current, value)
  <1> DEFINE s == Refunds(original, current, value)
             m == IF Len(s) = 0 THEN 0 ELSE s[1]
             n == IF Len(s) = 2 THEN s[2] ELSE 0
             Fits == /\ s \in Seq(Int) /\ Len(s) \in 0 .. 2 /\ m \in Int /\ n \in Int
                     /\ m >= 0 \/ (m = -4800 /\ original # 0 /\ current = 0)
                     /\ n >= 0
                     /\ original # 0 /\ value = 0 => m + n >= 4800 \/ (m + n = 0 /\ current = 0)
  <1>1. \/ s = << >> /\ (original # 0 /\ value = 0 => current = 0)
        \/ s = <<4800>> /\ original # 0 /\ value = 0
        \/ s = <<-4800>> /\ original # 0 /\ value # 0 /\ current = 0
        \/ s = <<-4800, 2800>> /\ original # 0 /\ value # 0 /\ current = 0
        \/ s = <<19900>> /\ original = 0
        \/ s = <<2800>> /\ original # 0 /\ value # 0
    BY RefundsAre
  <1> HIDE DEF s
  <1>2. CASE s = << >> /\ (original # 0 /\ value = 0 => current = 0)
    <2>1. s \in Seq(Int) /\ Len(s) = 0
      BY <1>2
    <2>2. m = 0 /\ n = 0
      BY <2>1
    <2> HIDE DEF m, n
    <2>3. original # 0 /\ value = 0 => current = 0
      BY <1>2
    <2>4. Fits
      BY <2>1, <2>2, <2>3
    <2> QED BY <2>4 DEF RefundsFor, s, m, n
  <1>3. CASE s = <<4800>> /\ original # 0 /\ value = 0
    <2>1. s \in Seq(Int) /\ Len(s) = 1 /\ s[1] = 4800
      BY <1>3
    <2>2. m = 4800 /\ n = 0
      BY <2>1
    <2> HIDE DEF m, n
    <2>3. original # 0 /\ value = 0
      BY <1>3
    <2>4. Fits
      BY <2>1, <2>2, <2>3
    <2> QED BY <2>4 DEF RefundsFor, s, m, n
  <1>4. CASE s = <<-4800>> /\ original # 0 /\ value # 0 /\ current = 0
    <2>1. s \in Seq(Int) /\ Len(s) = 1 /\ s[1] = -4800
      BY <1>4
    <2>2. m = -4800 /\ n = 0
      BY <2>1
    <2> HIDE DEF m, n
    <2>3. original # 0 /\ value # 0 /\ current = 0
      BY <1>4
    <2>4. Fits
      BY <2>1, <2>2, <2>3
    <2> QED BY <2>4 DEF RefundsFor, s, m, n
  <1>5. CASE s = <<-4800, 2800>> /\ original # 0 /\ value # 0 /\ current = 0
    <2>1. s \in Seq(Int) /\ Len(s) = 2 /\ s[1] = -4800 /\ s[2] = 2800
      BY <1>5
    <2>2. m = -4800 /\ n = 2800
      BY <2>1
    <2> HIDE DEF m, n
    <2>3. original # 0 /\ value # 0 /\ current = 0
      BY <1>5
    <2>4. Fits
      BY <2>1, <2>2, <2>3
    <2> QED BY <2>4 DEF RefundsFor, s, m, n
  <1>6. CASE s = <<19900>> /\ original = 0
    <2>1. s \in Seq(Int) /\ Len(s) = 1 /\ s[1] = 19900
      BY <1>6
    <2>2. m = 19900 /\ n = 0
      BY <2>1
    <2> HIDE DEF m, n
    <2>3. original = 0
      BY <1>6
    <2>4. Fits
      BY <2>1, <2>2, <2>3
    <2> QED BY <2>4 DEF RefundsFor, s, m, n
  <1>7. CASE s = <<2800>> /\ original # 0 /\ value # 0
    <2>1. s \in Seq(Int) /\ Len(s) = 1 /\ s[1] = 2800
      BY <1>7
    <2>2. m = 2800 /\ n = 0
      BY <2>1
    <2> HIDE DEF m, n
    <2>3. original # 0 /\ value # 0
      BY <1>7
    <2>4. Fits
      BY <2>1, <2>2, <2>3
    <2> QED BY <2>4 DEF RefundsFor, s, m, n
  <1> QED BY <1>1, <1>2, <1>3, <1>4, <1>5, <1>6, <1>7 DEF s

\* The calls of one SSTORE.
SstoreCalls(a, k, v, amounts) ==
    <<Op("WarmSlot", a, k)>>
    \o [i \in DOMAIN amounts |-> Op("ChangeRefund", Origin, amounts[i])]
    \o <<Op("SetState", a, [key |-> k, value |-> v])>>

LEMMA SstoreKept ==
    ASSUME StoreOK, NEW d, Kept(d), RefundCovers(d), NEW a \in Addrs, d.warm[a] # Absent,
           NEW k \in Keys, NEW v \in Values
    PROVE  LET amounts == Refunds(store.slot[a][k], Slot(d, a, k), v)
               e == After(d, SstoreCalls(a, k, v, amounts))
           IN  Kept(e) /\ RefundCovers(e) /\ Later(d, e)
  <1> DEFINE original == store.slot[a][k]
             current == Slot(d, a, k)
             s == Refunds(original, current, v)
             m == IF Len(s) = 0 THEN 0 ELSE s[1]
             n == IF Len(s) = 2 THEN s[2] ELSE 0
             p == <<a, k>>
             r == [i \in DOMAIN s |-> Op("ChangeRefund", Origin, s[i])]
             x == Op("WarmSlot", a, k)
             z == Op("SetState", a, [key |-> k, value |-> v])
             b == Called(d, x)
             c == After(b, r)
             e == Called(c, z)
  <1>1. d \in States /\ d.refund \in Int /\ p \in Addrs \X Keys
    BY KeptIsFine DEF States
  <1>2. original \in Values /\ current \in Values /\ 0 \in Values /\ Values \subseteq Nat
    <2>1. original \in Values
      BY DEF StoreOK, Store
    <2>2. Exists(d, a) => Obj(d, a) \in Object
      BY <1>1, ObjectSeen DEF Exists
    <2>3. current \in Values
      BY <2>1, <2>2, StateDBAssumption DEF Slot, Object
    <2> QED BY <2>1, <2>3, StateDBAssumption
  <1>3. /\ s \in Seq(Int) /\ Len(s) \in 0 .. 2 /\ m \in Int /\ n \in Int
        /\ m >= 0 \/ (m = -4800 /\ original # 0 /\ current = 0)
        /\ n >= 0
        /\ original # 0 /\ v = 0 => m + n >= 4800 \/ (m + n = 0 /\ current = 0)
    <2>1. original \in Nat /\ current \in Nat /\ v \in Nat
      BY <1>2
    <2> HIDE DEF original, current
    <2>2. RefundsFor(s, original, current, v)
      BY <2>1, RefundsFit
    <2> HIDE DEF s
    <2> QED BY <2>2 DEF RefundsFor
  <1>4. original # 0 /\ current = 0 => p \in Emptied(d)
    BY <1>1, ReadsEmptied
  <1>5. p \in Emptied(d) => d.refund >= 4800
    <2>1. SUFFICES ASSUME p \in Emptied(d) PROVE d.refund >= 4800
      OBVIOUS
    <2>2. IsFiniteSet(Emptied(d)) /\ Cardinality(Emptied(d)) \in Nat /\ Emptied(d) # {}
      BY <2>1, EmptiedFinite
    <2>3. Cardinality(Emptied(d)) # 0
      BY <2>2, FS_EmptySet
    <2> HIDE DEF p
    <2> QED BY <1>1, <2>2, <2>3 DEF RefundCovers, ClearingRefund
  <1>6. d.refund >= 0
    <2>1. Cardinality(Emptied(d)) \in Nat
      BY EmptiedFinite
    <2> QED BY <1>1, <2>1 DEF RefundCovers, ClearingRefund
  <1>7. /\ Refunding(d, b, 0) /\ b.warm[a] # Absent
    <2>1. b = AddSlotToAccessList(d, a, k)
      BY DEF Called, Op
    <2>2. Goes(d, b) /\ b.obj = d.obj /\ b.refund = d.refund
      BY <2>1, WarmSlotGoes
    <2> HIDE DEF b
    <2>3. Emptied(b) = Emptied(d)
      BY <2>2 DEF Emptied, EmptiedOf
    <2>4. b.warm[a] # Absent
      BY <2>2 DEF Goes, Later
    <2> QED BY <1>1, <2>2, <2>3, <2>4 DEF Goes, Refunding
  <1> HIDE DEF b
  <1>8. Len(r) = Len(s) /\ \A i \in 1 .. Len(s) : r[i] = Op("ChangeRefund", Origin, s[i])
    BY <1>3
  <1>9. Refunding(d, c, m + n)
    <2>1. c = IF Len(r) = 0 THEN b
              ELSE IF Len(r) = 1 THEN Called(b, r[1])
              ELSE Called(Called(b, r[1]), r[2])
      BY <1>3, <1>8, AfterShort
    <2> DEFINE f == Called(b, Op("ChangeRefund", Origin, m))
               g == Called(f, Op("ChangeRefund", Origin, n))
    <2>2. CASE Len(s) = 0
      <3>1. m = 0 /\ n = 0 /\ c = b
        BY <1>8, <2>1, <2>2
      <3> HIDE DEF m, n, c
      <3> QED BY <1>7, <3>1
    <2>3. ASSUME Len(s) # 0 PROVE r[1] = Op("ChangeRefund", Origin, m)
      <3>1. 1 \in 1 .. Len(s) /\ m = s[1]
        BY <1>3, <2>3
      <3> QED BY <1>8, <3>1
    <2>4. ASSUME Len(s) = 2 PROVE r[2] = Op("ChangeRefund", Origin, n)
      <3>1. 2 \in 1 .. Len(s) /\ n = s[2]
        BY <1>3, <2>4
      <3> QED BY <1>8, <3>1
    <2>5. Refunding(d, f, m)
      <3>1. m \in Int /\ d.refund + 0 + m >= 0
        <4> HIDE DEF m, n, p, original, current
        <4> QED BY <1>1, <1>3, <1>4, <1>5, <1>6
      <3> HIDE DEF m
      <3>2. Refunding(d, f, 0 + m)
        BY <1>7, <3>1, RefundStep
      <3>3. 0 + m = m
        BY <3>1
      <3> HIDE DEF f
      <3> QED BY <3>2, <3>3
    <2>6. CASE Len(s) = 1
      <3>1. n = 0 /\ c = f
        BY <1>8, <2>1, <2>3, <2>6
      <3>2. m + 0 = m
        <4> HIDE DEF m
        <4> QED BY <1>3
      <3> HIDE DEF m, n, c, f
      <3> QED BY <2>5, <3>1, <3>2
    <2>7. CASE Len(s) = 2
      <3>1. c = g
        BY <1>8, <2>1, <2>3, <2>4, <2>7
      <3>2. d.refund + m + n >= 0
        <4> HIDE DEF m, n, p, original, current
        <4> QED BY <1>1, <1>3, <1>4, <1>5, <1>6
      <3> HIDE DEF m, n, f
      <3>3. Refunding(d, g, m + n)
        BY <1>3, <2>5, <3>2, RefundStep
      <3> HIDE DEF c, g
      <3> QED BY <3>1, <3>3
    <2> QED BY <1>3, <2>2, <2>6, <2>7
  <1> HIDE DEF c
  <1>10. /\ Kept(e) /\ Later(c, e) /\ e.refund = c.refund
         /\ Emptied(e) \subseteq Emptied(c) \cup {p}
         /\ p \in Emptied(e) => v = 0 /\ original # 0
    <2>1. e = SetState(c, a, k, v)
      BY DEF Called, Op
    <2> QED BY <1>9, <2>1, SetStateKept DEF Refunding
  <1> HIDE DEF e
  <1>11. Later(d, e)
    BY <1>9, <1>10, LaterTransitive DEF Refunding
  <1>12. RefundCovers(e)
    <2> DEFINE q == m + n
    <2>1. /\ q \in Int /\ e.refund = d.refund + q /\ Emptied(e) \subseteq Emptied(d) \cup {p}
      BY <1>3, <1>9, <1>10 DEF Refunding
    <2>2. q >= 0 \/ (q >= -4800 /\ p \in Emptied(d))
      <3> HIDE DEF m, n, p, original, current
      <3> QED BY <1>3, <1>4
    <2>3. p \in Emptied(e) => q >= 4800 \/ (q >= 0 /\ p \in Emptied(d))
      <3> HIDE DEF m, n, p, original, current
      <3> QED BY <1>3, <1>4, <1>10
    <2> HIDE DEF m, n, p, q
    <2> QED BY <1>1, <1>10, <2>1, <2>2, <2>3, SstoreCovers
  <1>13. After(d, SstoreCalls(a, k, v, s)) = e
    <2> DEFINE S == {x, z} \cup {Op("ChangeRefund", Origin, i) : i \in Int}
               X == <<x>>
               Z == <<z>>
    <2>1. X \in Seq(S) /\ Z \in Seq(S)
      OBVIOUS
    <2>2. r \in Seq(S)
      <3>1. Len(s) \in Nat /\ DOMAIN s = 1 .. Len(s) /\ \A i \in 1 .. Len(s) : s[i] \in Int
        BY <1>3
      <3>2. r = [i \in 1 .. Len(s) |-> Op("ChangeRefund", Origin, s[i])]
        BY <3>1
      <3>3. \A i \in 1 .. Len(s) : Op("ChangeRefund", Origin, s[i]) \in S
        BY <3>1
      <3> HIDE DEF S, s
      <3> QED BY <3>1, <3>2, <3>3
    <2>3. SstoreCalls(a, k, v, s) = (X \o r) \o Z
      BY DEF SstoreCalls
    <2> HIDE DEF S, r, s
    <2>4. X \o r \in Seq(S)
      BY <2>1, <2>2
    <2>5. After(d, (X \o r) \o Z) = After(After(d, X \o r), Z)
      <3> DEFINE Y == X \o r
      <3>1. Y \in Seq(S)
        BY <2>4
      <3> HIDE DEF X, Y, Z
      <3>2. After(d, Y \o Z) = After(After(d, Y), Z)
        BY <2>1, <3>1, AfterBoth
      <3> QED BY <3>2 DEF Y
    <2>6. After(d, X \o r) = After(After(d, X), r)
      <3> HIDE DEF X, Z
      <3> QED BY <2>1, <2>2, AfterBoth
    <2>7. After(d, X) = b /\ After(c, Z) = e
      <3> HIDE DEF x, z
      <3> QED BY AfterOne DEF b, e
    <2> QED BY <2>3, <2>5, <2>6, <2>7 DEF c
  <1> QED BY <1>10, <1>11, <1>12, <1>13 DEF s

-----------------------------------------------------------------------------
(* The precompiles.                                                        *)

LEMMA CacheOfTyped ==
    ASSUME StoreOK, NEW d \in States
    PROVE  CacheOf(d) \in Caches
  <1>1. store \in Caches
    <2>1. store.bal \in [Addrs -> Int] /\ store.pool \in Int /\ store.rewards \in Int
          /\ store.unmirrored \in Int
      BY DEF StoreOK, Store
    <2> QED BY <2>1 DEF StoreOK, Store, Caches
  <1>2. d.cache \in Caches \cup {NoCache}
    BY DEF States
  <1> QED BY <1>1, <1>2 DEF CacheOf

\* commitWithCtx, of objects of which some are dirty.
LEMMA WrittenTyped ==
    ASSUME NEW d \in States, NEW st \in Caches
    PROVE  Written(d, st) \in Caches
  <1> DEFINE Live(a) == a \in Dirty(d) /\ d.obj[a] # NoObj
             Deleted(a) == Live(a) /\ d.obj[a].suicided
             Set(a) == Live(a) /\ ~d.obj[a].suicided
             Cleared(a) == Deleted(a) /\ st.acct[a] # NoAccount
             acct == [a \in Addrs |->
                        IF Deleted(a) THEN NoAccount
                        ELSE IF Set(a) THEN [nonce |-> d.obj[a].nonce, code |-> d.obj[a].code]
                        ELSE st.acct[a]]
             bal == [a \in Addrs |->
                       IF Cleared(a) THEN 0 ELSE IF Set(a) THEN d.obj[a].bal ELSE st.bal[a]]
             slot == [a \in Addrs |-> [k \in Keys |->
                        IF Cleared(a) THEN 0
                        ELSE IF Set(a) /\ d.obj[a].dirty[k] # Clean THEN d.obj[a].dirty[k]
                        ELSE st.slot[a][k]]]
  <1>1. /\ st.acct \in [Addrs -> Account \cup {NoAccount}] /\ st.bal \in [Addrs -> Int]
        /\ st.slot \in [Addrs -> [Keys -> Values]]
        /\ st.pool \in Int /\ st.rewards \in Int /\ st.unmirrored \in Int
    BY DEF Caches
  <1>2. \A a \in Addrs : d.obj[a] # NoObj => d.obj[a] \in Object
    BY DEF States, Objs
  <1>3. ASSUME NEW a \in Addrs, Live(a)
        PROVE  /\ d.obj[a].nonce \in Nat /\ d.obj[a].bal \in Int /\ d.obj[a].code \in BOOLEAN
               /\ \A k \in Keys : d.obj[a].dirty[k] # Clean => d.obj[a].dirty[k] \in Values
    BY <1>2, <1>3 DEF Object
  <1>4. \A a \in Addrs : Set(a) => Live(a)
    OBVIOUS
  <1> HIDE DEF Live
  <1>5. acct \in [Addrs -> Account \cup {NoAccount}]
    BY <1>1, <1>3, <1>4 DEF Account
  <1>6. bal \in [Addrs -> Int]
    BY <1>1, <1>3, <1>4
  <1>7. slot \in [Addrs -> [Keys -> Values]]
    BY <1>1, <1>3, <1>4, StateDBAssumption
  <1>8. Written(d, st) = [st EXCEPT !.acct = acct, !.bal = bal, !.slot = slot]
    BY DEF Written, Live
  <1> HIDE DEF acct, bal, slot
  <1> QED BY <1>5, <1>6, <1>7, <1>8 DEF Caches

LEMMA RunMethodTyped ==
    ASSUME NEW caller \in Addrs, NEW m \in MethodsFor(caller), NEW st \in Caches
    PROVE  /\ RunMethod(caller, m, st) \in Caches
           /\ m.who \in Addrs /\ Mirrored(caller, m, st) \in Int
  <1>1. m.who \in Addrs
    BY StateDBAssumption DEF MethodsFor
  <1>2. /\ st.bal \in [Addrs -> Int] /\ st.pool \in Int /\ st.rewards \in Int
        /\ st.unmirrored \in Int
    BY DEF Caches
  <1>3. Withdrawn(m, st) \in Int /\ Paid(m) \in Int
    BY <1>2 DEF Withdrawn, Paid
  <1>4. Mirrored(caller, m, st) \in Int
    BY <1>3 DEF Mirrored
  <1> DEFINE bal == [st.bal EXCEPT ![m.who] = @ + Withdrawn(m, st) - Paid(m)]
             rewards == st.rewards - Withdrawn(m, st)
             pool == st.pool + Paid(m)
             unmirrored == st.unmirrored
                             + IF caller # Origin /\ m.name \in {"delegate", "undelegate"}
                               THEN Withdrawn(m, st) ELSE 0
  <1>5. bal \in [Addrs -> Int] /\ rewards \in Int /\ pool \in Int /\ unmirrored \in Int
    <2> DEFINE amount == st.bal[m.who] + Withdrawn(m, st) - Paid(m)
    <2>1. amount \in Int
      BY <1>1, <1>2, <1>3
    <2>2. bal = [st.bal EXCEPT ![m.who] = amount]
      OBVIOUS
    <2> HIDE DEF amount
    <2>3. bal \in [Addrs -> Int]
      BY <1>1, <1>2, <2>1, <2>2
    <2>4. rewards \in Int /\ pool \in Int
      BY <1>2, <1>3
    <2>5. unmirrored \in Int
      BY <1>2, <1>3
    <2> HIDE DEF bal, rewards, pool, unmirrored
    <2> QED BY <2>3, <2>4, <2>5
  <1>6. RunMethod(caller, m, st)
          = [st EXCEPT !.bal = bal, !.rewards = rewards, !.pool = pool, !.unmirrored = unmirrored]
    BY DEF RunMethod, Caches
  <1> HIDE DEF bal, rewards, pool, unmirrored
  <1>7. RunMethod(caller, m, st) \in Caches
    BY <1>5, <1>6 DEF Caches
  <1> QED BY <1>1, <1>4, <1>7

\* A call of the precompile, whether it fails or not.
LEMMA PrecompileKept ==
    ASSUME StoreOK, NEW d, Kept(d), RefundCovers(d), NEW caller \in Addrs,
           NEW m \in MethodsFor(caller), RunPrecompile(d, caller, m)
    PROVE  Kept(db') /\ RefundCovers(db') /\ Later(d, db')
  <1> DEFINE entered == After(d, EnterCall(d, caller, Precompile, 0))
             set == RunSetup(entered)
             written == Written(entered, CacheOf(entered))
             logged == AddLog(set)
             cache == RunMethod(caller, m, logged.cache)
             ran == MethodRun(caller, m, set)
             gain == Mirrored(caller, m, set.cache)
             mirrored == IF gain = 0 THEN ran ELSE ChangeBalance(ran, m.who, gain)
             journaled == AddJournalEntries(ran, caller, m, entered, set)
  <1>1. \/ db' = journaled
        \/ \E at \in {journaled, entered, set, ran} : db' = RevertTo(at, d.nextRevision)
    <2> HIDE DEF entered
    <2>1. \E x \in {entered} : \E y \in {RunSetup(x)} :
             LET j == AddJournalEntries(MethodRun(caller, m, y), caller, m, x, y)
             IN  \/ db' = j
                 \/ \E at \in {j, x, y, MethodRun(caller, m, y)} :
                       db' = RevertTo(at, d.nextRevision)
      BY DEF RunPrecompile, entered
    <2> QED BY <2>1
  <1>2. Entered(d, entered)
    <2>1. Precompile \in Addrs /\ 0 \in Int
      BY StateDBAssumption
    <2> QED BY <2>1, EnterCallKept
  <1> HIDE DEF entered
  <1>3. Kept(entered) /\ entered \in States /\ CacheOf(entered) \in Caches /\ written \in Caches
    <2>1. Kept(entered) /\ entered \in States
      BY <1>2, KeptIsFine DEF Entered
    <2> QED BY <2>1, CacheOfTyped, WrittenTyped
  <1>4. Goes(entered, set) /\ set.cache = written
    <2>1. set = [entered EXCEPT !.cache = written]
      BY DEF RunSetup
    <2> HIDE DEF written, set
    <2> QED BY <1>3, <2>1, CacheGoes
  <1> HIDE DEF written, set
  <1>5. Kept(set)
    BY <1>4 DEF Goes
  <1>6. Goes(set, logged) /\ logged.cache = written
    BY <1>4, <1>5, AddLogGoes
  <1>7. ran = [logged EXCEPT !.cache = cache]
    <2>1. Kept(logged)
      BY <1>6 DEF Goes
    <2>2. IsRecord(logged)
      BY <2>1, KeptIsFine
    <2> HIDE DEF logged
    <2>3. MethodRun(caller, m, set) = [logged EXCEPT !.cache = RunMethod(caller, m, @)]
      BY DEF MethodRun, logged
    <2> QED BY <2>2, <2>3 DEF IsRecord, Fields
  <1> HIDE DEF logged
  <1>8. cache \in Caches /\ m.who \in Addrs /\ gain \in Int
    BY <1>3, <1>4, <1>6, RunMethodTyped
  <1> HIDE DEF ran
  <1>9. Goes(logged, ran)
    <2>1. Kept(logged)
      BY <1>6 DEF Goes
    <2> HIDE DEF cache
    <2> QED BY <1>7, <1>8, <2>1, CacheGoes
  <1>10. Goes(ran, mirrored)
    <2>1. Kept(ran)
      BY <1>9 DEF Goes
    <2>2. Goes(ran, ran)
      BY <2>1, GoesReflexive
    <2> HIDE DEF gain
    <2>3. Goes(ran, ChangeBalance(ran, m.who, gain))
      BY <1>8, <2>1, ChangeBalanceGoes
    <2> QED BY <2>2, <2>3
  <1>11. Goes(mirrored, journaled)
    <2>1. journaled = [Journal(mirrored, Entry("precompile", Precompile, CacheOf(entered)))
                         EXCEPT !.calls = (@ + 1) % 256]
      BY DEF AddJournalEntries
    <2>2. Kept(mirrored)
      BY <1>10 DEF Goes
    <2> HIDE DEF mirrored, journaled
    <2> QED BY <1>3, <2>1, <2>2, PrecompileEntryGoes
  <1> HIDE DEF gain, mirrored, journaled
  <1>12. Entered(d, set) /\ Entered(d, ran) /\ Entered(d, journaled)
    <2>1. Entered(d, set)
      BY <1>2, <1>4, EnteredLater
    <2>2. Entered(d, logged)
      BY <1>6, <2>1, EnteredLater
    <2>3. Entered(d, ran)
      BY <1>9, <2>2, EnteredLater
    <2>4. Entered(d, mirrored)
      BY <1>10, <2>3, EnteredLater
    <2> QED BY <1>11, <2>1, <2>3, <2>4, EnteredLater
  <1>13. CASE db' = journaled
    BY <1>12, <1>13 DEF Entered
  <1>14. ASSUME NEW at \in {journaled, entered, set, ran}, db' = RevertTo(at, d.nextRevision)
         PROVE  Kept(db') /\ RefundCovers(db') /\ Later(d, db')
    <2>1. Entered(d, at)
      BY <1>2, <1>12
    <2> QED BY <1>14, <2>1, FailKept
  <1> QED BY <1>1, <1>13, <1>14

-----------------------------------------------------------------------------
(* What contracts see of a state that a frame would return to.             *)

\* The snapshot returns to what it does in d.
Reverts(d, e, id) == View(RevertTo(d, id)) = View(RevertTo(e, id))

LEMMA SameView ==
    ASSUME StoreOK, NEW d \in States, NEW e \in States, Same(d, e)
    PROVE  View(d) = View(e)
  <1>1. ASSUME NEW a \in Addrs
        PROVE  LET o == Obj(d, a)
                   p == Obj(e, a)
               IN  /\ o = NoObj <=> p = NoObj
                   /\ o # NoObj => /\ o.nonce = p.nonce /\ o.bal = p.bal
                                   /\ o.code = p.code /\ o.suicided = p.suicided
                   /\ \A k \in Keys : Slot(d, a, k) = Slot(e, a, k)
    <2> DEFINE o == Obj(d, a)
               p == Obj(e, a)
    <2>1. o = Seen(d.obj[a], a) /\ p = Seen(e.obj[a], a)
      BY ObjectSeen
    <2>2. SameObject(d.obj[a], e.obj[a], a)
      BY DEF Same
    <2>3. \A k \in Keys : /\ Slot(d, a, k) = IF o # NoObj THEN SlotSeen(o, a, k) ELSE 0
                          /\ Slot(e, a, k) = IF p # NoObj THEN SlotSeen(p, a, k) ELSE 0
      BY DEF Slot, SlotSeen, Exists
    <2> HIDE DEF o, p
    <2>4. /\ o = NoObj <=> p = NoObj
          /\ o # NoObj => /\ o.nonce = p.nonce /\ o.bal = p.bal
                          /\ o.code = p.code /\ o.suicided = p.suicided
                          /\ \A k \in Keys : SlotSeen(o, a, k) = SlotSeen(p, a, k)
      BY <2>1, <2>2 DEF SameObject
    <2>5. \A k \in Keys : Slot(d, a, k) = Slot(e, a, k)
      BY <2>3, <2>4
    <2> QED BY <2>4, <2>5 DEF o, p
  <1>2. View(d).account = View(e).account
    BY <1>1 DEF View, Exists
  <1>3. View(d).slot = View(e).slot
    BY <1>1 DEF View
  <1>4. /\ d.refund = e.refund /\ d.logs = e.logs /\ d.warm = e.warm /\ d.slots = e.slots
    BY DEF Same
  <1> QED BY <1>2, <1>3, <1>4 DEF View

\* Whatever has been done since, a snapshot of the states before returns to the
\* same.
LEMMA SameReverts ==
    ASSUME StoreOK, NEW d, Kept(d), NEW e, Kept(e), NEW n, NEW r, SameBefore(d, e, n, r),
           NEW p \in 1 .. r, d.revisions[p].index <= n
    PROVE  Reverts(d, e, d.revisions[p].id)
  <1> DEFINE m == d.revisions[p].index
             id == d.revisions[p].id
             h == History(d)[m]
             g == History(e)[m]
             u == RevertTo(d, id)
             v == RevertTo(e, id)
  <1>1. /\ Len(d.revisions) \in Nat /\ Len(e.revisions) \in Nat
        /\ Len(d.journal) \in Nat /\ Len(e.journal) \in Nat
    BY Lengths DEF Kept
  <1>2. /\ n \in 0 .. Len(d.journal) /\ n <= Len(e.journal)
        /\ r \in 0 .. Len(d.revisions) /\ r <= Len(e.revisions)
        /\ e.revisions[p] = d.revisions[p]
    BY DEF SameBefore
  <1>3. p \in 1 .. Len(d.revisions) /\ p \in 1 .. Len(e.revisions)
    BY <1>1, <1>2
  <1>4. m \in Nat /\ m \in 0 .. n /\ m \in 0 .. Len(d.journal) /\ m \in 0 .. Len(e.journal)
    <2>1. m \in Nat
      BY <1>3, Lengths DEF Kept
    <2> QED BY <1>1, <1>2, <2>1
  <1>5. Same(h, g) /\ h \in States /\ g \in States
    BY <1>4 DEF SameBefore, Kept
  <1>6. Kept(u) /\ Same(h, u)
    BY <1>3, RevertKept
  <1>7. Kept(v) /\ Same(g, v)
    BY <1>2, <1>3, RevertKept
  <1> HIDE DEF h, g, u, v
  <1>8. u \in States /\ v \in States
    BY <1>6, <1>7 DEF Kept
  <1>9. View(h) = View(g) /\ View(h) = View(u) /\ View(g) = View(v)
    BY <1>5, <1>6, <1>7, <1>8, SameView
  <1> QED BY <1>9 DEF Reverts, u, v

\* What a step does to the state and the frames: all is kept, and the frames
\* that stay open would return to what they would have returned to.
Moves(d, fs, e, gs) ==
    /\ Kept(e) /\ RefundCovers(e) /\ FramesOK(e, gs)
    /\ \A i \in 1 .. Len(gs) :
          i <= Len(fs) => gs[i] = fs[i] /\ Reverts(d, e, fs[i].revision)

LEMMA LaterReverts ==
    ASSUME StoreOK, NEW d, Kept(d), NEW e, Kept(e), Later(d, e), NEW fs, FramesOK(d, fs),
           NEW i \in 1 .. Len(fs)
    PROVE  Reverts(d, e, fs[i].revision)
  <1>1. PICK p \in 1 .. Len(d.revisions) : d.revisions[p].id = fs[i].revision
    BY DEF FramesOK
  <1>2. d.revisions[p].index <= Len(d.journal)
    BY DEF Kept
  <1>3. SameBefore(d, e, Len(d.journal), Len(d.revisions))
    BY DEF Later
  <1>4. Reverts(d, e, d.revisions[p].id)
    BY <1>2, <1>3, SameReverts
  <1> QED BY <1>1, <1>4

\* An operation within the innermost frame.
LEMMA WorkMoves ==
    ASSUME StoreOK, NEW d, Kept(d), NEW fs, FramesOK(d, fs),
           NEW e, Kept(e), RefundCovers(e), Later(d, e)
    PROVE  Moves(d, fs, e, fs)
  <1>1. FramesOK(e, fs)
    BY FramesLater
  <1>2. \A i \in 1 .. Len(fs) : Reverts(d, e, fs[i].revision)
    BY LaterReverts
  <1> QED BY <1>1, <1>2 DEF Moves

\* A frame is entered.
LEMMA EnterMoves ==
    ASSUME StoreOK, NEW d, Kept(d), RefundCovers(d), NEW fs, FramesOK(d, fs),
           NEW a \in Addrs, NEW kind \in {"call", "create"}, NEW e, FrameEntered(d, e, a)
    PROVE  Moves(d, fs, e, Append(fs, Frame(a, kind, d)))
  <1> DEFINE gs == Append(fs, Frame(a, kind, d))
  <1>1. Kept(e) /\ RefundCovers(e) /\ FramesOK(e, gs)
    BY FramesEnter
  <1>2. Later(d, e)
    <2>1. PICK b : Goes(d, b) /\ Entered(b, e)
      BY DEF FrameEntered
    <2> QED BY <2>1, LaterTransitive DEF Goes, Entered
  <1>3. fs \in Seq(FrameType)
    BY DEF FramesOK
  <1>4. Len(gs) = Len(fs) + 1 /\ Len(fs) \in Nat /\ \A i \in 1 .. Len(fs) : gs[i] = fs[i]
    BY <1>3
  <1> HIDE DEF gs
  <1>5. ASSUME NEW i \in 1 .. Len(gs), i <= Len(fs)
        PROVE  gs[i] = fs[i] /\ Reverts(d, e, fs[i].revision)
    <2>1. i \in 1 .. Len(fs)
      BY <1>4, <1>5
    <2> QED BY <1>1, <1>2, <1>4, <2>1, LaterReverts
  <1>6. Moves(d, fs, e, gs)
    BY <1>1, <1>5 DEF Moves
  <1> QED BY <1>6 DEF gs

\* The innermost frame is left.
LEMMA LeaveMoves ==
    ASSUME StoreOK, NEW d, Kept(d), NEW fs, FramesOK(d, fs), fs # << >>,
           NEW e, Kept(e), RefundCovers(e), Later(d, e)
    PROVE  Moves(d, fs, e, Front(fs))
  <1>1. FramesOK(e, fs) /\ \A i \in 1 .. Len(fs) : Reverts(d, e, fs[i].revision)
    BY FramesLater, LaterReverts
  <1>2. /\ FramesOK(e, Front(fs)) /\ Len(Front(fs)) = Len(fs) - 1
        /\ \A i \in 1 .. Len(fs) - 1 : Front(fs)[i] = fs[i]
    BY <1>1, FramesFront
  <1>3. \A i \in 1 .. Len(fs) - 1 : i \in 1 .. Len(fs)
    <2>1. fs \in Seq(FrameType)
      BY DEF FramesOK
    <2>2. Len(fs) \in Nat
      BY <2>1
    <2> QED BY <2>2
  <1> QED BY <1>1, <1>2, <1>3 DEF Moves

\* It fails.
LEMMA FailMoves ==
    ASSUME StoreOK, NEW d, Kept(d), NEW fs, FramesOK(d, fs), fs # << >>,
           NEW e, e = RevertTo(d, fs[Len(fs)].revision), NEW f, Goes(e, f)
    PROVE  Moves(d, fs, f, Front(fs))
  <1> DEFINE l == Len(fs)
             gs == Front(fs)
  <1>1. /\ l \in 1 .. l /\ Len(gs) = l - 1 /\ \A i \in 1 .. l - 1 : gs[i] = fs[i]
    BY FramesFront
  <1>2. Kept(e) /\ RefundCovers(e) /\ FramesOK(e, gs)
    BY <1>1, FramesRevert
  <1> HIDE DEF gs
  <1>3. Kept(f) /\ RefundCovers(f) /\ Later(e, f) /\ FramesOK(f, gs)
    BY <1>2, FramesLater DEF Goes
  <1>4. PICK p \in 1 .. Len(d.revisions) : d.revisions[p].id = fs[l].revision
    BY <1>1 DEF FramesOK
  <1> DEFINE n == d.revisions[p].index
  <1>5. SameBefore(d, e, n, p - 1)
    BY <1>4, RevertKept
  <1>6. ASSUME NEW i \in 1 .. l - 1
        PROVE  gs[i] = fs[i] /\ Reverts(d, f, fs[i].revision)
    <2>1. i \in 1 .. l /\ i < l
      BY <1>1
    <2>2. PICK q \in 1 .. Len(d.revisions) : d.revisions[q].id = fs[i].revision
      BY <2>1 DEF FramesOK
    <2>3. d.revisions[q].id < d.revisions[p].id
      BY <1>1, <1>4, <2>1, <2>2 DEF FramesOK
    <2>4. /\ Len(d.revisions) \in Nat /\ d.revisions[q].index \in Nat /\ n \in Nat
          /\ d.revisions[q].id \in Nat /\ d.revisions[p].id \in Nat
      BY Lengths DEF Kept
    <2>5. q < p /\ d.revisions[q].index <= n
      <3>1. ~(p < q)
        BY <2>3, <2>4 DEF Kept
      <3>2. q < p
        BY <2>3, <2>4, <3>1
      <3> QED BY <3>2 DEF Kept
    <2>6. q \in 1 .. p - 1
      BY <2>4, <2>5
    <2>7. Reverts(d, e, fs[i].revision)
      BY <1>2, <1>5, <2>2, <2>5, <2>6, SameReverts
    <2>8. gs[i] = fs[i]
      BY <1>1
    <2>9. Reverts(e, f, fs[i].revision)
      <3>1. i \in 1 .. Len(gs)
        BY <1>1
      <3> QED BY <1>2, <1>3, <2>8, <3>1, LaterReverts
    <2> QED BY <2>7, <2>8, <2>9 DEF Reverts
  <1>7. \A i \in 1 .. Len(gs) : i \in 1 .. l - 1
    BY <1>1
  <1> QED BY <1>3, <1>6, <1>7 DEF Moves, gs

-----------------------------------------------------------------------------
(* The specification.                                                      *)

\* Until Commit the StateDB and its frames are in order; after it there is no
\* frame, and the StateDB is as it was committed.
Inv ==
    /\ phase \in {"start", "run", "end", "done"}
    /\ phase # "done" =>
          store \in GenesisStores /\ Kept(db) /\ RefundCovers(db) /\ FramesOK(db, frames)
    /\ phase = "start" => db = New
    /\ phase # "run" => frames = << >>
    /\ phase = "done" => Fine(db)

LEMMA GenesisOK ==
    ASSUME store \in GenesisStores
    PROVE  /\ StoreOK
           /\ store.acct[Origin] \in Account /\ store.acct[Origin].nonce \in Nat
           /\ store.acct[Origin].nonce - 1 \in Nat
  <1>1. store \in Store /\ Origin \in Addrs
    BY StateDBAssumption
  <1>2. store.acct[Origin] # NoAccount /\ store.acct[Origin].nonce > 0
    BY StateDBAssumption
  <1>3. store.acct[Origin] \in Account
    BY <1>1, <1>2 DEF Store
  <1>4. store.acct[Origin].nonce \in Nat
    BY <1>3 DEF Account
  <1>5. StoreOK
    BY <1>1, StateDBAssumption DEF StoreOK
  <1> QED BY <1>2, <1>3, <1>4, <1>5

LEMMA NoFramesOK == ASSUME NEW d PROVE FramesOK(d, << >>)
  <1>1. << >> \in Seq(FrameType) /\ \A i \in 1 .. Len(<< >>) : FALSE
    OBVIOUS
  <1> QED BY <1>1 DEF FramesOK

\* What is in order in the next state, from what a step does.
LEMMA NextOrder ==
    ASSUME UNCHANGED store, Kept(db'), RefundCovers(db'), FramesOK(db', frames')
    PROVE  Kept(db)' /\ RefundCovers(db)' /\ FramesOK(db, frames)'
  <1>1. Emptied(db)' = Emptied(db')
    BY DEF Emptied
  <1>2. RefundCovers(db)'
    BY <1>1 DEF RefundCovers
  <1>3. Kept(db)'
    BY DEF Kept, RefundCovers, Emptied
  <1>4. FramesOK(db, frames)'
    BY DEF FramesOK
  <1> QED BY <1>2, <1>3, <1>4

LEMMA InvFromMoves ==
    ASSUME phase # "done", UNCHANGED store, phase' \in {"run", "end"},
           Moves(db, frames, db', frames'), phase' = "end" => frames' = << >>, Inv
    PROVE  Inv'
  <1>1. Kept(db)' /\ RefundCovers(db)' /\ FramesOK(db, frames)'
    BY NextOrder DEF Moves
  <1> QED BY <1>1 DEF Inv

LEMMA InitInv == ASSUME Init PROVE Inv
  <1>1. store \in GenesisStores /\ phase = "start" /\ db = New /\ frames = << >>
    BY DEF Init
  <1>2. Kept(New) /\ RefundCovers(New)
    BY <1>1, GenesisOK, NewKept
  <1>3. FramesOK(New, << >>)
    BY NoFramesOK
  <1> HIDE DEF New
  <1> QED BY <1>1, <1>2, <1>3 DEF Inv

\* What every step but Commit does.
Proceeds ==
    /\ UNCHANGED store
    /\ phase # "done" /\ phase' \in {"run", "end"}
    /\ Moves(db, frames, db', frames')
    /\ phase' = "end" => frames' = << >>

LEMMA RunningOK ==
    ASSUME Inv, Running
    PROVE  /\ store \in GenesisStores /\ StoreOK
           /\ Kept(db) /\ RefundCovers(db) /\ FramesOK(db, frames)
           /\ frames # << >> /\ frames \in Seq(FrameType) /\ Len(frames) \in 1 .. Len(frames)
           /\ Last(frames) = frames[Len(frames)]
           /\ Self \in Addrs /\ db.warm[Self] # Absent /\ phase = "run"
  <1>1. phase = "run" /\ frames # << >>
    BY DEF Running
  <1>2. store \in GenesisStores /\ Kept(db) /\ RefundCovers(db) /\ FramesOK(db, frames)
    BY <1>1 DEF Inv
  <1>3. Last(frames) = frames[Len(frames)]
    BY DEF Last
  <1>4. /\ frames \in Seq(FrameType) /\ Len(frames) \in 1 .. Len(frames) /\ Last(frames) \in FrameType
    <2>1. Len(frames) \in 1 .. Len(frames) /\ Last(frames) \in FrameType
      BY <1>1, <1>2, FramesFront
    <2>2. frames \in Seq(FrameType)
      BY <1>2 DEF FramesOK
    <2> QED BY <2>1, <2>2
  <1>5. Self \in Addrs
    BY <1>4 DEF Self, FrameType
  <1>6. db.warm[Self] # Absent
    BY <1>2, <1>3, <1>4 DEF Self, FramesOK
  <1> QED BY <1>1, <1>2, <1>3, <1>4, <1>5, <1>6, GenesisOK

LEMMA StartOK ==
    ASSUME Inv, phase = "start"
    PROVE  /\ store \in GenesisStores /\ StoreOK
           /\ db = New /\ frames = << >> /\ Kept(New) /\ RefundCovers(New)
           /\ FramesOK(New, << >>) /\ Origin \in Addrs /\ Precompile \in Addrs
  <1>1. store \in GenesisStores /\ db = New /\ frames = << >> /\ Kept(db) /\ RefundCovers(db)
    BY DEF Inv
  <1> HIDE DEF New
  <1> QED BY <1>1, GenesisOK, NoFramesOK, StateDBAssumption

\* The access list of a message.
LEMMA PreparedGoes ==
    ASSUME StoreOK, NEW a \in Addrs
    PROVE  /\ Goes(New, Prepared(a)) /\ Prepared(a).cache = New.cache
           /\ Prepared(a).warm[a] # Absent
  <1> DEFINE s == <<Warm(Origin), Warm(a), Warm(Precompile)>>
  <1>1. Kept(New)
    BY NewKept
  <1>2. Origin \in Addrs /\ Precompile \in Addrs
    BY StateDBAssumption
  <1>3. s \in Seq(PlainCalls)
    <2>1. Warm(Origin) \in PlainCalls /\ Warm(a) \in PlainCalls /\ Warm(Precompile) \in PlainCalls
      BY <1>2, WarmTyped
    <2> QED BY <2>1
  <1>4. Len(s) = 3 /\ s[2] = Warm(a) /\ Warm(a).name = "Warm" /\ Warm(a).addr = a
    <2>1. Warm(a).name = "Warm" /\ Warm(a).addr = a
      BY WarmTyped
    <2>2. Len(s) = 3 /\ s[2] = Warm(a)
      OBVIOUS
    <2> QED BY <2>1, <2>2
  <1>5. Prepared(a) = After(New, s)
    BY DEF Prepared
  <1> HIDE DEF s
  <1>6. /\ Goes(New, After(New, s)) /\ After(New, s).cache = New.cache
        /\ \A j \in 1 .. Len(s) : s[j].name = "Warm" => After(New, s).warm[s[j].addr] # Absent
    BY <1>1, <1>3, CallsGo
  <1>7. 2 \in 1 .. Len(s)
    BY <1>4
  <1>8. After(New, s).warm[a] # Absent
    BY <1>4, <1>6, <1>7
  <1> QED BY <1>5, <1>6, <1>8

LEMMA StartCallProceeds ==
    ASSUME Inv, NEW a \in Targets, NEW value \in {0, 1}, StartCall(a, value)
    PROVE  Proceeds
  <1> DEFINE c == Prepared(a)
             e == After(c, EnterCall(New, Origin, a, value))
             gs == <<Frame(a, "call", New)>>
  <1>1. phase = "start" /\ db' = e /\ frames' = gs /\ phase' = "run" /\ UNCHANGED store
    BY DEF StartCall
  <1>2. /\ StoreOK /\ db = New /\ frames = << >> /\ Kept(New) /\ RefundCovers(New)
        /\ FramesOK(New, << >>) /\ Origin \in Addrs
    BY <1>1, StartOK
  <1>3. a \in Addrs /\ value \in Int
    BY StateDBAssumption
  <1>4. Goes(New, c) /\ c.cache = New.cache /\ c.warm[a] # Absent
    BY <1>2, <1>3, PreparedGoes
  <1> HIDE DEF c
  <1>5. Kept(c) /\ RefundCovers(c)
    BY <1>2, <1>4 DEF Goes
  <1>6. Entered(c, e) /\ e.cache = c.cache
    BY <1>2, <1>3, <1>5, EnterCallKept
  <1> HIDE DEF e
  <1>7. FrameEntered(New, e, a)
    BY <1>4, <1>6 DEF FrameEntered
  <1>8. Moves(New, << >>, e, Append(<< >>, Frame(a, "call", New)))
    BY <1>2, <1>3, <1>7, EnterMoves
  <1>9. Append(<< >>, Frame(a, "call", New)) = gs
    OBVIOUS
  <1> HIDE DEF gs
  <1> QED BY <1>1, <1>2, <1>8, <1>9 DEF Proceeds

LEMMA StartCreateProceeds ==
    ASSUME Inv, NEW value \in {0, 1}, StartCreate(value)
    PROVE  Proceeds
  <1> DEFINE n == store.acct[Origin].nonce - 1
             a == Children[<<Origin, n>>]
             c == Prepared(Origin)
             x == <<Op("SetNonce", Origin, n)>>
             y == EnterCreate(Origin, n, a, value)
             b == After(c, x)
             e == After(b, y)
             gs == <<Frame(a, "create", New)>>
  <1>1. /\ phase = "start" /\ <<Origin, n>> \in DOMAIN Children
        /\ db' = After(c, x \o y) /\ frames' = gs /\ phase' = "run" /\ UNCHANGED store
    BY DEF StartCreate
  <1>2. /\ StoreOK /\ db = New /\ frames = << >> /\ Kept(New) /\ RefundCovers(New)
        /\ FramesOK(New, << >>) /\ Origin \in Addrs /\ n \in Nat
    BY <1>1, StartOK, GenesisOK
  <1>3. a \in Addrs /\ value \in Int
    BY <1>1, StateDBAssumption
  <1>4. Goes(New, c) /\ c.cache = New.cache
    BY <1>2, PreparedGoes
  <1> HIDE DEF c, n
  <1>5. Kept(c) /\ RefundCovers(c)
    BY <1>2, <1>4 DEF Goes
  <1>6. x \in Seq(PlainCalls)
    <2>1. Op("SetNonce", Origin, n) \in PlainCalls
      BY <1>2 DEF Op, PlainCalls
    <2> QED BY <2>1
  <1> HIDE DEF x, a
  <1>7. Goes(c, b) /\ b.cache = c.cache
    BY <1>2, <1>5, <1>6, CallsGo
  <1>8. y \in Seq(FrameCalls)
    BY <1>2, <1>3, <1>5, CreateFrameEntered
  <1>9. db' = e
    <2> HIDE DEF y
    <2>1. x \in Seq(FrameCalls)
      BY <1>6, PlainAreFrameCalls
    <2>2. After(c, x \o y) = After(After(c, x), y)
      BY <1>8, <2>1, AfterFrameCalls
    <2> QED BY <1>1, <2>2
  <1> HIDE DEF b
  <1>10. Goes(New, b) /\ Kept(b) /\ RefundCovers(b) /\ b.cache = New.cache
    <2>1. Goes(New, b)
      BY <1>2, <1>4, <1>7, GoesTransitive
    <2> QED BY <1>2, <1>4, <1>7, <2>1 DEF Goes
  <1>11. FrameEntered(b, e, a)
    BY <1>2, <1>3, <1>10, CreateFrameEntered
  <1> HIDE DEF e
  <1>12. FrameEntered(New, e, a)
    BY <1>2, <1>10, <1>11, FrameEnteredFrom
  <1>13. Moves(New, << >>, e, Append(<< >>, Frame(a, "create", New)))
    BY <1>2, <1>3, <1>12, EnterMoves
  <1>14. Append(<< >>, Frame(a, "create", New)) = gs
    OBVIOUS
  <1> HIDE DEF gs
  <1> QED BY <1>1, <1>2, <1>9, <1>13, <1>14 DEF Proceeds

LEMMA StartPrecompileProceeds ==
    ASSUME Inv, NEW m \in MethodsFor(Origin), StartPrecompile(m)
    PROVE  Proceeds
  <1> DEFINE c == Prepared(Precompile)
  <1>1. /\ phase = "start" /\ RunPrecompile(c, Origin, m) /\ phase' = "end"
        /\ UNCHANGED <<store, frames>>
    BY DEF StartPrecompile
  <1>2. /\ StoreOK /\ db = New /\ frames = << >> /\ Kept(New) /\ RefundCovers(New)
        /\ FramesOK(New, << >>) /\ Origin \in Addrs /\ Precompile \in Addrs
    BY <1>1, StartOK
  <1>3. Goes(New, c)
    BY <1>2, PreparedGoes
  <1> HIDE DEF c
  <1>4. Kept(c) /\ RefundCovers(c)
    BY <1>2, <1>3 DEF Goes
  <1>5. Kept(db') /\ RefundCovers(db') /\ Later(c, db')
    BY <1>1, <1>2, <1>4, PrecompileKept
  <1>6. Later(New, db')
    BY <1>2, <1>3, <1>4, <1>5, LaterTransitive DEF Goes
  <1>7. Moves(New, << >>, db', << >>)
    BY <1>2, <1>5, <1>6, WorkMoves
  <1> QED BY <1>1, <1>2, <1>7 DEF Proceeds

\* The operations within a frame.
LEMMA WorkProceeds ==
    ASSUME Inv, Running, Kept(db'), RefundCovers(db'), Later(db, db'),
           UNCHANGED <<phase, store, frames>>
    PROVE  Proceeds
  <1>1. /\ StoreOK /\ Kept(db) /\ FramesOK(db, frames) /\ phase = "run"
    BY RunningOK
  <1>2. Moves(db, frames, db', frames)
    BY <1>1, WorkMoves
  <1> QED BY <1>1, <1>2 DEF Proceeds

LEMMA SstoreProceeds ==
    ASSUME Inv, NEW k \in Keys, NEW v \in Values, Sstore(k, v)
    PROVE  Proceeds
  <1> DEFINE s == Refunds(store.slot[Self][k], Slot(db, Self, k), v)
             e == After(db, SstoreCalls(Self, k, v, s))
  <1>1. Running /\ db' = e /\ UNCHANGED <<phase, store, frames>>
    BY DEF Sstore, CanWork, WorkOn, SstoreCalls
  <1>2. /\ StoreOK /\ Kept(db) /\ RefundCovers(db) /\ Self \in Addrs /\ db.warm[Self] # Absent
    BY <1>1, RunningOK
  <1>3. Kept(e) /\ RefundCovers(e) /\ Later(db, e)
    BY <1>2, SstoreKept
  <1> HIDE DEF e
  <1> QED BY <1>1, <1>3, WorkProceeds

LEMMA GoesProceeds ==
    ASSUME Inv, Running, Goes(db, db'), UNCHANGED <<phase, store, frames>>
    PROVE  Proceeds
  <1>1. RefundCovers(db)
    BY RunningOK
  <1> QED BY <1>1, WorkProceeds DEF Goes

LEMMA LogProceeds == ASSUME Inv, Log PROVE Proceeds
  <1>1. Running /\ db' = AddLog(db) /\ UNCHANGED <<phase, store, frames>>
    BY DEF Log, CanWork, WorkOn
  <1>2. Kept(db)
    BY <1>1, RunningOK
  <1>3. Goes(db, db')
    BY <1>1, <1>2, AddLogGoes
  <1> QED BY <1>1, <1>3, GoesProceeds

LEMMA CallProceeds ==
    ASSUME Inv, NEW a \in Targets, NEW value \in {0, 1}, Call(a, value)
    PROVE  Proceeds
  <1> DEFINE w == <<Warm(a)>>
             s == EnterCall(db, Self, a, value)
             e == After(db, w \o s)
             f == After(db, w \o <<TakeSnapshot>>)
  <1>1. /\ Running /\ UNCHANGED <<phase, store>>
        /\ \/ db' = e /\ frames' = Append(frames, Frame(a, "call", db))
           \/ (db' = e \/ db' = f) /\ UNCHANGED frames
    BY DEF Call, CanWork, WorkOn
  <1>2. /\ StoreOK /\ Kept(db) /\ RefundCovers(db) /\ FramesOK(db, frames)
        /\ Self \in Addrs /\ phase = "run"
    BY <1>1, RunningOK
  <1>3. a \in Addrs /\ value \in Int
    BY StateDBAssumption
  <1>4. FrameEntered(db, e, a)
    BY <1>2, <1>3, CallFrameEntered
  <1>5. Kept(e) /\ RefundCovers(e) /\ Later(db, e)
    <2> HIDE DEF e
    <2>1. PICK b : Goes(db, b) /\ Entered(b, e)
      BY <1>4 DEF FrameEntered
    <2> QED BY <1>2, <2>1, LaterTransitive DEF Goes, Entered
  <1>6. Kept(f) /\ RefundCovers(f) /\ Later(db, f)
    <2> DEFINE b == After(db, w)
               t == <<TakeSnapshot>>
               g == After(b, t)
    <2>1. w \in Seq(PlainCalls)
      <3>1. Warm(a) \in PlainCalls
        BY <1>3, WarmTyped
      <3> QED BY <3>1
    <2> HIDE DEF w
    <2>2. Goes(db, b)
      BY <1>2, <2>1, CallsGo
    <2>3. t \in Seq(FrameCalls) /\ w \in Seq(FrameCalls)
      BY <2>1, PlainAreFrameCalls
    <2>4. f = g
      <3> HIDE DEF t
      <3>1. After(db, w \o t) = After(After(db, w), t)
        BY <2>3, AfterFrameCalls
      <3> QED BY <3>1 DEF t
    <2> HIDE DEF b
    <2>5. Entered(b, g)
      <3>1. << >> \in Seq(PlainCalls)
        OBVIOUS
      <3>2. Kept(b) /\ RefundCovers(b)
        BY <1>2, <2>2 DEF Goes
      <3>3. Entered(b, After(b, t \o << >>))
        BY <1>2, <3>1, <3>2, EnterKept
      <3>4. t \o << >> = t
        OBVIOUS
      <3> HIDE DEF t
      <3> QED BY <3>3, <3>4
    <2> HIDE DEF g, f
    <2> QED BY <1>2, <2>2, <2>4, <2>5, LaterTransitive DEF Goes, Entered
  <1> HIDE DEF e, f
  <1>7. CASE db' = e /\ frames' = Append(frames, Frame(a, "call", db))
    <2>1. Moves(db, frames, e, Append(frames, Frame(a, "call", db)))
      BY <1>2, <1>3, <1>4, EnterMoves
    <2> QED BY <1>1, <1>2, <1>7, <2>1 DEF Proceeds
  <1>8. CASE (db' = e \/ db' = f) /\ UNCHANGED frames
    <2>1. Kept(db') /\ RefundCovers(db') /\ Later(db, db')
      BY <1>5, <1>6, <1>8
    <2> QED BY <1>1, <1>8, <2>1, WorkProceeds
  <1> QED BY <1>1, <1>7, <1>8

LEMMA CreateProceeds ==
    ASSUME Inv, NEW value \in {0, 1}, Create(value)
    PROVE  Proceeds
  <1> DEFINE n == Obj(db, Self).nonce
             a == Children[<<Self, n>>]
             e == After(db, EnterCreate(Self, n, a, value))
             gs == Append(frames, Frame(a, "create", db))
  <1>1. /\ Running /\ UNCHANGED <<phase, store>> /\ <<Self, n>> \in DOMAIN Children
        /\ db' = e /\ frames' = gs
    BY DEF Create, CanWork
  <1>2. /\ StoreOK /\ Kept(db) /\ RefundCovers(db) /\ FramesOK(db, frames)
        /\ Self \in Addrs /\ phase = "run"
    BY <1>1, RunningOK
  <1>3. a \in Addrs /\ n \in Nat /\ value \in Int
    <2> HIDE DEF n
    <2>1. <<Self, n>> \in Addrs \X Nat /\ a \in Addrs
      BY <1>1, StateDBAssumption
    <2> QED BY <2>1
  <1> HIDE DEF n, a
  <1>4. FrameEntered(db, e, a)
    BY <1>2, <1>3, CreateFrameEntered
  <1> HIDE DEF e
  <1>5. Moves(db, frames, e, gs)
    BY <1>2, <1>3, <1>4, EnterMoves
  <1> HIDE DEF gs
  <1> QED BY <1>1, <1>2, <1>5 DEF Proceeds

LEMMA CallPrecompileProceeds ==
    ASSUME Inv, NEW m \in MethodsFor(Self), CallPrecompile(m)
    PROVE  Proceeds
  <1> DEFINE c == AddAddressToAccessList(db, Precompile)
  <1>1. Running /\ RunPrecompile(c, Self, m) /\ UNCHANGED <<phase, store, frames>>
    BY DEF CallPrecompile, CanWork
  <1>2. StoreOK /\ Kept(db) /\ RefundCovers(db) /\ Self \in Addrs
    BY <1>1, RunningOK
  <1>3. Goes(db, c)
    BY <1>2, StateDBAssumption, WarmGoes
  <1> HIDE DEF c
  <1>4. Kept(c) /\ RefundCovers(c)
    BY <1>2, <1>3 DEF Goes
  <1>5. Kept(db') /\ RefundCovers(db') /\ Later(c, db')
    BY <1>1, <1>2, <1>4, PrecompileKept
  <1>6. Later(db, db')
    BY <1>2, <1>3, <1>4, <1>5, LaterTransitive DEF Goes
  <1> QED BY <1>1, <1>5, <1>6, WorkProceeds

\* The end of a frame.
LEMMA LeaveGoes ==
    ASSUME Inv, Running, NEW d, Kept(d), NEW how, Leave(d, how)
    PROVE  /\ Goes(d, db') /\ UNCHANGED store /\ phase' \in {"run", "end"}
           /\ frames' = Front(frames)
           /\ phase' = "end" => frames' = << >>
  <1> DEFINE n == store.acct[Origin].nonce
             over == Len(frames) = 1
             e == SetNonce(d, Origin, n)
  <1>1. /\ db' = IF over /\ Last(frames).kind = "create" THEN e ELSE d
        /\ frames' = Front(frames) /\ UNCHANGED store
        /\ phase' = IF over THEN "end" ELSE "run"
    BY DEF Leave
  <1>2. StoreOK /\ n \in Nat /\ Origin \in Addrs /\ FramesOK(db, frames) /\ frames # << >>
    BY RunningOK, GenesisOK, StateDBAssumption
  <1> HIDE DEF n
  <1>3. Goes(d, e) /\ Goes(d, d)
    BY <1>2, SetNonceGoes, GoesReflexive
  <1> HIDE DEF e
  <1>4. over => Front(frames) = << >>
    <2>1. FramesOK(db, Front(frames)) /\ Len(Front(frames)) = Len(frames) - 1
      BY <1>2, FramesFront
    <2> DEFINE gs == Front(frames)
    <2>2. gs \in Seq(FrameType)
      BY <2>1 DEF FramesOK
    <2>3. over => Len(gs) = 0
      BY <2>1
    <2> HIDE DEF gs
    <2>4. over => gs = << >>
      BY <2>2, <2>3
    <2> QED BY <2>4 DEF gs
  <1> QED BY <1>1, <1>3, <1>4

LEMMA ReturnProceeds == ASSUME Inv, Return PROVE Proceeds
  <1> DEFINE d == IF Last(frames).kind = "create" THEN SetCode(db, Self) ELSE db
  <1>1. Running /\ Leave(d, "ok")
    BY DEF Return
  <1>2. /\ StoreOK /\ Kept(db) /\ RefundCovers(db) /\ FramesOK(db, frames)
        /\ frames # << >> /\ Self \in Addrs /\ phase = "run"
    BY <1>1, RunningOK
  <1>3. Goes(db, d)
    BY <1>2, SetCodeGoes, GoesReflexive
  <1> HIDE DEF d
  <1>4. Kept(d)
    BY <1>3 DEF Goes
  <1>5. /\ Goes(d, db') /\ UNCHANGED store /\ phase' \in {"run", "end"}
        /\ frames' = Front(frames) /\ (phase' = "end" => frames' = << >>)
    BY <1>1, <1>4, LeaveGoes
  <1>6. Goes(db, db')
    BY <1>2, <1>3, <1>5, GoesTransitive
  <1>7. Moves(db, frames, db', Front(frames))
    BY <1>2, <1>6, LeaveMoves DEF Goes
  <1> QED BY <1>2, <1>5, <1>7 DEF Proceeds

LEMMA FailProceeds == ASSUME Inv, Fail PROVE Proceeds
  <1> DEFINE d == RevertTo(db, Last(frames).revision)
  <1>1. Running /\ Leave(d, "failed")
    BY DEF Fail
  <1>2. /\ StoreOK /\ Kept(db) /\ FramesOK(db, frames) /\ frames # << >>
        /\ Len(frames) \in 1 .. Len(frames) /\ Last(frames) = frames[Len(frames)]
        /\ phase = "run"
    BY <1>1, RunningOK
  <1>3. d = RevertTo(db, frames[Len(frames)].revision)
    BY <1>2
  <1>4. Kept(d)
    <2> HIDE DEF d
    <2> QED BY <1>2, <1>3, FramesRevert
  <1> HIDE DEF d
  <1>5. /\ Goes(d, db') /\ UNCHANGED store /\ phase' \in {"run", "end"}
        /\ frames' = Front(frames) /\ (phase' = "end" => frames' = << >>)
    BY <1>1, <1>4, LeaveGoes
  <1>6. Moves(db, frames, db', Front(frames))
    BY <1>2, <1>3, <1>5, FailMoves
  <1> QED BY <1>2, <1>5, <1>6 DEF Proceeds

LEMMA SelfDestructProceeds ==
    ASSUME Inv, NEW a \in Targets, SelfDestruct(a)
    PROVE  Proceeds
  <1> DEFINE c2 == Op("ChangeBalance", a, Balance(db, Self))
             c3 == Op("Suicide", Self, 0)
             s == <<Warm(a), c2, c3>>
             d == After(db, s)
  <1>1. Running /\ Leave(d, "ok")
    BY DEF SelfDestruct, CanWork
  <1>2. /\ StoreOK /\ Kept(db) /\ RefundCovers(db) /\ FramesOK(db, frames)
        /\ frames # << >> /\ Self \in Addrs /\ phase = "run"
    BY <1>1, RunningOK
  <1>3. a \in Addrs /\ Balance(db, Self) \in Int
    <2>1. db \in States
      BY <1>2, KeptIsFine
    <2>2. Exists(db, Self) => Obj(db, Self) \in Object
      BY <1>2, <2>1, ObjectSeen DEF Exists
    <2> QED BY <2>2, StateDBAssumption DEF Balance, Object
  <1>4. s \in Seq(PlainCalls)
    <2>1. c2 \in PlainCalls /\ c3 \in PlainCalls
      BY <1>2, <1>3 DEF Op, PlainCalls
    <2>2. Warm(a) \in PlainCalls
      BY <1>3, WarmTyped
    <2> HIDE DEF c2, c3
    <2> QED BY <2>1, <2>2
  <1> HIDE DEF s
  <1>5. Goes(db, d)
    BY <1>2, <1>4, CallsGo
  <1> HIDE DEF d
  <1>6. Kept(d)
    BY <1>5 DEF Goes
  <1>7. /\ Goes(d, db') /\ UNCHANGED store /\ phase' \in {"run", "end"}
        /\ frames' = Front(frames) /\ (phase' = "end" => frames' = << >>)
    BY <1>1, <1>6, LeaveGoes
  <1>8. Goes(db, db')
    BY <1>2, <1>5, <1>7, GoesTransitive
  <1>9. Moves(db, frames, db', Front(frames))
    BY <1>2, <1>8, LeaveMoves DEF Goes
  <1> QED BY <1>2, <1>7, <1>9 DEF Proceeds

\* Every step but Commit proceeds, and Commit leaves the StateDB as it is.
LEMMA StepProceeds ==
    ASSUME Inv, Step
    PROVE  Proceeds \/ Commit
  <1>1. CASE \E a \in Targets, value \in {0, 1} : StartCall(a, value)
    BY <1>1, StartCallProceeds
  <1>2. CASE \E value \in {0, 1} : StartCreate(value)
    BY <1>2, StartCreateProceeds
  <1>3. CASE \E m \in MethodsFor(Origin) : StartPrecompile(m)
    BY <1>3, StartPrecompileProceeds
  <1>4. CASE \E k \in Keys, v \in Values : Sstore(k, v)
    BY <1>4, SstoreProceeds
  <1>5. CASE Log
    BY <1>5, LogProceeds
  <1>6. CASE \E a \in Targets, value \in {0, 1} : Call(a, value)
    BY <1>6, CallProceeds
  <1>7. CASE \E value \in {0, 1} : Create(value)
    BY <1>7, CreateProceeds
  <1>8. CASE Running /\ \E m \in MethodsFor(Self) : CallPrecompile(m)
    BY <1>8, CallPrecompileProceeds
  <1>9. CASE Return
    BY <1>9, ReturnProceeds
  <1>10. CASE Fail
    BY <1>10, FailProceeds
  <1>11. CASE \E a \in Targets : SelfDestruct(a)
    BY <1>11, SelfDestructProceeds
  <1>12. CASE Commit
    BY <1>12
  <1> QED BY <1>1, <1>2, <1>3, <1>4, <1>5, <1>6, <1>7, <1>8, <1>9, <1>10, <1>11, <1>12 DEF Step

LEMMA NextInv == ASSUME Inv, [Next]_vars PROVE Inv'
  <1>1. CASE Step
    <2>1. CASE Proceeds
      BY <2>1, InvFromMoves DEF Proceeds
    <2>2. CASE Commit
      <3>1. phase = "end" /\ phase' = "done" /\ UNCHANGED <<db, frames>>
        BY <2>2 DEF Commit
      <3>2. frames = << >> /\ Kept(db)
        BY <3>1 DEF Inv
      <3>3. Fine(db)
        BY <3>2, KeptIsFine
      <3>4. Fine(db)'
        BY <3>1, <3>3 DEF Fine
      <3> QED BY <3>1, <3>2, <3>4 DEF Inv
    <2> QED BY <1>1, <2>1, <2>2, StepProceeds
  <1>2. CASE UNCHANGED vars
    <2>1. UNCHANGED <<phase, store, db, frames>>
      BY <1>2 DEF vars
    <2>2. CASE phase # "done"
      <3>1. Kept(db') /\ RefundCovers(db') /\ FramesOK(db', frames')
        <4>1. Kept(db) /\ RefundCovers(db) /\ FramesOK(db, frames)
          BY <2>2 DEF Inv
        <4> QED BY <2>1, <4>1
      <3>2. Kept(db)' /\ RefundCovers(db)' /\ FramesOK(db, frames)'
        BY <2>1, <3>1, NextOrder
      <3> QED BY <2>1, <2>2, <3>2 DEF Inv
    <2>3. CASE phase = "done"
      BY <2>1, <2>3 DEF Inv, Fine
    <2> QED BY <2>2, <2>3
  <1> QED BY <1>1, <1>2 DEF Next

\* The StateDB and the snapshots of its frames are in order.
THEOREM InvHolds == Spec => []Inv
  <1>1. Init => Inv
    BY InitInv
  <1>2. Inv /\ [Next]_vars => Inv'
    BY NextInv
  <1> QED BY <1>1, <1>2, PTL DEF Spec

\* Neither what happened nor the failure of any open frame panics (statedb.go:
\* 150-157, 490-503 and 525-534, access_list.go:92-110).
THEOREM NoPanic == Spec => []NeverPanics
  <1>1. ASSUME Inv PROVE NeverPanics
    <2>1. ASSUME NEW d, Fine(d) PROVE ~d.panic /\ \A a \in Dirty(d) : d.obj[a] # NoObj
      BY <2>1 DEF Fine, Dirty
    <2>2. Fine(db)
      <3>1. CASE phase = "done"
        BY <1>1, <3>1 DEF Inv
      <3>2. CASE phase # "done"
        BY <1>1, <3>2, KeptIsFine DEF Inv
      <3> QED BY <3>1, <3>2
    <2>3. ASSUME NEW i \in DOMAIN frames PROVE Fine(StateBefore(i))
      <3>1. phase # "done"
        BY <1>1 DEF Inv
      <3>2. Kept(db) /\ FramesOK(db, frames)
        BY <1>1, <3>1 DEF Inv
      <3>3. frames \in Seq(FrameType)
        BY <3>2 DEF FramesOK
      <3>4. i \in 1 .. Len(frames)
        BY <3>3
      <3>5. Kept(RevertTo(db, frames[i].revision))
        BY <3>2, <3>4, FramesRevert
      <3> QED BY <3>5, KeptIsFine DEF StateBefore
    <2> QED BY <2>1, <2>2, <2>3 DEF NeverPanics
  <1> QED BY <1>1, InvHolds, PTL

\* Whatever happens in a frame, every frame that stays open would still return
\* to the same view of the state (journal.go:76-90, statedb.go:490-503).  The
\* cache of the store is the exception, which the view leaves out:
\* SavedStatesKept is refuted for it.
THEOREM FramesReturn == Spec => RevertsRestore
  <1> DEFINE A == \A i \in DOMAIN frames \cap DOMAIN frames' :
                     \A before \in {StateBefore(i)}, after \in {StateBefore(i)'} :
                        View(after)' = View(before)
  <1>1. ASSUME Inv, [Next]_vars PROVE [A]_vars
    <2>1. CASE Proceeds
      <3>1. SUFFICES ASSUME NEW i \in DOMAIN frames \cap DOMAIN frames',
                            NEW before \in {StateBefore(i)},
                            NEW after \in {StateBefore(i)'}
                     PROVE  View(after)' = View(before)
        OBVIOUS
      <3>2. /\ UNCHANGED store /\ Moves(db, frames, db', frames')
            /\ phase # "done"
        BY <2>1 DEF Proceeds
      <3>3. frames \in Seq(FrameType) /\ frames' \in Seq(FrameType)
        <4>1. FramesOK(db, frames)
          BY <1>1, <3>2 DEF Inv
        <4>2. FramesOK(db', frames')
          BY <3>2 DEF Moves
        <4> QED BY <4>1, <4>2 DEF FramesOK
      <3>4. i \in 1 .. Len(frames) /\ i \in 1 .. Len(frames') /\ i <= Len(frames)
        BY <3>3
      <3>5. frames'[i] = frames[i] /\ Reverts(db, db', frames[i].revision)
        BY <3>2, <3>4 DEF Moves
      <3>6. /\ before = RevertTo(db, frames[i].revision)
            /\ after = RevertTo(db', frames'[i].revision)
        BY DEF StateBefore
      <3>7. View(after)' = View(after)
        BY <3>2 DEF View, Exists, Obj, Slot
      <3> QED BY <3>5, <3>6, <3>7 DEF Reverts
    <2>2. CASE Commit
      <3>1. frames = << >>
        BY <1>1, <2>2 DEF Commit, Inv
      <3> QED BY <3>1
    <2>3. CASE Step
      BY <1>1, <2>1, <2>2, <2>3, StepProceeds
    <2> QED BY <1>1, <2>3 DEF Next
  <1>2. Inv /\ [Next]_vars => [A]_vars
    BY <1>1
  <1> QED BY <1>2, InvHolds, PTL DEF Spec, RevertsRestore
=============================================================================
