------------------------------ MODULE Rpc_proofs ------------------------------
(***************************************************************************)
(* Proofs about the two parts of the JSON-RPC server that keep a state of  *)
(* their own: the transaction index and the event system.                  *)
(*                                                                         *)
(* Indexer: the index has no gap and reaches as far as the service and the *)
(* command say, through crashes that lose batches.  A crash leaves a       *)
(* prefix of the batches written, so what is inductive is that every       *)
(* prefix of the database is without gaps.                                 *)
(*                                                                         *)
(* EventSystem: its safety for any number of filters and events.           *)
(***************************************************************************)
EXTENDS Indexer, EventSystem, WellFoundedInduction, TLAPS

-----------------------------------------------------------------------------
(* The first and the last indexed block.                                   *)

\* A set of numbers has a smallest element, and a largest one if it is bounded.
LEMMA SmallestExists ==
    ASSUME NEW S \in SUBSET Nat, S # {}
    PROVE  \E m \in S : \A s \in S : m <= s
<1> DEFINE R == OpToRel(<, Nat)
<1> HIDE DEF R
<1>1. PICK m \in S : \A s \in S : <<s, m>> \notin R
  BY WFMin, NatLessThanWellFounded DEF R
<1>2. ASSUME NEW s \in S PROVE m <= s
  <2>1. s \in Nat /\ m \in Nat
    OBVIOUS
  <2>2. ~(s < m)
    BY <1>1, <2>1 DEF OpToRel, R
  <2> QED BY <2>1, <2>2
<1> QED BY <1>2

\* A bounded set of numbers that is not empty has a largest.
LEMMA LargestExists ==
    ASSUME NEW b \in Nat, NEW S \in SUBSET (0..b), S # {}
    PROVE  \E m \in S : \A s \in S : m >= s
<1> DEFINE T == {b - s : s \in S}
<1>1. T \in SUBSET Nat /\ T # {}
  <2>1. ASSUME NEW s \in S PROVE b - s \in Nat
    OBVIOUS
  <2>2. PICK s \in S : TRUE
    OBVIOUS
  <2>3. b - s \in T
    OBVIOUS
  <2> QED BY <2>1, <2>3
<1> HIDE DEF T
<1>2. PICK x \in T : \A y \in T : x <= y
  BY <1>1, SmallestExists
<1>3. PICK m \in S : x = b - m
  BY DEF T
<1>4. ASSUME NEW s \in S PROVE m >= s
  <2>1. b - s \in T
    BY DEF T
  <2>2. b - m <= b - s
    BY <1>2, <1>3, <2>1
  <2>3. b \in Int /\ m \in Int /\ s \in Int
    OBVIOUS
  <2> QED BY <2>2, <2>3
<1> QED BY <1>4

\* The first and the last indexed block are the least and the greatest.
LEMMA Extremes ==
    ASSUME db \in Seq(1..MaxHeight), db # <<>>
    PROVE  \E j, k \in 1..Len(db) :
              /\ FirstIndexedBlock = db[j] /\ LastIndexedBlock = db[k]
              /\ \A l \in 1..Len(db) : db[j] <= db[l] /\ db[l] <= db[k]
<1>m. MaxHeight \in Nat
  BY IndexerAssumption DEF MaxHeight
<1> DEFINE S == Indexed
<1>1. /\ S \in SUBSET (1..MaxHeight) /\ S # {}
      /\ \A x \in S : \E l \in 1..Len(db) : x = db[l]
      /\ \A l \in 1..Len(db) : db[l] \in S
  <2>1. DOMAIN db = 1..Len(db) /\ \A l \in 1..Len(db) : db[l] \in 1..MaxHeight
    BY <1>m
  <2>2. S = {db[l] : l \in 1..Len(db)}
    BY <2>1 DEF Indexed, ToSet
  <2>3. 1 \in 1..Len(db)
    OBVIOUS
  <2> QED BY <2>1, <2>2, <2>3
<1> HIDE DEF S
<1>2. Max(S) \in S /\ \A x \in S : Max(S) >= x
  <2>1. S \in SUBSET (0..MaxHeight)
    BY <1>1, <1>m
  <2> QED BY <1>1, <1>m, <2>1, LargestExists DEF Max
<1>3. Min(S) \in S /\ \A x \in S : Min(S) <= x
  <2>1. S \in SUBSET Nat
    BY <1>1, <1>m
  <2> QED BY <1>1, <2>1, SmallestExists DEF Min
<1>4. FirstIndexedBlock = Min(S) /\ LastIndexedBlock = Max(S)
  BY DEF S, FirstIndexedBlock, LastIndexedBlock
<1>5. PICK j \in 1..Len(db), k \in 1..Len(db) : Min(S) = db[j] /\ Max(S) = db[k]
  BY <1>1, <1>2, <1>3
<1>6. ASSUME NEW l \in 1..Len(db) PROVE db[j] <= db[l] /\ db[l] <= db[k]
  <2>1. db[l] \in S /\ db[k] \in Int /\ db[l] \in Int
    BY <1>1, <1>m
  <2> QED BY <1>2, <1>3, <1>5, <2>1
<1> QED BY <1>4, <1>5, <1>6

-----------------------------------------------------------------------------
(* Gaps.                                                                   *)

\* The bounds are natural numbers.
LEMMA HeightNat == MaxHeight \in Nat /\ MaxCrashes \in Nat /\ MaxFaults \in Nat
  BY IndexerAssumption DEF MaxHeight

\* Block b is among the first n batches of s, was skipped or has no entries.
Settled(s, sk, n, b) == HasEntries(b) => b \in sk \/ \E l \in 1..n : s[l] = b

Filled(s, sk, n, from, to) == \A b \in from..to : Settled(s, sk, n, b)

\* Every prefix of s has no gap.
Gapless(s, sk) ==
    \A n \in 0..Len(s) : \A j, k \in 1..n : Filled(s, sk, n, s[j], s[k])

\* All batches lie before block b, and reach up to it; or behind it.
UpTo(s, sk, b) ==
    \A k \in 1..Len(s) : s[k] <= b /\ Filled(s, sk, Len(s), s[k], b)
DownTo(s, sk, b) ==
    \A k \in 1..Len(s) : b <= s[k] /\ Filled(s, sk, Len(s), b, s[k])

\* A block that is settled by a prefix stays settled when blocks are appended.
LEMMA SettledLater ==
    ASSUME NEW s, NEW t, NEW sk, NEW sk2, sk \subseteq sk2, NEW n \in Nat, NEW m \in Nat,
           n <= m, \A l \in 1..n : t[l] = s[l], NEW b, Settled(s, sk, n, b)
    PROVE  Settled(t, sk2, m, b)
  BY DEF Settled

\* A crash leaves a prefix, and what was skipped stays skipped.
LEMMA PrefixGapless ==
    ASSUME NEW s \in Seq(1..MaxHeight), NEW t \in Seq(1..MaxHeight), NEW sk, NEW sk2,
           sk \subseteq sk2, Gapless(s, sk), NEW m \in 0..Len(s), m <= Len(t),
           \A l \in 1..m : t[l] = s[l]
    PROVE  \A n \in 0..m : \A j, k \in 1..n : Filled(t, sk2, n, t[j], t[k])
<1> SUFFICES ASSUME NEW n \in 0..m, NEW j \in 1..n, NEW k \in 1..n, NEW b \in t[j]..t[k]
             PROVE  Settled(t, sk2, n, b)
  BY DEF Filled
<1>1. n \in 0..Len(s) /\ n \in Nat /\ t[j] = s[j] /\ t[k] = s[k]
      /\ \A l \in 1..n : t[l] = s[l]
  OBVIOUS
<1>2. Settled(s, sk, n, b)
  BY <1>1 DEF Gapless, Filled
<1> QED BY <1>1, <1>2, SettledLater

\* A block appended is the last one.
LEMMA Appended ==
    ASSUME NEW s \in Seq(1..MaxHeight), NEW b \in 1..MaxHeight
    PROVE  /\ Len(s) \in Nat /\ Append(s, b) \in Seq(1..MaxHeight)
           /\ Len(Append(s, b)) = Len(s) + 1 /\ Append(s, b)[Len(s) + 1] = b
           /\ \A l \in 1..Len(s) : Append(s, b)[l] = s[l] /\ s[l] \in Int
  BY HeightNat

\* A batch at the upper end.
LEMMA AppendUp ==
    ASSUME NEW s \in Seq(1..MaxHeight), NEW sk, NEW b \in 1..MaxHeight,
           Gapless(s, sk), UpTo(s, sk, b - 1)
    PROVE  Gapless(Append(s, b), sk) /\ UpTo(Append(s, b), sk, b)
<1> DEFINE t == Append(s, b)
           N == Len(s)
<1>1. /\ N \in Nat /\ t \in Seq(1..MaxHeight) /\ Len(t) = N + 1 /\ t[N + 1] = b
      /\ \A l \in 1..N : t[l] = s[l] /\ s[l] \in Int
  BY Appended
<1>b. b \in Int
  BY HeightNat
<1> HIDE DEF t
<1>2. ASSUME NEW k \in 1..(N + 1) PROVE t[k] <= b /\ Filled(t, sk, N + 1, t[k], b)
  <2>1. CASE k = N + 1
    BY <1>1, <1>b, <2>1 DEF Filled, Settled
  <2>2. CASE k \in 1..N
    <3>1. s[k] <= b - 1 /\ Filled(s, sk, N, s[k], b - 1) /\ t[k] = s[k] /\ s[k] \in Int
      BY <1>1, <2>2 DEF UpTo
    <3>2. ASSUME NEW q \in t[k]..b PROVE Settled(t, sk, N + 1, q)
      <4>1. CASE q = b
        BY <1>1, <4>1 DEF Settled
      <4>2. CASE q # b
        <5>1. q \in s[k]..(b - 1)
          BY <1>b, <3>1, <4>2
        <5>2. Settled(s, sk, N, q)
          BY <3>1, <5>1 DEF Filled
        <5> QED BY <1>1, <5>2, SettledLater
      <4> QED BY <4>1, <4>2
    <3> QED BY <1>b, <3>1, <3>2 DEF Filled
  <2> QED BY <1>1, <2>1, <2>2
<1>3. UpTo(t, sk, b)
  BY <1>1, <1>2 DEF UpTo
<1>4. \A n \in 0..N : \A j, k \in 1..n : Filled(t, sk, n, t[j], t[k])
  <2>1. N \in 0..Len(s) /\ N <= Len(t) /\ \A l \in 1..N : t[l] = s[l]
    BY <1>1
  <2> HIDE DEF N
  <2> QED BY <1>1, <2>1, PrefixGapless
<1>5. ASSUME NEW j \in 1..(N + 1), NEW k \in 1..(N + 1)
      PROVE  Filled(t, sk, N + 1, t[j], t[k])
  <2>1. CASE k = N + 1
    BY <1>1, <1>2, <2>1
  <2>2. CASE k \in 1..N /\ j = N + 1
    <3>1. t[k] <= b - 1 /\ t[j] = b /\ t[k] \in Int
      BY <1>1, <2>2 DEF UpTo
    <3> QED BY <1>b, <3>1 DEF Filled
  <2>3. CASE k \in 1..N /\ j \in 1..N
    <3>1. Filled(t, sk, N, t[j], t[k])
      BY <1>1, <1>4, <2>3
    <3>2. \A q : Settled(t, sk, N, q) => Settled(t, sk, N + 1, q)
      BY <1>1, SettledLater
    <3> QED BY <3>1, <3>2 DEF Filled
  <2> QED BY <1>1, <2>1, <2>2, <2>3
<1>6. Gapless(t, sk)
  <2>1. \A n \in 0..(N + 1) : n \in 0..N \/ n = N + 1
    BY <1>1
  <2> QED BY <1>1, <1>4, <1>5, <2>1 DEF Gapless
<1> QED BY <1>3, <1>6 DEF t

\* A batch at the lower end.
LEMMA AppendDown ==
    ASSUME NEW s \in Seq(1..MaxHeight), NEW sk, NEW b \in 1..MaxHeight,
           Gapless(s, sk), DownTo(s, sk, b + 1)
    PROVE  Gapless(Append(s, b), sk) /\ DownTo(Append(s, b), sk, b)
<1> DEFINE t == Append(s, b)
           N == Len(s)
<1>1. /\ N \in Nat /\ t \in Seq(1..MaxHeight) /\ Len(t) = N + 1 /\ t[N + 1] = b
      /\ \A l \in 1..N : t[l] = s[l] /\ s[l] \in Int
  BY Appended
<1>b. b \in Int
  BY HeightNat
<1> HIDE DEF t
<1>2. ASSUME NEW k \in 1..(N + 1) PROVE b <= t[k] /\ Filled(t, sk, N + 1, b, t[k])
  <2>1. CASE k = N + 1
    BY <1>1, <1>b, <2>1 DEF Filled, Settled
  <2>2. CASE k \in 1..N
    <3>1. b + 1 <= s[k] /\ Filled(s, sk, N, b + 1, s[k]) /\ t[k] = s[k] /\ s[k] \in Int
      BY <1>1, <2>2 DEF DownTo
    <3>2. ASSUME NEW q \in b..t[k] PROVE Settled(t, sk, N + 1, q)
      <4>1. CASE q = b
        BY <1>1, <4>1 DEF Settled
      <4>2. CASE q # b
        <5>1. q \in (b + 1)..s[k]
          BY <1>b, <3>1, <4>2
        <5>2. Settled(s, sk, N, q)
          BY <3>1, <5>1 DEF Filled
        <5> QED BY <1>1, <5>2, SettledLater
      <4> QED BY <4>1, <4>2
    <3> QED BY <1>b, <3>1, <3>2 DEF Filled
  <2> QED BY <1>1, <2>1, <2>2
<1>3. DownTo(t, sk, b)
  BY <1>1, <1>2 DEF DownTo
<1>4. \A n \in 0..N : \A j, k \in 1..n : Filled(t, sk, n, t[j], t[k])
  <2>1. N \in 0..Len(s) /\ N <= Len(t) /\ \A l \in 1..N : t[l] = s[l]
    BY <1>1
  <2> HIDE DEF N
  <2> QED BY <1>1, <2>1, PrefixGapless
<1>5. ASSUME NEW j \in 1..(N + 1), NEW k \in 1..(N + 1)
      PROVE  Filled(t, sk, N + 1, t[j], t[k])
  <2>1. CASE j = N + 1
    BY <1>1, <1>2, <2>1
  <2>2. CASE j \in 1..N /\ k = N + 1
    <3>1. b + 1 <= t[j] /\ t[k] = b /\ t[j] \in Int
      BY <1>1, <2>2 DEF DownTo
    <3> QED BY <1>b, <3>1 DEF Filled
  <2>3. CASE k \in 1..N /\ j \in 1..N
    <3>1. Filled(t, sk, N, t[j], t[k])
      BY <1>1, <1>4, <2>3
    <3>2. \A q : Settled(t, sk, N, q) => Settled(t, sk, N + 1, q)
      BY <1>1, SettledLater
    <3> QED BY <3>1, <3>2 DEF Filled
  <2> QED BY <1>1, <2>1, <2>2, <2>3
<1>6. Gapless(t, sk)
  <2>1. \A n \in 0..(N + 1) : n \in 0..N \/ n = N + 1
    BY <1>1
  <2> QED BY <1>1, <1>4, <1>5, <2>1 DEF Gapless
<1> QED BY <1>3, <1>6 DEF t

\* A block without entries, or one that the service leaves out after an error.
LEMMA PassUp ==
    ASSUME NEW s \in Seq(1..MaxHeight), NEW sk, NEW sk2, sk \subseteq sk2,
           NEW b \in 1..MaxHeight, HasEntries(b) => b \in sk2, UpTo(s, sk, b - 1)
    PROVE  UpTo(s, sk2, b)
<1> SUFFICES ASSUME NEW k \in 1..Len(s)
             PROVE  s[k] <= b /\ Filled(s, sk2, Len(s), s[k], b)
  BY DEF UpTo
<1>1. /\ s[k] <= b - 1 /\ Filled(s, sk, Len(s), s[k], b - 1)
      /\ s[k] \in Int /\ b \in Int /\ Len(s) \in Nat
  BY HeightNat DEF UpTo
<1>2. ASSUME NEW q \in s[k]..b PROVE Settled(s, sk2, Len(s), q)
  <2>1. CASE q = b
    BY <2>1 DEF Settled
  <2>2. CASE q # b
    <3>1. q \in s[k]..(b - 1)
      BY <1>1, <2>2
    <3>2. Settled(s, sk, Len(s), q)
      BY <1>1, <3>1 DEF Filled
    <3> QED BY <3>2 DEF Settled
  <2> QED BY <2>1, <2>2
<1> QED BY <1>1, <1>2 DEF Filled

\* A block without entries is passed over on the way down.
LEMMA PassDown ==
    ASSUME NEW s \in Seq(1..MaxHeight), NEW sk, NEW b \in 1..MaxHeight,
           ~HasEntries(b), DownTo(s, sk, b + 1)
    PROVE  DownTo(s, sk, b)
<1> SUFFICES ASSUME NEW k \in 1..Len(s)
             PROVE  b <= s[k] /\ Filled(s, sk, Len(s), b, s[k])
  BY DEF DownTo
<1>1. /\ b + 1 <= s[k] /\ Filled(s, sk, Len(s), b + 1, s[k])
      /\ s[k] \in Int /\ b \in Int
  BY HeightNat DEF DownTo
<1>2. ASSUME NEW q \in b..s[k] PROVE Settled(s, sk, Len(s), q)
  <2>1. CASE q = b
    BY <2>1 DEF Settled
  <2>2. CASE q # b
    <3>1. q \in (b + 1)..s[k]
      BY <1>1, <2>2
    <3> QED BY <1>1, <3>1 DEF Filled
  <2> QED BY <2>1, <2>2
<1> QED BY <1>1, <1>2 DEF Filled

\* A block more that is skipped opens no gap.
LEMMA SkippedGapless ==
    ASSUME NEW s \in Seq(1..MaxHeight), NEW sk, NEW sk2, sk \subseteq sk2, Gapless(s, sk)
    PROVE  Gapless(s, sk2)
  BY DEF Gapless, Filled, Settled

-----------------------------------------------------------------------------
(* The invariant.                                                          *)

Positions ==
    /\ latestBlock <= height /\ seen <= height
    /\ \A k \in 1..Len(db) : db[k] <= height
    /\ pc = "index" => i = lastBlock + 1 /\ i <= latestBlock
    /\ pc = "forward" => 1 <= i /\ i <= height + 1
    /\ pc = "backward" => i < height

Reached ==
    /\ Serving => UpTo(db, skipped, lastBlock)
    /\ pc = "forward" => UpTo(db, skipped, i - 1)
    /\ pc = "backward" => DownTo(db, skipped, i + 1)

IndexInv == TypeOK /\ Gapless(db, skipped) /\ Positions /\ Reached

\* The index as it stands reaches up to its last block and down to its first.
LEMMA IndexReaches ==
    ASSUME db \in Seq(1..MaxHeight), Gapless(db, skipped)
    PROVE  /\ db = <<>> => \A b : UpTo(db, skipped, b) /\ DownTo(db, skipped, b)
           /\ db # <<>> => /\ LastIndexedBlock \in 1..MaxHeight
                           /\ FirstIndexedBlock \in 1..MaxHeight
                           /\ UpTo(db, skipped, LastIndexedBlock)
                           /\ DownTo(db, skipped, FirstIndexedBlock)
                           /\ \E j, k \in 1..Len(db) : FirstIndexedBlock = db[j]
                                                      /\ LastIndexedBlock = db[k]
<1>1. CASE db = <<>>
  BY <1>1 DEF UpTo, DownTo
<1>2. CASE db # <<>>
  <2>1. PICK j \in 1..Len(db), k \in 1..Len(db) :
           /\ FirstIndexedBlock = db[j] /\ LastIndexedBlock = db[k]
           /\ \A l \in 1..Len(db) : db[j] <= db[l] /\ db[l] <= db[k]
    BY <1>2, Extremes
  <2>2. \A a, b \in 1..Len(db) : Filled(db, skipped, Len(db), db[a], db[b])
    <3>1. Len(db) \in 0..Len(db)
      OBVIOUS
    <3> QED BY <3>1 DEF Gapless
  <2>3. db[j] \in 1..MaxHeight /\ db[k] \in 1..MaxHeight
    BY HeightNat
  <2> QED BY <1>2, <2>1, <2>2, <2>3 DEF UpTo, DownTo
<1> QED BY <1>1, <1>2

\* A block written on the way up leaves no gap.
LEMMA WriteUp ==
    ASSUME db \in Seq(1..MaxHeight), Gapless(db, skipped), NEW b \in 1..MaxHeight,
           UpTo(db, skipped, b - 1), Write(b)
    PROVE  /\ db' \in Seq(1..MaxHeight)
           /\ Gapless(db', skipped)
           /\ UpTo(db', skipped, b)
           /\ \A k \in 1..Len(db') : (k \in 1..Len(db) /\ db'[k] = db[k]) \/ db'[k] = b
<1>1. CASE HasEntries(b)
  <2>1. db' = Append(db, b)
    BY <1>1 DEF Write
  <2> QED BY <2>1, Appended, AppendUp
<1>2. CASE ~HasEntries(b)
  <2>1. db' = db
    BY <1>2 DEF Write
  <2> QED BY <1>2, <2>1, PassUp
<1> QED BY <1>1, <1>2

\* Nor does one written on the way down.
LEMMA WriteDown ==
    ASSUME db \in Seq(1..MaxHeight), Gapless(db, skipped), NEW b \in 1..MaxHeight,
           DownTo(db, skipped, b + 1), Write(b)
    PROVE  /\ db' \in Seq(1..MaxHeight)
           /\ Gapless(db', skipped)
           /\ DownTo(db', skipped, b)
           /\ \A k \in 1..Len(db') : (k \in 1..Len(db) /\ db'[k] = db[k]) \/ db'[k] = b
<1>1. CASE HasEntries(b)
  <2>1. db' = Append(db, b)
    BY <1>1 DEF Write
  <2> QED BY <2>1, Appended, AppendDown
<1>2. CASE ~HasEntries(b)
  <2>1. db' = db
    BY <1>2 DEF Write
  <2> QED BY <1>2, <2>1, PassDown
<1> QED BY <1>1, <1>2

\* Steps that write nothing and leave the service and the commands where they
\* are, or stop them.
LEMMA QuietStep ==
    ASSUME IndexInv,
           ReadStatus \/ Subscribe \/ ReceiveHeader \/ Loop \/ Wake \/ FetchFails
             \/ CommandEnds \/ NewBlock \/ Prune \/ UNCHANGED vars
    PROVE  IndexInv'
<1> USE HeightNat
<1>1. UNCHANGED <<db, skipped, lastBlock>>
  BY DEF ReadStatus, Subscribe, ReceiveHeader, Loop, Wake, FetchFails, CommandEnds,
         NewBlock, Prune, vars, volatile
<1>2. TypeOK' /\ Positions'
  <2>0. TypeOK /\ Positions
    BY DEF IndexInv
  <2>1. CASE ReadStatus
    <3>1. TypeOK'
      BY <2>0, <2>1 DEF TypeOK, Positions, ReadStatus, volatile
    <3>2. Positions'
      BY <2>0, <2>1 DEF TypeOK, Positions, ReadStatus, volatile
    <3> QED BY <3>1, <3>2
  <2>2. CASE Subscribe
    <3>1. TypeOK'
      BY <2>0, <2>2 DEF TypeOK, Positions, Subscribe, volatile
    <3>2. Positions'
      BY <2>0, <2>2 DEF TypeOK, Positions, Subscribe, volatile
    <3> QED BY <3>1, <3>2
  <2>3. CASE ReceiveHeader
    <3>1. /\ UNCHANGED <<height, base, db, pc, lastBlock, i, skipped, crashes, faults>>
          /\ seen < height /\ seen' = seen + 1
          /\ (latestBlock' = seen + 1 /\ signal' = TRUE) \/ UNCHANGED <<latestBlock, signal>>
      BY <2>3 DEF ReceiveHeader
    <3>2. height \in 0..MaxHeight /\ seen \in 0..MaxHeight /\ latestBlock \in 0..MaxHeight
      BY <2>0 DEF TypeOK
    <3>3. seen' \in 0..MaxHeight /\ seen' <= height
      BY <3>1, <3>2
    <3>4. latestBlock' \in 0..MaxHeight /\ latestBlock' <= height /\ latestBlock' >= latestBlock
      <4>1. CASE latestBlock' = latestBlock
        BY <2>0, <3>2, <4>1 DEF Positions
      <4>2. CASE latestBlock' # latestBlock
        <5>1. latestBlock' = seen' /\ seen + 1 > latestBlock
          BY <2>3, <4>2 DEF ReceiveHeader
        <5> QED BY <3>1, <3>2, <3>3, <5>1
      <4> QED BY <4>1, <4>2
    <3>5. signal' \in BOOLEAN
      BY <2>0, <2>3 DEF TypeOK, ReceiveHeader
    <3>6. TypeOK'
      BY <2>0, <3>1, <3>3, <3>4, <3>5 DEF TypeOK
    <3>7. Positions'
      BY <2>0, <3>1, <3>2, <3>3, <3>4 DEF TypeOK, Positions
    <3> QED BY <3>6, <3>7
  <2>4. CASE Loop
    <3>1. TypeOK'
      BY <2>0, <2>4 DEF TypeOK, Positions, Loop, volatile
    <3>2. Positions'
      BY <2>0, <2>4 DEF TypeOK, Positions, Loop, volatile
    <3> QED BY <3>1, <3>2
  <2>5. CASE Wake
    <3>1. TypeOK'
      BY <2>0, <2>5 DEF TypeOK, Positions, Wake, volatile
    <3>2. Positions'
      BY <2>0, <2>5 DEF TypeOK, Positions, Wake, volatile
    <3> QED BY <3>1, <3>2
  <2>6. CASE FetchFails
    <3>1. TypeOK'
      BY <2>0, <2>6 DEF TypeOK, Positions, FetchFails, volatile
    <3>2. Positions'
      BY <2>0, <2>6 DEF TypeOK, Positions, FetchFails, volatile
    <3> QED BY <3>1, <3>2
  <2>7. CASE CommandEnds
    <3>1. TypeOK'
      BY <2>0, <2>7 DEF TypeOK, Positions, CommandEnds, volatile
    <3>2. Positions'
      BY <2>0, <2>7 DEF TypeOK, Positions, CommandEnds, volatile
    <3> QED BY <3>1, <3>2
  <2>8. CASE NewBlock
    <3>1. TypeOK'
      BY <2>0, <2>8 DEF TypeOK, Positions, NewBlock, volatile
    <3>2. Positions'
      BY <2>0, <2>8 DEF TypeOK, Positions, NewBlock, volatile
    <3> QED BY <3>1, <3>2
  <2>9. CASE Prune
    <3>1. TypeOK'
      BY <2>0, <2>9 DEF TypeOK, Positions, Prune, volatile
    <3>2. Positions'
      BY <2>0, <2>9 DEF TypeOK, Positions, Prune, volatile
    <3> QED BY <3>1, <3>2
  <2>10. CASE UNCHANGED vars
    BY <2>0, <2>10 DEF TypeOK, Positions, vars, volatile
  <2> QED BY <2>1, <2>2, <2>3, <2>4, <2>5, <2>6, <2>7, <2>8, <2>9, <2>10
<1>4. /\ Serving' => Serving
      /\ pc' \in {"forward", "backward"} => pc' = pc /\ i' = i
  BY DEF Serving, ReadStatus, Subscribe, ReceiveHeader, Loop, Wake, FetchFails, CommandEnds,
         NewBlock, Prune, vars, volatile
<1>5. Gapless(db, skipped)' /\ Reached'
  BY <1>1, <1>4 DEF IndexInv, Reached
<1> QED BY <1>2, <1>5 DEF IndexInv

\* The service starts from the last indexed block, or from the latest.
LEMMA ReadLastIndexedStep == ASSUME IndexInv, ReadLastIndexed PROVE IndexInv'
<1> USE HeightNat
<1>1. db \in Seq(1..MaxHeight) /\ Gapless(db, skipped) /\ latestBlock \in 0..MaxHeight
  BY DEF IndexInv, TypeOK
<1>2. StartFrom \in 0..MaxHeight /\ UpTo(db, skipped, StartFrom)
  <2>1. CASE db = <<>>
    BY <1>1, <2>1, IndexReaches DEF StartFrom, LastIndexedBlock
  <2>2. CASE db # <<>>
    BY <1>1, <2>2, IndexReaches DEF StartFrom
  <2> QED BY <2>1, <2>2
<1>3. TypeOK' /\ Positions'
  BY <1>2 DEF IndexInv, TypeOK, Positions, ReadLastIndexed
<1>4. Gapless(db, skipped)' /\ Reached'
  BY <1>1, <1>2 DEF Reached, ReadLastIndexed, Serving
<1> QED BY <1>3, <1>4 DEF IndexInv

\* It writes the next block, or skips it when that fails.
LEMMA IndexBlockStep == ASSUME IndexInv, IndexBlock \/ IndexBlockFails PROVE IndexInv'
<1> USE HeightNat
<1>1. /\ pc = "index" /\ i >= base /\ EndRound /\ i = lastBlock + 1 /\ i <= latestBlock
      /\ latestBlock <= height
      /\ height \in 0..MaxHeight /\ base \in 1..(MaxHeight + 1) /\ i \in -1..(MaxHeight + 1)
      /\ db \in Seq(1..MaxHeight) /\ Gapless(db, skipped) /\ UpTo(db, skipped, i - 1)
  <2>1. pc = "index" /\ i >= base /\ EndRound
    BY DEF IndexBlock, IndexBlockFails
  <2>2. i = lastBlock + 1 /\ lastBlock \in 0..MaxHeight
    BY <2>1 DEF IndexInv, Positions, TypeOK
  <2>3. UpTo(db, skipped, lastBlock) /\ i - 1 = lastBlock
    BY <2>1, <2>2 DEF IndexInv, Reached, Serving
  <2> QED BY <2>1, <2>2, <2>3 DEF IndexInv, Positions, TypeOK
<1>2. i \in 1..MaxHeight
  <2>1. i \in Int /\ base \in Int /\ height \in Int /\ MaxHeight \in Int
        /\ 1 <= base /\ base <= i /\ height <= MaxHeight
    BY <1>1
  <2>2. latestBlock \in Int /\ i <= latestBlock /\ latestBlock <= height
    BY <1>1 DEF IndexInv, TypeOK
  <2> QED BY <2>1, <2>2
<1>3. /\ db' \in Seq(1..MaxHeight) /\ Gapless(db', skipped') /\ UpTo(db', skipped', i)
      /\ skipped' \subseteq 1..MaxHeight
      /\ \A k \in 1..Len(db') : (k \in 1..Len(db) /\ db'[k] = db[k]) \/ db'[k] = i
  <2>1. CASE IndexBlock
    BY <1>1, <1>2, <2>1, WriteUp DEF IndexBlock, IndexInv, TypeOK
  <2>2. CASE IndexBlockFails
    BY <1>1, <1>2, <2>2, PassUp, SkippedGapless DEF IndexBlockFails, IndexInv, TypeOK
  <2> QED BY <2>1, <2>2
<1>4. TypeOK'
  BY <1>1, <1>2, <1>3
     DEF IndexInv, TypeOK, EndRound, IndexBlock, IndexBlockFails
<1>5. Positions'
  BY <1>1, <1>2, <1>3, SMTT(60) DEF IndexInv, Positions, TypeOK, EndRound
<1>6. Reached'
  BY <1>1, <1>3 DEF Reached, EndRound, Serving
<1> QED BY <1>3, <1>4, <1>5, <1>6 DEF IndexInv

\* The command starts above the last indexed block or below the first.
LEMMA StartCommandStep ==
    ASSUME IndexInv, NEW direction \in {"backward", "forward"}, StartCommand(direction)
    PROVE  IndexInv'
<1> USE HeightNat
<1>1. /\ db \in Seq(1..MaxHeight) /\ Gapless(db, skipped) /\ height \in 0..MaxHeight
      /\ \A k \in 1..Len(db) : db[k] <= height
      /\ UNCHANGED <<height, base, db, volatile, skipped, crashes, faults>>
      /\ pc' = direction
  BY DEF IndexInv, TypeOK, Positions, StartCommand
<1>2. CASE direction = "backward"
  <2>1. i' = BackwardFrom
    BY <1>2 DEF StartCommand
  <2>2. i' \in -1..(MaxHeight + 1) /\ i' < height /\ DownTo(db, skipped, i' + 1)
    <3>1. CASE db = <<>>
      BY <1>1, <2>1, <3>1, IndexReaches DEF BackwardFrom, FirstIndexedBlock
    <3>2. CASE db # <<>>
      <4>1. /\ FirstIndexedBlock \in 1..MaxHeight /\ FirstIndexedBlock <= height
            /\ DownTo(db, skipped, FirstIndexedBlock)
        BY <1>1, <3>2, IndexReaches
      <4>2. i' = FirstIndexedBlock - 1 /\ i' + 1 = FirstIndexedBlock
        BY <2>1, <4>1 DEF BackwardFrom
      <4> QED BY <1>1, <4>1, <4>2
    <3> QED BY <3>1, <3>2
  <2> QED BY <1>1, <1>2, <2>2 DEF IndexInv, TypeOK, Positions, Reached, Serving, volatile
<1>3. CASE direction = "forward"
  <2>1. i' = ForwardFrom
    BY <1>3 DEF StartCommand
  <2>2. /\ i' \in -1..(MaxHeight + 1) /\ 1 <= i' /\ i' <= height + 1
        /\ UpTo(db, skipped, i' - 1)
    <3>1. CASE db = <<>>
      BY <1>1, <2>1, <3>1, IndexReaches DEF ForwardFrom, LastIndexedBlock
    <3>2. CASE db # <<>>
      <4>1. /\ LastIndexedBlock \in 1..MaxHeight /\ LastIndexedBlock <= height
            /\ UpTo(db, skipped, LastIndexedBlock)
        BY <1>1, <3>2, IndexReaches
      <4>2. i' = LastIndexedBlock + 1 /\ i' - 1 = LastIndexedBlock
        BY <2>1, <4>1 DEF ForwardFrom
      <4> QED BY <1>1, <4>1, <4>2
    <3> QED BY <3>1, <3>2
  <2> QED BY <1>1, <1>3, <2>2 DEF IndexInv, TypeOK, Positions, Reached, Serving, volatile
<1> QED BY <1>2, <1>3

\* It writes the next block of its direction.
LEMMA CommandIndexesStep == ASSUME IndexInv, CommandIndexes PROVE IndexInv'
<1> USE HeightNat
<1>1. /\ pc \in {"backward", "forward"} /\ ~CommandDone /\ i >= base /\ Write(i)
      /\ UNCHANGED <<height, base, pc, volatile, skipped, crashes, faults>>
      /\ height \in 0..MaxHeight /\ base \in 1..(MaxHeight + 1) /\ i \in -1..(MaxHeight + 1)
      /\ db \in Seq(1..MaxHeight) /\ Gapless(db, skipped)
  BY DEF IndexInv, TypeOK, CommandIndexes
<1>2. CASE pc = "backward"
  <2>1. i \in 1..MaxHeight /\ i < height /\ i' = i - 1 /\ DownTo(db, skipped, i + 1)
    BY <1>1, <1>2 DEF IndexInv, Positions, Reached, CommandIndexes
  <2>2. /\ db' \in Seq(1..MaxHeight) /\ Gapless(db', skipped) /\ DownTo(db', skipped, i)
        /\ \A k \in 1..Len(db') : (k \in 1..Len(db) /\ db'[k] = db[k]) \/ db'[k] = i
    BY <1>1, <2>1, WriteDown
  <2>3. i' + 1 = i
    BY <2>1
  <2>4. TypeOK'
    BY <1>1, <2>1, <2>2 DEF IndexInv, TypeOK, volatile
  <2>5. Positions'
    <3>1. \A k \in 1..Len(db) : db[k] <= height
      BY DEF IndexInv, Positions
    <3>2. ASSUME NEW k \in 1..Len(db') PROVE db'[k] <= height
      <4>1. (k \in 1..Len(db) /\ db'[k] = db[k]) \/ db'[k] = i
        BY <2>2
      <4>2. i <= height
        BY <1>1, <2>1
      <4> QED BY <3>1, <4>1, <4>2
    <3> QED BY <1>1, <1>2, <2>1, <3>2 DEF IndexInv, Positions, volatile
  <2>6. Reached' /\ Gapless(db', skipped')
    BY <1>1, <1>2, <2>2, <2>3 DEF Reached, Serving
  <2> QED BY <2>4, <2>5, <2>6 DEF IndexInv
<1>3. CASE pc = "forward"
  <2>1. i \in 1..MaxHeight /\ i <= height /\ i' = i + 1 /\ UpTo(db, skipped, i - 1)
    BY <1>1, <1>3 DEF IndexInv, Positions, Reached, CommandIndexes, CommandDone
  <2>2. /\ db' \in Seq(1..MaxHeight) /\ Gapless(db', skipped) /\ UpTo(db', skipped, i)
        /\ \A k \in 1..Len(db') : (k \in 1..Len(db) /\ db'[k] = db[k]) \/ db'[k] = i
    BY <1>1, <2>1, WriteUp
  <2>3. i' - 1 = i
    BY <2>1
  <2>4. TypeOK'
    BY <1>1, <2>1, <2>2 DEF IndexInv, TypeOK, volatile
  <2>5. Positions'
    BY <1>1, <1>3, <2>1, <2>2, SMTT(60) DEF IndexInv, Positions, volatile
  <2>6. Reached' /\ Gapless(db', skipped')
    BY <1>1, <1>3, <2>2, <2>3 DEF Reached, Serving
  <2> QED BY <2>4, <2>5, <2>6 DEF IndexInv
<1> QED BY <1>1, <1>2, <1>3

\* A crash keeps a prefix of what was written.
LEMMA CrashStep == ASSUME IndexInv, Crash PROVE IndexInv'
<1> USE HeightNat
<1>1. db \in Seq(1..MaxHeight) /\ Gapless(db, skipped)
  BY DEF IndexInv, TypeOK
<1>2. PICK n \in 0..Len(db) : db' = SubSeq(db, 1, n)
  BY DEF Crash
<1>3. db' \in Seq(1..MaxHeight) /\ Len(db') = n /\ \A l \in 1..n : db'[l] = db[l]
  BY <1>1, <1>2
<1>4. Gapless(db', skipped)
  <2>1. n \in 0..Len(db) /\ n <= Len(db')
    BY <1>1, <1>3
  <2>2. \A m \in 0..n : \A j, k \in 1..m : Filled(db', skipped, m, db'[j], db'[k])
    BY <1>1, <1>3, <2>1, PrefixGapless
  <2> QED BY <1>3, <2>2 DEF Gapless
<1>5. TypeOK'
  <2>1. UNCHANGED <<height, base, skipped, faults>> /\ pc' = "down"
    BY DEF Crash
  <2>2. latestBlock' = 0 /\ seen' = 0 /\ lastBlock' = 0 /\ i' = 0
    BY DEF Crash
  <2>3. crashes' \in 0..MaxCrashes
    BY DEF IndexInv, TypeOK, Crash
  <2>4. signal' \in BOOLEAN
    BY DEF Crash
  <2>5. 0 \in 0..MaxHeight /\ 0 \in -1..(MaxHeight + 1)
    OBVIOUS
  <2> QED BY <1>3, <2>1, <2>2, <2>3, <2>4, <2>5 DEF IndexInv, TypeOK
<1>6. Positions'
  BY <1>3 DEF IndexInv, TypeOK, Positions, Crash
<1>7. Reached' /\ skipped' = skipped
  BY DEF Reached, Crash, Serving
<1> QED BY <1>4, <1>5, <1>6, <1>7 DEF IndexInv

\* An empty index has no gap.
LEMMA InitIndex == Init => IndexInv
<1> SUFFICES ASSUME Init PROVE IndexInv
  OBVIOUS
<1>1. TypeOK
  <2>1. /\ 0 \in 0..MaxHeight /\ 0 \in -1..(MaxHeight + 1) /\ 1 \in 1..(MaxHeight + 1)
        /\ 0 \in 0..MaxCrashes /\ 0 \in 0..MaxFaults
    BY HeightNat
  <2>2. db \in Seq(1..MaxHeight)
    BY DEF Init
  <2>3. signal \in BOOLEAN
    BY DEF Init
  <2> QED BY <2>1, <2>2, <2>3 DEF Init, TypeOK
<1>2. Gapless(db, skipped) /\ Reached
  BY DEF Init, Gapless, Reached, Serving
<1>3. Positions
  BY DEF Init, Positions
<1> QED BY <1>1, <1>2, <1>3 DEF IndexInv

\* The invariant holds always.
LEMMA Invariant == Spec => []IndexInv
<1>1. IndexInv /\ [Next]_vars => IndexInv'
  BY QuietStep, ReadLastIndexedStep, IndexBlockStep, StartCommandStep, CommandIndexesStep,
     CrashStep DEF Next, OnStart, Service
<1> QED BY <1>1, InitIndex, PTL DEF Spec

-----------------------------------------------------------------------------
(* The results.                                                            *)

\* Blocks that are settled by the whole database are indexed, or skipped.
LEMMA FilledIsComplete ==
    ASSUME NEW from, NEW to, db \in Seq(1..MaxHeight),
           Filled(db, skipped, Len(db), from, to)
    PROVE  Complete(from, to)
<1> SUFFICES ASSUME NEW b \in from..to, HasEntries(b) PROVE b \in Indexed \cup skipped
  BY DEF Complete
<1>1. b \in skipped \/ \E l \in 1..Len(db) : db[l] = b
  BY DEF Filled, Settled
<1>2. DOMAIN db = 1..Len(db)
  OBVIOUS
<1> QED BY <1>1, <1>2 DEF Indexed, ToSet

\* TypeOK: every variable keeps its type, and the heights stay on the chain.
THEOREM IndexTypeCorrect == Spec => []TypeOK
  BY Invariant, PTL DEF IndexInv

\* NoGaps: between the first and the last indexed block every block with
\* Ethereum transactions is in the index, for every chain and any number of
\* crashes, lost batches, failed fetches and writes, and commands.
THEOREM IndexHasNoGaps == Spec => []NoGaps
<1>1. ASSUME IndexInv, db # <<>> PROVE Complete(FirstIndexedBlock, LastIndexedBlock)
  <2>1. db \in Seq(1..MaxHeight) /\ Gapless(db, skipped)
    BY <1>1 DEF IndexInv, TypeOK
  <2>2. PICK j \in 1..Len(db), k \in 1..Len(db) :
           FirstIndexedBlock = db[j] /\ LastIndexedBlock = db[k]
    BY <1>1, <2>1, IndexReaches
  <2>3. Len(db) \in 0..Len(db)
    BY <2>1
  <2> QED BY <2>1, <2>2, <2>3, FilledIsComplete DEF Gapless
<1>2. IndexInv => NoGaps
  BY <1>1 DEF NoGaps
<1> QED BY <1>2, Invariant, PTL

\* ReachedIsIndexed: everything up to the block that the running service has
\* reached is indexed, and everything up to the last block or down to the first
\* one when a command ends well.
THEOREM WhatIsReachedIsIndexed == Spec => []ReachedIsIndexed
<1>1. ASSUME IndexInv, Serving, db # <<>> PROVE Complete(FirstIndexedBlock, lastBlock)
  <2>1. db \in Seq(1..MaxHeight) /\ Gapless(db, skipped) /\ UpTo(db, skipped, lastBlock)
    BY <1>1 DEF IndexInv, TypeOK, Reached
  <2>2. PICK j \in 1..Len(db) : FirstIndexedBlock = db[j]
    BY <1>1, <2>1, IndexReaches
  <2> QED BY <2>1, <2>2, FilledIsComplete DEF UpTo
<1>2. ASSUME IndexInv, pc = "backward", CommandDone PROVE Complete(1, LastIndexedBlock)
  <2>1. /\ db \in Seq(1..MaxHeight) /\ Gapless(db, skipped) /\ DownTo(db, skipped, i + 1)
        /\ i <= 0 /\ i \in Int
    BY <1>2, HeightNat DEF IndexInv, TypeOK, Reached, CommandDone
  <2>2. CASE db = <<>>
    BY <2>2 DEF Complete, LastIndexedBlock
  <2>3. CASE db # <<>>
    <3>1. PICK k \in 1..Len(db) : LastIndexedBlock = db[k]
      BY <2>1, <2>3, IndexReaches
    <3>2. Filled(db, skipped, Len(db), i + 1, db[k]) /\ db[k] \in Int
      BY <2>1, HeightNat DEF DownTo
    <3>3. \A b \in 1..db[k] : b \in (i + 1)..db[k]
      BY <2>1, <3>2
    <3>4. Filled(db, skipped, Len(db), 1, db[k])
      BY <3>2, <3>3 DEF Filled
    <3> QED BY <2>1, <3>1, <3>4, FilledIsComplete
  <2> QED BY <2>2, <2>3
<1>3. ASSUME IndexInv, pc = "forward", CommandDone, db # <<>>
      PROVE  Complete(FirstIndexedBlock, height)
  <2>1. /\ db \in Seq(1..MaxHeight) /\ Gapless(db, skipped) /\ UpTo(db, skipped, i - 1)
        /\ height < i /\ i \in Int /\ height \in Int
    BY <1>3, HeightNat DEF IndexInv, TypeOK, Reached, CommandDone
  <2>2. PICK j \in 1..Len(db) : FirstIndexedBlock = db[j]
    BY <1>3, <2>1, IndexReaches
  <2>3. Filled(db, skipped, Len(db), db[j], i - 1) /\ db[j] \in Int
    BY <2>1, HeightNat DEF UpTo
  <2>4. \A b \in db[j]..height : b \in db[j]..(i - 1)
    BY <2>1, <2>3
  <2>5. Filled(db, skipped, Len(db), db[j], height)
    BY <2>3, <2>4 DEF Filled
  <2> QED BY <2>1, <2>2, <2>5, FilledIsComplete
<1>4. IndexInv => ReachedIsIndexed
  BY <1>1, <1>2, <1>3 DEF ReachedIsIndexed
<1> QED BY <1>4, Invariant, PTL

-----------------------------------------------------------------------------
(* The event system.                                                       *)

\* What a filter has behind it: before it is stored nobody uninstalls it,
\* while it is stored nobody has, and a request is made once.
UninstalledOnce ==
    \A f \in Filters :
        /\ stage[f] \notin {"live", "done"} => f \notin leaving \union errClosed
        /\ f \in filters => f \notin leaving \union errClosed
        /\ f \in leaving => f \notin errClosed

\* The inductive invariant.
EventInv ==
    /\ EventTypeOK
    /\ NeverClosedTwice
    /\ RegisteredAreServed
    /\ TopicChanIsServed
    /\ PollNeverWaits
    /\ NoLostConsumer
    /\ UninstalledOnce

-----------------------------------------------------------------------------
(* Types.                                                                  *)

\* The first element and the rest of a sequence that is not empty.
LEMMA HeadAndTail ==
    ASSUME NEW S, NEW s \in Seq(S), s # <<>>
    PROVE  Head(s) \in S /\ Tail(s) \in Seq(S)
  OBVIOUS

\* The empty sequence.
LEMMA EmptyIsSeq == ASSUME NEW S PROVE <<>> \in Seq(S)
  OBVIOUS

\* A sequence with one element more.
LEMMA AppendIsSeq ==
    ASSUME NEW S, NEW s \in Seq(S), NEW e \in S
    PROVE  Append(s, e) \in Seq(S)
  OBVIOUS

\* The elements of a sequence.
LEMMA ElementsOf ==
    ASSUME NEW S, NEW s \in Seq(S)
    PROVE  {s[p] : p \in DOMAIN s} \subseteq S
  OBVIOUS

\* The number of the next event.
LEMMA CountsOn ==
    ASSUME NEW m \in Nat, NEW n \in 0 .. m, n < m
    PROVE  n + 1 \in 1 .. m /\ n + 1 \in 0 .. m
  OBVIOUS

\* The initial state is well typed.
LEMMA InitTypeOK == EventInit => EventTypeOK
<1> SUFFICES ASSUME EventInit PROVE EventTypeOK
  OBVIOUS
<1>1. 0 \in 0 .. MaxEvents
  BY EventSystemAssumption
<1>2. responses \in Seq(Events) /\ hashes \in [Filters -> Seq(Events)]
  BY DEF EventInit
<1> QED
  BY <1>1, <1>2
  DEF EventInit, EventTypeOK, Deadlines, Places, Publishers, Channels

USE DEF api, es, consume, bus, topic, eventVars

\* Every step is well typed.
LEMMA NextTypeOK == EventTypeOK /\ EventNext => EventTypeOK'
<1> SUFFICES ASSUME EventTypeOK, EventNext PROVE EventTypeOK'
  OBVIOUS
<1> USE EventSystemAssumption
    DEF EventTypeOK, Deadlines, Places, Publishers, Channels, CreationFails,
        Unlocked
<1>1. ASSUME NEW f \in Filters, NewBlockFilter(f) PROVE EventTypeOK'
  BY <1>1, ZenonT(60) DEF NewBlockFilter
<1>2. ASSUME NEW f \in Filters, SubscribeTendermint(f) PROVE EventTypeOK'
  <2>1. creator' \in Filters \union {None} /\ tmSubscribed' \in BOOLEAN
    BY <1>2 DEF SubscribeTendermint
  <2>2. stage' \in [Filters -> Places]
    <3>1. \E place \in Places : stage' = [stage EXCEPT ![f] = place]
      BY <1>2 DEF SubscribeTendermint
    <3> QED
      BY <3>1
  <2> QED
    BY <2>1, <2>2, <1>2 DEF SubscribeTendermint
<1>3. ASSUME NEW f \in Filters, FindTopic(f) PROVE EventTypeOK'
  BY <1>3 DEF FindTopic
<1>4. ASSUME NEW f \in Filters, Register(f) PROVE EventTypeOK'
  BY <1>4 DEF Register
<1>5. ASSUME NEW f \in Filters, UninstallFilter(f) PROVE EventTypeOK'
  BY <1>5 DEF UninstallFilter
<1>6. ASSUME NEW f \in Filters, GetFilterChanges(f) PROVE EventTypeOK'
  <2>1. hashes' \in [Filters -> Seq(Events)]
    <3>1. hashes' = [hashes EXCEPT ![f] = <<>>]
      BY <1>6 DEF GetFilterChanges
    <3>2. hashes \in [Filters -> Seq(Events)]
      OBVIOUS
    <3>3. <<>> \in Seq(Events)
      BY EmptyIsSeq
    <3> QED
      BY <3>1, <3>2, <3>3
  <2>2. polled' \in [Filters -> SUBSET Events]
    <3>1. hashes[f] \in Seq(Events) /\ polled[f] \subseteq Events
      OBVIOUS
    <3>2. {hashes[f][p] : p \in DOMAIN hashes[f]} \subseteq Events
      BY <3>1, ElementsOf
    <3> DEFINE handed == polled[f] \union {hashes[f][p] : p \in DOMAIN hashes[f]}
    <3>3. handed \in SUBSET Events
      BY <3>1, <3>2
    <3>4. polled' = [polled EXCEPT ![f] = handed]
      BY <1>6 DEF GetFilterChanges
    <3> HIDE DEF handed
    <3> QED
      BY <3>3, <3>4
  <2> QED
    BY <2>1, <2>2, <1>6 DEF GetFilterChanges
<1>7. ASSUME NEW f \in Filters, DeadlineFires(f) PROVE EventTypeOK'
  BY <1>7 DEF DeadlineFires
<1>8. ASSUME NEW f \in Filters, StoreEvent(f) PROVE EventTypeOK'
  <2>1. Append(hashes[f], inbox[f]) \in Seq(Events)
    BY <1>8, AppendIsSeq DEF StoreEvent
  <2>2. hashes' \in [Filters -> Seq(Events)]
    BY <2>1, <1>8 DEF StoreEvent
  <2> QED
    BY <2>2, <1>8 DEF StoreEvent
<1>9. ASSUME NEW f \in Filters, Ends(f) PROVE EventTypeOK'
  BY <1>9 DEF Ends
<1>10. ASSUME NEW f \in Filters, Install(f) PROVE EventTypeOK'
  BY <1>10, ZenonT(60) DEF Install, AddTopic
<1>11. ASSUME NEW f \in Filters, Uninstall(f) PROVE EventTypeOK'
  BY <1>11, ZenonT(60) DEF Uninstall, RemoveUnusedTopic
<1>12. ASSUME NEW f \in Filters, Publish(f) PROVE EventTypeOK'
  <2>1. inbox' \in [Filters -> Events \union {None}]
    <3>1. PICK heard \in SUBSET {g \in subscribers : /\ stage[g] = "live"
                                                    /\ inbox[g] = None} :
             inbox' = [g \in Filters |-> IF g \in heard THEN message[f]
                                                        ELSE inbox[g]]
      BY <1>12 DEF Publish
    <3>2. message[f] \in Events \union {None}
      OBVIOUS
    <3> QED
      BY <3>1, <3>2
  <2>2. panic' \in {"none", "send on closed channel", "close of closed channel"}
    BY <1>12 DEF Publish
  <2> QED
    BY <2>1, <2>2, <1>12 DEF Publish
<1>13. ASSUME NEW f \in Filters, CloseAllSubscribers(f) PROVE EventTypeOK'
  BY <1>13 DEF CloseAllSubscribers
<1>14. ASSUME NEW f \in Filters, DeleteTopic(f) PROVE EventTypeOK'
  BY <1>14 DEF DeleteTopic
<1>15. CASE TimeoutLoop
  BY <1>15 DEF TimeoutLoop, Expired
<1>16. CASE Emit
  <2>1. emitted + 1 \in Events /\ emitted' \in 0 .. MaxEvents
    <3>1. emitted \in 0 .. MaxEvents /\ emitted < MaxEvents /\ MaxEvents \in Nat
      BY <1>16 DEF Emit
    <3>2. emitted + 1 \in 1 .. MaxEvents /\ emitted + 1 \in 0 .. MaxEvents
      BY <3>1, CountsOn
    <3> QED
      BY <3>2, <1>16 DEF Emit, Events
  <2>2. responses' \in Seq(Events)
    BY <2>1, <1>16, AppendIsSeq DEF Emit
  <2> QED
    BY <2>1, <2>2, <1>16 DEF Emit
<1>17. CASE LookUp
  <2>1. Head(responses) \in Events /\ Tail(responses) \in Seq(Events)
    BY <1>17, HeadAndTail DEF LookUp
  <2>2. sending' \in [event : Events, to : Filters] \union {Idle}
    BY <2>1, <1>17 DEF LookUp
  <2> QED
    BY <2>1, <2>2, <1>17 DEF LookUp
<1>18. CASE Send
  BY <1>18 DEF Send, Idle
<1>19. CASE Drop
  BY <1>19 DEF Drop
<1>20. CASE SendOnClosed
  BY <1>20 DEF SendOnClosed
<1> QED
  BY <1>1, <1>2, <1>3, <1>4, <1>5, <1>6, <1>7, <1>8, <1>9, <1>10, <1>11,
     <1>12, <1>13, <1>14, <1>15, <1>16, <1>17, <1>18, <1>19, <1>20
  DEF EventNext, Creation, Consumer, ChannelClosed, ErrClosed, EventLoop,
      PublishTopic, ConsumeEvents
-----------------------------------------------------------------------------
(* The invariant.                                                          *)

\* The initial state satisfies the invariant.
LEMMA InitInv == EventInit => EventInv
  BY InitTypeOK
  DEF EventInit, EventInv, NeverClosedTwice, RegisteredAreServed,
      TopicChanIsServed, PollNeverWaits, NoLostConsumer, UninstalledOnce

\* Every step preserves it.
LEMMA NextInv == EventInv /\ EventNext => EventInv'
<1> SUFFICES ASSUME EventInv, EventNext PROVE EventInv'
  OBVIOUS
<1> DEFINE Safe ==
      /\ NeverClosedTwice /\ RegisteredAreServed /\ TopicChanIsServed
      /\ PollNeverWaits /\ NoLostConsumer /\ UninstalledOnce
<1>0. EventTypeOK'
  BY NextTypeOK DEF EventInv
<1>a. /\ filters \subseteq Filters /\ leaving \subseteq Filters
      /\ subscribers \subseteq Filters
      /\ topicChan \in Filters \union {None}
      /\ stage \in [Filters -> Places] /\ deadline \in [Filters -> Deadlines]
      /\ eventCh \in [Filters -> Channels] /\ chan \in [Filters -> Channels]
      /\ publisher \in [Filters -> Publishers]
  BY DEF EventInv, EventTypeOK
<1>b. Safe
  BY DEF EventInv
<1> USE EventSystemAssumption
    DEF CreationFails, NeverClosedTwice, RegisteredAreServed,
        TopicChanIsServed, PollNeverWaits, NoLostConsumer, UninstalledOnce
<1>1. ASSUME NEW f \in Filters, NewBlockFilter(f) PROVE Safe'
  BY <1>1, <1>a, <1>b DEF NewBlockFilter
<1>2. ASSUME NEW f \in Filters, SubscribeTendermint(f) PROVE Safe'
  BY <1>2, <1>a, <1>b DEF SubscribeTendermint
<1>3. ASSUME NEW f \in Filters, FindTopic(f) PROVE Safe'
  BY <1>3, <1>a, <1>b, ZenonT(60) DEF FindTopic
<1>4. ASSUME NEW f \in Filters, Register(f) PROVE Safe'
  BY <1>4, <1>a, <1>b DEF Register
<1>5. ASSUME NEW f \in Filters, UninstallFilter(f) PROVE Safe'
  BY <1>5, <1>a, <1>b DEF UninstallFilter
<1>6. ASSUME NEW f \in Filters, GetFilterChanges(f) PROVE Safe'
  BY <1>6, <1>a, <1>b DEF GetFilterChanges
<1>7. ASSUME NEW f \in Filters, DeadlineFires(f) PROVE Safe'
  BY <1>7, <1>a, <1>b DEF DeadlineFires
<1>8. ASSUME NEW f \in Filters, StoreEvent(f) PROVE Safe'
  BY <1>8, <1>a, <1>b DEF StoreEvent
<1>9. ASSUME NEW f \in Filters, Ends(f) PROVE Safe'
  BY <1>9, <1>a, <1>b DEF Ends
<1>10. ASSUME NEW f \in Filters, Install(f) PROVE Safe'
  <2>1. NeverClosedTwice' /\ PollNeverWaits'
    BY <1>10, <1>b DEF Install
  <2>2. RegisteredAreServed' /\ NoLostConsumer' /\ UninstalledOnce'
    BY <1>10, <1>a, <1>b DEF Install
  <2>3. TopicChanIsServed'
    <3>1. CASE topics = None
      <4>1. /\ topicChan' = f
            /\ chan' = [chan EXCEPT ![f] = "open"]
            /\ publisher' = [publisher EXCEPT ![f] = "receiving"]
        BY <1>10, <3>1 DEF Install, AddTopic
      <4>2. chan'[f] = "open" /\ publisher'[f] = "receiving"
        BY <4>1, <1>a
      <4> QED
        BY <4>1, <4>2
    <3>2. CASE topics # None
      BY <1>10, <1>b, <3>2 DEF Install, AddTopic
    <3> QED
      BY <3>1, <3>2
  <2> QED
    BY <2>1, <2>2, <2>3
<1>11. ASSUME NEW f \in Filters, Uninstall(f) PROVE Safe'
  BY <1>11, <1>a, <1>b DEF Uninstall, RemoveUnusedTopic, ClosesTwice
<1>12. ASSUME NEW f \in Filters, Publish(f) PROVE Safe'
  BY <1>12, <1>a, <1>b DEF Publish
<1>13. ASSUME NEW f \in Filters, CloseAllSubscribers(f) PROVE Safe'
  BY <1>13, <1>a, <1>b DEF CloseAllSubscribers
<1>14. ASSUME NEW f \in Filters, DeleteTopic(f) PROVE Safe'
  BY <1>14, <1>a, <1>b DEF DeleteTopic
<1>15. ASSUME TimeoutLoop PROVE Safe'
  BY <1>15, <1>a, <1>b DEF TimeoutLoop, Expired
<1>16. ASSUME Emit PROVE Safe'
  BY <1>16, <1>a, <1>b DEF Emit
<1>17. ASSUME LookUp PROVE Safe'
  BY <1>17, <1>a, <1>b DEF LookUp
<1>18. ASSUME Send PROVE Safe'
  BY <1>18, <1>a, <1>b DEF Send
<1>19. ASSUME Drop PROVE Safe'
  BY <1>19, <1>a, <1>b DEF Drop
<1>20. ASSUME SendOnClosed PROVE Safe'
  BY <1>20, <1>a, <1>b DEF SendOnClosed
<1>21. Safe'
  BY <1>1, <1>2, <1>3, <1>4, <1>5, <1>6, <1>7, <1>8, <1>9, <1>10, <1>11,
     <1>12, <1>13, <1>14, <1>15, <1>16, <1>17, <1>18, <1>19, <1>20
  DEF EventNext, Creation, Consumer, ChannelClosed, ErrClosed, EventLoop,
      PublishTopic, ConsumeEvents
<1> QED
  BY <1>0, <1>21 DEF EventInv

\* The invariant holds in every reachable state.
THEOREM Invariance == EventSpec => []EventInv
<1>1. EventInv /\ UNCHANGED eventVars => EventInv'
  BY ZenonT(60) DEF EventInv, EventTypeOK, NeverClosedTwice, RegisteredAreServed,
         TopicChanIsServed, PollNeverWaits, NoLostConsumer, UninstalledOnce
<1> QED
  BY InitInv, NextInv, <1>1, PTL DEF EventSpec

\* Every variable has its type in every reachable state.
THEOREM EventTypeCorrect == EventSpec => []EventTypeOK
<1>1. EventInv => EventTypeOK
  BY DEF EventInv
<1> QED
  BY <1>1, Invariance, PTL

\* eventLoop and the publishers never close a channel twice, whatever calls,
\* time-outs and late publishers interleave.
THEOREM ChannelsClosedOnce == EventSpec => []NeverClosedTwice
<1>1. EventInv => NeverClosedTwice
  BY DEF EventInv
<1> QED
  BY <1>1, Invariance, PTL

\* What the bus publishes to is open and read by a running consumer, and
\* consumeEvents never finds a closed channel, nor one without a publisher.
THEOREM TopicsAreServed == EventSpec => []TopicsServed
<1>1. EventInv => TopicsServed
  BY DEF EventInv, TopicsServed
<1> QED
  BY <1>1, Invariance, PTL

\* A poll never waits for a deadline that timeoutLoop has taken.
THEOREM PollsReturn == EventSpec => []PollNeverWaits
<1>1. EventInv => PollNeverWaits
  BY DEF EventInv
<1> QED
  BY <1>1, Invariance, PTL

\* A stored filter has its consumer, and a consumer its filter or the request
\* that will end it.
THEOREM ConsumersAccounted == EventSpec => []NoLostConsumer
<1>1. EventInv => NoLostConsumer
  BY DEF EventInv
<1> QED
  BY <1>1, Invariance, PTL

-----------------------------------------------------------------------------
(* Events arrive once.                                                     *)

\* The elements of a sequence, and that it has each of them once.
Members(s) == {s[p] : p \in DOMAIN s}
Distinct(s) == \A p, j \in DOMAIN s : s[p] = s[j] => p = j

\* Event e has been emitted, and no consumer has received it: it is among the
\* responses, or consumeEvents or a publisher has it.
OnItsWay(e) ==
    \/ e \in Members(responses)
    \/ e = sending.event
    \/ \E c \in Filters : e = message[c]

\* Event e has reached filter f.
Arrived(f, e) == e = inbox[f] \/ e \in Members(hashes[f]) \/ e \in polled[f]

\* Nobody has an event that is still to be emitted.
OnlyEmitted ==
    \A e \in Events :
        OnItsWay(e) \/ (\E f \in Filters : Arrived(f, e)) => e <= emitted

\* An event is in one place on its way, and has arrived nowhere.
InOnePlace ==
    /\ Distinct(responses)
    /\ sending.event \notin Members(responses)
    /\ \A c \in Filters : message[c] # None =>
          /\ message[c] \notin Members(responses)
          /\ message[c] # sending.event
          /\ \A d \in Filters : message[d] = message[c] => c = d
    /\ \A e \in Events, f \in Filters : ~(OnItsWay(e) /\ Arrived(f, e))

\* A filter has an event in one place, once.
ArrivedOnce ==
    \A f \in Filters :
        /\ inbox[f] # None => inbox[f] \notin Members(hashes[f]) \union polled[f]
        /\ Distinct(hashes[f])
        /\ Members(hashes[f]) \intersect polled[f] = {}

EventsOnce == OnlyEmitted /\ InOnePlace /\ ArrivedOnce

\* An event appended to a queue is in it, once if it was not there before.
LEMMA AppendMember ==
    ASSUME NEW S, NEW s \in Seq(S), NEW e \in S
    PROVE  /\ Members(Append(s, e)) = Members(s) \union {e}
           /\ Distinct(s) /\ e \notin Members(s) => Distinct(Append(s, e))
<1>1. /\ Len(s) \in Nat /\ DOMAIN s = 1 .. Len(s)
      /\ DOMAIN Append(s, e) = 1 .. (Len(s) + 1)
      /\ \A p \in 1 .. Len(s) : Append(s, e)[p] = s[p]
      /\ Append(s, e)[Len(s) + 1] = e
  OBVIOUS
<1>2. \A p \in DOMAIN Append(s, e) : p \in DOMAIN s \/ p = Len(s) + 1
  BY <1>1
<1>3. Members(Append(s, e)) = Members(s) \union {e}
  <2>1. ASSUME NEW x \in Members(s) PROVE x \in Members(Append(s, e))
    BY <1>1 DEF Members
  <2>2. e \in Members(Append(s, e))
    BY <1>1 DEF Members
  <2>3. ASSUME NEW x \in Members(Append(s, e)) PROVE x \in Members(s) \union {e}
    BY <1>1, <1>2 DEF Members
  <2> QED
    BY <2>1, <2>2, <2>3
<1>4. ASSUME Distinct(s), e \notin Members(s),
             NEW p \in DOMAIN Append(s, e), NEW j \in DOMAIN Append(s, e),
             Append(s, e)[p] = Append(s, e)[j]
      PROVE  p = j
  <2>1. \A k \in DOMAIN s : s[k] # e
    BY <1>4 DEF Members
  <2> QED
    BY <1>1, <1>2, <1>4, <2>1 DEF Distinct
<1> QED
  BY <1>3, <1>4 DEF Distinct

\* The event taken from a queue is no longer in it.
LEMMA TailMembers ==
    ASSUME NEW S, NEW s \in Seq(S), s # <<>>
    PROVE  /\ Head(s) \in Members(s)
           /\ Members(Tail(s)) \subseteq Members(s)
           /\ Distinct(s) => Distinct(Tail(s)) /\ Head(s) \notin Members(Tail(s))
<1>1. /\ Len(s) \in Nat \ {0} /\ DOMAIN s = 1 .. Len(s) /\ Head(s) = s[1]
      /\ DOMAIN Tail(s) = 1 .. (Len(s) - 1)
      /\ \A p \in DOMAIN Tail(s) : p + 1 \in DOMAIN s /\ Tail(s)[p] = s[p + 1]
  OBVIOUS
<1>2. Head(s) \in Members(s) /\ Members(Tail(s)) \subseteq Members(s)
  <2>1. 1 \in DOMAIN s
    BY <1>1
  <2> QED
    BY <1>1, <2>1 DEF Members
<1>3. ASSUME Distinct(s) PROVE Distinct(Tail(s)) /\ Head(s) \notin Members(Tail(s))
  <2>1. ASSUME NEW p \in DOMAIN Tail(s), NEW j \in DOMAIN Tail(s), Tail(s)[p] = Tail(s)[j]
        PROVE  p = j
    <3>1. p + 1 = j + 1
      BY <1>1, <1>3, <2>1 DEF Distinct
    <3>2. p \in Nat /\ j \in Nat
      BY <1>1
    <3> QED
      BY <3>1, <3>2
  <2>2. ASSUME NEW p \in DOMAIN Tail(s) PROVE Tail(s)[p] # Head(s)
    <3>1. 1 \in DOMAIN s /\ p + 1 # 1
      BY <1>1
    <3> QED
      BY <1>1, <1>3, <3>1 DEF Distinct
  <2> QED
    BY <2>1, <2>2 DEF Distinct, Members
<1> QED
  BY <1>2, <1>3

\* An empty queue holds no event.
LEMMA NoMembers == Members(<<>>) = {} /\ Distinct(<<>>)
  BY DEF Members, Distinct

\* What a queue holds has its type.
LEMMA MembersAre == ASSUME NEW S, NEW s \in Seq(S) PROVE Members(s) \subseteq S
  BY ElementsOf DEF Members

\* Nothing that holds an event changes.
LEMMA EventsStand ==
    ASSUME EventsOnce,
           UNCHANGED <<responses, sending, message, inbox, hashes, polled, emitted>>
    PROVE  EventsOnce'
  BY DEF EventsOnce, OnlyEmitted, InOnePlace, ArrivedOnce, OnItsWay, Arrived

\* No event is anywhere at the start.
LEMMA InitEventsOnce == EventInit => EventsOnce
<1> SUFFICES ASSUME EventInit PROVE EventsOnce
  OBVIOUS
<1>1. /\ responses = <<>> /\ sending.event = None /\ emitted = 0
      /\ \A f \in Filters : /\ message[f] = None /\ inbox[f] = None
                            /\ hashes[f] = <<>> /\ polled[f] = {}
  BY DEF EventInit, Idle
<1>2. None \notin Events
  BY EventSystemAssumption DEF Events
<1> QED
  BY <1>1, <1>2, NoMembers
  DEF EventsOnce, OnlyEmitted, InOnePlace, ArrivedOnce, OnItsWay, Arrived

\* Every step moves an event from one place to the next, or drops it.
LEMMA NextEventsOnce == EventTypeOK /\ EventsOnce /\ EventNext => EventsOnce'
<1> SUFFICES ASSUME EventTypeOK, EventsOnce, EventNext PROVE EventsOnce'
  OBVIOUS
<1>t. /\ responses \in Seq(Events) /\ emitted \in 0 .. MaxEvents
      /\ sending \in [event : Events, to : Filters] \union {Idle}
      /\ message \in [Filters -> Events \union {None}]
      /\ inbox \in [Filters -> Events \union {None}]
      /\ hashes \in [Filters -> Seq(Events)] /\ polled \in [Filters -> SUBSET Events]
  BY DEF EventTypeOK
<1>n. None \notin Events /\ Idle.event = None
  BY EventSystemAssumption DEF Events, Idle
<1>m. /\ Members(responses) \subseteq Events
      /\ \A f \in Filters : Members(hashes[f]) \subseteq Events
  BY <1>t, MembersAre
<1>o. OnlyEmitted /\ InOnePlace /\ ArrivedOnce
  BY DEF EventsOnce
<1>1. CASE Emit
  <2>1. /\ emitted' = emitted + 1 /\ responses' = Append(responses, emitted + 1)
        /\ UNCHANGED <<sending, message, inbox, hashes, polled>>
    BY <1>1 DEF Emit
  <2>2. emitted \in Nat /\ emitted + 1 \in Events /\ \A e \in Events : e \in Nat
    BY <1>1, <1>t, EventSystemAssumption DEF Emit, Events
  <2>3. ~OnItsWay(emitted + 1) /\ \A f \in Filters : ~Arrived(f, emitted + 1)
    BY <1>o, <2>2 DEF OnlyEmitted
  <2>4. Members(responses') = Members(responses) \union {emitted + 1}
    BY <1>t, <2>1, <2>2, AppendMember
  <2>5. Distinct(responses')
    BY <1>o, <1>t, <2>1, <2>2, <2>3, AppendMember DEF InOnePlace, OnItsWay
  <2>6. \A e : OnItsWay(e)' => OnItsWay(e) \/ e = emitted + 1
    BY <2>1, <2>4 DEF OnItsWay
  <2>7. \A e, f : Arrived(f, e)' <=> Arrived(f, e)
    BY <2>1 DEF Arrived
  <2>8. OnlyEmitted'
    BY <1>o, <2>1, <2>2, <2>6, <2>7 DEF OnlyEmitted
  <2>9. InOnePlace'
    <3>1. sending'.event \notin Members(responses')
      BY <1>o, <2>1, <2>3, <2>4 DEF InOnePlace, OnItsWay
    <3>2. ASSUME NEW c \in Filters, message'[c] # None
          PROVE  /\ message'[c] \notin Members(responses')
                 /\ message'[c] # sending'.event
                 /\ \A d \in Filters : message'[d] = message'[c] => c = d
      BY <1>o, <2>1, <2>3, <2>4, <3>2 DEF InOnePlace, OnItsWay
    <3>3. \A e \in Events, f \in Filters : ~(OnItsWay(e)' /\ Arrived(f, e)')
      BY <1>o, <2>3, <2>6, <2>7 DEF InOnePlace
    <3> QED
      BY <2>5, <3>1, <3>2, <3>3 DEF InOnePlace
  <2>10. ArrivedOnce'
    BY <1>o, <2>1 DEF ArrivedOnce
  <2> QED
    BY <2>8, <2>9, <2>10 DEF EventsOnce
<1>2. CASE LookUp
  <2>1. /\ sending = Idle /\ responses # <<>> /\ responses' = Tail(responses)
        /\ sending'.event \in {None, Head(responses)}
        /\ UNCHANGED <<emitted, message, inbox, hashes, polled>>
    BY <1>2, <1>n DEF LookUp
  <2>2. /\ Head(responses) \in Members(responses)
        /\ Members(responses') \subseteq Members(responses)
        /\ Distinct(responses') /\ Head(responses) \notin Members(responses')
    BY <1>o, <1>t, <2>1, TailMembers DEF InOnePlace
  <2>3. \A e \in Events : OnItsWay(e)' => OnItsWay(e)
    BY <1>n, <2>1, <2>2 DEF OnItsWay
  <2>4. \A e, f : Arrived(f, e)' <=> Arrived(f, e)
    BY <2>1 DEF Arrived
  <2>5. OnlyEmitted'
    BY <1>o, <2>1, <2>3, <2>4 DEF OnlyEmitted
  <2>6. sending'.event \notin Members(responses')
    BY <1>m, <1>n, <2>1, <2>2
  <2>7. ASSUME NEW c \in Filters, message'[c] # None
        PROVE  /\ message'[c] \notin Members(responses')
               /\ message'[c] # sending'.event
               /\ \A d \in Filters : message'[d] = message'[c] => c = d
    BY <1>o, <2>1, <2>2, <2>7 DEF InOnePlace
  <2>8. \A e \in Events, f \in Filters : ~(OnItsWay(e)' /\ Arrived(f, e)')
    BY <1>o, <2>3, <2>4 DEF InOnePlace
  <2>9. InOnePlace'
    BY <2>2, <2>6, <2>7, <2>8 DEF InOnePlace
  <2>10. ArrivedOnce'
    BY <1>o, <2>1 DEF ArrivedOnce
  <2> QED
    BY <2>5, <2>9, <2>10 DEF EventsOnce
<1>3. CASE Send
  <2>1. PICK c \in Filters : /\ sending = [event |-> sending.event, to |-> c]
                             /\ sending.event \in Events
                             /\ message' = [message EXCEPT ![c] = sending.event]
                             /\ sending'.event = None
                             /\ UNCHANGED <<responses, emitted, inbox, hashes, polled>>
    BY <1>3, <1>n, <1>t DEF Send
  <2>2. message'[c] = sending.event /\ \A d \in Filters : d # c => message'[d] = message[d]
    BY <1>t, <2>1
  <2>3. \A e \in Events : OnItsWay(e)' => OnItsWay(e)
    BY <1>n, <2>1, <2>2 DEF OnItsWay
  <2>4. \A e, f : Arrived(f, e)' <=> Arrived(f, e)
    BY <2>1 DEF Arrived
  <2>5. OnlyEmitted'
    BY <1>o, <2>1, <2>3, <2>4 DEF OnlyEmitted
  <2>6. sending'.event \notin Members(responses')
    BY <1>m, <1>n, <2>1
  <2>7. ASSUME NEW a \in Filters, message'[a] # None
        PROVE  /\ message'[a] \notin Members(responses')
               /\ message'[a] # sending'.event
               /\ \A d \in Filters : message'[d] = message'[a] => a = d
    <3>1. CASE a = c
      BY <1>n, <1>o, <2>1, <2>2, <3>1 DEF InOnePlace
    <3>2. CASE a # c
      BY <1>n, <1>o, <2>1, <2>2, <2>7, <3>2 DEF InOnePlace
    <3> QED
      BY <3>1, <3>2
  <2>8. \A e \in Events, f \in Filters : ~(OnItsWay(e)' /\ Arrived(f, e)')
    BY <1>o, <2>3, <2>4 DEF InOnePlace
  <2>9. InOnePlace'
    BY <1>o, <2>1, <2>6, <2>7, <2>8 DEF InOnePlace
  <2>10. ArrivedOnce'
    BY <1>o, <2>1 DEF ArrivedOnce
  <2> QED
    BY <2>5, <2>9, <2>10 DEF EventsOnce
<1>4. CASE Drop
  <2>1. sending'.event = None
        /\ UNCHANGED <<responses, emitted, message, inbox, hashes, polled>>
    BY <1>4, <1>n DEF Drop
  <2>2. \A e \in Events : OnItsWay(e)' => OnItsWay(e)
    BY <1>n, <2>1 DEF OnItsWay
  <2>3. \A e, f : Arrived(f, e)' <=> Arrived(f, e)
    BY <2>1 DEF Arrived
  <2>4. OnlyEmitted' /\ ArrivedOnce'
    BY <1>o, <2>1, <2>2, <2>3 DEF OnlyEmitted, ArrivedOnce
  <2>5. InOnePlace'
    BY <1>m, <1>n, <1>o, <2>1, <2>2, <2>3 DEF InOnePlace
  <2> QED
    BY <2>4, <2>5 DEF EventsOnce
<1>5. ASSUME NEW c \in Filters, Publish(c) PROVE EventsOnce'
  <2>1. PICK heard \in SUBSET {f \in subscribers : stage[f] = "live" /\ inbox[f] = None} :
           inbox' = [f \in Filters |-> IF f \in heard THEN message[c] ELSE inbox[f]]
    BY <1>5 DEF Publish
  <2>2. /\ message' = [message EXCEPT ![c] = None]
        /\ UNCHANGED <<responses, sending, emitted, hashes, polled>>
    BY <1>5 DEF Publish
  <2>3. message'[c] = None /\ \A d \in Filters : d # c => message'[d] = message[d]
    BY <1>t, <2>2
  <2>4. ASSUME NEW f \in Filters
        PROVE  inbox'[f] = inbox[f] \/ (inbox[f] = None /\ inbox'[f] = message[c])
    <3>1. inbox'[f] = IF f \in heard THEN message[c] ELSE inbox[f]
      BY <2>1
    <3>2. f \in heard => inbox[f] = None
      OBVIOUS
    <3> QED
      BY <3>1, <3>2
  <2>5. \A e \in Events : OnItsWay(e)' => OnItsWay(e) /\ e # message[c]
    <3>1. ASSUME NEW e \in Events, OnItsWay(e)'
          PROVE  OnItsWay(e) /\ e # message[c]
      <4>1. CASE e \in Members(responses) \/ e = sending.event
        BY <1>n, <1>o, <4>1 DEF OnItsWay, InOnePlace
      <4>2. CASE \E d \in Filters : e = message'[d]
        <5>1. PICK d \in Filters : e = message'[d]
          BY <4>2
        <5>2. d # c /\ e = message[d] /\ e # None
          BY <1>n, <2>3, <5>1
        <5> QED
          BY <1>o, <5>2 DEF OnItsWay, InOnePlace
      <4> QED
        BY <2>2, <3>1, <4>1, <4>2 DEF OnItsWay
    <3> QED
      BY <3>1
  <2>6. \A e \in Events : \A f \in Filters :
           Arrived(f, e)' => Arrived(f, e) \/ e = message[c]
    BY <1>n, <2>2, <2>4 DEF Arrived
  <2>7. \A e \in Events : e = message[c] => OnItsWay(e)
    BY DEF OnItsWay
  <2>8. OnlyEmitted'
    BY <1>o, <2>2, <2>5, <2>6, <2>7 DEF OnlyEmitted
  <2>9. \A e \in Events, f \in Filters : ~(OnItsWay(e)' /\ Arrived(f, e)')
    BY <1>o, <2>5, <2>6 DEF InOnePlace
  <2>10. InOnePlace'
    BY <1>o, <2>2, <2>3, <2>9 DEF InOnePlace
  <2>11. ArrivedOnce'
    <3> SUFFICES ASSUME NEW f \in Filters
                 PROVE  /\ inbox'[f] # None =>
                             inbox'[f] \notin Members(hashes[f]) \union polled[f]
                        /\ Distinct(hashes[f])
                        /\ Members(hashes[f]) \intersect polled[f] = {}
      BY <2>2 DEF ArrivedOnce
    <3>1. CASE inbox'[f] = inbox[f]
      BY <1>o, <3>1 DEF ArrivedOnce
    <3>2. CASE inbox'[f] = message[c] /\ message[c] # None
      <4>1. message[c] \in Events /\ OnItsWay(message[c])
        BY <1>t, <2>7, <3>2
      <4>2. ~Arrived(f, message[c])
        BY <1>o, <4>1 DEF InOnePlace
      <4> QED
        BY <1>o, <3>2, <4>2 DEF Arrived, ArrivedOnce
    <3>3. CASE inbox'[f] = None
      BY <1>o, <3>3 DEF ArrivedOnce
    <3> QED
      BY <2>4, <3>1, <3>2, <3>3
  <2> QED
    BY <2>8, <2>10, <2>11 DEF EventsOnce
<1>6. ASSUME NEW f \in Filters, StoreEvent(f) PROVE EventsOnce'
  <2>1. /\ inbox[f] \in Events /\ inbox' = [inbox EXCEPT ![f] = None]
        /\ hashes' = IF f \in filters THEN [hashes EXCEPT ![f] = Append(hashes[f], inbox[f])]
                                      ELSE hashes
        /\ UNCHANGED <<responses, sending, message, emitted, polled>>
    BY <1>6, <1>t DEF StoreEvent
  <2>2. /\ inbox'[f] = None
        /\ \A g \in Filters : g # f => inbox'[g] = inbox[g] /\ hashes'[g] = hashes[g]
        /\ hashes'[f] \in {hashes[f], Append(hashes[f], inbox[f])}
    BY <1>t, <2>1
  <2>3. /\ Members(hashes'[f]) \subseteq Members(hashes[f]) \union {inbox[f]}
        /\ Distinct(hashes'[f])
    <3>1. hashes[f] \in Seq(Events) /\ Distinct(hashes[f])
          /\ inbox[f] \notin Members(hashes[f])
      BY <1>n, <1>o, <1>t, <2>1 DEF ArrivedOnce
    <3>2. /\ Members(Append(hashes[f], inbox[f])) = Members(hashes[f]) \union {inbox[f]}
          /\ Distinct(Append(hashes[f], inbox[f]))
      BY <2>1, <3>1, AppendMember
    <3> QED
      BY <2>2, <3>1, <3>2
  <2>4. \A e : OnItsWay(e)' <=> OnItsWay(e)
    BY <2>1 DEF OnItsWay
  <2>5. \A e \in Events : \A g \in Filters : Arrived(g, e)' => Arrived(g, e)
    BY <1>n, <2>1, <2>2, <2>3 DEF Arrived
  <2>6. OnlyEmitted'
    BY <1>o, <2>1, <2>4, <2>5 DEF OnlyEmitted
  <2>7. InOnePlace'
    BY <1>o, <2>1, <2>4, <2>5 DEF InOnePlace
  <2>8. ArrivedOnce'
    <3> SUFFICES ASSUME NEW g \in Filters
                 PROVE  /\ inbox'[g] # None =>
                             inbox'[g] \notin Members(hashes'[g]) \union polled[g]
                        /\ Distinct(hashes'[g])
                        /\ Members(hashes'[g]) \intersect polled[g] = {}
      BY <2>1 DEF ArrivedOnce
    <3>1. CASE g = f
      BY <1>n, <1>o, <2>1, <2>2, <2>3, <3>1 DEF ArrivedOnce
    <3>2. CASE g # f
      BY <1>o, <2>2, <3>2 DEF ArrivedOnce
    <3> QED
      BY <3>1, <3>2
  <2> QED
    BY <2>6, <2>7, <2>8 DEF EventsOnce
<1>7. ASSUME NEW f \in Filters, GetFilterChanges(f) PROVE EventsOnce'
  <2>1. /\ hashes' = [hashes EXCEPT ![f] = <<>>]
        /\ polled' = [polled EXCEPT ![f] = polled[f] \union Members(hashes[f])]
        /\ UNCHANGED <<responses, sending, message, emitted, inbox>>
    BY <1>7 DEF GetFilterChanges, Members
  <2>2. /\ hashes'[f] = <<>> /\ polled'[f] = polled[f] \union Members(hashes[f])
        /\ \A g \in Filters : g # f => hashes'[g] = hashes[g] /\ polled'[g] = polled[g]
    BY <1>t, <2>1
  <2>3. Members(hashes'[f]) = {} /\ Distinct(hashes'[f])
    BY <2>2, NoMembers
  <2>4. \A e : OnItsWay(e)' <=> OnItsWay(e)
    BY <2>1 DEF OnItsWay
  <2>5. \A e \in Events : \A g \in Filters : Arrived(g, e)' => Arrived(g, e)
    BY <2>1, <2>2, <2>3 DEF Arrived
  <2>6. OnlyEmitted' /\ InOnePlace'
    BY <1>o, <2>1, <2>4, <2>5 DEF OnlyEmitted, InOnePlace
  <2>7. ArrivedOnce'
    <3> SUFFICES ASSUME NEW g \in Filters
                 PROVE  /\ inbox[g] # None =>
                             inbox[g] \notin Members(hashes'[g]) \union polled'[g]
                        /\ Distinct(hashes'[g])
                        /\ Members(hashes'[g]) \intersect polled'[g] = {}
      BY <2>1 DEF ArrivedOnce
    <3>1. CASE g = f
      BY <1>o, <2>2, <2>3, <3>1 DEF ArrivedOnce
    <3>2. CASE g # f
      BY <1>o, <2>2, <3>2 DEF ArrivedOnce
    <3> QED
      BY <3>1, <3>2
  <2> QED
    BY <2>6, <2>7 DEF EventsOnce
<1>8. CASE UNCHANGED <<responses, sending, message, inbox, hashes, polled, emitted>>
  BY <1>8, EventsStand
<1> QED
  BY <1>1, <1>2, <1>3, <1>4, <1>5, <1>6, <1>7, <1>8
  DEF EventNext, NewBlockFilter, Creation, SubscribeTendermint, FindTopic, Register,
      UninstallFilter, DeadlineFires, Consumer, ChannelClosed, ErrClosed, Ends, EventLoop,
      Install, Uninstall, PublishTopic, CloseAllSubscribers, DeleteTopic, TimeoutLoop,
      ConsumeEvents, SendOnClosed

\* SeenOnce: a client is handed an event at most once, for any number of
\* filters, of publishers of the topic and of events.
THEOREM EventsSeenOnce == EventSpec => []SeenOnce
<1>1. EventsOnce /\ UNCHANGED eventVars => EventsOnce'
  BY EventsStand
<1>2. ArrivedOnce => SeenOnce
  BY DEF ArrivedOnce, SeenOnce, Distinct, Members
<1>3. EventSpec => []EventsOnce
  BY <1>1, InitEventsOnce, NextEventsOnce, EventTypeCorrect, PTL DEF EventSpec
<1> QED
  BY <1>2, <1>3, PTL DEF EventsOnce
=============================================================================
