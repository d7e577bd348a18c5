----------------------------- MODULE Erc20_proofs -----------------------------
(***************************************************************************)
(* Proofs about both kinds of pairs of x/erc20.                            *)
(*                                                                         *)
(* Erc20: every coin is backed by a token of the module, the escrow of the *)
(* channel holds what the packets and the other chain are owed beside what *)
(* it was given, and no conversion or refund costs an account anything.    *)
(* The invariants are about sums over accounts and packets.                *)
(*                                                                         *)
(* Erc20Precompile: the listed vouchers and no others have the code of the *)
(* precompile, and the shared authorizations implement Allowances.         *)
(***************************************************************************)
EXTENDS Erc20, Erc20Precompile, Sums_proofs

-----------------------------------------------------------------------------
(* The state.                                                              *)

Holders == Receivers \cup {Module}
CoinHolders == Receivers

PacketType ==
    {NoPacket} \cup [status : {"sent", "failed"}, sender : Users, amount : Amounts]

TypeInv ==
    /\ contract \in {"honest", "skims", "refuses", "dead"}
    /\ tokens \in [Holders -> Nat]
    /\ coins \in [CoinHolders -> Nat]
    /\ packets \in [Packets -> PacketType]
    /\ remote \in Nat
    /\ surplus \in Int

Inv == TypeInv /\ Backed /\ EscrowMatches

\* Sums range over finite sets.
LEMMA Finite == IsFiniteSet(CoinHolders) /\ IsFiniteSet(Packets)
  BY Erc20Assumption, FS_AddElement DEF CoinHolders, Receivers

\* Amounts are positive.
LEMMA AmountsAreNat == Amounts \subseteq Nat /\ \A n \in Amounts : n > 0
  BY Erc20Assumption DEF Amounts

\* What is in a packet.
LEMMA PacketAmounts ==
    ASSUME packets \in [Packets -> PacketType]
    PROVE  /\ \A p \in Packets : AmountOf(p) \in Nat
           /\ \A p \in Packets, u \in Users : AmountOfSender(p, u) \in Nat
  BY AmountsAreNat DEF PacketType, AmountOf, AmountOfSender

\* A step that touches one packet changes the sums by that packet.
LEMMA PacketSums ==
    ASSUME packets \in [Packets -> PacketType], packets' \in [Packets -> PacketType],
           NEW p \in Packets, \A q \in Packets \ {p} : packets'[q] = packets[q]
    PROVE  /\ InFlight' = InFlight - AmountOf(p) + AmountOf(p)'
           /\ InFlight \in Nat
           /\ \A u \in Users :
                OwedTo(u)' = OwedTo(u) - AmountOfSender(p, u) + AmountOfSender(p, u)'
<1> DEFINE f == [q \in Packets |-> AmountOf(q)]
           g == [q \in Packets |-> AmountOf(q)']
<1>1. /\ f \in [Packets -> Nat] /\ g \in [Packets -> Nat]
      /\ \A q \in Packets \ {p} : f[q] = g[q]
  <2>1. \A q \in Packets : AmountOf(q) \in Nat /\ AmountOf(q)' \in Nat
    BY PacketAmounts, AmountsAreNat DEF PacketType, AmountOf
  <2>2. \A q \in Packets \ {p} : AmountOf(q) = AmountOf(q)'
    BY DEF AmountOf
  <2> QED BY <2>1, <2>2
<1>2. f[p] = AmountOf(p) /\ g[p] = AmountOf(p)'
  OBVIOUS
<1>3. InFlight = SumFunction(f) /\ InFlight' = SumFunction(g)
  BY DEF InFlight
<1> HIDE DEF f, g
<1>4. SumFunction(g) = SumFunction(f) - f[p] + g[p]
  BY <1>1, Finite, SumUpdate
<1>5. SumFunction(f) \in Nat
  BY <1>1, Finite, SumType DEF SumFunction
<1>6. ASSUME NEW u \in Users
      PROVE  OwedTo(u)' = OwedTo(u) - AmountOfSender(p, u) + AmountOfSender(p, u)'
  <2> DEFINE a == [q \in Packets |-> AmountOfSender(q, u)]
             b == [q \in Packets |-> AmountOfSender(q, u)']
  <2>1. /\ a \in [Packets -> Nat] /\ b \in [Packets -> Nat]
        /\ \A q \in Packets \ {p} : a[q] = b[q]
    <3>1. \A q \in Packets : AmountOfSender(q, u) \in Nat /\ AmountOfSender(q, u)' \in Nat
      BY AmountsAreNat DEF PacketType, AmountOfSender
    <3>2. \A q \in Packets \ {p} : AmountOfSender(q, u) = AmountOfSender(q, u)'
      BY DEF AmountOfSender
    <3> QED BY <3>1, <3>2
  <2>2. a[p] = AmountOfSender(p, u) /\ b[p] = AmountOfSender(p, u)'
    OBVIOUS
  <2> HIDE DEF a, b
  <2>3. SumFunction(b) = SumFunction(a) - a[p] + b[p]
    BY <2>1, Finite, SumUpdate
  <2> QED BY <2>2, <2>3 DEF a, b, OwedTo
<1> QED BY <1>2, <1>3, <1>4, <1>5, <1>6

\* Conversions move exactly what was asked for, between the module and a user.
LEMMA EscrowedTokens ==
    ASSUME TypeInv, NEW s \in Users, NEW n \in Nat, CanEscrow(s, n)
    PROVE  /\ contract = "honest"
           /\ Escrowed(s, n) \in [Holders -> Nat]
           /\ Escrowed(s, n)[Module] = tokens[Module] + n
           /\ Escrowed(s, n)[s] = tokens[s] - n
           /\ \A u \in Users \ {s} : Escrowed(s, n)[u] = tokens[u]
<1>1. contract = "honest" /\ Delivered(n) = n /\ tokens[s] >= n
  BY DEF CanEscrow, TransferChecked, Executes, Delivered
<1>2. Escrowed(s, n) = [tokens EXCEPT ![s] = tokens[s] - n, ![Module] = tokens[Module] + n]
  BY <1>1 DEF Escrowed, Moved
<1>3. s # Module /\ s \in Holders /\ Module \in Holders /\ Users \subseteq Holders
  BY Erc20Assumption DEF Holders, Receivers
<1>4. \A u \in Users : u # Module
  BY Erc20Assumption
<1> QED BY <1>1, <1>2, <1>3, <1>4 DEF TypeInv

\* Tokens released from escrow go to the receiver, and nothing else moves.
LEMMA ReleasedTokens ==
    ASSUME TypeInv, NEW r \in Receivers, NEW n \in Nat, CanRelease(n)
    PROVE  /\ Released(r, n) \in [Holders -> Nat]
           /\ Released(r, n)[Module] = tokens[Module] - n
           /\ Released(r, n)[r] = tokens[r] + n
           /\ \A u \in Users \ {r} : Released(r, n)[u] = tokens[u]
<1>3. r # Module /\ r \in Holders /\ Module \in Holders /\ Users \subseteq Holders
  BY Erc20Assumption DEF Holders, Receivers
<1>1. CASE n = 0
  BY <1>1, <1>3 DEF Released, TypeInv
<1>2. CASE n # 0
  <2>1. Delivered(n) = n /\ tokens[Module] >= n
    BY <1>2 DEF CanRelease, TransferChecked
  <2>2. Released(r, n) = [tokens EXCEPT ![Module] = tokens[Module] - n, ![r] = tokens[r] + n]
    BY <1>2, <2>1 DEF Released, Moved
  <2>3. \A u \in Users : u # Module
    BY Erc20Assumption
  <2> QED BY <1>3, <2>1, <2>2, <2>3 DEF TypeInv
<1> QED BY <1>1, <1>2

\* Sums are numbers.
LEMMA SumsAreNat ==
    ASSUME TypeInv
    PROVE  /\ TotalCoins \in Nat
           /\ InFlight \in Nat
           /\ \A u \in Users : OwedTo(u) \in Nat
<1>1. TotalCoins \in Nat
  BY Finite, SumType DEF TypeInv, TotalCoins, SumFunction
<1>2. InFlight \in Nat
  <2> DEFINE f == [p \in Packets |-> AmountOf(p)]
  <2>1. DOMAIN f = Packets /\ \A p \in Packets : f[p] \in Nat
    BY PacketAmounts DEF TypeInv
  <2> HIDE DEF f
  <2>2. SumFunction(f) \in Nat
    BY <2>1, Finite, SumType DEF SumFunction
  <2> QED BY <2>2 DEF f, InFlight
<1>3. ASSUME NEW u \in Users PROVE OwedTo(u) \in Nat
  <2> DEFINE f == [p \in Packets |-> AmountOfSender(p, u)]
  <2>1. DOMAIN f = Packets /\ \A p \in Packets : f[p] \in Nat
    BY PacketAmounts DEF TypeInv
  <2> HIDE DEF f
  <2>2. SumFunction(f) \in Nat
    BY <2>1, Finite, SumType DEF SumFunction
  <2> QED BY <2>2 DEF f, OwedTo
<1> QED BY <1>1, <1>2, <1>3

\* What is in flight does not change with the packets left alone.
LEMMA PacketsUntouched ==
    ASSUME UNCHANGED packets
    PROVE  InFlight' = InFlight /\ \A u \in Users : OwedTo(u)' = OwedTo(u)
  BY DEF InFlight, OwedTo, AmountOf, AmountOfSender

\* Coins of one account, or of two, change.
LEMMA CoinsChanged ==
    ASSUME coins \in [CoinHolders -> Nat], coins' \in [CoinHolders -> Nat],
           NEW a \in CoinHolders, \A x \in CoinHolders \ {a} : coins'[x] = coins[x]
    PROVE  TotalCoins' = TotalCoins - coins[a] + coins'[a]
  BY Finite, SumUpdate DEF TotalCoins

\* The total of the coins when two accounts have changed.
LEMMA CoinsMoved ==
    ASSUME coins \in [CoinHolders -> Nat], coins' \in [CoinHolders -> Nat],
           NEW a \in CoinHolders, NEW b \in CoinHolders, a # b,
           \A x \in CoinHolders \ {a, b} : coins'[x] = coins[x]
    PROVE  TotalCoins' = TotalCoins - coins[a] - coins[b] + coins'[a] + coins'[b]
<1>1. coins \in [CoinHolders -> Int] /\ coins' \in [CoinHolders -> Int]
  OBVIOUS
<1> QED BY <1>1, Finite, SumUpdateTwo DEF TotalCoins

\* The steps that excuse an account's loss in NobodyPoorer.
Excused(u) ==
    \/ \E r \in Receivers \union {Module}, n \in Amounts : Pay(u, r, n)
    \/ \E r \in Receivers \ {u}, n \in Amounts :
          SendCoins(u, r, n) \/ ConvertERC20(u, r, n)
    \/ \E p \in Packets : Deliver(p) /\ packets[p].sender = u
    \/ ChangeContract("dead")

Kept == \A u \in Users : Worth(u)' < Worth(u) => Excused(u)

\* Governance and the parameters.
LEMMA NothingMoves ==
    ASSUME Inv, UNCHANGED <<contract, tokens, coins, packets, remote, surplus>>
    PROVE  Inv' /\ Kept
<1>1. TypeInv' /\ Backed' /\ EscrowMatches'
  BY PacketsUntouched DEF Inv, TypeInv, Backed, TotalCoins, EscrowMatches
<1>2. ASSUME NEW u \in Users PROVE Worth(u)' = Worth(u) /\ Worth(u) \in Nat
  BY PacketsUntouched, SumsAreNat DEF Inv, TypeInv, Worth, Holders, CoinHolders, Receivers
<1> QED BY <1>1, <1>2 DEF Inv, Kept

\* ConvertERC20 escrows tokens and mints as many coins.
LEMMA ConvertERC20Step ==
    ASSUME Inv, NEW s \in Users, NEW r \in Receivers, NEW n \in Amounts,
           ConvertERC20(s, r, n)
    PROVE  Inv' /\ Kept
<1> USE Erc20Assumption DEF Holders, CoinHolders, Receivers
<1>1. CASE DeletesPair(s, r)
  BY <1>1, NothingMoves DEF DeletesPair
<1>2. CASE ~DeletesPair(s, r)
  <2>1. /\ CanEscrow(s, n)
        /\ tokens' = Escrowed(s, n)
        /\ coins' = [coins EXCEPT ![r] = @ + n]
        /\ surplus' = surplus + GivenTo(r, n)
        /\ UNCHANGED <<contract, packets, remote>>
    BY <1>2 DEF ConvertERC20
  <2>2. n \in Nat /\ TypeInv
    BY AmountsAreNat DEF Inv
  <2>3. /\ tokens' \in [Holders -> Nat]
        /\ tokens'[Module] = tokens[Module] + n /\ tokens'[s] = tokens[s] - n
        /\ \A u \in Users \ {s} : tokens'[u] = tokens[u]
    BY <2>1, <2>2, EscrowedTokens
  <2>4. TypeInv'
    BY <2>1, <2>2, <2>3 DEF TypeInv, PacketType, GivenTo
  <2>5. coins'[r] = coins[r] + n /\ \A a \in CoinHolders \ {r} : coins'[a] = coins[a]
    BY <2>1, <2>2 DEF TypeInv
  <2>6. TotalCoins' = TotalCoins + n
    <3>1. TotalCoins' = TotalCoins - coins[r] + coins'[r]
      BY <2>2, <2>4, <2>5, CoinsChanged DEF TypeInv
    <3>2. coins[r] \in Nat /\ TotalCoins \in Nat
      BY <2>2, SumsAreNat DEF TypeInv
    <3> QED BY <2>2, <2>5, <3>1, <3>2
  <2>7. Backed'
    <3>1. TotalCoins \in Nat /\ tokens[Module] \in Nat
      BY <2>2, SumsAreNat DEF TypeInv
    <3> QED BY <2>1, <2>2, <2>3, <2>6, <3>1 DEF Backed, Inv
  <2>8. EscrowMatches'
    <3>1. InFlight \in Nat /\ remote \in Nat /\ surplus \in Int /\ coins[Escrow] \in Nat
      BY <2>2, SumsAreNat DEF TypeInv
    <3> QED BY <2>1, <2>2, <2>5, <3>1, PacketsUntouched DEF EscrowMatches, Inv, GivenTo
  <2>9. Kept
    <3> SUFFICES ASSUME NEW u \in Users, Worth(u)' < Worth(u) PROVE Excused(u)
      BY DEF Kept
    <3>1. /\ tokens[u] \in Nat /\ coins[u] \in Nat /\ OwedTo(u) \in Nat
          /\ OwedTo(u)' = OwedTo(u)
      BY <2>1, <2>2, SumsAreNat, PacketsUntouched DEF TypeInv
    <3>2. Worth(u)' = tokens'[u] + coins'[u] + OwedTo(u)
          /\ Worth(u) = tokens[u] + coins[u] + OwedTo(u)
      BY <3>1 DEF Worth
    <3>3. u = s /\ u # r
      BY <2>2, <2>3, <2>5, <3>1, <3>2
    <3> QED BY <3>3 DEF Excused
  <2> QED BY <2>4, <2>7, <2>8, <2>9 DEF Inv
<1> QED BY <1>1, <1>2

\* Transfer escrows the coins, after converting what the sender has too few of.
LEMMA TransferStep ==
    ASSUME Inv, NEW s \in Users, NEW n \in Amounts, NEW p \in Packets, Transfer(s, n, p)
    PROVE  Inv' /\ Kept
<1> USE Erc20Assumption DEF Holders, CoinHolders, Receivers
<1> DEFINE d == Difference(s, n)
<1>1. /\ d > 0 => CanEscrow(s, d)
      /\ packets[p] = NoPacket
      /\ coins[s] + d >= n
      /\ tokens' = IF d > 0 THEN Escrowed(s, d) ELSE tokens
      /\ coins' = [coins EXCEPT ![s] = @ + d - n, ![Escrow] = @ + n]
      /\ packets' = [packets EXCEPT
                       ![p] = [status |-> "sent", sender |-> s, amount |-> n]]
      /\ UNCHANGED <<contract, remote, surplus>>
  BY DEF Transfer
<1>2. n \in Nat /\ TypeInv /\ s # Escrow /\ coins[s] \in Nat /\ coins[Escrow] \in Nat
      /\ tokens[Module] \in Nat /\ TotalCoins \in Nat /\ InFlight \in Nat
  BY AmountsAreNat, SumsAreNat DEF Inv, TypeInv
<1>3. d \in Nat
  BY <1>2 DEF Difference
<1> HIDE DEF d
<1>4. /\ tokens' \in [Holders -> Nat]
      /\ tokens'[Module] = tokens[Module] + d /\ tokens'[s] = tokens[s] - d
      /\ \A u \in Users \ {s} : tokens'[u] = tokens[u]
  <2>1. CASE d > 0
    BY <1>1, <1>2, <1>3, <2>1, EscrowedTokens, ZenonT(60)
  <2>2. CASE ~(d > 0)
    BY <1>1, <1>2, <1>3, <2>2 DEF TypeInv
  <2> QED BY <2>1, <2>2
<1>5. /\ coins'[s] = coins[s] + d - n /\ coins'[Escrow] = coins[Escrow] + n
      /\ \A a \in CoinHolders \ {s, Escrow} : coins'[a] = coins[a]
      /\ coins' \in [CoinHolders -> Nat]
  BY <1>1, <1>2, <1>3 DEF TypeInv
<1>6. /\ packets' \in [Packets -> PacketType]
      /\ \A q \in Packets \ {p} : packets'[q] = packets[q]
      /\ packets'[p] = [status |-> "sent", sender |-> s, amount |-> n]
  BY <1>1, <1>2 DEF TypeInv, PacketType
<1>7. TypeInv'
  BY <1>1, <1>2, <1>4, <1>5, <1>6 DEF TypeInv
<1>8. TotalCoins' = TotalCoins + d
  <2>1. TotalCoins' = TotalCoins - coins[s] - coins[Escrow] + coins'[s] + coins'[Escrow]
    BY <1>2, <1>5, CoinsMoved DEF TypeInv
  <2> QED BY <1>2, <1>3, <1>5, <2>1
<1>9. InFlight' = InFlight + n
      /\ \A u \in Users : OwedTo(u)' = OwedTo(u) + (IF u = s THEN n ELSE 0)
  <2>1. AmountOf(p) = 0 /\ AmountOf(p)' = n
    BY <1>1, <1>6 DEF AmountOf, NoPacket
  <2>2. \A u \in Users : AmountOfSender(p, u) = 0
                         /\ AmountOfSender(p, u)' = IF u = s THEN n ELSE 0
    BY <1>1, <1>6 DEF AmountOfSender, NoPacket
  <2>3. \A u \in Users : OwedTo(u) \in Nat
    BY <1>2, SumsAreNat
  <2>4. /\ InFlight' = InFlight - AmountOf(p) + AmountOf(p)'
        /\ \A u \in Users :
             OwedTo(u)' = OwedTo(u) - AmountOfSender(p, u) + AmountOfSender(p, u)'
    BY <1>2, <1>6, PacketSums DEF TypeInv
  <2> QED BY <1>2, <2>1, <2>2, <2>3, <2>4
<1>10. Backed'
  BY <1>1, <1>2, <1>3, <1>4, <1>8 DEF Backed, Inv
<1>11. EscrowMatches'
  <2>1. remote \in Nat /\ surplus \in Int
    BY <1>2 DEF TypeInv
  <2> QED BY <1>1, <1>2, <1>5, <1>9, <2>1 DEF EscrowMatches, Inv
<1>12. Kept
  <2> SUFFICES ASSUME NEW u \in Users PROVE ~(Worth(u)' < Worth(u))
    BY DEF Kept
  <2>1. tokens[u] \in Nat /\ coins[u] \in Nat /\ OwedTo(u) \in Nat /\ u # Escrow
    BY <1>2, SumsAreNat DEF TypeInv
  <2>2. Worth(u)' = tokens'[u] + coins'[u] + OwedTo(u)'
        /\ Worth(u) = tokens[u] + coins[u] + OwedTo(u)
    BY DEF Worth
  <2> QED BY <1>2, <1>3, <1>4, <1>5, <1>9, <2>1, <2>2
<1> QED BY <1>7, <1>10, <1>11, <1>12 DEF Inv

\* A packet that leaves or changes: what it takes out of the sums.
LEMMA PacketGone ==
    ASSUME TypeInv, NEW p \in Packets, packets[p] # NoPacket,
           packets' = [packets EXCEPT ![p] = NoPacket]
    PROVE  /\ packets' \in [Packets -> PacketType]
           /\ packets[p].amount \in Amounts /\ packets[p].sender \in Users
           /\ InFlight' = InFlight - packets[p].amount
           /\ \A u \in Users :
                OwedTo(u)' = OwedTo(u)
                    - (IF u = packets[p].sender THEN packets[p].amount ELSE 0)
<1>1. /\ packets \in [Packets -> PacketType] /\ packets' \in [Packets -> PacketType]
      /\ \A q \in Packets \ {p} : packets'[q] = packets[q]
      /\ packets'[p] = NoPacket
  BY DEF TypeInv, PacketType
<1>2. packets[p].amount \in Amounts /\ packets[p].sender \in Users
  BY <1>1 DEF PacketType
<1>3. AmountOf(p) = packets[p].amount /\ AmountOf(p)' = 0
  BY <1>1 DEF AmountOf
<1>4. \A u \in Users :
        /\ AmountOfSender(p, u) = IF u = packets[p].sender THEN packets[p].amount ELSE 0
        /\ AmountOfSender(p, u)' = 0
  BY <1>1 DEF AmountOfSender
<1>5. /\ InFlight' = InFlight - AmountOf(p) + AmountOf(p)'
      /\ \A u \in Users :
           OwedTo(u)' = OwedTo(u) - AmountOfSender(p, u) + AmountOfSender(p, u)'
  BY <1>1, PacketSums
<1>6. InFlight \in Nat /\ \A u \in Users : OwedTo(u) \in Nat
  BY SumsAreNat
<1>7. packets[p].amount \in Nat
  BY <1>2, AmountsAreNat
<1> QED BY <1>1, <1>2, <1>3, <1>4, <1>5, <1>6, <1>7

\* A packet that arrives leaves its coins in escrow for the other chain's.
LEMMA DeliverStep ==
    ASSUME Inv, NEW p \in Packets, Deliver(p)
    PROVE  Inv' /\ Kept
<1> USE Erc20Assumption DEF Holders, CoinHolders, Receivers
<1>1. /\ packets[p] # NoPacket
      /\ packets' = [packets EXCEPT ![p] = NoPacket]
      /\ remote' = remote + packets[p].amount
      /\ UNCHANGED <<contract, tokens, coins, surplus>>
  BY DEF Deliver, NoPacket
<1>2. TypeInv
  BY DEF Inv
<1>3. /\ packets' \in [Packets -> PacketType]
      /\ packets[p].amount \in Nat /\ packets[p].sender \in Users
      /\ InFlight' = InFlight - packets[p].amount
      /\ \A u \in Users : u # packets[p].sender => OwedTo(u)' = OwedTo(u)
  <2>1. \A u \in Users : OwedTo(u) \in Nat
    BY <1>2, SumsAreNat
  <2>2. /\ packets' \in [Packets -> PacketType]
        /\ packets[p].amount \in Amounts /\ packets[p].sender \in Users
        /\ InFlight' = InFlight - packets[p].amount
        /\ \A u \in Users :
             OwedTo(u)' = OwedTo(u)
                 - (IF u = packets[p].sender THEN packets[p].amount ELSE 0)
    BY <1>1, <1>2, PacketGone
  <2>3. ASSUME NEW u \in Users, u # packets[p].sender PROVE OwedTo(u)' = OwedTo(u)
    BY <2>1, <2>2, <2>3
  <2> QED BY <2>2, <2>3, AmountsAreNat
<1>4. TypeInv'
  BY <1>1, <1>2, <1>3 DEF TypeInv
<1>5. Backed' /\ EscrowMatches'
  <2>1. InFlight \in Nat /\ remote \in Nat /\ surplus \in Int
    BY <1>2, SumsAreNat DEF TypeInv
  <2> QED BY <1>1, <1>3, <2>1 DEF Inv, Backed, TotalCoins, EscrowMatches
<1>6. Kept
  <2> SUFFICES ASSUME NEW u \in Users, Worth(u)' < Worth(u) PROVE Excused(u)
    BY DEF Kept
  <2>1. tokens[u] \in Nat /\ coins[u] \in Nat /\ OwedTo(u) \in Nat
    BY <1>2, SumsAreNat DEF TypeInv
  <2>2. u = packets[p].sender
    BY <1>1, <1>3, <2>1 DEF Worth
  <2> QED BY <2>2 DEF Excused
<1> QED BY <1>4, <1>5, <1>6 DEF Inv

\* A packet that the other chain refuses waits for its refund.
LEMMA FailStep ==
    ASSUME Inv, NEW p \in Packets, Fail(p)
    PROVE  Inv' /\ Kept
<1> USE Erc20Assumption DEF Holders, CoinHolders, Receivers
<1>1. /\ packets[p].status = "sent"
      /\ packets' = [packets EXCEPT ![p].status = "failed"]
      /\ UNCHANGED <<contract, tokens, coins, remote, surplus>>
  BY DEF Fail
<1>2. TypeInv
  BY DEF Inv
<1>3. packets' \in [Packets -> PacketType]
  BY <1>1, <1>2 DEF TypeInv, PacketType, NoPacket
<1>4. \A q \in Packets :
         AmountOf(q)' = AmountOf(q)
         /\ \A u \in Users : AmountOfSender(q, u)' = AmountOfSender(q, u)
  <2> TAKE q \in Packets
  <2>1. CASE q # p
    BY <1>1, <1>2, <2>1 DEF TypeInv, AmountOf, AmountOfSender
  <2>2. CASE q = p
    <3>1. packets[p] # NoPacket /\ packets[p].amount \in Amounts
      BY <1>1, <1>2 DEF TypeInv, PacketType, NoPacket
    <3>2. packets'[p] # NoPacket /\ packets'[p].amount = packets[p].amount
          /\ packets'[p].sender = packets[p].sender
      BY <1>1, <1>2, <3>1 DEF TypeInv, PacketType, NoPacket
    <3> QED BY <2>2, <3>1, <3>2 DEF AmountOf, AmountOfSender
  <2> QED BY <2>1, <2>2
<1>5. InFlight' = InFlight
  BY <1>4 DEF InFlight
<1>6. \A u \in Users : OwedTo(u)' = OwedTo(u)
  BY <1>4 DEF OwedTo
<1>7. TypeInv' /\ Backed' /\ EscrowMatches'
  BY <1>1, <1>2, <1>3, <1>5 DEF Inv, TypeInv, Backed, TotalCoins, EscrowMatches
<1>8. Kept
  <2> SUFFICES ASSUME NEW u \in Users PROVE ~(Worth(u)' < Worth(u))
    BY DEF Kept
  <2>1. tokens[u] \in Nat /\ coins[u] \in Nat /\ OwedTo(u) \in Nat
    BY <1>2, SumsAreNat DEF TypeInv
  <2> QED BY <1>1, <1>6, <2>1 DEF Worth
<1> QED BY <1>7, <1>8 DEF Inv

\* A refund takes the coins out of escrow and converts them back, if it can.
LEMMA RefundStep ==
    ASSUME Inv, NEW p \in Packets, Refund(p)
    PROVE  Inv' /\ Kept
<1> USE Erc20Assumption DEF Holders, CoinHolders, Receivers
<1> DEFINE s == packets[p].sender
           n == packets[p].amount
<1>1. /\ packets[p] # NoPacket
      /\ coins[Escrow] >= n
      /\ CanRefund(n)
      /\ tokens' = IF Reconverts THEN Released(s, n) ELSE tokens
      /\ coins' = Refunded(s, n)
      /\ packets' = [packets EXCEPT ![p] = NoPacket]
      /\ UNCHANGED <<contract, remote, surplus>>
  BY DEF Refund, NoPacket
<1>2. TypeInv
  BY DEF Inv
<1>3. /\ packets' \in [Packets -> PacketType]
      /\ n \in Nat /\ s \in Users
      /\ InFlight' = InFlight - n
      /\ \A u \in Users : OwedTo(u)' = OwedTo(u) - (IF u = s THEN n ELSE 0)
  BY <1>1, <1>2, PacketGone, AmountsAreNat
<1>4. /\ coins[s] \in Nat /\ coins[Escrow] \in Nat /\ s # Escrow
      /\ tokens[Module] \in Nat /\ TotalCoins \in Nat /\ InFlight \in Nat
      /\ remote \in Nat /\ surplus \in Int
  BY <1>2, <1>3, SumsAreNat DEF TypeInv
<1> HIDE DEF s, n
<1>5. /\ coins'[s] = coins[s] + (IF Reconverts THEN 0 ELSE n)
      /\ coins'[Escrow] = coins[Escrow] - n
      /\ \A a \in CoinHolders \ {s, Escrow} : coins'[a] = coins[a]
      /\ coins' \in [CoinHolders -> Nat]
  BY <1>1, <1>2, <1>3, <1>4 DEF Refunded, TypeInv
<1>6. /\ tokens' \in [Holders -> Nat]
      /\ tokens'[Module] = tokens[Module] - (IF Reconverts THEN n ELSE 0)
      /\ tokens'[s] = tokens[s] + (IF Reconverts THEN n ELSE 0)
      /\ \A u \in Users \ {s} : tokens'[u] = tokens[u]
  <2>1. CASE Reconverts
    <3>1. tokens' = Released(s, n) /\ CanRelease(n)
      BY <1>1, <2>1 DEF CanRefund
    <3> QED BY <1>2, <1>3, <2>1, <3>1, ReleasedTokens
  <2>2. CASE ~Reconverts
    BY <1>1, <1>2, <1>3, <2>2 DEF TypeInv
  <2> QED BY <2>1, <2>2
<1>7. TypeInv'
  BY <1>1, <1>2, <1>3, <1>5, <1>6 DEF TypeInv
<1>8. TotalCoins' = TotalCoins - (IF Reconverts THEN n ELSE 0)
  <2>1. TotalCoins' = TotalCoins - coins[s] - coins[Escrow] + coins'[s] + coins'[Escrow]
    BY <1>2, <1>3, <1>4, <1>5, CoinsMoved DEF TypeInv
  <2> QED BY <1>3, <1>4, <1>5, <2>1
<1>9. Backed'
  BY <1>1, <1>3, <1>4, <1>6, <1>8 DEF Backed, Inv
<1>10. EscrowMatches'
  BY <1>1, <1>3, <1>4, <1>5 DEF EscrowMatches, Inv
<1>11. Kept
  <2> SUFFICES ASSUME NEW u \in Users PROVE ~(Worth(u)' < Worth(u))
    BY DEF Kept
  <2>1. tokens[u] \in Nat /\ coins[u] \in Nat /\ OwedTo(u) \in Nat /\ u # Escrow
    BY <1>2, SumsAreNat DEF TypeInv
  <2>2. Worth(u)' = tokens'[u] + coins'[u] + OwedTo(u)'
        /\ Worth(u) = tokens[u] + coins[u] + OwedTo(u)
    BY DEF Worth
  <2> QED BY <1>3, <1>5, <1>6, <2>1, <2>2
<1> QED BY <1>7, <1>9, <1>10, <1>11 DEF Inv

\* Vouchers that return release coins, and the receiver's balance is converted;
\* if the receiver is the escrow, everything there.
LEMMA OnRecvPacketStep ==
    ASSUME Inv, NEW from \in Users, NEW r \in Receivers, NEW n \in Amounts,
           OnRecvPacket(from, r, n)
    PROVE  Inv' /\ Kept
<1> USE Erc20Assumption DEF Holders, CoinHolders, Receivers
<1> DEFINE converts == enabled /\ pair = "on"
           b == Arrived(r, n)
<1>1. /\ n <= remote
      /\ coins[Escrow] >= n
      /\ converts => CanRelease(b)
      /\ remote' = remote - n
      /\ tokens' = IF converts THEN Released(r, b) ELSE tokens
      /\ coins' = [coins EXCEPT ![Escrow] = @ - n,
                                ![r] = IF converts THEN 0 ELSE b]
      /\ surplus' = surplus + GivenTo(r, IF converts THEN n - coins[Escrow] ELSE n)
      /\ UNCHANGED <<contract, packets>>
  BY DEF OnRecvPacket, ConvertedOnRecv
<1> HIDE DEF converts
<1>2. /\ TypeInv /\ n \in Nat /\ b \in Nat
      /\ coins[r] \in Nat /\ coins[Escrow] \in Nat
      /\ tokens[Module] \in Nat /\ TotalCoins \in Nat /\ InFlight \in Nat
      /\ remote \in Nat /\ surplus \in Int
  BY AmountsAreNat, SumsAreNat DEF Inv, TypeInv, Arrived
<1>3. /\ coins'[r] = (IF converts THEN 0 ELSE b)
      /\ r # Escrow => b = coins[r] + n /\ coins'[Escrow] = coins[Escrow] - n
      /\ r = Escrow => b = coins[Escrow]
      /\ \A a \in CoinHolders \ {r, Escrow} : coins'[a] = coins[a]
      /\ coins' \in [CoinHolders -> Nat]
  <2> HIDE DEF b
  <2>1. /\ r # Escrow => b = coins[r] + n
        /\ r = Escrow => b = coins[Escrow]
    BY DEF Arrived, b
  <2> QED BY <1>1, <1>2, <2>1 DEF TypeInv
<1> HIDE DEF b
<1>4. /\ tokens' \in [Holders -> Nat]
      /\ tokens'[Module] = tokens[Module] - (IF converts THEN b ELSE 0)
      /\ tokens'[r] = tokens[r] + (IF converts THEN b ELSE 0)
      /\ \A u \in Users \ {r} : tokens'[u] = tokens[u]
  <2>1. CASE converts
    BY <1>1, <1>2, <2>1, ReleasedTokens
  <2>2. CASE ~converts
    BY <1>1, <1>2, <2>2 DEF TypeInv
  <2> QED BY <2>1, <2>2
<1>5. TypeInv'
  <2>1. remote' \in Nat /\ surplus' \in Int
    BY <1>1, <1>2 DEF GivenTo
  <2> QED BY <1>1, <1>2, <1>3, <1>4, <2>1 DEF TypeInv, PacketType
<1>6. TotalCoins' = TotalCoins - (IF converts THEN b ELSE 0)
  <2>1. CASE r = Escrow
    <3>1. TotalCoins' = TotalCoins - coins[r] + coins'[r]
      BY <1>2, <1>3, <2>1, CoinsChanged DEF TypeInv
    <3> QED BY <1>2, <1>3, <2>1, <3>1
  <2>2. CASE r # Escrow
    <3>1. TotalCoins' = TotalCoins - coins[r] - coins[Escrow] + coins'[r] + coins'[Escrow]
      BY <1>2, <1>3, <2>2, CoinsMoved DEF TypeInv
    <3> QED BY <1>2, <1>3, <2>2, <3>1
  <2> QED BY <2>1, <2>2
<1>7. Backed'
  BY <1>1, <1>2, <1>4, <1>6 DEF Backed, Inv
<1>8. EscrowMatches'
  <2>1. coins[Escrow] = InFlight + remote + surplus /\ InFlight' = InFlight
    BY <1>1, PacketsUntouched DEF EscrowMatches, Inv
  <2> QED BY <1>1, <1>2, <1>3, <2>1 DEF EscrowMatches, GivenTo
<1>9. Kept
  <2> SUFFICES ASSUME NEW u \in Users PROVE ~(Worth(u)' < Worth(u))
    BY DEF Kept
  <2>1. /\ tokens[u] \in Nat /\ coins[u] \in Nat /\ OwedTo(u) \in Nat /\ u # Escrow
        /\ OwedTo(u)' = OwedTo(u)
    BY <1>1, <1>2, SumsAreNat, PacketsUntouched DEF TypeInv
  <2>2. Worth(u)' = tokens'[u] + coins'[u] + OwedTo(u)'
        /\ Worth(u) = tokens[u] + coins[u] + OwedTo(u)
    BY DEF Worth
  <2> QED BY <1>2, <1>3, <1>4, <2>1, <2>2
<1> QED BY <1>5, <1>7, <1>8, <1>9 DEF Inv

\* Tokens move between accounts of the contract.
LEMMA PayStep ==
    ASSUME Inv, NEW s \in Users, NEW r \in Receivers \union {Module}, NEW n \in Amounts,
           Pay(s, r, n)
    PROVE  Inv' /\ Kept
<1> USE Erc20Assumption DEF Holders, CoinHolders, Receivers
<1>1. /\ s # r /\ tokens[s] >= n
      /\ tokens' = [tokens EXCEPT ![s] = tokens[s] - n, ![r] = tokens[r] + Delivered(n)]
      /\ UNCHANGED <<contract, coins, packets, remote, surplus>>
  BY DEF Pay, Moved
<1>2. TypeInv /\ n \in Nat /\ Delivered(n) \in Nat /\ s # Module
  BY AmountsAreNat DEF Inv, Delivered
<1>3. /\ tokens' \in [Holders -> Nat]
      /\ \A a \in Holders \ {s} : tokens'[a] >= tokens[a]
  BY <1>1, <1>2 DEF TypeInv
<1>4. TypeInv'
  BY <1>1, <1>2, <1>3 DEF TypeInv, PacketType
<1>5. Backed' /\ EscrowMatches'
  <2>1. tokens'[Module] >= tokens[Module] /\ tokens[Module] \in Nat
        /\ tokens'[Module] \in Nat /\ TotalCoins \in Nat
    BY <1>2, <1>3, SumsAreNat DEF TypeInv
  <2>2. TotalCoins' = TotalCoins
    BY <1>1 DEF TotalCoins
  <2> QED BY <1>1, <2>1, <2>2, PacketsUntouched DEF Inv, Backed, EscrowMatches
<1>6. Kept
  <2> SUFFICES ASSUME NEW u \in Users, Worth(u)' < Worth(u) PROVE Excused(u)
    BY DEF Kept
  <2>1. /\ tokens[u] \in Nat /\ tokens'[u] \in Nat /\ coins[u] \in Nat
        /\ OwedTo(u) \in Nat /\ OwedTo(u)' = OwedTo(u)
    BY <1>1, <1>2, <1>3, SumsAreNat, PacketsUntouched DEF TypeInv
  <2>2. u = s
    BY <1>1, <1>3, <2>1 DEF Worth
  <2> QED BY <2>2 DEF Excused
<1> QED BY <1>4, <1>5, <1>6 DEF Inv

\* Coins move between accounts of the bank.
LEMMA SendCoinsStep ==
    ASSUME Inv, NEW s \in Users, NEW r \in Receivers, NEW n \in Amounts,
           SendCoins(s, r, n)
    PROVE  Inv' /\ Kept
<1> USE Erc20Assumption DEF Holders, CoinHolders, Receivers
<1>1. /\ s # r /\ coins[s] >= n
      /\ coins' = [coins EXCEPT ![s] = coins[s] - n, ![r] = coins[r] + n]
      /\ surplus' = surplus + GivenTo(r, n)
      /\ UNCHANGED <<contract, tokens, packets, remote>>
  BY DEF SendCoins
<1>2. TypeInv /\ n \in Nat /\ coins[s] \in Nat /\ coins[r] \in Nat /\ TotalCoins \in Nat
  BY AmountsAreNat, SumsAreNat DEF Inv, TypeInv
<1>3. /\ coins'[s] = coins[s] - n /\ coins'[r] = coins[r] + n
      /\ \A a \in CoinHolders \ {s, r} : coins'[a] = coins[a]
      /\ coins' \in [CoinHolders -> Nat]
  BY <1>1, <1>2 DEF TypeInv
<1>4. TypeInv'
  BY <1>1, <1>2, <1>3 DEF TypeInv, PacketType, GivenTo
<1>5. TotalCoins' = TotalCoins
  <2>1. TotalCoins' = TotalCoins - coins[s] - coins[r] + coins'[s] + coins'[r]
    BY <1>1, <1>2, <1>3, CoinsMoved DEF TypeInv
  <2> QED BY <1>2, <1>3, <2>1
<1>6. Backed' /\ EscrowMatches'
  <2>1. /\ InFlight \in Nat /\ remote \in Nat /\ surplus \in Int /\ coins[Escrow] \in Nat
        /\ s # Escrow
    BY <1>2, SumsAreNat DEF TypeInv
  <2>2. coins'[Escrow] = coins[Escrow] + GivenTo(r, n)
    BY <1>1, <1>2, <1>3, <2>1 DEF GivenTo
  <2>3. EscrowMatches'
    BY <1>1, <1>2, <2>1, <2>2, PacketsUntouched DEF Inv, EscrowMatches, GivenTo
  <2> QED BY <1>1, <1>5, <2>3 DEF Inv, Backed
<1>7. Kept
  <2> SUFFICES ASSUME NEW u \in Users, Worth(u)' < Worth(u) PROVE Excused(u)
    BY DEF Kept
  <2>1. /\ tokens[u] \in Nat /\ coins'[u] \in Nat /\ coins[u] \in Nat
        /\ OwedTo(u) \in Nat /\ OwedTo(u)' = OwedTo(u)
    BY <1>1, <1>2, <1>3, SumsAreNat, PacketsUntouched DEF TypeInv
  <2>2. u = s
    BY <1>1, <1>2, <1>3, <2>1 DEF Worth
  <2> QED BY <1>1, <2>2 DEF Excused
<1> QED BY <1>4, <1>6, <1>7 DEF Inv

\* The contract changes its behaviour, and no balance.
LEMMA ChangeContractStep ==
    ASSUME Inv, NEW c \in {"honest", "skims", "refuses", "dead"}, ChangeContract(c)
    PROVE  Inv' /\ Kept
<1> USE DEF Holders, CoinHolders, Receivers
<1>1. CASE c = "dead"
  <2>1. /\ contract' = "dead"
        /\ tokens' = [a \in DOMAIN tokens |-> 0]
        /\ UNCHANGED <<coins, packets, remote, surplus>>
    BY <1>1 DEF ChangeContract
  <2>2. TypeInv' /\ Backed' /\ EscrowMatches'
    BY <2>1, PacketsUntouched DEF Inv, TypeInv, PacketType, Backed, EscrowMatches
  <2>3. Kept
    BY <1>1 DEF Kept, Excused
  <2> QED BY <2>2, <2>3 DEF Inv
<1>2. CASE c # "dead"
  <2>1. /\ contract' = c /\ contract # "dead"
        /\ UNCHANGED <<tokens, coins, packets, remote, surplus>>
    BY <1>2 DEF ChangeContract
  <2>2. TypeInv' /\ Backed' /\ EscrowMatches'
    BY <2>1, PacketsUntouched
       DEF Inv, TypeInv, PacketType, Backed, TotalCoins, EscrowMatches
  <2>3. Kept
    <3> SUFFICES ASSUME NEW u \in Users PROVE ~(Worth(u)' < Worth(u))
      BY DEF Kept
    <3>1. tokens[u] \in Nat /\ coins[u] \in Nat /\ OwedTo(u) \in Nat
      BY SumsAreNat DEF Inv, TypeInv
    <3> QED BY <2>1, <3>1, PacketsUntouched DEF Worth
  <2> QED BY <2>2, <2>3 DEF Inv
<1> QED BY <1>1, <1>2

\* Every step keeps the invariant, and nobody's wealth shrinks by it unasked.
LEMMA NextStep == ASSUME Inv, Next PROVE Inv' /\ Kept
<1>1. CASE RegisterERC20 \/ ToggleConversion \/ UpdateParams \/ SetSendEnabled
  <2>1. UNCHANGED <<contract, tokens, coins, packets, remote, surplus>>
    BY <1>1 DEF RegisterERC20, ToggleConversion, UpdateParams, SetSendEnabled
  <2> QED BY <2>1, NothingMoves
<1> QED BY <1>1, ConvertERC20Step, TransferStep, DeliverStep, FailStep, RefundStep,
           OnRecvPacketStep, PayStep, SendCoinsStep, ChangeContractStep DEF Next

\* The invariant holds at genesis.
LEMMA InitInv == Init => Inv
<1> SUFFICES ASSUME Init PROVE Inv
  OBVIOUS
<1> USE Erc20Assumption DEF Holders, CoinHolders, Receivers
<1>1. TypeInv
  BY DEF Init, TypeInv, PacketType
<1>2. TotalCoins = 0
  <2>1. DOMAIN coins = CoinHolders /\ \A a \in CoinHolders : coins[a] = 0
    BY DEF Init
  <2> QED BY <2>1, Finite, SumZero DEF TotalCoins
<1>3. InFlight = 0
  <2> DEFINE f == [p \in Packets |-> AmountOf(p)]
  <2>1. DOMAIN f = Packets /\ \A p \in Packets : f[p] = 0
    BY DEF Init, AmountOf
  <2> HIDE DEF f
  <2>2. SumFunction(f) = 0
    BY <2>1, Finite, SumZero
  <2> QED BY <2>2 DEF f, InFlight
<1>4. remote = 0 /\ surplus = 0 /\ coins[Escrow] = 0 /\ tokens[Module] \in Nat
  BY <1>1 DEF Init, TypeInv
<1> QED BY <1>1, <1>2, <1>3, <1>4 DEF Inv, Backed, EscrowMatches

\* It is inductive.
LEMMA StepInv == Inv /\ [Next]_vars => Inv' /\ (Kept \/ UNCHANGED vars)
<1>1. ASSUME Inv, UNCHANGED vars PROVE Inv'
  BY <1>1, NothingMoves DEF vars
<1> QED BY <1>1, NextStep

\* It holds always.
LEMMA Invariant == Spec => []Inv
<1>1. Inv /\ [Next]_vars => Inv'
  BY StepInv
<1> QED BY <1>1, InitInv, PTL DEF Spec

-----------------------------------------------------------------------------
(* The results.                                                            *)

\* Backed: as long as the contract exists the module holds a token for every
\* coin in circulation, for any number of accounts and packets and any supply,
\* whatever is converted, switched off, sent, refused and refunded, although
\* the contract may begin to deliver short at any time.
THEOREM EveryCoinBacked == Spec => []Backed
  BY Invariant, PTL DEF Inv

\* EscrowMatches: the escrow of the channel, which may be sent anything, holds
\* the coins of the packets in flight and of the vouchers on the other chain
\* beside what it was given, to the coin; the one thing that takes from it what
\* was not put there for the taker is a packet whose receiver is the escrow.
THEOREM EscrowExact == Spec => []EscrowMatches
  BY Invariant, PTL DEF Inv

\* NobodyPoorer: what an account owns in tokens, coins and packets falls only by
\* its own payment, by the delivery of its packet or with the contract; no
\* conversion, refund or receipt costs it anything.
THEOREM NoLoss == Spec => NobodyPoorer
<1>1. Inv /\ [Next]_vars => [Kept]_vars
  BY StepInv
<1>2. [Kept]_vars => [\A u \in Users :
         Worth(u)' < Worth(u) =>
            \/ \E r \in Receivers \union {Module}, n \in Amounts : Pay(u, r, n)
            \/ \E r \in Receivers \ {u}, n \in Amounts :
                  SendCoins(u, r, n) \/ ConvertERC20(u, r, n)
            \/ \E p \in Packets : Deliver(p) /\ packets[p].sender = u
            \/ ChangeContract("dead")]_vars
  BY DEF Kept, Excused
<1> QED BY <1>1, <1>2, Invariant, PTL DEF Spec, NobodyPoorer
-----------------------------------------------------------------------------
(* The precompiles.                                                        *)

\* Whatever list follows another, UpdateCodeHash gives code to what is new on
\* it and takes it from what is no longer there (x/erc20/keeper/params.go), so
\* that the accounts with code are those of the list.
THEOREM ListedHaveCode == PrecompileSpec => []PrecompilesHaveCode
  <1>1. PrecompileInit => PrecompilesHaveCode
    BY DEF PrecompileInit, PrecompilesHaveCode
  <1>2. PrecompilesHaveCode /\ [PrecompileNext]_precompileVars => PrecompilesHaveCode'
    <2> SUFFICES ASSUME PrecompilesHaveCode, [PrecompileNext]_precompileVars
                 PROVE  PrecompilesHaveCode'
      OBVIOUS
    <2>1. ASSUME NEW enable, NEW list, SetParams(enable, list)
          PROVE  PrecompilesHaveCode'
      BY <2>1 DEF SetParams, UpdateCodeHash, PrecompilesHaveCode
    <2>2. ASSUME UNCHANGED registry
          PROVE  PrecompilesHaveCode'
      BY <2>2 DEF registry, PrecompilesHaveCode
    <2> QED
      BY <2>1, <2>2
         DEF PrecompileNext, precompileVars, RegisterERC20Extension,
             PrecompileUpdateParams, Approve, IncreaseAllowance, DecreaseAllowance,
             Stored, TransferFrom, PrecompileTransfer, AuthzMessage, NextBlock
  <1> QED
    BY <1>1, <1>2, PTL DEF PrecompileSpec

\* The grants that there can be: a SendAuthorization has a limit in some token,
\* for one without any is deleted, and the others have none.
SendGrant == [kind : {"send"}, limit : [Tokens -> CallAmounts] \ {Nothing}, expiration : Nat]
Grant == {NoGrant, Generic} \cup SendGrant

GrantsOK == grants \in [Pairs -> Grant] /\ now \in Nat

\* What the kind of a grant says of it.
LEMMA GrantParts ==
    ASSUME NEW g \in Grant
    PROVE  /\ g.limit \in [Tokens -> CallAmounts] /\ g.expiration \in Nat
           /\ g.kind = "send" <=> g.limit # Nothing
           /\ g.kind # "send" => g.limit = Nothing /\ g.expiration = 0
           /\ g = NoGrant => g.kind # "send"
  BY PrecompileAssumption DEF Grant, SendGrant, NoGrant, Generic, Nothing, CallAmounts

\* A SendAuthorization that is saved, or deleted without a limit, is a grant.
LEMMA SavedIsGrant ==
    ASSUME NEW limit \in [Tokens -> CallAmounts], NEW expiration \in Nat,
           NEW g, g = IF limit = Nothing THEN NoGrant ELSE Saved(limit, expiration)
    PROVE  /\ g \in Grant
           /\ g.limit = limit
           /\ g.expiration = IF limit = Nothing THEN 0 ELSE expiration
  BY DEF Grant, SendGrant, NoGrant, Saved

\* The expiration after an allowance has become the one in limit.
Expiration(g, limit) ==
    IF limit = Nothing THEN 0 ELSE IF g.limit = Nothing THEN now + Lifetime ELSE g.expiration

\* A call that stores a grant with one limit changed sets that allowance.
LEMMA StoredSets ==
    ASSUME GrantsOK, NEW p \in Pairs, NEW t \in Tokens, NEW n \in CallAmounts,
           NEW g \in Grant, Stored(p, g),
           g.limit = [grants[p].limit EXCEPT ![t] = n],
           g.expiration = Expiration(grants[p], g.limit)
    PROVE  GrantsOK' /\ Abstract!Set(p, t, n)
  <1>1. grants' = [grants EXCEPT ![p] = g] /\ UNCHANGED <<revoked, balance, now>>
    BY DEF Stored
  <1>2. GrantsOK'
    BY <1>1 DEF GrantsOK
  <1>3. /\ Tokens_allowance' = [Tokens_allowance EXCEPT ![p] = g.limit]
        /\ Tokens_expires' = [Tokens_expires EXCEPT ![p] = g.expiration]
        /\ Tokens_allowance[p] = grants[p].limit
        /\ Tokens_expires[p] = grants[p].expiration
        /\ Tokens_allowance'[p] = g.limit
    BY <1>1 DEF Tokens_allowance, Tokens_expires, GrantsOK
  <1>4. Tokens_allowance' = [Tokens_allowance EXCEPT ![p][t] = n]
    BY <1>3
  <1>5. Tokens_expires' = [Tokens_expires EXCEPT ![p] =
            IF Tokens_allowance'[p] = Abstract!None THEN 0
            ELSE IF Tokens_allowance[p] = Abstract!None THEN now + Lifetime ELSE @]
    BY <1>3 DEF Expiration, Abstract!None, Nothing
  <1> QED
    BY <1>1, <1>2, <1>4, <1>5 DEF Abstract!Set
\* An allowance in a token that the spender has none in begins a grant.
LEMMA CreatedGrant ==
    ASSUME GrantsOK, NEW p \in Pairs, grants[p] = NoGrant, NEW t \in Tokens,
           NEW n \in CallAmounts, n > 0, Stored(p, createAuthorization(t, n))
    PROVE  GrantsOK' /\ Abstract!Set(p, t, n)
  <1> DEFINE limit == [Nothing EXCEPT ![t] = n]
             g == Saved(limit, now + Lifetime)
  <1>1. /\ limit \in [Tokens -> CallAmounts] /\ limit # Nothing /\ now + Lifetime \in Nat
        /\ grants[p].limit = Nothing
    BY PrecompileAssumption DEF CallAmounts, Nothing, GrantsOK, NoGrant
  <1> HIDE DEF limit
  <1>2. g \in Grant /\ g.limit = limit /\ g.expiration = now + Lifetime
    BY <1>1, SavedIsGrant
  <1>3. g.limit = [grants[p].limit EXCEPT ![t] = n]
    BY <1>1, <1>2 DEF limit
  <1>4. g.expiration = Expiration(grants[p], g.limit)
    BY <1>1, <1>2 DEF Expiration
  <1>5. Stored(p, g)
    BY DEF createAuthorization, limit
  <1> HIDE DEF g
  <1> QED
    BY <1>2, <1>3, <1>4, <1>5, StoredSets

\* A changed allowance leaves the expiration as it is.
LEMMA UpdatedGrant ==
    ASSUME GrantsOK, NEW p \in Pairs, grants[p].kind = "send", NEW t \in Tokens,
           NEW n \in CallAmounts, n > 0, Stored(p, updateAuthorization(grants[p], t, n))
    PROVE  GrantsOK' /\ Abstract!Set(p, t, n)
  <1> DEFINE old == grants[p]
             limit == [old.limit EXCEPT ![t] = n]
             g == Saved(limit, old.expiration)
  <1>1. /\ old \in Grant /\ old.limit \in [Tokens -> CallAmounts] /\ old.limit # Nothing
        /\ old.expiration \in Nat
    BY GrantParts DEF GrantsOK
  <1>2. limit \in [Tokens -> CallAmounts] /\ limit # Nothing
    BY <1>1, PrecompileAssumption DEF CallAmounts, Nothing
  <1>3. Stored(p, g)
    BY DEF updateAuthorization
  <1> HIDE DEF limit
  <1>4. g \in Grant /\ g.limit = limit /\ g.expiration = old.expiration
    BY <1>1, <1>2, SavedIsGrant
  <1>5. g.expiration = Expiration(old, g.limit)
    BY <1>1, <1>2, <1>4 DEF Expiration
  <1> HIDE DEF g
  <1> QED
    BY <1>3, <1>4, <1>5, StoredSets DEF limit

\* An allowance that is taken back ends the grant if it was the last one.
LEMMA RemovedGrant ==
    ASSUME GrantsOK, NEW p \in Pairs, grants[p].kind = "send", NEW t \in Tokens,
           Stored(p, removeSpendLimitOrDeleteAuthorization(grants[p], t))
    PROVE  GrantsOK' /\ Abstract!Set(p, t, 0)
  <1> DEFINE old == grants[p]
             limit == [old.limit EXCEPT ![t] = 0]
             g == IF limit = Nothing THEN NoGrant ELSE Saved(limit, old.expiration)
  <1>1. /\ old \in Grant /\ old.limit \in [Tokens -> CallAmounts] /\ old.limit # Nothing
        /\ old.expiration \in Nat
    BY GrantParts DEF GrantsOK
  <1>2. limit \in [Tokens -> CallAmounts] /\ 0 \in CallAmounts
    BY <1>1, PrecompileAssumption DEF CallAmounts
  <1>3. Stored(p, g)
    BY DEF removeSpendLimitOrDeleteAuthorization
  <1> HIDE DEF limit
  <1>4. /\ g \in Grant /\ g.limit = limit
        /\ g.expiration = IF limit = Nothing THEN 0 ELSE old.expiration
    BY <1>1, <1>2, SavedIsGrant
  <1>5. g.expiration = Expiration(old, g.limit)
    BY <1>1, <1>4 DEF Expiration
  <1> HIDE DEF g
  <1> QED
    BY <1>2, <1>3, <1>4, <1>5, StoredSets DEF limit

\* approve, in its three ways to succeed.
LEMMA ApproveStep ==
    ASSUME GrantsOK, NEW p \in Pairs, NEW t \in Tokens, NEW n \in CallAmounts,
           Approve(p, t, n)
    PROVE  GrantsOK' /\ Abstract!Set(p, t, n)
  <1>1. CASE grants[p] = NoGrant /\ n > 0 /\ Stored(p, createAuthorization(t, n))
    BY <1>1, CreatedGrant
  <1>2. CASE /\ grants[p].kind = "send" /\ n = 0
             /\ Stored(p, removeSpendLimitOrDeleteAuthorization(grants[p], t))
    BY <1>2, RemovedGrant
  <1>3. CASE /\ grants[p].kind = "send" /\ n > 0
             /\ Stored(p, updateAuthorization(grants[p], t, n))
    BY <1>3, UpdatedGrant
  <1> QED
    BY <1>1, <1>2, <1>3 DEF Approve

\* increaseAllowance
LEMMA IncreaseStep ==
    ASSUME GrantsOK, NEW p \in Pairs, NEW t \in Tokens, NEW n \in CallAmounts,
           IncreaseAllowance(p, t, n)
    PROVE  GrantsOK' /\ \E k \in CallAmounts : Abstract!Set(p, t, k)
  <1>1. CASE grants[p] = NoGrant /\ Stored(p, createAuthorization(t, n))
    BY <1>1, CreatedGrant DEF IncreaseAllowance
  <1>2. CASE /\ grants[p].kind = "send" /\ grants[p].limit[t] + n <= MaxAmount
             /\ Stored(p, updateAuthorization(grants[p], t, grants[p].limit[t] + n))
    <2> DEFINE k == grants[p].limit[t] + n
    <2>1. grants[p].limit[t] \in Nat /\ n \in Nat /\ n > 0
      BY GrantParts, PrecompileAssumption DEF GrantsOK, CallAmounts, IncreaseAllowance
    <2>2. k \in CallAmounts /\ k > 0
      BY <1>2, <2>1, PrecompileAssumption DEF CallAmounts
    <2> QED
      BY <1>2, <2>2, UpdatedGrant
  <1> QED
    BY <1>1, <1>2 DEF IncreaseAllowance

\* decreaseAllowance
LEMMA DecreaseStep ==
    ASSUME GrantsOK, NEW p \in Pairs, NEW t \in Tokens, NEW n \in CallAmounts,
           DecreaseAllowance(p, t, n)
    PROVE  GrantsOK' /\ \E k \in CallAmounts : Abstract!Set(p, t, k)
  <1>1. CASE /\ grants[p].kind = "send" /\ n < grants[p].limit[t]
             /\ Stored(p, updateAuthorization(grants[p], t, grants[p].limit[t] - n))
    <2> DEFINE k == grants[p].limit[t] - n
    <2>1. grants[p].limit[t] \in 0 .. MaxAmount /\ n \in Nat /\ n > 0
      BY GrantParts, PrecompileAssumption DEF GrantsOK, CallAmounts, DecreaseAllowance
    <2>2. k \in CallAmounts /\ k > 0
      BY <1>1, <2>1, PrecompileAssumption DEF CallAmounts
    <2> QED
      BY <1>1, <2>2, UpdatedGrant
  <1>2. CASE /\ grants[p].kind = "send"
             /\ Stored(p, removeSpendLimitOrDeleteAuthorization(grants[p], t))
    <2>1. 0 \in CallAmounts
      BY PrecompileAssumption DEF CallAmounts
    <2> QED
      BY <1>2, <2>1, RemovedGrant
  <1> QED
    BY <1>1, <1>2 DEF DecreaseAllowance
\* transferFrom spends the allowance in that token and moves the coins.
LEMMA TransferFromStep ==
    ASSUME GrantsOK, NEW p \in Pairs, NEW to \in Accounts, NEW t \in Tokens,
           NEW n \in CallAmounts, TransferFrom(p, to, t, n)
    PROVE  GrantsOK' /\ Abstract!Spend(p, t, n, to)
  <1> DEFINE old == grants[p]
             limit == [old.limit EXCEPT ![t] = @ - n]
             g == IF limit = Nothing THEN NoGrant ELSE Saved(limit, old.expiration)
  <1>1. /\ n > 0 /\ n <= old.limit[t] /\ n <= balance[p[1]][t]
        /\ balance' = Paid(p[1], to, t, n)
        /\ grants' = [grants EXCEPT ![p] = g]
        /\ UNCHANGED <<revoked, now>>
    BY DEF TransferFrom, Accept
  <1>2. /\ old \in Grant /\ old.limit \in [Tokens -> CallAmounts] /\ old.expiration \in Nat
    BY GrantParts DEF GrantsOK
  <1>3. limit \in [Tokens -> CallAmounts]
    BY <1>1, <1>2, PrecompileAssumption DEF CallAmounts
  <1> HIDE DEF limit
  <1>4. /\ g \in Grant /\ g.limit = limit
        /\ g.expiration = IF limit = Nothing THEN 0 ELSE old.expiration
    BY <1>2, <1>3, SavedIsGrant
  <1> HIDE DEF g
  <1>5. GrantsOK'
    BY <1>1, <1>4 DEF GrantsOK
  <1>6. /\ Tokens_allowance' = [Tokens_allowance EXCEPT ![p] = limit]
        /\ Tokens_expires' = [Tokens_expires EXCEPT ![p] = g.expiration]
        /\ Tokens_allowance[p] = old.limit
        /\ Tokens_expires[p] = old.expiration
        /\ Tokens_allowance'[p] = limit
    BY <1>1, <1>4 DEF Tokens_allowance, Tokens_expires, GrantsOK
  <1>7. Tokens_allowance' = [Tokens_allowance EXCEPT ![p][t] = @ - n]
    BY <1>6 DEF limit
  <1>8. Tokens_expires' = [Tokens_expires EXCEPT ![p] =
            IF Tokens_allowance'[p] = Abstract!None THEN 0 ELSE @]
    BY <1>4, <1>6 DEF Abstract!None, Nothing
  <1>9. balance' = Abstract!Moved(p[1], to, t, n)
    BY <1>1 DEF Paid, Abstract!Moved
  <1> QED
    BY <1>1, <1>5, <1>6, <1>7, <1>8, <1>9 DEF Abstract!Spend

\* The owner's transfers move coins and touch no allowance.
LEMMA TransferCoinsStep ==
    ASSUME GrantsOK, NEW from \in Accounts, NEW to \in Accounts, NEW t \in Tokens,
           NEW n \in CallAmounts, PrecompileTransfer(from, to, t, n)
    PROVE  GrantsOK' /\ Abstract!Pay(from, to, t, n)
  BY DEF PrecompileTransfer, Paid, Abstract!Pay, Abstract!Moved, GrantsOK,
         Tokens_allowance, Tokens_expires

\* An authz message ends what there was in every token.
LEMMA AuthzStep ==
    ASSUME GrantsOK, NEW p \in Pairs, NEW g \in {NoGrant, Generic}, AuthzMessage(p, g)
    PROVE  GrantsOK' /\ Abstract!Revoke(p)
  <1>1. /\ grants' = [grants EXCEPT ![p] = g] /\ revoked' = [revoked EXCEPT ![p] = @ + 1]
        /\ UNCHANGED <<balance, now>>
    BY DEF AuthzMessage
  <1>2. g \in Grant /\ g.limit = Nothing /\ g.expiration = 0
    BY DEF Grant, NoGrant, Generic
  <1>3. /\ Tokens_allowance' = [Tokens_allowance EXCEPT ![p] = Abstract!None]
        /\ Tokens_expires' = [Tokens_expires EXCEPT ![p] = 0]
    BY <1>1, <1>2 DEF Tokens_allowance, Tokens_expires, GrantsOK, Abstract!None, Nothing
  <1> QED
    BY <1>1, <1>2, <1>3 DEF GrantsOK, Abstract!Revoke

\* What has expired is no longer found.
LEMMA NextBlockStep ==
    ASSUME GrantsOK, NextBlock
    PROVE  GrantsOK' /\ Abstract!Tick
  <1> DEFINE gone(p) == grants[p].kind = "send" /\ grants[p].expiration < now'
             ended == {p \in Pairs : Tokens_expires[p] < now'}
  <1>1. /\ now' = now + 1 /\ now' \in Nat /\ now' > 0
        /\ grants' = [p \in Pairs |-> IF gone(p) THEN NoGrant ELSE grants[p]]
        /\ UNCHANGED <<revoked, balance>>
    BY DEF NextBlock, GrantsOK
  <1>2. NoGrant \in Grant /\ NoGrant.limit = Abstract!None /\ NoGrant.expiration = 0
    BY DEF Grant, NoGrant, Nothing, Abstract!None
  <1>3. ASSUME NEW p \in Pairs
        PROVE  /\ Tokens_allowance[p] = grants[p].limit
               /\ Tokens_expires[p] = grants[p].expiration
               /\ grants'[p] \in Grant
               /\ grants'[p].limit = IF p \in ended THEN Abstract!None ELSE grants[p].limit
               /\ grants'[p].expiration = IF p \in ended THEN 0 ELSE grants[p].expiration
    <2>1. /\ Tokens_allowance[p] = grants[p].limit
          /\ Tokens_expires[p] = grants[p].expiration
      BY DEF Tokens_allowance, Tokens_expires
    <2>2. /\ grants[p] \in Grant
          /\ grants[p].kind # "send" => /\ grants[p].limit = Abstract!None
                                        /\ grants[p].expiration = 0
      BY GrantParts DEF GrantsOK, Nothing, Abstract!None
    <2>3. p \in ended <=> grants[p].expiration < now'
      BY <2>1
    <2>4. grants'[p] = IF gone(p) THEN NoGrant ELSE grants[p]
      BY <1>1
    <2> QED
      BY <1>1, <1>2, <2>1, <2>2, <2>3, <2>4
  <1>4. GrantsOK'
    BY <1>1, <1>3 DEF GrantsOK
  <1>5. /\ Tokens_allowance'
             = [p \in Pairs |-> IF p \in ended THEN Abstract!None ELSE Tokens_allowance[p]]
        /\ Tokens_expires' = [p \in Pairs |-> IF p \in ended THEN 0 ELSE Tokens_expires[p]]
    BY <1>3 DEF Tokens_allowance, Tokens_expires
  <1> QED
    BY <1>1, <1>4, <1>5 DEF Abstract!Tick

\* Every step is one of Allowances, or touches none of its state.
LEMMA AllowanceStep ==
    ASSUME GrantsOK, [PrecompileNext]_precompileVars
    PROVE  /\ GrantsOK'
           /\ [Abstract!Next]_<<Tokens_allowance, Tokens_expires, revoked, balance, now>>
  <1>1. ASSUME UNCHANGED <<grants, revoked, balance, now>>
        PROVE  /\ GrantsOK'
               /\ UNCHANGED <<Tokens_allowance, Tokens_expires, revoked, balance, now>>
    BY <1>1 DEF GrantsOK, Tokens_allowance, Tokens_expires
  <1>2. ASSUME NEW v \in Vouchers, RegisterERC20Extension(v)
        PROVE  UNCHANGED <<grants, revoked, balance, now>>
    BY <1>2 DEF RegisterERC20Extension
  <1>3. ASSUME NEW enable, NEW list, PrecompileUpdateParams(enable, list)
        PROVE  UNCHANGED <<grants, revoked, balance, now>>
    BY <1>3 DEF PrecompileUpdateParams
  <1>4. CASE UNCHANGED precompileVars
    BY <1>1, <1>4 DEF precompileVars
  <1>5. CASE \E p \in Pairs, t \in Tokens, n \in CallAmounts : Approve(p, t, n)
    BY <1>5, ApproveStep DEF Abstract!Next
  <1>6. CASE \E p \in Pairs, t \in Tokens, n \in CallAmounts : IncreaseAllowance(p, t, n)
    BY <1>6, IncreaseStep DEF Abstract!Next
  <1>7. CASE \E p \in Pairs, t \in Tokens, n \in CallAmounts : DecreaseAllowance(p, t, n)
    BY <1>7, DecreaseStep DEF Abstract!Next
  <1>8. CASE \E p \in Pairs, to \in Accounts, t \in Tokens, n \in CallAmounts :
                TransferFrom(p, to, t, n)
    BY <1>8, TransferFromStep DEF Abstract!Next
  <1>9. CASE \E from, to \in Accounts, t \in Tokens, n \in CallAmounts :
                PrecompileTransfer(from, to, t, n)
    BY <1>9, TransferCoinsStep DEF Abstract!Next
  <1>10. CASE \E p \in Pairs, g \in {NoGrant, Generic} : AuthzMessage(p, g)
    BY <1>10, AuthzStep DEF Abstract!Next
  <1>11. CASE NextBlock
    BY <1>11, NextBlockStep DEF Abstract!Next
  <1> QED
    BY <1>1, <1>2, <1>3, <1>4, <1>5, <1>6, <1>7, <1>8, <1>9, <1>10, <1>11
       DEF PrecompileNext

\* The precompiles keep what ERC-20 promises of allowances, although those of
\* an owner to a spender share one SendAuthorization of all tokens: a call in
\* one token neither spends nor ends nor extends what there is in another
\* (precompiles/erc20/approve.go, tx.go and the Accept of x/bank).
THEOREM RefinesAllowances == PrecompileSpec => ImplementsAllowances
  <1>1. PrecompileInit => GrantsOK /\ Abstract!Init
    <2> SUFFICES ASSUME PrecompileInit PROVE GrantsOK /\ Abstract!Init
      OBVIOUS
    <2>1. grants = [p \in Pairs |-> NoGrant] /\ now = 0
      BY DEF PrecompileInit
    <2>2. GrantsOK
      BY <2>1 DEF GrantsOK, Grant
    <2>3. /\ Tokens_allowance = [p \in Pairs |-> Abstract!None]
          /\ Tokens_expires = [p \in Pairs |-> 0]
      BY <2>1 DEF Tokens_allowance, Tokens_expires, NoGrant, Nothing, Abstract!None
    <2>4. balance \in [Accounts -> [Tokens -> Nat]]
      BY PrecompileAssumption DEF PrecompileInit
    <2> QED
      BY <2>2, <2>3, <2>4 DEF PrecompileInit, Abstract!Init
  <1>2. GrantsOK /\ [PrecompileNext]_precompileVars
          => /\ GrantsOK'
             /\ [Abstract!Next]_<<Tokens_allowance, Tokens_expires, revoked, balance, now>>
    BY AllowanceStep
  <1> QED
    BY <1>1, <1>2, PTL DEF PrecompileSpec, ImplementsAllowances
=============================================================================
