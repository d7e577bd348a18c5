------------------------------- MODULE Erc20 --------------------------------
(***************************************************************************)
(* The conversion of a contract's tokens into coins and back: the erc20    *)
(* module's messages and governance proposals, the transfer module's       *)
(* Transfer, which converts what the sender lacks, and the callbacks of    *)
(* the IBC middleware, which convert what arrives and what is refunded.    *)
(*                                                                         *)
(* One contract is modelled; pairs of other contracts share only the       *)
(* switch `enabled`.  The contract is one of four: "honest", "skims" (it   *)
(* delivers one token less than it is asked to move), "refuses" (it        *)
(* reverts, returns false, or emits the Approval that                      *)
(* monitorApprovalEvent rejects) and "dead" (self-destructed).  Module     *)
(* accounts are blocked by the bank, so that ICS-20 refuses them both as   *)
(* senders and as receivers; the account of the channel is neither a       *)
(* module's nor blocked, and may be sent anything.  A transaction or       *)
(* callback that fails changes nothing and is not a step.                  *)
(***************************************************************************)
EXTENDS Integers, FiniteSetsExt

CONSTANTS
    Users,     \* the accounts
    Module,    \* the address of the erc20 module, which holds the tokens
    Escrow,    \* the account of the IBC channel, which holds sent coins
    Supply,    \* bound: the tokens the contract has issued
    Packets    \* bound: the transfers in flight at a time

\* The addresses are distinct: the module's and the channel's accounts have no
\* key, and what is bounded is finite.
ASSUME Erc20Assumption ==
    /\ IsFiniteSet(Users)
    /\ Module \notin Users
    /\ Escrow \notin Users \union {Module}
    /\ Supply \in Nat
    /\ IsFiniteSet(Packets)

NoPacket == [status |-> "none"]

\* Who may be sent coins.
Receivers == Users \union {Escrow}

VARIABLES
    enabled,      \* the parameter EnableErc20
    sendEnabled,  \* the bank sends the coin
    pair,         \* "none", "on" or "off"
    metadata,     \* the bank has metadata for the coin
    contract,
    tokens,
    coins,
    packets,
    remote,       \* vouchers of the coin on the other chain
    surplus       \* observer: the coins that were given to the escrow, less
                  \* those a packet returning to it has converted there

governed == <<enabled, sendEnabled, pair, metadata>>
vars == <<governed, contract, tokens, coins, packets, remote, surplus>>

TotalCoins == SumFunction(coins)

\* What is in the packets, and in those of one sender.
AmountOf(p) == IF packets[p] = NoPacket THEN 0 ELSE packets[p].amount
AmountOfSender(p, u) ==
    IF packets[p] # NoPacket /\ packets[p].sender = u THEN packets[p].amount ELSE 0

InFlight == SumFunction([p \in Packets |-> AmountOf(p)])
OwedTo(u) == SumFunction([p \in Packets |-> AmountOfSender(p, u)])

\* The genesis has the module enabled and no pair; one account has deployed
\* the contract and holds its tokens.
Init ==
    /\ enabled = TRUE
    /\ sendEnabled = TRUE
    /\ pair = "none"
    /\ metadata = FALSE
    /\ contract = "honest"
    /\ \E u \in Users :
         tokens = [a \in Receivers \union {Module} |-> IF a = u THEN Supply ELSE 0]
    /\ coins = [a \in Receivers |-> 0]
    /\ packets = [p \in Packets |-> NoPacket]
    /\ remote = 0
    /\ surplus = 0

-----------------------------------------------------------------------------
\* What the contract delivers when it is asked to transfer n tokens.
Delivered(n) == IF contract = "skims" THEN n - 1 ELSE n

Executes == contract \in {"honest", "skims"}

\* mutant: the balances are not compared after the transfers
Unchecked(n) == Executes

\* The call returns true and the receiver's balance has grown by the amount.
TransferChecked(n) == Executes /\ Delivered(n) = n

Moved(from, to, n) == [tokens EXCEPT ![from] = @ - n, ![to] = @ + Delivered(n)]

\* convertERC20IntoCoinsForNativeToken for a receiver of the new coins: the
\* tokens go to the module.
CanEscrow(s, n) == TransferChecked(n) /\ tokens[s] >= n
Escrowed(s, n) == Moved(s, Module, n)

\* ConvertCoinNativeERC20: nothing for no amount, otherwise the module gives
\* the tokens back and the coins are burned.
CanRelease(n) == n = 0 \/ (TransferChecked(n) /\ tokens[Module] >= n)
Released(r, n) == IF n = 0 THEN tokens ELSE Moved(Module, r, n)

MintingEnabled(s, r) == enabled /\ pair = "on" /\ (s = r \/ sendEnabled)

-----------------------------------------------------------------------------
(* Messages.                                                               *)

\* The pair of a destroyed contract is deleted, whatever the amount, and the
\* message succeeds; the metadata stays.
DeletesPair(s, r) ==
    /\ MintingEnabled(s, r)
    /\ contract = "dead"
    /\ pair' = "none"
    /\ UNCHANGED <<enabled, sendEnabled, metadata, contract, tokens, coins,
                   packets, remote, surplus>>

\* What r receives is a gift if it is the escrow.
GivenTo(r, n) == IF r = Escrow THEN n ELSE 0

ConvertERC20(s, r, n) ==
    \/ DeletesPair(s, r)
    \/ /\ MintingEnabled(s, r)
       /\ CanEscrow(s, n)
       /\ tokens' = Escrowed(s, n)
       /\ coins' = [coins EXCEPT ![r] = @ + n]
       /\ surplus' = surplus + GivenTo(r, n)
       /\ UNCHANGED <<governed, contract, packets, remote>>

\* What Transfer converts first: what the sender's coins fall short of the
\* amount, when the pair and the module are enabled.
Difference(s, n) ==
    IF pair = "on" /\ enabled /\ coins[s] < n THEN n - coins[s] ELSE 0

\* Transfer to the other chain; if the contract is destroyed, the conversion
\* succeeds without coins, the transfer fails for lack of them and takes the
\* deletion of the pair back.
Transfer(s, n, p) ==
    LET d == Difference(s, n)
    IN  /\ packets[p] = NoPacket
        /\ sendEnabled
        /\ d > 0 => MintingEnabled(s, s) /\ CanEscrow(s, d)
        /\ coins[s] + d >= n
        /\ tokens' = IF d > 0 THEN Escrowed(s, d) ELSE tokens
        /\ coins' = [coins EXCEPT ![s] = @ + d - n, ![Escrow] = @ + n]
        /\ packets' = [packets EXCEPT
                         ![p] = [status |-> "sent", sender |-> s, amount |-> n]]
        /\ UNCHANGED <<governed, contract, remote, surplus>>

-----------------------------------------------------------------------------
(* The other chain and the relayers.                                       *)

\* The packet is received; the acknowledgement of its success changes nothing.
Deliver(p) ==
    /\ packets[p].status = "sent"
    /\ remote' = remote + packets[p].amount
    /\ packets' = [packets EXCEPT ![p] = NoPacket]
    /\ UNCHANGED <<governed, contract, tokens, coins, surplus>>

\* The other chain refuses the packet, or its time runs out there.
Fail(p) ==
    /\ packets[p].status = "sent"
    /\ packets' = [packets EXCEPT ![p].status = "failed"]
    /\ UNCHANGED <<governed, contract, tokens, coins, remote, surplus>>

\* ConvertCoinToERC20FromPacket converts if the pair is registered, enabled
\* or not, and the module enabled.
Reconverts == pair # "none" /\ enabled

\* mutant: the conversion of a disabled pair is an error
RefundsEnabledPairs(n) == pair # "off" /\ (Reconverts => CanRelease(n))

CanRefund(n) == Reconverts => CanRelease(n)

\* mutant: the middleware converts before ICS-20 has refunded, and instead
ConvertedOwnCoins(s, n) == IF Reconverts THEN [coins EXCEPT ![s] = @ - n] ELSE coins

\* ICS-20 returns the coins from the escrow; a conversion burns them.
Refunded(s, n) ==
    [coins EXCEPT ![Escrow] = @ - n, ![s] = @ + IF Reconverts THEN 0 ELSE n]

\* OnAcknowledgementPacket with an error, or OnTimeoutPacket.  When the escrow
\* lacks the coins or the conversion fails, so does the relayer's message, and
\* the packet remains.
Refund(p) ==
    LET s == packets[p].sender
        n == packets[p].amount
    IN  /\ packets[p].status = "failed"
        /\ coins[Escrow] >= n
        /\ CanRefund(n)
        /\ tokens' = IF Reconverts THEN Released(s, n) ELSE tokens
        /\ coins' = Refunded(s, n)
        /\ packets' = [packets EXCEPT ![p] = NoPacket]
        /\ UNCHANGED <<governed, contract, remote, surplus>>

\* The coins of r when ICS-20 has taken n out of the escrow for it.
Arrived(r, n) == IF r = Escrow THEN coins[Escrow] ELSE coins[r] + n

\* mutant: the coins that arrive are converted, and all coins are burned
ConvertedOnArrival(r, n) == n

\* OnRecvPacket converts the whole balance of the receiver, not only what
\* has arrived: if the receiver is the escrow, everything that it holds.
ConvertedOnRecv(r, n) == Arrived(r, n)

\* OnRecvPacket of vouchers that return: ICS-20 takes the coins out of the
\* escrow and the middleware converts, if the pair and the module are enabled.
\* An error acknowledgement (the escrow lacks the coins, the same key sends and
\* receives, or the conversion fails) reverts all of it and the other chain
\* refunds its sender.
OnRecvPacket(from, r, n) ==
    LET converts == enabled /\ pair = "on"
        b == ConvertedOnRecv(r, n)
    IN  /\ n <= remote
        /\ coins[Escrow] >= n
        /\ enabled => from # r
        /\ converts => CanRelease(b)
        /\ remote' = remote - n
        /\ tokens' = IF converts THEN Released(r, b) ELSE tokens
        /\ coins' = [coins EXCEPT ![Escrow] = @ - n,
                                  ![r] = IF converts THEN 0 ELSE Arrived(r, n)]
        /\ surplus' = surplus + GivenTo(r, IF converts THEN n - coins[Escrow] ELSE n)
        /\ UNCHANGED <<governed, contract, packets>>

-----------------------------------------------------------------------------
(* Governance.                                                             *)

\* The contract must answer name, symbol and decimals.
RegisterERC20 ==
    /\ enabled
    /\ pair = "none"
    /\ contract # "dead"
    /\ ~metadata
    /\ pair' = "on"
    /\ metadata' = TRUE
    /\ UNCHANGED <<enabled, sendEnabled, contract, tokens, coins, packets,
                   remote, surplus>>

ToggleConversion ==
    /\ enabled
    /\ pair # "none"
    /\ pair' = IF pair = "on" THEN "off" ELSE "on"
    /\ UNCHANGED <<enabled, sendEnabled, metadata, contract, tokens, coins,
                   packets, remote, surplus>>

UpdateParams ==
    /\ enabled' = ~enabled
    /\ UNCHANGED <<sendEnabled, pair, metadata, contract, tokens, coins, packets,
                   remote, surplus>>

SetSendEnabled ==
    /\ sendEnabled' = ~sendEnabled
    /\ UNCHANGED <<enabled, pair, metadata, contract, tokens, coins, packets,
                   remote, surplus>>

-----------------------------------------------------------------------------
(* The contract and the bank.                                              *)

Pay(s, r, n) ==
    /\ Executes
    /\ s # r
    /\ tokens[s] >= n
    /\ tokens' = Moved(s, r, n)
    /\ UNCHANGED <<governed, contract, coins, packets, remote, surplus>>

SendCoins(s, r, n) ==
    /\ sendEnabled
    /\ s # r
    /\ coins[s] >= n
    /\ coins' = [coins EXCEPT ![s] = @ - n, ![r] = @ + n]
    /\ surplus' = surplus + GivenTo(r, n)
    /\ UNCHANGED <<governed, contract, tokens, packets, remote>>

\* Its owner changes what it does, and may destroy it with all balances.
ChangeContract(c) ==
    /\ contract \notin {"dead", c}
    /\ contract' = c
    /\ tokens' = IF c = "dead" THEN [a \in DOMAIN tokens |-> 0] ELSE tokens
    /\ UNCHANGED <<governed, coins, packets, remote, surplus>>

Amounts == 1 .. Supply

Next ==
    \/ \E s \in Users, r \in Receivers, n \in Amounts : ConvertERC20(s, r, n)
    \/ \E s \in Users, n \in Amounts, p \in Packets : Transfer(s, n, p)
    \/ \E p \in Packets : Deliver(p)
    \/ \E p \in Packets : Fail(p)
    \/ \E p \in Packets : Refund(p)
    \/ \E from \in Users, r \in Receivers, n \in Amounts : OnRecvPacket(from, r, n)
    \/ RegisterERC20
    \/ ToggleConversion
    \/ UpdateParams
    \/ SetSendEnabled
    \/ \E s \in Users, r \in Receivers \union {Module}, n \in Amounts : Pay(s, r, n)
    \/ \E s \in Users, r \in Receivers, n \in Amounts : SendCoins(s, r, n)
    \/ \E c \in {"honest", "skims", "refuses", "dead"} : ChangeContract(c)

\* Relayers are paid to deliver what a channel owes, and retry a message that
\* failed.
Spec == Init /\ [][Next]_vars /\ \A p \in Packets : WF_vars(Refund(p))

-----------------------------------------------------------------------------
(* Properties.                                                             *)

\* As long as the contract exists, the module holds a token for every coin in
\* circulation, those in the escrow of the channel included: whatever is
\* converted, disabled, sent, refused and refunded meanwhile, and although the
\* contract may begin to deliver short at any time, every coin can be
\* converted back.
Backed == contract # "dead" => tokens[Module] >= TotalCoins

\* The escrow of the channel holds the coins of the packets in flight and of
\* the vouchers on the other chain, beside what it was given and what a packet
\* that named it as its receiver has converted there: a refund that fails after
\* ICS-20 has returned the coins, or a conversion of everything a receiver
\* owns, never pays a packet twice or from another's coins.
EscrowMatches == coins[Escrow] = InFlight + remote + surplus

\* A stronger claim, that the escrow always has what the packets and the other
\* chain are owed.  Refuted by TLC when the run's cfg names it: vouchers return
\* to the account of the channel itself, which is no module account
\* (x/erc20/keeper/ibc_callbacks.go:79-84), and its whole balance is converted
\* (138-139).
EscrowCovers == coins[Escrow] >= InFlight + remote

\* What an account owns in either form, its packets in flight included.
Worth(u) == tokens[u] + coins[u] + OwedTo(u)

\* No conversion, refund or receipt costs an account anything: what it owns in
\* tokens, coins and packets falls only when it pays (converting for another
\* included), when a packet of its own
\* is delivered, or when the contract is destroyed.
NobodyPoorer ==
    [][\A u \in Users :
         Worth(u)' < Worth(u) =>
            \/ \E r \in Receivers \union {Module}, n \in Amounts : Pay(u, r, n)
            \/ \E r \in Receivers \ {u}, n \in Amounts :
                  SendCoins(u, r, n) \/ ConvertERC20(u, r, n)
            \/ \E p \in Packets : Deliver(p) /\ packets[p].sender = u
            \/ ChangeContract("dead")]_vars

\* The contract stands in the way of refunds: it is registered and does not
\* transfer in full.
Obstructs == Reconverts /\ contract # "honest"

\* A transfer that failed is refunded in the end, the pair and the module
\* disabled and enabled in the meantime as often as governance likes, unless
\* the contract obstructs again and again, or a packet that returned to the
\* escrow itself has converted there more than the escrow was ever given: the
\* module never lacks the tokens, and the escrow never the coins.
RefundsSettle ==
    \A p \in Packets :
        \/ []<>Obstructs
        \/ []<>(surplus < 0)
        \/ packets[p].status = "failed" ~> packets[p].status # "failed"
=============================================================================
