--------------------------- MODULE Vesting_proofs ----------------------------
(***************************************************************************)
(* Theorems about x/vesting for every set of accounts, grants and          *)
(* proposals: what a vote may claw back and when; what the schedules say   *)
(* that DisjunctPeriods and ConjunctPeriods merge; and that the coins of   *)
(* an account that have not vested, or are locked, are where they have to  *)
(* be.  The checks in front of validators take nothing from it.            *)
(***************************************************************************)
EXTENDS StakingGate, SequenceTheorems, FiniteSetTheorems, WellFoundedInduction, TLAPS

-----------------------------------------------------------------------------
(* The exemption from votes.                                               *)

\* The entries of the three places that the exemption is kept in, as far as it
\* depends on them.
AccountsOK ==
    /\ acc = [a \in Addrs |-> acc[a]]
    /\ govChoice = [a \in Addrs |-> govChoice[a]]
    /\ \A a \in Addrs : "kind" \in DOMAIN acc[a]

\* An account is a vesting account or it is not, also after a change of its
\* schedules or of what it has delegated.
ExemptionInv == AccountsOK /\ GovChoiceKept

\* A step that changes no account's kind and no exemption.
LEMMA KindsKept ==
    ASSUME ExemptionInv,
           acc' = [a \in Addrs |-> acc'[a]],
           \A a \in Addrs : "kind" \in DOMAIN acc'[a] /\ acc'[a].kind = acc[a].kind,
           UNCHANGED <<govDisabled, govChoice>>
    PROVE  ExemptionInv'
  BY VestingAssumption DEF ExemptionInv, AccountsOK, GovChoiceKept, IsClawback

\* A new entry for one account leaves the others alone.
LEMMA EntryReplaced ==
    ASSUME AccountsOK, NEW a, NEW e, acc' = [acc EXCEPT ![a] = e],
           a \in Addrs => "kind" \in DOMAIN e
    PROVE  /\ acc' = [b \in Addrs |-> acc'[b]]
           /\ \A b \in Addrs : "kind" \in DOMAIN acc'[b]
           /\ \A b \in Addrs : acc'[b] = IF b = a THEN e ELSE acc[b]
  <1>1. acc' = [b \in Addrs |-> IF b = a THEN e ELSE acc[b]]
    BY DEF AccountsOK
  <1> QED
    BY <1>1 DEF AccountsOK

\* An account that a step turns into an ordinary one is no longer exempt.
LEMMA BackIsNotExempt ==
    ASSUME ExemptionInv, NEW a, BackToEth(a), UNCHANGED govChoice
    PROVE  ExemptionInv'
  <1>1. /\ acc' = [b \in Addrs |-> acc'[b]]
        /\ \A b \in Addrs : "kind" \in DOMAIN acc'[b]
        /\ \A b \in Addrs : acc'[b] = IF b = a THEN Eth ELSE acc[b]
    BY EntryReplaced DEF ExemptionInv, BackToEth, Eth
  <1>2. govDisabled' = govDisabled \ {a}
    BY DEF BackToEth
  <1>3. Eth.kind # "clawback"
    BY DEF Eth
  <1>4. GovChoiceKept'
    BY <1>1, <1>2, <1>3, VestingAssumption DEF ExemptionInv, GovChoiceKept, IsClawback
  <1> QED
    BY <1>1, <1>4 DEF ExemptionInv, AccountsOK

\* An account's fields beside its kind may change.
LEMMA FieldsChange ==
    ASSUME ExemptionInv, NEW a, NEW e, acc' = [acc EXCEPT ![a] = e],
           a \in Addrs => "kind" \in DOMAIN e /\ e.kind = acc[a].kind,
           UNCHANGED <<govDisabled, govChoice>>
    PROVE  ExemptionInv'
  <1>1. /\ acc' = [b \in Addrs |-> acc'[b]]
        /\ \A b \in Addrs : "kind" \in DOMAIN acc'[b]
        /\ \A b \in Addrs : acc'[b] = IF b = a THEN e ELSE acc[b]
    BY EntryReplaced DEF ExemptionInv
  <1> QED
    BY <1>1, KindsKept

\* A new grant changes schedules and amounts of an account and not its kind.
LEMMA GrantKeepsKind ==
    ASSUME NEW va, "kind" \in DOMAIN va, NEW g, NEW delegated, NEW t
    PROVE  LET new == AddGrant(va, g, delegated, t)
           IN  "kind" \in DOMAIN new /\ new.kind = va.kind
  BY DEF AddGrant

\* Every step keeps the exemption with the account it was made for.
LEMMA NextExemption == ExemptionInv /\ [Next]_vars => ExemptionInv'
  <1> SUFFICES ASSUME ExemptionInv, [Next]_vars PROVE ExemptionInv'
    OBVIOUS
  <1>0. CASE UNCHANGED vars
    BY <1>0 DEF ExemptionInv, AccountsOK, GovChoiceKept, IsClawback, vars, history
  <1>1. ASSUME NEW a \in Holders, NEW f \in Funders, NEW on \in BOOLEAN,
               CreateClawbackVestingAccount(a, f, on)
        PROVE  ExemptionInv'
    <2>1. /\ acc' = [b \in Addrs |-> acc'[b]]
          /\ \A b \in Addrs : "kind" \in DOMAIN acc'[b]
          /\ \A b \in Addrs : acc'[b] = IF b = a THEN NewVesting(f) ELSE acc[b]
      BY <1>1, EntryReplaced DEF ExemptionInv, CreateClawbackVestingAccount, NewVesting
    <2>2. NewVesting(f).kind = "clawback" /\ acc[a].kind = "eth"
      BY <1>1 DEF CreateClawbackVestingAccount, NewVesting, Eth
    <2>3. a \in Addrs /\ a \notin govDisabled
      BY <2>2, VestingAssumption DEF ExemptionInv, GovChoiceKept, IsClawback
    <2>4. govDisabled' = IF on THEN govDisabled ELSE govDisabled \cup {a}
      BY <1>1 DEF CreateClawbackVestingAccount
    <2>5. govChoice' = [b \in Addrs |-> IF b = a THEN on ELSE govChoice[b]]
      BY <1>1 DEF CreateClawbackVestingAccount, ExemptionInv, AccountsOK
    <2>6. GovChoiceKept'
      BY <2>1, <2>2, <2>3, <2>4, <2>5, VestingAssumption
      DEF ExemptionInv, GovChoiceKept, IsClawback
    <2> QED
      BY <2>1, <2>5, <2>6 DEF ExemptionInv, AccountsOK
  <1>2. ASSUME NEW a \in Holders, NEW g \in Grants, FundVestingAccount(a, g)
        PROVE  ExemptionInv'
    <2> DEFINE e == AddGrant(acc[a], g, staked[a], time)
    <2>1. a \in Addrs /\ "kind" \in DOMAIN acc[a]
      BY VestingAssumption DEF ExemptionInv, AccountsOK
    <2>2. "kind" \in DOMAIN e /\ e.kind = acc[a].kind
      BY <2>1, GrantKeepsKind
    <2>3. acc' = [acc EXCEPT ![a] = e] /\ UNCHANGED <<govDisabled, govChoice>>
      BY <1>2 DEF FundVestingAccount
    <2> HIDE DEF e
    <2> QED
      BY <2>2, <2>3, FieldsChange
  <1>3. ASSUME NEW a \in Holders, NEW d, Clawback(a, d) PROVE ExemptionInv'
    BY <1>3, BackIsNotExempt DEF Clawback, TransferClawback
  <1>4. ASSUME NEW a \in Holders, NEW f, UpdateVestingFunder(a, f) PROVE ExemptionInv'
    <2> DEFINE e == [acc[a] EXCEPT !.funder = f]
    <2>1. "kind" \in DOMAIN e /\ e.kind = acc[a].kind
      BY VestingAssumption DEF ExemptionInv, AccountsOK
    <2>2. acc' = [acc EXCEPT ![a] = e] /\ UNCHANGED <<govDisabled, govChoice>>
      BY <1>4 DEF UpdateVestingFunder, history
    <2> HIDE DEF e
    <2> QED
      BY <2>1, <2>2, FieldsChange
  <1>5. ASSUME NEW a \in Holders, ConvertVestingAccount(a) PROVE ExemptionInv'
    BY <1>5, BackIsNotExempt DEF ConvertVestingAccount
  <1>6. ASSUME NEW id \in Proposals, NEW passes \in BOOLEAN, EndVoting(id, passes)
        PROVE  ExemptionInv'
    <2>1. UNCHANGED govChoice
      BY <1>6 DEF EndVoting
    <2>2. CASE BackToEth(proposal[id].account)
      BY <2>1, <2>2, BackIsNotExempt
    <2>3. CASE UNCHANGED <<acc, govDisabled>>
      BY <2>1, <2>3 DEF ExemptionInv, AccountsOK, GovChoiceKept, IsClawback
    <2> QED
      BY <1>6, <2>2, <2>3 DEF EndVoting, TransferClawback
  <1>7. ASSUME NEW a \in Holders, NEW n, Delegate(a, n) PROVE ExemptionInv'
    <2>1. UNCHANGED <<govDisabled, govChoice>>
      BY <1>7 DEF Delegate, history
    <2> DEFINE e == [acc[a] EXCEPT !.delegatedFree = @ + n]
    <2>2. CASE IsClawback(a)
      <3>1. "kind" \in DOMAIN e /\ e.kind = acc[a].kind
        BY VestingAssumption DEF ExemptionInv, AccountsOK
      <3>2. acc' = [acc EXCEPT ![a] = e]
        BY <1>7, <2>2 DEF Delegate, TrackDelegation
      <3> HIDE DEF e
      <3> QED
        BY <2>1, <3>1, <3>2, FieldsChange
    <2>3. CASE ~IsClawback(a)
      BY <1>7, <2>1, <2>3
      DEF Delegate, TrackDelegation, ExemptionInv, AccountsOK, GovChoiceKept, IsClawback
    <2> QED
      BY <2>2, <2>3
  <1>8. ASSUME NEW a \in Holders, NEW n, CompleteUnbonding(a, n) PROVE ExemptionInv'
    <2>1. UNCHANGED <<govDisabled, govChoice>>
      BY <1>8 DEF CompleteUnbonding, history
    <2> DEFINE free == Min64(n, acc[a].delegatedFree)
               e == [acc[a] EXCEPT !.delegatedFree = @ - free,
                                   !.delegatedVesting = @ - Min64(n - free, @)]
    <2>2. CASE IsClawback(a)
      <3>1. "kind" \in DOMAIN e /\ e.kind = acc[a].kind
        BY VestingAssumption DEF ExemptionInv, AccountsOK
      <3>2. acc' = [acc EXCEPT ![a] = e]
        BY <1>8, <2>2, VestingAssumption DEF CompleteUnbonding, ExemptionInv, AccountsOK
      <3> HIDE DEF e
      <3> QED
        BY <2>1, <3>1, <3>2, FieldsChange
    <2>3. CASE ~IsClawback(a)
      BY <1>8, <2>1, <2>3
      DEF CompleteUnbonding, ExemptionInv, AccountsOK, GovChoiceKept, IsClawback
    <2> QED
      BY <2>2, <2>3
  <1>9. ASSUME UNCHANGED <<acc, govDisabled, govChoice>> PROVE ExemptionInv'
    BY <1>9 DEF ExemptionInv, AccountsOK, GovChoiceKept, IsClawback
  <1>10. CASE Messages
    BY <1>10, <1>1, <1>2, <1>3, <1>4, <1>5 DEF Messages
  <1>11. CASE Governance
    BY <1>11, <1>6, <1>9 DEF Governance, SubmitProposal, AddDeposit, FailMinDeposit, history
  <1>12. CASE Movements
    <2>1. ASSUME NEW a, NEW values, EthereumTx(a, values) PROVE ExemptionInv'
      <3>1. UNCHANGED <<time, acc, staked, govDisabled, govVars, history>>
        BY <2>1, Zenon DEF EthereumTx
      <3> QED
        BY <3>1, <1>9 DEF history
    <2> QED
      BY <1>12, <1>7, <1>8, <1>9, <2>1 DEF Movements, Send, Slash, history
  <1> QED
    BY <1>0, <1>9, <1>10, <1>11, <1>12 DEF Next, NextBlock, history

(***************************************************************************)
(* An account is exempt from votes exactly while it is a vesting account   *)
(* that was created so (CreateClawbackVestingAccount sets the entry, a     *)
(* clawback and a conversion delete it).                                   *)
(***************************************************************************)
THEOREM ExemptionKept == Spec => []GovChoiceKept
  <1>1. Init => ExemptionInv
    <2> SUFFICES ASSUME Init PROVE ExemptionInv
      OBVIOUS
    <2>1. acc = [a \in Addrs |-> Eth] /\ govChoice = [a \in Addrs |-> FALSE] /\ govDisabled = {}
      BY DEF Init
    <2>2. Eth.kind # "clawback" /\ "kind" \in DOMAIN Eth
      BY DEF Eth
    <2> QED
      BY <2>1, <2>2, VestingAssumption DEF ExemptionInv, AccountsOK, GovChoiceKept, IsClawback
  <1>2. ExemptionInv => GovChoiceKept
    BY DEF ExemptionInv
  <1> QED
    BY <1>1, <1>2, NextExemption, PTL DEF Spec

-----------------------------------------------------------------------------
(* The marks of votes.                                                     *)

\* A proposal that accounts for a mark: it has a legacy content and is voted on,
\* or a foreign deposit has made the mark.
Supports(p) ==
    /\ p.legacy
    /\ \/ p.status = "voting"
       \/ p.status \in {"deposit", "failed"} /\ p.foreign

ProposalOK(p) ==
    /\ {"status", "legacy", "foreign"} \subseteq DOMAIN p
    /\ p.legacy \in BOOLEAN /\ p.foreign \in BOOLEAN

\* A proposal of the kind that marks accounts, for this one.
Marks(p, a) == p.legacy /\ p.account = a

\* VotesMarked, without the sets, and what the entries are.
MarksInv ==
    /\ proposal = [id \in Proposals |-> proposal[id]]
    /\ \A id \in Proposals : ProposalOK(proposal[id])
    /\ \A a \in Holders : a \in activeProposal =>
          \E id \in Proposals : proposal[id].account = a /\ Supports(proposal[id])
    /\ \A a \in Holders :
          \/ a \in activeProposal
          \/ \A id \in Proposals : Marks(proposal[id], a) => proposal[id].status # "voting"
          \/ \E id \in Proposals : Marks(proposal[id], a) /\ proposal[id].status = "over"

\* The two forms say the same.
LEMMA MarksImply == MarksInv => VotesMarked
  <1> SUFFICES ASSUME MarksInv PROVE VotesMarked
    OBVIOUS
  <1> DEFINE about(a, status) ==
               {id \in Proposals : /\ proposal[id].status = status
                                  /\ proposal[id].legacy
                                  /\ proposal[id].account = a}
  <1>1. ASSUME NEW a \in Holders, about(a, "voting") # {}, about(a, "over") = {}
        PROVE  a \in activeProposal
    BY <1>1 DEF MarksInv, Marks
  <1>2. ASSUME NEW a \in Holders, a \in activeProposal
        PROVE  \/ about(a, "voting") # {}
               \/ \E id \in about(a, "deposit") \cup about(a, "failed") : proposal[id].foreign
    <2>1. PICK id \in Proposals : proposal[id].account = a /\ Supports(proposal[id])
      BY <1>2 DEF MarksInv
    <2>2. CASE proposal[id].status = "voting"
      <3>1. id \in about(a, "voting")
        BY <2>1, <2>2 DEF Supports
      <3> QED
        BY <3>1
    <2>3. CASE proposal[id].status \in {"deposit", "failed"} /\ proposal[id].foreign
      <3>1. id \in about(a, "deposit") \cup about(a, "failed")
        BY <2>1, <2>3 DEF Supports
      <3> QED
        BY <2>3, <3>1
    <2> QED
      BY <2>1, <2>2, <2>3 DEF Supports
  <1> QED
    BY <1>1, <1>2 DEF VotesMarked

\* A new state of one proposal: the marks stand if nobody loses one, no ended
\* proposal comes back, a vote that begins marks the account, and the proposal
\* accounts for its mark and goes on doing so.
LEMMA ProposalMoves ==
    ASSUME MarksInv, NEW id \in Proposals, NEW p,
           proposal' = [proposal EXCEPT ![id] = p],
           ProposalOK(p),
           proposal[id].status # "over",
           activeProposal \subseteq activeProposal',
           activeProposal' \subseteq activeProposal \cup {p.account},
           p.account \in activeProposal' => p.account \in activeProposal \/ Supports(p),
           Supports(proposal[id]) => Supports(p) /\ p.account = proposal[id].account,
           p.legacy /\ p.status = "voting" => p.account \in activeProposal'
    PROVE  MarksInv'
  <1>1. proposal' = [i \in Proposals |-> IF i = id THEN p ELSE proposal[i]]
    BY DEF MarksInv
  <1>2. \A i \in Proposals : ProposalOK(proposal'[i])
    BY <1>1 DEF MarksInv
  <1>3. ASSUME NEW a \in Holders
        PROVE  \/ a \in activeProposal'
               \/ \A i \in Proposals :
                     Marks(proposal'[i], a) => proposal'[i].status # "voting"
               \/ \E i \in Proposals : Marks(proposal'[i], a) /\ proposal'[i].status = "over"
    <2>1. CASE \E i \in Proposals : Marks(proposal[i], a) /\ proposal[i].status = "over"
      BY <1>1, <2>1
    <2>2. CASE a \in activeProposal
      BY <2>2
    <2>3. CASE \A i \in Proposals :
                  Marks(proposal[i], a) => proposal[i].status # "voting"
      BY <1>1, <2>3 DEF Marks
    <2> QED
      BY <2>1, <2>2, <2>3 DEF MarksInv
  <1>4. ASSUME NEW a \in Holders, a \in activeProposal'
        PROVE  \E i \in Proposals : proposal'[i].account = a /\ Supports(proposal'[i])
    <2>1. CASE a \in activeProposal
      <3>1. PICK i \in Proposals : proposal[i].account = a /\ Supports(proposal[i])
        BY <2>1 DEF MarksInv
      <3>2. proposal'[i].account = a /\ Supports(proposal'[i])
        BY <1>1, <3>1
      <3> QED
        BY <3>2
    <2>2. CASE a \notin activeProposal
      <3>1. a = p.account /\ Supports(p)
        BY <1>4, <2>2
      <3> QED
        BY <1>1, <3>1
    <2> QED
      BY <2>1, <2>2
  <1> QED
    BY <1>1, <1>2, <1>3, <1>4 DEF MarksInv

\* What a deposit marks an account for accounts for the mark.
LEMMA ForeignOrVoting ==
    ASSUME NEW p, p.status \in {"deposit", "voting"}
    PROVE  p.legacy /\ (p.status = "voting" \/ p.foreign) => Supports(p)
  <1>1. p.status = "deposit" \/ p.status = "voting"
    OBVIOUS
  <1>2. CASE p.status = "deposit"
    BY <1>2, Zenon DEF Supports
  <1>3. CASE p.status = "voting"
    BY <1>3 DEF Supports
  <1> QED
    BY <1>1, <1>2, <1>3

\* A deposit keeps what a proposal is about.
LEMMA DepositFields ==
    ASSUME NEW p, ProposalOK(p), NEW kind
    PROVE  /\ ProposalOK(Deposited(p, kind))
           /\ p.foreign => Deposited(p, kind).foreign
           /\ Deposited(p, kind).legacy = p.legacy
           /\ Deposited(p, kind).account = p.account
           /\ Deposited(p, kind).status = IF kind = "reaching" THEN "voting" ELSE p.status
  BY DEF Deposited, ProposalOK

\* Deposits, failures and ends of votes keep the marks.
LEMMA NextMarks == MarksInv /\ [Next]_vars => MarksInv'
  <1> SUFFICES ASSUME MarksInv, [Next]_vars PROVE MarksInv'
    OBVIOUS
  <1>1. ASSUME UNCHANGED govVars PROVE MarksInv'
    BY <1>1 DEF MarksInv, Supports, govVars
  <1>2. ASSUME NEW id \in Proposals, NEW a, NEW legacy \in BOOLEAN, NEW k,
               SubmitProposal(id, a, legacy, k)
        PROVE  MarksInv'
    <2> DEFINE new == [status |-> "deposit", legacy |-> legacy, foreign |-> FALSE,
                       account |-> a]
               p == Deposited(new, k)
    <2>1. /\ proposal[id].status = "none" /\ proposal' = [proposal EXCEPT ![id] = p]
          /\ AfterProposalDeposit(a, p)
      BY <1>2 DEF SubmitProposal
    <2>2. /\ ProposalOK(p) /\ p.account = a
          /\ p.status \in {"deposit", "voting"}
      BY DepositFields, ZenonT(60) DEF ProposalOK
    <2> HIDE DEF p
    <2>3. activeProposal' = IF p.legacy /\ (p.status = "voting" \/ p.foreign)
                            THEN activeProposal \cup {p.account} ELSE activeProposal
      BY <2>1, <2>2 DEF AfterProposalDeposit
    <2>4. p.legacy /\ (p.status = "voting" \/ p.foreign) => Supports(p)
      BY <2>2, ForeignOrVoting
    <2>5. ~Supports(proposal[id]) /\ proposal[id].status # "over"
      BY <2>1 DEF Supports
    <2> QED
      BY <2>1, <2>2, <2>3, <2>4, <2>5, ProposalMoves
  <1>3. ASSUME NEW id \in Proposals, NEW k, AddDeposit(id, k) PROVE MarksInv'
    <2> DEFINE p == Deposited(proposal[id], k)
    <2>1. /\ proposal[id].status \in {"deposit", "voting"}
          /\ proposal' = [proposal EXCEPT ![id] = p]
          /\ AfterProposalDeposit(p.account, p)
      BY <1>3 DEF AddDeposit
    <2>2. /\ ProposalOK(p) /\ p.account = proposal[id].account
          /\ p.status = IF k = "reaching" THEN "voting" ELSE proposal[id].status
          /\ proposal[id].foreign => p.foreign
          /\ p.legacy = proposal[id].legacy
      BY DepositFields DEF MarksInv
    <2> HIDE DEF p
    <2>3. p.status \in {"deposit", "voting"}
      BY <2>1, <2>2
    <2>4. Supports(proposal[id]) => Supports(p)
      BY <2>1, <2>2 DEF Supports
    <2>5. activeProposal' = IF p.legacy /\ (p.status = "voting" \/ p.foreign)
                            THEN activeProposal \cup {p.account} ELSE activeProposal
      BY <2>1 DEF AfterProposalDeposit
    <2>6. p.legacy /\ (p.status = "voting" \/ p.foreign) => Supports(p)
      BY <2>3, ForeignOrVoting
    <2> QED
      BY <2>1, <2>2, <2>4, <2>5, <2>6, ProposalMoves
  <1>4. ASSUME NEW id \in Proposals, FailMinDeposit(id) PROVE MarksInv'
    <2> DEFINE p == [proposal[id] EXCEPT !.status = "failed"]
    <2>1. /\ proposal[id].status = "deposit" /\ UNCHANGED activeProposal
          /\ proposal' = [proposal EXCEPT ![id] = p]
      BY <1>4 DEF FailMinDeposit
    <2>2. /\ ProposalOK(p) /\ p.status = "failed"
          /\ p.account = proposal[id].account /\ p.foreign = proposal[id].foreign
          /\ p.legacy = proposal[id].legacy
      BY DEF MarksInv, ProposalOK
    <2> HIDE DEF p
    <2> QED
      BY <2>1, <2>2, ProposalMoves DEF Supports
  <1>5. ASSUME NEW id \in Proposals, NEW passes, EndVoting(id, passes) PROVE MarksInv'
    <2> DEFINE p == [proposal[id] EXCEPT !.status = "over"]
    <2>1. /\ proposal[id].status = "voting" /\ proposal' = [proposal EXCEPT ![id] = p]
          /\ activeProposal' = IF proposal[id].legacy
                               THEN activeProposal \ {proposal[id].account}
                               ELSE activeProposal
      BY <1>5 DEF EndVoting, AfterProposalVotingPeriodEnded
    <2>2. /\ ProposalOK(p) /\ p.status = "over"
          /\ p.account = proposal[id].account /\ p.legacy = proposal[id].legacy
      BY DEF MarksInv, ProposalOK
    <2> HIDE DEF p
    <2>3. proposal' = [i \in Proposals |-> IF i = id THEN p ELSE proposal[i]]
      BY <2>1 DEF MarksInv
    <2>4. ASSUME NEW a \in Holders, a \in activeProposal'
          PROVE  \E i \in Proposals : proposal'[i].account = a /\ Supports(proposal'[i])
      <3>1. PICK i \in Proposals : proposal[i].account = a /\ Supports(proposal[i])
        BY <2>1, <2>4 DEF MarksInv
      <3>2. i # id /\ proposal'[i] = proposal[i]
        BY <2>1, <2>3, <2>4, <3>1 DEF Supports
      <3> QED
        BY <3>1, <3>2
    <2>5. ASSUME NEW a \in Holders
          PROVE  \/ a \in activeProposal'
                 \/ \A i \in Proposals :
                       Marks(proposal'[i], a) => proposal'[i].status # "voting"
                 \/ \E i \in Proposals : Marks(proposal'[i], a) /\ proposal'[i].status = "over"
      <3>1. CASE Marks(proposal[id], a)
        BY <2>2, <2>3, <3>1 DEF Marks
      <3>2. CASE ~Marks(proposal[id], a) /\ a \in activeProposal
        BY <2>1, <3>2 DEF Marks
      <3>3. CASE ~Marks(proposal[id], a) /\ a \notin activeProposal
        BY <2>1, <2>2, <2>3, <3>3 DEF MarksInv, Marks
      <3> QED
        BY <3>1, <3>2, <3>3
    <2>6. \A i \in Proposals : ProposalOK(proposal'[i])
      BY <2>2, <2>3 DEF MarksInv
    <2> QED
      BY <2>3, <2>4, <2>5, <2>6 DEF MarksInv
  <1>6. CASE Messages
    BY <1>1, <1>6, Zenon
    DEF Messages, CreateClawbackVestingAccount, FundVestingAccount, Clawback,
        UpdateVestingFunder, ConvertVestingAccount
  <1>7. CASE Governance
    BY <1>2, <1>3, <1>4, <1>5, <1>7 DEF Governance
  <1>8. CASE Movements
    BY <1>1, <1>8, Zenon
    DEF Movements, Send, EthereumTx, Delegate, CompleteUnbonding, Slash
  <1> QED
    BY <1>1, <1>6, <1>7, <1>8 DEF Next, NextBlock, vars

(***************************************************************************)
(* The funder cannot overrule a vote on a ClawbackProposal: while one on   *)
(* an account is voted on and no other about it has ended, the account is  *)
(* marked, and Clawback refuses marked accounts.  Votes on a MsgClawback   *)
(* neither make marks nor take them away (AfterProposalDeposit,            *)
(* AfterProposalVotingPeriodEnded, getClawbackProposals).                  *)
(***************************************************************************)
THEOREM VotesAreMarked == Spec => []VotesMarked
  <1>1. Init => MarksInv
    <2> SUFFICES ASSUME Init PROVE MarksInv
      OBVIOUS
    <2>1. proposal = [id \in Proposals |-> NoProposal] /\ activeProposal = {}
      BY DEF Init
    <2>2. ProposalOK(NoProposal) /\ NoProposal.status # "voting"
      BY DEF NoProposal, ProposalOK
    <2> QED
      BY <2>1, <2>2 DEF MarksInv
  <1> QED
    BY <1>1, NextMarks, MarksImply, PTL DEF Spec

-----------------------------------------------------------------------------
(* Numbers and folds.                                                      *)

\* What holds of 0 and goes from each number up to n to the next holds of all.
LEMMA BoundedInduction ==
    ASSUME NEW n \in Nat, NEW I, 0 \in I, \A k \in 1..n : k - 1 \in I => k \in I
    PROVE  \A k \in 0..n : k \in I
  <1> DEFINE B == {k \in 0..n : k \notin I}
             R == OpToRel(<, Nat)
  <1>1. SUFFICES ASSUME B # {} PROVE FALSE
    OBVIOUS
  <1>2. PICK k \in B : \A j \in B : <<j, k>> \notin R
    <2>1. B \subseteq Nat
      OBVIOUS
    <2> HIDE DEF B, R
    <2>2. IsWellFoundedOn(R, Nat)
      BY NatLessThanWellFounded DEF R
    <2> QED BY <1>1, <2>1, <2>2, WFMin
  <1>3. k \in 1..n /\ k - 1 \in 0..n
    <2>1. k \in 0..n /\ k # 0
      OBVIOUS
    <2> HIDE DEF B
    <2> QED BY <2>1
  <1>4. k - 1 \notin B
    <2>1. k - 1 < k /\ k - 1 \in Nat /\ k \in Nat
      BY <1>3
    <2> QED BY <1>2, <2>1 DEF OpToRel
  <1> QED BY <1>2, <1>3, <1>4

\* The recursion of a fold from the left, for a table of its steps: the value of
\* a set of indices is made from the last of them and the value of the others.
FoldRec(g, base, table, n) ==
    g = [s \in SUBSET (1..n) |->
           IF s = {} THEN base ELSE table[Max(s)][g[s \ {Max(s)}]]]

\* The largest of a set of indices.
LEMMA MaxOfIndices ==
    ASSUME NEW n \in Nat, NEW s \in SUBSET (1..n), s # {}
    PROVE  Max(s) \in s /\ \A i \in s : i <= Max(s)
  <1> DEFINE T == {n - i : i \in s}
             R == OpToRel(<, Nat)
  <1>1. T \subseteq Nat /\ T # {}
    <2>1. ASSUME NEW i \in s PROVE n - i \in Nat
      <3>1. i \in 1..n
        OBVIOUS
      <3> QED BY <3>1
    <2>2. PICK i \in s : TRUE
      OBVIOUS
    <2>3. n - i \in T
      OBVIOUS
    <2> QED BY <2>1, <2>3
  <1>2. PICK x \in T : \A y \in T : <<y, x>> \notin R
    <2> HIDE DEF T, R
    <2>1. IsWellFoundedOn(R, Nat)
      BY NatLessThanWellFounded DEF R
    <2> QED BY <1>1, <2>1, WFMin
  <1>3. PICK m \in s : x = n - m
    OBVIOUS
  <1>4. \A i \in s : m >= i
    <2> TAKE i \in s
    <2>1. n - i \in T /\ n - i \in Nat /\ x \in Nat
      BY <1>1, <1>2
    <2>2. ~(n - i < x)
      BY <2>1, <1>2 DEF OpToRel
    <2>3. i \in Int /\ m \in Int
      OBVIOUS
    <2> QED BY <2>1, <2>2, <2>3, <1>3
  <1>5. Max(s) \in s /\ \A i \in s : Max(s) >= i
    BY <1>4 DEF Max
  <1> QED BY <1>5

\* The recursion has a solution, for every table.
LEMMA FoldRecExists ==
    ASSUME NEW n \in Nat, NEW S, NEW base \in S, NEW table \in [1..n -> [S -> S]]
    PROVE  \E g \in [SUBSET (1..n) -> S] : FoldRec(g, base, table, n)
  <1> DEFINE I == {k \in 0..n : \E g \in [SUBSET (1..k) -> S] : FoldRec(g, base, table, k)}
  <1>1. 0 \in I
    <2> DEFINE g == [s \in SUBSET (1..0) |-> base]
    <2>1. 1..0 = {}
      OBVIOUS
    <2>2. g \in [SUBSET (1..0) -> S] /\ FoldRec(g, base, table, 0)
      BY <2>1 DEF FoldRec
    <2> QED BY <2>2
  <1>2. ASSUME NEW k \in 1..n, k - 1 \in I PROVE k \in I
    <2>1. PICK h \in [SUBSET (1..(k - 1)) -> S] : FoldRec(h, base, table, k - 1)
      BY <1>2
    <2> DEFINE g == [s \in SUBSET (1..k) |->
                       IF k \in s THEN table[k][h[s \ {k}]] ELSE h[s]]
    <2>2. ASSUME NEW s \in SUBSET (1..k)
          PROVE  /\ k \in s => s \ {k} \in SUBSET (1..(k - 1))
                 /\ k \notin s => s \in SUBSET (1..(k - 1))
      OBVIOUS
    <2>3. g \in [SUBSET (1..k) -> S]
      <3>1. ASSUME NEW s \in SUBSET (1..k)
            PROVE  (IF k \in s THEN table[k][h[s \ {k}]] ELSE h[s]) \in S
        <4>1. CASE k \in s
          <5>1. h[s \ {k}] \in S
            BY <2>2, <4>1
          <5>2. k \in 1..n
            OBVIOUS
          <5> QED BY <4>1, <5>1, <5>2
        <4>2. CASE k \notin s
          BY <2>2, <4>2
        <4> QED BY <4>1, <4>2
      <3> QED BY <3>1
    <2>4. ASSUME NEW s \in SUBSET (1..k)
          PROVE  g[s] = IF s = {} THEN base ELSE table[Max(s)][g[s \ {Max(s)}]]
      <3>1. CASE k \in s
        <4>0. k \in Nat
          OBVIOUS
        <4>1. Max(s) = k
          <5>1. Max(s) \in s /\ \A i \in s : i <= Max(s)
            BY <3>1, <4>0, MaxOfIndices
          <5>2. Max(s) \in 1..k
            BY <5>1
          <5> QED BY <3>1, <5>1, <5>2
        <4>2. g[s \ {k}] = h[s \ {k}]
          OBVIOUS
        <4> QED BY <3>1, <4>1, <4>2
      <3>2. CASE k \notin s
        <4>1. s \in SUBSET (1..(k - 1)) /\ k - 1 \in Nat
          BY <2>2, <3>2
        <4>2. g[s] = h[s]
          BY <3>2
        <4>3. CASE s = {}
          BY <2>1, <4>1, <4>2, <4>3 DEF FoldRec
        <4>4. CASE s # {}
          <5> DEFINE r == s \ {Max(s)}
          <5>1. r \in SUBSET (1..(k - 1)) /\ k \notin r
            BY <4>1, <3>2
          <5>2. g[r] = h[r]
            BY <5>1
          <5>3. h[s] = table[Max(s)][h[r]]
            BY <2>1, <4>1, <4>4 DEF FoldRec
          <5> HIDE DEF g
          <5> QED BY <4>2, <4>4, <5>2, <5>3
        <4> QED BY <4>3, <4>4
      <3> QED BY <3>1, <3>2
    <2>5. FoldRec(g, base, table, k)
      <3>1. g = [s \in SUBSET (1..k) |->
                   IF s = {} THEN base ELSE table[Max(s)][g[s \ {Max(s)}]]]
        BY <2>4
      <3> HIDE DEF g
      <3> QED BY <3>1 DEF FoldRec
    <2>6. k \in 0..n
      OBVIOUS
    <2> HIDE DEF g
    <2> QED BY <2>3, <2>5, <2>6
  <1>3. n \in I
    <2>1. n \in 0..n
      OBVIOUS
    <2> HIDE DEF I
    <2> QED BY <1>1, <1>2, <2>1, BoundedInduction
  <1> QED BY <1>3

\* The sets of the first indices.
LEMMA FirstIndices ==
    ASSUME NEW n \in Nat, NEW k \in 1..n
    PROVE  /\ 1..k \in SUBSET (1..n) /\ 1..k # {}
           /\ Max(1..k) = k
           /\ (1..k) \ {k} = 1..(k - 1)
  <1>1. 1..k \in SUBSET (1..n) /\ 1..k # {} /\ k \in 1..k
    OBVIOUS
  <1>2. Max(1..k) \in 1..k /\ \A i \in 1..k : i <= Max(1..k)
    BY <1>1, MaxOfIndices
  <1>3. (1..k) \ {k} = 1..(k - 1)
    OBVIOUS
  <1> QED BY <1>1, <1>2, <1>3

-----------------------------------------------------------------------------
(* Totals.                                                                 *)

\* The sum of a field of the periods.
TotalRec(g, p, f) ==
    g = [s \in SUBSET DOMAIN p |-> IF s = {} THEN 0 ELSE g[s \ {Max(s)}] + p[Max(s)][f]]

Total(p, f) == (CHOOSE g : TotalRec(g, p, f))[DOMAIN p]

\* TotalLength and TotalAmount are such sums.
LEMMA TotalsOfFields ==
    ASSUME NEW p
    PROVE  TotalLength(p) = Total(p, "length") /\ TotalAmount(p) = Total(p, "amount")
  BY DEF TotalLength, TotalAmount, FoldLeft, MapThenFoldSet, Total, TotalRec

Fields == {"length", "amount"}

\* A sum is made in as many steps as there are periods.
LEMMA TotalUnfolded ==
    ASSUME NEW p \in Seq(Period), NEW f \in Fields
    PROVE  \E v : /\ v[0] = 0
                  /\ \A k \in 1..Len(p) : v[k] = v[k - 1] + p[k][f]
                  /\ v[Len(p)] = Total(p, f)
  <1> DEFINE n == Len(p)
             table == [k \in 1..n |-> [x \in Nat |-> x + p[k][f]]]
  <1>1. n \in Nat /\ DOMAIN p = 1..n
    BY LenProperties
  <1>2. ASSUME NEW k \in 1..n PROVE p[k][f] \in Nat
    <2>1. p[k] \in Period
      BY ElementOfSeq
    <2> QED BY <2>1 DEF Fields, Period
  <1>3. table \in [1..n -> [Nat -> Nat]]
    BY <1>2
  <1> HIDE DEF n
  <1>4. \E g : TotalRec(g, p, f)
    <2> HIDE DEF table
    <2>1. PICK g \in [SUBSET (1..n) -> Nat] : FoldRec(g, 0, table, n)
      BY <1>1, <1>3, FoldRecExists
    <2>2. ASSUME NEW s \in SUBSET (1..n), s # {}
          PROVE  table[Max(s)][g[s \ {Max(s)}]] = g[s \ {Max(s)}] + p[Max(s)][f]
      <3>1. Max(s) \in 1..n
        BY <1>1, <2>2, MaxOfIndices
      <3>2. g[s \ {Max(s)}] \in Nat
        BY <2>1
      <3> QED BY <3>1, <3>2 DEF table
    <2>3. TotalRec(g, p, f)
      BY <1>1, <2>1, <2>2 DEF TotalRec, FoldRec
    <2> QED BY <2>3
  <1> DEFINE c == CHOOSE g : TotalRec(g, p, f)
             v == [k \in 0..n |-> c[1..k]]
  <1>5. c = [s \in SUBSET (1..n) |-> IF s = {} THEN 0 ELSE c[s \ {Max(s)}] + p[Max(s)][f]]
    <2>1. TotalRec(c, p, f)
      BY <1>4
    <2> QED BY <1>1, <2>1 DEF TotalRec
  <1>6. Total(p, f) = c[1..n]
    BY <1>1 DEF Total
  <1> HIDE DEF c
  <1>7. c[1..0] = 0
    <2>1. 1..0 = {}
      OBVIOUS
    <2> QED BY <1>5, <2>1
  <1>8. ASSUME NEW k \in 1..n PROVE c[1..k] = c[1..(k - 1)] + p[k][f]
    <2> DEFINE s == 1..k
    <2>1. s \in SUBSET (1..n) /\ s # {} /\ Max(s) = k /\ s \ {k} = 1..(k - 1)
      BY <1>1, FirstIndices
    <2> HIDE DEF s
    <2>2. c[s] = c[s \ {Max(s)}] + p[Max(s)][f]
      BY <1>5, <2>1
    <2> QED BY <2>1, <2>2 DEF s
  <1>9. /\ v[0] = 0
        /\ \A k \in 1..n : v[k] = v[k - 1] + p[k][f]
        /\ v[n] = Total(p, f)
    <2>1. 0 \in 0..n /\ n \in 0..n
      BY <1>1
    <2>2. \A k \in 1..n : k \in 0..n /\ k - 1 \in 0..n
      BY <1>1
    <2> QED BY <1>6, <1>7, <1>8, <2>1, <2>2
  <1> QED BY <1>9 DEF n

\* A sum of nothing is 0, and one more period adds its share.
LEMMA TotalAppended ==
    ASSUME NEW q \in Seq(Period), NEW e \in Period, NEW f \in Fields
    PROVE  /\ Total(<<>>, f) = 0
           /\ Total(Append(q, e), f) = Total(q, f) + e[f]
  <1>1. Total(<<>>, f) = 0
    <2>1. <<>> \in Seq(Period) /\ Len(<<>>) = 0
      BY EmptySeq
    <2> QED BY <2>1, TotalUnfolded
  <1> DEFINE p == Append(q, e)
             n == Len(q)
  <1>2. /\ p \in Seq(Period) /\ Len(p) = n + 1 /\ n \in Nat
        /\ p[n + 1] = e /\ \A i \in 1..n : p[i] = q[i]
    BY AppendProperties, LenProperties
  <1> HIDE DEF p
  <1>3. PICK v : /\ v[0] = 0
                 /\ \A k \in 1..n : v[k] = v[k - 1] + q[k][f]
                 /\ v[n] = Total(q, f)
    BY TotalUnfolded
  <1>4. PICK w : /\ w[0] = 0
                 /\ \A k \in 1..(n + 1) : w[k] = w[k - 1] + p[k][f]
                 /\ w[n + 1] = Total(p, f)
    BY <1>2, TotalUnfolded
  <1> HIDE DEF n
  <1>5. \A k \in 0..n : v[k] = w[k]
    <2> DEFINE I == {k \in 0..n : v[k] = w[k]}
    <2>1. 0 \in I
      BY <1>2, <1>3, <1>4
    <2>2. \A k \in 1..n : k - 1 \in I => k \in I
      BY <1>2, <1>3, <1>4
    <2> HIDE DEF I
    <2>3. \A k \in 0..n : k \in I
      BY <1>2, <2>1, <2>2, BoundedInduction
    <2> QED BY <2>3 DEF I
  <1>6. w[n + 1] = w[n] + p[n + 1][f]
    <2>1. n + 1 \in 1..(n + 1) /\ (n + 1) - 1 = n
      BY <1>2
    <2> QED BY <1>4, <2>1
  <1>7. w[n] = v[n]
    BY <1>2, <1>5
  <1> QED BY <1>1, <1>2, <1>3, <1>4, <1>6, <1>7 DEF p

\* A sum of natural numbers is one.
LEMMA TotalType ==
    ASSUME NEW p \in Seq(Period), NEW f \in Fields
    PROVE  Total(p, f) \in Nat
  <1> DEFINE n == Len(p)
  <1>1. PICK v : /\ v[0] = 0
                 /\ \A k \in 1..n : v[k] = v[k - 1] + p[k][f]
                 /\ v[n] = Total(p, f)
    BY TotalUnfolded
  <1>2. n \in Nat
    BY LenProperties
  <1>3. ASSUME NEW k \in 1..n PROVE p[k][f] \in Nat
    <2>1. p[k] \in Period
      BY ElementOfSeq
    <2> QED BY <2>1 DEF Fields, Period
  <1> HIDE DEF n
  <1> DEFINE I == {k \in 0..n : v[k] \in Nat}
  <1>4. 0 \in I
    BY <1>1, <1>2
  <1>5. ASSUME NEW k \in 1..n, k - 1 \in I PROVE k \in I
    <2>1. v[k - 1] \in Nat /\ v[k] = v[k - 1] + p[k][f] /\ k \in 0..n
      BY <1>1, <1>2, <1>5
    <2>2. v[k] \in Nat
      BY <2>1, <1>3
    <2> QED BY <2>1, <2>2
  <1> HIDE DEF I
  <1>6. n \in I
    <2>1. n \in 0..n
      BY <1>2
    <2> QED BY <1>2, <1>4, <1>5, <2>1, BoundedInduction
  <1> QED BY <1>1, <1>6 DEF I

\* The first k periods: the first k - 1 and the k-th.
LEMMA Upto ==
    ASSUME NEW S, NEW p \in Seq(S)
    PROVE  /\ Len(p) \in Nat
           /\ SubSeq(p, 1, 0) = <<>>
           /\ SubSeq(p, 1, Len(p)) = p
           /\ \A k \in 0..Len(p) : SubSeq(p, 1, k) \in Seq(S) /\ Len(SubSeq(p, 1, k)) = k
           /\ \A k \in 1..Len(p) : p[k] \in S /\ SubSeq(p, 1, k) = Append(SubSeq(p, 1, k - 1), p[k])
  <1>1. Len(p) \in Nat
    BY LenProperties
  <1>2. SubSeq(p, 1, 0) = <<>> /\ SubSeq(p, 1, Len(p)) = p
    BY <1>1, SubSeqEmpty, SubSeqFull
  <1>3. ASSUME NEW k \in 0..Len(p)
        PROVE  /\ SubSeq(p, 1, k) \in Seq(S) /\ Len(SubSeq(p, 1, k)) = k
               /\ \A i \in 1..k : SubSeq(p, 1, k)[i] = p[i]
    <2>1. 1 \in 1..(Len(p) + 1) /\ k \in (1 - 1)..Len(p)
      BY <1>1
    <2>2. /\ SubSeq(p, 1, k) \in Seq(S)
          /\ Len(SubSeq(p, 1, k)) = IF 1 <= k THEN k - 1 + 1 ELSE 0
          /\ \A i \in 1..(k - 1 + 1) : SubSeq(p, 1, k)[i] = p[1 + i - 1]
      BY <2>1, SubSeqProperties
    <2>3. k \in Nat
      BY <1>1
    <2> QED BY <2>2, <2>3
  <1>4. ASSUME NEW k \in 1..Len(p)
        PROVE  p[k] \in S /\ SubSeq(p, 1, k) = Append(SubSeq(p, 1, k - 1), p[k])
    <2> DEFINE s == SubSeq(p, 1, k)
               r == SubSeq(p, 1, k - 1)
               t == Append(r, p[k])
    <2>1. p[k] \in S
      BY ElementOfSeq
    <2>2. k \in 0..Len(p) /\ k - 1 \in 0..Len(p) /\ k \in Nat
      BY <1>1
    <2>3. /\ s \in Seq(S) /\ Len(s) = k /\ \A i \in 1..k : s[i] = p[i]
          /\ r \in Seq(S) /\ Len(r) = k - 1 /\ \A i \in 1..(k - 1) : r[i] = p[i]
      BY <1>3, <2>2
    <2> HIDE DEF s, r
    <2>4. /\ t \in Seq(S) /\ Len(t) = k
          /\ \A i \in 1..(k - 1) : t[i] = p[i]
          /\ t[k] = p[k]
      <3>1. /\ t \in Seq(S) /\ Len(t) = Len(r) + 1
            /\ \A i \in 1..Len(r) : t[i] = r[i]
            /\ t[Len(r) + 1] = p[k]
        BY <2>1, <2>3, AppendProperties
      <3> HIDE DEF t
      <3> QED BY <2>2, <2>3, <3>1
    <2> HIDE DEF t
    <2>5. \A i \in 1..Len(s) : s[i] = t[i]
      BY <2>2, <2>3, <2>4
    <2>6. s = t
      BY <2>3, <2>4, <2>5, SeqEqual
    <2> QED BY <2>1, <2>6 DEF s, t, r
  <1> QED BY <1>1, <1>2, <1>3, <1>4

\* The sums of the first periods.
LEMMA TotalUpto ==
    ASSUME NEW p \in Seq(Period), NEW f \in Fields
    PROVE  /\ Total(SubSeq(p, 1, 0), f) = 0
           /\ Total(SubSeq(p, 1, Len(p)), f) = Total(p, f)
           /\ \A k \in 0..Len(p) : Total(SubSeq(p, 1, k), f) \in Nat
           /\ \A k \in 1..Len(p) :
                 /\ p[k][f] \in Nat
                 /\ Total(SubSeq(p, 1, k), f) = Total(SubSeq(p, 1, k - 1), f) + p[k][f]
  <1>1. \A k \in 0..Len(p) : Total(SubSeq(p, 1, k), f) \in Nat
    BY Upto, TotalType
  <1>2. ASSUME NEW k \in 1..Len(p)
        PROVE  /\ p[k][f] \in Nat
               /\ Total(SubSeq(p, 1, k), f) = Total(SubSeq(p, 1, k - 1), f) + p[k][f]
    <2>1. /\ p[k] \in Period /\ Len(p) \in Nat
          /\ SubSeq(p, 1, k) = Append(SubSeq(p, 1, k - 1), p[k])
      BY Upto
    <2>2. k - 1 \in 0..Len(p)
      BY <2>1
    <2>3. SubSeq(p, 1, k - 1) \in Seq(Period)
      BY <2>2, Upto
    <2>4. p[k][f] \in Nat
      BY <2>1 DEF Fields, Period
    <2> QED BY <2>1, <2>3, <2>4, TotalAppended
  <1>3. Total(SubSeq(p, 1, 0), f) = 0
    <2>1. Total(<<>>, f) = 0
      <3>1. [length |-> 0, amount |-> 0] \in Period
        BY DEF Period
      <3> QED BY <3>1, TotalAppended
    <2> QED BY <2>1, Upto
  <1>4. Total(SubSeq(p, 1, Len(p)), f) = Total(p, f)
    BY Upto
  <1> QED BY <1>1, <1>2, <1>3, <1>4

-----------------------------------------------------------------------------
(* What a schedule has released.                                           *)

\* The periods of a schedule, counted if they end by t.
Counted(start, p, t) ==
    [i \in DOMAIN p |->
       [length |-> 0,
        amount |-> IF EventTime(start, p, i) <= t THEN p[i].amount ELSE 0]]

\* They are periods.
LEMMA CountedType ==
    ASSUME NEW start, NEW p \in Seq(Period), NEW t
    PROVE  /\ Counted(start, p, t) \in Seq(Period)
           /\ Len(Counted(start, p, t)) = Len(p)
           /\ \A i \in 1..Len(p) :
                 Counted(start, p, t)[i]
                   = [length |-> 0,
                      amount |-> IF EventTime(start, p, i) <= t THEN p[i].amount ELSE 0]
  <1> DEFINE n == Len(p)
             new(i) == [length |-> 0,
                        amount |-> IF EventTime(start, p, i) <= t THEN p[i].amount ELSE 0]
  <1>1. n \in Nat /\ DOMAIN p = 1..n
    BY LenProperties
  <1>2. ASSUME NEW i \in 1..n PROVE new(i) \in Period
    <2>1. p[i] \in Period
      BY ElementOfSeq
    <2> QED BY <2>1 DEF Period
  <1>3. Counted(start, p, t) = [i \in 1..n |-> new(i)]
    BY <1>1 DEF Counted
  <1> HIDE DEF new, n
  <1>4. Counted(start, p, t) \in [1..n -> Period]
    BY <1>2, <1>3
  <1>5. Counted(start, p, t) \in Seq(Period)
    BY <1>1, <1>4, SeqDef
  <1>6. Len(Counted(start, p, t)) = n
    <2>1. DOMAIN Counted(start, p, t) = 1..n
      BY <1>3
    <2>2. Len(Counted(start, p, t)) \in Nat /\ DOMAIN Counted(start, p, t) = 1..Len(Counted(start, p, t))
      BY <1>5, LenProperties
    <2> QED BY <1>1, <2>1, <2>2
  <1> QED BY <1>3, <1>5, <1>6 DEF n, new

\* The times of the first events do not depend on the later ones.
LEMMA EventTimes ==
    ASSUME NEW q \in Seq(Period), NEW e \in Period, NEW start
    PROVE  /\ \A i \in 1..Len(q) : EventTime(start, Append(q, e), i) = EventTime(start, q, i)
           /\ EventTime(start, Append(q, e), Len(q) + 1)
                = start + (TotalLength(q) + e.length)
  <1> DEFINE p == Append(q, e)
             n == Len(q)
  <1>1. /\ p \in Seq(Period) /\ Len(p) = n + 1 /\ n \in Nat
        /\ \A i \in 1..n : p[i] = q[i]
    BY AppendProperties, LenProperties
  <1>2. Total(p, "length") = Total(q, "length") + e.length
    BY TotalAppended DEF Fields
  <1> HIDE DEF p, n
  <1>3. ASSUME NEW i \in 1..n PROVE SubSeq(p, 1, i) = SubSeq(q, 1, i)
    <2> DEFINE r == SubSeq(p, 1, i)
               s == SubSeq(q, 1, i)
    <2>1. i \in 0..n /\ i \in 0..(n + 1) /\ i \in Nat
      BY <1>1
    <2>2. r \in Seq(Period) /\ Len(r) = i /\ s \in Seq(Period) /\ Len(s) = i
      BY <1>1, <2>1, Upto DEF n
    <2>3. 1 \in 1..(n + 1) /\ 1 \in 1..(n + 2) /\ i \in (1 - 1)..n /\ i \in (1 - 1)..(n + 1)
      BY <1>1, <2>1
    <2>4. (\A j \in 1..(i - 1 + 1) : r[j] = p[1 + j - 1]) /\ \A j \in 1..(i - 1 + 1) : s[j] = q[1 + j - 1]
      BY <1>1, <2>3, SubSeqProperties DEF n
    <2>5. ASSUME NEW j \in 1..i PROVE r[j] = s[j]
      <3>1. i \in Nat /\ j \in 1..i
        BY <2>1
      <3>2. j \in 1..(i - 1 + 1) /\ 1 + j - 1 = j
        BY <3>1
      <3>3. j \in 1..n
        BY <1>1, <3>1
      <3>4. r[j] = p[j] /\ s[j] = q[j]
        BY <2>4, <3>2
      <3> QED BY <1>1, <3>3, <3>4
    <2> HIDE DEF r, s
    <2>6. r = s
      BY <2>2, <2>5, SeqEqual
    <2> QED BY <2>6 DEF r, s
  <1>4. SubSeq(p, 1, n + 1) = p
    BY <1>1, Upto
  <1>5. \A i \in 1..n : EventTime(start, p, i) = EventTime(start, q, i)
    BY <1>3 DEF EventTime
  <1>6. EventTime(start, p, n + 1) = start + (TotalLength(q) + e.length)
    BY <1>2, <1>4, TotalsOfFields DEF EventTime
  <1> QED BY <1>5, <1>6 DEF p, n

\* What one more period releases.
Share(end, amount, t) == IF end <= t THEN amount ELSE 0

\* One more period releases its amount when it ends.
LEMMA DueAppended ==
    ASSUME NEW q \in Seq(Period), NEW e \in Period, NEW start, NEW t
    PROVE  /\ Due(start, <<>>, t) = 0
           /\ Due(start, Append(q, e), t)
                = Due(start, q, t) + Share(start + (TotalLength(q) + e.length), e.amount, t)
  <1> DEFINE p == Append(q, e)
             n == Len(q)
             last == Share(start + (TotalLength(q) + e.length), e.amount, t)
             x == [length |-> 0, amount |-> last]
             C == Counted(start, q, t)
             D == Counted(start, p, t)
  <1>1. /\ p \in Seq(Period) /\ Len(p) = n + 1 /\ n \in Nat
        /\ p[n + 1] = e /\ \A i \in 1..n : p[i] = q[i]
    BY AppendProperties, LenProperties
  <1>11. /\ \A i \in 1..n : EventTime(start, p, i) = EventTime(start, q, i)
         /\ EventTime(start, p, n + 1) = start + (TotalLength(q) + e.length)
    BY EventTimes
  <1> HIDE DEF p, n
  <1>2. \A s : \A r : Due(s, r, t) = Total(Counted(s, r, t), "amount")
    BY TotalsOfFields DEF Due, Counted
  <1>3. Due(start, <<>>, t) = 0
    <2>1. <<>> \in Seq(Period) /\ Len(<<>>) = 0
      BY EmptySeq
    <2>2. Counted(start, <<>>, t) \in Seq(Period) /\ Len(Counted(start, <<>>, t)) = 0
      BY <2>1, CountedType
    <2>3. Counted(start, <<>>, t) = <<>>
      BY <2>2, EmptySeq
    <2>4. Total(<<>>, "amount") = 0
      BY TotalAppended DEF Fields
    <2> QED BY <1>2, <2>3, <2>4
  <1>4. x \in Period
    BY DEF Period, Share
  <1>5. /\ C \in Seq(Period) /\ Len(C) = n
        /\ \A i \in 1..n : C[i] = [length |-> 0, amount |-> Share(EventTime(start, q, i), q[i].amount, t)]
    BY CountedType DEF n, Share
  <1>6. /\ D \in Seq(Period) /\ Len(D) = n + 1
        /\ \A i \in 1..(n + 1) :
              D[i] = [length |-> 0, amount |-> Share(EventTime(start, p, i), p[i].amount, t)]
    <2>1. /\ D \in Seq(Period) /\ Len(D) = Len(p)
          /\ \A i \in 1..Len(p) :
                D[i] = [length |-> 0,
                        amount |-> IF EventTime(start, p, i) <= t THEN p[i].amount ELSE 0]
      BY <1>1, CountedType
    <2> HIDE DEF D
    <2>2. \A i \in 1..(n + 1) :
              D[i] = [length |-> 0,
                      amount |-> IF EventTime(start, p, i) <= t THEN p[i].amount ELSE 0]
      BY <1>1, <2>1
    <2> QED BY <1>1, <2>1, <2>2 DEF Share
  <1> HIDE DEF C, D, x
  <1>7. D[n + 1] = x /\ \A i \in 1..n : D[i] = C[i]
    <2>1. n + 1 \in 1..(n + 1) /\ \A i \in 1..n : i \in 1..(n + 1)
      BY <1>1
    <2>2. D[n + 1] = x
      BY <1>1, <1>6, <1>11, <2>1 DEF x
    <2>3. ASSUME NEW i \in 1..n PROVE D[i] = C[i]
      <3>1. p[i] = q[i] /\ EventTime(start, p, i) = EventTime(start, q, i)
        BY <1>1, <1>11
      <3> QED BY <1>5, <1>6, <2>1, <3>1
    <2> QED BY <2>2, <2>3
  <1>8. D = Append(C, x)
    <2>1. /\ Append(C, x) \in Seq(Period) /\ Len(Append(C, x)) = n + 1
          /\ Append(C, x)[n + 1] = x /\ \A i \in 1..n : Append(C, x)[i] = C[i]
      BY <1>4, <1>5, AppendProperties
    <2>2. \A i \in 1..(n + 1) : D[i] = Append(C, x)[i]
      <3> TAKE i \in 1..(n + 1)
      <3>1. i \in 1..n \/ i = n + 1
        BY <1>1
      <3> QED BY <1>7, <2>1, <3>1
    <2> QED BY <1>6, <2>1, <2>2, SeqEqual
  <1>9. Total(D, "amount") = Total(C, "amount") + x.amount
    BY <1>4, <1>5, <1>8, TotalAppended DEF Fields
  <1>10. x.amount = last
    BY DEF x
  <1> QED BY <1>2, <1>3, <1>9, <1>10 DEF C, D, p

\* What the first periods release.
LEMMA DueUpto ==
    ASSUME NEW p \in Seq(Period), NEW start \in Int, NEW t \in Int
    PROVE  /\ Due(start, SubSeq(p, 1, 0), t) = 0
           /\ Due(start, SubSeq(p, 1, Len(p)), t) = Due(start, p, t)
           /\ \A k \in 0..Len(p) : Due(start, SubSeq(p, 1, k), t) \in Nat
           /\ \A k \in 1..Len(p) :
                 /\ EventTime(start, p, k) \in Int /\ p[k].amount \in Nat
                 /\ Due(start, SubSeq(p, 1, k), t)
                      = Due(start, SubSeq(p, 1, k - 1), t)
                          + Share(EventTime(start, p, k), p[k].amount, t)
  <1> DEFINE n == Len(p)
             D(k) == Due(start, SubSeq(p, 1, k), t)
  <1>1. /\ n \in Nat /\ SubSeq(p, 1, 0) = <<>> /\ SubSeq(p, 1, n) = p
        /\ \A k \in 0..n : SubSeq(p, 1, k) \in Seq(Period)
        /\ \A k \in 1..n : p[k] \in Period /\ SubSeq(p, 1, k) = Append(SubSeq(p, 1, k - 1), p[k])
    BY Upto
  <1>2. ASSUME NEW k \in 1..n
        PROVE  /\ EventTime(start, p, k) \in Int /\ p[k].amount \in Nat
               /\ D(k) = D(k - 1) + Share(EventTime(start, p, k), p[k].amount, t)
    <2> DEFINE q == SubSeq(p, 1, k - 1)
    <2>1. k - 1 \in 0..n /\ k \in 0..n
      BY <1>1
    <2>2. q \in Seq(Period) /\ p[k] \in Period /\ SubSeq(p, 1, k) = Append(q, p[k])
      BY <1>1, <2>1
    <2>3. p[k].amount \in Nat /\ p[k].length \in Nat
      BY <2>2 DEF Period
    <2> HIDE DEF q
    <2>4. TotalLength(SubSeq(p, 1, k)) = TotalLength(q) + p[k].length /\ TotalLength(q) \in Nat
      BY <2>2, TotalAppended, TotalType, TotalsOfFields DEF Fields
    <2>5. EventTime(start, p, k) = start + (TotalLength(q) + p[k].length)
      BY <2>4 DEF EventTime
    <2>6. EventTime(start, p, k) \in Int
      BY <2>3, <2>4, <2>5
    <2>7. Due(start, Append(q, p[k]), t)
            = Due(start, q, t) + Share(start + (TotalLength(q) + p[k].length), p[k].amount, t)
      BY <2>2, DueAppended
    <2> QED BY <2>2, <2>3, <2>5, <2>6, <2>7 DEF q
  <1>3. D(0) = 0
    <2>1. [length |-> 0, amount |-> 0] \in Period /\ <<>> \in Seq(Period)
      BY EmptySeq DEF Period
    <2> QED BY <1>1, <2>1, DueAppended, ZenonT(60)
  <1>4. \A k \in 0..n : D(k) \in Nat
    <2> DEFINE I == {k \in 0..n : D(k) \in Nat}
    <2> HIDE DEF D
    <2>1. 0 \in I
      BY <1>1, <1>3
    <2>2. ASSUME NEW k \in 1..n, k - 1 \in I PROVE k \in I
      <3>1. D(k - 1) \in Nat /\ p[k].amount \in Nat
            /\ D(k) = D(k - 1) + Share(EventTime(start, p, k), p[k].amount, t)
        BY <1>2, <2>2
      <3>2. Share(EventTime(start, p, k), p[k].amount, t) \in Nat
        BY <3>1 DEF Share
      <3>3. D(k) \in Nat /\ k \in 0..n
        BY <1>1, <3>1, <3>2
      <3> QED BY <3>3
    <2> HIDE DEF I, n
    <2>3. \A k \in 0..n : k \in I
      BY <1>1, <2>1, <2>2, BoundedInduction
    <2> QED BY <2>3 DEF I
  <1> QED BY <1>1, <1>2, <1>3, <1>4

\* By any time the first periods have ended, and the schedule has released
\* their amounts.
LEMMA Passed ==
    ASSUME NEW p \in Seq(Period), NEW start \in Int, NEW t \in Int
    PROVE  \E c \in 0..Len(p) :
              /\ \A i \in 1..Len(p) : EventTime(start, p, i) <= t <=> i <= c
              /\ Due(start, p, t) = TotalAmount(SubSeq(p, 1, c))
  <1> DEFINE n == Len(p)
             D(k) == Due(start, SubSeq(p, 1, k), t)
             A(k) == Total(SubSeq(p, 1, k), "amount")
             L(k) == Total(SubSeq(p, 1, k), "length")
             T(k) == EventTime(start, p, k)
             Ok(k, c) == (\A i \in 1..k : T(i) <= t <=> i <= c) /\ D(k) = A(c)
             I == {k \in 0..n : \E c \in 0..k : Ok(k, c)}
  <1>1. n \in Nat
    BY LenProperties
  <1>2. /\ D(0) = 0 /\ D(n) = Due(start, p, t)
        /\ \A k \in 1..n : /\ T(k) \in Int /\ p[k].amount \in Nat
                           /\ D(k) = D(k - 1) + Share(T(k), p[k].amount, t)
    BY DueUpto
  <1>3. /\ A(0) = 0 /\ \A k \in 0..n : A(k) \in Nat
        /\ \A k \in 1..n : A(k) = A(k - 1) + p[k].amount
    BY TotalUpto DEF Fields
  <1>4. \A k \in 1..n : k - 1 \in 1..n => T(k - 1) <= T(k)
    <2> TAKE k \in 1..n
    <2> HAVE k - 1 \in 1..n
    <2>1. L(k) = L(k - 1) + p[k].length /\ p[k].length \in Nat
      BY TotalUpto DEF Fields
    <2>2. T(k) = start + L(k) /\ T(k - 1) = start + L(k - 1)
      BY TotalsOfFields DEF EventTime
    <2>3. L(k - 1) \in Nat
      <3>1. k - 1 \in 0..n
        BY <1>1
      <3> QED BY <3>1, TotalUpto DEF Fields
    <2> HIDE DEF L, T
    <2> QED BY <2>1, <2>2, <2>3
  <1>5. A(n) = Total(p, "amount")
    BY TotalUpto DEF Fields
  <1> HIDE DEF D, A, T, n
  <1>6. 0 \in I
    <2>1. Ok(0, 0)
      BY <1>2, <1>3
    <2>2. 0 \in 0..n /\ 0 \in 0..0
      BY <1>1
    <2> HIDE DEF Ok
    <2> QED BY <2>1, <2>2
  <1>7. ASSUME NEW k \in 1..n, k - 1 \in I PROVE k \in I
    <2>1. PICK c \in 0..(k - 1) : Ok(k - 1, c)
      BY <1>7
    <2>2. k \in Nat /\ k >= 1 /\ k <= n /\ c \in Nat /\ c <= k - 1 /\ c \in 0..n /\ k \in 0..n
      BY <1>1
    <2>3. D(k) = A(c) + Share(T(k), p[k].amount, t) /\ A(c) \in Nat
          /\ T(k) \in Int /\ p[k].amount \in Nat
      BY <1>2, <1>3, <2>1, <2>2
    <2>4. CASE T(k) <= t
      <3>1. k - 1 = c
        <4>1. CASE k = 1
          BY <2>2, <4>1
        <4>2. CASE k # 1
          <5>1. k - 1 \in 1..n /\ k - 1 \in 1..(k - 1)
            BY <1>1, <2>2, <4>2
          <5>2. T(k - 1) <= T(k) /\ T(k - 1) \in Int
            BY <1>2, <1>4, <5>1
          <5>3. T(k - 1) <= t
            BY <2>3, <2>4, <5>2
          <5>4. k - 1 <= c
            BY <2>1, <5>1, <5>3
          <5> QED BY <2>2, <5>4
        <4> QED BY <4>1, <4>2
      <3>2. D(k) = A(k)
        BY <1>3, <2>3, <2>4, <3>1 DEF Share
      <3>3. ASSUME NEW i \in 1..k PROVE T(i) <= t <=> i <= k
        <4>1. i \in 1..(k - 1) \/ i = k
          BY <2>2
        <4> QED BY <2>1, <2>2, <2>4, <3>1, <4>1
      <3>4. Ok(k, k) /\ k \in 0..k
        BY <2>2, <3>2, <3>3
      <3> HIDE DEF Ok
      <3> QED BY <2>2, <3>4
    <2>5. CASE ~(T(k) <= t)
      <3>1. D(k) = A(c)
        BY <2>3, <2>5 DEF Share
      <3>2. ASSUME NEW i \in 1..k PROVE T(i) <= t <=> i <= c
        <4>1. i \in 1..(k - 1) \/ i = k
          BY <2>2
        <4> QED BY <2>1, <2>2, <2>5, <4>1
      <3>3. Ok(k, c) /\ c \in 0..k
        BY <2>2, <3>1, <3>2
      <3> HIDE DEF Ok
      <3> QED BY <2>2, <3>3
    <2> QED BY <2>4, <2>5
  <1> HIDE DEF I
  <1>8. n \in I
    <2>1. n \in 0..n
      BY <1>1
    <2> QED BY <1>1, <1>6, <1>7, <2>1, BoundedInduction
  <1>9. PICK c \in 0..n : Ok(n, c)
    BY <1>8 DEF I
  <1>10. \A i \in 1..n : T(i) <= t <=> i <= c
    BY <1>9
  <1>11. Due(start, p, t) = A(c)
    BY <1>2, <1>9
  <1> HIDE DEF Ok
  <1> QED BY <1>10, <1>11, TotalsOfFields DEF n, T, A

\* A schedule never releases more than its total, and all of it by its end.
LEMMA DueBounds ==
    ASSUME NEW p \in Seq(Period), NEW start \in Int, NEW t \in Int
    PROVE  /\ Due(start, p, t) \in Nat /\ TotalAmount(p) \in Nat /\ TotalLength(p) \in Nat
           /\ Due(start, p, t) <= TotalAmount(p)
           /\ start + TotalLength(p) <= t => Due(start, p, t) = TotalAmount(p)
  <1> DEFINE n == Len(p)
             A(k) == Total(SubSeq(p, 1, k), "amount")
  <1>1. n \in Nat
    BY LenProperties
  <1>2. /\ \A k \in 0..n : A(k) \in Nat
        /\ \A k \in 1..n : p[k].amount \in Nat /\ A(k) = A(k - 1) + p[k].amount
        /\ A(n) = TotalAmount(p)
    BY TotalUpto, TotalsOfFields DEF Fields
  <1>3. PICK c \in 0..n : /\ \A i \in 1..n : EventTime(start, p, i) <= t <=> i <= c
                          /\ Due(start, p, t) = A(c)
    BY Passed, TotalsOfFields
  <1>4. TotalLength(p) \in Nat
    BY TotalType, TotalsOfFields DEF Fields
  <1> HIDE DEF A
  <1>5. A(c) <= A(n)
    <2> DEFINE I == {k \in 0..n : c <= k => A(c) <= A(k)}
    <2> HIDE DEF n
    <2>0. c \in Nat /\ c <= n
      BY <1>1
    <2>1. 0 \in I
      BY <1>1, <1>2, <2>0
    <2>2. ASSUME NEW k \in 1..n, k - 1 \in I PROVE k \in I
      <3>1. k \in 0..n /\ k - 1 \in 0..n
        BY <1>1
      <3>2. A(k) = A(k - 1) + p[k].amount /\ p[k].amount \in Nat /\ A(k - 1) \in Nat /\ A(c) \in Nat
        BY <1>2, <3>1
      <3>3. c <= k - 1 \/ c = k \/ ~(c <= k)
        BY <1>1, <2>0
      <3> QED BY <2>2, <3>1, <3>2, <3>3
    <2> HIDE DEF I
    <2>3. n \in I
      <3>1. n \in 0..n
        BY <1>1
      <3> QED BY <1>1, <2>1, <2>2, <3>1, BoundedInduction
    <2> QED BY <2>0, <2>3 DEF I
  <1>6. ASSUME start + TotalLength(p) <= t PROVE c = n
    <2>1. CASE n = 0
      BY <2>1
    <2>2. CASE n # 0
      <3>1. EventTime(start, p, n) = start + TotalLength(p)
        BY Upto DEF EventTime
      <3>2. n \in 1..n
        BY <1>1, <2>2
      <3>3. n <= c
        BY <1>3, <1>6, <3>1, <3>2
      <3> QED BY <1>1, <3>3
    <2> QED BY <2>1, <2>2
  <1> QED BY <1>2, <1>3, <1>4, <1>5, <1>6

\* A schedule releases more and more.
LEMMA DueGrows ==
    ASSUME NEW p \in Seq(Period), NEW start \in Int, NEW t \in Int, NEW u \in Int, t <= u
    PROVE  Due(start, p, t) <= Due(start, p, u)
  <1> DEFINE n == Len(p)
             D(k) == Due(start, SubSeq(p, 1, k), t)
             E(k) == Due(start, SubSeq(p, 1, k), u)
             I == {k \in 0..n : D(k) <= E(k)}
  <1>1. n \in Nat
    BY LenProperties
  <1>2. /\ D(0) = 0 /\ D(n) = Due(start, p, t)
        /\ \A k \in 0..n : D(k) \in Nat
        /\ \A k \in 1..n : /\ EventTime(start, p, k) \in Int /\ p[k].amount \in Nat
                           /\ D(k) = D(k - 1) + Share(EventTime(start, p, k), p[k].amount, t)
    BY DueUpto
  <1>3. /\ E(0) = 0 /\ E(n) = Due(start, p, u)
        /\ \A k \in 0..n : E(k) \in Nat
        /\ \A k \in 1..n : E(k) = E(k - 1) + Share(EventTime(start, p, k), p[k].amount, u)
    BY DueUpto
  <1> HIDE DEF D, E, n
  <1>4. 0 \in I
    BY <1>1, <1>2, <1>3
  <1>5. ASSUME NEW k \in 1..n, k - 1 \in I PROVE k \in I
    <2> DEFINE T == EventTime(start, p, k)
    <2>1. k \in 0..n /\ k - 1 \in 0..n
      BY <1>1
    <2>2. /\ D(k) = D(k - 1) + Share(T, p[k].amount, t) /\ D(k - 1) \in Nat
          /\ E(k) = E(k - 1) + Share(T, p[k].amount, u) /\ E(k - 1) \in Nat
          /\ D(k - 1) <= E(k - 1)
          /\ T \in Int /\ p[k].amount \in Nat
      BY <1>2, <1>3, <1>5, <2>1
    <2> HIDE DEF T
    <2>3. /\ Share(T, p[k].amount, t) \in Nat /\ Share(T, p[k].amount, u) \in Nat
          /\ Share(T, p[k].amount, t) <= Share(T, p[k].amount, u)
      BY <2>2 DEF Share
    <2>4. D(k) <= E(k)
      BY <2>2, <2>3
    <2> QED BY <2>1, <2>4
  <1> HIDE DEF I
  <1>6. n \in I
    <2>1. n \in 0..n
      BY <1>1
    <2> QED BY <1>1, <1>4, <1>5, <2>1, BoundedInduction
  <1> QED BY <1>2, <1>3, <1>6 DEF I

\* What ReadSchedule returns after the start of a schedule, if its end and its
\* total are right.
LEMMA ReadIsDue ==
    ASSUME NEW p \in Seq(Period), NEW start \in Int, NEW end \in Int, NEW t \in Int,
           start + TotalLength(p) <= end
    PROVE  ReadSchedule(start, end, p, TotalAmount(p), t)
             = IF t <= start THEN 0 ELSE Due(start, p, t)
  <1>1. CASE t <= start
    BY <1>1 DEF ReadSchedule
  <1>2. CASE ~(t <= start) /\ t >= end
    <2>1. TotalLength(p) \in Nat
      BY DueBounds
    <2>2. start + TotalLength(p) <= t
      BY <1>2, <2>1
    <2>3. Due(start, p, t) = TotalAmount(p)
      BY <2>2, DueBounds
    <2> QED BY <1>2, <2>3 DEF ReadSchedule
  <1>3. CASE ~(t <= start) /\ ~(t >= end)
    <2> DEFINE S == {i \in DOMAIN p : EventTime(start, p, i) <= t}
    <2>1. Len(p) \in Nat /\ DOMAIN p = 1..Len(p)
      BY LenProperties
    <2>2. PICK c \in 0..Len(p) :
               /\ \A i \in 1..Len(p) : EventTime(start, p, i) <= t <=> i <= c
               /\ Due(start, p, t) = TotalAmount(SubSeq(p, 1, c))
      BY Passed
    <2>3. S = 1..c
      BY <2>1, <2>2
    <2>4. Cardinality(S) = c
      <3>1. c \in Nat /\ c \in Int /\ 1 \in Int
        BY <2>1
      <3>2. Cardinality(1..c) = IF 1 > c THEN 0 ELSE c - 1 + 1
        BY <3>1, FS_Interval
      <3> HIDE DEF S
      <3> QED BY <2>3, <3>1, <3>2
    <2>5. ReadPastPeriodCount(start, end, p, t) = c
      BY <1>3, <2>4 DEF ReadPastPeriodCount
    <2> QED BY <1>3, <2>2, <2>5 DEF ReadSchedule
  <1> QED BY <1>1, <1>2, <1>3

-----------------------------------------------------------------------------
(* The events of two schedules.                                            *)

\* The types of the loops that take the events.
Event == [time : Int, a : Nat, b : Nat]

WalkState(A, B) ==
    [idxA : 0..Len(A), idxB : 0..Len(B), timeA : Int, timeB : Int, events : Seq(Event)]

\* One round of the loops takes one event of either schedule, or both.
Takes(m, A, B, a, b) ==
    /\ a => m.idxA < Len(A)
    /\ b => m.idxB < Len(B)
    /\ a /\ m.idxB < Len(B) =>
         m.timeA + A[m.idxA + 1].length <= m.timeB + B[m.idxB + 1].length
    /\ b /\ m.idxA < Len(A) =>
         m.timeB + B[m.idxB + 1].length <= m.timeA + A[m.idxA + 1].length

\* The state and the event that a round makes.
EventTaken(m, A, B, a, b) ==
    [time |-> IF a THEN m.timeA + A[m.idxA + 1].length ELSE m.timeB + B[m.idxB + 1].length,
     a |-> IF a THEN A[m.idxA + 1].amount ELSE 0,
     b |-> IF b THEN B[m.idxB + 1].amount ELSE 0]

Taken(m, A, B, a, b) ==
    [idxA |-> IF a THEN m.idxA + 1 ELSE m.idxA,
     idxB |-> IF b THEN m.idxB + 1 ELSE m.idxB,
     timeA |-> IF a THEN m.timeA + A[m.idxA + 1].length ELSE m.timeA,
     timeB |-> IF b THEN m.timeB + B[m.idxB + 1].length ELSE m.timeB,
     events |-> Append(m.events, EventTaken(m, A, B, a, b))]

\* A round takes an event unless there is none left.
LEMMA NextEventTakes ==
    ASSUME NEW A \in Seq(Period), NEW B \in Seq(Period), NEW m \in WalkState(A, B)
    PROVE  \/ /\ NextEvent(m, A, B) = m
              /\ m.idxA = Len(A) /\ m.idxB = Len(B)
           \/ \E a, b \in BOOLEAN :
                 /\ a \/ b
                 /\ Takes(m, A, B, a, b)
                 /\ NextEvent(m, A, B) = Taken(m, A, B, a, b)
  <1> DEFINE moreA == m.idxA < Len(A)
             moreB == m.idxB < Len(B)
             nextA == m.timeA + A[m.idxA + 1].length
             nextB == m.timeB + B[m.idxB + 1].length
             a == moreA /\ (moreB => nextA <= nextB)
             b == moreB /\ (moreA => nextB <= nextA)
  <1>1. /\ Len(A) \in Nat /\ Len(B) \in Nat /\ m.idxA \in 0..Len(A) /\ m.idxB \in 0..Len(B)
        /\ m.timeA \in Int /\ m.timeB \in Int
    BY LenProperties DEF WalkState
  <1>2. moreA => A[m.idxA + 1] \in Period /\ nextA \in Int
    <2> HAVE moreA
    <2>1. m.idxA + 1 \in 1..Len(A)
      BY <1>1
    <2>2. A[m.idxA + 1] \in Period
      BY <2>1, ElementOfSeq
    <2> QED BY <1>1, <2>2, SMTT(60) DEF Period
  <1>3. moreB => B[m.idxB + 1] \in Period /\ nextB \in Int
    <2> HAVE moreB
    <2>1. m.idxB + 1 \in 1..Len(B)
      BY <1>1
    <2>2. B[m.idxB + 1] \in Period
      BY <2>1, ElementOfSeq
    <2> QED BY <1>1, <2>2, SMTT(60) DEF Period
  <1>4. m = [idxA |-> m.idxA, idxB |-> m.idxB, timeA |-> m.timeA, timeB |-> m.timeB,
             events |-> m.events]
    BY DEF WalkState
  <1> DEFINE x == IF a THEN A[m.idxA + 1].amount ELSE 0
             y == IF b THEN B[m.idxB + 1].amount ELSE 0
             mA == IF a THEN [m EXCEPT !.idxA = @ + 1, !.timeA = nextA] ELSE m
             mB == IF b THEN [mA EXCEPT !.idxB = @ + 1, !.timeB = nextB] ELSE mA
             e == [time |-> IF a THEN nextA ELSE nextB, a |-> x, b |-> y]
  <1>5. NextEvent(m, A, B)
          = IF a \/ b THEN [mB EXCEPT !.events = Append(@, e)] ELSE m
    BY DEF NextEvent
  <1>6. a \in BOOLEAN /\ b \in BOOLEAN /\ Takes(m, A, B, a, b)
    BY DEF Takes
  <1>7. CASE ~(a \/ b)
    <2>1. ~moreA /\ ~moreB
      <3> HIDE DEF nextA, nextB
      <3> QED BY <1>2, <1>3, <1>7
    <2>2. m.idxA = Len(A) /\ m.idxB = Len(B)
      BY <1>1, <2>1
    <2> QED BY <1>5, <1>7, <2>2
  <1>8. CASE a \/ b
    <2>1. mA = [idxA |-> IF a THEN m.idxA + 1 ELSE m.idxA, idxB |-> m.idxB,
                timeA |-> IF a THEN nextA ELSE m.timeA, timeB |-> m.timeB,
                events |-> m.events]
      <3> HIDE DEF a, nextA
      <3> QED BY <1>4
    <2>2. mB = [idxA |-> IF a THEN m.idxA + 1 ELSE m.idxA,
                idxB |-> IF b THEN m.idxB + 1 ELSE m.idxB,
                timeA |-> IF a THEN nextA ELSE m.timeA,
                timeB |-> IF b THEN nextB ELSE m.timeB,
                events |-> m.events]
      <3> HIDE DEF a, b, nextA, nextB, mA
      <3> QED BY <2>1
    <2>3. e = EventTaken(m, A, B, a, b)
      BY DEF EventTaken
    <2>4. [mB EXCEPT !.events = Append(@, e)]
            = [idxA |-> IF a THEN m.idxA + 1 ELSE m.idxA,
               idxB |-> IF b THEN m.idxB + 1 ELSE m.idxB,
               timeA |-> IF a THEN nextA ELSE m.timeA,
               timeB |-> IF b THEN nextB ELSE m.timeB,
               events |-> Append(m.events, EventTaken(m, A, B, a, b))]
      <3> DEFINE es == Append(mB.events, e)
      <3>1. [mB EXCEPT !.events = Append(@, e)] = [mB EXCEPT !.events = es]
        OBVIOUS
      <3>2. es = Append(m.events, EventTaken(m, A, B, a, b))
        <4> HIDE DEF a, b, nextA, nextB, mB, e
        <4>1. mB.events = m.events
          BY <2>2
        <4> QED BY <2>3, <4>1
      <3> DEFINE i == IF a THEN m.idxA + 1 ELSE m.idxA
                 j == IF b THEN m.idxB + 1 ELSE m.idxB
                 k == IF a THEN nextA ELSE m.timeA
                 l == IF b THEN nextB ELSE m.timeB
      <3>3. mB = [idxA |-> i, idxB |-> j, timeA |-> k, timeB |-> l, events |-> m.events]
        BY <2>2
      <3> HIDE DEF i, j, k, l, mB, es
      <3>4. [mB EXCEPT !.events = es]
              = [idxA |-> i, idxB |-> j, timeA |-> k, timeB |-> l, events |-> es]
        BY <3>3
      <3> HIDE DEF a, b, nextA, nextB, e
      <3> QED BY <3>1, <3>2, <3>4 DEF i, j, k, l
    <2>5. NextEvent(m, A, B) = Taken(m, A, B, a, b)
      <3>1. NextEvent(m, A, B) = [mB EXCEPT !.events = Append(@, e)]
        BY <1>5, <1>8
      <3> HIDE DEF mB, e
      <3> QED BY <2>4, <3>1 DEF Taken
    <2> HIDE DEF a, b
    <2> QED BY <1>6, <1>8, <2>5
  <1> QED BY <1>7, <1>8

\* The state of the loops has its type.
LEMMA TakenType ==
    ASSUME NEW A \in Seq(Period), NEW B \in Seq(Period), NEW m \in WalkState(A, B),
           NEW a \in BOOLEAN, NEW b \in BOOLEAN, a \/ b, Takes(m, A, B, a, b)
    PROVE  Taken(m, A, B, a, b) \in WalkState(A, B) /\ EventTaken(m, A, B, a, b) \in Event
  <1>1. /\ Len(A) \in Nat /\ Len(B) \in Nat /\ m.idxA \in 0..Len(A) /\ m.idxB \in 0..Len(B)
        /\ m.timeA \in Int /\ m.timeB \in Int /\ m.events \in Seq(Event)
    BY LenProperties DEF WalkState
  <1>2. ASSUME a PROVE m.idxA + 1 \in 0..Len(A) /\ A[m.idxA + 1] \in Period
    <2>1. m.idxA + 1 \in 1..Len(A)
      BY <1>1, <1>2 DEF Takes
    <2>2. m.idxA + 1 \in 0..Len(A)
      BY <1>1, <2>1
    <2> QED BY <2>1, <2>2, ElementOfSeq
  <1>3. ASSUME b PROVE m.idxB + 1 \in 0..Len(B) /\ B[m.idxB + 1] \in Period
    <2>1. m.idxB + 1 \in 1..Len(B)
      BY <1>1, <1>3 DEF Takes
    <2>2. m.idxB + 1 \in 0..Len(B)
      BY <1>1, <2>1
    <2> QED BY <2>1, <2>2, ElementOfSeq
  <1>4. /\ a => A[m.idxA + 1].length \in Nat /\ A[m.idxA + 1].amount \in Nat
        /\ b => B[m.idxB + 1].length \in Nat /\ B[m.idxB + 1].amount \in Nat
    BY <1>2, <1>3 DEF Period
  <1> DEFINE e == EventTaken(m, A, B, a, b)
  <1>5. e \in Event
    BY <1>1, <1>4 DEF EventTaken, Event
  <1> HIDE DEF e
  <1>6. Append(m.events, e) \in Seq(Event)
    BY <1>1, <1>5, AppendProperties
  <1>7. /\ (IF a THEN m.idxA + 1 ELSE m.idxA) \in 0..Len(A)
        /\ (IF b THEN m.idxB + 1 ELSE m.idxB) \in 0..Len(B)
        /\ (IF a THEN m.timeA + A[m.idxA + 1].length ELSE m.timeA) \in Int
        /\ (IF b THEN m.timeB + B[m.idxB + 1].length ELSE m.timeB) \in Int
    BY <1>1, <1>2, <1>3, <1>4, SMTT(60)
  <1>8. Taken(m, A, B, a, b) \in WalkState(A, B)
    BY <1>6, <1>7 DEF Taken, WalkState, e
  <1> QED BY <1>5, <1>8 DEF e

\* So has it after a round.
LEMMA NextEventType ==
    ASSUME NEW A \in Seq(Period), NEW B \in Seq(Period), NEW m \in WalkState(A, B)
    PROVE  NextEvent(m, A, B) \in WalkState(A, B)
  BY NextEventTakes, TakenType

\* The loops, with what they start from.
WalkStart(startA, startB) ==
    [idxA |-> 0, idxB |-> 0, timeA |-> startA, timeB |-> startB, events |-> <<>>]

WalkRec(g, start, A, B, n) ==
    g = [s \in SUBSET DOMAIN [i \in 1..n |-> i] |->
           IF s = {} THEN start ELSE NextEvent(g[s \ {Max(s)}], A, B)]

\* The loops, as the recursion of a fold.
LEMMA EventsAreWalk ==
    ASSUME NEW A, NEW B, NEW startA, NEW startB
    PROVE  Events(startA, startB, A, B)
             = (CHOOSE g : WalkRec(g, WalkStart(startA, startB), A, B, Len(A) + Len(B)))
                 [DOMAIN [i \in 1..(Len(A) + Len(B)) |-> i]].events
  BY DEF Events, FoldLeft, MapThenFoldSet, WalkRec, WalkStart

\* The states that the loops go through: at the end no event is left.
Walk(v, A, B, startA, startB) ==
    LET n == Len(A) + Len(B) IN
    /\ v[0] = WalkStart(startA, startB)
    /\ \A k \in 0..n : v[k] \in WalkState(A, B)
    /\ \A k \in 1..n : v[k] = NextEvent(v[k - 1], A, B)
    /\ v[n].idxA = Len(A) /\ v[n].idxB = Len(B)
    /\ v[n].events = Events(startA, startB, A, B)

\* And there are such states.
LEMMA EventsUnfolded ==
    ASSUME NEW A \in Seq(Period), NEW B \in Seq(Period),
           NEW startA \in Int, NEW startB \in Int
    PROVE  \E v : Walk(v, A, B, startA, startB)
  <1> DEFINE n == Len(A) + Len(B)
             S == WalkState(A, B)
             start == WalkStart(startA, startB)
             table == [k \in 1..n |-> [m \in S |-> NextEvent(m, A, B)]]
  <1>1. n \in Nat /\ Len(A) \in Nat /\ Len(B) \in Nat /\ DOMAIN [i \in 1..n |-> i] = 1..n
    BY LenProperties
  <1>2. start \in S
    <2>1. 0 \in 0..Len(A) /\ 0 \in 0..Len(B) /\ <<>> \in Seq(Event)
      BY <1>1, EmptySeq
    <2> QED BY <2>1 DEF WalkStart, WalkState
  <1>3. table \in [1..n -> [S -> S]]
    BY NextEventType
  <1> HIDE DEF n, S, start
  <1>4. \E g : WalkRec(g, start, A, B, n)
    <2> HIDE DEF table
    <2>1. PICK g \in [SUBSET (1..n) -> S] : FoldRec(g, start, table, n)
      BY <1>1, <1>2, <1>3, FoldRecExists
    <2>2. ASSUME NEW s \in SUBSET (1..n), s # {}
          PROVE  table[Max(s)][g[s \ {Max(s)}]] = NextEvent(g[s \ {Max(s)}], A, B)
      <3>1. Max(s) \in 1..n
        BY <1>1, <2>2, MaxOfIndices
      <3>2. g[s \ {Max(s)}] \in S
        BY <2>1
      <3> QED BY <3>1, <3>2 DEF table
    <2>3. WalkRec(g, start, A, B, n)
      BY <1>1, <2>1, <2>2 DEF WalkRec, FoldRec
    <2> QED BY <2>3
  <1> DEFINE c == CHOOSE g : WalkRec(g, start, A, B, n)
             v == [k \in 0..n |-> c[1..k]]
  <1>5. c = [s \in SUBSET (1..n) |-> IF s = {} THEN start ELSE NextEvent(c[s \ {Max(s)}], A, B)]
    <2>1. WalkRec(c, start, A, B, n)
      BY <1>4
    <2> QED BY <1>1, <2>1 DEF WalkRec
  <1>6. Events(startA, startB, A, B) = c[1..n].events
    BY <1>1, EventsAreWalk DEF n, start
  <1> HIDE DEF c
  <1>7. c[1..0] = start
    <2>1. 1..0 = {}
      OBVIOUS
    <2> QED BY <1>5, <2>1
  <1>8. ASSUME NEW k \in 1..n PROVE c[1..k] = NextEvent(c[1..(k - 1)], A, B)
    <2> DEFINE s == 1..k
    <2>1. s \in SUBSET (1..n) /\ s # {} /\ Max(s) = k /\ s \ {k} = 1..(k - 1)
      BY <1>1, FirstIndices
    <2> HIDE DEF s
    <2>2. c[s] = NextEvent(c[s \ {Max(s)}], A, B)
      BY <1>5, <2>1
    <2> QED BY <2>1, <2>2 DEF s
  <1>9. /\ v[0] = start
        /\ \A k \in 1..n : v[k] = NextEvent(v[k - 1], A, B)
        /\ v[n].events = Events(startA, startB, A, B)
    <2>1. 0 \in 0..n /\ n \in 0..n
      BY <1>1
    <2>2. \A k \in 1..n : k \in 0..n /\ k - 1 \in 0..n
      BY <1>1
    <2> QED BY <1>6, <1>7, <1>8, <2>1, <2>2
  <1> HIDE DEF v
  <1>10. \A k \in 0..n : v[k] \in S
    <2> DEFINE I == {k \in 0..n : v[k] \in S}
    <2>1. 0 \in I
      BY <1>1, <1>2, <1>9
    <2>2. ASSUME NEW k \in 1..n, k - 1 \in I PROVE k \in I
      <3>1. k \in 0..n /\ v[k - 1] \in S
        BY <1>1, <2>2
      <3> QED BY <1>9, <3>1, NextEventType DEF S
    <2> HIDE DEF I
    <2>3. \A k \in 0..n : k \in I
      BY <1>1, <2>1, <2>2, BoundedInduction
    <2> QED BY <2>3 DEF I
  <1>11. v[n].idxA = Len(A) /\ v[n].idxB = Len(B)
    <2> DEFINE done(m) == m.idxA = Len(A) /\ m.idxB = Len(B)
               I == {k \in 0..n : done(v[k]) \/ v[k].idxA + v[k].idxB >= k}
    <2>1. 0 \in I
      <3>1. v[0].idxA = 0 /\ v[0].idxB = 0 /\ 0 \in 0..n
        BY <1>1, <1>9 DEF start, WalkStart
      <3> QED BY <3>1
    <2>2. ASSUME NEW k \in 1..n, k - 1 \in I PROVE k \in I
      <3> DEFINE m == v[k - 1]
                 m2 == v[k]
      <3>1. k \in 0..n /\ k - 1 \in 0..n /\ k \in Nat
        BY <1>1
      <3>2. /\ m \in WalkState(A, B) /\ m2 = NextEvent(m, A, B)
            /\ done(m) \/ m.idxA + m.idxB >= k - 1
        BY <1>9, <1>10, <2>2, <3>1 DEF S
      <3> HIDE DEF m, m2
      <3>3. m.idxA \in 0..Len(A) /\ m.idxB \in 0..Len(B)
        BY <3>2 DEF WalkState
      <3>4. CASE m2 = m /\ done(m)
        BY <3>1, <3>4 DEF m, m2
      <3>5. CASE \E a, b \in BOOLEAN : (a \/ b) /\ Takes(m, A, B, a, b) /\ m2 = Taken(m, A, B, a, b)
        <4>1. PICK a \in BOOLEAN, b \in BOOLEAN :
                   (a \/ b) /\ Takes(m, A, B, a, b) /\ m2 = Taken(m, A, B, a, b)
          BY <3>5
        <4>2. /\ m2.idxA = IF a THEN m.idxA + 1 ELSE m.idxA
              /\ m2.idxB = IF b THEN m.idxB + 1 ELSE m.idxB
          BY <4>1 DEF Taken
        <4>3. ~done(m)
          BY <1>1, <3>3, <4>1 DEF Takes
        <4>4. m2.idxA + m2.idxB >= k
          BY <1>1, <3>1, <3>2, <3>3, <4>1, <4>2, <4>3
        <4> QED BY <3>1, <4>4 DEF m2
      <3> QED BY <3>2, <3>4, <3>5, NextEventTakes
    <2> HIDE DEF I
    <2>3. n \in I
      <3>1. n \in 0..n
        BY <1>1
      <3> QED BY <1>1, <2>1, <2>2, <3>1, BoundedInduction
    <2>4. v[n] \in WalkState(A, B)
      BY <1>1, <1>10 DEF S
    <2>5. v[n].idxA \in 0..Len(A) /\ v[n].idxB \in 0..Len(B)
      BY <2>4 DEF WalkState
    <2>6. done(v[n]) \/ v[n].idxA + v[n].idxB >= Len(A) + Len(B)
      BY <2>3 DEF I, n
    <2> QED BY <1>1, <2>5, <2>6
  <1>12. Walk(v, A, B, startA, startB)
    BY <1>9, <1>10, <1>11 DEF Walk, n, S, start
  <1> QED BY <1>12

\* The times of the events of a schedule.
LEMMA EventTimeSteps ==
    ASSUME NEW p \in Seq(Period), NEW start \in Int
    PROVE  /\ Len(p) \in Nat
           /\ EventTime(start, p, 0) = start
           /\ EventTime(start, p, Len(p)) = start + TotalLength(p)
           /\ \A k \in 0..Len(p) : EventTime(start, p, k) \in Int /\ start <= EventTime(start, p, k)
           /\ \A k \in 1..Len(p) :
                 /\ p[k].length \in Nat /\ p[k].amount \in Nat
                 /\ EventTime(start, p, k) = EventTime(start, p, k - 1) + p[k].length
  <1> DEFINE n == Len(p)
             L(k) == Total(SubSeq(p, 1, k), "length")
  <1>1. n \in Nat
    BY LenProperties
  <1>2. /\ L(0) = 0 /\ L(n) = TotalLength(p)
        /\ \A k \in 0..n : L(k) \in Nat
        /\ \A k \in 1..n : p[k].length \in Nat /\ L(k) = L(k - 1) + p[k].length
    BY TotalUpto, TotalsOfFields DEF Fields
  <1>3. \A k \in 1..n : p[k].amount \in Nat
    BY TotalUpto DEF Fields
  <1>4. \A k : EventTime(start, p, k) = start + L(k)
    BY TotalsOfFields DEF EventTime
  <1> HIDE DEF L, n
  <1>5. \A k \in 1..n : k - 1 \in 0..n /\ L(k) \in Nat /\ L(k - 1) \in Nat
    BY <1>1, <1>2
  <1>6. ASSUME NEW k \in 1..n
        PROVE  EventTime(start, p, k) = EventTime(start, p, k - 1) + p[k].length
    <2>1. L(k) = L(k - 1) + p[k].length /\ p[k].length \in Nat /\ L(k - 1) \in Nat
      BY <1>2, <1>5
    <2> QED BY <1>4, <2>1
  <1>7. ASSUME NEW k \in 0..n PROVE EventTime(start, p, k) \in Int /\ start <= EventTime(start, p, k)
    BY <1>2, <1>4
  <1> QED BY <1>1, <1>2, <1>3, <1>4, <1>6, <1>7 DEF n

\* What an event has to do with one of the schedules, of which i events came
\* before and j come up to it.
Side(start, p, i, j, at, x) ==
    /\ i > 0 => EventTime(start, p, i) <= at
    /\ \/ j = i /\ x = 0 /\ (i < Len(p) => at <= EventTime(start, p, i + 1))
       \/ i < Len(p) /\ j = i + 1 /\ x = p[j].amount /\ at = EventTime(start, p, j)

\* The clocks of the loops, and the order of the events.
Clocks(m, A, B, startA, startB) ==
    /\ m.timeA = EventTime(startA, A, m.idxA)
    /\ m.timeB = EventTime(startB, B, m.idxB)
    /\ m.idxA > 0 /\ m.idxB < Len(B) =>
         EventTime(startA, A, m.idxA) <= EventTime(startB, B, m.idxB + 1)
    /\ m.idxB > 0 /\ m.idxA < Len(A) =>
         EventTime(startB, B, m.idxB) <= EventTime(startA, A, m.idxA + 1)

\* A round takes the earliest event.
LEMMA TakenSides ==
    ASSUME NEW A \in Seq(Period), NEW B \in Seq(Period),
           NEW startA \in Int, NEW startB \in Int,
           NEW m \in WalkState(A, B), Clocks(m, A, B, startA, startB),
           NEW a \in BOOLEAN, NEW b \in BOOLEAN, a \/ b, Takes(m, A, B, a, b)
    PROVE  LET m2 == Taken(m, A, B, a, b)
               e == EventTaken(m, A, B, a, b)
           IN  /\ Side(startA, A, m.idxA, m2.idxA, e.time, e.a)
               /\ Side(startB, B, m.idxB, m2.idxB, e.time, e.b)
               /\ Clocks(m2, A, B, startA, startB)
  <1> DEFINE m2 == Taken(m, A, B, a, b)
             e == EventTaken(m, A, B, a, b)
             i == m.idxA
             j == m.idxB
             S(k) == EventTime(startA, A, k)
             T(k) == EventTime(startB, B, k)
  <1>1. /\ Len(A) \in Nat /\ Len(B) \in Nat /\ i \in 0..Len(A) /\ j \in 0..Len(B)
        /\ i \in Nat /\ j \in Nat
    BY LenProperties DEF WalkState
  <1>2. /\ \A k \in 0..Len(A) : S(k) \in Int
        /\ \A k \in 1..Len(A) : A[k].length \in Nat /\ A[k].amount \in Nat
                                /\ S(k) = S(k - 1) + A[k].length
    BY EventTimeSteps
  <1>3. /\ \A k \in 0..Len(B) : T(k) \in Int
        /\ \A k \in 1..Len(B) : B[k].length \in Nat /\ B[k].amount \in Nat
                                /\ T(k) = T(k - 1) + B[k].length
    BY EventTimeSteps
  <1>4. /\ m.timeA = S(i) /\ m.timeB = T(j)
        /\ i > 0 /\ j < Len(B) => S(i) <= T(j + 1)
        /\ j > 0 /\ i < Len(A) => T(j) <= S(i + 1)
    BY DEF Clocks
  <1>5. /\ m2.idxA = IF a THEN i + 1 ELSE i
        /\ m2.idxB = IF b THEN j + 1 ELSE j
        /\ m2.timeA = IF a THEN S(i) + A[i + 1].length ELSE S(i)
        /\ m2.timeB = IF b THEN T(j) + B[j + 1].length ELSE T(j)
        /\ e.time = IF a THEN S(i) + A[i + 1].length ELSE T(j) + B[j + 1].length
        /\ e.a = IF a THEN A[i + 1].amount ELSE 0
        /\ e.b = IF b THEN B[j + 1].amount ELSE 0
    BY <1>4 DEF Taken, EventTaken
  <1>6. /\ a => i < Len(A)
        /\ b => j < Len(B)
        /\ a /\ j < Len(B) => S(i) + A[i + 1].length <= T(j) + B[j + 1].length
        /\ b /\ i < Len(A) => T(j) + B[j + 1].length <= S(i) + A[i + 1].length
    BY <1>4 DEF Takes
  <1> HIDE DEF m2, e, i, j, S, T
  <1>7. i < Len(A) => /\ i + 1 \in 1..Len(A) /\ S(i + 1) \in Int
                      /\ A[i + 1].length \in Nat /\ S(i + 1) = S(i) + A[i + 1].length
    <2> HAVE i < Len(A)
    <2>1. i + 1 \in 1..Len(A) /\ i + 1 \in 0..Len(A) /\ (i + 1) - 1 = i
      BY <1>1
    <2> QED BY <1>2, <2>1
  <1>8. j < Len(B) => /\ j + 1 \in 1..Len(B) /\ T(j + 1) \in Int
                      /\ B[j + 1].length \in Nat /\ T(j + 1) = T(j) + B[j + 1].length
    <2> HAVE j < Len(B)
    <2>1. j + 1 \in 1..Len(B) /\ j + 1 \in 0..Len(B) /\ (j + 1) - 1 = j
      BY <1>1
    <2> QED BY <1>3, <2>1
  <1>9. i + 1 < Len(A) => S(i + 1) <= S(i + 2) /\ S(i + 2) \in Int
    <2> HAVE i + 1 < Len(A)
    <2>1. i + 2 \in 1..Len(A) /\ i + 2 \in 0..Len(A) /\ (i + 2) - 1 = i + 1
      BY <1>1
    <2>2. S(i + 2) = S(i + 1) + A[i + 2].length /\ A[i + 2].length \in Nat /\ S(i + 2) \in Int
      BY <1>2, <2>1
    <2>3. S(i + 1) \in Int
      BY <1>1, <1>7
    <2> QED BY <2>2, <2>3
  <1>10. j + 1 < Len(B) => T(j + 1) <= T(j + 2) /\ T(j + 2) \in Int
    <2> HAVE j + 1 < Len(B)
    <2>1. j + 2 \in 1..Len(B) /\ j + 2 \in 0..Len(B) /\ (j + 2) - 1 = j + 1
      BY <1>1
    <2>2. T(j + 2) = T(j + 1) + B[j + 2].length /\ B[j + 2].length \in Nat /\ T(j + 2) \in Int
      BY <1>3, <2>1
    <2>3. T(j + 1) \in Int
      BY <1>1, <1>8
    <2> QED BY <2>2, <2>3
  <1>11. S(i) \in Int /\ T(j) \in Int
    BY <1>1, <1>2, <1>3
  <1>12. e.time = IF a THEN S(i + 1) ELSE T(j + 1)
    BY <1>5, <1>6, <1>7, <1>8
  <1>13. /\ a /\ j < Len(B) => S(i + 1) <= T(j + 1)
         /\ b /\ i < Len(A) => T(j + 1) <= S(i + 1)
    BY <1>6, <1>7, <1>8
  <1>14. /\ i > 0 => S(i) <= e.time
         /\ j > 0 => T(j) <= e.time
    BY <1>4, <1>6, <1>7, <1>8, <1>11, <1>12, <1>13, SMTT(60)
  <1>15. Side(startA, A, i, m2.idxA, e.time, e.a)
    <2>1. CASE a
      BY <1>5, <1>6, <1>12, <1>14, <2>1 DEF Side, S
    <2>2. CASE ~a
      BY <1>5, <1>6, <1>12, <1>13, <1>14, <2>2 DEF Side, S
    <2> QED BY <2>1, <2>2
  <1>16. Side(startB, B, j, m2.idxB, e.time, e.b)
    <2>1. CASE b
      <3>1. e.time = T(j + 1)
        BY <1>6, <1>7, <1>8, <1>12, <1>13, <2>1
      <3> QED BY <1>5, <1>6, <1>14, <2>1, <3>1 DEF Side, T
    <2>2. CASE ~b
      BY <1>5, <1>6, <1>12, <1>13, <1>14, <2>2 DEF Side, T
    <2> QED BY <2>1, <2>2
  <1>17. Clocks(m2, A, B, startA, startB)
    <2>1. m2.timeA = S(m2.idxA) /\ m2.timeB = T(m2.idxB)
      BY <1>5, <1>6, <1>7, <1>8
    <2>2. m2.idxA > 0 /\ m2.idxB < Len(B) => S(m2.idxA) <= T(m2.idxB + 1)
      <3>1. CASE a /\ ~b
        BY <1>5, <1>13, <3>1
      <3>2. CASE a /\ b
        <4>1. S(i + 1) <= T(j + 1) /\ S(i + 1) \in Int /\ T(j + 1) \in Int /\ (j + 1) + 1 = j + 2
          BY <1>1, <1>6, <1>7, <1>8, <1>13, <3>2
        <4> QED BY <1>5, <1>10, <3>2, <4>1
      <3>3. CASE ~a /\ b
        <4>1. T(j + 1) \in Int /\ (j + 1) + 1 = j + 2 /\ j < Len(B)
          BY <1>1, <1>6, <1>8, <3>3
        <4> QED BY <1>4, <1>5, <1>10, <1>11, <3>3, <4>1
      <3> QED BY <3>1, <3>2, <3>3
    <2>3. m2.idxB > 0 /\ m2.idxA < Len(A) => T(m2.idxB) <= S(m2.idxA + 1)
      <3>1. CASE b /\ ~a
        BY <1>5, <1>13, <3>1
      <3>2. CASE a /\ b
        <4>1. T(j + 1) <= S(i + 1) /\ S(i + 1) \in Int /\ T(j + 1) \in Int /\ (i + 1) + 1 = i + 2
          BY <1>1, <1>6, <1>7, <1>8, <1>13, <3>2
        <4> QED BY <1>5, <1>9, <3>2, <4>1
      <3>3. CASE a /\ ~b
        <4>1. S(i + 1) \in Int /\ (i + 1) + 1 = i + 2 /\ i < Len(A)
          BY <1>1, <1>6, <1>7, <3>3
        <4> QED BY <1>4, <1>5, <1>9, <1>11, <3>3, <4>1
      <3> QED BY <3>1, <3>2, <3>3
    <2> QED BY <2>1, <2>2, <2>3 DEF Clocks, S, T
  <1> QED BY <1>15, <1>16, <1>17 DEF m2, e, i, j

\* Each round leaves the state as it is, or adds the event that comes next in
\* both schedules.
LEMMA WalkSteps ==
    ASSUME NEW A \in Seq(Period), NEW B \in Seq(Period),
           NEW startA \in Int, NEW startB \in Int, NEW v, Walk(v, A, B, startA, startB)
    PROVE  \A k \in 1..(Len(A) + Len(B)) :
              \/ v[k] = v[k - 1]
              \/ \E e \in Event :
                    /\ v[k].events = Append(v[k - 1].events, e)
                    /\ Side(startA, A, v[k - 1].idxA, v[k].idxA, e.time, e.a)
                    /\ Side(startB, B, v[k - 1].idxB, v[k].idxB, e.time, e.b)
                    /\ v[k].idxA # v[k - 1].idxA \/ v[k].idxB # v[k - 1].idxB
  <1> DEFINE n == Len(A) + Len(B)
             C(m) == Clocks(m, A, B, startA, startB)
             I == {k \in 0..n : C(v[k])}
  <1>1. /\ n \in Nat
        /\ v[0] = WalkStart(startA, startB)
        /\ \A k \in 0..n : v[k] \in WalkState(A, B)
        /\ \A k \in 1..n : v[k] = NextEvent(v[k - 1], A, B)
    BY LenProperties DEF Walk
  <1>2. C(v[0])
    BY <1>1, EventTimeSteps DEF Clocks, WalkStart
  <1> HIDE DEF n, C
  <1>3. ASSUME NEW k \in 1..n, C(v[k - 1])
        PROVE  /\ C(v[k])
               /\ \/ v[k] = v[k - 1]
                  \/ \E e \in Event :
                        /\ v[k].events = Append(v[k - 1].events, e)
                        /\ Side(startA, A, v[k - 1].idxA, v[k].idxA, e.time, e.a)
                        /\ Side(startB, B, v[k - 1].idxB, v[k].idxB, e.time, e.b)
                        /\ v[k].idxA # v[k - 1].idxA \/ v[k].idxB # v[k - 1].idxB
    <2> DEFINE m == v[k - 1]
               m2 == v[k]
    <2>1. m \in WalkState(A, B) /\ m2 = NextEvent(m, A, B) /\ C(m)
      <3>1. k - 1 \in 0..n
        BY <1>1
      <3> QED BY <1>1, <1>3, <3>1
    <2> HIDE DEF m, m2
    <2>2. CASE NextEvent(m, A, B) = m
      BY <2>1, <2>2 DEF m, m2
    <2>3. CASE \E a, b \in BOOLEAN : (a \/ b) /\ Takes(m, A, B, a, b)
                                     /\ NextEvent(m, A, B) = Taken(m, A, B, a, b)
      <3>1. PICK a \in BOOLEAN, b \in BOOLEAN :
                 (a \/ b) /\ Takes(m, A, B, a, b) /\ m2 = Taken(m, A, B, a, b)
        BY <2>1, <2>3
      <3> DEFINE e == EventTaken(m, A, B, a, b)
      <3>2. e \in Event
        BY <2>1, <3>1, TakenType
      <3>3. /\ Side(startA, A, m.idxA, m2.idxA, e.time, e.a)
            /\ Side(startB, B, m.idxB, m2.idxB, e.time, e.b)
            /\ Clocks(m2, A, B, startA, startB)
        <4>1. Clocks(m, A, B, startA, startB)
          BY <2>1 DEF C
        <4> QED BY <2>1, <3>1, <4>1, TakenSides
      <3>4. m2.events = Append(m.events, e)
        BY <3>1 DEF Taken
      <3>5. m2.idxA # m.idxA \/ m2.idxB # m.idxB
        <4>1. m.idxA \in Int /\ m.idxB \in Int
          BY <2>1, LenProperties DEF WalkState
        <4>2. /\ m2.idxA = IF a THEN m.idxA + 1 ELSE m.idxA
              /\ m2.idxB = IF b THEN m.idxB + 1 ELSE m.idxB
          BY <3>1 DEF Taken
        <4> QED BY <3>1, <4>1, <4>2
      <3> HIDE DEF e
      <3> QED BY <3>2, <3>3, <3>4, <3>5 DEF m, m2, C
    <2> QED BY <2>1, <2>2, <2>3, NextEventTakes
  <1>4. 0 \in I
    BY <1>1, <1>2
  <1>5. ASSUME NEW k \in 1..n, k - 1 \in I PROVE k \in I
    <2>1. k \in 0..n /\ C(v[k - 1])
      BY <1>1, <1>5
    <2> QED BY <1>3, <2>1
  <1> HIDE DEF I
  <1>6. \A k \in 0..n : k \in I
    BY <1>1, <1>4, <1>5, BoundedInduction
  <1>7. ASSUME NEW k \in 1..n PROVE C(v[k - 1])
    <2>1. k - 1 \in 0..n
      BY <1>1
    <2> QED BY <1>6, <2>1 DEF I
  <1> QED BY <1>3, <1>7 DEF n

\* What an event adds to what a schedule has released, and what had been
\* released before.
LEMMA SideAdds ==
    ASSUME NEW p \in Seq(Period), NEW start \in Int, NEW at \in Int, NEW x \in Nat,
           NEW i \in 0..Len(p), NEW j \in 0..Len(p), Side(start, p, i, j, at, x)
    PROVE  /\ TotalAmount(SubSeq(p, 1, i)) \in Nat
           /\ TotalAmount(SubSeq(p, 1, j)) = TotalAmount(SubSeq(p, 1, i)) + x
           /\ \A t \in Int :
                 /\ Due(start, SubSeq(p, 1, i), t) \in Nat
                 /\ Due(start, SubSeq(p, 1, j), t)
                      = Due(start, SubSeq(p, 1, i), t) + Share(at, x, t)
                 /\ at <= t => Due(start, SubSeq(p, 1, i), t) = TotalAmount(SubSeq(p, 1, i))
           /\ EventTime(start, p, i) \in Int /\ EventTime(start, p, j) \in Int
           /\ i > 0 => EventTime(start, p, i) <= at /\ j > 0
           /\ EventTime(start, p, i) <= EventTime(start, p, j)
           /\ j # i => j > 0 /\ EventTime(start, p, j) = at /\ start <= at
  <1> DEFINE T(k) == EventTime(start, p, k)
             A(k) == TotalAmount(SubSeq(p, 1, k))
             D(k, t) == Due(start, SubSeq(p, 1, k), t)
  <1>1. /\ i > 0 => T(i) <= at
        /\ \/ j = i /\ x = 0
           \/ i < Len(p) /\ j = i + 1 /\ x = p[j].amount /\ at = T(j)
    BY DEF Side
  <1>2. /\ Len(p) \in Nat
        /\ \A k \in 0..Len(p) : T(k) \in Int /\ start <= T(k)
        /\ \A k \in 1..Len(p) : p[k].length \in Nat /\ T(k) = T(k - 1) + p[k].length
    BY EventTimeSteps
  <1>3. /\ A(0) = 0 /\ \A k \in 0..Len(p) : A(k) \in Nat
        /\ \A k \in 1..Len(p) : p[k].amount \in Nat /\ A(k) = A(k - 1) + p[k].amount
    BY TotalUpto, TotalsOfFields, SMTT(60) DEF Fields
  <1>4. ASSUME NEW t \in Int
        PROVE  /\ D(0, t) = 0 /\ \A k \in 0..Len(p) : D(k, t) \in Nat
               /\ \A k \in 1..Len(p) : D(k, t) = D(k - 1, t) + Share(T(k), p[k].amount, t)
    BY DueUpto
  <1>5. ASSUME NEW t \in Int, at <= t PROVE D(i, t) = A(i)
    <2>1. CASE i = 0
      BY <1>3, <1>4, <2>1
    <2>2. CASE i # 0
      <3>1. SubSeq(p, 1, i) \in Seq(Period)
        BY Upto
      <3>2. T(i) = start + TotalLength(SubSeq(p, 1, i))
        BY DEF EventTime
      <3>3. i \in Int /\ i > 0
        BY <1>2, <2>2
      <3>4. T(i) \in Int
        BY <1>2
      <3> HIDE DEF T
      <3>5. start + TotalLength(SubSeq(p, 1, i)) <= t
        BY <1>1, <1>5, <3>2, <3>3, <3>4
      <3> QED BY <3>1, <3>5, DueBounds
    <2> QED BY <2>1, <2>2
  <1> HIDE DEF T, A, D
  <1>6. /\ A(i) \in Nat /\ A(j) = A(i) + x
        /\ \A t \in Int : D(i, t) \in Nat /\ D(j, t) = D(i, t) + Share(at, x, t)
        /\ T(i) \in Int /\ T(j) \in Int /\ T(i) <= T(j)
        /\ i > 0 => j > 0
        /\ j # i => j > 0 /\ T(j) = at /\ start <= at
    <2>1. CASE j = i /\ x = 0
      <3>1. ASSUME NEW t \in Int PROVE D(i, t) \in Nat /\ D(j, t) = D(i, t) + Share(at, x, t)
        <4>1. D(i, t) \in Nat
          BY <1>4
        <4>2. Share(at, x, t) = 0
          BY <2>1 DEF Share
        <4> QED BY <2>1, <4>1, <4>2
      <3>2. A(i) \in Nat /\ T(i) \in Int
        BY <1>2, <1>3
      <3>3. A(i) = A(i) + x /\ T(i) <= T(i)
        BY <2>1, <3>2
      <3>4. i = j
        BY <2>1
      <3> QED BY <3>1, <3>2, <3>3, <3>4, Zenon
    <2>2. CASE i < Len(p) /\ j = i + 1 /\ x = p[j].amount /\ at = T(j)
      <3>1. j \in 1..Len(p) /\ j - 1 = i /\ i \in Nat /\ j > 0 /\ j # i
        BY <1>2, <2>2
      <3>2. A(j) = A(i) + x /\ A(i) \in Nat
        BY <1>3, <2>2, <3>1
      <3>3. \A t \in Int : D(j, t) = D(i, t) + Share(at, x, t) /\ D(i, t) \in Nat
        BY <1>4, <2>2, <3>1
      <3>4. /\ T(i) \in Int /\ T(j) \in Int /\ start <= T(j)
            /\ T(j) = T(i) + p[j].length /\ p[j].length \in Nat
        BY <1>2, <3>1
      <3>5. T(i) <= T(j)
        BY <3>4
      <3> QED BY <2>2, <3>1, <3>2, <3>3, <3>4, <3>5
    <2> QED BY <1>1, <2>1, <2>2
  <1> QED BY <1>1, <1>5, <1>6 DEF T, A, D

-----------------------------------------------------------------------------
(* The union of two schedules.                                             *)

\* The loop of DisjunctPeriods over the events, with what it starts from.
DisjunctStart(start) == [start |-> start, end |-> start, periods |-> <<>>]

DisjunctFold(start, es) ==
    FoldLeft(LAMBDA s, e : Emit(s, e.time, e.a + e.b), DisjunctStart(start), es)

DisjunctRec(g, start, es) ==
    g = [s \in SUBSET DOMAIN es |->
           IF s = {} THEN DisjunctStart(start)
           ELSE Emit(g[s \ {Max(s)}], es[Max(s)].time, es[Max(s)].a + es[Max(s)].b)]

\* The loop over the events, as the recursion of a fold.
LEMMA DisjunctIsRec ==
    ASSUME NEW start, NEW es
    PROVE  DisjunctFold(start, es) = (CHOOSE g : DisjunctRec(g, start, es))[DOMAIN es]
  BY DEF DisjunctFold, FoldLeft, MapThenFoldSet, DisjunctRec

DisjunctState == [start : Int, end : Int, periods : Seq([length : Int, amount : Int])]

\* Emitting keeps the type.
LEMMA EmitType ==
    ASSUME NEW s \in DisjunctState, NEW at \in Int, NEW amount \in Int
    PROVE  /\ Emit(s, at, amount) \in DisjunctState
           /\ Emit(s, at, amount).start = s.start
           /\ Emit(s, at, amount).end = at
           /\ Emit(s, at, amount).periods
                = Append(s.periods, [length |-> at - s.end, amount |-> amount])
  <1> DEFINE x == [length |-> at - s.end, amount |-> amount]
  <1>1. s.start \in Int /\ s.end \in Int /\ s.periods \in Seq([length : Int, amount : Int])
    BY DEF DisjunctState
  <1>2. x \in [length : Int, amount : Int]
    BY <1>1
  <1> HIDE DEF x
  <1>3. Append(s.periods, x) \in Seq([length : Int, amount : Int])
    BY <1>1, <1>2, AppendProperties
  <1> DEFINE ps == Append(s.periods, x)
  <1>4. Emit(s, at, amount) = [s EXCEPT !.end = at, !.periods = ps]
    BY DEF Emit, x
  <1> HIDE DEF ps
  <1>5. /\ [s EXCEPT !.end = at, !.periods = ps] \in DisjunctState
        /\ [s EXCEPT !.end = at, !.periods = ps].start = s.start
        /\ [s EXCEPT !.end = at, !.periods = ps].end = at
        /\ [s EXCEPT !.end = at, !.periods = ps].periods = ps
    <2> DEFINE P == Seq([length : Int, amount : Int])
    <2>1. ps \in P /\ s \in [start : Int, end : Int, periods : P]
      BY <1>3 DEF DisjunctState, ps
    <2>2. DisjunctState = [start : Int, end : Int, periods : P]
      BY DEF DisjunctState
    <2> HIDE DEF P
    <2> QED BY <2>1, <2>2
  <1> QED BY <1>4, <1>5 DEF ps, x

\* The states of the loop over the events.
LEMMA DisjunctUnfolded ==
    ASSUME NEW start \in Int, NEW es \in Seq(Event)
    PROVE  \E v : /\ v[0] = DisjunctStart(start)
                  /\ \A k \in 1..Len(es) :
                        v[k] = Emit(v[k - 1], es[k].time, es[k].a + es[k].b)
                  /\ v[Len(es)] = DisjunctFold(start, es)
  <1> DEFINE n == Len(es)
             S == DisjunctState
             base == DisjunctStart(start)
             table == [k \in 1..n |-> [s \in S |-> Emit(s, es[k].time, es[k].a + es[k].b)]]
  <1>1. n \in Nat /\ DOMAIN es = 1..n
    BY LenProperties
  <1>2. base \in S
    <2>1. <<>> \in Seq([length : Int, amount : Int])
      BY EmptySeq
    <2> QED BY <2>1 DEF DisjunctStart, DisjunctState
  <1>3. table \in [1..n -> [S -> S]]
    <2>1. ASSUME NEW k \in 1..n, NEW s \in S
          PROVE  Emit(s, es[k].time, es[k].a + es[k].b) \in S
      <3>1. es[k] \in Event
        BY ElementOfSeq
      <3>2. es[k].time \in Int /\ es[k].a + es[k].b \in Int
        BY <3>1 DEF Event
      <3> QED BY <3>2, EmitType
    <2> QED BY <2>1
  <1> HIDE DEF n, S, base
  <1>4. \E g : DisjunctRec(g, start, es)
    <2> HIDE DEF table
    <2>1. PICK g \in [SUBSET (1..n) -> S] : FoldRec(g, base, table, n)
      BY <1>1, <1>2, <1>3, FoldRecExists
    <2>2. ASSUME NEW s \in SUBSET (1..n), s # {}
          PROVE  table[Max(s)][g[s \ {Max(s)}]]
                   = Emit(g[s \ {Max(s)}], es[Max(s)].time, es[Max(s)].a + es[Max(s)].b)
      <3>1. Max(s) \in 1..n
        BY <1>1, <2>2, MaxOfIndices
      <3>2. g[s \ {Max(s)}] \in S
        BY <2>1
      <3> QED BY <3>1, <3>2 DEF table
    <2>3. DisjunctRec(g, start, es)
      BY <1>1, <2>1, <2>2 DEF DisjunctRec, FoldRec, base
    <2> QED BY <2>3
  <1> DEFINE c == CHOOSE g : DisjunctRec(g, start, es)
             v == [k \in 0..n |-> c[1..k]]
  <1>5. c = [s \in SUBSET (1..n) |->
               IF s = {} THEN base
               ELSE Emit(c[s \ {Max(s)}], es[Max(s)].time, es[Max(s)].a + es[Max(s)].b)]
    <2>1. DisjunctRec(c, start, es)
      BY <1>4
    <2> QED BY <1>1, <2>1 DEF DisjunctRec, base
  <1>6. DisjunctFold(start, es) = c[1..n]
    BY <1>1, DisjunctIsRec
  <1> HIDE DEF c
  <1>7. c[1..0] = base
    <2>1. 1..0 = {}
      OBVIOUS
    <2> QED BY <1>5, <2>1
  <1>8. ASSUME NEW k \in 1..n
        PROVE  c[1..k] = Emit(c[1..(k - 1)], es[k].time, es[k].a + es[k].b)
    <2> DEFINE s == 1..k
    <2>1. s \in SUBSET (1..n) /\ s # {} /\ Max(s) = k /\ s \ {k} = 1..(k - 1)
      BY <1>1, FirstIndices
    <2> HIDE DEF s
    <2>2. c[s] = Emit(c[s \ {Max(s)}], es[Max(s)].time, es[Max(s)].a + es[Max(s)].b)
      BY <1>5, <2>1
    <2> QED BY <2>1, <2>2 DEF s
  <1>9. /\ v[0] = base
        /\ \A k \in 1..n : v[k] = Emit(v[k - 1], es[k].time, es[k].a + es[k].b)
        /\ v[n] = DisjunctFold(start, es)
    <2>1. 0 \in 0..n /\ n \in 0..n
      BY <1>1
    <2>2. \A k \in 1..n : k \in 0..n /\ k - 1 \in 0..n
      BY <1>1
    <2> QED BY <1>6, <1>7, <1>8, <2>1, <2>2
  <1> HIDE DEF v
  <1> QED BY <1>9 DEF n, base

\* One more event is one more round.
LEMMA DisjunctFolded ==
    ASSUME NEW start \in Int, NEW es \in Seq(Event), NEW e \in Event
    PROVE  /\ DisjunctFold(start, <<>>) = DisjunctStart(start)
           /\ DisjunctFold(start, Append(es, e))
                = Emit(DisjunctFold(start, es), e.time, e.a + e.b)
  <1>1. DisjunctFold(start, <<>>) = DisjunctStart(start)
    <2>1. <<>> \in Seq(Event) /\ Len(<<>>) = 0
      BY EmptySeq
    <2> QED BY <2>1, DisjunctUnfolded
  <1> DEFINE p == Append(es, e)
             n == Len(es)
  <1>2. /\ p \in Seq(Event) /\ Len(p) = n + 1 /\ n \in Nat
        /\ p[n + 1] = e /\ \A i \in 1..n : p[i] = es[i]
    BY AppendProperties, LenProperties
  <1> HIDE DEF p
  <1>3. PICK v : /\ v[0] = DisjunctStart(start)
                 /\ \A k \in 1..n : v[k] = Emit(v[k - 1], es[k].time, es[k].a + es[k].b)
                 /\ v[n] = DisjunctFold(start, es)
    BY DisjunctUnfolded
  <1>4. PICK w : /\ w[0] = DisjunctStart(start)
                 /\ \A k \in 1..(n + 1) : w[k] = Emit(w[k - 1], p[k].time, p[k].a + p[k].b)
                 /\ w[n + 1] = DisjunctFold(start, p)
    BY <1>2, DisjunctUnfolded
  <1> HIDE DEF n
  <1>5. n \in {k \in 0..n : v[k] = w[k]}
    <2> DEFINE I == {k \in 0..n : v[k] = w[k]}
    <2>1. 0 \in I
      BY <1>2, <1>3, <1>4
    <2>2. ASSUME NEW k \in 1..n, k - 1 \in I PROVE k \in I
      <3>1. k \in 1..(n + 1) /\ k \in 0..n /\ p[k] = es[k] /\ v[k - 1] = w[k - 1]
        BY <1>2, <2>2
      <3>2. /\ v[k] = Emit(v[k - 1], es[k].time, es[k].a + es[k].b)
            /\ w[k] = Emit(w[k - 1], p[k].time, p[k].a + p[k].b)
        BY <1>3, <1>4, <3>1
      <3> QED BY <3>1, <3>2
    <2> HIDE DEF I
    <2>3. n \in 0..n
      BY <1>2
    <2>4. n \in I
      BY <1>2, <2>1, <2>2, <2>3, BoundedInduction
    <2> QED BY <2>4 DEF I
  <1>6. w[n + 1] = Emit(w[n], p[n + 1].time, p[n + 1].a + p[n + 1].b)
    <2>1. n + 1 \in 1..(n + 1) /\ (n + 1) - 1 = n
      BY <1>2
    <2> QED BY <1>4, <2>1
  <1> QED BY <1>1, <1>2, <1>3, <1>4, <1>5, <1>6 DEF p

\* An event of one of the schedules, with the types of all that it relates.
SideStep(start, p, i, j, at, x) ==
    /\ p \in Seq(Period) /\ start \in Int /\ at \in Int /\ x \in Nat
    /\ i \in 0..Len(p) /\ j \in 0..Len(p)
    /\ Side(start, p, i, j, at, x)

\* What SideAdds says of the times.
LEMMA SideTimes ==
    ASSUME NEW p, NEW start, NEW at, NEW x, NEW i, NEW j, SideStep(start, p, i, j, at, x)
    PROVE  /\ EventTime(start, p, i) \in Int /\ EventTime(start, p, j) \in Int
           /\ i > 0 => EventTime(start, p, i) <= at /\ j > 0
           /\ EventTime(start, p, i) <= EventTime(start, p, j)
           /\ j # i => j > 0 /\ EventTime(start, p, j) = at /\ start <= at
  <1>0. /\ p \in Seq(Period) /\ start \in Int /\ at \in Int /\ x \in Nat
        /\ i \in 0..Len(p) /\ j \in 0..Len(p) /\ Side(start, p, i, j, at, x)
    BY DEF SideStep
  <1>1. EventTime(start, p, i) \in Int /\ EventTime(start, p, j) \in Int
    BY <1>0, SideAdds
  <1>2. i > 0 => EventTime(start, p, i) <= at /\ j > 0
    BY <1>0, SideAdds
  <1>3. EventTime(start, p, i) <= EventTime(start, p, j)
    BY <1>0, SideAdds
  <1>4. j # i => j > 0 /\ EventTime(start, p, j) = at /\ start <= at
    BY <1>0, SideAdds
  <1> QED BY <1>1, <1>2, <1>3, <1>4

\* What it says of the totals.
LEMMA SideTotals ==
    ASSUME NEW p, NEW start, NEW at, NEW x, NEW i, NEW j, SideStep(start, p, i, j, at, x)
    PROVE  /\ TotalAmount(SubSeq(p, 1, i)) \in Nat
           /\ TotalAmount(SubSeq(p, 1, j)) = TotalAmount(SubSeq(p, 1, i)) + x
  BY SideAdds DEF SideStep

\* What it says of the amounts released.
LEMMA SideDues ==
    ASSUME NEW p, NEW start, NEW at, NEW x, NEW i, NEW j, SideStep(start, p, i, j, at, x)
    PROVE  \A t \in Int :
              /\ Due(start, SubSeq(p, 1, i), t) \in Nat
              /\ Due(start, SubSeq(p, 1, j), t)
                   = Due(start, SubSeq(p, 1, i), t) + Share(at, x, t)
              /\ at <= t => Due(start, SubSeq(p, 1, i), t) = TotalAmount(SubSeq(p, 1, i))
  <1>1. /\ p \in Seq(Period) /\ start \in Int /\ at \in Int /\ x \in Nat
        /\ i \in 0..Len(p) /\ j \in 0..Len(p) /\ Side(start, p, i, j, at, x)
    BY DEF SideStep
  <1> DEFINE D(k, t) == Due(start, SubSeq(p, 1, k), t)
  <1>2. \A t \in Int : D(i, t) \in Nat
    BY <1>1, SideAdds
  <1>3. \A t \in Int : D(j, t) = D(i, t) + Share(at, x, t)
    BY <1>1, SideAdds
  <1>4. \A t \in Int : at <= t => D(i, t) = TotalAmount(SubSeq(p, 1, i))
    BY <1>1, SideAdds
  <1> HIDE DEF D
  <1>5. \A t \in Int : /\ D(i, t) \in Nat
                       /\ D(j, t) = D(i, t) + Share(at, x, t)
                       /\ at <= t => D(i, t) = TotalAmount(SubSeq(p, 1, i))
    BY <1>2, <1>3, <1>4
  <1> QED BY <1>5 DEF D

\* The end of what the loop has emitted: no later than the last event, of i
\* events of A and j of B.
EndBound(i, j, end, start, A, B, startA, startB) ==
    \/ end = start
    \/ i > 0 /\ end <= EventTime(startA, A, i)
    \/ j > 0 /\ end <= EventTime(startB, B, j)

\* An event is no earlier than the end of what was emitted before it, and what
\* it emits ends no later than it.
LEMMA EndBounded ==
    ASSUME NEW A, NEW B, NEW startA, NEW startB, NEW i, NEW i2, NEW j, NEW j2,
           NEW at, NEW x, NEW y,
           NEW end \in Int, NEW start \in Int, start <= startA, start <= startB,
           SideStep(startA, A, i, i2, at, x),
           SideStep(startB, B, j, j2, at, y),
           i2 # i \/ j2 # j,
           EndBound(i, j, end, start, A, B, startA, startB)
    PROVE  /\ end <= at
           /\ EndBound(i2, j2, end, start, A, B, startA, startB)
           /\ EndBound(i2, j2, at, start, A, B, startA, startB)
  <1>0. startA \in Int /\ startB \in Int /\ at \in Int
    BY DEF SideStep
  <1> DEFINE S(k) == EventTime(startA, A, k)
             T(k) == EventTime(startB, B, k)
  <1>1. /\ S(i) \in Int /\ S(i2) \in Int
        /\ i > 0 => S(i) <= at /\ i2 > 0
        /\ S(i) <= S(i2)
        /\ i2 # i => i2 > 0 /\ S(i2) = at /\ startA <= at
    BY SideTimes
  <1>2. /\ T(j) \in Int /\ T(j2) \in Int
        /\ j > 0 => T(j) <= at /\ j2 > 0
        /\ T(j) <= T(j2)
        /\ j2 # j => j2 > 0 /\ T(j2) = at /\ startB <= at
    BY SideTimes
  <1>3. \/ end = start
        \/ i > 0 /\ end <= S(i)
        \/ j > 0 /\ end <= T(j)
    BY DEF EndBound
  <1> HIDE DEF S, T
  <1>4. end <= at
    BY <1>0, <1>1, <1>2, <1>3
  <1>5. \/ end = start
        \/ i2 > 0 /\ end <= S(i2)
        \/ j2 > 0 /\ end <= T(j2)
    BY <1>0, <1>1, <1>2, <1>3
  <1>6. \/ i2 > 0 /\ at <= S(i2)
        \/ j2 > 0 /\ at <= T(j2)
    BY <1>0, <1>1, <1>2
  <1> QED BY <1>4, <1>5, <1>6 DEF EndBound, S, T

\* What the loop has emitted: the sum of the events so far.
Disjoined(i, j, s, start, A, B, startA, startB) ==
    /\ s \in DisjunctState
    /\ s.start = start
    /\ s.periods \in Seq(Period)
    /\ s.end = start + TotalLength(s.periods)
    /\ EndBound(i, j, s.end, start, A, B, startA, startB)
    /\ TotalAmount(s.periods) = TotalAmount(SubSeq(A, 1, i)) + TotalAmount(SubSeq(B, 1, j))
    /\ \A t \in Int : Due(start, s.periods, t)
         = Due(startA, SubSeq(A, 1, i), t) + Due(startB, SubSeq(B, 1, j), t)

\* One more event.
LEMMA DisjoinedStep ==
    ASSUME NEW A, NEW B, NEW startA, NEW startB, NEW i, NEW i2, NEW j, NEW j2,
           NEW at, NEW x, NEW y,
           NEW start \in Int, start <= startA, start <= startB,
           SideStep(startA, A, i, i2, at, x),
           SideStep(startB, B, j, j2, at, y),
           i2 # i \/ j2 # j,
           NEW s, Disjoined(i, j, s, start, A, B, startA, startB)
    PROVE  Disjoined(i2, j2, Emit(s, at, x + y), start, A, B, startA, startB)
  <1>0. /\ startA \in Int /\ startB \in Int /\ at \in Int /\ x \in Nat /\ y \in Nat
        /\ x + y \in Int
    <2>1. startA \in Int /\ startB \in Int /\ at \in Int /\ x \in Nat /\ y \in Nat
      BY DEF SideStep
    <2> QED BY <2>1
  <1> DEFINE e == [length |-> at - s.end, amount |-> x + y]
             q == s.periods
             s2 == Emit(s, at, x + y)
  <1>1. /\ s \in DisjunctState /\ s.start = start /\ q \in Seq(Period)
        /\ s.end = start + TotalLength(q)
        /\ EndBound(i, j, s.end, start, A, B, startA, startB)
        /\ TotalAmount(q) = TotalAmount(SubSeq(A, 1, i)) + TotalAmount(SubSeq(B, 1, j))
    BY DEF Disjoined
  <1>2. s.end \in Int /\ TotalLength(q) \in Nat /\ TotalAmount(q) \in Nat
    BY <1>1, TotalType, TotalsOfFields DEF Fields
  <1>3. /\ s.end <= at
        /\ EndBound(i2, j2, at, start, A, B, startA, startB)
    BY <1>1, <1>2, EndBounded
  <1>4. s2 \in DisjunctState /\ s2.start = start /\ s2.end = at /\ s2.periods = Append(q, e)
    BY <1>0, <1>1, EmitType
  <1>5. e \in Period
    BY <1>0, <1>2, <1>3 DEF Period
  <1>6. e.length = at - s.end /\ e.amount = x + y
    OBVIOUS
  <1>7. /\ Append(q, e) \in Seq(Period)
        /\ TotalLength(Append(q, e)) = TotalLength(q) + e.length
        /\ TotalAmount(Append(q, e)) = TotalAmount(q) + e.amount
    <2> HIDE DEF e, q
    <2> QED BY <1>1, <1>5, AppendProperties, TotalAppended, TotalsOfFields DEF Fields
  <1>8. start + (TotalLength(q) + e.length) = at
    <2> HIDE DEF e, q
    <2> QED BY <1>0, <1>1, <1>2, <1>6, SMTT(60)
  <1>9. /\ TotalAmount(SubSeq(A, 1, i2)) = TotalAmount(SubSeq(A, 1, i)) + x
        /\ TotalAmount(SubSeq(A, 1, i)) \in Nat
    BY SideTotals
  <1>10. /\ TotalAmount(SubSeq(B, 1, j2)) = TotalAmount(SubSeq(B, 1, j)) + y
         /\ TotalAmount(SubSeq(B, 1, j)) \in Nat
    BY SideTotals
  <1> HIDE DEF e, q, s2
  <1>11. TotalAmount(Append(q, e)) = TotalAmount(SubSeq(A, 1, i2)) + TotalAmount(SubSeq(B, 1, j2))
    BY <1>0, <1>1, <1>6, <1>7, <1>9, <1>10
  <1>12. ASSUME NEW t \in Int
         PROVE  Due(start, Append(q, e), t)
                  = Due(startA, SubSeq(A, 1, i2), t) + Due(startB, SubSeq(B, 1, j2), t)
    <2>1. Due(start, Append(q, e), t) = Due(start, q, t) + Share(at, x + y, t)
      BY <1>1, <1>5, <1>6, <1>8, DueAppended
    <2>2. /\ Due(startA, SubSeq(A, 1, i2), t) = Due(startA, SubSeq(A, 1, i), t) + Share(at, x, t)
          /\ Due(startA, SubSeq(A, 1, i), t) \in Nat
      BY SideDues
    <2>3. /\ Due(startB, SubSeq(B, 1, j2), t) = Due(startB, SubSeq(B, 1, j), t) + Share(at, y, t)
          /\ Due(startB, SubSeq(B, 1, j), t) \in Nat
      BY SideDues
    <2>4. Due(start, q, t) = Due(startA, SubSeq(A, 1, i), t) + Due(startB, SubSeq(B, 1, j), t)
      BY DEF Disjoined, q
    <2>5. Share(at, x + y, t) = Share(at, x, t) + Share(at, y, t)
          /\ Share(at, x, t) \in Nat /\ Share(at, y, t) \in Nat
      BY <1>0 DEF Share
    <2> QED BY <2>1, <2>2, <2>3, <2>4, <2>5
  <1>13. at = start + TotalLength(Append(q, e))
    BY <1>6, <1>7, <1>8
  <1> QED BY <1>3, <1>4, <1>7, <1>11, <1>12, <1>13 DEF Disjoined, s2

-----------------------------------------------------------------------------
(* The minimum of two schedules.                                           *)

\* The loop of ConjunctPeriods over the events, with what it starts from.
ConjunctStart(start) ==
    [start |-> start, end |-> start, periods |-> <<>>, totalA |-> 0, totalB |-> 0]

ConjunctFold(start, es) == FoldLeft(ConjunctEvent, ConjunctStart(start), es)

ConjunctRec(g, start, es) ==
    g = [s \in SUBSET DOMAIN es |->
           IF s = {} THEN ConjunctStart(start)
           ELSE ConjunctEvent(g[s \ {Max(s)}], es[Max(s)])]

\* The loop over the events, as the recursion of a fold.
LEMMA ConjunctIsRec ==
    ASSUME NEW start, NEW es
    PROVE  ConjunctFold(start, es) = (CHOOSE g : ConjunctRec(g, start, es))[DOMAIN es]
  BY DEF ConjunctFold, FoldLeft, MapThenFoldSet, ConjunctRec

ConjunctState ==
    [start : Int, end : Int, periods : Seq([length : Int, amount : Int]),
     totalA : Nat, totalB : Nat]

\* What the smaller of the two sums gains.
Gained(s, e) == Min64(s.totalA + e.a, s.totalB + e.b) - Min64(s.totalA, s.totalB)

\* A round counts the event, and emits what the smaller sum has gained.
LEMMA ConjunctEventIs ==
    ASSUME NEW s \in ConjunctState, NEW e \in Event
    PROVE  LET r == ConjunctEvent(s, e)
               gained == Gained(s, e)
           IN  /\ r \in ConjunctState
               /\ gained \in Nat
               /\ r.start = s.start
               /\ r.totalA = s.totalA + e.a
               /\ r.totalB = s.totalB + e.b
               /\ gained = 0 => r.end = s.end /\ r.periods = s.periods
               /\ gained # 0 =>
                    /\ r.end = e.time
                    /\ r.periods
                         = Append(s.periods, [length |-> e.time - s.end, amount |-> gained])
  <1> DEFINE Q == Seq([length : Int, amount : Int])
             a == s.totalA + e.a
             b == s.totalB + e.b
             g == Gained(s, e)
             x == [length |-> e.time - s.end, amount |-> g]
             ps == Append(s.periods, x)
             counted == [s EXCEPT !.totalA = a, !.totalB = b]
             end == e.time
             emitted == [counted EXCEPT !.end = end, !.periods = ps]
  <1>1. /\ s \in [start : Int, end : Int, periods : Q, totalA : Nat, totalB : Nat]
        /\ ConjunctState = [start : Int, end : Int, periods : Q, totalA : Nat, totalB : Nat]
        /\ e.time \in Int /\ e.a \in Nat /\ e.b \in Nat
        /\ s.totalA \in Nat /\ s.totalB \in Nat /\ s.end \in Int /\ s.periods \in Q
    BY DEF ConjunctState, Event
  <1>2. a \in Nat /\ b \in Nat /\ end \in Int
    BY <1>1
  <1>3. g \in Nat
    BY <1>1 DEF Gained, Min64
  <1>4. ConjunctEvent(s, e) = IF g = 0 THEN counted ELSE emitted
    <2>1. /\ counted.periods = s.periods /\ counted.end = s.end
      <3> HIDE DEF a, b, Q
      <3> QED BY <1>1
    <2>2. ConjunctEvent(s, e) = IF g = 0 THEN counted ELSE Emit(counted, e.time, g)
      BY DEF ConjunctEvent, Gained
    <2>3. Emit(counted, e.time, g) = emitted
      <3>1. Emit(counted, e.time, g)
              = [counted EXCEPT !.end = end,
                                !.periods = Append(counted.periods,
                                   [length |-> e.time - counted.end, amount |-> g])]
        BY DEF Emit
      <3> HIDE DEF counted
      <3> QED BY <2>1, <3>1
    <2> HIDE DEF counted, emitted
    <2> QED BY <2>2, <2>3
  <1>5. ps \in Q
    <2>1. x \in [length : Int, amount : Int]
      <3> HIDE DEF g
      <3> QED BY <1>1, <1>3
    <2> HIDE DEF x
    <2> QED BY <1>1, <2>1, AppendProperties
  <1> HIDE DEF Q, a, b, end, ps, g
  <1>6. /\ counted \in ConjunctState
        /\ counted.start = s.start /\ counted.end = s.end /\ counted.periods = s.periods
        /\ counted.totalA = a /\ counted.totalB = b
    BY <1>1, <1>2
  <1> HIDE DEF counted
  <1>7. /\ emitted \in ConjunctState
        /\ emitted.start = s.start /\ emitted.end = end /\ emitted.periods = ps
        /\ emitted.totalA = a /\ emitted.totalB = b
    BY <1>1, <1>2, <1>5, <1>6
  <1> HIDE DEF emitted
  <1> QED BY <1>3, <1>4, <1>6, <1>7 DEF a, b, end, ps, g

\* The states of the loop over the events.
LEMMA ConjunctUnfolded ==
    ASSUME NEW start \in Int, NEW es \in Seq(Event)
    PROVE  \E v : /\ v[0] = ConjunctStart(start)
                  /\ \A k \in 1..Len(es) :
                        v[k] = ConjunctEvent(v[k - 1], es[k])
                  /\ v[Len(es)] = ConjunctFold(start, es)
  <1> DEFINE n == Len(es)
             S == ConjunctState
             base == ConjunctStart(start)
             table == [k \in 1..n |-> [s \in S |-> ConjunctEvent(s, es[k])]]
  <1>1. n \in Nat /\ DOMAIN es = 1..n
    BY LenProperties
  <1>2. base \in S
    <2>1. <<>> \in Seq([length : Int, amount : Int]) /\ 0 \in Nat
      BY EmptySeq
    <2> QED BY <2>1 DEF ConjunctStart, ConjunctState
  <1>3. table \in [1..n -> [S -> S]]
    <2>1. ASSUME NEW k \in 1..n, NEW s \in S
          PROVE  ConjunctEvent(s, es[k]) \in S
      <3>1. es[k] \in Event
        BY ElementOfSeq
      <3> QED BY <3>1, ConjunctEventIs
    <2> QED BY <2>1
  <1> HIDE DEF n, S, base
  <1>4. \E g : ConjunctRec(g, start, es)
    <2> HIDE DEF table
    <2>1. PICK g \in [SUBSET (1..n) -> S] : FoldRec(g, base, table, n)
      BY <1>1, <1>2, <1>3, FoldRecExists
    <2>2. ASSUME NEW s \in SUBSET (1..n), s # {}
          PROVE  table[Max(s)][g[s \ {Max(s)}]]
                   = ConjunctEvent(g[s \ {Max(s)}], es[Max(s)])
      <3>1. Max(s) \in 1..n
        BY <1>1, <2>2, MaxOfIndices
      <3>2. g[s \ {Max(s)}] \in S
        BY <2>1
      <3> QED BY <3>1, <3>2 DEF table
    <2>3. ConjunctRec(g, start, es)
      BY <1>1, <2>1, <2>2 DEF ConjunctRec, FoldRec, base
    <2> QED BY <2>3
  <1> DEFINE c == CHOOSE g : ConjunctRec(g, start, es)
             v == [k \in 0..n |-> c[1..k]]
  <1>5. c = [s \in SUBSET (1..n) |->
               IF s = {} THEN base
               ELSE ConjunctEvent(c[s \ {Max(s)}], es[Max(s)])]
    <2>1. ConjunctRec(c, start, es)
      BY <1>4
    <2> QED BY <1>1, <2>1 DEF ConjunctRec, base
  <1>6. ConjunctFold(start, es) = c[1..n]
    BY <1>1, ConjunctIsRec
  <1> HIDE DEF c
  <1>7. c[1..0] = base
    <2>1. 1..0 = {}
      OBVIOUS
    <2> QED BY <1>5, <2>1
  <1>8. ASSUME NEW k \in 1..n
        PROVE  c[1..k] = ConjunctEvent(c[1..(k - 1)], es[k])
    <2> DEFINE s == 1..k
    <2>1. s \in SUBSET (1..n) /\ s # {} /\ Max(s) = k /\ s \ {k} = 1..(k - 1)
      BY <1>1, FirstIndices
    <2> HIDE DEF s
    <2>2. c[s] = ConjunctEvent(c[s \ {Max(s)}], es[Max(s)])
      BY <1>5, <2>1
    <2> QED BY <2>1, <2>2 DEF s
  <1>9. /\ v[0] = base
        /\ \A k \in 1..n : v[k] = ConjunctEvent(v[k - 1], es[k])
        /\ v[n] = ConjunctFold(start, es)
    <2>1. 0 \in 0..n /\ n \in 0..n
      BY <1>1
    <2>2. \A k \in 1..n : k \in 0..n /\ k - 1 \in 0..n
      BY <1>1
    <2> QED BY <1>6, <1>7, <1>8, <2>1, <2>2
  <1> HIDE DEF v
  <1> QED BY <1>9 DEF n, base

\* One more event is one more round.
LEMMA ConjunctFolded ==
    ASSUME NEW start \in Int, NEW es \in Seq(Event), NEW e \in Event
    PROVE  /\ ConjunctFold(start, <<>>) = ConjunctStart(start)
           /\ ConjunctFold(start, Append(es, e))
                = ConjunctEvent(ConjunctFold(start, es), e)
  <1>1. ConjunctFold(start, <<>>) = ConjunctStart(start)
    <2>1. <<>> \in Seq(Event) /\ Len(<<>>) = 0
      BY EmptySeq
    <2> QED BY <2>1, ConjunctUnfolded
  <1> DEFINE p == Append(es, e)
             n == Len(es)
  <1>2. /\ p \in Seq(Event) /\ Len(p) = n + 1 /\ n \in Nat
        /\ p[n + 1] = e /\ \A i \in 1..n : p[i] = es[i]
    BY AppendProperties, LenProperties
  <1> HIDE DEF p
  <1>3. PICK v : /\ v[0] = ConjunctStart(start)
                 /\ \A k \in 1..n : v[k] = ConjunctEvent(v[k - 1], es[k])
                 /\ v[n] = ConjunctFold(start, es)
    BY ConjunctUnfolded
  <1>4. PICK w : /\ w[0] = ConjunctStart(start)
                 /\ \A k \in 1..(n + 1) : w[k] = ConjunctEvent(w[k - 1], p[k])
                 /\ w[n + 1] = ConjunctFold(start, p)
    BY <1>2, ConjunctUnfolded
  <1> HIDE DEF n
  <1>5. n \in {k \in 0..n : v[k] = w[k]}
    <2> DEFINE I == {k \in 0..n : v[k] = w[k]}
    <2>1. 0 \in I
      BY <1>2, <1>3, <1>4
    <2>2. ASSUME NEW k \in 1..n, k - 1 \in I PROVE k \in I
      <3>1. k \in 1..(n + 1) /\ k \in 0..n /\ p[k] = es[k] /\ v[k - 1] = w[k - 1]
        BY <1>2, <2>2
      <3>2. /\ v[k] = ConjunctEvent(v[k - 1], es[k])
            /\ w[k] = ConjunctEvent(w[k - 1], p[k])
        BY <1>3, <1>4, <3>1
      <3> QED BY <3>1, <3>2
    <2> HIDE DEF I
    <2>3. n \in 0..n
      BY <1>2
    <2>4. n \in I
      BY <1>2, <2>1, <2>2, <2>3, BoundedInduction
    <2> QED BY <2>4 DEF I
  <1>6. w[n + 1] = ConjunctEvent(w[n], p[n + 1])
    <2>1. n + 1 \in 1..(n + 1) /\ (n + 1) - 1 = n
      BY <1>2
    <2> QED BY <1>4, <2>1
  <1> QED BY <1>1, <1>2, <1>3, <1>4, <1>5, <1>6 DEF p

\* What the loop has emitted: the minimum of the events so far.
Conjoined(i, j, s, start, A, B, startA, startB) ==
    /\ s \in ConjunctState
    /\ s.start = start
    /\ s.periods \in Seq(Period)
    /\ s.end = start + TotalLength(s.periods)
    /\ EndBound(i, j, s.end, start, A, B, startA, startB)
    /\ s.totalA = TotalAmount(SubSeq(A, 1, i))
    /\ s.totalB = TotalAmount(SubSeq(B, 1, j))
    /\ TotalAmount(s.periods) = Min64(s.totalA, s.totalB)
    /\ \A t \in Int : Due(start, s.periods, t)
         = Min64(Due(startA, SubSeq(A, 1, i), t), Due(startB, SubSeq(B, 1, j), t))

\* One more event.
LEMMA ConjoinedStep ==
    ASSUME NEW A, NEW B, NEW startA, NEW startB, NEW i, NEW i2, NEW j, NEW j2,
           NEW e \in Event,
           NEW start \in Int, start <= startA, start <= startB,
           SideStep(startA, A, i, i2, e.time, e.a),
           SideStep(startB, B, j, j2, e.time, e.b),
           i2 # i \/ j2 # j,
           NEW s, Conjoined(i, j, s, start, A, B, startA, startB)
    PROVE  Conjoined(i2, j2, ConjunctEvent(s, e), start, A, B, startA, startB)
  <1> DEFINE at == e.time
             q == s.periods
             s2 == ConjunctEvent(s, e)
             g == Gained(s, e)
             x == [length |-> at - s.end, amount |-> g]
             PA == TotalAmount(SubSeq(A, 1, i))
             PB == TotalAmount(SubSeq(B, 1, j))
             PA2 == TotalAmount(SubSeq(A, 1, i2))
             PB2 == TotalAmount(SubSeq(B, 1, j2))
             D(t) == Due(start, q, t)
             DA(t) == Due(startA, SubSeq(A, 1, i), t)
             DB(t) == Due(startB, SubSeq(B, 1, j), t)
             DA2(t) == Due(startA, SubSeq(A, 1, i2), t)
             DB2(t) == Due(startB, SubSeq(B, 1, j2), t)
  <1>0. startA \in Int /\ startB \in Int /\ at \in Int /\ e.a \in Nat /\ e.b \in Nat
    BY DEF SideStep
  <1>1. /\ s \in ConjunctState /\ s.start = start /\ q \in Seq(Period)
        /\ s.end = start + TotalLength(q)
        /\ EndBound(i, j, s.end, start, A, B, startA, startB)
        /\ s.totalA = PA /\ s.totalB = PB
        /\ TotalAmount(q) = Min64(PA, PB)
        /\ \A t \in Int : D(t) = Min64(DA(t), DB(t))
    <2> HIDE DEF DA, DB
    <2> QED BY DEF Conjoined, DA, DB
  <1>2. s.end \in Int /\ TotalLength(q) \in Nat /\ TotalAmount(q) \in Nat
    BY <1>1, TotalType, TotalsOfFields DEF Fields
  <1>3. /\ s.end <= at
        /\ EndBound(i2, j2, s.end, start, A, B, startA, startB)
        /\ EndBound(i2, j2, at, start, A, B, startA, startB)
    BY <1>1, <1>2, EndBounded
  <1>4. /\ s2 \in ConjunctState /\ g \in Nat /\ s2.start = start
        /\ s2.totalA = PA + e.a /\ s2.totalB = PB + e.b
        /\ g = 0 => s2.end = s.end /\ s2.periods = q
        /\ g # 0 => s2.end = at /\ s2.periods = Append(q, x)
    BY <1>1, ConjunctEventIs
  <1>5. PA \in Nat /\ PA2 = PA + e.a
    BY SideTotals
  <1>6. PB \in Nat /\ PB2 = PB + e.b
    BY SideTotals
  <1>7. \A t \in Int : /\ DA(t) \in Nat /\ DA2(t) = DA(t) + Share(at, e.a, t)
                       /\ at <= t => DA(t) = PA
    BY SideDues
  <1>8. \A t \in Int : /\ DB(t) \in Nat /\ DB2(t) = DB(t) + Share(at, e.b, t)
                       /\ at <= t => DB(t) = PB
    BY SideDues
  <1>9. g = Min64(PA2, PB2) - Min64(PA, PB)
    BY <1>1, <1>5, <1>6 DEF Gained
  <1>10. x \in Period /\ x.length = at - s.end /\ x.amount = g
    <2> HIDE DEF g
    <2> QED BY <1>0, <1>2, <1>3, <1>4 DEF Period
  <1> HIDE DEF q, s2, g, x, PA, PB, PA2, PB2, D, DA, DB, DA2, DB2
  <1>11. ASSUME NEW t \in Int
         PROVE  Min64(DA2(t), DB2(t)) = D(t) + Share(at, g, t)
    <2>1. /\ DA(t) \in Nat /\ DA2(t) = DA(t) + Share(at, e.a, t) /\ (at <= t => DA(t) = PA)
          /\ DB(t) \in Nat /\ DB2(t) = DB(t) + Share(at, e.b, t) /\ (at <= t => DB(t) = PB)
          /\ D(t) = Min64(DA(t), DB(t))
      BY <1>1, <1>7, <1>8
    <2>2. CASE at <= t
      <3>1. DA2(t) = PA2 /\ DB2(t) = PB2 /\ D(t) = Min64(PA, PB) /\ Share(at, g, t) = g
        BY <1>5, <1>6, <2>1, <2>2 DEF Share
      <3>2. Min64(PA, PB) \in Int /\ Min64(PA2, PB2) \in Int
        BY <1>0, <1>5, <1>6 DEF Min64
      <3> QED BY <1>9, <3>1, <3>2
    <2>3. CASE ~(at <= t)
      <3>1. Share(at, g, t) = 0 /\ Share(at, e.a, t) = 0 /\ Share(at, e.b, t) = 0
        BY <2>3 DEF Share
      <3>2. DA2(t) = DA(t) /\ DB2(t) = DB(t)
        BY <2>1, <3>1
      <3>3. D(t) \in Int
        BY <2>1 DEF Min64
      <3> QED BY <2>1, <3>1, <3>2, <3>3
    <2> QED BY <2>2, <2>3
  <1>12. Min64(PA2, PB2) = TotalAmount(q) + g
    <2>1. Min64(PA, PB) \in Int /\ Min64(PA2, PB2) \in Int
      BY <1>0, <1>5, <1>6 DEF Min64
    <2> QED BY <1>1, <1>9, <2>1
  <1>13. CASE g = 0
    <2>1. Min64(PA2, PB2) = TotalAmount(q)
      BY <1>2, <1>12, <1>13
    <2>2. ASSUME NEW t \in Int PROVE D(t) = Min64(DA2(t), DB2(t))
      <3>1. Share(at, g, t) = 0
        BY <1>13 DEF Share
      <3>2. D(t) \in Int
        BY <1>1, <1>7, <1>8 DEF Min64
      <3> QED BY <1>11, <3>1, <3>2
    <2>3. /\ s2.start = start /\ s2.periods = q /\ s2.end = s.end
          /\ s2.totalA = PA2 /\ s2.totalB = PB2
      BY <1>4, <1>5, <1>6, <1>13
    <2>4. \A t \in Int : Due(start, s2.periods, t) = Min64(DA2(t), DB2(t))
      BY <2>2, <2>3 DEF D
    <2>5. /\ s2.periods \in Seq(Period)
          /\ s2.end = start + TotalLength(s2.periods)
          /\ EndBound(i2, j2, s2.end, start, A, B, startA, startB)
          /\ TotalAmount(s2.periods) = Min64(s2.totalA, s2.totalB)
      BY <1>1, <1>3, <2>1, <2>3
    <2> QED BY <1>4, <2>3, <2>4, <2>5 DEF Conjoined, s2, PA2, PB2, DA2, DB2
  <1>14. CASE g # 0
    <2>1. /\ Append(q, x) \in Seq(Period)
          /\ TotalLength(Append(q, x)) = TotalLength(q) + x.length
          /\ TotalAmount(Append(q, x)) = TotalAmount(q) + x.amount
      BY <1>1, <1>10, AppendProperties, TotalAppended, TotalsOfFields DEF Fields
    <2>2. start + (TotalLength(q) + x.length) = at
      BY <1>0, <1>1, <1>2, <1>10
    <2>3. ASSUME NEW t \in Int PROVE Due(start, Append(q, x), t) = Min64(DA2(t), DB2(t))
      <3>1. Due(start, Append(q, x), t) = Due(start, q, t) + Share(at, g, t)
        BY <1>1, <1>10, <2>2, DueAppended
      <3> QED BY <1>11, <3>1 DEF D
    <2>4. /\ s2.start = start /\ s2.periods = Append(q, x) /\ s2.end = at
          /\ s2.totalA = PA2 /\ s2.totalB = PB2
      BY <1>4, <1>5, <1>6, <1>14
    <2>5. /\ s2.periods \in Seq(Period)
          /\ s2.end = start + TotalLength(s2.periods)
          /\ EndBound(i2, j2, s2.end, start, A, B, startA, startB)
          /\ TotalAmount(s2.periods) = Min64(s2.totalA, s2.totalB)
      BY <1>3, <1>10, <1>12, <2>1, <2>2, <2>4
    <2>6. \A t \in Int : Due(start, s2.periods, t) = Min64(DA2(t), DB2(t))
      BY <2>3, <2>4
    <2> QED BY <1>4, <2>4, <2>5, <2>6 DEF Conjoined, s2, PA2, PB2, DA2, DB2
  <1> QED BY <1>13, <1>14

\* The rounds of the loops, with the types of what they relate.
LEMMA WalkSideSteps ==
    ASSUME NEW A \in Seq(Period), NEW B \in Seq(Period),
           NEW startA \in Int, NEW startB \in Int, NEW v, Walk(v, A, B, startA, startB),
           NEW k \in 1..(Len(A) + Len(B))
    PROVE  \/ v[k] = v[k - 1]
           \/ \E e \in Event :
                 /\ v[k - 1].events \in Seq(Event)
                 /\ v[k].events = Append(v[k - 1].events, e)
                 /\ SideStep(startA, A, v[k - 1].idxA, v[k].idxA, e.time, e.a)
                 /\ SideStep(startB, B, v[k - 1].idxB, v[k].idxB, e.time, e.b)
                 /\ v[k].idxA # v[k - 1].idxA \/ v[k].idxB # v[k - 1].idxB
  <1> DEFINE m == v[k - 1]
             m2 == v[k]
  <1>1. m \in WalkState(A, B) /\ m2 \in WalkState(A, B)
    <2>1. Len(A) + Len(B) \in Nat
      BY LenProperties
    <2>2. k \in 0..(Len(A) + Len(B)) /\ k - 1 \in 0..(Len(A) + Len(B))
      BY <2>1
    <2> QED BY <2>2 DEF Walk
  <1>2. \/ m2 = m
        \/ \E e \in Event :
              /\ m2.events = Append(m.events, e)
              /\ Side(startA, A, m.idxA, m2.idxA, e.time, e.a)
              /\ Side(startB, B, m.idxB, m2.idxB, e.time, e.b)
              /\ m2.idxA # m.idxA \/ m2.idxB # m.idxB
    BY WalkSteps
  <1> HIDE DEF m, m2
  <1>3. /\ m.events \in Seq(Event)
        /\ m.idxA \in 0..Len(A) /\ m.idxB \in 0..Len(B)
        /\ m2.idxA \in 0..Len(A) /\ m2.idxB \in 0..Len(B)
    BY <1>1 DEF WalkState
  <1>4. CASE m2 = m
    BY <1>4 DEF m, m2
  <1>5. CASE \E e \in Event :
              /\ m2.events = Append(m.events, e)
              /\ Side(startA, A, m.idxA, m2.idxA, e.time, e.a)
              /\ Side(startB, B, m.idxB, m2.idxB, e.time, e.b)
              /\ m2.idxA # m.idxA \/ m2.idxB # m.idxB
    <2>1. PICK e \in Event :
              /\ m2.events = Append(m.events, e)
              /\ Side(startA, A, m.idxA, m2.idxA, e.time, e.a)
              /\ Side(startB, B, m.idxB, m2.idxB, e.time, e.b)
              /\ m2.idxA # m.idxA \/ m2.idxB # m.idxB
      BY <1>5
    <2>2. e.time \in Int /\ e.a \in Nat /\ e.b \in Nat
      BY DEF Event
    <2>3. /\ SideStep(startA, A, m.idxA, m2.idxA, e.time, e.a)
          /\ SideStep(startB, B, m.idxB, m2.idxB, e.time, e.b)
      BY <1>3, <2>1, <2>2 DEF SideStep
    <2>4. \E x \in Event :
             /\ m.events \in Seq(Event)
             /\ m2.events = Append(m.events, x)
             /\ SideStep(startA, A, m.idxA, m2.idxA, x.time, x.a)
             /\ SideStep(startB, B, m.idxB, m2.idxB, x.time, x.b)
             /\ m2.idxA # m.idxA \/ m2.idxB # m.idxB
      <3> WITNESS e \in Event
      <3> QED BY <1>3, <2>1, <2>3
    <2> QED BY <2>4 DEF m, m2
  <1> QED BY <1>2, <1>4, <1>5

(***************************************************************************)
(* DisjunctPeriods, for all schedules and starts: what it returns releases,*)
(* at any time, the sum of what both release, and ends with its last period.*)
(***************************************************************************)
THEOREM DisjunctAdds ==
    ASSUME NEW A \in Seq(Period), NEW B \in Seq(Period),
           NEW startA \in Int, NEW startB \in Int
    PROVE  LET s == DisjunctPeriods(startA, startB, A, B)
               start == Min64(startA, startB)
           IN  /\ s.start = start
               /\ s.periods \in Seq(Period)
               /\ s.end = start + TotalLength(s.periods)
               /\ TotalAmount(s.periods) = TotalAmount(A) + TotalAmount(B)
               /\ \A t \in Int : Due(start, s.periods, t) = Due(startA, A, t) + Due(startB, B, t)
  <1> DEFINE start == Min64(startA, startB)
             n == Len(A) + Len(B)
             Ok(m) == Disjoined(m.idxA, m.idxB, DisjunctFold(start, m.events), start, A, B, startA, startB)
             I(v) == {k \in 0..n : Ok(v[k])}
  <1>1. start \in Int /\ start <= startA /\ start <= startB
    BY DEF Min64
  <1>2. n \in Nat
    BY LenProperties
  <1>3. PICK v : Walk(v, A, B, startA, startB)
    BY EventsUnfolded
  <1>4. /\ v[0] = WalkStart(startA, startB)
        /\ v[n].idxA = Len(A) /\ v[n].idxB = Len(B)
        /\ v[n].events = Events(startA, startB, A, B)
    BY <1>3 DEF Walk
  <1>5. SubSeq(A, 1, 0) = <<>> /\ SubSeq(B, 1, 0) = <<>> /\ SubSeq(A, 1, Len(A)) = A /\ SubSeq(B, 1, Len(B)) = B
    BY Upto
  <1>6. Len(A) \in Nat /\ Len(B) \in Nat
    BY LenProperties
  <1> HIDE DEF start, n
  <1>7. Ok(v[0])
    <2> DEFINE s == DisjunctFold(start, <<>>)
    <2>1. v[0].idxA = 0 /\ v[0].idxB = 0 /\ v[0].events = <<>>
      BY <1>4 DEF WalkStart
    <2>2. s = DisjunctStart(start)
      <3>1. <<>> \in Seq(Event) /\ [time |-> 0, a |-> 0, b |-> 0] \in Event
        BY EmptySeq DEF Event
      <3> QED BY <1>1, <3>1, DisjunctFolded
    <2>3. <<>> \in Seq(Period) /\ <<>> \in Seq([length : Int, amount : Int])
      BY EmptySeq
    <2> HIDE DEF s
    <2>4. /\ s \in DisjunctState /\ s.start = start /\ s.end = start /\ s.periods = <<>>
      BY <1>1, <2>2, <2>3 DEF DisjunctStart, DisjunctState
    <2>5. TotalLength(<<>>) = 0 /\ TotalAmount(<<>>) = 0
      <3>1. [length |-> 0, amount |-> 0] \in Period
        BY DEF Period
      <3> QED BY <2>3, <3>1, TotalAppended, TotalsOfFields DEF Fields
    <2>6. ASSUME NEW t \in Int, NEW from \in Int PROVE Due(from, <<>>, t) = 0
      <3>1. [length |-> 0, amount |-> 0] \in Period
        BY DEF Period
      <3> QED BY <2>3, <3>1, DueAppended
    <2>7. EndBound(0, 0, s.end, start, A, B, startA, startB)
      BY <2>4 DEF EndBound
    <2>8. s.end = start + TotalLength(s.periods)
      BY <1>1, <2>4, <2>5
    <2>9. TotalAmount(s.periods) = TotalAmount(SubSeq(A, 1, 0)) + TotalAmount(SubSeq(B, 1, 0))
      <3>1. TotalAmount(SubSeq(A, 1, 0)) = 0 /\ TotalAmount(SubSeq(B, 1, 0)) = 0
        BY <1>5, <2>5
      <3>2. TotalAmount(s.periods) = 0
        BY <2>4, <2>5
      <3> QED BY <3>1, <3>2 DEF Min64
    <2>10. \A t \in Int : Due(start, s.periods, t)
             = Due(startA, SubSeq(A, 1, 0), t) + Due(startB, SubSeq(B, 1, 0), t)
      <3> TAKE t \in Int
      <3>1. Due(startA, SubSeq(A, 1, 0), t) = 0 /\ Due(startB, SubSeq(B, 1, 0), t) = 0
        BY <1>5, <2>6
      <3>2. Due(start, s.periods, t) = 0
        BY <1>1, <2>4, <2>6
      <3> QED BY <3>1, <3>2 DEF Min64
    <2>11. Disjoined(0, 0, s, start, A, B, startA, startB)
      BY <1>5, <2>3, <2>4, <2>5, <2>7, <2>8, <2>9, <2>10 DEF Disjoined
    <2> QED BY <2>1, <2>11 DEF s
  <1>8. ASSUME NEW k \in 1..n, Ok(v[k - 1]) PROVE Ok(v[k])
    <2> DEFINE m == v[k - 1]
               m2 == v[k]
    <2>1. CASE m2 = m
      BY <1>8, <2>1
    <2>2. CASE \E e \in Event :
                   /\ m.events \in Seq(Event)
                   /\ m2.events = Append(m.events, e)
                   /\ SideStep(startA, A, m.idxA, m2.idxA, e.time, e.a)
                   /\ SideStep(startB, B, m.idxB, m2.idxB, e.time, e.b)
                   /\ m2.idxA # m.idxA \/ m2.idxB # m.idxB
      <3>1. PICK e \in Event :
                   /\ m.events \in Seq(Event)
                   /\ m2.events = Append(m.events, e)
                   /\ SideStep(startA, A, m.idxA, m2.idxA, e.time, e.a)
                   /\ SideStep(startB, B, m.idxB, m2.idxB, e.time, e.b)
                   /\ m2.idxA # m.idxA \/ m2.idxB # m.idxB
        BY <2>2
      <3> DEFINE s == DisjunctFold(start, m.events)
      <3>2. DisjunctFold(start, m2.events) = Emit(s, e.time, e.a + e.b)
        BY <1>1, <3>1, DisjunctFolded
      <3>3. Disjoined(m.idxA, m.idxB, s, start, A, B, startA, startB)
        BY <1>8
      <3> HIDE DEF m, m2, s
      <3>4. Disjoined(m2.idxA, m2.idxB, Emit(s, e.time, e.a + e.b), start, A, B, startA, startB)
        BY <1>1, <3>1, <3>3, DisjoinedStep
      <3> QED BY <3>2, <3>4 DEF m2
    <2>3. \/ m2 = m
          \/ \E e \in Event :
                   /\ m.events \in Seq(Event)
                   /\ m2.events = Append(m.events, e)
                   /\ SideStep(startA, A, m.idxA, m2.idxA, e.time, e.a)
                   /\ SideStep(startB, B, m.idxB, m2.idxB, e.time, e.b)
                   /\ m2.idxA # m.idxA \/ m2.idxB # m.idxB
      <3>1. k \in 1..(Len(A) + Len(B))
        BY DEF n
      <3> HIDE DEF Ok
      <3> QED BY <1>3, <3>1, WalkSideSteps
    <2> QED BY <2>1, <2>2, <2>3
  <1> HIDE DEF Ok
  <1>9. n \in I(v)
    <2>1. 0 \in 0..n /\ n \in 0..n
      BY <1>2
    <2>2. 0 \in I(v)
      BY <1>7, <2>1
    <2>3. ASSUME NEW k \in 1..n, k - 1 \in I(v) PROVE k \in I(v)
      <3>1. k \in 0..n
        BY <1>2
      <3> QED BY <1>8, <2>3, <3>1
    <2> HIDE DEF I
    <2> QED BY <1>2, <2>1, <2>2, <2>3, BoundedInduction
  <1> DEFINE s == DisjunctPeriods(startA, startB, A, B)
  <1>10. s = DisjunctFold(start, Events(startA, startB, A, B))
    BY DEF DisjunctPeriods, DisjunctFold, DisjunctStart, start
  <1>11. Disjoined(Len(A), Len(B), s, start, A, B, startA, startB)
    BY <1>4, <1>9, <1>10 DEF Ok
  <1> HIDE DEF s
  <1>12. /\ s.start = start /\ s.periods \in Seq(Period)
         /\ s.end = start + TotalLength(s.periods)
         /\ TotalAmount(s.periods) = TotalAmount(A) + TotalAmount(B)
         /\ \A t \in Int : Due(start, s.periods, t) = Due(startA, A, t) + Due(startB, B, t)
    BY <1>5, <1>11 DEF Disjoined
  <1> QED BY <1>12 DEF s, start

(***************************************************************************)
(* ConjunctPeriods, for all schedules and starts: what it returns releases,*)
(* at any time, the smaller of what both release.                          *)
(***************************************************************************)
THEOREM ConjunctLeast ==
    ASSUME NEW A \in Seq(Period), NEW B \in Seq(Period),
           NEW startA \in Int, NEW startB \in Int
    PROVE  LET s == ConjunctPeriods(startA, startB, A, B)
               start == Min64(startA, startB)
           IN  /\ s.start = start
               /\ s.periods \in Seq(Period)
               /\ s.end = start + TotalLength(s.periods)
               /\ TotalAmount(s.periods) = Min64(TotalAmount(A), TotalAmount(B))
               /\ \A t \in Int : Due(start, s.periods, t) = Min64(Due(startA, A, t), Due(startB, B, t))
  <1> DEFINE start == Min64(startA, startB)
             n == Len(A) + Len(B)
             Ok(m) == Conjoined(m.idxA, m.idxB, ConjunctFold(start, m.events), start, A, B, startA, startB)
             I(v) == {k \in 0..n : Ok(v[k])}
  <1>1. start \in Int /\ start <= startA /\ start <= startB
    BY DEF Min64
  <1>2. n \in Nat
    BY LenProperties
  <1>3. PICK v : Walk(v, A, B, startA, startB)
    BY EventsUnfolded
  <1>4. /\ v[0] = WalkStart(startA, startB)
        /\ v[n].idxA = Len(A) /\ v[n].idxB = Len(B)
        /\ v[n].events = Events(startA, startB, A, B)
    BY <1>3 DEF Walk
  <1>5. SubSeq(A, 1, 0) = <<>> /\ SubSeq(B, 1, 0) = <<>> /\ SubSeq(A, 1, Len(A)) = A /\ SubSeq(B, 1, Len(B)) = B
    BY Upto
  <1>6. Len(A) \in Nat /\ Len(B) \in Nat
    BY LenProperties
  <1> HIDE DEF start, n
  <1>7. Ok(v[0])
    <2> DEFINE s == ConjunctFold(start, <<>>)
    <2>1. v[0].idxA = 0 /\ v[0].idxB = 0 /\ v[0].events = <<>>
      BY <1>4 DEF WalkStart
    <2>2. s = ConjunctStart(start)
      <3>1. <<>> \in Seq(Event) /\ [time |-> 0, a |-> 0, b |-> 0] \in Event
        BY EmptySeq DEF Event
      <3> QED BY <1>1, <3>1, ConjunctFolded
    <2>3. <<>> \in Seq(Period) /\ <<>> \in Seq([length : Int, amount : Int])
      BY EmptySeq
    <2> HIDE DEF s
    <2>4. /\ s \in ConjunctState /\ s.start = start /\ s.end = start /\ s.periods = <<>>
          /\ s.totalA = 0 /\ s.totalB = 0
      BY <1>1, <2>2, <2>3 DEF ConjunctStart, ConjunctState
    <2>5. TotalLength(<<>>) = 0 /\ TotalAmount(<<>>) = 0
      <3>1. [length |-> 0, amount |-> 0] \in Period
        BY DEF Period
      <3> QED BY <2>3, <3>1, TotalAppended, TotalsOfFields DEF Fields
    <2>6. ASSUME NEW t \in Int, NEW from \in Int PROVE Due(from, <<>>, t) = 0
      <3>1. [length |-> 0, amount |-> 0] \in Period
        BY DEF Period
      <3> QED BY <2>3, <3>1, DueAppended
    <2>7. EndBound(0, 0, s.end, start, A, B, startA, startB)
      BY <2>4 DEF EndBound
    <2>8. s.end = start + TotalLength(s.periods)
      BY <1>1, <2>4, <2>5
    <2>9. TotalAmount(s.periods) = Min64(TotalAmount(SubSeq(A, 1, 0)), TotalAmount(SubSeq(B, 1, 0)))
      <3>1. TotalAmount(SubSeq(A, 1, 0)) = 0 /\ TotalAmount(SubSeq(B, 1, 0)) = 0
        BY <1>5, <2>5
      <3>2. TotalAmount(s.periods) = 0
        BY <2>4, <2>5
      <3> QED BY <3>1, <3>2 DEF Min64
    <2>10. \A t \in Int : Due(start, s.periods, t)
             = Min64(Due(startA, SubSeq(A, 1, 0), t), Due(startB, SubSeq(B, 1, 0), t))
      <3> TAKE t \in Int
      <3>1. Due(startA, SubSeq(A, 1, 0), t) = 0 /\ Due(startB, SubSeq(B, 1, 0), t) = 0
        BY <1>5, <2>6
      <3>2. Due(start, s.periods, t) = 0
        BY <1>1, <2>4, <2>6
      <3> QED BY <3>1, <3>2 DEF Min64
    <2>11. Conjoined(0, 0, s, start, A, B, startA, startB)
      BY <1>5, <2>3, <2>4, <2>5, <2>7, <2>8, <2>9, <2>10 DEF Conjoined
    <2> QED BY <2>1, <2>11 DEF s
  <1>8. ASSUME NEW k \in 1..n, Ok(v[k - 1]) PROVE Ok(v[k])
    <2> DEFINE m == v[k - 1]
               m2 == v[k]
    <2>1. CASE m2 = m
      BY <1>8, <2>1
    <2>2. CASE \E e \in Event :
                   /\ m.events \in Seq(Event)
                   /\ m2.events = Append(m.events, e)
                   /\ SideStep(startA, A, m.idxA, m2.idxA, e.time, e.a)
                   /\ SideStep(startB, B, m.idxB, m2.idxB, e.time, e.b)
                   /\ m2.idxA # m.idxA \/ m2.idxB # m.idxB
      <3>1. PICK e \in Event :
                   /\ m.events \in Seq(Event)
                   /\ m2.events = Append(m.events, e)
                   /\ SideStep(startA, A, m.idxA, m2.idxA, e.time, e.a)
                   /\ SideStep(startB, B, m.idxB, m2.idxB, e.time, e.b)
                   /\ m2.idxA # m.idxA \/ m2.idxB # m.idxB
        BY <2>2
      <3> DEFINE s == ConjunctFold(start, m.events)
      <3>2. ConjunctFold(start, m2.events) = ConjunctEvent(s, e)
        BY <1>1, <3>1, ConjunctFolded
      <3>3. Conjoined(m.idxA, m.idxB, s, start, A, B, startA, startB)
        BY <1>8
      <3> HIDE DEF m, m2, s
      <3>4. Conjoined(m2.idxA, m2.idxB, ConjunctEvent(s, e), start, A, B, startA, startB)
        BY <1>1, <3>1, <3>3, ConjoinedStep
      <3> QED BY <3>2, <3>4 DEF m2
    <2>3. \/ m2 = m
          \/ \E e \in Event :
                   /\ m.events \in Seq(Event)
                   /\ m2.events = Append(m.events, e)
                   /\ SideStep(startA, A, m.idxA, m2.idxA, e.time, e.a)
                   /\ SideStep(startB, B, m.idxB, m2.idxB, e.time, e.b)
                   /\ m2.idxA # m.idxA \/ m2.idxB # m.idxB
      <3>1. k \in 1..(Len(A) + Len(B))
        BY DEF n
      <3> HIDE DEF Ok
      <3> QED BY <1>3, <3>1, WalkSideSteps
    <2> QED BY <2>1, <2>2, <2>3
  <1> HIDE DEF Ok
  <1>9. n \in I(v)
    <2>1. 0 \in 0..n /\ n \in 0..n
      BY <1>2
    <2>2. 0 \in I(v)
      BY <1>7, <2>1
    <2>3. ASSUME NEW k \in 1..n, k - 1 \in I(v) PROVE k \in I(v)
      <3>1. k \in 0..n
        BY <1>2
      <3> QED BY <1>8, <2>3, <3>1
    <2> HIDE DEF I
    <2> QED BY <1>2, <2>1, <2>2, <2>3, BoundedInduction
  <1> DEFINE s == ConjunctPeriods(startA, startB, A, B)
  <1>10. s = ConjunctFold(start, Events(startA, startB, A, B))
    BY DEF ConjunctPeriods, ConjunctFold, ConjunctStart, start
  <1>11. Conjoined(Len(A), Len(B), s, start, A, B, startA, startB)
    BY <1>4, <1>9, <1>10 DEF Ok
  <1> HIDE DEF s
  <1>12. /\ s.start = start /\ s.periods \in Seq(Period)
         /\ s.end = start + TotalLength(s.periods)
         /\ TotalAmount(s.periods) = Min64(TotalAmount(A), TotalAmount(B))
         /\ \A t \in Int : Due(start, s.periods, t) = Min64(Due(startA, A, t), Due(startB, B, t))
    BY <1>5, <1>11 DEF Conjoined
  <1> QED BY <1>12 DEF s, start

-----------------------------------------------------------------------------
(* Accounts.                                                               *)

\* What addGrant and CreateClawbackVestingAccount make.
ClawbackAccount ==
    [kind : {"clawback"}, funder : Funders, start : Int, end : Int,
     lockup : Seq(Period), vesting : Seq(Period), original : Nat,
     delegatedFree : Nat, delegatedVesting : Nat]

\* Both schedules run out by the end of the account, and release its coins.
SchedulesOK(va) ==
    /\ va.start + TotalLength(va.vesting) <= va.end
    /\ va.start + TotalLength(va.lockup) <= va.end
    /\ va.original = TotalAmount(va.vesting)
    /\ va.original = TotalAmount(va.lockup)

VestingAccountOK(va) == va \in ClawbackAccount /\ SchedulesOK(va)

\* What the views of such an account say.
LEMMA Views ==
    ASSUME NEW va, VestingAccountOK(va), NEW t \in Int
    PROVE  /\ GetVestedCoins(va, t) = IF t <= va.start THEN 0 ELSE Due(va.start, va.vesting, t)
           /\ GetUnlockedCoins(va, t) = IF t <= va.start THEN 0 ELSE Due(va.start, va.lockup, t)
           /\ GetVestedCoins(va, t) \in Nat /\ GetUnlockedCoins(va, t) \in Nat
           /\ va.original \in Nat
           /\ GetVestedCoins(va, t) <= va.original
           /\ GetUnlockedCoins(va, t) <= va.original
  <1> DEFINE A == va.vesting
             B == va.lockup
  <1>1. /\ va.start \in Int /\ va.end \in Int /\ A \in Seq(Period) /\ B \in Seq(Period)
        /\ va.original \in Nat
        /\ va.start + TotalLength(A) <= va.end /\ va.original = TotalAmount(A)
        /\ va.start + TotalLength(B) <= va.end /\ va.original = TotalAmount(B)
    BY DEF VestingAccountOK, ClawbackAccount, SchedulesOK
  <1>2. GetVestedCoins(va, t) = IF t <= va.start THEN 0 ELSE Due(va.start, A, t)
    <2>1. GetVestedCoins(va, t) = ReadSchedule(va.start, va.end, A, TotalAmount(A), t)
      BY <1>1 DEF GetVestedCoins
    <2> HIDE DEF A, B
    <2> QED BY <1>1, <2>1, ReadIsDue
  <1>3. GetUnlockedCoins(va, t) = IF t <= va.start THEN 0 ELSE Due(va.start, B, t)
    <2>1. GetUnlockedCoins(va, t) = ReadSchedule(va.start, va.end, B, TotalAmount(B), t)
      BY <1>1 DEF GetUnlockedCoins
    <2> HIDE DEF A, B
    <2> QED BY <1>1, <2>1, ReadIsDue
  <1>4. /\ Due(va.start, A, t) \in Nat /\ Due(va.start, A, t) <= va.original
        /\ Due(va.start, B, t) \in Nat /\ Due(va.start, B, t) <= va.original
    BY <1>1, DueBounds, ZenonT(60)
  <1> HIDE DEF A, B
  <1> QED BY <1>1, <1>2, <1>3, <1>4 DEF A, B

\* Time vests and unlocks, and takes nothing back.
LEMMA ViewsGrow ==
    ASSUME NEW va, VestingAccountOK(va), NEW t \in Int, NEW u \in Int, t <= u
    PROVE  /\ GetVestedCoins(va, t) <= GetVestedCoins(va, u)
           /\ GetUnlockedCoins(va, t) <= GetUnlockedCoins(va, u)
  <1> DEFINE A == va.vesting
             B == va.lockup
  <1>1. va.start \in Int /\ A \in Seq(Period) /\ B \in Seq(Period)
    BY DEF VestingAccountOK, ClawbackAccount
  <1>2. /\ Due(va.start, A, t) <= Due(va.start, A, u)
        /\ Due(va.start, B, t) <= Due(va.start, B, u)
    BY <1>1, DueGrows
  <1>3. /\ GetVestedCoins(va, t) = IF t <= va.start THEN 0 ELSE Due(va.start, A, t)
        /\ GetUnlockedCoins(va, t) = IF t <= va.start THEN 0 ELSE Due(va.start, B, t)
        /\ GetVestedCoins(va, u) = IF u <= va.start THEN 0 ELSE Due(va.start, A, u)
        /\ GetUnlockedCoins(va, u) = IF u <= va.start THEN 0 ELSE Due(va.start, B, u)
        /\ GetVestedCoins(va, u) \in Nat /\ GetUnlockedCoins(va, u) \in Nat
    BY Views
  <1> HIDE DEF A, B
  <1> QED BY <1>1, <1>2, <1>3

\* What a schedule without periods, or with a period that takes effect at once,
\* says.
LEMMA SmallSchedules ==
    ASSUME NEW start \in Int, NEW amount \in Nat
    PROVE  /\ <<>> \in Seq(Period)
           /\ TotalLength(<<>>) = 0 /\ TotalAmount(<<>>) = 0
           /\ \A t \in Int : Due(start, <<>>, t) = 0
           /\ <<[length |-> 0, amount |-> amount]>> \in Seq(Period)
           /\ TotalLength(<<[length |-> 0, amount |-> amount]>>) = 0
           /\ TotalAmount(<<[length |-> 0, amount |-> amount]>>) = amount
           /\ \A t \in Int : Due(start, <<[length |-> 0, amount |-> amount]>>, t)
                               = IF start <= t THEN amount ELSE 0
  <1> DEFINE e == [length |-> 0, amount |-> amount]
  <1>1. e \in Period /\ e.length = 0 /\ e.amount = amount
    BY DEF Period
  <1>2. <<e>> = Append(<<>>, e)
    OBVIOUS
  <1> HIDE DEF e
  <1>3. <<>> \in Seq(Period)
    BY EmptySeq
  <1>4. Append(<<>>, e) \in Seq(Period)
    BY <1>1, <1>3, AppendProperties
  <1>5. /\ TotalLength(<<>>) = 0 /\ TotalAmount(<<>>) = 0
        /\ TotalLength(Append(<<>>, e)) = 0 + 0
        /\ TotalAmount(Append(<<>>, e)) = 0 + amount
    BY <1>1, <1>3, TotalAppended, TotalsOfFields DEF Fields
  <1>6. ASSUME NEW t \in Int
        PROVE  /\ Due(start, <<>>, t) = 0
               /\ Due(start, Append(<<>>, e), t) = IF start <= t THEN amount ELSE 0
    <2>1. /\ Due(start, <<>>, t) = 0
          /\ Due(start, Append(<<>>, e), t)
               = Due(start, <<>>, t) + Share(start + (TotalLength(<<>>) + e.length), e.amount, t)
      BY <1>1, <1>3, DueAppended
    <2> QED BY <1>1, <1>5, <2>1 DEF Share
  <1> QED BY <1>2, <1>3, <1>4, <1>5, <1>6 DEF e

\* The schedules of a grant release the same coins (ValidateBasic).
LEMMA GrantSchedules ==
    ASSUME NEW g \in Grants
    PROVE  /\ g.start \in Int
           /\ OrInstant(g.vesting, g.lockup) \in Seq(Period)
           /\ OrInstant(g.lockup, g.vesting) \in Seq(Period)
           /\ TotalAmount(OrInstant(g.vesting, g.lockup)) \in Nat
           /\ TotalAmount(OrInstant(g.lockup, g.vesting))
                = TotalAmount(OrInstant(g.vesting, g.lockup))
  <1> DEFINE A == g.vesting
             B == g.lockup
  <1>1. /\ g.start \in Int /\ A \in Seq(Period) /\ B \in Seq(Period)
        /\ A # <<>> /\ B # <<>> => TotalAmount(B) = TotalAmount(A)
    BY GrantsAssumption
  <1>2. TotalAmount(A) \in Nat /\ TotalAmount(B) \in Nat
    BY <1>1, DueBounds
  <1> HIDE DEF A, B
  <1>3. /\ OrInstant(A, B) \in Seq(Period)
        /\ TotalAmount(OrInstant(A, B)) = IF A = <<>> THEN TotalAmount(B) ELSE TotalAmount(A)
    BY <1>1, <1>2, SmallSchedules DEF OrInstant
  <1>4. /\ OrInstant(B, A) \in Seq(Period)
        /\ TotalAmount(OrInstant(B, A)) = IF B = <<>> THEN TotalAmount(A) ELSE TotalAmount(B)
    BY <1>1, <1>2, SmallSchedules DEF OrInstant
  <1> QED BY <1>1, <1>2, <1>3, <1>4 DEF A, B

\* Merging a grant keeps the schedules right, and they release what they did
\* and what the grant releases besides.
LEMMA GrantMerged ==
    ASSUME NEW va, VestingAccountOK(va), NEW g \in Grants, NEW delegated \in Nat, NEW t \in Int
    PROVE  LET new == AddGrant(va, g, delegated, t)
               amount == TotalAmount(OrInstant(g.vesting, g.lockup))
           IN  /\ VestingAccountOK(new)
               /\ new.original = va.original + amount
               /\ new.delegatedFree <= delegated
               /\ \A u \in Int :
                     /\ Due(new.start, new.vesting, u)
                          = Due(va.start, va.vesting, u)
                              + Due(g.start, OrInstant(g.vesting, g.lockup), u)
                     /\ Due(new.start, new.lockup, u)
                          = Due(va.start, va.lockup, u)
                              + Due(g.start, OrInstant(g.lockup, g.vesting), u)
               /\ \A u \in Int :
                     /\ GetVestedCoins(va, u) <= GetVestedCoins(new, u)
                     /\ GetUnlockedCoins(va, u) <= GetUnlockedCoins(new, u)
  <1> DEFINE A == va.vesting
             B == va.lockup
             C == OrInstant(g.vesting, g.lockup)
             D == OrInstant(g.lockup, g.vesting)
             start == IF B = <<>> /\ A = <<>> THEN g.start ELSE va.start
             V == DisjunctPeriods(start, g.start, A, C)
             L == DisjunctPeriods(start, g.start, B, D)
             end == Max64(L.end, V.end)
             original == va.original + TotalAmount(C)
             merged == [va EXCEPT !.start = L.start, !.end = end, !.lockup = L.periods,
                                  !.vesting = V.periods, !.original = original]
             dv == Min64(delegated, GetVestingCoins(merged, t))
             df == delegated - dv
             new == [merged EXCEPT !.delegatedVesting = dv, !.delegatedFree = df]
  <1>1. AddGrant(va, g, delegated, t) = new
    <2>1. merged = [va EXCEPT !.start = L.start, !.end = end, !.lockup = L.periods,
                              !.vesting = V.periods, !.original = @ + TotalAmount(C)]
      <3> HIDE DEF A, B, C, D, start, V, L, end
      <3> QED OBVIOUS
    <2>2. AddGrant(va, g, delegated, t)
            = LET m == [va EXCEPT !.start = L.start, !.end = end, !.lockup = L.periods,
                              !.vesting = V.periods, !.original = @ + TotalAmount(C)]
                  d == Min64(delegated, GetVestingCoins(m, t))
              IN  [m EXCEPT !.delegatedVesting = d, !.delegatedFree = delegated - d]
      BY DEF AddGrant
    <2> HIDE DEF merged, A, B, C, D, start, V, L, end
    <2> QED BY <2>1, <2>2
  <1>2. /\ g.start \in Int /\ C \in Seq(Period) /\ D \in Seq(Period)
        /\ TotalAmount(C) \in Nat /\ TotalAmount(D) = TotalAmount(C)
    BY GrantSchedules
  <1>3. /\ va \in ClawbackAccount
        /\ va.start \in Int /\ va.end \in Int /\ A \in Seq(Period) /\ B \in Seq(Period)
        /\ va.original \in Nat /\ va.original = TotalAmount(A) /\ va.original = TotalAmount(B)
    BY DEF VestingAccountOK, ClawbackAccount, SchedulesOK
  <1> HIDE DEF A, B, C, D
  <1>4. /\ start \in Int
        /\ A # <<>> \/ B # <<>> => start = va.start
        /\ A = <<>> /\ B = <<>> => start = g.start
    BY <1>2, <1>3
  <1> HIDE DEF start
  <1> DEFINE low == Min64(start, g.start)
  <1>5. low \in Int /\ low <= start /\ low <= g.start
    BY <1>2, <1>4 DEF Min64
  <1>6. /\ V.start = low /\ V.periods \in Seq(Period) /\ V.end = low + TotalLength(V.periods)
        /\ TotalAmount(V.periods) = TotalAmount(A) + TotalAmount(C)
        /\ \A u \in Int : Due(low, V.periods, u) = Due(start, A, u) + Due(g.start, C, u)
    <2>1. start \in Int /\ g.start \in Int /\ A \in Seq(Period) /\ C \in Seq(Period)
      BY <1>2, <1>3, <1>4
    <2> QED BY <2>1, DisjunctAdds
  <1>7. /\ L.start = low /\ L.periods \in Seq(Period) /\ L.end = low + TotalLength(L.periods)
        /\ TotalAmount(L.periods) = TotalAmount(B) + TotalAmount(D)
        /\ \A u \in Int : Due(low, L.periods, u) = Due(start, B, u) + Due(g.start, D, u)
    <2>1. start \in Int /\ g.start \in Int /\ B \in Seq(Period) /\ D \in Seq(Period)
      BY <1>2, <1>3, <1>4
    <2> QED BY <2>1, DisjunctAdds
  <1> HIDE DEF V, L, low
  <1>8. TotalLength(V.periods) \in Nat /\ TotalLength(L.periods) \in Nat
    BY <1>6, <1>7, TotalType, TotalsOfFields DEF Fields
  <1>9. end \in Int /\ L.end <= end /\ V.end <= end /\ original \in Nat
    <2>1. low \in Int /\ TotalLength(V.periods) \in Int /\ TotalLength(L.periods) \in Int
      BY <1>5, <1>8
    <2>2. L.end \in Int /\ V.end \in Int
      BY <1>6, <1>7, <2>1
    <2>3. end \in Int /\ L.end <= end /\ V.end <= end
      BY <2>2 DEF Max64
    <2>4. original \in Nat
      BY <1>2, <1>3
    <2> QED BY <2>3, <2>4
  <1> DEFINE ls == L.start
             lp == L.periods
             vp == V.periods
  <1>10. /\ merged \in ClawbackAccount
         /\ merged.start = low /\ merged.end = end /\ merged.lockup = lp
         /\ merged.vesting = vp /\ merged.original = original
    <2>1. ls \in Int /\ lp \in Seq(Period) /\ vp \in Seq(Period) /\ ls = low
      BY <1>5, <1>6, <1>7
    <2> DEFINE P == Seq(Period)
    <2>2. /\ ClawbackAccount = [kind : {"clawback"}, funder : Funders, start : Int, end : Int,
                                lockup : P, vesting : P, original : Nat,
                                delegatedFree : Nat, delegatedVesting : Nat]
          /\ lp \in P /\ vp \in P
      BY <2>1 DEF ClawbackAccount
    <2> HIDE DEF ls, lp, vp, end, original, P
    <2>3. merged = [va EXCEPT !.start = ls, !.end = end, !.lockup = lp,
                              !.vesting = vp, !.original = original]
      BY DEF ls, lp, vp
    <2> HIDE DEF merged
    <2> QED BY <1>3, <1>9, <2>1, <2>2, <2>3
  <1> HIDE DEF merged, end, original
  <1>11. VestingAccountOK(merged)
    <2>1. /\ merged.start + TotalLength(merged.vesting) <= merged.end
          /\ merged.start + TotalLength(merged.lockup) <= merged.end
      BY <1>6, <1>7, <1>9, <1>10
    <2>2. /\ merged.original = TotalAmount(merged.vesting)
          /\ merged.original = TotalAmount(merged.lockup)
      BY <1>2, <1>3, <1>6, <1>7, <1>10 DEF original
    <2> QED BY <1>10, <2>1, <2>2 DEF VestingAccountOK, SchedulesOK
  <1>12. dv \in Nat /\ df \in Nat /\ df <= delegated
    <2>1. GetVestingCoins(merged, t) \in Nat
      <3>1. /\ GetVestedCoins(merged, t) \in Nat /\ merged.original \in Nat
            /\ GetVestedCoins(merged, t) <= merged.original
        BY <1>11, Views
      <3> QED BY <3>1 DEF GetVestingCoins
    <2> HIDE DEF merged
    <2> QED BY <2>1 DEF Min64
  <1> HIDE DEF dv, df
  <1>13. /\ new \in ClawbackAccount
         /\ new.start = merged.start /\ new.end = merged.end /\ new.lockup = merged.lockup
         /\ new.vesting = merged.vesting /\ new.original = merged.original
         /\ new.delegatedFree = df
    <2> DEFINE P == Seq(Period)
    <2>1. ClawbackAccount = [kind : {"clawback"}, funder : Funders, start : Int, end : Int,
                             lockup : P, vesting : P, original : Nat,
                             delegatedFree : Nat, delegatedVesting : Nat]
      BY DEF ClawbackAccount
    <2> HIDE DEF P
    <2> QED BY <1>10, <1>12, <2>1
  <1> HIDE DEF new
  <1>14. VestingAccountOK(new)
    BY <1>11, <1>13 DEF VestingAccountOK, SchedulesOK
  <1>15. ASSUME NEW u \in Int
         PROVE  /\ Due(new.start, new.vesting, u) = Due(va.start, A, u) + Due(g.start, C, u)
                /\ Due(new.start, new.lockup, u) = Due(va.start, B, u) + Due(g.start, D, u)
    <2>1. Due(start, A, u) = Due(va.start, A, u) /\ Due(start, B, u) = Due(va.start, B, u)
      <3>1. CASE A = <<>> /\ B = <<>>
        <4>1. 0 \in Nat
          OBVIOUS
        <4>2. Due(start, <<>>, u) = 0 /\ Due(va.start, <<>>, u) = 0
          BY <1>3, <1>4, <4>1, SmallSchedules
        <4> QED BY <3>1, <4>2
      <3>2. CASE A # <<>> \/ B # <<>>
        BY <1>4, <3>2
      <3> QED BY <3>1, <3>2
    <2> QED BY <1>6, <1>7, <1>10, <1>13, <2>1
  <1>16. ASSUME NEW u \in Int
         PROVE  /\ GetVestedCoins(va, u) <= GetVestedCoins(new, u)
                /\ GetUnlockedCoins(va, u) <= GetUnlockedCoins(new, u)
    <2>1. /\ GetVestedCoins(va, u) = IF u <= va.start THEN 0 ELSE Due(va.start, A, u)
          /\ GetUnlockedCoins(va, u) = IF u <= va.start THEN 0 ELSE Due(va.start, B, u)
      BY Views DEF A, B
    <2>2. /\ GetVestedCoins(new, u) = IF u <= new.start THEN 0 ELSE Due(new.start, new.vesting, u)
          /\ GetUnlockedCoins(new, u) = IF u <= new.start THEN 0 ELSE Due(new.start, new.lockup, u)
          /\ GetVestedCoins(new, u) \in Nat /\ GetUnlockedCoins(new, u) \in Nat
      BY <1>14, Views
    <2>3. /\ Due(g.start, C, u) \in Nat /\ Due(g.start, D, u) \in Nat
          /\ Due(va.start, A, u) \in Nat /\ Due(va.start, B, u) \in Nat
      BY <1>2, <1>3, DueBounds
    <2>4. CASE u <= va.start
      BY <2>1, <2>2, <2>4
    <2>5. CASE ~(u <= va.start) /\ A = <<>> /\ B = <<>>
      <3>1. Due(va.start, <<>>, u) = 0
        <4>1. 0 \in Nat
          OBVIOUS
        <4> QED BY <1>3, <4>1, SmallSchedules
      <3>2. GetVestedCoins(va, u) = 0 /\ GetUnlockedCoins(va, u) = 0
        BY <2>1, <2>5, <3>1
      <3> QED BY <2>2, <3>2
    <2>6. CASE ~(u <= va.start) /\ (A # <<>> \/ B # <<>>)
      <3>1. new.start = low /\ low <= va.start
        BY <1>4, <1>5, <1>10, <1>13, <2>6
      <3>2. ~(u <= new.start)
        BY <1>3, <1>5, <2>6, <3>1
      <3> QED BY <1>15, <2>1, <2>2, <2>3, <2>6, <3>2
    <2> QED BY <2>4, <2>5, <2>6
  <1>17. new.original = va.original + TotalAmount(C) /\ new.delegatedFree <= delegated
    BY <1>10, <1>12, <1>13 DEF original
  <1> QED BY <1>1, <1>14, <1>15, <1>16, <1>17 DEF A, B, C, D

\* The events that have passed by t: what they release is what has vested.
LEMMA PastPeriods ==
    ASSUME NEW p \in Seq(Period), NEW start \in Int, NEW end \in Int, NEW t \in Int,
           start + TotalLength(p) <= end
    PROVE  LET c == ReadPastPeriodCount(start, end, p, t)
               q == SubSeq(p, 1, c)
           IN  /\ q \in Seq(Period)
               /\ TotalAmount(q) = ReadSchedule(start, end, p, TotalAmount(p), t)
               /\ q = <<>> \/ start + TotalLength(q) <= t
  <1> DEFINE q(c) == SubSeq(p, 1, c)
             n == Len(p)
  <1>1. /\ n \in Nat /\ q(0) = <<>> /\ q(n) = p
        /\ \A k \in 0..n : q(k) \in Seq(Period)
    BY Upto
  <1>2. 0 \in Nat
    OBVIOUS
  <1>3. TotalAmount(<<>>) = 0
    BY <1>2, SmallSchedules
  <1>4. CASE t <= start
    <2>1. ReadPastPeriodCount(start, end, p, t) = 0
          /\ ReadSchedule(start, end, p, TotalAmount(p), t) = 0
      BY <1>4 DEF ReadPastPeriodCount, ReadSchedule
    <2>2. 0 \in 0..n
      BY <1>1
    <2> QED BY <1>1, <1>3, <2>1, <2>2
  <1>5. CASE ~(t <= start) /\ t >= end
    <2>1. ReadPastPeriodCount(start, end, p, t) = n
          /\ ReadSchedule(start, end, p, TotalAmount(p), t) = TotalAmount(p)
      BY <1>5 DEF ReadPastPeriodCount, ReadSchedule
    <2>2. n \in 0..n
      BY <1>1
    <2>3. TotalLength(p) \in Nat
      BY DueBounds
    <2>4. start + TotalLength(p) <= t
      BY <1>5, <2>3
    <2> QED BY <1>1, <2>1, <2>2, <2>4
  <1>6. CASE ~(t <= start) /\ ~(t >= end)
    <2> DEFINE S == {i \in DOMAIN p : EventTime(start, p, i) <= t}
    <2>1. DOMAIN p = 1..n
      BY LenProperties
    <2>2. PICK c \in 0..n :
               /\ \A i \in 1..n : EventTime(start, p, i) <= t <=> i <= c
               /\ Due(start, p, t) = TotalAmount(q(c))
      BY Passed
    <2>3. S = 1..c
      BY <1>1, <2>1, <2>2
    <2>4. Cardinality(S) = c
      <3>1. c \in Nat /\ c \in Int /\ 1 \in Int
        BY <1>1
      <3>2. Cardinality(1..c) = IF 1 > c THEN 0 ELSE c - 1 + 1
        BY <3>1, FS_Interval
      <3> HIDE DEF S
      <3> QED BY <2>3, <3>1, <3>2
    <2>5. ReadPastPeriodCount(start, end, p, t) = c
      BY <1>6, <2>4 DEF ReadPastPeriodCount
    <2>6. ReadSchedule(start, end, p, TotalAmount(p), t) = TotalAmount(q(c))
      BY <1>6, <2>5 DEF ReadSchedule
    <2>7. q(c) = <<>> \/ start + TotalLength(q(c)) <= t
      <3>1. CASE c = 0
        BY <1>1, <3>1
      <3>2. CASE c # 0
        <4>1. c \in 1..n /\ c <= c
          BY <1>1, <3>2
        <4>2. EventTime(start, p, c) <= t
          BY <2>2, <4>1
        <4> QED BY <4>2 DEF EventTime
      <3> QED BY <3>1, <3>2
    <2> QED BY <1>1, <2>5, <2>6, <2>7
  <1> QED BY <1>4, <1>5, <1>6

(***************************************************************************)
(* ComputeClawback, for all accounts and times: the account that is left   *)
(* vests what had vested by then and no more, and unlocks it as late as    *)
(* before.                                                                 *)
(***************************************************************************)
THEOREM ClawbackKeeps ==
    ASSUME NEW va, VestingAccountOK(va), NEW t \in Int
    PROVE  LET after == ComputeClawback(va, t).account
           IN  \A u \in Int : t <= u =>
                  /\ GetVestedCoins(after, u) = GetVestedCoins(va, t)
                  /\ GetUnlockedCoins(after, u)
                       = Min64(GetUnlockedCoins(va, u), GetVestedCoins(va, t))
  <1> DEFINE A == va.vesting
             B == va.lockup
             start == va.start
             vested == GetVestedCoins(va, t)
             c == ReadPastPeriodCount(start, va.end, A, t)
             q == SubSeq(A, 1, c)
             cap == <<[length |-> 0, amount |-> vested]>>
             L == ConjunctPeriods(start, start, B, cap)
             end == Max64(start + TotalLength(q), L.end)
             lp == L.periods
             after == [va EXCEPT !.original = vested, !.end = end, !.lockup = lp, !.vesting = q]
  <1>1. ComputeClawback(va, t).account = after
    BY DEF ComputeClawback
  <1>2. /\ va \in ClawbackAccount
        /\ start \in Int /\ va.end \in Int /\ A \in Seq(Period) /\ B \in Seq(Period)
        /\ va.original \in Nat
        /\ start + TotalLength(A) <= va.end /\ va.original = TotalAmount(A)
        /\ va.original = TotalAmount(B)
    BY DEF VestingAccountOK, ClawbackAccount, SchedulesOK
  <1>3. vested \in Nat /\ vested <= va.original
        /\ vested = IF t <= start THEN 0 ELSE Due(start, A, t)
    BY Views
  <1>4. vested = ReadSchedule(start, va.end, A, TotalAmount(A), t)
    BY <1>2 DEF GetVestedCoins
  <1>5. \A u \in Int : GetUnlockedCoins(va, u) = IF u <= start THEN 0 ELSE Due(start, B, u)
    BY Views
  <1> HIDE DEF A, B, start, vested
  <1>6. q \in Seq(Period) /\ TotalAmount(q) = vested /\ (q = <<>> \/ start + TotalLength(q) <= t)
    BY <1>2, <1>4, PastPeriods
  <1> HIDE DEF c, q
  <1>7. /\ cap \in Seq(Period) /\ TotalAmount(cap) = vested
        /\ \A u \in Int : Due(start, cap, u) = IF start <= u THEN vested ELSE 0
    <2>1. start \in Int /\ vested \in Nat
      BY <1>2, <1>3
    <2>2. cap \in Seq(Period) /\ TotalAmount(cap) = vested
      BY <2>1, SmallSchedules
    <2>3. \A u \in Int : Due(start, cap, u) = IF start <= u THEN vested ELSE 0
      BY <2>1, SmallSchedules
    <2> QED BY <2>2, <2>3
  <1> HIDE DEF cap
  <1>8. /\ Min64(start, start) = start
        /\ L.periods \in Seq(Period)
        /\ L.end = start + TotalLength(L.periods)
        /\ TotalAmount(L.periods) = Min64(TotalAmount(B), TotalAmount(cap))
        /\ \A u \in Int : Due(start, L.periods, u) = Min64(Due(start, B, u), Due(start, cap, u))
    <2>1. Min64(start, start) = start
      BY DEF Min64
    <2> QED BY <1>2, <1>7, <2>1, ConjunctLeast
  <1> HIDE DEF L
  <1>9. TotalLength(q) \in Nat /\ TotalLength(lp) \in Nat /\ TotalAmount(lp) = vested
    <2>1. TotalLength(q) \in Nat /\ TotalLength(lp) \in Nat
      BY <1>6, <1>8, TotalType, TotalsOfFields DEF Fields
    <2>2. TotalAmount(lp) = Min64(va.original, vested)
      BY <1>2, <1>7, <1>8
    <2>3. Min64(va.original, vested) = vested
      BY <1>2, <1>3 DEF Min64
    <2> QED BY <2>1, <2>2, <2>3
  <1>10. /\ end \in Int /\ start + TotalLength(q) <= end /\ start + TotalLength(lp) <= end
    BY <1>2, <1>8, <1>9 DEF Max64
  <1>11. lp \in Seq(Period)
    BY <1>8
  <1>12. \A u \in Int : Due(start, lp, u) = Min64(Due(start, B, u), Due(start, cap, u))
    BY <1>8
  <1> HIDE DEF lp, end
  <1>13. /\ after \in ClawbackAccount
         /\ after.start = start /\ after.end = end /\ after.lockup = lp
         /\ after.vesting = q /\ after.original = vested
    <2> DEFINE P == Seq(Period)
    <2>1. /\ ClawbackAccount = [kind : {"clawback"}, funder : Funders, start : Int, end : Int,
                                lockup : P, vesting : P, original : Nat,
                                delegatedFree : Nat, delegatedVesting : Nat]
          /\ lp \in P /\ q \in P
      BY <1>6, <1>11 DEF ClawbackAccount
    <2> HIDE DEF P
    <2> QED BY <1>2, <1>3, <1>10, <2>1 DEF start
  <1> HIDE DEF after
  <1>14. VestingAccountOK(after)
    BY <1>6, <1>9, <1>10, <1>13 DEF VestingAccountOK, SchedulesOK
  <1>15. ASSUME NEW u \in Int, t <= u
         PROVE  /\ GetVestedCoins(after, u) = vested
                /\ GetUnlockedCoins(after, u) = Min64(GetUnlockedCoins(va, u), vested)
    <2>1. /\ GetVestedCoins(after, u) = IF u <= start THEN 0 ELSE Due(start, q, u)
          /\ GetUnlockedCoins(after, u) = IF u <= start THEN 0 ELSE Due(start, lp, u)
      BY <1>13, <1>14, Views
    <2>2. CASE u <= start
      <3>1. vested = 0
        BY <1>2, <1>3, <1>15, <2>2
      <3> QED BY <1>5, <2>1, <2>2, <3>1 DEF Min64
    <2>3. CASE ~(u <= start)
      <3>1. start + TotalLength(q) <= u
        <4>1. CASE q = <<>>
          <5>1. TotalLength(<<>>) = 0
            <6>1. 0 \in Nat
              OBVIOUS
            <6> QED BY <1>2, <6>1, SmallSchedules
          <5> QED BY <1>2, <2>3, <4>1, <5>1
        <4>2. CASE start + TotalLength(q) <= t
          BY <1>2, <1>9, <1>15, <4>2
        <4> QED BY <1>6, <4>1, <4>2
      <3>2. Due(start, q, u) = vested
        BY <1>2, <1>6, <3>1, DueBounds
      <3>3. Due(start, cap, u) = vested
        BY <1>2, <1>7, <2>3
      <3>4. Due(start, lp, u) = Min64(Due(start, B, u), vested)
        BY <1>12, <3>3
      <3> QED BY <1>5, <2>1, <2>3, <3>2, <3>4
    <2> QED BY <2>2, <2>3
  <1> QED BY <1>1, <1>15 DEF vested

-----------------------------------------------------------------------------
(* Grants.                                                                 *)

\* What one more grant releases adds to the sum of the grants.
LEMMA GrantAppended ==
    ASSUME NEW gs \in Seq(Grants), NEW g \in Grants, NEW lockups \in BOOLEAN, NEW t \in Int
    PROVE  /\ DueOfAll(<<>>, lockups, t) = 0
           /\ DueOfAll(Append(gs, g), lockups, t)
                = DueOfAll(gs, lockups, t) + Due(g.start, Granted(g, lockups), t)
  <1> DEFINE n == Len(gs)
             hs == Append(gs, g)
             D(h) == Due(h.start, Granted(h, lockups), t)
             P(h) == [length |-> 0, amount |-> D(h)]
             M(s) == [i \in DOMAIN s |-> P(s[i])]
  <1>1. \A s : DueOfAll(s, lockups, t) = Total(M(s), "amount")
    BY TotalsOfFields DEF DueOfAll
  <1>2. ASSUME NEW h \in Grants PROVE P(h) \in Period /\ P(h).amount = D(h)
    <2>1. h.start \in Int /\ Granted(h, lockups) \in Seq(Period)
      BY GrantSchedules DEF Granted
    <2>2. D(h) \in Nat
      BY <2>1, DueBounds
    <2> HIDE DEF D
    <2> QED BY <2>2 DEF Period
  <1> HIDE DEF D, P
  <1>3. ASSUME NEW s \in Seq(Grants)
        PROVE  M(s) \in Seq(Period) /\ Len(M(s)) = Len(s) /\ \A i \in 1..Len(s) : M(s)[i] = P(s[i])
    <2>1. Len(s) \in Nat /\ DOMAIN s = 1..Len(s)
      BY LenProperties
    <2>2. \A i \in 1..Len(s) : s[i] \in Grants
      BY ElementOfSeq
    <2>3. M(s) \in [1..Len(s) -> Period] /\ \A i \in 1..Len(s) : M(s)[i] = P(s[i])
      BY <1>2, <2>1, <2>2
    <2>4. DOMAIN M(s) = 1..Len(s)
      BY <2>1
    <2> HIDE DEF M
    <2>5. M(s) \in Seq(Period)
      BY <2>1, <2>3, SeqDef
    <2>6. Len(M(s)) \in Nat /\ DOMAIN M(s) = 1..Len(M(s))
      BY <2>5, LenProperties
    <2> QED BY <2>1, <2>3, <2>4, <2>5, <2>6
  <1>4. /\ hs \in Seq(Grants) /\ Len(hs) = n + 1 /\ n \in Nat
        /\ hs[n + 1] = g /\ \A i \in 1..n : hs[i] = gs[i]
    BY AppendProperties, LenProperties
  <1> HIDE DEF hs, M
  <1>5. M(<<>>) = <<>>
    <2>1. <<>> \in Seq(Grants) /\ Len(<<>>) = 0
      BY EmptySeq
    <2>2. M(<<>>) \in Seq(Period) /\ Len(M(<<>>)) = 0
      BY <1>3, <2>1
    <2> QED BY <2>2, EmptySeq
  <1>6. M(hs) = Append(M(gs), P(g))
    <2>1. /\ M(gs) \in Seq(Period) /\ Len(M(gs)) = n /\ \A i \in 1..n : M(gs)[i] = P(gs[i])
      BY <1>3
    <2>2. /\ M(hs) \in Seq(Period) /\ Len(M(hs)) = n + 1
          /\ \A i \in 1..(n + 1) : M(hs)[i] = P(hs[i])
      BY <1>3, <1>4
    <2> HIDE DEF n
    <2>3. P(g) \in Period
      BY <1>2
    <2>4. /\ Append(M(gs), P(g)) \in Seq(Period) /\ Len(Append(M(gs), P(g))) = n + 1
          /\ Append(M(gs), P(g))[n + 1] = P(g)
          /\ \A i \in 1..n : Append(M(gs), P(g))[i] = M(gs)[i]
      BY <2>1, <2>3, AppendProperties
    <2>5. \A i \in 1..(n + 1) : M(hs)[i] = Append(M(gs), P(g))[i]
      <3> TAKE i \in 1..(n + 1)
      <3>1. i \in 1..n \/ i = n + 1
        BY <1>4
      <3>2. CASE i \in 1..n
        BY <1>4, <2>1, <2>2, <2>4, <3>2
      <3>3. CASE i = n + 1
        BY <1>4, <2>2, <2>4, <3>3
      <3> QED BY <3>1, <3>2, <3>3
    <2> QED BY <2>2, <2>4, <2>5, SeqEqual
  <1>7. /\ Total(<<>>, "amount") = 0
        /\ Total(Append(M(gs), P(g)), "amount") = Total(M(gs), "amount") + P(g).amount
    BY <1>2, <1>3, TotalAppended DEF Fields
  <1>8. P(g).amount = D(g)
    BY <1>2
  <1> QED BY <1>1, <1>5, <1>6, <1>7, <1>8 DEF D, hs

-----------------------------------------------------------------------------
(* What covers an account's coins.                                         *)

\* What is still to vest is in the account; what is still to unlock is in it,
\* staked, or was slashed; and so is what counts as delegated free coins.
Covered(va, t, b, s, l) ==
    /\ GetVestingCoins(va, t) <= b
    /\ va.original - GetUnlockedCoins(va, t) <= b + s + l
    /\ va.delegatedFree <= s + l

\* The same with the terms that the provers calculate with.
LEMMA CoveredTerms ==
    ASSUME NEW va, VestingAccountOK(va), NEW t \in Int
    PROVE  /\ GetVestedCoins(va, t) \in Nat /\ GetUnlockedCoins(va, t) \in Nat
           /\ va.original \in Nat /\ va.delegatedFree \in Nat /\ va.delegatedVesting \in Nat
           /\ GetVestedCoins(va, t) <= va.original
           /\ GetVestingCoins(va, t) = va.original - GetVestedCoins(va, t)
           /\ GetVestingCoins(va, t) \in Nat
  <1>1. /\ GetVestedCoins(va, t) \in Nat /\ GetUnlockedCoins(va, t) \in Nat
        /\ va.original \in Nat /\ GetVestedCoins(va, t) <= va.original
    BY Views
  <1>2. va.delegatedFree \in Nat /\ va.delegatedVesting \in Nat
    BY DEF VestingAccountOK, ClawbackAccount
  <1>3. GetVestingCoins(va, t) = va.original - GetVestedCoins(va, t)
    BY DEF GetVestingCoins
  <1> QED BY <1>1, <1>2, <1>3

\* Time covers more.
LEMMA CoveredLater ==
    ASSUME NEW va, VestingAccountOK(va), NEW t \in Int, NEW u \in Int, t <= u,
           NEW b \in Nat, NEW s \in Nat, NEW l \in Nat, Covered(va, t, b, s, l)
    PROVE  Covered(va, u, b, s, l)
  <1>1. /\ GetVestedCoins(va, t) <= GetVestedCoins(va, u)
        /\ GetUnlockedCoins(va, t) <= GetUnlockedCoins(va, u)
    BY ViewsGrow
  <1>2. /\ GetVestedCoins(va, t) \in Nat /\ GetUnlockedCoins(va, t) \in Nat
        /\ GetVestedCoins(va, u) \in Nat /\ GetUnlockedCoins(va, u) \in Nat
        /\ va.original \in Nat /\ va.delegatedFree \in Nat
        /\ GetVestingCoins(va, t) = va.original - GetVestedCoins(va, t)
        /\ GetVestingCoins(va, u) = va.original - GetVestedCoins(va, u)
    BY CoveredTerms
  <1> QED BY <1>1, <1>2 DEF Covered

\* More coins cover more, and coins that move into staking or are slashed cover
\* what is still to unlock.
LEMMA CoveredMore ==
    ASSUME NEW va, VestingAccountOK(va), NEW t \in Int,
           NEW b \in Nat, NEW s \in Nat, NEW l \in Nat, Covered(va, t, b, s, l),
           NEW c \in Nat, NEW r \in Nat, NEW k \in Nat,
           b <= c, s + l <= r + k
    PROVE  Covered(va, t, c, r, k)
  <1>1. /\ GetVestedCoins(va, t) \in Nat /\ GetUnlockedCoins(va, t) \in Nat
        /\ va.original \in Nat /\ va.delegatedFree \in Nat
        /\ GetVestingCoins(va, t) = va.original - GetVestedCoins(va, t)
    BY CoveredTerms
  <1> QED BY <1>1 DEF Covered

\* What is not locked may go (LockedCoins).
LEMMA CoveredAfterSend ==
    ASSUME NEW va, VestingAccountOK(va), NEW t \in Int,
           NEW b \in Nat, NEW s \in Nat, NEW l \in Nat, Covered(va, t, b, s, l),
           NEW n \in Nat, n <= b - LockedCoins(va, t)
    PROVE  n <= b /\ Covered(va, t, b - n, s, l)
  <1> DEFINE o == va.original
             d == va.delegatedFree
             v == GetVestedCoins(va, t)
             w == GetUnlockedCoins(va, t)
             both == Min64(w, v)
             lockedUp == v - both
             locked == Max64(0, o - (both + Min64(d, lockedUp)))
  <1>1. v \in Nat /\ w \in Nat /\ o \in Nat /\ d \in Nat /\ GetVestingCoins(va, t) = o - v
    BY CoveredTerms
  <1>2. n <= b - locked
    BY DEF LockedCoins, GetLockedUpVestedCoins, GetUnlockedVestedCoins
  <1>3. o - v <= b /\ o - w <= b + s + l /\ d <= s + l
    BY <1>1 DEF Covered
  <1> HIDE DEF o, d, v, w
  <1>4. both \in Nat /\ both <= v /\ both <= w
    BY <1>1 DEF Min64
  <1> HIDE DEF both
  <1>5. lockedUp \in Nat
    BY <1>1, <1>4
  <1>6. Min64(d, lockedUp) \in Nat /\ Min64(d, lockedUp) <= d /\ Min64(d, lockedUp) <= lockedUp
    BY <1>1, <1>5 DEF Min64
  <1>7. /\ locked \in Nat
        /\ o - v <= locked
        /\ o - w - d <= locked
    BY <1>1, <1>4, <1>5, <1>6 DEF Max64
  <1> HIDE DEF locked
  <1>8. n <= b /\ o - v <= b - n /\ o - w <= (b - n) + s + l
    BY <1>1, <1>2, <1>3, <1>7
  <1> QED BY <1>1, <1>3, <1>8 DEF Covered, o, d, v, w

\* A grant comes with its coins (addGrant).
LEMMA CoveredAfterGrant ==
    ASSUME NEW va, VestingAccountOK(va), NEW t \in Int, NEW g \in Grants,
           NEW b \in Nat, NEW s \in Nat, NEW l \in Nat, Covered(va, t, b, s, l)
    PROVE  LET new == AddGrant(va, g, s, t)
           IN  /\ VestingAccountOK(new)
               /\ Covered(new, t, b + TotalAmount(OrInstant(g.vesting, g.lockup)), s, l)
  <1> DEFINE new == AddGrant(va, g, s, t)
             amount == TotalAmount(OrInstant(g.vesting, g.lockup))
  <1>1. /\ VestingAccountOK(new) /\ new.original = va.original + amount
        /\ new.delegatedFree <= s
        /\ GetVestedCoins(va, t) <= GetVestedCoins(new, t)
        /\ GetUnlockedCoins(va, t) <= GetUnlockedCoins(new, t)
    BY GrantMerged
  <1> HIDE DEF new
  <1>2. amount \in Nat
    BY GrantSchedules
  <1> HIDE DEF amount
  <1>3. /\ GetVestedCoins(va, t) \in Nat /\ GetUnlockedCoins(va, t) \in Nat
        /\ va.original \in Nat
        /\ GetVestingCoins(va, t) = va.original - GetVestedCoins(va, t)
    BY CoveredTerms
  <1>4. /\ GetVestedCoins(new, t) \in Nat /\ GetUnlockedCoins(new, t) \in Nat
        /\ new.original \in Nat /\ new.delegatedFree \in Nat
        /\ GetVestingCoins(new, t) = new.original - GetVestedCoins(new, t)
    BY <1>1, CoveredTerms
  <1>5. Covered(new, t, b + amount, s, l)
    BY <1>1, <1>2, <1>3, <1>4 DEF Covered
  <1> QED BY <1>1, <1>5 DEF new, amount

\* The schedules of an account release what its grants release.
FromGrants(va, gs) ==
    \A t \in Int :
        /\ Due(va.start, va.vesting, t) = DueOfAll(gs, FALSE, t)
        /\ Due(va.start, va.lockup, t) = DueOfAll(gs, TRUE, t)

\* The views and the schedules do not look at the funder and at what is
\* delegated, of which df are free coins.
OthersChanged(va, new, df) ==
    /\ new \in ClawbackAccount /\ new.delegatedFree = df
    /\ new.start = va.start /\ new.end = va.end
    /\ new.lockup = va.lockup /\ new.vesting = va.vesting /\ new.original = va.original

\* So are the updates that the steps make.
LEMMA OtherFields ==
    ASSUME NEW va, VestingAccountOK(va), NEW f \in Funders, NEW df \in Nat, NEW dv \in Nat
    PROVE  /\ OthersChanged(va, [va EXCEPT !.funder = f], va.delegatedFree)
           /\ OthersChanged(va, [va EXCEPT !.delegatedFree = df], df)
           /\ OthersChanged(va, [va EXCEPT !.delegatedFree = df, !.delegatedVesting = dv], df)
  <1> DEFINE P == Seq(Period)
  <1>1. /\ va \in [kind : {"clawback"}, funder : Funders, start : Int, end : Int,
                   lockup : P, vesting : P, original : Nat,
                   delegatedFree : Nat, delegatedVesting : Nat]
        /\ ClawbackAccount = [kind : {"clawback"}, funder : Funders, start : Int, end : Int,
                   lockup : P, vesting : P, original : Nat,
                   delegatedFree : Nat, delegatedVesting : Nat]
    BY DEF VestingAccountOK, ClawbackAccount
  <1> HIDE DEF P
  <1>2. OthersChanged(va, [va EXCEPT !.funder = f], va.delegatedFree)
    BY <1>1 DEF OthersChanged
  <1>3. OthersChanged(va, [va EXCEPT !.delegatedFree = df], df)
    BY <1>1 DEF OthersChanged
  <1>4. OthersChanged(va, [va EXCEPT !.delegatedFree = df, !.delegatedVesting = dv], df)
    BY <1>1 DEF OthersChanged
  <1> QED BY <1>2, <1>3, <1>4

\* An account that differs in them reads as before.
LEMMA OtherFieldsChange ==
    ASSUME NEW va, NEW new, VestingAccountOK(va), NEW df, OthersChanged(va, new, df),
           NEW gs, FromGrants(va, gs)
    PROVE  /\ VestingAccountOK(new) /\ FromGrants(new, gs)
           /\ new.original = va.original /\ new.delegatedFree = df
           /\ \A t : /\ GetVestingCoins(new, t) = GetVestingCoins(va, t)
                    /\ GetUnlockedCoins(new, t) = GetUnlockedCoins(va, t)
  <1>1. VestingAccountOK(new)
    BY DEF VestingAccountOK, SchedulesOK, OthersChanged
  <1>2. FromGrants(new, gs)
    BY DEF FromGrants, OthersChanged
  <1>3. \A t : /\ GetVestingCoins(new, t) = GetVestingCoins(va, t)
              /\ GetUnlockedCoins(new, t) = GetUnlockedCoins(va, t)
    BY DEF GetVestingCoins, GetVestedCoins, GetUnlockedCoins, OthersChanged
  <1> QED BY <1>1, <1>2, <1>3 DEF OthersChanged

\* A new account: nothing has been granted.
LEMMA NewAccount ==
    ASSUME NEW f \in Funders, NEW t \in Int, NEW b \in Nat, NEW s \in Nat, NEW l \in Nat
    PROVE  /\ VestingAccountOK(NewVesting(f)) /\ FromGrants(NewVesting(f), <<>>)
           /\ Covered(NewVesting(f), t, b, s, l)
           /\ NewVesting(f) # Eth
  <1> DEFINE va == NewVesting(f)
  <1>1. /\ <<>> \in Seq(Period) /\ TotalLength(<<>>) = 0 /\ TotalAmount(<<>>) = 0
        /\ \A u \in Int : Due(0, <<>>, u) = 0
    <2>1. 0 \in Int /\ 0 \in Nat
      OBVIOUS
    <2> QED BY <2>1, SmallSchedules
  <1>2. /\ va \in ClawbackAccount /\ va.start = 0 /\ va.end = 0 /\ va.lockup = <<>>
        /\ va.vesting = <<>> /\ va.original = 0 /\ va.delegatedFree = 0 /\ va.kind = "clawback"
    BY <1>1 DEF NewVesting, ClawbackAccount
  <1> HIDE DEF va
  <1>3. VestingAccountOK(va)
    BY <1>1, <1>2 DEF VestingAccountOK, SchedulesOK
  <1>4. FromGrants(va, <<>>)
    <2>1. ASSUME NEW u \in Int, NEW lockups \in BOOLEAN PROVE DueOfAll(<<>>, lockups, u) = 0
      <3>1. [i \in DOMAIN <<>> |-> [length |-> 0, amount |-> Due(<<>>[i].start, Granted(<<>>[i], lockups), u)]] = <<>>
        OBVIOUS
      <3> QED BY <1>1, <3>1 DEF DueOfAll
    <2>2. TRUE \in BOOLEAN /\ FALSE \in BOOLEAN
      OBVIOUS
    <2> QED BY <1>1, <1>2, <2>1, <2>2 DEF FromGrants
  <1>5. Covered(va, t, b, s, l)
    <2>1. /\ GetUnlockedCoins(va, t) \in Nat /\ GetVestedCoins(va, t) \in Nat
          /\ GetVestingCoins(va, t) = va.original - GetVestedCoins(va, t)
      BY <1>3, CoveredTerms
    <2> QED BY <1>2, <2>1 DEF Covered
  <1>6. va # Eth
    BY <1>2 DEF Eth
  <1> QED BY <1>3, <1>4, <1>5, <1>6 DEF va

-----------------------------------------------------------------------------
(* The inductive invariant.                                                *)

\* An ordinary account has no grants; a vesting account is made of them.
AccountOK(va, gs) ==
    \/ va = Eth /\ gs = <<>>
    \/ VestingAccountOK(va) /\ FromGrants(va, gs)

\* The accounts, and what covers the coins of the vesting ones.
CoinsInv ==
    /\ acc = [a \in Addrs |-> acc[a]]
    /\ grants = [a \in Addrs |-> grants[a]]
    /\ balance \in [Addrs -> Nat] /\ staked \in [Addrs -> Nat] /\ slashed \in [Addrs -> Nat]
    /\ time \in Nat
    /\ \A a \in Addrs :
          /\ grants[a] \in Seq(Grants)
          /\ AccountOK(acc[a], grants[a])
          /\ a \notin Holders => acc[a] = Eth
          /\ acc[a] # Eth => Covered(acc[a], time, balance[a], staked[a], slashed[a])

\* Votes are held on accounts that may be vesting accounts.
ProposersInv ==
    \A id \in Proposals : proposal[id].status = "none" \/ proposal[id].account \in Holders

\* The kinds.
LEMMA KindOfAccount ==
    ASSUME CoinsInv, NEW a \in Addrs
    PROVE  /\ IsClawback(a) <=> acc[a] # Eth
           /\ IsClawback(a) => /\ VestingAccountOK(acc[a])
                               /\ FromGrants(acc[a], grants[a])
                               /\ Covered(acc[a], time, balance[a], staked[a], slashed[a])
                               /\ a \in Holders
           /\ ~IsClawback(a) => acc[a] = Eth /\ grants[a] = <<>>
           /\ time \in Nat /\ time \in Int
           /\ balance[a] \in Nat /\ staked[a] \in Nat /\ slashed[a] \in Nat
           /\ grants[a] \in Seq(Grants)
  <1>1. Eth.kind = "eth"
    BY DEF Eth
  <1>2. VestingAccountOK(acc[a]) => acc[a].kind = "clawback"
    BY DEF VestingAccountOK, ClawbackAccount
  <1>3. AccountOK(acc[a], grants[a]) /\ (a \notin Holders => acc[a] = Eth)
    BY DEF CoinsInv
  <1>4. IsClawback(a) <=> acc[a] # Eth
    BY <1>1, <1>2, <1>3 DEF AccountOK, IsClawback
  <1>5. IsClawback(a) => VestingAccountOK(acc[a]) /\ FromGrants(acc[a], grants[a]) /\ a \in Holders
    BY <1>1, <1>3, <1>4 DEF AccountOK
  <1>6. ~IsClawback(a) => acc[a] = Eth /\ grants[a] = <<>>
    BY <1>2, <1>3, <1>4 DEF AccountOK, IsClawback
  <1>7. IsClawback(a) => Covered(acc[a], time, balance[a], staked[a], slashed[a])
    BY <1>4 DEF CoinsInv
  <1>8. /\ time \in Nat /\ time \in Int
        /\ balance[a] \in Nat /\ staked[a] \in Nat /\ slashed[a] \in Nat
        /\ grants[a] \in Seq(Grants)
    BY DEF CoinsInv
  <1> QED BY <1>4, <1>5, <1>6, <1>7, <1>8

\* A step that changes one account, and takes no coins from other vesting
\* accounts.
LEMMA OneAccountChanges ==
    ASSUME CoinsInv, NEW a \in Addrs, NEW va, NEW gs \in Seq(Grants),
           acc' = [acc EXCEPT ![a] = va],
           grants' = [grants EXCEPT ![a] = gs],
           AccountOK(va, gs), va # Eth => a \in Holders,
           time' = time,
           balance' \in [Addrs -> Nat], staked' \in [Addrs -> Nat], slashed' \in [Addrs -> Nat],
           \A b \in Addrs \ {a} : /\ acc[b] = Eth \/ balance[b] <= balance'[b]
                                  /\ staked'[b] = staked[b] /\ slashed'[b] = slashed[b],
           va # Eth => Covered(va, time, balance'[a], staked'[a], slashed'[a])
    PROVE  CoinsInv'
  <1>1. /\ acc' = [b \in Addrs |-> IF b = a THEN va ELSE acc[b]]
        /\ grants' = [b \in Addrs |-> IF b = a THEN gs ELSE grants[b]]
    BY DEF CoinsInv
  <1>2. acc' = [b \in Addrs |-> acc'[b]] /\ grants' = [b \in Addrs |-> grants'[b]]
    BY <1>1
  <1>3. ASSUME NEW b \in Addrs
        PROVE  /\ grants'[b] \in Seq(Grants)
               /\ AccountOK(acc'[b], grants'[b])
               /\ b \notin Holders => acc'[b] = Eth
               /\ acc'[b] # Eth => Covered(acc'[b], time', balance'[b], staked'[b], slashed'[b])
    <2>1. CASE b = a
      <3>1. acc'[b] = va /\ grants'[b] = gs
        BY <1>1, <2>1
      <3> QED BY <2>1, <3>1
    <2>2. CASE b # a
      <3>1. acc'[b] = acc[b] /\ grants'[b] = grants[b]
        BY <1>1, <2>2
      <3>2. /\ grants[b] \in Seq(Grants) /\ AccountOK(acc[b], grants[b])
            /\ b \notin Holders => acc[b] = Eth
        BY DEF CoinsInv
      <3>3. ASSUME acc[b] # Eth
            PROVE  Covered(acc[b], time, balance'[b], staked'[b], slashed'[b])
        <4>1. /\ VestingAccountOK(acc[b]) /\ time \in Int
              /\ Covered(acc[b], time, balance[b], staked[b], slashed[b])
              /\ balance[b] \in Nat /\ staked[b] \in Nat /\ slashed[b] \in Nat
          BY <3>3, KindOfAccount
        <4>2. /\ balance[b] <= balance'[b]
              /\ staked'[b] = staked[b] /\ slashed'[b] = slashed[b] /\ balance'[b] \in Nat
          BY <2>2, <3>3
        <4>3. staked[b] + slashed[b] <= staked[b] + slashed[b]
          BY <4>1
        <4> QED BY <4>1, <4>2, <4>3, CoveredMore
      <3> QED BY <3>1, <3>2, <3>3
    <2> QED BY <2>1, <2>2
  <1> QED BY <1>2, <1>3 DEF CoinsInv

\* Coins that the bank moves.
LEMMA Moved ==
    ASSUME balance \in [Addrs -> Nat], NEW from \in Addrs, NEW to \in Addrs,
           NEW n \in Nat, n <= balance[from]
    PROVE  /\ Move(from, to, n) \in [Addrs -> Nat]
           /\ \A b \in Addrs \ {from} : balance[b] <= Move(from, to, n)[b]
           /\ balance[from] - n <= Move(from, to, n)[from]
           /\ to # from => Move(from, to, n)[to] = balance[to] + n
  <1>1. ASSUME NEW b \in Addrs
        PROVE  Move(from, to, n)[b]
                 = IF b = to THEN (IF to = from THEN balance[b] - n ELSE balance[b]) + n
                   ELSE IF b = from THEN balance[b] - n ELSE balance[b]
    <2> DEFINE taken == [balance EXCEPT ![from] = @ - n]
    <2>1. Move(from, to, n) = [taken EXCEPT ![to] = @ + n]
      BY DEF Move
    <2>2. /\ taken \in [Addrs -> Int]
          /\ \A c \in Addrs : taken[c] = IF c = from THEN balance[c] - n ELSE balance[c]
      OBVIOUS
    <2> HIDE DEF taken
    <2> QED BY <2>1, <2>2
  <1>2. \A b \in Addrs : balance[b] \in Nat
    OBVIOUS
  <1>3. Move(from, to, n) = [b \in Addrs |-> Move(from, to, n)[b]]
    BY DEF Move
  <1>4. \A b \in Addrs : Move(from, to, n)[b] \in Nat
    BY <1>1, <1>2
  <1>5. \A b \in Addrs \ {from} : balance[b] <= Move(from, to, n)[b]
    BY <1>1, <1>2
  <1>6. balance[from] - n <= Move(from, to, n)[from]
    BY <1>1, <1>2
  <1>7. to # from => Move(from, to, n)[to] = balance[to] + n
    BY <1>1
  <1> HIDE DEF Move
  <1> QED BY <1>3, <1>4, <1>5, <1>6, <1>7

\* The sum that CheckVesting makes of the values of a transaction.
SumRec(g, q) ==
    g = [s \in SUBSET DOMAIN q |-> IF s = {} THEN 0 ELSE g[s \ {Max(s)}] + q[Max(s)]]

\* It is a natural number.
LEMMA SumOfValues ==
    ASSUME NEW q \in Seq(Nat)
    PROVE  FoldLeft(+, 0, q) \in Nat
  <1> DEFINE n == Len(q)
             table == [k \in 1..n |-> [x \in Nat |-> x + q[k]]]
             c == CHOOSE g : SumRec(g, q)
  <1>1. n \in Nat /\ DOMAIN q = 1..n /\ \A k \in 1..n : q[k] \in Nat
    BY LenProperties, ElementOfSeq
  <1>2. FoldLeft(+, 0, q) = c[DOMAIN q]
    BY DEF FoldLeft, MapThenFoldSet, SumRec
  <1> HIDE DEF n
  <1>3. table \in [1..n -> [Nat -> Nat]]
    BY <1>1
  <1>4. \E g : SumRec(g, q)
    <2> HIDE DEF table
    <2>1. PICK g \in [SUBSET (1..n) -> Nat] : FoldRec(g, 0, table, n)
      BY <1>1, <1>3, FoldRecExists
    <2>2. ASSUME NEW s \in SUBSET (1..n), s # {}
          PROVE  table[Max(s)][g[s \ {Max(s)}]] = g[s \ {Max(s)}] + q[Max(s)]
      <3>1. Max(s) \in 1..n
        BY <1>1, <2>2, MaxOfIndices
      <3>2. g[s \ {Max(s)}] \in Nat
        BY <2>1
      <3> QED BY <3>1, <3>2 DEF table
    <2>3. SumRec(g, q)
      BY <1>1, <2>1, <2>2 DEF SumRec, FoldRec
    <2> QED BY <2>3
  <1>5. c = [s \in SUBSET (1..n) |-> IF s = {} THEN 0 ELSE c[s \ {Max(s)}] + q[Max(s)]]
    <2>1. SumRec(c, q)
      BY <1>4
    <2> QED BY <1>1, <2>1 DEF SumRec
  <1> HIDE DEF c, table
  <1> DEFINE I == {k \in 0..n : c[1..k] \in Nat}
  <1>6. 0 \in I
    <2>1. 1..0 = {}
      OBVIOUS
    <2>2. c[1..0] = 0
      BY <1>5, <2>1
    <2> QED BY <1>1, <2>2
  <1>7. ASSUME NEW k \in 1..n, k - 1 \in I PROVE k \in I
    <2> DEFINE s == 1..k
    <2>1. s \in SUBSET (1..n) /\ s # {} /\ Max(s) = k /\ s \ {k} = 1..(k - 1)
      BY <1>1, FirstIndices
    <2> HIDE DEF s
    <2>2. c[s] = c[s \ {Max(s)}] + q[Max(s)]
      BY <1>5, <2>1
    <2>3. c[1..(k - 1)] \in Nat
      BY <1>7
    <2>4. c[s] = c[1..(k - 1)] + q[k]
      BY <2>1, <2>2
    <2>5. q[k] \in Nat
      BY <1>1
    <2>6. c[1..(k - 1)] + q[k] \in Nat
      BY <2>3, <2>5
    <2>7. c[1..k] \in Nat
      BY <2>4, <2>6 DEF s
    <2> QED BY <1>1, <2>7
  <1>8. n \in I
    <2>1. n \in 0..n
      BY <1>1
    <2> HIDE DEF I
    <2> QED BY <1>1, <1>6, <1>7, <2>1, BoundedInduction
  <1> QED BY <1>1, <1>2, <1>8

\* Who is voted on may have a vesting account.
LEMMA NextProposers == MarksInv /\ ProposersInv /\ [Next]_vars => ProposersInv'
  <1> SUFFICES ASSUME MarksInv, ProposersInv, [Next]_vars PROVE ProposersInv'
    OBVIOUS
  <1>1. ASSUME UNCHANGED govVars PROVE ProposersInv'
    BY <1>1 DEF ProposersInv, govVars
  <1>2. ASSUME NEW id \in Proposals, NEW p, proposal' = [proposal EXCEPT ![id] = p],
               p.account \in Holders
        PROVE  ProposersInv'
    <2>1. proposal' = [i \in Proposals |-> IF i = id THEN p ELSE proposal[i]]
      BY <1>2 DEF MarksInv
    <2> QED BY <1>2, <2>1 DEF ProposersInv
  <1>3. ASSUME NEW id \in Proposals, NEW a \in Holders, NEW legacy \in BOOLEAN, NEW k,
               SubmitProposal(id, a, legacy, k)
        PROVE  ProposersInv'
    <2> DEFINE new == [status |-> "deposit", legacy |-> legacy, foreign |-> FALSE,
                       account |-> a]
               p == Deposited(new, k)
    <2>1. proposal' = [proposal EXCEPT ![id] = p]
      BY <1>3 DEF SubmitProposal
    <2>2. ProposalOK(new) /\ new.account = a
      BY DEF ProposalOK
    <2> HIDE DEF new
    <2>3. p.account = a
      BY <2>2, DepositFields
    <2> HIDE DEF p
    <2> QED BY <1>2, <2>1, <2>3
  <1>4. ASSUME NEW id \in Proposals, NEW k, AddDeposit(id, k) PROVE ProposersInv'
    <2> DEFINE p == Deposited(proposal[id], k)
    <2>1. /\ proposal' = [proposal EXCEPT ![id] = p]
          /\ proposal[id].status \in {"deposit", "voting"}
      BY <1>4 DEF AddDeposit
    <2>2. ProposalOK(proposal[id])
      BY DEF MarksInv
    <2>3. p.account = proposal[id].account
      BY <2>2, DepositFields
    <2>4. proposal[id].account \in Holders
      BY <2>1 DEF ProposersInv
    <2> HIDE DEF p
    <2> QED BY <1>2, <2>1, <2>3, <2>4
  <1>5. ASSUME NEW id \in Proposals, NEW status,
               proposal[id].status # "none",
               proposal' = [proposal EXCEPT ![id].status = status]
        PROVE  ProposersInv'
    <2> DEFINE p == [proposal[id] EXCEPT !.status = status]
    <2>1. proposal' = [proposal EXCEPT ![id] = p] /\ p.account = proposal[id].account
      BY <1>5
    <2>2. proposal[id].account \in Holders
      BY <1>5 DEF ProposersInv
    <2> HIDE DEF p
    <2> QED BY <1>2, <2>1, <2>2
  <1>6. ASSUME NEW id \in Proposals, FailMinDeposit(id) PROVE ProposersInv'
    BY <1>5, <1>6 DEF FailMinDeposit
  <1>7. ASSUME NEW id \in Proposals, NEW passes, EndVoting(id, passes) PROVE ProposersInv'
    <2>1. proposal[id].status = "voting" /\ proposal' = [proposal EXCEPT ![id].status = "over"]
      BY <1>7 DEF EndVoting
    <2> QED BY <1>5, <2>1
  <1>8. CASE Messages
    BY <1>1, <1>8, Zenon
    DEF Messages, CreateClawbackVestingAccount, FundVestingAccount, Clawback,
        UpdateVestingFunder, ConvertVestingAccount
  <1>9. CASE Governance
    BY <1>3, <1>4, <1>6, <1>7, <1>9 DEF Governance
  <1>10. CASE Movements
    BY <1>1, <1>10, Zenon
    DEF Movements, Send, EthereumTx, Delegate, CompleteUnbonding, Slash
  <1> QED BY <1>1, <1>8, <1>9, <1>10 DEF Next, NextBlock, vars

\* The entry of an account that does not change.
LEMMA SameEntries ==
    ASSUME CoinsInv, NEW a \in Addrs
    PROVE  acc = [acc EXCEPT ![a] = acc[a]] /\ grants = [grants EXCEPT ![a] = grants[a]]
  <1>1. acc = [b \in Addrs |-> acc[b]] /\ grants = [b \in Addrs |-> grants[b]]
    BY DEF CoinsInv
  <1> QED BY <1>1

\* The empty sequence and ordinary accounts.
LEMMA OrdinaryOK == AccountOK(Eth, <<>>) /\ <<>> \in Seq(Grants)
  <1>1. <<>> \in Seq(Grants)
    BY EmptySeq
  <1> QED BY <1>1 DEF AccountOK

\* A vesting account that becomes an ordinary one may pay.
LEMMA CoinsBack ==
    ASSUME CoinsInv, NEW a \in Addrs, BackToEth(a),
           UNCHANGED <<time, staked, slashed>>,
           balance' \in [Addrs -> Nat],
           \A b \in Addrs \ {a} : balance[b] <= balance'[b]
    PROVE  CoinsInv'
  <1>1. acc' = [acc EXCEPT ![a] = Eth] /\ grants' = [grants EXCEPT ![a] = <<>>]
    BY DEF BackToEth
  <1>2. staked' \in [Addrs -> Nat] /\ slashed' \in [Addrs -> Nat]
    BY DEF CoinsInv
  <1>3. <<>> \in Seq(Grants) /\ AccountOK(Eth, <<>>)
    BY OrdinaryOK
  <1>4. \A b \in Addrs \ {a} : /\ acc[b] = Eth \/ balance[b] <= balance'[b]
                               /\ staked'[b] = staked[b] /\ slashed'[b] = slashed[b]
    OBVIOUS
  <1> QED BY <1>1, <1>2, <1>3, <1>4, OneAccountChanges

\* A step that changes no account and no grants, but the coins of one account.
LEMMA CoinsOfOne ==
    ASSUME CoinsInv, NEW a \in Addrs, UNCHANGED <<time, acc, grants>>,
           balance' \in [Addrs -> Nat], staked' \in [Addrs -> Nat], slashed' \in [Addrs -> Nat],
           \A b \in Addrs \ {a} : /\ acc[b] = Eth \/ balance[b] <= balance'[b]
                                  /\ staked'[b] = staked[b] /\ slashed'[b] = slashed[b],
           IsClawback(a) => Covered(acc[a], time, balance'[a], staked'[a], slashed'[a])
    PROVE  CoinsInv'
  <1> DEFINE va == acc[a]
             gs == grants[a]
  <1>1. /\ acc' = [acc EXCEPT ![a] = va] /\ grants' = [grants EXCEPT ![a] = gs]
    BY SameEntries
  <1>2. /\ gs \in Seq(Grants) /\ AccountOK(va, gs)
        /\ a \notin Holders => va = Eth
    BY DEF CoinsInv
  <1>3. va # Eth => Covered(va, time, balance'[a], staked'[a], slashed'[a])
    BY KindOfAccount
  <1>4. va # Eth => a \in Holders
    BY <1>2
  <1> HIDE DEF va, gs
  <1> QED BY <1>1, <1>2, <1>3, <1>4, OneAccountChanges

\* A grant adds to the schedules what it adds to the grants.
LEMMA GrantFrom ==
    ASSUME NEW va, VestingAccountOK(va), NEW gs \in Seq(Grants), FromGrants(va, gs),
           NEW g \in Grants, NEW delegated \in Nat, NEW t \in Int
    PROVE  FromGrants(AddGrant(va, g, delegated, t), Append(gs, g))
  <1> DEFINE new == AddGrant(va, g, delegated, t)
             hs == Append(gs, g)
  <1> SUFFICES ASSUME NEW u \in Int
               PROVE  /\ Due(new.start, new.vesting, u) = DueOfAll(hs, FALSE, u)
                      /\ Due(new.start, new.lockup, u) = DueOfAll(hs, TRUE, u)
    BY DEF FromGrants
  <1>1. /\ Due(new.start, new.vesting, u)
             = Due(va.start, va.vesting, u) + Due(g.start, OrInstant(g.vesting, g.lockup), u)
        /\ Due(new.start, new.lockup, u)
             = Due(va.start, va.lockup, u) + Due(g.start, OrInstant(g.lockup, g.vesting), u)
    BY GrantMerged, ZenonT(60)
  <1> HIDE DEF new
  <1>2. /\ Due(va.start, va.vesting, u) = DueOfAll(gs, FALSE, u)
        /\ Due(va.start, va.lockup, u) = DueOfAll(gs, TRUE, u)
    BY DEF FromGrants
  <1>3. TRUE \in BOOLEAN /\ FALSE \in BOOLEAN
    OBVIOUS
  <1>4. /\ DueOfAll(hs, FALSE, u) = DueOfAll(gs, FALSE, u) + Due(g.start, Granted(g, FALSE), u)
        /\ DueOfAll(hs, TRUE, u) = DueOfAll(gs, TRUE, u) + Due(g.start, Granted(g, TRUE), u)
    BY <1>3, GrantAppended
  <1>5. /\ Granted(g, FALSE) = OrInstant(g.vesting, g.lockup)
        /\ Granted(g, TRUE) = OrInstant(g.lockup, g.vesting)
    BY DEF Granted
  <1> QED BY <1>1, <1>2, <1>4, <1>5

\* An account is created without coins of its own to keep.
LEMMA CreateKeeps ==
    ASSUME CoinsInv, NEW a \in Holders, NEW f \in Funders, NEW enableGov,
           CreateClawbackVestingAccount(a, f, enableGov)
    PROVE  CoinsInv'
  <1> DEFINE va == NewVesting(f)
  <1>1. /\ acc[a] = Eth /\ acc' = [acc EXCEPT ![a] = va]
        /\ UNCHANGED <<time, balance, staked, grants, slashed>>
    BY DEF CreateClawbackVestingAccount
  <1>2. a \in Addrs
    BY VestingAssumption
  <1>3. ~IsClawback(a)
    BY <1>1, <1>2, KindOfAccount
  <1>4. grants[a] = <<>> /\ time \in Int /\ balance[a] \in Nat /\ staked[a] \in Nat /\ slashed[a] \in Nat
    BY <1>2, <1>3, KindOfAccount
  <1>5. /\ VestingAccountOK(va) /\ FromGrants(va, <<>>)
        /\ Covered(va, time, balance[a], staked[a], slashed[a])
    BY <1>4, NewAccount
  <1> HIDE DEF va
  <1>6. <<>> \in Seq(Grants) /\ AccountOK(va, <<>>)
    BY <1>5, OrdinaryOK DEF AccountOK
  <1>7. grants' = [grants EXCEPT ![a] = <<>>]
    <2>1. grants = [grants EXCEPT ![a] = grants[a]]
      BY <1>2, SameEntries
    <2> QED BY <1>1, <1>4, <2>1
  <1>8. /\ balance' \in [Addrs -> Nat] /\ staked' \in [Addrs -> Nat] /\ slashed' \in [Addrs -> Nat]
        /\ \A b \in Addrs \ {a} : /\ acc[b] = Eth \/ balance[b] <= balance'[b]
                                  /\ staked'[b] = staked[b] /\ slashed'[b] = slashed[b]
    BY <1>1 DEF CoinsInv
  <1>9. Covered(va, time, balance'[a], staked'[a], slashed'[a])
    BY <1>1, <1>5
  <1> QED BY <1>1, <1>2, <1>6, <1>7, <1>8, <1>9, OneAccountChanges

\* A grant comes with its coins; who pays them is no vesting account.
LEMMA FundKeeps ==
    ASSUME CoinsInv, NEW a \in Holders, NEW g \in Grants, FundVestingAccount(a, g)
    PROVE  CoinsInv'
  <1> DEFINE va == acc[a]
             gs == grants[a]
             f == va.funder
             n == TotalAmount(OrInstant(g.vesting, g.lockup))
             new == AddGrant(va, g, staked[a], time)
             hs == Append(gs, g)
  <1>1. a \in Addrs /\ IsClawback(a) /\ va # Eth
    BY VestingAssumption, KindOfAccount DEF FundVestingAccount
  <1>2. /\ acc' = [acc EXCEPT ![a] = new] /\ grants' = [grants EXCEPT ![a] = hs]
        /\ balance' = Move(f, a, n) /\ n <= Spendable(f)
        /\ UNCHANGED <<time, staked, slashed>>
    BY DEF FundVestingAccount
  <1>3. /\ VestingAccountOK(va) /\ FromGrants(va, gs) /\ gs \in Seq(Grants)
        /\ Covered(va, time, balance[a], staked[a], slashed[a])
        /\ time \in Int /\ balance[a] \in Nat /\ staked[a] \in Nat /\ slashed[a] \in Nat
    BY <1>1, KindOfAccount
  <1>4. f \in Addrs /\ f \notin Holders /\ f # a
    <2>1. f \in Funders
      BY <1>3 DEF VestingAccountOK, ClawbackAccount
    <2> HIDE DEF f
    <2> QED BY <2>1 DEF Funders
  <1>5. n \in Nat
    BY GrantSchedules
  <1> HIDE DEF f, n
  <1>6. ~IsClawback(f) /\ acc[f] = Eth /\ balance[f] \in Nat
    BY <1>4, KindOfAccount
  <1>7. n <= balance[f]
    <2>1. Spendable(f) = Max64(0, balance[f] - 0)
      BY <1>6 DEF Spendable, Locked
    <2>2. Spendable(f) = balance[f]
      BY <1>6, <2>1 DEF Max64
    <2> QED BY <1>2, <2>2
  <1>8. balance \in [Addrs -> Nat] /\ staked \in [Addrs -> Nat] /\ slashed \in [Addrs -> Nat]
    BY DEF CoinsInv
  <1>9. /\ Move(f, a, n) \in [Addrs -> Nat]
        /\ \A b \in Addrs \ {f} : balance[b] <= Move(f, a, n)[b]
        /\ Move(f, a, n)[a] = balance[a] + n
    BY <1>1, <1>4, <1>5, <1>7, <1>8, Moved
  <1>10. /\ VestingAccountOK(new)
         /\ Covered(new, time, balance[a] + n, staked[a], slashed[a])
    BY <1>3, CoveredAfterGrant DEF n
  <1>11. FromGrants(new, hs) /\ hs \in Seq(Grants)
    BY <1>3, GrantFrom, AppendProperties
  <1> HIDE DEF new, hs, va, gs
  <1>12. AccountOK(new, hs)
    BY <1>10, <1>11 DEF AccountOK
  <1>13. /\ balance' \in [Addrs -> Nat] /\ staked' \in [Addrs -> Nat] /\ slashed' \in [Addrs -> Nat]
         /\ \A b \in Addrs \ {a} : /\ acc[b] = Eth \/ balance[b] <= balance'[b]
                                   /\ staked'[b] = staked[b] /\ slashed'[b] = slashed[b]
    BY <1>2, <1>6, <1>8, <1>9
  <1>14. Covered(new, time, balance'[a], staked'[a], slashed'[a])
    BY <1>2, <1>9, <1>10
  <1> QED BY <1>1, <1>2, <1>11, <1>12, <1>13, <1>14, OneAccountChanges

\* What a clawback takes is there (transferClawback).
LEMMA TransferKeeps ==
    ASSUME CoinsInv, NEW a \in Holders, NEW dest \in Addrs, TransferClawback(a, dest),
           IsClawback(a), UNCHANGED <<time, staked, slashed>>
    PROVE  CoinsInv'
  <1> DEFINE n == GetVestingCoins(acc[a], time)
  <1>1. a \in Addrs /\ VestingAccountOK(acc[a]) /\ time \in Int
    BY VestingAssumption, KindOfAccount
  <1>2. n \in Nat
    BY <1>1, CoveredTerms
  <1>3. ComputeClawback(acc[a], time).clawback = n
    BY DEF ComputeClawback
  <1>4. n <= balance[a] /\ BackToEth(a) /\ balance' = Move(a, dest, n)
    BY <1>3 DEF TransferClawback
  <1>5. balance \in [Addrs -> Nat]
    BY DEF CoinsInv
  <1> HIDE DEF n
  <1>6. /\ Move(a, dest, n) \in [Addrs -> Nat]
        /\ \A b \in Addrs \ {a} : balance[b] <= Move(a, dest, n)[b]
    BY <1>1, <1>2, <1>4, <1>5, Moved
  <1> QED BY <1>1, <1>4, <1>6, CoinsBack

\* What is not locked may be paid, and nothing always.
LEMMA PaymentKeeps ==
    ASSUME CoinsInv, NEW a \in Holders, NEW n \in Nat,
           n = 0 \/ n <= balance[a] - Locked(a),
           balance' = Move(a, Payee, n), UNCHANGED <<time, acc, staked, grants, slashed>>
    PROVE  CoinsInv'
  <1>1. a \in Addrs /\ Payee \in Addrs
    BY VestingAssumption, CoinsAssumption
  <1>2. /\ balance[a] \in Nat /\ staked[a] \in Nat /\ slashed[a] \in Nat /\ time \in Int
    BY <1>1, KindOfAccount
  <1>3. IsClawback(a) =>
           /\ VestingAccountOK(acc[a])
           /\ Covered(acc[a], time, balance[a], staked[a], slashed[a])
    BY <1>1, KindOfAccount
  <1>4. /\ n <= balance[a]
        /\ IsClawback(a) => Covered(acc[a], time, balance[a] - n, staked[a], slashed[a])
    <2>1. CASE n = 0
      <3>1. balance[a] - n = balance[a]
        BY <1>2, <2>1
      <3> QED BY <1>2, <1>3, <2>1, <3>1
    <2>2. CASE n # 0 /\ IsClawback(a)
      <3>1. n <= balance[a] - LockedCoins(acc[a], time)
        BY <2>2 DEF Locked
      <3> QED BY <1>2, <1>3, <2>2, <3>1, CoveredAfterSend
    <2>3. CASE n # 0 /\ ~IsClawback(a)
      <3>1. n <= balance[a] - 0
        BY <2>3 DEF Locked
      <3> QED BY <1>2, <2>3, <3>1
    <2> QED BY <2>1, <2>2, <2>3
  <1>5. balance \in [Addrs -> Nat] /\ staked \in [Addrs -> Nat] /\ slashed \in [Addrs -> Nat]
    BY DEF CoinsInv
  <1>6. /\ balance' \in [Addrs -> Nat]
        /\ \A b \in Addrs \ {a} : balance[b] <= balance'[b]
        /\ balance[a] - n <= balance'[a]
    BY <1>1, <1>4, <1>5, Moved
  <1>7. IsClawback(a) => Covered(acc[a], time, balance'[a], staked[a], slashed[a])
    <2> SUFFICES ASSUME IsClawback(a)
                 PROVE  Covered(acc[a], time, balance'[a], staked[a], slashed[a])
      OBVIOUS
    <2>1. /\ balance'[a] \in Nat /\ balance[a] - n \in Nat
          /\ staked[a] + slashed[a] <= staked[a] + slashed[a]
      BY <1>1, <1>2, <1>4, <1>6
    <2> QED BY <1>2, <1>3, <1>4, <1>6, <2>1, CoveredMore
  <1>8. /\ staked' = staked /\ slashed' = slashed
    OBVIOUS
  <1> QED BY <1>1, <1>5, <1>6, <1>7, <1>8, CoinsOfOne

\* A transaction pays the sum of its values.
LEMMA TransactionKeeps ==
    ASSUME CoinsInv, NEW a \in Holders, NEW values \in Seq(Nat), EthereumTx(a, values)
    PROVE  CoinsInv'
  <1> DEFINE n == FoldLeft(+, 0, values)
  <1>1. n \in Nat
    BY SumOfValues
  <1>2. n <= Spendable(a) /\ balance' = Move(a, Payee, n)
    BY DEF EthereumTx
  <1>3. UNCHANGED <<time, acc, staked, grants, slashed>>
    BY DEF EthereumTx, history
  <1> HIDE DEF n
  <1>4. n = 0 \/ n <= balance[a] - Locked(a)
    <2>1. Spendable(a) = 0 \/ Spendable(a) = balance[a] - Locked(a)
      BY DEF Spendable, Max64
    <2>2. CASE Spendable(a) = 0
      BY <1>1, <1>2, <2>2
    <2>3. CASE Spendable(a) = balance[a] - Locked(a)
      BY <1>2, <2>3
    <2> QED BY <2>1, <2>2, <2>3
  <1> QED BY <1>1, <1>2, <1>3, <1>4, PaymentKeeps

\* A change of the funder.
LEMMA FunderKeeps ==
    ASSUME CoinsInv, NEW a \in Holders, NEW f \in Funders, UpdateVestingFunder(a, f)
    PROVE  CoinsInv'
  <1> DEFINE va == acc[a]
             gs == grants[a]
             new == [va EXCEPT !.funder = f]
             df == va.delegatedFree
  <1>1. a \in Addrs /\ IsClawback(a)
    BY VestingAssumption DEF UpdateVestingFunder
  <1>2. /\ acc' = [acc EXCEPT ![a] = new]
        /\ UNCHANGED <<time, balance, staked, grants, slashed>>
    BY DEF UpdateVestingFunder, history
  <1>3. /\ VestingAccountOK(va) /\ FromGrants(va, gs) /\ gs \in Seq(Grants)
        /\ Covered(va, time, balance[a], staked[a], slashed[a])
        /\ time \in Int /\ df \in Nat
    BY <1>1, KindOfAccount, CoveredTerms
  <1>4. /\ VestingAccountOK(new) /\ FromGrants(new, gs)
        /\ new.delegatedFree = df /\ new.original = va.original
        /\ GetVestingCoins(new, time) = GetVestingCoins(va, time)
        /\ GetUnlockedCoins(new, time) = GetUnlockedCoins(va, time)
    <2>1. OthersChanged(va, new, df)
      BY <1>3, OtherFields
    <2> HIDE DEF new, va, gs, df
    <2> QED BY <1>3, <2>1, OtherFieldsChange
  <1>5. grants' = [grants EXCEPT ![a] = gs]
    BY <1>1, <1>2, SameEntries
  <1> HIDE DEF new, gs, va
  <1>6. Covered(new, time, balance[a], staked[a], slashed[a])
    BY <1>3, <1>4 DEF Covered
  <1>7. AccountOK(new, gs) /\ (new # Eth => a \in Holders)
    BY <1>4 DEF AccountOK
  <1>8. /\ balance' \in [Addrs -> Nat] /\ staked' \in [Addrs -> Nat] /\ slashed' \in [Addrs -> Nat]
        /\ \A b \in Addrs \ {a} : /\ acc[b] = Eth \/ balance[b] <= balance'[b]
                                  /\ staked'[b] = staked[b] /\ slashed'[b] = slashed[b]
    BY <1>2 DEF CoinsInv
  <1>9. Covered(new, time, balance'[a], staked'[a], slashed'[a])
    BY <1>2, <1>6
  <1> QED BY <1>1, <1>2, <1>3, <1>5, <1>7, <1>8, <1>9, OneAccountChanges

\* What a step adds to and takes from what one account has.
LEMMA CoinsAdded ==
    ASSUME CoinsInv, NEW a \in Addrs, NEW b \in Nat, NEW s \in Nat,
           balance' = [balance EXCEPT ![a] = b], staked' = [staked EXCEPT ![a] = s]
    PROVE  /\ balance' \in [Addrs -> Nat] /\ staked' \in [Addrs -> Nat]
           /\ balance'[a] = b /\ staked'[a] = s
           /\ \A c \in Addrs \ {a} : balance[c] <= balance'[c] /\ staked'[c] = staked[c]
  <1>1. balance \in [Addrs -> Nat] /\ staked \in [Addrs -> Nat]
    BY DEF CoinsInv
  <1>2. \A c \in Addrs \ {a} : balance'[c] = balance[c] /\ balance[c] \in Nat /\ staked'[c] = staked[c]
    BY <1>1
  <1>3. \A c \in Addrs \ {a} : balance[c] <= balance'[c]
    BY <1>2
  <1>4. balance' \in [Addrs -> Nat] /\ staked' \in [Addrs -> Nat] /\ balance'[a] = b /\ staked'[a] = s
    BY <1>1
  <1> QED BY <1>2, <1>3, <1>4

\* A vesting account whose schedules stay, with other coins.
LEMMA StakingKeeps ==
    ASSUME CoinsInv, NEW a \in Holders, IsClawback(a), NEW new, NEW df, OthersChanged(acc[a], new, df),
           acc' = [acc EXCEPT ![a] = new], NEW b \in Nat, NEW s \in Nat,
           balance' = [balance EXCEPT ![a] = b], staked' = [staked EXCEPT ![a] = s],
           UNCHANGED <<time, grants, slashed>>,
           GetVestingCoins(acc[a], time) <= b,
           balance[a] + staked[a] <= b + s,
           df <= s + slashed[a]
    PROVE  CoinsInv'
  <1> DEFINE va == acc[a]
             gs == grants[a]
             l == slashed[a]
  <1>1. a \in Addrs
    BY VestingAssumption
  <1>2. /\ VestingAccountOK(va) /\ FromGrants(va, gs) /\ gs \in Seq(Grants)
        /\ Covered(va, time, balance[a], staked[a], l)
        /\ time \in Int /\ balance[a] \in Nat /\ staked[a] \in Nat /\ l \in Nat
    BY <1>1, KindOfAccount
  <1>3. /\ VestingAccountOK(new) /\ FromGrants(new, gs) /\ new.original = va.original
        /\ new.delegatedFree = df
        /\ GetVestingCoins(new, time) = GetVestingCoins(va, time)
        /\ GetUnlockedCoins(new, time) = GetUnlockedCoins(va, time)
    <2>1. OthersChanged(va, new, df)
      OBVIOUS
    <2> HIDE DEF va, gs
    <2> QED BY <1>2, <2>1, OtherFieldsChange
  <1>4. grants' = [grants EXCEPT ![a] = gs]
    BY <1>1, SameEntries
  <1>5. /\ balance' \in [Addrs -> Nat] /\ staked' \in [Addrs -> Nat]
        /\ balance'[a] = b /\ staked'[a] = s
        /\ \A c \in Addrs \ {a} : balance[c] <= balance'[c] /\ staked'[c] = staked[c]
    BY <1>1, CoinsAdded
  <1>6. slashed' \in [Addrs -> Nat] /\ slashed' = slashed /\ time' = time
    BY DEF CoinsInv
  <1>7. va.original \in Nat /\ GetUnlockedCoins(va, time) \in Nat
    BY <1>2, CoveredTerms
  <1>8. GetVestingCoins(va, time) <= b
    OBVIOUS
  <1> HIDE DEF va, gs, l
  <1>9. Covered(new, time, b, s, l)
    <2>1. va.original - GetUnlockedCoins(va, time) <= balance[a] + staked[a] + l
      BY <1>2 DEF Covered
    <2>2. new.delegatedFree <= s + l
      BY <1>3 DEF l
    <2>3. new.original - GetUnlockedCoins(new, time) <= b + s + l
      BY <1>2, <1>3, <1>7, <2>1, SMTT(60)
    <2> QED BY <1>3, <1>8, <2>2, <2>3 DEF Covered
  <1>10. Covered(new, time, balance'[a], staked'[a], slashed'[a])
    BY <1>5, <1>6, <1>9 DEF l
  <1>11. AccountOK(new, gs)
    BY <1>3 DEF AccountOK
  <1>12. \A c \in Addrs \ {a} : /\ acc[c] = Eth \/ balance[c] <= balance'[c]
                                /\ staked'[c] = staked[c] /\ slashed'[c] = slashed[c]
    BY <1>5, <1>6
  <1> QED BY <1>1, <1>2, <1>4, <1>5, <1>6, <1>10, <1>11, <1>12, OneAccountChanges

\* The same for an ordinary account.
LEMMA OrdinaryStakingKeeps ==
    ASSUME CoinsInv, NEW a \in Holders, ~IsClawback(a), NEW b \in Nat, NEW s \in Nat,
           balance' = [balance EXCEPT ![a] = b], staked' = [staked EXCEPT ![a] = s],
           UNCHANGED <<time, acc, grants, slashed>>
    PROVE  CoinsInv'
  <1>1. a \in Addrs
    BY VestingAssumption
  <1>2. /\ balance' \in [Addrs -> Nat] /\ staked' \in [Addrs -> Nat]
        /\ \A c \in Addrs \ {a} : balance[c] <= balance'[c] /\ staked'[c] = staked[c]
    BY <1>1, CoinsAdded
  <1>3. slashed' \in [Addrs -> Nat] /\ slashed' = slashed
    BY DEF CoinsInv
  <1>4. \A c \in Addrs \ {a} : /\ acc[c] = Eth \/ balance[c] <= balance'[c]
                               /\ staked'[c] = staked[c] /\ slashed'[c] = slashed[c]
    BY <1>2, <1>3
  <1> QED BY <1>1, <1>2, <1>3, <1>4, CoinsOfOne

\* What has vested may be delegated, and is still there.
LEMMA DelegateKeeps ==
    ASSUME CoinsInv, NEW a \in Holders, NEW n \in Amounts, Delegate(a, n)
    PROVE  CoinsInv'
  <1> DEFINE va == acc[a]
             b == balance[a]
             s == staked[a]
             l == slashed[a]
             v == GetVestingCoins(va, time)
             df == va.delegatedFree + n
  <1>1. a \in Addrs /\ n \in Nat /\ n >= 1
    BY VestingAssumption DEF Amounts
  <1>2. b \in Nat /\ s \in Nat /\ l \in Nat /\ time \in Int
    BY <1>1, KindOfAccount
  <1>3. /\ n <= Delegatable(a) /\ acc' = TrackDelegation(a, n)
        /\ balance' = [balance EXCEPT ![a] = b - n] /\ staked' = [staked EXCEPT ![a] = s + n]
        /\ UNCHANGED <<time, grants, slashed>>
    BY DEF Delegate, history
  <1>4. s + n \in Nat
    BY <1>1, <1>2
  <1>5. CASE IsClawback(a)
    <2>1. VestingAccountOK(va) /\ Covered(va, time, b, s, l)
      BY <1>1, <1>5, KindOfAccount
    <2>2. v \in Nat /\ va.delegatedFree \in Nat
      BY <1>2, <2>1, CoveredTerms
    <2>3. n <= Max64(0, b - v)
      BY <1>3, <1>5 DEF Delegatable
    <2>4. acc' = [acc EXCEPT ![a] = [va EXCEPT !.delegatedFree = df]]
      BY <1>3, <1>5 DEF TrackDelegation
    <2>5. va.delegatedFree <= s + l
      BY <2>1 DEF Covered
    <2> DEFINE new == [va EXCEPT !.delegatedFree = df]
    <2>6. OthersChanged(va, new, df)
      <3>1. df \in Nat
        BY <1>1, <2>2
      <3>2. PICK f \in Funders : TRUE
        BY <2>1 DEF VestingAccountOK, ClawbackAccount
      <3> HIDE DEF va, df
      <3> QED BY <2>1, <3>1, <3>2, OtherFields
    <2> HIDE DEF va, b, s, l, v, new
    <2>7. n <= b - v
      BY <1>1, <1>2, <2>2, <2>3 DEF Max64
    <2>8. b - n \in Nat /\ v <= b - n /\ b + s <= (b - n) + (s + n) /\ df <= (s + n) + l
      BY <1>1, <1>2, <2>2, <2>5, <2>7
    <2> HIDE DEF df
    <2> QED BY <1>3, <1>4, <1>5, <2>4, <2>6, <2>8, StakingKeeps DEF va, b, s, l, v, new
  <1>6. CASE ~IsClawback(a)
    <2>1. n <= b /\ acc' = acc
      BY <1>3, <1>6 DEF Delegatable, TrackDelegation
    <2>2. b - n \in Nat
      BY <1>1, <1>2, <2>1
    <2> QED BY <1>3, <1>4, <1>6, <2>1, <2>2, OrdinaryStakingKeeps
  <1> QED BY <1>5, <1>6

\* What comes back from staking counts as free coins no longer.
LEMMA UnbondingKeeps ==
    ASSUME CoinsInv, NEW a \in Holders, NEW n \in Amounts, CompleteUnbonding(a, n)
    PROVE  CoinsInv'
  <1> DEFINE va == acc[a]
             b == balance[a]
             s == staked[a]
             l == slashed[a]
             v == GetVestingCoins(va, time)
             free == Min64(n, va.delegatedFree)
             df == va.delegatedFree - free
             dv == va.delegatedVesting - Min64(n - free, va.delegatedVesting)
  <1>1. a \in Addrs /\ n \in Nat /\ n >= 1
    BY VestingAssumption DEF Amounts
  <1>2. b \in Nat /\ s \in Nat /\ l \in Nat /\ time \in Int
    BY <1>1, KindOfAccount
  <1>3. /\ n <= s
        /\ balance' = [balance EXCEPT ![a] = b + n] /\ staked' = [staked EXCEPT ![a] = s - n]
        /\ UNCHANGED <<time, grants, slashed>>
    BY DEF CompleteUnbonding, history
  <1>4. s - n \in Nat /\ b + n \in Nat
    BY <1>1, <1>2, <1>3
  <1>5. CASE IsClawback(a)
    <2> DEFINE new == [va EXCEPT !.delegatedFree = df, !.delegatedVesting = dv]
    <2>1. VestingAccountOK(va) /\ Covered(va, time, b, s, l)
      BY <1>1, <1>5, KindOfAccount
    <2>2. v \in Nat /\ va.delegatedFree \in Nat /\ va.delegatedVesting \in Nat
      BY <1>2, <2>1, CoveredTerms
    <2>3. acc' = [acc EXCEPT ![a] = new]
      BY <1>1, <1>5 DEF CompleteUnbonding, CoinsInv
    <2>4. v <= b /\ va.delegatedFree <= s + l
      BY <2>1 DEF Covered
    <2>5. df \in Nat /\ dv \in Nat /\ df <= (s - n) + l
      <3> DEFINE f == va.delegatedFree
                 w == va.delegatedVesting
      <3> HIDE DEF f, w, s, l
      <3>1. f \in Nat /\ w \in Nat /\ f <= s + l
        BY <2>2, <2>4 DEF f, w
      <3>2. /\ Min64(n, f) \in Nat /\ f - Min64(n, f) \in Nat /\ f - Min64(n, f) <= (s - n) + l
            /\ n - Min64(n, f) \in Nat
        BY <1>1, <1>2, <1>3, <3>1 DEF Min64
      <3>3. w - Min64(n - Min64(n, f), w) \in Nat
        BY <3>1, <3>2 DEF Min64
      <3> QED BY <3>2, <3>3 DEF f, w
    <2>6. OthersChanged(va, new, df)
      <3>1. PICK f \in Funders : TRUE
        BY <2>1 DEF VestingAccountOK, ClawbackAccount
      <3> HIDE DEF va, df, dv
      <3> QED BY <2>1, <2>5, <3>1, OtherFields
    <2> HIDE DEF df, dv, va, b, s, l, v, new
    <2>7. v <= b + n /\ b + s <= (b + n) + (s - n)
      BY <1>1, <1>2, <2>2, <2>4
    <2> QED BY <1>3, <1>4, <1>5, <2>3, <2>5, <2>6, <2>7, StakingKeeps DEF va, b, s, l, v
  <1>6. CASE ~IsClawback(a)
    <2>1. acc' = acc
      BY <1>6 DEF CompleteUnbonding
    <2> QED BY <1>3, <1>4, <1>6, <2>1, OrdinaryStakingKeeps
  <1> QED BY <1>5, <1>6

\* Slashed coins are gone and accounted for.
LEMMA SlashKeeps ==
    ASSUME CoinsInv, NEW a \in Holders, NEW n \in Amounts, Slash(a, n)
    PROVE  CoinsInv'
  <1> DEFINE b == balance[a]
             s == staked[a]
             l == slashed[a]
  <1>1. a \in Addrs /\ n \in Nat
    BY VestingAssumption DEF Amounts
  <1>2. b \in Nat /\ s \in Nat /\ l \in Nat /\ time \in Int
    BY <1>1, KindOfAccount
  <1>3. /\ n <= s
        /\ staked' = [staked EXCEPT ![a] = s - n] /\ slashed' = [slashed EXCEPT ![a] = l + n]
        /\ UNCHANGED <<time, acc, balance, grants>>
    BY DEF Slash
  <1>4. balance \in [Addrs -> Nat] /\ staked \in [Addrs -> Nat] /\ slashed \in [Addrs -> Nat]
    BY DEF CoinsInv
  <1>5. /\ s - n \in Nat /\ l + n \in Nat /\ b <= b /\ s + l <= (s - n) + (l + n)
    BY <1>1, <1>2, <1>3
  <1> HIDE DEF b, s, l
  <1>6. /\ balance' \in [Addrs -> Nat] /\ staked' \in [Addrs -> Nat] /\ slashed' \in [Addrs -> Nat]
        /\ balance'[a] = b /\ staked'[a] = s - n /\ slashed'[a] = l + n
    BY <1>1, <1>3, <1>4, <1>5 DEF b
  <1>7. \A c \in Addrs \ {a} : /\ acc[c] = Eth \/ balance[c] <= balance'[c]
                               /\ staked'[c] = staked[c] /\ slashed'[c] = slashed[c]
    BY <1>3, <1>4
  <1>8. IsClawback(a) => Covered(acc[a], time, balance'[a], staked'[a], slashed'[a])
    <2> SUFFICES ASSUME IsClawback(a)
                 PROVE  Covered(acc[a], time, b, s - n, l + n)
      BY <1>6
    <2>1. VestingAccountOK(acc[a]) /\ Covered(acc[a], time, b, s, l)
      BY <1>1, KindOfAccount DEF b, s, l
    <2> QED BY <1>2, <1>5, <2>1, CoveredMore
  <1> QED BY <1>1, <1>3, <1>6, <1>7, <1>8, CoinsOfOne

\* Time releases coins.
LEMMA TimeKeeps ==
    ASSUME CoinsInv, NextBlock
    PROVE  CoinsInv'
  <1>1. /\ time' = time + 1 /\ time \in Nat
        /\ UNCHANGED <<acc, balance, staked, grants, slashed>>
    BY DEF CoinsInv, NextBlock, history
  <1>2. ASSUME NEW a \in Addrs, acc[a] # Eth
        PROVE  Covered(acc[a], time', balance[a], staked[a], slashed[a])
    <2>1. /\ VestingAccountOK(acc[a])
          /\ Covered(acc[a], time, balance[a], staked[a], slashed[a])
          /\ time \in Int /\ balance[a] \in Nat /\ staked[a] \in Nat /\ slashed[a] \in Nat
      BY <1>2, KindOfAccount
    <2>2. time' \in Int /\ time <= time'
      BY <1>1
    <2> DEFINE u == time'
    <2>3. u \in Int /\ time <= u
      BY <2>2
    <2> HIDE DEF u
    <2>4. Covered(acc[a], u, balance[a], staked[a], slashed[a])
      BY <2>1, <2>3, CoveredLater
    <2> QED BY <2>4 DEF u
  <1>3. time' \in Nat
    BY <1>1
  <1> QED BY <1>1, <1>2, <1>3 DEF CoinsInv

\* Every step keeps the coins covered.
LEMMA NextCoins ==
    CoinsInv /\ ProposersInv /\ [Next]_vars => CoinsInv'
  <1> SUFFICES ASSUME CoinsInv, ProposersInv, [Next]_vars PROVE CoinsInv'
    OBVIOUS
  <1>1. ASSUME UNCHANGED <<time, acc, balance, staked, grants, slashed>> PROVE CoinsInv'
    BY <1>1 DEF CoinsInv
  <1>2. CASE Messages
    <2>1. ASSUME NEW a \in Holders, NEW d \in Funders, Clawback(a, d) PROVE CoinsInv'
      <3>1. /\ IsClawback(a) /\ TransferClawback(a, d)
            /\ UNCHANGED <<time, staked, slashed>>
        BY <2>1 DEF Clawback, HasPeriods
      <3>2. d \in Addrs
        BY DEF Funders
      <3> QED BY <3>1, <3>2, TransferKeeps
    <2>2. ASSUME NEW a \in Holders, ConvertVestingAccount(a) PROVE CoinsInv'
      <3>1. BackToEth(a) /\ UNCHANGED <<time, staked, slashed>> /\ balance' = balance
        BY <2>2 DEF ConvertVestingAccount
      <3>2. balance \in [Addrs -> Nat]
        BY DEF CoinsInv
      <3>3. a \in Addrs
        BY VestingAssumption
      <3>4. \A b \in Addrs \ {a} : balance[b] <= balance'[b]
        BY <3>1, <3>2
      <3> QED BY <3>1, <3>2, <3>3, <3>4, CoinsBack
    <2> QED BY <1>2, <2>1, <2>2, CreateKeeps, FundKeeps, FunderKeeps DEF Messages
  <1>3. CASE Governance
    <2>1. ASSUME NEW id \in Proposals, NEW passes, EndVoting(id, passes) PROVE CoinsInv'
      <3> DEFINE a == proposal[id].account
      <3>1. UNCHANGED <<time, staked, slashed>> /\ proposal[id].status = "voting"
        BY <2>1 DEF EndVoting
      <3>2. CASE passes /\ CanGovClawback(a)
        <4>1. TransferClawback(a, Pool) /\ IsClawback(a)
          BY <2>1, <3>2 DEF EndVoting, CanGovClawback, HasPeriods
        <4>2. a \in Holders /\ Pool \in Addrs
          BY <3>1, CoinsAssumption DEF ProposersInv
        <4> HIDE DEF a
        <4> QED BY <3>1, <4>1, <4>2, TransferKeeps
      <3>3. CASE ~(passes /\ CanGovClawback(a))
        BY <1>1, <2>1, <3>1, <3>3 DEF EndVoting
      <3> QED BY <3>2, <3>3
    <2> QED BY <1>1, <1>3, <2>1
      DEF Governance, SubmitProposal, AddDeposit, FailMinDeposit, history
  <1>4. CASE Movements
    <2>1. ASSUME NEW a \in Holders, NEW n \in Amounts, Send(a, n) PROVE CoinsInv'
      <3>1. /\ n <= balance[a] - Locked(a) /\ balance' = Move(a, Payee, n)
            /\ UNCHANGED <<time, acc, staked, grants, slashed>>
        BY <2>1 DEF Send, history
      <3>2. n \in Nat
        BY DEF Amounts
      <3> QED BY <3>1, <3>2, PaymentKeeps
    <2>2. ASSUME NEW a \in Holders, NEW n \in Amounts, NEW m \in Amounts, EthereumTx(a, <<n, m>>)
          PROVE  CoinsInv'
      <3>1. <<n, m>> \in Seq(Nat)
        BY DEF Amounts
      <3> QED BY <2>2, <3>1, TransactionKeeps
    <2> QED BY <1>4, <2>1, <2>2, DelegateKeeps, UnbondingKeeps, SlashKeeps DEF Movements
  <1>5. CASE UNCHANGED vars
    BY <1>1, <1>5 DEF vars, history
  <1> QED BY <1>2, <1>3, <1>4, <1>5, TimeKeeps DEF Next

-----------------------------------------------------------------------------
(* What the accounts hold and what the schedules say.                      *)

\* The inductive invariant of the theorems that follow.
AccountsInv == MarksInv /\ ProposersInv /\ CoinsInv

\* At genesis all accounts are ordinary and nothing is proposed.
LEMMA InitAccounts == Init => AccountsInv
  <1> SUFFICES ASSUME Init PROVE AccountsInv
    OBVIOUS
  <1>1. /\ proposal = [id \in Proposals |-> NoProposal] /\ activeProposal = {}
        /\ time = 1 /\ acc = [a \in Addrs |-> Eth] /\ grants = [a \in Addrs |-> <<>>]
        /\ balance = InitBalance
        /\ staked = [a \in Addrs |-> 0] /\ slashed = [a \in Addrs |-> 0]
    BY DEF Init
  <1>2. ProposalOK(NoProposal) /\ NoProposal.status = "none"
    BY DEF NoProposal, ProposalOK
  <1>3. MarksInv
    BY <1>1, <1>2 DEF MarksInv
  <1>4. ProposersInv
    BY <1>1, <1>2 DEF ProposersInv
  <1>5. CoinsInv
    BY <1>1, OrdinaryOK, CoinsAssumption DEF CoinsInv
  <1> QED BY <1>3, <1>4, <1>5 DEF AccountsInv

\* And every step keeps what is so.
LEMMA NextAccounts == AccountsInv /\ [Next]_vars => AccountsInv'
  BY NextMarks, NextProposers, NextCoins DEF AccountsInv

\* What covers the coins of an account covers both kinds of them.
LEMMA CoinsCovered == CoinsInv => UnvestedAtHand /\ LockedStaysIn
  <1> SUFFICES ASSUME CoinsInv, NEW a \in Holders, IsClawback(a)
               PROVE  /\ GetVestingCoins(acc[a], time) <= balance[a]
                      /\ acc[a].original - GetUnlockedVestedCoins(acc[a], time)
                           <= balance[a] + staked[a] + slashed[a]
    BY DEF UnvestedAtHand, LockedStaysIn
  <1> DEFINE va == acc[a]
             b == balance[a]
             s == staked[a]
             l == slashed[a]
  <1>1. a \in Addrs
    BY VestingAssumption
  <1>2. /\ VestingAccountOK(va) /\ Covered(va, time, b, s, l) /\ time \in Int
        /\ b \in Nat /\ s \in Nat /\ l \in Nat
    BY <1>1, KindOfAccount
  <1> HIDE DEF va, b, s, l
  <1>3. /\ GetVestedCoins(va, time) \in Nat /\ GetUnlockedCoins(va, time) \in Nat
        /\ va.original \in Nat
        /\ GetVestingCoins(va, time) = va.original - GetVestedCoins(va, time)
    BY <1>2, CoveredTerms
  <1>4. /\ GetVestingCoins(va, time) <= b
        /\ va.original - GetUnlockedCoins(va, time) <= b + s + l
    BY <1>2 DEF Covered
  <1>5. va.original - GetVestedCoins(va, time) <= b + s + l
    BY <1>2, <1>3, <1>4
  <1>6. va.original - GetUnlockedVestedCoins(va, time) <= b + s + l
    BY <1>4, <1>5 DEF GetUnlockedVestedCoins, Min64
  <1> QED BY <1>4, <1>6 DEF va, b, s, l

\* And the schedules say what the grants and a clawback make of them.
LEMMA SchedulesSay == CoinsInv => SchedulesCombine
  <1> SUFFICES ASSUME CoinsInv PROVE SchedulesCombine
    OBVIOUS
  <1>1. ASSUME NEW a \in Holders, IsClawback(a)
        PROVE  /\ VestingAccountOK(acc[a]) /\ FromGrants(acc[a], grants[a]) /\ time \in Int
    BY <1>1, VestingAssumption, KindOfAccount
  <1>2. GrantsAddUp
    <2> SUFFICES ASSUME NEW a \in Holders, NEW t \in 0..(MaxTime + 1),
                        IsClawback(a), t > acc[a].start
                 PROVE  /\ GetVestedCoins(acc[a], t) = DueOfAll(grants[a], FALSE, t)
                        /\ GetUnlockedCoins(acc[a], t) = DueOfAll(grants[a], TRUE, t)
      BY DEF GrantsAddUp
    <2> DEFINE va == acc[a]
    <2>1. VestingAccountOK(va) /\ FromGrants(va, grants[a]) /\ t > va.start
      BY <1>1
    <2> HIDE DEF va
    <2>2. t \in Int /\ va.start \in Int
      BY <2>1 DEF VestingAccountOK, ClawbackAccount
    <2>3. ~(t <= va.start)
      BY <2>1, <2>2
    <2>4. /\ GetVestedCoins(va, t) = Due(va.start, va.vesting, t)
          /\ GetUnlockedCoins(va, t) = Due(va.start, va.lockup, t)
      BY <2>1, <2>2, <2>3, Views
    <2>5. /\ Due(va.start, va.vesting, t) = DueOfAll(grants[a], FALSE, t)
          /\ Due(va.start, va.lockup, t) = DueOfAll(grants[a], TRUE, t)
      BY <2>1, <2>2 DEF FromGrants
    <2> QED BY <2>4, <2>5 DEF va
  <1>3. ClawbackKeepsUnlocking
    <2> SUFFICES ASSUME NEW a \in Holders, NEW t \in time..(MaxTime + 1), IsClawback(a)
                 PROVE  LET after == ComputeClawback(acc[a], time).account
                            vested == GetVestedCoins(acc[a], time)
                        IN  /\ GetVestedCoins(after, t) = vested
                            /\ GetUnlockedCoins(after, t)
                                 = Min64(GetUnlockedCoins(acc[a], t), vested)
      BY DEF ClawbackKeepsUnlocking
    <2>1. VestingAccountOK(acc[a]) /\ time \in Int
      BY <1>1
    <2>2. t \in Int /\ time <= t
      BY <2>1
    <2> QED BY <2>1, <2>2, ClawbackKeeps
  <1> QED BY <1>2, <1>3 DEF SchedulesCombine

(***************************************************************************)
(* A clawback finds what it takes: the coins of an account that have not   *)
(* vested are in it, whatever grants, payments, delegations, unbondings    *)
(* and slashes it has seen (transferClawback relies on it).                *)
(***************************************************************************)
THEOREM UnvestedIsAtHand == Spec => []UnvestedAtHand
  BY InitAccounts, NextAccounts, CoinsCovered, PTL DEF Spec, AccountsInv

(***************************************************************************)
(* Coins that are locked or unvested are in the account, staked, or were   *)
(* slashed, although addGrant forgets which of the delegated coins were    *)
(* free and an unbonding takes free ones first (LockedCoins).              *)
(***************************************************************************)
THEOREM LockedCoinsStay == Spec => []LockedStaysIn
  BY InitAccounts, NextAccounts, CoinsCovered, PTL DEF Spec, AccountsInv

(***************************************************************************)
(* The schedules of an account read as the sum of its grants, at any time  *)
(* after its start, and a clawback leaves the smaller of what unlocks and  *)
(* what had vested (DisjunctPeriods, ConjunctPeriods).                     *)
(***************************************************************************)
THEOREM SchedulesAreCombined == Spec => []SchedulesCombine
  BY InitAccounts, NextAccounts, SchedulesSay, PTL DEF Spec, AccountsInv

-----------------------------------------------------------------------------
(* The staking gate.                                                       *)

(***************************************************************************)
(* MsgCreateValidator is a delegation as far as accounts are concerned, so *)
(* the chain with the gate has no behaviour of x/vesting that the chain    *)
(* without it has not.                                                     *)
(***************************************************************************)
THEOREM GateImplementsVesting == GateSpec => Spec
  <1>1. GateInit => Init
    BY DEF GateInit
  <1>2. [GateNext]_<<vars, gateVars>> => [Next]_vars
    <2>1. ASSUME NEW a \in Holders, NEW n \in Amounts, NEW m, NEW answer,
                 CreateValidator(a, n, m, answer)
          PROVE  Next
      <3>1. Delegate(a, n)
        BY <2>1, Zenon DEF CreateValidator
      <3> QED
        BY <3>1 DEF Next, Movements
    <2> QED
      BY <2>1, Zenon DEF GateNext, Next
  <1> QED
    BY <1>1, <1>2, PTL DEF GateSpec, Spec

(***************************************************************************)
(* So the exemption from votes is kept behind the gate.                    *)
(***************************************************************************)
THEOREM GateExemptionKept == GateSpec => []GovChoiceKept
  BY GateImplementsVesting, ExemptionKept, PTL

(***************************************************************************)
(* And votes are marked behind the gate.                                   *)
(***************************************************************************)
THEOREM GateVotesAreMarked == GateSpec => []VotesMarked
  BY GateImplementsVesting, VotesAreMarked, PTL

(***************************************************************************)
(* And a clawback finds behind the gate what it takes.                     *)
(***************************************************************************)
THEOREM GateUnvestedIsAtHand == GateSpec => []UnvestedAtHand
  BY GateImplementsVesting, UnvestedIsAtHand, PTL

(***************************************************************************)
(* Locked coins stay behind the gate.                                      *)
(***************************************************************************)
THEOREM GateLockedCoinsStay == GateSpec => []LockedStaysIn
  BY GateImplementsVesting, LockedCoinsStay, PTL

(***************************************************************************)
(* Schedules are combined behind the gate.                                 *)
(***************************************************************************)
THEOREM GateSchedulesAreCombined == GateSpec => []SchedulesCombine
  BY GateImplementsVesting, SchedulesAreCombined, PTL
=============================================================================
