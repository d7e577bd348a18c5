---------------------------- MODULE StakingGate -----------------------------
(***************************************************************************)
(* MsgCreateValidator in the message server of x/staking: the checks that  *)
(* this chain adds (customValidatorChecks) with the answers of the         *)
(* ValidatorApproval and NFT contracts, the check that vesting accounts    *)
(* delegate no unvested coins, and the self-delegation.                    *)
(***************************************************************************)
EXTENDS Vesting

CONSTANTS
    Failed,           \* the answer of a call that fails or returns no data
    ContractAnswers,  \* what the contracts may answer, see below
    MinSelfDelegations, \* of the messages offered
    DefaultTokens,    \* required if the contract does not say (5 NXQ)
    DefaultNFTs       \* required if the contract does not say (5)

VARIABLES
    genesis,          \* the height is at most 1
    validators,       \* the operators of validators
    admitted          \* history: the operators the contracts had let through

gateVars == <<genesis, validators, admitted>>

\* An answer, as the keeper parses it: approved is a boolean or Failed; required
\* holds tokens and nfts or is Failed; nfts, the operator's, is a number or
\* Failed.  The data of a call that reverts with a reason is parsed as if the
\* call had succeeded.
Required(answer) ==
    IF answer.required = Failed
    THEN [tokens |-> DefaultTokens, nfts |-> DefaultNFTs]
    ELSE answer.required

MeetsRequirements(answer, minSelfDelegation) ==
    /\ answer.nfts # Failed
    /\ answer.nfts >= Required(answer).nfts
    /\ minSelfDelegation >= Required(answer).tokens

\* The error for an operator that is not approved wraps a nil error, which is
\* nil: the message passes, and the checks that follow are skipped.
customValidatorChecks(answer, minSelfDelegation) ==
    \/ genesis
    \/ answer.approved = FALSE
    \/ answer.approved = TRUE /\ MeetsRequirements(answer, minSelfDelegation)

CreateValidator(a, n, minSelfDelegation, answer) ==
    /\ a \notin validators
    /\ customValidatorChecks(answer, minSelfDelegation)
    /\ minSelfDelegation <= n
    /\ Delegate(a, n)
    /\ validators' = validators \cup {a}
    /\ admitted' = IF \/ genesis
                      \/ answer.approved = TRUE /\ MeetsRequirements(answer, minSelfDelegation)
                   THEN admitted \cup {a} ELSE admitted
    /\ UNCHANGED genesis

GateInit == Init /\ genesis = TRUE /\ validators = {} /\ admitted = {}

GateNext ==
    \/ \E a \in Holders, n \in Amounts, m \in MinSelfDelegations, answer \in ContractAnswers :
          CreateValidator(a, n, m, answer)
    \/ (Messages \/ Governance \/ Movements) /\ UNCHANGED gateVars
    \/ NextBlock /\ genesis' = FALSE /\ UNCHANGED <<validators, admitted>>

GateSpec == GateInit /\ [][GateNext]_<<vars, gateVars>>

-----------------------------------------------------------------------------
\* Every validator that joins after genesis is approved, holds the NFTs and
\* has the self-delegation that the contracts require (customValidatorChecks).
ValidatorsAdmitted == validators \subseteq admitted
=============================================================================
