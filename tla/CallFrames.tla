----------------------------- MODULE CallFrames -----------------------------
(***************************************************************************)
(* What a state database promises the EVM's call frames: a frame that      *)
(* fails leaves the state as it was when the frame was entered, and nothing*)
(* that happens inside a frame touches what the frames around it would     *)
(* return to.  The state is what the transaction would leave if it ended   *)
(* now: nonces, the warm addresses of the access list, and the rest.       *)
(***************************************************************************)
EXTENDS Integers, Sequences, SequencesExt

VARIABLES
    ledger,           \* [nonce, warm, rest]
    saved,            \* one state for each open frame, the innermost last
    outcome           \* how the last call ended

frameVars == <<ledger, saved, outcome>>

\* A failing call still warms addresses and may use a nonce of a creator.
PreparedFrom(l, k) ==
    /\ l.rest = k.rest
    /\ k.warm \subseteq l.warm
    /\ \/ l.nonce = k.nonce
       \/ \E a \in DOMAIN k.nonce : l.nonce = [k.nonce EXCEPT ![a] = @ + 1]

FramesInit == saved = << >> /\ outcome = "none"

Work ==
    /\ saved # << >>
    /\ UNCHANGED <<saved, outcome>>

Enter ==
    /\ saved' # << >>
    /\ Front(saved') = saved
    /\ PreparedFrom(Last(saved'), ledger)
    /\ UNCHANGED outcome

\* The last work of a frame, and its end.
Return ==
    /\ saved # << >>
    /\ saved' = Front(saved)
    /\ outcome' = "ok"

Fail ==
    /\ saved # << >>
    /\ saved' = Front(saved)
    /\ ledger' = Last(saved)
    /\ outcome' = "failed"

\* A call that is over at once.
CallReturns == UNCHANGED saved /\ outcome' = "ok"

CallFails ==
    /\ PreparedFrom(ledger', ledger)
    /\ UNCHANGED saved
    /\ outcome' = "failed"

End == saved = << >> /\ UNCHANGED saved /\ outcome' = "done"

FramesNext ==
    Work \/ Enter \/ Return \/ Fail \/ CallReturns \/ CallFails \/ End

FramesSpec == FramesInit /\ [][FramesNext]_frameVars
=============================================================================
