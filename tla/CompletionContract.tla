------------------------- MODULE CompletionContract -------------------------
(***************************************************************************)
(* What the harness promises of a deep task in the treated arm: a          *)
(* completion claim is accepted only when no code was changed, or when a   *)
(* verification that saw all of the changes passed ("deep code changes     *)
(* require fresh successful verification", verify_state.py).  EvidenceGate *)
(* implements it with concurrent tools, a completion sequencer, a ledger   *)
(* and a stop gate.                                                        *)
(***************************************************************************)
VARIABLES
    gated,    \* the task is one whose completion must be verified
    work,     \* the code: "untouched", "unverified" or "verified"
    outcome   \* of the run: "open", "completed" or "given_up"

cvars == << gated, work, outcome >>

CInit == gated \in BOOLEAN /\ work = "untouched" /\ outcome = "open"

Change ==
    /\ outcome = "open"
    /\ work' = "unverified"
    /\ UNCHANGED << gated, outcome >>

Verify ==
    /\ outcome = "open"
    /\ work = "unverified"
    /\ work' = "verified"
    /\ UNCHANGED << gated, outcome >>

Accept ==
    /\ outcome = "open"
    /\ gated => work # "unverified"
    /\ outcome' = "completed"
    /\ UNCHANGED << gated, work >>

\* A run that gives up may have left a change behind.
GiveUp ==
    /\ outcome = "open"
    /\ outcome' = "given_up"
    /\ work' \in {work, "unverified"}
    /\ UNCHANGED gated

CNext == Change \/ Verify \/ Accept \/ GiveUp

CSpec == CInit /\ [][CNext]_cvars
=============================================================================
