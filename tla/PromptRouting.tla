--------------------------- MODULE PromptRouting ---------------------------
(***************************************************************************)
(* What the prompt hook reads out of a prompt: the billing confirmation,   *)
(* the control line and the route (super_sol_routes.py), and the short cut *)
(* by which prompt_dispatcher.py leaves a generic prompt alone.  The text  *)
(* of a prompt is abstracted to what the phrase tables tell apart.         *)
(***************************************************************************)
EXTENDS Integers, FiniteSetsExt

\* _CONTRACT_SIGNALS: the weight of each signal of each contract.
Weights ==
    [ownership_aliasing |-> [copy |-> 2, alias |-> 2, immutable |-> 1],
     input_error_semantics |->
        [unknown |-> 2, arity |-> 2, usage |-> 1, return_code |-> 1, malformed |-> 1],
     retry_state |-> [after_failure |-> 2, identity |-> 2, duplicate |-> 2, idempotent |-> 2],
     concurrency_cancellation |->
        [race |-> 2, concurrent |-> 2, cancellation |-> 1, coalescing |-> 1],
     failure_atomicity |->
        [atomic |-> 2, all_or_nothing |-> 2, staged_commit |-> 2, replace_after_success |-> 2,
         cleanup_after_failure |-> 2, duplicate_side_effect |-> 2, rollback |-> 2,
         validation |-> 1, partial |-> 2],
     migration_compatibility |->
        [core |-> 2, compatibility |-> 2, future |-> 1, idempotent |-> 1],
     security_path_boundary |-> [traversal |-> 2, symlink |-> 2, boundary |-> 1, secret |-> 1]]
Contracts == DOMAIN Weights
ActivationScore == 2
ConfidenceMargin == 1

PassThrough == "pass_through"
NoContract == "no_contract"
\* _CONTRACT_ROUTE: the contracts with a specialist route.
SpecialistRoute ==
    [concurrency_cancellation |-> "concurrency_state",
     failure_atomicity |-> "failure_atomicity",
     migration_compatibility |-> "migration_compatibility",
     security_path_boundary |-> "security_boundary"]
Routes == {SpecialistRoute[c] : c \in DOMAIN SpecialistRoute}

\* A prompt: does it hold a key-shaped secret, the confirmation line, a refusal of
\* billing; its control line; an explaining phrase, an action phrase, which signals.
Controls == {"none", "off", PassThrough, "unknown"} \cup Routes
Signals == UNION {{<< c, s >> : s \in DOMAIN Weights[c]} : c \in Contracts}
IsPrompt(prompt) ==
    /\ prompt.control \in Controls
    /\ prompt.signals \subseteq Signals
    /\ {prompt.secret, prompt.approves, prompt.refuses, prompt.explains, prompt.acts} \subseteq BOOLEAN

\* _billable_authorized
BillableAuthorized(prompt) == prompt.approves /\ ~prompt.refuses

Score(prompt, contract) ==
    MapThenSumSet(LAMBDA signal : Weights[contract][signal],
                  {s \in DOMAIN Weights[contract] : << contract, s >> \in prompt.signals})

\* The contract that leads every other by the margin.
Leads(prompt, contract) ==
    /\ Score(prompt, contract) >= ActivationScore
    /\ \A other \in Contracts \ {contract} :
        Score(prompt, contract) - Score(prompt, other) >= ConfidenceMargin

Decided(route, contract, forced, actionable, warned) ==
    [route |-> route, contract |-> contract, forced |-> forced, actionable |-> actionable,
     warned |-> warned]

\* route_prompt
RoutePrompt(prompt) ==
    LET leaders == {c \in Contracts : Leads(prompt, c)} IN
    CASE prompt.control \in Routes -> Decided(prompt.control, NoContract, TRUE, TRUE, FALSE)
      [] prompt.control \in {"off", PassThrough} ->
            Decided(PassThrough, NoContract, TRUE, FALSE, FALSE)
      [] prompt.control = "unknown" -> Decided(PassThrough, NoContract, TRUE, FALSE, TRUE)
      [] prompt.control = "none" /\ (prompt.explains \/ ~prompt.acts) ->
            Decided(PassThrough, NoContract, FALSE, FALSE, FALSE)
      [] prompt.control = "none" /\ ~prompt.explains /\ prompt.acts /\ leaders = {} ->
            Decided(PassThrough, NoContract, FALSE, TRUE, FALSE)
      [] OTHER ->
            LET contract == CHOOSE c \in leaders : TRUE IN
            Decided(IF contract \in DOMAIN SpecialistRoute THEN SpecialistRoute[contract]
                    ELSE PassThrough,
                    contract, FALSE, TRUE, FALSE)

\* Mutant of Guarded: the action phrases are left to the router.
GuardedByControl(prompt, selective) ==
    prompt.approves \/ prompt.refuses \/ prompt.control # "none"

\* The phrases that keep a prompt off the short cut of the dispatcher.
Guarded(prompt, selective) ==
    \/ prompt.approves \/ prompt.refuses \/ prompt.control # "none"
    \/ selective /\ (prompt.acts \/ prompt.signals # {})
=============================================================================
