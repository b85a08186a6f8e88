------------------------------ MODULE HookRules ------------------------------
(***************************************************************************)
(* What a hook does to a turn's ledger, abstracted to the concern of two   *)
(* hooks at once: a ledger is the set of hooks whose transition it         *)
(* carries.  A spawn request is recorded only while the budget lasts,      *)
(* which is the one decision of LoopPolicy here that an earlier transition *)
(* of another hook can change.                                             *)
(***************************************************************************)
EXTENDS Integers, FiniteSets

CONSTANTS
    Procs,     \* hook processes of one turn
    Spawners,  \* ... those that handle the PreToolUse of a spawn
    Resetters, \* ... those that handle a prompt
    Budget     \* _MAX_TOTAL_AGENTS

ASSUME ProcsAssumption ==
    /\ IsFiniteSet(Procs)
    /\ Spawners \subseteq Procs
    /\ Resetters \subseteq Procs \ Spawners
ASSUME BudgetAssumption == Budget \in Nat

\* The transition of hook p: a prompt starts a fresh ledger, a spawn over budget is
\* denied, any other event is recorded.
Transition(p, led) ==
    IF p \in Resetters THEN {}
    ELSE IF p \in Spawners /\ Cardinality(led \cap Spawners) >= Budget THEN led
    ELSE led \cup {p}
=============================================================================
