----------------------------- MODULE LoopPolicy -----------------------------
(***************************************************************************)
(* The loop-fuse policy of the Super SOL plugin                            *)
(* (plugins/super-sol/hooks/super_sol_loop_policy.py) and the ledger it    *)
(* works on (super_sol_loop_state.py).  The policy is a set of pure        *)
(* functions from a ledger and one lifecycle event to a new ledger and a   *)
(* decision; this module translates them one by one and has no variables.  *)
(* LoopFuse applies them to a running turn and LoopStore persists what     *)
(* they return.                                                            *)
(*                                                                         *)
(* A ledger keeps the field names of the class LoopLedger.  Two fields are *)
(* abstracted: schema_version is a constant of the code and last_event_ns  *)
(* is written but never read, so that "touching" a ledger is no change.    *)
(* active_agents is the set of the identifiers in the tuple: the code      *)
(* appends an identifier only when it is not in it.                        *)
(***************************************************************************)
EXTENDS Integers, Sequences, FiniteSets, SequencesExt

CONSTANTS
    Fingerprints,        \* keyed digests of tool calls
    Agents,              \* keyed digests of child identifiers
    OverflowMark,        \* the reserved digest that marks a full verifier memory
    MaxActions,          \* _MAX_ACTIONS: 8 recent actions are kept
    MaxVerifierResults,  \* _MAX_VERIFIER_RESULTS: 8
    MaxReplayStreak,     \* _MAX_REPLAY_STREAK: 3
    MaxConcurrentAgents, \* _MAX_CONCURRENT_AGENTS: 2, also MAX_ACTIVE_AGENTS on disk
    MaxTotalAgents,      \* _MAX_TOTAL_AGENTS: 3
    ElapsedWarning       \* _ELAPSED_WARNING_NS: thirty minutes

ASSUME OverflowAssumption == OverflowMark \notin Fingerprints
ASSUME AgentsAssumption == IsFiniteSet(Agents)
ASSUME LimitsAssumption ==
    /\ MaxActions \in Nat \ {0}
    /\ MaxVerifierResults \in Nat \ {0}
    /\ MaxReplayStreak \in Nat \ {0}
    /\ MaxConcurrentAgents \in Nat \ {0}
    /\ MaxTotalAgents \in Nat \ {0}
    /\ ElapsedWarning \in Nat \ {0}

Kinds == {"billable_eval", "edit", "verifier", "wait", "spawn", "read"}
Outcomes == {"pass", "fail"}

ActionRecords ==
    [fingerprint : Fingerprints, outcome : Outcomes, streak : Nat, edit_epoch : Nat]

Ledgers ==
    [ edit_epoch : Nat,
      actions : Seq(ActionRecords),
      verifier_results : Seq(Fingerprints \cup {OverflowMark}),
      active_agents : SUBSET Agents,
      pending_spawns : Nat,
      total_agents : Nat,
      compact_streak : Nat,
      warned : BOOLEAN,
      terminal : BOOLEAN,
      last_progress : Nat ]

\* LoopLedger.fresh(now_ns)
FreshLedger(now) ==
    [ edit_epoch |-> 0,
      actions |-> << >>,
      verifier_results |-> << >>,
      active_agents |-> {},
      pending_spawns |-> 0,
      total_agents |-> 0,
      compact_streak |-> 0,
      warned |-> FALSE,
      terminal |-> FALSE,
      last_progress |-> now ]

\* What _ledger_payload accepts for writing, and _ledger_from_json for reading.
Persistable(led) ==
    /\ Len(led.actions) <= MaxActions
    /\ Len(led.verifier_results) <= MaxVerifierResults
    /\ Cardinality(led.active_agents) <= MaxConcurrentAgents

-----------------------------------------------------------------------------
(***************************************************************************)
(* Decisions.  A FuseDecision is an action and a reason; the reasons that  *)
(* accompany block_action are decisions of their own here.                 *)
(***************************************************************************)
Denials == { "nested_agent", "total_agent_budget", "concurrent_agent_budget",
             "verifier_replay", "tool_replay" }
Decisions == {"pass", "warn_once", "stop_turn"} \cup Denials

\* PreToolUse lets the tool run unless the answer is a denial or a stop.
LetsRun(decision) == decision \in {"pass", "warn_once"}

Result(led, decision) == [ledger |-> led, decision |-> decision]

\* Mutant of ElapsedWarned: the claim of the one warning is not looked at.
ElapsedWarnedAgain(led, now) ==
    IF now - led.last_progress < ElapsedWarning
    THEN Result(led, "pass")
    ELSE Result([led EXCEPT !.warned = TRUE], "warn_once")

\* _elapsed_warning
ElapsedWarned(led, now) ==
    IF led.warned \/ now - led.last_progress < ElapsedWarning
    THEN Result(led, "pass")
    ELSE Result([led EXCEPT !.warned = TRUE], "warn_once")

-----------------------------------------------------------------------------
(***************************************************************************)
(* The bounded memories.                                                   *)
(***************************************************************************)
\* `prefix[-n:]` of a Python tuple.
KeepLast(seq, n) ==
    IF Len(seq) > n THEN SubSeq(seq, Len(seq) - n + 1, Len(seq)) ELSE seq

Recorded(led, fp) == \E i \in DOMAIN led.actions : led.actions[i].fingerprint = fp

PositionOf(led, fp) == CHOOSE i \in DOMAIN led.actions : led.actions[i].fingerprint = fp

\* The code filters every record of fp out. It appends a record of fp only after that filter,
\* so there is at most one.
WithoutFingerprint(led, fp) ==
    IF Recorded(led, fp) THEN RemoveAt(led.actions, PositionOf(led, fp)) ELSE led.actions

\* _current_action: the record of fp in the present edit epoch, if any.
HasCurrentAction(led, fp) ==
    Recorded(led, fp) /\ led.actions[PositionOf(led, fp)].edit_epoch = led.edit_epoch

CurrentAction(led, fp) == led.actions[PositionOf(led, fp)]

\* previous is not None and previous.outcome == outcome
Repeats(led, fp, outcome) ==
    HasCurrentAction(led, fp) /\ CurrentAction(led, fp).outcome = outcome

\* after_tool: streak = previous.streak + 1 if ... else 1
NextStreak(led, fp, outcome) ==
    IF Repeats(led, fp, outcome) THEN CurrentAction(led, fp).streak + 1 ELSE 1

\* _record_action
RecordAction(led, fp, outcome) ==
    LET record == [ fingerprint |-> fp,
                    outcome |-> outcome,
                    streak |-> NextStreak(led, fp, outcome),
                    edit_epoch |-> led.edit_epoch ]
    IN KeepLast(Append(WithoutFingerprint(led, fp), record), MaxActions)

\* A verifier the ledger refuses to see run again.
Remembered(led, fp) ==
    \E i \in DOMAIN led.verifier_results :
        led.verifier_results[i] \in {OverflowMark, fp}

\* Mutant of RememberVerifier: a full memory forgets its oldest entry.
RememberRecentVerifier(led, fp) ==
    IF Remembered(led, fp)
    THEN led.verifier_results
    ELSE KeepLast(Append(led.verifier_results, fp), MaxVerifierResults)

\* _remember_verifier: a full memory gives up its last entry for the overflow mark.
RememberVerifier(led, fp) ==
    IF Remembered(led, fp)
    THEN led.verifier_results
    ELSE IF Len(led.verifier_results) < MaxVerifierResults
         THEN Append(led.verifier_results, fp)
         ELSE [led.verifier_results EXCEPT ![MaxVerifierResults] = OverflowMark]

-----------------------------------------------------------------------------
(***************************************************************************)
(* The five transitions.                                                   *)
(***************************************************************************)
\* Mutant of BeforeSpawn: a spawn counts towards the total only when its child starts.
BeforeSpawnUncounted(led, isChild) ==
    IF isChild THEN Result(led, "nested_agent")
    ELSE IF led.total_agents >= MaxTotalAgents THEN Result(led, "total_agent_budget")
    ELSE IF Cardinality(led.active_agents) + led.pending_spawns >= MaxConcurrentAgents
         THEN Result(led, "concurrent_agent_budget")
    ELSE Result([led EXCEPT !.pending_spawns = @ + 1], "pass")

\* Mutant of BeforeSpawn: children that have not started yet are not concurrent.
BeforeSpawnUnreserved(led, isChild) ==
    IF isChild THEN Result(led, "nested_agent")
    ELSE IF led.total_agents >= MaxTotalAgents THEN Result(led, "total_agent_budget")
    ELSE IF Cardinality(led.active_agents) >= MaxConcurrentAgents
         THEN Result(led, "concurrent_agent_budget")
    ELSE Result([led EXCEPT !.pending_spawns = @ + 1, !.total_agents = @ + 1], "pass")

\* _before_spawn
BeforeSpawn(led, isChild) ==
    IF isChild THEN Result(led, "nested_agent")
    ELSE IF led.total_agents >= MaxTotalAgents THEN Result(led, "total_agent_budget")
    ELSE IF Cardinality(led.active_agents) + led.pending_spawns >= MaxConcurrentAgents
         THEN Result(led, "concurrent_agent_budget")
    ELSE Result([led EXCEPT !.pending_spawns = @ + 1, !.total_agents = @ + 1], "pass")

\* Mutant of BeforeTool: a replayed action is not denied.
BeforeToolUnfused(led, fp, kind, isChild, now) ==
    IF led.terminal THEN Result(led, "stop_turn")
    ELSE IF kind = "spawn" THEN BeforeSpawn(led, isChild)
    ELSE IF kind = "verifier" /\ Remembered(led, fp) THEN Result(led, "verifier_replay")
    ELSE ElapsedWarned(led, now)

\* before_tool
BeforeTool(led, fp, kind, isChild, now) ==
    IF led.terminal THEN Result(led, "stop_turn")
    ELSE IF kind = "spawn" THEN BeforeSpawn(led, isChild)
    ELSE IF kind = "verifier" /\ Remembered(led, fp) THEN Result(led, "verifier_replay")
    ELSE IF HasCurrentAction(led, fp) /\ CurrentAction(led, fp).streak >= MaxReplayStreak
         THEN Result(led, "tool_replay")
    ELSE ElapsedWarned(led, now)

\* Mutant of AfterEdit: the verifier memory outlives the epoch.
AfterEditRemembering(led, now) ==
    [led EXCEPT !.edit_epoch = @ + 1,
                !.actions = << >>,
                !.compact_streak = 0,
                !.last_progress = now]

\* The branch of after_tool for a successful edit: the epoch advances.
AfterEdit(led, now) ==
    [led EXCEPT !.edit_epoch = @ + 1,
                !.actions = << >>,
                !.verifier_results = << >>,
                !.compact_streak = 0,
                !.last_progress = now]

\* Mutant of AfterOther: the warning comes one replay late.
AfterOtherLate(led, fp, kind, outcome, now) ==
    LET freed == IF kind = "spawn" /\ outcome = "fail" /\ led.pending_spawns > 0
                 THEN led.pending_spawns - 1 ELSE led.pending_spawns
        counted == [led EXCEPT !.pending_spawns = freed,
                               !.actions = RecordAction(led, fp, outcome)]
    IN IF NextStreak(led, fp, outcome) = MaxReplayStreak + 1 /\ ~counted.warned
       THEN Result([counted EXCEPT !.warned = TRUE], "warn_once")
       ELSE ElapsedWarned(counted, now)

\* The remaining branches of after_tool.
AfterOther(led, fp, kind, outcome, now) ==
    LET freed == IF kind = "spawn" /\ outcome = "fail" /\ led.pending_spawns > 0
                 THEN led.pending_spawns - 1 ELSE led.pending_spawns
        counted == [led EXCEPT !.pending_spawns = freed,
                               !.actions = RecordAction(led, fp, outcome)]
        progressed == ~Repeats(led, fp, outcome)
        verified ==
            [counted EXCEPT
                !.verifier_results = RememberVerifier(led, fp),
                !.compact_streak = IF progressed THEN 0 ELSE @,
                !.last_progress = IF progressed THEN now ELSE @]
    IN IF kind = "verifier" THEN ElapsedWarned(verified, now)
       ELSE IF NextStreak(led, fp, outcome) = MaxReplayStreak /\ ~counted.warned
            THEN Result([counted EXCEPT !.warned = TRUE], "warn_once")
       ELSE ElapsedWarned(counted, now)

\* Mutant of AfterTool: an edit is recorded like any other result.
AfterToolSameEpoch(led, fp, kind, outcome, now) ==
    IF led.terminal THEN Result(led, "stop_turn")
    ELSE AfterOther(led, fp, kind, outcome, now)

\* Mutant of AfterTool: a result that arrives after the stop is still recorded.
AfterToolUnstopped(led, fp, kind, outcome, now) ==
    IF kind = "edit" /\ outcome = "pass" THEN Result(AfterEdit(led, now), "pass")
    ELSE AfterOther(led, fp, kind, outcome, now)

\* after_tool
AfterTool(led, fp, kind, outcome, now) ==
    IF led.terminal THEN Result(led, "stop_turn")
    ELSE IF kind = "edit" /\ outcome = "pass" THEN Result(AfterEdit(led, now), "pass")
    ELSE AfterOther(led, fp, kind, outcome, now)

\* on_subagent_start
SubagentStarted(led, agent, now) ==
    IF led.terminal THEN Result(led, "stop_turn")
    ELSE IF agent \in led.active_agents THEN ElapsedWarned(led, now)
    ELSE LET reserved == led.pending_spawns > 0
         IN ElapsedWarned(
              [led EXCEPT !.active_agents = @ \cup {agent},
                          !.pending_spawns = IF reserved THEN @ - 1 ELSE 0,
                          !.total_agents = IF reserved THEN @ ELSE @ + 1], now)

\* on_subagent_stop
SubagentStopped(led, agent, now) ==
    IF led.terminal THEN Result(led, "stop_turn")
    ELSE ElapsedWarned([led EXCEPT !.active_agents = @ \ {agent}], now)

\* Mutant of Compacted: both hooks of an automatic compaction count.
CompactedTwice(led, phase, trigger, now) ==
    LET counted == [led EXCEPT !.compact_streak = @ + 1]
    IN IF led.terminal THEN Result(led, "stop_turn")
       ELSE IF trigger = "auto"
            THEN IF counted.compact_streak >= MaxReplayStreak
                 THEN Result([counted EXCEPT !.terminal = TRUE], "stop_turn")
                 ELSE ElapsedWarned(counted, now)
       ELSE ElapsedWarned(led, now)

\* on_compact
Compacted(led, phase, trigger, now) ==
    LET counted == [led EXCEPT !.compact_streak = @ + 1]
    IN IF led.terminal THEN Result(led, "stop_turn")
       ELSE IF trigger = "auto" /\ phase = "post"
            THEN IF counted.compact_streak >= MaxReplayStreak
                 THEN Result([counted EXCEPT !.terminal = TRUE], "stop_turn")
                 ELSE ElapsedWarned(counted, now)
       ELSE ElapsedWarned(led, now)
=============================================================================
