------------------------------ MODULE LoopFuse ------------------------------
(***************************************************************************)
(* One Codex turn guarded by the loop fuse.  The host runs tool calls in   *)
(* parallel slots, starts and stops child agents, compacts its context and *)
(* accepts prompts; before or after each of these it calls a hook of the   *)
(* plugin, which applies a transition of LoopPolicy to the turn's ledger   *)
(* file.  Here a hook is one atomic step; LoopStore opens it up into the   *)
(* file operations of concurrent hook processes.                           *)
(*                                                                         *)
(* Every hook may fail: process_raw answers an error, a lock timeout or a  *)
(* write that fails with "continue", and the host goes on in the same way  *)
(* when it kills a hook.  A hook that fails before its write leaves the    *)
(* ledger alone: that is PreToolUnheard for PreToolUse, LostResult for     *)
(* PostToolUse, the lost hooks of the children, and no step at all for the *)
(* compaction and prompt hooks.  One that fails after its write took the   *)
(* same step as one that answers, unless its answer was to keep a tool     *)
(* from running (PreToolUnheard again).                                    *)
(*                                                                         *)
(* The host is not in the repository: it is any program that calls the     *)
(* hooks as hooks.json registers them.  What it may do beyond the ordinary *)
(* protocol is named in the constant Environment:                          *)
(*   "prompt"        the user submits a prompt into the running turn       *)
(*   "secret"        ... one that the secret filter blocks                 *)
(*   "compact"       the context is compacted                              *)
(*   "native_child"  a child starts without a classified spawn command     *)
(*   "lost_start"    the hook of a child's start fails or never runs       *)
(*   "lost_stop"     ... that of its stop                                  *)
(*   "late_failure"  a spawn is reported failed while its child runs       *)
(*   "lost_result"   a tool response states no outcome, or its hook fails  *)
(***************************************************************************)
EXTENDS LoopPolicy

CONSTANTS
    Slots,        \* tool calls the host runs in parallel
    Calls,        \* the tool calls the model may make
    EditTools,    \* _EDIT_TOOLS: tools fingerprinted by their name alone
    Environment,  \* see above
    Absent,       \* no ledger file yet
    NoCall,       \* an idle slot
    NoAgent,      \* a call that spawns no child
    MaxEdits,     \* bound of the model: edit epochs explored
    MaxUnheard,   \* bound of the model: failures of PreToolUse hooks between two resets
    MaxClock      \* bound of the model: the last instant explored

VARIABLES
    ledger,       \* the file loop.json, or Absent
    clock,        \* time.time_ns()
    calls,        \* what each slot runs
    children,     \* the life of each child agent
    spent,        \* children granted or seen to start since the last reset
    reported,     \* verifiers reported since the last edit or reset
    verdict,      \* ... and their last outcome
    tried,        \* calls whose outcome was reported since the last edit or reset
    idle,         \* automatic compactions since the last progress
    warnings,     \* warn_once decisions that tool and compaction hooks saved since the reset
    unheard       \* calls let in by a PreToolUse hook that failed, since the last reset

vars ==
    << ledger, clock, calls, children, spent, reported, verdict, tried, idle, warnings, unheard >>
history == << reported, verdict, tried, idle >>

\* _tool: an edit tool is known by its name, a shell command by its text.
FingerprintOf(call) == IF call.tool \in EditTools THEN call.tool ELSE call.content

Verifiers == {FingerprintOf(call) : call \in {c \in Calls : c.kind = "verifier"}}

ASSUME CallsAssumption ==
    \A call \in Calls : call.kind \in Kinds /\ FingerprintOf(call) \in Fingerprints
ASSUME NullsAssumption ==
    /\ Absent \notin Ledgers
    /\ NoAgent \notin Agents
    /\ NoCall \notin [call : Calls, child : Agents \cup {NoAgent}]
ASSUME BoundsAssumption ==
    /\ MaxEdits \in Nat /\ MaxUnheard \in Nat
    /\ MaxClock \in Nat /\ MaxClock >= ElapsedWarning

\* A call in flight and, for a spawn, the child it was granted.
Running == [call : Calls, child : Agents \cup {NoAgent}]
\* Bound of the model: the second warning is the one that must not happen.
MaxWarnings == 2
Lives == {"unborn", "granted", "running", "gone"}

-----------------------------------------------------------------------------
Init ==
    /\ ledger = Absent
    /\ clock = ElapsedWarning
    /\ calls = [s \in Slots |-> NoCall]
    /\ children = [a \in Agents |-> "unborn"]
    /\ spent = {}
    /\ reported = [v \in Verifiers |-> "no"]
    /\ verdict = [v \in Verifiers |-> "none"]
    /\ tried = {}
    /\ idle = 0
    /\ warnings = 0
    /\ unheard = 0

\* _transition: the first event of a turn starts from a fresh ledger.
Current == IF ledger = Absent THEN FreshLedger(clock) ELSE ledger

\* mutate_loop_ledger: a ledger that may not be written leaves the file alone and
\* process_raw turns the error into a warning that lets the host continue.
Persist(result) == ledger' = IF Persistable(result.ledger) THEN result.ledger ELSE ledger

\* _response: the tool and compaction hooks act on a decision once it is saved.  Whether
\* a warning also reaches the model depends on the quality mode, on the context claim of
\* the turn and on the hook living on to print it: TurnHooks has these.
Respond(result) ==
    /\ Persist(result)
    /\ warnings' = IF /\ Persistable(result.ledger)
                      /\ result.decision = "warn_once"
                      /\ warnings < MaxWarnings
                   THEN warnings + 1 ELSE warnings

Forget ==
    /\ reported' = [v \in Verifiers |-> "no"]
    /\ verdict' = [v \in Verifiers |-> "none"]
    /\ tried' = {}
    /\ idle' = 0

-----------------------------------------------------------------------------
\* The host runs a tool; a tool that spawns is granted a child.
Launch(s, call) ==
    IF call.kind = "spawn"
    THEN \E a \in Agents :
           /\ children[a] = "unborn"
           /\ calls' = [calls EXCEPT ![s] = [call |-> call, child |-> a]]
           /\ children' = [children EXCEPT ![a] = "granted"]
           /\ spent' = spent \cup {a}
    ELSE /\ calls' = [calls EXCEPT ![s] = [call |-> call, child |-> NoAgent]]
         /\ UNCHANGED << children, spent >>

\* process_pre_tool; the host runs the tool unless it is denied or stopped.
PreTool(s, call, isChild) ==
    LET result == BeforeTool(Current, FingerprintOf(call), call.kind, isChild, clock)
    IN /\ calls[s] = NoCall
       /\ Respond(result)
       /\ IF LetsRun(result.decision)
          THEN Launch(s, call)
          ELSE UNCHANGED << calls, children, spent >>
       /\ UNCHANGED << clock, history, unheard >>

\* process_raw: a PreToolUse hook that fails, or that the host kills, lets the tool run.
\* It failed before its write, or after saving a decision to deny or stop that the host
\* never got.  (Saved and lost without consequence, a decision to let it run is PreTool.)
PreToolUnheard(s, call, isChild) ==
    LET result == BeforeTool(Current, FingerprintOf(call), call.kind, isChild, clock)
    IN /\ calls[s] = NoCall
       /\ unheard < MaxUnheard
       /\ unheard' = unheard + 1
       /\ Launch(s, call)
       /\ \/ UNCHANGED ledger
          \/ ~LetsRun(result.decision) /\ Persist(result)
       /\ UNCHANGED << clock, history, warnings >>

\* A successful edit is the end of an epoch: what was observed before it is outdated.
PostEdit(s) ==
    /\ calls[s] # NoCall
    /\ calls[s].call.kind = "edit"
    /\ Current.edit_epoch < MaxEdits
    /\ Respond(AfterTool(Current, FingerprintOf(calls[s].call), "edit", "pass", clock))
    /\ calls' = [calls EXCEPT ![s] = NoCall]
    /\ IF Current.terminal THEN UNCHANGED history ELSE Forget
    /\ UNCHANGED << clock, children, spent, unheard >>

\* The model's record of a verifier result: progress is an outcome not seen last time.
Observed(call, outcome) ==
    LET v == FingerprintOf(call)
    IN IF call.kind = "verifier"
       THEN /\ reported' = [reported EXCEPT ![v] = "yes"]
            /\ verdict' = [verdict EXCEPT ![v] = outcome]
            /\ idle' = IF verdict[v] = outcome \/ Current.terminal THEN idle ELSE 0
       ELSE UNCHANGED << reported, verdict, idle >>

\* A spawn that fails has no child; with "late_failure" its child may be running.
ChildAfter(s, outcome) ==
    LET a == calls[s].child
    IN IF a # NoAgent /\ outcome = "fail"
       THEN /\ children[a] = "running" => "late_failure" \in Environment
            /\ children' = IF children[a] = "granted"
                           THEN [children EXCEPT ![a] = "gone"] ELSE children
       ELSE UNCHANGED children

\* process_post_tool for every other result of a call.
PostTool(s, outcome) ==
    /\ calls[s] # NoCall
    /\ ~(calls[s].call.kind = "edit" /\ outcome = "pass")
    /\ Respond(AfterTool(Current, FingerprintOf(calls[s].call), calls[s].call.kind,
                         outcome, clock))
    /\ Observed(calls[s].call, outcome)
    /\ tried' = tried \cup {calls[s].call}
    /\ ChildAfter(s, outcome)
    /\ calls' = [calls EXCEPT ![s] = NoCall]
    /\ UNCHANGED << clock, spent, unheard >>

\* _outcome: a response without exit code or success flag leaves no trace, and neither
\* does one whose hook fails.
LostResult(s) ==
    /\ "lost_result" \in Environment
    /\ calls[s] # NoCall
    /\ calls' = [calls EXCEPT ![s] = NoCall]
    /\ UNCHANGED << ledger, clock, children, spent, history, warnings, unheard >>

\* process_subagent_start: a child nobody reserved is counted when it is seen.  The
\* decision of the two child hooks is dropped, a warning it claims included.
SubagentStart(a) ==
    /\ \/ children[a] = "granted"
       \/ children[a] = "unborn" /\ "native_child" \in Environment
    /\ children' = [children EXCEPT ![a] = "running"]
    /\ spent' = IF children[a] = "unborn" THEN spent \cup {a} ELSE spent
    /\ \/ Persist(SubagentStarted(Current, a, clock))
       \/ "lost_start" \in Environment /\ UNCHANGED ledger
    /\ UNCHANGED << clock, calls, history, warnings, unheard >>

\* process_subagent_stop
SubagentStop(a) ==
    /\ children[a] = "running"
    /\ children' = [children EXCEPT ![a] = "gone"]
    /\ \/ Persist(SubagentStopped(Current, a, clock))
       \/ "lost_stop" \in Environment /\ UNCHANGED ledger
    /\ idle' = IF Current.terminal THEN idle ELSE 0
    /\ UNCHANGED << clock, calls, spent, reported, verdict, tried, warnings, unheard >>

\* process_compact.  A compaction whose hook fails is one the fuse never hears of.
Compact(phase, trigger) ==
    /\ "compact" \in Environment
    /\ Respond(Compacted(Current, phase, trigger, clock))
    /\ idle' = IF phase = "post" /\ trigger = "auto" /\ idle < MaxReplayStreak
               THEN idle + 1 ELSE idle
    /\ UNCHANGED << clock, calls, children, spent, reported, verdict, tried, unheard >>

\* reset_for_prompt and _reset_existing_loop: only an existing ledger is replaced.  When
\* the hook fails before that, the prompt goes on with the ledger of the turn as it was.
Reset ==
    /\ ledger' = IF ledger = Absent THEN Absent ELSE FreshLedger(clock)
    /\ warnings' = 0
    /\ spent' = {}
    /\ unheard' = 0
    /\ Forget
    /\ UNCHANGED << clock, calls, children >>

UserPrompt == "prompt" \in Environment /\ Reset

\* _dispatch resets the ledger whatever process_prompt answered.
SecretPrompt ==
    /\ "secret" \in Environment
    /\ ledger' = IF ledger = Absent THEN Absent ELSE FreshLedger(clock)
    /\ UNCHANGED << clock, calls, children, spent, history, warnings, unheard >>

Tick ==
    /\ clock < MaxClock
    /\ clock' = clock + 1
    /\ UNCHANGED << ledger, calls, children, spent, history, warnings, unheard >>

Next ==
    \/ \E s \in Slots, call \in Calls, isChild \in BOOLEAN : PreTool(s, call, isChild)
    \/ \E s \in Slots, call \in Calls, isChild \in BOOLEAN : PreToolUnheard(s, call, isChild)
    \/ \E s \in Slots : PostEdit(s)
    \/ \E s \in Slots, outcome \in Outcomes : PostTool(s, outcome)
    \/ \E s \in Slots : LostResult(s)
    \/ \E a \in Agents : SubagentStart(a)
    \/ \E a \in Agents : SubagentStop(a)
    \/ \E phase \in {"pre", "post"}, trigger \in {"auto", "manual"} : Compact(phase, trigger)
    \/ UserPrompt
    \/ SecretPrompt
    \/ Tick

Spec == Init /\ [][Next]_vars

-----------------------------------------------------------------------------
(***************************************************************************)
(* Properties.                                                             *)
(***************************************************************************)
\* What the policy would answer to a call submitted now.
Answer(call) == BeforeTool(Current, FingerprintOf(call), call.kind, FALSE, clock).decision

Starts(s) == calls[s] = NoCall /\ calls'[s] # NoCall

\* This step is the failure of a PreToolUse hook.
FailsOpen == unheard' > unheard

Alive == {a \in spent : children[a] \in {"granted", "running"}}

\* The variables keep their types and the ledger file can be read back.
TypeOK ==
    /\ ledger \in Ledgers \cup {Absent}
    /\ ledger # Absent => Persistable(ledger)
    /\ clock \in Nat
    /\ calls \in [Slots -> Running \cup {NoCall}]
    /\ children \in [Agents -> Lives]
    /\ spent \subseteq Agents
    /\ reported \in [Verifiers -> {"no", "yes"}]
    /\ verdict \in [Verifiers -> Outcomes \cup {"none"}]
    /\ tried \subseteq Calls
    /\ idle \in 0 .. MaxReplayStreak
    /\ warnings \in 0 .. MaxWarnings
    /\ unheard \in 0 .. MaxUnheard

\* No verifier starts whose outcome was reported since the last successful edit, however
\* many other verifiers overflowed the bounded memory in between, unless the PreToolUse
\* hook of that very call fails: another hook's failure never lets it in.
NoVerifierReplay ==
    [][\A s \in Slots :
          Starts(s) /\ calls'[s].call.kind = "verifier"
             => reported[FingerprintOf(calls'[s].call)] = "no" \/ FailsOpen]_vars

\* A verifier is refused as a replay only when its outcome was reported since the last
\* successful edit, or when the memory of such outcomes has overflowed.
OnlyReportedVerifiersDenied ==
    \A call \in Calls :
        Answer(call) = "verifier_replay"
           => \/ reported[FingerprintOf(call)] # "no"
              \/ Cardinality({v \in Verifiers : reported[v] # "no"}) > MaxVerifierResults

\* Between two resets no more children are granted than the total budget, failures and
\* calls in flight included, and one for each PreToolUse hook that failed: what such a
\* child does later (its start, its stop, its failure) never makes room for another.
TotalAgentBudget == Cardinality(spent) <= MaxTotalAgents + unheard

\* Children granted since the last reset that have not stopped are within the
\* concurrent budget, but for one for each PreToolUse hook that failed.
ConcurrentAgentBudget == Cardinality(Alive) <= MaxConcurrentAgents + unheard

\* Parallel calls that were admitted before the replay fuse blew, and calls let in by a
\* hook that failed, can lengthen a streak by at most one each.
StreakBound ==
    ledger # Absent =>
        \A i \in DOMAIN ledger.actions :
            ledger.actions[i].streak <= MaxReplayStreak - 1 + Cardinality(Slots) + unheard

\* A call is refused as a replay only if that very call was made since the last edit.
BlocksOnlyRepeatedAction ==
    \A call \in Calls : Answer(call) = "tool_replay" => call \in tried

\* The turn is stopped exactly when MaxReplayStreak automatic compactions passed
\* without progress, of those whose hooks succeeded.
CompactionFuse == Current.terminal <=> idle = MaxReplayStreak

\* A stopped turn stays stopped: until the user submits a prompt that is accepted no
\* event changes its ledger, failed hooks included, and no tool starts but one whose own
\* PreToolUse hook fails.
StoppedUntilPrompt ==
    [][Current.terminal => \/ UserPrompt
                           \/ UNCHANGED ledger /\ (FailsOpen \/ \A s \in Slots : ~Starts(s))]_vars

\* By the third identical outcome of a call that is no verifier a hook has decided to warn
\* and saved the claim of the warning.
ThirdReplayWarned ==
    ledger # Absent =>
        \A i \in DOMAIN ledger.actions :
            /\ ledger.actions[i].streak >= MaxReplayStreak
            /\ ledger.actions[i].fingerprint \notin Verifiers
            => warnings > 0

\* The replay, verifier and elapsed-time warnings share one claim per turn.
WarnsOnce == warnings <= 1
=============================================================================
