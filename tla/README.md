# Super SOL: specification and proofs

TLA+ modules for the Super SOL repository, the TLC instances that check them and the TLAPS proofs about
them. Paths are those of the repository; `hooks/` stands for `plugins/super-sol/hooks/` and `fablized/` for
`src/fablized_sol/`.

## 1. The system

Super SOL is a plugin of the Codex coding agent, with a Python package that evaluates it.

The **plugin** is a set of hook programs. Codex starts one process per lifecycle event (`hooks/hooks.json`:
prompt submitted, before and after a tool, start and stop of a child agent, before and after a compaction) and
kills it after five seconds. Processes share nothing but files under `PLUGIN_DATA/super-sol/v4/<session>/<turn>/`.
The plugin's central part is the *loop fuse*: it records the events of a turn in a ledger, `loop.json`, and from
the ledger denies replays of tools and verifiers, keeps child agents within budgets, stops a turn that compacts
its context without progress, and warns once.

The **package** has a harness that runs an agent of the OpenAI Agents SDK on a task, records evidence of what its
tools changed and verified, and accepts a completion claim only on fresh evidence; evaluation drivers that run
tasks in two arms with logs that survive restarts; and measurement code that decides from the logs whether a
version may be promoted.

### Components

| component | state | operations | what makes it correct | module |
|---|---|---|---|---|
| loop-fuse policy (`super_sol_loop_policy.py`) | a ledger value | before/after tool, child start/stop, compaction | replays and budgets bounded, progress never punished, one warning | `LoopPolicy` |
| loop-fuse hooks (`super_sol_loop_hook.py`, `super_sol_hook.py`, resets in `super_sol_prompt_hook.py` and `prompt_dispatcher.py`) | the turn's `loop.json` | one handler per event, reset by a prompt | the same over whole turns: parallel tools, hooks that fail, prompts, blocked prompts | `LoopFuse` (partly) |
| loop store (`super_sol_loop_state.py`) | `loop.json`, `loop.guard`, `loop.lock` | lock, load, transition, replace, unlock | transitions are atomic although processes race, die and time out; every hook ends | `LoopStore` (partly) |
| harness and completion gate (`fablized/harness`, `fablized/engine`) | workspace, lock, sequencer, JSONL ledger, attempt | tools, `on_tool_end`, output guardrail, retries | accepted code was tested; refused code was not; the session ends | `EvidenceGate` (partly) |
| evidence hook (`super_sol_evidence_hook.py`, `super_sol_state.py`) | event files, claims | record, count the debt, claim the context of the turn | one context per channel, no event twice, debt only where it exists | `TurnHooks` |
| audit (`super_sol_audit.py`) | 64 slots | claim a slot, write | an incident is on record, a slot is written once | `TurnHooks` |
| prompt hook and billing gate (`super_sol_prompt_hook.py`, `prompt_dispatcher.py`, `super_sol_routes.py`) | `request.json` | route, persist, authorize | no unconfirmed spending; the short cut changes nothing | `PromptRouting`, `TurnHooks` |
| command classification and benchmark guard (`super_sol_commands.py`, `super_sol_benchmark_guard.py`) | none | classify a tool call | dry runs alone are free; guarded tests stay as they are | `CommandPolicy` (partly) |
| container runtime and grader | container | run, time out, cancel, remove by force | no container outlives its wait unnoticed; a verdict is one of a grader | `ContainerRuntime` (partly) |
| clean-room comparison (`eval/codex_cleanroom*.py`) | run directory, `run.json`, `events.jsonl`, two homes | plan, run slots, resume | each slot is judged or resumable, no score is made up, nothing is left behind | `CleanroomRun` with `CleanroomHome`, `CodexTelemetry`, `SlotLog` |
| report, audit and promotion (`measure/codex_ab*.py`) | candidate and decision files | pair, aggregate, audit, decide | no promotion on doubled, stale or regressed evidence | `Promotion` |
| live day-0 evaluation (`eval/day0_ab.py`, `live.py`) | run directory, `events.jsonl` | plan, start, grade, finish, abandon | each planned run has one end, and the exit code tells the log | `Day0Run` |
| day-3 report (`measure/report*.py`) | two output files | read, sample, compare, publish | only finished and graded runs count; one pair of files | `Day3Report` (partly) |
| installation key, goal book, shadow and holdout statistics, task router, loop replay benchmark, latency and compatibility checks, supply chain | | | | not modelled (section 6) |

### How they interact

`hooks.json` sends prompts to `prompt_dispatcher.py`, which resets an existing ledger of a generic prompt itself
and hands every other prompt to `super_sol_hook.py`. That program dispatches the remaining events: before a tool
the benchmark guard, the billing gate and the loop fuse are asked in this order and the first answer counts; after
a tool the loop fuse and then, if it has nothing to say, the evidence hook. All loop-fuse handlers go through
`_transition` to `mutate_loop_ledger`. In the harness `run_fablized` calls the SDK once per attempt; the SDK calls
tools (concurrently), hooks and the guardrail, which meet in the context object: the workspace under
`workspace_lock`, the `CompletionSequencer` and the ledger file.

The evaluation programs share files, not calls. `fablized-codex-ab` appends slots to a run directory;
`fablized-codex-report` and `fablized-codex-audit` read it at any time and write a candidate and a decision.
`fablized-day0` appends runs, people grade them in a second file, and `fablized-report` joins the two. Both
evaluation programs start one grading container at a time through `container_runtime.py`.

### What is hard

Concurrent processes on one file with a stale-lock protocol and kills at any point; claims taken before the work they
stand for; state looked at before a lock and used under it; results reported in another order than the work was done,
across edit epochs; bounded memories that must stay safe when they overflow; counters of children over lost events;
two counters of retries that must agree; resumption from append-only logs by processes that overlap; containers that
outlive their wait; decisions computed from a log that is still growing. `PROJECT.json` lists these hazards at their
lines with the properties that cover them.

## 2. Modules

| module | role | code |
|---|---|---|
| `LoopPolicy` | pure operators, one per function of the policy; no variables | `super_sol_loop_policy.py`, `LoopLedger` |
| `LoopFuse` | a turn: host, hooks as atomic steps, prompts, time; the properties of the fuse | `super_sol_loop_hook.py` and the resets |
| `HookRules` | what one hook does to a ledger, abstracted for two hooks at once | `_transition` |
| `AtomicLedger` | the promise: a transition is applied whole or not at all | docstring and design of `mutate_loop_ledger` |
| `LoopStore` | the file operations that keep it | `super_sol_loop_state.py` |
| `CompletionContract` | the promise of the gate | `verify_state.py` |
| `EvidenceGate` | a session with parallel tools, hooks, guardrail and retries | `fablized/harness`, `fablized/engine` |
| `PromptRouting`, `CommandPolicy` | pure operators: route of a prompt, kind and price of a tool call | `super_sol_routes.py`, dispatcher, `super_sol_commands.py`, guard |
| `TurnHooks` | the hooks of a turn as processes on request, claims, events and audit files | `super_sol_*_hook.py`, `super_sol_state.py`, `super_sol_audit.py` |
| `ContainerRuntime` | one grading container per process; extended by the two programs that grade | `container_runtime.py`, `eval/grader.py` |
| `CodexTelemetry`, `CleanroomHome` | pure operators: verdict on a captured turn, on a pair of homes | `codex_telemetry.py`, `codex_cleanroom_home.py` |
| `SlotLog` | the promise of the slot log: one plan, one start, resumption only after a loss | readers of `events.jsonl` |
| `CleanroomRun` | overlapping invocations on one run directory, shown to implement `SlotLog` | `codex_cleanroom.py` |
| `Promotion` | report, audit and decision, step by step beside a growing log | `measure/codex_ab*.py` |
| `Day0Run` | the invocations of one live evaluation | `day0_ab.py`, `live.py` |
| `Day3Report` | reporters beside `Day0Run`, which it extends | `measure/report*.py` |
| `MC*` | calls, agents, files and constants for TLC | |
| `LoopPolicyLemmas`, `*Proofs` | proved facts and theorems about the module they name | |

`Day3Report` composes three components: it extends `Day0Run`, which extends `ContainerRuntime`. `CleanroomRun`
extends `SlotLog` and `ContainerRuntime` in the same way. `TurnHooks` leaves the answers of the fuse open; what they
are is the subject of `LoopFuse`.

Operators marked "Mutant of" are not part of a model. Each is a definition with a plausible bug in it, kept next
to the definition it replaces to show that the property it is listed with in `PROJECT.json` notices the bug.

### LoopFuse and LoopPolicy

A ledger is a record with the fields of `LoopLedger`. Digests are values of the constant `Fingerprints`; a call
has a kind (`CommandKind`), a tool and a content, and `FingerprintOf` keeps what `_tool` keeps: the name alone for
an edit tool, the whole command for the shell. `PreTool`, `PostEdit`/`PostTool`, `SubagentStart`, `SubagentStop`,
`Compact` and `UserPrompt` are the handlers; each applies its transition of `LoopPolicy`, saves the ledger unless
`_ledger_payload` would reject it (then the file stays and the host goes on, as `process_raw` arranges), and lets
the host act on the answer.

A hook may also fail: it times out on the lock, its write fails, or the host kills it. `process_raw`
(`super_sol_hook.py:99-110`) answers "continue", and the host does the same without an answer. Before a tool this lets the
tool run: `PreToolUnheard` launches it and leaves the ledger alone, or saves a denial that nobody gets to hear. `unheard`
counts such calls since the last reset. After a tool it is `LostResult`, for a child the lost start or stop; a compaction
or a prompt whose hook fails changes nothing the fuse knows of and is no step at all. What a hook does before it fails
comes from `LoopStore`, where failed writes, timeouts and kills are steps of their own and leave the ledger whole.

`spent`, `reported`, `verdict`, `tried`, `idle`, `warnings` and `unheard` are history variables: they record what happened
in the world, never what the ledger says, so that a property can compare the two.

The host is not in the repository. It is any program that calls the hooks in an order the protocol allows:
several tools in flight (`Slots`), children that start and stop when they like. What may go wrong on its side is
listed in `Environment`, and each configuration names what it allows: prompts into a running turn, prompts with a
secret, compactions, lost child hooks, responses without an outcome or whose hook fails, children nobody requested, late failures.

Before a tool the handlers that precede the loop fuse may already have denied it; the model starts where the loop
fuse is asked. The handlers return at once for other models than `gpt-5.6-sol` and for tools they cannot
classify; such events have no step here. `_response` also writes an audit record, and shows a warning only in the
selective quality mode and when the turn's evidence claim is free; `warnings` counts the decisions that were saved.

### LoopStore

One process per hook. Its program counter walks through `_transition` (`Look`), `_acquire_lock` (`TakeGuard`,
`GuardTimeout`, `CreateMarker`, `StatMarker`, `RemoveStale`) and `mutate_loop_ledger` (`Load`, `Write` or
`WriteError`, `UnlinkMarker`, `Unlock`); each is one system call that another process can observe. `Kill` is the
host's timeout: the kernel drops the flock, the marker stays. `Expire` is the deadline and `Age` the passing of
five seconds, at any moment, also under a holder that lives. The ledger is the set of the hooks whose transition
it carries, which is what atomicity is about; the one decision of the policy that an earlier transition of another
hook changes, the spawn budget, is kept (`HookRules`).

### EvidenceGate

The workspace is a version number (`code`), and `tested` is the version that a verification saw whole and passed:
ground truth that the code under test never reads. `Lock`, `Write`, `FinishWrite`, `FinishVerification` and
`FinishRead` are the parts of a tool that other tasks can come between; `OnToolEnd` appends the event with the
sequence of the completion; `Claim` is the guardrail with `decide_stop`, the translation of its tripwire by
`SdkAttemptExecutor` and the `match` of `run_fablized`. `ToolError` is any exception of a tool, after a partial
write too. The SDK is modelled by what the code relies on, which the module's header states.

### TurnHooks

Every hook is a process; each of its steps is one access to a file that another hook can come between: naming an
event by the time (`Load`), claiming it (`ClaimEvent`), writing it (`WriteEvent`), reading all events (`ReadEvents`),
claiming the context of the turn (`ClaimContext`), and claiming and writing an audit slot (`ClaimSlot`,
`WriteRecord`). `stamps` is the order of the time stamps, which is fixed before the files appear, so that a reader may
see a later event and miss an earlier one; what it reads are the places in that order whose event has a file
(`Recorded`). Before a tool the benchmark guard, the billing gate and the fuse are asked
in the order of `super_sol_hook.py` (`Ask`); the fuse answers as it likes. A prompt goes through the dispatcher's short
cut or the full hook (`SubmitPrompt`, `ClaimPack`); `PromptRouting` scores signals as `route_prompt` does, with the
weights of its tables. `faults` counts kills, failed writes and second deliveries. A result hook that is killed is one that takes no
further step; there is no fairness here, so that needs no action.

The two properties about spending differ on purpose. `OnlyApprovedToolsRun` is what the code keeps: a call that spends
money runs only if some prompt of the turn confirmed it, or if the hook before it failed. `CurrentPromptApproves` is
what the design says; section 5 shows that it does not hold.

### Clean-room comparison

`CleanroomRun` follows an invocation through its identity, two temporary homes, plan or validation, the slots, and the
`finally` blocks that remove homes and containers. Faults are `Kill` (anywhere, even in the middle of the plan's
write) and `Interrupt` (an exception that unwinds through those blocks). A terminal runs one invocation after the other;
two terminals make invocations overlap. `attempt` is history: what Codex and the container really did at a slot.
`SlotLog` keeps the log per slot because no reader compares the order of different slots. `left` is the set of slots an
invocation has still to run; it takes the next one in the order of the plan (`NextSlot`).

`Promotion` takes the completions as they come, also a second one of a slot, between any two steps of report and audit.
`Report` computes a candidate and `Publish` writes it, which empties the file first, so that an audit may find it torn
(`Torn`) or replaced by that of another report. An audit reads the candidate whose gates it will pass on
(`ReadCandidate`, `codex_ab_audit.py:166`), reads it again to compare the aggregates (`RereadCandidate`, `:138`), reads the
records (`ReadRecords`, `:139`), and then scans the artifacts and decides (`Decide`). `audit` holds what it has read so
far. Audits share nothing but the file of the decision, which no program reads, so one at a time is followed. Means
over the same number of samples are compared as sums, ratios by cross multiplication. The bootstrap bound is a choice
among the values it can have: it lies between the least delta and the mean.

### Live evaluation and its report

`Day0Run` is one command line started twice: whoever makes the run directory owns it. Every append to the log is a
step, and a process may die between any two. The work of the model's turn is `EvidenceGate`'s subject and ends here in
one of four ways. `Day3Report` adds people, who grade once, and reporters with one pair of output names. Reading the
evidence is one step: the models show, and the loader demands, that a log which makes a report is finished. An effect
of the report is the sum of the differences of its tasks, counted as the tasks only one side solved free of defects
minus those only the other side did (`SumOfDifferences`); the interval around it is left out.

## 3. What the runs show

| run | question | bounds | distinct states |
|---|---|---|---|
| `fuse_verifiers` | Does a reported verifier stay blocked, and only such a one? Does the compaction fuse blow exactly when it should and hold? | 2 verifiers and an edit in 2 slots, memory of 1 (so that it overflows), 1 edit, 3 instants, prompts and compactions, 1 failing PreToolUse hook between prompts | 545 thousand |
| `fuse_spawns` | Do the budgets hold when start and stop hooks and results get lost and a hook lets its spawn in? | 5 children against 3 in total and 2 at once, 2 slots, 1 failing PreToolUse hook | 8.8 thousand (symmetric) |
| `fuse_streaks` | Are replays counted, warned of and denied, and nothing else? | 2 reads and an edit in 2 slots, memory of 2 (so that it evicts), 1 edit, blocked secrets, lost results, 1 failing PreToolUse hook | 298 thousand |
| `store` | Are transitions atomic, does every hook end, and is a dead process's marker recovered? | 3 hooks: 2 spawns with a budget of 1 and a prompt; 2 kills, 1 failed write; a ledger exists | 25 thousand |
| `evidence_gate` | Is accepted code tested, refused code untested, and does the session end? | 2 tools at once of all four kinds, 3 attempts of one batch, both arms, gated and ungated | 212 thousand |
| `cleanroom` | Is a lost slot always resumable, no score made up, the exit code true, nothing left behind? | 2 terminals, up to 3 invocations, 2 slots, 1 kill; 4 pairs of homes, 9 captures | 523 thousand |
| `promotion` | Can a promotion rest on doubled, stale or regressed evidence? | 2 tasks in 2 repetitions and arms (8 slots), 1 of them completed twice, 2 candidates | 653 thousand |
| `day0` | Does the log tell of every graded run, and does a report rest on it whole? | 2 invocations, 3 tasks, 2 reporters, 1 run that does not end well, 4 grade files | 209 thousand |
| `turn_hooks` | Are contexts given once, incidents recorded, unconfirmed spending denied, debts real? | 3 tool calls, 2 prompts, 2 audit slots, 12 sessions with up to 2 faults | 220 thousand |

The three other runs end in a counterexample on purpose; section 5 reads them.

**Bounds.** Limits of the code that are large (8 records, 64 audit slots, 30 minutes, 64-bit clocks) are constants of
the models and get small values, with enough distinct inputs to exceed them: a memory of one entry overflows with two
verifiers in the same way as one of eight with nine. `MaxReplayStreak` (3), `MaxConcurrentAgents` (2),
`MaxTotalAgents` (3), `DebtEditThreshold` (2), the promotion's percentages and repetitions, and the retries of the gate
(`max_gate_retries`, 2 by default) have the code's values. `MaxEdits`, `MaxClock`, `MaxWarnings` (2: the second warning is
the one that must not happen), `MaxCrashes`, `MaxErrors`, `MaxTurns`, `MaxKills`, `MaxInvoked`, `MaxExtra`, `MaxReports`, `MaxUnheard`, `MaxSetbacks`,
`MaxPrompts` and the `faults` and `calls` of a session of `turn_hooks` are bounds of the models only.

- One edit is enough for the stale results of an epoch because the ledger distinguishes only the present epoch from
  earlier ones. Three hooks are enough for the store's race between a holder, a dead holder and a process that
  removes a stale marker; four with one kill were checked once as well (291 thousand states).
- Three invocations allow a first run, an overlapping resumption and a third one after a kill. Two slots are the
  two arms of one cell; slots do not influence each other but through the exit code and the resumption's selection.
- One failing PreToolUse hook between two resets is enough to tell a bound of one per failure from a failure that also
  opens the door for others; the theorems hold for any number. Five children are one more than the budget of three and
  the one such call allow.
- Two candidates are what it takes to replace the one an audit has read. Without a repeated record the log grows one cell
  at a time, so that the second candidate is of both tasks, or of the same records with another seed.
- Two tasks show what one hides: a task that got worse behind one that got better. One cost differs
  (`Dear`), chosen so that a single task exceeds the budget and both together do not.
- Three calls make a debt of two edits with a verification before, between or after them; two audit slots overflow
  with three incidents. The sessions enable one kind of trouble each, so that every combination of routes, models,
  diagnostics and tools that the code tells apart occurs without multiplying them all.

Symmetry is used for agents, terminals, evaluators, reporters and tool calls, which no property tells apart, and never
in a run with liveness.

**Fairness.** `store` assumes that a live process is scheduled and that its clock reaches the deadline (`WF` of
`Step(p)` and `Expire(p)`); it does not assume that a marker grows old, that locks are granted in some order, or that
the host kills. `evidence_gate` assumes that the event loop runs each runnable tool (`WF` of `ToolStep(s)`; verifications
have a timeout of 120 seconds) and that the model answers or its call fails (`WF` of
`CallTools \/ Claim \/ ModelError`, with the SDK's turn limit as `MaxTurns`). The other runs check safety and have no
fairness: nobody obliges people to resume a run, to ask for a report or to send another prompt.

**Deadlock** is checked for the fuse, the store and the gate; where those may stop, `AllStopped` and `RunEnded` say so.
The clean-room comparison, the promotion, the live evaluation and the hooks of a turn end when their programs do:
these runs do not check it.

## 4. What is proved

All theorems hold for every value of the constants under the assumptions the modules name: any number of slots,
calls, children, hook processes, tasks, prompts, kills, and any limits.

*Store* (`LoopStoreProofs`). The heart is `StoreInvariant`, the inductive strengthening of mutual exclusion: a process
past `TakeGuard` and not yet past `Unlock` holds the flock (`Holding`), and while it is past `CreateMarker` its
marker stands (`MarkerStands`). Mutual exclusion alone is not inductive: a process that waits at a stale marker
could remove the marker of a live holder. That it holds the guard, and thus that there is no other holder, is what
the code relies on. From it follow `StoreTypeCorrect`, `StoreMutualExclusion` and `StoreMarkerStands`. Adding
that a loaded ledger is still that of the file gives `StoreRefinesAtomicLedger`, `StoreSpawnBudget` and
`StoreNoLostUpdate`; these three assume `ExistingLedger`, that the file exists before the hooks run, and section 5
shows why they must.

*Fuse* (`LoopFuseProofs`, from the operator facts of `LoopPolicyLemmas`). `FuseTypeCorrect`: types, and the ledger on
disk is always one that can be read back. Every other theorem relates the ledger to the history of the turn by an
inductive invariant of its own:

| theorem | invariant | assumed of the turn |
|---|---|---|
| `FuseStoppedUntilPrompt` | (a step alone) | `NoSecretPrompt` |
| `FuseNoVerifierReplay` | `MemoryInv`: a reported verifier is in the memory, or the memory holds the overflow mark | `NoSecretPrompt` |
| `FuseOnlyReportedVerifiersDenied` | `FaithfulInv`: the memory holds only reported verifiers, and the mark only when there are more than fit | nothing |
| `FuseWarnsOnce` | `WarnedInv`: a warning given is a flag set | `NoSecretPrompt` |
| `FuseThirdReplayWarned` | `SpokenInv`: a flag set was a warning given, and a streak at the limit has set it | no child hook runs |
| `FuseBlocksOnlyRepeatedAction` | `TidyInv`, `TriedInv`: one record per fingerprint, all of the present epoch and of calls made in it | `CallsToldApart` |
| `FuseStreakBound` | `StreakInv`: a streak plus the calls in flight that may lengthen it stays within the limit and what failed hooks let in | `FiniteSlots`, `NoSpawns` |
| `FuseCompactionFuse` | `CourseInv`: the count of compactions is that of the history, and each record tells its verifier's last outcome | `VerifiersToldApart`, `FewCalls`, `NoSecretPrompt`, no child stops |
| `FuseTotalAgentBudget` | `BudgetInv`: the total of the ledger counts all children granted but those that failed hooks let in | `NoSecretPrompt`, `NoNativeChild` |
| `FuseConcurrentAgentBudget` | `ReservedInv`: until the first child is gone, every child is reserved or active in the ledger or was let in by a failed hook | `HostKeepsOrder`, `BudgetsClose` |

The properties say what a hook that fails may cost: in `FuseStoppedUntilPrompt` and `FuseNoVerifierReplay` the one call
whose own hook fails, in the three bounds one for each (`+ unheard`). That is the point of the invariants under
`PreToolUnheard`: what such a call does later (its result, its child's start, stop or failure) meets a ledger that never
heard of it, and must not make room for further calls.

What is assumed is what the code needs for the property, not what the prover needed. A blocked secret resets the
ledger. Edits are told apart by the name of the tool alone, so that different edits with one name are one action. The
replay fuse does not look at spawns; what bounds their streaks is the budget of children. A child hook claims the
turn's warning and drops it. A verifier whose record was pushed out of the memory looks new and counts as progress
(`FewCalls`). The design counts the completion of a child as progress
(`docs/superpowers/specs/2026-07-14-super-sol-v0.9-loop-fuse-design.md:133-134`), `on_subagent_stop`
(`super_sol_loop_policy.py:182`) leaves the count of compactions alone, and `CompactionFuse` therefore speaks of turns
in which no child stops. The concurrent budget is the most delicate: after lost hooks the ledger's own counts are
wrong, and what keeps the budget is that by then the total is used up but for one, which is where `BudgetsClose`
(`MaxTotalAgents <= MaxConcurrentAgents + 1`; the code has 3 and 2) comes in. With a total of two more than the
concurrent budget the host of `fuse_spawns` exceeds it: TLC finds the trace with `MaxTotalAgents = 4`.

*Gate* (`EvidenceGateProofs`). The gate decides from a ledger that is behind the tools: between the end of a tool and
its hook the result is in neither order nor file. The inductive invariant `GateInv` therefore speaks of the sequences
of all completions, those in the ledger and those that returned tools still carry (`CodeSequences`,
`PassSequences`), which a hook moves but does not change (`HookKeepsOrder`). `Ordered` says that the code is tested
exactly when a passed verification follows every change in that order, and a write that is not recorded yet makes it
untested; the step of the tool that holds the workspace lock preserves it, for every earlier sequence is below the
next (`SequencesBelow`). When the model has its turn no tool is at work (`Quiet`), the ledger is the order, and
`DecisionSound` reads both verdicts off it: `GateAcceptedCodeTested` and `GateRefusedOnlyUntested`. With them
`GateImplementsContract` is a refinement of `CompletionContract`; `GateTypeCorrect` is the types and
`GateExhaustedAfterRetries` the agreement of the two counters of refusals. All of them hold for any number of
parallel tools, turns, attempts and any subset of tools, modes and arms.

*Promotion* (`PromotionProofs`). A candidate is a file that ages while the log grows, and an audit's readings age while
the audit goes on. The invariants therefore speak of all candidates ever computed (`drafts`), of which the types say that
any one may be in the file or in the audit's hands. `SoundDrafts`: a candidate whose gates are true carries sums that
pass; the audit promotes only one whose aggregates it has recomputed from the records it read, hence
`PromotionIsSound`. The audit looks at no single task, so `PromotionIsUnregressed` needs more. `DraftsCurrent` says that
as long as the log has as many raw pairs as a candidate counted, it has the same cells with the same first records, for
records are only ever added (`LongerKeepsCurrent`), and that this was so of the records when the audit read them; the audit
compares that count, and what the report found of each task is still so. `PromotionTypeCorrect` gives the types. All hold
for any tasks, outcomes, repeated completions and reports. The two properties speak of the records the audit read, and,
where a gate of the candidate is concerned, of audits whose two readings were of the same candidate: section 5 says what
happens otherwise.

*Turn* (`TurnHooksProofs`). `ShownClaimed`, that a context given has its marker and that there is one context per
marker, with markers never taken back, gives `TurnOneContextPerChannel`. `TurnOnlyApprovedToolsRun` rests on
`ApprovalInv`: the authorization on file is that of a prompt of the turn (`FiledApproval`), and a hook that still
waits to answer has found nothing against its call unless its incident is the guard's (`Vetted`).
`TurnIncidentsAudited` needs `AuditInv`: a slot with a record has its marker, the slots of hooks between claim and
write are marked, empty and all different (`SlotsHeld`), a hook before its write has no slot, and one past it has
exactly one or an excuse (`Accounted`). `TurnDebtEarned` compares what a hook read from files that appear late with
the order of the stamps: by `EventInv` each hook stamps once, and the one hook of a call that won its marker has
written the event or is about to (`EventsOnce`), so that a verification whose hooks are over is among the events.
`TurnTypeCorrect` puts the types in these together with those of the request and the claims (`FilesInv`).
`TurnShortCutHarmless` follows from the definitions of dispatcher and router for any prompt of the declared shape. All
hold for any sessions, calls, prompts, audit slots and faults.

*Clean-room comparison* (`CleanroomProofs`). `CleanroomInv` has one part per question. `Ownership`: one invocation at a
time owns the run directory, and only an owner plans and starts slots for the first time. `Progress`: what the log says
of the slots an invocation has behind it and before it; a resumption is accepted only when every slot is completed or
missing, which nothing takes back, so it never meets the planner at an open slot. `Attempts` and `OpenAttempts`: each
process at a slot has an attempt of its own open there, which is why two resumptions may complete a slot twice but never
without a start; `Outcomes` is what the exit code will say, `Belongings` what is to be removed. From it follow
`CleanroomTypeCorrect`, `NeverStranded`, `ExitIsTrue`, `ScoresAreJudged`, `NothingLeftBehind`, and that the invocations
implement `SlotLog` (`ProcessesImplementLog`), where each append is mapped to the action of the log it is. The assumptions
are those of the module: finitely many process identifiers that differ from the values of `root`, and a task order that
lists each task once.

*Live evaluation and report* (`EvaluationProofs`). `Day0Inv`: whoever made the run directory is the only one at work
(`Owned`), and the log tells of exactly the runs before the one it is at (`Recorded`), with abandoned runs last and every
container left on record (`Left`). It gives `Day0TypeCorrect`, `EvaluationTells` and `LeaksAreRecorded`. A report is made
in one step and read much later: `ReportsStand` says that the log it was made from was complete, so that what was
appended or graded since takes nothing from it. With it come `ReportsCoverPlan`, `QualityIsEarned` and `ReportViewsAgree`.
`FilesInv` follows the two output files through creation, failure and taking back, and gives `FilesOfOneReporter`. Assumed are
that the order of tasks repeats none, that the arm design is one of the two the manifest accepts, and that `Nobody` is no
process and no reporter.

*Only model-checked*: liveness (`EveryHookEnds`, `StaleMarkerRecovered`, `RunEnds`), which the prover does not reach. Every
other property of a passing run is a theorem. The inductive invariants were checked by TLC on the instances of the
runs before they were proved.

## 5. Where code and design differ

Three disagreements with a document of the repository end a run in a counterexample.

1. `finding_first_use`: two hooks that both find no ledger each start afresh, because existence is looked at before
   the lock (`hooks/super_sol_loop_hook.py:67`). The later write discards the earlier one and with it a spawn
   reservation ("Writes are atomic and locked", "maximum children created in one root turn is three",
   `docs/superpowers/specs/2026-07-14-super-sol-v0.9-loop-fuse-design.md`).
2. `finding_lost`: a planned task of which no slot completed drops out of the lattice (`measure/codex_ab.py:78`), and the
   comparison of the other tasks can be promoted ("32 planned slots", "Artifact omissions equal zero",
   `docs/CODEX_AB_PREREGISTRATION.md`).
3. `finding_billing`: `request.json` is rewritten only for a prompt worth persisting
   (`hooks/super_sol_prompt_hook.py:111`), so that the confirmation of an earlier prompt of the turn outlives a prompt
   without one ("unless the current prompt contains explicit billable-run authorization",
   `docs/superpowers/specs/2026-07-11-super-sol-codex-plugin-v1-design.md:39-41`).

Further observations made while translating; the models contain them unless said otherwise, and no run is about them.

- Nothing keeps two `--resume` invocations apart. Both validate the same log, run the same slots in the same workspace
  directory and complete them twice; `_validate_resume` accepts the doubled slot, every later report rejects it. The
  preregistration says "completed slots cannot run again". `Promotion` shows that such a log is never promoted.
- A `DockerCleanupError` or `FileNotFoundError` of the grader ends a fresh clean-room run with its slot started; `--resume` then
  rejects the run (`ResumableOrComplete` speaks of runs that ended with an exit code).
- In the live evaluation `except Exception` records `grader_passed=False` also when no grader judged the work. An interrupt whose
  container cannot be removed turns into a cleanup error, is recorded as an error, and the next runs start.
- Runs that are abandoned or fail without having started make the report's loader reject the log
  (`INVALID_LIFECYCLE_ORDER`), so that a run without an API key cannot be reported. A manifest may ask for 1 to 5
  repetitions, the report demands exactly two.
- Fixtures are digested when the run is planned and copied when it is executed; a checkout may change between its digest,
  `git status` and the installation of the plugin. These changes by third parties are not modelled.
- `rmtree(..., ignore_errors=True)` may leave a copy of `auth.json`; the model takes deletion to succeed, and torn lines of a log
  are not modelled either.
- The audit takes the gates from its first reading of the candidate (`measure/codex_ab_audit.py:166`) and compares the
  aggregates of its second (`:138`). A report that replaces the file in between joins the gates of an older comparison
  with the aggregates of a newer one, and the decision can promote records that fail the gates on passes, tokens and time
  or on repeated regressions; a promotion still rests on paired and undoubled records. Slots completed after the audit has
  read the records (`:139`) are not in its decision, which is then that of an older log.
- The guard's `record_incident` may raise, which `process_raw` turns into a warning under which the host goes on
  (`FailRecord`); the release brief calls the guard fail-closed. `OnlyApprovedToolsRun` names this exception.
- `process_post_tool(payload) or process_evidence(payload)` drops the evidence event whenever the fuse answers or raises.
- A kill between a claim and its write loses the event, the record or the context for the rest of the turn. The one
  context of the evidence channel is claimed before the contract is parsed.

### Limits of the fuse

These follow from the models when the host does what the runs above leave out, or are consequences of the design
that a user may notice. Whether the host does so, the repository does not say.

- A PreToolUse hook that times out on the lock (`super_sol_loop_state.py:206,219`), fails to write, or is killed lets its
  tool run without a check (`super_sol_hook.py:99-110`): in a stopped turn, a reported verifier, a replay, or a child
  beyond the budgets. The bounds of the fuse are therefore bounds plus one for each such failure, and
  `StoppedUntilPrompt` and `NoVerifierReplay` except the call whose own hook failed. A stopped turn stays stopped for
  every other call, and its ledger is unchanged.
- A PostCompact hook that fails is a compaction the fuse does not count; a prompt whose hook fails leaves the ledger of the
  turn as it was, a stopped turn stopped and the budgets used.
- With `late_failure`, a spawn reported as failed while its child runs frees another child's reservation
  (`super_sol_loop_policy.py:141`), and three children run at once.
- With `native_child`, a third child without reservation makes a ledger that may not be written
  (`super_sol_loop_state.py:238`); the event is dropped and the totals stay behind.
- With `secret`, a prompt that is blocked still resets the ledger (`super_sol_hook.py:56`) and clears the terminal state;
  the theorems about the fuse assume `NoSecretPrompt` for this reason.
- Edit tools are fingerprinted by name (`super_sol_loop_hook.py:84`): three patches that failed deny a fourth, whatever it
  would have changed. `BlocksOnlyRepeatedAction` holds of calls the fuse can tell apart; `fuse_streaks` has one edit.
- A verifier that began before an edit and is reported after it counts as a result of the new epoch
  (`super_sol_loop_policy.py:150`), and a verification of the new code with the same command is denied.
  `OnlyReportedVerifiersDenied` speaks of the epoch of the report and does not notice; no property forbids it.
- With `prompt` while children run, the reset forgets them: budgets are per prompt.
- A child that ends is progress for the reader but not for the fuse: only edits and new verifier outcomes reset the
  compaction streak, while the design counts completed children as progress. `fuse_verifiers` has no children.
- The child hooks drop the decision of their transition: a warning they claim is never shown.

## 6. Not modelled, and what is next

Not modelled, with the reason:

- *Installation key* (`.loop-key`): concurrent creation; a kill between creation and write leaves an empty key. Next.
- *Goal book*: an immutable collection with one rule about its last goal.
- *Task router and classifier*: stateless text matching; the mode of a task is an input of `EvidenceGate`.
- *Shadow and holdout statistics*, and the floating-point intervals of the day-3 report: arithmetic over finished samples.
- *Loop replay benchmark*: process isolation, seccomp and file comparison.
- *Hook latency and compatibility checks*, *supply chain and packaging*: timing, digests and report formats.

Left out of modelled components: the quarantine of an unreadable ledger, the audit record of a compaction, the bytes of a
container's output tail, tools of other registries in the harness, the wording of packs and contexts, the tables of
program names.

Next, in this order: `LoopKey` and the quarantine of an unreadable ledger; the consequences of `SlotLog` for its readers, proved once from the abstract specification.

## 7. Running

In this directory: `tlc -config MCFuseVerifiers.cfg MCLoopFuse.tla` and so on for the pairs in `PROJECT.json`;
`tlapm` for `LoopPolicyLemmas.tla`, `LoopFuseProofs.tla`, `LoopStoreProofs.tla`, `EvidenceGateProofs.tla`,
`PromotionProofs.tla`, `TurnHooksProofs.tla`, `CleanroomProofs.tla` and `EvaluationProofs.tla`.
