----------------------------- MODULE EvidenceGate -----------------------------
(***************************************************************************)
(* One session of the optional evaluation harness (fablized_sol.harness    *)
(* and fablized_sol.engine): run_fablized drives a few attempts of an      *)
(* agent, the agent runs tools in parallel, the tools change and verify a  *)
(* workspace under a lock, a hook turns each result into an event of the   *)
(* ledger, and an output guardrail decides from the ledger whether a       *)
(* completion claim is accepted.                                           *)
(*                                                                         *)
(* The OpenAI Agents SDK is not in the repository.  It is modelled by what *)
(* the code relies on: the tools of one model turn run as tasks of one     *)
(* event loop, on_tool_end runs in the task of its tool after the tool     *)
(* returned, the next model turn waits for all of them, a tool that raises *)
(* ends the run, and an attempt takes at most MaxTurns model turns.        *)
(*                                                                         *)
(* The content of the workspace is a version number: `code` counts the     *)
(* writes that changed code.  A verification passes or fails as it likes;  *)
(* what is recorded is which version it saw.                               *)
(***************************************************************************)
EXTENDS Integers, Sequences, FiniteSets

CONSTANTS
    Slots,       \* tool calls of one model turn
    Tools,       \* of "code", "docs", "verify", "read": what the model may call
    Modes,       \* task modes explored, of "quick", "normal", "deep"
    Arms,        \* holdout arms explored, of "on", "off"
    RetryLimit,  \* max_gate_retries, also the gate's retry_limit
    MaxTurns,    \* model turns of one attempt (a limit of the SDK)
    Nobody       \* the workspace lock is free

ASSUME GateAssumption ==
    /\ Tools \subseteq {"code", "docs", "verify", "read"}
    /\ Modes \subseteq {"quick", "normal", "deep"}
    /\ Arms \subseteq {"on", "off"}
    /\ RetryLimit \in Nat
    /\ MaxTurns \in Nat
    /\ Nobody \notin Slots

VARIABLES
    mode, arm,   \* the ClassifyEvent of the ledger and the arm of the context
    phase,       \* where run_fablized is
    attempt,     \* the attempt it is in
    turns,       \* model turns of this attempt
    calls,       \* the tool call of each slot
    lock,        \* workspace_lock
    code,        \* writes that changed code so far
    tested,      \* the last version that a verification saw whole and passed
    next,        \* CompletionSequencer._next
    sequences,   \* CompletionSequencer._sequences: 0 for a result without one
    ledger       \* the events the gate reads, in file order

vars == << mode, arm, phase, attempt, turns, calls, lock, code, tested, next, sequences, ledger >>
session == << mode, arm >>
progress == << phase, attempt, turns >>
sequencer == << next, sequences >>

Idle == [step |-> "idle", tool |-> "none", start |-> 0, passed |-> FALSE]
Steps == {"idle", "waiting", "running", "written", "returned"}
Calling == {Idle} \cup [step : Steps \ {"idle"}, tool : Tools, start : Nat, passed : BOOLEAN]
Writes == {"code", "docs"}
LedgerEvents ==
    [event : {"mutation"}, kind : Writes, success : {TRUE}, sequence : Nat]
        \cup [event : {"verification", "gate_fire"}, kind : {"none"}, success : BOOLEAN,
              sequence : Nat]
Ended == {"completed", "exhausted", "aborted"}

-----------------------------------------------------------------------------
(***************************************************************************)
(* The ledger and what Ledger.state aggregates from it.  Read and rejected *)
(* events are left out: state() passes over them.                          *)
(***************************************************************************)
Mutation(kind, sequence) ==
    [event |-> "mutation", kind |-> kind, success |-> TRUE, sequence |-> sequence]
Verification(success, sequence) ==
    [event |-> "verification", kind |-> "none", success |-> success, sequence |-> sequence]
GateFire == [event |-> "gate_fire", kind |-> "none", success |-> FALSE, sequence |-> 0]

Events == {ledger[i] : i \in DOMAIN ledger}
Mutations == {e \in Events : e.event = "mutation"}
CodeMutations == {e \in Mutations : e.kind = "code"}
PassedVerifications == {e \in Events : e.event = "verification" /\ e.success}

ChangeKinds == {e.kind : e \in Mutations}
StopBlocks == Cardinality({i \in DOMAIN ledger : ledger[i].event = "gate_fire"})

\* Mutant of HasFreshVerification: a change of docs makes a verification old.
HasFreshVerificationOfAll ==
    /\ CodeMutations # {}
    /\ \E v \in PassedVerifications : \A m \in Mutations : v.sequence > m.sequence

\* has_fresh_verification: the largest sequence of a passed verification exceeds the
\* largest of a code mutation, and there is one of each.
HasFreshVerification ==
    /\ CodeMutations # {}
    /\ \E v \in PassedVerifications : \A m \in CodeMutations : v.sequence > m.sequence

\* Mutant of Decision: the last retry is not granted.
DecisionEarly ==
    IF \/ arm = "off"
       \/ ChangeKinds = {}
       \/ HasFreshVerification
       \/ mode \in {"quick", "normal"}
       \/ ChangeKinds = {"docs"}
    THEN "allow"
    ELSE IF StopBlocks + 1 >= RetryLimit THEN "exhausted" ELSE "block"

\* decide_stop
Decision ==
    IF \/ arm = "off"
       \/ ChangeKinds = {}
       \/ HasFreshVerification
       \/ mode \in {"quick", "normal"}
       \/ ChangeKinds = {"docs"}
    THEN "allow"
    ELSE IF StopBlocks >= RetryLimit THEN "exhausted" ELSE "block"

-----------------------------------------------------------------------------
Init ==
    /\ mode \in Modes
    /\ arm \in Arms
    /\ phase = "model"
    /\ attempt = 1
    /\ turns = 0
    /\ calls = [s \in Slots |-> Idle]
    /\ lock = Nobody
    /\ code = 0
    /\ tested = 0
    /\ next = 1
    /\ sequences = [s \in Slots |-> 0]
    /\ ledger = << >>

\* The model answers with tool calls.
CallTools ==
    /\ phase = "model"
    /\ turns < MaxTurns
    /\ \E batch \in [Slots -> Tools \cup {"none"}] :
          /\ \E s \in Slots : batch[s] # "none"
          /\ calls' = [s \in Slots |->
                         IF batch[s] = "none" THEN Idle
                         ELSE [Idle EXCEPT !.step = "waiting", !.tool = batch[s]]]
    /\ phase' = "tools"
    /\ turns' = turns + 1
    /\ UNCHANGED << session, attempt, lock, code, tested, sequencer, ledger >>

\* Mutant of Lock: nobody waits for the lock.
LockFree(s) ==
    /\ phase = "tools"
    /\ calls[s].step = "waiting"
    /\ lock' = s
    /\ calls' = [calls EXCEPT ![s].step = "running", ![s].start = code]
    /\ UNCHANGED << session, progress, code, tested, sequencer, ledger >>

\* async with context.workspace_lock
Lock(s) ==
    /\ phase = "tools"
    /\ calls[s].step = "waiting"
    /\ lock = Nobody
    /\ lock' = s
    /\ calls' = [calls EXCEPT ![s].step = "running", ![s].start = code]
    /\ UNCHANGED << session, progress, code, tested, sequencer, ledger >>

\* _write_text in a worker thread
Write(s) ==
    /\ phase = "tools"
    /\ calls[s].step = "running"
    /\ calls[s].tool \in Writes
    /\ code' = IF calls[s].tool = "code" THEN code + 1 ELSE code
    /\ calls' = [calls EXCEPT ![s].step = "written"]
    /\ UNCHANGED << session, progress, lock, tested, sequencer, ledger >>

\* CompletionSequencer.record
Record(s) ==
    /\ sequences' = [sequences EXCEPT ![s] = next]
    /\ next' = next + 1

\* The writer records its result and releases the lock.
FinishWrite(s) ==
    /\ phase = "tools"
    /\ calls[s].step = "written"
    /\ Record(s)
    /\ calls' = [calls EXCEPT ![s].step = "returned"]
    /\ lock' = Nobody
    /\ UNCHANGED << session, progress, code, tested, ledger >>

\* Mutant of FinishVerification: one that fails runs again.
FinishVerificationRetrying(s, passed) ==
    /\ phase = "tools"
    /\ calls[s].step = "running"
    /\ calls[s].tool = "verify"
    /\ IF passed
       THEN Record(s) /\ calls' = [calls EXCEPT ![s].step = "returned", ![s].passed = TRUE]
       ELSE UNCHANGED sequencer /\ calls' = [calls EXCEPT ![s].step = "waiting"]
    /\ tested' = IF passed /\ calls[s].start = code THEN code ELSE tested
    /\ lock' = Nobody
    /\ UNCHANGED << session, progress, code, ledger >>

\* run_verification_process: an exit code, a timeout and a missing image or docker alike
\* are a typed result.
FinishVerification(s, passed) ==
    /\ phase = "tools"
    /\ calls[s].step = "running"
    /\ calls[s].tool = "verify"
    /\ Record(s)
    /\ tested' = IF passed /\ calls[s].start = code THEN code ELSE tested
    /\ calls' = [calls EXCEPT ![s].step = "returned", ![s].passed = passed]
    /\ lock' = Nobody
    /\ UNCHANGED << session, progress, code, ledger >>

\* list_file_paths and read_text
FinishRead(s) ==
    /\ phase = "tools"
    /\ calls[s].step = "running"
    /\ calls[s].tool = "read"
    /\ calls' = [calls EXCEPT ![s].step = "returned"]
    /\ lock' = Nobody
    /\ UNCHANGED << session, progress, code, tested, sequencer, ledger >>

\* A path outside the workspace, a failed write (which may have truncated the file) or a
\* container that cannot be removed: failure_error_function=None lets it end the run.
ToolError(s) ==
    /\ phase = "tools"
    /\ calls[s].step = "running"
    /\ \/ UNCHANGED code
       \/ calls[s].tool = "code" /\ code' = code + 1
    /\ phase' = "aborted"
    /\ UNCHANGED << session, attempt, turns, calls, lock, tested, sequencer, ledger >>

\* Mutant of OnToolEnd: the sequence is the order of the hooks.
OnToolEndSequencing(s) ==
    /\ phase = "tools"
    /\ calls[s].step = "returned"
    /\ ledger' = IF calls[s].tool = "read" THEN ledger
                 ELSE Append(ledger, IF calls[s].tool = "verify"
                                     THEN Verification(calls[s].passed, next)
                                     ELSE Mutation(calls[s].tool, next))
    /\ next' = next + 1
    /\ sequences' = [sequences EXCEPT ![s] = 0]
    /\ calls' = [calls EXCEPT ![s] = Idle]
    /\ phase' = IF \A r \in Slots \ {s} : calls[r] = Idle THEN "model" ELSE phase
    /\ UNCHANGED << session, attempt, turns, lock, code, tested >>

\* LedgerHooks.on_tool_end consumes the sequence of the result.
OnToolEnd(s) ==
    /\ phase = "tools"
    /\ calls[s].step = "returned"
    /\ ledger' = IF calls[s].tool = "read" THEN ledger
                 ELSE Append(ledger, IF calls[s].tool = "verify"
                                     THEN Verification(calls[s].passed, sequences[s])
                                     ELSE Mutation(calls[s].tool, sequences[s]))
    /\ sequences' = [sequences EXCEPT ![s] = 0]
    /\ calls' = [calls EXCEPT ![s] = Idle]
    /\ phase' = IF \A r \in Slots \ {s} : calls[r] = Idle THEN "model" ELSE phase
    /\ UNCHANGED << session, attempt, turns, lock, code, tested, next >>

\* The model claims completion: verification_gate, SdkAttemptExecutor.execute and the
\* match of run_fablized.  Without the guardrail of the treated arm every claim passes.
Claim ==
    /\ phase = "model"
    /\ IF Decision = "allow"
       THEN phase' = "completed" /\ UNCHANGED << attempt, turns, ledger >>
       ELSE /\ ledger' = Append(ledger, GateFire)
            /\ IF Decision = "exhausted" \/ attempt = RetryLimit + 1
               THEN phase' = "exhausted" /\ UNCHANGED << attempt, turns >>
               ELSE attempt' = attempt + 1 /\ turns' = 0 /\ UNCHANGED phase
    /\ UNCHANGED << session, calls, lock, code, tested, sequencer >>

\* MaxTurnsExceeded, or an error of the model service.
ModelError ==
    /\ phase = "model"
    /\ phase' = "aborted"
    /\ UNCHANGED << session, attempt, turns, calls, lock, code, tested, sequencer, ledger >>

RunEnded == phase \in Ended /\ UNCHANGED vars

ToolStep(s) ==
    \/ Lock(s)
    \/ Write(s) \/ FinishWrite(s)
    \/ \E passed \in BOOLEAN : FinishVerification(s, passed)
    \/ FinishRead(s)
    \/ ToolError(s)
    \/ OnToolEnd(s)

Next ==
    \/ CallTools
    \/ \E s \in Slots : ToolStep(s)
    \/ Claim
    \/ ModelError
    \/ RunEnded

Spec == Init /\ [][Next]_vars

\* The event loop runs every task that can run; the 120 seconds of a verification and the
\* turn limit of the SDK keep tools and the model from going on for ever.
FairSpec ==
    /\ Spec
    /\ WF_vars(CallTools \/ Claim \/ ModelError)
    /\ \A s \in Slots : WF_vars(ToolStep(s))

-----------------------------------------------------------------------------
(***************************************************************************)
(* Properties.                                                             *)
(***************************************************************************)
Gated == mode = "deep" /\ arm = "on"

GateTypeOK ==
    /\ mode \in Modes /\ arm \in Arms
    /\ phase \in {"model", "tools"} \cup Ended
    /\ attempt \in 1 .. RetryLimit + 1
    /\ turns \in 0 .. MaxTurns
    /\ calls \in [Slots -> Calling]
    /\ lock \in Slots \cup {Nobody}
    /\ code \in Nat /\ tested \in 0 .. code
    /\ next \in Nat \ {0} /\ sequences \in [Slots -> 0 .. next - 1]
    /\ ledger \in Seq(LedgerEvents)
    /\ \A e \in Events : e.sequence < next

\* The claim of a deep task is accepted only when the code is untouched or the very code
\* that is in the workspace was seen whole by a verification that passed, in whatever
\* order parallel tools completed and their hooks ran.
AcceptedCodeTested == phase = "completed" /\ Gated => tested = code

\* No claim is refused for code that a verification has seen and passed.
RefusedOnlyUntested ==
    [][StopBlocks' # StopBlocks => tested # code]_vars

\* The two counters of refusals, the gate's events in the ledger and the attempts of
\* run_fablized, agree: a run is exhausted after all its retries and not before.
ExhaustedAfterRetries ==
    /\ phase = "exhausted" => attempt = RetryLimit + 1 /\ StopBlocks = RetryLimit + 1
    /\ phase \notin {"exhausted", "aborted"} => StopBlocks = attempt - 1

\* Every run ends, with a verdict or an error.
RunEnds == <>(phase \in Ended)

Work == IF code = 0 THEN "untouched" ELSE IF tested = code THEN "verified" ELSE "unverified"
Outcome ==
    CASE phase = "completed" -> "completed"
      [] phase \in {"exhausted", "aborted"} -> "given_up"
      [] OTHER -> "open"

Contract == INSTANCE CompletionContract WITH gated <- Gated, work <- Work, outcome <- Outcome

\* Every interleaving of tools, hooks and claims is one of the contract: changes and
\* verifications in the order in which they took effect, and an acceptance it allows.
ImplementsContract == Contract!CSpec
=============================================================================
