------------------------------ MODULE TurnHooks ------------------------------
(***************************************************************************)
(* The hooks of one Codex turn and the private state they share, next to   *)
(* the loop ledger: the classification of the prompt (request.json), the   *)
(* claims, the evidence events and the audit records.                      *)
(*                                                                         *)
(* A hook is a process of its own: the host runs those of parallel tool    *)
(* calls at once, may deliver a result twice, and may kill a hook that     *)
(* takes too long.  Every step here is one access to the files.  What the  *)
(* loop fuse decides is left open: a hook that consults it may be told     *)
(* anything (LoopFuse says what it is told).                               *)
(***************************************************************************)
EXTENDS PromptRouting, CommandPolicy, Sequences, Functions

CONSTANTS
    Uses,        \* tool calls of the turn
    Sessions,    \* the environment and model of the hooks, and what they may meet
    AuditSlots,  \* _MAX_EVENTS
    Absent,      \* no file, no value
    MaxPrompts   \* bound of the model: prompts of the turn

VARIABLES
    setting,     \* the session
    request,     \* the file request.json
    claims,      \* the files of claims/
    stamps,      \* the hooks that named their event, in the order of observed_at
    events,      \* those whose event file is there
    audits,      \* the files of audit/: which hook wrote each slot
    uses,        \* each tool call: what it is and how far it got
    hooks,       \* each hook: where it is and what it holds
    prompting,   \* the prompt whose hook is between its two files, or Absent
    submitted,   \* history: the prompts whose hook has begun
    shown,       \* history: the contexts given to the model
    faults       \* kills, failed writes and repeated deliveries; setting.faults is the bound

vars == << setting, request, claims, stamps, events, audits, uses, hooks, prompting, submitted,
           shown, faults >>

\* The hooks of a tool call: before it, after it, and the second delivery of its result.
Hooks == Uses \X {"pre", "post", "again"}
UseOf(h) == h[1]
ToolOf(h) == uses[UseOf(h)].tool
Channels == {"prompt", "evidence"}
QualityModes == {"safety", "selective"}
ModelProfiles == {"sol", "terra", "observe"}

ASSUME TurnAssumption ==
    /\ \A session \in Sessions :
        /\ \A tool \in session.tools : IsTool(tool)
        /\ \A prompt \in session.prompts : IsPrompt(prompt)
        /\ session.quality \in QualityModes /\ session.model \in ModelProfiles
        /\ session.faults \in Nat
    /\ AuditSlots \in Nat /\ MaxPrompts \in Nat /\ Absent \notin Hooks

Context(channel) == << "context", channel >>

\* Mutant of Claimed: the marker is not looked at.
NeverClaimed(marker) == FALSE

\* claim_once: whoever creates the marker wins.
Claimed(marker) == marker \in claims

Selective == setting.quality = "selective"
\* model_profile
Active == setting.model \in {"sol", "terra"}

-----------------------------------------------------------------------------
(* UserPromptSubmit *)

\* The short cut of the dispatcher, taken when no diagnostic variable is set.
Generic(prompt) ==
    setting.diagnostic = "none" /\ ~prompt.secret /\ ~Guarded(prompt, Selective)

\* _diagnostic_control and the choice of the route.
EffectiveRoute(prompt) ==
    LET decision == RoutePrompt(prompt) IN
    IF ~Selective \/ ~Active \/ setting.diagnostic = "observe" THEN PassThrough
    ELSE IF setting.diagnostic = "forced" THEN setting.forced
    ELSE decision.route

ShouldPersist(prompt) ==
    LET decision == RoutePrompt(prompt) IN
    \/ BillableAuthorized(prompt)
    \/ setting.diagnostic \notin {"none", "empty"}
    \/ Selective /\ (decision.actionable \/ decision.contract # NoContract \/ decision.forced)

\* The fields of request.json the other hooks read; an observing session hides the model.
Request(prompt) ==
    [billable |-> BillableAuthorized(prompt), contract |-> RoutePrompt(prompt).contract,
     quality |-> setting.quality, observed |-> setting.diagnostic = "observe",
     model |-> IF setting.diagnostic = "observe" THEN Absent ELSE setting.model]

\* The prompt-time context process_prompt has for the model before its claim.
HasPack(prompt) == ~RoutePrompt(prompt).warned /\ EffectiveRoute(prompt) # PassThrough

\* dispatch, process_prompt: a prompt with a secret leaves no trace, a generic prompt none
\* either; another one is classified.
SubmitPrompt(prompt) ==
    /\ prompting = Absent /\ Len(submitted) < MaxPrompts
    /\ submitted' = Append(submitted, prompt)
    /\ IF prompt.secret \/ Generic(prompt) THEN UNCHANGED << request, prompting >>
       ELSE /\ request' = IF ShouldPersist(prompt) THEN Request(prompt) ELSE request
            /\ prompting' = IF HasPack(prompt) THEN prompt ELSE Absent
    /\ UNCHANGED << setting, claims, stamps, events, audits, uses, hooks, shown, faults >>

\* write_private_json fails: the prompt goes on with a warning and no context.
FailPrompt(prompt) ==
    /\ prompting = Absent /\ Len(submitted) < MaxPrompts /\ faults < setting.faults
    /\ ~prompt.secret /\ ~Generic(prompt) /\ ShouldPersist(prompt)
    /\ submitted' = Append(submitted, prompt)
    /\ faults' = faults + 1
    /\ UNCHANGED << setting, request, claims, stamps, events, audits, uses, hooks, prompting, shown >>

ClaimPack ==
    /\ prompting # Absent
    /\ prompting' = Absent
    /\ claims' = claims \cup {Context("prompt")}
    /\ shown' = IF Claimed(Context("prompt")) THEN shown
                ELSE shown \cup {<< "pack", Len(submitted), "prompt" >>}
    /\ UNCHANGED << setting, request, stamps, events, audits, uses, hooks, submitted, faults >>

-----------------------------------------------------------------------------
(* PreToolUse and PostToolUse: what both do with an incident *)

At(h, pc) == hooks[h].pc = pc
Idle == [pc |-> "idle", incident |-> "none", slot |-> 0, lost |-> FALSE,
         state |-> Absent, context |-> "none"]
Over == {"done", "failed"}
Goto(h, pc) ==
    hooks' = [hooks EXCEPT ![h] = IF pc \in Over
                                  THEN [Idle EXCEPT !.pc = pc, !.incident = hooks[h].incident,
                                            !.lost = hooks[h].lost]
                                  ELSE [@ EXCEPT !.pc = pc]]
\* The fuse acts in a turn of the sol model only; its answers are those of the session.
Before == IF setting.model = "sol" THEN {"none"} \cup setting.answers ELSE {"none"}
After == Before \ {"deny"}

\* The answer of a hook: a denied call does not run, a stop ends the turn's tool calls.
Answer(h, allowed) ==
    uses' = IF h[2] = "pre"
            THEN [uses EXCEPT ![UseOf(h)].state = IF allowed THEN "allowed" ELSE "denied"]
            ELSE uses

\* _response, once the incident is recorded or its recording failed: a warning needs the
\* opt-in and the claim of the evidence channel.
Respond(h) ==
    /\ At(h, "respond")
    /\ LET warns == hooks[h].incident = "warn" /\ Selective
       IN /\ claims' = IF warns THEN claims \cup {Context("evidence")} ELSE claims
          /\ shown' = IF warns /\ ~Claimed(Context("evidence"))
                      THEN shown \cup {<< "loop", h, "evidence" >>} ELSE shown
          \* process_post_tool(payload) or process_evidence(payload)
          /\ Goto(h, IF h[2] # "pre" /\ hooks[h].incident = "warn"
                         /\ (warns => Claimed(Context("evidence")))
                      THEN "load" ELSE "done")
    /\ Answer(h, hooks[h].incident \notin {"guard", "deny", "stop"})
    /\ UNCHANGED << setting, request, stamps, events, audits, prompting, submitted, faults >>

\* Mutant of FreeSlots: the slots without a file.
EmptySlots == {slot \in 1..AuditSlots : audits[slot] = Absent}

\* record_incident: the first slot nobody claimed; none is left when all are taken.
FreeSlots == {slot \in 1..AuditSlots : ~Claimed(<< "audit", slot >>)}
ClaimSlot(h) ==
    /\ At(h, "incident")
    /\ IF FreeSlots = {}
       THEN Goto(h, "respond") /\ UNCHANGED claims
       ELSE LET slot == Min(FreeSlots) IN
            /\ claims' = claims \cup {<< "audit", slot >>}
            /\ hooks' = [hooks EXCEPT ![h].pc = "record", ![h].slot = slot]
    /\ UNCHANGED << setting, request, stamps, events, audits, uses, prompting, submitted, shown, faults >>

WriteRecord(h) ==
    /\ At(h, "record")
    /\ audits' = [audits EXCEPT ![hooks[h].slot] = h]
    /\ Goto(h, "respond")
    /\ UNCHANGED << setting, request, claims, stamps, events, uses, prompting, submitted, shown, faults >>

\* The loop hook suppresses the error; the guard does not, and process_raw turns it into a
\* warning under which the host goes on.
FailRecord(h) ==
    /\ At(h, "record") /\ faults < setting.faults
    /\ faults' = faults + 1
    /\ IF hooks[h].incident = "guard"
       THEN Goto(h, "failed") /\ Answer(h, TRUE)
       ELSE hooks' = [hooks EXCEPT ![h].pc = "respond", ![h].lost = TRUE] /\ UNCHANGED uses
    /\ UNCHANGED << setting, request, claims, stamps, events, audits, prompting, submitted, shown >>

-----------------------------------------------------------------------------
(* PreToolUse *)

\* A turn begins with a prompt; the bound on its tool calls is that of the session.
MayAsk(u) ==
    /\ uses[u].state = "none" /\ submitted # << >>
    /\ Cardinality({v \in Uses : uses[v].state # "none"}) < setting.calls

\* The model asks for a tool; _benchmark_guard, billable_pre_tool, process_pre_tool.
Authorized == request # Absent /\ request.billable
Ask(u, tool, decision) ==
    LET guarded == GuardDenied(tool, setting.guard)
        billed == ~guarded /\ BillableDenied(tool, Authorized)
        incident == IF guarded THEN "guard" ELSE IF billed THEN "none" ELSE decision
    IN
    /\ MayAsk(u)
    /\ guarded \/ billed => decision = "none"
    /\ hooks' = [hooks EXCEPT ![<< u, "pre" >>].pc = IF incident = "none" THEN "done" ELSE "incident",
                              ![<< u, "pre" >>].incident = incident]
    /\ uses' = [uses EXCEPT ![u] =
                    [tool |-> tool, ok |-> FALSE,
                     state |-> IF billed THEN "denied"
                               ELSE IF incident = "none" THEN "allowed" ELSE "asked"]]
    /\ UNCHANGED << setting, request, claims, stamps, events, audits, prompting, submitted, shown, faults >>

\* The hook is killed, or the fuse cannot use its ledger, before it has an answer.
AskUnheard(u, tool) ==
    /\ MayAsk(u) /\ faults < setting.faults
    /\ faults' = faults + 1
    /\ Goto(<< u, "pre" >>, "failed")
    /\ uses' = [uses EXCEPT ![u] = [tool |-> tool, state |-> "allowed", ok |-> FALSE]]
    /\ UNCHANGED << setting, request, claims, stamps, events, audits, prompting, submitted, shown >>

\* The host runs an allowed call and delivers its result, perhaps once more.
Deliver(u, which, success, decision) ==
    LET h == << u, which >> IN
    /\ \/ which = "post" /\ uses[u].state = "allowed" /\ UNCHANGED faults
       \/ /\ which = "again" /\ uses[u].state = "run" /\ success = uses[u].ok
          /\ faults < setting.faults /\ faults' = faults + 1
    /\ At(h, "idle")
    /\ uses' = [uses EXCEPT ![u].state = "run", ![u].ok = success]
    /\ hooks' = [hooks EXCEPT ![h].pc = IF decision = "none" THEN "load" ELSE "incident",
                              ![h].incident = decision]
    /\ UNCHANGED << setting, request, claims, stamps, events, audits, prompting, submitted, shown >>

-----------------------------------------------------------------------------
(* PostToolUse: process_evidence *)

EventKind(tool) ==
    IF tool.name = "edit" THEN "edit"
    ELSE IF Kind(tool) = "verifier" THEN "verification" ELSE "other"

\* load_state, then the name of the event with its time.
Load(h) ==
    /\ At(h, "load")
    /\ IF request = Absent \/ EventKind(ToolOf(h)) = "other"
       THEN Goto(h, "done") /\ UNCHANGED stamps
       ELSE /\ hooks' = [hooks EXCEPT ![h].pc = "event", ![h].state = request]
            /\ stamps' = Append(stamps, h)
    /\ UNCHANGED << setting, request, claims, events, audits, uses, prompting, submitted, shown, faults >>

\* record_event: one event of a kind for one tool call.  A verification delivered again
\* still asks for a context, an edit does not.
ClaimEvent(h) ==
    LET marker == << "event", UseOf(h) >> IN
    /\ At(h, "event")
    /\ claims' = claims \cup {marker}
    /\ Goto(h, IF ~Claimed(marker) THEN "write"
               ELSE IF EventKind(ToolOf(h)) = "edit" THEN "done" ELSE "read")
    /\ UNCHANGED << setting, request, stamps, events, audits, uses, prompting, submitted, shown, faults >>

WriteEvent(h) ==
    /\ At(h, "write")
    /\ events' = events \cup {h}
    /\ Goto(h, "read")
    /\ UNCHANGED << setting, request, claims, stamps, audits, uses, prompting, submitted, shown, faults >>

\* _model_visible_eligible
Eligible(state) ==
    /\ Selective /\ state.quality = "selective" /\ Active
    /\ state.model = setting.model /\ ~state.observed

\* load_events: the places, in the order of the time stamps, of the events that have a file.
Recorded == {i \in DOMAIN stamps : stamps[i] \in events}
Is(h, kind) == EventKind(ToolOf(h)) = kind
Passed(h) == uses[UseOf(h)].ok
SuccessfulEdit(h) == Is(h, "edit") /\ Passed(h)
\* _DEBT_EDIT_THRESHOLD
DebtEditThreshold == 2

\* Mutant of VerificationDebt: only a verification that passed settles the edits.
DebtUntilPassed(log) ==
    Cardinality({i \in log :
        /\ SuccessfulEdit(stamps[i])
        /\ \A j \in log : j > i => ~(Is(stamps[j], "verification") /\ Passed(stamps[j]))}) >= DebtEditThreshold

\* _verification_debt: successful edits after the last verification.
VerificationDebt(log) ==
    Cardinality({i \in log :
        /\ SuccessfulEdit(stamps[i])
        /\ \A j \in log : j > i => ~Is(stamps[j], "verification")}) >= DebtEditThreshold

\* _edit_evidence and next_context_kind: the context the events call for.
ContextFor(h, log) ==
    LET state == hooks[h].state IN
    IF ~Eligible(state) THEN "none"
    ELSE IF Is(h, "edit") THEN IF Passed(h) /\ VerificationDebt(log) THEN "debt" ELSE "none"
    ELSE IF state.contract = NoContract \/ ~\E i \in log : SuccessfulEdit(stamps[i])
         THEN "none"
    ELSE IF Passed(h) THEN "residual" ELSE "repair"

ReadEvents(h) ==
    /\ At(h, "read")
    /\ LET context == ContextFor(h, Recorded) IN
       hooks' = [hooks EXCEPT ![h].pc = IF context = "none" THEN "done" ELSE "claim",
                              ![h].context = context]
    /\ UNCHANGED << setting, request, claims, stamps, events, audits, uses, prompting, submitted, shown, faults >>

ClaimContext(h) ==
    /\ At(h, "claim")
    /\ claims' = claims \cup {Context("evidence")}
    /\ shown' = IF Claimed(Context("evidence")) THEN shown
                ELSE shown \cup {<< hooks[h].context, h, "evidence" >>}
    /\ Goto(h, "done")
    /\ UNCHANGED << setting, request, stamps, events, audits, uses, prompting, submitted, faults >>

-----------------------------------------------------------------------------
\* The host kills a hook that overruns its time and goes on as if it had said nothing.  A
\* result hook that is killed, or whose write fails, is one that takes no further step.
Kill(u) ==
    LET h == << u, "pre" >> IN
    /\ hooks[h].pc \notin {"idle"} \cup Over /\ faults < setting.faults
    /\ faults' = faults + 1
    /\ Goto(h, "failed")
    /\ Answer(h, TRUE)
    /\ UNCHANGED << setting, request, claims, stamps, events, audits, prompting, submitted, shown >>

KillPrompt ==
    /\ prompting # Absent /\ faults < setting.faults
    /\ faults' = faults + 1
    /\ prompting' = Absent
    /\ UNCHANGED << setting, request, claims, stamps, events, audits, uses, hooks, submitted, shown >>

Init ==
    /\ setting \in Sessions
    /\ request = Absent
    /\ claims = {} /\ stamps = << >> /\ events = {}
    /\ audits = [slot \in 1..AuditSlots |-> Absent]
    /\ uses = [u \in Uses |-> [tool |-> Absent, state |-> "none", ok |-> FALSE]]
    /\ hooks = [h \in Hooks |-> Idle]
    /\ prompting = Absent /\ submitted = << >> /\ shown = {} /\ faults = 0

HookStep(h) ==
    \/ ClaimSlot(h) \/ WriteRecord(h) \/ FailRecord(h) \/ Respond(h)
    \/ Load(h) \/ ClaimEvent(h) \/ WriteEvent(h) \/ ReadEvents(h) \/ ClaimContext(h)

Next ==
    \/ \E prompt \in setting.prompts : SubmitPrompt(prompt) \/ FailPrompt(prompt)
    \/ ClaimPack \/ KillPrompt
    \/ \E u \in Uses, tool \in setting.tools, decision \in Before : Ask(u, tool, decision)
    \/ \E u \in Uses : Kill(u) \/ \E tool \in setting.tools : AskUnheard(u, tool)
    \/ \E u \in Uses, which \in {"post", "again"}, success \in BOOLEAN, decision \in After :
        Deliver(u, which, success, decision)
    \/ \E h \in Hooks : HookStep(h)

Spec == Init /\ [][Next]_vars

-----------------------------------------------------------------------------
\* Two bounded contexts a turn, one per channel, whatever hooks race for them and however
\* often a prompt or a result is delivered (claim_context).
OneContextPerChannel ==
    \A channel \in Channels : Cardinality({c \in shown : c[3] = channel}) <= 1

\* An edit hook finds a verification debt only when two different calls have edited with
\* success since the last verification that is over: one whose hooks ran only after the
\* older of the edits and all ended well (_verification_debt, record_event).
VerifiedAfter(i) ==
    \E u \in Uses :
        /\ \E j \in DOMAIN stamps : UseOf(stamps[j]) = u /\ Is(stamps[j], "verification")
        /\ \A j \in DOMAIN stamps : UseOf(stamps[j]) = u => j > i
        /\ \A which \in {"post", "again"} : hooks[<< u, which >>].pc \in {"idle", "done"}
DebtEarned ==
    [][\A h \in Hooks :
        At(h, "read") /\ hooks'[h].context = "debt" =>
            \E i, k \in DOMAIN stamps :
                /\ UseOf(stamps[i]) # UseOf(stamps[k])
                /\ SuccessfulEdit(stamps[i]) /\ SuccessfulEdit(stamps[k])
                /\ ~VerifiedAfter(Min({i, k}))]_vars

\* A hook that ended well has its incident on record, in one slot, unless the slots ran out
\* or its write failed; a record is never replaced (record_incident).
IncidentsAudited ==
    \A h \in Hooks : At(h, "done") /\ hooks[h].incident # "none" /\ ~hooks[h].lost =>
        \/ Cardinality({slot \in 1..AuditSlots : audits[slot] = h}) = 1
        \/ \A slot \in 1..AuditSlots : << "audit", slot >> \in claims

\* No call that spends money runs unless a prompt of the turn confirmed it, and none that
\* changes a guarded test, except one whose hook failed: a guard that cannot write its
\* record, a hook that is killed.
Approved == \E i \in DOMAIN submitted : BillableAuthorized(submitted[i]) /\ ~submitted[i].secret
OnlyApprovedToolsRun ==
    \A u \in Uses : uses[u].state \in {"allowed", "run"} =>
        \/ At(<< u, "pre" >>, "failed")
        \/ /\ Spends(uses[u].tool) => Approved
           /\ ~GuardDenied(uses[u].tool, setting.guard)

\* What the short cut of the dispatcher skips would have done nothing.
ShortCutHarmless ==
    \A prompt \in setting.prompts : Generic(prompt) => ~ShouldPersist(prompt) /\ ~HasPack(prompt)

\* What the design says of the guard: the confirmation is that of the current prompt.
CurrentPromptApproves ==
    [][\A u \in Uses :
        uses[u].state # uses'[u].state /\ uses'[u].state = "allowed" /\ Spends(uses'[u].tool) =>
            \/ At(<< u, "pre" >>, "idle") /\ hooks'[<< u, "pre" >>].pc = "failed"
            \/ Len(submitted) > 0 /\ BillableAuthorized(submitted[Len(submitted)])]_vars

RequestTypeOK ==
    request = Absent \/
    request \in [billable : BOOLEAN, contract : Contracts \cup {NoContract}, observed : BOOLEAN,
                 quality : QualityModes, model : ModelProfiles \cup {Absent}]
Markers == ({"context"} \X Channels) \cup ({"audit"} \X (1..AuditSlots)) \cup ({"event"} \X Uses)
\* Each file of the turn holds what its writer puts there, and no more goes wrong than the
\* session allows.
TurnTypeOK ==
    /\ setting \in Sessions
    /\ RequestTypeOK
    /\ events \subseteq Range(stamps) /\ Range(stamps) \subseteq Hooks
    /\ claims \subseteq Markers
    /\ audits \in [1..AuditSlots -> Hooks \cup {Absent}]
    /\ faults \in 0..setting.faults
=============================================================================
