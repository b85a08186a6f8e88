--------------------------- MODULE TurnHooksProofs ---------------------------
(***************************************************************************)
(* Theorems about TurnHooks, for any number of tool calls, prompts, audit  *)
(* slots and faults.                                                       *)
(*                                                                         *)
(* OneContextPerChannel follows once a context that was shown has its      *)
(* marker in claims, where markers are never taken back (ShownClaimed).    *)
(* OnlyApprovedToolsRun speaks of calls that run; the decision is older:   *)
(* it is made when the call is asked for, from a file another prompt may   *)
(* replace, and waits in a hook that records an incident first.  Vetted    *)
(* says what a waiting hook has seen, FiledApproval where the file is from.*)
(* IncidentsAudited is about the end of a hook; AuditInv follows a slot    *)
(* from its marker to its record, through hooks that claim slots side by   *)
(* side (SlotsHeld) and never leave one half recorded (Accounted).         *)
(* DebtEarned compares what a hook reads from files with the order of the  *)
(* stamps: EventInv says that a call has one event (EventsOnce), written   *)
(* before the hooks of the call are over, whichever of them won it.        *)
(***************************************************************************)
EXTENDS TurnHooks, FiniteSetTheorems, WellFoundedInduction, TLAPS

(* One context per channel *)

\* Whoever shows a context has made its marker, and found none before.
ShownClaimed ==
    /\ \A c \in shown : Context(c[3]) \in claims
    /\ \A c, d \in shown : c[3] = d[3] => c = d

\* Markers are never taken back.
LEMMA ClaimsGrow == [Next]_vars => claims \subseteq claims'
<1> SUFFICES ASSUME [Next]_vars PROVE claims \subseteq claims'
  OBVIOUS
<1>1. ASSUME NEW prompt, SubmitPrompt(prompt) \/ FailPrompt(prompt) PROVE claims \subseteq claims'
  BY <1>1 DEF SubmitPrompt, FailPrompt
<1>2. CASE ClaimPack \/ KillPrompt
  BY <1>2 DEF ClaimPack, KillPrompt
<1>3. ASSUME NEW u, NEW tool, NEW decision, Ask(u, tool, decision) PROVE claims \subseteq claims'
  BY <1>3 DEF Ask
<1>4. ASSUME NEW u, NEW tool, Kill(u) \/ AskUnheard(u, tool) PROVE claims \subseteq claims'
  BY <1>4 DEF Kill, AskUnheard
<1>5. ASSUME NEW u, NEW which, NEW success, NEW decision, Deliver(u, which, success, decision)
      PROVE  claims \subseteq claims'
  BY <1>5 DEF Deliver
<1>6. ASSUME NEW h, HookStep(h) PROVE claims \subseteq claims'
  <2>1. CASE ClaimSlot(h) \/ WriteRecord(h) \/ FailRecord(h)
    BY <2>1 DEF ClaimSlot, WriteRecord, FailRecord
  <2>2. CASE Respond(h)
    BY <2>2 DEF Respond
  <2>3. CASE Load(h) \/ ClaimEvent(h) \/ WriteEvent(h) \/ ReadEvents(h) \/ ClaimContext(h)
    BY <2>3 DEF Load, ClaimEvent, WriteEvent, ReadEvents, ClaimContext
  <2>4. QED
    BY <1>6, <2>1, <2>2, <2>3 DEF HookStep
<1>7. CASE UNCHANGED vars
  BY <1>7 DEF vars
<1>8. QED
  BY <1>1, <1>2, <1>3, <1>4, <1>5, <1>6, <1>7 DEF Next

\* A step shows nothing, or one context whose marker it makes.
LEMMA ShownGrows ==
    [Next]_vars =>
        \/ shown' = shown
        \/ \E c : /\ shown' = shown \cup {c}
                  /\ Context(c[3]) \notin claims /\ Context(c[3]) \in claims'
<1> SUFFICES ASSUME [Next]_vars, shown' # shown
             PROVE  \E c : /\ shown' = shown \cup {c}
                           /\ Context(c[3]) \notin claims /\ Context(c[3]) \in claims'
  OBVIOUS
<1>1. CASE ClaimPack
  <2> DEFINE c == << "pack", Len(submitted), "prompt" >>
  <2>1. c[3] = "prompt"
    OBVIOUS
  <2>2. shown' = shown \cup {c} /\ Context("prompt") \notin claims /\ Context("prompt") \in claims'
    BY <1>1 DEF ClaimPack, Claimed
  <2>3. QED
    BY <2>1, <2>2
<1>2. ASSUME NEW h, Respond(h) PROVE \E c : /\ shown' = shown \cup {c}
                           /\ Context(c[3]) \notin claims /\ Context(c[3]) \in claims'
  <2> DEFINE c == << "loop", h, "evidence" >>
  <2>1. c[3] = "evidence"
    OBVIOUS
  <2>2. shown' = shown \cup {c} /\ Context("evidence") \notin claims /\ Context("evidence") \in claims'
    BY <1>2 DEF Respond, Claimed
  <2>3. QED
    BY <2>1, <2>2
<1>3. ASSUME NEW h, ClaimContext(h) PROVE \E c : /\ shown' = shown \cup {c}
                           /\ Context(c[3]) \notin claims /\ Context(c[3]) \in claims'
  <2> DEFINE c == << hooks[h].context, h, "evidence" >>
  <2>1. c[3] = "evidence"
    OBVIOUS
  <2>2. shown' = shown \cup {c} /\ Context("evidence") \notin claims /\ Context("evidence") \in claims'
    BY <1>3 DEF ClaimContext, Claimed
  <2>3. QED
    BY <2>1, <2>2
<1>4. ASSUME NEW h, HookStep(h) PROVE Respond(h) \/ ClaimContext(h)
  BY <1>4 DEF HookStep, ClaimSlot, WriteRecord, FailRecord, Load, ClaimEvent, WriteEvent, ReadEvents
<1>5. QED
  BY <1>1, <1>2, <1>3, <1>4 DEF Next, SubmitPrompt, FailPrompt, KillPrompt, Ask, Kill, AskUnheard,
     Deliver, vars

\* Each channel gives the model at most one context in a turn.
THEOREM TurnOneContextPerChannel == Spec => []OneContextPerChannel
<1>1. Init => ShownClaimed
  BY DEF Init, ShownClaimed
<1>2. ShownClaimed /\ [Next]_vars => ShownClaimed'
  BY ClaimsGrow, ShownGrows DEF ShownClaimed
<1>3. ShownClaimed => OneContextPerChannel
  <2> SUFFICES ASSUME ShownClaimed, NEW channel \in Channels
               PROVE  Cardinality({c \in shown : c[3] = channel}) <= 1
    BY DEF OneContextPerChannel
  <2>1. CASE {c \in shown : c[3] = channel} = {}
    BY <2>1, FS_EmptySet
  <2>2. CASE {c \in shown : c[3] = channel} # {}
    <3>1. PICK d \in shown : d[3] = channel
      BY <2>2
    <3>2. {c \in shown : c[3] = channel} = {d}
      BY <3>1 DEF ShownClaimed
    <3>3. Cardinality({d}) = 1
      BY FS_Singleton
    <3>4. QED
      BY <3>2, <3>3
  <2>3. QED
    BY <2>1, <2>2
<1>4. QED
  BY <1>1, <1>2, <1>3, PTL DEF Spec

-----------------------------------------------------------------------------
(* No unapproved call runs *)

\* What the proof needs of the types: the file, the calls and the hooks are
\* records, and the prompts of the turn a sequence.
UseRecords ==
    [tool : {Absent} \cup UNION {session.tools : session \in Sessions},
     state : {"none", "asked", "allowed", "denied", "run"}, ok : BOOLEAN]
Shapes ==
    /\ setting \in Sessions
    /\ submitted \in Seq(setting.prompts)
    /\ uses \in [Uses -> UseRecords]
    /\ DOMAIN hooks = Hooks
    /\ \A h \in Hooks : {"pc", "incident"} \subseteq DOMAIN hooks[h]

Clear(u) ==
    /\ Spends(uses[u].tool) => Approved
    /\ ~GuardDenied(uses[u].tool, setting.guard)

\* An authorization on file is that of a prompt of the turn.
FiledApproval == Authorized => Approved
\* A hook that may still let its call run has seen nothing against it, unless it
\* is the guard's own refusal.
Pending == {"incident", "record", "respond"}
Vetted ==
    \A u \in Uses : LET pre == hooks[<< u, "pre" >>] IN
        /\ pre.pc \in Pending => pre.incident = "guard" \/ Clear(u)
        /\ uses[u].state \in {"allowed", "run"} => pre.pc = "failed" \/ Clear(u)

ApprovalInv == Shapes /\ FiledApproval /\ Vetted

\* A command that spends money and is not denied was authorized.
LEMMA UndeniedIsAuthorized ==
    ASSUME NEW tool, ~BillableDenied(tool, Authorized), Spends(tool)
    PROVE  Authorized
  BY DEF BillableDenied, Spends

\* Leaving for another place keeps what the hook met.
LEMMA GotoEffect ==
    ASSUME Shapes, NEW h \in Hooks, NEW pc, Goto(h, pc)
    PROVE  /\ hooks'[h].pc = pc /\ hooks'[h].incident = hooks[h].incident
           /\ \A g \in Hooks \ {h} : hooks'[g] = hooks[g]
           /\ DOMAIN hooks' = Hooks
           /\ \A g \in Hooks : {"pc", "incident"} \subseteq DOMAIN hooks'[g]
<1> DEFINE over == [Idle EXCEPT !.pc = pc, !.incident = hooks[h].incident, !.lost = hooks[h].lost]
           on == [hooks[h] EXCEPT !.pc = pc]
<1>1. over.pc = pc /\ over.incident = hooks[h].incident /\ {"pc", "incident"} \subseteq DOMAIN over
  BY DEF Idle
<1>2. on.pc = pc /\ on.incident = hooks[h].incident /\ {"pc", "incident"} \subseteq DOMAIN on
  BY DEF Shapes
<1>3. hooks' = [hooks EXCEPT ![h] = IF pc \in Over THEN over ELSE on]
  BY DEF Goto, Shapes
<1> HIDE DEF over, on
<1>4. QED
  BY <1>1, <1>2, <1>3 DEF Shapes

\* Further prompts take no approval away.
LEMMA ApprovedStays ==
    ASSUME Shapes, NEW prompt \in setting.prompts, submitted' = Append(submitted, prompt)
    PROVE  /\ submitted' \in Seq(setting.prompts)
           /\ Approved => Approved'
           /\ BillableAuthorized(prompt) /\ ~prompt.secret => Approved'
<1>1. submitted \in Seq(setting.prompts)
  BY DEF Shapes
<1>2. /\ submitted' \in Seq(setting.prompts)
      /\ \A i \in DOMAIN submitted : i \in DOMAIN submitted' /\ submitted'[i] = submitted[i]
      /\ Len(submitted) + 1 \in DOMAIN submitted' /\ submitted'[Len(submitted) + 1] = prompt
  BY <1>1
<1>3. QED
  BY <1>2 DEF Approved

\* A step that lets no further call run without having heard its hook.
LEMMA VettedKept ==
    ASSUME Vetted, setting' = setting, Approved => Approved',
           \A u \in Uses : uses'[u].tool = uses[u].tool,
           \A u \in Uses : hooks'[<< u, "pre" >>].pc \in Pending =>
               hooks[<< u, "pre" >>].pc \in Pending
               /\ hooks'[<< u, "pre" >>].incident = hooks[<< u, "pre" >>].incident,
           \A u \in Uses : uses'[u].state \in {"allowed", "run"} =>
               \/ hooks'[<< u, "pre" >>].pc = "failed"
               \/ uses[u].state \in {"allowed", "run"} /\ hooks[<< u, "pre" >>].pc # "failed"
               \/ hooks[<< u, "pre" >>].pc \in Pending /\ hooks[<< u, "pre" >>].incident # "guard"
    PROVE  Vetted'
<1>1. \A u \in Uses : Clear(u) => Clear(u)'
  BY DEF Clear
<1>2. QED
  BY <1>1 DEF Vetted

\* The answer of a hook decides about its own call only, and never about the tool.
LEMMA AnswerEffect ==
    ASSUME Shapes, setting' = setting, NEW h \in Hooks, NEW allowed \in BOOLEAN, Answer(h, allowed)
    PROVE  /\ uses' \in [Uses -> UseRecords]
           /\ \A u \in Uses : uses'[u].tool = uses[u].tool
           /\ \A u \in Uses :
                \/ uses'[u].state = uses[u].state
                \/ /\ h = << u, "pre" >>
                   /\ uses'[u].state = "allowed" => allowed = TRUE
                   /\ uses'[u].state # "run"
<1>1. uses \in [Uses -> UseRecords]
  BY DEF Shapes
<1>2. CASE h[2] = "pre"
  <2> DEFINE v == h[1]
             state == IF allowed THEN "allowed" ELSE "denied"
             c == [uses[v] EXCEPT !.state = state]
  <2>1. v \in Uses /\ h = << v, "pre" >>
    BY <1>2 DEF Hooks
  <2>2. state \in {"allowed", "denied"} /\ (state = "allowed" => allowed = TRUE)
    <3>1. CASE allowed = TRUE
      BY <3>1
    <3>2. CASE allowed = FALSE
      BY <3>2
    <3>3. QED
      BY <3>1, <3>2
  <2>3. uses' = [uses EXCEPT ![v] = c]
    BY <1>1, <1>2, <2>1 DEF Answer, UseOf
  <2> HIDE DEF state
  <2>4. c \in UseRecords /\ c.tool = uses[v].tool /\ c.state = state
    BY <1>1, <2>1, <2>2 DEF UseRecords
  <2> HIDE DEF c, v
  <2>5. QED
    BY <1>1, <2>1, <2>2, <2>3, <2>4
<1>3. CASE h[2] # "pre"
  <2>1. uses' = uses
    BY <1>3 DEF Answer
  <2>2. QED
    BY <1>1, <2>1
<1>4. QED
  BY <1>2, <1>3

LEMMA HookStepKeeps ==
    ASSUME ApprovalInv, NEW h \in Hooks, HookStep(h)
    PROVE  ApprovalInv'
<1>1. Shapes /\ FiledApproval /\ Vetted
  BY DEF ApprovalInv
<1>2. setting' = setting /\ submitted' = submitted /\ request' = request
  BY DEF HookStep, ClaimSlot, WriteRecord, FailRecord, Respond, Load, ClaimEvent, WriteEvent,
     ReadEvents, ClaimContext
<1>3. Approved' = Approved /\ FiledApproval'
  BY <1>1, <1>2 DEF Approved, FiledApproval, Authorized
<1>4. ASSUME uses' \in [Uses -> UseRecords], \A u \in Uses : uses'[u].tool = uses[u].tool,
             \A u \in Uses :
                \/ uses'[u].state = uses[u].state
                \/ /\ h = << u, "pre" >> /\ uses'[u].state # "run"
                   /\ uses'[u].state = "allowed" =>
                        \/ hooks'[h].pc = "failed"
                        \/ hooks[h].pc \in Pending /\ hooks[h].incident # "guard",
             DOMAIN hooks' = Hooks, \A g \in Hooks : {"pc", "incident"} \subseteq DOMAIN hooks'[g],
             \A g \in Hooks \ {h} : hooks'[g] = hooks[g],
             hooks[h].pc # "failed",
             hooks'[h].pc \in Pending => hooks[h].pc \in Pending /\ hooks'[h].incident = hooks[h].incident
      PROVE  ApprovalInv'
  <2>1. Shapes'
    BY <1>1, <1>2, <1>4 DEF Shapes
  <2>2. \A u \in Uses : << u, "pre" >> \in Hooks
    BY DEF Hooks
  <2>3. ASSUME NEW u \in Uses
        PROVE  /\ hooks'[<< u, "pre" >>].pc \in Pending =>
                     hooks[<< u, "pre" >>].pc \in Pending
                     /\ hooks'[<< u, "pre" >>].incident = hooks[<< u, "pre" >>].incident
               /\ hooks[<< u, "pre" >>].pc = "failed" => hooks'[<< u, "pre" >>].pc = "failed"
    BY <1>4, <2>2
  <2>4. ASSUME NEW u \in Uses, uses'[u].state \in {"allowed", "run"}
        PROVE  \/ hooks'[<< u, "pre" >>].pc = "failed"
               \/ uses[u].state \in {"allowed", "run"} /\ hooks[<< u, "pre" >>].pc # "failed"
               \/ hooks[<< u, "pre" >>].pc \in Pending /\ hooks[<< u, "pre" >>].incident # "guard"
    BY <1>4, <2>3, <2>4
  <2>5. Vetted'
    BY <1>1, <1>2, <1>3, <1>4, <2>3, <2>4, VettedKept
  <2>6. QED
    BY <1>3, <2>1, <2>5 DEF ApprovalInv
<1>5. ASSUME NEW pc, Goto(h, pc), UNCHANGED uses, hooks[h].pc # "failed",
             pc \in Pending => hooks[h].pc \in Pending
      PROVE  ApprovalInv'
  BY <1>1, <1>4, <1>5, GotoEffect DEF Shapes
<1>6. ASSUME NEW r, hooks' = [hooks EXCEPT ![h] = r], {"pc", "incident"} \subseteq DOMAIN r,
             UNCHANGED uses, hooks[h].pc # "failed",
             r.pc \in Pending => hooks[h].pc \in Pending /\ r.incident = hooks[h].incident
      PROVE  ApprovalInv'
  <2>1. DOMAIN hooks' = Hooks /\ hooks'[h] = r /\ \A g \in Hooks \ {h} : hooks'[g] = hooks[g]
    BY <1>1, <1>6 DEF Shapes
  <2>2. QED
    BY <1>1, <1>4, <1>6, <2>1 DEF Shapes
<1>7. CASE ClaimSlot(h)
  <2>1. CASE FreeSlots = {}
    BY <1>5, <1>7, <2>1 DEF ClaimSlot, At, Pending
  <2>2. CASE FreeSlots # {}
    <3> DEFINE r == [hooks[h] EXCEPT !.pc = "record", !.slot = Min(FreeSlots)]
    <3>1. hooks' = [hooks EXCEPT ![h] = r] /\ UNCHANGED uses /\ hooks[h].pc = "incident"
      BY <1>1, <1>7, <2>2 DEF ClaimSlot, At, Shapes
    <3>2. {"pc", "incident"} \subseteq DOMAIN r /\ r.pc = "record" /\ r.incident = hooks[h].incident
      BY <1>1 DEF Shapes
    <3> HIDE DEF r
    <3>3. QED
      BY <1>6, <3>1, <3>2 DEF Pending
  <2>3. QED
    BY <2>1, <2>2
<1>8. CASE WriteRecord(h)
  BY <1>5, <1>8 DEF WriteRecord, At, Pending
<1>9. CASE FailRecord(h)
  <2>1. CASE hooks[h].incident = "guard"
    <3>1. Goto(h, "failed") /\ Answer(h, TRUE) /\ hooks[h].pc = "record"
      BY <1>9, <2>1 DEF FailRecord, At
    <3>2. /\ hooks'[h].pc = "failed" /\ \A g \in Hooks \ {h} : hooks'[g] = hooks[g]
          /\ DOMAIN hooks' = Hooks /\ \A g \in Hooks : {"pc", "incident"} \subseteq DOMAIN hooks'[g]
      BY <1>1, <3>1, GotoEffect
    <3>3. /\ uses' \in [Uses -> UseRecords] /\ \A u \in Uses : uses'[u].tool = uses[u].tool
          /\ \A u \in Uses : uses'[u].state # uses[u].state =>
                h = << u, "pre" >> /\ uses'[u].state # "run"
      <4>1. PICK allowed \in BOOLEAN : Answer(h, allowed)
        BY <3>1, Zenon
      <4>2. QED
        BY <1>1, <1>2, <4>1, AnswerEffect
    <3>4. QED
      BY <1>4, <3>1, <3>2, <3>3 DEF Pending
  <2>2. CASE hooks[h].incident # "guard"
    <3> DEFINE r == [hooks[h] EXCEPT !.pc = "respond", !.lost = TRUE]
    <3>1. hooks' = [hooks EXCEPT ![h] = r] /\ UNCHANGED uses /\ hooks[h].pc = "record"
      BY <1>1, <1>9, <2>2 DEF FailRecord, At, Shapes
    <3>2. {"pc", "incident"} \subseteq DOMAIN r /\ r.pc = "respond" /\ r.incident = hooks[h].incident
      BY <1>1 DEF Shapes
    <3> HIDE DEF r
    <3>3. QED
      BY <1>6, <3>1, <3>2 DEF Pending
  <2>3. QED
    BY <2>1, <2>2
<1>10. CASE Respond(h)
  <2> DEFINE allowed == hooks[h].incident \notin {"guard", "deny", "stop"}
  <2>1. PICK pc \in {"load", "done"} : Goto(h, pc)
    BY <1>10 DEF Respond
  <2>2. hooks[h].pc = "respond" /\ Answer(h, allowed)
    BY <1>10 DEF Respond, At
  <2>3. allowed \in BOOLEAN /\ (allowed = TRUE => hooks[h].incident # "guard")
    OBVIOUS
  <2> HIDE DEF allowed
  <2>4. QED
    BY <1>1, <1>2, <1>4, <2>1, <2>2, <2>3, GotoEffect, AnswerEffect DEF Pending
<1>11. CASE Load(h)
  <2>1. CASE request = Absent \/ EventKind(ToolOf(h)) = "other"
    BY <1>5, <1>11, <2>1 DEF Load, At, Pending
  <2>2. CASE ~(request = Absent \/ EventKind(ToolOf(h)) = "other")
    <3> DEFINE r == [hooks[h] EXCEPT !.pc = "event", !.state = request]
    <3>1. hooks' = [hooks EXCEPT ![h] = r] /\ UNCHANGED uses /\ hooks[h].pc = "load"
      BY <1>1, <1>11, <2>2 DEF Load, At, Shapes
    <3>2. {"pc", "incident"} \subseteq DOMAIN r /\ r.pc = "event"
      BY <1>1 DEF Shapes
    <3> HIDE DEF r
    <3>3. QED
      BY <1>6, <3>1, <3>2 DEF Pending
  <2>3. QED
    BY <2>1, <2>2
<1>12. CASE ClaimEvent(h)
  <2>1. PICK pc \in {"write", "done", "read"} : Goto(h, pc)
    BY <1>12 DEF ClaimEvent
  <2>2. QED
    BY <1>5, <1>12, <2>1 DEF ClaimEvent, At, Pending
<1>13. CASE WriteEvent(h) \/ ClaimContext(h)
  BY <1>5, <1>13 DEF WriteEvent, ClaimContext, At, Pending
<1>14. CASE ReadEvents(h)
  <2> DEFINE context == ContextFor(h, Recorded)
             r == [hooks[h] EXCEPT !.pc = IF context = "none" THEN "done" ELSE "claim", !.context = context]
  <2>1. hooks' = [hooks EXCEPT ![h] = r] /\ UNCHANGED uses /\ hooks[h].pc = "read"
    BY <1>1, <1>14 DEF ReadEvents, At, Shapes
  <2> HIDE DEF context
  <2>2. {"pc", "incident"} \subseteq DOMAIN r /\ r.pc \in {"done", "claim"}
    BY <1>1 DEF Shapes
  <2> HIDE DEF r
  <2>3. QED
    BY <1>6, <2>1, <2>2 DEF Pending
<1>15. QED
  BY <1>7, <1>8, <1>9, <1>10, <1>11, <1>12, <1>13, <1>14 DEF HookStep

\* A step of a prompt hook changes no call and no tool hook.
LEMMA PromptKeeps ==
    ASSUME ApprovalInv, UNCHANGED << setting, uses, hooks >>, FiledApproval',
           submitted' \in Seq(setting.prompts), Approved => Approved'
    PROVE  ApprovalInv'
<1>1. Shapes'
  BY DEF ApprovalInv, Shapes
<1>2. Vetted'
  BY VettedKept DEF ApprovalInv, Vetted
<1>3. QED
  BY <1>1, <1>2 DEF ApprovalInv

LEMMA AskKeeps ==
    ASSUME ApprovalInv, NEW u \in Uses, NEW tool \in setting.tools, NEW decision, Ask(u, tool, decision)
    PROVE  ApprovalInv'
<1> DEFINE guarded == GuardDenied(tool, setting.guard)
           billed == ~guarded /\ BillableDenied(tool, Authorized)
           incident == IF guarded THEN "guard" ELSE IF billed THEN "none" ELSE decision
           pre == << u, "pre" >>
<1>1. Shapes /\ FiledApproval /\ Vetted /\ UNCHANGED << setting, request, submitted >>
  BY DEF ApprovalInv, Ask
<1>2. Approved' = Approved /\ FiledApproval'
  BY <1>1 DEF Approved, FiledApproval, Authorized
<1>3. /\ uses' = [uses EXCEPT ![u] = [tool |-> tool, ok |-> FALSE,
                     state |-> IF billed THEN "denied"
                               ELSE IF incident = "none" THEN "allowed" ELSE "asked"]]
      /\ hooks' = [hooks EXCEPT ![pre].pc = IF incident = "none" THEN "done" ELSE "incident",
                                ![pre].incident = incident]
  BY DEF Ask
<1>4. ~guarded /\ ~billed => (Spends(tool) => Approved)
  BY <1>1, UndeniedIsAuthorized DEF FiledApproval
<1> HIDE DEF guarded, billed
<1>5. pre \in Hooks /\ \A v \in Uses \ {u} : << v, "pre" >> \in Hooks /\ << v, "pre" >> # pre
  BY DEF Hooks
<1> DEFINE new == [tool |-> tool, ok |-> FALSE,
                   state |-> IF billed THEN "denied" ELSE IF incident = "none" THEN "allowed" ELSE "asked"]
           hook == [hooks[pre] EXCEPT !.pc = IF incident = "none" THEN "done" ELSE "incident",
                                      !.incident = incident]
<1>6. /\ hook.pc \in {"done", "incident"} /\ hook.incident = incident
      /\ {"pc", "incident"} \subseteq DOMAIN hook
      /\ hook.pc = "incident" => incident # "none"
  BY <1>1, <1>5 DEF Shapes
<1>7. /\ new \in UseRecords /\ new.tool = tool
      /\ new.state \in {"allowed", "run"} => ~billed /\ incident = "none"
  BY <1>1 DEF UseRecords, Shapes
<1>8. uses' = [uses EXCEPT ![u] = new] /\ hooks' = [hooks EXCEPT ![pre] = hook]
  BY <1>1, <1>3, <1>5 DEF Shapes
<1> HIDE DEF new, hook
<1>9. Shapes'
  BY <1>1, <1>5, <1>6, <1>7, <1>8 DEF Shapes
<1>10. \A v \in Uses \ {u} : uses'[v] = uses[v] /\ hooks'[<< v, "pre" >>] = hooks[<< v, "pre" >>]
  BY <1>1, <1>5, <1>8 DEF Shapes
<1>11. uses'[u] = new /\ hooks'[pre] = hook
  BY <1>1, <1>5, <1>8 DEF Shapes
<1>12. ASSUME ~guarded, ~billed PROVE Clear(u)'
  BY <1>1, <1>2, <1>4, <1>7, <1>11, <1>12 DEF Clear, guarded
<1>13. hook.pc = "incident" => incident = "guard" \/ (~guarded /\ ~billed)
  BY <1>6
<1>14. new.state \in {"allowed", "run"} => ~guarded /\ ~billed
  BY <1>7
<1>15. \A v \in Uses \ {u} : Clear(v) => Clear(v)'
  BY <1>1, <1>2, <1>10 DEF Clear
<1>16. Vetted'
  BY <1>1, <1>6, <1>10, <1>11, <1>12, <1>13, <1>14, <1>15 DEF Vetted, Pending
<1>17. QED
  BY <1>2, <1>9, <1>16 DEF ApprovalInv

LEMMA UseStepKeeps ==
    ASSUME ApprovalInv, UNCHANGED << setting, request, submitted >>,
           NEW u \in Uses, NEW which \in {"pre", "post", "again"}, NEW hook, NEW use,
           hooks' = [hooks EXCEPT ![<< u, which >>] = hook], {"pc", "incident"} \subseteq DOMAIN hook,
           uses' = [uses EXCEPT ![u] = use], use \in UseRecords,
           \/ which = "pre" /\ hook.pc = "failed"
           \/ /\ which # "pre" /\ use.tool = uses[u].tool
              /\ uses[u].state \in {"allowed", "run"}
    PROVE  ApprovalInv'
<1>1. Shapes /\ FiledApproval /\ Vetted
  BY DEF ApprovalInv
<1>2. Approved' = Approved /\ FiledApproval'
  BY <1>1 DEF Approved, FiledApproval, Authorized
<1>3. << u, which >> \in Hooks /\ \A v \in Uses : << v, "pre" >> \in Hooks
  BY DEF Hooks
<1>4. Shapes'
  BY <1>1, <1>3 DEF Shapes
<1>5. /\ uses'[u] = use /\ hooks'[<< u, which >>] = hook
      /\ \A v \in Uses \ {u} : uses'[v] = uses[v] /\ hooks'[<< v, "pre" >>] = hooks[<< v, "pre" >>]
      /\ which # "pre" => hooks'[<< u, "pre" >>] = hooks[<< u, "pre" >>]
  BY <1>1, <1>3 DEF Shapes
<1>6. \A v \in Uses : uses'[v].tool = uses[v].tool => (Clear(v) => Clear(v)')
  BY <1>2 DEF Clear
<1>7. Vetted'
  BY <1>1, <1>5, <1>6 DEF Vetted, Pending
<1>8. QED
  BY <1>2, <1>4, <1>7 DEF ApprovalInv

LEMMA ApprovalStep == ApprovalInv /\ [Next]_vars => ApprovalInv'
<1> SUFFICES ASSUME ApprovalInv, [Next]_vars PROVE ApprovalInv'
  OBVIOUS
<1>1. Shapes /\ FiledApproval
  BY DEF ApprovalInv
<1>2. ASSUME NEW prompt \in setting.prompts, SubmitPrompt(prompt) \/ FailPrompt(prompt)
      PROVE  ApprovalInv'
  <2>1. submitted' = Append(submitted, prompt) /\ UNCHANGED << setting, uses, hooks >>
    BY <1>2 DEF SubmitPrompt, FailPrompt
  <2>2. /\ submitted' \in Seq(setting.prompts) /\ (Approved => Approved')
        /\ BillableAuthorized(prompt) /\ ~prompt.secret => Approved'
    BY <1>1, <2>1, ApprovedStays
  <2>3. CASE request' = request
    BY <1>1, <2>1, <2>2, <2>3, PromptKeeps DEF FiledApproval, Authorized
  <2>4. CASE request' = Request(prompt) /\ ~prompt.secret
    <3>1. request'.billable = BillableAuthorized(prompt)
      BY <2>4 DEF Request
    <3>2. FiledApproval'
      BY <2>2, <2>4, <3>1 DEF FiledApproval, Authorized
    <3>3. QED
      BY <2>1, <2>2, <3>2, PromptKeeps
  <2>5. QED
    BY <1>2, <2>3, <2>4 DEF SubmitPrompt, FailPrompt
<1>3. CASE ClaimPack \/ KillPrompt \/ UNCHANGED vars
  <2>1. UNCHANGED << setting, request, uses, hooks, submitted >>
    BY <1>3 DEF ClaimPack, KillPrompt, vars
  <2>2. Approved' = Approved /\ FiledApproval'
    BY <1>1, <2>1 DEF Approved, FiledApproval, Authorized
  <2>3. QED
    BY <1>1, <2>1, <2>2, PromptKeeps DEF Shapes
<1>4. ASSUME NEW u \in Uses, NEW tool \in setting.tools, AskUnheard(u, tool) PROVE ApprovalInv'
  <2> DEFINE hook == [Idle EXCEPT !.pc = "failed", !.incident = hooks[<< u, "pre" >>].incident,
                                  !.lost = hooks[<< u, "pre" >>].lost]
             use == [tool |-> tool, state |-> "allowed", ok |-> FALSE]
  <2>1. /\ UNCHANGED << setting, request, submitted >>
        /\ hooks' = [hooks EXCEPT ![<< u, "pre" >>] = hook] /\ uses' = [uses EXCEPT ![u] = use]
    BY <1>4 DEF AskUnheard, Goto, Over
  <2>2. {"pc", "incident"} \subseteq DOMAIN hook /\ hook.pc = "failed" /\ use \in UseRecords
    BY <1>1 DEF Idle, UseRecords, Shapes
  <2> HIDE DEF hook, use
  <2>3. QED
    BY <2>1, <2>2, UseStepKeeps
<1>5. ASSUME NEW u \in Uses, Kill(u) PROVE ApprovalInv'
  <2> DEFINE hook == [Idle EXCEPT !.pc = "failed", !.incident = hooks[<< u, "pre" >>].incident,
                                  !.lost = hooks[<< u, "pre" >>].lost]
             use == [uses[u] EXCEPT !.state = "allowed"]
  <2>1. /\ UNCHANGED << setting, request, submitted >>
        /\ hooks' = [hooks EXCEPT ![<< u, "pre" >>] = hook] /\ uses' = [uses EXCEPT ![u] = use]
    BY <1>1, <1>5 DEF Kill, Goto, Over, Answer, UseOf, Shapes
  <2>2. {"pc", "incident"} \subseteq DOMAIN hook /\ hook.pc = "failed" /\ use \in UseRecords
    BY <1>1 DEF Idle, UseRecords, Shapes
  <2> HIDE DEF hook, use
  <2>3. QED
    BY <2>1, <2>2, UseStepKeeps
<1>6. ASSUME NEW u \in Uses, NEW which \in {"post", "again"}, NEW success \in BOOLEAN, NEW decision,
             Deliver(u, which, success, decision)
      PROVE  ApprovalInv'
  <2> DEFINE h == << u, which >>
             hook == [hooks[h] EXCEPT !.pc = IF decision = "none" THEN "load" ELSE "incident",
                                      !.incident = decision]
             use == [uses[u] EXCEPT !.state = "run", !.ok = success]
  <2>1. h \in Hooks
    BY DEF Hooks
  <2>2. /\ UNCHANGED << setting, request, submitted >> /\ uses[u].state \in {"allowed", "run"}
        /\ hooks' = [hooks EXCEPT ![h] = hook] /\ uses' = [uses EXCEPT ![u] = use]
    BY <1>1, <1>6, <2>1 DEF Deliver, Shapes
  <2>3. {"pc", "incident"} \subseteq DOMAIN hook /\ use \in UseRecords /\ use.tool = uses[u].tool
    BY <1>1, <2>1 DEF UseRecords, Shapes
  <2> HIDE DEF hook, use
  <2>4. QED
    BY <2>2, <2>3, UseStepKeeps
<1>7. QED
  BY <1>2, <1>3, <1>4, <1>5, <1>6, AskKeeps, HookStepKeeps DEF Next

LEMMA ApprovalInit == Init => ApprovalInv
<1> SUFFICES ASSUME Init PROVE ApprovalInv
  OBVIOUS
<1>1. Shapes
  BY DEF Init, Shapes, UseRecords, Idle
<1>2. FiledApproval /\ Vetted
  BY DEF Init, FiledApproval, Authorized, Vetted, Pending, Idle, Hooks
<1>3. QED
  BY <1>1, <1>2 DEF ApprovalInv

\* No call that spends money runs unless a prompt of the turn confirmed it, and
\* none that changes a guarded test, but for a call whose hook failed.
THEOREM TurnOnlyApprovedToolsRun == Spec => []OnlyApprovedToolsRun
<1>1. ApprovalInv => OnlyApprovedToolsRun
  BY DEF ApprovalInv, Vetted, Clear, OnlyApprovedToolsRun, At
<1>2. QED
  BY <1>1, ApprovalInit, ApprovalStep, PTL DEF Spec

-----------------------------------------------------------------------------
(* What the short cut skips *)

LEMMA SettingKept == [Next]_vars => setting' = setting
  BY DEF Next, SubmitPrompt, FailPrompt, ClaimPack, KillPrompt, Ask, Kill, AskUnheard, Deliver,
     HookStep, ClaimSlot, WriteRecord, FailRecord, Respond, Load, ClaimEvent, WriteEvent, ReadEvents,
     ClaimContext, vars

\* A prompt the dispatcher leaves alone would have left no file and no context.
THEOREM TurnShortCutHarmless == Spec => []ShortCutHarmless
<1>1. setting \in Sessions => ShortCutHarmless
  <2> SUFFICES ASSUME setting \in Sessions, NEW prompt \in setting.prompts, Generic(prompt)
               PROVE  ~ShouldPersist(prompt) /\ ~HasPack(prompt)
    BY DEF ShortCutHarmless
  <2>1. IsPrompt(prompt)
    BY TurnAssumption
  <2>2. /\ setting.diagnostic = "none" /\ prompt.control = "none" /\ ~BillableAuthorized(prompt)
        /\ Selective => ~prompt.acts
    BY DEF Generic, Guarded, BillableAuthorized
  <2>3. CASE ~Selective
    BY <2>2, <2>3 DEF ShouldPersist, HasPack, EffectiveRoute
  <2>4. CASE Selective
    <3>1. prompt.control \notin Routes /\ prompt.control \notin {"off", PassThrough}
          /\ prompt.control # "unknown"
      BY <2>2 DEF Routes, SpecialistRoute, PassThrough
    <3>2. prompt.control = "none" /\ (prompt.explains \/ ~prompt.acts)
      BY <2>2, <2>4
    <3>3. RoutePrompt(prompt) = Decided(PassThrough, NoContract, FALSE, FALSE, FALSE)
      BY <3>1, <3>2 DEF RoutePrompt
    <3>4. /\ RoutePrompt(prompt).route = PassThrough /\ RoutePrompt(prompt).contract = NoContract
          /\ ~RoutePrompt(prompt).forced /\ ~RoutePrompt(prompt).actionable
      BY <3>3 DEF Decided
    <3>5. QED
      BY <2>2, <3>4 DEF ShouldPersist, HasPack, EffectiveRoute
  <2>5. QED
    BY <2>3, <2>4
<1>2. Init => setting \in Sessions
  BY DEF Init
<1>3. setting \in Sessions /\ [Next]_vars => (setting \in Sessions)'
  BY SettingKept
<1>4. QED
  BY <1>1, <1>2, <1>3, PTL DEF Spec

-----------------------------------------------------------------------------
(* How a hook moves *)

\* A set of naturals that is not empty has a least element, and Min names it.
LEMMA MinElement ==
    ASSUME NEW S \in SUBSET Nat, S # {}
    PROVE  Min(S) \in S /\ \A x \in S : Min(S) <= x
<1>1. PICK x \in S : \A y \in S : ~(<< y, x >> \in OpToRel(<, Nat))
  BY NatLessThanWellFounded, WFMin
<1>2. \A y \in S : x <= y
  <2>1. \A y \in S : ~(y < x)
    BY <1>1 DEF OpToRel
  <2>2. QED
    BY <2>1
<1>3. QED
  BY <1>2 DEF Min

\* The fields of a hook that the next two arguments read.
Fields == {"pc", "incident", "slot", "lost", "context"}
Fielded == DOMAIN hooks = Hooks /\ \A h \in Hooks : Fields \subseteq DOMAIN hooks[h]
\* A step of the turn moves one hook.
OnlyMoves(h) == Fielded' /\ \A g \in Hooks \ {h} : hooks'[g] = hooks[g]

\* Leaving for another place, in full.
LEMMA GotoMoves ==
    ASSUME Fielded, NEW h \in Hooks, NEW pc, Goto(h, pc)
    PROVE  /\ OnlyMoves(h)
           /\ hooks'[h].pc = pc /\ hooks'[h].incident = hooks[h].incident
           /\ hooks'[h].lost = hooks[h].lost
           /\ hooks'[h].context \in {"none", hooks[h].context}
<1> DEFINE over == [Idle EXCEPT !.pc = pc, !.incident = hooks[h].incident, !.lost = hooks[h].lost]
           on == [hooks[h] EXCEPT !.pc = pc]
<1>1. /\ over.pc = pc /\ over.incident = hooks[h].incident /\ over.lost = hooks[h].lost
      /\ over.context = "none" /\ Fields \subseteq DOMAIN over
  BY DEF Idle, Fields
<1>2. /\ on.pc = pc /\ on.incident = hooks[h].incident /\ on.lost = hooks[h].lost
      /\ on.context = hooks[h].context /\ Fields \subseteq DOMAIN on
  BY DEF Fielded, Fields
<1>3. hooks' = [hooks EXCEPT ![h] = IF pc \in Over THEN over ELSE on]
  BY DEF Goto, Fielded
<1> HIDE DEF over, on
<1>4. QED
  BY <1>1, <1>2, <1>3 DEF Fielded, OnlyMoves

LEMMA SetMoves ==
    ASSUME Fielded, NEW h \in Hooks, NEW r, hooks' = [hooks EXCEPT ![h] = r], Fields \subseteq DOMAIN r
    PROVE  OnlyMoves(h) /\ hooks'[h] = r
  BY DEF Fielded, OnlyMoves

-----------------------------------------------------------------------------
(* Incidents on record *)

SlotMarker(slot) == << "audit", slot >>
SlotsOf(h) == {slot \in 1..AuditSlots : audits[slot] = h}
Recording == {"idle", "incident", "record"}

\* What a hook that is past its record, and was not stopped, has to show for its incident.
Accounted(h) ==
    \/ hooks[h].incident = "none" \/ hooks[h].lost
    \/ \E slot \in 1..AuditSlots : SlotsOf(h) = {slot}
    \/ \A slot \in 1..AuditSlots : SlotMarker(slot) \in claims

\* A call nobody asked for has no hook yet.
Unasked == \A u \in Uses : uses[u].state = "none" => hooks[<< u, "pre" >>].pc = "idle"
\* A slot with a record has its marker; so has the slot a hook holds, which is no other's
\* and has no record yet.
SlotsMarked ==
    /\ audits \in [1..AuditSlots -> Hooks \cup {Absent}]
    /\ \A slot \in 1..AuditSlots : audits[slot] # Absent => SlotMarker(slot) \in claims
SlotsHeld ==
    /\ \A h \in Hooks : At(h, "record") =>
        /\ hooks[h].slot \in 1..AuditSlots
        /\ SlotMarker(hooks[h].slot) \in claims /\ audits[hooks[h].slot] = Absent
    /\ \A g, h \in Hooks : At(g, "record") /\ At(h, "record") /\ hooks[g].slot = hooks[h].slot => g = h
IncidentsKept ==
    \A h \in Hooks : /\ hooks[h].pc \in Recording => SlotsOf(h) = {}
                     /\ hooks[h].pc \notin Recording \cup {"failed"} => Accounted(h)

AuditInv == Fielded /\ Unasked /\ SlotsMarked /\ SlotsHeld /\ IncidentsKept

\* A step that writes no record and takes no slot.
LEMMA NoRecordKeeps ==
    ASSUME AuditInv, Unasked', audits' = audits, claims \subseteq claims',
           NEW h \in Hooks, OnlyMoves(h), hooks'[h].pc # "record",
           hooks'[h].pc \in Recording => hooks[h].pc = "idle",
           \/ hooks'[h].pc \in Recording \cup {"failed"}
           \/ hooks'[h].incident = "none" \/ hooks'[h].lost
           \/ \A slot \in 1..AuditSlots : SlotMarker(slot) \in claims'
           \/ /\ hooks[h].pc \notin Recording \cup {"failed"}
              /\ hooks'[h].incident = hooks[h].incident /\ hooks'[h].lost = hooks[h].lost
    PROVE  AuditInv'
<1>1. Fielded' /\ \A g \in Hooks \ {h} : hooks'[g] = hooks[g]
  BY DEF OnlyMoves
<1>2. SlotsMarked'
  BY DEF AuditInv, SlotsMarked, SlotMarker
<1>3. SlotsHeld'
  BY <1>1 DEF AuditInv, SlotsHeld, At, SlotMarker
<1>4. \A g \in Hooks : SlotsOf(g)' = SlotsOf(g)
  BY DEF SlotsOf
<1>5. ASSUME NEW g \in Hooks, hooks[g].incident = hooks'[g].incident, hooks[g].lost = hooks'[g].lost,
             Accounted(g)
      PROVE  Accounted(g)'
  BY <1>4, <1>5 DEF Accounted, SlotMarker
<1>6. IncidentsKept'
  <2> SUFFICES ASSUME NEW g \in Hooks
               PROVE  /\ hooks'[g].pc \in Recording => SlotsOf(g)' = {}
                      /\ hooks'[g].pc \notin Recording \cup {"failed"} => Accounted(g)'
    BY DEF IncidentsKept
  <2>1. CASE g # h
    BY <1>1, <1>4, <1>5, <2>1 DEF AuditInv, IncidentsKept
  <2>2. CASE g = h
    <3>1. hooks'[h].pc \in Recording => SlotsOf(h)' = {}
      BY <1>4 DEF AuditInv, IncidentsKept, Recording
    <3>2. ASSUME hooks'[h].pc \notin Recording \cup {"failed"} PROVE Accounted(h)'
      <4>1. CASE \/ hooks'[h].incident = "none" \/ hooks'[h].lost
                 \/ \A slot \in 1..AuditSlots : SlotMarker(slot) \in claims'
        BY <4>1 DEF Accounted, SlotMarker
      <4>2. CASE /\ hooks[h].pc \notin Recording \cup {"failed"}
                 /\ hooks'[h].incident = hooks[h].incident /\ hooks'[h].lost = hooks[h].lost
        <5>1. Accounted(h)
          BY <4>2 DEF AuditInv, IncidentsKept
        <5>2. QED
          BY <1>5, <4>2, <5>1
      <4>3. QED
        BY <3>2, <4>1, <4>2
    <3>3. QED
      BY <2>2, <3>1, <3>2
  <2>3. QED
    BY <2>1, <2>2
<1>7. QED
  BY <1>1, <1>2, <1>3, <1>6 DEF AuditInv

\* A hook that took a step is none of a call nobody asked for.
LEMMA UnaskedKept ==
    ASSUME Shapes, setting' = setting, Unasked, NEW h \in Hooks, hooks[h].pc # "idle", OnlyMoves(h),
           UNCHANGED uses \/ \E allowed \in BOOLEAN : Answer(h, allowed)
    PROVE  Unasked'
<1>1. \A u \in Uses : << u, "pre" >> \in Hooks
  BY DEF Hooks
<1>2. \A u \in Uses : uses'[u].state = uses[u].state \/ h = << u, "pre" >>
  BY AnswerEffect
<1>3. ASSUME NEW u \in Uses, uses'[u].state = "none" PROVE hooks'[<< u, "pre" >>].pc = "idle"
  <2>1. CASE h = << u, "pre" >>
    <3>1. h[1] = u /\ h[2] = "pre" /\ uses[u].state # "none"
      BY <2>1 DEF Unasked
    <3>2. CASE UNCHANGED uses
      BY <1>3, <3>1, <3>2
    <3>3. CASE \E allowed \in BOOLEAN : Answer(h, allowed)
      <4>1. uses'[u].state \in {"allowed", "denied"}
        BY <3>1, <3>3 DEF Answer, UseOf, Shapes, UseRecords
      <4>2. QED
        BY <1>3, <4>1
    <3>4. QED
      BY <3>2, <3>3
  <2>2. CASE h # << u, "pre" >>
    BY <1>1, <1>2, <1>3, <2>2 DEF Unasked, OnlyMoves
  <2>3. QED
    BY <2>1, <2>2
<1>4. QED
  BY <1>3 DEF Unasked

LEMMA ClaimSlotKeeps ==
    ASSUME AuditInv, Shapes, NEW h \in Hooks, ClaimSlot(h)
    PROVE  AuditInv'
<1>1. Fielded /\ Unasked /\ SlotsMarked /\ SlotsHeld /\ IncidentsKept /\ hooks[h].pc = "incident"
      /\ UNCHANGED << audits, uses, setting >> /\ claims \subseteq claims'
  BY DEF AuditInv, ClaimSlot, At
<1>2. CASE FreeSlots = {}
  <2>1. Goto(h, "respond")
    BY <1>2 DEF ClaimSlot
  <2>2. OnlyMoves(h) /\ hooks'[h].pc = "respond"
    BY <1>1, <2>1, GotoMoves
  <2>3. \A slot \in 1..AuditSlots : SlotMarker(slot) \in claims'
    BY <1>1, <1>2 DEF FreeSlots, Claimed, SlotMarker
  <2>4. Unasked'
    BY <1>1, <2>2, UnaskedKept
  <2>5. QED
    BY <1>1, <2>2, <2>3, <2>4, NoRecordKeeps DEF Recording
<1>3. CASE FreeSlots # {}
  <2> DEFINE slot == Min(FreeSlots)
             r == [hooks[h] EXCEPT !.pc = "record", !.slot = slot]
  <2>1. slot \in FreeSlots
    <3>1. FreeSlots \in SUBSET Nat
      BY TurnAssumption DEF FreeSlots
    <3>2. QED
      BY <1>3, <3>1, MinElement
  <2>2. slot \in 1..AuditSlots /\ SlotMarker(slot) \notin claims
    BY <2>1 DEF FreeSlots, Claimed, SlotMarker
  <2>3. claims' = claims \cup {SlotMarker(slot)} /\ hooks' = [hooks EXCEPT ![h] = r]
    BY <1>1, <1>3 DEF ClaimSlot, SlotMarker, Fielded
  <2> HIDE DEF slot
  <2>4. r.pc = "record" /\ r.slot = slot /\ Fields \subseteq DOMAIN r
    BY <1>1 DEF Fielded, Fields
  <2> HIDE DEF r
  <2>5. OnlyMoves(h) /\ hooks'[h] = r
    BY <1>1, <2>3, <2>4, SetMoves
  <2>6. audits[slot] = Absent
    BY <1>1, <2>2 DEF SlotsMarked
  <2>7. Unasked'
    BY <1>1, <2>5, UnaskedKept
  <2>8. SlotsMarked'
    BY <1>1, <2>3 DEF SlotsMarked, SlotMarker
  <2>9. SlotsHeld'
    BY <1>1, <2>2, <2>3, <2>4, <2>5, <2>6 DEF SlotsHeld, At, OnlyMoves
  <2>10. IncidentsKept'
    <3>1. \A g \in Hooks : SlotsOf(g)' = SlotsOf(g)
      BY <1>1 DEF SlotsOf
    <3>2. \A g \in Hooks \ {h} : hooks'[g] = hooks[g] /\ (Accounted(g) => Accounted(g)')
      BY <1>1, <2>3, <2>5, <3>1 DEF OnlyMoves, Accounted
    <3>3. QED
      BY <1>1, <2>4, <2>5, <3>1, <3>2 DEF IncidentsKept, Recording
  <2>11. QED
    BY <2>5, <2>7, <2>8, <2>9, <2>10 DEF AuditInv, OnlyMoves
<1>4. QED
  BY <1>2, <1>3

LEMMA WriteRecordKeeps ==
    ASSUME AuditInv, Shapes, NEW h \in Hooks, WriteRecord(h)
    PROVE  AuditInv'
<1> DEFINE mine == hooks[h].slot
<1>1. Fielded /\ Unasked /\ SlotsMarked /\ SlotsHeld /\ IncidentsKept /\ hooks[h].pc = "record"
      /\ UNCHANGED << uses, claims, setting >> /\ audits' = [audits EXCEPT ![mine] = h]
      /\ Goto(h, "respond")
  BY DEF AuditInv, WriteRecord, At
<1>2. OnlyMoves(h) /\ hooks'[h].pc = "respond"
  BY <1>1, GotoMoves
<1>3. mine \in 1..AuditSlots /\ SlotMarker(mine) \in claims /\ audits[mine] = Absent
  BY <1>1 DEF SlotsHeld, At
<1> HIDE DEF mine
<1>4. Unasked'
  BY <1>1, <1>2, UnaskedKept
<1>5. /\ audits'[mine] = h
      /\ \A slot \in 1..AuditSlots : slot # mine => audits'[slot] = audits[slot]
  BY <1>1, <1>3 DEF SlotsMarked
<1>6. SlotsMarked'
  BY <1>1, <1>3, <1>5 DEF SlotsMarked, SlotMarker
<1>7. SlotsHeld'
  <2>1. \A g \in Hooks : At(g, "record")' => g # h /\ hooks'[g] = hooks[g] /\ At(g, "record")
    BY <1>2 DEF OnlyMoves, At
  <2>2. \A g \in Hooks : At(g, "record")' => hooks[g].slot # mine
    BY <1>1, <2>1 DEF SlotsHeld, At, mine
  <2>3. QED
    BY <1>1, <1>5, <2>1, <2>2 DEF SlotsHeld, SlotMarker
<1>8. IncidentsKept'
  <2>1. SlotsOf(h)' = {mine}
    BY <1>1, <1>3, <1>5 DEF IncidentsKept, Recording, SlotsOf
  <2>2. \A g \in Hooks \ {h} : SlotsOf(g)' = SlotsOf(g) /\ hooks'[g] = hooks[g]
    BY <1>2, <1>3, <1>5, TurnAssumption DEF SlotsOf, OnlyMoves
  <2>3. \A g \in Hooks \ {h} : Accounted(g) => Accounted(g)'
    BY <1>1, <2>2 DEF Accounted, SlotMarker
  <2>4. Accounted(h)'
    BY <1>3, <2>1 DEF Accounted
  <2>5. QED
    BY <1>1, <1>2, <2>2, <2>3, <2>4 DEF IncidentsKept, Recording
<1>9. QED
  BY <1>2, <1>4, <1>6, <1>7, <1>8 DEF AuditInv, OnlyMoves

\* Every other step of a hook.
LEMMA HookStepAudits ==
    ASSUME AuditInv, Shapes, NEW h \in Hooks, HookStep(h)
    PROVE  AuditInv'
<1>1. Fielded /\ Unasked /\ setting' = setting /\ claims \subseteq claims'
  BY DEF AuditInv, HookStep, ClaimSlot, WriteRecord, FailRecord, Respond, Load, ClaimEvent, WriteEvent,
     ReadEvents, ClaimContext
<1>2. ASSUME OnlyMoves(h), UNCHANGED uses \/ \E allowed \in BOOLEAN : Answer(h, allowed),
             audits' = audits, hooks[h].pc # "idle", hooks'[h].pc \notin Recording,
             \/ hooks'[h].pc = "failed" \/ hooks'[h].lost
             \/ /\ hooks[h].pc \notin Recording \cup {"failed"}
                /\ hooks'[h].incident = hooks[h].incident /\ hooks'[h].lost = hooks[h].lost
      PROVE  AuditInv'
  <2>1. Unasked'
    BY <1>1, <1>2, UnaskedKept
  <2>2. QED
    BY <1>1, <1>2, <2>1, NoRecordKeeps DEF Recording
<1>3. ASSUME NEW pc, Goto(h, pc), UNCHANGED uses \/ \E allowed \in BOOLEAN : Answer(h, allowed),
             audits' = audits, pc \notin Recording,
             hooks[h].pc \notin Recording \cup {"failed"} \/ (pc = "failed" /\ hooks[h].pc # "idle")
      PROVE  AuditInv'
  <2>1. OnlyMoves(h) /\ hooks'[h].pc = pc /\ hooks'[h].incident = hooks[h].incident
        /\ hooks'[h].lost = hooks[h].lost
    BY <1>1, <1>3, GotoMoves
  <2>2. QED
    BY <1>2, <1>3, <2>1 DEF Recording
<1>4. ASSUME NEW r, hooks' = [hooks EXCEPT ![h] = r], Fields \subseteq DOMAIN r, UNCHANGED << uses, audits >>,
             hooks[h].pc # "idle", r.pc \notin Recording,
             \/ r.lost
             \/ /\ hooks[h].pc \notin Recording \cup {"failed"}
                /\ r.incident = hooks[h].incident /\ r.lost = hooks[h].lost
      PROVE  AuditInv'
  <2>1. OnlyMoves(h) /\ hooks'[h] = r
    BY <1>1, <1>4, SetMoves
  <2>2. QED
    BY <1>2, <1>4, <2>1
<1>5. CASE FailRecord(h)
  <2>1. CASE hooks[h].incident = "guard"
    <3>1. Goto(h, "failed") /\ Answer(h, TRUE) /\ hooks[h].pc = "record" /\ audits' = audits
      BY <1>5, <2>1 DEF FailRecord, At
    <3>2. \E allowed \in BOOLEAN : Answer(h, allowed)
      BY <3>1, Zenon
    <3>3. QED
      BY <1>3, <3>1, <3>2 DEF Recording
  <2>2. CASE hooks[h].incident # "guard"
    <3> DEFINE r == [hooks[h] EXCEPT !.pc = "respond", !.lost = TRUE]
    <3>1. hooks' = [hooks EXCEPT ![h] = r] /\ UNCHANGED << uses, audits >> /\ hooks[h].pc = "record"
      BY <1>1, <1>5, <2>2 DEF FailRecord, At, Fielded
    <3>2. Fields \subseteq DOMAIN r /\ r.pc = "respond" /\ r.lost
      BY <1>1 DEF Fielded, Fields
    <3> HIDE DEF r
    <3>3. QED
      BY <1>4, <3>1, <3>2 DEF Recording
  <2>3. QED
    BY <2>1, <2>2
<1>6. CASE Respond(h)
  <2> DEFINE allowed == hooks[h].incident \notin {"guard", "deny", "stop"}
  <2>1. PICK pc \in {"load", "done"} : Goto(h, pc)
    BY <1>6 DEF Respond
  <2>2. hooks[h].pc = "respond" /\ Answer(h, allowed) /\ audits' = audits
    BY <1>6 DEF Respond, At
  <2>3. allowed \in BOOLEAN
    OBVIOUS
  <2> HIDE DEF allowed
  <2>4. \E answer \in BOOLEAN : Answer(h, answer)
    BY <2>2, <2>3, Zenon
  <2>5. QED
    BY <1>3, <2>1, <2>2, <2>4 DEF Recording
<1>7. CASE Load(h)
  <2>1. hooks[h].pc = "load" /\ UNCHANGED << uses, audits >>
    BY <1>7 DEF Load, At
  <2>2. CASE request = Absent \/ EventKind(ToolOf(h)) = "other"
    BY <1>3, <1>7, <2>1, <2>2 DEF Load, Recording
  <2>3. CASE ~(request = Absent \/ EventKind(ToolOf(h)) = "other")
    <3> DEFINE r == [hooks[h] EXCEPT !.pc = "event", !.state = request]
    <3>1. hooks' = [hooks EXCEPT ![h] = r]
      BY <1>1, <1>7, <2>3 DEF Load, Fielded
    <3>2. Fields \subseteq DOMAIN r /\ r.pc = "event" /\ r.incident = hooks[h].incident
          /\ r.lost = hooks[h].lost
      BY <1>1 DEF Fielded, Fields
    <3> HIDE DEF r
    <3>3. QED
      BY <1>4, <2>1, <3>1, <3>2 DEF Recording
  <2>4. QED
    BY <2>2, <2>3
<1>8. CASE ClaimEvent(h)
  <2>1. PICK pc \in {"write", "done", "read"} : Goto(h, pc)
    BY <1>8 DEF ClaimEvent
  <2>2. hooks[h].pc = "event" /\ UNCHANGED << uses, audits >>
    BY <1>8 DEF ClaimEvent, At
  <2>3. QED
    BY <1>3, <2>1, <2>2 DEF Recording
<1>9. CASE WriteEvent(h) \/ ClaimContext(h)
  BY <1>3, <1>9 DEF WriteEvent, ClaimContext, At, Recording
<1>10. CASE ReadEvents(h)
  <2> DEFINE context == ContextFor(h, Recorded)
             r == [hooks[h] EXCEPT !.pc = IF context = "none" THEN "done" ELSE "claim", !.context = context]
  <2>1. hooks' = [hooks EXCEPT ![h] = r] /\ UNCHANGED << uses, audits >> /\ hooks[h].pc = "read"
    BY <1>1, <1>10 DEF ReadEvents, At, Fielded
  <2> HIDE DEF context
  <2>2. Fields \subseteq DOMAIN r /\ r.pc \in {"done", "claim"} /\ r.incident = hooks[h].incident
        /\ r.lost = hooks[h].lost
    BY <1>1 DEF Fielded, Fields
  <2> HIDE DEF r
  <2>3. QED
    BY <1>4, <2>1, <2>2 DEF Recording
<1>11. QED
  BY <1>5, <1>6, <1>7, <1>8, <1>9, <1>10, ClaimSlotKeeps, WriteRecordKeeps DEF HookStep

LEMMA AskAudits ==
    ASSUME AuditInv, Shapes, NEW u \in Uses, NEW tool, NEW decision, Ask(u, tool, decision)
    PROVE  AuditInv'
<1> DEFINE guarded == GuardDenied(tool, setting.guard)
           billed == ~guarded /\ BillableDenied(tool, Authorized)
           incident == IF guarded THEN "guard" ELSE IF billed THEN "none" ELSE decision
           pre == << u, "pre" >>
           state == IF billed THEN "denied" ELSE IF incident = "none" THEN "allowed" ELSE "asked"
           hook == [hooks[pre] EXCEPT !.pc = IF incident = "none" THEN "done" ELSE "incident",
                                      !.incident = incident]
<1>1. Fielded /\ Unasked /\ UNCHANGED << audits, claims >> /\ uses[u].state = "none"
      /\ uses' = [uses EXCEPT ![u] = [tool |-> tool, ok |-> FALSE, state |-> state]]
  BY DEF AuditInv, Ask, MayAsk
<1>2. pre \in Hooks /\ \A v \in Uses \ {u} : << v, "pre" >> \in Hooks /\ << v, "pre" >> # pre
  BY DEF Hooks
<1>3. hooks' = [hooks EXCEPT ![pre] = hook]
  BY <1>1, <1>2 DEF Ask, Fielded
<1>4. hooks[pre].pc = "idle"
  BY <1>1 DEF Unasked
<1> HIDE DEF guarded, billed, incident
<1>5. state # "none"
  OBVIOUS
<1>6. /\ Fields \subseteq DOMAIN hook /\ hook.pc \in {"done", "incident"}
      /\ hook.pc = "done" => hook.incident = "none"
  BY <1>1, <1>2 DEF Fielded, Fields
<1> HIDE DEF state, hook
<1>7. OnlyMoves(pre) /\ hooks'[pre] = hook
  BY <1>1, <1>2, <1>3, <1>6, SetMoves
<1>8. Unasked'
  BY <1>1, <1>2, <1>5, <1>7 DEF Unasked, OnlyMoves, Shapes
<1>9. QED
  BY <1>1, <1>2, <1>4, <1>6, <1>7, <1>8, NoRecordKeeps DEF Recording

LEMMA DeliverAudits ==
    ASSUME AuditInv, Shapes, NEW u \in Uses, NEW which \in {"post", "again"}, NEW success,
           NEW decision, Deliver(u, which, success, decision)
    PROVE  AuditInv'
<1> DEFINE h == << u, which >>
           hook == [hooks[h] EXCEPT !.pc = IF decision = "none" THEN "load" ELSE "incident",
                                    !.incident = decision]
<1>1. Fielded /\ Unasked /\ UNCHANGED << audits, claims >> /\ hooks[h].pc = "idle"
      /\ uses' = [uses EXCEPT ![u].state = "run", ![u].ok = success]
  BY DEF AuditInv, Deliver, At
<1>2. h \in Hooks /\ \A v \in Uses : << v, "pre" >> \in Hooks /\ << v, "pre" >> # h
  BY DEF Hooks
<1>3. hooks' = [hooks EXCEPT ![h] = hook]
  BY <1>1, <1>2 DEF Deliver, Fielded
<1>4. /\ Fields \subseteq DOMAIN hook /\ hook.pc \in {"load", "incident"}
      /\ hook.pc = "load" => hook.incident = "none"
  BY <1>1, <1>2 DEF Fielded, Fields
<1> HIDE DEF hook
<1>5. OnlyMoves(h) /\ hooks'[h] = hook
  BY <1>1, <1>2, <1>3, <1>4, SetMoves
<1>6. \A v \in Uses : uses'[v].state = "none" => uses[v].state = "none"
  BY <1>1 DEF Shapes, UseRecords
<1>7. Unasked'
  BY <1>1, <1>2, <1>5, <1>6 DEF Unasked, OnlyMoves
<1>8. QED
  BY <1>1, <1>2, <1>4, <1>5, <1>7, NoRecordKeeps DEF Recording

LEMMA AuditStep == Shapes /\ AuditInv /\ [Next]_vars => AuditInv'
<1> SUFFICES ASSUME Shapes, AuditInv, [Next]_vars PROVE AuditInv'
  OBVIOUS
<1>1. claims \subseteq claims' /\ setting' = setting
  BY ClaimsGrow, SettingKept
<1>2. ASSUME UNCHANGED << audits, uses, hooks >> PROVE AuditInv'
  <2>1. \A h \in Hooks : SlotsOf(h)' = SlotsOf(h)
    BY <1>2 DEF SlotsOf
  <2>2. Fielded' /\ Unasked' /\ SlotsMarked' /\ SlotsHeld'
    BY <1>1, <1>2 DEF AuditInv, Fielded, Unasked, SlotsMarked, SlotsHeld, At, SlotMarker
  <2>3. \A h \in Hooks : Accounted(h) => Accounted(h)'
    BY <1>1, <1>2, <2>1 DEF Accounted
  <2>4. IncidentsKept'
    BY <1>2, <2>1, <2>3 DEF AuditInv, IncidentsKept
  <2>5. QED
    BY <2>2, <2>4 DEF AuditInv
<1>3. ASSUME NEW prompt, SubmitPrompt(prompt) \/ FailPrompt(prompt) PROVE AuditInv'
  BY <1>2, <1>3 DEF SubmitPrompt, FailPrompt
<1>4. CASE ClaimPack \/ KillPrompt \/ UNCHANGED vars
  BY <1>2, <1>4 DEF ClaimPack, KillPrompt, vars
<1>5. ASSUME NEW u \in Uses, NEW tool \in setting.tools, AskUnheard(u, tool) PROVE AuditInv'
  <2> DEFINE pre == << u, "pre" >>
  <2>1. pre \in Hooks /\ \A v \in Uses \ {u} : << v, "pre" >> \in Hooks /\ << v, "pre" >> # pre
    BY DEF Hooks
  <2>2. /\ Goto(pre, "failed") /\ UNCHANGED audits /\ uses[u].state = "none"
        /\ uses' = [uses EXCEPT ![u] = [tool |-> tool, state |-> "allowed", ok |-> FALSE]]
    BY <1>5 DEF AskUnheard, MayAsk
  <2>3. OnlyMoves(pre) /\ hooks'[pre].pc = "failed"
    BY <2>1, <2>2, GotoMoves DEF AuditInv
  <2>4. Unasked'
    BY <2>1, <2>2, <2>3 DEF AuditInv, Unasked, OnlyMoves, Shapes
  <2>5. QED
    BY <1>1, <2>1, <2>2, <2>3, <2>4, NoRecordKeeps DEF Recording
<1>6. ASSUME NEW u \in Uses, Kill(u) PROVE AuditInv'
  <2> DEFINE pre == << u, "pre" >>
  <2>1. pre \in Hooks
    BY DEF Hooks
  <2>2. Goto(pre, "failed") /\ Answer(pre, TRUE) /\ UNCHANGED audits /\ hooks[pre].pc # "idle"
    BY <1>6 DEF Kill
  <2>3. OnlyMoves(pre) /\ hooks'[pre].pc = "failed"
    BY <2>1, <2>2, GotoMoves DEF AuditInv
  <2>4. \E allowed \in BOOLEAN : Answer(pre, allowed)
    BY <2>2, Zenon
  <2>5. Unasked'
    BY <1>1, <2>1, <2>2, <2>3, <2>4, UnaskedKept DEF AuditInv
  <2>6. QED
    BY <1>1, <2>1, <2>2, <2>3, <2>5, NoRecordKeeps DEF Recording
<1>7. QED
  BY <1>3, <1>4, <1>5, <1>6, AskAudits, DeliverAudits, HookStepAudits DEF Next

LEMMA AuditInit == Init => AuditInv
<1> SUFFICES ASSUME Init PROVE AuditInv
  OBVIOUS
<1>1. \A h \in Hooks : hooks[h].pc = "idle" /\ Fields \subseteq DOMAIN hooks[h]
  BY DEF Init, Idle, Fields
<1>2. Fielded /\ Unasked
  BY <1>1 DEF Init, Fielded, Unasked, Hooks
<1>3. SlotsMarked /\ SlotsHeld
  BY <1>1 DEF Init, SlotsMarked, SlotsHeld, At
<1>4. \A h \in Hooks : SlotsOf(h) = {}
  BY TurnAssumption DEF Init, SlotsOf
<1>5. IncidentsKept
  BY <1>1, <1>4 DEF IncidentsKept, Recording
<1>6. QED
  BY <1>2, <1>3, <1>5 DEF AuditInv

\* A hook that ended well, and lost no write, has its incident in one slot, unless the
\* slots ran out; whatever hooks race for the slots.
THEOREM TurnIncidentsAudited == Spec => []IncidentsAudited
<1>1. Init => ApprovalInv /\ AuditInv
  BY ApprovalInit, AuditInit
<1>2. ApprovalInv /\ AuditInv /\ [Next]_vars => ApprovalInv' /\ AuditInv'
  BY ApprovalStep, AuditStep DEF ApprovalInv
<1>3. AuditInv => IncidentsAudited
  <2> SUFFICES ASSUME AuditInv, NEW h \in Hooks, At(h, "done"), hooks[h].incident # "none", ~hooks[h].lost
               PROVE  \/ Cardinality({slot \in 1..AuditSlots : audits[slot] = h}) = 1
                      \/ \A slot \in 1..AuditSlots : << "audit", slot >> \in claims
    BY DEF IncidentsAudited
  <2>1. Accounted(h)
    BY DEF AuditInv, IncidentsKept, At, Recording
  <2>2. CASE \A slot \in 1..AuditSlots : SlotMarker(slot) \in claims
    BY <2>2 DEF SlotMarker
  <2>3. CASE \E slot \in 1..AuditSlots : SlotsOf(h) = {slot}
    <3>1. Cardinality(SlotsOf(h)) = 1
      BY <2>3, FS_Singleton
    <3>2. QED
      BY <3>1 DEF SlotsOf
  <2>4. QED
    BY <2>1, <2>2, <2>3 DEF Accounted
<1>4. QED
  BY <1>1, <1>2, <1>3, PTL DEF Spec

-----------------------------------------------------------------------------
(* The debt of verification *)

EventMarker(u) == << "event", u >>
Stamped(h) == \E i \in DOMAIN stamps : stamps[i] = h
\* A hook whose event has a file, or that is about to write it.
Keeps(h) == h \in events \/ At(h, "write")

BeforeCall == Recording \cup {"respond", "done", "failed"}
Stamping == {"event", "write"}
StampedAt == Stamping \cup {"read", "claim", "done"}

\* The hook before a call names no event; a hook that named one is at it or past it.
StampsOfResults ==
    /\ stamps \in Seq(Hooks)
    /\ \A i, j \in DOMAIN stamps : stamps[i] = stamps[j] => i = j
    /\ \A i \in DOMAIN stamps : stamps[i][2] # "pre" /\ hooks[stamps[i]].pc \in StampedAt
    /\ \A h \in Hooks : /\ h[2] = "pre" => hooks[h].pc \in BeforeCall
                        /\ hooks[h].pc \in Stamping => Stamped(h)
\* Of the hooks of one call, the one that made the marker keeps the event.
EventsOnce ==
    /\ \A h \in events : h \in Hooks /\ Stamped(h) /\ hooks[h].pc \notin Stamping
    /\ \A h \in Hooks : Keeps(h) => EventMarker(UseOf(h)) \in claims
    /\ \A g, h \in Hooks : Keeps(g) /\ Keeps(h) /\ UseOf(g) = UseOf(h) => g = h
    /\ \A u \in Uses : EventMarker(u) \in claims => \E h \in Hooks : UseOf(h) = u /\ Keeps(h)
    /\ \A h \in Hooks : Stamped(h) /\ ~At(h, "event") => EventMarker(UseOf(h)) \in claims
ContextsLate == \A h \in Hooks : hooks[h].context = "none" \/ At(h, "claim")

EventInv == Fielded /\ StampsOfResults /\ EventsOnce /\ ContextsLate

\* A step that is not about an event.
LEMMA NoEventKeeps ==
    ASSUME EventInv, UNCHANGED << stamps, events >>,
           \A u \in Uses : EventMarker(u) \in claims' <=> EventMarker(u) \in claims,
           NEW h \in Hooks, OnlyMoves(h),
           hooks[h].pc \notin Stamping, hooks'[h].pc \notin Stamping,
           h[2] = "pre" => hooks'[h].pc \in BeforeCall,
           h[2] # "pre" /\ hooks[h].pc \in StampedAt => hooks'[h].pc \in StampedAt,
           hooks'[h].context = "none" \/ hooks'[h].pc = "claim"
    PROVE  EventInv'
<1>1. Fielded' /\ \A g \in Hooks \ {h} : hooks'[g] = hooks[g]
  BY DEF OnlyMoves
<1>2. \A g \in Hooks : At(g, "write")' = At(g, "write") /\ At(g, "event")' = At(g, "event")
                       /\ (hooks[g].pc \in Stamping <=> hooks'[g].pc \in Stamping)
  BY <1>1 DEF At, Stamping
<1>3. \A g \in Hooks : /\ Keeps(g)' <=> Keeps(g)
                       /\ Stamped(g)' <=> Stamped(g)
  BY <1>2 DEF Keeps, Stamped
<1>4. StampsOfResults'
  <2>1. \A i \in DOMAIN stamps : stamps[i] \in Hooks
    BY DEF EventInv, StampsOfResults
  <2>2. \A i \in DOMAIN stamps : hooks'[stamps[i]].pc \in StampedAt
    BY <1>1, <2>1 DEF EventInv, StampsOfResults
  <2>3. ASSUME NEW g \in Hooks
        PROVE  /\ g[2] = "pre" => hooks'[g].pc \in BeforeCall
               /\ hooks'[g].pc \in Stamping => Stamped(g)'
    BY <1>1, <1>2, <1>3 DEF EventInv, StampsOfResults
  <2>4. QED
    BY <2>2, <2>3 DEF EventInv, StampsOfResults
<1>5. EventsOnce'
  <2>1. \A g \in Hooks : UseOf(g) \in Uses
    BY DEF Hooks, UseOf
  <2>2. \A g \in events : g \in Hooks /\ Stamped(g)' /\ hooks'[g].pc \notin Stamping
    BY <1>2, <1>3 DEF EventInv, EventsOnce
  <2>3. QED
    BY <1>2, <1>3, <2>1, <2>2 DEF EventInv, EventsOnce
<1>6. ContextsLate'
  BY <1>1 DEF EventInv, ContextsLate, At
<1>7. QED
  BY <1>1, <1>4, <1>5, <1>6 DEF EventInv

LEMMA LoadKeepsEvents ==
    ASSUME EventInv, NEW h \in Hooks, Load(h)
    PROVE  EventInv'
<1>1. /\ Fielded /\ StampsOfResults /\ EventsOnce /\ ContextsLate /\ hooks[h].pc = "load"
      /\ UNCHANGED << claims, events >>
  BY DEF EventInv, Load, At
<1>2. h[2] # "pre" /\ ~Stamped(h) /\ hooks[h].context = "none"
  BY <1>1 DEF StampsOfResults, BeforeCall, Recording, Stamped, StampedAt, Stamping, ContextsLate, At
<1>3. CASE request = Absent \/ EventKind(ToolOf(h)) = "other"
  <2>1. Goto(h, "done") /\ UNCHANGED stamps
    BY <1>3 DEF Load
  <2>2. OnlyMoves(h) /\ hooks'[h].pc = "done" /\ hooks'[h].context = "none"
    BY <1>1, <1>2, <2>1, GotoMoves
  <2>3. QED
    BY <1>1, <1>2, <2>1, <2>2, NoEventKeeps DEF Stamping, StampedAt
<1>4. CASE ~(request = Absent \/ EventKind(ToolOf(h)) = "other")
  <2> DEFINE r == [hooks[h] EXCEPT !.pc = "event", !.state = request]
             n == Len(stamps) + 1
  <2>1. stamps' = Append(stamps, h) /\ hooks' = [hooks EXCEPT ![h] = r]
    BY <1>1, <1>4 DEF Load, Fielded
  <2>2. Fields \subseteq DOMAIN r /\ r.pc = "event" /\ r.context = "none"
    BY <1>1, <1>2 DEF Fielded, Fields
  <2> HIDE DEF r
  <2>3. OnlyMoves(h) /\ hooks'[h] = r
    BY <1>1, <2>1, <2>2, SetMoves
  <2>4. /\ stamps' \in Seq(Hooks) /\ n \notin DOMAIN stamps
        /\ DOMAIN stamps' = DOMAIN stamps \cup {n} /\ stamps'[n] = h
        /\ \A i \in DOMAIN stamps : stamps'[i] = stamps[i] /\ stamps[i] \in Hooks
    BY <1>1, <2>1 DEF StampsOfResults
  <2> HIDE DEF n
  <2>5. \A g \in Hooks \ {h} : hooks'[g] = hooks[g]
    BY <2>3 DEF OnlyMoves
  <2>6. \A g \in Hooks : Stamped(g)' <=> Stamped(g) \/ g = h
    BY <2>4 DEF Stamped
  <2>7. \A g \in Hooks : Keeps(g)' <=> Keeps(g)
    BY <1>1, <2>2, <2>3, <2>5 DEF Keeps, At
  <2>8. StampsOfResults'
    <3>1. \A i \in DOMAIN stamps : stamps[i] # h
      BY <1>2 DEF Stamped
    <3>2. \A i, j \in DOMAIN stamps' : stamps'[i] = stamps'[j] => i = j
      BY <1>1, <2>4, <3>1 DEF StampsOfResults
    <3>3. \A i \in DOMAIN stamps' : stamps'[i][2] # "pre" /\ hooks'[stamps'[i]].pc \in StampedAt
      BY <1>1, <1>2, <2>2, <2>3, <2>4, <2>5, <3>1 DEF StampsOfResults, StampedAt, Stamping
    <3>4. \A g \in Hooks : /\ g[2] = "pre" => hooks'[g].pc \in BeforeCall
                           /\ hooks'[g].pc \in Stamping => Stamped(g)'
      BY <1>1, <1>2, <2>2, <2>3, <2>5, <2>6 DEF StampsOfResults
    <3>5. QED
      BY <2>4, <3>2, <3>3, <3>4 DEF StampsOfResults
  <2>9. EventsOnce'
    <3>1. \A g \in events : g # h
      BY <1>1, <1>2 DEF EventsOnce
    <3>2. \A g \in events : g \in Hooks /\ Stamped(g)' /\ hooks'[g].pc \notin Stamping
      BY <1>1, <2>5, <2>6, <3>1 DEF EventsOnce
    <3>3. \A g \in Hooks : Stamped(g)' /\ ~At(g, "event")' => Stamped(g) /\ ~At(g, "event")
      BY <2>2, <2>3, <2>5, <2>6 DEF At
    <3>4. QED
      BY <1>1, <2>7, <3>2, <3>3 DEF EventsOnce
  <2>10. ContextsLate'
    BY <1>1, <2>2, <2>3, <2>5 DEF ContextsLate, At
  <2>11. QED
    BY <2>3, <2>8, <2>9, <2>10 DEF EventInv, OnlyMoves
<1>5. QED
  BY <1>3, <1>4

LEMMA ClaimEventKeeps ==
    ASSUME EventInv, NEW h \in Hooks, ClaimEvent(h)
    PROVE  EventInv'
<1> DEFINE u == UseOf(h)
           pc == IF ~Claimed(EventMarker(u)) THEN "write"
                 ELSE IF EventKind(ToolOf(h)) = "edit" THEN "done" ELSE "read"
<1>1. /\ Fielded /\ StampsOfResults /\ EventsOnce /\ ContextsLate /\ hooks[h].pc = "event"
      /\ UNCHANGED << stamps, events >> /\ claims' = claims \cup {EventMarker(u)} /\ Goto(h, pc)
  BY DEF EventInv, ClaimEvent, At, EventMarker
<1>2. /\ pc \in {"write", "done", "read"}
      /\ pc = "write" <=> EventMarker(u) \notin claims
  BY DEF Claimed
<1> HIDE DEF pc
<1>3. h[2] # "pre" /\ Stamped(h) /\ hooks[h].context = "none" /\ u \in Uses
  BY <1>1 DEF StampsOfResults, BeforeCall, Recording, Stamping, ContextsLate, At, Hooks, UseOf
<1>4. OnlyMoves(h) /\ hooks'[h].pc = pc /\ hooks'[h].context = "none"
  BY <1>1, <1>3, GotoMoves
<1>5. \A g \in Hooks \ {h} : hooks'[g] = hooks[g]
  BY <1>4 DEF OnlyMoves
<1>6. \A g \in Hooks : Stamped(g)' <=> Stamped(g)
  BY <1>1 DEF Stamped
<1>7. h \notin events
  BY <1>1 DEF EventsOnce, Stamping
<1>8. \A g \in Hooks : Keeps(g)' <=> Keeps(g) \/ (g = h /\ EventMarker(u) \notin claims)
  BY <1>1, <1>2, <1>4, <1>5, <1>7 DEF Keeps, At
<1>9. StampsOfResults'
  <2>1. \A i \in DOMAIN stamps : stamps[i] \in Hooks
    BY <1>1 DEF StampsOfResults
  <2>2. pc \in StampedAt
    BY <1>2 DEF StampedAt, Stamping
  <2>3. \A i \in DOMAIN stamps : hooks'[stamps[i]].pc \in StampedAt
    BY <1>1, <1>4, <1>5, <2>1, <2>2 DEF StampsOfResults
  <2>4. \A g \in Hooks : /\ g[2] = "pre" => hooks'[g].pc \in BeforeCall
                         /\ hooks'[g].pc \in Stamping => Stamped(g)'
    BY <1>1, <1>3, <1>5, <1>6 DEF StampsOfResults
  <2>5. QED
    BY <1>1, <2>3, <2>4 DEF StampsOfResults
<1>10. \A v \in Uses : EventMarker(v) \in claims' <=> EventMarker(v) \in claims \/ v = u
  BY <1>1 DEF EventMarker
<1>11. EventsOnce'
  <2>1. \A g \in events : g \in Hooks /\ Stamped(g)' /\ hooks'[g].pc \notin Stamping
    BY <1>1, <1>5, <1>6, <1>7 DEF EventsOnce
  <2>2. \A g \in Hooks : UseOf(g) \in Uses
    BY DEF Hooks, UseOf
  <2>3. \A g \in Hooks : Keeps(g)' => EventMarker(UseOf(g)) \in claims'
    BY <1>1, <1>8, <1>10, <2>2 DEF EventsOnce
  <2>4. \A f, g \in Hooks : Keeps(f)' /\ Keeps(g)' /\ UseOf(f) = UseOf(g) => f = g
    BY <1>1, <1>8 DEF EventsOnce
  <2>5. \A v \in Uses : EventMarker(v) \in claims' => \E g \in Hooks : UseOf(g) = v /\ Keeps(g)'
    BY <1>1, <1>8, <1>10 DEF EventsOnce
  <2>6. \A g \in Hooks : Stamped(g)' /\ ~At(g, "event")' => EventMarker(UseOf(g)) \in claims'
    BY <1>1, <1>5, <1>6 DEF EventsOnce, At
  <2>7. QED
    BY <1>1, <2>1, <2>3, <2>4, <2>5, <2>6 DEF EventsOnce
<1>12. ContextsLate'
  BY <1>1, <1>4, <1>5 DEF ContextsLate, At
<1>13. QED
  BY <1>4, <1>9, <1>11, <1>12 DEF EventInv, OnlyMoves

LEMMA WriteEventKeeps ==
    ASSUME EventInv, NEW h \in Hooks, WriteEvent(h)
    PROVE  EventInv'
<1>1. /\ Fielded /\ StampsOfResults /\ EventsOnce /\ ContextsLate /\ hooks[h].pc = "write"
      /\ UNCHANGED << stamps, claims >> /\ events' = events \cup {h} /\ Goto(h, "read")
  BY DEF EventInv, WriteEvent, At
<1>2. h[2] # "pre" /\ Stamped(h) /\ hooks[h].context = "none"
  BY <1>1 DEF StampsOfResults, BeforeCall, Recording, Stamping, ContextsLate, At
<1>3. OnlyMoves(h) /\ hooks'[h].pc = "read" /\ hooks'[h].context = "none"
  BY <1>1, <1>2, GotoMoves
<1>4. \A g \in Hooks \ {h} : hooks'[g] = hooks[g]
  BY <1>3 DEF OnlyMoves
<1>5. \A g \in Hooks : /\ Stamped(g)' <=> Stamped(g)
                       /\ Keeps(g)' <=> Keeps(g)
  BY <1>1, <1>3, <1>4 DEF Stamped, Keeps, At
<1>6. StampsOfResults'
  <2>1. \A i \in DOMAIN stamps : stamps[i] \in Hooks
    BY <1>1 DEF StampsOfResults
  <2>2. \A i \in DOMAIN stamps : hooks'[stamps[i]].pc \in StampedAt
    BY <1>1, <1>3, <1>4, <2>1 DEF StampsOfResults, StampedAt
  <2>3. \A g \in Hooks : /\ g[2] = "pre" => hooks'[g].pc \in BeforeCall
                         /\ hooks'[g].pc \in Stamping => Stamped(g)'
    BY <1>1, <1>2, <1>4, <1>5 DEF StampsOfResults
  <2>4. QED
    BY <1>1, <2>2, <2>3 DEF StampsOfResults
<1>7. EventsOnce'
  <2>1. \A g \in events' : g \in Hooks /\ Stamped(g)' /\ hooks'[g].pc \notin Stamping
    BY <1>1, <1>2, <1>3, <1>4, <1>5 DEF EventsOnce, Stamping
  <2>2. \A g \in Hooks : ~At(g, "event")' => ~At(g, "event")
    BY <1>1, <1>4 DEF At
  <2>3. QED
    BY <1>1, <1>5, <2>1, <2>2 DEF EventsOnce
<1>8. ContextsLate'
  BY <1>1, <1>3, <1>4 DEF ContextsLate, At
<1>9. QED
  BY <1>3, <1>6, <1>7, <1>8 DEF EventInv, OnlyMoves

\* Only the reading of the events brings a hook to the claim of a context.
LEMMA ReadsBeforeClaim ==
    ASSUME Fielded, [Next]_vars, NEW h \in Hooks, hooks[h].pc # "claim", hooks'[h].pc = "claim"
    PROVE  ReadEvents(h)
<1>1. ASSUME NEW g \in Hooks, NEW pc, pc # "claim", Goto(g, pc) PROVE FALSE
  BY <1>1, GotoMoves DEF OnlyMoves
<1>2. ASSUME NEW g \in Hooks, NEW r, Fields \subseteq DOMAIN r, r.pc # "claim",
             hooks' = [hooks EXCEPT ![g] = r]
      PROVE  FALSE
  BY <1>2, SetMoves DEF OnlyMoves
<1>3. hooks' # hooks
  OBVIOUS
<1>4. ASSUME NEW prompt, SubmitPrompt(prompt) \/ FailPrompt(prompt) PROVE FALSE
  BY <1>3, <1>4 DEF SubmitPrompt, FailPrompt
<1>5. ~ClaimPack /\ ~KillPrompt /\ ~UNCHANGED vars
  BY <1>3 DEF ClaimPack, KillPrompt, vars
<1>6. ASSUME NEW u \in Uses, NEW tool, AskUnheard(u, tool) \/ Kill(u) PROVE FALSE
  <2>1. << u, "pre" >> \in Hooks /\ Goto(<< u, "pre" >>, "failed")
    BY <1>6 DEF Hooks, AskUnheard, Kill
  <2>2. QED
    BY <1>1, <2>1
<1>7. ASSUME NEW u \in Uses, NEW tool, NEW decision, Ask(u, tool, decision) PROVE FALSE
  <2> DEFINE guarded == GuardDenied(tool, setting.guard)
             billed == ~guarded /\ BillableDenied(tool, Authorized)
             incident == IF guarded THEN "guard" ELSE IF billed THEN "none" ELSE decision
             pre == << u, "pre" >>
             hook == [hooks[pre] EXCEPT !.pc = IF incident = "none" THEN "done" ELSE "incident",
                                        !.incident = incident]
  <2>1. pre \in Hooks
    BY DEF Hooks
  <2>2. hooks' = [hooks EXCEPT ![pre] = hook]
    BY <1>7, <2>1 DEF Ask, Fielded
  <2> HIDE DEF guarded, billed, incident
  <2>3. Fields \subseteq DOMAIN hook /\ hook.pc # "claim"
    BY <2>1 DEF Fielded, Fields
  <2> HIDE DEF hook, pre
  <2>4. QED
    BY <1>2, <2>1, <2>2, <2>3
<1>8. ASSUME NEW u \in Uses, NEW which \in {"post", "again"}, NEW success, NEW decision,
             Deliver(u, which, success, decision)
      PROVE  FALSE
  <2> DEFINE g == << u, which >>
             hook == [hooks[g] EXCEPT !.pc = IF decision = "none" THEN "load" ELSE "incident",
                                      !.incident = decision]
  <2>1. g \in Hooks
    BY DEF Hooks
  <2>2. hooks' = [hooks EXCEPT ![g] = hook]
    BY <1>8, <2>1 DEF Deliver, Fielded
  <2>3. Fields \subseteq DOMAIN hook /\ hook.pc # "claim"
    BY <2>1 DEF Fielded, Fields
  <2> HIDE DEF hook, g
  <2>4. QED
    BY <1>2, <2>1, <2>2, <2>3
<1>9. ASSUME NEW g \in Hooks, HookStep(g), ~ReadEvents(g) PROVE FALSE
  <2>1. CASE ClaimSlot(g) \/ FailRecord(g)
    <3>1. hooks[g].pc # "claim" /\ Fields \subseteq DOMAIN hooks[g]
      BY <2>1 DEF ClaimSlot, FailRecord, At, Fielded
    <3> DEFINE r == [hooks[g] EXCEPT !.pc = "record", !.slot = Min(FreeSlots)]
               s == [hooks[g] EXCEPT !.pc = "respond", !.lost = TRUE]
    <3>2. Fields \subseteq DOMAIN r /\ r.pc = "record" /\ Fields \subseteq DOMAIN s /\ s.pc = "respond"
      BY <3>1 DEF Fields
    <3>3. Goto(g, "respond") \/ Goto(g, "failed") \/ hooks' = [hooks EXCEPT ![g] = r]
          \/ hooks' = [hooks EXCEPT ![g] = s]
      BY <2>1 DEF ClaimSlot, FailRecord, Fielded
    <3> HIDE DEF r, s
    <3>4. QED
      BY <1>1, <1>2, <3>2, <3>3
  <2>2. CASE Load(g)
    <3> DEFINE r == [hooks[g] EXCEPT !.pc = "event", !.state = request]
    <3>1. Goto(g, "done") \/ hooks' = [hooks EXCEPT ![g] = r]
      BY <2>2 DEF Load, Fielded
    <3>2. Fields \subseteq DOMAIN r /\ r.pc = "event"
      BY DEF Fielded, Fields
    <3> HIDE DEF r
    <3>3. QED
      BY <1>1, <1>2, <3>1, <3>2
  <2>3. CASE WriteRecord(g) \/ Respond(g) \/ ClaimEvent(g) \/ WriteEvent(g) \/ ClaimContext(g)
    <3>1. \E pc \in {"respond", "load", "done", "write", "read"} : Goto(g, pc)
      BY <2>3 DEF WriteRecord, Respond, ClaimEvent, WriteEvent, ClaimContext
    <3>2. QED
      BY <1>1, <3>1
  <2>4. QED
    BY <1>9, <2>1, <2>2, <2>3 DEF HookStep
<1>10. PICK g \in Hooks : ReadEvents(g)
  BY <1>4, <1>5, <1>6, <1>7, <1>8, <1>9 DEF Next
<1>11. g = h
  <2> DEFINE context == ContextFor(g, Recorded)
             r == [hooks[g] EXCEPT !.pc = IF context = "none" THEN "done" ELSE "claim", !.context = context]
  <2>1. hooks' = [hooks EXCEPT ![g] = r]
    BY <1>10 DEF ReadEvents, Fielded
  <2>2. Fields \subseteq DOMAIN r
    BY DEF Fielded
  <2> HIDE DEF r
  <2>3. OnlyMoves(g)
    BY <2>1, <2>2, SetMoves
  <2>4. QED
    BY <2>3 DEF OnlyMoves
<1>12. QED
  BY <1>10, <1>11

LEMMA HookStepEvents ==
    ASSUME EventInv, NEW h \in Hooks, HookStep(h)
    PROVE  EventInv'
<1>1. Fielded /\ StampsOfResults /\ ContextsLate
  BY DEF EventInv
<1>2. h[2] = "pre" => hooks[h].pc \in BeforeCall
  BY <1>1 DEF StampsOfResults
<1>3. hooks[h].context = "none" \/ hooks[h].pc = "claim"
  BY <1>1 DEF ContextsLate, At
<1>4. ASSUME NEW pc, Goto(h, pc), UNCHANGED << stamps, events >>,
             \A u \in Uses : EventMarker(u) \in claims' <=> EventMarker(u) \in claims,
             hooks[h].pc \notin Stamping, pc \notin Stamping \cup {"claim"},
             h[2] = "pre" => pc \in BeforeCall,
             h[2] # "pre" /\ hooks[h].pc \in StampedAt => pc \in StampedAt,
             hooks[h].pc # "claim" \/ pc \in Over
      PROVE  EventInv'
  <2>1. OnlyMoves(h) /\ hooks'[h].pc = pc /\ hooks'[h].context \in {"none", hooks[h].context}
    BY <1>1, <1>4, GotoMoves
  <2>2. hooks'[h].context = "none"
    <3>1. CASE hooks[h].pc # "claim"
      BY <1>3, <2>1, <3>1
    <3>2. CASE pc \in Over
      BY <1>1, <1>4, <3>2 DEF Goto, Idle, Fielded
    <3>3. QED
      BY <1>4, <3>1, <3>2
  <2>3. QED
    BY <1>4, <2>1, <2>2, NoEventKeeps
<1>5. ASSUME NEW r, hooks' = [hooks EXCEPT ![h] = r], Fields \subseteq DOMAIN r,
             UNCHANGED << stamps, events >>,
             \A u \in Uses : EventMarker(u) \in claims' <=> EventMarker(u) \in claims,
             hooks[h].pc \notin Stamping, r.pc \notin Stamping,
             h[2] = "pre" => r.pc \in BeforeCall,
             h[2] # "pre" /\ hooks[h].pc \in StampedAt => r.pc \in StampedAt,
             r.context = "none" \/ r.pc = "claim"
      PROVE  EventInv'
  <2>1. OnlyMoves(h) /\ hooks'[h] = r
    BY <1>1, <1>5, SetMoves
  <2>2. QED
    BY <1>5, <2>1, NoEventKeeps
<1>6. CASE ClaimSlot(h)
  <2>1. hooks[h].pc = "incident" /\ UNCHANGED << stamps, events >>
    BY <1>6 DEF ClaimSlot, At
  <2>2. hooks[h].pc \notin Stamping \cup StampedAt
    BY <2>1 DEF Stamping, StampedAt
  <2>3. \A u \in Uses : EventMarker(u) \in claims' <=> EventMarker(u) \in claims
    BY <1>6 DEF ClaimSlot, EventMarker
  <2>4. CASE FreeSlots = {}
    BY <1>4, <1>6, <2>1, <2>2, <2>3, <2>4 DEF ClaimSlot, Stamping, BeforeCall
  <2>5. CASE FreeSlots # {}
    <3> DEFINE r == [hooks[h] EXCEPT !.pc = "record", !.slot = Min(FreeSlots)]
    <3>1. hooks' = [hooks EXCEPT ![h] = r]
      BY <1>1, <1>6, <2>5 DEF ClaimSlot, Fielded
    <3>2. Fields \subseteq DOMAIN r /\ r.pc = "record" /\ r.context = "none"
      BY <1>1, <1>3, <2>1 DEF Fielded, Fields
    <3> HIDE DEF r
    <3>3. QED
      BY <1>5, <2>1, <2>2, <2>3, <3>1, <3>2 DEF Stamping, BeforeCall, Recording
  <2>6. QED
    BY <2>4, <2>5
<1>7. CASE WriteRecord(h)
  BY <1>4, <1>7 DEF WriteRecord, At, Stamping, StampedAt, BeforeCall
<1>8. CASE FailRecord(h)
  <2>1. /\ hooks[h].pc = "record" /\ UNCHANGED << stamps, events, claims >>
        /\ hooks[h].pc \notin Stamping \cup StampedAt
    BY <1>8 DEF FailRecord, At, Stamping, StampedAt
  <2>2. CASE hooks[h].incident = "guard"
    BY <1>4, <1>8, <2>1, <2>2 DEF FailRecord, Stamping, BeforeCall
  <2>3. CASE hooks[h].incident # "guard"
    <3> DEFINE r == [hooks[h] EXCEPT !.pc = "respond", !.lost = TRUE]
    <3>1. hooks' = [hooks EXCEPT ![h] = r]
      BY <1>1, <1>8, <2>3 DEF FailRecord, Fielded
    <3>2. Fields \subseteq DOMAIN r /\ r.pc = "respond" /\ r.context = "none"
      BY <1>1, <1>3, <2>1 DEF Fielded, Fields
    <3> HIDE DEF r
    <3>3. QED
      BY <1>5, <2>1, <3>1, <3>2 DEF Stamping, BeforeCall
  <2>4. QED
    BY <2>2, <2>3
<1>9. CASE Respond(h)
  <2>1. PICK pc \in {"load", "done"} : Goto(h, pc) /\ (h[2] = "pre" => pc = "done")
    BY <1>9 DEF Respond
  <2>2. /\ hooks[h].pc = "respond" /\ UNCHANGED << stamps, events >>
        /\ hooks[h].pc \notin Stamping \cup StampedAt
    BY <1>9 DEF Respond, At, Stamping, StampedAt
  <2>3. \A u \in Uses : EventMarker(u) \in claims' <=> EventMarker(u) \in claims
    BY <1>9 DEF Respond, EventMarker, Context
  <2>4. QED
    BY <1>4, <2>1, <2>2, <2>3 DEF Stamping, BeforeCall
<1>10. CASE ClaimContext(h)
  <2>1. /\ hooks[h].pc = "claim" /\ UNCHANGED << stamps, events >> /\ Goto(h, "done")
    BY <1>10 DEF ClaimContext, At
  <2>2. \A u \in Uses : EventMarker(u) \in claims' <=> EventMarker(u) \in claims
    BY <1>10 DEF ClaimContext, EventMarker, Context
  <2>3. QED
    BY <1>4, <2>1, <2>2 DEF Stamping, StampedAt, BeforeCall, Over
<1>11. CASE ReadEvents(h)
  <2> DEFINE context == ContextFor(h, Recorded)
             r == [hooks[h] EXCEPT !.pc = IF context = "none" THEN "done" ELSE "claim", !.context = context]
  <2>1. /\ hooks' = [hooks EXCEPT ![h] = r] /\ UNCHANGED << stamps, events, claims >>
        /\ hooks[h].pc = "read"
    BY <1>1, <1>11 DEF ReadEvents, At, Fielded
  <2> HIDE DEF context
  <2>2. Fields \subseteq DOMAIN r /\ r.pc \in {"done", "claim"} /\ (r.context = "none" \/ r.pc = "claim")
    BY <1>1 DEF Fielded, Fields
  <2> HIDE DEF r
  <2>3. h[2] # "pre"
    BY <1>2, <2>1 DEF BeforeCall, Recording
  <2>4. QED
    BY <1>5, <2>1, <2>2, <2>3 DEF Stamping, StampedAt
<1>12. QED
  BY <1>6, <1>7, <1>8, <1>9, <1>10, <1>11, LoadKeepsEvents, ClaimEventKeeps, WriteEventKeeps DEF HookStep

LEMMA EventStep == EventInv /\ [Next]_vars => EventInv'
<1> SUFFICES ASSUME EventInv, [Next]_vars PROVE EventInv'
  OBVIOUS
<1>1. Fielded /\ StampsOfResults /\ ContextsLate
  BY DEF EventInv
<1>2. ASSUME UNCHANGED << stamps, events, hooks >>,
             \A u \in Uses : EventMarker(u) \in claims' <=> EventMarker(u) \in claims
      PROVE  EventInv'
  <2>1. \A h \in Hooks : /\ UseOf(h) \in Uses
                         /\ Stamped(h)' <=> Stamped(h)
                         /\ Keeps(h)' <=> Keeps(h)
    BY <1>2 DEF Hooks, UseOf, Stamped, Keeps, At
  <2>2. Fielded' /\ ContextsLate' /\ StampsOfResults'
    BY <1>1, <1>2, <2>1 DEF Fielded, ContextsLate, StampsOfResults, At
  <2>3. EventsOnce'
    BY <1>2, <2>1 DEF EventInv, EventsOnce, At
  <2>4. QED
    BY <2>2, <2>3 DEF EventInv
<1>3. ASSUME NEW prompt, SubmitPrompt(prompt) \/ FailPrompt(prompt) PROVE EventInv'
  BY <1>2, <1>3 DEF SubmitPrompt, FailPrompt
<1>4. CASE KillPrompt \/ UNCHANGED vars
  BY <1>2, <1>4 DEF KillPrompt, vars
<1>5. CASE ClaimPack
  <2>1. \A u \in Uses : EventMarker(u) \in claims' <=> EventMarker(u) \in claims
    BY <1>5 DEF ClaimPack, EventMarker, Context
  <2>2. QED
    BY <1>2, <1>5, <2>1 DEF ClaimPack
<1>6. ASSUME NEW u \in Uses, Goto(<< u, "pre" >>, "failed"), UNCHANGED << stamps, events, claims >>
      PROVE  EventInv'
  <2> DEFINE pre == << u, "pre" >>
  <2>1. pre \in Hooks /\ pre[2] = "pre"
    BY DEF Hooks
  <2>2. OnlyMoves(pre) /\ hooks'[pre].pc = "failed"
    BY <1>1, <1>6, <2>1, GotoMoves
  <2>3. hooks'[pre].context = "none"
    BY <1>1, <1>6, <2>1 DEF Goto, Over, Idle, Fielded
  <2>4. hooks[pre].pc \notin Stamping
    BY <1>1, <2>1 DEF StampsOfResults, BeforeCall, Recording, Stamping
  <2> HIDE DEF pre
  <2>5. QED
    BY <1>6, <2>1, <2>2, <2>3, <2>4, NoEventKeeps DEF BeforeCall, Stamping
<1>7. ASSUME NEW u \in Uses, NEW tool, AskUnheard(u, tool) \/ Kill(u) PROVE EventInv'
  BY <1>6, <1>7 DEF AskUnheard, Kill
<1>8. ASSUME NEW u \in Uses, NEW tool, NEW decision, Ask(u, tool, decision) PROVE EventInv'
  <2> DEFINE guarded == GuardDenied(tool, setting.guard)
             billed == ~guarded /\ BillableDenied(tool, Authorized)
             incident == IF guarded THEN "guard" ELSE IF billed THEN "none" ELSE decision
             pre == << u, "pre" >>
             hook == [hooks[pre] EXCEPT !.pc = IF incident = "none" THEN "done" ELSE "incident",
                                        !.incident = incident]
  <2>1. pre \in Hooks /\ pre[2] = "pre"
    BY DEF Hooks
  <2>2. hooks' = [hooks EXCEPT ![pre] = hook] /\ UNCHANGED << stamps, events, claims >>
    BY <1>1, <1>8, <2>1 DEF Ask, Fielded
  <2> HIDE DEF guarded, billed, incident
  <2>3. hooks[pre].pc \in BeforeCall /\ hooks[pre].context = "none"
    BY <1>1, <2>1 DEF StampsOfResults, BeforeCall, Recording, ContextsLate, At
  <2>4. Fields \subseteq DOMAIN hook /\ hook.pc \in {"done", "incident"} /\ hook.context = "none"
    BY <1>1, <2>1, <2>3 DEF Fielded, Fields
  <2> HIDE DEF hook, pre
  <2>5. OnlyMoves(pre) /\ hooks'[pre] = hook
    BY <1>1, <2>1, <2>2, <2>4, SetMoves
  <2>6. QED
    BY <2>1, <2>2, <2>3, <2>4, <2>5, NoEventKeeps DEF BeforeCall, Recording, Stamping
<1>9. ASSUME NEW u \in Uses, NEW which \in {"post", "again"}, NEW success, NEW decision,
             Deliver(u, which, success, decision)
      PROVE  EventInv'
  <2> DEFINE h == << u, which >>
             hook == [hooks[h] EXCEPT !.pc = IF decision = "none" THEN "load" ELSE "incident",
                                      !.incident = decision]
  <2>1. h \in Hooks /\ h[2] # "pre"
    BY DEF Hooks
  <2>2. hooks' = [hooks EXCEPT ![h] = hook] /\ UNCHANGED << stamps, events, claims >>
        /\ hooks[h].pc = "idle"
    BY <1>1, <1>9, <2>1 DEF Deliver, Fielded, At
  <2>3. hooks[h].context = "none"
    BY <1>1, <2>1, <2>2 DEF ContextsLate, At
  <2>4. Fields \subseteq DOMAIN hook /\ hook.pc \in {"load", "incident"} /\ hook.context = "none"
    BY <1>1, <2>1, <2>3 DEF Fielded, Fields
  <2> HIDE DEF hook, h
  <2>5. OnlyMoves(h) /\ hooks'[h] = hook
    BY <1>1, <2>1, <2>2, <2>4, SetMoves
  <2>6. QED
    BY <2>1, <2>2, <2>4, <2>5, NoEventKeeps DEF Stamping, StampedAt
<1>10. QED
  BY <1>3, <1>4, <1>5, <1>7, <1>8, <1>9, HookStepEvents DEF Next

\* A finite set of two elements or more has two that differ.
LEMMA TwoOf ==
    ASSUME NEW S, IsFiniteSet(S), Cardinality(S) >= 2
    PROVE  \E i, k \in S : i # k
<1>1. S # {}
  BY FS_EmptySet
<1>2. PICK i \in S : TRUE
  BY <1>1
<1>3. S # {i}
  BY FS_Singleton
<1>4. QED
  BY <1>2, <1>3

\* A hook that reads the files and asks for a verification has found two calls that edited
\* with success, and no verification since the older of them that is over.
LEMMA DebtIsEarned ==
    ASSUME EventInv, NEW h \in Hooks, VerificationDebt(Recorded)
    PROVE  \E i, k \in DOMAIN stamps :
               /\ UseOf(stamps[i]) # UseOf(stamps[k])
               /\ SuccessfulEdit(stamps[i]) /\ SuccessfulEdit(stamps[k])
               /\ ~VerifiedAfter(Min({i, k}))
<1> DEFINE Open == {i \in Recorded : /\ SuccessfulEdit(stamps[i])
                                     /\ \A j \in Recorded : j > i => ~Is(stamps[j], "verification")}
<1>1. StampsOfResults /\ EventsOnce /\ DOMAIN stamps \subseteq Nat /\ IsFiniteSet(DOMAIN stamps)
  <2>1. stamps \in Seq(Hooks)
    BY DEF EventInv, StampsOfResults
  <2>2. DOMAIN stamps = 1..Len(stamps) /\ Len(stamps) \in Nat
    BY <2>1
  <2>3. QED
    BY <2>2, FS_Interval DEF EventInv
<1>2. Cardinality(Open) >= 2
  BY DEF VerificationDebt, DebtEditThreshold
<1>3. Open \subseteq DOMAIN stamps
  BY DEF Recorded
<1>4. IsFiniteSet(Open)
  BY <1>1, <1>3, FS_Subset
<1> HIDE DEF Open
<1>5. PICK i \in Open, k \in Open : i # k
  BY <1>2, <1>4, TwoOf
<1>6. /\ i \in DOMAIN stamps /\ k \in DOMAIN stamps
      /\ stamps[i] \in events /\ stamps[k] \in events
      /\ SuccessfulEdit(stamps[i]) /\ SuccessfulEdit(stamps[k])
  BY DEF Open, Recorded
<1>7. UseOf(stamps[i]) # UseOf(stamps[k])
  <2>1. stamps[i] # stamps[k]
    BY <1>1, <1>5, <1>6 DEF StampsOfResults
  <2>2. QED
    BY <1>1, <1>6, <2>1 DEF EventsOnce, Keeps
<1> DEFINE first == Min({i, k})
<1>8. first \in Open
  <2>1. {i, k} \in SUBSET Nat
    BY <1>1, <1>6
  <2>2. first \in {i, k}
    BY <2>1, MinElement
  <2>3. QED
    BY <2>2
<1> HIDE DEF first
<1>9. ASSUME VerifiedAfter(first) PROVE FALSE
  <2>1. PICK u \in Uses :
           /\ \E j \in DOMAIN stamps : UseOf(stamps[j]) = u /\ Is(stamps[j], "verification")
           /\ \A j \in DOMAIN stamps : UseOf(stamps[j]) = u => j > first
           /\ \A which \in {"post", "again"} : hooks[<< u, which >>].pc \in {"idle", "done"}
    BY <1>9 DEF VerifiedAfter
  <2>2. PICK j \in DOMAIN stamps : UseOf(stamps[j]) = u /\ Is(stamps[j], "verification")
    BY <2>1
  <2>3. \A g \in Hooks : UseOf(g) = u /\ g[2] # "pre" => hooks[g].pc \in {"idle", "done"}
    <3>1. \A g \in Hooks : UseOf(g) = u /\ g[2] # "pre" => g = << u, "post" >> \/ g = << u, "again" >>
      BY DEF Hooks, UseOf
    <3>2. QED
      BY <2>1, <3>1
  <2>4. stamps[j] \in Hooks /\ Stamped(stamps[j]) /\ ~At(stamps[j], "event")
    BY <1>1, <2>2, <2>3 DEF StampsOfResults, Stamped, At
  <2>5. PICK g \in Hooks : UseOf(g) = u /\ Keeps(g)
    BY <1>1, <2>2, <2>4 DEF EventsOnce
  <2>6. g \in events
    <3>1. CASE At(g, "write")
      <4>1. g[2] # "pre"
        BY <1>1, <3>1 DEF StampsOfResults, BeforeCall, Recording, At
      <4>2. QED
        BY <2>3, <2>5, <3>1, <4>1 DEF At
    <3>2. QED
      BY <2>5, <3>1 DEF Keeps
  <2>7. PICK l \in DOMAIN stamps : stamps[l] = g
    BY <1>1, <2>6 DEF EventsOnce, Stamped
  <2>8. l \in Recorded /\ l > first /\ Is(stamps[l], "verification")
    BY <2>1, <2>2, <2>5, <2>6, <2>7 DEF Recorded, Is, ToolOf
  <2>9. QED
    BY <1>8, <2>8 DEF Open
<1>10. QED
  BY <1>6, <1>7, <1>9 DEF first

LEMMA EventInit == Init => EventInv
<1> SUFFICES ASSUME Init PROVE EventInv
  OBVIOUS
<1>1. /\ \A h \in Hooks : hooks[h].pc = "idle" /\ hooks[h].context = "none" /\ Fields \subseteq DOMAIN hooks[h]
      /\ DOMAIN hooks = Hooks /\ stamps = << >> /\ claims = {} /\ events = {}
  BY DEF Init, Idle, Fields
<1>2. Fielded /\ ContextsLate
  BY <1>1 DEF Fielded, ContextsLate
<1>3. StampsOfResults
  BY <1>1 DEF StampsOfResults, BeforeCall, Recording, Stamping
<1>4. EventsOnce
  BY <1>1 DEF EventsOnce, Keeps, Stamped, At
<1>5. QED
  BY <1>2, <1>3, <1>4 DEF EventInv

\* A hook asks for a verification only when two different calls have edited with success
\* since the last verification that is over, however the hooks of the turn interleave.
THEOREM TurnDebtEarned == Spec => DebtEarned
<1>1. Init => EventInv
  BY EventInit
<1>2. EventInv /\ [Next]_vars =>
          \A h \in Hooks : At(h, "read") /\ hooks'[h].context = "debt" =>
              \E i, k \in DOMAIN stamps :
                  /\ UseOf(stamps[i]) # UseOf(stamps[k])
                  /\ SuccessfulEdit(stamps[i]) /\ SuccessfulEdit(stamps[k])
                  /\ ~VerifiedAfter(Min({i, k}))
  <2> SUFFICES ASSUME EventInv, [Next]_vars, NEW h \in Hooks, At(h, "read"), hooks'[h].context = "debt"
               PROVE  VerificationDebt(Recorded)
    BY DebtIsEarned
  <2>1. EventInv'
    BY EventStep
  <2>2. hooks'[h].pc = "claim" /\ hooks[h].pc = "read" /\ Fielded
    BY <2>1 DEF EventInv, ContextsLate, At
  <2>3. ReadEvents(h)
    BY <2>2, ReadsBeforeClaim
  <2>4. hooks'[h].context = ContextFor(h, Recorded)
    BY <2>2, <2>3 DEF ReadEvents, Fielded, Fields
  <2>5. QED
    BY <2>4 DEF ContextFor
<1>3. QED
  BY <1>1, <1>2, EventStep, PTL DEF Spec, DebtEarned

-----------------------------------------------------------------------------
(* What the files of a turn hold *)

\* Whatever its signals, a prompt is routed to a contract of the table or to none.
LEMMA RoutedContract ==
    ASSUME NEW prompt, IsPrompt(prompt)
    PROVE  RoutePrompt(prompt).contract \in Contracts \cup {NoContract}
<1> DEFINE leaders == {c \in Contracts : Leads(prompt, c)}
           led == CHOOSE c \in leaders : TRUE
<1>1. prompt.control \in {"none", "off", PassThrough, "unknown"} \cup Routes
  BY DEF IsPrompt, Controls
<1>2. CASE prompt.control \in Routes \cup {"off", PassThrough, "unknown"}
  BY <1>1, <1>2 DEF RoutePrompt, Decided
<1>3. CASE prompt.control = "none" /\ (prompt.explains \/ ~prompt.acts \/ leaders = {})
  BY <1>3 DEF RoutePrompt, Decided
<1>4. CASE /\ prompt.control = "none" /\ ~prompt.explains /\ prompt.acts /\ leaders # {}
           /\ prompt.control \notin Routes \cup {"off", PassThrough, "unknown"}
  <2>1. led \in Contracts
    BY <1>4
  <2>2. RoutePrompt(prompt).contract = led
    BY <1>4 DEF RoutePrompt, Decided
  <2>3. QED
    BY <2>1, <2>2
<1>5. QED
  BY <1>1, <1>2, <1>3, <1>4

\* The parts of the type no earlier invariant holds.
FilesInv == RequestTypeOK /\ claims \subseteq Markers /\ faults \in 0..setting.faults

LEMMA RequestTyped ==
    ASSUME setting \in Sessions, NEW prompt \in setting.prompts
    PROVE  Request(prompt) \in [billable : BOOLEAN, contract : Contracts \cup {NoContract},
                                observed : BOOLEAN, quality : QualityModes,
                                model : ModelProfiles \cup {Absent}]
<1>1. IsPrompt(prompt) /\ setting.quality \in QualityModes /\ setting.model \in ModelProfiles
  BY TurnAssumption
<1>2. RoutePrompt(prompt).contract \in Contracts \cup {NoContract}
  BY <1>1, RoutedContract
<1>3. BillableAuthorized(prompt) \in BOOLEAN
  BY DEF BillableAuthorized
<1>4. QED
  BY <1>1, <1>2, <1>3 DEF Request

LEMMA FilesStep ==
    ASSUME Shapes, FilesInv, [Next]_vars
    PROVE  FilesInv'
<1>1. /\ setting' = setting /\ setting \in Sessions /\ setting.faults \in Nat
      /\ RequestTypeOK /\ claims \subseteq Markers /\ faults \in 0..setting.faults
  BY SettingKept, TurnAssumption DEF Shapes, FilesInv
<1> DEFINE more == faults < setting.faults /\ faults' = faults + 1
<1>2. faults' = faults \/ more
  <2>1. ASSUME NEW prompt, FailPrompt(prompt) \/ KillPrompt PROVE more
    BY <2>1 DEF FailPrompt, KillPrompt
  <2>2. ASSUME NEW u, NEW tool, AskUnheard(u, tool) \/ Kill(u) PROVE more
    BY <2>2 DEF AskUnheard, Kill
  <2>3. ASSUME NEW u, NEW which, NEW success, NEW decision, Deliver(u, which, success, decision)
        PROVE  faults' = faults \/ more
    BY <2>3 DEF Deliver
  <2>4. ASSUME NEW h, FailRecord(h) PROVE more
    BY <2>4 DEF FailRecord
  <2> HIDE DEF more
  <2>5. ASSUME NEW prompt, SubmitPrompt(prompt) \/ ClaimPack PROVE faults' = faults
    BY <2>5 DEF SubmitPrompt, ClaimPack
  <2>6. ASSUME NEW u, NEW tool, NEW decision, Ask(u, tool, decision) PROVE faults' = faults
    BY <2>6 DEF Ask
  <2>7. ASSUME NEW h, HookStep(h), ~FailRecord(h) PROVE faults' = faults
    BY <2>7 DEF HookStep, ClaimSlot, WriteRecord, Respond, Load, ClaimEvent, WriteEvent, ReadEvents,
                ClaimContext
  <2>8. CASE UNCHANGED vars
    BY <2>8 DEF vars
  <2>9. QED
    BY <2>1, <2>2, <2>3, <2>4, <2>5, <2>6, <2>7, <2>8 DEF Next
<1>3. faults' \in 0..setting'.faults
  BY <1>1, <1>2
<1>4. RequestTypeOK'
  <2>1. \/ request' = request
        \/ \E prompt \in setting.prompts : request' = Request(prompt)
    BY DEF Next, SubmitPrompt, FailPrompt, ClaimPack, KillPrompt, Ask, Kill, AskUnheard, Deliver,
       HookStep, ClaimSlot, WriteRecord, FailRecord, Respond, Load, ClaimEvent, WriteEvent, ReadEvents,
       ClaimContext, vars
  <2>2. QED
    BY <1>1, <2>1, RequestTyped DEF RequestTypeOK
<1>5. claims' \subseteq Markers'
  <2>1. Markers' = Markers /\ \A channel \in Channels : Context(channel) \in Markers
    BY DEF Markers, Context
  <2>2. CASE ClaimPack
    BY <1>1, <2>1, <2>2 DEF ClaimPack, Channels
  <2>3. ASSUME NEW h \in Hooks, HookStep(h) PROVE claims' \subseteq Markers
    <3>1. CASE ClaimSlot(h)
      <4> DEFINE free == FreeSlots
      <4>1. free \subseteq 1..AuditSlots /\ free \in SUBSET Nat
        BY TurnAssumption DEF FreeSlots
      <4> HIDE DEF free
      <4>2. free # {} => Min(free) \in 1..AuditSlots
        BY <4>1, MinElement
      <4>3. QED
        BY <1>1, <3>1, <4>2 DEF ClaimSlot, Markers, free
    <3>2. CASE Respond(h) \/ ClaimContext(h)
      BY <1>1, <2>1, <3>2 DEF Respond, ClaimContext, Channels
    <3>3. CASE ClaimEvent(h)
      BY <1>1, <3>3 DEF ClaimEvent, Markers, UseOf, Hooks
    <3>4. CASE \/ WriteRecord(h) \/ FailRecord(h) \/ Load(h) \/ WriteEvent(h) \/ ReadEvents(h)
      BY <1>1, <3>4 DEF WriteRecord, FailRecord, Load, WriteEvent, ReadEvents
    <3>5. QED
      BY <2>3, <3>1, <3>2, <3>3, <3>4 DEF HookStep
  <2>4. CASE ~ClaimPack /\ \A h \in Hooks : ~HookStep(h)
    <3>1. claims' = claims
      BY <2>4 DEF Next, SubmitPrompt, FailPrompt, KillPrompt, Ask, Kill, AskUnheard, Deliver, vars
    <3>2. QED
      BY <1>1, <2>1, <3>1
  <2>5. QED
    BY <2>1, <2>2, <2>3, <2>4
<1>6. QED
  BY <1>3, <1>4, <1>5 DEF FilesInv

\* Each file of a turn holds what its writer puts there, whatever the prompts and the
\* tool calls are, and however many hooks write side by side.
THEOREM TurnTypeCorrect == Spec => []TurnTypeOK
<1>1. Init => ApprovalInv /\ AuditInv /\ EventInv /\ FilesInv
  <2>1. Init => FilesInv
    BY TurnAssumption DEF Init, FilesInv, RequestTypeOK
  <2>2. QED
    BY <2>1, ApprovalInit, AuditInit, EventInit
<1>2. ApprovalInv /\ AuditInv /\ EventInv /\ FilesInv /\ [Next]_vars =>
          ApprovalInv' /\ AuditInv' /\ EventInv' /\ FilesInv'
  BY ApprovalStep, AuditStep, EventStep, FilesStep DEF ApprovalInv
<1>3. ApprovalInv /\ AuditInv /\ EventInv /\ FilesInv => TurnTypeOK
  <2> SUFFICES ASSUME ApprovalInv, AuditInv, EventInv, FilesInv PROVE TurnTypeOK
    OBVIOUS
  <2>1. stamps \in Seq(Hooks) /\ \A h \in events : \E i \in DOMAIN stamps : stamps[i] = h
    BY DEF EventInv, StampsOfResults, EventsOnce, Stamped
  <2>2. events \subseteq Range(stamps) /\ Range(stamps) \subseteq Hooks
    BY <2>1 DEF Range
  <2>3. QED
    BY <2>2 DEF TurnTypeOK, FilesInv, ApprovalInv, Shapes, AuditInv, SlotsMarked
<1>4. QED
  BY <1>1, <1>2, <1>3, PTL DEF Spec
=============================================================================
