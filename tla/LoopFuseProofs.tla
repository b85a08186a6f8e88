--------------------------- MODULE LoopFuseProofs ---------------------------
(***************************************************************************)
(* Theorems about LoopFuse for any number of slots, calls, agents and any  *)
(* limits of the policy, checked by TLAPS.                                 *)
(*                                                                         *)
(* None of the properties is inductive.  Each is strengthened by a relation*)
(* between what the turn did and what the ledger remembers of it:          *)
(*   MemoryInv    a verifier reported since the last edit is remembered    *)
(*   FaithfulInv  only reported verifiers are, or there are too many       *)
(*   WarnedInv    a warning that was issued is claimed in the ledger       *)
(*   SpokenInv    a claimed warning was issued, a long streak claimed it   *)
(*   TidyInv      one record of a fingerprint, from the present epoch      *)
(*   TriedInv     what is recorded was reported since the last edit        *)
(*   StreakInv    a streak and the calls in flight that may lengthen it    *)
(*   CourseInv    the compactions counted and the outcomes seen last       *)
(*   BudgetInv    a child granted by the fuse is counted in the ledger     *)
(*   ReservedInv  until one is gone, they are reserved or active           *)
(* The bounds allow for one more for each PreToolUse hook that failed.     *)
(* The first group of lemmas says that whatever a hook persists advances   *)
(* the ledger (Advances), except that a successful edit forgets what was   *)
(* observed and that a prompt starts a fresh ledger; the second, from      *)
(* PersistedCurrent on, which ledger exactly each step leaves.             *)
(***************************************************************************)
EXTENDS LoopFuse, LoopPolicyLemmas

\* What every hook but that of a prompt preserves.
Kept ==
    /\ Current'.total_agents >= Current.total_agents
    /\ Current.warned => Current'.warned
    /\ Current.terminal => UNCHANGED ledger

\* What every hook but those of a successful edit and of a prompt preserves.
Advances ==
    /\ Kept
    /\ \A v \in Fingerprints : Remembered(Current, v) => Remembered(Current', v)

LedgerOK == ledger \in Ledgers \cup {Absent} /\ (ledger # Absent => Persistable(ledger))

-----------------------------------------------------------------------------
(***************************************************************************)
(* The ledger file.                                                        *)
(***************************************************************************)
\* The ledger of a new turn is well formed and may be written.
LEMMA FreshLedgerSound ==
    ASSUME NEW now \in Nat
    PROVE  FreshLedger(now) \in Ledgers /\ Persistable(FreshLedger(now))
<1>1. << >> \in Seq(ActionRecords) /\ << >> \in Seq(Fingerprints \cup {OverflowMark})
  OBVIOUS
<1>2. FreshLedger(now) \in Ledgers
  BY <1>1 DEF FreshLedger, Ledgers
<1>3. Cardinality({}) = 0
  BY FS_EmptySet
<1>4. /\ FreshLedger(now).actions = << >>
      /\ FreshLedger(now).verifier_results = << >>
      /\ FreshLedger(now).active_agents = {}
  BY DEF FreshLedger
<1>5. Persistable(FreshLedger(now))
  BY <1>3, <1>4, LimitsAssumption DEF Persistable
<1>6. QED
  BY <1>2, <1>5

\* The ledger a hook works on is well formed, whether or not the file exists.
LEMMA CurrentSound ==
    ASSUME TypeOK PROVE Current \in Ledgers /\ Persistable(Current)
BY FreshLedgerSound DEF TypeOK, Current

\* What a hook may persist: the file stays readable and the ledger advances.
LEMMA PersistAdvances ==
    ASSUME TypeOK, NEW result, Sound(result), Monotone(Current, result), Persist(result),
           UNCHANGED clock
    PROVE  LedgerOK' /\ Advances
<1>1. Current \in Ledgers /\ result.ledger \in Ledgers
  BY CurrentSound DEF Sound
<1>2. CASE Persistable(result.ledger)
  <2>1. ledger' = result.ledger /\ ledger' # Absent
    BY <1>1, <1>2, NullsAssumption DEF Persist
  <2>2. Current' = result.ledger
    BY <2>1 DEF Current
  <2>3. Current.terminal => UNCHANGED ledger
    <3>1. CASE ledger = Absent
      BY <3>1 DEF Current, FreshLedger
    <3>2. CASE ledger # Absent
      BY <2>1, <3>2 DEF Current, Monotone
    <3>3. QED
      BY <3>1, <3>2
  <2>4. QED
    BY <1>1, <1>2, <2>1, <2>2, <2>3 DEF Advances, Kept, LedgerOK, Monotone, Claimed, Remembered
<1>3. CASE ~Persistable(result.ledger)
  <2>1. UNCHANGED << ledger, clock >>
    BY <1>3 DEF Persist
  <2>2. Current' = Current
    BY <2>1 DEF Current
  <2>3. Current.total_agents \in Nat
    BY <1>1 DEF Ledgers
  <2>4. QED
    BY <2>1, <2>2, <2>3 DEF Advances, Kept, LedgerOK, TypeOK, Remembered
<1>4. QED
  BY <1>2, <1>3

\* A step that leaves the file alone, the passing of time included.
LEMMA StutterAdvances ==
    ASSUME TypeOK, UNCHANGED ledger, clock' \in Nat
    PROVE  LedgerOK' /\ Advances
<1>1. Current.total_agents \in Nat /\ LedgerOK'
  BY CurrentSound DEF Ledgers, LedgerOK, TypeOK
<1>2. CASE ledger = Absent
  <2>1. Current = FreshLedger(clock) /\ Current' = FreshLedger(clock')
    BY <1>2 DEF Current
  <2>2. /\ Current'.total_agents = Current.total_agents
        /\ Current'.warned = Current.warned
        /\ Current'.verifier_results = Current.verifier_results
    BY <2>1 DEF FreshLedger
  <2>3. QED
    BY <1>1, <2>2 DEF Advances, Kept, Remembered
<1>3. CASE ledger # Absent
  <2>1. Current' = Current
    BY <1>3 DEF Current
  <2>2. QED
    BY <1>1, <2>1 DEF Advances, Kept, Remembered
<1>4. QED
  BY <1>2, <1>3

\* A prompt starts a fresh ledger or leaves a turn without one.
LEMMA ResetLedgerOK ==
    ASSUME TypeOK, ledger' = IF ledger = Absent THEN Absent ELSE FreshLedger(clock)
    PROVE  LedgerOK'
BY FreshLedgerSound DEF TypeOK, LedgerOK

\* The tool and compaction hooks warn once they have saved the claim of the warning.
LEMMA RespondWarns ==
    ASSUME TypeOK, NEW result, Sound(result), Claimed(Current, result), Respond(result),
           UNCHANGED clock
    PROVE  /\ warnings' \in 0 .. MaxWarnings
           /\ warnings' # warnings => warnings' = warnings + 1 /\ ~Current.warned /\ Current'.warned
<1>1. warnings \in 0 .. MaxWarnings
  BY DEF TypeOK
<1>2. CASE warnings' = warnings
  BY <1>1, <1>2
<1>3. CASE warnings' # warnings
  <2>1. /\ Persistable(result.ledger)
        /\ result.decision = "warn_once"
        /\ warnings < MaxWarnings
        /\ warnings' = warnings + 1
    BY <1>3 DEF Respond
  <2>2. ledger' = result.ledger /\ ledger' # Absent
    BY <2>1, NullsAssumption DEF Respond, Persist, Sound
  <2>3. Current' = result.ledger
    BY <2>2 DEF Current
  <2>4. QED
    BY <1>1, <2>1, <2>3 DEF Claimed, MaxWarnings
<1>4. QED
  BY <1>2, <1>3

-----------------------------------------------------------------------------
(***************************************************************************)
(* The hooks.                                                              *)
(***************************************************************************)
WarningStep ==
    /\ warnings' \in 0 .. MaxWarnings
    /\ warnings' # warnings => warnings' = warnings + 1 /\ ~Current.warned /\ Current'.warned

\* The calls the model makes are calls the policy knows.
LEMMA CallTypes ==
    /\ \A call \in Calls : call.kind \in Kinds /\ FingerprintOf(call) \in Fingerprints
    /\ TypeOK => \A s \in Slots : calls[s] # NoCall =>
                    /\ calls[s] \in Running
                    /\ calls[s].call \in Calls
                    /\ calls[s].child \in Agents \cup {NoAgent}
BY CallsAssumption DEF TypeOK, Running

\* PreToolUse: the ledger advances, and a call that is let through was not remembered,
\* was not made in a stopped turn, and is counted when it spawns a child.
LEMMA PreToolAdvances ==
    ASSUME TypeOK, NEW s \in Slots, NEW call \in Calls, NEW isChild \in BOOLEAN,
           PreTool(s, call, isChild)
    PROVE  LET decision ==
                 BeforeTool(Current, FingerprintOf(call), call.kind, isChild, clock).decision
           IN  /\ LedgerOK' /\ Advances /\ WarningStep
               /\ LetsRun(decision) =>
                     /\ ~Current.terminal
                     /\ call.kind = "verifier" => ~Remembered(Current, FingerprintOf(call))
                     /\ call.kind = "spawn" =>
                           /\ Current.total_agents < MaxTotalAgents
                           /\ Current'.total_agents = Current.total_agents + 1
<1> DEFINE result == BeforeTool(Current, FingerprintOf(call), call.kind, isChild, clock)
<1>1. /\ Sound(result) /\ Persistable(result.ledger) /\ Monotone(Current, result)
      /\ LetsRun(result.decision) =>
            /\ ~Current.terminal
            /\ call.kind = "verifier" => ~Remembered(Current, FingerprintOf(call))
            /\ call.kind = "spawn" =>
                  /\ Current.total_agents < MaxTotalAgents
                  /\ result.ledger.total_agents = Current.total_agents + 1
  BY CurrentSound, CallTypes, BeforeToolSound DEF TypeOK
<1>2. Respond(result) /\ UNCHANGED clock
  BY DEF PreTool
<1> HIDE DEF result
<1>3. LedgerOK' /\ Advances
  BY <1>1, <1>2, PersistAdvances DEF Respond
<1>4. WarningStep
  BY <1>1, <1>2, RespondWarns DEF Monotone, WarningStep
<1>5. Current' = result.ledger
  BY <1>1, <1>2, NullsAssumption DEF Respond, Persist, Sound, Current
<1>6. QED
  BY <1>1, <1>3, <1>4, <1>5 DEF result

\* A decision that keeps a tool from running changes nothing in the ledger.
LEMMA DenialKeepsLedger ==
    ASSUME NEW led, NEW fp, NEW kind, NEW isChild, NEW now,
           ~LetsRun(BeforeTool(led, fp, kind, isChild, now).decision)
    PROVE  BeforeTool(led, fp, kind, isChild, now).ledger = led
BY DEF BeforeTool, BeforeSpawn, ElapsedWarned, Result, LetsRun

\* PreToolUse whose hook fails: the ledger says what it said before.
LEMMA UnheardAdvances ==
    ASSUME TypeOK, NEW s \in Slots, NEW call \in Calls, NEW isChild \in BOOLEAN,
           PreToolUnheard(s, call, isChild)
    PROVE  /\ LedgerOK' /\ Advances
           /\ Current' = Current
           /\ UNCHANGED << clock, history, warnings >>
           /\ unheard' = unheard + 1
<1> DEFINE result == BeforeTool(Current, FingerprintOf(call), call.kind, isChild, clock)
<1>1. UNCHANGED << clock, history, warnings >> /\ unheard' = unheard + 1
  BY DEF PreToolUnheard
<1>2. Current \in Ledgers /\ Persistable(Current) /\ clock \in Nat
  BY CurrentSound DEF TypeOK
<1>3. CASE UNCHANGED ledger
  <2>1. Current' = Current
    BY <1>1, <1>3 DEF Current
  <2>2. QED
    BY <1>1, <1>2, <1>3, <2>1, StutterAdvances
<1>4. CASE ~LetsRun(result.decision) /\ Persist(result)
  <2>1. result.ledger = Current
    BY <1>4, DenialKeepsLedger
  <2>2. ledger' = Current
    BY <1>2, <1>4, <2>1 DEF Persist
  <2>3. Current' = Current /\ ledger' # Absent
    BY <1>2, <2>2, NullsAssumption DEF Current
  <2>4. Current.terminal => UNCHANGED ledger
    BY <2>2 DEF Current, FreshLedger
  <2>5. Current.total_agents \in Nat
    BY <1>2 DEF Ledgers
  <2>6. LedgerOK' /\ Advances
    BY <1>2, <2>2, <2>3, <2>4, <2>5 DEF LedgerOK, Advances, Kept
  <2>7. QED
    BY <1>1, <2>3, <2>6
<1>5. QED
  BY <1>3, <1>4 DEF PreToolUnheard

\* PostToolUse of a successful edit: the agents counted and the claim are kept.
LEMMA PostEditKeeps ==
    ASSUME TypeOK, NEW s \in Slots, PostEdit(s)
    PROVE  LedgerOK' /\ Kept /\ WarningStep
<1> DEFINE fp == FingerprintOf(calls[s].call)
           result == AfterTool(Current, fp, "edit", "pass", clock)
<1>1. Current \in Ledgers /\ Persistable(Current) /\ clock \in Nat
  BY CurrentSound DEF TypeOK
<1>2. Respond(result) /\ UNCHANGED clock
  BY DEF PostEdit
<1>3. CASE Current.terminal
  <2>1. result = Result(Current, "stop_turn")
    BY <1>3 DEF AfterTool
  <2>2. Sound(result) /\ Monotone(Current, result)
    BY <1>1, <2>1, StopSound
  <2> HIDE DEF result
  <2>3. QED
    BY <1>2, <2>2, PersistAdvances, RespondWarns DEF Respond, Advances, Monotone, WarningStep
<1>4. CASE ~Current.terminal
  <2>1. result.ledger = AfterEdit(Current, clock) /\ result.decision = "pass"
    BY <1>4 DEF AfterTool, Result
  <2>2. /\ result.ledger \in Ledgers
        /\ Persistable(result.ledger)
        /\ result.ledger.total_agents = Current.total_agents
        /\ result.ledger.warned = Current.warned
    BY <1>1, <2>1, AfterEditSound
  <2> HIDE DEF result
  <2>3. ledger' = result.ledger /\ Current' = result.ledger /\ ledger' # Absent
    BY <1>2, <2>2, NullsAssumption DEF Respond, Persist, Current
  <2>4. warnings' = warnings
    BY <1>2, <2>1 DEF Respond
  <2>5. Current.total_agents \in Nat
    BY <1>1 DEF Ledgers
  <2>6. QED
    BY <1>4, <2>2, <2>3, <2>4, <2>5 DEF LedgerOK, Kept, WarningStep, TypeOK
<1>5. QED
  BY <1>3, <1>4

\* PostToolUse of any other outcome: a verifier is remembered unless the turn is stopped.
LEMMA PostToolAdvances ==
    ASSUME TypeOK, NEW s \in Slots, NEW outcome \in Outcomes, PostTool(s, outcome)
    PROVE  /\ LedgerOK' /\ Advances /\ WarningStep
           /\ calls[s].call.kind = "verifier" =>
                 Current.terminal \/ Remembered(Current', FingerprintOf(calls[s].call))
<1> DEFINE call == calls[s].call
           fp == FingerprintOf(call)
           result == AfterTool(Current, fp, call.kind, outcome, clock)
<1>1. Current \in Ledgers /\ Persistable(Current) /\ clock \in Nat
  BY CurrentSound DEF TypeOK
<1>2. Respond(result) /\ UNCHANGED clock /\ ~(call.kind = "edit" /\ outcome = "pass")
  BY DEF PostTool
<1>3. fp \in Fingerprints /\ call.kind \in Kinds
  BY CallTypes DEF PostTool
<1>4. CASE Current.terminal
  <2>1. result = Result(Current, "stop_turn")
    BY <1>4 DEF AfterTool
  <2>2. Sound(result) /\ Monotone(Current, result)
    BY <1>1, <2>1, StopSound
  <2> HIDE DEF result
  <2>3. QED
    BY <1>2, <1>4, <2>2, PersistAdvances, RespondWarns DEF Respond, Monotone, WarningStep
<1>5. CASE ~Current.terminal
  <2>1. result = AfterOther(Current, fp, call.kind, outcome, clock)
    BY <1>2, <1>5 DEF AfterTool
  <2>2. /\ Sound(result) /\ Persistable(result.ledger) /\ Monotone(Current, result)
        /\ call.kind = "verifier" => Remembered(result.ledger, fp)
    BY <1>1, <1>3, <1>5, <2>1, AfterOtherSound
  <2> HIDE DEF result
  <2>3. LedgerOK' /\ Advances
    BY <1>2, <2>2, PersistAdvances DEF Respond
  <2>4. WarningStep
    BY <1>2, <2>2, RespondWarns DEF Monotone, WarningStep
  <2>5. Current' = result.ledger
    BY <1>2, <2>2, NullsAssumption DEF Respond, Persist, Sound, Current
  <2>6. (call.kind = "verifier") => Remembered(Current', FingerprintOf(call))
    BY <2>2, <2>5
  <2>7. QED
    BY <2>3, <2>4, <2>6
<1>6. QED
  BY <1>4, <1>5

\* The hooks of a child's start and stop, those that were lost included.
LEMMA ChildAdvances ==
    ASSUME TypeOK, NEW a \in Agents, SubagentStart(a) \/ SubagentStop(a)
    PROVE  LedgerOK' /\ Advances
<1>1. Current \in Ledgers /\ Persistable(Current) /\ clock \in Nat /\ UNCHANGED clock
  BY CurrentSound DEF TypeOK, SubagentStart, SubagentStop
<1>2. CASE Persist(SubagentStarted(Current, a, clock))
  BY <1>1, <1>2, SubagentStartedSound, PersistAdvances
<1>3. CASE Persist(SubagentStopped(Current, a, clock))
  BY <1>1, <1>3, SubagentStoppedSound, PersistAdvances
<1>4. CASE UNCHANGED ledger
  BY <1>1, <1>4, StutterAdvances
<1>5. QED
  BY <1>2, <1>3, <1>4 DEF SubagentStart, SubagentStop

\* The compaction hooks.
LEMMA CompactAdvances ==
    ASSUME TypeOK, NEW phase, NEW trigger, Compact(phase, trigger)
    PROVE  LedgerOK' /\ Advances /\ WarningStep
<1> DEFINE result == Compacted(Current, phase, trigger, clock)
<1>1. Current \in Ledgers /\ Persistable(Current) /\ clock \in Nat
  BY CurrentSound DEF TypeOK
<1>2. Sound(result) /\ Monotone(Current, result)
  BY <1>1, CompactedSound
<1>3. Respond(result) /\ UNCHANGED clock
  BY DEF Compact
<1> HIDE DEF result
<1>4. QED
  BY <1>2, <1>3, PersistAdvances, RespondWarns DEF Respond, Monotone, WarningStep

\* What is left: a lost result, a tick of the clock and a step of something else.
LEMMA QuietAdvances ==
    ASSUME TypeOK, (\E s \in Slots : LostResult(s)) \/ Tick \/ UNCHANGED vars
    PROVE  LedgerOK' /\ Advances /\ UNCHANGED << children, spent, history, warnings >>
<1>1. UNCHANGED ledger /\ clock' \in Nat
  BY DEF LostResult, Tick, vars, TypeOK
<1>2. QED
  BY <1>1, StutterAdvances DEF LostResult, Tick, vars, history

-----------------------------------------------------------------------------
(***************************************************************************)
(* Type correctness.                                                       *)
(***************************************************************************)
\* Forgetting what was reported gives histories of the right type.
LEMMA ForgetType ==
    ASSUME Forget
    PROVE  /\ reported' \in [Verifiers -> {"no", "yes"}]
           /\ verdict' \in [Verifiers -> Outcomes \cup {"none"}]
           /\ tried' \subseteq Calls
           /\ idle' \in 0 .. MaxReplayStreak
BY LimitsAssumption DEF Forget

HostOK ==
    /\ clock \in Nat
    /\ calls \in [Slots -> Running \cup {NoCall}]
    /\ children \in [Agents -> Lives]
    /\ spent \subseteq Agents
    /\ unheard \in 0 .. MaxUnheard

HistoryOK ==
    /\ reported \in [Verifiers -> {"no", "yes"}]
    /\ verdict \in [Verifiers -> Outcomes \cup {"none"}]
    /\ tried \subseteq Calls
    /\ idle \in 0 .. MaxReplayStreak

\* The type invariant holds of a turn that begins.
LEMMA FuseInitType == Init => TypeOK
BY LimitsAssumption, BoundsAssumption DEF Init, TypeOK, Lives, MaxWarnings

\* ... and every step preserves it.
LEMMA FuseStepType == TypeOK /\ [Next]_vars => TypeOK'
<1> SUFFICES ASSUME TypeOK, [Next]_vars PROVE TypeOK'
  OBVIOUS
<1>1. TypeOK' <=> LedgerOK' /\ HostOK' /\ HistoryOK' /\ warnings' \in 0 .. MaxWarnings
  BY DEF TypeOK, LedgerOK, HostOK, HistoryOK
<1>2. HostOK /\ HistoryOK /\ warnings \in 0 .. MaxWarnings
  BY DEF TypeOK, HostOK, HistoryOK
<1>3. ASSUME NEW s \in Slots, NEW call \in Calls, NEW isChild \in BOOLEAN,
             PreTool(s, call, isChild)
      PROVE  TypeOK'
  <2>1. LedgerOK' /\ warnings' \in 0 .. MaxWarnings
    BY <1>3, PreToolAdvances DEF WarningStep
  <2>2. HistoryOK'
    BY <1>2, <1>3 DEF PreTool, history, HistoryOK
  <2>3. ASSUME NEW a \in Agents \cup {NoAgent}
        PROVE  [call |-> call, child |-> a] \in Running
    BY DEF Running
  <2>4. HostOK'
    BY <1>2, <1>3, <2>3 DEF PreTool, Launch, HostOK, Lives
  <2>5. QED
    BY <1>1, <2>1, <2>2, <2>4
<1>4. ASSUME NEW s \in Slots, PostEdit(s) PROVE TypeOK'
  <2>1. LedgerOK' /\ warnings' \in 0 .. MaxWarnings
    BY <1>4, PostEditKeeps DEF WarningStep
  <2>2. HistoryOK'
    BY <1>2, <1>4, ForgetType DEF PostEdit, history, HistoryOK
  <2>3. HostOK'
    BY <1>2, <1>4 DEF PostEdit, HostOK
  <2>4. QED
    BY <1>1, <2>1, <2>2, <2>3
<1>5. ASSUME NEW s \in Slots, NEW outcome \in Outcomes, PostTool(s, outcome) PROVE TypeOK'
  <2>1. LedgerOK' /\ warnings' \in 0 .. MaxWarnings
    BY <1>5, PostToolAdvances DEF WarningStep
  <2>2. calls[s].call \in Calls
    BY <1>5, CallTypes DEF PostTool
  <2>3. HistoryOK'
    <3>1. tried' \subseteq Calls
      BY <1>2, <1>5, <2>2 DEF PostTool, HistoryOK
    <3>2. /\ reported' \in [Verifiers -> {"no", "yes"}]
          /\ verdict' \in [Verifiers -> Outcomes \cup {"none"}]
          /\ idle' \in 0 .. MaxReplayStreak
      BY <1>2, <1>5, LimitsAssumption DEF PostTool, Observed, HistoryOK
    <3>3. QED
      BY <3>1, <3>2 DEF HistoryOK
  <2>4. HostOK'
    <3>1. children' \in [Agents -> Lives]
      BY <1>2, <1>5 DEF PostTool, ChildAfter, HostOK, Lives
    <3>2. QED
      BY <1>2, <1>5, <3>1 DEF PostTool, HostOK
  <2>5. QED
    BY <1>1, <2>1, <2>3, <2>4
<1>6. ASSUME NEW s \in Slots, LostResult(s) PROVE TypeOK'
  <2>1. LedgerOK' /\ warnings' = warnings
    BY <1>6, QuietAdvances
  <2>2. QED
    BY <1>1, <1>2, <1>6, <2>1 DEF LostResult, HostOK, HistoryOK, history
<1>7. ASSUME NEW a \in Agents, SubagentStart(a) \/ SubagentStop(a) PROVE TypeOK'
  <2>1. LedgerOK'
    BY <1>7, ChildAdvances
  <2>2. HistoryOK' /\ warnings' = warnings
    BY <1>2, <1>7, LimitsAssumption DEF SubagentStart, SubagentStop, HistoryOK, history
  <2>3. HostOK'
    BY <1>2, <1>7 DEF SubagentStart, SubagentStop, HostOK, Lives
  <2>4. QED
    BY <1>1, <1>2, <2>1, <2>2, <2>3
<1>8. ASSUME NEW phase, NEW trigger, Compact(phase, trigger) PROVE TypeOK'
  <2>1. LedgerOK' /\ warnings' \in 0 .. MaxWarnings
    BY <1>8, CompactAdvances DEF WarningStep
  <2>2. HistoryOK' /\ HostOK'
    BY <1>2, <1>8, LimitsAssumption DEF Compact, HistoryOK, HostOK
  <2>3. QED
    BY <1>1, <2>1, <2>2
<1>9. CASE UserPrompt
  <2>1. LedgerOK' /\ HistoryOK'
    BY <1>9, ResetLedgerOK, ForgetType DEF UserPrompt, Reset, HistoryOK
  <2>2. HostOK' /\ warnings' \in 0 .. MaxWarnings
    BY <1>2, <1>9, BoundsAssumption DEF UserPrompt, Reset, HostOK, MaxWarnings
  <2>3. QED
    BY <1>1, <2>1, <2>2
<1>10. CASE SecretPrompt
  <2>1. LedgerOK'
    BY <1>10, ResetLedgerOK DEF SecretPrompt
  <2>2. QED
    BY <1>1, <1>2, <1>10, <2>1 DEF SecretPrompt, HostOK, HistoryOK, history
<1>11. CASE Tick
  BY <1>1, <1>2, <1>11, QuietAdvances DEF Tick, HostOK, HistoryOK, history
<1>12. CASE UNCHANGED vars
  BY <1>1, <1>2, <1>12, QuietAdvances DEF vars, HostOK, HistoryOK, history
<1>13. ASSUME NEW s \in Slots, NEW call \in Calls, NEW isChild \in BOOLEAN,
              PreToolUnheard(s, call, isChild)
       PROVE  TypeOK'
  <2>1. LedgerOK' /\ UNCHANGED << history, warnings >>
    BY <1>13, UnheardAdvances
  <2>2. HistoryOK'
    BY <1>2, <2>1 DEF history, HistoryOK
  <2>3. ASSUME NEW a \in Agents \cup {NoAgent}
        PROVE  [call |-> call, child |-> a] \in Running
    BY DEF Running
  <2>4. unheard' \in 0 .. MaxUnheard
    BY <1>2, <1>13, BoundsAssumption DEF PreToolUnheard, HostOK
  <2>5. HostOK'
    BY <1>2, <1>13, <2>3, <2>4 DEF PreToolUnheard, Launch, HostOK, Lives
  <2>6. QED
    BY <1>1, <1>2, <2>1, <2>2, <2>5
<1>14. QED
  BY <1>3, <1>4, <1>5, <1>6, <1>7, <1>8, <1>9, <1>10, <1>11, <1>12, <1>13 DEF Next

\* In every reachable state of a turn the variables keep their types and the ledger
\* file is one that can be read back.
THEOREM FuseTypeCorrect == Spec => []TypeOK
BY FuseInitType, FuseStepType, PTL DEF Spec

-----------------------------------------------------------------------------
(***************************************************************************)
(* The steps of a turn, once for all properties.                           *)
(***************************************************************************)
\* The assumption on the host under which the fuse keeps its promises: it does not
\* submit a prompt that the secret filter blocks (_dispatch resets the ledger for it).
NoSecretPrompt == "secret" \notin Environment

\* A tool starts only when PreToolUse let it through or its hook failed.
LEMMA OnlyPreToolStarts ==
    ASSUME TypeOK, [Next]_vars, NEW s \in Slots, Starts(s)
    PROVE  \E call \in Calls, isChild \in BOOLEAN :
              /\ PreTool(s, call, isChild) \/ PreToolUnheard(s, call, isChild)
              /\ calls'[s].call = call
<1>1. calls \in [Slots -> Running \cup {NoCall}]
  BY DEF TypeOK
<1>2. ASSUME NEW r \in Slots, NEW call \in Calls, NEW isChild \in BOOLEAN,
             PreTool(r, call, isChild) \/ PreToolUnheard(r, call, isChild)
      PROVE  r = s /\ calls'[s].call = call
  BY <1>1, <1>2 DEF PreTool, PreToolUnheard, Launch, Starts
<1>3. ASSUME NEW r \in Slots, PostEdit(r) PROVE FALSE
  BY <1>1, <1>3 DEF PostEdit, Starts
<1>4. ASSUME NEW r \in Slots, NEW outcome \in Outcomes, PostTool(r, outcome) PROVE FALSE
  BY <1>1, <1>4 DEF PostTool, Starts
<1>5. ASSUME NEW r \in Slots, LostResult(r) PROVE FALSE
  BY <1>1, <1>5 DEF LostResult, Starts
<1>6. CASE UserPrompt
  BY <1>1, <1>6 DEF UserPrompt, Reset, Starts
<1>7. CASE UNCHANGED calls
  BY <1>7 DEF Starts
<1>8. QED
  BY <1>2, <1>3, <1>4, <1>5, <1>6, <1>7
     DEF Next, SubagentStart, SubagentStop, Compact, SecretPrompt, Tick, vars

\* ... and PreToolUse does not in a stopped turn, nor for a verifier it remembers.
LEMMA StartsAllowed ==
    ASSUME TypeOK, [Next]_vars, NEW s \in Slots, Starts(s), ~FailsOpen
    PROVE  /\ ~Current.terminal
           /\ calls'[s].call.kind = "verifier" =>
                 /\ FingerprintOf(calls'[s].call) \in Verifiers
                 /\ ~Remembered(Current, FingerprintOf(calls'[s].call))
<1>1. PICK call \in Calls, isChild \in BOOLEAN :
         PreTool(s, call, isChild) /\ calls'[s].call = call
  BY OnlyPreToolStarts DEF PreToolUnheard, FailsOpen, TypeOK
<1>2. LetsRun(BeforeTool(Current, FingerprintOf(call), call.kind, isChild, clock).decision)
  BY <1>1 DEF PreTool, Starts
<1>3. /\ ~Current.terminal
      /\ call.kind = "verifier" => ~Remembered(Current, FingerprintOf(call))
  BY <1>1, <1>2, PreToolAdvances
<1>4. call.kind = "verifier" => FingerprintOf(call) \in Verifiers
  BY DEF Verifiers
<1>5. QED
  BY <1>1, <1>3, <1>4

\* Every step but a prompt keeps the ledger; every step but a prompt and a successful
\* edit advances it.
LEMMA LedgerSteps ==
    ASSUME TypeOK, [Next]_vars, NoSecretPrompt
    PROVE  \/ UserPrompt
           \/ (\E s \in Slots : PostEdit(s)) /\ Kept
           \/ Advances
<1>1. ~SecretPrompt
  BY DEF SecretPrompt, NoSecretPrompt
<1>2. QED
  BY <1>1, PreToolAdvances, UnheardAdvances, PostEditKeeps, PostToolAdvances, ChildAdvances,
     CompactAdvances, QuietAdvances
     DEF Next, Advances

-----------------------------------------------------------------------------
(***************************************************************************)
(* A stopped turn stays stopped.                                           *)
(***************************************************************************)
\* Once three automatic compactions without progress have stopped a turn, no event but
\* an accepted prompt changes its ledger: "the terminal fuse state is cleared only by a new
\* accepted user turn".  No tool starts in it but one whose own PreToolUse hook fails.
THEOREM FuseStoppedUntilPrompt == NoSecretPrompt /\ Spec => StoppedUntilPrompt
<1> SUFFICES ASSUME NoSecretPrompt PROVE Spec => StoppedUntilPrompt
  OBVIOUS
<1> DEFINE Frozen == UNCHANGED ledger /\ (FailsOpen \/ \A s \in Slots : ~Starts(s))
<1>1. TypeOK /\ [Next]_vars => (Current.terminal => UserPrompt \/ Frozen)
  <2> SUFFICES ASSUME TypeOK, [Next]_vars, Current.terminal, ~UserPrompt
               PROVE  Frozen
    OBVIOUS
  <2>1. UNCHANGED ledger
    BY LedgerSteps DEF Advances, Kept
  <2>2. FailsOpen \/ \A s \in Slots : ~Starts(s)
    BY StartsAllowed
  <2>3. QED
    BY <2>1, <2>2
<1>2. QED
  BY <1>1, FuseTypeCorrect, PTL DEF Spec, StoppedUntilPrompt

-----------------------------------------------------------------------------
(***************************************************************************)
(* No verifier is replayed.                                                *)
(***************************************************************************)
MemoryInv ==
    Current.terminal \/ \A v \in Verifiers : reported[v] # "no" => Remembered(Current, v)

\* A step keeps the memory unless it is an edit or a prompt, which clear the reports.
LEMMA MemoryStep == TypeOK /\ MemoryInv /\ NoSecretPrompt /\ [Next]_vars => MemoryInv'
<1> SUFFICES ASSUME TypeOK, MemoryInv, NoSecretPrompt, [Next]_vars PROVE MemoryInv'
  OBVIOUS
<1>1. Verifiers \subseteq Fingerprints
  BY CallTypes DEF Verifiers
<1>2. CASE Current.terminal /\ ~UserPrompt
  <2>1. UNCHANGED ledger /\ ledger # Absent
    BY <1>2, LedgerSteps DEF Advances, Kept, Current, FreshLedger
  <2>2. QED
    BY <1>2, <2>1 DEF MemoryInv, Current
<1>3. CASE UserPrompt
  BY <1>3 DEF UserPrompt, Reset, Forget, MemoryInv
<1>4. ASSUME NEW s \in Slots, PostEdit(s), ~Current.terminal PROVE MemoryInv'
  BY <1>4 DEF PostEdit, Forget, MemoryInv
<1>5. ASSUME NEW s \in Slots, NEW outcome \in Outcomes, PostTool(s, outcome), ~Current.terminal
      PROVE  MemoryInv'
  <2> DEFINE fp == FingerprintOf(calls[s].call)
  <2>1. /\ Advances
        /\ calls[s].call.kind = "verifier" => Remembered(Current', fp)
    BY <1>5, PostToolAdvances
  <2>2. ASSUME NEW v \in Verifiers, reported'[v] # "no" PROVE Remembered(Current', v)
    <3>1. CASE calls[s].call.kind = "verifier" /\ v = fp
      BY <2>1, <3>1
    <3>2. CASE ~(calls[s].call.kind = "verifier" /\ v = fp)
      <4>1. reported'[v] = reported[v]
        BY <1>5, <3>2 DEF PostTool, Observed, TypeOK
      <4>2. Remembered(Current, v)
        BY <1>5, <2>2, <4>1 DEF MemoryInv
      <4>3. QED
        BY <1>1, <2>1, <4>2 DEF Advances
    <3>3. QED
      BY <3>1, <3>2
  <2>3. QED
    BY <2>2 DEF MemoryInv
<1>6. CASE Advances /\ UNCHANGED reported /\ ~Current.terminal
  BY <1>1, <1>6 DEF Advances, MemoryInv
<1>7. ~SecretPrompt
  BY DEF SecretPrompt, NoSecretPrompt
<1>8. ASSUME ~UserPrompt, ~Current.terminal,
             ~\E s \in Slots : PostEdit(s),
             ~\E s \in Slots, outcome \in Outcomes : PostTool(s, outcome)
      PROVE  UNCHANGED reported
  BY <1>7, <1>8 DEF Next, PreTool, PreToolUnheard, LostResult, SubagentStart, SubagentStop,
                    Compact, Tick, vars, history
<1>9. QED
  BY <1>2, <1>3, <1>4, <1>5, <1>6, <1>8, LedgerSteps

\* Between two edits or prompts no verifier starts whose outcome was reported, whatever
\* the size of the bounded memory and however many verifiers were reported in between, but
\* for one whose own PreToolUse hook fails; other hooks may fail as they like.
THEOREM FuseNoVerifierReplay == NoSecretPrompt /\ Spec => NoVerifierReplay
<1> SUFFICES ASSUME NoSecretPrompt PROVE Spec => NoVerifierReplay
  OBVIOUS
<1> DEFINE Replays ==
       \A s \in Slots :
          Starts(s) /\ calls'[s].call.kind = "verifier"
             => reported[FingerprintOf(calls'[s].call)] = "no" \/ FailsOpen
<1>1. Init => MemoryInv
  BY DEF Init, MemoryInv
<1>2. TypeOK /\ MemoryInv /\ [Next]_vars => Replays
  <2> SUFFICES ASSUME TypeOK, MemoryInv, [Next]_vars, NEW s \in Slots, Starts(s),
                      calls'[s].call.kind = "verifier", ~FailsOpen
               PROVE  reported[FingerprintOf(calls'[s].call)] = "no"
    OBVIOUS
  <2>1. QED
    BY StartsAllowed DEF MemoryInv
<1>3. TypeOK /\ MemoryInv /\ [Next]_vars => MemoryInv'
  BY MemoryStep
<1>4. QED
  BY <1>1, <1>2, <1>3, FuseTypeCorrect, PTL DEF Spec, NoVerifierReplay

-----------------------------------------------------------------------------
(***************************************************************************)
(* One warning for the turn.                                               *)
(***************************************************************************)
WarnedInv == warnings # 0 => warnings = 1 /\ Current.warned

\* Whoever warns finds the claim open and leaves it taken.
LEMMA WarnedStep == TypeOK /\ WarnedInv /\ NoSecretPrompt /\ [Next]_vars => WarnedInv'
<1> SUFFICES ASSUME TypeOK, WarnedInv, NoSecretPrompt, [Next]_vars PROVE WarnedInv'
  OBVIOUS
<1>1. warnings \in 0 .. MaxWarnings
  BY DEF TypeOK
<1>2. CASE UserPrompt
  BY <1>2 DEF UserPrompt, Reset, WarnedInv
<1>3. CASE WarningStep /\ Kept
  BY <1>1, <1>3 DEF WarningStep, Kept, WarnedInv
<1>4. CASE UNCHANGED warnings /\ Kept
  BY <1>4 DEF Kept, WarnedInv
<1>5. ASSUME ~UserPrompt PROVE (WarningStep \/ UNCHANGED warnings) /\ Kept
  <2>1. Kept
    BY <1>5, LedgerSteps DEF Advances
  <2>2. ~SecretPrompt
    BY DEF SecretPrompt, NoSecretPrompt
  <2>3. WarningStep \/ UNCHANGED warnings
    BY <1>5, <2>2, PreToolAdvances, UnheardAdvances, PostEditKeeps, PostToolAdvances,
       CompactAdvances, QuietAdvances
       DEF Next, SubagentStart, SubagentStop
  <2>4. QED
    BY <2>1, <2>3
<1>6. QED
  BY <1>2, <1>3, <1>4, <1>5

\* The replay, verifier and elapsed-time warnings share one claim: between two prompts
\* the model is warned at most once.
THEOREM FuseWarnsOnce == NoSecretPrompt /\ Spec => []WarnsOnce
<1> SUFFICES ASSUME NoSecretPrompt PROVE Spec => []WarnsOnce
  OBVIOUS
<1>1. Init => WarnedInv
  BY DEF Init, WarnedInv
<1>2. TypeOK /\ WarnedInv /\ [Next]_vars => WarnedInv'
  BY WarnedStep
<1>3. WarnedInv => WarnsOnce
  BY DEF WarnedInv, WarnsOnce
<1>4. QED
  BY <1>1, <1>2, <1>3, FuseTypeCorrect, PTL DEF Spec

-----------------------------------------------------------------------------
(***************************************************************************)
(* The total budget of children.                                           *)
(***************************************************************************)
\* The second assumption on the host: every child is the child of a spawn that the
\* fuse classified, so that a grant precedes its start.
NoNativeChild == "native_child" \notin Environment

BudgetInv ==
    /\ Cardinality(spent) <= Current.total_agents + unheard
    /\ Cardinality(spent) <= MaxTotalAgents + unheard

\* A grant adds one child to those counted, a hook that fails one to those that are not;
\* nothing but a prompt takes any away.
LEMMA BudgetStep ==
    TypeOK /\ BudgetInv /\ NoSecretPrompt /\ NoNativeChild /\ [Next]_vars => BudgetInv'
<1> SUFFICES ASSUME TypeOK, BudgetInv, NoSecretPrompt, NoNativeChild, [Next]_vars
             PROVE  BudgetInv'
  OBVIOUS
<1>1. /\ IsFiniteSet(spent) /\ Cardinality(spent) \in Nat
      /\ TypeOK' /\ Current.total_agents \in Nat /\ Current'.total_agents \in Nat
      /\ unheard \in Nat
  <2>1. TypeOK' /\ IsFiniteSet(spent)
    BY FuseStepType, AgentsAssumption, FS_Subset DEF TypeOK
  <2>2. Current \in Ledgers /\ Current' \in Ledgers
    <3>1. clock' \in Nat /\ (ledger' # Absent => ledger' \in Ledgers)
      BY <2>1 DEF TypeOK
    <3>2. QED
      BY <3>1, CurrentSound, FreshLedgerSound DEF Current
  <2>3. unheard \in Nat
    BY DEF TypeOK
  <2>4. QED
    BY <2>1, <2>2, <2>3, FS_CardinalityType DEF Ledgers
<1>2. CASE UserPrompt
  BY <1>1, <1>2, FS_EmptySet, LimitsAssumption DEF UserPrompt, Reset, BudgetInv
<1>3. CASE Kept /\ UNCHANGED << spent, unheard >>
  BY <1>1, <1>3 DEF Kept, BudgetInv
<1>4. ASSUME NEW a, spent' = spent \cup {a}
      PROVE  Cardinality(spent') \in Nat /\ Cardinality(spent') <= Cardinality(spent) + 1
  <2>1. Cardinality(spent \cup {a}) = IF a \in spent THEN Cardinality(spent)
                                      ELSE Cardinality(spent) + 1
    BY <1>1, FS_AddElement, Zenon
  <2>2. Cardinality(spent') = Cardinality(spent \cup {a})
    BY <1>4, Zenon
  <2>3. QED
    BY <1>1, <2>1, <2>2
<1>5. ASSUME NEW s \in Slots, NEW call \in Calls, NEW isChild \in BOOLEAN,
             PreTool(s, call, isChild), spent' # spent
      PROVE  BudgetInv'
  <2>1. /\ LetsRun(BeforeTool(Current, FingerprintOf(call), call.kind, isChild, clock).decision)
        /\ call.kind = "spawn" /\ UNCHANGED unheard
        /\ \E a \in Agents : spent' = spent \cup {a}
    BY <1>5 DEF PreTool, Launch
  <2>2. /\ Current.total_agents < MaxTotalAgents
        /\ Current'.total_agents = Current.total_agents + 1
    BY <1>5, <2>1, PreToolAdvances
  <2>3. Cardinality(spent') \in Nat /\ Cardinality(spent') <= Cardinality(spent) + 1
    BY <1>4, <2>1
  <2>4. QED
    BY <1>1, <2>1, <2>2, <2>3, LimitsAssumption DEF BudgetInv
<1>6. ASSUME NEW s \in Slots, NEW call \in Calls, NEW isChild \in BOOLEAN,
             PreToolUnheard(s, call, isChild)
      PROVE  BudgetInv'
  <2>1. Current' = Current /\ unheard' = unheard + 1
    BY <1>6, UnheardAdvances
  <2>2. spent' = spent \/ \E a \in Agents : spent' = spent \cup {a}
    BY <1>6 DEF PreToolUnheard, Launch
  <2>3. Cardinality(spent') \in Nat /\ Cardinality(spent') <= Cardinality(spent) + 1
    <3>1. CASE spent' = spent
      BY <1>1, <3>1
    <3>2. CASE spent' # spent
      BY <1>4, <2>2, <3>2
    <3>3. QED
      BY <3>1, <3>2
  <2>4. QED
    BY <1>1, <2>1, <2>3, LimitsAssumption DEF BudgetInv
<1>7. ASSUME ~UserPrompt,
             ~\E s \in Slots, call \in Calls, isChild \in BOOLEAN :
                 PreToolUnheard(s, call, isChild)
      PROVE  /\ UNCHANGED unheard
             /\ \/ UNCHANGED spent
                \/ \E s \in Slots, call \in Calls, isChild \in BOOLEAN : PreTool(s, call, isChild)
  <2>1. ~SecretPrompt
    BY DEF SecretPrompt, NoSecretPrompt
  <2>2. ASSUME NEW a \in Agents, SubagentStart(a) PROVE UNCHANGED << spent, unheard >>
    BY <2>2 DEF SubagentStart, NoNativeChild
  <2>3. ASSUME NEW s \in Slots, NEW call \in Calls, NEW isChild \in BOOLEAN,
               PreTool(s, call, isChild)
        PROVE  UNCHANGED unheard
    BY <2>3 DEF PreTool
  <2>4. QED
    BY <1>7, <2>1, <2>2, <2>3
       DEF Next, PostEdit, PostTool, LostResult, SubagentStop, Compact, Tick, vars
<1>8. UserPrompt \/ Kept
  BY LedgerSteps DEF Advances
<1>9. QED
  BY <1>2, <1>3, <1>5, <1>6, <1>7, <1>8

\* Between two prompts a turn is granted at most the total budget of children and one for
\* each PreToolUse hook that failed, however calls, failures, lost hooks and resets of
\* parallel slots interleave.
THEOREM FuseTotalAgentBudget ==
    NoSecretPrompt /\ NoNativeChild /\ Spec => []TotalAgentBudget
<1> SUFFICES ASSUME NoSecretPrompt, NoNativeChild PROVE Spec => []TotalAgentBudget
  OBVIOUS
<1>1. Init => BudgetInv
  BY FS_EmptySet, LimitsAssumption DEF Init, BudgetInv, Current, FreshLedger
<1>2. TypeOK /\ BudgetInv /\ [Next]_vars => BudgetInv'
  BY BudgetStep
<1>3. BudgetInv => TotalAgentBudget
  BY DEF BudgetInv, TotalAgentBudget
<1>4. QED
  BY <1>1, <1>2, <1>3, FuseTypeCorrect, PTL DEF Spec
-----------------------------------------------------------------------------
(***************************************************************************)
(* What each step makes of the ledger.                                     *)
(***************************************************************************)
\* A hook whose result can be written leaves that result as the ledger.
LEMMA PersistedCurrent ==
    ASSUME NEW result, result.ledger \in Ledgers, Persistable(result.ledger), Persist(result)
    PROVE  Current' = result.ledger
BY NullsAssumption DEF Persist, Current

\* PreToolUse always writes what the policy returned.
LEMMA PreToolCurrent ==
    ASSUME TypeOK, NEW s \in Slots, NEW call \in Calls, NEW isChild \in BOOLEAN,
           PreTool(s, call, isChild)
    PROVE  LET result == BeforeTool(Current, FingerprintOf(call), call.kind, isChild, clock)
           IN  Current' = result.ledger /\ Persistable(result.ledger)
<1> DEFINE result == BeforeTool(Current, FingerprintOf(call), call.kind, isChild, clock)
<1>1. Sound(result) /\ Persistable(result.ledger)
  BY CurrentSound, CallTypes, BeforeToolSound DEF TypeOK
<1>2. Persist(result)
  BY DEF PreTool, Respond
<1>3. QED
  BY <1>1, <1>2, PersistedCurrent DEF Sound

\* PostToolUse of a successful edit, in a turn that was not stopped.
LEMMA PostEditCurrent ==
    ASSUME TypeOK, NEW s \in Slots, PostEdit(s)
    PROVE  /\ Current.terminal => Current' = Current
           /\ ~Current.terminal => Current' = AfterEdit(Current, clock)
<1> DEFINE fp == FingerprintOf(calls[s].call)
           result == AfterTool(Current, fp, "edit", "pass", clock)
<1>1. Current \in Ledgers /\ Persistable(Current) /\ clock \in Nat
  BY CurrentSound DEF TypeOK
<1>2. Persist(result)
  BY DEF PostEdit, Respond
<1>3. result.ledger = IF Current.terminal THEN Current ELSE AfterEdit(Current, clock)
  BY DEF AfterTool, Result
<1>4. result.ledger \in Ledgers /\ Persistable(result.ledger)
  BY <1>1, <1>3, AfterEditSound
<1>5. Current' = result.ledger
  BY <1>2, <1>4, PersistedCurrent
<1>6. QED
  BY <1>3, <1>5

\* PostToolUse of any other outcome.
LEMMA PostToolCurrent ==
    ASSUME TypeOK, NEW s \in Slots, NEW outcome \in Outcomes, PostTool(s, outcome)
    PROVE  LET call == calls[s].call
           IN  /\ call \in Calls
               /\ Current.terminal => Current' = Current
               /\ ~Current.terminal =>
                     Current' = AfterOther(Current, FingerprintOf(call), call.kind,
                                           outcome, clock).ledger
<1> DEFINE call == calls[s].call
           fp == FingerprintOf(call)
           result == AfterTool(Current, fp, call.kind, outcome, clock)
<1>1. Current \in Ledgers /\ Persistable(Current) /\ clock \in Nat
  BY CurrentSound DEF TypeOK
<1>2. Persist(result)
  BY DEF PostTool, Respond
<1>3. call \in Calls /\ fp \in Fingerprints /\ call.kind \in Kinds
  BY CallTypes DEF PostTool
<1>4. result = IF Current.terminal THEN Result(Current, "stop_turn")
               ELSE AfterOther(Current, fp, call.kind, outcome, clock)
  BY DEF AfterTool, PostTool
<1>5. result.ledger \in Ledgers /\ Persistable(result.ledger)
  <2>1. CASE Current.terminal
    BY <1>1, <1>4, <2>1 DEF Result
  <2>2. CASE ~Current.terminal
    BY <1>1, <1>3, <1>4, <2>2, AfterOtherSound DEF Sound
  <2>3. QED
    BY <2>1, <2>2
<1>6. Current' = result.ledger
  BY <1>2, <1>5, PersistedCurrent
<1>7. QED
  BY <1>3, <1>4, <1>6 DEF Result

\* The compaction hooks.
LEMMA CompactCurrent ==
    ASSUME TypeOK, NEW phase, NEW trigger, Compact(phase, trigger)
    PROVE  LET result == Compacted(Current, phase, trigger, clock)
           IN  Current' = result.ledger /\ Persistable(result.ledger)
<1> DEFINE result == Compacted(Current, phase, trigger, clock)
<1>1. Sound(result) /\ Persistable(result.ledger)
  BY CurrentSound, CompactedSound DEF TypeOK
<1>2. Persist(result)
  BY DEF Compact, Respond
<1>3. QED
  BY <1>1, <1>2, PersistedCurrent DEF Sound

\* The hooks of a child: a start that cannot be written, like a hook that is lost,
\* changes nothing.
LEMMA ChildCurrent ==
    ASSUME TypeOK, NEW a \in Agents
    PROVE  /\ SubagentStart(a) =>
                 \/ Current' = Current
                 \/ /\ Current' = SubagentStarted(Current, a, clock).ledger
                    /\ Persistable(Current')
           /\ SubagentStop(a) =>
                 \/ Current' = Current /\ "lost_stop" \in Environment
                 \/ Current' = SubagentStopped(Current, a, clock).ledger
<1>1. Current \in Ledgers /\ Persistable(Current) /\ clock \in Nat
  BY CurrentSound DEF TypeOK
<1>2. ASSUME UNCHANGED << ledger, clock >> PROVE Current' = Current
  BY <1>2 DEF Current
<1>3. ASSUME SubagentStart(a)
      PROVE  \/ Current' = Current
             \/ /\ Current' = SubagentStarted(Current, a, clock).ledger
                /\ Persistable(Current')
  <2> DEFINE result == SubagentStarted(Current, a, clock)
  <2>1. UNCHANGED clock /\ (Persist(result) \/ UNCHANGED ledger)
    BY <1>3 DEF SubagentStart
  <2>2. result.ledger \in Ledgers
    BY <1>1, SubagentStartedSound DEF Sound
  <2> HIDE DEF result
  <2>3. CASE Persist(result) /\ Persistable(result.ledger)
    <3>1. Current' = result.ledger
      BY <2>2, <2>3, PersistedCurrent
    <3>2. Persistable(Current')
      BY <2>3, <3>1
    <3>3. QED
      BY <3>1, <3>2 DEF result
  <2>4. CASE ~(Persist(result) /\ Persistable(result.ledger))
    BY <1>2, <2>1, <2>4 DEF Persist
  <2>5. QED
    BY <2>3, <2>4
<1>4. ASSUME SubagentStop(a)
      PROVE  \/ Current' = Current /\ "lost_stop" \in Environment
             \/ Current' = SubagentStopped(Current, a, clock).ledger
  <2> DEFINE result == SubagentStopped(Current, a, clock)
  <2>1. UNCHANGED clock /\ (Persist(result) \/ ("lost_stop" \in Environment /\ UNCHANGED ledger))
    BY <1>4 DEF SubagentStop
  <2>2. result.ledger \in Ledgers /\ Persistable(result.ledger)
    BY <1>1, SubagentStoppedSound DEF Sound
  <2> HIDE DEF result
  <2>3. QED
    BY <1>2, <2>1, <2>2, PersistedCurrent DEF result
<1>5. QED
  BY <1>3, <1>4

\* A prompt, accepted or not, leaves a ledger with nothing in it.
LEMMA PromptCurrent ==
    ASSUME TypeOK, UserPrompt \/ SecretPrompt
    PROVE  clock \in Nat /\ Current' = FreshLedger(clock)
<1>1. clock \in Nat /\ UNCHANGED clock /\ ledger' = IF ledger = Absent THEN Absent ELSE FreshLedger(clock)
  BY DEF UserPrompt, SecretPrompt, Reset, TypeOK
<1>2. FreshLedger(clock) # Absent
  BY <1>1, FreshLedgerSound, NullsAssumption
<1>3. QED
  BY <1>1, <1>2 DEF Current

\* The other steps leave the file alone; before there is one, only the clock passes.
LEMMA QuietCurrent ==
    ASSUME TypeOK, (\E s \in Slots : LostResult(s)) \/ Tick \/ UNCHANGED vars
    PROVE  /\ SameMemory(Current', Current)
           /\ SameAgents(Current', Current)
           /\ SameCourse(Current', Current)
           /\ Current'.warned = Current.warned
<1>1. UNCHANGED ledger
  BY DEF LostResult, Tick, vars
<1>2. CASE ledger = Absent
  <2>1. Current = FreshLedger(clock) /\ Current' = FreshLedger(clock')
    BY <1>1, <1>2 DEF Current
  <2>2. QED
    BY <2>1 DEF FreshLedger, SameMemory, SameAgents, SameCourse
<1>3. CASE ledger # Absent
  BY <1>1, <1>3 DEF Current, SameMemory, SameAgents, SameCourse
<1>4. QED
  BY <1>2, <1>3

\* What the steps do to the ledger's memories: grouped for the invariants about them.
LEMMA MemorySteps ==
    ASSUME TypeOK, [Next]_vars
    PROVE  \/ SameMemory(Current', Current) /\ UNCHANGED << reported, verdict, tried >>
           \/ \E s \in Slots : PostEdit(s)
           \/ \E s \in Slots, outcome \in Outcomes : PostTool(s, outcome)
           \/ UserPrompt \/ SecretPrompt
<1>1. Current \in Ledgers /\ clock \in Nat
  BY CurrentSound DEF TypeOK
<1>2. ASSUME NEW s \in Slots, NEW call \in Calls, NEW isChild \in BOOLEAN,
             PreTool(s, call, isChild)
      PROVE  SameMemory(Current', Current) /\ UNCHANGED << reported, verdict, tried >>
  <2>1. call.kind \in Kinds /\ FingerprintOf(call) \in Fingerprints
    BY CallTypes
  <2>2. QED
    BY <1>1, <1>2, <2>1, PreToolCurrent, BeforeToolChanges DEF PreTool, history
<1>3. ASSUME NEW a \in Agents, SubagentStart(a)
      PROVE  SameMemory(Current', Current) /\ UNCHANGED << reported, verdict, tried >>
  <2>1. UNCHANGED << reported, verdict, tried >>
    BY <1>3 DEF SubagentStart, history
  <2>2. Current' = Current \/ Current' = SubagentStarted(Current, a, clock).ledger
    BY <1>3, ChildCurrent
  <2>3. SameMemory(SubagentStarted(Current, a, clock).ledger, Current)
    BY <1>1, SubagentStartedChanges
  <2>4. SameMemory(Current', Current)
    BY <2>2, <2>3 DEF SameMemory
  <2>5. QED
    BY <2>1, <2>4
<1>4. ASSUME NEW a \in Agents, SubagentStop(a)
      PROVE  SameMemory(Current', Current) /\ UNCHANGED << reported, verdict, tried >>
  <2>1. UNCHANGED << reported, verdict, tried >>
    BY <1>4 DEF SubagentStop
  <2>2. Current' = Current \/ Current' = SubagentStopped(Current, a, clock).ledger
    BY <1>4, ChildCurrent
  <2>3. SameMemory(SubagentStopped(Current, a, clock).ledger, Current)
    BY <1>1, SubagentStoppedChanges
  <2>4. SameMemory(Current', Current)
    BY <2>2, <2>3 DEF SameMemory
  <2>5. QED
    BY <2>1, <2>4
<1>5. ASSUME NEW phase, NEW trigger, Compact(phase, trigger)
      PROVE  SameMemory(Current', Current) /\ UNCHANGED << reported, verdict, tried >>
  BY <1>1, <1>5, CompactCurrent, CompactedChanges DEF Compact
<1>6. ASSUME (\E s \in Slots : LostResult(s)) \/ Tick \/ UNCHANGED vars
      PROVE  SameMemory(Current', Current) /\ UNCHANGED << reported, verdict, tried >>
  BY <1>6, QuietCurrent, QuietAdvances DEF history
<1>7. ASSUME NEW s \in Slots, NEW call \in Calls, NEW isChild \in BOOLEAN,
             PreToolUnheard(s, call, isChild)
      PROVE  SameMemory(Current', Current) /\ UNCHANGED << reported, verdict, tried >>
  BY <1>7, UnheardAdvances DEF SameMemory, history
<1>8. QED
  BY <1>2, <1>3, <1>4, <1>5, <1>6, <1>7 DEF Next

\* A ledger with nothing in it.
LEMMA FreshIsEmpty ==
    ASSUME NEW now
    PROVE  LET led == FreshLedger(now)
           IN  /\ led.actions = << >> /\ led.verifier_results = << >>
               /\ DOMAIN led.actions = {} /\ DOMAIN led.verifier_results = {}
               /\ led.active_agents = {} /\ led.pending_spawns = 0 /\ led.total_agents = 0
               /\ led.compact_streak = 0 /\ led.terminal = FALSE /\ led.warned = FALSE
               /\ Tidy(led)
<1>1. DOMAIN << >> = {}
  OBVIOUS
<1>2. QED
  BY <1>1 DEF FreshLedger, Tidy

\* The fingerprints of the calls that are made.
LEMMA VerifierFingerprints ==
    /\ Verifiers \subseteq Fingerprints
    /\ \A call \in Calls : call.kind = "verifier" => FingerprintOf(call) \in Verifiers
BY CallTypes DEF Verifiers

-----------------------------------------------------------------------------
(***************************************************************************)
(* Only reported verifiers are refused.                                    *)
(***************************************************************************)
ReportedVerifiers == {v \in Verifiers : reported[v] # "no"}

FaithfulInv ==
    IsFiniteSet(ReportedVerifiers) /\ Faithful(Current.verifier_results, ReportedVerifiers)

\* More reported verifiers make the memory no less faithful.
LEMMA FaithfulGrows ==
    ASSUME NEW memory, NEW R, NEW S, IsFiniteSet(S), R \subseteq S, Faithful(memory, R)
    PROVE  Faithful(memory, S)
<1>1. /\ Cardinality(R) \in Nat /\ Cardinality(S) \in Nat
      /\ Cardinality(R) <= Cardinality(S)
  BY FS_Subset, FS_CardinalityType
<1>2. MaxVerifierResults \in Nat
  BY LimitsAssumption
<1>3. QED
  BY <1>1, <1>2 DEF Faithful

\* An empty memory is faithful.
LEMMA FaithfulEmpty == ASSUME NEW R PROVE Faithful(<< >>, R)
<1>1. DOMAIN << >> = {}
  OBVIOUS
<1>2. QED
  BY <1>1 DEF Faithful

\* The memory names reported verifiers, and it is marked only if there are too many.
LEMMA FaithfulStep == TypeOK /\ FaithfulInv /\ [Next]_vars => FaithfulInv'
<1> SUFFICES ASSUME TypeOK, FaithfulInv, [Next]_vars PROVE FaithfulInv'
  OBVIOUS
<1>1. /\ Current \in Ledgers /\ clock \in Nat
      /\ Len(Current.verifier_results) <= MaxVerifierResults
  BY CurrentSound DEF TypeOK, Persistable
<1>2. CASE SameMemory(Current', Current) /\ UNCHANGED << reported, verdict, tried >>
  BY <1>2 DEF SameMemory, FaithfulInv, ReportedVerifiers
<1>3. ASSUME UNCHANGED reported \/ Forget, Current'.verifier_results = << >> PROVE FaithfulInv'
  <2>1. IsFiniteSet(ReportedVerifiers')
    <3>1. CASE UNCHANGED reported
      BY <3>1 DEF FaithfulInv, ReportedVerifiers
    <3>2. CASE Forget
      <4>1. ReportedVerifiers' = {}
        BY <3>2 DEF Forget, ReportedVerifiers
      <4>2. QED
        BY <4>1, FS_EmptySet
    <3>3. QED
      BY <1>3, <3>1, <3>2
  <2>2. QED
    BY <1>3, <2>1, FaithfulEmpty DEF FaithfulInv
<1>4. CASE UserPrompt \/ SecretPrompt
  <2>1. Current'.verifier_results = << >>
    BY <1>4, PromptCurrent, FreshIsEmpty
  <2>2. UNCHANGED reported \/ Forget
    BY <1>4 DEF UserPrompt, Reset, SecretPrompt, history
  <2>3. QED
    BY <1>3, <2>1, <2>2
<1>5. ASSUME NEW s \in Slots, PostEdit(s) PROVE FaithfulInv'
  <2>1. CASE Current.terminal
    <3>1. Current' = Current /\ UNCHANGED reported
      BY <1>5, <2>1, PostEditCurrent DEF PostEdit, history
    <3>2. QED
      BY <3>1 DEF FaithfulInv, ReportedVerifiers
  <2>2. CASE ~Current.terminal
    <3>1. Current'.verifier_results = << >> /\ Forget
      BY <1>1, <1>5, <2>2, PostEditCurrent, AfterEditChanges DEF PostEdit
    <3>2. QED
      BY <1>3, <3>1
  <2>3. QED
    BY <2>1, <2>2
<1>6. ASSUME NEW s \in Slots, NEW outcome \in Outcomes, PostTool(s, outcome)
      PROVE  FaithfulInv'
  <2> DEFINE call == calls[s].call
             fp == FingerprintOf(call)
             R == ReportedVerifiers
  <2>1. call \in Calls /\ fp \in Fingerprints /\ call.kind \in Kinds
    BY <1>6, CallTypes, PostToolCurrent
  <2>2. ReportedVerifiers' = IF call.kind = "verifier" THEN R \cup {fp} ELSE R
    <3>1. reported \in [Verifiers -> {"no", "yes"}]
      BY DEF TypeOK
    <3>2. CASE call.kind = "verifier"
      <4>1. reported' = [reported EXCEPT ![fp] = "yes"] /\ fp \in Verifiers
        BY <1>6, <2>1, <3>2, VerifierFingerprints DEF PostTool, Observed
      <4>2. QED
        BY <3>1, <3>2, <4>1 DEF ReportedVerifiers
    <3>3. CASE call.kind # "verifier"
      BY <1>6, <3>3 DEF PostTool, Observed, ReportedVerifiers
    <3>4. QED
      BY <3>2, <3>3
  <2>3. IsFiniteSet(R) /\ IsFiniteSet(R \cup {fp}) /\ Faithful(Current.verifier_results, R)
    BY FS_AddElement DEF FaithfulInv
  <2>4. IsFiniteSet(ReportedVerifiers') /\ R \subseteq ReportedVerifiers'
    BY <2>2, <2>3
  <2>5. CASE Current.terminal
    <3>1. Current' = Current
      BY <1>6, <2>5, PostToolCurrent
    <3>2. Faithful(Current.verifier_results, ReportedVerifiers')
      BY <2>3, <2>4, FaithfulGrows
    <3>3. QED
      BY <2>4, <3>1, <3>2 DEF FaithfulInv
  <2>6. CASE ~Current.terminal
    <3>1. Current'.verifier_results = IF call.kind = "verifier" THEN RememberVerifier(Current, fp)
                                      ELSE Current.verifier_results
      BY <1>1, <1>6, <2>1, <2>6, PostToolCurrent, AfterOtherChanges
    <3>2. Faithful(RememberVerifier(Current, fp), R \cup {fp})
      BY <1>1, <2>1, <2>3, RememberVerifierFaithful
    <3>3. Faithful(Current'.verifier_results, ReportedVerifiers')
      BY <2>2, <2>3, <3>1, <3>2
    <3>4. QED
      BY <2>4, <3>3 DEF FaithfulInv
  <2>7. QED
    BY <2>5, <2>6
<1>7. QED
  BY <1>2, <1>4, <1>5, <1>6, MemorySteps

\* A verifier is refused as a replay only if its outcome was reported since the last
\* successful edit, or if more verifiers were reported than the bounded memory holds.
THEOREM FuseOnlyReportedVerifiersDenied == Spec => []OnlyReportedVerifiersDenied
<1>1. Init => FaithfulInv
  <2> SUFFICES ASSUME Init PROVE FaithfulInv
    OBVIOUS
  <2>1. ReportedVerifiers = {} /\ Current.verifier_results = << >>
    BY FreshIsEmpty DEF Init, ReportedVerifiers, Current
  <2>2. QED
    BY <2>1, FS_EmptySet, FaithfulEmpty DEF FaithfulInv
<1>2. TypeOK /\ FaithfulInv /\ [Next]_vars => FaithfulInv'
  BY FaithfulStep
<1>3. FaithfulInv => OnlyReportedVerifiersDenied
  <2> SUFFICES ASSUME FaithfulInv, NEW call \in Calls, Answer(call) = "verifier_replay"
               PROVE  \/ reported[FingerprintOf(call)] # "no"
                      \/ Cardinality({v \in Verifiers : reported[v] # "no"}) > MaxVerifierResults
    BY DEF OnlyReportedVerifiersDenied
  <2>1. Remembered(Current, FingerprintOf(call))
    BY DEF Answer, BeforeTool, BeforeSpawn, ElapsedWarned, Result
  <2>2. FingerprintOf(call) # OverflowMark
    BY CallTypes, OverflowAssumption
  <2>3. QED
    BY <2>1, <2>2 DEF Remembered, FaithfulInv, Faithful, ReportedVerifiers
<1>4. QED
  BY <1>1, <1>2, <1>3, FuseTypeCorrect, PTL DEF Spec

-----------------------------------------------------------------------------
(***************************************************************************)
(* The record of actions.                                                  *)
(***************************************************************************)
TidyInv == Tidy(Current)

\* A recorded outcome, in a turn that goes on.
LEMMA PostToolRecords ==
    ASSUME TypeOK, TidyInv, NEW s \in Slots, NEW outcome \in Outcomes, PostTool(s, outcome),
           ~Current.terminal
    PROVE  LET fp == FingerprintOf(calls[s].call)
               acts == Current'.actions
               new == NewRecord(Current, fp, outcome)
           IN  /\ calls[s].call \in Calls /\ fp \in Fingerprints
               /\ Current'.edit_epoch = Current.edit_epoch
               /\ acts = RecordAction(Current, fp, outcome)
               /\ \E k \in DOMAIN acts : acts[k] = new
               /\ \A k \in DOMAIN acts :
                     \/ acts[k] = new
                     \/ \E i \in DOMAIN Current.actions :
                           acts[k] = Current.actions[i] /\ acts[k].fingerprint # fp
               /\ \A k, l \in DOMAIN acts : acts[k].fingerprint = acts[l].fingerprint => k = l
               /\ Len(WithoutFingerprint(Current, fp)) < MaxActions =>
                     \A i \in DOMAIN Current.actions :
                        Current.actions[i].fingerprint # fp =>
                           \E k \in DOMAIN acts : acts[k] = Current.actions[i]
<1> DEFINE fp == FingerprintOf(calls[s].call)
           kind == calls[s].call.kind
           next == AfterOther(Current, fp, kind, outcome, clock).ledger
<1>1. calls[s].call \in Calls /\ fp \in Fingerprints /\ kind \in Kinds
  BY CallTypes, PostToolCurrent
<1>2. /\ Current \in Ledgers /\ clock \in Nat
      /\ Len(Current.verifier_results) <= MaxVerifierResults
  BY CurrentSound DEF TypeOK, Persistable
<1>3. Current' = next
  BY PostToolCurrent
<1>4. next.edit_epoch = Current.edit_epoch /\ next.actions = RecordAction(Current, fp, outcome)
  BY <1>1, <1>2, AfterOtherChanges
<1>5. /\ Current'.edit_epoch = Current.edit_epoch
      /\ Current'.actions = RecordAction(Current, fp, outcome)
  BY <1>3, <1>4
<1> HIDE DEF next
<1>6. QED
  BY <1>1, <1>2, <1>5, RecordActionContents DEF TidyInv

\* The ledger holds one record of a fingerprint, from the present epoch.
LEMMA TidyStep == TypeOK /\ TidyInv /\ [Next]_vars => TidyInv'
<1> SUFFICES ASSUME TypeOK, TidyInv, [Next]_vars PROVE TidyInv'
  OBVIOUS
<1>1. Current \in Ledgers /\ clock \in Nat
  BY CurrentSound DEF TypeOK
<1>2. CASE SameMemory(Current', Current)
  BY <1>2 DEF SameMemory, TidyInv, Tidy
<1>3. CASE UserPrompt \/ SecretPrompt
  BY <1>3, PromptCurrent, FreshIsEmpty DEF TidyInv
<1>4. ASSUME NEW s \in Slots, PostEdit(s) PROVE TidyInv'
  <2>1. CASE Current.terminal
    BY <1>4, <2>1, PostEditCurrent DEF TidyInv
  <2>2. CASE ~Current.terminal
    <3>1. Current'.actions = << >>
      BY <1>1, <1>4, <2>2, PostEditCurrent, AfterEditChanges
    <3>2. DOMAIN Current'.actions = {}
      BY <3>1
    <3>3. QED
      BY <3>2 DEF TidyInv, Tidy
  <2>3. QED
    BY <2>1, <2>2
<1>5. ASSUME NEW s \in Slots, NEW outcome \in Outcomes, PostTool(s, outcome) PROVE TidyInv'
  <2>1. CASE Current.terminal
    BY <1>5, <2>1, PostToolCurrent DEF TidyInv
  <2>2. CASE ~Current.terminal
    <3> DEFINE fp == FingerprintOf(calls[s].call)
    <3>1. /\ Current'.edit_epoch = Current.edit_epoch
          /\ \A k \in DOMAIN Current'.actions :
                \/ Current'.actions[k] = NewRecord(Current, fp, outcome)
                \/ \E i \in DOMAIN Current.actions : Current'.actions[k] = Current.actions[i]
          /\ \A k, l \in DOMAIN Current'.actions :
                Current'.actions[k].fingerprint = Current'.actions[l].fingerprint => k = l
      BY <1>5, <2>2, PostToolRecords
    <3>2. NewRecord(Current, fp, outcome).edit_epoch = Current.edit_epoch
      BY DEF NewRecord
    <3>3. QED
      BY <3>1, <3>2 DEF TidyInv, Tidy
  <2>3. QED
    BY <2>1, <2>2
<1>6. QED
  BY <1>2, <1>3, <1>4, <1>5, MemorySteps

\* The record of actions is tidy in every reachable state.
LEMMA FuseTidy == Spec => []TidyInv
<1>1. Init => TidyInv
  BY FreshIsEmpty DEF Init, TidyInv, Current
<1>2. QED
  BY <1>1, TidyStep, FuseTypeCorrect, PTL DEF Spec

-----------------------------------------------------------------------------
(***************************************************************************)
(* Only repeated actions are refused.                                      *)
(***************************************************************************)
\* The assumption of the next theorem: the digest tells the calls of the turn apart.  The
\* code does not make it so for edits, which it knows by the name of the tool alone.
CallsToldApart ==
    \A c, d \in Calls : FingerprintOf(c) = FingerprintOf(d) => c = d

TriedInv ==
    \A i \in DOMAIN Current.actions :
       \E call \in tried : FingerprintOf(call) = Current.actions[i].fingerprint

\* What is recorded was reported since the last edit or prompt.
LEMMA TriedStep == TypeOK /\ TidyInv /\ TriedInv /\ [Next]_vars => TriedInv'
<1> SUFFICES ASSUME TypeOK, TidyInv, TriedInv, [Next]_vars PROVE TriedInv'
  OBVIOUS
<1>1. Current \in Ledgers /\ clock \in Nat
  BY CurrentSound DEF TypeOK
<1>2. CASE SameMemory(Current', Current) /\ UNCHANGED << reported, verdict, tried >>
  BY <1>2 DEF SameMemory, TriedInv
<1>3. CASE UserPrompt \/ SecretPrompt
  BY <1>3, PromptCurrent, FreshIsEmpty DEF TriedInv
<1>4. ASSUME NEW s \in Slots, PostEdit(s) PROVE TriedInv'
  <2>1. CASE Current.terminal
    BY <1>4, <2>1, PostEditCurrent DEF TriedInv, PostEdit, history
  <2>2. CASE ~Current.terminal
    <3>1. Current'.actions = << >>
      BY <1>1, <1>4, <2>2, PostEditCurrent, AfterEditChanges
    <3>2. DOMAIN Current'.actions = {}
      BY <3>1
    <3>3. QED
      BY <3>2 DEF TriedInv
  <2>3. QED
    BY <2>1, <2>2
<1>5. ASSUME NEW s \in Slots, NEW outcome \in Outcomes, PostTool(s, outcome) PROVE TriedInv'
  <2>1. tried' = tried \cup {calls[s].call}
    BY <1>5 DEF PostTool
  <2>2. CASE Current.terminal
    BY <1>5, <2>1, <2>2, PostToolCurrent DEF TriedInv
  <2>3. CASE ~Current.terminal
    <3> DEFINE fp == FingerprintOf(calls[s].call)
    <3>1. \A k \in DOMAIN Current'.actions :
             \/ Current'.actions[k] = NewRecord(Current, fp, outcome)
             \/ \E i \in DOMAIN Current.actions : Current'.actions[k] = Current.actions[i]
      BY <1>5, <2>3, PostToolRecords
    <3>2. NewRecord(Current, fp, outcome).fingerprint = fp
      BY DEF NewRecord
    <3>3. QED
      BY <2>1, <3>1, <3>2 DEF TriedInv
  <2>4. QED
    BY <2>2, <2>3
<1>6. QED
  BY <1>2, <1>3, <1>4, <1>5, MemorySteps

\* Where the digest tells the calls apart, a call is refused as a replay only if that very
\* call was made since the last successful edit.
THEOREM FuseBlocksOnlyRepeatedAction ==
    CallsToldApart /\ Spec => []BlocksOnlyRepeatedAction
<1> SUFFICES ASSUME CallsToldApart PROVE Spec => []BlocksOnlyRepeatedAction
  OBVIOUS
<1>1. Init => TriedInv
  BY FreshIsEmpty DEF Init, TriedInv, Current
<1>2. TypeOK /\ TidyInv /\ TriedInv /\ [Next]_vars => TriedInv'
  BY TriedStep
<1>3. TypeOK /\ TriedInv => BlocksOnlyRepeatedAction
  <2> SUFFICES ASSUME TypeOK, TriedInv, NEW call \in Calls, Answer(call) = "tool_replay"
               PROVE  call \in tried
    BY DEF BlocksOnlyRepeatedAction
  <2>1. Recorded(Current, FingerprintOf(call))
    BY DEF Answer, BeforeTool, BeforeSpawn, ElapsedWarned, Result, HasCurrentAction
  <2>2. PICK other \in tried : FingerprintOf(other) = FingerprintOf(call)
    BY <2>1 DEF Recorded, TriedInv
  <2>3. other \in Calls
    BY DEF TypeOK
  <2>4. QED
    BY <2>2, <2>3 DEF CallsToldApart
<1>4. QED
  BY <1>1, <1>2, <1>3, FuseTidy, FuseTypeCorrect, PTL DEF Spec

-----------------------------------------------------------------------------
(***************************************************************************)
(* The length of a streak.                                                 *)
(***************************************************************************)
\* The assumptions of the next theorem: the host has finitely many slots, and no call of
\* the turn spawns a child (the replay fuse does not look at spawns; their budget does).
FiniteSlots == IsFiniteSet(Slots)
NoSpawns == \A call \in Calls : call.kind # "spawn"

\* The slots that run a call with fingerprint fp.
InFlight(running, fp) ==
    {s \in Slots : running[s] # NoCall /\ FingerprintOf(running[s].call) = fp}

StreakLimit == MaxReplayStreak - 1 + Cardinality(Slots)

StreakInv ==
    \A i \in DOMAIN Current.actions :
       Current.actions[i].streak + Cardinality(InFlight(calls, Current.actions[i].fingerprint))
          <= StreakLimit + unheard

\* Slots are counted by natural numbers; calls that end leave fewer of them in flight.
LEMMA InFlightCounts ==
    ASSUME FiniteSlots, NEW running, NEW fp
    PROVE  /\ IsFiniteSet(InFlight(running, fp))
           /\ Cardinality(InFlight(running, fp)) \in Nat
           /\ Cardinality(Slots) \in Nat
           /\ Cardinality(InFlight(running, fp)) <= Cardinality(Slots)
<1>1. InFlight(running, fp) \subseteq Slots
  BY DEF InFlight
<1>2. QED
  BY <1>1, FS_Subset, FS_CardinalityType DEF FiniteSlots

LEMMA FewerInFlight ==
    ASSUME FiniteSlots, NEW running, NEW fewer, NEW fp,
           \A s \in Slots : fewer[s] = running[s] \/ fewer[s] = NoCall
    PROVE  Cardinality(InFlight(fewer, fp)) <= Cardinality(InFlight(running, fp))
<1>1. InFlight(fewer, fp) \subseteq InFlight(running, fp)
  BY DEF InFlight
<1>2. QED
  BY <1>1, InFlightCounts, FS_Subset

\* The records of a well-formed ledger.
LEMMA RecordTypes ==
    ASSUME TypeOK, NEW i \in DOMAIN Current.actions
    PROVE  Current.actions[i] \in ActionRecords /\ Current.actions[i].streak \in Nat
<1>1. Current.actions \in Seq(ActionRecords)
  BY CurrentSound DEF Ledgers
<1>2. Current.actions[i] \in ActionRecords
  BY <1>1, LenProperties
<1>3. QED
  BY <1>2 DEF ActionRecords

\* A step that leaves the records alone and starts no call.
LEMMA StreakKept ==
    ASSUME FiniteSlots, TypeOK, StreakInv,
           \/ Current'.actions = Current.actions /\ UNCHANGED unheard
           \/ Current'.actions = << >>,
           \A s \in Slots : calls'[s] = calls[s] \/ calls'[s] = NoCall
    PROVE  StreakInv'
<1>1. CASE Current'.actions = << >>
  <2>1. DOMAIN Current'.actions = {}
    BY <1>1
  <2>2. QED
    BY <2>1 DEF StreakInv
<1>2. CASE Current'.actions = Current.actions /\ UNCHANGED unheard
  <2> SUFFICES ASSUME NEW i \in DOMAIN Current.actions
               PROVE  Current.actions[i].streak
                         + Cardinality(InFlight(calls', Current.actions[i].fingerprint))
                         <= StreakLimit + unheard
    BY <1>2 DEF StreakInv, StreakLimit, InFlight
  <2> DEFINE f == Current.actions[i].fingerprint
  <2>1. Current.actions[i].streak + Cardinality(InFlight(calls, f)) <= StreakLimit + unheard
    BY DEF StreakInv
  <2>2. Cardinality(InFlight(calls', f)) <= Cardinality(InFlight(calls, f))
    BY FewerInFlight
  <2>3. /\ Current.actions[i].streak \in Nat /\ StreakLimit \in Int /\ unheard \in Nat
        /\ Cardinality(InFlight(calls', f)) \in Nat /\ Cardinality(InFlight(calls, f)) \in Nat
    <3>1. Current.actions[i].streak \in Nat /\ unheard \in Nat
      BY RecordTypes DEF TypeOK
    <3>2. /\ Cardinality(InFlight(calls', f)) \in Nat
          /\ Cardinality(InFlight(calls, f)) \in Nat
          /\ Cardinality(Slots) \in Nat
      BY InFlightCounts
    <3>3. QED
      BY <3>1, <3>2, LimitsAssumption DEF StreakLimit
  <2>4. QED
    BY <2>1, <2>2, <2>3
<1>3. QED
  BY <1>1, <1>2

\* A call that was let through has a streak below the limit of the fuse.
LEMMA StreakAdmits ==
    ASSUME FiniteSlots, NoSpawns, TypeOK, TidyInv, StreakInv, NEW s \in Slots,
           NEW call \in Calls, NEW isChild \in BOOLEAN, PreTool(s, call, isChild)
    PROVE  StreakInv'
<1> DEFINE fp == FingerprintOf(call)
           result == BeforeTool(Current, fp, call.kind, isChild, clock)
<1>1. /\ Current \in Ledgers /\ clock \in Nat /\ calls \in [Slots -> Running \cup {NoCall}]
      /\ fp \in Fingerprints /\ call.kind \in Kinds /\ call.kind # "spawn"
  BY CurrentSound, CallTypes DEF TypeOK, NoSpawns
<1>2. Current'.actions = Current.actions /\ UNCHANGED unheard /\ unheard \in Nat
  BY <1>1, PreToolCurrent, BeforeToolChanges DEF SameMemory, PreTool, TypeOK
<1>3. CASE UNCHANGED calls
  BY <1>2, <1>3, StreakKept
<1>4. CASE LetsRun(result.decision)
  <2>1. calls' = [calls EXCEPT ![s] = [call |-> call, child |-> NoAgent]] /\ calls[s] = NoCall
    BY <1>1, <1>4 DEF PreTool, Launch
  <2>2. ~(HasCurrentAction(Current, fp) /\ CurrentAction(Current, fp).streak >= MaxReplayStreak)
    BY <1>1, <1>4, BeforeToolChanges
  <2> SUFFICES ASSUME NEW i \in DOMAIN Current.actions
               PROVE  Current.actions[i].streak
                         + Cardinality(InFlight(calls', Current.actions[i].fingerprint))
                         <= StreakLimit + unheard
    BY <1>2 DEF StreakInv, StreakLimit, InFlight
  <2> DEFINE f == Current.actions[i].fingerprint
  <2>3. /\ Current.actions[i].streak \in Nat /\ Cardinality(Slots) \in Nat
        /\ Cardinality(InFlight(calls', f)) \in Nat
        /\ Cardinality(InFlight(calls', f)) <= Cardinality(Slots)
    BY InFlightCounts, RecordTypes
  <2>4. CASE f = fp
    <3>1. ~(Current.actions[i].streak >= MaxReplayStreak)
      BY <1>1, <2>2, <2>4, TidyAction DEF TidyInv
    <3>2. QED
      BY <1>2, <2>3, <3>1, LimitsAssumption DEF StreakLimit
  <2>5. CASE f # fp
    <3>1. InFlight(calls', f) = InFlight(calls, f)
      BY <1>1, <2>1, <2>5 DEF InFlight
    <3>2. QED
      BY <3>1 DEF StreakInv
  <2>6. QED
    BY <2>4, <2>5
<1>5. QED
  BY <1>3, <1>4 DEF PreTool

\* A call that was let in because its hook failed is one more in flight, and counted.
LEMMA StreakUnheard ==
    ASSUME FiniteSlots, NoSpawns, TypeOK, StreakInv, NEW s \in Slots,
           NEW call \in Calls, NEW isChild \in BOOLEAN, PreToolUnheard(s, call, isChild)
    PROVE  StreakInv'
<1>1. /\ calls \in [Slots -> Running \cup {NoCall}] /\ call.kind # "spawn"
      /\ unheard \in Nat
  BY DEF TypeOK, NoSpawns
<1>2. Current' = Current /\ unheard' = unheard + 1
  BY UnheardAdvances
<1>3. calls' = [calls EXCEPT ![s] = [call |-> call, child |-> NoAgent]]
  BY <1>1 DEF PreToolUnheard, Launch
<1> SUFFICES ASSUME NEW i \in DOMAIN Current.actions
             PROVE  Current.actions[i].streak
                       + Cardinality(InFlight(calls', Current.actions[i].fingerprint))
                       <= StreakLimit + unheard'
  BY <1>2 DEF StreakInv, StreakLimit, InFlight
<1> DEFINE f == Current.actions[i].fingerprint
<1>4. Current.actions[i].streak + Cardinality(InFlight(calls, f)) <= StreakLimit + unheard
  BY DEF StreakInv
<1>5. Cardinality(InFlight(calls', f)) <= Cardinality(InFlight(calls, f)) + 1
  <2>1. IsFiniteSet(InFlight(calls, f)) /\ Cardinality(InFlight(calls, f)) \in Nat
    BY InFlightCounts
  <2>2. /\ IsFiniteSet(InFlight(calls, f) \cup {s})
        /\ Cardinality(InFlight(calls, f) \cup {s}) <= Cardinality(InFlight(calls, f)) + 1
    <3>1. Cardinality(InFlight(calls, f) \cup {s}) =
             IF s \in InFlight(calls, f) THEN Cardinality(InFlight(calls, f))
             ELSE Cardinality(InFlight(calls, f)) + 1
      BY <2>1, FS_AddElement, Zenon
    <3>2. IsFiniteSet(InFlight(calls, f) \cup {s})
      BY <2>1, FS_AddElement
    <3>3. QED
      BY <2>1, <3>1, <3>2
  <2>3. InFlight(calls', f) \subseteq InFlight(calls, f) \cup {s}
    BY <1>1, <1>3 DEF InFlight
  <2>4. /\ Cardinality(InFlight(calls', f)) \in Nat
        /\ Cardinality(InFlight(calls', f)) <= Cardinality(InFlight(calls, f) \cup {s})
        /\ Cardinality(InFlight(calls, f) \cup {s}) \in Nat
    BY <2>2, <2>3, FS_Subset, FS_CardinalityType
  <2>5. QED
    BY <2>1, <2>2, <2>4
<1>6. /\ Current.actions[i].streak \in Nat /\ StreakLimit \in Int
      /\ Cardinality(InFlight(calls', f)) \in Nat /\ Cardinality(InFlight(calls, f)) \in Nat
  BY InFlightCounts, RecordTypes, LimitsAssumption DEF StreakLimit
<1> HIDE DEF f
<1>7. Current.actions[i].streak + Cardinality(InFlight(calls', f)) <= StreakLimit + unheard'
  BY <1>1, <1>2, <1>4, <1>5, <1>6
<1>8. QED
  BY <1>7 DEF f

\* A reported call is longer by one in the ledger and shorter by one in flight.
LEMMA StreakReports ==
    ASSUME FiniteSlots, TypeOK, TidyInv, StreakInv, NEW s \in Slots, NEW outcome \in Outcomes,
           PostTool(s, outcome)
    PROVE  StreakInv'
<1> DEFINE fp == FingerprintOf(calls[s].call)
           new == NewRecord(Current, fp, outcome)
<1>1. /\ calls \in [Slots -> Running \cup {NoCall}] /\ calls[s] # NoCall
      /\ calls' = [calls EXCEPT ![s] = NoCall]
      /\ UNCHANGED unheard /\ unheard \in Nat
  BY DEF TypeOK, PostTool
<1>2. \A r \in Slots : calls'[r] = calls[r] \/ calls'[r] = NoCall
  BY <1>1
<1>3. CASE Current.terminal
  BY <1>1, <1>2, <1>3, PostToolCurrent, StreakKept
<1>4. CASE ~Current.terminal
  <2>1. \A k \in DOMAIN Current'.actions :
           \/ Current'.actions[k] = new
           \/ \E i \in DOMAIN Current.actions : Current'.actions[k] = Current.actions[i]
    BY <1>4, PostToolRecords
  <2>2. ASSUME NEW i \in DOMAIN Current.actions
        PROVE  Current.actions[i].streak
                  + Cardinality(InFlight(calls', Current.actions[i].fingerprint)) <= StreakLimit + unheard
    <3> DEFINE f == Current.actions[i].fingerprint
    <3>1. Current.actions[i].streak + Cardinality(InFlight(calls, f)) <= StreakLimit + unheard
      BY DEF StreakInv
    <3>2. Cardinality(InFlight(calls', f)) <= Cardinality(InFlight(calls, f))
      BY <1>2, FewerInFlight
    <3>3. /\ Current.actions[i].streak \in Nat /\ StreakLimit \in Int
          /\ Cardinality(InFlight(calls', f)) \in Nat /\ Cardinality(InFlight(calls, f)) \in Nat
      BY InFlightCounts, RecordTypes, LimitsAssumption DEF StreakLimit
    <3>4. QED
      BY <1>1, <3>1, <3>2, <3>3
  <2>3. new.streak + Cardinality(InFlight(calls', fp)) <= StreakLimit + unheard
    <3>1. Cardinality(InFlight(calls', fp)) = Cardinality(InFlight(calls, fp)) - 1
      <4>1. InFlight(calls', fp) = InFlight(calls, fp) \ {s} /\ s \in InFlight(calls, fp)
        BY <1>1 DEF InFlight
      <4>2. Cardinality(InFlight(calls, fp) \ {s}) = Cardinality(InFlight(calls, fp)) - 1
        BY <4>1, InFlightCounts, FS_RemoveElement
      <4>3. QED
        BY <4>1, <4>2
    <3>2. /\ Cardinality(InFlight(calls, fp)) \in Nat /\ Cardinality(Slots) \in Nat
          /\ Cardinality(InFlight(calls, fp)) <= Cardinality(Slots)
      BY InFlightCounts
    <3>3. new.streak = NextStreak(Current, fp, outcome)
      BY DEF NewRecord
    <3>4. CASE Repeats(Current, fp, outcome)
      <4> DEFINE p == PositionOf(Current, fp)
      <4>1. p \in DOMAIN Current.actions /\ Current.actions[p].fingerprint = fp
        BY <3>4 DEF Repeats, HasCurrentAction, Recorded, PositionOf
      <4>2. NextStreak(Current, fp, outcome) = Current.actions[p].streak + 1
        BY <3>4 DEF NextStreak, CurrentAction
      <4>3. Current.actions[p].streak + Cardinality(InFlight(calls, fp)) <= StreakLimit + unheard
        BY <4>1 DEF StreakInv
      <4>4. Current.actions[p].streak \in Nat /\ StreakLimit \in Int
        BY <3>2, <4>1, RecordTypes, LimitsAssumption DEF StreakLimit
      <4> HIDE DEF p, new, fp
      <4>5. QED
        BY <1>1, <3>1, <3>2, <3>3, <4>2, <4>3, <4>4
    <3>5. CASE ~Repeats(Current, fp, outcome)
      <4>1. new.streak = 1
        BY <3>3, <3>5 DEF NextStreak
      <4> HIDE DEF new, fp
      <4>2. QED
        BY <1>1, <3>1, <3>2, <4>1, LimitsAssumption DEF StreakLimit
    <3>6. QED
      BY <3>4, <3>5
  <2>4. new.fingerprint = fp
    BY DEF NewRecord
  <2> HIDE DEF new, fp
  <2>5. ASSUME NEW k \in DOMAIN Current'.actions
        PROVE  Current'.actions[k].streak
                  + Cardinality(InFlight(calls', Current'.actions[k].fingerprint)) <= StreakLimit + unheard
    BY <2>1, <2>2, <2>3, <2>4
  <2>6. QED
    BY <1>1, <2>5 DEF StreakInv, StreakLimit, InFlight
<1>5. QED
  BY <1>3, <1>4

LEMMA StreakStep ==
    FiniteSlots /\ NoSpawns /\ TypeOK /\ TidyInv /\ StreakInv /\ [Next]_vars => StreakInv'
<1> SUFFICES ASSUME FiniteSlots, NoSpawns, TypeOK, TidyInv, StreakInv, [Next]_vars
             PROVE  StreakInv'
  OBVIOUS
<1>1. /\ Current \in Ledgers /\ clock \in Nat /\ calls \in [Slots -> Running \cup {NoCall}]
  BY CurrentSound DEF TypeOK
<1>2. ASSUME SameMemory(Current', Current), UNCHANGED unheard,
             \A s \in Slots : calls'[s] = calls[s] \/ calls'[s] = NoCall
      PROVE  StreakInv'
  BY <1>2, StreakKept DEF SameMemory
<1>3. CASE UserPrompt \/ SecretPrompt
  <2>1. UNCHANGED calls
    BY <1>3 DEF UserPrompt, Reset, SecretPrompt
  <2>2. QED
    BY <1>3, <2>1, PromptCurrent, FreshIsEmpty, StreakKept
<1>4. ASSUME NEW s \in Slots, PostEdit(s) PROVE StreakInv'
  <2>1. \A r \in Slots : calls'[r] = calls[r] \/ calls'[r] = NoCall
    BY <1>1, <1>4 DEF PostEdit
  <2>2. \/ Current'.actions = Current.actions /\ UNCHANGED unheard
        \/ Current'.actions = << >>
    BY <1>1, <1>4, PostEditCurrent, AfterEditChanges DEF PostEdit
  <2>3. QED
    BY <2>1, <2>2, StreakKept
<1>5. ASSUME ~UserPrompt, ~SecretPrompt,
             ~\E s \in Slots : PostEdit(s),
             ~\E s \in Slots, outcome \in Outcomes : PostTool(s, outcome),
             ~\E s \in Slots, call \in Calls, isChild \in BOOLEAN :
                 PreTool(s, call, isChild) \/ PreToolUnheard(s, call, isChild)
      PROVE  /\ UNCHANGED unheard
             /\ \A s \in Slots : calls'[s] = calls[s] \/ calls'[s] = NoCall
  BY <1>1, <1>5 DEF Next, LostResult, SubagentStart, SubagentStop, Compact, Tick, vars
<1>6. QED
  BY <1>2, <1>3, <1>4, <1>5, MemorySteps, StreakAdmits, StreakUnheard,
     StreakReports

\* Calls that run in parallel, and calls let in by a PreToolUse hook that failed, can
\* lengthen a streak beyond the limit of the fuse, but by no more than one each.
THEOREM FuseStreakBound == FiniteSlots /\ NoSpawns /\ Spec => []StreakBound
<1> SUFFICES ASSUME FiniteSlots, NoSpawns PROVE Spec => []StreakBound
  OBVIOUS
<1>1. Init => StreakInv
  BY FreshIsEmpty DEF Init, StreakInv, Current
<1>2. TypeOK /\ TidyInv /\ StreakInv /\ [Next]_vars => StreakInv'
  BY StreakStep
<1>3. TypeOK /\ StreakInv => StreakBound
  <2> SUFFICES ASSUME TypeOK, StreakInv, ledger # Absent, NEW i \in DOMAIN ledger.actions
               PROVE  ledger.actions[i].streak
                         <= MaxReplayStreak - 1 + Cardinality(Slots) + unheard
    BY DEF StreakBound
  <2>1. Current = ledger
    BY DEF Current
  <2> DEFINE n == Cardinality(InFlight(calls, ledger.actions[i].fingerprint))
  <2>2. ledger.actions[i].streak + n <= MaxReplayStreak - 1 + Cardinality(Slots) + unheard
    BY <2>1 DEF StreakInv, StreakLimit
  <2>3. /\ ledger.actions[i].streak \in Nat /\ n \in Nat /\ Cardinality(Slots) \in Nat
        /\ unheard \in Nat
    BY <2>1, RecordTypes, InFlightCounts DEF TypeOK
  <2> HIDE DEF n
  <2>4. QED
    BY <2>2, <2>3, LimitsAssumption
<1>4. QED
  BY <1>1, <1>2, <1>3, FuseTidy, FuseTypeCorrect, PTL DEF Spec

-----------------------------------------------------------------------------
(***************************************************************************)
(* Three identical outcomes and no progress do not pass in silence.        *)
(***************************************************************************)
\* The hypothesis of the next theorem: no child starts or stops.  The two child hooks may
\* claim the warning of the turn and say nothing.
NoChildHook == ~\E a \in Agents : SubagentStart(a) \/ SubagentStop(a)

SpokenInv ==
    /\ Current.warned => warnings > 0
    /\ \A i \in DOMAIN Current.actions :
          /\ Current.actions[i].streak >= MaxReplayStreak
          /\ Current.actions[i].fingerprint \notin Verifiers
          => Current.warned

\* A hook that answers to the host says so when it claims the warning.
LEMMA RespondSpeaks ==
    ASSUME TypeOK, SpokenInv, NEW result, Persistable(result.ledger), Respond(result),
           OnlyClaims(Current, result), Current' = result.ledger
    PROVE  Current'.warned => warnings' > 0
<1>1. warnings \in 0 .. MaxWarnings
  BY DEF TypeOK
<1>2. CASE Current.warned
  BY <1>1, <1>2 DEF SpokenInv, Respond
<1>3. CASE result.decision = "warn_once"
  BY <1>1, <1>3 DEF Respond, MaxWarnings
<1>4. QED
  BY <1>2, <1>3 DEF OnlyClaims

\* The records and the claim are as they were, or the memory is empty.
LEMMA SpokenKept ==
    ASSUME SpokenInv, Current'.warned => warnings' > 0,
           \/ Current'.actions = Current.actions /\ (Current.warned => Current'.warned)
           \/ Current'.actions = << >>
    PROVE  SpokenInv'
<1>1. CASE Current'.actions = << >>
  <2>1. DOMAIN Current'.actions = {}
    BY <1>1
  <2>2. QED
    BY <2>1 DEF SpokenInv
<1>2. CASE Current'.actions = Current.actions /\ (Current.warned => Current'.warned)
  BY <1>2 DEF SpokenInv
<1>3. QED
  BY <1>1, <1>2

\* The third identical outcome finds the warning claimed or claims it.
LEMMA SpokenReports ==
    ASSUME TypeOK, TidyInv, SpokenInv, NEW s \in Slots, NEW outcome \in Outcomes,
           PostTool(s, outcome), ~Current.terminal
    PROVE  SpokenInv'
<1> DEFINE call == calls[s].call
           fp == FingerprintOf(call)
           result == AfterOther(Current, fp, call.kind, outcome, clock)
           new == NewRecord(Current, fp, outcome)
<1>1. /\ Current \in Ledgers /\ Persistable(Current) /\ clock \in Nat
      /\ Len(Current.verifier_results) <= MaxVerifierResults
  BY CurrentSound DEF TypeOK, Persistable
<1>2. call \in Calls /\ fp \in Fingerprints /\ call.kind \in Kinds
  BY CallTypes, PostToolCurrent
<1>3. Current' = result.ledger /\ Persistable(result.ledger)
  BY <1>1, <1>2, PostToolCurrent, AfterOtherSound
<1>4. Respond(result)
  BY DEF PostTool, AfterTool
<1>5. /\ OnlyClaims(Current, result)
      /\ Current.warned => Current'.warned
      /\ call.kind # "verifier" /\ NextStreak(Current, fp, outcome) = MaxReplayStreak
            => Current'.warned
  BY <1>1, <1>2, <1>3, AfterOtherChanges
<1> HIDE DEF result
<1>6. Current'.warned => warnings' > 0
  BY <1>3, <1>4, <1>5, RespondSpeaks
<1>7. \A k \in DOMAIN Current'.actions :
         \/ Current'.actions[k] = new
         \/ \E i \in DOMAIN Current.actions : Current'.actions[k] = Current.actions[i]
  BY PostToolRecords
<1>8. ASSUME new.streak >= MaxReplayStreak, fp \notin Verifiers PROVE Current'.warned
  <2>1. call.kind # "verifier"
    BY <1>2, <1>8, VerifierFingerprints
  <2>2. new.streak = NextStreak(Current, fp, outcome)
    BY DEF NewRecord
  <2>3. CASE NextStreak(Current, fp, outcome) = MaxReplayStreak
    BY <1>5, <2>1, <2>3
  <2>4. CASE NextStreak(Current, fp, outcome) # MaxReplayStreak
    <3> DEFINE p == PositionOf(Current, fp)
    <3>1. Repeats(Current, fp, outcome)
      BY <1>8, <2>2, <2>4, LimitsAssumption DEF NextStreak
    <3>2. /\ p \in DOMAIN Current.actions /\ Current.actions[p].fingerprint = fp
          /\ NextStreak(Current, fp, outcome) = Current.actions[p].streak + 1
      BY <3>1 DEF Repeats, HasCurrentAction, Recorded, PositionOf, NextStreak, CurrentAction
    <3>3. Current.actions[p].streak \in Nat
      BY <3>2, RecordTypes
    <3> HIDE DEF p, new
    <3>4. Current.actions[p].streak >= MaxReplayStreak
      BY <1>8, <2>2, <2>4, <3>2, <3>3, LimitsAssumption
    <3>5. QED
      BY <1>5, <1>8, <3>2, <3>4 DEF SpokenInv
  <2>5. QED
    BY <2>3, <2>4
<1>9. new.fingerprint = fp
  BY DEF NewRecord
<1> HIDE DEF new, fp
<1>10. QED
  BY <1>5, <1>6, <1>7, <1>8, <1>9 DEF SpokenInv

LEMMA SpokenStep ==
    TypeOK /\ TidyInv /\ SpokenInv /\ [Next]_vars /\ [NoChildHook]_vars => SpokenInv'
<1> SUFFICES ASSUME TypeOK, TidyInv, SpokenInv, [Next]_vars, [NoChildHook]_vars
             PROVE  SpokenInv'
  OBVIOUS
<1>1. Current \in Ledgers /\ Persistable(Current) /\ clock \in Nat
  BY CurrentSound DEF TypeOK
<1>2. ASSUME NEW s \in Slots, NEW call \in Calls, NEW isChild \in BOOLEAN,
             PreTool(s, call, isChild)
      PROVE  SpokenInv'
  <2> DEFINE result == BeforeTool(Current, FingerprintOf(call), call.kind, isChild, clock)
  <2>1. call.kind \in Kinds /\ FingerprintOf(call) \in Fingerprints
    BY CallTypes
  <2>2. /\ Respond(result) /\ Current' = result.ledger /\ Persistable(result.ledger)
        /\ OnlyClaims(Current, result) /\ Current'.actions = Current.actions
    BY <1>1, <1>2, <2>1, PreToolCurrent, BeforeToolChanges DEF PreTool, SameMemory
  <2>3. Current.warned => Current'.warned
    BY <1>2, PreToolAdvances DEF Advances, Kept
  <2> HIDE DEF result
  <2>4. Current'.warned => warnings' > 0
    BY <2>2, RespondSpeaks
  <2>5. QED
    BY <2>2, <2>3, <2>4, SpokenKept
<1>3. ASSUME NEW phase, NEW trigger, Compact(phase, trigger) PROVE SpokenInv'
  <2> DEFINE result == Compacted(Current, phase, trigger, clock)
  <2>1. /\ Respond(result) /\ Current' = result.ledger /\ Persistable(result.ledger)
        /\ OnlyClaims(Current, result) /\ Current'.actions = Current.actions
    BY <1>1, <1>3, CompactCurrent, CompactedChanges DEF Compact, SameMemory
  <2>2. Current.warned => Current'.warned
    BY <1>3, CompactAdvances DEF Advances, Kept
  <2> HIDE DEF result
  <2>3. Current'.warned => warnings' > 0
    BY <2>1, RespondSpeaks
  <2>4. QED
    BY <2>1, <2>2, <2>3, SpokenKept
<1>4. CASE UserPrompt \/ SecretPrompt
  BY <1>4, PromptCurrent, FreshIsEmpty, SpokenKept
<1>5. ASSUME NEW s \in Slots, PostEdit(s) PROVE SpokenInv'
  <2>1. CASE Current.terminal
    <3>1. Current' = Current
      BY <1>5, <2>1, PostEditCurrent
    <3>2. UNCHANGED warnings
      BY <1>5, <2>1 DEF PostEdit, Respond, AfterTool, Result
    <3>3. QED
      BY <3>1, <3>2, SpokenKept DEF SpokenInv
  <2>2. CASE ~Current.terminal
    <3>1. Current'.actions = << >> /\ Current'.warned = Current.warned
      BY <1>1, <1>5, <2>2, PostEditCurrent, AfterEditChanges
    <3>2. UNCHANGED warnings
      BY <1>5, <2>2 DEF PostEdit, Respond, AfterTool, Result
    <3>3. QED
      BY <3>1, <3>2, SpokenKept DEF SpokenInv
  <2>3. QED
    BY <2>1, <2>2
<1>6. ASSUME NEW s \in Slots, NEW outcome \in Outcomes, PostTool(s, outcome), Current.terminal
      PROVE  SpokenInv'
  <2>1. Current' = Current
    BY <1>6, PostToolCurrent
  <2>2. UNCHANGED warnings
    BY <1>6 DEF PostTool, Respond, AfterTool, Result
  <2>3. QED
    BY <2>1, <2>2, SpokenKept DEF SpokenInv
<1>7. ASSUME (\E s \in Slots : LostResult(s)) \/ Tick \/ UNCHANGED vars PROVE SpokenInv'
  <2>1. SameMemory(Current', Current) /\ Current'.warned = Current.warned /\ UNCHANGED warnings
    BY <1>7, QuietCurrent, QuietAdvances
  <2>2. QED
    BY <2>1, SpokenKept DEF SpokenInv, SameMemory
<1>8. ASSUME NEW s \in Slots, NEW call \in Calls, NEW isChild \in BOOLEAN,
             PreToolUnheard(s, call, isChild)
      PROVE  SpokenInv'
  BY <1>8, UnheardAdvances, SpokenKept DEF SpokenInv
<1>9. QED
  BY <1>2, <1>3, <1>4, <1>5, <1>6, <1>7, <1>8, SpokenReports DEF Next, NoChildHook

\* In a turn without children a hook has decided to warn, and saved the claim, by the third
\* identical outcome of a call that is no verifier.
THEOREM FuseThirdReplayWarned ==
    Spec /\ [][NoChildHook]_vars => []ThirdReplayWarned
<1>1. Init => SpokenInv
  BY FreshIsEmpty DEF Init, SpokenInv, Current
<1>2. TypeOK /\ TidyInv /\ SpokenInv /\ [Next]_vars /\ [NoChildHook]_vars => SpokenInv'
  BY SpokenStep
<1>3. SpokenInv => ThirdReplayWarned
  BY DEF SpokenInv, ThirdReplayWarned, Current
<1>4. QED
  BY <1>1, <1>2, <1>3, FuseTidy, FuseTypeCorrect, PTL DEF Spec

-----------------------------------------------------------------------------
(***************************************************************************)
(* The compaction fuse.                                                    *)
(***************************************************************************)
\* The assumptions of the next theorem.  A verifier shares its fingerprint with no other
\* kind of call, and the turn makes no more different calls than the ledger keeps records
\* of: a verifier whose record was pushed out counts as progress when it repeats.
CallFingerprints == {FingerprintOf(call) : call \in Calls}

VerifiersToldApart == \A call \in Calls : FingerprintOf(call) \in Verifiers => call.kind = "verifier"

FewCalls == IsFiniteSet(CallFingerprints) /\ Cardinality(CallFingerprints) <= MaxActions

\* Its hypothesis about the turn: no child stops.  The design counts the end of a child as
\* progress; on_subagent_stop leaves the count of compactions alone.
NoChildStop == ~\E a \in Agents : SubagentStop(a)

\* The record of v in the ledger tells the outcome it had last.
LastOutcome(led, v, outcome) ==
    \E i \in DOMAIN led.actions :
       led.actions[i].fingerprint = v /\ led.actions[i].outcome = outcome

VerdictInv ==
    \A v \in Verifiers, outcome \in Outcomes :
       LastOutcome(Current, v, outcome) <=> verdict[v] = outcome

CourseInv ==
    /\ ~Current.terminal =>
          Current.compact_streak = idle /\ idle < MaxReplayStreak /\ VerdictInv
    /\ Current.terminal => idle = MaxReplayStreak

\* In a tidy ledger an outcome repeats if it is the one recorded.
LEMMA RepeatsLast ==
    ASSUME NEW led \in Ledgers, Tidy(led), NEW fp, NEW outcome
    PROVE  Repeats(led, fp, outcome) <=> LastOutcome(led, fp, outcome)
<1>1. ASSUME Repeats(led, fp, outcome) PROVE LastOutcome(led, fp, outcome)
  <2>1. /\ PositionOf(led, fp) \in DOMAIN led.actions
        /\ led.actions[PositionOf(led, fp)].fingerprint = fp
    BY <1>1 DEF Repeats, HasCurrentAction, Recorded, PositionOf
  <2>2. led.actions[PositionOf(led, fp)].outcome = outcome
    BY <1>1 DEF Repeats, CurrentAction
  <2>3. QED
    BY <2>1, <2>2 DEF LastOutcome
<1>2. ASSUME LastOutcome(led, fp, outcome) PROVE Repeats(led, fp, outcome)
  <2>1. PICK i \in DOMAIN led.actions :
           led.actions[i].fingerprint = fp /\ led.actions[i].outcome = outcome
    BY <1>2 DEF LastOutcome
  <2>2. QED
    BY <2>1, TidyAction DEF Repeats
<1>3. QED
  BY <1>1, <1>2

\* Steps that leave the records and the verdicts alone.
LEMMA VerdictKept ==
    ASSUME VerdictInv, Current'.actions = Current.actions, UNCHANGED verdict
    PROVE  VerdictInv'
BY DEF VerdictInv, LastOutcome

\* After an edit or a prompt there is neither record nor verdict.
LEMMA VerdictCleared ==
    ASSUME Current'.actions = << >>, Forget
    PROVE  VerdictInv'
<1>1. DOMAIN Current'.actions = {}
  OBVIOUS
<1>2. \A v \in Verifiers, outcome \in Outcomes : verdict'[v] # outcome
  BY DEF Forget, Outcomes
<1>3. QED
  BY <1>1, <1>2 DEF VerdictInv, LastOutcome

\* Recording an outcome updates the one record it is about.
LEMMA VerdictReported ==
    ASSUME VerifiersToldApart, FewCalls, TypeOK, TidyInv, TriedInv, VerdictInv,
           NEW s \in Slots, NEW outcome \in Outcomes, PostTool(s, outcome), ~Current.terminal
    PROVE  VerdictInv'
<1> DEFINE call == calls[s].call
           fp == FingerprintOf(call)
           new == NewRecord(Current, fp, outcome)
           acts == Current.actions
           next == Current'.actions
<1>1. /\ call \in Calls
      /\ \E k \in DOMAIN next : next[k] = new
      /\ \A k \in DOMAIN next :
            next[k] = new \/ \E i \in DOMAIN acts : next[k] = acts[i] /\ next[k].fingerprint # fp
      /\ Len(WithoutFingerprint(Current, fp)) < MaxActions =>
            \A i \in DOMAIN acts :
               acts[i].fingerprint # fp => \E k \in DOMAIN next : next[k] = acts[i]
  BY PostToolRecords
<1>2. new.fingerprint = fp /\ new.outcome = outcome
  BY DEF NewRecord
<1>3. Len(WithoutFingerprint(Current, fp)) < MaxActions
  <2>1. Current \in Ledgers /\ Len(Current.actions) <= MaxActions
    BY CurrentSound DEF Persistable
  <2>2. \A i \in DOMAIN acts : acts[i].fingerprint \in CallFingerprints
    BY DEF TriedInv, CallFingerprints, TypeOK
  <2>3. fp \in CallFingerprints
    BY <1>1 DEF CallFingerprints
  <2>4. QED
    BY <2>1, <2>2, <2>3, RoomForAction DEF FewCalls, TidyInv
<1>4. verdict \in [Verifiers -> Outcomes \cup {"none"}]
  BY DEF TypeOK
<1>5. fp \in Verifiers <=> call.kind = "verifier"
  BY <1>1, VerifierFingerprints DEF VerifiersToldApart
<1>6. \A v \in Verifiers : verdict'[v] = IF v = fp THEN outcome ELSE verdict[v]
  <2>1. CASE call.kind = "verifier"
    BY <1>4, <2>1 DEF PostTool, Observed
  <2>2. CASE call.kind # "verifier"
    BY <1>5, <2>2 DEF PostTool, Observed
  <2>3. QED
    BY <2>1, <2>2
<1> HIDE DEF new, fp
<1>7. ASSUME NEW v \in Verifiers, NEW o \in Outcomes
      PROVE  LastOutcome(Current', v, o) <=> verdict'[v] = o
  <2>1. CASE v = fp
    <3>1. \A k \in DOMAIN next : next[k].fingerprint = fp => next[k] = new
      BY <1>1
    <3>2. LastOutcome(Current', v, o) <=> o = outcome
      BY <1>1, <1>2, <2>1, <3>1 DEF LastOutcome
    <3>3. QED
      BY <1>6, <2>1, <3>2
  <2>2. CASE v # fp
    <3>1. LastOutcome(Current', v, o) <=> LastOutcome(Current, v, o)
      <4>1. ASSUME LastOutcome(Current', v, o) PROVE LastOutcome(Current, v, o)
        BY <1>1, <1>2, <2>2, <4>1 DEF LastOutcome
      <4>2. ASSUME LastOutcome(Current, v, o) PROVE LastOutcome(Current', v, o)
        <5>1. PICK i \in DOMAIN acts : acts[i].fingerprint = v /\ acts[i].outcome = o
          BY <4>2 DEF LastOutcome
        <5>2. \E k \in DOMAIN next : next[k] = acts[i]
          BY <1>1, <1>3, <2>2, <5>1
        <5>3. QED
          BY <5>1, <5>2 DEF LastOutcome
      <4>3. QED
        BY <4>1, <4>2
    <3>2. QED
      BY <1>6, <2>2, <3>1 DEF VerdictInv
  <2>3. QED
    BY <2>1, <2>2
<1>8. QED
  BY <1>7 DEF VerdictInv

LEMMA CourseStep ==
    /\ VerifiersToldApart /\ FewCalls /\ NoSecretPrompt
    /\ TypeOK /\ TidyInv /\ TriedInv /\ CourseInv
    /\ [Next]_vars /\ [NoChildStop]_vars
    => CourseInv'
<1> SUFFICES ASSUME VerifiersToldApart, FewCalls, NoSecretPrompt,
                    TypeOK, TidyInv, TriedInv, CourseInv,
                    [Next]_vars, [NoChildStop]_vars
             PROVE  CourseInv'
  OBVIOUS
<1>1. /\ Current \in Ledgers /\ clock \in Nat /\ idle \in 0 .. MaxReplayStreak
      /\ Len(Current.verifier_results) <= MaxVerifierResults
  BY CurrentSound DEF TypeOK, Persistable
<1>2. ASSUME SameMemory(Current', Current), SameCourse(Current', Current), UNCHANGED << verdict, idle >>
      PROVE  CourseInv'
  BY <1>2, VerdictKept DEF SameMemory, SameCourse, CourseInv
<1>3. ASSUME NEW s \in Slots, NEW call \in Calls, NEW isChild \in BOOLEAN,
             PreTool(s, call, isChild)
      PROVE  CourseInv'
  <2>1. call.kind \in Kinds /\ FingerprintOf(call) \in Fingerprints
    BY CallTypes
  <2>2. SameMemory(Current', Current) /\ SameCourse(Current', Current)
    BY <1>1, <1>3, <2>1, PreToolCurrent, BeforeToolChanges
  <2>3. QED
    BY <1>2, <1>3, <2>2 DEF PreTool, history
<1>4. ASSUME NEW s \in Slots, PostEdit(s) PROVE CourseInv'
  <2>1. CASE Current.terminal
    <3>1. Current' = Current /\ UNCHANGED << verdict, idle >>
      BY <1>4, <2>1, PostEditCurrent DEF PostEdit, history
    <3>2. QED
      BY <2>1, <3>1 DEF CourseInv
  <2>2. CASE ~Current.terminal
    <3>1. /\ Current'.actions = << >> /\ Current'.compact_streak = 0
          /\ ~Current'.terminal /\ Forget
      BY <1>1, <1>4, <2>2, PostEditCurrent, AfterEditChanges DEF PostEdit
    <3>2. QED
      BY <3>1, VerdictCleared, LimitsAssumption DEF CourseInv, Forget
  <2>3. QED
    BY <2>1, <2>2
<1>5. ASSUME NEW s \in Slots, NEW outcome \in Outcomes, PostTool(s, outcome) PROVE CourseInv'
  <2> DEFINE call == calls[s].call
             fp == FingerprintOf(call)
  <2>1. call \in Calls /\ fp \in Fingerprints /\ call.kind \in Kinds
    BY <1>5, CallTypes, PostToolCurrent
  <2>2. CASE Current.terminal
    <3>1. Current' = Current /\ UNCHANGED idle
      BY <1>5, <2>2, PostToolCurrent DEF PostTool, Observed
    <3>2. QED
      BY <2>2, <3>1 DEF CourseInv
  <2>3. CASE ~Current.terminal
    <3>1. /\ Current'.compact_streak = IF call.kind = "verifier" /\ ~Repeats(Current, fp, outcome)
                                       THEN 0 ELSE Current.compact_streak
          /\ Current'.terminal = Current.terminal
      BY <1>1, <1>5, <2>1, <2>3, PostToolCurrent, AfterOtherChanges
    <3>2. VerdictInv'
      BY <1>5, <2>3, VerdictReported DEF CourseInv
    <3>3. CASE call.kind = "verifier"
      <4>1. idle' = IF verdict[fp] = outcome THEN idle ELSE 0
        BY <1>5, <2>3, <3>3 DEF PostTool, Observed
      <4>2. Repeats(Current, fp, outcome) <=> verdict[fp] = outcome
        BY <1>1, <2>1, <2>3, <3>3, RepeatsLast, VerifierFingerprints
           DEF CourseInv, VerdictInv, TidyInv
      <4> HIDE DEF fp, call
      <4>3. QED
        BY <1>1, <2>3, <3>1, <3>2, <3>3, <4>1, <4>2, LimitsAssumption DEF CourseInv
    <3>4. CASE call.kind # "verifier"
      <4>1. idle' = idle
        BY <1>5, <3>4 DEF PostTool, Observed
      <4>2. QED
        BY <2>3, <3>1, <3>2, <3>4, <4>1 DEF CourseInv
    <3>5. QED
      BY <3>3, <3>4
  <2>4. QED
    BY <2>2, <2>3
<1>6. ASSUME NEW a \in Agents, SubagentStart(a) PROVE CourseInv'
  <2>1. Current' = Current \/ Current' = SubagentStarted(Current, a, clock).ledger
    BY <1>6, ChildCurrent
  <2>2. /\ SameMemory(SubagentStarted(Current, a, clock).ledger, Current)
        /\ SameCourse(SubagentStarted(Current, a, clock).ledger, Current)
    BY <1>1, SubagentStartedChanges
  <2>3. SameMemory(Current', Current) /\ SameCourse(Current', Current)
    BY <2>1, <2>2 DEF SameMemory, SameCourse
  <2>4. QED
    BY <1>2, <1>6, <2>3 DEF SubagentStart, history
<1>7. ASSUME NEW phase \in {"pre", "post"}, NEW trigger \in {"auto", "manual"},
             Compact(phase, trigger)
      PROVE  CourseInv'
  <2> DEFINE next == Compacted(Current, phase, trigger, clock).ledger
  <2>1. /\ Current' = next /\ UNCHANGED verdict
        /\ idle' = IF phase = "post" /\ trigger = "auto" /\ idle < MaxReplayStreak
                   THEN idle + 1 ELSE idle
    BY <1>7, CompactCurrent DEF Compact
  <2>2. /\ SameMemory(next, Current)
        /\ Current.terminal => next = Current
        /\ ~(trigger = "auto" /\ phase = "post") => SameCourse(next, Current)
        /\ ~Current.terminal /\ trigger = "auto" /\ phase = "post" =>
              /\ next.compact_streak = Current.compact_streak + 1
              /\ next.terminal <=> Current.compact_streak + 1 >= MaxReplayStreak
    BY <1>1, CompactedChanges
  <2> HIDE DEF next
  <2>3. CASE ~(trigger = "auto" /\ phase = "post")
    BY <1>2, <2>1, <2>2, <2>3
  <2>4. CASE Current.terminal
    <3>1. idle' = idle
      BY <1>1, <2>1, <2>4, LimitsAssumption DEF CourseInv
    <3>2. QED
      BY <2>1, <2>2, <2>4, <3>1 DEF CourseInv
  <2>5. CASE ~Current.terminal /\ trigger = "auto" /\ phase = "post"
    <3>1. idle' = idle + 1 /\ idle < MaxReplayStreak /\ Current.compact_streak = idle
      BY <2>1, <2>5 DEF CourseInv
    <3>2. Current'.compact_streak = idle + 1 /\ (Current'.terminal <=> idle + 1 >= MaxReplayStreak)
      BY <2>1, <2>2, <2>5, <3>1
    <3>3. VerdictInv'
      BY <2>1, <2>2, <2>5, VerdictKept DEF CourseInv, SameMemory
    <3>4. QED
      BY <1>1, <3>1, <3>2, <3>3, LimitsAssumption DEF CourseInv
  <2>6. QED
    BY <2>3, <2>4, <2>5
<1>8. CASE UserPrompt
  <2>1. /\ Current'.actions = << >> /\ Current'.compact_streak = 0
        /\ ~Current'.terminal /\ Forget
    BY <1>8, PromptCurrent, FreshIsEmpty DEF UserPrompt, Reset
  <2>2. QED
    BY <2>1, VerdictCleared, LimitsAssumption DEF CourseInv, Forget
<1>9. ASSUME (\E s \in Slots : LostResult(s)) \/ Tick \/ UNCHANGED vars PROVE CourseInv'
  BY <1>2, <1>9, QuietCurrent, QuietAdvances DEF history
<1>10. ~SecretPrompt
  BY DEF SecretPrompt, NoSecretPrompt
<1>11. ASSUME NEW s \in Slots, NEW call \in Calls, NEW isChild \in BOOLEAN,
              PreToolUnheard(s, call, isChild)
       PROVE  CourseInv'
  <2>1. Current' = Current /\ UNCHANGED << verdict, idle >>
    BY <1>11, UnheardAdvances DEF history
  <2>2. QED
    BY <1>2, <2>1 DEF SameMemory, SameCourse
<1>12. QED
  BY <1>3, <1>4, <1>5, <1>6, <1>7, <1>8, <1>9, <1>10, <1>11 DEF Next, NoChildStop

\* In a turn in which no child stops, and whose calls the ledger can tell apart and has
\* room for, the turn is stopped exactly when MaxReplayStreak automatic compactions passed
\* without progress: an edit, or an outcome of a verifier other than its last.
THEOREM FuseCompactionFuse ==
    /\ VerifiersToldApart /\ FewCalls /\ NoSecretPrompt
    /\ Spec /\ [][NoChildStop]_vars
    => []CompactionFuse
<1> SUFFICES ASSUME VerifiersToldApart, FewCalls, NoSecretPrompt
             PROVE  Spec /\ [][NoChildStop]_vars => []CompactionFuse
  OBVIOUS
<1>1. Init => TriedInv /\ CourseInv
  <2> SUFFICES ASSUME Init PROVE TriedInv /\ CourseInv
    OBVIOUS
  <2>1. /\ DOMAIN Current.actions = {} /\ Current.compact_streak = 0 /\ Current.terminal = FALSE
    BY FreshIsEmpty DEF Init, Current
  <2>2. \A v \in Verifiers, outcome \in Outcomes : verdict[v] # outcome
    BY DEF Init, Outcomes
  <2>3. idle = 0
    BY DEF Init
  <2>4. QED
    BY <2>1, <2>2, <2>3, LimitsAssumption DEF TriedInv, CourseInv, VerdictInv, LastOutcome
<1>2. /\ TypeOK /\ TidyInv /\ TriedInv /\ CourseInv /\ [Next]_vars /\ [NoChildStop]_vars
      => CourseInv' /\ TriedInv'
  BY CourseStep, TriedStep
<1>3. TypeOK /\ CourseInv => CompactionFuse
  <2> SUFFICES ASSUME TypeOK, CourseInv PROVE CompactionFuse
    OBVIOUS
  <2>1. Current.terminal \in BOOLEAN /\ idle \in 0 .. MaxReplayStreak
    BY CurrentSound DEF Ledgers, TypeOK
  <2>2. QED
    BY <2>1, LimitsAssumption DEF CourseInv, CompactionFuse
<1>4. QED
  BY <1>1, <1>2, <1>3, FuseTidy, FuseTypeCorrect, PTL DEF Spec

-----------------------------------------------------------------------------
(***************************************************************************)
(* The concurrent budget of children.                                      *)
(***************************************************************************)
\* The assumptions of the next theorem.  No prompt is submitted into the running turn: it
\* forgets the children that are still alive.  A spawn is not reported as failed while its
\* child runs: the report would give up the reservation of another child.  The code's
\* budgets are 3 in total and 2 at a time: a child whose reservation was given up twice
\* can make room for one more only while the total budget has one left.
NoPrompt == "prompt" \notin Environment
NoLateFailure == "late_failure" \notin Environment
BudgetsClose == MaxTotalAgents <= MaxConcurrentAgents + 1

HostKeepsOrder == NoSecretPrompt /\ NoNativeChild /\ NoPrompt /\ NoLateFailure

\* Until a child of the turn is gone every child the fuse granted is reserved or active in
\* the ledger.
AllAlive == \A a \in spent : children[a] # "gone"

Reserved(led) == led.pending_spawns + Cardinality(led.active_agents)

ReservedInv ==
    /\ \A a \in Agents : children[a] # "unborn" <=> a \in spent
    /\ \A s \in Slots :
          calls[s] # NoCall /\ calls[s].call.kind = "spawn" => calls[s].child \in spent
    /\ AllAlive => /\ Cardinality(spent) <= Reserved(Current) + unheard
                   /\ Cardinality(spent) <= MaxConcurrentAgents + unheard

\* The numbers the invariant is about.
LEMMA ReservedTypes ==
    ASSUME NEW led \in Ledgers
    PROVE  /\ IsFiniteSet(led.active_agents) /\ Cardinality(led.active_agents) \in Nat
           /\ led.pending_spawns \in Nat /\ Reserved(led) \in Nat
BY AgentsAssumption, FS_Subset, FS_CardinalityType DEF Ledgers, Reserved

\* A child that starts is reserved or becomes active: the sum does not fall.
LEMMA StartKeepsReserved ==
    ASSUME NEW led \in Ledgers, NEW a \in Agents, NEW now \in Nat
    PROVE  Reserved(SubagentStarted(led, a, now).ledger) >= Reserved(led)
<1> DEFINE next == SubagentStarted(led, a, now).ledger
<1>1. /\ led.terminal => next = led
      /\ ~led.terminal /\ a \in led.active_agents => SameAgents(next, led)
      /\ ~led.terminal /\ a \notin led.active_agents =>
            /\ next.active_agents = led.active_agents \cup {a}
            /\ next.pending_spawns = IF led.pending_spawns > 0 THEN led.pending_spawns - 1 ELSE 0
  BY SubagentStartedChanges
<1>2. /\ IsFiniteSet(led.active_agents) /\ Cardinality(led.active_agents) \in Nat
      /\ led.pending_spawns \in Nat /\ Reserved(led) \in Nat
  BY ReservedTypes
<1> HIDE DEF next
<1>3. ASSUME ~led.terminal, a \notin led.active_agents PROVE Reserved(next) >= Reserved(led)
  <2>1. Cardinality(next.active_agents) = Cardinality(led.active_agents) + 1
    <3>1. Cardinality(led.active_agents \cup {a}) = Cardinality(led.active_agents) + 1
      BY <1>2, <1>3, FS_AddElement
    <3>2. QED
      BY <1>1, <1>3, <3>1
  <2>2. QED
    BY <1>1, <1>2, <1>3, <2>1 DEF Reserved
<1>4. ASSUME led.terminal \/ a \in led.active_agents PROVE Reserved(next) >= Reserved(led)
  BY <1>1, <1>2, <1>4 DEF Reserved, SameAgents
<1>5. QED
  BY <1>3, <1>4 DEF next

\* A step that grants no child and after which none is gone leaves the sum where it was.
LEMMA ReservedKept ==
    ASSUME TypeOK, ReservedInv, Current' \in Ledgers,
           Reserved(Current') >= Reserved(Current),
           UNCHANGED << spent, unheard >>,
           \A a \in Agents : children'[a] = children[a] \/ children[a] # "unborn",
           \A a \in Agents : children'[a] # "unborn" <=> children[a] # "unborn",
           \A a \in Agents : children[a] = "gone" => children'[a] = "gone",
           \A s \in Slots : calls'[s] = calls[s] \/ calls'[s] = NoCall
                               \/ calls'[s].call.kind # "spawn"
    PROVE  ReservedInv'
<1>1. spent \subseteq Agents /\ IsFiniteSet(spent) /\ Cardinality(spent) \in Nat
  BY AgentsAssumption, FS_Subset, FS_CardinalityType DEF TypeOK
<1>2. Reserved(Current) \in Nat /\ Reserved(Current') \in Nat /\ unheard \in Nat
  BY CurrentSound, ReservedTypes DEF TypeOK
<1>3. AllAlive' => AllAlive
  BY <1>1 DEF AllAlive
<1>4. AllAlive' =>
         /\ Cardinality(spent') <= Reserved(Current') + unheard'
         /\ Cardinality(spent') <= MaxConcurrentAgents + unheard'
  BY <1>1, <1>2, <1>3 DEF ReservedInv
<1>5. \A a \in Agents : children'[a] # "unborn" <=> a \in spent'
  BY DEF ReservedInv
<1>6. \A s \in Slots :
         calls'[s] # NoCall /\ calls'[s].call.kind = "spawn" => calls'[s].child \in spent'
  BY DEF ReservedInv
<1>7. QED
  BY <1>4, <1>5, <1>6 DEF ReservedInv, Reserved

\* A grant finds the sum below the limit and adds one to it and to the children.
LEMMA ReservedGrant ==
    ASSUME TypeOK, ReservedInv, NEW s \in Slots, NEW call \in Calls, NEW isChild \in BOOLEAN,
           PreTool(s, call, isChild), call.kind = "spawn",
           LetsRun(BeforeTool(Current, FingerprintOf(call), call.kind, isChild, clock).decision)
    PROVE  ReservedInv'
<1> DEFINE fp == FingerprintOf(call)
<1>1. /\ Current \in Ledgers /\ clock \in Nat /\ calls \in [Slots -> Running \cup {NoCall}]
      /\ children \in [Agents -> Lives] /\ spent \subseteq Agents
      /\ fp \in Fingerprints /\ call.kind \in Kinds
  BY CurrentSound, CallTypes DEF TypeOK
<1>2. PICK a \in Agents :
         /\ children[a] = "unborn"
         /\ calls' = [calls EXCEPT ![s] = [call |-> call, child |-> a]]
         /\ children' = [children EXCEPT ![a] = "granted"]
         /\ spent' = spent \cup {a}
  BY DEF PreTool, Launch
<1>3. /\ Cardinality(Current.active_agents) + Current.pending_spawns < MaxConcurrentAgents
      /\ Current'.active_agents = Current.active_agents
      /\ Current'.pending_spawns = Current.pending_spawns + 1
  BY <1>1, PreToolCurrent, BeforeToolChanges
<1>4. /\ IsFiniteSet(spent) /\ Cardinality(spent) \in Nat
      /\ Cardinality(Current.active_agents) \in Nat /\ Current.pending_spawns \in Nat
      /\ unheard \in Nat /\ UNCHANGED unheard
  BY <1>1, ReservedTypes, AgentsAssumption, FS_Subset, FS_CardinalityType DEF TypeOK, PreTool
<1>5. Cardinality(spent') = Cardinality(spent) + 1
  <2>1. a \notin spent
    BY <1>2 DEF ReservedInv
  <2>2. Cardinality(spent \cup {a}) = Cardinality(spent) + 1
    BY <1>4, <2>1, FS_AddElement
  <2>3. QED
    BY <1>2, <2>2
<1>6. AllAlive' => AllAlive
  BY <1>1, <1>2 DEF AllAlive, ReservedInv
<1>7. AllAlive' =>
         /\ Cardinality(spent') <= Reserved(Current') + unheard'
         /\ Cardinality(spent') <= MaxConcurrentAgents + unheard'
  BY <1>3, <1>4, <1>5, <1>6, LimitsAssumption DEF ReservedInv, Reserved
<1>8. \A b \in Agents : children'[b] # "unborn" <=> b \in spent'
  BY <1>1, <1>2 DEF ReservedInv
<1>9. \A r \in Slots :
         calls'[r] # NoCall /\ calls'[r].call.kind = "spawn" => calls'[r].child \in spent'
  BY <1>1, <1>2 DEF ReservedInv
<1>10. QED
  BY <1>7, <1>8, <1>9 DEF ReservedInv, Reserved

\* A call let in because its hook failed: a child it is granted is counted as unheard.
LEMMA ReservedUnheard ==
    ASSUME TypeOK, ReservedInv, NEW s \in Slots, NEW call \in Calls, NEW isChild \in BOOLEAN,
           PreToolUnheard(s, call, isChild)
    PROVE  ReservedInv'
<1>1. /\ Current \in Ledgers /\ calls \in [Slots -> Running \cup {NoCall}]
      /\ children \in [Agents -> Lives] /\ spent \subseteq Agents /\ unheard \in Nat
  BY CurrentSound DEF TypeOK
<1>2. Current' = Current /\ unheard' = unheard + 1
  BY UnheardAdvances
<1>3. IsFiniteSet(spent) /\ Cardinality(spent) \in Nat /\ Reserved(Current) \in Nat
  BY <1>1, ReservedTypes, AgentsAssumption, FS_Subset, FS_CardinalityType
<1>4. CASE call.kind = "spawn"
  <2>1. PICK a \in Agents :
           /\ children[a] = "unborn"
           /\ calls' = [calls EXCEPT ![s] = [call |-> call, child |-> a]]
           /\ children' = [children EXCEPT ![a] = "granted"]
           /\ spent' = spent \cup {a}
    BY <1>4 DEF PreToolUnheard, Launch
  <2>2. a \notin spent
    BY <2>1 DEF ReservedInv
  <2>3. Cardinality(spent \cup {a}) = Cardinality(spent) + 1
    BY <1>3, <2>2, FS_AddElement
  <2>4. Cardinality(spent') = Cardinality(spent) + 1
    BY <2>1, <2>3
  <2>5. AllAlive' => AllAlive
    BY <1>1, <2>1 DEF AllAlive, ReservedInv
  <2>6. AllAlive' => /\ Cardinality(spent') <= Reserved(Current) + unheard'
                     /\ Cardinality(spent') <= MaxConcurrentAgents + unheard'
    BY <1>1, <1>2, <1>3, <2>4, <2>5, LimitsAssumption DEF ReservedInv
  <2>7. \A b \in Agents : children'[b] # "unborn" <=> b \in spent'
    BY <1>1, <2>1 DEF ReservedInv
  <2>8. \A r \in Slots :
           calls'[r] # NoCall /\ calls'[r].call.kind = "spawn" => calls'[r].child \in spent'
    BY <1>1, <2>1 DEF ReservedInv
  <2>9. QED
    BY <1>2, <2>6, <2>7, <2>8 DEF ReservedInv, Reserved
<1>5. CASE call.kind # "spawn"
  <2>1. /\ calls' = [calls EXCEPT ![s] = [call |-> call, child |-> NoAgent]]
        /\ UNCHANGED << children, spent >>
    BY <1>5 DEF PreToolUnheard, Launch
  <2>2. AllAlive' => /\ Cardinality(spent') <= Reserved(Current) + unheard'
                     /\ Cardinality(spent') <= MaxConcurrentAgents + unheard'
    BY <1>1, <1>2, <1>3, <2>1, LimitsAssumption DEF ReservedInv, AllAlive
  <2>3. \A r \in Slots :
           calls'[r] # NoCall /\ calls'[r].call.kind = "spawn" => calls'[r].child \in spent'
    BY <1>1, <1>5, <2>1 DEF ReservedInv
  <2>4. QED
    BY <1>2, <2>1, <2>2, <2>3 DEF ReservedInv, Reserved
<1>6. QED
  BY <1>4, <1>5

\* A reported call: only a spawn that failed gives up a reservation, and its child is gone.
LEMMA ReservedReport ==
    ASSUME NoLateFailure, TypeOK, TypeOK', ReservedInv, NEW s \in Slots, NEW outcome \in Outcomes,
           PostTool(s, outcome)
    PROVE  ReservedInv'
<1> DEFINE call == calls[s].call
           a == calls[s].child
<1>1. /\ Current \in Ledgers /\ clock \in Nat /\ calls \in [Slots -> Running \cup {NoCall}]
      /\ children \in [Agents -> Lives] /\ spent \subseteq Agents
      /\ Len(Current.verifier_results) <= MaxVerifierResults
      /\ calls[s] # NoCall /\ a \in Agents \cup {NoAgent}
  BY CurrentSound, CallTypes DEF TypeOK, Persistable, PostTool
<1>2. call \in Calls /\ FingerprintOf(call) \in Fingerprints /\ call.kind \in Kinds
  BY CallTypes, PostToolCurrent
<1>3. /\ calls' = [calls EXCEPT ![s] = NoCall] /\ UNCHANGED << spent, unheard >>
      /\ ChildAfter(s, outcome)
  BY DEF PostTool
<1>4. /\ \A b \in Agents : children'[b] # "unborn" <=> children[b] # "unborn"
      /\ \A b \in Agents : children[b] = "gone" => children'[b] = "gone"
      /\ \A b \in Agents : children'[b] = children[b] \/ children[b] # "unborn"
  BY <1>1, <1>3 DEF ChildAfter
<1>5. \A r \in Slots : calls'[r] = calls[r] \/ calls'[r] = NoCall
  BY <1>1, <1>3
<1>6. Current' \in Ledgers
  BY CurrentSound, FreshLedgerSound DEF TypeOK, Current
<1>7. CASE Current.terminal
  <2>1. Reserved(Current') >= Reserved(Current)
    BY <1>1, <1>7, PostToolCurrent, ReservedTypes
  <2>2. QED
    BY <1>3, <1>4, <1>5, <1>6, <2>1, ReservedKept
<1>8. CASE ~Current.terminal /\ ~(call.kind = "spawn" /\ outcome = "fail")
  <2>1. /\ Current'.active_agents = Current.active_agents
        /\ Current'.pending_spawns = Current.pending_spawns
    BY <1>1, <1>2, <1>8, PostToolCurrent, AfterOtherChanges
  <2>2. Reserved(Current') >= Reserved(Current)
    BY <1>1, <2>1, ReservedTypes DEF Reserved
  <2>3. QED
    BY <1>3, <1>4, <1>5, <1>6, <2>2, ReservedKept
<1>9. CASE call.kind = "spawn" /\ outcome = "fail"
  <2>1. a \in spent /\ a \in Agents /\ a # NoAgent
    BY <1>1, <1>9, NullsAssumption DEF ReservedInv
  <2>2. children[a] \in {"granted", "gone"}
    BY <1>1, <1>3, <1>9, <2>1 DEF ChildAfter, NoLateFailure, ReservedInv, Lives
  <2>3. children'[a] = "gone"
    BY <1>1, <1>3, <1>9, <2>1, <2>2 DEF ChildAfter
  <2>4. ~AllAlive'
    BY <1>3, <2>1, <2>3 DEF AllAlive
  <2>5. \A b \in Agents : children'[b] # "unborn" <=> b \in spent'
    BY <1>3, <1>4 DEF ReservedInv
  <2>6. \A r \in Slots :
           calls'[r] # NoCall /\ calls'[r].call.kind = "spawn" => calls'[r].child \in spent'
    BY <1>3, <1>5 DEF ReservedInv
  <2>7. QED
    BY <2>4, <2>5, <2>6 DEF ReservedInv
<1>10. QED
  BY <1>7, <1>8, <1>9

LEMMA ReservedStep ==
    HostKeepsOrder /\ TypeOK /\ ReservedInv /\ [Next]_vars => ReservedInv'
<1> SUFFICES ASSUME HostKeepsOrder, TypeOK, ReservedInv, [Next]_vars PROVE ReservedInv'
  OBVIOUS
<1>1. /\ Current \in Ledgers /\ clock \in Nat /\ calls \in [Slots -> Running \cup {NoCall}]
      /\ children \in [Agents -> Lives] /\ spent \subseteq Agents /\ Reserved(Current) \in Nat
  BY CurrentSound, ReservedTypes DEF TypeOK
<1>2. TypeOK' /\ Current' \in Ledgers
  <2>1. TypeOK'
    BY FuseStepType
  <2>2. QED
    BY <2>1, FreshLedgerSound DEF TypeOK, Current
<1>3. ASSUME Reserved(Current') >= Reserved(Current), UNCHANGED << spent, children, unheard >>,
             \A s \in Slots : \/ calls'[s] = calls[s] \/ calls'[s] = NoCall
                              \/ calls'[s].call.kind # "spawn"
      PROVE  ReservedInv'
  BY <1>2, <1>3, ReservedKept
<1>4. ASSUME SameAgents(Current', Current) PROVE Reserved(Current') >= Reserved(Current)
  BY <1>1, <1>4 DEF SameAgents, Reserved
<1>5. ASSUME NEW s \in Slots, NEW call \in Calls, NEW isChild \in BOOLEAN,
             PreTool(s, call, isChild)
      PROVE  ReservedInv'
  <2> DEFINE decision ==
               BeforeTool(Current, FingerprintOf(call), call.kind, isChild, clock).decision
  <2>1. CASE LetsRun(decision) /\ call.kind = "spawn"
    BY <1>5, <2>1, ReservedGrant
  <2>2. CASE ~(LetsRun(decision) /\ call.kind = "spawn")
    <3>1. call.kind \in Kinds /\ FingerprintOf(call) \in Fingerprints
      BY CallTypes
    <3>2. SameAgents(Current', Current)
      BY <1>1, <1>5, <2>2, <3>1, PreToolCurrent, BeforeToolChanges
    <3>3. UNCHANGED << spent, children, unheard >>
      BY <1>5, <2>2 DEF PreTool, Launch
    <3>4. UNCHANGED calls
             \/ (call.kind # "spawn" /\ calls' = [calls EXCEPT ![s] = [call |-> call, child |-> NoAgent]])
      BY <1>5, <2>2 DEF PreTool, Launch
    <3>5. \A r \in Slots : \/ calls'[r] = calls[r] \/ calls'[r] = NoCall
                           \/ calls'[r].call.kind # "spawn"
      BY <1>1, <3>4
    <3>6. QED
      BY <1>3, <1>4, <3>2, <3>3, <3>5
  <2>3. QED
    BY <2>1, <2>2
<1>6. ASSUME NEW s \in Slots, PostEdit(s) PROVE ReservedInv'
  <2>1. SameAgents(Current', Current)
    BY <1>1, <1>6, PostEditCurrent, AfterEditChanges DEF SameAgents
  <2>2. /\ UNCHANGED << spent, children, unheard >>
        /\ \A r \in Slots : calls'[r] = calls[r] \/ calls'[r] = NoCall
    BY <1>1, <1>6 DEF PostEdit
  <2>3. QED
    BY <1>3, <1>4, <2>1, <2>2
<1>7. ASSUME NEW s \in Slots, NEW outcome \in Outcomes, PostTool(s, outcome) PROVE ReservedInv'
  BY <1>2, <1>7, ReservedReport DEF HostKeepsOrder
<1>8. ASSUME NEW a \in Agents, SubagentStart(a) PROVE ReservedInv'
  <2>1. /\ children[a] = "granted" /\ children' = [children EXCEPT ![a] = "running"]
        /\ UNCHANGED << spent, calls, unheard >>
    BY <1>8 DEF SubagentStart, HostKeepsOrder, NoNativeChild
  <2>2. Reserved(Current') >= Reserved(Current)
    <3>1. Current' = Current \/ Current' = SubagentStarted(Current, a, clock).ledger
      BY <1>8, ChildCurrent
    <3>2. Reserved(SubagentStarted(Current, a, clock).ledger) >= Reserved(Current)
      BY <1>1, StartKeepsReserved
    <3>3. QED
      BY <1>1, <3>1, <3>2
  <2>3. /\ \A b \in Agents : children'[b] # "unborn" <=> children[b] # "unborn"
        /\ \A b \in Agents : children[b] = "gone" => children'[b] = "gone"
        /\ \A b \in Agents : children'[b] = children[b] \/ children[b] # "unborn"
    BY <1>1, <2>1
  <2>4. QED
    BY <1>2, <2>1, <2>2, <2>3, ReservedKept
<1>9. ASSUME NEW a \in Agents, SubagentStop(a) PROVE ReservedInv'
  <2>1. /\ children[a] = "running" /\ children' = [children EXCEPT ![a] = "gone"]
        /\ UNCHANGED << spent, calls, unheard >>
    BY <1>9 DEF SubagentStop
  <2>2. a \in spent /\ children'[a] = "gone"
    BY <1>1, <2>1 DEF ReservedInv
  <2>3. ~AllAlive'
    BY <2>1, <2>2 DEF AllAlive
  <2>4. /\ \A b \in Agents : children'[b] # "unborn" <=> b \in spent'
        /\ \A s \in Slots :
              calls'[s] # NoCall /\ calls'[s].call.kind = "spawn" => calls'[s].child \in spent'
    BY <1>1, <2>1 DEF ReservedInv
  <2>5. QED
    BY <2>3, <2>4 DEF ReservedInv
<1>10. ASSUME NEW phase, NEW trigger, Compact(phase, trigger) PROVE ReservedInv'
  <2>1. SameAgents(Current', Current)
    BY <1>1, <1>10, CompactCurrent, CompactedChanges
  <2>2. QED
    BY <1>3, <1>4, <1>10, <2>1 DEF Compact
<1>11. ASSUME (\E s \in Slots : LostResult(s)) \/ Tick \/ UNCHANGED vars PROVE ReservedInv'
  <2>1. SameAgents(Current', Current) /\ UNCHANGED << spent, children >>
    BY <1>11, QuietCurrent, QuietAdvances
  <2>2. /\ UNCHANGED unheard
        /\ \A r \in Slots : calls'[r] = calls[r] \/ calls'[r] = NoCall
    BY <1>1, <1>11 DEF LostResult, Tick, vars
  <2>3. QED
    BY <1>3, <1>4, <2>1, <2>2
<1>12. ~UserPrompt /\ ~SecretPrompt
  BY DEF UserPrompt, SecretPrompt, HostKeepsOrder, NoPrompt, NoSecretPrompt
<1>13. QED
  BY <1>5, <1>6, <1>7, <1>8, <1>9, <1>10, <1>11, <1>12, ReservedUnheard DEF Next

\* Within a turn the children that were granted and have not stopped are never more than
\* the concurrent budget and one for each PreToolUse hook that failed, although lost hooks
\* and reports of failure make the ledger's own count of them wrong.
THEOREM FuseConcurrentAgentBudget ==
    HostKeepsOrder /\ BudgetsClose /\ Spec => []ConcurrentAgentBudget
<1> SUFFICES ASSUME HostKeepsOrder, BudgetsClose PROVE Spec => []ConcurrentAgentBudget
  OBVIOUS
<1>1. Init => ReservedInv
  <2> SUFFICES ASSUME Init PROVE ReservedInv
    OBVIOUS
  <2>1. Cardinality(spent) = 0 /\ Cardinality({}) = 0
    BY FS_EmptySet DEF Init
  <2>2. Current.active_agents = {} /\ Current.pending_spawns = 0
    BY FreshIsEmpty DEF Init, Current
  <2>3. Reserved(Current) = 0
    BY <2>1, <2>2 DEF Reserved
  <2>4. QED
    BY <2>1, <2>3, LimitsAssumption DEF Init, ReservedInv
<1>2. TypeOK /\ ReservedInv /\ [Next]_vars => ReservedInv'
  BY ReservedStep
<1>3. TypeOK /\ ReservedInv /\ TotalAgentBudget => ConcurrentAgentBudget
  <2> SUFFICES ASSUME TypeOK, ReservedInv, TotalAgentBudget PROVE ConcurrentAgentBudget
    OBVIOUS
  <2>1. /\ IsFiniteSet(spent) /\ Cardinality(spent) \in Nat
        /\ Alive \subseteq spent
        /\ unheard \in Nat
    BY AgentsAssumption, FS_Subset, FS_CardinalityType DEF TypeOK, Alive
  <2>2. /\ IsFiniteSet(Alive) /\ Cardinality(Alive) \in Nat
        /\ Cardinality(Alive) <= Cardinality(spent)
    BY <2>1, FS_Subset, FS_CardinalityType
  <2>3. CASE AllAlive
    BY <2>1, <2>2, <2>3, LimitsAssumption DEF ReservedInv, ConcurrentAgentBudget
  <2>4. CASE ~AllAlive
    <3>1. PICK a \in spent : children[a] = "gone"
      BY <2>4 DEF AllAlive
    <3>2. Alive \subseteq spent \ {a}
      BY <3>1 DEF Alive
    <3>3. /\ IsFiniteSet(spent \ {a})
          /\ Cardinality(spent \ {a}) = Cardinality(spent) - 1
      BY <2>1, FS_RemoveElement
    <3>4. Cardinality(Alive) <= Cardinality(spent \ {a})
      BY <3>2, <3>3, FS_Subset
    <3>5. QED
      BY <2>1, <2>2, <3>3, <3>4, LimitsAssumption
         DEF TotalAgentBudget, BudgetsClose, ConcurrentAgentBudget
  <2>5. QED
    BY <2>3, <2>4
<1>4. Spec => []TotalAgentBudget
  BY FuseTotalAgentBudget DEF HostKeepsOrder
<1>5. QED
  BY <1>1, <1>2, <1>3, <1>4, FuseTypeCorrect, PTL DEF Spec

=============================================================================
