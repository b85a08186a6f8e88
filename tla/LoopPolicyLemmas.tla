-------------------------- MODULE LoopPolicyLemmas --------------------------
(***************************************************************************)
(* Facts about the operators of LoopPolicy, for every ledger, event and    *)
(* limit.  LoopFuseProofs lifts them to the running turn.                  *)
(***************************************************************************)
EXTENDS LoopPolicy, SequenceTheorems, FiniteSetTheorems, TLAPS

Memory == Seq(Fingerprints \cup {OverflowMark})

-----------------------------------------------------------------------------
(***************************************************************************)
(* The bounded memories.                                                   *)
(***************************************************************************)
\* What Python's seq[-n:] returns is a sequence of at most n elements of seq.
LEMMA KeepLastBounded ==
    ASSUME NEW S, NEW seq \in Seq(S), NEW n \in Nat
    PROVE  KeepLast(seq, n) \in Seq(S) /\ Len(KeepLast(seq, n)) <= n
<1>1. Len(seq) \in Nat /\ \A i \in 1 .. Len(seq) : seq[i] \in S
  BY LenProperties
<1>2. CASE Len(seq) > n
  <2> DEFINE m == Len(seq) - n + 1
  <2>1. m \in Int /\ m >= 1 /\ Len(seq) - m + 1 = n
    BY <1>1, <1>2
  <2>2. SubSeq(seq, m, Len(seq)) \in Seq(S) /\ Len(SubSeq(seq, m, Len(seq))) <= n
    <3>1. \A i \in m .. Len(seq) : seq[i] \in S
      BY <1>1, <2>1
    <3>2. /\ SubSeq(seq, m, Len(seq)) \in Seq(S)
          /\ Len(SubSeq(seq, m, Len(seq))) =
               IF m <= Len(seq) THEN Len(seq) - m + 1 ELSE 0
      BY <1>1, <2>1, <3>1, SubSeqProperties
    <3>3. QED
      BY <1>1, <2>1, <3>2
  <2>3. QED
    BY <1>2, <2>2 DEF KeepLast
<1>3. CASE ~(Len(seq) > n)
  BY <1>1, <1>3 DEF KeepLast
<1>4. QED
  BY <1>2, <1>3

\* Removing an element of a sequence leaves a sequence.
LEMMA RemoveAtType ==
    ASSUME NEW S, NEW seq \in Seq(S), NEW i \in 1 .. Len(seq)
    PROVE  RemoveAt(seq, i) \in Seq(S)
<1>1. Len(seq) \in Nat /\ \A j \in 1 .. Len(seq) : seq[j] \in S
  BY LenProperties
<1>2. SubSeq(seq, 1, i - 1) \in Seq(S)
  <2>1. \A j \in 1 .. i - 1 : seq[j] \in S
    BY <1>1
  <2>2. QED
    BY <1>1, <2>1, SubSeqProperties
<1>3. SubSeq(seq, i + 1, Len(seq)) \in Seq(S)
  <2>1. \A j \in i + 1 .. Len(seq) : seq[j] \in S
    BY <1>1
  <2>2. QED
    BY <1>1, <2>1, SubSeqProperties
<1>4. QED
  BY <1>2, <1>3, ConcatProperties DEF RemoveAt

\* The recent actions stay well typed and bounded whatever outcome is recorded.
LEMMA RecordActionType ==
    ASSUME NEW led \in Ledgers, NEW fp \in Fingerprints, NEW outcome \in Outcomes
    PROVE  /\ RecordAction(led, fp, outcome) \in Seq(ActionRecords)
           /\ Len(RecordAction(led, fp, outcome)) <= MaxActions
<1>1. led.actions \in Seq(ActionRecords) /\ led.edit_epoch \in Nat
  BY DEF Ledgers
<1>2. DOMAIN led.actions = 1 .. Len(led.actions)
  BY <1>1, LenProperties
<1>3. Recorded(led, fp) => PositionOf(led, fp) \in 1 .. Len(led.actions)
  BY <1>2 DEF Recorded, PositionOf
<1>4. WithoutFingerprint(led, fp) \in Seq(ActionRecords)
  BY <1>1, <1>3, RemoveAtType DEF WithoutFingerprint
<1>5. NextStreak(led, fp, outcome) \in Nat
  <2>1. Repeats(led, fp, outcome) => CurrentAction(led, fp) \in ActionRecords
    BY <1>1, <1>3, LenProperties DEF Repeats, HasCurrentAction, CurrentAction
  <2>2. QED
    BY <2>1 DEF NextStreak, ActionRecords
<1> DEFINE record == [ fingerprint |-> fp, outcome |-> outcome,
                       streak |-> NextStreak(led, fp, outcome),
                       edit_epoch |-> led.edit_epoch ]
<1>6. record \in ActionRecords
  BY <1>1, <1>5 DEF ActionRecords
<1>7. Append(WithoutFingerprint(led, fp), record) \in Seq(ActionRecords)
  BY <1>4, <1>6
<1>8. QED
  BY <1>7, KeepLastBounded, LimitsAssumption DEF RecordAction

\* The verifier memory stays bounded and forgets nothing: a verifier that was refused
\* before is refused after, and so is the one just reported.
LEMMA RememberVerifierKeeps ==
    ASSUME NEW led \in Ledgers, NEW fp \in Fingerprints,
           Len(led.verifier_results) <= MaxVerifierResults
    PROVE  LET memory == RememberVerifier(led, fp)
           IN  /\ memory \in Memory
               /\ Len(memory) <= MaxVerifierResults
               /\ \A v \in Fingerprints :
                     v = fp \/ Remembered(led, v)
                       => \E i \in DOMAIN memory : memory[i] \in {OverflowMark, v}
<1> DEFINE results == led.verifier_results
           memory == RememberVerifier(led, fp)
<1>1. results \in Memory
  BY DEF Ledgers, Memory
<1>2. Len(results) \in Nat /\ DOMAIN results = 1 .. Len(results)
  BY <1>1, LenProperties DEF Memory
<1>3. CASE Remembered(led, fp)
  <2>1. memory = results
    BY <1>3 DEF RememberVerifier
  <2>2. QED
    BY <1>1, <1>3, <2>1 DEF Remembered
<1>4. CASE ~Remembered(led, fp) /\ Len(results) < MaxVerifierResults
  <2>1. memory = Append(results, fp)
    BY <1>4 DEF RememberVerifier
  <2>2. /\ memory \in Memory
        /\ Len(memory) = Len(results) + 1
        /\ DOMAIN memory = 1 .. Len(results) + 1
        /\ memory[Len(results) + 1] = fp
        /\ \A i \in 1 .. Len(results) : memory[i] = results[i]
    BY <1>1, <1>2, <2>1 DEF Memory
  <2>3. QED
    BY <1>2, <1>4, <2>2, LimitsAssumption DEF Remembered
<1>5. CASE ~Remembered(led, fp) /\ ~(Len(results) < MaxVerifierResults)
  <2>1. memory = [results EXCEPT ![MaxVerifierResults] = OverflowMark]
    BY <1>5 DEF RememberVerifier
  <2>2. MaxVerifierResults \in 1 .. Len(results) /\ Len(results) = MaxVerifierResults
    BY <1>2, <1>5, LimitsAssumption
  <2>3. /\ memory \in Memory
        /\ Len(memory) = Len(results)
        /\ memory[MaxVerifierResults] = OverflowMark
    BY <1>1, <2>1, <2>2, ExceptSeq DEF Memory
  <2>4. DOMAIN memory = 1 .. Len(results)
    BY <2>3, LenProperties DEF Memory
  <2>5. QED
    BY <2>2, <2>3, <2>4
<1>6. QED
  BY <1>3, <1>4, <1>5

-----------------------------------------------------------------------------
(***************************************************************************)
(* The transitions.  Sound says that a transition returns a ledger and a   *)
(* decision; Monotone says what no transition but that of a successful     *)
(* edit gives up: the agents counted, the claim of the one warning, the    *)
(* verifiers remembered, and a stop.                                       *)
(***************************************************************************)
Sound(result) == result.ledger \in Ledgers /\ result.decision \in Decisions

Claimed(led, result) ==
    /\ led.warned => result.ledger.warned /\ result.decision # "warn_once"
    /\ result.decision = "warn_once" => result.ledger.warned

Monotone(led, result) ==
    /\ result.ledger.total_agents >= led.total_agents
    /\ \A v \in Fingerprints : Remembered(led, v) => Remembered(result.ledger, v)
    /\ led.terminal => result.ledger = led
    /\ Claimed(led, result)

\* The elapsed-time check changes nothing but the claim of the warning.
LEMMA ElapsedWarnedSound ==
    ASSUME NEW led \in Ledgers, NEW now \in Nat
    PROVE  LET result == ElapsedWarned(led, now)
           IN  /\ Sound(result)
               /\ Claimed(led, result)
               /\ \E w \in BOOLEAN : result.ledger = [led EXCEPT !.warned = w]
<1>1. CASE led.warned \/ now - led.last_progress < ElapsedWarning
  <2>1. ElapsedWarned(led, now) = Result(led, "pass")
    BY <1>1 DEF ElapsedWarned
  <2>2. led = [led EXCEPT !.warned = led.warned] /\ led.warned \in BOOLEAN
    BY DEF Ledgers
  <2>3. ElapsedWarned(led, now).ledger = led /\ ElapsedWarned(led, now).decision = "pass"
    BY <2>1 DEF Result
  <2>4. QED
    BY <2>2, <2>3 DEF Sound, Claimed, Decisions
<1>2. CASE ~(led.warned \/ now - led.last_progress < ElapsedWarning)
  <2>1. ElapsedWarned(led, now) = Result([led EXCEPT !.warned = TRUE], "warn_once")
    BY <1>2 DEF ElapsedWarned
  <2> DEFINE claimed == [led EXCEPT !.warned = TRUE]
  <2>2. claimed \in Ledgers
    BY DEF Ledgers
  <2>3. claimed.warned = TRUE
    BY DEF Ledgers
  <2>4. ElapsedWarned(led, now).ledger = claimed /\ ElapsedWarned(led, now).decision = "warn_once"
    BY <2>1 DEF Result
  <2>5. ~led.warned
    BY <1>2
  <2> HIDE DEF claimed
  <2>6. Claimed(led, ElapsedWarned(led, now))
    BY <2>3, <2>4, <2>5 DEF Claimed
  <2>7. Sound(ElapsedWarned(led, now))
    BY <2>2, <2>4 DEF Sound, Decisions
  <2>8. QED
    BY <2>4, <2>6, <2>7 DEF claimed
<1>3. QED
  BY <1>1, <1>2

\* A tool request: what it may change, and when it lets the tool run.
LEMMA BeforeToolSound ==
    ASSUME NEW led \in Ledgers, Persistable(led), NEW fp \in Fingerprints, NEW kind \in Kinds,
           NEW isChild \in BOOLEAN, NEW now \in Nat
    PROVE  LET result == BeforeTool(led, fp, kind, isChild, now)
           IN  /\ Sound(result)
               /\ Persistable(result.ledger)
               /\ Monotone(led, result)
               /\ LetsRun(result.decision) =>
                     /\ ~led.terminal
                     /\ kind = "verifier" => ~Remembered(led, fp)
                     /\ kind = "spawn" => /\ led.total_agents < MaxTotalAgents
                                         /\ result.ledger.total_agents = led.total_agents + 1
<1> DEFINE result == BeforeTool(led, fp, kind, isChild, now)
<1> USE DEF LetsRun, Sound, Claimed, Monotone, Result, Decisions, Denials
<1>1. ASSUME NEW d \in {"stop_turn"} \cup Denials, result = Result(led, d)
      PROVE  /\ Sound(result) /\ Persistable(result.ledger) /\ Monotone(led, result)
             /\ ~LetsRun(result.decision)
  <2>1. result.ledger = led /\ result.decision = d
    BY <1>1
  <2>2. led.total_agents \in Nat
    BY DEF Ledgers
  <2>3. QED
    BY <2>1, <2>2
<1>2. CASE result = BeforeSpawn(led, isChild) /\ ~led.terminal /\ kind = "spawn"
  <2> DEFINE granted == [led EXCEPT !.pending_spawns = @ + 1, !.total_agents = @ + 1]
  <2>1. CASE result = Result(granted, "pass") /\ led.total_agents < MaxTotalAgents
    <3>1. result.ledger = granted /\ result.decision = "pass"
      BY <2>1
    <3>2. granted \in Ledgers
      <4>1. led.pending_spawns + 1 \in Nat /\ led.total_agents + 1 \in Nat
        BY DEF Ledgers
      <4>2. [led EXCEPT !.pending_spawns = led.pending_spawns + 1,
                        !.total_agents = led.total_agents + 1] \in Ledgers
        BY <4>1, Zenon DEF Ledgers
      <4>3. QED
        BY <4>2
    <3>3. granted.total_agents = led.total_agents + 1 /\ led.total_agents \in Nat
      BY DEF Ledgers
    <3>4. /\ granted.actions = led.actions
          /\ granted.verifier_results = led.verifier_results
          /\ granted.active_agents = led.active_agents
          /\ granted.warned = led.warned
      BY DEF Ledgers
    <3> HIDE DEF granted
    <3>5. Persistable(granted)
      BY <3>4 DEF Persistable
    <3>6. Monotone(led, result)
      BY <1>2, <3>1, <3>3, <3>4 DEF Remembered
    <3>7. QED
      BY <1>2, <2>1, <3>1, <3>2, <3>3, <3>5, <3>6
  <2>2. CASE \E d \in Denials : result = Result(led, d)
    BY <1>1, <2>2
  <2>3. \/ result = Result(granted, "pass") /\ led.total_agents < MaxTotalAgents
        \/ \E d \in Denials : result = Result(led, d)
    BY <1>2, LimitsAssumption DEF BeforeSpawn, Ledgers
  <2>4. QED
    BY <2>1, <2>2, <2>3
<1>3. CASE /\ result = ElapsedWarned(led, now)
           /\ ~led.terminal /\ kind # "spawn"
           /\ ~(kind = "verifier" /\ Remembered(led, fp))
  <2>1. PICK w \in BOOLEAN : result.ledger = [led EXCEPT !.warned = w]
    BY <1>3, ElapsedWarnedSound
  <2>2. Sound(result) /\ Claimed(led, result)
    BY <1>3, ElapsedWarnedSound
  <2>3. /\ result.ledger.actions = led.actions
        /\ result.ledger.verifier_results = led.verifier_results
        /\ result.ledger.active_agents = led.active_agents
        /\ result.ledger.total_agents = led.total_agents
        /\ led.total_agents \in Nat
    BY <2>1 DEF Ledgers
  <2>4. Persistable(result.ledger)
    BY <2>3 DEF Persistable
  <2>5. Monotone(led, result)
    BY <1>3, <2>2, <2>3 DEF Remembered
  <2>6. QED
    BY <1>3, <2>2, <2>4, <2>5
<1>4. QED
  BY <1>1, <1>2, <1>3 DEF BeforeTool

\* An edit that succeeded opens the next epoch with empty memories; it keeps the agents
\* counted and the claim of the warning.
LEMMA AfterEditSound ==
    ASSUME NEW led \in Ledgers, Persistable(led), NEW now \in Nat
    PROVE  /\ AfterEdit(led, now) \in Ledgers
           /\ Persistable(AfterEdit(led, now))
           /\ AfterEdit(led, now).total_agents = led.total_agents
           /\ AfterEdit(led, now).warned = led.warned
           /\ AfterEdit(led, now).terminal = led.terminal
<1>1. << >> \in Seq(ActionRecords) /\ << >> \in Memory /\ led.edit_epoch + 1 \in Nat /\ 0 \in Nat
  BY DEF Memory, Ledgers
<1>2. AfterEdit(led, now) \in Ledgers
  BY <1>1, Zenon DEF AfterEdit, Ledgers, Memory
<1>3. /\ AfterEdit(led, now).actions = << >>
      /\ AfterEdit(led, now).verifier_results = << >>
      /\ AfterEdit(led, now).active_agents = led.active_agents
      /\ AfterEdit(led, now).total_agents = led.total_agents
      /\ AfterEdit(led, now).warned = led.warned
      /\ AfterEdit(led, now).terminal = led.terminal
  BY DEF AfterEdit, Ledgers
<1>4. Persistable(AfterEdit(led, now))
  BY <1>3, LimitsAssumption DEF Persistable
<1>5. QED
  BY <1>2, <1>3, <1>4

\* Every other outcome of a tool: a verifier is remembered, agents stay counted.
LEMMA AfterOtherSound ==
    ASSUME NEW led \in Ledgers, Persistable(led), ~led.terminal, NEW fp \in Fingerprints,
           NEW kind \in Kinds, NEW outcome \in Outcomes, NEW now \in Nat
    PROVE  LET result == AfterOther(led, fp, kind, outcome, now)
           IN  /\ Sound(result)
               /\ Persistable(result.ledger)
               /\ Monotone(led, result)
               /\ kind = "verifier" => Remembered(result.ledger, fp)
<1> DEFINE freed == IF kind = "spawn" /\ outcome = "fail" /\ led.pending_spawns > 0
                    THEN led.pending_spawns - 1 ELSE led.pending_spawns
           counted == [led EXCEPT !.pending_spawns = freed,
                                  !.actions = RecordAction(led, fp, outcome)]
           progressed == ~Repeats(led, fp, outcome)
           memory == RememberVerifier(led, fp)
           verified == [counted EXCEPT
                           !.verifier_results = memory,
                           !.compact_streak = IF progressed THEN 0 ELSE @,
                           !.last_progress = IF progressed THEN now ELSE @]
           warn == [counted EXCEPT !.warned = TRUE]
           result == AfterOther(led, fp, kind, outcome, now)
<1>1. /\ led.total_agents \in Nat
      /\ led.pending_spawns \in Nat
      /\ led.verifier_results \in Memory
      /\ led.compact_streak \in Nat
      /\ led.last_progress \in Nat
  BY DEF Ledgers, Memory
<1>2. counted \in Ledgers
  <2>1. freed \in Nat
    BY <1>1
  <2>2. RecordAction(led, fp, outcome) \in Seq(ActionRecords)
    BY RecordActionType
  <2>3. QED
    BY <2>1, <2>2, Zenon DEF Ledgers
<1>3. /\ counted.actions = RecordAction(led, fp, outcome)
      /\ counted.verifier_results = led.verifier_results
      /\ counted.active_agents = led.active_agents
      /\ counted.total_agents = led.total_agents
      /\ counted.warned = led.warned
      /\ counted.terminal = led.terminal
      /\ counted.compact_streak = led.compact_streak
      /\ counted.last_progress = led.last_progress
  BY DEF Ledgers
<1>4. Persistable(counted)
  BY <1>3, RecordActionType DEF Persistable
<1>5. /\ memory \in Memory
      /\ Len(memory) <= MaxVerifierResults
      /\ \A v \in Fingerprints :
            v = fp \/ Remembered(led, v)
              => \E i \in DOMAIN memory : memory[i] \in {OverflowMark, v}
  BY RememberVerifierKeeps DEF Persistable
<1> HIDE DEF counted, memory
<1>6. verified \in Ledgers
  <2>1. /\ (IF progressed THEN 0 ELSE counted.compact_streak) \in Nat
        /\ (IF progressed THEN now ELSE counted.last_progress) \in Nat
    BY <1>1, <1>3
  <2>2. QED
    BY <1>2, <1>5, <2>1, Zenon DEF Ledgers, Memory
<1>7. /\ verified.actions = counted.actions
      /\ verified.verifier_results = memory
      /\ verified.active_agents = counted.active_agents
      /\ verified.total_agents = counted.total_agents
      /\ verified.warned = counted.warned
  BY <1>2 DEF Ledgers
<1> HIDE DEF verified
<1>8. CASE kind = "verifier" /\ result = ElapsedWarned(verified, now)
  <2>1. PICK w \in BOOLEAN : result.ledger = [verified EXCEPT !.warned = w]
    BY <1>6, <1>8, ElapsedWarnedSound
  <2>2. Sound(result) /\ Claimed(verified, result)
    BY <1>6, <1>8, ElapsedWarnedSound
  <2>3. /\ result.ledger.actions = counted.actions
        /\ result.ledger.verifier_results = memory
        /\ result.ledger.active_agents = counted.active_agents
        /\ result.ledger.total_agents = led.total_agents
    BY <1>3, <1>6, <1>7, <2>1 DEF Ledgers
  <2>4. Persistable(result.ledger)
    BY <1>4, <1>5, <2>3 DEF Persistable
  <2>5. \A v \in Fingerprints : v = fp \/ Remembered(led, v) => Remembered(result.ledger, v)
    BY <1>5, <2>3 DEF Remembered
  <2>6. Claimed(led, result)
    BY <1>3, <1>7, <2>2 DEF Claimed
  <2>7. QED
    BY <1>1, <2>2, <2>3, <2>4, <2>5, <2>6 DEF Monotone
<1>9. CASE kind # "verifier" /\ ~counted.warned /\ result = Result(warn, "warn_once")
  <2>1. warn \in Ledgers
    BY <1>2 DEF Ledgers
  <2>2. /\ warn.actions = counted.actions
        /\ warn.verifier_results = counted.verifier_results
        /\ warn.active_agents = counted.active_agents
        /\ warn.total_agents = counted.total_agents
        /\ warn.warned = TRUE
    BY <1>2 DEF Ledgers
  <2>3. result.ledger = warn /\ result.decision = "warn_once"
    BY <1>9 DEF Result
  <2> HIDE DEF warn
  <2>4. Persistable(warn)
    BY <1>4, <2>2 DEF Persistable
  <2>5. Monotone(led, result)
    BY <1>1, <1>3, <1>9, <2>2, <2>3 DEF Monotone, Claimed, Remembered
  <2>6. QED
    BY <1>9, <2>1, <2>3, <2>4, <2>5 DEF Sound, Decisions
<1>10. CASE kind # "verifier" /\ result = ElapsedWarned(counted, now)
  <2>1. PICK w \in BOOLEAN : result.ledger = [counted EXCEPT !.warned = w]
    BY <1>2, <1>10, ElapsedWarnedSound
  <2>2. Sound(result) /\ Claimed(counted, result)
    BY <1>2, <1>10, ElapsedWarnedSound
  <2>3. /\ result.ledger.actions = counted.actions
        /\ result.ledger.verifier_results = counted.verifier_results
        /\ result.ledger.active_agents = counted.active_agents
        /\ result.ledger.total_agents = led.total_agents
    BY <1>2, <1>3, <2>1 DEF Ledgers
  <2>4. Persistable(result.ledger)
    BY <1>4, <2>3 DEF Persistable
  <2>5. Monotone(led, result)
    BY <1>1, <1>3, <2>2, <2>3 DEF Monotone, Claimed, Remembered
  <2>6. QED
    BY <1>10, <2>2, <2>4, <2>5
<1>11. QED
  BY <1>8, <1>9, <1>10 DEF AfterOther, counted, verified, memory

\* The elapsed-time check after a change that keeps what Monotone protects.
LEMMA WarnedAfter ==
    ASSUME NEW led \in Ledgers, NEW next \in Ledgers, NEW now \in Nat, ~led.terminal,
           next.total_agents >= led.total_agents,
           next.verifier_results = led.verifier_results,
           next.warned = led.warned
    PROVE  LET result == ElapsedWarned(next, now)
           IN  /\ Sound(result)
               /\ Monotone(led, result)
               /\ Persistable(next) => Persistable(result.ledger)
<1> DEFINE result == ElapsedWarned(next, now)
<1>1. PICK w \in BOOLEAN : result.ledger = [next EXCEPT !.warned = w]
  BY ElapsedWarnedSound
<1>2. Sound(result) /\ Claimed(next, result)
  BY ElapsedWarnedSound
<1>3. /\ result.ledger.actions = next.actions
      /\ result.ledger.verifier_results = led.verifier_results
      /\ result.ledger.active_agents = next.active_agents
      /\ result.ledger.total_agents = next.total_agents
      /\ result.ledger.verifier_results = next.verifier_results
  BY <1>1 DEF Ledgers
<1>4. Monotone(led, result)
  BY <1>2, <1>3 DEF Monotone, Claimed, Remembered
<1>5. Persistable(next) => Persistable(result.ledger)
  BY <1>3 DEF Persistable
<1>6. QED
  BY <1>2, <1>4, <1>5

\* A turn that was stopped answers every event by a stop and no change.
LEMMA StopSound ==
    ASSUME NEW led \in Ledgers
    PROVE  /\ Sound(Result(led, "stop_turn"))
           /\ Monotone(led, Result(led, "stop_turn"))
           /\ Result(led, "stop_turn").ledger = led
<1>1. Result(led, "stop_turn").ledger = led /\ Result(led, "stop_turn").decision = "stop_turn"
  BY DEF Result
<1>2. led.total_agents \in Nat
  BY DEF Ledgers
<1>3. QED
  BY <1>1, <1>2 DEF Sound, Monotone, Claimed, Decisions

\* The start of a child never lowers the number of agents counted.
LEMMA SubagentStartedSound ==
    ASSUME NEW led \in Ledgers, NEW agent \in Agents, NEW now \in Nat
    PROVE  LET result == SubagentStarted(led, agent, now)
           IN  Sound(result) /\ Monotone(led, result)
<1> DEFINE reserved == led.pending_spawns > 0
           started == [led EXCEPT !.active_agents = @ \cup {agent},
                                  !.pending_spawns = IF reserved THEN @ - 1 ELSE 0,
                                  !.total_agents = IF reserved THEN @ ELSE @ + 1]
           result == SubagentStarted(led, agent, now)
<1>1. /\ led.active_agents \cup {agent} \in SUBSET Agents
      /\ (IF reserved THEN led.pending_spawns - 1 ELSE 0) \in Nat
      /\ (IF reserved THEN led.total_agents ELSE led.total_agents + 1) \in Nat
      /\ led.total_agents \in Nat
  BY DEF Ledgers
<1>2. started \in Ledgers
  BY <1>1, Zenon DEF Ledgers
<1>3. /\ started.total_agents = IF reserved THEN led.total_agents ELSE led.total_agents + 1
      /\ started.verifier_results = led.verifier_results
      /\ started.warned = led.warned
  BY DEF Ledgers
<1>4. started.total_agents >= led.total_agents
  BY <1>1, <1>3
<1> HIDE DEF started
<1>5. CASE led.terminal
  BY <1>5, StopSound DEF SubagentStarted
<1>6. CASE ~led.terminal /\ agent \in led.active_agents
  BY <1>1, <1>6, WarnedAfter DEF SubagentStarted
<1>7. CASE ~led.terminal /\ agent \notin led.active_agents
  <2>1. result = ElapsedWarned(started, now)
    BY <1>7 DEF SubagentStarted, started
  <2>2. QED
    BY <1>2, <1>3, <1>4, <1>7, <2>1, WarnedAfter
<1>8. QED
  BY <1>5, <1>6, <1>7

\* The end of a child leaves a ledger that can be written.
LEMMA SubagentStoppedSound ==
    ASSUME NEW led \in Ledgers, Persistable(led), NEW agent \in Agents, NEW now \in Nat
    PROVE  LET result == SubagentStopped(led, agent, now)
           IN  Sound(result) /\ Monotone(led, result) /\ Persistable(result.ledger)
<1> DEFINE stopped == [led EXCEPT !.active_agents = @ \ {agent}]
<1>1. stopped \in Ledgers /\ led.active_agents \subseteq Agents /\ led.total_agents \in Nat
  BY DEF Ledgers
<1>2. /\ stopped.total_agents = led.total_agents
      /\ stopped.actions = led.actions
      /\ stopped.verifier_results = led.verifier_results
      /\ stopped.active_agents = led.active_agents \ {agent}
      /\ stopped.warned = led.warned
  BY DEF Ledgers
<1>3. Cardinality(led.active_agents \ {agent}) <= MaxConcurrentAgents
  <2>1. IsFiniteSet(led.active_agents)
    BY <1>1, AgentsAssumption, FS_Subset
  <2>2. /\ Cardinality(led.active_agents \ {agent}) <= Cardinality(led.active_agents)
        /\ Cardinality(led.active_agents \ {agent}) \in Nat
        /\ Cardinality(led.active_agents) \in Nat
    <3>1. led.active_agents \ {agent} \subseteq led.active_agents
      OBVIOUS
    <3>2. QED
      BY <2>1, <3>1, FS_Subset, FS_CardinalityType
  <2>3. QED
    BY <2>2, LimitsAssumption DEF Persistable
<1>4. Persistable(stopped)
  BY <1>2, <1>3 DEF Persistable
<1> HIDE DEF stopped
<1>5. CASE led.terminal
  BY <1>5, StopSound DEF SubagentStopped
<1>6. CASE ~led.terminal
  <2>1. SubagentStopped(led, agent, now) = ElapsedWarned(stopped, now)
    BY <1>6 DEF SubagentStopped, stopped
  <2>2. QED
    BY <1>1, <1>2, <1>4, <1>6, <2>1, WarnedAfter
<1>7. QED
  BY <1>5, <1>6

\* A compaction counts or stops; it touches no budget and no memory.
LEMMA CompactedSound ==
    ASSUME NEW led \in Ledgers, Persistable(led), NEW phase, NEW trigger, NEW now \in Nat
    PROVE  LET result == Compacted(led, phase, trigger, now)
           IN  Sound(result) /\ Monotone(led, result) /\ Persistable(result.ledger)
<1> DEFINE counted == [led EXCEPT !.compact_streak = @ + 1]
           stopped == [counted EXCEPT !.terminal = TRUE]
           result == Compacted(led, phase, trigger, now)
<1>1. led.compact_streak + 1 \in Nat /\ led.total_agents \in Nat
  BY DEF Ledgers
<1>2. counted \in Ledgers
  BY <1>1, Zenon DEF Ledgers
<1>3. /\ counted.total_agents = led.total_agents
      /\ counted.actions = led.actions
      /\ counted.verifier_results = led.verifier_results
      /\ counted.active_agents = led.active_agents
      /\ counted.warned = led.warned
  BY DEF Ledgers
<1> HIDE DEF counted
<1>4. stopped \in Ledgers
  BY <1>2 DEF Ledgers
<1>5. /\ stopped.total_agents = led.total_agents
      /\ stopped.actions = led.actions
      /\ stopped.verifier_results = led.verifier_results
      /\ stopped.active_agents = led.active_agents
      /\ stopped.warned = led.warned
  BY <1>2, <1>3 DEF Ledgers
<1> HIDE DEF stopped
<1>6. Persistable(counted) /\ Persistable(stopped)
  BY <1>3, <1>5 DEF Persistable
<1>7. CASE led.terminal
  BY <1>7, StopSound DEF Compacted
<1>8. CASE ~led.terminal /\ result = Result(stopped, "stop_turn")
  <2>1. result.ledger = stopped /\ result.decision = "stop_turn"
    BY <1>8 DEF Result
  <2>2. QED
    BY <1>1, <1>4, <1>5, <1>6, <1>8, <2>1 DEF Sound, Monotone, Claimed, Remembered, Decisions
<1>9. CASE ~led.terminal /\ result = ElapsedWarned(counted, now)
  BY <1>1, <1>2, <1>3, <1>6, <1>9, WarnedAfter
<1>10. CASE ~led.terminal /\ result = ElapsedWarned(led, now)
  BY <1>1, <1>10, WarnedAfter
<1>11. QED
  BY <1>7, <1>8, <1>9, <1>10 DEF Compacted, counted, stopped
-----------------------------------------------------------------------------
(***************************************************************************)
(* What each transition changes, field by field.                           *)
(***************************************************************************)
\* Removing an element moves those behind it up by one.
LEMMA RemoveAtElements ==
    ASSUME NEW S, NEW seq \in Seq(S), NEW i \in 1 .. Len(seq)
    PROVE  /\ Len(RemoveAt(seq, i)) = Len(seq) - 1
           /\ \A k \in 1 .. Len(seq) - 1 :
                 RemoveAt(seq, i)[k] = IF k < i THEN seq[k] ELSE seq[k + 1]
<1> DEFINE before == SubSeq(seq, 1, i - 1)
           after == SubSeq(seq, i + 1, Len(seq))
<1>1. Len(seq) \in Nat /\ \A j \in 1 .. Len(seq) : seq[j] \in S
  BY LenProperties
<1>2. /\ before \in Seq(S) /\ Len(before) = i - 1
      /\ \A k \in 1 .. i - 1 : before[k] = seq[k]
  <2>1. \A j \in 1 .. i - 1 : seq[j] \in S
    BY <1>1
  <2>2. /\ before \in Seq(S)
        /\ Len(before) = IF 1 <= i - 1 THEN i - 1 - 1 + 1 ELSE 0
        /\ \A k \in 1 .. i - 1 - 1 + 1 : before[k] = seq[1 + k - 1]
    BY <1>1, <2>1, SubSeqProperties
  <2>3. QED
    BY <1>1, <2>2
<1>3. /\ after \in Seq(S) /\ Len(after) = Len(seq) - i
      /\ \A k \in 1 .. Len(seq) - i : after[k] = seq[k + i]
  <2>1. \A j \in i + 1 .. Len(seq) : seq[j] \in S
    BY <1>1
  <2>2. /\ after \in Seq(S)
        /\ Len(after) = IF i + 1 <= Len(seq) THEN Len(seq) - (i + 1) + 1 ELSE 0
        /\ \A k \in 1 .. Len(seq) - (i + 1) + 1 : after[k] = seq[i + 1 + k - 1]
    BY <1>1, <2>1, SubSeqProperties
  <2>3. QED
    BY <1>1, <2>2
<1>4. RemoveAt(seq, i) = before \o after
  BY DEF RemoveAt
<1> HIDE DEF before, after
<1>5. /\ Len(before \o after) = Len(before) + Len(after)
      /\ \A k \in 1 .. Len(before) + Len(after) :
            (before \o after)[k] = IF k <= Len(before) THEN before[k] ELSE after[k - Len(before)]
  BY <1>2, <1>3, ConcatProperties
<1>6. QED
  BY <1>1, <1>2, <1>3, <1>4, <1>5

\* seq[-n:] consists of the last elements in their order.
LEMMA KeepLastElements ==
    ASSUME NEW S, NEW seq \in Seq(S), NEW n \in Nat
    PROVE  \E d \in Nat :
              /\ Len(KeepLast(seq, n)) = Len(seq) - d
              /\ \A k \in 1 .. Len(seq) - d : KeepLast(seq, n)[k] = seq[k + d]
              /\ d = IF Len(seq) > n THEN Len(seq) - n ELSE 0
<1>1. Len(seq) \in Nat /\ \A j \in 1 .. Len(seq) : seq[j] \in S
  BY LenProperties
<1>2. CASE Len(seq) > n
  <2> DEFINE m == Len(seq) - n + 1
  <2>1. m \in Int /\ \A j \in m .. Len(seq) : seq[j] \in S
    BY <1>1, <1>2
  <2>2. /\ Len(SubSeq(seq, m, Len(seq))) = IF m <= Len(seq) THEN Len(seq) - m + 1 ELSE 0
        /\ \A k \in 1 .. Len(seq) - m + 1 : SubSeq(seq, m, Len(seq))[k] = seq[m + k - 1]
    BY <1>1, <2>1, SubSeqProperties
  <2>3. KeepLast(seq, n) = SubSeq(seq, m, Len(seq))
    BY <1>2 DEF KeepLast
  <2>4. /\ Len(seq) - n \in Nat
        /\ Len(KeepLast(seq, n)) = Len(seq) - (Len(seq) - n)
        /\ \A k \in 1 .. Len(seq) - (Len(seq) - n) : KeepLast(seq, n)[k] = seq[k + (Len(seq) - n)]
    BY <1>1, <1>2, <2>2, <2>3
  <2>5. QED
    BY <1>2, <2>4
<1>3. CASE ~(Len(seq) > n)
  BY <1>1, <1>3 DEF KeepLast
<1>4. QED
  BY <1>2, <1>3

\* The ledger keeps one record of a fingerprint, and all of them in the present epoch.
Tidy(led) ==
    /\ \A i \in DOMAIN led.actions : led.actions[i].edit_epoch = led.edit_epoch
    /\ \A i, j \in DOMAIN led.actions :
          led.actions[i].fingerprint = led.actions[j].fingerprint => i = j

NewRecord(led, fp, outcome) ==
    [ fingerprint |-> fp, outcome |-> outcome,
      streak |-> NextStreak(led, fp, outcome), edit_epoch |-> led.edit_epoch ]

\* In a tidy ledger the record of a fingerprint is wherever there is one.
LEMMA TidyAction ==
    ASSUME NEW led \in Ledgers, Tidy(led), NEW i \in DOMAIN led.actions
    PROVE  LET fp == led.actions[i].fingerprint
           IN  /\ PositionOf(led, fp) = i
               /\ HasCurrentAction(led, fp)
               /\ CurrentAction(led, fp) = led.actions[i]
<1> DEFINE fp == led.actions[i].fingerprint
<1>1. Recorded(led, fp)
  BY DEF Recorded
<1>2. PositionOf(led, fp) \in DOMAIN led.actions /\ led.actions[PositionOf(led, fp)].fingerprint = fp
  BY <1>1 DEF Recorded, PositionOf
<1>3. PositionOf(led, fp) = i
  BY <1>2 DEF Tidy
<1>4. QED
  BY <1>1, <1>3 DEF Tidy, HasCurrentAction, CurrentAction

\* Recording an outcome keeps the ledger tidy, puts the new record in and keeps the other
\* records of other fingerprints: all of them if there is room.
LEMMA RecordActionContents ==
    ASSUME NEW led \in Ledgers, Tidy(led), NEW fp \in Fingerprints, NEW outcome \in Outcomes
    PROVE  LET acts == RecordAction(led, fp, outcome)
           IN  /\ \E k \in DOMAIN acts : acts[k] = NewRecord(led, fp, outcome)
               /\ \A k \in DOMAIN acts :
                     \/ acts[k] = NewRecord(led, fp, outcome)
                     \/ \E i \in DOMAIN led.actions :
                           acts[k] = led.actions[i] /\ acts[k].fingerprint # fp
               /\ \A k, l \in DOMAIN acts : acts[k].fingerprint = acts[l].fingerprint => k = l
               /\ Len(WithoutFingerprint(led, fp)) < MaxActions =>
                     \A i \in DOMAIN led.actions :
                        led.actions[i].fingerprint # fp =>
                           \E k \in DOMAIN acts : acts[k] = led.actions[i]
<1> DEFINE acts == led.actions
           rest == WithoutFingerprint(led, fp)
           new == NewRecord(led, fp, outcome)
           longer == Append(rest, new)
           kept == RecordAction(led, fp, outcome)
<1>1. acts \in Seq(ActionRecords) /\ Len(acts) \in Nat /\ DOMAIN acts = 1 .. Len(acts)
  BY LenProperties DEF Ledgers
<1>2. /\ rest \in Seq(ActionRecords) /\ Len(rest) \in Nat /\ DOMAIN rest = 1 .. Len(rest)
      /\ \A k \in 1 .. Len(rest) :
            \E i \in 1 .. Len(acts) : rest[k] = acts[i] /\ acts[i].fingerprint # fp
      /\ \A k, l \in 1 .. Len(rest) : rest[k].fingerprint = rest[l].fingerprint => k = l
      /\ \A i \in 1 .. Len(acts) :
            acts[i].fingerprint # fp => \E k \in 1 .. Len(rest) : rest[k] = acts[i]
  <2>1. CASE Recorded(led, fp)
    <3> DEFINE p == PositionOf(led, fp)
    <3>1. p \in 1 .. Len(acts) /\ acts[p].fingerprint = fp
      BY <1>1, <2>1 DEF Recorded, PositionOf
    <3>2. \A i \in 1 .. Len(acts) : i # p => acts[i].fingerprint # fp
      BY <1>1, <3>1 DEF Tidy
    <3>3. rest = RemoveAt(acts, p)
      BY <2>1 DEF WithoutFingerprint
    <3> HIDE DEF p
    <3>4. /\ rest \in Seq(ActionRecords) /\ Len(rest) = Len(acts) - 1
          /\ \A k \in 1 .. Len(acts) - 1 : rest[k] = IF k < p THEN acts[k] ELSE acts[k + 1]
      BY <1>1, <3>1, <3>3, RemoveAtType, RemoveAtElements
    <3> HIDE DEF rest
    <3>5. Len(rest) \in Nat /\ DOMAIN rest = 1 .. Len(rest)
      BY <3>4, LenProperties
    <3>6. ASSUME NEW k \in 1 .. Len(rest)
          PROVE  \E i \in 1 .. Len(acts) : rest[k] = acts[i] /\ acts[i].fingerprint # fp
      <4>1. CASE k < p
        <5>1. k \in 1 .. Len(acts) /\ rest[k] = acts[k] /\ k # p
          BY <1>1, <3>1, <3>4, <4>1
        <5>2. QED
          BY <3>2, <5>1
      <4>2. CASE ~(k < p)
        <5>1. k + 1 \in 1 .. Len(acts) /\ rest[k] = acts[k + 1] /\ k + 1 # p
          BY <1>1, <3>1, <3>4, <4>2
        <5>2. QED
          BY <3>2, <5>1
      <4>3. QED
        BY <4>1, <4>2
    <3>7. ASSUME NEW k \in 1 .. Len(rest), NEW l \in 1 .. Len(rest),
                 rest[k].fingerprint = rest[l].fingerprint
          PROVE  k = l
      <4> DEFINE from(m) == IF m < p THEN m ELSE m + 1
      <4>1. /\ from(k) \in 1 .. Len(acts) /\ rest[k] = acts[from(k)]
            /\ from(l) \in 1 .. Len(acts) /\ rest[l] = acts[from(l)]
        BY <1>1, <3>1, <3>4
      <4>2. from(k) = from(l)
        BY <1>1, <3>7, <4>1 DEF Tidy
      <4>3. QED
        BY <1>1, <3>1, <4>2
    <3>8. ASSUME NEW i \in 1 .. Len(acts), acts[i].fingerprint # fp
          PROVE  \E k \in 1 .. Len(rest) : rest[k] = acts[i]
      <4>1. i # p
        BY <3>1, <3>8
      <4>2. CASE i < p
        BY <1>1, <3>1, <3>4, <4>2
      <4>3. CASE i > p
        <5>1. i - 1 \in 1 .. Len(rest) /\ rest[i - 1] = acts[i]
          BY <1>1, <3>1, <3>4, <4>3
        <5>2. QED
          BY <5>1
      <4>4. QED
        BY <3>1, <4>1, <4>2, <4>3
    <3>9. QED
      BY <3>4, <3>5, <3>6, <3>7, <3>8
  <2>2. CASE ~Recorded(led, fp)
    <3>1. rest = acts
      BY <2>2 DEF WithoutFingerprint
    <3>2. QED
      BY <1>1, <2>2, <3>1 DEF Recorded, Tidy
  <2>3. QED
    BY <2>1, <2>2
<1> HIDE DEF rest
<1>3. new \in ActionRecords /\ new.fingerprint = fp
  <2>1. NextStreak(led, fp, outcome) \in Nat
    <3>1. Repeats(led, fp, outcome) => CurrentAction(led, fp) \in ActionRecords
      BY <1>1 DEF Repeats, HasCurrentAction, CurrentAction, Recorded, PositionOf
    <3>2. QED
      BY <3>1 DEF NextStreak, ActionRecords
  <2>2. led.edit_epoch \in Nat
    BY DEF Ledgers
  <2>3. QED
    BY <2>1, <2>2 DEF NewRecord, ActionRecords
<1> HIDE DEF new
<1>4. /\ longer \in Seq(ActionRecords) /\ Len(longer) = Len(rest) + 1
      /\ longer[Len(rest) + 1] = new
      /\ \A k \in 1 .. Len(rest) : longer[k] = rest[k]
  BY <1>2, <1>3
<1>5. kept = KeepLast(longer, MaxActions)
  BY DEF RecordAction, rest, new, NewRecord
<1> HIDE DEF longer
<1>6. PICK d \in Nat :
         /\ Len(kept) = Len(longer) - d
         /\ \A k \in 1 .. Len(longer) - d : kept[k] = longer[k + d]
         /\ d = IF Len(longer) > MaxActions THEN Len(longer) - MaxActions ELSE 0
  <2>1. MaxActions \in Nat
    BY LimitsAssumption
  <2>2. \E d \in Nat :
           /\ Len(KeepLast(longer, MaxActions)) = Len(longer) - d
           /\ \A k \in 1 .. Len(longer) - d : KeepLast(longer, MaxActions)[k] = longer[k + d]
           /\ d = IF Len(longer) > MaxActions THEN Len(longer) - MaxActions ELSE 0
    BY <1>4, <2>1, KeepLastElements
  <2> HIDE DEF kept
  <2>3. QED
    BY <1>5, <2>2
<1>7. kept \in Seq(ActionRecords) /\ DOMAIN kept = 1 .. Len(kept)
  BY RecordActionType, LenProperties
<1> HIDE DEF kept
<1>8. d <= Len(rest) /\ Len(kept) = Len(rest) + 1 - d
  BY <1>2, <1>4, <1>6, LimitsAssumption
<1>9. ASSUME NEW k \in 1 .. Len(kept)
      PROVE  \/ k = Len(kept) /\ kept[k] = new
             \/ k + d \in 1 .. Len(rest) /\ kept[k] = rest[k + d]
  <2>1. kept[k] = longer[k + d] /\ Len(longer) - d = Len(kept)
    BY <1>2, <1>4, <1>6
  <2>2. k + d \in 1 .. Len(rest) + 1
    BY <1>2, <1>8
  <2>3. CASE k + d = Len(rest) + 1
    <3>1. k = Len(kept)
      BY <1>2, <1>8, <2>3
    <3>2. QED
      BY <1>4, <2>1, <2>3, <3>1
  <2>4. CASE k + d # Len(rest) + 1
    <3>1. k + d \in 1 .. Len(rest)
      BY <1>2, <2>2, <2>4
    <3>2. QED
      BY <1>4, <2>1, <3>1
  <2>5. QED
    BY <2>3, <2>4
<1>10. \E k \in DOMAIN kept : kept[k] = new
  <2>1. Len(kept) \in 1 .. Len(kept) /\ Len(kept) \in 1 .. Len(longer) - d
        /\ Len(kept) + d = Len(rest) + 1
    BY <1>2, <1>4, <1>6, <1>8
  <2>2. kept[Len(kept)] = new
    BY <1>4, <1>6, <2>1
  <2>3. QED
    BY <1>7, <2>1, <2>2
<1>11. ASSUME NEW k \in DOMAIN kept
       PROVE  kept[k] = new \/ \E i \in DOMAIN acts : kept[k] = acts[i] /\ kept[k].fingerprint # fp
  <2>1. CASE kept[k] = new
    BY <2>1
  <2>2. CASE k + d \in 1 .. Len(rest) /\ kept[k] = rest[k + d]
    <3>1. PICK i \in 1 .. Len(acts) : rest[k + d] = acts[i] /\ acts[i].fingerprint # fp
      BY <1>2, <2>2
    <3>2. QED
      BY <1>1, <2>2, <3>1
  <2>3. QED
    BY <1>7, <1>9, <2>1, <2>2
<1>12. ASSUME NEW k \in DOMAIN kept, NEW l \in DOMAIN kept,
              kept[k].fingerprint = kept[l].fingerprint
       PROVE  k = l
  <2> DEFINE Old(m) == m + d \in 1 .. Len(rest) /\ kept[m] = rest[m + d]
  <2>1. \A m \in 1 .. Len(rest) : rest[m].fingerprint # fp
    BY <1>2
  <2>2. /\ k \in 1 .. Len(kept) /\ l \in 1 .. Len(kept)
        /\ Old(k) \/ (k = Len(kept) /\ kept[k] = new)
        /\ Old(l) \/ (l = Len(kept) /\ kept[l] = new)
    BY <1>7, <1>9
  <2>3. CASE Old(k) /\ Old(l)
    <3>1. k + d = l + d
      BY <1>2, <1>12, <2>3
    <3>2. QED
      BY <2>2, <3>1
  <2>4. CASE ~(Old(k) /\ Old(l))
    <3>1. Old(k) => kept[k].fingerprint # fp
      BY <2>1
    <3>2. Old(l) => kept[l].fingerprint # fp
      BY <2>1
    <3> HIDE DEF Old
    <3>3. QED
      BY <1>3, <1>12, <2>2, <2>4, <3>1, <3>2
  <2>5. QED
    BY <2>3, <2>4
<1>13. ASSUME Len(rest) < MaxActions, NEW i \in DOMAIN acts, acts[i].fingerprint # fp
       PROVE  \E k \in DOMAIN kept : kept[k] = acts[i]
  <2>1. d = 0
    BY <1>2, <1>4, <1>6, <1>13, LimitsAssumption
  <2>2. PICK k \in 1 .. Len(rest) : rest[k] = acts[i]
    BY <1>1, <1>2, <1>13
  <2>3. k \in 1 .. Len(kept) /\ k \in 1 .. Len(longer) - d /\ k + d = k
    BY <1>2, <1>4, <1>6, <1>8, <2>1
  <2>4. kept[k] = longer[k + d] /\ longer[k] = rest[k]
    BY <1>4, <1>6, <2>3
  <2>5. kept[k] = rest[k]
    BY <2>3, <2>4
  <2>6. QED
    BY <1>7, <2>2, <2>3, <2>5
<1>14. QED
  BY <1>10, <1>11, <1>12, <1>13 DEF kept, new, rest

SameMemory(a, b) ==
    /\ a.edit_epoch = b.edit_epoch
    /\ a.actions = b.actions
    /\ a.verifier_results = b.verifier_results

SameAgents(a, b) ==
    /\ a.active_agents = b.active_agents
    /\ a.pending_spawns = b.pending_spawns
    /\ a.total_agents = b.total_agents

SameCourse(a, b) ==
    /\ a.compact_streak = b.compact_streak
    /\ a.terminal = b.terminal

\* No transition takes the warning without the decision that issues it.
OnlyClaims(led, result) ==
    result.ledger.warned => led.warned \/ result.decision = "warn_once"

\* The elapsed-time check.
LEMMA ElapsedWarnedChanges ==
    ASSUME NEW led \in Ledgers, NEW now \in Nat
    PROVE  LET result == ElapsedWarned(led, now)
           IN  /\ SameMemory(result.ledger, led)
               /\ SameAgents(result.ledger, led)
               /\ SameCourse(result.ledger, led)
               /\ OnlyClaims(led, result)
               /\ led.warned => result.ledger.warned
<1> USE DEF SameMemory, SameAgents, SameCourse, OnlyClaims, Result
<1>1. CASE led.warned \/ now - led.last_progress < ElapsedWarning
  BY <1>1 DEF ElapsedWarned
<1>2. CASE ~(led.warned \/ now - led.last_progress < ElapsedWarning)
  <2>1. ElapsedWarned(led, now) = Result([led EXCEPT !.warned = TRUE], "warn_once")
    BY <1>2 DEF ElapsedWarned
  <2>2. QED
    BY <1>2, <2>1 DEF Ledgers
<1>3. QED
  BY <1>1, <1>2

\* A tool request changes nothing but the claim, unless it grants a child; and it is let
\* through only if the replay fuse has not blown.
LEMMA BeforeToolChanges ==
    ASSUME NEW led \in Ledgers, NEW fp \in Fingerprints, NEW kind \in Kinds,
           NEW isChild \in BOOLEAN, NEW now \in Nat
    PROVE  LET result == BeforeTool(led, fp, kind, isChild, now)
           IN  /\ SameMemory(result.ledger, led)
               /\ SameCourse(result.ledger, led)
               /\ OnlyClaims(led, result)
               /\ ~(LetsRun(result.decision) /\ kind = "spawn") => SameAgents(result.ledger, led)
               /\ LetsRun(result.decision) /\ kind = "spawn" =>
                     /\ Cardinality(led.active_agents) + led.pending_spawns < MaxConcurrentAgents
                     /\ result.ledger.active_agents = led.active_agents
                     /\ result.ledger.pending_spawns = led.pending_spawns + 1
                     /\ result.ledger.total_agents = led.total_agents + 1
               /\ LetsRun(result.decision) /\ kind # "spawn" =>
                     ~(HasCurrentAction(led, fp) /\ CurrentAction(led, fp).streak >= MaxReplayStreak)
<1> DEFINE result == BeforeTool(led, fp, kind, isChild, now)
           granted == [led EXCEPT !.pending_spawns = @ + 1, !.total_agents = @ + 1]
<1>1. ASSUME NEW d \in {"stop_turn"} \cup Denials, result = Result(led, d)
      PROVE  /\ SameMemory(result.ledger, led) /\ SameCourse(result.ledger, led)
             /\ OnlyClaims(led, result) /\ SameAgents(result.ledger, led)
             /\ ~LetsRun(result.decision)
  BY <1>1 DEF Result, SameMemory, SameCourse, SameAgents, OnlyClaims, LetsRun, Denials
<1>2. CASE result = BeforeSpawn(led, isChild) /\ kind = "spawn"
  <2>1. CASE /\ result = Result(granted, "pass")
             /\ ~(Cardinality(led.active_agents) + led.pending_spawns >= MaxConcurrentAgents)
    <3>1. result.ledger = granted /\ result.decision = "pass"
      BY <2>1 DEF Result
    <3>2. /\ SameMemory(granted, led) /\ SameCourse(granted, led)
          /\ granted.active_agents = led.active_agents
          /\ granted.warned = led.warned
          /\ granted.pending_spawns = led.pending_spawns + 1
          /\ granted.total_agents = led.total_agents + 1
      BY DEF Ledgers, SameMemory, SameCourse
    <3>3. Cardinality(led.active_agents) + led.pending_spawns < MaxConcurrentAgents
      <4>1. Cardinality(led.active_agents) \in Nat /\ led.pending_spawns \in Nat
        BY AgentsAssumption, FS_Subset, FS_CardinalityType DEF Ledgers
      <4>2. QED
        BY <2>1, <4>1, LimitsAssumption
    <3> HIDE DEF granted
    <3>4. QED
      BY <1>2, <3>1, <3>2, <3>3 DEF OnlyClaims, LetsRun
  <2>2. CASE \E d \in Denials : result = Result(led, d)
    BY <1>1, <2>2
  <2>3. QED
    BY <1>2, <2>1, <2>2 DEF BeforeSpawn, Denials
<1>3. CASE /\ result = ElapsedWarned(led, now) /\ kind # "spawn"
           /\ ~(HasCurrentAction(led, fp) /\ CurrentAction(led, fp).streak >= MaxReplayStreak)
  BY <1>3, ElapsedWarnedChanges
<1>4. QED
  BY <1>1, <1>2, <1>3 DEF BeforeTool, Denials

\* A successful edit empties both memories and the count of compactions.
LEMMA AfterEditChanges ==
    ASSUME NEW led \in Ledgers, NEW now \in Nat
    PROVE  LET next == AfterEdit(led, now)
           IN  /\ next.actions = << >> /\ next.verifier_results = << >>
               /\ next.compact_streak = 0 /\ next.terminal = led.terminal
               /\ next.warned = led.warned
               /\ SameAgents(next, led)
BY DEF AfterEdit, Ledgers, SameAgents

\* Any other outcome is recorded, a verifier's is remembered, and one that was not seen
\* last time clears the count of compactions.
LEMMA AfterOtherChanges ==
    ASSUME NEW led \in Ledgers, NEW fp \in Fingerprints,
           NEW kind \in Kinds, NEW outcome \in Outcomes, NEW now \in Nat,
           Len(led.verifier_results) <= MaxVerifierResults
    PROVE  LET result == AfterOther(led, fp, kind, outcome, now)
               next == result.ledger
           IN  /\ next.edit_epoch = led.edit_epoch
               /\ next.actions = RecordAction(led, fp, outcome)
               /\ next.verifier_results = IF kind = "verifier" THEN RememberVerifier(led, fp)
                                          ELSE led.verifier_results
               /\ next.active_agents = led.active_agents
               /\ next.total_agents = led.total_agents
               /\ next.pending_spawns = IF kind = "spawn" /\ outcome = "fail"
                                           /\ led.pending_spawns > 0
                                        THEN led.pending_spawns - 1 ELSE led.pending_spawns
               /\ next.compact_streak = IF kind = "verifier" /\ ~Repeats(led, fp, outcome)
                                        THEN 0 ELSE led.compact_streak
               /\ next.terminal = led.terminal
               /\ OnlyClaims(led, result)
               /\ led.warned => next.warned
               /\ kind # "verifier" /\ NextStreak(led, fp, outcome) = MaxReplayStreak
                     => next.warned
<1> DEFINE freed == IF kind = "spawn" /\ outcome = "fail" /\ led.pending_spawns > 0
                    THEN led.pending_spawns - 1 ELSE led.pending_spawns
           acts == RecordAction(led, fp, outcome)
           counted == [led EXCEPT !.pending_spawns = freed, !.actions = acts]
           progressed == ~Repeats(led, fp, outcome)
           memory == RememberVerifier(led, fp)
           verified == [counted EXCEPT
                           !.verifier_results = memory,
                           !.compact_streak = IF progressed THEN 0 ELSE @,
                           !.last_progress = IF progressed THEN now ELSE @]
           warn == [counted EXCEPT !.warned = TRUE]
           result == AfterOther(led, fp, kind, outcome, now)
<1>1. acts \in Seq(ActionRecords) /\ memory \in Memory
  BY RecordActionType, RememberVerifierKeeps
<1> HIDE DEF acts, memory, progressed
<1>2. counted \in Ledgers /\ verified \in Ledgers
  <2>1. freed \in Nat /\ led.compact_streak \in Nat /\ led.last_progress \in Nat
    BY DEF Ledgers
  <2>2. counted \in Ledgers
    BY <1>1, <2>1, Zenon DEF Ledgers
  <2>3. /\ (IF progressed THEN 0 ELSE counted.compact_streak) \in Nat
        /\ (IF progressed THEN now ELSE counted.last_progress) \in Nat
    BY <2>2 DEF Ledgers
  <2> HIDE DEF counted
  <2>4. verified \in Ledgers
    BY <1>1, <2>2, <2>3, Zenon DEF Ledgers, Memory
  <2>5. QED
    BY <2>2, <2>4 DEF counted
<1>3. /\ counted.edit_epoch = led.edit_epoch /\ counted.actions = acts
      /\ counted.verifier_results = led.verifier_results
      /\ counted.active_agents = led.active_agents /\ counted.total_agents = led.total_agents
      /\ counted.pending_spawns = freed /\ SameCourse(counted, led)
      /\ counted.warned = led.warned
  BY DEF Ledgers, SameCourse
<1>4. /\ warn.edit_epoch = led.edit_epoch /\ warn.actions = acts
      /\ warn.verifier_results = led.verifier_results
      /\ warn.active_agents = led.active_agents /\ warn.total_agents = led.total_agents
      /\ warn.pending_spawns = freed /\ SameCourse(warn, led)
      /\ warn.warned = TRUE
  BY DEF Ledgers, SameCourse
<1>5. /\ verified.edit_epoch = led.edit_epoch /\ verified.actions = acts
      /\ verified.verifier_results = memory
      /\ verified.active_agents = led.active_agents /\ verified.total_agents = led.total_agents
      /\ verified.pending_spawns = freed
      /\ verified.compact_streak = (IF progressed THEN 0 ELSE led.compact_streak)
      /\ verified.terminal = led.terminal
      /\ verified.warned = led.warned
  BY DEF Ledgers
<1>6. CASE kind = "verifier"
  <2>1. result = ElapsedWarned(verified, now)
    BY <1>6 DEF AfterOther, acts, memory, progressed
  <2> HIDE DEF verified, counted, warn, freed, result
  <2>2. /\ SameMemory(result.ledger, verified) /\ SameAgents(result.ledger, verified)
        /\ SameCourse(result.ledger, verified) /\ OnlyClaims(verified, result)
        /\ verified.warned => result.ledger.warned
    BY <1>2, <2>1, ElapsedWarnedChanges
  <2>3. QED
    BY <1>5, <1>6, <2>2
       DEF SameMemory, SameAgents, SameCourse, OnlyClaims, result, acts, memory, progressed, freed
<1>7. CASE /\ kind # "verifier"
           /\ ~(NextStreak(led, fp, outcome) = MaxReplayStreak /\ ~counted.warned)
  <2>1. result = ElapsedWarned(counted, now)
    BY <1>7 DEF AfterOther, acts
  <2> HIDE DEF verified, counted, warn, freed, result
  <2>2. /\ SameMemory(result.ledger, counted) /\ SameAgents(result.ledger, counted)
        /\ SameCourse(result.ledger, counted) /\ OnlyClaims(counted, result)
        /\ counted.warned => result.ledger.warned
    BY <1>2, <2>1, ElapsedWarnedChanges
  <2>3. QED
    BY <1>3, <1>7, <2>2
       DEF SameMemory, SameAgents, SameCourse, OnlyClaims, result, acts, freed
<1>8. CASE /\ kind # "verifier"
           /\ NextStreak(led, fp, outcome) = MaxReplayStreak /\ ~counted.warned
  <2>1. result = Result(warn, "warn_once")
    BY <1>8 DEF AfterOther, acts
  <2> HIDE DEF verified, counted, warn, freed, result
  <2>2. result.ledger = warn /\ result.decision = "warn_once"
    BY <2>1 DEF Result
  <2>3. QED
    BY <1>4, <1>8, <2>2 DEF SameCourse, OnlyClaims, result, acts, freed
<1>9. QED
  BY <1>6, <1>7, <1>8

\* A child that starts takes up a reservation if there is one.
LEMMA SubagentStartedChanges ==
    ASSUME NEW led \in Ledgers, NEW agent \in Agents, NEW now \in Nat
    PROVE  LET next == SubagentStarted(led, agent, now).ledger
           IN  /\ SameMemory(next, led) /\ SameCourse(next, led)
               /\ led.terminal => next = led
               /\ ~led.terminal /\ agent \in led.active_agents => SameAgents(next, led)
               /\ ~led.terminal /\ agent \notin led.active_agents =>
                     /\ next.active_agents = led.active_agents \cup {agent}
                     /\ next.pending_spawns = IF led.pending_spawns > 0
                                              THEN led.pending_spawns - 1 ELSE 0
                     /\ next.total_agents = IF led.pending_spawns > 0
                                            THEN led.total_agents ELSE led.total_agents + 1
<1> DEFINE reserved == led.pending_spawns > 0
           started == [led EXCEPT !.active_agents = @ \cup {agent},
                                  !.pending_spawns = IF reserved THEN @ - 1 ELSE 0,
                                  !.total_agents = IF reserved THEN @ ELSE @ + 1]
           next == SubagentStarted(led, agent, now).ledger
<1>1. started \in Ledgers
  <2>1. /\ led.active_agents \cup {agent} \in SUBSET Agents
        /\ (IF reserved THEN led.pending_spawns - 1 ELSE 0) \in Nat
        /\ (IF reserved THEN led.total_agents ELSE led.total_agents + 1) \in Nat
    BY DEF Ledgers
  <2>2. QED
    BY <2>1, Zenon DEF Ledgers
<1>2. /\ SameMemory(started, led) /\ SameCourse(started, led)
      /\ started.active_agents = led.active_agents \cup {agent}
      /\ started.pending_spawns = (IF reserved THEN led.pending_spawns - 1 ELSE 0)
      /\ started.total_agents = (IF reserved THEN led.total_agents ELSE led.total_agents + 1)
  BY DEF Ledgers, SameMemory, SameCourse
<1>3. CASE led.terminal
  BY <1>3 DEF SubagentStarted, Result, SameMemory, SameCourse
<1>4. CASE ~led.terminal /\ agent \in led.active_agents
  BY <1>4, ElapsedWarnedChanges DEF SubagentStarted
<1>5. CASE ~led.terminal /\ agent \notin led.active_agents
  <2>1. next = ElapsedWarned(started, now).ledger
    BY <1>5 DEF SubagentStarted
  <2> HIDE DEF started, next
  <2>2. SameMemory(next, started) /\ SameCourse(next, started) /\ SameAgents(next, started)
    BY <1>1, <2>1, ElapsedWarnedChanges
  <2>3. QED
    BY <1>2, <1>5, <2>2 DEF SameMemory, SameCourse, SameAgents, next
<1>6. QED
  BY <1>3, <1>4, <1>5

\* A child that stops is taken out of the active ones.
LEMMA SubagentStoppedChanges ==
    ASSUME NEW led \in Ledgers, NEW agent \in Agents, NEW now \in Nat
    PROVE  LET next == SubagentStopped(led, agent, now).ledger
           IN  /\ SameMemory(next, led) /\ SameCourse(next, led)
               /\ led.terminal => next = led
               /\ ~led.terminal =>
                     /\ next.active_agents = led.active_agents \ {agent}
                     /\ next.pending_spawns = led.pending_spawns
                     /\ next.total_agents = led.total_agents
<1> DEFINE stopped == [led EXCEPT !.active_agents = @ \ {agent}]
           next == SubagentStopped(led, agent, now).ledger
<1>1. stopped \in Ledgers
  BY DEF Ledgers
<1>2. /\ SameMemory(stopped, led) /\ SameCourse(stopped, led)
      /\ stopped.active_agents = led.active_agents \ {agent}
      /\ stopped.pending_spawns = led.pending_spawns
      /\ stopped.total_agents = led.total_agents
  BY DEF Ledgers, SameMemory, SameCourse
<1>3. CASE led.terminal
  BY <1>3 DEF SubagentStopped, Result, SameMemory, SameCourse
<1>4. CASE ~led.terminal
  <2>1. next = ElapsedWarned(stopped, now).ledger
    BY <1>4 DEF SubagentStopped
  <2> HIDE DEF stopped, next
  <2>2. SameMemory(next, stopped) /\ SameCourse(next, stopped) /\ SameAgents(next, stopped)
    BY <1>1, <2>1, ElapsedWarnedChanges
  <2>3. QED
    BY <1>2, <1>4, <2>2 DEF SameMemory, SameCourse, SameAgents, next
<1>5. QED
  BY <1>3, <1>4

\* An automatic compaction counts when it is over; the last one stops the turn.
LEMMA CompactedChanges ==
    ASSUME NEW led \in Ledgers, NEW phase, NEW trigger, NEW now \in Nat
    PROVE  LET result == Compacted(led, phase, trigger, now)
               next == result.ledger
           IN  /\ SameMemory(next, led) /\ SameAgents(next, led)
               /\ OnlyClaims(led, result)
               /\ led.terminal => next = led
               /\ ~(trigger = "auto" /\ phase = "post") => SameCourse(next, led)
               /\ ~led.terminal /\ trigger = "auto" /\ phase = "post" =>
                     /\ next.compact_streak = led.compact_streak + 1
                     /\ next.terminal <=> led.compact_streak + 1 >= MaxReplayStreak
<1> DEFINE counted == [led EXCEPT !.compact_streak = @ + 1]
           ended == [counted EXCEPT !.terminal = TRUE]
           result == Compacted(led, phase, trigger, now)
<1>1. counted \in Ledgers
  <2>1. led.compact_streak + 1 \in Nat
    BY DEF Ledgers
  <2>2. QED
    BY <2>1, Zenon DEF Ledgers
<1>2. /\ SameMemory(counted, led) /\ SameAgents(counted, led)
      /\ counted.compact_streak = led.compact_streak + 1
      /\ counted.terminal = led.terminal /\ counted.warned = led.warned
      /\ SameMemory(ended, led) /\ SameAgents(ended, led)
      /\ ended.compact_streak = led.compact_streak + 1
      /\ ended.terminal = TRUE /\ ended.warned = led.warned
  BY DEF Ledgers, SameMemory, SameAgents
<1> HIDE DEF counted, ended
<1>3. CASE led.terminal
  BY <1>3 DEF Compacted, Result, SameMemory, SameAgents, SameCourse, OnlyClaims
<1>4. CASE ~led.terminal /\ ~(trigger = "auto" /\ phase = "post")
  <2>1. result = ElapsedWarned(led, now)
    BY <1>4 DEF Compacted
  <2>2. QED
    BY <1>4, <2>1, ElapsedWarnedChanges
<1>5. CASE /\ ~led.terminal /\ trigger = "auto" /\ phase = "post"
           /\ counted.compact_streak >= MaxReplayStreak
  <2>1. result = Result(ended, "stop_turn")
    BY <1>5 DEF Compacted, counted, ended
  <2>2. result.ledger = ended
    BY <2>1 DEF Result
  <2>3. QED
    BY <1>2, <1>5, <2>2 DEF OnlyClaims
<1>6. CASE /\ ~led.terminal /\ trigger = "auto" /\ phase = "post"
           /\ ~(counted.compact_streak >= MaxReplayStreak)
  <2>1. result = ElapsedWarned(counted, now)
    BY <1>6 DEF Compacted, counted
  <2> HIDE DEF result
  <2>2. /\ SameMemory(result.ledger, counted) /\ SameAgents(result.ledger, counted)
        /\ SameCourse(result.ledger, counted) /\ OnlyClaims(counted, result)
    BY <1>1, <2>1, ElapsedWarnedChanges
  <2>3. QED
    BY <1>2, <1>6, <2>2 DEF SameMemory, SameAgents, SameCourse, OnlyClaims, result
<1>7. QED
  BY <1>3, <1>4, <1>5, <1>6

-----------------------------------------------------------------------------
(***************************************************************************)
(* Counting arguments about the bounded memories.                          *)
(***************************************************************************)
\* A sequence without repetitions is not longer than the set it is drawn from.
LEMMA DistinctElements ==
    ASSUME NEW S, NEW seq \in Seq(S), NEW T, IsFiniteSet(T),
           \A i \in 1 .. Len(seq) : seq[i] \in T,
           \A i, j \in 1 .. Len(seq) : seq[i] = seq[j] => i = j
    PROVE  Len(seq) <= Cardinality(T)
<1>1. Len(seq) \in Nat /\ seq \in [1 .. Len(seq) -> S]
  BY LenProperties
<1>2. seq \in [1 .. Len(seq) -> T]
  BY <1>1
<1>3. seq \in Injection(1 .. Len(seq), T)
  BY <1>2 DEF Injection, IsInjective
<1>4. Cardinality(1 .. Len(seq)) <= Cardinality(T)
  BY <1>3, FS_Injection
<1>5. Cardinality(1 .. Len(seq)) = Len(seq)
  <2>1. Cardinality(1 .. Len(seq)) = IF 1 > Len(seq) THEN 0 ELSE Len(seq) - 1 + 1
    BY <1>1, FS_Interval
  <2>2. QED
    BY <1>1, <2>1
<1>6. QED
  BY <1>4, <1>5

\* The verifier memory tells the truth about the verifiers of R: it names them once each,
\* and it is marked as full only when there are more of them than it holds.
Faithful(memory, R) ==
    /\ \A i \in DOMAIN memory : memory[i] = OverflowMark \/ memory[i] \in R
    /\ \A i, j \in DOMAIN memory : memory[i] = memory[j] => i = j
    /\ (\E i \in DOMAIN memory : memory[i] = OverflowMark) => Cardinality(R) > MaxVerifierResults

\* ... and still does when one more verifier is reported.
LEMMA RememberVerifierFaithful ==
    ASSUME NEW led \in Ledgers, NEW fp \in Fingerprints,
           Len(led.verifier_results) <= MaxVerifierResults,
           NEW R, IsFiniteSet(R), Faithful(led.verifier_results, R)
    PROVE  Faithful(RememberVerifier(led, fp), R \cup {fp})
<1> DEFINE results == led.verifier_results
           memory == RememberVerifier(led, fp)
<1>1. results \in Memory
  BY DEF Ledgers, Memory
<1>2. Len(results) \in Nat /\ DOMAIN results = 1 .. Len(results)
  BY <1>1, LenProperties DEF Memory
<1>3. /\ IsFiniteSet(R \cup {fp}) /\ Cardinality(R) \in Nat /\ Cardinality(R \cup {fp}) \in Nat
      /\ Cardinality(R \cup {fp}) = IF fp \in R THEN Cardinality(R) ELSE Cardinality(R) + 1
  BY FS_AddElement, FS_CardinalityType
<1>4. Cardinality(R \cup {fp}) >= Cardinality(R)
  BY <1>3
<1>5. MaxVerifierResults \in Nat /\ fp # OverflowMark
  BY LimitsAssumption, OverflowAssumption
<1>6. CASE Remembered(led, fp)
  <2>1. memory = results
    BY <1>6 DEF RememberVerifier
  <2>2. QED
    BY <1>3, <1>4, <1>5, <2>1 DEF Faithful
<1>7. ASSUME ~Remembered(led, fp)
      PROVE  \A i \in 1 .. Len(results) : results[i] \in R /\ results[i] # fp
  BY <1>2, <1>7 DEF Remembered, Faithful
<1>8. CASE ~Remembered(led, fp) /\ Len(results) < MaxVerifierResults
  <2>1. memory = Append(results, fp)
    BY <1>8 DEF RememberVerifier
  <2>2. /\ DOMAIN memory = 1 .. Len(results) + 1
        /\ memory[Len(results) + 1] = fp
        /\ \A i \in 1 .. Len(results) : memory[i] = results[i]
    BY <1>1, <1>2, <2>1 DEF Memory
  <2> HIDE DEF memory
  <2>3. \A i \in DOMAIN memory : memory[i] \in R \cup {fp} /\ memory[i] # OverflowMark
    <3>1. \A i \in 1 .. Len(results) : results[i] # OverflowMark
      BY <1>2, <1>8 DEF Remembered
    <3>2. QED
      BY <1>2, <1>5, <1>7, <1>8, <2>2, <3>1
  <2>4. ASSUME NEW i \in DOMAIN memory, NEW j \in DOMAIN memory, memory[i] = memory[j]
        PROVE  i = j
    <3>1. CASE i \in 1 .. Len(results) /\ j \in 1 .. Len(results)
      BY <1>2, <2>2, <2>4, <3>1 DEF Faithful
    <3>2. CASE ~(i \in 1 .. Len(results) /\ j \in 1 .. Len(results))
      BY <1>2, <1>7, <1>8, <2>2, <2>4, <3>2
    <3>3. QED
      BY <3>1, <3>2
  <2>5. QED
    BY <2>3, <2>4 DEF Faithful, memory
<1>9. CASE ~Remembered(led, fp) /\ ~(Len(results) < MaxVerifierResults)
  <2>1. memory = [results EXCEPT ![MaxVerifierResults] = OverflowMark]
    BY <1>9 DEF RememberVerifier
  <2>2. MaxVerifierResults \in 1 .. Len(results) /\ Len(results) = MaxVerifierResults
    BY <1>2, <1>9, LimitsAssumption
  <2>3. /\ memory \in Memory /\ Len(memory) = Len(results)
        /\ \A i \in 1 .. Len(results) :
              memory[i] = IF i = MaxVerifierResults THEN OverflowMark ELSE results[i]
    BY <1>1, <2>1, <2>2, ExceptSeq DEF Memory
  <2>4. DOMAIN memory = 1 .. Len(results)
    BY <2>3, LenProperties DEF Memory
  <2> HIDE DEF memory
  <2>5. \A i \in 1 .. Len(results) : results[i] # OverflowMark
    BY <1>2, <1>9 DEF Remembered
  <2>6. Cardinality(R \cup {fp}) > MaxVerifierResults
    <3>1. Len(results) <= Cardinality(R \ {fp})
      <4>1. IsFiniteSet(R \ {fp})
        BY FS_RemoveElement
      <4>2. \A i, j \in 1 .. Len(results) : results[i] = results[j] => i = j
        BY <1>2 DEF Faithful
      <4>3. \A i \in 1 .. Len(results) : results[i] \in R \ {fp}
        BY <1>7, <1>9
      <4>4. QED
        BY <1>1, <4>1, <4>2, <4>3, DistinctElements DEF Memory
    <3>2. /\ Cardinality(R \ {fp}) \in Nat
          /\ Cardinality(R \ {fp}) = IF fp \in R THEN Cardinality(R) - 1 ELSE Cardinality(R)
      BY FS_RemoveElement, FS_CardinalityType
    <3>3. QED
      BY <1>3, <1>5, <2>2, <3>1, <3>2
  <2>7. ASSUME NEW i \in DOMAIN memory, NEW j \in DOMAIN memory, memory[i] = memory[j]
        PROVE  i = j
    <3>1. i \in 1 .. Len(results) /\ j \in 1 .. Len(results)
      BY <2>4
    <3>2. CASE i # MaxVerifierResults /\ j # MaxVerifierResults
      BY <1>2, <2>3, <2>7, <3>1, <3>2 DEF Faithful
    <3>3. CASE ~(i # MaxVerifierResults /\ j # MaxVerifierResults)
      BY <2>3, <2>5, <2>7, <3>1, <3>3
    <3>4. QED
      BY <3>2, <3>3
  <2>8. \A i \in DOMAIN memory : memory[i] = OverflowMark \/ memory[i] \in R \cup {fp}
    BY <1>7, <1>9, <2>3, <2>4
  <2>9. QED
    BY <2>6, <2>7, <2>8 DEF Faithful, memory
<1>10. QED
  BY <1>6, <1>8, <1>9

\* With no more fingerprints in use than the ledger has room for, recording one outcome
\* pushes no other record out.
LEMMA RoomForAction ==
    ASSUME NEW led \in Ledgers, Tidy(led), Len(led.actions) <= MaxActions, NEW F, IsFiniteSet(F),
           Cardinality(F) <= MaxActions, NEW fp \in F,
           \A i \in DOMAIN led.actions : led.actions[i].fingerprint \in F
    PROVE  Len(WithoutFingerprint(led, fp)) < MaxActions
<1> DEFINE acts == led.actions
<1>1. acts \in Seq(ActionRecords) /\ Len(acts) \in Nat /\ DOMAIN acts = 1 .. Len(acts)
  BY LenProperties DEF Ledgers
<1>2. MaxActions \in Nat /\ Cardinality(F) \in Nat
  BY LimitsAssumption, FS_CardinalityType
<1>3. CASE Recorded(led, fp)
  <2>1. PositionOf(led, fp) \in 1 .. Len(acts)
    BY <1>1, <1>3 DEF Recorded, PositionOf
  <2>2. Len(WithoutFingerprint(led, fp)) = Len(acts) - 1
    BY <1>1, <1>3, <2>1, RemoveAtElements DEF WithoutFingerprint
  <2>3. QED
    BY <1>1, <1>2, <2>2
<1>4. CASE ~Recorded(led, fp)
  <2> DEFINE used == [i \in 1 .. Len(acts) |-> acts[i].fingerprint]
  <2>1. used \in [1 .. Len(acts) -> F \ {fp}] /\ DOMAIN used = 1 .. Len(acts)
    BY <1>1, <1>4 DEF Recorded
  <2>2. \A i, j \in 1 .. Len(acts) : used[i] = used[j] => i = j
    BY <1>1 DEF Tidy
  <2> HIDE DEF used
  <2>3. used \in Injection(1 .. Len(acts), F \ {fp})
    BY <2>1, <2>2 DEF Injection, IsInjective
  <2>4. /\ IsFiniteSet(F \ {fp}) /\ Cardinality(F \ {fp}) = Cardinality(F) - 1
    BY FS_RemoveElement
  <2>5. Cardinality(1 .. Len(acts)) <= Cardinality(F \ {fp})
    BY <2>3, <2>4, FS_Injection
  <2>6. Cardinality(1 .. Len(acts)) = IF 1 > Len(acts) THEN 0 ELSE Len(acts) - 1 + 1
    BY <1>1, FS_Interval
  <2>7. Len(acts) < MaxActions
    BY <1>1, <1>2, <2>4, <2>5, <2>6
  <2>8. QED
    BY <1>4, <2>7 DEF WithoutFingerprint
<1>5. QED
  BY <1>3, <1>4

=============================================================================
