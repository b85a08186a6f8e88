------------------------- MODULE EvidenceGateProofs -------------------------
(***************************************************************************)
(* Theorems about EvidenceGate for any number of parallel tools, turns and *)
(* retries, checked by TLAPS.                                              *)
(*                                                                         *)
(* The gate reads the ledger, and between the completion of a tool and its *)
(* hook the ledger is behind.  The invariant therefore speaks of the       *)
(* sequences of all completions, recorded or still with their tool         *)
(* (CodeSequences, PassSequences), which a hook does not change: the code  *)
(* is tested exactly when a passed verification follows every change in    *)
(* this order (Ordered).                                                   *)
(***************************************************************************)
EXTENDS EvidenceGate, FiniteSetTheorems, TLAPS

Returned(s, tool) == calls[s].step = "returned" /\ calls[s].tool = tool

CodeSequences ==
    {e.sequence : e \in CodeMutations} \cup {sequences[s] : s \in {r \in Slots : Returned(r, "code")}}

PassSequences ==
    {e.sequence : e \in PassedVerifications}
       \cup {sequences[s] : s \in {r \in Slots : Returned(r, "verify") /\ calls[r].passed}}

\* A code file was written and the writer has not recorded it yet.
Writing == \E s \in Slots : calls[s].step = "written" /\ calls[s].tool = "code"

Holding ==
    \A s \in Slots :
        /\ calls[s].step \in {"running", "written"} => lock = s
        /\ calls[s].step = "running" => calls[s].start = code
        /\ calls[s].step = "written" => calls[s].tool \in Writes

Quiet == phase \in {"model", "completed", "exhausted"} => \A s \in Slots : calls[s].step = "idle"

Ordered ==
    /\ Writing => tested # code
    /\ code = 0 => CodeSequences = {}
    /\ tested # code => Writing \/ \E m \in CodeSequences : \A v \in PassSequences : v < m
    /\ tested = code /\ code # 0 => \E v \in PassSequences : \A m \in CodeSequences : m < v

GateInv == GateTypeOK /\ Quiet /\ (phase # "aborted" => Holding /\ Ordered)

-----------------------------------------------------------------------------
(***************************************************************************)
(* The ledger as a set of events.                                          *)
(***************************************************************************)
\* Appending an event to the ledger adds it to the events.
LEMMA AppendEvents ==
    ASSUME NEW S, NEW q \in Seq(S), NEW e \in S
    PROVE  /\ Append(q, e) \in Seq(S)
           /\ {Append(q, e)[i] : i \in DOMAIN Append(q, e)} = {q[i] : i \in DOMAIN q} \cup {e}
<1>1. /\ Append(q, e) \in Seq(S)
      /\ DOMAIN Append(q, e) = 1 .. Len(q) + 1
      /\ \A i \in 1 .. Len(q) : Append(q, e)[i] = q[i]
      /\ Append(q, e)[Len(q) + 1] = e
  OBVIOUS
<1>2. Len(q) \in Nat /\ DOMAIN q = 1 .. Len(q)
  OBVIOUS
<1> DEFINE r == Append(q, e)
<1> HIDE DEF r
<1>3. ASSUME NEW i \in DOMAIN r PROVE r[i] \in {q[j] : j \in DOMAIN q} \cup {e}
  BY <1>1, <1>2, <1>3 DEF r
<1>4. ASSUME NEW j \in DOMAIN q PROVE q[j] \in {r[i] : i \in DOMAIN r}
  BY <1>1, <1>2, <1>4 DEF r
<1>5. e \in {r[i] : i \in DOMAIN r}
  BY <1>1, <1>2 DEF r
<1>6. {r[i] : i \in DOMAIN r} = {q[i] : i \in DOMAIN q} \cup {e}
  BY <1>3, <1>4, <1>5, Zenon
<1>7. QED
  BY <1>1, <1>6 DEF r

\* The events of the ledger are events.
LEMMA EventTypes ==
    ASSUME GateTypeOK
    PROVE  \A e \in Events : e \in LedgerEvents /\ e.sequence \in Nat /\ e.sequence < next
<1> SUFFICES ASSUME NEW e \in Events
             PROVE  e \in LedgerEvents /\ e.sequence \in Nat /\ e.sequence < next
  OBVIOUS
<1>1. PICK i \in DOMAIN ledger : e = ledger[i]
  BY DEF Events
<1>2. ledger \in Seq(LedgerEvents) /\ e.sequence < next
  BY DEF GateTypeOK
<1> HIDE DEF GateTypeOK
<1>3. e \in LedgerEvents
  BY <1>1, <1>2
<1>4. QED
  BY <1>2, <1>3 DEF LedgerEvents

\* What an appended event adds to the mutations of code and the passed verifications.
LEMMA AppendToLedger ==
    ASSUME GateTypeOK, NEW e \in LedgerEvents, ledger' = Append(ledger, e)
    PROVE  /\ ledger' \in Seq(LedgerEvents)
           /\ Events' = Events \cup {e}
           /\ CodeMutations' = CodeMutations \cup
                 {d \in {e} : d.event = "mutation" /\ d.kind = "code"}
           /\ PassedVerifications' = PassedVerifications \cup
                 {d \in {e} : d.event = "verification" /\ d.success}
<1>1. ledger \in Seq(LedgerEvents)
  BY DEF GateTypeOK
<1>2. ledger' \in Seq(LedgerEvents) /\ Events' = Events \cup {e}
  BY <1>1, AppendEvents DEF Events
<1>3. QED
  BY <1>2 DEF CodeMutations, Mutations, PassedVerifications

-----------------------------------------------------------------------------
(***************************************************************************)
(* Types.                                                                  *)
(***************************************************************************)
\* The event of a completion claim that is refused is an event of the ledger.
LEMMA GateFireType == GateFire \in LedgerEvents /\ GateFire.sequence = 0
BY DEF GateFire, LedgerEvents

\* What on_tool_end appends, for a tool other than a read.
Result(s) ==
    IF calls[s].tool = "verify" THEN Verification(calls[s].passed, sequences[s])
                                ELSE Mutation(calls[s].tool, sequences[s])

\* A result is an event of the ledger with the sequence of its completion.
LEMMA ResultType ==
    ASSUME GateTypeOK, NEW s \in Slots, calls[s].step = "returned", calls[s].tool # "read"
    PROVE  /\ Result(s) \in LedgerEvents
           /\ Result(s).sequence = sequences[s]
           /\ sequences[s] \in Nat /\ sequences[s] < next
           /\ Result(s).event = IF calls[s].tool = "verify" THEN "verification" ELSE "mutation"
           /\ calls[s].tool = "verify" => Result(s).success = calls[s].passed
           /\ calls[s].tool # "verify" => Result(s).kind = calls[s].tool
<1>1. calls[s] \in [step : Steps \ {"idle"}, tool : Tools, start : Nat, passed : BOOLEAN]
  BY DEF GateTypeOK, Calling, Idle
<1>2. sequences[s] \in Nat /\ sequences[s] < next
  BY DEF GateTypeOK
<1>3. calls[s].tool \in {"code", "docs", "verify"} /\ calls[s].passed \in BOOLEAN
  BY <1>1, GateAssumption
<1>4. CASE calls[s].tool = "verify"
  BY <1>2, <1>3, <1>4 DEF Result, Verification, LedgerEvents
<1>5. CASE calls[s].tool # "verify"
  BY <1>2, <1>3, <1>5 DEF Result, Mutation, LedgerEvents, Writes
<1>6. QED
  BY <1>4, <1>5

\* The calls that a tool is at work on.
Working == [step : Steps \ {"idle"}, tool : Tools, start : Nat, passed : BOOLEAN]

\* A call of the model is at work or idle, and stays at work whatever step it goes to.
LEMMA CallTypes ==
    ASSUME GateTypeOK
    PROVE  /\ Idle \in Calling /\ Working \subseteq Calling
           /\ \A s \in Slots : calls[s].step # "idle" => calls[s] \in Working
           /\ \A s \in Slots : calls[s].step = "idle" => calls[s] = Idle
           /\ \A c \in Working, step \in Steps \ {"idle"}, start \in Nat, passed \in BOOLEAN :
                /\ [c EXCEPT !.step = step] \in Working
                /\ [c EXCEPT !.step = step, !.start = start] \in Working
                /\ [c EXCEPT !.step = step, !.passed = passed] \in Working
<1>1. \A s \in Slots : calls[s] \in {Idle} \cup Working
  BY DEF GateTypeOK, Calling, Working
<1>2. Idle.step = "idle"
  BY DEF Idle
<1>3. \A c \in Working : c.step # "idle"
  BY DEF Working
<1>4. QED
  BY <1>1, <1>2, <1>3 DEF Working, Calling

\* The variables start with their types.
LEMMA GateInitType == Init => GateTypeOK
BY GateAssumption DEF Init, GateTypeOK, Calling, Idle, Events, Ended

\* Every step of the model, of a tool and of a hook keeps them.
LEMMA GateStepType == GateTypeOK /\ [Next]_vars => GateTypeOK'
<1> SUFFICES ASSUME GateTypeOK, [Next]_vars PROVE GateTypeOK'
  OBVIOUS
<1> DEFINE LedgerOK == ledger \in Seq(LedgerEvents) /\ \A e \in Events : e.sequence < next
           Rest ==
             /\ mode \in Modes /\ arm \in Arms
             /\ phase \in {"model", "tools"} \cup Ended
             /\ attempt \in 1 .. RetryLimit + 1
             /\ turns \in 0 .. MaxTurns
             /\ calls \in [Slots -> Calling]
             /\ lock \in Slots \cup {Nobody}
             /\ code \in Nat /\ tested \in 0 .. code
             /\ next \in Nat \ {0} /\ sequences \in [Slots -> 0 .. next - 1]
<1>1. LedgerOK /\ Rest
  BY DEF GateTypeOK
<1>2. ASSUME UNCHANGED ledger, next' \in Nat, next <= next' PROVE LedgerOK'
  <2>1. Events' = Events
    BY <1>2 DEF Events
  <2>2. ASSUME NEW e \in Events PROVE e.sequence < next'
    BY EventTypes, <1>1, <1>2
  <2>3. QED
    BY <1>1, <1>2, <2>1, <2>2
<1>3. ASSUME NEW e \in LedgerEvents, e.sequence < next, ledger' = Append(ledger, e),
             UNCHANGED next
      PROVE  LedgerOK'
  BY <1>1, <1>3, AppendToLedger
<1>4. ASSUME Rest', LedgerOK' PROVE GateTypeOK'
  BY <1>4 DEF GateTypeOK
<1> HIDE DEF LedgerOK
<1> USE <1>1, GateAssumption
     DEF Ended, session, progress, sequencer
<1>0. ASSUME NEW s \in Slots, calls[s] \in Working, NEW c \in Working,
             calls' = [calls EXCEPT ![s] = c]
      PROVE  calls' \in [Slots -> Calling]
  BY <1>0, CallTypes
<1> USE DEF Steps
<1>5. CASE CallTools
  <2>1. PICK batch \in [Slots -> Tools \cup {"none"}] :
            calls' = [s \in Slots |->
                         IF batch[s] = "none" THEN Idle
                         ELSE [Idle EXCEPT !.step = "waiting", !.tool = batch[s]]]
    BY <1>5 DEF CallTools
  <2>2. ASSUME NEW s \in Slots, batch[s] # "none"
        PROVE  [Idle EXCEPT !.step = "waiting", !.tool = batch[s]] \in Calling
    BY <2>2 DEF Idle, Calling
  <2>3. calls' \in [Slots -> Calling]
    BY <2>1, <2>2, CallTypes
  <2>4. UNCHANGED << mode, arm, attempt, lock, code, tested, next, sequences, ledger >>
    BY <1>5 DEF CallTools
  <2>5. phase' = "tools" /\ turns < MaxTurns /\ turns' = turns + 1
    BY <1>5, Zenon DEF CallTools
  <2>6. Rest'
    BY <2>3, <2>4, <2>5
  <2>7. QED
    BY <1>2, <1>4, <2>4, <2>6
<1>6. ASSUME NEW s \in Slots, Lock(s) PROVE GateTypeOK'
  <2>1. calls[s] \in Working
    BY <1>6, CallTypes DEF Lock
  <2>2. calls' \in [Slots -> Calling]
    <3>1. calls' = [calls EXCEPT ![s] = [calls[s] EXCEPT !.step = "running", !.start = code]]
      BY <1>6, <2>1 DEF Lock
    <3>2. QED
      BY <1>0, <2>1, <3>1, CallTypes
  <2>3. QED
    BY <1>6, <1>2, <1>4, <2>1, <2>2 DEF Lock
<1>7. ASSUME NEW s \in Slots, Write(s) PROVE GateTypeOK'
  <2>1. calls[s] \in Working
    BY <1>7, CallTypes DEF Write
  <2>2. calls' \in [Slots -> Calling]
    <3>1. calls' = [calls EXCEPT ![s] = [calls[s] EXCEPT !.step = "written"]]
      BY <1>7, <2>1 DEF Write
    <3>2. QED
      BY <1>0, <2>1, <3>1, CallTypes
  <2>3. QED
    BY <1>7, <1>2, <1>4, <2>1, <2>2 DEF Write
<1>8. ASSUME NEW s \in Slots, FinishWrite(s) PROVE GateTypeOK'
  <2>1. calls[s] \in Working
    BY <1>8, CallTypes DEF FinishWrite
  <2>2. calls' \in [Slots -> Calling]
    <3>1. calls' = [calls EXCEPT ![s] = [calls[s] EXCEPT !.step = "returned"]]
      BY <1>8, <2>1 DEF FinishWrite
    <3>2. QED
      BY <1>0, <2>1, <3>1, CallTypes
  <2>3. QED
    BY <1>8, <1>2, <1>4, <2>1, <2>2 DEF FinishWrite, Record
<1>9. ASSUME NEW s \in Slots, NEW passed \in BOOLEAN, FinishVerification(s, passed) PROVE GateTypeOK'
  <2>1. calls[s] \in Working
    BY <1>9, CallTypes DEF FinishVerification
  <2>2. calls' \in [Slots -> Calling]
    <3>1. calls' = [calls EXCEPT ![s] = [calls[s] EXCEPT !.step = "returned", !.passed = passed]]
      BY <1>9, <2>1 DEF FinishVerification
    <3>2. QED
      BY <1>0, <2>1, <3>1, CallTypes
  <2>3. QED
    BY <1>9, <1>2, <1>4, <2>1, <2>2 DEF FinishVerification, Record
<1>10. ASSUME NEW s \in Slots, FinishRead(s) PROVE GateTypeOK'
  <2>1. calls[s] \in Working
    BY <1>10, CallTypes DEF FinishRead
  <2>2. calls' \in [Slots -> Calling]
    <3>1. calls' = [calls EXCEPT ![s] = [calls[s] EXCEPT !.step = "returned"]]
      BY <1>10, <2>1 DEF FinishRead
    <3>2. QED
      BY <1>0, <2>1, <3>1, CallTypes
  <2>3. QED
    BY <1>10, <1>2, <1>4, <2>1, <2>2 DEF FinishRead
<1>11. ASSUME NEW s \in Slots, ToolError(s) PROVE GateTypeOK'
  BY <1>11, <1>2, <1>4 DEF ToolError
<1>12. ASSUME NEW s \in Slots, OnToolEnd(s) PROVE GateTypeOK'
  <2>1. Rest'
    <3>1. calls' \in [Slots -> Calling]
      BY <1>12, CallTypes DEF OnToolEnd
    <3>2. sequences' \in [Slots -> 0 .. next - 1] /\ phase' \in {"model", "tools"}
      BY <1>12 DEF OnToolEnd
    <3>3. QED
      BY <1>12, <3>1, <3>2 DEF OnToolEnd
  <2>2. CASE calls[s].tool = "read"
    BY <1>12, <1>2, <1>4, <2>1, <2>2 DEF OnToolEnd
  <2>3. CASE calls[s].tool # "read"
    <3>1. ledger' = Append(ledger, Result(s)) /\ UNCHANGED next
      BY <1>12, <2>3, Zenon DEF OnToolEnd, Result
    <3>2. QED
      BY <1>12, <1>3, <1>4, <2>1, <2>3, <3>1, ResultType DEF OnToolEnd
  <2>4. QED
    BY <2>2, <2>3
<1>13. CASE Claim
  <2>1. Rest'
    BY <1>13 DEF Claim
  <2>2. UNCHANGED ledger \/ ledger' = Append(ledger, GateFire)
    BY <1>13 DEF Claim
  <2>3. UNCHANGED next
    BY <1>13 DEF Claim
  <2>4. LedgerOK'
    BY <1>2, <1>3, <2>2, <2>3, GateFireType
  <2>5. QED
    BY <1>4, <2>1, <2>4
<1>14. CASE ModelError
  BY <1>14, <1>2, <1>4 DEF ModelError
<1>15. CASE UNCHANGED vars
  BY <1>15, <1>2, <1>4 DEF vars
<1>16. QED
  BY <1>5, <1>6, <1>7, <1>8, <1>9, <1>10, <1>11, <1>12, <1>13, <1>14, <1>15
     DEF Next, ToolStep, RunEnded

\* Type correctness, for any number of parallel tools, turns and retries.
THEOREM GateTypeCorrect == Spec => []GateTypeOK
<1>1. Init => GateTypeOK
  BY GateInitType
<1>2. GateTypeOK /\ [Next]_vars => GateTypeOK'
  BY GateStepType
<1>3. QED
  BY <1>1, <1>2, PTL DEF Spec

-----------------------------------------------------------------------------
(***************************************************************************)
(* The order of completions.                                               *)
(***************************************************************************)
\* Every completion has a sequence below the next.
LEMMA SequencesBelow ==
    ASSUME GateTypeOK
    PROVE  \A x \in CodeSequences \cup PassSequences : x \in Nat /\ x < next
<1>1. \A e \in CodeMutations \cup PassedVerifications : e.sequence \in Nat /\ e.sequence < next
  BY EventTypes DEF CodeMutations, Mutations, PassedVerifications
<1>2. \A s \in Slots : sequences[s] \in Nat /\ sequences[s] < next
  BY DEF GateTypeOK
<1>3. QED
  BY <1>1, <1>2 DEF CodeSequences, PassSequences

\* A tool that starts, writes or ends without a sequence completes nothing.
LEMMA NothingCompletes ==
    ASSUME GateTypeOK, NEW s \in Slots, NEW c, UNCHANGED << sequences, ledger >>,
           calls' = [calls EXCEPT ![s] = c], calls[s].step # "returned",
           c.step # "returned" \/ c.tool = "read"
    PROVE  UNCHANGED << CodeSequences, PassSequences >>
<1>1. UNCHANGED << CodeMutations, PassedVerifications >>
  BY DEF CodeMutations, Mutations, PassedVerifications, Events
<1>2. calls'[s] = c /\ \A r \in Slots \ {s} : calls'[r] = calls[r]
  BY DEF GateTypeOK
<1>3. \A r \in Slots : /\ Returned(r, "code")' <=> Returned(r, "code")
                       /\ Returned(r, "verify")' <=> Returned(r, "verify")
                       /\ Returned(r, "verify") => calls'[r] = calls[r]
  BY <1>2 DEF Returned
<1>4. QED
  BY <1>1, <1>3 DEF CodeSequences, PassSequences

\* A writer or a verifier that ends takes the next sequence.
LEMMA Completes ==
    ASSUME GateTypeOK, NEW s \in Slots, NEW c, UNCHANGED ledger,
           calls' = [calls EXCEPT ![s] = c], calls[s].step # "returned", c.step = "returned",
           sequences' = [sequences EXCEPT ![s] = next]
    PROVE  /\ CodeSequences' = CodeSequences \cup {x \in {next} : c.tool = "code"}
           /\ PassSequences' = PassSequences \cup {x \in {next} : c.tool = "verify" /\ c.passed}
<1>1. UNCHANGED << CodeMutations, PassedVerifications >>
  BY DEF CodeMutations, Mutations, PassedVerifications, Events
<1>2. calls'[s] = c /\ \A r \in Slots \ {s} : calls'[r] = calls[r]
  BY DEF GateTypeOK
<1>3. sequences'[s] = next /\ \A r \in Slots \ {s} : sequences'[r] = sequences[r]
  BY DEF GateTypeOK
<1>4. {r \in Slots : Returned(r, "code")}' =
          {r \in Slots : Returned(r, "code")} \cup {r \in {s} : c.tool = "code"}
  BY <1>2 DEF Returned
<1>5. {r \in Slots : Returned(r, "verify") /\ calls[r].passed}' =
          {r \in Slots : Returned(r, "verify") /\ calls[r].passed}
             \cup {r \in {s} : c.tool = "verify" /\ c.passed}
  BY <1>2 DEF Returned
<1>6. s \notin {r \in Slots : Returned(r, "code")}
         \cup {r \in Slots : Returned(r, "verify") /\ calls[r].passed}
  BY DEF Returned
<1>7. CodeSequences' = CodeSequences \cup {x \in {next} : c.tool = "code"}
  BY <1>1, <1>3, <1>4, <1>6 DEF CodeSequences
<1>8. PassSequences' = PassSequences \cup {x \in {next} : c.tool = "verify" /\ c.passed}
  BY <1>1, <1>3, <1>5, <1>6 DEF PassSequences
<1>9. QED
  BY <1>7, <1>8

\* A hook moves the sequence of its result from the tool to the ledger.
LEMMA HookKeepsOrder ==
    ASSUME GateTypeOK, NEW s \in Slots, OnToolEnd(s)
    PROVE  UNCHANGED << CodeSequences, PassSequences >>
<1> USE DEF OnToolEnd
<1>1. calls[s].step = "returned"
  OBVIOUS
<1>2. calls'[s] = Idle /\ \A r \in Slots \ {s} : calls'[r] = calls[r]
  BY DEF GateTypeOK
<1>3. \A r \in Slots \ {s} : sequences'[r] = sequences[r]
  BY DEF GateTypeOK
<1>4. {r \in Slots : Returned(r, "code")}' = {r \in Slots : Returned(r, "code")} \ {s}
  BY <1>2 DEF Returned, Idle
<1>5. {r \in Slots : Returned(r, "verify") /\ calls[r].passed}' =
          {r \in Slots : Returned(r, "verify") /\ calls[r].passed} \ {s}
  BY <1>2 DEF Returned, Idle
<1>6. CASE calls[s].tool = "read"
  <2>1. UNCHANGED ledger
    BY <1>6
  <2>2. UNCHANGED << CodeMutations, PassedVerifications >>
    BY <2>1 DEF CodeMutations, Mutations, PassedVerifications, Events
  <2>3. s \notin {r \in Slots : Returned(r, "code")}
           \cup {r \in Slots : Returned(r, "verify") /\ calls[r].passed}
    BY <1>6 DEF Returned
  <2>4. QED
    BY <1>3, <1>4, <1>5, <2>2, <2>3 DEF CodeSequences, PassSequences
<1>7. CASE calls[s].tool # "read"
  <2> DEFINE e == Result(s)
  <2>1. ledger' = Append(ledger, e)
    BY <1>7, Zenon DEF Result
  <2>2. /\ e \in LedgerEvents /\ e.sequence = sequences[s]
        /\ e.event = IF calls[s].tool = "verify" THEN "verification" ELSE "mutation"
        /\ calls[s].tool = "verify" => e.success = calls[s].passed
        /\ calls[s].tool # "verify" => e.kind = calls[s].tool
    BY <1>1, <1>7, ResultType
  <2> HIDE DEF e
  <2>3. /\ CodeMutations' = CodeMutations \cup
                {d \in {e} : d.event = "mutation" /\ d.kind = "code"}
        /\ PassedVerifications' = PassedVerifications \cup
                {d \in {e} : d.event = "verification" /\ d.success}
    BY <2>1, <2>2, AppendToLedger
  <2> HIDE DEF OnToolEnd
  <2>4. CASE calls[s].tool = "code"
    <3>1. CodeMutations' = CodeMutations \cup {e} /\ PassedVerifications' = PassedVerifications
      BY <2>2, <2>3, <2>4
    <3>2. /\ s \in {r \in Slots : Returned(r, "code")}
          /\ s \notin {r \in Slots : Returned(r, "verify") /\ calls[r].passed}
      BY <1>1, <2>4 DEF Returned
    <3>3. QED
      BY <1>3, <1>4, <1>5, <2>2, <3>1, <3>2 DEF CodeSequences, PassSequences
  <2>5. CASE calls[s].tool = "verify" /\ calls[s].passed
    <3>1. CodeMutations' = CodeMutations /\ PassedVerifications' = PassedVerifications \cup {e}
      BY <2>2, <2>3, <2>5
    <3>2. /\ s \notin {r \in Slots : Returned(r, "code")}
          /\ s \in {r \in Slots : Returned(r, "verify") /\ calls[r].passed}
      BY <1>1, <2>5 DEF Returned
    <3>3. QED
      BY <1>3, <1>4, <1>5, <2>2, <3>1, <3>2 DEF CodeSequences, PassSequences
  <2>6. CASE ~(calls[s].tool = "code" \/ (calls[s].tool = "verify" /\ calls[s].passed))
    <3>1. UNCHANGED << CodeMutations, PassedVerifications >>
      BY <2>2, <2>3, <2>6
    <3>2. s \notin {r \in Slots : Returned(r, "code")}
             \cup {r \in Slots : Returned(r, "verify") /\ calls[r].passed}
      BY <2>6 DEF Returned
    <3>3. QED
      BY <1>3, <1>4, <1>5, <3>1, <3>2 DEF CodeSequences, PassSequences
  <2>7. QED
    BY <2>4, <2>5, <2>6
<1>8. QED
  BY <1>6, <1>7

-----------------------------------------------------------------------------
(***************************************************************************)
(* The invariant.                                                          *)
(***************************************************************************)
\* Nothing has been written or verified at first.
LEMMA GateInitInv == Init => GateInv
<1> SUFFICES ASSUME Init PROVE GateInv
  OBVIOUS
<1>1. GateTypeOK
  BY GateInitType
<1>2. \A s \in Slots : calls[s].step = "idle"
  BY DEF Init, Idle
<1>3. CodeSequences = {}
  BY <1>2 DEF Init, CodeSequences, CodeMutations, Mutations, Events, Returned
<1>4. Quiet /\ Holding /\ ~Writing
  BY <1>2 DEF Quiet, Holding, Writing
<1>5. Ordered
  BY <1>3, <1>4 DEF Init, Ordered
<1>6. QED
  BY <1>1, <1>4, <1>5 DEF GateInv

\* While it is the turn of the model every completion is in the ledger.
LEMMA QuietLedger ==
    ASSUME \A s \in Slots : calls[s].step = "idle"
    PROVE  /\ ~Writing
           /\ CodeSequences = {e.sequence : e \in CodeMutations}
           /\ PassSequences = {e.sequence : e \in PassedVerifications}
BY DEF Writing, CodeSequences, PassSequences, Returned

\* The lock keeps the writer and the verifier apart: the next step of the tool that holds
\* it preserves the order of completions, and a hook does not change it.
LEMMA GateStepInv == GateInv /\ [Next]_vars => GateInv'
<1> SUFFICES ASSUME GateInv, [Next]_vars PROVE GateInv'
  OBVIOUS
<1>1. GateTypeOK /\ GateTypeOK' /\ Quiet
  BY GateStepType DEF GateInv
<1>2. phase # "aborted" => Holding /\ Ordered
  BY DEF GateInv
<1>3. calls \in [Slots -> Calling] /\ code \in Nat /\ tested \in 0 .. code /\ next \in Nat
  BY <1>1 DEF GateTypeOK
<1>4. \A x \in CodeSequences \cup PassSequences : x \in Nat /\ x < next
  BY <1>1, SequencesBelow
<1>5. ASSUME phase' \in {"tools", "aborted"} PROVE Quiet'
  BY <1>5 DEF Quiet
<1>6. ASSUME Quiet', phase' # "aborted" => Holding' /\ Ordered' PROVE GateInv'
  BY <1>1, <1>6 DEF GateInv
<1>7. ASSUME UNCHANGED << CodeSequences, PassSequences, code, tested >>, Writing' <=> Writing,
             Ordered
      PROVE  Ordered'
  BY <1>7 DEF Ordered
<1>8. ASSUME NEW s \in Slots, NEW c, calls' = [calls EXCEPT ![s] = c]
      PROVE  /\ calls'[s] = c /\ \A r \in Slots \ {s} : calls'[r] = calls[r]
             /\ Writing' <=> \/ c.step = "written" /\ c.tool = "code"
                             \/ \E r \in Slots \ {s} : /\ calls[r].step = "written"
                                                       /\ calls[r].tool = "code"
  <2>1. calls'[s] = c /\ \A r \in Slots \ {s} : calls'[r] = calls[r]
    BY <1>3, <1>8
  <2>2. QED
    BY <2>1 DEF Writing
<1> USE DEF session, progress, sequencer
<1>9. CASE CallTools
  <2>1. phase = "model" /\ phase' = "tools" /\ UNCHANGED << lock, code, tested, ledger >>
    BY <1>9, Zenon DEF CallTools
  <2>2. \A s \in Slots : calls[s].step = "idle"
    BY <1>1, <2>1 DEF Quiet
  <2>3. PICK batch \in [Slots -> Tools \cup {"none"}] :
            calls' = [s \in Slots |->
                         IF batch[s] = "none" THEN Idle
                         ELSE [Idle EXCEPT !.step = "waiting", !.tool = batch[s]]]
    BY <1>9 DEF CallTools
  <2>4. \A s \in Slots : calls'[s].step \in {"idle", "waiting"}
    BY <2>3 DEF Idle
  <2>5. UNCHANGED << CodeMutations, PassedVerifications >>
    BY <2>1 DEF CodeMutations, Mutations, PassedVerifications, Events
  <2>6. UNCHANGED << CodeSequences, PassSequences >>
    BY <2>2, <2>4, <2>5 DEF CodeSequences, PassSequences, Returned
  <2>7. ~Writing /\ ~Writing'
    BY <2>2, <2>4 DEF Writing
  <2>8. Holding'
    BY <2>4 DEF Holding
  <2>9. QED
    BY <1>2, <1>5, <1>6, <1>7, <2>1, <2>6, <2>7, <2>8
<1>10. ASSUME NEW s \in Slots, Lock(s) PROVE GateInv'
  <2> DEFINE c == [calls[s] EXCEPT !.step = "running", !.start = code]
  <2>1. /\ phase = "tools" /\ phase' = "tools" /\ lock = Nobody /\ lock' = s
        /\ calls[s].step = "waiting"
        /\ UNCHANGED << code, tested, sequences, ledger >>
    BY <1>10 DEF Lock
  <2>2. calls[s] \in Working
    BY <1>1, <2>1, CallTypes
  <2>3. calls' = [calls EXCEPT ![s] = c]
    BY <1>10, <2>2 DEF Lock
  <2>4. c.step = "running" /\ c.start = code
    BY <2>2 DEF Working
  <2> HIDE DEF c
  <2>5. \A r \in Slots : calls[r].step \notin {"running", "written"}
    BY <1>2, <2>1, GateAssumption DEF Holding
  <2>6. Holding'
    BY <1>8, <2>1, <2>3, <2>4, <2>5 DEF Holding
  <2>7. Writing' <=> Writing
    BY <1>8, <2>3, <2>4, <2>5 DEF Writing
  <2>8. UNCHANGED << CodeSequences, PassSequences >>
    BY <1>1, <2>1, <2>3, <2>4, NothingCompletes
  <2>9. QED
    BY <1>2, <1>5, <1>6, <1>7, <2>1, <2>6, <2>7, <2>8
<1>11. ASSUME NEW s \in Slots, Write(s) PROVE GateInv'
  <2> DEFINE c == [calls[s] EXCEPT !.step = "written"]
  <2>1. /\ phase = "tools" /\ phase' = "tools" /\ calls[s].step = "running"
        /\ calls[s].tool \in Writes
        /\ code' = IF calls[s].tool = "code" THEN code + 1 ELSE code
        /\ UNCHANGED << lock, tested, sequences, ledger >>
    BY <1>11 DEF Write
  <2>2. calls[s] \in Working
    BY <1>1, <2>1, CallTypes
  <2>3. calls' = [calls EXCEPT ![s] = c]
    BY <1>11, <2>2 DEF Write
  <2>4. c.step = "written" /\ c.tool = calls[s].tool
    BY <2>2 DEF Working
  <2> HIDE DEF c
  <2>5. lock = s /\ \A r \in Slots \ {s} : calls[r].step \notin {"running", "written"}
    BY <1>2, <2>1 DEF Holding
  <2>6. Holding'
    <3>1. calls'[s].step = "written" /\ calls'[s].tool \in Writes /\ lock' = s
      BY <1>8, <2>1, <2>3, <2>4, <2>5
    <3>2. \A r \in Slots \ {s} : calls'[r].step \notin {"running", "written"}
      BY <1>8, <2>3, <2>5
    <3>3. QED
      BY <3>1, <3>2 DEF Holding
  <2>7. (Writing' <=> calls[s].tool = "code") /\ ~Writing
    BY <1>8, <2>1, <2>3, <2>4, <2>5 DEF Writing
  <2>8. UNCHANGED << CodeSequences, PassSequences >>
    BY <1>1, <2>1, <2>3, <2>4, NothingCompletes
  <2>9. CASE calls[s].tool = "code"
    <3>1. tested' # code' /\ code' # 0 /\ Writing'
      BY <1>3, <2>1, <2>7, <2>9
    <3>2. QED
      BY <1>5, <1>6, <2>1, <2>6, <3>1 DEF Ordered
  <2>10. CASE calls[s].tool # "code"
    BY <1>2, <1>5, <1>6, <1>7, <2>1, <2>6, <2>7, <2>8, <2>10
  <2>11. QED
    BY <2>9, <2>10
<1>12. ASSUME NEW s \in Slots, FinishWrite(s) PROVE GateInv'
  <2> DEFINE c == [calls[s] EXCEPT !.step = "returned"]
  <2>1. /\ phase = "tools" /\ phase' = "tools" /\ calls[s].step = "written" /\ lock' = Nobody
        /\ sequences' = [sequences EXCEPT ![s] = next]
        /\ UNCHANGED << code, tested, ledger >>
    BY <1>12 DEF FinishWrite, Record
  <2>2. calls[s] \in Working
    BY <1>1, <2>1, CallTypes
  <2>3. calls' = [calls EXCEPT ![s] = c]
    BY <1>12, <2>2 DEF FinishWrite
  <2>4. c.step = "returned" /\ c.tool = calls[s].tool
    BY <2>2 DEF Working
  <2> HIDE DEF c
  <2>5. lock = s /\ \A r \in Slots \ {s} : calls[r].step \notin {"running", "written"}
    BY <1>2, <2>1 DEF Holding
  <2>6. Holding'
    <3>1. \A r \in Slots : calls'[r].step \notin {"running", "written"}
      BY <1>8, <2>3, <2>4, <2>5
    <3>2. QED
      BY <3>1 DEF Holding
  <2>7. ~Writing' /\ (Writing <=> calls[s].tool = "code")
    BY <1>8, <2>1, <2>3, <2>4, <2>5 DEF Writing
  <2>8. /\ CodeSequences' = CodeSequences \cup {x \in {next} : calls[s].tool = "code"}
        /\ PassSequences' = PassSequences
    <3>1. calls[s].tool \in Writes
      BY <1>2, <2>1 DEF Holding
    <3>2. QED
      BY <1>1, <2>1, <2>3, <2>4, <3>1, Completes DEF Writes
  <2>9. CASE calls[s].tool = "code"
    <3>1. tested # code /\ code # 0
      BY <1>2, <1>3, <2>1, <2>7, <2>9 DEF Ordered
    <3>2. next \in CodeSequences' /\ \A v \in PassSequences' : v < next
      BY <1>4, <2>8, <2>9
    <3>3. Ordered'
      BY <2>1, <2>7, <3>1, <3>2 DEF Ordered
    <3>4. QED
      BY <1>5, <1>6, <2>1, <2>6, <3>3
  <2>10. CASE calls[s].tool # "code"
    <3>1. UNCHANGED << CodeSequences, PassSequences >>
      BY <2>8, <2>10
    <3>2. QED
      BY <1>2, <1>5, <1>6, <1>7, <2>1, <2>6, <2>7, <2>10, <3>1
  <2>11. QED
    BY <2>9, <2>10
<1>13. ASSUME NEW s \in Slots, NEW passed \in BOOLEAN, FinishVerification(s, passed)
       PROVE  GateInv'
  <2> DEFINE c == [calls[s] EXCEPT !.step = "returned", !.passed = passed]
  <2>1. /\ phase = "tools" /\ phase' = "tools" /\ calls[s].step = "running" /\ lock' = Nobody
        /\ calls[s].tool = "verify"
        /\ tested' = IF passed /\ calls[s].start = code THEN code ELSE tested
        /\ sequences' = [sequences EXCEPT ![s] = next]
        /\ UNCHANGED << code, ledger >>
    BY <1>13 DEF FinishVerification, Record
  <2>2. calls[s] \in Working
    BY <1>1, <2>1, CallTypes
  <2>3. calls' = [calls EXCEPT ![s] = c]
    BY <1>13, <2>2 DEF FinishVerification
  <2>4. c.step = "returned" /\ c.tool = "verify" /\ c.passed = passed
    BY <2>1, <2>2 DEF Working
  <2> HIDE DEF c
  <2>5. /\ lock = s /\ \A r \in Slots \ {s} : calls[r].step \notin {"running", "written"}
        /\ calls[s].start = code
    BY <1>2, <2>1 DEF Holding
  <2>6. Holding'
    <3>1. \A r \in Slots \ {s} : calls'[r].step \notin {"running", "written"}
      BY <1>8, <2>3, <2>5
    <3>2. calls'[s].step \notin {"running", "written"}
      BY <1>8, <2>3, <2>4
    <3>3. QED
      BY <3>1, <3>2 DEF Holding
  <2>7. ~Writing' /\ ~Writing
    BY <1>8, <2>1, <2>3, <2>4, <2>5 DEF Writing
  <2>8. /\ CodeSequences' = CodeSequences
        /\ PassSequences' = PassSequences \cup {x \in {next} : passed}
    BY <1>1, <2>1, <2>3, <2>4, Completes
  <2>9. CASE passed
    <3>1. tested' = code'
      BY <2>1, <2>5, <2>9
    <3>2. next \in PassSequences' /\ \A m \in CodeSequences' : m < next
      BY <1>4, <2>8, <2>9
    <3>3. code = 0 => CodeSequences = {}
      BY <1>2, <2>1 DEF Ordered
    <3>4. Ordered'
      BY <2>1, <2>7, <2>8, <3>1, <3>2, <3>3 DEF Ordered
    <3>5. QED
      BY <1>5, <1>6, <2>1, <2>6, <3>4
  <2>10. CASE ~passed
    <3>1. UNCHANGED << CodeSequences, PassSequences, code, tested >>
      BY <2>1, <2>8, <2>10
    <3>2. QED
      BY <1>2, <1>5, <1>6, <1>7, <2>1, <2>6, <2>7, <3>1
  <2>11. QED
    BY <2>9, <2>10
<1>14. ASSUME NEW s \in Slots, FinishRead(s) PROVE GateInv'
  <2> DEFINE c == [calls[s] EXCEPT !.step = "returned"]
  <2>1. /\ phase = "tools" /\ phase' = "tools" /\ calls[s].step = "running" /\ lock' = Nobody
        /\ calls[s].tool = "read"
        /\ UNCHANGED << code, tested, sequences, ledger >>
    BY <1>14 DEF FinishRead
  <2>2. calls[s] \in Working
    BY <1>1, <2>1, CallTypes
  <2>3. calls' = [calls EXCEPT ![s] = c]
    BY <1>14, <2>2 DEF FinishRead
  <2>4. c.step = "returned" /\ c.tool = "read"
    BY <2>1, <2>2 DEF Working
  <2> HIDE DEF c
  <2>5. lock = s /\ \A r \in Slots \ {s} : calls[r].step \notin {"running", "written"}
    BY <1>2, <2>1 DEF Holding
  <2>6. Holding'
    <3>1. \A r \in Slots : calls'[r].step \notin {"running", "written"}
      BY <1>8, <2>3, <2>4, <2>5
    <3>2. QED
      BY <3>1 DEF Holding
  <2>7. ~Writing' /\ ~Writing
    BY <1>8, <2>1, <2>3, <2>4, <2>5 DEF Writing
  <2>8. UNCHANGED << CodeSequences, PassSequences >>
    BY <1>1, <2>1, <2>3, <2>4, NothingCompletes
  <2>9. QED
    BY <1>2, <1>5, <1>6, <1>7, <2>1, <2>6, <2>7, <2>8
<1>15. ASSUME NEW s \in Slots, ToolError(s) PROVE GateInv'
  BY <1>5, <1>6, <1>15 DEF ToolError
<1>16. ASSUME NEW s \in Slots, OnToolEnd(s) PROVE GateInv'
  <2>1. /\ phase = "tools" /\ calls[s].step = "returned" /\ calls' = [calls EXCEPT ![s] = Idle]
        /\ phase' = IF \A r \in Slots \ {s} : calls[r] = Idle THEN "model" ELSE phase
        /\ UNCHANGED << lock, code, tested >>
    BY <1>16 DEF OnToolEnd
  <2>2. Idle.step = "idle"
    BY DEF Idle
  <2>3. Quiet'
    <3>1. CASE \A r \in Slots \ {s} : calls[r] = Idle
      <4>1. \A r \in Slots : calls'[r] = Idle
        <5>1. calls'[s] = Idle /\ \A r \in Slots \ {s} : calls'[r] = calls[r]
          BY <1>8, <2>1
        <5>2. QED
          BY <3>1, <5>1
      <4>2. \A r \in Slots : calls'[r].step = "idle"
        BY <2>2, <4>1
      <4>3. QED
        BY <4>2 DEF Quiet
    <3>2. CASE ~ \A r \in Slots \ {s} : calls[r] = Idle
      BY <1>5, <2>1, <3>2
    <3>3. QED
      BY <3>1, <3>2
  <2>4. Holding'
    BY <1>2, <1>8, <2>1, <2>2 DEF Holding
  <2>5. Writing' <=> Writing
    BY <1>8, <2>1, <2>2 DEF Writing
  <2>6. QED
    BY <1>1, <1>2, <1>6, <1>7, <1>16, <2>1, <2>3, <2>4, <2>5, HookKeepsOrder
<1>17. CASE Claim
  <2>1. /\ phase = "model" /\ UNCHANGED << calls, lock, code, tested, sequences >>
        /\ UNCHANGED ledger \/ ledger' = Append(ledger, GateFire)
    BY <1>17 DEF Claim
  <2>2. \A s \in Slots : calls[s].step = "idle" /\ calls'[s].step = "idle"
    BY <1>1, <2>1 DEF Quiet
  <2>3. UNCHANGED << CodeMutations, PassedVerifications >>
    <3>1. CASE UNCHANGED ledger
      BY <3>1 DEF CodeMutations, Mutations, PassedVerifications, Events
    <3>2. CASE ledger' = Append(ledger, GateFire)
      <4>1. GateFire \in LedgerEvents /\ GateFire.event = "gate_fire"
        BY GateFireType DEF GateFire
      <4>2. QED
        BY <1>1, <3>2, <4>1, AppendToLedger
    <3>3. QED
      BY <2>1, <3>1, <3>2
  <2>4. UNCHANGED << CodeSequences, PassSequences >>
    BY <2>1, <2>3 DEF CodeSequences, PassSequences, Returned
  <2>5. ~Writing /\ ~Writing'
    BY <2>2 DEF Writing
  <2>6. Holding' /\ Quiet'
    BY <2>2 DEF Holding, Quiet
  <2>7. QED
    BY <1>2, <1>6, <1>7, <2>1, <2>4, <2>5, <2>6
<1>18. CASE ModelError
  BY <1>5, <1>6, <1>18 DEF ModelError
<1>19. CASE UNCHANGED vars
  <2>1. /\ UNCHANGED << CodeMutations, PassedVerifications >>
        /\ UNCHANGED << phase, calls, lock, code, tested, sequences >>
    BY <1>19 DEF vars, CodeMutations, Mutations, PassedVerifications, Events
  <2>2. UNCHANGED << CodeSequences, PassSequences >>
    BY <2>1 DEF CodeSequences, PassSequences, Returned
  <2>3. (Writing' <=> Writing) /\ (Quiet' <=> Quiet) /\ (Holding' <=> Holding)
    BY <2>1 DEF Writing, Quiet, Holding
  <2>4. QED
    BY <1>1, <1>2, <1>6, <1>7, <2>1, <2>2, <2>3
<1>20. QED
  BY <1>9, <1>10, <1>11, <1>12, <1>13, <1>14, <1>15, <1>16, <1>17, <1>18, <1>19
     DEF Next, ToolStep, RunEnded

\* The invariant holds in every reachable state.
LEMMA GateInvariant == Spec => []GateInv
BY GateInitInv, GateStepInv, PTL DEF Spec

-----------------------------------------------------------------------------
(***************************************************************************)
(* The verdict on a claim.                                                 *)
(***************************************************************************)
\* The claim of a gated run is allowed only for tested code, and no claim is refused for
\* tested code.
LEMMA DecisionSound ==
    ASSUME GateInv, phase = "model"
    PROVE  /\ Gated /\ Decision = "allow" => tested = code
           /\ Decision # "allow" => tested # code
<1>1. GateTypeOK /\ Ordered /\ \A s \in Slots : calls[s].step = "idle"
  BY DEF GateInv, Quiet
<1>2. /\ ~Writing
      /\ CodeSequences = {e.sequence : e \in CodeMutations}
      /\ PassSequences = {e.sequence : e \in PassedVerifications}
  BY <1>1, QuietLedger
<1>3. \A e \in CodeMutations \cup PassedVerifications : e.sequence \in Nat
  BY <1>1, EventTypes DEF CodeMutations, Mutations, PassedVerifications
<1>4. ChangeKinds \subseteq {"code", "docs"} /\ ("code" \in ChangeKinds <=> CodeMutations # {})
  <2>1. \A e \in Mutations : e.kind \in {"code", "docs"}
    BY <1>1, EventTypes DEF Mutations, LedgerEvents, Writes
  <2>2. QED
    BY <2>1 DEF ChangeKinds, CodeMutations
<1>5. ASSUME Gated, Decision = "allow", tested # code PROVE FALSE
  <2>1. PICK x \in CodeSequences : \A v \in PassSequences : v < x
    BY <1>1, <1>2, <1>5 DEF Ordered
  <2>2. PICK m \in CodeMutations : m.sequence = x
    BY <1>2, <2>1
  <2>3. \A v \in PassedVerifications : v.sequence < m.sequence
    BY <1>2, <2>1, <2>2
  <2>4. ~HasFreshVerification
    BY <1>3, <2>2, <2>3 DEF HasFreshVerification
  <2>5. ChangeKinds # {} /\ ChangeKinds # {"docs"}
    BY <1>4, <2>2
  <2>6. QED
    BY <1>5, <2>4, <2>5 DEF Gated, Decision
<1>6. ASSUME Decision # "allow", tested = code PROVE FALSE
  <2>1. ChangeKinds # {} /\ ChangeKinds # {"docs"} /\ ~HasFreshVerification
    BY <1>6 DEF Decision
  <2>2. CodeMutations # {}
    BY <1>4, <2>1
  <2>3. code # 0
    BY <1>1, <1>2, <2>2 DEF Ordered
  <2>4. PICK x \in PassSequences : \A m \in CodeSequences : m < x
    BY <1>1, <1>6, <2>3 DEF Ordered
  <2>5. PICK v \in PassedVerifications : v.sequence = x
    BY <1>2, <2>4
  <2>6. \A m \in CodeMutations : m.sequence < v.sequence
    BY <1>2, <2>4, <2>5
  <2>7. HasFreshVerification
    BY <1>3, <2>2, <2>5, <2>6 DEF HasFreshVerification
  <2>8. QED
    BY <2>1, <2>7
<1>7. QED
  BY <1>5, <1>6

\* A completion is accepted for tested code only: every step keeps it.
LEMMA AcceptedStep ==
    GateInv /\ AcceptedCodeTested /\ [Next]_vars => AcceptedCodeTested'
<1> SUFFICES ASSUME GateInv, AcceptedCodeTested, [Next]_vars, phase' = "completed", Gated'
             PROVE  tested' = code'
  BY DEF AcceptedCodeTested
<1>1. CASE Claim
  BY <1>1, DecisionSound DEF Claim, Gated, session
<1>2. CASE UNCHANGED vars
  BY <1>2 DEF AcceptedCodeTested, Gated, vars
<1>3. ASSUME NEW s \in Slots, OnToolEnd(s) PROVE FALSE
  BY <1>3 DEF OnToolEnd
<1>4. CASE CallTools \/ ModelError
  BY <1>4, Zenon DEF CallTools, ModelError
<1>5. ASSUME NEW s \in Slots, ToolStep(s), ~OnToolEnd(s) PROVE FALSE
  BY <1>5 DEF ToolStep, Lock, Write, FinishWrite, FinishVerification, FinishRead, ToolError,
              progress
<1>6. QED
  BY <1>1, <1>2, <1>3, <1>4, <1>5 DEF Next, RunEnded

\* The claim of a deep task is accepted only for code that a verification saw whole and
\* passed, for any number of parallel tools, turns and retries.
THEOREM GateAcceptedCodeTested == Spec => []AcceptedCodeTested
<1>1. Init => AcceptedCodeTested
  BY DEF Init, AcceptedCodeTested
<1>2. QED
  BY <1>1, AcceptedStep, GateInvariant, PTL DEF Spec

-----------------------------------------------------------------------------
(***************************************************************************)
(* The refusals.                                                           *)
(***************************************************************************)
\* The places of the refusals in the ledger, which StopBlocks counts.
GateFires == {i \in DOMAIN ledger : ledger[i].event = "gate_fire"}

\* An appended refusal counts one, and no other event counts.
LEMMA AppendStopBlocks ==
    ASSUME GateTypeOK, NEW e \in LedgerEvents, ledger' = Append(ledger, e)
    PROVE  /\ StopBlocks \in Nat
           /\ StopBlocks' = IF e.event = "gate_fire" THEN StopBlocks + 1 ELSE StopBlocks
<1>1. ledger \in Seq(LedgerEvents)
  BY DEF GateTypeOK
<1>2. /\ Len(ledger) \in Nat /\ DOMAIN ledger = 1 .. Len(ledger)
      /\ DOMAIN ledger' = 1 .. Len(ledger) + 1
      /\ ledger'[Len(ledger) + 1] = e
      /\ \A i \in 1 .. Len(ledger) : ledger'[i] = ledger[i]
  BY <1>1
<1>3. IsFiniteSet(GateFires) /\ Len(ledger) + 1 \notin GateFires
  <2>1. GateFires \subseteq 1 .. Len(ledger) /\ Len(ledger) + 1 \notin 1 .. Len(ledger)
    BY <1>2 DEF GateFires
  <2>2. IsFiniteSet(1 .. Len(ledger))
    BY <1>2, FS_Interval
  <2>3. QED
    BY <2>1, <2>2, FS_Subset
<1>4. GateFires' = GateFires \cup {i \in {Len(ledger) + 1} : e.event = "gate_fire"}
  BY <1>2 DEF GateFires
<1>5. StopBlocks = Cardinality(GateFires) /\ StopBlocks' = Cardinality(GateFires')
  BY DEF StopBlocks, GateFires
<1>6. StopBlocks \in Nat
  BY <1>3, <1>5, FS_CardinalityType
<1>7. CASE e.event = "gate_fire"
  <2>1. GateFires' = GateFires \cup {Len(ledger) + 1}
    BY <1>4, <1>7
  <2>2. QED
    BY <1>3, <1>5, <1>6, <1>7, <2>1, FS_AddElement
<1>8. CASE e.event # "gate_fire"
  <2>1. GateFires' = GateFires
    BY <1>4, <1>8
  <2>2. QED
    BY <1>5, <1>6, <1>8, <2>1
<1>9. QED
  BY <1>7, <1>8

\* Only a claim that is not allowed is a refusal.
LEMMA Refusals ==
    ASSUME GateTypeOK, [Next]_vars
    PROVE  \/ UNCHANGED StopBlocks /\ (Claim => Decision = "allow")
           \/ /\ Claim /\ Decision # "allow"
              /\ StopBlocks \in Nat /\ StopBlocks' = StopBlocks + 1
<1>1. ASSUME UNCHANGED ledger PROVE UNCHANGED StopBlocks
  BY <1>1 DEF StopBlocks
<1>2. CASE Claim /\ Decision = "allow"
  BY <1>1, <1>2 DEF Claim
<1>3. CASE Claim /\ Decision # "allow"
  <2>1. ledger' = Append(ledger, GateFire)
    BY <1>3 DEF Claim
  <2>2. GateFire \in LedgerEvents /\ GateFire.event = "gate_fire"
    BY GateFireType DEF GateFire
  <2>3. QED
    BY <1>3, <2>1, <2>2, AppendStopBlocks
<1>4. ASSUME NEW s \in Slots, OnToolEnd(s), ~Claim PROVE UNCHANGED StopBlocks
  <2>1. CASE calls[s].tool = "read"
    BY <1>1, <1>4, <2>1 DEF OnToolEnd
  <2>2. CASE calls[s].tool # "read"
    <3>1. ledger' = Append(ledger, Result(s)) /\ calls[s].step = "returned"
      BY <1>4, <2>2, Zenon DEF OnToolEnd, Result
    <3>2. Result(s) \in LedgerEvents /\ Result(s).event # "gate_fire"
      BY <2>2, <3>1, ResultType
    <3>3. QED
      BY <3>1, <3>2, AppendStopBlocks
  <2>3. QED
    BY <2>1, <2>2
<1>5. ASSUME NEW s \in Slots, ToolStep(s), ~OnToolEnd(s) PROVE UNCHANGED ledger
  BY <1>5 DEF ToolStep, Lock, Write, FinishWrite, FinishVerification, FinishRead, ToolError
<1>6. CASE CallTools \/ ModelError
  BY <1>1, <1>6, Zenon DEF CallTools, ModelError, Claim
<1>7. CASE UNCHANGED vars /\ ~Claim
  BY <1>1, <1>7 DEF vars
<1>8. QED
  BY <1>1, <1>2, <1>3, <1>4, <1>5, <1>6, <1>7 DEF Next, RunEnded

\* No claim is refused for code that a verification has seen and passed.
THEOREM GateRefusedOnlyUntested == Spec => RefusedOnlyUntested
<1>1. GateInv /\ [Next]_vars => [StopBlocks' # StopBlocks => tested # code]_vars
  <2> SUFFICES ASSUME GateInv, [Next]_vars, StopBlocks' # StopBlocks PROVE tested # code
    OBVIOUS
  <2>1. GateTypeOK
    BY DEF GateInv
  <2>2. Claim /\ Decision # "allow"
    BY <2>1, Refusals
  <2>3. QED
    BY <2>2, DecisionSound DEF Claim
<1>2. QED
  BY <1>1, GateInvariant, PTL DEF Spec, RefusedOnlyUntested

\* A run is exhausted after all of its retries and not before: the refusals in the ledger
\* and the attempts of the run stay in step.
THEOREM GateExhaustedAfterRetries == Spec => []ExhaustedAfterRetries
<1>1. Init => ExhaustedAfterRetries
  <2> SUFFICES ASSUME Init PROVE ExhaustedAfterRetries
    OBVIOUS
  <2>1. StopBlocks = 0
    <3>1. GateFires = {}
      BY DEF Init, GateFires
    <3>2. QED
      BY <3>1, FS_EmptySet DEF StopBlocks, GateFires
  <2>2. QED
    BY <2>1 DEF Init, ExhaustedAfterRetries
<1>2. GateTypeOK /\ ExhaustedAfterRetries /\ [Next]_vars => ExhaustedAfterRetries'
  <2> SUFFICES ASSUME GateTypeOK, ExhaustedAfterRetries, [Next]_vars
               PROVE  ExhaustedAfterRetries'
    OBVIOUS
  <2>1. attempt \in 1 .. RetryLimit + 1 /\ RetryLimit \in Nat
    BY GateAssumption DEF GateTypeOK
  <2>2. CASE Claim
    <3>1. phase = "model" /\ StopBlocks = attempt - 1
      BY <2>2 DEF Claim, ExhaustedAfterRetries
    <3>2. CASE Decision = "allow"
      <4>1. phase' = "completed" /\ UNCHANGED << attempt, StopBlocks >>
        BY <2>2, <3>2, Refusals DEF Claim
      <4>2. QED
        BY <3>1, <4>1 DEF ExhaustedAfterRetries
    <3>3. CASE Decision = "exhausted" \/ (Decision # "allow" /\ attempt = RetryLimit + 1)
      <4>1. phase' = "exhausted" /\ UNCHANGED attempt /\ StopBlocks' = StopBlocks + 1
        BY <2>2, <3>3, Refusals DEF Claim
      <4>2. attempt = RetryLimit + 1
        BY <2>1, <3>1, <3>3 DEF Decision
      <4>3. QED
        BY <2>1, <3>1, <4>1, <4>2 DEF ExhaustedAfterRetries
    <3>4. CASE Decision \notin {"allow", "exhausted"} /\ attempt # RetryLimit + 1
      <4>1. phase' = "model" /\ attempt' = attempt + 1 /\ StopBlocks' = StopBlocks + 1
        BY <2>2, <3>1, <3>4, Refusals DEF Claim
      <4>2. QED
        BY <2>1, <3>1, <4>1 DEF ExhaustedAfterRetries
    <3>5. QED
      BY <3>2, <3>3, <3>4
  <2>3. CASE ~Claim
    <3>1. UNCHANGED StopBlocks
      BY <2>3, Refusals
    <3>2. /\ UNCHANGED attempt
          /\ \/ UNCHANGED phase
             \/ phase \in {"model", "tools"} /\ phase' \in {"model", "tools", "aborted"}
      <4>1. CASE CallTools
        BY <4>1, Zenon DEF CallTools
      <4>2. ASSUME NEW s \in Slots, ToolStep(s)
            PROVE  phase = "tools" /\ UNCHANGED attempt /\ phase' \in {"model", "tools", "aborted"}
        BY <4>2 DEF ToolStep, Lock, Write, FinishWrite, FinishVerification, FinishRead,
                    ToolError, OnToolEnd, progress
      <4>3. CASE ModelError
        BY <4>3 DEF ModelError
      <4>4. CASE UNCHANGED vars
        BY <4>4 DEF vars
      <4>5. QED
        BY <2>3, <4>1, <4>2, <4>3, <4>4 DEF Next, RunEnded
    <3>3. QED
      BY <3>1, <3>2 DEF ExhaustedAfterRetries
  <2>4. QED
    BY <2>2, <2>3
<1>3. QED
  BY <1>1, <1>2, GateTypeCorrect, PTL DEF Spec

-----------------------------------------------------------------------------
(***************************************************************************)
(* Refinement.                                                             *)
(***************************************************************************)
\* Every interleaving of tools, hooks and claims is a behaviour of the contract.
THEOREM GateImplementsContract == Spec => ImplementsContract
<1> USE DEF Contract!cvars, Gated, Work, Outcome
<1>1. Init => Contract!CInit
  BY DEF Init, Contract!CInit
<1>2. GateInv /\ AcceptedCodeTested /\ AcceptedCodeTested' /\ [Next]_vars
          => [Contract!CNext]_(Contract!cvars)
  <2> SUFFICES ASSUME GateInv, AcceptedCodeTested, AcceptedCodeTested', [Next]_vars
               PROVE  Contract!CNext \/ UNCHANGED Contract!cvars
    OBVIOUS
  <2>1. code \in Nat /\ tested \in 0 .. code
    BY DEF GateInv, GateTypeOK
  <2> USE DEF session, progress, sequencer
  <2>2. ASSUME UNCHANGED << mode, arm, phase, code, tested >>
        PROVE  UNCHANGED Contract!cvars
    BY <2>2
  <2>3. CASE CallTools
    BY <2>3, Zenon DEF CallTools
  <2>4. ASSUME NEW s \in Slots, Lock(s) \/ FinishWrite(s) \/ FinishRead(s)
        PROVE  UNCHANGED Contract!cvars
    BY <2>2, <2>4 DEF Lock, FinishWrite, FinishRead
  <2>5. ASSUME NEW s \in Slots, Write(s)
        PROVE  Contract!Change \/ UNCHANGED Contract!cvars
    <3>1. CASE calls[s].tool = "code"
      <4>1. phase = "tools" /\ UNCHANGED << mode, arm, phase, tested >> /\ code' = code + 1
        BY <2>5, <3>1 DEF Write
      <4>2. QED
        BY <2>1, <4>1 DEF Contract!Change
    <3>2. CASE calls[s].tool # "code"
      BY <2>2, <2>5, <3>2 DEF Write
    <3>3. QED
      BY <3>1, <3>2
  <2>6. ASSUME NEW s \in Slots, NEW passed \in BOOLEAN, FinishVerification(s, passed)
        PROVE  Contract!Verify \/ UNCHANGED Contract!cvars
    <3>1. phase = "tools" /\ UNCHANGED << mode, arm, phase, code >> /\ tested' \in {code, tested}
      BY <2>6 DEF FinishVerification
    <3>2. QED
      BY <2>1, <3>1 DEF Contract!Verify
  <2>7. ASSUME NEW s \in Slots, ToolError(s) PROVE Contract!GiveUp
    <3>1. /\ phase = "tools" /\ phase' = "aborted" /\ UNCHANGED << mode, arm, tested >>
          /\ code' \in {code, code + 1}
      BY <2>7 DEF ToolError
    <3>2. QED
      BY <2>1, <3>1 DEF Contract!GiveUp
  <2>8. ASSUME NEW s \in Slots, OnToolEnd(s) PROVE UNCHANGED Contract!cvars
    <3>1. /\ phase = "tools" /\ phase' \in {"tools", "model"}
          /\ UNCHANGED << mode, arm, code, tested >>
      BY <2>8 DEF OnToolEnd
    <3>2. QED
      BY <3>1
  <2>9. CASE Claim
    <3>1. /\ phase = "model" /\ phase' \in {"model", "completed", "exhausted"}
          /\ UNCHANGED << mode, arm, code, tested >>
      BY <2>9 DEF Claim
    <3>2. CASE phase' = "completed"
      BY <3>1, <3>2 DEF Contract!CNext, Contract!Accept, AcceptedCodeTested
    <3>3. CASE phase' # "completed"
      BY <3>1, <3>3 DEF Contract!CNext, Contract!GiveUp
    <3>4. QED
      BY <3>2, <3>3
  <2>10. CASE ModelError
    BY <2>10 DEF ModelError, Contract!CNext, Contract!GiveUp
  <2>11. CASE UNCHANGED vars
    BY <2>2, <2>11 DEF vars
  <2>12. QED
    BY <2>3, <2>4, <2>5, <2>6, <2>7, <2>8, <2>9, <2>10, <2>11
       DEF Next, ToolStep, RunEnded, Contract!CNext
<1>3. QED
  BY <1>1, <1>2, GateInvariant, GateAcceptedCodeTested, PTL
     DEF Spec, ImplementsContract, Contract!CSpec
=============================================================================
