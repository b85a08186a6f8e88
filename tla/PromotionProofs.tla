--------------------------- MODULE PromotionProofs ---------------------------
(***************************************************************************)
(* Theorems about Promotion, for every set of tasks, every outcome and any *)
(* number of records completed, reports made and candidates replaced while *)
(* an audit is under way.  The audit never looks at single tasks and the   *)
(* report never at later records; what the two know together is the        *)
(* invariant.  It speaks of the candidates computed (drafts), since any of *)
(* them may be, or come to be, in the file.                                *)
(***************************************************************************)
EXTENDS Promotion, FiniteSetTheorems, TLAPS

-----------------------------------------------------------------------------
(* What single steps do *)

\* A report adds the candidate it computed from the records.
LEMMA ReportDrafts ==
    ASSUME Report
    PROVE  \E draft :
             /\ drafts' = drafts \cup {draft}
             /\ draft.aggregates = Aggregates(samples)
             /\ draft.gates \in BOOLEAN
             /\ draft.gates => SumsPass(Aggregates(samples)) /\ RepeatedRegressions(samples) = {}
<1>1. PICK bootstrap \in BootstrapAnswers(samples) :
        drafts' = drafts \cup {[aggregates |-> Aggregates(samples),
                                gates |-> CandidateGates(samples, bootstrap)]}
  BY DEF Report
<1>2. PICK draft : draft = [aggregates |-> Aggregates(samples),
                            gates |-> CandidateGates(samples, bootstrap)]
  OBVIOUS
<1>3. /\ draft.aggregates = Aggregates(samples)
      /\ draft.gates = CandidateGates(samples, bootstrap)
  BY <1>2, Zenon
<1>4. /\ CandidateGates(samples, bootstrap) \in BOOLEAN
      /\ CandidateGates(samples, bootstrap) =>
            SumsPass(Aggregates(samples)) /\ RepeatedRegressions(samples) = {}
  BY Zenon DEF CandidateGates
<1>5. draft.gates \in BOOLEAN
  BY <1>3, <1>4, Zenon
<1>6. draft.gates => SumsPass(Aggregates(samples)) /\ RepeatedRegressions(samples) = {}
  BY <1>3, <1>4, Zenon
<1>7. drafts' = drafts \cup {draft}
  BY <1>1, <1>2, Zenon
<1>8. QED
  BY <1>3, <1>5, <1>6, <1>7, Zenon

\* An audit that decides forgets what it has read.
LEMMA DecideFields ==
    ASSUME Decide
    PROVE  \E promote \in BOOLEAN :
             /\ audit' = AuditAt("decided", Nothing, promote)
             /\ promote => audit.judged.gates /\ Reproduced(audit.compared, audit.records)
<1>1. PICK artifacts \in Artifacts :
        audit' = AuditAt("decided", Nothing,
                    Promotable(audit.judged, audit.compared, audit.records, artifacts))
  BY DEF Decide
<1>2. PICK promote :
        promote = Promotable(audit.judged, audit.compared, audit.records, artifacts)
  OBVIOUS
<1>3. promote \in BOOLEAN
  BY <1>2, Zenon DEF Promotable
<1>4. audit' = AuditAt("decided", Nothing, promote)
  BY <1>1, <1>2, Zenon
<1>5. promote => audit.judged.gates /\ Reproduced(audit.compared, audit.records)
  BY <1>2, Zenon DEF Promotable
<1>6. QED
  BY <1>3, <1>4, <1>5

\* Only a decision promotes, by the gates it judged and aggregates it reproduced.
LEMMA PromotedByDecision ==
    ASSUME PromotionTypeOK, Next, Promotes
    PROVE  /\ audit.judged.gates
           /\ Reproduced(audit.compared, audit.records)
           /\ audit.compared \in drafts
<1>1. audit.at = "deciding" /\ audit'.at = "decided" /\ audit'.promote
  BY DEF Promotes
<1>2. Decide
  BY <1>1 DEF Next, Complete, Report, Publish, ReadCandidate, RereadCandidate, ReadRecords
<1>3. PICK promote \in BOOLEAN :
        /\ audit' = AuditAt("decided", Nothing, promote)
        /\ promote => audit.judged.gates /\ Reproduced(audit.compared, audit.records)
  BY <1>2, DecideFields
<1>4. audit'.promote = promote
  BY <1>3 DEF AuditAt
<1>5. audit.judged.gates /\ Reproduced(audit.compared, audit.records)
  BY <1>1, <1>3, <1>4, Zenon
<1>6. audit.compared \notin {Nothing, Torn}
  BY <1>5, Zenon DEF Reproduced
<1>7. QED
  BY <1>5, <1>6 DEF PromotionTypeOK, Readings

-----------------------------------------------------------------------------
(* Types *)

LEMMA CompleteKeepsLogs ==
    ASSUME samples \in Logs, NEW s \in Slots, NEW result \in Outcomes[s], Complete(s, result)
    PROVE  samples' \in Logs
<1>1. result \in Results
  BY PromotionAssumption
<1>2. samples \in [Slots -> Seq(Results)]
  BY DEF Logs
<1> HIDE DEF Results
<1>3. samples' \in [Slots -> Seq(Results)]
  BY <1>1, <1>2 DEF Complete
<1>4. QED
  BY <1>3 DEF Logs

LEMMA PromotionStepType == PromotionTypeOK /\ [Next]_vars => PromotionTypeOK'
<1> SUFFICES ASSUME PromotionTypeOK, [Next]_vars PROVE PromotionTypeOK'
  OBVIOUS
<1>1. ASSUME NEW s \in Slots, NEW result \in Outcomes[s], Complete(s, result) PROVE PromotionTypeOK'
  <2>1. samples' \in Logs
    BY <1>1, CompleteKeepsLogs DEF PromotionTypeOK
  <2>2. QED
    BY <1>1, <2>1 DEF Complete, PromotionTypeOK, Readings
<1>2. CASE Report
  <2>1. PICK draft : drafts' = drafts \cup {draft} /\ draft.gates \in BOOLEAN
    BY <1>2, ReportDrafts
  <2>2. Readings \subseteq Readings'
    BY <2>1 DEF Readings
  <2>3. UNCHANGED << samples, candidate, audit >>
    BY <1>2 DEF Report
  <2>4. QED
    BY <2>1, <2>2, <2>3 DEF PromotionTypeOK
<1>3. ASSUME NEW draft \in drafts, Publish(draft) PROVE PromotionTypeOK'
  BY <1>3 DEF Publish, PromotionTypeOK, Readings
<1>4. CASE ReadCandidate
  <2>1. audit' = AuditAt("judging", candidate, FALSE)
    BY <1>4 DEF ReadCandidate
  <2>2. UNCHANGED << samples, drafts, candidate >>
    BY <1>4 DEF ReadCandidate
  <2>3. QED
    BY <2>1, <2>2 DEF AuditAt, Phases, PromotionTypeOK, Readings
<1>5. CASE RereadCandidate
  BY <1>5 DEF RereadCandidate, Phases, PromotionTypeOK, Readings
<1>6. CASE ReadRecords
  <2>1. samples \in Logs
    BY DEF PromotionTypeOK
  <2>2. QED
    BY <1>6, <2>1 DEF ReadRecords, Phases, PromotionTypeOK, Readings
<1>7. CASE Decide
  <2>1. PICK promote \in BOOLEAN :
          audit' = AuditAt("decided", Nothing, promote)
    BY <1>7, DecideFields
  <2>2. QED
    BY <1>7, <2>1 DEF Decide, AuditAt, Phases, PromotionTypeOK, Readings
<1>8. CASE UNCHANGED vars
  BY <1>8 DEF vars, PromotionTypeOK, Readings
<1>9. QED
  BY <1>1, <1>2, <1>3, <1>4, <1>5, <1>6, <1>7, <1>8 DEF Next

\* The variables keep their types: what is in the candidate's file and what an audit read
\* of it is nothing, torn or a candidate that some report computed (generate_codex_ab_report,
\* audit_codex_ab).
THEOREM PromotionTypeCorrect == Spec => []PromotionTypeOK
<1>1. Init => PromotionTypeOK
  <2>1. << >> \in Seq(Results)
    OBVIOUS
  <2>2. QED
    BY <2>1 DEF Init, AuditAt, Phases, Logs, PromotionTypeOK, Readings
<1>2. QED
  BY <1>1, PromotionStepType, PTL DEF Spec

-----------------------------------------------------------------------------
(* A promotion is right about the sums *)

\* A candidate that passed its gates carries sums that pass them.
SoundDrafts == \A draft \in drafts : draft.gates => SumsPass(draft.aggregates)

LEMMA SoundStep == SoundDrafts /\ [Next]_vars => SoundDrafts'
<1> SUFFICES ASSUME SoundDrafts, [Next]_vars PROVE SoundDrafts'
  OBVIOUS
<1>1. CASE Report
  <2>1. PICK draft : /\ drafts' = drafts \cup {draft}
                     /\ draft.aggregates = Aggregates(samples)
                     /\ draft.gates => SumsPass(Aggregates(samples))
    BY <1>1, ReportDrafts, Zenon
  <2>2. draft.gates => SumsPass(draft.aggregates)
    BY <2>1, Zenon
  <2>3. QED
    BY <2>1, <2>2, Zenon DEF SoundDrafts
<1>2. CASE UNCHANGED drafts
  BY <1>2 DEF SoundDrafts
<1>3. QED
  BY <1>1, <1>2 DEF Next, Complete, Publish, ReadCandidate, RereadCandidate, ReadRecords, Decide, vars

\* Whatever was completed, reported and written over while the audit made its steps, the
\* records a promotion rests on hold no slot twice, and if the candidate was the same at
\* both readings they pass its gates on passes, tokens and seconds (finalize_promotion,
\* _aggregates_match, _independent_aggregates).
THEOREM PromotionIsSound == Spec => PromotionSound
<1>1. Init => SoundDrafts
  BY DEF Init, SoundDrafts
<1>2. PromotionTypeOK /\ SoundDrafts /\ [Next]_vars =>
        [Promotes =>
          /\ Extra(audit.records) = 0
          /\ audit.judged = audit.compared => SumsPass(Aggregates(audit.records))]_vars
  <2> SUFFICES ASSUME PromotionTypeOK, SoundDrafts, Next, Promotes
               PROVE  /\ Extra(audit.records) = 0
                      /\ audit.judged = audit.compared => SumsPass(Aggregates(audit.records))
    BY DEF Promotes, vars
  <2>1. audit.judged.gates /\ Reproduced(audit.compared, audit.records) /\ audit.compared \in drafts
    BY PromotedByDecision
  <2>2. Extra(audit.records) = 0 /\ audit.compared.aggregates = Aggregates(audit.records)
    BY <2>1, Zenon DEF Reproduced, Auditable
  <2>3. QED
    BY <2>1, <2>2, Zenon DEF SoundDrafts
<1>3. QED
  BY <1>1, <1>2, SoundStep, PromotionTypeCorrect, PTL DEF Spec, PromotionSound

-----------------------------------------------------------------------------
(* No task got worse, although the audit looks at no task *)

RawTasks(log) == {pair[1] : pair \in Pairs(log)}

\* What a report found of the tasks and later records cannot undo: while there are as many
\* raw cells as it counted they are those it saw, with the same first records.
CurrentFor(draft, log) ==
    /\ draft.aggregates.pairs \in Nat
    /\ draft.aggregates.pairs <= Cardinality(Pairs(log))
    /\ Cardinality(Pairs(log)) = draft.aggregates.pairs =>
        /\ \A s \in Slots : s.task \in RawTasks(log) => s \in Sampled(log)
        /\ draft.gates =>
            \A task \in RawTasks(log) : \E repetition \in {1, 2} :
                ~ (Delta(log, << task, repetition >>) <= -10)

\* Every candidate, wherever it is, is current for the records there are and for those
\* the audit has read since it read the candidate.
DraftsCurrent ==
    /\ \A draft \in drafts : CurrentFor(draft, samples)
    /\ audit.at = "deciding" /\ audit.compared \notin {Nothing, Torn} =>
            CurrentFor(audit.compared, audit.records)

LEMMA PairsFinite ==
    ASSUME NEW log
    PROVE  /\ Pairs(log) \in SUBSET (Tasks \X {1, 2})
           /\ \A S \in SUBSET Pairs(log) :
                /\ Cardinality(S) \in Nat /\ Cardinality(Pairs(log)) \in Nat
                /\ Cardinality(S) <= Cardinality(Pairs(log))
                /\ Cardinality(S) = Cardinality(Pairs(log)) => S = Pairs(log)
<1>1. IsFiniteSet({1, 2})
  <2>1. {1, 2} = {1} \cup {2}
    OBVIOUS
  <2>2. IsFiniteSet({1})
    BY FS_Singleton
  <2>3. IsFiniteSet({1} \cup {2})
    BY <2>2, FS_AddElement
  <2>4. QED
    BY <2>1, <2>3
<1>2. IsFiniteSet(Tasks \X {1, 2})
  BY <1>1, PromotionAssumption, FS_Product
<1>3. Pairs(log) \in SUBSET (Tasks \X {1, 2})
  BY DEF Pairs, Cells, Of, Sampled, Slots
<1>4. IsFiniteSet(Pairs(log))
  BY <1>2, <1>3, FS_Subset
<1>5. QED
  BY <1>3, <1>4, FS_Subset, FS_CardinalityType

\* Aggregates count the raw cells.
LEMMA AggregatesCountPairs ==
    ASSUME NEW log
    PROVE  Aggregates(log).pairs = Cardinality(Pairs(log))
  BY Zenon DEF Aggregates

\* A report's candidate is current when it is computed.
LEMMA DraftIsCurrent ==
    ASSUME Reportable(samples), NEW draft, draft.aggregates = Aggregates(samples),
           draft.gates => RepeatedRegressions(samples) = {}
    PROVE  CurrentFor(draft, samples)
<1>1. draft.aggregates.pairs = Cardinality(Pairs(samples))
  BY AggregatesCountPairs
<1>2. Cardinality(Pairs(samples)) \in Nat
  BY PairsFinite
<1>3. RawTasks(samples) \subseteq SampledTasks(samples)
  BY DEF RawTasks, Pairs, Cells, Of, SampledTasks
<1>4. \A s \in Slots : s.task \in RawTasks(samples) => s \in Sampled(samples)
  BY <1>3 DEF Reportable, LatticeComplete
<1>5. ASSUME draft.gates, NEW task \in RawTasks(samples)
      PROVE  \E repetition \in {1, 2} : ~ (Delta(samples, << task, repetition >>) <= -10)
  BY <1>3, <1>5 DEF RepeatedRegressions
<1>6. QED
  BY <1>1, <1>2, <1>4, <1>5 DEF CurrentFor

\* Records only come after those of their slot.
Longer(log, longer) ==
    \A s \in Sampled(log) : s \in Sampled(longer) /\ longer[s][1] = log[s][1]

LEMMA LongerKeepsCurrent ==
    ASSUME NEW log, NEW longer, Longer(log, longer), NEW draft, CurrentFor(draft, log)
    PROVE  CurrentFor(draft, longer)
<1>1. Pairs(log) \subseteq Pairs(longer)
  BY DEF Pairs, Cells, Of, Longer
<1>2. /\ Cardinality(Pairs(log)) \in Nat /\ Cardinality(Pairs(longer)) \in Nat
      /\ Cardinality(Pairs(log)) <= Cardinality(Pairs(longer))
      /\ Cardinality(Pairs(log)) = Cardinality(Pairs(longer)) => Pairs(log) = Pairs(longer)
  BY <1>1, PairsFinite
<1>3. CASE Cardinality(Pairs(longer)) = draft.aggregates.pairs
  <2>1. Cardinality(Pairs(log)) = draft.aggregates.pairs /\ Pairs(longer) = Pairs(log)
    BY <1>2, <1>3 DEF CurrentFor
  <2>2. RawTasks(longer) = RawTasks(log)
    BY <2>1 DEF RawTasks
  <2>3. \A s \in Slots : s.task \in RawTasks(log) => s \in Sampled(log)
    BY <2>1 DEF CurrentFor
  <2>4. \A s \in Slots : s.task \in RawTasks(longer) => s \in Sampled(longer)
    BY <2>2, <2>3 DEF Longer
  <2>5. ASSUME draft.gates, NEW task \in RawTasks(longer)
        PROVE  \E repetition \in {1, 2} : ~ (Delta(longer, << task, repetition >>) <= -10)
    <3>1. PICK repetition \in {1, 2} : ~ (Delta(log, << task, repetition >>) <= -10)
      BY <2>1, <2>2, <2>5 DEF CurrentFor
    <3>2. task \in Tasks
      BY <2>5, PairsFinite DEF RawTasks
    <3>3. \A arm \in Arms : [task |-> task, repetition |-> repetition, arm |-> arm] \in Sampled(log)
      BY <2>2, <2>3, <2>5, <3>2 DEF Slots
    <3>4. \A arm \in Arms : LET s == [task |-> task, repetition |-> repetition, arm |-> arm]
                            IN  longer[s][1] = log[s][1]
      BY <3>3 DEF Longer
    <3>5. Delta(longer, << task, repetition >>) = Delta(log, << task, repetition >>)
      BY <3>4 DEF Delta, Arms, Score
    <3>6. QED
      BY <3>1, <3>5
  <2>6. QED
    BY <1>2, <1>3, <2>1, <2>4, <2>5 DEF CurrentFor
<1>4. CASE Cardinality(Pairs(longer)) # draft.aggregates.pairs
  BY <1>2, <1>4 DEF CurrentFor
<1>5. QED
  BY <1>3, <1>4

\* A completed record changes the first record of no slot that has one.
LEMMA CompleteLengthens ==
    ASSUME samples \in Logs, NEW s \in Slots, NEW result \in Outcomes[s], Complete(s, result)
    PROVE  Longer(samples, samples')
<1>1. samples \in [Slots -> Seq(Results)] /\ result \in Results
  BY PromotionAssumption DEF Logs
<1> HIDE DEF Results
<1> SUFFICES ASSUME NEW r \in Sampled(samples)
             PROVE  r \in Sampled(samples') /\ samples'[r][1] = samples[r][1]
  BY DEF Longer
<1>2. r \in Slots /\ samples[r] \in Seq(Results) /\ samples[r] # << >>
  BY <1>1 DEF Sampled
<1>3. CASE r = s
  <2>1. samples'[r] = Append(samples[r], result)
    BY <1>1, <1>2, <1>3 DEF Complete
  <2>2. samples'[r] # << >> /\ samples'[r][1] = samples[r][1]
    BY <1>1, <1>2, <2>1
  <2>3. QED
    BY <1>2, <2>2 DEF Sampled
<1>4. CASE r # s
  <2>1. samples'[r] = samples[r]
    BY <1>1, <1>2, <1>4 DEF Complete
  <2>2. QED
    BY <1>2, <2>1 DEF Sampled
<1>5. QED
  BY <1>3, <1>4

LEMMA CurrentStep == PromotionTypeOK /\ DraftsCurrent /\ [Next]_vars => DraftsCurrent'
<1> SUFFICES ASSUME PromotionTypeOK, DraftsCurrent, [Next]_vars PROVE DraftsCurrent'
  OBVIOUS
<1>1. ASSUME NEW s \in Slots, NEW result \in Outcomes[s], Complete(s, result) PROVE DraftsCurrent'
  <2>1. Longer(samples, samples')
    BY <1>1, CompleteLengthens DEF PromotionTypeOK
  <2>2. \A draft \in drafts : CurrentFor(draft, samples')
    BY <2>1, LongerKeepsCurrent DEF DraftsCurrent
  <2>3. UNCHANGED << drafts, audit >>
    BY <1>1 DEF Complete
  <2>4. QED
    BY <2>2, <2>3, Zenon DEF DraftsCurrent
<1>2. CASE Report
  <2>1. PICK draft : /\ drafts' = drafts \cup {draft}
                     /\ draft.aggregates = Aggregates(samples)
                     /\ draft.gates => RepeatedRegressions(samples) = {}
    BY <1>2, ReportDrafts, Zenon
  <2>2. CurrentFor(draft, samples)
    BY <1>2, <2>1, DraftIsCurrent, Zenon DEF Report
  <2>3. UNCHANGED << samples, audit >>
    BY <1>2 DEF Report
  <2>4. QED
    BY <2>1, <2>2, <2>3 DEF DraftsCurrent
<1>3. CASE ReadRecords
  BY <1>3 DEF ReadRecords, DraftsCurrent, PromotionTypeOK, Readings
<1>4. CASE UNCHANGED << samples, drafts >> /\ audit'.at # "deciding"
  BY <1>4 DEF DraftsCurrent
<1>5. CASE UNCHANGED << samples, drafts, audit >>
  BY <1>5 DEF DraftsCurrent
<1>6. ReadCandidate \/ RereadCandidate \/ Decide =>
        UNCHANGED << samples, drafts >> /\ audit'.at # "deciding"
  <2>1. CASE Decide
    BY <2>1, DecideFields DEF Decide, AuditAt
  <2>2. CASE ReadCandidate
    BY <2>2 DEF ReadCandidate, AuditAt
  <2>3. CASE RereadCandidate
    BY <2>3 DEF RereadCandidate, PromotionTypeOK
  <2>4. QED
    BY <2>1, <2>2, <2>3
<1>7. QED
  BY <1>1, <1>2, <1>3, <1>4, <1>5, <1>6 DEF Next, Publish, vars

\* Although the audit looks at no task, and slots were completed since the report did and
\* while the audit read its files, no promotion rests on records that leave a sampled task
\* unpaired; nor, if the candidate was the same at both readings, on records in which lean
\* loses ten points on a task in both repetitions (_build_comparison, finalize_promotion).
THEOREM PromotionIsUnregressed == Spec => PromotionUnregressed
<1>1. Init => DraftsCurrent
  BY DEF Init, AuditAt, DraftsCurrent
<1>2. PromotionTypeOK /\ DraftsCurrent /\ [Next]_vars =>
        [Promotes =>
          /\ LatticeComplete(audit.records)
          /\ audit.judged = audit.compared => RepeatedRegressions(audit.records) = {}]_vars
  <2> SUFFICES ASSUME PromotionTypeOK, DraftsCurrent, Next, Promotes
               PROVE  /\ LatticeComplete(audit.records)
                      /\ audit.judged = audit.compared => RepeatedRegressions(audit.records) = {}
    BY DEF Promotes, vars
  <2> DEFINE log == audit.records
             draft == audit.compared
  <2>1. audit.judged.gates /\ Reproduced(draft, log) /\ draft \in drafts
    BY PromotedByDecision
  <2>2. Auditable(log) /\ draft.aggregates = Aggregates(log)
    BY <2>1, Zenon DEF Reproduced
  <2>3. Cardinality(Pairs(log)) = draft.aggregates.pairs
    BY <2>2, AggregatesCountPairs
  <2>4. CurrentFor(draft, log)
    BY <2>1 DEF Reproduced, DraftsCurrent, Promotes
  <2>5. \A s \in Slots : s.task \in RawTasks(log) => s \in Sampled(log)
    BY <2>3, <2>4 DEF CurrentFor
  <2>6. SampledTasks(log) \subseteq RawTasks(log)
    <3>1. ASSUME NEW s \in Sampled(log) PROVE s.task \in RawTasks(log)
      <4>1. << s.task, s.repetition >> \in Cells(log, "raw") \cup Cells(log, "lean")
        BY DEF Cells, Of, Sampled, Slots, Arms
      <4>2. << s.task, s.repetition >> \in Pairs(log)
        BY <2>2, <4>1 DEF Auditable, Pairs
      <4>3. QED
        BY <4>2 DEF RawTasks
    <3>2. QED
      BY <3>1 DEF SampledTasks
  <2>7. LatticeComplete(log)
    BY <2>5, <2>6 DEF LatticeComplete, SampledTasks, Sampled
  <2>8. ASSUME audit.judged = draft PROVE RepeatedRegressions(log) = {}
    <3>1. draft.gates
      BY <2>1, <2>8, Zenon
    <3>2. \A task \in RawTasks(log) : \E repetition \in {1, 2} :
             ~ (Delta(log, << task, repetition >>) <= -10)
      BY <2>3, <2>4, <3>1 DEF CurrentFor
    <3>3. QED
      BY <2>6, <3>2 DEF RepeatedRegressions
  <2>9. QED
    BY <2>7, <2>8
<1>3. QED
  BY <1>1, <1>2, CurrentStep, PromotionTypeCorrect, PTL DEF Spec, PromotionUnregressed
=============================================================================
