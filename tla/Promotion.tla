------------------------------ MODULE Promotion ------------------------------
(***************************************************************************)
(* From the slot.completed records of a clean-room comparison to the       *)
(* decision whether the lean plugin is promoted.  fablized-codex-report    *)
(* computes a candidate from the records it finds and writes it to a file; *)
(* fablized-codex-audit reads that file, reads it again, recomputes its    *)
(* aggregates from the records it finds and writes the decision.  They are *)
(* separate commands and nothing is locked: the run may be resumed and     *)
(* complete further slots, and reports may replace the candidate, between  *)
(* any two of these steps.  CleanroomRun shows which records a run writes. *)
(* Audits share nothing with each other but the file of the decision,      *)
(* which none of the commands reads, so one at a time is modelled.         *)
(*                                                                         *)
(* Means of equally many samples are compared as sums and ratios by cross  *)
(* multiplication.  The bootstrap draws 10000 resamples from a seed: its   *)
(* lower bound lies between the smallest and the mean delta, and where     *)
(* both sides of the floor are possible either is taken.                   *)
(***************************************************************************)
EXTENDS Integers, Sequences, FiniteSetsExt

CONSTANTS
    Tasks,      \* tasks of the manifest
    Outcomes,   \* for each slot, the records its turn may end in
    MaxExtra,   \* bound of the model: completed records beyond the first of a slot
    MaxReports, \* bound of the model: different candidates computed
    Nothing,    \* no file yet, or not read yet
    Torn        \* a file that is being written, or whose writer died

Arms == {"raw", "lean"}
Slots == [task : Tasks, repetition : {1, 2}, arm : Arms]
Results == [passed : BOOLEAN, cost : [tokens : Nat, seconds : Nat \ {0}]]
Logs == [Slots -> Seq(Results)]

ASSUME PromotionAssumption ==
    /\ IsFiniteSet(Tasks)
    /\ Outcomes \in [Slots -> SUBSET Results]
    /\ MaxExtra \in Nat /\ MaxReports \in Nat

VARIABLES
    samples,    \* completed records of each slot, in order
    drafts,     \* candidates that reports have computed
    candidate,  \* the report's file
    audit       \* the audit: how far it is, what it has read, what it decided

vars == << samples, drafts, candidate, audit >>

-----------------------------------------------------------------------------
(***************************************************************************)
(* What the two commands compute from the records they read.               *)
(***************************************************************************)
Score(result) == IF result.passed THEN 100 ELSE 0

Sampled(log) == {s \in Slots : log[s] # << >>}
SampledTasks(log) == {s.task : s \in Sampled(log)}
Of(log, arm) == {s \in Sampled(log) : s.arm = arm}
Total(log, arm, Value(_)) == MapThenSumSet(LAMBDA s : Value(log[s][1]), Of(log, arm))
Extra(log) == MapThenSumSet(LAMBDA s : Len(log[s]) - 1, Sampled(log))

\* The report refuses a slot completed twice, and anything but both arms in both
\* repetitions of every task that it has a sample of.
Duplicated(log) == \E s \in Sampled(log) : Len(log[s]) > 1
LatticeComplete(log) == Sampled(log) = {s \in Slots : s.task \in SampledTasks(log)}
Cells(log, arm) == {<< s.task, s.repetition >> : s \in Of(log, arm)}
Pairs(log) == Cells(log, "raw")
Delta(log, pair) ==
    LET cell(arm) == log[[task |-> pair[1], repetition |-> pair[2], arm |-> arm]][1]
    IN  Score(cell("lean")) - Score(cell("raw"))

\* What both programs compute, each with its own code.
Aggregates(log) == [
    pairs   |-> Cardinality(Pairs(log)),
    tasks   |-> Cardinality(SampledTasks(log)),
    delta   |-> MapThenSumSet(LAMBDA pair : Delta(log, pair), Pairs(log)),
    passes  |-> [arm \in Arms |-> Total(log, arm, LAMBDA r : IF r.passed THEN 1 ELSE 0)],
    tokens  |-> [arm \in Arms |-> Total(log, arm, LAMBDA r : r.cost.tokens)],
    seconds |-> [arm \in Arms |-> Total(log, arm, LAMBDA r : r.cost.seconds)]]

\* lean / raw <= percent / 100
Within(sums, percent) == 100 * sums["lean"] <= percent * sums["raw"]

Floor == -2
BootstrapAnswers(log) ==
    IF \A pair \in Pairs(log) : Delta(log, pair) >= Floor THEN {TRUE}
    ELSE IF Aggregates(log).delta < Floor * Cardinality(Pairs(log)) THEN {FALSE} ELSE BOOLEAN

RepeatedRegressions(log) ==
    {task \in SampledTasks(log) :
        \A repetition \in {1, 2} : Delta(log, << task, repetition >>) <= -10}

\* The gates on passes, tokens and time.
SumsPass(aggregates) ==
    /\ aggregates.passes["lean"] >= aggregates.passes["raw"]
    /\ Within(aggregates.tokens, 105)
    /\ Within(aggregates.seconds, 110)

\* Mutant of CandidateGates: means only, no task by task comparison.
CandidateGatesMean(log, bootstrap) ==
    Aggregates(log).delta >= 0 /\ bootstrap /\ SumsPass(Aggregates(log))

\* The six gates.
CandidateGates(log, bootstrap) ==
    /\ Aggregates(log).delta >= 0
    /\ bootstrap
    /\ SumsPass(Aggregates(log))
    /\ RepeatedRegressions(log) = {}

\* A zero token baseline is an error; the seconds of a sample are positive.
Reportable(log) ==
    /\ Sampled(log) # {}
    /\ ~ Duplicated(log)
    /\ LatticeComplete(log)
    /\ Total(log, "raw", LAMBDA r : r.cost.tokens) > 0

\* The audit pairs what it finds, repetition by repetition, and counts records.
Auditable(log) ==
    /\ Of(log, "raw") # {}
    /\ Cells(log, "raw") = Cells(log, "lean")
    /\ Extra(log) = 0

\* Mutant of Reproduced: the candidate is trusted if the records can be audited.
ReproducedByShape(compared, log) == compared \notin {Nothing, Torn} /\ Auditable(log)

\* The audit recomputed what is in the candidate.
Reproduced(compared, log) ==
    /\ compared \notin {Nothing, Torn}
    /\ Auditable(log)
    /\ compared.aggregates = Aggregates(log)

Artifacts == {"clean", "omitted", "leaked"}

\* All gates: those the candidate brings and those of the audit.  An audit that cannot be
\* made, because a file is half written, is an omission.
Promotable(judged, compared, log, artifacts) ==
    /\ judged.gates
    /\ artifacts = "clean"
    /\ Reproduced(compared, log)

-----------------------------------------------------------------------------
(***************************************************************************)
(* The commands.                                                           *)
(***************************************************************************)
\* An audit that has read at most the gates, or is done with what it read.
AuditAt(at, judged, promote) ==
    [at |-> at, judged |-> judged, compared |-> Nothing, records |-> Nothing, promote |-> promote]

Init ==
    /\ samples = [s \in Slots |-> << >>]
    /\ drafts = {}
    /\ candidate = Nothing
    /\ audit = AuditAt("idle", Nothing, FALSE)

\* The run completes a slot, and after overlapping resumptions one again.
Complete(s, result) ==
    /\ samples[s] # << >> => Extra(samples) < MaxExtra
    /\ samples' = [samples EXCEPT ![s] = Append(@, result)]
    /\ UNCHANGED << drafts, candidate, audit >>

\* report computes a candidate.  Any number of reports may have computed the same one,
\* and any of them may die before it writes.
Report ==
    /\ Reportable(samples)
    /\ \E bootstrap \in BootstrapAnswers(samples) :
          LET draft == [aggregates |-> Aggregates(samples),
                        gates |-> CandidateGates(samples, bootstrap)]
          IN  /\ draft \notin drafts => Cardinality(drafts) < MaxReports
              /\ drafts' = drafts \cup {draft}
    /\ UNCHANGED << samples, candidate, audit >>

\* ... and writes it: write_text empties the file before it fills it.  Of two reports that
\* write at once, one candidate or a mixture that is no record is left.
Publish(draft) ==
    /\ candidate' \in {Torn, draft}
    /\ UNCHANGED << samples, drafts, audit >>

\* audit reads the candidate whose gates it passes on; without one it ends in an error.
ReadCandidate ==
    /\ audit.at \in {"idle", "decided"}
    /\ candidate \notin {Nothing, Torn}
    /\ audit' = AuditAt("judging", candidate, FALSE)
    /\ UNCHANGED << samples, drafts, candidate >>

\* audit_codex_ab reads it again, to compare its aggregates ...
RereadCandidate ==
    /\ audit.at = "judging"
    /\ audit' = [audit EXCEPT !.at = "comparing", !.compared = candidate]
    /\ UNCHANGED << samples, drafts, candidate >>

\* ... and then the records.
ReadRecords ==
    /\ audit.at = "comparing"
    /\ audit' = [audit EXCEPT !.at = "deciding", !.records = samples]
    /\ UNCHANGED << samples, drafts, candidate >>

\* It scans the artifacts, with whatever result, and writes the decision.
Decide ==
    /\ audit.at = "deciding"
    /\ \E artifacts \in Artifacts :
          audit' = AuditAt("decided", Nothing,
                      Promotable(audit.judged, audit.compared, audit.records, artifacts))
    /\ UNCHANGED << samples, drafts, candidate >>

Next ==
    \/ \E s \in Slots : \E result \in Outcomes[s] : Complete(s, result)
    \/ Report
    \/ \E draft \in drafts : Publish(draft)
    \/ ReadCandidate
    \/ RereadCandidate
    \/ ReadRecords
    \/ Decide

Spec == Init /\ [][Next]_vars
-----------------------------------------------------------------------------
(***************************************************************************)
(* Properties.                                                             *)
(***************************************************************************)
Phases == {"idle", "judging", "comparing", "deciding", "decided"}

\* What a file of the candidate holds, or an audit read there.
Readings == drafts \cup {Nothing, Torn}

\* The variables keep their types, and an audit that decides has read the records.
PromotionTypeOK ==
    /\ samples \in Logs
    /\ \A draft \in drafts : draft.gates \in BOOLEAN
    /\ candidate \in Readings
    /\ audit \in [at : Phases, judged : Readings, compared : Readings,
                 records : Logs \cup {Nothing}, promote : BOOLEAN]
    /\ audit.at = "deciding" => audit.records \in Logs

Promotes == audit.at = "deciding" /\ audit'.at = "decided" /\ audit'.promote

\* A promotion is right about the records the audit read, however old the candidate it is
\* made from: each cell was completed once, lean passed at least as often as raw, and its
\* turns cost at most 5 % more tokens and 10 % more time (finalize_promotion,
\* _aggregates_match, _independent_aggregates).  The gates are those of the first reading
\* of the candidate and the aggregates those of the second: the property is about audits
\* that read the same candidate twice.
PromotionSound ==
    [][Promotes =>
          /\ Extra(audit.records) = 0
          /\ audit.judged = audit.compared => SumsPass(Aggregates(audit.records))]_vars

\* The audit looks at no single task; still no promotion is made from records that leave a
\* sampled task unpaired, although slots were completed since the report looked at the
\* tasks.  Nor, if the audit read the same candidate twice, from records in which lean
\* loses 10 points on a task in both repetitions.
PromotionUnregressed ==
    [][Promotes =>
          /\ LatticeComplete(audit.records)
          /\ audit.judged = audit.compared => RepeatedRegressions(audit.records) = {}]_vars

\* "T109-T116 x two arms x two repetitions = 32 planned slots", and artifact
\* omissions must be zero: a promotion rests on every planned slot
\* (docs/CODEX_AB_PREREGISTRATION.md).
PromotionCoversPlan == [][Promotes => Sampled(audit.records) = Slots]_vars
=============================================================================
