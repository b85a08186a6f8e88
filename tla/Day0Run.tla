------------------------------ MODULE Day0Run ------------------------------
(***************************************************************************)
(* fablized-day0: one process that plans every run of a task manifest,     *)
(* executes them one after the other against the model, has each graded in *)
(* a container, and appends what happens to events.jsonl.  Procs are the   *)
(* invocations of one command line, hence of one output directory and one  *)
(* run id; the first to make the run directory owns it and there is no     *)
(* resumption.                                                             *)
(*                                                                         *)
(* The model's turn (harness/run.py with its tools and gate) is            *)
(* EvidenceGate's subject; here it ends in one of four ways.  A process    *)
(* dies between any two appends: killed, or by an error or an interrupt    *)
(* that no handler of run_evaluation covers.                               *)
(***************************************************************************)
EXTENDS ContainerRuntime, Sequences, FiniteSets, SequencesExt

CONSTANTS
    TaskOrder,       \* the tasks in the order of the manifest
    HeldOut,         \* tasks whose assignment key falls in the 20 % holdout
    ArmsReversed,    \* ... whose key puts the OFF arm first
    ModelsReversed,  \* ... and whose key puts the reference model first
    Options,         \* what the command line may say
    MaxSetbacks,     \* bound: recorded ends that are not completed-and-passed
    Nobody           \* no process owns the run directory

Tasks == ToSet(TaskOrder)

ASSUME Day0Assumption ==
    /\ TaskOrder \in Seq(Tasks) /\ IsInjective(TaskOrder)
    /\ \A o \in Options : o.arm_design \in {"crossover", "holdout"}
    /\ MaxSetbacks \in Nat
    /\ Nobody \notin Procs

VARIABLES
    phase,      \* where each process is
    exit,       \* how it ended: codes 0 "ok", 1 "failed", 2 "exists", or "died"
    owner,      \* who made the run directory
    options,    \* the command line
    at,         \* the run its loop is at
    turn,       \* what became of the model's turn of that run
    failed,     \* whether the evaluation has failed
    log,        \* events.jsonl
    accepted    \* for the properties: runs whose grading container exited with 0

day0Vars == << phase, exit, owner, options, at, turn, failed, log, accepted, grading, containers >>

Models == {"baseline", "reference"}
Arms == {"on", "off"}
Runs == [task : Tasks, model : Models, arm : Arms]
Statuses == {"completed", "exhausted", "error", "abandoned"}

\* A live evaluation is confirmed and names two images by different digests.
Runnable(o) ==
    /\ o.manifest = "valid"
    /\ o.models_distinct
    /\ o.dry_run \/ /\ o.confirm_billable
                    /\ "none" \notin {o.verification_image, o.grader_image}
                    /\ o.verification_image # o.grader_image

ArmsOf(t, design) ==
    IF design = "holdout" THEN IF t \in HeldOut THEN << "off" >> ELSE << "on" >>
    ELSE IF t \in ArmsReversed THEN << "off", "on" >> ELSE << "on", "off" >>
ModelsOf(t, design) ==
    IF design = "crossover" /\ t \in ModelsReversed THEN << "reference", "baseline" >>
                                                    ELSE << "baseline", "reference" >>
RunsOf(t, design) ==
    LET arms == ArmsOf(t, design)
    IN  [k \in 1 .. 2 * Len(arms) |->
            [task |-> t, model |-> ModelsOf(t, design)[((k - 1) % 2) + 1], arm |-> arms[(k + 1) \div 2]]]
\* Task by task in the order of the manifest, the same number of runs of each.
PerTask(design) == IF design = "holdout" THEN 2 ELSE 4
Plans == [design \in {"crossover", "holdout"} |->
             [k \in 1 .. PerTask(design) * Len(TaskOrder) |->
                 RunsOf(TaskOrder[((k - 1) \div PerTask(design)) + 1], design)
                     [((k - 1) % PerTask(design)) + 1]]]
Planned == Plans[options.arm_design]

Event(kind, run) == [event |-> kind, run |-> run]
Finish(run, status, passed) ==
    [event |-> "run_finished", run |-> run, status |-> status, grader_passed |-> passed]
IsFinish(e) == e.event = "run_finished"
Clean(e) == e.status = "completed" /\ e.grader_passed = "yes"
Started(run) == Event("run_started", run) \in ToSet(log)
Ends == {i \in DOMAIN log : IsFinish(log[i])}
Finishes == {log[i] : i \in Ends}

Day0Init ==
    /\ phase = [p \in Procs |-> "invoked"]
    /\ exit = [p \in Procs |-> "none"]
    /\ owner = Nobody
    /\ options \in Options
    /\ at = 1
    /\ turn = "none"
    /\ failed = FALSE
    /\ log = << >>
    /\ accepted = {}
    /\ grading = [p \in Procs |-> "idle"]
    /\ containers = {}

Goto(p, where) == phase' = [phase EXCEPT ![p] = where]
Exit(p, how) == Goto(p, "ended") /\ exit' = [exit EXCEPT ![p] = how]
InLoop(p, where) == phase[p] = where /\ at <= Len(Planned)
LoopOver(p, where) == phase[p] = where /\ at > Len(Planned)
Current == Planned[at]
graders == << grading, containers >>

\* mkdir without exist_ok is what keeps a second process off the run.
Evaluate(p) ==
    /\ phase[p] = "invoked"
    /\ IF ~ Runnable(options) THEN Exit(p, "refused") /\ UNCHANGED owner
       ELSE IF owner # Nobody THEN Exit(p, "exists") /\ UNCHANGED owner
       ELSE owner' = p /\ Goto(p, "planning") /\ UNCHANGED exit
    /\ UNCHANGED << options, at, turn, failed, log, accepted, graders >>

Plan(p) ==
    /\ InLoop(p, "planning")
    /\ log' = Append(log, Event("run_planned", Current))
    /\ at' = at + 1
    /\ UNCHANGED << phase, exit, owner, options, turn, failed, accepted, graders >>

\* A dry run ends here.  Without a key or an image every run is given an end.
Prepare(p) ==
    /\ LoopOver(p, "planning")
    /\ at' = 1
    /\ IF options.dry_run THEN Exit(p, "ok")
       ELSE /\ \/ Goto(p, "keyless")
               \/ \E found \in PreflightAnswers({options.verification_image, options.grader_image}) :
                     Goto(p, IF found THEN "running" ELSE "imageless")
            /\ UNCHANGED exit
    /\ UNCHANGED << owner, options, turn, failed, log, accepted, graders >>

FailUnstarted(p) ==
    /\ \E where \in {"keyless", "abandoning"} :
          /\ InLoop(p, where)
          /\ log' = Append(log, Finish(Current, IF where = "keyless" THEN "error" ELSE "abandoned", "unknown"))
    /\ at' = at + 1
    /\ UNCHANGED << phase, exit, owner, options, turn, failed, accepted, graders >>

\* Two appends per run: it starts, and it ends.
FailImageless(p) ==
    /\ InLoop(p, "imageless")
    /\ IF Started(Current)
       THEN log' = Append(log, Finish(Current, "error", "unknown")) /\ at' = at + 1
       ELSE log' = Append(log, Event("run_started", Current)) /\ UNCHANGED at
    /\ UNCHANGED << phase, exit, owner, options, turn, failed, accepted, graders >>

GiveUp(p) ==
    /\ \E where \in {"keyless", "imageless", "abandoning"} : LoopOver(p, where)
    /\ Exit(p, "failed")
    /\ UNCHANGED << owner, options, at, turn, failed, log, accepted, graders >>

Begin(p) ==
    /\ InLoop(p, "running")
    /\ turn = "none"
    /\ log' = Append(log, Event("run_started", Current))
    /\ turn' = "working"
    /\ UNCHANGED << phase, exit, owner, options, at, failed, accepted, graders >>

\* Bounds the recorded ends of either kind; the rows of abandoned runs that
\* never started are not counted.
Affordable == Cardinality({i \in Ends : ~ Clean(log[i])}) < MaxSetbacks

\* The fixture is copied and the agent runs; its exceptions reach Record.
ExecuteLive(p) ==
    /\ InLoop(p, "running")
    /\ turn = "working"
    /\ turn' \in {"completed", "exhausted", "raised", "interrupted"}
    /\ Affordable \/ turn' = "completed"
    /\ UNCHANGED << phase, exit, owner, options, at, failed, log, accepted, graders >>

Ended(p) == turn \in {"raised", "interrupted"} \/ (turn \in {"completed", "exhausted"} /\ Judged(p))
Fate(p) == IF Judged(p) THEN grading[p] ELSE turn

\* Mutant of Outcome: a run that no grader could judge is recorded as ended well.
OutcomeUngraded(p) ==
    CASE Fate(p) = "raised" -> << "error", "no" >>
      [] Fate(p) = "interrupted" -> << "abandoned", "no" >>
      [] OTHER -> << turn, IF Fate(p) = "failed" THEN "no" ELSE "yes" >>

\* Any exception is recorded as a grader that did not pass; only a grader that
\* could not judge leaves the question open.
Outcome(p) ==
    CASE Fate(p) = "raised"         -> << "error", "no" >>
      [] Fate(p) = "interrupted"    -> << "abandoned", "no" >>
      [] Fate(p) = "infrastructure" -> << "error", "unknown" >>
      [] OTHER                      -> << turn, IF Fate(p) = "passed" THEN "yes" ELSE "no" >>

Record(p) ==
    /\ InLoop(p, "running")
    /\ Ended(p)
    /\ LET end == Finish(Current, Outcome(p)[1], Outcome(p)[2])
       IN  /\ log' = Append(log, end)
           /\ failed' = (failed \/ ~ Clean(end))
           /\ IF end.status = "abandoned" THEN Goto(p, "abandoning") ELSE UNCHANGED phase
    /\ at' = at + 1
    /\ turn' = "none"
    /\ grading' = [grading EXCEPT ![p] = "idle"]
    /\ UNCHANGED << exit, owner, options, accepted, containers >>

Conclude(p) ==
    /\ LoopOver(p, "running")
    /\ Exit(p, IF failed THEN "failed" ELSE "ok")
    /\ UNCHANGED << owner, options, at, turn, failed, log, accepted, graders >>

GradeRun(p) ==
    /\ InLoop(p, "running")
    /\ turn \in {"completed", "exhausted"}
    /\ Grading(p, Current)
    /\ Affordable \/ grading'[p] \in {"running", "passed"}
    /\ accepted' = IF grading'[p] = "passed" THEN accepted \cup {Current} ELSE accepted
    /\ UNCHANGED << phase, exit, owner, options, at, turn, failed, log >>

\* Nothing is cleaned up; a container goes on without anybody waiting for it.
Die(p) ==
    /\ phase[p] \notin {"invoked", "ended"}
    /\ Exit(p, "died")
    /\ grading' = [grading EXCEPT ![p] = "idle"]
    /\ UNCHANGED << owner, options, at, turn, failed, log, accepted, containers >>

Orphaned == LateExit /\ UNCHANGED << phase, exit, owner, options, at, turn, failed, log, accepted >>

Work(p) ==
    \/ Evaluate(p) \/ Plan(p) \/ Prepare(p) \/ FailUnstarted(p) \/ FailImageless(p) \/ GiveUp(p)
    \/ Begin(p) \/ ExecuteLive(p) \/ GradeRun(p) \/ Record(p) \/ Conclude(p)
Day0Next == (\E p \in Procs : Work(p) \/ Die(p)) \/ Orphaned

(* Properties *)

Events ==
    [event : {"run_planned", "run_started"}, run : Runs]
        \cup [event : {"run_finished"}, run : Runs, status : Statuses, grader_passed : {"yes", "no", "unknown"}]

\* One type invariant: every field has the values the code can give it.
Day0TypeOK ==
    /\ GraderTypeOK
    /\ options \in Options
    /\ owner \in Procs \cup {Nobody}
    /\ phase \in [Procs -> {"invoked", "planning", "keyless", "imageless", "running", "abandoning", "ended"}]
    /\ exit \in [Procs -> {"none", "refused", "exists", "died", "ok", "failed"}]
    /\ turn \in {"none", "working", "completed", "exhausted", "raised", "interrupted"}
    /\ at \in 1 .. Len(Planned) + 1
    /\ failed \in BOOLEAN
    /\ accepted \subseteq Runs
    /\ containers \subseteq Procs \X Runs
    /\ log \in Seq(Events)

\* The exit code of a live evaluation tells the log: 0 ("ok") says that every
\* planned run completed and passed its grader, 1 ("failed") that every one has
\* exactly one end.  At no time does a run start after one was abandoned.
EvaluationTold ==
    /\ \A p \in Procs : p = owner /\ ~ options.dry_run =>
          /\ exit[p] = "ok" => \A i \in DOMAIN Planned :
                Planned[i] \in accepted /\ Finish(Planned[i], "completed", "yes") \in Finishes
          /\ exit[p] \in {"ok", "failed"} => /\ Cardinality(Ends) = Len(Planned)
                                             /\ {e.run : e \in Finishes} = ToSet(Planned)
    /\ \A i, j \in DOMAIN log : i < j /\ IsFinish(log[i]) /\ log[i].status = "abandoned" =>
          IsFinish(log[j]) /\ log[j].status = "abandoned"

\* A grading container that nobody waits for any longer belongs to a run whose
\* end is recorded as an error, or to a process that died.
LeakRecorded ==
    \A c \in containers :
        \/ Waited(c) \/ exit[c[1]] = "died" \/ (c[1] = owner /\ turn # "none" /\ c[2] = Current)
        \/ Finish(c[2], "error", "no") \in ToSet(log)
=============================================================================
