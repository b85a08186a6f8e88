----------------------------- MODULE Day3Report -----------------------------
(***************************************************************************)
(* fablized-report beside a running or finished day-0 evaluation: each     *)
(* reporter refuses if either output exists, reads the events and the      *)
(* grades that people wrote about the finished runs, and creates the JSON  *)
(* and the Markdown file exclusively, taking back what it created when     *)
(* that fails.  Reporters given the same output run without a lock.        *)
(*                                                                         *)
(* Digests are what they identify: a session id is the run itself.         *)
(***************************************************************************)
EXTENDS Day0Run

CONSTANTS
    Reporters,    \* invocations of the report command with one output
    GradeFiles,   \* what people may write: a run, the sessions, the defects
    Absent        \* nobody has graded

ASSUME Day3Assumption == Nobody \notin Reporters

VARIABLES
    grades,       \* grades.json
    reporting,    \* where each reporter is
    report,       \* what it has built
    json,         \* the two output files: who made them, of what, and whether whole
    markdown

reportVars == << grades, reporting, report, json, markdown >>
vars == << day0Vars, reportVars >>

MinPairedTasks == 2
NoReport == [samples |-> {}]
NoFile == [by |-> Nobody, whole |-> FALSE, report |-> NoReport]

\* The index rejects a log at the first event out of its place.
EventInPlace(i) ==
    LET run == log[i].run
        Before(kind) == \E k \in 1 .. i - 1 : log[k].event = kind /\ log[k].run = run
    IN  CASE log[i].event = "run_planned" ->
                 ~ \E kind \in {"run_planned", "run_started", "run_finished"} : Before(kind)
          [] log[i].event = "run_started" ->
                 Before("run_planned") /\ ~ Before("run_started") /\ ~ Before("run_finished")
          [] OTHER -> Before("run_started") /\ ~ Before("run_finished")
RunsWith(kind) == {log[i].run : i \in {k \in DOMAIN log : log[k].event = kind}}

\* Mutant of Readable: a run that has not ended yet is overlooked.
ReadableUnfinished ==
    /\ \A i \in DOMAIN log : EventInPlace(i)
    /\ RunsWith("run_planned") = grades.sessions
    /\ \A i \in DOMAIN log : IsFinish(log[i]) => log[i].grader_passed # "unknown"

\* Every planned session started, ended, was graded, and was judged.
Readable ==
    /\ \A i \in DOMAIN log : EventInPlace(i)
    /\ RunsWith("run_finished") = RunsWith("run_planned")
    /\ RunsWith("run_planned") = grades.sessions
    /\ RunsWith("run_started") = RunsWith("run_planned")
    /\ \A i \in DOMAIN log : IsFinish(log[i]) => log[i].grader_passed # "unknown"

\* The grades name the run, the tasks are those of its identity in the order
\* of the manifest, and both models of a crossover were observed.
OfOneRun ==
    /\ grades.of_this_run
    /\ options.arm_design = "crossover"
    /\ {r.task : r \in RunsWith("run_planned")} = Tasks
    /\ {r.model : r \in RunsWith("run_planned")} = Models

\* Mutant of Samples: the verdict of the hidden grader is left out.
SamplesUngraded ==
    {[run |-> e.run, completed |-> e.status = "completed", passed |-> TRUE,
      defect |-> e.run \in grades.defects] : e \in Finishes}

Samples ==
    {[run |-> e.run, completed |-> e.status = "completed", passed |-> e.grader_passed = "yes",
      defect |-> e.run \in grades.defects] : e \in Finishes}

OperationalSuccess(s) == s.completed /\ s.passed
DefectFree(s) == OperationalSuccess(s) /\ ~ s.defect

TasksOf(samples) == {s.run.task : s \in samples}
Find(samples, t, m, a) == {s \in samples : s.run = [task |-> t, model |-> m, arm |-> a]}
ValidCrossover(samples) ==
    LET tasks == TasksOf(samples)
    IN  /\ {s.run.arm : s \in samples} = Arms
        /\ Cardinality(tasks) >= MinPairedTasks
        /\ \A t \in tasks, m \in Models, a \in Arms : Cardinality(Find(samples, t, m, a)) = 1
        /\ Cardinality(samples) = 4 * Cardinality(tasks)

The(samples, t, m, a) == CHOOSE s \in samples : s \in Find(samples, t, m, a)
Cell(samples, m, a) ==
    LET mine == {s \in samples : s.run.model = m /\ s.run.arm = a}
    IN  [runs |-> Cardinality(mine),
         completed |-> Cardinality({s \in mine : s.completed}),
         passed |-> Cardinality({s \in mine : s.passed}),
         defect_free |-> Cardinality({s \in mine : DefectFree(s)})]

\* The difference of a task is 1, 0 or -1; the report divides their sum by the
\* number of tasks and puts an interval around it.
FreeTasks(samples, m, a) == {t \in TasksOf(samples) : DefectFree(The(samples, t, m, a))}
SumOfDifferences(with, without) == Cardinality(with \ without) - Cardinality(without \ with)
PairedEffect(samples, m) ==
    SumOfDifferences(FreeTasks(samples, m, "on"), FreeTasks(samples, m, "off"))
ModelEffect(samples, a) ==
    SumOfDifferences(FreeTasks(samples, "reference", a), FreeTasks(samples, "baseline", a))

\* Mutant of Cascade: an answer that people found wrong is escalated too.
CascadeOracle(samples, a) ==
    LET Base(t) == The(samples, t, "baseline", a)
        Ref(t) == The(samples, t, "reference", a)
    IN  [escalated |-> {t \in TasksOf(samples) : ~ OperationalSuccess(Base(t))},
         defect_free |-> {t \in TasksOf(samples) : DefectFree(Base(t)) \/ DefectFree(Ref(t))}]

\* Baseline first; the reference answers what the baseline failed in public.
Cascade(samples, a) ==
    LET Base(t) == The(samples, t, "baseline", a)
        Ref(t) == The(samples, t, "reference", a)
    IN  [escalated |-> {t \in TasksOf(samples) : ~ OperationalSuccess(Base(t))},
         defect_free |-> {t \in TasksOf(samples) : DefectFree(Base(t))
                                        \/ (~ OperationalSuccess(Base(t)) /\ DefectFree(Ref(t)))}]

Built ==
    [samples |-> Samples,
     cells |-> [c \in Models \X Arms |-> Cell(Samples, c[1], c[2])],
     paired_effects |-> [m \in Models |-> PairedEffect(Samples, m)],
     model_effects |-> [a \in Arms |-> ModelEffect(Samples, a)],
     lazy_cascades |-> [a \in Arms |-> Cascade(Samples, a)]]

Init ==
    /\ Day0Init
    /\ grades = Absent
    /\ reporting = [r \in Reporters |-> "invoked"]
    /\ report = [r \in Reporters |-> NoReport]
    /\ json = NoFile
    /\ markdown = NoFile

Move(r, where) == reporting' = [reporting EXCEPT ![r] = where]

\* People grade once, at any time: a dry run names the sessions beforehand.
WriteGrades ==
    /\ grades = Absent
    /\ grades' \in GradeFiles
    /\ UNCHANGED << reporting, report, json, markdown, day0Vars >>

\* The outputs are looked for before the evidence is read.  One step: evidence
\* that makes a report does not change any more.
Build(r) ==
    /\ reporting[r] = "invoked"
    /\ log # << >> /\ grades # Absent
    /\ \E roles_match \in BOOLEAN :
          IF /\ json = NoFile /\ markdown = NoFile
             /\ Readable /\ OfOneRun /\ roles_match /\ ValidCrossover(Samples)
          THEN Move(r, "built") /\ report' = [report EXCEPT ![r] = Built]
          ELSE Move(r, "gone") /\ UNCHANGED report
    /\ UNCHANGED << grades, json, markdown, day0Vars >>

File(r, whole) == [by |-> r, whole |-> whole, report |-> report[r]]

CreateJson(r) ==
    /\ reporting[r] = "built"
    /\ IF json = NoFile THEN json' = File(r, FALSE) /\ Move(r, "json_created")
                        ELSE Move(r, "gone") /\ UNCHANGED json
    /\ UNCHANGED << grades, report, markdown, day0Vars >>

\* A write that fails takes back the files this reporter created.
WriteJson(r) ==
    /\ reporting[r] = "json_created"
    /\ \/ json' = File(r, TRUE) /\ Move(r, "json_written")
       \/ Move(r, "taking_back") /\ UNCHANGED json
    /\ UNCHANGED << grades, report, markdown, day0Vars >>

\* Mutant of CreateMarkdown: the file is opened for writing, not exclusively.
CreateMarkdownOver(r) ==
    /\ reporting[r] = "json_written"
    /\ markdown' = File(r, FALSE)
    /\ Move(r, "markdown_created")
    /\ UNCHANGED << grades, report, json, day0Vars >>

CreateMarkdown(r) ==
    /\ reporting[r] = "json_written"
    /\ IF markdown = NoFile THEN markdown' = File(r, FALSE) /\ Move(r, "markdown_created")
                            ELSE Move(r, "taking_back") /\ UNCHANGED markdown
    /\ UNCHANGED << grades, report, json, day0Vars >>

WriteMarkdown(r) ==
    /\ reporting[r] = "markdown_created"
    /\ \/ markdown' = File(r, TRUE) /\ Move(r, "published")
       \/ Move(r, "taking_both_back") /\ UNCHANGED markdown
    /\ UNCHANGED << grades, report, json, day0Vars >>

\* Unlinking is by name, the JSON file first.
TakeBack(r) ==
    /\ reporting[r] \in {"taking_back", "taking_both_back"}
    /\ json' = NoFile
    /\ Move(r, IF reporting[r] = "taking_back" THEN "gone" ELSE "taking_markdown_back")
    /\ UNCHANGED << grades, report, markdown, day0Vars >>
TakeMarkdownBack(r) ==
    /\ reporting[r] = "taking_markdown_back"
    /\ markdown' = NoFile
    /\ Move(r, "gone")
    /\ UNCHANGED << grades, report, json, day0Vars >>

KillReporter(r) ==
    /\ reporting[r] \notin {"invoked", "gone", "published"}
    /\ Move(r, "gone")
    /\ UNCHANGED << grades, report, json, markdown, day0Vars >>

Report(r) ==
    \/ Build(r) \/ CreateJson(r) \/ WriteJson(r) \/ CreateMarkdown(r)
    \/ WriteMarkdown(r) \/ TakeBack(r) \/ TakeMarkdownBack(r) \/ KillReporter(r)
Next ==
    \/ Day0Next /\ UNCHANGED reportVars
    \/ WriteGrades
    \/ \E r \in Reporters : Report(r)
Spec == Init /\ [][Next]_vars

(* Properties *)

Reported(r) == report[r] # NoReport

\* A report is built from the whole plan, never from the runs that happen to
\* have ended when it is asked for, or from a design that pairs nothing.
ReportCoversPlan ==
    \A r \in Reporters : Reported(r) =>
        /\ {s.run : s \in report[r].samples} = Runs
        /\ Cardinality(report[r].samples) = Cardinality(Runs)

\* What counts as defect free ended as completed, was accepted by the hidden
\* grader, and was found to be without defect by people.
QualityEarned ==
    \A r \in Reporters : \A s \in report[r].samples : DefectFree(s) =>
        /\ s.run \in accepted \ grades.defects
        /\ Finish(s.run, "completed", "yes") \in ToSet(log)

\* The three views of a report agree: effects are differences of its cells,
\* and the cascade answers a task well exactly if the model whose answer it
\* would deploy, chosen without the grades of people, answered it well.
ViewsAgree ==
    \A r \in Reporters : Reported(r) =>
        LET rep == report[r]
            Free(m, a) == rep.cells[<< m, a >>].defect_free
        IN  /\ \A m \in Models : rep.paired_effects[m] = Free(m, "on") - Free(m, "off")
            /\ \A a \in Arms : rep.model_effects[a] = Free("reference", a) - Free("baseline", a)
            /\ \A a \in Arms, t \in TasksOf(rep.samples) :
                  LET deployed == IF t \in rep.lazy_cascades[a].escalated THEN "reference" ELSE "baseline"
                  IN  t \in rep.lazy_cascades[a].defect_free <=> DefectFree(The(rep.samples, t, deployed, a))

\* Two whole output files are of one report, and what was published stays.
PairWhole ==
    /\ json # NoFile /\ markdown # NoFile /\ json.whole /\ markdown.whole => json.by = markdown.by
    /\ \A r \in Reporters : reporting[r] = "published" => json = File(r, TRUE) /\ markdown = File(r, TRUE)
=============================================================================
