------------------------ MODULE EvaluationProofs ------------------------
(***************************************************************************)
(* What the day-0 evaluation and its report do for every manifest, command *)
(* line, number of invocations and of reporters: the exit code tells the   *)
(* log, a container left behind is on record, a report covers the plan,    *)
(* what it counts as defect free was earned, and its two files are of one  *)
(* reporter.                                                               *)
(***************************************************************************)
EXTENDS Day3Report, FiniteSetTheorems, TLAPS

\* Whoever made the run directory is the only one at work.
AtWork(p) == phase[p] \notin {"invoked", "ended"}
Owned ==
    /\ \A p \in Procs :
          /\ AtWork(p) => p = owner
          /\ phase[p] # "ended" => exit[p] = "none"
          /\ exit[p] \in {"died", "ok", "failed"} => p = owner
          /\ phase[p] = "ended" => exit[p] # "none"
          /\ phase[p] # "running" => grading[p] = "idle"
    /\ owner = Nobody => log = << >> /\ at = 1 /\ turn = "none" /\ ~ failed /\ containers = {}
    /\ owner # Nobody => phase[owner] # "invoked" /\ exit[owner] \in {"none", "died", "ok", "failed"}

\* The grading of the run the loop is at, while its turn has ended.
Graded ==
    \A p \in Procs : phase[p] = "running" =>
        /\ at > Len(Planned) => turn = "none"
        /\ turn \notin {"completed", "exhausted"} => grading[p] = "idle"
        /\ grading[p] = "passed" => Current \in accepted

\* The ends on record, by where the owner is: those of the runs before "at".
Ending == {"keyless", "imageless", "running", "abandoning"}
Told ==
    /\ Cardinality(Ends) = at - 1
    /\ {e.run : e \in Finishes} = {Planned[k] : k \in 1 .. at - 1}
Good(run) == run \in accepted /\ Finish(run, "completed", "yes") \in Finishes
AllGood == \A k \in 1 .. at - 1 : Good(Planned[k])
Recorded ==
    \A p \in Procs : p = owner =>
        /\ phase[p] = "planning" => Ends = {} /\ ~ failed /\ turn = "none"
        /\ phase[p] \in Ending => ~ options.dry_run /\ Told
        /\ phase[p] \in {"keyless", "imageless"} => turn = "none"
        /\ phase[p] = "abandoning" => turn = "none"
        /\ phase[p] = "running" /\ ~ failed => AllGood
        /\ exit[p] \in {"ok", "failed"} /\ ~ options.dry_run => Told /\ at = Len(Planned) + 1
        /\ exit[p] = "ok" /\ ~ options.dry_run => AllGood

\* Once a run was abandoned, only more abandoned runs follow.
Abandoned(e) == IsFinish(e) /\ e.status = "abandoned"
AbandonedLast ==
    /\ \A i, j \in DOMAIN log : i < j /\ Abandoned(log[i]) => Abandoned(log[j])
    /\ \A i \in DOMAIN log : Abandoned(log[i]) =>
          \A p \in Procs : p = owner => phase[p] \in {"abandoning", "ended"}

\* A container is of the owner's present grading, or its leak is on record.
Left ==
    \A c \in containers :
        /\ c[1] = owner
        /\ \/ exit[c[1]] = "died"
           \/ Finish(c[2], "error", "no") \in Finishes
           \/ /\ phase[c[1]] = "running" /\ turn \in {"completed", "exhausted"} /\ c[2] = Current
              /\ grading[c[1]] \in {"running", "timed_out", "cancelled", "raised"}

\* A recorded success was accepted by the grader.
Accepted == \A e \in Finishes : Clean(e) => e.run \in accepted

Day0Inv == Day0TypeOK /\ Owned /\ Graded /\ Recorded /\ AbandonedLast /\ Left /\ Accepted

\* What was reported stands: the log and the grades it is made of only grow.
ReportsStand ==
    /\ DOMAIN report = Reporters /\ DOMAIN reporting = Reporters
    /\ \A r \in Reporters :
          /\ reporting[r] = "invoked" => report[r] = NoReport
          /\ report[r] # NoReport => grades # Absent
          /\ report[r].samples # {} => report[r] # NoReport

Holding == {"json_created", "json_written", "markdown_created", "published", "taking_back", "taking_both_back"}
FilesInv ==
    /\ \A r \in Reporters :
          /\ reporting[r] = "json_created" => json = File(r, FALSE)
          /\ reporting[r] \in {"json_written", "markdown_created", "published", "taking_both_back"} =>
                json = File(r, TRUE)
          /\ reporting[r] = "taking_back" => \E whole \in BOOLEAN : json = File(r, whole)
          /\ reporting[r] \in {"markdown_created", "taking_both_back", "taking_markdown_back"} =>
                markdown = File(r, FALSE)
          /\ reporting[r] = "published" => markdown = File(r, TRUE)
    /\ markdown.whole => \E r \in Reporters : reporting[r] = "published"

LEMMA PlannedRuns ==
    ASSUME options \in Options
    PROVE  Planned \in Seq(Runs)
<1> DEFINE d == options.arm_design
           n == PerTask(d) * Len(TaskOrder)
<1>1. d \in {"crossover", "holdout"} /\ TaskOrder \in Seq(Tasks) /\ Len(TaskOrder) \in Nat
  BY Day0Assumption
<1>2. n \in Nat
  BY <1>1 DEF PerTask
<1>3. Planned = [k \in 1 .. n |-> RunsOf(TaskOrder[((k - 1) \div PerTask(d)) + 1], d)[((k - 1) % PerTask(d)) + 1]]
  BY <1>1 DEF Planned, Plans
<1>4. ASSUME NEW t \in Tasks, NEW j \in 1 .. PerTask(d)
      PROVE  RunsOf(t, d)[j] \in Runs
  <2> DEFINE arms == ArmsOf(t, d)
  <2>1. /\ arms \in Seq(Arms) /\ 2 * Len(arms) = PerTask(d) /\ Len(arms) \in Nat
        /\ DOMAIN arms = 1 .. Len(arms)
    <3> DEFINE Fits(a, size) == a \in Seq(Arms) /\ Len(a) = size /\ DOMAIN a = 1 .. size
    <3>1. /\ Fits(<< "on" >>, 1) /\ Fits(<< "off" >>, 1)
          /\ Fits(<< "on", "off" >>, 2) /\ Fits(<< "off", "on" >>, 2)
      BY DEF Arms
    <3>2. CASE d = "holdout"
      <4>1. arms \in {<< "on" >>, << "off" >>}
        BY <3>2 DEF ArmsOf
      <4>2. PerTask(d) = 2
        BY <3>2 DEF PerTask
      <4>3. Fits(arms, 1)
        <5> HIDE DEF arms, Fits
        <5> QED BY <3>1, <4>1
      <4> HIDE DEF arms
      <4> QED BY <4>2, <4>3
    <3>3. CASE d = "crossover"
      <4>1. arms \in {<< "on", "off" >>, << "off", "on" >>}
        BY <3>3 DEF ArmsOf
      <4>2. PerTask(d) = 4
        BY <3>3 DEF PerTask
      <4>3. Fits(arms, 2)
        <5> HIDE DEF arms, Fits
        <5> QED BY <3>1, <4>1
      <4> HIDE DEF arms
      <4> QED BY <4>2, <4>3
    <3> QED BY <1>1, <3>2, <3>3
  <2>2. ModelsOf(t, d) \in [1 .. 2 -> Models]
    BY DEF ModelsOf, Models
  <2> HIDE DEF arms
  <2>3. RunsOf(t, d) = [k \in 1 .. PerTask(d) |->
            [task |-> t, model |-> ModelsOf(t, d)[((k - 1) % 2) + 1], arm |-> arms[(k + 1) \div 2]]]
    BY <2>1 DEF RunsOf, arms
  <2>4. ((j - 1) % 2) + 1 \in 1 .. 2 /\ (j + 1) \div 2 \in 1 .. Len(arms)
    BY <1>4, <2>1
  <2>5. arms[(j + 1) \div 2] \in Arms
    BY <2>1, <2>4
  <2> QED BY <1>4, <2>2, <2>3, <2>4, <2>5 DEF Runs
<1>5. ASSUME NEW k \in 1 .. n
      PROVE  /\ TaskOrder[((k - 1) \div PerTask(d)) + 1] \in Tasks
             /\ ((k - 1) % PerTask(d)) + 1 \in 1 .. PerTask(d)
  <2>1. ((k - 1) \div PerTask(d)) + 1 \in 1 .. Len(TaskOrder) /\ ((k - 1) % PerTask(d)) + 1 \in 1 .. PerTask(d)
    <3>1. CASE d = "holdout"
      BY <1>1, <3>1 DEF PerTask
    <3>2. CASE d = "crossover"
      BY <1>1, <3>2 DEF PerTask
    <3> QED BY <1>1, <3>1, <3>2
  <2> QED BY <1>1, <2>1
<1> QED BY <1>2, <1>3, <1>4, <1>5

\* An append adds one end, or none.
LEMMA EndsGrow ==
    ASSUME log \in Seq(Events), NEW e \in Events, log' = Append(log, e)
    PROVE  /\ log' \in Seq(Events)
           /\ DOMAIN log' = DOMAIN log \cup {Len(log) + 1} /\ log'[Len(log) + 1] = e
           /\ \A i \in DOMAIN log : log'[i] = log[i]
           /\ IsFinish(e) => /\ Cardinality(Ends') = Cardinality(Ends) + 1
                             /\ Finishes' = Finishes \cup {e}
           /\ ~ IsFinish(e) => Ends' = Ends /\ Finishes' = Finishes
<1>1. /\ log' \in Seq(Events)
      /\ DOMAIN log' = DOMAIN log \cup {Len(log) + 1} /\ log'[Len(log) + 1] = e
      /\ \A i \in DOMAIN log : log'[i] = log[i]
      /\ Len(log) + 1 \notin DOMAIN log
  OBVIOUS
<1>2. IsFiniteSet(Ends) /\ Len(log) + 1 \notin Ends
  <2>1. IsFiniteSet(1 .. Len(log)) /\ Ends \subseteq 1 .. Len(log)
    <3>1. Len(log) \in Int /\ DOMAIN log = 1 .. Len(log)
      OBVIOUS
    <3> QED BY <3>1, FS_Interval DEF Ends
  <2>2. Len(log) + 1 \notin 1 .. Len(log)
    OBVIOUS
  <2> QED BY <2>1, <2>2, FS_Subset
<1>3. CASE IsFinish(e)
  <2>1. Ends' = Ends \cup {Len(log) + 1}
    BY <1>1, <1>3 DEF Ends, IsFinish
  <2>2. Cardinality(Ends') = Cardinality(Ends) + 1
    BY <1>2, <2>1, FS_AddElement
  <2>3. Finishes' = Finishes \cup {e}
    BY <1>1, <2>1 DEF Finishes, Ends
  <2> QED BY <1>1, <1>3, <2>2, <2>3
<1>4. CASE ~ IsFinish(e)
  <2>1. Ends' = Ends
    BY <1>1, <1>4 DEF Ends, IsFinish
  <2>2. Finishes' = Finishes
    BY <1>1, <2>1 DEF Finishes, Ends
  <2> QED BY <1>1, <1>4, <2>1, <2>2
<1> QED BY <1>3, <1>4

\* What a step appends to the log, if anything.
LEMMA RunTyped == Day0TypeOK /\ at <= Len(Planned) => Current \in Runs
<1> SUFFICES ASSUME Day0TypeOK, at <= Len(Planned) PROVE Current \in Runs
  OBVIOUS
<1>1. Planned \in Seq(Runs)
  BY PlannedRuns DEF Day0TypeOK
<1>2. at \in 1 .. Len(Planned)
  BY <1>1 DEF Day0TypeOK
<1> QED BY <1>1, <1>2 DEF Current

LEMMA OutcomeTyped ==
    ASSUME Day0TypeOK, Graded, NEW p \in Procs, phase[p] = "running", Ended(p)
    PROVE  Outcome(p)[1] \in Statuses /\ Outcome(p)[2] \in {"yes", "no", "unknown"}
<1>1. turn \in {"completed", "exhausted", "raised", "interrupted"}
      /\ Fate(p) \in Verdicts \cup {"raised", "interrupted"}
  BY DEF Ended, Fate, Judged, Verdicts
<1>2. Fate(p) \in {"passed", "failed", "infrastructure"} => turn \in {"completed", "exhausted"}
  BY DEF Ended, Fate, Judged, Verdicts, Graded
<1>3. Fate(p) \in {"passed", "failed", "infrastructure", "raised", "interrupted"}
  BY <1>1 DEF Verdicts
<1> QED BY <1>1, <1>2, <1>3 DEF Outcome, Statuses

LEMMA Day0InitType == Init => Day0TypeOK
<1> SUFFICES ASSUME Init PROVE Day0TypeOK
  OBVIOUS
<1>1. Planned \in Seq(Runs)
  BY PlannedRuns DEF Init, Day0Init
<1>2. at \in 1 .. Len(Planned) + 1
  BY <1>1 DEF Init, Day0Init
<1>3. log \in Seq(Events) /\ grading \in [Procs -> Stages]
  BY DEF Init, Day0Init, Stages
<1> QED BY <1>2, <1>3 DEF Init, Day0Init, Day0TypeOK, GraderTypeOK

\* The log after any step: as it was, or with one event more.
LEMMA LogGrows ==
    ASSUME Day0TypeOK, Graded, Day0Next
    PROVE  /\ options' = options /\ Planned' = Planned
           /\ log' = log \/ \E e \in Events : log' = Append(log, e)
<1>1. options' = options
  BY DEF Day0Next, Work, Evaluate, Plan, Prepare, FailUnstarted, FailImageless, GiveUp, Begin, ExecuteLive,
         GradeRun, Record, Conclude, Die, Orphaned, graders
<1>2. ASSUME NEW p \in Procs, Work(p) \/ Die(p)
      PROVE  log' = log \/ \E e \in Events : log' = Append(log, e)
  <2>1. CASE Plan(p) \/ FailUnstarted(p) \/ FailImageless(p) \/ Begin(p)
    <3>1. Current \in Runs
      BY <2>1, RunTyped DEF Plan, FailUnstarted, FailImageless, Begin, InLoop
    <3>2. \A kind \in {"run_planned", "run_started"} : Event(kind, Current) \in Events
      BY <3>1 DEF Event, Events
    <3>3. \A status \in {"error", "abandoned"} : Finish(Current, status, "unknown") \in Events
      BY <3>1 DEF Finish, Events, Statuses
    <3> QED BY <2>1, <3>2, <3>3 DEF Plan, FailUnstarted, FailImageless, Begin
  <2>2. CASE Record(p)
    <3>1. Current \in Runs
      BY <2>2, RunTyped DEF Record, InLoop
    <3>2. Finish(Current, Outcome(p)[1], Outcome(p)[2]) \in Events
      BY <2>2, <3>1, OutcomeTyped DEF Record, InLoop, Finish, Events
    <3> QED BY <2>2, <3>2 DEF Record
  <2>3. CASE \/ Evaluate(p) \/ Prepare(p) \/ GiveUp(p) \/ ExecuteLive(p) \/ GradeRun(p)
             \/ Conclude(p) \/ Die(p)
    BY <2>3 DEF Evaluate, Prepare, GiveUp, ExecuteLive, GradeRun, Conclude, Die
  <2> QED BY <1>2, <2>1, <2>2, <2>3 DEF Work
<1>3. Orphaned => log' = log
  BY DEF Orphaned
<1> QED BY <1>1, <1>2, <1>3 DEF Day0Next, Planned

LEMMA GradingTyped ==
    ASSUME Day0TypeOK, NEW p \in Procs, NEW job \in Runs, Grading(p, job)
    PROVE  grading' \in [Procs -> Stages] /\ containers' \subseteq Procs \X Runs
<1>1. \A code \in GraderCodes : Judgement(code) \in Stages
  BY DEF GraderCodes, Judgement, Stages, Verdicts
<1>2. DockerMissing(p) \/ Launch(p, job) \/ StopsWaiting(p) => grading' \in [Procs -> Stages]
  BY DEF DockerMissing, Launch, StopsWaiting, Day0TypeOK, GraderTypeOK, Stages, Verdicts
<1>3. ForceRemove(p, job) \/ RemoveFails(p, job) => grading' \in [Procs -> Stages]
  BY DEF ForceRemove, RemoveFails, Day0TypeOK, GraderTypeOK, Stages, Verdicts
<1>4. (\E code \in GraderCodes : ContainerExits(p, job, code)) => grading' \in [Procs -> Stages]
  BY <1>1 DEF ContainerExits, Day0TypeOK, GraderTypeOK
<1>5. containers' \subseteq Procs \X Runs
  BY DEF Grading, DockerMissing, Launch, StopsWaiting, ForceRemove, RemoveFails, ContainerExits, Day0TypeOK
<1> QED BY <1>2, <1>3, <1>4, <1>5 DEF Grading

LEMMA Day0StepType == Day0TypeOK /\ Graded /\ Day0Next => Day0TypeOK'
<1> SUFFICES ASSUME Day0TypeOK, Graded, Day0Next PROVE Day0TypeOK'
  OBVIOUS
<1> USE DEF Day0TypeOK
<1>1. options' \in Options /\ Planned' = Planned /\ log' \in Seq(Events)
  BY LogGrows, EndsGrow
<1>2. Len(Planned) \in Nat
  BY PlannedRuns
<1>3. ASSUME NEW p \in Procs, Work(p) \/ Die(p)
      PROVE  /\ owner' \in Procs \cup {Nobody}
             /\ phase' \in [Procs -> {"invoked", "planning", "keyless", "imageless", "running", "abandoning", "ended"}]
             /\ exit' \in [Procs -> {"none", "refused", "exists", "died", "ok", "failed"}]
             /\ turn' \in {"none", "working", "completed", "exhausted", "raised", "interrupted"}
             /\ at' \in 1 .. Len(Planned) + 1
             /\ failed' \in BOOLEAN
             /\ accepted' \subseteq Runs
             /\ grading' \in [Procs -> Stages]
             /\ containers' \subseteq Procs \X Runs
  <2> USE DEF GraderTypeOK, Stages
  <2>1. CASE Evaluate(p)
    BY <1>2, <2>1 DEF Evaluate, Exit, Goto, graders
  <2>2. CASE Plan(p)
    BY <1>2, <2>2 DEF Plan, InLoop, graders
  <2>3. CASE Prepare(p)
    BY <1>2, <2>3 DEF Prepare, Exit, Goto, graders
  <2>4. CASE FailUnstarted(p)
    BY <1>2, <2>4 DEF FailUnstarted, InLoop, graders
  <2>5. CASE FailImageless(p)
    BY <1>2, <2>5 DEF FailImageless, InLoop, graders
  <2>6. CASE GiveUp(p)
    BY <1>2, <2>6 DEF GiveUp, Exit, Goto, graders
  <2>7. CASE Begin(p)
    BY <1>2, <2>7 DEF Begin, graders
  <2>8. CASE ExecuteLive(p)
    BY <1>2, <2>8 DEF ExecuteLive, graders
  <2>9. CASE GradeRun(p)
    <3>1. Current \in Runs
      BY <2>9, RunTyped DEF GradeRun, InLoop
    <3>2. grading' \in [Procs -> Stages] /\ containers' \subseteq Procs \X Runs
      BY <2>9, <3>1, GradingTyped DEF GradeRun
    <3> QED BY <1>2, <2>9, <3>1, <3>2 DEF GradeRun
  <2>10. CASE Record(p)
    BY <1>2, <2>10 DEF Record, InLoop, Goto, Clean
  <2>11. CASE Conclude(p)
    BY <1>2, <2>11 DEF Conclude, Exit, Goto, graders
  <2>12. CASE Die(p)
    BY <1>2, <2>12 DEF Die, Exit, Goto
  <2> QED BY <1>3, <2>1, <2>2, <2>3, <2>4, <2>5, <2>6, <2>7, <2>8, <2>9, <2>10, <2>11, <2>12 DEF Work
<1>4. CASE Orphaned
  BY <1>1, <1>4 DEF Orphaned, LateExit, GraderTypeOK
<1> QED BY <1>1, <1>3, <1>4 DEF Day0Next, GraderTypeOK

LEMMA Day0InitInv == Init => Day0Inv
<1> SUFFICES ASSUME Init PROVE Day0Inv
  OBVIOUS
<1>1. Day0TypeOK
  BY Day0InitType
<1>2. /\ phase = [p \in Procs |-> "invoked"] /\ exit = [p \in Procs |-> "none"]
      /\ grading = [p \in Procs |-> "idle"]
      /\ owner = Nobody /\ Nobody \notin Procs
      /\ at = 1 /\ turn = "none" /\ ~ failed /\ log = << >> /\ containers = {}
  BY Day0Assumption DEF Init, Day0Init
<1>3. Owned /\ Graded
  BY <1>2 DEF Owned, AtWork, Graded
<1>4. Recorded /\ AbandonedLast
  BY <1>2 DEF Recorded, AbandonedLast
<1>5. Left /\ Accepted
  BY <1>2 DEF Left, Accepted, Finishes, Ends
<1> QED BY <1>1, <1>3, <1>4, <1>5 DEF Day0Inv

\* Only the owner appends, grades, and ends well or badly.
LEMMA OwnedStep == Day0Inv /\ Day0Next => Owned'
<1> SUFFICES ASSUME Day0TypeOK, Owned, Graded, Day0Next PROVE Owned'
  BY DEF Day0Inv
<1> USE DEF Day0TypeOK, GraderTypeOK, Owned, AtWork
<1>1. ASSUME NEW p \in Procs, Work(p) \/ Die(p)
      PROVE  Owned'
  <2>1. CASE Evaluate(p)
    BY <2>1, Day0Assumption DEF Evaluate, Exit, Goto, graders
  <2>2. CASE Plan(p)
    BY <2>2, Day0Assumption DEF Plan, InLoop, graders
  <2>3. CASE Prepare(p)
    BY <2>3, Day0Assumption DEF Prepare, LoopOver, Exit, Goto, graders
  <2>4. CASE FailUnstarted(p)
    BY <2>4, Day0Assumption DEF FailUnstarted, InLoop, graders
  <2>5. CASE FailImageless(p)
    BY <2>5, Day0Assumption DEF FailImageless, InLoop, graders
  <2>6. CASE GiveUp(p)
    BY <2>6, Day0Assumption DEF GiveUp, LoopOver, Exit, Goto, graders
  <2>7. CASE Begin(p)
    BY <2>7, Day0Assumption DEF Begin, InLoop, graders
  <2>8. CASE ExecuteLive(p)
    BY <2>8, Day0Assumption DEF ExecuteLive, InLoop, graders
  <2>9. CASE GradeRun(p)
    <3>1. \A q \in Procs : q # p => grading'[q] = grading[q]
      BY <2>9 DEF GradeRun, Grading, DockerMissing, Launch, ContainerExits, StopsWaiting, ForceRemove, RemoveFails
    <3> QED BY <2>9, <3>1, Day0Assumption DEF GradeRun, InLoop
  <2>10. CASE Record(p)
    BY <2>10, Day0Assumption DEF Record, InLoop, Goto
  <2>11. CASE Conclude(p)
    <3>1. turn = "none" /\ grading[p] = "idle"
      <4>1. at > Len(Planned) /\ phase[p] = "running"
        BY <2>11 DEF Conclude, LoopOver
      <4> QED BY <4>1 DEF Graded
    <3> QED BY <2>11, <3>1, Day0Assumption DEF Conclude, LoopOver, Exit, Goto, graders
  <2>12. CASE Die(p)
    BY <2>12, Day0Assumption DEF Die, Exit, Goto
  <2> QED BY <1>1, <2>1, <2>2, <2>3, <2>4, <2>5, <2>6, <2>7, <2>8, <2>9, <2>10, <2>11, <2>12 DEF Work
<1>2. CASE Orphaned
  BY <1>2 DEF Orphaned, LateExit
<1> QED BY <1>1, <1>2 DEF Day0Next

\* A process at work shares its steps with nobody.
LEMMA AtWorkOwns ==
    ASSUME Day0TypeOK, Owned, NEW p \in Procs, AtWork(p)
    PROVE  /\ p = owner
           /\ \A q \in Procs : q # p => ~ AtWork(q)
BY DEF Owned

LEMMA GradedStep == Day0Inv /\ Day0Next => Graded'
<1> SUFFICES ASSUME Day0TypeOK, Owned, Recorded, Graded, Day0Next PROVE Graded'
  BY DEF Day0Inv
<1> USE DEF Day0TypeOK, GraderTypeOK
<1>1. Planned' = Planned /\ Len(Planned) \in Nat
  BY LogGrows, PlannedRuns
<1>2. \A p, q \in Procs : phase[p] = "running" /\ q # p => phase[q] \in {"invoked", "ended"}
  BY AtWorkOwns DEF AtWork
<1>3. ASSUME NEW p \in Procs, Work(p) \/ Die(p)
      PROVE  Graded'
  <2>1. CASE Evaluate(p)
    BY <1>1, <2>1 DEF Evaluate, Exit, Goto, graders, Graded, Current
  <2>2. CASE Plan(p) \/ FailUnstarted(p) \/ FailImageless(p)
    <3>1. \A q \in Procs : phase[q] # "running"
      BY <2>2, AtWorkOwns DEF Plan, FailUnstarted, FailImageless, InLoop, AtWork
    <3> QED BY <2>2, <3>1 DEF Plan, FailUnstarted, FailImageless, Graded
  <2>3. CASE Prepare(p)
    <3>1. turn = "none" /\ grading[p] = "idle" /\ phase[p] = "planning"
      BY <2>3 DEF Prepare, LoopOver, Recorded, Owned, AtWork
    <3>2. \A q \in Procs : q # p => phase'[q] # "running"
      BY <2>3, <3>1, AtWorkOwns DEF Prepare, AtWork, Exit, Goto
    <3> QED BY <1>1, <2>3, <3>1, <3>2 DEF Prepare, graders, Graded
  <2>4. CASE GiveUp(p) \/ Conclude(p)
    BY <1>1, <2>4 DEF GiveUp, Conclude, LoopOver, Exit, Goto, graders, Graded, Current
  <2>5. CASE Begin(p)
    BY <1>1, <1>2, <2>5 DEF Begin, InLoop, graders, Graded, Current
  <2>6. CASE ExecuteLive(p)
    BY <1>1, <1>2, <2>6 DEF ExecuteLive, InLoop, graders, Graded, Current
  <2>7. CASE GradeRun(p)
    <3>1. phase[p] = "running" /\ at <= Len(Planned) /\ turn \in {"completed", "exhausted"}
      BY <2>7 DEF GradeRun, InLoop
    <3>2. grading'[p] = "passed" => Current \in accepted'
      BY <2>7 DEF GradeRun
    <3> QED BY <1>1, <1>2, <2>7, <3>1, <3>2 DEF GradeRun, Graded, Current
  <2>8. CASE Record(p)
    <3>1. phase[p] = "running" /\ turn' = "none" /\ grading'[p] = "idle"
      BY <2>8 DEF Record, InLoop
    <3>2. \A q \in Procs : q # p => phase'[q] # "running"
      BY <1>2, <2>8, <3>1 DEF Record, Goto
    <3> QED BY <3>1, <3>2 DEF Graded
  <2>9. CASE Die(p)
    BY <1>1, <2>9 DEF Die, Exit, Goto, Graded, Current
  <2> QED BY <1>3, <2>1, <2>2, <2>3, <2>4, <2>5, <2>6, <2>7, <2>8, <2>9 DEF Work
<1>4. CASE Orphaned
  BY <1>1, <1>4 DEF Orphaned, LateExit, Graded, Current
<1> QED BY <1>3, <1>4 DEF Day0Next

\* The end of the run the loop is at is the next end told.
LEMMA ToldStep ==
    ASSUME Day0TypeOK, Told, at <= Len(Planned), Planned' = Planned, at' = at + 1,
           NEW e \in Events, IsFinish(e), e.run = Current, log' = Append(log, e)
    PROVE  Told'
<1>1. Cardinality(Ends') = Cardinality(Ends) + 1 /\ Finishes' = Finishes \cup {e}
  BY EndsGrow DEF Day0TypeOK
<1>2. at \in Nat /\ 1 .. at' - 1 = (1 .. at - 1) \cup {at} /\ at' - 1 = at
  BY PlannedRuns DEF Day0TypeOK
<1>3. {Planned[k] : k \in 1 .. at' - 1} = {Planned[k] : k \in 1 .. at - 1} \cup {Current}
  BY <1>2 DEF Current
<1>4. {f.run : f \in Finishes'} = {f.run : f \in Finishes} \cup {Current}
  BY <1>1
<1>5. Cardinality(Ends') = at' - 1
  BY <1>1, <1>2 DEF Told
<1>6. {f.run : f \in Finishes'} = {Planned[k] : k \in 1 .. at' - 1}
  <2>1. {f.run : f \in Finishes} = {Planned[k] : k \in 1 .. at - 1}
    BY DEF Told
  <2> QED BY <1>3, <1>4, <2>1
<1>7. {Planned'[k] : k \in 1 .. at' - 1} = {Planned[k] : k \in 1 .. at' - 1}
  OBVIOUS
<1> QED BY <1>5, <1>6, <1>7 DEF Told

LEMMA NothingForgotten ==
    ASSUME Day0TypeOK, Graded, Day0Next
    PROVE  Finishes \subseteq Finishes' /\ accepted \subseteq accepted'
<1>1. accepted \subseteq accepted'
  BY DEF Day0Next, Work, Evaluate, Plan, Prepare, FailUnstarted, FailImageless, GiveUp, Begin, ExecuteLive,
         GradeRun, Record, Conclude, Die, Orphaned
<1>2. Finishes \subseteq Finishes'
  <2>1. CASE log' = log
    BY <2>1 DEF Finishes, Ends
  <2>2. ASSUME NEW e \in Events, log' = Append(log, e)
        PROVE  Finishes \subseteq Finishes'
    BY <2>2, EndsGrow DEF Day0TypeOK
  <2> QED BY <2>1, <2>2, LogGrows
<1> QED BY <1>1, <1>2

\* A recorded success is that of the run the loop is at, and was accepted.
LEMMA SuccessAccepted ==
    ASSUME Day0TypeOK, Graded, NEW p \in Procs, Record(p),
           Clean(Finish(Current, Outcome(p)[1], Outcome(p)[2]))
    PROVE  /\ Current \in accepted
           /\ Finish(Current, Outcome(p)[1], Outcome(p)[2]) = Finish(Current, "completed", "yes")
<1>1. phase[p] = "running" /\ Ended(p)
  BY DEF Record, InLoop
<1>2. Outcome(p)[1] = "completed" /\ Outcome(p)[2] = "yes"
  BY DEF Clean, Finish
<1>3. Fate(p) \in {"passed", "failed", "infrastructure", "raised", "interrupted"}
  BY <1>1 DEF Fate, Ended, Judged, Verdicts
<1>4. Fate(p) = "passed"
  BY <1>2, <1>3 DEF Outcome
<1>5. grading[p] = "passed"
  BY <1>4 DEF Fate, Day0TypeOK
<1> QED BY <1>1, <1>2, <1>5 DEF Graded

LEMMA RecordedStep == Day0Inv /\ Day0Next => Recorded'
<1> SUFFICES ASSUME Day0TypeOK, Owned, Graded, Recorded, Day0Next PROVE Recorded'
  BY DEF Day0Inv
<1> USE DEF Day0TypeOK, GraderTypeOK, Ending
<1>1. Planned' = Planned /\ Len(Planned) \in Nat /\ options' = options
  BY LogGrows, PlannedRuns
<1>2. /\ log' = log => Ends' = Ends /\ Finishes' = Finishes
      /\ log' = log /\ at' = at => Told' = Told
      /\ log' = log /\ at' = at /\ AllGood => AllGood'
  <2>1. log' = log => Ends' = Ends /\ Finishes' = Finishes
    BY DEF Ends, Finishes
  <2>2. log' = log /\ at' = at => Told' = Told
    BY <1>1, <2>1 DEF Told
  <2>3. log' = log /\ at' = at /\ AllGood => AllGood'
    BY <1>1, <2>1, NothingForgotten DEF AllGood, Good
  <2> QED BY <2>1, <2>2, <2>3
<1>3. \A p, q \in Procs : AtWork(p) /\ q # p => q # owner
  BY AtWorkOwns
<1>4. ASSUME NEW p \in Procs, Work(p) \/ Die(p)
      PROVE  Recorded'
  <2>1. CASE Evaluate(p)
    <3>1. CASE owner' = owner
      <4>1. p # owner
        BY <2>1, Day0Assumption DEF Evaluate, Owned
      <4> QED BY <1>1, <1>2, <2>1, <3>1, <4>1 DEF Evaluate, Exit, Goto, graders, Recorded
    <3>2. CASE owner' # owner
      <4>1. owner = Nobody /\ owner' = p /\ phase' = [phase EXCEPT ![p] = "planning"] /\ exit' = exit
        BY <2>1, <3>2 DEF Evaluate, Exit, Goto
      <4>2. Ends' = {} /\ ~ failed' /\ turn' = "none" /\ exit'[p] = "none"
        BY <2>1, <4>1 DEF Evaluate, Owned, Ends, graders
      <4> QED BY <4>1, <4>2 DEF Recorded
    <3> QED BY <3>1, <3>2
  <2>2. CASE Plan(p)
    <3>1. phase[p] = "planning" /\ exit[p] = "none" /\ owner' = owner /\ p = owner
      BY <2>2 DEF Plan, InLoop, Owned, AtWork
    <3>2. Current \in Runs
      BY <2>2, RunTyped DEF Plan, InLoop
    <3>3. Event("run_planned", Current) \in Events /\ ~ IsFinish(Event("run_planned", Current))
      BY <3>2 DEF Event, Events, IsFinish
    <3>4. Ends' = Ends
      BY <2>2, <3>3, EndsGrow DEF Plan
    <3> QED BY <2>2, <3>1, <3>4 DEF Plan, Recorded
  <2>3. CASE Prepare(p)
    <3>1. phase[p] = "planning" /\ exit[p] = "none" /\ owner' = owner /\ p = owner /\ at' = 1
      BY <2>3 DEF Prepare, LoopOver, Owned, AtWork
    <3>2. Ends' = {} /\ Finishes' = {} /\ ~ failed' /\ turn' = "none"
      BY <1>2, <2>3, <3>1 DEF Prepare, Recorded, Finishes, Ends
    <3>3. Told' /\ AllGood'
      BY <3>1, <3>2, FS_EmptySet DEF Told, AllGood
    <3>4. CASE options.dry_run
      BY <1>1, <2>3, <3>1, <3>2, <3>4 DEF Prepare, Exit, Goto, Recorded
    <3>5. CASE ~ options.dry_run
      <4>1. exit' = exit /\ phase'[p] \in {"keyless", "imageless", "running"}
        BY <2>3, <3>5 DEF Prepare, Goto
      <4> QED BY <1>1, <2>3, <3>1, <3>2, <3>3, <3>5, <4>1 DEF Recorded
    <3> QED BY <3>4, <3>5
  <2>4. CASE FailUnstarted(p) \/ FailImageless(p) \/ Begin(p)
    <3>1. /\ phase[p] \in Ending /\ exit[p] = "none" /\ owner' = owner /\ p = owner /\ at <= Len(Planned)
          /\ phase' = phase /\ exit' = exit /\ failed' = failed
          /\ ~ options.dry_run /\ Told
      BY <2>4 DEF FailUnstarted, FailImageless, Begin, InLoop, Owned, AtWork, Recorded
    <3>2. Current \in Runs
      BY <3>1, RunTyped
    <3>3. CASE FailUnstarted(p) \/ (FailImageless(p) /\ Started(Current))
      <4>1. PICK status \in {"error", "abandoned"} :
              log' = Append(log, Finish(Current, status, "unknown")) /\ at' = at + 1
        BY <3>3 DEF FailUnstarted, FailImageless
      <4>2. /\ Finish(Current, status, "unknown") \in Events
            /\ IsFinish(Finish(Current, status, "unknown"))
            /\ Finish(Current, status, "unknown").run = Current
        BY <3>2 DEF Finish, Events, IsFinish, Statuses
      <4>3. Told'
        BY <1>1, <3>1, <4>1, <4>2, ToldStep
      <4>4. phase[p] # "running" /\ turn' = turn
        BY <3>3 DEF FailUnstarted, FailImageless, InLoop
      <4> QED BY <1>1, <3>1, <4>3, <4>4 DEF Recorded
    <3>4. CASE Begin(p) \/ (FailImageless(p) /\ ~ Started(Current))
      <4>1. log' = Append(log, Event("run_started", Current)) /\ at' = at
        BY <3>4 DEF Begin, FailImageless
      <4>2. Event("run_started", Current) \in Events /\ ~ IsFinish(Event("run_started", Current))
        BY <3>2 DEF Event, Events, IsFinish
      <4>3. Ends' = Ends /\ Finishes' = Finishes
        BY <4>1, <4>2, EndsGrow
      <4>4. Told'
        BY <1>1, <3>1, <4>1, <4>3 DEF Told
      <4>5. AllGood => AllGood'
        BY <1>1, <4>1, <4>3, NothingForgotten DEF AllGood, Good
      <4>6. FailImageless(p) => turn' = turn
        BY DEF FailImageless
      <4>7. Begin(p) => phase[p] = "running"
        BY DEF Begin, InLoop
      <4> QED BY <1>1, <3>1, <3>4, <4>4, <4>5, <4>6, <4>7 DEF Recorded
    <3> QED BY <2>4, <3>3, <3>4
  <2>5. CASE GiveUp(p) \/ Conclude(p)
    <3>1. /\ phase[p] \in Ending /\ at = Len(Planned) + 1 /\ p = owner
          /\ phase' = [phase EXCEPT ![p] = "ended"] /\ owner' = owner /\ at' = at /\ log' = log
      BY <1>1, <2>5 DEF GiveUp, Conclude, LoopOver, Exit, Goto, Owned, AtWork
    <3>2. Told'
      BY <1>2, <3>1 DEF Recorded
    <3>3. CASE GiveUp(p)
      BY <1>1, <3>1, <3>2, <3>3 DEF GiveUp, Exit, Recorded
    <3>4. CASE Conclude(p)
      <4>1. ~ failed => AllGood'
        BY <1>2, <3>1, <3>4 DEF Conclude, LoopOver, Recorded
      <4> QED BY <1>1, <3>1, <3>2, <3>4, <4>1 DEF Conclude, Exit, Recorded
    <3> QED BY <2>5, <3>3, <3>4
  <2>6. CASE ExecuteLive(p) \/ GradeRun(p)
    <3>1. phase[p] = "running" /\ p = owner /\ exit[p] = "none"
      BY <2>6 DEF ExecuteLive, GradeRun, InLoop, Owned, AtWork
    <3> QED BY <1>1, <1>2, <2>6, <3>1 DEF ExecuteLive, GradeRun, Recorded
  <2>7. CASE Record(p)
    <3> DEFINE end == Finish(Current, Outcome(p)[1], Outcome(p)[2])
    <3>1. /\ phase[p] = "running" /\ p = owner /\ exit[p] = "none" /\ exit' = exit /\ owner' = owner
          /\ at <= Len(Planned) /\ at' = at + 1 /\ ~ options.dry_run /\ Told
          /\ log' = Append(log, end) /\ turn' = "none"
          /\ failed' = (failed \/ ~ Clean(end))
          /\ phase'[p] \in {"running", "abandoning"}
      BY <2>7 DEF Record, Goto, InLoop, Owned, AtWork, Recorded
    <3>2. end \in Events /\ IsFinish(end) /\ end.run = Current
      <4>1. Current \in Runs
        BY <3>1, RunTyped
      <4>2. Ended(p)
        BY <2>7 DEF Record
      <4> QED BY <3>1, <4>1, <4>2, OutcomeTyped DEF Finish, Events, IsFinish
    <3>3. Told'
      BY <1>1, <3>1, <3>2, ToldStep
    <3>4. ~ failed' => AllGood'
      <4> SUFFICES ASSUME ~ failed' PROVE AllGood'
        OBVIOUS
      <4>1. AllGood /\ Clean(end)
        BY <3>1 DEF Recorded
      <4>2. Current \in accepted /\ end = Finish(Current, "completed", "yes")
        BY <2>7, <4>1, SuccessAccepted
      <4>3. end \in Finishes'
        BY <3>1, <3>2, EndsGrow
      <4> DEFINE Fine(run) == run \in accepted' /\ Finish(run, "completed", "yes") \in Finishes'
      <4>4. Fine(Current)
        BY <4>2, <4>3, NothingForgotten
      <4>5. \A k \in 1 .. at - 1 : Fine(Planned[k])
        BY <4>1, NothingForgotten DEF AllGood, Good
      <4>6. \A k \in 1 .. at' - 1 : Fine(Planned[k])
        BY <1>1, <3>1, <4>4, <4>5 DEF Current
      <4> QED BY <1>1, <4>6 DEF AllGood, Good
    <3> QED BY <1>1, <3>1, <3>3, <3>4 DEF Recorded
  <2>8. CASE Die(p)
    <3>1. p = owner
      BY <2>8 DEF Die, Owned, AtWork
    <3> QED BY <1>1, <1>2, <2>8, <3>1 DEF Die, Exit, Goto, Recorded
  <2> QED BY <1>4, <2>1, <2>2, <2>3, <2>4, <2>5, <2>6, <2>7, <2>8 DEF Work
<1>5. CASE Orphaned
  BY <1>1, <1>2, <1>5 DEF Orphaned, Recorded
<1> QED BY <1>4, <1>5 DEF Day0Next

LEMMA AbandonedStep == Day0Inv /\ Day0Next => AbandonedLast'
<1> SUFFICES ASSUME Day0TypeOK, Owned, Graded, AbandonedLast, Day0Next PROVE AbandonedLast'
  BY DEF Day0Inv
<1> USE DEF Day0TypeOK, GraderTypeOK
<1>1. log' = log \/ \E e \in Events : log' = Append(log, e)
  BY LogGrows
<1> DEFINE Over == \A p \in Procs : p = owner => phase[p] \in {"abandoning", "ended"}
\* An event may follow an abandoned run only where an abandoned run follows.
<1>2. ASSUME NEW e \in Events, log' = Append(log, e), Over' \/ ~ Abandoned(e), Abandoned(e) \/ ~ Over, Over => Over'
      PROVE  AbandonedLast'
  <2>1. /\ DOMAIN log' = DOMAIN log \cup {Len(log) + 1} /\ log'[Len(log) + 1] = e
        /\ \A i \in DOMAIN log : log'[i] = log[i] /\ i < Len(log) + 1
    BY <1>2, EndsGrow
  <2>2. \A i \in DOMAIN log : Abandoned(log[i]) => Over /\ Abandoned(e)
    BY <1>2 DEF AbandonedLast
  <2>3. \A i, j \in DOMAIN log' : i < j /\ Abandoned(log'[i]) => Abandoned(log'[j])
    <3> SUFFICES ASSUME NEW i \in DOMAIN log', NEW j \in DOMAIN log', i < j, Abandoned(log'[i])
                 PROVE  Abandoned(log'[j])
      OBVIOUS
    <3>1. i \in DOMAIN log
      BY <2>1
    <3>2. CASE j = Len(log) + 1
      BY <2>1, <2>2, <3>1, <3>2
    <3>3. CASE j \in DOMAIN log
      BY <2>1, <3>1, <3>3 DEF AbandonedLast
    <3> QED BY <2>1, <3>2, <3>3
  <2>4. \A i \in DOMAIN log' : Abandoned(log'[i]) => Over'
    BY <1>2, <2>1, <2>2
  <2> QED BY <2>3, <2>4 DEF AbandonedLast, Abandoned, IsFinish
<1>3. ASSUME log' = log, Over => Over'
      PROVE  AbandonedLast'
  BY <1>3 DEF AbandonedLast, Abandoned, IsFinish
<1>4. ASSUME NEW p \in Procs, Work(p) \/ Die(p)
      PROVE  AbandonedLast'
  <2>1. CASE Evaluate(p)
    <3>1. CASE owner = Nobody
      BY <2>1, <3>1 DEF Evaluate, Owned, AbandonedLast, graders
    <3>2. CASE owner # Nobody
      BY <1>3, <2>1, <3>2 DEF Evaluate, Owned, Exit, Goto
    <3> QED BY <3>1, <3>2
  <2>2. CASE Plan(p) \/ FailUnstarted(p) \/ FailImageless(p) \/ Begin(p)
    <3>1. p = owner /\ owner' = owner /\ phase' = phase /\ p \in Procs /\ phase[p] # "ended"
      BY <2>2 DEF Plan, FailUnstarted, FailImageless, Begin, InLoop, Owned, AtWork
    <3>2. Current \in Runs
      BY <2>2, RunTyped DEF Plan, FailUnstarted, FailImageless, Begin, InLoop
    <3>3. Over <=> phase[p] = "abandoning"
      BY <3>1
    <3>4. Over' <=> phase[p] = "abandoning"
      BY <3>1
    <3>5. CASE Plan(p) \/ Begin(p) \/ (FailImageless(p) /\ ~ Started(Current))
      <4>1. PICK kind \in {"run_planned", "run_started"} : log' = Append(log, Event(kind, Current))
        BY <3>5 DEF Plan, Begin, FailImageless
      <4>2. Event(kind, Current) \in Events /\ ~ Abandoned(Event(kind, Current))
        BY <3>2 DEF Event, Events, Abandoned, IsFinish
      <4>3. phase[p] # "abandoning"
        BY <3>5 DEF Plan, Begin, FailImageless, InLoop
      <4> HIDE DEF Over
      <4> QED BY <1>2, <3>3, <4>1, <4>2, <4>3
    <3>6. CASE FailUnstarted(p) \/ (FailImageless(p) /\ Started(Current))
      <4>1. PICK status \in {"error", "abandoned"} :
              /\ log' = Append(log, Finish(Current, status, "unknown"))
              /\ status = "abandoned" <=> phase[p] = "abandoning"
        BY <3>6 DEF FailUnstarted, FailImageless, InLoop
      <4>2. /\ Finish(Current, status, "unknown") \in Events
            /\ Abandoned(Finish(Current, status, "unknown")) <=> status = "abandoned"
        BY <3>2 DEF Finish, Events, Abandoned, IsFinish, Statuses
      <4> HIDE DEF Over
      <4> QED BY <1>2, <3>3, <3>4, <4>1, <4>2
    <3> QED BY <2>2, <3>5, <3>6
  <2>3. CASE Record(p)
    <3> DEFINE end == Finish(Current, Outcome(p)[1], Outcome(p)[2])
    <3>1. /\ phase[p] = "running" /\ p = owner /\ owner' = owner /\ Ended(p) /\ at <= Len(Planned)
          /\ log' = Append(log, end)
          /\ end.status = "abandoned" => phase'[p] = "abandoning"
      BY <2>3 DEF Record, Goto, InLoop, Owned, AtWork
    <3>2. end \in Events
      BY <3>1, RunTyped, OutcomeTyped DEF Finish, Events
    <3>3. ~ Over
      BY <3>1
    <3>4. Abandoned(end) => Over'
      BY <3>1 DEF Abandoned
    <3> HIDE DEF Over, end
    <3> QED BY <1>2, <3>1, <3>2, <3>3, <3>4
  <2>4. CASE Prepare(p) \/ GiveUp(p) \/ Conclude(p)
    <3>1. log' = log /\ p = owner /\ owner' = owner /\ (phase[p] = "abandoning" => phase'[p] = "ended")
          /\ phase[p] # "ended"
      BY <2>4 DEF Prepare, GiveUp, Conclude, LoopOver, Exit, Goto, Owned, AtWork
    <3> QED BY <1>3, <3>1
  <2>5. CASE ExecuteLive(p) \/ GradeRun(p)
    BY <1>3, <2>5 DEF ExecuteLive, GradeRun
  <2>6. CASE Die(p)
    BY <1>3, <2>6 DEF Die, Exit, Goto
  <2> QED BY <1>4, <2>1, <2>2, <2>3, <2>4, <2>5, <2>6 DEF Work
<1>5. CASE Orphaned
  BY <1>3, <1>5 DEF Orphaned
<1> QED BY <1>4, <1>5 DEF Day0Next

LEMMA AcceptedStep == Day0Inv /\ Day0Next => Accepted'
<1> SUFFICES ASSUME Day0TypeOK, Graded, Accepted, Day0Next PROVE Accepted'
  BY DEF Day0Inv
<1>1. ASSUME log' = log
      PROVE  Accepted'
  BY <1>1, NothingForgotten DEF Accepted, Finishes, Ends, Clean
<1>2. ASSUME NEW e \in Events, log' = Append(log, e), Clean(e) => e.run \in accepted
      PROVE  Accepted'
  <2>1. Finishes' \subseteq Finishes \cup {e}
    BY <1>2, EndsGrow DEF Day0TypeOK
  <2> QED BY <1>2, <2>1, NothingForgotten DEF Accepted, Clean
<1>3. ASSUME NEW e \in Events, log' = Append(log, e), ~ IsFinish(e)
      PROVE  Accepted'
  BY <1>3, EndsGrow, NothingForgotten DEF Accepted, Day0TypeOK
<1>4. ASSUME NEW p \in Procs, Work(p) \/ Die(p)
      PROVE  Accepted'
  <2>1. CASE Plan(p) \/ FailUnstarted(p) \/ FailImageless(p) \/ Begin(p)
    <3>1. Current \in Runs
      BY <2>1, RunTyped DEF Plan, FailUnstarted, FailImageless, Begin, InLoop
    <3>2. \A kind \in {"run_planned", "run_started"} :
            Event(kind, Current) \in Events /\ ~ IsFinish(Event(kind, Current))
      BY <3>1 DEF Event, Events, IsFinish
    <3>3. \A status \in {"error", "abandoned"} :
            Finish(Current, status, "unknown") \in Events /\ ~ Clean(Finish(Current, status, "unknown"))
      BY <3>1 DEF Finish, Events, Statuses, Clean
    <3> QED BY <1>2, <1>3, <2>1, <3>2, <3>3 DEF Plan, FailUnstarted, FailImageless, Begin
  <2>2. CASE Record(p)
    <3> DEFINE end == Finish(Current, Outcome(p)[1], Outcome(p)[2])
    <3>1. phase[p] = "running" /\ Ended(p) /\ at <= Len(Planned) /\ log' = Append(log, end)
      BY <2>2 DEF Record, InLoop
    <3>2. end \in Events /\ end.run = Current
      BY <3>1, RunTyped, OutcomeTyped DEF Finish, Events
    <3>3. Clean(end) => end.run \in accepted
      BY <2>2, <3>2, SuccessAccepted
    <3> HIDE DEF end
    <3> QED BY <1>2, <3>1, <3>2, <3>3
  <2>3. CASE \/ Evaluate(p) \/ Prepare(p) \/ GiveUp(p) \/ ExecuteLive(p) \/ GradeRun(p)
             \/ Conclude(p) \/ Die(p)
    BY <1>1, <2>3 DEF Evaluate, Prepare, GiveUp, ExecuteLive, GradeRun, Conclude, Die
  <2> QED BY <1>4, <2>1, <2>2, <2>3 DEF Work
<1>5. CASE Orphaned
  BY <1>1, <1>5 DEF Orphaned
<1> QED BY <1>4, <1>5 DEF Day0Next

LEMMA LeftStep == Day0Inv /\ Day0Next => Left'
<1> SUFFICES ASSUME Day0TypeOK, Owned, Graded, Recorded, Left, Day0Next PROVE Left'
  BY DEF Day0Inv
<1> USE DEF Day0TypeOK, GraderTypeOK
<1>1. Planned' = Planned /\ Len(Planned) \in Nat /\ Finishes \subseteq Finishes'
  BY LogGrows, PlannedRuns, NothingForgotten
<1> DEFINE Kept(c) == c[1] = owner /\ (exit[c[1]] = "died" \/ Finish(c[2], "error", "no") \in Finishes)
           InGrading(c) == /\ phase[c[1]] = "running" /\ turn \in {"completed", "exhausted"} /\ c[2] = Current
                           /\ grading[c[1]] \in {"running", "timed_out", "cancelled", "raised"}
<1>2. \A c \in containers : Kept(c) \/ (c[1] = owner /\ InGrading(c))
  BY DEF Left
<1>3. ASSUME NEW p \in Procs, Work(p) \/ Die(p)
      PROVE  Left'
  <2>1. CASE Evaluate(p)
    <3>1. owner = Nobody => containers' = {}
      BY <2>1 DEF Evaluate, Owned, graders
    <3>2. owner # Nobody => p # owner /\ owner' = owner
      BY <2>1 DEF Evaluate, Owned, Exit, Goto
    <3>3. \A q \in Procs : q # p => exit'[q] = exit[q] /\ phase'[q] = phase[q]
      BY <2>1 DEF Evaluate, Exit, Goto
    <3> QED BY <1>1, <1>2, <2>1, <3>1, <3>2, <3>3 DEF Evaluate, Left, graders, Current
  <2>2. CASE \/ Plan(p) \/ FailUnstarted(p) \/ FailImageless(p) \/ Begin(p) \/ ExecuteLive(p) \/ Prepare(p)
             \/ GiveUp(p) \/ Conclude(p)
    <3>1. containers' = containers /\ owner' = owner /\ \A q \in Procs : exit[q] = "died" => exit'[q] = "died"
      BY <2>2 DEF Plan, FailUnstarted, FailImageless, Begin, ExecuteLive, Prepare, GiveUp, Conclude, InLoop,
                  LoopOver, Exit, Goto, graders, Owned
    <3>2. \A c \in containers : ~ InGrading(c) \/ c[1] # owner
      BY <2>2, AtWorkOwns DEF Plan, FailUnstarted, FailImageless, Begin, ExecuteLive, Prepare, GiveUp, Conclude,
                  InLoop, LoopOver, AtWork, Graded
    <3> QED BY <1>1, <1>2, <3>1, <3>2 DEF Left
  <2>3. CASE GradeRun(p)
    <3>1. /\ phase[p] = "running" /\ p = owner /\ turn \in {"completed", "exhausted"} /\ Grading(p, Current)
          /\ phase' = phase /\ exit' = exit /\ owner' = owner /\ turn' = turn /\ at' = at
      BY <2>3 DEF GradeRun, InLoop, Owned, AtWork
    <3>2. \A c \in containers' : Kept(c) \/ (c[1] = owner /\ c[2] = Current)
      BY <1>2, <3>1 DEF Grading, DockerMissing, Launch, ContainerExits, StopsWaiting, ForceRemove, RemoveFails
    <3>3. ASSUME NEW c \in containers', ~ Kept(c)
          PROVE  grading'[p] \in {"running", "timed_out", "cancelled", "raised"}
      <4>1. c[1] = p /\ c[2] = Current /\ c = << p, Current >>
        <5>1. containers' \subseteq Procs \X Runs
          BY <2>3, <3>1, RunTyped, GradingTyped DEF GradeRun, InLoop
        <5> QED BY <3>1, <3>2, <3>3, <5>1
      <4>2. CASE Launch(p, Current)
        BY <4>2 DEF Launch
      <4>3. CASE StopsWaiting(p) \/ RemoveFails(p, Current) \/ DockerMissing(p)
        BY <4>3 DEF StopsWaiting, RemoveFails, DockerMissing
      <4>4. CASE ForceRemove(p, Current) \/ \E code \in GraderCodes : ContainerExits(p, Current, code)
        BY <3>3, <4>1, <4>4 DEF ForceRemove, ContainerExits
      <4> QED BY <3>1, <4>2, <4>3, <4>4 DEF Grading
    <3> QED BY <1>1, <3>1, <3>2, <3>3 DEF Left, Current
  <2>4. CASE Record(p)
    <3> DEFINE end == Finish(Current, Outcome(p)[1], Outcome(p)[2])
    <3>1. /\ phase[p] = "running" /\ p = owner /\ owner' = owner /\ Ended(p) /\ at <= Len(Planned)
          /\ log' = Append(log, end) /\ containers' = containers /\ exit' = exit
      BY <2>4 DEF Record, Goto, InLoop, Owned, AtWork
    <3>2. end \in Events /\ IsFinish(end)
      BY <3>1, RunTyped, OutcomeTyped DEF Finish, Events, IsFinish
    <3>3. ASSUME NEW c \in containers, ~ Kept(c)
          PROVE  Finish(c[2], "error", "no") \in Finishes'
      <4>1. c[1] = p /\ c[2] = Current /\ grading[p] = "raised"
        BY <1>2, <3>1, <3>3 DEF Ended, Judged, Verdicts
      <4>2. Outcome(p) = << "error", "no" >>
        BY <4>1 DEF Outcome, Fate, Judged, Verdicts
      <4>3. end = Finish(c[2], "error", "no")
        BY <4>1, <4>2
      <4> HIDE DEF end
      <4> QED BY <3>1, <3>2, <4>3, EndsGrow
    <3> QED BY <1>1, <1>2, <3>1, <3>3 DEF Left
  <2>5. CASE Die(p)
    <3>1. p = owner
      BY <2>5 DEF Die, Owned, AtWork
    <3> QED BY <1>2, <2>5, <3>1 DEF Die, Exit, Goto, Left
  <2> QED BY <1>3, <2>1, <2>2, <2>3, <2>4, <2>5 DEF Work
<1>4. CASE Orphaned
  BY <1>1, <1>4 DEF Orphaned, LateExit, Left, Current
<1> QED BY <1>3, <1>4 DEF Day0Next

LEMMA Day0StepInv == Day0Inv /\ [Next]_vars => Day0Inv'
<1>1. Day0Inv /\ Day0Next => Day0Inv'
  BY Day0StepType, OwnedStep, GradedStep, RecordedStep, AbandonedStep, LeftStep, AcceptedStep DEF Day0Inv
<1>2. Day0Inv /\ UNCHANGED day0Vars => Day0Inv'
  <2> SUFFICES ASSUME Day0Inv, UNCHANGED day0Vars PROVE Day0Inv'
    OBVIOUS
  <2> USE DEF day0Vars
  <2>1. Day0TypeOK' /\ Owned'
    BY DEF Day0Inv, Day0TypeOK, GraderTypeOK, Owned, AtWork, Planned
  <2>2. Graded' /\ AbandonedLast'
    BY DEF Day0Inv, Graded, Current, Planned, AbandonedLast, Abandoned, IsFinish
  <2>3. Left' /\ Accepted'
    BY DEF Day0Inv, Left, Accepted, Current, Planned, Finishes, Ends
  <2>4. Told' = Told /\ AllGood' = AllGood /\ Ends' = Ends
    BY DEF Told, AllGood, Good, Finishes, Ends, Planned
  <2>5. Recorded'
    BY <2>4 DEF Day0Inv, Recorded, Planned
  <2> QED BY <2>1, <2>2, <2>3, <2>5 DEF Day0Inv
<1>3. [Next]_vars => Day0Next \/ UNCHANGED day0Vars
  BY DEF Next, vars, WriteGrades, Report, Build, CreateJson, WriteJson, CreateMarkdown, WriteMarkdown,
         TakeBack, TakeMarkdownBack, KillReporter
<1> QED BY <1>1, <1>2, <1>3

\* Every field of the evaluation keeps to the values the code can give it.
THEOREM Day0TypeCorrect == Spec => []Day0TypeOK
<1>1. Day0Inv => Day0TypeOK
  BY DEF Day0Inv
<1> QED BY <1>1, Day0InitInv, Day0StepInv, PTL DEF Spec

\* The exit code of a live evaluation tells the log, whatever the manifest,
\* the command line and the number of invocations.
THEOREM EvaluationTells == Spec => []EvaluationTold
<1>1. Day0Inv => EvaluationTold
  <2> SUFFICES ASSUME Day0Inv PROVE EvaluationTold
    OBVIOUS
  <2>1. Planned \in Seq(Runs) /\ DOMAIN Planned = 1 .. Len(Planned) /\ Len(Planned) \in Nat
    BY PlannedRuns DEF Day0Inv, Day0TypeOK
  <2>2. ASSUME NEW p \in Procs, p = owner, ~ options.dry_run, exit[p] \in {"ok", "failed"}
        PROVE  /\ exit[p] = "ok" => \A i \in DOMAIN Planned : Good(Planned[i])
               /\ Cardinality(Ends) = Len(Planned) /\ {e.run : e \in Finishes} = ToSet(Planned)
    <3>1. Told /\ at = Len(Planned) + 1 /\ (exit[p] = "ok" => AllGood)
      BY <2>2 DEF Day0Inv, Recorded
    <3>2. at - 1 = Len(Planned)
      BY <2>1, <3>1
    <3>3. {Planned[k] : k \in 1 .. at - 1} = ToSet(Planned)
      BY <2>1, <3>2 DEF ToSet
    <3> QED BY <2>1, <3>1, <3>2, <3>3 DEF Told, AllGood
  <2>3. \A i, j \in DOMAIN log : i < j /\ IsFinish(log[i]) /\ log[i].status = "abandoned" =>
            IsFinish(log[j]) /\ log[j].status = "abandoned"
    BY DEF Day0Inv, AbandonedLast, Abandoned
  <2> QED BY <2>2, <2>3 DEF EvaluationTold, Good
<1> QED BY <1>1, Day0InitInv, Day0StepInv, PTL DEF Spec

\* A container left behind is on record as the error of its run, or its
\* process died.
THEOREM LeaksAreRecorded == Spec => []LeakRecorded
<1>1. Day0Inv => LeakRecorded
  <2> SUFFICES ASSUME Day0Inv, NEW c \in containers
               PROVE  \/ Waited(c) \/ exit[c[1]] = "died" \/ (c[1] = owner /\ turn # "none" /\ c[2] = Current)
                      \/ Finish(c[2], "error", "no") \in ToSet(log)
    BY DEF LeakRecorded
  <2>1. Finishes \subseteq ToSet(log)
    BY DEF Finishes, Ends, ToSet
  <2> QED BY <2>1 DEF Day0Inv, Left
<1> QED BY <1>1, Day0InitInv, Day0StepInv, PTL DEF Spec

LEMMA ReportsInit == Init => ReportsStand /\ FilesInv
<1> SUFFICES ASSUME Init PROVE ReportsStand /\ FilesInv
  OBVIOUS
<1>1. reporting = [r \in Reporters |-> "invoked"] /\ report = [r \in Reporters |-> NoReport]
      /\ json = NoFile /\ markdown = NoFile
  BY DEF Init
<1> QED BY <1>1 DEF ReportsStand, FilesInv, NoReport, NoFile

ReportActions(r) ==
    \/ CreateJson(r) \/ WriteJson(r) \/ CreateMarkdown(r) \/ WriteMarkdown(r)
    \/ TakeBack(r) \/ TakeMarkdownBack(r) \/ KillReporter(r)

\* A report is built once, from grades that stay; then only files change.
LEMMA ReportSteps ==
    ASSUME ReportsStand, [Next]_vars
    PROVE  \/ report' = report /\ reporting' = reporting /\ grades' = grades
              /\ json' = json /\ markdown' = markdown
           \/ report' = report /\ reporting' = reporting /\ grades = Absent /\ UNCHANGED << json, markdown, day0Vars >>
           \/ \E r \in Reporters :
                 /\ Build(r) \/ ReportActions(r)
                 /\ UNCHANGED << grades, day0Vars >>
                 /\ reporting[r] = "invoked" \/ report' = report
BY DEF Next, vars, reportVars, WriteGrades, Report, ReportActions, Build, CreateJson, WriteJson, CreateMarkdown,
       WriteMarkdown, TakeBack, TakeMarkdownBack, KillReporter

LEMMA ReportsStandStep == ReportsStand /\ [Next]_vars => ReportsStand'
<1> SUFFICES ASSUME ReportsStand, [Next]_vars PROVE ReportsStand'
  OBVIOUS
<1>1. ASSUME NEW r \in Reporters, Build(r), UNCHANGED << grades, day0Vars >>
      PROVE  ReportsStand'
  <2>1. CASE report' = report
    BY <1>1, <2>1 DEF Build, Move, ReportsStand
  <2>2. CASE report' = [report EXCEPT ![r] = Built]
    BY <1>1, <2>2 DEF Build, Move, ReportsStand, NoReport
  <2> QED BY <1>1, <2>1, <2>2 DEF Build
<1>2. ASSUME NEW r \in Reporters, ReportActions(r), UNCHANGED << grades, day0Vars >>
      PROVE  ReportsStand'
  <2>1. report' = report /\ \E where : reporting' = [reporting EXCEPT ![r] = where] /\ where # "invoked"
    BY <1>2 DEF ReportActions, CreateJson, WriteJson, CreateMarkdown, WriteMarkdown, TakeBack, TakeMarkdownBack,
                KillReporter, Move
  <2> QED BY <1>2, <2>1 DEF ReportsStand
<1>3. CASE report' = report /\ reporting' = reporting /\ (grades' = grades \/ grades = Absent)
  BY <1>3 DEF ReportsStand
<1> QED BY <1>1, <1>2, <1>3, ReportSteps

LEMMA FilesStep == ReportsStand /\ FilesInv /\ [Next]_vars => FilesInv'
<1> SUFFICES ASSUME ReportsStand, FilesInv, [Next]_vars PROVE FilesInv'
  OBVIOUS
<1> USE DEF ReportsStand
<1>1. \A r, s \in Reporters, whole, whole2 \in BOOLEAN :
        /\ File(r, whole) # NoFile
        /\ File(r, whole) = File(s, whole2) => r = s /\ whole = whole2
        /\ File(r, whole).whole = whole
  BY Day3Assumption DEF File, NoFile
<1>2. ASSUME NEW r \in Reporters, Build(r)
      PROVE  FilesInv'
  <2>1. /\ reporting[r] = "invoked" /\ json' = json /\ markdown' = markdown
        /\ \A s \in Reporters : s # r => report'[s] = report[s] /\ reporting'[s] = reporting[s]
        /\ reporting'[r] \in {"built", "gone"}
    BY <1>2 DEF Build, Move
  <2>2. \A s \in Reporters, whole \in BOOLEAN : s # r => File(s, whole)' = File(s, whole)
    BY <2>1 DEF File
  <2> QED BY <2>1, <2>2 DEF FilesInv
<1>3. ASSUME NEW r \in Reporters, ReportActions(r)
      PROVE  FilesInv'
  <2>1. report' = report
    BY <1>3 DEF ReportActions, CreateJson, WriteJson, CreateMarkdown, WriteMarkdown, TakeBack, TakeMarkdownBack,
                KillReporter
  <2>2. \A s \in Reporters, whole \in BOOLEAN : File(s, whole)' = File(s, whole)
    BY <2>1 DEF File
  <2>3. CASE CreateJson(r)
    BY <2>1, <2>3, Day3Assumption DEF CreateJson, Move, FilesInv, File, NoFile
  <2>4. CASE WriteJson(r)
    <3>1. \A s \in Reporters : s # r =>
            reporting[s] \notin {"json_created", "json_written", "markdown_created", "published", "taking_back",
                                "taking_both_back"}
      BY <2>4 DEF WriteJson, FilesInv, File
    <3>2. CASE json' = File(r, TRUE) /\ Move(r, "json_written")
      BY <2>1, <2>4, <3>1, <3>2 DEF WriteJson, Move, FilesInv, File
    <3>3. CASE json' = json /\ Move(r, "taking_back")
      <4>1. json = File(r, FALSE)
        BY <2>4 DEF WriteJson, FilesInv
      <4>2. \E whole \in BOOLEAN : json' = File(r, whole)'
        BY <2>1, <3>3, <4>1 DEF File
      <4> QED BY <2>1, <2>4, <3>1, <3>3, <4>2 DEF WriteJson, Move, FilesInv, File
    <3> QED BY <2>4, <3>2, <3>3 DEF WriteJson
  <2>5. CASE CreateMarkdown(r)
    <3>1. \A s \in Reporters : s # r =>
            reporting[s] \notin {"json_created", "json_written", "markdown_created", "published", "taking_back",
                                "taking_both_back"}
      BY <2>5 DEF CreateMarkdown, FilesInv, File
    <3>2. json = File(r, TRUE) /\ json' = json
      BY <2>5 DEF CreateMarkdown, FilesInv
    <3>3. CASE markdown = NoFile
      <4>1. \A s \in Reporters : reporting[s] # "taking_markdown_back"
        BY <3>3, Day3Assumption DEF FilesInv, File, NoFile
      <4> QED BY <2>1, <2>5, <3>1, <3>2, <3>3, <4>1 DEF CreateMarkdown, Move, FilesInv, File
    <3>4. CASE markdown # NoFile
      <4>1. \E whole \in BOOLEAN : json' = File(r, whole)'
        BY <2>1, <3>2 DEF File
      <4> QED BY <2>1, <2>5, <3>1, <3>2, <3>4, <4>1 DEF CreateMarkdown, Move, FilesInv, File
    <3> QED BY <3>3, <3>4
  <2>6. CASE WriteMarkdown(r)
    BY <2>1, <2>6, Day3Assumption DEF WriteMarkdown, Move, FilesInv, File, NoFile
  <2>7. CASE TakeBack(r)
    BY <2>1, <2>7, Day3Assumption DEF TakeBack, Move, FilesInv, File, NoFile
  <2>8. CASE TakeMarkdownBack(r)
    BY <2>1, <2>8, Day3Assumption DEF TakeMarkdownBack, Move, FilesInv, File, NoFile
  <2>9. CASE KillReporter(r)
    BY <2>1, <2>9, Day3Assumption DEF KillReporter, Move, FilesInv, File, NoFile
  <2> QED BY <1>3, <2>3, <2>4, <2>5, <2>6, <2>7, <2>8, <2>9 DEF ReportActions
<1>4. CASE report' = report /\ reporting' = reporting /\ json' = json /\ markdown' = markdown
  BY <1>4 DEF FilesInv, File
<1> QED BY <1>2, <1>3, <1>4, ReportSteps

\* Two whole files are of one reporter, and nobody takes them back.
THEOREM FilesOfOneReporter == Spec => []PairWhole
<1>1. ReportsStand /\ FilesInv => PairWhole
  BY DEF FilesInv, PairWhole, File
<1> QED BY <1>1, ReportsInit, ReportsStandStep, FilesStep, PTL DEF Spec

\* The report of a step is the one before it, or built from the log as it is.
LEMMA ReportOrigin ==
    ASSUME ReportsStand, [Next]_vars, NEW r \in Reporters
    PROVE  \/ report'[r] = report[r]
           \/ /\ report'[r] = Built /\ report[r] = NoReport /\ UNCHANGED << grades, day0Vars >>
              /\ Readable /\ OfOneRun /\ ValidCrossover(Samples)
<1>1. ASSUME NEW s \in Reporters, Build(s)
      PROVE  \/ report'[r] = report[r]
             \/ /\ report'[r] = Built /\ report[r] = NoReport /\ UNCHANGED << grades, day0Vars >>
                /\ Readable /\ OfOneRun /\ ValidCrossover(Samples)
  BY <1>1 DEF Build, ReportsStand
<1>2. ASSUME NEW s \in Reporters, ReportActions(s)
      PROVE  report' = report
  BY <1>2 DEF ReportActions, CreateJson, WriteJson, CreateMarkdown, WriteMarkdown, TakeBack, TakeMarkdownBack,
              KillReporter
<1> QED BY <1>1, <1>2, ReportSteps

LEMMA FinishEvent ==
    ASSUME NEW e \in Events, IsFinish(e), Clean(e)
    PROVE  e = Finish(e.run, "completed", "yes") /\ e.run \in Runs
<1>1. e \in [event : {"run_finished"}, run : Runs, status : Statuses, grader_passed : {"yes", "no", "unknown"}]
  BY DEF Events, IsFinish
<1>2. e = [event |-> e.event, run |-> e.run, status |-> e.status, grader_passed |-> e.grader_passed]
  BY <1>1
<1> QED BY <1>1, <1>2 DEF IsFinish, Clean, Finish

\* What is counted as defect free was accepted by the grader, recorded so, and
\* found without defect by the people who graded the run.
THEOREM QualityIsEarned == Spec => []QualityEarned
<1>1. Init => QualityEarned
  BY DEF Init, QualityEarned, NoReport
<1>2. Day0Inv /\ ReportsStand /\ QualityEarned /\ [Next]_vars => QualityEarned'
  <2> SUFFICES ASSUME Day0Inv, ReportsStand, QualityEarned, [Next]_vars,
                      NEW r \in Reporters, NEW s \in report'[r].samples, DefectFree(s)
               PROVE  /\ s.run \in accepted' \ grades'.defects
                      /\ Finish(s.run, "completed", "yes") \in ToSet(log')
    BY DEF QualityEarned, DefectFree, OperationalSuccess
  <2>1. Day0TypeOK /\ Graded /\ Accepted /\ log \in Seq(Events)
    BY DEF Day0Inv, Day0TypeOK
  <2>2. ToSet(log) \subseteq ToSet(log') /\ accepted \subseteq accepted'
    <3>1. CASE Day0Next
      <4>1. CASE log' = log
        BY <2>1, <3>1, <4>1, NothingForgotten
      <4>2. ASSUME NEW e \in Events, log' = Append(log, e)
            PROVE  ToSet(log) \subseteq ToSet(log')
        BY <2>1, <4>2, EndsGrow DEF ToSet
      <4> QED BY <2>1, <3>1, <4>1, <4>2, LogGrows, NothingForgotten
    <3>2. CASE UNCHANGED day0Vars
      BY <3>2 DEF day0Vars
    <3> QED BY <3>1, <3>2 DEF Next, vars, WriteGrades, Report, Build, CreateJson, WriteJson, CreateMarkdown,
                              WriteMarkdown, TakeBack, TakeMarkdownBack, KillReporter
  <2>3. CASE report'[r] = report[r]
    <3>1. /\ s.run \in accepted \ grades.defects
          /\ Finish(s.run, "completed", "yes") \in ToSet(log)
      BY <2>3 DEF QualityEarned
    <3>2. grades # Absent
      BY <2>3 DEF ReportsStand
    <3>3. grades' = grades
      BY <3>2, ReportSteps
    <3> QED BY <2>2, <3>1, <3>3
  <2>4. CASE report'[r] = Built /\ UNCHANGED << grades, day0Vars >>
    <3>1. s \in Samples
      BY <2>4 DEF Built
    <3>2. PICK e \in Finishes :
            s = [run |-> e.run, completed |-> e.status = "completed", passed |-> e.grader_passed = "yes",
                 defect |-> e.run \in grades.defects]
      BY <3>1 DEF Samples
    <3>3. Clean(e) /\ e.run \notin grades.defects /\ s.run = e.run
      BY <3>2 DEF DefectFree, OperationalSuccess, Clean
    <3>4. e \in Events /\ IsFinish(e) /\ e \in ToSet(log)
      BY <2>1 DEF Finishes, Ends, ToSet
    <3>5. e = Finish(s.run, "completed", "yes") /\ s.run \in accepted
      BY <2>1, <3>3, <3>4, FinishEvent DEF Accepted
    <3> QED BY <2>2, <2>4, <3>3, <3>4, <3>5
  <2> QED BY <2>3, <2>4, ReportOrigin
<1> QED BY <1>1, <1>2, Day0InitInv, Day0StepInv, ReportsInit, ReportsStandStep, PTL DEF Spec

LEMMA SamplesFinite == log \in Seq(Events) => IsFiniteSet(Samples)
<1> SUFFICES ASSUME log \in Seq(Events) PROVE IsFiniteSet(Samples)
  OBVIOUS
<1> DEFINE Sample(e) == [run |-> e.run, completed |-> e.status = "completed", passed |-> e.grader_passed = "yes",
                         defect |-> e.run \in grades.defects]
           f == [i \in Ends |-> Sample(log[i])]
<1>1. IsFiniteSet(Ends)
  <2>1. Len(log) \in Int /\ DOMAIN log = 1 .. Len(log)
    OBVIOUS
  <2> QED BY <2>1, FS_Interval, FS_Subset DEF Ends
<1>2. Samples = {Sample(log[i]) : i \in Ends}
  BY DEF Samples, Finishes
<1> HIDE DEF Sample
<1>3. f \in Surjection(Ends, Samples)
  <2>1. f \in [Ends -> Samples]
    BY <1>2
  <2>2. \A s \in Samples : \E i \in Ends : f[i] = s
    BY <1>2
  <2> QED BY <2>1, <2>2 DEF Surjection
<1> QED BY <1>1, <1>3, FS_Surjection

\* Evidence that makes a report has one sample for every run of the lattice.
LEMMA CrossoverCovers ==
    ASSUME log \in Seq(Events), Readable, OfOneRun, ValidCrossover(Samples)
    PROVE  /\ {s.run : s \in Samples} = Runs
           /\ Cardinality(Samples) = Cardinality(Runs)
<1>1. IsFiniteSet(Samples)
  BY SamplesFinite
<1>2. \A e \in Events : e.run \in Runs
  BY DEF Events
<1>3. \A s \in Samples : s.run \in Runs
  BY <1>2 DEF Samples, Finishes, Ends
<1>4. Tasks \subseteq TasksOf(Samples)
  <2> SUFFICES ASSUME NEW t \in Tasks PROVE t \in TasksOf(Samples)
    OBVIOUS
  <2>1. PICK r \in RunsWith("run_finished") : r.task = t
    BY DEF Readable, OfOneRun
  <2>2. PICK i \in Ends : log[i].run = r
    BY <2>1 DEF RunsWith, Ends, IsFinish
  <2>3. \E s \in Samples : s.run = r
    <3> DEFINE s == [run |-> log[i].run, completed |-> log[i].status = "completed",
                     passed |-> log[i].grader_passed = "yes", defect |-> log[i].run \in grades.defects]
    <3>1. log[i] \in Finishes
      BY <2>2 DEF Finishes
    <3>2. s \in Samples /\ s.run = r
      BY <2>2, <3>1 DEF Samples
    <3> QED BY <3>2
  <2> QED BY <2>1, <2>3 DEF TasksOf
<1>5. \A r \in Runs : \E s \in Samples : {x \in Samples : x.run = r} = {s}
  <2> SUFFICES ASSUME NEW r \in Runs PROVE \E s \in Samples : {x \in Samples : x.run = r} = {s}
    OBVIOUS
  <2>1. r.task \in Tasks /\ r.model \in Models /\ r.arm \in Arms
        /\ r = [task |-> r.task, model |-> r.model, arm |-> r.arm]
    BY DEF Runs
  <2>2. Cardinality(Find(Samples, r.task, r.model, r.arm)) = 1
    BY <1>4, <2>1 DEF ValidCrossover
  <2>3. Find(Samples, r.task, r.model, r.arm) = {x \in Samples : x.run = r}
    BY <2>1 DEF Find
  <2>4. IsFiniteSet({x \in Samples : x.run = r})
    BY <1>1, FS_Subset
  <2>5. PICK s : {x \in Samples : x.run = r} = {s}
    BY <2>2, <2>3, <2>4, FS_Singleton
  <2> QED BY <2>5
<1>6. {s.run : s \in Samples} = Runs
  BY <1>3, <1>5
<1> DEFINE f == [s \in Samples |-> s.run]
<1>7. f \in Bijection(Samples, Runs)
  <2>1. f \in [Samples -> Runs]
    BY <1>3
  <2>2. \A s, x \in DOMAIN f : f[s] = f[x] => s = x
    BY <1>3, <1>5
  <2>3. \A r \in Runs : \E s \in Samples : f[s] = r
    BY <1>6
  <2> QED BY <2>1, <2>2, <2>3 DEF Bijection, Injection, IsInjective, Surjection
<1> QED BY <1>1, <1>6, <1>7, FS_Bijection DEF ExistsBijection

\* A report is built from the whole plan, never from the runs that happen to
\* have ended, or from a design that pairs nothing.
THEOREM ReportsCoverPlan == Spec => []ReportCoversPlan
<1>1. Init => ReportCoversPlan
  BY DEF Init, ReportCoversPlan, Reported
<1>2. Day0Inv /\ ReportsStand /\ ReportCoversPlan /\ [Next]_vars => ReportCoversPlan'
  <2> SUFFICES ASSUME Day0Inv, ReportsStand, ReportCoversPlan, [Next]_vars, NEW r \in Reporters, Reported(r)'
               PROVE  /\ {s.run : s \in report'[r].samples} = Runs
                      /\ Cardinality(report'[r].samples) = Cardinality(Runs)
    BY DEF ReportCoversPlan
  <2>1. CASE report'[r] = report[r]
    BY <2>1 DEF ReportCoversPlan, Reported
  <2>2. CASE report'[r] = Built /\ Readable /\ OfOneRun /\ ValidCrossover(Samples)
    <3>1. report'[r].samples = Samples
      BY <2>2 DEF Built
    <3> QED BY <2>2, <3>1, CrossoverCovers DEF Day0Inv, Day0TypeOK
  <2> QED BY <2>1, <2>2, ReportOrigin
<1> QED BY <1>1, <1>2, Day0InitInv, Day0StepInv, ReportsInit, ReportsStandStep, PTL DEF Spec

\* Every task of a crossover has one sample with each model and in each arm.
LEMMA TheSample ==
    ASSUME NEW samples, IsFiniteSet(samples), ValidCrossover(samples),
           NEW t \in TasksOf(samples), NEW m \in Models, NEW a \in Arms
    PROVE  /\ The(samples, t, m, a) \in samples
           /\ The(samples, t, m, a).run = [task |-> t, model |-> m, arm |-> a]
           /\ \A s \in samples : s.run = [task |-> t, model |-> m, arm |-> a] => s = The(samples, t, m, a)
<1>1. IsFiniteSet(Find(samples, t, m, a)) /\ Cardinality(Find(samples, t, m, a)) = 1
  BY FS_Subset DEF Find, ValidCrossover
<1>2. PICK s : Find(samples, t, m, a) = {s}
  BY <1>1, FS_Singleton
<1>3. The(samples, t, m, a) = s
  BY <1>2 DEF The, Find
<1> QED BY <1>2, <1>3 DEF Find

\* A cell counts the tasks its runs answered free of defects.
LEMMA CellCounts ==
    ASSUME NEW samples, IsFiniteSet(samples), ValidCrossover(samples), NEW m \in Models, NEW a \in Arms,
           \A s \in samples : s.run \in Runs
    PROVE  /\ IsFiniteSet(FreeTasks(samples, m, a))
           /\ Cardinality(FreeTasks(samples, m, a)) = Cell(samples, m, a).defect_free
<1> DEFINE free == {s \in samples : s.run.model = m /\ s.run.arm = a /\ DefectFree(s)}
           f == [s \in free |-> s.run.task]
<1>1. IsFiniteSet(free)
  BY FS_Subset
<1>2. Cell(samples, m, a).defect_free = Cardinality(free)
  <2>1. {s \in {x \in samples : x.run.model = m /\ x.run.arm = a} : DefectFree(s)} = free
    OBVIOUS
  <2> QED BY <2>1 DEF Cell
<1>3. \A s \in free : s.run = [task |-> s.run.task, model |-> m, arm |-> a] /\ s.run.task \in TasksOf(samples)
  BY DEF Runs, TasksOf
<1>4. \A s \in free : s = The(samples, s.run.task, m, a)
  <2> SUFFICES ASSUME NEW s \in free PROVE s = The(samples, s.run.task, m, a)
    OBVIOUS
  <2>1. s \in samples /\ s.run = [task |-> s.run.task, model |-> m, arm |-> a] /\ s.run.task \in TasksOf(samples)
    BY <1>3
  <2> HIDE DEF free
  <2> QED BY <2>1, TheSample
<1>5. f \in Bijection(free, FreeTasks(samples, m, a))
  <2>1. f \in [free -> FreeTasks(samples, m, a)]
    BY <1>3, <1>4 DEF FreeTasks
  <2>2. \A s, x \in free : f[s] = f[x] => s = x
    BY <1>4
  <2>3. \A t \in FreeTasks(samples, m, a) : \E s \in free : f[s] = t
    <3> SUFFICES ASSUME NEW t \in FreeTasks(samples, m, a) PROVE \E s \in free : f[s] = t
      OBVIOUS
    <3>1. t \in TasksOf(samples) /\ DefectFree(The(samples, t, m, a))
      BY DEF FreeTasks
    <3>2. /\ The(samples, t, m, a) \in samples
          /\ The(samples, t, m, a).run = [task |-> t, model |-> m, arm |-> a]
      BY <3>1, TheSample
    <3> QED BY <3>1, <3>2
  <2> QED BY <2>1, <2>2, <2>3 DEF Bijection, Injection, IsInjective, Surjection
<1> QED BY <1>1, <1>2, <1>5, FS_Bijection DEF ExistsBijection

\* The sum of the differences is the difference of the sums.
LEMMA SumsDiffer ==
    ASSUME NEW S, NEW T, IsFiniteSet(S), IsFiniteSet(T)
    PROVE  SumOfDifferences(S, T) = Cardinality(S) - Cardinality(T)
<1>1. /\ Cardinality(S \ T) = Cardinality(S) - Cardinality(S \cap T)
      /\ Cardinality(T \ S) = Cardinality(T) - Cardinality(T \cap S)
  BY FS_Difference
<1>2. S \cap T = T \cap S
  OBVIOUS
<1>3. Cardinality(S \cap T) \in Nat /\ Cardinality(S) \in Nat /\ Cardinality(T) \in Nat
  BY FS_Intersection, FS_CardinalityType
<1> QED BY <1>1, <1>2, <1>3 DEF SumOfDifferences

Agree(rep) ==
    LET Free(m, a) == rep.cells[<< m, a >>].defect_free
    IN  /\ \A m \in Models : rep.paired_effects[m] = Free(m, "on") - Free(m, "off")
        /\ \A a \in Arms : rep.model_effects[a] = Free("reference", a) - Free("baseline", a)
        /\ \A a \in Arms, t \in TasksOf(rep.samples) :
              LET deployed == IF t \in rep.lazy_cascades[a].escalated THEN "reference" ELSE "baseline"
              IN  t \in rep.lazy_cascades[a].defect_free <=> DefectFree(The(rep.samples, t, deployed, a))

LEMMA BuiltAgrees ==
    ASSUME log \in Seq(Events), ValidCrossover(Samples)
    PROVE  Agree(Built)
<1>1. IsFiniteSet(Samples)
  BY SamplesFinite
<1>2. \A s \in Samples : s.run \in Runs
  BY DEF Samples, Finishes, Ends, Events
<1>3. \A m \in Models, a \in Arms :
        /\ Built.cells[<< m, a >>].defect_free = Cardinality(FreeTasks(Samples, m, a))
        /\ IsFiniteSet(FreeTasks(Samples, m, a))
  BY <1>1, <1>2, CellCounts DEF Built
<1>4. "on" \in Arms /\ "off" \in Arms /\ "reference" \in Models /\ "baseline" \in Models
  BY DEF Arms, Models
<1>5. \A m \in Models : Built.paired_effects[m] =
        Built.cells[<< m, "on" >>].defect_free - Built.cells[<< m, "off" >>].defect_free
  <2> SUFFICES ASSUME NEW m \in Models
               PROVE  Built.paired_effects[m] =
                        Built.cells[<< m, "on" >>].defect_free - Built.cells[<< m, "off" >>].defect_free
    OBVIOUS
  <2>1. Built.paired_effects[m] = SumOfDifferences(FreeTasks(Samples, m, "on"), FreeTasks(Samples, m, "off"))
    BY DEF Built, PairedEffect
  <2> QED BY <1>3, <1>4, <2>1, SumsDiffer
<1>6. \A a \in Arms : Built.model_effects[a] =
        Built.cells[<< "reference", a >>].defect_free - Built.cells[<< "baseline", a >>].defect_free
  <2> SUFFICES ASSUME NEW a \in Arms
               PROVE  Built.model_effects[a] =
                        Built.cells[<< "reference", a >>].defect_free - Built.cells[<< "baseline", a >>].defect_free
    OBVIOUS
  <2>1. Built.model_effects[a] = SumOfDifferences(FreeTasks(Samples, "reference", a), FreeTasks(Samples, "baseline", a))
    BY DEF Built, ModelEffect
  <2> QED BY <1>3, <1>4, <2>1, SumsDiffer
<1>7. ASSUME NEW a \in Arms, NEW t \in TasksOf(Built.samples)
      PROVE  LET deployed == IF t \in Built.lazy_cascades[a].escalated THEN "reference" ELSE "baseline"
             IN  t \in Built.lazy_cascades[a].defect_free <=> DefectFree(The(Built.samples, t, deployed, a))
  <2>1. Built.samples = Samples /\ Built.lazy_cascades[a] = Cascade(Samples, a)
    BY DEF Built
  <2>2. t \in Cascade(Samples, a).escalated <=> ~ OperationalSuccess(The(Samples, t, "baseline", a))
    BY <1>7, <2>1 DEF Cascade
  <2>3. t \in Cascade(Samples, a).defect_free <=>
          \/ DefectFree(The(Samples, t, "baseline", a))
          \/ ~ OperationalSuccess(The(Samples, t, "baseline", a)) /\ DefectFree(The(Samples, t, "reference", a))
    BY <1>7, <2>1 DEF Cascade
  <2>4. DefectFree(The(Samples, t, "baseline", a)) => OperationalSuccess(The(Samples, t, "baseline", a))
    BY DEF DefectFree
  <2> QED BY <2>1, <2>2, <2>3, <2>4
<1> QED BY <1>5, <1>6, <1>7 DEF Agree

\* The three views of a report agree: its effects are differences of its
\* cells, and the cascade answers well what the model it deploys answered well.
THEOREM ReportViewsAgree == Spec => []ViewsAgree
<1> DEFINE V == \A r \in Reporters : report[r] # NoReport => Agree(report[r])
<1>1. Init => V
  BY DEF Init
<1>2. Day0Inv /\ ReportsStand /\ V /\ [Next]_vars => V'
  <2> SUFFICES ASSUME Day0Inv, ReportsStand, V, [Next]_vars, NEW r \in Reporters, report'[r] # NoReport
               PROVE  Agree(report'[r])
    BY DEF Agree
  <2> QED BY BuiltAgrees, ReportOrigin DEF Day0Inv, Day0TypeOK
<1>3. V => ViewsAgree
  BY DEF ViewsAgree, Agree, Reported
<1> HIDE DEF V
<1> QED BY <1>1, <1>2, <1>3, Day0InitInv, Day0StepInv, ReportsInit, ReportsStandStep, PTL DEF Spec

=========================================================================
