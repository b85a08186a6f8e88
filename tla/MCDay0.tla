------------------------------- MODULE MCDay0 -------------------------------
(***************************************************************************)
(* Instances of the day-0 evaluation and its report for TLC: two           *)
(* invocations with one run id, three tasks, two reporters.                *)
(***************************************************************************)
EXTENDS Day3Report, TLC

CONSTANTS e1, e2, r1, r2

ThreeTasks == << "t1", "t2", "t3" >>
TwoProcs == {e1, e2}
TwoReporters == {r1, r2}
MCSymmetry == Permutations(TwoProcs) \cup Permutations(TwoReporters)
FirstTask == {"t1"}
SecondTask == {"t2"}

Live == [manifest |-> "valid", models_distinct |-> TRUE, dry_run |-> FALSE, confirm_billable |-> TRUE,
         verification_image |-> "i1", grader_image |-> "i2", arm_design |-> "crossover"]
MCOptions == {
    Live,
    [Live EXCEPT !.arm_design = "holdout"],
    [Live EXCEPT !.dry_run = TRUE, !.confirm_billable = FALSE, !.grader_image = "none"],
    [Live EXCEPT !.confirm_billable = FALSE],
    [Live EXCEPT !.grader_image = "i1"],
    [Live EXCEPT !.manifest = "duplicate"]}

Lattice == [task : {"t1", "t2", "t3"}, model : {"baseline", "reference"}, arm : {"on", "off"}]
Grades(sessions, defects) == [of_this_run |-> TRUE, sessions |-> sessions, defects |-> defects]
Run(t, m, a) == [task |-> t, model |-> m, arm |-> a]
MCGradeFiles == {
    Grades(Lattice, {}),
    Grades(Lattice, {Run("t2", "baseline", "on")}),
    Grades({r \in Lattice : r.task # "t3"}, {}),
    [Grades(Lattice, {}) EXCEPT !.of_this_run = FALSE]}
=============================================================================
