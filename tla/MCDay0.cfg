SPECIFICATION Spec
CONSTANTS
    e1 = e1
    e2 = e2
    r1 = r1
    r2 = r2
    Procs <- TwoProcs
    Reporters <- TwoReporters
    TaskOrder <- ThreeTasks
    HeldOut <- FirstTask
    ArmsReversed <- FirstTask
    ModelsReversed <- SecondTask
    Options <- MCOptions
    GradeFiles <- MCGradeFiles
    MaxSetbacks = 1
    Nobody = Nobody
    Absent = Absent
INVARIANTS EvaluationTold LeakRecorded ReportCoversPlan QualityEarned ViewsAgree PairWhole
SYMMETRY MCSymmetry
CHECK_DEADLOCK FALSE
