SPECIFICATION Spec
CONSTANTS
    p1 = p1
    p2 = p2
    Procs <- Two
    Tasks <- OneTask
    TaskOrder <- OneTaskOrder
    Repetitions = 1
    Costs <- OneCost
    Inputs = {i1}
    BuiltHomes <- MCBuiltHomes
    Captures <- MCCaptures
    MaxKills = 1
    MaxInvoked = 3
    NoRun = NoRun
INVARIANTS ResumableOrComplete ExitTellsTruth
PROPERTIES OnlyJudgedSlotsScored CleanEnd ImplementsSlotLog
SYMMETRY ProcSymmetry
CHECK_DEADLOCK FALSE
