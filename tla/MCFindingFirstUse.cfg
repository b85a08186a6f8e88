SPECIFICATION Spec
CONSTANTS
    p1 = p1
    p2 = p2
    p3 = p3
    p4 = p4
    Procs <- TwoHooks
    Spawners <- TwoSpawns
    Resetters <- None
    Budget = 1
    Absent = Absent
    InitialFile = Absent
    Nobody = Nobody
    MaxCrashes = 0
    MaxErrors = 0
INVARIANTS SpawnBudget
